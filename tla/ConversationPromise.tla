-------------------------- MODULE ConversationPromise --------------------------
(* What a page is promised of a conversation: what it shows is, row for row,   *)
(* what the log of one runtime holds up to some event, and it only moves on -  *)
(* further along the same log, or to the log of a later runtime.               *)
EXTENDS Naturals, Sequences, SequencesExt, Subsequence

CONSTANTS Hidden, MaxEpochs, MaxEvents

VARIABLES
  logs,  \* the log of every runtime so far
  view   \* what the page shows, of which log and up to which event

Nothing == [epoch |-> 0, seq |-> 0, rows |-> <<>>]

\* What the page shows of a log up to its n-th event.
RowsOf(ep, n) ==
  Only(SubSeq(logs[ep], 1, n), {event \in (1..MaxEpochs) \X (1..MaxEvents) : event[2] \notin Hidden})

Init == logs = <<>> /\ view = Nothing

Write ==
  /\ logs # <<>>
  /\ logs' = [logs EXCEPT ![Len(logs)] = Append(@, <<Len(logs), Len(@) + 1>>)]
  /\ UNCHANGED view

\* A new runtime; what it finds of the log was durable.
Start ==
  /\ \E durable \in IF logs = <<>> THEN {<<>>, << <<1, 1>> >>}
                    ELSE {SubSeq(Last(logs), 1, n) : n \in 0..Len(Last(logs))} :
       logs' = Append(logs, durable)
  /\ UNCHANGED view

Show ==
  /\ \E ep \in DOMAIN logs : \E n \in 0..Len(logs[ep]) :
       /\ ep > view.epoch \/ (ep = view.epoch /\ n >= view.seq)
       /\ view' = [epoch |-> ep, seq |-> n, rows |-> RowsOf(ep, n)]
  /\ UNCHANGED logs

Next == Write \/ Start \/ Show
Spec == Init /\ [][Next]_<<logs, view>>
=============================================================================
