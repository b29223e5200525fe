------------------------------- MODULE InputFate -------------------------------
(* What a client of protocol v4 may rely on about the commands it sent: a      *)
(* prompt is taken by the runtime at most once at a time and enters the        *)
(* transcript at most once; "unknown" and "failed" are said only of a prompt    *)
(* that is not on its way; and one reported lost never enters afterwards.       *)
EXTENDS Sequences

CONSTANTS Command, Answer

VARIABLES
  fate,  \* [Command -> Fate]
  told   \* [Command -> Seq(Answer)]: the answers given about it

Fate == {"open", "taken", "entered", "dead"}

Init == fate = [c \in Command |-> "open"] /\ told = [c \in Command |-> <<>>]

Take(c) ==
  /\ fate[c] = "open" /\ fate' = [fate EXCEPT ![c] = "taken"]
  /\ UNCHANGED told

Enter(c) ==
  /\ fate[c] = "taken" /\ fate' = [fate EXCEPT ![c] = "entered"]
  /\ UNCHANGED told

\* Removed from the queue, blocked by a hook, or gone with the process.
Lose(S) ==
  /\ S # {} /\ \A c \in S : fate[c] = "taken"
  /\ fate' = [c \in Command |-> IF c \in S THEN "open" ELSE fate[c]]
  /\ UNCHANGED told

Tell(c, answer) ==
  /\ answer \in {"unknown", "failed", "lost"} => fate[c] \in {"open", "dead"}
  /\ told' = [told EXCEPT ![c] = Append(@, answer)]
  /\ fate' = IF answer = "lost" THEN [fate EXCEPT ![c] = "dead"] ELSE fate

Next ==
  \/ \E c \in Command : Take(c) \/ Enter(c) \/ \E answer \in Answer : Tell(c, answer)
  \/ \E S \in SUBSET Command : Lose(S)

Spec == Init /\ [][Next]_<<fate, told>>
=============================================================================
