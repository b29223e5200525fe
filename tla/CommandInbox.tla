----------------------------- MODULE CommandInbox -----------------------------
(* The commands of one session that carry a prompt, in the agent process:      *)
(* CommandInbox, v4-gateway handleCommand and queryCommands, the persistent     *)
(* command index and its loader, the rows of session_input, and what the       *)
(* runtime does with an accepted prompt.  Requests come from the transport one *)
(* at a time (transport.ts); the runtime's steps, its events, the deactivation *)
(* of an idle session and the end of the process come between their awaits.    *)
EXTENDS Integers, SequencesExt

CONSTANTS
  Command,    \* command ids
  Limit,      \* idempotencyTablePerSession: settled answers kept
  MaxAnswers, \* bound: answers given in all
  MaxCrashes  \* bound: ends of the process

ASSUME InboxAssumption == Limit \in Nat \ {0} /\ MaxAnswers \in Nat /\ MaxCrashes \in Nat

VARIABLES
  row,        \* session_input, durable: [Command -> Row]
  transcript, \* messages of the command in the transcript, durable
  work,       \* [Command -> Work]: the prompt in the runtime
  session,    \* "cold" or "live": is it in the registry
  live,       \* liveInputs: pinned commands
  settled,    \* the LRU of answers: sequence of [command, ack], oldest first
  index,      \* cached facts of the session, or None
  load,       \* the load the request awaits, or None
  handling,   \* the request in hand, or Idle
  told,       \* history: answers given, per command
  crashes

store == <<row, transcript>>
inbox == <<live, settled>>
vars == <<row, transcript, work, session, live, settled, index, load, handling, told, crashes>>

Row == {"none", "admitted", "promoted", "cancelled", "discarded"}
Work == {"none", "held", "entering", "deleted"}
Answer == {"accepted", "duplicate", "known", "failed", "lost", "noop", "rejected", "unknown", "unavailable"}
Stage == {"memory", "transcript", "discarded", "decide", "admit", "execute", "finish", "refused"}
None == [none |-> TRUE]
Idle == [stage |-> "idle"]
Request == [command : Command, query : BOOLEAN, stage : Stage, again : BOOLEAN]

Init ==
  /\ row = [c \in Command |-> "none"] /\ transcript = [c \in Command |-> 0]
  /\ work = [c \in Command |-> "none"] /\ session = "live"
  /\ live = {} /\ settled = <<>> /\ index = None /\ load = None
  /\ handling = Idle /\ told = [c \in Command |-> <<>>] /\ crashes = 0

----------------------------------------------------------------------------
\* The settled answers but that of c: one at most goes, since c has one at most.
Forget(c) == RemoveFirstMatch(settled, LAMBDA s : s.command = c)

\* Mutant of Remember: one answer too many is kept.
RememberOneMore(c, ack) ==
  LET list == Append(Forget(c), [command |-> c, ack |-> ack])
  IN  IF Len(list) > Limit + 1 THEN Tail(list) ELSE list

\* rememberSettled: the newest answer last, the oldest beyond the limit dropped.
Remember(c, ack) ==
  LET list == Append(Forget(c), [command |-> c, ack |-> ack])
  IN  IF Len(list) > Limit THEN Tail(list) ELSE list

\* releaseLiveInput without an answer of its own: the pinned one is remembered.
Release(c) ==
  /\ live' = live \ {c}
  /\ settled' = IF c \in live THEN Remember(c, "accepted") ELSE settled

\* invalidate: what is cached or being loaded is not used by a later lookup.
Invalidate ==
  /\ index' = None
  /\ load' = IF load = None THEN None ELSE [load EXCEPT !.kept = FALSE]

\* The answer to a request about a command with this ack: retryAck, or the ack itself.
Repeated(ack) ==
  IF handling.query THEN IF ack = "accepted" THEN "known" ELSE ack
  ELSE IF ack \in {"failed", "lost"} THEN ack ELSE "duplicate"
Give(answer) ==
  /\ handling' = Idle
  /\ told' = [told EXCEPT ![handling.command] = Append(@, answer)]
GoTo(stage) == handling' = [handling EXCEPT !.stage = stage] /\ UNCHANGED told

\* The inFlight entry of the request in hand.
InFlight == handling.stage \in {"admit", "execute", "finish", "refused"}

Send(c, query) ==
  /\ handling = Idle /\ MapThenSumSet(LAMBDA d : Len(told[d]), Command) < MaxAnswers
  /\ handling' = [command |-> c, query |-> query, stage |-> "memory", again |-> FALSE]
  /\ UNCHANGED <<store, work, session, inbox, index, load, told, crashes>>

\* The entries of lookupExact in memory; a settled one becomes the newest.
LookInMemory ==
  /\ handling.stage = "memory"
  /\ LET c == handling.command
         hits == {i \in DOMAIN settled : settled[i].command = c}
     IN  \/ c \in live /\ Give(Repeated("accepted")) /\ UNCHANGED settled
         \/ /\ c \notin live
            /\ \E i \in hits : Give(Repeated(settled[i].ack)) /\ settled' = Remember(c, settled[i].ack)
         \/ c \notin live /\ hits = {} /\ GoTo("transcript") /\ UNCHANGED settled
  /\ UNCHANGED <<store, work, session, live, index, load, crashes>>

\* One persistent source of lookupExact, and what follows a miss in both.
LookUp(facts) ==
  LET c == handling.command IN
  CASE handling.stage = "transcript" /\ c \in facts.transcript -> Give(Repeated("accepted"))
    [] handling.stage = "transcript" /\ c \notin facts.transcript -> GoTo("discarded")
    [] handling.stage = "discarded" /\ c \in facts.lost -> Give("lost")
    [] handling.stage = "discarded" /\ c \in facts.cancelled -> Give("failed")
    [] OTHER -> IF handling.query THEN Give("unknown")
                ELSE IF handling.again THEN GoTo("decide")
                ELSE handling' = [handling EXCEPT !.stage = "memory", !.again = TRUE] /\ UNCHANGED told

Looking == handling.stage \in {"transcript", "discarded"} /\ load = None

LookInIndex ==
  /\ Looking /\ index # None
  /\ LookUp(index)
  /\ UNCHANGED <<store, work, session, inbox, index, load, crashes>>

\* ensureSession: the loader asks first whether the session is live.
BeginLoad ==
  /\ Looking /\ index = None
  /\ load' = [dead |-> session = "cold", facts |-> None, kept |-> TRUE]
  /\ UNCHANGED <<store, work, session, inbox, index, handling, told, crashes>>

Facts(rows) ==
  [transcript |-> {c \in Command : transcript[c] > 0},
   lost |-> {c \in Command : rows[c] = "discarded"},
   cancelled |-> {c \in Command : rows[c] = "cancelled"}]
Swept == [c \in Command |-> IF row[c] = "admitted" THEN "discarded" ELSE row[c]]

\* Mutant of LoadReads: inputs an earlier life admitted are left as they are.
LoadReadsOnly ==
  /\ load # None /\ load.facts = None
  /\ load' = [load EXCEPT !.facts = Facts(row)]
  /\ UNCHANGED <<store, work, session, inbox, index, handling, told, crashes>>

\* loadPersistentCommandFacts: without a runtime, what was admitted is discarded.
LoadReads ==
  /\ load # None /\ load.facts = None
  /\ row' = IF load.dead THEN Swept ELSE row
  /\ load' = [load EXCEPT !.facts = Facts(row')]
  /\ UNCHANGED <<transcript, work, session, inbox, index, handling, told, crashes>>

\* The awaiting lookup uses what was loaded; only a load nobody invalidated is cached.
LoadEnds ==
  /\ load # None /\ load.facts # None
  /\ LookUp(load.facts)
  /\ load' = None /\ index' = IF load.kept THEN load.facts ELSE index
  /\ UNCHANGED <<store, work, session, inbox, crashes>>

\* A failed load is not cached and the request says so.
LoadFails ==
  /\ load # None /\ Give("unavailable") /\ load' = None
  /\ UNCHANGED <<store, work, session, inbox, index, crashes>>

----------------------------------------------------------------------------
\* decide: no session, a guard's verdict, or on to the admission.
Decide ==
  /\ handling.stage = "decide"
  /\ \/ Give("rejected") /\ UNCHANGED settled
     \/ /\ session = "live" /\ Give("noop")
        /\ settled' = Remember(handling.command, "noop")
     \/ session = "live" /\ GoTo("admit") /\ UNCHANGED settled
  /\ UNCHANGED <<store, work, session, live, index, load, crashes>>

\* Mutant of Admit: the row is saved and the input is not pinned.
AdmitUnpinned ==
  /\ handling.stage = "admit"
  /\ row' = [row EXCEPT ![handling.command] = IF @ = "none" THEN "admitted" ELSE @]
  /\ GoTo("execute")
  /\ UNCHANGED <<transcript, work, session, inbox, index, load, crashes>>

\* The row is saved (a row of an earlier attempt keeps its status) and the input pinned.
Admit ==
  /\ handling.stage = "admit"
  /\ LET c == handling.command IN
       /\ row' = [row EXCEPT ![c] = IF @ = "none" THEN "admitted" ELSE @]
       /\ live' = live \union {c} /\ settled' = Forget(c)
  /\ GoTo("execute")
  /\ UNCHANGED <<transcript, work, session, index, load, crashes>>

AdmitFails ==
  /\ handling.stage = "admit"
  /\ settled' = Remember(handling.command, "failed") /\ Give("failed")
  /\ UNCHANGED <<store, work, session, live, index, load, crashes>>

\* executeCommand: the runtime starts a turn with the prompt or queues it.
Hand ==
  /\ handling.stage = "execute"
  /\ work' = [work EXCEPT ![handling.command] = "held"] /\ GoTo("finish")
  /\ UNCHANGED <<store, session, inbox, index, load, crashes>>

\* settle: the final answer goes to the pin, or is remembered when it is gone.
Return ==
  /\ handling.stage = "finish" /\ Give("accepted")
  /\ settled' = IF handling.command \in live THEN settled ELSE Remember(handling.command, "accepted")
  /\ UNCHANGED <<store, work, session, live, index, load, crashes>>

\* executeCommand throws: the row is cancelled, or that fails too.
Refused ==
  /\ handling.stage = "execute" /\ GoTo("refused")
  /\ \/ UNCHANGED row
     \/ row' = [row EXCEPT ![handling.command] = IF @ = "admitted" THEN "cancelled" ELSE @]
  /\ UNCHANGED <<transcript, work, session, inbox, index, load, crashes>>

\* Then the pin is released with the final answer.
GiveUp ==
  /\ handling.stage = "refused"
  /\ \E answer \in {"failed", "noop"} :
       Give(answer) /\ settled' = Remember(handling.command, answer)
  /\ live' = live \ {handling.command}
  /\ UNCHANGED <<store, work, session, index, load, crashes>>

----------------------------------------------------------------------------
\* persistUserPrompt: message and row in one transaction, whatever the row says.
Enter(c) ==
  /\ work[c] = "held" /\ work' = [work EXCEPT ![c] = "entering"]
  /\ row' = [row EXCEPT ![c] = "promoted"]
  /\ transcript' = [transcript EXCEPT ![c] = @ + 1]
  /\ UNCHANGED <<session, inbox, index, load, handling, told, crashes>>

\* Mutant of Entered: the cached facts are kept.
EnteredStale(c) ==
  /\ work[c] = "entering" /\ work' = [work EXCEPT ![c] = "none"]
  /\ Release(c)
  /\ UNCHANGED <<store, session, index, load, handling, told, crashes>>

\* The SessionInputPromoted event reaches the gateway.
Entered(c) ==
  /\ work[c] = "entering" /\ work' = [work EXCEPT ![c] = "none"]
  /\ Invalidate /\ Release(c)
  /\ UNCHANGED <<store, session, handling, told, crashes>>

\* A queued input is deleted: the row first,
Delete(c) ==
  /\ work[c] = "held" /\ work' = [work EXCEPT ![c] = "deleted"]
  /\ row' = [row EXCEPT ![c] = IF @ = "admitted" THEN "cancelled" ELSE @]
  /\ UNCHANGED <<transcript, session, inbox, index, load, handling, told, crashes>>

\* Mutant of Deleted: the cached facts are kept.
DeletedStale(c) ==
  /\ work[c] = "deleted" /\ work' = [work EXCEPT ![c] = "none"]
  /\ Release(c)
  /\ UNCHANGED <<store, session, index, load, handling, told, crashes>>

\* then the TurnSteerDiscarded event reaches the gateway.
Deleted(c) ==
  /\ work[c] = "deleted" /\ work' = [work EXCEPT ![c] = "none"]
  /\ Invalidate /\ Release(c)
  /\ UNCHANGED <<store, session, handling, told, crashes>>

\* The turn ends before the prompt is persisted: a UserPromptSubmit hook blocks it.
Blocked(c) ==
  /\ work[c] = "held" /\ work' = [work EXCEPT ![c] = "none"]
  /\ UNCHANGED <<store, session, inbox, index, load, handling, told, crashes>>

\* Mutant of Deactivate: pinned inputs do not hold the session.
DeactivatePinned ==
  /\ session = "live" /\ ~InFlight
  /\ session' = "cold" /\ live' = {} /\ settled' = <<>>
  /\ UNCHANGED <<store, work, index, load, handling, told, crashes>>

\* The resident pool deactivates an idle session; its persistent index stays.
Deactivate ==
  /\ session = "live" /\ ~InFlight /\ live = {} /\ \A c \in Command : work[c] = "none"
  /\ session' = "cold" /\ settled' = <<>>
  /\ UNCHANGED <<store, work, live, index, load, handling, told, crashes>>

\* A cold session is resumed by a request of its own: admitted inputs are discarded.
Resume ==
  /\ session = "cold" /\ handling = Idle
  /\ session' = "live" /\ row' = Swept
  /\ UNCHANGED <<transcript, work, inbox, index, load, handling, told, crashes>>

\* The process ends and another one starts.
Crash ==
  /\ crashes < MaxCrashes /\ crashes' = crashes + 1
  /\ work' = [c \in Command |-> "none"] /\ session' = "cold"
  /\ live' = {} /\ settled' = <<>> /\ index' = None /\ load' = None /\ handling' = Idle
  /\ UNCHANGED <<store, told>>

Handle ==
  \/ LookInMemory \/ LookInIndex \/ BeginLoad \/ LoadReads \/ LoadEnds
  \/ Decide \/ Admit \/ AdmitFails \/ Hand \/ Return \/ Refused \/ GiveUp
Runtime(c) == Enter(c) \/ Entered(c) \/ Delete(c) \/ Deleted(c) \/ Blocked(c)

Next ==
  \/ \E c \in Command : Runtime(c) \/ \E query \in BOOLEAN : Send(c, query)
  \/ Handle \/ LoadFails \/ Deactivate \/ Resume \/ Crash

Spec == Init /\ [][Next]_vars

----------------------------------------------------------------------------
TypeOK ==
  /\ row \in [Command -> Row] /\ transcript \in [Command -> Nat] /\ work \in [Command -> Work]
  /\ session \in {"cold", "live"} /\ live \subseteq Command /\ crashes \in 0..MaxCrashes
  /\ Len(settled) <= Limit
  /\ \A i, j \in DOMAIN settled : settled[i].command = settled[j].command => i = j
  /\ told \in [Command -> Seq(Answer)]
  /\ handling \in Request \union {Idle}
  /\ load # None => handling.stage \in {"transcript", "discarded"}

\* What the runtime holds is pinned, whatever events, failures, evictions and
\* deactivations came in between: a repeated request finds it in memory, and the
\* session stays in the registry (releaseLiveInput, assertSessionRuntimeDeactivatable).
PinnedWhileHeld ==
  \A c \in Command : work[c] # "none" => c \in live /\ session = "live"

\* A command once answered "accepted" is never unknown again and never accepted,
\* rejected or a noop: memory, the transcript or its row tell of it, across the
\* eviction of its answer, the deactivation of the session and the end of the
\* process (lookupExact, loadPersistentCommandFacts, discardPersistedPendingSteerInputs).
AcceptedStaysKnown ==
  \A c \in Command : \A i, j \in DOMAIN told[c] :
    i < j /\ told[c][i] = "accepted" => told[c][j] \in {"duplicate", "known", "failed", "lost", "unavailable"}

\* A prompt whose row is cancelled is not in the runtime: the loader's comment calls the
\* row a final fact that keeps a repeat from running.  It does not hold: a refused command
\* leaves the cached facts as they were (README, section 4).
CancelledStaysOut ==
  \A c \in Command : row[c] = "cancelled" => work[c] # "held"

\* A pin belongs to a prompt the runtime holds or to the request in hand, as the comment
\* of releaseLiveInput says.  It does not hold (README, section 4).
PinsHaveOwners ==
  \A c \in live : work[c] # "none" \/ (InFlight /\ handling.command = c)

\* What the client may rely on about each prompt.
fate ==
  [c \in Command |->
     IF work[c] = "held" THEN "taken"
     ELSE IF transcript[c] > 0 THEN "entered"
     ELSE IF Contains(told[c], "lost") THEN "dead" ELSE "open"]
Promise == INSTANCE InputFate
\* The inbox, the index, the ledger and the runtime together keep it: a prompt is
\* in the runtime once at a time and in the transcript once; no answer says failed,
\* lost or unknown of one that is on its way; and a lost one never enters.
FatePromise == Promise!Spec
=============================================================================
