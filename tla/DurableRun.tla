----------------------------- MODULE DurableRun -----------------------------
(* What a workflow run promises its script and its user, whatever crashes,     *)
(* stops and resumes happen in between: each call has one answer, given in the *)
(* order the script awaits them and never changed, and the run ends once, as   *)
(* the answers say.                                                            *)
EXTENDS FiniteSets

CONSTANTS Call,     \* host calls of the script
          After,    \* [Call -> SUBSET Call]: the answers the script awaits before it
          Fatal,    \* calls whose rejection ends the script
          Final,    \* calls awaited before the script returns
          Result, Failure, None

VARIABLES answer,   \* [Call -> the answer, None before]
          status    \* "open", "completed", "errored", "superseded"

vars == <<answer, status>>

Open == status = "open"
Answered == {c \in Call : answer[c] # None}
Thrown == \E c \in Fatal : answer[c] = Failure

Init ==
  /\ answer = [c \in Call |-> None]
  /\ status = "open"

Answer(c) ==
  /\ Open /\ answer[c] = None /\ After[c] \subseteq Answered
  /\ \E out \in Result \cup {Failure} : answer' = [answer EXCEPT ![c] = out]
  /\ UNCHANGED status

Complete ==
  /\ Open /\ Final \subseteq Answered /\ ~Thrown
  /\ status' = "completed" /\ UNCHANGED answer

Fail ==
  /\ Open /\ Thrown
  /\ status' = "errored" /\ UNCHANGED answer

Supersede ==
  /\ Open
  /\ status' = "superseded" /\ UNCHANGED answer

Next == (\E c \in Call : Answer(c)) \/ Complete \/ Fail \/ Supersede

Spec == Init /\ [][Next]_vars

=============================================================================
