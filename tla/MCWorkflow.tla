----------------------------- MODULE MCWorkflow -----------------------------
(* Scripts for the engine, and what they inherit from a predecessor.          *)
EXTENDS WorkflowEngine

\* An actor is asked from three sites: at once, when another actor has answered and
\* when a world operation has; the last two come in the order of those answers.
FanInSite == <<"s", "s", "w", "t1", "t2">>
FanInActor == <<1, 2, 0, 2, 2>>
FanInAfter == <<{}, {}, {}, {1}, {3}>>
FanInInput == <<"p1", "p2", "w", "q1", "q2">>

\* Its predecessor asked the second actor p2, which used tools, and then q1, which did not.
FanInImport ==
  <<<<>>, <<[input |-> "p2", pure |-> FALSE, out |-> "r"], [input |-> "q1", pure |-> TRUE, out |-> "r"]>>>>
FanInWorld == [i \in {Input[c] : c \in Call} |-> <<>>]

\* One effect twice, in sequence; the predecessor got to the first.
TwiceSite == <<"w", "w">>
TwiceActor == <<0, 0>>
TwiceAfter == <<{}, {1}>>
TwiceInput == <<"w", "w">>
TwiceImport == <<>>
TwiceWorld == [i \in {"w"} |-> <<"r">>]

\* Two pipelines in parallel, written as one callback: their second asks share a
\* site.
PipeSite == <<"s", "s", "t", "t">>
PipeActor == <<1, 2, 1, 2>>
PipeAfter == <<{}, {}, {1}, {2}>>
PipeInput == <<"p", "q", "r1", "r2">>
PipeSameInput == <<"p", "q", "r", "r">>
PipeImport == <<<<>>, <<>>>>
PipeWorld == [i \in {Input[c] : c \in Call} |-> <<>>]
=============================================================================
