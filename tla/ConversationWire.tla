--------------------------- MODULE ConversationWire ---------------------------
(* What travels between the agent process and the page that shows one of its   *)
(* conversations: requests to the agent, its replies, and the wire of topic    *)
(* frames and runtime events.  Replies and the wire are delivered in order     *)
(* each, and in no order between them: a frame may overtake the ACK that was   *)
(* sent before it (ui/src/v4/ackActivationBarrier.ts).  A transcript is the    *)
(* sequence of its events; the delivery profile hides some of them.            *)
EXTENDS Naturals, Sequences, FiniteSets, SequencesExt, Subsequence

CONSTANTS
  MaxEvents,   \* bound on the events of the conversation
  MaxEpochs,   \* bound on the runtimes (logEpoch)
  Plans,       \* sets of disturbances that may come together ...
  MaxMishaps,  \* ... and how many may
  Hidden       \* positions in the log whose event has no delta for this profile

ASSUME WireAssumption ==
  /\ MaxEvents \in Nat /\ MaxEpochs \in Nat \ {0} /\ MaxMishaps \in Nat
  /\ Hidden \subseteq 1..MaxEvents
  /\ UNION Plans \subseteq {"lose", "repeat", "saturate", "rehydrate", "recycle", "stale", "close"}

VARIABLES
  requests,  \* sent by the page, not handled by the agent
  replies,   \* sent by the agent, not handled by the page
  wire,      \* topic frames and runtime events sent to the page
  mishaps    \* disturbances so far

channels == <<requests, replies, wire, mishaps>>

None == 0
NoBase == [epoch |-> None, seq |-> 0]
Kind == {"initial", "online", "recovery"}

\* An event: the runtime that wrote it and its sequence number.
Event == (1..MaxEpochs) \X (1..MaxEvents)
\* The deltas the profile shows of log between two sequence numbers.
Visible == {event \in Event : event[2] \notin Hidden}
Shown(log, from, to) == Only(SubSeq(log, from + 1, to), Visible)

NoMishap == [number |-> 0, kinds |-> {}]
Mishap(kind) ==
  /\ mishaps.number < MaxMishaps
  /\ \E plan \in Plans : mishaps.kinds \cup {kind} \subseteq plan
  /\ mishaps' = [number |-> mishaps.number + 1, kinds |-> mishaps.kinds \cup {kind}]

NextFrame == wire # <<>> /\ Head(wire).type = "frame"

\* The next frame is lost: it arrives broken, or some of its fragments never do.
LoseFrame ==
  /\ Mishap("lose") /\ NextFrame /\ Head(wire).damage = "none"
  /\ \E damage \in {"corrupt", "partial"} : wire' = <<[Head(wire) EXCEPT !.damage = damage]>> \o Tail(wire)
  /\ UNCHANGED <<requests, replies>>

\* A reconnecting transport sends the next frame again, behind what it sent since.
RepeatFrame ==
  /\ Mishap("repeat") /\ NextFrame
  /\ wire' = Append(wire, Head(wire))
  /\ UNCHANGED <<requests, replies>>
=============================================================================
