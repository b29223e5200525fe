--------------------------- MODULE ConversationTopic ---------------------------
(* The authority of one conversation topic in the agent process, for one       *)
(* connection: ConversationTopicPublisher, the flush timers, flow control and  *)
(* subscription requests of the v4 gateway, and the host's route to it         *)
(* (zcodeAgentService.ts).  The agent handles requests one at a time           *)
(* (zcode-protocol/transport.ts); a reserved initial or recovery frame is sent *)
(* behind its ACK and committed then, in a step after the one that reserved it.*)
EXTENDS ConversationWire, Integers

CONSTANTS
  Retention,  \* retained log entries
  MaxBuffer   \* deltas a subscriber's buffer holds

ASSUME TopicAssumption == Retention \in Nat /\ MaxBuffer \in Nat \ {0}

VARIABLES
  up,         \* is the runtime running
  logs,       \* [epoch -> the log of that runtime]; the last is the current one
  floor,      \* floorSeq: what is older cannot be replayed
  sub,        \* the subscription of the connection, or NoSub
  nextSub,
  timer,      \* is a flush timer set
  paused,     \* the connection is saturated
  pending,    \* the reply of the request just handled, or NoReply
  rehydrated, \* rehydrate ran and its flush has not
  route       \* the subscription the host routes requests of, or None

topic == <<up, logs, floor, sub, nextSub, timer, paused, pending, rehydrated, route>>

NoSub == [id |-> None]
NoReply == [type |-> "none"]
NoFrame == [type |-> "none"]
epoch == Len(logs)
log == logs[epoch]
currentSeq == Len(log)

TopicInit ==
  /\ up = FALSE /\ logs = <<>> /\ floor = 0
  /\ sub = NoSub /\ nextSub = 1
  /\ timer = FALSE /\ paused = FALSE /\ pending = NoReply /\ rehydrated = FALSE
  /\ route = None

Frame(s, kind, from, rows, snap) ==
  [type |-> "frame", damage |-> "none", kind |-> kind, sub |-> s.id, ord |-> s.ord,
   epoch |-> epoch, from |-> from, to |-> currentSeq, rows |-> rows, snap |-> snap]
SnapshotFrame(s, kind) == Frame(s, kind, 0, Shown(log, 0, currentSeq), TRUE)
DeltaFrame(s, kind, from, rows) == Frame(s, kind, from, rows, FALSE)

\* Can a reader at base go on with the retained log.
Resumable(base) == base.epoch = epoch /\ base.seq >= floor /\ base.seq <= currentSeq

----------------------------------------------------------------------------
\* The subscription after its flush, and what the flush sends: reserveFlush, the
\* frames written and commit.  Nothing while a control frame is reserved.
Flushed(s) ==
  IF s.resync THEN [s EXCEPT !.buffer = <<>>, !.sent = currentSeq, !.ord = @ + 1, !.resync = FALSE]
  ELSE IF s.buffer = <<>> /\ s.sent = currentSeq THEN s
  ELSE [s EXCEPT !.buffer = <<>>, !.sent = currentSeq, !.ord = @ + 1]
FlushFrames(s) ==
  IF s.resync THEN <<SnapshotFrame(s, "online")>>
  ELSE IF s.buffer = <<>> /\ s.sent = currentSeq THEN <<>>
  ELSE <<DeltaFrame(s, "online", s.sent, s.buffer)>>

Flush ==
  IF sub = NoSub \/ sub.reserved # None
  THEN UNCHANGED <<sub, wire>>
  ELSE sub' = Flushed(sub) /\ wire' = wire \o FlushFrames(sub)

\* Mutant of Ingest: an overflowing buffer forgets its oldest delta.
IngestDropsOldest ==
  /\ up /\ currentSeq < MaxEvents
  /\ LET new == <<epoch, currentSeq + 1>>
         Buffer(s) == IF currentSeq + 1 \in Hidden \/ s.resync THEN s
                      ELSE IF Len(s.buffer) < MaxBuffer THEN [s EXCEPT !.buffer = Append(@, new)]
                      ELSE [s EXCEPT !.buffer = Append(Tail(@), new)]
     IN  /\ logs' = [logs EXCEPT ![epoch] = Append(@, new)]
         /\ floor' = IF currentSeq + 1 > floor + Retention THEN currentSeq + 1 - Retention ELSE floor
         /\ sub' = IF sub = NoSub THEN sub ELSE Buffer(sub)
         /\ timer' = (timer \/ (sub # NoSub /\ ~paused))
  /\ UNCHANGED <<up, nextSub, paused, pending, rehydrated, route, channels>>

\* An event of the session: log, retention, the subscriber's buffer, the flush timer.
Ingest ==
  /\ up /\ currentSeq < MaxEvents
  /\ LET new == <<epoch, currentSeq + 1>>
         Buffer(s) == IF currentSeq + 1 \in Hidden \/ s.resync THEN s
                      ELSE IF Len(s.buffer) < MaxBuffer THEN [s EXCEPT !.buffer = Append(@, new)]
                      ELSE [s EXCEPT !.buffer = <<>>, !.resync = TRUE]
     IN  /\ logs' = [logs EXCEPT ![epoch] = Append(@, new)]
         /\ floor' = IF currentSeq + 1 > floor + Retention THEN currentSeq + 1 - Retention ELSE floor
         /\ sub' = IF sub = NoSub THEN sub ELSE Buffer(sub)
         /\ timer' = (timer \/ (sub # NoSub /\ ~paused))
  /\ UNCHANGED <<up, nextSub, paused, pending, rehydrated, route, channels>>

\* The flush timer fires.
FlushTimer ==
  /\ timer /\ timer' = FALSE
  /\ Flush
  /\ UNCHANGED <<up, logs, floor, nextSub, paused, pending, rehydrated, route, requests, replies, mishaps>>

\* The host reports the connection saturated: its flush timers are cleared.
Saturate ==
  /\ Mishap("saturate") /\ up /\ ~paused
  /\ paused' = TRUE /\ timer' = FALSE
  /\ UNCHANGED <<up, logs, floor, sub, nextSub, pending, rehydrated, route, requests, replies, wire>>

\* It is drained: what waited is flushed.
ResumeFlow ==
  /\ paused /\ paused' = FALSE /\ timer' = FALSE
  /\ Flush
  /\ UNCHANGED <<up, logs, floor, nextSub, pending, rehydrated, route, requests, replies, mishaps>>

\* Mutant of Rehydrate: the floor of a short log is not clamped at 0.
RehydrateUnclamped ==
  /\ Mishap("rehydrate") /\ up /\ ~rehydrated
  /\ rehydrated' = TRUE
  /\ \E batch \in BOOLEAN : floor' = IF batch THEN currentSeq ELSE currentSeq - Retention
  /\ sub' = IF sub = NoSub THEN sub
            ELSE [sub EXCEPT !.buffer = <<>>, !.resync = TRUE, !.sent = 0, !.reserved = None]
  /\ UNCHANGED <<up, logs, nextSub, timer, paused, pending, route, requests, replies, wire>>

\* The projection is built again from the persisted events, in one batch or event by
\* event; every subscription then needs a snapshot.
Rehydrate ==
  /\ Mishap("rehydrate") /\ up /\ ~rehydrated
  /\ rehydrated' = TRUE
  /\ \E batch \in BOOLEAN :
       floor' = IF batch THEN currentSeq
                ELSE IF currentSeq > Retention THEN currentSeq - Retention ELSE 0
  /\ sub' = IF sub = NoSub THEN sub
            ELSE [sub EXCEPT !.buffer = <<>>, !.resync = TRUE, !.sent = 0, !.reserved = None]
  /\ UNCHANGED <<up, logs, nextSub, timer, paused, pending, route, requests, replies, wire>>

\* The end of the hydration flushes the subscriptions.
FlushRehydrated ==
  /\ rehydrated /\ rehydrated' = FALSE
  /\ timer' = FALSE
  /\ IF paused THEN UNCHANGED <<sub, wire>> ELSE Flush
  /\ UNCHANGED <<up, logs, floor, nextSub, paused, pending, route, requests, replies, mishaps>>

----------------------------------------------------------------------------
Handling(type) == up /\ pending = NoReply /\ requests # <<>> /\ Head(requests).type = type

\* subscribeReserved: the connection's new subscription takes the place of its old one.
HandleSubscribe ==
  /\ Handling("subscribe")
  /\ LET r == Head(requests)
         new == [id |-> nextSub, buffer |-> <<>>, resync |-> FALSE, sent |-> 0, reserved |-> 1, ord |-> 1]
         mode == IF Resumable(r.base) THEN "resume" ELSE "snapshot"
         frame == CASE mode = "snapshot" -> SnapshotFrame(new, "initial")
                    [] mode = "resume" /\ r.base.seq = currentSeq -> NoFrame
                    [] OTHER -> DeltaFrame(new, "initial", r.base.seq, Shown(log, r.base.seq, currentSeq))
     IN  /\ sub' = IF frame = NoFrame
                   THEN [new EXCEPT !.sent = r.base.seq, !.reserved = None]
                   ELSE [new EXCEPT !.sent = frame.from, !.ord = 2]
         /\ pending' = [type |-> "subscribed", id |-> r.id, sub |-> nextSub, mode |-> mode,
                        epoch |-> epoch, frame |-> frame]
  /\ nextSub' = nextSub + 1 /\ timer' = FALSE /\ requests' = Tail(requests)
  /\ UNCHANGED <<up, logs, floor, paused, rehydrated, route, replies, wire, mishaps>>

\* resyncReserved: the subscription goes on from the reader's base, or from a snapshot.
HandleResync ==
  /\ Handling("resync")
  /\ LET r == Head(requests)
         owned == r.sub = route /\ r.sub = sub.id
         mode == IF ~r.force /\ Resumable(r.base) THEN "resume" ELSE "snapshot"
         frame == IF mode = "snapshot" THEN SnapshotFrame(sub, "recovery")
                  ELSE DeltaFrame(sub, "recovery", r.base.seq, Shown(log, r.base.seq, currentSeq))
     IN  IF owned
         THEN /\ sub' = [sub EXCEPT !.buffer = <<>>, !.resync = FALSE, !.sent = frame.from,
                                    !.reserved = frame.ord, !.ord = @ + 1]
              /\ pending' = [type |-> "resynced", id |-> r.id, sub |-> r.sub, mode |-> mode,
                             epoch |-> epoch, frame |-> frame]
              /\ timer' = FALSE
         ELSE /\ pending' = [type |-> "failed", id |-> r.id, why |-> "notOwned", frame |-> NoFrame]
              /\ UNCHANGED <<sub, timer>>
  /\ requests' = Tail(requests)
  /\ UNCHANGED <<up, logs, floor, nextSub, paused, rehydrated, route, replies, wire, mishaps>>

\* Mutant of HandleUnsubscribe: whichever subscription the connection has is ended.
HandleUnsubscribeAny ==
  /\ Handling("unsubscribe")
  /\ sub' = NoSub /\ timer' = FALSE /\ route' = None
  /\ requests' = Tail(requests)
  /\ UNCHANGED <<up, logs, floor, nextSub, paused, pending, rehydrated, replies, wire, mishaps>>

\* unsubscribe, of the subscription the host knows.
HandleUnsubscribe ==
  /\ Handling("unsubscribe")
  /\ LET known == Head(requests).sub = route
     IN  /\ sub' = IF known /\ Head(requests).sub = sub.id THEN NoSub ELSE sub
         /\ timer' = (timer /\ sub' # NoSub)
         /\ route' = IF known THEN None ELSE route
  /\ requests' = Tail(requests)
  /\ UNCHANGED <<up, logs, floor, nextSub, paused, pending, rehydrated, replies, wire, mishaps>>

\* The reply is written, the frames behind it, and the reservation is committed unless
\* it is no longer the subscription's.  The host routes a new subscription.
Respond ==
  /\ pending # NoReply
  /\ replies' = Append(replies, [f \in DOMAIN pending \ {"frame"} |-> pending[f]])
  /\ wire' = IF pending.frame = NoFrame THEN wire ELSE Append(wire, pending.frame)
  /\ LET commits == sub # NoSub /\ pending.frame # NoFrame
                      /\ sub.id = pending.frame.sub /\ sub.reserved = pending.frame.ord
     IN  /\ sub' = IF commits THEN [sub EXCEPT !.sent = pending.frame.to, !.reserved = None] ELSE sub
         /\ timer' = (timer \/ (commits /\ ~paused))
  /\ route' = IF pending.type = "subscribed" THEN pending.sub ELSE route
  /\ pending' = NoReply
  /\ UNCHANGED <<up, logs, floor, nextSub, paused, rehydrated, requests, mishaps>>

----------------------------------------------------------------------------
RejectionOf(r) == [type |-> "failed", id |-> r.id, why |-> "recycled"]

\* The runtime is disposed of or dies.  What it had been sent is rejected; a request
\* still on its way through the host is not.
Recycle ==
  /\ Mishap("recycle") /\ up /\ epoch < MaxEpochs
  /\ up' = FALSE
  /\ \E k \in 0..Len(requests) :
       LET lost == Only(SubSeq(requests, 1, k), {r \in ToSet(requests) : r.type # "unsubscribe"})
           cut == [i \in 1..Len(lost) |-> RejectionOf(lost[i])]
           handled == IF pending = NoReply THEN <<>> ELSE <<RejectionOf(pending)>>
       IN  /\ requests' = SubSeq(requests, k + 1, Len(requests))
           /\ replies' = replies \o handled \o cut
  /\ wire' = Append(wire, [type |-> "unavailable"])
  /\ sub' = NoSub /\ timer' = FALSE /\ paused' = FALSE /\ pending' = NoReply /\ rehydrated' = FALSE
  /\ UNCHANGED <<logs, floor, nextSub, route>>

\* A runtime starts, on demand of a request or of somebody else, with the events that
\* were durable; from the second one on, the host announces a restart.
Spawn ==
  /\ ~up /\ epoch < MaxEpochs
  /\ up' = TRUE
  /\ \E durable \in IF epoch = 0 THEN {<<>>, << <<1, 1>> >>}
                    ELSE {log, IF log = <<>> THEN log ELSE Front(log)} :
       /\ Len(durable) <= MaxEvents
       /\ logs' = Append(logs, durable) /\ floor' = Len(durable)
  /\ wire' = wire \o (IF epoch = 0 THEN <<>> ELSE <<[type |-> "restarted"]>>) \o <<[type |-> "available"]>>
  /\ route' = None
  /\ UNCHANGED <<sub, nextSub, timer, paused, pending, rehydrated, requests, replies, mishaps>>
=============================================================================
