--------------------------- MODULE ConversationStore ---------------------------
(* The page's side of one conversation topic: ConversationProjectionStore over *)
(* its transport (agentConversationTransport.ts), with the barrier that holds  *)
(* frames back until their subscription is acknowledged and the decoder that   *)
(* assembles frames and closes a route after a fault.                          *)
(* Each handler is a function of the store's state; what it sends is collected *)
(* in c.out and leaves with the step.                                          *)
EXTENDS ConversationWire

CONSTANT MaxAttempts  \* delays in RUNTIME_RECYCLE_RETRY_DELAYS_MS

ASSUME StoreAssumption == MaxAttempts \in Nat

VARIABLE client

NoView == [epoch |-> None, seq |-> 0, rows |-> <<>>]
NoAwait == [sub |-> None, mode |-> "none"]
NoRecovery == [ack |-> "none"]
NoPartial == [ord |-> None]
FreshDecoder == [settled |-> 0, faulted |-> FALSE, partial |-> NoPartial]

ClientInit ==
  client = [status |-> "idle", sub |-> None, view |-> NoView,
            calls |-> {}, awaiting |-> NoAwait, based |-> FALSE, recovery |-> NoRecovery,
            retry |-> "none", attempts |-> 0,
            active |-> None, decoder |-> FreshDecoder, heal |-> FALSE, out |-> <<>>]

Closed(c) == c.status = "closed"
BaseOf(view) == [epoch |-> view.epoch, seq |-> view.seq]
Subscribes(c) == {k \in c.calls : k.of = "subscribe"}

\* A call of the page: its reply counts only while it is current.
NewId(c) == CHOOSE i \in 1..Cardinality(c.calls) + 1 : \A k \in c.calls : k.id # i
Call(c, of, base) ==
  [id |-> NewId(c), of |-> of, base |-> base, current |-> TRUE, valid |-> TRUE, frames |-> <<>>]
Sent(c, call, request) == [c EXCEPT !.calls = @ \cup {call}, !.out = Append(@, request)]
Outdated(c, of) == [c EXCEPT !.calls = {[k EXCEPT !.current = @ /\ k.of # of] : k \in c.calls}]
Unsubscribe(c, s) == [c EXCEPT !.out = Append(@, [type |-> "unsubscribe", sub |-> s])]

DiscardRecovery(c) == [Outdated(c, "resync") EXCEPT !.recovery = NoRecovery]
\* this.generation += 1: of the calls and of the armed retry, none is current any more.
NewGeneration(c) ==
  [Outdated(c, "subscribe") EXCEPT !.retry = IF @ = "armed" THEN "stale" ELSE @]

----------------------------------------------------------------------------
\* connect.
Connect(c, force) ==
  LET c1 == NewGeneration(DiscardRecovery(c))
      call == Call(c1, "subscribe", IF force THEN NoBase ELSE BaseOf(c.view))
  IN  IF Closed(c) THEN c
      ELSE Sent([c1 EXCEPT !.status = "connecting"], call,
                [type |-> "subscribe", id |-> call.id, base |-> call.base])

\* scheduleRuntimeRecycleReconnect, or error when the delays are used up.
Reconnect(c) ==
  IF c.attempts < MaxAttempts
  THEN [c EXCEPT !.attempts = @ + 1, !.retry = "armed", !.status = "connecting"]
  ELSE [c EXCEPT !.status = "error"]

FailRecovery(c) == [DiscardRecovery(c) EXCEPT !.status = "error"]

\* issueRecovery: a resync of the subscription, from the view or from nothing.  One the
\* transport no longer knows is not owned (its restart came, available has not).
Issue(c, force) ==
  LET whole == force \/ ~c.based
      call == Call(c, "resync", IF c.based THEN BaseOf(c.view) ELSE NoBase)
  IN  IF c.sub # c.active THEN Connect(DiscardRecovery(c), FALSE)
      ELSE [Sent(c, call, [type |-> "resync", id |-> call.id, sub |-> c.sub, base |-> call.base, force |-> whole])
             EXCEPT !.heal = TRUE,
                    !.recovery = [ack |-> "waiting", force |-> whole, seen |-> FALSE,
                                  upgrade |-> FALSE, gap |-> FALSE, deadline |-> FALSE]]

\* requestRecovery; event: a recovery frame itself is broken or does not fit.
RequestRecovery(c, event) ==
  IF c.sub = None THEN Connect(c, TRUE)
  ELSE IF c.recovery = NoRecovery THEN Issue(c, FALSE)
  ELSE IF ~event THEN c
  ELSE IF c.recovery.force THEN FailRecovery(c)
  ELSE IF c.recovery.ack = "waiting" THEN [c EXCEPT !.recovery.upgrade = TRUE]
  ELSE IF c.recovery.ack = "resume" THEN Issue(c, TRUE)
  ELSE FailRecovery(c)

\* Mutant of Settle: what came behind the recovery frame is not asked for again.
SettleAtOnce(c) ==
  IF c.recovery = NoRecovery \/ c.recovery.ack = "waiting" THEN c
  ELSE IF c.recovery.upgrade
       THEN IF ~c.recovery.force /\ c.recovery.ack = "resume" THEN Issue(c, TRUE) ELSE FailRecovery(c)
  ELSE IF c.recovery.seen THEN DiscardRecovery(c)
  ELSE [c EXCEPT !.recovery.deadline = TRUE]

\* settleRecovery, once the resync is acknowledged.
Settle(c) ==
  IF c.recovery = NoRecovery \/ c.recovery.ack = "waiting" THEN c
  ELSE IF c.recovery.upgrade
       THEN IF ~c.recovery.force /\ c.recovery.ack = "resume" THEN Issue(c, TRUE) ELSE FailRecovery(c)
  ELSE IF c.recovery.seen
       THEN IF c.recovery.gap THEN Issue(c, FALSE) ELSE DiscardRecovery(c)
  ELSE [c EXCEPT !.recovery.deadline = TRUE]

MarkSeen(c) == IF c.recovery = NoRecovery THEN c ELSE Settle([c EXCEPT !.recovery.seen = TRUE])

\* applyFrame; initial: the frame is the initial one this subscription waits for.
Apply(c, f, initial) ==
  LET recovery == f.kind = "recovery"
      Seen(c1) == IF recovery THEN MarkSeen(c1) ELSE c1
      Showing(ep, rows) ==
        Seen([c EXCEPT !.view = [epoch |-> ep, seq |-> f.to, rows |-> rows], !.based = TRUE])
  IN  IF f.snap THEN Showing(f.epoch, f.rows)
      ELSE IF c.view # NoView /\ f.to <= c.view.seq THEN Seen(c)
      ELSE IF c.view # NoView /\ f.from = c.view.seq THEN Showing(c.view.epoch, c.view.rows \o f.rows)
      ELSE IF initial THEN Connect(c, TRUE)
      ELSE RequestRecovery(c, recovery)

\* handleFrame.
HandleFrame(c, f) ==
  LET initial == f.kind = "initial" /\ c.awaiting.sub = f.sub
      c1 == IF f.kind # "online" /\ c.awaiting.sub = f.sub THEN [c EXCEPT !.awaiting = NoAwait] ELSE c
  IN  IF Closed(c) \/ f.sub # c.sub THEN c
      ELSE IF f.kind = "online" /\ c.recovery # NoRecovery /\ ~f.snap
           THEN IF f.to > c.view.seq THEN [c EXCEPT !.recovery.gap = @ \/ c.recovery.seen] ELSE c
      ELSE IF ~f.snap /\ ~c.based THEN RequestRecovery(c1, f.kind = "recovery")
      ELSE Apply(c1, f, initial)

\* handleAssemblyFault.
AssemblyFault(c, f) ==
  LET c1 == IF f.kind # "online" /\ c.awaiting.sub = f.sub THEN [c EXCEPT !.awaiting = NoAwait] ELSE c
  IN  IF Closed(c) \/ f.sub # c.sub THEN c
      ELSE IF f.kind = "online" /\ c.recovery # NoRecovery
           THEN [c EXCEPT !.recovery.gap = @ \/ c.recovery.seen]
      ELSE RequestRecovery(c1, f.kind = "recovery")

----------------------------------------------------------------------------
\* The decoder: a fault closes the route until a recovery frame or a resync opens it.
Fault(c, f) == AssemblyFault([c EXCEPT !.decoder.faulted = TRUE], f)
SettleOrd(c, f) ==
  [c EXCEPT !.decoder.settled = IF f.ord > @ THEN f.ord ELSE @, !.decoder.partial = NoPartial]

\* One frame of the active subscription whose route is open (wire-assembler.ts, accept).
Assemble(c, f) ==
  LET partial == c.decoder.partial
      superseded == partial # NoPartial /\ f.ord > partial.ord
      c1 == IF superseded THEN SettleOrd(c, partial) ELSE c
      c2 == IF superseded /\ f.kind # "recovery" THEN Fault(c1, partial) ELSE c1
  IN  IF f.ord <= c.decoder.settled \/ (partial # NoPartial /\ f.ord < partial.ord) THEN c
      ELSE IF f.damage = "corrupt" THEN Fault(SettleOrd(c2, f), f)
      ELSE IF c2.decoder.faulted THEN SettleOrd(c2, f)
      ELSE IF f.damage = "partial" THEN [c2 EXCEPT !.decoder.partial = f]
      ELSE HandleFrame(SettleOrd(c2, f), f)

\* A frame that passed the barrier (topicWireDecoder.ts, accept).
Decode(c, f) ==
  IF c.decoder.faulted /\ f.kind # "recovery" THEN c
  ELSE Assemble([c EXCEPT !.decoder.faulted = FALSE], f)

\* activate: the frames of the subscription that waited are decoded one by one.
Released(c, frames) ==
  LET after[i \in 0..Len(frames)] == IF i = 0 THEN c ELSE Decode(after[i - 1], frames[i])
  IN  after[Len(frames)]

\* The barrier: frames of the active subscription pass, others wait with every call.
Accept(c, f) ==
  IF f.sub = c.active THEN Decode(c, f)
  ELSE [c EXCEPT !.calls = {[k EXCEPT !.frames = IF k.of = "subscribe" /\ k.valid THEN Append(@, f) ELSE @]
                              : k \in c.calls}]

----------------------------------------------------------------------------
\* Mutant of Failed: the rejection of a connect is an error at once.
FailedAtOnce(c, k, why) ==
  LET given == [c EXCEPT !.awaiting = NoAwait, !.based = FALSE]
  IN  IF ~k.current THEN c
      ELSE IF k.of = "subscribe" THEN [given EXCEPT !.status = "error"]
      ELSE IF why = "notOwned" THEN Connect(DiscardRecovery(c), FALSE)
      ELSE FailRecovery(c)

\* A rejected call; a subscribe is only ever rejected because the runtime was recycled.
Failed(c, k, why) ==
  LET given == [c EXCEPT !.awaiting = NoAwait, !.based = FALSE]
  IN  IF ~k.current THEN c
      ELSE IF k.of = "subscribe" THEN Reconnect(given)
      ELSE IF why = "notOwned" THEN Connect(DiscardRecovery(c), FALSE)
      ELSE FailRecovery(c)

\* Mutant of Acked: the subscription of an outdated connect is left alone.
AckedUncancelled(c, k, a) ==
  LET c1 == [DiscardRecovery(c) EXCEPT
               !.attempts = 0, !.status = "live", !.sub = a.sub,
               !.based = k.base.epoch # None /\ a.mode = "resume" /\ a.epoch = k.base.epoch,
               !.awaiting = [sub |-> a.sub, mode |-> a.mode],
               !.active = a.sub, !.decoder = FreshDecoder]
  IN  IF ~k.valid THEN Failed(c, k, "recycled")
      ELSE IF ~k.current THEN c
      ELSE Released(c1, Only(k.frames, {f \in ToSet(k.frames) : f.sub = a.sub}))

\* The ACK of a connect: it is dropped after a restart, its subscription cancelled when
\* the connect is outdated; else activate releases the frames that came before it.
Acked(c, k, a) ==
  LET c1 == [DiscardRecovery(c) EXCEPT
               !.attempts = 0, !.status = "live", !.sub = a.sub,
               !.based = k.base.epoch # None /\ a.mode = "resume" /\ a.epoch = k.base.epoch,
               !.awaiting = [sub |-> a.sub, mode |-> a.mode],
               !.active = a.sub, !.decoder = FreshDecoder]
  IN  IF ~k.valid THEN Failed(c, k, "recycled")
      ELSE IF ~k.current THEN Unsubscribe(c, a.sub)
      ELSE Released(c1, Only(k.frames, {f \in ToSet(k.frames) : f.sub = a.sub}))

Resynced(c, k, a) ==
  IF k.current /\ c.recovery # NoRecovery THEN Settle([c EXCEPT !.recovery.ack = a.mode]) ELSE c

\* Mutant of Unavailable: the store waits for available.
UnavailableDormant(c) ==
  IF Closed(c) THEN c
  ELSE [NewGeneration(DiscardRecovery(c)) EXCEPT
          !.awaiting = NoAwait, !.based = FALSE, !.sub = None, !.retry = "none", !.status = "connecting"]

\* The agent's runtime is gone: what it served is given up, a reconnect is scheduled.
Unavailable(c) ==
  IF Closed(c) THEN c
  ELSE Reconnect([NewGeneration(DiscardRecovery(c)) EXCEPT
                    !.awaiting = NoAwait, !.based = FALSE, !.sub = None, !.retry = "none"])

\* The transport's own reaction to a restart: no ownership and no frame survives it.
Restarted(c) ==
  [c EXCEPT !.active = None, !.decoder = FreshDecoder,
            !.calls = {[k EXCEPT !.valid = @ /\ k.of # "subscribe", !.frames = <<>>] : k \in c.calls}]

\* A runtime is up: connect from nothing, unless a connect is on its way.
Available(c) ==
  LET c1 == [c EXCEPT !.retry = "none", !.attempts = 0]
  IN  IF Closed(c) THEN c
      ELSE IF Subscribes(c) # {} THEN c1
      ELSE Connect([c1 EXCEPT !.awaiting = NoAwait, !.based = FALSE, !.sub = None], TRUE)

----------------------------------------------------------------------------
\* A resync that was sent opens the decoder's route; a partial frame is given up.
Healed(decoder) ==
  [settled |-> IF decoder.partial # NoPartial THEN decoder.partial.ord ELSE decoder.settled,
   faulted |-> FALSE, partial |-> NoPartial]
\* The handler's end: what it sends leaves.
Ended(c) == [c EXCEPT !.out = <<>>, !.heal = FALSE, !.decoder = IF c.heal THEN Healed(c.decoder) ELSE c.decoder]
Step(c) == client' = Ended(c) /\ requests' = requests \o c.out

Open == client.status = "idle" /\ Step(Connect(client, FALSE)) /\ UNCHANGED <<replies, wire, mishaps>>

HandleReply ==
  /\ replies # <<>> /\ replies' = Tail(replies)
  /\ \E k \in client.calls :
       LET a == Head(replies)
           c == [client EXCEPT !.calls = @ \ {k}]
       IN  /\ k.id = a.id
           /\ Step(CASE a.type = "subscribed" -> Acked(c, k, a)
                     [] a.type = "resynced" -> Resynced(c, k, a)
                     [] a.type = "failed" -> Failed(c, k, a.why))
  /\ UNCHANGED <<wire, mishaps>>

HandleWire ==
  /\ wire # <<>> /\ wire' = Tail(wire)
  /\ LET m == Head(wire)
     IN  Step(CASE m.type = "frame" -> Accept(client, m)
                [] m.type = "unavailable" -> Unavailable(client)
                [] m.type = "restarted" -> Restarted(client)
                [] m.type = "available" -> Available(client))
  /\ UNCHANGED <<replies, mishaps>>

\* The assembly of a frame with missing fragments times out.
Expire ==
  /\ client.decoder.partial # NoPartial
  /\ Step(Fault(SettleOrd(client, client.decoder.partial), client.decoder.partial))
  /\ UNCHANGED <<replies, wire, mishaps>>

\* A recovery frame did not come in 30 s: longer than anything on the wire takes.
Deadline ==
  /\ client.recovery # NoRecovery /\ client.recovery.ack # "waiting" /\ client.recovery.deadline
  /\ wire = <<>>
  /\ Step(IF ~client.recovery.force THEN Issue(client, TRUE) ELSE FailRecovery(client))
  /\ UNCHANGED <<replies, wire, mishaps>>

RetryTimer ==
  /\ client.retry # "none"
  /\ LET c == [client EXCEPT !.retry = "none"]
     IN  Step(IF client.retry = "armed" THEN Connect(c, FALSE) ELSE c)
  /\ UNCHANGED <<replies, wire, mishaps>>

\* The user reconnects after an error.
UserRetry ==
  /\ client.status = "error"
  /\ Step(Connect([client EXCEPT !.retry = "none", !.attempts = 0], FALSE))
  /\ UNCHANGED <<replies, wire, mishaps>>

\* A command found the projection stale (recoverFromStaleAuthority).
StaleAuthority ==
  /\ Mishap("stale") /\ client.status \notin {"idle", "closed"}
  /\ Step(RequestRecovery(client, FALSE))
  /\ UNCHANGED <<replies, wire>>

Close ==
  /\ Mishap("close")
  /\ client.status \notin {"idle", "closed"}
  /\ LET c == [NewGeneration(DiscardRecovery(client)) EXCEPT
                 !.status = "closed", !.sub = None, !.retry = "none", !.awaiting = NoAwait, !.based = FALSE]
         left == [c EXCEPT !.active = None, !.decoder = FreshDecoder]
     IN  Step(IF client.sub = None THEN c ELSE Unsubscribe(left, client.sub))
  /\ UNCHANGED <<replies, wire>>
=============================================================================
