------------------------- MODULE ConcurrencyGovernor -------------------------
(* The process-wide admission gate in front of one provider key               *)
(* (bootstrap/src/app/workflow-concurrency-governor.ts): an AIMD controller,   *)
(* one FIFO of waiters per workflow run served in rotation, tickets that feed  *)
(* outcomes back, a wake-up timer for Retry-After, and an observer for the     *)
(* main agent, which is never queued.  Every action is one synchronous call    *)
(* into the governor, together with the drain() it ends in.                    *)
(*                                                                             *)
(* A request attempt goes idle -> announced -> waiting -> inflight -> settled  *)
(* -> idle (admitAttempt in adapters/src/model/request-admission.ts):          *)
(* "announced" is the await of onQueued between a missed tryAcquire and        *)
(* acquire, "settled" a ticket that saw its terminal event and whose           *)
(* release() is still to come.                                                 *)
EXTENDS ConcurrencyController, Sequences, FiniteSets, SequencesExt

CONSTANTS Run,          \* workflow runs
          Observer,     \* the main agent's pseudo run (OBSERVER_RUN_ID)
          NoRun,        \* lastGrantedRun is absent
          Request,      \* attempts, one slot of a runner each
          OwnerOf,      \* [Request -> Run \cup {Observer}]
          RetryAfters,  \* Retry-After values a provider may send, 0 for none
          MayAbort      \* requests whose AbortSignal may fire while they wait

ASSUME OwnerAssumption == OwnerOf \in [Request -> Run \cup {Observer}]
ASSUME ObserverAssumption == Observer \notin Run /\ NoRun \notin Run \cup {Observer}
ASSUME RetryAfterAssumption == RetryAfters \subseteq Nat
ASSUME RequestAssumption == IsFiniteSet(Request)

VARIABLES
  ctl,      \* the controller's record
  order,    \* runs that have waiters, in the insertion order of the queues Map
  queue,    \* queue[r]: the FIFO of waiting requests of run r
  last,     \* lastGrantedRun
  phase,    \* phase[q]: where the attempt q stands
  current,  \* current[q]: q was admitted in the controller's present epoch
  timer,    \* ticks left on the cooldown wake-up, Undef when none is armed
  shown,    \* shown[r]: the last cap run r was told of (concurrency-changed)
  \* history, read by properties only
  cut,      \* cut[q]: the cap was lowered after q was admitted
  embargo,  \* ticks left of the longest Retry-After announced and not forgotten
  quiet,    \* ticks since a request was last in flight, saturated at IdleReset
  bypass    \* bypass[r][s]: grants to s while r has waited without a grant

gate == <<ctl, order, queue, last, phase, current, timer, shown>>
history == <<cut, embargo, quiet, bypass>>
vars == <<gate, history>>

Owner == Run \cup {Observer}
Phase == {"idle", "announced", "waiting", "inflight", "settled"}
InFlight == {q \in Request : phase[q] = "inflight"}
Waiting == {q \in Request : phase[q] = "waiting"}
BypassBound == 2

\* fanOut() reaches the runs with a request in flight or queued on this key.
EngagedIn(p) == {r \in Run : \E q \in Request : OwnerOf[q] = r /\ p[q] \in {"inflight", "waiting"}}
Engaged == EngagedIn(phase)

Init ==
  /\ ctl = NewController
  /\ order = <<>>
  /\ queue = [r \in Run |-> <<>>]
  /\ last = NoRun
  /\ phase = [q \in Request |-> "idle"]
  /\ current = [q \in Request |-> FALSE]
  /\ timer = Undef
  /\ shown = [r \in Run |-> Ceiling]
  /\ cut = [q \in Request |-> FALSE]
  /\ embargo = 0
  /\ quiet = IdleReset
  /\ bypass = [r \in Run |-> [s \in Run |-> 0]]

----------------------------------------------------------------------------
(* The queues: a Map keeps a key where it was first inserted.                *)

\* What drain() works on; "granted" are the waiters it has resolved, in order.
LoopState ==
  [ctl : Counters, order : Seq(Run), queue : [Run -> Seq(Request)],
   last : Owner \cup {NoRun}, granted : Seq(Request)]

\* Mutant of NextAt: no rotation, the first run is always served.
NextAtFirst(s) == 1

\* nextRunWithWaiters(): the run after the one last granted; the first run when
\* that one has no waiters any more or was the observer (indexOf gives -1).
NextAt(s) ==
  LET at == {i \in DOMAIN s.order : s.order[i] = s.last}
      after == IF at = {} THEN 0 ELSE CHOOSE i \in at : TRUE
  IN  (after % Len(s.order)) + 1

\* Mutant of Turn: the newest waiter of the run leaves (pop for shift).
TurnNewest ==
  [s \in LoopState |->
     LET w == Waiters(s.ctl, s.order # <<>>)
         k == NextAt(s)
         r == s.order[k]
     IN  IF s.order = <<>> \/ ~CanAdmit(w) THEN [s EXCEPT !.ctl = w]
         ELSE [ctl     |-> Admitted(Observe(w)),
               order   |-> IF Len(s.queue[r]) = 1 THEN RemoveAt(s.order, k) ELSE s.order,
               queue   |-> [s.queue EXCEPT ![r] = Front(@)],
               last    |-> r,
               granted |-> Append(s.granted, Last(s.queue[r]))]]

\* One turn of the loop in drain(): report the queue, and while the gate is open
\* the head waiter of the next run leaves.
Turn ==
  [s \in LoopState |->
     LET w == Waiters(s.ctl, s.order # <<>>)
         k == NextAt(s)
         r == s.order[k]
     IN  IF s.order = <<>> \/ ~CanAdmit(w) THEN [s EXCEPT !.ctl = w]
         ELSE [ctl     |-> Admitted(Observe(w)),
               order   |-> IF Len(s.queue[r]) = 1 THEN RemoveAt(s.order, k) ELSE s.order,
               queue   |-> [s.queue EXCEPT ![r] = Tail(@)],
               last    |-> r,
               granted |-> Append(s.granted, Head(s.queue[r]))]]

\* The loop ends within one turn per request: a further turn changes nothing.
MaxTurns == Cardinality(Request)

Looped(s) ==
  LET after[i \in 0..MaxTurns] == IF i = 0 THEN s ELSE Turn[after[i - 1]]
  IN  after[MaxTurns]

\* drain(): observe, the loop, report the queue again.
Drained(called) ==
  LET s == Looped([ctl |-> Observe(called.ctl), order |-> called.order,
                   queue |-> called.queue, last |-> last, granted |-> <<>>])
  IN  [s EXCEPT !.ctl = Waiters(s.ctl, s.order # <<>>)]

\* Mutant of WakeFor: the timer is cancelled and never armed again.
WakeForNever(c, o) == Undef

\* armCooldownWake(): re-armed from scratch; no waiters or no cooldown, no timer.
WakeFor(c, o) ==
  IF o = <<>> \/ c.cooldown = Undef THEN Undef ELSE c.cooldown

\* fanOut(): the engaged runs hear a change of the cap.
Told(heard, before, after, listeners) ==
  [r \in Run |-> IF after.cap # before.cap /\ r \in listeners THEN after.cap ELSE heard[r]]

----------------------------------------------------------------------------
(* History bookkeeping, common to the actions.                               *)

Bypassed(grantedRuns, q) ==
  [r \in Run |-> [s \in Run |->
     IF q[r] = <<>> \/ r \in ToSet(grantedRuns) THEN 0
     ELSE AtMost(BypassBound + 1,
            bypass[r][s] + Cardinality({i \in DOMAIN grantedRuns : grantedRuns[i] = s}))]]

Remember(c, announced, grantedRuns, q) ==
  /\ embargo' = IF c.cooldown = Undef THEN 0 ELSE AtLeast(embargo, announced)
  /\ quiet' = IF InFlight # {} \/ c.inFlight > 0 THEN 0 ELSE quiet
  /\ bypass' = Bypassed(grantedRuns, q)

\* The common tail of every call that ends in drain(): called holds the
\* controller, the order and the queues as the call leaves them, p the phases
\* before the grants, listeners the runs that hear what the call itself changed.
DrainAndArm(called, p, announced, listeners) ==
  \E s \in {Drained(called)} :
    LET granted == ToSet(s.granted)
        lowered == s.ctl.cap < ctl.cap
    IN  /\ ctl' = [s.ctl EXCEPT !.turned = FALSE]
        /\ order' = s.order
        /\ queue' = s.queue
        /\ last' = s.last
        /\ phase' = [q \in Request |-> IF q \in granted THEN "inflight" ELSE p[q]]
        /\ current' = [q \in Request |->
                         q \in granted \/ (current[q] /\ ~s.ctl.turned)]
        /\ cut' = [q \in Request |-> q \notin granted /\ (cut[q] \/ lowered)]
        /\ timer' = WakeFor(s.ctl, s.order)
        /\ shown' = Told(Told(shown, ctl, called.ctl, listeners), called.ctl, s.ctl, EngagedIn(p))
        /\ Remember(s.ctl, announced, [i \in DOMAIN s.granted |-> OwnerOf[s.granted[i]]], s.queue)

Call(c, o, qs) == [ctl |-> c, order |-> o, queue |-> qs]

\* grant() outside drain(): observe, admit, remember the run.
GrantNow(q) ==
  LET seen == Observe(ctl)
      c == Admitted(seen)
  IN  /\ ctl' = [c EXCEPT !.turned = FALSE]
      /\ last' = OwnerOf[q]
      /\ phase' = [phase EXCEPT ![q] = "inflight"]
      /\ current' = [p \in Request |-> p = q \/ (current[p] /\ ~seen.turned)]
      /\ cut' = [cut EXCEPT ![q] = FALSE]
      /\ shown' = Told(shown, ctl, seen, Engaged)
      /\ Remember(c, 0, <<OwnerOf[q]>>, queue)
      /\ UNCHANGED <<order, queue, timer>>

----------------------------------------------------------------------------
(* The port: tryAdmit, admit, the abort listener, the observer.              *)

\* The synchronous fast path: only when nobody is queued.
TryAdmitHit(q) ==
  /\ OwnerOf[q] \in Run /\ phase[q] = "idle"
  /\ Waiting = {} /\ CanAdmit(Observe(ctl))
  /\ GrantNow(q)

\* A missed fast path has still run observe(), which may reset the controller.
TryAdmitMiss(q) ==
  /\ OwnerOf[q] \in Run /\ phase[q] = "idle"
  /\ Waiting # {} \/ ~CanAdmit(Observe(ctl))
  /\ ctl' = [Observe(ctl) EXCEPT !.turned = FALSE]
  /\ shown' = Told(shown, ctl, Observe(ctl), Engaged)
  /\ phase' = [phase EXCEPT ![q] = "announced"]
  /\ current' = [p \in Request |-> current[p] /\ ~Observe(ctl).turned]
  /\ Remember(ctl', 0, <<>>, queue)
  /\ UNCHANGED <<order, queue, last, timer, cut>>

\* admit(): join the queue of the run, then drain.
Admit(q) ==
  /\ phase[q] = "announced"
  /\ LET r == OwnerOf[q]
         o == IF queue[r] = <<>> THEN Append(order, r) ELSE order
     IN  DrainAndArm(Call(ctl, o, [queue EXCEPT ![r] = Append(@, q)]),
                     [phase EXCEPT ![q] = "waiting"], 0, Engaged \cup {r})

\* admit() with a signal that is already aborted rejects without queueing.
AdmitAborted(q) ==
  /\ phase[q] = "announced" /\ q \in MayAbort
  /\ phase' = [phase EXCEPT ![q] = "idle"]
  /\ UNCHANGED <<ctl, order, queue, last, current, timer, shown, history>>

\* Mutant of Abort: the emptied queue stays in the Map.
AbortKeepsQueue(q) ==
  /\ phase[q] = "waiting" /\ q \in MayAbort
  /\ \E i \in DOMAIN queue[OwnerOf[q]] :
       /\ queue[OwnerOf[q]][i] = q
       /\ queue' = [queue EXCEPT ![OwnerOf[q]] = RemoveAt(@, i)]
  /\ phase' = [phase EXCEPT ![q] = "idle"]
  /\ ctl' = [Waiters(ctl, TRUE) EXCEPT !.turned = FALSE]
  /\ timer' = WakeFor(ctl', order)
  /\ Remember(ctl', 0, <<>>, queue')
  /\ UNCHANGED <<order, last, current, shown, cut>>

\* onAbort(): the waiter leaves, the controller hears the new length, the timer
\* is re-armed; nobody is drained.
Abort(q) ==
  /\ phase[q] = "waiting" /\ q \in MayAbort
  /\ \E i \in DOMAIN queue[OwnerOf[q]], k \in DOMAIN order :
       LET r == OwnerOf[q]
           o == IF Len(queue[r]) = 1 THEN RemoveAt(order, k) ELSE order
           c == Waiters(ctl, o # <<>>)
       IN  /\ queue[r][i] = q /\ order[k] = r
           /\ phase' = [phase EXCEPT ![q] = "idle"]
           /\ queue' = [queue EXCEPT ![r] = RemoveAt(@, i)]
           /\ order' = o
           /\ ctl' = [c EXCEPT !.turned = FALSE]
           /\ timer' = WakeFor(c, o)
           /\ shown' = Told(shown, ctl, c, EngagedIn(phase'))
           /\ current' = [p \in Request |-> current[p] /\ ~c.turned]
           /\ Remember(c, 0, <<>>, queue')
  /\ UNCHANGED <<last, cut>>

\* The main agent is admitted at once, counted, and moves the rotation cursor.
ObserverAcquire(q) ==
  /\ OwnerOf[q] = Observer /\ phase[q] = "idle"
  /\ GrantNow(q)

----------------------------------------------------------------------------
(* Tickets: the first terminal event settles, everything later is inert.     *)

\* Mutant of Settle: the slot is given back before the fan-out.
SettleThenTell(q, c, announced) ==
  /\ phase[q] = "inflight"
  /\ DrainAndArm(Call(c, order, queue), [phase EXCEPT ![q] = "settled"], announced,
                 EngagedIn([phase EXCEPT ![q] = "settled"]))

Settle(q, c, announced) ==
  /\ phase[q] = "inflight"
  /\ DrainAndArm(Call(c, order, queue), [phase EXCEPT ![q] = "settled"], announced, Engaged)

\* publish(model_request_completed)
Complete(q) == Settle(q, Succeeded(ctl, current[q]), 0)

\* publish(model_retry_scheduled) with a throttle reason, or a final rate limit
Throttle(q) ==
  \E ra \in RetryAfters : Settle(q, Throttled(ctl, current[q], ra), ra)

\* publish(model_retry_scheduled) with a transient reason
Transient(q) == Settle(q, FailedTransient(ctl), 0)

\* publish(model_request_failed), auth_refresh, signature repair
EndEvent(q) == Settle(q, Ended(ctl), 0)

\* Mutant of Release: the ticket does not remember that it settled.
ReleaseTwice(q) ==
  /\ phase[q] \in {"inflight", "settled"}
  /\ DrainAndArm(Call(Ended(ctl), order, queue), [phase EXCEPT ![q] = "idle"], 0, Engaged)

\* release() before any terminal event counts as ended; after one it is inert.
Release(q) ==
  \/ /\ phase[q] = "inflight"
     /\ DrainAndArm(Call(Ended(ctl), order, queue), [phase EXCEPT ![q] = "idle"], 0, Engaged)
  \/ /\ phase[q] = "settled"
     /\ phase' = [phase EXCEPT ![q] = "idle"]
     /\ UNCHANGED <<ctl, order, queue, last, current, timer, shown, history>>

----------------------------------------------------------------------------
(* The clock.                                                                *)

CooldownWake ==
  /\ timer = 0
  /\ DrainAndArm(Call(ctl, order, queue), phase, 0, Engaged)

\* Time passes; a due timer may fire late.
Tick ==
  /\ ctl' = Elapsed(ctl)
  /\ timer' = IF timer > 0 THEN timer - 1 ELSE timer
  /\ embargo' = AtLeast(0, embargo - 1)
  /\ quiet' = IF InFlight # {} THEN 0 ELSE AtMost(IdleReset, quiet + 1)
  /\ UNCHANGED <<order, queue, last, phase, current, shown, cut, bypass>>

Next ==
  \/ \E q \in Request :
       \/ TryAdmitHit(q) \/ TryAdmitMiss(q) \/ Admit(q) \/ AdmitAborted(q)
       \/ Abort(q) \/ ObserverAcquire(q)
       \/ Complete(q) \/ Throttle(q) \/ Transient(q) \/ EndEvent(q) \/ Release(q)
  \/ CooldownWake
  \/ Tick

Spec == Init /\ [][Next]_vars

\* The runner calls acquire after onQueued and always releases in its finally;
\* timers fire; time passes.
Fairness ==
  /\ WF_vars(Tick) /\ WF_vars(CooldownWake)
  /\ \A q \in Request : WF_vars(Admit(q)) /\ WF_vars(Release(q))

FairSpec == Spec /\ Fairness

----------------------------------------------------------------------------
(* Properties.                                                               *)

\* The variables keep their types; the cap stays between Floor and Ceiling.
TypeOK ==
  /\ ctl \in Controller /\ ~ctl.turned
  /\ order \in Seq(Run)
  /\ queue \in [Run -> Seq(Request)]
  /\ last \in Owner \cup {NoRun}
  /\ phase \in [Request -> Phase]
  /\ current \in [Request -> BOOLEAN]
  /\ timer \in Undefinable(Nat)
  /\ shown \in [Run -> Floor..Ceiling]
  /\ cut \in [Request -> BOOLEAN]
  /\ embargo \in Nat
  /\ quiet \in 0..IdleReset
  /\ bypass \in [Run -> [Run -> 0..(BypassBound + 1)]]

\* The slots the controller counts are exactly the tickets not yet settled: no
\* late event or second release() returns a slot twice, none is leaked.
SlotAccounting == ctl.inFlight = Cardinality(InFlight)

\* A level proven by a full streak is never above the cap: when the cap goes
\* below it, the proof is withdrawn with it (throttled, idleReset).
ProvenLevelBelowCap == ctl.lastGood <= ctl.cap

\* The insertion order lists each run with a non-empty queue once.
Ordered(o, qs) == IsInjective(o) /\ ToSet(o) = {r \in Run : qs[r] # <<>>}

\* The attempts in W are queued once each, with their own run, and no others are.
QueuedOnce(qs, W) ==
  /\ \A q \in W : OwnerOf[q] \in Run
  /\ \A r \in Run : IsInjective(qs[r]) /\ ToSet(qs[r]) = {q \in W : OwnerOf[q] = r}

\* The queues Map, its insertion order and the waiting attempts agree: a grant
\* or an abort removes its waiter and an emptied queue, and nothing else.
QueuesAgree == Ordered(order, queue) /\ QueuedOnce(queue, Waiting)

\* Nobody waits at an open gate with nothing to wake them: whenever somebody is
\* queued, the cap is used up (a settling ticket will drain) or a wake-up timer
\* is armed.
NoLostWakeup == Waiting # {} => ctl.inFlight >= ctl.cap \/ timer # Undef

Granted == {q \in Request : phase[q] # "inflight" /\ phase'[q] = "inflight"}

\* A workflow request is admitted only below the cap in force after the call,
\* and only when every Retry-After announced and not forgotten has elapsed.
GateHonoured ==
  [][(\E q \in Granted : OwnerOf[q] \in Run) =>
       ctl'.inFlight <= ctl'.cap /\ embargo' = 0]_vars

\* One batch of requests lowers the cap at most once: a 429 of a request sent
\* before the latest cut does not cut again.
OneCutPerBatch ==
  [][\A q \in InFlight : phase'[q] # "inflight" /\ ctl'.cap < ctl.cap => ~cut[q]]_vars

\* p joined the queue of q's run before q did.
AheadOf(p, q) ==
  \E i \in DOMAIN queue[OwnerOf[q]] :
    queue[OwnerOf[q]][i] = p /\ \A j \in 1..i : queue[OwnerOf[q]][j] # q

\* Within a run requests are admitted first come first served, and a fast-path
\* admission overtakes nobody of any run.
FirstComeFirstServed ==
  [][\A q \in Granted : OwnerOf[q] \in Run =>
       IF phase[q] = "idle" THEN Waiting = {}
       ELSE \A p \in Waiting : AheadOf(p, q) => phase'[p] # "waiting"]_vars

\* "run-to-run rotation, a large fan-out must not starve a later small run"
\* (Bucket.queues): while a run waits, no other run is served more than
\* BypassBound times.
BoundedBypass == \A r, s \in Run : bypass[r][s] <= BypassBound

\* A cut is announced to every run that has a request in flight when it is
\* decided, the one whose only request was just rejected included; any change is
\* announced to the runs whose requests stay in flight.
CapChangeHeard ==
  [][\A q \in InFlight :
       /\ OwnerOf[q] \in Run
       /\ ctl'.cap < ctl.cap \/ (ctl'.cap # ctl.cap /\ phase'[q] = "inflight")
       => shown'[OwnerOf[q]] = ctl'.cap]_vars

\* "forgets the learned cap after the key has been idle this long"
\* (CONCURRENCY_IDLE_RESET_MS): what was learned is dropped only when nothing
\* was in flight for IdleReset.
ForgetsOnlyWhenIdle ==
  [][ctl'.cap > ctl.cap + IncreaseStep => quiet = IdleReset]_vars

\* Every queued request is eventually admitted or withdrawn.
EveryWaiterLeaves ==
  \A q \in Request : phase[q] = "waiting" ~> phase[q] # "waiting"

=============================================================================
