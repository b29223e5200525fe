------------------------ MODULE ConcurrencyController ------------------------
(* The adaptive concurrency controller of one provider key: a pure AIMD state  *)
(* machine (dynamic-workflow/src/engine/concurrency.ts).  It owns no clock, no *)
(* queue and no timer: every operation takes the controller's record and       *)
(* returns the next one.  ConcurrencyGovernor owns the variable.               *)
(*                                                                             *)
(* Times are kept relative to the present instant, which is all the code ever  *)
(* compares: "cooldown" is the time left of the Retry-After window (0 when it  *)
(* is over, Undef when there is none) and "idle" the time since the last       *)
(* admission, saturated at IdleReset (Undef before the first one).             *)
(* Epochs are only ever compared for equality with the current one, so an      *)
(* epoch is kept as the flag "current" of each admitted request, and "turned"  *)
(* records that the governor's call in progress has run epoch += 1.            *)
EXTENDS Integers

CONSTANTS Ceiling,        \* CPU-derived upper bound and initial value of the cap
          IncreaseAfter,  \* CONCURRENCY_INCREASE_AFTER_SUCCESSES
          IdleReset       \* CONCURRENCY_IDLE_RESET_MS, in ticks

ASSUME CeilingAssumption == Ceiling \in Nat \ {0}
ASSUME IncreaseAfterAssumption == IncreaseAfter \in Nat \ {0}
ASSUME IdleResetAssumption == IdleReset \in Nat \ {0}

Floor == 1              \* CONCURRENCY_FLOOR
IncreaseStep == 1       \* CONCURRENCY_INCREASE_STEP
Undef == -1             \* an absent optional field

\* floor(cap * CONCURRENCY_DECREASE_FACTOR), the factor being 0.75
Decreased(n) == (n * 3) \div 4

AtLeast(a, b) == IF a >= b THEN a ELSE b
AtMost(a, b) == IF a <= b THEN a ELSE b

Undefinable(S) == S \cup {Undef}

\* The controller's record; "demand" is waiters_ > 0, all it is ever asked for.
Controller ==
  [cap : Floor..Ceiling, inFlight : Nat, demand : BOOLEAN, streak : 0..IncreaseAfter,
   cooldown : Undefinable(Nat), idle : Undefinable(0..IdleReset),
   lastGood : Undefinable(Floor..Ceiling), lastBad : Undefinable(Floor..Ceiling),
   turned : BOOLEAN]

\* The record without its bounds, for whatever the operations may make of it.
Counters ==
  [cap : Nat, inFlight : Nat, demand : BOOLEAN, streak : Nat, cooldown : Undefinable(Nat),
   idle : Undefinable(Nat), lastGood : Undefinable(Nat), lastBad : Undefinable(Nat),
   turned : BOOLEAN]

\* A fresh controller: the cap starts at the ceiling and nothing is known.
NewController ==
  [cap      |-> Ceiling,
   inFlight |-> 0,
   demand   |-> FALSE,
   streak   |-> 0,
   cooldown |-> Undef,
   idle     |-> Undef,
   lastGood |-> Undef,
   lastBad  |-> Undef,
   turned   |-> FALSE]

----------------------------------------------------------------------------
\* Idle reset: nothing in flight and no admission for IdleReset.
IdleDue(c) == c.inFlight = 0 /\ c.idle = IdleReset

\* Already at the ceiling with nothing learned: the reset must not turn a page.
Pristine(c) ==
  /\ c.cap = Ceiling
  /\ c.streak = 0
  /\ c.cooldown = Undef
  /\ c.lastGood = Undef
  /\ c.lastBad = Undef

\* idleReset(), which every signal runs first.
Idled(c) ==
  IF IdleDue(c) /\ ~Pristine(c)
  THEN [c EXCEPT !.cap = Ceiling, !.streak = 0, !.cooldown = Undef,
                 !.lastGood = Undef, !.lastBad = Undef, !.turned = TRUE]
  ELSE c

Released(c) == [c EXCEPT !.inFlight = AtLeast(0, @ - 1)]

----------------------------------------------------------------------------
\* Mutant of CanAdmit: the Retry-After window is not consulted.
CanAdmitCooling(c) == c.inFlight < c.cap

\* canAdmit(): a slot is free and the Retry-After window is over.
CanAdmit(c) == c.inFlight < c.cap /\ c.cooldown \in {Undef, 0}

Observe(c) == Idled(c)

Admitted(c) == [c EXCEPT !.idle = 0, !.inFlight = @ + 1]

\* waiters(): the governor reports whether anybody is queued.
Waiters(c, queued) == [Idled(c) EXCEPT !.demand = queued]

\* succeeded(): a full streak proves the cap (lastGood); with demand it grows.
\* Without demand the streak keeps counting; it is kept saturated at
\* IncreaseAfter, the only value it is compared with.
Succeeded(c, current) ==
  LET r == Released(Idled(c))
      s == [r EXCEPT !.streak = AtMost(IncreaseAfter, @ + 1)]
      proven == [s EXCEPT !.lastGood = AtLeast(@, s.cap)]
  IN  IF ~current \/ r.turned THEN r
      ELSE IF s.streak < IncreaseAfter THEN s
      ELSE IF ~s.demand \/ s.cap >= Ceiling THEN proven
      ELSE [proven EXCEPT !.cap = AtMost(Ceiling, @ + IncreaseStep), !.streak = 0]

\* Mutant of StepDown: the factor is applied without the floor.
StepDownToZero(c) ==
  IF c.lastGood # Undef /\ c.cap > c.lastGood
  THEN [c EXCEPT !.lastBad = c.cap, !.cap = c.lastGood, !.turned = TRUE]
  ELSE [c EXCEPT !.lastBad = c.cap, !.cap = Decreased(c.cap),
                 !.lastGood = Undef, !.turned = TRUE]

\* Mutant of StepDown: a cut below the proven level keeps the proof.
StepDownKeepsProof(c) ==
  IF c.lastGood # Undef /\ c.cap > c.lastGood
  THEN [c EXCEPT !.lastBad = c.cap, !.cap = c.lastGood, !.turned = TRUE]
  ELSE [c EXCEPT !.lastBad = c.cap, !.cap = AtLeast(Floor, Decreased(c.cap)), !.turned = TRUE]

\* The verdict of a 429 on the cap it was sent under: back to the proven level
\* when probing above it, else down by the factor with the proof withdrawn.
StepDown(c) ==
  IF c.lastGood # Undef /\ c.cap > c.lastGood
  THEN [c EXCEPT !.lastBad = c.cap, !.cap = c.lastGood, !.turned = TRUE]
  ELSE [c EXCEPT !.lastBad = c.cap, !.cap = AtLeast(Floor, Decreased(c.cap)),
                 !.lastGood = Undef, !.turned = TRUE]

\* throttled() up to the verdict: the slot, the streak and the Retry-After.
Cooled(c, retryAfter) ==
  LET r == [Released(Idled(c)) EXCEPT !.streak = 0]
  IN  IF retryAfter > 0 THEN [r EXCEPT !.cooldown = AtLeast(@, retryAfter)] ELSE r

\* Mutant of Throttled: the epoch of the request is not compared.
ThrottledAnyEpoch(c, current, retryAfter) == StepDown(Cooled(c, retryAfter))

\* throttled(): a 429.  Only a request sent under the current cap moves the cap.
Throttled(c, current, retryAfter) ==
  LET s == Cooled(c, retryAfter)
  IN  IF current /\ ~s.turned THEN StepDown(s) ELSE s

FailedTransient(c) == [Released(Idled(c)) EXCEPT !.streak = 0]

Ended(c) == Released(Idled(c))

\* One tick of the caller's clock, as the controller's relative times see it.
Elapsed(c) ==
  [c EXCEPT !.cooldown = IF @ > 0 THEN @ - 1 ELSE @,
            !.idle     = IF @ = Undef THEN @ ELSE AtMost(IdleReset, @ + 1)]

=============================================================================
