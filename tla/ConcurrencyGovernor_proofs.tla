--------------------- MODULE ConcurrencyGovernor_proofs ---------------------
(* Theorems about the governor for every set of runs and requests, every     *)
(* ceiling and every Retry-After.                                            *)
EXTENDS ConcurrencyGovernor, Subsequence_proofs

(* ---------------------------------------------------------- the controller *)

(* What every signal of the controller preserves, for every ceiling, streak   *)
(* length and idle period: the record keeps its type, the proven level stays  *)
(* at or below the cap, and the slot count moves by exactly one or not at all. *)

\* A controller whose proven level is not above its cap.
Sane == {c \in Controller : c.lastGood <= c.cap}

\* The facts about the constants the proofs below rest on.
LEMMA Constants ==
  /\ Ceiling \in Floor..Ceiling /\ Floor \in Floor..Ceiling
  /\ Floor..Ceiling \subseteq Nat \ {0}
  /\ 0 \in 0..IncreaseAfter /\ IncreaseAfter \in Nat
  /\ 0 \in 0..IdleReset /\ IdleReset \in Nat
  /\ Undef \in Int /\ Undef < 0
  /\ \A S : Undef \in Undefinable(S) /\ S \subseteq Undefinable(S)
  /\ \A S : \A x \in Undefinable(S) : x = Undef \/ x \in S
BY CeilingAssumption, IncreaseAfterAssumption, IdleResetAssumption DEF Undefinable, Floor, Undef

\* A cut by the factor stays between nothing and what it cuts.
LEMMA DecreasedBound ==
  ASSUME NEW n \in Nat
  PROVE  Decreased(n) \in Nat /\ Decreased(n) <= n
BY DEF Decreased

\* A sane controller is one the loop takes.
LEMMA SaneCounts == Sane \subseteq Counters
<1> SUFFICES ASSUME NEW c \in Sane PROVE c \in Counters
  OBVIOUS
<1>1. c \in Controller
  BY DEF Sane
<1>2. /\ Floor..Ceiling \subseteq Nat /\ 0..IncreaseAfter \subseteq Nat
      /\ 0..IdleReset \subseteq Nat
  BY Constants DEF Floor
<1>3. /\ c.cap \in Nat /\ c.inFlight \in Nat /\ c.demand \in BOOLEAN /\ c.streak \in Nat
      /\ c.cooldown \in Undefinable(Nat) /\ c.idle \in Undefinable(Nat)
      /\ c.lastGood \in Undefinable(Nat) /\ c.lastBad \in Undefinable(Nat)
      /\ c.turned \in BOOLEAN
  BY <1>1, <1>2 DEF Controller, Undefinable
<1>4. c = [cap |-> c.cap, inFlight |-> c.inFlight, demand |-> c.demand, streak |-> c.streak,
           cooldown |-> c.cooldown, idle |-> c.idle, lastGood |-> c.lastGood,
           lastBad |-> c.lastBad, turned |-> c.turned]
  BY <1>1 DEF Controller
<1>5. QED
  BY <1>3, <1>4 DEF Counters

\* A fresh controller is sane and has nothing in flight.
LEMMA NewSane == NewController \in Sane /\ NewController.inFlight = 0
BY Constants DEF NewController, Sane, Controller

\* The idle reset.
LEMMA IdledSane ==
  ASSUME NEW c \in Sane
  PROVE  Idled(c) \in Sane /\ Idled(c).inFlight = c.inFlight
<1> DEFINE d == [c EXCEPT !.cap = Ceiling, !.streak = 0, !.cooldown = Undef,
                          !.lastGood = Undef, !.lastBad = Undef, !.turned = TRUE]
<1>1. /\ Undef \in Undefinable(Nat) /\ Undef \in Undefinable(Floor..Ceiling)
      /\ c \in Controller
  BY Constants DEF Sane
<1>2. d \in Controller /\ d.inFlight = c.inFlight /\ d.lastGood = Undef /\ d.cap = Ceiling
  BY <1>1, Constants DEF Controller
<1> HIDE DEF d
<1>3. d \in Sane
  BY <1>2, Constants DEF Sane
<1>4. Idled(c) = d \/ Idled(c) = c
  BY DEF Idled, d
<1>5. QED
  BY <1>2, <1>3, <1>4

LEMMA ReleasedSane ==
  ASSUME NEW c \in Sane
  PROVE  /\ Released(c) \in Sane
         /\ c.inFlight > 0 => Released(c).inFlight = c.inFlight - 1
BY DEF Released, AtLeast, Sane, Controller

LEMMA AdmittedSane ==
  ASSUME NEW c \in Sane
  PROVE  Admitted(c) \in Sane /\ Admitted(c).inFlight = c.inFlight + 1
<1>1. c \in Controller /\ c.inFlight \in Nat /\ 0 \in Undefinable(0..IdleReset)
  BY Constants DEF Sane, Controller
<1> DEFINE n == c.inFlight + 1
<1>n. n \in Nat /\ Admitted(c) = [c EXCEPT !.idle = 0, !.inFlight = n]
  BY <1>1 DEF Admitted
<1> HIDE DEF n
<1>2. /\ Admitted(c) \in Controller /\ Admitted(c).inFlight = n
      /\ Admitted(c).lastGood = c.lastGood /\ Admitted(c).cap = c.cap
  BY <1>1, <1>n DEF Controller
<1>3. QED
  BY <1>2 DEF Sane, n

LEMMA WaitersSane ==
  ASSUME NEW c \in Sane, NEW b \in BOOLEAN
  PROVE  Waiters(c, b) \in Sane /\ Waiters(c, b).inFlight = c.inFlight
<1>1. Idled(c) \in Sane /\ Idled(c).inFlight = c.inFlight
  BY IdledSane
<1>2. ASSUME NEW d \in Sane
      PROVE  [d EXCEPT !.demand = b] \in Sane /\ [d EXCEPT !.demand = b].inFlight = d.inFlight
  BY DEF Sane, Controller
<1>3. QED
  BY <1>1, <1>2 DEF Waiters

\* The cut of a 429 leaves the cap in range and never under a proven level.
LEMMA StepDownSane ==
  ASSUME NEW c \in Sane
  PROVE  /\ StepDown(c) \in Sane /\ StepDown(c).inFlight = c.inFlight
         /\ StepDown(c).cap <= c.cap
<1> DEFINE low == AtLeast(Floor, Decreased(c.cap))
           d == [c EXCEPT !.lastBad = c.cap, !.cap = low, !.lastGood = Undef, !.turned = TRUE]
           e == [c EXCEPT !.lastBad = c.cap, !.cap = c.lastGood, !.turned = TRUE]
<1>1. c \in Controller /\ c.cap \in Floor..Ceiling /\ c.cap \in Undefinable(Floor..Ceiling)
  BY Constants DEF Sane, Controller
<1>2. low \in Floor..Ceiling /\ low <= c.cap
  BY <1>1, DecreasedBound, CeilingAssumption DEF AtLeast, Floor
<1> HIDE DEF low
<1>3. d \in Controller /\ d.inFlight = c.inFlight /\ d.cap = low /\ d.lastGood = Undef
  BY <1>1, <1>2, Constants DEF Controller
<1>4. CASE c.lastGood # Undef /\ c.cap > c.lastGood
  <2>1. c.lastGood \in Floor..Ceiling
    BY <1>1, <1>4, Constants DEF Controller
  <2>2. e \in Controller /\ e.inFlight = c.inFlight /\ e.cap = c.lastGood /\ e.lastGood = c.lastGood
    BY <1>1, <2>1 DEF Controller
  <2>3. StepDown(c) = e
    BY <1>4 DEF StepDown
  <2> HIDE DEF e
  <2>4. QED
    BY <1>1, <1>4, <2>1, <2>2, <2>3, Constants DEF Sane
<1>5. CASE ~(c.lastGood # Undef /\ c.cap > c.lastGood)
  <2>1. StepDown(c) = d
    BY <1>5 DEF StepDown, low
  <2> HIDE DEF d
  <2>2. QED
    BY <1>1, <1>2, <1>3, <2>1, Constants DEF Sane
<1>6. QED
  BY <1>4, <1>5

\* A success frees one slot and may raise the cap by one, never past the ceiling.
LEMMA SucceededSane ==
  ASSUME NEW c \in Sane, NEW fresh \in BOOLEAN
  PROVE  /\ Succeeded(c, fresh) \in Sane
         /\ c.inFlight > 0 => Succeeded(c, fresh).inFlight = c.inFlight - 1
<1> DEFINE r == Released(Idled(c))
<1>1. r \in Sane /\ (c.inFlight > 0 => r.inFlight = c.inFlight - 1)
  BY IdledSane, ReleasedSane
<1> DEFINE s == [r EXCEPT !.streak = AtMost(IncreaseAfter, @ + 1)]
<1> HIDE DEF r
<1>2. s \in Sane /\ s.inFlight = r.inFlight
  BY <1>1, Constants, SMTT(30) DEF AtMost, Sane, Controller
<1> DEFINE proven == [s EXCEPT !.lastGood = AtLeast(@, s.cap)]
<1> HIDE DEF s
<1>3. /\ proven \in Sane /\ proven.inFlight = s.inFlight
      /\ proven.cap = s.cap /\ proven.lastGood = s.cap
  <2>1. s \in Controller /\ s.cap \in Floor..Ceiling /\ s.lastGood <= s.cap
    BY <1>2 DEF Sane, Controller
  <2>2. AtLeast(s.lastGood, s.cap) = s.cap /\ s.cap \in Undefinable(Floor..Ceiling)
    BY <2>1, Constants DEF AtLeast, Controller
  <2>3. /\ proven \in Controller /\ proven.inFlight = s.inFlight
        /\ proven.cap = s.cap /\ proven.lastGood = s.cap
    BY <2>1, <2>2 DEF Controller
  <2> HIDE DEF proven
  <2>4. QED
    BY <2>1, <2>3, Constants DEF Sane
<1> DEFINE grown == [proven EXCEPT !.cap = AtMost(Ceiling, @ + IncreaseStep), !.streak = 0]
<1> HIDE DEF proven
<1>4. grown \in Sane /\ grown.inFlight = proven.inFlight
  <2> DEFINE up == AtMost(Ceiling, proven.cap + IncreaseStep)
  <2>1. proven \in Controller /\ proven.cap \in Floor..Ceiling
    BY <1>3 DEF Sane, Controller
  <2>2. up \in Floor..Ceiling /\ proven.cap <= up
    BY <2>1, CeilingAssumption DEF AtMost, IncreaseStep, Floor
  <2>3. grown = [proven EXCEPT !.cap = up, !.streak = 0]
    OBVIOUS
  <2> HIDE DEF up, grown
  <2>4. /\ grown \in Controller /\ grown.inFlight = proven.inFlight
        /\ grown.cap = up /\ grown.lastGood = proven.lastGood
    BY <2>1, <2>2, <2>3, Constants DEF Controller
  <2>5. QED
    BY <1>3, <2>1, <2>2, <2>4, Constants DEF Sane
<1>5. Succeeded(c, fresh) \in {r, s, proven, grown}
  BY DEF Succeeded, r, s, proven
<1> HIDE DEF grown
<1>6. QED
  BY <1>1, <1>2, <1>3, <1>4, <1>5

LEMMA CooledSane ==
  ASSUME NEW c \in Sane, NEW ra \in Nat
  PROVE  /\ Cooled(c, ra) \in Sane
         /\ c.inFlight > 0 => Cooled(c, ra).inFlight = c.inFlight - 1
<1> DEFINE d == Released(Idled(c))
<1>1. d \in Sane /\ (c.inFlight > 0 => d.inFlight = c.inFlight - 1)
  BY IdledSane, ReleasedSane
<1> DEFINE r == [d EXCEPT !.streak = 0]
<1> HIDE DEF d
<1>2. r \in Sane /\ r.inFlight = d.inFlight
  BY <1>1, Constants DEF Sane, Controller
<1> DEFINE s == [r EXCEPT !.cooldown = AtLeast(@, ra)]
<1> HIDE DEF r
<1>3. s \in Sane /\ s.inFlight = r.inFlight
  BY <1>2, Constants DEF AtLeast, Sane, Controller
<1>4. Cooled(c, ra) \in {r, s}
  BY DEF Cooled, r, d
<1> HIDE DEF s
<1>5. QED
  BY <1>1, <1>2, <1>3, <1>4

\* A 429 frees one slot, whatever page it was sent under.
LEMMA ThrottledSane ==
  ASSUME NEW c \in Sane, NEW fresh \in BOOLEAN, NEW ra \in Nat
  PROVE  /\ Throttled(c, fresh, ra) \in Sane
         /\ c.inFlight > 0 => Throttled(c, fresh, ra).inFlight = c.inFlight - 1
BY CooledSane, StepDownSane DEF Throttled

LEMMA EndedSane ==
  ASSUME NEW c \in Sane
  PROVE  /\ Ended(c) \in Sane
         /\ c.inFlight > 0 => Ended(c).inFlight = c.inFlight - 1
BY IdledSane, ReleasedSane DEF Ended

LEMMA FailedTransientSane ==
  ASSUME NEW c \in Sane
  PROVE  /\ FailedTransient(c) \in Sane
         /\ c.inFlight > 0 => FailedTransient(c).inFlight = c.inFlight - 1
<1> DEFINE d == Released(Idled(c))
<1>1. d \in Sane /\ (c.inFlight > 0 => d.inFlight = c.inFlight - 1)
  BY IdledSane, ReleasedSane
<1> HIDE DEF d
<1>2. [d EXCEPT !.streak = 0] \in Sane /\ [d EXCEPT !.streak = 0].inFlight = d.inFlight
  BY <1>1, Constants DEF Sane, Controller
<1>3. QED
  BY <1>1, <1>2 DEF FailedTransient, d

\* The passing of time.
LEMMA ElapsedSane ==
  ASSUME NEW c \in Sane
  PROVE  Elapsed(c) \in Sane /\ Elapsed(c).inFlight = c.inFlight
<1> DEFINE left == IF c.cooldown > 0 THEN c.cooldown - 1 ELSE c.cooldown
<1> DEFINE age == IF c.idle = Undef THEN c.idle ELSE AtMost(IdleReset, c.idle + 1)
<1>1. c \in Controller /\ left \in Undefinable(Nat) /\ age \in Undefinable(0..IdleReset)
  BY IdleResetAssumption DEF Sane, Controller, Undefinable, AtMost, Undef
<1>2. Elapsed(c) = [c EXCEPT !.cooldown = left, !.idle = age]
  BY <1>1 DEF Elapsed, Controller
<1> HIDE DEF left, age
<1>3. /\ Elapsed(c) \in Controller /\ Elapsed(c).inFlight = c.inFlight
      /\ Elapsed(c).lastGood = c.lastGood /\ Elapsed(c).cap = c.cap
  BY <1>1, <1>2 DEF Controller
<1>4. QED
  BY <1>3 DEF Sane

\* What a call that is no verdict may do to the cap: leave it, or forget a cut.
Raised(c, d) ==
  /\ d.cap \in {c.cap, Ceiling}
  /\ c.turned => d.turned
  /\ d.cooldown \in {Undef, c.cooldown}

LEMMA RaisedTrans ==
  ASSUME NEW a, NEW b, NEW c, Raised(a, b), Raised(b, c)
  PROVE  Raised(a, c)
BY DEF Raised

LEMMA IdledRaises ==
  ASSUME NEW c \in Sane
  PROVE  Raised(c, Idled(c)) /\ (c.inFlight > 0 => Idled(c) = c)
BY DEF Idled, IdleDue, Raised, Sane, Controller

LEMMA WaitersRaises ==
  ASSUME NEW c \in Sane, NEW b \in BOOLEAN
  PROVE  Raised(c, Waiters(c, b))
<1>1. Idled(c) \in Sane /\ Raised(c, Idled(c))
  BY IdledSane, IdledRaises
<1>2. ASSUME NEW d \in Sane PROVE Raised(d, [d EXCEPT !.demand = b])
  BY DEF Raised, Sane, Controller
<1>3. QED
  BY <1>1, <1>2, RaisedTrans DEF Waiters

LEMMA AdmittedRaises == ASSUME NEW c \in Sane PROVE Raised(c, Admitted(c))
BY DEF Raised, Admitted, Sane, Controller

\* A signal other than a 429 never lowers the cap and leaves the Retry-After window.
LEMMA OthersSpare ==
  ASSUME NEW c \in Sane, c.inFlight > 0, NEW fresh \in BOOLEAN,
         NEW d \in {Succeeded(c, fresh), FailedTransient(c), Ended(c)}
  PROVE  d.cap >= c.cap /\ d.cooldown = c.cooldown
<1> DEFINE r == Released(Idled(c))
<1>1. /\ r \in Controller /\ r.cap = c.cap /\ r.cooldown = c.cooldown
      /\ c.cap \in Floor..Ceiling
  BY IdledRaises, ReleasedSane DEF Released, Sane, Controller
<1>2. Ended(c) = r /\ FailedTransient(c) = [r EXCEPT !.streak = 0]
  BY DEF Ended, FailedTransient
<1> DEFINE s == [r EXCEPT !.streak = AtMost(IncreaseAfter, @ + 1)]
           proven == [s EXCEPT !.lastGood = AtLeast(@, s.cap)]
           grown == [proven EXCEPT !.cap = AtMost(Ceiling, @ + IncreaseStep), !.streak = 0]
<1>3. Succeeded(c, fresh) \in {r, s, proven, grown}
  BY DEF Succeeded
<1> HIDE DEF r
<1>4. /\ s.cap = c.cap /\ s.cooldown = c.cooldown
      /\ proven.cap = c.cap /\ proven.cooldown = c.cooldown
  BY <1>1 DEF Controller
<1>5. grown.cap = AtMost(Ceiling, c.cap + IncreaseStep) /\ grown.cooldown = c.cooldown
  BY <1>1 DEF Controller
<1>6. AtMost(Ceiling, c.cap + IncreaseStep) >= c.cap
  BY <1>1, CeilingAssumption DEF AtMost, IncreaseStep, Floor
<1>7. [r EXCEPT !.streak = 0].cap = c.cap /\ [r EXCEPT !.streak = 0].cooldown = c.cooldown
  BY <1>1 DEF Controller
<1>8. c.cap >= c.cap
  BY <1>1 DEF Floor
<1> HIDE DEF s, proven, grown
<1>9. QED
  BY <1>1, <1>2, <1>3, <1>4, <1>5, <1>6, <1>7, <1>8

\* A 429 lowers the cap only for a request of the current epoch, and turns it; the
\* window it opens is no shorter than the one it finds and than its Retry-After.
LEMMA ThrottledTurns ==
  ASSUME NEW c \in Sane, c.inFlight > 0, NEW fresh \in BOOLEAN, NEW ra \in Nat
  PROVE  LET d == Throttled(c, fresh, ra)
         IN  /\ d.cap < c.cap => fresh /\ d.turned
             /\ d.cooldown = IF ra > 0 THEN AtLeast(c.cooldown, ra) ELSE c.cooldown
<1> DEFINE s == Cooled(c, ra)
<1>1. /\ s \in Controller /\ s.cap = c.cap
      /\ s.cooldown = IF ra > 0 THEN AtLeast(c.cooldown, ra) ELSE c.cooldown
  BY IdledRaises, CooledSane DEF Cooled, Released, Sane, Controller
<1>2. c.cap \in Floor..Ceiling
  BY DEF Sane, Controller
<1> HIDE DEF s
<1>3. StepDown(s).turned /\ StepDown(s).cooldown = s.cooldown
  BY <1>1 DEF StepDown, Controller
<1>4. Throttled(c, fresh, ra) = IF fresh /\ ~s.turned THEN StepDown(s) ELSE s
  BY DEF Throttled, s
<1>5. CASE fresh /\ ~s.turned
  BY <1>1, <1>3, <1>4, <1>5
<1>6. CASE ~(fresh /\ ~s.turned)
  BY <1>1, <1>2, <1>4, <1>6 DEF Floor
<1>7. QED
  BY <1>5, <1>6

(* ---------------------------------------------------------------- the loop *)

\* The loop of drain() satisfies its recursion equation, and a set of loop
\* states that one turn does not leave is not left by the loop.
LEMMA LoopedStays ==
  ASSUME NEW Good, \A t \in Good : Turn[t] \in Good, NEW s \in Good
  PROVE  Looped(s) \in Good
<1> DEFINE After(f, n) == f = [i \in 0..n |-> IF i = 0 THEN s ELSE Turn[f[i - 1]]]
<1> DEFINE N == MaxTurns
<1>1. N \in Nat
  BY RequestAssumption, FS_CardinalityType DEF MaxTurns
<1>2. \E f : After(f, N)
  <2> DEFINE S == {n \in Nat : \E f : After(f, n)}
  <2>1. 0 \in S
    <3>1. After([i \in 0..0 |-> s], 0)
      OBVIOUS
    <3>2. QED
      BY <3>1
  <2>2. ASSUME NEW n \in 0..(N - 1), n \in S PROVE n + 1 \in S
    <3>1. PICK f : After(f, n)
      BY <2>2
    <3> DEFINE g == [i \in 0..(n + 1) |-> IF i = n + 1 THEN Turn[f[n]] ELSE f[i]]
    <3>2. \A i \in 0..n : g[i] = f[i]
      OBVIOUS
    <3>3. \A i \in 0..n : f[i] = IF i = 0 THEN s ELSE Turn[f[i - 1]]
      BY <3>1
    <3>4. \A i \in 0..(n + 1) : g[i] = IF i = 0 THEN s ELSE Turn[g[i - 1]]
      <4>1. ASSUME NEW i \in 0..(n + 1), i = 0 PROVE g[i] = s
        BY <4>1, <3>2, <3>3
      <4>2. ASSUME NEW i \in 0..(n + 1), i # 0, i # n + 1 PROVE g[i] = Turn[g[i - 1]]
        <5>1. i \in 0..n /\ i - 1 \in 0..n
          BY <4>2
        <5>2. QED
          BY <5>1, <4>2, <3>2, <3>3
      <4>3. g[n + 1] = Turn[g[n]]
        BY <3>2
      <4>4. QED
        BY <4>1, <4>2, <4>3
    <3>5. After(g, n + 1)
      <4>1. g = [i \in 0..(n + 1) |-> g[i]]
        OBVIOUS
      <4>2. [i \in 0..(n + 1) |-> g[i]] = [i \in 0..(n + 1) |-> IF i = 0 THEN s ELSE Turn[g[i - 1]]]
        BY <3>4
      <4> HIDE DEF g
      <4>3. QED
        BY <4>1, <4>2
    <3> HIDE DEF g, After, N
    <3>6. \E h : After(h, n + 1)
      BY <3>5
    <3>7. n + 1 \in Nat
      BY <1>1
    <3>8. QED
      BY <3>6, <3>7
  <2>3. 0..N \subseteq S
    <3> HIDE DEF S, N
    <3>1. QED
      BY <1>1, <2>1, <2>2, UpTo
  <2>4. QED
    BY <2>3, <1>1, SMTT(30)
<1> DEFINE after == CHOOSE f : After(f, N)
<1>3. After(after, N)
  BY <1>2
<1>4. Looped(s) = after[N]
  BY DEF Looped
<1>5. \A i \in 0..N : after[i] = IF i = 0 THEN s ELSE Turn[after[i - 1]]
  <2> HIDE DEF after
  <2>1. QED
    BY <1>3
<1>6. 0..N \subseteq {i \in Nat : after[i] \in Good}
  <2> DEFINE S == {i \in Nat : after[i] \in Good}
  <2> HIDE DEF after, N
  <2>1. 0 \in S
    BY <1>1, <1>5
  <2>2. \A i \in 0..(N - 1) : i \in S => i + 1 \in S
    <3>1. ASSUME NEW i \in 0..(N - 1), i \in S PROVE i + 1 \in S
      <4>1. i + 1 \in 0..N /\ i + 1 # 0 /\ (i + 1) - 1 = i
        BY <1>1
      <4>2. after[i + 1] = Turn[after[i]]
        BY <4>1, <1>5
      <4>3. QED
        BY <4>2, <3>1
    <3>2. QED
      BY <3>1
  <2> HIDE DEF S
  <2>3. 0..N \subseteq S
    BY <1>1, <2>1, <2>2, UpTo
  <2>4. QED
    BY <2>3 DEF S
<1>7. QED
  <2> HIDE DEF after, N
  <2>1. N \in 0..N
    BY <1>1
  <2>2. QED
    BY <2>1, <1>4, <1>6

(* --------------------------------------------------------------- sequences *)

\* Taking one element out of a sequence without repetitions.
LEMMA RemoveAtOnce ==
  ASSUME NEW S, NEW s \in Seq(S), IsInjective(s), NEW k \in DOMAIN s
  PROVE  /\ RemoveAt(s, k) \in Seq(S) /\ IsInjective(RemoveAt(s, k))
         /\ ToSet(RemoveAt(s, k)) = ToSet(s) \ {s[k]}
<1> DEFINE t == RemoveAt(s, k)
<1>1. /\ t \in Seq(S) /\ Len(t) = Len(s) - 1
      /\ \A i \in 1..(Len(s) - 1) : t[i] = IF i < k THEN s[i] ELSE s[i + 1]
  <2> DEFINE a == SubSeq(s, 1, k - 1)
             b == SubSeq(s, k + 1, Len(s))
  <2>1. k \in 1..Len(s) /\ Len(s) \in Nat /\ \A i \in 1..Len(s) : s[i] \in S
    OBVIOUS
  <2>2. /\ a \in Seq(S) /\ Len(a) = k - 1 /\ \A i \in 1..(k - 1) : a[i] = s[i]
    <3>1. /\ a \in Seq(S) /\ Len(a) = IF 1 <= k - 1 THEN k - 1 - 1 + 1 ELSE 0
          /\ \A i \in 1..(k - 1 - 1 + 1) : a[i] = s[1 + i - 1]
      BY <2>1, SubSeqProperties
    <3>2. QED
      BY <2>1, <3>1
  <2>3. /\ b \in Seq(S) /\ Len(b) = Len(s) - k /\ \A i \in 1..(Len(s) - k) : b[i] = s[k + i]
    <3>1. /\ b \in Seq(S) /\ Len(b) = IF k + 1 <= Len(s) THEN Len(s) - (k + 1) + 1 ELSE 0
          /\ \A i \in 1..(Len(s) - (k + 1) + 1) : b[i] = s[(k + 1) + i - 1]
      BY <2>1, SubSeqProperties
    <3>2. QED
      BY <2>1, <3>1
  <2>4. t = a \o b
    BY DEF RemoveAt
  <2> HIDE DEF a, b, t
  <2>5. /\ t \in Seq(S) /\ Len(t) = Len(a) + Len(b)
        /\ \A i \in 1..(Len(a) + Len(b)) : t[i] = IF i <= Len(a) THEN a[i] ELSE b[i - Len(a)]
    BY <2>2, <2>3, <2>4, ConcatProperties
  <2>6. ASSUME NEW i \in 1..(Len(s) - 1) PROVE t[i] = IF i < k THEN s[i] ELSE s[i + 1]
    <3>1. CASE i < k
      BY <2>1, <2>2, <2>3, <2>5, <3>1, SMTT(30)
    <3>2. CASE ~(i < k)
      <4>1. i - Len(a) \in 1..(Len(s) - k) /\ k + (i - Len(a)) = i + 1
        BY <2>1, <2>2, <3>2
      <4>2. t[i] = b[i - Len(a)]
        BY <2>1, <2>2, <2>3, <2>5, <3>2, SMTT(30)
      <4>3. QED
        BY <2>3, <3>2, <4>1, <4>2
    <3>3. QED
      BY <3>1, <3>2
  <2>7. QED
    BY <2>1, <2>2, <2>3, <2>5, <2>6
<1> HIDE DEF t
<1>2. DOMAIN t = 1..(Len(s) - 1) /\ DOMAIN s = 1..Len(s) /\ Len(s) \in Nat
  BY <1>1
<1>3. \A i, j \in DOMAIN t : t[i] = t[j] => i = j
  BY <1>1, <1>2, SMTT(30) DEF IsInjective
<1>4. \A i \in DOMAIN t : t[i] \in ToSet(s) \ {s[k]}
  BY <1>1, <1>2 DEF IsInjective, ToSet
<1>5. ASSUME NEW j \in DOMAIN s, j # k PROVE \E i \in DOMAIN t : t[i] = s[j]
  <2>1. CASE j < k
    BY <1>1, <1>2, <2>1
  <2>2. CASE j > k
    <3>1. j - 1 \in DOMAIN t /\ t[j - 1] = s[j]
      BY <1>1, <1>2, <2>2
    <3>2. QED
      BY <3>1
  <2>3. QED
    BY <1>2, <1>5, <2>1, <2>2
<1>6. ToSet(t) = ToSet(s) \ {s[k]}
  BY <1>4, <1>5 DEF ToSet
<1>7. QED
  BY <1>1, <1>3, <1>6 DEF IsInjective, t

LEMMA RemoveAtLength ==
  ASSUME NEW S, NEW s \in Seq(S), NEW k \in 1..Len(s)
  PROVE  Len(RemoveAt(s, k)) = Len(s) - 1
<1> DEFINE a == SubSeq(s, 1, k - 1)
           b == SubSeq(s, k + 1, Len(s))
<1>1. Len(s) \in Nat /\ \A i \in 1..Len(s) : s[i] \in S
  OBVIOUS
<1>2. a \in Seq(S) /\ Len(a) = IF 1 <= k - 1 THEN k - 1 - 1 + 1 ELSE 0
  BY <1>1, SubSeqProperties
<1>3. b \in Seq(S) /\ Len(b) = IF k + 1 <= Len(s) THEN Len(s) - (k + 1) + 1 ELSE 0
  BY <1>1, SubSeqProperties
<1>4. RemoveAt(s, k) = a \o b
  BY DEF RemoveAt
<1> HIDE DEF a, b
<1>5. Len(a \o b) = Len(a) + Len(b)
  BY <1>2, <1>3, ConcatProperties
<1>6. Len(a) = k - 1 /\ Len(b) = Len(s) - k
  BY <1>1, <1>2, <1>3
<1> HIDE DEF RemoveAt
<1>7. QED
  BY <1>1, <1>4, <1>5, <1>6

\* Taking the first one.
LEMMA TailOnce ==
  ASSUME NEW S, NEW s \in Seq(S), IsInjective(s), s # <<>>
  PROVE  /\ Head(s) \in ToSet(s) /\ Tail(s) \in Seq(S) /\ IsInjective(Tail(s))
         /\ ToSet(Tail(s)) = ToSet(s) \ {Head(s)}
         /\ Len(s) = 1 <=> Tail(s) = <<>>
<1> DEFINE t == Tail(s)
<1>1. /\ t \in Seq(S) /\ Len(t) = Len(s) - 1 /\ Len(s) \in Nat \ {0}
      /\ \A i \in 1..(Len(s) - 1) : t[i] = s[i + 1]
      /\ Head(s) = s[1] /\ (Len(s) = 1 <=> t = <<>>)
  <2>1. Len(s) \in Nat \ {0} /\ Head(s) = s[1]
    OBVIOUS
  <2>2. t \in Seq(S) /\ Len(t) = Len(s) - 1 /\ \A i \in 1..Len(t) : t[i] = s[i + 1]
    BY HeadTailProperties
  <2> HIDE DEF t
  <2>3. Len(s) = 1 <=> t = <<>>
    BY <2>1, <2>2
  <2>4. QED
    BY <2>1, <2>2, <2>3
<1> HIDE DEF t
<1>2. DOMAIN t = 1..(Len(s) - 1) /\ DOMAIN s = 1..Len(s)
  BY <1>1
<1>3. \A i, j \in DOMAIN t : t[i] = t[j] => i = j
  BY <1>1, <1>2, SMTT(30) DEF IsInjective
<1>4. \A i \in DOMAIN t : t[i] \in ToSet(s) \ {s[1]}
  BY <1>1, <1>2 DEF IsInjective, ToSet
<1>5. ASSUME NEW j \in DOMAIN s, j # 1 PROVE \E i \in DOMAIN t : t[i] = s[j]
  <2>1. j - 1 \in DOMAIN t /\ t[j - 1] = s[j]
    BY <1>1, <1>2, <1>5
  <2>2. QED
    BY <2>1
<1>6. ToSet(t) = ToSet(s) \ {s[1]}
  BY <1>4, <1>5 DEF ToSet
<1>7. s[1] \in ToSet(s)
  BY <1>1, <1>2 DEF ToSet
<1>8. QED
  BY <1>1, <1>3, <1>6, <1>7 DEF IsInjective, t

\* Adding one at the end.
LEMMA AppendOnce ==
  ASSUME NEW S, NEW s \in Seq(S), NEW x \in S
  PROVE  /\ Append(s, x) \in Seq(S) /\ ToSet(Append(s, x)) = ToSet(s) \cup {x}
         /\ Append(s, x) # <<>>
         /\ IsInjective(s) /\ x \notin ToSet(s) => IsInjective(Append(s, x))
<1> DEFINE t == Append(s, x)
<1>1. /\ t \in Seq(S) /\ Len(t) = Len(s) + 1 /\ Len(s) \in Nat
      /\ \A i \in 1..Len(s) : t[i] = s[i]
      /\ t[Len(s) + 1] = x
  OBVIOUS
<1> HIDE DEF t
<1>2. DOMAIN t = 1..(Len(s) + 1) /\ DOMAIN s = 1..Len(s)
  BY <1>1
<1>3. ToSet(t) = ToSet(s) \cup {x}
  BY <1>1, <1>2 DEF ToSet
<1>4. ASSUME IsInjective(s), x \notin ToSet(s) PROVE IsInjective(t)
  BY <1>1, <1>2, <1>4 DEF IsInjective, ToSet
<1>5. t # <<>>
  BY <1>1
<1>6. QED
  BY <1>1, <1>3, <1>4, <1>5 DEF t

(* ------------------------------------------------------- one turn of drain() *)

\* The loop states of a drain that started with F in flight and W waiting: what
\* was granted was waiting, the rest is still queued, every slot is counted.
Draining(F, W) ==
  {s \in LoopState :
     /\ s.ctl \in Sane
     /\ ToSet(s.granted) \subseteq W
     /\ Ordered(s.order, s.queue)
     /\ QueuedOnce(s.queue, W \ ToSet(s.granted))
     /\ s.ctl.inFlight = Cardinality(F \cup ToSet(s.granted))}

\* The next run is one of those listed.
LEMMA NextAtListed ==
  ASSUME NEW s, s.order \in Seq(Run), s.order # <<>>
  PROVE  NextAt(s) \in DOMAIN s.order
<1> DEFINE at == {i \in DOMAIN s.order : s.order[i] = s.last}
           after == IF at = {} THEN 0 ELSE CHOOSE i \in at : TRUE
           n == Len(s.order)
<1>1. n \in Nat \ {0} /\ DOMAIN s.order = 1..n
  OBVIOUS
<1>2. after \in Nat
  <2>1. CASE at = {}
    BY <2>1
  <2>2. CASE at # {}
    <3>1. (CHOOSE i \in at : TRUE) \in at
      BY <2>2
    <3>2. QED
      BY <1>1, <2>2, <3>1
  <2>3. QED
    BY <2>1, <2>2
<1>3. NextAt(s) = (after % n) + 1
  BY DEF NextAt
<1> HIDE DEF after, n
<1>4. after % n \in 0..(n - 1)
  BY <1>1, <1>2
<1>5. QED
  BY <1>1, <1>3, <1>4

\* A turn of the loop keeps the books: the waiter that leaves a queue is the one
\* that takes the slot.
LEMMA TurnKeeps ==
  ASSUME NEW F, NEW W, F \subseteq Request, W \subseteq Request, F \cap W = {},
         NEW s \in Draining(F, W)
  PROVE  Turn[s] \in Draining(F, W)
<1> DEFINE w == Waiters(s.ctl, s.order # <<>>)
           k == NextAt(s)
           r == s.order[k]
           h == Head(s.queue[r])
           o == IF Len(s.queue[r]) = 1 THEN RemoveAt(s.order, k) ELSE s.order
           qs == [s.queue EXCEPT ![r] = Tail(@)]
           c == Admitted(Observe(w))
           g == Append(s.granted, h)
<1>1. /\ s.ctl \in Sane /\ s.ctl \in Controller /\ s.order \in Seq(Run)
      /\ s.queue \in [Run -> Seq(Request)] /\ s.last \in Owner \cup {NoRun}
      /\ s.granted \in Seq(Request)
      /\ s = [ctl |-> s.ctl, order |-> s.order, queue |-> s.queue, last |-> s.last,
              granted |-> s.granted]
  BY DEF Draining, LoopState, Sane
<1>2. w \in Sane /\ w \in Controller /\ w.inFlight = s.ctl.inFlight
  <2>1. (s.order # <<>>) \in BOOLEAN
    OBVIOUS
  <2>2. QED
    BY <1>1, <2>1, WaitersSane DEF Sane
<1>3. c \in Sane /\ c \in Controller /\ c.inFlight = w.inFlight + 1
  BY <1>2, IdledSane, AdmittedSane DEF Observe, Sane
<1>4. CASE s.order = <<>> \/ ~CanAdmit(w)
  <2>1. Turn[s] = [s EXCEPT !.ctl = w]
    BY <1>4 DEF Turn, Draining
  <2>2. Turn[s] = [ctl |-> w, order |-> s.order, queue |-> s.queue, last |-> s.last,
                   granted |-> s.granted]
    BY <1>1, <2>1
  <2> HIDE DEF w
  <2>3. Turn[s] \in LoopState
    BY <1>1, <1>2, <2>2, SaneCounts DEF LoopState
  <2>4. /\ Turn[s].ctl = w /\ Turn[s].order = s.order /\ Turn[s].queue = s.queue
        /\ Turn[s].granted = s.granted
    BY <2>2
  <2>5. QED
    BY <1>2, <2>3, <2>4 DEF Draining
<1>5. CASE ~(s.order = <<>> \/ ~CanAdmit(w))
  <2>1. Turn[s] = [ctl |-> c, order |-> o, queue |-> qs, last |-> r, granted |-> g]
    BY <1>5 DEF Turn, Draining
  <2>2. k \in DOMAIN s.order
    BY <1>1, <1>5, NextAtListed
  <2>3. r \in Run /\ r \in ToSet(s.order)
    BY <1>1, <2>2 DEF ToSet
  <2>4. s.queue[r] # <<>> /\ s.queue[r] \in Seq(Request)
    BY <1>1, <2>3 DEF Draining, Ordered
  <2>5. /\ IsInjective(s.queue[r]) /\ IsInjective(s.order)
        /\ ToSet(s.queue[r]) = {q \in W \ ToSet(s.granted) : OwnerOf[q] = r}
    BY <2>3 DEF Draining, QueuedOnce, Ordered
  <2>6. /\ h \in ToSet(s.queue[r]) /\ Tail(s.queue[r]) \in Seq(Request)
        /\ IsInjective(Tail(s.queue[r])) /\ ToSet(Tail(s.queue[r])) = ToSet(s.queue[r]) \ {h}
        /\ (Len(s.queue[r]) = 1 <=> Tail(s.queue[r]) = <<>>)
    BY <2>4, <2>5, TailOnce
  <2>7. h \in W /\ h \in Request /\ h \notin ToSet(s.granted) /\ h \notin F /\ OwnerOf[h] = r
    BY <2>5, <2>6
  <2>8. g \in Seq(Request) /\ ToSet(g) = ToSet(s.granted) \cup {h}
    BY <1>1, <2>7, AppendOnce
  <2>9. /\ qs \in [Run -> Seq(Request)] /\ qs[r] = Tail(s.queue[r])
        /\ \A x \in Run : x # r => qs[x] = s.queue[x]
    BY <1>1, <2>3, <2>6
  <2>10. /\ RemoveAt(s.order, k) \in Seq(Run) /\ IsInjective(RemoveAt(s.order, k))
         /\ ToSet(RemoveAt(s.order, k)) = ToSet(s.order) \ {r}
    BY <1>1, <2>2, <2>5, RemoveAtOnce
  <2>11. o \in Seq(Run) /\ IsInjective(o)
    BY <1>1, <2>5, <2>10
  <2> HIDE DEF w, k, h, c, g, qs
  <2>12. ToSet(o) = {x \in Run : qs[x] # <<>>}
    <3>1. ToSet(s.order) = {x \in Run : s.queue[x] # <<>>}
      BY DEF Draining, Ordered
    <3>2. CASE Len(s.queue[r]) = 1
      <4>1. o = RemoveAt(s.order, k)
        BY <3>2
      <4>2. qs[r] = <<>>
        BY <3>2, <2>6, <2>9
      <4> HIDE DEF o
      <4>3. QED
        BY <2>3, <2>9, <2>10, <3>1, <4>1, <4>2
    <3>3. CASE Len(s.queue[r]) # 1
      <4>1. o = s.order
        BY <3>3
      <4>2. qs[r] # <<>>
        BY <3>3, <2>6, <2>9
      <4> HIDE DEF o
      <4>3. QED
        BY <2>3, <2>4, <2>9, <3>1, <4>1, <4>2
    <3>4. QED
      BY <3>2, <3>3
  <2> HIDE DEF o
  <2>13. QueuedOnce(qs, W \ ToSet(g))
    <3>1. \A q \in W \ ToSet(g) : OwnerOf[q] \in Run
      BY <2>8 DEF Draining, QueuedOnce
    <3>2. ASSUME NEW x \in Run
          PROVE  IsInjective(qs[x]) /\ ToSet(qs[x]) = {q \in W \ ToSet(g) : OwnerOf[q] = x}
      <4>1. CASE x = r
        BY <2>5, <2>6, <2>7, <2>8, <2>9, <4>1
      <4>2. CASE x # r
        <5>1. qs[x] = s.queue[x]
          BY <2>9, <4>2
        <5>2. /\ IsInjective(s.queue[x])
              /\ ToSet(s.queue[x]) = {q \in W \ ToSet(s.granted) : OwnerOf[q] = x}
          BY DEF Draining, QueuedOnce
        <5>3. QED
          BY <2>7, <2>8, <4>2, <5>1, <5>2
      <4>3. QED
        BY <4>1, <4>2
    <3>3. QED
      BY <3>1, <3>2 DEF QueuedOnce
  <2>14. c.inFlight = Cardinality(F \cup ToSet(g))
    <3> DEFINE X == F \cup ToSet(s.granted)
    <3>1. IsFiniteSet(X)
      <4>1. X \subseteq Request
        BY DEF Draining
      <4>2. QED
        BY <4>1, RequestAssumption, FS_Subset
    <3>2. h \notin X /\ F \cup ToSet(g) = X \cup {h}
      BY <2>7, <2>8
    <3>3. s.ctl.inFlight = Cardinality(X)
      BY DEF Draining
    <3> HIDE DEF X
    <3>4. Cardinality(X \cup {h}) = Cardinality(X) + 1
      BY <3>1, <3>2, FS_AddElement
    <3>5. QED
      BY <1>2, <1>3, <3>2, <3>3, <3>4
  <2>15. ToSet(g) \subseteq W
    BY <2>7, <2>8 DEF Draining
  <2>16. r \in Owner \cup {NoRun}
    BY <2>3 DEF Owner
  <2> HIDE DEF r
  <2>17. Turn[s] \in LoopState
    BY <1>3, <2>1, <2>8, <2>9, <2>11, <2>16, SaneCounts DEF LoopState
  <2>18. /\ Turn[s].ctl = c /\ Turn[s].order = o /\ Turn[s].queue = qs
         /\ Turn[s].granted = g
    BY <2>1
  <2>19. Ordered(o, qs)
    BY <2>11, <2>12 DEF Ordered
  <2>20. QED
    BY <1>3, <2>13, <2>14, <2>15, <2>17, <2>18, <2>19 DEF Draining
<1>6. QED
  BY <1>4, <1>5

\* A loop in which, moreover, the cap is not lowered, and whoever was granted came
\* through an open gate.
Calm(c, F, W) ==
  {s \in Draining(F, W) :
     /\ Raised(c, s.ctl)
     /\ s.granted # <<>> => s.ctl.inFlight <= s.ctl.cap /\ s.ctl.cooldown \in {Undef, 0}}

LEMMA TurnCalm ==
  ASSUME NEW c, NEW F, NEW W, F \subseteq Request, W \subseteq Request, F \cap W = {},
         NEW s \in Calm(c, F, W)
  PROVE  Turn[s] \in Calm(c, F, W)
<1> DEFINE w == Waiters(s.ctl, s.order # <<>>)
           a == Admitted(Observe(w))
<1>1. /\ s \in Draining(F, W) /\ s \in LoopState /\ s.ctl \in Sane /\ Raised(c, s.ctl)
      /\ s.granted \in Seq(Request) /\ (s.order # <<>>) \in BOOLEAN
  BY DEF Calm, Draining, LoopState
<1>2. Turn[s] \in Draining(F, W)
  BY <1>1, TurnKeeps
<1>3. w \in Sane /\ Raised(s.ctl, w) /\ w.inFlight = s.ctl.inFlight
  BY <1>1, WaitersSane, WaitersRaises
<1>4. CASE s.order = <<>> \/ ~CanAdmit(w)
  <2>1. Turn[s] = [s EXCEPT !.ctl = w]
    BY <1>1, <1>4 DEF Turn
  <2> HIDE DEF w
  <2>2. Turn[s].ctl = w /\ Turn[s].granted = s.granted
    BY <1>1, <2>1 DEF LoopState
  <2>3. w.cap >= s.ctl.cap /\ w.cooldown \in {Undef, s.ctl.cooldown}
    BY <1>1, <1>3 DEF Raised, Sane, Controller, Floor
  <2>4. s.granted # <<>> => w.inFlight <= w.cap /\ w.cooldown \in {Undef, 0}
    <3>1. w.inFlight \in Int /\ w.cap \in Int /\ s.ctl.cap \in Int
      BY <1>1, <1>3 DEF Sane, Controller, Floor
    <3>2. QED
      BY <1>3, <2>3, <3>1 DEF Calm
  <2>5. QED
    BY <1>1, <1>2, <1>3, <2>2, <2>4, RaisedTrans DEF Calm
<1>5. CASE ~(s.order = <<>> \/ ~CanAdmit(w))
  <2>1. Turn[s].ctl = a
    BY <1>1, <1>5 DEF Turn
  <2>2. w.inFlight < w.cap /\ w.cooldown \in {Undef, 0}
    BY <1>5 DEF CanAdmit
  <2> HIDE DEF w
  <2>3. Observe(w) \in Sane /\ Raised(w, Observe(w)) /\ Observe(w).inFlight = w.inFlight
    BY <1>3, IdledSane, IdledRaises DEF Observe
  <2>4. a \in Sane /\ Raised(Observe(w), a) /\ a.inFlight = w.inFlight + 1
    BY <2>3, AdmittedSane, AdmittedRaises
  <2> HIDE DEF a
  <2>5. Raised(w, a) /\ Raised(s.ctl, a) /\ Raised(c, a)
    BY <1>1, <1>3, <2>3, <2>4, RaisedTrans
  <2>6. w.cap \in Floor..Ceiling /\ w.inFlight \in Nat
    BY <1>3 DEF Sane, Controller
  <2>7. a.cap >= w.cap /\ a.cooldown \in {Undef, 0}
    BY <2>2, <2>5, <2>6 DEF Raised, Floor
  <2>8. a.inFlight <= a.cap
    <3>1. a.cap \in Int
      BY <2>4 DEF Sane, Controller, Floor
    <3>2. QED
      BY <2>2, <2>4, <2>6, <2>7, <3>1 DEF Floor
  <2>9. QED
    BY <1>2, <2>1, <2>5, <2>7, <2>8 DEF Calm
<1>6. QED
  BY <1>4, <1>5

(* ------------------------------------------------- the inductive invariant *)

\* Only the requests of runs are announced: the observer is never queued.
AnnouncedAreRuns == \A q \in Request : phase[q] = "announced" => OwnerOf[q] \in Run

IInv ==
  /\ TypeOK
  /\ ProvenLevelBelowCap
  /\ QueuesAgree
  /\ SlotAccounting
  /\ AnnouncedAreRuns

Fly(p) == {q \in Request : p[q] = "inflight"}
Wait(p) == {q \in Request : p[q] = "waiting"}

\* What the invariant says of the variables the history does not touch.
Gate(c, o, qs, l, p, cur, t, sh) ==
  /\ c \in Sane /\ ~c.turned
  /\ o \in Seq(Run) /\ qs \in [Run -> Seq(Request)] /\ l \in Owner \cup {NoRun}
  /\ p \in [Request -> Phase] /\ cur \in [Request -> BOOLEAN]
  /\ t \in Undefinable(Nat) /\ sh \in [Run -> Floor..Ceiling]
  /\ Ordered(o, qs) /\ QueuedOnce(qs, Wait(p))
  /\ c.inFlight = Cardinality(Fly(p))
  /\ \A q \in Request : p[q] = "announced" => OwnerOf[q] \in Run

History ==
  /\ cut \in [Request -> BOOLEAN] /\ embargo \in Nat /\ quiet \in 0..IdleReset
  /\ bypass \in [Run -> [Run -> 0..(BypassBound + 1)]]

LEMMA IInvParts ==
  IInv <=> Gate(ctl, order, queue, last, phase, current, timer, shown) /\ History
BY DEF IInv, Gate, History, TypeOK, ProvenLevelBelowCap, QueuesAgree, SlotAccounting,
       AnnouncedAreRuns, Sane, Waiting, InFlight, Fly, Wait

LEMMA IInvPartsNext ==
  Gate(ctl', order', queue', last', phase', current', timer', shown') /\ History' => IInv'
BY DEF IInv, Gate, History, TypeOK, ProvenLevelBelowCap, QueuesAgree, SlotAccounting,
       AnnouncedAreRuns, Sane, Waiting, InFlight, Fly, Wait

LEMMA ToldTyped ==
  ASSUME NEW h \in [Run -> Floor..Ceiling], NEW a \in Sane, NEW b \in Sane, NEW L
  PROVE  Told(h, a, b, L) \in [Run -> Floor..Ceiling]
<1>1. b.cap \in Floor..Ceiling
  BY DEF Sane, Controller
<1>2. QED
  BY <1>1 DEF Told

LEMMA WakeForTyped ==
  ASSUME NEW c \in Sane, NEW o
  PROVE  WakeFor(c, o) \in Undefinable(Nat)
BY Constants DEF WakeFor, Sane, Controller

\* The history variables keep their types.
LEMMA RememberTyped ==
  ASSUME IInv, NEW c \in Sane, NEW ra \in Nat, NEW n \in Nat, NEW g,
         DOMAIN g = 1..n, NEW qs, Remember(c, ra, g, qs)
  PROVE  /\ embargo' \in Nat /\ quiet' \in 0..IdleReset
         /\ bypass' \in [Run -> [Run -> 0..(BypassBound + 1)]]
<1>1. embargo' \in Nat
  BY DEF Remember, IInv, TypeOK, AtLeast
<1>2. quiet' \in 0..IdleReset
  BY Constants DEF Remember, IInv, TypeOK
<1>3. ASSUME NEW r \in Run, NEW x \in Run
      PROVE  AtMost(BypassBound + 1,
               bypass[r][x] + Cardinality({i \in DOMAIN g : g[i] = x})) \in 0..(BypassBound + 1)
  <2>1. IsFiniteSet(1..n)
    BY FS_Interval
  <2>2. IsFiniteSet({i \in DOMAIN g : g[i] = x})
    BY <2>1, FS_Subset
  <2>3. Cardinality({i \in DOMAIN g : g[i] = x}) \in Nat
    BY <2>2, FS_CardinalityType
  <2>4. bypass[r][x] \in Nat
    BY DEF IInv, TypeOK
  <2>5. QED
    BY <2>3, <2>4 DEF AtMost, BypassBound
<1>4. 0 \in 0..(BypassBound + 1)
  BY DEF BypassBound
<1>5. bypass' \in [Run -> [Run -> 0..(BypassBound + 1)]]
  BY <1>3, <1>4 DEF Remember, Bypassed
<1>6. QED
  BY <1>1, <1>2, <1>5

\* What a call that ends in drain() does beyond keeping the books: it left the
\* controller at c, the requests at p, announced ra and told L; e is the controller
\* the drain ends with, G are the requests it grants.
Served(c, p, ra, L) ==
  \E e \in Sane, G \in SUBSET Wait(p) :
    /\ Raised(c, e)
    /\ G # {} => e.inFlight <= e.cap /\ e.cooldown \in {Undef, 0}
    /\ ctl' = [e EXCEPT !.turned = FALSE]
    /\ phase' = [q \in Request |-> IF q \in G THEN "inflight" ELSE p[q]]
    /\ current' = [q \in Request |-> q \in G \/ (current[q] /\ ~e.turned)]
    /\ cut' = [q \in Request |-> q \notin G /\ (cut[q] \/ e.cap < ctl.cap)]
    /\ shown' = Told(Told(shown, ctl, c, L), c, e, EngagedIn(p))
    /\ embargo' = IF e.cooldown = Undef THEN 0 ELSE AtLeast(embargo, ra)

\* What the loop of drain() starts from.
LoopStart(c, o, qs) ==
  [ctl |-> Observe(c), order |-> o, queue |-> qs, last |-> last, granted |-> <<>>]

LEMMA LoopStarts ==
  ASSUME IInv, NEW c \in Sane, NEW o \in Seq(Run), NEW qs \in [Run -> Seq(Request)],
         NEW p \in [Request -> Phase],
         Ordered(o, qs), QueuedOnce(qs, Wait(p)), c.inFlight = Cardinality(Fly(p))
  PROVE  LoopStart(c, o, qs) \in Draining(Fly(p), Wait(p))
<1> DEFINE s0 == LoopStart(c, o, qs)
           F == Fly(p)
           W == Wait(p)
<1> USE DEF LoopStart
<1>1. last \in Owner \cup {NoRun}
  BY DEF IInv, TypeOK
<1>2. Observe(c) \in Sane /\ Observe(c) \in Controller /\ Observe(c).inFlight = c.inFlight
  BY IdledSane DEF Observe, Sane
<1>3. s0 \in Draining(F, W)
  <2>1. s0 \in LoopState
    BY <1>1, <1>2, SaneCounts DEF LoopState
  <2>2. ToSet(s0.granted) = {}
    BY DEF ToSet
  <2>3. F \cup {} = F /\ W \ {} = W
    OBVIOUS
  <2>4. /\ s0.ctl = Observe(c) /\ s0.order = o /\ s0.queue = qs
    OBVIOUS
  <2> HIDE DEF s0, F, W
  <2>5. QED
    BY <1>2, <2>1, <2>2, <2>3, <2>4 DEF Draining, F, W
<1> QED
  BY <1>3 DEF s0, F, W

\* A call that ends in drain() re-establishes the invariant, whatever it hands
\* over, provided its books are in order.
LEMMA DrainStep ==
  ASSUME IInv, NEW c \in Sane, NEW o \in Seq(Run), NEW qs \in [Run -> Seq(Request)],
         NEW p \in [Request -> Phase], NEW ra \in Nat, NEW L,
         Ordered(o, qs), QueuedOnce(qs, Wait(p)), c.inFlight = Cardinality(Fly(p)),
         \A q \in Request : p[q] = "announced" => OwnerOf[q] \in Run,
         DrainAndArm(Call(c, o, qs), p, ra, L)
  PROVE  IInv' /\ Served(c, p, ra, L)
<1> DEFINE s0 == LoopStart(c, o, qs)
           F == Fly(p)
           W == Wait(p)
           x == Looped(s0)
           d == [x EXCEPT !.ctl = Waiters(x.ctl, x.order # <<>>)]
<1>3. s0 \in Draining(F, W)
  BY LoopStarts
<1>4. F \subseteq Request /\ W \subseteq Request /\ F \cap W = {}
  BY DEF Fly, Wait
<1>5. x \in Calm(c, F, W)
  <2> HIDE DEF F, W
  <2>1. \A t \in Calm(c, F, W) : Turn[t] \in Calm(c, F, W)
    BY <1>4, TurnCalm
  <2>2. s0.granted = <<>> /\ Raised(c, s0.ctl)
    BY IdledRaises DEF Observe, LoopStart
  <2>3. s0 \in Calm(c, F, W)
    BY <1>3, <2>2 DEF Calm
  <2> HIDE DEF s0
  <2>4. QED
    BY <2>1, <2>3, LoopedStays
<1> HIDE DEF x
<1>6. /\ x.ctl \in Sane /\ x.order \in Seq(Run) /\ x.queue \in [Run -> Seq(Request)]
      /\ x.last \in Owner \cup {NoRun} /\ x.granted \in Seq(Request)
      /\ x = [ctl |-> x.ctl, order |-> x.order, queue |-> x.queue, last |-> x.last,
              granted |-> x.granted]
      /\ ToSet(x.granted) \subseteq W /\ Ordered(x.order, x.queue)
      /\ QueuedOnce(x.queue, W \ ToSet(x.granted))
      /\ x.ctl.inFlight = Cardinality(F \cup ToSet(x.granted))
  BY <1>5 DEF Calm, Draining, LoopState
<1> DEFINE e == Waiters(x.ctl, x.order # <<>>)
<1>7. e \in Sane /\ e.inFlight = x.ctl.inFlight
  <2>1. (x.order # <<>>) \in BOOLEAN
    OBVIOUS
  <2>2. QED
    BY <1>6, <2>1, WaitersSane
<1>8. /\ d.ctl = e /\ d.order = x.order /\ d.queue = x.queue /\ d.last = x.last
      /\ d.granted = x.granted
  BY <1>6
<1>9. Drained(Call(c, o, qs)) = d
  BY DEF Drained, Call, LoopStart, x
<1> HIDE DEF d, e
<1>10. /\ ctl' = [e EXCEPT !.turned = FALSE]
       /\ order' = x.order /\ queue' = x.queue /\ last' = x.last
       /\ phase' = [q \in Request |-> IF q \in ToSet(x.granted) THEN "inflight" ELSE p[q]]
       /\ current' = [q \in Request |-> q \in ToSet(x.granted) \/ (current[q] /\ ~e.turned)]
       /\ cut' = [q \in Request |-> q \notin ToSet(x.granted) /\ (cut[q] \/ e.cap < ctl.cap)]
       /\ timer' = WakeFor(e, x.order)
       /\ shown' = Told(Told(shown, ctl, c, L), c, e, EngagedIn(p))
       /\ Remember(e, ra, [i \in DOMAIN x.granted |-> OwnerOf[x.granted[i]]], x.queue)
  BY <1>8, <1>9, ZenonT(60) DEF DrainAndArm, Call
<1>11. /\ ctl' \in Sane /\ ~ctl'.turned /\ ctl'.inFlight = e.inFlight
  BY <1>7, <1>10 DEF Sane, Controller
<1>12. phase' \in [Request -> Phase]
  BY <1>10 DEF Phase
<1>13. Wait(phase') = W \ ToSet(x.granted) /\ Fly(phase') = F \cup ToSet(x.granted)
  <2>1. ToSet(x.granted) \subseteq Request
    BY <1>4, <1>6
  <2>2. QED
    BY <1>10, <2>1 DEF Wait, Fly
<1>14. \A q \in Request : phase'[q] = "announced" => OwnerOf[q] \in Run
  BY <1>10
<1>15. current' \in [Request -> BOOLEAN] /\ cut' \in [Request -> BOOLEAN]
  BY <1>10
<1>16. timer' \in Undefinable(Nat) /\ shown' \in [Run -> Floor..Ceiling]
  <2>1. ctl \in Sane /\ shown \in [Run -> Floor..Ceiling]
    BY DEF IInv, TypeOK, Sane, ProvenLevelBelowCap
  <2>2. Told(shown, ctl, c, L) \in [Run -> Floor..Ceiling]
    BY <2>1, ToldTyped
  <2>3. QED
    BY <1>7, <1>10, <2>2, ToldTyped, WakeForTyped
<1>17. Gate(ctl', order', queue', last', phase', current', timer', shown')
  <2> HIDE DEF F, W
  <2>1. QED
    BY <1>6, <1>7, <1>10, <1>11, <1>12, <1>13, <1>14, <1>15, <1>16 DEF Gate
<1>18. History'
  <2> DEFINE g == [i \in DOMAIN x.granted |-> OwnerOf[x.granted[i]]]
  <2>1. DOMAIN g = 1..Len(x.granted) /\ Len(x.granted) \in Nat
    BY <1>6
  <2>2. Remember(e, ra, g, x.queue)
    BY <1>10
  <2> HIDE DEF g
  <2>3. /\ embargo' \in Nat /\ quiet' \in 0..IdleReset
        /\ bypass' \in [Run -> [Run -> 0..(BypassBound + 1)]]
    BY <1>7, <2>1, <2>2, RememberTyped
  <2>4. QED
    BY <1>15, <2>3 DEF History
<1>19. Served(c, p, ra, L)
  <2> DEFINE G == ToSet(x.granted)
  <2>1. Raised(c, e)
    <3>1. (x.order # <<>>) \in BOOLEAN
      OBVIOUS
    <3>2. Raised(c, x.ctl) /\ Raised(x.ctl, e)
      BY <1>5, <1>6, <3>1, WaitersRaises DEF Calm, e
    <3>3. QED
      BY <3>2, RaisedTrans
  <2>2. G # {} => e.inFlight <= e.cap /\ e.cooldown \in {Undef, 0}
    <3>1. G # {} => x.granted # <<>>
      BY DEF ToSet
    <3>2. (x.order # <<>>) \in BOOLEAN
      OBVIOUS
    <3>3. e.cap \in {x.ctl.cap, Ceiling} /\ e.cooldown \in {Undef, x.ctl.cooldown}
      BY <1>6, <3>2, WaitersRaises DEF Raised, e
    <3>4. x.ctl.cap \in Floor..Ceiling /\ x.ctl.inFlight \in Nat
      BY <1>6 DEF Sane, Controller
    <3>5. G # {} => x.ctl.inFlight <= x.ctl.cap /\ x.ctl.cooldown \in {Undef, 0}
      BY <1>5, <3>1 DEF Calm
    <3>6. QED
      BY <1>7, <3>3, <3>4, <3>5, CeilingAssumption DEF Floor
  <2>3. embargo' = IF e.cooldown = Undef THEN 0 ELSE AtLeast(embargo, ra)
    BY <1>10 DEF Remember
  <2>4. G \in SUBSET Wait(p) /\ e \in Sane
    BY <1>6, <1>7
  <2>5. /\ ctl' = [e EXCEPT !.turned = FALSE]
        /\ phase' = [q \in Request |-> IF q \in G THEN "inflight" ELSE p[q]]
        /\ current' = [q \in Request |-> q \in G \/ (current[q] /\ ~e.turned)]
        /\ cut' = [q \in Request |-> q \notin G /\ (cut[q] \/ e.cap < ctl.cap)]
        /\ shown' = Told(Told(shown, ctl, c, L), c, e, EngagedIn(p))
    BY <1>10
  <2> HIDE DEF G
  <2>6. QED
    BY <2>1, <2>2, <2>3, <2>4, <2>5 DEF Served
<1>20. QED
  BY <1>17, <1>18, <1>19, IInvPartsNext

(* ----------------------------------------------------------------- the steps *)

LEMMA InitIInv == Init => IInv
<1> SUFFICES ASSUME Init PROVE IInv
  OBVIOUS
<1>1. ctl \in Sane /\ ~ctl.turned /\ ctl.inFlight = 0
  BY NewSane DEF Init, NewController
<1>2. Fly(phase) = {} /\ Wait(phase) = {}
  BY DEF Init, Fly, Wait
<1>3. Cardinality(Fly(phase)) = 0
  BY <1>2, FS_EmptySet
<1>4. /\ order \in Seq(Run) /\ queue \in [Run -> Seq(Request)] /\ last \in Owner \cup {NoRun}
      /\ phase \in [Request -> Phase] /\ current \in [Request -> BOOLEAN]
  BY DEF Init, Phase
<1>5. timer \in Undefinable(Nat) /\ shown \in [Run -> Floor..Ceiling]
  BY Constants DEF Init
<1>6. Ordered(order, queue) /\ QueuedOnce(queue, Wait(phase))
  <2>1. order = <<>> /\ \A r \in Run : queue[r] = <<>>
    BY DEF Init
  <2>2. ToSet(<<>>) = {} /\ IsInjective(<<>>)
    BY DEF ToSet, IsInjective
  <2>3. QED
    BY <1>2, <2>1, <2>2 DEF Ordered, QueuedOnce
<1>7. \A q \in Request : phase[q] = "announced" => OwnerOf[q] \in Run
  BY DEF Init
<1>8. Gate(ctl, order, queue, last, phase, current, timer, shown)
  BY <1>1, <1>3, <1>4, <1>5, <1>6, <1>7 DEF Gate
<1>9. History
  BY Constants DEF Init, History, BypassBound
<1>10. QED
  BY <1>8, <1>9, IInvParts

\* A request in flight holds one of the slots counted.
LEMMA SlotHeld ==
  ASSUME IInv, NEW q \in Request, phase[q] = "inflight", NEW to \in {"settled", "idle"}
  PROVE  /\ [phase EXCEPT ![q] = to] \in [Request -> Phase]
         /\ ctl.inFlight > 0
         /\ Cardinality(Fly([phase EXCEPT ![q] = to])) = ctl.inFlight - 1
         /\ Wait([phase EXCEPT ![q] = to]) = Wait(phase)
<1> DEFINE p == [phase EXCEPT ![q] = to]
<1>1. phase \in [Request -> Phase] /\ ctl.inFlight = Cardinality(Fly(phase))
  BY IInvParts DEF Gate
<1>2. IsFiniteSet(Fly(phase))
  <2>1. Fly(phase) \in SUBSET Request
    BY DEF Fly
  <2>2. QED
    BY <2>1, RequestAssumption, FS_Subset
<1>3. p \in [Request -> Phase] /\ Fly(p) = Fly(phase) \ {q} /\ q \in Fly(phase)
      /\ Wait(p) = Wait(phase)
  BY <1>1 DEF Fly, Wait, Phase
<1> HIDE DEF p
<1>4. Cardinality(Fly(p)) = Cardinality(Fly(phase)) - 1 /\ Cardinality(Fly(p)) \in Nat
      /\ Cardinality(Fly(phase)) \in Nat
  BY <1>2, <1>3, FS_RemoveElement, FS_CardinalityType
<1>5. QED
  BY <1>1, <1>3, <1>4 DEF p

LEMMA SettleStep ==
  ASSUME IInv, NEW q \in Request, NEW to \in {"settled", "idle"}, phase[q] = "inflight",
         NEW c \in Sane, ctl.inFlight > 0 => c.inFlight = ctl.inFlight - 1, NEW ra \in Nat,
         NEW L, DrainAndArm(Call(c, order, queue), [phase EXCEPT ![q] = to], ra, L)
  PROVE  IInv' /\ Served(c, [phase EXCEPT ![q] = to], ra, L)
<1> DEFINE p == [phase EXCEPT ![q] = to]
<1>1. /\ p \in [Request -> Phase] /\ c.inFlight = Cardinality(Fly(p))
      /\ Wait(p) = Wait(phase)
  BY SlotHeld
<1>2. \A x \in Request : p[x] = "announced" => OwnerOf[x] \in Run
  BY IInvParts DEF Gate
<1>3. /\ order \in Seq(Run) /\ queue \in [Run -> Seq(Request)]
      /\ Ordered(order, queue) /\ QueuedOnce(queue, Wait(p))
  BY <1>1, IInvParts DEF Gate
<1> HIDE DEF p
<1>4. QED
  BY <1>1, <1>2, <1>3, DrainStep DEF p

LEMMA SettleActions ==
  ASSUME IInv, NEW q \in Request,
         Complete(q) \/ Throttle(q) \/ Transient(q) \/ EndEvent(q)
  PROVE  IInv'
<1>1. ctl \in Sane /\ current[q] \in BOOLEAN
  BY IInvParts DEF Gate
<1>2. CASE Complete(q)
  BY <1>1, <1>2, SucceededSane, SettleStep DEF Complete, Settle
<1>3. CASE Throttle(q)
  <2>1. PICK ra \in RetryAfters : Settle(q, Throttled(ctl, current[q], ra), ra)
    BY <1>3 DEF Throttle
  <2>2. ra \in Nat
    BY RetryAfterAssumption
  <2>3. QED
    BY <1>1, <2>1, <2>2, ThrottledSane, SettleStep DEF Settle
<1>4. CASE Transient(q)
  BY <1>1, <1>4, FailedTransientSane, SettleStep DEF Transient, Settle
<1>5. CASE EndEvent(q)
  BY <1>1, <1>5, EndedSane, SettleStep DEF EndEvent, Settle
<1>6. QED
  BY <1>2, <1>3, <1>4, <1>5

\* A request leaves a phase that neither queues nor counts, the rest being as it was.
LEMMA QuietPhase ==
  ASSUME IInv, NEW q \in Request, phase[q] \in {"idle", "announced", "settled"},
         NEW to \in {"idle", "announced"}, to = "announced" => OwnerOf[q] \in Run
  PROVE  LET p == [phase EXCEPT ![q] = to]
         IN  /\ p \in [Request -> Phase] /\ Fly(p) = Fly(phase) /\ Wait(p) = Wait(phase)
             /\ \A x \in Request : p[x] = "announced" => OwnerOf[x] \in Run
BY IInvParts DEF Gate, Fly, Wait, Phase

LEMMA ReleaseStep ==
  ASSUME IInv, NEW q \in Request, Release(q)
  PROVE  IInv'
<1>1. CASE /\ phase[q] = "inflight"
           /\ DrainAndArm(Call(Ended(ctl), order, queue), [phase EXCEPT ![q] = "idle"], 0, Engaged)
  <2>1. ctl \in Sane
    BY IInvParts DEF Gate
  <2>2. QED
    BY <1>1, <2>1, EndedSane, SettleStep
<1>2. CASE /\ phase[q] = "settled"
           /\ phase' = [phase EXCEPT ![q] = "idle"]
           /\ UNCHANGED <<ctl, order, queue, last, current, timer, shown, history>>
  <2>1. /\ phase' \in [Request -> Phase] /\ Fly(phase') = Fly(phase) /\ Wait(phase') = Wait(phase)
        /\ \A x \in Request : phase'[x] = "announced" => OwnerOf[x] \in Run
    BY <1>2, QuietPhase
  <2>2. Gate(ctl', order', queue', last', phase', current', timer', shown')
    BY <1>2, <2>1, IInvParts DEF Gate
  <2>3. History'
    BY <1>2, IInvParts DEF History, history
  <2>4. QED
    BY <2>2, <2>3, IInvPartsNext
<1>3. QED
  BY <1>1, <1>2 DEF Release

LEMMA AdmitAbortedStep ==
  ASSUME IInv, NEW q \in Request, AdmitAborted(q)
  PROVE  IInv'
<1>1. /\ phase' \in [Request -> Phase] /\ Fly(phase') = Fly(phase) /\ Wait(phase') = Wait(phase)
      /\ \A x \in Request : phase'[x] = "announced" => OwnerOf[x] \in Run
  BY QuietPhase DEF AdmitAborted
<1>2. Gate(ctl', order', queue', last', phase', current', timer', shown')
  BY <1>1, IInvParts DEF Gate, AdmitAborted
<1>3. History'
  BY IInvParts DEF History, history, AdmitAborted
<1>4. QED
  BY <1>2, <1>3, IInvPartsNext

LEMMA TryAdmitMissStep ==
  ASSUME IInv, NEW q \in Request, TryAdmitMiss(q)
  PROVE  IInv'
<1> DEFINE c == [Observe(ctl) EXCEPT !.turned = FALSE]
<1>1. ctl \in Sane /\ Observe(ctl) \in Sane /\ Observe(ctl).inFlight = ctl.inFlight
  BY IInvParts, IdledSane DEF Gate, Observe
<1>2. c \in Sane /\ ~c.turned /\ c.inFlight = ctl.inFlight
  BY <1>1 DEF Sane, Controller
<1> HIDE DEF c
<1>3. ctl' = c
  BY DEF TryAdmitMiss, c
<1>4. /\ phase' \in [Request -> Phase] /\ Fly(phase') = Fly(phase) /\ Wait(phase') = Wait(phase)
      /\ \A x \in Request : phase'[x] = "announced" => OwnerOf[x] \in Run
  BY QuietPhase DEF TryAdmitMiss
<1>5. shown' \in [Run -> Floor..Ceiling] /\ current' \in [Request -> BOOLEAN]
  BY <1>1, ToldTyped, IInvParts DEF TryAdmitMiss, Gate
<1>6. Gate(ctl', order', queue', last', phase', current', timer', shown')
  BY <1>2, <1>3, <1>4, <1>5, IInvParts DEF Gate, TryAdmitMiss
<1>7. History'
  <2>1. Remember(c, 0, <<>>, queue) /\ cut' = cut
    BY <1>3 DEF TryAdmitMiss
  <2>2. DOMAIN <<>> = 1..0
    OBVIOUS
  <2>3. QED
    BY <1>2, <2>1, <2>2, RememberTyped, IInvParts DEF History
<1>8. QED
  BY <1>6, <1>7, IInvPartsNext

LEMMA GrantNowStep ==
  ASSUME IInv, NEW q \in Request, phase[q] = "idle", GrantNow(q)
  PROVE  IInv'
<1> DEFINE seen == Observe(ctl)
           a == Admitted(seen)
           c == [a EXCEPT !.turned = FALSE]
<1>1. ctl \in Sane /\ seen \in Sane /\ a \in Sane /\ a.inFlight = ctl.inFlight + 1
  BY IInvParts, IdledSane, AdmittedSane DEF Gate, Observe
<1> HIDE DEF a
<1>2. c \in Sane /\ ~c.turned /\ c.inFlight = ctl.inFlight + 1
  BY <1>1 DEF Sane, Controller
<1> HIDE DEF c
<1>3. ctl' = c /\ Remember(a, 0, <<OwnerOf[q]>>, queue)
  BY DEF GrantNow, a, c
<1>4. /\ phase' \in [Request -> Phase] /\ Fly(phase') = Fly(phase) \cup {q} /\ q \notin Fly(phase)
      /\ Wait(phase') = Wait(phase)
      /\ \A x \in Request : phase'[x] = "announced" => OwnerOf[x] \in Run
  BY IInvParts DEF GrantNow, Gate, Fly, Wait, Phase
<1>5. Cardinality(Fly(phase')) = ctl.inFlight + 1
  <2>1. Fly(phase) \in SUBSET Request
    BY DEF Fly
  <2>2. IsFiniteSet(Fly(phase))
    BY <2>1, RequestAssumption, FS_Subset
  <2>3. Cardinality(Fly(phase)) = ctl.inFlight
    BY IInvParts DEF Gate
  <2>4. QED
    BY <1>4, <2>2, <2>3, FS_AddElement, ZenonT(60)
<1>6. shown' \in [Run -> Floor..Ceiling] /\ current' \in [Request -> BOOLEAN]
  BY <1>1, ToldTyped, IInvParts DEF GrantNow, Gate
<1>7. last' \in Owner \cup {NoRun}
  BY OwnerAssumption DEF GrantNow, Owner
<1>8. Gate(ctl', order', queue', last', phase', current', timer', shown')
  <2>1. order' = order /\ queue' = queue /\ timer' = timer
    BY DEF GrantNow
  <2>2. QED
    BY <1>2, <1>3, <1>4, <1>5, <1>6, <1>7, <2>1, IInvParts DEF Gate
<1>9. History'
  <2>1. cut' \in [Request -> BOOLEAN]
    BY IInvParts DEF GrantNow, History
  <2>2. DOMAIN <<OwnerOf[q]>> = 1..1
    OBVIOUS
  <2>3. QED
    BY <1>1, <1>3, <2>1, <2>2, RememberTyped DEF History
<1>10. QED
  BY <1>8, <1>9, IInvPartsNext

\* What admit() hands to drain(): the request stands at the end of its queue.
JoinedOrder(q) == IF queue[OwnerOf[q]] = <<>> THEN Append(order, OwnerOf[q]) ELSE order
JoinedQueues(q) == [queue EXCEPT ![OwnerOf[q]] = Append(@, q)]

LEMMA JoinedInOrder ==
  ASSUME IInv, NEW q \in Request, Admit(q)
  PROVE  /\ [phase EXCEPT ![q] = "waiting"] \in [Request -> Phase]
         /\ ctl.inFlight = Cardinality(Fly([phase EXCEPT ![q] = "waiting"]))
         /\ \A x \in Request :
              [phase EXCEPT ![q] = "waiting"][x] = "announced" => OwnerOf[x] \in Run
         /\ JoinedOrder(q) \in Seq(Run) /\ JoinedQueues(q) \in [Run -> Seq(Request)]
         /\ Ordered(JoinedOrder(q), JoinedQueues(q))
         /\ QueuedOnce(JoinedQueues(q), Wait([phase EXCEPT ![q] = "waiting"]))
<1> DEFINE r == OwnerOf[q]
           o == JoinedOrder(q)
           qs == JoinedQueues(q)
           p == [phase EXCEPT ![q] = "waiting"]
<1> USE DEF JoinedOrder, JoinedQueues
<1>1. /\ ctl \in Sane /\ order \in Seq(Run) /\ queue \in [Run -> Seq(Request)]
      /\ phase \in [Request -> Phase] /\ Ordered(order, queue) /\ QueuedOnce(queue, Wait(phase))
      /\ ctl.inFlight = Cardinality(Fly(phase)) /\ r \in Run /\ phase[q] = "announced"
      /\ \A x \in Request : phase[x] = "announced" => OwnerOf[x] \in Run
  BY IInvParts DEF Gate, Admit
<1>3. /\ p \in [Request -> Phase] /\ Fly(p) = Fly(phase) /\ Wait(p) = Wait(phase) \cup {q}
      /\ q \notin Wait(phase) /\ \A x \in Request : p[x] = "announced" => OwnerOf[x] \in Run
  BY <1>1 DEF Fly, Wait, Phase
<1>4. /\ Append(queue[r], q) \in Seq(Request) /\ Append(queue[r], q) # <<>>
      /\ ToSet(Append(queue[r], q)) = ToSet(queue[r]) \cup {q}
      /\ IsInjective(queue[r]) /\ q \notin ToSet(queue[r]) => IsInjective(Append(queue[r], q))
  <2>1. queue[r] \in Seq(Request)
    BY <1>1
  <2> HIDE DEF o, qs, p, r
  <2>2. Append(queue[r], q) # <<>>
    BY <2>1
  <2>3. QED
    BY <2>1, <2>2, AppendOnce
<1>5. IsInjective(queue[r]) /\ q \notin ToSet(queue[r])
  BY <1>1, <1>3 DEF QueuedOnce
<1>6. /\ qs \in [Run -> Seq(Request)] /\ qs[r] = Append(queue[r], q)
      /\ \A x \in Run : x # r => qs[x] = queue[x]
  BY <1>1, <1>4
<1> HIDE DEF qs, p
<1>7. QueuedOnce(qs, Wait(p))
  <2>1. ASSUME NEW x \in Run
        PROVE  IsInjective(qs[x]) /\ ToSet(qs[x]) = {y \in Wait(p) : OwnerOf[y] = x}
    <3>1. IsInjective(queue[x]) /\ ToSet(queue[x]) = {y \in Wait(phase) : OwnerOf[y] = x}
      BY <1>1 DEF QueuedOnce
    <3>2. CASE x = r
      BY <1>3, <1>4, <1>5, <1>6, <3>1, <3>2
    <3>3. CASE x # r
      BY <1>3, <1>6, <3>1, <3>3
    <3>4. QED
      BY <3>2, <3>3
  <2>2. \A y \in Wait(p) : OwnerOf[y] \in Run
    BY <1>1, <1>3 DEF QueuedOnce
  <2>3. QED
    BY <2>1, <2>2 DEF QueuedOnce
<1>8. /\ Append(order, r) \in Seq(Run) /\ ToSet(Append(order, r)) = ToSet(order) \cup {r}
      /\ IsInjective(order) /\ r \notin ToSet(order) => IsInjective(Append(order, r))
  BY <1>1, AppendOnce
<1>9. o \in Seq(Run) /\ Ordered(o, qs)
  <2>1. IsInjective(order) /\ ToSet(order) = {x \in Run : queue[x] # <<>>}
    BY <1>1 DEF Ordered
  <2>2. qs[r] # <<>>
    BY <1>4, <1>6
  <2>3. CASE queue[r] = <<>>
    <3>1. r \notin ToSet(order) /\ o = Append(order, r)
      BY <2>1, <2>3
    <3> HIDE DEF o
    <3>2. QED
      BY <1>1, <1>6, <1>8, <2>1, <2>2, <3>1 DEF Ordered
  <2>4. CASE queue[r] # <<>>
    <3>1. o = order
      BY <2>4
    <3> HIDE DEF o
    <3>2. QED
      BY <1>1, <1>6, <2>1, <2>2, <2>4, <3>1 DEF Ordered
  <2>5. QED
    BY <2>3, <2>4
<1> HIDE DEF o
<1>10. ctl.inFlight = Cardinality(Fly(p))
  BY <1>1, <1>3
<1>11. p \in [Request -> Phase] /\ \A x \in Request : p[x] = "announced" => OwnerOf[x] \in Run
  BY <1>3
<1>12. /\ o \in Seq(Run) /\ qs \in [Run -> Seq(Request)] /\ Ordered(o, qs)
       /\ QueuedOnce(qs, Wait(p))
  BY <1>6, <1>7, <1>9
<1> QED
  BY <1>10, <1>11, <1>12 DEF o, qs, p

LEMMA AdmitStep ==
  ASSUME IInv, NEW q \in Request, Admit(q)
  PROVE  IInv' /\ Served(ctl, [phase EXCEPT ![q] = "waiting"], 0, Engaged \cup {OwnerOf[q]})
<1> DEFINE p == [phase EXCEPT ![q] = "waiting"]
           L == Engaged \cup {OwnerOf[q]}
<1>1. ctl \in Sane /\ 0 \in Nat
  BY IInvParts DEF Gate
<1>2. DrainAndArm(Call(ctl, JoinedOrder(q), JoinedQueues(q)), p, 0, L)
  BY DEF Admit, JoinedOrder, JoinedQueues
<1>3. /\ p \in [Request -> Phase] /\ ctl.inFlight = Cardinality(Fly(p))
      /\ \A x \in Request : p[x] = "announced" => OwnerOf[x] \in Run
      /\ JoinedOrder(q) \in Seq(Run) /\ JoinedQueues(q) \in [Run -> Seq(Request)]
      /\ Ordered(JoinedOrder(q), JoinedQueues(q)) /\ QueuedOnce(JoinedQueues(q), Wait(p))
  BY JoinedInOrder
<1> HIDE DEF p, L
<1>4. IInv' /\ Served(ctl, p, 0, L)
  BY <1>1, <1>2, <1>3, DrainStep
<1> QED
  BY <1>4 DEF p, L

LEMMA AbortStep ==
  ASSUME IInv, NEW q \in Request, Abort(q)
  PROVE  IInv'
<1> DEFINE r == OwnerOf[q]
<1>1. PICK i \in DOMAIN queue[r], k \in DOMAIN order :
        LET o == IF Len(queue[r]) = 1 THEN RemoveAt(order, k) ELSE order
            c == Waiters(ctl, o # <<>>)
        IN  /\ queue[r][i] = q /\ order[k] = r
            /\ phase' = [phase EXCEPT ![q] = "idle"]
            /\ queue' = [queue EXCEPT ![r] = RemoveAt(@, i)]
            /\ order' = o
            /\ ctl' = [c EXCEPT !.turned = FALSE]
            /\ timer' = WakeFor(c, o)
            /\ shown' = Told(shown, ctl, c, EngagedIn(phase'))
            /\ current' = [x \in Request |-> current[x] /\ ~c.turned]
            /\ Remember(c, 0, <<>>, queue')
  BY DEF Abort
<1> DEFINE o == IF Len(queue[r]) = 1 THEN RemoveAt(order, k) ELSE order
           c == Waiters(ctl, o # <<>>)
           e == [c EXCEPT !.turned = FALSE]
<1>2. /\ ctl \in Sane /\ order \in Seq(Run) /\ queue \in [Run -> Seq(Request)]
      /\ phase \in [Request -> Phase] /\ Ordered(order, queue) /\ QueuedOnce(queue, Wait(phase))
      /\ ctl.inFlight = Cardinality(Fly(phase)) /\ phase[q] = "waiting"
      /\ \A x \in Request : phase[x] = "announced" => OwnerOf[x] \in Run
      /\ shown \in [Run -> Floor..Ceiling] /\ current \in [Request -> BOOLEAN]
      /\ last \in Owner \cup {NoRun}
  BY IInvParts DEF Gate, Abort
<1>3. r \in Run /\ q \in Wait(phase)
  BY <1>2 DEF QueuedOnce, Wait
<1>4. c \in Sane /\ c.inFlight = ctl.inFlight
  <2>1. (o # <<>>) \in BOOLEAN
    OBVIOUS
  <2>2. QED
    BY <1>2, <2>1, WaitersSane
<1>5. /\ phase' \in [Request -> Phase] /\ Fly(phase') = Fly(phase)
      /\ Wait(phase') = Wait(phase) \ {q}
      /\ \A x \in Request : phase'[x] = "announced" => OwnerOf[x] \in Run
  BY <1>1, <1>2 DEF Fly, Wait, Phase
<1>6. IsInjective(queue[r]) /\ ToSet(queue[r]) = {y \in Wait(phase) : OwnerOf[y] = r}
  BY <1>2, <1>3 DEF QueuedOnce
<1>7. /\ RemoveAt(queue[r], i) \in Seq(Request) /\ IsInjective(RemoveAt(queue[r], i))
      /\ ToSet(RemoveAt(queue[r], i)) = ToSet(queue[r]) \ {q}
  <2>1. queue[r] \in Seq(Request)
    BY <1>2, <1>3
  <2>2. QED
    BY <1>1, <1>6, <2>1, RemoveAtOnce
<1>8. /\ queue' \in [Run -> Seq(Request)] /\ queue'[r] = RemoveAt(queue[r], i)
      /\ \A x \in Run : x # r => queue'[x] = queue[x]
  BY <1>1, <1>2, <1>3, <1>7
<1>9. QueuedOnce(queue', Wait(phase'))
  <2>1. ASSUME NEW x \in Run
        PROVE  IsInjective(queue'[x]) /\ ToSet(queue'[x]) = {y \in Wait(phase') : OwnerOf[y] = x}
    <3>1. IsInjective(queue[x]) /\ ToSet(queue[x]) = {y \in Wait(phase) : OwnerOf[y] = x}
      BY <1>2 DEF QueuedOnce
    <3>2. CASE x = r
      BY <1>5, <1>7, <1>8, <3>1, <3>2
    <3>3. CASE x # r
      BY <1>5, <1>8, <3>1, <3>3
    <3>4. QED
      BY <3>2, <3>3
  <2>2. \A y \in Wait(phase') : OwnerOf[y] \in Run
    BY <1>2, <1>5 DEF QueuedOnce
  <2>3. QED
    BY <2>1, <2>2 DEF QueuedOnce
<1>10. order' = o /\ order' \in Seq(Run) /\ Ordered(order', queue')
  <2>1. IsInjective(order) /\ ToSet(order) = {x \in Run : queue[x] # <<>>}
    BY <1>2 DEF Ordered
  <2>2. /\ RemoveAt(order, k) \in Seq(Run) /\ IsInjective(RemoveAt(order, k))
        /\ ToSet(RemoveAt(order, k)) = ToSet(order) \ {r}
    BY <1>1, <1>2, <2>1, RemoveAtOnce
  <2>3. Len(queue[r]) \in Nat /\ Len(queue'[r]) = Len(queue[r]) - 1 /\ queue'[r] \in Seq(Request)
        /\ queue[r] # <<>>
    <3>1. queue[r] \in Seq(Request) /\ i \in 1..Len(queue[r])
      BY <1>2, <1>3
    <3>2. Len(RemoveAt(queue[r], i)) = Len(queue[r]) - 1
      BY <3>1, RemoveAtLength
    <3>3. QED
      BY <1>7, <1>8, <3>1, <3>2
  <2>4. order' = o
    BY <1>1
  <2> HIDE DEF c
  <2>5. CASE Len(queue[r]) = 1
    <3>1. order' = RemoveAt(order, k) /\ queue'[r] = <<>>
      BY <2>3, <2>4, <2>5
    <3> HIDE DEF o, r
    <3>2. ToSet(order') = {x \in Run : queue'[x] # <<>>}
      BY <1>3, <1>8, <2>1, <2>2, <3>1
    <3>3. QED
      BY <2>2, <2>4, <3>1, <3>2 DEF Ordered
  <2>6. CASE Len(queue[r]) # 1
    <3>1. order' = order
      BY <2>4, <2>6
    <3> HIDE DEF o, r
    <3>2. Len(queue[r]) # 0
      BY <2>3, <1>3
    <3>3. queue'[r] # <<>>
      <4>1. Len(queue'[r]) # 0
        BY <2>3, <2>6, <3>2
      <4>2. Len(<<>>) = 0
        OBVIOUS
      <4>3. QED
        BY <4>1, <4>2
    <3>4. QED
      BY <1>2, <1>3, <1>8, <2>1, <2>3, <2>4, <3>1, <3>3 DEF Ordered
  <2>7. QED
    BY <2>5, <2>6
<1> HIDE DEF c, o
<1>11. e \in Sane /\ ~e.turned /\ e.inFlight = ctl.inFlight
  BY <1>4 DEF Sane, Controller
<1> HIDE DEF e
<1>12. ctl' = e /\ timer' \in Undefinable(Nat) /\ shown' \in [Run -> Floor..Ceiling]
       /\ current' \in [Request -> BOOLEAN] /\ Remember(c, 0, <<>>, queue')
  BY <1>1, <1>2, <1>4, WakeForTyped, ToldTyped DEF c, o, e
<1>13. last' = last /\ cut' = cut
  BY DEF Abort
<1>14. Gate(ctl', order', queue', last', phase', current', timer', shown')
  BY <1>2, <1>5, <1>8, <1>9, <1>10, <1>11, <1>12, <1>13 DEF Gate
<1>15. History'
  <2>1. DOMAIN <<>> = 1..0
    OBVIOUS
  <2>2. QED
    BY <1>4, <1>12, <1>13, <2>1, RememberTyped, IInvParts DEF History
<1>16. QED
  BY <1>14, <1>15, IInvPartsNext

LEMMA WakeStep ==
  ASSUME IInv, CooldownWake
  PROVE  IInv' /\ Served(ctl, phase, 0, Engaged)
<1>1. /\ ctl \in Sane /\ order \in Seq(Run) /\ queue \in [Run -> Seq(Request)]
      /\ phase \in [Request -> Phase] /\ Ordered(order, queue) /\ QueuedOnce(queue, Wait(phase))
      /\ ctl.inFlight = Cardinality(Fly(phase))
      /\ \A x \in Request : phase[x] = "announced" => OwnerOf[x] \in Run
  BY IInvParts DEF Gate
<1>2. DrainAndArm(Call(ctl, order, queue), phase, 0, Engaged)
  BY DEF CooldownWake
<1>3. QED
  BY <1>1, <1>2, DrainStep

LEMMA TickStep ==
  ASSUME IInv, Tick
  PROVE  IInv'
<1>1. ctl \in Sane /\ Elapsed(ctl) \in Sane /\ Elapsed(ctl).inFlight = ctl.inFlight /\ ~ctl.turned
  BY IInvParts, ElapsedSane DEF Gate
<1>2. ~Elapsed(ctl).turned
  BY <1>1 DEF Elapsed, Sane, Controller
<1>3. timer' \in Undefinable(Nat)
  BY IInvParts DEF Gate, Tick, Undefinable, Undef
<1>4. Gate(ctl', order', queue', last', phase', current', timer', shown')
  BY <1>1, <1>2, <1>3, IInvParts DEF Gate, Tick
<1>5. History'
  <2>1. embargo' \in Nat
    BY IInvParts DEF History, Tick, AtLeast
  <2>2. quiet' \in 0..IdleReset
    BY IInvParts, Constants DEF History, Tick, AtMost
  <2>3. QED
    BY <2>1, <2>2, IInvParts DEF History, Tick
<1>6. QED
  BY <1>4, <1>5, IInvPartsNext

LEMMA StutterStep ==
  ASSUME IInv, UNCHANGED vars
  PROVE  IInv'
BY IInvParts, IInvPartsNext DEF vars, gate, history, Gate, History

LEMMA NextStep ==
  ASSUME IInv, [Next]_vars
  PROVE  IInv'
<1>1. CASE UNCHANGED vars
  BY <1>1, StutterStep
<1>2. ASSUME NEW q \in Request,
             \/ TryAdmitHit(q) \/ TryAdmitMiss(q) \/ Admit(q) \/ AdmitAborted(q)
             \/ Abort(q) \/ ObserverAcquire(q)
             \/ Complete(q) \/ Throttle(q) \/ Transient(q) \/ EndEvent(q) \/ Release(q)
      PROVE  IInv'
  <2>1. CASE TryAdmitHit(q) \/ ObserverAcquire(q)
    BY <2>1, GrantNowStep DEF TryAdmitHit, ObserverAcquire
  <2>2. CASE TryAdmitMiss(q)
    BY <2>2, TryAdmitMissStep
  <2>3. CASE Admit(q)
    BY <2>3, AdmitStep
  <2>4. CASE AdmitAborted(q)
    BY <2>4, AdmitAbortedStep
  <2>5. CASE Abort(q)
    BY <2>5, AbortStep
  <2>6. CASE Complete(q) \/ Throttle(q) \/ Transient(q) \/ EndEvent(q)
    BY <2>6, SettleActions
  <2>7. CASE Release(q)
    BY <2>7, ReleaseStep
  <2>8. QED
    BY <1>2, <2>1, <2>2, <2>3, <2>4, <2>5, <2>6, <2>7
<1>3. CASE CooldownWake
  BY <1>3, WakeStep
<1>4. CASE Tick
  BY <1>4, TickStep
<1>5. QED
  BY <1>1, <1>2, <1>3, <1>4 DEF Next

(* ---------------------------------------------------------------- theorems *)

\* The inductive invariant holds of every reachable state.
THEOREM Invariance == Spec => []IInv
<1>1. Init => IInv
  BY InitIInv
<1>2. IInv /\ [Next]_vars => IInv'
  BY NextStep
<1>3. QED
  BY <1>1, <1>2, PTL DEF Spec

\* The variables keep their types; in particular the cap stays between 1 and
\* the ceiling whatever the provider answers.
THEOREM TypeCorrect == Spec => []TypeOK
<1>1. IInv => TypeOK
  BY DEF IInv
<1>2. QED
  BY <1>1, Invariance, PTL

\* Settling, releasing and aborting never lose a slot and never return one twice.
THEOREM SlotsAccounted == Spec => []SlotAccounting
<1>1. IInv => SlotAccounting
  BY DEF IInv
<1>2. QED
  BY <1>1, Invariance, PTL

\* The level the controller falls back to was proven and is within the cap.
THEOREM ProvenWithinCap == Spec => []ProvenLevelBelowCap
<1>1. IInv => ProvenLevelBelowCap
  BY DEF IInv
<1>2. QED
  BY <1>1, Invariance, PTL

\* The per-run queues, their Map order and the waiting attempts agree.
THEOREM QueuesConsistent == Spec => []QueuesAgree
<1>1. IInv => QueuesAgree
  BY DEF IInv
<1>2. QED
  BY <1>1, Invariance, PTL

----------------------------------------------------------------------------
(* What no step of the governor may do, for every set of runs and requests,   *)
(* every ceiling and every Retry-After: admit a run's request through a closed *)
(* gate, cut the cap twice for one batch, or change it behind the back of a    *)
(* run with a request in flight.                                              *)
\* A request admitted before the latest cut belongs to an earlier epoch.
CutsTurnThePage == \A q \in Request : cut[q] => ~current[q]

\* Every Retry-After announced and not forgotten lies within the window.
EmbargoInWindow == embargo <= IF ctl.cooldown = Undef THEN 0 ELSE ctl.cooldown

Steady == IInv /\ CutsTurnThePage /\ EmbargoInWindow

\* The bodies of the three action properties.
GateStep ==
  (\E q \in Granted : OwnerOf[q] \in Run) => ctl'.inFlight <= ctl'.cap /\ embargo' = 0
CutStep ==
  \A q \in InFlight : phase'[q] # "inflight" /\ ctl'.cap < ctl.cap => ~cut[q]
HeardStep ==
  \A q \in InFlight :
    /\ OwnerOf[q] \in Run
    /\ ctl'.cap < ctl.cap \/ (ctl'.cap # ctl.cap /\ phase'[q] = "inflight")
    => shown'[OwnerOf[q]] = ctl'.cap

Fine == CutsTurnThePage' /\ EmbargoInWindow' /\ GateStep /\ CutStep /\ HeardStep

LEMMA Typed ==
  ASSUME IInv
  PROVE  /\ ctl \in Sane /\ ~ctl.turned /\ ctl \in Controller
         /\ ctl.cap \in Floor..Ceiling /\ ctl.inFlight \in Nat /\ ctl.cooldown \in Undefinable(Nat)
         /\ embargo \in Nat /\ phase \in [Request -> Phase] /\ current \in [Request -> BOOLEAN]
         /\ cut \in [Request -> BOOLEAN] /\ shown \in [Run -> Floor..Ceiling]
BY IInvParts DEF Gate, History, Sane, Controller

----------------------------------------------------------------------------
(* Calls that end in drain().                                                *)

\* What they hand over to it: they tell the engaged runs; they lower the cap only for
\* the epoch of the request they end, which is then over; they grant nothing
\* themselves; and the window holds what they announce.
Handed(c, p, ra, L) ==
  /\ Engaged \subseteq L
  /\ c.cap < ctl.cap =>
       c.turned /\ \A q \in InFlight : p[q] # "inflight" => current[q]
  /\ \A q \in Request : p[q] = "inflight" => phase[q] = "inflight"
  /\ c.cooldown # Undef => AtLeast(embargo, ra) <= c.cooldown

LEMMA FineByDrain ==
  ASSUME Steady, NEW c \in Sane, NEW p \in [Request -> Phase], NEW ra \in Nat, NEW L,
         Served(c, p, ra, L), Handed(c, p, ra, L)
  PROVE  Fine
<1>1. PICK e \in Sane, G \in SUBSET Wait(p) :
        /\ Raised(c, e)
        /\ G # {} => e.inFlight <= e.cap /\ e.cooldown \in {Undef, 0}
        /\ ctl' = [e EXCEPT !.turned = FALSE]
        /\ phase' = [q \in Request |-> IF q \in G THEN "inflight" ELSE p[q]]
        /\ current' = [q \in Request |-> q \in G \/ (current[q] /\ ~e.turned)]
        /\ cut' = [q \in Request |-> q \notin G /\ (cut[q] \/ e.cap < ctl.cap)]
        /\ shown' = Told(Told(shown, ctl, c, L), c, e, EngagedIn(p))
        /\ embargo' = IF e.cooldown = Undef THEN 0 ELSE AtLeast(embargo, ra)
  BY DEF Served
<1>2. /\ ctl'.cap = e.cap /\ ctl'.inFlight = e.inFlight /\ ctl'.cooldown = e.cooldown
      /\ e.cap \in Floor..Ceiling /\ c.cap \in Floor..Ceiling /\ ctl.cap \in Floor..Ceiling
      /\ e.cooldown \in Undefinable(Nat) /\ e.inFlight \in Nat
  BY <1>1, Typed DEF Sane, Controller, Steady
<1>3. /\ e.cap \in {c.cap, Ceiling} /\ (c.turned => e.turned)
      /\ e.cooldown \in {Undef, c.cooldown}
  BY <1>1 DEF Raised
<1>4. e.cap < ctl.cap => c.cap < ctl.cap /\ e.cap = c.cap
  BY <1>2, <1>3 DEF Floor
<1>5. G \subseteq Request
  BY <1>1 DEF Wait
<1>6. CutsTurnThePage'
  <2> SUFFICES ASSUME NEW q \in Request, cut'[q] PROVE ~current'[q]
    BY DEF CutsTurnThePage
  <2>1. q \notin G /\ (cut[q] \/ e.cap < ctl.cap)
    BY <1>1
  <2>2. cut[q] => ~current[q]
    BY DEF Steady, CutsTurnThePage
  <2>3. e.cap < ctl.cap => e.turned
    BY <1>3, <1>4 DEF Handed
  <2> QED
    BY <1>1, <2>1, <2>2, <2>3
<1>7. EmbargoInWindow'
  BY <1>1, <1>2, <1>3 DEF EmbargoInWindow, Handed
<1>8. GateStep
  <2> SUFFICES ASSUME NEW q \in Granted PROVE ctl'.inFlight <= ctl'.cap /\ embargo' = 0
    BY DEF GateStep
  <2>1. q \in G
    BY <1>1 DEF Granted, Handed
  <2>2. e.inFlight <= e.cap /\ e.cooldown \in {Undef, 0}
    BY <1>1, <2>1
  <2>3. CASE e.cooldown = Undef
    BY <1>1, <1>2, <2>2, <2>3
  <2>4. CASE e.cooldown # Undef
    <3>1. e.cooldown = 0 /\ c.cooldown = 0 /\ c.cooldown # Undef
      BY <1>3, <2>2, <2>4
    <3>2. AtLeast(embargo, ra) <= 0 /\ embargo' = AtLeast(embargo, ra)
      BY <1>1, <2>4, <3>1 DEF Handed
    <3>3. embargo \in Nat
      BY Typed DEF Steady
    <3> QED
      BY <1>2, <2>2, <3>2, <3>3 DEF AtLeast
  <2> QED
    BY <2>3, <2>4
<1>9. CutStep
  <2> SUFFICES ASSUME NEW q \in InFlight, phase'[q] # "inflight", ctl'.cap < ctl.cap
               PROVE  ~cut[q]
    BY DEF CutStep
  <2>1. q \in Request /\ p[q] # "inflight"
    BY <1>1 DEF InFlight
  <2>2. current[q]
    BY <1>2, <1>4, <2>1 DEF Handed
  <2> QED
    BY <2>1, <2>2 DEF Steady, CutsTurnThePage
<1>10. HeardStep
  <2> SUFFICES ASSUME NEW q \in InFlight, OwnerOf[q] \in Run,
                      ctl'.cap < ctl.cap \/ (ctl'.cap # ctl.cap /\ phase'[q] = "inflight")
               PROVE  shown'[OwnerOf[q]] = ctl'.cap
    BY DEF HeardStep
  <2>1. q \in Request /\ phase[q] = "inflight" /\ OwnerOf[q] \in L
    BY DEF InFlight, Engaged, EngagedIn, Handed
  <2>2. phase'[q] = "inflight" => OwnerOf[q] \in EngagedIn(p)
    <3>1. p[q] \in {"inflight", "waiting"} \/ phase'[q] # "inflight"
      BY <1>1, <2>1 DEF Wait
    <3> QED
      BY <2>1, <3>1 DEF EngagedIn
  <2>3. shown'[OwnerOf[q]] =
          IF e.cap # c.cap /\ OwnerOf[q] \in EngagedIn(p) THEN e.cap
          ELSE IF c.cap # ctl.cap /\ OwnerOf[q] \in L THEN c.cap ELSE shown[OwnerOf[q]]
    BY <1>1 DEF Told
  <2>4. CASE ctl'.cap < ctl.cap
    BY <1>2, <1>4, <2>1, <2>3, <2>4
  <2>5. CASE ctl'.cap # ctl.cap /\ phase'[q] = "inflight"
    BY <1>2, <2>1, <2>2, <2>3, <2>5
  <2> QED
    BY <2>4, <2>5
<1> QED
  BY <1>6, <1>7, <1>8, <1>9, <1>10 DEF Fine

----------------------------------------------------------------------------
(* Those calls, one by one.                                                  *)

LEMMA WindowHolds ==
  ASSUME Steady
  PROVE  ctl.cooldown # Undef => AtLeast(embargo, 0) <= ctl.cooldown
BY Typed DEF Steady, EmbargoInWindow, AtLeast

\* A terminal event of q, or its release: it leaves the controller at c and announces ra.
LEMMA FineBySettle ==
  ASSUME Steady, NEW q \in Request, NEW to \in {"settled", "idle"}, phase[q] = "inflight",
         NEW c \in Sane, c.inFlight = ctl.inFlight - 1, NEW ra \in Nat,
         DrainAndArm(Call(c, order, queue), [phase EXCEPT ![q] = to], ra, Engaged),
         c.cap < ctl.cap => c.turned /\ current[q],
         c.cooldown # Undef => AtLeast(embargo, ra) <= c.cooldown
  PROVE  Fine
<1> DEFINE p == [phase EXCEPT ![q] = to]
<1>1. Served(c, p, ra, Engaged)
  BY SettleStep DEF Steady
<1>2. p \in [Request -> Phase] /\ phase \in [Request -> Phase]
  BY Typed DEF Steady, Phase
<1>3. Handed(c, p, ra, Engaged)
  BY <1>2 DEF Handed, InFlight
<1> HIDE DEF p
<1> QED
  BY <1>1, <1>2, <1>3, FineByDrain

LEMMA FineByEvents ==
  ASSUME Steady, NEW q \in Request,
         \/ Complete(q) \/ Throttle(q) \/ Transient(q) \/ EndEvent(q)
         \/ Release(q) /\ phase[q] = "inflight"
  PROVE  Fine
<1>1. /\ phase[q] = "inflight" /\ ctl \in Sane /\ current[q] \in BOOLEAN /\ embargo \in Nat
      /\ ctl.inFlight > 0 /\ ctl.cap \in Floor..Ceiling /\ ctl.cooldown \in Undefinable(Nat)
  <2>1. phase[q] = "inflight"
    BY DEF Complete, Throttle, Transient, EndEvent, Settle
  <2> QED
    BY <2>1, Typed, SlotHeld DEF Steady
<1>2. ASSUME NEW d \in {Succeeded(ctl, current[q]), FailedTransient(ctl), Ended(ctl)}
      PROVE  /\ d \in Sane /\ d.inFlight = ctl.inFlight - 1
             /\ ~(d.cap < ctl.cap)
             /\ d.cooldown # Undef => AtLeast(embargo, 0) <= d.cooldown
  <2>1. d \in Sane /\ d.inFlight = ctl.inFlight - 1
    BY <1>1, SucceededSane, FailedTransientSane, EndedSane
  <2>2. d.cap >= ctl.cap /\ d.cooldown = ctl.cooldown
    BY <1>1, OthersSpare
  <2>3. d.cap \in Int
    BY <2>1 DEF Sane, Controller, Floor
  <2> QED
    BY <1>1, <2>1, <2>2, <2>3, WindowHolds DEF Floor
<1>3. CASE Complete(q)
  BY <1>1, <1>2, <1>3, FineBySettle DEF Complete, Settle
<1>4. CASE Transient(q)
  BY <1>1, <1>2, <1>4, FineBySettle DEF Transient, Settle
<1>5. CASE EndEvent(q)
  BY <1>1, <1>2, <1>5, FineBySettle DEF EndEvent, Settle
<1>6. CASE Release(q) /\ phase[q] = "inflight"
  <2>1. DrainAndArm(Call(Ended(ctl), order, queue), [phase EXCEPT ![q] = "idle"], 0, Engaged)
    BY <1>6 DEF Release
  <2> QED
    BY <1>1, <1>2, <2>1, FineBySettle
<1>7. CASE Throttle(q)
  <2>1. PICK ra \in RetryAfters : Settle(q, Throttled(ctl, current[q], ra), ra)
    BY <1>7 DEF Throttle
  <2> DEFINE d == Throttled(ctl, current[q], ra)
  <2>2. ra \in Nat
    BY RetryAfterAssumption
  <2>3. d \in Sane /\ d.inFlight = ctl.inFlight - 1
    BY <1>1, <2>2, ThrottledSane
  <2>4. /\ d.cap < ctl.cap => current[q] /\ d.turned
        /\ d.cooldown = IF ra > 0 THEN AtLeast(ctl.cooldown, ra) ELSE ctl.cooldown
    BY <1>1, <2>2, ThrottledTurns
  <2>5. d.cooldown # Undef => AtLeast(embargo, ra) <= d.cooldown
    BY <1>1, <2>2, <2>4 DEF AtLeast, Steady, EmbargoInWindow, Undefinable, Undef
  <2>6. DrainAndArm(Call(d, order, queue), [phase EXCEPT ![q] = "settled"], ra, Engaged)
    BY <2>1 DEF Settle
  <2> HIDE DEF d
  <2> QED
    BY <1>1, <2>2, <2>3, <2>4, <2>5, <2>6, FineBySettle
<1> QED
  BY <1>3, <1>4, <1>5, <1>6, <1>7

LEMMA FineByAdmit == ASSUME Steady, NEW q \in Request, Admit(q) PROVE Fine
<1> DEFINE p == [phase EXCEPT ![q] = "waiting"]
           L == Engaged \cup {OwnerOf[q]}
<1>1. Served(ctl, p, 0, L)
  BY AdmitStep DEF Steady
<1>2. /\ p \in [Request -> Phase] /\ phase \in [Request -> Phase] /\ phase[q] = "announced"
      /\ ctl \in Sane /\ ctl.cap \in Floor..Ceiling
  BY Typed DEF Steady, Phase, Admit
<1>3. Handed(ctl, p, 0, L)
  BY <1>2, WindowHolds DEF Handed, Floor
<1> HIDE DEF p, L
<1> QED
  BY <1>1, <1>2, <1>3, FineByDrain

LEMMA FineByWake == ASSUME Steady, CooldownWake PROVE Fine
<1>1. Served(ctl, phase, 0, Engaged)
  BY WakeStep DEF Steady
<1>2. ctl \in Sane /\ ctl.cap \in Floor..Ceiling /\ phase \in [Request -> Phase]
  BY Typed DEF Steady
<1>3. Handed(ctl, phase, 0, Engaged)
  BY <1>2, WindowHolds DEF Handed, Floor
<1> QED
  BY <1>1, <1>2, <1>3, FineByDrain

----------------------------------------------------------------------------
(* The other calls: they move the cap only by an idle reset.                 *)

\* c is what such a call leaves of the controller, before the page is marked as read.
LEMMA FineByReset ==
  ASSUME Steady, NEW c \in Sane, Raised(ctl, c), ctl' = [c EXCEPT !.turned = FALSE],
         NEW p \in [Request -> Phase], phase' = p,
         \A q \in Request : cut'[q] => cut[q],
         \A q \in Request : current'[q] /\ cut'[q] => current[q],
         embargo' = IF c.cooldown = Undef THEN 0 ELSE embargo,
         (\E q \in Granted : OwnerOf[q] \in Run) =>
           c.inFlight <= c.cap /\ c.cooldown \in {Undef, 0},
         \A q \in InFlight : OwnerOf[q] \in Run /\ c.cap # ctl.cap =>
           shown'[OwnerOf[q]] = c.cap
  PROVE  Fine
<1>1. /\ ctl'.cap = c.cap /\ ctl'.inFlight = c.inFlight /\ ctl'.cooldown = c.cooldown
      /\ c.cap \in Floor..Ceiling /\ ctl.cap \in Floor..Ceiling /\ embargo \in Nat
      /\ c.cooldown \in Undefinable(Nat) /\ ctl.cooldown \in Undefinable(Nat)
  BY Typed DEF Sane, Controller, Steady
<1>2. c.cap \in {ctl.cap, Ceiling} /\ c.cooldown \in {Undef, ctl.cooldown}
  BY DEF Raised
<1>3. ~(c.cap < ctl.cap)
  BY <1>1, <1>2 DEF Floor
<1>4. CutsTurnThePage'
  BY DEF Steady, CutsTurnThePage
<1>5. EmbargoInWindow'
  BY <1>1, <1>2 DEF Steady, EmbargoInWindow
<1>6. GateStep
  BY <1>1, <1>2 DEF GateStep, Steady, EmbargoInWindow
<1>7. CutStep
  BY <1>1, <1>3 DEF CutStep
<1>8. HeardStep
  BY <1>1, <1>3 DEF HeardStep
<1> QED
  BY <1>4, <1>5, <1>6, <1>7, <1>8 DEF Fine

LEMMA FineByGrant ==
  ASSUME Steady, NEW q \in Request, phase[q] = "idle", GrantNow(q),
         OwnerOf[q] \in Run => CanAdmit(Observe(ctl))
  PROVE  Fine
<1> DEFINE seen == Observe(ctl)
           c == Admitted(seen)
<1>1. /\ seen \in Sane /\ Raised(ctl, seen) /\ seen.inFlight = ctl.inFlight
      /\ phase \in [Request -> Phase] /\ cut \in [Request -> BOOLEAN]
      /\ current \in [Request -> BOOLEAN] /\ embargo \in Nat
  BY Typed, IdledSane, IdledRaises DEF Steady, Observe
<1>2. /\ ctl' = [c EXCEPT !.turned = FALSE]
      /\ phase' = [phase EXCEPT ![q] = "inflight"]
      /\ current' = [p \in Request |-> p = q \/ (current[p] /\ ~seen.turned)]
      /\ cut' = [cut EXCEPT ![q] = FALSE]
      /\ shown' = Told(shown, ctl, seen, Engaged)
      /\ embargo' = IF c.cooldown = Undef THEN 0 ELSE AtLeast(embargo, 0)
  BY DEF GrantNow, Remember
<1> HIDE DEF seen
<1>3. c \in Sane /\ Raised(seen, c) /\ c.inFlight = seen.inFlight + 1
  BY <1>1, AdmittedSane, AdmittedRaises
<1>4. c.cap = seen.cap /\ c.cooldown = seen.cooldown
  BY <1>1 DEF Admitted, Sane, Controller
<1> HIDE DEF c
<1>5. Raised(ctl, c)
  BY <1>1, <1>3, RaisedTrans
<1>6. phase' \in [Request -> Phase]
  BY <1>1, <1>2 DEF Phase
<1>7. \A p \in Request : (cut'[p] => cut[p]) /\ (current'[p] /\ cut'[p] => current[p])
  BY <1>1, <1>2
<1>8. embargo' = IF c.cooldown = Undef THEN 0 ELSE embargo
  BY <1>1, <1>2 DEF AtLeast
<1>9. (\E p \in Granted : OwnerOf[p] \in Run) => c.inFlight <= c.cap /\ c.cooldown \in {Undef, 0}
  <2>1. \A p \in Granted : p = q
    BY <1>1, <1>2 DEF Granted
  <2>2. seen.cap \in Floor..Ceiling /\ seen.inFlight \in Nat
    BY <1>1 DEF Sane, Controller
  <2> QED
    BY <1>3, <1>4, <2>1, <2>2 DEF CanAdmit, seen, Floor
<1>10. \A p \in InFlight : OwnerOf[p] \in Run /\ c.cap # ctl.cap => shown'[OwnerOf[p]] = c.cap
  BY <1>2, <1>4 DEF Told, InFlight, Engaged, EngagedIn
<1> QED
  BY <1>2, <1>3, <1>5, <1>6, <1>7, <1>8, <1>9, <1>10, FineByReset

LEMMA FineByMiss == ASSUME Steady, NEW q \in Request, TryAdmitMiss(q) PROVE Fine
<1> DEFINE c == Observe(ctl)
<1>1. /\ c \in Sane /\ Raised(ctl, c) /\ phase \in [Request -> Phase] /\ embargo \in Nat
      /\ cut \in [Request -> BOOLEAN] /\ current \in [Request -> BOOLEAN]
  BY Typed, IdledSane, IdledRaises DEF Steady, Observe
<1>2. /\ ctl' = [c EXCEPT !.turned = FALSE]
      /\ phase' = [phase EXCEPT ![q] = "announced"] /\ phase[q] = "idle"
      /\ current' = [p \in Request |-> current[p] /\ ~c.turned] /\ UNCHANGED cut
      /\ shown' = Told(shown, ctl, c, Engaged)
      /\ embargo' = IF ctl'.cooldown = Undef THEN 0 ELSE AtLeast(embargo, 0)
  BY DEF TryAdmitMiss, Remember
<1> HIDE DEF c
<1>3. ctl'.cooldown = c.cooldown
  BY <1>1, <1>2 DEF Sane, Controller
<1>4. phase' \in [Request -> Phase] /\ Granted = {}
  BY <1>1, <1>2 DEF Phase, Granted
<1>5. \A p \in Request : (cut'[p] => cut[p]) /\ (current'[p] /\ cut'[p] => current[p])
  BY <1>1, <1>2
<1>6. embargo' = IF c.cooldown = Undef THEN 0 ELSE embargo
  BY <1>1, <1>2, <1>3 DEF AtLeast
<1>7. \A p \in InFlight : OwnerOf[p] \in Run /\ c.cap # ctl.cap => shown'[OwnerOf[p]] = c.cap
  BY <1>2 DEF Told, InFlight, Engaged, EngagedIn
<1> QED
  BY <1>1, <1>2, <1>4, <1>5, <1>6, <1>7, FineByReset

LEMMA FineByAbort == ASSUME Steady, NEW q \in Request, Abort(q) PROVE Fine
<1>1. PICK i \in DOMAIN queue[OwnerOf[q]], k \in DOMAIN order :
        LET o == IF Len(queue[OwnerOf[q]]) = 1 THEN RemoveAt(order, k) ELSE order
            c == Waiters(ctl, o # <<>>)
        IN  /\ phase' = [phase EXCEPT ![q] = "idle"]
            /\ ctl' = [c EXCEPT !.turned = FALSE]
            /\ shown' = Told(shown, ctl, c, EngagedIn(phase'))
            /\ current' = [p \in Request |-> current[p] /\ ~c.turned]
            /\ Remember(c, 0, <<>>, queue')
  BY DEF Abort
<1> DEFINE o == IF Len(queue[OwnerOf[q]]) = 1 THEN RemoveAt(order, k) ELSE order
           c == Waiters(ctl, o # <<>>)
<1>2. /\ phase' = [phase EXCEPT ![q] = "idle"] /\ phase[q] = "waiting"
      /\ ctl' = [c EXCEPT !.turned = FALSE]
      /\ shown' = Told(shown, ctl, c, EngagedIn(phase'))
      /\ current' = [p \in Request |-> current[p] /\ ~c.turned] /\ UNCHANGED cut
      /\ embargo' = IF c.cooldown = Undef THEN 0 ELSE AtLeast(embargo, 0)
  BY <1>1 DEF Abort, Remember
<1>3. (o # <<>>) \in BOOLEAN
  OBVIOUS
<1> HIDE DEF o
<1>4. /\ c \in Sane /\ Raised(ctl, c) /\ phase \in [Request -> Phase] /\ embargo \in Nat
      /\ cut \in [Request -> BOOLEAN] /\ current \in [Request -> BOOLEAN]
  BY <1>3, Typed, WaitersSane, WaitersRaises DEF Steady
<1> HIDE DEF c
<1>5. phase' \in [Request -> Phase] /\ Granted = {}
  BY <1>2, <1>4 DEF Phase, Granted
<1>6. \A p \in Request : (cut'[p] => cut[p]) /\ (current'[p] /\ cut'[p] => current[p])
  BY <1>2, <1>4
<1>7. embargo' = IF c.cooldown = Undef THEN 0 ELSE embargo
  BY <1>2, <1>4 DEF AtLeast
<1>8. \A p \in InFlight : OwnerOf[p] \in Run /\ c.cap # ctl.cap => shown'[OwnerOf[p]] = c.cap
  <2> SUFFICES ASSUME NEW p \in InFlight, OwnerOf[p] \in Run, c.cap # ctl.cap
               PROVE  shown'[OwnerOf[p]] = c.cap
    OBVIOUS
  <2>1. p \in Request /\ phase'[p] = "inflight"
    BY <1>2, <1>4 DEF InFlight
  <2>2. OwnerOf[p] \in EngagedIn(phase')
    BY <2>1 DEF EngagedIn
  <2> QED
    BY <1>2, <2>2 DEF Told
<1> QED
  BY <1>2, <1>4, <1>5, <1>6, <1>7, <1>8, FineByReset

\* Steps of the clock and steps that leave the controller alone.
LEMMA FineByTick == ASSUME Steady, Tick PROVE Fine
<1>1. /\ ctl' = Elapsed(ctl) /\ embargo' = AtLeast(0, embargo - 1)
      /\ UNCHANGED <<phase, current, shown, cut>>
  BY DEF Tick
<1>2. ctl \in Controller /\ embargo \in Nat /\ ctl.cooldown \in Undefinable(Nat)
  BY Typed DEF Steady
<1>3. /\ ctl'.cap = ctl.cap
      /\ ctl'.cooldown = IF ctl.cooldown > 0 THEN ctl.cooldown - 1 ELSE ctl.cooldown
  BY <1>1, <1>2 DEF Elapsed, Controller
<1>4. EmbargoInWindow'
  BY <1>1, <1>2, <1>3 DEF EmbargoInWindow, Steady, AtLeast, Undefinable, Undef
<1>5. Granted = {} /\ ctl.cap \in Int
  BY <1>1, <1>2 DEF Granted, Controller, Floor
<1> QED
  BY <1>1, <1>3, <1>4, <1>5
     DEF Fine, Steady, CutsTurnThePage, GateStep, CutStep, HeardStep

LEMMA FineByQuiet ==
  ASSUME Steady, UNCHANGED <<ctl, current, shown, cut, embargo>>,
         \A q \in Request : phase'[q] = "inflight" => phase[q] = "inflight"
  PROVE  Fine
<1>1. Granted = {} /\ ctl.cap \in Int
  BY Typed DEF Granted, Steady, Floor
<1> QED
  BY <1>1 DEF Fine, Steady, CutsTurnThePage, EmbargoInWindow, GateStep, CutStep, HeardStep

----------------------------------------------------------------------------
LEMMA FineStep == ASSUME Steady, [Next]_vars PROVE Fine \/ UNCHANGED vars
<1>1. CASE UNCHANGED vars
  BY <1>1
<1>2. ASSUME NEW q \in Request, TryAdmitHit(q) PROVE Fine
  BY <1>2, FineByGrant DEF TryAdmitHit
<1>3. ASSUME NEW q \in Request, ObserverAcquire(q) PROVE Fine
  BY <1>3, FineByGrant, ObserverAssumption DEF ObserverAcquire
<1>4. ASSUME NEW q \in Request, TryAdmitMiss(q) \/ Abort(q) \/ Admit(q) PROVE Fine
  BY <1>4, FineByMiss, FineByAbort, FineByAdmit
<1>5. ASSUME NEW q \in Request,
             AdmitAborted(q) \/ (Release(q) /\ phase[q] # "inflight")
      PROVE  Fine
  <2>1. /\ UNCHANGED <<ctl, current, shown, cut, embargo>>
        /\ phase' = [phase EXCEPT ![q] = "idle"]
    BY <1>5 DEF AdmitAborted, Release, history
  <2>2. phase \in [Request -> Phase]
    BY Typed DEF Steady
  <2> QED
    BY <2>1, <2>2, FineByQuiet
<1>6. ASSUME NEW q \in Request,
             \/ Complete(q) \/ Throttle(q) \/ Transient(q) \/ EndEvent(q)
             \/ Release(q) /\ phase[q] = "inflight"
      PROVE  Fine
  BY <1>6, FineByEvents
<1>7. CASE CooldownWake \/ Tick
  BY <1>7, FineByWake, FineByTick
<1> QED
  BY <1>1, <1>2, <1>3, <1>4, <1>5, <1>6, <1>7 DEF Next

LEMMA SteadyStep ==
  Steady /\ [Next]_vars => Steady' /\ [GateStep]_vars /\ [CutStep]_vars /\ [HeardStep]_vars
<1> SUFFICES ASSUME Steady, [Next]_vars
             PROVE  Steady' /\ [GateStep]_vars /\ [CutStep]_vars /\ [HeardStep]_vars
  OBVIOUS
<1>1. IInv'
  BY NextStep DEF Steady
<1>2. CASE Fine
  BY <1>1, <1>2 DEF Fine, Steady
<1>3. CASE UNCHANGED vars
  BY <1>1, <1>3 DEF Steady, CutsTurnThePage, EmbargoInWindow, vars, gate, history
<1> QED
  BY <1>2, <1>3, FineStep

LEMMA SteadyInitially == Init => Steady
<1>1. Init => IInv
  BY InitIInv
<1>2. Init => CutsTurnThePage /\ EmbargoInWindow
  BY DEF Init, CutsTurnThePage, EmbargoInWindow, NewController
<1> QED
  BY <1>1, <1>2 DEF Steady

LEMMA StepsAreFine ==
  Spec => [][GateStep]_vars /\ [][CutStep]_vars /\ [][HeardStep]_vars
BY SteadyInitially, SteadyStep, PTL DEF Spec

\* canAdmit() guards every grant to a run, by the fast path and in the loop of drain(),
\* and no call announces a Retry-After beside the window it opens: a run's request is
\* admitted within the cap and after every wait a provider asked for.
THEOREM GateIsHonoured == Spec => GateHonoured
BY StepsAreFine, PTL DEF GateHonoured, GateStep

\* A 429 cuts only when its request was sent in the current epoch, and every cut begins a
\* new one: whatever the order of the answers, one batch of requests cuts the cap once.
THEOREM OneCutForABatch == Spec => OneCutPerBatch
BY StepsAreFine, PTL DEF OneCutPerBatch, CutStep

\* Each call tells the runs engaged before it what it changed itself, and those engaged
\* after it what its drain changed: no run with a request in flight works with an old cap.
THEOREM CapChangesAreHeard == Spec => CapChangeHeard
BY StepsAreFine, PTL DEF CapChangeHeard, HeardStep

----------------------------------------------------------------------------
(* First come, first served.                                                 *)

\* What is left of a queue when n of its heads have gone.
Left(rest, s, n) ==
  /\ n \in 0..Len(s) /\ Len(rest) = Len(s) - n
  /\ \A i \in 1..Len(rest) : rest[i] = s[n + i]

\* The loop states of a drain that was handed the queues qs.
Serving(qs, F, W) ==
  {s \in Draining(F, W) : \A r \in Run : \E n \in Nat : Left(s.queue[r], qs[r], n)}

\* One more head goes.
LEMMA LeftTail ==
  ASSUME NEW s \in Seq(Request), NEW t \in Seq(Request), t # <<>>, NEW n \in Nat, Left(t, s, n)
  PROVE  Left(Tail(t), s, n + 1)
<1> DEFINE u == Tail(t)
<1>1. Len(t) \in Nat \ {0} /\ Len(s) \in Nat
  OBVIOUS
<1>2. u \in Seq(Request) /\ Len(u) = Len(t) - 1 /\ \A i \in 1..Len(u) : u[i] = t[i + 1]
  BY HeadTailProperties
<1> HIDE DEF u
<1>3. n \in 0..Len(s) /\ Len(t) = Len(s) - n /\ \A i \in 1..Len(t) : t[i] = s[n + i]
  BY DEF Left
<1>4. ASSUME NEW i \in 1..Len(u) PROVE u[i] = s[(n + 1) + i]
  <2>1. i + 1 \in 1..Len(t) /\ u[i] = t[i + 1] /\ n + (i + 1) = (n + 1) + i
    BY <1>1, <1>2
  <2> QED
    BY <1>3, <2>1
<1>5. n + 1 \in 0..Len(s) /\ Len(u) = Len(s) - (n + 1)
  BY <1>1, <1>2, <1>3
<1> QED
  BY <1>4, <1>5 DEF Left, u

\* A turn takes the head of one queue.
LEMMA TurnServes ==
  ASSUME NEW qs \in [Run -> Seq(Request)], NEW F, NEW W,
         F \subseteq Request, W \subseteq Request, F \cap W = {}, NEW s \in Serving(qs, F, W)
  PROVE  Turn[s] \in Serving(qs, F, W)
<1> DEFINE w == Waiters(s.ctl, s.order # <<>>)
           k == NextAt(s)
           r == s.order[k]
<1>1. s \in Draining(F, W) /\ s \in LoopState /\ Turn[s] \in Draining(F, W)
  BY TurnKeeps DEF Serving, Draining
<1>2. /\ s.order \in Seq(Run) /\ s.queue \in [Run -> Seq(Request)]
      /\ \A x \in Run : \E n \in Nat : Left(s.queue[x], qs[x], n)
  BY <1>1 DEF Serving, LoopState
<1>3. CASE s.order = <<>> \/ ~CanAdmit(w)
  <2>1. Turn[s] = [s EXCEPT !.ctl = w]
    BY <1>1, <1>3 DEF Turn
  <2> HIDE DEF w
  <2>2. Turn[s].queue = s.queue
    BY <1>1, <2>1 DEF LoopState
  <2> QED
    BY <1>1, <1>2, <2>2 DEF Serving
<1>4. CASE ~(s.order = <<>> \/ ~CanAdmit(w))
  <2>1. Turn[s].queue = [s.queue EXCEPT ![r] = Tail(@)]
    BY <1>1, <1>4 DEF Turn
  <2>2. k \in DOMAIN s.order
    BY <1>2, <1>4, NextAtListed
  <2>3. r \in Run /\ r \in ToSet(s.order)
    BY <1>2, <2>2 DEF ToSet
  <2>4. s.queue[r] # <<>> /\ s.queue[r] \in Seq(Request) /\ qs[r] \in Seq(Request)
    BY <1>1, <1>2, <2>3 DEF Draining, Ordered
  <2> HIDE DEF r, k, w
  <2>5. ASSUME NEW x \in Run PROVE \E n \in Nat : Left(Turn[s].queue[x], qs[x], n)
    <3>1. PICK n \in Nat : Left(s.queue[x], qs[x], n)
      BY <1>2
    <3>2. CASE x = r
      <4>1. Turn[s].queue[x] = Tail(s.queue[r])
        BY <1>2, <2>1, <2>3, <3>2
      <4>2. Left(Tail(s.queue[r]), qs[r], n + 1) /\ n + 1 \in Nat
        BY <2>4, <3>1, <3>2, LeftTail
      <4> QED
        BY <3>2, <4>1, <4>2
    <3>3. CASE x # r
      BY <1>2, <2>1, <3>1, <3>3
    <3> QED
      BY <3>2, <3>3
  <2> QED
    BY <1>1, <2>5 DEF Serving
<1> QED
  BY <1>3, <1>4

\* A drain that is handed the queues qs and the phases p grants the heads of the queues:
\* whoever stands before one it grants is granted too.
InTurns(qs, p) ==
  \E G \in SUBSET Wait(p) :
    /\ phase' = [q \in Request |-> IF q \in G THEN "inflight" ELSE p[q]]
    /\ \A r \in Run : \A i, j \in DOMAIN qs[r] : i < j /\ qs[r][j] \in G => qs[r][i] \in G

LEMMA DrainServes ==
  ASSUME IInv, NEW c \in Sane, NEW o \in Seq(Run), NEW qs \in [Run -> Seq(Request)],
         NEW p \in [Request -> Phase], NEW ra, NEW L,
         Ordered(o, qs), QueuedOnce(qs, Wait(p)), c.inFlight = Cardinality(Fly(p)),
         DrainAndArm(Call(c, o, qs), p, ra, L)
  PROVE  InTurns(qs, p)
<1> DEFINE s0 == LoopStart(c, o, qs)
           F == Fly(p)
           W == Wait(p)
           x == Looped(s0)
           d == [x EXCEPT !.ctl = Waiters(x.ctl, x.order # <<>>)]
           G == ToSet(x.granted)
<1>1. F \subseteq Request /\ W \subseteq Request /\ F \cap W = {}
  BY DEF Fly, Wait
<1>2. x \in Serving(qs, F, W)
  <2>1. s0 \in Serving(qs, F, W)
    <3>1. \A r \in Run : Left(qs[r], qs[r], 0)
      BY DEF Left
    <3>2. s0.queue = qs /\ s0 \in Draining(F, W)
      BY LoopStarts DEF LoopStart
    <3> HIDE DEF s0, F, W
    <3> QED
      BY <3>1, <3>2 DEF Serving
  <2> HIDE DEF F, W, s0
  <2>2. \A t \in Serving(qs, F, W) : Turn[t] \in Serving(qs, F, W)
    BY <1>1, TurnServes
  <2> QED
    BY <2>1, <2>2, LoopedStays
<1> HIDE DEF x
<1>3. /\ x \in LoopState /\ G \subseteq W /\ QueuedOnce(x.queue, W \ G)
      /\ \A r \in Run : \E n \in Nat : Left(x.queue[r], qs[r], n)
  BY <1>2 DEF Serving, Draining
<1>4. phase' = [q \in Request |-> IF q \in G THEN "inflight" ELSE p[q]]
  <2>1. Drained(Call(c, o, qs)) = d
    BY DEF Drained, Call, LoopStart, x
  <2>2. d.granted = x.granted
    BY <1>3 DEF LoopState
  <2> HIDE DEF d
  <2> QED
    BY <2>1, <2>2, ZenonT(60) DEF DrainAndArm
<1>5. ASSUME NEW r \in Run, NEW i \in DOMAIN qs[r], NEW j \in DOMAIN qs[r], i < j, qs[r][j] \in G
      PROVE  qs[r][i] \in G
  <2> DEFINE s == qs[r]
             t == x.queue[r]
  <2>1. PICK n \in Nat : Left(t, s, n)
    BY <1>3
  <2>2. /\ s \in Seq(Request) /\ DOMAIN s = 1..Len(s) /\ Len(s) \in Nat
        /\ t \in Seq(Request) /\ DOMAIN t = 1..Len(t) /\ Len(t) \in Nat
    <3>1. s \in Seq(Request) /\ t \in Seq(Request)
      BY <1>3 DEF LoopState
    <3> HIDE DEF s, t
    <3> QED
      BY <3>1
  <2>3. /\ \A y, z \in DOMAIN s : s[y] = s[z] => y = z
        /\ ToSet(s) = {q \in W : OwnerOf[q] = r}
    BY DEF QueuedOnce, IsInjective
  <2>4. ToSet(t) = {q \in W \ G : OwnerOf[q] = r}
    BY <1>3 DEF QueuedOnce
  <2> HIDE DEF s, t, G, W
  <2>5. /\ n \in 0..Len(s) /\ Len(t) = Len(s) - n
        /\ \A k \in 1..Len(t) : t[k] = s[n + k]
    BY <2>1 DEF Left
  <2>6. i \in 1..Len(s) /\ j \in 1..Len(s) /\ s[j] \in G
    BY <1>5, <2>2 DEF s
  <2>7. j <= n
    <3>1. ASSUME j > n PROVE FALSE
      <4>1. j - n \in DOMAIN t /\ n + (j - n) = j
        BY <2>2, <2>5, <2>6, <3>1
      <4>2. t[j - n] = s[j]
        BY <2>2, <2>5, <4>1
      <4>3. s[j] \in ToSet(t)
        BY <4>1, <4>2 DEF ToSet
      <4> QED
        BY <2>4, <2>6, <4>3
    <3> QED
      BY <2>6, <3>1
  <2>8. s[i] \notin ToSet(t)
    <3>1. ASSUME NEW k \in DOMAIN t, t[k] = s[i] PROVE FALSE
      <4>1. n + k \in DOMAIN s /\ t[k] = s[n + k] /\ n + k > i
        BY <1>5, <2>2, <2>5, <2>6, <2>7
      <4>2. n + k = i
        BY <2>2, <2>3, <2>6, <3>1, <4>1
      <4> QED
        BY <2>6, <4>1, <4>2
    <3> QED
      BY <3>1 DEF ToSet
  <2>9. s[i] \in W /\ OwnerOf[s[i]] = r
    BY <2>2, <2>3, <2>6 DEF ToSet
  <2>10. s[i] \in G
    BY <2>4, <2>8, <2>9
  <2> QED
    BY <2>10 DEF s
<1> HIDE DEF G
<1>6. G \in SUBSET Wait(p)
  BY <1>3
<1> QED
  BY <1>4, <1>5, <1>6 DEF InTurns

\* The body of the action property.
FirstStep ==
  \A q \in Granted : OwnerOf[q] \in Run =>
    IF phase[q] = "idle" THEN Waiting = {}
    ELSE \A p \in Waiting : AheadOf(p, q) => phase'[p] # "waiting"

\* Calls that end in drain(): the queues they hand over hold the present ones in front.
LEMMA FirstByDrain ==
  ASSUME IInv, NEW qs \in [Run -> Seq(Request)], NEW p \in [Request -> Phase],
         QueuedOnce(qs, Wait(p)), InTurns(qs, p),
         \A q \in Request : p[q] = "inflight" => phase[q] = "inflight",
         \A q \in Request : p[q] = "waiting" => phase[q] \in {"waiting", "announced"},
         \A r \in Run : \A i \in DOMAIN queue[r] : i \in DOMAIN qs[r] /\ qs[r][i] = queue[r][i]
  PROVE  FirstStep
<1>1. PICK G \in SUBSET Wait(p) :
        /\ phase' = [q \in Request |-> IF q \in G THEN "inflight" ELSE p[q]]
        /\ \A r \in Run : \A i, j \in DOMAIN qs[r] : i < j /\ qs[r][j] \in G => qs[r][i] \in G
  BY DEF InTurns
<1> SUFFICES ASSUME NEW q \in Granted, OwnerOf[q] \in Run
             PROVE  IF phase[q] = "idle" THEN Waiting = {}
                    ELSE \A a \in Waiting : AheadOf(a, q) => phase'[a] # "waiting"
  BY DEF FirstStep
<1>2. q \in Request /\ q \in G /\ p[q] = "waiting"
  BY <1>1 DEF Granted, Wait
<1>3. phase[q] # "idle"
  BY <1>2
<1> DEFINE r == OwnerOf[q]
<1>4. ASSUME NEW a \in Waiting, AheadOf(a, q) PROVE phase'[a] # "waiting"
  <2>1. PICK i \in DOMAIN queue[r] : queue[r][i] = a /\ \A j \in 1..i : queue[r][j] # q
    BY <1>4 DEF AheadOf
  <2>2. /\ queue[r] \in Seq(Request) /\ qs[r] \in Seq(Request)
        /\ DOMAIN queue[r] = 1..Len(queue[r]) /\ DOMAIN qs[r] = 1..Len(qs[r])
        /\ Len(queue[r]) \in Nat /\ Len(qs[r]) \in Nat
    BY IInvParts DEF Gate
  <2>3. q \in ToSet(qs[r])
    BY <1>2 DEF QueuedOnce, Wait
  <2>4. PICK j \in DOMAIN qs[r] : qs[r][j] = q
    BY <2>3 DEF ToSet
  <2>5. i \in DOMAIN qs[r] /\ qs[r][i] = a
    BY <2>1
  <2>6. ~(j <= i)
    <3>1. ASSUME j <= i PROVE FALSE
      <4>1. j \in 1..i /\ j \in DOMAIN queue[r]
        BY <2>1, <2>2, <3>1
      <4>2. qs[r][j] = queue[r][j]
        BY <4>1
      <4> QED
        BY <2>1, <2>4, <4>1, <4>2
    <3> QED
      BY <3>1
  <2>7. i < j
    BY <2>2, <2>5, <2>6
  <2>8. a \in G
    BY <1>1, <1>2, <2>4, <2>5, <2>7
  <2>9. a \in Request
    BY <1>4 DEF Waiting
  <2> QED
    BY <1>1, <2>8, <2>9
<1> QED
  BY <1>3, <1>4

\* A ticket that ends hands over the queues as they are.
LEMMA FirstBySettle ==
  ASSUME IInv, NEW q \in Request, NEW to \in {"settled", "idle"}, phase[q] = "inflight",
         NEW c \in Sane, ctl.inFlight > 0 => c.inFlight = ctl.inFlight - 1, NEW ra \in Nat,
         NEW L, DrainAndArm(Call(c, order, queue), [phase EXCEPT ![q] = to], ra, L)
  PROVE  FirstStep
<1> DEFINE p == [phase EXCEPT ![q] = to]
<1>1. /\ p \in [Request -> Phase] /\ c.inFlight = Cardinality(Fly(p)) /\ Wait(p) = Wait(phase)
      /\ phase \in [Request -> Phase]
  BY SlotHeld, IInvParts DEF Gate
<1>2. /\ order \in Seq(Run) /\ queue \in [Run -> Seq(Request)]
      /\ Ordered(order, queue) /\ QueuedOnce(queue, Wait(p))
  BY <1>1, IInvParts DEF Gate
<1>3. \A x \in Request : /\ p[x] = "inflight" => phase[x] = "inflight"
                         /\ p[x] = "waiting" => phase[x] \in {"waiting", "announced"}
  BY <1>1
<1>4. DrainAndArm(Call(c, order, queue), p, ra, L)
  OBVIOUS
<1> HIDE DEF p
<1>5. InTurns(queue, p)
  BY <1>1, <1>2, <1>4, DrainServes
<1> QED
  BY <1>1, <1>2, <1>3, <1>5, FirstByDrain

LEMMA FirstByEvents ==
  ASSUME IInv, NEW q \in Request,
         \/ Complete(q) \/ Throttle(q) \/ Transient(q) \/ EndEvent(q)
         \/ Release(q) /\ phase[q] = "inflight"
  PROVE  FirstStep
<1>1. ctl \in Sane /\ current[q] \in BOOLEAN
  BY IInvParts DEF Gate
<1>2. CASE Complete(q)
  BY <1>1, <1>2, SucceededSane, FirstBySettle DEF Complete, Settle
<1>3. CASE Throttle(q)
  <2>1. PICK ra \in RetryAfters : Settle(q, Throttled(ctl, current[q], ra), ra)
    BY <1>3 DEF Throttle
  <2>2. ra \in Nat
    BY RetryAfterAssumption
  <2> QED
    BY <1>1, <2>1, <2>2, ThrottledSane, FirstBySettle DEF Settle
<1>4. CASE Transient(q)
  BY <1>1, <1>4, FailedTransientSane, FirstBySettle DEF Transient, Settle
<1>5. CASE EndEvent(q)
  BY <1>1, <1>5, EndedSane, FirstBySettle DEF EndEvent, Settle
<1>6. CASE Release(q) /\ phase[q] = "inflight"
  <2>1. DrainAndArm(Call(Ended(ctl), order, queue), [phase EXCEPT ![q] = "idle"], 0, Engaged)
    BY <1>6 DEF Release
  <2> QED
    BY <1>1, <1>6, <2>1, EndedSane, FirstBySettle
<1> QED
  BY <1>2, <1>3, <1>4, <1>5, <1>6

\* One that joins stands behind those of its run.
LEMMA FirstByAdmit == ASSUME IInv, NEW q \in Request, Admit(q) PROVE FirstStep
<1> DEFINE r == OwnerOf[q]
           o == JoinedOrder(q)
           qs == JoinedQueues(q)
           p == [phase EXCEPT ![q] = "waiting"]
           L == Engaged \cup {r}
<1>1. /\ ctl \in Sane /\ queue \in [Run -> Seq(Request)] /\ phase \in [Request -> Phase]
      /\ r \in Run /\ phase[q] = "announced"
  BY IInvParts DEF Gate, Admit
<1>2. DrainAndArm(Call(ctl, o, qs), p, 0, L)
  BY DEF Admit, JoinedOrder, JoinedQueues
<1>3. /\ p \in [Request -> Phase] /\ ctl.inFlight = Cardinality(Fly(p))
      /\ o \in Seq(Run) /\ qs \in [Run -> Seq(Request)] /\ Ordered(o, qs)
      /\ QueuedOnce(qs, Wait(p))
  BY JoinedInOrder
<1>4. \A x \in Request : /\ p[x] = "inflight" => phase[x] = "inflight"
                         /\ p[x] = "waiting" => phase[x] \in {"waiting", "announced"}
  BY <1>1
<1>5. \A x \in Run : \A i \in DOMAIN queue[x] : i \in DOMAIN qs[x] /\ qs[x][i] = queue[x][i]
  <2> SUFFICES ASSUME NEW x \in Run, NEW i \in DOMAIN queue[x]
               PROVE  i \in DOMAIN qs[x] /\ qs[x][i] = queue[x][i]
    OBVIOUS
  <2>1. qs[x] = IF x = r THEN Append(queue[x], q) ELSE queue[x]
    BY <1>1 DEF JoinedQueues
  <2>2. queue[x] \in Seq(Request) /\ Append(queue[x], q) \in Seq(Request)
    BY <1>1
  <2>3. i \in DOMAIN Append(queue[x], q) /\ Append(queue[x], q)[i] = queue[x][i]
    BY <2>2
  <2> HIDE DEF qs
  <2> QED
    BY <2>1, <2>3
<1> HIDE DEF o, qs, p, r, L
<1>6. InTurns(qs, p)
  BY <1>1, <1>2, <1>3, DrainServes
<1> QED
  BY <1>3, <1>4, <1>5, <1>6, FirstByDrain

LEMMA FirstByWake == ASSUME IInv, CooldownWake PROVE FirstStep
<1>1. /\ ctl \in Sane /\ order \in Seq(Run) /\ queue \in [Run -> Seq(Request)]
      /\ phase \in [Request -> Phase] /\ Ordered(order, queue) /\ QueuedOnce(queue, Wait(phase))
      /\ ctl.inFlight = Cardinality(Fly(phase)) /\ 0 \in Nat
  BY IInvParts DEF Gate
<1>2. DrainAndArm(Call(ctl, order, queue), phase, 0, Engaged)
  BY DEF CooldownWake
<1>3. InTurns(queue, phase)
  BY <1>1, <1>2, DrainServes
<1> QED
  BY <1>1, <1>3, FirstByDrain

LEMMA FirstComes == IInv /\ [Next]_vars => [FirstStep]_vars
<1> SUFFICES ASSUME IInv, [Next]_vars PROVE FirstStep \/ UNCHANGED vars
  OBVIOUS
<1>0. phase \in [Request -> Phase]
  BY IInvParts DEF Gate
<1>1. CASE UNCHANGED vars
  BY <1>1
<1>2. ASSUME NEW q \in Request, TryAdmitHit(q) \/ ObserverAcquire(q) PROVE FirstStep
  <2>1. \A x \in Granted : x = q
    BY <1>0, <1>2 DEF Granted, TryAdmitHit, ObserverAcquire, GrantNow
  <2>2. TryAdmitHit(q) => phase[q] = "idle" /\ Waiting = {}
    BY DEF TryAdmitHit
  <2>3. ObserverAcquire(q) => OwnerOf[q] \notin Run
    BY ObserverAssumption DEF ObserverAcquire
  <2> QED
    BY <1>2, <2>1, <2>2, <2>3 DEF FirstStep
<1>3. ASSUME NEW q \in Request,
             \/ TryAdmitMiss(q) \/ Abort(q) \/ AdmitAborted(q)
             \/ Release(q) /\ phase[q] # "inflight"
      PROVE  FirstStep
  <2>1. phase' = [phase EXCEPT ![q] = "announced"] \/ phase' = [phase EXCEPT ![q] = "idle"]
    BY <1>3 DEF TryAdmitMiss, Abort, AdmitAborted, Release
  <2>2. Granted = {}
    BY <1>0, <2>1 DEF Granted
  <2> QED
    BY <2>2 DEF FirstStep
<1>4. ASSUME NEW q \in Request,
             \/ Complete(q) \/ Throttle(q) \/ Transient(q) \/ EndEvent(q)
             \/ Release(q) /\ phase[q] = "inflight"
      PROVE  FirstStep
  BY <1>4, FirstByEvents
<1>5. ASSUME NEW q \in Request, Admit(q) PROVE FirstStep
  BY <1>5, FirstByAdmit
<1>6. CASE CooldownWake
  BY <1>6, FirstByWake
<1>7. CASE Tick
  BY <1>7 DEF FirstStep, Granted, Tick
<1> QED
  BY <1>1, <1>2, <1>3, <1>4, <1>5, <1>6, <1>7 DEF Next

\* drain() shifts the head of a queue, admit() pushes at its end, and tryAdmit() succeeds
\* only when nobody waits: no request of a run is admitted before one that joined earlier.
THEOREM FirstComersFirst == Spec => FirstComeFirstServed
<1>1. IInv /\ [Next]_vars => [FirstStep]_vars
  BY FirstComes
<1>2. Spec => [][FirstStep]_vars
  BY <1>1, Invariance, PTL DEF Spec
<1> QED
  BY <1>2, PTL DEF FirstComeFirstServed, FirstStep
=============================================================================
