----------------------- MODULE WorkflowEngine_proofs -----------------------
(* Theorems about WorkflowEngine, for every script, import and bound.         *)
(*                                                                            *)
(* The inductive invariant IInv says what the engine, the journal and the     *)
(* sandbox know of a call at each stage of it.  Its core is a count: an       *)
(* actor's admission has admitted or holds no more asks than its actor has    *)
(* made calls, so the hold rule always stops within the positions there are   *)
(* (DrainStops), and what it lets go is each time another of these calls.     *)
(*                                                                            *)
(* OInv adds what ties the numbers of an actor's conversation to its rows and *)
(* to its line: the rows are numbered without gaps, an admission holds        *)
(* exactly the rows of its recorded positions, every row already admitted in  *)
(* this life is ended or its call is in line, and the line is in the order of *)
(* the numbers.                                                               *)
(*                                                                            *)
(* RInv adds, for scripts that make the calls of a site in one order          *)
(* (SiteOrder), that a call has the same place in the journal in every life,  *)
(* whatever answer comes first; so what was told once is what is recorded and *)
(* what is told again, and the run implements DurableRun.                     *)
(*                                                                            *)
(* HInv says that the rows of an actor that did not run live are the          *)
(* beginning of its conversation, answered as its predecessor's were, and     *)
(* that what this life has admitted of them is what its import counts as      *)
(* consumed.                                                                  *)
EXTENDS WorkflowEngine, Subsequence_proofs

\* The positions from the next one up to k that no recorded ask claims.
Slots(adm, k) == {j \in adm.next..k : adm.recorded[j] = NoCall}

\* The positions that a recorded ask claims.
Kept(adm) == {k \in 0..NCalls : adm.recorded[k] # NoCall}

\* Those that one claims from position e on.
Later(adm, e) == {k \in e..NCalls : adm.recorded[k] # NoCall}

\* An admission has no more than n calls admitted or held.
Roomy(adm, n) == adm.next + Cardinality(Kept(adm)) + Len(adm.live) <= n

\* It holds no call twice.
Once(adm) ==
  /\ \A j, k \in Kept(adm) : adm.recorded[j] = adm.recorded[k] => j = k
  /\ \A i, j \in DOMAIN adm.live : adm.live[i] = adm.live[j] => i = j
  /\ \A k \in Kept(adm), i \in DOMAIN adm.live : adm.recorded[k] # adm.live[i]

\* The calls it holds.
Holds(adm) == {adm.recorded[k] : k \in Kept(adm)} \cup {adm.live[i] : i \in DOMAIN adm.live}

----------------------------------------------------------------------------
(* Counting.                                                                 *)

\* A nonempty set of naturals with a bound has a greatest element.
LEMMA GreatestNat ==
  ASSUME NEW n \in Nat, NEW T, T \subseteq 0..n, T # {}
  PROVE  \E x \in T : \A y \in T : y <= x
<1> DEFINE U == {n - x : x \in T}
<1>1. U \subseteq Nat /\ U # {}
  <2>1. \A x \in T : n - x \in Nat
    OBVIOUS
  <2> QED
    BY <2>1
<1>2. PICK u \in U : \A v \in U : u <= v
  <2> HIDE DEF U
  <2> QED
    BY <1>1, LeastNat
<1>3. PICK x \in T : u = n - x
  OBVIOUS
<1>4. ASSUME NEW y \in T PROVE y <= x
  <2>1. n - y \in U
    OBVIOUS
  <2> HIDE DEF U
  <2> QED
    BY <1>2, <1>3, <2>1
<1> QED
  BY <1>4

\* Parts of a finite set.
LEMMA FinitePart ==
  ASSUME NEW T, IsFiniteSet(T), NEW S, S \subseteq T
  PROVE  IsFiniteSet(S) /\ Cardinality(S) \in Nat /\ Cardinality(S) <= Cardinality(T)
         /\ (Cardinality(S) = Cardinality(T) => S = T)
<1>1. IsFiniteSet(S) /\ Cardinality(S) <= Cardinality(T) /\ (Cardinality(T) = Cardinality(S) => T = S)
  BY FS_Subset
<1> QED
  BY <1>1, FS_CardinalityType

\* An interval has as many elements as it is long.
LEMMA FiniteRange ==
  ASSUME NEW m \in Int, NEW n \in Int
  PROVE  IsFiniteSet(m..n) /\ Cardinality(m..n) = IF m > n THEN 0 ELSE n - m + 1
  BY FS_Interval

\* Two disjoint parts of a finite set have at most its elements.
LEMMA DisjointParts ==
  ASSUME NEW T, IsFiniteSet(T), NEW A, NEW B, A \subseteq T, B \subseteq T, A \cap B = {}
  PROVE  /\ IsFiniteSet(A) /\ IsFiniteSet(B) /\ Cardinality(A) \in Nat /\ Cardinality(B) \in Nat
         /\ Cardinality(A) + Cardinality(B) <= Cardinality(T)
         /\ (A \cup B = T => Cardinality(A) + Cardinality(B) = Cardinality(T))
<1>1. IsFiniteSet(A) /\ IsFiniteSet(B) /\ Cardinality(A) \in Nat /\ Cardinality(B) \in Nat
  BY FinitePart
<1>2. Cardinality(A \cap B) = 0
  BY FS_EmptySet
<1>3. Cardinality(A \cup B) = Cardinality(A) + Cardinality(B) - Cardinality(A \cap B)
  BY <1>1, FS_Union
<1>4. A \cup B \subseteq T
  OBVIOUS
<1>5. Cardinality(A \cup B) <= Cardinality(T) /\ Cardinality(T) \in Nat
  BY <1>4, FinitePart
<1>6. Cardinality(A) + Cardinality(B) = Cardinality(A \cup B)
  BY <1>1, <1>2, <1>3
<1>7. A \cup B = T => Cardinality(A) + Cardinality(B) = Cardinality(T)
  BY <1>6
<1> QED
  BY <1>1, <1>5, <1>6, <1>7

\* The script makes finitely many calls and has finitely many actors.
LEMMA CallsFinite ==
  /\ NCalls \in Nat /\ NActors \in Nat
  /\ IsFiniteSet(Call) /\ Cardinality(Call) = NCalls
  /\ IsFiniteSet(Actor) /\ Cardinality(Actor) = NActors
  /\ IsFiniteSet(0..NCalls)
<1>1. NCalls \in Nat /\ NActors \in Nat /\ 1 \in Int /\ 0 \in Int /\ NCalls \in Int /\ NActors \in Int
  BY SizeAssumption
<1>2. IsFiniteSet(1..NCalls) /\ Cardinality(1..NCalls) = NCalls
  BY <1>1, FiniteRange
<1>3. IsFiniteSet(1..NActors) /\ Cardinality(1..NActors) = NActors
  BY <1>1, FiniteRange
<1>4. IsFiniteSet(0..NCalls)
  BY <1>1, FiniteRange
<1> QED
  BY <1>1, <1>2, <1>3, <1>4 DEF Call, Actor

----------------------------------------------------------------------------
(* One admission: where drainAdmission stops and what it admits.             *)

\* The fields of an admission.
LEMMA AdmissionParts ==
  ASSUME NEW adm \in Admission
  PROVE  /\ adm.count \in 0..NCalls /\ adm.next \in 0..NCalls /\ adm.live \in Seq(Call)
         /\ adm.recorded \in [0..NCalls -> Call \cup {NoCall}]
         /\ Len(adm.live) \in Nat /\ DOMAIN adm.live = 1..Len(adm.live)
         /\ IsFiniteSet(Kept(adm)) /\ Cardinality(Kept(adm)) \in Nat
<1>1. adm.count \in 0..NCalls /\ adm.next \in 0..NCalls /\ adm.live \in Seq(Call)
         /\ adm.recorded \in [0..NCalls -> Call \cup {NoCall}]
  BY DEF Admission
<1>2. Kept(adm) \subseteq 0..NCalls
  BY DEF Kept
<1>3. IsFiniteSet(Kept(adm)) /\ Cardinality(Kept(adm)) \in Nat
  BY <1>2, CallsFinite, FinitePart
<1> QED
  BY <1>1, <1>3

\* The unclaimed positions can be counted.
LEMMA SlotsFinite ==
  ASSUME NEW adm \in Admission, NEW k \in Int
  PROVE  IsFiniteSet(Slots(adm, k)) /\ Cardinality(Slots(adm, k)) \in Nat
<1>1. adm.next \in Int
  BY SizeAssumption, AdmissionParts
<1>2. Slots(adm, k) \subseteq adm.next..k
  BY DEF Slots
<1>3. IsFiniteSet(adm.next..k)
  BY <1>1, FiniteRange
<1> QED
  BY <1>2, <1>3, FinitePart

\* Unclaimed positions are counted one by one.
LEMMA SlotsGrow ==
  ASSUME NEW adm \in Admission, NEW j \in Int, NEW k \in Int
  PROVE  /\ j <= k => Cardinality(Slots(adm, j)) <= Cardinality(Slots(adm, k))
         /\ j < k /\ k \in Slots(adm, k) => Cardinality(Slots(adm, j)) < Cardinality(Slots(adm, k))
         /\ k \in Slots(adm, k) => Cardinality(Slots(adm, k)) >= 1
<1>1. IsFiniteSet(Slots(adm, j)) /\ Cardinality(Slots(adm, j)) \in Nat
      /\ IsFiniteSet(Slots(adm, k)) /\ Cardinality(Slots(adm, k)) \in Nat
  BY SlotsFinite
<1>2. adm.next \in Int
  BY SizeAssumption, AdmissionParts
<1>3. j <= k => Slots(adm, j) \subseteq Slots(adm, k)
  BY <1>2 DEF Slots
<1>4. j < k => k \notin Slots(adm, j)
  BY <1>2 DEF Slots
<1>5. j <= k => Cardinality(Slots(adm, j)) <= Cardinality(Slots(adm, k))
  BY <1>1, <1>3, FinitePart
<1>6. ASSUME j < k, k \in Slots(adm, k) PROVE Cardinality(Slots(adm, j)) < Cardinality(Slots(adm, k))
  <2>1. Slots(adm, j) \subseteq Slots(adm, k) /\ Slots(adm, j) # Slots(adm, k)
    BY <1>3, <1>4, <1>6
  <2>2. Cardinality(Slots(adm, j)) # Cardinality(Slots(adm, k))
    BY <1>1, <2>1, FinitePart
  <2> QED
    BY <1>1, <1>5, <1>6, <2>2
<1>7. k \in Slots(adm, k) => Cardinality(Slots(adm, k)) >= 1
  <2>1. k \in Slots(adm, k) => Cardinality(Slots(adm, k)) # 0
    BY <1>1, FS_EmptySet
  <2> QED
    BY <1>1, <2>1
<1> QED
  BY <1>5, <1>6, <1>7

\* When all positions up to e are filled, the fresh asks suffice for the unclaimed ones.
LEMMA SlotsLive ==
  ASSUME NEW adm \in Admission, NEW e \in adm.next..(NCalls + 1),
         \A k \in adm.next..(e - 1) : Filled(adm, k)
  PROVE  Cardinality(Slots(adm, e - 1)) \in 0..Len(adm.live)
<1> DEFINE S == Slots(adm, e - 1)
<1>1. adm.next \in 0..NCalls /\ Len(adm.live) \in Nat /\ NCalls \in Nat /\ e \in Nat /\ e - 1 \in Int
  BY SizeAssumption, AdmissionParts
<1>2. IsFiniteSet(S) /\ Cardinality(S) \in Nat
  BY <1>1, SlotsFinite
<1>3. CASE S = {}
  <2>1. Cardinality(S) = 0
    BY <1>3, FS_EmptySet
  <2> QED
    BY <1>1, <2>1
<1>4. CASE S # {}
  <2>1. S \subseteq 0..(NCalls + 1)
    BY <1>1 DEF Slots
  <2>2. PICK j \in S : \A i \in S : i <= j
    <3>1. NCalls + 1 \in Nat
      BY <1>1
    <3> HIDE DEF S
    <3> QED
      BY <3>1, <1>4, <2>1, GreatestNat
  <2>3. j \in adm.next..(e - 1) /\ adm.recorded[j] = NoCall
    BY DEF Slots
  <2>4. Cardinality({i \in adm.next..j : adm.recorded[i] = NoCall}) <= Len(adm.live)
    BY <2>3 DEF Filled
  <2>5. {i \in adm.next..j : adm.recorded[i] = NoCall} = S
    BY <1>1, <2>2, <2>3 DEF Slots
  <2>6. Cardinality(S) <= Len(adm.live)
    <3> HIDE DEF S
    <3> QED
      BY <2>4, <2>5
  <2> HIDE DEF S
  <2>7. Cardinality(S) \in 0..Len(adm.live)
    BY <1>1, <1>2, <2>6
  <2> QED
    BY <2>7 DEF S
<1> QED
  BY <1>3, <1>4

\* The positions from next to e - 1 are unclaimed or claimed; the claimed ones further on
\* remain.
LEMMA PositionsSplit ==
  ASSUME NEW adm \in Admission, NEW e \in adm.next..(NCalls + 1)
  PROVE  /\ Cardinality(Later(adm, e)) \in Nat
         /\ (e - adm.next) + Cardinality(Later(adm, e)) <= Cardinality(Slots(adm, e - 1)) + Cardinality(Kept(adm))
<1> DEFINE later == Later(adm, e)
           S == Slots(adm, e - 1)
           D == adm.next..(e - 1)
           K == {k \in D : adm.recorded[k] # NoCall}
<1>1. adm.next \in 0..NCalls /\ NCalls \in Nat /\ e \in Nat /\ e - 1 \in Int /\ adm.next \in Int
      /\ IsFiniteSet(Kept(adm)) /\ Cardinality(Kept(adm)) \in Nat /\ e >= adm.next
  BY SizeAssumption, AdmissionParts
<1>2. IsFiniteSet(D) /\ Cardinality(D) = e - adm.next
  <2>1. IsFiniteSet(D) /\ Cardinality(D) = IF adm.next > e - 1 THEN 0 ELSE (e - 1) - adm.next + 1
    BY <1>1, FiniteRange
  <2> HIDE DEF D
  <2> QED
    BY <1>1, <2>1
<1>3. S \subseteq D /\ K \subseteq D /\ S \cap K = {} /\ S \cup K = D
  BY DEF Slots
<1>4. K \subseteq Kept(adm) /\ later \subseteq Kept(adm) /\ K \cap later = {}
  BY <1>1 DEF Kept, Later
<1> HIDE DEF later, S, D, K
<1>5. Cardinality(S) + Cardinality(K) = Cardinality(D) /\ Cardinality(S) \in Nat /\ Cardinality(K) \in Nat
  BY <1>2, <1>3, DisjointParts
<1>6. Cardinality(K) + Cardinality(later) <= Cardinality(Kept(adm)) /\ Cardinality(later) \in Nat
  BY <1>1, <1>4, DisjointParts
<1>7. Cardinality(later) \in Nat /\ (e - adm.next) + Cardinality(later) <= Cardinality(S) + Cardinality(Kept(adm))
  BY <1>1, <1>2, <1>5, <1>6
<1> QED
  BY <1>7 DEF later, S

\* The draining stops within the positions: it cannot fill more of them than the script has calls.
LEMMA DrainStops ==
  ASSUME NEW adm \in Admission, Roomy(adm, NCalls)
  PROVE  /\ Drained(adm) \in adm.next..NCalls
         /\ \A k \in adm.next..(Drained(adm) - 1) : Filled(adm, k)
<1> DEFINE E == {m \in adm.next..NCalls : ~Filled(adm, m)}
<1>1. adm.next \in 0..NCalls /\ NCalls \in Nat /\ Len(adm.live) \in Nat /\ Cardinality(Kept(adm)) \in Nat
      /\ NCalls + 1 \in adm.next..(NCalls + 1) /\ (NCalls + 1) - 1 = NCalls
  BY SizeAssumption, AdmissionParts
<1>2. E # {}
  <2>1. SUFFICES ASSUME \A k \in adm.next..NCalls : Filled(adm, k) PROVE FALSE
    OBVIOUS
  <2>2. Cardinality(Slots(adm, NCalls)) \in 0..Len(adm.live)
    <3>1. Cardinality(Slots(adm, (NCalls + 1) - 1)) \in 0..Len(adm.live)
      BY <1>1, <2>1, SlotsLive
    <3> QED
      BY <1>1, <3>1
  <2>3. PICK n \in Nat : (NCalls + 1 - adm.next) + n <= Cardinality(Slots(adm, NCalls)) + Cardinality(Kept(adm))
    <3>1. (NCalls + 1 - adm.next) + Cardinality(Later(adm, NCalls + 1))
            <= Cardinality(Slots(adm, (NCalls + 1) - 1)) + Cardinality(Kept(adm))
          /\ Cardinality(Later(adm, NCalls + 1)) \in Nat
      BY <1>1, PositionsSplit
    <3> QED
      BY <1>1, <3>1
  <2> QED
    BY <1>1, <2>2, <2>3 DEF Roomy
<1>3. E \subseteq Nat
  BY <1>1
<1>4. PICK m \in E : \A k \in E : m <= k
  <2> HIDE DEF E
  <2> QED
    BY <1>2, <1>3, LeastNat
<1>5. m \in adm.next..NCalls /\ ~Filled(adm, m) /\ \A k \in adm.next..(m - 1) : Filled(adm, k)
  BY <1>1, <1>4
<1> HIDE DEF E
<1>6. \E x \in adm.next..NCalls : ~Filled(adm, x) /\ \A k \in adm.next..(x - 1) : Filled(adm, k)
  BY <1>5
<1> QED
  BY <1>6 DEF Drained

\* The position of the i-th ask admitted, and where among the fresh ones it is.
Spot(adm, i) == adm.next + i - 1

\* The ask admitted at a position is the one that claims it or, where none does, the fresh
\* ask of that turn.
LEMMA Admits ==
  ASSUME NEW adm \in Admission, Roomy(adm, NCalls), NEW i \in 1..(Drained(adm) - adm.next)
  PROVE  /\ Spot(adm, i) \in adm.next..(Drained(adm) - 1) /\ Spot(adm, i) \in 0..NCalls
         /\ Filled(adm, Spot(adm, i))
         /\ IF adm.recorded[Spot(adm, i)] # NoCall
            THEN Spot(adm, i) \in Kept(adm) /\ Released(adm)[i] = adm.recorded[Spot(adm, i)]
            ELSE /\ Spot(adm, i) \in Slots(adm, Spot(adm, i)) /\ Spot(adm, i) >= adm.count
                 /\ Cardinality(Slots(adm, Spot(adm, i))) \in 1..Len(adm.live)
                 /\ Released(adm)[i] = adm.live[Cardinality(Slots(adm, Spot(adm, i)))]
<1> DEFINE k == Spot(adm, i)
<1>1. Drained(adm) \in adm.next..NCalls /\ \A j \in adm.next..(Drained(adm) - 1) : Filled(adm, j)
  BY DrainStops
<1>2. adm.next \in 0..NCalls /\ NCalls \in Nat /\ Len(adm.live) \in Nat
  BY SizeAssumption, AdmissionParts
<1>3. k \in adm.next..(Drained(adm) - 1) /\ k \in 0..NCalls /\ k \in Int
  BY <1>1, <1>2 DEF Spot
<1>4. Filled(adm, k)
  BY <1>1, <1>3
<1>5. Released(adm)[i] = IF adm.recorded[k] # NoCall THEN adm.recorded[k]
                         ELSE adm.live[Cardinality(Slots(adm, k))]
  BY DEF Released, Spot, Slots
<1> HIDE DEF k
<1>6. CASE adm.recorded[k] # NoCall
  <2>1. k \in Kept(adm)
    BY <1>3, <1>6 DEF Kept
  <2> QED
    BY <1>3, <1>4, <1>5, <1>6, <2>1 DEF k
<1>7. CASE adm.recorded[k] = NoCall
  <2>1. k \in Slots(adm, k)
    BY <1>1, <1>2, <1>3, <1>7 DEF Slots
  <2>2. k >= adm.count /\ Cardinality(Slots(adm, k)) <= Len(adm.live)
    BY <1>4, <1>7 DEF Filled, Slots
  <2>3. Cardinality(Slots(adm, k)) \in Nat /\ Cardinality(Slots(adm, k)) >= 1
    BY <1>3, <2>1, SlotsFinite, SlotsGrow
  <2>4. Cardinality(Slots(adm, k)) \in 1..Len(adm.live)
    BY <1>2, <2>2, <2>3
  <2> QED
    BY <1>3, <1>4, <1>5, <1>7, <2>1, <2>2, <2>4 DEF k
<1> QED
  BY <1>6, <1>7

\* The asks admitted are calls the admission holds, none twice.
LEMMA Releases ==
  ASSUME NEW adm \in Admission, Roomy(adm, NCalls)
  PROVE  /\ Released(adm) \in Seq(Call) /\ Len(Released(adm)) = Drained(adm) - adm.next
         /\ Len(Released(adm)) \in Nat /\ DOMAIN Released(adm) = 1..Len(Released(adm))
         /\ Drained(adm) \in 0..NCalls /\ Drained(adm) = adm.next + Len(Released(adm))
         /\ \A i \in DOMAIN Released(adm) : Released(adm)[i] \in Holds(adm)
         /\ Once(adm) => \A i, j \in DOMAIN Released(adm) : Released(adm)[i] = Released(adm)[j] => i = j
<1> DEFINE asks == Released(adm)
           n == Drained(adm) - adm.next
<1>1. Drained(adm) \in adm.next..NCalls /\ adm.next \in 0..NCalls /\ NCalls \in Nat
      /\ adm.live \in Seq(Call) /\ adm.recorded \in [0..NCalls -> Call \cup {NoCall}]
      /\ DOMAIN adm.live = 1..Len(adm.live)
  BY SizeAssumption, AdmissionParts, DrainStops
<1>2. n \in Nat /\ DOMAIN asks = 1..n
  BY <1>1 DEF Released
<1>3. ASSUME NEW i \in 1..n PROVE asks[i] \in Holds(adm) /\ asks[i] \in Call
  <2>1. CASE adm.recorded[Spot(adm, i)] # NoCall
    <3>1. Spot(adm, i) \in Kept(adm) /\ asks[i] = adm.recorded[Spot(adm, i)] /\ Spot(adm, i) \in 0..NCalls
      BY <2>1, Admits
    <3> HIDE DEF asks
    <3> QED
      BY <1>1, <2>1, <3>1 DEF Holds
  <2>2. CASE adm.recorded[Spot(adm, i)] = NoCall
    <3>1. PICK p \in 1..Len(adm.live) : asks[i] = adm.live[p]
      BY <2>2, Admits
    <3> HIDE DEF asks
    <3> QED
      BY <1>1, <3>1 DEF Holds
  <2> QED
    BY <2>1, <2>2
<1>4. asks \in Seq(Call) /\ Len(asks) = n
  <2>1. asks = [i \in 1..n |-> asks[i]]
    BY DEF Released
  <2> HIDE DEF asks, n
  <2> QED
    BY <1>2, <1>3, <2>1
<1>5. ASSUME Once(adm), NEW i \in 1..n, NEW j \in 1..n, i < j PROVE asks[i] # asks[j]
  <2> DEFINE p == Spot(adm, i)
             q == Spot(adm, j)
  <2>1. p \in 0..NCalls /\ q \in 0..NCalls /\ p < q /\ p \in Int /\ q \in Int
    <3>1. p \in 0..NCalls /\ q \in 0..NCalls
      BY Admits
    <3>2. p < q
      BY <1>1, <1>5 DEF Spot
    <3> HIDE DEF p, q
    <3> QED
      BY <1>1, <3>1, <3>2
  <2>2. adm.recorded[p] # NoCall => p \in Kept(adm) /\ asks[i] = adm.recorded[p]
    BY Admits
  <2>3. adm.recorded[q] # NoCall => q \in Kept(adm) /\ asks[j] = adm.recorded[q]
    BY Admits
  <2>4. adm.recorded[p] = NoCall => /\ Cardinality(Slots(adm, p)) \in DOMAIN adm.live
                                    /\ asks[i] = adm.live[Cardinality(Slots(adm, p))]
    BY <1>1, Admits
  <2>5. adm.recorded[q] = NoCall => /\ Cardinality(Slots(adm, q)) \in DOMAIN adm.live
                                    /\ q \in Slots(adm, q)
                                    /\ asks[j] = adm.live[Cardinality(Slots(adm, q))]
    BY <1>1, Admits
  <2> HIDE DEF p, q, asks, n
  <2>6. CASE adm.recorded[p] # NoCall /\ adm.recorded[q] # NoCall
    BY <1>5, <2>1, <2>2, <2>3, <2>6 DEF Once
  <2>7. CASE adm.recorded[p] # NoCall /\ adm.recorded[q] = NoCall
    BY <1>5, <2>2, <2>5, <2>7 DEF Once
  <2>8. CASE adm.recorded[p] = NoCall /\ adm.recorded[q] # NoCall
    BY <1>5, <2>3, <2>4, <2>8 DEF Once
  <2>9. CASE adm.recorded[p] = NoCall /\ adm.recorded[q] = NoCall
    <3>1. Cardinality(Slots(adm, p)) < Cardinality(Slots(adm, q))
      BY <2>1, <2>5, <2>9, SlotsGrow
    <3>2. Cardinality(Slots(adm, p)) # Cardinality(Slots(adm, q))
      BY <2>1, <3>1, SlotsFinite
    <3> QED
      BY <1>5, <2>4, <2>5, <2>9, <3>2 DEF Once
  <2> QED
    BY <2>6, <2>7, <2>8, <2>9
<1>6. Once(adm) => \A i, j \in 1..n : asks[i] = asks[j] => i = j
  <2> HIDE DEF asks
  <2>1. ASSUME Once(adm), NEW i \in 1..n, NEW j \in 1..n, asks[i] = asks[j] PROVE i = j
    <3>1. ~(i < j) /\ ~(j < i)
      BY <1>5, <2>1
    <3> QED
      BY <1>2, <3>1
  <2> QED
    BY <2>1
<1>7. Drained(adm) = adm.next + n /\ Drained(adm) \in 0..NCalls
  BY <1>1
<1> HIDE DEF asks, n
<1>8. /\ asks \in Seq(Call) /\ Len(asks) = n /\ n \in Nat /\ DOMAIN asks = 1..n
      /\ Drained(adm) = adm.next + n /\ Drained(adm) \in 0..NCalls
      /\ \A i \in 1..n : asks[i] \in Holds(adm)
      /\ Once(adm) => \A i, j \in 1..n : asks[i] = asks[j] => i = j
  BY <1>2, <1>3, <1>4, <1>6, <1>7
<1> QED
  BY <1>8 DEF asks, n

\* What remains is held as before, and no ask that was admitted.
LEMMA Remains ==
  ASSUME NEW adm \in Admission, NEW n \in Nat, Roomy(adm, n), n <= NCalls, Once(adm)
  PROVE  /\ AfterDrain(adm) \in Admission
         /\ AfterDrain(adm).count = adm.count /\ AfterDrain(adm).next = Drained(adm)
         /\ Kept(AfterDrain(adm)) = Later(adm, Drained(adm))
         /\ \A k \in Kept(AfterDrain(adm)) : AfterDrain(adm).recorded[k] = adm.recorded[k]
         /\ Roomy(AfterDrain(adm), n) /\ Once(AfterDrain(adm))
         /\ Holds(AfterDrain(adm)) \subseteq Holds(adm)
         /\ \A i \in DOMAIN AfterDrain(adm).live : \E j \in DOMAIN adm.live : AfterDrain(adm).live[i] = adm.live[j]
         /\ \A i \in DOMAIN Released(adm) : Released(adm)[i] \notin Holds(AfterDrain(adm))
<1> DEFINE rest == AfterDrain(adm)
           e == Drained(adm)
           f == Cardinality(Slots(adm, e - 1))
           asks == Released(adm)
<1>0. Roomy(adm, NCalls) /\ NCalls \in Nat
  <2>1. adm.next \in 0..NCalls /\ NCalls \in Nat /\ Len(adm.live) \in Nat /\ Cardinality(Kept(adm)) \in Nat
    BY SizeAssumption, AdmissionParts
  <2> QED
    BY <2>1 DEF Roomy
<1>1. /\ e \in adm.next..NCalls /\ e \in Nat /\ e \in adm.next..(NCalls + 1) /\ e - 1 \in Int
      /\ adm.next \in 0..NCalls /\ adm.live \in Seq(Call) /\ DOMAIN adm.live = 1..Len(adm.live)
      /\ adm.recorded \in [0..NCalls -> Call \cup {NoCall}] /\ Len(adm.live) \in Nat
      /\ \A k \in adm.next..(e - 1) : Filled(adm, k)
  <2>1. e \in adm.next..NCalls /\ \A k \in adm.next..(e - 1) : Filled(adm, k)
    BY <1>0, DrainStops
  <2> HIDE DEF e
  <2> QED
    BY <1>0, <2>1, AdmissionParts
<1>2. f \in 0..Len(adm.live)
  <2> HIDE DEF e
  <2> QED
    BY <1>1, SlotsLive
<1>3. rest = [adm EXCEPT !.next = e,
                  !.recorded = [k \in 0..NCalls |-> IF k < e THEN NoCall ELSE adm.recorded[k]],
                  !.live = SubSeq(@, f + 1, Len(@))]
  BY DEF AfterDrain, Slots
<1> DEFINE tail == SubSeq(adm.live, f + 1, Len(adm.live))
<1>4. tail \in Seq(Call) /\ Len(tail) = Len(adm.live) - f /\ DOMAIN tail = 1..(Len(adm.live) - f)
      /\ \A i \in 1..(Len(adm.live) - f) : tail[i] = adm.live[f + i] /\ f + i \in 1..Len(adm.live)
  <2> HIDE DEF f
  <2>1. f + 1 \in 1..(Len(adm.live) + 1)
    BY <1>1, <1>2
  <2> QED
    BY <1>1, <1>2, <2>1, SubSeqProperties
<1> HIDE DEF e, f, rest, asks, tail
<1>5. /\ rest.count = adm.count /\ rest.next = e /\ rest.live = tail
      /\ rest.recorded = [k \in 0..NCalls |-> IF k < e THEN NoCall ELSE adm.recorded[k]]
      /\ rest = [count |-> rest.count, next |-> rest.next, recorded |-> rest.recorded, live |-> rest.live]
  <2>1. adm = [count |-> adm.count, next |-> adm.next, recorded |-> adm.recorded, live |-> adm.live]
    BY DEF Admission
  <2> QED
    BY <1>3, <2>1 DEF tail
<1>6. rest \in Admission
  <2>1. rest.recorded \in [0..NCalls -> Call \cup {NoCall}]
    BY <1>1, <1>5
  <2>2. rest.count \in 0..NCalls /\ rest.next \in 0..NCalls /\ rest.live \in Seq(Call)
    BY <1>0, <1>1, <1>4, <1>5, AdmissionParts
  <2> QED
    BY <1>5, <2>1, <2>2 DEF Admission
<1>7. Kept(rest) = Later(adm, e) /\ \A k \in Kept(rest) : rest.recorded[k] = adm.recorded[k] /\ k \in Kept(adm) /\ k >= e
  BY <1>0, <1>1, <1>5 DEF Kept, Later
<1>8. Roomy(rest, n)
  <2>1. Cardinality(Later(adm, e)) \in Nat
        /\ (e - adm.next) + Cardinality(Later(adm, e)) <= f + Cardinality(Kept(adm))
    BY <1>1, PositionsSplit DEF f
  <2>2. rest.next + Cardinality(Kept(rest)) + Len(rest.live) = e + Cardinality(Later(adm, e)) + (Len(adm.live) - f)
    BY <1>4, <1>5, <1>7
  <2>3. adm.next + Cardinality(Kept(adm)) + Len(adm.live) <= n /\ Cardinality(Kept(adm)) \in Nat
    BY AdmissionParts DEF Roomy
  <2>4. e + Cardinality(Later(adm, e)) + (Len(adm.live) - f) <= n
    <3> DEFINE p == Cardinality(Later(adm, e))
               k == Cardinality(Kept(adm))
               l == Len(adm.live)
    <3>1. /\ p \in Nat /\ k \in Nat /\ l \in Nat /\ e \in Nat /\ f \in Int /\ adm.next \in Nat /\ n \in Nat
          /\ (e - adm.next) + p <= f + k /\ adm.next + k + l <= n
      BY <1>0, <1>1, <1>2, <2>1, <2>3
    <3> HIDE DEF p, k, l
    <3>2. e + p + (l - f) <= n
      BY <3>1
    <3> QED
      BY <3>2 DEF p, k, l
  <2> QED
    BY <2>2, <2>4 DEF Roomy
<1>9. \A i \in DOMAIN rest.live : rest.live[i] = adm.live[f + i] /\ f + i \in DOMAIN adm.live /\ i \in Nat /\ i >= 1
  BY <1>1, <1>2, <1>4, <1>5
<1>10. Once(rest)
  <2>1. \A j, k \in Kept(rest) : rest.recorded[j] = rest.recorded[k] => j = k
    BY <1>7 DEF Once
  <2>2. ASSUME NEW i \in DOMAIN rest.live, NEW j \in DOMAIN rest.live, rest.live[i] = rest.live[j]
        PROVE  i = j
    <3>1. f + i = f + j
      BY <1>9, <2>2 DEF Once
    <3> QED
      BY <1>2, <1>9, <3>1
  <2>3. \A k \in Kept(rest), i \in DOMAIN rest.live : rest.recorded[k] # rest.live[i]
    BY <1>7, <1>9 DEF Once
  <2> QED
    BY <2>1, <2>2, <2>3 DEF Once
<1>11. Holds(rest) \subseteq Holds(adm)
  BY <1>7, <1>9 DEF Holds
<1>12. ASSUME NEW i \in DOMAIN asks PROVE asks[i] \notin Holds(rest)
  <2> DEFINE p == Spot(adm, i)
  <2>1. i \in 1..(e - adm.next)
    BY <1>0, Releases DEF asks, e
  <2>2. p \in 0..NCalls /\ p < e /\ p <= e - 1 /\ p \in Int
    <3>1. p \in adm.next..(e - 1) /\ p \in 0..NCalls
      BY <1>0, <2>1, Admits DEF e
    <3> HIDE DEF p
    <3> QED
      BY <1>0, <1>1, <3>1
  <2>3. adm.recorded[p] # NoCall => p \in Kept(adm) /\ asks[i] = adm.recorded[p]
    BY <1>0, <2>1, Admits DEF asks, e
  <2>4. adm.recorded[p] = NoCall => /\ Cardinality(Slots(adm, p)) \in DOMAIN adm.live
                                    /\ asks[i] = adm.live[Cardinality(Slots(adm, p))]
    BY <1>0, <1>1, <2>1, Admits DEF asks, e
  <2> HIDE DEF p
  <2>5. Cardinality(Slots(adm, p)) <= f /\ Cardinality(Slots(adm, p)) \in Nat
    BY <1>1, <2>2, SlotsGrow, SlotsFinite DEF f
  <2>6. ASSUME NEW k \in Kept(rest) PROVE rest.recorded[k] # asks[i]
    <3>1. k \in Kept(adm) /\ rest.recorded[k] = adm.recorded[k] /\ k # p
      BY <1>1, <1>7, <2>2
    <3> QED
      BY <2>3, <2>4, <3>1 DEF Once
  <2>7. ASSUME NEW j \in DOMAIN rest.live PROVE rest.live[j] # asks[i]
    <3>1. rest.live[j] = adm.live[f + j] /\ f + j \in DOMAIN adm.live /\ f + j # Cardinality(Slots(adm, p))
      BY <1>2, <1>9, <2>5
    <3> QED
      BY <2>3, <2>4, <3>1 DEF Once
  <2> QED
    BY <2>6, <2>7 DEF Holds
<1> QED
  BY <1>5, <1>6, <1>7, <1>8, <1>9, <1>10, <1>11, <1>12 DEF rest, e, asks

\* The calls of a site; those that have been admitted, of all, of a site, of an actor.
At(s) == {c \in Call : SiteOf[c] = s}
Made == {c \in Call : inst[c] # 0}
MadeAt(s) == {c \in At(s) : inst[c] # 0}
MadeBy(a) == {c \in Call : ActorOf[c] = a /\ inst[c] # 0}

JournalTyped ==
  /\ node \in [Instance -> Row \cup {Absent}]
  /\ runRow \in {"absent", "running", "stopped", "superseded", "completed", "errored"}
  /\ lastEvent \in {"none", "run-started", "other", "run-settled"}
  /\ queued \subseteq Instance /\ closed \in BOOLEAN

ControlTyped ==
  /\ mode \in {"live", "settled", "down"} /\ lives \in 0..MaxLives
  /\ told \in [Call -> Outcome \cup {None}] /\ torn \in BOOLEAN

AdmissionTyped ==
  /\ ordinal \in [Site -> 0..NCalls] /\ inst \in [Call -> 0..NCalls]
  /\ seq \in [Call -> 0..NCalls]
  /\ admission \in [Actor -> Admission]
  /\ imported \in [Actor -> [consumed : 0..NCalls, diverged : BOOLEAN]]
  /\ shut \in BOOLEAN /\ cursor \in [DOMAIN ImportWorld -> 0..NCalls]

DispatchTyped ==
  /\ liveQueue \in [Actor -> Seq(Call)]
  /\ current \in [Actor -> Call \cup {NoCall}]
  /\ session \in [Actor -> {"none", "creating", "ready", "failed"}]
  /\ activeAsks \in 0..MaxConcurrency
  /\ phase \in [Call -> {"idle", "held", "queued", "opening", "running", "answered", "aborted"}]
  /\ repairs \in [Call -> 0..RepairAttempts] /\ nudges \in [Call -> 0..NudgeAttempts]

SandboxTyped ==
  /\ up \in Seq(Call) /\ down \in Seq([call : Call, out : Outcome])
  /\ seen \in [Call -> Outcome \cup {None}]
  /\ ending \in {"open", "returned", "threw"}

\* A call is on its way to the engine at most once, and only when the script has heard what
\* it awaits before it.
Issuing ==
  /\ \A i, j \in DOMAIN up : up[i] = up[j] => i = j
  /\ \A i \in DOMAIN up : inst[up[i]] = 0 /\ Awaited(seen, up[i])
  /\ \A c \in Made : Awaited(seen, c)

\* The ordinals of a site are given once each, without gaps.
Numbered ==
  /\ \A s \in Site : ordinal[s] = Cardinality(MadeAt(s))
  /\ \A c \in Made : inst[c] <= ordinal[SiteOf[c]]
  /\ \A c, d \in Made : SiteOf[c] = SiteOf[d] /\ inst[c] = inst[d] => c = d

\* Rows are of calls of the script.
Asked(i) ==
  \E d \in Call : SiteOf[d] = i[1] /\ Input[d] = node[i].input /\ ActorOf[d] = node[i].actor

Placed ==
  \A i \in Instance : node[i].out # "absent" => i[2] <= Cardinality(At(i[1])) /\ Asked(i)

\* What an actor's admission holds.
Holding ==
  \A a \in Actor :
    /\ Roomy(admission[a], Cardinality(MadeBy(a)))
    /\ Once(admission[a])
    /\ \A c \in Holds(admission[a]) : ActorOf[c] = a /\ phase[c] = "held"

\* The slots taken, and who waits for one.
Dispatching(q, cur, n, ph) ==
  /\ n = Cardinality({a \in Actor : cur[a] # NoCall}) /\ n <= MaxConcurrency
  /\ \A a \in Actor : \A i \in DOMAIN q[a] : ActorOf[q[a][i]] = a /\ ph[q[a][i]] = "queued"
  /\ \A a \in Actor : \A i, j \in DOMAIN q[a] : q[a][i] = q[a][j] => i = j
  /\ \A a \in Actor : cur[a] # NoCall => ActorOf[cur[a]] = a /\ ph[cur[a]] \in {"opening", "running"}
  /\ \A c \in Call \ World : ph[c] \in {"opening", "running"} => cur[ActorOf[c]] = c

Slotted == Live => Dispatching(liveQueue, current, activeAsks, phase)

Executed == {"queued", "opening", "running"}

\* How a call stands in the engine and in the journal.
Phased ==
  /\ \A c \in Call : phase[c] = "idle" <=> inst[c] = 0
  /\ \A c \in World : phase[c] \in {"idle", "running", "answered"}
  /\ \A c \in Made : phase[c] \in Executed => node[InstanceOf(c)].out = "running"
  /\ Live => \A c \in Made : phase[c] = "answered" => Known(node[InstanceOf(c)])

\* What the script is told is what the journal says.
Answering ==
  /\ \A i \in DOMAIN down :
       inst[down[i].call] # 0 /\ node[InstanceOf(down[i].call)].out = down[i].out
  /\ \A c \in Call : seen[c] # None => inst[c] # 0 /\ node[InstanceOf(c)].out = seen[c]

\* A row answers to what its call asks.
Fitting == \A c \in Made : Matches(c, inst[c])

\* The import is closed in every life after the one in which it was closed.
Shutting == closed => shut

Served == \A i \in DOMAIN ImportWorld : cursor[i] <= Cardinality(Made)

----------------------------------------------------------------------------
(* Constants, instances and rows.                                            *)

\* An outcome is none of the markers of a row or of an unheard answer.
LEMMA Outcomes ==
  /\ None \notin Outcome /\ "absent" \notin Outcome /\ "running" \notin Outcome
  /\ Failure \in Outcome /\ Result \subseteq Outcome
  BY OutcomeAssumption DEF Outcome

\* An ask has an actor, a world operation has none.
LEMMA Actors ==
  /\ SiteOf \in [Call -> Site] /\ World \subseteq Call
  /\ \A c \in Call : ActorOf[c] \in Actor \cup {NoActor}
  /\ \A c \in Call \ World : ActorOf[c] \in Actor
  /\ \A c \in World : ActorOf[c] = NoActor
  /\ NoActor \notin Actor /\ NoCall \notin Call /\ NCalls \in Nat /\ NActors \in Nat
  BY ScriptAssumption, SizeAssumption DEF World, Actor, Call, NoActor, NoCall

\* The calls that have an ordinal have each an instance of their own.
LEMMA Instances ==
  ASSUME AdmissionTyped, Numbered
  PROVE  /\ \A c \in Made : InstanceOf(c) \in Instance /\ inst[c] \in 1..NCalls /\ c \in Call
         /\ \A c, d \in Made : InstanceOf(c) = InstanceOf(d) => c = d
<1>1. ASSUME NEW c \in Made PROVE InstanceOf(c) \in Instance /\ inst[c] \in 1..NCalls /\ c \in Call
  <2>1. inst[c] \in 1..NCalls /\ SiteOf[c] \in Site /\ c \in Call
    BY SizeAssumption, Actors DEF Made, AdmissionTyped
  <2> QED
    BY <2>1 DEF InstanceOf, Instance
<1>2. ASSUME NEW c \in Made, NEW d \in Made, InstanceOf(c) = InstanceOf(d) PROVE c = d
  <2>1. SiteOf[c] = SiteOf[d] /\ inst[c] = inst[d]
    BY <1>2 DEF InstanceOf
  <2> QED
    BY <2>1 DEF Numbered
<1> QED
  BY <1>1, <1>2

\* A row is absent, running or ended.
LEMMA Rows ==
  ASSUME JournalTyped, NEW i \in Instance
  PROVE  /\ node[i] \in Row \cup {Absent}
         /\ node[i].out # "absent" => node[i] \in Row
         /\ node[i].out \in Outcome \cup {"running", "absent"}
         /\ ~Known(Absent) /\ Absent.out = "absent" /\ Absent.actor = NoActor
         /\ \A r \in Row : r.out # "absent"
<1>1. node[i] \in Row \cup {Absent}
  BY DEF JournalTyped
<1>2. \A r \in Row : r.out \in Outcome \cup {"running"}
  BY DEF Row
<1>3. \A r \in Row : r.out # "absent"
  BY <1>2, Outcomes
<1> QED
  BY <1>1, <1>2, <1>3, Outcomes DEF Absent, Known

\* No actor has more asks in the journal than the script has calls.
LEMMA CountBound ==
  ASSUME Placed, JournalTyped, NEW a \in Actor
  PROVE  IsFiniteSet(RecordedAsks(a)) /\ Counted(a) \in 0..NCalls
<1> DEFINE A == RecordedAsks(a)
           pick == [s \in Site |-> CHOOSE f : f \in Bijection(1..Cardinality(At(s)), At(s))]
           g == [i \in A |-> pick[i[1]][i[2]]]
<1>1. ASSUME NEW s \in Site PROVE pick[s] \in Bijection(1..Cardinality(At(s)), At(s))
  <2>1. At(s) \subseteq Call
    BY DEF At
  <2>2. IsFiniteSet(At(s))
    BY <2>1, CallsFinite, FinitePart
  <2>3. \E f : f \in Bijection(1..Cardinality(At(s)), At(s))
    BY <2>2, FS_CardinalityType DEF ExistsBijection
  <2> QED
    BY <2>3
<1> HIDE DEF pick
<1>2. ASSUME NEW i \in A
      PROVE  /\ i[1] \in Site /\ i[2] \in 1..Cardinality(At(i[1])) /\ i = <<i[1], i[2]>>
             /\ g[i] \in Call /\ SiteOf[g[i]] = i[1] /\ g[i] = pick[i[1]][i[2]]
  <2>1. i \in Instance /\ node[i].actor = a
    BY DEF RecordedAsks
  <2>2. node[i].out # "absent"
    <3>1. node[i] # Absent
      BY <2>1, Rows, Actors
    <3> QED
      BY <2>1, <3>1, Rows
  <2>3. i[1] \in Site /\ i[2] \in 1..NCalls /\ i[2] <= Cardinality(At(i[1])) /\ i = <<i[1], i[2]>>
    BY <2>1, <2>2 DEF Placed, Instance
  <2>4. Cardinality(At(i[1])) \in Nat
    <3>1. At(i[1]) \subseteq Call
      BY DEF At
    <3> QED
      BY <3>1, CallsFinite, FinitePart
  <2>5. i[2] \in 1..Cardinality(At(i[1]))
    BY <2>3, <2>4, SizeAssumption
  <2>6. pick[i[1]][i[2]] \in At(i[1])
    BY <1>1, <2>3, <2>5 DEF Bijection, Injection
  <2> QED
    BY <2>3, <2>5, <2>6 DEF At
<1>3. ASSUME NEW i \in A, NEW j \in A, g[i] = g[j] PROVE i = j
  <2>1. i[1] = j[1] /\ pick[i[1]][i[2]] = pick[i[1]][j[2]]
    BY <1>2, <1>3
  <2>2. \A x, y \in 1..Cardinality(At(i[1])) : pick[i[1]][x] = pick[i[1]][y] => x = y
    <3> DEFINE f == pick[i[1]]
               n == Cardinality(At(i[1]))
    <3>1. f \in Bijection(1..n, At(i[1]))
      BY <1>1, <1>2
    <3> HIDE DEF f, n
    <3>2. f \in [1..n -> At(i[1])] /\ IsInjective(f)
      BY <3>1 DEF Bijection, Injection
    <3>3. \A x, y \in 1..n : f[x] = f[y] => x = y
      BY <3>2 DEF IsInjective
    <3> QED
      BY <3>3 DEF f, n
  <2>3. i[2] = j[2]
    BY <1>2, <2>1, <2>2
  <2> QED
    BY <1>2, <2>1, <2>3
<1>4. g \in Injection(A, Call)
  <2>1. g \in [A -> Call]
    BY <1>2
  <2> HIDE DEF g, A
  <2> QED
    BY <1>3, <2>1 DEF Injection, IsInjective
<1>5. IsFiniteSet(A) /\ Cardinality(A) <= Cardinality(Call)
  BY <1>4, CallsFinite, FS_Injection
<1>6. Cardinality(A) \in Nat
  BY <1>5, FS_CardinalityType
<1> HIDE DEF A
<1>7. IsFiniteSet(A) /\ Cardinality(A) \in 0..NCalls
  BY <1>5, <1>6, CallsFinite
<1> QED
  BY <1>7 DEF A, Counted, RecordedAsks

----------------------------------------------------------------------------
(* The start and the loss of an engine.                                      *)

\* The identity filtered: calls in program order, each once.
LEMMA ProgramOrder ==
  ASSUME NEW T
  PROVE  /\ Only([c \in Call |-> c], T) \in Seq(Call \cap T)
         /\ \A i, j \in DOMAIN Only([c \in Call |-> c], T) :
              Only([c \in Call |-> c], T)[i] = Only([c \in Call |-> c], T)[j] => i = j
<1> DEFINE s == [c \in Call |-> c]
           t == Only(s, T)
<1>1. s \in Seq(Call) /\ Len(s) = NCalls /\ NCalls \in Nat
  BY SizeAssumption DEF Call
<1>2. \A k \in 1..NCalls : s[k] = k
  BY DEF Call
<1> HIDE DEF s
<1>3. t \in Seq(Call \cap T) /\ \E g : Embeds(g, t, s, Len(s), T)
  BY <1>1, OnlyEmbeds
<1>4. PICK g : Embeds(g, t, s, Len(s), T)
  BY <1>3
<1> HIDE DEF t
<1>5. ASSUME NEW i \in 1..Len(t), NEW j \in 1..Len(t), i < j PROVE t[i] # t[j]
  <2>1. g[i] < g[j] /\ t[i] = s[g[i]] /\ t[j] = s[g[j]] /\ g[i] \in 1..NCalls /\ g[j] \in 1..NCalls
    BY <1>1, <1>4, <1>5 DEF Embeds
  <2>2. t[i] = g[i] /\ t[j] = g[j]
    BY <1>2, <2>1
  <2> QED
    BY <1>1, <2>1, <2>2
<1>6. Len(t) \in Nat /\ DOMAIN t = 1..Len(t)
  BY <1>3
<1>7. \A i, j \in DOMAIN t : t[i] = t[j] => i = j
  <2>1. ASSUME NEW i \in 1..Len(t), NEW j \in 1..Len(t), t[i] = t[j] PROVE i = j
    <3>1. ~(i < j) /\ ~(j < i)
      BY <1>5, <2>1
    <3> QED
      BY <1>6, <3>1
  <2> QED
    BY <1>6, <2>1
<1> QED
  BY <1>3, <1>7 DEF s, t

\* An admission that holds nothing.
Bare(n) == [count |-> n, next |-> 0, recorded |-> [k \in 0..NCalls |-> NoCall], live |-> <<>>]

\* A bare admission has its type and holds no ask.
LEMMA NothingHeld ==
  ASSUME NEW n \in 0..NCalls, NEW adm, adm = Bare(n)
  PROVE  /\ adm \in Admission /\ Kept(adm) = {} /\ Holds(adm) = {} /\ Once(adm)
         /\ adm.next = 0 /\ adm.count = n /\ adm.live = <<>>
         /\ \A m \in Nat : Roomy(adm, m)
<1>1. adm.next = 0 /\ adm.live = <<>> /\ adm.recorded = [k \in 0..NCalls |-> NoCall] /\ adm.count = n
  BY DEF Bare
<1>2. adm \in Admission
  <2>1. [k \in 0..NCalls |-> NoCall] \in [0..NCalls -> Call \cup {NoCall}] /\ <<>> \in Seq(Call)
        /\ 0 \in 0..NCalls
    BY SizeAssumption
  <2>2. Bare(n) \in Admission
    BY <2>1 DEF Admission, Bare
  <2> QED
    BY <2>2
<1>3. Kept(adm) = {}
  BY <1>1 DEF Kept
<1>4. Len(adm.live) = 0 /\ DOMAIN adm.live = {}
  BY <1>1
<1>5. Once(adm) /\ Holds(adm) = {}
  BY <1>3, <1>4 DEF Once, Holds
<1>6. \A m \in Nat : Roomy(adm, m)
  <2>1. Cardinality(Kept(adm)) = 0
    BY <1>3, FS_EmptySet
  <2>2. ASSUME NEW m \in Nat PROVE adm.next + Cardinality(Kept(adm)) + Len(adm.live) <= m
    BY <1>1, <1>4, <2>1
  <2> QED
    BY <2>2 DEF Roomy
<1> QED
  BY <1>1, <1>2, <1>3, <1>5, <1>6

Reset == AdmissionTyped /\ DispatchTyped /\ SandboxTyped /\ Issuing /\ Numbered /\ Holding
         /\ Slotted /\ Phased /\ Answering /\ Fitting /\ Served

Emptied ==
  /\ imported = NothingConsumed /\ cursor = [i \in DOMAIN ImportWorld |-> 0] /\ shut \in BOOLEAN
  /\ ordinal = [s \in Site |-> 0]
  /\ inst = [c \in Call |-> 0]
  /\ seq = [c \in Call |-> 0]
  /\ \A a \in Actor : \E n \in 0..NCalls : admission[a] = Bare(n)
  /\ admission = [a \in Actor |-> admission[a]]
  /\ liveQueue = [a \in Actor |-> <<>>]
  /\ current = [a \in Actor |-> NoCall]
  /\ session = [a \in Actor |-> "none"]
  /\ activeAsks = 0
  /\ phase = [c \in Call |-> "idle"]
  /\ repairs = [c \in Call |-> RepairAttempts]
  /\ nudges = [c \in Call |-> NudgeAttempts]
  /\ up = <<>> \/ up = Opening
  /\ down = <<>>
  /\ seen = Silence
  /\ ending = "open"

\* An engine that has not admitted anything.
LEMMA Begun == Emptied => Reset
<1> SUFFICES ASSUME Emptied PROVE Reset
  OBVIOUS
<1> USE DEF Emptied
<1>1. \A a \in Actor : /\ admission[a] \in Admission /\ Kept(admission[a]) = {}
                       /\ Holds(admission[a]) = {} /\ Once(admission[a])
                       /\ \A m \in Nat : Roomy(admission[a], m)
  BY NothingHeld
<1>2. NCalls \in Nat /\ 0 \in 0..NCalls
  BY SizeAssumption
<1>3. Made = {} /\ \A a \in Actor : MadeBy(a) = {} /\ \A s \in Site : MadeAt(s) = {}
  BY DEF Made, MadeBy, MadeAt, At
<1>4. AdmissionTyped
  <2>1. admission \in [Actor -> Admission]
    BY <1>1
  <2>2. imported \in [Actor -> [consumed : 0..NCalls, diverged : BOOLEAN]]
    BY <1>2 DEF NothingConsumed
  <2> QED
    BY <1>2, <2>1, <2>2 DEF AdmissionTyped
<1>5. DispatchTyped
  BY CapsAssumption DEF DispatchTyped
<1>6. up \in Seq(Call) /\ (\A i, j \in DOMAIN up : up[i] = up[j] => i = j)
      /\ \A i \in DOMAIN up : After[up[i]] = {} /\ up[i] \in Call
  <2>1. CASE up = <<>>
    BY <2>1
  <2>2. CASE up = Opening
    <3>1. up \in Seq(Call \cap {c \in Call : After[c] = {}})
          /\ \A i, j \in DOMAIN up : up[i] = up[j] => i = j
      BY <2>2, ProgramOrder DEF Opening
    <3>2. \A i \in DOMAIN up : up[i] \in Call \cap {c \in Call : After[c] = {}}
      BY <3>1
    <3>3. up \in Seq(Call)
      BY <3>1, SeqMonotonic
    <3> QED
      BY <3>1, <3>2, <3>3
  <2> QED
    BY <2>1, <2>2
<1>7. SandboxTyped
  BY <1>6 DEF SandboxTyped, Silence
<1>8. Issuing
  BY <1>3, <1>6 DEF Issuing, Awaited
<1>9. Numbered
  <2>1. \A s \in Site : MadeAt(s) = {} /\ ordinal[s] = 0
    BY DEF MadeAt, At
  <2>2. \A s \in Site : Cardinality(MadeAt(s)) = 0
    BY <2>1, FS_EmptySet
  <2> QED
    BY <1>3, <2>1, <2>2 DEF Numbered
<1>10. Holding
  <2>1. \A a \in Actor : Cardinality(MadeBy(a)) = 0
    BY <1>3, FS_EmptySet
  <2> QED
    BY <1>1, <2>1 DEF Holding
<1>11. Slotted
  <2>1. {a \in Actor : current[a] # NoCall} = {}
    OBVIOUS
  <2>2. Cardinality({a \in Actor : current[a] # NoCall}) = 0
    BY <2>1, FS_EmptySet
  <2>3. \A a \in Actor : DOMAIN liveQueue[a] = {}
    OBVIOUS
  <2>4. Dispatching(liveQueue, current, activeAsks, phase)
    BY <2>2, <2>3, CapsAssumption DEF Dispatching
  <2> QED
    BY <2>4 DEF Slotted
<1>12. Phased
  BY <1>3, Actors DEF Phased
<1>13. Answering
  BY DEF Answering, Silence
<1>14. Fitting
  BY <1>3 DEF Fitting
<1>15. Served
  <2>1. Cardinality(Made) = 0
    BY <1>3, FS_EmptySet
  <2> QED
    BY <2>1 DEF Served
<1> QED
  BY <1>4, <1>5, <1>7, <1>8, <1>9, <1>10, <1>11, <1>12, <1>13, <1>14, <1>15 DEF Reset

\* The same for the next state.
LEMMA Restarted ==
  ASSUME JournalTyped, Placed, NEW calls, NEW adm, Fresh(calls, adm), closed' = closed, Shutting,
         \/ calls = <<>> /\ adm = [a \in Actor |-> NoAdmission]
         \/ calls = Opening /\ adm = [a \in Actor |-> [NoAdmission EXCEPT !.count = Counted(a)]]
  PROVE  Reset' /\ Shutting'
<1>1. adm = [a \in Actor |-> adm[a]]
  OBVIOUS
<1>2. \A a \in Actor : \E n \in 0..NCalls : adm[a] = Bare(n)
  <2>1. ASSUME NEW a \in Actor PROVE \E n \in 0..NCalls : adm[a] = Bare(n)
    <3>1. CASE adm[a] = NoAdmission
      <4>1. 0 \in 0..NCalls
        BY SizeAssumption
      <4>2. NoAdmission = Bare(0)
        BY DEF NoAdmission, Bare
      <4> QED
        BY <3>1, <4>1, <4>2
    <3>2. CASE adm[a] = [NoAdmission EXCEPT !.count = Counted(a)]
      <4>1. Counted(a) \in 0..NCalls
        BY CountBound
      <4>2. adm[a] = Bare(Counted(a))
        BY <3>2 DEF NoAdmission, Bare
      <4> QED
        BY <4>1, <4>2
    <3> QED
      BY <3>1, <3>2
  <2> QED
    BY <2>1
<1>3. Emptied'
  BY <1>1, <1>2 DEF Fresh, Emptied, ClosureRecovered, JournalTyped
<1>4. Emptied' => Reset'
  BY Begun, PTL
<1>5. Shutting'
  BY DEF Fresh, ClosureRecovered, Shutting
<1> QED
  BY <1>3, <1>4, <1>5

\* What an admission holds are calls.
LEMMA HeldCalls ==
  ASSUME NEW adm \in Admission
  PROVE  Holds(adm) \subseteq Call
<1>1. adm.recorded \in [0..NCalls -> Call \cup {NoCall}] /\ adm.live \in Seq(Call)
  BY AdmissionParts
<1>2. \A k \in Kept(adm) : adm.recorded[k] \in Call
  BY <1>1 DEF Kept
<1>3. \A i \in DOMAIN adm.live : adm.live[i] \in Call
  BY <1>1
<1> QED
  BY <1>2, <1>3 DEF Holds

----------------------------------------------------------------------------
(* What a step that leaves its variables alone does to each part: nothing.    *)

\* A part of the invariant holds on while its variables stay as they are.
LEMMA Frames ==
  /\ Issuing /\ UNCHANGED <<up, inst, seen>> => Issuing'
  /\ Numbered /\ UNCHANGED <<ordinal, inst>> => Numbered'
  /\ Placed /\ UNCHANGED node => Placed'
  /\ Holding /\ UNCHANGED <<admission, inst, phase>> => Holding'
  /\ Slotted /\ UNCHANGED <<mode, liveQueue, current, activeAsks, phase>> => Slotted'
  /\ Phased /\ UNCHANGED <<mode, phase, inst, node>> => Phased'
  /\ Answering /\ UNCHANGED <<down, inst, node, seen>> => Answering'
  /\ Fitting /\ UNCHANGED <<inst, node>> => Fitting'
  /\ Shutting /\ UNCHANGED <<closed, shut>> => Shutting'
  /\ Served /\ UNCHANGED <<cursor, inst>> => Served'
<1>1. Issuing /\ UNCHANGED <<up, inst, seen>> => Issuing'
  BY DEF Issuing, Awaited, Made
<1>2. Numbered /\ UNCHANGED <<ordinal, inst>> => Numbered'
  BY DEF Numbered, MadeAt, Made
<1>3. Placed /\ UNCHANGED node => Placed'
  BY DEF Placed, Asked
<1>4. Holding /\ UNCHANGED <<admission, inst, phase>> => Holding'
  BY DEF Holding, MadeBy
<1>5. Slotted /\ UNCHANGED <<mode, liveQueue, current, activeAsks, phase>> => Slotted'
  BY DEF Slotted, Live
<1>6. Phased /\ UNCHANGED <<mode, phase, inst, node>> => Phased'
  BY DEF Phased, Made, InstanceOf, Live
<1>7. Answering /\ UNCHANGED <<down, inst, node, seen>> => Answering'
  BY DEF Answering, InstanceOf
<1>8. Fitting /\ UNCHANGED <<inst, node>> => Fitting'
  BY DEF Fitting, Made, Matches, RowOf
<1>9. Shutting /\ UNCHANGED <<closed, shut>> => Shutting'
  BY DEF Shutting
<1>10. Served /\ UNCHANGED <<cursor, inst>> => Served'
  BY DEF Served, Made
<1> QED
  BY <1>1, <1>2, <1>3, <1>4, <1>5, <1>6, <1>7, <1>8, <1>9, <1>10

\* So do the types.
LEMMA TypeFrames ==
  /\ JournalTyped /\ UNCHANGED journal => JournalTyped'
  /\ ControlTyped /\ UNCHANGED <<mode, lives, history>> => ControlTyped'
  /\ AdmissionTyped /\ UNCHANGED <<ordinal, inst, seq, admission, cache>> => AdmissionTyped'
  /\ DispatchTyped /\ UNCHANGED <<liveQueue, current, session, activeAsks, phase, repairs, nudges>>
       => DispatchTyped'
  /\ SandboxTyped /\ UNCHANGED sandbox => SandboxTyped'
<1>1. JournalTyped /\ UNCHANGED journal => JournalTyped'
  BY DEF JournalTyped, journal, events
<1>2. ControlTyped /\ UNCHANGED <<mode, lives, history>> => ControlTyped'
  BY DEF ControlTyped, history
<1>3. AdmissionTyped /\ UNCHANGED <<ordinal, inst, seq, admission, cache>> => AdmissionTyped'
  BY DEF AdmissionTyped, cache
<1>4. DispatchTyped /\ UNCHANGED <<liveQueue, current, session, activeAsks, phase, repairs, nudges>>
       => DispatchTyped'
  BY DEF DispatchTyped
<1>5. SandboxTyped /\ UNCHANGED sandbox => SandboxTyped'
  BY DEF SandboxTyped, sandbox
<1> QED
  BY <1>1, <1>2, <1>3, <1>4, <1>5

Types == JournalTyped /\ ControlTyped /\ AdmissionTyped /\ DispatchTyped /\ SandboxTyped

\* The type invariant, by the parts of the state.
LEMMA WellTyped == TypeOK <=> Types
<1>1. Types <=> JournalTyped /\ ControlTyped /\ AdmissionTyped /\ DispatchTyped /\ SandboxTyped
  BY DEF Types
<1>2. TypeOK <=> JournalTyped /\ ControlTyped /\ AdmissionTyped /\ DispatchTyped /\ SandboxTyped
  BY DEF TypeOK, JournalTyped, ControlTyped, AdmissionTyped, DispatchTyped, SandboxTyped
<1> QED
  BY <1>1, <1>2

IInv == Types /\ Issuing /\ Numbered /\ Placed /\ Holding /\ Slotted /\ Phased /\ Answering /\ Fitting
        /\ Shutting /\ Served

\* The reconciliation of orphaned runs writes the status alone.
LEMMA ReconcileStep == IInv /\ Reconcile => IInv'
<1> SUFFICES ASSUME IInv, Reconcile PROVE IInv'
  OBVIOUS
<1> USE DEF IInv, Reconcile
<1>1. Types'
  <2>1. JournalTyped'
    BY DEF Types, JournalTyped, events
  <2> QED
    BY <2>1, TypeFrames DEF Types, engine
<1>2. (Issuing /\ Numbered /\ Placed /\ Holding /\ Slotted /\ Phased /\ Answering /\ Fitting
        /\ Shutting /\ Served)'
  BY Frames DEF engine, sandbox, events, cache
<1> QED
  BY <1>1, <1>2

\* Launch and resume.
LEMMA StartStep == IInv /\ Start => IInv'
<1> SUFFICES ASSUME IInv, Start PROVE IInv'
  OBVIOUS
<1> USE DEF IInv, Start
<1>1. Reset' /\ Shutting'
  <2>1. Fresh(Opening, [a \in Actor |-> [NoAdmission EXCEPT !.count = Counted(a)]])
    OBVIOUS
  <2>2. closed' = closed
    BY DEF events
  <2> QED
    BY <2>1, <2>2, Restarted DEF Types
<1>2. JournalTyped'
  BY DEF Types, JournalTyped, events
<1>3. ControlTyped'
  BY CapsAssumption DEF Types, ControlTyped, history
<1>4. Placed'
  BY Frames
<1> QED
  BY <1>1, <1>2, <1>3, <1>4 DEF Reset, Types

\* The end of a process that leaves the rows as they are.
LEMMA LossStep ==
  ASSUME IInv, Wiped, mode' = "down", UNCHANGED <<node, lastEvent, events, lives, history>>,
         runRow' \in {"absent", "running", "stopped", "superseded", "completed", "errored"}
  PROVE  IInv'
<1> USE DEF IInv
<1>1. Reset' /\ Shutting'
  <2>1. Fresh(<<>>, [a \in Actor |-> NoAdmission])
    BY DEF Wiped
  <2>2. closed' = closed
    BY DEF events
  <2> QED
    BY <2>1, <2>2, Restarted DEF Types
<1>2. JournalTyped'
  BY DEF Types, JournalTyped, events
<1>3. ControlTyped'
  BY DEF Types, ControlTyped, history
<1>4. Placed'
  BY Frames
<1> QED
  BY <1>1, <1>2, <1>3, <1>4 DEF Reset, Types

\* The end of the process.
LEMMA CrashStep == IInv /\ Crash => IInv'
<1> SUFFICES ASSUME IInv, Crash PROVE IInv'
  OBVIOUS
<1>1. runRow' \in {"absent", "running", "stopped", "superseded", "completed", "errored"}
  BY DEF IInv, Types, JournalTyped, Crash, journal
<1> QED
  BY <1>1, LossStep DEF Crash, journal

\* Every way to settle the run.
LEMMA SettleRunStep ==
  ASSUME IInv, NEW status \in {"stopped", "superseded", "completed", "errored"}, SettleRun(status)
  PROVE  IInv'
<1>1. CASE TornFinish(status)
  <2>1. runRow' \in {"absent", "running", "stopped", "superseded", "completed", "errored"}
    BY <1>1 DEF TornFinish
  <2> QED
    BY <1>1, <2>1, LossStep DEF TornFinish
<1>2. CASE FinishRun(status)
  <2> USE <1>2 DEF FinishRun, IInv
  <2>1. phase \in [Call -> {"idle", "held", "queued", "opening", "running", "answered", "aborted"}]
    BY DEF Types, DispatchTyped
  <2>2. \A c \in Call : /\ phase'[c] = "idle" <=> phase[c] = "idle"
                        /\ phase'[c] = "held" <=> phase[c] = "held"
                        /\ phase'[c] \in Executed => phase'[c] = phase[c]
                        /\ c \in World => phase'[c] = phase[c]
    BY <2>1 DEF Executed
  <2>3. JournalTyped'
    BY DEF Types, JournalTyped, events
  <2>4. ControlTyped'
    BY DEF Types, ControlTyped, history
  <2>5. AdmissionTyped' /\ SandboxTyped'
    BY TypeFrames DEF Types
  <2>6. DispatchTyped'
    <3>1. phase' \in [Call -> {"idle", "held", "queued", "opening", "running", "answered", "aborted"}]
      BY <2>1
    <3>2. activeAsks' \in 0..MaxConcurrency
      BY CapsAssumption
    <3> QED
      BY <3>1, <3>2 DEF Types, DispatchTyped
  <2>7. (Issuing /\ Numbered /\ Placed /\ Answering /\ Fitting /\ Shutting /\ Served)'
    BY Frames DEF events, cache, sandbox
  <2>8. Holding'
    <3>1. ASSUME NEW a \in Actor, NEW c \in Holds(admission[a]) PROVE phase'[c] = "held" /\ ActorOf[c] = a
      <4>1. phase[c] = "held" /\ ActorOf[c] = a
        BY <3>1 DEF Holding
      <4>2. c \in Call
        <5>1. admission[a] \in Admission
          BY DEF Types, AdmissionTyped
        <5> QED
          BY <5>1, <3>1, HeldCalls
      <4> QED
        BY <2>2, <4>1, <4>2
    <3> QED
      BY <3>1 DEF Holding, MadeBy
  <2>9. Slotted'
    BY DEF Slotted, Live
  <2>10. Phased'
    <3>1. \A c \in Call : phase'[c] = "idle" <=> inst'[c] = 0
      BY <2>2 DEF Phased
    <3>2. \A c \in World : phase'[c] \in {"idle", "running", "answered"}
      BY <2>2, Actors DEF Phased
    <3>3. \A c \in Made : phase'[c] \in Executed => node[InstanceOf(c)].out = "running"
      BY <2>2 DEF Phased, Made
    <3>4. Made' = Made /\ ~Live' /\ \A c : InstanceOf(c)' = InstanceOf(c)
      BY DEF Made, Live, InstanceOf
    <3> QED
      BY <3>1, <3>2, <3>3, <3>4 DEF Phased
  <2> QED
    BY <2>3, <2>4, <2>5, <2>6, <2>7, <2>8, <2>9, <2>10 DEF Types
<1> QED
  BY <1>1, <1>2 DEF SettleRun

\* The ends of a run, and a row that does not fit the call.
LEMMA EndStep == IInv /\ (Complete \/ Throw \/ Stop \/ \E c \in Call : InputHashMismatch(c)) => IInv'
  BY SettleRunStep DEF Complete, Throw, Stop, InputHashMismatch

\* The driver answers a session that was asked for.
LEMMA SessionStep == IInv /\ (\E a \in Actor : SessionOpens(a)) => IInv'
<1> SUFFICES ASSUME IInv, NEW a \in Actor, SessionOpens(a) PROVE IInv'
  OBVIOUS
<1> USE DEF IInv, SessionOpens
<1>1. DispatchTyped'
  BY DEF Types, DispatchTyped
<1>2. JournalTyped' /\ ControlTyped' /\ AdmissionTyped' /\ SandboxTyped'
  BY TypeFrames DEF Types
<1>3. (Issuing /\ Numbered /\ Placed /\ Holding /\ Slotted /\ Phased /\ Answering /\ Fitting
        /\ Shutting /\ Served)'
  BY Frames DEF journal, events, cache, sandbox
<1> QED
  BY <1>1, <1>2, <1>3 DEF Types

Phase == {"idle", "held", "queued", "opening", "running", "answered", "aborted"}

----------------------------------------------------------------------------
(* The pump.                                                                 *)

Pumping(A, q, cur, n, ph) ==
  /\ A \subseteq Actor /\ q \in [Actor -> Seq(Call)] /\ cur \in [Actor -> Call \cup {NoCall}]
  /\ n \in Nat /\ ph \in [Call -> Phase]
  /\ Dispatching(q, cur, n, ph) /\ Pump(A, q, cur, n, ph)

\* Pumping fills free slots with the first of the waiting asks, and nothing else.
LEMMA PumpKeeps ==
  ASSUME NEW A, NEW q, NEW cur, NEW n, NEW ph, Pumping(A, q, cur, n, ph), DispatchTyped
  PROVE  /\ Dispatching(liveQueue', current', activeAsks', phase')
         /\ liveQueue' \in [Actor -> Seq(Call)] /\ current' \in [Actor -> Call \cup {NoCall}]
         /\ session' \in [Actor -> {"none", "creating", "ready", "failed"}]
         /\ activeAsks' \in 0..MaxConcurrency /\ phase' \in [Call -> Phase]
         /\ \A c \in Call : \/ phase'[c] = ph[c]
                            \/ ph[c] = "queued" /\ phase'[c] = "opening" /\ c \notin World
<1> USE DEF Pumping
<1> DEFINE picked == Picked(A, q, cur, n)
           eligible == {a \in A : cur[a] = NoCall /\ q[a] # <<>>}
           taken == {a \in Actor : cur[a] # NoCall}
<1>1. /\ current' = [a \in Actor |-> IF a \in picked THEN Head(q[a]) ELSE cur[a]]
      /\ liveQueue' = [a \in Actor |-> IF a \in picked THEN Tail(q[a]) ELSE q[a]]
      /\ activeAsks' = n + Cardinality(picked)
      /\ session' = [a \in Actor |-> IF a \in picked /\ session[a] = "none" THEN "creating" ELSE session[a]]
      /\ phase' = [c \in Call |-> IF \E a \in picked : c = Head(q[a]) THEN "opening" ELSE ph[c]]
  <2> HIDE DEF picked
  <2> QED
    BY DEF Pump, picked
<1>2. picked = {a \in eligible : n + Cardinality({b \in eligible : b < a}) < MaxConcurrency}
  BY DEF Picked
<1>3. picked \subseteq eligible /\ eligible \subseteq Actor
  BY <1>2
<1>4. IsFiniteSet(eligible) /\ IsFiniteSet(picked) /\ Cardinality(picked) \in Nat /\ IsFiniteSet(taken)
      /\ Cardinality(taken) \in Nat
  <2>1. picked \subseteq Actor /\ taken \subseteq Actor
    BY <1>3
  <2> HIDE DEF picked, eligible, taken
  <2> QED
    BY <1>3, <2>1, CallsFinite, FinitePart
<1>5. MaxConcurrency \in Nat /\ NActors \in Nat /\ n <= MaxConcurrency /\ n = Cardinality(taken)
  BY CapsAssumption, SizeAssumption DEF Dispatching
<1>6. n + Cardinality(picked) <= MaxConcurrency
  <2>1. CASE picked = {}
    <3>1. Cardinality(picked) = 0
      BY <2>1, FS_EmptySet
    <3> QED
      BY <1>5, <3>1
  <2>2. CASE picked # {}
    <3>1. picked \subseteq 0..NActors
      BY <1>3 DEF Actor
    <3>2. PICK m \in picked : \A a \in picked : a <= m
      <4> HIDE DEF picked
      <4> QED
        BY <1>5, <2>2, <3>1, GreatestNat
    <3> DEFINE B == {b \in eligible : b < m}
    <3>3. n + Cardinality(B) < MaxConcurrency
      BY <1>2, <3>2
    <3>4. picked \subseteq B \cup {m}
      <4>1. ASSUME NEW a \in picked, a # m PROVE a \in B
        <5>1. a \in eligible /\ a <= m /\ a \in 0..NActors /\ m \in 0..NActors
          BY <1>3, <3>1, <3>2
        <5> HIDE DEF picked, eligible
        <5> QED
          BY <1>5, <4>1, <5>1
      <4> HIDE DEF B, picked
      <4> QED
        BY <4>1
    <3>5. IsFiniteSet(B) /\ Cardinality(B) \in Nat
      <4>1. B \subseteq eligible
        OBVIOUS
      <4> HIDE DEF B, eligible
      <4> QED
        BY <1>4, <4>1, FinitePart
    <3> HIDE DEF B, picked, eligible, taken
    <3>6. IsFiniteSet(B \cup {m}) /\ Cardinality(B \cup {m}) <= Cardinality(B) + 1
          /\ Cardinality(B \cup {m}) \in Nat
      <4>1. IsFiniteSet(B \cup {m}) /\ (Cardinality(B \cup {m}) = Cardinality(B)
                                        \/ Cardinality(B \cup {m}) = Cardinality(B) + 1)
        BY <3>5, FS_AddElement
      <4> QED
        BY <3>5, <4>1
    <3>7. Cardinality(picked) <= Cardinality(B \cup {m})
      BY <3>4, <3>6, FinitePart
    <3> QED
      BY <1>4, <1>5, <3>3, <3>5, <3>6, <3>7
  <2> QED
    BY <2>1, <2>2
<1>7. \A a \in picked : /\ a \in Actor /\ cur[a] = NoCall /\ q[a] # <<>> /\ q[a] \in Seq(Call)
                        /\ Head(q[a]) \in Call /\ Head(q[a]) = q[a][1] /\ 1 \in DOMAIN q[a]
                        /\ Tail(q[a]) \in Seq(Call) /\ Len(q[a]) \in Nat
                        /\ \A i \in DOMAIN Tail(q[a]) : /\ i \in Nat /\ i >= 1 /\ i + 1 \in DOMAIN q[a]
                                                        /\ Tail(q[a])[i] = q[a][i + 1]
  <2>1. ASSUME NEW a \in picked
        PROVE  /\ a \in Actor /\ cur[a] = NoCall /\ q[a] # <<>> /\ q[a] \in Seq(Call)
               /\ Head(q[a]) \in Call /\ Head(q[a]) = q[a][1] /\ 1 \in DOMAIN q[a]
               /\ Tail(q[a]) \in Seq(Call) /\ Len(q[a]) \in Nat
               /\ \A i \in DOMAIN Tail(q[a]) : /\ i \in Nat /\ i >= 1 /\ i + 1 \in DOMAIN q[a]
                                               /\ Tail(q[a])[i] = q[a][i + 1]
    <3>1. a \in Actor /\ cur[a] = NoCall /\ q[a] # <<>>
      BY <1>3
    <3>2. q[a] \in Seq(Call)
      BY <3>1
    <3> DEFINE s == q[a]
    <3>3. s \in Seq(Call) /\ s # <<>>
      BY <3>1, <3>2
    <3> HIDE DEF s
    <3>4. /\ Head(s) \in Call /\ Head(s) = s[1] /\ 1 \in DOMAIN s
          /\ Tail(s) \in Seq(Call) /\ Len(s) \in Nat
          /\ \A i \in DOMAIN Tail(s) : i \in Nat /\ i >= 1 /\ i + 1 \in DOMAIN s /\ Tail(s)[i] = s[i + 1]
      BY <3>3
    <3> QED
      BY <3>1, <3>2, <3>4 DEF s
  <2> HIDE DEF picked
  <2> QED
    BY <2>1
<1>8. /\ \A a \in Actor : \A i \in DOMAIN q[a] : ActorOf[q[a][i]] = a /\ ph[q[a][i]] = "queued"
      /\ \A a \in Actor : \A i, j \in DOMAIN q[a] : q[a][i] = q[a][j] => i = j
      /\ \A a \in Actor : cur[a] # NoCall => ActorOf[cur[a]] = a /\ ph[cur[a]] \in {"opening", "running"}
      /\ \A c \in Call \ World : ph[c] \in {"opening", "running"} => cur[ActorOf[c]] = c
  BY DEF Dispatching
<1>9. \A a \in Actor : q[a] \in Seq(Call) /\ \A i \in DOMAIN q[a] : q[a][i] \in Call
  <2>1. ASSUME NEW a \in Actor PROVE q[a] \in Seq(Call) /\ \A i \in DOMAIN q[a] : q[a][i] \in Call
    <3>1. q[a] \in Seq(Call)
      OBVIOUS
    <3> QED
      BY <3>1
  <2> QED
    BY <2>1
<1> HIDE DEF picked, eligible
<1>10. \A a \in picked : ActorOf[Head(q[a])] = a /\ ph[Head(q[a])] = "queued" /\ Head(q[a]) \notin World
  BY <1>7, <1>8, Actors
<1>11. {a \in Actor : current'[a] # NoCall} = taken \cup picked /\ taken \cap picked = {}
  <2>1. ASSUME NEW a \in Actor PROVE current'[a] # NoCall <=> a \in taken \/ a \in picked
    BY <1>1, <1>7, Actors
  <2>2. \A a \in picked : a \in Actor /\ a \notin taken
    BY <1>7
  <2>3. taken \subseteq Actor
    OBVIOUS
  <2> HIDE DEF taken
  <2> QED
    BY <2>1, <2>2, <2>3
<1>12. activeAsks' = Cardinality({a \in Actor : current'[a] # NoCall})
  <2> HIDE DEF taken
  <2>1. Cardinality(taken \cap picked) = 0
    BY <1>11, FS_EmptySet
  <2>2. Cardinality(taken \cup picked) = Cardinality(taken) + Cardinality(picked)
    <3>1. Cardinality(taken \cup picked) = Cardinality(taken) + Cardinality(picked) - Cardinality(taken \cap picked)
      BY <1>4, FS_Union
    <3> QED
      BY <1>4, <2>1, <3>1
  <2> QED
    BY <1>1, <1>5, <1>11, <2>2
<1>13. activeAsks' \in 0..MaxConcurrency
  BY <1>1, <1>4, <1>5, <1>6
<1>14. \A c \in Call : /\ (\E a \in picked : c = Head(q[a])) => ph[c] = "queued" /\ phase'[c] = "opening" /\ c \notin World
                       /\ ~(\E a \in picked : c = Head(q[a])) => phase'[c] = ph[c]
  BY <1>1, <1>10
<1>15. ASSUME NEW a \in Actor, NEW i \in DOMAIN liveQueue'[a]
       PROVE  ActorOf[liveQueue'[a][i]] = a /\ phase'[liveQueue'[a][i]] = "queued"
  <2>1. CASE a \in picked
    <3>1. liveQueue'[a][i] = q[a][i + 1] /\ i + 1 \in DOMAIN q[a] /\ i \in Nat /\ i >= 1 /\ 1 \in DOMAIN q[a]
      BY <1>1, <1>7, <1>15, <2>1
    <3>2. q[a][i + 1] \in Call /\ ActorOf[q[a][i + 1]] = a /\ ph[q[a][i + 1]] = "queued" /\ q[a][i + 1] # q[a][1]
      <4>1. i + 1 # 1
        BY <3>1
      <4> QED
        BY <1>8, <1>9, <3>1, <4>1
    <3>3. ~ \E b \in picked : q[a][i + 1] = Head(q[b])
      BY <1>7, <1>10, <3>2
    <3> QED
      BY <1>14, <3>1, <3>2, <3>3
  <2>2. CASE a \notin picked
    <3>1. liveQueue'[a] = q[a]
      BY <1>1, <2>2
    <3>2. q[a][i] \in Call /\ ActorOf[q[a][i]] = a /\ ph[q[a][i]] = "queued"
      BY <1>8, <1>9, <1>15, <3>1
    <3>3. ~ \E b \in picked : q[a][i] = Head(q[b])
      BY <1>10, <2>2, <3>2
    <3> QED
      BY <1>14, <3>1, <3>2, <3>3
  <2> QED
    BY <2>1, <2>2
<1>16. ASSUME NEW a \in Actor, NEW i \in DOMAIN liveQueue'[a], NEW j \in DOMAIN liveQueue'[a],
              liveQueue'[a][i] = liveQueue'[a][j]
       PROVE  i = j
  <2>1. CASE a \in picked
    <3>1. /\ liveQueue'[a][i] = q[a][i + 1] /\ i + 1 \in DOMAIN q[a] /\ i \in Nat
          /\ liveQueue'[a][j] = q[a][j + 1] /\ j + 1 \in DOMAIN q[a] /\ j \in Nat
      BY <1>1, <1>7, <1>16, <2>1
    <3>2. q[a][i + 1] = q[a][j + 1]
      BY <1>16, <3>1
    <3>3. i + 1 = j + 1
      BY <1>8, <3>1, <3>2
    <3> QED
      BY <3>1, <3>3
  <2>2. CASE a \notin picked
    BY <1>1, <1>8, <1>16, <2>2
  <2> QED
    BY <2>1, <2>2
<1>17. ASSUME NEW a \in Actor, current'[a] # NoCall
       PROVE  ActorOf[current'[a]] = a /\ phase'[current'[a]] \in {"opening", "running"}
  <2>1. CASE a \in picked
    BY <1>1, <1>7, <1>10, <1>14, <2>1
  <2>2. CASE a \notin picked
    <3>1. current'[a] = cur[a] /\ cur[a] \in Call
      BY <1>1, <1>17, <2>2
    <3> QED
      BY <1>8, <1>14, <1>17, <3>1
  <2> QED
    BY <2>1, <2>2
<1>18. ASSUME NEW c \in Call \ World, phase'[c] \in {"opening", "running"}
       PROVE  current'[ActorOf[c]] = c
  <2>1. CASE \E a \in picked : c = Head(q[a])
    BY <1>1, <1>7, <1>10, <2>1
  <2>2. CASE ~ \E a \in picked : c = Head(q[a])
    <3>1. cur[ActorOf[c]] = c /\ ActorOf[c] \in Actor /\ c # NoCall
      BY <1>8, <1>14, <1>18, <2>2, Actors
    <3> QED
      BY <1>1, <1>7, <3>1
  <2> QED
    BY <2>1, <2>2
<1>19. Dispatching(liveQueue', current', activeAsks', phase')
  <2>1. activeAsks' <= MaxConcurrency
    BY <1>1, <1>6
  <2>2. \A a \in Actor : \A i, j \in DOMAIN liveQueue'[a] : liveQueue'[a][i] = liveQueue'[a][j] => i = j
    BY <1>16
  <2>3. \A a \in Actor : \A i \in DOMAIN liveQueue'[a] :
          ActorOf[liveQueue'[a][i]] = a /\ phase'[liveQueue'[a][i]] = "queued"
    BY <1>15
  <2>4. \A a \in Actor : current'[a] # NoCall =>
          ActorOf[current'[a]] = a /\ phase'[current'[a]] \in {"opening", "running"}
    BY <1>17
  <2>5. \A c \in Call \ World : phase'[c] \in {"opening", "running"} => current'[ActorOf[c]] = c
    BY <1>18
  <2> QED
    BY <1>12, <2>1, <2>2, <2>3, <2>4, <2>5 DEF Dispatching
<1>20. liveQueue' \in [Actor -> Seq(Call)] /\ current' \in [Actor -> Call \cup {NoCall}]
  BY <1>1, <1>7, <1>9
<1>21. session' \in [Actor -> {"none", "creating", "ready", "failed"}]
  BY <1>1 DEF DispatchTyped
<1>22. phase' \in [Call -> Phase]
  BY <1>1 DEF Phase
<1> QED
  BY <1>13, <1>14, <1>19, <1>20, <1>21, <1>22

----------------------------------------------------------------------------
(* Executing an ask.                                                         *)

\* The first ask of a session, or the next one, starts.
LEMMA DispatchStep ==
  ASSUME IInv, NEW c \in Call, Dispatch(c)
  PROVE  IInv'
<1> USE DEF IInv, Dispatch
<1>1. phase \in [Call -> Phase] /\ phase' \in [Call -> Phase]
  BY DEF Types, DispatchTyped, Phase
<1>2. \A d \in Call : (d # c => phase'[d] = phase[d]) /\ phase'[c] = "running"
  BY <1>1
<1>3. c \notin World
  BY DEF Phased
<1>4. DispatchTyped'
  BY <1>1 DEF Types, DispatchTyped, Phase
<1>5. JournalTyped' /\ ControlTyped' /\ AdmissionTyped' /\ SandboxTyped'
  <2>1. JournalTyped'
    BY DEF Types, JournalTyped, events
  <2> QED
    BY <2>1, TypeFrames DEF Types
<1>6. (Issuing /\ Numbered /\ Placed /\ Answering /\ Fitting /\ Shutting /\ Served)'
  BY Frames DEF events, cache, sandbox
<1>7. Holding'
  <2>1. \A a \in Actor : c \notin Holds(admission[a]) /\ Holds(admission[a]) \subseteq Call
    <3>1. \A a \in Actor : admission[a] \in Admission
      BY DEF Types, AdmissionTyped
    <3> QED
      BY <3>1, HeldCalls DEF Holding
  <2> QED
    BY <1>2, <2>1 DEF Holding, MadeBy
<1>8. Slotted'
  <2>1. Dispatching(liveQueue, current, activeAsks, phase)
    BY DEF Slotted
  <2>2. liveQueue \in [Actor -> Seq(Call)] /\ current \in [Actor -> Call \cup {NoCall}]
    BY DEF Types, DispatchTyped
  <2>3. \A a \in Actor : \A i \in DOMAIN liveQueue[a] : liveQueue[a][i] \in Call /\ liveQueue[a][i] # c
    <3>1. ASSUME NEW a \in Actor, NEW i \in DOMAIN liveQueue[a] PROVE liveQueue[a][i] \in Call /\ liveQueue[a][i] # c
      <4>1. liveQueue[a] \in Seq(Call)
        BY <2>2
      <4> QED
        BY <2>1, <4>1 DEF Dispatching
    <3> QED
      BY <3>1
  <2>4. Dispatching(liveQueue, current, activeAsks, phase')
    BY <1>2, <2>1, <2>2, <2>3 DEF Dispatching
  <2> QED
    BY <2>4 DEF Slotted
<1>9. Phased'
  <2>1. \A d \in Call : phase'[d] = "idle" <=> inst'[d] = 0
    BY <1>2 DEF Phased
  <2>2. \A d \in World : phase'[d] \in {"idle", "running", "answered"}
    BY <1>2, <1>3, Actors DEF Phased
  <2>3. \A d \in Made : phase'[d] \in Executed => node'[InstanceOf(d)].out = "running"
    BY <1>2 DEF Phased, Executed, Made
  <2>4. \A d \in Made : phase'[d] = "answered" => Known(node'[InstanceOf(d)])
    BY <1>2 DEF Phased, Made, Live
  <2>5. Made' = Made /\ \A d : InstanceOf(d)' = InstanceOf(d)
    BY DEF Made, InstanceOf
  <2> QED
    BY <2>1, <2>2, <2>3, <2>4, <2>5 DEF Phased
<1> QED
  BY <1>4, <1>5, <1>6, <1>7, <1>8, <1>9 DEF Types

\* A repair or a nudge costs one of its budget.
LEMMA RetryStep ==
  ASSUME IInv, NEW c \in Call, Retry(c),
         repairs' \in [Call -> 0..RepairAttempts], nudges' \in [Call -> 0..NudgeAttempts]
  PROVE  IInv'
<1> USE DEF IInv, Retry
<1>1. DispatchTyped'
  BY DEF Types, DispatchTyped
<1>2. JournalTyped' /\ ControlTyped' /\ AdmissionTyped' /\ SandboxTyped'
  <2>1. JournalTyped'
    BY DEF Types, JournalTyped, events
  <2> QED
    BY <2>1, TypeFrames DEF Types
<1>3. (Issuing /\ Numbered /\ Placed /\ Holding /\ Slotted /\ Phased /\ Answering /\ Fitting
        /\ Shutting /\ Served)'
  BY Frames DEF events, cache, sandbox
<1> QED
  BY <1>1, <1>2, <1>3 DEF Types

\* The first change of the workspace closes the import.
LEMMA MutatingStep ==
  ASSUME IInv, NEW c \in Call, Mutating(c)
  PROVE  IInv'
<1> USE DEF IInv, Mutating
<1>1. AdmissionTyped' /\ JournalTyped'
  BY DEF Types, AdmissionTyped, JournalTyped
<1>2. DispatchTyped' /\ ControlTyped' /\ SandboxTyped'
  BY TypeFrames DEF Types
<1>3. (Issuing /\ Numbered /\ Placed /\ Holding /\ Slotted /\ Phased /\ Answering /\ Fitting /\ Served)'
  BY Frames DEF sandbox
<1>4. Shutting'
  BY DEF Shutting
<1> QED
  BY <1>1, <1>2, <1>3, <1>4 DEF Types

----------------------------------------------------------------------------
(* A row that ends.                                                          *)

Ends(c, out) ==
  /\ c \in Made /\ out \in Outcome /\ node[InstanceOf(c)].out = "running"
  /\ node' = [node EXCEPT ![InstanceOf(c)].out = out]
  /\ UNCHANGED <<inst, seen>>

\* It keeps all but its outcome, and the other rows stay as they are.
LEMMA RowEnds ==
  ASSUME IInv, NEW c, NEW out, Ends(c, out)
  PROVE  /\ node' \in [Instance -> Row \cup {Absent}]
         /\ \A i \in Instance : Known(node[i]) => node'[i] = node[i]
         /\ \A i \in Instance : /\ node'[i].actor = node[i].actor /\ node'[i].seq = node[i].seq
                                /\ node'[i].input = node[i].input
                                /\ node'[i].out = "absent" <=> node[i].out = "absent"
         /\ \A d \in Made : d # c => node'[InstanceOf(d)] = node[InstanceOf(d)]
         /\ node'[InstanceOf(c)].out = out
         /\ Placed' /\ Fitting'
<1> USE DEF IInv, Ends
<1>0. AdmissionTyped /\ JournalTyped /\ Numbered
  BY DEF Types
<1>1. InstanceOf(c) \in Instance /\ \A d \in Made : d # c => InstanceOf(d) \in Instance /\ InstanceOf(d) # InstanceOf(c)
  BY <1>0, Instances
<1>2. node \in [Instance -> Row \cup {Absent}]
  BY <1>0 DEF JournalTyped
<1> DEFINE i0 == InstanceOf(c)
           r == node[i0]
<1>3. r \in Row
  <2>1. "running" # "absent"
    OBVIOUS
  <2> QED
    BY <1>0, <1>1, Rows
<1>4. /\ node'[i0] = [r EXCEPT !.out = out]
      /\ \A i \in Instance : i # i0 => node'[i] = node[i]
      /\ node' = [i \in Instance |-> node'[i]]
  BY <1>1, <1>2
<1>5. [r EXCEPT !.out = out] \in Row /\ [r EXCEPT !.out = out].out = out
      /\ [r EXCEPT !.out = out].actor = r.actor /\ [r EXCEPT !.out = out].seq = r.seq
      /\ [r EXCEPT !.out = out].input = r.input
  <2> HIDE DEF r
  <2> QED
    BY <1>3 DEF Row
<1>6. ~Known(r)
  BY Outcomes DEF Known
<1>7. out # "absent" /\ r.out # "absent"
  BY Outcomes
<1> HIDE DEF i0, r
<1>8. node' \in [Instance -> Row \cup {Absent}]
  <2>1. \A i \in Instance : node'[i] \in Row \cup {Absent}
    BY <1>2, <1>4, <1>5
  <2> QED
    BY <1>4, <2>1
<1>9. \A i \in Instance : Known(node[i]) => node'[i] = node[i]
  BY <1>4, <1>6 DEF r
<1>10. \A i \in Instance : /\ node'[i].actor = node[i].actor /\ node'[i].seq = node[i].seq
                           /\ node'[i].input = node[i].input
                           /\ node'[i].out = "absent" <=> node[i].out = "absent"
  <2>1. ASSUME NEW i \in Instance
        PROVE  /\ node'[i].actor = node[i].actor /\ node'[i].seq = node[i].seq
               /\ node'[i].input = node[i].input
               /\ node'[i].out = "absent" <=> node[i].out = "absent"
    <3>1. CASE i = i0
      BY <1>4, <1>5, <1>7, <3>1 DEF r
    <3>2. CASE i # i0
      BY <1>4, <3>2
    <3> QED
      BY <3>1, <3>2
  <2> QED
    BY <2>1
<1>11. \A d \in Made : d # c => node'[InstanceOf(d)] = node[InstanceOf(d)]
  BY <1>1, <1>4 DEF i0
<1>12. node'[InstanceOf(c)].out = out
  BY <1>4, <1>5 DEF i0
<1>13. Placed'
  <2>1. \A i \in Instance : Asked(i) => Asked(i)'
    BY <1>10 DEF Asked
  <2> QED
    BY <1>10, <2>1 DEF Placed
<1>14. Fitting'
  <2>1. Made' = Made /\ inst' = inst
    BY DEF Made
  <2>2. ASSUME NEW d \in Made PROVE Matches(d, inst[d])'
    <3>1. <<SiteOf[d], inst[d]>> \in Instance /\ InstanceOf(d) = <<SiteOf[d], inst[d]>>
      BY <1>0, Instances DEF InstanceOf
    <3> QED
      BY <1>10, <2>1, <3>1 DEF Fitting, Matches, RowOf
  <2> QED
    BY <2>1, <2>2 DEF Fitting
<1> QED
  BY <1>8, <1>9, <1>10, <1>11, <1>12, <1>13, <1>14

\* What is on its way to the script.
LEMMA Messages ==
  ASSUME SandboxTyped
  PROVE  /\ \A j \in DOMAIN down : down[j].call \in Call /\ down[j].out \in Outcome
         /\ \A j \in DOMAIN down : down[j] \in [call : Call, out : Outcome]
<1> DEFINE R == [call : Call, out : Outcome]
<1>1. down \in Seq(R)
  BY DEF SandboxTyped
<1> HIDE DEF R
<1>2. \A j \in DOMAIN down : down[j] \in R
  BY <1>1
<1> QED
  BY <1>2 DEF R

\* What the script was and is told stays true while answered rows stay as they are.
LEMMA AnswersHold ==
  ASSUME IInv, \A i \in Instance : Known(node[i]) => node'[i] = node[i],
         \A d \in Made : inst'[d] = inst[d], UNCHANGED seen,
         \A i \in DOMAIN down' :
           \/ \E j \in DOMAIN down : down'[i] = down[j]
           \/ /\ inst'[down'[i].call] # 0
              /\ node'[<<SiteOf[down'[i].call], inst'[down'[i].call]>>].out = down'[i].out
  PROVE  Answering'
<1> USE DEF IInv
<1>0. AdmissionTyped /\ Numbered /\ SandboxTyped
  BY DEF Types
<1>1. ASSUME NEW d \in Call, NEW out \in Outcome, inst[d] # 0, node[InstanceOf(d)].out = out
      PROVE  inst'[d] # 0 /\ node'[<<SiteOf[d], inst'[d]>>].out = out
  <2>1. d \in Made /\ InstanceOf(d) \in Instance
    BY <1>0, <1>1, Instances DEF Made
  <2>2. inst'[d] = inst[d] /\ <<SiteOf[d], inst'[d]>> = InstanceOf(d)
    BY <2>1 DEF InstanceOf
  <2> QED
    BY <1>1, <2>1, <2>2 DEF Known
<1>2. \A j \in DOMAIN down : down[j].call \in Call /\ down[j].out \in Outcome
  BY <1>0, Messages
<1>3. \A i \in DOMAIN down' : /\ inst'[down'[i].call] # 0
                              /\ node'[<<SiteOf[down'[i].call], inst'[down'[i].call]>>].out = down'[i].out
  <2>1. ASSUME NEW j \in DOMAIN down
        PROVE  inst'[down[j].call] # 0 /\ node'[<<SiteOf[down[j].call], inst'[down[j].call]>>].out = down[j].out
    <3>1. inst[down[j].call] # 0 /\ node[InstanceOf(down[j].call)].out = down[j].out
      BY DEF Answering
    <3> QED
      BY <1>1, <1>2, <3>1
  <2> QED
    BY <2>1
<1>4. \A d \in Call : seen'[d] # None => inst'[d] # 0 /\ node'[<<SiteOf[d], inst'[d]>>].out = seen'[d]
  <2>1. \A d \in Call : seen[d] # None => seen[d] \in Outcome
    BY <1>0 DEF SandboxTyped
  <2> QED
    BY <1>1, <2>1 DEF Answering
<1> QED
  BY <1>3, <1>4 DEF Answering, InstanceOf

\* The pump that follows the end of an ask: its slot is free.
LEMMA SettlePump ==
  ASSUME IInv, NEW c \in Call \ World, Live, phase[c] \in {"opening", "running"},
         NEW out \in Outcome, SettleAsk(c, out)
  PROVE  Pumping(Actor, liveQueue, [current EXCEPT ![ActorOf[c]] = NoCall], activeAsks - 1,
                 [phase EXCEPT ![c] = "answered"])
<1> USE DEF IInv, SettleAsk
<1> DEFINE a0 == ActorOf[c]
           cur == [current EXCEPT ![a0] = NoCall]
           ph == [phase EXCEPT ![c] = "answered"]
           taken == {a \in Actor : current[a] # NoCall}
<1>0. AdmissionTyped /\ JournalTyped /\ DispatchTyped /\ SandboxTyped
  BY DEF Types
<1>1. a0 \in Actor /\ c \in Made /\ current[a0] = c /\ c # NoCall /\ node[InstanceOf(c)].out = "running"
      /\ Dispatching(liveQueue, current, activeAsks, phase)
  <2>1. c \in Made
    BY DEF Phased, Made
  <2> QED
    BY <2>1, Actors DEF Phased, Executed, Slotted, Dispatching
<1>2. phase \in [Call -> Phase] /\ current \in [Actor -> Call \cup {NoCall}] /\ liveQueue \in [Actor -> Seq(Call)]
      /\ activeAsks \in Nat
  BY <1>0, CapsAssumption DEF DispatchTyped, Phase
<1>4. Dispatching(liveQueue, cur, activeAsks - 1, ph) /\ activeAsks - 1 \in Nat
  <2>1. {a \in Actor : cur[a] # NoCall} = taken \ {a0} /\ a0 \in taken
    BY <1>1, <1>2
  <2>2. IsFiniteSet(taken) /\ Cardinality(taken) \in Nat /\ activeAsks = Cardinality(taken)
    <3>1. taken \subseteq Actor
      OBVIOUS
    <3>2. activeAsks = Cardinality(taken)
      BY <1>1 DEF Dispatching
    <3> HIDE DEF taken
    <3> QED
      BY <3>1, <3>2, CallsFinite, FinitePart
  <2> HIDE DEF taken
  <2>3. Cardinality(taken \ {a0}) = activeAsks - 1
    BY <2>1, <2>2, FS_RemoveElement
  <2>4. taken # {} /\ Cardinality(taken) # 0
    BY <2>1, <2>2, FS_EmptySet
  <2>5. activeAsks - 1 \in Nat /\ activeAsks - 1 <= MaxConcurrency
    BY <1>1, <2>2, <2>4, CapsAssumption DEF Dispatching
  <2>6. \A a \in Actor : \A i \in DOMAIN liveQueue[a] :
          /\ liveQueue[a][i] \in Call /\ ActorOf[liveQueue[a][i]] = a
          /\ phase[liveQueue[a][i]] = "queued" /\ ph[liveQueue[a][i]] = "queued"
    <3>1. ASSUME NEW a \in Actor, NEW i \in DOMAIN liveQueue[a]
          PROVE /\ liveQueue[a][i] \in Call /\ ActorOf[liveQueue[a][i]] = a
                /\ phase[liveQueue[a][i]] = "queued" /\ ph[liveQueue[a][i]] = "queued"
      <4>1. liveQueue[a] \in Seq(Call)
        BY <1>2
      <4>2. liveQueue[a][i] \in Call
        BY <4>1
      <4> QED
        BY <1>1, <1>2, <4>2 DEF Dispatching
    <3> QED
      BY <3>1
  <2>7. \A a \in Actor : cur[a] # NoCall => ActorOf[cur[a]] = a /\ ph[cur[a]] \in {"opening", "running"}
    <3>1. ASSUME NEW a \in Actor, cur[a] # NoCall
          PROVE  ActorOf[cur[a]] = a /\ ph[cur[a]] \in {"opening", "running"}
      <4>1. a # a0 /\ cur[a] = current[a] /\ current[a] \in Call
        BY <1>1, <1>2, <3>1
      <4>2. ActorOf[current[a]] = a /\ phase[current[a]] \in {"opening", "running"} /\ current[a] # c
        BY <1>1, <4>1, <3>1 DEF Dispatching
      <4> QED
        BY <1>2, <4>1, <4>2
    <3> QED
      BY <3>1
  <2>8. \A d \in Call \ World : ph[d] \in {"opening", "running"} => cur[ActorOf[d]] = d
    <3>1. ASSUME NEW d \in Call \ World, ph[d] \in {"opening", "running"} PROVE cur[ActorOf[d]] = d
      <4>1. d # c /\ phase[d] \in {"opening", "running"}
        BY <1>2, <3>1
      <4>2. current[ActorOf[d]] = d /\ ActorOf[d] \in Actor
        BY <1>1, <4>1, Actors DEF Dispatching
      <4> QED
        BY <1>1, <1>2, <4>1, <4>2
    <3> QED
      BY <3>1
  <2>9. \A a \in Actor : \A i, j \in DOMAIN liveQueue[a] : liveQueue[a][i] = liveQueue[a][j] => i = j
    BY <1>1 DEF Dispatching
  <2> HIDE DEF cur, ph, a0
  <2> QED
    BY <2>1, <2>3, <2>5, <2>6, <2>7, <2>8, <2>9 DEF Dispatching
<1>5. cur \in [Actor -> Call \cup {NoCall}] /\ ph \in [Call -> Phase]
  BY <1>1, <1>2 DEF Phase
<1>6. Pumping(Actor, liveQueue, cur, activeAsks - 1, ph)
  <2> DEFINE n == activeAsks - 1
  <2>1. Pump(Actor, liveQueue, cur, n, ph)
    OBVIOUS
  <2>2. Dispatching(liveQueue, cur, n, ph) /\ n \in Nat
    BY <1>4
  <2> HIDE DEF cur, ph, n, SettleAsk, IInv
  <2>3. Pumping(Actor, liveQueue, cur, n, ph)
    BY <1>2, <1>5, <2>1, <2>2 DEF Pumping
  <2> QED
    BY <2>3 DEF n
<1> QED
  BY <1>6

\* settleOk and settleFailed.
LEMMA SettleStep ==
  ASSUME IInv, NEW c \in Call \ World, Live, phase[c] \in {"opening", "running"},
         NEW out \in Outcome, SettleAsk(c, out)
  PROVE  IInv'
<1> USE DEF IInv, SettleAsk
<1> DEFINE a0 == ActorOf[c]
           cur == [current EXCEPT ![a0] = NoCall]
           ph == [phase EXCEPT ![c] = "answered"]
           taken == {a \in Actor : current[a] # NoCall}
<1>0. AdmissionTyped /\ JournalTyped /\ DispatchTyped /\ SandboxTyped
  BY DEF Types
<1>1. a0 \in Actor /\ c \in Made /\ current[a0] = c /\ c # NoCall /\ node[InstanceOf(c)].out = "running"
      /\ Dispatching(liveQueue, current, activeAsks, phase)
  <2>1. c \in Made
    BY DEF Phased, Made
  <2> QED
    BY <2>1, Actors DEF Phased, Executed, Slotted, Dispatching
<1>2. phase \in [Call -> Phase] /\ current \in [Actor -> Call \cup {NoCall}] /\ liveQueue \in [Actor -> Seq(Call)]
      /\ activeAsks \in Nat
  BY <1>0, CapsAssumption DEF DispatchTyped, Phase
<1>3. Ends(c, out)
  BY <1>1 DEF Ends
<1>6. /\ Dispatching(liveQueue', current', activeAsks', phase')
      /\ liveQueue' \in [Actor -> Seq(Call)] /\ current' \in [Actor -> Call \cup {NoCall}]
      /\ session' \in [Actor -> {"none", "creating", "ready", "failed"}]
      /\ activeAsks' \in 0..MaxConcurrency /\ phase' \in [Call -> Phase]
      /\ \A d \in Call : \/ phase'[d] = ph[d]
                         \/ ph[d] = "queued" /\ phase'[d] = "opening" /\ d \notin World
  <2> HIDE DEF SettleAsk, IInv
  <2>1. Pumping(Actor, liveQueue, cur, activeAsks - 1, ph)
    BY SettlePump
  <2> HIDE DEF cur, ph
  <2> QED
    BY <1>0, <2>1, PumpKeeps
<1>7. /\ phase'[c] = "answered"
      /\ \A d \in Call : d # c => \/ phase'[d] = phase[d]
                                  \/ phase[d] = "queued" /\ phase'[d] = "opening" /\ d \notin World
  BY <1>2, <1>6
<1> HIDE DEF cur, ph, taken
<1>8. JournalTyped'
  BY <1>0, <1>3, RowEnds DEF JournalTyped, events
<1>9. DispatchTyped'
  BY <1>0, <1>6 DEF DispatchTyped, Phase
<1>10. SandboxTyped'
  <2>1. Answer(c, out) \in [call : Call, out : Outcome]
    BY DEF Answer
  <2>2. down' \in Seq([call : Call, out : Outcome])
    <3> DEFINE R == [call : Call, out : Outcome]
    <3>1. down \in Seq(R) /\ Answer(c, out) \in R
      BY <1>0, <2>1 DEF SandboxTyped
    <3> HIDE DEF R
    <3>2. down' \in Seq(R)
      BY <3>1
    <3> QED
      BY <3>2 DEF R
  <2> QED
    BY <1>0, <2>2 DEF SandboxTyped
<1>11. ControlTyped' /\ AdmissionTyped'
  BY TypeFrames DEF Types
<1>12. Placed' /\ Fitting'
  BY <1>3, RowEnds
<1>13. (Issuing /\ Numbered /\ Shutting /\ Served)'
  BY Frames DEF events, cache
<1>14. Holding'
  <2>1. \A a \in Actor : \A d \in Holds(admission[a]) : d \in Call /\ phase'[d] = "held"
    <3>1. ASSUME NEW a \in Actor, NEW d \in Holds(admission[a]) PROVE d \in Call /\ phase'[d] = "held"
      <4>1. admission[a] \in Admission
        BY <1>0 DEF AdmissionTyped
      <4>2. d \in Call /\ phase[d] = "held" /\ d # c
        BY <4>1, HeldCalls DEF Holding
      <4> QED
        BY <1>7, <4>2
    <3> QED
      BY <3>1
  <2> QED
    BY <2>1 DEF Holding, MadeBy
<1>15. Slotted'
  BY <1>6 DEF Slotted, Live
<1>16. Phased'
  <2>1. \A d \in Call : phase'[d] = "idle" <=> inst'[d] = 0
    BY <1>1, <1>7 DEF Phased, Made
  <2>2. \A d \in World : phase'[d] \in {"idle", "running", "answered"}
    BY <1>7, Actors DEF Phased
  <2>3. \A d \in Made : phase'[d] \in Executed => node'[InstanceOf(d)].out = "running"
    <3>1. ASSUME NEW d \in Made, phase'[d] \in Executed PROVE node'[InstanceOf(d)].out = "running"
      <4>1. d # c /\ phase[d] \in Executed
        BY <1>7, <3>1 DEF Executed, Made
      <4>2. node'[InstanceOf(d)] = node[InstanceOf(d)]
        BY <1>3, <4>1, RowEnds
      <4> QED
        BY <4>1, <4>2 DEF Phased
    <3> QED
      BY <3>1
  <2>4. \A d \in Made : phase'[d] = "answered" => Known(node'[InstanceOf(d)])
    <3>1. ASSUME NEW d \in Made, phase'[d] = "answered" PROVE Known(node'[InstanceOf(d)])
      <4>1. CASE d = c
        BY <1>3, <4>1, RowEnds DEF Known
      <4>2. CASE d # c
        <5>1. phase[d] = "answered"
          BY <1>7, <3>1, <4>2 DEF Made
        <5> QED
          BY <1>3, <4>2, <5>1, RowEnds DEF Phased
      <4> QED
        BY <4>1, <4>2
    <3> QED
      BY <3>1
  <2>5. Made' = Made /\ \A d : InstanceOf(d)' = InstanceOf(d)
    BY DEF Made, InstanceOf
  <2> QED
    BY <2>1, <2>2, <2>3, <2>4, <2>5 DEF Phased
<1>17. Answering'
  <2>1. \A i \in Instance : Known(node[i]) => node'[i] = node[i]
    BY <1>3, RowEnds
  <2>2. \A i \in DOMAIN down' :
           \/ \E j \in DOMAIN down : down'[i] = down[j]
           \/ /\ inst'[down'[i].call] # 0
              /\ node'[<<SiteOf[down'[i].call], inst'[down'[i].call]>>].out = down'[i].out
    <3>1. node'[<<SiteOf[c], inst[c]>>].out = out /\ inst[c] # 0
      BY <1>1, <1>3, RowEnds DEF InstanceOf, Made
    <3>2. \A i \in DOMAIN down' : down'[i] = Answer(c, out) \/ \E j \in DOMAIN down : down'[i] = down[j]
      <4> DEFINE R == [call : Call, out : Outcome]
                 m == Answer(c, out)
      <4>1. down \in Seq(R) /\ down' = Append(down, m)
        BY <1>0 DEF SandboxTyped
      <4> HIDE DEF R, m
      <4>2. \A i \in DOMAIN down' : down'[i] = m \/ \E j \in DOMAIN down : down'[i] = down[j]
        BY <4>1
      <4> QED
        BY <4>2 DEF m
    <3>3. Answer(c, out).call = c /\ Answer(c, out).out = out
      BY DEF Answer
    <3> QED
      BY <3>1, <3>2, <3>3
  <2> QED
    BY <2>1, <2>2, AnswersHold
<1> QED
  BY <1>8, <1>9, <1>10, <1>11, <1>12, <1>13, <1>14, <1>15, <1>16, <1>17 DEF Types

\* The ends of an ask: the driver's reports, and a session that could not be opened.
LEMMA AskEndsStep ==
  ASSUME IInv, NEW c \in Call, OpenFails(c) \/ Accept(c) \/ Repair(c) \/ Nudge(c) \/ AskFailed(c)
  PROVE  IInv'
<1>1. ASSUME NEW out \in Outcome, SettleAsk(c, out), Live, c \notin World, phase[c] \in {"opening", "running"}
      PROVE  IInv'
  BY <1>1, SettleStep
<1>2. CASE OpenFails(c)
  <2>1. c \notin World
    BY <1>2 DEF OpenFails, IInv, Phased
  <2> QED
    BY <1>1, <1>2, <2>1, Outcomes DEF OpenFails
<1>3. CASE Accept(c)
  BY <1>1, <1>3, Outcomes DEF Accept, Executing
<1>4. CASE AskFailed(c)
  BY <1>1, <1>4, Outcomes DEF AskFailed, Executing
<1>5. CASE Repair(c)
  <2>1. CASE repairs[c] > 0 /\ repairs' = [repairs EXCEPT ![c] = @ - 1] /\ Retry(c) /\ UNCHANGED nudges
    <3>1. repairs' \in [Call -> 0..RepairAttempts] /\ nudges' \in [Call -> 0..NudgeAttempts]
      BY <2>1, CapsAssumption DEF IInv, Types, DispatchTyped
    <3> QED
      BY <2>1, <3>1, RetryStep
  <2>2. CASE SettleAsk(c, Failure)
    BY <1>1, <1>5, <2>2, Outcomes DEF Repair, Executing
  <2> QED
    BY <1>5, <2>1, <2>2 DEF Repair
<1>6. CASE Nudge(c)
  <2>1. CASE nudges[c] > 0 /\ nudges' = [nudges EXCEPT ![c] = @ - 1] /\ Retry(c) /\ UNCHANGED repairs
    <3>1. repairs' \in [Call -> 0..RepairAttempts] /\ nudges' \in [Call -> 0..NudgeAttempts]
      BY <2>1, CapsAssumption DEF IInv, Types, DispatchTyped
    <3> QED
      BY <2>1, <3>1, RetryStep
  <2>2. CASE SettleAsk(c, Failure)
    BY <1>1, <1>6, <2>2, Outcomes DEF Nudge, Executing
  <2> QED
    BY <1>6, <2>1, <2>2 DEF Nudge
<1> QED
  BY <1>2, <1>3, <1>4, <1>5, <1>6

----------------------------------------------------------------------------
(* World operations.                                                         *)

\* A world operation takes no slot and is held by no admission.
LEMMA WorldPhase ==
  ASSUME IInv, NEW c \in World, NEW p \in {"running", "answered"}, phase' = [phase EXCEPT ![c] = p],
         UNCHANGED <<mode, liveQueue, current, activeAsks, admission>>,
         \A a \in Actor : MadeBy(a)' = MadeBy(a)
  PROVE  /\ Slotted' /\ Holding' /\ phase' \in [Call -> Phase]
         /\ phase'[c] = p /\ \A d \in Call : d # c => phase'[d] = phase[d]
<1> USE DEF IInv
<1>0. AdmissionTyped /\ DispatchTyped /\ c \in Call /\ ActorOf[c] \notin Actor
  BY Actors DEF Types
<1>1. phase \in [Call -> Phase]
  BY <1>0 DEF DispatchTyped, Phase
<1>2. phase'[c] = p /\ (\A d \in Call : d # c => phase'[d] = phase[d]) /\ phase' \in [Call -> Phase]
  BY <1>0, <1>1 DEF Phase
<1>3. Holding'
  <2>1. \A a \in Actor : \A d \in Holds(admission[a]) : phase'[d] = "held" /\ ActorOf[d] = a
    <3>1. ASSUME NEW a \in Actor, NEW d \in Holds(admission[a]) PROVE phase'[d] = "held" /\ ActorOf[d] = a
      <4>1. admission[a] \in Admission
        BY <1>0 DEF AdmissionTyped
      <4>2. d \in Call /\ phase[d] = "held" /\ ActorOf[d] = a
        BY <4>1, HeldCalls DEF Holding
      <4> QED
        BY <1>0, <1>2, <4>2
    <3> QED
      BY <3>1
  <2> QED
    BY <2>1 DEF Holding
<1>4. Slotted'
  <2> SUFFICES ASSUME Live PROVE Dispatching(liveQueue, current, activeAsks, phase')
    BY DEF Slotted, Live
  <2>1. Dispatching(liveQueue, current, activeAsks, phase)
    BY DEF Slotted
  <2>2. \A a \in Actor : \A i \in DOMAIN liveQueue[a] :
          ActorOf[liveQueue[a][i]] = a /\ phase'[liveQueue[a][i]] = "queued"
    <3>1. ASSUME NEW a \in Actor, NEW i \in DOMAIN liveQueue[a]
          PROVE  ActorOf[liveQueue[a][i]] = a /\ phase'[liveQueue[a][i]] = "queued"
      <4>1. liveQueue[a] \in Seq(Call)
        BY <1>0 DEF DispatchTyped
      <4>2. liveQueue[a][i] \in Call
        BY <4>1
      <4> QED
        BY <1>0, <1>2, <2>1, <4>2 DEF Dispatching
    <3> QED
      BY <3>1
  <2>3. \A a \in Actor : current[a] # NoCall =>
          ActorOf[current[a]] = a /\ phase'[current[a]] \in {"opening", "running"}
    <3>1. \A a \in Actor : current[a] \in Call \cup {NoCall}
      BY <1>0 DEF DispatchTyped
    <3> QED
      BY <1>0, <1>2, <2>1, <3>1 DEF Dispatching
  <2>4. \A d \in Call \ World : phase'[d] \in {"opening", "running"} => current[ActorOf[d]] = d
    BY <1>2, <2>1 DEF Dispatching
  <2> QED
    BY <2>1, <2>2, <2>3, <2>4 DEF Dispatching
<1> QED
  BY <1>2, <1>3, <1>4

\* A world operation ends, in its run or after it.
LEMMA WorldSettlesStep ==
  ASSUME IInv, NEW c \in Call, WorldSettles(c)
  PROVE  IInv'
<1> USE DEF IInv, WorldSettles
<1>0. AdmissionTyped /\ JournalTyped /\ DispatchTyped /\ SandboxTyped /\ Numbered
  BY DEF Types
<1>1. c \in Made /\ c \in World /\ node[InstanceOf(c)].out = "running"
  <2>1. c \in Made
    BY DEF Phased, Made
  <2> QED
    BY <2>1 DEF Phased, Executed
<1>2. /\ Slotted' /\ Holding' /\ phase' \in [Call -> Phase]
      /\ phase'[c] = "answered" /\ \A d \in Call : d # c => phase'[d] = phase[d]
  <2>1. \A a \in Actor : MadeBy(a)' = MadeBy(a)
    BY DEF MadeBy
  <2> QED
    BY <1>1, <2>1, WorldPhase
<1>3. DispatchTyped'
  BY <1>0, <1>2 DEF DispatchTyped, Phase
<1>4. ControlTyped' /\ AdmissionTyped'
  BY TypeFrames DEF Types
<1>5. (Issuing /\ Numbered /\ Shutting /\ Served)'
  BY Frames DEF events, cache
<1>6. Made' = Made /\ \A d : InstanceOf(d)' = InstanceOf(d)
  BY DEF Made, InstanceOf
<1>7. /\ \A d \in Call : phase'[d] = "idle" <=> inst'[d] = 0
      /\ \A d \in World : phase'[d] \in {"idle", "running", "answered"}
  BY <1>1, <1>2, Actors DEF Phased, Made
<1>8. CASE ~Live /\ UNCHANGED <<node, down, lastEvent>>
  <2>1. JournalTyped' /\ SandboxTyped'
    BY <1>0, <1>8 DEF JournalTyped, SandboxTyped, events
  <2>2. (Placed /\ Answering /\ Fitting)'
    BY <1>8, Frames
  <2>3. Phased'
    <3>1. ~Live'
      BY <1>8 DEF Live
    <3>2. \A d \in Made : phase'[d] \in Executed => node'[InstanceOf(d)].out = "running"
      BY <1>2, <1>8 DEF Phased, Executed, Made
    <3> QED
      BY <1>6, <1>7, <3>1, <3>2 DEF Phased
  <2> QED
    BY <1>2, <1>3, <1>4, <1>5, <2>1, <2>2, <2>3 DEF Types
<1>9. CASE /\ Live
           /\ \E out \in Outcome :
             /\ node' = [node EXCEPT ![InstanceOf(c)].out = out]
             /\ down' = Append(down, Answer(c, out))
           /\ lastEvent' = "other"
  <2>1. PICK out \in Outcome : /\ node' = [node EXCEPT ![InstanceOf(c)].out = out]
                               /\ down' = Append(down, Answer(c, out))
    BY <1>9
  <2>2. Ends(c, out)
    BY <1>1, <2>1 DEF Ends
  <2>3. JournalTyped'
    BY <1>0, <1>9, <2>2, RowEnds DEF JournalTyped, events
  <2>4. Answer(c, out) \in [call : Call, out : Outcome] /\ Answer(c, out).call = c /\ Answer(c, out).out = out
    BY <2>1 DEF Answer
  <2>5. /\ down' \in Seq([call : Call, out : Outcome])
        /\ \A i \in DOMAIN down' : down'[i] = Answer(c, out) \/ \E j \in DOMAIN down : down'[i] = down[j]
    <3> DEFINE R == [call : Call, out : Outcome]
               m == Answer(c, out)
    <3>1. down \in Seq(R) /\ m \in R /\ down' = Append(down, m)
      BY <1>0, <2>1, <2>4 DEF SandboxTyped
    <3> HIDE DEF R, m
    <3>2. down' \in Seq(R) /\ \A i \in DOMAIN down' : down'[i] = m \/ \E j \in DOMAIN down : down'[i] = down[j]
      BY <3>1
    <3> QED
      BY <3>2 DEF R, m
  <2>6. SandboxTyped'
    BY <1>0, <2>5 DEF SandboxTyped
  <2>7. Placed' /\ Fitting'
    BY <2>2, RowEnds
  <2>8. Answering'
    <3>1. node'[<<SiteOf[c], inst[c]>>].out = out /\ inst[c] # 0
      BY <1>1, <2>2, RowEnds DEF InstanceOf, Made
    <3>2. \A i \in DOMAIN down' :
            \/ \E j \in DOMAIN down : down'[i] = down[j]
            \/ /\ inst'[down'[i].call] # 0
               /\ node'[<<SiteOf[down'[i].call], inst'[down'[i].call]>>].out = down'[i].out
      BY <2>4, <2>5, <3>1
    <3>3. \A i \in Instance : Known(node[i]) => node'[i] = node[i]
      BY <2>2, RowEnds
    <3> QED
      BY <3>2, <3>3, AnswersHold
  <2>9. Phased'
    <3>1. \A d \in Made : phase'[d] \in Executed => node'[InstanceOf(d)].out = "running"
      <4>1. ASSUME NEW d \in Made, phase'[d] \in Executed PROVE node'[InstanceOf(d)].out = "running"
        <5>1. d # c /\ phase[d] \in Executed
          BY <1>2, <4>1 DEF Executed, Made
        <5>2. node'[InstanceOf(d)] = node[InstanceOf(d)]
          BY <2>2, <5>1, RowEnds
        <5> QED
          BY <5>1, <5>2 DEF Phased
      <4> QED
        BY <4>1
    <3>2. \A d \in Made : phase'[d] = "answered" => Known(node'[InstanceOf(d)])
      <4>1. ASSUME NEW d \in Made, phase'[d] = "answered" PROVE Known(node'[InstanceOf(d)])
        <5>1. CASE d = c
          BY <2>2, <5>1, RowEnds DEF Known
        <5>2. CASE d # c
          <6>1. phase[d] = "answered" /\ node'[InstanceOf(d)] = node[InstanceOf(d)]
            BY <1>2, <2>2, <4>1, <5>2, RowEnds DEF Made
          <6> QED
            BY <1>9, <6>1 DEF Phased
        <5> QED
          BY <5>1, <5>2
      <4> QED
        BY <4>1
    <3> QED
      BY <1>6, <1>7, <3>1, <3>2 DEF Phased
  <2> QED
    BY <1>2, <1>3, <1>4, <1>5, <2>3, <2>6, <2>7, <2>8, <2>9 DEF Types
<1> QED
  BY <1>8, <1>9

----------------------------------------------------------------------------
(* A call reaches the engine.                                                *)

\* It has no ordinal yet, and the next one of its site is free.
LEMMA NextFacts ==
  ASSUME IInv, NEW c \in Call, NextCall(c), NEW o, o = ordinal[SiteOf[c]] + 1
  PROVE  /\ inst[c] = 0 /\ phase[c] = "idle" /\ Awaited(seen, c) /\ c \notin Made
         /\ o \in 1..NCalls /\ o <= Cardinality(At(SiteOf[c])) /\ <<SiteOf[c], o>> \in Instance
         /\ \A d \in Made : d # c /\ InstanceOf(d) # <<SiteOf[c], o>>
         /\ IsFiniteSet(Made) /\ Cardinality(Made) \in Nat /\ Cardinality(Made) + 1 <= NCalls
         /\ \A a : IsFiniteSet(MadeBy(a)) /\ Cardinality(MadeBy(a)) \in Nat
         /\ Cardinality(MadeBy(ActorOf[c])) + 1 <= NCalls
<1> USE DEF IInv
<1>0. AdmissionTyped /\ SandboxTyped /\ Numbered
  BY DEF Types
<1>1. up \in Seq(Call) /\ up # <<>> /\ c = Head(up)
  BY <1>0 DEF SandboxTyped, NextCall
<1>2. 1 \in DOMAIN up /\ c = up[1]
  BY <1>1
<1>3. inst[c] = 0 /\ Awaited(seen, c) /\ phase[c] = "idle" /\ c \notin Made
  BY <1>2 DEF Issuing, Phased, Made
<1>4. \A S : S \subseteq Call /\ c \notin S => Cardinality(S) + 1 = Cardinality(S \cup {c})
                                              /\ IsFiniteSet(S \cup {c}) /\ Cardinality(S) \in Nat
  <2>1. ASSUME NEW S, S \subseteq Call, c \notin S
        PROVE  Cardinality(S) + 1 = Cardinality(S \cup {c}) /\ IsFiniteSet(S \cup {c}) /\ Cardinality(S) \in Nat
    <3>1. IsFiniteSet(S) /\ Cardinality(S) \in Nat
      BY <2>1, CallsFinite, FinitePart
    <3> QED
      BY <2>1, <3>1, FS_AddElement
  <2> QED
    BY <2>1
<1>5. \A T : T \subseteq Call => IsFiniteSet(T) /\ Cardinality(T) \in Nat /\ Cardinality(T) <= NCalls
  BY CallsFinite, FinitePart
<1> DEFINE s == SiteOf[c]
<1>6. s \in Site /\ ordinal[s] \in 0..NCalls /\ ordinal[s] = Cardinality(MadeAt(s))
  BY <1>0, Actors DEF AdmissionTyped, Numbered
<1>7. MadeAt(s) \subseteq Call /\ c \notin MadeAt(s) /\ MadeAt(s) \cup {c} \subseteq At(s) /\ At(s) \subseteq Call
  BY <1>3 DEF MadeAt, At
<1> HIDE DEF s
<1>8. o <= Cardinality(At(s)) /\ o \in 1..NCalls
  <2>1. IsFiniteSet(At(s)) /\ Cardinality(At(s)) <= NCalls /\ Cardinality(At(s)) \in Nat
    BY <1>5, <1>7
  <2>2. Cardinality(MadeAt(s) \cup {c}) <= Cardinality(At(s))
    BY <1>7, <2>1, FinitePart
  <2>3. Cardinality(MadeAt(s)) + 1 <= Cardinality(At(s)) /\ Cardinality(MadeAt(s)) \in Nat
    BY <1>4, <1>7, <2>2
  <2>4. o = Cardinality(MadeAt(s)) + 1
    BY <1>6 DEF s
  <2> QED
    BY <2>1, <2>3, <2>4, SizeAssumption
<1>9. <<SiteOf[c], o>> \in Instance
  BY <1>6, <1>8 DEF Instance, s
<1>10. ASSUME NEW d \in Made PROVE d # c /\ InstanceOf(d) # <<SiteOf[c], o>>
  <2>1. d # c
    BY <1>3
  <2>2. inst[d] <= ordinal[SiteOf[d]] /\ inst[d] \in 1..NCalls
    BY <1>0, Instances DEF Numbered
  <2>3. SiteOf[d] = SiteOf[c] => inst[d] # o
    <3>1. ASSUME SiteOf[d] = SiteOf[c], inst[d] = o PROVE FALSE
      <4>1. o <= ordinal[s] /\ o = ordinal[s] + 1 /\ ordinal[s] \in Nat
        BY <1>6, <2>2, <3>1, SizeAssumption DEF s
      <4> QED
        BY <4>1
    <3> QED
      BY <3>1
  <2> QED
    BY <2>1, <2>3 DEF InstanceOf
<1>11. IsFiniteSet(Made) /\ Cardinality(Made) \in Nat /\ Cardinality(Made) + 1 <= NCalls
  <2>1. Made \subseteq Call /\ Made \cup {c} \subseteq Call
    BY DEF Made
  <2> QED
    BY <1>3, <1>4, <1>5, <2>1
<1>12. \A a : IsFiniteSet(MadeBy(a)) /\ Cardinality(MadeBy(a)) \in Nat
  <2>1. \A a : MadeBy(a) \subseteq Call
    BY DEF MadeBy
  <2> QED
    BY <1>5, <2>1
<1>13. Cardinality(MadeBy(ActorOf[c])) + 1 <= NCalls
  <2> DEFINE M == MadeBy(ActorOf[c])
  <2>1. M \subseteq Call /\ c \notin M /\ M \cup {c} \subseteq Call
    BY <1>3 DEF MadeBy
  <2> HIDE DEF M
  <2>2. Cardinality(M) + 1 <= NCalls
    BY <1>4, <1>5, <2>1
  <2> QED
    BY <2>2 DEF M
<1> QED
  BY <1>3, <1>8, <1>9, <1>10, <1>11, <1>12, <1>13 DEF s

\* Once it is numbered, the numbers of its site go on without a gap.
Enters(c, o) ==
  /\ c \in Call /\ NextCall(c) /\ o = ordinal[SiteOf[c]] + 1
  /\ ordinal' = [ordinal EXCEPT ![SiteOf[c]] = o] /\ inst' = [inst EXCEPT ![c] = o]
  /\ up' = Tail(up) /\ seen' = seen

\* The call is numbered, and with it the calls of its site and its actor are.
LEMMA Entering ==
  ASSUME IInv, NEW c, NEW o, Enters(c, o)
  PROVE  /\ Made' = Made \cup {c} /\ inst'[c] = o /\ \A d \in Call : d # c => inst'[d] = inst[d]
         /\ \A d \in Made : InstanceOf(d)' = InstanceOf(d)
         /\ ordinal' \in [Site -> 0..NCalls] /\ inst' \in [Call -> 0..NCalls] /\ up' \in Seq(Call)
         /\ Cardinality(Made)' = Cardinality(Made) + 1
         /\ \A a : a # ActorOf[c] => MadeBy(a)' = MadeBy(a)
         /\ Cardinality(MadeBy(ActorOf[c]))' = Cardinality(MadeBy(ActorOf[c])) + 1
         /\ Issuing' /\ Numbered'
<1> USE DEF IInv, Enters
<1>0. AdmissionTyped /\ SandboxTyped /\ Numbered
  BY DEF Types
<1>1. /\ inst[c] = 0 /\ Awaited(seen, c) /\ c \notin Made /\ o \in 1..NCalls
      /\ \A d \in Made : d # c /\ InstanceOf(d) # <<SiteOf[c], o>>
      /\ IsFiniteSet(Made) /\ \A a : IsFiniteSet(MadeBy(a)) /\ o # 0
  <2>1. c \in Call /\ NextCall(c) /\ o = ordinal[SiteOf[c]] + 1
    OBVIOUS
  <2> HIDE DEF IInv, Enters
  <2>2. /\ inst[c] = 0 /\ Awaited(seen, c) /\ c \notin Made /\ o \in 1..NCalls
        /\ \A d \in Made : d # c /\ InstanceOf(d) # <<SiteOf[c], o>>
        /\ IsFiniteSet(Made) /\ \A a : IsFiniteSet(MadeBy(a))
    BY <2>1, NextFacts
  <2>3. o # 0
    BY <2>2, SizeAssumption
  <2> QED
    BY <2>2, <2>3
<1>2. inst \in [Call -> 0..NCalls] /\ ordinal \in [Site -> 0..NCalls] /\ up \in Seq(Call) /\ SiteOf[c] \in Site
      /\ o \in 0..NCalls
  BY <1>0, <1>1, Actors DEF AdmissionTyped, SandboxTyped
<1>3. inst'[c] = o /\ (\A d \in Call : d # c => inst'[d] = inst[d]) /\ inst' \in [Call -> 0..NCalls]
  BY <1>2
<1>4. ordinal'[SiteOf[c]] = o /\ (\A s \in Site : s # SiteOf[c] => ordinal'[s] = ordinal[s])
      /\ ordinal' \in [Site -> 0..NCalls]
  BY <1>2
<1>5. Made' = Made \cup {c}
  BY <1>1, <1>3 DEF Made
<1>6. Cardinality(Made)' = Cardinality(Made) + 1
  BY <1>1, <1>5, FS_AddElement
<1>7. \A d \in Made : InstanceOf(d)' = InstanceOf(d) /\ inst'[d] = inst[d]
  BY <1>1, <1>3 DEF InstanceOf, Made
<1>8. \A a : a # ActorOf[c] => MadeBy(a)' = MadeBy(a)
  BY <1>3 DEF MadeBy
<1>9. Cardinality(MadeBy(ActorOf[c]))' = Cardinality(MadeBy(ActorOf[c])) + 1
  <2> DEFINE M == MadeBy(ActorOf[c])
  <2>1. M' = M \cup {c} /\ c \notin M
    BY <1>1, <1>3 DEF MadeBy
  <2>2. IsFiniteSet(M)
    BY <1>1
  <2> HIDE DEF M
  <2>3. Cardinality(M') = Cardinality(M) + 1
    BY <2>1, <2>2, FS_AddElement
  <2> QED
    BY <2>3 DEF M
<1>10. /\ up' \in Seq(Call)
       /\ \A i \in DOMAIN up' : i + 1 \in DOMAIN up /\ i \in Nat /\ i # 0 /\ up'[i] = up[i + 1] /\ up'[i] \in Call
       /\ 1 \in DOMAIN up /\ c = up[1]
  BY <1>2 DEF NextCall
<1>11. Issuing'
  <2>1. ASSUME NEW i \in DOMAIN up', NEW j \in DOMAIN up', up'[i] = up'[j] PROVE i = j
    <3>1. i + 1 = j + 1
      BY <1>10, <2>1 DEF Issuing
    <3> QED
      BY <1>10, <3>1
  <2>2. ASSUME NEW i \in DOMAIN up' PROVE inst'[up'[i]] = 0 /\ Awaited(seen, up'[i])
    <3>1. up[i + 1] # up[1]
      <4>1. i + 1 # 1
        BY <1>10
      <4> QED
        BY <1>10, <4>1 DEF Issuing
    <3>2. inst[up[i + 1]] = 0 /\ Awaited(seen, up[i + 1])
      BY <1>10 DEF Issuing
    <3> QED
      BY <1>3, <1>10, <3>1, <3>2
  <2>3. \A d \in Made' : Awaited(seen, d)
    BY <1>1, <1>5 DEF Issuing
  <2>4. \A d : Awaited(seen, d) => Awaited(seen', d)
    BY DEF Awaited
  <2>5. \A i \in DOMAIN up' : inst'[up'[i]] = 0 /\ Awaited(seen', up'[i])
    BY <2>2, <2>4
  <2>6. \A d \in Made' : Awaited(seen', d)
    BY <2>3, <2>4
  <2> QED
    BY <2>1, <2>5, <2>6 DEF Issuing
<1>12. Numbered'
  <2>1. ASSUME NEW s \in Site PROVE ordinal'[s] = Cardinality(MadeAt(s)')
    <3> DEFINE M == MadeAt(s)
    <3>1. M \subseteq Call
      BY DEF MadeAt, At
    <3>2. CASE s = SiteOf[c]
      <4>1. M' = M \cup {c} /\ c \notin M
        BY <1>1, <1>3, <3>2 DEF MadeAt, At
      <4>2. ordinal[s] = Cardinality(M) /\ ordinal'[s] = ordinal[s] + 1
        BY <1>0, <1>4, <3>2 DEF Numbered
      <4> HIDE DEF M
      <4>3. IsFiniteSet(M)
        BY <3>1, CallsFinite, FinitePart
      <4>4. Cardinality(M') = Cardinality(M) + 1
        BY <4>1, <4>3, FS_AddElement
      <4>5. ordinal'[s] = Cardinality(M')
        BY <4>2, <4>4
      <4> QED
        BY <4>5 DEF M
    <3>3. CASE s # SiteOf[c]
      <4>1. M' = M
        BY <1>3, <3>3 DEF MadeAt, At
      <4> QED
        BY <1>0, <1>4, <3>3, <4>1 DEF Numbered
    <3> QED
      BY <3>2, <3>3
  <2>2. ASSUME NEW d \in Made' PROVE inst'[d] <= ordinal'[SiteOf[d]]
    <3>1. CASE d = c
      BY <1>1, <1>3, <1>4, <3>1, SizeAssumption
    <3>2. CASE d # c
      <4>1. d \in Made /\ d \in Call /\ inst'[d] = inst[d] /\ inst[d] <= ordinal[SiteOf[d]] /\ SiteOf[d] \in Site
            /\ inst[d] \in 0..NCalls
        BY <1>0, <1>2, <1>3, <1>5, <2>2, <3>2, Actors DEF Numbered, Made
      <4>2. ordinal[SiteOf[d]] <= ordinal'[SiteOf[d]] /\ ordinal[SiteOf[d]] \in Nat /\ ordinal'[SiteOf[d]] \in Nat
        BY <1>2, <1>4, <4>1, SizeAssumption
      <4> QED
        BY <4>1, <4>2, SizeAssumption
    <3> QED
      BY <3>1, <3>2
  <2>3. ASSUME NEW d \in Made', NEW e \in Made', SiteOf[d] = SiteOf[e], inst'[d] = inst'[e] PROVE d = e
    <3>1. \A f \in Made : SiteOf[f] = SiteOf[c] => inst[f] # o
      BY <1>1 DEF InstanceOf
    <3>2. \A f \in Made' : f # c => f \in Made /\ inst'[f] = inst[f]
      BY <1>5, <1>7
    <3> QED
      BY <1>0, <1>3, <2>3, <3>1, <3>2 DEF Numbered
  <2> QED
    BY <2>1, <2>2, <2>3 DEF Numbered
<1> QED
  BY <1>3, <1>4, <1>5, <1>6, <1>7, <1>8, <1>9, <1>10, <1>11, <1>12

\* A world operation is answered or begins; out is what its row says then.
Reads(c, o, out) ==
  LET i == <<SiteOf[c], o>>
  IN  /\ c \in World /\ NextCall(c) /\ o = ordinal[SiteOf[c]] + 1 /\ Enters(c, o)
      /\ out \in Outcome \cup {"running"}
      /\ \/ Known(node[i]) /\ node[i].input = Input[c] /\ UNCHANGED node /\ out = node[i].out
         \/ /\ ~Known(node[i])
            /\ node' = [node EXCEPT ![i] = [actor |-> NoActor, seq |-> 0, input |-> Input[c], out |-> out]]
      /\ phase' = [phase EXCEPT ![c] = IF out = "running" THEN "running" ELSE "answered"]
      /\ down' = IF out = "running" THEN down ELSE Append(down, Answer(c, out))
      /\ cursor' = cursor \/ (\E k \in DOMAIN ImportWorld : cursor' = [cursor EXCEPT ![k] = @ + 1])
      /\ queued' \in {queued, queued \union {i}}
      /\ \/ UNCHANGED <<shut, closed>>
         \/ shut' = (shut \/ c \in WorldRun) /\ closed' = (closed \/ (Amended /\ c \in WorldRun))
      /\ lastEvent' = "other"
      /\ UNCHANGED <<runRow, mode, lives, seq, admission, liveQueue, current, session, activeAsks,
                     repairs, nudges, imported, seen, ending, history>>

\* The three ways to serve a world operation: from its row, from the import, or by running it.
LEMMA ReadCases ==
  ASSUME IInv, NEW c \in Call, ReadWorld(c)
  PROVE  \E o, out : Reads(c, o, out)
<1> DEFINE o == ordinal[SiteOf[c]] + 1
           i == <<SiteOf[c], o>>
<1>1. Enters(c, o)
  BY DEF ReadWorld, Enters
<1>2. Matches(c, o) /\ c \in World /\ NextCall(c)
  BY DEF ReadWorld
<1>3. Input[c] \in DOMAIN ImportWorld
  BY ImportAssumption
<1>4. CASE /\ Known(node[i])
           /\ down' = Append(down, Answer(c, node[i].out)) /\ phase' = [phase EXCEPT ![c] = "answered"]
           /\ UNCHANGED <<node, events, shut, cursor>>
  <2>1. node[i].out \in Outcome /\ node[i].out # "absent" /\ node[i].out # "running"
    BY <1>4, Outcomes DEF Known
  <2>2. node[i].input = Input[c]
    BY <1>2, <2>1 DEF Matches, RowOf
  <2> HIDE DEF o
  <2>3. Reads(c, o, node[i].out)
    BY <1>1, <1>2, <1>4, <2>1, <2>2 DEF Reads, ReadWorld, events, o
  <2> QED
    BY <2>3
<1>5. CASE /\ ~Known(node[i]) /\ Recorded(c)
           /\ LET out == ImportWorld[Input[c]][cursor[Input[c]] + 1]
              IN  /\ node' = [node EXCEPT ![i] = [actor |-> NoActor, seq |-> 0, input |-> Input[c], out |-> out]]
                  /\ down' = Append(down, Answer(c, out)) /\ phase' = [phase EXCEPT ![c] = "answered"]
           /\ cursor' = [cursor EXCEPT ![Input[c]] = @ + 1]
           /\ UNCHANGED <<events, shut>>
  <2> DEFINE k == Input[c]
             out == ImportWorld[k][cursor[k] + 1]
  <2>1. out \in Outcome /\ out # "running"
    <3>1. cursor[k] \in Nat /\ cursor[k] < Len(ImportWorld[k]) /\ ImportWorld[k] \in Seq(Result)
      BY <1>3, <1>5, SizeAssumption, ImportAssumption DEF Recorded, IInv, Types, AdmissionTyped
    <3> DEFINE s == ImportWorld[k]
               n == cursor[k]
    <3> HIDE DEF s, n, k
    <3>2. n \in Nat /\ n < Len(s) /\ s \in Seq(Result)
      BY <3>1 DEF s, n
    <3>3. s[n + 1] \in Result
      BY <3>2
    <3> QED
      BY <3>3, Outcomes DEF s, n
  <2> HIDE DEF o
  <2>2. Reads(c, o, out)
    <3>1. node' = [node EXCEPT ![i] = [actor |-> NoActor, seq |-> 0, input |-> Input[c], out |-> out]]
      BY <1>5
    <3>2. down' = Append(down, Answer(c, out)) /\ phase' = [phase EXCEPT ![c] = "answered"]
      BY <1>5
    <3>3. cursor' = [cursor EXCEPT ![k] = @ + 1] /\ k \in DOMAIN ImportWorld
      BY <1>3, <1>5
    <3>4. UNCHANGED <<queued, closed, shut>> /\ ~Known(node[i])
      BY <1>5 DEF events
    <3> HIDE DEF out, k
    <3> QED
      BY <1>1, <1>2, <2>1, <3>1, <3>2, <3>3, <3>4 DEF Reads, ReadWorld, o
  <2> QED
    BY <2>2
<1>6. CASE /\ ~Known(node[i]) /\ ~Recorded(c)
           /\ node' = [node EXCEPT ![i] = [actor |-> NoActor, seq |-> 0, input |-> Input[c], out |-> "running"]]
           /\ queued' = queued \union {i}
           /\ phase' = [phase EXCEPT ![c] = "running"]
           /\ shut' = (shut \/ c \in WorldRun) /\ closed' = (closed \/ (Amended /\ c \in WorldRun))
           /\ UNCHANGED <<down, cursor>>
  <2> HIDE DEF o
  <2>1. Reads(c, o, "running")
    BY <1>1, <1>2, <1>6 DEF Reads, ReadWorld, o
  <2> QED
    BY <2>1
<1> QED
  BY <1>4, <1>5, <1>6 DEF ReadWorld

\* The rows after it: all others as they were, an answered one kept.
LEMMA ReadRows ==
  ASSUME IInv, NEW c, NEW o, NEW out, Reads(c, o, out)
  PROVE  /\ node' \in [Instance -> Row \cup {Absent}]
         /\ \A i \in Instance : Known(node[i]) => node'[i] = node[i]
         /\ \A i \in Instance : i # <<SiteOf[c], o>> => node'[i] = node[i]
         /\ node'[<<SiteOf[c], o>>].out = out /\ node'[<<SiteOf[c], o>>].input = Input[c]
         /\ ~Known(node[<<SiteOf[c], o>>]) => node'[<<SiteOf[c], o>>].actor = NoActor
         /\ <<SiteOf[c], o>> \in Instance /\ Placed'
<1> USE DEF IInv, Reads
<1> DEFINE i0 == <<SiteOf[c], o>>
           r == [actor |-> NoActor, seq |-> 0, input |-> Input[c], out |-> out]
<1>0. JournalTyped /\ c \in Call /\ c \in World /\ NextCall(c)
  BY Actors DEF Types
<1>1. i0 \in Instance /\ o <= Cardinality(At(SiteOf[c]))
  <2>1. c \in Call /\ NextCall(c) /\ o = ordinal[SiteOf[c]] + 1
    BY <1>0
  <2> HIDE DEF Reads, IInv
  <2> QED
    BY <2>1, NextFacts
<1>2. r \in Row /\ r.out = out /\ r.input = Input[c] /\ r.actor = NoActor /\ r.out # "absent"
  BY <1>0, SizeAssumption, Outcomes DEF Row
<1>3. node \in [Instance -> Row \cup {Absent}]
  BY <1>0 DEF JournalTyped
<1> HIDE DEF i0, r
<1>4. /\ \A i \in Instance : i # i0 => node'[i] = node[i]
      /\ node'[i0] = r \/ (node' = node /\ Known(node[i0]) /\ node[i0].input = Input[c] /\ node[i0].out = out)
      /\ Known(node[i0]) => node' = node
      /\ ~Known(node[i0]) => node'[i0] = r
      /\ node' \in [Instance -> Row \cup {Absent}]
  BY <1>1, <1>2, <1>3 DEF i0, r
<1>5. node'[i0].out = out /\ node'[i0].input = Input[c] /\ (~Known(node[i0]) => node'[i0].actor = NoActor)
  BY <1>2, <1>4
<1>6. \A i \in Instance : Known(node[i]) => node'[i] = node[i]
  BY <1>4
<1>7. Placed'
  <2>1. CASE Known(node[i0])
    BY <1>4, <2>1, Frames
  <2>2. CASE ~Known(node[i0])
    <3>1. ASSUME NEW i \in Instance, node'[i].out # "absent" PROVE i[2] <= Cardinality(At(i[1])) /\ Asked(i)'
      <4>1. CASE i = i0
        <5>1. i[1] = SiteOf[c] /\ i[2] = o
          BY <4>1 DEF i0
        <5>2. ActorOf[c] = node'[i].actor /\ Input[c] = node'[i].input /\ SiteOf[c] = i[1] /\ c \in Call
          BY <1>0, <1>5, <2>2, <4>1, <5>1, Actors
        <5>3. Asked(i)'
          BY <5>2 DEF Asked
        <5> QED
          BY <1>1, <5>1, <5>3
      <4>2. CASE i # i0
        <5>1. node'[i] = node[i]
          BY <1>4, <4>2
        <5>2. i[2] <= Cardinality(At(i[1])) /\ Asked(i)
          BY <3>1, <5>1 DEF Placed
        <5>3. Asked(i)'
          BY <5>1, <5>2 DEF Asked
        <5> QED
          BY <5>2, <5>3
      <4> QED
        BY <4>1, <4>2
    <3> QED
      BY <3>1 DEF Placed
  <2> QED
    BY <2>1, <2>2
<1> QED
  BY <1>1, <1>4, <1>5, <1>6, <1>7 DEF i0

\* Each of them keeps the invariant.
LEMMA ReadKeeps ==
  ASSUME IInv, NEW c, NEW o, NEW out, Reads(c, o, out)
  PROVE  IInv'
<1> USE DEF IInv
<1>0. /\ JournalTyped /\ ControlTyped /\ AdmissionTyped /\ DispatchTyped /\ SandboxTyped /\ Numbered
      /\ c \in Call /\ c \in World /\ ActorOf[c] = NoActor /\ Enters(c, o) /\ out \in Outcome \cup {"running"}
      /\ out # "absent" /\ o = ordinal[SiteOf[c]] + 1 /\ NextCall(c)
  BY Actors, Outcomes DEF Types, Reads
<1>1. /\ Made' = Made \cup {c} /\ inst'[c] = o /\ \A d \in Call : d # c => inst'[d] = inst[d]
      /\ \A d \in Made : InstanceOf(d)' = InstanceOf(d)
      /\ ordinal' \in [Site -> 0..NCalls] /\ inst' \in [Call -> 0..NCalls] /\ up' \in Seq(Call)
      /\ Cardinality(Made)' = Cardinality(Made) + 1
      /\ \A a : a # ActorOf[c] => MadeBy(a)' = MadeBy(a)
      /\ Issuing' /\ Numbered'
  <2> HIDE DEF IInv
  <2> QED
    BY <1>0, Entering
<1>2. /\ inst[c] = 0 /\ phase[c] = "idle" /\ c \notin Made /\ o \in 1..NCalls /\ o # 0
      /\ \A d \in Made : d # c /\ InstanceOf(d) # <<SiteOf[c], o>>
      /\ Cardinality(Made) \in Nat /\ Cardinality(Made) + 1 <= NCalls
  <2> HIDE DEF IInv
  <2>1. o \in 1..NCalls
    BY <1>0, NextFacts
  <2>2. /\ inst[c] = 0 /\ phase[c] = "idle" /\ c \notin Made
        /\ \A d \in Made : d # c /\ InstanceOf(d) # <<SiteOf[c], o>>
        /\ Cardinality(Made) \in Nat /\ Cardinality(Made) + 1 <= NCalls
    BY <1>0, NextFacts
  <2> QED
    BY <2>1, <2>2, SizeAssumption
<1>3. /\ node' \in [Instance -> Row \cup {Absent}]
      /\ \A i \in Instance : Known(node[i]) => node'[i] = node[i]
      /\ \A i \in Instance : i # <<SiteOf[c], o>> => node'[i] = node[i]
      /\ node'[<<SiteOf[c], o>>].out = out /\ node'[<<SiteOf[c], o>>].input = Input[c]
      /\ <<SiteOf[c], o>> \in Instance /\ Placed'
  <2> HIDE DEF IInv
  <2> QED
    BY ReadRows
<1> DEFINE p == IF out = "running" THEN "running" ELSE "answered"
<1>4. /\ Slotted' /\ Holding' /\ phase' \in [Call -> Phase]
      /\ phase'[c] = p /\ \A d \in Call : d # c => phase'[d] = phase[d]
  <2>1. \A a \in Actor : MadeBy(a)' = MadeBy(a)
    BY <1>0, <1>1, Actors
  <2>2. /\ phase' = [phase EXCEPT ![c] = p] /\ p \in {"running", "answered"}
        /\ UNCHANGED <<mode, liveQueue, current, activeAsks, admission>>
    BY DEF Reads
  <2> HIDE DEF IInv, p
  <2> QED
    BY <1>0, <2>1, <2>2, WorldPhase
<1>5. JournalTyped'
  <2>1. queued' \subseteq Instance
    BY <1>0, <1>3 DEF JournalTyped, Reads
  <2>2. closed' \in BOOLEAN
    BY <1>0 DEF JournalTyped, Reads
  <2> QED
    BY <1>0, <1>3, <2>1, <2>2 DEF JournalTyped, Reads
<1>6. ControlTyped'
  BY <1>0, TypeFrames DEF Reads
<1>7. cursor' \in [DOMAIN ImportWorld -> 0..NCalls] /\ Served'
  <2> DEFINE m == Cardinality(Made)
             dom == DOMAIN ImportWorld
  <2>1. \A k \in dom : cursor[k] <= m
    BY DEF Served
  <2>2. cursor \in [dom -> 0..NCalls] /\ m \in Nat /\ m + 1 <= NCalls /\ NCalls \in Nat
    BY <1>0, <1>2, SizeAssumption DEF AdmissionTyped
  <2>3. cursor' = cursor \/ (\E k \in dom : cursor' = [cursor EXCEPT ![k] = @ + 1])
    BY DEF Reads
  <2> HIDE DEF m, dom
  <2>4. cursor' \in [dom -> 0..NCalls] /\ \A k \in dom : cursor'[k] <= m + 1
    <3>1. CASE cursor' = cursor
      <4>1. ASSUME NEW k \in dom PROVE cursor'[k] <= m + 1
        <5>1. cursor[k] \in Nat /\ cursor[k] <= m
          BY <2>1, <2>2
        <5> QED
          BY <2>2, <3>1, <5>1
      <4> QED
        BY <2>2, <3>1, <4>1
    <3>2. CASE \E k \in dom : cursor' = [cursor EXCEPT ![k] = @ + 1]
      <4>1. PICK j \in dom : cursor' = [cursor EXCEPT ![j] = @ + 1]
        BY <3>2
      <4>2. ASSUME NEW k \in dom PROVE cursor'[k] \in 0..NCalls /\ cursor'[k] <= m + 1
        <5>1. cursor[k] \in Nat /\ cursor[k] <= m
          BY <2>1, <2>2
        <5>2. cursor'[k] = cursor[k] \/ cursor'[k] = cursor[k] + 1
          BY <2>2, <4>1
        <5> QED
          BY <2>2, <5>1, <5>2
      <4>3. cursor' = [k \in dom |-> cursor'[k]]
        BY <2>2, <4>1
      <4> QED
        BY <4>2, <4>3
    <3> QED
      BY <2>3, <3>1, <3>2
  <2>5. Cardinality(Made)' = m + 1
    BY <1>1 DEF m
  <2>6. Served'
    BY <2>4, <2>5 DEF Served, dom
  <2> QED
    BY <2>4, <2>6 DEF dom
<1>8. AdmissionTyped'
  <2>1. shut' \in BOOLEAN
    BY <1>0 DEF Reads, AdmissionTyped
  <2> QED
    BY <1>0, <1>1, <1>7, <2>1 DEF Reads, AdmissionTyped
<1>9. DispatchTyped'
  BY <1>0, <1>4 DEF Reads, DispatchTyped, Phase
<1>10. /\ down' \in Seq([call : Call, out : Outcome])
       /\ \A i \in DOMAIN down' : \/ \E j \in DOMAIN down : down'[i] = down[j]
                                  \/ down'[i].call = c /\ down'[i].out = out
  <2> DEFINE R == [call : Call, out : Outcome]
             m == Answer(c, out)
  <2>1. CASE out = "running"
    BY <1>0, <2>1 DEF Reads, SandboxTyped
  <2>2. CASE out # "running"
    <3>1. m \in R /\ m.call = c /\ m.out = out
      BY <1>0, <2>2 DEF Answer
    <3>2. down \in Seq(R) /\ down' = Append(down, m)
      BY <1>0, <2>2 DEF Reads, SandboxTyped
    <3> HIDE DEF R, m
    <3>3. down' \in Seq(R) /\ \A i \in DOMAIN down' : down'[i] = m \/ \E j \in DOMAIN down : down'[i] = down[j]
      BY <3>1, <3>2
    <3>4. \A i \in DOMAIN down' : \/ \E j \in DOMAIN down : down'[i] = down[j]
                                  \/ down'[i].call = c /\ down'[i].out = out
      BY <3>1, <3>3
    <3> QED
      BY <3>3, <3>4 DEF R
  <2> QED
    BY <2>1, <2>2
<1>11. SandboxTyped'
  BY <1>0, <1>1, <1>10 DEF Reads, SandboxTyped
<1>12. Answering'
  <2>1. \A i \in DOMAIN down' :
           \/ \E j \in DOMAIN down : down'[i] = down[j]
           \/ /\ inst'[down'[i].call] # 0
              /\ node'[<<SiteOf[down'[i].call], inst'[down'[i].call]>>].out = down'[i].out
    BY <1>1, <1>2, <1>3, <1>10
  <2>2. seen' = seen /\ \A d \in Made : inst'[d] = inst[d]
    BY <1>1, <1>2 DEF Reads, Made
  <2> HIDE DEF IInv
  <2> QED
    BY <1>3, <2>1, <2>2, AnswersHold
<1>13. Phased'
  <2>1. \A d \in Call : phase'[d] = "idle" <=> inst'[d] = 0
    BY <1>1, <1>2, <1>4 DEF Phased
  <2>2. \A d \in World : phase'[d] \in {"idle", "running", "answered"}
    BY <1>4, Actors DEF Phased
  <2>3. \A d \in Made : d # c /\ InstanceOf(d)' = InstanceOf(d) /\ node'[InstanceOf(d)] = node[InstanceOf(d)]
                        /\ phase'[d] = phase[d]
    <3>1. \A d \in Made : InstanceOf(d) \in Instance /\ d \in Call
      BY <1>0, Instances
    <3> QED
      BY <1>1, <1>2, <1>3, <1>4, <3>1
  <2>4. InstanceOf(c)' = <<SiteOf[c], o>>
    BY <1>1 DEF InstanceOf
  <2>5. \A d \in Made' : phase'[d] \in Executed => node'[InstanceOf(d)'].out = "running"
    <3>1. ASSUME NEW d \in Made', phase'[d] \in Executed PROVE node'[InstanceOf(d)'].out = "running"
      <4>1. CASE d = c
        BY <1>3, <1>4, <2>4, <3>1, <4>1 DEF Executed
      <4>2. CASE d # c
        BY <1>1, <2>3, <3>1, <4>2 DEF Phased
      <4> QED
        BY <4>1, <4>2
    <3> QED
      BY <3>1
  <2>6. \A d \in Made' : phase'[d] = "answered" => Known(node'[InstanceOf(d)'])
    <3>1. ASSUME NEW d \in Made', phase'[d] = "answered" PROVE Known(node'[InstanceOf(d)'])
      <4>1. CASE d = c
        <5>1. out \in Outcome
          BY <1>0, <1>4, <3>1, <4>1
        <5> QED
          BY <1>3, <2>4, <4>1, <5>1 DEF Known
      <4>2. CASE d # c
        <5>1. Live
          BY <1>0 DEF NextCall
        <5> QED
          BY <1>1, <2>3, <3>1, <4>2, <5>1 DEF Phased
      <4> QED
        BY <4>1, <4>2
    <3> QED
      BY <3>1
  <2> QED
    BY <2>1, <2>2, <2>5, <2>6 DEF Phased
<1>14. Fitting'
  <2>1. ASSUME NEW d \in Made' PROVE Matches(d, inst[d])'
    <3>1. CASE d = c
      BY <1>1, <1>3, <3>1 DEF Matches, RowOf
    <3>2. CASE d # c
      <4>1. d \in Made /\ inst'[d] = inst[d] /\ d \in Call
        BY <1>1, <3>2 DEF Made
      <4>2. InstanceOf(d) \in Instance /\ InstanceOf(d) # <<SiteOf[c], o>> /\ InstanceOf(d) = <<SiteOf[d], inst[d]>>
        BY <1>0, <1>2, <4>1, Instances DEF InstanceOf
      <4>3. node'[<<SiteOf[d], inst[d]>>] = node[<<SiteOf[d], inst[d]>>]
        BY <1>3, <4>2
      <4> QED
        BY <4>1, <4>3 DEF Fitting, Matches, RowOf
    <3> QED
      BY <3>1, <3>2
  <2> QED
    BY <2>1 DEF Fitting
<1>15. Shutting'
  <2>1. \/ UNCHANGED <<shut, closed>>
        \/ shut' = (shut \/ c \in WorldRun) /\ closed' = (closed \/ (Amended /\ c \in WorldRun))
    BY DEF Reads
  <2>2. closed => shut
    BY DEF Shutting
  <2> HIDE DEF IInv
  <2>3. closed \in BOOLEAN /\ shut \in BOOLEAN
    BY <1>0 DEF JournalTyped, AdmissionTyped
  <2>4. CASE UNCHANGED <<shut, closed>>
    BY <2>2, <2>4 DEF Shutting
  <2>5. CASE shut' = (shut \/ c \in WorldRun) /\ closed' = (closed \/ (Amended /\ c \in WorldRun))
    <3> DEFINE w == c \in WorldRun
               m == Amended
    <3>1. shut' = (shut \/ w) /\ closed' = (closed \/ (m /\ w)) /\ m \in BOOLEAN /\ w \in BOOLEAN
      BY <2>5 DEF Amended
    <3> HIDE DEF w, m
    <3>2. closed' => shut'
      BY <2>2, <2>3, <3>1
    <3> QED
      BY <3>2 DEF Shutting
  <2> QED
    BY <2>1, <2>4, <2>5
<1> QED
  BY <1>1, <1>3, <1>4, <1>5, <1>6, <1>7, <1>8, <1>9, <1>11, <1>12, <1>13, <1>14, <1>15 DEF Types

\* A world operation reaches the engine.
LEMMA ReadStep ==
  ASSUME IInv, NEW c \in Call, ReadWorld(c)
  PROVE  IInv'
<1>1. PICK o, out : Reads(c, o, out)
  BY ReadCases
<1> QED
  BY <1>1, ReadKeeps

----------------------------------------------------------------------------
(* The script hears an answer.                                               *)

\* Two sequences without repetitions that share no element, one after the other.
LEMMA Joins ==
  ASSUME NEW S, NEW s \in Seq(S), NEW t \in Seq(S),
         \A i, j \in DOMAIN s : s[i] = s[j] => i = j,
         \A i, j \in DOMAIN t : t[i] = t[j] => i = j,
         \A i \in DOMAIN s, j \in DOMAIN t : s[i] # t[j]
  PROVE  /\ s \o t \in Seq(S)
         /\ \A i \in DOMAIN (s \o t) : (\E j \in DOMAIN s : (s \o t)[i] = s[j]) \/ (\E j \in DOMAIN t : (s \o t)[i] = t[j])
         /\ \A i, j \in DOMAIN (s \o t) : (s \o t)[i] = (s \o t)[j] => i = j
<1> DEFINE u == s \o t
           m == Len(s)
           n == Len(t)
<1>1. /\ u \in Seq(S) /\ DOMAIN u = 1..(m + n) /\ DOMAIN s = 1..m /\ DOMAIN t = 1..n /\ m \in Nat /\ n \in Nat
      /\ \A i \in 1..m : u[i] = s[i]
      /\ \A i \in (m + 1)..(m + n) : u[i] = t[i - m] /\ i - m \in 1..n
  <2>1. \A i \in 1..(m + n) : u[i] = IF i <= m THEN s[i] ELSE t[i - m]
    BY ConcatProperties
  <2>2. u \in Seq(S) /\ Len(u) = m + n
    BY ConcatProperties
  <2>3. m \in Nat /\ n \in Nat /\ DOMAIN s = 1..m /\ DOMAIN t = 1..n
    OBVIOUS
  <2> HIDE DEF u, m, n
  <2>4. DOMAIN u = 1..(m + n)
    BY <2>2
  <2> QED
    BY <2>1, <2>2, <2>3, <2>4
<1> HIDE DEF u, m, n
<1>2. \A i \in DOMAIN u : (i \in DOMAIN s /\ u[i] = s[i]) \/ (i - m \in DOMAIN t /\ u[i] = t[i - m] /\ i \in Nat)
  BY <1>1
<1>3. ASSUME NEW i \in DOMAIN u, NEW j \in DOMAIN u, u[i] = u[j] PROVE i = j
  <2>1. CASE i \in DOMAIN s /\ u[i] = s[i] /\ j \in DOMAIN s /\ u[j] = s[j]
    BY <1>3, <2>1
  <2>2. CASE i - m \in DOMAIN t /\ u[i] = t[i - m] /\ j - m \in DOMAIN t /\ u[j] = t[j - m]
    <3>1. i - m = j - m
      BY <1>3, <2>2
    <3> QED
      BY <1>1, <3>1
  <2> QED
    BY <1>2, <1>3, <2>1, <2>2
<1>4. \A i \in DOMAIN u : (\E j \in DOMAIN s : u[i] = s[j]) \/ (\E j \in DOMAIN t : u[i] = t[j])
  BY <1>2
<1> QED
  BY <1>1, <1>3, <1>4 DEF u

\* What the script hears lets it make the calls that awaited it, and no call twice.
LEMMA HearStep ==
  ASSUME IInv, NEW m, m \in [call : Call, out : Outcome], Hear(m), Live,
         inst[m.call] # 0, node[InstanceOf(m.call)].out = m.out,
         UNCHANGED <<inst, node>>
  PROVE  /\ up' \in Seq(Call) /\ seen' \in [Call -> Outcome \cup {None}] /\ told' \in [Call -> Outcome \cup {None}]
         /\ ending' \in {"open", "returned", "threw"}
         /\ Issuing'
         /\ \A c \in Call : seen'[c] # None => inst[c] # 0 /\ node[InstanceOf(c)].out = seen'[c]
<1> USE DEF IInv
<1> DEFINE d == m.call
           heard == [seen EXCEPT ![d] = m.out]
           T == {c \in Call : Awaited(heard, c) /\ ~Awaited(seen, c)}
           new == Issued(seen, heard)
<1>0. SandboxTyped /\ ControlTyped /\ d \in Call /\ m.out \in Outcome /\ m.out # None
  BY Outcomes DEF Types
<1>1. seen \in [Call -> Outcome \cup {None}] /\ up \in Seq(Call) /\ told \in [Call -> Outcome \cup {None}]
  BY <1>0 DEF SandboxTyped, ControlTyped
<1>2. heard[d] = m.out /\ (\A c \in Call : c # d => heard[c] = seen[c]) /\ heard \in [Call -> Outcome \cup {None}]
  BY <1>0, <1>1
<1>3. seen' = heard
  BY DEF Hear
<1> HIDE DEF d, heard
<1>4. told' \in [Call -> Outcome \cup {None}]
  BY <1>0, <1>1 DEF Hear
<1>5. ending' \in {"open", "returned", "threw"}
  BY DEF Hear
<1>6. \A c \in Call : Awaited(seen, c) => Awaited(heard, c)
  <2>1. \A c \in Call : After[c] \subseteq Call
    BY ScriptAssumption
  <2> QED
    BY <1>0, <1>2, <2>1 DEF Awaited
<1>7. /\ new \in Seq(Call) /\ \A i, j \in DOMAIN new : new[i] = new[j] => i = j
      /\ \A i \in DOMAIN new : new[i] \in Call /\ Awaited(heard, new[i]) /\ ~Awaited(seen, new[i])
  <2>1. new = Only([c \in Call |-> c], T)
    BY DEF Issued
  <2> HIDE DEF new, T
  <2>2. new \in Seq(Call \cap T) /\ \A i, j \in DOMAIN new : new[i] = new[j] => i = j
    BY <2>1, ProgramOrder
  <2>3. \A i \in DOMAIN new : new[i] \in Call \cap T
    BY <2>2
  <2>4. new \in Seq(Call)
    BY <2>2, SeqMonotonic
  <2> QED
    BY <2>2, <2>3, <2>4 DEF T
<1> HIDE DEF new, T
<1>8. /\ \A i, j \in DOMAIN up : up[i] = up[j] => i = j
      /\ \A i \in DOMAIN up : up[i] \in Call /\ inst[up[i]] = 0 /\ Awaited(seen, up[i])
  BY <1>1 DEF Issuing
<1>9. \A i \in DOMAIN up, j \in DOMAIN new : up[i] # new[j]
  BY <1>7, <1>8
<1>10. \A i \in DOMAIN new : inst[new[i]] = 0
  BY <1>7 DEF Issuing, Made
<1> DEFINE all == up \o new
<1>11. /\ all \in Seq(Call)
       /\ \A i \in DOMAIN all : (\E j \in DOMAIN up : all[i] = up[j]) \/ (\E j \in DOMAIN new : all[i] = new[j])
       /\ \A i, j \in DOMAIN all : all[i] = all[j] => i = j
  BY <1>1, <1>7, <1>8, <1>9, Joins
<1>12. up' = up \/ up' = all
  BY DEF Hear, heard, new, d
<1> HIDE DEF all
<1>13. /\ up' \in Seq(Call) /\ \A i, j \in DOMAIN up' : up'[i] = up'[j] => i = j
       /\ \A i \in DOMAIN up' : (\E j \in DOMAIN up : up'[i] = up[j]) \/ (\E j \in DOMAIN new : up'[i] = new[j])
  BY <1>1, <1>8, <1>11, <1>12
<1>14. \A i \in DOMAIN up' : inst[up'[i]] = 0 /\ Awaited(heard, up'[i])
  BY <1>6, <1>7, <1>8, <1>10, <1>13
<1>15. Issuing'
  <2>1. Made' = Made /\ Made \subseteq Call
    BY DEF Made
  <2>2. \A c \in Made : Awaited(heard, c)
    BY <1>6, <2>1 DEF Issuing
  <2> QED
    BY <1>3, <1>13, <1>14, <2>1, <2>2 DEF Issuing
<1>16. \A c \in Call : seen'[c] # None => inst[c] # 0 /\ node[InstanceOf(c)].out = seen'[c]
  BY <1>2, <1>3 DEF Answering, d
<1> QED
  BY <1>2, <1>3, <1>4, <1>5, <1>13, <1>15, <1>16

\* An answer reaches the script.
LEMMA DeliverStep == IInv /\ Deliver => IInv'
<1> SUFFICES ASSUME IInv, Deliver PROVE IInv'
  OBVIOUS
<1> USE DEF IInv
<1> DEFINE m == Head(down)
<1>0. SandboxTyped /\ ControlTyped
  BY DEF Types
<1>1. /\ m \in [call : Call, out : Outcome] /\ inst[m.call] # 0 /\ node[InstanceOf(m.call)].out = m.out
      /\ Tail(down) \in Seq([call : Call, out : Outcome])
      /\ \A i \in DOMAIN Tail(down) : \E j \in DOMAIN down : Tail(down)[i] = down[j]
  <2> DEFINE R == [call : Call, out : Outcome]
  <2>1. down \in Seq(R) /\ down # <<>>
    BY <1>0 DEF SandboxTyped, Deliver
  <2> HIDE DEF R
  <2>2. m \in R /\ m = down[1] /\ 1 \in DOMAIN down /\ Tail(down) \in Seq(R)
        /\ \A i \in DOMAIN Tail(down) : i + 1 \in DOMAIN down /\ Tail(down)[i] = down[i + 1]
    BY <2>1
  <2> QED
    BY <2>2 DEF Answering, R
<1>2. UNCHANGED <<journal, mode, lives, engine, torn>> /\ down' = Tail(down) /\ Live
  BY DEF Deliver
<1>3. UNCHANGED <<inst, node>>
  BY <1>2 DEF journal, engine
<1> HIDE DEF m
<1>4. /\ up' \in Seq(Call) /\ seen' \in [Call -> Outcome \cup {None}] /\ told' \in [Call -> Outcome \cup {None}]
      /\ ending' \in {"open", "returned", "threw"}
      /\ Issuing'
      /\ \A c \in Call : seen'[c] # None => inst[c] # 0 /\ node[InstanceOf(c)].out = seen'[c]
  <2>1. CASE Hear(m)
    <3> HIDE DEF IInv
    <3> QED
      BY <1>1, <1>2, <1>3, <2>1, HearStep
  <2>2. CASE UNCHANGED <<up, seen, ending, told>>
    <3>1. Issuing'
      BY <1>3, <2>2, Frames
    <3> QED
      BY <1>0, <2>2, <3>1 DEF SandboxTyped, ControlTyped, Answering
  <2> QED
    BY <2>1, <2>2 DEF Deliver, m
<1>5. SandboxTyped'
  BY <1>1, <1>2, <1>4 DEF SandboxTyped
<1>6. ControlTyped'
  BY <1>0, <1>2, <1>4 DEF ControlTyped
<1>7. JournalTyped' /\ AdmissionTyped' /\ DispatchTyped'
  BY <1>2, TypeFrames DEF Types, engine, cache
<1>8. (Numbered /\ Placed /\ Holding /\ Slotted /\ Phased /\ Fitting /\ Shutting /\ Served)'
  BY <1>2, Frames DEF engine, journal, events, cache
<1>9. Answering'
  <2>1. \A i \in DOMAIN down' : inst[down'[i].call] # 0 /\ node[InstanceOf(down'[i].call)].out = down'[i].out
    BY <1>1, <1>2 DEF Answering
  <2> QED
    BY <1>3, <1>4, <2>1 DEF Answering, InstanceOf
<1> QED
  BY <1>4, <1>5, <1>6, <1>7, <1>8, <1>9 DEF Types

----------------------------------------------------------------------------
(* An ask joins the admission of its actor.                                  *)

Asks(c, o, a, adm, at, asks) ==
  /\ c \in Call \ World /\ NextCall(c) /\ o = ordinal[SiteOf[c]] + 1 /\ a = ActorOf[c]
  /\ adm = Joining(c, o) /\ at = [inst EXCEPT ![c] = o] /\ asks = Released(adm) /\ Matches(c, o)

\* A record with the fields of an admission.
LEMMA IsAdmission ==
  ASSUME NEW n \in 0..NCalls, NEW m \in 0..NCalls, NEW r \in [0..NCalls -> Call \cup {NoCall}],
         NEW l \in Seq(Call), NEW adm, adm = [count |-> n, next |-> m, recorded |-> r, live |-> l]
  PROVE  adm \in Admission
BY DEF Admission

\* Its admission takes an ask in without losing room: there is a position for every call of
\* the actor.
LEMMA JoiningKeeps ==
  ASSUME IInv, NEW c, NEW o, NEW a, NEW adm, NEW at, NEW asks, Asks(c, o, a, adm, at, asks)
  PROVE  /\ a \in Actor /\ adm \in Admission
         /\ adm.next = admission[a].next /\ adm.count = admission[a].count
         /\ Roomy(adm, Cardinality(MadeBy(a)) + 1) /\ Roomy(adm, NCalls) /\ Once(adm)
         /\ Holds(adm) \subseteq Holds(admission[a]) \cup {c}
         /\ Kept(adm) \subseteq Kept(admission[a]) \cup {RowOf(c, o).seq}
<1> USE DEF IInv, Asks
<1> DEFINE old == admission[a]
           row == RowOf(c, o)
           n == Cardinality(MadeBy(a))
<1>0. JournalTyped /\ AdmissionTyped /\ c \in Call /\ a \in Actor /\ c # NoCall
  BY Actors DEF Types
<1>1. /\ phase[c] = "idle" /\ n \in Nat /\ n + 1 <= NCalls /\ <<SiteOf[c], o>> \in Instance /\ NCalls \in Nat
  <2>1. c \in Call /\ NextCall(c) /\ o = ordinal[SiteOf[c]] + 1 /\ a = ActorOf[c]
    BY <1>0
  <2> HIDE DEF IInv, Asks
  <2>2. phase[c] = "idle" /\ Cardinality(MadeBy(a)) \in Nat /\ Cardinality(MadeBy(a)) + 1 <= NCalls
        /\ <<SiteOf[c], o>> \in Instance
    BY <2>1, NextFacts
  <2> QED
    BY <2>2, SizeAssumption
<1>2. old \in Admission /\ Roomy(old, n) /\ Once(old) /\ c \notin Holds(old)
  BY <1>0, <1>1 DEF AdmissionTyped, Holding
<1>3. adm = IF row.out = "absent" THEN [old EXCEPT !.live = Append(@, c)]
            ELSE [old EXCEPT !.recorded[row.seq] = c]
  BY DEF Joining, RowOf
<1>4. row.out # "absent" => row.seq \in 0..NCalls
  <2>1. row \in Row \cup {Absent} /\ (row.out # "absent" => row \in Row)
    BY <1>0, <1>1, Rows DEF RowOf
  <2> HIDE DEF row
  <2> QED
    BY <2>1 DEF Row
<1>5. /\ old.count \in 0..NCalls /\ old.next \in 0..NCalls /\ old.live \in Seq(Call)
      /\ old.recorded \in [0..NCalls -> Call \cup {NoCall}]
      /\ Len(old.live) \in Nat /\ DOMAIN old.live = 1..Len(old.live)
      /\ IsFiniteSet(Kept(old)) /\ Cardinality(Kept(old)) \in Nat
      /\ old = [count |-> old.count, next |-> old.next, recorded |-> old.recorded, live |-> old.live]
  <2>1. old = [count |-> old.count, next |-> old.next, recorded |-> old.recorded, live |-> old.live]
    BY <1>2 DEF Admission
  <2> HIDE DEF old
  <2> QED
    BY <1>2, <2>1, AdmissionParts
<1> HIDE DEF old, row, n
<1>6. /\ Once(old)
      /\ \A k \in Kept(old) : old.recorded[k] # c
      /\ \A i \in DOMAIN old.live : old.live[i] # c
      /\ old.next + Cardinality(Kept(old)) + Len(old.live) <= n
  BY <1>2 DEF Holds, Roomy
<1>7. CASE row.out = "absent"
  <2>1. /\ adm.count = old.count /\ adm.next = old.next /\ adm.recorded = old.recorded
        /\ adm.live = Append(old.live, c)
        /\ adm = [count |-> adm.count, next |-> adm.next, recorded |-> adm.recorded, live |-> adm.live]
    BY <1>3, <1>5, <1>7
  <2>2. /\ adm.live \in Seq(Call) /\ Len(adm.live) = Len(old.live) + 1
        /\ \A i \in DOMAIN adm.live : (i \in DOMAIN old.live /\ adm.live[i] = old.live[i])
                                      \/ (i = Len(old.live) + 1 /\ adm.live[i] = c)
    <3> DEFINE s == old.live
               t == adm.live
    <3>1. s \in Seq(Call) /\ c \in Call /\ t = Append(s, c)
      BY <1>0, <1>5, <2>1
    <3> HIDE DEF s, t
    <3>2. /\ t \in Seq(Call) /\ Len(t) = Len(s) + 1
          /\ \A i \in DOMAIN t : (i \in DOMAIN s /\ t[i] = s[i]) \/ (i = Len(s) + 1 /\ t[i] = c)
      BY <3>1
    <3> QED
      BY <3>2 DEF s, t
  <2>3. adm \in Admission
    <3>1. /\ adm.count \in 0..NCalls /\ adm.next \in 0..NCalls /\ adm.live \in Seq(Call)
          /\ adm.recorded \in [0..NCalls -> Call \cup {NoCall}]
      BY <1>5, <2>1, <2>2
    <3>2. adm = [count |-> adm.count, next |-> adm.next, recorded |-> adm.recorded, live |-> adm.live]
      BY <2>1
    <3> QED
      BY <3>1, <3>2, IsAdmission
  <2>4. Kept(adm) = Kept(old)
    BY <2>1 DEF Kept
  <2>5. Roomy(adm, n + 1) /\ Roomy(adm, NCalls)
    BY <1>1, <1>5, <1>6, <2>1, <2>2, <2>4 DEF Roomy
  <2>6. Once(adm)
    <3>1. \A j, k \in Kept(adm) : adm.recorded[j] = adm.recorded[k] => j = k
      BY <1>6, <2>1, <2>4 DEF Once
    <3>2. \A i, j \in DOMAIN adm.live : adm.live[i] = adm.live[j] => i = j
      BY <1>6, <2>2 DEF Once
    <3>3. \A k \in Kept(adm), i \in DOMAIN adm.live : adm.recorded[k] # adm.live[i]
      BY <1>6, <2>1, <2>2, <2>4 DEF Once
    <3> QED
      BY <3>1, <3>2, <3>3 DEF Once
  <2>7. Holds(adm) \subseteq Holds(old) \cup {c}
    BY <2>1, <2>2, <2>4 DEF Holds
  <2> QED
    BY <1>0, <2>1, <2>3, <2>4, <2>5, <2>6, <2>7 DEF old, n
<1>8. CASE row.out # "absent"
  <2>1. /\ adm.count = old.count /\ adm.next = old.next /\ adm.live = old.live
        /\ adm.recorded = [old.recorded EXCEPT ![row.seq] = c]
        /\ adm = [count |-> adm.count, next |-> adm.next, recorded |-> adm.recorded, live |-> adm.live]
    BY <1>3, <1>5, <1>8
  <2>2. /\ row.seq \in 0..NCalls /\ adm.recorded \in [0..NCalls -> Call \cup {NoCall}]
        /\ adm.recorded[row.seq] = c
        /\ \A k \in 0..NCalls : k # row.seq => adm.recorded[k] = old.recorded[k]
    BY <1>0, <1>4, <1>5, <1>8, <2>1
  <2>3. adm \in Admission
    <3>1. /\ adm.count \in 0..NCalls /\ adm.next \in 0..NCalls /\ adm.live \in Seq(Call)
          /\ adm.recorded \in [0..NCalls -> Call \cup {NoCall}]
      BY <1>5, <2>1, <2>2
    <3>2. adm = [count |-> adm.count, next |-> adm.next, recorded |-> adm.recorded, live |-> adm.live]
      BY <2>1
    <3> QED
      BY <3>1, <3>2, IsAdmission
  <2>4. Kept(adm) = Kept(old) \cup {row.seq}
    BY <1>0, <2>2 DEF Kept
  <2>5. Cardinality(Kept(adm)) \in Nat /\ Cardinality(Kept(adm)) <= Cardinality(Kept(old)) + 1
    <3> DEFINE K == Kept(old)
               L == Kept(adm)
    <3>1. IsFiniteSet(K) /\ Cardinality(K) \in Nat /\ L = K \cup {row.seq}
      BY <1>5, <2>4
    <3> HIDE DEF K, L
    <3>2. Cardinality(L) = Cardinality(K) \/ Cardinality(L) = Cardinality(K) + 1
      BY <3>1, FS_AddElement
    <3>3. Cardinality(L) \in Nat /\ Cardinality(L) <= Cardinality(K) + 1
      BY <3>1, <3>2
    <3> QED
      BY <3>3 DEF K, L
  <2>6. Roomy(adm, n + 1) /\ Roomy(adm, NCalls)
    <3>1. adm.next + Cardinality(Kept(adm)) + Len(adm.live) <= n + 1
      BY <1>1, <1>5, <1>6, <2>1, <2>5
    <3>2. adm.next + Cardinality(Kept(adm)) + Len(adm.live) <= NCalls
      BY <1>1, <1>5, <2>1, <2>5, <3>1
    <3> QED
      BY <3>1, <3>2 DEF Roomy
  <2>7. \A k \in Kept(adm) : (k = row.seq /\ adm.recorded[k] = c) \/ (k \in Kept(old) /\ adm.recorded[k] = old.recorded[k])
    BY <2>2 DEF Kept
  <2>8. Once(adm)
    <3>1. \A j, k \in Kept(adm) : adm.recorded[j] = adm.recorded[k] => j = k
      BY <1>6, <2>7 DEF Once
    <3>2. \A k \in Kept(adm), i \in DOMAIN adm.live : adm.recorded[k] # adm.live[i]
      BY <1>6, <2>1, <2>7 DEF Once
    <3>3. \A i, j \in DOMAIN adm.live : adm.live[i] = adm.live[j] => i = j
      BY <1>6, <2>1 DEF Once
    <3> QED
      BY <3>1, <3>2, <3>3 DEF Once
  <2>9. Holds(adm) \subseteq Holds(old) \cup {c}
    BY <2>1, <2>7 DEF Holds
  <2> QED
    BY <1>0, <2>1, <2>3, <2>4, <2>6, <2>8, <2>9 DEF old, n, row
<1> QED
  BY <1>7, <1>8

\* The asks admitted are asks of the actor that were held, or the one that joins; each has a
\* place of its own in the journal.
Admitted(at, a, first, asks) ==
  /\ a \in Actor /\ first \in Nat /\ asks \in Seq(Call) /\ first + Len(asks) <= NCalls
  /\ \A x \in DOMAIN asks : /\ asks[x] \in Call /\ ActorOf[asks[x]] = a
                            /\ <<SiteOf[asks[x]], at[asks[x]]>> \in Instance
                            /\ at[asks[x]] <= Cardinality(At(SiteOf[asks[x]]))
  /\ \A x, y \in DOMAIN asks : SiteOf[asks[x]] = SiteOf[asks[y]] /\ at[asks[x]] = at[asks[y]] => x = y

\* The asks that an admission lets go are calls of the actor, at instances of their own.
LEMMA AdmittedAsks ==
  ASSUME IInv, NEW c, NEW o, NEW a, NEW adm, NEW at, NEW asks, Asks(c, o, a, adm, at, asks)
  PROVE  /\ Admitted(at, a, adm.next, asks) /\ adm.next + Len(asks) = Drained(adm)
         /\ \A x, y \in DOMAIN asks : asks[x] = asks[y] => x = y
         /\ \A x \in DOMAIN asks : (asks[x] = c /\ phase[c] = "idle") \/ (asks[x] # c /\ phase[asks[x]] = "held")
         /\ \A x \in DOMAIN asks : asks[x] \in Call \ World /\ ActorOf[asks[x]] = a
         /\ DOMAIN asks = 1..Len(asks) /\ Len(asks) \in Nat
<1> USE DEF IInv
<1>0. JournalTyped /\ AdmissionTyped /\ SandboxTyped /\ Numbered /\ NCalls \in Nat
  BY SizeAssumption DEF Types
<1>1. /\ a \in Actor /\ adm \in Admission
      /\ adm.next = admission[a].next
      /\ Roomy(adm, NCalls) /\ Once(adm)
      /\ Holds(adm) \subseteq Holds(admission[a]) \cup {c}
  <2> HIDE DEF IInv
  <2> QED
    BY JoiningKeeps
<1>2. c \in Call \ World /\ NextCall(c) /\ o = ordinal[SiteOf[c]] + 1 /\ a = ActorOf[c]
      /\ at = [inst EXCEPT ![c] = o] /\ asks = Released(adm) /\ c \in Call
  BY DEF Asks
<1>3. /\ inst[c] = 0 /\ phase[c] = "idle" /\ c \notin Made
      /\ o \in 1..NCalls /\ o <= Cardinality(At(SiteOf[c])) /\ <<SiteOf[c], o>> \in Instance
      /\ \A d \in Made : d # c /\ InstanceOf(d) # <<SiteOf[c], o>>
  <2> HIDE DEF IInv
  <2> QED
    BY <1>2, NextFacts
<1>4. /\ asks \in Seq(Call) /\ Len(asks) \in Nat /\ DOMAIN asks = 1..Len(asks)
      /\ Drained(adm) \in 0..NCalls /\ Drained(adm) = adm.next + Len(asks)
      /\ \A x \in DOMAIN asks : asks[x] \in Holds(adm)
      /\ \A x, y \in DOMAIN asks : asks[x] = asks[y] => x = y
  <2> HIDE DEF IInv
  <2> QED
    BY <1>1, <1>2, Releases
<1>5. adm.next \in Nat /\ adm.next + Len(asks) <= NCalls
  BY <1>0, <1>1, <1>4, AdmissionParts
<1>6. at[c] = o /\ \A d \in Call : d # c => at[d] = inst[d]
  BY <1>0, <1>2 DEF AdmissionTyped
<1>7. ASSUME NEW x \in DOMAIN asks
      PROVE  /\ (asks[x] = c /\ phase[c] = "idle") \/ (asks[x] # c /\ phase[asks[x]] = "held" /\ asks[x] \in Made)
             /\ asks[x] \in Call \ World /\ ActorOf[asks[x]] = a
             /\ <<SiteOf[asks[x]], at[asks[x]]>> \in Instance
             /\ at[asks[x]] <= Cardinality(At(SiteOf[asks[x]]))
  <2>1. asks[x] = c \/ asks[x] \in Holds(admission[a])
    BY <1>1, <1>4
  <2>2. CASE asks[x] = c
    BY <1>2, <1>3, <1>6, <2>2
  <2>3. CASE asks[x] # c
    <3> DEFINE d == asks[x]
    <3>1. d \in Call /\ phase[d] = "held" /\ ActorOf[d] = a
      BY <1>1, <1>4, <2>1, <2>3 DEF Holding
    <3> HIDE DEF d
    <3>2. d \in Made /\ d \notin World
      BY <1>1, <3>1, Actors DEF Phased, Made
    <3>3. InstanceOf(d) \in Instance /\ inst[d] \in 1..NCalls /\ inst[d] <= ordinal[SiteOf[d]]
          /\ SiteOf[d] \in Site /\ ordinal[SiteOf[d]] = Cardinality(MadeAt(SiteOf[d])) /\ at[d] = inst[d]
      <4>1. d # c
        BY <2>3 DEF d
      <4>2. SiteOf[d] \in Site
        BY <3>1, Actors
      <4>3. InstanceOf(d) \in Instance /\ inst[d] \in 1..NCalls
        BY <1>0, <3>2, Instances
      <4> QED
        BY <1>0, <1>6, <3>1, <3>2, <4>1, <4>2, <4>3 DEF Numbered
    <3>4. Cardinality(MadeAt(SiteOf[d])) <= Cardinality(At(SiteOf[d])) /\ Cardinality(At(SiteOf[d])) \in Nat
          /\ Cardinality(MadeAt(SiteOf[d])) \in Nat
      <4>1. MadeAt(SiteOf[d]) \subseteq At(SiteOf[d]) /\ At(SiteOf[d]) \subseteq Call
        BY DEF MadeAt, At
      <4>2. IsFiniteSet(At(SiteOf[d])) /\ Cardinality(At(SiteOf[d])) \in Nat
        BY <4>1, CallsFinite, FinitePart
      <4> QED
        BY <4>1, <4>2, FinitePart
    <3>5. at[d] <= Cardinality(At(SiteOf[d]))
      <4>1. inst[d] \in Nat
        BY <1>0, <3>3
      <4> QED
        BY <3>3, <3>4, <4>1
    <3>6. <<SiteOf[d], at[d]>> \in Instance
      BY <3>3 DEF InstanceOf
    <3> QED
      BY <2>3, <3>1, <3>2, <3>5, <3>6 DEF d
  <2> QED
    BY <2>2, <2>3
<1>8. ASSUME NEW x \in DOMAIN asks, NEW y \in DOMAIN asks, SiteOf[asks[x]] = SiteOf[asks[y]],
             at[asks[x]] = at[asks[y]]
      PROVE  x = y
  <2>1. CASE asks[x] = c /\ asks[y] = c
    BY <1>4, <2>1
  <2>2. CASE asks[x] # c /\ asks[y] # c
    <3>1. asks[x] \in Made /\ asks[y] \in Made /\ at[asks[x]] = inst[asks[x]] /\ at[asks[y]] = inst[asks[y]]
      BY <1>6, <1>7, <2>2 DEF Made
    <3>2. asks[x] = asks[y]
      BY <1>0, <1>8, <3>1 DEF Numbered
    <3> QED
      BY <1>4, <3>2
  <2>3. CASE asks[x] = c /\ asks[y] # c
    <3>1. asks[y] \in Made /\ at[asks[y]] = inst[asks[y]]
      BY <1>6, <1>7, <2>3 DEF Made
    <3> QED
      BY <1>3, <1>6, <1>8, <2>3, <3>1 DEF InstanceOf
  <2>4. CASE asks[x] # c /\ asks[y] = c
    <3>1. asks[x] \in Made /\ at[asks[x]] = inst[asks[x]]
      BY <1>6, <1>7, <2>4 DEF Made
    <3> QED
      BY <1>3, <1>6, <1>8, <2>4, <3>1 DEF InstanceOf
  <2> QED
    BY <2>1, <2>2, <2>3, <2>4
<1>9. Admitted(at, a, adm.next, asks)
  BY <1>1, <1>4, <1>5, <1>7, <1>8 DEF Admitted
<1> QED
  BY <1>4, <1>7, <1>9

----------------------------------------------------------------------------
(* The rows of the asks admitted.                                            *)

Place(at, d) == <<SiteOf[d], at[d]>>

\* What is served from the import is a result of the predecessor's.
LEMMA PathServes ==
  ASSUME NEW at, NEW a, NEW first, NEW asks, Admitted(at, a, first, asks)
  PROVE  /\ Path(at, a, first, asks) \subseteq DOMAIN asks
         /\ \A x \in Path(at, a, first, asks) :
              /\ first + x \in DOMAIN Import[a] /\ Import[a][first + x].input = Input[asks[x]]
              /\ Import[a][first + x].out \in Result
              /\ ~imported[a].diverged /\ Follows(a, Place(at, asks[x]), first + x - 1, asks[x])
              /\ \A y \in 1..x : y \in Path(at, a, first, asks)
<1> DEFINE P == Path(at, a, first, asks)
           E == [input : {Input[c] : c \in Call}, pure : BOOLEAN, out : Result]
<1>1. DOMAIN asks = 1..Len(asks) /\ Len(asks) \in Nat /\ first \in Nat /\ a \in Actor
  BY DEF Admitted
<1>2. ASSUME NEW x \in P
      PROVE  /\ x \in DOMAIN asks
             /\ ~imported[a].diverged /\ Follows(a, Place(at, asks[x]), first + x - 1, asks[x])
             /\ first + x \in DOMAIN Import[a] /\ Import[a][first + x].input = Input[asks[x]]
  <2>1. x \in DOMAIN asks /\ ~imported[a].diverged
        /\ \A y \in 1..x : Follows(a, <<SiteOf[asks[y]], at[asks[y]]>>, first + y - 1, asks[y])
    BY DEF Path
  <2> HIDE DEF P
  <2>2. x \in 1..x /\ (first + x - 1) + 1 = first + x
    BY <1>1, <2>1
  <2>3. Follows(a, Place(at, asks[x]), first + x - 1, asks[x])
    BY <2>1, <2>2 DEF Place
  <2>4. Fits(a, first + x - 1, Input[asks[x]])
    BY <2>3 DEF Follows
  <2> QED
    BY <2>1, <2>2, <2>3, <2>4 DEF Fits
<1>3. ASSUME NEW x \in P PROVE Import[a][first + x].out \in Result
  <2> DEFINE s == Import[a]
             k == first + x
  <2>1. s \in Seq(E) /\ k \in DOMAIN s
    BY <1>1, <1>2, ImportAssumption
  <2> HIDE DEF s, k
  <2>2. s[k] \in E
    <3> HIDE DEF E
    <3> QED
      BY <2>1
  <2> QED
    BY <2>2 DEF s, k
<1>4. ASSUME NEW x \in P, NEW y \in 1..x PROVE y \in P
  <2>1. y \in DOMAIN asks /\ \A z \in 1..y : z \in 1..x
    <3>1. x \in 1..Len(asks)
      BY <1>1, <1>2
    <3> HIDE DEF P
    <3> QED
      BY <1>1, <3>1
  <2>2. ~imported[a].diverged
        /\ \A z \in 1..x : Follows(a, <<SiteOf[asks[z]], at[asks[z]]>>, first + z - 1, asks[z])
    BY DEF Path
  <2> QED
    BY <2>1, <2>2 DEF Path
<1> HIDE DEF P
<1> QED
  BY <1>2, <1>3, <1>4 DEF P

\* Each ask admitted without an ended row gets a row of its own; no other row changes.
LEMMA JournaledRows ==
  ASSUME IInv, NEW at, NEW a, NEW first, NEW asks, Admitted(at, a, first, asks),
         NEW rows, rows = Journaled(at, a, first, asks)
  PROVE  /\ rows \in [Instance -> Row \cup {Absent}]
         /\ \A i \in Instance : Known(node[i]) => rows[i] = node[i]
         /\ \A i \in Instance : (\A x \in DOMAIN asks : i # Place(at, asks[x])) => rows[i] = node[i]
         /\ \A x \in DOMAIN asks :
              /\ Place(at, asks[x]) \in Instance
              /\ ~Known(node[Place(at, asks[x])]) =>
                   /\ rows[Place(at, asks[x])].actor = a
                   /\ rows[Place(at, asks[x])].seq = first + x - 1
                   /\ rows[Place(at, asks[x])].input = Input[asks[x]]
                   /\ rows[Place(at, asks[x])].out =
                        IF node[Place(at, asks[x])].out = "absent" /\ x \in Path(at, a, first, asks)
                        THEN Import[a][first + x].out ELSE "running"
         /\ (node' = rows => Placed')
<1> USE DEF Admitted
<1> DEFINE place(x) == <<SiteOf[asks[x]], at[asks[x]]>>
           row(x) == [actor |-> a, seq |-> first + x - 1, input |-> Input[asks[x]],
                      out |-> IF node[place(x)].out = "absent" /\ x \in Path(at, a, first, asks)
                              THEN Import[a][first + x].out ELSE "running"]
           hit(i) == \E x \in DOMAIN asks : i = place(x) /\ ~Known(node[i])
<1>0. JournalTyped /\ Placed
  BY DEF IInv, Types
<1>1. /\ \A x \in DOMAIN asks : place(x) \in Instance
      /\ \A x, y \in DOMAIN asks : place(x) = place(y) => x = y
  OBVIOUS
<1>2. /\ DOMAIN rows = Instance /\ rows = [i \in Instance |-> rows[i]]
      /\ \A i \in Instance : ~hit(i) => rows[i] = node[i]
  BY DEF Journaled
<1>3. ASSUME NEW x \in DOMAIN asks, ~Known(node[place(x)]) PROVE rows[place(x)] = row(x)
  <2> DEFINE i == place(x)
  <2>1. (CHOOSE y \in DOMAIN asks : i = place(y)) = x
    <3> HIDE DEF place
    <3> QED
      BY <1>1
  <2>2. i \in Instance /\ hit(i)
    BY <1>1, <1>3
  <2>3. rows[i] = LET y == CHOOSE y \in DOMAIN asks : i = <<SiteOf[asks[y]], at[asks[y]]>>
                  IN  [actor |-> a, seq |-> first + y - 1, input |-> Input[asks[y]],
                       out |-> IF node[i].out = "absent" /\ y \in Path(at, a, first, asks)
                               THEN Import[a][first + y].out ELSE "running"]
    <3> HIDE DEF i
    <3> QED
      BY <2>2 DEF Journaled
  <2> QED
    BY <2>1, <2>3
<1>4. ASSUME NEW x \in DOMAIN asks PROVE row(x) \in Row /\ row(x).actor = a /\ row(x).input = Input[asks[x]]
  <2>1. first + x - 1 \in 0..NCalls
    <3>1. x \in 1..Len(asks) /\ Len(asks) \in Nat
      OBVIOUS
    <3> QED
      BY <3>1, SizeAssumption
  <2>2. row(x).out \in Outcome \cup {"running"}
    <3>1. x \in Path(at, a, first, asks) => Import[a][first + x].out \in Outcome
      BY PathServes, Outcomes
    <3> QED
      BY <3>1
  <2>3. row(x).actor = a /\ row(x).seq = first + x - 1 /\ row(x).input = Input[asks[x]]
    OBVIOUS
  <2>4. row(x) = [actor |-> row(x).actor, seq |-> row(x).seq, input |-> row(x).input, out |-> row(x).out]
    OBVIOUS
  <2>5. a \in Actor \cup {NoActor} /\ Input[asks[x]] \in {Input[d] : d \in Call}
    OBVIOUS
  <2> HIDE DEF row
  <2> QED
    BY <2>1, <2>2, <2>3, <2>4, <2>5 DEF Row
<1> HIDE DEF row
<1>5. ASSUME NEW i \in Instance
      PROVE  \/ rows[i] = node[i]
             \/ \E x \in DOMAIN asks : i = place(x) /\ ~Known(node[i]) /\ rows[i] = row(x)
  <2>1. CASE ~hit(i)
    BY <1>2, <2>1
  <2>2. CASE hit(i)
    <3>1. PICK x \in DOMAIN asks : i = place(x) /\ ~Known(node[i])
      BY <2>2
    <3> HIDE DEF place, hit
    <3>2. rows[i] = row(x)
      BY <1>3, <3>1
    <3> QED
      BY <3>1, <3>2
  <2> QED
    BY <2>1, <2>2
<1>6. rows \in [Instance -> Row \cup {Absent}]
  <2>1. \A i \in Instance : rows[i] \in Row \cup {Absent}
    <3>1. \A i \in Instance : node[i] \in Row \cup {Absent}
      BY <1>0 DEF JournalTyped
    <3> QED
      BY <1>4, <1>5, <3>1
  <2> QED
    BY <1>2, <2>1
<1>7. node' = rows => Placed'
  <2>1. ASSUME node' = rows, NEW i \in Instance, node'[i].out # "absent"
        PROVE  i[2] <= Cardinality(At(i[1])) /\ Asked(i)'
    <3>1. CASE rows[i] = node[i]
      <4>1. i[2] <= Cardinality(At(i[1])) /\ Asked(i)
        BY <1>0, <2>1, <3>1 DEF Placed
      <4>2. Asked(i)'
        BY <2>1, <3>1, <4>1 DEF Asked
      <4> QED
        BY <4>1, <4>2
    <3>2. CASE \E x \in DOMAIN asks : i = place(x) /\ ~Known(node[i]) /\ rows[i] = row(x)
      <4>1. PICK x \in DOMAIN asks : i = place(x) /\ rows[i] = row(x)
        BY <3>2
      <4>2. i[1] = SiteOf[asks[x]] /\ i[2] = at[asks[x]]
        BY <4>1
      <4>3. asks[x] \in Call /\ Input[asks[x]] = node'[i].input /\ ActorOf[asks[x]] = node'[i].actor
        BY <1>4, <2>1, <4>1
      <4>4. Asked(i)'
        BY <4>2, <4>3 DEF Asked
      <4> QED
        BY <4>2, <4>4
    <3> QED
      BY <1>5, <3>1, <3>2
  <2> QED
    BY <2>1 DEF Placed
<1>8. \A i \in Instance : Known(node[i]) => rows[i] = node[i]
  BY <1>2
<1>9. \A i \in Instance : (\A x \in DOMAIN asks : i # Place(at, asks[x])) => rows[i] = node[i]
  BY <1>2 DEF Place
<1>10. ASSUME NEW x \in DOMAIN asks, ~Known(node[Place(at, asks[x])])
       PROVE  /\ rows[Place(at, asks[x])].actor = a
              /\ rows[Place(at, asks[x])].seq = first + x - 1
              /\ rows[Place(at, asks[x])].input = Input[asks[x]]
              /\ rows[Place(at, asks[x])].out =
                        IF node[Place(at, asks[x])].out = "absent" /\ x \in Path(at, a, first, asks)
                        THEN Import[a][first + x].out ELSE "running"
  <2>1. Place(at, asks[x]) = place(x)
    BY DEF Place
  <2>2. rows[place(x)] = row(x)
    BY <1>3, <1>10, <2>1
  <2> QED
    BY <2>1, <2>2 DEF row
<1>11. \A x \in DOMAIN asks : Place(at, asks[x]) \in Instance
  BY <1>1 DEF Place
<1> QED
  BY <1>6, <1>7, <1>8, <1>9, <1>10, <1>11

----------------------------------------------------------------------------
(* The asks that are answered at once and those that go live.                *)

\* A sequence without repetitions is filtered to one.
LEMMA Filters ==
  ASSUME NEW S, NEW s \in Seq(S), NEW T, \A i, j \in DOMAIN s : s[i] = s[j] => i = j
  PROVE  /\ Only(s, T) \in Seq(S) /\ ToSet(Only(s, T)) = ToSet(s) \cap T
         /\ \A i, j \in DOMAIN Only(s, T) : Only(s, T)[i] = Only(s, T)[j] => i = j
<1> DEFINE t == Only(s, T)
<1>1. t \in Seq(S \cap T) /\ \E g : Embeds(g, t, s, Len(s), T)
  BY OnlyEmbeds
<1> HIDE DEF t
<1>2. PICK g : Embeds(g, t, s, Len(s), T)
  BY <1>1
<1>3. t \in Seq(S) /\ DOMAIN t = 1..Len(t) /\ Len(t) \in Nat /\ DOMAIN s = 1..Len(s) /\ Len(s) \in Nat
      /\ \A i \in DOMAIN t : t[i] \in T
  <2>1. t \in Seq(S)
    BY <1>1, SeqMonotonic
  <2> QED
    BY <1>1, <2>1
<1>4. ASSUME NEW i \in DOMAIN t, NEW j \in DOMAIN t, t[i] = t[j] PROVE i = j
  <2>1. /\ i \in 1..Len(t) /\ j \in 1..Len(t) /\ g[i] \in DOMAIN s /\ g[j] \in DOMAIN s
        /\ t[i] = s[g[i]] /\ t[j] = s[g[j]]
    BY <1>2, <1>3 DEF Embeds
  <2>2. g[i] = g[j]
    BY <1>4, <2>1
  <2>3. ~(i < j) /\ ~(j < i)
    <3>1. g[i] \in Nat
      BY <1>3, <2>1
    <3> QED
      BY <1>2, <2>1, <2>2, <3>1 DEF Embeds
  <2> QED
    BY <1>3, <2>1, <2>3
<1>5. ToSet(t) = ToSet(s) \cap T
  <2>1. ASSUME NEW i \in DOMAIN t PROVE t[i] \in T /\ \E j \in DOMAIN s : t[i] = s[j]
    BY <1>2, <1>3 DEF Embeds
  <2>2. ASSUME NEW j \in DOMAIN s, s[j] \in T PROVE \E i \in DOMAIN t : t[i] = s[j]
    BY <1>2, <1>3, <2>2 DEF Embeds
  <2> QED
    BY <2>1, <2>2 DEF ToSet
<1> QED
  BY <1>3, <1>4, <1>5 DEF t

----------------------------------------------------------------------------
(* The admission of an ask, and of those it had kept waiting.                *)

Waiting(a, live) == [liveQueue EXCEPT ![a] = @ \o live]

PhasesOf(c, answered, live) ==
  [x \in Call |-> IF x \in ToSet(live) THEN "queued"
                  ELSE IF x \in ToSet(answered) THEN "answered"
                  ELSE IF x = c THEN "held" ELSE phase[x]]

Takes(c, o, a, adm, at, asks, rows, ended, answered, live) ==
  /\ Asks(c, o, a, adm, at, asks)
  /\ rows = Journaled(at, a, adm.next, asks)
  /\ ended = {x \in ToSet(asks) : Known(rows[Place(at, x)])}
  /\ answered = Only(asks, ended) /\ live = Only(asks, ToSet(asks) \ ended)
  /\ ordinal' = [ordinal EXCEPT ![SiteOf[c]] = o] /\ inst' = at
  /\ seq' = [x \in Call |-> IF x \in ToSet(asks)
                            THEN adm.next + (CHOOSE i \in DOMAIN asks : asks[i] = x) - 1
                            ELSE seq[x]]
  /\ admission' = [admission EXCEPT ![a] = AfterDrain(adm)]
  /\ node' = rows
  /\ queued' = queued \union {Place(at, x) : x \in ToSet(live)}
  /\ imported' = [imported EXCEPT
       ![a].consumed = IF Path(at, a, adm.next, asks) = {} THEN @
                       ELSE adm.next + Cardinality(Path(at, a, adm.next, asks)),
       ![a].diverged = @ \/ Path(at, a, adm.next, asks) # DOMAIN asks]
  /\ down' = down \o [i \in DOMAIN answered |-> Answer(answered[i], rows[Place(at, answered[i])].out)]
  /\ lastEvent' = IF asks # <<>> THEN "other" ELSE lastEvent
  /\ \E A \in SUBSET Actor : Pump(A, Waiting(a, live), current, activeAsks, PhasesOf(c, answered, live))
  /\ up' = Tail(up)
  /\ UNCHANGED <<closed, runRow, mode, lives, repairs, nudges, shut, cursor, seen, ending, history>>

\* The admission of an ask, its intermediate values named.
LEMMA AdmitTakes ==
  ASSUME NEW c \in Call, AdmitAsk(c)
  PROVE  \E o, a, adm, at, asks, rows, ended, answered, live :
           Takes(c, o, a, adm, at, asks, rows, ended, answered, live)
<1>1. PICK o \in {ordinal[SiteOf[c]] + 1} :
        \E adm \in {Joining(c, o)}, at \in {[inst EXCEPT ![c] = o]} :
        \E asks \in {Released(adm)} :
        \E rows \in {Journaled(at, ActorOf[c], adm.next, asks)} :
        \E ended \in {{x \in ToSet(asks) : Known(rows[<<SiteOf[x], at[x]>>])}} :
        \E answered \in {Only(asks, ended)}, live \in {Only(asks, ToSet(asks) \ ended)} :
          Matches(c, o) /\ Admit(c, o, adm, at, asks, rows, answered, live)
  BY DEF AdmitAsk
<1>2. PICK adm \in {Joining(c, o)}, at \in {[inst EXCEPT ![c] = o]} :
        \E asks \in {Released(adm)} :
        \E rows \in {Journaled(at, ActorOf[c], adm.next, asks)} :
        \E ended \in {{x \in ToSet(asks) : Known(rows[<<SiteOf[x], at[x]>>])}} :
        \E answered \in {Only(asks, ended)}, live \in {Only(asks, ToSet(asks) \ ended)} :
          Matches(c, o) /\ Admit(c, o, adm, at, asks, rows, answered, live)
  BY <1>1
<1>3. PICK asks \in {Released(adm)} :
        \E rows \in {Journaled(at, ActorOf[c], adm.next, asks)} :
        \E ended \in {{x \in ToSet(asks) : Known(rows[<<SiteOf[x], at[x]>>])}} :
        \E answered \in {Only(asks, ended)}, live \in {Only(asks, ToSet(asks) \ ended)} :
          Matches(c, o) /\ Admit(c, o, adm, at, asks, rows, answered, live)
  BY <1>2
<1>4. PICK rows \in {Journaled(at, ActorOf[c], adm.next, asks)} :
        \E ended \in {{x \in ToSet(asks) : Known(rows[<<SiteOf[x], at[x]>>])}} :
        \E answered \in {Only(asks, ended)}, live \in {Only(asks, ToSet(asks) \ ended)} :
          Matches(c, o) /\ Admit(c, o, adm, at, asks, rows, answered, live)
  BY <1>3
<1>5. PICK ended \in {{x \in ToSet(asks) : Known(rows[<<SiteOf[x], at[x]>>])}} :
        \E answered \in {Only(asks, ended)}, live \in {Only(asks, ToSet(asks) \ ended)} :
          Matches(c, o) /\ Admit(c, o, adm, at, asks, rows, answered, live)
  BY <1>4
<1>6. PICK answered \in {Only(asks, ended)}, live \in {Only(asks, ToSet(asks) \ ended)} :
          Matches(c, o) /\ Admit(c, o, adm, at, asks, rows, answered, live)
  BY <1>5
<1> DEFINE a == ActorOf[c]
<1>7. /\ NextCall(c) /\ c \notin World /\ up' = Tail(up)
      /\ UNCHANGED <<closed, runRow, mode, lives, repairs, nudges, shut, cursor, seen, ending, history>>
  BY DEF AdmitAsk
<1>8. /\ ordinal' = [ordinal EXCEPT ![SiteOf[c]] = o]
      /\ inst' = at
      /\ seq' = [x \in Call |-> IF x \in ToSet(asks)
                                THEN adm.next + (CHOOSE i \in DOMAIN asks : asks[i] = x) - 1
                                ELSE seq[x]]
      /\ admission' = [admission EXCEPT ![a] = AfterDrain(adm)]
      /\ node' = rows
      /\ queued' = queued \union {Place(at, x) : x \in ToSet(live)}
      /\ imported' = [imported EXCEPT
           ![a].consumed = IF Path(at, a, adm.next, asks) = {} THEN @
                           ELSE adm.next + Cardinality(Path(at, a, adm.next, asks)),
           ![a].diverged = @ \/ Path(at, a, adm.next, asks) # DOMAIN asks]
      /\ down' = down \o [i \in DOMAIN answered |-> Answer(answered[i], rows[Place(at, answered[i])].out)]
      /\ lastEvent' = IF asks # <<>> THEN "other" ELSE lastEvent
      /\ Pump(IF RowOf(c, o).out = "absent" THEN Actor ELSE {a}, Waiting(a, live), current, activeAsks,
              PhasesOf(c, answered, live))
  BY <1>6 DEF Admit, Place, Waiting, PhasesOf
<1>9. \E A \in SUBSET Actor : Pump(A, Waiting(a, live), current, activeAsks, PhasesOf(c, answered, live))
  <2>1. a \in Actor
    BY <1>7, Actors
  <2>2. (IF RowOf(c, o).out = "absent" THEN Actor ELSE {a}) \in SUBSET Actor
    BY <2>1
  <2> QED
    BY <1>8, <2>2
<1>10. Asks(c, o, a, adm, at, asks)
  BY <1>6, <1>7 DEF Asks
<1>11. ended = {x \in ToSet(asks) : Known(rows[Place(at, x)])}
  BY DEF Place
<1>12. answered = Only(asks, ended) /\ live = Only(asks, ToSet(asks) \ ended)
       /\ rows = Journaled(at, a, adm.next, asks)
  OBVIOUS
<1> HIDE DEF a
<1>13. Takes(c, o, a, adm, at, asks, rows, ended, answered, live)
  BY <1>7, <1>8, <1>9, <1>10, <1>11, <1>12 DEF Takes
<1> QED
  BY <1>13

\* Who is admitted, and what the journal has of them and of all others.
LEMMA TakeRows ==
  ASSUME IInv, NEW c, NEW o, NEW a, NEW adm, NEW at, NEW asks, NEW rows, NEW ended, NEW answered, NEW live,
         Takes(c, o, a, adm, at, asks, rows, ended, answered, live)
  PROVE  /\ a \in Actor /\ c \in Call /\ c \notin World /\ a = ActorOf[c] /\ Enters(c, o) /\ Live /\ o # 0 /\ c \notin Made
         /\ Made' = Made \cup {c} /\ phase[c] = "idle"
         /\ \A d \in ToSet(asks) : /\ d \in Call /\ d \notin World /\ ActorOf[d] = a /\ d \in Made'
                                   /\ IF d = c THEN phase[d] = "idle" ELSE phase[d] = "held"
         /\ \A d \in ToSet(asks) : ~Known(node[InstanceOf(d)']) =>
              /\ node'[InstanceOf(d)'].input = Input[d] /\ node'[InstanceOf(d)'].actor = a
              /\ node'[InstanceOf(d)'].out \in Outcome \cup {"running"}
         /\ \A d \in Made' : InstanceOf(d)' \in Instance
         /\ \A d \in Made : InstanceOf(d)' = InstanceOf(d)
         /\ \A d \in Made' : d \notin ToSet(asks) => node'[InstanceOf(d)'] = node[InstanceOf(d)']
         /\ node' \in [Instance -> Row \cup {Absent}]
         /\ \A i \in Instance : Known(node[i]) => node'[i] = node[i]
         /\ ToSet(answered) = {x \in ToSet(asks) : Known(node'[InstanceOf(x)'])}
         /\ ToSet(live) = {x \in ToSet(asks) : ~Known(node'[InstanceOf(x)'])}
         /\ answered \in Seq(Call) /\ live \in Seq(Call)
         /\ \A i, j \in DOMAIN live : live[i] = live[j] => i = j
         /\ Placed' /\ Matches(c, o) /\ InstanceOf(c)' = <<SiteOf[c], o>>
<1>0. /\ JournalTyped /\ AdmissionTyped /\ SandboxTyped /\ Numbered
  BY DEF IInv, Types
<1>1. /\ Asks(c, o, a, adm, at, asks)
      /\ rows = Journaled(at, a, adm.next, asks)
      /\ ended = {x \in ToSet(asks) : Known(rows[Place(at, x)])}
      /\ answered = Only(asks, ended) /\ live = Only(asks, ToSet(asks) \ ended)
      /\ inst' = at /\ node' = rows
  BY DEF Takes
<1>2. c \in Call \ World /\ NextCall(c) /\ o = ordinal[SiteOf[c]] + 1 /\ a = ActorOf[c] /\ Live
      /\ at = [inst EXCEPT ![c] = o] /\ Matches(c, o) /\ c \in Call
  BY <1>1 DEF Asks, NextCall
<1>3. Enters(c, o)
  BY <1>1, <1>2 DEF Takes, Enters
<1>4. /\ Made' = Made \cup {c} /\ inst'[c] = o /\ \A d \in Call : d # c => inst'[d] = inst[d]
      /\ \A d \in Made : InstanceOf(d)' = InstanceOf(d)
      /\ Issuing' /\ Numbered' /\ inst' \in [Call -> 0..NCalls]
  BY <1>3, Entering
<1>5. phase[c] = "idle" /\ c \notin Made /\ o \in 1..NCalls /\ <<SiteOf[c], o>> \in Instance
      /\ \A d \in Made : InstanceOf(d) # <<SiteOf[c], o>>
  BY <1>2, NextFacts
<1>6. a \in Actor /\ o # 0
  BY <1>2, <1>5, Actors
<1>7. /\ Admitted(at, a, adm.next, asks)
      /\ \A x, y \in DOMAIN asks : asks[x] = asks[y] => x = y
      /\ \A x \in DOMAIN asks : (asks[x] = c /\ phase[c] = "idle") \/ (asks[x] # c /\ phase[asks[x]] = "held")
      /\ \A x \in DOMAIN asks : asks[x] \in Call \ World /\ ActorOf[asks[x]] = a
  BY <1>1, AdmittedAsks
<1>8. /\ rows \in [Instance -> Row \cup {Absent}]
      /\ \A i \in Instance : Known(node[i]) => rows[i] = node[i]
      /\ \A i \in Instance : (\A x \in DOMAIN asks : i # Place(at, asks[x])) => rows[i] = node[i]
      /\ Placed'
  BY <1>1, <1>7, JournaledRows
<1>9. \A d : Place(at, d) = InstanceOf(d)'
  BY <1>1 DEF Place, InstanceOf
<1>10. \A d \in Made : InstanceOf(d) \in Instance /\ d \in Call
  BY <1>0, Instances
<1>11. InstanceOf(c)' = <<SiteOf[c], o>>
  BY <1>4 DEF InstanceOf
<1>12. ASSUME NEW d \in ToSet(asks)
       PROVE  /\ d \in Call /\ d \notin World /\ ActorOf[d] = a /\ d \in Made'
              /\ IF d = c THEN phase[d] = "idle" ELSE phase[d] = "held"
              /\ ~Known(node[InstanceOf(d)']) =>
                   /\ node'[InstanceOf(d)'].input = Input[d] /\ node'[InstanceOf(d)'].actor = a
                   /\ node'[InstanceOf(d)'].out \in Outcome \cup {"running"}
  <2>1. PICK x \in DOMAIN asks : d = asks[x]
    BY DEF ToSet
  <2>2. d \in Call /\ d \notin World /\ ActorOf[d] = a
        /\ IF d = c THEN phase[d] = "idle" ELSE phase[d] = "held"
    BY <1>7, <2>1
  <2>3. d \in Made'
    BY <1>4, <2>2 DEF IInv, Phased, Made
  <2>4. ~Known(node[Place(at, asks[x])]) =>
          /\ rows[Place(at, asks[x])].actor = a
          /\ rows[Place(at, asks[x])].input = Input[asks[x]]
          /\ rows[Place(at, asks[x])].out =
                        IF node[Place(at, asks[x])].out = "absent" /\ x \in Path(at, a, adm.next, asks)
                        THEN Import[a][adm.next + x].out ELSE "running"
    BY <1>1, <1>7, JournaledRows
  <2>5. x \in Path(at, a, adm.next, asks) => Import[a][adm.next + x].out \in Outcome
    BY <1>7, PathServes, Outcomes
  <2>6. Place(at, asks[x]) = InstanceOf(d)'
    BY <1>9, <2>1
  <2>7. ~Known(node[InstanceOf(d)']) =>
          /\ node'[InstanceOf(d)'].input = Input[d] /\ node'[InstanceOf(d)'].actor = a
          /\ node'[InstanceOf(d)'].out \in Outcome \cup {"running"}
    BY <1>1, <2>1, <2>4, <2>5, <2>6
  <2> QED
    BY <2>2, <2>3, <2>7
<1>13. \A d \in Made' : InstanceOf(d)' \in Instance
  BY <1>4, <1>5, <1>10, <1>11
<1>14. ASSUME NEW d \in Made', d \notin ToSet(asks) PROVE node'[InstanceOf(d)'] = node[InstanceOf(d)']
  <2>1. ASSUME NEW x \in DOMAIN asks PROVE InstanceOf(d)' # Place(at, asks[x])
    <3>1. asks[x] \in ToSet(asks)
      BY DEF ToSet
    <3>2. asks[x] \in Made' /\ asks[x] # d
      BY <1>12, <1>14, <3>1
    <3>3. <<SiteOf[d], inst'[d]>> # <<SiteOf[asks[x]], inst'[asks[x]]>>
      BY <1>4, <3>2 DEF Numbered
    <3> QED
      BY <1>1, <3>3 DEF InstanceOf, Place
  <2> QED
    BY <1>1, <1>8, <1>13, <2>1
<1>15. /\ answered \in Seq(Call) /\ live \in Seq(Call)
       /\ \A i, j \in DOMAIN live : live[i] = live[j] => i = j
       /\ ToSet(answered) = ToSet(asks) \cap ended /\ ToSet(live) = ToSet(asks) \cap (ToSet(asks) \ ended)
  <2>1. asks \in Seq(Call) /\ \A x, y \in DOMAIN asks : asks[x] = asks[y] => x = y
    BY <1>7 DEF Admitted
  <2> DEFINE others == ToSet(asks) \ ended
  <2>2. answered = Only(asks, ended) /\ live = Only(asks, others)
    BY <1>1
  <2> HIDE DEF others
  <2>3. answered \in Seq(Call) /\ ToSet(answered) = ToSet(asks) \cap ended
    BY <2>1, <2>2, Filters
  <2>4. /\ live \in Seq(Call) /\ ToSet(live) = ToSet(asks) \cap others
        /\ \A i, j \in DOMAIN live : live[i] = live[j] => i = j
    BY <2>1, <2>2, Filters
  <2> QED
    BY <2>3, <2>4 DEF others
<1>16. ended = {x \in ToSet(asks) : Known(node'[InstanceOf(x)'])}
  BY <1>1, <1>9
<1>17. ToSet(answered) = {x \in ToSet(asks) : Known(node'[InstanceOf(x)'])}
       /\ ToSet(live) = {x \in ToSet(asks) : ~Known(node'[InstanceOf(x)'])}
  BY <1>15, <1>16
<1>18. /\ a \in Actor /\ c \in Call /\ c \notin World /\ a = ActorOf[c] /\ Enters(c, o) /\ Live /\ o # 0
       /\ c \notin Made /\ Made' = Made \cup {c} /\ phase[c] = "idle"
  BY <1>2, <1>3, <1>4, <1>5, <1>6
<1>19. node' \in [Instance -> Row \cup {Absent}] /\ \A i \in Instance : Known(node[i]) => node'[i] = node[i]
  BY <1>1, <1>8
<1>20. /\ answered \in Seq(Call) /\ live \in Seq(Call)
       /\ \A i, j \in DOMAIN live : live[i] = live[j] => i = j
       /\ Placed' /\ Matches(c, o) /\ InstanceOf(c)' = <<SiteOf[c], o>>
  BY <1>2, <1>8, <1>11, <1>15
<1>21. \A d \in Made : InstanceOf(d)' = InstanceOf(d)
  BY <1>4
<1> QED
  BY <1>12, <1>13, <1>14, <1>17, <1>18, <1>19, <1>20, <1>21

\* The pump that follows: what goes live waits behind those already in line.
LEMMA TakePump ==
  ASSUME IInv, NEW c, NEW o, NEW a, NEW adm, NEW at, NEW asks, NEW rows, NEW ended, NEW answered, NEW live,
         Takes(c, o, a, adm, at, asks, rows, ended, answered, live)
  PROVE  \E A \in SUBSET Actor :
           Pumping(A, Waiting(a, live), current, activeAsks, PhasesOf(c, answered, live))
<1> DEFINE q == Waiting(a, live)
           ph == PhasesOf(c, answered, live)
<1>1. /\ a \in Actor /\ c \in Call /\ c \notin World /\ a = ActorOf[c] /\ Live /\ phase[c] = "idle"
      /\ \A d \in ToSet(asks) : /\ d \in Call /\ d \notin World /\ ActorOf[d] = a
                                /\ IF d = c THEN phase[d] = "idle" ELSE phase[d] = "held"
      /\ ToSet(answered) = {x \in ToSet(asks) : Known(node'[InstanceOf(x)'])}
      /\ ToSet(live) = {x \in ToSet(asks) : ~Known(node'[InstanceOf(x)'])}
      /\ answered \in Seq(Call) /\ live \in Seq(Call)
      /\ \A i, j \in DOMAIN live : live[i] = live[j] => i = j
  BY TakeRows
<1>2. /\ DispatchTyped /\ Dispatching(liveQueue, current, activeAsks, phase)
      /\ phase \in [Call -> Phase] /\ current \in [Actor -> Call \cup {NoCall}]
      /\ liveQueue \in [Actor -> Seq(Call)] /\ activeAsks \in Nat
  BY <1>1, CapsAssumption DEF IInv, Types, Slotted, DispatchTyped, Phase
<1>3. /\ ph \in [Call -> Phase]
      /\ \A d \in Call : IF d \in ToSet(live) THEN ph[d] = "queued"
                         ELSE IF d \in ToSet(answered) THEN ph[d] = "answered"
                         ELSE IF d = c THEN ph[d] = "held" ELSE ph[d] = phase[d]
  BY <1>2 DEF PhasesOf, Phase
<1>4. \A d \in Call : phase[d] \notin {"idle", "held"} => d \notin ToSet(asks) /\ d # c /\ ph[d] = phase[d]
  BY <1>1, <1>3
<1>5. \A b \in Actor : \A i \in DOMAIN liveQueue[b] : liveQueue[b][i] \in Call
        /\ ActorOf[liveQueue[b][i]] = b /\ phase[liveQueue[b][i]] = "queued" /\ ph[liveQueue[b][i]] = "queued"
        /\ liveQueue[b][i] \notin ToSet(asks)
  <2>1. ASSUME NEW b \in Actor, NEW i \in DOMAIN liveQueue[b]
        PROVE  liveQueue[b][i] \in Call
                 /\ ActorOf[liveQueue[b][i]] = b /\ phase[liveQueue[b][i]] = "queued" /\ ph[liveQueue[b][i]] = "queued"
                 /\ liveQueue[b][i] \notin ToSet(asks)
    <3>1. liveQueue[b] \in Seq(Call)
      BY <1>2
    <3>2. liveQueue[b][i] \in Call
      BY <3>1
    <3>3. ActorOf[liveQueue[b][i]] = b /\ phase[liveQueue[b][i]] = "queued"
      BY <1>2 DEF Dispatching
    <3> QED
      BY <1>4, <3>2, <3>3
  <2> QED
    BY <2>1
<1>6. \A i \in DOMAIN live : live[i] \in ToSet(live) /\ live[i] \in ToSet(asks) /\ live[i] \in Call
                             /\ ActorOf[live[i]] = a /\ ph[live[i]] = "queued"
  <2>1. \A i \in DOMAIN live : live[i] \in ToSet(live)
    BY DEF ToSet
  <2> QED
    BY <1>1, <1>3, <2>1
<1>7. /\ q[a] = liveQueue[a] \o live /\ \A b \in Actor : b # a => q[b] = liveQueue[b]
      /\ q = [b \in Actor |-> q[b]]
  BY <1>1, <1>2 DEF Waiting
<1> HIDE DEF q, ph
<1>8. /\ q[a] \in Seq(Call)
      /\ \A i \in DOMAIN q[a] : (\E j \in DOMAIN liveQueue[a] : q[a][i] = liveQueue[a][j])
                                \/ (\E j \in DOMAIN live : q[a][i] = live[j])
      /\ \A i, j \in DOMAIN q[a] : q[a][i] = q[a][j] => i = j
  <2> DEFINE s == liveQueue[a]
  <2>1. s \in Seq(Call) /\ \A i, j \in DOMAIN s : s[i] = s[j] => i = j
    BY <1>1, <1>2 DEF Dispatching
  <2>2. \A i \in DOMAIN s, j \in DOMAIN live : s[i] # live[j]
    BY <1>1, <1>5, <1>6
  <2>3. q[a] = s \o live
    BY <1>7
  <2>4. live \in Seq(Call) /\ \A i, j \in DOMAIN live : live[i] = live[j] => i = j
    BY <1>1
  <2> HIDE DEF s
  <2>5. /\ s \o live \in Seq(Call)
        /\ \A i \in DOMAIN (s \o live) : (\E j \in DOMAIN s : (s \o live)[i] = s[j]) \/ (\E j \in DOMAIN live : (s \o live)[i] = live[j])
        /\ \A i, j \in DOMAIN (s \o live) : (s \o live)[i] = (s \o live)[j] => i = j
    BY <2>1, <2>2, <2>4, Joins
  <2> QED
    BY <2>3, <2>5 DEF s
<1>9. q \in [Actor -> Seq(Call)]
  <2>1. \A b \in Actor : q[b] \in Seq(Call)
    BY <1>2, <1>7, <1>8
  <2> QED
    BY <1>7, <2>1
<1>10. Dispatching(q, current, activeAsks, ph)
  <2>1. activeAsks = Cardinality({b \in Actor : current[b] # NoCall}) /\ activeAsks <= MaxConcurrency
    BY <1>2 DEF Dispatching
  <2>2. \A b \in Actor : \A i \in DOMAIN q[b] : ActorOf[q[b][i]] = b /\ ph[q[b][i]] = "queued"
    <3>1. ASSUME NEW b \in Actor, NEW i \in DOMAIN q[b] PROVE ActorOf[q[b][i]] = b /\ ph[q[b][i]] = "queued"
      <4>1. CASE b = a
        BY <1>1, <1>5, <1>6, <1>8, <3>1, <4>1
      <4>2. CASE b # a
        BY <1>5, <1>7, <3>1, <4>2
      <4> QED
        BY <4>1, <4>2
    <3> QED
      BY <3>1
  <2>3. \A b \in Actor : \A i, j \in DOMAIN q[b] : q[b][i] = q[b][j] => i = j
    <3>1. ASSUME NEW b \in Actor, b # a PROVE \A i, j \in DOMAIN q[b] : q[b][i] = q[b][j] => i = j
      BY <1>2, <1>7, <3>1 DEF Dispatching
    <3> QED
      BY <1>8, <3>1
  <2>4. \A b \in Actor : current[b] # NoCall => ActorOf[current[b]] = b /\ ph[current[b]] \in {"opening", "running"}
    BY <1>2, <1>4 DEF Dispatching
  <2>5. ASSUME NEW d \in Call \ World, ph[d] \in {"opening", "running"} PROVE current[ActorOf[d]] = d
    <3>1. ph[d] = phase[d]
      BY <1>3, <2>5
    <3> QED
      BY <1>2, <2>5, <3>1 DEF Dispatching
  <2> QED
    BY <2>1, <2>2, <2>3, <2>4, <2>5 DEF Dispatching
<1>11. PICK A \in SUBSET Actor : Pump(A, q, current, activeAsks, ph)
  BY DEF Takes, q, ph
<1>12. Pumping(A, q, current, activeAsks, ph)
  BY <1>2, <1>3, <1>9, <1>10, <1>11 DEF Pumping
<1> QED
  BY <1>12 DEF q, ph

\* The phases after it: the pump starts some of the waiting asks.
LEMMA TakePhases ==
  ASSUME IInv, NEW c, NEW o, NEW a, NEW adm, NEW at, NEW asks, NEW rows, NEW ended, NEW answered, NEW live,
         Takes(c, o, a, adm, at, asks, rows, ended, answered, live)
  PROVE  /\ Dispatching(liveQueue', current', activeAsks', phase')
         /\ DispatchTyped'
         /\ \A d \in Call : IF d \in ToSet(live) THEN phase'[d] \in {"queued", "opening"}
                            ELSE IF d \in ToSet(answered) THEN phase'[d] = "answered"
                            ELSE IF d = c THEN phase'[d] = "held"
                            ELSE \/ phase'[d] = phase[d]
                                 \/ phase[d] = "queued" /\ phase'[d] = "opening" /\ d \notin World
<1> DEFINE q == Waiting(a, live)
           ph == PhasesOf(c, answered, live)
<1>1. /\ a \in Actor /\ c \in Call /\ c \notin World /\ a = ActorOf[c] /\ Live /\ phase[c] = "idle"
      /\ \A d \in ToSet(asks) : /\ d \in Call /\ d \notin World /\ ActorOf[d] = a
                                /\ IF d = c THEN phase[d] = "idle" ELSE phase[d] = "held"
      /\ ToSet(answered) = {x \in ToSet(asks) : Known(node'[InstanceOf(x)'])}
      /\ ToSet(live) = {x \in ToSet(asks) : ~Known(node'[InstanceOf(x)'])}
      /\ answered \in Seq(Call) /\ live \in Seq(Call)
      /\ \A i, j \in DOMAIN live : live[i] = live[j] => i = j
  BY TakeRows
<1>2. /\ DispatchTyped /\ Dispatching(liveQueue, current, activeAsks, phase)
      /\ phase \in [Call -> Phase] /\ current \in [Actor -> Call \cup {NoCall}]
      /\ liveQueue \in [Actor -> Seq(Call)] /\ activeAsks \in Nat
  BY <1>1, CapsAssumption DEF IInv, Types, Slotted, DispatchTyped, Phase
<1>3. /\ ph \in [Call -> Phase]
      /\ \A d \in Call : IF d \in ToSet(live) THEN ph[d] = "queued"
                         ELSE IF d \in ToSet(answered) THEN ph[d] = "answered"
                         ELSE IF d = c THEN ph[d] = "held" ELSE ph[d] = phase[d]
  BY <1>2 DEF PhasesOf, Phase
<1> HIDE DEF q, ph
<1>12. PICK A \in SUBSET Actor : Pumping(A, q, current, activeAsks, ph)
  BY TakePump DEF q, ph
<1>13. /\ Dispatching(liveQueue', current', activeAsks', phase')
       /\ liveQueue' \in [Actor -> Seq(Call)] /\ current' \in [Actor -> Call \cup {NoCall}]
       /\ session' \in [Actor -> {"none", "creating", "ready", "failed"}]
       /\ activeAsks' \in 0..MaxConcurrency /\ phase' \in [Call -> Phase]
       /\ \A d \in Call : \/ phase'[d] = ph[d]
                          \/ ph[d] = "queued" /\ phase'[d] = "opening" /\ d \notin World
  BY <1>2, <1>12, PumpKeeps
<1>14. DispatchTyped'
  BY <1>2, <1>13 DEF DispatchTyped, Takes, Phase
<1>15. ASSUME NEW d \in Call
       PROVE  IF d \in ToSet(live) THEN phase'[d] \in {"queued", "opening"}
              ELSE IF d \in ToSet(answered) THEN phase'[d] = "answered"
              ELSE IF d = c THEN phase'[d] = "held"
              ELSE \/ phase'[d] = phase[d]
                   \/ phase[d] = "queued" /\ phase'[d] = "opening" /\ d \notin World
  BY <1>3, <1>13
<1> QED
  BY <1>13, <1>14, <1>15

\* What each call's row is after it.
LEMMA TakeFits ==
  ASSUME IInv, NEW c, NEW o, NEW a, NEW adm, NEW at, NEW asks, NEW rows, NEW ended, NEW answered, NEW live,
         Takes(c, o, a, adm, at, asks, rows, ended, answered, live)
  PROVE  Fitting' /\ Phased'
<1>1. /\ c \in Call /\ c \notin World /\ Live /\ o # 0 /\ c \notin Made
      /\ Made' = Made \cup {c} /\ phase[c] = "idle"
      /\ \A d \in ToSet(asks) : /\ d \in Call /\ d \notin World /\ d \in Made'
                                /\ IF d = c THEN phase[d] = "idle" ELSE phase[d] = "held"
      /\ \A d \in ToSet(asks) : ~Known(node[InstanceOf(d)']) =>
           /\ node'[InstanceOf(d)'].input = Input[d]
           /\ node'[InstanceOf(d)'].out \in Outcome \cup {"running"}
      /\ \A d \in Made' : InstanceOf(d)' \in Instance
      /\ \A d \in Made : InstanceOf(d)' = InstanceOf(d)
      /\ \A d \in Made' : d \notin ToSet(asks) => node'[InstanceOf(d)'] = node[InstanceOf(d)']
      /\ \A i \in Instance : Known(node[i]) => node'[i] = node[i]
      /\ ToSet(answered) = {x \in ToSet(asks) : Known(node'[InstanceOf(x)'])}
      /\ ToSet(live) = {x \in ToSet(asks) : ~Known(node'[InstanceOf(x)'])}
      /\ Matches(c, o) /\ InstanceOf(c)' = <<SiteOf[c], o>> /\ Enters(c, o)
  BY TakeRows
<1>2. inst'[c] = o /\ \A d \in Call : d # c => inst'[d] = inst[d]
  BY <1>1, Entering
<1>3. \A d \in Call : IF d \in ToSet(live) THEN phase'[d] \in {"queued", "opening"}
                      ELSE IF d \in ToSet(answered) THEN phase'[d] = "answered"
                      ELSE IF d = c THEN phase'[d] = "held"
                      ELSE \/ phase'[d] = phase[d]
                           \/ phase[d] = "queued" /\ phase'[d] = "opening" /\ d \notin World
  BY TakePhases
<1>4. Fitting /\ Phased /\ World \subseteq Call /\ Made \subseteq Call
  BY Actors DEF IInv, Made
<1>5. ASSUME NEW d \in Made' PROVE node'[InstanceOf(d)'].out # "absent" => node'[InstanceOf(d)'].input = Input[d]
  <2>1. node[InstanceOf(d)'].out # "absent" => node[InstanceOf(d)'].input = Input[d]
    <3>1. CASE d = c
      BY <1>1, <3>1 DEF Matches, RowOf
    <3>2. CASE d # c
      <4>1. d \in Made
        BY <1>1, <3>2
      <4>2. node[InstanceOf(d)].out # "absent" => node[InstanceOf(d)].input = Input[d]
        BY <1>4, <4>1 DEF Fitting, Matches, RowOf, InstanceOf
      <4> QED
        BY <1>1, <4>1, <4>2
    <3> QED
      BY <3>1, <3>2
  <2>2. CASE d \in ToSet(asks) /\ ~Known(node[InstanceOf(d)'])
    BY <1>1, <2>2
  <2>3. CASE ~(d \in ToSet(asks) /\ ~Known(node[InstanceOf(d)']))
    <3>1. node'[InstanceOf(d)'] = node[InstanceOf(d)']
      BY <1>1, <2>3
    <3> QED
      BY <2>1, <3>1
  <2> QED
    BY <2>2, <2>3
<1>6. Fitting'
  <2>1. ASSUME NEW d \in Made' PROVE Matches(d, inst[d])'
    <3>1. InstanceOf(d)' = <<SiteOf[d], inst'[d]>>
      BY DEF InstanceOf
    <3> QED
      BY <1>5, <3>1 DEF Matches, RowOf
  <2> QED
    BY <2>1 DEF Fitting
<1>7. \A d \in ToSet(asks) : d \in ToSet(live) \/ d \in ToSet(answered)
  BY <1>1
<1>8. ASSUME NEW d \in Call PROVE phase'[d] = "idle" <=> inst'[d] = 0
  <2>1. CASE d \in ToSet(asks)
    <3>1. phase'[d] # "idle"
      BY <1>3, <1>7, <2>1
    <3>2. d \in Made'
      BY <1>1, <2>1
    <3> QED
      BY <3>1, <3>2 DEF Made
  <2>2. CASE d \notin ToSet(asks) /\ d = c
    BY <1>1, <1>2, <1>3, <2>2
  <2>3. CASE d \notin ToSet(asks) /\ d # c
    <3>1. phase'[d] = phase[d] \/ (phase[d] = "queued" /\ phase'[d] = "opening")
      BY <1>1, <1>3, <2>3
    <3> QED
      BY <1>2, <1>4, <2>3, <3>1 DEF Phased
  <2> QED
    BY <2>1, <2>2, <2>3
<1>9. ASSUME NEW d \in World PROVE phase'[d] \in {"idle", "running", "answered"}
  <2>1. d \in Call /\ d # c /\ d \notin ToSet(asks)
    BY <1>1, <1>4
  <2>2. phase'[d] = phase[d]
    BY <1>1, <1>3, <2>1
  <2> QED
    BY <1>4, <2>2 DEF Phased
<1>10. ASSUME NEW d \in Made', phase'[d] \in Executed PROVE node'[InstanceOf(d)'].out = "running"
  <2>0. d \in Call
    BY <1>1, <1>4
  <2>1. CASE d \in ToSet(live)
    <3>1. ~Known(node'[InstanceOf(d)']) /\ InstanceOf(d)' \in Instance /\ d \in ToSet(asks)
      BY <1>1, <2>1
    <3>2. ~Known(node[InstanceOf(d)'])
      BY <1>1, <3>1
    <3>3. node'[InstanceOf(d)'].out \in Outcome \cup {"running"}
      BY <1>1, <3>1, <3>2
    <3> QED
      BY <3>1, <3>3 DEF Known
  <2>2. CASE d \notin ToSet(live)
    <3>1. d \notin ToSet(answered) /\ d # c
      BY <1>3, <1>10, <2>0, <2>2 DEF Executed
    <3>2. phase[d] \in Executed /\ d \in Made /\ d \notin ToSet(asks)
      BY <1>1, <1>3, <1>7, <1>10, <2>0, <2>2, <3>1 DEF Executed
    <3>3. node[InstanceOf(d)].out = "running"
      BY <1>4, <3>2 DEF Phased
    <3> QED
      BY <1>1, <3>2, <3>3
  <2> QED
    BY <2>1, <2>2
<1>11. ASSUME NEW d \in Made', phase'[d] = "answered" PROVE Known(node'[InstanceOf(d)'])
  <2>0. d \in Call
    BY <1>1, <1>4
  <2>1. CASE d \in ToSet(answered)
    BY <1>1, <2>1
  <2>2. CASE d \notin ToSet(answered)
    <3>1. d \notin ToSet(live) /\ d # c
      BY <1>3, <1>11, <2>0, <2>2
    <3>2. phase[d] = "answered" /\ d \in Made /\ d \notin ToSet(asks)
      BY <1>1, <1>3, <1>7, <1>11, <2>0, <2>2, <3>1
    <3>3. Known(node[InstanceOf(d)])
      BY <1>1, <1>4, <3>2 DEF Phased
    <3> QED
      BY <1>1, <3>2, <3>3
  <2> QED
    BY <2>1, <2>2
<1>12. Phased'
  BY <1>8, <1>9, <1>10, <1>11 DEF Phased
<1> QED
  BY <1>6, <1>12

\* What the script is told.
LEMMA TakeAnswers ==
  ASSUME IInv, NEW c, NEW o, NEW a, NEW adm, NEW at, NEW asks, NEW rows, NEW ended, NEW answered, NEW live,
         Takes(c, o, a, adm, at, asks, rows, ended, answered, live)
  PROVE  SandboxTyped' /\ Answering'
<1> DEFINE R == [call : Call, out : Outcome]
           told2 == [i \in DOMAIN answered |-> Answer(answered[i], rows[Place(at, answered[i])].out)]
<1>1. /\ c \in Call /\ c \notin Made /\ Made \subseteq Call
      /\ \A d \in ToSet(asks) : d \in Call /\ d \in Made'
      /\ \A i \in Instance : Known(node[i]) => node'[i] = node[i]
      /\ ToSet(answered) = {x \in ToSet(asks) : Known(node'[InstanceOf(x)'])}
      /\ answered \in Seq(Call) /\ Enters(c, o)
  BY TakeRows DEF Made
<1>2. \A d \in Call : d # c => inst'[d] = inst[d]
  BY <1>1, Entering
<1>3. node' = rows /\ inst' = at /\ down' = down \o told2 /\ UNCHANGED <<seen, ending>>
  BY DEF Takes
<1>4. ASSUME NEW i \in DOMAIN answered
      PROVE  /\ told2[i] \in R /\ inst'[told2[i].call] # 0
             /\ node'[<<SiteOf[told2[i].call], inst'[told2[i].call]>>].out = told2[i].out
  <2>1. answered[i] \in ToSet(answered)
    BY DEF ToSet
  <2>2. answered[i] \in Call /\ Known(node'[InstanceOf(answered[i])']) /\ answered[i] \in Made'
    BY <1>1, <2>1
  <2>3. told2[i] = [call |-> answered[i], out |-> rows[Place(at, answered[i])].out]
    BY DEF Answer
  <2>4. Place(at, answered[i]) = <<SiteOf[answered[i]], inst'[answered[i]]>>
        /\ InstanceOf(answered[i])' = <<SiteOf[answered[i]], inst'[answered[i]]>>
    BY <1>3 DEF Place, InstanceOf
  <2>5. rows[Place(at, answered[i])].out \in Outcome
    BY <1>3, <2>2, <2>4 DEF Known
  <2> HIDE DEF told2
  <2>6. told2[i] \in R /\ told2[i].call = answered[i] /\ told2[i].out = rows[Place(at, answered[i])].out
    BY <2>2, <2>3, <2>5
  <2> QED
    BY <1>3, <2>2, <2>4, <2>6 DEF Made
<1>5. down \in Seq(R) /\ SandboxTyped
  BY DEF IInv, Types, SandboxTyped
<1>6. told2 \in Seq(R) /\ DOMAIN told2 = 1..Len(told2) /\ DOMAIN told2 = DOMAIN answered
  <2>1. DOMAIN answered = 1..Len(answered) /\ Len(answered) \in Nat /\ DOMAIN told2 = DOMAIN answered
    BY <1>1
  <2>2. told2 = [i \in 1..Len(answered) |-> told2[i]]
    BY <2>1
  <2>3. \A i \in 1..Len(answered) : told2[i] \in R
    BY <1>4, <2>1
  <2> HIDE DEF told2, R
  <2>4. told2 \in Seq(R)
    BY <2>1, <2>2, <2>3
  <2> QED
    BY <2>1, <2>4
<1> HIDE DEF told2, R
<1>7. /\ down' \in Seq(R)
      /\ \A i \in DOMAIN down' : (\E j \in DOMAIN down : down'[i] = down[j])
                                 \/ (\E j \in DOMAIN told2 : down'[i] = told2[j])
  BY <1>3, <1>5, <1>6
<1>8. SandboxTyped'
  <2>1. up' \in Seq(Call)
    BY <1>1, Entering
  <2> QED
    BY <1>3, <1>5, <1>7, <2>1 DEF SandboxTyped, R
<1>9. \A d \in Made : inst'[d] = inst[d]
  BY <1>1, <1>2
<1>10. \A i \in DOMAIN down' :
         \/ \E j \in DOMAIN down : down'[i] = down[j]
         \/ /\ inst'[down'[i].call] # 0
            /\ node'[<<SiteOf[down'[i].call], inst'[down'[i].call]>>].out = down'[i].out
  <2>1. ASSUME NEW i \in DOMAIN down', NEW j \in DOMAIN told2, down'[i] = told2[j]
        PROVE  /\ inst'[down'[i].call] # 0
               /\ node'[<<SiteOf[down'[i].call], inst'[down'[i].call]>>].out = down'[i].out
    BY <1>4, <1>6, <2>1
  <2> QED
    BY <1>7, <2>1
<1>11. Answering'
  <2>1. UNCHANGED seen
    BY <1>3
  <2> QED
    BY <1>1, <1>9, <1>10, <2>1, AnswersHold
<1> QED
  BY <1>8, <1>11

\* The types of the journal and of the admission state.
LEMMA TakeTypes ==
  ASSUME IInv, NEW c, NEW o, NEW a, NEW adm, NEW at, NEW asks, NEW rows, NEW ended, NEW answered, NEW live,
         Takes(c, o, a, adm, at, asks, rows, ended, answered, live)
  PROVE  JournalTyped' /\ ControlTyped' /\ AdmissionTyped'
<1>1. /\ a \in Actor /\ c \in Call /\ Enters(c, o) /\ a = ActorOf[c]
      /\ \A d \in ToSet(asks) : d \in Call /\ d \in Made'
      /\ \A d \in Made' : InstanceOf(d)' \in Instance
      /\ ToSet(live) = {x \in ToSet(asks) : ~Known(node'[InstanceOf(x)'])}
      /\ node' \in [Instance -> Row \cup {Absent}]
  BY TakeRows
<1>2. ordinal' \in [Site -> 0..NCalls] /\ inst' \in [Call -> 0..NCalls]
  BY <1>1, Entering
<1>3. Asks(c, o, a, adm, at, asks) /\ inst' = at
  BY DEF Takes
<1>4. /\ Admitted(at, a, adm.next, asks) /\ adm.next + Len(asks) = Drained(adm)
      /\ \A x, y \in DOMAIN asks : asks[x] = asks[y] => x = y
      /\ DOMAIN asks = 1..Len(asks) /\ Len(asks) \in Nat
  BY <1>3, AdmittedAsks
<1>5. /\ adm \in Admission /\ Roomy(adm, Cardinality(MadeBy(a)) + 1) /\ Roomy(adm, NCalls) /\ Once(adm)
  BY <1>3, JoiningKeeps
<1>6. adm.next \in Nat /\ adm.next + Len(asks) <= NCalls /\ NCalls \in Nat
  BY <1>4, SizeAssumption DEF Admitted
<1>7. Types /\ JournalTyped /\ ControlTyped /\ AdmissionTyped
  BY DEF IInv, Types
<1>8. JournalTyped'
  <2>1. \A x \in ToSet(live) : Place(at, x) \in Instance
    <3>1. ASSUME NEW x \in ToSet(live) PROVE Place(at, x) \in Instance
      <4>1. InstanceOf(x)' \in Instance
        BY <1>1, <3>1
      <4>2. Place(at, x) = InstanceOf(x)'
        BY <1>3 DEF Place, InstanceOf
      <4> QED
        BY <4>1, <4>2
    <3> QED
      BY <3>1
  <2>2. queued' \subseteq Instance
    <3>1. queued' = queued \union {Place(at, x) : x \in ToSet(live)}
      BY DEF Takes
    <3> QED
      BY <1>7, <2>1, <3>1 DEF JournalTyped
  <2>3. lastEvent' = (IF asks # <<>> THEN "other" ELSE lastEvent) /\ UNCHANGED <<closed, runRow>>
    BY DEF Takes
  <2> QED
    BY <1>1, <1>7, <2>2, <2>3 DEF JournalTyped
<1>9. ControlTyped'
  <2>1. UNCHANGED <<mode, lives, history>>
    BY DEF Takes
  <2> QED
    BY <1>7, <2>1, TypeFrames
<1>10. seq' \in [Call -> 0..NCalls]
  <2>1. ASSUME NEW x \in ToSet(asks)
        PROVE  adm.next + (CHOOSE i \in DOMAIN asks : asks[i] = x) - 1 \in 0..NCalls
    <3>1. \E i \in DOMAIN asks : asks[i] = x
      BY <2>1 DEF ToSet
    <3> DEFINE i == CHOOSE i \in DOMAIN asks : asks[i] = x
    <3>2. i \in DOMAIN asks
      BY <3>1
    <3> HIDE DEF i
    <3>3. i \in 1..Len(asks)
      BY <1>4, <3>2
    <3>4. adm.next + i - 1 \in 0..NCalls
      BY <1>4, <1>6, <3>3
    <3> QED
      BY <3>4 DEF i
  <2>2. seq' = [x \in Call |-> IF x \in ToSet(asks)
                               THEN adm.next + (CHOOSE i \in DOMAIN asks : asks[i] = x) - 1
                               ELSE seq[x]]
    BY DEF Takes
  <2>3. seq \in [Call -> 0..NCalls]
    BY <1>7 DEF AdmissionTyped
  <2>4. ASSUME NEW x \in Call PROVE seq'[x] \in 0..NCalls
    <3>1. CASE x \in ToSet(asks)
      <4>1. seq'[x] = adm.next + (CHOOSE i \in DOMAIN asks : asks[i] = x) - 1
        BY <2>2, <3>1
      <4> QED
        BY <2>1, <3>1, <4>1
    <3>2. CASE x \notin ToSet(asks)
      <4>1. seq'[x] = seq[x]
        BY <2>2, <3>2
      <4> QED
        BY <2>3, <4>1
    <3> QED
      BY <3>1, <3>2
  <2>5. seq' = [x \in Call |-> seq'[x]]
    BY <2>2
  <2> QED
    BY <2>4, <2>5
<1>11. admission' \in [Actor -> Admission]
  <2> DEFINE n == Cardinality(MadeBy(a)) + 1
  <2>1. n \in Nat /\ n <= NCalls
    <3>1. o = ordinal[SiteOf[c]] + 1 /\ NextCall(c)
      BY <1>1 DEF Enters
    <3>2. Cardinality(MadeBy(a)) \in Nat /\ Cardinality(MadeBy(a)) + 1 <= NCalls
      BY <1>1, <3>1, NextFacts
    <3> QED
      BY <3>2
  <2> HIDE DEF n
  <2>2. AfterDrain(adm) \in Admission
    BY <1>5, <2>1, Remains DEF n
  <2>3. admission' = [admission EXCEPT ![a] = AfterDrain(adm)] /\ admission \in [Actor -> Admission]
    BY <1>7 DEF Takes, AdmissionTyped
  <2> QED
    BY <2>2, <2>3
<1>12. imported' \in [Actor -> [consumed : 0..NCalls, diverged : BOOLEAN]]
  <2> DEFINE P == Path(at, a, adm.next, asks)
             old == imported[a]
             n == IF P = {} THEN old.consumed ELSE adm.next + Cardinality(P)
             b == old.diverged \/ P # DOMAIN asks
  <2>1. P \subseteq 1..Len(asks)
    BY <1>4, PathServes
  <2>2. IsFiniteSet(1..Len(asks)) /\ Cardinality(1..Len(asks)) = Len(asks)
    <3>1. Len(asks) \in Int /\ 1 \in Int
      BY <1>4
    <3>2. IsFiniteSet(1..Len(asks)) /\ Cardinality(1..Len(asks)) = IF 1 > Len(asks) THEN 0 ELSE Len(asks) - 1 + 1
      BY <3>1, FiniteRange
    <3> QED
      BY <1>4, <3>2
  <2>3. old.consumed \in 0..NCalls /\ old.diverged \in BOOLEAN /\ imported \in [Actor -> [consumed : 0..NCalls, diverged : BOOLEAN]]
        /\ old = [consumed |-> old.consumed, diverged |-> old.diverged]
    BY <1>1, <1>7 DEF AdmissionTyped
  <2>4. imported' = [imported EXCEPT ![a].consumed = IF P = {} THEN @ ELSE adm.next + Cardinality(P),
                                     ![a].diverged = @ \/ P # DOMAIN asks]
    BY DEF Takes
  <2>5. imported' = [imported EXCEPT ![a] = [consumed |-> n, diverged |-> b]]
    <3> HIDE DEF P
    <3>1. imported'[a] = [consumed |-> n, diverged |-> b]
      BY <1>1, <2>3, <2>4
    <3>2. \A d \in Actor : d # a => imported'[d] = imported[d]
      BY <1>1, <2>3, <2>4
    <3>3. imported' = [d \in Actor |-> imported'[d]]
      BY <1>1, <2>3, <2>4
    <3> HIDE DEF n, b, old
    <3> QED
      BY <1>1, <2>3, <3>1, <3>2, <3>3
  <2> HIDE DEF P, old
  <2>6. Cardinality(P) \in Nat /\ Cardinality(P) <= Len(asks)
    BY <2>1, <2>2, FinitePart
  <2>7. n \in 0..NCalls
    BY <1>4, <1>6, <2>3, <2>6
  <2>8. b \in BOOLEAN
    OBVIOUS
  <2> HIDE DEF n, b
  <2> QED
    BY <1>1, <2>3, <2>5, <2>7, <2>8
<1>13. shut' \in BOOLEAN /\ cursor' \in [DOMAIN ImportWorld -> 0..NCalls]
  BY <1>7 DEF Takes, AdmissionTyped
<1>14. AdmissionTyped'
  BY <1>2, <1>10, <1>11, <1>12, <1>13 DEF AdmissionTyped
<1> QED
  BY <1>8, <1>9, <1>14

\* What the admissions hold.
LEMMA TakeHolds ==
  ASSUME IInv, NEW c, NEW o, NEW a, NEW adm, NEW at, NEW asks, NEW rows, NEW ended, NEW answered, NEW live,
         Takes(c, o, a, adm, at, asks, rows, ended, answered, live)
  PROVE  Holding'
<1> DEFINE n == Cardinality(MadeBy(a))
<1>1. /\ a \in Actor /\ c \in Call /\ c \notin World /\ a = ActorOf[c] /\ Enters(c, o) /\ phase[c] = "idle"
      /\ \A d \in ToSet(asks) : ActorOf[d] = a
      /\ ToSet(answered) = {x \in ToSet(asks) : Known(node'[InstanceOf(x)'])}
      /\ ToSet(live) = {x \in ToSet(asks) : ~Known(node'[InstanceOf(x)'])}
  BY TakeRows
<1>2. (\A b : b # a => MadeBy(b)' = MadeBy(b)) /\ Cardinality(MadeBy(a))' = n + 1
  BY <1>1, Entering
<1>3. \A d \in Call : IF d \in ToSet(live) THEN phase'[d] \in {"queued", "opening"}
                      ELSE IF d \in ToSet(answered) THEN phase'[d] = "answered"
                      ELSE IF d = c THEN phase'[d] = "held"
                      ELSE \/ phase'[d] = phase[d]
                           \/ phase[d] = "queued" /\ phase'[d] = "opening" /\ d \notin World
  BY TakePhases
<1>4. Asks(c, o, a, adm, at, asks) /\ admission' = [admission EXCEPT ![a] = AfterDrain(adm)]
      /\ asks = Released(adm)
  BY DEF Takes, Asks
<1>5. /\ adm \in Admission /\ Roomy(adm, n + 1) /\ Roomy(adm, NCalls) /\ Once(adm)
      /\ Holds(adm) \subseteq Holds(admission[a]) \cup {c}
  BY <1>4, JoiningKeeps
<1>6. admission \in [Actor -> Admission] /\ Holding
  BY DEF IInv, Types, AdmissionTyped
<1>7. n + 1 \in Nat /\ n + 1 <= NCalls
  <2>1. o = ordinal[SiteOf[c]] + 1 /\ NextCall(c)
    BY <1>1 DEF Enters
  <2>2. Cardinality(MadeBy(a)) \in Nat /\ Cardinality(MadeBy(a)) + 1 <= NCalls
    BY <1>1, <2>1, NextFacts
  <2> QED
    BY <2>2
<1> HIDE DEF n
<1>8. /\ Roomy(AfterDrain(adm), n + 1) /\ Once(AfterDrain(adm)) /\ AfterDrain(adm) \in Admission
      /\ Holds(AfterDrain(adm)) \subseteq Holds(adm)
      /\ \A i \in DOMAIN asks : asks[i] \notin Holds(AfterDrain(adm))
  BY <1>4, <1>5, <1>7, Remains
<1>9. \A d \in Call : d \notin ToSet(asks) /\ d # c /\ phase[d] = "held" => phase'[d] = "held"
  BY <1>1, <1>3
<1>10. \A d \in ToSet(asks) : d \notin Holds(AfterDrain(adm))
  BY <1>8 DEF ToSet
<1>11. ASSUME NEW d \in Holds(AfterDrain(adm)) PROVE ActorOf[d] = a /\ phase'[d] = "held"
  <2>1. d \in Call /\ d \notin ToSet(asks) /\ (d \in Holds(admission[a]) \/ d = c)
    BY <1>5, <1>8, <1>10, <1>11, HeldCalls
  <2>2. CASE d = c
    BY <1>1, <1>3, <2>1, <2>2
  <2>3. CASE d # c
    BY <1>1, <1>6, <1>9, <2>1, <2>3 DEF Holding
  <2> QED
    BY <2>2, <2>3
<1>12. ASSUME NEW b \in Actor
       PROVE  /\ Roomy(admission'[b], Cardinality(MadeBy(b)')) /\ Once(admission'[b])
              /\ \A d \in Holds(admission'[b]) : ActorOf[d] = b /\ phase'[d] = "held"
  <2>1. CASE b = a
    <3>1. admission'[b] = AfterDrain(adm)
      BY <1>4, <1>6, <2>1
    <3>2. Cardinality(MadeBy(b)') = n + 1
      BY <1>2, <2>1
    <3> QED
      BY <1>8, <1>11, <2>1, <3>1, <3>2
  <2>2. CASE b # a
    <3>1. admission'[b] = admission[b] /\ MadeBy(b)' = MadeBy(b) /\ admission[b] \in Admission
      BY <1>2, <1>4, <1>6, <2>2
    <3>2. Roomy(admission[b], Cardinality(MadeBy(b))) /\ Once(admission[b])
          /\ \A d \in Holds(admission[b]) : ActorOf[d] = b /\ phase[d] = "held" /\ d \in Call
      BY <1>6, <3>1, HeldCalls DEF Holding
    <3>3. \A d \in Holds(admission[b]) : d \notin ToSet(asks) /\ d # c
      BY <1>1, <2>2, <3>2
    <3> QED
      BY <1>9, <3>1, <3>2, <3>3
  <2> QED
    BY <2>1, <2>2
<1> QED
  BY <1>12 DEF Holding

\* An ask reaches the engine.
LEMMA AdmitStep ==
  ASSUME IInv, NEW c \in Call, AdmitAsk(c)
  PROVE  IInv'
<1>1. PICK o, a, adm, at, asks, rows, ended, answered, live :
        Takes(c, o, a, adm, at, asks, rows, ended, answered, live)
  BY AdmitTakes
<1>2. JournalTyped' /\ ControlTyped' /\ AdmissionTyped'
  BY <1>1, TakeTypes
<1>3. Dispatching(liveQueue', current', activeAsks', phase') /\ DispatchTyped'
  BY <1>1, TakePhases
<1>4. SandboxTyped' /\ Answering'
  BY <1>1, TakeAnswers
<1>5. Fitting' /\ Phased'
  BY <1>1, TakeFits
<1>6. Holding'
  BY <1>1, TakeHolds
<1>7. Enters(c, o) /\ Placed'
  BY <1>1, TakeRows
<1>8. Issuing' /\ Numbered' /\ Cardinality(Made)' = Cardinality(Made) + 1
  BY <1>7, Entering
<1>9. UNCHANGED <<closed, shut, cursor>>
  BY <1>1 DEF Takes
<1>10. Shutting'
  BY <1>9 DEF IInv, Shutting
<1>11. Slotted'
  BY <1>3 DEF Slotted
<1>12. Served'
  <2>1. NextCall(c) /\ o = ordinal[SiteOf[c]] + 1
    BY <1>7 DEF Enters
  <2>2. Cardinality(Made) \in Nat
    BY <2>1, NextFacts
  <2>3. cursor \in [DOMAIN ImportWorld -> 0..NCalls] /\ \A i \in DOMAIN ImportWorld : cursor[i] <= Cardinality(Made)
    BY DEF IInv, Types, AdmissionTyped, Served
  <2> DEFINE m == Cardinality(Made)
  <2>4. m' = m + 1 /\ m \in Nat /\ \A i \in DOMAIN ImportWorld : cursor[i] <= m /\ cursor[i] \in Nat
    BY <1>8, <2>2, <2>3, SizeAssumption
  <2> HIDE DEF m
  <2>5. \A i \in DOMAIN ImportWorld : cursor'[i] <= m'
    BY <1>9, <2>4
  <2> QED
    BY <2>5 DEF Served, m
<1> QED
  BY <1>2, <1>3, <1>4, <1>5, <1>6, <1>7, <1>8, <1>10, <1>11, <1>12 DEF IInv, Types

\* The first asks admitted are admitted.
LEMMA AdmittedPrefix ==
  ASSUME NEW at, NEW a, NEW first, NEW asks, Admitted(at, a, first, asks), NEW n \in DOMAIN asks
  PROVE  /\ Admitted(at, a, first, SubSeq(asks, 1, n))
         /\ \A x \in 1..n : Place(at, asks[x]) \in Instance
<1>1. asks \in Seq(Call) /\ Len(asks) \in Nat /\ n \in 1..Len(asks) /\ DOMAIN asks = 1..Len(asks)
      /\ first \in Nat /\ first + Len(asks) <= NCalls /\ NCalls \in Nat
  BY SizeAssumption DEF Admitted
<1> DEFINE p == SubSeq(asks, 1, n)
<1>2. p \in Seq(Call) /\ Len(p) = n /\ DOMAIN p = 1..n /\ \A x \in 1..n : p[x] = asks[x] /\ x \in DOMAIN asks
  <2>1. \A i \in 1..n : asks[i] \in Call /\ i \in DOMAIN asks /\ 1 + i - 1 = i
    BY <1>1
  <2>2. 1 \in 1..(Len(asks) + 1) /\ n \in 0..Len(asks) /\ n - 1 + 1 = n /\ n \in Nat
    BY <1>1
  <2>3. p = [i \in 1..n |-> asks[i]]
    <3>1. p = [i \in 1..(n - 1 + 1) |-> asks[1 + i - 1]]
      BY <1>1, <2>2
    <3> HIDE DEF p
    <3> QED
      BY <2>1, <2>2, <3>1
  <2> HIDE DEF p
  <2> QED
    BY <2>1, <2>2, <2>3
<1> HIDE DEF p
<1>3. first + n <= NCalls
  BY <1>1
<1>4. Admitted(at, a, first, p)
  BY <1>1, <1>2, <1>3 DEF Admitted
<1>5. \A x \in 1..n : Place(at, asks[x]) \in Instance
  BY <1>2 DEF Admitted, Place
<1> QED
  BY <1>4, <1>5 DEF p

\* A step that dies while the asks are journaled.
Dies(c, o, a, adm, at, asks, n, recorded) ==
  /\ Asks(c, o, a, adm, at, asks) /\ n \in DOMAIN asks /\ recorded \in BOOLEAN
  /\ node' = Journaled(at, a, adm.next, SubSeq(asks, 1, n))
  /\ queued' = queued \union {Place(at, asks[x]) : x \in {y \in 1..n :
                   ~Known(node'[Place(at, asks[y])]) /\ (y = n => recorded)}}
  /\ torn' \in BOOLEAN
  /\ torn' = (torn \/ (~recorded /\ ~Known(node'[Place(at, asks[n])]) /\ Place(at, asks[n]) \notin queued))
  /\ mode' = "down" /\ Wiped
  /\ UNCHANGED <<runRow, lastEvent, closed, lives, told>>

\* The death of the process while asks are journaled, its intermediate values named.
LEMMA CrashDies ==
  ASSUME IInv, NEW c \in Call, CrashAdmitting(c)
  PROVE  \E o, a, adm, at, asks, n, recorded : Dies(c, o, a, adm, at, asks, n, recorded)
<1>1. PICK o \in {ordinal[SiteOf[c]] + 1}, a \in {ActorOf[c]} :
        \E adm \in {Joining(c, o)}, at \in {[inst EXCEPT ![c] = o]} :
        \E asks \in {Released(adm)} : \E n \in DOMAIN asks, recorded \in BOOLEAN :
        LET instance(x) == <<SiteOf[asks[x]], at[asks[x]]>>
            rows == Journaled(at, a, adm.next, SubSeq(asks, 1, n))
        IN  /\ Matches(c, o)
            /\ node' = rows
            /\ queued' = queued \union {instance(x) : x \in {y \in 1..n :
                             ~Known(rows[instance(y)]) /\ (y = n => recorded)}}
            /\ torn' = (torn \/ (~recorded /\ ~Known(rows[instance(n)]) /\ instance(n) \notin queued))
  BY DEF CrashAdmitting
<1>2. PICK adm \in {Joining(c, o)}, at \in {[inst EXCEPT ![c] = o]} :
        \E asks \in {Released(adm)} : \E n \in DOMAIN asks, recorded \in BOOLEAN :
        LET instance(x) == <<SiteOf[asks[x]], at[asks[x]]>>
            rows == Journaled(at, a, adm.next, SubSeq(asks, 1, n))
        IN  /\ Matches(c, o)
            /\ node' = rows
            /\ queued' = queued \union {instance(x) : x \in {y \in 1..n :
                             ~Known(rows[instance(y)]) /\ (y = n => recorded)}}
            /\ torn' = (torn \/ (~recorded /\ ~Known(rows[instance(n)]) /\ instance(n) \notin queued))
  BY <1>1
<1>3. PICK asks \in {Released(adm)} : \E n \in DOMAIN asks, recorded \in BOOLEAN :
        LET instance(x) == <<SiteOf[asks[x]], at[asks[x]]>>
            rows == Journaled(at, a, adm.next, SubSeq(asks, 1, n))
        IN  /\ Matches(c, o)
            /\ node' = rows
            /\ queued' = queued \union {instance(x) : x \in {y \in 1..n :
                             ~Known(rows[instance(y)]) /\ (y = n => recorded)}}
            /\ torn' = (torn \/ (~recorded /\ ~Known(rows[instance(n)]) /\ instance(n) \notin queued))
  BY <1>2
<1>4. PICK n \in DOMAIN asks, recorded \in BOOLEAN :
        LET instance(x) == <<SiteOf[asks[x]], at[asks[x]]>>
            rows == Journaled(at, a, adm.next, SubSeq(asks, 1, n))
        IN  /\ Matches(c, o)
            /\ node' = rows
            /\ queued' = queued \union {instance(x) : x \in {y \in 1..n :
                             ~Known(rows[instance(y)]) /\ (y = n => recorded)}}
            /\ torn' = (torn \/ (~recorded /\ ~Known(rows[instance(n)]) /\ instance(n) \notin queued))
  BY <1>3
<1>5. NextCall(c) /\ c \notin World /\ mode' = "down" /\ Wiped
      /\ UNCHANGED <<runRow, lastEvent, closed, lives, told>>
  BY DEF CrashAdmitting
<1>6. Asks(c, o, a, adm, at, asks)
  BY <1>1, <1>2, <1>3, <1>4, <1>5 DEF Asks
<1>7. torn' \in BOOLEAN
  BY <1>4 DEF IInv, Types, ControlTyped
<1>8. queued' = queued \union {Place(at, asks[x]) : x \in {y \in 1..n :
                   ~Known(node'[Place(at, asks[y])]) /\ (y = n => recorded)}}
  BY <1>4 DEF Place
<1>9. node' = Journaled(at, a, adm.next, SubSeq(asks, 1, n))
  BY <1>4
<1>10. torn' = (torn \/ (~recorded /\ ~Known(node'[Place(at, asks[n])]) /\ Place(at, asks[n]) \notin queued))
  BY <1>4 DEF Place
<1>11. Dies(c, o, a, adm, at, asks, n, recorded)
  BY <1>4, <1>5, <1>6, <1>7, <1>8, <1>9, <1>10 DEF Dies
<1> QED
  BY <1>11

\* It leaves the rows written so far, which are rows of calls of the script.
LEMMA CrashAdmitStep ==
  ASSUME IInv, NEW c \in Call, CrashAdmitting(c)
  PROVE  IInv'
<1>1. PICK o, a, adm, at, asks, n, recorded : Dies(c, o, a, adm, at, asks, n, recorded)
  BY CrashDies
<1>2. Admitted(at, a, adm.next, asks) /\ n \in DOMAIN asks
  BY <1>1, AdmittedAsks DEF Dies
<1> DEFINE p == SubSeq(asks, 1, n)
<1>3. Admitted(at, a, adm.next, p) /\ \A x \in 1..n : Place(at, asks[x]) \in Instance
  BY <1>2, AdmittedPrefix
<1>4. node' = Journaled(at, a, adm.next, p)
  BY <1>1 DEF Dies
<1> HIDE DEF p
<1>5. node' \in [Instance -> Row \cup {Absent}] /\ Placed'
  BY <1>3, <1>4, JournaledRows
<1>6. JournalTyped /\ ControlTyped /\ Placed /\ Shutting
  BY DEF IInv, Types
<1>7. queued' \subseteq Instance
  BY <1>1, <1>3, <1>6 DEF Dies, JournalTyped
<1>8. UNCHANGED <<runRow, lastEvent, closed, lives, told>> /\ mode' = "down" /\ torn' \in BOOLEAN
  BY <1>1 DEF Dies
<1>9. JournalTyped'
  BY <1>5, <1>6, <1>7, <1>8 DEF JournalTyped
<1>10. ControlTyped'
  BY <1>6, <1>8 DEF ControlTyped
<1>11. Reset' /\ Shutting'
  <2>1. Fresh(<<>>, [a2 \in Actor |-> NoAdmission])
    BY <1>1 DEF Dies, Wiped
  <2> QED
    BY <1>6, <1>8, <2>1, Restarted
<1> QED
  BY <1>5, <1>9, <1>10, <1>11 DEF IInv, Types, Reset

----------------------------------------------------------------------------
(* The invariant holds in every state.                                       *)

\* The invariant holds of a run that has not been launched.
LEMMA InitInv == Init => IInv
<1> SUFFICES ASSUME Init PROVE IInv
  OBVIOUS
<1>1. Emptied
  <2>1. \A a \in Actor : admission[a] = Bare(0) /\ 0 \in 0..NCalls
    BY SizeAssumption DEF Init, NoAdmission, Bare
  <2>2. admission = [a \in Actor |-> admission[a]]
    BY DEF Init
  <2> QED
    BY <2>1, <2>2 DEF Init, Emptied
<1>2. JournalTyped /\ ControlTyped
  <2>1. node \in [Instance -> Row \cup {Absent}]
    BY DEF Init
  <2>2. runRow = "absent" /\ lastEvent = "none" /\ queued = {} /\ closed = FALSE /\ mode = "down" /\ lives = 0
        /\ torn = FALSE /\ told = [c \in Call |-> None]
    BY DEF Init, Silence
  <2>3. JournalTyped
    BY <2>1, <2>2 DEF JournalTyped
  <2>4. lives \in 0..MaxLives
    BY <2>2, CapsAssumption
  <2>5. told \in [Call -> Outcome \cup {None}]
    BY <2>2
  <2>6. ControlTyped
    BY <2>2, <2>4, <2>5 DEF ControlTyped
  <2> QED
    BY <2>3, <2>6
<1>3. Placed /\ Shutting
  <2>1. \A i \in Instance : node[i].out = "absent"
    BY DEF Init, Absent
  <2>2. Shutting
    <3>1. closed = FALSE
      BY DEF Init
    <3>2. ~closed
      BY <3>1
    <3> QED
      BY <3>2 DEF Shutting
  <2> QED
    BY <2>1, <2>2 DEF Placed
<1>4. Reset
  BY <1>1, Begun
<1> QED
  BY <1>2, <1>3, <1>4 DEF IInv, Types, Reset

\* A step that changes nothing.
LEMMA StutterStep == IInv /\ UNCHANGED vars => IInv'
<1> SUFFICES ASSUME IInv, UNCHANGED vars PROVE IInv'
  OBVIOUS
<1> USE DEF IInv, vars
<1>1. Types'
  BY TypeFrames DEF Types, engine
<1>2. (Issuing /\ Numbered /\ Placed /\ Holding /\ Slotted /\ Phased /\ Answering /\ Fitting
        /\ Shutting /\ Served)'
  BY Frames DEF engine, sandbox, journal, events, cache
<1> QED
  BY <1>1, <1>2

\* Every step keeps it.
LEMMA NextStep == IInv /\ [Next]_vars => IInv'
<1> SUFFICES ASSUME IInv, [Next]_vars PROVE IInv'
  OBVIOUS
<1>1. CASE Launch \/ Resume
  BY <1>1, StartStep DEF Launch, Resume
<1>2. CASE Reconcile
  BY <1>2, ReconcileStep
<1>3. CASE Crash
  BY <1>3, CrashStep
<1>4. CASE Complete \/ Throw \/ Stop
  BY <1>4, EndStep
<1>5. CASE Deliver
  BY <1>5, DeliverStep
<1>6. ASSUME NEW c \in Call, InputHashMismatch(c) PROVE IInv'
  BY <1>6, EndStep
<1>7. ASSUME NEW c \in Call, AdmitAsk(c) PROVE IInv'
  BY <1>7, AdmitStep
<1>8. ASSUME NEW c \in Call, CrashAdmitting(c) PROVE IInv'
  BY <1>8, CrashAdmitStep
<1>9. ASSUME NEW c \in Call, Dispatch(c) PROVE IInv'
  BY <1>9, DispatchStep
<1>10. ASSUME NEW c \in Call, OpenFails(c) \/ Accept(c) \/ Repair(c) \/ Nudge(c) \/ AskFailed(c) PROVE IInv'
  BY <1>10, AskEndsStep
<1>11. ASSUME NEW c \in Call, Mutating(c) PROVE IInv'
  BY <1>11, MutatingStep
<1>12. ASSUME NEW c \in Call, ReadWorld(c) PROVE IInv'
  BY <1>12, ReadStep
<1>13. ASSUME NEW c \in Call, WorldSettles(c) PROVE IInv'
  BY <1>13, WorldSettlesStep
<1>14. CASE \E a \in Actor : SessionOpens(a)
  BY <1>14, SessionStep
<1>15. CASE UNCHANGED vars
  BY <1>15, StutterStep
<1> QED
  BY <1>1, <1>2, <1>3, <1>4, <1>5, <1>6, <1>7, <1>8, <1>9, <1>10, <1>11, <1>12, <1>13, <1>14, <1>15 DEF Next

\* It holds throughout.
THEOREM Invariance == Spec => []IInv
<1>1. Init => IInv
  BY InitInv
<1>2. IInv /\ [Next]_vars => IInv'
  BY NextStep
<1> QED
  BY <1>1, <1>2, PTL DEF Spec

\* The variables keep their types through all lives of a run, for every script: no ordinal,
\* position or cursor runs past the number of calls, no more asks execute than the bound
\* allows (pumpActor), and no retry budget is overdrawn.
THEOREM TypeCorrect == Spec => []TypeOK
<1>1. IInv => TypeOK
  BY WellTyped DEF IInv
<1> QED
  BY <1>1, Invariance, PTL

----------------------------------------------------------------------------
(* Answers.                                                                  *)

\* Whatever the order in which a replay makes its calls, a call is answered from a row that
\* was recorded for the same input, in this life or an earlier one (hashMismatch).
THEOREM AnswersFit == Spec => []AnswersFitInputs
<1>1. IInv => AnswersFitInputs
  <2> SUFFICES ASSUME IInv PROVE AnswersFitInputs
    OBVIOUS
  <2> USE DEF IInv
  <2>1. ASSUME NEW c \in Made, node[InstanceOf(c)].out \in Outcome PROVE node[InstanceOf(c)].input = Input[c]
    <3>1. node[InstanceOf(c)].out # "absent"
      BY <2>1, Outcomes
    <3> QED
      BY <3>1 DEF Fitting, Matches, RowOf, InstanceOf
  <2>2. ASSUME NEW c \in Call, seen[c] # None PROVE node[InstanceOf(c)].input = Input[c]
    <3>1. c \in Made /\ node[InstanceOf(c)].out = seen[c] /\ seen[c] \in Outcome
      BY <2>2 DEF Answering, Made, Types, SandboxTyped
    <3> QED
      BY <2>1, <3>1
  <2>3. ASSUME NEW c \in Call, Live, phase[c] = "answered" PROVE RowOf(c, inst[c]).input = Input[c]
    <3>1. c \in Made
      BY <2>3 DEF Phased, Made
    <3>2. Known(node[InstanceOf(c)])
      BY <2>3, <3>1 DEF Phased
    <3> QED
      BY <2>1, <3>1, <3>2 DEF Known, RowOf, InstanceOf
  <2> QED
    BY <2>2, <2>3 DEF AnswersFitInputs
<1> QED
  BY <1>1, Invariance, PTL

\* No step but an admission gives a row an answer that it did not ask the actor for.
Quiet == \A i \in Instance : node[i].out = "absent" => node'[i].out \notin Outcome \/ node'[i].actor = NoActor

Pure ==
  \A a \in Actor : \A i \in RecordedAsks(a)' :
    node[i].out = "absent" /\ node'[i].out \in Outcome /\ closed => Import[a][node'[i].seq + 1].pure

\* Such a step takes nothing over from the predecessor.
LEMMA QuietPure == Quiet => Pure
  BY Actors DEF Quiet, Pure, RecordedAsks

\* All steps but those that journal admitted asks are of that kind.
LEMMA QuietSteps ==
  ASSUME IInv
  PROVE  /\ UNCHANGED node => Quiet
         /\ \A c, out : Ends(c, out) => Quiet
         /\ \A c, o, out : Reads(c, o, out) => Quiet
<1>1. UNCHANGED node => Quiet
  BY Outcomes DEF Quiet
<1>2. ASSUME NEW c, NEW out, Ends(c, out) PROVE Quiet
  <2>1. \A i \in Instance : node[i].out = "absent" => node'[i].out = "absent"
    BY <1>2, RowEnds
  <2> QED
    BY <2>1, Outcomes DEF Quiet
<1>3. ASSUME NEW c, NEW o, NEW out, Reads(c, o, out) PROVE Quiet
  <2> DEFINE k == <<SiteOf[c], o>>
  <2>1. node \in [Instance -> Row \cup {Absent}]
    BY DEF IInv, Types, JournalTyped
  <2>2. CASE UNCHANGED node
    BY <1>1, <2>2
  <2>3. CASE node' = [node EXCEPT ![k] = [actor |-> NoActor, seq |-> 0, input |-> Input[c], out |-> out]]
    <3>1. \A i \in Instance : IF i = k THEN node'[i].actor = NoActor ELSE node'[i] = node[i]
      BY <2>1, <2>3
    <3> QED
      BY <3>1, Outcomes DEF Quiet
  <2> QED
    BY <1>3, <2>2, <2>3 DEF Reads
<1> QED
  BY <1>1, <1>2, <1>3

\* An admission serves a new ask from the import only where the import may still serve it.
LEMMA JournaledPure ==
  ASSUME IInv, NEW at, NEW a, NEW first, NEW asks, Admitted(at, a, first, asks),
         node' = Journaled(at, a, first, asks)
  PROVE  Pure
<1> SUFFICES ASSUME NEW b \in Actor, NEW i \in RecordedAsks(b)',
                    node[i].out = "absent", node'[i].out \in Outcome, closed
             PROVE  Import[b][node'[i].seq + 1].pure
  BY DEF Pure
<1>1. i \in Instance /\ node'[i].actor = b
  BY DEF RecordedAsks
<1>2. node'[i] # node[i] /\ ~Known(node[i])
  BY Outcomes DEF Known
<1>3. PICK x \in DOMAIN asks : i = Place(at, asks[x])
  BY <1>1, <1>2, JournaledRows
<1>4. /\ node'[i].actor = a /\ node'[i].seq = first + x - 1
      /\ node'[i].out = IF node[i].out = "absent" /\ x \in Path(at, a, first, asks)
                        THEN Import[a][first + x].out ELSE "running"
  BY <1>2, <1>3, JournaledRows
<1>5. x \in Path(at, a, first, asks)
  BY <1>4, Outcomes
<1>6. Follows(a, i, first + x - 1, asks[x])
  BY <1>3, <1>5, PathServes
<1>7. shut
  BY DEF IInv, Shutting
<1> QED
  BY <1>1, <1>4, <1>6, <1>7 DEF Follows

\* A step serves a new ask from the import, once it is closed, only with a pure answer.
LEMMA PureStep == IInv /\ [Next]_vars => Pure
<1> SUFFICES ASSUME IInv, [Next]_vars PROVE Pure
  OBVIOUS
<1>0. (UNCHANGED node => Pure) /\ (\A c, out : Ends(c, out) => Pure)
      /\ (\A c, o, out : Reads(c, o, out) => Pure)
  BY QuietSteps, QuietPure
<1>1. ASSUME NEW c \in Call, OpenFails(c) \/ Accept(c) \/ Repair(c) \/ Nudge(c) \/ AskFailed(c) PROVE Pure
  <2>1. UNCHANGED node \/ \E out \in Outcome : SettleAsk(c, out)
    BY <1>1, Outcomes DEF OpenFails, Accept, Repair, Nudge, AskFailed, Retry
  <2>2. phase[c] \in Executed
    BY <1>1 DEF OpenFails, Accept, Repair, Nudge, AskFailed, Executing, Executed
  <2>3. c \in Made /\ node[InstanceOf(c)].out = "running"
    <3>1. c \in Made
      BY <2>2 DEF IInv, Phased, Made, Executed
    <3> QED
      BY <2>2, <3>1 DEF IInv, Phased
  <2>4. ASSUME NEW out \in Outcome, SettleAsk(c, out) PROVE Ends(c, out)
    BY <2>3, <2>4 DEF SettleAsk, Ends
  <2> QED
    BY <1>0, <2>1, <2>4
<1>2. ASSUME NEW c \in Call, WorldSettles(c) PROVE Pure
  <2>1. c \in Made
    BY <1>2 DEF WorldSettles, IInv, Phased, Made
  <2>2. node[InstanceOf(c)].out = "running"
    BY <1>2, <2>1 DEF WorldSettles, IInv, Phased, Executed
  <2>3. ASSUME NEW out \in Outcome, node' = [node EXCEPT ![InstanceOf(c)].out = out] PROVE Ends(c, out)
    BY <1>2, <2>1, <2>2, <2>3 DEF Ends, WorldSettles
  <2> QED
    BY <1>0, <1>2, <2>3 DEF WorldSettles
<1>3. ASSUME NEW c \in Call, ReadWorld(c) PROVE Pure
  BY <1>0, <1>3, ReadCases
<1>4. ASSUME NEW c \in Call, AdmitAsk(c) PROVE Pure
  <2>1. PICK o, a, adm, at, asks, rows, ended, answered, live :
          Takes(c, o, a, adm, at, asks, rows, ended, answered, live)
    BY <1>4, AdmitTakes
  <2>2. Asks(c, o, a, adm, at, asks) /\ node' = Journaled(at, a, adm.next, asks)
    BY <2>1 DEF Takes
  <2>3. Admitted(at, a, adm.next, asks)
    BY <2>2, AdmittedAsks
  <2> QED
    BY <2>2, <2>3, JournaledPure
<1>5. ASSUME NEW c \in Call, CrashAdmitting(c) PROVE Pure
  <2>1. PICK o, a, adm, at, asks, n, recorded : Dies(c, o, a, adm, at, asks, n, recorded)
    BY <1>5, CrashDies
  <2>2. Admitted(at, a, adm.next, asks) /\ n \in DOMAIN asks
    BY <2>1, AdmittedAsks DEF Dies
  <2> DEFINE p == SubSeq(asks, 1, n)
  <2>3. Admitted(at, a, adm.next, p)
    BY <2>2, AdmittedPrefix
  <2>4. node' = Journaled(at, a, adm.next, p)
    BY <2>1 DEF Dies
  <2> HIDE DEF p
  <2> QED
    BY <2>3, <2>4, JournaledPure
<1>6. CASE Launch \/ Resume \/ Reconcile \/ Crash \/ Deliver \/ \E a \in Actor : SessionOpens(a)
  <2>1. UNCHANGED node
    BY <1>6 DEF Launch, Resume, Start, Reconcile, Crash, Deliver, SessionOpens, journal
  <2> QED
    BY <1>0, <2>1
<1>7. CASE Complete \/ Throw \/ Stop \/ \E c \in Call : InputHashMismatch(c)
  <2>1. UNCHANGED node
    BY <1>7 DEF Complete, Throw, Stop, InputHashMismatch, SettleRun, FinishRun, TornFinish
  <2> QED
    BY <1>0, <2>1
<1>8. ASSUME NEW c \in Call, Dispatch(c) \/ Mutating(c) PROVE Pure
  BY <1>0, <1>8 DEF Dispatch, Mutating
<1>9. CASE UNCHANGED vars
  BY <1>0, <1>9 DEF vars, journal
<1> QED
  BY <1>1, <1>2, <1>3, <1>4, <1>5, <1>6, <1>7, <1>8, <1>9 DEF Next

\* Once the run has written to the workspace, in this life or an earlier one, no answer that
\* its predecessor got by looking at the workspace is taken over (closeImportCache,
\* recoverImportClosure, takeIfPure).
THEOREM StaleAnswers == Spec => StaleAnswersStayOut
<1>1. IInv /\ [Next]_vars => Pure
  BY PureStep
<1>2. IInv /\ [Next]_vars => [Pure]_vars
  BY <1>1
<1>3. Spec => [][Pure]_vars
  BY <1>2, Invariance, PTL DEF Spec
<1> QED
  BY <1>3 DEF StaleAnswersStayOut, Pure

----------------------------------------------------------------------------
(* Conversations.                                                            *)

\* Asks of one site with the same input are asks of one actor.
SameAsk ==
  \A c, d \in Call : SiteOf[c] = SiteOf[d] /\ Input[c] = Input[d] => ActorOf[c] = ActorOf[d]

\* The positions of an actor's rows, and the first position that no row has.
PositionsOf(a) == {node[i].seq : i \in RecordedAsks(a)}
Ahead(adm) == IF adm.count > adm.next THEN adm.count ELSE adm.next

\* The rows of an actor are numbered from 0 on, each number once.
Conversing ==
  \A a \in Actor :
    /\ \A i, j \in RecordedAsks(a) : node[i].seq = node[j].seq => i = j
    /\ \E n \in 0..NCalls : PositionsOf(a) = 0..(n - 1)

\* What an admission knows of these numbers: a recorded ask claims the position of its row,
\* which is still to be admitted, and a fresh one has no row.
Claiming ==
  Live => \A a \in Actor :
    /\ PositionsOf(a) = 0..(Ahead(admission[a]) - 1)
    /\ \A k \in Kept(admission[a]) :
         /\ k \in admission[a].next..(admission[a].count - 1)
         /\ node[InstanceOf(admission[a].recorded[k])].seq = k
         /\ node[InstanceOf(admission[a].recorded[k])].actor = a
    /\ \A j \in DOMAIN admission[a].live : node[InstanceOf(admission[a].live[j])].out = "absent"

\* The asks of an actor that wait for their turn or have it.
InLine(q, cur, a) == {q[a][j] : j \in DOMAIN q[a]} \cup ({cur[a]} \ {NoCall})

\* A row admitted in this life is ended, or its call is in line.
Owning ==
  Live => \A a \in Actor : \A i \in RecordedAsks(a) : node[i].seq < admission[a].next =>
    \E c \in Made : InstanceOf(c) = i /\ (Known(node[i]) \/ c \in InLine(liveQueue, current, a))

\* The line is in the order of the numbers, behind the ask that executes.
Sorted(q, cur, sq) ==
  \A a \in Actor :
    /\ \A i, j \in DOMAIN q[a] : i < j => sq[q[a][i]] < sq[q[a][j]]
    /\ cur[a] # NoCall => \A j \in DOMAIN q[a] : sq[cur[a]] < sq[q[a][j]]

Lined ==
  Live => /\ Sorted(liveQueue, current, seq)
          /\ \A a \in Actor : \A c \in InLine(liveQueue, current, a) :
               /\ node[InstanceOf(c)].seq = seq[c] /\ node[InstanceOf(c)].actor = a
               /\ seq[c] < admission[a].next

OInv == Conversing /\ Claiming /\ Owning /\ Lined

\* Those in line are asks of the actor that have been admitted.
LEMMA LineCalls ==
  ASSUME IInv, Live, NEW a \in Actor, NEW c \in InLine(liveQueue, current, a)
  PROVE  c \in Made /\ c \in Call /\ ActorOf[c] = a /\ phase[c] \in Executed /\ c \notin World
<1> USE DEF IInv
<1>1. Dispatching(liveQueue, current, activeAsks, phase) /\ DispatchTyped
  BY DEF Slotted, Types
<1>2. c \in Call /\ ActorOf[c] = a /\ phase[c] \in Executed
  <2>1. CASE \E j \in DOMAIN liveQueue[a] : c = liveQueue[a][j]
    <3>1. PICK j \in DOMAIN liveQueue[a] : c = liveQueue[a][j]
      BY <2>1
    <3>2. liveQueue[a] \in Seq(Call)
      BY <1>1 DEF DispatchTyped
    <3>3. c \in Call
      BY <3>1, <3>2
    <3> QED
      BY <1>1, <3>1, <3>3 DEF Dispatching, Executed
  <2>2. CASE c = current[a] /\ c # NoCall
    <3>1. current[a] \in Call \cup {NoCall}
      BY <1>1 DEF DispatchTyped
    <3> QED
      BY <1>1, <2>2, <3>1 DEF Dispatching, Executed
  <2> QED
    BY <2>1, <2>2 DEF InLine
<1>3. c \in Made
  BY <1>2 DEF Phased, Made, Executed
<1> QED
  BY <1>2, <1>3, Actors

\* Those that an admission holds are asks of the actor too, and not in line.
LEMMA HeldMade ==
  ASSUME IInv, NEW a \in Actor, NEW d \in Holds(admission[a])
  PROVE  d \in Made /\ d \in Call /\ ActorOf[d] = a /\ phase[d] = "held" /\ d \notin World
         /\ InstanceOf(d) \in Instance
<1> USE DEF IInv
<1>1. admission[a] \in Admission /\ AdmissionTyped /\ Numbered
  BY DEF Types, AdmissionTyped
<1>2. d \in Call /\ ActorOf[d] = a /\ phase[d] = "held"
  BY <1>1, HeldCalls DEF Holding
<1>3. d \in Made
  BY <1>2 DEF Phased, Made
<1> QED
  BY <1>1, <1>2, <1>3, Instances, Actors

\* Steps that leave the actors and positions of the rows alone.
SameRows ==
  \A i \in Instance : node'[i].actor = node[i].actor /\ (node[i].actor # NoActor => node'[i].seq = node[i].seq)

\* They leave the numbering alone.
LEMMA RowsStay ==
  ASSUME SameRows
  PROVE  /\ \A a \in Actor : RecordedAsks(a)' = RecordedAsks(a) /\ PositionsOf(a)' = PositionsOf(a)
         /\ \A a \in Actor : \A i \in RecordedAsks(a) : i \in Instance /\ node'[i].seq = node[i].seq
         /\ (Conversing => Conversing')
<1>1. ASSUME NEW a \in Actor PROVE RecordedAsks(a)' = RecordedAsks(a)
  BY DEF SameRows, RecordedAsks
<1>2. ASSUME NEW a \in Actor, NEW i \in RecordedAsks(a) PROVE i \in Instance /\ node'[i].seq = node[i].seq
  BY Actors DEF SameRows, RecordedAsks
<1>3. ASSUME NEW a \in Actor PROVE PositionsOf(a)' = PositionsOf(a)
  <2>1. {node'[i].seq : i \in RecordedAsks(a)} = {node[i].seq : i \in RecordedAsks(a)}
    BY <1>2
  <2> QED
    BY <1>1, <2>1 DEF PositionsOf
<1>4. ASSUME Conversing PROVE Conversing'
  <2>1. ASSUME NEW a \in Actor
        PROVE  /\ \A i, j \in RecordedAsks(a)' : node'[i].seq = node'[j].seq => i = j
               /\ \E n \in 0..NCalls : PositionsOf(a)' = 0..(n - 1)
    BY <1>1, <1>2, <1>3, <1>4 DEF Conversing
  <2> QED
    BY <2>1 DEF Conversing
<1> QED
  BY <1>1, <1>2, <1>3, <1>4

\* Without an engine there is nothing else to keep.
LEMMA NoEngine == Conversing /\ ~Live => OInv
BY DEF OInv, Claiming, Owning, Lined

\* A step of a life that leaves the admissions alone, and from whose lines only calls with
\* an ended row go.
Steady ==
  /\ Live /\ Live' /\ SameRows
  /\ \A i \in Instance : Known(node[i]) => Known(node'[i])
  /\ \A d \in Made : d \in Made' /\ InstanceOf(d)' = InstanceOf(d)
  /\ \A d \in Made : phase[d] = "held" => node'[InstanceOf(d)] = node[InstanceOf(d)]
  /\ UNCHANGED <<admission, seq>>
  /\ Sorted(liveQueue', current', seq)
  /\ \A a \in Actor : /\ InLine(liveQueue', current', a) \subseteq InLine(liveQueue, current, a)
                      /\ \A d \in InLine(liveQueue, current, a) :
                           d \in InLine(liveQueue', current', a) \/ Known(node'[InstanceOf(d)])

\* Such a step keeps the conversations in order.
LEMMA SteadyOrder ==
  ASSUME IInv, OInv, Steady
  PROVE  OInv'
<1> USE DEF OInv, Steady
<1>0. AdmissionTyped /\ Numbered /\ JournalTyped
  BY DEF IInv, Types
<1>1. /\ \A a \in Actor : RecordedAsks(a)' = RecordedAsks(a) /\ PositionsOf(a)' = PositionsOf(a)
      /\ \A a \in Actor : \A i \in RecordedAsks(a) : i \in Instance /\ node'[i].seq = node[i].seq
      /\ Conversing'
  BY RowsStay
<1>2. \A d \in Made : InstanceOf(d) \in Instance
  BY <1>0, Instances
<1>3. Claiming'
  <2>1. ASSUME NEW a \in Actor
        PROVE  /\ PositionsOf(a)' = 0..(Ahead(admission[a]) - 1)
               /\ \A k \in Kept(admission[a]) :
                    /\ k \in admission[a].next..(admission[a].count - 1)
                    /\ node'[InstanceOf(admission[a].recorded[k])'].seq = k
                    /\ node'[InstanceOf(admission[a].recorded[k])'].actor = a
               /\ \A j \in DOMAIN admission[a].live : node'[InstanceOf(admission[a].live[j])'].out = "absent"
    <3>1. PositionsOf(a)' = 0..(Ahead(admission[a]) - 1)
      BY <1>1 DEF Claiming
    <3>2. \A d \in Holds(admission[a]) : InstanceOf(d)' = InstanceOf(d) /\ node'[InstanceOf(d)] = node[InstanceOf(d)]
      BY HeldMade
    <3>3. ASSUME NEW k \in Kept(admission[a])
          PROVE  /\ k \in admission[a].next..(admission[a].count - 1)
                 /\ node'[InstanceOf(admission[a].recorded[k])'].seq = k
                 /\ node'[InstanceOf(admission[a].recorded[k])'].actor = a
      <4>1. admission[a].recorded[k] \in Holds(admission[a])
        BY DEF Holds
      <4> QED
        BY <3>2, <4>1 DEF Claiming
    <3>4. ASSUME NEW j \in DOMAIN admission[a].live PROVE node'[InstanceOf(admission[a].live[j])'].out = "absent"
      <4>1. admission[a].live[j] \in Holds(admission[a])
        BY DEF Holds
      <4> QED
        BY <3>2, <4>1 DEF Claiming
    <3> QED
      BY <3>1, <3>3, <3>4
  <2> QED
    BY <2>1 DEF Claiming
<1>4. Owning'
  <2>1. ASSUME NEW a \in Actor, NEW i \in RecordedAsks(a), node'[i].seq < admission[a].next
        PROVE  \E c \in Made' : InstanceOf(c)' = i /\ (Known(node'[i]) \/ c \in InLine(liveQueue', current', a))
    <3>1. i \in Instance /\ node[i].seq < admission[a].next
      BY <1>1, <2>1
    <3>2. PICK c \in Made : InstanceOf(c) = i /\ (Known(node[i]) \/ c \in InLine(liveQueue, current, a))
      BY <3>1 DEF Owning
    <3>3. c \in Made' /\ InstanceOf(c)' = i
      BY <3>2
    <3>4. Known(node'[i]) \/ c \in InLine(liveQueue', current', a)
      BY <3>1, <3>2
    <3> QED
      BY <3>3, <3>4
  <2> QED
    BY <1>1, <2>1 DEF Owning
<1>5. Lined'
  <2>1. ASSUME NEW a \in Actor, NEW c \in InLine(liveQueue', current', a)
        PROVE  /\ node'[InstanceOf(c)'].seq = seq[c] /\ node'[InstanceOf(c)'].actor = a
               /\ seq[c] < admission[a].next
    <3>1. c \in InLine(liveQueue, current, a) /\ c \in Made
      BY <2>1, LineCalls
    <3>2. /\ node[InstanceOf(c)].seq = seq[c] /\ node[InstanceOf(c)].actor = a
          /\ seq[c] < admission[a].next
      BY <3>1 DEF Lined
    <3>3. InstanceOf(c)' = InstanceOf(c) /\ InstanceOf(c) \in Instance
      BY <1>2, <3>1
    <3>4. node'[InstanceOf(c)].seq = node[InstanceOf(c)].seq /\ node'[InstanceOf(c)].actor = node[InstanceOf(c)].actor
      BY <3>2, <3>3, Actors DEF SameRows
    <3> QED
      BY <3>2, <3>3, <3>4
  <2>2. Sorted(liveQueue', current', seq')
    OBVIOUS
  <2> QED
    BY <2>1, <2>2 DEF Lined
<1> QED
  BY <1>1, <1>3, <1>4, <1>5

\* In order, an ask that executes is behind none that has not ended.
LEMMA InOrder == IInv /\ OInv => ConversationInOrder
<1> SUFFICES ASSUME IInv, OInv, NEW c \in Call \ World, Live, phase[c] = "running",
                    NEW i \in RecordedAsks(ActorOf[c]), node[i].seq < seq[c]
             PROVE  node[i].out \in Outcome
  BY DEF ConversationInOrder
<1> DEFINE a == ActorOf[c]
<1>1. a \in Actor
  BY Actors
<1>2. current[a] = c /\ c # NoCall
  BY Actors DEF IInv, Slotted, Dispatching
<1>3. c \in InLine(liveQueue, current, a)
  BY <1>2 DEF InLine
<1>4. seq[c] < admission[a].next /\ Sorted(liveQueue, current, seq)
  BY <1>1, <1>3 DEF OInv, Lined
<1>5. seq[c] \in Nat /\ admission[a].next \in Nat /\ node[i].seq \in Nat /\ \A d \in Call : seq[d] \in Nat
  <2>1. AdmissionTyped /\ JournalTyped
    BY DEF IInv, Types
  <2>2. admission[a] \in Admission
    BY <1>1, <2>1 DEF AdmissionTyped
  <2>3. i \in Instance /\ node[i].actor = a
    BY DEF RecordedAsks
  <2>4. node[i] \in Row
    <3>1. node[i] # Absent
      BY <1>1, <2>3, Actors, Rows, <2>1
    <3> QED
      BY <2>1, <2>3, <3>1 DEF JournalTyped
  <2>5. admission[a].next \in 0..NCalls
    BY <2>2, AdmissionParts
  <2>6. node[i].seq \in 0..NCalls
    BY <2>4 DEF Row
  <2>7. \A d \in Call : seq[d] \in 0..NCalls
    BY <2>1 DEF AdmissionTyped
  <2> QED
    BY <2>5, <2>6, <2>7, SizeAssumption
<1>6. node[i].seq < admission[a].next
  BY <1>4, <1>5
<1>7. PICK d \in Made : InstanceOf(d) = i /\ (Known(node[i]) \/ d \in InLine(liveQueue, current, a))
  BY <1>1, <1>6 DEF OInv, Owning
<1>8. ASSUME d \in InLine(liveQueue, current, a) PROVE FALSE
  <2>1. node[i].seq = seq[d]
    BY <1>1, <1>7, <1>8 DEF OInv, Lined
  <2>2. d # c
    BY <1>5, <2>1
  <2>3. PICK j \in DOMAIN liveQueue[a] : d = liveQueue[a][j]
    BY <1>2, <1>8, <2>2 DEF InLine
  <2>4. seq[c] < seq[d] /\ d \in Call
    BY <1>1, <1>2, <1>4, <1>7, <2>3 DEF Sorted, Made
  <2> QED
    BY <1>5, <2>1, <2>4
<1> QED
  BY <1>7, <1>8 DEF Known

\* The pump moves the first of a line to its slot, and no line in or out of order.
LEMMA PumpLine ==
  ASSUME NEW A, NEW q, NEW cur, NEW n, NEW ph, Pumping(A, q, cur, n, ph), NEW sq, Sorted(q, cur, sq)
  PROVE  /\ \A a \in Actor : InLine(liveQueue', current', a) = InLine(q, cur, a)
         /\ Sorted(liveQueue', current', sq)
<1> USE DEF Pumping
<1> DEFINE picked == Picked(A, q, cur, n)
<1>1. /\ current' = [a \in Actor |-> IF a \in picked THEN Head(q[a]) ELSE cur[a]]
      /\ liveQueue' = [a \in Actor |-> IF a \in picked THEN Tail(q[a]) ELSE q[a]]
  <2> HIDE DEF picked
  <2> QED
    BY DEF Pump, picked
<1>2. \A a \in picked : cur[a] = NoCall /\ q[a] # <<>>
  BY DEF Picked
<1> HIDE DEF picked
<1>3. ASSUME NEW a \in Actor, a \in picked
      PROVE  /\ InLine(liveQueue', current', a) = InLine(q, cur, a)
             /\ \A i, j \in DOMAIN liveQueue'[a] : i < j => sq[liveQueue'[a][i]] < sq[liveQueue'[a][j]]
             /\ \A j \in DOMAIN liveQueue'[a] : sq[current'[a]] < sq[liveQueue'[a][j]]
  <2> DEFINE s == q[a]
             t == Tail(s)
  <2>1. s \in Seq(Call) /\ s # <<>> /\ cur[a] = NoCall /\ liveQueue'[a] = t /\ current'[a] = Head(s)
    BY <1>1, <1>2, <1>3
  <2>2. \A i, j \in DOMAIN s : i < j => sq[s[i]] < sq[s[j]]
    BY DEF Sorted
  <2> HIDE DEF s
  <2>3. /\ Head(s) = s[1] /\ s[1] \in Call /\ 1 \in DOMAIN s
        /\ \A i \in DOMAIN t : i \in Nat /\ i >= 1 /\ i + 1 \in DOMAIN s /\ t[i] = s[i + 1]
        /\ \A i \in DOMAIN s : i \in Nat /\ (i = 1 \/ (i - 1 \in DOMAIN t /\ t[i - 1] = s[i]))
    BY <2>1
  <2>4. s[1] # NoCall
    BY <2>3, Actors
  <2> HIDE DEF t
  <2>5. {t[j] : j \in DOMAIN t} \cup {s[1]} = {s[j] : j \in DOMAIN s}
    <3>1. \A j \in DOMAIN t : \E i \in DOMAIN s : t[j] = s[i]
      BY <2>3
    <3>2. \A i \in DOMAIN s : s[i] = s[1] \/ \E j \in DOMAIN t : s[i] = t[j]
      BY <2>3
    <3> QED
      BY <2>3, <3>1, <3>2
  <2>6. \A i, j \in DOMAIN t : i < j => sq[t[i]] < sq[t[j]]
    <3>1. ASSUME NEW i \in DOMAIN t, NEW j \in DOMAIN t, i < j PROVE sq[t[i]] < sq[t[j]]
      <4>1. i + 1 \in DOMAIN s /\ j + 1 \in DOMAIN s /\ i + 1 < j + 1 /\ t[i] = s[i + 1] /\ t[j] = s[j + 1]
        BY <2>3, <3>1
      <4> QED
        BY <2>2, <4>1
    <3> QED
      BY <3>1
  <2>7. \A j \in DOMAIN t : sq[s[1]] < sq[t[j]]
    <3>1. ASSUME NEW j \in DOMAIN t PROVE sq[s[1]] < sq[t[j]]
      <4>1. j + 1 \in DOMAIN s /\ 1 \in DOMAIN s /\ 1 < j + 1 /\ t[j] = s[j + 1]
        BY <2>3
      <4> QED
        BY <2>2, <4>1
    <3> QED
      BY <3>1
  <2>8. InLine(q, cur, a) = {s[j] : j \in DOMAIN s}
    BY <2>1 DEF InLine, s
  <2>9. InLine(liveQueue', current', a) = {t[j] : j \in DOMAIN t} \cup {s[1]}
    BY <2>1, <2>3, <2>4 DEF InLine
  <2> QED
    BY <2>1, <2>3, <2>5, <2>6, <2>7, <2>8, <2>9
<1>4. ASSUME NEW a \in Actor, a \notin picked
      PROVE  liveQueue'[a] = q[a] /\ current'[a] = cur[a]
  BY <1>1, <1>4
<1>5. \A a \in Actor : InLine(liveQueue', current', a) = InLine(q, cur, a)
  <2>1. ASSUME NEW a \in Actor PROVE InLine(liveQueue', current', a) = InLine(q, cur, a)
    <3>1. CASE a \in picked
      BY <1>3, <3>1
    <3>2. CASE a \notin picked
      BY <1>4, <3>2 DEF InLine
    <3> QED
      BY <3>1, <3>2
  <2> QED
    BY <2>1
<1>6. Sorted(liveQueue', current', sq)
  <2>1. ASSUME NEW a \in Actor
        PROVE  /\ \A i, j \in DOMAIN liveQueue'[a] : i < j => sq[liveQueue'[a][i]] < sq[liveQueue'[a][j]]
               /\ current'[a] # NoCall => \A j \in DOMAIN liveQueue'[a] : sq[current'[a]] < sq[liveQueue'[a][j]]
    <3>1. CASE a \in picked
      BY <1>3, <3>1
    <3>2. CASE a \notin picked
      BY <1>4, <3>2 DEF Sorted
    <3> QED
      BY <3>1, <3>2
  <2> QED
    BY <2>1 DEF Sorted
<1> QED
  BY <1>5, <1>6

\* A step that leaves rows, lines and numbers alone, but not the instance of a call without one.
LEMMA IdleOrder ==
  ASSUME IInv, OInv, Live, Live', UNCHANGED <<node, inst, admission, seq, liveQueue, current>>
  PROVE  OInv'
<1>1. Made' = Made /\ \A d : InstanceOf(d)' = InstanceOf(d)
  BY DEF Made, InstanceOf
<1>2. SameRows
  BY DEF SameRows
<1>3. Sorted(liveQueue, current, seq)
  BY DEF OInv, Lined
<1>4. Steady
  BY <1>1, <1>2, <1>3 DEF Steady
<1> QED
  BY <1>4, SteadyOrder

\* A row that ends keeps its place.
LEMMA EndsRows ==
  ASSUME IInv, NEW c, NEW out, Ends(c, out), phase[c] # "held"
  PROVE  /\ SameRows /\ \A i \in Instance : Known(node[i]) => Known(node'[i])
         /\ \A d \in Made : d \in Made' /\ InstanceOf(d)' = InstanceOf(d)
         /\ \A d \in Made : phase[d] = "held" => node'[InstanceOf(d)] = node[InstanceOf(d)]
         /\ Known(node'[InstanceOf(c)])
<1>1. /\ \A i \in Instance : Known(node[i]) => node'[i] = node[i]
      /\ \A i \in Instance : node'[i].actor = node[i].actor /\ node'[i].seq = node[i].seq
      /\ \A d \in Made : d # c => node'[InstanceOf(d)] = node[InstanceOf(d)]
      /\ node'[InstanceOf(c)].out = out
  BY RowEnds
<1>2. SameRows
  BY <1>1 DEF SameRows
<1>3. Made' = Made /\ \A d : InstanceOf(d)' = InstanceOf(d)
  BY DEF Ends, Made, InstanceOf
<1>4. out \in Outcome
  BY DEF Ends
<1> QED
  BY <1>1, <1>2, <1>3, <1>4 DEF Known

\* An ask leaves the line when its row ends.
LEMMA SettleOrder ==
  ASSUME IInv, OInv, NEW c \in Call \ World, Live, phase[c] \in {"opening", "running"},
         NEW out \in Outcome, SettleAsk(c, out)
  PROVE  OInv'
<1> DEFINE a0 == ActorOf[c]
           cur == [current EXCEPT ![a0] = NoCall]
           ph == [phase EXCEPT ![c] = "answered"]
<1>0. AdmissionTyped /\ DispatchTyped
  BY DEF IInv, Types
<1>1. a0 \in Actor /\ c \in Made /\ current[a0] = c /\ c # NoCall /\ node[InstanceOf(c)].out = "running"
  <2>1. c \in Made
    BY DEF IInv, Phased, Made
  <2> QED
    BY <2>1, Actors DEF IInv, Phased, Executed, Slotted, Dispatching
<1>2. Ends(c, out)
  BY <1>1 DEF Ends, SettleAsk
<1>3. /\ SameRows /\ \A i \in Instance : Known(node[i]) => Known(node'[i])
      /\ \A d \in Made : d \in Made' /\ InstanceOf(d)' = InstanceOf(d)
      /\ \A d \in Made : phase[d] = "held" => node'[InstanceOf(d)] = node[InstanceOf(d)]
      /\ Known(node'[InstanceOf(c)])
  BY <1>2, EndsRows
<1>4. Pumping(Actor, liveQueue, cur, activeAsks - 1, ph)
  BY SettlePump DEF a0, cur, ph
<1>5. /\ \A a \in Actor : cur[a] = IF a = a0 THEN NoCall ELSE current[a]
  BY <1>0, <1>1 DEF DispatchTyped
<1>6. Sorted(liveQueue, current, seq)
  BY DEF OInv, Lined
<1>7. Sorted(liveQueue, cur, seq)
  BY <1>5, <1>6 DEF Sorted
<1>8. /\ \A a \in Actor : InLine(liveQueue', current', a) = InLine(liveQueue, cur, a)
      /\ Sorted(liveQueue', current', seq)
  <2> HIDE DEF cur, ph
  <2> QED
    BY <1>4, <1>7, PumpLine
<1>9. ASSUME NEW a \in Actor
      PROVE  /\ InLine(liveQueue, cur, a) \subseteq InLine(liveQueue, current, a)
             /\ \A d \in InLine(liveQueue, current, a) : d \in InLine(liveQueue, cur, a) \/ d = c
  BY <1>1, <1>5 DEF InLine
<1>10. UNCHANGED <<admission, seq, mode>>
  BY DEF SettleAsk
<1>11. Steady
  BY <1>3, <1>8, <1>9, <1>10 DEF Steady, Live
<1> QED
  BY <1>11, SteadyOrder

\* The ends of an ask, and what the driver reports before them.
LEMMA ReportOrder ==
  ASSUME IInv, OInv, NEW c \in Call, OpenFails(c) \/ Accept(c) \/ Repair(c) \/ Nudge(c) \/ AskFailed(c)
  PROVE  OInv'
<1>1. ASSUME Retry(c), Live PROVE OInv'
  BY <1>1, IdleOrder DEF Retry, Live
<1>2. ASSUME NEW out \in Outcome, SettleAsk(c, out), Live, phase[c] \in {"opening", "running"}, c \notin World
      PROVE  OInv'
  BY <1>2, SettleOrder
<1>3. CASE OpenFails(c)
  <2>1. c \notin World
    BY <1>3, Actors DEF OpenFails, IInv, Phased
  <2> QED
    BY <1>2, <1>3, <2>1, Outcomes DEF OpenFails
<1>4. CASE Accept(c)
  BY <1>2, <1>4, Outcomes DEF Accept, Executing
<1>5. CASE Repair(c)
  BY <1>1, <1>2, <1>5, Outcomes DEF Repair, Executing
<1>6. CASE Nudge(c)
  BY <1>1, <1>2, <1>6, Outcomes DEF Nudge, Executing
<1>7. CASE AskFailed(c)
  BY <1>2, <1>7, Outcomes DEF AskFailed, Executing
<1> QED
  BY <1>3, <1>4, <1>5, <1>6, <1>7

\* World operations are in no conversation.
LEMMA WorldOrder ==
  ASSUME IInv, OInv, NEW c \in Call, WorldSettles(c)
  PROVE  OInv'
<1>0. c \in World /\ phase[c] = "running"
  BY DEF WorldSettles
<1>1. c \in Made /\ node[InstanceOf(c)].out = "running"
  <2>1. c \in Made
    BY <1>0 DEF IInv, Phased, Made
  <2> QED
    BY <1>0, <2>1 DEF IInv, Phased, Executed
<1>2. CASE Live
  <2>1. PICK out \in Outcome : node' = [node EXCEPT ![InstanceOf(c)].out = out]
    BY <1>2 DEF WorldSettles
  <2>2. Ends(c, out)
    BY <1>1, <2>1 DEF Ends, WorldSettles
  <2>3. /\ SameRows /\ \A i \in Instance : Known(node[i]) => Known(node'[i])
        /\ \A d \in Made : d \in Made' /\ InstanceOf(d)' = InstanceOf(d)
        /\ \A d \in Made : phase[d] = "held" => node'[InstanceOf(d)] = node[InstanceOf(d)]
    BY <1>0, <2>2, EndsRows
  <2>4. UNCHANGED <<admission, seq, liveQueue, current, mode>>
    BY DEF WorldSettles
  <2>5. Sorted(liveQueue, current, seq)
    BY <1>2 DEF OInv, Lined
  <2>6. Steady
    BY <1>2, <2>3, <2>4, <2>5 DEF Steady, Live
  <2> QED
    BY <2>6, SteadyOrder
<1>3. CASE ~Live
  <2>1. UNCHANGED <<node, mode>>
    BY <1>3 DEF WorldSettles
  <2>2. SameRows
    BY <2>1 DEF SameRows
  <2>3. Conversing' /\ ~Live'
    BY <1>3, <2>1, <2>2, RowsStay DEF OInv, Live
  <2> QED
    BY <2>3 DEF OInv, Claiming, Owning, Lined
<1> QED
  BY <1>2, <1>3

\* The row at the place of a world operation is one of a world operation.
LEMMA WorldPlace ==
  ASSUME SameAsk, IInv, NEW c \in World, NEW o, <<SiteOf[c], o>> \in Instance, Matches(c, o)
  PROVE  node[<<SiteOf[c], o>>].actor = NoActor
<1> DEFINE i == <<SiteOf[c], o>>
<1>1. JournalTyped /\ Placed /\ c \in Call
  BY Actors DEF IInv, Types
<1>2. CASE node[i].out = "absent"
  BY <1>1, <1>2, Rows
<1>3. CASE node[i].out # "absent"
  <2>1. node[i].input = Input[c]
    BY <1>3 DEF Matches, RowOf
  <2>2. PICK d \in Call : SiteOf[d] = i[1] /\ Input[d] = node[i].input /\ ActorOf[d] = node[i].actor
    BY <1>1, <1>3 DEF Placed, Asked
  <2>3. SiteOf[d] = SiteOf[c] /\ Input[d] = Input[c]
    BY <2>1, <2>2
  <2>4. ActorOf[d] = ActorOf[c]
    BY <1>1, <2>3 DEF SameAsk
  <2> QED
    BY <2>2, <2>4, Actors
<1> QED
  BY <1>2, <1>3

\* Neither does one that enters come into a conversation: its row is one of a world operation.
LEMMA ReadOrder ==
  ASSUME SameAsk, IInv, OInv, NEW c \in Call, ReadWorld(c)
  PROVE  OInv'
<1>1. PICK o, out : Reads(c, o, out)
  BY ReadCases
<1>2. c \in World /\ NextCall(c) /\ o = ordinal[SiteOf[c]] + 1 /\ Enters(c, o)
      /\ UNCHANGED <<mode, seq, admission, liveQueue, current>>
      /\ \/ UNCHANGED node
         \/ node' = [node EXCEPT ![<<SiteOf[c], o>>] =
                       [actor |-> NoActor, seq |-> 0, input |-> Input[c], out |-> out]]
  BY <1>1 DEF Reads
<1>3. Matches(c, o)
  BY <1>2 DEF ReadWorld
<1>4. /\ Made' = Made \cup {c}
      /\ \A d \in Made : InstanceOf(d)' = InstanceOf(d)
  BY <1>2, Entering
<1>5. <<SiteOf[c], o>> \in Instance /\ \A d \in Made : InstanceOf(d) # <<SiteOf[c], o>>
  BY <1>2, NextFacts
<1>6. AdmissionTyped /\ JournalTyped /\ Numbered /\ Placed
  BY DEF IInv, Types
<1>7. node[<<SiteOf[c], o>>].actor = NoActor
  BY <1>2, <1>3, <1>5, WorldPlace
<1>8. /\ \A i \in Instance : Known(node[i]) => node'[i] = node[i]
      /\ \A i \in Instance : i # <<SiteOf[c], o>> => node'[i] = node[i]
  <2>1. \A i \in Instance : Known(node[i]) => node'[i] = node[i]
    BY <1>1, ReadRows
  <2>2. \A i \in Instance : i # <<SiteOf[c], o>> => node'[i] = node[i]
    <3>1. node \in [Instance -> Row \cup {Absent}]
      BY <1>6 DEF JournalTyped
    <3> DEFINE p == <<SiteOf[c], o>>
    <3> HIDE DEF p
    <3>2. \A i \in Instance : i # p => node'[i] = node[i]
      BY <1>2, <3>1 DEF p
    <3> QED
      BY <3>2 DEF p
  <2> QED
    BY <2>1, <2>2
<1>9. node'[<<SiteOf[c], o>>].actor = NoActor
  <2>1. node \in [Instance -> Row \cup {Absent}]
    BY <1>6 DEF JournalTyped
  <2> QED
    BY <1>2, <1>5, <1>7, <2>1
<1>10. SameRows
  BY <1>7, <1>8, <1>9 DEF SameRows
<1>11. \A d \in Made : InstanceOf(d) \in Instance /\ node'[InstanceOf(d)] = node[InstanceOf(d)]
  BY <1>5, <1>6, <1>8, Instances
<1>12. Live /\ Live' /\ Sorted(liveQueue', current', seq)
  BY <1>2 DEF NextCall, Live, OInv, Lined
<1>13. \A i \in Instance : Known(node[i]) => Known(node'[i])
  BY <1>8
<1>14. Steady
  BY <1>2, <1>4, <1>10, <1>11, <1>12, <1>13 DEF Steady
<1> QED
  BY <1>14, SteadyOrder

\* An actor's rows take as many positions as there are rows.
LEMMA CountedAll ==
  ASSUME IInv, Conversing, NEW a \in Actor
  PROVE  PositionsOf(a) = 0..(Counted(a) - 1) /\ Counted(a) \in 0..NCalls
<1> DEFINE A == RecordedAsks(a)
           f == [i \in A |-> node[i].seq]
<1>1. IsFiniteSet(A) /\ Counted(a) \in 0..NCalls /\ Counted(a) = Cardinality(A)
  BY CountBound DEF IInv, Types, Counted
<1>2. PICK n \in 0..NCalls : PositionsOf(a) = 0..(n - 1)
  BY DEF Conversing
<1>3. PositionsOf(a) = {node[i].seq : i \in A}
  BY DEF PositionsOf
<1>4. \A i, j \in A : node[i].seq = node[j].seq => i = j
  BY DEF Conversing
<1> HIDE DEF A
<1> DEFINE T == 0..(n - 1)
<1>5. \A i \in A : f[i] \in T
  BY <1>2, <1>3
<1>6. \A t \in T : \E i \in A : f[i] = t
  BY <1>2, <1>3
<1>7. \A i, j \in A : f[i] = f[j] => i = j
  BY <1>4
<1>8. f = [i \in A |-> f[i]]
  OBVIOUS
<1>9. n \in Nat /\ n - 1 \in Int /\ 0 \in Int
  BY <1>2, SizeAssumption
<1> HIDE DEF f, T
<1>10. f \in Bijection(A, T)
  <2>1. f \in [A -> T]
    BY <1>5, <1>8
  <2>2. f \in Injection(A, T)
    BY <1>7, <2>1 DEF Injection, IsInjective
  <2>3. f \in Surjection(A, T)
    BY <1>6, <2>1 DEF Surjection
  <2> QED
    BY <2>2, <2>3 DEF Bijection
<1>11. ExistsBijection(A, T)
  BY <1>10 DEF ExistsBijection
<1>12. Cardinality(T) = Cardinality(A)
  BY <1>1, <1>11, FS_Bijection
<1>13. Cardinality(T) = IF 0 > n - 1 THEN 0 ELSE n - 1 - 0 + 1
  BY <1>9, FiniteRange DEF T
<1>14. Cardinality(T) = n
  BY <1>9, <1>13
<1> QED
  BY <1>1, <1>2, <1>12, <1>14

\* A new life starts with all rows to be repeated.
LEMMA StartOrder ==
  ASSUME IInv, OInv, Start
  PROVE  OInv'
<1>1. /\ \A a \in Actor : admission'[a] = [NoAdmission EXCEPT !.count = Counted(a)]
      /\ \A a \in Actor : liveQueue'[a] = <<>> /\ current'[a] = NoCall
      /\ UNCHANGED node
  BY DEF Start, Fresh
<1>2. SameRows
  BY <1>1 DEF SameRows
<1>3. /\ \A a \in Actor : RecordedAsks(a)' = RecordedAsks(a) /\ PositionsOf(a)' = PositionsOf(a)
      /\ Conversing'
  BY <1>2, RowsStay DEF OInv
<1>4. ASSUME NEW a \in Actor
      PROVE  /\ Kept(admission'[a]) = {} /\ admission'[a].next = 0 /\ admission'[a].live = <<>>
             /\ PositionsOf(a)' = 0..(Ahead(admission'[a]) - 1)
             /\ InLine(liveQueue', current', a) = {}
  <2>1. PositionsOf(a) = 0..(Counted(a) - 1) /\ Counted(a) \in 0..NCalls
    BY CountedAll DEF OInv
  <2> DEFINE adm == admission'[a]
             n == Counted(a)
  <2>2. adm = Bare(n) /\ n \in 0..NCalls
    BY <1>1, <2>1 DEF NoAdmission, Bare
  <2> HIDE DEF adm, n
  <2>3. Kept(adm) = {} /\ adm.next = 0 /\ adm.count = n /\ adm.live = <<>>
    BY <2>2, NothingHeld
  <2>4. Ahead(adm) = n
    BY <2>2, <2>3, SizeAssumption DEF Ahead
  <2>5. InLine(liveQueue', current', a) = {}
    <3>1. liveQueue'[a] = <<>> /\ current'[a] = NoCall
      BY <1>1
    <3>2. DOMAIN liveQueue'[a] = {}
      BY <3>1
    <3> QED
      BY <3>1, <3>2 DEF InLine
  <2> QED
    BY <1>3, <2>1, <2>3, <2>4, <2>5 DEF adm, n
<1>5. Claiming'
  <2>1. \A a \in Actor : DOMAIN admission'[a].live = {}
    BY <1>4
  <2> QED
    BY <1>4, <2>1 DEF Claiming
<1>6. Owning'
  <2>1. ASSUME NEW a \in Actor, NEW i \in RecordedAsks(a) PROVE ~(node'[i].seq < 0)
    <3>1. i \in Instance /\ node[i].actor = a
      BY DEF RecordedAsks
    <3>2. node[i] \in Row
      <4>1. JournalTyped
        BY DEF IInv, Types
      <4>2. node[i] # Absent
        BY <3>1, <4>1, Actors, Rows
      <4> QED
        BY <3>1, <4>1, <4>2 DEF JournalTyped
    <3>3. node[i].seq \in 0..NCalls
      BY <3>2 DEF Row
    <3> QED
      BY <1>1, <3>3, SizeAssumption
  <2> QED
    BY <1>3, <1>4, <2>1 DEF Owning
<1>7. Lined'
  <2>1. \A a \in Actor : DOMAIN liveQueue'[a] = {}
    BY <1>1
  <2>2. Sorted(liveQueue', current', seq')
    BY <2>1 DEF Sorted
  <2> QED
    BY <1>4, <2>2 DEF Lined
<1> QED
  BY <1>3, <1>5, <1>6, <1>7 DEF OInv

\* A life ends: the rows stay.
LEMMA LossOrder ==
  ASSUME OInv, UNCHANGED node, ~Live'
  PROVE  OInv'
<1>1. SameRows
  BY DEF SameRows
<1>2. Conversing'
  BY <1>1, RowsStay DEF OInv
<1> QED
  BY <1>2 DEF OInv, Claiming, Owning, Lined

\* The ways a life ends.
LEMMA EndOrder ==
  ASSUME OInv, Crash \/ Complete \/ Throw \/ Stop \/ \E c \in Call : InputHashMismatch(c)
  PROVE  OInv'
<1>1. ASSUME NEW status, SettleRun(status) PROVE OInv'
  <2>1. UNCHANGED node /\ mode' \in {"settled", "down"}
    BY <1>1 DEF SettleRun, FinishRun, TornFinish
  <2> QED
    BY <2>1, LossOrder DEF Live
<1>2. CASE Crash
  <2>1. UNCHANGED node /\ mode' = "down"
    BY <1>2 DEF Crash, journal
  <2> QED
    BY <2>1, LossOrder DEF Live
<1>3. CASE Complete \/ Throw \/ Stop
  BY <1>1, <1>3 DEF Complete, Throw, Stop
<1>4. CASE \E c \in Call : InputHashMismatch(c)
  BY <1>1, <1>4 DEF InputHashMismatch
<1> QED
  BY <1>2, <1>3, <1>4, Zenon

\* What the admission that an ask joins knows of the rows: the ask has none, or its row is one
\* of its actor that has not been admitted in this life.
LEMMA JoiningClaims ==
  ASSUME SameAsk, IInv, OInv, NEW c, NEW o, NEW a, NEW adm, NEW at, NEW asks, Asks(c, o, a, adm, at, asks)
  PROVE  /\ \A k \in Kept(adm) :
              /\ k \in adm.next..(adm.count - 1)
              /\ node[Place(at, adm.recorded[k])].seq = k /\ node[Place(at, adm.recorded[k])].actor = a
         /\ \A j \in DOMAIN adm.live : node[Place(at, adm.live[j])].out = "absent"
<1> DEFINE old == admission[a]
           row == RowOf(c, o)
           p == <<SiteOf[c], o>>
<1>1. c \in Call /\ c \notin World /\ NextCall(c) /\ o = ordinal[SiteOf[c]] + 1 /\ a = ActorOf[c] /\ adm = Joining(c, o)
      /\ at = [inst EXCEPT ![c] = o] /\ Matches(c, o) /\ Live
  BY DEF Asks, NextCall
<1>2. a \in Actor /\ AdmissionTyped /\ JournalTyped /\ Placed /\ Numbered
  BY <1>1, Actors DEF IInv, Types
<1>3. p \in Instance /\ \A d \in Made : d # c /\ InstanceOf(d) # p
  BY <1>1, NextFacts
<1>4. at[c] = o /\ \A d \in Call : d # c => at[d] = inst[d]
  BY <1>1, <1>2 DEF AdmissionTyped
<1>5. /\ old \in Admission /\ old.next \in Nat /\ old.count \in Nat /\ old.live \in Seq(Call)
      /\ old.recorded \in [0..NCalls -> Call \cup {NoCall}] /\ NCalls \in Nat
  <2>1. old \in Admission
    BY <1>2 DEF AdmissionTyped
  <2> QED
    BY <2>1, AdmissionParts, SizeAssumption
<1>6. \A d \in Holds(old) : d \in Call /\ d # c /\ Place(at, d) = InstanceOf(d)
  <2>1. ASSUME NEW d \in Holds(old) PROVE d \in Call /\ d # c /\ Place(at, d) = InstanceOf(d)
    <3>1. d \in Made /\ d \in Call
      BY <1>2, HeldMade
    <3>2. d # c
      BY <1>3, <3>1
    <3> QED
      BY <1>4, <3>1, <3>2 DEF Place, InstanceOf
  <2> QED
    BY <2>1
<1>7. Place(at, c) = p
  BY <1>4 DEF Place
<1>8. /\ \A k \in Kept(old) : /\ k \in old.next..(old.count - 1)
                              /\ node[Place(at, old.recorded[k])].seq = k
                              /\ node[Place(at, old.recorded[k])].actor = a
      /\ \A j \in DOMAIN old.live : node[Place(at, old.live[j])].out = "absent"
  <2>1. \A k \in Kept(old) : old.recorded[k] \in Holds(old)
    BY DEF Holds
  <2>2. \A j \in DOMAIN old.live : old.live[j] \in Holds(old)
    BY DEF Holds
  <2> HIDE DEF old
  <2>3. /\ \A k \in Kept(old) : /\ k \in old.next..(old.count - 1)
                                /\ node[InstanceOf(old.recorded[k])].seq = k
                                /\ node[InstanceOf(old.recorded[k])].actor = a
        /\ \A j \in DOMAIN old.live : node[InstanceOf(old.live[j])].out = "absent"
    BY <1>1, <1>2 DEF OInv, Claiming, old
  <2> QED
    BY <1>6, <2>1, <2>2, <2>3
<1>9. adm = IF row.out = "absent" THEN [old EXCEPT !.live = Append(@, c)]
            ELSE [old EXCEPT !.recorded[row.seq] = c]
  BY <1>1 DEF Joining, RowOf
<1>10. row = node[p]
  BY DEF RowOf
<1>11. old = [count |-> old.count, next |-> old.next, recorded |-> old.recorded, live |-> old.live]
  BY <1>5 DEF Admission
<1>12. CASE row.out = "absent"
  <2> HIDE DEF old, row, p
  <2>1. adm.next = old.next /\ adm.count = old.count /\ adm.recorded = old.recorded /\ adm.live = Append(old.live, c)
    BY <1>9, <1>11, <1>12
  <2>2. \A j \in DOMAIN adm.live : (j \in DOMAIN old.live /\ adm.live[j] = old.live[j]) \/ adm.live[j] = c
    <3> DEFINE s == old.live
               t == adm.live
    <3>1. s \in Seq(Call) /\ t = Append(s, c)
      BY <1>5, <2>1
    <3> HIDE DEF s, t
    <3>2. \A j \in DOMAIN t : (j \in DOMAIN s /\ t[j] = s[j]) \/ t[j] = c
      BY <1>1, <3>1
    <3> QED
      BY <3>2 DEF s, t
  <2>3. Kept(adm) = Kept(old)
    BY <2>1 DEF Kept
  <2>4. node[Place(at, c)].out = "absent"
    BY <1>7, <1>10, <1>12
  <2>5. \A j \in DOMAIN adm.live : node[Place(at, adm.live[j])].out = "absent"
    BY <1>8, <2>2, <2>4
  <2> QED
    BY <1>8, <2>1, <2>3, <2>5
<1>13. CASE row.out # "absent"
  <2>1. row.actor = a
    <3>1. row.input = Input[c]
      BY <1>1, <1>13 DEF Matches
    <3>2. PICK d \in Call : SiteOf[d] = p[1] /\ Input[d] = node[p].input /\ ActorOf[d] = node[p].actor
      BY <1>2, <1>3, <1>10, <1>13 DEF Placed, Asked
    <3>3. SiteOf[d] = SiteOf[c] /\ Input[d] = Input[c]
      BY <1>10, <3>1, <3>2
    <3>4. ActorOf[d] = ActorOf[c]
      BY <1>1, <3>3 DEF SameAsk
    <3> QED
      BY <1>1, <1>10, <3>2, <3>4
  <2>2. p \in RecordedAsks(a)
    BY <1>3, <1>10, <2>1 DEF RecordedAsks
  <2>3. row.seq \in 0..(Ahead(old) - 1)
    <3>1. row.seq \in PositionsOf(a)
      BY <1>10, <2>2 DEF PositionsOf
    <3> QED
      BY <1>1, <1>2, <3>1 DEF OInv, Claiming
  <2>4. ~(row.seq < old.next)
    <3>1. ASSUME row.seq < old.next PROVE FALSE
      <4>1. PICK d \in Made : InstanceOf(d) = p
        BY <1>1, <1>2, <1>10, <2>2, <3>1 DEF OInv, Owning
      <4> QED
        BY <1>3, <4>1
    <3> QED
      BY <3>1
  <2> HIDE DEF old, row, p
  <2>5. row.seq \in old.next..(old.count - 1)
    BY <1>5, <2>3, <2>4 DEF Ahead
  <2>6. row.seq \in 0..NCalls
    <3>1. old.count \in 0..NCalls
      BY <1>5, AdmissionParts
    <3> QED
      BY <1>5, <2>5, <3>1
  <2>7. /\ adm.count = old.count /\ adm.next = old.next /\ adm.live = old.live
        /\ adm.recorded = [old.recorded EXCEPT ![row.seq] = c]
    BY <1>9, <1>11, <1>13
  <2>8. \A k \in Kept(adm) : (k = row.seq /\ adm.recorded[k] = c) \/ (k \in Kept(old) /\ adm.recorded[k] = old.recorded[k])
    BY <1>5, <2>6, <2>7 DEF Kept
  <2>9. node[Place(at, c)].seq = row.seq /\ node[Place(at, c)].actor = a
    BY <1>7, <1>10, <2>1
  <2>10. ASSUME NEW k \in Kept(adm)
         PROVE  /\ k \in adm.next..(adm.count - 1)
                /\ node[Place(at, adm.recorded[k])].seq = k /\ node[Place(at, adm.recorded[k])].actor = a
    <3>1. CASE k = row.seq /\ adm.recorded[k] = c
      BY <2>5, <2>7, <2>9, <3>1
    <3>2. CASE k \in Kept(old) /\ adm.recorded[k] = old.recorded[k]
      BY <1>8, <2>7, <3>2
    <3> QED
      BY <2>8, <3>1, <3>2
  <2> QED
    BY <1>8, <2>7, <2>10
<1> QED
  BY <1>12, <1>13

\* The asks admitted from position first on: each has the row of its position, or no row and
\* a position that no row has.
Lodged(at, a, first, asks, m) ==
  /\ Admitted(at, a, first, asks)
  /\ m \in 0..NCalls /\ first <= m /\ PositionsOf(a) = 0..(m - 1)
  /\ \A x \in DOMAIN asks :
       \/ node[Place(at, asks[x])].out = "absent" /\ first + x - 1 >= m
       \/ node[Place(at, asks[x])].actor = a /\ node[Place(at, asks[x])].seq = first + x - 1

\* The hold rule lodges them.
LEMMA AsksLodged ==
  ASSUME SameAsk, IInv, OInv, NEW c, NEW o, NEW a, NEW adm, NEW at, NEW asks, Asks(c, o, a, adm, at, asks)
  PROVE  Lodged(at, a, adm.next, asks, Ahead(adm))
<1>1. /\ a \in Actor /\ adm \in Admission /\ adm.next = admission[a].next /\ adm.count = admission[a].count
      /\ Roomy(adm, NCalls)
  BY JoiningKeeps
<1>2. Admitted(at, a, adm.next, asks) /\ adm.next + Len(asks) = Drained(adm)
      /\ DOMAIN asks = 1..Len(asks) /\ Len(asks) \in Nat
  BY AdmittedAsks
<1>3. asks = Released(adm) /\ Live
  BY DEF Asks, NextCall
<1>4. adm.count \in 0..NCalls /\ adm.next \in 0..NCalls /\ NCalls \in Nat
  BY <1>1, AdmissionParts, SizeAssumption
<1>5. Ahead(adm) \in 0..NCalls /\ adm.next <= Ahead(adm)
  BY <1>4 DEF Ahead
<1>6. PositionsOf(a) = 0..(Ahead(adm) - 1)
  <2>1. Ahead(adm) = Ahead(admission[a])
    BY <1>1 DEF Ahead
  <2> QED
    BY <1>1, <1>3, <2>1 DEF OInv, Claiming
<1>7. ASSUME NEW x \in DOMAIN asks
      PROVE  \/ node[Place(at, asks[x])].out = "absent" /\ adm.next + x - 1 >= Ahead(adm)
             \/ node[Place(at, asks[x])].actor = a /\ node[Place(at, asks[x])].seq = adm.next + x - 1
  <2> DEFINE k == Spot(adm, x)
  <2>1. x \in 1..(Drained(adm) - adm.next)
    BY <1>2, <1>4
  <2>2. IF adm.recorded[k] # NoCall
        THEN k \in Kept(adm) /\ Released(adm)[x] = adm.recorded[k]
        ELSE /\ k >= adm.count
             /\ Cardinality(Slots(adm, k)) \in 1..Len(adm.live)
             /\ Released(adm)[x] = adm.live[Cardinality(Slots(adm, k))]
    BY <1>1, <2>1, Admits
  <2>3. k = adm.next + x - 1 /\ k >= adm.next
    BY <1>2, <1>4 DEF Spot
  <2> HIDE DEF k
  <2>4. CASE adm.recorded[k] # NoCall
    <3>1. k \in Kept(adm) /\ asks[x] = adm.recorded[k]
      BY <1>3, <2>2, <2>4
    <3>2. node[Place(at, adm.recorded[k])].seq = k /\ node[Place(at, adm.recorded[k])].actor = a
      BY <3>1, JoiningClaims
    <3> QED
      BY <2>3, <3>1, <3>2
  <2>5. CASE adm.recorded[k] = NoCall
    <3> DEFINE j == Cardinality(Slots(adm, k))
    <3>1. k >= adm.count /\ j \in 1..Len(adm.live) /\ asks[x] = adm.live[j]
      BY <1>3, <2>2, <2>5
    <3> HIDE DEF j
    <3>2. j \in DOMAIN adm.live
      BY <1>1, <3>1, AdmissionParts
    <3>3. node[Place(at, adm.live[j])].out = "absent"
      BY <3>2, JoiningClaims
    <3>4. k >= Ahead(adm)
      BY <1>4, <2>3, <3>1 DEF Ahead
    <3> QED
      BY <2>3, <3>1, <3>3, <3>4
  <2> QED
    BY <2>4, <2>5
<1> QED
  BY <1>2, <1>5, <1>6, <1>7 DEF Lodged

\* Journaling lodged asks keeps every row its actor and position; the asks get theirs.
LEMMA JournaledPlaces ==
  ASSUME IInv, NEW at, NEW a, NEW first, NEW asks, NEW m, Lodged(at, a, first, asks, m),
         node' = Journaled(at, a, first, asks)
  PROVE  /\ \A x \in DOMAIN asks : /\ Place(at, asks[x]) \in Instance
                                   /\ node'[Place(at, asks[x])].actor = a
                                   /\ node'[Place(at, asks[x])].seq = first + x - 1
         /\ \A i \in Instance : node[i].out # "absent" =>
              node'[i].actor = node[i].actor /\ node'[i].seq = node[i].seq
         /\ \A i \in Instance : (\A x \in DOMAIN asks : i # Place(at, asks[x])) => node'[i] = node[i]
         /\ \A i \in Instance : node[i].actor # NoActor => node[i].out # "absent"
<1>0. JournalTyped /\ Admitted(at, a, first, asks)
  BY DEF IInv, Types, Lodged
<1>1. /\ \A i \in Instance : Known(node[i]) => node'[i] = node[i]
      /\ \A i \in Instance : (\A x \in DOMAIN asks : i # Place(at, asks[x])) => node'[i] = node[i]
      /\ \A x \in DOMAIN asks :
           /\ Place(at, asks[x]) \in Instance
           /\ ~Known(node[Place(at, asks[x])]) =>
                /\ node'[Place(at, asks[x])].actor = a
                /\ node'[Place(at, asks[x])].seq = first + x - 1
  BY <1>0, JournaledRows
<1>2. ASSUME NEW x \in DOMAIN asks
      PROVE  /\ Place(at, asks[x]) \in Instance
             /\ node'[Place(at, asks[x])].actor = a
             /\ node'[Place(at, asks[x])].seq = first + x - 1
             /\ node[Place(at, asks[x])].out # "absent" =>
                  node[Place(at, asks[x])].actor = a /\ node[Place(at, asks[x])].seq = first + x - 1
  <2> DEFINE p == Place(at, asks[x])
  <2>1. p \in Instance
    BY <1>1
  <2>2. node[p].out # "absent" => node[p].actor = a /\ node[p].seq = first + x - 1
    BY DEF Lodged
  <2>3. CASE Known(node[p])
    <3>1. node[p].out # "absent"
      BY <2>3, Outcomes DEF Known
    <3> QED
      BY <1>1, <2>1, <2>2, <2>3, <3>1
  <2>4. CASE ~Known(node[p])
    BY <1>1, <2>1, <2>2, <2>4
  <2> QED
    BY <2>3, <2>4
<1>3. ASSUME NEW i \in Instance, node[i].out # "absent"
      PROVE  node'[i].actor = node[i].actor /\ node'[i].seq = node[i].seq
  <2>1. CASE \E x \in DOMAIN asks : i = Place(at, asks[x])
    BY <1>2, <1>3, <2>1
  <2>2. CASE \A x \in DOMAIN asks : i # Place(at, asks[x])
    BY <1>1, <2>2
  <2> QED
    BY <2>1, <2>2
<1>4. ASSUME NEW i \in Instance, node[i].actor # NoActor PROVE node[i].out # "absent"
  <2>1. node[i] # Absent
    BY <1>0, <1>4, Rows
  <2>2. node[i] \in Row
    BY <1>0, <2>1, Rows
  <2> QED
    BY <1>0, <2>2, Rows
<1> QED
  BY <1>1, <1>2, <1>3, <1>4

\* It keeps the conversations in order, and the actor's numbers go on without a gap.
LEMMA JournaledOrder ==
  ASSUME IInv, Conversing, NEW at, NEW a, NEW first, NEW asks, NEW m, Lodged(at, a, first, asks, m),
         node' = Journaled(at, a, first, asks)
  PROVE  /\ Conversing'
         /\ \A b \in Actor : b # a => PositionsOf(b)' = PositionsOf(b) /\ RecordedAsks(b)' = RecordedAsks(b)
         /\ \A e \in Nat : e = first + Len(asks) => PositionsOf(a)' = 0..((IF m > e THEN m ELSE e) - 1)
         /\ RecordedAsks(a)' = RecordedAsks(a) \cup {Place(at, asks[x]) : x \in DOMAIN asks}
<1>1. /\ \A x \in DOMAIN asks : /\ Place(at, asks[x]) \in Instance
                                /\ node'[Place(at, asks[x])].actor = a
                                /\ node'[Place(at, asks[x])].seq = first + x - 1
      /\ \A i \in Instance : node[i].out # "absent" =>
           node'[i].actor = node[i].actor /\ node'[i].seq = node[i].seq
      /\ \A i \in Instance : (\A x \in DOMAIN asks : i # Place(at, asks[x])) => node'[i] = node[i]
      /\ \A i \in Instance : node[i].actor # NoActor => node[i].out # "absent"
  BY JournaledPlaces
<1>2. /\ a \in Actor /\ first \in Nat /\ asks \in Seq(Call) /\ first + Len(asks) <= NCalls
      /\ m \in 0..NCalls /\ first <= m /\ PositionsOf(a) = 0..(m - 1) /\ NCalls \in Nat
      /\ Len(asks) \in Nat /\ DOMAIN asks = 1..Len(asks)
      /\ \A x \in DOMAIN asks :
            \/ node[Place(at, asks[x])].out = "absent" /\ first + x - 1 >= m
            \/ node[Place(at, asks[x])].actor = a /\ node[Place(at, asks[x])].seq = first + x - 1
  <2>1. asks \in Seq(Call)
    BY DEF Lodged, Admitted
  <2>2. Len(asks) \in Nat /\ DOMAIN asks = 1..Len(asks)
    BY <2>1
  <2> QED
    BY <2>1, <2>2, SizeAssumption DEF Lodged, Admitted
<1> DEFINE places == {Place(at, asks[x]) : x \in DOMAIN asks}
<1>3. \A b \in Actor : \A i \in RecordedAsks(b) :
        i \in Instance /\ node[i].actor = b /\ node'[i].actor = b /\ node'[i].seq = node[i].seq
  BY <1>1, Actors DEF RecordedAsks
<1>4. ASSUME NEW b \in Actor, NEW i \in RecordedAsks(b)'
      PROVE  i \in RecordedAsks(b) \/ (b = a /\ i \in places)
  <2>1. i \in Instance /\ node'[i].actor = b
    BY DEF RecordedAsks
  <2>2. CASE i \in places
    BY <1>1, <2>1, <2>2
  <2>3. CASE i \notin places
    BY <1>1, <2>1, <2>3 DEF RecordedAsks
  <2> QED
    BY <2>2, <2>3
<1>5. \A b \in Actor : RecordedAsks(b) \subseteq RecordedAsks(b)'
  BY <1>3 DEF RecordedAsks
<1>6. places \subseteq RecordedAsks(a)'
  BY <1>1 DEF RecordedAsks
<1>7. /\ RecordedAsks(a)' = RecordedAsks(a) \cup places
      /\ \A b \in Actor : b # a => RecordedAsks(b)' = RecordedAsks(b)
  BY <1>2, <1>4, <1>5, <1>6
<1>8. \A b \in Actor : b # a => PositionsOf(b)' = PositionsOf(b)
  <2>1. ASSUME NEW b \in Actor, b # a PROVE PositionsOf(b)' = PositionsOf(b)
    <3>1. {node'[i].seq : i \in RecordedAsks(b)} = {node[i].seq : i \in RecordedAsks(b)}
      BY <1>3
    <3> QED
      BY <1>7, <2>1, <3>1 DEF PositionsOf
  <2> QED
    BY <2>1
<1>9. ASSUME NEW e \in Nat, e = first + Len(asks)
      PROVE  PositionsOf(a)' = 0..((IF m > e THEN m ELSE e) - 1)
  <2> DEFINE top == IF m > e THEN m ELSE e
  <2>1. PositionsOf(a)' = {node'[i].seq : i \in RecordedAsks(a) \cup places}
    BY <1>7 DEF PositionsOf
  <2>2. {node[i].seq : i \in RecordedAsks(a)} = 0..(m - 1)
    BY <1>2 DEF PositionsOf
  <2>3. ASSUME NEW i \in RecordedAsks(a) \cup places PROVE node'[i].seq \in 0..(top - 1)
    <3>1. CASE i \in RecordedAsks(a)
      <4>1. node'[i].seq \in 0..(m - 1)
        BY <1>2, <1>3, <2>2, <3>1
      <4> QED
        BY <1>2, <4>1
    <3>2. CASE i \in places
      <4>1. PICK x \in DOMAIN asks : i = Place(at, asks[x])
        BY <3>2
      <4>2. node'[i].seq = first + x - 1 /\ x \in 1..Len(asks)
        BY <1>1, <1>2, <4>1
      <4> QED
        BY <1>2, <1>9, <4>2
    <3> QED
      BY <2>3, <3>1, <3>2
  <2>4. ASSUME NEW k \in 0..(top - 1) PROVE \E i \in RecordedAsks(a) \cup places : node'[i].seq = k
    <3>1. CASE k < m
      <4>1. k \in 0..(m - 1)
        BY <1>2, <3>1
      <4>2. PICK i \in RecordedAsks(a) : node[i].seq = k
        BY <2>2, <4>1
      <4> QED
        BY <1>2, <1>3, <4>2
    <3>2. CASE k >= m
      <4> DEFINE x == k - first + 1
      <4>1. k < e /\ k \in Nat
        BY <1>2, <3>2
      <4>2. x \in 1..Len(asks) /\ first + x - 1 = k
        BY <1>2, <1>9, <3>2, <4>1
      <4> HIDE DEF x
      <4>3. x \in DOMAIN asks /\ Place(at, asks[x]) \in places
        BY <1>2, <4>2
      <4> QED
        BY <1>1, <4>2, <4>3
    <3> QED
      BY <1>2, <3>1, <3>2
  <2> HIDE DEF top, places
  <2>5. {node'[i].seq : i \in RecordedAsks(a) \cup places} = 0..(top - 1)
    BY <2>3, <2>4
  <2> QED
    BY <2>1, <2>5 DEF top
<1>10. ASSUME NEW i \in RecordedAsks(a)', NEW j \in RecordedAsks(a)', node'[i].seq = node'[j].seq PROVE i = j
  <2>1. ASSUME NEW x \in DOMAIN asks, NEW u \in RecordedAsks(a), node[u].seq = first + x - 1
        PROVE  u = Place(at, asks[x])
    <3>1. node[u].seq \in 0..(m - 1)
      BY <1>2, <2>1 DEF PositionsOf
    <3>2. x \in 1..Len(asks)
      BY <1>2
    <3>3. ~(first + x - 1 >= m)
      BY <1>2, <2>1, <3>1, <3>2
    <3>4. node[Place(at, asks[x])].actor = a /\ node[Place(at, asks[x])].seq = first + x - 1
      BY <1>2, <3>3
    <3>5. Place(at, asks[x]) \in RecordedAsks(a)
      BY <1>1, <3>4 DEF RecordedAsks
    <3> QED
      BY <1>2, <2>1, <3>4, <3>5 DEF Conversing
  <2>2. CASE i \in RecordedAsks(a) /\ j \in RecordedAsks(a)
    BY <1>2, <1>3, <1>10, <2>2 DEF Conversing
  <2>3. CASE i \in places /\ j \in RecordedAsks(a)
    BY <1>1, <1>2, <1>3, <1>10, <2>1, <2>3
  <2>4. CASE i \in RecordedAsks(a) /\ j \in places
    BY <1>1, <1>2, <1>3, <1>10, <2>1, <2>4
  <2>5. CASE i \in places /\ j \in places
    <3>1. PICK x \in DOMAIN asks, y \in DOMAIN asks : i = Place(at, asks[x]) /\ j = Place(at, asks[y])
      BY <2>5
    <3>2. first + x - 1 = first + y - 1 /\ x \in 1..Len(asks) /\ y \in 1..Len(asks)
      BY <1>1, <1>2, <1>10, <3>1
    <3>3. x = y
      BY <1>2, <3>2
    <3> QED
      BY <3>1, <3>3
  <2> QED
    BY <1>2, <1>4, <2>2, <2>3, <2>4, <2>5
<1>11. Conversing'
  <2>1. ASSUME NEW b \in Actor
        PROVE  /\ \A i, j \in RecordedAsks(b)' : node'[i].seq = node'[j].seq => i = j
               /\ \E n \in 0..NCalls : PositionsOf(b)' = 0..(n - 1)
    <3>1. CASE b # a
      <4>1. \A i, j \in RecordedAsks(b)' : node'[i].seq = node'[j].seq => i = j
        BY <1>3, <1>7, <3>1 DEF Conversing
      <4>2. \E n \in 0..NCalls : PositionsOf(b)' = 0..(n - 1)
        BY <1>8, <3>1 DEF Conversing
      <4> QED
        BY <4>1, <4>2
    <3>2. CASE b = a
      <4> DEFINE e == first + Len(asks)
                 top == IF m > e THEN m ELSE e
      <4>1. e \in Nat /\ top \in 0..NCalls
        BY <1>2
      <4>2. PositionsOf(a)' = 0..(top - 1)
        BY <1>9, <4>1
      <4> HIDE DEF top
      <4>3. \E n \in 0..NCalls : PositionsOf(b)' = 0..(n - 1)
        BY <3>2, <4>1, <4>2
      <4> QED
        BY <1>10, <3>2, <4>3
    <3> QED
      BY <3>1, <3>2
  <2> QED
    BY <2>1 DEF Conversing
<1> QED
  BY <1>7, <1>8, <1>9, <1>11

\* Dying while asks are journaled keeps the conversations in order.
LEMMA CrashOrder ==
  ASSUME SameAsk, IInv, OInv, NEW c \in Call, CrashAdmitting(c)
  PROVE  OInv'
<1>1. PICK o, a, adm, at, asks, n, recorded : Dies(c, o, a, adm, at, asks, n, recorded)
  BY CrashDies
<1>2. Asks(c, o, a, adm, at, asks) /\ n \in DOMAIN asks /\ mode' = "down"
      /\ node' = Journaled(at, a, adm.next, SubSeq(asks, 1, n))
  BY <1>1 DEF Dies
<1> DEFINE m == Ahead(adm)
           p == SubSeq(asks, 1, n)
<1>3. Lodged(at, a, adm.next, asks, m)
  BY <1>2, AsksLodged
<1>4. asks \in Seq(Call) /\ Admitted(at, a, adm.next, asks)
  BY <1>3 DEF Lodged, Admitted
<1>5. DOMAIN p = 1..n /\ \A x \in 1..n : p[x] = asks[x] /\ x \in DOMAIN asks
  <2>1. Len(asks) \in Nat /\ n \in 1..Len(asks) /\ DOMAIN asks = 1..Len(asks)
    BY <1>2, <1>4
  <2>2. p = [i \in 1..(n - 1 + 1) |-> asks[1 + i - 1]]
    BY <1>4, <2>1
  <2> HIDE DEF p
  <2>3. n - 1 + 1 = n /\ \A i \in 1..n : 1 + i - 1 = i /\ i \in 1..Len(asks)
    BY <2>1
  <2> QED
    BY <2>1, <2>2, <2>3
<1>6. Admitted(at, a, adm.next, p)
  BY <1>2, <1>4, AdmittedPrefix
<1> HIDE DEF m, p
<1>7. Lodged(at, a, adm.next, p, m)
  BY <1>3, <1>5, <1>6 DEF Lodged
<1>8. Conversing'
  BY <1>2, <1>7, JournaledOrder DEF OInv, p
<1> QED
  BY <1>2, <1>8 DEF OInv, Claiming, Owning, Lined, Live

\* The numbers and rows after an admission.
LEMMA TakeNumbers ==
  ASSUME SameAsk, IInv, OInv, NEW c, NEW o, NEW a, NEW adm, NEW at, NEW asks, NEW rows, NEW ended, NEW answered, NEW live,
         Takes(c, o, a, adm, at, asks, rows, ended, answered, live)
  PROVE  /\ Conversing' /\ adm \in Admission /\ asks = Released(adm) /\ Asks(c, o, a, adm, at, asks)
         /\ adm.next = admission[a].next /\ adm.next \in Nat
         /\ Drained(adm) \in Nat /\ Drained(adm) = adm.next + Len(asks)
         /\ asks \in Seq(Call) /\ DOMAIN asks = 1..Len(asks) /\ Len(asks) \in Nat
         /\ admission'[a] = AfterDrain(adm) /\ admission'[a].next = Drained(adm)
         /\ \A b \in Actor : b # a => /\ admission'[b] = admission[b] /\ PositionsOf(b)' = PositionsOf(b)
                                      /\ RecordedAsks(b)' = RecordedAsks(b)
         /\ PositionsOf(a)' = 0..(Ahead(admission'[a]) - 1)
         /\ RecordedAsks(a)' = RecordedAsks(a) \cup {InstanceOf(asks[x])' : x \in DOMAIN asks}
         /\ \A x \in DOMAIN asks : /\ asks[x] \in ToSet(asks)
                                   /\ node'[InstanceOf(asks[x])'].actor = a
                                   /\ node'[InstanceOf(asks[x])'].seq = adm.next + x - 1
                                   /\ seq'[asks[x]] = adm.next + x - 1
         /\ \A d \in Call : d \notin ToSet(asks) => seq'[d] = seq[d]
         /\ \A b \in Actor : \A i \in RecordedAsks(b) : i \in Instance /\ node'[i].seq = node[i].seq
<1>1. Asks(c, o, a, adm, at, asks) /\ node' = Journaled(at, a, adm.next, asks) /\ inst' = at
  BY DEF Takes
<1>2. /\ a \in Actor /\ adm \in Admission /\ adm.next = admission[a].next /\ adm.count = admission[a].count
      /\ Roomy(adm, Cardinality(MadeBy(a)) + 1) /\ Roomy(adm, NCalls) /\ Once(adm) /\ asks = Released(adm)
  BY <1>1, JoiningKeeps DEF Asks
<1>3. Lodged(at, a, adm.next, asks, Ahead(adm)) /\ Admitted(at, a, adm.next, asks)
  BY <1>1, AsksLodged DEF Lodged
<1>4. /\ Drained(adm) = adm.next + Len(asks) /\ DOMAIN asks = 1..Len(asks) /\ Len(asks) \in Nat
      /\ \A x, y \in DOMAIN asks : asks[x] = asks[y] => x = y
      /\ asks \in Seq(Call)
  BY <1>1, <1>3, AdmittedAsks DEF Admitted
<1>5. adm.count \in Nat /\ adm.next \in Nat /\ Drained(adm) \in Nat /\ adm.next <= Drained(adm)
  BY <1>2, <1>4, AdmissionParts, SizeAssumption
<1>6. \A d : InstanceOf(d)' = Place(at, d)
  BY <1>1 DEF InstanceOf, Place
<1>7. admission'[a] = AfterDrain(adm) /\ \A b \in Actor : b # a => admission'[b] = admission[b]
  BY <1>2 DEF Takes, IInv, Types, AdmissionTyped
<1>8. AfterDrain(adm).next = Drained(adm) /\ AfterDrain(adm).count = adm.count
  BY DEF AfterDrain, Admission
<1>9. /\ Conversing'
      /\ \A b \in Actor : b # a => PositionsOf(b)' = PositionsOf(b) /\ RecordedAsks(b)' = RecordedAsks(b)
      /\ \A e \in Nat : e = adm.next + Len(asks) =>
           PositionsOf(a)' = 0..((IF Ahead(adm) > e THEN Ahead(adm) ELSE e) - 1)
      /\ RecordedAsks(a)' = RecordedAsks(a) \cup {Place(at, asks[x]) : x \in DOMAIN asks}
  BY <1>1, <1>3, JournaledOrder DEF OInv
<1>10. /\ \A x \in DOMAIN asks : /\ Place(at, asks[x]) \in Instance
                                 /\ node'[Place(at, asks[x])].actor = a
                                 /\ node'[Place(at, asks[x])].seq = adm.next + x - 1
       /\ \A i \in Instance : node[i].out # "absent" =>
            node'[i].actor = node[i].actor /\ node'[i].seq = node[i].seq
       /\ \A i \in Instance : node[i].actor # NoActor => node[i].out # "absent"
  BY <1>1, <1>3, JournaledPlaces
<1>11. PositionsOf(a)' = 0..(Ahead(admission'[a]) - 1)
  <2>1. Ahead(AfterDrain(adm)) = IF Ahead(adm) > Drained(adm) THEN Ahead(adm) ELSE Drained(adm)
    BY <1>5, <1>8 DEF Ahead
  <2> QED
    BY <1>4, <1>5, <1>7, <1>9, <2>1
<1>12. ASSUME NEW x \in DOMAIN asks
       PROVE  /\ asks[x] \in ToSet(asks)
              /\ node'[InstanceOf(asks[x])'].actor = a
              /\ node'[InstanceOf(asks[x])'].seq = adm.next + x - 1
              /\ seq'[asks[x]] = adm.next + x - 1
  <2>1. asks[x] \in ToSet(asks) /\ asks[x] \in Call
    BY <1>4 DEF ToSet
  <2>2. (CHOOSE i \in DOMAIN asks : asks[i] = asks[x]) = x
    BY <1>4
  <2>3. seq'[asks[x]] = adm.next + x - 1
    BY <2>1, <2>2 DEF Takes
  <2> QED
    BY <1>6, <1>10, <2>1, <2>3
<1>13. \A d \in Call : d \notin ToSet(asks) => seq'[d] = seq[d]
  BY DEF Takes
<1>14. \A b \in Actor : \A i \in RecordedAsks(b) : i \in Instance /\ node'[i].seq = node[i].seq
  BY <1>10, Actors DEF RecordedAsks
<1>15. RecordedAsks(a)' = RecordedAsks(a) \cup {InstanceOf(asks[x])' : x \in DOMAIN asks}
  BY <1>6, <1>9
<1> QED
  BY <1>1, <1>2, <1>4, <1>5, <1>7, <1>8, <1>9, <1>11, <1>12, <1>13, <1>14, <1>15

\* What the admissions still hold is as it was.
LEMMA TakeClaims ==
  ASSUME SameAsk, IInv, OInv, NEW c, NEW o, NEW a, NEW adm, NEW at, NEW asks, NEW rows, NEW ended, NEW answered, NEW live,
         Takes(c, o, a, adm, at, asks, rows, ended, answered, live)
  PROVE  Claiming'
<1>1. /\ a \in Actor /\ c \in Call /\ Live /\ c \notin Made /\ Made' = Made \cup {c}
      /\ \A d \in ToSet(asks) : /\ d \in Call /\ ActorOf[d] = a /\ d \in Made'
      /\ \A d \in Made' : InstanceOf(d)' \in Instance
      /\ \A d \in Made : InstanceOf(d)' = InstanceOf(d)
      /\ \A d \in Made' : d \notin ToSet(asks) => node'[InstanceOf(d)'] = node[InstanceOf(d)']
  BY TakeRows
<1>2. /\ adm \in Admission /\ asks = Released(adm) /\ Asks(c, o, a, adm, at, asks)
      /\ adm.next \in Nat /\ Drained(adm) \in Nat /\ Drained(adm) = adm.next + Len(asks) /\ Len(asks) \in Nat
      /\ admission'[a] = AfterDrain(adm) /\ admission'[a].next = Drained(adm)
      /\ \A b \in Actor : b # a => admission'[b] = admission[b] /\ PositionsOf(b)' = PositionsOf(b)
      /\ PositionsOf(a)' = 0..(Ahead(admission'[a]) - 1)
  BY TakeNumbers
<1>3. Roomy(adm, Cardinality(MadeBy(a)) + 1) /\ Once(adm) /\ Holds(adm) \subseteq Holds(admission[a]) \cup {c}
  BY <1>2, JoiningKeeps
<1>4. Cardinality(MadeBy(a)) + 1 \in Nat /\ Cardinality(MadeBy(a)) + 1 <= NCalls
  <2>1. c \in Call /\ NextCall(c) /\ o = ordinal[SiteOf[c]] + 1 /\ a = ActorOf[c]
    BY <1>2 DEF Asks
  <2>2. \A b : Cardinality(MadeBy(b)) \in Nat
    BY <2>1, NextFacts
  <2>3. Cardinality(MadeBy(a)) + 1 <= NCalls
    BY <2>1, NextFacts
  <2> DEFINE n == Cardinality(MadeBy(a))
  <2>4. n \in Nat
    BY <2>2
  <2> HIDE DEF n
  <2>5. n + 1 \in Nat
    BY <2>4
  <2> QED
    BY <2>3, <2>5 DEF n
<1> DEFINE rest == AfterDrain(adm)
           n == Cardinality(MadeBy(a)) + 1
<1>5. /\ rest \in Admission /\ rest.count = adm.count /\ rest.next = Drained(adm)
      /\ Kept(rest) = Later(adm, Drained(adm))
      /\ \A k \in Kept(rest) : rest.recorded[k] = adm.recorded[k]
      /\ Holds(rest) \subseteq Holds(adm)
      /\ \A i \in DOMAIN rest.live : \E j \in DOMAIN adm.live : rest.live[i] = adm.live[j]
      /\ \A i \in DOMAIN asks : asks[i] \notin Holds(rest)
  <2> HIDE DEF n
  <2>1. n \in Nat /\ n <= NCalls /\ Roomy(adm, n)
    BY <1>3, <1>4 DEF n
  <2> QED
    BY <1>2, <1>3, <2>1, Remains
<1>6. \A d : InstanceOf(d)' = Place(at, d)
  BY DEF InstanceOf, Place, Takes
<1>7. /\ \A k \in Kept(adm) : /\ k \in adm.next..(adm.count - 1)
                              /\ node[Place(at, adm.recorded[k])].seq = k
                              /\ node[Place(at, adm.recorded[k])].actor = a
      /\ \A j \in DOMAIN adm.live : node[Place(at, adm.live[j])].out = "absent"
  BY <1>2, JoiningClaims
<1>8. ASSUME NEW d \in Holds(rest) PROVE node'[Place(at, d)] = node[Place(at, d)]
  <2>1. d \in Made'
    <3>1. CASE d = c
      BY <1>1, <3>1
    <3>2. CASE d \in Holds(admission[a])
      BY <1>1, <3>2, HeldMade
    <3> QED
      BY <1>3, <1>5, <3>1, <3>2
  <2>2. d \notin ToSet(asks)
    BY <1>5 DEF ToSet
  <2> QED
    BY <1>1, <1>6, <2>1, <2>2
<1>9. ASSUME NEW b \in Actor, b # a, NEW d \in Holds(admission[b])
      PROVE  InstanceOf(d)' = InstanceOf(d) /\ node'[InstanceOf(d)] = node[InstanceOf(d)]
  <2>1. d \in Made /\ ActorOf[d] = b
    BY HeldMade
  <2>2. d \notin ToSet(asks) /\ d \in Made'
    BY <1>1, <1>9, <2>1
  <2> QED
    BY <1>1, <2>1, <2>2
<1>10. ASSUME NEW b \in Actor
       PROVE  /\ PositionsOf(b)' = 0..(Ahead(admission'[b]) - 1)
              /\ \A k \in Kept(admission'[b]) :
                   /\ k \in admission'[b].next..(admission'[b].count - 1)
                   /\ node'[Place(at, admission'[b].recorded[k])].seq = k
                   /\ node'[Place(at, admission'[b].recorded[k])].actor = b
              /\ \A j \in DOMAIN admission'[b].live : node'[Place(at, admission'[b].live[j])].out = "absent"
  <2>1. CASE b = a
    <3>1. admission'[b] = rest
      BY <1>2, <2>1
    <3> HIDE DEF rest
    <3>2. ASSUME NEW k \in Kept(rest)
          PROVE  /\ k \in rest.next..(rest.count - 1)
                 /\ node'[Place(at, rest.recorded[k])].seq = k
                 /\ node'[Place(at, rest.recorded[k])].actor = a
      <4>1. k \in Kept(adm) /\ k >= Drained(adm) /\ k \in Nat /\ rest.recorded[k] = adm.recorded[k]
        <5>1. k \in Drained(adm)..NCalls /\ adm.recorded[k] # NoCall
          BY <1>5, <3>2 DEF Later
        <5>2. k \in 0..NCalls
          BY <1>2, <5>1
        <5> QED
          BY <1>2, <1>5, <5>1, <5>2 DEF Kept
      <4>2. rest.recorded[k] \in Holds(rest)
        BY DEF Holds
      <4>3. k \in adm.next..(adm.count - 1) /\ node[Place(at, adm.recorded[k])].seq = k
            /\ node[Place(at, adm.recorded[k])].actor = a
        BY <1>7, <4>1
      <4>4. k \in rest.next..(rest.count - 1)
        BY <1>2, <1>5, <4>1, <4>3
      <4> QED
        BY <1>8, <4>1, <4>2, <4>3, <4>4
    <3>3. ASSUME NEW j \in DOMAIN rest.live PROVE node'[Place(at, rest.live[j])].out = "absent"
      <4>1. rest.live[j] \in Holds(rest)
        BY DEF Holds
      <4> QED
        BY <1>5, <1>7, <1>8, <4>1
    <3> QED
      BY <1>2, <2>1, <3>1, <3>2, <3>3
  <2>2. CASE b # a
    <3>1. admission'[b] = admission[b] /\ PositionsOf(b)' = PositionsOf(b)
      BY <1>2, <2>2
    <3>2. /\ PositionsOf(b) = 0..(Ahead(admission[b]) - 1)
          /\ \A k \in Kept(admission[b]) :
               /\ k \in admission[b].next..(admission[b].count - 1)
               /\ node[InstanceOf(admission[b].recorded[k])].seq = k
               /\ node[InstanceOf(admission[b].recorded[k])].actor = b
          /\ \A j \in DOMAIN admission[b].live : node[InstanceOf(admission[b].live[j])].out = "absent"
      BY <1>1 DEF OInv, Claiming
    <3>3. \A d \in Holds(admission[b]) :
            Place(at, d) = InstanceOf(d) /\ node'[InstanceOf(d)] = node[InstanceOf(d)]
      BY <1>6, <1>9, <2>2
    <3>4. \A k \in Kept(admission[b]) : admission[b].recorded[k] \in Holds(admission[b])
      BY DEF Holds
    <3>5. \A j \in DOMAIN admission[b].live : admission[b].live[j] \in Holds(admission[b])
      BY DEF Holds
    <3> QED
      BY <3>1, <3>2, <3>3, <3>4, <3>5
  <2> QED
    BY <2>1, <2>2
<1>11. at = inst'
  BY DEF Takes
<1> HIDE DEF rest
<1> QED
  BY <1>10, <1>11 DEF Claiming, Place, InstanceOf

\* The calls in line after it: those that were, and those that go live.
LEMMA TakeLine ==
  ASSUME SameAsk, IInv, OInv, NEW c, NEW o, NEW a, NEW adm, NEW at, NEW asks, NEW rows, NEW ended, NEW answered, NEW live,
         Takes(c, o, a, adm, at, asks, rows, ended, answered, live)
  PROVE  /\ \A b \in Actor : b # a => InLine(liveQueue', current', b) = InLine(liveQueue, current, b)
         /\ InLine(liveQueue', current', a) = InLine(liveQueue, current, a) \cup ToSet(live)
         /\ Sorted(liveQueue', current', seq')
         /\ \A b \in Actor : \A d \in InLine(liveQueue, current, b) : d \notin ToSet(asks) /\ seq'[d] = seq[d]
<1>1. /\ a \in Actor /\ c \in Call /\ Live /\ phase[c] = "idle"
      /\ \A d \in ToSet(asks) : d \in Call /\ phase[d] \in {"idle", "held"}
      /\ ToSet(live) = {x \in ToSet(asks) : ~Known(node'[InstanceOf(x)'])}
      /\ live \in Seq(Call)
  BY TakeRows
<1>2. /\ adm.next = admission[a].next /\ adm.next \in Nat
      /\ asks \in Seq(Call) /\ DOMAIN asks = 1..Len(asks) /\ Len(asks) \in Nat
      /\ \A x \in DOMAIN asks : asks[x] \in ToSet(asks) /\ seq'[asks[x]] = adm.next + x - 1
      /\ \A d \in Call : d \notin ToSet(asks) => seq'[d] = seq[d]
  BY TakeNumbers
<1>3. ASSUME NEW b \in Actor, NEW d \in InLine(liveQueue, current, b)
      PROVE  d \notin ToSet(asks) /\ seq'[d] = seq[d] /\ seq[d] \in Nat /\ d \in Call
  <2>1. d \in Call /\ phase[d] \in Executed
    BY <1>1, LineCalls
  <2>2. d \notin ToSet(asks)
    BY <1>1, <2>1 DEF Executed
  <2>3. seq[d] \in 0..NCalls
    BY <2>1 DEF IInv, Types, AdmissionTyped
  <2> QED
    BY <1>2, <2>1, <2>2, <2>3, SizeAssumption
<1> DEFINE q == Waiting(a, live)
           s == liveQueue[a]
<1>4. PICK A \in SUBSET Actor : Pumping(A, q, current, activeAsks, PhasesOf(c, answered, live))
  BY TakePump
<1>5. q[a] = s \o live /\ s \in Seq(Call) /\ \A b \in Actor : b # a => q[b] = liveQueue[b]
  BY <1>1 DEF Waiting, IInv, Types, DispatchTyped
<1> HIDE DEF q
<1>6. PICK g : Embeds(g, live, asks, Len(asks), ToSet(asks) \ ended)
  <2> DEFINE T == ToSet(asks) \ ended
  <2>1. live = Only(asks, T)
    BY DEF Takes
  <2> HIDE DEF T
  <2>2. \E g : Embeds(g, Only(asks, T), asks, Len(asks), T)
    BY <1>2, OnlyEmbeds
  <2> QED
    BY <2>1, <2>2 DEF T
<1>7. /\ Len(live) \in Nat /\ DOMAIN live = 1..Len(live)
      /\ \A i \in DOMAIN live : live[i] \in ToSet(live)
      /\ ToSet(live) = {live[i] : i \in DOMAIN live}
  BY <1>1 DEF ToSet
<1>8. ASSUME NEW i \in DOMAIN live
      PROVE  seq'[live[i]] = adm.next + g[i] - 1 /\ seq'[live[i]] \in Nat /\ seq'[live[i]] >= adm.next /\ g[i] \in Nat
  <2>1. g[i] \in 1..Len(asks) /\ live[i] = asks[g[i]]
    BY <1>6, <1>7 DEF Embeds
  <2>2. seq'[live[i]] = adm.next + g[i] - 1
    BY <1>2, <2>1
  <2> HIDE DEF s
  <2> QED
    BY <1>2, <2>1, <2>2
<1>9. ASSUME NEW i \in DOMAIN live, NEW j \in DOMAIN live, i < j PROVE seq'[live[i]] < seq'[live[j]]
  <2>1. g[i] < g[j]
    BY <1>6, <1>7, <1>9 DEF Embeds
  <2> QED
    BY <1>2, <1>8, <2>1
<1>10. \A d \in InLine(liveQueue, current, a) : seq'[d] = seq[d] /\ seq'[d] < adm.next /\ seq'[d] \in Nat
  BY <1>1, <1>2, <1>3 DEF OInv, Lined
<1>11. /\ DOMAIN (s \o live) = 1..(Len(s) + Len(live)) /\ Len(s) \in Nat /\ DOMAIN s = 1..Len(s)
       /\ \A i \in 1..(Len(s) + Len(live)) :
            \/ i \in DOMAIN s /\ (s \o live)[i] = s[i] /\ i <= Len(s)
            \/ i > Len(s) /\ i - Len(s) \in DOMAIN live /\ (s \o live)[i] = live[i - Len(s)]
       /\ \A i \in DOMAIN s : i \in 1..(Len(s) + Len(live)) /\ (s \o live)[i] = s[i]
       /\ \A i \in DOMAIN live : i + Len(s) \in 1..(Len(s) + Len(live)) /\ (s \o live)[i + Len(s)] = live[i]
  <2>1. Len(s) \in Nat /\ DOMAIN s = 1..Len(s)
    BY <1>5
  <2>2. Len(s \o live) = Len(s) + Len(live)
        /\ \A i \in 1..(Len(s) + Len(live)) : (s \o live)[i] = IF i <= Len(s) THEN s[i] ELSE live[i - Len(s)]
    BY <1>1, <1>5, ConcatProperties
  <2>3. s \o live \in Seq(Call)
    BY <1>1, <1>5, ConcatProperties
  <2> DEFINE u == s \o live
             m == Len(s)
             n == Len(live)
  <2>4. DOMAIN u = 1..(m + n)
    BY <2>2, <2>3
  <2> HIDE DEF s, u, m, n
  <2>5. /\ \A i \in 1..(m + n) : \/ i \in DOMAIN s /\ u[i] = s[i] /\ i <= m
                                 \/ i > m /\ i - m \in DOMAIN live /\ u[i] = live[i - m]
        /\ \A i \in DOMAIN s : i \in 1..(m + n) /\ u[i] = s[i]
        /\ \A i \in DOMAIN live : i + m \in 1..(m + n) /\ u[i + m] = live[i]
    BY <1>7, <2>1, <2>2 DEF u, m, n
  <2> QED
    BY <2>1, <2>4, <2>5 DEF u, m, n
<1>12. InLine(q, current, a) = InLine(liveQueue, current, a) \cup ToSet(live)
  <2>1. {(s \o live)[i] : i \in DOMAIN (s \o live)} = {s[i] : i \in DOMAIN s} \cup {live[i] : i \in DOMAIN live}
    <3> DEFINE u == s \o live
    <3> HIDE DEF s, u
    <3>1. \A i \in DOMAIN u : (\E j \in DOMAIN s : u[i] = s[j]) \/ (\E j \in DOMAIN live : u[i] = live[j])
      BY <1>11 DEF u
    <3>2. (\A j \in DOMAIN s : \E i \in DOMAIN u : u[i] = s[j]) /\ (\A j \in DOMAIN live : \E i \in DOMAIN u : u[i] = live[j])
      BY <1>11 DEF u
    <3>3. {u[i] : i \in DOMAIN u} = {s[i] : i \in DOMAIN s} \cup {live[i] : i \in DOMAIN live}
      BY <3>1, <3>2
    <3> QED
      BY <3>3 DEF u
  <2>2. InLine(q, current, a) = {(s \o live)[i] : i \in DOMAIN (s \o live)} \cup ({current[a]} \ {NoCall})
    BY <1>5 DEF InLine
  <2>3. InLine(liveQueue, current, a) = {s[i] : i \in DOMAIN s} \cup ({current[a]} \ {NoCall})
    BY DEF InLine
  <2> HIDE DEF s
  <2> QED
    BY <1>7, <2>1, <2>2, <2>3
<1>13. \A b \in Actor : b # a => InLine(q, current, b) = InLine(liveQueue, current, b)
  BY <1>5 DEF InLine
<1>14. Sorted(q, current, seq')
  <2>1. ASSUME NEW b \in Actor, b # a
        PROVE  /\ \A i, j \in DOMAIN q[b] : i < j => seq'[q[b][i]] < seq'[q[b][j]]
               /\ current[b] # NoCall => \A j \in DOMAIN q[b] : seq'[current[b]] < seq'[q[b][j]]
    <3>1. q[b] = liveQueue[b] /\ \A j \in DOMAIN liveQueue[b] : liveQueue[b][j] \in InLine(liveQueue, current, b)
      BY <1>5, <2>1 DEF InLine
    <3>2. current[b] # NoCall => current[b] \in InLine(liveQueue, current, b)
      BY DEF InLine
    <3>3. /\ \A i, j \in DOMAIN liveQueue[b] : i < j => seq[liveQueue[b][i]] < seq[liveQueue[b][j]]
          /\ current[b] # NoCall => \A j \in DOMAIN liveQueue[b] : seq[current[b]] < seq[liveQueue[b][j]]
      BY <1>1 DEF OInv, Lined, Sorted
    <3> QED
      BY <1>3, <3>1, <3>2, <3>3
  <2>2. \A j \in DOMAIN s : s[j] \in InLine(liveQueue, current, a)
    BY DEF InLine
  <2>3. current[a] # NoCall => current[a] \in InLine(liveQueue, current, a)
    BY DEF InLine
  <2>4. /\ \A i, j \in DOMAIN s : i < j => seq[s[i]] < seq[s[j]]
        /\ current[a] # NoCall => \A j \in DOMAIN s : seq[current[a]] < seq[s[j]]
    BY <1>1 DEF OInv, Lined, Sorted
  <2> DEFINE u == s \o live
             m == Len(s)
             n == Len(live)
  <2>5. /\ DOMAIN u = 1..(m + n) /\ m \in Nat /\ n \in Nat
        /\ \A i \in 1..(m + n) : \/ i \in DOMAIN s /\ u[i] = s[i] /\ i <= m
                                 \/ i > m /\ i - m \in DOMAIN live /\ u[i] = live[i - m]
    BY <1>7, <1>11
  <2> HIDE DEF s, u, m, n
  <2>6. ASSUME NEW i \in DOMAIN u, NEW j \in DOMAIN u, i < j PROVE seq'[u[i]] < seq'[u[j]]
    <3>0. i \in 1..(m + n) /\ j \in 1..(m + n) /\ i \in Int /\ j \in Int
      BY <2>5
    <3>1. CASE i \in DOMAIN s /\ u[i] = s[i] /\ j \in DOMAIN s /\ u[j] = s[j]
      BY <1>10, <2>2, <2>4, <2>6, <3>1
    <3>2. CASE i \in DOMAIN s /\ u[i] = s[i] /\ j - m \in DOMAIN live /\ u[j] = live[j - m]
      BY <1>2, <1>8, <1>10, <2>2, <3>2
    <3>3. CASE i > m /\ i - m \in DOMAIN live /\ u[i] = live[i - m] /\ j - m \in DOMAIN live /\ u[j] = live[j - m]
      <4>1. i - m < j - m
        BY <2>5, <2>6, <3>0
      <4> QED
        BY <1>9, <3>3, <4>1
    <3>4. CASE i > m /\ j <= m
      BY <2>5, <2>6, <3>0, <3>4
    <3> QED
      BY <2>5, <3>0, <3>1, <3>2, <3>3, <3>4
  <2>7. ASSUME current[a] # NoCall, NEW j \in DOMAIN u PROVE seq'[current[a]] < seq'[u[j]]
    <3>1. CASE j \in DOMAIN s /\ u[j] = s[j]
      BY <1>10, <2>2, <2>3, <2>4, <2>7, <3>1
    <3>2. CASE j - m \in DOMAIN live /\ u[j] = live[j - m]
      BY <1>2, <1>8, <1>10, <2>3, <2>7, <3>2
    <3> QED
      BY <2>5, <3>1, <3>2
  <2>8. q[a] = u
    BY <1>5 DEF s, u
  <2> QED
    BY <2>1, <2>6, <2>7, <2>8 DEF Sorted
<1>15. /\ \A b \in Actor : InLine(liveQueue', current', b) = InLine(q, current, b)
       /\ Sorted(liveQueue', current', seq')
  BY <1>4, <1>14, PumpLine
<1> QED
  BY <1>1, <1>3, <1>12, <1>13, <1>15

\* Each row below the new position has its owner, and the line its rows.
LEMMA TakeOwns ==
  ASSUME SameAsk, IInv, OInv, NEW c, NEW o, NEW a, NEW adm, NEW at, NEW asks, NEW rows, NEW ended, NEW answered, NEW live,
         Takes(c, o, a, adm, at, asks, rows, ended, answered, live)
  PROVE  Owning' /\ Lined'
<1>1. /\ a \in Actor /\ c \in Call /\ Live /\ c \notin Made /\ Made' = Made \cup {c}
      /\ \A d \in ToSet(asks) : /\ d \in Call /\ ActorOf[d] = a /\ d \in Made'
      /\ \A d \in Made' : InstanceOf(d)' \in Instance
      /\ \A d \in Made : InstanceOf(d)' = InstanceOf(d)
      /\ \A d \in Made' : d \notin ToSet(asks) => node'[InstanceOf(d)'] = node[InstanceOf(d)']
      /\ \A i \in Instance : Known(node[i]) => node'[i] = node[i]
      /\ ToSet(live) = {x \in ToSet(asks) : ~Known(node'[InstanceOf(x)'])}
  BY TakeRows
<1>2. /\ Conversing' /\ adm.next = admission[a].next /\ adm.next \in Nat
      /\ Drained(adm) \in Nat /\ Drained(adm) = adm.next + Len(asks)
      /\ DOMAIN asks = 1..Len(asks) /\ Len(asks) \in Nat
      /\ admission'[a].next = Drained(adm)
      /\ \A b \in Actor : b # a => admission'[b] = admission[b] /\ RecordedAsks(b)' = RecordedAsks(b)
      /\ RecordedAsks(a)' = RecordedAsks(a) \cup {InstanceOf(asks[x])' : x \in DOMAIN asks}
      /\ \A x \in DOMAIN asks : /\ asks[x] \in ToSet(asks)
                                /\ node'[InstanceOf(asks[x])'].actor = a
                                /\ node'[InstanceOf(asks[x])'].seq = adm.next + x - 1
                                /\ seq'[asks[x]] = adm.next + x - 1
      /\ \A b \in Actor : \A i \in RecordedAsks(b) : i \in Instance /\ node'[i].seq = node[i].seq
  BY TakeNumbers
<1>3. /\ \A b \in Actor : b # a => InLine(liveQueue', current', b) = InLine(liveQueue, current, b)
      /\ InLine(liveQueue', current', a) = InLine(liveQueue, current, a) \cup ToSet(live)
      /\ Sorted(liveQueue', current', seq')
      /\ \A b \in Actor : \A d \in InLine(liveQueue, current, b) : d \notin ToSet(asks) /\ seq'[d] = seq[d]
  BY TakeLine
<1>4. ASSUME NEW x \in DOMAIN asks
      PROVE  \/ Known(node'[InstanceOf(asks[x])'])
             \/ asks[x] \in InLine(liveQueue', current', a)
  BY <1>1, <1>2, <1>3
<1>5. ASSUME NEW b \in Actor, NEW i \in RecordedAsks(b), node[i].seq < admission[b].next
      PROVE  \E d \in Made' : InstanceOf(d)' = i /\ (Known(node'[i]) \/ d \in InLine(liveQueue', current', b))
  <2>1. PICK d \in Made : InstanceOf(d) = i /\ (Known(node[i]) \/ d \in InLine(liveQueue, current, b))
    BY <1>1, <1>5 DEF OInv, Owning
  <2>2. d \in Made' /\ InstanceOf(d)' = i /\ i \in Instance
    BY <1>1, <1>2, <2>1
  <2>3. Known(node[i]) => Known(node'[i])
    BY <1>1, <2>2
  <2>4. d \in InLine(liveQueue, current, b) => d \in InLine(liveQueue', current', b)
    BY <1>3
  <2> QED
    BY <2>1, <2>2, <2>3, <2>4
<1>6. ASSUME NEW b \in Actor, NEW i \in RecordedAsks(b)', node'[i].seq < admission'[b].next
      PROVE  \E d \in Made' : InstanceOf(d)' = i /\ (Known(node'[i]) \/ d \in InLine(liveQueue', current', b))
  <2>1. CASE b # a
    <3>1. i \in RecordedAsks(b) /\ node[i].seq < admission[b].next
      BY <1>2, <1>6, <2>1
    <3> QED
      BY <1>5, <3>1
  <2>2. CASE b = a /\ \E x \in DOMAIN asks : i = InstanceOf(asks[x])'
    BY <1>1, <1>2, <1>4, <2>2
  <2>3. CASE b = a /\ i \in RecordedAsks(a) /\ node[i].seq < adm.next
    BY <1>2, <1>5, <2>3
  <2>4. CASE b = a /\ i \in RecordedAsks(a) /\ ~(node[i].seq < adm.next)
    <3>1. node'[i].seq = node[i].seq /\ node[i].seq < Drained(adm)
      BY <1>2, <1>6, <2>4
    <3>2. node[i].seq \in Nat
      <4>1. node[i].seq \in PositionsOf(a)
        BY <2>4 DEF PositionsOf
      <4>2. PICK n \in 0..NCalls : PositionsOf(a) = 0..(n - 1)
        BY <1>1 DEF OInv, Conversing
      <4> QED
        BY <4>1, <4>2
    <3>3. PICK x \in DOMAIN asks : adm.next + x - 1 = node[i].seq
      <4> DEFINE y == node[i].seq - adm.next + 1
      <4>1. y \in DOMAIN asks /\ adm.next + y - 1 = node[i].seq
        BY <1>2, <2>4, <3>1, <3>2
      <4> HIDE DEF y
      <4> QED
        BY <4>1
    <3>4. InstanceOf(asks[x])' \in RecordedAsks(a)' /\ node'[InstanceOf(asks[x])'].seq = node'[i].seq
      BY <1>2, <3>1, <3>3
    <3>5. i = InstanceOf(asks[x])'
      BY <1>1, <1>2, <1>6, <2>4, <3>4 DEF Conversing
    <3> QED
      BY <2>2, <2>4, <3>3, <3>5
  <2> QED
    BY <1>2, <1>6, <2>1, <2>2, <2>3, <2>4
<1>7. Owning'
  BY <1>6 DEF Owning
<1>8. ASSUME NEW b \in Actor, NEW d \in InLine(liveQueue, current, b)
      PROVE  /\ node'[InstanceOf(d)'].seq = seq'[d] /\ node'[InstanceOf(d)'].actor = b
             /\ seq'[d] < admission'[b].next
  <2>1. d \in Made /\ d \notin ToSet(asks) /\ seq'[d] = seq[d] /\ d \in Call
    BY <1>1, <1>3, LineCalls
  <2>2. node'[InstanceOf(d)'] = node[InstanceOf(d)]
    BY <1>1, <2>1
  <2>3. /\ node[InstanceOf(d)].seq = seq[d] /\ node[InstanceOf(d)].actor = b
        /\ seq[d] < admission[b].next
    BY <1>1 DEF OInv, Lined
  <2>4. seq[d] < admission'[b].next
    <3>1. CASE b # a
      BY <1>2, <2>3, <3>1
    <3>2. CASE b = a
      <4>1. seq[d] \in 0..NCalls
        BY <2>1 DEF IInv, Types, AdmissionTyped
      <4> QED
        BY <1>2, <2>3, <3>2, <4>1, SizeAssumption
    <3> QED
      BY <3>1, <3>2
  <2> QED
    BY <2>1, <2>2, <2>3, <2>4
<1>9. ASSUME NEW d \in ToSet(live)
      PROVE  /\ node'[InstanceOf(d)'].seq = seq'[d] /\ node'[InstanceOf(d)'].actor = a
             /\ seq'[d] < admission'[a].next
  <2>1. PICK x \in DOMAIN asks : d = asks[x]
    BY <1>1 DEF ToSet
  <2> QED
    BY <1>2, <2>1
<1>10. ASSUME NEW b \in Actor, NEW d \in InLine(liveQueue', current', b)
       PROVE  /\ node'[InstanceOf(d)'].seq = seq'[d] /\ node'[InstanceOf(d)'].actor = b
              /\ seq'[d] < admission'[b].next
  BY <1>3, <1>8, <1>9
<1>11. Lined'
  BY <1>3, <1>10 DEF Lined
<1> QED
  BY <1>7, <1>11

\* Admission keeps the conversations in order.
LEMMA AdmitOrder ==
  ASSUME SameAsk, IInv, OInv, NEW c \in Call, AdmitAsk(c)
  PROVE  OInv'
<1>1. PICK o, a, adm, at, asks, rows, ended, answered, live :
        Takes(c, o, a, adm, at, asks, rows, ended, answered, live)
  BY AdmitTakes
<1>2. Conversing'
  BY <1>1, TakeNumbers
<1>3. Claiming'
  BY <1>1, TakeClaims
<1>4. Owning' /\ Lined'
  BY <1>1, TakeOwns
<1> QED
  BY <1>2, <1>3, <1>4 DEF OInv

\* At the start there are no rows.
LEMMA OrderInit == Init => OInv
<1> SUFFICES ASSUME Init PROVE OInv
  OBVIOUS
<1>1. ~Live
  BY DEF Init, Live
<1>2. ASSUME NEW a \in Actor PROVE RecordedAsks(a) = {}
  BY Actors DEF RecordedAsks, Init, Absent
<1>3. Conversing
  <2>1. ASSUME NEW a \in Actor PROVE PositionsOf(a) = 0..(0 - 1) /\ 0 \in 0..NCalls
    <3>1. PositionsOf(a) = {}
      BY <1>2 DEF PositionsOf
    <3> QED
      BY <3>1, SizeAssumption
  <2> QED
    BY <1>2, <2>1 DEF Conversing
<1> QED
  BY <1>1, <1>3, NoEngine

\* Every step keeps them in order.
LEMMA OrderStep == SameAsk /\ IInv /\ OInv /\ [Next]_vars => OInv'
<1> SUFFICES ASSUME SameAsk, IInv, OInv, [Next]_vars PROVE OInv'
  OBVIOUS
<1>1. CASE Launch \/ Resume
  BY <1>1, StartOrder DEF Launch, Resume
<1>2. CASE Reconcile
  <2>1. UNCHANGED node /\ ~Live'
    BY <1>2 DEF Reconcile, Live
  <2> QED
    BY <2>1, LossOrder
<1>3. CASE Crash \/ Complete \/ Throw \/ Stop \/ \E c \in Call : InputHashMismatch(c)
  BY <1>3, EndOrder
<1>4. ASSUME NEW c \in Call, AdmitAsk(c) PROVE OInv'
  BY <1>4, AdmitOrder
<1>5. ASSUME NEW c \in Call, CrashAdmitting(c) PROVE OInv'
  BY <1>5, CrashOrder
<1>6. ASSUME NEW c \in Call, OpenFails(c) \/ Accept(c) \/ Repair(c) \/ Nudge(c) \/ AskFailed(c) PROVE OInv'
  BY <1>6, ReportOrder
<1>7. ASSUME NEW c \in Call, ReadWorld(c) PROVE OInv'
  BY <1>7, ReadOrder
<1>8. ASSUME NEW c \in Call, WorldSettles(c) PROVE OInv'
  BY <1>8, WorldOrder
<1>9. CASE \/ Deliver \/ UNCHANGED vars \/ \E a \in Actor : SessionOpens(a)
           \/ \E c \in Call : Dispatch(c) \/ Mutating(c)
  <2>1. UNCHANGED <<node, inst, admission, seq, liveQueue, current, mode>>
    BY <1>9 DEF Deliver, vars, SessionOpens, Dispatch, Mutating, journal, engine
  <2>2. CASE Live
    BY <2>1, <2>2, IdleOrder DEF Live
  <2>3. CASE ~Live
    BY <2>1, <2>3, LossOrder DEF Live
  <2> QED
    BY <2>2, <2>3
<1> QED
  BY <1>1, <1>2, <1>3, <1>4, <1>5, <1>6, <1>7, <1>8, <1>9 DEF Next

\* An ask executes only when every ask before it in its actor's conversation has its answer in
\* the journal, for every script whose asks of one site with one input go to one actor.
THEOREM ConversationsInOrder ==
  ASSUME SameAsk
  PROVE  Spec => []ConversationInOrder
<1>1. Init => IInv /\ OInv
  BY InitInv, OrderInit
<1>2. IInv /\ OInv /\ [Next]_vars => (IInv /\ OInv)'
  BY NextStep, OrderStep
<1>3. IInv /\ OInv => ConversationInOrder
  BY InOrder
<1> QED
  BY <1>1, <1>2, <1>3, PTL DEF Spec

----------------------------------------------------------------------------
(* The promise to script and user.  It needs a script that is repeated in the *)
(* same order at every site: a later call of a site waits for all that an     *)
(* earlier one waits for, so that the ordinal of a call does not depend on    *)
(* which answer came first.                                                   *)
SiteOrder == \A c, d \in Call : SiteOf[c] = SiteOf[d] /\ c < d => After[c] \subseteq After[d]

\* A call whose rejection ends the script is awaited, by the end of the script or by a call
\* that the end awaits.
FatalAwaited == \A c \in Fatal : c \in Final \/ \E d \in Final : c \in After[d]

\* The ordinal that such a script gives to a call, in every life; its place in the journal.
UpTill(c) == {d \in Call : SiteOf[d] = SiteOf[c] /\ d <= c}
Rank(c) == Cardinality(UpTill(c))
Home(c) == <<SiteOf[c], Rank(c)>>

\* The calls made in this life: under way to the engine, or with an ordinal.
Sent == Made \cup ToSet(up)

Ranked == \A c \in Made : inst[c] = Rank(c)

\* The calls of a site are made in program order, and all that can be made are.
InTurn ==
  /\ \A c \in Sent, d \in Call : SiteOf[d] = SiteOf[c] /\ d < c => d \in Sent
  /\ \A i, j \in DOMAIN up : i < j /\ SiteOf[up[i]] = SiteOf[up[j]] => up[i] < up[j]
  /\ \A c \in Made, d \in ToSet(up) : SiteOf[c] = SiteOf[d] => c < d
  /\ Live /\ ending = "open" => \A c \in Call : Awaited(seen, c) => c \in Sent

\* A row is the row of the call whose place it has.
Belonging ==
  \A c \in Call : node[Home(c)].out # "absent" =>
    node[Home(c)].input = Input[c] /\ node[Home(c)].actor = ActorOf[c]

\* What the script was told in any life is in the journal, and is what it is told in this one.
Recalling ==
  /\ \A c \in Call : told[c] # None => node[Home(c)].out = told[c]
  /\ \A c \in Call : seen[c] # None => told[c] = seen[c]

\* The script ended as its answers say.
Concluding ==
  /\ Live => runRow = "running"
  /\ ending = "threw" => \E c \in Fatal : seen[c] = Failure
  /\ ending # "threw" => \A c \in Fatal : seen[c] # Failure
  /\ ending = "returned" => \A c \in Final : seen[c] # None

RInv == Ranked /\ InTurn /\ Belonging /\ Recalling /\ Concluding

----------------------------------------------------------------------------
\* The calls of a site have different places.
LEMMA Ranks ==
  /\ \A c \in Call : Rank(c) \in 1..NCalls /\ Home(c) \in Instance
  /\ \A c, d \in Call : Home(c) = Home(d) => c = d
<1>1. ASSUME NEW c \in Call PROVE UpTill(c) \subseteq Call /\ IsFiniteSet(UpTill(c)) /\ c \in UpTill(c)
  <2>1. UpTill(c) \subseteq Call
    BY DEF UpTill
  <2>2. c <= c
    BY SizeAssumption DEF Call
  <2> QED
    BY <2>1, <2>2, CallsFinite, FinitePart DEF UpTill
<1>2. ASSUME NEW c \in Call PROVE Rank(c) \in 1..NCalls /\ Home(c) \in Instance
  <2>1. Rank(c) \in Nat /\ Rank(c) <= NCalls
    BY <1>1, CallsFinite, FinitePart DEF Rank
  <2>2. Rank(c) # 0
    BY <1>1, FS_EmptySet DEF Rank
  <2>3. Rank(c) \in 1..NCalls
    BY <2>1, <2>2, SizeAssumption
  <2> QED
    BY <2>3, Actors DEF Home, Instance
<1>3. ASSUME NEW c \in Call, NEW d \in Call, SiteOf[c] = SiteOf[d], c < d PROVE Rank(c) # Rank(d)
  <2>1. UpTill(c) \subseteq UpTill(d)
    BY <1>3, SizeAssumption DEF UpTill, Call
  <2>2. d \notin UpTill(c)
    BY <1>3, SizeAssumption DEF UpTill, Call
  <2>3. UpTill(c) # UpTill(d)
    BY <1>1, <2>2
  <2> QED
    BY <1>1, <2>1, <2>3, FinitePart DEF Rank
<1>4. ASSUME NEW c \in Call, NEW d \in Call, Home(c) = Home(d) PROVE c = d
  <2>1. SiteOf[c] = SiteOf[d] /\ Rank(c) = Rank(d)
    BY <1>4 DEF Home
  <2>2. c = d \/ c < d \/ d < c
    BY SizeAssumption DEF Call
  <2> QED
    BY <1>3, <2>1, <2>2
<1> QED
  BY <1>2, <1>4

\* The next call of a site gets its rank as its ordinal: the calls before it have theirs.
LEMMA NextRanked ==
  ASSUME IInv, RInv, NEW c \in Call, NextCall(c), NEW o, o = ordinal[SiteOf[c]] + 1
  PROVE  /\ o = Rank(c)
         /\ \A i \in DOMAIN up : i # 1 /\ SiteOf[up[i]] = SiteOf[c] => c < up[i]
<1> DEFINE s == SiteOf[c]
           M == MadeAt(s)
<1>0. AdmissionTyped /\ SandboxTyped /\ Numbered /\ Issuing
  BY DEF IInv, Types
<1>1. c \in Call /\ o = ordinal[s] + 1 /\ InTurn
  BY DEF RInv
<1>2. c \notin Made
  BY NextFacts
<1>3. /\ up \in Seq(Call) /\ up # <<>> /\ c = up[1] /\ 1 \in DOMAIN up
      /\ \A i \in DOMAIN up : up[i] \in Call /\ i \in Nat /\ i >= 1
  BY <1>0 DEF SandboxTyped, NextCall
<1>4. \A i \in DOMAIN up : i # 1 /\ SiteOf[up[i]] = s => c < up[i]
  <2>1. ASSUME NEW i \in DOMAIN up, i # 1, SiteOf[up[i]] = s PROVE c < up[i]
    <3>1. 1 < i
      BY <1>3, <2>1
    <3> QED
      BY <1>1, <1>3, <2>1, <3>1 DEF InTurn
  <2> QED
    BY <2>1
<1>5. c \in ToSet(up) /\ c \in Sent /\ ToSet(up) \subseteq Call /\ Made \subseteq Call
  BY <1>3 DEF ToSet, Sent, Made
<1>6. M = UpTill(c) \ {c}
  <2>1. ASSUME NEW d \in M PROVE d \in UpTill(c) /\ d # c
    <3>1. d \in Call /\ SiteOf[d] = s /\ d \in Made
      BY DEF MadeAt, At, Made
    <3>2. d < c
      BY <1>1, <1>5, <3>1 DEF InTurn
    <3> QED
      BY <1>1, <3>1, <3>2, SizeAssumption DEF UpTill, Call
  <2>2. ASSUME NEW d \in UpTill(c), d # c PROVE d \in M
    <3>1. d \in Call /\ SiteOf[d] = s /\ d < c /\ ~(c < d)
      BY <1>1, <2>2, SizeAssumption DEF UpTill, Call
    <3>2. d \in Sent
      BY <1>1, <1>5, <3>1 DEF InTurn
    <3>3. d \notin ToSet(up)
      <4>1. ASSUME NEW i \in DOMAIN up, up[i] = d PROVE FALSE
        BY <1>3, <1>4, <2>2, <3>1, <4>1
      <4> QED
        BY <4>1 DEF ToSet
    <3> QED
      BY <3>1, <3>2, <3>3 DEF Sent, Made, MadeAt, At
  <2> QED
    BY <2>1, <2>2
<1>7. o = Rank(c)
  <2>1. UpTill(c) \subseteq Call /\ c \in UpTill(c)
    BY <1>1, SizeAssumption DEF UpTill, Call
  <2>2. IsFiniteSet(M) /\ Cardinality(M) \in Nat /\ c \notin M /\ UpTill(c) = M \cup {c}
    <3>1. M \subseteq Call /\ c \notin M /\ UpTill(c) = M \cup {c}
      BY <1>6, <2>1
    <3> HIDE DEF M
    <3> QED
      BY <3>1, CallsFinite, FinitePart
  <2>3. Cardinality(M) = ordinal[s]
    BY <1>0, <1>1, Actors DEF Numbered
  <2> HIDE DEF M
  <2>4. Rank(c) = Cardinality(M) + 1
    BY <2>2, FS_AddElement DEF Rank
  <2> QED
    BY <1>1, <2>3, <2>4
<1> QED
  BY <1>4, <1>7

\* A call that enters has its rank as its ordinal, and the calls stay in their turn.
LEMMA EntersRanked ==
  ASSUME IInv, RInv, NEW c, NEW o, Enters(c, o), UNCHANGED <<mode, ending>>
  PROVE  /\ o = Rank(c) /\ Ranked' /\ InTurn'
         /\ \A d \in Made' : d \in Call /\ InstanceOf(d)' = Home(d)
<1> DEFINE s == SiteOf[c]
<1>0. AdmissionTyped /\ SandboxTyped /\ Numbered /\ Issuing
  BY DEF IInv, Types
<1>1. /\ Made' = Made \cup {c} /\ inst'[c] = o /\ \A d \in Call : d # c => inst'[d] = inst[d]
      /\ c \in Call /\ NextCall(c) /\ o = ordinal[s] + 1 /\ up' = Tail(up) /\ seen' = seen
  BY Entering DEF Enters
<1>2. Ranked /\ InTurn
  BY DEF RInv
<1>3. /\ up \in Seq(Call) /\ up # <<>> /\ c = up[1] /\ 1 \in DOMAIN up
      /\ \A i \in DOMAIN up : up[i] \in Call /\ i \in Nat /\ i >= 1
      /\ \A i \in DOMAIN up' : i \in Nat /\ i >= 1 /\ i + 1 \in DOMAIN up /\ up'[i] = up[i + 1]
      /\ \A i \in DOMAIN up : i # 1 => i - 1 \in DOMAIN up' /\ up'[i - 1] = up[i]
  BY <1>0, <1>1 DEF SandboxTyped, NextCall
<1>4. o = Rank(c) /\ \A i \in DOMAIN up : i # 1 /\ SiteOf[up[i]] = s => c < up[i]
  BY <1>1, NextRanked
<1>5. c \in ToSet(up) /\ c \in Sent /\ ToSet(up) \subseteq Call /\ Made \subseteq Call
  BY <1>3 DEF ToSet, Sent, Made
<1>8. Ranked'
  <2>1. ASSUME NEW d \in Made' PROVE inst'[d] = Rank(d)
    <3>1. CASE d = c
      BY <1>1, <1>4, <3>1
    <3>2. CASE d # c
      BY <1>1, <1>5, <2>1, <3>2, <1>2 DEF Ranked
    <3> QED
      BY <3>1, <3>2
  <2> QED
    BY <2>1 DEF Ranked
<1>9. \A d \in Made' : d \in Call /\ InstanceOf(d)' = Home(d)
  BY <1>1, <1>5, <1>8 DEF Ranked, InstanceOf, Home
<1>10. /\ \A x \in ToSet(up') : x \in ToSet(up) /\ (SiteOf[x] = s => c < x)
       /\ \A x \in ToSet(up) : x = c \/ x \in ToSet(up')
  <2>1. ASSUME NEW x \in ToSet(up') PROVE x \in ToSet(up) /\ (SiteOf[x] = s => c < x)
    <3>1. PICK i \in DOMAIN up' : up'[i] = x
      BY DEF ToSet
    <3>2. i + 1 \in DOMAIN up /\ up[i + 1] = x /\ i + 1 # 1
      BY <1>3, <3>1
    <3> QED
      BY <1>4, <3>2 DEF ToSet
  <2>2. ASSUME NEW x \in ToSet(up), x # c PROVE x \in ToSet(up')
    <3>1. PICK i \in DOMAIN up : up[i] = x
      BY DEF ToSet
    <3>2. i # 1
      BY <1>3, <2>2, <3>1
    <3>3. i - 1 \in DOMAIN up' /\ up'[i - 1] = x
      BY <1>3, <3>1, <3>2
    <3> QED
      BY <3>3 DEF ToSet
  <2> QED
    BY <2>1, <2>2
<1>11. Sent' = Sent
  BY <1>1, <1>5, <1>10 DEF Sent
<1>12. ASSUME NEW i \in DOMAIN up', NEW j \in DOMAIN up', i < j, SiteOf[up'[i]] = SiteOf[up'[j]]
       PROVE  up'[i] < up'[j]
  <2>1. i + 1 \in DOMAIN up /\ j + 1 \in DOMAIN up /\ i + 1 < j + 1 /\ up'[i] = up[i + 1] /\ up'[j] = up[j + 1]
    BY <1>3, <1>12
  <2> QED
    BY <1>2, <1>12, <2>1 DEF InTurn
<1>13. ASSUME NEW d \in Made', NEW x \in ToSet(up'), SiteOf[d] = SiteOf[x] PROVE d < x
  BY <1>1, <1>2, <1>10, <1>13 DEF InTurn
<1>14. InTurn'
  <2>1. \A e \in Sent, d \in Call : SiteOf[d] = SiteOf[e] /\ d < e => d \in Sent
    BY <1>2 DEF InTurn
  <2>2. Live /\ ending = "open" => \A d \in Call : Awaited(seen, d) => d \in Sent
    BY <1>2 DEF InTurn
  <2>3. \A d : Awaited(seen', d) <=> Awaited(seen, d)
    BY <1>1 DEF Awaited
  <2>4. Live' /\ ending' = "open" => \A d \in Call : Awaited(seen', d) => d \in Sent'
    BY <1>11, <2>2, <2>3 DEF Live
  <2> QED
    BY <1>11, <1>12, <1>13, <2>1, <2>4 DEF InTurn
<1> QED
  BY <1>4, <1>8, <1>9, <1>14

\* The identity filtered has all of the calls asked for, in program order.
LEMMA ProgramSequence ==
  ASSUME NEW T, NEW t, t = Only([c \in Call |-> c], T)
  PROVE  /\ t \in Seq(Call) /\ ToSet(t) = Call \cap T
         /\ \A i, j \in DOMAIN t : i < j => t[i] < t[j]
<1> DEFINE s == [c \in Call |-> c]
<1>1. s \in Seq(Call) /\ Len(s) = NCalls /\ NCalls \in Nat /\ t = Only(s, T)
  BY SizeAssumption DEF Call
<1>2. (\A k \in 1..NCalls : s[k] = k) /\ Call = 1..NCalls
  BY DEF Call
<1> HIDE DEF s
<1>3. t \in Seq(Call \cap T) /\ \E g : Embeds(g, t, s, NCalls, T)
  BY <1>1, OnlyEmbeds
<1>4. PICK g : Embeds(g, t, s, NCalls, T)
  BY <1>3
<1>5. Len(t) \in Nat /\ DOMAIN t = 1..Len(t) /\ t \in Seq(Call) /\ \A i \in DOMAIN t : t[i] \in Call \cap T
  BY <1>3, SeqMonotonic
<1>6. \A i \in DOMAIN t : t[i] = g[i]
  BY <1>2, <1>4, <1>5 DEF Embeds
<1>7. \A i, j \in DOMAIN t : i < j => t[i] < t[j]
  BY <1>4, <1>5, <1>6 DEF Embeds
<1>8. ASSUME NEW c \in Call \cap T PROVE \E i \in DOMAIN t : t[i] = c
  <2>1. c \in 1..NCalls /\ s[c] = c
    BY <1>2
  <2>2. PICK i \in 1..Len(t) : g[i] = c
    BY <1>4, <2>1 DEF Embeds
  <2> QED
    BY <1>5, <1>6, <2>2
<1>9. ToSet(t) = Call \cap T
  BY <1>5, <1>8 DEF ToSet
<1> QED
  BY <1>5, <1>7, <1>9

\* An engine that has admitted nothing: the first calls are under way, or there is none.
LEMMA StartsInTurn ==
  ASSUME SiteOrder, inst' = [c \in Call |-> 0], seen' = Silence, NEW calls, up' = calls,
         calls = Opening \/ (calls = <<>> /\ ~Live')
  PROVE  Ranked' /\ InTurn'
<1>1. Made' = {}
  BY DEF Made
<1>2. Ranked'
  BY <1>1 DEF Ranked
<1>3. \A c \in Call : Awaited(seen', c) <=> After[c] = {}
  <2>1. \A c \in Call : After[c] \subseteq Call
    BY ScriptAssumption
  <2>2. \A c \in Call : seen'[c] = None
    BY DEF Silence
  <2> QED
    BY <2>1, <2>2 DEF Awaited
<1>4. CASE calls = <<>> /\ ~Live'
  <2>1. Sent' = {} /\ ToSet(up') = {} /\ DOMAIN up' = {}
    BY <1>1, <1>4 DEF Sent, ToSet
  <2> QED
    BY <1>1, <1>2, <1>4, <2>1 DEF InTurn
<1>5. CASE calls = Opening
  <2> DEFINE T == {c \in Call : After[c] = {}}
  <2>1. /\ ToSet(up') = Call \cap T /\ \A i, j \in DOMAIN up' : i < j => up'[i] < up'[j]
    <3>1. up' = Only([c \in Call |-> c], T)
      BY <1>5 DEF Opening
    <3> HIDE DEF T
    <3> QED
      BY <3>1, ProgramSequence
  <2>2. Sent' = T
    BY <1>1, <2>1 DEF Sent
  <2>3. \A c \in T, d \in Call : SiteOf[d] = SiteOf[c] /\ d < c => d \in T
    BY DEF SiteOrder
  <2> QED
    BY <1>1, <1>2, <1>3, <2>1, <2>2, <2>3 DEF InTurn
<1> QED
  BY <1>2, <1>4, <1>5

\* The script hears an answer and makes its next calls.
LEMMA HearsInTurn ==
  ASSUME SiteOrder, IInv, InTurn, NEW m, m.call \in Call, m.out # None, Hear(m), Live, ending = "open", UNCHANGED <<inst, mode>>
  PROVE  InTurn'
<1> DEFINE heard == [seen EXCEPT ![m.call] = m.out]
           T == {c \in Call : Awaited(heard, c) /\ ~Awaited(seen, c)}
           new == Issued(seen, heard)
<1>0. SandboxTyped /\ Issuing
  BY DEF IInv, Types
<1>1. /\ seen' = heard /\ Made' = Made /\ Made \subseteq Call
      /\ (up' = up /\ ending' = "threw") \/ up' = up \o new
  BY DEF Hear, Made
<1>2. \A c \in Call : Awaited(seen, c) => Awaited(heard, c)
  <2>1. \A c \in Call : After[c] \subseteq Call
    BY ScriptAssumption
  <2>2. seen \in [Call -> Outcome \cup {None}]
    BY <1>0 DEF SandboxTyped
  <2> QED
    BY <2>1, <2>2 DEF Awaited
<1>3. \A c, d \in Call : SiteOf[c] = SiteOf[d] /\ c < d /\ Awaited(heard, d) => Awaited(heard, c)
  BY DEF SiteOrder, Awaited
<1>4. \A c \in Sent : c \in Call /\ Awaited(seen, c)
  <2>1. \A c \in ToSet(up) : c \in Call /\ Awaited(seen, c)
    BY <1>0 DEF SandboxTyped, Issuing, ToSet
  <2> QED
    BY <1>0, <1>1, <2>1 DEF Sent, Issuing
<1>5. \A c \in Call : Awaited(seen, c) => c \in Sent
  BY DEF InTurn
<1>6. CASE up' = up /\ ending' = "threw"
  <2>1. Sent' = Sent
    BY <1>1, <1>6 DEF Sent
  <2> QED
    BY <1>1, <1>6, <2>1 DEF InTurn
<1>7. CASE up' = up \o new
  <2>1. new = Only([c \in Call |-> c], T)
    BY DEF Issued
  <2>2. \A c : c \in T <=> c \in Call /\ Awaited(heard, c) /\ ~Awaited(seen, c)
    OBVIOUS
  <2> HIDE DEF new, T
  <2>3. new \in Seq(Call) /\ ToSet(new) = Call \cap T /\ \A i, j \in DOMAIN new : i < j => new[i] < new[j]
    BY <2>1, ProgramSequence
  <2> HIDE DEF heard
  <2>4. /\ up \in Seq(Call) /\ Len(up) \in Nat /\ DOMAIN up = 1..Len(up)
        /\ Len(new) \in Nat /\ DOMAIN new = 1..Len(new)
        /\ DOMAIN up' = 1..(Len(up) + Len(new))
        /\ \A i \in DOMAIN up' : up'[i] = IF i <= Len(up) THEN up[i] ELSE new[i - Len(up)]
    BY <1>0, <1>7, <2>3 DEF SandboxTyped
  <2>5. ToSet(up') = ToSet(up) \cup T
    <3>1. ASSUME NEW i \in DOMAIN up' PROVE up'[i] \in ToSet(up) \cup T
      <4>1. CASE i <= Len(up)
        BY <2>4, <4>1 DEF ToSet
      <4>2. CASE ~(i <= Len(up))
        <5>1. i - Len(up) \in DOMAIN new
          BY <2>4, <4>2
        <5> QED
          BY <2>3, <2>4, <4>2, <5>1 DEF ToSet
      <4> QED
        BY <4>1, <4>2
    <3>2. ASSUME NEW i \in DOMAIN up PROVE up[i] \in ToSet(up')
      <4>1. i \in DOMAIN up' /\ up'[i] = up[i]
        BY <2>4
      <4> QED
        BY <4>1 DEF ToSet
    <3>3. ASSUME NEW i \in DOMAIN new PROVE new[i] \in ToSet(up')
      <4>1. i + Len(up) \in DOMAIN up' /\ up'[i + Len(up)] = new[i]
        <5>1. i + Len(up) \in DOMAIN up' /\ ~(i + Len(up) <= Len(up)) /\ i + Len(up) - Len(up) = i
          BY <2>4
        <5> QED
          BY <2>4, <5>1
      <4> QED
        BY <4>1 DEF ToSet
    <3>4. T \subseteq Call
      BY <2>2
    <3>5. \A x \in T : \E i \in DOMAIN new : x = new[i]
      BY <2>3, <3>4 DEF ToSet
    <3>6. \A x \in ToSet(up) : \E i \in DOMAIN up : x = up[i]
      BY DEF ToSet
    <3>7. \A x \in ToSet(up') : \E i \in DOMAIN up' : x = up'[i]
      BY DEF ToSet
    <3> QED
      BY <3>1, <3>2, <3>3, <3>5, <3>6, <3>7
  <2>6. Sent' = Sent \cup T
    BY <1>1, <2>5 DEF Sent
  <2>7. \A c \in Sent : c \notin T
    BY <1>4, <2>2
  <2>8. \A c \in Sent, d \in T : SiteOf[c] = SiteOf[d] => c < d
    <3>1. ASSUME NEW c \in Sent, NEW d \in T, SiteOf[c] = SiteOf[d] PROVE c < d
      <4>1. c \in Call /\ d \in Call /\ d \notin Sent
        BY <1>4, <2>2, <2>7
      <4>2. ~(d < c)
        BY <3>1, <4>1 DEF InTurn
      <4>3. c # d
        BY <4>1
      <4> QED
        BY <4>1, <4>2, <4>3, SizeAssumption DEF Call
    <3> QED
      BY <3>1
  <2>9. ASSUME NEW c \in Sent', NEW d \in Call, SiteOf[d] = SiteOf[c], d < c PROVE d \in Sent'
    <3>1. CASE c \in Sent
      BY <2>6, <2>9, <3>1 DEF InTurn
    <3>2. CASE c \in T
      <4>1. Awaited(heard, d)
        BY <1>3, <2>2, <2>9, <3>2
      <4> QED
        BY <1>5, <2>2, <2>6, <4>1
    <3> QED
      BY <2>6, <2>9, <3>1, <3>2
  <2>10. ASSUME NEW i \in DOMAIN up', NEW j \in DOMAIN up', i < j, SiteOf[up'[i]] = SiteOf[up'[j]]
         PROVE  up'[i] < up'[j]
    <3>1. CASE j <= Len(up)
      <4>1. i \in DOMAIN up /\ j \in DOMAIN up /\ up'[i] = up[i] /\ up'[j] = up[j]
        BY <2>4, <2>10, <3>1
      <4> QED
        BY <2>10, <4>1 DEF InTurn
    <3>2. CASE i <= Len(up) /\ ~(j <= Len(up))
      <4>1. i \in DOMAIN up /\ j - Len(up) \in DOMAIN new /\ up'[i] = up[i] /\ up'[j] = new[j - Len(up)]
        BY <2>4, <3>2
      <4>2. up'[i] \in Sent /\ up'[j] \in T
        BY <2>3, <4>1 DEF ToSet, Sent
      <4> QED
        BY <2>8, <2>10, <4>2
    <3>3. CASE ~(i <= Len(up)) /\ ~(j <= Len(up))
      <4>1. i - Len(up) \in DOMAIN new /\ j - Len(up) \in DOMAIN new /\ i - Len(up) < j - Len(up)
            /\ up'[i] = new[i - Len(up)] /\ up'[j] = new[j - Len(up)]
        BY <2>4, <2>10, <3>3
      <4> QED
        BY <2>3, <4>1
    <3> QED
      BY <2>4, <2>10, <3>1, <3>2, <3>3
  <2>11. ASSUME NEW c \in Made', NEW d \in ToSet(up'), SiteOf[c] = SiteOf[d] PROVE c < d
    <3>1. CASE d \in ToSet(up)
      BY <1>1, <2>11, <3>1 DEF InTurn
    <3>2. CASE d \in T
      BY <1>1, <2>8, <2>11, <3>2 DEF Sent
    <3> QED
      BY <2>5, <3>1, <3>2
  <2>12. \A c \in Call : Awaited(seen', c) => c \in Sent'
    BY <1>1, <1>5, <2>2, <2>6
  <2> QED
    BY <2>9, <2>10, <2>11, <2>12 DEF InTurn
<1> QED
  BY <1>1, <1>6, <1>7

----------------------------------------------------------------------------
(* What each step does to it.                                                *)

\* Answered rows stay, and each row is its call's.
Firm == (\A i \in Instance : Known(node[i]) => node'[i] = node[i]) /\ Belonging'

\* What was told in an earlier life stays recorded.
LEMMA Recalls ==
  ASSUME IInv, RInv, Firm, told' = told, seen' = seen \/ seen' = Silence
  PROVE  Recalling'
<1>1. ASSUME NEW c \in Call, told[c] # None PROVE node'[Home(c)].out = told[c]
  <2>1. told[c] \in Outcome /\ node[Home(c)].out = told[c]
    BY <1>1 DEF IInv, Types, ControlTyped, RInv, Recalling
  <2>2. Known(node[Home(c)]) /\ Home(c) \in Instance
    BY <2>1, Ranks DEF Known
  <2> QED
    BY <2>1, <2>2 DEF Firm
<1>2. \A c \in Call : seen'[c] # None => told[c] = seen'[c]
  BY DEF RInv, Recalling, Silence
<1> QED
  BY <1>1, <1>2 DEF Recalling

\* The engine and the script lose what they had, or begin.
LEMMA FreshStep ==
  ASSUME SiteOrder, IInv, RInv, NEW calls, NEW adm, Fresh(calls, adm), Firm, told' = told,
         calls = Opening \/ (calls = <<>> /\ ~Live'), Live' => runRow' = "running"
  PROVE  RInv'
<1>1. inst' = [c \in Call |-> 0] /\ seen' = Silence /\ up' = calls /\ ending' = "open"
  BY DEF Fresh
<1>2. Ranked' /\ InTurn'
  BY <1>1, StartsInTurn
<1>3. Recalling'
  BY <1>1, Recalls
<1>4. Concluding'
  <2>1. None # Failure
    BY Outcomes
  <2>2. \A c \in Fatal : seen'[c] # Failure
    BY <1>1, <2>1, ScriptAssumption DEF Silence
  <2> QED
    BY <1>1, <2>2 DEF Concluding
<1> QED
  BY <1>2, <1>3, <1>4 DEF RInv, Firm

\* The script and its calls stay as they are.
LEMMA CalmStep ==
  ASSUME IInv, RInv, Firm, UNCHANGED <<inst, up, seen, ending, told>>, Live' => Live /\ runRow' = runRow
  PROVE  RInv'
<1>1. Made' = Made /\ Sent' = Sent
  BY DEF Made, Sent
<1>2. Ranked'
  BY <1>1 DEF RInv, Ranked
<1>3. InTurn'
  BY <1>1 DEF RInv, InTurn, Awaited
<1>4. Recalling'
  BY Recalls
<1>5. Concluding'
  BY DEF RInv, Concluding
<1> QED
  BY <1>2, <1>3, <1>4, <1>5 DEF RInv, Firm

\* A call reaches the engine.
LEMMA EnterStep ==
  ASSUME IInv, RInv, Firm, NEW c, NEW o, Enters(c, o), UNCHANGED <<mode, ending, told, runRow>>
  PROVE  RInv'
<1>1. Ranked' /\ InTurn' /\ seen' = seen
  BY EntersRanked DEF RInv, Enters
<1>2. Recalling'
  BY <1>1, Recalls
<1>3. Concluding'
  BY <1>1 DEF RInv, Concluding, Live
<1> QED
  BY <1>1, <1>2, <1>3 DEF RInv, Firm

\* Rows that keep what they are about.
LEMMA SameFirm ==
  ASSUME RInv, \A i \in Instance : Known(node[i]) => node'[i] = node[i],
         \A i \in Instance : /\ node'[i].actor = node[i].actor /\ node'[i].input = node[i].input
                             /\ node'[i].out = "absent" <=> node[i].out = "absent"
  PROVE  Firm
<1>1. Belonging'
  BY Ranks DEF RInv, Belonging
<1> QED
  BY <1>1 DEF Firm

\* Rows that are not written keep their actor and input.
LEMMA StillFirm ==
  ASSUME RInv, node' = node
  PROVE  Firm
BY DEF RInv, Belonging, Firm

\* The rows of the asks admitted.
LEMMA JournaledFirm ==
  ASSUME IInv, RInv, NEW at, NEW a, NEW first, NEW asks, Admitted(at, a, first, asks),
         \A x \in DOMAIN asks : Place(at, asks[x]) = Home(asks[x]),
         node' = Journaled(at, a, first, asks)
  PROVE  Firm
<1>1. /\ \A i \in Instance : Known(node[i]) => node'[i] = node[i]
      /\ \A i \in Instance : (\A x \in DOMAIN asks : i # Place(at, asks[x])) => node'[i] = node[i]
      /\ \A x \in DOMAIN asks :
           ~Known(node[Place(at, asks[x])]) => /\ node'[Place(at, asks[x])].actor = a
                                               /\ node'[Place(at, asks[x])].input = Input[asks[x]]
  BY JournaledRows
<1>2. \A x \in DOMAIN asks : asks[x] \in Call /\ ActorOf[asks[x]] = a
  BY DEF Admitted
<1>3. ASSUME NEW c \in Call, node'[Home(c)].out # "absent"
      PROVE  node'[Home(c)].input = Input[c] /\ node'[Home(c)].actor = ActorOf[c]
  <2>1. Home(c) \in Instance
    BY Ranks
  <2>2. CASE node'[Home(c)] = node[Home(c)]
    BY <1>3, <2>2 DEF RInv, Belonging
  <2>3. CASE node'[Home(c)] # node[Home(c)]
    <3>1. PICK x \in DOMAIN asks : Home(c) = Home(asks[x])
      BY <1>1, <2>1, <2>3
    <3>2. c = asks[x]
      BY <1>2, <3>1, Ranks
    <3>3. ~Known(node[Home(c)])
      BY <1>1, <2>1, <2>3
    <3> QED
      BY <1>1, <1>2, <3>1, <3>2, <3>3
  <2> QED
    BY <2>2, <2>3
<1> QED
  BY <1>1, <1>3 DEF Firm, Belonging

\* An ask reaches the engine.
LEMMA AdmitPromise ==
  ASSUME IInv, RInv, NEW c \in Call, AdmitAsk(c)
  PROVE  RInv'
<1>1. PICK o, a, adm, at, asks, rows, ended, answered, live :
        Takes(c, o, a, adm, at, asks, rows, ended, answered, live)
  BY AdmitTakes
<1>2. Asks(c, o, a, adm, at, asks) /\ inst' = at /\ node' = Journaled(at, a, adm.next, asks)
      /\ UNCHANGED <<mode, ending, told, runRow>>
  BY <1>1 DEF Takes, history
<1>3. Enters(c, o) /\ \A d \in ToSet(asks) : d \in Made'
  BY <1>1, TakeRows
<1>4. \A d \in Made' : InstanceOf(d)' = Home(d)
  BY <1>2, <1>3, EntersRanked DEF RInv
<1>5. \A x \in DOMAIN asks : Place(at, asks[x]) = Home(asks[x])
  <2>1. ASSUME NEW x \in DOMAIN asks PROVE Place(at, asks[x]) = Home(asks[x])
    <3>1. asks[x] \in Made'
      BY <1>3 DEF ToSet
    <3>2. Place(at, asks[x]) = InstanceOf(asks[x])'
      BY <1>2 DEF Place, InstanceOf
    <3> QED
      BY <1>4, <3>1, <3>2
  <2> QED
    BY <2>1
<1>6. Firm
  BY <1>2, <1>5, AdmittedAsks, JournaledFirm
<1> QED
  BY <1>2, <1>3, <1>6, EnterStep

\* A world operation reaches it.
LEMMA ReadPromise ==
  ASSUME IInv, RInv, NEW c \in Call, ReadWorld(c)
  PROVE  RInv'
<1>1. PICK o, out : Reads(c, o, out)
  BY ReadCases
<1>2. /\ Enters(c, o) /\ UNCHANGED <<mode, ending, told, runRow>> /\ c \in World
      /\ node' = node \/ ~Known(node[<<SiteOf[c], o>>])
  BY <1>1 DEF Reads, history
<1>3. <<SiteOf[c], o>> = Home(c)
  BY <1>2, EntersRanked DEF RInv, Home
<1>4. /\ \A i \in Instance : Known(node[i]) => node'[i] = node[i]
      /\ \A i \in Instance : i # Home(c) => node'[i] = node[i]
      /\ node'[Home(c)].input = Input[c]
      /\ ~Known(node[Home(c)]) => node'[Home(c)].actor = NoActor
  BY <1>1, <1>3, ReadRows
<1>5. Firm
  <2>1. CASE node' = node
    BY <2>1, StillFirm
  <2>2. CASE ~Known(node[Home(c)])
    <3>1. ASSUME NEW d \in Call, node'[Home(d)].out # "absent"
          PROVE  node'[Home(d)].input = Input[d] /\ node'[Home(d)].actor = ActorOf[d]
      <4>1. CASE d = c
        BY <1>2, <1>4, <2>2, <4>1, Actors
      <4>2. CASE d # c
        <5>1. Home(d) # Home(c) /\ Home(d) \in Instance
          BY <4>2, Ranks
        <5> QED
          BY <1>4, <3>1, <5>1 DEF RInv, Belonging
      <4> QED
        BY <4>1, <4>2
    <3> QED
      BY <1>4, <3>1 DEF Firm, Belonging
  <2> QED
    BY <1>2, <1>3, <2>1, <2>2
<1> QED
  BY <1>2, <1>5, EnterStep

\* The process dies while asks are journaled.
LEMMA CrashAdmitPromise ==
  ASSUME SiteOrder, IInv, RInv, NEW c \in Call, CrashAdmitting(c)
  PROVE  RInv'
<1>1. PICK o, a, adm, at, asks, n, recorded : Dies(c, o, a, adm, at, asks, n, recorded)
  BY CrashDies
<1> DEFINE p == SubSeq(asks, 1, n)
<1>2. /\ Asks(c, o, a, adm, at, asks) /\ n \in DOMAIN asks
      /\ node' = Journaled(at, a, adm.next, p)
      /\ ~Live' /\ Wiped /\ told' = told
  BY <1>1 DEF Dies, Live
<1>3. Admitted(at, a, adm.next, asks) /\ \A x \in DOMAIN asks : asks[x] = c \/ (asks[x] # c /\ phase[asks[x]] = "held")
  BY <1>2, AdmittedAsks
<1>4. Admitted(at, a, adm.next, p) /\ asks \in Seq(Call) /\ n \in 1..Len(asks)
  <2>1. Admitted(at, a, adm.next, p)
    BY <1>2, <1>3, AdmittedPrefix
  <2>2. asks \in Seq(Call)
    BY <1>3 DEF Admitted
  <2> HIDE DEF p
  <2> QED
    BY <1>2, <2>1, <2>2
<1>5. \A x \in DOMAIN p : x \in DOMAIN asks /\ p[x] = asks[x]
  <2>1. asks \in Seq(Call) /\ n \in 1..Len(asks)
    BY <1>4
  <2>2. p = [i \in 1..(n - 1 + 1) |-> asks[1 + i - 1]]
    BY <2>1
  <2> HIDE DEF p
  <2> QED
    BY <2>1, <2>2
<1> HIDE DEF p
<1>6. o = Rank(c) /\ c \notin Made
  BY <1>2, NextRanked, NextFacts DEF Asks
<1>7. \A x \in DOMAIN p : Place(at, p[x]) = Home(p[x])
  <2>1. ASSUME NEW x \in DOMAIN asks PROVE Place(at, asks[x]) = Home(asks[x])
    <3>1. asks[x] \in Call /\ inst \in [Call -> 0..NCalls] /\ at = [inst EXCEPT ![c] = o]
      BY <1>2, <1>3 DEF Admitted, Asks, IInv, Types, AdmissionTyped
    <3>2. CASE asks[x] = c
      BY <1>6, <3>1, <3>2 DEF Place, Home
    <3>3. CASE asks[x] # c
      <4>1. asks[x] \in Made
        BY <1>3, <3>1, <3>3 DEF IInv, Phased, Made
      <4> QED
        BY <3>1, <3>3, <4>1 DEF RInv, Ranked, Place, Home
    <3> QED
      BY <3>2, <3>3
  <2> QED
    BY <1>5, <2>1
<1>8. Firm
  BY <1>2, <1>4, <1>7, JournaledFirm
<1>9. Fresh(<<>>, [b \in Actor |-> NoAdmission])
  BY <1>2 DEF Wiped
<1> QED
  BY <1>2, <1>8, <1>9, FreshStep

\* The next message to the script is what the journal says.
LEMMA FirstMessage ==
  ASSUME IInv, NEW m, down # <<>>, m = Head(down)
  PROVE  m.call \in Made /\ m.call \in Call /\ m.out \in Outcome /\ node[InstanceOf(m.call)].out = m.out
<1>0. SandboxTyped
  BY DEF IInv, Types
<1>1. 1 \in DOMAIN down /\ m = down[1]
  BY <1>0 DEF SandboxTyped
<1>2. m.call \in Call /\ m.out \in Outcome
  BY <1>0, <1>1, Messages
<1>3. inst[m.call] # 0 /\ node[InstanceOf(m.call)].out = m.out
  BY <1>1 DEF IInv, Answering
<1> QED
  BY <1>2, <1>3 DEF Made

\* The script hears it.
LEMMA HearPromise ==
  ASSUME SiteOrder, IInv, RInv, NEW m, down # <<>>, m = Head(down), Hear(m), Live, ending = "open",
         UNCHANGED <<journal, mode, engine>>
  PROVE  RInv'
<1>1. /\ m.call \in Made /\ m.call \in Call /\ m.out \in Outcome /\ node[InstanceOf(m.call)].out = m.out
      /\ m.out # None
  BY FirstMessage, Outcomes
<1>2. UNCHANGED <<node, runRow, inst, mode>>
  BY DEF journal, engine
<1>3. Ranked' /\ Belonging'
  BY <1>2 DEF RInv, Ranked, Belonging, Made
<1>4. InTurn'
  BY <1>1, <1>2, HearsInTurn DEF RInv
<1>5. /\ told \in [Call -> Outcome \cup {None}] /\ seen \in [Call -> Outcome \cup {None}]
      /\ seen' = [seen EXCEPT ![m.call] = m.out]
      /\ told' = [told EXCEPT ![m.call] = IF @ = None THEN m.out ELSE @]
      /\ seen'[m.call] = m.out /\ \A c \in Call : c # m.call => seen'[c] = seen[c]
  BY <1>1 DEF IInv, Types, ControlTyped, SandboxTyped, Hear
<1>6. node[Home(m.call)].out = m.out
  BY <1>1 DEF RInv, Ranked, Home, InstanceOf
<1>7. told'[m.call] = m.out /\ \A c \in Call : c # m.call => told'[c] = told[c]
  BY <1>1, <1>5, <1>6 DEF RInv, Recalling
<1>8. Recalling'
  BY <1>2, <1>5, <1>6, <1>7 DEF RInv, Recalling
<1>9. Concluding'
  <2>1. \A c \in Fatal : c \in Call /\ seen[c] # Failure
    BY ScriptAssumption DEF RInv, Concluding
  <2>2. \A c \in Final : c \in Call
    BY ScriptAssumption
  <2>3. CASE m.call \in Fatal /\ m.out = Failure
    <3>1. ending' = "threw"
      BY <2>3 DEF Hear
    <3> QED
      BY <1>2, <1>5, <2>3, <3>1 DEF RInv, Concluding, Live
  <2>4. CASE ~(m.call \in Fatal /\ m.out = Failure)
    <3>1. ending' = IF \A c \in Final : seen'[c] # None THEN "returned" ELSE "open"
      BY <1>5, <2>4 DEF Hear
    <3>2. \A c \in Fatal : seen'[c] # Failure
      BY <1>5, <2>1, <2>4
    <3> QED
      BY <1>2, <3>1, <3>2 DEF RInv, Concluding, Live
  <2> QED
    BY <2>3, <2>4
<1> QED
  BY <1>3, <1>4, <1>8, <1>9 DEF RInv

\* An answer reaches the script.
LEMMA DeliverPromise ==
  ASSUME SiteOrder, IInv, RInv, Deliver
  PROVE  RInv'
<1>1. CASE ending = "open"
  BY <1>1, HearPromise DEF Deliver
<1>2. CASE ending # "open"
  <2>1. UNCHANGED <<up, seen, ending, told, node, inst, mode, runRow>>
    BY <1>2 DEF Deliver, journal, engine
  <2> QED
    BY <2>1, StillFirm, CalmStep DEF Live
<1> QED
  BY <1>1, <1>2

\* A row that ends.
LEMMA EndsPromise ==
  ASSUME IInv, RInv, NEW c, NEW out, Ends(c, out), UNCHANGED <<up, ending, told, mode, runRow>>
  PROVE  RInv'
<1>1. Firm
  BY RowEnds, SameFirm
<1> QED
  BY <1>1, CalmStep DEF Ends, Live

\* An ask ends, or tries again.
LEMMA ReportPromise ==
  ASSUME IInv, RInv, NEW c \in Call, OpenFails(c) \/ Accept(c) \/ Repair(c) \/ Nudge(c) \/ AskFailed(c)
  PROVE  RInv'
<1>1. ASSUME NEW out \in Outcome, SettleAsk(c, out), phase[c] \in {"opening", "running"}
      PROVE  RInv'
  <2>1. c \in Made /\ node[InstanceOf(c)].out = "running"
    BY <1>1 DEF IInv, Phased, Made, Executed
  <2>2. Ends(c, out) /\ UNCHANGED <<up, ending, told, mode, runRow>>
    BY <1>1, <2>1 DEF Ends, SettleAsk, history
  <2> QED
    BY <2>2, EndsPromise
<1>2. ASSUME Retry(c) PROVE RInv'
  <2>1. UNCHANGED <<up, seen, ending, told, node, inst, mode, runRow>>
    BY <1>2 DEF Retry, sandbox, history
  <2> QED
    BY <2>1, StillFirm, CalmStep DEF Live
<1> QED
  BY <1>1, <1>2, Outcomes DEF OpenFails, Accept, Repair, Nudge, AskFailed, Executing

\* A world operation ends.
LEMMA WorldPromise ==
  ASSUME IInv, RInv, NEW c \in Call, WorldSettles(c)
  PROVE  RInv'
<1>1. c \in Made /\ node[InstanceOf(c)].out = "running" /\ UNCHANGED <<up, seen, ending, told, inst, mode, runRow>>
  BY DEF WorldSettles, IInv, Phased, Made, Executed, history
<1>2. CASE UNCHANGED node
  BY <1>1, <1>2, StillFirm, CalmStep DEF Live
<1>3. ASSUME NEW out \in Outcome, node' = [node EXCEPT ![InstanceOf(c)].out = out] PROVE RInv'
  <2>1. Ends(c, out)
    BY <1>1, <1>3 DEF Ends
  <2> QED
    BY <1>1, <2>1, EndsPromise
<1> QED
  BY <1>2, <1>3 DEF WorldSettles

\* The run is settled.
LEMMA SettlePromise ==
  ASSUME SiteOrder, IInv, RInv, NEW status, SettleRun(status)
  PROVE  RInv'
<1>1. CASE FinishRun(status)
  <2>1. UNCHANGED <<up, seen, ending, told, node, inst>> /\ ~Live'
    BY <1>1 DEF FinishRun, sandbox, history, Live
  <2> QED
    BY <2>1, StillFirm, CalmStep
<1>2. CASE TornFinish(status)
  <2>1. Fresh(<<>>, [a \in Actor |-> NoAdmission]) /\ ~Live' /\ told' = told /\ node' = node
    BY <1>2 DEF TornFinish, Wiped, Live, history
  <2> QED
    BY <2>1, StillFirm, FreshStep
<1> QED
  BY <1>1, <1>2 DEF SettleRun

\* A run not yet launched.
LEMMA PromiseInit == SiteOrder /\ Init => RInv
<1> SUFFICES ASSUME SiteOrder, Init PROVE RInv
  OBVIOUS
<1>1. Made = {} /\ ToSet(up) = {} /\ Sent = {} /\ DOMAIN up = {} /\ ~Live
  BY DEF Init, Made, ToSet, Sent, Live
<1>2. Ranked /\ InTurn
  BY <1>1 DEF Ranked, InTurn
<1>3. Belonging
  BY Ranks DEF Init, Belonging, Absent
<1>4. None # Failure /\ Fatal \subseteq Call
  BY Outcomes, ScriptAssumption
<1>5. Recalling /\ Concluding
  BY <1>1, <1>4 DEF Init, Recalling, Concluding, Silence
<1> QED
  BY <1>2, <1>3, <1>5 DEF RInv

\* Every step keeps the calls at their places and what was said true.
LEMMA PromiseStep == SiteOrder /\ IInv /\ RInv /\ [Next]_vars => RInv'
<1> SUFFICES ASSUME SiteOrder, IInv, RInv, [Next]_vars PROVE RInv'
  OBVIOUS
<1>1. CASE Launch \/ Resume
  <2>1. /\ Fresh(Opening, [a \in Actor |-> [NoAdmission EXCEPT !.count = Counted(a)]])
        /\ runRow' = "running" /\ node' = node /\ told' = told
    BY <1>1 DEF Launch, Resume, Start, history
  <2> QED
    BY <2>1, StillFirm, FreshStep
<1>2. CASE Reconcile
  <2>1. UNCHANGED <<up, seen, ending, told, node, inst>> /\ ~Live'
    BY <1>2 DEF Reconcile, sandbox, engine, history, Live
  <2> QED
    BY <2>1, StillFirm, CalmStep
<1>3. CASE Crash
  <2>1. Fresh(<<>>, [a \in Actor |-> NoAdmission]) /\ ~Live' /\ told' = told /\ node' = node
    BY <1>3 DEF Crash, Wiped, Live, history, journal
  <2> QED
    BY <2>1, StillFirm, FreshStep
<1>4. CASE Complete \/ Throw \/ Stop \/ \E c \in Call : InputHashMismatch(c)
  BY <1>4, SettlePromise DEF Complete, Throw, Stop, InputHashMismatch
<1>5. CASE Deliver
  BY <1>5, DeliverPromise
<1>6. ASSUME NEW c \in Call, AdmitAsk(c) \/ CrashAdmitting(c) \/ ReadWorld(c) PROVE RInv'
  BY <1>6, AdmitPromise, CrashAdmitPromise, ReadPromise
<1>7. ASSUME NEW c \in Call, OpenFails(c) \/ Accept(c) \/ Repair(c) \/ Nudge(c) \/ AskFailed(c) PROVE RInv'
  BY <1>7, ReportPromise
<1>8. ASSUME NEW c \in Call, WorldSettles(c) PROVE RInv'
  BY <1>8, WorldPromise
<1>9. CASE \/ UNCHANGED vars \/ \E a \in Actor : SessionOpens(a)
           \/ \E c \in Call : Dispatch(c) \/ Mutating(c)
  <2>1. UNCHANGED <<up, seen, ending, told, node, inst, mode, runRow>>
    BY <1>9 DEF vars, SessionOpens, Dispatch, Mutating, journal, engine, sandbox, history
  <2> QED
    BY <2>1, StillFirm, CalmStep DEF Live
<1> QED
  BY <1>1, <1>2, <1>3, <1>4, <1>5, <1>6, <1>7, <1>8, <1>9 DEF Next

----------------------------------------------------------------------------
(* The run implements its promise.                                           *)

\* The state of the promise.
Answers == [c \in Call |-> IF seen[c] # None THEN seen[c] ELSE told[c]]
Status == IF runRow \in {"absent", "running", "stopped"} THEN "open" ELSE runRow

\* The refinement maps the answers of this life and of earlier ones to one function.
LEMMA AnswersTold == IInv /\ RInv => Answers = told
<1> SUFFICES ASSUME IInv, RInv PROVE Answers = told
  OBVIOUS
<1>1. told = [c \in Call |-> told[c]]
  BY DEF IInv, Types, ControlTyped
<1>2. \A c \in Call : seen[c] # None => told[c] = seen[c]
  BY DEF RInv, Recalling
<1> QED
  BY <1>1, <1>2 DEF Answers

\* What the script heard in this life was told.
LEMMA HeardTold ==
  ASSUME IInv, RInv
  PROVE  \A c \in Call : seen[c] # None => told[c] # None
BY DEF RInv, Recalling

\* No row is about something else than its call asks.
LEMMA NoMismatch ==
  ASSUME IInv, RInv, NEW c \in Call
  PROVE  ~InputHashMismatch(c)
<1> SUFFICES ASSUME InputHashMismatch(c) PROVE FALSE
  OBVIOUS
<1>1. PICK o \in {ordinal[SiteOf[c]] + 1} : RowOf(c, o).out # "absent" /\ RowOf(c, o).input # Input[c]
  BY DEF InputHashMismatch
<1>2. NextCall(c) /\ o = ordinal[SiteOf[c]] + 1
  BY DEF InputHashMismatch
<1>3. o = Rank(c)
  BY <1>2, NextRanked
<1> QED
  BY <1>1, <1>3 DEF RInv, Belonging, RowOf, Home

\* An answer that the script has not been told.
LEMMA AnswerStep ==
  ASSUME Answers = told, Answers' = told', runRow = "running", runRow' = runRow,
         NEW c \in Call, told[c] = None, \A d \in After[c] : d \in Call /\ told[d] # None,
         NEW out \in Outcome, told' = [told EXCEPT ![c] = out]
  PROVE  Durable!Next
<1>1. Durable!Answer(c)
  BY DEF Durable!Answer, Durable!Open, Durable!Answered, Answers, Outcome
<1> QED
  BY <1>1 DEF Durable!Next

\* What the script hears is an answer the promise allows.
LEMMA HearAnswers ==
  ASSUME IInv, RInv, (IInv /\ RInv)', Deliver
  PROVE  Durable!Next \/ UNCHANGED <<told, runRow>>
<1> DEFINE m == Head(down)
<1>1. Live /\ down # <<>> /\ runRow' = runRow /\ (Hear(m) \/ told' = told)
  BY DEF Deliver, journal
<1>2. CASE told' = told
  BY <1>1, <1>2
<1>3. CASE Hear(m)
  <2>1. m.call \in Made /\ m.call \in Call /\ m.out \in Outcome
    BY <1>1, FirstMessage
  <2>2. told' = [told EXCEPT ![m.call] = IF @ = None THEN m.out ELSE @] /\ told = [c \in Call |-> told[c]]
    BY <1>3 DEF Hear, IInv, Types, ControlTyped
  <2>3. runRow = "running"
    BY <1>1 DEF RInv, Concluding
  <2>4. Answers = told /\ Answers' = told'
    <3>1. (IInv /\ RInv)' => (Answers = told)'
      BY AnswersTold, PTL
    <3> QED
      BY <3>1, AnswersTold
  <2>5. \A d \in After[m.call] : d \in Call /\ told[d] # None
    <3>1. Awaited(seen, m.call)
      BY <2>1 DEF IInv, Issuing
    <3>2. After[m.call] \subseteq Call
      BY <2>1, ScriptAssumption
    <3> QED
      BY <3>1, <3>2, HeardTold DEF Awaited
  <2> HIDE DEF m
  <2>6. CASE told[m.call] = None
    <3>1. told' = [told EXCEPT ![m.call] = m.out]
      BY <2>2, <2>6
    <3> QED
      BY <1>1, <2>1, <2>3, <2>4, <2>5, <2>6, <3>1, AnswerStep
  <2>7. CASE told[m.call] # None
    <3>1. told' = told
      BY <2>1, <2>2, <2>7
    <3> QED
      BY <1>1, <3>1
  <2> QED
    BY <2>6, <2>7
<1> QED
  BY <1>1, <1>2, <1>3

\* The run ends, and what it was told stays.
LEMMA EndAnswers ==
  ASSUME FatalAwaited, IInv, RInv, (IInv /\ RInv)', Complete \/ Throw \/ Stop
  PROVE  Durable!Next \/ (told' = told /\ Status' = Status)
<1>1. Live /\ runRow = "running" /\ told' = told
  BY DEF Complete, Throw, Stop, SettleRun, FinishRun, TornFinish, history, RInv, Concluding
<1>2. Answers = told /\ Answers' = told'
  <2>1. (IInv /\ RInv)' => (Answers = told)'
    BY AnswersTold, PTL
  <2> QED
    BY <2>1, AnswersTold
<1>3. CASE Complete
  <2>1. ending = "returned" /\ runRow' = "completed"
    BY <1>3 DEF Complete, SettleRun, FinishRun, TornFinish
  <2>2. \A c \in Final : c \in Call /\ seen[c] # None
    BY <2>1, ScriptAssumption DEF RInv, Concluding
  <2>3. \A c \in Fatal : told[c] # Failure
    <3>1. ASSUME NEW c \in Fatal, told[c] = Failure PROVE FALSE
      <4>1. c \in Call /\ seen[c] # Failure
        BY <2>1, ScriptAssumption DEF RInv, Concluding
      <4>2. seen[c] = None
        BY <3>1, <4>1 DEF RInv, Recalling
      <4>3. PICK d \in Final : c \in After[d]
        BY <2>2, <4>2 DEF FatalAwaited
      <4>4. d \in Made
        BY <2>2 DEF IInv, Answering, Made
      <4>5. Awaited(seen, d)
        BY <4>4 DEF IInv, Issuing
      <4> QED
        BY <4>2, <4>3, <4>5 DEF Awaited
    <3> QED
      BY <3>1
  <2>4. \A c \in Final : c \in Call /\ told[c] # None
    BY <2>2, HeardTold
  <2>5. Durable!Complete
    BY <1>1, <1>2, <2>1, <2>3, <2>4 DEF Durable!Complete, Durable!Open, Durable!Answered, Durable!Thrown, Answers
  <2> QED
    BY <2>5 DEF Durable!Next
<1>4. CASE Throw
  <2>1. ending = "threw" /\ runRow' = "errored"
    BY <1>4 DEF Throw, SettleRun, FinishRun, TornFinish
  <2>2. \E c \in Fatal : told[c] = Failure
    BY <2>1, ScriptAssumption, Outcomes DEF RInv, Concluding, Recalling
  <2>3. Durable!Fail
    BY <1>1, <1>2, <2>1, <2>2 DEF Durable!Fail, Durable!Open, Durable!Thrown, Answers
  <2> QED
    BY <2>3 DEF Durable!Next
<1>5. CASE Stop
  <2>1. runRow' = "stopped" \/ runRow' = "superseded"
    BY <1>5 DEF Stop, SettleRun, FinishRun, TornFinish
  <2>2. CASE runRow' = "stopped"
    BY <1>1, <2>2 DEF Status
  <2>3. CASE runRow' = "superseded"
    <3>1. Durable!Supersede
      BY <1>1, <1>2, <2>3 DEF Durable!Supersede, Durable!Open, Answers
    <3> QED
      BY <3>1 DEF Durable!Next
  <2> QED
    BY <2>1, <2>2, <2>3
<1> QED
  BY <1>3, <1>4, <1>5

\* Every other step changes neither what the script was told nor how the run stands.
LEMMA OtherAnswers ==
  ASSUME [Next]_vars, ~Deliver, ~(Complete \/ Throw \/ Stop), \A c \in Call : ~InputHashMismatch(c)
  PROVE  told' = told /\ Status' = Status
<1>1. CASE Launch \/ Resume \/ Reconcile \/ Crash
  BY <1>1 DEF Launch, Resume, Start, Reconcile, Crash, history, journal, Status
<1>2. ASSUME NEW c \in Call, AdmitAsk(c) \/ CrashAdmitting(c) \/ ReadWorld(c) \/ WorldSettles(c)
      PROVE  UNCHANGED <<told, runRow>>
  BY <1>2 DEF AdmitAsk, CrashAdmitting, ReadWorld, WorldSettles, history
<1>3. ASSUME NEW c \in Call, Dispatch(c) \/ Mutating(c) \/ OpenFails(c) \/ Accept(c) \/ AskFailed(c)
      PROVE  UNCHANGED <<told, runRow>>
  BY <1>3 DEF Dispatch, Mutating, OpenFails, Accept, AskFailed, SettleAsk, history
<1>4. ASSUME NEW c \in Call, Repair(c) \/ Nudge(c)
      PROVE  UNCHANGED <<told, runRow>>
  BY <1>4 DEF Repair, Nudge, Retry, SettleAsk, history
<1>5. CASE UNCHANGED vars \/ \E a \in Actor : SessionOpens(a)
  BY <1>5 DEF vars, SessionOpens, history, journal, Status
<1> QED
  BY <1>1, <1>2, <1>3, <1>4, <1>5 DEF Next, Status

\* A run begins as the promise does.
LEMMA PromiseBegins == Init => Durable!Init
<1> SUFFICES ASSUME Init PROVE Durable!Init
  OBVIOUS
<1>1. seen = Silence /\ told = Silence /\ runRow = "absent"
  BY DEF Init
<1> QED
  BY <1>1 DEF Durable!Init, Silence

\* Each of its steps is one of the promise, or changes nothing that it speaks of.
LEMMA PromiseMoves ==
  FatalAwaited /\ IInv /\ RInv /\ (IInv /\ RInv)' /\ [Next]_vars => [Durable!Next]_(Durable!vars)
<1> SUFFICES ASSUME FatalAwaited, IInv, RInv, (IInv /\ RInv)', [Next]_vars
             PROVE  Durable!Next \/ UNCHANGED Durable!vars
  OBVIOUS
<1>1. Answers = told /\ Answers' = told'
  <2>1. (IInv /\ RInv)' => (Answers = told)'
    BY AnswersTold, PTL
  <2> QED
    BY <2>1, AnswersTold
<1>2. told' = told /\ Status' = Status => UNCHANGED Durable!vars
  BY <1>1 DEF Durable!vars, Answers, Status
<1>3. CASE Deliver
  BY <1>2, <1>3, HearAnswers DEF Status
<1>4. CASE Complete \/ Throw \/ Stop
  BY <1>2, <1>4, EndAnswers
<1>5. CASE ~Deliver /\ ~(Complete \/ Throw \/ Stop)
  BY <1>2, <1>5, NoMismatch, OtherAnswers
<1> QED
  BY <1>3, <1>4, <1>5

\* Both invariants hold throughout.
LEMMA SafeAnswers == SiteOrder => (Spec => [](IInv /\ RInv))
<1> SUFFICES ASSUME SiteOrder PROVE Spec => [](IInv /\ RInv)
  OBVIOUS
<1>1. Init => IInv /\ RInv
  BY InitInv, PromiseInit
<1>2. IInv /\ RInv /\ [Next]_vars => (IInv /\ RInv)'
  BY NextStep, PromiseStep
<1> QED
  BY <1>1, <1>2, PTL DEF Spec

\* Through crashes, stops, resumes, replays and inherited answers the run implements DurableRun:
\* each call has one answer, given in the order in which the script awaits them and never
\* changed, and the run ends once and as the answers say.
THEOREM PromiseIsDurable ==
  ASSUME SiteOrder, FatalAwaited
  PROVE  Spec => DurablePromise
<1>1. Spec => [](IInv /\ RInv)
  BY SafeAnswers
<1>2. IInv /\ RInv /\ (IInv /\ RInv)' /\ [Next]_vars => [Durable!Next]_(Durable!vars)
  BY PromiseMoves
<1> QED
  BY <1>1, <1>2, PromiseBegins, PTL DEF Spec, DurablePromise, Durable!Spec

\* With such a script no replay drifts: a row answers only the actor it was recorded for, ...
THEOREM AnswersKeepActor ==
  ASSUME SiteOrder
  PROVE  Spec => []AnswersStayWithActor
<1>1. IInv /\ RInv => AnswersStayWithActor
  <2> SUFFICES ASSUME IInv, RInv, NEW c \in Call, seen[c] # None
               PROVE  node[InstanceOf(c)].actor = ActorOf[c]
    BY DEF AnswersStayWithActor
  <2>1. c \in Made /\ node[InstanceOf(c)].out = seen[c] /\ seen[c] \in Outcome
    BY DEF IInv, Types, SandboxTyped, Answering, Made
  <2>2. InstanceOf(c) = Home(c) /\ node[Home(c)].out # "absent"
    BY <2>1, Outcomes DEF RInv, Ranked, InstanceOf, Home
  <2> QED
    BY <2>2 DEF RInv, Belonging
<1> QED
  BY <1>1, SafeAnswers, PTL

\* ... and the run never fails because its own journal does not fit it.
THEOREM ReplaysFit ==
  ASSUME SiteOrder
  PROVE  Spec => ReplayFits
<1> DEFINE Thrown == runRow' = "errored" /\ runRow # "errored" => ending = "threw"
<1>1. IInv /\ RInv /\ [Next]_vars => Thrown
  <2> SUFFICES ASSUME IInv, RInv, [Next]_vars, runRow' = "errored", runRow # "errored" PROVE ending = "threw"
    OBVIOUS
  <2>1. CASE Complete \/ Throw \/ Stop
    BY <2>1 DEF Complete, Throw, Stop, SettleRun, FinishRun, TornFinish
  <2>2. CASE Deliver
    BY <2>2 DEF Deliver, journal
  <2>3. CASE ~Deliver /\ ~(Complete \/ Throw \/ Stop)
    <3>1. Status' = Status
      BY <2>3, NoMismatch, OtherAnswers
    <3> QED
      BY <3>1 DEF Status
  <2> QED
    BY <2>1, <2>2, <2>3
<1>2. Thrown => [Thrown]_vars
  OBVIOUS
<1> QED
  BY <1>1, SafeAnswers, PTL DEF Spec, ReplayFits

----------------------------------------------------------------------------
(* What an actor inherits.                                                   *)

\* A node-queued event is about a row.
Written == \A i \in queued : i \in Instance /\ node[i].out # "absent"

\* Without a torn crash, a row of an actor is answered or ran live; those that did not run
\* live are the beginning of its conversation, and are answered as its predecessor was.
Seeded(a) ==
  /\ \A i \in RecordedAsks(a) : ~Known(node[i]) => i \in queued
  /\ \A i \in Inherited(a) : Fits(a, node[i].seq, node[i].input)
  /\ \A i \in Inherited(a), j \in RecordedAsks(a) : node[j].seq < node[i].seq => j \in Inherited(a)

\* The part of it that this life has admitted is what the import counts as consumed.
Followed(a) ==
  /\ \A i \in RecordedAsks(a) : node[i].seq < admission[a].next =>
       (i \in Inherited(a) <=> node[i].seq < imported[a].consumed)
  /\ IF imported[a].diverged THEN imported[a].consumed < admission[a].next
     ELSE imported[a].consumed = admission[a].next

HInv == Written /\ (~torn => \A a \in Actor : Seeded(a) /\ (Live => Followed(a)))

\* A step that gives no ask a row, and ends only rows that ran live.
Undisturbed ==
  /\ torn' = torn
  /\ \A i \in Instance :
       /\ node'[i].actor = node[i].actor
       /\ node[i].out # "absent" => node'[i].out # "absent"
       /\ i \in queued' => i \in queued \/ node'[i].out # "absent"
       /\ i \in queued => i \in queued'
       /\ node[i].actor # NoActor =>
            /\ i \in queued' => i \in queued
            /\ node'[i].seq = node[i].seq /\ node'[i].input = node[i].input
            /\ Known(node[i]) => Known(node'[i])
            /\ i \notin queued => node'[i] = node[i]
  /\ queued' \subseteq Instance

\* It leaves the inheritance as it is.
LEMMA UndisturbedRows ==
  ASSUME HInv, Undisturbed
  PROVE  /\ Written'
         /\ ~torn' => \A a \in Actor :
              /\ Seeded(a)'
              /\ RecordedAsks(a)' = RecordedAsks(a) /\ Inherited(a)' = Inherited(a)
              /\ \A i \in RecordedAsks(a) : node'[i].seq = node[i].seq
<1>1. Written'
  BY DEF HInv, Written, Undisturbed
<1>2. ASSUME ~torn', NEW a \in Actor
      PROVE  /\ Seeded(a)'
             /\ RecordedAsks(a)' = RecordedAsks(a) /\ Inherited(a)' = Inherited(a)
             /\ \A i \in RecordedAsks(a) : node'[i].seq = node[i].seq
  <2>1. Seeded(a)
    BY <1>2 DEF HInv, Undisturbed
  <2>2. RecordedAsks(a)' = RecordedAsks(a)
    BY DEF Undisturbed, RecordedAsks
  <2>3. ASSUME NEW i \in RecordedAsks(a)
        PROVE  /\ node'[i].seq = node[i].seq /\ node'[i].input = node[i].input
               /\ i \in queued' <=> i \in queued
               /\ Known(node[i]) => Known(node'[i])
               /\ i \notin queued => node'[i] = node[i]
    <3>1. i \in Instance /\ node[i].actor # NoActor
      BY Actors DEF RecordedAsks
    <3> QED
      BY <3>1 DEF Undisturbed
  <2>4. Inherited(a)' = Inherited(a)
    <3>1. \A i \in RecordedAsks(a) : node'[i].out \in Outcome /\ i \notin queued' <=> node[i].out \in Outcome /\ i \notin queued
      BY <2>3
    <3> QED
      BY <2>2, <3>1 DEF Inherited
  <2>5. \A i \in Inherited(a) : i \in RecordedAsks(a)
    BY DEF Inherited
  <2>6. Seeded(a)'
    BY <2>1, <2>2, <2>3, <2>4, <2>5 DEF Seeded, Fits
  <2> QED
    BY <2>2, <2>3, <2>4, <2>6
<1> QED
  BY <1>1, <1>2

\* So nothing changes while the admissions stay as they are, ...
LEMMA UndisturbedStep ==
  ASSUME HInv, Undisturbed, UNCHANGED <<admission, imported, mode>>
  PROVE  HInv'
<1>1. ASSUME ~torn', NEW a \in Actor, Live' PROVE Followed(a)'
  <2>1. Followed(a)
    BY <1>1 DEF HInv, Undisturbed, Live
  <2>2. /\ RecordedAsks(a)' = RecordedAsks(a) /\ Inherited(a)' = Inherited(a)
        /\ \A i \in RecordedAsks(a) : node'[i].seq = node[i].seq
    BY <1>1, UndisturbedRows
  <2> QED
    BY <2>1, <2>2 DEF Followed
<1> QED
  BY <1>1, UndisturbedRows DEF HInv

\* ... or when there is no engine any more.
LEMMA UndisturbedEnd ==
  ASSUME HInv, Undisturbed, ~Live'
  PROVE  HInv'
BY UndisturbedRows DEF HInv

\* A step that changes no row and no node-queued event disturbs nothing.
LEMMA SameUndisturbed ==
  ASSUME IInv, UNCHANGED <<node, queued, torn>>
  PROVE  Undisturbed
BY DEF IInv, Types, JournalTyped, Undisturbed

\* A new life has followed nothing yet.
LEMMA StartInherits ==
  ASSUME IInv, HInv, Start
  PROVE  HInv'
<1>1. Undisturbed
  BY SameUndisturbed DEF Start, events, history
<1>2. ASSUME NEW a \in Actor PROVE imported'[a] = [consumed |-> 0, diverged |-> FALSE] /\ admission'[a].next = 0
  BY DEF Start, Fresh, NothingConsumed, NoAdmission
<1>3. ASSUME NEW a \in Actor, ~torn' PROVE Followed(a)'
  <2>1. \A i \in RecordedAsks(a) : node'[i].seq = node[i].seq /\ node[i].seq \in Nat
    <3>1. ASSUME NEW i \in RecordedAsks(a) PROVE node[i].seq \in Nat
      <4>1. i \in Instance /\ node[i].actor = a /\ JournalTyped
        BY DEF RecordedAsks, IInv, Types
      <4>2. node[i] # Absent
        BY <4>1, Actors, Rows
      <4>3. node[i] \in Row
        BY <4>1, <4>2, Rows
      <4>4. node[i].seq \in 0..NCalls
        BY <4>3 DEF Row
      <4> QED
        BY <4>4, SizeAssumption
    <3> QED
      BY <1>1, <1>3, <3>1, UndisturbedRows
  <2>2. RecordedAsks(a)' = RecordedAsks(a)
    BY <1>1, <1>3, UndisturbedRows
  <2> QED
    BY <1>2, <2>1, <2>2 DEF Followed
<1> QED
  BY <1>1, <1>3, UndisturbedRows DEF HInv

\* An ask or a world operation ends: it ran live.
LEMMA EndUndisturbed ==
  ASSUME IInv, HInv, NEW c, NEW out, Ends(c, out), ~torn, UNCHANGED <<queued, torn>>
  PROVE  Undisturbed
<1>1. /\ \A i \in Instance : Known(node[i]) => node'[i] = node[i]
      /\ \A i \in Instance : /\ node'[i].actor = node[i].actor /\ node'[i].seq = node[i].seq
                             /\ node'[i].input = node[i].input
                             /\ node'[i].out = "absent" <=> node[i].out = "absent"
  BY RowEnds
<1>2. c \in Made /\ node[InstanceOf(c)].out = "running" /\ InstanceOf(c) \in Instance
  BY Instances DEF Ends, IInv, Types
<1>3. \A i \in Instance : i # InstanceOf(c) => node'[i] = node[i]
  BY DEF Ends, IInv, Types, JournalTyped
<1>4. node[InstanceOf(c)].actor # NoActor => InstanceOf(c) \in queued
  <2>1. ASSUME node[InstanceOf(c)].actor # NoActor PROVE InstanceOf(c) \in queued
    <3>1. node[InstanceOf(c)] \in Row
      BY <1>2, Rows DEF IInv, Types
    <3>2. node[InstanceOf(c)].actor \in Actor
      BY <2>1, <3>1 DEF Row
    <3>3. ~Known(node[InstanceOf(c)])
      BY <1>2, Outcomes DEF Known
    <3> QED
      BY <1>2, <3>2, <3>3 DEF HInv, Seeded, RecordedAsks
  <2> QED
    BY <2>1
<1>5. queued \subseteq Instance
  BY DEF IInv, Types, JournalTyped
<1> QED
  BY <1>1, <1>3, <1>4, <1>5 DEF Undisturbed

\* After a torn crash nothing is claimed but that the events are about rows.
LEMMA TornRows ==
  ASSUME HInv, torn' = torn, torn,
         queued' \subseteq Instance,
         \A i \in Instance : node[i].out # "absent" => node'[i].out # "absent",
         \A i \in queued' : i \in queued \/ node'[i].out # "absent"
  PROVE  HInv'
BY DEF HInv, Written

\* The rows that asks find are recorded for their inputs.
Agreed(at, asks) ==
  \A x \in DOMAIN asks : node[Place(at, asks[x])].out # "absent" =>
    node[Place(at, asks[x])].input = Input[asks[x]]

\* The asks admitted from the next position on are journaled, and those left running have
\* their event.
Records(at, a, first, asks, m) ==
  /\ Live /\ Lodged(at, a, first, asks, m) /\ Agreed(at, asks) /\ first = admission[a].next
  /\ node' = Journaled(at, a, first, asks)
  /\ queued' = queued \union {Place(at, asks[x]) : x \in {y \in DOMAIN asks : ~Known(node'[Place(at, asks[y])])}}

\* The rows and events of the asks.
LEMMA RecordedRows ==
  ASSUME IInv, OInv, HInv, NEW at, NEW a, NEW first, NEW asks, NEW m, Records(at, a, first, asks, m)
  PROVE  /\ a \in Actor /\ first \in Nat /\ m \in Nat /\ DOMAIN asks = 1..Len(asks) /\ Len(asks) \in Nat
         /\ \A x, y \in DOMAIN asks : Place(at, asks[x]) = Place(at, asks[y]) => x = y
         /\ \A x \in DOMAIN asks :
              /\ Place(at, asks[x]) \in Instance
              /\ node'[Place(at, asks[x])].actor = a
              /\ node'[Place(at, asks[x])].seq = first + x - 1
              /\ node'[Place(at, asks[x])].input = Input[asks[x]]
              /\ Known(node[Place(at, asks[x])]) => node'[Place(at, asks[x])] = node[Place(at, asks[x])]
              /\ ~Known(node[Place(at, asks[x])]) =>
                   (Known(node'[Place(at, asks[x])]) <=>
                      node[Place(at, asks[x])].out = "absent" /\ x \in Path(at, a, first, asks))
              /\ \/ node[Place(at, asks[x])].out = "absent" /\ first + x - 1 >= m
                    /\ Place(at, asks[x]) \notin queued
                 \/ /\ node[Place(at, asks[x])].out # "absent" /\ first + x - 1 < m
                    /\ Place(at, asks[x]) \in RecordedAsks(a) /\ node[Place(at, asks[x])].seq = first + x - 1
                    /\ node[Place(at, asks[x])].input = Input[asks[x]]
              /\ Place(at, asks[x]) \in queued' <=>
                   Place(at, asks[x]) \in queued \/ ~Known(node'[Place(at, asks[x])])
         /\ \A i \in Instance : (\A x \in DOMAIN asks : i # Place(at, asks[x])) =>
              node'[i] = node[i] /\ (i \in queued' <=> i \in queued)
         /\ \A b \in Actor : b # a => RecordedAsks(b)' = RecordedAsks(b)
         /\ RecordedAsks(a)' = RecordedAsks(a) \cup {Place(at, asks[x]) : x \in DOMAIN asks}
         /\ \A i \in RecordedAsks(a) : i \in Instance /\ node[i].actor = a /\ node[i].seq \in Nat /\ node[i].seq < m
<1>1. /\ Lodged(at, a, first, asks, m) /\ Admitted(at, a, first, asks) /\ node' = Journaled(at, a, first, asks)
      /\ Conversing
  BY DEF Records, Lodged, OInv
<1>2. /\ \A i \in Instance : Known(node[i]) => node'[i] = node[i]
      /\ \A i \in Instance : (\A x \in DOMAIN asks : i # Place(at, asks[x])) => node'[i] = node[i]
      /\ \A x \in DOMAIN asks :
           /\ Place(at, asks[x]) \in Instance
           /\ ~Known(node[Place(at, asks[x])]) =>
                /\ node'[Place(at, asks[x])].actor = a
                /\ node'[Place(at, asks[x])].seq = first + x - 1
                /\ node'[Place(at, asks[x])].input = Input[asks[x]]
                /\ node'[Place(at, asks[x])].out =
                     IF node[Place(at, asks[x])].out = "absent" /\ x \in Path(at, a, first, asks)
                     THEN Import[a][first + x].out ELSE "running"
  BY <1>1, JournaledRows
<1>3. /\ \A x \in DOMAIN asks : /\ node'[Place(at, asks[x])].actor = a
                                /\ node'[Place(at, asks[x])].seq = first + x - 1
      /\ \A i \in Instance : node[i].actor # NoActor => node[i].out # "absent"
  BY <1>1, JournaledPlaces
<1>4. /\ \A b \in Actor : b # a => RecordedAsks(b)' = RecordedAsks(b)
      /\ RecordedAsks(a)' = RecordedAsks(a) \cup {Place(at, asks[x]) : x \in DOMAIN asks}
  BY <1>1, JournaledOrder
<1>5. a \in Actor /\ first \in Nat /\ m \in Nat /\ DOMAIN asks = 1..Len(asks) /\ Len(asks) \in Nat
      /\ first <= m /\ PositionsOf(a) = 0..(m - 1)
  <2>1. asks \in Seq(Call)
    BY <1>1 DEF Admitted
  <2>2. DOMAIN asks = 1..Len(asks) /\ Len(asks) \in Nat
    BY <2>1
  <2> QED
    BY <1>1, <2>2, SizeAssumption DEF Lodged, Admitted
<1>6. \A x, y \in DOMAIN asks : Place(at, asks[x]) = Place(at, asks[y]) => x = y
  BY <1>1 DEF Admitted, Place
<1>7. \A i \in RecordedAsks(a) : i \in Instance /\ node[i].actor = a /\ node[i].seq \in Nat /\ node[i].seq < m
  <2>1. ASSUME NEW i \in RecordedAsks(a) PROVE i \in Instance /\ node[i].actor = a /\ node[i].seq \in Nat /\ node[i].seq < m
    <3>1. node[i].seq \in 0..(m - 1)
      BY <1>5 DEF PositionsOf
    <3> QED
      BY <1>5, <3>1 DEF RecordedAsks
  <2> QED
    BY <2>1
<1>8. ASSUME NEW x \in DOMAIN asks
      PROVE  \/ node[Place(at, asks[x])].out = "absent" /\ first + x - 1 >= m
                /\ Place(at, asks[x]) \notin queued
             \/ /\ node[Place(at, asks[x])].out # "absent" /\ first + x - 1 < m
                /\ Place(at, asks[x]) \in RecordedAsks(a) /\ node[Place(at, asks[x])].seq = first + x - 1
                /\ node[Place(at, asks[x])].input = Input[asks[x]]
  <2> DEFINE p == Place(at, asks[x])
  <2>1. CASE node[p].out = "absent" /\ first + x - 1 >= m
    BY <2>1 DEF HInv, Written
  <2>2. CASE node[p].actor = a /\ node[p].seq = first + x - 1
    <3>1. p \in Instance
      BY <1>2
    <3>2. node[p].out # "absent" /\ p \in RecordedAsks(a)
      BY <1>3, <1>5, <2>2, <3>1, Actors DEF RecordedAsks
    <3>3. node[p].seq < m
      BY <1>7, <3>2
    <3>4. node[p].input = Input[asks[x]]
      BY <3>2 DEF Records, Agreed
    <3> QED
      BY <2>2, <3>2, <3>3, <3>4
  <2> QED
    BY <1>1, <2>1, <2>2 DEF Lodged
<1>9. ASSUME NEW x \in DOMAIN asks
      PROVE  /\ Known(node[Place(at, asks[x])]) => node'[Place(at, asks[x])] = node[Place(at, asks[x])]
             /\ node'[Place(at, asks[x])].input = Input[asks[x]]
             /\ ~Known(node[Place(at, asks[x])]) =>
                   (Known(node'[Place(at, asks[x])]) <=>
                      node[Place(at, asks[x])].out = "absent" /\ x \in Path(at, a, first, asks))
  <2> DEFINE p == Place(at, asks[x])
  <2>1. p \in Instance /\ (Known(node[p]) => node'[p] = node[p])
    BY <1>2
  <2>2. CASE Known(node[p])
    <3>1. node[p].out # "absent"
      BY <2>2, Outcomes DEF Known
    <3>2. node[p].input = Input[asks[x]]
      BY <1>8, <3>1
    <3> QED
      BY <2>1, <2>2, <3>2
  <2>3. CASE ~Known(node[p])
    <3>1. x \in Path(at, a, first, asks) => Import[a][first + x].out \in Outcome
      BY <1>1, PathServes DEF Outcome
    <3>2. node'[p].out = IF node[p].out = "absent" /\ x \in Path(at, a, first, asks)
                         THEN Import[a][first + x].out ELSE "running"
      BY <1>2, <2>3
    <3> QED
      BY <1>2, <2>3, <3>1, <3>2, Outcomes DEF Known
  <2> QED
    BY <2>1, <2>2, <2>3
<1>10. ASSUME NEW x \in DOMAIN asks
       PROVE  Place(at, asks[x]) \in queued' <=> Place(at, asks[x]) \in queued \/ ~Known(node'[Place(at, asks[x])])
  BY DEF Records
<1>11. \A i \in Instance : (\A x \in DOMAIN asks : i # Place(at, asks[x])) => (i \in queued' <=> i \in queued)
  BY DEF Records
<1>12. \A x \in DOMAIN asks : Place(at, asks[x]) \in Instance
  BY <1>2
<1> QED
  BY <1>2, <1>3, <1>4, <1>5, <1>6, <1>7, <1>8, <1>9, <1>10, <1>11, <1>12

\* An ask is inherited exactly when it lies on the path.
LEMMA OnPath ==
  ASSUME IInv, OInv, HInv, ~torn, NEW at, NEW a, NEW first, NEW asks, NEW m, Records(at, a, first, asks, m),
         NEW x \in DOMAIN asks
  PROVE  Place(at, asks[x]) \in Inherited(a)' <=> x \in Path(at, a, first, asks)
<1> DEFINE p == Place(at, asks[x])
           P(y) == Place(at, asks[y])
           F == Path(at, a, first, asks)
<1>1. /\ a \in Actor /\ first \in Nat /\ m \in Nat /\ DOMAIN asks = 1..Len(asks) /\ Len(asks) \in Nat
      /\ \A y \in DOMAIN asks :
           /\ P(y) \in Instance
           /\ node'[P(y)].actor = a
           /\ Known(node[P(y)]) => node'[P(y)] = node[P(y)]
           /\ ~Known(node[P(y)]) => (Known(node'[P(y)]) <=> node[P(y)].out = "absent" /\ y \in F)
           /\ \/ node[P(y)].out = "absent" /\ first + y - 1 >= m /\ P(y) \notin queued
              \/ /\ node[P(y)].out # "absent" /\ first + y - 1 < m
                 /\ P(y) \in RecordedAsks(a) /\ node[P(y)].seq = first + y - 1
                 /\ node[P(y)].input = Input[asks[y]]
           /\ P(y) \in queued' <=> P(y) \in queued \/ ~Known(node'[P(y)])
  BY RecordedRows
<1>2. p \in Inherited(a)' <=> Known(node'[p]) /\ p \notin queued
  BY <1>1 DEF Inherited, RecordedAsks, Known
<1>3. Seeded(a) /\ Followed(a) /\ first = admission[a].next /\ Admitted(at, a, first, asks) /\ PositionsOf(a) = 0..(m - 1)
  BY <1>1 DEF HInv, Records, Lodged
<1>4. ASSUME x \in F PROVE p \in Inherited(a)'
  <2>1. Follows(a, p, first + x - 1, asks[x])
    BY <1>3, <1>4, PathServes
  <2>2. CASE node[p].out = "absent"
    <3>1. ~Known(node[p])
      BY <2>2, Outcomes DEF Known
    <3> QED
      BY <1>1, <1>2, <1>4, <2>2, <3>1
  <2>3. CASE node[p].out # "absent"
    <3>1. p \notin queued
      BY <2>1, <2>3 DEF Follows
    <3>2. Known(node[p])
      BY <1>1, <1>3, <2>3, <3>1 DEF Seeded
    <3> QED
      BY <1>1, <1>2, <3>1, <3>2
  <2> QED
    BY <2>2, <2>3
<1>5. ASSUME p \in Inherited(a)' PROVE x \in F
  <2>1. Known(node'[p]) /\ p \notin queued
    BY <1>2, <1>5
  <2>2. CASE ~Known(node[p])
    BY <1>1, <2>1, <2>2
  <2>3. CASE Known(node[p])
    <3>1. node[p].out # "absent"
      BY <2>3, Outcomes DEF Known
    <3>2. p \in RecordedAsks(a) /\ node[p].seq = first + x - 1 /\ first + x - 1 < m
      BY <1>1, <3>1
    <3>3. p \in Inherited(a)
      BY <2>1, <2>3, <3>2 DEF Inherited, Known
    <3>4. ASSUME NEW y \in 1..x PROVE Follows(a, P(y), first + y - 1, asks[y])
      <4>1. y \in DOMAIN asks /\ y <= x /\ y \in Nat /\ x \in Nat
        BY <1>1
      <4>2. first + y - 1 < m
        BY <1>1, <3>2, <4>1
      <4>3. /\ node[P(y)].out # "absent" /\ P(y) \in RecordedAsks(a) /\ node[P(y)].seq = first + y - 1
            /\ node[P(y)].input = Input[asks[y]]
        BY <1>1, <4>1, <4>2
      <4>4. P(y) \in Inherited(a)
        <5>1. CASE y = x
          BY <3>3, <5>1
        <5>2. CASE y # x
          <6>1. node[P(y)].seq < node[p].seq
            BY <1>1, <3>2, <4>1, <4>3, <5>2
          <6> QED
            BY <1>3, <3>3, <4>3, <6>1 DEF Seeded
        <5> QED
          BY <5>1, <5>2
      <4>5. Fits(a, first + y - 1, Input[asks[y]]) /\ P(y) \notin queued
        BY <1>3, <4>3, <4>4 DEF Seeded, Inherited
      <4> QED
        BY <4>3, <4>5 DEF Follows
    <3>5. ~imported[a].diverged
      <4>1. ASSUME imported[a].diverged PROVE FALSE
        <5> DEFINE k == imported[a].consumed
        <5>1. k < first /\ k \in 0..NCalls
          BY <1>1, <1>3, <4>1 DEF Followed, IInv, Types, DispatchTyped, AdmissionTyped, JournalTyped, SandboxTyped, ControlTyped
        <5> HIDE DEF k
        <5>2. k \in 0..(m - 1) /\ k < first + x - 1
          BY <1>1, <3>2, <5>1, SizeAssumption
        <5>3. PICK j \in RecordedAsks(a) : node[j].seq = k
          BY <1>3, <5>2 DEF PositionsOf
        <5>4. j \in Inherited(a)
          BY <1>3, <3>2, <3>3, <5>2, <5>3 DEF Seeded
        <5>5. k < k
          BY <1>3, <5>1, <5>3, <5>4 DEF Followed, k
        <5> QED
          BY <5>1, <5>5, SizeAssumption
      <4> QED
        BY <4>1
    <3> QED
      BY <3>4, <3>5 DEF Path, Place
  <2> QED
    BY <2>2, <2>3
<1> QED
  BY <1>4, <1>5

\* The rows of another actor are as they were.
LEMMA OthersRecorded ==
  ASSUME IInv, OInv, HInv, ~torn, NEW at, NEW a, NEW first, NEW asks, NEW m, Records(at, a, first, asks, m),
         NEW b \in Actor, b # a
  PROVE  /\ RecordedAsks(b)' = RecordedAsks(b) /\ Inherited(b)' = Inherited(b) /\ Seeded(b)'
         /\ \A i \in RecordedAsks(b) : node'[i] = node[i]
<1>1. /\ RecordedAsks(b)' = RecordedAsks(b)
      /\ \A x \in DOMAIN asks : Place(at, asks[x]) \in Instance /\ node'[Place(at, asks[x])].actor = a
      /\ \A i \in Instance : (\A x \in DOMAIN asks : i # Place(at, asks[x])) =>
           node'[i] = node[i] /\ (i \in queued' <=> i \in queued)
  BY RecordedRows
<1>2. ASSUME NEW i \in RecordedAsks(b) PROVE node'[i] = node[i] /\ (i \in queued' <=> i \in queued)
  <2>1. i \in Instance /\ node'[i].actor = b
    BY <1>1 DEF RecordedAsks
  <2> QED
    BY <1>1, <2>1
<1>3. Inherited(b)' = Inherited(b)
  BY <1>1, <1>2 DEF Inherited
<1>4. Seeded(b)
  BY DEF HInv
<1>5. \A i \in Inherited(b) : i \in RecordedAsks(b)
  BY DEF Inherited
<1>6. Seeded(b)'
  BY <1>1, <1>2, <1>3, <1>4, <1>5 DEF Seeded, Fits
<1> QED
  BY <1>1, <1>2, <1>3, <1>6

\* Journaling extends the inherited beginning along the path, or not at all.
LEMMA RecordsSeed ==
  ASSUME IInv, OInv, HInv, ~torn, NEW at, NEW a, NEW first, NEW asks, NEW m, Records(at, a, first, asks, m)
  PROVE  /\ Seeded(a)'
         /\ \A i \in RecordedAsks(a)' :
              \/ \E x \in DOMAIN asks : i = Place(at, asks[x])
              \/ /\ i \in RecordedAsks(a) /\ node'[i] = node[i] /\ (i \in Inherited(a)' <=> i \in Inherited(a))
                 /\ node[i].seq \in Nat
                 /\ \A y \in DOMAIN asks : node[i].seq # first + y - 1
<1> DEFINE P(y) == Place(at, asks[y])
           F == Path(at, a, first, asks)
           other(i) == \A x \in DOMAIN asks : i # P(x)
<1>1. /\ a \in Actor /\ first \in Nat /\ m \in Nat /\ DOMAIN asks = 1..Len(asks) /\ Len(asks) \in Nat
      /\ \A x \in DOMAIN asks :
           /\ P(x) \in Instance
           /\ node'[P(x)].seq = first + x - 1 /\ node'[P(x)].input = Input[asks[x]]
           /\ Known(node[P(x)]) => node'[P(x)] = node[P(x)]
           /\ \/ node[P(x)].out = "absent" /\ first + x - 1 >= m /\ P(x) \notin queued
              \/ P(x) \in RecordedAsks(a) /\ node[P(x)].seq = first + x - 1
           /\ P(x) \in queued' <=> P(x) \in queued \/ ~Known(node'[P(x)])
      /\ \A i \in Instance : other(i) => node'[i] = node[i] /\ (i \in queued' <=> i \in queued)
      /\ RecordedAsks(a)' = RecordedAsks(a) \cup {P(x) : x \in DOMAIN asks}
      /\ \A i \in RecordedAsks(a) : i \in Instance /\ node[i].actor = a /\ node[i].seq \in Nat /\ node[i].seq < m
  BY RecordedRows
<1>2. /\ Seeded(a) /\ Followed(a) /\ first = admission[a].next /\ Admitted(at, a, first, asks) /\ Conversing'
  <2>1. Lodged(at, a, first, asks, m) /\ node' = Journaled(at, a, first, asks) /\ Live /\ first = admission[a].next
    BY DEF Records
  <2>2. Conversing'
    BY <2>1, JournaledOrder DEF OInv
  <2>3. Admitted(at, a, first, asks)
    BY <2>1 DEF Lodged
  <2> QED
    BY <1>1, <2>1, <2>2, <2>3 DEF HInv
<1>3. \A x \in DOMAIN asks : P(x) \in Inherited(a)' <=> x \in F
  BY OnPath
<1>4. /\ F \subseteq DOMAIN asks
      /\ \A x \in F : /\ ~imported[a].diverged /\ Follows(a, P(x), first + x - 1, asks[x])
                      /\ \A y \in 1..x : y \in F
  BY <1>2, PathServes
<1>5. \A x \in DOMAIN asks : P(x) \in RecordedAsks(a)'
  BY <1>1
<1>6. ASSUME NEW i \in RecordedAsks(a)', other(i)
      PROVE  /\ i \in RecordedAsks(a) /\ node'[i] = node[i] /\ (i \in queued' <=> i \in queued)
             /\ (i \in Inherited(a)' <=> i \in Inherited(a))
             /\ node[i].seq \in Nat
             /\ \A y \in DOMAIN asks : node[i].seq # first + y - 1
  <2>1. i \in RecordedAsks(a)
    BY <1>1, <1>6
  <2>2. node'[i] = node[i] /\ (i \in queued' <=> i \in queued) /\ node[i].seq \in Nat
    BY <1>1, <1>6, <2>1
  <2>3. i \in Inherited(a)' <=> i \in Inherited(a)
    BY <1>6, <2>1, <2>2 DEF Inherited
  <2>4. ASSUME NEW y \in DOMAIN asks, node[i].seq = first + y - 1 PROVE FALSE
    <3>1. node'[i].seq = node'[P(y)].seq /\ P(y) \in RecordedAsks(a)'
      BY <1>1, <1>5, <2>2, <2>4
    <3>2. i = P(y)
      BY <1>1, <1>2, <1>6, <3>1 DEF Conversing
    <3> QED
      BY <1>6, <3>2
  <2> QED
    BY <2>1, <2>2, <2>3, <2>4
<1>7. \A i \in RecordedAsks(a)' : ~Known(node'[i]) => i \in queued'
  <2>1. ASSUME NEW i \in RecordedAsks(a)', ~Known(node'[i]) PROVE i \in queued'
    <3>1. CASE other(i)
      BY <1>2, <1>6, <2>1, <3>1 DEF Seeded
    <3>2. CASE ~other(i)
      BY <1>1, <2>1, <3>2
    <3> QED
      BY <3>1, <3>2
  <2> QED
    BY <2>1
<1>8. \A i \in Inherited(a)' : i \in RecordedAsks(a)'
  BY DEF Inherited
<1>9. \A i \in Inherited(a)' : Fits(a, node'[i].seq, node'[i].input)
  <2>1. ASSUME NEW i \in Inherited(a)' PROVE Fits(a, node'[i].seq, node'[i].input)
    <3>1. CASE other(i)
      BY <1>2, <1>6, <1>8, <3>1 DEF Seeded
    <3>2. CASE ~other(i)
      <4>1. PICK x \in DOMAIN asks : i = P(x)
        BY <3>2
      <4>2. x \in F
        BY <1>3, <2>1, <4>1
      <4>3. Follows(a, P(x), first + x - 1, asks[x])
        BY <1>4, <4>2
      <4> QED
        BY <1>1, <4>1, <4>3 DEF Follows
    <3> QED
      BY <3>1, <3>2
  <2> QED
    BY <2>1
<1>10. ASSUME NEW i \in Inherited(a)', NEW j \in RecordedAsks(a)', node'[j].seq < node'[i].seq
       PROVE  j \in Inherited(a)'
  <2>1. CASE other(i) /\ other(j)
    BY <1>2, <1>6, <1>8, <1>10, <2>1 DEF Seeded
  <2>2. CASE ~other(i) /\ ~other(j)
    <3>1. PICK x \in DOMAIN asks, y \in DOMAIN asks : i = P(x) /\ j = P(y)
      BY <2>2
    <3>2. x \in F /\ y < x /\ y \in Nat /\ y >= 1 /\ x \in Nat
      BY <1>1, <1>3, <1>10, <3>1
    <3>3. y \in F
      BY <1>4, <3>2
    <3> QED
      BY <1>3, <3>1, <3>3
  <2>3. CASE ~other(i) /\ other(j)
    <3>1. PICK x \in DOMAIN asks : i = P(x)
      BY <2>3
    <3>2. x \in F /\ node'[i].seq = first + x - 1 /\ node'[j].seq = node[j].seq /\ j \in RecordedAsks(a)
          /\ node[j].seq \in Nat
      BY <1>1, <1>3, <1>6, <2>3, <3>1
    <3>3. node[j].seq < first
      <4>1. ASSUME node[j].seq >= first PROVE FALSE
        <5> DEFINE y == node[j].seq - first + 1
        <5>1. y \in DOMAIN asks /\ node[j].seq = first + y - 1
          <6>1. node[j].seq < first + x - 1 /\ x \in 1..Len(asks)
            BY <1>1, <1>10, <3>2
          <6> DEFINE k == node[j].seq
          <6>2. k \in Nat /\ k >= first /\ k < first + x - 1 /\ first \in Nat /\ Len(asks) \in Nat
            BY <1>1, <3>2, <4>1, <6>1
          <6> HIDE DEF k
          <6>3. k - first + 1 \in 1..Len(asks) /\ k = first + (k - first + 1) - 1
            BY <6>1, <6>2
          <6> QED
            BY <1>1, <6>3 DEF k
        <5> HIDE DEF y
        <5> QED
          BY <1>6, <2>3, <5>1
      <4> QED
        BY <1>1, <3>2, <4>1
    <3>4. j \in Inherited(a)
      <4>1. ~imported[a].diverged
        BY <1>4, <3>2
      <4>2. imported[a].consumed = first
        BY <1>2, <4>1 DEF Followed
      <4> QED
        BY <1>2, <3>2, <3>3, <4>2 DEF Followed
    <3> QED
      BY <1>6, <2>3, <3>4
  <2>4. CASE other(i) /\ ~other(j)
    <3>1. PICK y \in DOMAIN asks : j = P(y)
      BY <2>4
    <3>2. i \in RecordedAsks(a) /\ i \in Inherited(a) /\ node'[i].seq = node[i].seq /\ node[i].seq < m
          /\ node'[j].seq = first + y - 1 /\ node[i].seq \in Nat
      BY <1>1, <1>6, <1>8, <2>4, <3>1
    <3>3. ~(first + y - 1 >= m)
      BY <1>1, <1>10, <3>2
    <3>4. j \in RecordedAsks(a) /\ node[j].seq = first + y - 1
      BY <1>1, <3>1, <3>3
    <3>5. j \in Inherited(a)
      BY <1>2, <1>10, <3>2, <3>4 DEF Seeded
    <3>6. Known(node[j]) /\ j \notin queued
      BY <3>5 DEF Inherited, Known
    <3>7. node'[j] = node[j] /\ j \notin queued'
      BY <1>1, <3>1, <3>6
    <3> QED
      BY <3>6, <3>7 DEF Inherited, Known
  <2> QED
    BY <2>1, <2>2, <2>3, <2>4
<1>11. Seeded(a)'
  BY <1>7, <1>9, <1>10 DEF Seeded
<1> QED
  BY <1>6, <1>11

\* The events written are about rows.
LEMMA RecordsWritten ==
  ASSUME IInv, OInv, HInv, NEW at, NEW a, NEW first, NEW asks, NEW m, Records(at, a, first, asks, m)
  PROVE  Written'
<1>1. /\ \A x \in DOMAIN asks : Place(at, asks[x]) \in Instance
      /\ \A x \in DOMAIN asks : node'[Place(at, asks[x])].actor = a
      /\ a \in Actor
      /\ \A i \in Instance : (\A x \in DOMAIN asks : i # Place(at, asks[x])) =>
           node'[i] = node[i] /\ (i \in queued' <=> i \in queued)
  BY RecordedRows
<1>2. ASSUME NEW i \in queued' PROVE i \in Instance /\ node'[i].out # "absent"
  <2>1. i \in Instance
    BY <1>1 DEF Records, HInv, Written
  <2>2. CASE \A x \in DOMAIN asks : i # Place(at, asks[x])
    BY <1>1, <2>1, <2>2 DEF HInv, Written
  <2>3. CASE \E x \in DOMAIN asks : i = Place(at, asks[x])
    <3>1. node'[i].actor \in Actor
      BY <1>1, <2>3
    <3>2. node' \in [Instance -> Row \cup {Absent}]
      BY JournaledRows DEF Records, Lodged
    <3>3. node'[i] # Absent
      BY <3>1, Actors DEF Absent
    <3>4. \A r \in Row : r.out # "absent"
      BY <2>1, Rows DEF IInv, Types
    <3> QED
      BY <2>1, <3>2, <3>3, <3>4
  <2> QED
    BY <2>2, <2>3
<1> QED
  BY <1>2 DEF Written

\* A beginning of a sequence is as long as it has elements.
LEMMA PathLength ==
  ASSUME NEW n \in Nat, NEW F, F \subseteq 1..n, \A x \in F : \A y \in 1..x : y \in F
  PROVE  Cardinality(F) \in 0..n /\ F = 1..Cardinality(F)
<1> DEFINE T == {k \in Nat : k + 1 \notin F}
<1>1. n \in T
  OBVIOUS
<1>2. PICK q \in T : \A k \in T : q <= k
  <2>1. T \subseteq Nat /\ T # {}
    BY <1>1
  <2> HIDE DEF T
  <2> QED
    BY <2>1, LeastNat
<1>3. q \in Nat /\ q <= n /\ q + 1 \notin F
  BY <1>1, <1>2
<1>4. \A x \in 1..q : x \in F
  <2>1. ASSUME NEW x \in 1..q, x \notin F PROVE FALSE
    <3>1. x - 1 \in Nat /\ (x - 1) + 1 = x /\ x - 1 < q
      BY <1>3
    <3>2. x - 1 \in T
      BY <2>1, <3>1
    <3> QED
      BY <1>2, <1>3, <3>1, <3>2
  <2> QED
    BY <2>1
<1>5. \A x \in F : x \in 1..q
  <2>1. ASSUME NEW x \in F, ~(x \in 1..q) PROVE FALSE
    <3>1. x \in Nat /\ q + 1 \in 1..x
      BY <1>3, <2>1
    <3> QED
      BY <1>3, <3>1
  <2> QED
    BY <2>1
<1>6. F = 1..q
  BY <1>4, <1>5
<1>7. Cardinality(1..q) = IF 1 > q THEN 0 ELSE q - 1 + 1
  <2>1. 1 \in Int /\ q \in Int
    BY <1>3
  <2> QED
    BY <2>1, FiniteRange
<1>8. Cardinality(F) = q
  BY <1>3, <1>6, <1>7
<1> QED
  BY <1>3, <1>6, <1>8

\* The rows found are those of the calls made.
LEMMA AsksAgree ==
  ASSUME IInv, NEW c, NEW o, NEW a, NEW adm, NEW at, NEW asks, Asks(c, o, a, adm, at, asks)
  PROVE  Agreed(at, asks)
<1>1. /\ c \in Call /\ Matches(c, o) /\ at = [inst EXCEPT ![c] = o] /\ inst \in [Call -> 0..NCalls]
  BY DEF Asks, IInv, Types, AdmissionTyped
<1>2. at[c] = o /\ \A d \in Call : d # c => at[d] = inst[d]
  BY <1>1
<1>3. ASSUME NEW x \in DOMAIN asks, node[Place(at, asks[x])].out # "absent"
      PROVE  node[Place(at, asks[x])].input = Input[asks[x]]
  <2> DEFINE d == asks[x]
  <2>1. d \in Call /\ ((d = c /\ phase[c] = "idle") \/ (d # c /\ phase[d] = "held"))
    BY AdmittedAsks
  <2> HIDE DEF d
  <2>2. CASE d = c
    BY <1>1, <1>2, <1>3, <2>2 DEF Place, Matches, RowOf, d
  <2>3. CASE d # c
    <3>1. d \in Made /\ Place(at, d) = InstanceOf(d)
      BY <1>2, <2>1, <2>3 DEF IInv, Phased, Made, Place, InstanceOf
    <3>2. Matches(d, inst[d])
      BY <3>1 DEF IInv, Fitting
    <3> QED
      BY <1>3, <3>1, <3>2 DEF Matches, RowOf, InstanceOf, d
  <2> QED
    BY <2>2, <2>3
<1> QED
  BY <1>3 DEF Agreed

\* An admission records its asks.
LEMMA TakeRecords ==
  ASSUME SameAsk, IInv, OInv, NEW c, NEW o, NEW a, NEW adm, NEW at, NEW asks, NEW rows, NEW ended, NEW answered, NEW live,
         Takes(c, o, a, adm, at, asks, rows, ended, answered, live)
  PROVE  Records(at, a, adm.next, asks, Ahead(adm))
<1>1. Asks(c, o, a, adm, at, asks) /\ node' = Journaled(at, a, adm.next, asks) /\ inst' = at
      /\ queued' = queued \union {Place(at, x) : x \in ToSet(live)} /\ Live
  BY DEF Takes, Asks, NextCall
<1>2. Lodged(at, a, adm.next, asks, Ahead(adm)) /\ Agreed(at, asks) /\ adm.next = admission[a].next
  BY <1>1, AsksLodged, AsksAgree, TakeNumbers
<1>3. ToSet(live) = {x \in ToSet(asks) : ~Known(node'[InstanceOf(x)'])}
  BY TakeRows
<1>4. \A d : InstanceOf(d)' = Place(at, d)
  BY <1>1 DEF InstanceOf, Place
<1>5. {Place(at, d) : d \in ToSet(live)} = {Place(at, asks[x]) : x \in {y \in DOMAIN asks : ~Known(node'[Place(at, asks[y])])}}
  <2>1. ToSet(live) = {d \in ToSet(asks) : ~Known(node'[Place(at, d)])}
    BY <1>3, <1>4
  <2> QED
    BY <2>1 DEF ToSet
<1> QED
  BY <1>1, <1>2, <1>5 DEF Records

\* What it consumed is the path.
LEMMA TakeFollows ==
  ASSUME SameAsk, IInv, OInv, HInv, ~torn,
         NEW c, NEW o, NEW a, NEW adm, NEW at, NEW asks, NEW rows, NEW ended, NEW answered, NEW live,
         Takes(c, o, a, adm, at, asks, rows, ended, answered, live)
  PROVE  Followed(a)'
<1> DEFINE F == Path(at, a, adm.next, asks)
           q == Cardinality(F)
           first == adm.next
           old == imported[a]
           new == imported'[a]
<1>1. Records(at, a, first, asks, Ahead(adm))
  BY TakeRecords
<1>2. /\ a \in Actor /\ first \in Nat /\ DOMAIN asks = 1..Len(asks) /\ Len(asks) \in Nat
      /\ \A x \in DOMAIN asks : node'[Place(at, asks[x])].seq = first + x - 1
  BY <1>1, RecordedRows
<1>3. Followed(a) /\ first = admission[a].next /\ admission'[a].next = first + Len(asks)
      /\ Admitted(at, a, first, asks)
  <2>1. Live /\ Admitted(at, a, first, asks)
    BY <1>1 DEF Records, Lodged
  <2>2. first = admission[a].next /\ admission'[a].next = first + Len(asks)
    BY TakeNumbers
  <2> QED
    BY <1>2, <2>1, <2>2 DEF HInv
<1>4. /\ F \subseteq DOMAIN asks /\ (F # {} => ~old.diverged)
      /\ \A x \in F : \A y \in 1..x : y \in F
  BY <1>3, PathServes
<1>5. q \in 0..Len(asks) /\ F = 1..q
  BY <1>2, <1>4, PathLength
<1>6. imported \in [Actor -> [consumed : 0..NCalls, diverged : BOOLEAN]]
  BY WellTyped DEF IInv, TypeOK
<1> DEFINE n == Len(asks)
           l == new.consumed
           k == old.consumed
           gone == old.diverged
<1>7. /\ l = (IF F = {} THEN k ELSE first + q)
      /\ new.diverged <=> gone \/ F # DOMAIN asks
      /\ k \in Nat /\ n \in Nat /\ first \in Nat /\ q \in 0..n
  <2>1. imported' = [imported EXCEPT ![a].consumed = IF F = {} THEN @ ELSE first + q,
                                     ![a].diverged = @ \/ F # DOMAIN asks]
    BY DEF Takes
  <2>2. old \in [consumed : 0..NCalls, diverged : BOOLEAN]
    BY <1>2, <1>6
  <2> HIDE DEF F, q
  <2>3. l = (IF F = {} THEN k ELSE first + q) /\ (new.diverged <=> gone \/ F # DOMAIN asks)
    <3> HIDE DEF first
    <3> QED
      BY <1>2, <1>6, <2>1, <2>2
  <2>4. k \in 0..NCalls
    BY <2>2
  <2>5. n \in Nat /\ first \in Nat /\ q \in 0..n
    BY <1>2, <1>5
  <2>6. k \in Nat
    BY <2>4, SizeAssumption
  <2> HIDE DEF first, k, n, l, gone, new
  <2> QED
    BY <2>3, <2>5, <2>6
<1>8. IF gone THEN k < first ELSE k = first
  BY <1>3 DEF Followed
<1> HIDE DEF F, q, first, l, k, n, gone
<1>9. (gone => l = k /\ F = {}) /\ (~gone => l = first + q)
  <2>1. gone => F = {}
    BY <1>4 DEF gone, old
  <2>2. F = {} => q = 0
    BY <1>5, <1>7
  <2>3. gone => l = k /\ F = {}
    BY <1>7, <2>1
  <2>4. ASSUME ~gone PROVE l = first + q
    <3>1. k = first
      BY <1>8, <2>4
    <3>2. CASE F = {}
      <4>1. l = k /\ q = 0
        BY <1>7, <2>2, <3>2
      <4> QED
        BY <1>7, <3>1, <4>1
    <3>3. CASE F # {}
      BY <1>7, <3>3
    <3> QED
      BY <3>2, <3>3
  <2> QED
    BY <2>3, <2>4
<1>10. IF new.diverged THEN l < first + n ELSE l = first + n
  <2>1. CASE gone
    BY <1>7, <1>8, <1>9, <2>1
  <2>2. CASE ~gone /\ F = DOMAIN asks
    <3>1. F = 1..n /\ F = 1..q /\ q \in 0..n /\ n \in Nat
      <4>1. n = Len(asks) /\ n \in Nat
        BY <1>2 DEF n
      <4> QED
        BY <1>2, <1>5, <1>7, <2>2, <4>1
    <3>2. q = n
      <4>1. ASSUME q < n PROVE FALSE
        <5>1. n \in 1..n /\ n \notin 1..q
          BY <3>1, <4>1
        <5> QED
          BY <3>1, <5>1
      <4> QED
        BY <3>1, <4>1
    <3> QED
      BY <1>7, <1>9, <2>2, <3>2
  <2>3. CASE ~gone /\ F # DOMAIN asks
    <3>1. q # n
      <4>1. DOMAIN asks = 1..n /\ F = 1..q
        BY <1>2, <1>5 DEF n
      <4> QED
        BY <2>3, <4>1
    <3>2. l = first + q
      BY <1>9, <2>3
    <3>3. l < first + n
      BY <1>7, <3>1, <3>2
    <3>4. new.diverged
      BY <1>7, <2>3
    <3> QED
      BY <3>3, <3>4
  <2> QED
    BY <2>1, <2>2, <2>3
<1>11. ASSUME NEW i \in RecordedAsks(a)', node'[i].seq < first + n
       PROVE  i \in Inherited(a)' <=> node'[i].seq < l
  <2>1. CASE \E x \in DOMAIN asks : i = Place(at, asks[x])
    <3>1. PICK x \in DOMAIN asks : i = Place(at, asks[x])
      BY <2>1
    <3>2. i \in Inherited(a)' <=> x \in F
      BY <1>1, <3>1, OnPath DEF F, first
    <3>3. node'[i].seq = first + x - 1 /\ x \in Nat /\ x >= 1
      BY <1>2, <3>1 DEF first
    <3>4. x \in F <=> x <= q
      BY <1>5, <1>7, <3>3
    <3>5. gone => x \notin F
      BY <1>9
    <3>6. x \in F <=> first + x - 1 < l
      BY <1>7, <1>8, <1>9, <3>3, <3>4, <3>5
    <3> QED
      BY <3>2, <3>3, <3>6
  <2>2. CASE ~\E x \in DOMAIN asks : i = Place(at, asks[x])
    <3>1. /\ i \in RecordedAsks(a) /\ node'[i] = node[i] /\ (i \in Inherited(a)' <=> i \in Inherited(a))
          /\ node[i].seq \in Nat
          /\ \A y \in DOMAIN asks : node[i].seq # first + y - 1
      BY <1>1, <2>2, RecordsSeed DEF first
    <3> DEFINE r == node[i].seq
    <3>2. r \in Nat /\ r < first + n
      BY <1>11, <3>1
    <3>3. r < first
      <4>1. ASSUME r >= first PROVE FALSE
        <5> DEFINE y == r - first + 1
        <5> HIDE DEF r
        <5>1. y \in 1..n /\ r = first + y - 1
          BY <1>7, <3>2, <4>1
        <5> HIDE DEF y
        <5> QED
          BY <1>2, <3>1, <5>1 DEF r, n
      <4> HIDE DEF r
      <4> QED
        BY <1>7, <3>2, <4>1
    <3>4. i \in Inherited(a) <=> r < k
      BY <1>3, <3>1, <3>3 DEF Followed, first, k
    <3> HIDE DEF r
    <3>5. r < k <=> r < l
      BY <1>7, <1>8, <1>9, <3>2, <3>3
    <3> QED
      BY <3>1, <3>4, <3>5 DEF r
  <2> QED
    BY <2>1, <2>2
<1>12. admission'[a].next = first + n
  BY <1>3 DEF first, n
<1> QED
  BY <1>10, <1>11, <1>12 DEF Followed, l

\* Asks that are journaled and left running have their rows and events, whether or not the
\* process lives on.
LEMMA RecordedAll ==
  ASSUME IInv, OInv, HInv, ~torn, NEW at, NEW a, NEW first, NEW asks, NEW m, Records(at, a, first, asks, m)
  PROVE  Written' /\ \A b \in Actor : Seeded(b)'
<1>1. Written' /\ Seeded(a)'
  BY RecordsWritten, RecordsSeed
<1>2. ASSUME NEW b \in Actor, b # a PROVE Seeded(b)'
  BY <1>2, OthersRecorded
<1> QED
  BY <1>1, <1>2

\* An admission.
LEMMA AdmitInherits ==
  ASSUME SameAsk, IInv, OInv, HInv, NEW c \in Call, AdmitAsk(c)
  PROVE  HInv'
<1>1. PICK o, a, adm, at, asks, rows, ended, answered, live :
        Takes(c, o, a, adm, at, asks, rows, ended, answered, live)
  BY AdmitTakes
<1>2. torn' = torn /\ Records(at, a, adm.next, asks, Ahead(adm))
  BY <1>1, TakeRecords DEF AdmitAsk, history
<1>3. Written'
  BY <1>2, RecordsWritten
<1>4. ASSUME ~torn, NEW b \in Actor PROVE Seeded(b)' /\ Followed(b)'
  <2>1. Seeded(b)'
    BY <1>2, <1>4, RecordedAll
  <2>2. CASE b = a
    BY <1>1, <1>4, <2>1, <2>2, TakeFollows
  <2>3. CASE b # a
    <3>1. /\ RecordedAsks(b)' = RecordedAsks(b) /\ Inherited(b)' = Inherited(b)
          /\ \A i \in RecordedAsks(b) : node'[i] = node[i]
      BY <1>2, <1>4, <2>3, OthersRecorded
    <3>2. admission'[b] = admission[b]
      BY <1>1, <2>3, TakeNumbers
    <3>3. imported'[b] = imported[b]
      BY <1>1, <2>3, WellTyped DEF Takes, IInv, TypeOK
    <3>4. Followed(b)
      BY <1>2, <1>4 DEF HInv, Records
    <3> QED
      BY <2>1, <3>1, <3>2, <3>3, <3>4 DEF Followed
  <2> QED
    BY <2>2, <2>3
<1> QED
  BY <1>2, <1>3, <1>4 DEF HInv

\* The events of the first n rows, when the process dies after the n-th without tearing it.
LEMMA DeadEvents ==
  ASSUME IInv, OInv, HInv, ~torn, ~torn', NEW c, NEW o, NEW a, NEW adm, NEW at, NEW asks, NEW n, NEW recorded,
         NEW p, Dies(c, o, a, adm, at, asks, n, recorded), n \in Nat,
         DOMAIN p = 1..n, \A x \in 1..n : p[x] = asks[x]
  PROVE  queued' = queued \union {Place(at, p[x]) : x \in {y \in DOMAIN p : ~Known(node'[Place(at, p[y])])}}
<1>1. /\ queued' = queued \union {Place(at, asks[x]) : x \in {y \in 1..n :
                      ~Known(node'[Place(at, asks[y])]) /\ (y = n => recorded)}}
      /\ torn' = (torn \/ (~recorded /\ ~Known(node'[Place(at, asks[n])]) /\ Place(at, asks[n]) \notin queued))
  BY DEF Dies
<1>2. recorded \/ Known(node'[Place(at, asks[n])]) \/ Place(at, asks[n]) \in queued
  BY <1>1
<1> QED
  BY <1>1, <1>2

\* No row is lost, and the asks have theirs.
LEMMA JournaledStays ==
  ASSUME IInv, Conversing, NEW at, NEW a, NEW first, NEW asks, NEW m, Lodged(at, a, first, asks, m),
         node' = Journaled(at, a, first, asks)
  PROVE  /\ \A i \in Instance : node[i].out # "absent" => node'[i].out # "absent"
         /\ \A x \in DOMAIN asks : Place(at, asks[x]) \in Instance /\ node'[Place(at, asks[x])].out # "absent"
<1>1. /\ \A x \in DOMAIN asks : Place(at, asks[x]) \in Instance /\ node'[Place(at, asks[x])].actor = a
  BY JournaledPlaces
<1>2. /\ node' \in [Instance -> Row \cup {Absent}] /\ a \in Actor
      /\ \A i \in Instance : (\A x \in DOMAIN asks : i # Place(at, asks[x])) => node'[i] = node[i]
  <2>1. Admitted(at, a, first, asks)
    BY DEF Lodged
  <2> QED
    BY <2>1, JournaledRows DEF Admitted
<1>3. ASSUME NEW x \in DOMAIN asks PROVE node'[Place(at, asks[x])].out # "absent"
  <2>1. Place(at, asks[x]) \in Instance /\ node'[Place(at, asks[x])] # Absent
    BY <1>1, <1>2, Actors DEF Absent
  <2>2. \A r \in Row : r.out # "absent"
    BY <2>1, Rows DEF IInv, Types
  <2> QED
    BY <1>2, <2>1, <2>2
<1> QED
  BY <1>1, <1>2, <1>3

\* Dying while asks are journaled.
LEMMA CrashInherits ==
  ASSUME SameAsk, IInv, OInv, HInv, NEW c \in Call, CrashAdmitting(c)
  PROVE  HInv'
<1>1. PICK o, a, adm, at, asks, n, recorded : Dies(c, o, a, adm, at, asks, n, recorded)
  BY CrashDies
<1>2. Asks(c, o, a, adm, at, asks) /\ n \in DOMAIN asks /\ mode' = "down"
      /\ node' = Journaled(at, a, adm.next, SubSeq(asks, 1, n))
  BY <1>1 DEF Dies
<1> DEFINE m == Ahead(adm)
           p == SubSeq(asks, 1, n)
<1>3. /\ Lodged(at, a, adm.next, asks, m) /\ Agreed(at, asks) /\ Live
      /\ adm.next = admission[a].next
  <2>1. Lodged(at, a, adm.next, asks, m)
    BY <1>2, AsksLodged
  <2>2. Agreed(at, asks) /\ adm.next = admission[a].next
    BY <1>2, AsksAgree, JoiningKeeps
  <2> QED
    BY <1>2, <2>1, <2>2 DEF Asks, NextCall
<1>4. asks \in Seq(Call) /\ Admitted(at, a, adm.next, asks)
  BY <1>3 DEF Lodged, Admitted
<1>5. DOMAIN p = 1..n /\ n \in Nat /\ \A x \in 1..n : p[x] = asks[x] /\ x \in DOMAIN asks
  <2>1. Len(asks) \in Nat /\ n \in 1..Len(asks) /\ DOMAIN asks = 1..Len(asks)
    BY <1>2, <1>4
  <2>2. p = [i \in 1..(n - 1 + 1) |-> asks[1 + i - 1]]
    BY <1>4, <2>1
  <2> HIDE DEF p
  <2>3. n - 1 + 1 = n /\ \A i \in 1..n : 1 + i - 1 = i /\ i \in 1..Len(asks)
    BY <2>1
  <2> QED
    BY <2>1, <2>2, <2>3
<1>6. Admitted(at, a, adm.next, p)
  BY <1>2, <1>4, AdmittedPrefix
<1> HIDE DEF m, p
<1>7. Lodged(at, a, adm.next, p, m)
  BY <1>3, <1>5, <1>6 DEF Lodged
<1>8. Agreed(at, p)
  BY <1>3, <1>5 DEF Agreed
<1>9. ASSUME ~torn, ~torn' PROVE Written' /\ \A b \in Actor : Seeded(b)'
  <2>1. queued' = queued \union {Place(at, p[x]) : x \in {y \in DOMAIN p : ~Known(node'[Place(at, p[y])])}}
    BY <1>1, <1>5, <1>9, DeadEvents
  <2>2. Records(at, a, adm.next, p, m)
    BY <1>2, <1>3, <1>7, <1>8, <2>1 DEF Records, p
  <2> QED
    BY <1>9, <2>2, RecordedAll
<1>10. ASSUME torn' PROVE Written'
  <2>1. /\ \A i \in Instance : node[i].out # "absent" => node'[i].out # "absent"
        /\ \A x \in DOMAIN p : Place(at, p[x]) \in Instance /\ node'[Place(at, p[x])].out # "absent"
    <3>1. node' = Journaled(at, a, adm.next, p)
      BY <1>2 DEF p
    <3> QED
      BY <1>7, <3>1, JournaledStays DEF OInv
  <2>2. queued' \subseteq queued \cup {Place(at, asks[x]) : x \in 1..n}
    BY <1>1 DEF Dies
  <2>3. \A x \in 1..n : Place(at, asks[x]) \in Instance /\ node'[Place(at, asks[x])].out # "absent"
    BY <1>5, <2>1
  <2> QED
    BY <2>1, <2>2, <2>3 DEF HInv, Written
<1>11. torn => torn'
  BY <1>1 DEF Dies
<1>12. ~Live'
  BY <1>2 DEF Live
<1> QED
  BY <1>9, <1>10, <1>11, <1>12 DEF HInv

\* The end of an ask or of a world operation keeps what is inherited.
LEMMA EndInherits ==
  ASSUME IInv, HInv, NEW c, NEW out, Ends(c, out), UNCHANGED <<queued, torn, admission, imported, mode>>
  PROVE  HInv'
<1>1. CASE ~torn
  BY <1>1, EndUndisturbed, UndisturbedStep
<1>2. CASE torn
  <2>1. \A i \in Instance : node'[i].out = "absent" <=> node[i].out = "absent"
    BY RowEnds
  <2>2. queued' \subseteq Instance
    BY DEF IInv, Types, JournalTyped
  <2> QED
    BY <1>2, <2>1, <2>2, TornRows
<1> QED
  BY <1>1, <1>2

\* What the driver reports of an ask.
LEMMA ReportInherits ==
  ASSUME IInv, HInv, NEW c \in Call, OpenFails(c) \/ Accept(c) \/ Repair(c) \/ Nudge(c) \/ AskFailed(c)
  PROVE  HInv'
<1>1. ASSUME Retry(c) PROVE HInv'
  <2>1. UNCHANGED <<node, queued, torn, admission, imported, mode>>
    BY <1>1 DEF Retry, events, cache, history
  <2> QED
    BY <2>1, SameUndisturbed, UndisturbedStep
<1>2. ASSUME NEW out \in Outcome, SettleAsk(c, out), phase[c] \in {"opening", "running"}
      PROVE  HInv'
  <2>1. c \in Made
    BY <1>2 DEF IInv, Phased, Made
  <2>2. node[InstanceOf(c)].out = "running"
    BY <1>2, <2>1 DEF IInv, Phased, Executed
  <2>3. Ends(c, out)
    BY <1>2, <2>1, <2>2 DEF Ends, SettleAsk
  <2>4. UNCHANGED <<queued, torn, admission, imported, mode>>
    BY <1>2 DEF SettleAsk, events, cache, history
  <2> QED
    BY <2>3, <2>4, EndInherits
<1>3. CASE OpenFails(c)
  BY <1>2, <1>3, Outcomes DEF OpenFails
<1>4. CASE Accept(c)
  BY <1>2, <1>4, Outcomes DEF Accept, Executing
<1>5. CASE Repair(c)
  BY <1>1, <1>2, <1>5, Outcomes DEF Repair, Executing
<1>6. CASE Nudge(c)
  BY <1>1, <1>2, <1>6, Outcomes DEF Nudge, Executing
<1>7. CASE AskFailed(c)
  BY <1>2, <1>7, Outcomes DEF AskFailed, Executing
<1> QED
  BY <1>3, <1>4, <1>5, <1>6, <1>7

\* A world operation that ends.
LEMMA WorldInherits ==
  ASSUME IInv, HInv, NEW c \in Call, WorldSettles(c)
  PROVE  HInv'
<1>1. c \in Made /\ node[InstanceOf(c)].out = "running"
  <2>1. c \in World /\ phase[c] = "running"
    BY DEF WorldSettles
  <2>2. c \in Made
    BY <2>1 DEF IInv, Phased, Made
  <2> QED
    BY <2>1, <2>2 DEF IInv, Phased, Executed
<1>2. UNCHANGED <<queued, torn, admission, imported, mode>>
  BY DEF WorldSettles, events, cache, history
<1>3. CASE Live
  <2>1. PICK out \in Outcome : node' = [node EXCEPT ![InstanceOf(c)].out = out]
    BY <1>3 DEF WorldSettles
  <2>2. Ends(c, out)
    BY <1>1, <2>1 DEF Ends, WorldSettles
  <2> QED
    BY <1>2, <2>2, EndInherits
<1>4. CASE ~Live
  <2>1. UNCHANGED <<node, queued, torn>>
    BY <1>2, <1>4 DEF WorldSettles
  <2> QED
    BY <1>2, <2>1, SameUndisturbed, UndisturbedStep
<1> QED
  BY <1>3, <1>4

\* A world operation that enters writes no row of an ask.
LEMMA ReadInherits ==
  ASSUME SameAsk, IInv, HInv, NEW c \in Call, ReadWorld(c)
  PROVE  HInv'
<1>1. PICK o, out : Reads(c, o, out)
  BY ReadCases
<1>2. c \in World /\ UNCHANGED <<mode, admission, imported, history>> /\ out \in Outcome \cup {"running"}
      /\ (UNCHANGED node \/ ~Known(node[<<SiteOf[c], o>>]))
  BY <1>1 DEF Reads
<1> DEFINE i0 == <<SiteOf[c], o>>
<1>3. Matches(c, o)
  BY <1>1 DEF Reads, ReadWorld
<1>4. /\ \A i \in Instance : Known(node[i]) => node'[i] = node[i]
      /\ \A i \in Instance : i # i0 => node'[i] = node[i]
      /\ node'[i0].out = out /\ i0 \in Instance
      /\ ~Known(node[i0]) => node'[i0].actor = NoActor
  BY <1>1, ReadRows
<1>5. node[i0].actor = NoActor
  BY <1>2, <1>3, <1>4, WorldPlace
<1>6. node'[i0].actor = NoActor
  BY <1>2, <1>4, <1>5
<1>7. out # "absent"
  BY <1>2, Outcomes
<1>8. queued' \subseteq queued \cup {i0} /\ queued \subseteq queued' /\ queued \subseteq Instance /\ torn' = torn
  <2>1. queued' \in {queued, queued \union {i0}}
    BY <1>1 DEF Reads
  <2> QED
    BY <1>2, <2>1 DEF history, IInv, Types, JournalTyped
<1> HIDE DEF i0
<1>9. Undisturbed
  BY <1>4, <1>5, <1>6, <1>7, <1>8 DEF Undisturbed
<1> QED
  BY <1>2, <1>9, UndisturbedStep

\* Nothing is inherited at the start.
LEMMA InheritsInit == Init => HInv
<1> SUFFICES ASSUME Init PROVE HInv
  OBVIOUS
<1>1. ~Live /\ queued = {}
  BY DEF Init, Live
<1>2. ASSUME NEW a \in Actor PROVE RecordedAsks(a) = {}
  BY Actors DEF RecordedAsks, Init, Absent
<1> QED
  BY <1>1, <1>2 DEF HInv, Written, Seeded, Inherited

\* Every step keeps what was inherited the beginning of its conversation.
LEMMA InheritsStep == SameAsk /\ IInv /\ OInv /\ HInv /\ [Next]_vars => HInv'
<1> SUFFICES ASSUME SameAsk, IInv, OInv, HInv, [Next]_vars PROVE HInv'
  OBVIOUS
<1>1. CASE Launch \/ Resume
  BY <1>1, StartInherits DEF Launch, Resume
<1>2. CASE Crash \/ Reconcile \/ Complete \/ Throw \/ Stop \/ \E c \in Call : InputHashMismatch(c)
  <2>1. UNCHANGED <<node, queued, torn>> /\ ~Live'
    BY <1>2 DEF Crash, Reconcile, Complete, Throw, Stop, InputHashMismatch, SettleRun, FinishRun, TornFinish,
                journal, events, history, Live
  <2> QED
    BY <2>1, SameUndisturbed, UndisturbedEnd
<1>3. ASSUME NEW c \in Call, AdmitAsk(c) PROVE HInv'
  BY <1>3, AdmitInherits
<1>4. ASSUME NEW c \in Call, CrashAdmitting(c) PROVE HInv'
  BY <1>4, CrashInherits
<1>5. ASSUME NEW c \in Call, OpenFails(c) \/ Accept(c) \/ Repair(c) \/ Nudge(c) \/ AskFailed(c) PROVE HInv'
  BY <1>5, ReportInherits
<1>6. ASSUME NEW c \in Call, ReadWorld(c) PROVE HInv'
  BY <1>6, ReadInherits
<1>7. ASSUME NEW c \in Call, WorldSettles(c) PROVE HInv'
  BY <1>7, WorldInherits
<1>8. CASE \/ Deliver \/ UNCHANGED vars \/ \E a \in Actor : SessionOpens(a)
           \/ \E c \in Call : Dispatch(c) \/ Mutating(c)
  <2>1. UNCHANGED <<node, queued, torn>> /\ UNCHANGED <<admission, imported, mode>>
    BY <1>8 DEF Deliver, vars, SessionOpens, Dispatch, Mutating, journal, events, engine, cache, history
  <2> QED
    BY <2>1, SameUndisturbed, UndisturbedStep
<1> QED
  BY <1>1, <1>2, <1>3, <1>4, <1>5, <1>6, <1>7, <1>8 DEF Next

\* What the life has admitted of the inherited rows is as many as the import counts.
LEMMA ConsumedCount ==
  ASSUME IInv, OInv, HInv, ~torn, Live, NEW a \in Actor
  PROVE  imported[a].consumed = Cardinality({i \in Inherited(a) : node[i].seq < admission[a].next})
<1> DEFINE k == imported[a].consumed
           A == {i \in Inherited(a) : node[i].seq < admission[a].next}
           f == [i \in A |-> node[i].seq]
           T == 0..(k - 1)
<1>1. Followed(a)
  BY DEF HInv
<1>2. k \in Nat /\ admission[a].next \in Nat /\ admission[a].count \in Nat
  <2>1. imported \in [Actor -> [consumed : 0..NCalls, diverged : BOOLEAN]] /\ admission[a] \in Admission
    BY WellTyped DEF IInv, TypeOK
  <2>2. k \in 0..NCalls
    BY <2>1
  <2>3. admission[a].next \in 0..NCalls /\ admission[a].count \in 0..NCalls
    BY <2>1 DEF Admission
  <2> HIDE DEF k
  <2> QED
    BY <2>2, <2>3, SizeAssumption
<1>3. k <= admission[a].next
  BY <1>1, <1>2 DEF Followed
<1>4. \A i, j \in RecordedAsks(a) : node[i].seq = node[j].seq => i = j
  BY DEF OInv, Conversing
<1>5. PositionsOf(a) = 0..(Ahead(admission[a]) - 1)
  BY DEF OInv, Claiming
<1>6. ASSUME NEW t \in T PROVE \E i \in A : f[i] = t
  <2>1. t \in PositionsOf(a)
    <3> HIDE DEF k
    <3> QED
      BY <1>2, <1>3, <1>5 DEF Ahead
  <2>2. PICK i \in RecordedAsks(a) : node[i].seq = t
    BY <2>1 DEF PositionsOf
  <2>3. t < k /\ t < admission[a].next
    <3> HIDE DEF k
    <3> QED
      BY <1>2, <1>3
  <2>4. i \in A
    BY <1>1, <2>2, <2>3 DEF Followed
  <2> QED
    BY <2>2, <2>4
<1>7. ASSUME NEW i \in A PROVE f[i] \in T
  <2>1. i \in RecordedAsks(a) /\ node[i].seq < admission[a].next /\ i \in Inherited(a)
    BY DEF Inherited
  <2>2. node[i].seq < k
    BY <1>1, <2>1 DEF Followed
  <2>3. node[i].seq \in 0..(Ahead(admission[a]) - 1)
    BY <1>5, <2>1 DEF PositionsOf
  <2> DEFINE s == node[i].seq
  <2>4. f[i] = s /\ s < k
    BY <2>2
  <2>5. s \in Nat
    BY <2>3
  <2> HIDE DEF k, s, f
  <2> QED
    BY <1>2, <2>4, <2>5
<1>8. \A i, j \in A : f[i] = f[j] => i = j
  BY <1>4 DEF Inherited
<1>9. f = [i \in A |-> f[i]]
  OBVIOUS
<1> HIDE DEF f, A, T, k
<1>10. f \in Bijection(A, T)
  <2>1. f \in [A -> T]
    BY <1>7, <1>9
  <2>2. f \in Injection(A, T)
    BY <1>8, <2>1 DEF Injection, IsInjective
  <2>3. f \in Surjection(A, T)
    BY <1>6, <2>1 DEF Surjection
  <2> QED
    BY <2>2, <2>3 DEF Bijection
<1>11. IsFiniteSet(A)
  <2>1. IsFiniteSet(RecordedAsks(a)) /\ A \subseteq RecordedAsks(a)
    BY CountBound DEF IInv, Types, A, Inherited
  <2> QED
    BY <2>1, FS_Subset
<1>12. ExistsBijection(A, T)
  BY <1>10 DEF ExistsBijection
<1>13. Cardinality(T) = Cardinality(A)
  BY <1>11, <1>12, FS_Bijection
<1>14. k - 1 \in Int /\ 0 \in Int
  BY <1>2
<1>15. Cardinality(T) = IF 0 > k - 1 THEN 0 ELSE k - 1 - 0 + 1
  BY <1>14, FiniteRange DEF T
<1>16. Cardinality(T) = k
  BY <1>2, <1>15
<1> QED
  BY <1>13, <1>16 DEF A, k

\* Unless a crash tore the row of a live ask from its event, an actor inherits the beginning
\* of its predecessor's conversation, nothing behind its first live ask, and its session is
\* seeded with that (reconcileRecorded, takeIfPure): for every script whose asks of one site
\* with one input go to one actor.
THEOREM BeginningsInherited ==
  ASSUME SameAsk
  PROVE  Spec => []InheritsPrefix
<1>1. Init => IInv /\ OInv /\ HInv
  BY InitInv, OrderInit, InheritsInit
<1>2. IInv /\ OInv /\ HInv /\ [Next]_vars => (IInv /\ OInv /\ HInv)'
  BY NextStep, OrderStep, InheritsStep
<1>3. IInv /\ OInv /\ HInv => InheritsPrefix
  <2> SUFFICES ASSUME IInv, OInv, HInv, ~torn, NEW a \in Actor
               PROVE  /\ \A i \in Inherited(a), j \in RecordedAsks(a) :
                           node[j].seq < node[i].seq => j \in Inherited(a)
                      /\ Live => imported[a].consumed =
                                   Cardinality({i \in Inherited(a) : node[i].seq < admission[a].next})
    BY DEF InheritsPrefix
  <2>1. Seeded(a)
    BY DEF HInv
  <2> QED
    BY <2>1, ConsumedCount DEF Seeded
<1> QED
  BY <1>1, <1>2, <1>3, PTL DEF Spec

=============================================================================
