-------------------------- MODULE WorkflowRuns_proofs --------------------------
(* Proofs about the run service, for any number of runs, entries, callers and  *)
(* faults and any limit of the registry: types, that an engine the registry    *)
(* owns stays owned, that a superseded run, once sealed, stays sealed, and that *)
(* a successor that was named comes.                                           *)
EXTENDS WorkflowRuns, TLAPS

\* What a launch does to the registry and the entries, the row aside.
Launched(r, e, slot) ==
  /\ entry[e] = Free
  /\ registry' = [registry EXCEPT ![r] = e]
  /\ entry' = [Dropped(r) EXCEPT ![e] = slot]

LEMMA LaunchMakesAnEntry ==
  ASSUME NEW r \in Run, NEW from \in Run \cup {None}, Launch(r, from)
  PROVE  \E e \in Entry :
           \/ /\ Launched(r, e, [run |-> r, phase |-> "live", outcome |-> None])
              /\ row' = Begun(r, from) /\ UNCHANGED faults
           \/ /\ Launched(r, e, [run |-> r, phase |-> "ended", outcome |-> "failed"])
              /\ row' = row /\ faults < MaxFaults /\ faults' = faults + 1
<1> DEFINE e == CHOOSE x \in Entry : entry[x] = Free
<1>1. e \in Entry /\ entry[e] = Free
  BY DEF Launch
<1>2. \/ /\ Launched(r, e, [run |-> r, phase |-> "live", outcome |-> None])
         /\ row' = Begun(r, from) /\ UNCHANGED faults
      \/ /\ Launched(r, e, [run |-> r, phase |-> "ended", outcome |-> "failed"])
         /\ row' = row /\ faults < MaxFaults /\ faults' = faults + 1
  BY <1>1 DEF Launch, Launched
<1> QED
  BY <1>1, <1>2

LEMMA MintedIsUnused == Unused # {} => Minted \in Unused
  BY DEF Minted

----------------------------------------------------------------------------
(* Types.                                                                    *)

LEMMA LaunchTypes ==
  ASSUME TypeOK, NEW r \in Run, NEW from \in Run \cup {None}, Launch(r, from)
  PROVE  /\ row' \in [Run -> Row] /\ entry' \in [Entry -> Slot]
         /\ registry' \in [Run -> Entry \cup {None}] /\ faults' \in 0 .. MaxFaults
<1>1. PICK e \in Entry :
        \/ /\ Launched(r, e, [run |-> r, phase |-> "live", outcome |-> None])
           /\ row' = Begun(r, from) /\ UNCHANGED faults
        \/ /\ Launched(r, e, [run |-> r, phase |-> "ended", outcome |-> "failed"])
           /\ row' = row /\ faults < MaxFaults /\ faults' = faults + 1
  BY LaunchMakesAnEntry
<1>2. Dropped(r) \in [Entry -> Slot]
  BY DEF TypeOK, Dropped, Slot, Free
<1>3. entry' \in [Entry -> Slot]
  BY <1>1, <1>2 DEF Launched, Slot
<1>4. registry' \in [Run -> Entry \cup {None}]
  BY <1>1 DEF Launched, TypeOK
<1>5. row' \in [Run -> Row]
  <2>1. Begun(r, from) \in [Run -> Row]
    BY DEF Begun, TypeOK, Row
  <2> QED
    BY <1>1, <2>1 DEF TypeOK
<1>6. faults' \in 0 .. MaxFaults
  BY <1>1, RunsAssumption DEF TypeOK
<1> QED
  BY <1>3, <1>4, <1>5, <1>6

LEMMA StopTypes ==
  ASSUME TypeOK, NEW e \in Entry, NEW outcome \in Terminal, NEW by \in Run \cup {None},
         entry[e].run \in Run, Stop(e, outcome, by)
  PROVE  row' \in [Run -> Row] /\ entry' \in [Entry -> Slot]
<1>1. row' \in [Run -> Row]
  <2>1. row[entry[e].run] \in Row
    BY DEF TypeOK
  <2>2. [row[entry[e].run] EXCEPT !.status = outcome, !.by = by] \in Row
    BY <2>1 DEF Row
  <2> QED
    BY <2>2 DEF Stop, Written, TypeOK
<1>2. entry' \in [Entry -> Slot]
  <2>1. entry[e] \in Slot
    BY DEF TypeOK
  <2>2. [entry[e] EXCEPT !.phase = "ended", !.outcome = outcome] \in Slot
    BY <2>1 DEF Slot
  <2> QED
    BY <2>2 DEF Stop, TypeOK
<1> QED
  BY <1>1, <1>2

LEMMA CallOfOne ==
  ASSUME TypeOK, NEW c \in Caller, call[c].stage \in Amending \cup {"rebuilding"}
  PROVE  /\ call[c].run \in Run /\ call[c] # Idle
         /\ call[c].stage \in Amending => call[c].new \in Run
<1>1. call[c] \in Call \cup {Idle}
  BY DEF TypeOK
<1>2. call[c] # Idle
  BY DEF Idle, Amending
<1> QED
  BY <1>1, <1>2 DEF Call, Amending

----------------------------------------------------------------------------
(* The invariant.                                                            *)

\* Every entry in use stands for a run, a registered entry for its own.
Used == \A e \in Entry : entry[e].phase # "free" => entry[e].run \in Run
Registered ==
  \A r \in Run : registry[r] # None =>
    entry[registry[r]].run = r /\ entry[registry[r]].phase # "free"

\* The run of a live engine, and the run a resume is about to launch, have a row.
Rowed == \A e \in Entry : Live(e) => row[entry[e].run].status # "absent"
Rebuilding == \A c \in Caller : call[c].stage = "rebuilding" => row[call[c].run].status # "absent"

\* The id an amendment minted has no row and no entry, and is nobody else's.
Awaited ==
  \A c \in Caller : call[c].stage \in Amending =>
    registry[call[c].new] = None /\ row[call[c].new].status = "absent"
Distinct ==
  \A c, d \in Caller :
    call[c].stage \in Amending /\ call[d].stage \in Amending /\ c # d => call[c].new # call[d].new

IInv == TypeOK /\ Used /\ Registered /\ Rowed /\ Rebuilding /\ Awaited /\ Distinct

LEMMA InitialInvariant == Init => IInv
<1> SUFFICES ASSUME Init PROVE IInv
  OBVIOUS
<1>1. TypeOK
  BY RunsAssumption DEF Init, TypeOK, Row, Slot, Free, Call, Idle
<1>2. Used /\ Registered /\ Rowed
  BY DEF Init, Used, Registered, Rowed, Live, Free
<1>3. Rebuilding /\ Awaited /\ Distinct
  BY DEF Init, Rebuilding, Awaited, Distinct, Idle, Amending
<1> QED
  BY <1>1, <1>2, <1>3 DEF IInv

----------------------------------------------------------------------------
(* What launches and stops do.                                               *)

\* A launch takes a free entry for its run, frees at most the booked one it had, and
\* writes no other row.
LaunchedAs(r, e) ==
  /\ entry[e] = Free /\ registry' = [registry EXCEPT ![r] = e]
  /\ entry'[e].run = r
  /\ \/ entry'[e].phase = "live" /\ row'[r].status = "running"
     \/ entry'[e].phase = "ended" /\ row' = row
  /\ \A x \in Entry \ {e} :
       \/ entry'[x] = entry[x]
       \/ entry'[x] = Free /\ registry[r] = x /\ entry[x].phase = "booked"
  /\ \A s \in Run \ {r} : row'[s] = row[s]

LEMMA LaunchEffect ==
  ASSUME IInv, NEW r \in Run, NEW from \in Run \cup {None}, Launch(r, from)
  PROVE  \E e \in Entry : LaunchedAs(r, e)
<1>1. PICK e \in Entry :
        \/ /\ Launched(r, e, [run |-> r, phase |-> "live", outcome |-> None])
           /\ row' = Begun(r, from) /\ UNCHANGED faults
        \/ /\ Launched(r, e, [run |-> r, phase |-> "ended", outcome |-> "failed"])
           /\ row' = row /\ faults < MaxFaults /\ faults' = faults + 1
  BY LaunchMakesAnEntry
<1>2. entry[e] = Free /\ registry' = [registry EXCEPT ![r] = e]
  BY <1>1 DEF Launched
<1>3. row' = Begun(r, from) => row'[r].status = "running" /\ \A s \in Run \ {r} : row'[s] = row[s]
  BY DEF Begun, IInv, TypeOK
<1>4. /\ entry'[e].run = r
      /\ \/ entry'[e].phase = "live" /\ row' = Begun(r, from)
         \/ entry'[e].phase = "ended" /\ row' = row
  BY <1>1 DEF Launched, Dropped, IInv, TypeOK
<1>5. ASSUME NEW x \in Entry \ {e}, entry'[x] # entry[x]
      PROVE  entry'[x] = Free /\ registry[r] = x /\ entry[x].phase = "booked"
  <2>1. entry'[x] = Dropped(r)[x]
    BY <1>1 DEF Launched, Dropped, IInv, TypeOK
  <2> QED
    BY <1>5, <2>1 DEF Dropped, Engaged, IInv, TypeOK
<1> QED
  BY <1>2, <1>3, <1>4, <1>5 DEF LaunchedAs

\* A launch leaves entries and rows in order, whatever the run had before.
LEMMA LaunchKeeps ==
  ASSUME IInv, NEW r \in Run, NEW e \in Entry, LaunchedAs(r, e)
  PROVE  Used' /\ Registered' /\ Rowed'
<1>1. Used'
  BY DEF LaunchedAs, IInv, Used, Free
<1>2. Registered'
  <2> SUFFICES ASSUME NEW q \in Run, registry'[q] # None
               PROVE  entry'[registry'[q]].run = q /\ entry'[registry'[q]].phase # "free"
    BY DEF Registered
  <2>1. CASE q = r
    BY <2>1 DEF LaunchedAs, IInv, TypeOK
  <2>2. CASE q # r
    <3>1. registry'[q] = registry[q] /\ registry[q] \in Entry
      BY <2>2 DEF LaunchedAs, IInv, TypeOK
    <3>2. entry[registry[q]].run = q /\ entry[registry[q]].phase # "free"
      BY <3>1 DEF IInv, Registered
    <3>3. registry[q] # e /\ registry[q] # registry[r]
      BY <2>2, <3>1, <3>2 DEF LaunchedAs, Free, IInv, Registered
    <3> QED
      BY <3>1, <3>2, <3>3 DEF LaunchedAs
  <2> QED
    BY <2>1, <2>2
<1>3. Rowed'
  <2> SUFFICES ASSUME NEW x \in Entry, entry'[x].phase = "live"
               PROVE  row'[entry'[x].run].status # "absent"
    BY DEF Rowed, Live
  <2>1. CASE x = e
    BY <2>1 DEF LaunchedAs
  <2>2. CASE x # e
    <3>1. entry'[x] = entry[x] /\ Live(x) /\ entry[x].run \in Run
      BY <2>2 DEF LaunchedAs, Free, Live, IInv, Used
    <3>2. row[entry[x].run].status # "absent"
      BY <3>1 DEF IInv, Rowed
    <3> QED
      BY <3>1, <3>2 DEF LaunchedAs
  <2> QED
    BY <2>1, <2>2
<1> QED
  BY <1>1, <1>2, <1>3

\* An engine that stops leaves an entry of its run that is settling, and writes no other row.
LEMMA StopKeeps ==
  ASSUME IInv, NEW e \in Entry, NEW outcome \in Terminal, NEW by \in Run \cup {None},
         Live(e), Stop(e, outcome, by), UNCHANGED registry
  PROVE  /\ row' \in [Run -> Row] /\ entry' \in [Entry -> Slot] /\ entry[e].run \in Run
         /\ Used' /\ Registered' /\ Rowed'
         /\ \A s \in Run \ {entry[e].run} : row'[s] = row[s]
         /\ \A s \in Run : row[s].status = "absent" <=> row'[s].status = "absent"
         /\ \A x \in Entry \ {e} : entry'[x] = entry[x]
         /\ entry'[e].phase = "ended" /\ entry'[e].run = entry[e].run
<1>1. entry[e].run \in Run /\ row[entry[e].run].status # "absent"
  BY DEF IInv, Used, Rowed, Live
<1>2. row' \in [Run -> Row] /\ entry' \in [Entry -> Slot]
  BY <1>1, StopTypes DEF IInv
<1>3. /\ \A x \in Entry \ {e} : entry'[x] = entry[x]
      /\ entry'[e].phase = "ended" /\ entry'[e].run = entry[e].run
  BY DEF Stop, IInv, TypeOK, Slot
<1>4. /\ \A s \in Run \ {entry[e].run} : row'[s] = row[s]
      /\ row'[entry[e].run].status = outcome
  BY <1>1 DEF Stop, Written, IInv, TypeOK, Row
<1>5. \A s \in Run : row[s].status = "absent" <=> row'[s].status = "absent"
  BY <1>1, <1>4 DEF Terminal, Stopped
<1>6. Used'
  BY <1>1, <1>3 DEF IInv, Used
<1>7. Registered'
  <2> SUFFICES ASSUME NEW q \in Run, registry[q] # None
               PROVE  entry'[registry[q]].run = q /\ entry'[registry[q]].phase # "free"
    BY DEF Registered
  <2>1. registry[q] \in Entry /\ entry[registry[q]].run = q /\ entry[registry[q]].phase # "free"
    BY DEF IInv, Registered, TypeOK
  <2> QED
    BY <1>3, <2>1
<1>8. Rowed'
  BY <1>3, <1>5 DEF Rowed, Live, IInv, Used
<1> QED
  BY <1>1, <1>2, <1>3, <1>4, <1>5, <1>6, <1>7, <1>8

\* A step that makes no call, and neither a row nor an entry of a run without, keeps what
\* calls rely on.
LEMMA CallsKept ==
  ASSUME IInv,
         \A s \in Run : row[s].status = "absent" <=> row'[s].status = "absent",
         \A s \in Run : registry[s] = None => registry'[s] = None,
         \A c \in Caller :
           /\ call'[c].stage = "rebuilding" => call'[c] = call[c]
           /\ call'[c].stage \in Amending => call[c].stage \in Amending /\ call'[c].new = call[c].new
  PROVE  Rebuilding' /\ Awaited' /\ Distinct'
<1>1. Rebuilding'
  BY CallOfOne DEF IInv, Rebuilding
<1>2. Awaited'
  BY CallOfOne DEF IInv, Awaited
<1>3. Distinct'
  BY DEF IInv, Distinct
<1> QED
  BY <1>1, <1>2, <1>3

----------------------------------------------------------------------------
(* The steps keep the invariant.                                             *)

\* The launch of an id no amendment on its way has minted, whoever makes it.
LEMMA LaunchStep ==
  ASSUME IInv, NEW r \in Run, NEW from \in Run \cup {None}, Launch(r, from),
         UNCHANGED <<order, service, closing>>, call' \in [Caller -> Call \cup {Idle}],
         \A d \in Caller : call'[d] = call[d] \/ call'[d] = Idle,
         \A d \in Caller : call'[d].stage \in Amending => call'[d].new # r
  PROVE  IInv'
<1>1. PICK e \in Entry : LaunchedAs(r, e)
  BY LaunchEffect
<1>2. TypeOK'
  BY LaunchTypes DEF IInv, TypeOK
<1>3. Used' /\ Registered' /\ Rowed'
  BY <1>1, LaunchKeeps
<1>4. \A d \in Caller : call'[d].stage \in Amending \cup {"rebuilding"} => call'[d] = call[d]
  BY DEF Idle, Amending
<1>5. \A s \in Run : row[s].status # "absent" => row'[s].status # "absent"
  BY <1>1 DEF LaunchedAs
<1>6. Rebuilding'
  BY <1>4, <1>5, CallOfOne DEF IInv, Rebuilding
<1>7. Awaited'
  <2> SUFFICES ASSUME NEW d \in Caller, call'[d].stage \in Amending
               PROVE  registry'[call'[d].new] = None /\ row'[call'[d].new].status = "absent"
    BY DEF Awaited
  <2>1. /\ call'[d] = call[d] /\ call[d].new \in Run \ {r}
        /\ registry[call[d].new] = None /\ row[call[d].new].status = "absent"
    BY <1>4, CallOfOne DEF IInv, Awaited
  <2> QED
    BY <1>1, <2>1 DEF LaunchedAs, IInv, TypeOK
<1>8. Distinct'
  BY <1>4 DEF IInv, Distinct
<1> QED
  BY <1>2, <1>3, <1>6, <1>7, <1>8 DEF IInv

LEMMA SubmitStep == ASSUME IInv, Submit PROVE IInv'
<1>1. Minted \in Unused
  BY MintedIsUnused DEF Submit
<1>2. Launch(Minted, None) /\ UNCHANGED <<order, call, service, closing>>
  BY DEF Submit
<1>3. \A d \in Caller : call[d].stage \in Amending => call[d].new # Minted
  BY <1>1 DEF Unused
<1> QED
  BY <1>1, <1>2, <1>3, LaunchStep DEF Unused, IInv, TypeOK

LEMMA EndStep ==
  ASSUME IInv, (\E e \in Entry : EngineEnds(e)) \/ (\E r \in Run : Cancel(r))
  PROVE  IInv'
<1>1. PICK e \in Entry, outcome \in Terminal :
        Live(e) /\ Stop(e, outcome, None) /\ UNCHANGED <<registry, order, call, service, closing, faults>>
  BY RunsAssumption DEF EngineEnds, Cancel, Terminal, Stopped, IInv, TypeOK
<1>2. TypeOK'
  BY <1>1, StopKeeps DEF IInv, TypeOK
<1>3. Used' /\ Registered' /\ Rowed'
  BY <1>1, StopKeeps
<1>4. \A s \in Run : row[s].status = "absent" <=> row'[s].status = "absent"
  BY <1>1, StopKeeps
<1>5. Rebuilding' /\ Awaited' /\ Distinct'
  BY <1>1, <1>4, CallsKept
<1> QED
  BY <1>2, <1>3, <1>5 DEF IInv

LEMMA BookStep == ASSUME IInv, NEW e \in Entry, Book(e) PROVE IInv'
<1> DEFINE r == entry[e].run
           gone == Evicted(e)
           left == {x \in Entry : entry[x].phase = "booked" /\ \E q \in gone : registry[q] = x}
<1>1. entry[e].phase = "ended" /\ r \in Run
  BY DEF Book, IInv, Used
<1>2. /\ registry' = [x \in Run |-> IF x \in gone THEN None ELSE registry[x]]
      /\ order' = Remembered(r) /\ call' = Resumed(e) /\ closing' = closing \ {e}
      /\ service' = IF service = "closing" /\ closing' = {} THEN "closed" ELSE service
      /\ UNCHANGED <<row, faults>>
  BY DEF Book
<1>3. /\ entry'[e] = IF registry[r] = e /\ r \notin gone THEN [entry[e] EXCEPT !.phase = "booked"] ELSE Free
      /\ \A x \in Entry \ {e} : entry'[x] = IF x \in left THEN Free ELSE entry[x]
      /\ entry' = [x \in Entry |-> entry'[x]]
  BY DEF Book
<1>4. entry'[e].phase \in {"free", "booked"} /\ (entry'[e].phase = "booked" => entry'[e].run = r)
  BY <1>3 DEF Free, IInv, TypeOK, Slot
<1> HIDE DEF r, gone, left
<1>4a. ASSUME NEW x \in Entry, x # e, entry'[x] # entry[x]
       PROVE  entry'[x] = Free /\ x \in left
  BY <1>3, <1>4a
<1>5. TypeOK'
  <2>1. entry' \in [Entry -> Slot]
    <3>1. entry'[e] \in Slot
      BY <1>3 DEF IInv, TypeOK, Slot, Free
    <3>2. \A x \in Entry \ {e} : entry'[x] \in Slot
      BY <1>3 DEF IInv, TypeOK, Slot, Free
    <3> QED
      BY <1>3, <3>1, <3>2
  <2>2. registry' \in [Run -> Entry \cup {None}]
    BY <1>2 DEF IInv, TypeOK
  <2>3. order' \in Seq(Run) /\ Len(order') <= TerminalLimit
    BY <1>1, <1>2, RunsAssumption DEF Remembered, IInv, TypeOK
  <2>4. call' \in [Caller -> Call \cup {Idle}]
    BY <1>2 DEF Resumed, IInv, TypeOK, Call, Idle
  <2>5. service' \in {"open", "closing", "closed", "down"} /\ closing' \subseteq Entry
    BY <1>2 DEF IInv, TypeOK
  <2> QED
    BY <1>2, <2>1, <2>2, <2>3, <2>4, <2>5 DEF IInv, TypeOK
<1>6. Used'
  BY <1>1, <1>4, <1>4a DEF IInv, Used, Free
\* What the registry still refers to was not at the head of the order.
<1>7. ASSUME NEW q \in Run, registry'[q] # None
      PROVE  /\ registry'[q] = registry[q] /\ registry[q] \in Entry /\ q \notin gone
             /\ entry[registry[q]].run = q /\ entry[registry[q]].phase # "free"
             /\ registry[q] \notin left
  <2>1. q \notin gone /\ registry'[q] = registry[q] /\ registry[q] \in Entry
    BY <1>2, <1>7 DEF IInv, TypeOK
  <2>2. entry[registry[q]].run = q /\ entry[registry[q]].phase # "free"
    BY <2>1, <1>7 DEF IInv, Registered
  <2>3. ASSUME registry[q] \in left PROVE FALSE
    <3>1. PICK x \in gone : registry[x] = registry[q]
      BY <2>3 DEF left
    <3>2. x \in Run /\ x # q
      BY <2>1, <3>1, RunsAssumption DEF gone, Evicted, IInv, TypeOK
    <3>3. registry[x] # None
      BY <2>1, <3>1, RunsAssumption
    <3> QED
      BY <2>2, <3>1, <3>2, <3>3 DEF IInv, Registered
  <2> QED
    BY <2>1, <2>2, <2>3
<1>8. Registered'
  <2> SUFFICES ASSUME NEW q \in Run, registry'[q] # None
               PROVE  entry'[registry'[q]].run = q /\ entry'[registry'[q]].phase # "free"
    BY DEF Registered
  <2>1. CASE registry[q] = e
    <3>1. q = r /\ r \notin gone /\ registry[r] = e
      BY <1>7, <2>1 DEF r
    <3>2. entry'[e] = [entry[e] EXCEPT !.phase = "booked"]
      BY <1>3, <3>1
    <3> QED
      BY <1>7, <2>1, <3>2 DEF IInv, TypeOK, Slot
  <2>2. CASE registry[q] # e
    BY <1>3, <1>7, <2>2
  <2> QED
    BY <2>1, <2>2
<1>9. Rowed'
  <2>1. \A x \in Entry : entry'[x].phase = "live" => entry'[x] = entry[x]
    BY <1>4, <1>4a DEF Free
  <2> QED
    BY <1>2, <2>1 DEF IInv, Rowed, Live
<1>10. \A c \in Caller :
         /\ call'[c].stage = "rebuilding" => call'[c] = call[c]
         /\ call'[c].stage \in Amending => call[c].stage \in Amending /\ call'[c].new = call[c].new
  BY <1>2 DEF Resumed, Amending
<1>11. Rebuilding' /\ Awaited' /\ Distinct'
  BY <1>2, <1>10, CallsKept
<1> QED
  BY <1>5, <1>6, <1>8, <1>9, <1>11 DEF IInv

LEMMA EntriesKept ==
  ASSUME IInv, UNCHANGED <<row, entry, registry>>
  PROVE  Used' /\ Registered' /\ Rowed'
BY DEF IInv, Used, Registered, Rowed, Live

LEMMA ResumeStep == ASSUME IInv, NEW c \in Caller, NEW r \in Run, Resume(c, r) PROVE IInv'
<1>1. /\ call[c] = Idle /\ UNCHANGED <<order, service, closing>>
      /\ row[r].status \in {"user", "interrupted"}
  BY DEF Resume, Resumable
<1>2. CASE row[r].from = None
  <2>1. Launch(r, None) /\ UNCHANGED call
    BY <1>2 DEF Resume
  <2>2. \A d \in Caller : call[d].stage \in Amending => call[d].new # r
    BY <1>1 DEF IInv, Awaited
  <2> QED
    BY <1>1, <2>1, <2>2, LaunchStep DEF IInv, TypeOK
<1>3. CASE row[r].from # None
  <2> DEFINE waiting == [stage |-> "rebuilding", run |-> r]
  <2>1. /\ call' = [call EXCEPT ![c] = waiting] /\ UNCHANGED <<row, entry, registry, faults>>
    BY <1>3 DEF Resume
  <2>2. call'[c] = waiting /\ \A d \in Caller \ {c} : call'[d] = call[d]
    BY <2>1 DEF IInv, TypeOK
  <2>3. TypeOK'
    BY <1>1, <2>1 DEF IInv, TypeOK, Call
  <2>4. Rebuilding'
    BY <1>1, <2>1, <2>2 DEF IInv, Rebuilding
  <2>5. Awaited'
    BY <2>1, <2>2 DEF IInv, Awaited, Amending
  <2>6. Distinct'
    BY <2>2 DEF IInv, Distinct, Amending
  <2> QED
    BY <2>1, <2>3, <2>4, <2>5, <2>6, EntriesKept DEF IInv
<1> QED
  BY <1>2, <1>3

LEMMA RebuiltStep == ASSUME IInv, NEW c \in Caller, Rebuilt(c) PROVE IInv'
<1>1. /\ call[c].stage = "rebuilding" /\ Launch(call[c].run, None)
      /\ call' = [call EXCEPT ![c] = Idle] /\ UNCHANGED <<order, service, closing>>
  BY DEF Rebuilt
<1>2. call[c].run \in Run /\ row[call[c].run].status # "absent"
  BY <1>1, CallOfOne DEF IInv, Rebuilding
<1>3. /\ call' \in [Caller -> Call \cup {Idle}]
      /\ \A d \in Caller : call'[d] = call[d] \/ call'[d] = Idle
  BY <1>1 DEF IInv, TypeOK
<1>4. \A d \in Caller : call'[d].stage \in Amending => call'[d].new # call[c].run
  BY <1>2, <1>3 DEF IInv, Awaited, Idle, Amending
<1> QED
  BY <1>1, <1>2, <1>3, <1>4, LaunchStep

LEMMA BuiltStep == ASSUME IInv, NEW c \in Caller, Built(c) PROVE IInv'
<1>1. /\ call[c].stage = "building" /\ Launch(call[c].new, call[c].run)
      /\ call' = [call EXCEPT ![c] = Idle] /\ UNCHANGED <<order, service, closing>>
  BY DEF Built
<1>2. call[c].new \in Run /\ call[c].run \in Run
  BY <1>1, CallOfOne DEF IInv, Amending
<1>3. /\ call' \in [Caller -> Call \cup {Idle}] /\ call'[c] = Idle
      /\ \A d \in Caller \ {c} : call'[d] = call[d]
  BY <1>1 DEF IInv, TypeOK
<1>4. \A d \in Caller : call'[d].stage \in Amending => call'[d].new # call[c].new
  BY <1>1, <1>3 DEF IInv, Distinct, Idle, Amending
<1> QED
  BY <1>1, <1>2, <1>3, <1>4, LaunchStep

LEMMA ImportStep == ASSUME IInv, NEW c \in Caller, Import(c) PROVE IInv'
<1>1. /\ call[c].stage = "importing"
      /\ UNCHANGED <<row, entry, registry, order, service, closing, faults>>
      /\ \/ call' = [call EXCEPT ![c] = [@ EXCEPT !.stage = "building"]]
         \/ call' = [call EXCEPT ![c] = Idle]
  BY DEF Import
<1>2. call[c] \in [stage : {"importing", "building"}, run : Run, new : Run]
  BY <1>1 DEF IInv, TypeOK, Call, Idle
<1>3. DEFINE next == [stage |-> "building", run |-> call[c].run, new |-> call[c].new]
<1>4. [call[c] EXCEPT !.stage = "building"] = next
  BY <1>2
<1>5. call' = [call EXCEPT ![c] = next] \/ call' = [call EXCEPT ![c] = Idle]
  BY <1>1, <1>4 DEF IInv, TypeOK
<1>6. TypeOK'
  BY <1>1, <1>2, <1>5 DEF IInv, TypeOK, Call
<1>7. \A d \in Caller :
        /\ call'[d].stage = "rebuilding" => call'[d] = call[d]
        /\ call'[d].stage \in Amending => call[d].stage \in Amending /\ call'[d].new = call[d].new
  BY <1>1, <1>5 DEF IInv, TypeOK, Amending, Idle
<1>8. Rebuilding' /\ Awaited' /\ Distinct'
  BY <1>1, <1>7, CallsKept
<1> QED
  BY <1>1, <1>6, <1>8, EntriesKept DEF IInv

LEMMA AmendStep ==
  ASSUME IInv, NEW c \in Caller, NEW r \in Run, Amend(c, r)
  PROVE  IInv'
<1>1. /\ call[c] = Idle /\ service = "open" /\ Minted \in Unused
      /\ UNCHANGED <<registry, order, service, closing, faults>>
  BY MintedIsUnused DEF Amend
<1>2. Minted \in Run /\ registry[Minted] = None /\ row[Minted].status = "absent"
  BY <1>1 DEF Unused
<1>3. \A d \in Caller : call[d].stage \in Amending => call[d].new # Minted
  BY <1>1 DEF Unused
<1>4. \E waiting \in Call :
        /\ call' = [call EXCEPT ![c] = waiting]
        /\ waiting.stage \in Amending /\ waiting.new = Minted
  <2>1. CASE Engaged(r)
    <3> DEFINE waiting == [stage |-> "settling", run |-> r, new |-> Minted, entry |-> registry[r]]
    <3>1. registry[r] \in Entry
      BY <2>1 DEF Engaged, IInv, TypeOK
    <3>2. waiting \in Call /\ waiting.stage \in Amending /\ waiting.new = Minted
      BY <1>2, <3>1 DEF Call, Amending
    <3>3. call' = [call EXCEPT ![c] = waiting]
      BY <2>1 DEF Amend
    <3> QED
      BY <3>2, <3>3
  <2>2. CASE ~Engaged(r)
    <3> DEFINE waiting == [stage |-> "building", run |-> r, new |-> Minted]
    <3>1. waiting \in Call /\ waiting.stage \in Amending /\ waiting.new = Minted
      BY <1>2 DEF Call, Amending
    <3>2. call' = [call EXCEPT ![c] = waiting]
      BY <2>2 DEF Amend
    <3> QED
      BY <3>1, <3>2
  <2> QED
    BY <2>1, <2>2
<1>5. \/ UNCHANGED <<row, entry>>
      \/ Engaged(r) /\ Live(registry[r]) /\ Stop(registry[r], "superseded", Minted)
  BY DEF Amend
<1>6. /\ row' \in [Run -> Row] /\ entry' \in [Entry -> Slot] /\ Used' /\ Registered' /\ Rowed'
      /\ \A s \in Run : row[s].status = "absent" <=> row'[s].status = "absent"
  <2>1. CASE UNCHANGED <<row, entry>>
    BY <1>1, <2>1, EntriesKept DEF IInv, TypeOK
  <2>2. CASE Engaged(r) /\ Live(registry[r]) /\ Stop(registry[r], "superseded", Minted)
    <3>1. registry[r] \in Entry /\ "superseded" \in Terminal
      BY <2>2 DEF Engaged, IInv, TypeOK, Terminal, Stopped
    <3> QED
      BY <1>1, <1>2, <2>2, <3>1, StopKeeps
  <2> QED
    BY <1>5, <2>1, <2>2
<1>7. TypeOK'
  BY <1>1, <1>4, <1>6 DEF IInv, TypeOK
<1>8. /\ call'[c].stage \in Amending /\ call'[c].new = Minted
      /\ \A d \in Caller \ {c} : call'[d] = call[d]
  BY <1>4 DEF IInv, TypeOK
<1>9. Rebuilding'
  BY <1>6, <1>8, CallOfOne DEF IInv, Rebuilding, Amending
<1>10. Awaited'
  BY <1>1, <1>2, <1>6, <1>8, CallOfOne DEF IInv, Awaited
<1>11. Distinct'
  BY <1>3, <1>8 DEF IInv, Distinct
<1> QED
  BY <1>6, <1>7, <1>9, <1>10, <1>11 DEF IInv

\* What a graceful shutdown writes over a row and a slot has their types.
LEMMA InterruptedRow ==
  ASSUME NEW old \in Row
  PROVE  [old EXCEPT !.status = "interrupted", !.by = None] \in Row
  BY DEF Row, Terminal, Stopped

LEMMA InterruptedSlot ==
  ASSUME NEW old \in Slot
  PROVE  LET new == [old EXCEPT !.phase = "ended", !.outcome = "interrupted"]
         IN  new \in Slot /\ new.run = old.run /\ new.phase = "ended"
  BY DEF Slot, Terminal, Stopped

\* close stops what the registry says is running, each engine with the row of its run.
LEMMA CloseEffect ==
  ASSUME IInv, Close
  PROVE  /\ row' \in [Run -> Row] /\ entry' \in [Entry -> Slot] /\ closing' \subseteq Entry
         /\ \A e \in Entry :
              \/ entry'[e] = entry[e]
              \/ Live(e) /\ entry'[e].run = entry[e].run /\ entry'[e].phase = "ended"
         /\ \A e \in Entry : Owned(e) => entry'[e].phase = "ended"
         /\ \A s \in Run :
              \/ row'[s] = row[s]
              \/ /\ row'[s].status = "interrupted"
                 /\ \E e \in Entry : Live(e) /\ entry[e].run = s
<1> DEFINE engaged == {r \in Run : Engaged(r)}
           stopped == {r \in engaged : Live(registry[r])}
<1>1. /\ row' = [r \in Run |->
           IF r \in stopped THEN [row[r] EXCEPT !.status = "interrupted", !.by = None] ELSE row[r]]
      /\ entry' = [e \in Entry |->
           IF \E r \in stopped : registry[r] = e
           THEN [entry[e] EXCEPT !.phase = "ended", !.outcome = "interrupted"] ELSE entry[e]]
      /\ closing' = {registry[r] : r \in engaged}
  BY DEF Close
<1>2. closing' \subseteq Entry
  BY <1>1 DEF Engaged, IInv, TypeOK
<1>3. \A r \in stopped : registry[r] \in Entry /\ Live(registry[r]) /\ entry[registry[r]].run = r
  BY DEF Engaged, IInv, Registered, TypeOK
<1>4. \A e \in Entry : Owned(e) => \E r \in stopped : registry[r] = e
  <2> SUFFICES ASSUME NEW e \in Entry, Owned(e) PROVE entry[e].run \in stopped /\ registry[entry[e].run] = e
    OBVIOUS
  <2> QED
    BY RunsAssumption DEF Owned, Live, Engaged, IInv, Used
<1> HIDE DEF engaged, stopped
<1>5. \A e \in Entry :
        \/ /\ \E r \in stopped : registry[r] = e
           /\ entry'[e] \in Slot /\ entry'[e].run = entry[e].run /\ entry'[e].phase = "ended"
        \/ entry'[e] = entry[e] /\ entry'[e] \in Slot /\ ~\E r \in stopped : registry[r] = e
  <2> SUFFICES ASSUME NEW e \in Entry
               PROVE  \/ /\ \E r \in stopped : registry[r] = e
                         /\ entry'[e] \in Slot /\ entry'[e].run = entry[e].run /\ entry'[e].phase = "ended"
                      \/ entry'[e] = entry[e] /\ entry'[e] \in Slot /\ ~\E r \in stopped : registry[r] = e
    OBVIOUS
  <2>1. entry[e] \in Slot
    BY DEF IInv, TypeOK
  <2>2. entry'[e] = IF \E r \in stopped : registry[r] = e
                    THEN [entry[e] EXCEPT !.phase = "ended", !.outcome = "interrupted"] ELSE entry[e]
    BY <1>1
  <2> QED
    BY <2>1, <2>2, InterruptedSlot
<1>6. \A s \in Run :
        /\ row'[s] \in Row
        /\ \/ row'[s] = row[s]
           \/ s \in stopped /\ row'[s].status = "interrupted"
  <2> SUFFICES ASSUME NEW s \in Run
               PROVE  /\ row'[s] \in Row
                      /\ \/ row'[s] = row[s]
                         \/ s \in stopped /\ row'[s].status = "interrupted"
    OBVIOUS
  <2>1. row[s] \in Row
    BY DEF IInv, TypeOK
  <2>2. row'[s] = IF s \in stopped THEN [row[s] EXCEPT !.status = "interrupted", !.by = None] ELSE row[s]
    BY <1>1
  <2>3. [row[s] EXCEPT !.status = "interrupted", !.by = None].status = "interrupted"
    BY <2>1 DEF Row
  <2>4. [row[s] EXCEPT !.status = "interrupted", !.by = None] \in Row
    BY <2>1, InterruptedRow
  <2>5. CASE s \in stopped
    BY <2>2, <2>3, <2>4, <2>5
  <2>6. CASE s \notin stopped
    BY <2>1, <2>2, <2>6
  <2> QED
    BY <2>5, <2>6
<1>7. row' \in [Run -> Row] /\ entry' \in [Entry -> Slot]
  BY <1>1, <1>5, <1>6
<1> QED
  BY <1>2, <1>3, <1>4, <1>5, <1>6, <1>7

LEMMA CloseStep == ASSUME IInv, Close PROVE IInv'
<1>1. UNCHANGED <<registry, order, call, faults>> /\ service' \in {"closed", "closing"}
  BY DEF Close
<1>2. \A e \in Entry : /\ entry'[e].run = entry[e].run
                       /\ entry'[e].phase = entry[e].phase
                            \/ (entry[e].phase = "live" /\ entry'[e].phase = "ended")
  BY CloseEffect DEF Live
<1>3. \A s \in Run : row[s].status = "absent" <=> row'[s].status = "absent"
  BY CloseEffect DEF IInv, Rowed
<1>4. TypeOK'
  BY <1>1, CloseEffect DEF IInv, TypeOK
<1>5. Used'
  BY <1>2 DEF IInv, Used
<1>6. Registered'
  <2> SUFFICES ASSUME NEW r \in Run, registry[r] # None
               PROVE  entry'[registry[r]].run = r /\ entry'[registry[r]].phase # "free"
    BY <1>1 DEF Registered
  <2>1. registry[r] \in Entry /\ entry[registry[r]].run = r /\ entry[registry[r]].phase # "free"
    BY DEF IInv, Registered, TypeOK
  <2> QED
    BY <1>2, <2>1
<1>7. Rowed'
  <2> SUFFICES ASSUME NEW e \in Entry, entry'[e].phase = "live"
               PROVE  row'[entry'[e].run].status # "absent"
    BY DEF Rowed, Live
  <2>1. Live(e) /\ entry[e].run \in Run /\ entry'[e].run = entry[e].run
    BY <1>2 DEF Live, IInv, Used
  <2> QED
    BY <1>3, <2>1 DEF IInv, Rowed
<1>8. Rebuilding' /\ Awaited' /\ Distinct'
  BY <1>1, <1>3, CallsKept
<1> QED
  BY <1>4, <1>5, <1>6, <1>7, <1>8 DEF IInv

\* A new instance, or none: no entry and no call is left, and no row is lost.
LEMMA AnewEffect ==
  ASSUME IInv, Activate \/ Crash
  PROVE  /\ entry' = [e \in Entry |-> Free] /\ registry' = [r \in Run |-> None] /\ order' = <<>>
         /\ \A c \in Caller : call'[c] = Idle
         /\ call' \in [Caller -> Call \cup {Idle}] /\ row' \in {row, Reconciled}
         /\ service' \in {"open", "down"} /\ closing' \in {closing, {}}
         /\ faults' \in 0 .. MaxFaults
<1>1. faults \in 0 .. MaxFaults /\ call \in [Caller -> Call \cup {Idle}]
  BY DEF IInv, TypeOK
<1>2. CASE Activate
  BY <1>1, <1>2 DEF Activate
<1>3. CASE Crash
  BY <1>1, <1>3, RunsAssumption DEF Crash
<1> QED
  BY <1>2, <1>3

LEMMA AnewStep == ASSUME IInv, Activate \/ Crash PROVE IInv'
<1>1. TypeOK'
  <2>1. Reconciled \in [Run -> Row]
    BY DEF Reconciled, IInv, TypeOK, Row, Terminal, Stopped
  <2>2. entry' \in [Entry -> Slot]
    BY AnewEffect DEF Slot, Free
  <2>3. registry' \in [Run -> Entry \cup {None}] /\ closing' \subseteq Entry
    <3>1. registry' = [r \in Run |-> None] /\ closing' \in {closing, {}}
      BY AnewEffect
    <3>2. closing \subseteq Entry
      BY DEF IInv, TypeOK
    <3> QED
      BY <3>1, <3>2
  <2>4. order' \in Seq(Run) /\ Len(order') <= TerminalLimit
    <3>1. order' = <<>>
      BY AnewEffect
    <3> QED
      BY <3>1, RunsAssumption
  <2>5. row' \in [Run -> Row]
    BY <2>1, AnewEffect DEF IInv, TypeOK
  <2>6. /\ call' \in [Caller -> Call \cup {Idle}] /\ faults' \in 0 .. MaxFaults
        /\ service' \in {"open", "closing", "closed", "down"}
    BY AnewEffect
  <2> QED
    BY <2>2, <2>3, <2>4, <2>5, <2>6 DEF TypeOK
<1>2. Used' /\ Registered' /\ Rowed'
  BY AnewEffect DEF Used, Registered, Rowed, Live, Free
<1>3. Rebuilding' /\ Awaited' /\ Distinct'
  BY AnewEffect DEF Rebuilding, Awaited, Distinct, Idle, Amending
<1> QED
  BY <1>1, <1>2, <1>3 DEF IInv

LEMMA ForeignStep == ASSUME IInv, Foreign PROVE IInv'
<1>1. /\ row' = Reconciled /\ UNCHANGED <<entry, registry, order, call, closing, service>>
      /\ faults < MaxFaults /\ faults' = faults + 1
  BY DEF Foreign, volatile
<1>2. \A r \in Run : row[r].status = "absent" <=> row'[r].status = "absent"
  BY <1>1 DEF Reconciled, IInv, TypeOK, Row
<1>3. TypeOK'
  <2>1. row' \in [Run -> Row]
    BY <1>1 DEF Reconciled, IInv, TypeOK, Row, Terminal, Stopped
  <2> QED
    BY <1>1, <2>1, RunsAssumption DEF IInv, TypeOK
<1>4. Used' /\ Registered'
  BY <1>1 DEF IInv, Used, Registered
<1>5. Rowed'
  BY <1>1, <1>2 DEF IInv, Used, Rowed, Live
<1>6. Rebuilding' /\ Awaited' /\ Distinct'
  BY <1>1, <1>2, CallsKept
<1> QED
  BY <1>3, <1>4, <1>5, <1>6 DEF IInv

LEMMA StutterStep == ASSUME IInv, UNCHANGED vars PROVE IInv'
<1>1. UNCHANGED <<row, entry, registry, order, call, service, closing, faults>>
  BY DEF vars
<1>2. TypeOK' /\ Rebuilding' /\ Awaited' /\ Distinct'
  BY <1>1 DEF IInv, TypeOK, Rebuilding, Awaited, Distinct
<1> QED
  BY <1>1, <1>2, EntriesKept DEF IInv

LEMMA InvariantStep == IInv /\ [Next]_vars => IInv'
<1> SUFFICES ASSUME IInv, [Next]_vars PROVE IInv'
  OBVIOUS
<1>1. CASE Submit
  BY <1>1, SubmitStep
<1>2. CASE Close
  BY <1>2, CloseStep
<1>3. CASE Activate \/ Crash
  BY <1>3, AnewStep
<1>4. CASE Foreign
  BY <1>4, ForeignStep
<1>5. CASE (\E e \in Entry : EngineEnds(e)) \/ (\E r \in Run : Cancel(r))
  BY <1>5, EndStep
<1>6. CASE \E e \in Entry : Book(e)
  BY <1>6, BookStep
<1>7. CASE \E c \in Caller, r \in Run : Resume(c, r) \/ Amend(c, r)
  BY <1>7, ResumeStep, AmendStep
<1>8. CASE \E c \in Caller : Rebuilt(c) \/ Import(c) \/ Built(c)
  BY <1>8, RebuiltStep, ImportStep, BuiltStep
<1>9. CASE UNCHANGED vars
  BY <1>9, StutterStep
<1> QED
  BY <1>1, <1>2, <1>3, <1>4, <1>5, <1>6, <1>7, <1>8, <1>9 DEF Next

LEMMA Invariance == Spec => []IInv
  BY InitialInvariant, InvariantStep, PTL DEF Spec

\* Runs, entries, registry, order and calls have their types, and the registry remembers
\* no more settlements than its limit.
THEOREM TypeCorrect == Spec => []TypeOK
  BY Invariance, PTL DEF IInv

----------------------------------------------------------------------------
(* An engine that is owned stays so.                                         *)

\* The launch of another run leaves an owned engine its entry.
LEMMA LaunchSparesOwner ==
  ASSUME IInv, NEW r \in Run, NEW from \in Run \cup {None}, Launch(r, from), UNCHANGED service,
         NEW e \in Entry, Owned(e), entry[e].run # r
  PROVE  Owned(e)'
<1>1. PICK x \in Entry : LaunchedAs(r, x)
  BY LaunchEffect
<1>2. entry[e].run \in Run /\ e # x /\ entry[e].phase # "booked"
  BY <1>1 DEF LaunchedAs, Owned, Live, Free, IInv, Used
<1>3. entry'[e] = entry[e]
  BY <1>1, <1>2 DEF LaunchedAs
<1> QED
  BY <1>1, <1>2, <1>3 DEF LaunchedAs, Owned, Live, IInv, TypeOK

\* A run whose engine is owned has an entry, a row and is engaged.
LEMMA OwnedEngages ==
  ASSUME IInv, NEW e \in Entry, Owned(e)
  PROVE  /\ entry[e].run \in Run /\ Engaged(entry[e].run) /\ registry[entry[e].run] # None
         /\ row[entry[e].run].status # "absent"
  BY RunsAssumption DEF Owned, Live, Engaged, IInv, Used, Rowed

LEMMA OwnedStop ==
  ASSUME IInv, NEW e \in Entry, Owned(e), UNCHANGED <<registry, service>>, NEW x \in Entry, Live(x),
         NEW outcome \in Terminal, NEW by \in Run \cup {None}, Stop(x, outcome, by), Live(e)'
  PROVE  Owned(e)'
  BY StopKeeps DEF Owned, Live

\* No eviction takes the entry of a live engine: it is engaged.
LEMMA OwnedBook ==
  ASSUME IInv, NEW e \in Entry, Owned(e), NEW x \in Entry, Book(x)
  PROVE  Owned(e)'
<1> DEFINE gone == Evicted(x)
           left == {y \in Entry : entry[y].phase = "booked" /\ \E q \in gone : registry[q] = y}
<1>1. /\ entry[x].phase = "ended" /\ registry' = [q \in Run |-> IF q \in gone THEN None ELSE registry[q]]
      /\ service' = IF service = "closing" /\ closing' = {} THEN "closed" ELSE service
      /\ e # x => entry'[e] = IF e \in left THEN Free ELSE entry[e]
  BY DEF Book
<1>2. e # x /\ e \notin left /\ service = "open"
  BY <1>1 DEF Owned, Live
<1>3. entry[e].run \in Run /\ Engaged(entry[e].run) /\ registry[entry[e].run] = e
  BY OwnedEngages DEF Owned
<1>4. entry[e].run \notin gone
  BY <1>2, <1>3 DEF Evicted
<1> HIDE DEF gone, left
<1>5. entry'[e] = entry[e] /\ service' = "open" /\ registry'[entry[e].run] = e
  BY <1>1, <1>2, <1>3, <1>4
<1> QED
  BY <1>5 DEF Owned, Live

LEMMA OwnedStep ==
  ASSUME IInv, Next, NEW e \in Entry, Owned(e), Live(e)'
  PROVE  Owned(e)' \/ LaunchedUnder(e)
<1>1. CASE Submit
  <2>1. Minted \in Run /\ registry[Minted] = None /\ Launch(Minted, None) /\ UNCHANGED service
    BY <1>1, MintedIsUnused DEF Submit, Unused
  <2> QED
    BY <2>1, OwnedEngages, LaunchSparesOwner
<1>2. CASE Close
  BY <1>2, CloseEffect DEF Live
<1>3. CASE Activate \/ Crash
  BY <1>3, AnewEffect DEF Live, Free
<1>4. CASE Foreign \/ \E c \in Caller : Import(c)
  BY <1>4 DEF Foreign, Import, volatile, Owned, Live
<1>5. CASE (\E x \in Entry : EngineEnds(x)) \/ (\E r \in Run : Cancel(r))
  <2>1. PICK x \in Entry, outcome \in Terminal :
          Live(x) /\ Stop(x, outcome, None) /\ UNCHANGED <<registry, service>>
    BY <1>5, RunsAssumption DEF EngineEnds, Cancel, Terminal, Stopped, IInv, TypeOK
  <2> QED
    BY <2>1, OwnedStop
<1>6. CASE \E x \in Entry : Book(x)
  BY <1>6, OwnedBook
\* The gate of a resume sees that the run is engaged.
<1>7. CASE \E c \in Caller, r \in Run : Resume(c, r)
  <2>1. PICK c \in Caller, r \in Run : Resume(c, r)
    BY <1>7
  <2>2. /\ ~Engaged(r) /\ UNCHANGED service
        /\ Launch(r, None) \/ UNCHANGED <<row, entry, registry>>
    BY <2>1 DEF Resume, Resumable
  <2>3. entry[e].run # r
    BY <2>2, OwnedEngages
  <2>4. CASE UNCHANGED <<row, entry, registry>>
    BY <2>2, <2>4 DEF Owned, Live
  <2> QED
    BY <2>2, <2>3, <2>4, LaunchSparesOwner
\* The gate of this one was passed earlier.
<1>8. CASE \E c \in Caller : Rebuilt(c)
  <2>1. PICK c \in Caller : Rebuilt(c)
    BY <1>8
  <2>2. /\ call[c].stage = "rebuilding" /\ Launch(call[c].run, None) /\ UNCHANGED service
        /\ call'[c] = Idle /\ call[c].run \in Run
    BY <2>1, CallOfOne DEF Rebuilt, IInv, TypeOK
  <2>3. CASE entry[e].run # call[c].run
    BY <2>2, <2>3, LaunchSparesOwner
  <2>4. CASE entry[e].run = call[c].run
    <3>1. call[c] \in Call
      BY <2>2 DEF IInv, TypeOK, Idle
    <3>2. call[c] = [stage |-> "rebuilding", run |-> entry[e].run]
      BY <2>2, <2>4, <3>1 DEF Call
    <3> QED
      BY <2>2, <3>2 DEF LaunchedUnder
  <2> QED
    BY <2>3, <2>4
<1>9. CASE \E c \in Caller : Built(c)
  <2>1. PICK c \in Caller : Built(c)
    BY <1>9
  <2>2. call[c].stage = "building" /\ Launch(call[c].new, call[c].run) /\ UNCHANGED service
    BY <2>1 DEF Built
  <2>3. call[c].new \in Run /\ call[c].run \in Run /\ registry[call[c].new] = None
    BY <2>2, CallOfOne DEF IInv, Awaited, Amending
  <2> QED
    BY <2>2, <2>3, OwnedEngages, LaunchSparesOwner
<1>10. CASE \E c \in Caller, r \in Run : Amend(c, r)
  <2>1. PICK c \in Caller, r \in Run : Amend(c, r)
    BY <1>10
  <2>2. /\ Minted \in Run /\ UNCHANGED <<registry, service>>
        /\ \/ UNCHANGED <<row, entry>>
           \/ Engaged(r) /\ Live(registry[r]) /\ Stop(registry[r], "superseded", Minted)
    BY <2>1, MintedIsUnused DEF Amend, Unused
  <2>3. CASE UNCHANGED <<row, entry>>
    BY <2>2, <2>3 DEF Owned, Live
  <2>4. CASE Engaged(r) /\ Live(registry[r]) /\ Stop(registry[r], "superseded", Minted)
    <3>1. registry[r] \in Entry /\ "superseded" \in Terminal
      BY <2>4 DEF Engaged, IInv, TypeOK, Terminal, Stopped
    <3> QED
      BY <2>2, <2>4, <3>1, OwnedStop
  <2> QED
    BY <2>2, <2>3, <2>4
<1> QED
  BY <1>1, <1>2, <1>3, <1>4, <1>5, <1>6, <1>7, <1>8, <1>9, <1>10 DEF Next

\* With any number of callers, and with a close at any moment: an engine the registry owns
\* is owned until it stops, unless a resume that passed its gate in another state launches
\* its run.
THEOREM EnginesStayOwned == Spec => EngineStaysOwned
<1>1. ASSUME IInv, [Next]_vars
      PROVE  [\A e \in Entry : Owned(e) /\ Live(e)' => Owned(e)' \/ LaunchedUnder(e)]_vars
  BY <1>1, OwnedStep
<1> QED
  BY <1>1, Invariance, PTL DEF Spec, EngineStaysOwned

----------------------------------------------------------------------------
(* A sealed run stays sealed.                                                *)

LEMMA SealedLaunch ==
  ASSUME IInv, NEW r \in Run, NEW from \in Run \cup {None}, Launch(r, from),
         NEW s \in Run, s # r, Sealed(s),
         \A c \in Caller : call'[c].stage = "rebuilding" => call'[c] = call[c]
  PROVE  Sealed(s)' /\ row'[s] = row[s]
<1>1. PICK x \in Entry : LaunchedAs(r, x)
  BY LaunchEffect
<1>2. \A e \in Entry : entry'[e].phase = "live" => entry'[e].run # s
  BY <1>1 DEF LaunchedAs, Sealed, Live, Free
<1> QED
  BY <1>1, <1>2 DEF LaunchedAs, Sealed, Live

LEMMA SealedStop ==
  ASSUME IInv, NEW x \in Entry, Live(x), NEW outcome \in Terminal, NEW by \in Run \cup {None},
         Stop(x, outcome, by), UNCHANGED registry, NEW s \in Run, Sealed(s),
         \A c \in Caller : call'[c].stage = "rebuilding" => call'[c] = call[c]
  PROVE  Sealed(s)' /\ row'[s] = row[s]
<1>1. s # entry[x].run
  BY DEF Sealed
<1>2. row'[s] = row[s]
  BY <1>1, StopKeeps
<1>3. \A e \in Entry : entry'[e].phase = "live" => entry'[e].run # s
  BY StopKeeps DEF Sealed, Live
<1> QED
  BY <1>2, <1>3 DEF Sealed, Live

\* A step that writes no row of s and makes no engine or resume of it.
LEMMA SealedKept ==
  ASSUME NEW s \in Run, Sealed(s), row'[s] = row[s],
         \A c \in Caller : call'[c].stage = "rebuilding" => call'[c] = call[c],
         \A e \in Entry : entry'[e].phase = "live" => entry'[e] = entry[e]
  PROVE  Sealed(s)'
  BY DEF Sealed, Live

LEMMA SealedStep ==
  ASSUME IInv, Next, NEW s \in Run, Sealed(s)
  PROVE  Sealed(s)' /\ row'[s] = row[s]
<1>0. row[s].status = "superseded"
  BY DEF Sealed
<1>1. CASE Submit
  <2>1. Minted \in Run /\ row[Minted].status = "absent" /\ Launch(Minted, None) /\ UNCHANGED call
    BY <1>1, MintedIsUnused DEF Submit, Unused
  <2> QED
    BY <1>0, <2>1, SealedLaunch
<1>2. CASE Close
  <2>1. row'[s] = row[s]
    BY <1>2, CloseEffect DEF Sealed
  <2>2. \A e \in Entry : entry'[e].phase = "live" => entry'[e] = entry[e]
    BY <1>2, CloseEffect
  <2>3. UNCHANGED call
    BY <1>2 DEF Close
  <2> QED
    BY <2>1, <2>2, <2>3, SealedKept
<1>3. CASE Activate \/ Crash
  <2>1. row'[s] = row[s]
    BY <1>0, <1>3, AnewEffect DEF Reconciled
  <2>2. \A e \in Entry : entry'[e].phase # "live"
    BY <1>3, AnewEffect DEF Free
  <2>3. \A c \in Caller : call'[c].stage # "rebuilding"
    BY <1>3, AnewEffect DEF Idle
  <2> QED
    BY <2>1, <2>2, <2>3, SealedKept
<1>4. CASE Foreign
  <2>1. row'[s] = row[s] /\ UNCHANGED <<call, entry>>
    BY <1>0, <1>4 DEF Foreign, Reconciled, volatile
  <2> QED
    BY <2>1, SealedKept
<1>5. CASE (\E x \in Entry : EngineEnds(x)) \/ (\E r \in Run : Cancel(r))
  <2>1. PICK x \in Entry, outcome \in Terminal :
          Live(x) /\ Stop(x, outcome, None) /\ UNCHANGED <<registry, call>>
    BY <1>5, RunsAssumption DEF EngineEnds, Cancel, Terminal, Stopped, IInv, TypeOK
  <2> QED
    BY <2>1, SealedStop
<1>6. CASE \E x \in Entry : Book(x)
  <2>1. PICK x \in Entry : Book(x)
    BY <1>6
  <2>2. UNCHANGED row /\ \A c \in Caller : call'[c].stage = "rebuilding" => call'[c] = call[c]
    BY <2>1 DEF Book, Resumed
  <2>3. \A e \in Entry : entry'[e].phase = "live" => entry'[e] = entry[e]
    BY <2>1 DEF Book, Free, IInv, TypeOK, Slot
  <2> QED
    BY <2>2, <2>3, SealedKept
<1>7. CASE \E c \in Caller, r \in Run : Resume(c, r)
  <2>1. PICK c \in Caller, r \in Run : Resume(c, r)
    BY <1>7
  <2>2. r # s
    BY <1>0, <2>1 DEF Resume, Resumable
  <2>3. CASE row[r].from = None
    BY <2>1, <2>2, <2>3, SealedLaunch DEF Resume
  <2>4. CASE row[r].from # None
    <3>1. UNCHANGED <<row, entry>> /\ call' = [call EXCEPT ![c] = [stage |-> "rebuilding", run |-> r]]
      BY <2>1, <2>4 DEF Resume
    <3>2. \A d \in Caller : call'[d] = call[d] \/ call'[d] = [stage |-> "rebuilding", run |-> r]
      BY <3>1 DEF IInv, TypeOK
    <3> QED
      BY <2>2, <3>1, <3>2 DEF Sealed, Live
  <2> QED
    BY <2>3, <2>4
<1>8. CASE \E c \in Caller : Rebuilt(c)
  <2>1. PICK c \in Caller : Rebuilt(c)
    BY <1>8
  <2>2. /\ call[c].stage = "rebuilding" /\ Launch(call[c].run, None) /\ call[c].run \in Run
        /\ \A d \in Caller : call'[d] = call[d] \/ call'[d] = Idle
    BY <2>1, CallOfOne DEF Rebuilt, IInv, TypeOK
  <2>3. call[c].run # s
    BY <2>2 DEF Sealed
  <2> QED
    BY <2>2, <2>3, SealedLaunch DEF Idle
<1>9. CASE \E c \in Caller : Built(c)
  <2>1. PICK c \in Caller : Built(c)
    BY <1>9
  <2>2. /\ call[c].stage = "building" /\ Launch(call[c].new, call[c].run)
        /\ \A d \in Caller : call'[d] = call[d] \/ call'[d] = Idle
    BY <2>1 DEF Built, IInv, TypeOK
  <2>3. call[c].new \in Run /\ call[c].run \in Run /\ row[call[c].new].status = "absent"
    BY <2>2, CallOfOne DEF IInv, Awaited, Amending
  <2> QED
    BY <1>0, <2>2, <2>3, SealedLaunch DEF Idle
<1>10. CASE \E c \in Caller : Import(c)
  <2>1. PICK c \in Caller : Import(c)
    BY <1>10
  <2>2. UNCHANGED <<row, entry>> /\ \A d \in Caller : call'[d].stage = "rebuilding" => call'[d] = call[d]
    <3>1. call[c] \in [stage : {"importing", "building"}, run : Run, new : Run]
      BY <2>1 DEF Import, IInv, TypeOK, Call, Idle
    <3> QED
      BY <2>1, <3>1 DEF Import, IInv, TypeOK, Idle
  <2> QED
    BY <2>2, SealedKept
<1>11. CASE \E c \in Caller, r \in Run : Amend(c, r)
  <2>1. PICK c \in Caller, r \in Run : Amend(c, r)
    BY <1>11
  <2>2. /\ Minted \in Run /\ UNCHANGED registry
        /\ \/ UNCHANGED <<row, entry>>
           \/ Engaged(r) /\ Live(registry[r]) /\ Stop(registry[r], "superseded", Minted)
    BY <2>1, MintedIsUnused DEF Amend, Unused
  <2>3. \A d \in Caller : call'[d].stage = "rebuilding" => call'[d] = call[d]
    BY <2>1 DEF Amend, IInv, TypeOK
  <2>4. CASE UNCHANGED <<row, entry>>
    BY <2>3, <2>4, SealedKept
  <2>5. CASE Engaged(r) /\ Live(registry[r]) /\ Stop(registry[r], "superseded", Minted)
    <3>1. registry[r] \in Entry /\ "superseded" \in Terminal
      BY <2>5 DEF Engaged, IInv, TypeOK, Terminal, Stopped
    <3> QED
      BY <2>2, <2>3, <2>5, <3>1, SealedStop
  <2> QED
    BY <2>2, <2>4, <2>5
<1> QED
  BY <1>1, <1>2, <1>3, <1>4, <1>5, <1>6, <1>7, <1>8, <1>9, <1>10, <1>11 DEF Next

\* With any number of callers: the row of a superseded run that no resume is about to launch
\* and no engine works on is never written again, and no engine of it is made.
THEOREM SupersededStaysSealed == Spec => SupersededIsSealed
<1>1. ASSUME IInv, [Next]_vars
      PROVE  [\A r \in Run : Sealed(r) => Sealed(r)' /\ row'[r] = row[r]]_vars
  BY <1>1, SealedStep
<1> QED
  BY <1>1, Invariance, PTL DEF Spec, SupersededIsSealed

----------------------------------------------------------------------------
(* A successor that was named comes.                                         *)

\* A step that loses no row, no settlement to come and no amendment keeps the promise.
LEMMA ComesKept ==
  ASSUME SuccessorComes, NEW r \in Run, NEW n \in Run, ~(faults > 0),
         row[r].status = "superseded", row[r].by = n,
         row[n].status # "absent" => row'[n].status # "absent",
         \A e \in Entry : entry[e].phase = "ended" => entry'[e].phase = "ended",
         \A c \in Caller : call[c].stage \in Amending => call'[c] = call[c],
         \A c \in Caller : call[c].stage = "settling" => call[c].entry \in Entry
  PROVE  row'[n].status # "absent" \/ OnItsWay(r, n)'
BY DEF SuccessorComes, OnItsWay

LEMMA SettlesEntry ==
  ASSUME TypeOK, NEW c \in Caller, call[c].stage = "settling"
  PROVE  call[c].entry \in Entry
BY DEF TypeOK, Call, Idle

LEMMA LaunchCounts ==
  ASSUME IInv, NEW q \in Run, NEW from \in Run \cup {None}, Launch(q, from)
  PROVE  /\ faults > 0 => faults' > 0
         /\ row' = Begun(q, from) \/ faults' > 0
<1>1. faults \in Nat
  BY RunsAssumption DEF IInv, TypeOK
<1>2. (row' = Begun(q, from) /\ faults' = faults) \/ faults' = faults + 1
  <2>1. PICK e \in Entry :
          \/ /\ Launched(q, e, [run |-> q, phase |-> "live", outcome |-> None])
             /\ row' = Begun(q, from) /\ UNCHANGED faults
          \/ /\ Launched(q, e, [run |-> q, phase |-> "ended", outcome |-> "failed"])
             /\ row' = row /\ faults < MaxFaults /\ faults' = faults + 1
    BY LaunchMakesAnEntry
  <2> QED
    BY <2>1
<1> QED
  BY <1>1, <1>2

\* A launch that succeeds gives its run a row, and supersedes and forgets nothing.
LEMMA ComesLaunch ==
  ASSUME IInv, NEW q \in Run, NEW from \in Run \cup {None}, Launch(q, from)
  PROVE  /\ \A s \in Run : row'[s].status = "superseded" => row'[s] = row[s]
         /\ \A s \in Run : row[s].status # "absent" => row'[s].status # "absent"
         /\ \A e \in Entry : entry[e].phase = "ended" => entry'[e].phase = "ended"
         /\ row'[q].status # "absent" \/ faults' > 0
<1>1. PICK e \in Entry : LaunchedAs(q, e)
  BY LaunchEffect
<1>2. row' = Begun(q, from) => row'[q].status = "running"
  BY DEF Begun, IInv, TypeOK
<1>3. row'[q].status # "absent" \/ faults' > 0
  BY <1>2, LaunchCounts
<1>4. \A x \in Entry : entry[x].phase = "ended" => entry'[x].phase = "ended"
  BY <1>1 DEF LaunchedAs, Free
<1> QED
  BY <1>1, <1>3, <1>4 DEF LaunchedAs

LEMMA ComesStep ==
  ASSUME IInv, SuccessorComes, Next
  PROVE  SuccessorComes'
<1> SUFFICES ASSUME NEW r \in Run, NEW n \in Run, ~(faults' > 0),
                    row'[r].status = "superseded", row'[r].by = n
             PROVE  row'[n].status # "absent" \/ OnItsWay(r, n)'
  BY DEF SuccessorComes
<1>0. faults \in Nat /\ \A c \in Caller : call[c].stage = "settling" => call[c].entry \in Entry
  BY SettlesEntry DEF IInv, TypeOK
<1>1. CASE Submit
  <2>1. Minted \in Run /\ Launch(Minted, None) /\ UNCHANGED call
    BY <1>1, MintedIsUnused DEF Submit, Unused
  <2>2. ~(faults > 0)
    BY <2>1, LaunchCounts
  <2> QED
    BY <1>0, <2>1, <2>2, ComesLaunch, ComesKept
<1>2. CASE Close
  <2>1. UNCHANGED <<call, faults>> /\ row'[r] = row[r]
    BY <1>2, CloseEffect DEF Close
  <2>2. row[n].status # "absent" => row'[n].status # "absent"
    BY <1>2, CloseEffect
  <2>3. \A e \in Entry : entry[e].phase = "ended" => entry'[e].phase = "ended"
    BY <1>2, CloseEffect DEF Live
  <2> QED
    BY <1>0, <2>1, <2>2, <2>3, ComesKept
<1>3. CASE Activate
  <2>1. /\ row' = Reconciled /\ UNCHANGED <<call, faults>> /\ \A c \in Caller : call[c] = Idle
    BY <1>3 DEF Activate
  <2>2. row'[r] = row[r] /\ (row[n].status # "absent" => row'[n].status # "absent")
    BY <2>1 DEF Reconciled, IInv, TypeOK, Row
  <2>3. ~OnItsWay(r, n)
    BY <2>1 DEF OnItsWay, Idle, Amending
  <2> QED
    BY <2>1, <2>2, <2>3 DEF SuccessorComes
<1>4. CASE Crash \/ Foreign
  BY <1>0, <1>4 DEF Crash, Foreign
<1>5. CASE (\E x \in Entry : EngineEnds(x)) \/ (\E q \in Run : Cancel(q))
  <2>1. PICK x \in Entry, outcome \in Terminal \ {"superseded"} :
          /\ Live(x) /\ Stop(x, outcome, None) /\ UNCHANGED <<registry, call, faults>>
    BY <1>5, RunsAssumption DEF EngineEnds, Cancel, Terminal, Stopped, IInv, TypeOK
  <2>2. entry[x].run \in Run
    BY <2>1, StopKeeps
  <2>3. row'[entry[x].run].status = outcome
    BY <2>1, <2>2 DEF Stop, Written, IInv, TypeOK, Row
  <2>4. row'[r] = row[r]
    BY <2>1, <2>3, StopKeeps
  <2>5. row[n].status # "absent" => row'[n].status # "absent"
    BY <2>1, StopKeeps
  <2>6. \A e \in Entry : entry[e].phase = "ended" => entry'[e].phase = "ended"
    BY <2>1, StopKeeps
  <2> QED
    BY <1>0, <2>1, <2>4, <2>5, <2>6, ComesKept
\* The settlement an amendment awaits is booked: it goes on.
<1>6. CASE \E x \in Entry : Book(x)
  <2>1. PICK x \in Entry : Book(x)
    BY <1>6
  <2>2. UNCHANGED <<row, faults>> /\ call' = Resumed(x)
    BY <2>1 DEF Book
  <2>3. \A e \in Entry \ {x} : entry[e].phase = "ended" => entry'[e].phase = "ended"
    BY <2>1 DEF Book
  <2>4. CASE row[n].status # "absent"
    BY <2>2, <2>4
  <2>5. CASE OnItsWay(r, n)
    <3>1. PICK c \in Caller :
            /\ call[c].stage \in Amending /\ call[c].run = r /\ call[c].new = n
            /\ call[c].stage = "settling" => entry[call[c].entry].phase = "ended"
      BY <2>5 DEF OnItsWay
    <3>2. CASE call[c].stage = "settling" /\ call[c].entry = x
      <4>1. call'[c] = [stage |-> "importing", run |-> r, new |-> n]
        BY <2>2, <3>1, <3>2 DEF Resumed
      <4> QED
        BY <4>1 DEF OnItsWay, Amending
    <3>3. CASE ~(call[c].stage = "settling" /\ call[c].entry = x)
      <4>1. call'[c] = call[c]
        BY <2>2, <3>3 DEF Resumed
      <4>2. call[c].stage = "settling" => entry'[call[c].entry].phase = "ended"
        BY <1>0, <2>3, <3>1, <3>3
      <4> QED
        BY <3>1, <4>1, <4>2 DEF OnItsWay
    <3> QED
      BY <3>2, <3>3
  <2> QED
    BY <2>2, <2>4, <2>5 DEF SuccessorComes
<1>7. CASE \E c \in Caller, q \in Run : Resume(c, q)
  <2>1. PICK c \in Caller, q \in Run : Resume(c, q)
    BY <1>7
  <2>2. CASE row[q].from = None
    <3>1. Launch(q, None) /\ UNCHANGED call
      BY <2>1, <2>2 DEF Resume
    <3>2. ~(faults > 0)
      BY <3>1, LaunchCounts
    <3> QED
      BY <1>0, <3>1, <3>2, ComesLaunch, ComesKept
  <2>3. CASE row[q].from # None
    <3>1. UNCHANGED <<row, entry, faults>> /\ \A d \in Caller \ {c} : call'[d] = call[d]
      BY <2>1, <2>3 DEF Resume, IInv, TypeOK
    <3>2. call[c].stage \notin Amending
      BY <2>1 DEF Resume, Idle, Amending
    <3> QED
      BY <1>0, <3>1, <3>2, ComesKept
  <2> QED
    BY <2>2, <2>3
<1>8. CASE \E c \in Caller : Rebuilt(c)
  <2>1. PICK c \in Caller : Rebuilt(c)
    BY <1>8
  <2>2. /\ call[c].stage = "rebuilding" /\ Launch(call[c].run, None) /\ call[c].run \in Run
        /\ \A d \in Caller \ {c} : call'[d] = call[d]
    BY <2>1, CallOfOne DEF Rebuilt, IInv, TypeOK
  <2>3. call[c].stage \notin Amending
    BY <2>2 DEF Amending
  <2>4. ~(faults > 0)
    BY <2>2, LaunchCounts
  <2> QED
    BY <1>0, <2>2, <2>3, <2>4, ComesLaunch, ComesKept
\* The amendment that was on its way makes its run.
<1>9. CASE \E c \in Caller : Built(c)
  <2>1. PICK c \in Caller : Built(c)
    BY <1>9
  <2>2. /\ call[c].stage = "building" /\ Launch(call[c].new, call[c].run)
        /\ \A d \in Caller \ {c} : call'[d] = call[d]
    BY <2>1 DEF Built, IInv, TypeOK
  <2>3. call[c].new \in Run /\ call[c].run \in Run
    BY <2>2, CallOfOne DEF IInv, Amending
  <2>4. row'[r] = row[r] /\ (row[n].status # "absent" => row'[n].status # "absent")
    BY <2>2, <2>3, ComesLaunch
  <2>5. ~(faults > 0)
    BY <2>2, <2>3, LaunchCounts
  <2>6. CASE OnItsWay(r, n)
    <3>1. PICK d \in Caller :
            /\ call[d].stage \in Amending /\ call[d].run = r /\ call[d].new = n
            /\ call[d].stage = "settling" => entry[call[d].entry].phase = "ended"
      BY <2>6 DEF OnItsWay
    <3>2. CASE d = c
      BY <2>2, <2>3, <3>1, <3>2, ComesLaunch
    <3>3. CASE d # c
      <4>1. call[d].stage = "settling" => entry'[call[d].entry].phase = "ended"
        BY <1>0, <2>2, <2>3, <3>1, ComesLaunch
      <4> QED
        BY <2>2, <3>1, <3>3, <4>1 DEF OnItsWay
    <3> QED
      BY <3>2, <3>3
  <2> QED
    BY <2>4, <2>5, <2>6 DEF SuccessorComes
\* Its predecessor is terminal, so the amendment that was on its way goes on.
<1>10. CASE \E c \in Caller : Import(c)
  <2>1. PICK c \in Caller : Import(c)
    BY <1>10
  <2>2. /\ UNCHANGED <<row, entry, faults>> /\ call[c].stage = "importing"
        /\ \A d \in Caller \ {c} : call'[d] = call[d]
        /\ call'[c] = IF Importing(c) THEN [call[c] EXCEPT !.stage = "building"] ELSE Idle
    BY <2>1 DEF Import, IInv, TypeOK
  <2>3. call[c] \in [stage : {"importing", "building"}, run : Run, new : Run]
    BY <2>2 DEF IInv, TypeOK, Call, Idle
  <2>4. CASE OnItsWay(r, n)
    <3>1. PICK d \in Caller :
            /\ call[d].stage \in Amending /\ call[d].run = r /\ call[d].new = n
            /\ call[d].stage = "settling" => entry[call[d].entry].phase = "ended"
      BY <2>4 DEF OnItsWay
    <3>2. CASE d = c
      <4>1. Importing(c)
        BY <2>2, <3>1, <3>2 DEF Importing, Terminal, Stopped
      <4>2. call'[c].stage = "building" /\ call'[c].run = r /\ call'[c].new = n
        BY <2>2, <2>3, <3>1, <3>2, <4>1
      <4> QED
        BY <4>2 DEF OnItsWay, Amending
    <3>3. CASE d # c
      BY <2>2, <3>1, <3>3 DEF OnItsWay
    <3> QED
      BY <3>2, <3>3
  <2> QED
    BY <2>2, <2>4 DEF SuccessorComes
\* The amendment that names a successor awaits the settlement of what it stopped.
<1>11. CASE \E c \in Caller, q \in Run : Amend(c, q)
  <2>1. PICK c \in Caller, q \in Run : Amend(c, q)
    BY <1>11
  <2>2. /\ call[c] = Idle /\ Minted \in Run /\ UNCHANGED <<registry, faults>>
        /\ \A d \in Caller \ {c} : call'[d] = call[d]
    BY <2>1, MintedIsUnused DEF Amend, Unused, IInv, TypeOK
  <2>3. call[c].stage \notin Amending
    BY <2>2 DEF Idle, Amending
  <2>4. CASE UNCHANGED <<row, entry>>
    BY <1>0, <2>2, <2>3, <2>4, ComesKept
  <2>5. CASE Engaged(q) /\ Live(registry[q]) /\ Stop(registry[q], "superseded", Minted)
    <3>1. registry[q] \in Entry /\ entry[registry[q]].run = q /\ "superseded" \in Terminal
      BY <2>5 DEF Engaged, IInv, TypeOK, Registered, Terminal, Stopped
    <3>2. /\ \A s \in Run \ {q} : row'[s] = row[s]
          /\ row[n].status # "absent" => row'[n].status # "absent"
          /\ \A e \in Entry : entry[e].phase = "ended" => entry'[e].phase = "ended"
          /\ entry'[registry[q]].phase = "ended"
      BY <2>2, <2>5, <3>1, StopKeeps
    <3>3. CASE r # q
      BY <1>0, <2>2, <2>3, <3>2, <3>3, ComesKept
    <3>4. CASE r = q
      <4>1. n = Minted
        BY <2>5, <3>1, <3>4 DEF Stop, Written, IInv, TypeOK, Row
      <4>2. call'[c] = [stage |-> "settling", run |-> q, new |-> Minted, entry |-> registry[q]]
        BY <2>1, <2>5 DEF Amend, IInv, TypeOK
      <4> QED
        BY <3>2, <3>4, <4>1, <4>2 DEF OnItsWay, Amending
    <3> QED
      BY <3>3, <3>4
  <2> QED
    BY <2>1, <2>4, <2>5 DEF Amend
<1> QED
  BY <1>1, <1>2, <1>3, <1>4, <1>5, <1>6, <1>7, <1>8, <1>9, <1>10, <1>11 DEF Next

\* With any number of callers, and until something fails: whoever stops, resumes, amends or
\* closes meanwhile, a successor that was named is there or the amendment goes on to it.
THEOREM SuccessorsCome == Spec => []SuccessorComes
<1>1. Init => SuccessorComes
  BY DEF Init, SuccessorComes
<1>2. ASSUME IInv, SuccessorComes, [Next]_vars PROVE SuccessorComes'
  <2>1. CASE UNCHANGED vars
    BY <1>2, <2>1 DEF vars, SuccessorComes, OnItsWay
  <2> QED
    BY <1>2, <2>1, ComesStep
<1> QED
  BY <1>1, <1>2, Invariance, PTL DEF Spec
=============================================================================
