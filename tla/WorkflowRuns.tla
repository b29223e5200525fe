----------------------------- MODULE WorkflowRuns -----------------------------
(* The workflow runs of one session: DynamicWorkflowRunService with its entry  *)
(* points (submit, amend, resume, cancel), its registry of runs and their      *)
(* settlements, close, and the reconciliation of orphans by the next instance. *)
(* An engine is built in the call that launches it and stops in the call that  *)
(* aborts it; the registry hears of its settlement some microtasks later.      *)
(* What an engine does in between is WorkflowEngine.                           *)
EXTENDS Integers, Sequences

CONSTANTS
  Run,              \* ids of runs
  Entry,            \* registry entries, each with its engine, that exist at once
  Caller,           \* callers of amend and resume, each with one call at a time
  None,
  TerminalLimit,    \* TERMINAL_REGISTRY_LIMIT: settled runs the registry keeps
  MaxFaults         \* bound: crashes, launches that throw, foreign reconciliations

ASSUME RunsAssumption ==
  /\ None \notin Run \cup Entry
  /\ TerminalLimit \in Nat \ {0} /\ MaxFaults \in Nat

VARIABLES
  row,        \* dwf_run, durable: [Run -> Row]
  entry,      \* the entries, registered or still settling: [Entry -> Slot]
  registry,   \* runs: the entry of each run, or None
  order,      \* terminalOrder: runs in the order of their settlements
  call,       \* what each caller awaits, or Idle
  service,    \* "open", "closing", "closed" or "down" (no process)
  closing,    \* the entries whose settlement close awaits
  faults

volatile == <<entry, registry, order, call, closing>>
vars == <<row, entry, registry, order, call, service, closing, faults>>

Stopped == {"user", "interrupted", "superseded"}  \* stopped, by its stop reason
Terminal == {"finished"} \cup Stopped             \* finished: completed or errored
Row == [status : {"absent", "running"} \cup Terminal, from : Run \cup {None}, by : Run \cup {None}]
Free == [run |-> None, phase |-> "free", outcome |-> None]
Slot == [run : Run \cup {None}, phase : {"free", "live", "ended", "booked"},
         outcome : Terminal \cup {"failed", None}]
Idle == [stage |-> "idle"]
Amending == {"settling", "importing", "building"}
Call ==
  [stage : {"rebuilding"}, run : Run] \cup
  [stage : {"settling"}, run : Run, new : Run, entry : Entry] \cup
  [stage : {"importing", "building"}, run : Run, new : Run]

TypeOK ==
  /\ row \in [Run -> Row] /\ entry \in [Entry -> Slot] /\ registry \in [Run -> Entry \cup {None}]
  /\ order \in Seq(Run) /\ Len(order) <= TerminalLimit
  /\ call \in [Caller -> Call \cup {Idle}]
  /\ service \in {"open", "closing", "closed", "down"} /\ closing \subseteq Entry
  /\ faults \in 0 .. MaxFaults

Init ==
  /\ row = [r \in Run |-> [status |-> "absent", from |-> None, by |-> None]]
  /\ entry = [e \in Entry |-> Free] /\ registry = [r \in Run |-> None] /\ order = <<>>
  /\ call = [c \in Caller |-> Idle] /\ service = "open" /\ closing = {} /\ faults = 0

----------------------------------------------------------------------------
\* Entries and rows

\* entry.terminal is not set: the engine runs, or its settlement is not booked.
Engaged(r) == registry[r] # None /\ entry[registry[r]].phase # "booked"
Live(e) == entry[e].phase = "live"

\* The entries when the registry lets go of the one of r: settled, it is garbage.
Dropped(r) ==
  IF registry[r] = None \/ Engaged(r) THEN entry ELSE [entry EXCEPT ![registry[r]] = Free]

\* mintRunId: an id no row, entry, pending call or successor pointer has.
Unused ==
  {n \in Run : /\ row[n].status = "absent" /\ registry[n] = None
               /\ \A r \in Run : row[r].by # n
               /\ \A c \in Caller : call[c].stage \in Amending => call[c].new # n}
Minted == CHOOSE n \in Unused : TRUE

\* The engine writes the row: created, or set back to running with no stop reason.
Begun(r, from) ==
  [row EXCEPT ![r] =
     [status |-> "running", from |-> IF @.status = "absent" THEN from ELSE @.from, by |-> None]]

\* A new entry for r and its engine; an engine that cannot be built leaves the
\* entry with a rejected launch and the row as it was.
Launch(r, from) ==
  LET e == CHOOSE x \in Entry : entry[x] = Free
  IN
    /\ \E x \in Entry : entry[x] = Free
    /\ registry' = [registry EXCEPT ![r] = e]
    /\ \/ /\ entry' = [Dropped(r) EXCEPT ![e] = [run |-> r, phase |-> "live", outcome |-> None]]
          /\ row' = Begun(r, from) /\ UNCHANGED faults
       \/ /\ faults < MaxFaults /\ faults' = faults + 1
          /\ entry' = [Dropped(r) EXCEPT ![e] = [run |-> r, phase |-> "ended", outcome |-> "failed"]]
          /\ UNCHANGED row

\* finishRun: status, reason and successor in one write over whatever is there.
Written(r, outcome, by) == [row EXCEPT ![r].status = outcome, ![r].by = by]

\* The engine of e stops: its row is written at once, its entry hears later.
Stop(e, outcome, by) ==
  /\ row' = Written(entry[e].run, outcome, by)
  /\ entry' = [entry EXCEPT ![e] = [@ EXCEPT !.phase = "ended", !.outcome = outcome]]

\* reconcileOrphanRuns: the session's runs that are not terminal are interrupted.
Reconciled ==
  [r \in Run |-> IF row[r].status = "running" THEN [row[r] EXCEPT !.status = "interrupted"] ELSE row[r]]

----------------------------------------------------------------------------
\* The life of a run

Submit ==
  /\ service = "open"
  /\ Unused # {} /\ Launch(Minted, None)
  /\ UNCHANGED <<order, call, service, closing>>

\* The script returns or throws, or the sandbox or a provider fails.
EngineEnds(e) ==
  /\ Live(e)
  /\ \E outcome \in {"finished", "interrupted"} : Stop(e, outcome, None)
  /\ UNCHANGED <<registry, order, call, service, closing, faults>>

Cancel(r) ==
  /\ registry[r] # None /\ Live(registry[r])
  /\ Stop(registry[r], "user", None)
  /\ UNCHANGED <<registry, order, call, service, closing, faults>>

\* What a settlement does to the calls that await it.
Resumed(e) ==
  [c \in Caller |->
     IF call[c].stage = "settling" /\ call[c].entry = e
     THEN [stage |-> "importing", run |-> call[c].run, new |-> call[c].new]
     ELSE call[c]]

\* Mutant of Evicted: the run at the head goes, settled or running again.
EvictedById(e) == IF Len(order) < TerminalLimit THEN {} ELSE {Head(order)}

\* rememberTerminal: the runs that leave the registry when e is booked: the one
\* that heads a full order, unless it was resumed and is not settled again.
Evicted(e) ==
  IF Len(order) < TerminalLimit THEN {}
  ELSE {r \in {Head(order)} : registry[r] # None /\ (registry[r] = e \/ ~Engaged(r))}

\* Mutant of Remembered: the order is never shortened.
RememberedForEver(r) == Append(order, r)

Remembered(r) == IF Len(order) < TerminalLimit THEN Append(order, r) ELSE Append(Tail(order), r)

\* trackSettlement: the outcome enters the entry, the oldest settled one leaves,
\* whoever awaits the settlement goes on.  An entry nothing refers to is garbage.
Book(e) ==
  LET r == entry[e].run
      gone == Evicted(e)
      kept == registry[r] = e /\ r \notin gone
      left == {x \in Entry : entry[x].phase = "booked" /\ \E q \in gone : registry[q] = x}
  IN  /\ entry[e].phase = "ended"
      /\ entry' = [x \in Entry |->
           IF x = e THEN IF kept THEN [entry[e] EXCEPT !.phase = "booked"] ELSE Free
           ELSE IF x \in left THEN Free ELSE entry[x]]
      /\ registry' = [x \in Run |-> IF x \in gone THEN None ELSE registry[x]]
      /\ order' = Remembered(r)
      /\ call' = Resumed(e)
      /\ closing' = closing \ {e}
      /\ service' = IF service = "closing" /\ closing' = {} THEN "closed" ELSE service
      /\ UNCHANGED <<row, faults>>

----------------------------------------------------------------------------
\* Resume and amend

\* Mutant of Resumable: a run that was superseded is stopped like any other.
ResumableStopped(r) == ~Engaged(r) /\ row[r].status \in Stopped

\* The gates of resume, checked in one go.
Resumable(r) == ~Engaged(r) /\ row[r].status \in {"user", "interrupted"}

\* A run of its own is launched again in the same call; one that amends another
\* first has its import table built again, and the gates are not checked twice.
Resume(c, r) ==
  /\ call[c] = Idle /\ service = "open" /\ Resumable(r)
  /\ IF row[r].from = None
     THEN Launch(r, None) /\ UNCHANGED call
     ELSE call' = [call EXCEPT ![c] = [stage |-> "rebuilding", run |-> r]]
          /\ UNCHANGED <<row, entry, registry, faults>>
  /\ UNCHANGED <<order, service, closing>>

Rebuilt(c) ==
  /\ call[c].stage = "rebuilding"
  /\ Launch(call[c].run, None)
  /\ call' = [call EXCEPT ![c] = Idle]
  /\ UNCHANGED <<order, service, closing>>

\* An engine in flight is stopped with the id of its successor, and its own
\* settlement awaited; of any other run only the row counts.
Amend(c, r) ==
  /\ call[c] = Idle /\ service = "open" /\ row[r].status # "absent"
  /\ Unused # {}
  /\ IF Engaged(r)
     THEN /\ call' = [call EXCEPT ![c] =
               [stage |-> "settling", run |-> r, new |-> Minted, entry |-> registry[r]]]
          /\ IF Live(registry[r]) THEN Stop(registry[r], "superseded", Minted)
             ELSE UNCHANGED <<row, entry>>
     ELSE /\ row[r].status \in Terminal
          /\ call' = [call EXCEPT ![c] = [stage |-> "building", run |-> r, new |-> Minted]]
          /\ UNCHANGED <<row, entry>>
  /\ UNCHANGED <<registry, order, service, closing, faults>>

\* Mutant of Importing: only what may be resumed may be amended.
ImportingResumable(c) == row[call[c].run].status \in {"user", "interrupted"}

\* buildImportedCache: the predecessor must be terminal, in whatever way.
Importing(c) == row[call[c].run].status \in Terminal

Import(c) ==
  /\ call[c].stage = "importing"
  /\ call' = [call EXCEPT ![c] =
       IF Importing(c) THEN [@ EXCEPT !.stage = "building"] ELSE Idle]
  /\ UNCHANGED <<row, entry, registry, order, service, closing, faults>>

Built(c) ==
  /\ call[c].stage = "building"
  /\ Launch(call[c].new, call[c].run)
  /\ call' = [call EXCEPT ![c] = Idle]
  /\ UNCHANGED <<order, service, closing>>

----------------------------------------------------------------------------
\* The service

\* close: the service refuses new calls from here on, every entry that is not
\* settled is aborted and its settlement awaited.  A call that began before goes
\* on, and launches what it was about to launch: only its entrance is guarded.
Close ==
  LET engaged == {r \in Run : Engaged(r)}
      stopped == {r \in engaged : Live(registry[r])}
  IN  /\ service = "open"
      /\ row' = [r \in Run |->
           IF r \in stopped THEN [row[r] EXCEPT !.status = "interrupted", !.by = None] ELSE row[r]]
      /\ entry' = [e \in Entry |->
           IF \E r \in stopped : registry[r] = e
           THEN [entry[e] EXCEPT !.phase = "ended", !.outcome = "interrupted"] ELSE entry[e]]
      /\ closing' = {registry[r] : r \in engaged}
      /\ service' = IF engaged = {} THEN "closed" ELSE "closing"
      /\ UNCHANGED <<registry, order, call, faults>>

\* The next instance of the service, when nothing of the last one is left.
Activate ==
  /\ service \in {"closed", "down"}
  /\ \A c \in Caller : call[c] = Idle
  /\ \A e \in Entry : entry[e].phase \in {"free", "booked"}
  /\ service' = "open" /\ row' = Reconciled
  /\ entry' = [e \in Entry |-> Free] /\ registry' = [r \in Run |-> None] /\ order' = <<>>
  /\ UNCHANGED <<call, closing, faults>>

Crash ==
  /\ service # "down" /\ faults < MaxFaults /\ faults' = faults + 1
  /\ service' = "down" /\ closing' = {}
  /\ entry' = [e \in Entry |-> Free] /\ registry' = [r \in Run |-> None] /\ order' = <<>>
  /\ call' = [c \in Caller |-> Idle]
  /\ UNCHANGED row

\* Another desktop instance activates the session and reconciles its rows.
Foreign ==
  /\ faults < MaxFaults /\ faults' = faults + 1
  /\ Reconciled # row /\ row' = Reconciled
  /\ UNCHANGED <<volatile, service>>

Next ==
  \/ Submit \/ Close \/ Activate \/ Crash \/ Foreign
  \/ \E e \in Entry : EngineEnds(e) \/ Book(e)
  \/ \E r \in Run : Cancel(r)
  \/ \E c \in Caller : Rebuilt(c) \/ Import(c) \/ Built(c) \/ \E r \in Run : Resume(c, r) \/ Amend(c, r)

Spec == Init /\ [][Next]_vars

----------------------------------------------------------------------------
\* Properties

\* An engine the service can reach: its registry entry stands for it, and close
\* has yet to come.
Owned(e) == Live(e) /\ service = "open" /\ registry[entry[e].run] = e

\* The run of e is launched by a resume that passed its gate in an earlier step.
LaunchedUnder(e) ==
  \E c \in Caller : call[c] = [stage |-> "rebuilding", run |-> entry[e].run] /\ call'[c] = Idle

\* An engine that is owned stays so for as long as it runs: no eviction of a run
\* that was resumed, no amendment, no settlement of an earlier engine of the run
\* and no close lets it go on without its entry.  The one thing that takes its
\* entry away is the launch of a resume whose gate was another state's.
EngineStaysOwned ==
  [][\A e \in Entry : Owned(e) /\ Live(e)' => Owned(e)' \/ LaunchedUnder(e)]_vars

\* A superseded run nobody is about to launch and no engine is left of.
Sealed(r) ==
  /\ row[r].status = "superseded"
  /\ \A c \in Caller : call[c].stage = "rebuilding" => call[c].run # r
  /\ \A e \in Entry : Live(e) => entry[e].run # r

\* A run another one has replaced is over once it is sealed, and names the same
\* successor for ever: no resume, stop, settlement, reconciliation or new
\* instance writes its row again.
SupersededIsSealed == [][\A r \in Run : Sealed(r) => Sealed(r)' /\ row'[r] = row[r]]_vars

\* "Otherwise a launch slips in during close and makes an engine nobody owns"
\* (lifecycle.ts): every engine is its run's entry's, in a service that is open.
\* Does not hold: a call that is at an await when close comes launches after it,
\* and of two resumes that await their import table each makes an engine.
EngineOwned == \A e \in Entry : Live(e) => Owned(e)

\* "The one stopped run that is not resumable is a superseded one"
\* (resume-workflow-run.ts): its row is not written any more.  Does not hold: a
\* resume that passed its gate before the amendment sets it back to running.
SupersededIsFinal == [][\A r \in Run : row[r].status = "superseded" => row'[r] = row[r]]_vars

\* The call that is to start n in the place of r is on its way, and what it waits
\* for comes: the settlement it awaits has yet to be booked.
OnItsWay(r, n) ==
  \E c \in Caller :
    /\ call[c].stage \in Amending /\ call[c].run = r /\ call[c].new = n
    /\ call[c].stage = "settling" => entry[call[c].entry].phase = "ended"

\* A run stopped for the sake of its successor gets it, as long as nothing fails:
\* the successor is there, or the amendment that makes it goes on, whoever else
\* stops, resumes, amends or closes meanwhile and however the predecessor ended.
SuccessorComes ==
  \A r, n \in Run :
    row[r].status = "superseded" /\ row[r].by = n
      => row[n].status # "absent" \/ OnItsWay(r, n) \/ faults > 0

\* "A superseded run has a successor to go and see" (submit.ts), in every state
\* but while the amendment is on its way.
SuccessorExists ==
  \A r, n \in Run : row[r].by = n =>
    \/ row[n].status # "absent"
    \/ \E c \in Caller : call[c].stage \in Amending /\ call[c].new = n
=============================================================================
