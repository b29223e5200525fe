--------------------------- MODULE WorkflowEngine ---------------------------
(* The execution engine of one dynamic workflow run                            *)
(* (dynamic-workflow/src/engine: engine.ts, scheduler.ts, scheduler-submit.ts,  *)
(* engine-world.ts, engine-settlement.ts), the sandbox that runs the script     *)
(* (dynamic-workflow-runtime: harness.ts, child-source.ts) and the run          *)
(* service's reconcile and resume.                                              *)
(*                                                                              *)
(* The script runs in a child process and talks to the engine over two FIFOs.   *)
(* Every ask and world operation is journaled; after a stop or a crash the same *)
(* script is run again from the start and the journal answers what it already   *)
(* knows.  An ask is identified by its site and the ordinal of its execution;   *)
(* per actor, asks run one at a time in the order of their actorSeq, and the    *)
(* hold rule makes a replay admit them in the recorded order.                   *)
(*                                                                              *)
(* The script itself is a parameter: which calls it makes, from which site, to  *)
(* which actor, and after which answers.  So is what an amended run inherits    *)
(* from its predecessor (imported-cache.ts): answers of an actor's first asks    *)
(* and of world operations, served until the run itself writes to the           *)
(* workspace.  Reports and artifacts are outside this module.                   *)
EXTENDS Integers, Sequences, FiniteSets, SequencesExt, Subsequence

CONSTANTS
  NCalls, NActors,  \* host calls of the script, in program order; its actors
  Site,             \* call sites
  SiteOf,           \* [Call -> Site]
  ActorOf,          \* [Call -> Actor \cup {NoActor}], NoActor for a world operation
  After,            \* [Call -> SUBSET Call]: the answers the script awaits before it
  Input,            \* [Call -> STRING]: what inputHash covers
  Typed,            \* asks answered through submit_result
  Fatal,            \* calls whose rejection the script does not catch
  Final,            \* calls whose answers the script awaits before it returns
  WorldRun,         \* world operations that are effects and not reads
  Import,           \* [Actor -> Seq(Entry)]: the predecessor's answers, by position
  ImportWorld,      \* [Input -> Seq(Result)]: its world operations, by occurrence
  MaxConcurrency, RepairAttempts, NudgeAttempts,
  Result, Failure,  \* answers of a call: a result or the rejection
  None,
  MaxLives          \* bound on launches and resumes

Call == 1..NCalls
Actor == 1..NActors
NoCall == 0
NoActor == 0

ASSUME SizeAssumption == NCalls \in Nat /\ NActors \in Nat
ASSUME ScriptAssumption ==
  /\ SiteOf \in [Call -> Site]
  /\ ActorOf \in [Call -> Actor \cup {NoActor}]
  /\ After \in [Call -> SUBSET Call]
  /\ Typed \subseteq Call /\ Fatal \subseteq Call /\ Final \subseteq Call
  /\ WorldRun \subseteq {c \in Call : ActorOf[c] = NoActor}
ASSUME ImportAssumption ==
  /\ Import \in [Actor -> Seq([input : {Input[c] : c \in Call}, pure : BOOLEAN, out : Result])]
  /\ ImportWorld \in [{Input[c] : c \in Call} -> Seq(Result)]
ASSUME CapsAssumption ==
  /\ MaxConcurrency \in Nat \ {0}
  /\ RepairAttempts \in Nat /\ NudgeAttempts \in Nat /\ MaxLives \in Nat
ASSUME OutcomeAssumption ==
  {None, "absent", "running"} \cap (Result \cup {Failure}) = {} /\ Failure \notin Result

VARIABLES
  \* durable: the journal
  node,       \* [Instance -> Row]
  runRow,     \* status of the run's row
  lastEvent,  \* the last event appended
  queued,     \* the instances with a node-queued event: those that ran live
  closed,     \* is there an import-cache-closed event
  \* the engine of the present life
  mode,       \* "live", "settled" (the engine is done), "down" (no engine)
  lives,      \* engines built so far
  ordinal,    \* [Site -> calls counted so far]
  inst,       \* [Call -> the ordinal it got, 0 before]
  seq,        \* [Call -> its actorSeq]
  admission,  \* [Actor -> recordedCount, nextAdmit, pendingRecorded, pendingLive]
  liveQueue,  \* [Actor -> admitted asks waiting for their turn]
  current,    \* [Actor -> the ask it is executing]
  session,    \* [Actor -> state of its session promise]
  activeAsks,
  phase,      \* [Call -> where it stands in the engine]
  repairs, nudges,  \* [Call -> attempts left]
  shut,       \* importClosed
  imported,   \* [Actor -> consumed entries of its candidate, and whether it diverged]
  cursor,     \* [Input -> imported world records served]
  \* the sandbox of the present life
  up, down,   \* requests to the engine, answers to the script
  seen,       \* [Call -> the answer the script got]
  ending,     \* how the script ended: "open", "returned", "threw"
  \* history
  told,       \* [Call -> the first answer the script ever got]
  torn        \* did the process die between the row of a live ask and its event

events == <<queued, closed>>
cache == <<shut, imported, cursor>>
journal == <<node, runRow, lastEvent, events>>
engine == <<ordinal, inst, seq, admission, liveQueue, current, session, activeAsks, phase,
            repairs, nudges, cache>>
sandbox == <<up, down, seen, ending>>
history == <<told, torn>>
vars == <<journal, mode, lives, engine, sandbox, history>>

Outcome == Result \cup {Failure}
Instance == Site \X (1..NCalls)
Absent == [actor |-> NoActor, seq |-> 0, input |-> None, out |-> "absent"]
Row == [actor : Actor \cup {NoActor}, seq : 0..NCalls, input : {Input[c] : c \in Call},
        out : Outcome \cup {"running"}]

World == {c \in Call : ActorOf[c] = NoActor}
Amended == (\E a \in Actor : Import[a] # <<>>) \/ (\E i \in DOMAIN ImportWorld : ImportWorld[i] # <<>>)
Live == mode = "live"

----------------------------------------------------------------------------
(* The script.                                                               *)

Awaited(s, c) == \A d \in After[c] : s[d] # None

\* The calls the script makes when its answers go from s to t, in program order.
Issued(s, t) == Only([c \in Call |-> c], {c \in Call : Awaited(t, c) /\ ~Awaited(s, c)})

\* The calls it makes at once.
Opening == Only([c \in Call |-> c], {c \in Call : After[c] = {}})

Silence == [c \in Call |-> None]
NothingConsumed == [a \in Actor |-> [consumed |-> 0, diverged |-> FALSE]]

----------------------------------------------------------------------------
(* A new engine, and none.                                                   *)

\* The ask rows of actor a, counted when its handle is created.
RecordedAsks(a) == {i \in Instance : node[i].actor = a}

\* Mutant of Counted: the rows of every actor are counted.
CountedForAll(a) == Cardinality({i \in Instance : node[i].out # "absent"})

Counted(a) == Cardinality(RecordedAsks(a))

NoAdmission ==
  [count |-> 0, next |-> 0, recorded |-> [k \in 0..NCalls |-> NoCall], live |-> <<>>]

\* Mutant of ClosureRecovered: a resumed run serves from the whole import again.
ClosureForgotten == shut' = FALSE

\* recoverImportClosure: what was closed in an earlier life is closed.
ClosureRecovered == shut' = closed

\* The engine's and the sandbox's memory at the start of a life: the script has
\* created its actors and made its first calls.
Fresh(calls, adm) ==
  /\ ClosureRecovered
  /\ imported' = NothingConsumed /\ cursor' = [i \in DOMAIN ImportWorld |-> 0]
  /\ ordinal' = [s \in Site |-> 0]
  /\ inst' = [c \in Call |-> 0]
  /\ seq' = [c \in Call |-> 0]
  /\ admission' = adm
  /\ liveQueue' = [a \in Actor |-> <<>>]
  /\ current' = [a \in Actor |-> NoCall]
  /\ session' = [a \in Actor |-> "none"]
  /\ activeAsks' = 0
  /\ phase' = [c \in Call |-> "idle"]
  /\ repairs' = [c \in Call |-> RepairAttempts]
  /\ nudges' = [c \in Call |-> NudgeAttempts]
  /\ up' = calls
  /\ down' = <<>>
  /\ seen' = Silence
  /\ ending' = "open"

\* The memory of a process that is gone.
Wiped == Fresh(<<>>, [a \in Actor |-> NoAdmission])

Init ==
  /\ node = [i \in Instance |-> Absent]
  /\ runRow = "absent" /\ lastEvent = "none" /\ queued = {} /\ closed = FALSE
  /\ mode = "down" /\ lives = 0
  /\ ordinal = [s \in Site |-> 0]
  /\ inst = [c \in Call |-> 0]
  /\ seq = [c \in Call |-> 0]
  /\ admission = [a \in Actor |-> NoAdmission]
  /\ liveQueue = [a \in Actor |-> <<>>]
  /\ current = [a \in Actor |-> NoCall]
  /\ session = [a \in Actor |-> "none"]
  /\ activeAsks = 0
  /\ phase = [c \in Call |-> "idle"]
  /\ repairs = [c \in Call |-> RepairAttempts]
  /\ nudges = [c \in Call |-> NudgeAttempts]
  /\ up = <<>> /\ down = <<>>
  /\ seen = Silence
  /\ ending = "open"
  /\ shut = FALSE /\ imported = NothingConsumed /\ cursor = [i \in DOMAIN ImportWorld |-> 0]
  /\ told = Silence /\ torn = FALSE

\* The constructor, for a run that has no row or one that is resumed, and the
\* sandbox it starts.
Start ==
  /\ lives < MaxLives
  /\ runRow' = "running" /\ lastEvent' = "run-started"
  /\ mode' = "live" /\ lives' = lives + 1
  /\ Fresh(Opening, [a \in Actor |-> [NoAdmission EXCEPT !.count = Counted(a)]])
  /\ UNCHANGED <<node, events, history>>

Launch == runRow = "absent" /\ Start

\* Mutant of Resume: a superseded run may be resumed like any stopped one.
ResumeSuperseded == runRow \in {"stopped", "superseded"} /\ ~Live /\ Start

\* resume: a stopped run that was not superseded, with no live engine.
Resume == runRow = "stopped" /\ ~Live /\ Start

\* reconcileOrphanRuns, when the service of the next process is built.
Reconcile ==
  /\ mode = "down" /\ runRow = "running"
  /\ runRow' = "stopped"
  /\ UNCHANGED <<node, lastEvent, events, mode, lives, engine, sandbox, history>>

\* The process dies; only the journal is left.
Crash ==
  /\ mode # "down"
  /\ mode' = "down" /\ Wiped
  /\ UNCHANGED <<journal, lives, history>>

----------------------------------------------------------------------------
(* Settling the run: settleCompleted, settleStopped, settleFailed.           *)

\* abortInFlight, then the row, the run-settled event and the end of the sandbox.
FinishRun(status) ==
  /\ runRow' = status /\ lastEvent' = "run-settled" /\ mode' = "settled"
  /\ phase' = [c \in Call |-> IF c \notin World /\ phase[c] \in {"queued", "opening", "running"}
                              THEN "aborted" ELSE phase[c]]
  /\ activeAsks' = 0
  /\ UNCHANGED <<node, events, lives, ordinal, inst, seq, admission, liveQueue, current, session,
                 repairs, nudges, cache, sandbox, history>>

\* The process dies between the row and the event.
TornFinish(status) ==
  /\ runRow' = status
  /\ mode' = "down" /\ Wiped
  /\ UNCHANGED <<node, lastEvent, events, lives, history>>

SettleRun(status) == FinishRun(status) \/ TornFinish(status)

\* The script's complete message, which nothing follows.
Complete == Live /\ up = <<>> /\ ending = "returned" /\ SettleRun("completed")

Throw == Live /\ up = <<>> /\ ending = "threw" /\ SettleRun("errored")

\* A user, a model, a deterministic provider error or a broken sandbox stops the
\* run; a revision of it supersedes it.
Stop == Live /\ \E status \in {"stopped", "superseded"} : SettleRun(status)

----------------------------------------------------------------------------
(* Dispatch: pumpActor and pumpAll.                                          *)

\* The actors of A, in creation order, that get one of the free slots: idle ones
\* with an ask admitted.
Picked(A, q, cur, n) ==
  LET eligible == {a \in A : cur[a] = NoCall /\ q[a] # <<>>}
  IN  {a \in eligible : n + Cardinality({b \in eligible : b < a}) < MaxConcurrency}

\* Mutant of Pump: the newest ask of an actor goes first.
PumpNewest(A, q, cur, n, ph) ==
  \E picked \in {Picked(A, q, cur, n)} :
    /\ current' = [a \in Actor |-> IF a \in picked THEN Last(q[a]) ELSE cur[a]]
    /\ liveQueue' = [a \in Actor |-> IF a \in picked THEN Front(q[a]) ELSE q[a]]
    /\ activeAsks' = n + Cardinality(picked)
    /\ session' = [a \in Actor |-> IF a \in picked /\ session[a] = "none" THEN "creating"
                                   ELSE session[a]]
    /\ phase' = [c \in Call |-> IF \E a \in picked : c = Last(q[a]) THEN "opening" ELSE ph[c]]

\* Pumping the actors of A, from the queues q, the executing asks cur, n slots
\* taken and the phases ph; the first ask of an actor opens its session.
Pump(A, q, cur, n, ph) ==
  \E picked \in {Picked(A, q, cur, n)} :
    /\ current' = [a \in Actor |-> IF a \in picked THEN Head(q[a]) ELSE cur[a]]
    /\ liveQueue' = [a \in Actor |-> IF a \in picked THEN Tail(q[a]) ELSE q[a]]
    /\ activeAsks' = n + Cardinality(picked)
    /\ session' = [a \in Actor |-> IF a \in picked /\ session[a] = "none" THEN "creating"
                                   ELSE session[a]]
    /\ phase' = [c \in Call |-> IF \E a \in picked : c = Head(q[a]) THEN "opening" ELSE ph[c]]

----------------------------------------------------------------------------
(* Admission: admitAsk, drainAdmission, admitLive, releaseCachedAsk.         *)

\* The hold rule: position k of the actor is taken by the recorded ask that
\* claims it or, past the recorded ones, by the next fresh ask.
Filled(adm, k) ==
  \/ adm.recorded[k] # NoCall
  \/ /\ k >= adm.count
     /\ Cardinality({j \in adm.next..k : adm.recorded[j] = NoCall}) <= Len(adm.live)

\* Where drainAdmission stops.
Drained(adm) ==
  CHOOSE m \in adm.next..NCalls : ~Filled(adm, m) /\ \A k \in adm.next..(m - 1) : Filled(adm, k)

\* The asks it admits, in the order of their positions.
Released(adm) ==
  [i \in 1..(Drained(adm) - adm.next) |->
     LET k == adm.next + i - 1
     IN  IF adm.recorded[k] # NoCall THEN adm.recorded[k]
         ELSE adm.live[Cardinality({j \in adm.next..k : adm.recorded[j] = NoCall})]]

AfterDrain(adm) ==
  LET end == Drained(adm)
      fresh == Cardinality({j \in adm.next..(end - 1) : adm.recorded[j] = NoCall})
  IN  [adm EXCEPT !.next = end,
                  !.recorded = [k \in 0..NCalls |-> IF k < end THEN NoCall ELSE adm.recorded[k]],
                  !.live = SubSeq(@, fresh + 1, Len(@))]

Answer(c, out) == [call |-> c, out |-> out]

\* An ended row answers its call; a row left running and a new call go live.
Known(row) == row.out \in Outcome

\* Head(up) is the call c of an ask; it gets the next ordinal o of its site, and
\* adm is the admission state it joins: at its recorded position, or among the
\* fresh ones.
Joining(c, o) ==
  LET a == ActorOf[c]
      row == node[<<SiteOf[c], o>>]
  IN  IF row.out = "absent" THEN [admission[a] EXCEPT !.live = Append(@, c)]
      ELSE [admission[a] EXCEPT !.recorded[row.seq] = c]

\* Entry k of actor a's candidate is about this input.
Fits(a, k, input) == k + 1 \in DOMAIN Import[a] /\ Import[a][k + 1].input = input

\* Mutant of Follows: a recorded ask counts as imported if its input fits.
FollowsByInput(a, i, k, c) ==
  /\ Fits(a, k, Input[c])
  /\ node[i].out = "absent" /\ shut => Import[a][k + 1].pure

\* The ask c at position k, instance i, is still answered as its predecessor was: take
\* or takeIfPure for a new one, reconcileRecorded for one with a row.
Follows(a, i, k, c) ==
  /\ Fits(a, k, Input[c])
  /\ IF node[i].out = "absent" THEN shut => Import[a][k + 1].pure ELSE i \notin queued

\* Those of the asks admitted from position first on that do; the first that does not
\* makes the actor diverge for good.
Path(at, a, first, asks) ==
  {x \in DOMAIN asks :
     /\ ~imported[a].diverged
     /\ \A y \in 1..x : Follows(a, <<SiteOf[asks[y]], at[asks[y]]>>, first + y - 1, asks[y])}

\* tryImportedSettle and admitLive journal the asks without an ended row: the imported
\* answer, or a running row before anything else happens to the ask.
Journaled(at, a, first, asks) ==
  [i \in Instance |->
     IF \E x \in DOMAIN asks : i = <<SiteOf[asks[x]], at[asks[x]]>> /\ ~Known(node[i])
     THEN LET x == CHOOSE y \in DOMAIN asks : i = <<SiteOf[asks[y]], at[asks[y]]>>
          IN  [actor |-> a, seq |-> first + x - 1, input |-> Input[asks[x]],
               out |-> IF node[i].out = "absent" /\ x \in Path(at, a, first, asks)
                       THEN Import[a][first + x].out ELSE "running"]
     ELSE node[i]]

NextCall(c) == Live /\ up # <<>> /\ c = Head(up)

RowOf(c, o) == node[<<SiteOf[c], o>>]

\* A row that was recorded for another input fails the run.
InputHashMismatch(c) ==
  /\ NextCall(c)
  /\ \E o \in {ordinal[SiteOf[c]] + 1} :
       RowOf(c, o).out # "absent" /\ RowOf(c, o).input # Input[c]
  /\ SettleRun("errored")

\* Mutant of Matches: a row answers whatever is asked at its place.
MatchesAnything(c, o) == TRUE

Matches(c, o) == RowOf(c, o).out # "absent" => RowOf(c, o).input = Input[c]

\* What follows when ask c joins its actor's admission adm: the asks this admits have
\* their rows, those answered are told, those that go live wait for their turn.
Admit(c, o, adm, at, asks, rows, answered, live) ==
  LET a == ActorOf[c]
      instance(x) == <<SiteOf[x], at[x]>>
      path == Path(at, a, adm.next, asks)
      q == [liveQueue EXCEPT ![a] = @ \o live]
      ph == [x \in Call |-> IF x \in ToSet(live) THEN "queued"
                            ELSE IF x \in ToSet(answered) THEN "answered"
                            ELSE IF x = c THEN "held" ELSE phase[x]]
  IN  /\ ordinal' = [ordinal EXCEPT ![SiteOf[c]] = o]
      /\ inst' = at
      /\ seq' = [x \in Call |-> IF x \in ToSet(asks)
                                THEN adm.next + (CHOOSE i \in DOMAIN asks : asks[i] = x) - 1
                                ELSE seq[x]]
      /\ admission' = [admission EXCEPT ![a] = AfterDrain(adm)]
      /\ node' = rows
      /\ queued' = queued \union {instance(x) : x \in ToSet(live)}
      /\ imported' = [imported EXCEPT
           ![a].consumed = IF path = {} THEN @ ELSE adm.next + Cardinality(path),
           ![a].diverged = @ \/ path # DOMAIN asks]
      /\ down' = down \o [i \in DOMAIN answered |-> Answer(answered[i], rows[instance(answered[i])].out)]
      /\ lastEvent' = IF asks # <<>> THEN "other" ELSE lastEvent
      /\ Pump(IF RowOf(c, o).out = "absent" THEN Actor ELSE {a}, q, current, activeAsks, ph)

AdmitAsk(c) ==
  /\ NextCall(c) /\ c \notin World
  /\ \E o \in {ordinal[SiteOf[c]] + 1} : \E adm \in {Joining(c, o)}, at \in {[inst EXCEPT ![c] = o]} :
     \E asks \in {Released(adm)} :
     \E rows \in {Journaled(at, ActorOf[c], adm.next, asks)} :
     \E ended \in {{x \in ToSet(asks) : Known(rows[<<SiteOf[x], at[x]>>])}} :
     \E answered \in {Only(asks, ended)}, live \in {Only(asks, ToSet(asks) \ ended)} :
       Matches(c, o) /\ Admit(c, o, adm, at, asks, rows, answered, live)
  /\ up' = Tail(up)
  /\ UNCHANGED <<closed, runRow, mode, lives, repairs, nudges, shut, cursor, seen, ending, history>>

\* The process dies while drainAdmission is journaling the asks it admits, after the
\* n-th row and before or after its event.
CrashAdmitting(c) ==
  /\ NextCall(c) /\ c \notin World
  /\ \E o \in {ordinal[SiteOf[c]] + 1}, a \in {ActorOf[c]} :
     \E adm \in {Joining(c, o)}, at \in {[inst EXCEPT ![c] = o]} :
     \E asks \in {Released(adm)} : \E n \in DOMAIN asks, recorded \in BOOLEAN :
       LET instance(x) == <<SiteOf[asks[x]], at[asks[x]]>>
           rows == Journaled(at, a, adm.next, SubSeq(asks, 1, n))
       IN  /\ Matches(c, o)
           /\ node' = rows
           /\ queued' = queued \union {instance(x) : x \in {y \in 1..n :
                            ~Known(rows[instance(y)]) /\ (y = n => recorded)}}
           /\ torn' = (torn \/ (~recorded /\ ~Known(rows[instance(n)]) /\ instance(n) \notin queued))
  /\ mode' = "down" /\ Wiped
  /\ UNCHANGED <<runRow, lastEvent, closed, lives, told>>

----------------------------------------------------------------------------
(* Executing an ask: dispatch, ensureSession, the driver's reports.          *)

InstanceOf(c) == <<SiteOf[c], inst[c]>>

SessionOpens(a) ==
  /\ Live /\ session[a] = "creating"
  /\ \E s \in {"ready", "failed"} : session' = [session EXCEPT ![a] = s]
  /\ UNCHANGED <<journal, mode, lives, ordinal, inst, seq, admission, liveQueue, current,
                 activeAsks, phase, repairs, nudges, cache, sandbox, history>>

\* The session is there: the ask starts.
Dispatch(c) ==
  /\ Live /\ phase[c] = "opening" /\ session[ActorOf[c]] = "ready"
  /\ phase' = [phase EXCEPT ![c] = "running"]
  /\ lastEvent' = "other"
  /\ UNCHANGED <<node, runRow, events, mode, lives, ordinal, inst, seq, admission, liveQueue,
                 current, session, activeAsks, repairs, nudges, cache, sandbox, history>>

\* settleOk, settleFailed and finishLiveNode: the row first, then the slot, the
\* other actors, and the script's promise.
SettleAsk(c, out) ==
  /\ node' = [node EXCEPT ![InstanceOf(c)].out = out]
  /\ lastEvent' = "other"
  /\ Pump(Actor, liveQueue, [current EXCEPT ![ActorOf[c]] = NoCall], activeAsks - 1,
          [phase EXCEPT ![c] = "answered"])
  /\ down' = Append(down, Answer(c, out))
  /\ UNCHANGED <<runRow, events, mode, lives, ordinal, inst, seq, admission, repairs, nudges,
                 cache, up, seen, ending, history>>

\* A session that could not be created; the rejected promise is kept.
OpenFails(c) ==
  /\ Live /\ phase[c] = "opening" /\ session[ActorOf[c]] = "failed"
  /\ SettleAsk(c, Failure)

Executing(c) == Live /\ phase[c] = "running" /\ c \notin World

\* submit_result with a valid payload, or the end of an untyped ask's turn.
Accept(c) == Executing(c) /\ \E r \in Result : SettleAsk(c, r)

Retry(c) ==
  /\ lastEvent' = "other"
  /\ UNCHANGED <<node, runRow, events, mode, lives, ordinal, inst, seq, admission, liveQueue,
                 current, session, activeAsks, phase, cache, sandbox, history>>

\* Mutant of Repair: the budget is not consulted.
RepairForever(c) ==
  /\ Executing(c) /\ c \in Typed
  /\ repairs' = [repairs EXCEPT ![c] = @ - 1]
  /\ Retry(c) /\ UNCHANGED nudges

\* submit_result with an invalid payload.
Repair(c) ==
  /\ Executing(c) /\ c \in Typed
  /\ \/ /\ repairs[c] > 0
        /\ repairs' = [repairs EXCEPT ![c] = @ - 1]
        /\ Retry(c) /\ UNCHANGED nudges
     \/ repairs[c] = 0 /\ SettleAsk(c, Failure)

\* The turn of a typed ask ends without submit_result.
Nudge(c) ==
  /\ Executing(c) /\ c \in Typed
  /\ \/ /\ nudges[c] > 0
        /\ nudges' = [nudges EXCEPT ![c] = @ - 1]
        /\ Retry(c) /\ UNCHANGED repairs
     \/ nudges[c] = 0 /\ SettleAsk(c, Failure)

AskFailed(c) == Executing(c) /\ SettleAsk(c, Failure)

\* askMutating: a subagent is about to change the workspace.
Mutating(c) ==
  /\ Executing(c) /\ Amended /\ ~shut
  /\ shut' = TRUE /\ closed' = TRUE /\ lastEvent' = "other"
  /\ UNCHANGED <<node, runRow, queued, mode, lives, ordinal, inst, seq, admission, liveQueue,
                 current, session, activeAsks, phase, repairs, nudges, imported, cursor, sandbox,
                 history>>

----------------------------------------------------------------------------
(* World operations: readWorld and settleWorldRead.                          *)

\* The record of this input that the import has for its next occurrence.
Recorded(c) == ~shut /\ cursor[Input[c]] < Len(ImportWorld[Input[c]])

ReadWorld(c) ==
  /\ NextCall(c) /\ c \in World
  /\ \E o \in {ordinal[SiteOf[c]] + 1} :
       LET i == <<SiteOf[c], o>>
           row(out) == [actor |-> NoActor, seq |-> 0, input |-> Input[c], out |-> out]
           answer(out) == down' = Append(down, Answer(c, out)) /\ phase' = [phase EXCEPT ![c] = "answered"]
       IN  /\ Matches(c, o)
           /\ ordinal' = [ordinal EXCEPT ![SiteOf[c]] = o]
           /\ inst' = [inst EXCEPT ![c] = o]
           /\ \/ /\ Known(node[i])
                 /\ answer(node[i].out)
                 /\ UNCHANGED <<node, events, shut, cursor>>
              \/ /\ ~Known(node[i]) /\ Recorded(c)
                 /\ LET out == ImportWorld[Input[c]][cursor[Input[c]] + 1]
                    IN  node' = [node EXCEPT ![i] = row(out)] /\ answer(out)
                 /\ cursor' = [cursor EXCEPT ![Input[c]] = @ + 1]
                 /\ UNCHANGED <<events, shut>>
              \/ /\ ~Known(node[i]) /\ ~Recorded(c)
                 /\ node' = [node EXCEPT ![i] = row("running")] /\ queued' = queued \union {i}
                 /\ phase' = [phase EXCEPT ![c] = "running"]
                 /\ shut' = (shut \/ c \in WorldRun) /\ closed' = (closed \/ (Amended /\ c \in WorldRun))
                 /\ UNCHANGED <<down, cursor>>
  /\ lastEvent' = "other"
  /\ up' = Tail(up)
  /\ UNCHANGED <<runRow, mode, lives, seq, admission, liveQueue, current, session, activeAsks,
                 repairs, nudges, imported, seen, ending, history>>

\* An operation that ends after the run has settled leaves no trace.
WorldSettles(c) ==
  /\ c \in World /\ phase[c] = "running"
  /\ phase' = [phase EXCEPT ![c] = "answered"]
  /\ \/ /\ Live
        /\ \E out \in Outcome :
             /\ node' = [node EXCEPT ![InstanceOf(c)].out = out]
             /\ down' = Append(down, Answer(c, out))
        /\ lastEvent' = "other"
     \/ ~Live /\ UNCHANGED <<node, down, lastEvent>>
  /\ UNCHANGED <<runRow, events, mode, lives, ordinal, inst, seq, admission, liveQueue, current,
                 session, activeAsks, repairs, nudges, cache, up, seen, ending, history>>

----------------------------------------------------------------------------
(* The script hears an answer, makes the calls it was waiting to make and     *)
(* perhaps ends.  Nothing it hears after its end matters.                     *)

Hear(m) ==
  LET heard == [seen EXCEPT ![m.call] = m.out]
      throws == m.call \in Fatal /\ m.out = Failure
  IN  /\ seen' = heard
      /\ told' = [told EXCEPT ![m.call] = IF @ = None THEN m.out ELSE @]
      /\ up' = IF throws THEN up ELSE up \o Issued(seen, heard)
      /\ ending' = IF throws THEN "threw"
                   ELSE IF \A c \in Final : heard[c] # None THEN "returned" ELSE "open"

Deliver ==
  /\ Live /\ down # <<>>
  /\ down' = Tail(down)
  /\ IF ending = "open" THEN Hear(Head(down)) ELSE UNCHANGED <<up, seen, ending, told>>
  /\ UNCHANGED <<journal, mode, lives, engine, torn>>

----------------------------------------------------------------------------
Next ==
  \/ Launch \/ Resume \/ Reconcile \/ Crash
  \/ Complete \/ Throw \/ Stop \/ Deliver
  \/ \E c \in Call :
       \/ InputHashMismatch(c) \/ AdmitAsk(c) \/ CrashAdmitting(c) \/ Dispatch(c) \/ OpenFails(c)
       \/ Accept(c) \/ Repair(c) \/ Nudge(c) \/ AskFailed(c) \/ Mutating(c)
       \/ ReadWorld(c) \/ WorldSettles(c)
  \/ \E a \in Actor : SessionOpens(a)

Spec == Init /\ [][Next]_vars

\* The driver answers every session it is asked for, ends every ask it was
\* given and every world operation; the pipes of the sandbox deliver.
Fairness ==
  /\ WF_vars(Deliver) /\ WF_vars(Complete) /\ WF_vars(Throw)
  /\ \A a \in Actor : WF_vars(SessionOpens(a))
  /\ \A c \in Call :
       /\ WF_vars(InputHashMismatch(c) \/ AdmitAsk(c) \/ ReadWorld(c))
       /\ WF_vars(Dispatch(c) \/ OpenFails(c))
       /\ WF_vars(Accept(c) \/ Repair(c) \/ Nudge(c) \/ AskFailed(c))
       /\ WF_vars(WorldSettles(c))

FairSpec == Spec /\ Fairness

----------------------------------------------------------------------------
(* Properties.                                                               *)

Admission ==
  [count : 0..NCalls, next : 0..NCalls, recorded : [0..NCalls -> Call \cup {NoCall}],
   live : Seq(Call)]

\* The variables keep their types; no retry budget is overdrawn.
TypeOK ==
  /\ node \in [Instance -> Row \cup {Absent}]
  /\ runRow \in {"absent", "running", "stopped", "superseded", "completed", "errored"}
  /\ lastEvent \in {"none", "run-started", "other", "run-settled"}
  /\ mode \in {"live", "settled", "down"} /\ lives \in 0..MaxLives
  /\ ordinal \in [Site -> 0..NCalls] /\ inst \in [Call -> 0..NCalls]
  /\ seq \in [Call -> 0..NCalls]
  /\ admission \in [Actor -> Admission]
  /\ liveQueue \in [Actor -> Seq(Call)]
  /\ current \in [Actor -> Call \cup {NoCall}]
  /\ session \in [Actor -> {"none", "creating", "ready", "failed"}]
  /\ activeAsks \in 0..MaxConcurrency
  /\ phase \in [Call -> {"idle", "held", "queued", "opening", "running", "answered", "aborted"}]
  /\ repairs \in [Call -> 0..RepairAttempts] /\ nudges \in [Call -> 0..NudgeAttempts]
  /\ up \in Seq(Call) /\ down \in Seq([call : Call, out : Outcome])
  /\ seen \in [Call -> Outcome \cup {None}] /\ told \in [Call -> Outcome \cup {None}]
  /\ ending \in {"open", "returned", "threw"}
  /\ queued \subseteq Instance /\ closed \in BOOLEAN /\ shut \in BOOLEAN /\ torn \in BOOLEAN
  /\ imported \in [Actor -> [consumed : 0..NCalls, diverged : BOOLEAN]]
  /\ cursor \in [DOMAIN ImportWorld -> 0..NCalls]

\* An ask executes only when every ask before it in its actor's conversation has
\* its answer in the journal, those recorded in an earlier life included.
ConversationInOrder ==
  \A c \in Call \ World : Live /\ phase[c] = "running" =>
    \A i \in RecordedAsks(ActorOf[c]) : node[i].seq < seq[c] => node[i].out \in Outcome

\* The asks an actor took over from the predecessor: answered without having run.
Inherited(a) == {i \in RecordedAsks(a) : node[i].out \in Outcome /\ i \notin queued}

\* An actor inherits the beginning of a conversation and nothing behind its first live ask,
\* and what its session is seeded with is what it inherited, in whichever lives that was:
\* "this derivation is exact, not a conservative approximation" (reconcileRecorded).  Not
\* so if the process died between the row of a live ask and its event (README, section 4).
InheritsPrefix ==
  ~torn => \A a \in Actor :
    /\ \A i \in Inherited(a), j \in RecordedAsks(a) : node[j].seq < node[i].seq => j \in Inherited(a)
    /\ Live => imported[a].consumed =
                  Cardinality({i \in Inherited(a) : node[i].seq < admission[a].next})

\* Once the run has written to the workspace, in this life or an earlier one, no answer that
\* its predecessor got by looking at the workspace is taken over (closeImportCache,
\* recoverImportClosure, takeIfPure).
StaleAnswersStayOut ==
  [][\A a \in Actor : \A i \in RecordedAsks(a)' :
       node[i].out = "absent" /\ node'[i].out \in Outcome /\ closed => Import[a][node'[i].seq + 1].pure]_vars

\* A record of a world operation is served once: "the n-th occurrence gets the n-th record"
\* (ImportedWorldQueue).  It does not hold: the cursors start again with every life.
RecordsServedOnce ==
  \A k \in DOMAIN ImportWorld :
    Cardinality({i \in Instance \ queued : node[i].actor = NoActor /\ node[i].input = k
                                           /\ node[i].out \in Outcome}) <= Len(ImportWorld[k])

\* An answer is the answer to what was asked: calls of two chains that share a site may
\* swap their places when the script runs again, and then the run fails loudly instead of
\* one being told what was said to the other (the input hash, hashMismatch).
AnswersFitInputs ==
  \A c \in Call :
    /\ seen[c] # None => node[InstanceOf(c)].input = Input[c]
    /\ Live /\ phase[c] = "answered" => RowOf(c, inst[c]).input = Input[c]

\* An answer recorded for one actor's ask is never given to another's: "a
\* mismatch fails the whole run loudly ... and never drifts silently"
\* (the header of engine.ts).
AnswersStayWithActor ==
  \A c \in Call : seen[c] # None => node[InstanceOf(c)].actor = ActorOf[c]

\* A run fails only because its script threw, never because its own journal does
\* not fit it: "first execution and replay are identical word for word" (the
\* header of engine.ts).
ReplayFits ==
  [][runRow' = "errored" /\ runRow # "errored" => ending = "threw"]_vars

\* A life ends: no ask waits for ever behind the hold rule, the order of its
\* actor or the concurrency bound.
RunSettles == mode = "live" ~> mode # "live"

----------------------------------------------------------------------------
(* The promise to script and user.                                           *)

Durable ==
  INSTANCE DurableRun WITH
    answer <- [c \in Call |-> IF seen[c] # None THEN seen[c] ELSE told[c]],
    status <- IF runRow \in {"absent", "running", "stopped"} THEN "open" ELSE runRow

\* Through crashes, stops and resumes the run implements DurableRun.
DurablePromise == Durable!Spec

=============================================================================
