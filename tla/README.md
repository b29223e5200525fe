# AceVra: formal models

AceVra is a desktop and server workspace in which AI agents work on a user's projects: a TypeScript
monorepo with an agent runtime (`src/apps/zcode-cli`), an Electron host, a web client and a relay
that brings them together (`src/packages`).  This directory holds TLA+ models of the parts whose
correctness depends on interleavings, failures, timers and retries rather than on one call, the TLC
runs that check them and proofs about them.

Every module is written from the source; a definition carries the name of the function it models
where it can, and `PROJECT.json` maps each one to its lines.  Where a comment or a document of the
repository says something else than the code does, the model follows the code and a run shows the
difference (section "Disagreements").

## 1. Inventory

| Component | State it keeps | Operations | Talks to | Modelled in |
|---|---|---|---|---|
| Adaptive concurrency controller (`dynamic-workflow/src/engine/concurrency.ts`) | cap, in-flight count, success streak, Retry-After window, last good and bad level, epoch | observe, canAdmit, admitted, succeeded, throttled, failedTransient, ended, waiters, idleReset | called by the governor | ConcurrencyController |
| Concurrency governor (`bootstrap/src/app/workflow-concurrency-governor.ts`) | one bucket per provider key: controller, a queue per run in insertion order, rotation cursor, wake-up timer, tickets | tryAdmit, admit, abort, ticket events, release, drain, wake-up, observer | every run's model requests and the main agent; tells runs of cap changes | ConcurrencyGovernor |
| Workflow engine (`dynamic-workflow/src/engine`) | journal of nodes and events, admission per actor, queues, slots, retry budgets, sessions | admit an ask, hold and release, dispatch, settle, repair, nudge, world operations, settle the run | sandbox over two FIFOs, driver, journal store | WorkflowEngine, DurableRun |
| Import cache of amended runs (`imported-cache.ts`) | per actor what it may still inherit, a cursor per world operation, whether the cache is closed | take, takeIfPure, reconcileRecorded, close | engine | WorkflowEngine |
| Sandbox harness (`dynamic-workflow-runtime`) | pending promises of the script | request, answer, complete, throw | engine | WorkflowEngine (calls and answers only) |
| Run service (`bootstrap/src/app/dynamic-workflow-run-*.ts`) | rows of runs, registry of entries, order of settlements, calls on their way | submit, amend, resume, cancel, book a settlement, evict, close, reconcile | engines, session store, other instances | WorkflowRuns |
| Conversation topic (`bootstrap/src/zcode-protocol-v4`, `services/src/zcode-agent`) | log of a runtime, subscriber buffer, timers, flow control, route | ingest, flush, subscribe, resync, unsubscribe, rehydrate, recycle | page, runtime | ConversationWire, ConversationTopic |
| Conversation store of the page (`ui/src/v4`) | what is shown, calls on their way, barrier, decoder, retries | connect, apply a frame, recover, retry, close | host and agent | ConversationStore, ConversationSync |
| Command inbox (`command-inbox.ts`, `v4-gateway.ts`, `persistent-command-facts.ts`) | pins, settled answers, cached facts; rows and transcript | command, query, load, promote, delete, deactivate | clients, agent runtime, stores | CommandInbox, InputFate |
| Fork relay (`server/src/customForkRelay.ts`, routes in `http.ts`) | the Mac's presence, attachments, setup timers | register presence, create, attach, pipe and dispose an attachment | browsers, the Mac | ForkRelay |
| Mac's end of the relay (`desktop/src/host/customForkHostRelay.ts`) | presence socket and generation, reconnect timer, attachment sockets and channel servers | connect, handle control frames, open and forget attachments, dispose | relay, channel server | ForkRelay |
| Fork web page (`web/src/customForkRemoteApp.tsx`) | generation, tracked timer, socket, state shown | connect, retry, restored, unmount | relay and direct server by tickets and WebSocket | ForkRemoteApp |
| RPC channels (`rpc/src/channelClient.ts`, `channelServer.ts`) | pending calls, handlers, requests queued before Initialize and before a channel is registered | call, cancel, listen, unlisten, Initialize, dispose; execute, return, fire, time out, flush | every service over IPC, MessagePort or WebSocket | RpcChannel |
| Rest of the protocol v4 gateway | open interactions, uploads, queue of prompts | answer an interaction, upload, drain the queue | clients and agent runtime | planned |
| Agent runtime (`core/src/runtime`, `runtime-task`, `subagent`, `permission`) | command queue, turns, steering, tasks, permission requests | enqueue, steer, interrupt, complete | providers, tools, gateway | planned |
| Remote deployment, plugin seed lock, desktop scheduler | lock directories, asset cache, due tasks | acquire, recover a stale owner, claim | other processes | planned |
| Services, model providers, user interfaces, compiler, reports | files, requests, rendering | mostly one call at a time | | not planned |

`PROJECT.json` lists them all with their sources and, for those without a module, the reason.

**What is hard in them.**
*Interleaving*: the governor is shared by every run and by the main agent; the Mac, the relay and
the browsers each act on half-open sockets; the session pool deactivates a session between the
awaits of a command.
*Ordering*: the engine must give an actor its asks in the recorded order although the answers that
lead to them race; closes of old sockets arrive after the opening of new ones; a frame overtakes
the ACK of the subscription it belongs to.
*Crashes*: a process may die between any two writes to the journal, and between the row of a prompt
and what becomes of it; the relay restarts with empty maps; a run's successor is named before it
exists.
*Timers and retries*: Retry-After, setup, reconnect and restored timers, requests that time out
while they wait for a channel, commands sent again.
*Staleness*: the cap a rejected request was sent under, the presence a close belongs to, the
generation of a reconnect, the facts a command is looked up in, the gate a resume passed before it
waited for its import table.
*Limits*: a subscriber's buffer, the retained log, the answers an inbox and the runs a registry
keep.
The concrete hazards, each at its line, are listed under "hazards" in `PROJECT.json`
together with the properties that cover them.

**What makes each of them correct**, in a sentence:
the governor admits within the cap, counts its slots exactly, strands and starves nobody;
the engine answers each call once, in a fixed order per actor, whatever crashes and resumes happen,
and an amended run inherits a prefix of each conversation and no answer about a changed workspace;
the run service loses no engine it owns, and a superseded run that is over stays so;
the page shows a prefix of one log and catches up with it;
the inbox runs a prompt once and never forgets one it accepted;
the relay gives each browser its own channel server or the end of its socket, and both ends release
what they hold;
the fork page makes one attempt at a time, shows what is true and comes back;
a call is executed at most once, settles, and a subscription lives as long as its listeners.

## 2. Modules

### ConcurrencyController, ConcurrencyGovernor, MCGovernor
The controller is a pure state machine in the code, and operators on a record here; the governor
owns the variable.  Every action of ConcurrencyGovernor is one synchronous call into the governor
with the `drain()` it ends in (`DrainAndArm`), so no state between the two is visible, as in the
code.  A request goes `idle -> announced -> waiting -> inflight -> settled -> idle`; "announced" is
the await between a missed fast path and `acquire`, and "settled" a ticket whose `release()` is
still to come.  Times are relative to now (time left of a Retry-After, time since the last
admission), which is all the code compares, and epochs are a flag per request ("sent under the
present cap").  The loop of `drain()` is the recursive function `Looped`, at most one turn per
request.  Variables `cut`, `embargo`, `quiet` and `bypass` are history, read by properties only.

### WorkflowEngine, DurableRun, MCWorkflow
The script is a parameter: its host calls in program order, the site and the actor of each, the
answers each call waits for, what its input hash covers, and which answers end it.  `journal` is
durable (a row per instance, that is site and ordinal; the run row; the last event); `engine` and
`sandbox` belong to one life and are `Wiped` by a crash.  `AdmitAsk` is the whole of the engine's
`onAsk`: ordinal, hash comparison, joining the actor's admission record, the hold rule
(`drainAdmission`), the running rows, cached answers, and the pump.  `CrashAdmitting` and
`TornFinish` are the process dying between two writes of one call.

An amended run inherits answers from its predecessor.  The table it inherits from is a constant:
`Import`, the answers an actor may take, in order, and `ImportWorld`, the records of each world
operation.  What is left of it is not stored: the `cursor`s, and whether an actor was `shut` or the
cache `closed`, are derived again in each life from the rows and events of the run
(`reconcileRecorded`), and `torn` is history: a life ended between the row of a fresh ask and its
event, which is what that derivation reads.

DurableRun is the abstract specification: each call has one answer, in an order the script allows,
never changed; the run ends once, as its answers say.  `DurablePromise` is the refinement, through
crashes and resumes.

### WorkflowRuns, MCWorkflowRuns
One session's runs above the engine.  An entry of the registry is `live` from the call that
launches it to the call that stops it, `ended` until its settlement is booked some microtasks
later (`Book`), then `booked` until it is evicted; an engine that cannot be built leaves an entry
that ends as failed.  `row` is what the store keeps, "finished" standing for completed and errored.
A caller of amend or resume is at one of its awaits: the predecessor's settlement, the import
table, the building of the new launch; a resume of an amended run awaits its table after its gate.
`Foreign` is another desktop instance that reconciles this one's rows.  `Close` may come at any
time, under a call too: the service looks for it only where a call begins (`assertOpen`), so a call
at an await goes on and launches.  The next instance of the service (`Activate`) begins when nothing
of the last one is left.  The number of callers is a constant, `Caller`; MCWorkflowRuns adds the
symmetry among them.

### ConversationWire, ConversationTopic, ConversationStore, ConversationSync, ConversationPromise
ConversationWire is what is on its way: requests, replies and topic frames, each in order and in no
order between them, with frames that are lost or repeated.  ConversationTopic is the agent and the
host's route: the log of each runtime (an epoch), retention, one subscriber's buffer, flush timer
and flow control; a reserved frame is sent behind its ACK and committed a step later.
ConversationStore is the page's store: every handler is a function of the store's record, what it
sends is collected and leaves with the step.  ConversationSync composes them.  ConversationPromise
is the abstract specification: what is shown is, row for row, a prefix of the log of one runtime,
and only moves on; `KeepsPromise` is the refinement.  An event is the runtime that wrote it and
its number; a profile that hides some events is the constant `Hidden`.  Which disturbances may come
together is a constant (`Plans`), and MCConversation defines the sets the runs use.

### CommandInbox, InputFate, MCCommandInbox
The commands of one session that carry a prompt.  A request is handled in stages, one per await:
lookup in memory, the load of the facts and the reading of the rows of discarded inputs, the
verdict, the row, the hand-over to the runtime, and the answer.  The transport hands over one
request at a time (`transport.ts`), so the gates and in-flight answers of the inbox never meet a
second one and are not modelled; what does come between is the runtime (promotion, deletion of a
queued prompt, a hook that blocks it), the deactivation of the session, and the end of the
process.  `index` is the cached facts, whose `load` begins, reads and ends in separate steps and is
invalidated in between.  InputFate is the abstract specification: a prompt is taken at most once
at a time and enters the transcript at most once, and "unknown", "failed" and "lost" are said only
of one that is not on its way; `FatePromise` is the refinement.  `told` is history.

### ForkRelay, MCForkRelay
Relay and Mac in one module, since all they do is react to each other.  A socket has a far end (Mac
or browser) and a near end (relay), each `connecting`, `open`, `closing` or `closed`; a broken
connection is noticed by each end in its own time, and the relay may accept a request whose sender
has given up.  Control frames are sequences per presence socket.  Of the piped bytes there is only
the Initialize frame, the one that is said once and must not be lost.  `RelayRestart` empties the
relay's maps and breaks every socket.  One Mac is modelled; tickets are valid or not.

### ForkRemoteApp, MCForkRemoteApp
The page's controller.  `generation`, `socket`, `tracked` and `wasOnline` are its refs; `timers` is
what will fire whether or not a ref still knows it, which is where its difficulty lies.  An attempt
fetches, dials, opens, fails or closes; each callback compares generations exactly where the code
does.  Delays are reduced to the order of timers that can be pending together.

### RpcChannel, MCRpcChannel
One client, one server, an ordered transport that may end with what it carries.  A request is its
id.  Calls wait for Initialize (`queued`), or on the server for their channel (`pending`, each with
its timer, flushed by a timer that `registerChannel` sets).  Events are subscribed by their first
listener and disposed of by their last.  `EndsClient` says whether whoever made the client disposes
it when the transport ends.  Left out: names, arguments and results, calls that answer with their
own error, and Events that are kept by a caller after the client was disposed.

### Modules with proofs
ConcurrencyGovernor_proofs, WorkflowEngine_proofs, WorkflowRuns_proofs, CommandInbox_proofs,
ConversationSync_proofs, ForkRelay_proofs and RpcChannel_proofs, each extending the module it is
named for (RpcChannel_proofs also ForkRemoteApp, whose names carry a `Page` where both have one),
and Subsequence_proofs, the lemmas about `Only` and about finite sets they share; section 5.
Subsequence defines `Only`, JavaScript's `filter`, as a recursive function: the library's
`SelectSeq` is a RECURSIVE operator, about which nothing can be proved.

## 3. Runs

| Run | Question | Instance |
|---|---|---|
| governor_gate | bounds of the cap, the proven level, slots, queues, gate, order, one cut per batch, announcements | a run with a fan-out of 2, one request of which may abort, and the main agent; ceiling 3, streak 2, reset 2, Retry-After 0 or 1 |
| governor_progress | every waiter leaves | run a (2), run b; ceiling 2, streak 1, reset 2, Retry-After 1 |
| workflow_fanin | conversation order, inherited prefixes, answers of a changed workspace, the promise, every life ends | an actor that inherits two answers, asked at once, after a typed ask of another actor that may end the script, and after an effect on the workspace; 5 calls, 1 slot, 3 lives |
| workflow_drift | answers fit the inputs they are given to | two chains sharing two sites; 4 calls, 2 slots, 3 lives |
| runs_races | an owned engine stays owned, a superseded run that is sealed stays so, its successor comes | 3 runs, 2 entries, 2 callers, a registry that keeps 1 settled run, 1 fault |
| conversation_faults | agreement on the subscription, one mishap healed by itself, the promise, catching up, release | 2 events, 2 runtimes, 2 mishaps, a buffer of 1, a retained log of 1, 3 retries |
| inbox_life | pins, answers after "accepted", the fate of a prompt | 2 commands, 4 answers, a table of 1, 1 end of the process |
| relay_faults | presence, disposal, served or closed, the Mac's side released, online again | 1 browser, 3 presences, 1 fault |
| page_reconnects | single flight, connected in the end | 4 faults, 6 generations |
| rpc_calls | at most once, every call settles | 2 calls and an event, one call and the event late |

**Why the bounds are enough.**
*Governor*: a ceiling of 3 has two different cuts (3 to 2 by the factor, 2 to 1), a level to prove
and to fall back to; a fan-out of two is the least with an order in a queue, a second run the least
with a rotation.  The clock is not bounded (relative times saturate at the values they are compared
with), so the state space is finite without a limit on ticks or requests: each request slot is used
again for ever.  Liveness is checked with a ceiling of 2, where TLC's graph search is still short,
and without the main agent: its `acquire` may reset the idle controller just before the wake-up
and leave the waiter where it is, again and again.
*Engine*: two lives are one replay, the third a replay of a replay; the fan-in is the smallest
script in which the order of a conversation is decided by a race, and its one slot makes the actors
wait for each other.  Two inherited answers are a prefix that can be taken in part; the effect on
the workspace comes before, between or after them.  In workflow_drift the hashes differ, so every
mismatch of chain and ordinal is met.
*Run service*: three runs are a chain of two amendments; one settled run kept makes every second
settlement an eviction; the fault is a crash, a launch that throws, or another instance.  Two callers
are two calls at an await at once, in any pair of stages, with a close under either; an entry is used
again once nothing stands for it, so two are enough for a run, its second engine and a successor
that follows when one of them is gone.  The theorems hold for any number of each.
*Conversation*: two mishaps are either the end of a runtime with a lost frame, or any two of a
frame lost or repeated, a saturated connection, a rehydrated projection, a stale command and the
page's close.  Two events with a buffer and a retained log of one overflow both.
*Inbox*: two commands and a table of one make every answer evict one; four answers are a command,
its repeat, and both again on the far side of a deactivation or an end of the process.
*Relay*: two presences are a replacement, the third follows a fault.
*Page*: `MaxGenerations` is at least `MaxFaults + 2`, so the bound never stops a mounted page: each
generation but the first follows a fault.
*RPC*: one request of each kind; ids are not reused, and calls meet each other only in the queues.

Symmetry is used in inbox_life (the commands) and in runs_races (the callers) only, which have no
liveness property.  The names of the properties
and a line on each are in the modules, with the mutant that breaks each
property beside the definition it mutates; `PROJECT.json` pairs them.

**Deadlock** is checked in the governor, which never stops.  Elsewhere the system may really stop:
a run that has settled in its last life, a session whose runs are all over, a page that was
unmounted or closed, an inbox that has given its last answer, a transport that has ended.

**Fairness.**  Governor: time passes, timers fire, `acquire` follows `onQueued`, and the runner
releases in its `finally` (providers need not answer; a ticket is released when its request
ends).  Engine: the driver answers every session, ends every ask and every world operation; the
pipes deliver; nothing obliges anybody to resume or to stop a run.  Run service: none, its properties are about
safety, and that an amendment ends by launching its successor is not claimed.  Conversation: timers fire, what was sent is handled, a saturated connection drains, and a
request starts the runtime; nobody has to write or to click.  Inbox: none, its properties are about
safety.  Relay: requests that reach the
other end are answered, both ends notice the end of a connection (TCP gives up at last), frames
arrive, timers fire; faults are not obliged to happen.  Page: fetches and dials end, closes are
heard, timers fire, a Mac that was away comes back.  RPC: services return, frames arrive, timers
fire, and a maker that disposes its client does so when the transport has ended.

## 4. Disagreements

Two are runs that TLC must find violated; the quotations and lines are in `PROJECT.json`.

| Run | What the code does |
|---|---|
| governor_stranded | an abort after the reset period cancels the wake-up of the waiters that stay |
| workflow_twice | after a resume the second occurrence of an effect is answered from the record that answered the first, and is never carried out |

The modules state further properties that a comment or the specification promises and that do not
hold.  Each is refuted by the instance named here, run in place of the properties of that cfg, with
`Spec` for a property that is not temporal.

| Property | Instance | What the code does |
|---|---|---|
| `BoundedBypass` (governor.ts:97) | MCGovernor_progress, `Request` {a1, a2, b1, m1}, `Ceiling` 1, `IncreaseAfter` 2, Retry-After 0 | main-agent requests reset the rotation cursor (:244): the first run is served again and again |
| `ForgetsOnlyWhenIdle` (concurrency.ts:36) | MCGovernor_gate | idle time counts from the last admission (:225): what was learned is forgotten although something was in flight until a moment ago |
| `ReplayFits` (scheduler.ts:105, engine.ts:4-5) | MCWorkflow_drift | chains that share a site reach it in another order on resume: the run fails on its own journal |
| `AnswersStayWithActor` (engine.ts:9) | MCWorkflow_drift with `Input` PipeSameInput | with equal instructions the replay gives one actor's answer to the other (scheduler.ts:113) |
| `InheritsPrefix` without its exception for `torn` lives (imported-cache.ts:79) | MCWorkflow_fanin | the row of a fresh ask is written before its event (scheduler.ts:173-190): after a crash between them its actor may inherit again |
| `EngineOwned` (lifecycle.ts:156) | MCWorkflowRuns_races, also with `Caller` {c1} and no fault | a call that passed the gate before close launches after it (submit.ts:153, :422): an engine nobody owns |
| `EngineOwned` (lifecycle.ts:156) | MCWorkflowRuns_races without `Close` | two resumes of one amended run pass the gate before either has its import table (submit.ts:366, :422): it gets two engines, one of which nobody owns |
| `SupersededIsFinal` (resume-workflow-run.ts:61) | MCWorkflowRuns_races without symmetry | a resume past its gate, whose run another caller resumes and amends meanwhile, launches without a second look (submit.ts:422-451) and sets the superseded run back to running |
| `SuccessorExists` (submit.ts:371) | MCWorkflowRuns_races | the row names its successor before it exists: a crash or a failed launch in between leaves a run that cannot be resumed and has no successor to see |
| `ConnectingHasOwner` (conversationProjectionStore.ts:579) | MCConversation_faults, `Plans` Restarts, `MaxMishaps` 1 | an available event trusts the connect on its way (:575), which an unavailable event before it made obsolete (:424, :565): nothing is on its way and nothing will be sent; `Converges` excepts these states |
| `Converges` | MCConversation_faults, `Plans` {{lose, rehydrate, saturate}}, `MaxMishaps` 3 | a projection rehydrated while a recovery frame is reserved sends its snapshot ahead of that frame: a page that waits for the recovery after two damaged frames drops the newer one, takes the older and lags until the next event |
| `CancelledStaysOut` (persistent-command-facts.ts:50) | MCCommandInbox_life | a refused command cancels its row and leaves the cached facts (v4-gateway.ts:2484, :2509): once its answer is evicted or the session deactivated, a repeat runs it although the row says cancelled |
| `PinsHaveOwners` (command-inbox.ts:239) | MCCommandInbox_life | a prompt a hook blocks (turn.ts:367) has no event that releases its pin: the session stays resident |
| `OnlineKeepsAttachments` (custom-fork-remote.md:77) | MCForkRelay_faults, `MaxPresence` 2, `MaxFaults` 2 | the late close of a replaced presence ends attachments of its successor (customForkRelay.ts:116) |
| `MountsInitialized` (custom-fork-remote.md:94) | MCForkRemoteApp_reconnects | services are mounted on open, before Initialize (customForkRemoteApp.tsx:161) |
| `TeardownIsFinal` (custom-fork-remote.md:115) | MCForkRemoteApp_reconnects | a failed dial leaves a timer the unmount cannot clear (customForkRemoteApp.tsx:183) |
| `OnlineIsConnected` (customForkRemoteApp.tsx:170) | MCForkRemoteApp_reconnects | the restored timer says online over a newer state |
| `OfflineNoticesMac` (customForkRemoteApp.tsx:45) | MCForkRemoteApp_reconnects with FairSpec | a page on the direct socket keeps waiting for a Mac that is back |
| `EveryCallSettles` (channelClient.ts:261) | MCRpcChannel_calls with `EndsClient` FALSE | `connectViaProtocol` (websocket.ts:123) makes a client that nobody disposes when the socket closes: its calls wait for ever |
| `NoOrphanSubscription` (foundation.ts:121) | MCRpcChannel_calls | a listener gone before Initialize still sends EventListen (channelClient.ts:161), and the disposal of a waiting one is dropped (channelServer.ts:222) |
| `ListenersHear` (foundation.ts:121) | MCRpcChannel_calls with `MaxListens` 2 | a listener that comes back to an Event it left hears nothing: the handler is gone (channelClient.ts:167) |

## 5. Proofs

Each theorem is about every value of the constants under the assumptions the modules state about
them, which TLC evaluates in every run; what else a theorem assumes is said here.

**The governor's state** (ConcurrencyGovernor_proofs).  For every set
of runs, every finite set of requests, every owner, ceiling, streak, reset period and Retry-After,
and with any of the requests aborting, the governor keeps its types and bounds (`TypeCorrect`),
counts its slots exactly (`SlotsAccounted`), never keeps a proven level above the cap
(`ProvenWithinCap`) and keeps queues, insertion order and waiting requests in agreement
(`QueuesConsistent`).
They follow from one inductive invariant, `IInv` (`Invariance`): typing, `SlotAccounting`,
`ProvenLevelBelowCap`, `QueuesAgree`, and that only requests of runs are announced.  None of the
four is inductive alone.  A drain serves the head of a queue and must find it waiting, so the slot
count needs the agreement of queues and phases; the agreement needs the types of the sequences; the
cap stays typed because the level it falls back to is not above it.  The steps are:

1. *Controller lemmas*: each operator takes a sane controller (typed, proven level at most the cap)
   to a sane one and changes `inFlight` by what its name says.
2. *The loop*: `Looped` is a recursive function of as many turns as there are requests.  The library's
   induction takes an operator as parameter, which the provers cannot instantiate, so `UpTo` derives
   induction over an interval from the least element of a finite set, and `LoopedStays` says that
   what `Turn` preserves, `Looped` preserves.  `TurnKeeps` shows what that is: the in-flight
   requests, those granted and those still queued partition what they were.
3. *The common tail*: `DrainAndArm` re-establishes `IInv` from what the caller hands to it.
4. *One lemma per action*, and the temporal theorems by PTL.

**The governor's steps** (ConcurrencyGovernor_proofs).  `GateIsHonoured`: no run's request is
admitted above the cap or inside a Retry-After.  `OneCutForABatch`: requests sent under one cap cut
it once.  `CapChangesAreHeard`: no run with a request in flight keeps an old cap.  The invariant is
`Steady`: `IInv`, that a request admitted before the latest cut is of an earlier epoch, and that
what providers asked for lies within the controller's window; each property is about what the call
itself and then its drain do, and the loop is again one turn preserved.  `FirstComersFirst`: within
a run requests are admitted in the order they joined.  In the loop each queue is what was handed to
it without some of its heads (`TurnServes`), so whoever stands before one that is granted has gone
too (`DrainServes`), and what is handed over starts with the queue as it was (`JoinedInOrder`).

**The engine** (WorkflowEngine_proofs).  Everything is for any script, table of inherited answers,
number of actors, slots, lives and budgets.  Four layers, each relative to the one below:

1. `IInv`, without further assumption, gives `TypeCorrect`, `AnswersFit` and `StaleAnswers`.  It
   says what is known of a call at each stage: `Issuing` (which calls are under way and in which
   order), `Numbered` and `Placed` (ordinals are counted per site, a row is of a call of its site
   with its input), `Holding` (what an admission holds), `Slotted` (queues, executing asks and the
   slot count), `Phased`, `Answering`, `Fitting`, `Served` and `Shutting` (what the import has
   given, and when it was closed).  Its core is a count.  `drainAdmission` releases asks until a
   position is not filled, and nothing in the code bounds the positions; the bound is that an
   admission has admitted or holds at most as many asks as its actor has made calls (`Roomy`), so
   that a drain stops within the positions there are (`DrainStops`) and leaves the next one with
   what it needs (`Remains`).  `Released` is a choice over these positions, shown to be a sequence of
   distinct calls of that actor.
2. `OInv` gives `ConversationsInOrder`: rows of an actor are numbered without gaps (`Conversing`),
   what an admission claims is exactly the rows that are still to come (`Claiming`), every row below
   the next position is ended or its call is in line (`Owning`), and the line is in the order of the
   numbers (`Lined`).  It assumes `SameAsk`: asks of one site with one input go to one actor.
   Without it an ask may find another actor's row at its place and take it over, and then the
   numbering has gaps; in the drift script with equal inputs TLC finds `OInv` violated.
3. `HInv` gives `BeginningsInherited`.  The journal does not say which rows were inherited; they are
   those that ended without a node-queued event.  `Seeded` says that these are the beginning of the
   conversation and fit the predecessor's, `Followed` that the part this life has admitted is what
   its import counts as consumed, so that an ask with an imported row keeps consuming and the first
   without one diverges for good.  A crash between a row and its event makes a row that ran look
   inherited: the invariant, like the property, excepts lives after such a crash, and the proof shows
   that no other crash point does harm (`DeadEvents`).
4. `RInv` gives `PromiseIsDurable`, the refinement of DurableRun, and `AnswersKeepActor` and
   `ReplaysFit`.  It assumes `SiteOrder`: calls of one site are made in program order, since a later
   one waits for all that an earlier one waits for.  Then the ordinal of a call is its rank at its
   site in every life (`Ranked`, `InTurn`), its row is its own (`Belonging`), and what was told once
   is what the row says and what is told again (`Recalling`).  Two parallel chains through one site
   violate `SiteOrder`, and section 4 has what happens to them: the hypothesis is where the promise
   of engine.ts ends.  The refinement also assumes `FatalAwaited`: a call whose rejection ends the
   script is awaited by its end; otherwise the script may return in one life and throw in another,
   by which of the two answers is heard first.

The scripts of workflow_fanin and workflow_twice satisfy all three assumptions; that of
workflow_drift satisfies `SameAsk` and `FatalAwaited` and not `SiteOrder`.

**The run service** (WorkflowRuns_proofs).  For any number of callers at once, runs, entries and
faults, and with a close under any call: `TypeCorrect`, and

1. `EnginesStayOwned`: an engine its registry entry stands for keeps it as long as it runs, whatever
   is evicted, amended, settled or closed.  The one exception is the launch of a resume whose gate
   was passed in an earlier step.
2. `SupersededStaysSealed`: a superseded run with no engine left and no resume past its gate is
   never written again.
3. `SuccessorsCome`: until something fails, a successor that was named exists or its amendment is
   still on its way to launching it.

What the code promises without the exceptions of 1 and 2, `EngineOwned` and `SupersededIsFinal`, is
refuted (section 4).  The invariant `IInv` says that every entry in use and every registered one is
of its own run (`Used`, `Registered`), that a live engine and a resume past its gate have a row
(`Rowed`, `Rebuilding`), and that the id an amendment minted is in no row, no entry and no other
call (`Awaited`, `Distinct`).  The last is what keeps the launch of an amendment from taking
anybody's entry; it is an invariant only because ids are minted afresh, and it is what remains of
the gate after an await.

**The inbox** (CommandInbox_proofs).  `HeldIsPinned` from `Held`: what a
request knows between its lookups and its hand-over (a command found nowhere in memory is not in
the runtime, an admitted one is pinned, the session of a request in flight is resident).
`PromptsEnterOnce` from `Once`: facts that are in the cache, or will be, tell of every prompt in the
transcript.  `PromiseIsKept`, the refinement of InputFate, from both with `Tidy` (what is answered
from memory and facts is true of the prompt) and `LostStays` (one reported lost has a row that keeps
it out).  `AcceptedIsRemembered` adds `Remembering`: rows, facts, pins and answers agree for each
command that was ever accepted.
`TypeCorrect` needs `Bounded`, that a load is awaited only by a request that asked for it and that
the table of answers, which is trimmed after each entry, holds one per command within its limit;
the two parts keep each other.

**The relay** (ForkRelay_proofs).  `OnePresenceInService` and `BrowsersNotOrphaned`, for any number
of browsers, presences, faults and restarts; with the types of the relay's side they are inductive
together, because every end of an attachment disposes of both its sockets in the same call.  `TypeCorrect`
adds the Mac's side (`MacSide`): its generations, timers and what is on the way in both directions;
no run checks it.

**The fork page** (RpcChannel_proofs, its second part).  `PageTypeCorrect`, which no run checks, and
`AttemptsSingleFlight` from `Single`:
only the present generation of a mounted page is under way, every retry timer is of that
generation and of an attempt that has ended, and of the two timers of a failed dial one at most
begins an attempt.

**The channels** (RpcChannel_proofs).  `CallsRunOnce` and `TypeCorrect` rest on an account: for
each id, what is queued in the client, on its way, waiting for its channel and already executed adds
up to at most what the client asked for (`Accounted`), which is one for a call; `HeldLives` says the
same of subscriptions and their disposals.  The queues are filtered when a call is cancelled or a
channel is registered, so each step is a lemma on how many elements of a sequence `Only` keeps
(`OnlyCounts`, `CountsAdd`).

**The conversation** (ConversationSync_proofs).  `PromiseKept`: the page, the agent's topic and the
channels implement ConversationPromise, whatever the bounds, the hidden events and the sets of
disturbances are; `TypeCorrect` comes with it.  The invariant says what every frame under way may
still do to the page:

1. *Frames are true* (`TrueFrame`): one that was sent, is reserved behind an ACK or waits at the
   barrier shows a stretch of the log of one runtime.  Damage and repetition keep this.
2. *Later frames reach further* (`Ordered`): by subscription, then by ordinal.  It holds because the
   subscriber's buffer is all of the log behind what was sent, or a snapshot is owed (`Serving`);
   a buffer that overflows must therefore be dropped whole.
3. *What the page may yet take goes on from what it shows* (`AheadGood`): frames of its own
   subscription above the ordinal it settled, and frames an ACK on its way will release.  A lost
   frame's successors are refused by their base, a repeated one by its ordinal.
4. *Rows and delta are of one log* (`BasedGood`): a page that has applied a base shows the log its
   subscription is about; no subscription outlives its runtime, and a new one begins without a base.
5. *ACKs are newer than the page* (`AcksGood`, `AcksOrdered`): each names a later subscription of a
   log not older, so that activating one never goes back.

Every handler of the store is split into calm operations, which change nothing of this (`Calms`),
those that show a frame (`Moves`) and those that yield or take a subscription (`Goes`); they compose,
and the frames the barrier releases are an induction over their positions (`ReleasedMoves`).  Each
agent action then has a lemma on what it adds to the frames and ACKs under way.

`SubscriptionsAgreeAlways`: when nothing is on its way, a live page, the agent and the host hold the
same subscription.  The property alone is far from inductive: an ACK that was outdated, a
cancellation sent long ago or a rejection of a runtime that died may still arrive.  The invariant
`LinkInv` (TLC checked it on the bounds of the run before it was proved) reads replies, the reply
that is reserved and the requests behind them as one line, in which what is answered takes the
place of what was asked:

1. *One connect counts* (`OneCounts`), and it is the last subscribe in the line (`CountsLast`); a
   live page has none in it (`LiveIsLast`), and no call is asked or answered for twice (`AskedOnce`).
2. *Cancellations are old* (`CancelsOld`): each is of an earlier subscription than any ACK on its
   way names, than the one a live page serves, and than the next there will be.  So a late
   unsubscribe never ends what the page shows, and the route the host forgets is not the page's.
3. *What the page serves is served* (`Owns`): the subscription of a live page, or of the ACK that
   the connect that counts will get, is the agent's - unless the wire still holds the event that
   tells the page its runtime is gone (`Held`, `Unheard`).
4. *The host follows* (`HostFollows`): it routes the agent's subscription from its ACK on.

The store's handlers are composed of operations that keep such a link for whatever else is on its
way (`Ties`), the agent's thin the line (`Thins`): some of it left out, some become what answers it.

**Only model-checked**: liveness (`EveryWaiterLeaves`, `RunSettles`, `BrowserServed`, `MacReleased`, `PresenceRecovers`, `Reconnects`, `EveryCallSettles`, `Converges`,
`ClosedReleases`), which is out of the prover's reach (fairness and ENABLED); and
`OneMishapIsHealed`, which bounds what a behaviour may still do after a first disturbance and depends
on `MaxAttempts` and on which disturbances `Plans` lets come together.  What section 4 refutes has no theorem because it does not hold.  What a recursive function computes for every input is out of reach too: the induction theorems of the
library take operators as parameters; where a proof needs such an induction it goes over an interval,
from the least element of a set (`UpTo`).

## 6. Not modelled, and why

- *How an import table is built*: reading the predecessor's journal and matching actors by name and
  persona; the engine takes the table as a constant, and the run service knows that it takes an
  await.
- *Reports, artifacts, usage of runs; read faces of the run service*: derived from the journal.
- *What an ask does*: sessions of the agent runtime are answered by the driver in one step.
- *Contents*: rows of a conversation are their events; size limits of frames, optimistic input and
  queries for older rows are left out; so are encoding failures, which the publisher rolls back.
- *Several connections or pages of one conversation*: the publisher keeps a buffer for each.
- *Inbox*: the global bucket of createSession, commands without a prompt (their facts come from
  timeline and child sessions), base revisions, whose verdict is a choice; the await between looking
  for a prompt to delete and taking it out of the queue (steering.ts:705); failures of the ledger and of
  the sweep that a resume begins with (steering.ts:1353).
- *Bytes*: parsing, serialisation and contents of messages, except where losing a frame matters.
- *Delays*: timers fire late or early; only their order where two are pending together is kept.
- *Pairing, tickets and authentication of the fork*: a ticket is valid or is not.
- *Two Macs of one name*, which evict each other's presence in turn.
- *Services, providers, interfaces, compiler*: one call at a time, I/O or pure transformation.

## 7. Plan

In order:

1. *Rest of protocol v4*: interactions (an answer once, by whichever client), uploads, the automatic
   drain of the queue of prompts; several subscribers of one topic.
2. *Agent runtime*: command queue and steering of a running turn; task registry.
3. *Composition*: run service over engine, so that what a stop and a resume do to a journal is in
   the model of the registry; governor with engine, so that an ask's slot and its model requests are.
4. *Proofs*: `OneMishapIsHealed`, for reconnects enough to outlast one disturbance.
5. *Locks*: the remote deployment lock and the plugin seed lock, mutual exclusion with stale owners
   and crashes.
