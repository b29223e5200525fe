------------------------- MODULE CommandInbox_proofs -------------------------
(* Proof that what the runtime holds is pinned in the inbox.  The invariant    *)
(* adds what a request knows between its lookups and its hand-over: the        *)
(* command it found nowhere in memory is not in the runtime, an admitted one   *)
(* is pinned, and the session of a request in flight is in the registry.       *)
EXTENDS CommandInbox, SequenceTheorems, TLAPS

Sought == {"transcript", "discarded", "decide", "admit", "execute", "refused"}
Flying == {"admit", "execute", "finish", "refused"}

Typed ==
  /\ work \in [Command -> Work] /\ live \subseteq Command
  /\ handling \in Request \union {Idle}

\* The invariant behind PinnedWhileHeld.
Held ==
  /\ Typed
  /\ PinnedWhileHeld
  /\ handling.stage \in Sought => work[handling.command] = "none"
  /\ handling.stage = "execute" => handling.command \in live
  /\ handling.stage \in Flying => session = "live"
  /\ load # None => handling.stage \in {"transcript", "discarded"}

\* A request with a stage of its own is a request.
LEMMA InHand ==
  ASSUME Typed, handling.stage \in Stage
  PROVE  handling \in Request /\ handling.command \in Command
BY DEF Typed, Idle, Stage, Request

\* The two ways a step leaves the request in hand.
LEMMA Answered ==
  ASSUME NEW answer, Give(answer)
  PROVE  handling' = Idle /\ handling'.stage \notin Stage
BY DEF Give, Idle, Stage
LEMMA WentOn ==
  ASSUME Typed, handling.stage \in Stage, NEW stage \in Stage, GoTo(stage)
  PROVE  handling' \in Request /\ handling'.stage = stage /\ handling'.command = handling.command
BY InHand DEF GoTo, Request

\* A lookup answers, or goes on with the same command.
LEMMA LookedUp ==
  ASSUME Typed, handling.stage \in {"transcript", "discarded"}, NEW facts, LookUp(facts)
  PROVE  \/ handling' = Idle
         \/ /\ handling' \in Request /\ handling'.command = handling.command
            /\ handling'.stage \in {"memory", "discarded", "decide"}
<1>1. handling \in Request
  BY InHand DEF Stage
<1>2. CASE handling' = Idle
  BY <1>2
<1>3. CASE GoTo("discarded") \/ GoTo("decide")
  BY <1>3, WentOn DEF Stage
<1>4. CASE handling' = [handling EXCEPT !.stage = "memory", !.again = TRUE]
  BY <1>1, <1>4 DEF Request, Stage
<1> QED
  BY <1>2, <1>3, <1>4 DEF LookUp, Give

----------------------------------------------------------------------------
LEMMA HeldInitially == Init => Held
BY DEF Init, Held, Typed, None, PinnedWhileHeld, Work, Idle, Sought, Flying

\* The steps that only answer, or that change nothing Held speaks of but the load.
LEMMA HeldByAnswers ==
  ASSUME Held, handling' = Idle, UNCHANGED <<work, session, live>>, load' = None
  PROVE  Held'
BY DEF Held, Typed, PinnedWhileHeld, Idle, Sought, Flying
LEMMA HeldByOthers ==
  ASSUME Held, UNCHANGED <<work, session, live, handling>>,
         load' # None => handling.stage \in {"transcript", "discarded"}
  PROVE  Held'
BY DEF Held, Typed, PinnedWhileHeld

LEMMA NoLoad ==
  ASSUME Held, handling.stage \notin {"transcript", "discarded"}
  PROVE  load = None
BY DEF Held

\* The steps of the request in hand.
LEMMA HeldByHandle ==
  ASSUME Held, Handle
  PROVE  Held'
<1> USE DEF inbox, store
<1> Typed
  BY DEF Held
<1>1. CASE LookInMemory
  <2>1. CASE handling' = Idle
    BY <1>1, <2>1, HeldByAnswers, NoLoad DEF LookInMemory
  <2>2. CASE handling.command \notin live /\ GoTo("transcript")
    <3>1. /\ handling' \in Request /\ handling'.stage = "transcript"
          /\ handling'.command = handling.command /\ handling.command \in Command
      BY <1>1, <2>2, InHand, WentOn DEF LookInMemory, Stage
    <3> QED
      BY <1>1, <2>2, <3>1, NoLoad DEF LookInMemory, Held, Typed, PinnedWhileHeld, Sought, Flying
  <2> QED
    BY <1>1, <2>1, <2>2, Answered DEF LookInMemory
<1>2. ASSUME LookInIndex \/ LoadEnds PROVE Held'
  <2>1. PICK facts : LookUp(facts)
    BY <1>2 DEF LookInIndex, LoadEnds
  <2>2. /\ UNCHANGED <<work, session, live>>
        /\ handling.stage \in {"transcript", "discarded"} /\ load' = None
    BY <1>2 DEF LookInIndex, Looking, LoadEnds, Held
  <2>3. CASE handling' = Idle
    BY <2>2, <2>3, HeldByAnswers
  <2>4. CASE /\ handling' \in Request /\ handling'.command = handling.command
             /\ handling'.stage \in {"memory", "discarded", "decide"}
    BY <2>2, <2>4 DEF Held, Typed, PinnedWhileHeld, Sought, Flying
  <2> QED
    BY <2>1, <2>2, <2>3, <2>4, LookedUp
<1>3. CASE BeginLoad \/ LoadReads
  BY <1>3, HeldByOthers DEF BeginLoad, LoadReads, Looking, Held
<1>4. CASE Decide
  <2>1. CASE handling' = Idle
    BY <1>4, <2>1, HeldByAnswers, NoLoad DEF Decide
  <2>2. CASE session = "live" /\ GoTo("admit")
    <3>1. handling' \in Request /\ handling'.stage = "admit" /\ handling'.command = handling.command
      BY <1>4, <2>2, WentOn DEF Decide, Stage
    <3> QED
      BY <1>4, <2>2, <3>1, NoLoad DEF Decide, Held, Typed, PinnedWhileHeld, Sought, Flying
  <2> QED
    BY <1>4, <2>1, <2>2, Answered DEF Decide
<1>5. CASE Admit
  <2>1. /\ handling' \in Request /\ handling'.stage = "execute"
        /\ handling'.command = handling.command /\ handling.command \in Command
    BY <1>5, InHand, WentOn DEF Admit, Stage
  <2> QED
    BY <1>5, <2>1, NoLoad DEF Admit, Held, Typed, PinnedWhileHeld, Sought, Flying
<1>6. CASE AdmitFails \/ Return
  BY <1>6, Answered, HeldByAnswers, NoLoad DEF AdmitFails, Return
<1>7. CASE Hand
  <2>1. /\ handling' \in Request /\ handling'.stage = "finish"
        /\ handling'.command = handling.command /\ handling.command \in Command
    BY <1>7, InHand, WentOn DEF Hand, Stage
  <2> QED
    BY <1>7, <2>1, NoLoad DEF Hand, Held, Typed, PinnedWhileHeld, Sought, Flying, Work
<1>8. CASE Refused
  <2>1. handling' \in Request /\ handling'.stage = "refused" /\ handling'.command = handling.command
    BY <1>8, WentOn DEF Refused, Stage
  <2> QED
    BY <1>8, <2>1, NoLoad DEF Refused, Held, Typed, PinnedWhileHeld, Sought, Flying
<1>9. CASE GiveUp
  <2>1. handling' = Idle /\ work[handling.command] = "none" /\ load = None
    BY <1>9, Answered, NoLoad DEF GiveUp, Held, Sought
  <2> QED
    BY <1>9, <2>1 DEF GiveUp, Held, Typed, PinnedWhileHeld, Idle, Sought, Flying
<1> QED
  BY <1>1, <1>2, <1>3, <1>4, <1>5, <1>6, <1>7, <1>8, <1>9 DEF Handle

\* The steps of the runtime: none of them hands a prompt over, and a pin goes only
\* with the prompt it is for.
LEMMA HeldByRuntime ==
  ASSUME Held, NEW c \in Command, Runtime(c)
  PROVE  Held'
<1> USE DEF inbox, store
<1>1. /\ work[c] # "none" /\ UNCHANGED <<session, handling>>
      /\ \E w \in Work : work' = [work EXCEPT ![c] = w]
      /\ live' = live \/ (live' = live \ {c} /\ work' = [work EXCEPT ![c] = "none"])
      /\ load' # None => load # None
  BY DEF Runtime, Enter, Entered, Delete, Deleted, Blocked, Release, Work, Invalidate
<1>2. work' \in [Command -> Work] /\ \A d \in Command \ {c} : work'[d] = work[d]
  BY <1>1 DEF Held, Typed
<1>3. Typed' /\ PinnedWhileHeld'
  BY <1>1, <1>2 DEF Held, Typed, PinnedWhileHeld
<1>4. ASSUME handling.stage \in Sought PROVE handling.command \in Command \ {c}
  BY <1>1, <1>4, InHand DEF Held, Sought, Stage
<1>5. handling.stage \in Sought => work'[handling.command] = "none"
  BY <1>2, <1>4 DEF Held
<1>6. handling.stage = "execute" => handling.command \in live'
  BY <1>1, <1>4 DEF Held, Sought
<1>7. load' # None => handling.stage \in {"transcript", "discarded"}
  BY <1>1 DEF Held
<1>8. UNCHANGED <<session, handling>> /\ (handling.stage \in Flying => session = "live")
  BY <1>1 DEF Held
<1> QED
  BY <1>3, <1>5, <1>6, <1>7, <1>8 DEF Held

\* Every step keeps Held.
LEMMA HeldByStep == Held /\ [Next]_vars => Held'
<1> SUFFICES ASSUME Held, [Next]_vars PROVE Held'
  OBVIOUS
<1> USE DEF inbox, store
<1>1. CASE UNCHANGED vars
  BY <1>1, HeldByOthers DEF vars, Held
<1>2. ASSUME NEW c \in Command, Runtime(c) PROVE Held'
  BY <1>2, HeldByRuntime
<1>3. ASSUME NEW c \in Command, NEW query \in BOOLEAN, Send(c, query) PROVE Held'
  <2>1. handling' \in Request /\ handling'.stage = "memory" /\ load' = None
    BY <1>3, NoLoad DEF Send, Request, Stage, Idle
  <2> QED
    BY <1>3, <2>1 DEF Send, Held, Typed, PinnedWhileHeld, Sought, Flying
<1>4. CASE Handle
  BY <1>4, HeldByHandle
<1>5. CASE LoadFails
  BY <1>5, Answered, HeldByAnswers DEF LoadFails
<1>6. CASE Deactivate
  BY <1>6 DEF Deactivate, InFlight, Held, Typed, PinnedWhileHeld, Flying, Sought
<1>7. CASE Resume
  BY <1>7 DEF Resume, Held, Typed, PinnedWhileHeld
<1>8. CASE Crash
  BY <1>8 DEF Crash, Held, Typed, PinnedWhileHeld, Idle, Sought, Flying, Work
<1> QED
  BY <1>1, <1>2, <1>3, <1>4, <1>5, <1>6, <1>7, <1>8 DEF Next

\* What the runtime holds is pinned and its session resident, for every number of
\* commands, every size of the settled table and any number of ends of the process:
\* neither an eviction nor a deactivation makes the inbox forget a prompt on its way.
THEOREM HeldIsPinned == Spec => []PinnedWhileHeld
<1>1. Held => PinnedWhileHeld
  BY DEF Held
<1> QED
  BY HeldInitially, HeldByStep, <1>1, PTL DEF Spec

----------------------------------------------------------------------------
(* A prompt enters the transcript once.  What a lookup goes by is complete:   *)
(* the cached facts know every prompt in the transcript but the ones whose    *)
(* event is still on its way, which are pinned.                               *)
FactSet == [transcript : SUBSET Command, lost : SUBSET Command, cancelled : SUBSET Command]
Load == [dead : BOOLEAN, facts : FactSet \union {None}, kept : BOOLEAN]

Complete(facts) ==
  \A c \in Command : transcript[c] = 1 /\ work[c] # "entering" => c \in facts.transcript

\* Stages of a request that found its command in no transcript.
Absent == {"discarded", "decide", "admit", "execute"}

\* The invariant behind EntersOnce.
Once ==
  /\ transcript \in [Command -> {0, 1}]
  /\ \A c \in Command : work[c] = "held" => transcript[c] = 0
  /\ index # None => Complete(index)
  /\ load # None => load \in Load
  /\ load # None /\ load.facts # None =>
       /\ transcript[handling.command] = 1 => handling.command \in load.facts.transcript
       /\ load.kept => Complete(load.facts)
  /\ handling.stage \in Absent => transcript[handling.command] = 0

LEMMA OnceInitially == Init => Once
BY DEF Init, Once, None, Idle, Absent

\* Steps that leave the transcript, the runtime and the facts alone.
LEMMA OnceByAnswers ==
  ASSUME Held, Once, UNCHANGED <<transcript, work, index>>, load' = None, handling'.stage \notin Absent
  PROVE  Once'
BY DEF Once, Complete

\* The steps of the request in hand: a lookup misses only what is in no transcript.
LEMMA OnceByHandle ==
  ASSUME Held, Once, Handle
  PROVE  Once'
<1> USE DEF inbox, store
<1> Typed
  BY DEF Held
<1>1. CASE LookInMemory
  <2>1. handling'.stage \notin Absent
    BY <1>1, Answered, WentOn DEF LookInMemory, Absent, Stage
  <2> QED
    BY <1>1, <2>1, NoLoad, OnceByAnswers DEF LookInMemory
<1>2. ASSUME NEW facts, LookUp(facts), handling.stage \in {"transcript", "discarded"},
             transcript[handling.command] = 1 => handling.command \in facts.transcript,
             transcript' = transcript
      PROVE  handling'.stage \in Absent => transcript'[handling'.command] = 0
  <2>1. CASE handling.stage = "transcript"
    <3>1. CASE handling.command \in facts.transcript
      BY <1>2, <2>1, <3>1, Answered DEF LookUp, Absent, Stage
    <3>2. CASE handling.command \notin facts.transcript
      <4>1. handling.command \in Command /\ transcript[handling.command] = 0
        BY <1>2, <3>2, InHand DEF Once, Stage
      <4>2. GoTo("discarded")
        BY <1>2, <2>1, <3>2 DEF LookUp
      <4> QED
        BY <1>2, <4>1, <4>2, WentOn DEF Stage
    <3> QED
      BY <3>1, <3>2
  <2>2. CASE handling.stage = "discarded"
    <3>1. transcript[handling.command] = 0
      BY <2>2 DEF Once, Absent
    <3> QED
      BY <1>2, <3>1, LookedUp DEF Absent, Idle
  <2> QED
    BY <1>2, <2>1, <2>2
<1>3. CASE LookInIndex
  <2>1. /\ LookUp(index) /\ handling.stage \in {"transcript", "discarded"} /\ load' = None
        /\ UNCHANGED <<transcript, work, index>> /\ index # None
    BY <1>3 DEF LookInIndex, Looking
  <2>2. work[handling.command] = "none" /\ handling.command \in Command
    BY <2>1, InHand DEF Held, Sought, Stage
  <2>3. transcript[handling.command] = 1 => handling.command \in index.transcript
    BY <2>1, <2>2 DEF Once, Complete
  <2>4. handling'.stage \in Absent => transcript'[handling'.command] = 0
    BY <1>2, <2>1, <2>3
  <2> QED
    BY <2>1, <2>4 DEF Once, Complete
<1>4. CASE BeginLoad
  BY <1>4 DEF BeginLoad, Once, Complete, Load
<1>5. CASE LoadReads
  <2>1. load \in Load /\ handling.command \in Command /\ handling.stage \in {"transcript", "discarded"}
    BY <1>5, InHand DEF LoadReads, Once, Held, Stage
  <2>2. /\ load'.facts = Facts(row') /\ load' \in Load
        /\ UNCHANGED <<transcript, work, index, handling>>
    BY <1>5, <2>1 DEF LoadReads, Load, Facts, FactSet
  <2>3. \A c \in Command : transcript[c] = 1 => c \in load'.facts.transcript
    BY <2>2 DEF Facts
  <2> QED
    BY <2>1, <2>2, <2>3 DEF Once, Complete
<1>6. CASE LoadEnds
  <2>1. /\ LookUp(load.facts) /\ handling.stage \in {"transcript", "discarded"} /\ load' = None
        /\ UNCHANGED <<transcript, work>> /\ load.facts # None /\ load # None
        /\ index' = index \/ (load.kept /\ index' = load.facts)
    BY <1>6 DEF LoadEnds, Held
  <2>2. transcript[handling.command] = 1 => handling.command \in load.facts.transcript
    BY <2>1 DEF Once
  <2>3. handling'.stage \in Absent => transcript'[handling'.command] = 0
    BY <1>2, <2>1, <2>2
  <2>4. index' # None => Complete(index)'
    BY <2>1 DEF Once, Complete
  <2> QED
    BY <2>1, <2>3, <2>4 DEF Once
<1>7. CASE Decide
  <2>1. handling'.stage \in Absent => handling.stage \in Absent /\ handling'.command = handling.command
    BY <1>7, Answered, WentOn DEF Decide, Absent, Stage
  <2> QED
    BY <1>7, <2>1, NoLoad DEF Decide, Once, Complete
<1>8. CASE Admit
  <2>1. handling.stage \in Absent /\ handling'.command = handling.command
    BY <1>8, WentOn DEF Admit, Absent, Stage
  <2> QED
    BY <1>8, <2>1, NoLoad DEF Admit, Once, Complete
<1>9. CASE AdmitFails \/ Return \/ GiveUp \/ Refused
  <2>1. handling'.stage \notin Absent
    BY <1>9, Answered, WentOn DEF AdmitFails, Return, GiveUp, Refused, Absent, Stage
  <2> QED
    BY <1>9, <2>1, NoLoad, OnceByAnswers DEF AdmitFails, Return, GiveUp, Refused
<1>10. CASE Hand
  <2>1. /\ handling.command \in Command /\ transcript[handling.command] = 0
        /\ handling'.stage = "finish" /\ load' = None
    BY <1>10, InHand, WentOn, NoLoad DEF Hand, Once, Absent, Stage
  <2>2. index # None => Complete(index)'
    BY <1>10, <2>1 DEF Hand, Once, Complete, Held, Typed
  <2> QED
    BY <1>10, <2>1, <2>2 DEF Hand, Once, Absent, Held, Typed
<1> QED
  BY <1>1, <1>3, <1>4, <1>5, <1>6, <1>7, <1>8, <1>9, <1>10 DEF Handle

\* The steps of the runtime: a prompt that enters was in no transcript, and its event
\* takes back the facts that were read before it.
LEMMA OnceByRuntime ==
  ASSUME Held, Once, NEW c \in Command, Runtime(c)
  PROVE  Once'
<1> USE DEF inbox, store
<1> Typed
  BY DEF Held
<1>1. CASE Enter(c)
  <2>1. /\ work[c] = "held" /\ work'[c] = "entering"
        /\ \A d \in Command \ {c} : work'[d] = work[d] /\ transcript'[d] = transcript[d]
        /\ transcript[c] = 0 /\ transcript' \in [Command -> {0, 1}]
        /\ UNCHANGED <<index, load, handling>>
    BY <1>1 DEF Enter, Once, Typed
  <2>2. handling.stage \in Sought => handling.command \in Command \ {c}
    BY <2>1, InHand DEF Held, Sought, Stage
  <2>3. handling.stage \in Absent => handling.stage \in Sought
    BY DEF Absent, Sought
  <2>4. load # None => handling.stage \in Sought
    BY DEF Held, Sought
  <2>5. ASSUME NEW facts, Complete(facts) PROVE Complete(facts)'
    BY <2>1, <2>5 DEF Complete
  <2>6. index # None => Complete(index)'
    BY <2>1 DEF Once, Complete
  <2>7. load # None /\ load.facts # None /\ load.kept => Complete(load.facts)'
    BY <2>1 DEF Once, Complete
  <2>8. load # None /\ load.facts # None /\ transcript'[handling.command] = 1
          => handling.command \in load.facts.transcript
    BY <2>1, <2>2, <2>4 DEF Once
  <2>9. handling.stage \in Absent => transcript'[handling.command] = 0
    BY <2>1, <2>2, <2>3 DEF Once
  <2> QED
    BY <2>1, <2>6, <2>7, <2>8, <2>9 DEF Once
<1>2. CASE Entered(c) \/ Deleted(c)
  <2>1. /\ \A d \in Command : work'[d] = "held" => work[d] = "held"
        /\ UNCHANGED <<transcript, handling>> /\ index' = None
        /\ load' = IF load = None THEN None ELSE [load EXCEPT !.kept = FALSE]
    BY <1>2 DEF Entered, Deleted, Invalidate, Typed
  <2>2. load' # None => load # None /\ load' \in Load /\ load'.facts = load.facts /\ ~load'.kept
    BY <2>1 DEF Once, Load
  <2> QED
    BY <2>1, <2>2 DEF Once
<1>3. CASE Delete(c) \/ Blocked(c)
  <2>1. /\ work[c] = "held" /\ transcript[c] = 0 /\ work'[c] # "held"
        /\ \A d \in Command \ {c} : work'[d] = work[d]
        /\ UNCHANGED <<transcript, index, load, handling>>
    BY <1>3 DEF Delete, Blocked, Typed, Once
  <2>2. index # None => Complete(index)'
    BY <2>1 DEF Once, Complete
  <2>3. load # None /\ load.facts # None /\ load.kept => Complete(load.facts)'
    BY <2>1 DEF Once, Complete
  <2> QED
    BY <2>1, <2>2, <2>3 DEF Once
<1> QED
  BY <1>1, <1>2, <1>3 DEF Runtime

\* Every step keeps Once.
LEMMA OnceByStep == Held /\ Once /\ [Next]_vars => Once'
<1> SUFFICES ASSUME Held, Once, [Next]_vars PROVE Once'
  OBVIOUS
<1> USE DEF inbox, store
<1>1. CASE UNCHANGED vars
  BY <1>1 DEF vars, Once, Complete
<1>2. ASSUME NEW c \in Command, Runtime(c) PROVE Once'
  BY <1>2, OnceByRuntime
<1>3. ASSUME NEW c \in Command, NEW query \in BOOLEAN, Send(c, query) PROVE Once'
  <2>1. handling'.stage \notin Absent
    BY <1>3 DEF Send, Absent
  <2> QED
    BY <1>3, <2>1, NoLoad, OnceByAnswers DEF Send, Idle
<1>4. CASE Handle
  BY <1>4, OnceByHandle
<1>5. CASE LoadFails
  BY <1>5, Answered, OnceByAnswers DEF LoadFails, Absent, Stage
<1>6. CASE Deactivate
  BY <1>6 DEF Deactivate, Once, Complete
<1>7. CASE Resume
  BY <1>7 DEF Resume, Once, Complete
<1>8. CASE Crash
  BY <1>8 DEF Crash, Once, Absent, Idle
<1> QED
  BY <1>1, <1>2, <1>3, <1>4, <1>5, <1>6, <1>7, <1>8 DEF Next

\* Every prompt is in the transcript once at most.
EntersOnce == \A c \in Command : transcript[c] <= 1

\* However often a command is sent again, whatever was evicted, deactivated, invalidated
\* or lost with the process in between: its prompt enters the transcript at most once,
\* and is not handed to the runtime again after that (lookupExact, ingestNormalizedEvent).
THEOREM PromptsEnterOnce == Spec => [](EntersOnce /\ \A c \in Command : work[c] = "held" => transcript[c] = 0)
<1>1. Once => EntersOnce /\ \A c \in Command : work[c] = "held" => transcript[c] = 0
  BY DEF Once, EntersOnce
<1>2. Init => Held /\ Once
  BY HeldInitially, OnceInitially
<1>3. (Held /\ Once) /\ [Next]_vars => (Held /\ Once)'
  BY HeldByStep, OnceByStep
<1> QED
  BY <1>1, <1>2, <1>3, PTL DEF Spec

----------------------------------------------------------------------------
(* Two proofs about the command inbox.  First, that it implements InputFate:   *)
(* what a client may rely on about a prompt it sent.  Two invariants beside     *)
(* Held and Once: what is answered from memory and from the facts is true of    *)
(* the prompt (Tidy), and one reported lost stays so (LostStays).  Second, that *)
(* an accepted prompt is never forgotten: rows, facts and pins agree           *)
(* (Remembering).                                                              *)
Settlement == [command : Command, ack : {"accepted", "noop", "failed"}]
Answers(list) ==
  /\ list \in Seq(Settlement)
  /\ \A i, j \in DOMAIN list : list[i].command = list[j].command => i = j

----------------------------------------------------------------------------
\* Forget takes the answer about c and leaves the others.
LEMMA Forgotten ==
  ASSUME Answers(settled), NEW c \in Command
  PROVE  /\ Answers(Forget(c)) /\ Len(Forget(c)) <= Len(settled)
         /\ \A i \in DOMAIN Forget(c) : Forget(c)[i].command # c
         /\ \A i \in DOMAIN Forget(c) : \E j \in DOMAIN settled : Forget(c)[i] = settled[j]
<1> DEFINE s == settled
<1>1. CASE ~\E i \in 1..Len(s) : s[i].command = c
  <2>1. Forget(c) = s
    BY <1>1 DEF Forget, RemoveFirstMatch
  <2>2. DOMAIN s = 1..Len(s)
    BY DEF Answers
  <2> QED
    BY <1>1, <2>1, <2>2
<1>2. CASE \E i \in 1..Len(s) : s[i].command = c
  <2>1. PICK k \in 1..Len(s) : s[k].command = c
    BY <1>2
  <2>2. s \in Seq(Settlement) /\ DOMAIN s = 1..Len(s) /\ Len(s) \in Nat
    BY DEF Answers
  <2>3. {i \in 1..Len(s) : s[i].command = c} = {k}
    BY <2>1, <2>2 DEF Answers
  <2>4. Min({k}) = k
    BY <2>2 DEF Min
  <2>5. Forget(c) = RemoveAt(s, k)
    BY <1>2, <2>3, <2>4 DEF Forget, RemoveFirstMatch, SelectInSeq
  <2> DEFINE lo == SubSeq(s, 1, k - 1)
             hi == SubSeq(s, k + 1, Len(s))
             from(i) == IF i < k THEN i ELSE i + 1
             r == lo \o hi
  <2>6. Forget(c) = r
    BY <2>5 DEF RemoveAt
  <2>7. /\ lo \in Seq(Settlement) /\ Len(lo) = k - 1
        /\ \A i \in 1..k - 1 : lo[i] = s[i]
    <3>1. \A i \in 1..k - 1 : s[i] \in Settlement
      BY <2>2
    <3> QED
      BY <2>2, <3>1, SubSeqProperties
  <2>8. /\ hi \in Seq(Settlement) /\ Len(hi) = Len(s) - k
        /\ \A i \in 1..Len(s) - k : hi[i] = s[k + i]
    <3>1. \A i \in k + 1..Len(s) : s[i] \in Settlement
      BY <2>2
    <3>2. /\ hi \in Seq(Settlement)
          /\ Len(hi) = IF k + 1 <= Len(s) THEN Len(s) - (k + 1) + 1 ELSE 0
          /\ \A i \in 1..Len(s) - (k + 1) + 1 : hi[i] = s[k + 1 + i - 1]
      BY <2>2, <3>1, SubSeqProperties
    <3>3. Len(s) - (k + 1) + 1 = Len(s) - k
      BY <2>2
    <3> HIDE DEF hi
    <3>4. Len(hi) = Len(s) - k
      <4>1. CASE k + 1 <= Len(s)
        BY <3>2, <3>3, <4>1
      <4>2. CASE ~(k + 1 <= Len(s))
        <5>1. Len(s) \in Int /\ k \in Int /\ k <= Len(s)
          BY <2>2
        <5>2. k >= Len(s)
          BY <4>2, <5>1
        <5>3. k = Len(s)
          BY <5>1, <5>2
        <5>4. Len(s) - k = 0
          BY <5>1, <5>3
        <5> QED
          BY <3>2, <4>2, <5>4
      <4> QED
        BY <4>1, <4>2
    <3>5. ASSUME NEW i \in 1..Len(s) - k PROVE hi[i] = s[k + i]
      <4>1. k + 1 + i - 1 = k + i
        BY <2>2
      <4> QED
        BY <3>2, <3>3, <4>1
    <3> QED
      BY <3>2, <3>4, <3>5
  <2> HIDE DEF lo, hi
  <2>9. /\ r \in Seq(Settlement) /\ Len(r) = Len(s) - 1
        /\ \A i \in 1..Len(r) : r[i] = s[from(i)]
    <3>1. /\ r \in Seq(Settlement) /\ Len(r) = Len(lo) + Len(hi)
          /\ \A i \in 1..Len(lo) + Len(hi) : r[i] = IF i <= Len(lo) THEN lo[i] ELSE hi[i - Len(lo)]
      BY <2>7, <2>8, ConcatProperties
    <3>2. Len(lo) + Len(hi) = Len(s) - 1
      BY <2>2, <2>7, <2>8
    <3> HIDE DEF r
    <3> SUFFICES ASSUME NEW i \in 1..Len(s) - 1
                 PROVE  r[i] = s[from(i)]
      BY <3>1, <3>2
    <3>3. CASE i < k
      BY <2>2, <2>7, <3>1, <3>2, <3>3
    <3>4. CASE ~(i < k)
      <4>1. i - Len(lo) \in 1..Len(s) - k /\ k + (i - Len(lo)) = i + 1 /\ ~(i <= Len(lo))
        BY <2>2, <2>7, <3>4
      <4> QED
        BY <2>8, <3>1, <3>2, <3>4, <4>1
    <3> QED
      BY <3>3, <3>4
  <2> HIDE DEF r
  <2>10. DOMAIN r = 1..Len(s) - 1
    BY <2>9
  <2>11. /\ \A i \in DOMAIN r : from(i) \in DOMAIN s /\ from(i) # k
         /\ \A i, j \in DOMAIN r : from(i) = from(j) => i = j
    BY <2>2, <2>10
  <2> HIDE DEF from
  <2>12. \A i \in DOMAIN r : r[i] = s[from(i)]
    BY <2>9, <2>10
  <2>13. \A i, j \in DOMAIN r : r[i].command = r[j].command => i = j
    BY <2>11, <2>12 DEF Answers
  <2> QED
    BY <2>1, <2>2, <2>6, <2>9, <2>11, <2>12, <2>13 DEF Answers
<1> QED
  BY <1>1, <1>2

\* Remember adds one answer about c and keeps others only.
LEMMA Remembered ==
  ASSUME Answers(settled), NEW c \in Command, NEW ack \in {"accepted", "noop", "failed"}
  PROVE  /\ Answers(Remember(c, ack))
         /\ Len(settled) <= Limit => Len(Remember(c, ack)) <= Limit
         /\ \A i \in DOMAIN Remember(c, ack) :
              \/ Remember(c, ack)[i] = [command |-> c, ack |-> ack]
              \/ \E j \in DOMAIN settled : settled[j].command # c /\ Remember(c, ack)[i] = settled[j]
<1> DEFINE f == Forget(c)
           new == [command |-> c, ack |-> ack]
           list == Append(f, new)
<1>1. /\ f \in Seq(Settlement) /\ Len(f) \in Nat /\ DOMAIN f = 1..Len(f) /\ Len(f) <= Len(settled)
      /\ \A i, j \in DOMAIN f : f[i].command = f[j].command => i = j
      /\ \A i \in DOMAIN f : f[i].command # c /\ \E j \in DOMAIN settled : f[i] = settled[j]
  BY Forgotten DEF Answers
<1>2. new \in Settlement /\ new.command = c
  BY DEF Settlement
<1> HIDE DEF f, new
<1>3. /\ list \in Seq(Settlement) /\ Len(list) = Len(f) + 1 /\ DOMAIN list = 1..Len(f) + 1
      /\ list[Len(f) + 1] = new /\ \A i \in 1..Len(f) : list[i] = f[i]
  BY <1>1, <1>2
<1>4. Answers(list)
  BY <1>1, <1>2, <1>3 DEF Answers
<1>5. \A i \in DOMAIN list : list[i] = new \/ \E j \in DOMAIN settled : settled[j].command # c /\ list[i] = settled[j]
  <2> SUFFICES ASSUME NEW i \in DOMAIN list, i # Len(f) + 1
               PROVE  \E j \in DOMAIN settled : settled[j].command # c /\ list[i] = settled[j]
    BY <1>3
  <2>1. i \in DOMAIN f /\ list[i] = f[i]
    BY <1>1, <1>3
  <2> QED
    BY <1>1, <2>1
<1> HIDE DEF list
<1>6. /\ Tail(list) \in Seq(Settlement) /\ DOMAIN Tail(list) = 1..Len(f)
      /\ \A i \in 1..Len(f) : Tail(list)[i] = list[i + 1]
  BY <1>1, <1>3
<1>7. \A i \in DOMAIN Tail(list) : i + 1 \in DOMAIN list
  BY <1>1, <1>3, <1>6
<1>8. Answers(Tail(list))
  BY <1>3, <1>4, <1>6, <1>7 DEF Answers
<1>9. \A i \in DOMAIN Tail(list) :
        Tail(list)[i] = new \/ \E j \in DOMAIN settled : settled[j].command # c /\ Tail(list)[i] = settled[j]
  BY <1>5, <1>6, <1>7
<1>10. Remember(c, ack) = IF Len(list) > Limit THEN Tail(list) ELSE list
  BY DEF Remember, list, f, new
<1>11. CASE Len(list) > Limit
  <2>1. Len(settled) \in Nat /\ Len(Tail(list)) = Len(f)
    BY <1>1, <1>6, <1>3 DEF Answers
  <2>2. Len(settled) <= Limit => Len(Tail(list)) <= Limit
    BY <1>1, <2>1, InboxAssumption
  <2> QED
    BY <1>8, <1>9, <1>10, <1>11, <2>2 DEF new
<1>12. CASE ~(Len(list) > Limit)
  <2>1. Len(list) <= Limit
    BY <1>1, <1>3, <1>12, InboxAssumption
  <2> QED
    BY <1>4, <1>5, <1>10, <1>12, <2>1 DEF new
<1> QED
  BY <1>11, <1>12

----------------------------------------------------------------------------
(* What is answered of a prompt is true of it.                                *)
\* Stages of a request that found no pin and has set none.
Unpinned == {"transcript", "discarded", "decide", "admit"}

\* The remembered answers are about no pinned command, and of one that failed there is
\* nothing in the transcript.
Apart ==
  \A i \in DOMAIN settled :
    /\ settled[i].command \notin live
    /\ settled[i].ack = "failed" => transcript[settled[i].command] = 0

\* What the facts call discarded is, unless it entered after all.
Truthful(facts) ==
  \A c \in facts.lost : c \in Command /\ (row[c] = "discarded" \/ transcript[c] = 1)

Tidy ==
  /\ row \in [Command -> Row]
  /\ Answers(settled) /\ Apart
  /\ handling.stage \in Unpinned => handling.command \notin live
  /\ handling.stage = "refused" => transcript[handling.command] = 0
  /\ load # None => index = None
  /\ index # None => Truthful(index)
  /\ load # None /\ load.facts # None => Truthful(load.facts)

LEMMA TidyInitially == Init => Tidy
BY DEF Init, Tidy, Row, Answers, Apart, Idle, None, Unpinned

\* A row that is discarded changes only with the prompt that enters; nothing leaves
\* the transcript.
LEMMA TruthStays ==
  ASSUME NEW facts, Truthful(facts),
         \A c \in Command : row[c] = "discarded" => row'[c] = "discarded" \/ transcript'[c] = 1,
         \A c \in Command : transcript[c] = 1 => transcript'[c] = 1
  PROVE  \A c \in facts.lost : c \in Command /\ (row'[c] = "discarded" \/ transcript'[c] = 1)
BY DEF Truthful

\* An answer about c beside the others, when nothing is pinned that was not.
LEMMA ApartByRemember ==
  ASSUME Answers(settled), Apart, NEW c \in Command, NEW ack \in {"accepted", "noop", "failed"},
         settled' = Remember(c, ack), live' \subseteq live, c \notin live',
         transcript' = transcript, ack = "failed" => transcript[c] = 0
  PROVE  Answers(settled)' /\ Apart'
<1>1. Answers(settled)'
  BY Remembered
<1>2. ASSUME NEW i \in DOMAIN settled'
      PROVE  /\ settled'[i].command \notin live'
             /\ settled'[i].ack = "failed" => transcript[settled'[i].command] = 0
  <2>1. CASE settled'[i] = [command |-> c, ack |-> ack]
    BY <2>1
  <2>2. CASE \E j \in DOMAIN settled : settled[j].command # c /\ settled'[i] = settled[j]
    BY <2>2 DEF Apart
  <2> QED
    BY <1>2, <2>1, <2>2, Remembered
<1> QED
  BY <1>1, <1>2 DEF Apart

\* The steps that end the request or find it a new one, and leave rows, transcript and
\* cached facts alone.
LEMMA TidyByAnswers ==
  ASSUME Tidy, UNCHANGED <<row, transcript, index>>, load' = None,
         handling'.stage \notin Unpinned \union {"refused"}, Answers(settled)', Apart'
  PROVE  Tidy'
BY DEF Tidy, Truthful

LEMMA SameMemory ==
  ASSUME Tidy, UNCHANGED <<transcript, live, settled>>
  PROVE  Answers(settled)' /\ Apart'
BY DEF Tidy, Apart, Answers

\* The steps of the request in hand.
LEMMA TidyByHandle ==
  ASSUME Held, Once, Tidy, Handle
  PROVE  Tidy'
<1> USE DEF inbox, store
<1> Typed
  BY DEF Held
<1>1. CASE LookInMemory
  <2> DEFINE c == handling.command
  <2>1. c \in Command /\ load = None
    BY <1>1, InHand, NoLoad DEF LookInMemory, Stage
  <2>2. CASE c \in live /\ Give(Repeated("accepted")) /\ UNCHANGED settled
    BY <1>1, <2>1, <2>2, Answered, SameMemory, TidyByAnswers DEF LookInMemory, Unpinned, Stage
  <2>3. ASSUME c \notin live, NEW i \in DOMAIN settled, settled[i].command = c,
               Give(Repeated(settled[i].ack)), settled' = Remember(c, settled[i].ack)
        PROVE  Tidy'
    <3>1. /\ settled[i].ack \in {"accepted", "noop", "failed"}
          /\ settled[i].ack = "failed" => transcript[c] = 0
      <4>1. settled[i] \in Settlement
        BY <2>3 DEF Tidy, Answers
      <4> QED
        BY <2>3, <4>1 DEF Tidy, Apart, Settlement
    <3>2. Answers(settled)' /\ Apart'
      BY <1>1, <2>1, <2>3, <3>1, ApartByRemember DEF LookInMemory, Tidy
    <3> QED
      BY <1>1, <2>1, <2>3, <3>2, Answered, TidyByAnswers DEF LookInMemory, Unpinned, Stage
  <2>4. CASE c \notin live /\ GoTo("transcript") /\ UNCHANGED settled
    <3>1. handling'.stage = "transcript" /\ handling'.command = c
      BY <1>1, <2>4, WentOn DEF LookInMemory, Stage
    <3> QED
      BY <1>1, <2>1, <2>4, <3>1, SameMemory DEF LookInMemory, Tidy, Truthful
  <2> QED
    BY <1>1, <2>2, <2>3, <2>4 DEF LookInMemory
<1>2. ASSUME LookInIndex \/ LoadEnds PROVE Tidy'
  <2>1. /\ UNCHANGED <<row, transcript, live, settled>> /\ load' = None
        /\ handling.stage \in {"transcript", "discarded"}
        /\ \/ index' = index
           \/ load # None /\ load.facts # None /\ index' = load.facts
    BY <1>2 DEF LookInIndex, Looking, LoadEnds, Held
  <2>2. index' # None => Truthful(index')
    BY <2>1 DEF Tidy
  <2>3. PICK facts : LookUp(facts)
    BY <1>2 DEF LookInIndex, LoadEnds
  <2>4. /\ handling'.stage \in Unpinned => handling'.command \notin live'
        /\ handling'.stage # "refused"
    BY <2>1, <2>3, LookedUp DEF Tidy, Unpinned, Idle
  <2> QED
    BY <2>1, <2>2, <2>4, SameMemory DEF Tidy, Truthful
<1>3. CASE BeginLoad
  BY <1>3, SameMemory DEF BeginLoad, Tidy, Truthful
<1>4. CASE LoadReads
  <2>1. /\ \A c \in Command : row'[c] = row[c] \/ (row[c] = "admitted" /\ row'[c] = "discarded")
        /\ row' \in [Command -> Row] /\ load # None /\ index = None
        /\ UNCHANGED <<transcript, live, settled, index, handling>>
    BY <1>4 DEF LoadReads, Swept, Row, Tidy
  <2>2. load'.facts = Facts(row') /\ load' # None
    BY <1>4, <2>1 DEF LoadReads, Once, Load, None
  <2>3. \A c \in load'.facts.lost : c \in Command /\ row'[c] = "discarded"
    BY <2>2 DEF Facts
  <2> QED
    BY <2>1, <2>2, <2>3, SameMemory DEF Tidy, Truthful
<1>5. CASE Decide
  <2> DEFINE c == handling.command
  <2>1. c \in Command /\ load = None /\ c \notin live
    BY <1>5, InHand, NoLoad DEF Decide, Stage, Tidy, Unpinned
  <2>2. CASE \/ Give("rejected") /\ UNCHANGED settled
             \/ Give("noop") /\ settled' = Remember(c, "noop")
    <3>1. Answers(settled)' /\ Apart'
      BY <1>5, <2>1, <2>2, SameMemory, ApartByRemember DEF Decide, Tidy
    <3> QED
      BY <1>5, <2>1, <2>2, <3>1, Answered, TidyByAnswers DEF Decide, Unpinned, Stage
  <2>3. CASE GoTo("admit") /\ UNCHANGED settled
    <3>1. handling'.stage = "admit" /\ handling'.command = c
      BY <1>5, <2>3, WentOn DEF Decide, Stage
    <3> QED
      BY <1>5, <2>1, <2>3, <3>1, SameMemory DEF Decide, Tidy, Truthful
  <2> QED
    BY <1>5, <2>2, <2>3 DEF Decide
<1>6. CASE Admit
  <2> DEFINE c == handling.command
  <2>1. /\ c \in Command /\ load = None /\ handling'.stage = "execute"
        /\ settled' = Forget(c) /\ live' = live \union {c} /\ UNCHANGED <<transcript, index, load>>
        /\ row' = [row EXCEPT ![c] = IF @ = "none" THEN "admitted" ELSE @]
    BY <1>6, InHand, WentOn, NoLoad DEF Admit, Stage
  <2>2. row' \in [Command -> Row] /\ \A d \in Command : row[d] = "discarded" => row'[d] = "discarded"
    BY <2>1 DEF Tidy, Row
  <2>3. Answers(settled)' /\ Apart'
    <3>1. Answers(settled)'
      BY <2>1, Forgotten DEF Tidy
    <3>2. ASSUME NEW i \in DOMAIN settled'
          PROVE  /\ settled'[i].command \notin live'
                 /\ settled'[i].ack = "failed" => transcript'[settled'[i].command] = 0
      <4>1. PICK j \in DOMAIN settled : settled'[i] = settled[j]
        BY <2>1, <3>2, Forgotten DEF Tidy
      <4>2. settled'[i].command # c
        BY <2>1, <3>2, Forgotten DEF Tidy
      <4> QED
        BY <2>1, <4>1, <4>2 DEF Tidy, Apart
    <3> QED
      BY <3>1, <3>2 DEF Apart
  <2>4. index' # None => Truthful(index)'
    BY <2>1, <2>2, TruthStays DEF Tidy, Truthful
  <2> QED
    BY <2>1, <2>2, <2>3, <2>4 DEF Tidy, Unpinned
<1>7. CASE AdmitFails
  <2>1. /\ handling.command \in Command /\ load = None /\ handling.command \notin live
        /\ transcript[handling.command] = 0
    BY <1>7, InHand, NoLoad DEF AdmitFails, Stage, Tidy, Unpinned, Once, Absent
  <2>2. Answers(settled)' /\ Apart'
    BY <1>7, <2>1, ApartByRemember DEF AdmitFails, Tidy
  <2> QED
    BY <1>7, <2>1, <2>2, Answered, TidyByAnswers DEF AdmitFails, Unpinned, Stage
<1>8. CASE Hand
  <2>1. load = None /\ handling'.stage = "finish"
    BY <1>8, WentOn, NoLoad DEF Hand, Stage
  <2> QED
    BY <1>8, <2>1, SameMemory, TidyByAnswers DEF Hand, Unpinned
<1>9. CASE Return
  <2>1. handling.command \in Command /\ load = None
    BY <1>9, InHand, NoLoad DEF Return, Stage
  <2>2. Answers(settled)' /\ Apart'
    BY <1>9, <2>1, SameMemory, ApartByRemember DEF Return, Tidy
  <2> QED
    BY <1>9, <2>1, <2>2, Answered, TidyByAnswers DEF Return, Unpinned, Stage
<1>10. CASE Refused
  <2> DEFINE c == handling.command
  <2>1. /\ c \in Command /\ load = None /\ transcript[c] = 0
        /\ handling'.stage = "refused" /\ handling'.command = c
        /\ UNCHANGED <<transcript, live, settled, index, load>>
    BY <1>10, InHand, WentOn, NoLoad DEF Refused, Stage, Once, Absent
  <2>2. row' \in [Command -> Row] /\ \A d \in Command : row[d] = "discarded" => row'[d] = "discarded"
    BY <1>10, <2>1 DEF Refused, Tidy, Row
  <2>3. index' # None => Truthful(index)'
    BY <2>1, <2>2, TruthStays DEF Tidy, Truthful
  <2> QED
    BY <2>1, <2>2, <2>3, SameMemory DEF Tidy, Unpinned
<1>11. CASE GiveUp
  <2> DEFINE c == handling.command
  <2>1. /\ c \in Command /\ load = None /\ transcript[c] = 0
    BY <1>11, InHand, NoLoad DEF GiveUp, Stage, Tidy
  <2>2. PICK answer \in {"failed", "noop"} : Give(answer) /\ settled' = Remember(c, answer)
    BY <1>11 DEF GiveUp
  <2>3. Answers(settled)' /\ Apart'
    BY <1>11, <2>1, <2>2, ApartByRemember DEF GiveUp, Tidy
  <2> QED
    BY <1>11, <2>1, <2>2, <2>3, Answered, TidyByAnswers DEF GiveUp, Unpinned, Stage
<1> QED
  BY <1>1, <1>2, <1>3, <1>4, <1>5, <1>6, <1>7, <1>8, <1>9, <1>10, <1>11 DEF Handle

\* The steps of the runtime: a prompt it holds is pinned, so no remembered answer is
\* about it; what becomes of it takes the cached facts back.
LEMMA TidyByRuntime ==
  ASSUME Held, Once, Tidy, NEW c \in Command, Runtime(c)
  PROVE  Tidy'
<1> USE DEF inbox, store
<1>1. c \in live /\ (handling.stage \in Sought => handling.command # c)
  BY InHand DEF Runtime, Enter, Entered, Delete, Deleted, Blocked, Held, PinnedWhileHeld, Sought, Stage
<1>2. CASE Enter(c) \/ Delete(c) \/ Blocked(c)
  <2>1. /\ row' \in [Command -> Row] /\ UNCHANGED <<live, settled, index, load, handling>>
        /\ \A d \in Command : row[d] = "discarded" => row'[d] = "discarded" \/ transcript'[d] = 1
        /\ \A d \in Command : d # c => transcript'[d] = transcript[d]
        /\ \A d \in Command : transcript[d] = 1 => transcript'[d] = 1
    BY <1>2 DEF Enter, Delete, Blocked, Tidy, Once, Row
  <2>2. Apart'
    <3> SUFFICES ASSUME NEW i \in DOMAIN settled
                 PROVE  settled[i].ack = "failed" => transcript'[settled[i].command] = 0
      BY <2>1 DEF Apart, Tidy
    <3>1. settled[i] \in Settlement /\ settled[i].command # c
      BY <1>1 DEF Tidy, Apart, Answers
    <3>2. settled[i].command \in Command
      BY <3>1 DEF Settlement
    <3> QED
      BY <2>1, <3>1, <3>2 DEF Tidy, Apart
  <2>3. ASSUME NEW facts, Truthful(facts)
        PROVE  \A d \in facts.lost : d \in Command /\ (row'[d] = "discarded" \/ transcript'[d] = 1)
    BY <2>1, <2>3, TruthStays
  <2>4. /\ index # None => Truthful(index)'
        /\ load # None /\ load.facts # None => Truthful(load.facts)'
    BY <2>1, <2>3 DEF Tidy, Truthful
  <2>5. handling.stage = "refused" => transcript'[handling.command] = 0
    <3>1. handling.stage = "refused" => handling.command \in Command
      BY InHand DEF Held, Stage
    <3> QED
      BY <1>1, <2>1, <3>1 DEF Tidy, Sought
  <2> QED
    BY <2>1, <2>2, <2>4, <2>5 DEF Tidy, Answers
<1>3. CASE Entered(c) \/ Deleted(c)
  <2>1. /\ UNCHANGED <<row, transcript, handling>> /\ index' = None
        /\ live' = live \ {c} /\ settled' = Remember(c, "accepted")
        /\ load' = IF load = None THEN None ELSE [load EXCEPT !.kept = FALSE]
    BY <1>1, <1>3 DEF Entered, Deleted, Release, Invalidate
  <2>2. Answers(settled)' /\ Apart'
    BY <2>1, ApartByRemember DEF Tidy
  <2>3. load' # None => load # None /\ load'.facts = load.facts
    BY <2>1 DEF Once, Load
  <2> QED
    BY <2>1, <2>2, <2>3 DEF Tidy, Truthful
<1> QED
  BY <1>2, <1>3 DEF Runtime

\* Every step keeps Tidy.
LEMMA TidyByStep == Held /\ Once /\ Tidy /\ [Next]_vars => Tidy'
<1> SUFFICES ASSUME Held, Once, Tidy, [Next]_vars PROVE Tidy'
  OBVIOUS
<1> USE DEF inbox, store
<1>1. CASE UNCHANGED vars
  BY <1>1, SameMemory DEF vars, Tidy, Truthful
<1>2. ASSUME NEW c \in Command, Runtime(c) PROVE Tidy'
  BY <1>2, TidyByRuntime
<1>3. ASSUME NEW c \in Command, NEW query \in BOOLEAN, Send(c, query) PROVE Tidy'
  <2>1. load = None
    BY <1>3, NoLoad DEF Send, Idle
  <2> QED
    BY <1>3, <2>1, SameMemory, TidyByAnswers DEF Send, Unpinned
<1>4. CASE Handle
  BY <1>4, TidyByHandle
<1>5. CASE LoadFails
  <2>1. handling' = Idle
    BY <1>5, Answered DEF LoadFails
  <2> QED
    BY <1>5, <2>1, SameMemory, TidyByAnswers DEF LoadFails, Unpinned, Idle
<1>6. CASE Deactivate
  BY <1>6 DEF Deactivate, Tidy, Truthful, Apart, Answers
<1>7. CASE Resume
  <2>1. /\ \A c \in Command : row'[c] = row[c] \/ (row[c] = "admitted" /\ row'[c] = "discarded")
        /\ row' \in [Command -> Row] /\ UNCHANGED <<transcript, live, settled, index, load>>
        /\ handling' = handling /\ handling = Idle
    BY <1>7 DEF Resume, Swept, Row, Tidy
  <2>2. /\ index # None => Truthful(index)'
        /\ load # None /\ load.facts # None => Truthful(load.facts)'
    BY <2>1 DEF Tidy, Truthful
  <2> QED
    BY <2>1, <2>2, SameMemory DEF Tidy
<1>8. CASE Crash
  BY <1>8 DEF Crash, Tidy, Apart, Answers, Idle, Unpinned
<1> QED
  BY <1>1, <1>2, <1>3, <1>4, <1>5, <1>6, <1>7, <1>8 DEF Next

----------------------------------------------------------------------------
(* A prompt reported lost is lost: nothing that is remembered, cached or being *)
(* loaded lets a repeat of its command through to the runtime.                 *)
Lost(c) == Contains(told[c], "lost")
Gone(c) ==
  /\ row[c] = "discarded" /\ transcript[c] = 0 /\ work[c] = "none" /\ c \notin live
  /\ index # None => c \in index.lost
  /\ load # None /\ load.facts # None => c \in load.facts.lost
  /\ handling.stage \in Flying \union {"decide"} => handling.command # c

LostStays ==
  /\ told \in [Command -> Seq(Answer)]
  /\ \A c \in Command : Lost(c) => Gone(c)

LEMMA LostInitially == Init => LostStays
BY DEF Init, LostStays, Lost, Contains

\* What an answer adds to the history.
LEMMA Saying ==
  ASSUME told \in [Command -> Seq(Answer)], handling.command \in Command,
         NEW answer \in Answer, Give(answer)
  PROVE  /\ told' \in [Command -> Seq(Answer)]
         /\ told' = [told EXCEPT ![handling.command] = Append(@, answer)]
         /\ \A c \in Command : Lost(c)' <=> Lost(c) \/ (c = handling.command /\ answer = "lost")
<1> PICK h \in Command : h = handling.command
  OBVIOUS
<1>1. told' = [told EXCEPT ![h] = Append(@, answer)] /\ told[h] \in Seq(Answer)
  BY DEF Give
<1>2. /\ Len(Append(told[h], answer)) = Len(told[h]) + 1 /\ Len(told[h]) \in Nat
      /\ \A i \in 1..Len(told[h]) : Append(told[h], answer)[i] = told[h][i]
      /\ Append(told[h], answer)[Len(told[h]) + 1] = answer
      /\ Append(told[h], answer) \in Seq(Answer)
  BY <1>1, AppendProperties
<1>3. told'[h] = Append(told[h], answer) /\ \A c \in Command : c # h => told'[c] = told[c]
  BY <1>1
<1>4. Lost(h)' <=> Lost(h) \/ answer = "lost"
  BY <1>2, <1>3 DEF Lost, Contains
<1>5. \A c \in Command : c # h => (Lost(c)' <=> Lost(c))
  BY <1>3 DEF Lost
<1>6. told' \in [Command -> Seq(Answer)]
  BY <1>1, <1>2
<1> QED
  BY <1>1, <1>4, <1>5, <1>6

\* The answer of a lookup that finds a lost command is "lost", at the latest; and only a
\* lookup gives it.
LEMMA LostIsFound ==
  ASSUME Typed, handling.stage \in {"transcript", "discarded"}, NEW facts, LookUp(facts),
         handling.command \in facts.lost
  PROVE  handling' = Idle \/ handling'.stage = "discarded"
<1>1. CASE GoTo("discarded")
  BY <1>1, WentOn DEF Stage
<1>2. CASE \E answer : Give(answer)
  BY <1>2, Answered
<1> QED
  BY <1>1, <1>2 DEF LookUp

\* A lost prompt stays lost through the steps of the request in hand.
LEMMA GoneByHandle ==
  ASSUME Held, Once, Tidy, NEW c \in Command, Gone(c), Handle
  PROVE  Gone(c)'
<1> USE DEF inbox, store
<1> Typed
  BY DEF Held
<1>1. CASE LookInMemory
  <2>1. handling'.stage \notin Flying \union {"decide"}
    BY <1>1, Answered, WentOn DEF LookInMemory, Flying, Stage
  <2> QED
    BY <1>1, <2>1 DEF LookInMemory, Gone
<1>2. ASSUME LookInIndex \/ LoadEnds PROVE Gone(c)'
  <2>1. PICK facts : /\ LookUp(facts) /\ c \in facts.lost
                     /\ index' # None => c \in index'.lost
    BY <1>2 DEF LookInIndex, LoadEnds, Gone
  <2>2. /\ UNCHANGED <<row, transcript, work, live>> /\ load' = None
        /\ handling.stage \in {"transcript", "discarded"}
    BY <1>2 DEF LookInIndex, Looking, LoadEnds, Held
  <2>3. handling'.stage \in Flying \union {"decide"} => handling'.command # c
    BY <2>1, <2>2, LookedUp, LostIsFound DEF Flying, Idle
  <2> QED
    BY <2>1, <2>2, <2>3 DEF Gone
<1>3. CASE BeginLoad
  BY <1>3 DEF BeginLoad, Gone
<1>4. CASE LoadReads
  <2>1. /\ row'[c] = "discarded" /\ UNCHANGED <<transcript, work, live, index, handling>>
        /\ load'.facts = Facts(row')
    BY <1>4 DEF LoadReads, Swept, Gone, Once, Load
  <2>2. c \in load'.facts.lost
    BY <2>1 DEF Facts
  <2> QED
    BY <1>4, <2>1, <2>2 DEF Gone
<1>5. CASE Decide \/ Admit \/ AdmitFails \/ Hand \/ Return \/ Refused \/ GiveUp
  <2>1. handling.stage \in Flying \union {"decide"} /\ handling.stage \in Stage /\ handling.command # c
    BY <1>5 DEF Decide, Admit, AdmitFails, Hand, Return, Refused, GiveUp, Flying, Gone, Stage
  <2>2. handling' = Idle \/ handling'.command = handling.command
    BY <1>5, <2>1, Answered, WentOn
       DEF Decide, Admit, AdmitFails, Hand, Return, Refused, GiveUp, Stage
  <2>3. /\ UNCHANGED <<transcript, index>> /\ load' = load
        /\ row'[c] = row[c] /\ work'[c] = work[c] /\ (c \in live' => c \in live)
    BY <1>5, <2>1 DEF Decide, Admit, AdmitFails, Hand, Return, Refused, GiveUp, Typed, Tidy
  <2> QED
    BY <2>1, <2>2, <2>3 DEF Gone, Idle, Flying
<1> QED
  BY <1>1, <1>2, <1>3, <1>4, <1>5 DEF Handle

\* And through every other step.
LEMMA GoneByStep ==
  ASSUME Held, Once, Tidy, NEW c \in Command, Gone(c), [Next]_vars
  PROVE  Gone(c)'
<1> USE DEF inbox, store
<1>1. CASE UNCHANGED vars
  BY <1>1 DEF vars, Gone
<1>2. ASSUME NEW d \in Command, Runtime(d) PROVE Gone(c)'
  <2>1. c # d
    BY <1>2 DEF Runtime, Enter, Entered, Delete, Deleted, Blocked, Gone
  <2>2. CASE Enter(d) \/ Delete(d) \/ Blocked(d)
    BY <2>1, <2>2 DEF Enter, Delete, Blocked, Gone, Held, Typed, Tidy, Once
  <2>3. CASE Entered(d) \/ Deleted(d)
    <3>1. /\ UNCHANGED <<row, transcript, handling>> /\ work'[c] = work[c] /\ index' = None
          /\ live' = live \ {d}
          /\ load' # None => load # None /\ load'.facts = load.facts
      BY <2>1, <2>3 DEF Entered, Deleted, Release, Invalidate, Held, Typed, Once, Load
    <3> QED
      BY <3>1 DEF Gone
  <2> QED
    BY <1>2, <2>2, <2>3 DEF Runtime
<1>3. ASSUME NEW d \in Command, NEW query \in BOOLEAN, Send(d, query) PROVE Gone(c)'
  BY <1>3 DEF Send, Gone, Flying
<1>4. CASE Handle
  BY <1>4, GoneByHandle
<1>5. CASE LoadFails
  <2>1. handling' = Idle
    BY <1>5, Answered DEF LoadFails
  <2> QED
    BY <1>5, <2>1 DEF LoadFails, Gone, Idle, Flying
<1>6. CASE Deactivate
  BY <1>6 DEF Deactivate, Gone
<1>7. CASE Resume
  BY <1>7 DEF Resume, Swept, Gone
<1>8. CASE Crash
  BY <1>8 DEF Crash, Gone, Idle, Flying
<1> QED
  BY <1>1, <1>2, <1>3, <1>4, <1>5, <1>6, <1>7, <1>8 DEF Next

\* What a step says of a prompt is so: "unknown", "failed" and "lost" only of one that is
\* not on its way, "lost" only of one that is lost for good.
Says(answer) ==
  /\ Give(answer) /\ handling.command \in Command /\ UNCHANGED <<work, transcript>>
  /\ answer \in {"unknown", "failed", "lost"} =>
       work[handling.command] = "none" /\ transcript[handling.command] = 0
  /\ answer = "lost" => \A c \in Command : c = handling.command => Gone(c)'

LEMMA SaysFromMemory ==
  ASSUME Held, Once, Tidy, LookInMemory
  PROVE  UNCHANGED told \/ \E answer \in Answer : Says(answer)
<1> USE DEF inbox, store
<1> DEFINE c == handling.command
<1>1. c \in Command /\ UNCHANGED <<work, transcript>>
  BY InHand DEF LookInMemory, Held, Stage
<1>2. CASE c \in live /\ Give(Repeated("accepted"))
  BY <1>1, <1>2 DEF Repeated, Says, Answer
<1>3. ASSUME c \notin live, NEW i \in DOMAIN settled, settled[i].command = c, Give(Repeated(settled[i].ack))
      PROVE  \E answer \in Answer : Says(answer)
  <2>1. settled[i] \in Settlement
    BY <1>3 DEF Tidy, Answers
  <2>2. /\ settled[i].ack \in {"accepted", "noop", "failed"}
        /\ settled[i].ack = "failed" => transcript[c] = 0
    BY <1>3, <2>1 DEF Tidy, Apart, Settlement
  <2>3. work[c] = "none"
    BY <1>1, <1>3 DEF Held, PinnedWhileHeld
  <2>4. /\ Repeated(settled[i].ack) \in Answer \ {"lost", "unknown"}
        /\ Repeated(settled[i].ack) = "failed" => settled[i].ack = "failed"
    BY <2>2 DEF Repeated, Answer
  <2> QED
    BY <1>1, <1>3, <2>2, <2>3, <2>4 DEF Says
<1>4. CASE GoTo("transcript")
  BY <1>4 DEF GoTo
<1> QED
  BY <1>2, <1>3, <1>4 DEF LookInMemory

LEMMA SaysFromFacts ==
  ASSUME Held, Once, Tidy, LookInIndex \/ LoadEnds
  PROVE  UNCHANGED told \/ \E answer \in Answer : Says(answer)
<1> USE DEF inbox, store
<1> DEFINE c == handling.command
<1>1. PICK facts : /\ LookUp(facts) /\ Truthful(facts)
                   /\ c \in facts.lost /\ index' # None => c \in index'.lost
  BY DEF LookInIndex, LoadEnds, Tidy
<1>2. /\ handling.stage \in {"transcript", "discarded"} /\ load' = None
      /\ UNCHANGED <<row, work, transcript, live>>
  BY DEF LookInIndex, LoadEnds, Looking, Held
<1>3. c \in Command /\ work[c] = "none" /\ c \notin live
  BY <1>2, InHand DEF Held, Sought, Tidy, Unpinned, Stage
<1>4. handling.stage = "discarded" => transcript[c] = 0
  BY DEF Once, Absent
<1>5. CASE Give(Repeated("accepted"))
  BY <1>2, <1>3, <1>5 DEF Repeated, Says, Answer
<1>6. CASE handling.stage = "discarded" /\ c \in facts.lost /\ Give("lost")
  <2>1. row[c] = "discarded"
    BY <1>1, <1>3, <1>4, <1>6 DEF Truthful
  <2>2. handling' = Idle
    BY <1>6, Answered
  <2>3. ASSUME NEW d \in Command, d = c PROVE Gone(d)'
    BY <1>1, <1>2, <1>3, <1>4, <1>6, <2>1, <2>2, <2>3 DEF Gone, Idle, Flying
  <2> QED
    BY <1>2, <1>3, <1>4, <1>6, <2>3 DEF Says, Answer
<1>7. CASE handling.stage = "discarded" /\ (Give("failed") \/ Give("unknown"))
  BY <1>2, <1>3, <1>4, <1>7 DEF Says, Answer
<1>8. CASE UNCHANGED told
  BY <1>8
<1> QED
  BY <1>1, <1>2, <1>5, <1>6, <1>7, <1>8 DEF LookUp, GoTo

LEMMA SaysWhatIsSo ==
  ASSUME Held, Once, Tidy, [Next]_vars
  PROVE  UNCHANGED told \/ \E answer \in Answer : Says(answer)
<1> USE DEF inbox, store
<1> Typed
  BY DEF Held
<1>1. CASE LookInMemory
  BY <1>1, SaysFromMemory
<1>2. CASE LookInIndex \/ LoadEnds
  BY <1>2, SaysFromFacts
<1>3. CASE LoadFails
  <2>1. Give("unavailable") /\ handling.command \in Command /\ UNCHANGED <<work, transcript>>
    BY <1>3, InHand DEF LoadFails, Held, Stage
  <2> QED
    BY <2>1 DEF Says, Answer
<1>4. CASE Decide
  <2>1. handling.command \in Command /\ UNCHANGED <<work, transcript>>
    BY <1>4, InHand DEF Decide, Stage
  <2>2. UNCHANGED told \/ Give("rejected") \/ Give("noop")
    BY <1>4 DEF Decide, GoTo
  <2> QED
    BY <2>1, <2>2 DEF Says, Answer
<1>5. CASE AdmitFails \/ GiveUp
  <2>1. /\ handling.command \in Command /\ UNCHANGED <<work, transcript>>
        /\ work[handling.command] = "none" /\ transcript[handling.command] = 0
    BY <1>5, InHand DEF AdmitFails, GiveUp, Stage, Held, Sought, Once, Absent, Tidy
  <2>2. Give("failed") \/ Give("noop")
    BY <1>5 DEF AdmitFails, GiveUp
  <2> QED
    BY <2>1, <2>2 DEF Says, Answer
<1>6. CASE Return
  <2>1. handling.command \in Command /\ Give("accepted") /\ UNCHANGED <<work, transcript>>
    BY <1>6, InHand DEF Return, Stage
  <2> QED
    BY <2>1 DEF Says, Answer
<1>7. CASE BeginLoad \/ LoadReads \/ Admit \/ Hand \/ Refused \/ Deactivate \/ Resume \/ Crash \/ UNCHANGED vars
  BY <1>7 DEF BeginLoad, LoadReads, Admit, Hand, Refused, GoTo, Deactivate, Resume, Crash, vars
<1>8. ASSUME NEW c \in Command, Runtime(c) \/ \E query \in BOOLEAN : Send(c, query)
      PROVE  UNCHANGED told
  BY <1>8 DEF Runtime, Enter, Entered, Delete, Deleted, Blocked, Send
<1> QED
  BY <1>1, <1>2, <1>3, <1>4, <1>5, <1>6, <1>7, <1>8 DEF Next, Handle

\* Every step keeps LostStays.
LEMMA LostByStep == Held /\ Once /\ Tidy /\ LostStays /\ [Next]_vars => LostStays'
<1> SUFFICES ASSUME Held, Once, Tidy, LostStays, [Next]_vars PROVE LostStays'
  OBVIOUS
<1>1. \A c \in Command : Lost(c) => Gone(c)'
  BY GoneByStep DEF LostStays
<1>2. CASE UNCHANGED told
  BY <1>1, <1>2 DEF LostStays, Lost
<1>3. ASSUME NEW answer \in Answer, Says(answer) PROVE LostStays'
  <2>1. /\ told' \in [Command -> Seq(Answer)]
        /\ \A c \in Command : Lost(c)' <=> Lost(c) \/ (c = handling.command /\ answer = "lost")
    BY <1>3, Saying DEF LostStays, Says
  <2> QED
    BY <1>1, <1>3, <2>1 DEF LostStays, Says
<1> QED
  BY <1>2, <1>3, SaysWhatIsSo

----------------------------------------------------------------------------
(* Every step of the inbox is one of its promise, or none.                    *)
Kept == Held /\ Once /\ Tidy /\ LostStays

\* The fate of a prompt, from where it is and what was said of it.
LEMMA FateIs ==
  ASSUME NEW c \in Command
  PROVE  /\ work[c] = "held" => fate[c] = "taken"
         /\ work[c] # "held" /\ transcript[c] > 0 => fate[c] = "entered"
         /\ work[c] # "held" /\ ~(transcript[c] > 0) /\ Lost(c) => fate[c] = "dead"
         /\ work[c] # "held" /\ ~(transcript[c] > 0) /\ ~Lost(c) => fate[c] = "open"
BY DEF fate, Lost

LEMMA FateBegins == Init => Promise!Init
BY DEF Init, Promise!Init, fate, Contains

\* Steps that say nothing and move no prompt.
LEMMA FateStays ==
  ASSUME UNCHANGED <<transcript, told>>,
         \A c \in Command : work'[c] = "held" <=> work[c] = "held"
  PROVE  UNCHANGED <<fate, told>>
BY DEF fate

\* An answer.
LEMMA FateTold ==
  ASSUME Kept, NEW answer \in Answer, Says(answer)
  PROVE  Promise!Tell(handling.command, answer)
<1> PICK h \in Command : h = handling.command
  BY DEF Says
<1>1. /\ told' = [told EXCEPT ![h] = Append(@, answer)]
      /\ \A c \in Command : Lost(c)' <=> Lost(c) \/ (c = h /\ answer = "lost")
      /\ UNCHANGED <<work, transcript>>
  BY Saying DEF Says, Kept, LostStays
<1>2. answer \in {"unknown", "failed", "lost"} => work[h] = "none" /\ transcript[h] = 0
  BY DEF Says
<1>3. answer \in {"unknown", "failed", "lost"} => fate[h] \in {"open", "dead"}
  BY <1>2, FateIs
<1>4. fate' = [c \in Command |-> IF answer = "lost" /\ c = h THEN "dead" ELSE fate[c]]
  BY <1>1, <1>2 DEF fate, Lost
<1>5. fate' = IF answer = "lost" THEN [fate EXCEPT ![h] = "dead"] ELSE fate
  BY <1>4 DEF fate
<1> QED
  BY <1>1, <1>3, <1>5 DEF Promise!Tell

\* A prompt that is handed over is open: in no transcript, and not lost.
LEMMA FateTaken ==
  ASSUME Kept, Hand
  PROVE  Promise!Take(handling.command)
<1> PICK h \in Command : h = handling.command
  BY InHand DEF Hand, Kept, Held, Stage
<1>1. /\ work' = [work EXCEPT ![h] = "held"] /\ UNCHANGED <<transcript, told>>
      /\ work[h] = "none" /\ transcript[h] = 0
  BY DEF Hand, GoTo, store, Kept, Held, Sought, Once, Absent
<1>2. ~Lost(h)
  BY DEF Hand, Kept, LostStays, Gone, Flying
<1>3. fate[h] = "open"
  BY <1>1, <1>2, FateIs
<1>4. fate' = [fate EXCEPT ![h] = "taken"]
  BY <1>1 DEF fate, Kept, Held, Typed
<1> QED
  BY <1>1, <1>3, <1>4 DEF Promise!Take

\* A prompt enters once.
LEMMA FateEntered ==
  ASSUME Kept, NEW c \in Command, Enter(c)
  PROVE  Promise!Enter(c)
<1>1. /\ work[c] = "held" /\ work' = [work EXCEPT ![c] = "entering"] /\ transcript[c] = 0
      /\ transcript' = [transcript EXCEPT ![c] = 1] /\ told' = told
  <2>1. /\ work[c] = "held" /\ work' = [work EXCEPT ![c] = "entering"] /\ told' = told
        /\ transcript' = [transcript EXCEPT ![c] = @ + 1]
    BY DEF Enter
  <2>2. transcript[c] = 0
    BY <2>1 DEF Kept, Once
  <2> QED
    BY <2>1, <2>2
<1>2. fate[c] = "taken"
  BY <1>1, FateIs
<1>3. fate' = [fate EXCEPT ![c] = "entered"]
  <2>1. /\ work'[c] # "held" /\ transcript'[c] = 1
        /\ \A d \in Command \ {c} : work'[d] = work[d] /\ transcript'[d] = transcript[d]
    BY <1>1 DEF Kept, Held, Typed, Once
  <2>2. fate'[c] = "entered" /\ \A d \in Command \ {c} : fate'[d] = fate[d]
    BY <1>1, <2>1 DEF fate
  <2>3. fate = [d \in Command |-> fate[d]] /\ fate' = [d \in Command |-> fate'[d]]
    BY DEF fate
  <2> HIDE DEF fate
  <2> QED
    BY <2>2, <2>3
<1> QED
  BY <1>1, <1>2, <1>3 DEF Promise!Enter

\* Prompts that leave the runtime without entering are open again.
LEMMA FateLost ==
  ASSUME Kept, NEW S \in SUBSET Command, S # {}, UNCHANGED <<transcript, told>>,
         \A c \in S : work[c] = "held" /\ work'[c] # "held",
         \A c \in Command \ S : work'[c] = "held" <=> work[c] = "held"
  PROVE  Promise!Lose(S)
<1>1. \A c \in S : transcript[c] = 0 /\ ~Lost(c) /\ fate[c] = "taken"
  BY FateIs DEF Kept, Once, LostStays, Gone
<1>2. fate' = [c \in Command |-> IF c \in S THEN "open" ELSE fate[c]]
  <2>1. ASSUME NEW c \in S PROVE fate'[c] = "open"
    <3>1. work'[c] # "held" /\ ~(transcript'[c] > 0) /\ ~Contains(told'[c], "lost")
      BY <1>1 DEF Lost
    <3> QED
      BY <3>1 DEF fate
  <2>2. \A c \in Command \ S : fate'[c] = fate[c]
    BY DEF fate
  <2>3. fate' = [c \in Command |-> fate'[c]]
    BY DEF fate
  <2> QED
    BY <2>1, <2>2, <2>3
<1> QED
  BY <1>1, <1>2 DEF Promise!Lose

\* Every step.
LEMMA FateSteps == Kept /\ [Next]_vars => [Promise!Next]_<<fate, told>>
<1> SUFFICES ASSUME Kept, [Next]_vars PROVE [Promise!Next]_<<fate, told>>
  OBVIOUS
<1> USE DEF inbox, store
<1>1. ASSUME NEW answer \in Answer, Says(answer) PROVE Promise!Next
  BY <1>1, FateTold DEF Says, Promise!Next
<1>2. CASE Hand
  <2>1. handling.command \in Command
    BY <1>2, InHand DEF Hand, Kept, Held, Stage
  <2> QED
    BY <1>2, <2>1, FateTaken DEF Promise!Next
<1>3. ASSUME NEW c \in Command, Runtime(c) PROVE [Promise!Next]_<<fate, told>>
  <2>1. CASE Enter(c)
    BY <2>1, FateEntered DEF Promise!Next
  <2>2. CASE Delete(c) \/ Blocked(c)
    <3>1. /\ work[c] = "held" /\ work'[c] # "held" /\ UNCHANGED <<transcript, told>>
          /\ \A d \in Command \ {c} : work'[d] = work[d]
      BY <2>2 DEF Delete, Blocked, Kept, Held, Typed
    <3>2. Promise!Lose({c})
      BY <3>1, FateLost
    <3> QED
      BY <3>2 DEF Promise!Next
  <2>3. CASE Entered(c) \/ Deleted(c)
    <3>1. /\ work[c] # "held" /\ work'[c] # "held" /\ UNCHANGED <<transcript, told>>
          /\ \A d \in Command \ {c} : work'[d] = work[d]
      BY <2>3 DEF Entered, Deleted, Kept, Held, Typed
    <3> QED
      BY <3>1, FateStays
  <2> QED
    BY <1>3, <2>1, <2>2, <2>3 DEF Runtime
<1>4. CASE Crash
  <2> DEFINE S == {c \in Command : work[c] = "held"}
  <2>1. UNCHANGED <<transcript, told>> /\ \A c \in Command : work'[c] = "none"
    BY <1>4 DEF Crash
  <2>2. CASE S = {}
    BY <2>1, <2>2, FateStays
  <2>3. CASE S # {}
    <3>1. Promise!Lose(S)
      BY <2>1, <2>3, FateLost
    <3> QED
      BY <3>1 DEF Promise!Next
  <2> QED
    BY <2>2, <2>3
<1>5. CASE UNCHANGED <<work, transcript, told>>
  BY <1>5, FateStays
<1>6. ASSUME UNCHANGED told
      PROVE  \/ Hand \/ (\E c \in Command : Runtime(c)) \/ Crash \/ UNCHANGED <<work, transcript, told>>
  BY <1>6 DEF Next, vars, Handle, LookInMemory, LookInIndex, BeginLoad, LoadReads, LoadEnds, Decide,
     Admit, AdmitFails, Return, Refused, GiveUp, Send, LoadFails, Deactivate, Resume
<1> QED
  BY <1>1, <1>2, <1>3, <1>4, <1>5, <1>6, SaysWhatIsSo DEF Kept

\* The inbox, the index, the rows, the transcript and the runtime together keep what a
\* client relies on, for any number of commands, answers, evictions and ends of the process:
\* a prompt is taken once at a time and enters once, "unknown", "failed" and "lost" are said
\* only of a prompt that is not on its way, and one reported lost never enters afterwards
\* (lookupExact, retryAck, loadPersistentCommandFacts, discardPersistedPendingSteerInputs).
THEOREM PromiseIsKept == Spec => FatePromise
<1>1. Init => Kept
  BY HeldInitially, OnceInitially, TidyInitially, LostInitially DEF Kept
<1>2. Kept /\ [Next]_vars => Kept'
  BY HeldByStep, OnceByStep, TidyByStep, LostByStep DEF Kept
<1> QED
  BY <1>1, <1>2, FateBegins, FateSteps, PTL DEF Spec, FatePromise, Promise!Spec

----------------------------------------------------------------------------
(* A prompt once accepted is never forgotten.  It is pinned; or its row has a *)
(* final status and whatever facts are cached or used tell it; or the process *)
(* has ended and the next load or resume will discard it.                     *)
Accepted(c) == Contains(told[c], "accepted")
Taken(c) == Accepted(c) \/ (handling.stage = "finish" /\ handling.command = c)

\* The facts tell the final status of c.
Tells(facts, c) ==
  /\ row[c] = "promoted" => c \in facts.transcript
  /\ row[c] = "discarded" => c \in facts.lost
  /\ row[c] = "cancelled" => c \in facts.cancelled

Final == {"promoted", "discarded", "cancelled"}
Ended(c) ==
  /\ c \notin live /\ row[c] \in Final
  /\ index # None => Tells(index, c)
  /\ load # None /\ load.facts # None /\ (load.kept \/ handling.command = c) => Tells(load.facts, c)
Orphaned(c) ==
  /\ c \notin live /\ row[c] = "admitted" /\ session = "cold" /\ index = None
  /\ load # None => load.dead /\ load.facts = None

\* No answer about c is remembered but that it was accepted.
NoOther(c) == \A i \in DOMAIN settled : settled[i].command = c => settled[i].ack = "accepted"
Fresh == {"decide", "admit", "execute", "refused"}
Known(c) ==
  /\ c \in live \/ Ended(c) \/ Orphaned(c)
  /\ NoOther(c)
  /\ handling.stage \in Fresh => handling.command # c

\* Rows, transcript and runtime agree on each prompt.
RowsAgree ==
  \A c \in Command :
    /\ row[c] = "promoted" <=> transcript[c] = 1
    /\ c \in live => row[c] # "none"
    /\ work[c] = "entering" => transcript[c] = 1
    /\ work[c] = "deleted" => row[c] \in Final

Remembering ==
  /\ RowsAgree
  /\ handling.stage = "finish" => ~Accepted(handling.command)
  /\ \A c \in Command : Taken(c) => Known(c)

LEMMA RememberingInitially == Init => Remembering
BY DEF Init, Remembering, RowsAgree, Taken, Accepted, Contains, Idle

LEMMA RowsByStep ==
  ASSUME Kept, RowsAgree, [Next]_vars
  PROVE  RowsAgree'
<1> USE DEF inbox, store
<1> row \in [Command -> Row] /\ transcript \in [Command -> {0, 1}] /\ work \in [Command -> Work]
  BY DEF Kept, Held, Typed, Once, Tidy
<1>1. CASE UNCHANGED <<row, transcript, work>> /\ live' \subseteq live
  BY <1>1 DEF RowsAgree
<1>2. CASE /\ UNCHANGED <<transcript, work>> /\ live' = live
           /\ \A c \in Command : row'[c] = row[c] \/ (row[c] = "admitted" /\ row'[c] \in {"discarded", "cancelled"})
  BY <1>2 DEF RowsAgree, Final
<1>3. CASE LoadReads \/ Resume
  BY <1>2, <1>3 DEF LoadReads, Resume, Swept
<1>4. CASE Refused
  BY <1>2, <1>4 DEF Refused
<1>5. CASE Admit
  <2>1. handling.command \in Command
    BY <1>5, InHand DEF Admit, Kept, Held, Stage
  <2>2. /\ \A c \in Command : row'[c] = row[c] \/ (row[c] = "none" /\ row'[c] = "admitted")
        /\ row'[handling.command] # "none"
        /\ live' = live \union {handling.command} /\ UNCHANGED <<transcript, work>>
    BY <1>5, <2>1 DEF Admit
  <2> QED
    BY <2>1, <2>2 DEF RowsAgree, Final
<1>6. CASE Hand
  BY <1>6, InHand DEF Hand, RowsAgree, Kept, Held, Stage
<1>7. CASE Crash
  BY <1>7 DEF Crash, RowsAgree
<1>8. ASSUME NEW c \in Command, Enter(c) PROVE RowsAgree'
  <2>1. /\ row'[c] = "promoted" /\ transcript'[c] = 1 /\ work'[c] = "entering" /\ live' = live
        /\ \A d \in Command \ {c} : row'[d] = row[d] /\ transcript'[d] = transcript[d] /\ work'[d] = work[d]
    BY <1>8 DEF Enter, Kept, Once
  <2> QED
    BY <2>1 DEF RowsAgree
<1>9. ASSUME NEW c \in Command, Delete(c) PROVE RowsAgree'
  <2>1. /\ c \in live /\ transcript[c] = 0 /\ work'[c] = "deleted" /\ live' = live /\ transcript' = transcript
        /\ row'[c] = IF row[c] = "admitted" THEN "cancelled" ELSE row[c]
        /\ \A d \in Command \ {c} : row'[d] = row[d] /\ work'[d] = work[d]
    BY <1>9 DEF Delete, Kept, Once, Held, PinnedWhileHeld
  <2>2. row'[c] \in Final /\ row'[c] # "promoted"
    BY <2>1 DEF RowsAgree, Row, Final
  <2> QED
    BY <2>1, <2>2 DEF RowsAgree
<1>10. ASSUME NEW c \in Command, Entered(c) \/ Deleted(c) \/ Blocked(c) PROVE RowsAgree'
  <2>1. /\ UNCHANGED <<row, transcript>> /\ live' \subseteq live
        /\ work'[c] = "none" /\ \A d \in Command \ {c} : work'[d] = work[d]
    BY <1>10 DEF Entered, Deleted, Blocked, Release
  <2> QED
    BY <2>1 DEF RowsAgree
<1>11. \/ UNCHANGED <<row, transcript, work>> /\ live' \subseteq live
       \/ LoadReads \/ Resume \/ Refused \/ Admit \/ Hand \/ Crash \/ \E c \in Command : Runtime(c)
  BY DEF Next, vars, Handle, LookInMemory, LookInIndex, BeginLoad, LoadEnds, Decide, AdmitFails, Return,
     GiveUp, Send, LoadFails, Deactivate
<1> QED
  BY <1>1, <1>3, <1>4, <1>5, <1>6, <1>7, <1>8, <1>9, <1>10, <1>11 DEF Runtime

\* An answer about another command, or once more "accepted".
LEMMA NoOtherStays ==
  ASSUME Answers(settled), NEW c \in Command, NoOther(c), NEW d \in Command,
         NEW ack \in {"accepted", "noop", "failed"}, d = c => ack = "accepted",
         settled' = Remember(d, ack)
  PROVE  NoOther(c)'
<1> SUFFICES ASSUME NEW i \in DOMAIN settled', settled'[i].command = c
             PROVE  settled'[i].ack = "accepted"
  BY DEF NoOther
<1>1. CASE settled'[i] = [command |-> d, ack |-> ack]
  BY <1>1
<1>2. CASE \E j \in DOMAIN settled : settled'[i] = settled[j]
  BY <1>2 DEF NoOther
<1> QED
  BY <1>1, <1>2, Remembered

\* A known prompt is found by every lookup, so that a repeat of its command ends there.
LEMMA KnownIsFound ==
  ASSUME Kept, RowsAgree, NEW c \in Command, Known(c), handling.command = c,
         LookInIndex \/ LoadEnds
  PROVE  /\ handling' = Idle \/ handling'.stage = "discarded"
         /\ \/ UNCHANGED told
            \/ \E answer \in {"duplicate", "known", "failed", "lost"} : Give(answer)
<1> Typed
  BY DEF Kept, Held
<1>1. /\ handling.stage \in {"transcript", "discarded"} /\ c \notin live
      /\ handling.stage = "discarded" => transcript[c] = 0
  BY DEF LookInIndex, LoadEnds, Looking, Kept, Held, Tidy, Unpinned, Once, Absent
<1>2. PICK facts : LookUp(facts) /\ Tells(facts, c) /\ row[c] \in Final
  BY <1>1 DEF LookInIndex, LoadEnds, Known, Ended, Orphaned
<1>3. handling.stage = "discarded" => c \in facts.lost \/ c \in facts.cancelled
  BY <1>1, <1>2 DEF RowsAgree, Final, Tells
<1>4. CASE GoTo("discarded")
  BY <1>1, <1>4, WentOn DEF GoTo, Stage
<1>5. CASE Give(Repeated("accepted")) \/ Give("lost") \/ Give("failed")
  BY <1>5, Answered DEF Repeated
<1> QED
  BY <1>1, <1>2, <1>3, <1>4, <1>5 DEF LookUp

LEMMA KnownByHandle ==
  ASSUME Kept, RowsAgree, NEW c \in Command, Known(c), Handle
  PROVE  Known(c)'
<1> USE DEF inbox, store
<1> Typed /\ Answers(settled)
  BY DEF Kept, Held, Tidy
<1>1. CASE LookInMemory
  <2>1. handling'.stage \notin Fresh /\ load = None /\ handling.command \in Command
    BY <1>1, Answered, WentOn, NoLoad, InHand DEF LookInMemory, Fresh, Stage, Kept
  <2>2. CASE UNCHANGED settled
    BY <1>1, <2>1, <2>2 DEF LookInMemory, Known, NoOther, Ended, Orphaned, Tells
  <2>3. ASSUME NEW i \in DOMAIN settled, settled[i].command = handling.command,
               settled' = Remember(handling.command, settled[i].ack)
        PROVE  Known(c)'
    <3>1. settled[i] \in Settlement
      BY <2>3 DEF Answers
    <3>2. /\ settled[i].ack \in {"accepted", "noop", "failed"}
          /\ handling.command = c => settled[i].ack = "accepted"
      BY <2>3, <3>1 DEF Settlement, Known, NoOther
    <3>3. NoOther(c)'
      BY <2>1, <2>3, <3>2, NoOtherStays DEF Known
    <3> QED
      BY <1>1, <2>1, <3>3 DEF LookInMemory, Known, Ended, Orphaned, Tells
  <2> QED
    BY <1>1, <2>2, <2>3 DEF LookInMemory
<1>2. ASSUME LookInIndex \/ LoadEnds PROVE Known(c)'
  <2>1. /\ UNCHANGED <<row, session, live, settled>> /\ load' = None
        /\ handling.stage \in {"transcript", "discarded"}
        /\ \/ index' = index /\ (index # None \/ (load # None /\ load.facts # None))
           \/ load # None /\ load.facts # None /\ load.kept /\ index' = load.facts
    <3>1. CASE LookInIndex
      <4>1. /\ UNCHANGED <<row, session, live, settled, index, load>>
            /\ load = None /\ index # None /\ handling.stage \in {"transcript", "discarded"}
        BY <3>1 DEF LookInIndex, Looking
      <4> QED
        BY <4>1
    <3>2. CASE LoadEnds
      <4>1. /\ load # None /\ load.facts # None /\ load' = None
            /\ UNCHANGED <<row, session, live, settled>>
            /\ index' = IF load.kept THEN load.facts ELSE index
        BY <3>2 DEF LoadEnds
      <4>2. handling.stage \in {"transcript", "discarded"}
        BY <4>1 DEF Kept, Held
      <4> QED
        BY <4>1, <4>2
    <3> QED
      BY <1>2, <3>1, <3>2
  <2>2. c \in live' \/ Ended(c)'
    BY <2>1 DEF Known, Ended, Orphaned, Tells
  <2>3. handling'.stage \in Fresh => handling'.command # c
    <3>1. CASE handling.command = c
      BY <1>2, <3>1, KnownIsFound DEF Fresh, Idle
    <3>2. CASE handling.command # c
      <4>1. PICK facts : LookUp(facts)
        BY <1>2 DEF LookInIndex, LoadEnds
      <4> QED
        BY <2>1, <3>2, <4>1, LookedUp DEF Fresh, Idle
    <3> QED
      BY <3>1, <3>2
  <2> QED
    BY <2>1, <2>2, <2>3 DEF Known, NoOther
<1>3. CASE BeginLoad
  <2>1. /\ UNCHANGED <<row, session, live, settled, index, handling>> /\ index = None
        /\ load' = [dead |-> session = "cold", facts |-> None, kept |-> TRUE]
    BY <1>3 DEF BeginLoad
  <2> QED
    BY <2>1 DEF Known, NoOther, Ended, Orphaned, Tells
<1>4. CASE LoadReads
  <2>1. /\ UNCHANGED <<transcript, live, settled, index, handling>>
        /\ load # None /\ load' # None /\ index = None
        /\ load'.facts = Facts(row') /\ row' = IF load.dead THEN Swept ELSE row
        /\ load.dead => Swept[c] = IF row[c] = "admitted" THEN "discarded" ELSE row[c]
    BY <1>4 DEF LoadReads, Kept, Once, Load, None, Tidy, Swept
  <2>2. row[c] \in Final => row'[c] = row[c]
    BY <2>1 DEF Final
  <2>3. row[c] = "promoted" \/ row'[c] \in {"discarded", "cancelled"} => Tells(load.facts, c)'
    BY <2>1, <2>2 DEF Tells, Facts, RowsAgree, Final
  <2>4. Orphaned(c) => row'[c] = "discarded"
    BY <2>1 DEF Orphaned
  <2>5. c \in live' \/ Ended(c)'
    BY <2>1, <2>2, <2>3, <2>4 DEF Known, Ended, Orphaned, Final
  <2> QED
    BY <2>1, <2>5 DEF Known, NoOther
<1>5. CASE Return
  <2>1. /\ handling.command \in Command /\ handling' = Idle /\ load' = None
        /\ UNCHANGED <<row, session, live, index>>
    BY <1>5, InHand, Answered, NoLoad DEF Return, Stage, Kept
  <2>2. NoOther(c)'
    BY <1>5, <2>1, NoOtherStays DEF Return, Known, NoOther
  <2> QED
    BY <2>1, <2>2 DEF Known, Ended, Orphaned, Tells, Idle, Fresh
<1>6. CASE Decide \/ Admit \/ AdmitFails \/ Hand \/ Refused \/ GiveUp
  <2>1. /\ handling.stage \in Fresh /\ handling.stage \in Stage
        /\ handling.command # c /\ handling.command \in Command /\ load = None
    BY <1>6, InHand, NoLoad DEF Decide, Admit, AdmitFails, Hand, Refused, GiveUp, Fresh, Known, Stage, Kept
  <2>2. handling' = Idle \/ handling'.command = handling.command
    BY <1>6, <2>1, Answered, WentOn
       DEF Decide, Admit, AdmitFails, Hand, Refused, GiveUp, Stage
  <2>3. /\ UNCHANGED <<session, index, load>> /\ row'[c] = row[c] /\ (c \in live' <=> c \in live)
    BY <1>6, <2>1 DEF Decide, Admit, AdmitFails, Hand, Refused, GiveUp, Kept, Tidy
  <2>4. NoOther(c)'
    <3>1. CASE UNCHANGED settled
      BY <3>1 DEF Known, NoOther
    <3>2. ASSUME NEW ack \in {"noop", "failed"}, settled' = Remember(handling.command, ack)
          PROVE  NoOther(c)'
      BY <2>1, <3>2, NoOtherStays DEF Known
    <3>3. CASE settled' = Forget(handling.command)
      BY <2>1, <3>3, Forgotten DEF Known, NoOther
    <3> QED
      BY <1>6, <3>1, <3>2, <3>3 DEF Decide, Admit, AdmitFails, Hand, Refused, GiveUp
  <2> QED
    BY <2>1, <2>2, <2>3, <2>4 DEF Known, Ended, Orphaned, Tells, Idle, Fresh
<1> QED
  BY <1>1, <1>2, <1>3, <1>4, <1>5, <1>6 DEF Handle

LEMMA KnownByRuntime ==
  ASSUME Kept, RowsAgree, NEW c \in Command, Known(c), NEW d \in Command, Runtime(d)
  PROVE  Known(c)'
<1> USE DEF inbox, store
<1>1. /\ d \in live /\ session = "live" /\ UNCHANGED <<session, handling>>
      /\ handling.stage \in Unpinned => handling.command # d
  BY DEF Runtime, Enter, Entered, Delete, Deleted, Blocked, Kept, Held, PinnedWhileHeld, Tidy
<1>2. CASE Enter(d) \/ Delete(d) \/ Blocked(d)
  <2>1. /\ UNCHANGED <<live, settled, index, load>>
        /\ c # d => row'[c] = row[c]
    BY <1>2 DEF Enter, Delete, Blocked, Kept, Tidy
  <2>2. c \in live' \/ Ended(c)'
    BY <1>1, <2>1 DEF Known, Ended, Orphaned, Tells
  <2> QED
    BY <1>1, <2>1, <2>2 DEF Known, NoOther
<1>3. CASE Entered(d) \/ Deleted(d)
  <2>1. /\ row' = row /\ index' = None /\ live' = live \ {d} /\ settled' = Remember(d, "accepted")
        /\ load' # None => load # None /\ load'.facts = load.facts /\ ~load'.kept
    BY <1>1, <1>3 DEF Entered, Deleted, Release, Invalidate, Kept, Once, Load
  <2>2. row[d] \in Final
    BY <1>3 DEF Entered, Deleted, RowsAgree, Final
  <2>3. load # None => handling.command # d
    BY <1>1 DEF Kept, Held, Unpinned
  <2>4. c \in live' \/ Ended(c)'
    <3>1. CASE c = d
      BY <1>1, <2>1, <2>2, <2>3, <3>1 DEF Ended
    <3>2. CASE c # d
      BY <1>1, <2>1, <3>2 DEF Known, Ended, Orphaned, Tells
    <3> QED
      BY <3>1, <3>2
  <2>5. NoOther(c)'
    BY <2>1, NoOtherStays DEF Known, Kept, Tidy
  <2> QED
    BY <1>1, <2>4, <2>5 DEF Known
<1> QED
  BY <1>2, <1>3 DEF Runtime

\* A known prompt stays known, whatever happens.
LEMMA KnownByStep ==
  ASSUME Kept, RowsAgree, NEW c \in Command, Known(c), [Next]_vars
  PROVE  Known(c)'
<1> USE DEF inbox, store
<1>1. CASE UNCHANGED vars
  BY <1>1 DEF vars, Known, NoOther, Ended, Orphaned, Tells
<1>2. ASSUME NEW d \in Command, Runtime(d) PROVE Known(c)'
  BY <1>2, KnownByRuntime
<1>3. ASSUME NEW d \in Command, NEW query \in BOOLEAN, Send(d, query) PROVE Known(c)'
  <2>1. load = None /\ handling'.stage \notin Fresh
    BY <1>3, NoLoad DEF Send, Idle, Fresh, Kept
  <2> QED
    BY <1>3, <2>1 DEF Send, Known, NoOther, Ended, Orphaned, Tells
<1>4. CASE Handle
  BY <1>4, KnownByHandle
<1>5. CASE LoadFails
  <2>1. handling' = Idle
    BY <1>5, Answered DEF LoadFails
  <2> QED
    BY <1>5, <2>1 DEF LoadFails, Known, NoOther, Ended, Orphaned, Tells, Idle, Fresh
<1>6. CASE Deactivate
  BY <1>6 DEF Deactivate, Known, NoOther, Ended, Orphaned, Tells
<1>7. CASE Resume
  <2>1. /\ load = None /\ UNCHANGED <<live, settled, index, load, handling>>
        /\ row'[c] = IF row[c] = "admitted" THEN "discarded" ELSE row[c]
    BY <1>7, NoLoad DEF Resume, Swept, Idle, Kept
  <2>2. Orphaned(c) => Ended(c)'
    BY <2>1 DEF Orphaned, Ended, Final
  <2>3. Ended(c) => Ended(c)'
    BY <2>1 DEF Ended, Tells, Final
  <2> QED
    BY <2>1, <2>2, <2>3 DEF Known, NoOther
<1>8. CASE Crash
  <2>1. /\ live' = {} /\ settled' = <<>> /\ index' = None /\ load' = None /\ handling' = Idle
        /\ session' = "cold" /\ row' = row
    BY <1>8 DEF Crash
  <2>2. row[c] \in Final \union {"admitted"}
    BY DEF Known, Ended, Orphaned, RowsAgree, Final, Kept, Tidy, Row
  <2> QED
    BY <2>1, <2>2 DEF Known, NoOther, Ended, Orphaned, Idle, Fresh
<1> QED
  BY <1>1, <1>2, <1>3, <1>4, <1>5, <1>6, <1>7, <1>8 DEF Next

\* A prompt that is handed over is pinned, and no answer about it is remembered.
LEMMA KnownWhenHanded ==
  ASSUME Kept, Hand, NEW c \in Command, c = handling.command
  PROVE  Known(c)'
<1>1. c \in live /\ UNCHANGED <<live, settled>> /\ handling'.stage \notin Fresh
  BY WentOn DEF Hand, inbox, Kept, Held, Stage, Fresh
<1> QED
  BY <1>1 DEF Known, NoOther, Kept, Tidy, Apart

\* What is said of an accepted prompt, and when one is called accepted.
Acknowledgements == {"duplicate", "known", "failed", "lost", "unavailable"}
LEMMA SaysKnown ==
  ASSUME Kept, Remembering, [Next]_vars
  PROVE  \/ UNCHANGED told
         \/ \E answer \in Answer :
              /\ Give(answer) /\ handling.command \in Command
              /\ answer = "accepted" => handling.stage = "finish"
              /\ Accepted(handling.command) => answer \in Acknowledgements
<1> DEFINE Fine(answer) == /\ Give(answer) /\ handling.command \in Command
                           /\ answer = "accepted" => handling.stage = "finish"
                           /\ Accepted(handling.command) => answer \in Acknowledgements
<1> Typed
  BY DEF Kept, Held
<1>1. \A c \in Command : Accepted(c) => Known(c)
  BY DEF Remembering, Taken
<1>2. CASE LookInMemory
  <2>1. handling.command \in Command
    BY <1>2, InHand DEF LookInMemory, Stage
  <2>2. CASE Give(Repeated("accepted"))
    BY <2>1, <2>2 DEF Repeated, Answer, Acknowledgements
  <2>3. ASSUME NEW i \in DOMAIN settled, settled[i].command = handling.command, Give(Repeated(settled[i].ack))
        PROVE  \E answer \in Answer : Fine(answer)
    <3>1. settled[i] \in Settlement
      BY <2>3 DEF Kept, Tidy, Answers
    <3>2. settled[i].ack \in {"accepted", "noop", "failed"}
      BY <3>1 DEF Settlement
    <3>3. Accepted(handling.command) => settled[i].ack = "accepted"
      BY <1>1, <2>1, <2>3 DEF Known, NoOther
    <3>4. /\ Repeated(settled[i].ack) \in Answer \ {"accepted"}
          /\ settled[i].ack = "accepted" => Repeated(settled[i].ack) \in Acknowledgements
      BY <3>2 DEF Repeated, Answer, Acknowledgements
    <3> QED
      BY <2>1, <2>3, <3>3, <3>4
  <2>4. CASE GoTo("transcript")
    BY <2>4 DEF GoTo
  <2> QED
    BY <1>2, <2>2, <2>3, <2>4 DEF LookInMemory
<1>3. ASSUME LookInIndex \/ LoadEnds PROVE UNCHANGED told \/ \E answer \in Answer : Fine(answer)
  <2>1. handling.stage \in {"transcript", "discarded"} /\ handling.command \in Command
    BY <1>3, InHand DEF LookInIndex, LoadEnds, Looking, Kept, Held, Stage
  <2>2. CASE Accepted(handling.command)
    <3>1. \/ UNCHANGED told
          \/ \E answer \in {"duplicate", "known", "failed", "lost"} : Give(answer)
      BY <1>1, <1>3, <2>1, <2>2, KnownIsFound DEF Remembering
    <3> QED
      BY <2>1, <3>1 DEF Answer, Acknowledgements
  <2>3. CASE ~Accepted(handling.command)
    <3>1. PICK facts : LookUp(facts)
      BY <1>3 DEF LookInIndex, LoadEnds
    <3>2. UNCHANGED told \/ \E answer \in Answer \ {"accepted"} : Give(answer)
      BY <2>1, <3>1 DEF LookUp, GoTo, Repeated, Answer
    <3> QED
      BY <2>1, <2>3, <3>2
  <2> QED
    BY <2>2, <2>3
<1>4. CASE LoadFails
  <2>1. Give("unavailable") /\ handling.command \in Command
    BY <1>4, InHand DEF LoadFails, Kept, Held, Stage
  <2> QED
    BY <2>1 DEF Answer, Acknowledgements
<1>5. CASE Decide \/ AdmitFails \/ GiveUp
  <2>1. handling.command \in Command /\ ~Accepted(handling.command)
    BY <1>1, <1>5, InHand DEF Decide, AdmitFails, GiveUp, Stage, Known, Fresh
  <2>2. UNCHANGED told \/ Give("rejected") \/ Give("noop") \/ Give("failed")
    BY <1>5 DEF Decide, AdmitFails, GiveUp, GoTo
  <2> QED
    BY <2>1, <2>2 DEF Answer
<1>6. CASE Return
  <2>1. /\ handling.command \in Command /\ ~Accepted(handling.command)
        /\ Give("accepted") /\ handling.stage = "finish"
    BY <1>6, InHand DEF Return, Stage, Remembering
  <2> QED
    BY <2>1 DEF Answer
<1>7. CASE BeginLoad \/ LoadReads \/ Admit \/ Hand \/ Refused \/ Deactivate \/ Resume \/ Crash \/ UNCHANGED vars
  BY <1>7 DEF BeginLoad, LoadReads, Admit, Hand, Refused, GoTo, Deactivate, Resume, Crash, vars
<1>8. ASSUME NEW c \in Command, Runtime(c) \/ \E query \in BOOLEAN : Send(c, query)
      PROVE  UNCHANGED told
  BY <1>8 DEF Runtime, Enter, Entered, Delete, Deleted, Blocked, Send
<1> QED
  BY <1>2, <1>3, <1>4, <1>5, <1>6, <1>7, <1>8 DEF Next, Handle

\* A request comes to its last stage when its prompt is handed over, and says nothing then.
LEMMA WhenFinished ==
  ASSUME Kept, [Next]_vars, handling'.stage = "finish"
  PROVE  UNCHANGED told /\ (Hand \/ handling' = handling)
<1> Typed
  BY DEF Kept, Held
<1>1. CASE Hand
  BY <1>1 DEF Hand, GoTo
<1>2. CASE handling' = handling
  <2>1. ~\E answer : Give(answer)
    BY <1>2, InHand, Answered DEF Stage
  <2> QED
    BY <1>2, <2>1, SaysWhatIsSo DEF Says, Kept
<1>3. ASSUME LookInMemory \/ Decide \/ Admit \/ AdmitFails \/ Return \/ Refused \/ GiveUp PROVE FALSE
  BY <1>3, Answered, WentOn
     DEF LookInMemory, Decide, Admit, AdmitFails, Return, Refused, GiveUp, Stage
<1>4. ASSUME LookInIndex \/ LoadEnds PROVE FALSE
  <2>1. PICK facts : LookUp(facts)
    BY <1>4 DEF LookInIndex, LoadEnds
  <2>2. handling.stage \in {"transcript", "discarded"}
    BY <1>4 DEF LookInIndex, LoadEnds, Looking, Kept, Held
  <2> QED
    BY <2>1, <2>2, LookedUp DEF Idle
<1>5. ASSUME LoadFails PROVE FALSE
  <2>1. handling.stage \in Stage
    BY <1>5 DEF LoadFails, Kept, Held, Stage
  <2> QED
    BY <1>5, <2>1, Answered DEF LoadFails, Stage
<1>6. ASSUME NEW d \in Command, NEW query \in BOOLEAN, Send(d, query) PROVE FALSE
  BY <1>6 DEF Send
<1>7. ASSUME Crash PROVE FALSE
  BY <1>7 DEF Crash, Idle
<1>8. BeginLoad \/ LoadReads \/ Deactivate \/ Resume \/ (\E c \in Command : Runtime(c)) \/ UNCHANGED vars
        => handling' = handling
  BY DEF BeginLoad, LoadReads, Deactivate, Resume, Runtime, Enter, Entered, Delete, Deleted, Blocked, vars
<1> QED
  BY <1>1, <1>2, <1>3, <1>4, <1>5, <1>6, <1>7, <1>8 DEF Next, Handle

\* What the history of answers was accepted of, after an answer.
LEMMA Accepting ==
  ASSUME told \in [Command -> Seq(Answer)], handling.command \in Command,
         NEW answer \in Answer, Give(answer)
  PROVE  \A c \in Command : Accepted(c)' => Accepted(c) \/ (c = handling.command /\ answer = "accepted")
<1> SUFFICES ASSUME NEW c \in Command, Accepted(c)', ~Accepted(c)
             PROVE  c = handling.command /\ answer = "accepted"
  OBVIOUS
<1>1. told' = [told EXCEPT ![handling.command] = Append(@, answer)]
  BY DEF Give
<1>2. c = handling.command
  BY <1>1 DEF Accepted
<1>3. told'[c] = Append(told[c], answer) /\ told[c] \in Seq(Answer)
  BY <1>1, <1>2
<1>4. /\ Len(Append(told[c], answer)) = Len(told[c]) + 1 /\ Len(told[c]) \in Nat
      /\ \A i \in 1..Len(told[c]) : Append(told[c], answer)[i] = told[c][i]
      /\ Append(told[c], answer)[Len(told[c]) + 1] = answer
  BY <1>3, AppendProperties
<1> QED
  BY <1>2, <1>3, <1>4 DEF Accepted, Contains

LEMMA RememberingByStep == Kept /\ Remembering /\ [Next]_vars => Remembering'
<1> SUFFICES ASSUME Kept, Remembering, [Next]_vars PROVE Remembering'
  OBVIOUS
<1>1. RowsAgree'
  BY RowsByStep DEF Remembering
<1>2. \A c \in Command : Taken(c) => Known(c)'
  BY KnownByStep DEF Remembering
<1>3. \A c \in Command : Accepted(c)' => Taken(c)
  <2>1. CASE UNCHANGED told
    BY <2>1 DEF Taken, Accepted
  <2>2. CASE \E answer \in Answer : /\ Give(answer) /\ handling.command \in Command
                                    /\ answer = "accepted" => handling.stage = "finish"
    BY <2>2, Accepting DEF Taken, Kept, LostStays
  <2> QED
    BY <2>1, <2>2, SaysKnown
<1>4. ASSUME handling'.stage = "finish"
      PROVE  /\ ~Accepted(handling.command)'
             /\ \A c \in Command : c = handling'.command => Known(c)'
  <2>1. UNCHANGED told /\ (Hand \/ handling' = handling)
    BY <1>4, WhenFinished
  <2>2. CASE handling' = handling
    <3>1. ~Accepted(handling.command)'
      BY <1>4, <2>1, <2>2 DEF Remembering, Accepted
    <3>2. \A c \in Command : c = handling'.command => Taken(c)
      BY <1>4, <2>2 DEF Taken
    <3> QED
      BY <1>2, <3>1, <3>2
  <2>3. CASE Hand
    <3>1. /\ handling.command \in Command /\ handling'.command = handling.command
          /\ handling.stage = "execute"
      BY <2>3, InHand, WentOn DEF Hand, Stage, Kept, Held
    <3>2. ~Accepted(handling.command)
      BY <3>1 DEF Remembering, Taken, Known, Fresh
    <3>3. ~Accepted(handling.command)'
      BY <2>1, <3>1, <3>2 DEF Accepted
    <3> QED
      BY <2>3, <3>1, <3>3, KnownWhenHanded
  <2> QED
    BY <2>1, <2>2, <2>3
<1>5. \A c \in Command : Taken(c)' => Known(c)'
  BY <1>2, <1>3, <1>4 DEF Taken
<1> QED
  BY <1>1, <1>4, <1>5 DEF Remembering

\* The answers after an acceptance are acknowledgements.
LEMMA AcknowledgedByStep ==
  ASSUME Kept, Remembering, AcceptedStaysKnown, [Next]_vars
  PROVE  AcceptedStaysKnown'
<1>1. CASE UNCHANGED told
  BY <1>1 DEF AcceptedStaysKnown
<1>2. ASSUME NEW answer \in Answer, Give(answer), handling.command \in Command,
             Accepted(handling.command) => answer \in Acknowledgements
      PROVE  AcceptedStaysKnown'
  <2> PICK h \in Command : h = handling.command
    BY <1>2
  <2>1. told' = [told EXCEPT ![h] = Append(@, answer)] /\ told \in [Command -> Seq(Answer)]
    BY <1>2 DEF Give, Kept, LostStays
  <2>2. told'[h] = Append(told[h], answer) /\ told[h] \in Seq(Answer)
        /\ \A c \in Command \ {h} : told'[c] = told[c]
    BY <2>1
  <2>3. /\ Len(Append(told[h], answer)) = Len(told[h]) + 1 /\ Len(told[h]) \in Nat
        /\ \A i \in 1..Len(told[h]) : Append(told[h], answer)[i] = told[h][i]
        /\ Append(told[h], answer)[Len(told[h]) + 1] = answer
        /\ Append(told[h], answer) \in Seq(Answer)
    BY <2>2, AppendProperties
  <2>4. ASSUME NEW i \in DOMAIN told'[h], NEW j \in DOMAIN told'[h], i < j, told'[h][i] = "accepted"
        PROVE  told'[h][j] \in Acknowledgements
    <3>1. /\ i \in 1..Len(told[h]) + 1 /\ j \in 1..Len(told[h]) + 1 /\ i \in 1..Len(told[h])
          /\ DOMAIN told[h] = 1..Len(told[h])
      BY <2>2, <2>3, <2>4
    <3>2. told[h][i] = "accepted"
      BY <2>2, <2>3, <2>4, <3>1
    <3>3. CASE j \in 1..Len(told[h])
      <4>1. told'[h][j] = told[h][j]
        BY <2>2, <2>3, <3>3
      <4> QED
        BY <2>4, <3>1, <3>2, <3>3, <4>1 DEF AcceptedStaysKnown, Acknowledgements
    <3>4. CASE j = Len(told[h]) + 1
      BY <1>2, <2>2, <2>3, <3>1, <3>2, <3>4 DEF Accepted, Contains
    <3> QED
      BY <2>3, <3>1, <3>3, <3>4
  <2>5. ASSUME NEW c \in Command, NEW i \in DOMAIN told'[c], NEW j \in DOMAIN told'[c], i < j,
               told'[c][i] = "accepted"
        PROVE  told'[c][j] \in Acknowledgements
    <3>1. CASE c = h
      BY <2>4, <2>5, <3>1
    <3>2. CASE c # h
      BY <2>2, <2>5, <3>2 DEF AcceptedStaysKnown, Acknowledgements
    <3> QED
      BY <3>1, <3>2
  <2> QED
    BY <2>5 DEF AcceptedStaysKnown, Acknowledgements
<1> QED
  BY <1>1, <1>2, SaysKnown

\* No answer after "accepted" says that the inbox does not know the command, or accepts or
\* refuses it anew: for any number of commands, evictions, deactivations and ends of the
\* process (lookupExact, ingestNormalizedEvent, loadPersistentCommandFacts).
THEOREM AcceptedIsRemembered == Spec => []AcceptedStaysKnown
<1>1. Init => Kept /\ Remembering /\ AcceptedStaysKnown
  <2>1. Init => AcceptedStaysKnown
    BY DEF Init, AcceptedStaysKnown
  <2> QED
    BY <2>1, HeldInitially, OnceInitially, TidyInitially, LostInitially, RememberingInitially DEF Kept
<1>2. (Kept /\ Remembering /\ AcceptedStaysKnown) /\ [Next]_vars
        => (Kept /\ Remembering /\ AcceptedStaysKnown)'
  BY HeldByStep, OnceByStep, TidyByStep, LostByStep, RememberingByStep, AcknowledgedByStep DEF Kept
<1> QED
  BY <1>1, <1>2, PTL DEF Spec

----------------------------------------------------------------------------
(* The type invariant: beside what the invariants above say, the settled table *)
(* never outgrows its limit and the answers given are answers.                 *)
Bounded ==
  /\ Len(settled) <= Limit /\ told \in [Command -> Seq(Answer)]
  /\ session \in {"cold", "live"} /\ crashes \in 0..MaxCrashes

\* How a step leaves the settled table.
LEMMA SettledByStep ==
  ASSUME Held, Tidy, Bounded, [Next]_vars
  PROVE  Len(settled') <= Limit
<1> USE DEF inbox
<1> Typed /\ Answers(settled) /\ Len(settled) <= Limit /\ Limit \in Nat \ {0}
  BY InboxAssumption DEF Held, Tidy, Bounded
<1>1. Len(settled) \in Nat
  BY DEF Answers
<1>2. CASE settled' = settled \/ settled' = <<>>
  BY <1>2
<1>3. ASSUME NEW c \in Command, NEW ack \in {"accepted", "noop", "failed"}, settled' = Remember(c, ack)
      PROVE  Len(settled') <= Limit
  BY <1>3, Remembered
<1>4. CASE LookInMemory
  <2> DEFINE c == handling.command
  <2>1. c \in Command
    BY <1>4, InHand DEF LookInMemory, Stage
  <2>2. ASSUME NEW i \in DOMAIN settled, settled' = Remember(c, settled[i].ack)
        PROVE  Len(settled') <= Limit
    <3>1. settled[i] \in Settlement
      BY DEF Answers
    <3>2. settled[i].ack \in {"accepted", "noop", "failed"}
      BY <3>1 DEF Settlement
    <3> QED
      BY <1>3, <2>1, <2>2, <3>2
  <2> QED
    BY <1>2, <1>4, <2>2 DEF LookInMemory
<1>5. CASE Decide \/ AdmitFails \/ Return \/ GiveUp
  <2> DEFINE c == handling.command
  <2>1. c \in Command
    BY <1>5, InHand DEF Decide, AdmitFails, Return, GiveUp, Stage
  <2>2. settled' = settled \/ \E ack \in {"accepted", "noop", "failed"} : settled' = Remember(c, ack)
    BY <1>5 DEF Decide, AdmitFails, Return, GiveUp
  <2> QED
    BY <1>2, <1>3, <2>1, <2>2
<1>6. CASE Admit
  <2>1. handling.command \in Command /\ settled' = Forget(handling.command)
    BY <1>6, InHand DEF Admit, Stage
  <2>2. Len(settled') <= Len(settled) /\ Answers(settled')
    BY <2>1, Forgotten
  <2>3. Len(settled') \in Nat
    BY <2>2 DEF Answers
  <2> QED
    BY <1>1, <2>2, <2>3
<1>7. CASE \E c \in Command : Entered(c) \/ Deleted(c)
  BY <1>2, <1>3, <1>7 DEF Entered, Deleted, Release
<1>8. CASE \/ UNCHANGED vars \/ LookInIndex \/ BeginLoad \/ LoadReads \/ LoadEnds \/ LoadFails
           \/ Hand \/ Refused \/ Deactivate \/ Resume \/ Crash
           \/ \E c \in Command : Enter(c) \/ Delete(c) \/ Blocked(c) \/ \E query \in BOOLEAN : Send(c, query)
  BY <1>2, <1>8 DEF vars, LookInIndex, BeginLoad, LoadReads, LoadEnds, LoadFails, Hand, Refused, Deactivate,
     Resume, Crash, Enter, Delete, Blocked, Send
<1> QED
  BY <1>4, <1>5, <1>6, <1>7, <1>8 DEF Next, Handle, Runtime

LEMMA BoundedByStep == Held /\ Once /\ Tidy /\ Bounded /\ [Next]_vars => Bounded'
<1> SUFFICES ASSUME Held, Once, Tidy, Bounded, [Next]_vars PROVE Bounded'
  OBVIOUS
<1>1. Len(settled') <= Limit
  BY SettledByStep
<1>2. told' \in [Command -> Seq(Answer)]
  <2>1. CASE UNCHANGED told
    BY <2>1 DEF Bounded
  <2>2. ASSUME NEW answer \in Answer, Says(answer) PROVE told' \in [Command -> Seq(Answer)]
    <3>1. handling.command \in Command /\ told' = [told EXCEPT ![handling.command] = Append(@, answer)]
      BY <2>2 DEF Says, Give
    <3>2. told[handling.command] \in Seq(Answer)
      BY <3>1 DEF Bounded
    <3>3. Append(told[handling.command], answer) \in Seq(Answer)
      BY <3>2, AppendProperties
    <3> QED
      BY <3>1, <3>3 DEF Bounded
  <2> QED
    BY <2>1, <2>2, SaysWhatIsSo
<1>3. session' \in {"cold", "live"} /\ crashes' \in 0..MaxCrashes
  <2>1. UNCHANGED <<session, crashes>> \/ Deactivate \/ Resume \/ Crash
    BY DEF Next, Handle, Runtime, vars, store, inbox, LookInMemory, LookInIndex, BeginLoad, LoadReads, LoadEnds,
       LoadFails, Decide, Admit, AdmitFails, Hand, Return, Refused, GiveUp, Enter, Entered, Delete, Deleted,
       Blocked, Send
  <2> QED
    BY <2>1, InboxAssumption DEF Bounded, Deactivate, Resume, Crash
<1> QED
  BY <1>1, <1>2, <1>3 DEF Bounded

\* The variables keep their types; the settled table holds at most Limit answers, one
\* for a command, and a load is awaited only by a request that is looking.
THEOREM TypeCorrect == Spec => []TypeOK
<1>1. Init => Held /\ Once /\ Tidy /\ Bounded
  <2>1. Init => Bounded
    BY InboxAssumption DEF Init, Bounded
  <2> QED
    BY <2>1, HeldInitially, OnceInitially, TidyInitially
<1>2. (Held /\ Once /\ Tidy /\ Bounded) /\ [Next]_vars => (Held /\ Once /\ Tidy /\ Bounded)'
  BY HeldByStep, OnceByStep, TidyByStep, BoundedByStep
<1>3. Held /\ Once /\ Tidy /\ Bounded => TypeOK
  <2> SUFFICES ASSUME Held, Once, Tidy, Bounded PROVE TypeOK
    OBVIOUS
  <2>1. transcript \in [Command -> Nat]
    BY DEF Once
  <2> QED
    BY <2>1 DEF Held, Typed, Tidy, Answers, Bounded, TypeOK
<1> QED
  BY <1>1, <1>2, <1>3, PTL DEF Spec
=============================================================================
