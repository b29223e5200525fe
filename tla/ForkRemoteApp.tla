--------------------------- MODULE ForkRemoteApp ---------------------------
(* The connection controller of the /fork web page                             *)
(* (web/src/customForkRemoteApp.tsx), over connectViaWebSocket                 *)
(* (client/src/websocket.ts).  Each attempt has a generation: it fetches       *)
(* tickets and the state of the Mac, dials, and is followed by a retry when    *)
(* the socket fails or closes.  A callback of an attempt knows its generation, *)
(* which the controller compares with its own where the code does; a timer is  *)
(* known to the controller only until another takes its place in timerRef.     *)
EXTENDS Naturals, FiniteSets

CONSTANTS
  MaxGenerations,  \* bound on connect and unmount
  MaxFaults        \* bound on failed fetches and dials and on sockets closed by the server

ASSUME PageBoundAssumption == MaxGenerations \in Nat \ {0} /\ MaxFaults \in Nat

Generation == 1..MaxGenerations
None == 0
\* Why a timer was set: the dial failed, the socket closed, or to end "restored".
Timer == Generation \X {"failed", "closed", "restored"}
NoTimer == <<None, "none">>

VARIABLES
  mounted,
  generation,  \* generationRef
  timers,      \* timers that will fire
  tracked,     \* timerRef
  socket,      \* generation of socketRef, or None
  wasOnline,   \* wasOnlineRef
  connection,  \* generation of the services the page shows, or None
  shown,       \* the connection state the page shows
  attempt,     \* [Generation -> how far its attempt is]
  device,      \* [Generation -> was the Mac online when the attempt asked]
  initialized, \* generations whose socket brought Initialize
  mac,         \* is the Mac online
  faults

refs == <<generation, timers, tracked, socket, wasOnline>>
page == <<mounted, connection, shown>>
world == <<initialized, mac, faults>>
pageVars == <<refs, page, attempt, device, world>>

Advance(g, phase) == attempt' = [attempt EXCEPT ![g] = phase]
Show(s) == shown' = IF mounted THEN s ELSE shown
Fault == faults < MaxFaults /\ faults' = faults + 1

PageInit ==
  /\ mounted = TRUE
  /\ generation = 1
  /\ timers = {} /\ tracked = NoTimer
  /\ socket = None /\ wasOnline = FALSE
  /\ connection = None /\ shown = "connecting"
  /\ attempt = [g \in Generation |-> IF g = 1 THEN "loading" ELSE "none"]
  /\ device = [g \in Generation |-> FALSE]
  /\ initialized = {} /\ mac \in BOOLEAN /\ faults = 0

----------------------------------------------------------------------------
\* scheduleRetry of attempt g.
ScheduleRetry(g, state, why) ==
  IF g = generation
  THEN /\ Show(state)
       /\ timers' = timers \cup {<<g, why>>} /\ tracked' = <<g, why>>
  ELSE UNCHANGED <<shown, timers, tracked>>

\* Mutant of Connect: timerRef is not cleared.
ConnectKeepsTimer(left) ==
  /\ generation < MaxGenerations
  /\ generation' = generation + 1
  /\ timers' = left
  /\ Show(IF wasOnline THEN "reconnecting" ELSE "connecting")
  /\ Advance(generation + 1, "loading")

\* connect, the timers left being those of left.
Connect(left) ==
  /\ generation < MaxGenerations
  /\ generation' = generation + 1
  /\ timers' = left \ {tracked}
  /\ Show(IF wasOnline THEN "reconnecting" ELSE "connecting")
  /\ Advance(generation + 1, "loading")

\* A retry timer fires.  The timer of a failed dial was set before the one of its
\* close and has no longer delay.
Retry ==
  /\ \E t \in timers :
       /\ t[2] # "restored"
       /\ t[2] = "closed" => <<t[1], "failed">> \notin timers
       /\ Connect(timers \ {t})
  /\ UNCHANGED <<tracked, socket, wasOnline, mounted, connection, device, world>>

\* The timer that ends "restored" fires.
RestoredEnds ==
  /\ \E t \in timers : t[2] = "restored" /\ timers' = timers \ {t}
  /\ Show("online")
  /\ UNCHANGED <<generation, tracked, socket, wasOnline, mounted, connection, attempt, device, world>>

\* Nobody is signed in, or the server says 401.
Refused(g) ==
  /\ attempt[g] = "loading"
  /\ Advance(g, "refused") /\ Show("authentication-required")
  /\ UNCHANGED <<refs, mounted, connection, device, world>>

\* Mutant of FetchFails: an attempt that failed before its dial is not tried again.
FetchFailsForGood(g) ==
  /\ attempt[g] = "loading" /\ Fault
  /\ Advance(g, "ended") /\ Show("relay-unavailable")
  /\ UNCHANGED <<refs, mounted, connection, device, initialized, mac>>

\* A response is not ok, or a fetch throws.
FetchFails(g) ==
  /\ attempt[g] = "loading" /\ Fault
  /\ Advance(g, "ended")
  /\ \E state \in {"relay-unavailable"} \cup (IF wasOnline THEN {"reconnecting"} ELSE {}) :
       ScheduleRetry(g, state, "failed")
  /\ UNCHANGED <<generation, socket, wasOnline, mounted, connection, device, initialized, mac>>

\* Tickets and the state of the Mac are here; the attempt dials the relay, or the
\* server itself when the Mac is offline.
FetchSucceeds(g) ==
  /\ attempt[g] = "loading"
  /\ Advance(g, "dialing")
  /\ device' = [device EXCEPT ![g] = mac]
  /\ IF mac THEN UNCHANGED shown ELSE Show("offline")
  /\ UNCHANGED <<refs, mounted, connection, world>>

\* The socket is open; connectViaWebSocket resolves and the attempt commits at once.
SocketOpens(g) ==
  /\ attempt[g] = "dialing"
  /\ Advance(g, "open")
  /\ IF g = generation
     THEN /\ socket' = g /\ connection' = g /\ wasOnline' = TRUE
          /\ Show(IF wasOnline THEN "restored" ELSE IF device[g] THEN "online" ELSE "offline")
          /\ timers' = IF wasOnline THEN timers \cup {<<g, "restored">>} ELSE timers
          /\ tracked' = IF wasOnline THEN <<g, "restored">> ELSE tracked
     ELSE UNCHANGED <<socket, connection, wasOnline, shown, timers, tracked>>
  /\ UNCHANGED <<generation, mounted, device, world>>

\* The error event of a dial: connectViaWebSocket rejects.
SocketFails(g) ==
  /\ attempt[g] = "dialing" /\ Fault
  /\ Advance(g, "failed")
  /\ ScheduleRetry(g, IF wasOnline THEN "reconnecting" ELSE "relay-unavailable", "failed")
  /\ UNCHANGED <<generation, socket, wasOnline, mounted, connection, device, initialized, mac>>

\* The close event, after an error or by the server or the page.
SocketCloses(g) ==
  /\ \/ attempt[g] \in {"failed", "closing"} /\ UNCHANGED faults
     \/ attempt[g] = "open" /\ Fault
  /\ Advance(g, "ended")
  /\ ScheduleRetry(g, "reconnecting", "closed")
  /\ UNCHANGED <<generation, socket, wasOnline, mounted, connection, device, initialized, mac>>

\* The clean-up of the effect.
Unmount ==
  /\ mounted /\ generation < MaxGenerations
  /\ mounted' = FALSE
  /\ generation' = generation + 1
  /\ timers' = timers \ {tracked}
  /\ attempt' = [g \in Generation |-> IF g = socket /\ attempt[g] = "open"
                                      THEN "closing" ELSE attempt[g]]
  /\ UNCHANGED <<tracked, socket, wasOnline, connection, shown, device, world>>

\* The channel server behind the socket says Initialize.
Initialize(g) ==
  /\ attempt[g] = "open" /\ g \notin initialized
  /\ initialized' = initialized \cup {g}
  /\ UNCHANGED <<refs, page, attempt, device, mac, faults>>

\* The Mac's presence comes and goes.
MacChanges ==
  /\ mac' = ~mac
  /\ IF mac THEN Fault ELSE UNCHANGED faults
  /\ UNCHANGED <<refs, page, attempt, device, initialized>>

PageNext ==
  \/ \E g \in Generation :
       \/ Refused(g) \/ FetchFails(g) \/ FetchSucceeds(g)
       \/ SocketOpens(g) \/ SocketFails(g) \/ SocketCloses(g) \/ Initialize(g)
  \/ Retry \/ RestoredEnds \/ Unmount \/ MacChanges

PageSpec == PageInit /\ [][PageNext]_pageVars

\* Requests are answered, timers fire, a dial ends, a close is heard, and the Mac
\* does not stay away.
PageFairness ==
  /\ \A g \in Generation :
       /\ WF_pageVars(Refused(g) \/ FetchFails(g) \/ FetchSucceeds(g))
       /\ WF_pageVars(SocketOpens(g) \/ SocketFails(g))
       /\ WF_pageVars(attempt[g] # "open" /\ SocketCloses(g)) /\ WF_pageVars(Initialize(g))
  /\ WF_pageVars(Retry) /\ WF_pageVars(RestoredEnds)
  /\ WF_pageVars(~mac /\ MacChanges)

PageFairSpec == PageSpec /\ PageFairness

----------------------------------------------------------------------------
(* Properties.                                                               *)

State == {"authentication-required", "relay-unavailable", "offline", "connecting", "online",
          "reconnecting", "restored"}
Phase == {"none", "loading", "refused", "dialing", "open", "failed", "closing", "ended"}

\* The variables keep their types.
PageTypeOK ==
  /\ mounted \in BOOLEAN /\ generation \in Generation
  /\ timers \subseteq Timer /\ tracked \in Timer \cup {NoTimer}
  /\ socket \in Generation \cup {None} /\ connection \in Generation \cup {None}
  /\ wasOnline \in BOOLEAN /\ shown \in State
  /\ attempt \in [Generation -> Phase] /\ device \in [Generation -> BOOLEAN]
  /\ initialized \subseteq Generation /\ mac \in BOOLEAN /\ faults \in 0..MaxFaults

InFlight == {g \in Generation : attempt[g] \in {"loading", "dialing", "open"}}
Retries == {t \in timers : t[2] # "restored"}

\* "Reconnect attempts are single-flight": of a mounted page there is at most one
\* attempt or open socket, and no retry waits beside it.  One failed dial sets two
\* timers, of which only the later can be cleared.
SingleFlight ==
  mounted => Cardinality(InFlight) <= 1 /\ (Retries # {} => InFlight = {})

\* Whatever fails, a mounted page whose user stays signed in is connected in the end
\* and stays so.
Reconnects ==
  <>[](\/ ~mounted \/ attempt[generation] = "refused"
       \/ connection = generation /\ attempt[generation] = "open")

\* "online: the replayable RPC socket is initialized", and nothing is mounted before
\* Initialize is received.
MountsInitialized == connection # None => connection \in initialized

\* The page says "Mac online" only while its socket is open.
OnlineIsConnected ==
  mounted /\ shown = "online" => attempt[generation] = "open"

\* "Unmount/page teardown invalidates the generation": no attempt begins after it.
TeardownIsFinal == [][~mounted => generation' = generation]_pageVars

\* "Waiting for the Mac relay to return": a page that shows "offline" shows something
\* else when the Mac has come back to stay.
OfflineNoticesMac == <>[]mac => []<>(shown # "offline" \/ ~mounted)
=============================================================================
