------------------------------ MODULE ForkRelay ------------------------------
(* The relay between browsers and a Mac (server/src/customForkRelay.ts and the *)
(* /fork/relay routes of http.ts) together with the Mac's end of it             *)
(* (desktop/src/host/customForkHostRelay.ts).                                   *)
(*                                                                              *)
(* The Mac keeps one presence socket, over which the relay asks it to attach    *)
(* and detach; for each browser it opens a socket of its own, which the relay   *)
(* pipes to the browser's.  A socket has two ends: the far one, at the Mac or   *)
(* the browser, and the near one, at the relay.  Closing takes a handshake, so  *)
(* the two ends hear of it at different times; a broken connection is noticed   *)
(* by each end in its own time, and the relay may accept a request whose sender *)
(* has already given up.  Of the bytes in the pipe only the Initialize frame of *)
(* the channel server is modelled.                                              *)
EXTENDS Integers, Sequences, SequencesExt

CONSTANTS
  NBrowsers,    \* browser connections; each is one attachment
  MaxPresence,  \* bound on the Mac's presence connections
  MaxFaults     \* bound on broken connections and relay restarts

ASSUME BoundAssumption == NBrowsers \in Nat /\ MaxPresence \in Nat \ {0} /\ MaxFaults \in Nat

Browser == 1..NBrowsers
Generation == 1..MaxPresence
NoPresence == 0

P(g) == <<"presence", g>>
M(b) == <<"mac", b>>
B(b) == <<"browser", b>>
Socket == {P(g) : g \in Generation} \cup {M(b) : b \in Browser} \cup {B(b) : b \in Browser}

VARIABLES
  far, near,   \* [Socket -> "none", "connecting", "open", "closing", "closed"]
  broken,      \* sockets whose connection is lost
  \* the relay
  device,      \* the registered presence and whether it is online
  attachment,  \* [Browser -> "none", "pending", "paired", or why it was disposed]
  via,         \* [Browser -> the presence its attachment was announced to]
  \* frames on their way
  control,     \* [Generation -> frames of the presence socket to the Mac]
  initialize,  \* [Browser -> where its Initialize frame is]
  \* the Mac
  generation, presence, retrying, disposed,
  opened,      \* browsers in the Mac's map of attachment sockets
  serving,     \* browsers with a channel server
  faults

relay == <<device, attachment, via>>
frames == <<control, initialize>>
mac == <<generation, presence, retrying, disposed, opened, serving>>
vars == <<far, near, broken, relay, frames, mac, faults>>

Active == {b \in Browser : attachment[b] \in {"pending", "paired"}}
Frame == [type : {"attach", "detach"}, id : Browser]

\* The ends of sockets S of map m, closed by their owner.
Closing(m, S) ==
  [s \in Socket |-> IF s \in S /\ m[s] \in {"connecting", "open"} THEN "closing" ELSE m[s]]

Init ==
  /\ far = [s \in Socket |-> IF s = P(1) THEN "connecting" ELSE "none"]
  /\ near = [s \in Socket |-> "none"]
  /\ broken = {}
  /\ device = [sock |-> NoPresence, online |-> FALSE]
  /\ attachment = [b \in Browser |-> "none"]
  /\ via = [b \in Browser |-> NoPresence]
  /\ control = [g \in Generation |-> <<>>]
  /\ initialize = [b \in Browser |-> "none"]
  /\ generation = 1 /\ presence = 1
  /\ retrying = FALSE /\ disposed = FALSE
  /\ opened = {} /\ serving = {}
  /\ faults = 0

----------------------------------------------------------------------------
(* The relay.                                                                *)

Reachable(m) == device.sock # NoPresence /\ m[P(device.sock)] = "open"

\* Mutant of Dispose: the browser is left on its pipe.
DisposeKeepsBrowser(S, reason, m) ==
  /\ attachment' = [b \in Browser |-> IF b \in S THEN reason ELSE attachment[b]]
  /\ near' = Closing(m, {M(b) : b \in {c \in S : attachment[c] = "paired"}})
  /\ control' = IF Reachable(m)
                THEN [control EXCEPT ![device.sock] = @ \o
                        SetToSeq({[type |-> "detach", id |-> b] :
                                  b \in {c \in S : attachment[c] = "paired"}})]
                ELSE control

\* disposeRelayAttachment for the attachments of S, the near ends being m.
Dispose(S, reason, m) ==
  LET paired == {b \in S : attachment[b] = "paired"}
  IN  /\ attachment' = [b \in Browser |-> IF b \in S THEN reason ELSE attachment[b]]
      /\ near' = Closing(m, {M(b) : b \in paired} \cup {B(b) : b \in S})
      /\ control' = IF Reachable(m)
                    THEN [control EXCEPT ![device.sock] = @ \o
                            SetToSeq({[type |-> "detach", id |-> b] : b \in paired})]
                    ELSE control

Arrives(s) == near[s] = "none" /\ far[s] # "none"

\* Mutant of AcceptPresence: the presence it replaces is not closed.
AcceptPresenceBeside(g) ==
  /\ Arrives(P(g))
  /\ near' = [near EXCEPT ![P(g)] = "open"]
  /\ device' = [sock |-> g, online |-> TRUE]
  /\ UNCHANGED <<far, broken, attachment, via, frames, mac, faults>>

\* registerRelayDevice
AcceptPresence(g) ==
  /\ Arrives(P(g))
  /\ near' = [Closing(near, {P(h) : h \in Generation \cap {device.sock}}) EXCEPT ![P(g)] = "open"]
  /\ device' = [sock |-> g, online |-> TRUE]
  /\ UNCHANGED <<far, broken, attachment, via, frames, mac, faults>>

\* The relay turns a browser away: its ticket is not valid or the Mac is offline.
RejectBrowser(b) ==
  /\ Arrives(B(b))
  /\ near' = [near EXCEPT ![B(b)] = "closing"]
  /\ UNCHANGED <<far, broken, relay, frames, mac, faults>>

\* createRelayAttachment: the Mac is asked to attach, if it can be.
AcceptBrowser(b) ==
  /\ Arrives(B(b)) /\ device.online
  /\ IF Reachable(near)
     THEN /\ near' = [near EXCEPT ![B(b)] = "open"]
          /\ attachment' = [attachment EXCEPT ![b] = "pending"]
          /\ via' = [via EXCEPT ![b] = device.sock]
          /\ control' = [control EXCEPT ![device.sock] =
                           Append(@, [type |-> "attach", id |-> b])]
     ELSE /\ near' = [near EXCEPT ![B(b)] = "closing"]
          /\ attachment' = [attachment EXCEPT ![b] = "device_control_unavailable"]
          /\ UNCHANGED <<via, control>>
  /\ UNCHANGED <<far, broken, device, initialize, mac, faults>>

\* Mutant of AcceptMac: a socket for a browser that has gone is not closed.
AcceptMacUnchecked(b) ==
  /\ Arrives(M(b))
  /\ near' = [near EXCEPT ![M(b)] = "open"]
  /\ IF attachment[b] = "pending" /\ near[B(b)] = "open"
     THEN attachment' = [attachment EXCEPT ![b] = "paired"]
     ELSE UNCHANGED attachment
  /\ UNCHANGED <<far, broken, device, via, frames, mac, faults>>

\* attachRelayDeviceSocket
AcceptMac(b) ==
  /\ Arrives(M(b))
  /\ IF attachment[b] = "pending" /\ near[B(b)] = "open"
     THEN /\ near' = [near EXCEPT ![M(b)] = "open"]
          /\ attachment' = [attachment EXCEPT ![b] = "paired"]
     ELSE near' = [near EXCEPT ![M(b)] = "closing"] /\ UNCHANGED attachment
  /\ UNCHANGED <<far, broken, device, via, frames, mac, faults>>

\* Mutant of SetupTimeout: the timer is never armed.
NoTimeout(b) == FALSE

SetupTimeout(b) ==
  /\ attachment[b] = "pending"
  /\ Dispose({b}, "setup_timeout", near)
  /\ UNCHANGED <<far, broken, device, via, initialize, mac, faults>>

\* The relay hears that socket s is closed: its peer closed it and every frame
\* before that has arrived, or the handshake it began is over, or the connection
\* is lost.
NearHears(s) ==
  \/ near[s] \in {"open", "closing"} /\ s \in broken
  \/ near[s] = "closing"
  \/ near[s] = "open" /\ far[s] \in {"closing", "closed"} /\
       \A b \in Browser : s = M(b) => initialize[b] # "sent"

Gone(s) == [near EXCEPT ![s] = "closed"]

NearPresenceCloses(g) ==
  /\ NearHears(P(g))
  /\ device' = IF device.sock = g THEN [device EXCEPT !.online = FALSE] ELSE device
  /\ Dispose(Active, "device_offline", Gone(P(g)))
  /\ UNCHANGED <<far, broken, via, initialize, mac, faults>>

NearBrowserCloses(b) ==
  /\ NearHears(B(b))
  /\ Dispose(Active \cap {b}, "browser_closed", Gone(B(b)))
  /\ UNCHANGED <<far, broken, device, via, initialize, mac, faults>>

NearMacCloses(b) ==
  /\ NearHears(M(b))
  /\ Dispose({c \in {b} : attachment[c] = "paired"}, "device_socket_closed", Gone(M(b)))
  /\ initialize' = [initialize EXCEPT ![b] = IF @ = "sent" THEN "lost" ELSE @]
  /\ UNCHANGED <<far, broken, device, via, mac, faults>>

\* The pipe: a frame of the Mac goes to the browser the socket is paired with.
Forward(b) ==
  /\ initialize[b] = "sent" /\ near[M(b)] \in {"open", "closing"}
  /\ initialize' = [initialize EXCEPT ![b] =
                      IF attachment[b] = "paired" /\ near[B(b)] = "open"
                      THEN "forwarded" ELSE "dropped"]
  /\ UNCHANGED <<far, near, broken, relay, control, mac, faults>>

----------------------------------------------------------------------------
(* The Mac.                                                                  *)

\* A far end learns that the relay accepted its socket.
Opens(s) == far[s] = "connecting" /\ near[s] # "none" /\ s \notin broken

\* A far end hears that its socket is closed.
FarHears(s) ==
  \/ far[s] \in {"connecting", "open", "closing"} /\ s \in broken
  \/ far[s] = "closing"
  \/ /\ far[s] = "open" /\ near[s] \in {"closing", "closed"}
     /\ \A g \in Generation : s = P(g) => control[g] = <<>>
     /\ \A b \in Browser : s = B(b) => initialize[b] # "forwarded"

\* connectPresence, by the reconnect timer.
ConnectPresence ==
  /\ retrying /\ ~disposed /\ generation < MaxPresence
  /\ generation' = generation + 1 /\ presence' = generation + 1
  /\ retrying' = FALSE
  /\ far' = [far EXCEPT ![P(generation + 1)] = "connecting"]
  /\ UNCHANGED <<near, broken, relay, frames, disposed, opened, serving, faults>>

PresenceOpens(g) ==
  /\ Opens(P(g))
  /\ far' = [far EXCEPT ![P(g)] = IF presence = g THEN "open" ELSE "closing"]
  /\ UNCHANGED <<near, broken, relay, frames, mac, faults>>

\* A control frame: attach opens a socket for the browser, detach closes it.
HandleControl(g) ==
  /\ far[P(g)] = "open" /\ control[g] # <<>>
  /\ \E frame \in {Head(control[g])} :
       IF presence # g THEN UNCHANGED <<far, opened>>
       ELSE IF frame.type = "detach"
       THEN /\ far' = Closing(far, {M(b) : b \in opened \cap {frame.id}})
            /\ UNCHANGED opened
       ELSE IF frame.id \in opened THEN UNCHANGED <<far, opened>>
       ELSE /\ far' = [far EXCEPT ![M(frame.id)] = "connecting"]
            /\ opened' = opened \cup {frame.id}
  /\ control' = [control EXCEPT ![g] = Tail(@)]
  /\ UNCHANGED <<near, broken, relay, initialize, generation, presence, retrying, disposed,
                 serving, faults>>

\* The socket of a browser is open: a channel server is created for it and says
\* Initialize, unless the Mac has dropped the socket meanwhile.
MacOpens(b) ==
  /\ Opens(M(b))
  /\ IF b \in opened /\ ~disposed
     THEN /\ far' = [far EXCEPT ![M(b)] = "open"]
          /\ serving' = serving \cup {b}
          /\ initialize' = [initialize EXCEPT ![b] = "sent"]
     ELSE far' = [far EXCEPT ![M(b)] = "closing"] /\ UNCHANGED <<serving, initialize>>
  /\ UNCHANGED <<near, broken, relay, control, generation, presence, retrying, disposed, opened,
                 faults>>

\* Mutant of FarPresenceCloses: only a presence that had opened is tried again.
FarPresenceOnceOpen(g) ==
  /\ FarHears(P(g))
  /\ IF presence = g /\ ~disposed
     THEN /\ far' = [Closing(far, {M(b) : b \in opened}) EXCEPT ![P(g)] = "closed"]
          /\ presence' = NoPresence /\ retrying' = (far[P(g)] = "open") /\ opened' = {}
     ELSE far' = [far EXCEPT ![P(g)] = "closed"] /\ UNCHANGED <<presence, retrying, opened>>
  /\ control' = [control EXCEPT ![g] = <<>>]
  /\ UNCHANGED <<near, broken, relay, initialize, generation, disposed, serving, faults>>

\* reconnect: the Mac drops every browser's socket and tries again in a while.
FarPresenceCloses(g) ==
  /\ FarHears(P(g))
  /\ IF presence = g /\ ~disposed
     THEN /\ far' = [Closing(far, {M(b) : b \in opened}) EXCEPT ![P(g)] = "closed"]
          /\ presence' = NoPresence /\ retrying' = TRUE /\ opened' = {}
     ELSE far' = [far EXCEPT ![P(g)] = "closed"] /\ UNCHANGED <<presence, retrying, opened>>
  /\ control' = [control EXCEPT ![g] = <<>>]
  /\ UNCHANGED <<near, broken, relay, initialize, generation, disposed, serving, faults>>

\* forget, and the channel server's own close handler.
FarMacCloses(b) ==
  /\ FarHears(M(b))
  /\ far' = [far EXCEPT ![M(b)] = "closed"]
  /\ opened' = opened \ {b} /\ serving' = serving \ {b}
  /\ UNCHANGED <<near, broken, relay, frames, generation, presence, retrying, disposed, faults>>

\* dispose, when the Mac's process stops serving.
HostDispose ==
  /\ ~disposed
  /\ disposed' = TRUE /\ retrying' = FALSE
  /\ far' = Closing(far, {M(b) : b \in opened} \cup {P(g) : g \in Generation \cap {presence}})
  /\ opened' = {} /\ presence' = NoPresence
  /\ UNCHANGED <<near, broken, relay, frames, generation, serving, faults>>

----------------------------------------------------------------------------
(* Browsers and the network.                                                 *)

BrowserDials(b) ==
  /\ far[B(b)] = "none"
  /\ far' = [far EXCEPT ![B(b)] = "connecting"]
  /\ UNCHANGED <<near, broken, relay, frames, mac, faults>>

BrowserOpens(b) ==
  /\ Opens(B(b))
  /\ far' = [far EXCEPT ![B(b)] = "open"]
  /\ UNCHANGED <<near, broken, relay, frames, mac, faults>>

BrowserLeaves(b) ==
  /\ far[B(b)] \in {"connecting", "open"}
  /\ far' = [far EXCEPT ![B(b)] = "closing"]
  /\ UNCHANGED <<near, broken, relay, frames, mac, faults>>

BrowserReceives(b) ==
  /\ initialize[b] = "forwarded" /\ far[B(b)] = "open"
  /\ initialize' = [initialize EXCEPT ![b] = "received"]
  /\ UNCHANGED <<far, near, broken, relay, control, mac, faults>>

BrowserCloses(b) ==
  /\ FarHears(B(b))
  /\ far' = [far EXCEPT ![B(b)] = "closed"]
  /\ initialize' = [initialize EXCEPT ![b] = IF @ = "forwarded" THEN "lost" ELSE @]
  /\ UNCHANGED <<near, broken, relay, control, mac, faults>>

\* What is lost with the sockets S.
Lost(S) ==
  /\ broken' = broken \cup S
  /\ control' = [g \in Generation |-> IF P(g) \in S THEN <<>> ELSE control[g]]
  /\ initialize' = [b \in Browser |->
                      IF \/ M(b) \in S /\ initialize[b] = "sent"
                         \/ B(b) \in S /\ initialize[b] = "forwarded"
                      THEN "lost" ELSE initialize[b]]
  /\ faults < MaxFaults /\ faults' = faults + 1

Break(s) ==
  /\ s \notin broken /\ far[s] # "none" /\ ~(far[s] = "closed" /\ near[s] = "closed")
  /\ Lost({s})
  /\ UNCHANGED <<far, near, relay, mac>>

\* The relay's process is replaced; it keeps nothing.
RelayRestart ==
  /\ Lost({s \in Socket : far[s] # "none"})
  /\ near' = [s \in Socket |-> IF far[s] = "none" THEN "none" ELSE "closed"]
  /\ device' = [sock |-> NoPresence, online |-> FALSE]
  /\ attachment' = [b \in Browser |-> IF b \in Active THEN "restart" ELSE attachment[b]]
  /\ UNCHANGED <<far, via, mac>>

----------------------------------------------------------------------------
Next ==
  \/ \E g \in Generation :
       \/ AcceptPresence(g) \/ NearPresenceCloses(g)
       \/ PresenceOpens(g) \/ HandleControl(g) \/ FarPresenceCloses(g)
  \/ \E b \in Browser :
       \/ RejectBrowser(b) \/ AcceptBrowser(b) \/ AcceptMac(b) \/ SetupTimeout(b) \/ Forward(b)
       \/ NearBrowserCloses(b) \/ NearMacCloses(b)
       \/ MacOpens(b) \/ FarMacCloses(b)
       \/ BrowserDials(b) \/ BrowserOpens(b) \/ BrowserLeaves(b) \/ BrowserReceives(b)
       \/ BrowserCloses(b)
  \/ ConnectPresence \/ HostDispose
  \/ \E s \in Socket : Break(s)
  \/ RelayRestart

Spec == Init /\ [][Next]_vars

\* Both ends answer the handshakes of requests that reach them and notice the
\* end of a connection; timers fire and frames arrive.
Fairness ==
  /\ \A g \in Generation :
       /\ WF_vars(P(g) \notin broken /\ AcceptPresence(g)) /\ WF_vars(NearPresenceCloses(g))
       /\ WF_vars(PresenceOpens(g)) /\ WF_vars(HandleControl(g)) /\ WF_vars(FarPresenceCloses(g))
  /\ \A b \in Browser :
       /\ WF_vars(B(b) \notin broken /\ (RejectBrowser(b) \/ AcceptBrowser(b)))
       /\ WF_vars(M(b) \notin broken /\ AcceptMac(b))
       /\ WF_vars(SetupTimeout(b)) /\ WF_vars(Forward(b))
       /\ WF_vars(NearBrowserCloses(b)) /\ WF_vars(NearMacCloses(b))
       /\ WF_vars(MacOpens(b)) /\ WF_vars(FarMacCloses(b))
       /\ WF_vars(BrowserOpens(b)) /\ WF_vars(BrowserReceives(b)) /\ WF_vars(BrowserCloses(b))
  /\ WF_vars(ConnectPresence)

FairSpec == Spec /\ Fairness

----------------------------------------------------------------------------
(* Properties.                                                               *)

End == {"none", "connecting", "open", "closing", "closed"}
Reason == {"device_offline", "browser_closed", "device_socket_closed", "setup_timeout",
           "device_control_unavailable", "restart"}

\* The variables keep their types.
TypeOK ==
  /\ far \in [Socket -> End] /\ near \in [Socket -> End \ {"connecting"}]
  /\ broken \subseteq Socket
  /\ device \in [sock : 0..MaxPresence, online : BOOLEAN]
  /\ attachment \in [Browser -> {"none", "pending", "paired"} \cup Reason]
  /\ via \in [Browser -> 0..MaxPresence]
  /\ control \in [Generation -> Seq(Frame)]
  /\ initialize \in [Browser -> {"none", "sent", "forwarded", "received", "dropped", "lost"}]
  /\ generation \in Generation /\ presence \in 0..MaxPresence
  /\ retrying \in BOOLEAN /\ disposed \in BOOLEAN
  /\ opened \subseteq Browser /\ serving \subseteq Browser
  /\ faults \in 0..MaxFaults

\* At most one presence socket is in service, the registered one: a later
\* registration closes the earlier one even if requests arrive out of order.
OnePresence ==
  \A g \in Generation : near[P(g)] = "open" => device = [sock |-> g, online |-> TRUE]

\* No browser stays on a pipe that can never answer: as long as the relay keeps
\* its socket, its attachment waits for the Mac or has a socket of the Mac.
NoOrphanBrowser ==
  \A b \in Browser : near[B(b)] = "open" =>
    \/ attachment[b] = "pending"
    \/ attachment[b] = "paired" /\ near[M(b)] # "closed"

\* An attachment announced to the presence in service is never closed as "device
\* offline" while that presence stays in service: "Device offline closes that
\* device's active attachments and browsers" (custom-fork-remote.md).
OnlineKeepsAttachments ==
  [][\A b \in Active : attachment'[b] = "device_offline" /\ via[b] = device.sock
       => ~device'.online]_vars

\* A browser whose socket opened hears Initialize or the end of its socket; it is
\* not left waiting.
BrowserServed ==
  \A b \in Browser :
    far[B(b)] = "open" ~> initialize[b] = "received" \/ far[B(b)] # "open"

\* What the Mac opened for a browser ends with it: after the browser's socket has
\* closed, the Mac's socket and its channel server go too, and for good, even where
\* the relay announced no detach because the Mac's socket was still on its way.
MacReleased ==
  \A b \in Browser :
    far[B(b)] = "closed" ~> [](b \notin serving /\ far[M(b)] \in {"none", "closed"})

\* Whatever breaks, a Mac that is not disposed is online again and stays online.
PresenceRecovers ==
  <>[](\/ disposed
       \/ /\ presence # NoPresence /\ far[P(presence)] = "open"
          /\ device = [sock |-> presence, online |-> TRUE])

=============================================================================
