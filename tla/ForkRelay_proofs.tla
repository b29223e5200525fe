--------------------------- MODULE ForkRelay_proofs ---------------------------
(* What the relay keeps for every number of browsers and presences, and every *)
(* number of broken connections and restarts: one presence in service, and no  *)
(* browser left on a pipe that can never answer.                               *)
EXTENDS ForkRelay, FiniteSetTheorems, TLAPS

NearEnd == End \ {"connecting"}

\* The relay's side, typed, with the two properties; they are inductive together
\* with these types alone.
Kept ==
  /\ near \in [Socket -> NearEnd]
  /\ device \in [sock : 0..MaxPresence, online : BOOLEAN]
  /\ attachment \in [Browser -> {"none", "pending", "paired"} \cup Reason]
  /\ OnePresence
  /\ NoOrphanBrowser

\* The sockets of presences, of the Mac's attachments and of browsers are distinct.
LEMMA Distinct ==
  /\ \A g \in Generation : P(g) \in Socket
  /\ \A b \in Browser : M(b) \in Socket /\ B(b) \in Socket
  /\ \A g, h \in Generation : P(g) = P(h) => g = h
  /\ \A b, c \in Browser : (M(b) = M(c) => b = c) /\ (B(b) = B(c) => b = c)
  /\ \A g \in Generation, b \in Browser : P(g) # M(b) /\ P(g) # B(b)
  /\ \A b, c \in Browser : M(b) # B(c)
BY DEF Socket, P, M, B

\* Closing ends opens nothing, closes nothing for good and touches only its sockets.
LEMMA ClosingOnly ==
  ASSUME NEW m \in [Socket -> NearEnd], NEW S
  PROVE  /\ Closing(m, S) \in [Socket -> NearEnd]
         /\ \A s \in Socket : Closing(m, S)[s] = "open" => m[s] = "open" /\ s \notin S
         /\ \A s \in Socket : Closing(m, S)[s] = "closed" => m[s] = "closed"
BY DEF Closing, NearEnd, End

\* disposeRelayAttachment keeps Kept, the near ends being m as the handler left them.
LEMMA DisposeKeeps ==
  ASSUME NEW S \in SUBSET Browser, NEW reason \in Reason, NEW m \in [Socket -> NearEnd],
         attachment \in [Browser -> {"none", "pending", "paired"} \cup Reason],
         Dispose(S, reason, m),
         device' \in [sock : 0..MaxPresence, online : BOOLEAN],
         \A g \in Generation : m[P(g)] = "open" => device' = [sock |-> g, online |-> TRUE],
         \A b \in Browser \ S : m[B(b)] = "open" =>
           attachment[b] = "pending" \/ (attachment[b] = "paired" /\ m[M(b)] # "closed")
  PROVE  Kept'
<1> DEFINE sockets == {M(b) : b \in {b \in S : attachment[b] = "paired"}} \cup {B(b) : b \in S}
<1>1. near' = Closing(m, sockets)
  BY DEF Dispose
<1>2. attachment' = [b \in Browser |-> IF b \in S THEN reason ELSE attachment[b]]
  BY DEF Dispose
<1>3. \A b \in S : B(b) \in sockets
  OBVIOUS
<1> HIDE DEF sockets
<1>4. near' \in [Socket -> NearEnd]
  BY <1>1, ClosingOnly
<1>5. attachment' \in [Browser -> {"none", "pending", "paired"} \cup Reason]
  BY <1>2
<1>6. OnePresence'
  BY <1>1, ClosingOnly, Distinct DEF OnePresence
<1>7. NoOrphanBrowser'
  BY <1>1, <1>2, <1>3, ClosingOnly, Distinct DEF NoOrphanBrowser
<1> QED
  BY <1>4, <1>5, <1>6, <1>7 DEF Kept

\* Steps that touch no state of the relay.
LEMMA KeptElsewhere == ASSUME Kept, UNCHANGED <<near, device, attachment>> PROVE Kept'
BY DEF Kept, OnePresence, NoOrphanBrowser

LEMMA KeptInitially == Init => Kept
<1> SUFFICES ASSUME Init PROVE Kept
  OBVIOUS
<1>1. \A s \in Socket : near[s] = "none"
  BY DEF Init
<1>2. near \in [Socket -> NearEnd]
  BY DEF Init, NearEnd, End
<1>3. device \in [sock : 0..MaxPresence, online : BOOLEAN]
  BY BoundAssumption DEF Init, NoPresence
<1>4. attachment \in [Browser -> {"none", "pending", "paired"} \cup Reason]
  BY DEF Init
<1>5. OnePresence /\ NoOrphanBrowser
  BY <1>1, Distinct DEF OnePresence, NoOrphanBrowser
<1> QED
  BY <1>2, <1>3, <1>4, <1>5 DEF Kept

\* The Mac's presences.
LEMMA KeptByPresences ==
  ASSUME Kept, NEW g \in Generation, AcceptPresence(g) \/ NearPresenceCloses(g)
  PROVE  Kept'
<1>0. attachment \in [Browser -> {"none", "pending", "paired"} \cup Reason]
  BY DEF Kept
<1>1. CASE AcceptPresence(g)
  <2> DEFINE old == {P(h) : h \in Generation \cap {device.sock}}
             m == Closing(near, old)
  <2>1. /\ near' = [m EXCEPT ![P(g)] = "open"]
        /\ device' = [sock |-> g, online |-> TRUE] /\ UNCHANGED attachment
    BY <1>1 DEF AcceptPresence, relay
  <2>2. /\ m \in [Socket -> NearEnd]
        /\ \A s \in Socket : m[s] = "open" => near[s] = "open" /\ s \notin old
        /\ \A s \in Socket : m[s] = "closed" => near[s] = "closed"
    BY ClosingOnly DEF Kept
  <2>3. \A h \in Generation : m[P(h)] # "open"
    BY <2>2, Distinct DEF Kept, OnePresence
  <2> HIDE DEF m, old
  <2>4. near' \in [Socket -> NearEnd]
    BY <2>1, <2>2, Distinct DEF NearEnd, End
  <2>5. OnePresence'
    BY <2>1, <2>2, <2>3, Distinct DEF OnePresence
  <2>6. NoOrphanBrowser'
    BY <2>1, <2>2, Distinct DEF NoOrphanBrowser, Kept
  <2>7. device' \in [sock : 0..MaxPresence, online : BOOLEAN]
    BY <2>1, BoundAssumption DEF Generation
  <2> QED
    BY <2>1, <2>4, <2>5, <2>6, <2>7 DEF Kept
<1>2. CASE NearPresenceCloses(g)
  <2> DEFINE m == Gone(P(g))
  <2>1. /\ Dispose(Active, "device_offline", m)
        /\ device' = IF device.sock = g THEN [device EXCEPT !.online = FALSE] ELSE device
    BY <1>2 DEF NearPresenceCloses
  <2>2. m \in [Socket -> NearEnd]
    BY Distinct DEF Kept, NearEnd, End, Gone
  <2>3. device' \in [sock : 0..MaxPresence, online : BOOLEAN]
    BY <2>1 DEF Kept
  <2>4. \A h \in Generation : m[P(h)] = "open" => h # g /\ near[P(h)] = "open"
    BY Distinct DEF Kept, Gone
  <2>5. \A h \in Generation : m[P(h)] = "open" => device' = [sock |-> h, online |-> TRUE]
    <3> SUFFICES ASSUME NEW h \in Generation, m[P(h)] = "open"
                 PROVE  device' = [sock |-> h, online |-> TRUE]
      OBVIOUS
    <3>1. device = [sock |-> h, online |-> TRUE] /\ h # g
      BY <2>4 DEF Kept, OnePresence
    <3>2. device.sock # g
      BY <3>1
    <3> QED
      BY <2>1, <3>1, <3>2
  <2>6. \A b \in Browser \ Active : m[B(b)] = "open" =>
          attachment[b] = "pending" \/ (attachment[b] = "paired" /\ m[M(b)] # "closed")
    BY Distinct DEF Kept, NoOrphanBrowser, Active, Gone
  <2>7. Active \in SUBSET Browser /\ "device_offline" \in Reason
    BY DEF Active, Reason
  <2> HIDE DEF m
  <2> QED
    BY <1>0, <2>1, <2>2, <2>3, <2>5, <2>6, <2>7, DisposeKeeps
<1> QED
  BY <1>1, <1>2

\* Browsers and the Mac's sockets for them, at the relay.
LEMMA KeptByAttachments ==
  ASSUME Kept, NEW b \in Browser,
         \/ RejectBrowser(b) \/ AcceptBrowser(b) \/ AcceptMac(b) \/ SetupTimeout(b)
         \/ NearBrowserCloses(b) \/ NearMacCloses(b)
  PROVE  Kept'
<1>0. /\ attachment \in [Browser -> {"none", "pending", "paired"} \cup Reason]
      /\ UNCHANGED device => device' \in [sock : 0..MaxPresence, online : BOOLEAN]
  BY DEF Kept
<1>1. CASE RejectBrowser(b)
  <2>1. near' = [near EXCEPT ![B(b)] = "closing"] /\ UNCHANGED <<device, attachment>>
    BY <1>1 DEF RejectBrowser, relay
  <2> QED
    BY <2>1, Distinct DEF Kept, OnePresence, NoOrphanBrowser, NearEnd, End
<1>2. CASE AcceptBrowser(b)
  <2>1. UNCHANGED device
    BY <1>2 DEF AcceptBrowser
  <2>2. CASE Reachable(near)
    <3>1. near' = [near EXCEPT ![B(b)] = "open"] /\ attachment' = [attachment EXCEPT ![b] = "pending"]
      BY <1>2, <2>2 DEF AcceptBrowser
    <3> QED
      BY <2>1, <3>1, Distinct DEF Kept, OnePresence, NoOrphanBrowser, NearEnd, End
  <2>3. CASE ~Reachable(near)
    <3>1. /\ near' = [near EXCEPT ![B(b)] = "closing"]
          /\ attachment' = [attachment EXCEPT ![b] = "device_control_unavailable"]
      BY <1>2, <2>3 DEF AcceptBrowser
    <3> QED
      BY <2>1, <3>1, Distinct DEF Kept, OnePresence, NoOrphanBrowser, NearEnd, End, Reason
  <2> QED
    BY <2>2, <2>3
<1>3. CASE AcceptMac(b)
  <2>1. UNCHANGED device /\ near[M(b)] = "none"
    BY <1>3 DEF AcceptMac, Arrives
  <2>2. CASE attachment[b] = "pending" /\ near[B(b)] = "open"
    <3>1. near' = [near EXCEPT ![M(b)] = "open"] /\ attachment' = [attachment EXCEPT ![b] = "paired"]
      BY <1>3, <2>2 DEF AcceptMac
    <3> QED
      BY <2>1, <3>1, Distinct DEF Kept, OnePresence, NoOrphanBrowser, NearEnd, End
  <2>3. CASE ~(attachment[b] = "pending" /\ near[B(b)] = "open")
    <3>1. near' = [near EXCEPT ![M(b)] = "closing"] /\ UNCHANGED attachment
      BY <1>3, <2>3 DEF AcceptMac
    <3> QED
      BY <2>1, <3>1, Distinct DEF Kept, OnePresence, NoOrphanBrowser, NearEnd, End
  <2> QED
    BY <2>2, <2>3
<1>4. CASE SetupTimeout(b)
  <2>1. Dispose({b}, "setup_timeout", near) /\ UNCHANGED device
    BY <1>4 DEF SetupTimeout
  <2>2. near \in [Socket -> NearEnd] /\ {b} \in SUBSET Browser /\ "setup_timeout" \in Reason
    BY DEF Kept, Reason
  <2>3. \A g \in Generation : near[P(g)] = "open" => device' = [sock |-> g, online |-> TRUE]
    BY <2>1 DEF Kept, OnePresence
  <2>4. \A c \in Browser \ {b} : near[B(c)] = "open" =>
          attachment[c] = "pending" \/ (attachment[c] = "paired" /\ near[M(c)] # "closed")
    BY DEF Kept, NoOrphanBrowser
  <2> QED
    BY <1>0, <2>1, <2>2, <2>3, <2>4, DisposeKeeps
<1>5. CASE NearBrowserCloses(b)
  <2> DEFINE m == Gone(B(b))
             S == Active \cap {b}
  <2>1. Dispose(S, "browser_closed", m) /\ UNCHANGED device
    BY <1>5 DEF NearBrowserCloses
  <2>2. m \in [Socket -> NearEnd] /\ \A s \in Socket : s # B(b) => m[s] = near[s]
    BY Distinct DEF Kept, NearEnd, End, Gone
  <2>3. m[B(b)] = "closed"
    BY Distinct DEF Kept, Gone
  <2>4. \A g \in Generation : m[P(g)] = "open" => device' = [sock |-> g, online |-> TRUE]
    BY <2>1, <2>2, Distinct DEF Kept, OnePresence
  <2>5. \A c \in Browser \ S : m[B(c)] = "open" =>
          attachment[c] = "pending" \/ (attachment[c] = "paired" /\ m[M(c)] # "closed")
    BY <2>2, <2>3, Distinct DEF Kept, NoOrphanBrowser
  <2>6. S \in SUBSET Browser /\ "browser_closed" \in Reason
    BY DEF Reason
  <2> HIDE DEF m, S
  <2> QED
    BY <1>0, <2>1, <2>2, <2>4, <2>5, <2>6, DisposeKeeps
<1>6. CASE NearMacCloses(b)
  <2> DEFINE m == Gone(M(b))
             S == {c \in {b} : attachment[c] = "paired"}
  <2>1. Dispose(S, "device_socket_closed", m) /\ UNCHANGED device
    BY <1>6 DEF NearMacCloses
  <2>2. m \in [Socket -> NearEnd] /\ \A s \in Socket : s # M(b) => m[s] = near[s]
    BY Distinct DEF Kept, NearEnd, End, Gone
  <2>3. \A g \in Generation : m[P(g)] = "open" => device' = [sock |-> g, online |-> TRUE]
    BY <2>1, <2>2, Distinct DEF Kept, OnePresence
  <2>4. \A c \in Browser \ S : m[B(c)] = "open" =>
          attachment[c] = "pending" \/ (attachment[c] = "paired" /\ m[M(c)] # "closed")
    BY <2>2, Distinct DEF Kept, NoOrphanBrowser
  <2>5. S \in SUBSET Browser /\ "device_socket_closed" \in Reason
    BY DEF Reason
  <2> HIDE DEF m, S
  <2> QED
    BY <1>0, <2>1, <2>2, <2>3, <2>4, <2>5, DisposeKeeps
<1> QED
  BY <1>1, <1>2, <1>3, <1>4, <1>5, <1>6

LEMMA KeptByRestart == ASSUME Kept, RelayRestart PROVE Kept'
<1>1. /\ near' = [s \in Socket |-> IF far[s] = "none" THEN "none" ELSE "closed"]
      /\ device' = [sock |-> NoPresence, online |-> FALSE]
      /\ attachment' = [b \in Browser |-> IF b \in Active THEN "restart" ELSE attachment[b]]
  BY DEF RelayRestart
<1> QED
  BY <1>1, BoundAssumption, Distinct
     DEF Kept, OnePresence, NoOrphanBrowser, NearEnd, End, Reason, NoPresence

LEMMA KeptByStep == Kept /\ [Next]_vars => Kept'
<1> SUFFICES ASSUME Kept, [Next]_vars PROVE Kept'
  OBVIOUS
<1>1. CASE UNCHANGED vars
  BY <1>1, KeptElsewhere DEF vars, relay
<1>2. ASSUME NEW g \in Generation, AcceptPresence(g) \/ NearPresenceCloses(g) PROVE Kept'
  BY <1>2, KeptByPresences
<1>3. ASSUME NEW g \in Generation, PresenceOpens(g) \/ HandleControl(g) \/ FarPresenceCloses(g)
      PROVE Kept'
  BY <1>3, KeptElsewhere DEF PresenceOpens, HandleControl, FarPresenceCloses, relay
<1>4. ASSUME NEW b \in Browser,
             \/ RejectBrowser(b) \/ AcceptBrowser(b) \/ AcceptMac(b) \/ SetupTimeout(b)
             \/ NearBrowserCloses(b) \/ NearMacCloses(b)
      PROVE Kept'
  BY <1>4, KeptByAttachments
<1>5. ASSUME NEW b \in Browser,
             \/ Forward(b) \/ MacOpens(b) \/ FarMacCloses(b)
             \/ BrowserDials(b) \/ BrowserOpens(b) \/ BrowserLeaves(b) \/ BrowserReceives(b)
             \/ BrowserCloses(b)
      PROVE Kept'
  BY <1>5, KeptElsewhere
     DEF Forward, MacOpens, FarMacCloses, BrowserDials, BrowserOpens, BrowserLeaves,
         BrowserReceives, BrowserCloses, relay
<1>6. CASE ConnectPresence \/ HostDispose
  BY <1>6, KeptElsewhere DEF ConnectPresence, HostDispose, relay
<1>7. ASSUME NEW s \in Socket, Break(s) PROVE Kept'
  BY <1>7, KeptElsewhere DEF Break, relay
<1>8. CASE RelayRestart
  BY <1>8, KeptByRestart
<1> QED
  BY <1>1, <1>2, <1>3, <1>4, <1>5, <1>6, <1>7, <1>8 DEF Next

\* registerRelayDevice closes the presence it replaces before it puts the new one in its
\* place, and only the registered socket's close marks the device offline: whatever the
\* order of registrations, closes, faults and restarts, one presence at most is open.
THEOREM OnePresenceInService == Spec => []OnePresence
<1>1. Kept => OnePresence
  BY DEF Kept
<1> QED
  BY <1>1, KeptInitially, KeptByStep, PTL DEF Spec

\* Every end of an attachment disposes of both its sockets, so a browser's socket that the
\* relay keeps open waits for the Mac or is paired with a socket that is not closed.
THEOREM BrowsersNotOrphaned == Spec => []NoOrphanBrowser
<1>1. Kept => NoOrphanBrowser
  BY DEF Kept
<1> QED
  BY <1>1, KeptInitially, KeptByStep, PTL DEF Spec

----------------------------------------------------------------------------
(* The types of what is on the way and of the Mac's side.                     *)
Carried == {"none", "sent", "forwarded", "received", "dropped", "lost"}

MacSide ==
  /\ far \in [Socket -> End] /\ broken \subseteq Socket
  /\ via \in [Browser -> 0..MaxPresence]
  /\ control \in [Generation -> Seq(Frame)]
  /\ initialize \in [Browser -> Carried]
  /\ generation \in Generation /\ presence \in 0..MaxPresence
  /\ retrying \in BOOLEAN /\ disposed \in BOOLEAN
  /\ opened \subseteq Browser /\ serving \subseteq Browser
  /\ faults \in 0..MaxFaults

\* A finite set put into a sequence.
LEMMA Listed == ASSUME NEW S, IsFiniteSet(S) PROVE SetToSeq(S) \in Seq(S)
<1> DEFINE n == Cardinality(S)
           Enumerates(f) == f \in [1..n -> S] /\ IsInjective(f)
<1>1. n \in Nat /\ ExistsBijection(1..n, S)
  BY FS_CardinalityType
<1> HIDE DEF n
<1>2. \E f : Enumerates(f)
  BY <1>1 DEF ExistsBijection, Bijection, Injection
<1>3. SetToSeq(S) = CHOOSE f \in [1..n -> S] : IsInjective(f)
  BY DEF SetToSeq, n
<1>4. SetToSeq(S) \in [1..n -> S]
  BY <1>2, <1>3
<1> QED
  BY <1>1, <1>4

\* The frames that detach the attachments of S.
LEMMA DetachListed ==
  ASSUME NEW S \in SUBSET Browser
  PROVE  SetToSeq({[type |-> "detach", id |-> b] : b \in S}) \in Seq(Frame)
<1> DEFINE detach(b) == [type |-> "detach", id |-> b]
           D == {detach(b) : b \in S}
<1>1. IsFiniteSet(S)
  <2>1. IsFiniteSet(Browser)
    BY FS_Interval, BoundAssumption DEF Browser
  <2> QED
    BY <2>1, FS_Subset
<1>2. IsFiniteSet(D)
  <2> DEFINE f == [b \in S |-> detach(b)]
  <2>1. f \in Surjection(S, D)
    BY DEF Surjection
  <2> QED
    BY <1>1, <2>1, FS_Surjection
<1>3. D \subseteq Frame
  BY DEF Frame
<1> HIDE DEF D
<1>4. SetToSeq(D) \in Seq(Frame)
  BY <1>2, <1>3, Listed
<1> QED
  BY <1>4 DEF D

\* What the relay sends to the Mac when it disposes of attachments.
LEMMA ControlListed ==
  ASSUME control \in [Generation -> Seq(Frame)], device \in [sock : 0..MaxPresence, online : BOOLEAN],
         NEW S \in SUBSET Browser, NEW reason, NEW m, Dispose(S, reason, m)
  PROVE  control' \in [Generation -> Seq(Frame)]
<1> DEFINE paired == {b \in S : attachment[b] = "paired"}
           frames1 == SetToSeq({[type |-> "detach", id |-> b] : b \in paired})
<1>1. control' = IF Reachable(m) THEN [control EXCEPT ![device.sock] = @ \o frames1] ELSE control
  BY DEF Dispose
<1>2. frames1 \in Seq(Frame)
  <2>1. paired \in SUBSET Browser
    OBVIOUS
  <2> HIDE DEF paired
  <2> QED
    BY <2>1, DetachListed
<1> HIDE DEF frames1
<1>3. CASE Reachable(m)
  <2>1. device.sock \in Generation
    BY <1>3 DEF Reachable, NoPresence, Generation
  <2>2. control[device.sock] \o frames1 \in Seq(Frame)
    BY <1>2, <2>1
  <2> QED
    BY <1>1, <1>3, <2>1, <2>2
<1> QED
  BY <1>1, <1>3

LEMMA MacSideInitially == Init => MacSide
<1> SUFFICES ASSUME Init PROVE MacSide
  OBVIOUS
<1>1. 1 \in Generation /\ 1 \in 0..MaxPresence /\ NoPresence \in 0..MaxPresence /\ 0 \in 0..MaxFaults
  BY BoundAssumption DEF Generation, NoPresence
<1>2. far \in [Socket -> End]
  BY DEF Init, End
<1>3. control \in [Generation -> Seq(Frame)] /\ via \in [Browser -> 0..MaxPresence]
  BY <1>1 DEF Init
<1>4. initialize \in [Browser -> Carried]
  BY DEF Init, Carried
<1> QED
  BY <1>1, <1>2, <1>3, <1>4 DEF Init, MacSide

\* The relay's steps.
LEMMA MacSideByRelay ==
  ASSUME Kept, MacSide,
         \/ \E g \in Generation : AcceptPresence(g) \/ NearPresenceCloses(g)
         \/ \E b \in Browser :
              \/ RejectBrowser(b) \/ AcceptBrowser(b) \/ AcceptMac(b) \/ SetupTimeout(b) \/ Forward(b)
              \/ NearBrowserCloses(b) \/ NearMacCloses(b)
  PROVE  MacSide'
<1> USE DEF relay, frames, mac
<1>0. /\ device \in [sock : 0..MaxPresence, online : BOOLEAN]
      /\ control \in [Generation -> Seq(Frame)] /\ initialize \in [Browser -> Carried]
      /\ via \in [Browser -> 0..MaxPresence]
  BY DEF Kept, MacSide
<1>1. CASE \E g \in Generation : AcceptPresence(g)
  BY <1>1 DEF AcceptPresence, MacSide
<1>2. CASE \E b \in Browser : RejectBrowser(b) \/ AcceptMac(b)
  BY <1>2 DEF RejectBrowser, AcceptMac, MacSide
<1>3. CASE \E g \in Generation : NearPresenceCloses(g)
  <2>1. Active \in SUBSET Browser
    BY DEF Active
  <2>2. control' \in [Generation -> Seq(Frame)]
    BY <1>0, <1>3, <2>1, ControlListed DEF NearPresenceCloses
  <2> QED
    BY <1>3, <2>2 DEF NearPresenceCloses, MacSide
<1>4. ASSUME NEW b \in Browser, SetupTimeout(b) PROVE MacSide'
  <2>1. control' \in [Generation -> Seq(Frame)]
    BY <1>0, <1>4, ControlListed DEF SetupTimeout
  <2> QED
    BY <1>4, <2>1 DEF SetupTimeout, MacSide
<1>5. ASSUME NEW b \in Browser, NearBrowserCloses(b) PROVE MacSide'
  <2>1. Active \cap {b} \in SUBSET Browser
    OBVIOUS
  <2>2. control' \in [Generation -> Seq(Frame)]
    BY <1>0, <1>5, <2>1, ControlListed DEF NearBrowserCloses
  <2> QED
    BY <1>5, <2>2 DEF NearBrowserCloses, MacSide
<1>6. ASSUME NEW b \in Browser, NearMacCloses(b) PROVE MacSide'
  <2>1. {c \in {b} : attachment[c] = "paired"} \in SUBSET Browser
    OBVIOUS
  <2>2. control' \in [Generation -> Seq(Frame)]
    BY <1>0, <1>6, <2>1, ControlListed DEF NearMacCloses
  <2>3. initialize' \in [Browser -> Carried]
    BY <1>0, <1>6 DEF NearMacCloses, Carried
  <2> QED
    BY <1>6, <2>2, <2>3 DEF NearMacCloses, MacSide
<1>7. ASSUME NEW b \in Browser, AcceptBrowser(b) PROVE MacSide'
  <2>1. CASE Reachable(near)
    <3>1. /\ via' = [via EXCEPT ![b] = device.sock]
          /\ control' = [control EXCEPT ![device.sock] = Append(@, [type |-> "attach", id |-> b])]
      BY <1>7, <2>1 DEF AcceptBrowser
    <3>2. device.sock \in Generation /\ device.sock \in 0..MaxPresence
      BY <1>0, <2>1 DEF Reachable, NoPresence, Generation
    <3>3. [type |-> "attach", id |-> b] \in Frame
      BY DEF Frame
    <3>4. control' \in [Generation -> Seq(Frame)]
      BY <1>0, <3>1, <3>2, <3>3
    <3>5. via' \in [Browser -> 0..MaxPresence]
      BY <1>0, <3>1, <3>2
    <3> QED
      BY <1>7, <3>4, <3>5 DEF AcceptBrowser, MacSide
  <2>2. CASE ~Reachable(near)
    BY <1>7, <2>2 DEF AcceptBrowser, MacSide
  <2> QED
    BY <2>1, <2>2
<1>8. ASSUME NEW b \in Browser, Forward(b) PROVE MacSide'
  <2>1. initialize' \in [Browser -> Carried]
    BY <1>0, <1>8 DEF Forward, Carried
  <2> QED
    BY <1>8, <2>1 DEF Forward, MacSide
<1> QED
  BY <1>1, <1>2, <1>3, <1>4, <1>5, <1>6, <1>7, <1>8

\* The far ends of sockets S closed.
LEMMA FarClosing ==
  ASSUME MacSide, NEW S
  PROVE  Closing(far, S) \in [Socket -> End]
BY DEF Closing, MacSide, End

\* The Mac's steps.
LEMMA MacSideByMac ==
  ASSUME MacSide,
         \/ \E g \in Generation : PresenceOpens(g) \/ HandleControl(g) \/ FarPresenceCloses(g)
         \/ \E b \in Browser : MacOpens(b) \/ FarMacCloses(b)
         \/ ConnectPresence \/ HostDispose
  PROVE  MacSide'
<1> USE DEF relay, frames, mac
<1>0. /\ far \in [Socket -> End] /\ control \in [Generation -> Seq(Frame)]
      /\ opened \subseteq Browser /\ serving \subseteq Browser
      /\ presence \in 0..MaxPresence /\ generation \in Generation /\ NoPresence \in 0..MaxPresence
  BY BoundAssumption DEF MacSide, NoPresence
<1>1. ASSUME NEW g \in Generation, PresenceOpens(g) PROVE MacSide'
  <2>1. far' \in [Socket -> End]
    BY <1>0, <1>1 DEF PresenceOpens, End
  <2> QED
    BY <1>1, <2>1 DEF PresenceOpens, MacSide
<1>2. ASSUME NEW g \in Generation, HandleControl(g) PROVE MacSide'
  <2>1. PICK frame \in {Head(control[g])} :
          \/ UNCHANGED <<far, opened>>
          \/ far' = Closing(far, {M(b) : b \in opened \cap {frame.id}}) /\ UNCHANGED opened
          \/ /\ far' = [far EXCEPT ![M(frame.id)] = "connecting"]
             /\ opened' = opened \cup {frame.id}
    BY <1>2 DEF HandleControl
  <2>2. control[g] \in Seq(Frame) /\ control[g] # <<>>
    BY <1>0, <1>2 DEF HandleControl
  <2>3. frame \in Frame /\ Tail(control[g]) \in Seq(Frame)
    BY <2>1, <2>2
  <2>4. frame.id \in Browser
    BY <2>3 DEF Frame
  <2>5. control' \in [Generation -> Seq(Frame)]
    BY <1>0, <1>2, <2>3 DEF HandleControl
  <2>6. far' \in [Socket -> End]
    BY <1>0, <2>1, FarClosing DEF End
  <2>7. opened' \subseteq Browser
    BY <1>0, <2>1, <2>4
  <2> QED
    BY <1>2, <2>5, <2>6, <2>7 DEF HandleControl, MacSide
<1>3. ASSUME NEW g \in Generation, FarPresenceCloses(g) PROVE MacSide'
  <2>1. /\ far' \in [Socket -> End] /\ presence' \in 0..MaxPresence /\ opened' \subseteq Browser
        /\ retrying' \in BOOLEAN
    <3>1. CASE presence = g /\ ~disposed
      <4> DEFINE m == Closing(far, {M(b) : b \in opened})
      <4>1. /\ far' = [m EXCEPT ![P(g)] = "closed"] /\ m \in [Socket -> End]
            /\ presence' = NoPresence /\ retrying' = TRUE /\ opened' = {}
        BY <1>3, <3>1, FarClosing DEF FarPresenceCloses
      <4> HIDE DEF m
      <4> QED
        BY <1>0, <4>1 DEF End
    <3>2. CASE ~(presence = g /\ ~disposed)
      BY <1>0, <1>3, <3>2 DEF FarPresenceCloses, End, MacSide
    <3> QED
      BY <3>1, <3>2
  <2>2. control' \in [Generation -> Seq(Frame)]
    BY <1>0, <1>3 DEF FarPresenceCloses
  <2> QED
    BY <1>3, <2>1, <2>2 DEF FarPresenceCloses, MacSide
<1>4. ASSUME NEW b \in Browser, MacOpens(b) PROVE MacSide'
  <2>1. far' \in [Socket -> End]
    BY <1>0, <1>4 DEF MacOpens, End
  <2>2. serving' \subseteq Browser
    BY <1>0, <1>4 DEF MacOpens
  <2>3. initialize' \in [Browser -> Carried]
    <3>1. initialize \in [Browser -> Carried]
      BY DEF MacSide
    <3> QED
      BY <1>4, <3>1 DEF MacOpens, Carried
  <2> QED
    BY <1>4, <2>1, <2>2, <2>3 DEF MacOpens, MacSide
<1>5. ASSUME NEW b \in Browser, FarMacCloses(b) PROVE MacSide'
  <2>1. far' \in [Socket -> End] /\ serving' \subseteq Browser /\ opened' \subseteq Browser
    BY <1>0, <1>5 DEF FarMacCloses, End
  <2> QED
    BY <1>5, <2>1 DEF FarMacCloses, MacSide
<1>6. CASE ConnectPresence
  <2>1. generation + 1 \in Generation /\ generation + 1 \in 0..MaxPresence
    BY <1>6, BoundAssumption, <1>0 DEF ConnectPresence, Generation
  <2>2. far' \in [Socket -> End]
    BY <1>0, <1>6 DEF ConnectPresence, End
  <2> QED
    BY <1>6, <2>1, <2>2 DEF ConnectPresence, MacSide
<1>7. CASE HostDispose
  <2>1. far' \in [Socket -> End]
    BY <1>7, FarClosing DEF HostDispose
  <2> QED
    BY <1>0, <1>7, <2>1 DEF HostDispose, MacSide
<1> QED
  BY <1>1, <1>2, <1>3, <1>4, <1>5, <1>6, <1>7

\* Browsers, faults and restarts.
LEMMA MacSideByOthers ==
  ASSUME MacSide,
         \/ \E b \in Browser :
              \/ BrowserDials(b) \/ BrowserOpens(b) \/ BrowserLeaves(b) \/ BrowserReceives(b)
              \/ BrowserCloses(b)
         \/ \E s \in Socket : Break(s)
         \/ RelayRestart
  PROVE  MacSide'
<1> USE DEF relay, frames, mac
<1>0. /\ far \in [Socket -> End] /\ initialize \in [Browser -> Carried]
      /\ control \in [Generation -> Seq(Frame)] /\ broken \subseteq Socket /\ faults \in 0..MaxFaults
  BY DEF MacSide
<1>1. ASSUME NEW b \in Browser,
             BrowserDials(b) \/ BrowserOpens(b) \/ BrowserLeaves(b)
      PROVE  MacSide'
  <2>1. far' \in [Socket -> End]
    BY <1>0, <1>1 DEF BrowserDials, BrowserOpens, BrowserLeaves, End
  <2> QED
    BY <1>1, <2>1 DEF BrowserDials, BrowserOpens, BrowserLeaves, MacSide
<1>2. ASSUME NEW b \in Browser, BrowserReceives(b) \/ BrowserCloses(b) PROVE MacSide'
  <2>1. far' \in [Socket -> End] /\ initialize' \in [Browser -> Carried]
    BY <1>0, <1>2 DEF BrowserReceives, BrowserCloses, End, Carried
  <2> QED
    BY <1>2, <2>1 DEF BrowserReceives, BrowserCloses, MacSide
<1>3. ASSUME NEW S \in SUBSET Socket, Lost(S)
      PROVE  /\ broken' \subseteq Socket /\ control' \in [Generation -> Seq(Frame)]
             /\ initialize' \in [Browser -> Carried] /\ faults' \in 0..MaxFaults
  <2>1. broken' \subseteq Socket /\ faults' \in 0..MaxFaults
    BY <1>0, <1>3, BoundAssumption DEF Lost
  <2>2. control' \in [Generation -> Seq(Frame)]
    BY <1>0, <1>3 DEF Lost
  <2>3. initialize' \in [Browser -> Carried]
    BY <1>0, <1>3 DEF Lost, Carried
  <2> QED
    BY <2>1, <2>2, <2>3
<1>4. ASSUME NEW s \in Socket, Break(s) PROVE MacSide'
  <2>1. Lost({s}) /\ {s} \in SUBSET Socket /\ UNCHANGED <<far, near, relay, mac>>
    BY <1>4 DEF Break
  <2> QED
    BY <1>3, <2>1 DEF MacSide
<1>5. CASE RelayRestart
  <2>1. Lost({s \in Socket : far[s] # "none"}) /\ {s \in Socket : far[s] # "none"} \in SUBSET Socket
        /\ UNCHANGED <<far, via, mac>>
    BY <1>5 DEF RelayRestart
  <2> QED
    BY <1>3, <2>1 DEF MacSide
<1> QED
  BY <1>1, <1>2, <1>4, <1>5

LEMMA MacSideByStep == Kept /\ MacSide /\ [Next]_vars => MacSide'
<1> SUFFICES ASSUME Kept, MacSide, [Next]_vars PROVE MacSide'
  OBVIOUS
<1>1. CASE UNCHANGED vars
  BY <1>1 DEF vars, relay, frames, mac, MacSide
<1>2. CASE Next
  BY <1>2, MacSideByRelay, MacSideByMac, MacSideByOthers DEF Next
<1> QED
  BY <1>1, <1>2

\* The variables keep their types, on both sides of the relay and on the way between.
THEOREM TypeCorrect == Spec => []TypeOK
<1>1. Init => Kept /\ MacSide
  BY KeptInitially, MacSideInitially
<1>2. (Kept /\ MacSide) /\ [Next]_vars => (Kept /\ MacSide)'
  BY KeptByStep, MacSideByStep
<1>3. Kept /\ MacSide => TypeOK
  BY DEF Kept, MacSide, TypeOK, NearEnd, Carried
<1> QED
  BY <1>1, <1>2, <1>3, PTL DEF Spec
=============================================================================
