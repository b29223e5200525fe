-------------------------- MODULE RpcChannel_proofs --------------------------
(* Proofs about the RPC channels, for every set of calls and events, every set  *)
(* of late requests and every number of listeners, and about the controller of  *)
(* the /fork page, which opens a channel with every connection it makes, for    *)
(* every number of generations and faults.                                      *)
(* Of the channels: a request is queued, on its way, waiting for its channel or *)
(* executed, and these add up to at most what the client asked for (Accounted). *)
(* Of the page: its attempts are single-flight although one failed dial sets    *)
(* two timers (Single).                                                         *)
EXTENDS RpcChannel, ForkRemoteApp, Subsequence_proofs

\* Which frames carry which id.
Frame == [type : {"promise", "cancel"}, id : Call] \cup [type : {"listen", "dispose"}, id : Evt]
Waiting == [type : {"promise"}, id : Call, timer : BOOLEAN] \cup [type : {"listen"}, id : Evt, timer : BOOLEAN]
Reply == [type : {"initialize"}, id : {NoId}] \cup [type : {"success", "unknown"}, id : Call]
           \cup [type : {"fire"}, id : Evt]

\* The requests for id among the frames.
Asks(frames, id) == {i \in DOMAIN frames : frames[i].type \in {"promise", "listen"} /\ frames[i].id = id}


Asked(id) == IF id \in Call THEN IF call[id] = "new" THEN 0 ELSE 1 ELSE listens[id]
Served(id) == IF id \in Call THEN runs[id] ELSE subs[id]

Framed ==
  /\ link \in {"up", "down"} /\ up \in Seq(Frame) /\ down \in Seq(Reply)
  /\ idle \in BOOLEAN /\ gone \in BOOLEAN
  /\ call \in [Call -> {"new"} \cup Open \cup Settled]
  /\ queued \in Seq(Id) /\ listening \subseteq Evt /\ handler \subseteq Evt
  /\ listens \in [Evt -> 0..MaxListens]
  /\ ready \in BOOLEAN /\ over \in BOOLEAN /\ registered \in BOOLEAN /\ flushing \in BOOLEAN
  /\ pending \in Seq(Waiting)
  /\ executing \subseteq running /\ running \subseteq Call
  /\ subs \in [Evt -> Nat] /\ held \subseteq Evt
  /\ runs \in [Call -> Nat] /\ fires \in [Evt -> 0..MaxFires] /\ unheard \subseteq Evt

\* No request is in two places: what the service was asked to do never exceeds what
\* the client asked for.
Accounted ==
  \A id \in Id :
    Cardinality(Places(queued, id)) + Cardinality(Asks(up, id)) + Cardinality(Asks(pending, id))
      + Served(id) <= Asked(id)

\* The server disposes only of subscriptions it has.
HeldLives == \A e \in held : subs[e] >= 1

IInv == Framed /\ Accounted /\ HeldLives

----------------------------------------------------------------------------
(* Counting requests.                                                        *)

Anyone == Frame \cup Waiting

LEMMA AsksCounted ==
  ASSUME NEW s \in Seq(Anyone), NEW id
  PROVE  IsFiniteSet(Asks(s, id)) /\ Cardinality(Asks(s, id)) \in Nat
<1>1. Asks(s, id) \subseteq 1..Len(s) /\ Len(s) \in Nat
  BY DEF Asks
<1> QED
  BY <1>1, PositionsFinite

LEMMA WaitsCounted ==
  ASSUME NEW s \in Seq(Id), NEW id
  PROVE  IsFiniteSet(Places(s, id)) /\ Cardinality(Places(s, id)) \in Nat
<1>1. Places(s, id) \subseteq 1..Len(s) /\ Len(s) \in Nat
  BY DEF Places
<1> QED
  BY <1>1, PositionsFinite

LEMMA AsksOfConcat ==
  ASSUME NEW s \in Seq(Anyone), NEW t \in Seq(Anyone), NEW id
  PROVE  /\ s \o t \in Seq(Anyone)
         /\ Cardinality(Asks(s \o t, id)) = Cardinality(Asks(s, id)) + Cardinality(Asks(t, id))
<1> DEFINE m == Len(s)
           n == Len(t)
           A == Asks(s, id)
           B == Asks(t, id)
<1>1. /\ s \o t \in Seq(Anyone) /\ Len(s \o t) = m + n /\ m \in Nat /\ n \in Nat
      /\ \A i \in 1..(m + n) : (s \o t)[i] = IF i <= m THEN s[i] ELSE t[i - m]
  BY ConcatProperties
<1> DEFINE u == s \o t
<1> HIDE DEF u
<1>2. A \subseteq 1..m /\ B \subseteq 1..n
  BY DEF Asks
<1>3. DOMAIN u = 1..(m + n) /\ DOMAIN s = 1..m /\ DOMAIN t = 1..n
  BY <1>1 DEF u
<1>4. Asks(u, id) \subseteq 1..(m + n)
  BY <1>3 DEF Asks
<1>5. ASSUME NEW i \in 1..(m + n) PROVE i \in Asks(u, id) <=> IF i <= m THEN i \in A ELSE i - m \in B
  <2>1. CASE i <= m
    <3>1. i \in 1..m /\ u[i] = s[i]
      BY <1>1, <2>1 DEF u
    <3> QED
      BY <1>3, <2>1, <3>1 DEF Asks
  <2>2. CASE ~(i <= m)
    <3>1. i - m \in 1..n /\ u[i] = t[i - m]
      BY <1>1, <2>2 DEF u
    <3> QED
      BY <1>3, <2>2, <3>1 DEF Asks
  <2> QED
    BY <2>1, <2>2
<1>6. Cardinality(Asks(u, id)) = Cardinality(A) + Cardinality(B)
  <2>1. Joined(Asks(u, id), A, m, B, n)
    BY <1>1, <1>2, <1>4, <1>5 DEF Joined
  <2> QED
    BY <2>1, CountsAdd
<1> QED
  BY <1>1, <1>6 DEF u

\* One frame: whether it asks for id.
Ones(m, id) == IF m.type \in {"promise", "listen"} /\ m.id = id THEN 1 ELSE 0

LEMMA AsksOfOne ==
  ASSUME NEW m \in Anyone, NEW id
  PROVE  <<m>> \in Seq(Anyone) /\ Cardinality(Asks(<<m>>, id)) = Ones(m, id)
<1>1. Asks(<<m>>, id) = IF Ones(m, id) = 1 THEN {1} ELSE {}
  BY DEF Asks, Ones
<1>2. Cardinality({1}) = 1 /\ Cardinality({}) = 0 /\ Ones(m, id) \in {0, 1}
  BY FS_Singleton, FS_EmptySet DEF Ones
<1>3. <<m>> \in Seq(Anyone)
  OBVIOUS
<1> QED
  BY <1>1, <1>2, <1>3

LEMMA AsksOfNone ==
  ASSUME NEW id
  PROVE  Cardinality(Asks(<<>>, id)) = 0 /\ Cardinality(Places(<<>>, id)) = 0
<1>1. Asks(<<>>, id) = {} /\ Places(<<>>, id) = {}
  BY DEF Asks, Places
<1> QED
  BY <1>1, FS_EmptySet

LEMMA AsksOfTail ==
  ASSUME NEW s \in Seq(Anyone), s # <<>>, NEW id
  PROVE  /\ Head(s) \in Anyone /\ Tail(s) \in Seq(Anyone)
         /\ Cardinality(Asks(s, id)) = Ones(Head(s), id) + Cardinality(Asks(Tail(s), id))
<1>1. Head(s) \in Anyone /\ Tail(s) \in Seq(Anyone)
  BY HeadTailProperties
<1>2. s = <<Head(s)>> \o Tail(s)
  <2> DEFINE t == Tail(s)
             h == <<Head(s)>>
  <2>1. Len(t) = Len(s) - 1 /\ \A i \in 1..Len(t) : t[i] = s[i + 1]
    BY HeadTailProperties
  <2>2. Len(h) = 1 /\ h[1] = s[1] /\ h \in Seq(Anyone)
    BY <1>1
  <2> HIDE DEF t, h
  <2>3. /\ h \o t \in Seq(Anyone) /\ Len(h \o t) = Len(h) + Len(t)
        /\ \A i \in 1..(Len(h) + Len(t)) : (h \o t)[i] = IF i <= Len(h) THEN h[i] ELSE t[i - Len(h)]
    BY <1>1, <2>2, ConcatProperties DEF t
  <2>4. Len(h \o t) = Len(s) /\ Len(s) \in Nat
    BY <2>1, <2>2, <2>3
  <2>5. ASSUME NEW i \in 1..Len(s) PROVE (h \o t)[i] = s[i]
    <3>1. i \in 1..(Len(h) + Len(t)) /\ Len(h) = 1 /\ Len(t) = Len(s) - 1
      BY <2>1, <2>2, <2>3, <2>4
    <3>2. CASE i = 1
      BY <2>2, <2>3, <3>1, <3>2
    <3>3. CASE i # 1
      <4>1. i - 1 \in 1..Len(t) /\ (i - 1) + 1 = i
        BY <2>4, <3>1, <3>3
      <4>2. (h \o t)[i] = t[i - 1]
        BY <2>3, <2>4, <3>1, <3>3
      <4> QED
        BY <2>1, <4>1, <4>2
    <3> QED
      BY <3>2, <3>3
  <2> QED
    BY <2>3, <2>4, <2>5, SeqEqual DEF h, t
<1>3. Cardinality(Asks(<<Head(s)>> \o Tail(s), id))
        = Cardinality(Asks(<<Head(s)>>, id)) + Cardinality(Asks(Tail(s), id))
  <2>1. <<Head(s)>> \in Seq(Anyone)
    BY <1>1, AsksOfOne
  <2> QED
    BY <1>1, <2>1, AsksOfConcat
<1> QED
  BY <1>1, <1>2, <1>3, AsksOfOne

LEMMA WaitsOfAppend ==
  ASSUME NEW s \in Seq(Id), NEW x \in Id, NEW id
  PROVE  /\ Append(s, x) \in Seq(Id)
         /\ Cardinality(Places(Append(s, x), id))
              = Cardinality(Places(s, id)) + (IF x = id THEN 1 ELSE 0)
<1> DEFINE m == Len(s)
           t == Append(s, x)
           B == IF x = id THEN {1} ELSE {}
<1>1. /\ t \in Seq(Id) /\ Len(t) = m + 1 /\ m \in Nat /\ t[m + 1] = x
      /\ \A i \in 1..m : t[i] = s[i]
  BY AppendProperties
<1> HIDE DEF t
<1>2. DOMAIN t = 1..(m + 1) /\ DOMAIN s = 1..m
  BY <1>1
<1>3. Joined(Places(t, id), Places(s, id), m, B, 1)
  <2>1. Places(s, id) \subseteq 1..m /\ Places(t, id) \subseteq 1..(m + 1) /\ B \subseteq 1..1
    BY <1>2 DEF Places
  <2>2. ASSUME NEW i \in 1..(m + 1)
        PROVE  i \in Places(t, id) <=> IF i <= m THEN i \in Places(s, id) ELSE i - m \in B
    <3>1. CASE i <= m
      <4>1. i \in 1..m /\ t[i] = s[i]
        BY <1>1, <3>1
      <4> QED
        BY <1>2, <3>1, <4>1 DEF Places
    <3>2. CASE ~(i <= m)
      <4>1. i = m + 1 /\ i - m = 1 /\ t[i] = x
        BY <1>1, <3>2
      <4> QED
        BY <1>2, <3>2, <4>1 DEF Places
    <3> QED
      BY <3>1, <3>2
  <2> QED
    BY <1>1, <2>1, <2>2 DEF Joined
<1>4. Cardinality(B) = IF x = id THEN 1 ELSE 0
  BY FS_Singleton, FS_EmptySet
<1> QED
  BY <1>1, <1>3, <1>4, CountsAdd DEF t

\* The frames a client writes are lost when the transport has ended.
LEMMA WrittenCounts ==
  ASSUME up \in Seq(Frame), NEW new \in Seq(Frame)
  PROVE  /\ Written(up, new) \in Seq(Frame)
         /\ \A id : Cardinality(Asks(Written(up, new), id))
                      <= Cardinality(Asks(up, id)) + Cardinality(Asks(new, id))
<1>1. up \in Seq(Anyone) /\ new \in Seq(Anyone)
  BY SeqMonotonic DEF Anyone
<1>2. up \o new \in Seq(Frame)
  BY ConcatProperties
<1>3. ASSUME NEW id
      PROVE  Cardinality(Asks(Written(up, new), id))
               <= Cardinality(Asks(up, id)) + Cardinality(Asks(new, id))
  <2>1. /\ Cardinality(Asks(up, id)) \in Nat /\ Cardinality(Asks(new, id)) \in Nat
        /\ Cardinality(Asks(up \o new, id)) = Cardinality(Asks(up, id)) + Cardinality(Asks(new, id))
    BY <1>1, AsksCounted, AsksOfConcat
  <2> QED
    BY <2>1 DEF Written
<1> QED
  BY <1>2, <1>3 DEF Written

----------------------------------------------------------------------------
(* The account, step by step.                                                *)

Numbers(id) ==
  /\ Cardinality(Places(queued, id)) \in Nat /\ Cardinality(Asks(up, id)) \in Nat
  /\ Cardinality(Asks(pending, id)) \in Nat /\ Served(id) \in Nat /\ Asked(id) \in Nat

LEMMA Numbered == ASSUME Framed, NEW id \in Id PROVE Numbers(id)
<1>1. queued \in Seq(Id) /\ up \in Seq(Anyone) /\ pending \in Seq(Anyone)
  BY SeqMonotonic DEF Framed, Anyone
<1>2. Served(id) \in Nat /\ Asked(id) \in Nat
  BY BoundAssumption DEF Framed, Served, Asked, Id
<1> QED
  BY <1>1, <1>2, AsksCounted, WaitsCounted DEF Numbers

\* What one step adds at one place it takes from another, or the client asks for it.
LEMMA Balanced ==
  ASSUME Framed, Accounted, Framed',
         \A id \in Id :
           Cardinality(Places(queued', id)) + Cardinality(Asks(up', id)) + Cardinality(Asks(pending', id))
             + Served(id)' + Asked(id)
           <= Cardinality(Places(queued, id)) + Cardinality(Asks(up, id)) + Cardinality(Asks(pending, id))
                + Served(id) + Asked(id)'
  PROVE  Accounted'
<1> SUFFICES ASSUME NEW id \in Id
             PROVE  (Cardinality(Places(queued, id)) + Cardinality(Asks(up, id))
                       + Cardinality(Asks(pending, id)) + Served(id) <= Asked(id))'
  BY DEF Accounted
<1>1. Numbers(id)
  BY Numbered
<1>2. Numbers(id)'
  <2>1. Framed' => Numbers(id)'
    BY Numbered, PTL
  <2> QED
    BY <2>1
<1> QED
  BY <1>1, <1>2 DEF Numbers, Accounted

\* The one frame of a request, a cancellation or a disposal.
LEMMA FrameOfOne ==
  ASSUME NEW m \in Frame
  PROVE  <<m>> \in Seq(Frame) /\ \A id : Cardinality(Asks(<<m>>, id)) = Ones(m, id)
<1>1. m \in Anyone
  BY DEF Anyone
<1>2. <<m>> \in Seq(Frame)
  OBVIOUS
<1> QED
  BY <1>1, <1>2, AsksOfOne

LEMMA WritesOne ==
  ASSUME IInv, NEW m \in Frame, NEW id
  PROVE  /\ Written(up, <<m>>) \in Seq(Frame)
         /\ Cardinality(Asks(Written(up, <<m>>), id)) <= Cardinality(Asks(up, id)) + Ones(m, id)
<1>1. up \in Seq(Frame) /\ <<m>> \in Seq(Frame) /\ Cardinality(Asks(<<m>>, id)) = Ones(m, id)
  BY FrameOfOne DEF IInv, Framed
<1> QED
  BY <1>1, WrittenCounts

LEMMA CallServiceStep == ASSUME IInv, NEW c \in Call, CallService(c) PROVE IInv'
<1> DEFINE m == Ask("promise", c)
<1>1. m \in Frame /\ c \in Id /\ \A id : Ones(m, id) = IF id = c THEN 1 ELSE 0
  BY DEF Ask, Frame, Id, Ones
<1>2. /\ call[c] = "new"
      /\ call' = [call EXCEPT ![c] = IF gone THEN "closed" ELSE IF idle THEN "sent" ELSE "waiting"]
      /\ up' = (IF idle /\ ~gone THEN Written(up, <<m>>) ELSE up)
      /\ queued' = (IF idle \/ gone THEN queued ELSE Append(queued, c))
      /\ UNCHANGED <<link, down, idle, gone, listening, handler, listens, server, history>>
  BY DEF CallService
<1> HIDE DEF m
<1>3. up' \in Seq(Frame) /\ queued' \in Seq(Id)
  BY <1>1, <1>2, WritesOne, WaitsOfAppend DEF IInv, Framed
<1>4. Framed'
  BY <1>2, <1>3 DEF IInv, Framed, server, history, Open, Settled
<1>5. ASSUME NEW id \in Id
      PROVE  Cardinality(Places(queued', id)) + Cardinality(Asks(up', id))
               <= Cardinality(Places(queued, id)) + Cardinality(Asks(up, id)) + (IF id = c THEN 1 ELSE 0)
  <2>1. Numbers(id)
    BY Numbered DEF IInv
  <2>2. CASE queued' = queued /\ up' = up
    BY <2>1, <2>2 DEF Numbers
  <2>3. CASE queued' = queued /\ up' = Written(up, <<m>>)
    <3>1. Cardinality(Asks(up', id)) <= Cardinality(Asks(up, id)) + (IF id = c THEN 1 ELSE 0)
      BY <1>1, <2>3, WritesOne
    <3>2. Cardinality(Asks(up', id)) \in Nat
      BY <1>3, AsksCounted, SeqMonotonic DEF Anyone
    <3> QED
      BY <2>1, <2>3, <3>1, <3>2 DEF Numbers
  <2>4. CASE queued' = Append(queued, c) /\ up' = up
    BY <1>1, <2>1, <2>4, WaitsOfAppend DEF IInv, Framed, Numbers
  <2> QED
    BY <1>2, <2>2, <2>3, <2>4
<1>6. ASSUME NEW id \in Id
      PROVE  Served(id)' = Served(id) /\ Asked(id)' = Asked(id) + (IF id = c THEN 1 ELSE 0)
             /\ Served(id) \in Nat /\ Asked(id) \in Nat
  <2>1. Numbers(id)
    BY Numbered DEF IInv
  <2>2. Served(id)' = Served(id)
    BY <1>2 DEF Served, server, history
  <2>3. id = c => Asked(id) = 0 /\ Asked(id)' = 1
    BY <1>2 DEF Asked, IInv, Framed
  <2>4. id # c => Asked(id)' = Asked(id)
    BY <1>2 DEF Asked, IInv, Framed
  <2> QED
    BY <2>1, <2>2, <2>3, <2>4 DEF Numbers
<1>7. Accounted'
  <2>1. pending' = pending
    BY <1>2 DEF server
  <2>2. \A id \in Id : Numbers(id) /\ Cardinality(Places(queued', id)) \in Nat
                       /\ Cardinality(Asks(up', id)) \in Nat
    BY <1>3, Numbered, AsksCounted, WaitsCounted, SeqMonotonic DEF IInv, Anyone
  <2> QED
    BY <1>4, <1>5, <1>6, <2>1, <2>2, Balanced DEF IInv, Numbers
<1>8. HeldLives'
  BY <1>2 DEF IInv, HeldLives, server
<1> QED
  BY <1>4, <1>7, <1>8 DEF IInv

\* Steps that neither ask nor serve: nothing is added to what is on its way.
LEMMA Quiet ==
  ASSUME IInv, Framed', UNCHANGED <<queued, pending, runs, subs, listens, held>>,
         \A c \in Call : call'[c] = "new" <=> call[c] = "new",
         \A id \in Id : Cardinality(Asks(up', id)) <= Cardinality(Asks(up, id))
  PROVE  IInv'
<1>1. ASSUME NEW id \in Id PROVE Served(id)' = Served(id) /\ Asked(id)' = Asked(id)
  BY DEF Served, Asked, Id
<1>2. \A id \in Id : Numbers(id) /\ Cardinality(Asks(up', id)) \in Nat
  BY Numbered, AsksCounted, SeqMonotonic DEF IInv, Framed, Anyone
<1>3. Accounted'
  BY <1>1, <1>2, Balanced DEF IInv, Numbers
<1> QED
  BY <1>3 DEF IInv, HeldLives

\* A cancellation and a disposal ask for nothing.
LEMMA Unasking ==
  ASSUME IInv, NEW m \in Frame, m.type \in {"cancel", "dispose"}, up' = Written(up, <<m>>)
  PROVE  up' \in Seq(Frame) /\ \A id \in Id : Cardinality(Asks(up', id)) <= Cardinality(Asks(up, id))
<1>1. \A id : Ones(m, id) = 0
  BY DEF Ones
<1>2. up' \in Seq(Frame)
  BY WritesOne
<1>3. ASSUME NEW id \in Id PROVE Cardinality(Asks(up', id)) <= Cardinality(Asks(up, id))
  <2>1. Numbers(id)
    BY Numbered DEF IInv
  <2>2. Cardinality(Asks(up', id)) <= Cardinality(Asks(up, id)) + Ones(m, id)
    BY WritesOne
  <2>3. Cardinality(Asks(up', id)) \in Nat
    BY <1>2, AsksCounted, SeqMonotonic DEF Anyone
  <2> QED
    BY <1>1, <2>1, <2>2, <2>3 DEF Numbers
<1> QED
  BY <1>2, <1>3

LEMMA CancelStep == ASSUME IInv, NEW c \in Call, Cancel(c) PROVE IInv'
<1> DEFINE m == Ask("cancel", c)
<1>1. m \in Frame /\ m.type = "cancel" /\ up' = Written(up, <<m>>)
  BY DEF Cancel, Ask, Frame
<1> HIDE DEF m
<1>2. up' \in Seq(Frame) /\ \A id \in Id : Cardinality(Asks(up', id)) <= Cardinality(Asks(up, id))
  BY <1>1, Unasking
<1>3. /\ call[c] \in Open /\ call' = [call EXCEPT ![c] = "cancelled"]
      /\ UNCHANGED <<link, down, idle, gone, queued, listening, handler, listens, server, history>>
  BY DEF Cancel
<1>4. Framed'
  BY <1>2, <1>3 DEF IInv, Framed, server, history, Settled
<1>5. \A d \in Call : call'[d] = "new" <=> call[d] = "new"
  BY <1>3 DEF IInv, Framed, Open
<1> QED
  BY <1>2, <1>3, <1>4, <1>5, Quiet DEF server, history

LEMMA RemoveListenerStep == ASSUME IInv, NEW e \in Evt, RemoveListener(e) PROVE IInv'
<1> DEFINE m == Ask("dispose", e)
<1>1. m \in Frame /\ m.type = "dispose" /\ up' = Written(up, <<m>>)
  BY DEF RemoveListener, Ask, Frame
<1> HIDE DEF m
<1>2. up' \in Seq(Frame) /\ \A id \in Id : Cardinality(Asks(up', id)) <= Cardinality(Asks(up, id))
  BY <1>1, Unasking
<1>3. /\ listening' \subseteq listening /\ handler' \subseteq handler
      /\ UNCHANGED <<link, down, idle, gone, call, queued, listens, server, history>>
  BY DEF RemoveListener
<1>4. Framed'
  BY <1>2, <1>3 DEF IInv, Framed, server, history
<1> QED
  BY <1>2, <1>3, <1>4, Quiet DEF server, history

LEMMA AddListenerStep == ASSUME IInv, NEW e \in Evt, AddListener(e) PROVE IInv'
<1> DEFINE m == Ask("listen", e)
<1>1. m \in Frame /\ e \in Id /\ e \notin Call /\ \A id : Ones(m, id) = IF id = e THEN 1 ELSE 0
  BY IdAssumption DEF Ask, Frame, Id, Ones
<1>2. /\ listens[e] < MaxListens /\ listening' = listening \cup {e}
      /\ listens' = [listens EXCEPT ![e] = @ + 1]
      /\ up' = (IF idle THEN Written(up, <<m>>) ELSE up)
      /\ queued' = (IF idle THEN queued ELSE Append(queued, e))
      /\ UNCHANGED <<link, down, idle, gone, call, handler, server, history>>
  BY DEF AddListener
<1> HIDE DEF m
<1>3. up' \in Seq(Frame) /\ queued' \in Seq(Id)
  BY <1>1, <1>2, WritesOne, WaitsOfAppend DEF IInv, Framed
<1>4. Framed'
  <2>1. listens' \in [Evt -> 0..MaxListens]
    BY <1>2, BoundAssumption DEF IInv, Framed
  <2> QED
    BY <1>2, <1>3, <2>1 DEF IInv, Framed, server, history
<1>5. ASSUME NEW id \in Id
      PROVE  Cardinality(Places(queued', id)) + Cardinality(Asks(up', id))
               <= Cardinality(Places(queued, id)) + Cardinality(Asks(up, id)) + (IF id = e THEN 1 ELSE 0)
  <2>1. Numbers(id)
    BY Numbered DEF IInv
  <2>2. CASE queued' = queued /\ up' = Written(up, <<m>>)
    <3>1. Cardinality(Asks(up', id)) <= Cardinality(Asks(up, id)) + (IF id = e THEN 1 ELSE 0)
      BY <1>1, <2>2, WritesOne
    <3>2. Cardinality(Asks(up', id)) \in Nat
      BY <1>3, AsksCounted, SeqMonotonic DEF Anyone
    <3> QED
      BY <2>1, <2>2, <3>1, <3>2 DEF Numbers
  <2>3. CASE queued' = Append(queued, e) /\ up' = up
    BY <1>1, <2>1, <2>3, WaitsOfAppend DEF IInv, Framed, Numbers
  <2> QED
    BY <1>2, <2>2, <2>3
<1>6. ASSUME NEW id \in Id
      PROVE  Served(id)' = Served(id) /\ Asked(id)' = Asked(id) + (IF id = e THEN 1 ELSE 0)
             /\ Served(id) \in Nat /\ Asked(id) \in Nat
  <2>1. Numbers(id)
    BY Numbered DEF IInv
  <2>2. Served(id)' = Served(id)
    BY <1>2 DEF Served, server, history
  <2>3. id = e => Asked(id) = listens[e] /\ Asked(id)' = listens[e] + 1
    BY <1>1, <1>2 DEF Asked, IInv, Framed
  <2>4. id # e => Asked(id)' = Asked(id)
    BY <1>2 DEF Asked, IInv, Framed, Id
  <2> QED
    BY <2>1, <2>2, <2>3, <2>4 DEF Numbers
<1>7. Accounted'
  <2>1. pending' = pending
    BY <1>2 DEF server
  <2>2. \A id \in Id : Numbers(id) /\ Cardinality(Places(queued', id)) \in Nat
                       /\ Cardinality(Asks(up', id)) \in Nat
    BY <1>3, Numbered, AsksCounted, WaitsCounted, SeqMonotonic DEF IInv, Anyone
  <2> QED
    BY <1>4, <1>5, <1>6, <2>1, <2>2, Balanced DEF IInv, Numbers
<1>8. HeldLives'
  BY <1>2 DEF IInv, HeldLives, server
<1> QED
  BY <1>4, <1>7, <1>8 DEF IInv

LEMMA ClientDisposeStep == ASSUME IInv, ClientDispose PROVE IInv'
<1>1. /\ call' = Rejected /\ gone' = TRUE
      /\ UNCHANGED <<transport, idle, queued, listening, handler, listens, server, history>>
  BY DEF ClientDispose
<1>2. call' \in [Call -> {"new"} \cup Open \cup Settled] /\ \A c \in Call : call'[c] = "new" <=> call[c] = "new"
  BY <1>1 DEF Rejected, IInv, Framed, Open, Settled
<1>3. Framed'
  BY <1>1, <1>2 DEF IInv, Framed, transport, server, history
<1>4. \A id \in Id : Cardinality(Asks(up', id)) <= Cardinality(Asks(up, id))
  BY <1>1, Numbered DEF transport, IInv, Numbers
<1> QED
  BY <1>1, <1>2, <1>3, <1>4, Quiet DEF server, history

\* Initialize moves what waited for it onto the wire.
LEMMA HearInitializeStep ==
  ASSUME IInv, HearInitialize, down' = Tail(down), down # <<>>,
         UNCHANGED <<link, gone, listening, handler, listens, server, runs, fires>>
  PROVE  IInv'
<1> DEFINE send == Only(queued, Sendable)
           frames == [i \in DOMAIN send |->
                        Ask(IF send[i] \in Call THEN "promise" ELSE "listen", send[i])]
<1>1. /\ idle' = TRUE /\ queued' = <<>> /\ up' = Written(up, frames) /\ UNCHANGED unheard
      /\ call' = [c \in Call |-> IF c \in ToSet(send) THEN "sent" ELSE call[c]]
  BY DEF HearInitialize
<1>2. queued \in Seq(Id)
  BY DEF IInv, Framed
<1>3. /\ send \in Seq(Id \cap Sendable) /\ Len(send) \in Nat /\ DOMAIN send = 1..Len(send)
      /\ \A i \in 1..Len(send) : send[i] \in Id /\ send[i] \in Sendable
  <2>1. send \in Seq(Id \cap Sendable)
    BY <1>2, OnlyEmbeds
  <2> HIDE DEF send
  <2> QED
    BY <2>1
<1>4. ASSUME NEW id PROVE Cardinality(Places(send, id)) <= Cardinality(Places(queued, id))
  <2>1. Cardinality(Places(send, id)) = IF id \in Sendable THEN Cardinality(Places(queued, id)) ELSE 0
    BY <1>2, OnlyCounts
  <2> QED
    BY <1>2, <2>1, WaitsCounted
<1> HIDE DEF send
<1>5. /\ frames \in Seq(Frame) /\ DOMAIN frames = DOMAIN send
      /\ \A i \in DOMAIN send : frames[i] \in Frame /\ frames[i].id = send[i]
                                /\ frames[i].type \in {"promise", "listen"}
  <2>1. \A i \in DOMAIN send : /\ frames[i].id = send[i] /\ frames[i].type \in {"promise", "listen"}
                               /\ frames[i] \in Frame
    BY <1>3 DEF Ask, Frame, Id
  <2> QED
    BY <1>3, <2>1
<1> HIDE DEF frames
<1>6. ASSUME NEW id \in Id
      PROVE  Cardinality(Places(queued', id)) + Cardinality(Asks(up', id))
               <= Cardinality(Places(queued, id)) + Cardinality(Asks(up, id))
  <2>1. Asks(frames, id) = Places(send, id)
    BY <1>5 DEF Asks, Places
  <2>2. Cardinality(Asks(up', id)) <= Cardinality(Asks(up, id)) + Cardinality(Asks(frames, id))
    BY <1>1, <1>5, WrittenCounts DEF IInv, Framed
  <2>3. Cardinality(Places(queued', id)) = 0
    BY <1>1, AsksOfNone
  <2>4. up' \in Seq(Frame)
    BY <1>1, <1>5, WrittenCounts DEF IInv, Framed
  <2>5. Cardinality(Asks(up', id)) \in Nat /\ Cardinality(Places(send, id)) \in Nat /\ Numbers(id)
    <3>1. send \in Seq(Id) /\ up' \in Seq(Anyone)
      BY <1>3, <2>4, SeqMonotonic DEF Anyone
    <3> QED
      BY <3>1, Numbered, AsksCounted, WaitsCounted DEF IInv
  <2> QED
    BY <1>4, <2>1, <2>2, <2>3, <2>5 DEF Numbers
<1>7. /\ call' \in [Call -> {"new"} \cup Open \cup Settled]
      /\ \A c \in Call : call'[c] = "new" <=> call[c] = "new"
  <2>1. \A c \in Call : c \in ToSet(send) => call[c] = "waiting"
    BY <1>3, IdAssumption DEF ToSet, Sendable
  <2> QED
    BY <1>1, <2>1 DEF IInv, Framed, Open
<1>8. Framed'
  <2>1. up' \in Seq(Frame)
    BY <1>1, <1>5, WrittenCounts DEF IInv, Framed
  <2>2. down' \in Seq(Reply)
    BY HeadTailProperties DEF IInv, Framed
  <2> QED
    BY <1>1, <1>7, <2>1, <2>2 DEF IInv, Framed, server
<1>9. Accounted'
  <2>1. \A id \in Id : Served(id)' = Served(id) /\ Asked(id)' = Asked(id)
    BY <1>7 DEF Served, Asked, server
  <2>2. \A id \in Id : Numbers(id) /\ Cardinality(Places(queued', id)) \in Nat
                       /\ Cardinality(Asks(up', id)) \in Nat
    BY <1>8, Numbered, AsksCounted, WaitsCounted, SeqMonotonic DEF IInv, Framed, Anyone
  <2>3. pending' = pending
    BY DEF server
  <2> QED
    BY <1>6, <1>8, <2>1, <2>2, <2>3, Balanced DEF IInv, Numbers
<1> QED
  BY <1>8, <1>9 DEF IInv, HeldLives, server

\* An answer settles a call that was sent; an event is heard or missed.
LEMMA ClientReceiveStep == ASSUME IInv, ClientReceive PROVE IInv'
<1>1. /\ down # <<>> /\ down' = Tail(down)
      /\ UNCHANGED <<link, gone, listening, handler, listens, server, runs, fires>>
  BY DEF ClientReceive
<1> DEFINE m == Head(down)
<1>2. CASE m.type = "initialize"
  BY <1>1, <1>2, HearInitializeStep DEF ClientReceive
<1>3. CASE m.type # "initialize"
  <2>1. /\ call' = (IF m.id \in Call /\ call[m.id] = "sent" THEN [call EXCEPT ![m.id] = m.type] ELSE call)
        /\ unheard' = unheard \cup {e \in listening \ handler : m.type = "fire" /\ m.id = e}
        /\ UNCHANGED <<idle, queued, up>>
    BY <1>3 DEF ClientReceive
  <2>2. m \in Reply /\ down' \in Seq(Reply)
    BY <1>1, HeadTailProperties DEF IInv, Framed
  <2> HIDE DEF m
  <2>3. m.id \in Call => m.type \in {"success", "unknown"}
    BY <1>3, <2>2, IdAssumption DEF Reply
  <2>4. /\ call' \in [Call -> {"new"} \cup Open \cup Settled]
        /\ \A c \in Call : call'[c] = "new" <=> call[c] = "new"
    BY <2>1, <2>3 DEF IInv, Framed, Settled
  <2>5. Framed'
    BY <1>1, <2>1, <2>2, <2>4 DEF IInv, Framed, server
  <2>6. \A id \in Id : Cardinality(Asks(up', id)) <= Cardinality(Asks(up, id))
    BY <2>1, Numbered DEF IInv, Numbers
  <2> QED
    BY <1>1, <2>1, <2>4, <2>5, <2>6, Quiet DEF server
<1> QED
  BY <1>2, <1>3

----------------------------------------------------------------------------
(* The server's steps.                                                       *)

\* What the server writes back.
LEMMA AnswerTyped ==
  ASSUME IInv, NEW type, NEW id, [type |-> type, id |-> id] \in Reply
  PROVE  Answer(type, id) \in Seq(Reply)
<1>1. down \in Seq(Reply) /\ <<[type |-> type, id |-> id]>> \in Seq(Reply)
  BY DEF IInv, Framed
<1> QED
  BY <1>1, ConcatProperties DEF Answer, Written

LEMMA SameUp == ASSUME IInv, UNCHANGED up
  PROVE \A id \in Id : Cardinality(Asks(up', id)) <= Cardinality(Asks(up, id))
BY Numbered DEF IInv, Numbers

LEMMA ReadyStep == ASSUME IInv, Ready PROVE IInv'
<1>1. [type |-> "initialize", id |-> NoId] \in Reply
  BY DEF Reply
<1>2. /\ down' \in Seq(Reply) /\ ready' = TRUE
      /\ UNCHANGED <<link, up, client, over, registered, flushing, pending, executing, running, subs,
                     held, history>>
  BY <1>1, AnswerTyped DEF Ready
<1>3. Framed'
  BY <1>2 DEF IInv, Framed, client, history
<1> QED
  BY <1>2, <1>3, SameUp, Quiet DEF client, history

LEMMA ReturnStep == ASSUME IInv, NEW c \in Call, Return(c) PROVE IInv'
<1>1. [type |-> "success", id |-> c] \in Reply
  BY DEF Reply
<1>2. /\ down' \in Seq(Reply) /\ running' = running \ {c} /\ executing' = executing \ {c}
      /\ UNCHANGED <<link, up, client, ready, over, registered, flushing, pending, subs, held, history>>
  BY <1>1, AnswerTyped DEF Return
<1>3. Framed'
  BY <1>2 DEF IInv, Framed, client, history
<1> QED
  BY <1>2, <1>3, SameUp, Quiet DEF client, history

LEMMA RegisterLateStep == ASSUME IInv, RegisterLate PROVE IInv'
<1>1. /\ registered' = TRUE /\ flushing' = TRUE
      /\ UNCHANGED <<transport, client, ready, over, pending, executing, running, subs, held, history>>
  BY DEF RegisterLate
<1>2. Framed'
  BY <1>1 DEF IInv, Framed, transport, client, history
<1> QED
  BY <1>1, <1>2, SameUp, Quiet DEF transport, client, history

LEMMA FireStep == ASSUME IInv, NEW e \in Evt, Fire(e) PROVE IInv'
<1> DEFINE frames == [i \in 1..subs[e] |-> [type |-> "fire", id |-> e]]
<1>1. /\ fires[e] < MaxFires /\ fires' = [fires EXCEPT ![e] = @ + 1]
      /\ down' = Written(down, frames)
      /\ UNCHANGED <<link, up, client, server, runs, unheard>>
  BY DEF Fire
<1>2. frames \in Seq(Reply)
  <2>1. subs[e] \in Nat
    BY DEF IInv, Framed
  <2>2. [type |-> "fire", id |-> e] \in Reply
    BY DEF Reply
  <2> QED
    BY <2>1, <2>2
<1> HIDE DEF frames
<1>3. down' \in Seq(Reply)
  BY <1>1, <1>2, ConcatProperties DEF Written, IInv, Framed
<1>4. fires' \in [Evt -> 0..MaxFires]
  BY <1>1, BoundAssumption DEF IInv, Framed
<1>5. Framed'
  BY <1>1, <1>3, <1>4 DEF IInv, Framed, client, server
<1> QED
  BY <1>1, <1>5, SameUp, Quiet DEF client, server

LEMMA LinkEndsStep == ASSUME IInv, LinkEnds PROVE IInv'
<1>1. link' = "down" /\ up' = <<>> /\ down' = <<>> /\ UNCHANGED <<client, server, history>>
  BY DEF LinkEnds
<1>2. Framed'
  BY <1>1 DEF IInv, Framed, client, server, history
<1>3. \A id \in Id : Cardinality(Asks(up', id)) <= Cardinality(Asks(up, id))
  BY <1>1, AsksOfNone, Numbered DEF IInv, Numbers
<1> QED
  BY <1>1, <1>2, <1>3, Quiet DEF client, server, history

LEMMA TimeoutPendingStep == ASSUME IInv, TimeoutPending PROVE IInv'
<1>1. PICK i \in DOMAIN pending :
        /\ pending[i].timer /\ pending' = [pending EXCEPT ![i].timer = FALSE]
        /\ down' = (IF pending[i].type = "promise" THEN Answer("unknown", pending[i].id) ELSE down)
  BY DEF TimeoutPending
<1>2. UNCHANGED <<link, up, client, ready, over, registered, flushing, executing, running, subs,
                  held, history>>
  BY DEF TimeoutPending
<1>3. /\ pending \in Seq(Waiting) /\ DOMAIN pending' = DOMAIN pending
      /\ pending[i] \in Waiting
      /\ \A j \in DOMAIN pending : pending'[j] = IF j = i THEN [pending[i] EXCEPT !.timer = FALSE]
                                                 ELSE pending[j]
  BY <1>1 DEF IInv, Framed
<1>4. /\ [pending[i] EXCEPT !.timer = FALSE] \in Waiting
      /\ [pending[i] EXCEPT !.timer = FALSE].type = pending[i].type
      /\ [pending[i] EXCEPT !.timer = FALSE].id = pending[i].id
  BY <1>3 DEF Waiting
<1>5. pending' \in Seq(Waiting)
  BY <1>1, <1>3, <1>4, ExceptSeq
<1>6. down' \in Seq(Reply)
  <2>1. pending[i].type = "promise" => [type |-> "unknown", id |-> pending[i].id] \in Reply
    BY <1>3, IdAssumption DEF Waiting, Reply
  <2> QED
    BY <1>1, <2>1, AnswerTyped DEF IInv, Framed
<1>7. Framed'
  BY <1>2, <1>5, <1>6 DEF IInv, Framed, client, history
<1>8. \A id \in Id : Asks(pending', id) = Asks(pending, id)
  BY <1>3, <1>4 DEF Asks
<1>9. Accounted'
  <2>1. \A id \in Id : Served(id)' = Served(id) /\ Asked(id)' = Asked(id)
    BY <1>2 DEF Served, Asked, client, history
  <2>2. up' = up /\ queued' = queued /\ \A id \in Id : Numbers(id)
    BY <1>2, Numbered DEF client, IInv
  <2> QED
    BY <1>7, <1>8, <2>1, <2>2, Balanced DEF IInv, Numbers
<1> QED
  BY <1>2, <1>7, <1>9 DEF IInv, HeldLives

\* A request that is executed is counted once at its service.
LEMMA Executed ==
  ASSUME IInv, NEW rs \in Seq(Anyone), \A i \in DOMAIN rs : rs[i].type \in {"promise", "listen"},
         Execute(rs)
  PROVE  /\ executing' \subseteq running' /\ running' \subseteq Call
         /\ runs' \in [Call -> Nat] /\ subs' \in [Evt -> Nat] /\ held' \subseteq Evt
         /\ HeldLives'
         /\ \A id \in Id : Served(id)' = Served(id) + Cardinality(Asks(rs, id))
<1> DEFINE calls == {i \in DOMAIN rs : rs[i].type = "promise"}
           listeners == {i \in DOMAIN rs : rs[i].type = "listen"}
<1>1. /\ executing' = executing \cup {rs[i].id : i \in calls}
      /\ running' = running \cup {rs[i].id : i \in calls}
      /\ runs' = [c \in Call |-> runs[c] + Cardinality({i \in calls : rs[i].id = c})]
      /\ subs' = [e \in Evt |-> subs[e] + Cardinality({i \in listeners : rs[i].id = e})]
      /\ held' = held \cup {rs[i].id : i \in listeners}
  BY DEF Execute
<1>2. \A i \in DOMAIN rs : /\ rs[i].type = "promise" => rs[i].id \in Call
                           /\ rs[i].type = "listen" => rs[i].id \in Evt
  BY DEF Anyone, Frame, Waiting
<1>3. /\ \A c \in Call : {i \in calls : rs[i].id = c} = Asks(rs, c)
      /\ \A e \in Evt : {i \in listeners : rs[i].id = e} = Asks(rs, e)
  BY <1>2, IdAssumption DEF Asks
<1>4. /\ runs' = [c \in Call |-> runs[c] + Cardinality(Asks(rs, c))]
      /\ subs' = [e \in Evt |-> subs[e] + Cardinality(Asks(rs, e))]
  BY <1>1, <1>3
<1>5. \A id : Cardinality(Asks(rs, id)) \in Nat /\ IsFiniteSet(Asks(rs, id))
  BY AsksCounted
<1>6. /\ runs \in [Call -> Nat] /\ subs \in [Evt -> Nat] /\ held \subseteq Evt
      /\ executing \subseteq running /\ running \subseteq Call
  BY DEF IInv, Framed
<1>7. runs' \in [Call -> Nat] /\ subs' \in [Evt -> Nat] /\ held' \subseteq Evt
      /\ executing' \subseteq running' /\ running' \subseteq Call
  <2>1. runs' \in [Call -> Nat]
    BY <1>4, <1>5, <1>6
  <2>2. subs' \in [Evt -> Nat]
    BY <1>4, <1>5, <1>6
  <2>3. held' \subseteq Evt
    BY <1>1, <1>2, <1>6
  <2>4. {rs[i].id : i \in calls} \subseteq Call
    BY <1>2
  <2>5. executing' \subseteq running' /\ running' \subseteq Call
    BY <1>1, <1>6, <2>4
  <2> QED
    BY <2>1, <2>2, <2>3, <2>5
<1>8. HeldLives'
  <2> SUFFICES ASSUME NEW e \in held' PROVE subs'[e] >= 1
    BY DEF HeldLives
  <2>1. e \in Evt /\ subs'[e] = subs[e] + Cardinality(Asks(rs, e)) /\ subs[e] \in Nat
    BY <1>4, <1>6, <1>7
  <2>2. CASE e \in held
    BY <1>5, <2>1, <2>2 DEF IInv, HeldLives
  <2>3. CASE e \notin held
    <3>1. Asks(rs, e) # {}
      BY <1>1, <2>3 DEF Asks
    <3>2. Cardinality(Asks(rs, e)) # 0
      BY <1>5, <3>1, FS_EmptySet
    <3> QED
      BY <1>5, <2>1, <3>2
  <2> QED
    BY <2>2, <2>3
<1>9. \A id \in Id : Served(id)' = Served(id) + Cardinality(Asks(rs, id))
  BY <1>4 DEF Served, Id
<1> QED
  BY <1>7, <1>8, <1>9

LEMMA FlushStep == ASSUME IInv, Flush PROVE IInv'
<1>1. /\ flushing' = FALSE /\ pending' = <<>> /\ Execute(pending)
      /\ UNCHANGED <<transport, client, ready, over, registered, fires, unheard>>
  BY DEF Flush
<1>2. /\ pending \in Seq(Anyone)
      /\ \A i \in DOMAIN pending : pending[i].type \in {"promise", "listen"}
  <2>1. pending \in Seq(Waiting)
    BY DEF IInv, Framed
  <2>2. \A i \in DOMAIN pending : pending[i].type \in {"promise", "listen"}
    BY <2>1 DEF Waiting
  <2> QED
    BY <2>1, <2>2, SeqMonotonic DEF Anyone
<1>3. /\ executing' \subseteq running' /\ running' \subseteq Call
      /\ runs' \in [Call -> Nat] /\ subs' \in [Evt -> Nat] /\ held' \subseteq Evt
      /\ HeldLives'
      /\ \A id \in Id : Served(id)' = Served(id) + Cardinality(Asks(pending, id))
  BY <1>1, <1>2, Executed
<1>4. Framed'
  <2>1. pending' \in Seq(Waiting)
    BY <1>1
  <2> QED
    BY <1>1, <1>3, <2>1 DEF IInv, Framed, transport, client
<1>5. Accounted'
  <2>1. \A id \in Id : Asked(id)' = Asked(id) /\ Numbers(id)
    BY <1>1, Numbered DEF Asked, client, IInv
  <2>2. up' = up /\ queued' = queued /\ \A id \in Id : Cardinality(Asks(pending', id)) = 0
    BY <1>1, AsksOfNone DEF transport, client
  <2> QED
    BY <1>3, <1>4, <2>1, <2>2, Balanced DEF IInv, Numbers
<1> QED
  BY <1>3, <1>4, <1>5 DEF IInv

\* What the server disposes of, it has.
LEMMA UnsubscribedCounts ==
  ASSUME IInv, NEW es
  PROVE  /\ Unsubscribed(es) \in [Evt -> Nat]
         /\ \A e \in Evt : Unsubscribed(es)[e] <= subs[e]
         /\ \A e \in held \ es : Unsubscribed(es)[e] = subs[e]
BY DEF Unsubscribed, IInv, Framed, HeldLives

LEMMA ServerDisposeStep == ASSUME IInv, ServerDispose PROVE IInv'
<1>1. /\ over' = TRUE /\ executing' = {} /\ held' = {} /\ subs' = Unsubscribed(held)
      /\ UNCHANGED <<transport, client, ready, registered, flushing, pending, running, history>>
  BY DEF ServerDispose
<1>2. subs' \in [Evt -> Nat] /\ \A e \in Evt : subs'[e] <= subs[e]
  BY <1>1, UnsubscribedCounts
<1>3. Framed'
  BY <1>1, <1>2 DEF IInv, Framed, transport, client, history
<1>4. Accounted'
  <2>1. \A id \in Id : Served(id)' <= Served(id) /\ Served(id)' \in Nat
    BY <1>1, <1>2 DEF Served, history, IInv, Framed, Id
  <2>2. \A id \in Id : Asked(id)' = Asked(id) /\ Numbers(id)
    BY <1>1, Numbered DEF Asked, client, IInv
  <2>3. up' = up /\ queued' = queued /\ pending' = pending
    BY <1>1 DEF transport, client
  <2> QED
    BY <1>3, <2>1, <2>2, <2>3, Balanced DEF IInv, Numbers
<1> QED
  BY <1>1, <1>3, <1>4 DEF IInv, HeldLives

LEMMA ServerReceiveStep == ASSUME IInv, ServerReceive PROVE IInv'
<1> DEFINE m == Head(up)
           waiting == [type |-> m.type, id |-> m.id, timer |-> TRUE]
<1>1. /\ up # <<>> /\ up' = Tail(up)
      /\ UNCHANGED <<link, down, client, ready, over, registered, flushing, fires, unheard>>
  BY DEF ServerReceive
<1>2. up \in Seq(Frame) /\ up \in Seq(Anyone) /\ pending \in Seq(Waiting) /\ pending \in Seq(Anyone)
  BY SeqMonotonic DEF IInv, Framed, Anyone
<1>3. m \in Frame /\ up' \in Seq(Frame)
  BY <1>1, <1>2, HeadTailProperties
<1>4. ASSUME NEW id \in Id
      PROVE  /\ Cardinality(Asks(up, id)) = Ones(m, id) + Cardinality(Asks(up', id))
             /\ Cardinality(Asks(up', id)) \in Nat /\ Numbers(id) /\ Asked(id)' = Asked(id)
  <2>1. Cardinality(Asks(up, id)) = Ones(m, id) + Cardinality(Asks(up', id))
    BY <1>1, <1>2, AsksOfTail
  <2>2. Cardinality(Asks(up', id)) \in Nat
    BY <1>1, <1>2, AsksOfTail, AsksCounted
  <2> QED
    BY <1>1, <2>1, <2>2, Numbered DEF IInv, Asked, client
<1>5. queued' = queued
  BY <1>1 DEF client
<1>6. \/ /\ m.type \in {"promise", "listen"} /\ pending' = Append(pending, waiting)
         /\ UNCHANGED <<executing, running, subs, held, runs>>
      \/ m.type \in {"promise", "listen"} /\ Execute(<<m>>) /\ UNCHANGED pending
      \/ /\ m.type = "cancel" /\ executing' = executing \ {m.id}
         /\ UNCHANGED <<pending, running, subs, held, runs>>
      \/ /\ m.type = "dispose" /\ held' = held \ {m.id} /\ subs' = Unsubscribed({m.id})
         /\ UNCHANGED <<pending, executing, running, runs>>
  BY DEF ServerReceive
<1> HIDE DEF m
<1>7. CASE /\ m.type \in {"promise", "listen"} /\ pending' = Append(pending, waiting)
           /\ UNCHANGED <<executing, running, subs, held, runs>>
  <2>1. waiting \in Waiting /\ \A id : Ones(waiting, id) = Ones(m, id)
    BY <1>3, <1>7 DEF Frame, Waiting, Ones
  <2> HIDE DEF waiting
  <2>2. pending' = pending \o <<waiting>> /\ <<waiting>> \in Seq(Waiting) /\ waiting \in Anyone
    BY <1>2, <1>7, <2>1, AppendIsConcat DEF Anyone
  <2>3. pending' \in Seq(Waiting)
    BY <1>2, <2>2, ConcatProperties
  <2>4. ASSUME NEW id
        PROVE  Cardinality(Asks(pending', id)) = Cardinality(Asks(pending, id)) + Ones(m, id)
    <3>1. <<waiting>> \in Seq(Anyone) /\ Cardinality(Asks(<<waiting>>, id)) = Ones(m, id)
      BY <2>1, <2>2, AsksOfOne
    <3> DEFINE w == <<waiting>>
    <3>0. w \in Seq(Anyone)
      BY <3>1
    <3> HIDE DEF w
    <3>2. Cardinality(Asks(pending \o w, id)) = Cardinality(Asks(pending, id)) + Cardinality(Asks(w, id))
      <4>1. pending \in Seq(Anyone)
        BY <1>2
      <4> QED
        BY <3>0, <4>1, AsksOfConcat
    <3>3. pending' = pending \o w
      <4>1. pending' = pending \o <<waiting>>
        BY <2>2
      <4> QED
        BY <4>1 DEF w
    <3>4. Cardinality(Asks(w, id)) = Ones(m, id)
      BY <3>1 DEF w
    <3> QED
      BY <3>2, <3>3, <3>4
  <2>5. Framed'
    BY <1>1, <1>3, <1>7, <2>3 DEF IInv, Framed, client
  <2>6. \A id \in Id : Served(id)' = Served(id) /\ Ones(m, id) \in Nat
    BY <1>7 DEF Served, Ones
  <2>7. Accounted'
    BY <1>4, <1>5, <2>4, <2>5, <2>6, Balanced DEF IInv, Numbers
  <2> QED
    BY <1>7, <2>5, <2>7 DEF IInv, HeldLives
<1>8. CASE m.type \in {"promise", "listen"} /\ Execute(<<m>>) /\ UNCHANGED pending
  <2>1. /\ <<m>> \in Seq(Anyone) /\ \A id : Cardinality(Asks(<<m>>, id)) = Ones(m, id)
        /\ \A i \in DOMAIN <<m>> : <<m>>[i].type \in {"promise", "listen"}
    BY <1>3, <1>8, AsksOfOne DEF Anyone
  <2>2. /\ executing' \subseteq running' /\ running' \subseteq Call
        /\ runs' \in [Call -> Nat] /\ subs' \in [Evt -> Nat] /\ held' \subseteq Evt
        /\ HeldLives'
        /\ \A id \in Id : Served(id)' = Served(id) + Ones(m, id)
    BY <1>8, <2>1, Executed
  <2>3. Framed'
    BY <1>1, <1>3, <1>8, <2>2 DEF IInv, Framed, client
  <2>4. \A id \in Id : Ones(m, id) \in Nat
    BY DEF Ones
  <2>5. Accounted'
    BY <1>4, <1>5, <1>8, <2>2, <2>3, <2>4, Balanced DEF IInv, Numbers
  <2> QED
    BY <2>2, <2>3, <2>5 DEF IInv
<1>9. CASE /\ m.type = "cancel" /\ executing' = executing \ {m.id}
           /\ UNCHANGED <<pending, running, subs, held, runs>>
  <2>1. Framed'
    BY <1>1, <1>3, <1>9 DEF IInv, Framed, client
  <2>2. \A id \in Id : Cardinality(Asks(up', id)) <= Cardinality(Asks(up, id))
    BY <1>4, <1>9 DEF Ones
  <2> QED
    BY <1>1, <1>5, <1>9, <2>1, <2>2, Quiet DEF client
<1>10. CASE /\ m.type = "dispose" /\ held' = held \ {m.id} /\ subs' = Unsubscribed({m.id})
            /\ UNCHANGED <<pending, executing, running, runs>>
  <2>1. /\ subs' \in [Evt -> Nat] /\ \A e \in Evt : subs'[e] <= subs[e]
        /\ \A e \in held' : subs'[e] = subs[e]
    BY <1>10, UnsubscribedCounts
  <2>2. Framed'
    BY <1>1, <1>3, <1>10, <2>1 DEF IInv, Framed, client
  <2>3. ASSUME NEW id \in Id
        PROVE  Served(id)' <= Served(id) /\ Served(id)' \in Nat /\ Ones(m, id) = 0
    <3>1. Ones(m, id) = 0
      BY <1>10 DEF Ones
    <3>2. Numbers(id)
      BY Numbered DEF IInv
    <3>3. CASE id \in Call
      <4>1. Served(id)' = Served(id)
        BY <1>10, <3>3 DEF Served
      <4> QED
        BY <3>1, <3>2, <4>1 DEF Numbers
    <3>4. CASE id \notin Call
      <4>1. id \in Evt /\ Served(id)' = subs'[id] /\ Served(id) = subs[id]
        BY <3>4 DEF Served, Id
      <4> QED
        BY <2>1, <3>1, <4>1
    <3> QED
      BY <3>3, <3>4
  <2>4. Accounted'
    BY <1>4, <1>5, <1>10, <2>2, <2>3, Balanced DEF IInv, Numbers
  <2> QED
    BY <1>10, <2>1, <2>2, <2>4 DEF IInv, HeldLives
<1> QED
  BY <1>6, <1>7, <1>8, <1>9, <1>10

----------------------------------------------------------------------------
LEMMA NextStep == ASSUME IInv, [Next]_vars PROVE IInv'
<1>1. CASE UNCHANGED vars
  BY <1>1 DEF IInv, Framed, Accounted, HeldLives, Served, Asked, vars, transport, client, server, history
<1>2. CASE \E c \in Call : CallService(c) \/ Cancel(c) \/ Return(c)
  BY <1>2, CallServiceStep, CancelStep, ReturnStep
<1>3. CASE \E e \in Evt : AddListener(e) \/ RemoveListener(e) \/ Fire(e)
  BY <1>3, AddListenerStep, RemoveListenerStep, FireStep
<1>4. CASE \/ ClientReceive \/ ClientDispose \/ Ready \/ ServerReceive \/ TimeoutPending
           \/ RegisterLate \/ Flush \/ ServerDispose \/ LinkEnds
  BY <1>4, ClientReceiveStep, ClientDisposeStep, ReadyStep, ServerReceiveStep, TimeoutPendingStep,
     RegisterLateStep, FlushStep, ServerDisposeStep, LinkEndsStep
<1> QED
  BY <1>1, <1>2, <1>3, <1>4 DEF Next

LEMMA InitHolds == Init => IInv
<1> SUFFICES ASSUME Init PROVE IInv
  OBVIOUS
<1>1. up = <<>> /\ queued = <<>> /\ pending = <<>> /\ down = <<>>
  BY DEF Init
<1>2. Framed
  <2>1. up \in Seq(Frame) /\ down \in Seq(Reply) /\ queued \in Seq(Id) /\ pending \in Seq(Waiting)
    BY <1>1
  <2>2. /\ call \in [Call -> {"new"} \cup Open \cup Settled] /\ listens \in [Evt -> 0..MaxListens]
        /\ subs \in [Evt -> Nat] /\ runs \in [Call -> Nat] /\ fires \in [Evt -> 0..MaxFires]
    BY BoundAssumption DEF Init
  <2> QED
    BY <2>1, <2>2 DEF Init, Framed
<1>3. ASSUME NEW id \in Id
      PROVE  /\ Cardinality(Places(queued, id)) = 0 /\ Cardinality(Asks(up, id)) = 0
             /\ Cardinality(Asks(pending, id)) = 0 /\ Served(id) = 0 /\ Asked(id) = 0
  <2>1. Served(id) = 0 /\ Asked(id) = 0
    BY DEF Init, Served, Asked, Id
  <2> QED
    BY <1>1, <2>1, AsksOfNone
<1>4. Accounted
  BY <1>3 DEF Accounted
<1> QED
  BY <1>2, <1>4 DEF Init, IInv, HeldLives

\* What is executed was asked for.
LEMMA ServedAsAsked == ASSUME IInv, NEW id \in Id PROVE Served(id) <= Asked(id)
<1>1. Numbers(id)
  BY Numbered DEF IInv
<1> QED
  BY <1>1 DEF IInv, Accounted, Numbers

LEMMA Types == IInv => TypeOK
<1> SUFFICES ASSUME IInv PROVE TypeOK
  OBVIOUS
<1>1. up \in Seq(Request) /\ down \in Seq(Response)
  <2>1. Frame \subseteq Request /\ Reply \subseteq Response
    BY DEF Frame, Reply, Request, Response, Id
  <2> QED
    BY <2>1, SeqMonotonic DEF IInv, Framed
<1>2. pending \in Seq([type : {"promise", "listen"}, id : Id, timer : BOOLEAN])
  <2>1. Waiting \subseteq [type : {"promise", "listen"}, id : Id, timer : BOOLEAN]
    BY DEF Waiting, Id
  <2> QED
    BY <2>1, SeqMonotonic DEF IInv, Framed
<1>3. subs \in [Evt -> 0..MaxListens]
  <2>1. ASSUME NEW e \in Evt PROVE subs[e] \in 0..MaxListens
    <3>1. e \in Id /\ Served(e) = subs[e] /\ Asked(e) = listens[e]
      BY IdAssumption DEF Served, Asked, Id
    <3>2. subs[e] <= listens[e] /\ subs[e] \in Nat /\ listens[e] \in 0..MaxListens
      BY <3>1, ServedAsAsked DEF IInv, Framed
    <3> QED
      BY <3>2, BoundAssumption
  <2> QED
    BY <2>1 DEF IInv, Framed
<1> QED
  BY <1>1, <1>2, <1>3 DEF IInv, Framed, TypeOK

\* The variables keep their types: what the server disposes of it has, and it never
\* holds more subscriptions to an event than the client asked for.
THEOREM TypeCorrect == Spec => []TypeOK
<1>1. Init => IInv
  BY InitHolds
<1>2. IInv /\ [Next]_vars => IInv'
  BY NextStep
<1>3. IInv => TypeOK
  BY Types
<1> QED
  BY <1>1, <1>2, <1>3, PTL DEF Spec

\* The service is called at most once for each call.
THEOREM CallsRunOnce == Spec => []AtMostOnce
<1>1. Init => IInv
  BY InitHolds
<1>2. IInv /\ [Next]_vars => IInv'
  BY NextStep
<1>3. IInv => AtMostOnce
  <2> SUFFICES ASSUME IInv, NEW c \in Call PROVE runs[c] <= 1
    BY DEF AtMostOnce
  <2>1. c \in Id /\ Served(c) = runs[c] /\ Asked(c) \in {0, 1}
    BY DEF Served, Asked, Id
  <2> QED
    BY <2>1, ServedAsAsked DEF IInv, Framed
<1> QED
  BY <1>1, <1>2, <1>3, PTL DEF Spec

----------------------------------------------------------------------------
(* The connection controller of the /fork page.                              *)

Flying == {"loading", "dialing", "open"}

LEMMA TypeInitially == PageInit => PageTypeOK
<1> SUFFICES ASSUME PageInit PROVE PageTypeOK
  OBVIOUS
<1>1. generation \in Generation /\ faults \in 0..MaxFaults
  BY PageBoundAssumption DEF PageInit, Generation
<1>2. attempt \in [Generation -> Phase] /\ device \in [Generation -> BOOLEAN]
  BY DEF PageInit, Phase
<1> QED
  BY <1>1, <1>2 DEF PageInit, PageTypeOK, State

LEMMA TypeByStep == PageTypeOK /\ [PageNext]_pageVars => PageTypeOK'
<1> SUFFICES ASSUME PageTypeOK, [PageNext]_pageVars PROVE PageTypeOK'
  OBVIOUS
<1> USE DEF PageTypeOK, refs, page, world, Show, Advance, Fault, Timer, State, Phase
<1>1. CASE UNCHANGED pageVars
  BY <1>1 DEF pageVars
<1>2. ASSUME NEW g \in Generation, NEW state \in State, NEW why \in {"failed", "closed"},
             ScheduleRetry(g, state, why)
      PROVE  shown' \in State /\ timers' \subseteq Timer /\ tracked' \in Timer \cup {NoTimer}
  BY <1>2 DEF ScheduleRetry
<1>3. ASSUME NEW g \in Generation, Refused(g) \/ FetchSucceeds(g) \/ Initialize(g) PROVE PageTypeOK'
  BY <1>3 DEF Refused, FetchSucceeds, Initialize
<1>11. ASSUME NEW g \in Generation, SocketOpens(g) PROVE PageTypeOK'
  <2>1. /\ timers' \subseteq Timer /\ tracked' \in Timer \cup {NoTimer} /\ shown' \in State
        /\ attempt' \in [Generation -> Phase]
    BY <1>11 DEF SocketOpens
  <2> QED
    BY <1>11, <2>1 DEF SocketOpens
<1>4. ASSUME NEW g \in Generation, FetchFails(g) PROVE PageTypeOK'
  BY <1>2, <1>4, PageBoundAssumption DEF FetchFails
<1>5. ASSUME NEW g \in Generation, SocketFails(g) PROVE PageTypeOK'
  BY <1>2, <1>5, PageBoundAssumption DEF SocketFails
<1>6. ASSUME NEW g \in Generation, SocketCloses(g) PROVE PageTypeOK'
  BY <1>2, <1>6, PageBoundAssumption DEF SocketCloses
<1>7. CASE Retry
  <2>1. PICK left \in SUBSET timers : Connect(left)
    BY <1>7 DEF Retry
  <2>2. generation' \in Generation /\ timers' \subseteq Timer /\ shown' \in State
    BY <2>1, PageBoundAssumption DEF Connect, Generation
  <2>3. attempt' \in [Generation -> Phase]
    BY <2>1 DEF Connect
  <2> QED
    BY <1>7, <2>2, <2>3 DEF Retry
<1>8. CASE RestoredEnds
  BY <1>8 DEF RestoredEnds
<1>9. CASE Unmount
  <2>1. generation' \in Generation
    BY <1>9, PageBoundAssumption DEF Unmount, Generation
  <2>2. attempt' \in [Generation -> Phase]
    BY <1>9 DEF Unmount
  <2> QED
    BY <1>9, <2>1, <2>2 DEF Unmount
<1>10. CASE MacChanges
  BY <1>10, PageBoundAssumption DEF MacChanges
<1> QED
  BY <1>1, <1>3, <1>4, <1>5, <1>6, <1>7, <1>8, <1>9, <1>10, <1>11 DEF PageNext

\* The variables of the controller keep their types, for any number of generations and
\* faults (customForkRemoteApp.tsx).
THEOREM PageTypeCorrect == PageSpec => []PageTypeOK
BY TypeInitially, TypeByStep, PTL DEF PageSpec

----------------------------------------------------------------------------
\* Why attempts are single-flight: only the attempt of the controller's generation
\* is in flight; retries are of that generation and only once its dial is over; and
\* the later of two retries is the one timerRef knows, which connect clears.
Single ==
  mounted =>
    /\ \A g \in Generation : attempt[g] \in Flying => g = generation
    /\ \A t \in Retries : t[1] = generation /\ attempt[generation] \in {"failed", "ended"}
    /\ \A t \in timers : t[2] = "closed" => tracked = t /\ attempt[generation] = "ended"

LEMMA SingleInitially == PageInit => Single
BY DEF PageInit, Single, Retries, Flying

LEMMA SingleByStep == PageTypeOK /\ Single /\ [PageNext]_pageVars => Single'
<1> SUFFICES ASSUME PageTypeOK, Single, [PageNext]_pageVars, mounted' PROVE Single'
  BY DEF Single
<1> USE DEF refs, page, world, Advance, Retries, Flying
<1>0. mounted
  BY DEF PageNext, pageVars, Refused, FetchFails, FetchSucceeds, SocketOpens, SocketFails, SocketCloses,
         Initialize, Retry, RestoredEnds, Unmount, MacChanges
<1>1. CASE UNCHANGED pageVars
  BY <1>1 DEF pageVars, Single
<1>2. ASSUME NEW g \in Generation, Refused(g) \/ FetchSucceeds(g) PROVE Single'
  BY <1>0, <1>2 DEF Refused, FetchSucceeds, Single, PageTypeOK
<1>3. ASSUME NEW g \in Generation, SocketOpens(g) PROVE Single'
  BY <1>0, <1>3 DEF SocketOpens, Single, PageTypeOK
<1>4. ASSUME NEW g \in Generation, FetchFails(g) PROVE Single'
  BY <1>0, <1>4 DEF FetchFails, ScheduleRetry, Single, PageTypeOK
<1>5. ASSUME NEW g \in Generation, SocketFails(g) PROVE Single'
  BY <1>0, <1>5 DEF SocketFails, ScheduleRetry, Single, PageTypeOK
<1>6. ASSUME NEW g \in Generation, SocketCloses(g) PROVE Single'
  BY <1>0, <1>6 DEF SocketCloses, ScheduleRetry, Single, PageTypeOK
<1>7. ASSUME NEW g \in Generation, Initialize(g) PROVE Single'
  BY <1>0, <1>7 DEF Initialize, Single
<1>8. CASE Retry
  <2>1. PICK t \in timers : /\ t[2] # "restored"
                            /\ t[2] = "closed" => <<t[1], "failed">> \notin timers
                            /\ Connect(timers \ {t})
    BY <1>8 DEF Retry
  <2>2. /\ t[1] = generation /\ attempt[generation] \in {"failed", "ended"}
        /\ t = <<generation, t[2]>> /\ t[2] \in {"failed", "closed"}
    BY <1>0, <2>1 DEF Single, PageTypeOK, Timer
  <2>3. /\ generation' = generation + 1 /\ timers' = timers \ {t, tracked} /\ tracked' = tracked
        /\ attempt' = [attempt EXCEPT ![generation + 1] = "loading"]
    BY <1>8, <2>1 DEF Connect, Retry
  <2>4. \A s \in Retries : s = <<generation, s[2]>> /\ s[2] \in {"failed", "closed"}
    BY <1>0 DEF Single, PageTypeOK, Timer
  <2>5. \A s \in timers' : s[2] = "restored"
    BY <1>0, <2>1, <2>2, <2>3, <2>4 DEF Single
  <2>6. \A g \in Generation : attempt'[g] \in Flying => g = generation'
    BY <1>0, <2>2, <2>3 DEF Single, PageTypeOK
  <2> QED
    BY <2>5, <2>6 DEF Single
<1>9. CASE RestoredEnds
  BY <1>0, <1>9 DEF RestoredEnds, Single
<1>10. CASE Unmount
  BY <1>10 DEF Unmount
<1>11. CASE MacChanges
  BY <1>0, <1>11 DEF MacChanges, Single
<1> QED
  BY <1>1, <1>2, <1>3, <1>4, <1>5, <1>6, <1>7, <1>8, <1>9, <1>10, <1>11 DEF PageNext

LEMMA SingleIsEnough == PageTypeOK /\ Single => SingleFlight
<1> SUFFICES ASSUME PageTypeOK, Single, mounted
             PROVE  Cardinality(InFlight) <= 1 /\ (Retries # {} => InFlight = {})
  BY DEF SingleFlight
<1>1. InFlight \subseteq {generation}
  BY DEF Single, InFlight, Flying
<1>2. IsFiniteSet({generation}) /\ Cardinality({generation}) = 1
  BY FS_Singleton
<1>3. Cardinality(InFlight) <= 1
  BY <1>1, <1>2, FS_Subset
<1>4. Retries # {} => InFlight = {}
  BY <1>1 DEF Single, InFlight
<1> QED
  BY <1>3, <1>4

\* Reconnect attempts of a mounted page are single-flight for any number of generations
\* and faults: a second attempt never begins beside one that fetches, dials or is open.
THEOREM AttemptsSingleFlight == PageSpec => []SingleFlight
<1>1. PageInit => PageTypeOK /\ Single
  BY TypeInitially, SingleInitially
<1>2. (PageTypeOK /\ Single) /\ [PageNext]_pageVars => (PageTypeOK /\ Single)'
  BY TypeByStep, SingleByStep
<1> QED
  BY <1>1, <1>2, SingleIsEnough, PTL DEF PageSpec
=============================================================================
