------------------------ MODULE ConversationSync_proofs ------------------------
(* The page, the agent's topic and the channels between them implement          *)
(* ConversationPromise: for every log, hidden events, retention, buffer, number *)
(* of runtimes and of disturbances, and whatever disturbances come together,    *)
(* the page shows a prefix of one runtime's log and never goes back.            *)
(*                                                                              *)
(* The argument.  A frame that was sent, waits at the barrier or is reserved    *)
(* shows a stretch of the log it names (TrueFrame); frames reach further the    *)
(* later they are sent (Ordered); the subscription's buffer holds all there is  *)
(* of the log behind what it was sent, or it owes a snapshot (Serving); an ACK  *)
(* names a subscription later than the page's (AcksGood); and the frames the    *)
(* page may yet take reach at least as far as what it shows (AheadGood).        *)
(*                                                                              *)
(* And when nothing is on its way, a live page holds the subscription that the  *)
(* agent serves and the host routes.  Replies, the one that is reserved and the *)
(* requests behind them are one line: what is answered takes the place of what  *)
(* was asked.  In it the connect that counts is the last subscribe, a live page *)
(* has none, and what is cancelled is older than what is acknowledged or shown  *)
(* (Lined); what a live page serves, or the ACK it waits for names, is what the *)
(* agent serves, unless the page has yet to hear that the runtime died (Held).  *)
EXTENDS ConversationSync, Subsequence_proofs

----------------------------------------------------------------------------
(* What is shown of a log.                                                   *)

\* What is kept of a sequence with one more element.
LEMMA OnlyAppend ==
  ASSUME NEW S, NEW s \in Seq(S), NEW e \in S, NEW T
  PROVE  Only(Append(s, e), T) = IF e \in T THEN Append(Only(s, T), e) ELSE Only(s, T)
<1> DEFINE t == Append(s, e)
           N == Len(s)
<1>1. /\ N \in Nat /\ t \in Seq(S) /\ Len(t) = N + 1 /\ t[N + 1] = e
      /\ \A i \in 1..N : t[i] = s[i]
  BY AppendProperties
<1> HIDE DEF t
<1>2. PICK k : /\ k = [n \in 0..Len(s) |->
                         IF n = 0 THEN <<>>
                         ELSE IF s[n] \in T THEN Append(k[n - 1], s[n]) ELSE k[n - 1]]
               /\ Only(s, T) = k[Len(s)]
  BY OnlyDefined
<1>3. PICK h : /\ h = [n \in 0..Len(t) |->
                         IF n = 0 THEN <<>>
                         ELSE IF t[n] \in T THEN Append(h[n - 1], t[n]) ELSE h[n - 1]]
               /\ Only(t, T) = h[Len(t)]
  BY <1>1, OnlyDefined
<1>4. \A n \in 0..N : k[n] = IF n = 0 THEN <<>>
                             ELSE IF s[n] \in T THEN Append(k[n - 1], s[n]) ELSE k[n - 1]
  BY <1>2
<1>5. \A n \in 0..(N + 1) : h[n] = IF n = 0 THEN <<>>
                                   ELSE IF t[n] \in T THEN Append(h[n - 1], t[n]) ELSE h[n - 1]
  BY <1>1, <1>3
<1> DEFINE D == {n \in 0..N : h[n] = k[n]}
<1>6. 0 \in D
  BY <1>1, <1>4, <1>5
<1>7. ASSUME NEW n \in 0..(N - 1), n \in D PROVE n + 1 \in D
  <2>1. n + 1 \in 1..N /\ n + 1 \in 0..N /\ n + 1 \in 0..(N + 1) /\ n + 1 # 0 /\ (n + 1) - 1 = n
    BY <1>1
  <2>2. t[n + 1] = s[n + 1]
    BY <1>1, <2>1
  <2> QED
    BY <1>4, <1>5, <1>7, <2>1, <2>2
<1>8. N \in D
  <2> HIDE DEF D, N
  <2>1. 0..N \subseteq D
    BY <1>1, <1>6, <1>7, UpTo
  <2> QED
    BY <1>1, <2>1
<1>9. h[N + 1] = IF e \in T THEN Append(h[N], e) ELSE h[N]
  <2>1. N + 1 \in 0..(N + 1) /\ N + 1 # 0 /\ (N + 1) - 1 = N
    BY <1>1
  <2> QED
    BY <1>1, <1>5, <2>1
<1> QED
  BY <1>1, <1>2, <1>3, <1>8, <1>9 DEF t

\* Of nothing nothing is kept.
LEMMA OnlyOfNothing == ASSUME NEW T PROVE Only(<<>>, T) = <<>>
<1>1. <<>> \in Seq({}) /\ Len(<<>>) = 0
  OBVIOUS
<1>2. Only(<<>>, T) \in Seq({} \cap T)
  BY <1>1, OnlyEmbeds
<1> DEFINE t == Only(<<>>, T)
<1> HIDE DEF t
<1>3. t \in Seq({} \cap T)
  BY <1>2 DEF t
<1>4. ASSUME t # <<>> PROVE FALSE
  <2>1. t[1] \in {} \cap T
    BY <1>3, <1>4
  <2> QED
    BY <2>1
<1> QED
  BY <1>4 DEF t

\* An element behind two sequences is one behind the second.
LEMMA AppendBehind ==
  ASSUME NEW S, NEW u \in Seq(S), NEW v \in Seq(S), NEW e \in S
  PROVE  u \o Append(v, e) = Append(u \o v, e)
<1>1. u \o v \in Seq(S) /\ <<e>> \in Seq(S)
  BY ConcatProperties
<1>2. Append(v, e) = v \o <<e>> /\ Append(u \o v, e) = (u \o v) \o <<e>>
  BY <1>1, AppendIsConcat
<1> QED
  BY <1>1, <1>2, ConcatAssociative

\* What is kept of two sequences, one behind the other.
LEMMA OnlyJoins ==
  ASSUME NEW S, NEW s \in Seq(S), NEW t \in Seq(S), NEW T
  PROVE  Only(s \o t, T) = Only(s, T) \o Only(t, T)
<1> DEFINE N == Len(t)
           first(n) == SubSeq(t, 1, n)
           D == {n \in 0..N : Only(s \o first(n), T) = Only(s, T) \o Only(first(n), T)}
<1>1. N \in Nat /\ Only(s, T) \in Seq(S \cap T)
  BY OnlyEmbeds
<1>2. 0 \in D
  <2>1. first(0) = <<>>
    BY SubSeqEmpty
  <2>2. s \o <<>> = s /\ Only(s, T) \o <<>> = Only(s, T)
    BY <1>1, ConcatEmptySeq
  <2>3. Only(s \o first(0), T) = Only(s, T) \o Only(first(0), T)
    BY <2>1, <2>2, OnlyOfNothing
  <2> QED
    BY <1>1, <2>3
<1>3. ASSUME NEW m \in 0..(N - 1), m \in D PROVE m + 1 \in D
  <2>1. m + 1 \in 1..N /\ m + 1 \in 0..N /\ m \in Nat /\ t[m + 1] \in S
    BY <1>1
  <2>2. first(m) \in Seq(S) /\ first(m + 1) = Append(first(m), t[m + 1])
    <3>0. \A i \in 1..m : t[i] \in S
      BY <1>1, <2>1
    <3>1. first(m) \in Seq(S) /\ 1 \in 1..Len(t) /\ m + 1 \in 1..Len(t) /\ (m + 1) - 1 = m
      BY <2>1, <3>0, SubSeqProperties
    <3>2. first(m + 1) = SubSeq(t, 1, (m + 1) - 1) \o << t[m + 1] >>
      BY <3>1, SubSeqRecursiveSecond
    <3> HIDE DEF first
    <3>3. first(m + 1) = first(m) \o << t[m + 1] >>
      BY <3>1, <3>2 DEF first
    <3> QED
      BY <2>1, <3>1, <3>3, AppendIsConcat
  <2> DEFINE f == first(m)
             e == t[m + 1]
  <2> HIDE DEF f, e
  <2>3. f \in Seq(S) /\ e \in S /\ s \o f \in Seq(S)
    BY <2>1, <2>2, ConcatProperties DEF f, e
  <2>4. s \o Append(f, e) = Append(s \o f, e)
    BY <2>3, AppendBehind
  <2>5. /\ Only(Append(f, e), T) = IF e \in T THEN Append(Only(f, T), e) ELSE Only(f, T)
        /\ Only(Append(s \o f, e), T) = IF e \in T THEN Append(Only(s \o f, T), e) ELSE Only(s \o f, T)
    BY <2>3, OnlyAppend
  <2>6. Only(f, T) \in Seq(S) /\ Only(s, T) \in Seq(S)
    <3>1. Only(f, T) \in Seq(S \cap T)
      BY <2>3, OnlyEmbeds
    <3> QED
      BY <1>1, <3>1, SeqMonotonic
  <2>7. Only(s \o f, T) = Only(s, T) \o Only(f, T)
    BY <1>3 DEF f
  <2> DEFINE u == Only(s, T)
             v == Only(f, T)
  <2>8. Append(u \o v, e) = u \o Append(v, e)
    <3> HIDE DEF u, v
    <3>1. u \in Seq(S) /\ v \in Seq(S)
      BY <2>6 DEF u, v
    <3> QED
      BY <2>3, <3>1, AppendBehind
  <2>9. Only(s \o Append(f, e), T) = Only(s, T) \o Only(Append(f, e), T)
    BY <2>4, <2>5, <2>7, <2>8
  <2> QED
    BY <2>1, <2>2, <2>9 DEF f, e
<1>4. N \in D
  <2> HIDE DEF D, N
  <2>1. 0..N \subseteq D
    BY <1>1, <1>2, <1>3, UpTo
  <2> QED
    BY <1>1, <2>1
<1>5. first(N) = t
  BY SubSeqFull
<1> QED
  BY <1>4, <1>5

\* A stretch of a log.
Stretch(l, from, to) == l \in Seq(Event) /\ from \in Nat /\ to \in Nat /\ from <= to /\ to <= Len(l)

\* What is shown of a log are events.
LEMMA ShownTyped ==
  ASSUME NEW l, NEW from, NEW to, Stretch(l, from, to)
  PROVE  Shown(l, from, to) \in Seq(Event)
<1>1. SubSeq(l, from + 1, to) \in Seq(Event)
  BY SubSeqProperties DEF Stretch
<1>2. Only(SubSeq(l, from + 1, to), Visible) \in Seq(Event \cap Visible)
  BY <1>1, OnlyEmbeds
<1> QED
  BY <1>2, SeqMonotonic DEF Shown

\* Between an event and itself nothing is shown.
LEMMA ShownOfNothing ==
  ASSUME NEW l \in Seq(Event), NEW n \in Nat
  PROVE  Shown(l, n, n) = <<>>
<1>1. SubSeq(l, n + 1, n) = <<>>
  BY SubSeqEmpty
<1> QED
  BY <1>1, OnlyOfNothing DEF Shown

\* What is shown of two stretches, one behind the other, is what is shown of both.
LEMMA ShownJoins ==
  ASSUME NEW l, NEW from, NEW mid, NEW to, Stretch(l, from, mid), Stretch(l, mid, to)
  PROVE  Shown(l, from, mid) \o Shown(l, mid, to) = Shown(l, from, to)
<1> DEFINE s == SubSeq(l, from + 1, mid)
           t == SubSeq(l, mid + 1, to)
<1>1. s \in Seq(Event) /\ t \in Seq(Event)
  BY SubSeqProperties DEF Stretch
<1>2. s \o t = SubSeq(l, from + 1, to)
  <2>1. /\ l \in Seq(Event) /\ from + 1 \in 1..Len(l) + 1 /\ mid \in (from + 1) - 1 .. Len(l)
        /\ to \in mid..Len(l)
    BY DEF Stretch
  <2> QED
    BY <2>1, ConcatAdjacentSubSeq
<1> HIDE DEF s, t
<1>3. Only(s \o t, Visible) = Only(s, Visible) \o Only(t, Visible)
  BY <1>1, OnlyJoins
<1> QED
  BY <1>2, <1>3 DEF Shown, s, t

\* A log that grows shows what it showed, and the new event if it is not hidden.
LEMMA ShownGrows ==
  ASSUME NEW l, NEW from, NEW to, NEW e \in Event, Stretch(l, from, to)
  PROVE  /\ Shown(Append(l, e), from, to) = Shown(l, from, to)
         /\ Shown(Append(l, e), from, Len(l) + 1)
              = IF e \in Visible THEN Append(Shown(l, from, Len(l)), e) ELSE Shown(l, from, Len(l))
<1> DEFINE n == Len(l)
           s == SubSeq(l, from + 1, n)
<1>1. /\ l \in Seq(Event) /\ from \in Nat /\ to \in Nat /\ from <= to /\ to <= n /\ n \in Nat
      /\ Append(l, e) \in Seq(Event) /\ Len(Append(l, e)) = n + 1
      /\ s \in Seq(Event)
  BY SubSeqProperties, AppendProperties DEF Stretch
<1>2. SubSeq(Append(l, e), from + 1, to) = SubSeq(l, from + 1, to)
  BY <1>1
<1>3. SubSeq(Append(l, e), from + 1, n + 1) = Append(s, e)
  <2> DEFINE t == Append(l, e)
  <2>1. /\ t \in Seq(Event) /\ Len(t) = n + 1 /\ t[n + 1] = e
        /\ \A i \in 1..n : t[i] = l[i]
    BY <1>1, AppendProperties
  <2>2. from + 1 \in 1..Len(t) /\ n + 1 \in from + 1..Len(t)
    BY <1>1, <2>1
  <2>3. SubSeq(t, from + 1, n + 1) = SubSeq(t, from + 1, (n + 1) - 1) \o << t[n + 1] >>
    BY <2>1, <2>2, SubSeqRecursiveSecond
  <2>4. SubSeq(t, from + 1, n) = s
    BY <1>1
  <2> HIDE DEF t, s
  <2>5. (n + 1) - 1 = n
    BY <1>1
  <2>6. SubSeq(t, from + 1, n + 1) = s \o <<e>>
    BY <2>1, <2>3, <2>4, <2>5
  <2>7. Append(s, e) = s \o <<e>>
    BY <1>1, AppendIsConcat
  <2> QED
    BY <2>6, <2>7 DEF t
<1> HIDE DEF s
<1>4. Only(Append(s, e), Visible) = IF e \in Visible THEN Append(Only(s, Visible), e) ELSE Only(s, Visible)
  BY <1>1, OnlyAppend
<1> QED
  BY <1>2, <1>3, <1>4 DEF Shown, s

----------------------------------------------------------------------------
(* The types.                                                                *)

Damage == {"none", "corrupt", "partial"}
Mode == {"resume", "snapshot"}
Base == [epoch : Nat, seq : Nat]
View == [epoch : Nat, seq : Nat, rows : Seq(Event)]

TopicFrame ==
  [type : {"frame"}, damage : Damage, kind : Kind, sub : Nat, ord : Nat,
   epoch : Nat, from : Nat, to : Nat, rows : Seq(Event), snap : BOOLEAN]
Message == TopicFrame \cup [type : {"unavailable", "restarted", "available"}]
Request ==
  [type : {"subscribe"}, id : Nat, base : Base]
    \cup [type : {"resync"}, id : Nat, sub : Nat \ {0}, base : Base, force : BOOLEAN]
    \cup [type : {"unsubscribe"}, sub : Nat]
Why == {"notOwned", "recycled"}
Reply ==
  [type : {"subscribed", "resynced"}, id : Nat, sub : Nat, mode : Mode, epoch : Nat]
    \cup [type : {"failed"}, id : Nat, why : Why]
Outcome ==
  [type : {"subscribed", "resynced"}, id : Nat, sub : Nat, mode : Mode, epoch : Nat,
   frame : TopicFrame \cup {NoFrame}]
    \cup [type : {"failed"}, id : Nat, why : Why, frame : {NoFrame}]
Subscription ==
  [id : Nat, buffer : Seq(Event), resync : BOOLEAN, sent : Nat, reserved : Nat, ord : Nat]

Asked ==
  [id : Nat, of : {"subscribe", "resync"}, base : Base, current : BOOLEAN, valid : BOOLEAN,
   frames : Seq(TopicFrame)]
Recovery ==
  [ack : {"waiting"} \cup Mode, force : BOOLEAN, seen : BOOLEAN, upgrade : BOOLEAN,
   gap : BOOLEAN, deadline : BOOLEAN]
Decoder == [settled : Nat, faulted : BOOLEAN, partial : TopicFrame \cup {NoPartial}]
Status == {"idle", "connecting", "live", "error", "closed"}
Client ==
  [status : Status, sub : Nat, view : View, calls : SUBSET Asked,
   awaiting : [sub : Nat, mode : Mode \cup {"none"}], based : BOOLEAN,
   recovery : Recovery \cup {NoRecovery}, retry : {"none", "armed", "stale"},
   attempts : 0..MaxAttempts, active : Nat, decoder : Decoder, heal : BOOLEAN,
   out : Seq(Request)]

\* A state of the store, between the steps of a handler.
Typed(c) ==
  /\ c \in Client /\ IsFiniteSet(c.calls)
  /\ c.recovery # NoRecovery => c.sub # None
  /\ c.decoder.partial # NoPartial => c.decoder.partial.ord > c.decoder.settled

\* d serves and shows what c does; its calls are those of c, or new.
Calm(c, d) ==
  /\ d.view = c.view /\ d.sub = c.sub /\ d.active = c.active /\ d.based = c.based
  /\ d.decoder.settled = c.decoder.settled /\ d.decoder.partial = c.decoder.partial
  /\ \A k \in d.calls :
       \/ \E j \in c.calls : k.base = j.base /\ k.frames = j.frames
       \/ k.frames = <<>> /\ k.base.epoch <= c.view.epoch
Calms(c, d) == Typed(d) /\ Calm(c, d)

\* A store is calm to itself, and calm steps compose.
LEMMA CalmSelf == ASSUME NEW c, Typed(c) PROVE Calms(c, c)
BY DEF Calms, Calm

\* Likewise.
LEMMA CalmAgain ==
  ASSUME NEW c, NEW d, NEW e, Calms(c, d), Calms(d, e)
  PROVE  Calms(c, e)
BY DEF Calms, Calm

\* A store that differs in what the page does not show.
Rest(c, d) ==
  /\ d.view = c.view /\ d.sub = c.sub /\ d.active = c.active /\ d.based = c.based
  /\ d.decoder.settled = c.decoder.settled /\ d.decoder.partial = c.decoder.partial
  /\ d.calls = c.calls

\* What the page does not show may change.
LEMMA RestIsCalm == ASSUME NEW c, NEW d, Typed(d), Rest(c, d) PROVE Calms(c, d)
BY DEF Calms, Calm, Rest

----------------------------------------------------------------------------
(* Calls.                                                                    *)

\* There is a number no call has.
LEMMA NewIdTyped == ASSUME NEW c, Typed(c) PROVE NewId(c) \in Nat
<1> DEFINE n == Cardinality(c.calls)
           ids == {k.id : k \in c.calls}
<1>1. IsFiniteSet(c.calls) /\ n \in Nat
  BY FS_CardinalityType DEF Typed
<1>2. IsFiniteSet(ids) /\ Cardinality(ids) <= n
  <2> DEFINE f == [k \in c.calls |-> k.id]
  <2>1. f \in Surjection(c.calls, ids)
    BY DEF Surjection
  <2> HIDE DEF f, ids, n
  <2> QED
    BY <1>1, <2>1, FS_Surjection DEF n
<1>3. IsFiniteSet(1..n + 1) /\ Cardinality(1..n + 1) = n + 1
  <2>1. 1 \in Int /\ n + 1 \in Int
    BY <1>1
  <2>2. Cardinality(1..n + 1) = IF 1 > n + 1 THEN 0 ELSE (n + 1) - 1 + 1
    BY <2>1, FS_Interval
  <2> HIDE DEF n
  <2> QED
    BY <1>1, <2>1, <2>2, FS_Interval
<1>4. \E i \in 1..n + 1 : i \notin ids
  <2> SUFFICES ASSUME 1..n + 1 \subseteq ids PROVE FALSE
    OBVIOUS
  <2> HIDE DEF n, ids
  <2>1. Cardinality(1..n + 1) <= Cardinality(ids)
    BY <1>2, FS_Subset
  <2>2. Cardinality(ids) \in Nat
    BY <1>2, FS_CardinalityType
  <2> QED
    BY <1>1, <1>2, <1>3, <2>1, <2>2
<1>5. \E i \in 1..n + 1 : \A k \in c.calls : k.id # i
  BY <1>4
<1>6. NewId(c) \in 1..n + 1
  BY <1>5 DEF NewId
<1> HIDE DEF n
<1> QED
  BY <1>1, <1>6

\* A new call has no frames yet.
LEMMA CallTyped ==
  ASSUME NEW c, Typed(c), NEW of \in {"subscribe", "resync"}, NEW base \in Base
  PROVE  /\ Call(c, of, base) \in Asked /\ Call(c, of, base).id \in Nat
         /\ Call(c, of, base).base = base /\ Call(c, of, base).frames = <<>>
BY NewIdTyped DEF Call, Asked

\* The bases a call is made from.
LEMMA BasesTyped ==
  ASSUME NEW c, Typed(c)
  PROVE  /\ NoBase \in Base /\ NoBase.epoch <= c.view.epoch
         /\ BaseOf(c.view) \in Base /\ BaseOf(c.view).epoch <= c.view.epoch
BY DEF Typed, Client, View, Base, NoBase, BaseOf, None

\* A finite set of calls, each changed.
LEMMA CallsChanged ==
  ASSUME NEW calls, IsFiniteSet(calls), NEW f, f = [k \in calls |-> f[k]]
  PROVE  IsFiniteSet({f[k] : k \in calls})
<1> DEFINE new == {f[k] : k \in calls}
<1>1. f \in Surjection(calls, new)
  BY DEF Surjection
<1> HIDE DEF new
<1> QED
  BY <1>1, FS_Surjection DEF new

----------------------------------------------------------------------------
(* What a handler does besides: it sends, outdates calls, recovers.          *)

\* Calls are outdated, the recovery given up, a connect generation begun.
LEMMA OutdatedCalm ==
  ASSUME NEW c, Typed(c), NEW of
  PROVE  Calms(c, Outdated(c, of)) /\ Outdated(c, of).recovery = c.recovery
<1> DEFINE f == [k \in c.calls |-> [k EXCEPT !.current = @ /\ k.of # of]]
           new == {[k EXCEPT !.current = @ /\ k.of # of] : k \in c.calls}
           d == [c EXCEPT !.calls = new]
<1>1. IsFiniteSet(new)
  <2>1. IsFiniteSet({f[k] : k \in c.calls})
    <3>1. f = [k \in c.calls |-> f[k]] /\ IsFiniteSet(c.calls)
      BY DEF Typed
    <3> HIDE DEF f
    <3> QED
      BY <3>1, CallsChanged
  <2>2. {f[k] : k \in c.calls} = new
    OBVIOUS
  <2> QED
    BY <2>1, <2>2
<1>2. ASSUME NEW k \in c.calls PROVE [k EXCEPT !.current = @ /\ k.of # of] \in Asked
  <2>1. k \in Asked
    BY DEF Typed, Client
  <2>2. (k.current /\ k.of # of) \in BOOLEAN
    OBVIOUS
  <2> QED
    BY <2>1, <2>2 DEF Asked
<1>3. \A j \in new : \E k \in c.calls : j.base = k.base /\ j.frames = k.frames
  BY DEF Typed, Client, Asked
<1>4. new \subseteq Asked
  BY <1>2
<1> HIDE DEF new, f
<1>5. d \in Client /\ d.calls = new
  BY <1>4 DEF Typed, Client
<1>6. /\ d.view = c.view /\ d.sub = c.sub /\ d.active = c.active /\ d.based = c.based
      /\ d.decoder = c.decoder /\ d.recovery = c.recovery
  BY DEF Typed, Client
<1> HIDE DEF d
<1>7. Typed(d)
  BY <1>1, <1>5, <1>6 DEF Typed
<1>8. Calm(c, d)
  BY <1>3, <1>5, <1>6 DEF Calm
<1>9. Outdated(c, of) = d
  BY DEF Outdated, d, new
<1> QED
  BY <1>6, <1>7, <1>8, <1>9 DEF Calms

\* Likewise.
LEMMA DiscardCalm ==
  ASSUME NEW c, Typed(c)
  PROVE  Calms(c, DiscardRecovery(c))
<1> DEFINE d == Outdated(c, "resync")
           e == [d EXCEPT !.recovery = NoRecovery]
<1>1. Calms(c, d)
  BY OutdatedCalm
<1> HIDE DEF d
<1>2. Typed(e) /\ Rest(d, e)
  BY <1>1 DEF Calms, Typed, Client, Rest
<1> HIDE DEF e
<1>3. Calms(c, e)
  BY <1>1, <1>2, RestIsCalm, CalmAgain
<1> QED
  BY <1>3 DEF DiscardRecovery, d, e

\* Likewise.
LEMMA GenerationCalm ==
  ASSUME NEW c, Typed(c)
  PROVE  Calms(c, NewGeneration(c))
<1> DEFINE d == Outdated(c, "subscribe")
           e == [d EXCEPT !.retry = IF @ = "armed" THEN "stale" ELSE @]
<1>1. Calms(c, d)
  BY OutdatedCalm
<1> HIDE DEF d
<1>2. Typed(e) /\ Rest(d, e)
  BY <1>1 DEF Calms, Typed, Client, Rest
<1> HIDE DEF e
<1>3. Calms(c, e)
  BY <1>1, <1>2, RestIsCalm, CalmAgain
<1> QED
  BY <1>3 DEF NewGeneration, d, e

\* A request with its call.
LEMMA SentCalm ==
  ASSUME NEW c, Typed(c), NEW call \in Asked, NEW request \in Request,
         call.frames = <<>>, call.base.epoch <= c.view.epoch
  PROVE  Calms(c, Sent(c, call, request)) /\ Sent(c, call, request).recovery = c.recovery
<1> DEFINE d == Sent(c, call, request)
<1>1. IsFiniteSet(c.calls \cup {call})
  BY FS_AddElement DEF Typed
<1>2. Append(c.out, request) \in Seq(Request)
  BY DEF Typed, Client
<1>3. d = [c EXCEPT !.calls = c.calls \cup {call}, !.out = Append(c.out, request)]
  BY DEF Sent, Typed, Client
<1>4. c \in Client /\ c.calls \cup {call} \subseteq Asked
  BY DEF Typed, Client
<1> HIDE DEF d
<1>5. /\ d \in Client /\ d.calls = c.calls \cup {call}
      /\ d.view = c.view /\ d.sub = c.sub /\ d.active = c.active /\ d.based = c.based
      /\ d.decoder = c.decoder /\ d.recovery = c.recovery
  BY <1>2, <1>3, <1>4 DEF Client
<1>6. Typed(d)
  BY <1>1, <1>5 DEF Typed
<1>7. Calm(c, d)
  BY <1>5 DEF Calm
<1> QED
  BY <1>5, <1>6, <1>7 DEF Calms, d

\* A cancellation is sent.
LEMMA UnsubscribeCalm ==
  ASSUME NEW c, Typed(c), NEW s \in Nat
  PROVE  Calms(c, Unsubscribe(c, s))
<1> DEFINE d == Unsubscribe(c, s)
<1>1. Append(c.out, [type |-> "unsubscribe", sub |-> s]) \in Seq(Request)
  BY DEF Typed, Client, Request
<1>2. Typed(d) /\ Rest(c, d)
  BY <1>1 DEF Unsubscribe, Typed, Client, Rest
<1> QED
  BY <1>2, RestIsCalm

----------------------------------------------------------------------------
(* connect and recovery.                                                     *)

\* connect, and the reconnect that may be scheduled instead.
LEMMA ConnectCalm ==
  ASSUME NEW c, Typed(c), NEW force \in BOOLEAN
  PROVE  Calms(c, Connect(c, force))
<1> DEFINE c1 == NewGeneration(DiscardRecovery(c))
           base == IF force THEN NoBase ELSE BaseOf(c.view)
           call == Call(c1, "subscribe", base)
           c2 == [c1 EXCEPT !.status = "connecting"]
           request == [type |-> "subscribe", id |-> call.id, base |-> call.base]
<1>1. Calms(c, c1)
  <2> DEFINE d == DiscardRecovery(c)
  <2>1. Calms(c, d)
    BY DiscardCalm
  <2> HIDE DEF d
  <2>2. Calms(d, NewGeneration(d))
    BY <2>1, GenerationCalm DEF Calms
  <2>3. Calms(c, NewGeneration(d))
    BY <2>1, <2>2, CalmAgain
  <2> QED
    BY <2>3 DEF d
<1>2. base \in Base /\ base.epoch <= c.view.epoch
  BY BasesTyped
<1> HIDE DEF c1, base
<1>3. call \in Asked /\ call.id \in Nat /\ call.base = base /\ call.frames = <<>>
  BY <1>1, <1>2, CallTyped DEF Calms
<1> HIDE DEF call
<1>4. request \in Request
  BY <1>2, <1>3 DEF Request
<1>5. Calms(c, c2)
  <2>1. Typed(c2) /\ Rest(c1, c2)
    BY <1>1 DEF Calms, Typed, Client, Rest, Status
  <2> HIDE DEF c2
  <2> QED
    BY <1>1, <2>1, RestIsCalm, CalmAgain
<1> HIDE DEF c2, request
<1>6. Calms(c2, Sent(c2, call, request))
  <2>1. Typed(c2) /\ call.base.epoch <= c2.view.epoch
    BY <1>2, <1>3, <1>5 DEF Calms, Calm
  <2> QED
    BY <1>3, <1>4, <2>1, SentCalm
<1>7. Calms(c, Sent(c2, call, request))
  BY <1>5, <1>6, CalmAgain
<1>8. Connect(c, force) = IF Closed(c) THEN c ELSE Sent(c2, call, request)
  BY DEF Connect, c1, c2, call, request, base
<1> QED
  BY <1>7, <1>8, CalmSelf

\* Likewise.
LEMMA ReconnectCalm ==
  ASSUME NEW c, Typed(c)
  PROVE  Calms(c, Reconnect(c))
<1> DEFINE d == Reconnect(c)
<1>1. Typed(d) /\ Rest(c, d)
  <2>1. CASE c.attempts < MaxAttempts
    <3>1. c.attempts + 1 \in 0..MaxAttempts
      BY <2>1, StoreAssumption DEF Typed, Client
    <3> QED
      BY <2>1, <3>1 DEF Reconnect, Typed, Client, Rest, Status
  <2>2. CASE ~(c.attempts < MaxAttempts)
    BY <2>2 DEF Reconnect, Typed, Client, Rest, Status
  <2> QED
    BY <2>1, <2>2
<1> QED
  BY <1>1, RestIsCalm

\* A recovery that failed leaves the page with an error.
LEMMA FailRecoveryCalm ==
  ASSUME NEW c, Typed(c)
  PROVE  Calms(c, FailRecovery(c))
<1> DEFINE d == DiscardRecovery(c)
           e == [d EXCEPT !.status = "error"]
<1>1. Calms(c, d)
  BY DiscardCalm
<1> HIDE DEF d
<1>2. Typed(e) /\ Rest(d, e)
  BY <1>1 DEF Calms, Typed, Client, Rest, Status
<1> HIDE DEF e
<1>3. Calms(c, e)
  BY <1>1, <1>2, RestIsCalm, CalmAgain
<1> QED
  BY <1>3 DEF FailRecovery, d, e

\* issueRecoveryAttempt, requestRecovery, settleRecovery and markRecoveryFrameSeen.
LEMMA IssueCalm ==
  ASSUME NEW c, Typed(c), NEW force \in BOOLEAN, c.sub # None
  PROVE  Calms(c, Issue(c, force))
<1>1. CASE c.sub # c.active
  <2> DEFINE d == DiscardRecovery(c)
  <2>1. Calms(c, d)
    BY DiscardCalm
  <2> HIDE DEF d
  <2>2. Calms(d, Connect(d, FALSE))
    BY <2>1, ConnectCalm DEF Calms
  <2>3. Calms(c, Connect(d, FALSE))
    BY <2>1, <2>2, CalmAgain
  <2> QED
    BY <1>1, <2>3 DEF Issue, d
<1>2. CASE c.sub = c.active
  <2> DEFINE whole == force \/ ~c.based
             base == IF c.based THEN BaseOf(c.view) ELSE NoBase
             call == Call(c, "resync", base)
             request == [type |-> "resync", id |-> call.id, sub |-> c.sub, base |-> call.base,
                         force |-> whole]
             d == Sent(c, call, request)
             waiting == [ack |-> "waiting", force |-> whole, seen |-> FALSE,
                         upgrade |-> FALSE, gap |-> FALSE, deadline |-> FALSE]
             e == [d EXCEPT !.heal = TRUE, !.recovery = waiting]
  <2>1. base \in Base /\ base.epoch <= c.view.epoch
    BY BasesTyped
  <2>2. whole \in BOOLEAN /\ c.sub \in Nat \ {0}
    BY DEF Typed, Client, None
  <2> HIDE DEF base, whole
  <2>3. call \in Asked /\ call.id \in Nat /\ call.base = base /\ call.frames = <<>>
    BY <2>1, CallTyped
  <2> HIDE DEF call
  <2>4. request \in Request /\ waiting \in Recovery
    BY <2>1, <2>2, <2>3 DEF Request, Recovery
  <2> HIDE DEF request, waiting
  <2>5. Calms(c, d)
    BY <2>1, <2>3, <2>4, SentCalm
  <2> HIDE DEF d
  <2>6. Typed(e) /\ Rest(d, e)
    BY <2>4, <2>5 DEF Calms, Calm, Typed, Client, Rest
  <2> HIDE DEF e
  <2>7. Calms(c, e)
    BY <2>5, <2>6, RestIsCalm, CalmAgain
  <2>8. Issue(c, force) = e
    BY <1>2 DEF Issue, e, d, request, call, base, waiting, whole
  <2> QED
    BY <2>7, <2>8
<1> QED
  BY <1>1, <1>2

\* Likewise.
LEMMA RequestRecoveryCalm ==
  ASSUME NEW c, Typed(c), NEW event \in BOOLEAN
  PROVE  Calms(c, RequestRecovery(c, event))
<1>1. CASE c.sub = None
  BY <1>1, ConnectCalm DEF RequestRecovery
<1>2. CASE c.sub # None /\ c.recovery # NoRecovery
  <2> DEFINE d == [c EXCEPT !.recovery.upgrade = TRUE]
  <2>1. d.recovery = [c.recovery EXCEPT !.upgrade = TRUE] /\ d.recovery \in Recovery
    BY <1>2 DEF Typed, Client, Recovery
  <2>2. Typed(d) /\ Rest(c, d)
    BY <1>2, <2>1 DEF Typed, Client, Rest
  <2>3. Calms(c, d)
    BY <2>2, RestIsCalm
  <2>4. Calms(c, c) /\ Calms(c, FailRecovery(c)) /\ Calms(c, Issue(c, TRUE))
    BY <1>2, CalmSelf, FailRecoveryCalm, IssueCalm
  <2> HIDE DEF d
  <2>5. RequestRecovery(c, event) \in {c, d, FailRecovery(c), Issue(c, TRUE)}
    BY <1>2 DEF RequestRecovery, d
  <2> QED
    BY <2>3, <2>4, <2>5
<1>3. CASE c.sub # None /\ c.recovery = NoRecovery
  BY <1>3, IssueCalm DEF RequestRecovery
<1> QED
  BY <1>1, <1>2, <1>3

\* Likewise.
LEMMA SettleCalm ==
  ASSUME NEW c, Typed(c)
  PROVE  Calms(c, Settle(c))
<1>1. CASE c.recovery = NoRecovery
  BY <1>1, CalmSelf DEF Settle
<1>2. CASE c.recovery # NoRecovery
  <2> DEFINE d == [c EXCEPT !.recovery.deadline = TRUE]
  <2>1. d.recovery = [c.recovery EXCEPT !.deadline = TRUE] /\ d.recovery \in Recovery
    BY <1>2 DEF Typed, Client, Recovery
  <2>2. Typed(d) /\ Rest(c, d)
    BY <1>2, <2>1 DEF Typed, Client, Rest
  <2>3. Calms(c, d)
    BY <2>2, RestIsCalm
  <2>4. /\ Calms(c, c) /\ Calms(c, FailRecovery(c)) /\ Calms(c, DiscardRecovery(c))
        /\ Calms(c, Issue(c, TRUE)) /\ Calms(c, Issue(c, FALSE))
    BY <1>2, CalmSelf, FailRecoveryCalm, DiscardCalm, IssueCalm DEF Typed
  <2> HIDE DEF d
  <2>5. Settle(c) \in {c, d, FailRecovery(c), DiscardRecovery(c), Issue(c, TRUE), Issue(c, FALSE)}
    BY <1>2 DEF Settle, d
  <2> QED
    BY <2>3, <2>4, <2>5
<1> QED
  BY <1>1, <1>2

\* Likewise.
LEMMA MarkSeenCalm ==
  ASSUME NEW c, Typed(c)
  PROVE  Calms(c, MarkSeen(c))
<1>1. CASE c.recovery = NoRecovery
  BY <1>1, CalmSelf DEF MarkSeen
<1>2. CASE c.recovery # NoRecovery
  <2> DEFINE d == [c EXCEPT !.recovery.seen = TRUE]
  <2>1. d.recovery = [c.recovery EXCEPT !.seen = TRUE] /\ d.recovery \in Recovery
    BY <1>2 DEF Typed, Client, Recovery
  <2>2. Typed(d) /\ Rest(c, d)
    BY <1>2, <2>1 DEF Typed, Client, Rest
  <2>3. Calms(c, d)
    BY <2>2, RestIsCalm
  <2>4. Calms(d, Settle(d))
    BY <2>2, SettleCalm
  <2> HIDE DEF d
  <2>5. Calms(c, Settle(d))
    BY <2>3, <2>4, CalmAgain
  <2> QED
    BY <1>2, <2>5 DEF MarkSeen, d
<1> QED
  BY <1>1, <1>2

----------------------------------------------------------------------------
(* Frames, ACKs and what a store makes of them.                              *)

Before(e, n, e2, n2) == e < e2 \/ (e = e2 /\ n <= n2)

\* A frame shows a stretch of the log it names.
TrueFrame(f) ==
  /\ f.sub \in 1..nextSub - 1 /\ f.epoch \in DOMAIN logs
  /\ f.from <= f.to /\ f.to <= Len(logs[f.epoch])
  /\ f.rows = Shown(logs[f.epoch], f.from, f.to)
  /\ f.snap => f.from = 0

\* What is on its way: frames F and ACKs A of subscriptions.  A later subscription is
\* of no earlier runtime, and a later frame of a subscription ends no earlier.
Logged == logs \in Seq(Seq(Event)) /\ nextSub \in Nat \ {0}
Framed(F) == F \subseteq TopicFrame /\ \A f \in F : TrueFrame(f)
Ordered(F) ==
  \A f, g \in F :
    /\ Before(f.sub, f.ord, g.sub, g.ord) => Before(f.epoch, f.to, g.epoch, g.to)
    /\ f.sub = g.sub => f.epoch = g.epoch
Named(F, A) ==
  \A a \in A :
    /\ a.sub \in 1..nextSub - 1 /\ a.epoch \in DOMAIN logs
    /\ \A f \in F : (f.sub <= a.sub => f.epoch <= a.epoch) /\ (f.sub = a.sub => f.epoch = a.epoch)
Current(F, A) ==
  sub # NoSub =>
    /\ \A a \in A : a.sub = sub.id => a.epoch = epoch
    /\ \A f \in F : f.sub = sub.id => f.epoch = epoch
OnTheWay(F, A) == Logged /\ Framed(F) /\ Ordered(F) /\ Named(F, A) /\ Current(F, A)

\* What the page shows is the beginning of a log.
ViewTrue(c) ==
  \/ c.view = NoView
  \/ /\ c.view.epoch \in DOMAIN logs /\ c.view.seq <= Len(logs[c.view.epoch])
     /\ c.view.rows = Shown(logs[c.view.epoch], 0, c.view.seq)

\* Frames the store may yet take; they reach as far as what it shows.
Ahead(c, f, A) ==
  \/ f.sub = c.sub /\ c.active = c.sub /\ f.ord > c.decoder.settled
  \/ \E a \in A : a.sub = f.sub
CallsGood(c, F) ==
  \A k \in c.calls :
    /\ k.base.epoch <= c.view.epoch
    /\ \A i \in 1..Len(k.frames) : k.frames[i] \in F
BasedGood(c, F) ==
  c.based =>
    /\ c.sub # None /\ c.view.epoch # 0
    /\ \A f \in F : f.sub = c.sub => f.epoch = c.view.epoch
    /\ sub # NoSub /\ sub.id = c.sub => c.view.epoch = epoch
AcksGood(c, A) == \A a \in A : a.sub > c.sub /\ a.epoch >= c.view.epoch
AheadGood(c, F, A) ==
  \A f \in F : Ahead(c, f, A) => Before(c.view.epoch, c.view.seq, f.epoch, f.to)
Good(c, F, A) ==
  /\ ViewTrue(c) /\ CallsGood(c, F) /\ BasedGood(c, F) /\ AcksGood(c, A) /\ AheadGood(c, F, A)
  /\ c.sub < nextSub

Advances(c, d) == Before(c.view.epoch, c.view.seq, d.view.epoch, d.view.seq)
Moves(c, d, F, A) == Typed(d) /\ Good(d, F, A) /\ Advances(c, d) /\ d.active = c.active

\* What is shown, and of which subscription, is typed.
LEMMA ViewTyped ==
  ASSUME NEW c, Typed(c)
  PROVE  /\ c.view \in View /\ c.view.epoch \in Nat /\ c.view.seq \in Nat
         /\ c.view.rows \in Seq(Event) /\ c.sub \in Nat /\ c.active \in Nat
         /\ c.decoder.settled \in Nat
BY DEF Typed, Client, View, Decoder

\* Moves compose, and a calm step is one.
LEMMA MovesAgain ==
  ASSUME NEW F, NEW A, NEW c, NEW d, NEW e, Typed(c), Typed(d), Moves(c, d, F, A), Moves(d, e, F, A)
  PROVE  Moves(c, e, F, A)
<1>1. Typed(e)
  BY DEF Moves
<1> QED
  BY <1>1, ViewTyped DEF Moves, Advances, Before

\* Likewise.
LEMMA CalmMoves ==
  ASSUME NEW F, NEW A, NEW c, NEW d, Typed(c), Good(c, F, A), Calms(c, d)
  PROVE  Moves(c, d, F, A)
<1>1. Advances(c, d)
  BY ViewTyped DEF Calms, Calm, Advances, Before
<1>2. CallsGood(d, F)
  <2> SUFFICES ASSUME NEW k \in d.calls
               PROVE  /\ k.base.epoch <= d.view.epoch
                      /\ \A i \in 1..Len(k.frames) : k.frames[i] \in F
    BY DEF CallsGood
  <2>1. CASE \E j \in c.calls : k.base = j.base /\ k.frames = j.frames
    BY <2>1 DEF Good, CallsGood, Calms, Calm
  <2>2. CASE k.frames = <<>> /\ k.base.epoch <= c.view.epoch
    BY <2>2 DEF Calms, Calm
  <2> QED
    BY <2>1, <2>2 DEF Calms, Calm
<1>3. ViewTrue(d) /\ BasedGood(d, F) /\ AcksGood(d, A) /\ d.sub < nextSub
  BY DEF Good, ViewTrue, BasedGood, AcksGood, Calms, Calm
<1>4. AheadGood(d, F, A)
  BY DEF Good, AheadGood, Ahead, Calms, Calm
<1> QED
  BY <1>1, <1>2, <1>3, <1>4 DEF Moves, Good, Calms, Calm

\* The store shows a log up to the end of a frame.
Showing(c, f, rows) ==
  [c EXCEPT !.view = [epoch |-> f.epoch, seq |-> f.to, rows |-> rows], !.based = TRUE]

\* A frame that the store may take: of the subscription it serves, and settled now.
Due(c, f) ==
  /\ f.sub = c.sub /\ c.active = c.sub /\ f.ord <= c.decoder.settled
  /\ Before(c.view.epoch, c.view.seq, f.epoch, f.to)

\* A frame that is due is shown: the rows are what the log holds, and it is no step back.
LEMMA ShowingMoves ==
  ASSUME NEW F, NEW A, OnTheWay(F, A), NEW c, Typed(c), Good(c, F, A), NEW f \in F, Due(c, f),
         NEW rows, rows = Shown(logs[f.epoch], 0, f.to)
  PROVE  Moves(c, Showing(c, f, rows), F, A)
<1> DEFINE d == Showing(c, f, rows)
<1>1. /\ f \in TopicFrame /\ f.sub \in Nat \ {0} /\ f.ord \in Nat /\ f.epoch \in Nat /\ f.to \in Nat
      /\ f.from \in Nat /\ f.from <= f.to
      /\ f.epoch \in DOMAIN logs /\ f.to <= Len(logs[f.epoch]) /\ logs[f.epoch] \in Seq(Event)
      /\ f.epoch # 0
  BY DEF OnTheWay, Framed, TrueFrame, Logged, TopicFrame
<1>2. rows \in Seq(Event)
  BY <1>1, ShownTyped DEF Stretch
<1>3. /\ d.view = [epoch |-> f.epoch, seq |-> f.to, rows |-> rows] /\ d.based = TRUE
      /\ d.sub = c.sub /\ d.active = c.active /\ d.decoder = c.decoder /\ d.calls = c.calls
      /\ d.recovery = c.recovery
  BY DEF Showing, Typed, Client
<1>4. d \in Client
  BY <1>1, <1>2 DEF Showing, Typed, Client, View
<1>5. c.view.epoch \in Nat /\ c.view.seq \in Nat /\ c.sub \in Nat /\ c.decoder.settled \in Nat
  BY ViewTyped
<1> HIDE DEF d
<1>6. Typed(d)
  BY <1>3, <1>4 DEF Typed
<1>7. c.view.epoch <= f.epoch /\ Advances(c, d)
  BY <1>1, <1>3, <1>5 DEF Due, Before, Advances
<1>8. ViewTrue(d)
  BY <1>1, <1>3 DEF ViewTrue
<1>9. CallsGood(d, F)
  <2> SUFFICES ASSUME NEW k \in c.calls
               PROVE  /\ k.base.epoch <= f.epoch
                      /\ \A i \in 1..Len(k.frames) : k.frames[i] \in F
    BY <1>3 DEF CallsGood
  <2>1. k.base.epoch \in Nat
    BY DEF Typed, Client, Asked, Base
  <2> QED
    BY <1>1, <1>5, <1>7, <2>1 DEF Good, CallsGood
<1>10. BasedGood(d, F)
  BY <1>1, <1>3 DEF BasedGood, Due, OnTheWay, Ordered, Current, None
<1>11. AcksGood(d, A)
  BY <1>1, <1>3, <1>5 DEF AcksGood, Good, OnTheWay, Named, Due
<1>12. AheadGood(d, F, A)
  <2> SUFFICES ASSUME NEW g \in F, Ahead(d, g, A)
               PROVE  Before(f.epoch, f.to, g.epoch, g.to)
    BY <1>3 DEF AheadGood
  <2>1. g.sub \in Nat /\ g.ord \in Nat
    BY DEF OnTheWay, Framed, TopicFrame
  <2>2. CASE g.sub = d.sub /\ g.ord > d.decoder.settled
    BY <1>1, <1>3, <1>5, <2>1, <2>2 DEF Before, Due, OnTheWay, Ordered
  <2>3. CASE \E a \in A : a.sub = g.sub
    <3>1. g.sub > f.sub
      BY <2>3 DEF Good, AcksGood, Due
    <3> QED
      BY <1>1, <2>1, <3>1 DEF Before, OnTheWay, Ordered
  <2> QED
    BY <2>2, <2>3 DEF Ahead
<1>13. d.sub < nextSub
  BY <1>3 DEF Good
<1> QED
  BY <1>3, <1>6, <1>7, <1>8, <1>9, <1>10, <1>11, <1>12, <1>13 DEF Moves, Good, d

----------------------------------------------------------------------------
(* One frame.                                                                *)

\* applyFrame: a snapshot replaces the rows, a delta is put on rows it goes on from.
LEMMA ApplyMoves ==
  ASSUME NEW F, NEW A, OnTheWay(F, A), NEW c, Typed(c), Good(c, F, A), NEW f \in F, Due(c, f),
         NEW initial \in BOOLEAN, f.snap \/ c.based
  PROVE  Moves(c, Apply(c, f, initial), F, A)
<1> DEFINE recovery == f.kind = "recovery"
           Seen(d) == IF recovery THEN MarkSeen(d) ELSE d
           Shows(ep, rows) ==
             Seen([c EXCEPT !.view = [epoch |-> ep, seq |-> f.to, rows |-> rows], !.based = TRUE])
<1>1. /\ f.epoch \in DOMAIN logs /\ logs[f.epoch] \in Seq(Event) /\ f.to <= Len(logs[f.epoch])
      /\ f.from \in Nat /\ f.to \in Nat /\ f.from <= f.to
      /\ f.rows = Shown(logs[f.epoch], f.from, f.to) /\ (f.snap => f.from = 0)
      /\ f.snap \in BOOLEAN /\ recovery \in BOOLEAN
  BY DEF OnTheWay, Framed, TrueFrame, Logged, TopicFrame
<1>2. ASSUME NEW d, Moves(c, d, F, A) PROVE Moves(c, Seen(d), F, A)
  <2>1. Typed(d) /\ Good(d, F, A)
    BY <1>2 DEF Moves
  <2>2. Moves(d, Seen(d), F, A)
    BY <2>1, MarkSeenCalm, CalmSelf, CalmMoves
  <2> HIDE DEF Seen
  <2> QED
    BY <1>2, <2>1, <2>2, MovesAgain
<1>3. Moves(c, c, F, A)
  BY CalmSelf, CalmMoves
<1>4. CASE f.snap
  <2>1. Moves(c, Showing(c, f, f.rows), F, A)
    BY <1>1, <1>4, ShowingMoves
  <2>2. Moves(c, Seen(Showing(c, f, f.rows)), F, A)
    <3> HIDE DEF Seen
    <3> QED
      BY <1>2, <2>1
  <2>3. Apply(c, f, initial) = Seen(Showing(c, f, f.rows))
    BY <1>4 DEF Apply, Showing
  <2> QED
    BY <2>2, <2>3
<1>5. CASE ~f.snap /\ c.view # NoView /\ f.to > c.view.seq /\ f.from = c.view.seq
  <2>1. c.based /\ f.epoch = c.view.epoch
    BY <1>5 DEF Good, BasedGood, Due
  <2>2. c.view.rows = Shown(logs[f.epoch], 0, f.from)
    BY <1>5, <2>1 DEF Good, ViewTrue
  <2>3. c.view.rows \o f.rows = Shown(logs[f.epoch], 0, f.to)
    <3>1. Stretch(logs[f.epoch], 0, f.from) /\ Stretch(logs[f.epoch], f.from, f.to)
      BY <1>1 DEF Stretch
    <3> QED
      BY <1>1, <2>2, <3>1, ShownJoins
  <2> DEFINE rows == c.view.rows \o f.rows
  <2>4. Apply(c, f, initial) = Seen(Showing(c, f, rows))
    <3>1. ~(f.to <= c.view.seq)
      BY <1>1, <1>5, ViewTyped
    <3> QED
      BY <1>5, <2>1, <3>1 DEF Apply, Showing
  <2> HIDE DEF rows
  <2>5. Moves(c, Showing(c, f, rows), F, A)
    BY <2>3, ShowingMoves DEF rows
  <2>6. Moves(c, Seen(Showing(c, f, rows)), F, A)
    <3> HIDE DEF Seen
    <3> QED
      BY <1>2, <2>5
  <2> QED
    BY <2>4, <2>6
<1>6. CASE ~f.snap /\ ~(c.view # NoView /\ f.to > c.view.seq /\ f.from = c.view.seq)
  <2>1. Moves(c, Seen(c), F, A)
    <3> HIDE DEF Seen
    <3> QED
      BY <1>2, <1>3
  <2>2. Moves(c, Connect(c, TRUE), F, A) /\ Moves(c, RequestRecovery(c, recovery), F, A)
    BY <1>1, ConnectCalm, RequestRecoveryCalm, CalmMoves
  <2>3. Apply(c, f, initial) \in {Seen(c), Connect(c, TRUE), RequestRecovery(c, recovery)}
    <3>1. f.to <= c.view.seq \/ f.to > c.view.seq
      BY <1>1, ViewTyped
    <3> QED
      BY <1>6, <3>1 DEF Apply
  <2> HIDE DEF Seen
  <2> QED
    BY <2>1, <2>2, <2>3
<1> QED
  BY <1>4, <1>5, <1>6

\* The decoder faults, and recovery is asked for.
LEMMA AwaitedCalm ==
  ASSUME NEW c, Typed(c)
  PROVE  Calms(c, [c EXCEPT !.awaiting = NoAwait])
<1> DEFINE d == [c EXCEPT !.awaiting = NoAwait]
<1>1. Typed(d) /\ Rest(c, d)
  BY DEF Typed, Client, Rest, NoAwait, None
<1> QED
  BY <1>1, RestIsCalm

\* Likewise.
LEMMA GapCalm ==
  ASSUME NEW c, Typed(c), c.recovery # NoRecovery
  PROVE  Calms(c, [c EXCEPT !.recovery.gap = @ \/ c.recovery.seen])
<1> DEFINE d == [c EXCEPT !.recovery.gap = @ \/ c.recovery.seen]
<1>1. c.recovery \in Recovery /\ (c.recovery.gap \/ c.recovery.seen) \in BOOLEAN
  BY DEF Typed, Client
<1>2. d.recovery \in Recovery
  BY <1>1 DEF Recovery, Typed, Client
<1>3. Typed(d) /\ Rest(c, d)
  BY <1>2 DEF Typed, Client, Rest
<1> QED
  BY <1>3, RestIsCalm

\* Likewise.
LEMMA FaultHandledCalm ==
  ASSUME NEW c, Typed(c), NEW f \in TopicFrame
  PROVE  Calms(c, AssemblyFault(c, f))
<1> DEFINE d == IF f.kind # "online" /\ c.awaiting.sub = f.sub THEN [c EXCEPT !.awaiting = NoAwait] ELSE c
           event == f.kind = "recovery"
<1>1. Calms(c, d)
  BY AwaitedCalm, CalmSelf
<1>2. event \in BOOLEAN
  OBVIOUS
<1> HIDE DEF d, event
<1>3. Calms(c, RequestRecovery(d, event))
  <2>1. Calms(d, RequestRecovery(d, event))
    BY <1>1, <1>2, RequestRecoveryCalm DEF Calms
  <2> QED
    BY <1>1, <2>1, CalmAgain
<1>4. AssemblyFault(c, f) =
        IF Closed(c) \/ f.sub # c.sub THEN c
        ELSE IF f.kind = "online" /\ c.recovery # NoRecovery
             THEN [c EXCEPT !.recovery.gap = @ \/ c.recovery.seen]
        ELSE RequestRecovery(d, event)
  BY DEF AssemblyFault, d, event
<1>5. CASE Closed(c) \/ f.sub # c.sub
  BY <1>4, <1>5, CalmSelf
<1>6. CASE ~(Closed(c) \/ f.sub # c.sub) /\ f.kind = "online" /\ c.recovery # NoRecovery
  BY <1>4, <1>6, GapCalm
<1>7. CASE ~(Closed(c) \/ f.sub # c.sub) /\ ~(f.kind = "online" /\ c.recovery # NoRecovery)
  BY <1>3, <1>4, <1>7
<1> QED
  BY <1>5, <1>6, <1>7

\* Likewise.
LEMMA FaultCalm ==
  ASSUME NEW c, Typed(c), NEW f \in TopicFrame
  PROVE  Calms(c, Fault(c, f))
<1> DEFINE d == [c EXCEPT !.decoder.faulted = TRUE]
<1>1. d.decoder = [c.decoder EXCEPT !.faulted = TRUE] /\ d.decoder \in Decoder
  BY DEF Typed, Client, Decoder
<1>2. Typed(d) /\ Rest(c, d)
  BY <1>1 DEF Typed, Client, Decoder, Rest
<1> HIDE DEF d
<1>3. Calms(c, d) /\ Calms(d, AssemblyFault(d, f))
  BY <1>2, RestIsCalm, FaultHandledCalm
<1>4. Calms(c, AssemblyFault(d, f))
  BY <1>3, CalmAgain
<1> QED
  BY <1>4 DEF Fault, d

\* A frame is handled once it is settled.
LEMMA HandleFrameMoves ==
  ASSUME NEW F, NEW A, OnTheWay(F, A), NEW c, Typed(c), Good(c, F, A), NEW f \in F,
         f.sub = c.sub => Due(c, f)
  PROVE  Moves(c, HandleFrame(c, f), F, A)
<1> DEFINE initial == f.kind = "initial" /\ c.awaiting.sub = f.sub
           d == IF f.kind # "online" /\ c.awaiting.sub = f.sub THEN [c EXCEPT !.awaiting = NoAwait] ELSE c
           event == f.kind = "recovery"
<1>1. Calms(c, d)
  BY AwaitedCalm, CalmSelf
<1>2. event \in BOOLEAN /\ initial \in BOOLEAN /\ f \in TopicFrame
  BY DEF OnTheWay, Framed
<1>3. Moves(c, c, F, A)
  BY CalmSelf, CalmMoves
<1> HIDE DEF d, event, initial
<1>4. Moves(c, d, F, A) /\ Typed(d) /\ Good(d, F, A)
  BY <1>1, CalmMoves DEF Moves
<1>5. Moves(c, RequestRecovery(d, event), F, A)
  <2>1. Moves(d, RequestRecovery(d, event), F, A)
    BY <1>2, <1>4, RequestRecoveryCalm, CalmMoves
  <2> QED
    BY <1>4, <2>1, MovesAgain
<1>6. HandleFrame(c, f) =
        IF Closed(c) \/ f.sub # c.sub THEN c
        ELSE IF f.kind = "online" /\ c.recovery # NoRecovery /\ ~f.snap
             THEN IF f.to > c.view.seq THEN [c EXCEPT !.recovery.gap = @ \/ c.recovery.seen] ELSE c
        ELSE IF ~f.snap /\ ~c.based THEN RequestRecovery(d, event)
        ELSE Apply(d, f, initial)
  BY DEF HandleFrame, d, event, initial
<1>7. CASE Closed(c) \/ f.sub # c.sub
  BY <1>3, <1>6, <1>7
<1>8. CASE ~(Closed(c) \/ f.sub # c.sub) /\ f.kind = "online" /\ c.recovery # NoRecovery /\ ~f.snap
  <2>1. Moves(c, [c EXCEPT !.recovery.gap = @ \/ c.recovery.seen], F, A)
    BY <1>8, GapCalm, CalmMoves
  <2> QED
    BY <1>3, <1>6, <1>8, <2>1
<1>9. CASE /\ ~(Closed(c) \/ f.sub # c.sub)
           /\ ~(f.kind = "online" /\ c.recovery # NoRecovery /\ ~f.snap)
  <2>1. CASE ~f.snap /\ ~c.based
    BY <1>5, <1>6, <1>9, <2>1
  <2>2. CASE f.snap \/ c.based
    <3>1. Due(d, f) /\ (f.snap \/ d.based)
      BY <1>1, <1>9, <2>2 DEF Calms, Calm, Due
    <3>2. Moves(d, Apply(d, f, initial), F, A)
      BY <1>2, <1>4, <3>1, ApplyMoves
    <3>3. Moves(c, Apply(d, f, initial), F, A)
      BY <1>4, <3>2, MovesAgain DEF Moves
    <3> QED
      BY <1>6, <1>9, <2>2, <3>3
  <2> QED
    BY <2>1, <2>2
<1> QED
  BY <1>7, <1>8, <1>9

\* What has been settled is not taken again; nothing else depends on it.
LEMMA SettleOrdMoves ==
  ASSUME NEW F, F \subseteq TopicFrame, NEW A, NEW c, Typed(c), Good(c, F, A), NEW f \in TopicFrame
  PROVE  /\ Moves(c, SettleOrd(c, f), F, A) /\ SettleOrd(c, f).decoder.settled >= f.ord
         /\ SettleOrd(c, f).decoder.settled \in {f.ord, c.decoder.settled}
         /\ SettleOrd(c, f).decoder.faulted = c.decoder.faulted
         /\ SettleOrd(c, f).view = c.view /\ SettleOrd(c, f).sub = c.sub
<1> DEFINE d == SettleOrd(c, f)
<1>1. /\ d.decoder = [c.decoder EXCEPT !.settled = IF f.ord > @ THEN f.ord ELSE @, !.partial = NoPartial]
      /\ d \in Client
      /\ d.view = c.view /\ d.sub = c.sub /\ d.active = c.active /\ d.based = c.based
      /\ d.calls = c.calls /\ d.recovery = c.recovery
  BY DEF SettleOrd, Typed, Client, Decoder, TopicFrame
<1>2. /\ d.decoder.settled = (IF f.ord > c.decoder.settled THEN f.ord ELSE c.decoder.settled)
      /\ d.decoder.partial = NoPartial /\ d.decoder.faulted = c.decoder.faulted
  BY <1>1 DEF Typed, Client, Decoder
<1>3. f.ord \in Nat /\ c.decoder.settled \in Nat
  BY ViewTyped DEF TopicFrame
<1> HIDE DEF d
<1>4. Typed(d)
  BY <1>1, <1>2 DEF Typed
<1>5. Advances(c, d)
  BY <1>1, ViewTyped DEF Advances, Before
<1>6. ViewTrue(d) /\ CallsGood(d, F) /\ BasedGood(d, F) /\ AcksGood(d, A) /\ d.sub < nextSub
  BY <1>1 DEF Good, ViewTrue, CallsGood, BasedGood, AcksGood
<1>7. AheadGood(d, F, A)
  <2> SUFFICES ASSUME NEW g \in F, Ahead(d, g, A) PROVE Ahead(c, g, A)
    BY <1>1 DEF Good, AheadGood
  <2>1. g.ord \in Nat
    BY DEF TopicFrame
  <2>2. CASE g.sub = d.sub /\ d.active = d.sub /\ g.ord > d.decoder.settled
    BY <1>1, <1>2, <1>3, <2>1, <2>2 DEF Ahead
  <2> QED
    BY <2>2 DEF Ahead
<1> QED
  BY <1>1, <1>2, <1>3, <1>4, <1>5, <1>6, <1>7 DEF Moves, Good, d
\* The missing rest of a frame is waited for.
LEMMA PartialMoves ==
  ASSUME NEW F, NEW A, NEW c, Typed(c), Good(c, F, A), NEW f \in TopicFrame,
         f.ord > c.decoder.settled
  PROVE  Moves(c, [c EXCEPT !.decoder.partial = f], F, A)
<1> DEFINE d == [c EXCEPT !.decoder.partial = f]
<1>1. /\ d.decoder = [c.decoder EXCEPT !.partial = f] /\ d \in Client
      /\ d.view = c.view /\ d.sub = c.sub /\ d.active = c.active /\ d.based = c.based
      /\ d.calls = c.calls /\ d.recovery = c.recovery
  BY DEF Typed, Client, Decoder
<1>2. d.decoder.settled = c.decoder.settled /\ d.decoder.partial = f
  BY <1>1 DEF Typed, Client, Decoder
<1> HIDE DEF d
<1>3. Typed(d)
  BY <1>1, <1>2 DEF Typed
<1>4. Advances(c, d)
  BY <1>1, ViewTyped DEF Advances, Before
<1>5. ViewTrue(d) /\ CallsGood(d, F) /\ BasedGood(d, F) /\ AcksGood(d, A) /\ d.sub < nextSub
  BY <1>1 DEF Good, ViewTrue, CallsGood, BasedGood, AcksGood
<1>6. AheadGood(d, F, A)
  BY <1>1, <1>2 DEF Good, AheadGood, Ahead
<1> QED
  BY <1>1, <1>3, <1>4, <1>5, <1>6 DEF Moves, Good, d

\* Frames are assembled and decoded.
LEMMA AssembleMoves ==
  ASSUME NEW F, NEW A, OnTheWay(F, A), NEW c, Typed(c), Good(c, F, A), NEW f \in F, f.sub = c.active
  PROVE  Moves(c, Assemble(c, f), F, A)
<1> DEFINE partial == c.decoder.partial
           superseded == partial # NoPartial /\ f.ord > partial.ord
           c1 == IF superseded THEN SettleOrd(c, partial) ELSE c
           c2 == IF superseded /\ f.kind # "recovery" THEN Fault(c1, partial) ELSE c1
           d == SettleOrd(c2, f)
<1>1. /\ F \subseteq TopicFrame /\ f \in TopicFrame /\ f.ord \in Nat /\ c.decoder.settled \in Nat
      /\ partial # NoPartial => partial \in TopicFrame /\ partial.ord \in Nat
  BY DEF OnTheWay, Framed, TopicFrame, Typed, Client, Decoder
<1>2. Moves(c, c, F, A)
  BY CalmSelf, CalmMoves
<1>3. CASE f.ord <= c.decoder.settled \/ (partial # NoPartial /\ f.ord < partial.ord)
  BY <1>2, <1>3 DEF Assemble
<1>4. CASE ~(f.ord <= c.decoder.settled \/ (partial # NoPartial /\ f.ord < partial.ord))
  <2>0. f.ord > c.decoder.settled
    BY <1>1, <1>4
  <2>1. /\ Moves(c, c1, F, A) /\ Typed(c1) /\ Good(c1, F, A) /\ c1.decoder.settled < f.ord
        /\ c1.view = c.view /\ c1.sub = c.sub
    <3>1. CASE superseded
      <4>1. /\ Moves(c, c1, F, A) /\ c1.decoder.settled \in {partial.ord, c.decoder.settled}
            /\ c1.view = c.view /\ c1.sub = c.sub
        BY <1>1, <3>1, SettleOrdMoves
      <4> HIDE DEF c1
      <4> QED
        BY <1>1, <2>0, <3>1, <4>1 DEF Moves
    <3>2. CASE ~superseded
      BY <1>2, <2>0, <3>2 DEF Moves
    <3> QED
      BY <3>1, <3>2
  <2> HIDE DEF c1
  <2>2. Calms(c1, c2)
    BY <1>1, <2>1, FaultCalm, CalmSelf
  <2> HIDE DEF c2
  <2>3. /\ Moves(c, c2, F, A) /\ Typed(c2) /\ Good(c2, F, A) /\ c2.decoder.settled < f.ord
        /\ c2.view = c.view /\ c2.sub = c.sub /\ c2.active = c.active
    <3>1. Moves(c1, c2, F, A)
      BY <2>1, <2>2, CalmMoves
    <3> QED
      BY <2>1, <2>2, <3>1, MovesAgain DEF Moves, Calms, Calm
  <2>4. /\ Moves(c, d, F, A) /\ Typed(d) /\ Good(d, F, A) /\ d.decoder.settled >= f.ord
        /\ d.view = c.view /\ d.sub = c.sub /\ d.active = c.active
    <3>1. /\ Moves(c2, d, F, A) /\ d.decoder.settled >= f.ord /\ d.view = c2.view /\ d.sub = c2.sub
      BY <1>1, <2>3, SettleOrdMoves
    <3> HIDE DEF d
    <3> QED
      BY <2>3, <3>1, MovesAgain DEF Moves
  <2> HIDE DEF d
  <2>5. Moves(c, Fault(d, f), F, A)
    <3>1. Moves(d, Fault(d, f), F, A)
      BY <1>1, <2>4, FaultCalm, CalmMoves
    <3> QED
      BY <2>4, <3>1, MovesAgain DEF Moves
  <2>6. Moves(c, [c2 EXCEPT !.decoder.partial = f], F, A)
    <3> DEFINE e == [c2 EXCEPT !.decoder.partial = f]
    <3>1. Moves(c2, e, F, A)
      <4>1. f.ord > c2.decoder.settled
        BY <1>1, <2>3, ViewTyped
      <4> QED
        BY <1>1, <2>3, <4>1, PartialMoves
    <3> HIDE DEF e
    <3>2. Moves(c, e, F, A)
      BY <2>3, <3>1, MovesAgain
    <3> QED
      BY <3>2 DEF e
  <2>7. Moves(c, HandleFrame(d, f), F, A)
    <3>1. f.sub = d.sub => Due(d, f)
      <4>1. f.sub = c.sub => Before(c.view.epoch, c.view.seq, f.epoch, f.to)
        BY <2>0 DEF Good, AheadGood, Ahead
      <4>2. f.ord <= d.decoder.settled
        BY <2>4
      <4> QED
        BY <2>4, <4>1, <4>2 DEF Due
    <3>2. Moves(d, HandleFrame(d, f), F, A)
      BY <2>4, <3>1, HandleFrameMoves
    <3> QED
      BY <2>4, <3>2, MovesAgain DEF Moves
  <2>8. Assemble(c, f) \in {Fault(d, f), d, [c2 EXCEPT !.decoder.partial = f], HandleFrame(d, f)}
    BY <1>4 DEF Assemble, d, c2, c1
  <2> QED
    BY <2>4, <2>5, <2>6, <2>7, <2>8
<1> QED
  BY <1>3, <1>4

\* Likewise.
LEMMA DecodeMoves ==
  ASSUME NEW F, NEW A, OnTheWay(F, A), NEW c, Typed(c), Good(c, F, A), NEW f \in F, f.sub = c.active
  PROVE  Moves(c, Decode(c, f), F, A)
<1> DEFINE d == [c EXCEPT !.decoder.faulted = FALSE]
<1>1. Calms(c, d)
  <2>1. d.decoder = [c.decoder EXCEPT !.faulted = FALSE] /\ d.decoder \in Decoder
    BY DEF Typed, Client, Decoder
  <2>2. Typed(d) /\ Rest(c, d)
    BY <2>1 DEF Typed, Client, Decoder, Rest
  <2> QED
    BY <2>2, RestIsCalm
<1> HIDE DEF d
<1>2. Moves(c, c, F, A) /\ Moves(c, d, F, A)
  BY <1>1, CalmSelf, CalmMoves
<1>3. Moves(d, Assemble(d, f), F, A)
  BY <1>2, AssembleMoves DEF Moves
<1>4. Moves(c, Assemble(d, f), F, A)
  BY <1>2, <1>3, MovesAgain DEF Moves
<1>5. Decode(c, f) \in {c, Assemble(d, f)}
  BY DEF Decode, d
<1> QED
  BY <1>2, <1>4, <1>5

----------------------------------------------------------------------------
(* Handlers.                                                                 *)

\* d shows what c does and serves no more.
Yields(c, d) ==
  /\ d.view = c.view /\ d.sub \in {c.sub, None}
  /\ d.based => c.based /\ d.sub = c.sub
  /\ d.active = None \/ (d.active = c.active /\ d.decoder.settled = c.decoder.settled)
  /\ \A k \in d.calls :
       \/ \E j \in c.calls : k.base = j.base /\ k.frames = j.frames
       \/ k.frames = <<>> /\ k.base.epoch <= c.view.epoch
       \/ k.frames = <<>> /\ \E j \in c.calls : k.base = j.base
Goes(c, d, F, A) == Typed(d) /\ Good(d, F, A) /\ Advances(c, d)

\* A move is a way to go, and ways compose.
LEMMA MovesGoes ==
  ASSUME NEW F, NEW A, NEW c, NEW d, Moves(c, d, F, A)
  PROVE  Goes(c, d, F, A)
BY DEF Moves, Goes

\* Likewise.
LEMMA GoesAgain ==
  ASSUME NEW F, NEW A, NEW c, NEW d, NEW e, Typed(c), Typed(d), Goes(c, d, F, A), Goes(d, e, F, A)
  PROVE  Goes(c, e, F, A)
<1>1. Typed(e)
  BY DEF Goes
<1> QED
  BY <1>1, ViewTyped DEF Goes, Advances, Before

\* A store that yields goes on in good order.
LEMMA YieldGoes ==
  ASSUME NEW F, NEW A, OnTheWay(F, A), NEW c, NEW d, Typed(c), Good(c, F, A), Typed(d), Yields(c, d)
  PROVE  Goes(c, d, F, A)
<1>0. c.sub \in Nat /\ nextSub \in Nat \ {0} /\ c.view.epoch \in Nat /\ c.view.seq \in Nat
  BY ViewTyped DEF OnTheWay, Logged
<1>1. Advances(c, d)
  BY <1>0 DEF Yields, Advances, Before
<1>2. CallsGood(d, F)
  <2> SUFFICES ASSUME NEW k \in d.calls
               PROVE  /\ k.base.epoch <= c.view.epoch
                      /\ \A i \in 1..Len(k.frames) : k.frames[i] \in F
    BY DEF CallsGood, Yields
  <2>1. CASE \E j \in c.calls : k.base = j.base /\ k.frames = j.frames
    BY <2>1 DEF Good, CallsGood
  <2>2. CASE k.frames = <<>> /\ k.base.epoch <= c.view.epoch
    BY <2>2
  <2>3. CASE k.frames = <<>> /\ \E j \in c.calls : k.base = j.base
    BY <2>3 DEF Good, CallsGood
  <2> QED
    BY <2>1, <2>2, <2>3 DEF Yields
<1>3. ViewTrue(d) /\ BasedGood(d, F)
  BY DEF Good, ViewTrue, BasedGood, Yields
<1>4. AcksGood(d, A) /\ d.sub < nextSub
  BY <1>0 DEF Good, AcksGood, Yields, OnTheWay, Named, None
<1>5. AheadGood(d, F, A)
  <2> SUFFICES ASSUME NEW g \in F, Ahead(d, g, A) PROVE Ahead(c, g, A)
    BY DEF Good, AheadGood, Yields
  <2>1. CASE g.sub = d.sub /\ d.active = d.sub /\ g.ord > d.decoder.settled
    <3>1. g.sub # None
      BY DEF OnTheWay, Framed, TrueFrame, None
    <3> QED
      BY <2>1, <3>1 DEF Ahead, Yields
  <2> QED
    BY <2>1 DEF Ahead
<1> QED
  BY <1>1, <1>2, <1>3, <1>4, <1>5 DEF Goes, Good

\* The frames that waited, decoded one by one.
LEMMA ReleasedDefined ==
  ASSUME NEW c, NEW F, NEW frames \in Seq(F)
  PROVE  \E after :
           /\ after = [i \in 0..Len(frames) |->
                         IF i = 0 THEN c ELSE Decode(after[i - 1], frames[i])]
           /\ Released(c, frames) = after[Len(frames)]
<1> DEFINE After(f, n) ==
      f = [i \in 0..n |-> IF i = 0 THEN c ELSE Decode(f[i - 1], frames[i])]
           N == Len(frames)
<1>1. N \in Nat
  OBVIOUS
<1>2. \E f : After(f, N)
  <2> DEFINE D == {n \in Nat : \E f : After(f, n)}
  <2>1. 0 \in D
    <3>1. After([i \in 0..0 |-> c], 0)
      OBVIOUS
    <3> QED
      BY <3>1
  <2>2. ASSUME NEW n \in 0..(N - 1), n \in D PROVE n + 1 \in D
    <3>1. PICK f : After(f, n)
      BY <2>2
    <3> DEFINE next == Decode(f[n], frames[n + 1])
               g == [i \in 0..(n + 1) |-> IF i = n + 1 THEN next ELSE f[i]]
               step(h, i) == Decode(h[i - 1], frames[i])
    <3> HIDE DEF next
    <3>2. \A i \in 0..n : g[i] = f[i]
      OBVIOUS
    <3>3. g[n + 1] = next
      OBVIOUS
    <3> HIDE DEF g
    <3>4. \A i \in 0..n : f[i] = IF i = 0 THEN c ELSE step(f, i)
      BY <3>1
    <3>5. \A i \in 0..(n + 1) : g[i] = IF i = 0 THEN c ELSE step(g, i)
      <4>1. ASSUME NEW i \in 0..(n + 1), i = 0 PROVE g[i] = c
        BY <4>1, <3>2, <3>4
      <4>2. ASSUME NEW i \in 0..(n + 1), i # 0, i # n + 1 PROVE g[i] = step(g, i)
        <5>1. i \in 0..n /\ i - 1 \in 0..n
          BY <4>2
        <5> QED
          BY <5>1, <4>2, <3>2, <3>4
      <4>3. g[n + 1] = step(g, n + 1)
        BY <3>2, <3>3 DEF next
      <4> QED
        BY <4>1, <4>2, <4>3
    <3>6. After(g, n + 1)
      <4>1. g = [i \in 0..(n + 1) |-> g[i]]
        BY DEF g
      <4>2. [i \in 0..(n + 1) |-> g[i]] = [i \in 0..(n + 1) |-> IF i = 0 THEN c ELSE step(g, i)]
        BY <3>5
      <4> QED
        BY <4>1, <4>2
    <3> HIDE DEF After, N
    <3>7. \E h : After(h, n + 1)
      BY <3>6
    <3>8. n + 1 \in Nat
      BY <1>1
    <3> QED
      BY <3>7, <3>8
  <2>3. 0..N \subseteq D
    <3> HIDE DEF D, N
    <3> QED
      BY <1>1, <2>1, <2>2, UpTo
  <2>4. N \in D
    <3> HIDE DEF D, N
    <3> QED
      BY <1>1, <2>3
  <2> QED
    BY <2>4
<1> DEFINE after == CHOOSE f : After(f, N)
<1>3. After(after, N)
  BY <1>2
<1>4. Released(c, frames) = after[Len(frames)]
  BY DEF Released
<1> HIDE DEF after
<1> QED
  BY <1>3, <1>4

\* The barrier releases the frames that waited, in their order.
LEMMA ReleasedMoves ==
  ASSUME NEW F, NEW A, OnTheWay(F, A), NEW c, Typed(c), Good(c, F, A), NEW frames \in Seq(F),
         \A i \in 1..Len(frames) : frames[i].sub = c.active
  PROVE  Moves(c, Released(c, frames), F, A)
<1> DEFINE N == Len(frames)
<1>1. N \in Nat /\ \A i \in 1..N : frames[i] \in F
  OBVIOUS
<1>2. PICK after :
        /\ after = [i \in 0..Len(frames) |-> IF i = 0 THEN c ELSE Decode(after[i - 1], frames[i])]
        /\ Released(c, frames) = after[Len(frames)]
  BY ReleasedDefined
<1>3. /\ after[0] = c
      /\ \A i \in 1..N : after[i] = Decode(after[i - 1], frames[i])
  <2>1. 0 \in 0..N /\ \A i \in 1..N : i \in 0..N /\ i # 0
    BY <1>1
  <2> HIDE DEF N
  <2> QED
    BY <1>2, <2>1 DEF N
<1> DEFINE D == {n \in 0..N : Moves(c, after[n], F, A)}
<1> HIDE DEF N
<1>4. 0 \in D
  BY <1>1, <1>3, CalmSelf, CalmMoves
<1>5. ASSUME NEW m \in 0..(N - 1), m \in D PROVE m + 1 \in D
  <2>1. m + 1 \in 1..N /\ m + 1 \in 0..N /\ (m + 1) - 1 = m
    BY <1>1
  <2>2. after[m + 1] = Decode(after[m], frames[m + 1])
    BY <1>3, <2>1
  <2> DEFINE d == after[m]
             f == frames[m + 1]
  <2>3. Moves(c, d, F, A) /\ f \in F /\ f.sub = c.active
    BY <1>1, <1>5, <2>1 DEF N
  <2> HIDE DEF d, f
  <2>4. Typed(d) /\ Good(d, F, A) /\ d.active = c.active
    BY <2>3 DEF Moves
  <2>5. Moves(d, Decode(d, f), F, A)
    BY <2>3, <2>4, DecodeMoves
  <2>6. Moves(c, Decode(d, f), F, A)
    BY <2>3, <2>4, <2>5, MovesAgain
  <2> QED
    BY <2>1, <2>2, <2>6 DEF d, f
<1>6. N \in D
  <2> HIDE DEF D
  <2>1. 0..N \subseteq D
    BY <1>1, <1>4, <1>5, UpTo
  <2> QED
    BY <1>1, <2>1
<1> QED
  BY <1>2, <1>6 DEF N

\* A calm step is a way to go.
LEMMA CalmGoes ==
  ASSUME NEW F, NEW A, NEW c, NEW d, Typed(c), Good(c, F, A), Calms(c, d)
  PROVE  Goes(c, d, F, A)
BY CalmMoves, MovesGoes

\* A store that yields, and then does something calm.
LEMMA YieldCalmGoes ==
  ASSUME NEW F, NEW A, OnTheWay(F, A), NEW c, NEW d, NEW e, Typed(c), Good(c, F, A),
         Typed(d), Yields(c, d), Calms(d, e)
  PROVE  Goes(c, e, F, A)
<1>1. Goes(c, d, F, A)
  BY YieldGoes
<1>2. Goes(d, e, F, A)
  BY <1>1, CalmGoes DEF Goes
<1> QED
  BY <1>1, <1>2, GoesAgain

\* Which of these keep the recovery.
LEMMA DiscardsRecovery ==
  ASSUME NEW c, Typed(c)
  PROVE  DiscardRecovery(c).recovery = NoRecovery
<1>1. Outdated(c, "resync") \in Client
  BY OutdatedCalm DEF Calms, Typed
<1> QED
  BY <1>1 DEF DiscardRecovery, Client

\* Likewise.
LEMMA KeepsRecovery ==
  ASSUME NEW c, Typed(c)
  PROVE  NewGeneration(c).recovery = c.recovery
<1>1. Outdated(c, "subscribe").recovery = c.recovery /\ Outdated(c, "subscribe") \in Client
  BY OutdatedCalm DEF Calms, Typed
<1> QED
  BY <1>1 DEF NewGeneration, Client

\* A call that failed.
LEMMA FailedGoes ==
  ASSUME NEW F, NEW A, OnTheWay(F, A), NEW c, Typed(c), Good(c, F, A), NEW k \in Asked, NEW why
  PROVE  Goes(c, Failed(c, k, why), F, A)
<1> DEFINE given == [c EXCEPT !.awaiting = NoAwait, !.based = FALSE]
<1>1. Goes(c, c, F, A) /\ Goes(c, FailRecovery(c), F, A)
  BY CalmSelf, FailRecoveryCalm, CalmGoes
<1>2. Goes(c, Reconnect(given), F, A)
  <2>1. Typed(given) /\ Yields(c, given)
    BY DEF Typed, Client, Yields, NoAwait, None
  <2> HIDE DEF given
  <2> QED
    BY <2>1, ReconnectCalm, YieldCalmGoes
<1>3. Goes(c, Connect(DiscardRecovery(c), FALSE), F, A)
  <2> DEFINE d == DiscardRecovery(c)
  <2>1. Calms(c, d)
    BY DiscardCalm
  <2> HIDE DEF d
  <2>2. Calms(d, Connect(d, FALSE))
    BY <2>1, ConnectCalm DEF Calms
  <2>3. Goes(c, Connect(d, FALSE), F, A)
    BY <2>1, <2>2, CalmAgain, CalmGoes
  <2> QED
    BY <2>3 DEF d
<1>4. Failed(c, k, why) \in
        {c, Reconnect(given), Connect(DiscardRecovery(c), FALSE), FailRecovery(c)}
  BY DEF Failed
<1> HIDE DEF given
<1> QED
  BY <1>1, <1>2, <1>3, <1>4

\* The ACKs that are left when one is handled come after it.
LEMMA AckedGoes ==
  ASSUME NEW F, NEW A, OnTheWay(F, A), NEW c, Typed(c), Good(c, F, A),
         NEW a \in A, a.sub \in Nat, a.epoch \in Nat, a.mode \in Mode,
         NEW B, B \subseteq A, \A b \in B : b.sub > a.sub,
         NEW k \in Asked, k.base.epoch <= c.view.epoch, \A i \in 1..Len(k.frames) : k.frames[i] \in F
  PROVE  Goes(c, Acked(c, k, a), F, B)
<1> DEFINE d == DiscardRecovery(c)
           based == k.base.epoch # None /\ a.mode = "resume" /\ a.epoch = k.base.epoch
           c1 == [d EXCEPT
                    !.attempts = 0, !.status = "live", !.sub = a.sub, !.based = based,
                    !.awaiting = [sub |-> a.sub, mode |-> a.mode],
                    !.active = a.sub, !.decoder = FreshDecoder]
           released == Only(k.frames, {f \in ToSet(k.frames) : f.sub = a.sub})
<1>1. OnTheWay(F, B)
  BY DEF OnTheWay, Named, Current
<1>2. Good(c, F, B)
  BY DEF Good, AcksGood, AheadGood, Ahead
<1>3. Calms(c, d) /\ d.recovery = NoRecovery /\ Typed(d) /\ d \in Client
  BY DiscardCalm, DiscardsRecovery DEF Calms, Typed
<1>4. Goes(c, Unsubscribe(c, a.sub), F, B) /\ Goes(c, c, F, B)
  BY <1>2, UnsubscribeCalm, CalmSelf, CalmGoes
<1>5. Goes(c, Failed(c, k, "recycled"), F, B)
  BY <1>1, <1>2, FailedGoes
<1> HIDE DEF d
<1>6. /\ c1 \in Client /\ c1.view = d.view /\ c1.calls = d.calls /\ c1.recovery = NoRecovery
      /\ c1.sub = a.sub /\ c1.active = a.sub /\ c1.decoder = FreshDecoder /\ c1.based = based
  <2>1. FreshDecoder \in Decoder
    BY DEF FreshDecoder, Decoder
  <2>2. based \in BOOLEAN /\ 0 \in 0..MaxAttempts
    BY StoreAssumption
  <2> HIDE DEF based
  <2> QED
    BY <1>3, <2>1, <2>2 DEF Client, Status
<1> HIDE DEF c1
<1>7. Typed(c1)
  BY <1>3, <1>6 DEF Typed, FreshDecoder
<1>8. /\ c.view.epoch \in Nat /\ c1.view = c.view /\ k.base.epoch \in Nat
      /\ a.sub \in 1..nextSub - 1 /\ a.epoch >= c.view.epoch
  BY <1>3, <1>6, ViewTyped DEF Calms, Calm, Asked, Base, OnTheWay, Named, Good, AcksGood
<1>9. based => a.epoch = c.view.epoch /\ c.view.epoch # 0
  BY <1>8 DEF None
<1>10. Good(c1, F, B)
  <2>1. ViewTrue(c1)
    BY <1>8 DEF Good, ViewTrue
  <2>2. CallsGood(c1, F)
    <3>1. Good(d, F, A)
      BY <1>3, CalmMoves DEF Moves
    <3> QED
      BY <1>3, <1>6, <3>1 DEF Good, CallsGood
  <2>3. BasedGood(c1, F)
    <3>1. nextSub \in Nat /\ a.sub # None
      BY <1>8 DEF OnTheWay, Logged, None
    <3>2. \A f \in F : f.sub = a.sub => f.epoch = a.epoch
      BY DEF OnTheWay, Named
    <3>3. sub # NoSub /\ sub.id = a.sub => a.epoch = epoch
      BY DEF OnTheWay, Current
    <3> QED
      BY <1>6, <1>8, <1>9, <3>1, <3>2, <3>3 DEF BasedGood
  <2>4. AcksGood(c1, B) /\ c1.sub < nextSub
    <3>1. nextSub \in Nat
      BY DEF OnTheWay, Logged
    <3> QED
      BY <1>2, <1>6, <1>8, <3>1 DEF Good, AcksGood
  <2>5. AheadGood(c1, F, B)
    <3> SUFFICES ASSUME NEW g \in F, Ahead(c1, g, B) PROVE Ahead(c, g, A)
      BY <1>8 DEF Good, AheadGood
    <3> QED
      BY <1>6 DEF Ahead
  <2> QED
    BY <2>1, <2>2, <2>3, <2>4, <2>5 DEF Good
<1>11. Goes(c, c1, F, B)
  BY <1>7, <1>8, <1>10, ViewTyped DEF Goes, Advances, Before
<1>12. released \in Seq(F) /\ \A i \in 1..Len(released) : released[i].sub = a.sub
  <2> DEFINE T == {f \in ToSet(k.frames) : f.sub = a.sub}
  <2>1. k.frames \in Seq(F)
    <3>1. k.frames \in Seq(TopicFrame)
      BY DEF Asked
    <3> QED
      BY <3>1
  <2>2. Only(k.frames, T) \in Seq(F \cap T)
    BY <2>1, OnlyEmbeds
  <2>3. \A f \in T : f.sub = a.sub
    OBVIOUS
  <2> HIDE DEF T
  <2>4. released \in Seq(F \cap T)
    BY <2>2 DEF T
  <2> HIDE DEF released
  <2>5. \A i \in 1..Len(released) : released[i] \in T
    BY <2>4
  <2> QED
    BY <2>3, <2>4, <2>5, SeqMonotonic
<1> HIDE DEF released
<1>13. Goes(c, Released(c1, released), F, B)
  <2>1. Moves(c1, Released(c1, released), F, B)
    BY <1>1, <1>6, <1>7, <1>10, <1>12, ReleasedMoves
  <2> QED
    BY <1>7, <1>11, <2>1, MovesGoes, GoesAgain
<1>14. Acked(c, k, a) \in {Failed(c, k, "recycled"), Unsubscribe(c, a.sub), Released(c1, released)}
  BY DEF Acked, released, c1, d
<1> QED
  BY <1>4, <1>5, <1>13, <1>14

\* The ACK of a resync.
LEMMA ResyncedGoes ==
  ASSUME NEW F, NEW A, NEW c, Typed(c), Good(c, F, A), NEW k, NEW a, a.mode \in Mode
  PROVE  Goes(c, Resynced(c, k, a), F, A)
<1> DEFINE d == [c EXCEPT !.recovery.ack = a.mode]
<1>1. Goes(c, c, F, A)
  BY CalmSelf, CalmGoes
<1>2. ASSUME c.recovery # NoRecovery PROVE Goes(c, Settle(d), F, A)
  <2>1. d.recovery = [c.recovery EXCEPT !.ack = a.mode] /\ d.recovery \in Recovery
    BY <1>2 DEF Typed, Client, Recovery
  <2>2. Typed(d) /\ Rest(c, d)
    BY <1>2, <2>1 DEF Typed, Client, Rest
  <2> HIDE DEF d
  <2>3. Calms(c, Settle(d))
    BY <2>2, RestIsCalm, SettleCalm, CalmAgain
  <2> QED
    BY <2>3, CalmGoes
<1> QED
  BY <1>1, <1>2 DEF Resynced, d

\* A frame arrives: it is decoded, or waits with every call.
LEMMA AcceptGoes ==
  ASSUME NEW F, NEW A, OnTheWay(F, A), NEW c, Typed(c), Good(c, F, A), NEW f \in F
  PROVE  Goes(c, Accept(c, f), F, A)
<1>1. CASE f.sub = c.active
  BY <1>1, DecodeMoves, MovesGoes DEF Accept
<1>2. CASE f.sub # c.active
  <2> DEFINE h == [k \in c.calls |->
                     [k EXCEPT !.frames = IF k.of = "subscribe" /\ k.valid THEN Append(@, f) ELSE @]]
             new == {[k EXCEPT !.frames = IF k.of = "subscribe" /\ k.valid THEN Append(@, f) ELSE @]
                       : k \in c.calls}
             d == [c EXCEPT !.calls = new]
  <2>1. IsFiniteSet(new)
    <3>1. IsFiniteSet({h[k] : k \in c.calls})
      <4>1. h = [k \in c.calls |-> h[k]] /\ IsFiniteSet(c.calls)
        BY DEF Typed
      <4> HIDE DEF h
      <4> QED
        BY <4>1, CallsChanged
    <3>2. {h[k] : k \in c.calls} = new
      OBVIOUS
    <3> QED
      BY <3>1, <3>2
  <2>2. ASSUME NEW j \in new
        PROVE  /\ j \in Asked
               /\ \E k \in c.calls : /\ j.base = k.base
                                     /\ j.frames = k.frames \/ j.frames = Append(k.frames, f)
    <3>1. PICK k \in c.calls :
            j = [k EXCEPT !.frames = IF k.of = "subscribe" /\ k.valid THEN Append(k.frames, f) ELSE k.frames]
      OBVIOUS
    <3>2. k \in Asked /\ f \in TopicFrame
      BY DEF Typed, Client, OnTheWay, Framed
    <3>3. k.frames \in Seq(TopicFrame) /\ Append(k.frames, f) \in Seq(TopicFrame)
      BY <3>2 DEF Asked
    <3> QED
      BY <3>1, <3>2, <3>3 DEF Asked
  <2> HIDE DEF new, h
  <2>3. /\ d \in Client /\ d.calls = new /\ d.view = c.view /\ d.sub = c.sub /\ d.active = c.active
        /\ d.based = c.based /\ d.decoder = c.decoder /\ d.recovery = c.recovery
    BY <2>2 DEF Typed, Client
  <2>4. Accept(c, f) = d
    BY <1>2 DEF Accept, new
  <2> HIDE DEF d
  <2>5. Typed(d)
    BY <2>1, <2>3 DEF Typed
  <2>6. CallsGood(d, F)
    <3> SUFFICES ASSUME NEW j \in new
                 PROVE  /\ j.base.epoch <= c.view.epoch
                        /\ \A i \in 1..Len(j.frames) : j.frames[i] \in F
      BY <2>3 DEF CallsGood
    <3>1. PICK k \in c.calls : /\ j.base = k.base
                               /\ j.frames = k.frames \/ j.frames = Append(k.frames, f)
      BY <2>2
    <3>2. k.frames \in Seq(TopicFrame)
      BY DEF Typed, Client, Asked
    <3>3. k.base.epoch <= c.view.epoch /\ \A i \in 1..Len(k.frames) : k.frames[i] \in F
      BY DEF Good, CallsGood
    <3> QED
      BY <3>1, <3>2, <3>3
  <2>7. ViewTrue(d) /\ BasedGood(d, F) /\ AcksGood(d, A) /\ d.sub < nextSub
    BY <2>3 DEF Good, ViewTrue, BasedGood, AcksGood
  <2>8. AheadGood(d, F, A)
    BY <2>3 DEF Good, AheadGood, Ahead
  <2>9. Advances(c, d)
    BY <2>3, ViewTyped DEF Advances, Before
  <2> QED
    BY <2>4, <2>5, <2>6, <2>7, <2>8, <2>9 DEF Goes, Good
<1> QED
  BY <1>1, <1>2

\* Whatever was under way is outdated.
LEMMA OutdatedAll ==
  ASSUME NEW c, Typed(c)
  PROVE  LET d == NewGeneration(DiscardRecovery(c))
         IN  Calms(c, d) /\ d.recovery = NoRecovery /\ d \in Client
<1> DEFINE d == DiscardRecovery(c)
           e == NewGeneration(d)
<1>1. Calms(c, d) /\ d.recovery = NoRecovery
  BY DiscardCalm, DiscardsRecovery
<1> HIDE DEF d
<1>2. Calms(d, e) /\ e.recovery = NoRecovery
  BY <1>1, GenerationCalm, KeepsRecovery DEF Calms
<1> HIDE DEF e
<1>3. Calms(c, e) /\ e \in Client
  BY <1>1, <1>2, CalmAgain DEF Calms, Typed
<1> QED
  BY <1>2, <1>3 DEF d, e

\* The runtime is gone, a new one has started, it is available.
LEMMA UnavailableGoes ==
  ASSUME NEW F, NEW A, OnTheWay(F, A), NEW c, Typed(c), Good(c, F, A)
  PROVE  Goes(c, Unavailable(c), F, A)
<1> DEFINE d == NewGeneration(DiscardRecovery(c))
           e == [d EXCEPT !.awaiting = NoAwait, !.based = FALSE, !.sub = None, !.retry = "none"]
<1>1. Calms(c, d) /\ d.recovery = NoRecovery /\ d \in Client
  BY OutdatedAll
<1> HIDE DEF d
<1>2. /\ e \in Client /\ e.view = d.view /\ e.calls = d.calls /\ e.sub = None /\ ~e.based
      /\ e.active = d.active /\ e.decoder = d.decoder /\ e.recovery = NoRecovery
  BY <1>1 DEF Client, NoAwait, None
<1> HIDE DEF e
<1>3. Typed(e) /\ Yields(c, e)
  <2>1. e.decoder.partial # NoPartial => e.decoder.partial.ord > e.decoder.settled
    BY <1>1, <1>2 DEF Calms, Typed
  <2>2. Typed(e)
    BY <1>1, <1>2, <2>1 DEF Typed, Calms
  <2> QED
    BY <1>1, <1>2, <2>2 DEF Yields, Calms, Calm
<1>4. Goes(c, Reconnect(e), F, A)
  BY <1>3, ReconnectCalm, YieldCalmGoes
<1>5. Goes(c, c, F, A)
  BY CalmSelf, CalmGoes
<1>6. Unavailable(c) \in {c, Reconnect(e)}
  BY DEF Unavailable, e, d
<1> QED
  BY <1>4, <1>5, <1>6

\* Likewise.
LEMMA RestartedGoes ==
  ASSUME NEW F, NEW A, OnTheWay(F, A), NEW c, Typed(c), Good(c, F, A)
  PROVE  Goes(c, Restarted(c), F, A)
<1> DEFINE h == [k \in c.calls |-> [k EXCEPT !.valid = @ /\ k.of # "subscribe", !.frames = <<>>]]
           new == {[k EXCEPT !.valid = @ /\ k.of # "subscribe", !.frames = <<>>] : k \in c.calls}
           d == [c EXCEPT !.active = None, !.decoder = FreshDecoder, !.calls = new]
<1>1. IsFiniteSet(new)
  <2>1. IsFiniteSet({h[k] : k \in c.calls})
    <3>1. h = [k \in c.calls |-> h[k]] /\ IsFiniteSet(c.calls)
      BY DEF Typed
    <3> HIDE DEF h
    <3> QED
      BY <3>1, CallsChanged
  <2>2. {h[k] : k \in c.calls} = new
    OBVIOUS
  <2> QED
    BY <2>1, <2>2
<1>2. ASSUME NEW j \in new
      PROVE  /\ j \in Asked /\ j.frames = <<>>
             /\ \E k \in c.calls : j.base = k.base
  <2>1. PICK k \in c.calls : j = [k EXCEPT !.valid = k.valid /\ k.of # "subscribe", !.frames = <<>>]
    OBVIOUS
  <2>2. k \in Asked
    BY DEF Typed, Client
  <2>3. (k.valid /\ k.of # "subscribe") \in BOOLEAN
    OBVIOUS
  <2>4. <<>> \in Seq(TopicFrame)
    BY EmptySeq
  <2> QED
    BY <2>1, <2>2, <2>3, <2>4 DEF Asked
<1> HIDE DEF new, h
<1>3. FreshDecoder \in Decoder
  BY DEF FreshDecoder, Decoder
<1>4. /\ d \in Client /\ d.calls = new /\ d.view = c.view /\ d.sub = c.sub /\ d.active = None
      /\ d.based = c.based /\ d.decoder = FreshDecoder /\ d.recovery = c.recovery
  BY <1>2, <1>3 DEF Typed, Client, None
<1>5. Restarted(c) = d
  BY DEF Restarted, new
<1> HIDE DEF d
<1>6. Typed(d)
  BY <1>1, <1>4 DEF Typed, FreshDecoder
<1>7. Yields(c, d)
  BY <1>2, <1>4 DEF Yields
<1> QED
  BY <1>5, <1>6, <1>7, YieldGoes

\* Likewise.
LEMMA AvailableGoes ==
  ASSUME NEW F, NEW A, OnTheWay(F, A), NEW c, Typed(c), Good(c, F, A)
  PROVE  Goes(c, Available(c), F, A)
<1> DEFINE c1 == [c EXCEPT !.retry = "none", !.attempts = 0]
           d == [c1 EXCEPT !.awaiting = NoAwait, !.based = FALSE, !.sub = None]
           e == [d EXCEPT !.recovery = NoRecovery]
<1>1. Goes(c, c, F, A)
  BY CalmSelf, CalmGoes
<1>0. 0 \in 0..MaxAttempts /\ c \in Client
  BY StoreAssumption DEF Typed
<1>2. Goes(c, c1, F, A)
  <2>0. /\ c1 \in Client /\ c1.view = c.view /\ c1.calls = c.calls /\ c1.sub = c.sub /\ c1.based = c.based
        /\ c1.active = c.active /\ c1.decoder = c.decoder /\ c1.recovery = c.recovery
    BY <1>0 DEF Client
  <2>1. Typed(c1) /\ Rest(c, c1)
    BY <2>0 DEF Typed, Rest
  <2> HIDE DEF c1
  <2> QED
    BY <2>1, RestIsCalm, CalmGoes
<1>3. /\ d \in Client /\ d.view = c.view /\ d.calls = c.calls /\ d.sub = None /\ ~d.based
      /\ d.active = c.active /\ d.decoder = c.decoder
  BY <1>0 DEF Client, NoAwait, None
<1>4. Available(c) \in {c, c1, Connect(d, TRUE)}
  BY DEF Available
<1> HIDE DEF c1, d
<1>5. /\ e \in Client /\ e.view = c.view /\ e.calls = c.calls /\ e.sub = None /\ ~e.based
      /\ e.active = c.active /\ e.decoder = c.decoder /\ e.recovery = NoRecovery
  BY <1>3 DEF Client
<1>6. Typed(e) /\ Yields(c, e)
  BY <1>5 DEF Typed, Yields
<1>7. Connect(d, TRUE) = Connect(e, TRUE) \/ Closed(d)
  <2>1. DiscardRecovery(d) = DiscardRecovery(e)
    BY <1>3 DEF DiscardRecovery, Outdated, Client
  <2>2. Closed(d) <=> Closed(e)
    BY <1>3 DEF Closed, Client
  <2> HIDE DEF e
  <2> QED
    BY <2>1, <2>2 DEF Connect
<1> HIDE DEF e
<1>8. Goes(c, Connect(e, TRUE), F, A)
  BY <1>6, ConnectCalm, YieldCalmGoes
<1>9. Available(c) \in {c, c1, Connect(e, TRUE)}
  <2>1. CASE Closed(c)
    BY <2>1 DEF Available
  <2>2. CASE ~Closed(c)
    <3>1. ~Closed(d)
      BY <2>2 DEF Closed, d, c1, Typed, Client
    <3> QED
      BY <3>1, <1>4, <1>7
  <2> QED
    BY <2>1, <2>2
<1> QED
  BY <1>1, <1>2, <1>8, <1>9

\* The page closes.
LEMMA ClosingGoes ==
  ASSUME NEW F, NEW A, OnTheWay(F, A), NEW c, Typed(c), Good(c, F, A),
         NEW d, d = [NewGeneration(DiscardRecovery(c)) EXCEPT
                       !.status = "closed", !.sub = None, !.retry = "none", !.awaiting = NoAwait, !.based = FALSE]
  PROVE  /\ Goes(c, d, F, A)
         /\ Goes(c, Unsubscribe([d EXCEPT !.active = None, !.decoder = FreshDecoder], c.sub), F, A)
<1> DEFINE b == NewGeneration(DiscardRecovery(c))
           e == [d EXCEPT !.active = None, !.decoder = FreshDecoder]
<1>1. Calms(c, b) /\ b.recovery = NoRecovery /\ b \in Client /\ Typed(b)
  BY OutdatedAll DEF Calms
<1>2. d = [b EXCEPT !.status = "closed", !.sub = None, !.retry = "none", !.awaiting = NoAwait, !.based = FALSE]
  OBVIOUS
<1> HIDE DEF b
<1>20. NoAwait \in [sub : Nat, mode : Mode \cup {"none"}] /\ "closed" \in Status /\ None \in Nat
  BY DEF NoAwait, Status, None
<1>3. /\ d \in Client /\ d.view = b.view /\ d.calls = b.calls /\ d.sub = None /\ ~d.based
      /\ d.active = b.active /\ d.decoder = b.decoder /\ d.recovery = NoRecovery
  <2>1. d \in Client
    <3> DEFINE a == [b EXCEPT !.status = "closed", !.sub = None, !.retry = "none"]
    <3>1. a \in Client
      BY <1>1, <1>20 DEF Client
    <3>2. d = [a EXCEPT !.awaiting = NoAwait, !.based = FALSE]
      BY <1>2
    <3> HIDE DEF a
    <3> QED
      BY <1>20, <3>1, <3>2 DEF Client
  <2>2. /\ d.view = b.view /\ d.calls = b.calls /\ d.sub = None /\ ~d.based
        /\ d.active = b.active /\ d.decoder = b.decoder /\ d.recovery = b.recovery
    BY <1>1, <1>2 DEF Client
  <2> QED
    BY <1>1, <2>1, <2>2
<1>4. FreshDecoder \in Decoder
  BY DEF FreshDecoder, Decoder
<1>5. /\ e \in Client /\ e.view = b.view /\ e.calls = b.calls /\ e.sub = None /\ ~e.based
      /\ e.active = None /\ e.decoder = FreshDecoder /\ e.recovery = NoRecovery
  <2>1. e \in Client
    BY <1>3, <1>4, <1>20 DEF Client
  <2>2. /\ e.view = d.view /\ e.calls = d.calls /\ e.sub = d.sub /\ e.based = d.based
        /\ e.active = None /\ e.decoder = FreshDecoder /\ e.recovery = d.recovery
    BY <1>3 DEF Client
  <2> QED
    BY <1>3, <2>1, <2>2
<1> HIDE DEF e
<1>6. Typed(d) /\ Yields(c, d)
  BY <1>1, <1>3 DEF Typed, Yields, Calms, Calm
<1>7. Typed(e) /\ Yields(c, e)
  BY <1>1, <1>5 DEF Typed, Yields, Calms, Calm, FreshDecoder
<1>8. Goes(c, d, F, A)
  BY <1>6, YieldGoes
<1>9. Goes(c, Unsubscribe(e, c.sub), F, A)
  <2>1. c.sub \in Nat
    BY ViewTyped
  <2>2. Calms(e, Unsubscribe(e, c.sub))
    BY <1>7, <2>1, UnsubscribeCalm
  <2> QED
    BY <1>7, <2>2, YieldCalmGoes
<1> QED
  BY <1>8, <1>9 DEF e

----------------------------------------------------------------------------
(* The state of the system.                                                  *)

OnWire(channel) == {m \in ToSet(channel) : m.type = "frame"}
Waiting(c) == UNION {ToSet(k.frames) : k \in c.calls}
Reserved(p) == IF p = NoReply \/ p.frame = NoFrame THEN {} ELSE {p.frame}
Frames == OnWire(wire) \cup Waiting(client) \cup Reserved(pending)

IsAck(a) == a.type = "subscribed"
Acks == {a \in ToSet(replies) \cup {pending} : IsAck(a)}

\* The subscriptions that are acknowledged follow each other.
AcksOrdered ==
  /\ \A i, j \in 1..Len(replies) :
       i < j /\ IsAck(replies[i]) /\ IsAck(replies[j]) => replies[i].sub < replies[j].sub
  /\ \A i \in 1..Len(replies) : IsAck(replies[i]) /\ IsAck(pending) => replies[i].sub < pending.sub

Fresh(c) == c.out = <<>> /\ ~c.heal

LogsTyped ==
  /\ logs \in Seq(Seq(Event)) /\ Len(logs) <= MaxEpochs
  /\ \A e \in DOMAIN logs : Len(logs[e]) <= MaxEvents
  /\ up \in BOOLEAN /\ floor \in Nat /\ (up => logs # <<>> /\ floor <= currentSeq)
Channelled ==
  /\ requests \in Seq(Request) /\ replies \in Seq(Reply) /\ wire \in Seq(Message)
  /\ pending \in Outcome \cup {NoReply}
  /\ mishaps.number \in 0..MaxMishaps
Subscribed ==
  /\ sub \in Subscription \cup {NoSub} /\ nextSub \in Nat \ {0} /\ route \in Nat
ClientTyped == Typed(client) /\ Fresh(client)

\* What the subscription has been sent, and what it still has to be: the end of the log
\* that its buffer holds, or a snapshot.
SentTo == IF sub.reserved # None THEN pending.frame.to ELSE sub.sent
Serving ==
  sub # NoSub =>
    /\ up /\ sub.id = nextSub - 1 /\ sub.id # None /\ sub.ord # 0
    /\ \A f \in Frames : f.sub = sub.id => f.epoch = epoch /\ f.ord < sub.ord
    /\ ~sub.resync => SentTo <= currentSeq /\ sub.buffer = Shown(log, SentTo, currentSeq)
    /\ sub.reserved # None => /\ pending # NoReply /\ pending.frame # NoFrame
                              /\ pending.frame.sub = sub.id /\ pending.frame.ord = sub.reserved
PendingUp == pending # NoReply => up /\ (pending.frame # NoFrame => pending.frame.ord # 0)
WayClear == OnTheWay(Frames, Acks)
GoodClient == Good(client, Frames, Acks)

IInv ==
  /\ LogsTyped /\ Channelled /\ Subscribed /\ ClientTyped
  /\ AcksOrdered /\ Serving /\ PendingUp /\ WayClear /\ GoodClient

----------------------------------------------------------------------------
(* The end of a handler.                                                     *)

\* A handler that ends sends what it wrote and gives a partial frame up.
LEMMA EndedGoes ==
  ASSUME NEW F, F \subseteq TopicFrame, NEW A, NEW c, Typed(c), Good(c, F, A)
  PROVE  Goes(c, Ended(c), F, A) /\ Fresh(Ended(c))
<1> DEFINE n == IF c.decoder.partial # NoPartial THEN c.decoder.partial.ord ELSE c.decoder.settled
           healed == [settled |-> n, faulted |-> FALSE, partial |-> NoPartial]
           decoder == IF c.heal THEN healed ELSE c.decoder
           none == <<>>
           d == [c EXCEPT !.out = none, !.heal = FALSE, !.decoder = decoder]
<1>0. Ended(c) = d
  BY DEF Ended, Healed
<1>1. c \in Client /\ c.decoder \in Decoder /\ c.decoder.settled \in Nat /\ c.heal \in BOOLEAN
  BY DEF Typed, Client, Decoder
<1>2. c.decoder.partial # NoPartial =>
        c.decoder.partial.ord \in Nat /\ c.decoder.partial.ord > c.decoder.settled
  <2>1. c.decoder.partial \in TopicFrame \cup {NoPartial}
    BY <1>1 DEF Decoder
  <2>2. \A f \in TopicFrame : f.ord \in Nat
    BY DEF TopicFrame
  <2> QED
    BY <2>1, <2>2 DEF Typed
<1>20. n \in Nat /\ n >= c.decoder.settled
  BY <1>1, <1>2
<1> HIDE DEF n
<1>3. healed \in Decoder /\ healed.settled >= c.decoder.settled /\ healed.partial = NoPartial
  BY <1>1, <1>20 DEF Decoder
<1> HIDE DEF healed
<1>4. /\ decoder \in Decoder /\ decoder.settled >= c.decoder.settled /\ decoder.settled \in Nat
      /\ decoder.partial # NoPartial => decoder.partial.ord > decoder.settled
  <2>1. CASE c.heal
    BY <1>3, <2>1 DEF Decoder
  <2>2. CASE ~c.heal
    BY <1>1, <2>2 DEF Typed
  <2> QED
    BY <2>1, <2>2
<1> HIDE DEF decoder
<1>5. none \in Seq(Request)
  BY EmptySeq
<1>12. none = <<>>
  OBVIOUS
<1> HIDE DEF none
<1>6. /\ d \in Client /\ d.view = c.view /\ d.sub = c.sub /\ d.calls = c.calls /\ d.based = c.based
      /\ d.active = c.active /\ d.decoder = decoder /\ d.recovery = c.recovery
      /\ d.out = none /\ d.heal = FALSE
  BY <1>1, <1>4, <1>5 DEF Client
<1> HIDE DEF d
<1>8. Typed(d)
  BY <1>4, <1>6 DEF Typed
<1>9. ViewTrue(d) /\ CallsGood(d, F) /\ BasedGood(d, F) /\ AcksGood(d, A) /\ d.sub < nextSub
  BY <1>6 DEF Good, ViewTrue, CallsGood, BasedGood, AcksGood
<1>10. AheadGood(d, F, A)
  <2> SUFFICES ASSUME NEW g \in F, Ahead(d, g, A)
               PROVE  Before(d.view.epoch, d.view.seq, g.epoch, g.to)
    BY DEF AheadGood
  <2>1. CASE \E a \in A : a.sub = g.sub
    BY <1>6, <2>1 DEF Good, AheadGood, Ahead
  <2>2. CASE g.sub = d.sub /\ d.active = d.sub /\ g.ord > d.decoder.settled
    <3>1. g.ord \in Nat
      BY DEF TopicFrame
    <3>2. g.ord > c.decoder.settled
      BY <1>1, <1>4, <1>6, <2>2, <3>1
    <3> QED
      BY <1>6, <2>2, <3>2 DEF Good, AheadGood, Ahead
  <2> QED
    BY <2>1, <2>2 DEF Ahead
<1>11. Advances(c, d)
  BY <1>6, ViewTyped DEF Advances, Before
<1> QED
  BY <1>0, <1>6, <1>12, <1>8, <1>9, <1>10, <1>11 DEF Goes, Good, Fresh

\* Fewer frames and ACKs are on their way.
LEMMA FewerOnTheWay ==
  ASSUME NEW F, NEW A, OnTheWay(F, A), NEW G, G \subseteq F, NEW B, B \subseteq A
  PROVE  OnTheWay(G, B)
BY DEF OnTheWay, Framed, Ordered, Named, Current

\* A store in good order is so with fewer of them.
LEMMA FewerGood ==
  ASSUME NEW F, NEW A, NEW c, Good(c, F, A), NEW G, G \subseteq F, NEW B, B \subseteq A,
         Waiting(c) \subseteq G, \A k \in c.calls : k.frames \in Seq(TopicFrame)
  PROVE  Good(c, G, B)
<1>1. CallsGood(c, G)
  <2> SUFFICES ASSUME NEW k \in c.calls
               PROVE  /\ k.base.epoch <= c.view.epoch
                      /\ \A i \in 1..Len(k.frames) : k.frames[i] \in G
    BY DEF CallsGood
  <2>1. k.frames \in Seq(TopicFrame)
    OBVIOUS
  <2>2. \A i \in 1..Len(k.frames) : k.frames[i] \in Waiting(c)
    BY <2>1 DEF Waiting, ToSet
  <2> QED
    BY <2>2 DEF Good, CallsGood
<1> QED
  BY <1>1 DEF Good, BasedGood, AcksGood, AheadGood, Ahead

----------------------------------------------------------------------------
(* The steps of the store: a handler, and its end.                           *)

\* The store handled something, and fewer frames and ACKs are on their way.
Handled ==
  /\ \E d : Goes(client, d, Frames, Acks') /\ Step(d)
  /\ ToSet(wire') \subseteq ToSet(wire) /\ wire' \in Seq(Message)
  /\ replies' \in Seq(Reply) /\ Acks' \subseteq Acks /\ AcksOrdered'
  /\ mishaps'.number \in 0..MaxMishaps

\* A call whose reply is handled is no more.
LEMMA CalledGoes ==
  ASSUME NEW F, NEW A, NEW c, Typed(c), Good(c, F, A), NEW k \in c.calls,
         NEW d, d = [c EXCEPT !.calls = @ \ {k}]
  PROVE  /\ Goes(c, d, F, A) /\ d.view = c.view
         /\ k \in Asked /\ k.base.epoch <= d.view.epoch /\ \A i \in 1..Len(k.frames) : k.frames[i] \in F
<1> DEFINE e == [c EXCEPT !.calls = c.calls \ {k}]
<1>1. d = e /\ c \in Client
  BY DEF Typed, Client
<1>2. IsFiniteSet(c.calls \ {k})
  BY FS_Subset DEF Typed
<1>3. /\ e \in Client /\ e.calls = c.calls \ {k}
      /\ e.view = c.view /\ e.sub = c.sub /\ e.active = c.active /\ e.based = c.based
      /\ e.decoder = c.decoder /\ e.recovery = c.recovery
  BY <1>1 DEF Client
<1> HIDE DEF e
<1>4. Calms(c, e)
  BY <1>2, <1>3 DEF Calms, Calm, Typed
<1>5. k \in Asked
  BY <1>1 DEF Client
<1>6. Goes(c, e, F, A)
  BY <1>4, CalmGoes
<1> QED
  BY <1>1, <1>3, <1>5, <1>6 DEF Good, CallsGood

\* What is left of a channel when its first message is taken.
LEMMA TailTyped ==
  ASSUME NEW S, NEW s \in Seq(S), s # <<>>
  PROVE  /\ Tail(s) \in Seq(S) /\ Len(Tail(s)) = Len(s) - 1 /\ Len(s) \in Nat \ {0}
         /\ \A i \in 1..Len(Tail(s)) : Tail(s)[i] = s[i + 1] /\ i + 1 \in 1..Len(s)
         /\ Head(s) = s[1] /\ Head(s) \in S /\ Head(s) \in ToSet(s)
         /\ ToSet(Tail(s)) \subseteq ToSet(s)
<1>1. /\ Tail(s) \in Seq(S) /\ Len(Tail(s)) = Len(s) - 1 /\ Len(s) \in Nat \ {0}
      /\ \A i \in 1..Len(Tail(s)) : Tail(s)[i] = s[i + 1] /\ i + 1 \in 1..Len(s)
  OBVIOUS
<1>2. Head(s) = s[1] /\ Head(s) \in S /\ DOMAIN s = 1..Len(s) /\ DOMAIN Tail(s) = 1..Len(Tail(s))
  BY <1>1
<1> QED
  BY <1>1, <1>2 DEF ToSet

\* The ACKs that are left when one is taken come after it.
LEMMA LaterAcks ==
  ASSUME IInv, replies # <<>>, replies' = Tail(replies), pending' = pending, IsAck(Head(replies))
  PROVE  \A b \in Acks' : b.sub > Head(replies).sub
<1> DEFINE a == Head(replies)
<1>1. /\ Len(replies') = Len(replies) - 1 /\ Len(replies) \in Nat \ {0}
      /\ \A i \in 1..Len(replies') : replies'[i] = replies[i + 1] /\ i + 1 \in 1..Len(replies)
      /\ a = replies[1] /\ a \in ToSet(replies) /\ ToSet(replies') \subseteq ToSet(replies)
  BY TailTyped DEF IInv, Channelled
<1> SUFFICES ASSUME NEW b \in Acks' PROVE b.sub > a.sub
  OBVIOUS
<1>2. b \in Acks /\ a \in Acks
  BY <1>1 DEF Acks
<1>3. a.sub \in Nat /\ b.sub \in Nat
  BY <1>2 DEF IInv, WayClear, OnTheWay, Named, Logged
<1>4. IsAck(b) /\ (b \in ToSet(replies') \/ b = pending)
  BY DEF Acks, IsAck
<1>5. CASE b = pending
  BY <1>1, <1>3, <1>4, <1>5 DEF IInv, AcksOrdered
<1>6. CASE b \in ToSet(replies')
  <2>1. PICK i \in 1..Len(replies') : b = replies'[i]
    BY <1>1, <1>6 DEF ToSet
  <2>2. 1 < i + 1 /\ i + 1 \in 1..Len(replies) /\ 1 \in 1..Len(replies) /\ b = replies[i + 1]
    BY <1>1, <2>1
  <2> QED
    BY <1>1, <1>3, <1>4, <2>2 DEF IInv, AcksOrdered
<1> QED
  BY <1>4, <1>5, <1>6

\* A reply is handled; a frame or an event of the runtime is handled.
LEMMA ReplyHandled ==
  ASSUME IInv, HandleReply, UNCHANGED topic
  PROVE  Handled
<1> DEFINE a == Head(replies)
           A == Acks
           B == Acks'
           F == Frames
<1>1. /\ replies # <<>> /\ replies' = Tail(replies) /\ wire' = wire /\ mishaps' = mishaps
      /\ pending' = pending
  BY DEF HandleReply, topic
<1>2. PICK k \in client.calls :
        LET c == [client EXCEPT !.calls = @ \ {k}]
        IN  Step(CASE a.type = "subscribed" -> Acked(c, k, a)
                   [] a.type = "resynced" -> Resynced(c, k, a)
                   [] a.type = "failed" -> Failed(c, k, a.why))
  BY DEF HandleReply
<1> DEFINE c == [client EXCEPT !.calls = @ \ {k}]
<1>3. /\ replies \in Seq(Reply) /\ wire \in Seq(Message) /\ mishaps.number \in 0..MaxMishaps
      /\ AcksOrdered /\ Typed(client) /\ Good(client, F, A) /\ OnTheWay(F, A)
  BY DEF IInv, Channelled, ClientTyped, WayClear, GoodClient
<1>4. /\ replies' \in Seq(Reply) /\ Len(replies') = Len(replies) - 1 /\ Len(replies) \in Nat \ {0}
      /\ \A i \in 1..Len(replies') : replies'[i] = replies[i + 1] /\ i + 1 \in 1..Len(replies)
      /\ a = replies[1] /\ a \in Reply /\ a \in ToSet(replies) /\ ToSet(replies') \subseteq ToSet(replies)
  BY <1>1, <1>3, TailTyped
<1>5. B \subseteq A /\ (IsAck(a) => a \in A)
  BY <1>1, <1>4 DEF Acks
<1>6. AcksOrdered'
  <2>1. ASSUME NEW i \in 1..Len(replies'), NEW j \in 1..Len(replies'), i < j,
               IsAck(replies'[i]), IsAck(replies'[j])
        PROVE  replies'[i].sub < replies'[j].sub
    BY <1>3, <1>4, <2>1 DEF AcksOrdered
  <2>2. ASSUME NEW i \in 1..Len(replies'), IsAck(replies'[i]), IsAck(pending')
        PROVE  replies'[i].sub < pending'.sub
    BY <1>1, <1>3, <1>4, <2>2 DEF AcksOrdered
  <2> QED
    BY <2>1, <2>2 DEF AcksOrdered, IsAck
<1>7. IsAck(a) => \A b \in B : b.sub > a.sub
  BY <1>1, LaterAcks
<1> HIDE DEF A, B, F
<1>8. /\ Goes(client, c, F, A) /\ c.view = client.view
      /\ k \in Asked /\ k.base.epoch <= c.view.epoch /\ \A i \in 1..Len(k.frames) : k.frames[i] \in F
  BY <1>3, CalledGoes
<1> HIDE DEF c
<1>9. Typed(c) /\ Good(c, F, A) /\ OnTheWay(F, B)
  BY <1>3, <1>5, <1>8, FewerOnTheWay DEF Goes
<1>10. Good(c, F, B) /\ Goes(client, c, F, B)
  BY <1>5, <1>8, <1>9 DEF Good, AcksGood, AheadGood, Ahead, Goes
<1> DEFINE d == CASE a.type = "subscribed" -> Acked(c, k, a)
                  [] a.type = "resynced" -> Resynced(c, k, a)
                  [] a.type = "failed" -> Failed(c, k, a.why)
<1>11. Goes(client, d, F, B)
  <2>1. a \in Reply /\ a.type \in {"subscribed", "resynced", "failed"}
    BY <1>4 DEF Reply
  <2>2. a.type # "failed" => a.sub \in Nat /\ a.epoch \in Nat /\ a.mode \in Mode
    BY <2>1 DEF Reply
  <2> HIDE DEF a
  <2>3. CASE a.type = "subscribed"
    <3>1. a \in A /\ \A b \in B : b.sub > a.sub
      BY <1>5, <1>7, <2>3 DEF IsAck
    <3>2. d = Acked(c, k, a)
      BY <2>3
    <3>3. Goes(c, Acked(c, k, a), F, B)
      BY <1>3, <1>5, <1>8, <1>9, <2>2, <2>3, <3>1, AckedGoes
    <3> HIDE DEF d
    <3> QED
      BY <1>3, <1>9, <1>10, <3>2, <3>3, GoesAgain
  <2>4. CASE a.type = "resynced"
    <3>1. d = Resynced(c, k, a)
      BY <2>4
    <3>2. Goes(c, Resynced(c, k, a), F, B)
      BY <1>9, <1>10, <2>2, <2>4, ResyncedGoes
    <3> HIDE DEF d
    <3> QED
      BY <1>3, <1>9, <1>10, <3>1, <3>2, GoesAgain
  <2>5. CASE a.type = "failed"
    <3>1. d = Failed(c, k, a.why)
      BY <2>5
    <3>2. Goes(c, Failed(c, k, a.why), F, B)
      BY <1>8, <1>9, <1>10, FailedGoes
    <3> HIDE DEF d
    <3> QED
      BY <1>3, <1>9, <1>10, <3>1, <3>2, GoesAgain
  <2> QED
    BY <2>1, <2>3, <2>4, <2>5
<1>12. Step(d)
  BY <1>2 DEF c
<1> HIDE DEF d
<1>13. \E e : Goes(client, e, Frames, Acks') /\ Step(e)
  BY <1>11, <1>12 DEF F, B
<1> QED
  BY <1>1, <1>3, <1>4, <1>5, <1>6, <1>13 DEF Handled, A, B

\* No reply is handled.
LEMMA OthersHandled ==
  ASSUME IInv, UNCHANGED <<topic, replies>>,
         wire' = wire \/ (wire # <<>> /\ wire' = Tail(wire)),
         mishaps'.number \in 0..MaxMishaps,
         \E d : Goes(client, d, Frames, Acks) /\ Step(d)
  PROVE  Handled
<1>1. Acks' = Acks /\ replies' = replies /\ pending' = pending
  BY DEF Acks, IsAck, topic
<1>2. AcksOrdered'
  BY <1>1 DEF IInv, AcksOrdered, IsAck
<1>3. wire \in Seq(Message) /\ replies' \in Seq(Reply)
  BY <1>1 DEF IInv, Channelled
<1>4. ToSet(wire') \subseteq ToSet(wire) /\ wire' \in Seq(Message)
  BY <1>3, TailTyped
<1> QED
  BY <1>1, <1>2, <1>3, <1>4 DEF Handled

\* Likewise.
LEMMA WireHandled ==
  ASSUME IInv, HandleWire, UNCHANGED topic
  PROVE  Handled
<1> DEFINE m == Head(wire)
           F == Frames
           A == Acks
           d == CASE m.type = "frame" -> Accept(client, m)
                  [] m.type = "unavailable" -> Unavailable(client)
                  [] m.type = "restarted" -> Restarted(client)
                  [] m.type = "available" -> Available(client)
<1>1. /\ wire # <<>> /\ wire' = Tail(wire) /\ Step(d)
      /\ replies' = replies /\ mishaps' = mishaps
  BY DEF HandleWire
<1>2. /\ Typed(client) /\ Good(client, F, A) /\ OnTheWay(F, A)
      /\ wire \in Seq(Message) /\ mishaps'.number \in 0..MaxMishaps
  BY <1>1 DEF IInv, ClientTyped, GoodClient, WayClear, Channelled
<1>3. m \in Message /\ m \in ToSet(wire)
  BY <1>1, <1>2, TailTyped
<1>4. m.type = "frame" => m \in F
  BY <1>3 DEF Frames, OnWire
<1>5. m.type \in {"frame", "unavailable", "restarted", "available"}
  BY <1>3 DEF Message, TopicFrame
<1> HIDE DEF F, A, m
<1>6. Goes(client, d, F, A)
  <2>1. CASE m.type = "frame"
    BY <1>2, <1>4, <2>1, AcceptGoes
  <2>2. CASE m.type = "unavailable"
    BY <1>2, <2>2, UnavailableGoes
  <2>3. CASE m.type = "restarted"
    BY <1>2, <2>3, RestartedGoes
  <2>4. CASE m.type = "available"
    BY <1>2, <2>4, AvailableGoes
  <2> QED
    BY <1>5, <2>1, <2>2, <2>3, <2>4
<1> HIDE DEF d
<1>7. \E e : Goes(client, e, Frames, Acks) /\ Step(e)
  BY <1>1, <1>6 DEF F, A
<1> QED
  BY <1>1, <1>2, <1>7, OthersHandled

\* A step that is calm.
LEMMA CalmHandled ==
  ASSUME IInv, UNCHANGED <<topic, replies, wire>>, mishaps'.number \in 0..MaxMishaps,
         NEW d, Calms(client, d), Step(d)
  PROVE  Handled
<1>1. Goes(client, d, Frames, Acks)
  BY CalmGoes DEF IInv, ClientTyped, GoodClient
<1> QED
  BY <1>1, OthersHandled

\* Disturbances are counted.
LEMMA Mishaps ==
  ASSUME IInv, NEW kind, Mishap(kind)
  PROVE  mishaps'.number \in 0..MaxMishaps
<1>1. mishaps.number \in 0..MaxMishaps /\ MaxMishaps \in Nat
  BY WireAssumption DEF IInv, Channelled
<1> QED
  BY <1>1 DEF Mishap

\* A timer fires, the user retries, the authority is stale.
LEMMA TimerHandled ==
  ASSUME IInv, UNCHANGED topic, Open \/ Expire \/ Deadline \/ RetryTimer \/ UserRetry \/ StaleAuthority
  PROVE  Handled
<1>1. /\ Typed(client) /\ client \in Client
      /\ UNCHANGED mishaps => mishaps'.number \in 0..MaxMishaps
  BY DEF IInv, ClientTyped, Channelled, Typed
<1>2. CASE Open
  <2>1. Calms(client, Connect(client, FALSE))
    BY <1>1, ConnectCalm
  <2> QED
    BY <1>1, <1>2, <2>1, CalmHandled DEF Open
<1>3. CASE Expire
  <2> DEFINE f == client.decoder.partial
             c == SettleOrd(client, f)
  <2>0. f # NoPartial /\ Step(Fault(c, f)) /\ UNCHANGED <<replies, wire, mishaps>>
    BY <1>3 DEF Expire
  <2>1. f \in TopicFrame
    BY <1>1, <2>0 DEF Client, Decoder
  <2>2. Frames \subseteq TopicFrame /\ Good(client, Frames, Acks)
    BY DEF IInv, WayClear, OnTheWay, Framed, GoodClient
  <2> HIDE DEF f
  <2>3. Moves(client, c, Frames, Acks)
    BY <1>1, <2>1, <2>2, SettleOrdMoves
  <2> HIDE DEF c
  <2>4. Typed(c) /\ Good(c, Frames, Acks)
    BY <2>3 DEF Moves
  <2>5. Goes(c, Fault(c, f), Frames, Acks)
    BY <2>1, <2>4, FaultCalm, CalmGoes
  <2>6. Goes(client, Fault(c, f), Frames, Acks)
    BY <1>1, <2>3, <2>4, <2>5, MovesGoes, GoesAgain
  <2> QED
    BY <1>1, <2>0, <2>6, OthersHandled
<1>4. CASE Deadline
  <2> DEFINE d == IF ~client.recovery.force THEN Issue(client, TRUE) ELSE FailRecovery(client)
  <2>1. client.recovery # NoRecovery /\ Step(d) /\ UNCHANGED <<replies, wire, mishaps>>
    BY <1>4 DEF Deadline
  <2>2. client.sub # None
    BY <1>1, <2>1 DEF Typed
  <2>3. Calms(client, d)
    BY <1>1, <2>2, IssueCalm, FailRecoveryCalm
  <2> HIDE DEF d
  <2> QED
    BY <1>1, <2>1, <2>3, CalmHandled
<1>5. CASE RetryTimer
  <2> DEFINE c == [client EXCEPT !.retry = "none"]
             d == IF client.retry = "armed" THEN Connect(c, FALSE) ELSE c
  <2>1. Step(d) /\ UNCHANGED <<replies, wire, mishaps>>
    BY <1>5 DEF RetryTimer
  <2>2. Typed(c) /\ Rest(client, c)
    BY <1>1 DEF Typed, Client, Rest
  <2> HIDE DEF c
  <2>3. Calms(client, c) /\ Calms(c, Connect(c, FALSE))
    BY <2>2, RestIsCalm, ConnectCalm
  <2>4. Calms(client, d)
    BY <2>3, CalmAgain
  <2> HIDE DEF d
  <2> QED
    BY <1>1, <2>1, <2>4, CalmHandled
<1>6. CASE UserRetry
  <2> DEFINE c == [client EXCEPT !.retry = "none", !.attempts = 0]
             d == Connect(c, FALSE)
  <2>1. Step(d) /\ UNCHANGED <<replies, wire, mishaps>>
    BY <1>6 DEF UserRetry
  <2>2. 0 \in 0..MaxAttempts
    BY StoreAssumption
  <2>3. /\ c \in Client /\ c.view = client.view /\ c.calls = client.calls /\ c.sub = client.sub
        /\ c.based = client.based /\ c.active = client.active /\ c.decoder = client.decoder
        /\ c.recovery = client.recovery
    BY <1>1, <2>2 DEF Client
  <2> HIDE DEF c
  <2>4. Typed(c) /\ Rest(client, c)
    BY <1>1, <2>3 DEF Typed, Rest
  <2>5. Calms(client, d)
    BY <2>4, RestIsCalm, ConnectCalm, CalmAgain
  <2> HIDE DEF d
  <2> QED
    BY <1>1, <2>1, <2>5, CalmHandled
<1>7. CASE StaleAuthority
  <2>1. /\ Mishap("stale") /\ Step(RequestRecovery(client, FALSE))
        /\ UNCHANGED <<replies, wire>>
    BY <1>7 DEF StaleAuthority
  <2>2. Calms(client, RequestRecovery(client, FALSE))
    BY <1>1, RequestRecoveryCalm
  <2> QED
    BY <2>1, <2>2, Mishaps, CalmHandled
<1> QED
  BY <1>2, <1>3, <1>4, <1>5, <1>6, <1>7

\* The page closes.
LEMMA CloseHandled ==
  ASSUME IInv, UNCHANGED topic, Close
  PROVE  Handled
<1> DEFINE c == [NewGeneration(DiscardRecovery(client)) EXCEPT
                   !.status = "closed", !.sub = None, !.retry = "none", !.awaiting = NoAwait, !.based = FALSE]
           left == Unsubscribe([c EXCEPT !.active = None, !.decoder = FreshDecoder], client.sub)
           d == IF client.sub = None THEN c ELSE left
<1>1. Mishap("close") /\ Step(d) /\ UNCHANGED <<replies, wire>>
  BY DEF Close
<1>2. Goes(client, c, Frames, Acks) /\ Goes(client, left, Frames, Acks)
  BY ClosingGoes DEF IInv, ClientTyped, GoodClient, WayClear
<1> HIDE DEF c, left
<1>3. Goes(client, d, Frames, Acks)
  BY <1>2
<1> HIDE DEF d
<1> QED
  BY <1>1, <1>3, Mishaps, OthersHandled

\* Every step of the store is a handler and its end.
LEMMA StoreHandled ==
  ASSUME IInv, Store, UNCHANGED topic
  PROVE  Handled
BY ReplyHandled, WireHandled, TimerHandled, CloseHandled DEF Store

----------------------------------------------------------------------------
\* A step of the store keeps the invariant, and moves the page on.
LEMMA StoreKeeps ==
  ASSUME IInv, Store, UNCHANGED topic
  PROVE  IInv' /\ Advances(client, client')
<1> DEFINE F == Frames
           G == Frames'
           B == Acks'
<1>1. PICK d : Goes(client, d, F, B) /\ Step(d)
  BY StoreHandled DEF Handled
<1>2. /\ ToSet(wire') \subseteq ToSet(wire) /\ wire' \in Seq(Message) /\ replies' \in Seq(Reply)
      /\ B \subseteq Acks /\ AcksOrdered' /\ mishaps'.number \in 0..MaxMishaps
  BY StoreHandled DEF Handled
<1>3. /\ Typed(client) /\ OnTheWay(F, Acks) /\ F \subseteq TopicFrame
      /\ requests \in Seq(Request) /\ pending \in Outcome \cup {NoReply}
  BY DEF IInv, ClientTyped, WayClear, OnTheWay, Framed, Channelled
<1>4. client' = Ended(d) /\ requests' = requests \o d.out /\ Typed(d) /\ Good(d, F, B)
  BY <1>1 DEF Step, Goes
<1>5. Goes(d, client', F, B) /\ Fresh(client')
  BY <1>3, <1>4, EndedGoes
<1>6. Typed(client') /\ Good(client', F, B) /\ Advances(client, client')
  BY <1>1, <1>3, <1>4, <1>5, GoesAgain DEF Goes
<1>7. requests' \in Seq(Request)
  <2>1. d.out \in Seq(Request)
    BY <1>4 DEF Typed, Client
  <2> QED
    BY <1>3, <1>4, <2>1
<1>8. \A k \in client'.calls : k.frames \in Seq(TopicFrame)
  BY <1>6 DEF Typed, Client, Asked
<1>9. Waiting(client') \subseteq F
  <2> SUFFICES ASSUME NEW k \in client'.calls, NEW f \in ToSet(k.frames) PROVE f \in F
    BY DEF Waiting
  <2>1. k.frames \in Seq(TopicFrame)
    BY <1>8
  <2>2. \A i \in 1..Len(k.frames) : k.frames[i] \in F
    BY <1>6 DEF Good, CallsGood
  <2>3. PICK i \in 1..Len(k.frames) : f = k.frames[i]
    BY <2>1 DEF ToSet
  <2> QED
    BY <2>2, <2>3
<1>10. pending' = pending
  BY DEF topic
<1>11. G = OnWire(wire') \cup Waiting(client') \cup Reserved(pending')
  BY DEF Frames, OnWire, Waiting, Reserved
<1>12. G \subseteq F /\ Waiting(client') \subseteq G
  BY <1>2, <1>9, <1>10, <1>11 DEF Frames, OnWire
<1> HIDE DEF F, G, B
<1>13. OnTheWay(G, B)
  BY <1>2, <1>3, <1>12, FewerOnTheWay
<1>14. Good(client', G, B)
  BY <1>6, <1>8, <1>12, FewerGood
<1>15. LogsTyped' /\ Channelled' /\ Subscribed' /\ ClientTyped' /\ PendingUp'
  BY <1>2, <1>3, <1>5, <1>6, <1>7 DEF IInv, LogsTyped, Channelled, Subscribed, ClientTyped, PendingUp, topic,
     Typed, Fresh, epoch, log, currentSeq
<1>16. Serving'
  <2>1. \A f \in G : f \in F
    BY <1>12
  <2>2. Serving
    BY DEF IInv
  <2> QED
    BY <2>1, <2>2 DEF Serving, SentTo, topic, epoch, log, currentSeq, F, G
<1>17. WayClear'
  BY <1>13 DEF WayClear, OnTheWay, Logged, Framed, TrueFrame, Ordered, Named, Current, topic, epoch, G, B
<1>18. GoodClient'
  BY <1>14 DEF GoodClient, Good, ViewTrue, CallsGood, BasedGood, AcksGood, AheadGood, Ahead, topic, epoch, G, B
<1> QED
  BY <1>2, <1>6, <1>15, <1>16, <1>17, <1>18 DEF IInv

----------------------------------------------------------------------------
(* The steps of the agent.                                                   *)

\* Nothing new is on its way.
LEMMA Kept ==
  ASSUME IInv, UNCHANGED <<client, logs, nextSub>>,
         sub' # NoSub => sub # NoSub /\ sub'.id = sub.id,
         Frames' \subseteq Frames, Waiting(client) \subseteq Frames',
         \A b \in Acks' : \E a \in Acks : a.sub = b.sub /\ a.epoch = b.epoch
  PROVE  WayClear' /\ GoodClient'
<1> DEFINE F == Frames
           G == Frames'
           A == Acks
           B == Acks'
<1>1. OnTheWay(F, A) /\ Good(client, F, A) /\ Typed(client)
  BY DEF IInv, WayClear, GoodClient, ClientTyped
<1>2. G \subseteq F /\ \A b \in B : \E a \in A : a.sub = b.sub /\ a.epoch = b.epoch
  OBVIOUS
<1>3. \A k \in client.calls : k.frames \in Seq(TopicFrame)
  BY <1>1 DEF Typed, Client, Asked
<1>4. Waiting(client) \subseteq G
  OBVIOUS
<1> HIDE DEF F, G, A, B
<1>5. Good(client, G, A)
  BY <1>1, <1>2, <1>3, <1>4, FewerGood
<1>6. Good(client, G, B) /\ OnTheWay(G, A)
  BY <1>1, <1>2, <1>5, FewerOnTheWay DEF Good, AcksGood, AheadGood, Ahead
<1>7. Named(G, B) /\ Current(G, B)
  BY <1>2, <1>6 DEF OnTheWay, Named, Current
<1>8. OnTheWay(G, B)
  BY <1>6, <1>7 DEF OnTheWay
<1>9. WayClear'
  BY <1>8 DEF WayClear, OnTheWay, Logged, Framed, TrueFrame, Ordered, Named, Current, epoch, G, B
<1>10. GoodClient'
  BY <1>6 DEF GoodClient, Good, ViewTrue, CallsGood, BasedGood, AcksGood, AheadGood, Ahead, epoch, G, B
<1> QED
  BY <1>9, <1>10

\* What is at its latest in a log.
LEMMA Latest ==
  ASSUME IInv, sub # NoSub \/ up
  PROVE  /\ epoch \in DOMAIN logs /\ epoch \in Nat \ {0} /\ currentSeq \in Nat /\ log \in Seq(Event)
         /\ currentSeq = Len(logs[epoch]) /\ epoch <= MaxEpochs
         /\ \A f \in Frames : Before(f.epoch, f.to, epoch, currentSeq) /\ f.epoch <= epoch
         /\ \A a \in Acks : a.epoch <= epoch
         /\ Before(client.view.epoch, client.view.seq, epoch, currentSeq) /\ client.view.epoch <= epoch
<1>1. up /\ logs # <<>> /\ logs \in Seq(Seq(Event)) /\ Len(logs) <= MaxEpochs
  BY DEF IInv, Serving, LogsTyped
<1>2. epoch \in DOMAIN logs /\ epoch \in Nat \ {0} /\ epoch <= MaxEpochs /\ DOMAIN logs = 1..epoch
  BY <1>1 DEF epoch
<1>3. logs[epoch] \in Seq(Event)
  BY <1>1, <1>2
<1>4. currentSeq \in Nat /\ log \in Seq(Event) /\ currentSeq = Len(logs[epoch])
  BY <1>3 DEF currentSeq, log
<1>5. \A f \in Frames : Before(f.epoch, f.to, epoch, currentSeq) /\ f.epoch <= epoch
  BY <1>2, <1>4 DEF IInv, WayClear, OnTheWay, Framed, TrueFrame, Before
<1>6. \A a \in Acks : a.epoch <= epoch
  BY <1>2 DEF IInv, WayClear, OnTheWay, Named
<1>7. ViewTrue(client)
  BY DEF IInv, GoodClient, Good
<1>8. Before(client.view.epoch, client.view.seq, epoch, currentSeq) /\ client.view.epoch <= epoch
  BY <1>2, <1>4, <1>7 DEF ViewTrue, NoView, None, Before
<1> QED
  BY <1>2, <1>4, <1>5, <1>6, <1>8

\* A frame of the subscription, with all there is of the log.
LEMMA Extended ==
  ASSUME IInv, UNCHANGED <<client, logs, nextSub>>, sub # NoSub, sub' # NoSub, sub'.id = sub.id,
         NEW g \in TopicFrame, Frames' = Frames \cup {g}, Acks' = Acks \/ \A b \in Acks' : b \in Acks,
         g.sub = sub.id, g.ord = sub.ord, g.epoch = epoch, g.to = currentSeq,
         g.from <= g.to, g.rows = Shown(log, g.from, g.to), g.snap => g.from = 0
  PROVE  WayClear' /\ GoodClient'
<1> DEFINE F == Frames
           G == F \cup {g}
           A == Acks
           B == Acks'
           c == client
<1>1. OnTheWay(F, A) /\ Good(c, F, A) /\ Typed(c) /\ Serving
  BY DEF IInv, WayClear, GoodClient, ClientTyped
<1>2. /\ epoch \in DOMAIN logs /\ epoch \in Nat \ {0} /\ currentSeq \in Nat /\ log = logs[epoch]
      /\ currentSeq = Len(logs[epoch])
      /\ \A f \in F : Before(f.epoch, f.to, epoch, currentSeq) /\ f.epoch <= epoch
      /\ \A a \in A : a.epoch <= epoch
      /\ Before(c.view.epoch, c.view.seq, epoch, currentSeq) /\ c.view.epoch <= epoch
  BY Latest DEF log
<1>3. /\ sub.id = nextSub - 1 /\ sub.id # 0 /\ nextSub \in Nat \ {0} /\ sub.id \in Nat \ {0} /\ sub.ord \in Nat
      /\ \A f \in F : f.sub = sub.id => f.epoch = epoch /\ f.ord < sub.ord
  BY <1>1 DEF Serving, IInv, Subscribed, Subscription, NoSub, None
<1>4. \A f \in F : f.sub \in Nat /\ f.ord \in Nat /\ f.epoch \in Nat /\ f.to \in Nat /\ f.sub <= sub.id
  BY <1>1, <1>3 DEF OnTheWay, Framed, TrueFrame, TopicFrame
<1>5. g.sub \in Nat /\ g.ord \in Nat /\ g.epoch \in Nat /\ g.to \in Nat
  BY DEF TopicFrame
<1>6. B \subseteq A
  OBVIOUS
<1>20. Frames' = G
  OBVIOUS
<1>21. c.sub \in Nat /\ c.view.epoch \in Nat
  BY <1>1, ViewTyped
<1> HIDE DEF F, A, B
<1>7. Framed(G)
  <2>1. TrueFrame(g)
    BY <1>2, <1>3 DEF TrueFrame
  <2> QED
    BY <1>1, <2>1 DEF OnTheWay, Framed
<1>8. Ordered(G)
  <2> SUFFICES ASSUME NEW f \in G, NEW h \in G
               PROVE  /\ Before(f.sub, f.ord, h.sub, h.ord) => Before(f.epoch, f.to, h.epoch, h.to)
                      /\ f.sub = h.sub => f.epoch = h.epoch
    BY DEF Ordered
  <2>1. CASE f \in F /\ h \in F
    BY <1>1, <2>1 DEF OnTheWay, Ordered
  <2>2. CASE f \in F /\ h = g
    BY <1>2, <1>3, <2>2
  <2>3. CASE f = g /\ h \in F
    <3>1. ~Before(g.sub, g.ord, h.sub, h.ord)
      BY <1>3, <1>4, <1>5, <2>3 DEF Before
    <3> QED
      BY <1>3, <2>3, <3>1
  <2>4. CASE f = g /\ h = g
    BY <1>5, <2>4 DEF Before
  <2> QED
    BY <2>1, <2>2, <2>3, <2>4
<1>9. Named(G, B)
  <2> SUFFICES ASSUME NEW a \in B
               PROVE  /\ a.sub \in 1..nextSub - 1 /\ a.epoch \in DOMAIN logs
                      /\ \A f \in G : (f.sub <= a.sub => f.epoch <= a.epoch) /\ (f.sub = a.sub => f.epoch = a.epoch)
    BY DEF Named
  <2>1. /\ a.sub \in 1..nextSub - 1 /\ a.epoch \in DOMAIN logs
        /\ \A f \in F : (f.sub <= a.sub => f.epoch <= a.epoch) /\ (f.sub = a.sub => f.epoch = a.epoch)
    BY <1>1, <1>6 DEF OnTheWay, Named
  <2>2. a.sub = sub.id => a.epoch = epoch
    BY <1>1, <1>6 DEF OnTheWay, Current
  <2>3. g.sub <= a.sub => a.sub = sub.id
    BY <1>3, <2>1
  <2>4. (g.sub <= a.sub => g.epoch <= a.epoch) /\ (g.sub = a.sub => g.epoch = a.epoch)
    BY <1>2, <2>2, <2>3
  <2> QED
    BY <2>1, <2>4
<1>10. Current(G, B)
  BY <1>1, <1>6 DEF OnTheWay, Current
<1>11. OnTheWay(G, B)
  BY <1>1, <1>7, <1>8, <1>9, <1>10 DEF OnTheWay
<1>12. Good(c, G, B)
  <2>1. CallsGood(c, G) /\ ViewTrue(c) /\ AcksGood(c, B) /\ c.sub < nextSub
    BY <1>1, <1>6 DEF Good, CallsGood, AcksGood
  <2>2. BasedGood(c, G)
    BY <1>1, <1>2 DEF Good, BasedGood
  <2>3. AheadGood(c, G, B)
    BY <1>1, <1>2, <1>6 DEF Good, AheadGood, Ahead
  <2> QED
    BY <2>1, <2>2, <2>3 DEF Good
<1> HIDE DEF G
<1>13. WayClear'
  BY <1>11, <1>20 DEF WayClear, OnTheWay, Logged, Framed, TrueFrame, Ordered, Named, Current, epoch, B
<1>14. GoodClient'
  BY <1>12, <1>20 DEF GoodClient, Good, ViewTrue, CallsGood, BasedGood, AcksGood, AheadGood, Ahead, epoch, B
<1> QED
  BY <1>13, <1>14

\* A log goes on with another.
Continues(l, m) ==
  /\ Len(l) <= Len(m)
  /\ \A from, to \in Nat : from <= to /\ to <= Len(l) => Shown(m, from, to) = Shown(l, from, to)

\* Logs grow, or there is another.
LEMMA Grown ==
  ASSUME IInv, UNCHANGED <<client, nextSub>>, Frames' = Frames, Acks' = Acks,
         logs' \in Seq(Seq(Event)), Len(logs) <= Len(logs'),
         \A e \in DOMAIN logs : Continues(logs[e], logs'[e]),
         sub' # NoSub => sub # NoSub /\ sub'.id = sub.id /\ Len(logs') = Len(logs)
  PROVE  WayClear' /\ GoodClient'
<1> DEFINE F == Frames
           A == Acks
           c == client
           m == logs'
<1>1. OnTheWay(F, A) /\ Good(c, F, A) /\ Typed(c)
  BY DEF IInv, WayClear, GoodClient, ClientTyped
<1>2. logs \in Seq(Seq(Event)) /\ m \in Seq(Seq(Event)) /\ \A e \in DOMAIN logs : e \in DOMAIN m
  BY DEF IInv, LogsTyped
<1>3. \A e \in DOMAIN logs : logs[e] \in Seq(Event) /\ m[e] \in Seq(Event) /\ Len(logs[e]) \in Nat /\ Len(m[e]) \in Nat
  BY <1>2
<1>4. ASSUME NEW e \in DOMAIN logs, NEW from \in Nat, NEW to \in Nat, from <= to, to <= Len(logs[e])
      PROVE  to <= Len(m[e]) /\ Shown(m[e], from, to) = Shown(logs[e], from, to)
  <2>1. Continues(logs[e], m[e])
    OBVIOUS
  <2> HIDE DEF m
  <2> QED
    BY <1>3, <1>4, <2>1 DEF Continues
<1>5. Frames' = F /\ Acks' = A /\ client' = c
  OBVIOUS
<1>6. sub' # NoSub => sub # NoSub /\ sub'.id = sub.id /\ Len(m) = Len(logs)
  OBVIOUS
<1>7. nextSub' = nextSub
  OBVIOUS
<1> HIDE DEF F, A
<1>8. ASSUME NEW f \in F
      PROVE  /\ f.epoch \in DOMAIN m /\ f.to <= Len(m[f.epoch])
             /\ f.rows = Shown(m[f.epoch], f.from, f.to)
             /\ f.sub \in 1..nextSub - 1 /\ f.from <= f.to /\ (f.snap => f.from = 0)
  <2>1. /\ f.sub \in 1..nextSub - 1 /\ f.epoch \in DOMAIN logs /\ f.from <= f.to /\ f.to <= Len(logs[f.epoch])
        /\ f.rows = Shown(logs[f.epoch], f.from, f.to) /\ (f.snap => f.from = 0)
        /\ f.from \in Nat /\ f.to \in Nat
    BY <1>1 DEF OnTheWay, Framed, TrueFrame, TopicFrame
  <2> HIDE DEF m
  <2> QED
    BY <1>2, <1>4, <2>1
<1>9. ViewTrue(c)'
  <2>1. CASE c.view = NoView
    BY <2>1, <1>5 DEF ViewTrue
  <2>2. CASE c.view # NoView
    <3>1. /\ c.view.epoch \in DOMAIN logs /\ c.view.seq <= Len(logs[c.view.epoch]) /\ c.view.seq \in Nat
          /\ c.view.rows = Shown(logs[c.view.epoch], 0, c.view.seq)
      BY <1>1, <2>2, ViewTyped DEF Good, ViewTrue
    <3>2. /\ c.view.epoch \in DOMAIN m /\ c.view.seq <= Len(m[c.view.epoch])
          /\ c.view.rows = Shown(m[c.view.epoch], 0, c.view.seq)
      <4> HIDE DEF m
      <4>1. 0 \in Nat /\ 0 <= c.view.seq
        BY <3>1
      <4> QED
        BY <1>2, <1>4, <3>1, <4>1
    <3> QED
      BY <1>5, <3>2 DEF ViewTrue
  <2> QED
    BY <2>1, <2>2
<1>10. WayClear'
  <2>1. Logged' /\ Framed(Frames)'
    BY <1>1, <1>2, <1>5, <1>7, <1>8 DEF OnTheWay, Logged, Framed, TrueFrame
  <2>2. Ordered(Frames)' /\ Named(Frames, Acks)' /\ Current(Frames, Acks)'
    BY <1>1, <1>2, <1>5, <1>6, <1>7 DEF OnTheWay, Ordered, Named, Current, epoch
  <2> QED
    BY <2>1, <2>2 DEF WayClear, OnTheWay
<1>11. GoodClient'
  <2>1. BasedGood(client, Frames)'
    BY <1>1, <1>5, <1>6 DEF Good, BasedGood, epoch
  <2>2. CallsGood(client, Frames)' /\ AcksGood(client, Acks)' /\ AheadGood(client, Frames, Acks)' /\ (client.sub < nextSub)'
    BY <1>1, <1>5, <1>7 DEF Good, CallsGood, AcksGood, AheadGood, Ahead
  <2> QED
    BY <1>9, <2>1, <2>2 DEF GoodClient, Good
<1> QED
  BY <1>10, <1>11

\* The event that is written next.
LEMMA NewEvent ==
  ASSUME IInv, up, currentSeq < MaxEvents
  PROVE  /\ <<epoch, currentSeq + 1>> \in Event
         /\ <<epoch, currentSeq + 1>> \in Visible <=> currentSeq + 1 \notin Hidden
<1>1. epoch \in 1..MaxEpochs /\ currentSeq + 1 \in 1..MaxEvents
  <2>1. epoch \in Nat \ {0} /\ epoch <= MaxEpochs /\ currentSeq \in Nat
    BY Latest
  <2>2. MaxEpochs \in Nat /\ MaxEvents \in Nat
    BY WireAssumption
  <2> HIDE DEF epoch, currentSeq
  <2> QED
    BY <2>1, <2>2
<1> QED
  BY <1>1 DEF Event, Visible

\* Ingest keeps the invariant; the current log gets one more event.
LEMMA IngestKeeps ==
  ASSUME IInv, Ingest, UNCHANGED client
  PROVE  IInv' /\ logs' = [logs EXCEPT ![epoch] = Append(@, <<epoch, currentSeq + 1>>)] /\ logs # <<>>
<1> DEFINE new == <<epoch, currentSeq + 1>>
           l == Append(log, new)
<1>1. /\ up /\ currentSeq < MaxEvents
      /\ logs' = [logs EXCEPT ![epoch] = Append(logs[epoch], new)]
      /\ floor' = IF currentSeq + 1 > floor + Retention THEN currentSeq + 1 - Retention ELSE floor
      /\ sub' = IF sub = NoSub THEN sub
                ELSE IF currentSeq + 1 \in Hidden \/ sub.resync THEN sub
                ELSE IF Len(sub.buffer) < MaxBuffer THEN [sub EXCEPT !.buffer = Append(@, new)]
                ELSE [sub EXCEPT !.buffer = <<>>, !.resync = TRUE]
      /\ UNCHANGED <<up, nextSub, pending, route, channels>>
  BY DEF Ingest
<1>2. /\ epoch \in DOMAIN logs /\ epoch \in Nat \ {0} /\ currentSeq \in Nat /\ log \in Seq(Event)
      /\ currentSeq = Len(log) /\ log = logs[epoch] /\ epoch <= MaxEpochs
  BY <1>1, Latest DEF currentSeq, log
<1>3. new \in Event /\ (new \in Visible <=> currentSeq + 1 \notin Hidden)
  BY <1>1, NewEvent
<1>4. /\ logs \in Seq(Seq(Event)) /\ Len(logs) <= MaxEpochs /\ floor \in Nat /\ floor <= currentSeq
      /\ \A e \in DOMAIN logs : Len(logs[e]) <= MaxEvents
      /\ up \in BOOLEAN /\ logs # <<>> /\ Len(logs) \in Nat
  BY <1>1 DEF IInv, LogsTyped
<1> HIDE DEF new
<1>5. l \in Seq(Event) /\ Len(l) = currentSeq + 1
  BY <1>2, <1>3, AppendProperties
<1>6. logs' = [logs EXCEPT ![epoch] = l]
  BY <1>1, <1>2
<1> HIDE DEF l
<1>7. /\ logs' \in Seq(Seq(Event)) /\ Len(logs') = Len(logs) /\ DOMAIN logs' = DOMAIN logs
      /\ logs'[epoch] = l /\ \A e \in DOMAIN logs : e # epoch => logs'[e] = logs[e]
  BY <1>2, <1>4, <1>5, <1>6
<1>8. epoch' = epoch /\ log' = l /\ currentSeq' = currentSeq + 1
  <2>1. epoch' = epoch
    BY <1>7 DEF epoch
  <2>2. log' = logs'[epoch']
    BY DEF log
  <2>3. log' = l
    BY <1>7, <2>1, <2>2
  <2> QED
    BY <1>5, <2>1, <2>3 DEF currentSeq
<1>9. LogsTyped'
  <2>1. \A e \in DOMAIN logs' : Len(logs'[e]) <= MaxEvents
    <3>1. currentSeq + 1 <= MaxEvents
      BY <1>1, <1>2, WireAssumption
    <3> QED
      BY <1>4, <1>5, <1>7, <3>1
  <2>2. floor' \in Nat /\ floor' <= currentSeq + 1
    BY <1>1, <1>2, <1>4, TopicAssumption
  <2>3. logs' # <<>>
    BY <1>4, <1>7
  <2> QED
    BY <1>1, <1>4, <1>7, <1>8, <2>1, <2>2, <2>3 DEF LogsTyped
<1>10. sub' # NoSub => sub # NoSub /\ sub'.id = sub.id
  <2>1. sub # NoSub => sub \in Subscription
    BY DEF IInv, Subscribed
  <2> QED
    BY <1>1, <2>1 DEF Subscription
<1>11. Frames' = Frames /\ Acks' = Acks
  BY <1>1 DEF Frames, Acks, channels, OnWire, Waiting, Reserved, IsAck
<1>12. WayClear' /\ GoodClient'
  <2>1. \A e \in DOMAIN logs : Continues(logs[e], logs'[e])
    <3> SUFFICES ASSUME NEW e \in DOMAIN logs PROVE Continues(logs[e], logs'[e])
      OBVIOUS
    <3>1. CASE e = epoch
      <4>1. ASSUME NEW from \in Nat, NEW to \in Nat, from <= to, to <= Len(log)
            PROVE  Shown(l, from, to) = Shown(log, from, to)
        <5>1. Stretch(log, from, to)
          BY <1>2, <4>1 DEF Stretch
        <5> QED
          BY <1>3, <5>1, ShownGrows DEF l
      <4>2. Len(log) <= Len(l)
        BY <1>2, <1>5
      <4>3. Continues(log, l)
        BY <4>1, <4>2 DEF Continues
      <4> QED
        BY <1>2, <1>7, <3>1, <4>3
    <3>2. CASE e # epoch
      <4>1. logs'[e] = logs[e] /\ Len(logs[e]) \in Nat
        BY <1>4, <1>7, <3>2
      <4> QED
        BY <4>1 DEF Continues
    <3> QED
      BY <3>1, <3>2
  <2> QED
    BY <1>1, <1>4, <1>7, <1>10, <1>11, <2>1, Grown
<1>13. Subscribed'
  <2>1. CASE sub' = sub
    BY <1>1, <2>1 DEF IInv, Subscribed
  <2>2. CASE sub # NoSub /\ sub' = [sub EXCEPT !.buffer = Append(@, new)]
    <3>1. sub \in Subscription /\ Append(sub.buffer, new) \in Seq(Event)
      BY <1>3, <2>2, AppendProperties DEF IInv, Subscribed, Subscription
    <3>2. sub' \in Subscription
      BY <2>2, <3>1 DEF Subscription
    <3> QED
      BY <1>1, <3>2 DEF IInv, Subscribed
  <2>3. CASE sub # NoSub /\ sub' = [sub EXCEPT !.buffer = <<>>, !.resync = TRUE]
    <3>1. sub \in Subscription /\ <<>> \in Seq(Event)
      BY <2>3, EmptySeq DEF IInv, Subscribed
    <3>2. sub' \in Subscription
      BY <2>3, <3>1 DEF Subscription
    <3> QED
      BY <1>1, <3>2 DEF IInv, Subscribed
  <2> QED
    BY <1>1, <2>1, <2>2, <2>3
<1>14. Serving'
  <2> SUFFICES ASSUME sub' # NoSub PROVE Serving'
    BY DEF Serving
  <2>1. sub # NoSub /\ sub \in Subscription /\ sub' \in Subscription /\ Serving
    BY <1>10, <1>13 DEF IInv, Subscribed
  <2>2. /\ sub'.id = sub.id /\ sub'.ord = sub.ord /\ sub'.reserved = sub.reserved /\ sub'.sent = sub.sent
        /\ sub'.resync => sub'.resync
    BY <1>1, <2>1 DEF Subscription
  <2>3. SentTo' = SentTo
    BY <1>1, <2>2 DEF SentTo
  <2>4. ASSUME ~sub'.resync
        PROVE  SentTo <= currentSeq + 1 /\ sub'.buffer = Shown(l, SentTo, currentSeq + 1)
    <3>1. ~sub.resync
      BY <1>1, <2>1, <2>4 DEF Subscription
    <3>2. SentTo <= currentSeq /\ sub.buffer = Shown(log, SentTo, currentSeq) /\ SentTo \in Nat
      <4>1. sub.reserved # None => pending.frame \in TopicFrame
        BY <2>1 DEF IInv, Serving, Channelled, Outcome
      <4>2. \A f \in TopicFrame : f.to \in Nat
        BY DEF TopicFrame
      <4> QED
        BY <2>1, <3>1, <4>1, <4>2 DEF Serving, SentTo, Subscription
    <3>3. Stretch(log, SentTo, currentSeq)
      BY <1>2, <3>2 DEF Stretch
    <3>4. Shown(l, SentTo, currentSeq + 1)
            = IF new \in Visible THEN Append(sub.buffer, new) ELSE sub.buffer
      BY <1>2, <1>3, <3>2, <3>3, ShownGrows DEF l
    <3>5. sub'.buffer = IF new \in Visible THEN Append(sub.buffer, new) ELSE sub.buffer
      <4>1. CASE currentSeq + 1 \in Hidden
        BY <1>1, <1>3, <2>1, <4>1
      <4>2. CASE currentSeq + 1 \notin Hidden /\ Len(sub.buffer) < MaxBuffer
        BY <1>1, <1>3, <2>1, <3>1, <4>2 DEF Subscription
      <4>3. CASE currentSeq + 1 \notin Hidden /\ ~(Len(sub.buffer) < MaxBuffer)
        <5>1. sub' = [sub EXCEPT !.buffer = <<>>, !.resync = TRUE]
          BY <1>1, <2>1, <3>1, <4>3
        <5>2. sub'.resync
          BY <2>1, <5>1 DEF Subscription
        <5> QED
          BY <2>4, <5>2
      <4> QED
        BY <4>1, <4>2, <4>3
    <3> QED
      BY <1>2, <3>2, <3>4, <3>5
  <2>5. \A f \in Frames : f.sub = sub.id => f.epoch = epoch /\ f.ord < sub.ord
    BY <2>1 DEF Serving
  <2>6. sub.reserved # None => pending # NoReply /\ pending.frame # NoFrame
                              /\ pending.frame.sub = sub.id /\ pending.frame.ord = sub.reserved
    BY <2>1 DEF Serving
  <2>7. up /\ sub.id = nextSub - 1 /\ sub.id # None /\ sub.ord # 0
    BY <2>1 DEF Serving
  <2> QED
    BY <1>1, <1>8, <1>11, <2>2, <2>3, <2>4, <2>5, <2>6, <2>7 DEF Serving
<1>15. Channelled' /\ ClientTyped' /\ AcksOrdered' /\ PendingUp'
  BY <1>1 DEF IInv, Channelled, ClientTyped, Typed, Fresh, AcksOrdered, IsAck, PendingUp, channels
<1> QED
  BY <1>1, <1>4, <1>9, <1>12, <1>13, <1>14, <1>15 DEF IInv, new

----------------------------------------------------------------------------
\* What is on a channel when something is sent.
LEMMA JoinedSet ==
  ASSUME NEW S, NEW s \in Seq(S), NEW t \in Seq(S)
  PROVE  ToSet(s \o t) = ToSet(s) \cup ToSet(t)
<1> DEFINE m == Len(s)
           n == Len(t)
           u == s \o t
<1>1. /\ m \in Nat /\ n \in Nat /\ u \in Seq(S) /\ Len(u) = m + n
      /\ \A i \in 1..m : u[i] = s[i] /\ i \in 1..m + n
      /\ \A i \in 1..n : u[m + i] = t[i] /\ m + i \in 1..m + n
      /\ \A i \in 1..m + n : i \notin 1..m => i - m \in 1..n /\ u[i] = t[i - m]
  OBVIOUS
<1>2. DOMAIN s = 1..m /\ DOMAIN t = 1..n /\ DOMAIN u = 1..m + n
  BY <1>1
<1> HIDE DEF u, m, n
<1>3. ASSUME NEW x \in ToSet(u) PROVE x \in ToSet(s) \cup ToSet(t)
  <2>1. PICK i \in 1..m + n : x = u[i]
    BY <1>2 DEF ToSet
  <2>2. CASE i \in 1..m
    BY <1>1, <1>2, <2>1, <2>2 DEF ToSet
  <2>3. CASE i \notin 1..m
    <3>1. i - m \in 1..n /\ x = t[i - m]
      BY <1>1, <2>1, <2>3
    <3> QED
      BY <1>2, <3>1 DEF ToSet
  <2> QED
    BY <2>2, <2>3
<1>4. ASSUME NEW x \in ToSet(s) PROVE x \in ToSet(u)
  <2>1. PICK i \in 1..m : x = s[i]
    BY <1>2 DEF ToSet
  <2> QED
    BY <1>1, <1>2, <2>1 DEF ToSet
<1>5. ASSUME NEW x \in ToSet(t) PROVE x \in ToSet(u)
  <2>1. PICK i \in 1..n : x = t[i]
    BY <1>2 DEF ToSet
  <2>2. m + i \in 1..m + n /\ u[m + i] = x
    BY <1>1, <2>1
  <2> QED
    BY <1>2, <2>2 DEF ToSet
<1>6. ToSet(u) = ToSet(s) \cup ToSet(t)
  BY <1>3, <1>4, <1>5
<1> QED
  BY <1>6 DEF u

\* Likewise.
LEMMA OneSet == ASSUME NEW x PROVE ToSet(<<x>>) = {x}
<1>1. DOMAIN <<x>> = 1..1 /\ <<x>>[1] = x
  OBVIOUS
<1>2. 1..1 = {1}
  OBVIOUS
<1> QED
  BY <1>1, <1>2 DEF ToSet

\* Likewise.
LEMMA AppendedSet ==
  ASSUME NEW S, NEW s \in Seq(S), NEW x \in S
  PROVE  /\ Append(s, x) \in Seq(S) /\ ToSet(Append(s, x)) = ToSet(s) \cup {x}
<1>1. Append(s, x) = s \o <<x>> /\ <<x>> \in Seq(S)
  BY AppendIsConcat
<1>2. ToSet(<<x>>) = {x}
  BY OneSet
<1>3. ToSet(s \o <<x>>) = ToSet(s) \cup ToSet(<<x>>)
  <2> DEFINE e == <<x>>
  <2>1. e \in Seq(S)
    BY <1>1
  <2> HIDE DEF e
  <2>2. ToSet(s \o e) = ToSet(s) \cup ToSet(e)
    BY <2>1, JoinedSet
  <2> QED
    BY <2>2 DEF e
<1>4. Append(s, x) \in Seq(S)
  BY AppendProperties
<1> QED
  BY <1>1, <1>2, <1>3, <1>4

\* Runtime events are no frames.
LEMMA NoticeSent ==
  ASSUME NEW s \in Seq(Message), NEW type \in {"unavailable", "restarted", "available"}
  PROVE  /\ Append(s, [type |-> type]) \in Seq(Message)
         /\ OnWire(Append(s, [type |-> type])) = OnWire(s)
<1> DEFINE m == [type |-> type]
<1>1. m \in Message /\ m.type # "frame"
  BY DEF Message
<1> HIDE DEF m
<1>2. Append(s, m) \in Seq(Message) /\ ToSet(Append(s, m)) = ToSet(s) \cup {m}
  BY <1>1, AppendedSet
<1>3. OnWire(Append(s, m)) = OnWire(s)
  BY <1>1, <1>2 DEF OnWire
<1> QED
  BY <1>2, <1>3 DEF m

\* A frame is sent.
LEMMA FrameSent ==
  ASSUME NEW s \in Seq(Message), NEW f \in TopicFrame
  PROVE  Append(s, f) \in Seq(Message) /\ OnWire(Append(s, f)) = OnWire(s) \cup {f}
<1>1. f \in Message /\ f.type = "frame"
  BY DEF Message, TopicFrame
<1>2. Append(s, f) \in Seq(Message) /\ ToSet(Append(s, f)) = ToSet(s) \cup {f}
  BY <1>1, AppendedSet
<1> QED
  BY <1>1, <1>2 DEF OnWire

\* What a runtime finds of the log.
Durable == IF logs = <<>> THEN {<<>>, << <<1, 1>> >>} ELSE {SubSeq(Last(logs), 1, n) : n \in 0..Len(Last(logs))}

\* What a new runtime finds was durable.
LEMMA DurableTyped ==
  ASSUME IInv, NEW durable \in IF epoch = 0 THEN {<<>>, << <<1, 1>> >>}
                               ELSE {log, IF log = <<>> THEN log ELSE Front(log)},
         Len(durable) <= MaxEvents
  PROVE  durable \in Seq(Event) /\ durable \in Durable
<1>1. logs \in Seq(Seq(Event)) /\ epoch \in Nat
  BY DEF IInv, LogsTyped, epoch
<1>2. CASE epoch = 0
  <2>1. logs = <<>>
    BY <1>1, <1>2 DEF epoch
  <2>2. durable = <<>> \/ durable = << <<1, 1>> >>
    BY <1>2
  <2>3. durable = << <<1, 1>> >> => durable \in Seq(Event)
    <3> SUFFICES ASSUME durable = << <<1, 1>> >> PROVE durable \in Seq(Event)
      OBVIOUS
    <3>1. 1 \in 1..MaxEvents /\ 1 \in 1..MaxEpochs
      BY WireAssumption
    <3>2. <<1, 1>> \in Event
      BY <3>1 DEF Event
    <3> QED
      BY <3>2
  <2>4. durable \in Seq(Event)
    BY <2>2, <2>3, EmptySeq
  <2> QED
    BY <2>1, <2>2, <2>4 DEF Durable
<1>3. CASE epoch # 0
  <2>1. logs # <<>> /\ epoch \in DOMAIN logs /\ Last(logs) = log
    BY <1>1, <1>3 DEF epoch, log, Last
  <2>2. log \in Seq(Event)
    BY <1>1, <2>1 DEF log
  <2>3. durable \in {log, IF log = <<>> THEN log ELSE Front(log)}
    BY <1>3
  <2> HIDE DEF log, epoch
  <2>4. PICK n \in 0..Len(log) : durable = SubSeq(log, 1, n)
    <3>1. log = SubSeq(log, 1, Len(log)) /\ Len(log) \in 0..Len(log)
      BY <2>2, SubSeqFull
    <3>2. log # <<>> => Front(log) = SubSeq(log, 1, Len(log) - 1) /\ Len(log) - 1 \in 0..Len(log)
      BY <2>2 DEF Front
    <3> QED
      BY <2>3, <3>1, <3>2
  <2>5. durable \in Durable
    BY <2>1, <2>4 DEF Durable
  <2>6. durable \in Seq(Event)
    BY <2>2, <2>4, SubSeqProperties
  <2> QED
    BY <2>5, <2>6
<1> QED
  BY <1>2, <1>3

\* Spawn keeps the invariant; a log begins.
LEMMA SpawnKeeps ==
  ASSUME IInv, Spawn, UNCHANGED client
  PROVE  IInv' /\ \E durable \in Durable : logs' = Append(logs, durable)
<1>1. /\ ~up /\ epoch < MaxEpochs /\ up' = TRUE /\ route' = None
      /\ wire' = wire \o (IF epoch = 0 THEN <<>> ELSE <<[type |-> "restarted"]>>) \o <<[type |-> "available"]>>
      /\ UNCHANGED <<sub, nextSub, pending, requests, replies, mishaps>>
  BY DEF Spawn
<1>2. PICK durable \in IF epoch = 0 THEN {<<>>, << <<1, 1>> >>}
                       ELSE {log, IF log = <<>> THEN log ELSE Front(log)} :
        Len(durable) <= MaxEvents /\ logs' = Append(logs, durable) /\ floor' = Len(durable)
  BY DEF Spawn
<1>3. durable \in Seq(Event) /\ durable \in Durable
  BY <1>2, DurableTyped
<1>4. sub = NoSub /\ pending = NoReply
  BY <1>1 DEF IInv, Serving, PendingUp
<1>5. /\ logs \in Seq(Seq(Event)) /\ \A e \in DOMAIN logs : Len(logs[e]) <= MaxEvents
      /\ wire \in Seq(Message) /\ Len(logs) \in Nat /\ epoch = Len(logs)
  BY DEF IInv, LogsTyped, Channelled, epoch
<1>6. /\ logs' \in Seq(Seq(Event)) /\ Len(logs') = Len(logs) + 1 /\ logs'[Len(logs) + 1] = durable
      /\ DOMAIN logs = 1..Len(logs) /\ DOMAIN logs' = 1..Len(logs) + 1
      /\ \A e \in DOMAIN logs : logs'[e] = logs[e]
  BY <1>2, <1>3, <1>5, AppendProperties
<1>7. epoch' = epoch + 1 /\ log' = durable /\ currentSeq' = Len(durable) /\ Len(durable) \in Nat
  <2>1. epoch' = epoch + 1
    BY <1>5, <1>6 DEF epoch
  <2>2. log' = durable
    BY <1>5, <1>6, <2>1 DEF log, epoch
  <2> QED
    BY <1>3, <2>1, <2>2 DEF currentSeq
<1>8. LogsTyped'
  <2>1. \A e \in DOMAIN logs' : Len(logs'[e]) <= MaxEvents
    BY <1>2, <1>5, <1>6
  <2>2. Len(logs') <= MaxEpochs
    BY <1>1, <1>5, <1>6, WireAssumption
  <2>3. logs' # <<>>
    BY <1>5, <1>6
  <2> QED
    BY <1>1, <1>2, <1>6, <1>7, <2>1, <2>2, <2>3 DEF LogsTyped
<1>9. wire' \in Seq(Message) /\ OnWire(wire') = OnWire(wire)
  <2> DEFINE s == IF epoch = 0 THEN wire ELSE Append(wire, [type |-> "restarted"])
  <2>1. s \in Seq(Message) /\ OnWire(s) = OnWire(wire)
    BY <1>5, NoticeSent
  <2>2. wire' = Append(s, [type |-> "available"])
    <3>1. CASE epoch = 0
      <4>1. wire \o <<>> = wire
        BY <1>5, ConcatEmptySeq
      <4> QED
        BY <1>1, <1>5, <3>1, <4>1, AppendIsConcat
    <3>2. CASE epoch # 0
      <4> DEFINE m == [type |-> "restarted"]
                 t == Append(wire, m)
                 o == [type |-> "available"]
      <4>1. t = wire \o <<m>> /\ t \in Seq(Message)
        <5>1. m \in Message
          BY DEF Message
        <5> HIDE DEF m
        <5> QED
          BY <1>5, <5>1, AppendIsConcat, AppendProperties
      <4>2. o \in Message
        BY DEF Message
      <4>3. wire' = wire \o <<m>> \o <<o>> /\ s = t
        BY <1>1, <3>2
      <4> HIDE DEF m, t, o, s
      <4>4. Append(t, o) = t \o <<o>>
        BY <4>1, <4>2, AppendIsConcat
      <4>5. wire' = Append(s, o)
        BY <4>1, <4>3, <4>4
      <4> QED
        BY <4>5 DEF o
    <3> QED
      BY <3>1, <3>2
  <2> HIDE DEF s
  <2> QED
    BY <2>1, <2>2, NoticeSent
<1>10. Frames' = Frames /\ Acks' = Acks
  BY <1>1, <1>9 DEF Frames, Acks, Waiting, Reserved, IsAck
<1>11. WayClear' /\ GoodClient'
  <2>1. ASSUME NEW e \in DOMAIN logs PROVE Continues(logs[e], logs'[e])
    <3>1. logs'[e] = logs[e] /\ Len(logs[e]) \in Nat
      BY <1>5, <1>6
    <3> QED
      BY <3>1 DEF Continues
  <2> QED
    BY <1>1, <1>4, <1>5, <1>6, <1>10, <2>1, Grown
<1>12. Serving' /\ PendingUp' /\ AcksOrdered' /\ ClientTyped'
  BY <1>1, <1>4 DEF IInv, Serving, PendingUp, AcksOrdered, IsAck, ClientTyped, Typed, Fresh
<1>13. Channelled' /\ Subscribed'
  BY <1>1, <1>9 DEF IInv, Channelled, Subscribed, None
<1> QED
  BY <1>2, <1>3, <1>8, <1>11, <1>12, <1>13 DEF IInv

----------------------------------------------------------------------------
\* The invariant's parts that a step leaves alone.
LEMMA SameLogs ==
  ASSUME IInv, UNCHANGED <<logs, up>>, floor' \in Nat, floor' <= currentSeq
  PROVE  LogsTyped'
BY DEF IInv, LogsTyped, currentSeq, log, epoch

\* Likewise.
LEMMA SameClient == ASSUME IInv, UNCHANGED client PROVE ClientTyped'
BY DEF IInv, ClientTyped, Typed, Fresh

\* Likewise.
LEMMA SameReplies ==
  ASSUME IInv, UNCHANGED replies, IsAck(pending') => pending' = pending
  PROVE  AcksOrdered'
BY DEF IInv, AcksOrdered, IsAck

\* A frame of the subscription.
LEMMA FramesTyped ==
  ASSUME IInv, sub # NoSub, NEW kind \in Kind
  PROVE  /\ SnapshotFrame(sub, kind) \in TopicFrame
         /\ \A from \in Nat, rows \in Seq(Event) : DeltaFrame(sub, kind, from, rows) \in TopicFrame
<1>1. epoch \in Nat /\ currentSeq \in Nat /\ log \in Seq(Event) /\ currentSeq = Len(log)
  BY Latest DEF currentSeq
<1>2. sub.id \in Nat /\ sub.ord \in Nat
  BY DEF IInv, Subscribed, Subscription
<1>3. Shown(log, 0, currentSeq) \in Seq(Event)
  <2>1. Stretch(log, 0, currentSeq)
    BY <1>1 DEF Stretch
  <2> QED
    BY <2>1, ShownTyped
<1> HIDE DEF epoch, currentSeq, log
<1>4. ASSUME NEW from \in Nat, NEW rows \in Seq(Event), NEW snap \in BOOLEAN
      PROVE  Frame(sub, kind, from, rows, snap) \in TopicFrame
  BY <1>1, <1>2 DEF Frame, TopicFrame, Damage
<1>5. SnapshotFrame(sub, kind) \in TopicFrame
  BY <1>3, <1>4 DEF SnapshotFrame
<1>6. ASSUME NEW from \in Nat, NEW rows \in Seq(Event)
      PROVE  DeltaFrame(sub, kind, from, rows) \in TopicFrame
  BY <1>4 DEF DeltaFrame
<1> QED
  BY <1>5, <1>6

\* A flush, whatever made it.
Flushes ==
  /\ Flush
  /\ UNCHANGED <<client, up, logs, floor, nextSub, pending, route, requests, replies, mishaps>>

\* A flush that sends a frame.
LEMMA FlushSent ==
  ASSUME IInv, Flushes, sub # NoSub, sub.reserved = None,
         NEW g \in TopicFrame, g.sub = sub.id, g.ord = sub.ord, g.epoch = epoch, g.to = currentSeq,
         g.from <= g.to, g.rows = Shown(log, g.from, g.to), g.snap => g.from = 0,
         wire' = wire \o <<g>>,
         sub' = [sub EXCEPT !.buffer = <<>>, !.sent = currentSeq, !.ord = @ + 1, !.resync = FALSE]
  PROVE  IInv'
<1>1. UNCHANGED <<client, up, logs, floor, nextSub, pending, route, requests, replies, mishaps>>
  BY DEF Flushes
<1>2. wire \in Seq(Message) /\ sub \in Subscription /\ floor \in Nat /\ floor <= currentSeq /\ Serving
  BY DEF IInv, Channelled, Subscribed, LogsTyped, Serving
<1>3. wire' \in Seq(Message) /\ OnWire(wire') = OnWire(wire) \cup {g}
  <2>1. wire' = Append(wire, g)
    <3>1. g \in Message
      BY DEF Message
    <3> QED
      BY <1>2, <3>1, AppendIsConcat
  <2> QED
    BY <1>2, <2>1, FrameSent
<1>4. Frames' = Frames \cup {g} /\ Acks' = Acks
  BY <1>1, <1>3 DEF Frames, Acks, Waiting, Reserved, IsAck
<1>5. currentSeq \in Nat /\ log \in Seq(Event) /\ currentSeq = Len(log)
  BY Latest DEF currentSeq
<1>6. /\ sub' \in Subscription /\ sub'.id = sub.id /\ sub'.ord = sub.ord + 1 /\ sub'.reserved = None
      /\ ~sub'.resync /\ sub'.sent = currentSeq /\ sub'.buffer = <<>>
  <2> DEFINE n == currentSeq
             none == <<>>
             ord == sub.ord + 1
  <2>1. none \in Seq(Event)
    BY EmptySeq
  <2>2. n \in Nat /\ ord \in Nat
    BY <1>2, <1>5 DEF Subscription
  <2>3. sub' = [sub EXCEPT !.buffer = none, !.sent = n, !.ord = ord, !.resync = FALSE]
    OBVIOUS
  <2>4. n = currentSeq /\ none = <<>> /\ ord = sub.ord + 1
    OBVIOUS
  <2> HIDE DEF n, none, ord
  <2>5. /\ sub' \in Subscription /\ sub'.id = sub.id /\ sub'.ord = ord /\ sub'.reserved = None
        /\ ~sub'.resync /\ sub'.sent = n /\ sub'.buffer = none
    BY <1>2, <2>1, <2>2, <2>3 DEF Subscription
  <2> QED
    BY <2>4, <2>5
<1>7. sub' # NoSub
  BY <1>2, <1>6 DEF Serving, NoSub
<1>8. WayClear' /\ GoodClient'
  BY <1>1, <1>4, <1>6, <1>7, Extended
<1>9. Serving'
  <2>1. up' /\ sub'.id = nextSub' - 1 /\ sub'.id # None /\ sub'.ord # 0
    BY <1>1, <1>2, <1>6 DEF Serving, Subscription
  <2>2. ASSUME NEW f \in Frames', f.sub = sub'.id PROVE f.epoch = epoch' /\ f.ord < sub'.ord
    <3>1. epoch' = epoch /\ g.ord \in Nat
      BY <1>1 DEF epoch, TopicFrame
    <3>2. f \in Frames => f.epoch = epoch /\ f.ord < sub.ord /\ f.ord \in Nat
      BY <1>2, <1>6, <2>2 DEF Serving, IInv, WayClear, OnTheWay, Framed, TopicFrame
    <3>3. f = g => f.epoch = epoch /\ f.ord < sub.ord + 1
      BY <3>1
    <3>4. sub.ord \in Nat
      BY <1>2 DEF Subscription
    <3> HIDE DEF epoch
    <3> QED
      BY <1>4, <1>6, <3>1, <3>2, <3>3, <3>4
  <2>3. SentTo' = currentSeq /\ currentSeq' = currentSeq /\ log' = log
    BY <1>1, <1>6 DEF SentTo, currentSeq, log, epoch
  <2>4. Shown(log, currentSeq, currentSeq) = <<>>
    BY <1>5, ShownOfNothing
  <2>5. SentTo' <= currentSeq' /\ sub'.buffer = Shown(log', SentTo', currentSeq')
    BY <1>5, <1>6, <2>3, <2>4
  <2> QED
    BY <1>6, <2>1, <2>2, <2>5 DEF Serving, Shown, Visible
<1>10. Channelled' /\ Subscribed' /\ PendingUp'
  BY <1>1, <1>3, <1>6 DEF IInv, Channelled, Subscribed, PendingUp
<1> QED
  BY <1>1, <1>2, <1>8, <1>9, <1>10, SameLogs, SameClient, SameReplies DEF IInv

\* Nothing is flushed.
LEMMA NothingFlushed ==
  ASSUME IInv, UNCHANGED <<client, up, logs, floor, sub, nextSub, pending, route, requests, replies, wire, mishaps>>
  PROVE  IInv'
<1>1. Frames' = Frames /\ Acks' = Acks
  BY DEF Frames, Acks, Waiting, Reserved, IsAck, OnWire
<1>2. Waiting(client) \subseteq Frames
  BY DEF Frames
<1>3. WayClear' /\ GoodClient'
  BY <1>1, <1>2, Kept
<1>4. Serving'
  BY <1>1 DEF IInv, Serving, SentTo, epoch, currentSeq, log
<1>5. LogsTyped' /\ Channelled' /\ Subscribed' /\ PendingUp'
  BY DEF IInv, LogsTyped, Channelled, Subscribed, PendingUp, epoch, currentSeq, log
<1> QED
  BY <1>3, <1>4, <1>5, SameClient, SameReplies DEF IInv

\* A flush keeps the invariant.
LEMMA FlushKeeps ==
  ASSUME IInv, Flushes
  PROVE  IInv'
<1>1. Flush /\ UNCHANGED <<client, up, logs, floor, nextSub, pending, route, requests, replies, mishaps>>
  BY DEF Flushes
<1>2. CASE sub = NoSub \/ sub.reserved # None
  BY <1>1, <1>2, NothingFlushed DEF Flush
<1>3. CASE sub # NoSub /\ sub.reserved = None
  <2>1. sub' = Flushed(sub) /\ wire' = wire \o FlushFrames(sub) /\ sub \in Subscription
    BY <1>1, <1>3 DEF Flush, IInv, Subscribed
  <2>2. currentSeq \in Nat /\ log \in Seq(Event) /\ currentSeq = Len(log)
    BY <1>3, Latest DEF currentSeq
  <2>3. CASE sub.resync
    <3> DEFINE g == SnapshotFrame(sub, "online")
    <3>1. g \in TopicFrame
      BY <1>3, FramesTyped DEF Kind
    <3>2. /\ g.sub = sub.id /\ g.ord = sub.ord /\ g.epoch = epoch /\ g.to = currentSeq
          /\ g.from = 0 /\ g.rows = Shown(log, 0, currentSeq)
      BY DEF SnapshotFrame, Frame
    <3>3. wire' = wire \o <<g>>
      BY <2>1, <2>3 DEF FlushFrames
    <3>4. sub' = [sub EXCEPT !.buffer = <<>>, !.sent = currentSeq, !.ord = @ + 1, !.resync = FALSE]
      BY <2>1, <2>3 DEF Flushed
    <3> HIDE DEF g
    <3> QED
      BY <1>3, <2>2, <3>1, <3>2, <3>3, <3>4, FlushSent
  <2>4. CASE ~sub.resync /\ sub.buffer = <<>> /\ sub.sent = currentSeq
    <3>1. sub' = sub
      BY <2>1, <2>4 DEF Flushed
    <3>2. wire \o <<>> = wire
      BY ConcatEmptySeq DEF IInv, Channelled
    <3>3. wire' = wire
      BY <2>1, <2>4, <3>2 DEF FlushFrames
    <3> QED
      BY <1>1, <3>1, <3>3, NothingFlushed
  <2>5. CASE ~sub.resync /\ ~(sub.buffer = <<>> /\ sub.sent = currentSeq)
    <3> DEFINE g == DeltaFrame(sub, "online", sub.sent, sub.buffer)
    <3>1. g \in TopicFrame
      <4>1. sub.sent \in Nat /\ sub.buffer \in Seq(Event)
        BY <2>1 DEF Subscription
      <4> QED
        BY <1>3, <4>1, FramesTyped DEF Kind
    <3>2. /\ g.sub = sub.id /\ g.ord = sub.ord /\ g.epoch = epoch /\ g.to = currentSeq
          /\ g.from = sub.sent /\ g.rows = sub.buffer /\ g.snap = FALSE
      BY DEF DeltaFrame, Frame
    <3>3. sub.sent <= currentSeq /\ sub.buffer = Shown(log, sub.sent, currentSeq)
      BY <1>3, <2>5 DEF IInv, Serving, SentTo
    <3>4. wire' = wire \o <<g>>
      BY <2>1, <2>5 DEF FlushFrames
    <3>5. sub' = [sub EXCEPT !.buffer = <<>>, !.sent = currentSeq, !.ord = @ + 1, !.resync = FALSE]
      <4>1. sub' = [sub EXCEPT !.buffer = <<>>, !.sent = currentSeq, !.ord = @ + 1]
        BY <2>1, <2>5 DEF Flushed
      <4> HIDE DEF currentSeq
      <4> QED
        BY <2>1, <2>5, <4>1 DEF Subscription
    <3> HIDE DEF g
    <3> QED
      BY <1>3, <2>2, <3>1, <3>2, <3>3, <3>4, <3>5, FlushSent
  <2> QED
    BY <2>3, <2>4, <2>5
<1> QED
  BY <1>2, <1>3

----------------------------------------------------------------------------
\* Frames on their way are as they were, or damaged.
LEMMA Damaged ==
  ASSUME IInv, UNCHANGED <<topic, client, replies>>,
         \A g \in Frames' :
            /\ g \in TopicFrame
            /\ \E f \in Frames : g = [f EXCEPT !.damage = g.damage],
         Waiting(client) \subseteq Frames'
  PROVE  WayClear' /\ GoodClient' /\ Serving'
<1> DEFINE F == Frames
           G == Frames'
           A == Acks
           c == client
<1>1. OnTheWay(F, A) /\ Good(c, F, A) /\ Typed(c) /\ Serving
  BY DEF IInv, WayClear, GoodClient, ClientTyped
<1>2. Acks' = A /\ client' = c /\ UNCHANGED <<logs, nextSub, sub, pending, up>>
  BY DEF Acks, IsAck, topic
<1>3. \A k \in c.calls : k.frames \in Seq(TopicFrame)
  BY <1>1 DEF Typed, Client, Asked
<1>4. \A g \in G :
        \E f \in F :
          /\ f.sub = g.sub /\ f.ord = g.ord /\ f.epoch = g.epoch /\ f.from = g.from /\ f.to = g.to
          /\ f.rows = g.rows /\ f.snap = g.snap
  <2> SUFFICES ASSUME NEW g \in G
               PROVE  \E f \in F :
                        /\ f.sub = g.sub /\ f.ord = g.ord /\ f.epoch = g.epoch /\ f.from = g.from /\ f.to = g.to
                        /\ f.rows = g.rows /\ f.snap = g.snap
    OBVIOUS
  <2>1. PICK f \in F : g = [f EXCEPT !.damage = g.damage]
    OBVIOUS
  <2>2. f \in TopicFrame
    BY <1>1 DEF OnTheWay, Framed
  <2> QED
    BY <2>1, <2>2 DEF TopicFrame
<1>5. G \subseteq TopicFrame /\ Waiting(c) \subseteq G
  OBVIOUS
<1> HIDE DEF F, G, A
<1>6. OnTheWay(G, A)
  <2>1. Framed(G)
    BY <1>1, <1>4, <1>5 DEF OnTheWay, Framed, TrueFrame
  <2>2. Ordered(G)
    BY <1>1, <1>4 DEF OnTheWay, Ordered
  <2>3. Named(G, A) /\ Current(G, A)
    BY <1>1, <1>4 DEF OnTheWay, Named, Current
  <2> QED
    BY <1>1, <2>1, <2>2, <2>3 DEF OnTheWay
<1>7. Good(c, G, A)
  <2>1. CallsGood(c, G)
    <3> SUFFICES ASSUME NEW k \in c.calls
                 PROVE  /\ k.base.epoch <= c.view.epoch
                        /\ \A i \in 1..Len(k.frames) : k.frames[i] \in G
      BY DEF CallsGood
    <3>1. k.frames \in Seq(TopicFrame)
      BY <1>3
    <3>2. \A i \in 1..Len(k.frames) : k.frames[i] \in Waiting(c)
      BY <3>1 DEF Waiting, ToSet
    <3> QED
      BY <1>1, <1>5, <3>2 DEF Good, CallsGood
  <2>2. BasedGood(c, G)
    BY <1>1, <1>4 DEF Good, BasedGood
  <2>3. AheadGood(c, G, A)
    <3> SUFFICES ASSUME NEW g \in G, Ahead(c, g, A)
                 PROVE  Before(c.view.epoch, c.view.seq, g.epoch, g.to)
      BY DEF AheadGood
    <3>1. PICK f \in F : f.sub = g.sub /\ f.ord = g.ord /\ f.epoch = g.epoch /\ f.to = g.to
      BY <1>4
    <3>2. Ahead(c, f, A)
      BY <3>1 DEF Ahead
    <3> QED
      BY <1>1, <3>1, <3>2 DEF Good, AheadGood
  <2> QED
    BY <1>1, <2>1, <2>2, <2>3 DEF Good
<1>8. WayClear'
  BY <1>2, <1>6 DEF WayClear, OnTheWay, Logged, Framed, TrueFrame, Ordered, Named, Current, epoch, G
<1>9. GoodClient'
  BY <1>2, <1>7 DEF GoodClient, Good, ViewTrue, CallsGood, BasedGood, AcksGood, AheadGood, Ahead, epoch, G
<1>10. Serving'
  <2>1. \A g \in G : \E f \in F : f.sub = g.sub /\ f.ord = g.ord /\ f.epoch = g.epoch
    BY <1>4
  <2> QED
    BY <1>1, <1>2, <2>1 DEF Serving, SentTo, epoch, currentSeq, log, F, G
<1> QED
  BY <1>8, <1>9, <1>10

\* A frame that is lost.
LEMMA LoseKeeps ==
  ASSUME IInv, LoseFrame, UNCHANGED <<topic, client>>
  PROVE  IInv'
<1>1. PICK damage \in {"corrupt", "partial"} :
        /\ wire # <<>> /\ Head(wire).type = "frame"
        /\ wire' = <<[Head(wire) EXCEPT !.damage = damage]>> \o Tail(wire)
        /\ Mishap("lose") /\ UNCHANGED <<requests, replies>>
  BY DEF LoseFrame, NextFrame
<1> DEFINE f == Head(wire)
           g == [f EXCEPT !.damage = damage]
           t == Tail(wire)
<1>2. wire \in Seq(Message)
  BY DEF IInv, Channelled
<1>3. f \in Message /\ f \in ToSet(wire) /\ t \in Seq(Message) /\ ToSet(t) \subseteq ToSet(wire)
  BY <1>1, <1>2, TailTyped
<1>4. f \in TopicFrame /\ g \in TopicFrame /\ g.damage = damage /\ g.type = "frame" /\ g \in Message
  BY <1>1, <1>3 DEF Message, TopicFrame, Damage
<1>5. wire' = <<g>> \o t
  BY <1>1
<1>10. g = [f EXCEPT !.damage = g.damage]
  BY <1>4
<1>11. f.type = "frame"
  BY <1>1
<1> HIDE DEF f, g, t
<1>6. wire' \in Seq(Message) /\ ToSet(wire') \subseteq ToSet(wire) \cup {g}
  <2>1. <<g>> \in Seq(Message) /\ ToSet(<<g>>) = {g}
    BY <1>4, OneSet
  <2>2. wire' \in Seq(Message)
    BY <1>3, <1>5, <2>1, ConcatProperties
  <2> DEFINE s == <<g>>
  <2> HIDE DEF s
  <2>3. s \in Seq(Message)
    BY <2>1 DEF s
  <2>4. ToSet(s \o t) = ToSet(s) \cup ToSet(t)
    BY <1>3, <2>3, JoinedSet
  <2>5. wire' = s \o t /\ ToSet(s) = {g}
    BY <1>5, <2>1 DEF s
  <2> QED
    BY <1>3, <2>2, <2>4, <2>5
<1>7. OnWire(wire') \subseteq OnWire(wire) \cup {g} /\ f \in OnWire(wire)
  BY <1>3, <1>6, <1>11 DEF OnWire
<1>8. Frames' \subseteq Frames \cup {g} /\ f \in Frames /\ Waiting(client) \subseteq Frames'
  BY <1>7 DEF Frames, Waiting, Reserved, topic
<1>9. WayClear' /\ GoodClient' /\ Serving'
  <2>1. ASSUME NEW h \in Frames'
        PROVE  h \in TopicFrame /\ \E e \in Frames : h = [e EXCEPT !.damage = h.damage]
    <3>1. CASE h \in Frames
      <4>1. h \in TopicFrame
        BY <3>1 DEF IInv, WayClear, OnTheWay, Framed
      <4>2. h = [h EXCEPT !.damage = h.damage]
        BY <4>1 DEF TopicFrame
      <4> QED
        BY <3>1, <4>1, <4>2
    <3>2. CASE h = g
      BY <1>4, <1>8, <1>10, <3>2
    <3> QED
      BY <1>8, <3>1, <3>2
  <2> QED
    BY <1>1, <1>8, <2>1, Damaged
<1>12. Channelled'
  BY <1>1, <1>6, Mishaps DEF IInv, Channelled, topic
<1>13. LogsTyped' /\ Subscribed' /\ PendingUp'
  BY DEF IInv, LogsTyped, Subscribed, PendingUp, topic, epoch, currentSeq, log
<1>14. AcksOrdered' /\ ClientTyped'
  BY <1>1, SameReplies, SameClient DEF topic
<1> QED
  BY <1>9, <1>12, <1>13, <1>14 DEF IInv

\* A frame that is repeated.
LEMMA RepeatKeeps ==
  ASSUME IInv, RepeatFrame, UNCHANGED <<topic, client>>
  PROVE  IInv'
<1>1. /\ wire # <<>> /\ wire' = Append(wire, Head(wire))
      /\ Mishap("repeat") /\ UNCHANGED <<requests, replies>>
  BY DEF RepeatFrame, NextFrame
<1>2. wire \in Seq(Message)
  BY DEF IInv, Channelled
<1>3. Head(wire) \in Message /\ Head(wire) \in ToSet(wire)
  BY <1>1, <1>2, TailTyped
<1>4. wire' \in Seq(Message) /\ ToSet(wire') = ToSet(wire)
  BY <1>1, <1>2, <1>3, AppendedSet
<1>5. Frames' = Frames /\ Acks' = Acks /\ UNCHANGED <<sub, logs, nextSub, pending, up>>
  BY <1>1, <1>4 DEF Frames, OnWire, Waiting, Reserved, topic, Acks, IsAck
<1>6. WayClear' /\ GoodClient'
  <2>1. Waiting(client) \subseteq Frames
    BY DEF Frames
  <2> QED
    BY <1>5, <2>1, Kept
<1>7. Serving'
  BY <1>5 DEF IInv, Serving, SentTo, epoch, currentSeq, log
<1>8. Channelled'
  BY <1>1, <1>4, Mishaps DEF IInv, Channelled, topic
<1>9. LogsTyped' /\ Subscribed' /\ PendingUp'
  BY DEF IInv, LogsTyped, Subscribed, PendingUp, topic, epoch, currentSeq, log
<1>10. AcksOrdered' /\ ClientTyped'
  BY <1>1, SameReplies, SameClient DEF topic
<1> QED
  BY <1>6, <1>7, <1>8, <1>9, <1>10 DEF IInv

\* The frame of a new subscription, or none, and its acknowledgement.
LEMMA Acknowledged ==
  ASSUME IInv, up, UNCHANGED <<client, logs>>, nextSub' = nextSub + 1,
         sub' # NoSub, sub'.id = nextSub,
         NEW N \in SUBSET TopicFrame, Frames' = Frames \cup N,
         \A g \in N : /\ g.sub = nextSub /\ g.epoch = epoch /\ g.to = currentSeq /\ g.ord = 1
                      /\ g.from <= g.to /\ g.rows = Shown(log, g.from, g.to) /\ (g.snap => g.from = 0),
         NEW b, b.sub = nextSub, b.epoch = epoch, Acks' = Acks \cup {b}
  PROVE  WayClear' /\ GoodClient'
<1> DEFINE F == Frames
           G == F \cup N
           A == Acks
           B == A \cup {b}
           c == client
<1>1. OnTheWay(F, A) /\ Good(c, F, A) /\ Typed(c)
  BY DEF IInv, WayClear, GoodClient, ClientTyped
<1>2. /\ epoch \in DOMAIN logs /\ epoch \in Nat \ {0} /\ currentSeq \in Nat /\ log = logs[epoch]
      /\ currentSeq = Len(logs[epoch])
      /\ \A f \in F : Before(f.epoch, f.to, epoch, currentSeq) /\ f.epoch <= epoch
      /\ \A a \in A : a.epoch <= epoch
      /\ Before(c.view.epoch, c.view.seq, epoch, currentSeq) /\ c.view.epoch <= epoch
  BY Latest DEF log
<1>3. nextSub \in Nat \ {0} /\ c.sub \in Nat /\ c.sub < nextSub
  BY <1>1, ViewTyped DEF OnTheWay, Logged, Good
<1>4. \A f \in F : f.sub \in Nat /\ f.ord \in Nat /\ f.epoch \in Nat /\ f.to \in Nat /\ f.sub < nextSub
  BY <1>1, <1>3 DEF OnTheWay, Framed, TrueFrame, TopicFrame
<1>5. \A a \in A : a.sub \in Nat /\ a.sub < nextSub
  BY <1>1, <1>3 DEF OnTheWay, Named
<1>6. Frames' = G /\ Acks' = B /\ client' = c
  OBVIOUS
<1>7. G \subseteq TopicFrame
  BY <1>1 DEF OnTheWay, Framed
<1> HIDE DEF F, A
<1>8. ASSUME NEW f \in G
      PROVE  /\ f.sub \in 1..nextSub /\ f.epoch \in DOMAIN logs
             /\ f.from <= f.to /\ f.to <= Len(logs[f.epoch])
             /\ f.rows = Shown(logs[f.epoch], f.from, f.to) /\ (f.snap => f.from = 0)
  <2>1. CASE f \in F
    BY <1>1, <1>3, <2>1 DEF OnTheWay, Framed, TrueFrame
  <2>2. CASE f \in N
    BY <1>2, <1>3, <2>2
  <2> QED
    BY <2>1, <2>2
<1>9. Ordered(G)
  <2> SUFFICES ASSUME NEW f \in G, NEW h \in G
               PROVE  /\ Before(f.sub, f.ord, h.sub, h.ord) => Before(f.epoch, f.to, h.epoch, h.to)
                      /\ f.sub = h.sub => f.epoch = h.epoch
    BY DEF Ordered
  <2>1. CASE f \in F /\ h \in F
    BY <1>1, <2>1 DEF OnTheWay, Ordered
  <2>2. CASE f \in F /\ h \in N
    BY <1>2, <1>4, <2>2
  <2>3. CASE f \in N /\ h \in F
    BY <1>3, <1>4, <2>3 DEF Before
  <2>4. CASE f \in N /\ h \in N
    BY <1>2, <2>4 DEF Before
  <2> QED
    BY <2>1, <2>2, <2>3, <2>4
<1>10. ASSUME NEW a \in B
       PROVE  /\ a.sub \in 1..nextSub /\ a.epoch \in DOMAIN logs
              /\ \A f \in G : (f.sub <= a.sub => f.epoch <= a.epoch) /\ (f.sub = a.sub => f.epoch = a.epoch)
  <2>1. CASE a \in A
    <3>1. /\ a.sub \in 1..nextSub - 1 /\ a.epoch \in DOMAIN logs
          /\ \A f \in F : (f.sub <= a.sub => f.epoch <= a.epoch) /\ (f.sub = a.sub => f.epoch = a.epoch)
      BY <1>1, <2>1 DEF OnTheWay, Named
    <3>2. \A f \in N : f.sub > a.sub
      BY <1>3, <3>1
    <3>3. \A f \in N : ~(f.sub <= a.sub) /\ f.sub # a.sub
      BY <1>3, <3>1, <3>2
    <3> QED
      BY <1>3, <3>1, <3>3
  <2>2. CASE a = b
    BY <1>2, <1>3, <1>4, <2>2
  <2> QED
    BY <2>1, <2>2
<1>11. WayClear'
  <2>1. Logged'
    BY <1>1, <1>3 DEF OnTheWay, Logged
  <2>2. Framed(Frames)'
    <3>1. nextSub' - 1 = nextSub
      BY <1>3
    <3> HIDE DEF G
    <3> QED
      BY <1>6, <1>7, <1>8, <3>1 DEF Framed, TrueFrame
  <2>3. Ordered(Frames)'
    BY <1>6, <1>9 DEF Ordered
  <2>4. Named(Frames, Acks)'
    <3>1. nextSub' - 1 = nextSub
      BY <1>3
    <3> HIDE DEF G, B
    <3> QED
      BY <1>6, <1>10, <3>1 DEF Named
  <2>5. Current(Frames, Acks)'
    <3>1. \A a \in B : a.sub = nextSub => a.epoch = epoch
      BY <1>3, <1>5
    <3>2. \A f \in G : f.sub = nextSub => f.epoch = epoch
      BY <1>3, <1>4
    <3>3. epoch' = epoch
      BY DEF epoch
    <3> HIDE DEF G, B
    <3> QED
      BY <1>6, <3>1, <3>2, <3>3 DEF Current
  <2> QED
    BY <2>1, <2>2, <2>3, <2>4, <2>5 DEF WayClear, OnTheWay
<1>12. GoodClient'
  <2>1. ViewTrue(client)' /\ (client.sub < nextSub)'
    BY <1>1, <1>3 DEF Good, ViewTrue
  <2>2. CallsGood(client, Frames)'
    BY <1>1, <1>6 DEF Good, CallsGood
  <2>3. BasedGood(client, Frames)'
    <3>1. \A f \in N : f.sub # c.sub
      BY <1>3
    <3>2. sub'.id # c.sub
      BY <1>3
    <3> QED
      BY <1>1, <1>6, <3>1, <3>2 DEF Good, BasedGood
  <2>4. AcksGood(client, Acks)'
    BY <1>1, <1>2, <1>3, <1>6 DEF Good, AcksGood
  <2>5. AheadGood(client, Frames, Acks)'
    <3> SUFFICES ASSUME NEW f \in G, Ahead(c, f, B)
                 PROVE  Before(c.view.epoch, c.view.seq, f.epoch, f.to)
      BY <1>6 DEF AheadGood, Ahead
    <3>1. CASE f \in N
      BY <1>2, <3>1
    <3>2. CASE f \in F
      <4>1. Ahead(c, f, A)
        BY <1>3, <1>4, <3>2 DEF Ahead
      <4> QED
        BY <1>1, <3>2, <4>1 DEF Good, AheadGood
    <3> QED
      BY <3>1, <3>2
  <2> QED
    BY <2>1, <2>2, <2>3, <2>4, <2>5 DEF GoodClient, Good
<1> QED
  BY <1>11, <1>12

\* A request is taken.
LEMMA RequestTaken ==
  ASSUME IInv, NEW type, Handling(type)
  PROVE  /\ up /\ pending = NoReply /\ Head(requests) \in Request /\ Head(requests).type = type
         /\ Tail(requests) \in Seq(Request)
         /\ Frames = OnWire(wire) \cup Waiting(client) /\ Acks = {a \in ToSet(replies) : IsAck(a)}
<1>1. up /\ pending = NoReply /\ requests # <<>> /\ Head(requests).type = type /\ requests \in Seq(Request)
  BY DEF Handling, IInv, Channelled
<1>2. Head(requests) \in Request /\ Tail(requests) \in Seq(Request)
  BY <1>1, TailTyped
<1>3. Frames = OnWire(wire) \cup Waiting(client)
  BY <1>1 DEF Frames, Reserved
<1>4. Acks = {a \in ToSet(replies) : IsAck(a)}
  BY <1>1 DEF Acks, IsAck, NoReply
<1> QED
  BY <1>1, <1>2, <1>3, <1>4

\* A frame from a base on, when the retained log allows.
LEMMA ResumedTyped ==
  ASSUME IInv, up, NEW base \in Base, Resumable(base)
  PROVE  /\ base.seq \in Nat /\ base.seq <= currentSeq /\ currentSeq \in Nat
         /\ Shown(log, base.seq, currentSeq) \in Seq(Event)
<1>1. currentSeq \in Nat /\ log \in Seq(Event) /\ currentSeq = Len(log)
  BY Latest DEF currentSeq
<1>2. base.seq \in Nat /\ base.seq <= currentSeq
  BY DEF Resumable, Base
<1>3. Stretch(log, base.seq, currentSeq)
  BY <1>1, <1>2 DEF Stretch
<1> QED
  BY <1>1, <1>2, <1>3, ShownTyped

\* HandleSubscribe keeps the invariant.
LEMMA SubscribeKeeps ==
  ASSUME IInv, HandleSubscribe, UNCHANGED client
  PROVE  IInv'
<1> DEFINE r == Head(requests)
           new == [id |-> nextSub, buffer |-> <<>>, resync |-> FALSE, sent |-> 0, reserved |-> 1, ord |-> 1]
           mode == IF Resumable(r.base) THEN "resume" ELSE "snapshot"
           frame == CASE mode = "snapshot" -> SnapshotFrame(new, "initial")
                      [] mode = "resume" /\ r.base.seq = currentSeq -> NoFrame
                      [] OTHER -> DeltaFrame(new, "initial", r.base.seq, Shown(log, r.base.seq, currentSeq))
           b == [type |-> "subscribed", id |-> r.id, sub |-> nextSub, mode |-> mode,
                 epoch |-> epoch, frame |-> frame]
<1>1. /\ Handling("subscribe")
      /\ sub' = IF frame = NoFrame THEN [new EXCEPT !.sent = r.base.seq, !.reserved = None]
                ELSE [new EXCEPT !.sent = frame.from, !.ord = 2]
      /\ pending' = b
      /\ nextSub' = nextSub + 1 /\ requests' = Tail(requests)
      /\ UNCHANGED <<up, logs, floor, route, replies, wire, mishaps>>
  BY DEF HandleSubscribe
<1>2. /\ up /\ pending = NoReply /\ r \in Request /\ r.type = "subscribe" /\ Tail(requests) \in Seq(Request)
      /\ Frames = OnWire(wire) \cup Waiting(client) /\ Acks = {a \in ToSet(replies) : IsAck(a)}
  BY <1>1, RequestTaken
<1>3. r.id \in Nat /\ r.base \in Base
  BY <1>2 DEF Request
<1>4. /\ epoch \in Nat \ {0} /\ currentSeq \in Nat /\ log \in Seq(Event) /\ currentSeq = Len(log)
      /\ nextSub \in Nat \ {0}
  BY <1>2, Latest DEF currentSeq, IInv, Subscribed
<1>5. Shown(log, 0, currentSeq) \in Seq(Event)
  BY <1>4, ShownTyped DEF Stretch
<1> HIDE DEF r
<1>6. /\ frame \in TopicFrame \cup {NoFrame}
      /\ frame = NoFrame => Resumable(r.base) /\ r.base.seq = currentSeq
      /\ frame # NoFrame =>
           /\ frame.sub = nextSub /\ frame.epoch = epoch /\ frame.to = currentSeq /\ frame.ord = 1
           /\ frame.from <= frame.to /\ frame.rows = Shown(log, frame.from, frame.to)
           /\ (frame.snap => frame.from = 0) /\ frame.from \in Nat
  <2>1. CASE ~Resumable(r.base)
    <3>1. frame = SnapshotFrame(new, "initial")
      BY <2>1
    <3>2. frame = [type |-> "frame", damage |-> "none", kind |-> "initial", sub |-> nextSub, ord |-> 1,
                   epoch |-> epoch, from |-> 0, to |-> currentSeq, rows |-> Shown(log, 0, currentSeq),
                   snap |-> TRUE]
      BY <3>1 DEF SnapshotFrame, Frame
    <3> DEFINE ep == epoch
               n == currentSeq
               rows == Shown(log, 0, currentSeq)
    <3>3. ep \in Nat /\ n \in Nat /\ rows \in Seq(Event)
      BY <1>4, <1>5
    <3>4. frame = [type |-> "frame", damage |-> "none", kind |-> "initial", sub |-> nextSub, ord |-> 1,
                   epoch |-> ep, from |-> 0, to |-> n, rows |-> rows, snap |-> TRUE]
      BY <3>2
    <3> HIDE DEF frame, ep, n, rows
    <3>5. /\ frame \in TopicFrame /\ frame.sub = nextSub /\ frame.epoch = ep /\ frame.to = n /\ frame.ord = 1
          /\ frame.from = 0 /\ frame.rows = rows /\ frame.type = "frame"
      BY <1>4, <3>3, <3>4 DEF TopicFrame, Damage, Kind
    <3>6. frame # NoFrame
      BY <3>5 DEF NoFrame
    <3> QED
      BY <3>3, <3>5, <3>6 DEF ep, n, rows
  <2>2. CASE Resumable(r.base) /\ r.base.seq = currentSeq
    BY <2>2
  <2>3. CASE Resumable(r.base) /\ r.base.seq # currentSeq
    <3> DEFINE ep == epoch
               n == currentSeq
               m == r.base.seq
               rows == Shown(log, r.base.seq, currentSeq)
    <3>1. frame = DeltaFrame(new, "initial", m, rows)
      BY <2>3
    <3>2. frame = [type |-> "frame", damage |-> "none", kind |-> "initial", sub |-> nextSub, ord |-> 1,
                   epoch |-> ep, from |-> m, to |-> n, rows |-> rows, snap |-> FALSE]
      BY <3>1 DEF DeltaFrame, Frame
    <3>3. ep \in Nat /\ n \in Nat /\ rows \in Seq(Event) /\ m \in Nat /\ m <= n
      BY <1>2, <1>3, <1>4, <2>3, ResumedTyped
    <3>4. rows = Shown(log, m, currentSeq)
      OBVIOUS
    <3> HIDE DEF frame, ep, n, rows, m
    <3>5. /\ frame \in TopicFrame /\ frame.sub = nextSub /\ frame.epoch = ep /\ frame.to = n /\ frame.ord = 1
          /\ frame.from = m /\ frame.rows = rows /\ frame.type = "frame" /\ frame.snap = FALSE
      BY <1>4, <3>2, <3>3 DEF TopicFrame, Damage, Kind
    <3>6. frame # NoFrame
      BY <3>5 DEF NoFrame
    <3> QED
      BY <3>3, <3>4, <3>5, <3>6 DEF ep, n
  <2> QED
    BY <2>1, <2>2, <2>3
<1>7. frame = NoFrame => r.base.seq \in Nat
  BY <1>3 DEF Base
<1>8. mode \in Mode
  BY DEF Mode
<1> HIDE DEF frame, mode
<1>9. /\ b.type = "subscribed" /\ b.sub = nextSub /\ b.epoch = epoch /\ b.frame = frame
      /\ b \in Outcome
  BY <1>3, <1>4, <1>6, <1>8 DEF Outcome
<1>10. /\ sub' \in Subscription /\ sub'.id = nextSub /\ sub'.buffer = <<>> /\ ~sub'.resync /\ sub'.ord # 0
       /\ frame = NoFrame => sub'.sent = currentSeq /\ sub'.reserved = None
       /\ frame # NoFrame => sub'.ord = 2 /\ sub'.reserved = 1
  <2> DEFINE none == <<>>
             n == currentSeq
             m == r.base.seq
  <2>1. none \in Seq(Event) /\ n \in Nat
    BY <1>4, EmptySeq
  <2>2. new = [id |-> nextSub, buffer |-> none, resync |-> FALSE, sent |-> 0, reserved |-> 1, ord |-> 1]
    OBVIOUS
  <2>3. none = <<>> /\ n = currentSeq /\ (frame = NoFrame => m = n)
    BY <1>6
  <2>4. sub' = IF frame = NoFrame THEN [new EXCEPT !.sent = m, !.reserved = None]
               ELSE [new EXCEPT !.sent = frame.from, !.ord = 2]
    BY <1>1
  <2> HIDE DEF none, n, m, new
  <2>5. /\ new \in Subscription /\ new.id = nextSub /\ new.buffer = none /\ ~new.resync
        /\ new.ord = 1 /\ new.reserved = 1
    BY <1>4, <2>1, <2>2 DEF Subscription
  <2>6. CASE frame = NoFrame
    <3>1. sub' = [new EXCEPT !.sent = n, !.reserved = 0]
      BY <2>3, <2>4, <2>6 DEF None
    <3>2. /\ sub' \in Subscription /\ sub'.id = nextSub /\ sub'.buffer = none /\ ~sub'.resync
          /\ sub'.ord = 1 /\ sub'.sent = n /\ sub'.reserved = 0
      BY <2>1, <2>5, <3>1 DEF Subscription
    <3> QED
      BY <2>3, <2>6, <3>2 DEF None
  <2>7. CASE frame # NoFrame
    <3>1. sub' = [new EXCEPT !.sent = frame.from, !.ord = 2] /\ frame.from \in Nat
      BY <1>6, <2>4, <2>7
    <3>2. /\ sub' \in Subscription /\ sub'.id = nextSub /\ sub'.buffer = none /\ ~sub'.resync
          /\ sub'.ord = 2 /\ sub'.reserved = 1
      BY <2>5, <3>1 DEF Subscription
    <3> QED
      BY <2>3, <2>7, <3>2
  <2> QED
    BY <2>6, <2>7
<1> HIDE DEF b
<1>11. sub' # NoSub
  BY <1>4, <1>10 DEF NoSub, None
<1> DEFINE N == IF frame = NoFrame THEN {} ELSE {frame}
<1>12. Frames' = Frames \cup N
  <2>1. Reserved(pending') = N
    BY <1>1, <1>9 DEF Reserved, NoReply
  <2> QED
    BY <1>1, <1>2, <2>1 DEF Frames, Waiting, OnWire, Reserved
<1>13. Acks' = Acks \cup {b}
  BY <1>1, <1>2, <1>9 DEF Acks, IsAck
<1>14. N \in SUBSET TopicFrame
  BY <1>6
<1>15. \A g \in N : /\ g.sub = nextSub /\ g.epoch = epoch /\ g.to = currentSeq /\ g.ord = 1
                    /\ g.from <= g.to /\ g.rows = Shown(log, g.from, g.to) /\ (g.snap => g.from = 0)
  BY <1>6
<1> HIDE DEF N
<1>16. WayClear' /\ GoodClient'
  BY <1>1, <1>2, <1>9, <1>10, <1>11, <1>12, <1>13, <1>14, <1>15, Acknowledged
<1>17. Serving'
  <2>1. up' /\ sub'.id = nextSub' - 1 /\ sub'.id # None /\ sub'.ord # 0
    BY <1>1, <1>2, <1>4, <1>10 DEF None
  <2>2. ASSUME NEW f \in Frames', f.sub = sub'.id PROVE f.epoch = epoch /\ f.ord < sub'.ord
    <3>1. f \in N
      <4>1. f \in Frames => f.sub \in 1..nextSub - 1
        BY DEF IInv, WayClear, OnTheWay, Framed, TrueFrame
      <4> QED
        BY <1>4, <1>10, <1>12, <2>2, <4>1
    <3> QED
      BY <1>6, <1>10, <3>1 DEF N
  <2>3. epoch' = epoch /\ currentSeq' = currentSeq /\ log' = log
    BY <1>1 DEF epoch, currentSeq, log
  <2>4. SentTo' = currentSeq
    <3>1. CASE frame = NoFrame
      BY <1>10, <3>1 DEF SentTo
    <3>2. CASE frame # NoFrame
      BY <1>1, <1>6, <1>9, <1>10, <3>2 DEF SentTo, None
    <3> QED
      BY <3>1, <3>2
  <2>5. Shown(log, currentSeq, currentSeq) = <<>>
    BY <1>4, ShownOfNothing
  <2>6. SentTo' <= currentSeq' /\ sub'.buffer = Shown(log', SentTo', currentSeq')
    BY <1>4, <1>10, <2>3, <2>4, <2>5
  <2>7. sub'.reserved # None =>
          /\ pending' # NoReply /\ pending'.frame # NoFrame
          /\ pending'.frame.sub = sub'.id /\ pending'.frame.ord = sub'.reserved
    BY <1>1, <1>6, <1>9, <1>10 DEF NoReply
  <2> QED
    BY <2>1, <2>2, <2>3, <2>6, <2>7 DEF Serving, Shown, Visible
<1>18. AcksOrdered'
  <2>1. \A i \in 1..Len(replies) : IsAck(replies[i]) => replies[i].sub < nextSub
    <3> SUFFICES ASSUME NEW i \in 1..Len(replies), IsAck(replies[i]) PROVE replies[i].sub < nextSub
      OBVIOUS
    <3>1. replies[i] \in Acks
      BY <1>2 DEF ToSet, IInv, Channelled
    <3>2. replies[i].sub \in 1..nextSub - 1
      BY <3>1 DEF IInv, WayClear, OnTheWay, Named
    <3> QED
      BY <1>4, <3>2
  <2> QED
    BY <1>1, <1>9, <2>1 DEF IInv, AcksOrdered, IsAck
<1>19. Channelled' /\ Subscribed' /\ PendingUp'
  BY <1>1, <1>2, <1>4, <1>6, <1>9, <1>10 DEF IInv, Channelled, Subscribed, PendingUp
<1>20. LogsTyped' /\ ClientTyped'
  BY <1>1, <1>2, SameLogs, SameClient DEF IInv, LogsTyped
<1> QED
  BY <1>16, <1>17, <1>18, <1>19, <1>20 DEF IInv

\* The invariant's parts that neither subscription nor log nor client is in.
LEMMA OwnedIsServed ==
  ASSUME IInv, NEW s \in Nat \ {0}, s = sub.id
  PROVE  sub # NoSub /\ sub \in Subscription /\ Serving
BY DEF IInv, Subscribed, NoSub, None

\* HandleResync keeps the invariant: the frame goes on from a base the log retains.
LEMMA ResyncKeeps ==
  ASSUME IInv, HandleResync, UNCHANGED client
  PROVE  IInv'
<1> DEFINE r == Head(requests)
           mode == IF ~r.force /\ Resumable(r.base) THEN "resume" ELSE "snapshot"
           frame == IF mode = "snapshot" THEN SnapshotFrame(sub, "recovery")
                    ELSE DeltaFrame(sub, "recovery", r.base.seq, Shown(log, r.base.seq, currentSeq))
           served == [type |-> "resynced", id |-> r.id, sub |-> r.sub, mode |-> mode,
                      epoch |-> epoch, frame |-> frame]
           refused == [type |-> "failed", id |-> r.id, why |-> "notOwned", frame |-> NoFrame]
           owned == r.sub = route /\ r.sub = sub.id
<1>1. /\ Handling("resync")
      /\ owned => /\ sub' = [sub EXCEPT !.buffer = <<>>, !.resync = FALSE, !.sent = frame.from,
                                        !.reserved = frame.ord, !.ord = @ + 1]
                  /\ pending' = served
      /\ ~owned => pending' = refused /\ sub' = sub
      /\ requests' = Tail(requests)
      /\ UNCHANGED <<up, logs, floor, nextSub, route, replies, wire, mishaps>>
  BY DEF HandleResync
<1>2. /\ up /\ pending = NoReply /\ r \in Request /\ r.type = "resync" /\ Tail(requests) \in Seq(Request)
      /\ Frames = OnWire(wire) \cup Waiting(client) /\ Acks = {a \in ToSet(replies) : IsAck(a)}
  BY <1>1, RequestTaken
<1>3. r.id \in Nat /\ r.base \in Base /\ r.sub \in Nat \ {0} /\ r.force \in BOOLEAN
  BY <1>2 DEF Request
<1>4. epoch \in Nat \ {0} /\ currentSeq \in Nat /\ log \in Seq(Event) /\ currentSeq = Len(log)
  BY <1>2, Latest DEF currentSeq
<1> HIDE DEF r
<1>5. LogsTyped' /\ ClientTyped'
  BY <1>1, <1>2, SameLogs, SameClient DEF IInv, LogsTyped
<1>6. CASE ~owned
  <2>1. refused \in Outcome /\ ~IsAck(refused) /\ refused # NoReply /\ refused.frame = NoFrame
    BY <1>3 DEF Outcome, Why, IsAck, NoReply
  <2>2. pending' = refused /\ sub' = sub
    BY <1>1, <1>6
  <2> HIDE DEF refused
  <2>3. Frames' = Frames
    BY <1>1, <1>2, <2>1, <2>2 DEF Frames, Waiting, OnWire, Reserved
  <2>4. Acks' = Acks
    BY <1>1, <1>2, <2>1, <2>2 DEF Acks, IsAck
  <2>5. WayClear' /\ GoodClient'
    <3>1. Waiting(client) \subseteq Frames
      BY DEF Frames
    <3> QED
      BY <1>1, <2>2, <2>3, <2>4, <3>1, Kept
  <2>6. sub # NoSub => sub.reserved = None
    BY <1>2 DEF IInv, Serving
  <2>7. Serving'
    BY <1>1, <2>2, <2>3, <2>6 DEF IInv, Serving, SentTo, epoch, currentSeq, log, Shown, Visible
  <2>8. AcksOrdered'
    BY <1>1, <2>1, <2>2, SameReplies
  <2>9. Channelled' /\ Subscribed' /\ PendingUp'
    BY <1>1, <1>2, <2>1, <2>2 DEF IInv, Channelled, Subscribed, PendingUp
  <2> QED
    BY <1>5, <2>5, <2>7, <2>8, <2>9 DEF IInv
<1>7. CASE owned
  <2>1. sub # NoSub /\ sub \in Subscription /\ Serving
    BY <1>3, <1>7, OwnedIsServed
  <2>2. /\ frame \in TopicFrame
        /\ frame.sub = sub.id /\ frame.ord = sub.ord /\ frame.epoch = epoch /\ frame.to = currentSeq
        /\ frame.from \in Nat /\ frame.from <= frame.to /\ frame.rows = Shown(log, frame.from, frame.to)
        /\ (frame.snap => frame.from = 0)
    <3>1. CASE ~(~r.force /\ Resumable(r.base))
      <4>1. frame = SnapshotFrame(sub, "recovery")
        BY <3>1
      <4>2. frame \in TopicFrame
        BY <2>1, <4>1, FramesTyped DEF Kind
      <4>3. /\ frame.sub = sub.id /\ frame.ord = sub.ord /\ frame.epoch = epoch /\ frame.to = currentSeq
            /\ frame.from = 0 /\ frame.rows = Shown(log, 0, currentSeq)
        BY <4>1 DEF SnapshotFrame, Frame
      <4> HIDE DEF frame
      <4> QED
        BY <1>4, <4>2, <4>3
    <3>2. CASE ~r.force /\ Resumable(r.base)
      <4> DEFINE m == r.base.seq
                 rows == Shown(log, r.base.seq, currentSeq)
      <4>1. frame = DeltaFrame(sub, "recovery", m, rows)
        BY <3>2
      <4>2. m \in Nat /\ m <= currentSeq /\ rows \in Seq(Event)
        BY <1>2, <1>3, <3>2, ResumedTyped
      <4>3. rows = Shown(log, m, currentSeq)
        OBVIOUS
      <4> HIDE DEF m, rows, frame
      <4>4. frame \in TopicFrame
        BY <2>1, <4>1, <4>2, FramesTyped DEF Kind
      <4>5. /\ frame.sub = sub.id /\ frame.ord = sub.ord /\ frame.epoch = epoch /\ frame.to = currentSeq
            /\ frame.from = m /\ frame.rows = rows /\ frame.snap = FALSE
        BY <4>1 DEF DeltaFrame, Frame
      <4> QED
        BY <4>2, <4>3, <4>4, <4>5
    <3> QED
      BY <3>1, <3>2
  <2>3. mode \in Mode
    BY DEF Mode
  <2> HIDE DEF frame, mode
  <2>4. /\ served \in Outcome /\ ~IsAck(served) /\ served # NoReply /\ served.frame = frame
        /\ frame # NoFrame
    <3>1. frame.type = "frame"
      BY <2>2 DEF TopicFrame
    <3>2. frame # NoFrame
      BY <3>1 DEF NoFrame
    <3> QED
      BY <1>3, <1>4, <2>2, <2>3, <3>2 DEF Outcome, IsAck, NoReply
  <2>5. pending' = served
    BY <1>1, <1>7
  <2> HIDE DEF served
  <2>6. /\ sub' \in Subscription /\ sub'.id = sub.id /\ sub'.buffer = <<>> /\ ~sub'.resync
        /\ sub'.reserved = sub.ord /\ sub'.ord = sub.ord + 1
    <3> DEFINE none == <<>>
               ord == sub.ord + 1
    <3>1. none \in Seq(Event) /\ ord \in Nat /\ sub.ord \in Nat /\ frame.from \in Nat
      BY <2>1, <2>2, EmptySeq DEF Subscription
    <3>2. sub' = [sub EXCEPT !.buffer = none, !.resync = FALSE, !.sent = frame.from,
                             !.reserved = sub.ord, !.ord = ord]
      BY <1>1, <1>7, <2>2
    <3>3. none = <<>> /\ ord = sub.ord + 1
      OBVIOUS
    <3> HIDE DEF none, ord
    <3>4. /\ sub' \in Subscription /\ sub'.id = sub.id /\ sub'.buffer = none /\ ~sub'.resync
          /\ sub'.reserved = sub.ord /\ sub'.ord = ord
      BY <2>1, <3>1, <3>2 DEF Subscription
    <3> QED
      BY <3>3, <3>4
  <2>7. sub' # NoSub
    BY <2>1, <2>6 DEF Serving, NoSub
  <2>8. Frames' = Frames \cup {frame}
    <3>1. Reserved(pending') = {frame}
      BY <2>4, <2>5 DEF Reserved
    <3> QED
      BY <1>1, <1>2, <3>1 DEF Frames, Waiting, OnWire, Reserved
  <2>9. Acks' = Acks
    BY <1>1, <1>2, <2>4, <2>5 DEF Acks, IsAck
  <2>10. WayClear' /\ GoodClient'
    BY <1>1, <2>1, <2>2, <2>6, <2>7, <2>8, <2>9, Extended
  <2>11. Serving'
    <3>1. up' /\ sub'.id = nextSub' - 1 /\ sub'.id # None /\ sub'.ord # 0
      BY <1>1, <2>1, <2>6 DEF Serving, Subscription
    <3>2. ASSUME NEW f \in Frames', f.sub = sub'.id PROVE f.epoch = epoch' /\ f.ord < sub'.ord
      <4>1. epoch' = epoch /\ sub.ord \in Nat
        BY <1>1, <2>1 DEF epoch, Subscription
      <4>2. f \in Frames => f.epoch = epoch /\ f.ord < sub.ord /\ f.ord \in Nat
        BY <2>1, <2>6, <3>2 DEF Serving, IInv, WayClear, OnTheWay, Framed, TopicFrame
      <4> HIDE DEF epoch
      <4> QED
        BY <2>2, <2>6, <2>8, <4>1, <4>2
    <3>3. SentTo' = currentSeq /\ currentSeq' = currentSeq /\ log' = log
      <4>1. sub'.reserved # None
        BY <2>1, <2>6 DEF Serving, None
      <4> QED
        BY <1>1, <2>2, <2>4, <2>5, <4>1 DEF SentTo, currentSeq, log, epoch
    <3>4. Shown(log, currentSeq, currentSeq) = <<>>
      BY <1>4, ShownOfNothing
    <3>5. SentTo' <= currentSeq' /\ sub'.buffer = Shown(log', SentTo', currentSeq')
      BY <1>4, <2>6, <3>3, <3>4
    <3>6. sub'.reserved # None =>
            /\ pending' # NoReply /\ pending'.frame # NoFrame
            /\ pending'.frame.sub = sub'.id /\ pending'.frame.ord = sub'.reserved
      BY <2>2, <2>4, <2>5, <2>6
    <3> QED
      BY <3>1, <3>2, <3>5, <3>6 DEF Serving, Shown, Visible, NoReply, NoFrame, None
  <2>12. AcksOrdered'
    BY <1>1, <2>4, <2>5, SameReplies
  <2>13. Channelled' /\ Subscribed' /\ PendingUp'
    <3>1. served.frame.ord # 0
      BY <2>1, <2>2, <2>4 DEF Serving
    <3> QED
      BY <1>1, <1>2, <2>4, <2>5, <2>6, <3>1 DEF IInv, Channelled, Subscribed, PendingUp
  <2> QED
    BY <1>5, <2>10, <2>11, <2>12, <2>13 DEF IInv
<1> HIDE DEF owned
<1> QED
  BY <1>6, <1>7

\* HandleUnsubscribe keeps the invariant.
LEMMA UnsubscribeKeeps ==
  ASSUME IInv, HandleUnsubscribe, UNCHANGED client
  PROVE  IInv'
<1>1. /\ Handling("unsubscribe") /\ sub' \in {sub, NoSub} /\ route' \in {route, None}
      /\ requests' = Tail(requests)
      /\ UNCHANGED <<up, logs, floor, nextSub, pending, replies, wire, mishaps>>
  BY DEF HandleUnsubscribe
<1>2. up /\ Tail(requests) \in Seq(Request)
  BY <1>1, RequestTaken
<1>3. Frames' = Frames /\ Acks' = Acks /\ Waiting(client) \subseteq Frames
  BY <1>1 DEF Frames, Waiting, OnWire, Reserved, Acks, IsAck
<1>4. WayClear' /\ GoodClient'
  BY <1>1, <1>3, Kept
<1>5. Serving'
  <2>1. CASE sub' = NoSub
    BY <2>1 DEF Serving, NoSub, None
  <2>2. CASE sub' = sub
    BY <1>1, <1>3, <2>2 DEF IInv, Serving, SentTo, epoch, currentSeq, log
  <2> QED
    BY <1>1, <2>1, <2>2
<1>6. Channelled' /\ Subscribed' /\ PendingUp'
  BY <1>1, <1>2 DEF IInv, Channelled, Subscribed, PendingUp, None
<1>7. LogsTyped' /\ ClientTyped' /\ AcksOrdered'
  BY <1>1, <1>2, SameLogs, SameClient, SameReplies DEF IInv, LogsTyped
<1> QED
  BY <1>4, <1>5, <1>6, <1>7 DEF IInv

\* Saturate keeps the invariant.
LEMMA SaturateKeeps ==
  ASSUME IInv, Saturate, UNCHANGED client
  PROVE  IInv'
<1>1. Mishap("saturate") /\ UNCHANGED <<up, logs, floor, sub, nextSub, pending, route, requests, replies, wire>>
  BY DEF Saturate
<1>2. Frames' = Frames /\ Acks' = Acks /\ Waiting(client) \subseteq Frames
  BY <1>1 DEF Frames, Waiting, OnWire, Reserved, Acks, IsAck
<1>3. WayClear' /\ GoodClient'
  BY <1>1, <1>2, Kept
<1>4. Serving'
  BY <1>1, <1>2 DEF IInv, Serving, SentTo, epoch, currentSeq, log
<1>5. Channelled' /\ Subscribed' /\ PendingUp' /\ LogsTyped'
  BY <1>1, Mishaps DEF IInv, Channelled, Subscribed, PendingUp, LogsTyped, epoch, currentSeq, log
<1>6. ClientTyped' /\ AcksOrdered'
  BY <1>1, SameClient, SameReplies
<1> QED
  BY <1>3, <1>4, <1>5, <1>6 DEF IInv

\* Rehydrate keeps the invariant: subscriptions then need a snapshot.
LEMMA RehydrateKeeps ==
  ASSUME IInv, Rehydrate, UNCHANGED client
  PROVE  IInv'
<1>1. /\ Mishap("rehydrate") /\ up
      /\ floor' \in {currentSeq, IF currentSeq > Retention THEN currentSeq - Retention ELSE 0}
      /\ sub' = IF sub = NoSub THEN sub
                ELSE [sub EXCEPT !.buffer = <<>>, !.resync = TRUE, !.sent = 0, !.reserved = None]
      /\ UNCHANGED <<up, logs, nextSub, pending, route, requests, replies, wire>>
  BY DEF Rehydrate
<1>2. Frames' = Frames /\ Acks' = Acks /\ Waiting(client) \subseteq Frames
  BY <1>1 DEF Frames, Waiting, OnWire, Reserved, Acks, IsAck
<1>3. LogsTyped'
  <2>1. currentSeq \in Nat
    BY <1>1, Latest
  <2>2. floor' \in Nat /\ floor' <= currentSeq
    <3> HIDE DEF currentSeq
    <3> QED
      BY <1>1, <2>1, TopicAssumption
  <2> QED
    BY <1>1, <2>2, SameLogs
<1>4. sub # NoSub =>
        /\ sub' \in Subscription /\ sub'.id = sub.id /\ sub'.resync /\ sub'.ord = sub.ord /\ sub'.reserved = None
  <2> DEFINE none == <<>>
  <2>1. none \in Seq(Event)
    BY EmptySeq
  <2>2. sub # NoSub =>
          sub \in Subscription /\ sub' = [sub EXCEPT !.buffer = none, !.resync = TRUE, !.sent = 0, !.reserved = 0]
    BY <1>1 DEF None, IInv, Subscribed
  <2> HIDE DEF none
  <2>3. ASSUME sub # NoSub
        PROVE  /\ sub' \in Subscription /\ sub'.id = sub.id /\ sub'.resync /\ sub'.ord = sub.ord /\ sub'.reserved = 0
    <3>1. sub \in Subscription /\ sub' = [sub EXCEPT !.buffer = none, !.resync = TRUE, !.sent = 0, !.reserved = 0]
      BY <2>2, <2>3
    <3> QED
      BY <2>1, <3>1 DEF Subscription
  <2> QED
    BY <2>3 DEF None
<1>5. sub' # NoSub => sub # NoSub
  BY <1>1
<1>6. WayClear' /\ GoodClient'
  BY <1>1, <1>2, <1>4, <1>5, Kept
<1>7. Serving'
  BY <1>1, <1>2, <1>4, <1>5 DEF IInv, Serving, epoch
<1>8. Subscribed'
  BY <1>1, <1>4 DEF IInv, Subscribed
<1>9. Channelled' /\ PendingUp'
  BY <1>1, Mishaps DEF IInv, Channelled, PendingUp
<1>10. ClientTyped' /\ AcksOrdered'
  BY <1>1, SameClient, SameReplies
<1> QED
  BY <1>3, <1>6, <1>7, <1>8, <1>9, <1>10 DEF IInv

\* A reply is the outcome of a request, without its frame.
LEMMA ReplyTyped ==
  ASSUME NEW p \in Outcome, NEW r, r = [f \in DOMAIN p \ {"frame"} |-> p[f]]
  PROVE  /\ r \in Reply /\ (IsAck(r) <=> IsAck(p))
         /\ IsAck(p) => r.sub = p.sub /\ r.epoch = p.epoch
<1>1. CASE p \in [type : {"subscribed", "resynced"}, id : Nat, sub : Nat, mode : Mode, epoch : Nat,
                  frame : TopicFrame \cup {NoFrame}]
  <2>1. DOMAIN p = {"type", "id", "sub", "mode", "epoch", "frame"}
    BY <1>1
  <2>2. DOMAIN p \ {"frame"} = {"type", "id", "sub", "mode", "epoch"}
    BY <2>1
  <2>3. r = [f \in {"type", "id", "sub", "mode", "epoch"} |-> p[f]]
    BY <2>2
  <2>4. /\ p.type \in {"subscribed", "resynced"} /\ p.id \in Nat /\ p.sub \in Nat /\ p.mode \in Mode
        /\ p.epoch \in Nat
    BY <1>1
  <2>5. /\ r.type = p.type /\ r.id = p.id /\ r.sub = p.sub /\ r.mode = p.mode /\ r.epoch = p.epoch
    BY <2>3
  <2>6. r = [type |-> p.type, id |-> p.id, sub |-> p.sub, mode |-> p.mode, epoch |-> p.epoch]
    BY <2>3
  <2> DEFINE q == [type |-> p.type, id |-> p.id, sub |-> p.sub, mode |-> p.mode, epoch |-> p.epoch]
  <2>7. q \in Reply
    BY <2>4 DEF Reply
  <2> HIDE DEF q
  <2> QED
    BY <2>5, <2>6, <2>7 DEF IsAck, q
<1>2. CASE p \in [type : {"failed"}, id : Nat, why : Why, frame : {NoFrame}]
  <2>1. DOMAIN p = {"type", "id", "why", "frame"}
    BY <1>2
  <2>2. DOMAIN p \ {"frame"} = {"type", "id", "why"}
    BY <2>1
  <2>3. r = [f \in {"type", "id", "why"} |-> p[f]]
    BY <2>2
  <2>4. p.type = "failed" /\ p.id \in Nat /\ p.why \in Why
    BY <1>2
  <2>5. r.type = p.type
    BY <2>3
  <2>6. r = [type |-> p.type, id |-> p.id, why |-> p.why]
    BY <2>3
  <2> DEFINE q == [type |-> p.type, id |-> p.id, why |-> p.why]
  <2>7. q \in Reply
    BY <2>4 DEF Reply
  <2> HIDE DEF q
  <2> QED
    BY <2>4, <2>5, <2>6, <2>7 DEF IsAck, q
<1> QED
  BY <1>1, <1>2 DEF Outcome

\* Respond keeps the invariant: the reservation it commits is the one it replied to.
LEMMA RespondKeeps ==
  ASSUME IInv, Respond, UNCHANGED client
  PROVE  IInv'
<1> DEFINE r == [f \in DOMAIN pending \ {"frame"} |-> pending[f]]
           commits == sub # NoSub /\ pending.frame # NoFrame
                        /\ sub.id = pending.frame.sub /\ sub.reserved = pending.frame.ord
<1>1. /\ pending # NoReply /\ replies' = Append(replies, r)
      /\ wire' = IF pending.frame = NoFrame THEN wire ELSE Append(wire, pending.frame)
      /\ sub' = IF commits THEN [sub EXCEPT !.sent = pending.frame.to, !.reserved = None] ELSE sub
      /\ route' = IF pending.type = "subscribed" THEN pending.sub ELSE route
      /\ pending' = NoReply
      /\ UNCHANGED <<up, logs, floor, nextSub, requests, mishaps>>
  BY DEF Respond
<1>2. pending \in Outcome /\ wire \in Seq(Message) /\ replies \in Seq(Reply) /\ up
  BY <1>1 DEF IInv, Channelled, PendingUp
<1>3. r \in Reply /\ (IsAck(r) <=> IsAck(pending)) /\ (IsAck(pending) => r.sub = pending.sub /\ r.epoch = pending.epoch)
  BY <1>2, ReplyTyped
<1> HIDE DEF r
<1>4. /\ pending.frame \in TopicFrame \cup {NoFrame} /\ (pending.type = "subscribed" => pending.sub \in Nat)
  BY <1>2 DEF Outcome
<1>5. wire' \in Seq(Message) /\ OnWire(wire') = OnWire(wire) \cup Reserved(pending)
  <2>1. CASE pending.frame = NoFrame
    BY <1>1, <1>2, <2>1 DEF Reserved
  <2>2. CASE pending.frame # NoFrame
    BY <1>1, <1>2, <1>4, <2>2, FrameSent DEF Reserved
  <2> QED
    BY <2>1, <2>2
<1>6. Frames' = Frames /\ Waiting(client) \subseteq Frames
  BY <1>1, <1>5 DEF Frames, Waiting, Reserved, OnWire
<1>7. replies' \in Seq(Reply) /\ ToSet(replies') = ToSet(replies) \cup {r}
  BY <1>1, <1>2, <1>3, AppendedSet
<1>8. \A b \in Acks' : \E a \in Acks : a.sub = b.sub /\ a.epoch = b.epoch
  <2> SUFFICES ASSUME NEW b \in Acks' PROVE \E a \in Acks : a.sub = b.sub /\ a.epoch = b.epoch
    OBVIOUS
  <2>1. IsAck(b) /\ (b \in ToSet(replies) \/ b = r \/ b = NoReply)
    BY <1>1, <1>7 DEF Acks, IsAck
  <2>2. CASE b \in ToSet(replies)
    BY <2>1, <2>2 DEF Acks
  <2>3. CASE b = r
    BY <1>3, <2>1, <2>3 DEF Acks
  <2>4. b # NoReply
    BY <2>1 DEF IsAck, NoReply
  <2> QED
    BY <2>1, <2>2, <2>3, <2>4
<1>9. sub' # NoSub => sub # NoSub
  BY <1>1
<1>10. sub # NoSub => sub \in Subscription /\ Serving
  BY DEF IInv, Subscribed
<1>11. ASSUME sub # NoSub
       PROVE  /\ sub' \in Subscription /\ sub'.id = sub.id /\ sub'.resync = sub.resync /\ sub'.ord = sub.ord
              /\ sub'.buffer = sub.buffer /\ sub'.reserved = None /\ sub'.sent = SentTo
  <2>1. sub \in Subscription /\ (sub.reserved # None => commits)
    BY <1>10, <1>11 DEF Serving
  <2>2. CASE sub.reserved = None
    <3>1. sub' = sub
      <4>1. CASE commits
        <5>1. pending.frame.ord = 0
          BY <2>2, <4>1 DEF None
        <5>2. pending.frame.ord # 0
          BY <1>1, <4>1 DEF IInv, PendingUp
        <5> QED
          BY <5>1, <5>2
      <4>2. CASE ~commits
        BY <1>1, <4>2
      <4> QED
        BY <4>1, <4>2
    <3> QED
      BY <1>1, <2>1, <2>2, <3>1 DEF SentTo
  <2>3. CASE sub.reserved # None
    <3>1. sub' = [sub EXCEPT !.sent = pending.frame.to, !.reserved = None] /\ pending.frame \in TopicFrame
      BY <1>1, <1>4, <2>1, <2>3
    <3>2. SentTo = pending.frame.to /\ pending.frame.to \in Nat
      BY <2>3, <3>1 DEF SentTo, TopicFrame
    <3> QED
      BY <2>1, <3>1, <3>2 DEF Subscription, None
  <2> QED
    BY <2>2, <2>3
<1>12. sub' # NoSub => sub # NoSub /\ sub'.id = sub.id
  BY <1>9, <1>11
<1>13. WayClear' /\ GoodClient'
  BY <1>1, <1>6, <1>8, <1>12, Kept
<1>14. Serving'
  <2> SUFFICES ASSUME sub' # NoSub PROVE Serving'
    BY DEF Serving
  <2>1. sub # NoSub /\ Serving
    BY <1>9, <1>10
  <2>2. SentTo' = SentTo
    BY <1>11, <2>1 DEF SentTo
  <2>3. epoch' = epoch /\ currentSeq' = currentSeq /\ log' = log
    BY <1>1 DEF epoch, currentSeq, log
  <2> QED
    BY <1>1, <1>6, <1>11, <2>1, <2>2, <2>3 DEF Serving, Shown, Visible
<1>15. Subscribed'
  <2>1. sub' \in Subscription \cup {NoSub}
    BY <1>1, <1>11
  <2> QED
    BY <1>1, <1>4, <2>1 DEF IInv, Subscribed
<1>16. AcksOrdered'
  <2>1. /\ Len(replies') = Len(replies) + 1 /\ Len(replies) \in Nat /\ replies'[Len(replies) + 1] = r
        /\ \A i \in 1..Len(replies) : replies'[i] = replies[i]
    BY <1>1, <1>2, <1>3, AppendProperties
  <2>2. ASSUME NEW i \in 1..Len(replies'), NEW j \in 1..Len(replies'), i < j,
               IsAck(replies'[i]), IsAck(replies'[j])
        PROVE  replies'[i].sub < replies'[j].sub
    <3>1. i \in 1..Len(replies)
      BY <2>1, <2>2
    <3>2. CASE j \in 1..Len(replies)
      BY <2>1, <2>2, <3>1, <3>2 DEF IInv, AcksOrdered
    <3>3. CASE j = Len(replies) + 1
      BY <1>3, <2>1, <2>2, <3>1, <3>3 DEF IInv, AcksOrdered
    <3> QED
      BY <2>1, <3>2, <3>3
  <2>3. ~IsAck(NoReply)
    BY DEF IsAck, NoReply
  <2> QED
    BY <1>1, <2>2, <2>3 DEF AcksOrdered, IsAck
<1>17. Channelled' /\ PendingUp'
  BY <1>1, <1>5, <1>7 DEF IInv, Channelled, PendingUp
<1>18. LogsTyped' /\ ClientTyped'
  BY <1>1, <1>2, SameLogs, SameClient DEF IInv, LogsTyped
<1> QED
  BY <1>13, <1>14, <1>15, <1>16, <1>17, <1>18 DEF IInv

\* Replies that acknowledge no subscription, behind others.
LEMMA NoMoreAcks ==
  ASSUME NEW s \in Seq(Reply), NEW t \in Seq(Reply), \A i \in 1..Len(t) : ~IsAck(t[i])
  PROVE  /\ s \o t \in Seq(Reply)
         /\ \A i \in 1..Len(s \o t) : IsAck((s \o t)[i]) => i \in 1..Len(s) /\ (s \o t)[i] = s[i]
<1> DEFINE u == s \o t
<1>1. /\ u \in Seq(Reply) /\ Len(u) = Len(s) + Len(t) /\ Len(s) \in Nat /\ Len(t) \in Nat
      /\ \A i \in 1..Len(u) : u[i] = IF i <= Len(s) THEN s[i] ELSE t[i - Len(s)]
  BY ConcatProperties
<1> HIDE DEF u
<1>2. ASSUME NEW i \in 1..Len(u), IsAck(u[i]) PROVE i \in 1..Len(s) /\ u[i] = s[i]
  <2>1. CASE i <= Len(s)
    BY <1>1, <2>1
  <2>2. CASE ~(i <= Len(s))
    <3>1. i - Len(s) \in 1..Len(t) /\ u[i] = t[i - Len(s)]
      BY <1>1, <2>2
    <3> QED
      BY <1>2, <3>1
  <2> QED
    BY <2>1, <2>2
<1> QED
  BY <1>1, <1>2 DEF u

\* Recycle keeps the invariant.
LEMMA RecycleKeeps ==
  ASSUME IInv, Recycle, UNCHANGED client
  PROVE  IInv' /\ Acks' \subseteq Acks
<1>1. /\ Mishap("recycle") /\ up' = FALSE /\ wire' = Append(wire, [type |-> "unavailable"])
      /\ sub' = NoSub /\ pending' = NoReply
      /\ UNCHANGED <<logs, floor, nextSub, route>>
  BY DEF Recycle
<1> DEFINE handled == IF pending = NoReply THEN <<>> ELSE <<RejectionOf(pending)>>
           asked == {r \in ToSet(requests) : r.type # "unsubscribe"}
<1>2. PICK k \in 0..Len(requests) :
        LET lost == Only(SubSeq(requests, 1, k), asked)
            cut == [i \in 1..Len(lost) |-> RejectionOf(lost[i])]
        IN  /\ requests' = SubSeq(requests, k + 1, Len(requests))
            /\ replies' = replies \o handled \o cut
  BY DEF Recycle
<1> DEFINE lost == Only(SubSeq(requests, 1, k), asked)
           cut == [i \in 1..Len(lost) |-> RejectionOf(lost[i])]
<1>3. /\ requests \in Seq(Request) /\ replies \in Seq(Reply) /\ wire \in Seq(Message)
      /\ pending \in Outcome \cup {NoReply} /\ Len(requests) \in Nat
  BY DEF IInv, Channelled
<1>4. ASSUME NEW id \in Nat, NEW r, r.id = id
      PROVE  RejectionOf(r) \in Reply /\ ~IsAck(RejectionOf(r))
  BY <1>4 DEF RejectionOf, Reply, Why, IsAck
<1>5. handled \in Seq(Reply) /\ \A i \in 1..Len(handled) : ~IsAck(handled[i])
  <2>1. CASE pending = NoReply
    <3>1. handled = <<>>
      BY <2>1
    <3> QED
      BY <3>1, EmptySeq
  <2>2. CASE pending # NoReply
    <3> DEFINE rejection == RejectionOf(pending)
    <3>1. pending.id \in Nat
      BY <1>3, <2>2 DEF Outcome
    <3>2. rejection \in Reply /\ ~IsAck(rejection) /\ handled = <<rejection>>
      BY <1>4, <2>2, <3>1
    <3> HIDE DEF rejection, handled
    <3> QED
      BY <3>2
  <2> QED
    BY <2>1, <2>2
<1>6. lost \in Seq(Request \cap asked)
  <2>1. SubSeq(requests, 1, k) \in Seq(Request)
    BY <1>3, SubSeqProperties
  <2> HIDE DEF asked
  <2> QED
    BY <2>1, OnlyEmbeds
<1>7. \A r \in Request \cap asked : r.id \in Nat
  BY DEF Request
<1>8. requests' = SubSeq(requests, k + 1, Len(requests)) /\ replies' = replies \o handled \o cut
  BY <1>2
<1> HIDE DEF lost, asked
<1>9. cut \in Seq(Reply) /\ \A i \in 1..Len(cut) : ~IsAck(cut[i])
  <2>1. Len(lost) \in Nat /\ \A i \in 1..Len(lost) : lost[i] \in Request \cap asked
    BY <1>6
  <2>2. ASSUME NEW i \in 1..Len(lost) PROVE RejectionOf(lost[i]) \in Reply /\ ~IsAck(RejectionOf(lost[i]))
    BY <1>4, <1>7, <2>1
  <2>3. cut \in [1..Len(lost) -> Reply]
    BY <2>2
  <2>4. cut \in Seq(Reply) /\ Len(cut) = Len(lost)
    BY <2>1, <2>3
  <2> QED
    BY <2>2, <2>4
<1> HIDE DEF cut, handled
<1> DEFINE s == replies \o handled
<1>10. /\ s \in Seq(Reply)
       /\ \A i \in 1..Len(s) : IsAck(s[i]) => i \in 1..Len(replies) /\ s[i] = replies[i]
  BY <1>3, <1>5, NoMoreAcks
<1>11. replies' = s \o cut
  BY <1>8
<1> HIDE DEF s
<1>12. /\ replies' \in Seq(Reply)
       /\ \A i \in 1..Len(replies') : IsAck(replies'[i]) => i \in 1..Len(s) /\ replies'[i] = s[i]
  <2>1. /\ s \o cut \in Seq(Reply)
        /\ \A i \in 1..Len(s \o cut) : IsAck((s \o cut)[i]) => i \in 1..Len(s) /\ (s \o cut)[i] = s[i]
    BY <1>9, <1>10, NoMoreAcks
  <2> QED
    BY <1>11, <2>1
<1>13. \A i \in 1..Len(replies') : IsAck(replies'[i]) => i \in 1..Len(replies) /\ replies'[i] = replies[i]
  BY <1>10, <1>12
<1>14. ~IsAck(NoReply)
  BY DEF IsAck, NoReply
<1>15. Acks' \subseteq Acks
  <2> SUFFICES ASSUME NEW a \in Acks' PROVE a \in Acks
    OBVIOUS
  <2>1. IsAck(a) /\ a \in ToSet(replies')
    BY <1>1, <1>14 DEF Acks, IsAck
  <2>2. PICK i \in 1..Len(replies') : a = replies'[i]
    BY <1>12, <2>1 DEF ToSet
  <2>3. i \in 1..Len(replies) /\ a = replies[i]
    BY <1>13, <2>1, <2>2
  <2>4. a \in ToSet(replies)
    BY <1>3, <2>3 DEF ToSet
  <2> QED
    BY <2>1, <2>4 DEF Acks
<1>16. AcksOrdered'
  <2>1. ASSUME NEW i \in 1..Len(replies'), NEW j \in 1..Len(replies'), i < j,
               IsAck(replies'[i]), IsAck(replies'[j])
        PROVE  replies'[i].sub < replies'[j].sub
    BY <1>13, <2>1 DEF IInv, AcksOrdered
  <2> QED
    BY <1>1, <1>14, <2>1 DEF AcksOrdered, IsAck
<1>17. wire' \in Seq(Message) /\ OnWire(wire') = OnWire(wire)
  BY <1>1, <1>3, NoticeSent
<1>18. Frames' \subseteq Frames /\ Waiting(client) \subseteq Frames'
  BY <1>1, <1>17 DEF Frames, Waiting, OnWire, Reserved
<1>19. WayClear' /\ GoodClient'
  BY <1>1, <1>15, <1>18, Kept
<1>20. LogsTyped' /\ Serving' /\ PendingUp' /\ Subscribed'
  BY <1>1 DEF IInv, LogsTyped, Serving, PendingUp, Subscribed
<1>21. Channelled'
  <2>1. requests' \in Seq(Request)
    BY <1>3, <1>8, SubSeqProperties
  <2> QED
    BY <1>1, <1>12, <1>17, <2>1, Mishaps DEF Channelled
<1> QED
  BY <1>15, <1>16, <1>19, <1>20, <1>21, SameClient DEF IInv

----------------------------------------------------------------------------
(* The invariant, and what follows from it.                                  *)

\* The flushes of the agent keep the invariant, and the logs.
LEMMA FlushesKeep ==
  ASSUME IInv, FlushTimer \/ ResumeFlow \/ FlushRehydrated, UNCHANGED client
  PROVE  IInv' /\ UNCHANGED logs
<1>1. CASE Flush
  <2>1. Flushes
    BY <1>1 DEF Flushes, FlushTimer, ResumeFlow, FlushRehydrated
  <2> QED
    BY <2>1, FlushKeeps DEF Flushes
<1>2. CASE ~Flush
  <2>1. UNCHANGED <<client, up, logs, floor, sub, nextSub, pending, route, requests, replies, wire, mishaps>>
    BY <1>2 DEF FlushTimer, ResumeFlow, FlushRehydrated
  <2> QED
    BY <2>1, NothingFlushed
<1> QED
  BY <1>1, <1>2

\* A step of the agent keeps the invariant; a log gets one more event, or a runtime
\* starts with what was durable, or the logs stay as they are.
LEMMA AgentKeeps ==
  ASSUME IInv, Agent, UNCHANGED client
  PROVE  /\ IInv'
         /\ \/ /\ logs # <<>>
               /\ logs' = [logs EXCEPT ![epoch] = Append(@, <<epoch, currentSeq + 1>>)]
            \/ \E durable \in Durable : logs' = Append(logs, durable)
            \/ UNCHANGED logs
<1>1. CASE Ingest
  BY <1>1, IngestKeeps
<1>2. CASE FlushTimer \/ ResumeFlow \/ FlushRehydrated
  BY <1>2, FlushesKeep
<1>3. CASE Saturate
  BY <1>3, SaturateKeeps DEF Saturate
<1>4. CASE Rehydrate
  BY <1>4, RehydrateKeeps DEF Rehydrate
<1>5. CASE HandleSubscribe
  BY <1>5, SubscribeKeeps DEF HandleSubscribe
<1>6. CASE HandleResync
  BY <1>6, ResyncKeeps DEF HandleResync
<1>7. CASE HandleUnsubscribe
  BY <1>7, UnsubscribeKeeps DEF HandleUnsubscribe
<1>8. CASE Respond
  BY <1>8, RespondKeeps DEF Respond
<1>9. CASE Recycle
  BY <1>9, RecycleKeeps DEF Recycle
<1>10. CASE Spawn
  BY <1>10, SpawnKeeps
<1> QED
  BY <1>1, <1>2, <1>3, <1>4, <1>5, <1>6, <1>7, <1>8, <1>9, <1>10 DEF Agent

\* The invariant holds at first.
LEMMA InitHolds == Init => IInv
<1> SUFFICES ASSUME Init PROVE IInv
  OBVIOUS
<1> DEFINE none == <<>>
<1>1. none \in Seq(Request) /\ none \in Seq(Reply) /\ none \in Seq(Message) /\ none \in Seq(Seq(Event))
      /\ none \in Seq(Event) /\ Len(none) = 0
  BY EmptySeq
<1>2. /\ requests = none /\ replies = none /\ wire = none /\ mishaps = NoMishap
      /\ up = FALSE /\ logs = none /\ floor = 0 /\ sub = NoSub /\ nextSub = 1 /\ pending = NoReply
      /\ route = 0
  BY DEF Init, TopicInit, None
<1>3. ToSet(none) = {}
  BY <1>1 DEF ToSet
<1>4. client = [status |-> "idle", sub |-> 0, view |-> NoView, calls |-> {}, awaiting |-> NoAwait,
                based |-> FALSE, recovery |-> NoRecovery, retry |-> "none", attempts |-> 0,
                active |-> 0, decoder |-> FreshDecoder, heal |-> FALSE, out |-> none]
  BY DEF Init, ClientInit, None
<1>5. none = <<>>
  OBVIOUS
<1> HIDE DEF none
<1>6. NoView \in View /\ NoView = [epoch |-> 0, seq |-> 0, rows |-> none]
  BY <1>1, <1>5 DEF NoView, View, None
<1>7. FreshDecoder \in Decoder /\ FreshDecoder.partial = NoPartial /\ FreshDecoder.settled = 0
  BY DEF FreshDecoder, Decoder
<1>8. NoAwait \in [sub : Nat, mode : Mode \cup {"none"}]
  BY DEF NoAwait, Mode, None
<1>9. MaxAttempts \in Nat /\ MaxEpochs \in Nat /\ MaxMishaps \in Nat
  BY StoreAssumption, WireAssumption
<1>10. Typed(client)
  <2>1. IsFiniteSet(client.calls)
    BY <1>4, FS_EmptySet
  <2>2. client \in Client
    BY <1>1, <1>4, <1>6, <1>7, <1>8, <1>9 DEF Client, Status
  <2> QED
    BY <1>4, <1>7, <2>1, <2>2 DEF Typed
<1>11. ClientTyped
  BY <1>4, <1>5, <1>10 DEF ClientTyped, Fresh
<1>12. Frames = {} /\ Acks = {}
  <2>1. Waiting(client) = {}
    BY <1>4 DEF Waiting
  <2>2. OnWire(wire) = {}
    BY <1>2, <1>3 DEF OnWire
  <2>3. Reserved(pending) = {}
    BY <1>2 DEF Reserved
  <2>4. ~IsAck(pending)
    BY <1>2 DEF IsAck, NoReply
  <2> QED
    BY <1>2, <1>3, <2>1, <2>2, <2>3, <2>4 DEF Frames, Acks
<1>13. LogsTyped
  <2>1. logs \in Seq(Seq(Event)) /\ Len(logs) = 0
    BY <1>1, <1>2
  <2>2. DOMAIN logs = {}
    BY <2>1
  <2>3. Len(logs) <= MaxEpochs /\ \A e \in DOMAIN logs : Len(logs[e]) <= MaxEvents
    BY <1>9, <2>1, <2>2
  <2>4. up = FALSE /\ floor = 0
    BY <1>2
  <2>5. up \in BOOLEAN /\ floor \in Nat /\ (up => logs # <<>> /\ floor <= currentSeq)
    BY <2>4
  <2> QED
    BY <2>1, <2>3, <2>5 DEF LogsTyped
<1>14. Channelled /\ Subscribed /\ AcksOrdered /\ Serving /\ PendingUp
  BY <1>1, <1>2, <1>9 DEF Channelled, Subscribed, AcksOrdered, Serving, PendingUp, NoMishap
<1>15. WayClear
  BY <1>1, <1>2, <1>12 DEF WayClear, OnTheWay, Logged, Framed, Ordered, Named, Current, NoSub
<1>16. GoodClient
  BY <1>2, <1>4, <1>12 DEF GoodClient, Good, ViewTrue, CallsGood, BasedGood, AcksGood, AheadGood
<1> QED
  BY <1>11, <1>13, <1>14, <1>15, <1>16 DEF IInv

\* Every step keeps it.
LEMMA NextKeeps == IInv /\ [Next]_vars => IInv'
<1> SUFFICES ASSUME IInv, [Next]_vars PROVE IInv'
  OBVIOUS
<1>1. CASE Store /\ UNCHANGED topic
  BY <1>1, StoreKeeps
<1>2. CASE Agent /\ UNCHANGED client
  BY <1>2, AgentKeeps
<1>3. CASE LoseFrame /\ UNCHANGED <<topic, client>>
  BY <1>3, LoseKeeps
<1>4. CASE RepeatFrame /\ UNCHANGED <<topic, client>>
  BY <1>4, RepeatKeeps
<1>5. CASE UNCHANGED vars
  BY <1>5, NothingFlushed DEF vars, channels, topic
<1> QED
  BY <1>1, <1>2, <1>3, <1>4, <1>5 DEF Next

\* Whatever is lost, repeated, saturated or restarted: frames show stretches of one log,
\* in the order they are sent, and the page takes only what goes on where it is.
THEOREM Invariance == Spec => []IInv
<1> QED
  BY InitHolds, NextKeeps, PTL DEF Spec

\* The store and the topic keep their types, whatever the bounds are.
THEOREM TypeCorrect == Spec => []TypeOK
<1>1. IInv => TypeOK
  <2> SUFFICES ASSUME IInv PROVE TypeOK
    OBVIOUS
  <2>1. /\ client \in Client /\ client.out = <<>> /\ ~client.heal /\ client.sub < nextSub
        /\ nextSub \in Nat \ {0}
    BY DEF IInv, ClientTyped, Typed, Fresh, GoodClient, Good, Subscribed
  <2>2. /\ client.status \in Status /\ client.sub \in Nat /\ client.attempts \in 0..MaxAttempts
        /\ client.retry \in {"none", "armed", "stale"} /\ client.recovery \in Recovery \cup {NoRecovery}
    BY <2>1 DEF Client
  <2>3. client.recovery = NoRecovery \/ client.recovery.ack \in {"waiting", "resume", "snapshot"}
    BY <2>2 DEF Recovery, Mode
  <2>4. client.sub \in 0..nextSub - 1
    BY <2>1, <2>2
  <2>5. up => logs # <<>> /\ floor \in 0..currentSeq
    <3> SUFFICES ASSUME up PROVE logs # <<>> /\ floor \in 0..currentSeq
      OBVIOUS
    <3>1. currentSeq \in Nat
      BY Latest
    <3> QED
      BY <3>1 DEF IInv, LogsTyped
  <2>6. mishaps.number \in 0..MaxMishaps
    BY DEF IInv, Channelled
  <2> QED
    BY <2>1, <2>2, <2>3, <2>4, <2>5, <2>6 DEF TypeOK, Status
<1> QED
  BY <1>1, Invariance, PTL

\* A step of the store shows more of the log it shows, or a later one.
LEMMA StoreShows ==
  ASSUME IInv, Store, UNCHANGED topic
  PROVE  [Promise!Next]_<<logs, client.view>>
<1> DEFINE old == client.view
           new == client'.view
<1>1. Advances(client, client') /\ Typed(client)' /\ ViewTrue(client) /\ ViewTrue(client)' /\ logs' = logs
  BY StoreKeeps DEF IInv, ClientTyped, GoodClient, Good, topic
<1>2. new \in View /\ new.epoch \in Nat /\ new.seq \in Nat
  BY <1>1 DEF Typed, Client, View
<1>3. old.epoch \in Nat /\ old.seq \in Nat
  BY DEF IInv, ClientTyped, Typed, Client, View
<1>4. old.epoch < new.epoch \/ (old.epoch = new.epoch /\ old.seq <= new.seq)
  BY <1>1 DEF Advances, Before
<1>5. logs \in Seq(Seq(Event))
  BY DEF IInv, LogsTyped
<1>6. CASE new = NoView
  <2>1. new.epoch = 0
    BY <1>6 DEF NoView, None
  <2>2. old.epoch = 0
    BY <1>2, <1>3, <1>4, <2>1
  <2>3. old.epoch \notin DOMAIN logs
    BY <1>5, <2>2
  <2>4. old = NoView
    BY <1>1, <2>3 DEF ViewTrue
  <2> QED
    BY <1>1, <1>6, <2>4
<1>7. CASE new # NoView
  <2>1. /\ new.epoch \in DOMAIN logs /\ new.seq <= Len(logs[new.epoch])
        /\ new.rows = Shown(logs[new.epoch], 0, new.seq)
    BY <1>1, <1>7 DEF ViewTrue
  <2>2. Len(logs[new.epoch]) \in Nat
    BY <1>5, <2>1
  <2>3. new.seq \in 0..Len(logs[new.epoch])
    BY <1>2, <2>1, <2>2
  <2>4. new.rows = Promise!RowsOf(new.epoch, new.seq)
    <3>1. new.rows = Only(SubSeq(logs[new.epoch], 0 + 1, new.seq), Visible)
      BY <2>1 DEF Shown
    <3>2. 0 + 1 = 1
      OBVIOUS
    <3> HIDE DEF new
    <3>3. Promise!RowsOf(new.epoch, new.seq) = Only(SubSeq(logs[new.epoch], 1, new.seq), Visible)
      BY DEF Promise!RowsOf, Visible, Event, Only, Promise!Only
    <3> QED
      BY <3>1, <3>2, <3>3
  <2>5. new = [epoch |-> new.epoch, seq |-> new.seq, rows |-> new.rows]
    BY <1>2 DEF View
  <2>6. new.epoch > old.epoch \/ (new.epoch = old.epoch /\ new.seq >= old.seq)
    BY <1>2, <1>3, <1>4
  <2>7. Promise!Show
    <3>1. client.view' = [epoch |-> new.epoch, seq |-> new.seq, rows |-> Promise!RowsOf(new.epoch, new.seq)]
      BY <2>4, <2>5
    <3>2. client.view' = new /\ client.view = old
      OBVIOUS
    <3> HIDE DEF new, old
    <3> QED
      BY <1>1, <2>1, <2>3, <2>6, <3>1, <3>2 DEF Promise!Show
  <2> QED
    BY <2>7 DEF Promise!Next
<1> QED
  BY <1>6, <1>7

\* The page shows a prefix of one runtime's log, whole and in order, and never goes back:
\* the store, the topic and the channels between them implement ConversationPromise.
THEOREM PromiseKept == Spec => KeepsPromise
<1>1. Init => Promise!Init
  BY DEF Init, TopicInit, ClientInit, Promise!Init, Promise!Nothing, NoView, None
<1>2. IInv /\ [Next]_vars => [Promise!Next]_<<logs, client.view>>
  <2> SUFFICES ASSUME IInv, [Next]_vars PROVE [Promise!Next]_<<logs, client.view>>
    OBVIOUS
  <2>1. CASE Store /\ UNCHANGED topic
    BY <2>1, StoreShows
  <2>2. CASE Agent /\ UNCHANGED client
    <3>1. /\ epoch = Len(logs) /\ currentSeq = Len(logs[epoch])
      BY DEF epoch, currentSeq, log
    <3>2. CASE logs # <<>> /\ logs' = [logs EXCEPT ![epoch] = Append(@, <<epoch, currentSeq + 1>>)]
      <4>1. Promise!Write
        BY <2>2, <3>1, <3>2 DEF Promise!Write
      <4> QED
        BY <4>1 DEF Promise!Next
    <3>3. CASE \E durable \in Durable : logs' = Append(logs, durable)
      <4>1. Promise!Start
        BY <2>2, <3>3 DEF Promise!Start, Durable, Last, Promise!Last
      <4> QED
        BY <4>1 DEF Promise!Next
    <3> QED
      BY <2>2, <3>2, <3>3, AgentKeeps
  <2>3. CASE (LoseFrame \/ RepeatFrame) /\ UNCHANGED <<topic, client>>
    BY <2>3 DEF topic
  <2>4. CASE UNCHANGED vars
    BY <2>4 DEF vars, topic
  <2> QED
    BY <2>1, <2>2, <2>3, <2>4 DEF Next
<1> QED
  BY <1>1, <1>2, Invariance, PTL DEF Spec, KeepsPromise, Promise!Spec

----------------------------------------------------------------------------
(* Which subscription the page, the host and the agent hold.                 *)

\* What is on its way between the page and the agent: a request or its reply asks or
\* answers for a call, and subscribes; an unsubscribe ends a subscription.
Item == Request \cup Reply \cup Outcome
Asks(m) == m.type # "unsubscribe"
Subs(m) == m.type \in {"subscribe", "subscribed"}

\* The connect that counts.
Counts(k) == k.of = "subscribe" /\ k.current
Counting(c) == {k.id : k \in {j \in c.calls : Counts(j)}}

\* The line M of replies and requests: each call is asked or answered for once, the connect
\* that counts is the last subscribe in it, a live page has none, and what is cancelled is
\* older than n, than what is acknowledged (A), and than what a live page serves.
AskedOnce(M) == \A i, j \in 1..Len(M) : i < j /\ Asks(M[i]) /\ Asks(M[j]) => M[i].id # M[j].id
HasCall(M, c) ==
  \A i \in 1..Len(M) :
    Asks(M[i]) => \E k \in c.calls : k.id = M[i].id /\ (Subs(M[i]) => k.of = "subscribe")
CountsLast(M, c) ==
  \A i, j \in 1..Len(M) : i < j /\ Subs(M[i]) /\ Subs(M[j]) => M[i].id \notin Counting(c)
LiveIsLast(M, c) == c.status = "live" => \A i \in 1..Len(M) : ~Subs(M[i])
CancelsOld(M, c, A, n) ==
  \A i \in 1..Len(M) :
    ~Asks(M[i]) => /\ M[i].sub < n
                   /\ \A a \in A : M[i].sub < a.sub
                   /\ c.status = "live" => M[i].sub < c.sub
Lined(M, c, A, n) ==
  AskedOnce(M) /\ HasCall(M, c) /\ CountsLast(M, c) /\ LiveIsLast(M, c) /\ CancelsOld(M, c, A, n)

\* One connect counts, and none once the page is live or closed; each ACK (A) is one of a
\* call; what the page serves, or will when an ACK comes, is one of S.
OneCounts(c) ==
  /\ \A j, k \in c.calls : j.id = k.id => j = k
  /\ \A j, k \in c.calls : Counts(j) /\ Counts(k) => j = k
  /\ c.status \in {"live", "closed"} => \A k \in c.calls : ~Counts(k)
Owns(c, A, S) ==
  /\ c.status = "live" => c.sub # None /\ c.sub \in S
  /\ \A a \in A : \E k \in c.calls : k.id = a.id
  /\ \A a \in A : a.id \in Counting(c) => a.sub \in S
Linked(c, L, A, S, n) == OneCounts(c) /\ Owns(c, A, S) /\ Lined(L \o c.out, c, A, n)

\* d has the calls of c, but that fewer of them count, and is live only as c is.
Fades(c, d) ==
  /\ d.status = "live" => c.status = "live" /\ d.sub = c.sub
  /\ d.status = "closed" => c.status = "closed"
  /\ \A k \in c.calls : \E j \in d.calls : j.id = k.id /\ j.of = k.of
  /\ \A j \in d.calls : \E k \in c.calls : j.id = k.id /\ j.of = k.of /\ (j.current => k.current)
  /\ (\A i, j \in c.calls : i.id = j.id => i = j) => \A i, j \in d.calls : i.id = j.id => i = j

\* What fades stays linked: fewer connects count, and what is on its way is the same.
LEMMA FadesCounting ==
  ASSUME NEW c, NEW d, Fades(c, d)
  PROVE  Counting(d) \subseteq Counting(c)
BY DEF Fades, Counting, Counts

\* Likewise.
LEMMA FadesLined ==
  ASSUME NEW c, NEW d, Fades(c, d), NEW M, NEW A, NEW n, Lined(M, c, A, n)
  PROVE  Lined(M, d, A, n)
<1>1. AskedOnce(M)
  BY DEF Lined
<1>2. HasCall(M, d)
  BY DEF Lined, HasCall, Fades
<1>3. CountsLast(M, d)
  BY FadesCounting DEF Lined, CountsLast
<1>4. LiveIsLast(M, d)
  BY DEF Lined, LiveIsLast, Fades
<1>5. CancelsOld(M, d, A, n)
  BY DEF Lined, CancelsOld, Fades
<1> QED
  BY <1>1, <1>2, <1>3, <1>4, <1>5 DEF Lined

\* Likewise.
LEMMA FadesLinked ==
  ASSUME NEW c, NEW d, Fades(c, d), d.out = c.out, NEW L, NEW A, NEW S, NEW n, Linked(c, L, A, S, n)
  PROVE  Linked(d, L, A, S, n)
<1>1. Lined(L \o d.out, d, A, n)
  BY FadesLined DEF Linked
<1>2. Owns(d, A, S)
  BY FadesCounting DEF Linked, Owns, Fades
<1>3. OneCounts(d)
  <2>1. \A i, j \in d.calls : i.id = j.id => i = j
    BY DEF Fades, Linked, OneCounts
  <2>2. ASSUME NEW i \in d.calls, NEW j \in d.calls, Counts(i), Counts(j) PROVE i = j
    <3>1. PICK k \in c.calls : i.id = k.id /\ i.of = k.of /\ (i.current => k.current)
      BY DEF Fades
    <3>2. PICK l \in c.calls : j.id = l.id /\ j.of = l.of /\ (j.current => l.current)
      BY DEF Fades
    <3>3. k = l
      BY <2>2, <3>1, <3>2 DEF Counts, Linked, OneCounts
    <3> QED
      BY <2>1, <3>1, <3>2, <3>3
  <2>3. ASSUME d.status \in {"live", "closed"}, NEW i \in d.calls PROVE ~Counts(i)
    BY <2>3 DEF Linked, OneCounts, Counts, Fades
  <2> QED
    BY <2>1, <2>2, <2>3 DEF OneCounts
<1> QED
  BY <1>1, <1>2, <1>3 DEF Linked

\* Nothing of this changes.
LEMMA StillLinked ==
  ASSUME NEW c, NEW d, d.status = "live" => c.status = "live" /\ d.sub = c.sub,
         d.status = "closed" => c.status = "closed", d.calls = c.calls, d.out = c.out,
         NEW L, NEW A, NEW S, NEW n, Linked(c, L, A, S, n)
  PROVE  Linked(d, L, A, S, n)
<1>1. Fades(c, d)
  BY DEF Fades, Linked, OneCounts
<1> QED
  BY <1>1, FadesLinked

\* The line with one more request.
LEMMA LineGrows ==
  ASSUME NEW L \in Seq(Item), NEW c, Typed(c), NEW r \in Request
  PROVE  LET M == L \o c.out
             N == L \o Append(c.out, r)
         IN  /\ M \in Seq(Item) /\ N \in Seq(Item) /\ Len(M) \in Nat /\ Len(N) = Len(M) + 1
             /\ N[Len(M) + 1] = r /\ \A i \in 1..Len(M) : N[i] = M[i]
<1> DEFINE M == L \o c.out
           N == L \o Append(c.out, r)
<1>1. c.out \in Seq(Item) /\ r \in Item
  BY DEF Typed, Client, Item
<1>2. M \in Seq(Item)
  BY <1>1, ConcatProperties
<1>3. N = Append(M, r)
  BY <1>1, AppendBehind
<1> HIDE DEF M, N
<1>4. /\ N \in Seq(Item) /\ Len(M) \in Nat /\ Len(N) = Len(M) + 1
      /\ N[Len(M) + 1] = r /\ \A i \in 1..Len(M) : N[i] = M[i]
  BY <1>1, <1>2, <1>3, AppendProperties
<1> QED
  BY <1>2, <1>4 DEF M, N

\* A request is sent, of a call with a new number.
LEMMA SentLinked ==
  ASSUME NEW L \in Seq(Item), NEW A, NEW S, NEW n, NEW c, Typed(c), Linked(c, L, A, S, n),
         NEW call \in Asked, \A k \in c.calls : k.id # call.id,
         NEW r \in Request, r.type = call.of, r.id = call.id,
         call.of = "subscribe" => c.status \notin {"live", "closed"} /\ Counting(c) = {}
  PROVE  Linked(Sent(c, call, r), L, A, S, n)
<1> DEFINE d == Sent(c, call, r)
           M == L \o c.out
           N == L \o Append(c.out, r)
           m == Len(M)
<1>1. /\ m \in Nat /\ Len(N) = m + 1 /\ N[m + 1] = r /\ \A i \in 1..m : N[i] = M[i]
  BY LineGrows
<1>2. d.calls = c.calls \cup {call} /\ d.out = Append(c.out, r) /\ d.status = c.status /\ d.sub = c.sub
  BY DEF Sent, Typed, Client
<1>3. call.of \in {"subscribe", "resync"} /\ Asks(r) /\ (Subs(r) <=> call.of = "subscribe")
  BY DEF Asked, Asks, Subs
<1>4. Lined(M, c, A, n) /\ OneCounts(c) /\ Owns(c, A, S)
  BY DEF Linked
<1> HIDE DEF d, M, N, m
<1>5. \A i \in 1..Len(N) : i \in 1..m \/ (i = m + 1 /\ N[i] = r)
  BY <1>1
<1>6. ASSUME NEW i \in 1..m, Asks(M[i]) PROVE M[i].id # call.id
  BY <1>4, <1>6 DEF Lined, HasCall, m
<1>7. \A x : Subs(x) => Asks(x)
  BY DEF Subs, Asks
<1>8. Counting(d) \subseteq Counting(c) \cup {call.id}
  BY <1>2 DEF Counting
<1>9. call.of # "subscribe" => Counting(d) = Counting(c)
  BY <1>2 DEF Counting, Counts
<1>10. AskedOnce(N)
  <2> SUFFICES ASSUME NEW i \in 1..Len(N), NEW j \in 1..Len(N), i < j, Asks(N[i]), Asks(N[j])
               PROVE  N[i].id # N[j].id
    BY DEF AskedOnce
  <2>1. i \in 1..m
    BY <1>1
  <2>2. CASE j \in 1..m
    BY <1>1, <1>4, <2>1, <2>2 DEF Lined, AskedOnce, m
  <2>3. CASE j = m + 1
    BY <1>1, <1>6, <2>1, <2>3
  <2> QED
    BY <1>5, <2>2, <2>3
<1>11. HasCall(N, d)
  <2> SUFFICES ASSUME NEW i \in 1..Len(N), Asks(N[i])
               PROVE  \E k \in d.calls : k.id = N[i].id /\ (Subs(N[i]) => k.of = "subscribe")
    BY DEF HasCall
  <2>1. CASE i \in 1..m
    BY <1>1, <1>2, <1>4, <2>1 DEF Lined, HasCall, m
  <2>2. CASE i = m + 1
    BY <1>1, <1>2, <1>3, <2>2
  <2> QED
    BY <1>5, <2>1, <2>2
<1>12. CountsLast(N, d)
  <2> SUFFICES ASSUME NEW i \in 1..Len(N), NEW j \in 1..Len(N), i < j, Subs(N[i]), Subs(N[j])
               PROVE  N[i].id \notin Counting(d)
    BY DEF CountsLast
  <2>1. i \in 1..m
    BY <1>1
  <2>2. M[i].id # call.id
    BY <1>1, <1>6, <1>7, <2>1
  <2>3. CASE j \in 1..m
    BY <1>1, <1>4, <1>8, <2>1, <2>2, <2>3 DEF Lined, CountsLast, m
  <2>4. CASE j = m + 1
    BY <1>1, <1>3, <1>8, <2>1, <2>2, <2>4
  <2> QED
    BY <1>5, <2>3, <2>4
<1>13. LiveIsLast(N, d)
  <2> SUFFICES ASSUME c.status = "live", NEW i \in 1..Len(N) PROVE ~Subs(N[i])
    BY <1>2 DEF LiveIsLast
  <2>1. CASE i \in 1..m
    BY <1>1, <1>4, <2>1 DEF Lined, LiveIsLast, m
  <2>2. CASE i = m + 1
    BY <1>1, <1>3, <2>2
  <2> QED
    BY <1>5, <2>1, <2>2
<1>14. CancelsOld(N, d, A, n)
  <2> SUFFICES ASSUME NEW i \in 1..Len(N), ~Asks(N[i])
               PROVE  /\ N[i].sub < n /\ \A a \in A : N[i].sub < a.sub
                      /\ c.status = "live" => N[i].sub < c.sub
    BY <1>2 DEF CancelsOld
  <2>1. i \in 1..m
    BY <1>3, <1>5
  <2> QED
    BY <1>1, <1>4, <2>1 DEF Lined, CancelsOld, m
<1>15. OneCounts(d)
  <2>1. \A j, k \in d.calls : j.id = k.id => j = k
    BY <1>2, <1>4 DEF OneCounts
  <2>2. ASSUME NEW j \in d.calls, NEW k \in d.calls, Counts(j), Counts(k) PROVE j = k
    <3>1. Counts(call) => \A i \in c.calls : ~Counts(i)
      BY DEF Counts, Counting
    <3> QED
      BY <1>2, <1>4, <2>2, <3>1 DEF OneCounts
  <2>3. ASSUME d.status \in {"live", "closed"}, NEW k \in d.calls PROVE ~Counts(k)
    BY <1>2, <1>4, <2>3 DEF OneCounts, Counts
  <2> QED
    BY <2>1, <2>2, <2>3 DEF OneCounts
<1>16. Owns(d, A, S)
  <2>1. ASSUME NEW a \in A, a.id \in Counting(d) PROVE a.sub \in S
    BY <1>4, <1>8, <2>1 DEF Owns
  <2> QED
    BY <1>2, <1>4, <2>1 DEF Owns
<1>17. Lined(N, d, A, n)
  BY <1>10, <1>11, <1>12, <1>13, <1>14 DEF Lined
<1>18. L \o d.out = N
  BY <1>2 DEF N
<1> QED
  BY <1>15, <1>16, <1>17, <1>18 DEF Linked, d

\* A cancellation is sent, of a subscription older than what is yet to come.
LEMMA UnsubscribeLinked ==
  ASSUME NEW L \in Seq(Item), NEW A, NEW S, NEW n, NEW c, Typed(c), Linked(c, L, A, S, n),
         NEW s \in Nat, s < n, \A a \in A : s < a.sub, c.status # "live"
  PROVE  Linked(Unsubscribe(c, s), L, A, S, n)
<1> DEFINE r == [type |-> "unsubscribe", sub |-> s]
           d == Unsubscribe(c, s)
           M == L \o c.out
           N == L \o Append(c.out, r)
           m == Len(M)
<1>0. r \in Request /\ ~Asks(r) /\ ~Subs(r) /\ r.sub = s
  BY DEF Request, Asks, Subs
<1>2. d.calls = c.calls /\ d.out = Append(c.out, r) /\ d.status = c.status /\ d.sub = c.sub
  BY DEF Unsubscribe, Typed, Client
<1> HIDE DEF r
<1>1. /\ m \in Nat /\ Len(N) = m + 1 /\ N[m + 1] = r /\ \A i \in 1..m : N[i] = M[i]
  BY <1>0, LineGrows
<1>4. Lined(M, c, A, n) /\ OneCounts(c) /\ Owns(c, A, S)
  BY DEF Linked
<1> HIDE DEF d, M, N, m
<1>5. \A i \in 1..Len(N) : (i \in 1..m /\ N[i] = M[i]) \/ (i = m + 1 /\ N[i] = r)
  BY <1>1
<1>6. Counting(d) = Counting(c) /\ OneCounts(d) /\ Owns(d, A, S)
  BY <1>2, <1>4 DEF Counting, OneCounts, Owns
<1>7. AskedOnce(N)
  BY <1>0, <1>4, <1>5 DEF Lined, AskedOnce, m
<1>8. HasCall(N, d)
  BY <1>0, <1>2, <1>4, <1>5 DEF Lined, HasCall, m
<1>9. CountsLast(N, d)
  BY <1>0, <1>4, <1>5, <1>6 DEF Lined, CountsLast, m
<1>10. LiveIsLast(N, d)
  BY <1>0, <1>2, <1>4, <1>5 DEF Lined, LiveIsLast, m
<1>11. CancelsOld(N, d, A, n)
  BY <1>0, <1>2, <1>4, <1>5 DEF Lined, CancelsOld, m
<1>12. L \o d.out = N
  BY <1>2 DEF N
<1> QED
  BY <1>6, <1>7, <1>8, <1>9, <1>10, <1>11, <1>12 DEF Linked, Lined, d

----------------------------------------------------------------------------
\* Whatever is on its way, d is linked as c is.
Links(c, d) ==
  \A L \in Seq(Item) : \A A, S, n : Linked(c, L, A, S, n) => Linked(d, L, A, S, n)
Ties(c, d) == Typed(d) /\ Links(c, d)

\* Ties compose.
LEMMA TiesSelf == ASSUME NEW c, Typed(c) PROVE Ties(c, c)
BY DEF Ties, Links

\* Likewise.
LEMMA TiesAgain ==
  ASSUME NEW c, NEW d, NEW e, Ties(c, d), Ties(d, e)
  PROVE  Ties(c, e)
BY DEF Ties, Links

\* d has sent what c has, its calls are those of c, though fewer may count, and it is live
\* only as c is.
LEMMA FadesTies ==
  ASSUME NEW c, NEW d, Typed(d), Fades(c, d), d.out = c.out
  PROVE  Ties(c, d)
BY FadesLinked DEF Ties, Links

\* What the link does not depend on may change.
LEMMA RestTies ==
  ASSUME NEW c, NEW d, Typed(d), d.calls = c.calls, d.out = c.out,
         d.status = "live" => c.status = "live" /\ d.sub = c.sub,
         d.status = "closed" => c.status = "closed"
  PROVE  Ties(c, d)
BY StillLinked DEF Ties, Links

\* A new call has a number of its own.
LEMMA NewIdFresh == ASSUME NEW c, Typed(c) PROVE \A k \in c.calls : k.id # NewId(c)
<1> DEFINE n == Cardinality(c.calls)
           ids == {k.id : k \in c.calls}
<1>1. IsFiniteSet(c.calls) /\ n \in Nat
  BY FS_CardinalityType DEF Typed
<1>2. IsFiniteSet(ids) /\ Cardinality(ids) <= n
  <2> DEFINE f == [k \in c.calls |-> k.id]
  <2>1. f \in Surjection(c.calls, ids)
    BY DEF Surjection
  <2> HIDE DEF f, ids, n
  <2> QED
    BY <1>1, <2>1, FS_Surjection DEF n
<1>3. IsFiniteSet(1..n + 1) /\ Cardinality(1..n + 1) = n + 1
  <2>1. 1 \in Int /\ n + 1 \in Int
    BY <1>1
  <2>2. Cardinality(1..n + 1) = IF 1 > n + 1 THEN 0 ELSE (n + 1) - 1 + 1
    BY <2>1, FS_Interval
  <2> HIDE DEF n
  <2> QED
    BY <1>1, <2>1, <2>2, FS_Interval
<1>4. \E i \in 1..n + 1 : i \notin ids
  <2> SUFFICES ASSUME 1..n + 1 \subseteq ids PROVE FALSE
    OBVIOUS
  <2> HIDE DEF n, ids
  <2>1. Cardinality(1..n + 1) <= Cardinality(ids)
    BY <1>2, FS_Subset
  <2>2. Cardinality(ids) \in Nat
    BY <1>2, FS_CardinalityType
  <2> QED
    BY <1>1, <1>2, <1>3, <2>1, <2>2
<1>5. \E i \in 1..n + 1 : \A k \in c.calls : k.id # i
  BY <1>4
<1> QED
  BY <1>5 DEF NewId

\* A call that is outdated fades.
LEMMA OutdatedFades ==
  ASSUME NEW c, Typed(c), NEW of
  PROVE  LET d == Outdated(c, of)
         IN  /\ Fades(c, d) /\ d.out = c.out /\ d.status = c.status /\ d.sub = c.sub
             /\ \A j \in d.calls : j.of = of => ~j.current
<1> DEFINE new == {[k EXCEPT !.current = @ /\ k.of # of] : k \in c.calls}
           d == [c EXCEPT !.calls = new]
           g(k) == [k EXCEPT !.current = k.current /\ k.of # of]
<1>1. ASSUME NEW k \in c.calls
      PROVE  /\ g(k).id = k.id /\ g(k).of = k.of /\ (g(k).current => k.current)
             /\ (k.of = of => ~g(k).current) /\ g(k) \in new
  <2>1. k \in Asked
    BY DEF Typed, Client
  <2>2. g(k).id = k.id /\ g(k).of = k.of /\ g(k).current = (k.current /\ k.of # of)
    BY <2>1 DEF Asked
  <2> QED
    BY <2>2
<1>2. \A j \in new : \E k \in c.calls : j = g(k)
  OBVIOUS
<1>3. d.calls = new /\ d.out = c.out /\ d.status = c.status /\ d.sub = c.sub
  BY DEF Typed, Client
<1>4. Outdated(c, of) = d
  BY DEF Outdated
<1> HIDE DEF new, d, g
<1>5. \A k \in c.calls : \E j \in d.calls : j.id = k.id /\ j.of = k.of
  BY <1>1, <1>3
<1>6. \A j \in d.calls : \E k \in c.calls : j.id = k.id /\ j.of = k.of /\ (j.current => k.current)
  BY <1>1, <1>2, <1>3
<1>7. (\A i, j \in c.calls : i.id = j.id => i = j) => \A i, j \in d.calls : i.id = j.id => i = j
  BY <1>1, <1>2, <1>3
<1>8. \A j \in d.calls : j.of = of => ~j.current
  BY <1>1, <1>2, <1>3
<1>9. Fades(c, d)
  BY <1>3, <1>5, <1>6, <1>7 DEF Fades
<1> QED
  BY <1>3, <1>4, <1>8, <1>9

\* Giving the recovery up, and beginning a connect generation, only outdates.
LEMMA DiscardTies ==
  ASSUME NEW c, Typed(c)
  PROVE  LET d == DiscardRecovery(c)
         IN  Ties(c, d) /\ d.status = c.status /\ d.sub = c.sub /\ d.out = c.out
<1> DEFINE b == Outdated(c, "resync")
           d == DiscardRecovery(c)
<1>1. Fades(c, b) /\ b.out = c.out /\ b.status = c.status /\ b.sub = c.sub /\ Typed(b)
  BY OutdatedFades, OutdatedCalm DEF Calms
<1>2. d = [b EXCEPT !.recovery = NoRecovery]
  BY DEF DiscardRecovery
<1>3. Typed(d)
  BY DiscardCalm DEF Calms
<1> HIDE DEF b, d
<1>4. d.calls = b.calls /\ d.out = b.out /\ d.status = b.status /\ d.sub = b.sub
  BY <1>1, <1>2 DEF Typed, Client
<1>5. Ties(c, b) /\ Ties(b, d)
  BY <1>1, <1>3, <1>4, FadesTies, RestTies
<1> QED
  BY <1>1, <1>4, <1>5, TiesAgain DEF d

\* Of the connects none counts any more.
LEMMA GenerationTies ==
  ASSUME NEW c, Typed(c)
  PROVE  LET d == NewGeneration(c)
         IN  Ties(c, d) /\ d.status = c.status /\ d.sub = c.sub /\ d.out = c.out /\ Counting(d) = {}
<1> DEFINE b == Outdated(c, "subscribe")
           d == NewGeneration(c)
<1>1. /\ Fades(c, b) /\ b.out = c.out /\ b.status = c.status /\ b.sub = c.sub /\ Typed(b)
      /\ \A j \in b.calls : j.of = "subscribe" => ~j.current
  BY OutdatedFades, OutdatedCalm DEF Calms
<1>2. d = [b EXCEPT !.retry = IF @ = "armed" THEN "stale" ELSE @]
  BY DEF NewGeneration
<1>3. Typed(d)
  BY GenerationCalm DEF Calms
<1> HIDE DEF b, d
<1>4. d.calls = b.calls /\ d.out = b.out /\ d.status = b.status /\ d.sub = b.sub
  BY <1>1, <1>2 DEF Typed, Client
<1>5. Ties(c, b) /\ Ties(b, d)
  BY <1>1, <1>3, <1>4, FadesTies, RestTies
<1>6. Counting(d) = {}
  BY <1>1, <1>4 DEF Counting, Counts
<1> QED
  BY <1>1, <1>4, <1>5, <1>6, TiesAgain DEF d

\* Then no connect counts.
LEMMA AllOutdatedTies ==
  ASSUME NEW c, Typed(c)
  PROVE  LET d == NewGeneration(DiscardRecovery(c))
         IN  /\ Ties(c, d) /\ d.status = c.status /\ d.sub = c.sub /\ d.out = c.out
             /\ Counting(d) = {} /\ d.recovery = NoRecovery /\ d.view = c.view
<1> DEFINE b == DiscardRecovery(c)
           d == NewGeneration(b)
<1>1. Ties(c, b) /\ b.status = c.status /\ b.sub = c.sub /\ b.out = c.out
  BY DiscardTies
<1>2. Calms(c, d) /\ d.recovery = NoRecovery
  BY OutdatedAll
<1> HIDE DEF b
<1>3. Ties(b, d) /\ d.status = b.status /\ d.sub = b.sub /\ d.out = b.out /\ Counting(d) = {}
  BY <1>1, GenerationTies DEF Ties
<1> HIDE DEF d
<1> QED
  BY <1>1, <1>2, <1>3, TiesAgain DEF b, d, Calms, Calm

\* A request with a new call; a connect when none counts, of a page that is neither live nor
\* closed.
LEMMA SentTies ==
  ASSUME NEW c, Typed(c), NEW call \in Asked, call.id = NewId(c),
         NEW r \in Request, r.type = call.of, r.id = call.id, Typed(Sent(c, call, r)),
         call.of = "subscribe" => c.status \notin {"live", "closed"} /\ Counting(c) = {}
  PROVE  Ties(c, Sent(c, call, r))
<1>1. \A k \in c.calls : k.id # call.id
  BY NewIdFresh
<1> QED
  BY <1>1, SentLinked DEF Ties, Links

\* The calls that are outdated are those there are.
LEMMA OutdatedAlike ==
  ASSUME NEW b, NEW c, Typed(b), Typed(c), b.calls = c.calls
  PROVE  NewGeneration(DiscardRecovery(b)).calls = NewGeneration(DiscardRecovery(c)).calls
<1> DEFINE Old(x, of) == {[k EXCEPT !.current = @ /\ k.of # of] : k \in x}
<1>1. ASSUME NEW d, Typed(d)
      PROVE  NewGeneration(DiscardRecovery(d)).calls = Old(Old(d.calls, "resync"), "subscribe")
  <2> DEFINE e == DiscardRecovery(d)
  <2>1. e.calls = Old(d.calls, "resync") /\ Typed(e)
    <3>1. e.calls = Old(d.calls, "resync")
      BY <1>1 DEF DiscardRecovery, Outdated, Typed, Client
    <3>2. Typed(e)
      BY <1>1, DiscardCalm DEF Calms
    <3> QED
      BY <3>1, <3>2
  <2> HIDE DEF e
  <2>2. NewGeneration(e).calls = Old(e.calls, "subscribe")
    BY <2>1 DEF NewGeneration, Outdated, Typed, Client
  <2> QED
    BY <2>1, <2>2 DEF e
<1> HIDE DEF Old
<1> QED
  BY <1>1

\* A connect of a page that is not closed, whatever it served.
LEMMA ConnectFromTies ==
  ASSUME NEW b, NEW c, Typed(b), Typed(c), b.calls = c.calls, b.out = c.out,
         NEW force \in BOOLEAN, ~Closed(b)
  PROVE  Ties(c, Connect(b, force))
<1> DEFINE c1 == NewGeneration(DiscardRecovery(c))
           b1 == NewGeneration(DiscardRecovery(b))
           base == IF force THEN NoBase ELSE BaseOf(b.view)
           call == Call(b1, "subscribe", base)
           b2 == [b1 EXCEPT !.status = "connecting"]
           request == [type |-> "subscribe", id |-> call.id, base |-> call.base]
<1>1. Ties(c, c1) /\ Counting(c1) = {} /\ c1.out = c.out
  BY AllOutdatedTies
<1>2. Typed(b1) /\ b1.calls = c1.calls /\ b1.out = c1.out
  BY <1>1, AllOutdatedTies, OutdatedAlike DEF Ties
<1>3. base \in Base
  BY BasesTyped
<1> HIDE DEF c1, b1, base
<1>4. /\ call \in Asked /\ call.id \in Nat /\ call.base = base
      /\ call.of = "subscribe" /\ call.id = NewId(b1)
  BY <1>2, <1>3, CallTyped DEF Call
<1> HIDE DEF call
<1>5. request \in Request /\ request.type = "subscribe" /\ request.id = call.id
  BY <1>3, <1>4 DEF Request
<1>6. Typed(b2) /\ b2.calls = b1.calls /\ b2.out = b1.out /\ b2.status = "connecting"
  BY <1>2 DEF Typed, Client, Status
<1>7. Connect(b, force) = Sent(b2, call, request)
  BY DEF Connect, b1, b2, call, request, base
<1>8. Typed(Connect(b, force))
  BY ConnectCalm DEF Calms
<1> HIDE DEF b2, request
<1>9. Ties(c1, b2) /\ Counting(b2) = {} /\ NewId(b2) = NewId(b1)
  BY <1>1, <1>2, <1>6, RestTies DEF Counting, NewId
<1>10. Ties(b2, Sent(b2, call, request))
  BY <1>4, <1>5, <1>6, <1>7, <1>8, <1>9, SentTies
<1> QED
  BY <1>1, <1>7, <1>9, <1>10, TiesAgain

\* connect is tied to what it began with.
LEMMA ConnectTies ==
  ASSUME NEW c, Typed(c), NEW force \in BOOLEAN
  PROVE  Ties(c, Connect(c, force))
<1>1. CASE Closed(c)
  BY <1>1, TiesSelf DEF Connect
<1>2. CASE ~Closed(c)
  BY <1>2, ConnectFromTies
<1> QED
  BY <1>1, <1>2

\* A page that waits for its timer, or shows an error, is not live.
LEMMA ReconnectTies ==
  ASSUME NEW c, Typed(c)
  PROVE  Ties(c, Reconnect(c)) /\ Reconnect(c).status \in {"connecting", "error"}
<1> DEFINE d == Reconnect(c)
<1>1. Typed(d)
  BY ReconnectCalm DEF Calms
<1>2. d.calls = c.calls /\ d.out = c.out /\ d.status \in {"connecting", "error"}
  BY DEF Reconnect, Typed, Client
<1> HIDE DEF d
<1>3. Ties(c, d)
  BY <1>1, <1>2, RestTies
<1> QED
  BY <1>2, <1>3 DEF d

\* issueRecoveryAttempt, requestRecovery, settleRecovery, and a recovery that failed.
LEMMA FailRecoveryTies ==
  ASSUME NEW c, Typed(c)
  PROVE  Ties(c, FailRecovery(c))
<1> DEFINE d == DiscardRecovery(c)
           e == [d EXCEPT !.status = "error"]
<1>1. Ties(c, d) /\ Typed(d)
  BY DiscardTies DEF Ties
<1> HIDE DEF d
<1>2. Typed(e) /\ e.calls = d.calls /\ e.out = d.out /\ e.status = "error"
  BY <1>1 DEF Typed, Client, Status
<1> HIDE DEF e
<1>3. Ties(c, e)
  BY <1>1, <1>2, RestTies, TiesAgain
<1> QED
  BY <1>3 DEF FailRecovery, d, e

\* Likewise.
LEMMA IssueTies ==
  ASSUME NEW c, Typed(c), NEW force \in BOOLEAN, c.sub # None
  PROVE  Ties(c, Issue(c, force))
<1>1. CASE c.sub # c.active
  <2> DEFINE d == DiscardRecovery(c)
  <2>1. Ties(c, d)
    BY DiscardTies
  <2> HIDE DEF d
  <2>2. Ties(d, Connect(d, FALSE))
    BY <2>1, ConnectTies DEF Ties
  <2>3. Ties(c, Connect(d, FALSE))
    BY <2>1, <2>2, TiesAgain
  <2> QED
    BY <1>1, <2>3 DEF Issue, d
<1>2. CASE c.sub = c.active
  <2> DEFINE whole == force \/ ~c.based
             base == IF c.based THEN BaseOf(c.view) ELSE NoBase
             call == Call(c, "resync", base)
             request == [type |-> "resync", id |-> call.id, sub |-> c.sub, base |-> call.base,
                         force |-> whole]
             d == Sent(c, call, request)
             waiting == [ack |-> "waiting", force |-> whole, seen |-> FALSE,
                         upgrade |-> FALSE, gap |-> FALSE, deadline |-> FALSE]
             e == [d EXCEPT !.heal = TRUE, !.recovery = waiting]
  <2>1. base \in Base /\ base.epoch <= c.view.epoch
    BY BasesTyped
  <2>2. whole \in BOOLEAN /\ c.sub \in Nat \ {0}
    BY DEF Typed, Client, None
  <2> HIDE DEF base, whole
  <2>3. /\ call \in Asked /\ call.id \in Nat /\ call.base = base /\ call.frames = <<>>
        /\ call.of = "resync" /\ call.id = NewId(c)
    BY <2>1, CallTyped DEF Call
  <2> HIDE DEF call
  <2>4. request \in Request /\ request.type = "resync" /\ request.id = call.id
    BY <2>1, <2>2, <2>3 DEF Request
  <2> HIDE DEF request, waiting
  <2>5. Typed(d)
    BY <2>1, <2>3, <2>4, SentCalm DEF Calms
  <2>6. Ties(c, d)
    BY <2>3, <2>4, <2>5, SentTies
  <2> HIDE DEF d
  <2>7. e.calls = d.calls /\ e.out = d.out /\ e.status = d.status /\ e.sub = d.sub
    BY <2>5 DEF Typed, Client
  <2>8. Issue(c, force) = e
    BY <1>2 DEF Issue, e, d, request, call, base, waiting, whole
  <2>9. Typed(e)
    BY <2>8, IssueCalm DEF Calms
  <2> HIDE DEF e
  <2>10. Ties(c, e)
    BY <2>6, <2>7, <2>9, RestTies, TiesAgain
  <2> QED
    BY <2>8, <2>10
<1> QED
  BY <1>1, <1>2

\* Likewise.
LEMMA RequestRecoveryTies ==
  ASSUME NEW c, Typed(c), NEW event \in BOOLEAN
  PROVE  Ties(c, RequestRecovery(c, event))
<1>1. CASE c.sub = None
  BY <1>1, ConnectTies DEF RequestRecovery
<1>2. CASE c.sub # None /\ c.recovery # NoRecovery
  <2> DEFINE d == [c EXCEPT !.recovery.upgrade = TRUE]
  <2>1. d.recovery = [c.recovery EXCEPT !.upgrade = TRUE] /\ d.recovery \in Recovery
    BY <1>2 DEF Typed, Client, Recovery
  <2>2. Typed(d) /\ d.calls = c.calls /\ d.out = c.out /\ d.status = c.status /\ d.sub = c.sub
    BY <1>2, <2>1 DEF Typed, Client
  <2>3. Ties(c, d)
    BY <2>2, RestTies
  <2>4. Ties(c, c) /\ Ties(c, FailRecovery(c)) /\ Ties(c, Issue(c, TRUE))
    BY <1>2, TiesSelf, FailRecoveryTies, IssueTies
  <2> HIDE DEF d
  <2>5. RequestRecovery(c, event) \in {c, d, FailRecovery(c), Issue(c, TRUE)}
    BY <1>2 DEF RequestRecovery, d
  <2> QED
    BY <2>3, <2>4, <2>5
<1>3. CASE c.sub # None /\ c.recovery = NoRecovery
  BY <1>3, IssueTies DEF RequestRecovery
<1> QED
  BY <1>1, <1>2, <1>3

\* Likewise.
LEMMA SettleTies ==
  ASSUME NEW c, Typed(c)
  PROVE  Ties(c, Settle(c))
<1>1. CASE c.recovery = NoRecovery
  BY <1>1, TiesSelf DEF Settle
<1>2. CASE c.recovery # NoRecovery
  <2> DEFINE d == [c EXCEPT !.recovery.deadline = TRUE]
  <2>1. d.recovery = [c.recovery EXCEPT !.deadline = TRUE] /\ d.recovery \in Recovery
    BY <1>2 DEF Typed, Client, Recovery
  <2>2. Typed(d) /\ d.calls = c.calls /\ d.out = c.out /\ d.status = c.status /\ d.sub = c.sub
    BY <1>2, <2>1 DEF Typed, Client
  <2>3. Ties(c, d)
    BY <2>2, RestTies
  <2>4. /\ Ties(c, c) /\ Ties(c, FailRecovery(c)) /\ Ties(c, DiscardRecovery(c))
        /\ Ties(c, Issue(c, TRUE)) /\ Ties(c, Issue(c, FALSE))
    BY <1>2, TiesSelf, FailRecoveryTies, DiscardTies, IssueTies DEF Typed
  <2> HIDE DEF d
  <2>5. Settle(c) \in {c, d, FailRecovery(c), DiscardRecovery(c), Issue(c, TRUE), Issue(c, FALSE)}
    BY <1>2 DEF Settle, d
  <2> QED
    BY <2>3, <2>4, <2>5
<1> QED
  BY <1>1, <1>2

\* Likewise.
LEMMA MarkSeenTies ==
  ASSUME NEW c, Typed(c)
  PROVE  Ties(c, MarkSeen(c))
<1>1. CASE c.recovery = NoRecovery
  BY <1>1, TiesSelf DEF MarkSeen
<1>2. CASE c.recovery # NoRecovery
  <2> DEFINE d == [c EXCEPT !.recovery.seen = TRUE]
  <2>1. d.recovery = [c.recovery EXCEPT !.seen = TRUE] /\ d.recovery \in Recovery
    BY <1>2 DEF Typed, Client, Recovery
  <2>2. Typed(d) /\ d.calls = c.calls /\ d.out = c.out /\ d.status = c.status /\ d.sub = c.sub
    BY <1>2, <2>1 DEF Typed, Client
  <2>3. Ties(c, d)
    BY <2>2, RestTies
  <2> HIDE DEF d
  <2>4. Ties(d, Settle(d))
    BY <2>2, SettleTies
  <2>5. Ties(c, Settle(d))
    BY <2>3, <2>4, TiesAgain
  <2> QED
    BY <1>2, <2>5 DEF MarkSeen, d
<1> QED
  BY <1>1, <1>2

\* The calls of c, and what it sends; it serves what c does.
Same(c, d) == d.calls = c.calls /\ d.out = c.out /\ d.status = c.status /\ d.sub = c.sub

\* A store with the same calls and the same status is tied.
LEMMA SameTies == ASSUME NEW c, NEW d, Typed(d), Same(c, d) PROVE Ties(c, d)
BY RestTies DEF Same

\* What the store shows does not matter.
LEMMA ShowsTies ==
  ASSUME NEW c, Typed(c), NEW epoch0 \in Nat, NEW seq0 \in Nat, NEW rows0 \in Seq(Event)
  PROVE  Ties(c, [c EXCEPT !.view = [epoch |-> epoch0, seq |-> seq0, rows |-> rows0], !.based = TRUE])
<1> DEFINE v == [epoch |-> epoch0, seq |-> seq0, rows |-> rows0]
           d == [c EXCEPT !.view = v, !.based = TRUE]
<1>1. v \in View
  BY DEF View
<1> HIDE DEF v
<1>2. Typed(d) /\ Same(c, d)
  BY <1>1 DEF Typed, Client, Same
<1> HIDE DEF d
<1>3. Ties(c, d)
  BY <1>2, SameTies
<1> QED
  BY <1>3 DEF d, v

\* The steps of handling a frame, from the barrier to the rows.
LEMMA ApplyTies ==
  ASSUME NEW c, Typed(c), NEW f \in TopicFrame, NEW initial \in BOOLEAN
  PROVE  Ties(c, Apply(c, f, initial))
<1> DEFINE recovery == f.kind = "recovery"
           Seen(d) == IF recovery THEN MarkSeen(d) ELSE d
           shows(ep, rows) ==
             [c EXCEPT !.view = [epoch |-> ep, seq |-> f.to, rows |-> rows], !.based = TRUE]
           first == shows(f.epoch, f.rows)
           next == shows(c.view.epoch, c.view.rows \o f.rows)
<1>1. /\ f.epoch \in Nat /\ f.to \in Nat /\ f.rows \in Seq(Event) /\ recovery \in BOOLEAN
  BY DEF TopicFrame
<1>2. ASSUME NEW d, Ties(c, d) PROVE Ties(c, Seen(d))
  <2>1. Ties(d, Seen(d))
    BY <1>2, MarkSeenTies, TiesSelf DEF Ties
  <2> HIDE DEF Seen
  <2> QED
    BY <1>2, <2>1, TiesAgain
<1>3. Ties(c, first)
  BY <1>1, ShowsTies
<1>4. Ties(c, next)
  <2>1. c.view.epoch \in Nat /\ c.view.rows \o f.rows \in Seq(Event)
    BY <1>1, ViewTyped, ConcatProperties
  <2> QED
    BY <1>1, <2>1, ShowsTies
<1>5. Ties(c, c) /\ Ties(c, Connect(c, TRUE)) /\ Ties(c, RequestRecovery(c, recovery))
  BY <1>1, TiesSelf, ConnectTies, RequestRecoveryTies
<1>6. Apply(c, f, initial) \in
        {Seen(first), Seen(next), Seen(c), Connect(c, TRUE), RequestRecovery(c, recovery)}
  BY DEF Apply
<1> HIDE DEF Seen, first, next
<1> QED
  BY <1>2, <1>3, <1>4, <1>5, <1>6

\* Likewise.
LEMMA AwaitedTies ==
  ASSUME NEW c, Typed(c), NEW f
  PROVE  Ties(c, IF f.kind # "online" /\ c.awaiting.sub = f.sub THEN [c EXCEPT !.awaiting = NoAwait] ELSE c)
<1> DEFINE d == [c EXCEPT !.awaiting = NoAwait]
<1>1. Typed(d)
  BY AwaitedCalm DEF Calms
<1>2. Same(c, d)
  BY DEF Typed, Client, Same
<1>3. Ties(c, d) /\ Ties(c, c)
  BY <1>1, <1>2, SameTies, TiesSelf
<1> QED
  BY <1>3

\* Likewise.
LEMMA GapTies ==
  ASSUME NEW c, Typed(c), c.recovery # NoRecovery
  PROVE  Ties(c, [c EXCEPT !.recovery.gap = @ \/ c.recovery.seen])
<1> DEFINE d == [c EXCEPT !.recovery.gap = @ \/ c.recovery.seen]
<1>1. Typed(d)
  BY GapCalm DEF Calms
<1>2. Same(c, d)
  BY DEF Typed, Client, Same
<1> HIDE DEF d
<1>3. Ties(c, d)
  BY <1>1, <1>2, SameTies
<1> QED
  BY <1>3 DEF d

\* Likewise.
LEMMA FaultHandledTies ==
  ASSUME NEW c, Typed(c), NEW f \in TopicFrame
  PROVE  Ties(c, AssemblyFault(c, f))
<1> DEFINE d == IF f.kind # "online" /\ c.awaiting.sub = f.sub THEN [c EXCEPT !.awaiting = NoAwait] ELSE c
           event == f.kind = "recovery"
           gap == [c EXCEPT !.recovery.gap = @ \/ c.recovery.seen]
<1>1. Ties(c, d)
  BY AwaitedTies
<1>2. event \in BOOLEAN
  OBVIOUS
<1>3. c.recovery # NoRecovery => Ties(c, gap)
  BY GapTies
<1>4. AssemblyFault(c, f) =
        IF Closed(c) \/ f.sub # c.sub THEN c
        ELSE IF f.kind = "online" /\ c.recovery # NoRecovery THEN gap
        ELSE RequestRecovery(d, event)
  BY DEF AssemblyFault, d, event, gap
<1> HIDE DEF d, event, gap
<1>5. Ties(d, RequestRecovery(d, event))
  BY <1>1, <1>2, RequestRecoveryTies DEF Ties
<1>6. Ties(c, RequestRecovery(d, event)) /\ Ties(c, c)
  BY <1>1, <1>5, TiesAgain, TiesSelf
<1> QED
  BY <1>3, <1>4, <1>6

\* Likewise.
LEMMA FaultTies ==
  ASSUME NEW c, Typed(c), NEW f \in TopicFrame
  PROVE  Ties(c, Fault(c, f))
<1> DEFINE d == [c EXCEPT !.decoder.faulted = TRUE]
<1>1. d.decoder = [c.decoder EXCEPT !.faulted = TRUE] /\ d.decoder \in Decoder
  BY DEF Typed, Client, Decoder
<1>2. Typed(d) /\ Same(c, d)
  BY <1>1 DEF Typed, Client, Decoder, Same
<1> HIDE DEF d
<1>3. Ties(c, d) /\ Ties(d, AssemblyFault(d, f))
  BY <1>2, SameTies, FaultHandledTies
<1>4. Ties(c, AssemblyFault(d, f))
  BY <1>3, TiesAgain
<1> QED
  BY <1>4 DEF Fault, d

\* Likewise.
LEMMA HandleFrameTies ==
  ASSUME NEW c, Typed(c), NEW f \in TopicFrame
  PROVE  Ties(c, HandleFrame(c, f))
<1> DEFINE initial == f.kind = "initial" /\ c.awaiting.sub = f.sub
           d == IF f.kind # "online" /\ c.awaiting.sub = f.sub THEN [c EXCEPT !.awaiting = NoAwait] ELSE c
           event == f.kind = "recovery"
           gap == [c EXCEPT !.recovery.gap = @ \/ c.recovery.seen]
<1>1. Ties(c, d)
  BY AwaitedTies
<1>2. event \in BOOLEAN /\ initial \in BOOLEAN
  OBVIOUS
<1>3. c.recovery # NoRecovery => Ties(c, gap)
  BY GapTies
<1>4. HandleFrame(c, f) =
        IF Closed(c) \/ f.sub # c.sub THEN c
        ELSE IF f.kind = "online" /\ c.recovery # NoRecovery /\ ~f.snap
             THEN IF f.to > c.view.seq THEN gap ELSE c
        ELSE IF ~f.snap /\ ~c.based THEN RequestRecovery(d, event)
        ELSE Apply(d, f, initial)
  BY DEF HandleFrame, d, event, initial, gap
<1> HIDE DEF d, event, initial, gap
<1>5. Ties(d, RequestRecovery(d, event)) /\ Ties(d, Apply(d, f, initial))
  BY <1>1, <1>2, RequestRecoveryTies, ApplyTies DEF Ties
<1>6. Ties(c, RequestRecovery(d, event)) /\ Ties(c, Apply(d, f, initial)) /\ Ties(c, c)
  BY <1>1, <1>5, TiesAgain, TiesSelf
<1> QED
  BY <1>3, <1>4, <1>6

\* Likewise.
LEMMA SettleOrdTies ==
  ASSUME NEW c, Typed(c), NEW f \in TopicFrame
  PROVE  LET d == SettleOrd(c, f)
         IN  /\ Ties(c, d) /\ d.decoder.settled = IF f.ord > c.decoder.settled THEN f.ord ELSE c.decoder.settled
<1> DEFINE d == SettleOrd(c, f)
<1>1. /\ d.decoder = [c.decoder EXCEPT !.settled = IF f.ord > @ THEN f.ord ELSE @, !.partial = NoPartial]
      /\ d \in Client /\ Same(c, d) /\ d.recovery = c.recovery
  BY DEF SettleOrd, Typed, Client, Decoder, TopicFrame, Same
<1>2. /\ d.decoder.settled = (IF f.ord > c.decoder.settled THEN f.ord ELSE c.decoder.settled)
      /\ d.decoder.partial = NoPartial
  BY <1>1 DEF Typed, Client, Decoder
<1> HIDE DEF d
<1>3. Typed(d)
  BY <1>1, <1>2 DEF Typed, Same
<1>4. Ties(c, d)
  BY <1>1, <1>3, SameTies
<1> QED
  BY <1>2, <1>4 DEF d

\* Likewise.
LEMMA PartialTies ==
  ASSUME NEW c, Typed(c), NEW f \in TopicFrame, f.ord > c.decoder.settled
  PROVE  Ties(c, [c EXCEPT !.decoder.partial = f])
<1> DEFINE d == [c EXCEPT !.decoder.partial = f]
<1>1. /\ d.decoder = [c.decoder EXCEPT !.partial = f] /\ d \in Client
      /\ Same(c, d) /\ d.recovery = c.recovery
  BY DEF Typed, Client, Decoder, Same
<1>2. d.decoder.settled = c.decoder.settled /\ d.decoder.partial = f
  BY <1>1 DEF Typed, Client, Decoder
<1> HIDE DEF d
<1>3. Typed(d)
  BY <1>1, <1>2 DEF Typed, Same
<1>4. Ties(c, d)
  BY <1>1, <1>3, SameTies
<1> QED
  BY <1>4 DEF d

\* Likewise.
LEMMA AssembleTies ==
  ASSUME NEW c, Typed(c), NEW f \in TopicFrame
  PROVE  Ties(c, Assemble(c, f))
<1> DEFINE partial == c.decoder.partial
           superseded == partial # NoPartial /\ f.ord > partial.ord
           c1 == IF superseded THEN SettleOrd(c, partial) ELSE c
           c2 == IF superseded /\ f.kind # "recovery" THEN Fault(c1, partial) ELSE c1
           d == SettleOrd(c2, f)
           e == [c2 EXCEPT !.decoder.partial = f]
<1>1. /\ f.ord \in Nat /\ c.decoder.settled \in Nat
      /\ partial # NoPartial => partial \in TopicFrame /\ partial.ord \in Nat
  BY DEF TopicFrame, Typed, Client, Decoder
<1>2. CASE f.ord <= c.decoder.settled \/ (partial # NoPartial /\ f.ord < partial.ord)
  BY <1>2, TiesSelf DEF Assemble
<1>3. CASE ~(f.ord <= c.decoder.settled \/ (partial # NoPartial /\ f.ord < partial.ord))
  <2>1. Assemble(c, f) \in {Fault(d, f), d, e, HandleFrame(d, f)}
    BY <1>3 DEF Assemble, d, e, c2, c1
  <2>2. Ties(c, c1) /\ c1.decoder.settled < f.ord
    <3>1. CASE superseded
      <4>1. /\ Ties(c, c1)
            /\ c1.decoder.settled = IF partial.ord > c.decoder.settled THEN partial.ord ELSE c.decoder.settled
        BY <1>1, <3>1, SettleOrdTies
      <4> HIDE DEF c1
      <4> QED
        BY <1>1, <1>3, <3>1, <4>1
    <3>2. CASE ~superseded
      BY <1>1, <1>3, <3>2, TiesSelf
    <3> QED
      BY <3>1, <3>2
  <2> HIDE DEF c1
  <2>3. Ties(c1, c2) /\ c2.decoder.settled = c1.decoder.settled
    <3>1. Typed(c1)
      BY <2>2 DEF Ties
    <3>2. CASE superseded /\ f.kind # "recovery"
      BY <1>1, <3>1, <3>2, FaultTies, FaultCalm DEF Calms, Calm
    <3> QED
      BY <3>1, <3>2, TiesSelf
  <2> HIDE DEF c2
  <2>4. Ties(c, c2) /\ Typed(c2) /\ f.ord > c2.decoder.settled
    <3>1. Ties(c, c2) /\ Typed(c2)
      BY <2>2, <2>3, TiesAgain DEF Ties
    <3> QED
      BY <1>1, <2>2, <2>3, <3>1, ViewTyped
  <2>5. Ties(c2, d) /\ Ties(c2, e)
    BY <2>4, SettleOrdTies, PartialTies
  <2> HIDE DEF d, e
  <2>6. Ties(d, Fault(d, f)) /\ Ties(d, HandleFrame(d, f)) /\ Ties(c, d) /\ Ties(c, e)
    BY <2>4, <2>5, FaultTies, HandleFrameTies, TiesAgain DEF Ties
  <2>7. Ties(c, Fault(d, f)) /\ Ties(c, HandleFrame(d, f))
    BY <2>6, TiesAgain
  <2> QED
    BY <2>1, <2>6, <2>7
<1> QED
  BY <1>2, <1>3

\* Likewise.
LEMMA DecodeTies ==
  ASSUME NEW c, Typed(c), NEW f \in TopicFrame
  PROVE  Ties(c, Decode(c, f))
<1> DEFINE d == [c EXCEPT !.decoder.faulted = FALSE]
<1>1. d.decoder = [c.decoder EXCEPT !.faulted = FALSE] /\ d.decoder \in Decoder
  BY DEF Typed, Client, Decoder
<1>2. Typed(d) /\ Same(c, d)
  BY <1>1 DEF Typed, Client, Decoder, Same
<1>3. Decode(c, f) \in {c, Assemble(d, f)}
  BY DEF Decode, d
<1> HIDE DEF d
<1>4. Ties(c, d) /\ Ties(d, Assemble(d, f)) /\ Ties(c, c)
  BY <1>2, SameTies, AssembleTies, TiesSelf
<1>5. Ties(c, Assemble(d, f))
  BY <1>4, TiesAgain
<1> QED
  BY <1>3, <1>4, <1>5

\* The frames that the barrier releases.
LEMMA ReleasedTies ==
  ASSUME NEW c, Typed(c), NEW frames \in Seq(TopicFrame)
  PROVE  Ties(c, Released(c, frames))
<1> DEFINE N == Len(frames)
<1>1. N \in Nat /\ \A i \in 1..N : frames[i] \in TopicFrame
  OBVIOUS
<1>2. PICK after :
        /\ after = [i \in 0..Len(frames) |-> IF i = 0 THEN c ELSE Decode(after[i - 1], frames[i])]
        /\ Released(c, frames) = after[Len(frames)]
  BY ReleasedDefined
<1>3. /\ after[0] = c
      /\ \A i \in 1..N : after[i] = Decode(after[i - 1], frames[i])
  <2>1. 0 \in 0..N /\ \A i \in 1..N : i \in 0..N /\ i # 0
    BY <1>1
  <2> HIDE DEF N
  <2> QED
    BY <1>2, <2>1 DEF N
<1> DEFINE D == {n \in 0..N : Ties(c, after[n])}
<1> HIDE DEF N
<1>4. 0 \in D
  BY <1>1, <1>3, TiesSelf
<1>5. ASSUME NEW m \in 0..(N - 1), m \in D PROVE m + 1 \in D
  <2>1. m + 1 \in 1..N /\ m + 1 \in 0..N /\ (m + 1) - 1 = m
    BY <1>1
  <2>2. after[m + 1] = Decode(after[m], frames[m + 1])
    BY <1>3, <2>1
  <2> DEFINE d == after[m]
             f == frames[m + 1]
  <2>3. Ties(c, d) /\ f \in TopicFrame
    BY <1>1, <1>5, <2>1
  <2> HIDE DEF d, f
  <2>4. Ties(d, Decode(d, f))
    BY <2>3, DecodeTies DEF Ties
  <2>5. Ties(c, Decode(d, f))
    BY <2>3, <2>4, TiesAgain
  <2> QED
    BY <2>1, <2>2, <2>5 DEF d, f
<1>6. N \in D
  <2> HIDE DEF D
  <2>1. 0..N \subseteq D
    BY <1>1, <1>4, <1>5, UpTo
  <2> QED
    BY <1>1, <2>1
<1> QED
  BY <1>2, <1>6 DEF N

\* Calls, each changed but for what it asks.
LEMMA ChangedFades ==
  ASSUME NEW c, NEW d, NEW h, d.calls = {h[k] : k \in c.calls},
         \A k \in c.calls : h[k].id = k.id /\ h[k].of = k.of /\ h[k].current = k.current,
         d.status = c.status, d.sub = c.sub
  PROVE  Fades(c, d)
<1>1. \A k \in c.calls : \E j \in d.calls : j.id = k.id /\ j.of = k.of
  OBVIOUS
<1>2. \A j \in d.calls : \E k \in c.calls : j.id = k.id /\ j.of = k.of /\ (j.current => k.current)
  OBVIOUS
<1>3. (\A i, j \in c.calls : i.id = j.id => i = j) => \A i, j \in d.calls : i.id = j.id => i = j
  OBVIOUS
<1> QED
  BY <1>1, <1>2, <1>3 DEF Fades

\* A call whose frames change asks what it asked.
LEMMA AskedChanged ==
  ASSUME NEW k \in Asked, NEW fs
  PROVE  /\ [k EXCEPT !.frames = fs].id = k.id
         /\ [k EXCEPT !.frames = fs].of = k.of
         /\ [k EXCEPT !.frames = fs].current = k.current
  BY DEF Asked

\* A frame that waits or is decoded, a restart, a call that failed or was resynced.
LEMMA AcceptTies ==
  ASSUME NEW c, Typed(c), NEW f \in TopicFrame, Typed(Accept(c, f))
  PROVE  Ties(c, Accept(c, f))
<1>1. CASE f.sub = c.active
  BY <1>1, DecodeTies DEF Accept
<1>2. CASE f.sub # c.active
  <2> DEFINE h == [k \in c.calls |->
                     [k EXCEPT !.frames = IF k.of = "subscribe" /\ k.valid THEN Append(@, f) ELSE @]]
             new == {[k EXCEPT !.frames = IF k.of = "subscribe" /\ k.valid THEN Append(@, f) ELSE @]
                       : k \in c.calls}
             d == [c EXCEPT !.calls = new]
  <2>1. d.calls = {h[k] : k \in c.calls} /\ d.out = c.out /\ d.status = c.status /\ d.sub = c.sub
    <3>1. new = {h[k] : k \in c.calls}
      OBVIOUS
    <3> HIDE DEF new, h
    <3>2. d.calls = new /\ d.out = c.out /\ d.status = c.status /\ d.sub = c.sub
      BY DEF Typed, Client
    <3> QED
      BY <3>1, <3>2
  <2>2. \A k \in c.calls : h[k].id = k.id /\ h[k].of = k.of /\ h[k].current = k.current
    <3> TAKE k \in c.calls
    <3>1. k \in Asked
      BY DEF Typed, Client
    <3> QED
      BY <3>1, AskedChanged
  <2>3. Accept(c, f) = d
    BY <1>2 DEF Accept
  <2> HIDE DEF d, h
  <2>4. Fades(c, d)
    BY <2>1, <2>2, ChangedFades
  <2> QED
    BY <2>1, <2>3, <2>4, FadesTies
<1> QED
  BY <1>1, <1>2

\* Likewise.
LEMMA RestartedTies ==
  ASSUME NEW c, Typed(c), Typed(Restarted(c))
  PROVE  Ties(c, Restarted(c))
<1> DEFINE h == [k \in c.calls |-> [k EXCEPT !.valid = @ /\ k.of # "subscribe", !.frames = <<>>]]
           d == Restarted(c)
<1>1. d.calls = {h[k] : k \in c.calls} /\ d.out = c.out /\ d.status = c.status /\ d.sub = c.sub
  <2> DEFINE new == {[k EXCEPT !.valid = @ /\ k.of # "subscribe", !.frames = <<>>] : k \in c.calls}
  <2>1. new = {h[k] : k \in c.calls}
    OBVIOUS
  <2>2. d.calls = new /\ d.out = c.out /\ d.status = c.status /\ d.sub = c.sub
    <3> HIDE DEF new, h
    <3> QED
      BY DEF Restarted, Typed, Client, new
  <2> QED
    BY <2>1, <2>2
<1>2. \A k \in c.calls : h[k].id = k.id /\ h[k].of = k.of /\ h[k].current = k.current
  BY DEF Typed, Client, Asked
<1> HIDE DEF d, h
<1>3. Fades(c, d)
  BY <1>1, <1>2, ChangedFades
<1> QED
  BY <1>1, <1>3, FadesTies DEF d

\* Likewise.
LEMMA FailedTies ==
  ASSUME NEW c, Typed(c), NEW k, NEW why
  PROVE  Ties(c, Failed(c, k, why))
<1> DEFINE given == [c EXCEPT !.awaiting = NoAwait, !.based = FALSE]
           d == DiscardRecovery(c)
<1>1. Ties(c, c) /\ Ties(c, FailRecovery(c)) /\ Ties(c, d)
  BY TiesSelf, FailRecoveryTies, DiscardTies
<1>2. Typed(given) /\ Same(c, given)
  BY DEF Typed, Client, Same, NoAwait, None
<1>3. Failed(c, k, why) \in {c, Reconnect(given), Connect(d, FALSE), FailRecovery(c)}
  BY DEF Failed
<1> HIDE DEF given, d
<1>4. Ties(c, Reconnect(given))
  BY <1>2, SameTies, ReconnectTies, TiesAgain
<1>5. Ties(c, Connect(d, FALSE))
  <2>1. Ties(d, Connect(d, FALSE))
    BY <1>1, ConnectTies DEF Ties
  <2> QED
    BY <1>1, <2>1, TiesAgain
<1> QED
  BY <1>1, <1>3, <1>4, <1>5

\* Likewise.
LEMMA ResyncedTies ==
  ASSUME NEW c, Typed(c), NEW k, NEW a, a.mode \in Mode
  PROVE  Ties(c, Resynced(c, k, a))
<1> DEFINE d == [c EXCEPT !.recovery.ack = a.mode]
<1>1. CASE c.recovery # NoRecovery
  <2>1. d.recovery = [c.recovery EXCEPT !.ack = a.mode] /\ d.recovery \in Recovery
    BY <1>1 DEF Typed, Client, Recovery
  <2>2. Typed(d) /\ Same(c, d)
    BY <1>1, <2>1 DEF Typed, Client, Same
  <2>3. Resynced(c, k, a) \in {c, Settle(d)}
    BY DEF Resynced, d
  <2> HIDE DEF d
  <2>4. Ties(c, d) /\ Ties(d, Settle(d)) /\ Ties(c, c)
    BY <2>2, SameTies, SettleTies, TiesSelf
  <2>5. Ties(c, Settle(d))
    BY <2>4, TiesAgain
  <2> QED
    BY <2>3, <2>4, <2>5
<1>2. CASE c.recovery = NoRecovery
  BY <1>2, TiesSelf DEF Resynced
<1> QED
  BY <1>1, <1>2

\* A page whose runtime is gone is not live, unless it is closed, and no connect counts.
LEMMA UnavailableTies ==
  ASSUME NEW c, Typed(c)
  PROVE  LET d == Unavailable(c)
         IN  Ties(c, d) /\ (~Closed(c) => d.status # "live" /\ Counting(d) = {})
<1> DEFINE b == NewGeneration(DiscardRecovery(c))
           e == [b EXCEPT !.awaiting = NoAwait, !.based = FALSE, !.sub = None, !.retry = "none"]
           d == Reconnect(e)
<1>1. Ties(c, b) /\ Counting(b) = {} /\ Typed(b) /\ b.recovery = NoRecovery
  BY AllOutdatedTies DEF Ties
<1>2. Unavailable(c) = IF Closed(c) THEN c ELSE d
  BY DEF Unavailable, d, e, b
<1> HIDE DEF b
<1>3. e \in Client /\ e.calls = b.calls /\ e.out = b.out /\ e.decoder = b.decoder /\ e.recovery = NoRecovery
  BY <1>1 DEF Typed, Client, NoAwait, None
<1> HIDE DEF e
<1>4. Typed(e)
  BY <1>1, <1>3 DEF Typed
<1>5. Typed(d) /\ d.status \in {"connecting", "error"}
  BY <1>4, ReconnectTies DEF Ties
<1>6. d.calls = b.calls /\ d.out = b.out
  BY <1>3 DEF Reconnect, Client
<1> HIDE DEF d
<1>7. Ties(b, d) /\ Counting(d) = {}
  BY <1>1, <1>5, <1>6, RestTies DEF Counting
<1>8. Ties(c, d) /\ Ties(c, c)
  BY <1>1, <1>7, TiesAgain, TiesSelf
<1> QED
  BY <1>2, <1>5, <1>7, <1>8

\* The runtime is available: a page that was connecting connects.
LEMMA AvailableTies ==
  ASSUME NEW c, Typed(c)
  PROVE  Ties(c, Available(c))
<1> DEFINE c1 == [c EXCEPT !.retry = "none", !.attempts = 0]
           d == [c1 EXCEPT !.awaiting = NoAwait, !.based = FALSE, !.sub = None]
           e == [d EXCEPT !.recovery = NoRecovery]
<1>1. 0 \in 0..MaxAttempts /\ c \in Client
  BY StoreAssumption DEF Typed
<1>2. c1 \in Client /\ Same(c, c1) /\ c1.decoder = c.decoder /\ c1.recovery = c.recovery
  BY <1>1 DEF Client, Same
<1>3. d \in Client /\ d.calls = c.calls /\ d.out = c.out /\ d.status = c.status /\ d.decoder = c.decoder
  BY <1>1 DEF Client, NoAwait, None
<1>4. Available(c) = IF Closed(c) THEN c ELSE IF Subscribes(c) # {} THEN c1 ELSE Connect(d, TRUE)
  BY DEF Available
<1> HIDE DEF c1, d
<1>5. /\ e \in Client /\ e.calls = c.calls /\ e.out = c.out /\ e.status = c.status
      /\ e.decoder = c.decoder /\ e.recovery = NoRecovery
  BY <1>3 DEF Client
<1>6. Typed(e) /\ Typed(c1)
  BY <1>2, <1>5 DEF Typed, Same
<1>7. ~Closed(c) => Connect(d, TRUE) = Connect(e, TRUE)
  <2>1. DiscardRecovery(d) = DiscardRecovery(e)
    BY <1>3 DEF DiscardRecovery, Outdated, Client
  <2>2. Closed(d) <=> Closed(e)
    BY <1>3 DEF Closed, Client
  <2>3. Closed(d) <=> Closed(c)
    BY <1>3 DEF Closed
  <2> HIDE DEF e
  <2> QED
    BY <2>1, <2>2, <2>3 DEF Connect
<1> HIDE DEF e
<1>8. ~Closed(c) => Ties(c, Connect(e, TRUE))
  BY <1>5, <1>6, ConnectFromTies DEF Closed
<1>9. Ties(c, c1) /\ Ties(c, c)
  BY <1>2, <1>6, SameTies, TiesSelf
<1> QED
  BY <1>4, <1>7, <1>8, <1>9

\* A page that is not live, and of whose connects none counts, serves nothing.
LEMMA QuietLinked ==
  ASSUME NEW c, NEW d, d.calls = c.calls, d.out = c.out, d.status # "live", Counting(c) = {},
         NEW L, NEW A, NEW S, NEW n, Linked(c, L, A, S, n), NEW T
  PROVE  Linked(d, L, A, T, n)
<1>1. Lined(L \o c.out, c, A, n) /\ OneCounts(c) /\ Owns(c, A, S)
  BY DEF Linked
<1>2. Counting(d) = {} /\ \A k \in d.calls : ~Counts(k)
  BY DEF Counting
<1>3. Lined(L \o d.out, d, A, n)
  BY <1>1, <1>2 DEF Lined, HasCall, CountsLast, LiveIsLast, CancelsOld
<1>4. OneCounts(d)
  BY <1>1, <1>2 DEF OneCounts
<1>5. Owns(d, A, T)
  BY <1>1, <1>2 DEF Owns
<1> QED
  BY <1>3, <1>4, <1>5 DEF Linked

\* What waits for a reply has none that counts: the page is live with what an ACK names.
LEMMA ServedLinked ==
  ASSUME NEW c, NEW d, d.calls = c.calls, d.out = c.out, d.status = "live", Counting(c) = {},
         NEW L, NEW A, NEW S, NEW n, Linked(c, L, A, S, n), d.sub \in S, d.sub # None,
         \A i \in 1..Len(L \o c.out) :
            /\ ~Subs((L \o c.out)[i])
            /\ ~Asks((L \o c.out)[i]) => (L \o c.out)[i].sub < d.sub
  PROVE  Linked(d, L, A, S, n)
<1> DEFINE M == L \o c.out
<1>1. Lined(M, c, A, n) /\ OneCounts(c) /\ Owns(c, A, S)
  BY DEF Linked
<1>2. Counting(d) = {} /\ \A k \in d.calls : ~Counts(k)
  BY DEF Counting
<1>3. \A i \in 1..Len(M) : ~Subs(M[i]) /\ (~Asks(M[i]) => M[i].sub < d.sub)
  OBVIOUS
<1>4. M = L \o d.out
  OBVIOUS
<1> HIDE DEF M
<1>5. Lined(M, d, A, n)
  BY <1>1, <1>2, <1>3 DEF Lined, HasCall, CountsLast, LiveIsLast, CancelsOld
<1>6. OneCounts(d)
  BY <1>1, <1>2 DEF OneCounts
<1>7. Owns(d, A, S)
  BY <1>1, <1>2 DEF Owns
<1> QED
  BY <1>4, <1>5, <1>6, <1>7 DEF Linked

\* What a handler sends joins the line at its end.
LEMMA EndedLinked ==
  ASSUME NEW d, Typed(d), NEW L \in Seq(Item), NEW A, NEW S, NEW n, Linked(d, L, A, S, n)
  PROVE  Linked(Ended(d), L \o d.out, A, S, n) /\ L \o d.out \in Seq(Item)
<1> DEFINE e == Ended(d)
           N == L \o d.out
           none == <<>>
<1>1. d.out \in Seq(Item)
  BY DEF Typed, Client, Item
<1>2. N \in Seq(Item)
  BY <1>1, ConcatProperties
<1>3. e.out = none /\ e.calls = d.calls /\ e.status = d.status /\ e.sub = d.sub
  BY DEF Ended, Typed, Client
<1> HIDE DEF e, N
<1>4. N \o e.out = N
  BY <1>2, <1>3
<1> HIDE DEF none
<1>5. Lined(N, d, A, n) /\ OneCounts(d) /\ Owns(d, A, S)
  BY DEF Linked, N
<1>6. Counting(e) = Counting(d)
  BY <1>3 DEF Counting
<1>7. Lined(N, e, A, n)
  BY <1>3, <1>5, <1>6 DEF Lined, HasCall, CountsLast, LiveIsLast, CancelsOld
<1>8. OneCounts(e) /\ Owns(e, A, S)
  BY <1>3, <1>5, <1>6 DEF OneCounts, Owns
<1>9. Linked(e, N, A, S, n)
  BY <1>4, <1>7, <1>8 DEF Linked
<1> QED
  BY <1>2, <1>9 DEF e, N

\* d is c without its call k, B the ACKs of A that are in the line L.
Without(c, d, k) ==
  d.calls = c.calls \ {k} /\ d.status = c.status /\ d.sub = c.sub /\ d.out = c.out
LeftIn(B, A, L) == B \subseteq A /\ \A b \in B : Asks(b) /\ \E i \in 1..Len(L) : L[i] = b

\* The first reply is taken, and its call is no more.
LEMMA TakenLinked ==
  ASSUME NEW L \in Seq(Item), NEW a \in Item, Asks(a), NEW c, Typed(c), c.out = <<>>,
         NEW A, NEW S, NEW n, Linked(c, <<a>> \o L, A, S, n), NEW k \in c.calls, k.id = a.id,
         NEW d, Without(c, d, k), NEW B, LeftIn(B, A, L)
  PROVE  /\ Linked(d, L, B, S, n)
         /\ Subs(a) /\ a \in A =>
              /\ c.status # "live" /\ k.of = "subscribe"
              /\ \A i \in 1..Len(L) : ~Asks(L[i]) => L[i].sub < a.sub
              /\ k.current => /\ Counting(d) = {} /\ a.sub \in S
                              /\ \A i \in 1..Len(L) : ~Subs(L[i])
<1> DEFINE M == <<a>> \o L
           m == Len(L)
           none == <<>>
<1>1. /\ m \in Nat /\ M \in Seq(Item) /\ Len(M) = m + 1 /\ M[1] = a
      /\ \A i \in 1..m : M[i + 1] = L[i] /\ i + 1 \in 1..m + 1 /\ 1 < i + 1
  <2>1. <<a>> \in Seq(Item) /\ Len(<<a>>) = 1 /\ <<a>>[1] = a
    OBVIOUS
  <2>2. m \in Nat
    OBVIOUS
  <2>3. M \in Seq(Item) /\ Len(M) = 1 + m
    BY <2>1, ConcatProperties
  <2>4. M[1] = a
    BY <2>1, <2>2
  <2>5. \A i \in 1..m : M[i + 1] = L[i]
    BY <2>1, <2>2
  <2> HIDE DEF M, m
  <2> QED
    BY <2>2, <2>3, <2>4, <2>5
<1>2. /\ d.calls = c.calls \ {k} /\ d.status = c.status /\ d.sub = c.sub /\ d.out = none /\ c.out = none
  BY DEF Without
<1>20. B \subseteq A /\ \A b \in B : Asks(b) /\ \E i \in 1..Len(L) : L[i] = b
  BY DEF LeftIn
<1>3. M \o c.out = M /\ L \o d.out = L
  BY <1>1, <1>2
<1> HIDE DEF M, m, none
<1>4. Lined(M, c, A, n) /\ OneCounts(c) /\ Owns(c, A, S)
  BY <1>3 DEF Linked, M
<1>5. \A i \in 1..m : Asks(L[i]) => L[i].id # a.id
  BY <1>1, <1>4 DEF Lined, AskedOnce
<1>6. Counting(d) \subseteq Counting(c)
  BY <1>2 DEF Counting
<1>7. \A i \in 1..Len(L) : i \in 1..m
  BY DEF m
<1>8. AskedOnce(L)
  <2> SUFFICES ASSUME NEW i \in 1..m, NEW j \in 1..m, i < j, Asks(L[i]), Asks(L[j])
               PROVE  L[i].id # L[j].id
    BY <1>7 DEF AskedOnce
  <2>1. i + 1 < j + 1
    BY <1>1
  <2> QED
    BY <1>1, <1>4, <2>1 DEF Lined, AskedOnce
<1>9. HasCall(L, d)
  <2> SUFFICES ASSUME NEW i \in 1..m, Asks(L[i])
               PROVE  \E j \in d.calls : j.id = L[i].id /\ (Subs(L[i]) => j.of = "subscribe")
    BY <1>7 DEF HasCall
  <2>1. PICK j \in c.calls : j.id = L[i].id /\ (Subs(L[i]) => j.of = "subscribe")
    BY <1>1, <1>4 DEF Lined, HasCall
  <2> QED
    BY <1>2, <1>5, <2>1
<1>10. CountsLast(L, d)
  <2> SUFFICES ASSUME NEW i \in 1..m, NEW j \in 1..m, i < j, Subs(L[i]), Subs(L[j])
               PROVE  L[i].id \notin Counting(d)
    BY <1>7 DEF CountsLast
  <2>1. i + 1 < j + 1
    BY <1>1
  <2> QED
    BY <1>1, <1>4, <1>6, <2>1 DEF Lined, CountsLast
<1>11. LiveIsLast(L, d)
  BY <1>1, <1>2, <1>4, <1>7 DEF Lined, LiveIsLast
<1>12. CancelsOld(L, d, B, n)
  <2> SUFFICES ASSUME NEW i \in 1..m, ~Asks(L[i])
               PROVE  /\ L[i].sub < n /\ \A b \in B : L[i].sub < b.sub
                      /\ c.status = "live" => L[i].sub < c.sub
    BY <1>2, <1>7 DEF CancelsOld
  <2> QED
    BY <1>1, <1>4, <1>20 DEF Lined, CancelsOld
<1>13. OneCounts(d)
  BY <1>2, <1>4 DEF OneCounts
<1>14. Owns(d, B, S)
  <2>1. ASSUME NEW b \in B PROVE \E j \in d.calls : j.id = b.id
    <3>1. PICK j \in c.calls : j.id = b.id
      BY <1>4, <1>20 DEF Owns
    <3>2. b.id # a.id
      BY <1>5, <1>20 DEF m
    <3> QED
      BY <1>2, <3>1, <3>2
  <2> QED
    BY <1>2, <1>4, <1>6, <1>20, <2>1 DEF Owns
<1>15. Linked(d, L, B, S, n)
  BY <1>3, <1>8, <1>9, <1>10, <1>11, <1>12, <1>13, <1>14 DEF Linked, Lined
<1>16. ASSUME Subs(a) PROVE c.status # "live" /\ k.of = "subscribe"
  <2>1. 1 \in 1..Len(M)
    BY <1>1
  <2>2. \E j \in c.calls : j.id = a.id /\ j.of = "subscribe"
    BY <1>1, <1>4, <1>16, <2>1 DEF Lined, HasCall
  <2> QED
    BY <1>1, <1>4, <1>16, <2>1, <2>2 DEF Lined, LiveIsLast, OneCounts
<1>17. ASSUME Subs(a), a \in A, k.current
       PROVE  Counting(d) = {} /\ a.sub \in S /\ \A i \in 1..m : ~Subs(L[i])
  <2>1. Counts(k) /\ a.id \in Counting(c)
    BY <1>16, <1>17 DEF Counts, Counting
  <2>2. \A j \in d.calls : ~Counts(j)
    BY <1>2, <1>4, <2>1 DEF OneCounts
  <2>3. Counting(d) = {}
    BY <2>2 DEF Counting
  <2>4. ASSUME NEW i \in 1..m, Subs(L[i]) PROVE FALSE
    BY <1>1, <1>4, <1>17, <2>1, <2>4 DEF Lined, CountsLast
  <2>5. a.sub \in S
    BY <1>4, <1>17, <2>1 DEF Owns
  <2> QED
    BY <2>3, <2>4, <2>5
<1>18. ASSUME a \in A, NEW i \in 1..m, ~Asks(L[i]) PROVE L[i].sub < a.sub
  BY <1>1, <1>4, <1>18 DEF Lined, CancelsOld
<1> QED
  BY <1>15, <1>16, <1>17, <1>18 DEF m

----------------------------------------------------------------------------
\* The ACK of a connect is handled: of one that counts it makes the page live; of an
\* outdated one, its subscription is cancelled.
LEMMA AckedLinked ==
  ASSUME NEW L \in Seq(Item), NEW B, NEW S, NEW n, NEW c, Typed(c), c.out = <<>>,
         c.status # "live", Linked(c, L, B, S, n), NEW k \in Asked,
         NEW a, a.sub \in Nat \ {0}, a.mode \in Mode, a.sub < n, \A b \in B : a.sub < b.sub,
         k.current => /\ Counting(c) = {} /\ a.sub \in S
                      /\ \A i \in 1..Len(L) : ~Subs(L[i]) /\ (~Asks(L[i]) => L[i].sub < a.sub)
  PROVE  Linked(Acked(c, k, a), L, B, S, n) /\ Typed(Acked(c, k, a))
<1> DEFINE d == DiscardRecovery(c)
           based == k.base.epoch # None /\ a.mode = "resume" /\ a.epoch = k.base.epoch
           c1 == [d EXCEPT
                    !.attempts = 0, !.status = "live", !.sub = a.sub, !.based = based,
                    !.awaiting = [sub |-> a.sub, mode |-> a.mode],
                    !.active = a.sub, !.decoder = FreshDecoder]
           released == Only(k.frames, {f \in ToSet(k.frames) : f.sub = a.sub})
           none == <<>>
<1>1. Ties(c, d) /\ Typed(d) /\ d \in Client /\ d.recovery = NoRecovery /\ d.out = none
  BY DiscardTies, DiscardsRecovery DEF Ties, Typed
<1>2. Acked(c, k, a) = IF ~k.valid THEN Failed(c, k, "recycled")
                       ELSE IF ~k.current THEN Unsubscribe(c, a.sub)
                       ELSE Released(c1, released)
  BY DEF Acked, released, c1, d
<1>3. Counting(d) \subseteq Counting(c)
  <2> DEFINE b == Outdated(c, "resync")
  <2>1. Fades(c, b) /\ Typed(b)
    BY OutdatedFades, OutdatedCalm DEF Calms
  <2>2. d.calls = b.calls
    BY <2>1 DEF DiscardRecovery, Typed, Client
  <2> QED
    BY <2>1, <2>2, FadesCounting DEF Counting
<1>4. Linked(d, L, B, S, n)
  BY <1>1 DEF Ties, Links
<1>5. CASE ~k.valid
  BY <1>2, <1>5, FailedTies DEF Ties, Links
<1>6. CASE k.valid /\ ~k.current
  <2>1. a.sub \in Nat
    OBVIOUS
  <2>2. Typed(Unsubscribe(c, a.sub))
    BY <2>1, UnsubscribeCalm DEF Calms
  <2>3. Linked(Unsubscribe(c, a.sub), L, B, S, n)
    BY <2>1, UnsubscribeLinked
  <2> QED
    BY <1>2, <1>6, <2>2, <2>3
<1>7. CASE k.valid /\ k.current
  <2> HIDE DEF d, none
  <2>1. /\ c1 \in Client /\ c1.calls = d.calls /\ c1.out = none /\ c1.recovery = NoRecovery
        /\ c1.status = "live" /\ c1.sub = a.sub /\ c1.decoder = FreshDecoder
    <3>1. FreshDecoder \in Decoder
      BY DEF FreshDecoder, Decoder
    <3>2. based \in BOOLEAN /\ 0 \in 0..MaxAttempts
      BY StoreAssumption
    <3> HIDE DEF based
    <3> QED
      BY <1>1, <3>1, <3>2 DEF Client, Status
  <2> HIDE DEF c1
  <2>2. Typed(c1)
    BY <1>1, <2>1 DEF Typed, FreshDecoder
  <2>3. L \o d.out = L
    BY <1>1 DEF none
  <2>4. Counting(d) = {} /\ a.sub # None
    BY <1>3, <1>7 DEF None
  <2>5. Linked(c1, L, B, S, n)
    BY <1>1, <1>4, <1>7, <2>1, <2>3, <2>4, ServedLinked
  <2>6. released \in Seq(TopicFrame)
    <3> DEFINE T == {f \in ToSet(k.frames) : f.sub = a.sub}
    <3>1. k.frames \in Seq(TopicFrame)
      BY DEF Asked
    <3>2. Only(k.frames, T) \in Seq(TopicFrame \cap T)
      BY <3>1, OnlyEmbeds
    <3> HIDE DEF T
    <3>3. Only(k.frames, T) \in Seq(TopicFrame)
      BY <3>2, SeqMonotonic
    <3> QED
      BY <3>3 DEF T
  <2> HIDE DEF released
  <2>7. Ties(c1, Released(c1, released))
    BY <2>2, <2>6, ReleasedTies
  <2> QED
    BY <1>2, <1>7, <2>5, <2>7 DEF Ties, Links
<1> QED
  BY <1>5, <1>6, <1>7

----------------------------------------------------------------------------
(* The line: replies, the one that is reserved, and requests behind them.    *)
Answer == IF pending = NoReply THEN <<>> ELSE <<pending>>
Behind(r) == r \o Answer \o requests
Line == Behind(replies)
\* While the page has not heard that the runtime is gone, it may serve what that one served.
Unheard == \E i \in 1..Len(wire) : wire[i].type = "unavailable"
Held == IF Unheard THEN Nat ELSE {sub.id}
GoodLink == Linked(client, Line, Acks, Held, nextSub)
\* The host routes the subscription the agent serves, once it is acknowledged.
HostFollows ==
  /\ pending.type = "subscribed" => sub # NoSub /\ sub.id = pending.sub
  /\ sub # NoSub /\ pending.type # "subscribed" => route = sub.id
LinkInv == IInv /\ GoodLink /\ HostFollows

\* The line is typed.
LEMMA LineTyped ==
  ASSUME IInv
  PROVE  /\ Answer \in Seq(Item) /\ requests \in Seq(Item) /\ replies \in Seq(Item)
         /\ \A r \in Seq(Item) : Behind(r) \in Seq(Item) /\ Behind(r) = r \o (Answer \o requests)
<1>1. requests \in Seq(Item) /\ replies \in Seq(Item)
  BY DEF IInv, Channelled, Item
<1>2. Answer \in Seq(Item)
  <2>1. CASE pending = NoReply
    BY <2>1, EmptySeq DEF Answer
  <2>2. CASE pending # NoReply
    <3>1. pending \in Item
      BY <2>2 DEF IInv, Channelled, Item
    <3> QED
      BY <2>2, <3>1 DEF Answer
  <2> QED
    BY <2>1, <2>2
<1>3. ASSUME NEW r \in Seq(Item) PROVE Behind(r) \in Seq(Item) /\ Behind(r) = r \o (Answer \o requests)
  <2>1. r \o Answer \in Seq(Item)
    BY <1>2, ConcatProperties
  <2> QED
    BY <1>1, <1>2, <2>1, ConcatProperties, ConcatAssociative DEF Behind
<1> QED
  BY <1>1, <1>2, <1>3

\* Every ACK is in it.
LEMMA AcksInLine ==
  ASSUME IInv, NEW r \in Seq(Reply), NEW b, IsAck(b), b \in ToSet(r) \/ b = pending
  PROVE  Asks(b) /\ \E i \in 1..Len(Behind(r)) : Behind(r)[i] = b
<1> DEFINE u == r \o Answer
           v == requests
<1>1. r \in Seq(Item) /\ Answer \in Seq(Item) /\ v \in Seq(Item)
  <2>1. r \in Seq(Item)
    BY DEF Item
  <2> QED
    BY <2>1, LineTyped
<1>2. Asks(b)
  BY DEF IsAck, Asks
<1>3. \E i \in 1..Len(u) : u[i] = b
  <2>1. /\ u \in Seq(Item) /\ Len(u) = Len(r) + Len(Answer) /\ Len(r) \in Nat /\ Len(Answer) \in Nat
        /\ \A i \in 1..Len(r) + Len(Answer) : u[i] = IF i <= Len(r) THEN r[i] ELSE Answer[i - Len(r)]
    BY <1>1, ConcatProperties, LenProperties
  <2> HIDE DEF u
  <2>2. CASE b \in ToSet(r)
    <3>1. PICK i \in 1..Len(r) : r[i] = b
      BY <2>2 DEF ToSet
    <3>2. i \in 1..Len(u) /\ u[i] = b
      BY <2>1, <3>1
    <3> QED
      BY <3>2
  <2>3. CASE b = pending
    <3>1. pending # NoReply
      BY <2>3 DEF IsAck, NoReply
    <3>2. Len(Answer) = 1 /\ Answer[1] = b
      BY <2>3, <3>1 DEF Answer
    <3>3. Len(r) + 1 \in 1..Len(u) /\ u[Len(r) + 1] = b
      BY <2>1, <3>2
    <3> QED
      BY <3>3
  <2> QED
    BY <2>2, <2>3
<1>4. /\ Behind(r) = u \o v /\ Len(u) \in Nat /\ Len(v) \in Nat /\ Len(u \o v) = Len(u) + Len(v)
      /\ \A i \in 1..Len(u) + Len(v) : (u \o v)[i] = IF i <= Len(u) THEN u[i] ELSE v[i - Len(u)]
  <2>1. u \in Seq(Item)
    BY <1>1, ConcatProperties
  <2>2. Behind(r) = u \o v
    BY DEF Behind
  <2> HIDE DEF u, v
  <2> QED
    BY <1>1, <2>1, <2>2, ConcatProperties, LenProperties
<1> HIDE DEF u, v
<1>5. PICK i \in 1..Len(u) : u[i] = b
  BY <1>3
<1>6. i \in 1..Len(u \o v) /\ (u \o v)[i] = b
  BY <1>4, <1>5
<1> QED
  BY <1>2, <1>4, <1>6

\* The line begins with the first reply.
LEMMA LineSplits ==
  ASSUME IInv, replies # <<>>
  PROVE  /\ Line = <<Head(replies)>> \o Behind(Tail(replies)) /\ Behind(Tail(replies)) \in Seq(Item)
         /\ Head(replies) \in Item
<1> DEFINE t == Tail(replies)
           h == <<Head(replies)>>
           w == Answer \o requests
<1>1. replies \in Seq(Reply) /\ Tail(replies) \in Seq(Reply) /\ Head(replies) \in Reply
  BY HeadTailProperties DEF IInv, Channelled
<1>2. t \in Seq(Item) /\ h \in Seq(Item) /\ Head(replies) \in Item /\ replies \in Seq(Item)
  BY <1>1 DEF Item
<1>3. replies = h \o t
  BY <1>1
<1>4. w \in Seq(Item)
  BY LineTyped, ConcatProperties
<1>5. Line = replies \o w /\ Behind(t) = t \o w /\ Behind(t) \in Seq(Item)
  BY <1>2, LineTyped DEF Line
<1> HIDE DEF t, h, w
<1>6. (h \o t) \o w = h \o (t \o w)
  BY <1>2, <1>4, ConcatAssociative
<1> QED
  BY <1>2, <1>3, <1>5, <1>6 DEF t, h

----------------------------------------------------------------------------
(* The steps of the store keep the link.                                     *)

\* Three stretches of a line, joined from either end.
LEMMA ItemsJoin ==
  ASSUME NEW a \in Seq(Item), NEW b \in Seq(Item), NEW c \in Seq(Item)
  PROVE  (a \o b) \o c = a \o (b \o c)
  BY ConcatAssociative

\* What a handler sends joins the line behind what is left of it.
LEMMA StepLinks ==
  ASSUME IInv, UNCHANGED topic, NEW r \in Seq(Item), replies' = r, NEW d, Typed(d),
         Linked(d, Behind(r), Acks', Held', nextSub), Step(d)
  PROVE  GoodLink'
<1> DEFINE u == r \o Answer
           v == d.out
<1>1. /\ v \in Seq(Item) /\ requests \in Seq(Item) /\ Answer \in Seq(Item)
      /\ Behind(r) \in Seq(Item)
  <2>1. v \in Seq(Item)
    BY DEF Typed, Client, Item
  <2> QED
    BY <2>1, LineTyped
<1>2. client' = Ended(d) /\ requests' = requests \o v /\ Answer' = Answer /\ nextSub' = nextSub
  BY DEF Step, topic, Answer
<1>3. u \in Seq(Item)
  BY <1>1, ConcatProperties
<1>4. Line' = u \o (requests \o v) /\ Behind(r) = u \o requests
  BY <1>2 DEF Line, Behind
<1> HIDE DEF u, v
<1>5. (u \o requests) \o v = u \o (requests \o v)
  <2>1. u \in Seq(Item) /\ requests \in Seq(Item) /\ v \in Seq(Item)
    BY <1>1, <1>3
  <2> QED
    BY <2>1, ItemsJoin
<1>6. Linked(Ended(d), Behind(r) \o d.out, Acks', Held', nextSub)
  BY <1>1, EndedLinked
<1> QED
  BY <1>2, <1>4, <1>5, <1>6 DEF GoodLink, v

\* A reply is handled.
LEMMA ReplyLinks ==
  ASSUME LinkInv, HandleReply, UNCHANGED topic
  PROVE  GoodLink'
<1> DEFINE a == Head(replies)
           t == Tail(replies)
           L == Behind(t)
<1>0. IInv /\ Linked(client, Line, Acks, Held, nextSub)
  BY DEF LinkInv, GoodLink
<1>1. /\ replies # <<>> /\ replies' = t /\ wire' = wire /\ pending' = pending /\ sub' = sub
  BY DEF HandleReply, topic
<1>2. PICK k \in client.calls :
        LET c == [client EXCEPT !.calls = @ \ {k}]
        IN  /\ k.id = a.id
            /\ Step(CASE a.type = "subscribed" -> Acked(c, k, a)
                      [] a.type = "resynced" -> Resynced(c, k, a)
                      [] a.type = "failed" -> Failed(c, k, a.why))
  BY DEF HandleReply
<1> DEFINE c == [client EXCEPT !.calls = @ \ {k}]
           d == CASE a.type = "subscribed" -> Acked(c, k, a)
                  [] a.type = "resynced" -> Resynced(c, k, a)
                  [] a.type = "failed" -> Failed(c, k, a.why)
<1>3. Step(d) /\ k.id = a.id
  BY <1>2
<1>4. /\ t \in Seq(Reply) /\ a \in Reply /\ a \in ToSet(replies) /\ ToSet(t) \subseteq ToSet(replies)
  BY <1>0, <1>1, TailTyped DEF IInv, Channelled
<1>5. Line = <<a>> \o L /\ L \in Seq(Item) /\ a \in Item /\ t \in Seq(Item)
  BY <1>0, <1>1, <1>4, LineSplits DEF Item
<1>6. /\ Acks' \subseteq Acks /\ (IsAck(a) => a \in Acks)
      /\ \A b \in Acks' : IsAck(b) /\ (b \in ToSet(t) \/ b = pending)
  BY <1>1, <1>4 DEF Acks, IsAck
<1>7. \A b \in Acks' : Asks(b) /\ \E i \in 1..Len(L) : L[i] = b
  BY <1>0, <1>4, <1>6, AcksInLine
<1>8. /\ a.type \in {"subscribed", "resynced", "failed"} /\ Asks(a) /\ (Subs(a) <=> IsAck(a))
      /\ a.type # "failed" => a.sub \in Nat /\ a.mode \in Mode
  BY <1>4 DEF Reply, Asks, Subs, IsAck
<1>9. Held' = Held
  BY <1>1 DEF Held, Unheard
<1>10. IsAck(a) => \A b \in Acks' : a.sub < b.sub
  <2> SUFFICES ASSUME IsAck(a), NEW b \in Acks' PROVE a.sub < b.sub
    OBVIOUS
  <2>1. b.sub > a.sub
    BY <1>0, <1>1, LaterAcks
  <2>2. b.sub \in Nat /\ a.sub \in Nat
    BY <1>0, <1>6 DEF IInv, WayClear, OnTheWay, Named, Logged
  <2> QED
    BY <2>1, <2>2
<1>11. IsAck(a) => a.sub \in Nat \ {0} /\ a.sub < nextSub
  <2> SUFFICES ASSUME IsAck(a) PROVE a.sub \in Nat \ {0} /\ a.sub < nextSub
    OBVIOUS
  <2>1. a.sub \in 1..nextSub - 1 /\ nextSub \in Nat
    BY <1>0, <1>6 DEF IInv, WayClear, OnTheWay, Named, Logged
  <2> QED
    BY <2>1
<1>12. Typed(client) /\ client.out = <<>> /\ k \in Asked
  BY <1>0 DEF IInv, ClientTyped, Fresh, Typed, Client
<1>13. Typed(c) /\ c.out = <<>> /\ c.status = client.status
  <2>1. Typed(c)
    BY <1>0, CalledGoes DEF IInv, ClientTyped, GoodClient, Goes
  <2> QED
    BY <1>12, <2>1 DEF Typed, Client
<1> HIDE DEF a, t, L, c, d
<1>14. /\ Linked(c, L, Acks', Held, nextSub)
       /\ Subs(a) /\ a \in Acks =>
            /\ client.status # "live"
            /\ \A i \in 1..Len(L) : ~Asks(L[i]) => L[i].sub < a.sub
            /\ k.current => /\ Counting(c) = {} /\ a.sub \in Held
                            /\ \A i \in 1..Len(L) : ~Subs(L[i])
  <2> DEFINE B == Acks'
  <2>1. LeftIn(B, Acks, L)
    BY <1>6, <1>7 DEF LeftIn
  <2>2. Linked(client, <<a>> \o L, Acks, Held, nextSub)
    BY <1>0, <1>5
  <2> HIDE DEF B
  <2>3. Without(client, c, k)
    BY <1>12 DEF c, Typed, Client, Without
  <2>4. /\ Linked(c, L, B, Held, nextSub)
        /\ Subs(a) /\ a \in Acks =>
             /\ client.status # "live" /\ k.of = "subscribe"
             /\ \A i \in 1..Len(L) : ~Asks(L[i]) => L[i].sub < a.sub
             /\ k.current => /\ Counting(c) = {} /\ a.sub \in Held
                             /\ \A i \in 1..Len(L) : ~Subs(L[i])
    BY <1>3, <1>5, <1>8, <1>12, <2>1, <2>2, <2>3, TakenLinked
  <2> QED
    BY <2>4 DEF B
<1>15. Linked(d, L, Acks', Held, nextSub) /\ Typed(d)
  <2> DEFINE B == Acks'
  <2>1. Linked(c, L, B, Held, nextSub) /\ (IsAck(a) => \A b \in B : a.sub < b.sub)
    BY <1>10, <1>14
  <2> HIDE DEF B
  <2>2. CASE a.type = "subscribed"
    <3>1. d = Acked(c, k, a) /\ IsAck(a)
      BY <2>2 DEF d, IsAck
    <3>2. Linked(Acked(c, k, a), L, B, Held, nextSub) /\ Typed(Acked(c, k, a))
      BY <1>5, <1>6, <1>8, <1>11, <1>12, <1>13, <1>14, <2>1, <2>2, <3>1, AckedLinked
    <3> QED
      BY <3>1, <3>2 DEF B
  <2>3. CASE a.type = "resynced"
    <3>1. d = Resynced(c, k, a)
      BY <2>3 DEF d
    <3>2. Ties(c, d)
      BY <1>8, <1>13, <2>3, <3>1, ResyncedTies
    <3> QED
      BY <1>5, <2>1, <3>2 DEF Ties, Links, B
  <2>4. CASE a.type = "failed"
    <3>1. d = Failed(c, k, a.why)
      BY <2>4 DEF d
    <3>2. Ties(c, d)
      BY <1>13, <3>1, FailedTies
    <3> QED
      BY <1>5, <2>1, <3>2 DEF Ties, Links, B
  <2> QED
    BY <1>8, <2>2, <2>3, <2>4
<1> QED
  BY <1>0, <1>1, <1>3, <1>5, <1>9, <1>15, StepLinks DEF L

\* A step that takes no reply.
LEMMA OthersLink ==
  ASSUME LinkInv, UNCHANGED <<topic, replies>>, NEW d, Typed(d),
         Linked(d, Line, Acks, Held', nextSub), Step(d)
  PROVE  GoodLink'
<1>1. IInv /\ replies \in Seq(Item) /\ replies' = replies /\ UNCHANGED topic
  BY LineTyped DEF LinkInv
<1>2. Acks' = Acks
  BY DEF Acks, IsAck, topic
<1>3. Linked(d, Behind(replies), Acks', Held', nextSub)
  BY <1>2 DEF Line
<1> QED
  BY <1>1, <1>3, StepLinks

\* And does not end what the page may serve.
LEMMA TiesLink ==
  ASSUME LinkInv, UNCHANGED <<topic, replies>>, Held' = Held, NEW d, Ties(client, d), Step(d)
  PROVE  GoodLink'
<1>1. Line \in Seq(Item)
  BY LineTyped DEF LinkInv, Line
<1>2. Linked(d, Line, Acks, Held, nextSub) /\ Typed(d)
  BY <1>1 DEF Ties, Links, LinkInv, GoodLink
<1> QED
  BY <1>2, OthersLink

\* The wire without its first message.
LEMMA WireTaken ==
  ASSUME IInv, wire # <<>>, wire' = Tail(wire), sub' = sub, Head(wire).type # "unavailable"
  PROVE  Held' = Held
<1>1. /\ Len(wire') = Len(wire) - 1 /\ Len(wire) \in Nat \ {0}
      /\ \A i \in 1..Len(wire') : wire'[i] = wire[i + 1] /\ i + 1 \in 1..Len(wire)
      /\ Head(wire) = wire[1]
  BY TailTyped DEF IInv, Channelled
<1>2. ASSUME NEW i \in 1..Len(wire), wire[i].type = "unavailable" PROVE Unheard'
  <2>1. i # 1
    BY <1>1, <1>2
  <2>2. i - 1 \in 1..Len(wire') /\ (i - 1) + 1 = i
    BY <1>1, <2>1
  <2> QED
    BY <1>1, <1>2, <2>2 DEF Unheard
<1>3. Unheard' <=> Unheard
  BY <1>1, <1>2 DEF Unheard
<1> QED
  BY <1>3 DEF Held

\* A frame or an event of the runtime is handled.
LEMMA WireLinks ==
  ASSUME LinkInv, HandleWire, UNCHANGED topic
  PROVE  GoodLink'
<1> DEFINE m == Head(wire)
           d == CASE m.type = "frame" -> Accept(client, m)
                  [] m.type = "unavailable" -> Unavailable(client)
                  [] m.type = "restarted" -> Restarted(client)
                  [] m.type = "available" -> Available(client)
           F == Frames
           A == Acks
<1>1. /\ wire # <<>> /\ wire' = Tail(wire) /\ Step(d) /\ UNCHANGED <<topic, replies>> /\ sub' = sub
  BY DEF HandleWire, topic
<1>2. IInv /\ Linked(client, Line, A, Held, nextSub) /\ Line \in Seq(Item)
  BY LineTyped DEF LinkInv, GoodLink, Line
<1>3. Typed(client) /\ Good(client, F, A) /\ OnTheWay(F, A) /\ wire \in Seq(Message)
  BY <1>2 DEF IInv, ClientTyped, GoodClient, WayClear, Channelled
<1>4. m \in Message /\ m \in ToSet(wire)
  BY <1>1, <1>3, TailTyped
<1>5. m.type = "frame" => m \in F /\ m \in TopicFrame
  BY <1>4 DEF Frames, OnWire, Message
<1>6. m.type \in {"frame", "unavailable", "restarted", "available"}
  BY <1>4 DEF Message, TopicFrame
<1>7. m.type # "unavailable" => Held' = Held
  BY <1>1, <1>2, WireTaken
<1> HIDE DEF F, m
<1>8. CASE m.type = "unavailable"
  <2> DEFINE e == Unavailable(client)
  <2>1. d = e
    BY <1>8
  <2>2. Ties(client, e) /\ (~Closed(client) => e.status # "live" /\ Counting(e) = {})
    BY <1>3, UnavailableTies
  <2>3. Closed(client) => e = client
    BY DEF Unavailable
  <2>4. Closed(client) => client.status # "live" /\ Counting(client) = {}
    BY <1>2 DEF Closed, Linked, OneCounts, Counting
  <2> HIDE DEF d, e
  <2>5. e.status # "live" /\ Counting(e) = {}
    BY <2>2, <2>3, <2>4
  <2>6. Linked(e, Line, A, Held, nextSub) /\ Typed(e)
    BY <1>2, <2>2 DEF Ties, Links
  <2> DEFINE T == Held'
  <2> HIDE DEF T
  <2>7. Linked(e, Line, A, T, nextSub)
    BY <2>5, <2>6, QuietLinked
  <2> QED
    BY <1>1, <2>1, <2>6, <2>7, OthersLink DEF T
<1>9. CASE m.type # "unavailable"
  <2>1. CASE m.type = "frame"
    <3>1. d = Accept(client, m)
      BY <2>1
    <3>2. Typed(Accept(client, m))
      BY <1>3, <1>5, <2>1, AcceptGoes DEF Goes
    <3>3. Ties(client, d)
      BY <1>3, <1>5, <2>1, <3>1, <3>2, AcceptTies
    <3> HIDE DEF d
    <3> QED
      BY <1>1, <1>7, <1>9, <3>3, TiesLink
  <2>2. CASE m.type = "restarted"
    <3>1. d = Restarted(client)
      BY <2>2
    <3>2. Typed(Restarted(client))
      BY <1>3, RestartedGoes DEF Goes
    <3>3. Ties(client, d)
      BY <1>3, <3>1, <3>2, RestartedTies
    <3> HIDE DEF d
    <3> QED
      BY <1>1, <1>7, <1>9, <3>3, TiesLink
  <2>3. CASE m.type = "available"
    <3>1. d = Available(client)
      BY <2>3
    <3>2. Ties(client, d)
      BY <1>3, <3>1, AvailableTies
    <3> HIDE DEF d
    <3> QED
      BY <1>1, <1>7, <1>9, <3>2, TiesLink
  <2> QED
    BY <1>6, <1>9, <2>1, <2>2, <2>3
<1> QED
  BY <1>8, <1>9

\* A step that leaves replies and wire alone.
LEMMA CalmLinks ==
  ASSUME LinkInv, UNCHANGED <<topic, replies, wire>>, NEW d, Ties(client, d), Step(d)
  PROVE  GoodLink'
<1>1. Held' = Held /\ UNCHANGED <<topic, replies>>
  BY DEF Held, Unheard, topic
<1> QED
  BY <1>1, TiesLink

\* A timer fires, the user retries, the authority is stale.
LEMMA TimerLinks ==
  ASSUME LinkInv, UNCHANGED topic, Open \/ Expire \/ Deadline \/ RetryTimer \/ UserRetry \/ StaleAuthority
  PROVE  GoodLink'
<1>1. Typed(client) /\ client \in Client
  BY DEF LinkInv, IInv, ClientTyped, Typed
<1>2. CASE Open
  BY <1>1, <1>2, ConnectTies, CalmLinks DEF Open
<1>3. CASE Expire
  <2> DEFINE f == client.decoder.partial
             c == SettleOrd(client, f)
             d == Fault(c, f)
  <2>1. f # NoPartial /\ Step(d) /\ UNCHANGED <<topic, replies, wire>>
    BY <1>3 DEF Expire
  <2>2. f \in TopicFrame
    BY <1>1, <2>1 DEF Client, Decoder
  <2> HIDE DEF f
  <2>3. Ties(client, c)
    BY <1>1, <2>2, SettleOrdTies
  <2> HIDE DEF c
  <2>4. Ties(c, d)
    BY <2>2, <2>3, FaultTies DEF Ties
  <2> HIDE DEF d
  <2> QED
    BY <2>1, <2>3, <2>4, TiesAgain, CalmLinks
<1>4. CASE Deadline
  <2> DEFINE d == IF ~client.recovery.force THEN Issue(client, TRUE) ELSE FailRecovery(client)
  <2>1. client.recovery # NoRecovery /\ Step(d) /\ UNCHANGED <<topic, replies, wire>>
    BY <1>4 DEF Deadline
  <2>2. client.sub # None
    BY <1>1, <2>1 DEF Typed
  <2>3. Ties(client, d)
    BY <1>1, <2>2, IssueTies, FailRecoveryTies
  <2> HIDE DEF d
  <2> QED
    BY <2>1, <2>3, CalmLinks
<1>5. CASE RetryTimer
  <2> DEFINE c == [client EXCEPT !.retry = "none"]
             d == IF client.retry = "armed" THEN Connect(c, FALSE) ELSE c
  <2>1. Step(d) /\ UNCHANGED <<topic, replies, wire>>
    BY <1>5 DEF RetryTimer
  <2>2. Typed(c) /\ Same(client, c)
    BY <1>1 DEF Typed, Client, Same
  <2> HIDE DEF c
  <2>3. Ties(client, c) /\ Ties(c, Connect(c, FALSE))
    BY <2>2, SameTies, ConnectTies
  <2>4. Ties(client, d)
    BY <2>3, TiesAgain
  <2> HIDE DEF d
  <2> QED
    BY <2>1, <2>4, CalmLinks
<1>6. CASE UserRetry
  <2> DEFINE c == [client EXCEPT !.retry = "none", !.attempts = 0]
             d == Connect(c, FALSE)
  <2>1. Step(d) /\ UNCHANGED <<topic, replies, wire>>
    BY <1>6 DEF UserRetry
  <2>2. 0 \in 0..MaxAttempts
    BY StoreAssumption
  <2>3. c \in Client /\ Same(client, c) /\ c.decoder = client.decoder /\ c.recovery = client.recovery
    BY <1>1, <2>2 DEF Client, Same
  <2> HIDE DEF c
  <2>4. Typed(c)
    BY <1>1, <2>3 DEF Typed, Same
  <2>5. Ties(client, c) /\ Ties(c, d)
    BY <2>3, <2>4, SameTies, ConnectTies
  <2> HIDE DEF d
  <2> QED
    BY <2>1, <2>5, TiesAgain, CalmLinks
<1>7. CASE StaleAuthority
  <2>1. Step(RequestRecovery(client, FALSE)) /\ UNCHANGED <<topic, replies, wire>>
    BY <1>7 DEF StaleAuthority
  <2>2. Ties(client, RequestRecovery(client, FALSE))
    BY <1>1, RequestRecoveryTies
  <2> QED
    BY <2>1, <2>2, CalmLinks
<1> QED
  BY <1>2, <1>3, <1>4, <1>5, <1>6, <1>7

\* A page that closes cancels what it serves: it is older than any ACK to come.
LEMMA CloseLinks ==
  ASSUME LinkInv, UNCHANGED topic, Close
  PROVE  GoodLink'
<1> DEFINE b == NewGeneration(DiscardRecovery(client))
           c == [b EXCEPT !.status = "closed", !.sub = None, !.retry = "none", !.awaiting = NoAwait, !.based = FALSE]
           e == [c EXCEPT !.active = None, !.decoder = FreshDecoder]
           s == client.sub
           left == Unsubscribe(e, s)
           d == IF s = None THEN c ELSE left
<1>1. Step(d) /\ UNCHANGED <<topic, replies, wire>>
  BY DEF Close
<1>2. IInv /\ Linked(client, Line, Acks, Held, nextSub) /\ Line \in Seq(Item)
  BY LineTyped DEF LinkInv, GoodLink, Line
<1>3. Typed(client) /\ s \in Nat /\ nextSub \in Nat /\ s < nextSub /\ \A a \in Acks : s < a.sub
  <2>1. Typed(client)
    BY <1>2 DEF IInv, ClientTyped
  <2>2. s \in Nat
    BY <2>1, ViewTyped
  <2>3. nextSub \in Nat /\ s < nextSub
    BY <1>2 DEF IInv, Subscribed, GoodClient, Good
  <2>4. ASSUME NEW a \in Acks PROVE s < a.sub
    <3>1. a.sub \in Nat
      BY <1>2 DEF IInv, WayClear, OnTheWay, Named, Logged
    <3>2. a.sub > s
      BY <1>2 DEF IInv, GoodClient, Good, AcksGood
    <3> QED
      BY <2>2, <3>1, <3>2
  <2> QED
    BY <2>1, <2>2, <2>3, <2>4
<1>4. Ties(client, b) /\ Counting(b) = {} /\ Typed(b) /\ b.recovery = NoRecovery
  BY <1>3, AllOutdatedTies DEF Ties
<1> HIDE DEF b, s
<1>5. /\ c \in Client /\ c.calls = b.calls /\ c.out = b.out /\ c.status = "closed"
      /\ c.decoder = b.decoder /\ c.recovery = NoRecovery
  BY <1>4 DEF Typed, Client, NoAwait, None, Status
<1>6. FreshDecoder \in Decoder
  BY DEF FreshDecoder, Decoder
<1>7. /\ e \in Client /\ e.calls = b.calls /\ e.out = b.out /\ e.status = "closed"
      /\ e.decoder = FreshDecoder /\ e.recovery = NoRecovery
  BY <1>5, <1>6 DEF Client, None
<1> HIDE DEF c, e
<1>8. Typed(c) /\ Typed(e)
  BY <1>4, <1>5, <1>7 DEF Typed, FreshDecoder
<1>9. Held' = Held
  BY <1>1 DEF Held, Unheard, topic
<1>10. Linked(b, Line, Acks, Held, nextSub)
  BY <1>2, <1>4 DEF Ties, Links
<1>11. Linked(c, Line, Acks, Held, nextSub) /\ Linked(e, Line, Acks, Held, nextSub)
  <2>1. c.status # "live" /\ e.status # "live"
    BY <1>5, <1>7
  <2> QED
    BY <1>4, <1>5, <1>7, <1>10, <2>1, QuietLinked
<1>12. Linked(left, Line, Acks, Held, nextSub) /\ Typed(left)
  <2>1. Typed(left)
    BY <1>3, <1>8, UnsubscribeCalm DEF Calms
  <2>2. e.status # "live"
    BY <1>7
  <2> HIDE DEF left
  <2>3. Linked(Unsubscribe(e, s), Line, Acks, Held, nextSub)
    BY <1>2, <1>3, <1>8, <1>11, <2>2, UnsubscribeLinked
  <2> QED
    BY <2>1, <2>3 DEF left
<1> HIDE DEF left
<1>13. Linked(d, Line, Acks, Held', nextSub) /\ Typed(d)
  BY <1>8, <1>9, <1>11, <1>12
<1> HIDE DEF d
<1> QED
  BY <1>1, <1>13, OthersLink

\* A step of the store.
LEMMA StoreLinks ==
  ASSUME LinkInv, Store, UNCHANGED topic
  PROVE  LinkInv'
<1>1. GoodLink'
  BY ReplyLinks, WireLinks, TimerLinks, CloseLinks DEF Store
<1>2. IInv'
  BY StoreKeeps DEF LinkInv
<1>3. HostFollows'
  BY DEF LinkInv, HostFollows, topic
<1> QED
  BY <1>1, <1>2, <1>3 DEF LinkInv

----------------------------------------------------------------------------
(* What the agent does to the line.                                          *)

\* A request becomes its outcome, and that the reply: none becomes a subscribe.
Becomes(x, y) ==
  /\ Asks(y) => Asks(x) /\ y.id = x.id /\ (Subs(y) => Subs(x))
  /\ ~Asks(y) => ~Asks(x) /\ y.sub = x.sub
\* t is s with some left out, and some become others, in their order.
Picks(h, s, t) ==
  /\ \A i \in 1..Len(t) : h[i] \in 1..Len(s) /\ Becomes(s[h[i]], t[i])
  /\ \A i, j \in 1..Len(t) : i < j => h[i] < h[j]
Thins(s, t) == \E h : Picks(h, s, t)

\* A line that is thinned is one.
LEMMA ThinsLined ==
  ASSUME NEW s, NEW t, Thins(s, t), NEW c, NEW A, NEW n, Lined(s, c, A, n)
  PROVE  Lined(t, c, A, n)
<1>1. PICK h : Picks(h, s, t)
  BY DEF Thins
<1>2. /\ \A i \in 1..Len(t) : h[i] \in 1..Len(s) /\ Becomes(s[h[i]], t[i])
      /\ \A i, j \in 1..Len(t) : i < j => h[i] < h[j]
  BY <1>1 DEF Picks
<1>3. \A i \in 1..Len(t) : Asks(t[i]) => Asks(s[h[i]]) /\ t[i].id = s[h[i]].id
  BY <1>2 DEF Becomes
<1>4. \A i \in 1..Len(t) : Subs(t[i]) => Subs(s[h[i]]) /\ t[i].id = s[h[i]].id
  BY <1>2 DEF Becomes, Asks, Subs
<1>5. AskedOnce(t)
  <2> SUFFICES ASSUME NEW i \in 1..Len(t), NEW j \in 1..Len(t), i < j, Asks(t[i]), Asks(t[j])
               PROVE  t[i].id # t[j].id
    BY DEF AskedOnce
  <2>1. h[i] \in 1..Len(s) /\ h[j] \in 1..Len(s) /\ h[i] < h[j]
    BY <1>2
  <2>2. s[h[i]].id # s[h[j]].id
    BY <1>3, <2>1 DEF Lined, AskedOnce
  <2> QED
    BY <1>3, <2>2
<1>6. HasCall(t, c)
  <2> SUFFICES ASSUME NEW i \in 1..Len(t), Asks(t[i])
               PROVE  \E k \in c.calls : k.id = t[i].id /\ (Subs(t[i]) => k.of = "subscribe")
    BY DEF HasCall
  <2>1. h[i] \in 1..Len(s) /\ Asks(s[h[i]]) /\ s[h[i]].id = t[i].id
    BY <1>2, <1>3
  <2>2. PICK k \in c.calls : k.id = s[h[i]].id /\ (Subs(s[h[i]]) => k.of = "subscribe")
    BY <2>1 DEF Lined, HasCall
  <2>3. Subs(t[i]) => Subs(s[h[i]])
    BY <1>4
  <2> QED
    BY <2>1, <2>2, <2>3
<1>7. CountsLast(t, c)
  BY <1>2, <1>4 DEF Lined, CountsLast
<1>8. LiveIsLast(t, c)
  BY <1>2, <1>4 DEF Lined, LiveIsLast
<1>9. CancelsOld(t, c, A, n)
  <2>1. \A i \in 1..Len(t) : ~Asks(t[i]) => ~Asks(s[h[i]]) /\ t[i].sub = s[h[i]].sub
    BY <1>2 DEF Becomes
  <2> QED
    BY <1>2, <2>1 DEF Lined, CancelsOld
<1> QED
  BY <1>5, <1>6, <1>7, <1>8, <1>9 DEF Lined

\* Nothing, all or one of it may be left as it is.
LEMMA ThinsSelf == ASSUME NEW s PROVE Thins(s, s)
<1> DEFINE h == [i \in 1..Len(s) |-> i]
<1>1. \A i \in 1..Len(s) : h[i] = i
  OBVIOUS
<1>2. \A x : Becomes(x, x)
  BY DEF Becomes
<1> HIDE DEF h
<1>3. Picks(h, s, s)
  BY <1>1, <1>2 DEF Picks
<1> QED
  BY <1>3 DEF Thins

\* Likewise.
LEMMA ThinsToNothing == ASSUME NEW s PROVE Thins(s, <<>>)
<1> DEFINE none == <<>>
<1>1. \A i \in 1..Len(none) : FALSE
  OBVIOUS
<1> HIDE DEF none
<1>2. Picks(none, s, none)
  BY <1>1 DEF Picks
<1> QED
  BY <1>2 DEF Thins, none

\* Likewise.
LEMMA ThinsOne ==
  ASSUME NEW x, NEW y, Becomes(x, y)
  PROVE  Thins(<<x>>, <<y>>)
<1> DEFINE h == [i \in 1..1 |-> 1]
           s == <<x>>
           t == <<y>>
<1>1. Len(s) = 1 /\ Len(t) = 1 /\ s[1] = x /\ t[1] = y /\ h[1] = 1
  OBVIOUS
<1> HIDE DEF h, s, t
<1>2. \A i \in 1..Len(t) : i = 1 /\ 1 \in 1..Len(s)
  BY <1>1
<1>3. Picks(h, s, t)
  BY <1>1, <1>2 DEF Picks
<1> QED
  BY <1>3 DEF Thins, s, t

\* Two stretches of the line, one behind the other.
LEMMA ThinsJoined ==
  ASSUME NEW S, NEW s \in Seq(S), NEW t \in Seq(S), NEW u \in Seq(S), NEW v \in Seq(S),
         Thins(s, t), Thins(u, v)
  PROVE  Thins(s \o u, t \o v) /\ s \o u \in Seq(S) /\ t \o v \in Seq(S)
<1> DEFINE w == s \o u
           x == t \o v
           m == Len(s)
           n == Len(t)
<1>1. PICK h : Picks(h, s, t)
  BY DEF Thins
<1>2. PICK g : Picks(g, u, v)
  BY DEF Thins
<1>3. /\ w \in Seq(S) /\ x \in Seq(S) /\ m \in Nat /\ n \in Nat /\ Len(u) \in Nat /\ Len(v) \in Nat
      /\ Len(w) = m + Len(u) /\ Len(x) = n + Len(v)
      /\ \A i \in 1..m + Len(u) : w[i] = IF i <= m THEN s[i] ELSE u[i - m]
      /\ \A i \in 1..n + Len(v) : x[i] = IF i <= n THEN t[i] ELSE v[i - n]
  BY ConcatProperties, LenProperties
<1> DEFINE k == [i \in 1..Len(x) |-> IF i <= n THEN h[i] ELSE m + g[i - n]]
<1>4. \A i \in 1..Len(x) : k[i] = IF i <= n THEN h[i] ELSE m + g[i - n]
  OBVIOUS
<1>5. /\ \A i \in 1..n : h[i] \in 1..m /\ Becomes(s[h[i]], t[i])
      /\ \A i, j \in 1..n : i < j => h[i] < h[j]
      /\ \A i \in 1..Len(v) : g[i] \in 1..Len(u) /\ Becomes(u[g[i]], v[i])
      /\ \A i, j \in 1..Len(v) : i < j => g[i] < g[j]
  BY <1>1, <1>2 DEF Picks
<1> HIDE DEF k, w, x, m, n
<1>6. ASSUME NEW i \in 1..Len(x) PROVE k[i] \in 1..Len(w) /\ Becomes(w[k[i]], x[i])
  <2>1. CASE i <= n
    <3>1. i \in 1..n /\ i \in 1..n + Len(v)
      BY <1>3, <2>1
    <3>11. k[i] = h[i] /\ x[i] = t[i] /\ h[i] \in 1..m
      BY <1>3, <1>4, <1>5, <2>1, <3>1
    <3>12. h[i] \in 1..m + Len(u) /\ h[i] <= m
      BY <1>3, <3>11
    <3>2. w[h[i]] = s[h[i]] /\ h[i] \in 1..Len(w)
      BY <1>3, <3>12
    <3> QED
      BY <1>5, <3>1, <3>11, <3>2
  <2>2. CASE ~(i <= n)
    <3>1. i - n \in 1..Len(v) /\ k[i] = m + g[i - n] /\ x[i] = v[i - n]
      BY <1>3, <1>4, <2>2
    <3>2. g[i - n] \in 1..Len(u)
      BY <1>5, <3>1
    <3>20. ASSUME NEW a \in Nat, NEW b \in Nat, NEW p \in 1..b
           PROVE  a + p \in 1..a + b /\ ~(a + p <= a) /\ (a + p) - a = p
      OBVIOUS
    <3>21. k[i] \in 1..m + Len(u) /\ ~(k[i] <= m) /\ k[i] - m = g[i - n]
      <4>1. m \in Nat /\ Len(u) \in Nat
        BY <1>3
      <4> QED
        BY <3>1, <3>2, <3>20, <4>1
    <3>3. k[i] \in 1..Len(w) /\ w[k[i]] = u[g[i - n]]
      BY <1>3, <3>21
    <3> QED
      BY <1>5, <3>1, <3>3
  <2> QED
    BY <2>1, <2>2
<1>7. ASSUME NEW i \in 1..Len(x), NEW j \in 1..Len(x), i < j PROVE k[i] < k[j]
  <2>1. CASE j <= n
    <3>1. i \in 1..n /\ j \in 1..n
      BY <1>3, <1>7, <2>1
    <3> QED
      BY <1>3, <1>4, <1>5, <1>7, <3>1
  <2>2. CASE i <= n /\ ~(j <= n)
    <3>1. i \in 1..n /\ j - n \in 1..Len(v)
      BY <1>3, <1>7, <2>2
    <3>2. k[i] = h[i] /\ h[i] \in 1..m /\ k[j] = m + g[j - n] /\ g[j - n] \in 1..Len(u)
      BY <1>4, <1>5, <2>2, <3>1
    <3>3. m \in Nat /\ Len(u) \in Nat
      BY <1>3
    <3>4. ASSUME NEW a \in 1..m, NEW b \in 1..Len(u) PROVE a < m + b
      BY <3>3
    <3>5. h[i] < m + g[j - n]
      BY <3>2, <3>4
    <3> QED
      BY <3>2, <3>5
  <2>3. CASE ~(i <= n)
    <3>1. i - n \in 1..Len(v) /\ j - n \in 1..Len(v) /\ i - n < j - n /\ ~(j <= n)
      BY <1>3, <1>7, <2>3
    <3>2. k[i] = m + g[i - n] /\ k[j] = m + g[j - n] /\ g[i - n] < g[j - n]
          /\ g[i - n] \in Int /\ g[j - n] \in Int
      BY <1>4, <1>5, <2>3, <3>1
    <3>3. m \in Nat
      BY <1>3
    <3>4. ASSUME NEW a \in Int, NEW b \in Int, a < b PROVE m + a < m + b
      BY <3>3, <3>4
    <3>5. m + g[i - n] < m + g[j - n]
      BY <3>2, <3>4
    <3> QED
      BY <3>2, <3>5
  <2> QED
    BY <2>1, <2>2, <2>3
<1>8. Picks(k, w, x)
  BY <1>6, <1>7 DEF Picks
<1> QED
  BY <1>3, <1>8 DEF Thins, w, x

----------------------------------------------------------------------------
\* The line is thinned, and the ACKs in it are of those there were.
Covers(A, B) == \A b \in B : \E a \in A : a.id = b.id /\ a.sub = b.sub

\* Fewer ACKs, or the same ones as replies.
LEMMA CoveredLined ==
  ASSUME NEW M, NEW c, NEW A, NEW n, Lined(M, c, A, n), NEW B, Covers(A, B)
  PROVE  Lined(M, c, B, n)
<1>1. CancelsOld(M, c, B, n)
  <2> SUFFICES ASSUME NEW i \in 1..Len(M), ~Asks(M[i])
               PROVE  /\ M[i].sub < n /\ \A b \in B : M[i].sub < b.sub
                      /\ c.status = "live" => M[i].sub < c.sub
    BY DEF CancelsOld
  <2> QED
    BY DEF Lined, CancelsOld, Covers
<1> QED
  BY <1>1 DEF Lined

\* Likewise.
LEMMA CoveredOwns ==
  ASSUME NEW c, NEW A, NEW B, Covers(A, B), NEW S, NEW T, S \subseteq T, Owns(c, A, S)
  PROVE  Owns(c, B, T)
<1>1. \A b \in B : \E k \in c.calls : k.id = b.id
  BY DEF Covers, Owns
<1>2. \A b \in B : b.id \in Counting(c) => b.sub \in T
  BY DEF Covers, Owns
<1> QED
  BY <1>1, <1>2 DEF Owns

\* What a step of the agent has to show.
LEMMA AgentLinks ==
  ASSUME LinkInv, UNCHANGED client, Thins(Line, Line'), Line' \in Seq(Item),
         Covers(Acks, Acks'), Owns(client, Acks', Held'), nextSub' = nextSub
  PROVE  GoodLink'
<1> DEFINE L == Line
           M == Line'
           A == Acks
           B == Acks'
           T == Held'
           none == <<>>
<1>1. IInv /\ Linked(client, L, A, Held, nextSub) /\ L \in Seq(Item)
  BY LineTyped DEF LinkInv, GoodLink, Line
<1>2. client.out = none
  BY <1>1 DEF IInv, ClientTyped, Fresh
<1> HIDE DEF L, M, A, B, T
<1>3. L \o none = L /\ M \o none = M
  BY <1>1 DEF M
<1> HIDE DEF none
<1>4. OneCounts(client) /\ Lined(L, client, A, nextSub)
  BY <1>1, <1>2, <1>3 DEF Linked
<1>5. Lined(M, client, A, nextSub)
  BY <1>4, ThinsLined DEF L, M
<1>6. Lined(M, client, B, nextSub)
  BY <1>5, CoveredLined DEF A, B
<1>7. Linked(client, M, B, T, nextSub)
  BY <1>2, <1>3, <1>4, <1>6 DEF Linked, B, T
<1> QED
  BY <1>7 DEF GoodLink, M, B, T

\* A step that takes no request and answers none.
AgentCalm ==
  /\ UNCHANGED <<client, requests, replies, pending, nextSub>>
  /\ sub'.id = sub.id /\ (sub = NoSub => sub' = NoSub)
  /\ Unheard => Unheard'

\* What the agent serves is named.
LEMMA HeldTyped ==
  ASSUME IInv
  PROVE  /\ sub.id \in Nat /\ sub.id \in Held
         /\ sub # NoSub => sub.id = nextSub - 1 /\ sub.id # None
<1>1. sub.id \in Nat
  BY DEF IInv, Subscribed, Subscription, NoSub, None
<1> QED
  BY <1>1 DEF Held, IInv, Serving

\* It keeps the link, and the host follows if the route is the same.
LEMMA CalmAgentLinks ==
  ASSUME LinkInv, AgentCalm
  PROVE  GoodLink' /\ (route' = route => HostFollows')
<1>1. /\ UNCHANGED <<client, requests, replies, pending, nextSub>>
      /\ sub'.id = sub.id /\ (sub = NoSub => sub' = NoSub)
      /\ Unheard => Unheard'
  BY DEF AgentCalm
<1>2. IInv /\ HostFollows /\ Linked(client, Line, Acks, Held, nextSub) /\ Line \in Seq(Item)
  BY LineTyped DEF LinkInv, GoodLink, Line
<1>3. Line' = Line /\ Acks' = Acks
  BY <1>1 DEF Line, Behind, Answer, Acks, IsAck
<1>4. sub.id \in Nat /\ (sub # NoSub => sub.id # None)
  BY <1>2, HeldTyped
<1>5. Held \subseteq Held'
  BY <1>1, <1>4 DEF Held
<1>6. Owns(client, Acks', Held')
  <2> DEFINE T == Held'
  <2> HIDE DEF T
  <2>1. Held \subseteq T
    BY <1>5 DEF T
  <2>2. Covers(Acks, Acks)
    BY DEF Covers
  <2>3. Owns(client, Acks, T)
    BY <1>2, <2>1, <2>2, CoveredOwns DEF Linked
  <2> QED
    BY <1>3, <2>3 DEF T
<1>7. Thins(Line, Line') /\ Line' \in Seq(Item) /\ Covers(Acks, Acks')
  BY <1>2, <1>3, ThinsSelf DEF Covers
<1>8. GoodLink'
  BY <1>1, <1>6, <1>7, AgentLinks
<1>9. sub' = NoSub <=> sub = NoSub
  BY <1>1, <1>4 DEF NoSub
<1>10. route' = route => HostFollows'
  BY <1>1, <1>2, <1>9 DEF HostFollows
<1> QED
  BY <1>8, <1>10

\* The wire with more on it.
LEMMA UnheardGrows ==
  ASSUME IInv, NEW w \in Seq(Message), wire' = wire \o w
  PROVE  Unheard => Unheard'
<1>1. wire \in Seq(Message)
  BY DEF IInv, Channelled
<1>2. /\ Len(wire) \in Nat /\ Len(w) \in Nat /\ Len(wire') = Len(wire) + Len(w)
      /\ \A i \in 1..Len(wire) + Len(w) : wire'[i] = IF i <= Len(wire) THEN wire[i] ELSE w[i - Len(wire)]
  BY <1>1, ConcatProperties
<1>3. \A i \in 1..Len(wire) : i \in 1..Len(wire') /\ wire'[i] = wire[i]
  BY <1>2
<1> QED
  BY <1>3 DEF Unheard

\* Flushes, and most other steps of the agent, are such.
LEMMA FlushCalm ==
  ASSUME IInv, Flush \/ UNCHANGED <<sub, wire>>,
         UNCHANGED <<client, requests, replies, pending, nextSub>>
  PROVE  AgentCalm
<1>1. CASE UNCHANGED <<sub, wire>>
  BY <1>1 DEF AgentCalm, Unheard
<1>2. CASE sub # NoSub /\ sub' = Flushed(sub) /\ wire' = wire \o FlushFrames(sub)
  <2>1. sub \in Subscription
    BY <1>2 DEF IInv, Subscribed
  <2>2. sub'.id = sub.id
    BY <1>2, <2>1 DEF Flushed, Subscription
  <2>3. FlushFrames(sub) \in Seq(Message)
    <3>1. FlushFrames(sub) \in Seq(TopicFrame)
      <4> DEFINE f == SnapshotFrame(sub, "online")
                 g == DeltaFrame(sub, "online", sub.sent, sub.buffer)
                 none == <<>>
      <4>1. "online" \in Kind
        BY DEF Kind
      <4>2. sub.sent \in Nat /\ sub.buffer \in Seq(Event)
        BY <2>1 DEF Subscription
      <4>3. f \in TopicFrame /\ g \in TopicFrame
        BY <1>2, <4>1, <4>2, FramesTyped
      <4>4. FlushFrames(sub) \in {<<f>>, <<g>>, none}
        BY DEF FlushFrames
      <4> HIDE DEF f, g
      <4>5. none \in Seq(TopicFrame) /\ <<f>> \in Seq(TopicFrame) /\ <<g>> \in Seq(TopicFrame)
        BY <4>3, EmptySeq
      <4> HIDE DEF none
      <4> QED
        BY <4>4, <4>5
    <3>2. TopicFrame \subseteq Message
      BY DEF Message
    <3> QED
      BY <3>1, <3>2, SeqMonotonic
  <2>4. Unheard => Unheard'
    BY <1>2, <2>3, UnheardGrows
  <2> QED
    BY <1>2, <2>2, <2>4 DEF AgentCalm
<1> QED
  BY <1>1, <1>2 DEF Flush

\* Likewise.
LEMMA AgentsCalm ==
  ASSUME IInv, UNCHANGED client,
         Ingest \/ FlushTimer \/ Saturate \/ ResumeFlow \/ Rehydrate \/ FlushRehydrated
  PROVE  AgentCalm /\ route' = route
<1>1. CASE Ingest
  <2>1. /\ UNCHANGED <<client, requests, replies, pending, nextSub, wire, route>>
        /\ \/ sub' = sub
           \/ sub # NoSub /\ \E b : sub' = [sub EXCEPT !.buffer = b]
           \/ sub # NoSub /\ sub' = [sub EXCEPT !.buffer = <<>>, !.resync = TRUE]
    BY <1>1 DEF Ingest, channels
  <2>2. sub # NoSub => sub \in Subscription
    BY DEF IInv, Subscribed
  <2>3. sub'.id = sub.id /\ (sub = NoSub => sub' = NoSub)
    BY <2>1, <2>2 DEF Subscription
  <2>4. Unheard => Unheard'
    BY <2>1 DEF Unheard
  <2> QED
    BY <2>1, <2>3, <2>4 DEF AgentCalm
<1>2. CASE FlushTimer \/ ResumeFlow \/ FlushRehydrated
  BY <1>2, FlushCalm DEF FlushTimer, ResumeFlow, FlushRehydrated
<1>3. CASE Saturate
  BY <1>3 DEF Saturate, AgentCalm, Unheard
<1>4. CASE Rehydrate
  <2>1. /\ UNCHANGED <<client, requests, replies, pending, nextSub, wire, route>>
        /\ sub' = IF sub = NoSub THEN sub
                  ELSE [sub EXCEPT !.buffer = <<>>, !.resync = TRUE, !.sent = 0, !.reserved = None]
    BY <1>4 DEF Rehydrate
  <2>2. sub # NoSub => sub \in Subscription
    BY DEF IInv, Subscribed
  <2>3. sub'.id = sub.id /\ (sub = NoSub => sub' = NoSub)
    BY <2>1, <2>2 DEF Subscription
  <2>4. Unheard => Unheard'
    BY <2>1 DEF Unheard
  <2> QED
    BY <2>1, <2>3, <2>4 DEF AgentCalm
<1> QED
  BY <1>1, <1>2, <1>3, <1>4

\* A runtime starts: there is no subscription, and the host routes none.
LEMMA SpawnLinks ==
  ASSUME LinkInv, Spawn, UNCHANGED client
  PROVE  GoodLink' /\ HostFollows'
<1> DEFINE w == (IF epoch = 0 THEN <<>> ELSE <<[type |-> "restarted"]>>) \o <<[type |-> "available"]>>
<1>1. /\ ~up /\ wire' = wire \o w
      /\ UNCHANGED <<client, sub, nextSub, pending, requests, replies>>
  <2>1. /\ ~up
        /\ wire' = wire \o (IF epoch = 0 THEN <<>> ELSE <<[type |-> "restarted"]>>) \o <<[type |-> "available"]>>
        /\ UNCHANGED <<client, sub, nextSub, pending, requests, replies>>
    BY DEF Spawn
  <2> DEFINE a == IF epoch = 0 THEN <<>> ELSE <<[type |-> "restarted"]>>
             b == <<[type |-> "available"]>>
  <2>2. a \in Seq(Message) /\ b \in Seq(Message) /\ wire \in Seq(Message)
    <3>1. [type |-> "restarted"] \in Message /\ [type |-> "available"] \in Message
      BY DEF Message
    <3>2. wire \in Seq(Message)
      BY DEF LinkInv, IInv, Channelled
    <3> DEFINE  x == [type |-> "restarted"]
               y == [type |-> "available"]
    <3> HIDE DEF x, y
    <3>3. <<x>> \in Seq(Message) /\ <<y>> \in Seq(Message)
      BY <3>1 DEF x, y
    <3> QED
      BY <3>2, <3>3, EmptySeq DEF x, y
  <2>3. wire' = (wire \o a) \o b /\ w = a \o b
    BY <2>1
  <2> HIDE DEF a, b, w
  <2>4. (wire \o a) \o b = wire \o (a \o b)
    BY <2>2, ConcatAssociative
  <2> QED
    BY <2>1, <2>3, <2>4
<1>2. IInv
  BY DEF LinkInv
<1>3. w \in Seq(Message)
  <2>1. [type |-> "restarted"] \in Message /\ [type |-> "available"] \in Message
    BY DEF Message
  <2> DEFINE x == [type |-> "restarted"]
             y == [type |-> "available"]
             a == IF epoch = 0 THEN <<>> ELSE <<x>>
             b == <<y>>
  <2>2. w = a \o b
    OBVIOUS
  <2> HIDE DEF x, y, w
  <2>3. a \in Seq(Message) /\ b \in Seq(Message)
    BY <2>1, EmptySeq DEF x, y
  <2> HIDE DEF a, b
  <2> QED
    BY <2>2, <2>3, ConcatProperties
<1> HIDE DEF w
<1>4. AgentCalm
  BY <1>1, <1>2, <1>3, UnheardGrows DEF AgentCalm
<1>5. pending = NoReply /\ sub = NoSub
  BY <1>1, <1>2 DEF IInv, PendingUp, Serving
<1>6. HostFollows'
  BY <1>1, <1>5 DEF HostFollows, NoReply
<1> QED
  BY <1>4, <1>6, CalmAgentLinks

\* A frame that is lost or sent again.
LEMMA DisturbedLinks ==
  ASSUME LinkInv, LoseFrame \/ RepeatFrame, UNCHANGED <<topic, client>>
  PROVE  GoodLink' /\ HostFollows'
<1>1. /\ IInv /\ wire \in Seq(Message) /\ wire # <<>> /\ Head(wire).type = "frame"
      /\ UNCHANGED <<client, requests, replies, pending, nextSub, sub, route>>
  BY DEF LinkInv, IInv, Channelled, LoseFrame, RepeatFrame, NextFrame, topic
<1>2. Unheard => Unheard'
  <2>1. CASE RepeatFrame
    <3>1. wire' = Append(wire, Head(wire)) /\ Head(wire) \in Message
      BY <1>1, <2>1 DEF RepeatFrame
    <3>2. wire' = wire \o <<Head(wire)>> /\ <<Head(wire)>> \in Seq(Message)
      BY <1>1, <3>1, AppendIsConcat
    <3> QED
      BY <1>1, <3>2, UnheardGrows
  <2>2. CASE LoseFrame
    <3>1. PICK damage : wire' = <<[Head(wire) EXCEPT !.damage = damage]>> \o Tail(wire)
      BY <2>2 DEF LoseFrame
    <3> DEFINE f == [Head(wire) EXCEPT !.damage = damage]
    <3>2. wire' = <<f>> \o Tail(wire)
      BY <3>1
    <3> HIDE DEF f
    <3>3. /\ Head(wire) = wire[1] /\ Len(wire) \in Nat \ {0}
          /\ \A i \in 2..Len(wire) : i \in 1..Len(wire') /\ wire'[i] = wire[i]
      <4> DEFINE t == Tail(wire)
      <4>1. /\ t \in Seq(Message) /\ Len(t) = Len(wire) - 1 /\ Len(wire) \in Nat \ {0}
            /\ \A i \in 1..Len(t) : t[i] = wire[i + 1]
            /\ Head(wire) = wire[1]
        BY <1>1, TailTyped
      <4> HIDE DEF t
      <4>2. Len(<<f>>) = 1 /\ Len(<<f>> \o t) = 1 + Len(t) /\ \A i \in 1..Len(t) : (<<f>> \o t)[1 + i] = t[i]
        BY <4>1
      <4>3. wire' = <<f>> \o t
        BY <3>2 DEF t
      <4>4. ASSUME NEW i \in 2..Len(wire) PROVE i \in 1..Len(wire') /\ wire'[i] = wire[i]
        <5>1. i - 1 \in 1..Len(t) /\ 1 + (i - 1) = i /\ (i - 1) + 1 = i /\ i \in 1..1 + Len(t)
          BY <4>1
        <5>2. wire'[1 + (i - 1)] = t[i - 1] /\ t[i - 1] = wire[(i - 1) + 1]
          BY <4>1, <4>2, <4>3, <5>1
        <5> QED
          BY <4>2, <4>3, <5>1, <5>2
      <4> QED
        BY <4>1, <4>4
    <3>4. ASSUME NEW i \in 1..Len(wire), wire[i].type = "unavailable" PROVE Unheard'
      <4>1. i # 1
        BY <1>1, <3>3, <3>4
      <4>2. i \in 2..Len(wire)
        BY <3>3, <4>1
      <4>3. i \in 1..Len(wire') /\ wire'[i].type = "unavailable"
        BY <3>3, <3>4, <4>2
      <4> QED
        BY <4>3 DEF Unheard
    <3> QED
      BY <3>4 DEF Unheard
  <2> QED
    BY <2>1, <2>2
<1>3. AgentCalm
  BY <1>1, <1>2 DEF AgentCalm
<1> QED
  BY <1>1, <1>3, CalmAgentLinks

----------------------------------------------------------------------------
\* The first request is taken, and its outcome - or nothing - takes its place.
LEMMA LineMoves ==
  ASSUME IInv, NEW type, Handling(type), replies' = replies, requests' = Tail(requests),
         NEW m \in Seq(Item), Answer' = m, Thins(<<Head(requests)>>, m)
  PROVE  Thins(Line, Line') /\ Line' \in Seq(Item)
<1> DEFINE r == Head(requests)
           t == Tail(requests)
           h == <<r>>
           none == <<>>
<1>1. /\ pending = NoReply /\ r \in Request /\ t \in Seq(Request) /\ requests # none /\ requests \in Seq(Request)
  BY RequestTaken DEF Handling, IInv, Channelled
<1>2. requests = h \o t /\ r \in Item
  BY <1>1 DEF Item
<1>3. /\ replies \in Seq(Item) /\ requests \in Seq(Item) /\ t \in Seq(Item)
      /\ Behind(replies) = replies \o (Answer \o requests)
  <2>1. replies \in Seq(Item) /\ Behind(replies) = replies \o (Answer \o requests) /\ requests \in Seq(Item)
    BY LineTyped
  <2>2. t \in Seq(Item)
    BY <1>1 DEF Item
  <2> QED
    BY <2>1, <2>2
<1>4. h \in Seq(Item)
  BY <1>2
<1>5. Answer = none
  BY <1>1 DEF Answer
<1>6. Line' = (replies \o m) \o t
  <2>1. Line' = (replies' \o Answer') \o requests'
    BY DEF Line, Behind
  <2> HIDE DEF t
  <2> QED
    BY <2>1 DEF t
<1> HIDE DEF r, t, h, none
<1>7. none \o requests = requests
  BY <1>3 DEF none
<1>8. Line = replies \o (h \o t)
  <2>1. Answer \o requests = h \o t
    BY <1>2, <1>5, <1>7
  <2>2. Line = replies \o (Answer \o requests)
    BY <1>3 DEF Line
  <2> QED
    BY <2>1, <2>2
<1>9. Line' = replies \o (m \o t)
  <2>0. replies \in Seq(Item) /\ t \in Seq(Item)
    BY <1>3
  <2>1. (replies \o m) \o t = replies \o (m \o t)
    BY <2>0, ConcatAssociative
  <2> QED
    BY <1>6, <2>1
<1>10. Thins(h \o t, m \o t) /\ h \o t \in Seq(Item) /\ m \o t \in Seq(Item)
  <2>1. Thins(t, t) /\ Thins(h, m)
    BY ThinsSelf DEF h, r
  <2> QED
    BY <1>3, <1>4, <2>1, ThinsJoined
<1> DEFINE u == h \o t
           v == m \o t
<1> HIDE DEF u, v
<1>11. Thins(replies, replies)
  BY ThinsSelf
<1>12. Thins(replies \o u, replies \o v) /\ replies \o v \in Seq(Item)
  BY <1>3, <1>10, <1>11, ThinsJoined DEF u, v
<1> QED
  BY <1>8, <1>9, <1>12 DEF u, v

\* Where it is in the line: behind the replies.
LEMMA RequestPlace ==
  ASSUME IInv, NEW type, Handling(type)
  PROVE  /\ Len(replies) \in Nat /\ Len(replies) + 1 \in 1..Len(Line)
         /\ Line[Len(replies) + 1] = Head(requests)
         /\ \A i \in 1..Len(replies) : i \in 1..Len(Line) /\ Line[i] = replies[i]
<1> DEFINE r == Head(requests)
           t == requests
           none == <<>>
<1>1. replies \in Seq(Item) /\ Line = replies \o (Answer \o t) /\ t \in Seq(Item) /\ Answer = none
  BY RequestTaken, LineTyped DEF Line, Answer
<1>2. none \o t = t
  BY <1>1
<1>3. t[1] = r /\ Len(t) \in Nat \ {0}
  BY DEF Handling, IInv, Channelled
<1> HIDE DEF t, none, r
<1>4. Line = replies \o t
  BY <1>1, <1>2
<1>5. Len(replies) \in Nat /\ Len(replies) + 1 \in 1..Len(replies) + Len(t) /\ (Len(replies) + 1) - Len(replies) = 1
  BY <1>1, <1>3
<1>6. /\ Len(replies \o t) = Len(replies) + Len(t)
      /\ \A i \in 1..Len(replies) + Len(t) : (replies \o t)[i] = IF i <= Len(replies) THEN replies[i] ELSE t[i - Len(replies)]
  BY <1>1, ConcatProperties
<1>7. Len(replies) + 1 \in 1..Len(Line) /\ Line[Len(replies) + 1] = r
  BY <1>3, <1>4, <1>5, <1>6
<1>8. \A i \in 1..Len(replies) : i \in 1..Len(Line) /\ Line[i] = replies[i]
  BY <1>3, <1>4, <1>5, <1>6
<1> QED
  BY <1>5, <1>7, <1>8 DEF r

\* A request that is answered: the line is thinned, and may have one more ACK.
LEMMA OutcomeMoves ==
  ASSUME IInv, IInv', NEW type, Handling(type), replies' = replies, requests' = Tail(requests),
         pending'.type # "none", Becomes(Head(requests), pending')
  PROVE  /\ Thins(Line, Line') /\ Line' \in Seq(Item)
         /\ Acks' = Acks \cup (IF IsAck(pending') THEN {pending'} ELSE {})
<1> DEFINE p == pending'
<1>1. p \in Item /\ p # NoReply
  BY DEF IInv, Channelled, Item, NoReply
<1>2. Answer' = <<p>>
  BY <1>1 DEF Answer
<1>3. Acks' = {a \in ToSet(replies) \cup {p} : IsAck(a)}
  BY DEF Acks, IsAck
<1>4. Acks = {a \in ToSet(replies) : IsAck(a)}
  BY RequestTaken
<1> HIDE DEF p
<1>5. Becomes(Head(requests), p)
  BY DEF p
<1>6. Thins(<<Head(requests)>>, <<p>>) /\ <<p>> \in Seq(Item)
  BY <1>1, <1>5, ThinsOne
<1>7. Thins(Line, Line') /\ Line' \in Seq(Item)
  BY <1>2, <1>6, LineMoves
<1>8. Acks' = Acks \cup (IF IsAck(p) THEN {p} ELSE {})
  BY <1>3, <1>4
<1> QED
  BY <1>7, <1>8 DEF p

\* resync goes on with the same subscription.
LEMMA ResyncLinks ==
  ASSUME LinkInv, HandleResync, UNCHANGED client
  PROVE  GoodLink' /\ HostFollows'
<1> DEFINE r == Head(requests)
<1>1. /\ Handling("resync") /\ requests' = Tail(requests) /\ UNCHANGED <<nextSub, route, replies, wire>>
      /\ pending'.type \in {"resynced", "failed"} /\ pending'.id = r.id
      /\ \/ sub' = sub
         \/ /\ r.sub = sub.id
            /\ \E x, y : sub' = [sub EXCEPT !.buffer = <<>>, !.resync = FALSE, !.sent = x,
                                            !.reserved = y, !.ord = @ + 1]
  <2> DEFINE mode == IF ~r.force /\ Resumable(r.base) THEN "resume" ELSE "snapshot"
             frame == IF mode = "snapshot" THEN SnapshotFrame(sub, "recovery")
                      ELSE DeltaFrame(sub, "recovery", r.base.seq, Shown(log, r.base.seq, currentSeq))
  <2>1. /\ Handling("resync") /\ requests' = Tail(requests) /\ UNCHANGED <<nextSub, route, replies, wire>>
        /\ \/ /\ r.sub = sub.id
              /\ sub' = [sub EXCEPT !.buffer = <<>>, !.resync = FALSE, !.sent = frame.from,
                                    !.reserved = frame.ord, !.ord = @ + 1]
              /\ pending' = [type |-> "resynced", id |-> r.id, sub |-> r.sub, mode |-> mode,
                             epoch |-> epoch, frame |-> frame]
           \/ /\ pending' = [type |-> "failed", id |-> r.id, why |-> "notOwned", frame |-> NoFrame]
              /\ sub' = sub
    BY DEF HandleResync
  <2> DEFINE x == frame.from
             y == frame.ord
  <2>2. \/ sub' = [sub EXCEPT !.buffer = <<>>, !.resync = FALSE, !.sent = x, !.reserved = y, !.ord = @ + 1]
        \/ sub' = sub
    BY <2>1
  <2>3. pending'.type \in {"resynced", "failed"} /\ pending'.id = r.id
    <3> HIDE DEF mode, frame, r
    <3> QED
      BY <2>1
  <2>4. sub' = sub \/ r.sub = sub.id
    BY <2>1
  <2> HIDE DEF mode, frame, r, x, y
  <2>5. \/ sub' = sub
        \/ /\ r.sub = sub.id
           /\ sub' = [sub EXCEPT !.buffer = <<>>, !.resync = FALSE, !.sent = x, !.reserved = y, !.ord = @ + 1]
    BY <2>2, <2>4
  <2> QED
    BY <2>1, <2>3, <2>5
<1>2. IInv /\ HostFollows /\ IInv'
  BY ResyncKeeps DEF LinkInv
<1>3. pending = NoReply /\ r \in Request /\ r.type = "resync"
  BY <1>1, <1>2, RequestTaken
<1>4. sub'.id = sub.id /\ (sub' = NoSub <=> sub = NoSub)
  <2>1. CASE sub' = sub
    BY <2>1
  <2>2. CASE sub' # sub
    <3>1. r.sub \in Nat \ {0} /\ r.sub = sub.id
      BY <1>1, <1>3, <2>2 DEF Request
    <3>2. sub # NoSub /\ sub \in Subscription
      BY <1>2, <3>1 DEF NoSub, None, IInv, Subscribed
    <3>3. sub'.id = sub.id
      BY <1>1, <2>2, <3>2 DEF Subscription
    <3>4. sub' # NoSub
      BY <3>1, <3>3 DEF NoSub, None
    <3> QED
      BY <3>2, <3>3, <3>4
  <2> QED
    BY <2>1, <2>2
<1>5. Becomes(r, pending')
  BY <1>1, <1>3 DEF Becomes, Asks, Subs
<1>6. Thins(Line, Line') /\ Line' \in Seq(Item) /\ Acks' = Acks
  <2>1. ~IsAck(pending')
    BY <1>1 DEF IsAck
  <2> QED
    BY <1>1, <1>2, <1>5, <2>1, OutcomeMoves
<1>7. Held' = Held
  BY <1>1, <1>4 DEF Held, Unheard
<1>8. GoodLink'
  <2>1. Owns(client, Acks', Held') /\ Covers(Acks, Acks')
    BY <1>6, <1>7 DEF LinkInv, GoodLink, Linked, Covers
  <2> QED
    BY <1>1, <1>6, <2>1, AgentLinks
<1>9. HostFollows'
  BY <1>1, <1>2, <1>3, <1>4 DEF HostFollows, NoReply
<1> QED
  BY <1>8, <1>9

\* A late cancellation does not end what a live page is served, or will be.
LEMMA UnsubscribeLinks ==
  ASSUME LinkInv, HandleUnsubscribe, UNCHANGED client
  PROVE  GoodLink' /\ HostFollows'
<1> DEFINE r == Head(requests)
           A == Acks
           T == Held'
           none == <<>>
<1>1. /\ Handling("unsubscribe") /\ requests' = Tail(requests) /\ UNCHANGED <<nextSub, pending, replies, wire>>
      /\ sub' = IF r.sub = route /\ r.sub = sub.id THEN NoSub ELSE sub
      /\ route' = IF r.sub = route THEN None ELSE route
  BY DEF HandleUnsubscribe
<1>2. IInv /\ HostFollows /\ Linked(client, Line, A, Held, nextSub) /\ Line \in Seq(Item)
  BY LineTyped DEF LinkInv, GoodLink, Line
<1>3. pending = NoReply /\ r \in Request /\ ~Asks(r)
  BY <1>1, <1>2, RequestTaken DEF Asks
<1>4. HostFollows'
  BY <1>1, <1>2, <1>3 DEF HostFollows, NoReply
<1>5. Thins(Line, Line') /\ Line' \in Seq(Item)
  <2>1. none \in Seq(Item) /\ Answer' = none
    BY <1>1, <1>3, EmptySeq DEF Answer
  <2>2. Thins(<<Head(requests)>>, none)
    BY ThinsToNothing
  <2> HIDE DEF none
  <2> QED
    BY <1>1, <1>2, <2>1, <2>2, LineMoves
<1>6. Acks' = A
  BY <1>1 DEF Acks, IsAck
<1>7. /\ \A a \in A : r.sub < a.sub /\ a.sub \in Nat
      /\ client.status = "live" => r.sub < client.sub /\ client.sub \in Nat
      /\ r.sub \in Nat
  <2>1. client.out = none
    BY <1>2 DEF IInv, ClientTyped, Fresh
  <2>2. CancelsOld(Line, client, A, nextSub)
    <3>1. Line \o none = Line
      BY <1>2
    <3> HIDE DEF none
    <3> QED
      BY <1>2, <2>1, <3>1 DEF Linked, Lined
  <2>3. \E i \in 1..Len(Line) : Line[i] = r
    BY <1>1, <1>2, RequestPlace
  <2>4. client.sub \in Nat
    BY <1>2, ViewTyped DEF IInv, ClientTyped
  <2>5. \A a \in A : a.sub \in Nat
    BY <1>2 DEF IInv, WayClear, OnTheWay, Named, Logged
  <2>6. r.sub \in Nat
    BY <1>3 DEF Request, Asks
  <2> HIDE DEF A, r
  <2> QED
    BY <1>3, <2>2, <2>3, <2>4, <2>5, <2>6 DEF CancelsOld
<1>8. ASSUME NEW s \in Nat, s \in Held, r.sub < s PROVE s \in T
  <2>1. Unheard' <=> Unheard
    BY <1>1 DEF Unheard
  <2>2. CASE Unheard
    BY <2>1, <2>2 DEF Held
  <2>3. CASE ~Unheard
    <3>1. s = sub.id
      BY <1>8, <2>3 DEF Held
    <3>2. r.sub # sub.id
      BY <1>7, <1>8, <3>1
    <3> QED
      BY <1>1, <2>1, <2>3, <3>1, <3>2 DEF Held
  <2> QED
    BY <2>2, <2>3
<1>9. Owns(client, A, T)
  <2> HIDE DEF T, A
  <2>1. Owns(client, A, Held)
    BY <1>2 DEF Linked
  <2> QED
    BY <1>7, <1>8, <2>1 DEF Owns
<1>10. GoodLink'
  <2>1. Owns(client, Acks', Held') /\ Covers(Acks, Acks')
    BY <1>6, <1>9 DEF Covers
  <2> QED
    BY <1>1, <1>5, <2>1, AgentLinks
<1> QED
  BY <1>4, <1>10

\* A new subscription takes the place of the old one: nothing that counts waits for the
\* old one's ACK, and the page is not live.
LEMMA SubscribeLinks ==
  ASSUME LinkInv, HandleSubscribe, UNCHANGED client
  PROVE  GoodLink' /\ HostFollows'
<1> DEFINE r == Head(requests)
           p == pending'
           A == Acks
           L == Line
           M == Line'
           T == Held'
           n == nextSub
           none == <<>>
<1>1. /\ Handling("subscribe") /\ requests' = Tail(requests) /\ UNCHANGED <<route, replies, wire>>
      /\ nextSub' = n + 1 /\ sub'.id = n
      /\ p.type = "subscribed" /\ p.id = r.id /\ p.sub = n
  <2> DEFINE new == [id |-> nextSub, buffer |-> <<>>, resync |-> FALSE, sent |-> 0, reserved |-> 1, ord |-> 1]
             mode == IF Resumable(r.base) THEN "resume" ELSE "snapshot"
             frame == CASE mode = "snapshot" -> SnapshotFrame(new, "initial")
                        [] mode = "resume" /\ r.base.seq = currentSeq -> NoFrame
                        [] OTHER -> DeltaFrame(new, "initial", r.base.seq, Shown(log, r.base.seq, currentSeq))
  <2>1. /\ Handling("subscribe") /\ requests' = Tail(requests) /\ UNCHANGED <<route, replies, wire>>
        /\ nextSub' = n + 1
        /\ sub' = IF frame = NoFrame THEN [new EXCEPT !.sent = r.base.seq, !.reserved = None]
                  ELSE [new EXCEPT !.sent = frame.from, !.ord = 2]
        /\ pending' = [type |-> "subscribed", id |-> r.id, sub |-> nextSub, mode |-> mode,
                       epoch |-> epoch, frame |-> frame]
    BY DEF HandleSubscribe
  <2> HIDE DEF frame, mode, r
  <2> QED
    BY <2>1
<1>2. IInv /\ HostFollows /\ Linked(client, L, A, Held, n) /\ L \in Seq(Item) /\ IInv'
  BY LineTyped, SubscribeKeeps DEF LinkInv, GoodLink, Line
<1>3. pending = NoReply /\ r \in Request /\ Asks(r) /\ Subs(r) /\ A = {a \in ToSet(replies) : IsAck(a)}
  BY <1>1, <1>2, RequestTaken DEF Asks, Subs
<1>4. n \in Nat \ {0}
  BY <1>2 DEF IInv, Subscribed
<1>5. HostFollows'
  BY <1>1, <1>4 DEF HostFollows, NoSub, None
<1>6. Becomes(r, p) /\ IsAck(p)
  BY <1>1, <1>3 DEF Becomes, Asks, Subs, IsAck
<1>7. Thins(L, M) /\ M \in Seq(Item) /\ Acks' = A \cup {p}
  BY <1>1, <1>2, <1>6, OutcomeMoves
<1>8. /\ Len(replies) \in Nat /\ Len(replies) + 1 \in 1..Len(L) /\ L[Len(replies) + 1] = r
      /\ \A i \in 1..Len(replies) : i \in 1..Len(L) /\ L[i] = replies[i]
  BY <1>1, <1>2, RequestPlace
<1>9. client.out = none
  BY <1>2 DEF IInv, ClientTyped, Fresh
<1>10. n \in T
  BY <1>1, <1>4 DEF Held
<1>11. \A a \in A : \E i \in 1..Len(replies) : replies[i] = a /\ IsAck(a)
  BY <1>3 DEF ToSet
<1> HIDE DEF r, p, A, L, M, T, n
<1>12. L \o none = L /\ M \o none = M
  BY <1>2, <1>7
<1> HIDE DEF none
<1>13. OneCounts(client) /\ Owns(client, A, Held) /\ Lined(L, client, A, n)
  BY <1>2, <1>9, <1>12 DEF Linked
<1>14. Lined(M, client, A, n)
  BY <1>7, <1>13, ThinsLined
<1>15. Lined(M, client, A \cup {p}, n + 1)
  <2>1. ASSUME NEW i \in 1..Len(M), ~Asks(M[i])
        PROVE  /\ M[i].sub < n + 1 /\ \A a \in A \cup {p} : M[i].sub < a.sub
               /\ client.status = "live" => M[i].sub < client.sub
    <3>1. M[i] \in Item
      BY <1>7, <2>1
    <3>2. M[i].sub \in Nat
      BY <2>1, <3>1 DEF Item, Request, Reply, Outcome, Asks
    <3>3. M[i].sub < n /\ (\A a \in A : M[i].sub < a.sub) /\ (client.status = "live" => M[i].sub < client.sub)
      BY <1>14, <2>1 DEF Lined, CancelsOld
    <3>4. M[i].sub < n + 1
      BY <1>4, <3>2, <3>3
    <3> QED
      BY <1>1, <3>3, <3>4
  <2>2. CancelsOld(M, client, A \cup {p}, n + 1)
    BY <2>1 DEF CancelsOld
  <2> QED
    BY <1>14, <2>2 DEF Lined
<1>16. Owns(client, A \cup {p}, T)
  <2>1. client.status # "live"
    BY <1>3, <1>8, <1>13 DEF Lined, LiveIsLast
  <2>2. \E k \in client.calls : k.id = p.id
    BY <1>1, <1>3, <1>8, <1>13 DEF Lined, HasCall
  <2>3. ASSUME NEW a \in A PROVE a.id \notin Counting(client)
    <3>1. PICK i \in 1..Len(replies) : replies[i] = a /\ IsAck(a)
      BY <1>11
    <3>2. i \in 1..Len(L) /\ L[i] = a /\ Subs(L[i]) /\ i < Len(replies) + 1
      BY <1>8, <3>1 DEF IsAck, Subs
    <3> QED
      BY <1>3, <1>8, <1>13, <3>2 DEF Lined, CountsLast
  <2> QED
    BY <1>1, <1>10, <1>13, <2>1, <2>2, <2>3 DEF Owns
<1>17. Linked(client, M, A \cup {p}, T, n + 1)
  BY <1>9, <1>12, <1>13, <1>15, <1>16 DEF Linked
<1> DEFINE B == Acks'
<1> HIDE DEF B
<1>18. B = A \cup {p}
  BY <1>7 DEF B
<1>19. Linked(client, M, B, T, n + 1)
  BY <1>17, <1>18
<1>20. GoodLink'
  BY <1>1, <1>19 DEF GoodLink, M, B, T, n
<1> QED
  BY <1>5, <1>20

\* The reply is written: what it acknowledges is what the host routes.
LEMMA RespondLinks ==
  ASSUME LinkInv, Respond, UNCHANGED client
  PROVE  GoodLink' /\ HostFollows'
<1> DEFINE p == pending
           y == [f \in DOMAIN p \ {"frame"} |-> p[f]]
           none == <<>>
<1>1. /\ p # NoReply /\ replies' = Append(replies, y) /\ pending' = NoReply
      /\ wire' = IF p.frame = NoFrame THEN wire ELSE Append(wire, p.frame)
      /\ sub' = sub \/ (sub # NoSub /\ sub' = [sub EXCEPT !.sent = p.frame.to, !.reserved = None])
      /\ route' = IF p.type = "subscribed" THEN p.sub ELSE route
      /\ UNCHANGED <<client, nextSub, requests>>
  BY DEF Respond
<1>2. IInv /\ HostFollows /\ Linked(client, Line, Acks, Held, nextSub) /\ Line \in Seq(Item)
  BY LineTyped DEF LinkInv, GoodLink, Line
<1>3. p \in Outcome /\ wire \in Seq(Message) /\ replies \in Seq(Reply) /\ requests \in Seq(Item) /\ replies \in Seq(Item)
  BY <1>1, <1>2, LineTyped DEF IInv, Channelled
<1>4. y \in Reply /\ (IsAck(y) <=> IsAck(p)) /\ (IsAck(p) => y.sub = p.sub)
  BY <1>3, ReplyTyped
<1>5. y.type = p.type /\ y.id = p.id
  <2>1. {"type", "id"} \subseteq DOMAIN p \ {"frame"}
    BY <1>3 DEF Outcome
  <2> QED
    BY <2>1
<1>6. sub'.id = sub.id /\ (sub' = NoSub <=> sub = NoSub)
  <2>1. CASE sub' = sub
    BY <2>1
  <2>2. CASE sub' # sub
    <3>1. sub # NoSub /\ sub \in Subscription /\ sub.id # None
      BY <1>1, <1>2, <2>2 DEF IInv, Subscribed, Serving
    <3>2. sub'.id = sub.id
      BY <1>1, <2>2, <3>1 DEF Subscription
    <3> QED
      BY <3>1, <3>2 DEF NoSub
  <2> QED
    BY <2>1, <2>2
<1>7. HostFollows'
  BY <1>1, <1>2, <1>6 DEF HostFollows, NoReply
<1>8. Unheard => Unheard'
  <2>1. CASE p.frame = NoFrame
    BY <1>1, <2>1 DEF Unheard
  <2>2. CASE p.frame # NoFrame
    <3>1. p.frame \in Message
      BY <1>3, <2>2 DEF Outcome, Message
    <3> DEFINE f == p.frame
    <3> HIDE DEF f
    <3>2. Append(wire, f) = wire \o <<f>> /\ <<f>> \in Seq(Message)
      BY <1>3, <3>1, AppendIsConcat DEF f
    <3>3. wire' = wire \o <<f>>
      BY <1>1, <2>2, <3>2 DEF f
    <3> QED
      BY <1>2, <3>2, <3>3, UnheardGrows
  <2> QED
    BY <2>1, <2>2
<1>9. Held \subseteq Held'
  BY <1>2, <1>6, <1>8, HeldTyped DEF Held
<1> HIDE DEF y
<1>10. Becomes(p, y)
  BY <1>3, <1>5 DEF Becomes, Asks, Subs, Outcome
<1>11. Thins(Line, Line') /\ Line' \in Seq(Item)
  <2> DEFINE u == <<p>>
             v == <<y>>
             t == requests
  <2>1. u \in Seq(Item) /\ v \in Seq(Item) /\ Answer = u /\ t \in Seq(Item)
    BY <1>1, <1>3, <1>4 DEF Answer, Item
  <2>2. Thins(u, v) /\ Thins(t, t) /\ Thins(replies, replies)
    BY <1>10, ThinsOne, ThinsSelf
  <2>3. Line = (replies \o u) \o t
    BY <2>1 DEF Line, Behind
  <2>4. Line' = (replies \o v) \o t
    <3>1. replies' = replies \o v
      BY <1>1, <1>3, <1>4, AppendIsConcat
    <3>2. Answer' = none
      BY <1>1 DEF Answer
    <3>3. Line' = (replies' \o Answer') \o t
      BY <1>1 DEF Line, Behind
    <3>4. replies \o v \in Seq(Item)
      BY <1>3, <2>1, ConcatProperties
    <3> DEFINE w == replies \o v
    <3> HIDE DEF v, t
    <3>5. (replies \o v) \o none = replies \o v
      BY <3>4
    <3> HIDE DEF none
    <3> QED
      BY <3>1, <3>2, <3>3, <3>5
  <2> HIDE DEF u, v, t
  <2>5. Thins(replies \o u, replies \o v) /\ replies \o u \in Seq(Item) /\ replies \o v \in Seq(Item)
    BY <1>3, <2>1, <2>2, ThinsJoined
  <2> DEFINE a == replies \o u
             b == replies \o v
  <2>6. Thins(a, b) /\ a \in Seq(Item) /\ b \in Seq(Item) /\ Line = a \o t /\ Line' = b \o t
    BY <2>3, <2>4, <2>5
  <2> HIDE DEF a, b
  <2>7. Thins(a \o t, b \o t) /\ b \o t \in Seq(Item)
    BY <2>1, <2>2, <2>6, ThinsJoined
  <2> QED
    BY <2>6, <2>7
<1>12. Covers(Acks, Acks')
  <2>1. ToSet(replies') = ToSet(replies) \cup {y}
    BY <1>1, <1>3, <1>4, AppendedSet
  <2>2. ASSUME NEW b \in Acks' PROVE \E a \in Acks : a.id = b.id /\ a.sub = b.sub
    <3>1. IsAck(b) /\ (b \in ToSet(replies) \/ b = y \/ b = NoReply)
      BY <1>1, <2>1 DEF Acks, IsAck
    <3>2. b # NoReply
      BY <3>1 DEF IsAck, NoReply
    <3>3. CASE b \in ToSet(replies)
      BY <3>1, <3>3 DEF Acks
    <3>4. CASE b = y
      <4>1. p \in Acks
        BY <1>4, <3>1, <3>4 DEF Acks
      <4> QED
        BY <1>4, <1>5, <3>1, <3>4, <4>1
    <3> QED
      BY <3>1, <3>2, <3>3, <3>4
  <2> QED
    BY <2>2 DEF Covers
<1>13. Owns(client, Acks', Held')
  <2> DEFINE B == Acks'
             T == Held'
  <2>1. Owns(client, Acks, Held) /\ Covers(Acks, B) /\ Held \subseteq T
    BY <1>2, <1>9, <1>12 DEF Linked
  <2> HIDE DEF B, T
  <2>2. Owns(client, B, T)
    BY <2>1, CoveredOwns
  <2> QED
    BY <2>2 DEF B, T
<1>14. GoodLink'
  BY <1>1, <1>11, <1>12, <1>13, AgentLinks
<1> QED
  BY <1>7, <1>14

\* A rejection asks no more than the request it rejects.
LEMMA RejectionIs ==
  ASSUME NEW x \in Request \cup Outcome, x.type # "unsubscribe"
  PROVE  Becomes(x, RejectionOf(x)) /\ RejectionOf(x) \in Item
<1>1. x.id \in Nat /\ Asks(x)
  BY DEF Request, Outcome, Asks
<1>2. RejectionOf(x) \in Item
  BY <1>1 DEF RejectionOf, Item, Reply, Why
<1>3. RejectionOf(x).type = "failed" /\ RejectionOf(x).id = x.id
  BY DEF RejectionOf
<1> QED
  BY <1>1, <1>2, <1>3 DEF Becomes, Asks, Subs

\* Those that ask, rejected.
LEMMA RejectionsThin ==
  ASSUME NEW s \in Seq(Request), NEW T, \A x \in T : x.type # "unsubscribe",
         NEW lost, lost = Only(s, T),
         NEW cut, cut = [i \in 1..Len(lost) |-> RejectionOf(lost[i])]
  PROVE  Thins(s, cut) /\ cut \in Seq(Item)
<1>1. lost \in Seq(Request \cap T)
  BY OnlyEmbeds
<1>2. PICK g : Embeds(g, lost, s, Len(s), T)
  BY OnlyEmbeds
<1>3. /\ \A i, j \in 1..Len(lost) : i < j => g[i] < g[j]
      /\ \A i \in 1..Len(lost) : g[i] \in 1..Len(s) /\ lost[i] = s[g[i]]
  BY <1>2 DEF Embeds
<1>4. ASSUME NEW i \in 1..Len(lost)
      PROVE  Becomes(lost[i], RejectionOf(lost[i])) /\ RejectionOf(lost[i]) \in Item
  <2>1. lost[i] \in Request \cap T
    BY <1>1
  <2> QED
    BY <2>1, RejectionIs
<1>5. cut \in Seq(Item) /\ Len(cut) = Len(lost) /\ \A i \in 1..Len(lost) : cut[i] = RejectionOf(lost[i])
  <2>1. Len(lost) \in Nat
    BY <1>1
  <2>2. cut \in [1..Len(lost) -> Item]
    BY <1>4
  <2> QED
    BY <2>1, <2>2
<1>6. Picks(g, s, cut)
  BY <1>3, <1>4, <1>5 DEF Picks
<1> QED
  BY <1>5, <1>6 DEF Thins

\* A recycle rejects the beginning of the line, and the page will hear of it.
LEMMA RecycleLinks ==
  ASSUME LinkInv, Recycle, UNCHANGED client
  PROVE  GoodLink' /\ HostFollows'
<1> DEFINE asked == {r \in ToSet(requests) : r.type # "unsubscribe"}
           handled == IF pending = NoReply THEN <<>> ELSE <<RejectionOf(pending)>>
           gone == [type |-> "unavailable"]
           none == <<>>
<1>1. /\ wire' = Append(wire, gone) /\ sub' = NoSub /\ pending' = NoReply
      /\ UNCHANGED <<nextSub, route>>
  BY DEF Recycle
<1>2. PICK k \in 0..Len(requests) :
        LET lost == Only(SubSeq(requests, 1, k), asked)
            cut == [i \in 1..Len(lost) |-> RejectionOf(lost[i])]
        IN  /\ requests' = SubSeq(requests, k + 1, Len(requests))
            /\ replies' = replies \o handled \o cut
  BY DEF Recycle
<1> DEFINE s == SubSeq(requests, 1, k)
           t == SubSeq(requests, k + 1, Len(requests))
           lost == Only(s, asked)
           cut == [i \in 1..Len(lost) |-> RejectionOf(lost[i])]
<1>3. requests' = t /\ replies' = (replies \o handled) \o cut
  BY <1>2
<1>4. IInv /\ Linked(client, Line, Acks, Held, nextSub)
  BY DEF LinkInv, GoodLink
<1>5. /\ requests \in Seq(Request) /\ wire \in Seq(Message) /\ Len(requests) \in Nat
      /\ pending \in Outcome \cup {NoReply} /\ Answer \in Seq(Item) /\ replies \in Seq(Item)
  BY <1>4, LineTyped DEF IInv, Channelled
<1>6. s \in Seq(Request) /\ t \in Seq(Request) /\ requests = s \o t
  <2>1. s \in Seq(Request) /\ t \in Seq(Request)
    BY <1>5, SubSeqProperties
  <2>2. s \o t = SubSeq(requests, 1, Len(requests))
    <3>1. 1 \in 1..Len(requests) + 1 /\ k \in 1 - 1..Len(requests) /\ Len(requests) \in k..Len(requests)
      BY <1>5
    <3>2. \A m \in 1..Len(requests) + 1 : \A i \in m - 1..Len(requests) : \A j \in i..Len(requests) :
            SubSeq(requests, m, i) \o SubSeq(requests, i + 1, j) = SubSeq(requests, m, j)
      BY <1>5, ConcatAdjacentSubSeq
    <3> QED
      BY <3>1, <3>2
  <2>3. SubSeq(requests, 1, Len(requests)) = requests
    BY <1>5, SubSeqFull
  <2> HIDE DEF s, t
  <2> QED
    BY <2>1, <2>2, <2>3
<1>7. \A x \in asked : x.type # "unsubscribe"
  OBVIOUS
<1> HIDE DEF asked, s, t
<1>8. Thins(s, cut) /\ cut \in Seq(Item)
  BY <1>6, <1>7, RejectionsThin
<1>9. Thins(Answer, handled) /\ handled \in Seq(Item)
  <2>1. CASE pending = NoReply
    <3>1. Answer = none /\ handled = none
      BY <2>1 DEF Answer
    <3> HIDE DEF handled
    <3> QED
      BY <1>5, <3>1, ThinsSelf
  <2>2. CASE pending # NoReply
    <3> DEFINE y == RejectionOf(pending)
    <3>1. Answer = <<pending>> /\ handled = <<y>>
      BY <2>2 DEF Answer
    <3>2. pending \in Outcome /\ pending.type # "unsubscribe"
      BY <1>5, <2>2 DEF Outcome
    <3>3. Becomes(pending, y) /\ y \in Item
      BY <3>2, RejectionIs
    <3> HIDE DEF y, handled
    <3> QED
      BY <3>1, <3>3, ThinsOne
  <2> QED
    BY <2>1, <2>2
<1> HIDE DEF cut, handled, lost
<1>10. s \in Seq(Item) /\ t \in Seq(Item)
  BY <1>6 DEF Item
<1>11. Thins(Line, Line') /\ Line' \in Seq(Item)
  <2> DEFINE u == replies \o Answer
             v == replies \o handled
  <2>1. Thins(u, v) /\ u \in Seq(Item) /\ v \in Seq(Item)
    BY <1>5, <1>9, ThinsSelf, ThinsJoined
  <2>2. Line = u \o (s \o t)
    BY <1>6 DEF Line, Behind
  <2>3. Line' = (v \o cut) \o t
    <3>1. Answer' = none
      BY <1>1 DEF Answer
    <3>2. Line' = (replies' \o Answer') \o requests'
      BY DEF Line, Behind
    <3> HIDE DEF none
    <3>3. v \o cut \in Seq(Item)
      BY <1>8, <2>1, ConcatProperties
    <3>4. replies' = v \o cut
      BY <1>3
    <3> HIDE DEF v
    <3>5. (v \o cut) \o none = v \o cut
      BY <3>3 DEF none
    <3> QED
      BY <1>3, <3>1, <3>2, <3>4, <3>5
  <2> HIDE DEF u, v
  <2> DEFINE a == u \o s
             b == v \o cut
  <2>4. Thins(a, b) /\ a \in Seq(Item) /\ b \in Seq(Item)
    BY <1>8, <1>10, <2>1, ThinsJoined
  <2>5. (u \o s) \o t = u \o (s \o t)
    <3>1. u \in Seq(Item) /\ s \in Seq(Item) /\ t \in Seq(Item)
      BY <1>10, <2>1
    <3> QED
      BY <3>1, ItemsJoin
  <2>6. Line = a \o t /\ Line' = b \o t
    BY <2>2, <2>3, <2>5
  <2> HIDE DEF a, b
  <2>7. Thins(a \o t, b \o t) /\ b \o t \in Seq(Item)
    BY <1>10, <2>4, ThinsSelf, ThinsJoined
  <2> QED
    BY <2>6, <2>7
<1>12. Covers(Acks, Acks')
  <2>1. Acks' \subseteq Acks
    BY <1>4, RecycleKeeps
  <2> QED
    BY <2>1 DEF Covers
<1>13. Held' = Nat
  <2>1. Len(wire') \in 1..Len(wire') /\ wire'[Len(wire')] = gone
    <3>1. gone \in Message
      BY DEF Message
    <3> HIDE DEF gone
    <3>2. Len(wire') = Len(wire) + 1 /\ wire'[Len(wire) + 1] = gone /\ Len(wire) \in Nat
      BY <1>1, <1>5, <3>1, AppendProperties
    <3> QED
      BY <3>2
  <2>2. Unheard'
    BY <2>1 DEF Unheard
  <2> QED
    BY <2>2 DEF Held
<1>14. Held \subseteq Nat
  BY <1>4, HeldTyped DEF Held
<1>15. Owns(client, Acks', Held')
  <2> DEFINE B == Acks'
  <2>1. Owns(client, Acks, Held) /\ Covers(Acks, B)
    BY <1>4, <1>12 DEF Linked
  <2> HIDE DEF B
  <2>2. Owns(client, B, Nat)
    BY <1>14, <2>1, CoveredOwns
  <2> QED
    BY <1>13, <2>2 DEF B
<1>16. GoodLink'
  BY <1>1, <1>11, <1>12, <1>15, AgentLinks
<1>17. HostFollows'
  BY <1>1 DEF HostFollows, NoReply
<1> QED
  BY <1>16, <1>17

\* A step of the agent.
LEMMA AgentLinked ==
  ASSUME LinkInv, Agent, UNCHANGED client
  PROVE  GoodLink' /\ HostFollows'
<1>1. IInv
  BY DEF LinkInv
<1>2. CASE Ingest \/ FlushTimer \/ Saturate \/ ResumeFlow \/ Rehydrate \/ FlushRehydrated
  BY <1>1, <1>2, AgentsCalm, CalmAgentLinks
<1>3. CASE HandleSubscribe
  BY <1>3, SubscribeLinks
<1>4. CASE HandleResync
  BY <1>4, ResyncLinks
<1>5. CASE HandleUnsubscribe
  BY <1>5, UnsubscribeLinks
<1>6. CASE Respond
  BY <1>6, RespondLinks
<1>7. CASE Recycle
  BY <1>7, RecycleLinks
<1>8. CASE Spawn
  BY <1>8, SpawnLinks
<1> QED
  BY <1>2, <1>3, <1>4, <1>5, <1>6, <1>7, <1>8 DEF Agent

\* The link holds at first, and every step keeps it.
LEMMA InitLinked == Init => LinkInv
<1> SUFFICES ASSUME Init PROVE LinkInv
  OBVIOUS
<1> DEFINE none == <<>>
<1>1. IInv
  BY InitHolds
<1>2. /\ requests = none /\ replies = none /\ pending = NoReply /\ sub = NoSub
      /\ client.calls = {} /\ client.out = none /\ client.status = "idle"
  BY DEF Init, TopicInit, ClientInit
<1>3. Line \o client.out = none /\ Len(none) = 0
  <2>1. Answer = none
    BY <1>2 DEF Answer
  <2>2. none \o none = none
    OBVIOUS
  <2> HIDE DEF none
  <2>3. Line = none
    BY <1>2, <2>1, <2>2 DEF Line, Behind
  <2>4. Len(none) = 0
    BY DEF none
  <2> QED
    BY <1>2, <2>2, <2>3, <2>4
<1>4. Acks = {}
  <2>1. ToSet(none) = {}
    BY DEF ToSet
  <2> HIDE DEF none
  <2> QED
    BY <1>2, <2>1 DEF Acks, IsAck, NoReply
<1> HIDE DEF none
<1>5. \A i \in 1..Len(none) : FALSE
  BY <1>3
<1>6. Lined(none, client, Acks, nextSub)
  BY <1>5 DEF Lined, AskedOnce, HasCall, CountsLast, LiveIsLast, CancelsOld
<1>7. OneCounts(client) /\ Owns(client, Acks, Held)
  BY <1>2, <1>4 DEF OneCounts, Owns
<1>8. GoodLink
  BY <1>3, <1>6, <1>7 DEF GoodLink, Linked
<1>9. HostFollows
  BY <1>2 DEF HostFollows, NoReply
<1> QED
  BY <1>1, <1>8, <1>9 DEF LinkInv

\* Likewise.
LEMMA NextLinks == LinkInv /\ [Next]_vars => LinkInv'
<1> SUFFICES ASSUME LinkInv, [Next]_vars PROVE LinkInv'
  OBVIOUS
<1>1. IInv'
  BY NextKeeps DEF LinkInv
<1>2. CASE Store /\ UNCHANGED topic
  BY <1>2, StoreLinks
<1>3. CASE Agent /\ UNCHANGED client
  BY <1>1, <1>3, AgentLinked DEF LinkInv
<1>4. CASE (LoseFrame \/ RepeatFrame) /\ UNCHANGED <<topic, client>>
  BY <1>1, <1>4, DisturbedLinks DEF LinkInv
<1>5. CASE UNCHANGED vars
  <2>1. /\ UNCHANGED <<requests, replies, wire, pending, sub, nextSub, route, client>>
    BY <1>5 DEF vars, channels, topic
  <2>2. Line' = Line /\ Acks' = Acks /\ Held' = Held
    BY <2>1 DEF Line, Behind, Answer, Acks, IsAck, Held, Unheard
  <2>3. GoodLink' /\ HostFollows'
    BY <2>1, <2>2 DEF LinkInv, GoodLink, HostFollows
  <2> QED
    BY <1>1, <2>3 DEF LinkInv
<1> QED
  BY <1>2, <1>3, <1>4, <1>5 DEF Next

\* When nothing is on its way, a live page holds the subscription that the agent serves and
\* the host routes: whatever was outdated, cancelled late or restarted on the way there.
THEOREM SubscriptionsAgreeAlways == Spec => []SubscriptionsAgree
<1>1. LinkInv => SubscriptionsAgree
  <2> SUFFICES ASSUME LinkInv, Quiet, client.status = "live"
               PROVE  sub # NoSub /\ sub.id = client.sub /\ route = sub.id
    BY DEF SubscriptionsAgree
  <2>1. ~Unheard
    BY DEF Quiet, Unheard
  <2>2. client.sub # None /\ client.sub \in Held
    BY DEF LinkInv, GoodLink, Linked, Owns
  <2>3. client.sub = sub.id
    BY <2>1, <2>2 DEF Held
  <2>4. sub # NoSub
    BY <2>2, <2>3 DEF NoSub
  <2>5. pending.type # "subscribed"
    BY DEF Quiet, NoReply
  <2> QED
    BY <2>3, <2>4, <2>5 DEF LinkInv, HostFollows
<1> QED
  BY <1>1, InitLinked, NextLinks, PTL DEF Spec
=============================================================================
