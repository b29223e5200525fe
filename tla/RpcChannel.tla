----------------------------- MODULE RpcChannel -----------------------------
(* A ChannelClient and a ChannelServer over one ordered transport              *)
(* (packages/rpc/src/channelClient.ts, channelServer.ts): calls with           *)
(* cancellation, events whose subscription follows their first and last        *)
(* listener, requests made before Initialize, and requests for a channel that  *)
(* is registered late.  A request is known by its id; names, arguments and     *)
(* results are left out, as is a call that throws its own error.               *)
EXTENDS Integers, Sequences, FiniteSets, SequencesExt, Subsequence

CONSTANTS
  Call,        \* calls, each made once
  Evt,         \* event objects, each with one id
  Late,        \* requests to a channel that is registered late
  EndsClient,  \* does whoever made the client dispose it when the transport ends
  MaxListens,  \* bound on the listeners added to one event
  MaxFires     \* bound on the times one event is fired

ASSUME IdAssumption == Call \cap Evt = {} /\ Late \subseteq Call \cup Evt /\ EndsClient \in BOOLEAN
ASSUME BoundAssumption == MaxListens \in Nat /\ MaxFires \in Nat

Id == Call \cup Evt
NoId == "none"
Request == [type : {"promise", "cancel", "listen", "dispose"}, id : Id]
Response == [type : {"initialize", "success", "unknown", "fire"}, id : Id \cup {NoId}]

VARIABLES
  link, up, down,  \* the transport and the frames on their way
  \* the client
  idle, gone,      \* Initialize has come; disposed
  call,            \* [Call -> "new", "waiting", "sent", or how its promise settled]
  queued,          \* requests that wait for Initialize, in order
  listening,       \* events with a listener
  handler,         \* events with a handler in the client's map
  listens,         \* [Evt -> times a first listener was added]
  \* the server
  ready, over,     \* Initialize is sent; disposed
  registered, flushing,  \* the late channel is there; its flush is due
  pending,         \* requests for the late channel, each with its timer
  executing,       \* calls whose promise is pending and may be cancelled
  running,         \* calls whose promise is pending
  subs,            \* [Evt -> subscriptions to the service's event]
  held,            \* events whose latest subscription the server can still dispose
  \* history
  runs,            \* [Call -> times the service was called]
  fires,           \* [Evt -> times fired]
  unheard          \* events that came while somebody listened and nobody heard

transport == <<link, up, down>>
client == <<idle, gone, call, queued, listening, handler, listens>>
server == <<ready, over, registered, flushing, pending, executing, running, subs, held>>
history == <<runs, fires, unheard>>
vars == <<transport, client, server, history>>

Open == {"waiting", "sent"}

Init ==
  /\ link = "up" /\ up = <<>> /\ down = <<>>
  /\ idle = FALSE /\ gone = FALSE
  /\ call = [c \in Call |-> "new"]
  /\ queued = <<>> /\ listening = {} /\ handler = Evt /\ listens = [e \in Evt |-> 0]
  /\ ready = FALSE /\ over = FALSE /\ registered = FALSE /\ flushing = FALSE
  /\ pending = <<>> /\ executing = {} /\ running = {}
  /\ subs = [e \in Evt |-> 0] /\ held = {}
  /\ runs = [c \in Call |-> 0] /\ fires = [e \in Evt |-> 0] /\ unheard = {}

\* Frames written to a transport that has ended are lost.
Written(frames, new) == IF link = "up" THEN frames \o new ELSE frames
Ask(type, id) == [type |-> type, id |-> id]

----------------------------------------------------------------------------
(* The client.                                                               *)

\* call, and requestPromise of a client that is not disposed.
CallService(c) ==
  /\ call[c] = "new"
  /\ call' = [call EXCEPT ![c] = IF gone THEN "closed" ELSE IF idle THEN "sent" ELSE "waiting"]
  /\ up' = IF idle /\ ~gone THEN Written(up, <<Ask("promise", c)>>) ELSE up
  /\ queued' = IF idle \/ gone THEN queued ELSE Append(queued, c)
  /\ UNCHANGED <<link, down, idle, gone, listening, handler, listens, server, history>>

\* The caller's token is cancelled.
Cancel(c) ==
  /\ call[c] \in Open
  /\ call' = [call EXCEPT ![c] = "cancelled"]
  /\ up' = Written(up, <<Ask("cancel", c)>>)
  /\ UNCHANGED <<link, down, idle, gone, queued, listening, handler, listens, server, history>>

\* onWillAddFirstListener.  A disposed client gives Event.None.
AddListener(e) ==
  /\ ~gone /\ e \notin listening /\ listens[e] < MaxListens
  /\ listening' = listening \cup {e}
  /\ listens' = [listens EXCEPT ![e] = @ + 1]
  /\ up' = IF idle THEN Written(up, <<Ask("listen", e)>>) ELSE up
  /\ queued' = IF idle THEN queued ELSE Append(queued, e)
  /\ UNCHANGED <<link, down, idle, gone, call, handler, server, history>>

\* onDidRemoveLastListener
RemoveListener(e) ==
  /\ e \in listening
  /\ listening' = listening \ {e}
  /\ handler' = handler \ {e}
  /\ up' = Written(up, <<Ask("dispose", e)>>)
  /\ UNCHANGED <<link, down, idle, gone, call, queued, listens, server, history>>

\* The requests that are still wanted when Initialize comes.
Sendable == Evt \cup {c \in Call : call[c] = "waiting"}

\* Initialize: the queued requests are sent in the microtasks that follow.
HearInitialize ==
  LET send == Only(queued, Sendable)
  IN  /\ idle' = TRUE /\ queued' = <<>>
      /\ call' = [c \in Call |-> IF c \in ToSet(send) THEN "sent" ELSE call[c]]
      /\ up' = Written(up, [i \in DOMAIN send |->
                              Ask(IF send[i] \in Call THEN "promise" ELSE "listen", send[i])])
      /\ UNCHANGED unheard

\* onResponse, while the client listens to the protocol.
ClientReceive ==
  /\ down # <<>> /\ ~gone
  /\ down' = Tail(down)
  /\ LET m == Head(down)
     IN  IF m.type = "initialize" THEN HearInitialize
         ELSE /\ call' = IF m.id \in Call /\ call[m.id] = "sent"
                         THEN [call EXCEPT ![m.id] = m.type] ELSE call
              /\ unheard' = unheard \cup
                              {e \in listening \ handler : m.type = "fire" /\ m.id = e}
              /\ UNCHANGED <<idle, queued, up>>
  /\ UNCHANGED <<link, gone, listening, handler, listens, server, runs, fires>>

\* Mutant of Rejected: only requests that were sent are rejected.
RejectedSent == [c \in Call |-> IF call[c] = "sent" THEN "closed" ELSE call[c]]

Rejected == [c \in Call |-> IF call[c] \in Open THEN "closed" ELSE call[c]]

\* dispose, by whoever made the client or when the transport has ended.  Its emitters
\* lose their listeners without a word to the server; RemoveListener stays possible.
ClientDispose ==
  /\ ~gone /\ EndsClient
  /\ gone' = TRUE
  /\ call' = Rejected
  /\ UNCHANGED <<transport, idle, queued, listening, handler, listens, server, history>>

----------------------------------------------------------------------------
(* The server.                                                               *)

Answer(type, id) == Written(down, <<[type |-> type, id |-> id]>>)

\* The constructor, or ready() of a server that defers Initialize.
Ready ==
  /\ ~ready
  /\ ready' = TRUE
  /\ down' = Answer("initialize", NoId)
  /\ UNCHANGED <<link, up, client, over, registered, flushing, pending, executing, running, subs,
                 held, history>>

\* Requests rs are given to their service, in order: onPromise, onEventListen.
Execute(rs) ==
  LET of(type) == {i \in DOMAIN rs : rs[i].type = type}
      calls == {rs[i].id : i \in of("promise")}
  IN  /\ executing' = executing \cup calls
      /\ running' = running \cup calls
      /\ runs' = [c \in Call |-> runs[c] + Cardinality({i \in of("promise") : rs[i].id = c})]
      /\ subs' = [e \in Evt |-> subs[e] + Cardinality({i \in of("listen") : rs[i].id = e})]
      /\ held' = held \cup {rs[i].id : i \in of("listen")}

\* Mutant of Unsubscribed: a subscription the server does not hold is disposed of too.
UnsubscribedAny(es) == [e \in Evt |-> IF e \in es THEN subs[e] - 1 ELSE subs[e]]

\* disposeActiveRequest of the subscriptions of events es.
Unsubscribed(es) == [e \in Evt |-> IF e \in es \cap held THEN subs[e] - 1 ELSE subs[e]]

\* onRawMessage
ServerReceive ==
  /\ up # <<>> /\ ~over
  /\ up' = Tail(up)
  /\ LET m == Head(up)
     IN  \/ /\ m.type \in {"promise", "listen"}
            /\ IF m.id \in Late /\ ~registered
               THEN /\ pending' = Append(pending, [type |-> m.type, id |-> m.id, timer |-> TRUE])
                    /\ UNCHANGED <<executing, running, subs, held, runs>>
               ELSE Execute(<<m>>) /\ UNCHANGED pending
         \/ /\ m.type = "cancel"
            /\ executing' = executing \ {m.id}
            /\ UNCHANGED <<pending, running, subs, held, runs>>
         \/ /\ m.type = "dispose"
            /\ held' = held \ {m.id}
            /\ subs' = Unsubscribed({m.id})
            /\ UNCHANGED <<pending, executing, running, runs>>
  /\ UNCHANGED <<link, down, client, ready, over, registered, flushing, fires, unheard>>

\* A call ends.
Return(c) ==
  /\ c \in running
  /\ running' = running \ {c} /\ executing' = executing \ {c}
  /\ down' = Answer("success", c)
  /\ UNCHANGED <<link, up, client, ready, over, registered, flushing, pending, subs, held, history>>

\* The timer of a waiting request: a call is told that its channel is unknown.
TimeoutPending ==
  /\ \E i \in DOMAIN pending :
       /\ pending[i].timer
       /\ pending' = [pending EXCEPT ![i].timer = FALSE]
       /\ down' = IF pending[i].type = "promise" THEN Answer("unknown", pending[i].id) ELSE down
  /\ UNCHANGED <<link, up, client, ready, over, registered, flushing, executing, running, subs,
                 held, history>>

\* Mutant of RegisterLate: waiting requests are executed at once, and by the flush again.
RegisterAtOnce ==
  /\ ~registered
  /\ registered' = TRUE /\ flushing' = TRUE
  /\ Execute(pending)
  /\ UNCHANGED <<transport, client, ready, over, pending, fires, unheard>>

\* registerChannel
RegisterLate ==
  /\ ~registered
  /\ registered' = TRUE /\ flushing' = TRUE
  /\ UNCHANGED <<transport, client, ready, over, pending, executing, running, subs, held, history>>

\* flushPendingRequests, whose timer is set by registerChannel.
Flush ==
  /\ flushing
  /\ flushing' = FALSE /\ pending' = <<>>
  /\ Execute(pending)
  /\ UNCHANGED <<transport, client, ready, over, registered, fires, unheard>>

\* The service fires event e: every subscription sends it.
Fire(e) ==
  /\ fires[e] < MaxFires /\ subs[e] > 0
  /\ fires' = [fires EXCEPT ![e] = @ + 1]
  /\ down' = Written(down, [i \in 1..subs[e] |-> [type |-> "fire", id |-> e]])
  /\ UNCHANGED <<link, up, client, server, runs, unheard>>

ServerDispose ==
  /\ link = "down" /\ ~over
  /\ over' = TRUE
  /\ executing' = {} /\ held' = {}
  /\ subs' = Unsubscribed(held)
  /\ UNCHANGED <<transport, client, ready, registered, flushing, pending, running, history>>

\* The transport ends, with what it carried.
LinkEnds ==
  /\ link = "up"
  /\ link' = "down" /\ up' = <<>> /\ down' = <<>>
  /\ UNCHANGED <<client, server, history>>

----------------------------------------------------------------------------
Next ==
  \/ \E c \in Call : CallService(c) \/ Cancel(c) \/ Return(c)
  \/ \E e \in Evt : AddListener(e) \/ RemoveListener(e) \/ Fire(e)
  \/ ClientReceive \/ ClientDispose
  \/ Ready \/ ServerReceive \/ TimeoutPending \/ RegisterLate \/ Flush \/ ServerDispose
  \/ LinkEnds

Spec == Init /\ [][Next]_vars

\* Services return, frames arrive, timers fire; a maker that disposes its client
\* when the transport ends does so.
Fairness ==
  /\ \A c \in Call : WF_vars(Return(c))
  /\ WF_vars(Ready) /\ WF_vars(ClientReceive) /\ WF_vars(ServerReceive)
  /\ WF_vars(TimeoutPending) /\ WF_vars(Flush)
  /\ WF_vars(link = "down" /\ ClientDispose)

FairSpec == Spec /\ Fairness

----------------------------------------------------------------------------
(* Properties.                                                               *)

Settled == {"success", "unknown", "cancelled", "closed"}

\* The variables keep their types; no subscription is disposed of twice.
TypeOK ==
  /\ link \in {"up", "down"} /\ up \in Seq(Request) /\ down \in Seq(Response)
  /\ idle \in BOOLEAN /\ gone \in BOOLEAN
  /\ call \in [Call -> {"new"} \cup Open \cup Settled]
  /\ queued \in Seq(Id) /\ listening \subseteq Evt /\ handler \subseteq Evt
  /\ listens \in [Evt -> 0..MaxListens]
  /\ ready \in BOOLEAN /\ over \in BOOLEAN /\ registered \in BOOLEAN /\ flushing \in BOOLEAN
  /\ pending \in Seq([type : {"promise", "listen"}, id : Id, timer : BOOLEAN])
  /\ executing \subseteq running /\ running \subseteq Call
  /\ subs \in [Evt -> 0..MaxListens] /\ held \subseteq Evt
  /\ runs \in [Call -> Nat] /\ fires \in [Evt -> 0..MaxFires] /\ unheard \subseteq Evt

\* The service is called at most once for each call, whether the request came
\* before its channel, timed out there or was cancelled.
AtMostOnce == \A c \in Call : runs[c] <= 1

\* Every promise settles: "when the transport has ended, all requests sent or
\* waiting for Initialize must fail closed" (channelClient.ts).
EveryCallSettles == \A c \in Call : call[c] \in Open ~> call[c] \in Settled

\* "Somebody listens: EventListen is sent; nobody listens: EventDispose"
\* (foundation.ts): no subscription is left when the last listener has gone and
\* nothing about the event is on its way.
NoOrphanSubscription ==
  \A e \in Evt :
    /\ link = "up" /\ e \notin listening
    /\ e \notin ToSet(queued)
    /\ \A i \in DOMAIN up : up[i].id # e
    => subs[e] = 0

\* An event that arrives while somebody listens is heard: "somebody listens:
\* EventListen is sent" (foundation.ts) again for a listener that comes back.
ListenersHear == unheard = {}
=============================================================================
