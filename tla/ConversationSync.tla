--------------------------- MODULE ConversationSync ---------------------------
(* One page and the agent process that serves it a conversation, over channels *)
(* that lose and repeat frames, with a runtime that may die and start again.   *)
EXTENDS ConversationTopic, ConversationStore

vars == <<channels, topic, client>>

Init ==
  /\ requests = <<>> /\ replies = <<>> /\ wire = <<>> /\ mishaps = NoMishap
  /\ TopicInit /\ ClientInit

Store ==
  \/ Open \/ HandleReply \/ HandleWire \/ Expire \/ Deadline
  \/ RetryTimer \/ UserRetry \/ StaleAuthority \/ Close
Agent ==
  \/ Ingest \/ FlushTimer \/ Saturate \/ ResumeFlow \/ Rehydrate \/ FlushRehydrated
  \/ HandleSubscribe \/ HandleResync \/ HandleUnsubscribe \/ Respond \/ Recycle \/ Spawn

Next ==
  \/ Store /\ UNCHANGED topic
  \/ Agent /\ UNCHANGED client
  \/ (LoseFrame \/ RepeatFrame) /\ UNCHANGED <<topic, client>>

Spec == Init /\ [][Next]_vars

\* The first of a channel is taken: HandleReply, HandleWire.
Taken(channel) == channel # <<>> /\ channel' = Tail(channel)

\* Timers fire, what was sent is handled, a saturated connection drains, and a request
\* starts the runtime.  Nobody has to write, to click or to disturb anything.
FairSpec ==
  /\ Spec
  /\ WF_replies(Taken(replies)) /\ WF_wire(Taken(wire))
  /\ WF_vars((Open \/ Expire \/ Deadline \/ RetryTimer) /\ UNCHANGED topic)
  /\ WF_vars(FlushTimer /\ UNCHANGED client)
  /\ WF_vars(ResumeFlow /\ UNCHANGED client)
  /\ WF_vars(FlushRehydrated /\ UNCHANGED client)
  /\ WF_vars((HandleSubscribe \/ HandleResync \/ HandleUnsubscribe \/ Respond) /\ UNCHANGED client)
  /\ WF_vars(requests # <<>> /\ Spawn /\ UNCHANGED client)

----------------------------------------------------------------------------
Quiet == requests = <<>> /\ replies = <<>> /\ wire = <<>> /\ pending = NoReply

\* connecting, with neither a call that counts nor a timer.
Stranded ==
  /\ client.status = "connecting" /\ client.retry = "none"
  /\ \A k \in Subscribes(client) : ~k.current

\* live, with every event there is.
UpToDate ==
  /\ client.status = "live"
  /\ client.view = [epoch |-> epoch, seq |-> currentSeq, rows |-> Shown(log, 0, currentSeq)]

\* The store and the agent's topic keep their types; the retained window lies inside
\* the log, the reconnects inside their delays, and no handler leaves a message unsent.
TypeOK ==
  /\ client.status \in {"idle", "connecting", "live", "error", "closed"}
  /\ client.sub \in 0..nextSub - 1 /\ client.attempts \in 0..MaxAttempts
  /\ client.retry \in {"none", "armed", "stale"}
  /\ client.recovery = NoRecovery \/ client.recovery.ack \in {"waiting", "resume", "snapshot"}
  /\ client.out = <<>> /\ ~client.heal
  /\ up => logs # <<>> /\ floor \in 0..currentSeq
  /\ mishaps.number \in 0..MaxMishaps

\* The page shows a prefix of one runtime's log, whole and in order, and never goes back:
\* deltas of one log are not put on rows of another, no gap is skipped, nothing shown twice.
Promise == INSTANCE ConversationPromise WITH view <- client.view
KeepsPromise == Promise!Spec

\* When nothing is on its way, the agent, the host and the page hold the same subscription:
\* an outdated ACK, a late cancellation or a restart never leaves a live page without one.
SubscriptionsAgree ==
  Quiet /\ up /\ client.status = "live" => sub # NoSub /\ sub.id = client.sub /\ route = sub.id

\* No single disturbance - a lost frame, a restart of the runtime, whenever it comes - makes
\* the page show an error: resync and the bounded reconnects heal it.
OneMishapIsHealed == client.status = "error" => mishaps.number >= 2

\* A page that says connecting has a call or a timer that ends it, as
\* conversationProjectionStore.ts claims of the connect an available event meets.
ConnectingHasOwner == ~Stranded

\* Whatever was lost, repeated, saturated or restarted, the page ends with every event of
\* the conversation, or in an error the user sees, or closed - or connecting for ever beside
\* a running agent, the defect ConnectingHasOwner shows.
Converges == <>[](UpToDate \/ client.status \in {"error", "closed"} \/ (Stranded /\ up))

\* The agent does not serve a page that left for ever: an ACK that comes after close
\* is answered with a cancellation.
ClosedReleases == client.status = "closed" ~> sub = NoSub
=============================================================================
