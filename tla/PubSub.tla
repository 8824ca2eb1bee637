------------------------------- MODULE PubSub -------------------------------
(***************************************************************************)
(* The in-memory pub/sub (internal/pubsub/inmemory.go) and the websocket   *)
(* handlers that subscribe to it (internal/httpapi/subscribe.go).  Publish *)
(* starts a goroutine per subscription, which selects between the channel, *)
(* the subscription's stop channel and the application context; the end of *)
(* a subscription closes both channels, in several steps.                  *)
(*                                                                         *)
(* Publish, Subscribe and the removal from the table run under subsMu and  *)
(* never block: one action each.  The channel is not buffered.             *)
(*                                                                         *)
(* Abstracted: the owner check before the upgrade (module InboxAPI); pings *)
(* (a peer that answers them keeps its connection).                        *)
(***************************************************************************)
EXTENDS FiniteSets

CONSTANTS
    Sub,     \* websocket connections: one subscription each
    Msg,     \* messages, published once each (module Capture)
    Topic,   \* topics: ids of inboxes
    TopicOf, \* the topic of each subscription and message
    None     \* no message

ASSUME PubSubAssumption ==
    /\ TopicOf \in [Sub \cup Msg -> Topic]
    /\ None \notin Msg

VARIABLES
    table,      \* table[t]: the subscriptions ps.subs holds for topic t
    topics,     \* topics ps.subs has an entry for
    stream,     \* stream[s]: where the handler of s is
    sending,    \* sending[s]: messages whose goroutine is in its select
    writing,    \* writing[s]: the message the handler writes to the socket
    got,        \* got[s]: messages written to the socket
    peer,       \* peer[s]: the browser at the other end is there
    reader,     \* reader[s]: the read loop of s runs
    published,  \* messages published so far
    down        \* the application context is cancelled

pubsubVars == <<table, topics, stream, sending, writing, got, peer, reader,
                published, down>>

-----------------------------------------------------------------------------
(* "open" is the handler's select; "stop" to "close" are the steps of      *)
(* unsubscribe still to be done; then the channel is closed.               *)
Stage == {"idle", "open", "writing", "stop", "remove", "wait", "close", "done"}

(* close(state.stop) has happened.                                         *)
Stopped(s) == stream[s] \in {"remove", "wait", "close", "done"}

(* The handler's context: derived from the application's, cancelled by the *)
(* read loop when it ends.                                                 *)
Cancelled(s) == down \/ ~reader[s]

PubSubInit ==
    /\ table = [t \in Topic |-> {}] /\ topics = {}
    /\ stream = [s \in Sub |-> "idle"]
    /\ sending = [s \in Sub |-> {}]
    /\ writing = [s \in Sub |-> None]
    /\ got = [s \in Sub |-> {}]
    /\ peer = [s \in Sub |-> TRUE]
    /\ reader = [s \in Sub |-> FALSE]
    /\ published = {}
    /\ down = FALSE

Becomes(s, stage) == stream' = [stream EXCEPT ![s] = stage]

-----------------------------------------------------------------------------
(* Mutant: only one subscription is found.                                 *)
ReceiversFirst(m) ==
    IF TopicOf[m] \in topics /\ table[TopicOf[m]] # {}
    THEN {CHOOSE s \in table[TopicOf[m]] : TRUE} ELSE {}

(* The subscriptions Publish finds for m.                                  *)
Receivers(m) == IF TopicOf[m] \in topics THEN table[TopicOf[m]] ELSE {}

(* An error, and no message, once the context is done.                     *)
Publish(m) ==
    /\ m \notin published
    /\ published' = published \cup {m}
    /\ sending' = [s \in Sub |-> IF ~down /\ s \in Receivers(m)
                                 THEN sending[s] \cup {m} ELSE sending[s]]
    /\ UNCHANGED <<table, topics, stream, writing, got, peer, reader, down>>

(* Subscribe, and the goroutines stream starts; an error when the context  *)
(* is done.                                                                *)
Subscribe(s) ==
    /\ stream[s] = "idle"
    /\ \/ /\ down
          /\ Becomes(s, "done")
          /\ UNCHANGED <<table, topics, reader>>
       \/ /\ ~down
          /\ Becomes(s, "open")
          /\ table' = [table EXCEPT ![TopicOf[s]] = @ \cup {s}]
          /\ topics' = topics \cup {TopicOf[s]}
          /\ reader' = [reader EXCEPT ![s] = TRUE]
    /\ UNCHANGED <<sending, writing, got, peer, published, down>>

-----------------------------------------------------------------------------
(* The goroutine of m hands it over to the handler.                        *)
Deliver(s, m) ==
    /\ m \in sending[s]
    /\ stream[s] = "open"
    /\ sending' = [sending EXCEPT ![s] = @ \ {m}]
    /\ writing' = [writing EXCEPT ![s] = m]
    /\ Becomes(s, "writing")
    /\ UNCHANGED <<table, topics, got, peer, reader, published, down>>

(* Mutants: the stop channel is not selected on; a default case.           *)
GiveUpNotStopped(s, m) ==
    /\ m \in sending[s]
    /\ down
    /\ sending' = [sending EXCEPT ![s] = @ \ {m}]
    /\ UNCHANGED <<table, topics, stream, writing, got, peer, reader,
                   published, down>>

GiveUpBusy(s, m) ==
    /\ m \in sending[s]
    /\ Stopped(s) \/ down \/ stream[s] = "writing"
    /\ sending' = [sending EXCEPT ![s] = @ \ {m}]
    /\ UNCHANGED <<table, topics, stream, writing, got, peer, reader,
                   published, down>>

(* ... or sees stop or the application context first.                      *)
GiveUp(s, m) ==
    /\ m \in sending[s]
    /\ Stopped(s) \/ down
    /\ sending' = [sending EXCEPT ![s] = @ \ {m}]
    /\ UNCHANGED <<table, topics, stream, writing, got, peer, reader,
                   published, down>>

(* WriteJSON, with its deadline of 5 s: a slow peer is an error, one that  *)
(* is gone need not be.                                                    *)
Written(s) ==
    /\ stream[s] = "writing"
    /\ got' = [got EXCEPT ![s] = @ \cup {writing[s]}]
    /\ writing' = [writing EXCEPT ![s] = None]
    /\ Becomes(s, "open")
    /\ UNCHANGED <<table, topics, sending, peer, reader, published, down>>

(* Mutant: the message is not forgotten.                                   *)
WriteFailedKept(s) ==
    /\ stream[s] = "writing"
    /\ Becomes(s, "stop")
    /\ UNCHANGED <<table, topics, sending, writing, got, peer, reader, published, down>>

WriteFailed(s) ==
    /\ stream[s] = "writing"
    /\ writing' = [writing EXCEPT ![s] = None]
    /\ Becomes(s, "stop")
    /\ UNCHANGED <<table, topics, sending, got, peer, reader, published, down>>

(* The handler's select sees its context done: it returns.                 *)
Return(s) ==
    /\ stream[s] = "open"
    /\ Cancelled(s)
    /\ Becomes(s, "stop")
    /\ UNCHANGED <<table, topics, sending, writing, got, peer, reader,
                   published, down>>

-----------------------------------------------------------------------------
(* unsubscribe, step by step.                                              *)
CloseStop(s) ==
    /\ stream[s] = "stop"
    /\ Becomes(s, "remove")
    /\ UNCHANGED <<table, topics, sending, writing, got, peer, reader,
                   published, down>>

Remove(s) ==
    /\ stream[s] = "remove"
    /\ table' = [table EXCEPT ![TopicOf[s]] = @ \ {s}]
    /\ topics' = IF table'[TopicOf[s]] = {} THEN topics \ {TopicOf[s]} ELSE topics
    /\ Becomes(s, "wait")
    /\ UNCHANGED <<sending, writing, got, peer, reader, published, down>>

(* Mutant: no wait.                                                        *)
WaitForNone(s) ==
    /\ stream[s] = "wait"
    /\ Becomes(s, "close")
    /\ UNCHANGED <<table, topics, sending, writing, got, peer, reader,
                   published, down>>

(* state.wg.Wait(); the loop before it finds nothing to drain, as the      *)
(* channel is not buffered.                                                *)
Wait(s) ==
    /\ stream[s] = "wait"
    /\ sending[s] = {}
    /\ Becomes(s, "close")
    /\ UNCHANGED <<table, topics, sending, writing, got, peer, reader,
                   published, down>>

(* close(sub); the handler returns and closes the connection.              *)
CloseChannel(s) ==
    /\ stream[s] = "close"
    /\ Becomes(s, "done")
    /\ UNCHANGED <<table, topics, sending, writing, got, peer, reader,
                   published, down>>

-----------------------------------------------------------------------------
PeerLeaves(s) ==
    /\ stream[s] # "idle" /\ peer[s]
    /\ peer' = [peer EXCEPT ![s] = FALSE]
    /\ UNCHANGED <<table, topics, stream, sending, writing, got, reader,
                   published, down>>

(* Mutant: the end of the read loop goes unnoticed until the handler ends. *)
ReaderEndsLate(s) ==
    /\ reader[s]
    /\ stream[s] = "done"
    /\ reader' = [reader EXCEPT ![s] = FALSE]
    /\ UNCHANGED <<table, topics, stream, sending, writing, got, peer,
                   published, down>>

(* A read fails: a close frame, the deadline for a pong, or the connection *)
(* closed by the handler.  The read loop cancels the handler's context.    *)
ReaderEnds(s) ==
    /\ reader[s]
    /\ ~peer[s] \/ stream[s] = "done"
    /\ reader' = [reader EXCEPT ![s] = FALSE]
    /\ UNCHANGED <<table, topics, stream, sending, writing, got, peer,
                   published, down>>

Shutdown ==
    /\ ~down /\ down' = TRUE
    /\ UNCHANGED <<table, topics, stream, sending, writing, got, peer, reader,
                   published>>

-----------------------------------------------------------------------------
Unsubscribe(s) == CloseStop(s) \/ Remove(s) \/ Wait(s) \/ CloseChannel(s)

PubSubNext ==
    \/ \E m \in Msg : Publish(m)
    \/ \E s \in Sub, m \in Msg : Deliver(s, m) \/ GiveUp(s, m)
    \/ \E s \in Sub : \/ Subscribe(s) \/ Written(s) \/ WriteFailed(s)
                      \/ Return(s) \/ Unsubscribe(s)
                      \/ PeerLeaves(s) \/ ReaderEnds(s)
    \/ Shutdown

(* The scheduler runs every goroutine that can run; writes and reads have  *)
(* deadlines.  A handler's select chooses at random among what is ready,   *)
(* and senders queue for the channel in order: strong fairness.            *)
PubSubFairness ==
    /\ \A s \in Sub, m \in Msg : /\ SF_pubsubVars(Deliver(s, m))
                                 /\ WF_pubsubVars(GiveUp(s, m))
    /\ \A s \in Sub : /\ SF_pubsubVars(Return(s))
                      /\ WF_pubsubVars(Written(s) \/ WriteFailed(s))
                      /\ WF_pubsubVars(Unsubscribe(s))
                      /\ WF_pubsubVars(ReaderEnds(s))

PubSubSpec == PubSubInit /\ [][PubSubNext]_pubsubVars /\ PubSubFairness

-----------------------------------------------------------------------------
PubSubTypeOK ==
    /\ table \in [Topic -> SUBSET Sub] /\ topics \in SUBSET Topic
    /\ stream \in [Sub -> Stage]
    /\ sending \in [Sub -> SUBSET Msg]
    /\ writing \in [Sub -> Msg \cup {None}]
    /\ \A s \in Sub : writing[s] # None <=> stream[s] = "writing"
    /\ got \in [Sub -> SUBSET Msg]
    /\ peer \in [Sub -> BOOLEAN] /\ reader \in [Sub -> BOOLEAN]
    /\ published \in SUBSET Msg
    /\ down \in BOOLEAN

(* The channel is only closed when no goroutine may still send on it: a    *)
(* send on a closed channel would panic and take the whole server down,    *)
(* captures included.                                                      *)
NoSendOnClosed == \A s \in Sub : stream[s] = "done" => sending[s] = {}

(* No goroutine outlives its purpose: whatever the browser, the handler    *)
(* and the application do, a message is delivered or given up.             *)
NoSenderStuck ==
    \A s \in Sub, m \in Msg : m \in sending[s] ~> m \notin sending[s]

(* A browser that goes away leaves nothing behind: no entry in the table,  *)
(* no entry for an empty topic, no goroutine.                              *)
NothingLeft(s) ==
    /\ stream[s] = "done" /\ sending[s] = {} /\ ~reader[s]
    /\ \A t \in Topic : s \notin table[t] /\ (t \in topics => table[t] # {})

GonePeerForgotten ==
    \A s \in Sub : ~peer[s] ~> NothingLeft(s)

(* The refinement: a subscription is in until its handler returns; what    *)
(* its goroutines hold and its handler writes is owed.                     *)
Phase == [s \in Sub |-> CASE stream[s] = "idle" -> "new"
                          [] stream[s] \in {"open", "writing"} -> "in"
                          [] OTHER -> "out"]
Owed == [s \in Sub |-> IF Phase[s] # "in" THEN {}
                       ELSE sending[s] \cup ({writing[s]} \ {None})]

Abstract == INSTANCE Broadcast WITH phase <- Phase, owed <- Owed, stopped <- down

(* Every message reaches every subscription of its topic at most once, and *)
(* none that it is not for.                                                *)
ImplementsBroadcast == Abstract!BroadcastSpec

(* ... and in the end it does, unless the subscription or the application  *)
(* ends.                                                                   *)
EveryMessageDelivered == Abstract!OwedIsGiven
=============================================================================
