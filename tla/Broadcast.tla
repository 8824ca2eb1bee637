----------------------------- MODULE Broadcast -----------------------------
(***************************************************************************)
(* What the pub/sub (internal/pubsub) and the websocket stream on top of   *)
(* it promise together: a message goes to every subscription its topic has *)
(* when it is published, once, unless the subscription or the application  *)
(* ends first.  Order is not promised.                                     *)
(***************************************************************************)
EXTENDS FiniteSets

CONSTANTS
    Sub,     \* subscriptions
    Msg,     \* messages
    TopicOf  \* the topic of each subscription and message

VARIABLES
    phase,      \* phase[s]: subscription s is new, in or out
    published,  \* messages published so far
    owed,       \* owed[s]: messages s still has to get
    got,        \* got[s]: messages s got
    stopped     \* the application has stopped

broadcastVars == <<phase, published, owed, got, stopped>>

-----------------------------------------------------------------------------
BroadcastInit ==
    /\ phase = [s \in Sub |-> "new"]
    /\ published = {}
    /\ owed = [s \in Sub |-> {}]
    /\ got = [s \in Sub |-> {}]
    /\ stopped = FALSE

Join(s) ==
    /\ phase[s] = "new"
    /\ \/ ~stopped /\ phase' = [phase EXCEPT ![s] = "in"]
       \/ stopped /\ phase' = [phase EXCEPT ![s] = "out"]
    /\ UNCHANGED <<published, owed, got, stopped>>

Leave(s) ==
    /\ phase[s] = "in"
    /\ phase' = [phase EXCEPT ![s] = "out"]
    /\ owed' = [owed EXCEPT ![s] = {}]
    /\ UNCHANGED <<published, got, stopped>>

Send(m) ==
    /\ m \notin published
    /\ published' = published \cup {m}
    /\ owed' = [s \in Sub |->
                  IF ~stopped /\ phase[s] = "in" /\ TopicOf[s] = TopicOf[m]
                  THEN owed[s] \cup {m} ELSE owed[s]]
    /\ UNCHANGED <<phase, got, stopped>>

Give(s, m) ==
    /\ m \in owed[s]
    /\ owed' = [owed EXCEPT ![s] = @ \ {m}]
    /\ got' = [got EXCEPT ![s] = @ \cup {m}]
    /\ UNCHANGED <<phase, published, stopped>>

(* Only a stopped application loses messages of a subscription that is in. *)
Drop(s, m) ==
    /\ stopped /\ m \in owed[s]
    /\ owed' = [owed EXCEPT ![s] = @ \ {m}]
    /\ UNCHANGED <<phase, published, got, stopped>>

Stop == /\ ~stopped /\ stopped' = TRUE
        /\ UNCHANGED <<phase, published, owed, got>>

BroadcastNext ==
    \/ \E s \in Sub : Join(s) \/ Leave(s)
    \/ \E m \in Msg : Send(m)
    \/ \E s \in Sub, m \in Msg : Give(s, m) \/ Drop(s, m)
    \/ Stop

BroadcastSpec == BroadcastInit /\ [][BroadcastNext]_broadcastVars

(* Every message owed is given, unless the subscription or the application *)
(* ends.                                                                   *)
OwedIsGiven ==
    \A s \in Sub, m \in Msg :
       m \in owed[s] ~> m \in got[s] \/ phase[s] = "out" \/ stopped
=============================================================================
