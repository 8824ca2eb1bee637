----------------------------- MODULE MCPubSub -----------------------------
(* TLC instance of PubSub: two subscriptions and two messages of one topic.*)
EXTENDS PubSub, TLC

CONSTANTS s1, s2, m1, m2, t1, t2

MCTopicOf == [x \in Sub \cup Msg |-> t1]
===========================================================================
