SPECIFICATION PubSubSpec
CONSTANTS
    s1 = s1  s2 = s2  m1 = m1  m2 = m2  t1 = t1  t2 = t2
    Sub = {s1, s2}
    Msg = {m1, m2}
    Topic = {t1, t2}
    TopicOf <- MCTopicOf
    None = None
INVARIANTS
    PubSubTypeOK
    NoSendOnClosed
PROPERTIES
    ImplementsBroadcast
    NoSenderStuck
    GonePeerForgotten
    EveryMessageDelivered
CHECK_DEADLOCK FALSE
