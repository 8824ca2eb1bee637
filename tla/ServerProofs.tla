---------------------------- MODULE ServerProofs ----------------------------
(***************************************************************************)
(* Proofs about the parts of the server that stand outside its store and   *)
(* its handlers.                                                           *)
(*                                                                         *)
(* RateLimiter, for every number of callers, every limit, window and table *)
(* size: what the table has forgotten or still counts is tied to the       *)
(* history of the calls that were let through.                             *)
(*                                                                         *)
(* PubSub, for every number of connections, messages and topics: no        *)
(* goroutine sends on a closed channel, and every step is a step of        *)
(* Broadcast.  Liveness is left to TLC.                                    *)
(*                                                                         *)
(* Boot and ConfigFile, for any number of servers, databases, migrations   *)
(* and writers, any arguments and any number of steps.                     *)
(***************************************************************************)
EXTENDS RateLimiter, PubSub, Boot, TLAPS

(* A rounded-up wait is longer than the wait.                              *)
LEMMA RoundedUp ==
    ASSUME NEW x \in Nat, NEW s \in Nat \ {0}
    PROVE  /\ (x \div s + 1) * s \in Nat
           /\ (x \div s + 1) * s > x
<1>1. x \div s \in Nat
  OBVIOUS
<1>2. x = s * (x \div s) + (x % s)
  OBVIOUS
<1>3. x % s \in 0 .. s - 1
  OBVIOUS
<1>. QED
  BY <1>1, <1>2, <1>3

-----------------------------------------------------------------------------
(* The inductive invariant.  It ties the table to the history: which of    *)
(* the granted calls belong to the window the table still counts.          *)

WindowBegin(k) == bucket[k].resetAt - Window

(* A counted window holds the last "used" calls; all others are older.     *)
CountedWindow(k) ==
    k \in tracked =>
      /\ bucket[k].used \in 1 .. Limit
      /\ WindowBegin(k) \in 0 .. now
      /\ \A n \in 1 .. Len(log[k]) :
           \/ log[k][n].start + Window < WindowBegin(k)
           \/ /\ log[k][n].start = WindowBegin(k)
              /\ n > Len(log[k]) - bucket[k].used

(* What is no longer in the table has expired.                             *)
ForgottenWindow(k) ==
    k \notin tracked =>
      \A n \in 1 .. Len(log[k]) : log[k][n].start + Window < now

(* A call is granted within its window.                                    *)
GrantInWindow(k) ==
    \A n \in 1 .. Len(log[k]) :
       log[k][n].at \in log[k][n].start .. log[k][n].start + Window

(* A promise outlasts the window it was made in.                           *)
PromiseKept(k) ==
    retryAt[k].since >= 0 =>
      /\ retryAt[k].since <= now
      /\ k \notin tracked => retryAt[k].since < now
      /\ k \in tracked => \/ WindowBegin(k) > retryAt[k].since
                          \/ /\ retryAt[k].since <= bucket[k].resetAt
                             /\ bucket[k].resetAt < retryAt[k].at

Inv ==
    /\ TypeOK
    /\ LimitPerWindow
    /\ \A k \in Key : /\ CountedWindow(k) /\ ForgottenWindow(k)
                      /\ GrantInWindow(k) /\ PromiseKept(k)

(* Appending to a log.                                                     *)
LEMMA Appended ==
    ASSUME NEW s \in Seq(Grant), NEW g \in Grant
    PROVE  /\ Append(s, g) \in Seq(Grant)
           /\ Len(Append(s, g)) = Len(s) + 1
           /\ \A n \in 1 .. Len(s) : Append(s, g)[n] = s[n]
           /\ Append(s, g)[Len(s) + 1] = g
  OBVIOUS

LEMMA Element ==
    ASSUME NEW s \in Seq(Grant), NEW n \in 1 .. Len(s)
    PROVE  s[n].at \in Nat /\ s[n].start \in Nat
<1>1. s[n] \in Grant
  OBVIOUS
<1>. QED
  BY <1>1 DEF Grant

LEMMA InitInv == Init => Inv
  BY RateLimiterAssumption
  DEF Init, Inv, TypeOK, Bucket, Grant, Promise, LimitPerWindow, CountedWindow,
      ForgottenWindow, GrantInWindow, PromiseKept

-----------------------------------------------------------------------------
(* A call that is granted: Open and Spend change the log of k only.        *)
LEMMA GrantKeepsInv ==
    ASSUME Inv, NEW k \in Key, Open(k) \/ Spend(k)
    PROVE  Inv'
<1>. USE RateLimiterAssumption
<1>. DEFINE begin == IF Fresh(k) THEN now ELSE WindowBegin(k)
            g == [at |-> now, start |-> begin]
<1>1. /\ now \in Nat /\ bucket \in [Key -> Bucket] /\ log \in [Key -> Seq(Grant)]
      /\ retryAt \in [Key -> Promise] /\ tracked \in SUBSET Key
  BY DEF Inv, TypeOK
<1>2. /\ bucket[k].used \in Nat /\ bucket[k].resetAt \in Nat
      /\ log[k] \in Seq(Grant) /\ Len(log[k]) \in Nat
  BY <1>1 DEF Bucket
<1>3. /\ CountedWindow(k) /\ ForgottenWindow(k) /\ GrantInWindow(k)
      /\ PromiseKept(k)
  BY DEF Inv
<1>4. begin \in 0 .. now /\ now <= begin + Window
  BY <1>1, <1>2, <1>3 DEF Fresh, Expired, CountedWindow, WindowBegin
<1>5. g \in Grant /\ g.at = now /\ g.start = begin
  BY <1>1, <1>4 DEF Grant
<1>6. log' = [log EXCEPT ![k] = Append(log[k], g)]
  BY DEF Open, Spend, Granted, WindowBegin
<1>7. log'[k] = Append(log[k], g) /\ \A j \in Key \ {k} : log'[j] = log[j]
  BY <1>1, <1>6
<1>8. /\ Len(log'[k]) = Len(log[k]) + 1
      /\ \A n \in 1 .. Len(log[k]) : log'[k][n] = log[k][n]
      /\ log'[k][Len(log[k]) + 1].at = now
      /\ log'[k][Len(log[k]) + 1].start = begin
  BY <1>2, <1>5, <1>7, Appended
<1>9. /\ bucket'[k].resetAt = begin + Window
      /\ bucket'[k].used = IF Fresh(k) THEN 1 ELSE bucket[k].used + 1
      /\ \A j \in Key \ {k} : bucket'[j] = bucket[j]
      /\ bucket' \in [Key -> Bucket]
  <2>1. CASE Open(k)
    BY <1>1, <2>1 DEF Open, Bucket
  <2>2. CASE Spend(k)
    <3>1. bucket' = [bucket EXCEPT ![k].used = bucket[k].used + 1] /\ ~Fresh(k)
      BY <2>2 DEF Spend
    <3>2. bucket' \in [Key -> Bucket] /\ \A j \in Key \ {k} : bucket'[j] = bucket[j]
      BY <1>1, <1>2, <3>1 DEF Bucket
    <3>3. bucket'[k].resetAt = bucket[k].resetAt
          /\ bucket'[k].used = bucket[k].used + 1
      BY <1>1, <3>1 DEF Bucket
    <3>4. begin + Window = bucket[k].resetAt
      BY <1>2, <3>1 DEF WindowBegin
    <3>. QED
      BY <3>1, <3>2, <3>3, <3>4
  <2>. QED
    BY <2>1, <2>2
<1>10. k \in tracked' /\ tracked' \subseteq tracked \cup {k}
  BY <1>1 DEF Open, Spend, Fresh, Evicted
<1>11. \A j \in tracked \ tracked' : Expired(j)
  BY DEF Open, Spend, Evicted
<1>12. now' = now /\ retryAt' = retryAt
  BY DEF Open, Spend
<1>13. TypeOK'
  <2>1. log' \in [Key -> Seq(Grant)]
    BY <1>1, <1>2, <1>5, <1>6, Appended
  <2>. QED
    BY <1>1, <1>9, <1>10, <1>12, <2>1 DEF TypeOK
<1>. HIDE DEF begin, g
<1>14. \A n \in 1 .. Len(log[k]) :
          \/ log[k][n].start + Window < begin
          \/ /\ ~Fresh(k) /\ log[k][n].start = begin
             /\ n > Len(log[k]) - bucket[k].used
  <2>. TAKE n \in 1 .. Len(log[k])
  <2>0. log[k][n].start \in Nat
    BY <1>2, Element
  <2>1. CASE k \notin tracked
    BY <1>3, <2>0, <2>1 DEF ForgottenWindow, Fresh, begin
  <2>2. CASE k \in tracked /\ Expired(k)
    BY <1>1, <1>2, <1>3, <2>0, <2>2 DEF CountedWindow, Fresh, Expired, WindowBegin, begin
  <2>3. CASE ~Fresh(k)
    BY <1>3, <2>3 DEF CountedWindow, Fresh, begin
  <2>. QED
    BY <2>1, <2>2, <2>3 DEF Fresh
<1>15. LimitPerWindow'
  <2>. SUFFICES ASSUME NEW j \in Key, NEW n \in 1 .. Len(log'[j]) - Limit
                PROVE  log'[j][n].start + Window < log'[j][n + Limit].start
    BY DEF LimitPerWindow
  <2>1. CASE j # k
    BY <1>7, <2>1 DEF Inv, LimitPerWindow
  <2>2. CASE j = k /\ n + Limit <= Len(log[k])
    <3>1. n \in 1 .. Len(log[k]) - Limit /\ n + Limit \in 1 .. Len(log[k])
      BY <1>2, <1>8, <2>2
    <3>2. log[k][n].start + Window < log[k][n + Limit].start
      BY <3>1 DEF Inv, LimitPerWindow
    <3>3. log'[k][n] = log[k][n] /\ log'[k][n + Limit] = log[k][n + Limit]
      <4>1. n \in 1 .. Len(log[k])
        BY <1>2, <2>2
      <4>. QED
        BY <1>8, <3>1, <4>1
    <3>. QED
      BY <2>2, <3>2, <3>3
  <2>3. CASE j = k /\ n + Limit = Len(log[k]) + 1
    <3>1. n \in 1 .. Len(log[k])
      BY <1>2, <1>8, <2>3
    <3>2. ~Fresh(k) => n <= Len(log[k]) - bucket[k].used
      BY <1>2, <2>3, <3>1 DEF Open, Spend, WithinLimit
    <3>3. log[k][n].start + Window < begin
      BY <1>2, <1>14, <3>1, <3>2
    <3>. QED
      BY <1>2, <1>8, <2>3, <3>1, <3>3
  <2>. QED
    BY <1>2, <1>8, <2>1, <2>2, <2>3
<1>16. ASSUME NEW j \in Key
       PROVE  /\ CountedWindow(j)' /\ ForgottenWindow(j)'
              /\ GrantInWindow(j)' /\ PromiseKept(j)'
  <2>1. CASE j # k
    <3>1. /\ CountedWindow(j) /\ ForgottenWindow(j) /\ GrantInWindow(j)
          /\ PromiseKept(j)
      BY DEF Inv
    <3>2. /\ bucket'[j] = bucket[j] /\ log'[j] = log[j] /\ now' = now
          /\ retryAt'[j] = retryAt[j] /\ (j \in tracked' => j \in tracked)
      BY <1>7, <1>9, <1>10, <1>12, <2>1
    <3>3. bucket[j].resetAt \in Nat /\ bucket[j].used \in Nat
          /\ log[j] \in Seq(Grant) /\ retryAt[j].since \in Int
      BY <1>1 DEF Bucket, Promise
    <3>4. CountedWindow(j)' /\ GrantInWindow(j)'
      BY <3>1, <3>2 DEF CountedWindow, GrantInWindow, WindowBegin
    <3>5. ForgottenWindow(j)'
      <4>. SUFFICES ASSUME j \notin tracked', NEW n \in 1 .. Len(log[j])
                    PROVE  log[j][n].start + Window < now
        BY <3>2 DEF ForgottenWindow
      <4>0. log[j][n].start \in Nat
        BY <3>3, Element
      <4>1. CASE j \notin tracked
        BY <3>1, <4>1 DEF ForgottenWindow
      <4>2. CASE j \in tracked
        <5>1. now > bucket[j].resetAt /\ bucket[j].used \in 1 .. Limit
          BY <1>11, <3>1, <4>2 DEF Expired, CountedWindow
        <5>2. log[j][n].start <= WindowBegin(j)
          <6>1. \/ log[j][n].start + Window < WindowBegin(j)
                \/ log[j][n].start = WindowBegin(j)
            BY <3>1, <4>2 DEF CountedWindow
          <6>2. WindowBegin(j) \in Int /\ Window \in Nat
            BY <1>1, <3>3 DEF WindowBegin
          <6>. QED
            BY <4>0, <6>1, <6>2
        <5>. QED
          BY <1>1, <3>3, <4>0, <5>1, <5>2 DEF WindowBegin
      <4>. QED
        BY <4>1, <4>2
    <3>6. PromiseKept(j)'
      <4>1. CASE j \in tracked \ tracked'
        BY <1>1, <1>11, <3>1, <3>2, <3>3, <4>1
        DEF PromiseKept, CountedWindow, Expired, WindowBegin
      <4>2. CASE ~(j \in tracked \ tracked')
        BY <3>1, <3>2, <4>2 DEF PromiseKept, WindowBegin
      <4>. QED
        BY <4>1, <4>2
    <3>. QED
      BY <3>4, <3>5, <3>6
  <2>2. CASE j = k
    <3>1. WindowBegin(k)' = begin
      BY <1>4, <1>9 DEF WindowBegin
    <3>2. bucket'[k].used \in 1 .. Limit
      BY <1>2, <1>3, <1>9 DEF Open, Spend, WithinLimit, Fresh, CountedWindow
    <3>3. CountedWindow(k)'
      <4>. SUFFICES ASSUME NEW n \in 1 .. Len(log'[k])
                    PROVE  \/ log'[k][n].start + Window < begin
                           \/ /\ log'[k][n].start = begin
                              /\ n > Len(log'[k]) - bucket'[k].used
        BY <1>4, <1>12, <3>1, <3>2 DEF CountedWindow
      <4>1. CASE n = Len(log[k]) + 1
        BY <1>2, <1>8, <3>2, <4>1
      <4>2. CASE n \in 1 .. Len(log[k])
        <5>1. CASE log[k][n].start + Window < begin
          BY <1>8, <4>2, <5>1
        <5>2. CASE ~Fresh(k) /\ log[k][n].start = begin
                   /\ n > Len(log[k]) - bucket[k].used
          <6>1. log'[k][n] = log[k][n] /\ Len(log'[k]) = Len(log[k]) + 1
            BY <1>8, <4>2
          <6>2. bucket'[k].used = bucket[k].used + 1
            BY <1>9, <5>2
          <6>3. bucket[k].used \in Int /\ Len(log[k]) \in Int /\ n \in Int
            BY <1>1, <1>2, <4>2 DEF Bucket
          <6>. QED
            BY <5>2, <6>1, <6>2, <6>3
        <5>3. \/ log[k][n].start + Window < begin
              \/ /\ ~Fresh(k) /\ log[k][n].start = begin
                 /\ n > Len(log[k]) - bucket[k].used
          BY <1>14, <4>2
        <5>. QED
          BY <5>1, <5>2, <5>3
      <4>. QED
        BY <1>2, <1>8, <4>1, <4>2
    <3>4. ForgottenWindow(k)'
      BY <1>10 DEF ForgottenWindow
    <3>5. GrantInWindow(k)'
      <4>. SUFFICES ASSUME NEW n \in 1 .. Len(log'[k])
                    PROVE  log'[k][n].at \in log'[k][n].start .. log'[k][n].start + Window
        BY DEF GrantInWindow
      <4>1. CASE n = Len(log[k]) + 1
        BY <1>1, <1>4, <1>8, <4>1
      <4>2. CASE n \in 1 .. Len(log[k])
        BY <1>3, <1>8, <4>2 DEF GrantInWindow
      <4>. QED
        BY <1>2, <1>8, <4>1, <4>2
    <3>6. PromiseKept(k)'
      <4>1. retryAt[k].since \in Int /\ retryAt[k].at \in Nat
        BY <1>1 DEF Promise
      <4>2. CASE ~Fresh(k)
        <5>1. k \in tracked /\ begin = WindowBegin(k)
          BY <4>2 DEF Fresh, begin
        <5>2. bucket'[k].resetAt = bucket[k].resetAt
          BY <1>2, <1>9, <5>1 DEF WindowBegin
        <5>. QED
          BY <1>3, <1>10, <1>12, <3>1, <5>1, <5>2 DEF PromiseKept
      <4>3. CASE Fresh(k)
        BY <1>1, <1>2, <1>3, <1>10, <1>12, <3>1, <4>1, <4>3
        DEF PromiseKept, Fresh, Expired, CountedWindow, WindowBegin, begin
      <4>. QED
        BY <4>2, <4>3
    <3>. QED
      BY <2>2, <3>3, <3>4, <3>5, <3>6
  <2>. QED
    BY <2>1, <2>2
<1>. QED
  BY <1>13, <1>15, <1>16 DEF Inv

(* A denied call: only the promise made to k changes.                      *)
LEMMA DenyKeepsInv ==
    ASSUME Inv, NEW k \in Key, Deny(k)
    PROVE  Inv'
<1>. USE RateLimiterAssumption
<1>1. now \in Nat /\ bucket \in [Key -> Bucket] /\ retryAt \in [Key -> Promise]
  BY DEF Inv, TypeOK
<1>2. k \in tracked /\ now <= bucket[k].resetAt /\ bucket[k].resetAt \in Nat
  BY <1>1 DEF Deny, Fresh, Expired, Bucket
<1>3. UNCHANGED <<now, tracked, bucket, log>>
  BY DEF Deny
<1>4. RetryAfter(k) \in Nat /\ RetryAfter(k) > bucket[k].resetAt - now
  <2>. DEFINE wait == bucket[k].resetAt - now
  <2>1. wait \in Nat
    BY <1>1, <1>2
  <2>. HIDE DEF wait
  <2>2. /\ (wait \div Second + 1) * Second \in Nat
        /\ (wait \div Second + 1) * Second > wait
    BY <2>1, RoundedUp
  <2>. QED
    BY <2>2 DEF RetryAfter, wait
<1>5. retryAt' = [retryAt EXCEPT ![k] = [since |-> now, at |-> now + RetryAfter(k)]]
  BY DEF Deny
<1>6. TypeOK'
  BY <1>1, <1>3, <1>4, <1>5 DEF Inv, TypeOK, Promise
<1>7. LimitPerWindow'
  BY <1>3 DEF Inv, LimitPerWindow
<1>8. ASSUME NEW j \in Key
      PROVE  CountedWindow(j)' /\ ForgottenWindow(j)' /\ GrantInWindow(j)'
  BY <1>3 DEF Inv, CountedWindow, ForgottenWindow, GrantInWindow, WindowBegin
<1>9. ASSUME NEW j \in Key
      PROVE  PromiseKept(j)'
  <2>1. CASE j = k
    BY <1>1, <1>2, <1>3, <1>4, <1>5, <2>1 DEF PromiseKept
  <2>2. CASE j # k
    BY <1>1, <1>3, <1>5, <2>2 DEF Inv, PromiseKept, WindowBegin
  <2>. QED
    BY <2>1, <2>2
<1>. QED
  BY <1>6, <1>7, <1>8, <1>9 DEF Inv

(* Time passing only ages the windows.                                     *)
LEMMA TickKeepsInv ==
    ASSUME Inv, Tick
    PROVE  Inv'
<1>. USE RateLimiterAssumption
<1>1. /\ now \in Nat /\ now' = now + 1
      /\ log \in [Key -> Seq(Grant)] /\ retryAt \in [Key -> Promise]
      /\ bucket \in [Key -> Bucket]
  BY DEF Inv, TypeOK, Tick
<1>2. UNCHANGED <<tracked, bucket, log, retryAt>>
  BY DEF Tick
<1>3. TypeOK' /\ LimitPerWindow'
  BY <1>1, <1>2 DEF Inv, TypeOK, LimitPerWindow
<1>4. ASSUME NEW k \in Key
      PROVE  /\ CountedWindow(k)' /\ ForgottenWindow(k)'
             /\ GrantInWindow(k)' /\ PromiseKept(k)'
  <2>1. /\ CountedWindow(k) /\ ForgottenWindow(k) /\ GrantInWindow(k)
        /\ PromiseKept(k)
    BY DEF Inv
  <2>2. log[k] \in Seq(Grant) /\ retryAt[k].since \in Int
        /\ bucket[k].resetAt \in Nat
    BY <1>1 DEF Promise, Bucket
  <2>3. CountedWindow(k)'
    BY <1>1, <1>2, <2>1, <2>2 DEF CountedWindow, WindowBegin
  <2>4. ForgottenWindow(k)'
    BY <1>1, <1>2, <2>1, <2>2, Element DEF ForgottenWindow
  <2>5. GrantInWindow(k)'
    BY <1>2, <2>1 DEF GrantInWindow
  <2>6. PromiseKept(k)'
    BY <1>1, <1>2, <2>1, <2>2 DEF PromiseKept, WindowBegin
  <2>. QED
    BY <2>3, <2>4, <2>5, <2>6
<1>. QED
  BY <1>3, <1>4 DEF Inv

LEMMA NextKeepsInv == Inv /\ [Next]_vars => Inv'
<1>. SUFFICES ASSUME Inv, [Next]_vars PROVE Inv'
  OBVIOUS
<1>1. CASE Tick
  BY <1>1, TickKeepsInv
<1>2. ASSUME NEW k \in Key, Allow(k) PROVE Inv'
  BY <1>2, GrantKeepsInv, DenyKeepsInv DEF Allow
<1>3. CASE UNCHANGED vars
  BY <1>3 DEF vars, Inv, TypeOK, LimitPerWindow, CountedWindow,
              ForgottenWindow, GrantInWindow, PromiseKept, WindowBegin,
              Bucket, Grant, Promise
<1>. QED
  BY <1>1, <1>2, <1>3 DEF Next

LEMMA Invariance == Spec => []Inv
  BY InitInv, NextKeepsInv, PTL DEF Spec

-----------------------------------------------------------------------------
(* The limiter's table, clock and history keep their types.                *)
THEOREM TypeCorrect == Spec => []TypeOK
<1>1. Inv => TypeOK
  BY DEF Inv
<1>. QED
  BY <1>1, Invariance, PTL

(* Allow (limiter.go): no caller gets more than Limit calls out of one     *)
(* window, however evict empties the table.                                *)
THEOREM LimitHolds == Spec => []LimitPerWindow
<1>1. Inv => LimitPerWindow
  BY DEF Inv
<1>. QED
  BY <1>1, Invariance, PTL

(* Two windows apart in the history is more than one window apart in time. *)
LEMMA TwoWindowsApart ==
    ASSUME NEW w \in Nat, NEW at \in Nat, NEW start \in Nat, NEW middle \in Nat,
           NEW later \in Nat, NEW laterAt \in Nat,
           at <= start + w, start + w < middle, middle + w < later,
           later <= laterAt
    PROVE  at + w < laterAt
  OBVIOUS

(* Over any stretch of one window's length, wherever it begins, a caller   *)
(* gets at most twice the limit.                                           *)
THEOREM TwiceLimitHolds == Spec => []TwiceLimitPerStretch
<1>1. ASSUME Inv PROVE TwiceLimitPerStretch
  <2>. USE RateLimiterAssumption
  <2>. SUFFICES ASSUME NEW k \in Key, NEW n \in 1 .. Len(log[k]) - 2 * Limit
                PROVE  log[k][n].at + Window < log[k][n + 2 * Limit].at
    BY DEF TwiceLimitPerStretch
  <2>1. log[k] \in Seq(Grant) /\ Len(log[k]) \in Nat
    BY <1>1 DEF Inv, TypeOK
  <2>. DEFINE mid == n + Limit
              far == n + 2 * Limit
  <2>2. /\ n \in 1 .. Len(log[k]) - Limit /\ mid \in 1 .. Len(log[k]) - Limit
        /\ n \in 1 .. Len(log[k]) /\ mid \in 1 .. Len(log[k])
        /\ far \in 1 .. Len(log[k])
        /\ mid = n + Limit /\ far = mid + Limit
    BY <2>1
  <2>. HIDE DEF mid, far
  <2>3. /\ log[k][n].start + Window < log[k][mid].start
        /\ log[k][mid].start + Window < log[k][far].start
    <3>1. \A m \in 1 .. Len(log[k]) - Limit :
             log[k][m].start + Window < log[k][m + Limit].start
      BY <1>1 DEF Inv, LimitPerWindow
    <3>. QED
      BY <2>2, <3>1
  <2>4. ASSUME NEW m \in 1 .. Len(log[k])
        PROVE  /\ log[k][m].at \in Nat /\ log[k][m].start \in Nat
               /\ log[k][m].start <= log[k][m].at
               /\ log[k][m].at <= log[k][m].start + Window
    <3>1. log[k][m].at \in Nat /\ log[k][m].start \in Nat
      BY <2>1, Element
    <3>2. GrantInWindow(k)
      BY <1>1 DEF Inv
    <3>. QED
      BY <3>1, <3>2 DEF GrantInWindow
  <2>5. log[k][n].at + Window < log[k][far].at
    <3>1. /\ log[k][n].at \in Nat /\ log[k][n].start \in Nat
          /\ log[k][n].at <= log[k][n].start + Window
      BY <2>2, <2>4
    <3>2. log[k][mid].start \in Nat
      BY <2>2, <2>4
    <3>3. /\ log[k][far].at \in Nat /\ log[k][far].start \in Nat
          /\ log[k][far].start <= log[k][far].at
      BY <2>2, <2>4
    <3>. QED
      BY <2>3, <3>1, <3>2, <3>3, TwoWindowsApart
  <2>. QED
    BY <2>5 DEF far
<1>. QED
  BY <1>1, Invariance, PTL

(* limited (api.go) rounds the wait up past it: a denied caller that comes *)
(* back when Retry-After said is not denied for the same window again.     *)
THEOREM RetryAfterHolds == Spec => []RetryAfterIsEnough
<1>1. ASSUME Inv PROVE RetryAfterIsEnough
  <2>. SUFFICES ASSUME NEW k \in Key, retryAt[k].since >= 0,
                       now >= retryAt[k].at, ~Fresh(k)
                PROVE  bucket[k].resetAt - Window > retryAt[k].since
    BY DEF RetryAfterIsEnough
  <2>1. now \in Nat /\ bucket[k].resetAt \in Nat /\ retryAt[k].at \in Nat
    BY <1>1 DEF Inv, TypeOK, Bucket, Promise
  <2>2. k \in tracked /\ now <= bucket[k].resetAt
    BY <2>1 DEF Fresh, Expired
  <2>. QED
    BY <1>1, <2>1, <2>2 DEF Inv, PromiseKept, WindowBegin
<1>. QED
  BY <1>1, Invariance, PTL

-----------------------------------------------------------------------------
(* The table holds exactly the subscriptions between Subscribe and Remove, *)
(* under their topic.                                                      *)
Registered == {"open", "writing", "stop", "remove"}

TableFollowsStreams ==
    \A t \in Topic, s \in Sub :
       s \in table[t] <=> TopicOf[s] = t /\ stream[s] \in Registered

(* Publish finds every subscription of a topic.                            *)
TopicsFollowTable == \A t \in Topic : table[t] # {} => t \in topics

(* A goroutine exists only between Subscribe and the end of the wait.      *)
SendersBeforeClose ==
    \A s \in Sub : sending[s] # {} => stream[s] \in Registered \cup {"wait"}

(* A message is held once per subscription, and only when published.       *)
HeldOnce ==
    \A s \in Sub : /\ sending[s] \subseteq published
                   /\ writing[s] # None => /\ writing[s] \in published
                                           /\ writing[s] \notin sending[s]

PubSubIInv ==
    /\ PubSubTypeOK
    /\ TableFollowsStreams
    /\ TopicsFollowTable
    /\ SendersBeforeClose
    /\ HeldOnce

LEMMA PubSubInitIInv == PubSubInit => PubSubIInv
<1>. SUFFICES ASSUME PubSubInit PROVE PubSubIInv
  OBVIOUS
<1>. USE PubSubAssumption DEF PubSubInit
<1>1. PubSubTypeOK
  BY DEF PubSubTypeOK, Stage
<1>2. TableFollowsStreams
  BY DEF TableFollowsStreams, Registered
<1>3. TopicsFollowTable /\ SendersBeforeClose /\ HeldOnce
  BY DEF TopicsFollowTable, SendersBeforeClose, HeldOnce
<1>. QED
  BY <1>1, <1>2, <1>3 DEF PubSubIInv

LEMMA PubSubNextIInv == PubSubIInv /\ [PubSubNext]_pubsubVars => PubSubIInv'
<1>. SUFFICES ASSUME PubSubIInv, [PubSubNext]_pubsubVars PROVE PubSubIInv'
  OBVIOUS
<1>. USE PubSubAssumption
<1>. USE DEF PubSubIInv, PubSubTypeOK, Stage, Registered, TableFollowsStreams,
             TopicsFollowTable, SendersBeforeClose, HeldOnce
<1>1. ASSUME NEW m \in Msg, Publish(m) PROVE PubSubIInv'
  BY <1>1 DEF Publish, Receivers
<1>2. ASSUME NEW s \in Sub, NEW m \in Msg, Deliver(s, m) PROVE PubSubIInv'
  BY <1>2 DEF Deliver, Becomes
<1>3. ASSUME NEW s \in Sub, NEW m \in Msg, GiveUp(s, m) PROVE PubSubIInv'
  BY <1>3 DEF GiveUp, Stopped
<1>4. ASSUME NEW s \in Sub, Subscribe(s) PROVE PubSubIInv'
  <2>1. CASE down
    BY <1>4, <2>1 DEF Subscribe, Becomes
  <2>2. CASE ~down
    <3>1. /\ stream' = [stream EXCEPT ![s] = "open"] /\ stream[s] = "idle"
          /\ table' = [table EXCEPT ![TopicOf[s]] = @ \cup {s}]
          /\ topics' = topics \cup {TopicOf[s]}
          /\ reader' = [reader EXCEPT ![s] = TRUE]
          /\ UNCHANGED <<sending, writing, got, peer, published, down>>
          /\ TopicOf[s] \in Topic
      BY <1>4, <2>2 DEF Subscribe, Becomes
    <3>2. PubSubTypeOK'
      BY <3>1
    <3>3. TableFollowsStreams'
      BY <3>1
    <3>4. TopicsFollowTable'
      BY <3>1
    <3>5. SendersBeforeClose' /\ HeldOnce'
      BY <3>1
    <3>. QED
      BY <3>2, <3>3, <3>4, <3>5
  <2>. QED
    BY <2>1, <2>2
<1>5. ASSUME NEW s \in Sub, Written(s) PROVE PubSubIInv'
  BY <1>5 DEF Written, Becomes
<1>6. ASSUME NEW s \in Sub, WriteFailed(s) PROVE PubSubIInv'
  BY <1>6 DEF WriteFailed, Becomes
<1>7. ASSUME NEW s \in Sub, Return(s) PROVE PubSubIInv'
  BY <1>7 DEF Return, Becomes
<1>8. ASSUME NEW s \in Sub, CloseStop(s) PROVE PubSubIInv'
  BY <1>8 DEF CloseStop, Becomes
<1>9. ASSUME NEW s \in Sub, Remove(s) PROVE PubSubIInv'
  BY <1>9 DEF Remove, Becomes
<1>10. ASSUME NEW s \in Sub, Wait(s) PROVE PubSubIInv'
  BY <1>10 DEF Wait, Becomes
<1>11. ASSUME NEW s \in Sub, CloseChannel(s) PROVE PubSubIInv'
  BY <1>11 DEF CloseChannel, Becomes
<1>12. ASSUME NEW s \in Sub, PeerLeaves(s) PROVE PubSubIInv'
  BY <1>12 DEF PeerLeaves
<1>13. ASSUME NEW s \in Sub, ReaderEnds(s) PROVE PubSubIInv'
  BY <1>13 DEF ReaderEnds
<1>14. ASSUME Shutdown PROVE PubSubIInv'
  BY <1>14 DEF Shutdown
<1>15. CASE UNCHANGED pubsubVars
  BY <1>15 DEF pubsubVars
<1>. QED
  BY <1>1, <1>2, <1>3, <1>4, <1>5, <1>6, <1>7, <1>8, <1>9, <1>10, <1>11, <1>12, <1>13, <1>14, <1>15
     DEF PubSubNext, Unsubscribe

(* The state the code keeps is what the invariant says it is.              *)
THEOREM PubSubInvariant == PubSubSpec => []PubSubIInv
<1>. QED
  BY PubSubInitIInv, PubSubNextIInv, PTL DEF PubSubSpec

(* Every variable of the pub/sub and its handlers keeps its type.          *)
THEOREM PubSubTypeSafe == PubSubSpec => []PubSubTypeOK
<1>1. PubSubIInv => PubSubTypeOK
  BY DEF PubSubIInv
<1>. QED
  BY <1>1, PubSubInvariant, PTL

(* No goroutine of Publish ever sends on a closed channel.                 *)
THEOREM NoSendOnClosedAlways == PubSubSpec => []NoSendOnClosed
<1>1. PubSubIInv => NoSendOnClosed
  BY DEF PubSubIInv, SendersBeforeClose, NoSendOnClosed, Registered
<1>. QED
  BY <1>1, PubSubInvariant, PTL

-----------------------------------------------------------------------------
(* The refinement.                                                         *)

LEMMA InitRefines == PubSubInit => Abstract!BroadcastInit
  BY DEF PubSubInit, Abstract!BroadcastInit, Phase, Owed

LEMMA PublishRefines ==
    ASSUME PubSubIInv, NEW m \in Msg, Publish(m)
    PROVE  Abstract!Send(m)
<1>. USE PubSubAssumption
<1>1. Phase' = Phase
  BY DEF Publish, Phase
<1>2. ASSUME NEW s \in Sub
      PROVE  Owed'[s] = IF ~down /\ Phase[s] = "in" /\ TopicOf[s] = TopicOf[m]
                        THEN Owed[s] \cup {m} ELSE Owed[s]
  <2>1. CASE Phase[s] # "in"
    BY <1>1, <2>1 DEF Owed
  <2>2. CASE Phase[s] = "in"
    <3>1. stream[s] \in Registered
      BY <2>2 DEF Phase, Registered, PubSubIInv, PubSubTypeOK, Stage
    <3>2. s \in Receivers(m) <=> TopicOf[s] = TopicOf[m]
      BY <3>1 DEF Receivers, PubSubIInv, TableFollowsStreams, TopicsFollowTable
    <3>3. sending'[s] = IF ~down /\ s \in Receivers(m)
                        THEN sending[s] \cup {m} ELSE sending[s]
      BY DEF Publish
    <3>4. writing' = writing
      BY DEF Publish
    <3>. QED
      BY <1>1, <2>2, <3>2, <3>3, <3>4 DEF Owed
  <2>. QED
    BY <2>1, <2>2
<1>3. Owed' = [s \in Sub |->
                 IF ~down /\ Phase[s] = "in" /\ TopicOf[s] = TopicOf[m]
                 THEN Owed[s] \cup {m} ELSE Owed[s]]
  BY <1>2 DEF Owed
<1>. QED
  BY <1>1, <1>3 DEF Publish, Abstract!Send

LEMMA SubscribeRefines ==
    ASSUME PubSubIInv, NEW s \in Sub, Subscribe(s)
    PROVE  Abstract!Join(s)
<1>. USE DEF PubSubIInv, PubSubTypeOK
<1>1. Phase[s] = "new" /\ sending[s] = {} /\ writing[s] = None
  BY DEF Subscribe, Phase, SendersBeforeClose, Registered
<1>2. Owed' = Owed
  BY <1>1 DEF Subscribe, Becomes, Owed, Phase
<1>3. CASE down
  <2>1. Phase' = [Phase EXCEPT ![s] = "out"]
    BY <1>3 DEF Subscribe, Becomes, Phase
  <2>. QED
    BY <1>1, <1>2, <1>3, <2>1 DEF Subscribe, Abstract!Join
<1>4. CASE ~down
  <2>1. Phase' = [Phase EXCEPT ![s] = "in"]
    BY <1>4 DEF Subscribe, Becomes, Phase
  <2>. QED
    BY <1>1, <1>2, <1>4, <2>1 DEF Subscribe, Abstract!Join
<1>. QED
  BY <1>3, <1>4

(* Handing a message over changes nothing for Broadcast.                   *)
LEMMA DeliverRefines ==
    ASSUME PubSubIInv, NEW s \in Sub, NEW m \in Msg, Deliver(s, m)
    PROVE  UNCHANGED <<Phase, published, Owed, got, down>>
<1>. USE PubSubAssumption DEF PubSubIInv, PubSubTypeOK
<1>1. Phase' = Phase
  BY DEF Deliver, Becomes, Phase
<1>2. ASSUME NEW r \in Sub PROVE Owed'[r] = Owed[r]
  <2>1. CASE r = s
    <3>1. sending'[s] = sending[s] \ {m} /\ writing'[s] = m /\ writing[s] = None
      BY DEF Deliver
    <3>2. sending'[s] \cup ({writing'[s]} \ {None})
             = sending[s] \cup ({writing[s]} \ {None})
      BY <3>1 DEF Deliver
    <3>. QED
      BY <1>1, <2>1, <3>2 DEF Owed
  <2>2. CASE r # s
    BY <1>1, <2>2 DEF Deliver, Owed
  <2>. QED
    BY <2>1, <2>2
<1>3. Owed' = Owed
  BY <1>2 DEF Owed
<1>. QED
  BY <1>1, <1>3 DEF Deliver

LEMMA GiveUpRefines ==
    ASSUME PubSubIInv, NEW s \in Sub, NEW m \in Msg, GiveUp(s, m)
    PROVE  Abstract!Drop(s, m) \/ UNCHANGED <<Phase, published, Owed, got, down>>
<1>. USE PubSubAssumption DEF PubSubIInv, PubSubTypeOK
<1>1. Phase' = Phase
  BY DEF GiveUp, Phase
<1>2. CASE Phase[s] # "in"
  <2>1. Owed' = Owed
    BY <1>1, <1>2 DEF GiveUp, Owed
  <2>. QED
    BY <1>1, <2>1 DEF GiveUp
<1>3. CASE Phase[s] = "in"
  <2>1. down /\ m \in Owed[s]
    BY <1>3 DEF GiveUp, Stopped, Phase, Owed
  <2>2. writing[s] # m
    BY DEF GiveUp, HeldOnce
  <2>3. ASSUME NEW r \in Sub
        PROVE  Owed'[r] = IF r = s THEN Owed[r] \ {m} ELSE Owed[r]
    <3>1. sending'[r] = IF r = s THEN sending[r] \ {m} ELSE sending[r]
      BY DEF GiveUp
    <3>2. writing' = writing
      BY DEF GiveUp
    <3>. QED
      BY <1>1, <1>3, <2>2, <3>1, <3>2 DEF Owed
  <2>4. Owed' = [Owed EXCEPT ![s] = @ \ {m}]
    BY <2>3 DEF Owed
  <2>. QED
    BY <1>1, <2>1, <2>4 DEF GiveUp, Abstract!Drop
<1>. QED
  BY <1>2, <1>3

LEMMA WrittenRefines ==
    ASSUME PubSubIInv, NEW s \in Sub, Written(s)
    PROVE  \E m \in Msg : Abstract!Give(s, m)
<1>. USE PubSubAssumption DEF PubSubIInv, PubSubTypeOK
<1>. DEFINE m == writing[s]
<1>1. m \in Msg /\ m # None /\ m \notin sending[s]
  BY DEF Written, HeldOnce
<1>2. Phase' = Phase
  BY DEF Written, Becomes, Phase
<1>3. Phase[s] = "in"
  BY DEF Written, Phase
<1>4. ASSUME NEW r \in Sub
      PROVE  Owed'[r] = IF r = s THEN Owed[r] \ {m} ELSE Owed[r]
  <2>1. sending' = sending /\ writing'[r] = IF r = s THEN None ELSE writing[r]
    BY DEF Written
  <2>. QED
    BY <1>1, <1>2, <1>3, <2>1 DEF Owed
<1>5. Owed' = [Owed EXCEPT ![s] = @ \ {m}]
  BY <1>4 DEF Owed
<1>6. m \in Owed[s]
  BY <1>1, <1>3 DEF Owed
<1>. QED
  BY <1>1, <1>2, <1>5, <1>6 DEF Written, Abstract!Give

(* A handler that returns leaves, whatever it was doing.                   *)
LEMMA LeaveRefines ==
    ASSUME PubSubIInv, NEW s \in Sub, WriteFailed(s) \/ Return(s)
    PROVE  Abstract!Leave(s)
<1>. USE DEF PubSubIInv, PubSubTypeOK
<1>1. Phase[s] = "in"
  BY DEF WriteFailed, Return, Phase
<1>2. Phase' = [Phase EXCEPT ![s] = "out"]
  BY DEF WriteFailed, Return, Becomes, Phase
<1>3. ASSUME NEW r \in Sub
      PROVE  Owed'[r] = IF r = s THEN {} ELSE Owed[r]
  <2>1. CASE r = s
    BY <1>2, <2>1 DEF Owed, Phase
  <2>2. CASE r # s
    BY <1>2, <2>2 DEF Owed, Phase, WriteFailed, Return
  <2>. QED
    BY <2>1, <2>2
<1>4. Owed' = [Owed EXCEPT ![s] = {}]
  BY <1>3 DEF Owed
<1>. QED
  BY <1>1, <1>2, <1>4 DEF WriteFailed, Return, Abstract!Leave

(* The steps of unsubscribe, the end of a peer and of a read loop are not  *)
(* visible.                                                                *)
LEMMA SilentSteps ==
    ASSUME PubSubIInv, NEW s \in Sub,
           Unsubscribe(s) \/ PeerLeaves(s) \/ ReaderEnds(s)
    PROVE  UNCHANGED <<Phase, published, Owed, got, down>>
<1>. USE DEF PubSubIInv, PubSubTypeOK, Unsubscribe, CloseStop, Remove, Wait,
             CloseChannel, PeerLeaves, ReaderEnds, Becomes
<1>1. Phase' = Phase
  BY DEF Phase
<1>2. Owed' = Owed
  BY <1>1 DEF Owed
<1>. QED
  BY <1>1, <1>2

LEMMA ShutdownRefines ==
    ASSUME Shutdown PROVE Abstract!Stop
  BY DEF Shutdown, Abstract!Stop, Phase, Owed

LEMMA StepRefines ==
    PubSubIInv /\ [PubSubNext]_pubsubVars
       => [Abstract!BroadcastNext]_(Abstract!broadcastVars)
<1>. SUFFICES ASSUME PubSubIInv, [PubSubNext]_pubsubVars
              PROVE  \/ Abstract!BroadcastNext
                     \/ UNCHANGED <<Phase, published, Owed, got, down>>
  BY DEF Abstract!broadcastVars
<1>. USE DEF Abstract!BroadcastNext
<1>1. ASSUME NEW m \in Msg, Publish(m) PROVE Abstract!BroadcastNext
  BY <1>1, PublishRefines
<1>2. ASSUME NEW s \in Sub, NEW m \in Msg, Deliver(s, m)
      PROVE  UNCHANGED <<Phase, published, Owed, got, down>>
  BY <1>2, DeliverRefines
<1>3. ASSUME NEW s \in Sub, NEW m \in Msg, GiveUp(s, m)
      PROVE  \/ Abstract!BroadcastNext
             \/ UNCHANGED <<Phase, published, Owed, got, down>>
  BY <1>3, GiveUpRefines
<1>4. ASSUME NEW s \in Sub, Subscribe(s) PROVE Abstract!BroadcastNext
  BY <1>4, SubscribeRefines
<1>5. ASSUME NEW s \in Sub, Written(s) PROVE Abstract!BroadcastNext
  BY <1>5, WrittenRefines
<1>6. ASSUME NEW s \in Sub, WriteFailed(s) \/ Return(s)
      PROVE  Abstract!BroadcastNext
  BY <1>6, LeaveRefines
<1>7. ASSUME NEW s \in Sub, Unsubscribe(s) \/ PeerLeaves(s) \/ ReaderEnds(s)
      PROVE  UNCHANGED <<Phase, published, Owed, got, down>>
  BY <1>7, SilentSteps
<1>8. CASE Shutdown
  BY <1>8, ShutdownRefines
<1>9. CASE UNCHANGED pubsubVars
  BY <1>9 DEF pubsubVars, Phase, Owed
<1>. QED
  BY <1>1, <1>2, <1>3, <1>4, <1>5, <1>6, <1>7, <1>8, <1>9 DEF PubSubNext

(* The goroutines and handlers implement the broadcast: a message reaches  *)
(* the subscriptions of its topic only, each at most once, and is dropped  *)
(* only when the subscription or the application ends.                     *)
THEOREM PubSubImplementsBroadcast == PubSubSpec => ImplementsBroadcast
<1>. QED
  BY InitRefines, StepRefines, PubSubInvariant, PTL
     DEF PubSubSpec, ImplementsBroadcast, Abstract!BroadcastSpec

-----------------------------------------------------------------------------
(* Types.  A configuration names a database of Url, or none.               *)
GoodConfig == {c \in Config : c["database_url"] \in Url \cup {0}}

File == {Missing, Broken} \cup {Whole(c, l) : c \in GoodConfig, l \in BOOLEAN}

WriterRow == [pc : {"idle", "backup", "backing", "truncate", "write"},
              copy : GoodConfig, old : File]

ServerRow == [pc : {"load", "connect", "read", "sql", "insert", "commit", "listen", "serving"},
              given : Provided, run : Config, done : SUBSET Version, at : 0 .. LastVersion]

ConfigTypes ==
    /\ main \in File /\ bak \in File
    /\ writer \in [Writer -> WriterRow]
    /\ saved \subseteq GoodConfig
    /\ backupFailed \in BOOLEAN

BootTypes ==
    /\ server \in [Server -> {Down} \cup ServerRow]
    /\ schema \in [Url -> SUBSET Version]
    /\ committed \in [Url -> [Version -> Nat]]

(* A file that loads was saved in full, or is the one there was.           *)
LoadsSaved == Loads(main) => Loaded(main) \in saved

-----------------------------------------------------------------------------
LEMMA Files ==
    /\ Missing \in File /\ Broken \in File
    /\ Missing.st = "missing" /\ Broken.st = "broken"
    /\ \A c \in GoodConfig, l \in BOOLEAN :
         /\ Whole(c, l) \in File /\ Whole(c, l).st = "whole"
         /\ Whole(c, l).cfg = c /\ Whole(c, l).legacy = l
    /\ \A f \in File : f.st \in {"missing", "broken", "whole"}
    /\ \A f \in File : f.st = "missing" => f = Missing
    /\ \A f \in File : f.st = "whole" => f.cfg \in GoodConfig /\ f.legacy \in BOOLEAN
<1>1. Missing.st = "missing" /\ Broken.st = "broken"
  BY DEF Missing, Broken
<1>2. ASSUME NEW c \in GoodConfig, NEW l \in BOOLEAN
      PROVE  /\ Whole(c, l) \in File /\ Whole(c, l).st = "whole"
             /\ Whole(c, l).cfg = c /\ Whole(c, l).legacy = l
  BY DEF File, Whole
<1>3. ASSUME NEW f \in File, f # Missing, f # Broken
      PROVE  f.st = "whole" /\ f.cfg \in GoodConfig /\ f.legacy \in BOOLEAN
  <2>1. PICK c \in GoodConfig, l \in BOOLEAN : f = Whole(c, l)
    BY <1>3 DEF File
  <2>. QED
    BY <1>2, <2>1
<1>4. Missing \in File /\ Broken \in File
  BY DEF File
<1>5. ASSUME NEW f \in File
      PROVE  /\ f.st \in {"missing", "broken", "whole"}
             /\ f.st = "missing" => f = Missing
             /\ f.st = "whole" => f.cfg \in GoodConfig /\ f.legacy \in BOOLEAN
  BY <1>1, <1>3
<1>. QED
  BY <1>1, <1>2, <1>4, <1>5

LEMMA Zero == AllZero \in GoodConfig
  BY DEF AllZero, GoodConfig, Config, ConfigKey

(* What a file is loaded as.                                               *)
LEMMA LoadedConfig ==
    ASSUME NEW f \in File
    PROVE  Loaded(f) \in GoodConfig
<1>1. CASE f.st # "whole"
  BY <1>1, Zero DEF Loaded
<1>2. CASE f.st = "whole"
  BY <1>2, Files DEF Loaded
<1>. QED
  BY <1>1, <1>2

(* Field.Set gives a configuration.                                        *)
LEMMA SetConfig ==
    ASSUME NEW c \in GoodConfig, NEW k, NEW v, Settable(k, v), <<k, v>> \in Argument
    PROVE  [c EXCEPT ![k] = v] \in GoodConfig
<1>1. k \in ConfigKey /\ v \in Int
  BY ConfigAssumption DEF Argument, ConfigKey
<1>2. k = "database_url" => v \in Url \cup {0}
  BY DEF Settable
<1>. QED
  BY <1>1, <1>2 DEF GoodConfig, Config, ConfigKey

-----------------------------------------------------------------------------
LEMMA InitConfig == ConfigInit => ConfigTypes /\ LoadsSaved
<1>. SUFFICES ASSUME ConfigInit PROVE ConfigTypes /\ LoadsSaved
  OBVIOUS
<1>1. main \in File
  <2>1. ASSUME NEW u \in Url, NEW p \in PortArg
        PROVE  [AllZero EXCEPT !["database_url"] = u, !["port"] = p] \in GoodConfig
    BY ConfigAssumption DEF AllZero, GoodConfig, Config, ConfigKey
  <2>2. CASE main = Missing
    BY <2>2, Files
  <2>3. CASE main # Missing
    <3>1. PICK u \in Url, p \in PortArg : main = LegacyFile(u, p)
      BY <2>3 DEF ConfigInit
    <3>. QED
      BY <2>1, <3>1, Files DEF LegacyFile
  <2>. QED
    BY <2>2, <2>3
<1>2. Idle \in WriterRow
  BY Files, Zero DEF Idle, WriterRow
<1>. QED
  BY <1>1, <1>2, Files, LoadedConfig DEF ConfigInit, ConfigTypes, LoadsSaved

LEMMA ConfigStepKeeps ==
    ASSUME ConfigTypes, LoadsSaved, NEW w \in Writer, ConfigStep(w)
    PROVE  ConfigTypes' /\ LoadsSaved' /\ saved \subseteq saved'
<1>. USE DEF ConfigTypes, LoadsSaved
<1>1. ASSUME NEW cfg \in GoodConfig, Begin(w, cfg)
      PROVE  ConfigTypes' /\ LoadsSaved' /\ saved \subseteq saved'
  BY <1>1, Files DEF Begin, WriterRow
<1>2. ASSUME NEW a \in Argument, ConfigSet(w, a[1], a[2])
      PROVE  ConfigTypes' /\ LoadsSaved' /\ saved \subseteq saved'
  <2>1. [Loaded(main) EXCEPT ![a[1]] = a[2]] \in GoodConfig
    <3>1. a = <<a[1], a[2]>>
      BY DEF Argument
    <3>. QED
      BY <1>2, <3>1, LoadedConfig, SetConfig DEF ConfigSet
  <2>. QED
    BY <1>1, <1>2, <2>1 DEF ConfigSet
<1>3. CASE ConfigConvert(w)
  BY <1>1, <1>3, LoadedConfig DEF ConfigConvert
<1>4. CASE Backup(w)
  <2>1. writer' \in [Writer -> WriterRow]
    BY <1>4 DEF Backup, To, WriterRow
  <2>. QED
    BY <1>4, <2>1, Files DEF Backup
<1>5. CASE BackupWritten(w)
  BY <1>5 DEF BackupWritten, To, WriterRow
<1>6. CASE Truncate(w)
  <2>1. ~Loads(Broken)
    BY Files DEF Loads
  <2>2. main' = Broken /\ writer' \in [Writer -> WriterRow] /\ UNCHANGED <<bak, saved, backupFailed>>
    BY <1>6 DEF Truncate, To, WriterRow
  <2>. QED
    BY <2>1, <2>2, Files
<1>7. CASE Write(w)
  <2>1. writer[w].copy \in GoodConfig
    BY DEF WriterRow
  <2>2. Loaded(main') = writer[w].copy
    BY <1>7, <2>1, Files DEF Write, Loaded
  <2>3. Idle \in WriterRow
    BY Files, Zero DEF Idle, WriterRow
  <2>. QED
    BY <1>7, <2>1, <2>2, <2>3, Files DEF Write
<1>8. CASE WriterStops(w)
  <2>1. Idle \in WriterRow
    BY Files, Zero DEF Idle, WriterRow
  <2>. QED
    BY <1>8, <2>1 DEF WriterStops
<1>. QED
  BY <1>2, <1>3, <1>4, <1>5, <1>6, <1>7, <1>8 DEF ConfigStep

-----------------------------------------------------------------------------
(* What a server knows about its database: the versions below the one it   *)
(* applies are there, and so is every version once it has none to apply.   *)
Sound(s) ==
    server[s].pc \notin {"down", "load"} =>
       /\ \E cfg \in saved : server[s].run = Effective(cfg, server[s].given)
       /\ Database(s) \in Url
       /\ server[s].pc \in {"sql", "insert", "commit"} =>
            /\ server[s].at \in Version
            /\ 1 .. server[s].at - 1 \subseteq schema[Database(s)]
            /\ server[s].done \subseteq schema[Database(s)]
       /\ server[s].pc = "commit" => server[s].at \notin schema[Database(s)]
       /\ server[s].pc \in {"listen", "serving"} => schema[Database(s)] = Version

(* A version is committed once, and after those before it.                 *)
Ledger ==
    \A d \in Url :
       /\ \A v \in Version : committed[d][v] = IF v \in schema[d] THEN 1 ELSE 0
       /\ \A v \in schema[d] : 1 .. v \subseteq schema[d]

(* The primary key: two open transactions never hold the same version.     *)
OneInserts ==
    \A s, t \in Server :
       s # t /\ Inserted(s) /\ Inserted(t) /\ Database(s) = Database(t)
          => server[s].at # server[t].at

BootIInv ==
    /\ ConfigTypes /\ LoadsSaved /\ BootTypes
    /\ Ledger /\ OneInserts
    /\ \A s \in Server : Sound(s)

-----------------------------------------------------------------------------
LEMMA Rows ==
    ASSUME BootTypes, NEW s \in Server
    PROVE  /\ server[s].pc \in {"down", "load", "connect", "read", "sql", "insert", "commit",
                                "listen", "serving"}
           /\ server[s].pc # "down" => server[s] \in ServerRow
           /\ server[s].pc = "down" => server[s] = Down
<1>1. Down.pc = "down"
  BY DEF Down
<1>2. \A r \in ServerRow : r.pc \in {"load", "connect", "read", "sql", "insert", "commit",
                                     "listen", "serving"}
  BY DEF ServerRow
<1>. QED
  BY <1>1, <1>2 DEF BootTypes

(* A valid run names a database.                                           *)
LEMMA RunNamesDatabase ==
    ASSUME NEW cfg \in GoodConfig, NEW given \in Provided, Valid(Effective(cfg, given))
    PROVE  /\ Effective(cfg, given) \in Config
           /\ Effective(cfg, given)["database_url"] \in Url
<1>1. \A k \in ConfigKey : /\ cfg[k] \in Int /\ Default(k) \in Int
                     /\ given[k] \in Int \cup {Not}
  <2>1. DefaultPort \in Int
    BY BootAssumption
  <2>2. \A k \in ConfigKey : Default(k) \in Int
    BY <2>1 DEF Default, ConfigKey
  <2>. QED
    BY <2>2, BootAssumption DEF GoodConfig, Config
<1>2. Effective(cfg, given) \in Config
  BY <1>1 DEF Effective, Config
<1>3. /\ cfg["database_url"] \in Url \cup {0} /\ Default("database_url") = 0
      /\ given["database_url"] \in Url \cup {Not}
  BY BootAssumption DEF GoodConfig, Default
<1>4. Effective(cfg, given)["database_url"] \in Url \cup {0}
  BY <1>3 DEF Effective, ConfigKey
<1>. QED
  BY <1>2, <1>4 DEF Valid

LEMMA InitBoot == BootInit => BootIInv
<1>. SUFFICES ASSUME BootInit PROVE BootIInv
  OBVIOUS
<1>1. ConfigTypes /\ LoadsSaved
  BY InitConfig DEF BootInit
<1>2. schema \in [Url -> {1 .. n : n \in 0 .. LastVersion}]
  BY BootAssumption DEF BootInit
<1>3. ASSUME NEW d \in Url
      PROVE  /\ schema[d] \subseteq Version
             /\ \A v \in schema[d] : 1 .. v \subseteq schema[d]
  <2>1. PICK n \in 0 .. LastVersion : schema[d] = 1 .. n
    BY <1>2
  <2>. QED
    BY <2>1, BootAssumption DEF Version
<1>4. BootTypes
  BY <1>2, <1>3 DEF BootInit, BootTypes
<1>5. Ledger
  BY <1>3 DEF BootInit, Ledger
<1>6. \A s \in Server : server[s].pc = "down"
  BY DEF BootInit, Down
<1>. QED
  BY <1>1, <1>4, <1>5, <1>6 DEF BootIInv, OneInserts, Inserted, Sound

(* A step of one server leaves the others sound: schemas only grow, and    *)
(* nobody's version is committed by another.                               *)
LEMMA OthersSound ==
    ASSUME BootIInv, NEW s \in Server,
           \A t \in Server \ {s} : server'[t] = server[t],
           saved \subseteq saved',
           schema' \in [Url -> SUBSET Version],
           \A d \in Url : schema[d] \subseteq schema'[d],
           \A t \in Server \ {s} :
              Inserted(t) => server[t].at \notin schema'[Database(t)]
    PROVE  \A t \in Server \ {s} : Sound(t)'
<1>. SUFFICES ASSUME NEW t \in Server \ {s}, server[t].pc \notin {"down", "load"}
              PROVE  Sound(t)'
  BY DEF Sound
<1>1. Sound(t) /\ server'[t] = server[t]
  BY DEF BootIInv
<1>2. Database(t)' = Database(t) /\ Database(t) \in Url
  BY <1>1 DEF Sound, Database
<1>3. schema[Database(t)] \subseteq schema'[Database(t)] /\ schema'[Database(t)] \subseteq Version
  BY <1>2
<1>. QED
  BY <1>1, <1>2, <1>3 DEF Sound, Inserted

(* A step that commits nothing needs only its own server's new state.      *)
LEMMA QuietStep ==
    ASSUME BootIInv, NEW s \in Server, NEW r \in {Down} \cup ServerRow,
           server' = [server EXCEPT ![s] = r],
           UNCHANGED <<configVars, schema, committed>>,
           Sound(s)',
           Inserted(s)' => \A t \in Server \ {s} :
              ~(Inserted(t) /\ Database(t) = Database(s)' /\ server[t].at = server'[s].at)
    PROVE  BootIInv'
<1>1. ConfigTypes' /\ LoadsSaved' /\ Ledger'
  BY DEF BootIInv, ConfigTypes, LoadsSaved, Ledger, configVars
<1>2. BootTypes'
  BY DEF BootIInv, BootTypes
<1>3. \A t \in Server \ {s} : server'[t] = server[t] /\ Database(t)' = Database(t)
  BY DEF BootIInv, BootTypes, Database
<1>4. \A t \in Server \ {s} : Sound(t)'
  <2>1. \A t \in Server \ {s} : Inserted(t) => server[t].at \notin schema'[Database(t)]
    BY DEF BootIInv, Sound, Inserted
  <2>2. schema' \in [Url -> SUBSET Version]
    BY <1>2 DEF BootTypes
  <2>. QED
    BY <1>3, <2>1, <2>2, OthersSound DEF configVars
<1>5. OneInserts'
  BY <1>3 DEF BootIInv, OneInserts, Inserted
<1>. QED
  BY <1>1, <1>2, <1>4, <1>5 DEF BootIInv

-----------------------------------------------------------------------------
LEMMA FailsKeeps ==
    ASSUME BootIInv, NEW s \in Server, Fails(s),
           UNCHANGED <<configVars, schema, committed>>
    PROVE  BootIInv'
<1>1. server'[s] = Down /\ Down.pc = "down"
  BY DEF BootIInv, BootTypes, Fails, Down
<1>2. Sound(s)' /\ ~Inserted(s)'
  BY <1>1 DEF Sound, Inserted
<1>. QED
  BY <1>2, QuietStep DEF Fails

LEMMA LaunchKeeps ==
    ASSUME BootIInv, NEW s \in Server, NEW given \in Provided, Launch(s, given),
           UNCHANGED configVars
    PROVE  BootIInv'
<1>. DEFINE r == [pc |-> "load", given |-> given, run |-> AllZero, done |-> {}, at |-> 0]
<1>1. r \in ServerRow
  BY Zero, BootAssumption DEF ServerRow, GoodConfig
<1>2. server' = [server EXCEPT ![s] = r] /\ server'[s] = r
  BY DEF Launch, BootIInv, BootTypes
<1>3. Sound(s)' /\ ~Inserted(s)'
  BY <1>2 DEF Sound, Inserted
<1>. QED
  BY <1>1, <1>2, <1>3, QuietStep DEF Launch

LEMMA LoadKeeps ==
    ASSUME BootIInv, NEW s \in Server, Load(s), UNCHANGED configVars
    PROVE  BootIInv'
<1>. DEFINE run == Effective(Loaded(main), server[s].given)
            r == [server[s] EXCEPT !.pc = "connect", !.run = run]
<1>1. CASE Fails(s)
  BY <1>1, FailsKeeps DEF Load
<1>2. CASE ~Fails(s)
  <2>1. Loads(main) /\ Valid(run) /\ server' = [server EXCEPT ![s] = r]
    BY <1>2 DEF Load
  <2>2. server[s] \in ServerRow
    BY Rows DEF Load, BootIInv
  <2>3. Loaded(main) \in saved /\ Loaded(main) \in GoodConfig
    BY <2>1 DEF BootIInv, LoadsSaved, ConfigTypes
  <2>4. run \in Config /\ run["database_url"] \in Url
    BY <2>1, <2>2, <2>3, RunNamesDatabase DEF ServerRow
  <2>5. /\ r \in ServerRow /\ r.pc = "connect" /\ r.run = run
        /\ r.given = server[s].given
    BY <2>2, <2>4 DEF ServerRow
  <2>6. server'[s] = r
    BY <2>1 DEF BootIInv, BootTypes
  <2>7. Sound(s)' /\ ~Inserted(s)'
    BY <2>3, <2>4, <2>5, <2>6 DEF Sound, Inserted, Database, configVars
  <2>. QED
    BY <2>1, <2>5, <2>7, QuietStep DEF Load
<1>. QED
  BY <1>1, <1>2

(* A step that only moves a server that is past loading on.                *)
LEMMA MovesOn ==
    ASSUME BootIInv, NEW s \in Server, server[s].pc \notin {"down", "load"},
           NEW pc \in {"read", "insert", "commit", "serving"}, GoTo(s, pc),
           saved' = saved, schema' = schema,
           pc = "insert" => server[s].pc = "sql",
           pc = "commit" => server[s].pc = "insert" /\ server[s].at \notin schema[Database(s)],
           pc = "serving" => server[s].pc = "listen"
    PROVE  /\ \E r \in ServerRow : server' = [server EXCEPT ![s] = r]
           /\ Sound(s)' /\ (Inserted(s)' => pc = "commit")
           /\ Database(s)' = Database(s) /\ server'[s].at = server[s].at
<1>. DEFINE r == [server[s] EXCEPT !.pc = pc]
<1>1. server[s] \in ServerRow /\ Sound(s)
  BY Rows DEF BootIInv
<1>2. /\ r \in ServerRow /\ r.pc = pc /\ r.at = server[s].at /\ r.done = server[s].done
      /\ r.run = server[s].run /\ r.given = server[s].given
  BY <1>1 DEF ServerRow
<1>3. server' = [server EXCEPT ![s] = r] /\ server'[s] = r
  BY DEF GoTo, BootIInv, BootTypes
<1>4. Database(s)' = Database(s)
  BY <1>2, <1>3 DEF Database
<1>5. Sound(s)'
  BY <1>1, <1>2, <1>3, <1>4 DEF Sound
<1>. QED
  BY <1>2, <1>3, <1>4, <1>5 DEF Inserted

LEMMA ConnectKeeps ==
    ASSUME BootIInv, NEW s \in Server, Connect(s), UNCHANGED configVars
    PROVE  BootIInv'
<1>1. CASE Fails(s)
  BY <1>1, FailsKeeps DEF Connect
<1>2. CASE GoTo(s, "read")
  <2>1. saved' = saved /\ schema' = schema
    BY DEF Connect, configVars
  <2>2. /\ \E r \in ServerRow : server' = [server EXCEPT ![s] = r]
        /\ Sound(s)' /\ ~Inserted(s)'
    BY <1>2, <2>1, MovesOn DEF Connect
  <2>. QED
    BY <2>2, QuietStep DEF Connect
<1>. QED
  BY <1>1, <1>2 DEF Connect

LEMMA RunSQLKeeps ==
    ASSUME BootIInv, NEW s \in Server, RunSQL(s), UNCHANGED configVars
    PROVE  BootIInv'
<1>1. CASE Fails(s)
  BY <1>1, FailsKeeps DEF RunSQL
<1>2. CASE GoTo(s, "insert")
  <2>1. saved' = saved /\ schema' = schema
    BY DEF RunSQL, configVars
  <2>2. /\ \E r \in ServerRow : server' = [server EXCEPT ![s] = r]
        /\ Sound(s)' /\ ~Inserted(s)'
    BY <1>2, <2>1, MovesOn DEF RunSQL
  <2>. QED
    BY <2>2, QuietStep DEF RunSQL
<1>. QED
  BY <1>1, <1>2 DEF RunSQL

LEMMA InsertVersionKeeps ==
    ASSUME BootIInv, NEW s \in Server, InsertVersion(s), UNCHANGED configVars
    PROVE  BootIInv'
<1>1. CASE Fails(s)
  BY <1>1, FailsKeeps DEF InsertVersion
<1>2. CASE ~Fails(s)
  <2>1. GoTo(s, "commit") /\ server[s].at \notin schema[Database(s)]
    BY <1>2 DEF InsertVersion
  <2>2. saved' = saved /\ schema' = schema
    BY DEF InsertVersion, configVars
  <2>3. /\ \E r \in ServerRow : server' = [server EXCEPT ![s] = r]
        /\ Sound(s)' /\ Database(s)' = Database(s) /\ server'[s].at = server[s].at
    BY <2>1, <2>2, MovesOn DEF InsertVersion
  <2>4. \A t \in Server \ {s} :
          ~(Inserted(t) /\ Database(t) = Database(s)' /\ server[t].at = server'[s].at)
    BY <2>3 DEF InsertVersion
  <2>. QED
    BY <2>3, <2>4, QuietStep DEF InsertVersion
<1>. QED
  BY <1>1, <1>2

LEMMA ListenKeeps ==
    ASSUME BootIInv, NEW s \in Server, Listen(s), UNCHANGED configVars
    PROVE  BootIInv'
<1>1. CASE Fails(s)
  BY <1>1, FailsKeeps DEF Listen
<1>2. CASE GoTo(s, "serving")
  <2>1. saved' = saved /\ schema' = schema
    BY DEF Listen, configVars
  <2>2. /\ \E r \in ServerRow : server' = [server EXCEPT ![s] = r]
        /\ Sound(s)' /\ ~Inserted(s)'
    BY <1>2, <2>1, MovesOn DEF Listen
  <2>. QED
    BY <2>2, QuietStep DEF Listen
<1>. QED
  BY <1>1, <1>2 DEF Listen

-----------------------------------------------------------------------------
(* Where the loop goes on, the versions before the next one are there; and *)
(* when there is none, all are.                                            *)
LEMMA Resumed ==
    ASSUME BootTypes, NEW s \in Server, server[s].pc \notin {"down", "load"},
           NEW after \in 0 .. LastVersion, NEW done \in SUBSET Version,
           NEW there \in SUBSET Version, done \subseteq there, 1 .. after \subseteq there,
           Resume(s, after, done)
    PROVE  \E r \in ServerRow :
              /\ server' = [server EXCEPT ![s] = r]
              /\ r.run = server[s].run /\ r.given = server[s].given /\ r.done = done
              /\ \/ r.pc = "listen" /\ there = Version
                 \/ r.pc = "sql" /\ r.at \in Version /\ 1 .. r.at - 1 \subseteq there
<1>. DEFINE missing == {v \in Version : v > after /\ v \notin done}
<1>0. server[s] \in ServerRow
  BY Rows
<1>1. CASE missing = {} /\
           server' = [server EXCEPT ![s].pc = "listen", ![s].at = 0, ![s].done = done]
  <2>. DEFINE r == [server[s] EXCEPT !.pc = "listen", !.at = 0, !.done = done]
  <2>1. r \in ServerRow /\ r.pc = "listen" /\ r.run = server[s].run
        /\ r.given = server[s].given /\ r.done = done
    <3>. 0 \in 0 .. LastVersion
      BY BootAssumption
    <3>. QED
      BY <1>0 DEF ServerRow
  <2>2. server' = [server EXCEPT ![s] = r]
    BY <1>1 DEF BootTypes
  <2>3. there = Version
    <3>1. ASSUME NEW n \in Version PROVE n \in there
      <4>1. CASE n > after
        BY <1>1, <4>1
      <4>2. CASE ~(n > after)
        BY <4>2, BootAssumption DEF Version
      <4>. QED
        BY <4>1, <4>2
    <3>. QED
      BY <3>1
  <2>. QED
    BY <2>1, <2>2, <2>3
<1>2. CASE \E v \in missing :
             /\ \A n \in missing : v <= n
             /\ server' = [server EXCEPT ![s].pc = "sql", ![s].at = v, ![s].done = done]
  <2>1. PICK v \in missing :
             /\ \A n \in missing : v <= n
             /\ server' = [server EXCEPT ![s].pc = "sql", ![s].at = v, ![s].done = done]
    BY <1>2
  <2>. DEFINE r == [server[s] EXCEPT !.pc = "sql", !.at = v, !.done = done]
  <2>2. r \in ServerRow /\ r.pc = "sql" /\ r.run = server[s].run
        /\ r.given = server[s].given /\ r.done = done /\ r.at = v
    <3>. v \in 0 .. LastVersion
      BY BootAssumption DEF Version
    <3>. QED
      BY <1>0 DEF ServerRow
  <2>3. server' = [server EXCEPT ![s] = r]
    BY <2>1 DEF BootTypes
  <2>4. 1 .. v - 1 \subseteq there
    BY <2>1, BootAssumption DEF Version
  <2>. QED
    BY <2>2, <2>3, <2>4
<1>. QED
  BY <1>1, <1>2 DEF Resume

LEMMA ReadAppliedKeeps ==
    ASSUME BootIInv, NEW s \in Server, ReadApplied(s), UNCHANGED configVars
    PROVE  BootIInv'
<1>. DEFINE there == schema[Database(s)]
<1>1. server[s].pc = "read" /\ Sound(s) /\ Database(s) \in Url
  BY DEF ReadApplied, BootIInv, Sound
<1>2. there \in SUBSET Version
  BY <1>1 DEF BootIInv, BootTypes
<1>3. PICK r \in ServerRow :
              /\ server' = [server EXCEPT ![s] = r]
              /\ r.run = server[s].run /\ r.given = server[s].given /\ r.done = there
              /\ \/ r.pc = "listen" /\ there = Version
                 \/ r.pc = "sql" /\ r.at \in Version /\ 1 .. r.at - 1 \subseteq there
  <2>1. 1 .. 0 \subseteq there /\ 0 \in 0 .. LastVersion /\ BootTypes
    BY BootAssumption DEF BootIInv
  <2>2. Resume(s, 0, there)
    BY DEF ReadApplied
  <2>. QED
    BY <1>1, <1>2, <2>1, <2>2, Resumed
<1>4. server'[s] = r
  BY <1>3 DEF BootIInv, BootTypes
<1>5. Sound(s)' /\ ~Inserted(s)'
  BY <1>1, <1>3, <1>4 DEF Sound, Inserted, Database, ReadApplied, configVars
<1>. QED
  BY <1>3, <1>5, QuietStep DEF ReadApplied

LEMMA CommitKeeps ==
    ASSUME BootIInv, NEW s \in Server, Commit(s), UNCHANGED configVars
    PROVE  BootIInv'
<1>. DEFINE d == Database(s)
            v == server[s].at
<1>1. /\ server[s].pc = "commit" /\ Sound(s) /\ d \in Url /\ v \in Version
      /\ 1 .. v - 1 \subseteq schema[d] /\ server[s].done \subseteq schema[d]
      /\ v \notin schema[d] /\ schema[d] \subseteq Version
  BY DEF Commit, BootIInv, Sound, BootTypes
<1>0. PICK there \in SUBSET Version : there = schema[d] \cup {v}
  BY <1>1
<1>2. 1 .. v \subseteq there /\ v \in 0 .. LastVersion
  BY <1>0, <1>1, BootAssumption DEF Version
<1>3. /\ schema' = [schema EXCEPT ![d] = there]
      /\ committed' = [committed EXCEPT ![d][v] = @ + 1]
  BY <1>0 DEF Commit
<1>4. PICK r \in ServerRow :
              /\ server' = [server EXCEPT ![s] = r]
              /\ r.run = server[s].run /\ r.given = server[s].given /\ r.done = server[s].done
              /\ \/ r.pc = "listen" /\ there = Version
                 \/ r.pc = "sql" /\ r.at \in Version /\ 1 .. r.at - 1 \subseteq there
  <2>1. server[s] \in ServerRow /\ BootTypes
    BY <1>1, Rows DEF BootIInv
  <2>2. server[s].done \in SUBSET Version /\ server[s].done \subseteq there
    BY <1>0, <1>1, <2>1 DEF ServerRow
  <2>3. Resume(s, v, server[s].done)
    BY DEF Commit
  <2>. QED
    BY <1>1, <1>2, <2>1, <2>2, <2>3, Resumed
<1>5. server'[s] = r /\ \A t \in Server \ {s} : server'[t] = server[t]
  BY <1>4 DEF BootIInv, BootTypes
<1>6. BootTypes'
  <2>1. schema' \in [Url -> SUBSET Version]
    BY <1>3 DEF BootIInv, BootTypes
  <2>2. server' \in [Server -> {Down} \cup ServerRow]
    BY <1>4 DEF BootIInv, BootTypes
  <2>3. committed' \in [Url -> [Version -> Nat]]
    <3>1. committed[d] \in [Version -> Nat] /\ committed[d][v] + 1 \in Nat
      BY <1>1 DEF BootIInv, BootTypes
    <3>2. [committed[d] EXCEPT ![v] = @ + 1] \in [Version -> Nat]
      BY <3>1
    <3>. QED
      BY <1>3, <3>2 DEF BootIInv, BootTypes
  <2>. QED
    BY <2>1, <2>2, <2>3 DEF BootTypes
<1>7. ConfigTypes' /\ LoadsSaved'
  BY DEF BootIInv, ConfigTypes, LoadsSaved, configVars
<1>8. Ledger'
  <2>1. \A x \in Url : schema'[x] = IF x = d THEN there ELSE schema[x]
    BY <1>3 DEF BootIInv, BootTypes
  <2>2. \A x \in Url, n \in Version :
          committed'[x][n] = IF x = d /\ n = v THEN committed[x][n] + 1 ELSE committed[x][n]
    BY <1>1, <1>3 DEF BootIInv, BootTypes
  <2>3. committed[d][v] = 0
    BY <1>1 DEF BootIInv, Ledger
  <2>4. \A x \in Url, n \in Version : committed'[x][n] = IF n \in schema'[x] THEN 1 ELSE 0
    BY <1>0, <1>1, <2>1, <2>2, <2>3 DEF BootIInv, Ledger
  <2>5. \A x \in Url : \A n \in schema'[x] : 1 .. n \subseteq schema'[x]
    BY <1>0, <1>2, <2>1 DEF BootIInv, Ledger
  <2>. QED
    BY <2>4, <2>5 DEF Ledger
<1>9. Database(s)' = d /\ \A t \in Server \ {s} : Database(t)' = Database(t)
  BY <1>4, <1>5 DEF Database
<1>10. Sound(s)' /\ ~Inserted(s)'
  <2>1. schema'[d] = there
    BY <1>1, <1>3 DEF BootIInv, BootTypes
  <2>. QED
    BY <1>0, <1>1, <1>4, <1>5, <1>9, <2>1 DEF Sound, Inserted, configVars
<1>11. \A t \in Server \ {s} : Sound(t)'
  <2>1. \A x \in Url : schema[x] \subseteq schema'[x]
    BY <1>0, <1>3 DEF BootIInv, BootTypes
  <2>2. ASSUME NEW t \in Server \ {s}, Inserted(t)
        PROVE  server[t].at \notin schema'[Database(t)]
    <3>1. Sound(t) /\ Database(t) \in Url /\ server[t].at \notin schema[Database(t)]
      BY <2>2 DEF BootIInv, Sound, Inserted
    <3>2. Database(t) = d => server[t].at # v
      BY <1>1, <2>2 DEF BootIInv, OneInserts, Inserted
    <3>. QED
      BY <1>0, <1>3, <3>1, <3>2 DEF BootIInv, BootTypes
  <2>3. saved' = saved /\ schema' \in [Url -> SUBSET Version]
    BY <1>6 DEF BootTypes, configVars
  <2>. QED
    BY <1>5, <2>1, <2>2, <2>3, OthersSound
<1>12. OneInserts'
  BY <1>5, <1>9, <1>10 DEF BootIInv, OneInserts, Inserted
<1>. QED
  BY <1>6, <1>7, <1>8, <1>10, <1>11, <1>12 DEF BootIInv

LEMMA ConfigKeeps ==
    ASSUME BootIInv, NEW w \in Writer, ConfigStep(w), UNCHANGED bootVars
    PROVE  BootIInv'
<1>1. ConfigTypes' /\ LoadsSaved' /\ saved \subseteq saved'
  BY ConfigStepKeeps DEF BootIInv
<1>2. BootTypes' /\ Ledger' /\ OneInserts'
  BY DEF BootIInv, bootVars, BootTypes, Ledger, OneInserts, Inserted, Database
<1>3. \A s \in Server : Sound(s)'
  BY <1>1 DEF BootIInv, bootVars, Sound, Database
<1>. QED
  BY <1>1, <1>2, <1>3 DEF BootIInv

LEMMA BootNextKeeps == BootIInv /\ [BootNext]_allVars => BootIInv'
<1>. SUFFICES ASSUME BootIInv, [BootNext]_allVars PROVE BootIInv'
  OBVIOUS
<1>1. ASSUME NEW s \in Server, NEW given \in Provided, Launch(s, given), UNCHANGED configVars
      PROVE  BootIInv'
  BY <1>1, LaunchKeeps
<1>2. ASSUME NEW s \in Server, Proceed(s), UNCHANGED configVars
      PROVE  BootIInv'
  BY <1>2, LoadKeeps, ConnectKeeps, ReadAppliedKeeps, RunSQLKeeps, InsertVersionKeeps,
     CommitKeeps, ListenKeeps DEF Proceed
<1>3. ASSUME NEW s \in Server, Stop(s), UNCHANGED configVars
      PROVE  BootIInv'
  BY <1>3, FailsKeeps DEF Stop
<1>4. ASSUME NEW w \in Writer, ConfigStep(w), UNCHANGED bootVars
      PROVE  BootIInv'
  BY <1>4, ConfigKeeps
<1>5. CASE UNCHANGED allVars
  BY <1>5 DEF allVars, bootVars, configVars, BootIInv, ConfigTypes, LoadsSaved, BootTypes,
     Ledger, OneInserts, Inserted, Database, Sound
<1>. QED
  BY <1>1, <1>2, <1>3, <1>4, <1>5 DEF BootNext

LEMMA BootInvariance == BootSpec => []BootIInv
  BY InitBoot, BootNextKeeps, PTL DEF BootSpec

(* However many servers boot on however many databases, stopped or killed  *)
(* anywhere: no migration takes effect twice or before an earlier one, and *)
(* no server serves on a part of the schema.                               *)
THEOREM BootKeepsSchemaInOrder == BootSpec => []SchemaInOrder
<1>1. BootIInv => SchemaInOrder
  <2>. SUFFICES ASSUME BootIInv PROVE SchemaInOrder
    OBVIOUS
  <2>1. \A s \in Server :
          server[s].pc \in {"listen", "serving"} => schema[Database(s)] = Version
    BY DEF BootIInv, Sound
  <2>. QED
    BY <2>1 DEF BootIInv, Ledger, SchemaInOrder
<1>. QED
  BY <1>1, BootInvariance, PTL

(* Whatever is saved, converted or half written meanwhile, a server runs   *)
(* with one configuration that was saved in full, or the defaults that     *)
(* were there before the first.                                            *)
THEOREM BootRunsOnSaved == BootSpec => []RunsOnSaved
<1>1. BootIInv => RunsOnSaved
  BY DEF BootIInv, Sound, RunsOnSaved
<1>. QED
  BY <1>1, BootInvariance, PTL

-----------------------------------------------------------------------------
(* One `config set` at a time: the file is whole, or its backup is by the  *)
(* time it is truncated.                                                   *)
OneWriter == \A v, w \in Writer : v = w

BackedUp ==
    /\ main.st = "missing" => saved = {AllZero}
    /\ main.st = "broken" => bak.st = "whole" \/ backupFailed \/ saved = {AllZero}
    /\ \A w \in Writer :
         /\ writer[w].pc \in {"backup", "backing", "truncate"} => main.st # "broken"
         /\ writer[w].pc = "backing" => main.st = "whole" /\ writer[w].old = main
         /\ writer[w].pc = "truncate" =>
              main.st = "missing" \/ bak.st = "whole" \/ backupFailed

LEMMA InitBackedUp == ConfigInit => BackedUp
<1>. SUFFICES ASSUME ConfigInit PROVE BackedUp
  OBVIOUS
<1>1. main.st # "broken"
  <2>1. CASE main = Missing
    BY <2>1, Files
  <2>2. CASE main # Missing
    BY <2>2 DEF ConfigInit, LegacyFile, Whole
  <2>. QED
    BY <2>1, <2>2
<1>2. main.st = "missing" => saved = {AllZero}
  BY DEF ConfigInit, Loaded, Loads
<1>3. \A w \in Writer : writer[w].pc = "idle"
  BY DEF ConfigInit, Idle
<1>. QED
  BY <1>1, <1>2, <1>3 DEF BackedUp

LEMMA ConfigStepBackedUp ==
    ASSUME OneWriter, ConfigTypes, BackedUp, NEW w \in Writer, ConfigStep(w)
    PROVE  BackedUp'
<1>. USE DEF BackedUp
<1>0. (\A v \in Writer : v = w) /\ writer \in [Writer -> WriterRow]
  BY DEF OneWriter, ConfigTypes
<1>1. ASSUME NEW cfg, Begin(w, cfg), main.st # "broken"
      PROVE  BackedUp'
  BY <1>0, <1>1 DEF Begin
<1>2. ASSUME NEW a \in Argument, ConfigSet(w, a[1], a[2])
      PROVE  BackedUp'
  BY <1>1, <1>2 DEF ConfigSet, Loads
<1>3. CASE ConfigConvert(w)
  BY <1>1, <1>3 DEF ConfigConvert
<1>4. CASE Backup(w)
  <2>1. writer[w] \in WriterRow /\ main.st \in {"missing", "whole"}
    BY <1>0, <1>4, Files DEF Backup, ConfigTypes
  <2>2. CASE main.st = "missing"
    BY <1>0, <1>4, <2>1, <2>2 DEF Backup, To, WriterRow
  <2>3. CASE main.st = "whole"
    BY <1>0, <1>4, <2>1, <2>3 DEF Backup, WriterRow
  <2>. QED
    BY <2>1, <2>2, <2>3
<1>5. CASE BackupWritten(w)
  <2>1. writer'[w].pc = "truncate"
    BY <1>0, <1>5 DEF BackupWritten, To, WriterRow
  <2>. QED
    BY <1>0, <1>5, <2>1 DEF BackupWritten
<1>6. CASE Truncate(w)
  <2>1. writer'[w].pc = "write" /\ main'.st = "broken"
    BY <1>0, <1>6, Files DEF Truncate, To, WriterRow
  <2>2. bak.st = "whole" \/ backupFailed \/ saved = {AllZero}
    BY <1>6 DEF Truncate
  <2>. QED
    BY <1>0, <1>6, <2>1, <2>2 DEF Truncate
<1>7. CASE Write(w)
  <2>1. writer'[w].pc = "idle" /\ main'.st = "whole"
    BY <1>0, <1>7 DEF Write, Idle, Whole
  <2>. QED
    BY <1>0, <2>1
<1>8. CASE WriterStops(w)
  <2>1. writer'[w].pc = "idle"
    BY <1>0, <1>8 DEF WriterStops, Idle
  <2>. QED
    BY <1>0, <1>8, <2>1 DEF WriterStops
<1>. QED
  BY <1>2, <1>3, <1>4, <1>5, <1>6, <1>7, <1>8 DEF ConfigStep

(* file.go:268, "a bad config set should never be unrecoverable": with one *)
(* writer, killed at any step of any save, the file or its backup is whole *)
(* as long as backups could be written.                                    *)
THEOREM OneWriterRecoverable ==
    ASSUME OneWriter PROVE BootSpec => []Recoverable
<1>1. BootInit => BackedUp
  BY InitBackedUp DEF BootInit
<1>2. BootIInv /\ BackedUp /\ [BootNext]_allVars => BackedUp'
  <2>. SUFFICES ASSUME BootIInv, BackedUp, [BootNext]_allVars PROVE BackedUp'
    OBVIOUS
  <2>1. CASE \E w \in Writer : ConfigStep(w)
    BY <2>1, ConfigStepBackedUp DEF BootIInv
  <2>2. CASE UNCHANGED configVars
    BY <2>2 DEF configVars, BackedUp
  <2>. QED
    BY <2>1, <2>2 DEF BootNext, allVars
<1>3. BootIInv /\ BackedUp => Recoverable
  BY Files DEF BootIInv, ConfigTypes, BackedUp, Recoverable
<1>. QED
  BY <1>1, <1>2, <1>3, BootInvariance, PTL DEF BootSpec
=============================================================================
