---------------------------- MODULE RateLimiter ----------------------------
(***************************************************************************)
(* The replay rate limiter (internal/ratelimit/limiter.go) and the         *)
(* Retry-After its middleware answers with (limited, internal/httpapi/     *)
(* api.go): a fixed window per caller, in a table whose expired windows    *)
(* are evicted lazily.  Allow runs under a mutex: one action per call.     *)
(*                                                                         *)
(* With a limit or a window <= 0 the limiter keeps no state and allows     *)
(* everything; the module is about the others.                             *)
(***************************************************************************)
EXTENDS Integers, Sequences, FiniteSets

CONSTANTS
    Key,         \* callers
    Limit,       \* replays per window
    Window,      \* length of a window, in clock ticks
    Second,      \* clock ticks per second, the unit of Retry-After
    MaxTracked,  \* keys kept before expired windows are evicted
    MaxClock,    \* bound of the model: the clock stops here
    MaxGrants    \* bound of the model: calls granted to one caller

ASSUME RateLimiterAssumption ==
    /\ Limit \in Nat \ {0} /\ Window \in Nat \ {0} /\ Second \in Nat \ {0}
    /\ MaxTracked \in Nat /\ MaxClock \in Nat /\ MaxGrants \in Nat

VARIABLES
    now,      \* the clock, which never runs backwards
    tracked,  \* keys present in the table
    bucket,   \* bucket[k]: the window of k, meaningful for tracked keys
    log,      \* log[k]: the calls granted to k, oldest first (history)
    retryAt   \* retryAt[k]: when a denied k was told to come back (history)

vars == <<now, tracked, bucket, log, retryAt>>

-----------------------------------------------------------------------------
Bucket == [used : Nat, resetAt : Nat]

(* A granted call: when it was made and when its window began.             *)
Grant == [at : Nat, start : Nat]

(* A caller that was denied: the time of the denial and the time it was    *)
(* told to come back at.                                                   *)
Promise == [since : Int, at : Nat]

Init ==
    /\ now = 0
    /\ tracked = {}
    /\ bucket = [k \in Key |-> [used |-> 0, resetAt |-> 0]]
    /\ log = [k \in Key |-> <<>>]
    /\ retryAt = [k \in Key |-> [since |-> -1, at |-> 0]]

(* now.After(resetAt): the last tick of a window still belongs to it.      *)
Expired(k) == now > bucket[k].resetAt
Fresh(k) == k \notin tracked \/ Expired(k)

(* Mutant: the whole table.                                                *)
EvictedAll == IF Cardinality(tracked) < MaxTracked THEN {} ELSE tracked

(* evict: nothing until the table is full, then only what has expired.     *)
Evicted == IF Cardinality(tracked) < MaxTracked THEN {}
           ELSE {k \in tracked : Expired(k)}

Granted(k, start) ==
    log' = [log EXCEPT ![k] = Append(@, [at |-> now, start |-> start])]

(* The first call of a window.                                             *)
Open(k) ==
    /\ Fresh(k)
    /\ tracked' = (tracked \ Evicted) \cup {k}
    /\ bucket' = [bucket EXCEPT ![k] = [used |-> 1, resetAt |-> now + Window]]
    /\ Granted(k, now)
    /\ UNCHANGED <<now, retryAt>>

(* Mutant: off by one.                                                     *)
WithinLimitOrAt(k) == bucket[k].used <= Limit

WithinLimit(k) == bucket[k].used < Limit

Spend(k) ==
    /\ ~Fresh(k)
    /\ WithinLimit(k)
    /\ bucket' = [bucket EXCEPT ![k].used = @ + 1]
    /\ Granted(k, bucket[k].resetAt - Window)
    /\ UNCHANGED <<now, tracked, retryAt>>

(* Mutant: rounded down.                                                   *)
RetryAfterRoundedDown(k) == ((bucket[k].resetAt - now) \div Second) * Second

(* The wait in whole seconds, rounded up past it.                          *)
RetryAfter(k) == ((bucket[k].resetAt - now) \div Second + 1) * Second

Deny(k) ==
    /\ ~Fresh(k)
    /\ ~WithinLimit(k)
    /\ retryAt' = [retryAt EXCEPT ![k] =
                     [since |-> now, at |-> now + RetryAfter(k)]]
    /\ UNCHANGED <<now, tracked, bucket, log>>

Allow(k) ==
    \/ Len(log[k]) < MaxGrants /\ (Open(k) \/ Spend(k))
    \/ Deny(k)

Tick == /\ now < MaxClock
        /\ now' = now + 1
        /\ UNCHANGED <<tracked, bucket, log, retryAt>>

Next == Tick \/ \E k \in Key : Allow(k)

Spec == Init /\ [][Next]_vars

-----------------------------------------------------------------------------
TypeOK ==
    /\ now \in Nat
    /\ tracked \in SUBSET Key
    /\ bucket \in [Key -> Bucket]
    /\ log \in [Key -> Seq(Grant)]
    /\ retryAt \in [Key -> Promise]

(* No caller gets more than Limit calls out of one window, eviction or     *)
(* not: the window of a call's Limit-th successor begins after its own has *)
(* ended.                                                                  *)
LimitPerWindow ==
    \A k \in Key : \A n \in 1 .. Len(log[k]) - Limit :
       log[k][n].start + Window < log[k][n + Limit].start

(* A window is fixed, so a burst may straddle two of them; but over any    *)
(* stretch of Window ticks no caller gets more than 2 * Limit calls.       *)
TwiceLimitPerStretch ==
    \A k \in Key : \A n \in 1 .. Len(log[k]) - 2 * Limit :
       log[k][n].at + Window < log[k][n + 2 * Limit].at

(* A denied caller that comes back when Retry-After says finds its window  *)
(* over, unless it has opened another one since.                           *)
RetryAfterIsEnough ==
    \A k \in Key :
       retryAt[k].since >= 0 /\ now >= retryAt[k].at =>
          \/ Fresh(k)
          \/ bucket[k].resetAt - Window > retryAt[k].since
=============================================================================
