------------------------------- MODULE Replay -------------------------------
(***************************************************************************)
(* Replaying an event to a target (internal/replay/service.go and the      *)
(* handler createReplay of internal/httpapi/replay.go): concurrent replays *)
(* over Store.  A replay copies the event and its inbox, then sends and    *)
(* records attempt after attempt, while the client may disconnect and the  *)
(* event or its inbox may be deleted.                                      *)
(*                                                                         *)
(* Abstracted: the request and the response (an attempt has an outcome),   *)
(* the target policy (its verdict is nondeterministic), the backoff, the   *)
(* owner check (module InboxAPI) and the rate limit (module RateLimiter).  *)
(***************************************************************************)
EXTENDS Store, Sequences

CONSTANTS
    Run,          \* concurrent replays
    MaxRetries,   \* policy.MaxRetries
    Reported,     \* bound of the model: the outcomes attempts have
    StoreFails    \* whether statements may fail for reasons of their own

VARIABLE run  \* run[r]: the state of one replay

replayVars == <<inbox, event, replay, clock, run>>

-----------------------------------------------------------------------------
Target == {"allowed",  \* ValidateTarget accepts it
           "blocked",  \* ErrBlockedTarget
           "invalid"}  \* ErrInvalidURL

(* http_error with a 4xx and a 5xx status are told apart by retryable.     *)
Outcome == {"success", "http_4xx", "http_5xx", "timeout", "network_error",
            "blocked"}

Pc == {"idle", "inbox", "validate", "send", "record", "done"}
Status == {200, 400, 403, 404, 422, 500}
Answer == Status \cup {None}   \* None: not answered yet

ASSUME ReplayAssumption ==
    /\ MaxRetries \in Nat /\ StoreFails \in BOOLEAN
    /\ ReplayId \subseteq Nat
    /\ MaxRetries < MaxNo      \* Store's bound leaves room for the retries
    /\ None \notin Status

Outcomes == Seq(Outcome)   \* of the attempts made, in order
Rows == Seq(ReplayId)      \* of the attempts recorded, in order

Cancelled == BOOLEAN       \* the request's context

RunRow == [pc : Pc, event : EventId \cup {None}, inbox : InboxId \cup {None},
           target : Target \cup {None}, cancelled : Cancelled,
           tried : Outcomes, sent : Nat, rows : Rows, ans : Answer]

Idle == [pc |-> "idle", event |-> None, inbox |-> None, target |-> None,
         cancelled |-> FALSE, tried |-> <<>>, sent |-> 0, rows |-> <<>>,
         ans |-> None]

ReplayInit == StoreInit /\ run = [r \in Run |-> Idle]

Reply(r, ans) == run' = [run EXCEPT ![r] = [@ EXCEPT !.pc = "done", !.ans = ans]]

-----------------------------------------------------------------------------
(* createReplay: ownedEvent copies the event, ownedInbox its inbox.        *)
Begin(r) ==
    /\ run[r].pc = "idle"
    /\ \E e \in EventId, t \in Target :
         run' = [run EXCEPT ![r] =
                   [Idle EXCEPT
                      !.event = e, !.target = t,
                      !.inbox = IF e \in LiveEvents THEN event[e].inbox ELSE None,
                      !.pc = IF e \in LiveEvents THEN "inbox" ELSE "done",
                      !.ans = IF e \in LiveEvents THEN None ELSE 404]]
    /\ UNCHANGED storeVars

(* A body override that is not base64 is refused here.                     *)
FindInbox(r) ==
    /\ run[r].pc = "inbox"
    /\ ~run[r].cancelled
    /\ IF run[r].inbox \in LiveInboxes
       THEN run' = [run EXCEPT ![r].pc = "validate"] \/ Reply(r, 422)
       ELSE Reply(r, 404)
    /\ UNCHANGED storeVars

(* Run: a refused target makes one attempt that is recorded, not sent.     *)
Validate(r) ==
    /\ run[r].pc = "validate"
    /\ run' = IF run[r].target = "allowed"
              THEN [run EXCEPT ![r].pc = "send"]
              ELSE [run EXCEPT ![r] = [@ EXCEPT !.pc = "record", !.tried = <<"blocked">>]]
    /\ UNCHANGED storeVars

(* execute.  Nothing is sent under a cancelled context.  A timeout, a      *)
(* network error (also a request that cannot be built) or a blocked dial   *)
(* may come before the target got the request, or after: on its answer, or *)
(* on a redirect.                                                          *)
Execute(r) ==
    /\ run[r].pc = "send"
    /\ \E o \in Reported \cap Outcome, sent \in 0 .. 1 :
         /\ sent = 0 => o \in {"network_error", "timeout", "blocked"}
         /\ run[r].cancelled => sent = 0 /\ o = "network_error"
         /\ run' = [run EXCEPT ![r] = [@ EXCEPT !.pc = "record",
                                        !.tried = Append(run[r].tried, o),
                                        !.sent = run[r].sent + sent]]
    /\ UNCHANGED storeVars

(* The answer about a refused target, or else ans.                         *)
(* Mutants: another status for a refused target; success whatever happened.*)
AnswerBadGateway(r, ans) == IF run[r].target = "blocked" THEN 502
                            ELSE IF run[r].target = "invalid" THEN 400
                            ELSE ans

AnswerSuccess(r, ans) == IF run[r].target = "blocked" THEN 403
                         ELSE IF run[r].target = "invalid" THEN 400
                         ELSE IF ans = None THEN None ELSE 200

AnswerOr(r, ans) == IF run[r].target = "blocked" THEN 403
                    ELSE IF run[r].target = "invalid" THEN 400
                    ELSE ans

Retryable(o) == o \in {"timeout", "network_error", "http_5xx"}

(* The loop goes on.  Mutant: one attempt too many.                        *)
AgainOnceMore(r) ==
    /\ run[r].target = "allowed"
    /\ Retryable(run[r].tried[Len(run[r].tried)])
    /\ Len(run[r].tried) <= 1 + MaxRetries

Again(r) ==
    /\ run[r].target = "allowed"
    /\ Retryable(run[r].tried[Len(run[r].tried)])
    /\ Len(run[r].tried) < 1 + MaxRetries

(* What Run does after CreateReplay succeeded.                             *)
Recorded(r, rows) ==
    run' = [run EXCEPT ![r] =
              [@ EXCEPT !.rows = rows,
                        !.pc = IF Again(r) THEN "send" ELSE "done",
                        !.ans = IF Again(r) THEN None ELSE AnswerOr(r, 200)]]

(* Mutants: the error is ignored; the insert is tried until it succeeds.   *)
NotRecordedGoesOn(r, rows) == Recorded(r, rows)
NotRecordedInsists(r, rows) == UNCHANGED run

(* ... and after it failed: a refusal is only logged, an attempt ends the  *)
(* replay.                                                                 *)
NotRecorded(r, rows) ==
    run' = [run EXCEPT ![r] = [@ EXCEPT !.rows = rows, !.pc = "done",
                                        !.ans = AnswerOr(r, 500)]]

(* retry_of.  Mutant: the attempt before instead of the first.             *)
LastRow(r) == IF run[r].rows = <<>> THEN None ELSE run[r].rows[Len(run[r].rows)]

First(r) == IF run[r].rows = <<>> THEN None ELSE run[r].rows[1]

(* Ids are random; the model hands them out in order.                      *)
NextId(a) == \A b \in ReplayId : replay[b].st = "fresh" => a <= b

Insert(r, a) ==
    /\ NextId(a)
    /\ CreateReplay(a, run[r].event, run[r].inbox, Len(run[r].tried), First(r))

Record(r) ==
    /\ run[r].pc = "record"
    /\ ~run[r].cancelled
    /\ \E a \in ReplayId : Insert(r, a) /\ Recorded(r, Append(run[r].rows, a))

(* The row is there, but the driver reports an error: the connection broke *)
(* or the context ended while the statement ran.                           *)
RecordLostAnswer(r) ==
    /\ run[r].pc = "record"
    /\ StoreFails \/ run[r].cancelled
    /\ \E a \in ReplayId : Insert(r, a) /\ NotRecorded(r, Append(run[r].rows, a))

(* The event is gone (foreign key), the context ended or the store failed. *)
RecordFailed(r) ==
    /\ run[r].pc = "record"
    /\ \/ StoreFails \/ run[r].cancelled
       \/ run[r].event \notin LiveEvents \/ run[r].inbox \notin LiveInboxes
    /\ NotRecorded(r, run[r].rows)
    /\ UNCHANGED storeVars

(* The client disconnects: the request's context, which every step uses,   *)
(* is cancelled.                                                           *)
Disconnect(r) ==
    /\ run[r].pc \notin {"idle", "done"}
    /\ ~run[r].cancelled
    /\ run' = [run EXCEPT ![r].cancelled = TRUE]
    /\ UNCHANGED storeVars

(* ownedEvent takes a failure to read the inbox for a foreign one.         *)
ReadFailed(r) ==
    /\ run[r].pc = "inbox"
    /\ StoreFails \/ run[r].cancelled
    /\ Reply(r, 404) \/ Reply(r, 500)
    /\ UNCHANGED storeVars

Elsewhere ==
    /\ \/ \E e \in EventId, i \in LiveInboxes : CreateEvent(e, i, clock, None)
       \/ \E e \in EventId : DeleteEvent(e)
       \/ \E i \in InboxId : DeleteInbox(i)
    /\ UNCHANGED run

Handle(r) == \/ FindInbox(r) \/ ReadFailed(r) \/ Validate(r) \/ Execute(r)
             \/ Record(r) \/ RecordLostAnswer(r) \/ RecordFailed(r)

ReplayNext ==
    \/ \E r \in Run : Begin(r) \/ Handle(r) \/ Disconnect(r)
    \/ Elsewhere

(* A handler runs to its end: the HTTP client and the driver time out.     *)
ReplaySpec == /\ ReplayInit /\ [][ReplayNext]_replayVars
              /\ \A r \in Run : WF_replayVars(Handle(r))

-----------------------------------------------------------------------------
ReplayTypeOK ==
    /\ StoreTypeOK
    /\ run \in [Run -> RunRow]

(* The target is never contacted again before the attempt before it is in  *)
(* the history: whatever fails, at most the last attempt is missing.       *)
NeverAheadOfHistory ==
    \A r \in Run : Len(run[r].tried) <= Len(run[r].rows) + 1

(* The rows of a replay are a chain: numbered in order, each retry         *)
(* pointing at the first attempt, all on the replayed event and its inbox; *)
(* a deletion takes the whole chain, so no SET NULL ever tears it.         *)
HistoryIsChain ==
    \A r \in Run :
       \A m, n \in DOMAIN run[r].rows :
          LET a == run[r].rows[n] IN
          /\ a \in LiveReplays <=> run[r].rows[m] \in LiveReplays
          /\ a \in LiveReplays =>
               /\ replay[a].no = n
               /\ replay[a].retryOf = IF n = 1 THEN None ELSE run[r].rows[1]
               /\ replay[a].event = run[r].event
               /\ replay[a].inbox = event[run[r].event].inbox

(* A request is sent again only after a retryable outcome and within the   *)
(* policy's budget, and never to a refused target.                         *)
RetriesJustified ==
    \A r \in Run :
       /\ run[r].sent <= 1 + MaxRetries
       /\ \A n \in 1 .. Len(run[r].tried) - 1 : Retryable(run[r].tried[n])
       /\ run[r].target # "allowed" => run[r].sent = 0

(* 200 means that every attempt was executed and recorded and that none is *)
(* left to make; a refusal that nothing was sent.                          *)
AnswerMatchesHistory ==
    \A r \in Run :
       LET q == run[r] IN
       /\ q.ans = 200 =>
            /\ q.tried # <<>> /\ Len(q.rows) = Len(q.tried)
            /\ \/ ~Retryable(q.tried[Len(q.tried)])
               \/ Len(q.tried) = 1 + MaxRetries
       /\ q.ans \in {400, 403, 404, 422} => q.sent = 0

(* Every replay is answered.                                               *)
EveryReplayAnswered ==
    \A r \in Run : run[r].pc = "inbox" ~> run[r].pc = "done"
=============================================================================
