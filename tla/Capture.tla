------------------------------ MODULE Capture ------------------------------
(***************************************************************************)
(* The capture endpoint /hooks/{token}                                     *)
(* (internal/http/middleware/webhook/middleware.go):                       *)
(* concurrent requests over Store, while the API and the retention cleaner *)
(* change the inbox, its token and its events between their statements.    *)
(*                                                                         *)
(* A request reads the inbox row once and uses that copy for everything    *)
(* that follows: the body limit, the signature, the insert, the answer.    *)
(*                                                                         *)
(* Abstracted: header capture and masking (module capture), the client IP, *)
(* the mock response's headers and body.  A signature is the secret it was *)
(* made with; an inbox without a signature header counts as one without a  *)
(* secret.                                                                 *)
(***************************************************************************)
EXTENDS Store

CONSTANTS
    Request,     \* concurrent capture requests
    MaxChanges   \* bound of the model: changes made by others

VARIABLES
    req,         \* req[r]: the state of one handler
    announcing,  \* messages of Publish goroutines not yet run
    published,   \* messages handed to the pub/sub
    down,        \* the application context is cancelled
    seen,        \* seen[r]: what r's token led to since r arrived (history)
    changes      \* changes made by others so far, bounded

captureVars == <<inbox, event, replay, clock, req, announcing, published,
                 down, seen, changes>>

-----------------------------------------------------------------------------
Kind == {"preflight",  \* an OPTIONS request
         "declared",   \* Content-Length above the limit
         "over",       \* found above the limit while reading
         "broken",     \* the body cannot be read
         "fits"}

Pc == {"idle", "lookup", "read", "store", "respond", "done"}
Status == {200, 204, 400, 401, 403, 404, 413, 500}
Answer == Status \cup {None}   \* None: not answered yet

ASSUME CaptureAssumption == MaxChanges \in Nat /\ None \notin Status

RequestRow == [pc : Pc, kind : Kind \cup {None}, token : Token \cup {None},
               sig : Secret \cup {None}, inbox : InboxId \cup {None},
               cfg : Settings \cup {None}, at : Nat, valid : SignatureValid,
               stored : EventId \cup {None}, ans : Answer]

Idle == [pc |-> "idle", kind |-> None, token |-> None, sig |-> None,
         inbox |-> None, cfg |-> None, at |-> 0, valid |-> None,
         stored |-> None, ans |-> None]

(* What a token leads to: an inbox and its settings, or nothing.           *)
Nothing == [inbox |-> None, cfg |-> None]
View(rows, t) ==
    {[inbox |-> i, cfg |-> rows[i].cfg] :
        i \in {j \in InboxId : rows[j].st = "live" /\ rows[j].token = t}}
Resolves(rows, t) == IF View(rows, t) = {} THEN {Nothing} ELSE View(rows, t)

Message(action, e) == [action |-> action, event |-> e]

CaptureInit ==
    /\ StoreInit
    /\ req = [r \in Request |-> Idle]
    /\ announcing = {} /\ published = {}
    /\ down = FALSE
    /\ seen = [r \in Request |-> {}]
    /\ changes = 0

Reply(r, ans) == req' = [req EXCEPT ![r].pc = "done", ![r].ans = ans]
Quiet == UNCHANGED <<announcing, published, down>>

-----------------------------------------------------------------------------
Arrive(r) ==
    /\ req[r].pc = "idle"
    /\ \E k \in Kind, t \in Token, s \in Secret \cup {None} :
         req' = [req EXCEPT ![r] =
                    [Idle EXCEPT !.pc = "lookup", !.kind = k, !.token = t, !.sig = s]]
    /\ UNCHANGED storeVars /\ Quiet

(* handleCapture up to the body: answered before anything is read.         *)
(* Mutant: a disabled inbox counts as gone.                                *)
RefusalGone(kind, cfg) == IF ~cfg.enabled THEN 410
                          ELSE IF kind = "declared" THEN 413
                          ELSE None

Refusal(kind, cfg) == IF ~cfg.enabled THEN 403
                      ELSE IF kind = "declared" THEN 413
                      ELSE None

Lookup(r) ==
    /\ req[r].pc = "lookup"
    /\ \/ req[r].kind = "preflight" /\ Reply(r, 204)
       \/ /\ req[r].kind # "preflight"
          /\ View(inbox, req[r].token) = {}
          /\ Reply(r, 404)
       \/ /\ req[r].kind # "preflight"
          /\ \E v \in View(inbox, req[r].token) :
               LET ans == Refusal(req[r].kind, v.cfg) IN
               req' = [req EXCEPT ![r].inbox = v.inbox, ![r].cfg = v.cfg,
                                  ![r].ans = ans,
                                  ![r].pc = IF ans = None THEN "read" ELSE "done"]
       \/ req[r].kind # "preflight" /\ Reply(r, 500)  \* a store or decryption error
    /\ UNCHANGED storeVars /\ Quiet

(* verifySignature: NULL without a secret.                                 *)
Verified(cfg, sig) == IF cfg.secret = None THEN None ELSE cfg.secret = sig

(* Read the body, verify the signature, stamp created_at.                  *)
ReadBody(r) ==
    /\ req[r].pc = "read"
    /\ \/ req[r].kind = "over" /\ Reply(r, 413)
       \/ req[r].kind = "broken" /\ Reply(r, 400)
       \/ /\ req[r].kind \notin {"over", "broken"}
          /\ req' = [req EXCEPT ![r].pc = "store", ![r].at = clock,
                                ![r].valid = Verified(req[r].cfg, req[r].sig)]
    /\ UNCHANGED storeVars /\ Quiet

(* Mutant: whether a signature is required is read again.                  *)
RejectedByRow(r) ==
    /\ req[r].inbox \in LiveInboxes
    /\ inbox[req[r].inbox].cfg.require
    /\ req[r].valid # TRUE

(* Fail closed: NULL is not TRUE.                                          *)
Rejected(r) == req[r].cfg.require /\ req[r].valid # TRUE

(* storeIncoming, then the answer of a rejected request or of an insert    *)
(* that failed; a stored and accepted one goes on to respond.              *)
Finish(r, e, ans) ==
    req' = [req EXCEPT ![r].stored = e, ![r].ans = ans,
                       ![r].pc = IF ans = None THEN "respond" ELSE "done"]

StoreIncoming(r) ==
    /\ req[r].pc = "store"
    /\ \E e \in EventId :
         /\ CreateEvent(e, req[r].inbox, req[r].at, req[r].valid)
         /\ Finish(r, e, IF Rejected(r) THEN 401 ELSE None)
         /\ announcing' = announcing \cup {Message("create", e)}
    /\ UNCHANGED <<published, down>>

(* The insert took effect, but the driver reports an error: the caller's   *)
(* context ended or the connection broke after the statement was sent.     *)
StoreLostAnswer(r) ==
    /\ req[r].pc = "store"
    /\ \E e \in EventId :
         /\ CreateEvent(e, req[r].inbox, req[r].at, req[r].valid)
         /\ Finish(r, e, IF Rejected(r) THEN 401 ELSE 500)
    /\ Quiet

(* Mutants: the error is ignored; the goroutine starts before the insert.  *)
StoreFailedUnseen(r) ==
    /\ req[r].pc = "store"
    /\ Finish(r, None, IF Rejected(r) THEN 401 ELSE None)
    /\ UNCHANGED storeVars /\ Quiet

StoreFailedAnnounced(r) ==
    /\ req[r].pc = "store"
    /\ Finish(r, None, IF Rejected(r) THEN 401 ELSE 500)
    /\ \E e \in EventId : announcing' = announcing \cup {Message("create", e)}
    /\ UNCHANGED <<storeVars, published, down>>

(* The inbox is gone (foreign key) or the store failed.                    *)
StoreFailed(r) ==
    /\ req[r].pc = "store"
    /\ Finish(r, None, IF Rejected(r) THEN 401 ELSE 500)
    /\ UNCHANGED storeVars /\ Quiet

(* Mutant: the response is that of the inbox read again; once it is gone   *)
(* the handler tries for ever.                                             *)
RespondByRow(r) ==
    /\ req[r].pc = "respond"
    /\ req[r].inbox \in LiveInboxes
    /\ Reply(r, 200)
    /\ UNCHANGED storeVars /\ Quiet

(* After the configured delay, the mock response of the copy read first.   *)
Respond(r) ==
    /\ req[r].pc = "respond"
    /\ Reply(r, 200)
    /\ UNCHANGED storeVars /\ Quiet

(* Mutant: the goroutine runs under the request's context.                 *)
PublishInRequest(m) ==
    /\ m \in announcing
    /\ announcing' = announcing \ {m}
    /\ published' = IF \E r \in Request : req[r].stored = m.event /\ req[r].pc = "done"
                    THEN published ELSE published \cup {m}
    /\ UNCHANGED <<inbox, event, replay, clock, req, down>>

(* The goroutine storeIncoming starts, under the application context: it   *)
(* outlives the request.  Publish drops the message once that is done.     *)
Publish(m) ==
    /\ m \in announcing
    /\ announcing' = announcing \ {m}
    /\ published' = IF down THEN published ELSE published \cup {m}
    /\ UNCHANGED <<inbox, event, replay, clock, req, down>>

Shutdown == /\ ~down /\ down' = TRUE
            /\ UNCHANGED <<inbox, event, replay, clock, req, announcing, published>>

(* Statements of the API and of the retention cleaner, which both delete   *)
(* events.                                                                 *)
Elsewhere ==
    /\ changes < MaxChanges /\ changes' = changes + 1
    /\ \/ \E i \in InboxId :
            \/ \E o \in Owner, t \in Token, s \in Configs : CreateInbox(i, o, t, s)
            \/ \E p \in Patches : UpdateInbox(i, p)
            \/ \E t \in Token : RotateToken(i, t)
            \/ DeleteInbox(i)
       \/ \E e \in EventId : DeleteEvent(e)
       \/ Tick
    /\ Quiet /\ UNCHANGED req

Handle(r) == \/ Lookup(r) \/ ReadBody(r) \/ StoreIncoming(r)
             \/ StoreLostAnswer(r) \/ StoreFailed(r) \/ Respond(r)

(* History: what r's token led to in each state from its arrival until the *)
(* request is decided.                                                     *)
Observe ==
    seen' = [r \in Request |->
               IF req'[r].pc \in {"lookup", "read", "store"}
               THEN seen[r] \cup Resolves(inbox', req'[r].token)
               ELSE seen[r]]

CaptureNext ==
    /\ \/ /\ \/ \E r \in Request : Arrive(r) \/ Handle(r)
             \/ \E m \in announcing : Publish(m)
             \/ Shutdown
          /\ UNCHANGED changes
       \/ Elsewhere
    /\ Observe

(* net/http runs every handler and the scheduler every goroutine, as long  *)
(* as the application context lives.  Once it is done, `start` returns     *)
(* without waiting for the drain (start/command.go:436): what is in flight *)
(* may still run, but nothing promises it, since the process may end at    *)
(* any moment.  Clients need not send anything, nobody has to shut down.   *)
CaptureFairness ==
    /\ \A r \in Request :
          WF_captureVars(~down /\ Handle(r) /\ Observe /\ UNCHANGED changes)
    /\ \A e \in EventId :
          WF_captureVars(~down /\ Publish(Message("create", e)) /\ Observe
                           /\ UNCHANGED changes)

CaptureSpec == CaptureInit /\ [][CaptureNext]_captureVars /\ CaptureFairness

-----------------------------------------------------------------------------
CaptureTypeOK ==
    /\ StoreTypeOK
    /\ req \in [Request -> RequestRow]
    /\ announcing \cup published \subseteq {Message("create", e) : e \in EventId}
    /\ down \in BOOLEAN

(* The inbox row is read long before it is used, and may be patched,       *)
(* rotated or deleted in between.  Still every answer is one the handler   *)
(* would have given had it run at a single moment between the request's    *)
(* arrival and its decision: settings of two moments are never mixed.      *)
Explains(v, q) ==
    LET open == v # Nothing /\ v.cfg.enabled
        unsigned == v.cfg.require /\ Verified(v.cfg, q.sig) # TRUE IN
    /\ q.ans = 404 => v = Nothing
    /\ q.ans = 403 => v # Nothing /\ ~v.cfg.enabled
    /\ q.ans = 413 => open /\ q.kind \in {"declared", "over"}
    /\ q.ans = 400 => open /\ q.kind = "broken"
    /\ q.ans = 401 => open /\ q.kind = "fits" /\ unsigned
    /\ q.ans = 200 => /\ open /\ q.kind = "fits" /\ ~unsigned
                     /\ v.inbox = q.inbox
                     /\ q.valid = Verified(v.cfg, q.sig)

AnswerExplained ==
    \A r \in Request :
       req[r].pc = "done" =>
          req[r].ans \in {204, 500} \/ \E v \in seen[r] : Explains(v, req[r])

(* An accepted request is in the table of the inbox it was sent to (until  *)
(* its event is deleted), a refused one never was: only 401 and 500 leave  *)
(* the sender in doubt.                                                    *)
StoredIffAccepted ==
    \A r \in Request :
       LET q == req[r] IN
       /\ q.ans = 200 => q.stored # None
       /\ q.ans \in {204, 400, 403, 404, 413} => q.stored = None
       /\ q.stored # None =>
            \/ event[q.stored].st = "gone"
            \/ /\ q.stored \in EventsOf(q.inbox)
               /\ event[q.stored].valid = q.valid

(* Subscribers are only told of events that were stored: the message is    *)
(* sent after the insert, by a goroutine that outlives the request.        *)
AnnouncedIsStored ==
    \A m \in announcing \cup published : event[m.event].st # "fresh"

(* Every request is answered, unless the application stops first: a        *)
(* request in flight at a shutdown may end with the process, unanswered,   *)
(* because start/command.go:436-442 does not wait for the drain.           *)
EveryRequestAnswered ==
    \A r \in Request : req[r].pc = "lookup" ~> req[r].pc = "done" \/ down

(* Every accepted event is announced, though the request is over by then,  *)
(* unless the application stops first.                                     *)
EveryAcceptedAnnounced ==
    \A e \in EventId :
       (\E r \in Request : req[r].ans = 200 /\ req[r].stored = e)
         ~> down \/ Message("create", e) \in published
=============================================================================
