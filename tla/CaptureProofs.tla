--------------------------- MODULE CaptureProofs ---------------------------
(***************************************************************************)
(* Proofs about Capture, for any number of requests, inboxes and events    *)
(* and any order of the changes made elsewhere.                            *)
(*                                                                         *)
(* Every step of Capture is a statement of Store or leaves the tables      *)
(* alone, so what StoreProofs shows of the tables holds here too.  The     *)
(* rest is an invariant of each request on its own: what its handler has   *)
(* established when it reaches each of its program points.                 *)
(***************************************************************************)
EXTENDS Capture, StoreProofs

-----------------------------------------------------------------------------
(* The request is handled with a copy of an enabled inbox that its token   *)
(* led to at some moment since it arrived.                                 *)
Copied(r) ==
    LET q == req[r] IN
    /\ q.inbox \in InboxId /\ q.cfg \in Settings /\ q.cfg.enabled
    /\ [inbox |-> q.inbox, cfg |-> q.cfg] \in seen[r]
    /\ q.kind \in {"over", "broken", "fits"}

(* The body was read, verified and stamped.                                *)
Checked(r) ==
    LET q == req[r] IN
    /\ q.kind = "fits" /\ q.valid = Verified(q.cfg, q.sig)
    /\ q.at <= clock

(* What holds at each program point of a handler.                          *)
Phase(r) ==
    LET q == req[r] IN
    /\ q.ans = None <=> q.pc # "done"
    /\ q.pc = "lookup" => /\ q.kind \in Kind /\ q.token \in Token
                          /\ Resolves(inbox, q.token) \subseteq seen[r]
    /\ q.pc \in {"read", "store", "respond"} => Copied(r)
    /\ q.pc \in {"store", "respond"} => Checked(r)
    /\ q.pc \in {"idle", "lookup", "read", "store"} => q.stored = None
    /\ q.pc = "respond" => q.stored # None /\ ~Rejected(r)

(* What AnswerExplained and StoredIffAccepted say of one request.          *)
Explained(r) ==
    req[r].pc = "done" =>
       req[r].ans \in {204, 500} \/ \E v \in seen[r] : Explains(v, req[r])

InDoubt(r) ==
    LET q == req[r] IN
    /\ q.ans = 200 => q.stored # None
    /\ q.ans \in {204, 400, 403, 404, 413} => q.stored = None

Kept(r) ==
    LET q == req[r] IN
    q.stored # None =>
       \/ event[q.stored].st = "gone"
       \/ /\ q.stored \in EventsOf(q.inbox)
          /\ event[q.stored].valid = q.valid

Handled(r) == Phase(r) /\ Explained(r) /\ InDoubt(r) /\ Kept(r)

Messages ==
    /\ announcing \cup published \subseteq {Message("create", e) : e \in EventId}
    /\ down \in BOOLEAN

CaptureIInv ==
    /\ StoreInv
    /\ req \in [Request -> RequestRow]
    /\ Messages
    /\ AnnouncedIsStored
    /\ \A r \in Request : Handled(r)

-----------------------------------------------------------------------------
(* Every step is a statement of Store, or leaves the tables alone.         *)
LEMMA HandlersKeepTables ==
    ASSUME CaptureIInv, NEW r \in Request, Arrive(r) \/ Handle(r)
    PROVE  [StoreNext]_storeVars
<1>1. ASSUME UNCHANGED storeVars PROVE [StoreNext]_storeVars
  BY <1>1
<1>2. ASSUME req[r].pc = "store", NEW e \in EventId,
             CreateEvent(e, req[r].inbox, req[r].at, req[r].valid)
      PROVE  StoreNext
  <2>1. /\ req[r] \in RequestRow /\ req[r].inbox \in InboxId
        /\ req[r].at <= clock /\ clock \in Nat
    BY <1>2 DEF CaptureIInv, Handled, Phase, Copied, Checked, StoreInv, StoreTypeOK
  <2>2. req[r].valid \in SignatureValid /\ req[r].at \in 0 .. clock
    BY <2>1 DEF RequestRow
  <2>. QED
    BY <1>2, <2>1, <2>2 DEF StoreNext
<1>3. CASE StoreIncoming(r)
  BY <1>2, <1>3 DEF StoreIncoming
<1>4. CASE StoreLostAnswer(r)
  BY <1>2, <1>4 DEF StoreLostAnswer
<1>5. CASE Arrive(r) \/ Lookup(r) \/ ReadBody(r) \/ StoreFailed(r) \/ Respond(r)
  BY <1>1, <1>5 DEF Arrive, Lookup, ReadBody, StoreFailed, Respond
<1>. QED
  BY <1>3, <1>4, <1>5 DEF Handle

LEMMA CaptureKeepsTables ==
    ASSUME CaptureIInv, [CaptureNext]_captureVars
    PROVE  [StoreNext]_storeVars
<1>1. CASE \E r \in Request : Arrive(r) \/ Handle(r)
  BY <1>1, HandlersKeepTables
<1>2. CASE Elsewhere
  BY <1>2 DEF Elsewhere, StoreNext
<1>3. CASE (\E m \in announcing : Publish(m)) \/ Shutdown \/ UNCHANGED captureVars
  BY <1>3 DEF Publish, Shutdown, captureVars, storeVars
<1>. QED
  BY <1>1, <1>2, <1>3 DEF CaptureNext

-----------------------------------------------------------------------------
(* What a step does not do to the requests it does not handle.             *)
LEMMA OthersHandled ==
    ASSUME CaptureIInv, EventsEndure, clock <= clock', clock' \in Nat, Observe,
           NEW r \in Request, req'[r] = req[r]
    PROVE  Handled(r)'
<1>1. Handled(r) /\ req[r] \in RequestRow
  BY DEF CaptureIInv
<1>2. /\ seen[r] \subseteq seen'[r]
      /\ req[r].pc = "lookup" => Resolves(inbox', req[r].token) \subseteq seen'[r]
  BY DEF Observe
<1>3. Copied(r) => Copied(r)'
  BY <1>2 DEF Copied
<1>4. Checked(r) => Checked(r)'
  BY <1>1 DEF Checked, CaptureIInv, StoreInv, StoreTypeOK, RequestRow
<1>5. Phase(r)'
  BY <1>1, <1>2, <1>3, <1>4 DEF Handled, Phase, Rejected
<1>6. Explained(r)'
  BY <1>1, <1>2 DEF Handled, Explained
<1>7. InDoubt(r)'
  BY <1>1 DEF Handled, InDoubt
<1>8. Kept(r)'
  <2>1. req[r].stored # None => req[r].stored \in EventId
    BY <1>1 DEF RequestRow
  <2>. QED
    BY <1>1, <2>1 DEF Handled, Kept, EventsEndure, EventsOf, LiveEvents
<1>. QED
  BY <1>5, <1>6, <1>7, <1>8 DEF Handled

-----------------------------------------------------------------------------
(* What the steps of a handler write to its own request.                   *)
LEMMA ReplyWrites ==
    ASSUME req \in [Request -> RequestRow], NEW r \in Request,
           NEW ans \in Status, Reply(r, ans)
    PROVE  LET q == req[r]
               p == req'[r] IN
           /\ req' \in [Request -> RequestRow]
           /\ \A s \in Request \ {r} : req'[s] = req[s]
           /\ p.pc = "done" /\ p.ans = ans /\ p.ans # None
           /\ p.kind = q.kind /\ p.token = q.token /\ p.sig = q.sig
           /\ p.inbox = q.inbox /\ p.cfg = q.cfg /\ p.at = q.at
           /\ p.valid = q.valid /\ p.stored = q.stored
  BY CaptureAssumption DEF Reply, RequestRow, Pc, Answer

LEMMA FinishWrites ==
    ASSUME req \in [Request -> RequestRow], NEW r \in Request,
           NEW e \in EventId \cup {None}, NEW ans \in Answer, Finish(r, e, ans)
    PROVE  LET q == req[r]
               p == req'[r] IN
           /\ req' \in [Request -> RequestRow]
           /\ \A s \in Request \ {r} : req'[s] = req[s]
           /\ p.pc = (IF ans = None THEN "respond" ELSE "done")
           /\ p.ans = ans /\ p.stored = e
           /\ p.kind = q.kind /\ p.token = q.token /\ p.sig = q.sig
           /\ p.inbox = q.inbox /\ p.cfg = q.cfg /\ p.at = q.at
           /\ p.valid = q.valid
<1>. DEFINE pc == IF ans = None THEN "respond" ELSE "done"
            row == [req[r] EXCEPT !.stored = e, !.ans = ans, !.pc = pc]
<1>1. pc \in Pc
  BY DEF Pc
<1>2. req' = [req EXCEPT ![r] = row]
  BY DEF Finish
<1>. HIDE DEF pc
<1>3. /\ row \in RequestRow /\ row.pc = pc /\ row.ans = ans /\ row.stored = e
      /\ row.kind = req[r].kind /\ row.token = req[r].token
      /\ row.sig = req[r].sig /\ row.inbox = req[r].inbox
      /\ row.cfg = req[r].cfg /\ row.at = req[r].at /\ row.valid = req[r].valid
  BY <1>1 DEF RequestRow
<1>. HIDE DEF row
<1>. QED
  BY <1>2, <1>3 DEF pc

(* A request that is decided: its answer, explained by what it saw.        *)
LEMMA DecidedHandled ==
    ASSUME NEW r \in Request, Observe, EventsEndure,
           req'[r].pc = "done", req'[r].ans # None,
           \/ req'[r].ans \in {204, 500}
           \/ \E v \in seen[r] : Explains(v, req'[r]),
           InDoubt(r)', Kept(r)'
    PROVE  Handled(r)'
<1>1. seen'[r] = seen[r]
  BY DEF Observe
<1>. QED
  BY <1>1 DEF Handled, Phase, Explained

-----------------------------------------------------------------------------
(* A step from a state that satisfies the invariant, as far as the tables  *)
(* and the history are concerned.                                          *)
Stepping == /\ CaptureIInv /\ Observe
            /\ StoreTypeOK' /\ EventsEndure /\ clock <= clock'

(* What is to be shown of the step of one handler.                         *)
Advanced(r) == /\ req' \in [Request -> RequestRow]
               /\ \A s \in Request \ {r} : req'[s] = req[s]
               /\ Handled(r)'

LEMMA HandlerBegins ==
    ASSUME Stepping, NEW r \in Request
    PROVE  /\ req \in [Request -> RequestRow] /\ req[r] \in RequestRow
           /\ Handled(r) /\ StoreTypeOK /\ clock \in Nat /\ clock' \in Nat
           /\ seen[r] \subseteq seen'[r]
  BY DEF Stepping, CaptureIInv, StoreInv, StoreTypeOK, Observe

LEMMA ArriveHandled ==
    ASSUME Stepping, NEW r \in Request, Arrive(r)
    PROVE  Advanced(r)
<1>1. PICK k \in Kind, t \in Token, s \in Secret \cup {None} :
         req' = [req EXCEPT ![r] = [Idle EXCEPT !.pc = "lookup", !.kind = k,
                                                !.token = t, !.sig = s]]
  BY DEF Arrive
<1>. DEFINE row == [Idle EXCEPT !.pc = "lookup", !.kind = k, !.token = t, !.sig = s]
<1>2. /\ row \in RequestRow /\ row.pc = "lookup" /\ row.kind = k
      /\ row.token = t /\ row.ans = None /\ row.stored = None
  BY DEF Idle, RequestRow, Pc, Answer, SignatureValid
<1>3. req' = [req EXCEPT ![r] = row]
  BY <1>1
<1>. HIDE DEF row
<1>4. /\ req' \in [Request -> RequestRow] /\ req'[r] = row
      /\ \A q \in Request \ {r} : req'[q] = req[q]
  BY <1>2, <1>3, HandlerBegins
<1>5. Resolves(inbox', t) \subseteq seen'[r]
  BY <1>2, <1>4 DEF Stepping, Observe
<1>6. Handled(r)'
  BY <1>2, <1>4, <1>5, CaptureAssumption
     DEF Handled, Phase, Explained, InDoubt, Kept, Status
<1>. QED
  BY <1>4, <1>6 DEF Advanced

(* Everything that is answered before the insert stored nothing.           *)
LEMMA RefusedHandled ==
    ASSUME Stepping, NEW r \in Request, NEW ans \in Status \ {200},
           req[r].stored = None, Reply(r, ans),
           ans \in {204, 500} \/ \E v \in seen[r] : Explains(v, req'[r])
    PROVE  Advanced(r)
<1>1. /\ req' \in [Request -> RequestRow]
      /\ \A s \in Request \ {r} : req'[s] = req[s]
      /\ req'[r].pc = "done" /\ req'[r].ans = ans /\ ans # None
      /\ req'[r].stored = None
  BY HandlerBegins, ReplyWrites
<1>2. InDoubt(r)' /\ Kept(r)'
  BY <1>1 DEF InDoubt, Kept
<1>3. Handled(r)'
  BY <1>1, <1>2, DecidedHandled DEF Stepping
<1>. QED
  BY <1>1, <1>3 DEF Advanced

(* Answers that the settings and the kind of the request explain.          *)
LEMMA ExplainedEarly ==
    ASSUME NEW v, NEW p, v # Nothing, v.cfg \in Settings,
           \/ p.ans = 403 /\ ~v.cfg.enabled
           \/ p.ans = 413 /\ v.cfg.enabled /\ p.kind \in {"declared", "over"}
           \/ p.ans = 400 /\ v.cfg.enabled /\ p.kind = "broken"
    PROVE  Explains(v, p)
<1>1. v.cfg.enabled \in BOOLEAN /\ v.cfg.require \in BOOLEAN
  BY DEF Settings
<1>2. CASE p.ans = 403 /\ ~v.cfg.enabled
  BY <1>1, <1>2 DEF Explains
<1>3. CASE p.ans = 413 /\ v.cfg.enabled /\ p.kind \in {"declared", "over"}
  BY <1>1, <1>3 DEF Explains
<1>4. CASE p.ans = 400 /\ v.cfg.enabled /\ p.kind = "broken"
  BY <1>1, <1>4 DEF Explains
<1>. QED
  BY <1>2, <1>3, <1>4

LEMMA ExplainedLate ==
    ASSUME NEW v, NEW p, v # Nothing, v.cfg \in Settings, v.cfg.enabled,
           p.kind = "fits", v.inbox = p.inbox, p.valid = Verified(v.cfg, p.sig),
           \/ p.ans = 401 /\ v.cfg.require /\ p.valid # TRUE
           \/ p.ans = 200 /\ ~(v.cfg.require /\ p.valid # TRUE)
    PROVE  Explains(v, p)
<1>. DEFINE unsigned == v.cfg.require /\ p.valid # TRUE
<1>1. unsigned \in BOOLEAN /\ v.cfg.enabled \in BOOLEAN
  BY DEF Settings
<1>2. Explains(v, p) <=>
        LET open == v # Nothing /\ v.cfg.enabled IN
        /\ p.ans = 404 => v = Nothing
        /\ p.ans = 403 => v # Nothing /\ ~v.cfg.enabled
        /\ p.ans = 413 => open /\ p.kind \in {"declared", "over"}
        /\ p.ans = 400 => open /\ p.kind = "broken"
        /\ p.ans = 401 => open /\ p.kind = "fits" /\ unsigned
        /\ p.ans = 200 => /\ open /\ p.kind = "fits" /\ ~unsigned
                         /\ v.inbox = p.inbox
                         /\ p.valid = Verified(v.cfg, p.sig)
  BY Zenon DEF Explains
<1>3. (p.ans = 401 /\ unsigned) \/ (p.ans = 200 /\ ~unsigned)
  OBVIOUS
<1>. HIDE DEF unsigned
<1>. QED
  BY <1>1, <1>2, <1>3

LEMMA LookupHandled ==
    ASSUME Stepping, NEW r \in Request, Lookup(r)
    PROVE  Advanced(r)
<1>. DEFINE q == req[r]
<1>1. /\ q \in RequestRow /\ q.pc = "lookup" /\ q.kind \in Kind
      /\ q.stored = None /\ Resolves(inbox, q.token) \subseteq seen[r]
  BY HandlerBegins DEF Lookup, Handled, Phase
<1>2. ASSUME NEW ans \in {204, 500}, Reply(r, ans)
      PROVE  Advanced(r)
  BY <1>1, <1>2, RefusedHandled DEF Status
<1>3. CASE View(inbox, q.token) = {} /\ Reply(r, 404)
  <2>1. Nothing \in seen[r]
    BY <1>1, <1>3 DEF Resolves
  <2>2. req'[r].ans = 404
    BY <1>3, HandlerBegins, ReplyWrites DEF Status
  <2>3. Explains(Nothing, req'[r])
    BY <2>2 DEF Explains
  <2>. QED
    BY <1>1, <1>3, <2>1, <2>3, RefusedHandled DEF Status
<1>4. ASSUME q.kind # "preflight", NEW v \in View(inbox, q.token),
             req' = [req EXCEPT ![r].inbox = v.inbox, ![r].cfg = v.cfg,
                        ![r].ans = Refusal(q.kind, v.cfg),
                        ![r].pc = IF Refusal(q.kind, v.cfg) = None
                                  THEN "read" ELSE "done"]
      PROVE  Advanced(r)
  <2>1. /\ v.inbox \in InboxId /\ v.cfg \in Settings /\ v # Nothing
        /\ v = [inbox |-> v.inbox, cfg |-> v.cfg]
    BY HandlerBegins, LiveRows, StoreAssumption
       DEF View, LiveInboxes, InboxRow, Nothing
  <2>2. v \in seen[r] /\ v \in seen'[r]
    BY <1>1, HandlerBegins DEF Resolves
  <2>. DEFINE ans == Refusal(q.kind, v.cfg)
              pc == IF ans = None THEN "read" ELSE "done"
              row == [q EXCEPT !.inbox = v.inbox, !.cfg = v.cfg,
                               !.ans = ans, !.pc = pc]
  <2>3. /\ ans \in {None, 403, 413} /\ None \notin {200, 204, 400, 403, 404, 413}
        /\ ans = 403 => ~v.cfg.enabled
        /\ ans = 413 => v.cfg.enabled /\ q.kind = "declared"
        /\ ans = None => v.cfg.enabled /\ q.kind # "declared"
    BY CaptureAssumption DEF Refusal, Status
  <2>4. req' = [req EXCEPT ![r] = row]
    BY <1>4
  <2>5. pc \in Pc /\ ans \in Answer
    BY <2>3 DEF Pc, Answer, Status
  <2>. HIDE DEF ans, pc
  <2>6. /\ row \in RequestRow /\ row.inbox = v.inbox /\ row.cfg = v.cfg
        /\ row.ans = ans /\ row.pc = pc /\ row.kind = q.kind /\ row.stored = None
    BY <1>1, <2>1, <2>5 DEF RequestRow
  <2>. HIDE DEF row
  <2>7. /\ req' \in [Request -> RequestRow] /\ req'[r] = row
        /\ \A s \in Request \ {r} : req'[s] = req[s]
    BY <2>4, <2>6, HandlerBegins
  <2>8. InDoubt(r)' /\ Kept(r)'
    BY <2>3, <2>6, <2>7 DEF InDoubt, Kept
  <2>9. CASE ans = None
    <3>1. Copied(r)'
      BY <1>1, <1>4, <2>1, <2>2, <2>3, <2>6, <2>7, <2>9 DEF Copied, Kind
    <3>. QED
      BY <2>6, <2>7, <2>8, <2>9, <3>1 DEF Advanced, Handled, Phase, Explained, pc
  <2>10. CASE ans # None
    <3>0. req'[r].ans = ans /\ req'[r].kind = q.kind /\ ans \in {403, 413}
      BY <2>3, <2>6, <2>7, <2>10
    <3>. HIDE DEF q
    <3>1. Explains(v, req'[r])
      BY <2>1, <2>3, <3>0, ExplainedEarly
    <3>2. Handled(r)'
      BY <2>2, <2>6, <2>7, <2>8, <2>10, <3>1, DecidedHandled DEF Stepping, pc
    <3>. QED
      BY <2>7, <3>2 DEF Advanced
  <2>. QED
    BY <2>9, <2>10
<1>. QED
  BY <1>2, <1>3, <1>4 DEF Lookup

(* The copy a handler works with is something its token led to.            *)
LEMMA CopySeen ==
    ASSUME Stepping, NEW r \in Request, Copied(r)
    PROVE  LET v == [inbox |-> req[r].inbox, cfg |-> req[r].cfg] IN
           v \in seen[r] /\ v \in seen'[r] /\ v # Nothing
  BY HandlerBegins, StoreAssumption DEF Copied, Nothing

LEMMA ReadBodyHandled ==
    ASSUME Stepping, NEW r \in Request, ReadBody(r)
    PROVE  Advanced(r)
<1>. DEFINE q == req[r]
            v == [inbox |-> q.inbox, cfg |-> q.cfg]
<1>1. /\ q \in RequestRow /\ q.pc = "read" /\ Copied(r)
      /\ q.stored = None /\ q.ans = None
  BY HandlerBegins DEF ReadBody, Handled, Phase
<1>2. v \in seen[r] /\ v # Nothing /\ v.cfg = q.cfg
  BY <1>1, CopySeen
<1>3. /\ q.inbox \in InboxId /\ q.cfg \in Settings /\ q.cfg.enabled
      /\ q.kind \in {"over", "broken", "fits"}
  BY <1>1 DEF Copied
<1>4. ASSUME NEW ans \in {400, 413}, Reply(r, ans),
             \/ ans = 413 /\ q.kind = "over"
             \/ ans = 400 /\ q.kind = "broken"
      PROVE  Advanced(r)
  <2>1. req'[r].ans = ans /\ req'[r].kind = q.kind
    BY <1>4, HandlerBegins, ReplyWrites DEF Status
  <2>. HIDE DEF v
  <2>2. Explains(v, req'[r])
    BY <1>2, <1>3, <1>4, <2>1, ExplainedEarly
  <2>. QED
    BY <1>1, <1>2, <1>4, <2>2, RefusedHandled DEF Status
<1>5. ASSUME q.kind \notin {"over", "broken"},
             req' = [req EXCEPT ![r].pc = "store", ![r].at = clock,
                                ![r].valid = Verified(q.cfg, q.sig)]
      PROVE  Advanced(r)
  <2>. DEFINE row == [q EXCEPT !.pc = "store", !.at = clock,
                               !.valid = Verified(q.cfg, q.sig)]
  <2>1. Verified(q.cfg, q.sig) \in SignatureValid
    BY DEF Verified, SignatureValid
  <2>2. /\ row \in RequestRow /\ row.pc = "store" /\ row.at = clock
        /\ row.valid = Verified(q.cfg, q.sig) /\ row.ans = None
        /\ row.stored = None /\ row.inbox = q.inbox /\ row.cfg = q.cfg
        /\ row.kind = q.kind /\ row.sig = q.sig
    BY <1>1, <2>1, HandlerBegins DEF RequestRow, Pc
  <2>3. req' = [req EXCEPT ![r] = row]
    BY <1>5
  <2>. HIDE DEF row
  <2>4. /\ req' \in [Request -> RequestRow] /\ req'[r] = row
        /\ \A s \in Request \ {r} : req'[s] = req[s]
    BY <2>2, <2>3, HandlerBegins
  <2>5. Copied(r)' /\ Checked(r)'
    BY <1>2, <1>3, <1>5, <2>2, <2>4, HandlerBegins DEF Copied, Checked, Stepping
  <2>. QED
    BY <2>2, <2>4, <2>5, CaptureAssumption
       DEF Advanced, Handled, Phase, Explained, InDoubt, Kept, Status
<1>. QED
  BY <1>4, <1>5 DEF ReadBody

LEMMA FinishHandled ==
    ASSUME Stepping, NEW r \in Request, NEW e \in EventId \cup {None},
           req[r].pc = "store",
           \/ /\ Finish(r, e, IF Rejected(r) THEN 401 ELSE None) /\ e # None
           \/ /\ Finish(r, e, IF Rejected(r) THEN 401 ELSE 500),
           e # None => CreateEvent(e, req[r].inbox, req[r].at, req[r].valid)
    PROVE  Advanced(r)
<1>. DEFINE q == req[r]
            v == [inbox |-> q.inbox, cfg |-> q.cfg]
<1>1. q \in RequestRow /\ Copied(r) /\ Checked(r)
  BY HandlerBegins DEF Handled, Phase
<1>2. v \in seen[r] /\ v \in seen'[r] /\ v # Nothing /\ v.cfg = q.cfg
  BY <1>1, CopySeen
<1>3. PICK ans \in {401, 500, None} :
        /\ Finish(r, e, ans)
        /\ ans = 401 <=> Rejected(r)
        /\ ans = None => e # None
  BY CaptureAssumption DEF Status
<1>4. ans \in Answer /\ None \notin Status
  BY CaptureAssumption DEF Answer, Status
<1>5. /\ req' \in [Request -> RequestRow]
      /\ \A s \in Request \ {r} : req'[s] = req[s]
      /\ req'[r].pc = (IF ans = None THEN "respond" ELSE "done")
      /\ req'[r].ans = ans /\ req'[r].stored = e
      /\ req'[r].kind = q.kind /\ req'[r].sig = q.sig
      /\ req'[r].inbox = q.inbox /\ req'[r].cfg = q.cfg
      /\ req'[r].at = q.at /\ req'[r].valid = q.valid
  BY <1>3, <1>4, HandlerBegins, FinishWrites
<1>6. InDoubt(r)'
  BY <1>3, <1>4, <1>5 DEF InDoubt, Status
<1>7. Kept(r)'
  <2>1. e # None => /\ e \in EventId /\ event'[e].st = "live"
                    /\ event'[e].inbox = q.inbox /\ event'[e].valid = q.valid
    BY HandlerBegins DEF CreateEvent, StoreTypeOK
  <2>. QED
    BY <1>5, <2>1 DEF Kept, EventsOf, LiveEvents
<1>8. CASE ans = None
  <2>0. q.at \in Nat
    BY <1>1 DEF RequestRow
  <2>1. Copied(r)' /\ Checked(r)'
    BY <1>1, <1>2, <1>5, <2>0, HandlerBegins DEF Copied, Checked, Stepping
  <2>2. ~Rejected(r)
    BY <1>3, <1>4, <1>8 DEF Status
  <2>3. ~Rejected(r)'
    BY <1>5, <2>2 DEF Rejected
  <2>4. Handled(r)'
    BY <1>3, <1>5, <1>6, <1>7, <1>8, <2>1, <2>3 DEF Handled, Phase, Explained
  <2>. QED
    BY <1>5, <2>4 DEF Advanced
<1>9. CASE ans # None
  <2>1. ans = 401 => Explains(v, req'[r])
    <3>1. SUFFICES ASSUME ans = 401 PROVE Explains(v, req'[r])
      OBVIOUS
    <3>2. /\ req'[r].ans = 401 /\ req'[r].kind = "fits"
          /\ v.cfg \in Settings /\ v.cfg.enabled /\ v.inbox = req'[r].inbox
          /\ req'[r].valid = Verified(v.cfg, req'[r].sig)
      BY <1>1, <1>2, <1>3, <1>5, <3>1 DEF Copied, Checked
    <3>3. v.cfg.require /\ req'[r].valid # TRUE
      BY <1>2, <1>3, <1>5, <3>1 DEF Rejected
    <3>4. v # Nothing
      BY <1>2
    <3>. DEFINE p == req'[r]
    <3>5. \/ p.ans = 401 /\ v.cfg.require /\ p.valid # TRUE
          \/ p.ans = 200 /\ ~(v.cfg.require /\ p.valid # TRUE)
      BY <3>2, <3>3
    <3>6. /\ v.cfg \in Settings /\ v.cfg.enabled /\ v.inbox = p.inbox
          /\ p.kind = "fits" /\ p.valid = Verified(v.cfg, p.sig)
      BY <3>2
    <3>. HIDE DEF q, v, p
    <3>7. Explains(v, p)
      BY <3>4, <3>5, <3>6, ExplainedLate, Zenon
    <3>. QED
      BY <3>7 DEF p
  <2>2. Handled(r)'
    BY <1>2, <1>3, <1>5, <1>6, <1>7, <1>9, <2>1, DecidedHandled DEF Stepping
  <2>. QED
    BY <1>5, <2>2 DEF Advanced
<1>. QED
  BY <1>8, <1>9

LEMMA RespondHandled ==
    ASSUME Stepping, NEW r \in Request, Respond(r)
    PROVE  Advanced(r)
<1>. DEFINE q == req[r]
            v == [inbox |-> q.inbox, cfg |-> q.cfg]
<1>1. /\ q \in RequestRow /\ Copied(r) /\ Checked(r) /\ ~Rejected(r)
      /\ q.stored # None /\ Kept(r)
  BY HandlerBegins DEF Respond, Handled, Phase
<1>2. v \in seen[r] /\ v # Nothing /\ v.cfg = q.cfg /\ v.inbox = q.inbox
  BY <1>1, CopySeen
<1>3. /\ req' \in [Request -> RequestRow]
      /\ \A s \in Request \ {r} : req'[s] = req[s]
      /\ req'[r].pc = "done" /\ req'[r].ans = 200 /\ 200 # None
      /\ req'[r].kind = q.kind /\ req'[r].sig = q.sig
      /\ req'[r].inbox = q.inbox /\ req'[r].cfg = q.cfg
      /\ req'[r].valid = q.valid /\ req'[r].stored = q.stored
  BY HandlerBegins, ReplyWrites DEF Respond, Status
<1>4. InDoubt(r)' /\ event' = event
  BY <1>1, <1>3 DEF InDoubt, Respond, storeVars
<1>5. Kept(r)'
  BY <1>1, <1>3, <1>4 DEF Kept, EventsOf, LiveEvents
<1>6. Explains(v, req'[r])
  <2>1. /\ v.cfg \in Settings /\ v.cfg.enabled /\ v.inbox = req'[r].inbox
        /\ req'[r].kind = "fits" /\ req'[r].valid = Verified(v.cfg, req'[r].sig)
    BY <1>1, <1>2, <1>3 DEF Copied, Checked
  <2>2. ~(v.cfg.require /\ req'[r].valid # TRUE)
    BY <1>1, <1>2, <1>3 DEF Rejected
  <2>. HIDE DEF q, v
  <2>. QED
    BY <1>2, <1>3, <2>1, <2>2, ExplainedLate
<1>7. Handled(r)'
  BY <1>2, <1>3, <1>4, <1>5, <1>6, DecidedHandled DEF Stepping
<1>. QED
  BY <1>3, <1>7 DEF Advanced

LEMMA HandleHandled ==
    ASSUME Stepping, NEW r \in Request, Arrive(r) \/ Handle(r)
    PROVE  Advanced(r)
<1>1. CASE Arrive(r) \/ Lookup(r) \/ ReadBody(r) \/ Respond(r)
  BY <1>1, ArriveHandled, LookupHandled, ReadBodyHandled, RespondHandled
<1>2. CASE StoreIncoming(r) \/ StoreLostAnswer(r)
  <2>1. PICK e \in EventId :
          /\ CreateEvent(e, req[r].inbox, req[r].at, req[r].valid)
          /\ \/ Finish(r, e, IF Rejected(r) THEN 401 ELSE None)
             \/ Finish(r, e, IF Rejected(r) THEN 401 ELSE 500)
    BY <1>2 DEF StoreIncoming, StoreLostAnswer
  <2>2. e # None /\ req[r].pc = "store"
    BY <1>2, StoreAssumption DEF StoreIncoming, StoreLostAnswer
  <2>. QED
    BY <2>1, <2>2, FinishHandled
<1>3. CASE StoreFailed(r)
  BY <1>3, FinishHandled DEF StoreFailed
<1>. QED
  BY <1>1, <1>2, <1>3 DEF Handle

(* Messages are about stored events, which are never forgotten.            *)
LEMMA MessagesKept ==
    ASSUME Stepping,
           \/ UNCHANGED <<announcing, published, down>>
           \/ \E e \in EventId : /\ announcing' = announcing \cup {Message("create", e)}
                                 /\ event'[e].st = "live"
                                 /\ UNCHANGED <<published, down>>
           \/ (\E m \in announcing : Publish(m)) \/ Shutdown
    PROVE  Messages' /\ AnnouncedIsStored'
<1>. DEFINE old == announcing \cup published
            Msgs == {Message("create", e) : e \in EventId}
<1>1. /\ old \subseteq Msgs /\ down \in BOOLEAN
      /\ \A m \in old : event[m.event].st # "fresh"
  BY DEF Stepping, CaptureIInv, Messages, AnnouncedIsStored
<1>2. \A e \in EventId : Message("create", e).event = e
  BY DEF Message
<1>3. \A m \in old : event'[m.event].st # "fresh"
  BY <1>1, <1>2 DEF Stepping, EventsEndure
<1>4. down' \in BOOLEAN
  BY <1>1 DEF Publish, Shutdown
<1>5. \A m \in announcing' \cup published' :
         m \in old \/ \E e \in EventId : m = Message("create", e) /\ event'[e].st = "live"
  BY DEF Publish, Shutdown
<1>6. \A m \in announcing' \cup published' : m \in Msgs /\ event'[m.event].st # "fresh"
  BY <1>1, <1>2, <1>3, <1>5
<1>. QED
  BY <1>4, <1>6 DEF Messages, AnnouncedIsStored

-----------------------------------------------------------------------------
LEMMA InitCaptureIInv == CaptureInit => CaptureIInv
<1>. SUFFICES ASSUME CaptureInit PROVE CaptureIInv
  OBVIOUS
<1>1. StoreInv
  BY InitStoreInv DEF CaptureInit
<1>2. Idle \in RequestRow /\ Idle.pc = "idle" /\ Idle.ans = None /\ Idle.stored = None
  BY DEF Idle, RequestRow, Pc, Answer, SignatureValid
<1>3. \A r \in Request : req[r] = Idle
  BY DEF CaptureInit
<1>4. ASSUME NEW r \in Request PROVE Handled(r)
  BY <1>2, <1>3, CaptureAssumption
     DEF Handled, Phase, Explained, InDoubt, Kept, Status
<1>. QED
  BY <1>1, <1>2, <1>4
     DEF CaptureInit, CaptureIInv, Messages, AnnouncedIsStored

LEMMA CaptureNextKeepsIInv ==
    CaptureIInv /\ [CaptureNext]_captureVars => CaptureIInv'
<1>. SUFFICES ASSUME CaptureIInv, [CaptureNext]_captureVars PROVE CaptureIInv'
  OBVIOUS
<1>1. StoreInv' /\ EventsEndure /\ clock <= clock'
  BY CaptureKeepsTables, StoreNextKeepsInv, StoreStepsEndure
     DEF CaptureIInv, StoreInv
<1>2. ASSUME CaptureNext PROVE Stepping
  BY <1>1, <1>2 DEF Stepping, CaptureNext, StoreInv
<1>3. ASSUME CaptureNext, req' = req
      PROVE  req' \in [Request -> RequestRow] /\ \A r \in Request : Handled(r)'
  <2>1. /\ Observe /\ clock' \in Nat
        /\ \A r \in Request : req'[r] = req[r]
    BY <1>1, <1>2, <1>3 DEF Stepping, StoreInv, StoreTypeOK
  <2>2. \A r \in Request : Handled(r)'
    BY <1>1, <2>1, OthersHandled
  <2>. QED
    BY <1>3, <2>2 DEF CaptureIInv
<1>4. ASSUME CaptureNext, NEW r \in Request, Arrive(r) \/ Handle(r)
      PROVE  CaptureIInv'
  <2>1. Advanced(r) /\ clock' \in Nat
    BY <1>2, <1>4, HandleHandled, HandlerBegins
  <2>2. \A s \in Request : Handled(s)'
    BY <1>1, <1>2, <2>1, <1>4, OthersHandled DEF Advanced, Stepping
  <2>3. \/ UNCHANGED <<announcing, published, down>>
        \/ \E e \in EventId : /\ announcing' = announcing \cup {Message("create", e)}
                              /\ event'[e].st = "live"
                              /\ UNCHANGED <<published, down>>
    <3>1. CASE StoreIncoming(r)
      BY <3>1 DEF StoreIncoming, CreateEvent, CaptureIInv, StoreInv, StoreTypeOK
    <3>. QED
      BY <1>4, <3>1 DEF Handle, Arrive, Lookup, ReadBody, StoreLostAnswer,
                        StoreFailed, Respond, Quiet
  <2>. QED
    BY <1>1, <1>2, <1>4, <2>1, <2>2, <2>3, MessagesKept DEF CaptureIInv, Advanced
<1>5. ASSUME CaptureNext, (\E m \in announcing : Publish(m)) \/ Shutdown \/ Elsewhere
      PROVE  CaptureIInv'
  <2>1. /\ req' = req
        /\ \/ (\E m \in announcing : Publish(m)) \/ Shutdown
           \/ UNCHANGED <<announcing, published, down>>
    BY <1>5 DEF Publish, Shutdown, Elsewhere, Quiet
  <2>. QED
    BY <1>1, <1>2, <1>3, <1>5, <2>1, MessagesKept DEF CaptureIInv
<1>6. CASE UNCHANGED captureVars
  <2>1. /\ inbox' = inbox /\ event' = event /\ clock' = clock /\ req' = req
        /\ announcing' = announcing /\ published' = published
        /\ down' = down /\ seen' = seen
    BY <1>6 DEF captureVars
  <2>2. ASSUME NEW r \in Request PROVE Handled(r)'
    <3>1. Phase(r)'
      BY <2>1 DEF CaptureIInv, Handled, Phase, Copied, Checked, Rejected
    <3>2. Explained(r)' /\ InDoubt(r)' /\ Kept(r)'
      BY <2>1 DEF CaptureIInv, Handled, Explained, InDoubt, Kept, EventsOf, LiveEvents
    <3>. QED
      BY <3>1, <3>2 DEF Handled
  <2>. QED
    BY <1>1, <2>1, <2>2 DEF CaptureIInv, Messages, AnnouncedIsStored
<1>. QED
  BY <1>4, <1>5, <1>6 DEF CaptureNext

LEMMA CaptureInvariance == CaptureSpec => []CaptureIInv
  BY InitCaptureIInv, CaptureNextKeepsIInv, PTL DEF CaptureSpec

-----------------------------------------------------------------------------
(* The state of the handlers and of the announcing goroutines, and the     *)
(* tables below them, keep their types.                                    *)
THEOREM CaptureTypesCorrect == CaptureSpec => []CaptureTypeOK
<1>1. CaptureIInv => CaptureTypeOK
  BY DEF CaptureIInv, StoreInv, Messages, CaptureTypeOK
<1>. QED
  BY <1>1, CaptureInvariance, PTL

(* Every answer is one the handler would have given had it run at a single *)
(* moment since the request arrived, however many patches, rotations and   *)
(* deletions the inbox sees while handleCapture works with its copy.       *)
THEOREM AnswersExplained == CaptureSpec => []AnswerExplained
<1>1. CaptureIInv => AnswerExplained
  BY DEF CaptureIInv, Handled, Explained, AnswerExplained
<1>. QED
  BY <1>1, CaptureInvariance, PTL

(* An accepted request is stored for the inbox it was sent to, a refused   *)
(* one is not, for any number of concurrent requests and deletions.        *)
THEOREM AcceptedIsStored == CaptureSpec => []StoredIffAccepted
<1>1. CaptureIInv => StoredIffAccepted
  BY DEF CaptureIInv, Handled, InDoubt, Kept, StoredIffAccepted
<1>. QED
  BY <1>1, CaptureInvariance, PTL

(* The goroutines of storeIncoming only ever announce stored events.       *)
THEOREM StoredBeforeAnnounced == CaptureSpec => []AnnouncedIsStored
<1>1. CaptureIInv => AnnouncedIsStored
  BY DEF CaptureIInv
<1>. QED
  BY <1>1, CaptureInvariance, PTL

(* The capture endpoint uses the tables as Store allows: every step is one *)
(* of its statements or leaves the tables alone.                           *)
THEOREM CaptureImplementsStore == CaptureSpec => StoreSpec
<1>1. CaptureInit => StoreInit
  BY DEF CaptureInit
<1>2. CaptureIInv /\ [CaptureNext]_captureVars => [StoreNext]_storeVars
  BY CaptureKeepsTables
<1>. QED
  BY <1>1, <1>2, CaptureInvariance, PTL DEF CaptureSpec, StoreSpec
=============================================================================
