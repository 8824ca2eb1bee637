-------------------------- MODULE InboxAPIProofs --------------------------
(***************************************************************************)
(* Proofs about InboxAPI, for any number of calls, tenants, inboxes and    *)
(* tries.                                                                  *)
(*                                                                         *)
(* The invariant says of each call what it may rely on although its owner  *)
(* check is a statement of the past (Authorized), what a finished patch    *)
(* has left in the row (Lasting) and who has the token of an inbox         *)
(* (Resolving).  A step is described by what it may write (Writes), which  *)
(* is all that the other calls have to know of it.                         *)
(***************************************************************************)
EXTENDS InboxAPI, StoreProofs

-----------------------------------------------------------------------------
(* What a call's fields are at each program point.                         *)
Shape(c) ==
    LET q == call[c] IN
    /\ q.pc # "done" => q.ans = None
    /\ q.pc = "idle" => q.op = None
    /\ q.pc # "idle" => q.op \in Op /\ q.owner \in Owner
    /\ q.pc = "insert" => q.op = "create"
    /\ q.op = "create" => q.pc \in {"insert", "done"} /\ q.inbox \in InboxId
    /\ q.pc \in {"insert", "act"} => q.tries < MaxTries
    /\ q.pc \in {"check", "act", "reread"} => q.inbox \in InboxId
    /\ q.pc = "event" => q.op = "deleteEvent"
    /\ q.pc = "reread" => q.op = "patch"
    /\ q.op = "patch" => q.patch \in Patches /\ q.inbox \in InboxId
    /\ q.op \in {"delete", "rotate", "clear"} => q.inbox \in InboxId
    /\ q.op = "deleteEvent" => q.event \in EventId
    /\ q.pc \in {"event", "check"} => q.tries = 0

(* The owner check holds until the row goes.                               *)
Authorized(c) ==
    LET q == call[c] IN
    /\ q.pc \in {"act", "reread"} =>
          \/ inbox[q.inbox].st = "gone"
          \/ inbox[q.inbox].st = "live" /\ inbox[q.inbox].owner = q.owner
    /\ q.pc \in {"check", "act"} /\ q.op = "deleteEvent" =>
          \/ event[q.event].st = "gone"
          \/ event[q.event].st = "live" /\ event[q.event].inbox = q.inbox

(* What a patch wrote stays, unless another patch names the column.        *)
Lasting(c) ==
    LET q == call[c] IN
    Applied(c) =>
       /\ inbox[q.inbox].st # "fresh"
       /\ inbox[q.inbox].st = "live" =>
            \A col \in q.patch.cols :
               \/ inbox[q.inbox].cfg[col] = q.patch.val[col]
               \/ \E d \in Call \ {c} : /\ call[d].op = "patch"
                                        /\ call[d].inbox = q.inbox
                                        /\ col \in call[d].patch.cols

(* Somebody has the token of an inbox a token was answered for.            *)
Held(i) == \E d \in Call : /\ HandedOut(d) /\ call[d].inbox = i
                           /\ call[d].token = inbox[i].token

Resolving(c) ==
    LET i == call[c].inbox IN
    HandedOut(c) => /\ inbox[i].st # "fresh"
                    /\ (inbox[i].st = "live" /\ Held(i)) \/ Revoked(i)

APIIInv ==
    /\ StoreInv
    /\ call \in [Call -> CallRow]
    /\ \A c \in Call : Shape(c) /\ Authorized(c) /\ Lasting(c) /\ Resolving(c)

-----------------------------------------------------------------------------
(* What one step of a call may write, whichever handler it belongs to.     *)
InboxWritten(c) ==
    LET q == call[c]
        i == q.inbox IN
    /\ i \in InboxId
    /\ \A j \in InboxId \ {i} : inbox'[j] = inbox[j]
    /\ \/ /\ q.pc = "insert" /\ q.op = "create"
          /\ inbox[i].st = "fresh" /\ inbox'[i].st = "live"
       \/ /\ q.pc = "act" /\ q.op = "patch"
          /\ inbox[i].st = "live"
          /\ inbox'[i] = [inbox[i] EXCEPT !.cfg = Patched(@, q.patch)]
       \/ /\ q.pc = "act" /\ q.op = "rotate"
          /\ inbox[i].st = "live"
          /\ \E t \in Token : inbox'[i] = [inbox[i] EXCEPT !.token = t]
       \/ /\ q.pc = "act" /\ q.op = "delete"
          /\ inbox[i].st = "live" /\ inbox'[i].st = "gone"

EventRemoved(c, e) ==
    LET q == call[c] IN
    /\ q.pc = "act"
    /\ event[e].st = "live" /\ event'[e].st = "gone"
    /\ \/ q.op \in {"delete", "clear"} /\ event[e].inbox = q.inbox
       \/ q.op = "deleteEvent" /\ e = q.event

Writes(c) == /\ inbox' = inbox \/ InboxWritten(c)
             /\ \A e \in EventId : event'[e] = event[e] \/ EventRemoved(c, e)

(* The statements, as Writes and as steps of Store.                        *)
LEMMA UpdateWrites ==
    ASSUME APIIInv, NEW c \in Call, call[c].pc = "act", call[c].op = "patch",
           UpdateInbox(call[c].inbox, call[c].patch)
    PROVE  Writes(c) /\ StoreNext
<1>. DEFINE i == call[c].inbox
            p == call[c].patch
<1>1. i \in InboxId /\ p \in Patches
  BY DEF APIIInv, Shape
<1>2. /\ inbox \in [InboxId -> InboxRow \cup Missing]
      /\ inbox[i].st = "live" /\ event' = event
      /\ inbox' = [inbox EXCEPT ![i].cfg = Patched(inbox[i].cfg, p)]
  BY DEF APIIInv, StoreInv, StoreTypeOK, UpdateInbox
<1>3. Writes(c)
  BY <1>1, <1>2 DEF Writes, InboxWritten
<1>4. StoreNext
  BY <1>1 DEF StoreNext
<1>. QED
  BY <1>3, <1>4

LEMMA RotateWrites ==
    ASSUME APIIInv, NEW c \in Call, call[c].pc = "act", call[c].op = "rotate",
           NEW t \in Token, RotateToken(call[c].inbox, t)
    PROVE  /\ Writes(c) /\ StoreNext
           /\ inbox'[call[c].inbox].st = "live" /\ inbox'[call[c].inbox].token = t
<1>. DEFINE i == call[c].inbox
<1>1. i \in InboxId
  BY DEF APIIInv, Shape
<1>2. /\ inbox \in [InboxId -> InboxRow \cup Missing]
      /\ inbox[i].st = "live" /\ event' = event
      /\ inbox' = [inbox EXCEPT ![i].token = t]
  BY DEF APIIInv, StoreInv, StoreTypeOK, RotateToken
<1>3. inbox[i] \in InboxRow
  BY <1>1, <1>2, MissingRows
<1>4. inbox'[i] = [inbox[i] EXCEPT !.token = t]
  BY <1>1, <1>2
<1>5. inbox'[i].st = "live" /\ inbox'[i].token = t
  BY <1>3, <1>4 DEF InboxRow
<1>6. Writes(c)
  BY <1>1, <1>2, <1>4 DEF Writes, InboxWritten
<1>7. StoreNext
  BY <1>1 DEF StoreNext
<1>. QED
  BY <1>5, <1>6, <1>7

LEMMA InsertWrites ==
    ASSUME APIIInv, NEW c \in Call, call[c].pc = "insert",
           NEW t \in Token, NEW s \in Configs,
           CreateInbox(call[c].inbox, call[c].owner, t, s)
    PROVE  /\ Writes(c) /\ StoreNext
           /\ inbox'[call[c].inbox].st = "live" /\ inbox'[call[c].inbox].token = t
<1>. DEFINE i == call[c].inbox
            o == call[c].owner
<1>1. i \in InboxId /\ o \in Owner /\ call[c].op = "create"
  BY DEF APIIInv, Shape
<1>2. /\ inbox \in [InboxId -> InboxRow \cup Missing]
      /\ inbox[i].st = "fresh" /\ event' = event
      /\ inbox' = [inbox EXCEPT ![i] =
                     [st |-> "live", owner |-> o, token |-> t, cfg |-> s]]
  BY DEF APIIInv, StoreInv, StoreTypeOK, CreateInbox
<1>3. inbox'[i].st = "live" /\ inbox'[i].token = t
  BY <1>1, <1>2
<1>4. Writes(c)
  BY <1>1, <1>2, <1>3 DEF Writes, InboxWritten
<1>5. StoreNext
  BY <1>1 DEF StoreNext
<1>. QED
  BY <1>3, <1>4, <1>5

LEMMA RemovedEvents ==
    ASSUME StoreTypeOK, NEW E \in SUBSET LiveEvents, RemoveEvents(E)
    PROVE  \A e \in EventId :
              \/ event'[e] = event[e]
              \/ e \in E /\ event[e].st = "live" /\ event'[e].st = "gone"
  BY MissingRows DEF RemoveEvents, LiveEvents

LEMMA RemoveInboxWrites ==
    ASSUME APIIInv, NEW c \in Call, call[c].pc = "act", call[c].op = "delete",
           DeleteInbox(call[c].inbox)
    PROVE  Writes(c) /\ StoreNext
<1>. DEFINE i == call[c].inbox
<1>1. i \in InboxId
  BY DEF APIIInv, Shape
<1>2. /\ inbox \in [InboxId -> InboxRow \cup Missing] /\ StoreTypeOK
      /\ inbox[i].st = "live" /\ inbox' = [inbox EXCEPT ![i] = NoRow("gone")]
      /\ RemoveEvents(EventsOf(i))
  BY DEF APIIInv, StoreInv, StoreTypeOK, DeleteInbox
<1>3. InboxWritten(c)
  BY <1>1, <1>2, MissingRows DEF InboxWritten
<1>4. EventsOf(i) \in SUBSET LiveEvents /\ \A e \in EventsOf(i) : event[e].inbox = i
  BY DEF EventsOf
<1>5. \A e \in EventId : event'[e] = event[e] \/ EventRemoved(c, e)
  BY <1>2, <1>4, RemovedEvents DEF EventRemoved
<1>6. StoreNext
  BY <1>1 DEF StoreNext
<1>. QED
  BY <1>3, <1>5, <1>6 DEF Writes

LEMMA RemoveEventsWrites ==
    ASSUME APIIInv, NEW c \in Call, call[c].pc = "act",
           \/ call[c].op = "clear" /\ DeleteInboxEvents(call[c].inbox)
           \/ call[c].op = "deleteEvent" /\ DeleteEvent(call[c].event)
    PROVE  Writes(c) /\ StoreNext
<1>1. StoreTypeOK
  BY DEF APIIInv, StoreInv
<1>2. CASE call[c].op = "clear" /\ DeleteInboxEvents(call[c].inbox)
  <2>. DEFINE i == call[c].inbox
  <2>1. i \in InboxId /\ RemoveEvents(EventsOf(i)) /\ inbox' = inbox
    BY <1>2 DEF APIIInv, Shape, DeleteInboxEvents, DeleteEvents
  <2>2. EventsOf(i) \in SUBSET LiveEvents /\ \A e \in EventsOf(i) : event[e].inbox = i
    BY DEF EventsOf
  <2>3. \A e \in EventId : event'[e] = event[e] \/ EventRemoved(c, e)
    BY <1>1, <1>2, <2>1, <2>2, RemovedEvents DEF EventRemoved
  <2>. QED
    BY <1>2, <2>1, <2>3 DEF Writes, StoreNext
<1>3. CASE call[c].op = "deleteEvent" /\ DeleteEvent(call[c].event)
  <2>. DEFINE e == call[c].event
  <2>1. e \in EventId /\ RemoveEvents({e}) /\ inbox' = inbox /\ e \in LiveEvents
    BY <1>3 DEF APIIInv, Shape, DeleteEvent, DeleteEvents, LiveEvents
  <2>2. \A f \in EventId : event'[f] = event[f] \/ EventRemoved(c, f)
    BY <1>1, <1>3, <2>1, RemovedEvents DEF EventRemoved
  <2>. QED
    BY <1>3, <2>1, <2>2 DEF Writes, StoreNext
<1>. QED
  BY <1>2, <1>3

-----------------------------------------------------------------------------
(* How a step moves its own call, as far as the others have to know.       *)
Moves(c) ==
    /\ call' \in [Call -> CallRow]
    /\ \A d \in Call \ {c} : call'[d] = call[d]
    /\ call[c].pc # "done"
    /\ call[c].op = "patch" => /\ call'[c].op = "patch"
                               /\ call'[c].inbox = call[c].inbox
                               /\ call'[c].patch = call[c].patch
    /\ inbox' # inbox /\ call[c].op \in {"rotate", "delete"} =>
          /\ call'[c].op = call[c].op /\ call'[c].inbox = call[c].inbox
          /\ call'[c].ans \in {200, 500}
    /\ inbox' # inbox \/ event' # event => call'[c] # call[c]

Advances(c) ==
    /\ Moves(c) /\ Writes(c) /\ [StoreNext]_storeVars
    /\ Shape(c)' /\ Authorized(c)' /\ Lasting(c)' /\ Resolving(c)'

LEMMA Begins ==
    ASSUME APIIInv, NEW c \in Call
    PROVE  /\ call \in [Call -> CallRow] /\ call[c] \in CallRow
           /\ Shape(c) /\ Authorized(c) /\ Lasting(c) /\ Resolving(c)
           /\ inbox \in [InboxId -> InboxRow \cup Missing]
           /\ event \in [EventId -> EventRow \cup Missing]
  BY DEF APIIInv, StoreInv, StoreTypeOK

LEMMA Untouching ==
    ASSUME NEW c, UNCHANGED storeVars
    PROVE  Writes(c) /\ inbox' = inbox /\ event' = event /\ [StoreNext]_storeVars
  BY DEF Writes, storeVars

(* The record of a call that moves on.                                     *)
LEMMA CallWritten ==
    ASSUME APIIInv, NEW c \in Call, NEW row \in CallRow,
           call' = [call EXCEPT ![c] = row]
    PROVE  /\ call' \in [Call -> CallRow] /\ call'[c] = row
           /\ \A d \in Call \ {c} : call'[d] = call[d]
  BY DEF APIIInv

LEMMA Replied ==
    ASSUME APIIInv, NEW c \in Call, NEW ans \in Status, Reply(c, ans)
    PROVE  /\ call' \in [Call -> CallRow]
           /\ \A d \in Call \ {c} : call'[d] = call[d]
           /\ call'[c].pc = "done" /\ call'[c].ans = ans
           /\ call'[c].op = call[c].op /\ call'[c].owner = call[c].owner
           /\ call'[c].inbox = call[c].inbox /\ call'[c].event = call[c].event
           /\ call'[c].patch = call[c].patch /\ call'[c].tries = call[c].tries
<1>. DEFINE row == [call[c] EXCEPT !.pc = "done", !.ans = ans]
<1>1. call[c] \in CallRow /\ "done" \in Pc /\ ans \in Answer
  BY DEF APIIInv, Pc, Answer
<1>2. /\ row \in CallRow /\ row.pc = "done" /\ row.ans = ans
      /\ row.op = call[c].op /\ row.owner = call[c].owner
      /\ row.inbox = call[c].inbox /\ row.event = call[c].event
      /\ row.patch = call[c].patch /\ row.tries = call[c].tries
  BY <1>1 DEF CallRow
<1>3. call' = [call EXCEPT ![c] = row]
  BY DEF Reply
<1>. HIDE DEF row
<1>4. /\ call' \in [Call -> CallRow] /\ call'[c] = row
      /\ \A d \in Call \ {c} : call'[d] = call[d]
  BY <1>2, <1>3, CallWritten
<1>. QED
  BY <1>2, <1>4

(* A handler that answers without a token.                                 *)
LEMMA ReplyAdvances ==
    ASSUME APIIInv, NEW c \in Call, call[c].pc \notin {"idle", "done"},
           NEW ans \in Status, Reply(c, ans),
           Writes(c), [StoreNext]_storeVars,
           inbox' # inbox /\ call[c].op \in {"rotate", "delete"} => ans \in {200, 500},
           ans = 200 =>
              /\ call[c].op \notin {"create", "rotate"}
              /\ call[c].op = "patch" => call[c].pc = "reread" /\ inbox' = inbox
    PROVE  Advances(c)
<1>1. Moves(c)
  BY Replied DEF Moves
<1>2. Shape(c) /\ Lasting(c)
  BY Begins
<1>3. Shape(c)'
  BY <1>2, Replied DEF Shape
<1>4. Authorized(c)'
  BY Replied DEF Authorized
<1>5. Lasting(c)'
  <2>1. SUFFICES ASSUME ans = 200, call[c].op = "patch"
                 PROVE  Lasting(c)'
    BY Replied DEF Lasting, Applied
  <2>2. Applied(c) /\ inbox' = inbox /\ Lasting(c)
    BY <1>2, <2>1 DEF Applied
  <2>. QED
    BY <2>2, Replied DEF Lasting
<1>6. Resolving(c)'
  BY Replied DEF Resolving, HandedOut
<1>. QED
  BY <1>1, <1>3, <1>4, <1>5, <1>6 DEF Advances

(* A handler that answers with a token its inbox now has.                  *)
LEMMA ReplyTokenAdvances ==
    ASSUME APIIInv, NEW c \in Call, call[c].pc \notin {"idle", "done"},
           call[c].op \in {"create", "rotate"},
           NEW t \in Token, ReplyToken(c, t),
           Writes(c), [StoreNext]_storeVars,
           inbox'[call[c].inbox].st = "live", inbox'[call[c].inbox].token = t
    PROVE  Advances(c)
<1>. DEFINE ans == 200
            row == [call[c] EXCEPT !.pc = "done", !.ans = ans, !.token = t]
<1>1. call[c] \in CallRow /\ "done" \in Pc /\ ans \in Answer /\ Shape(c)
  BY Begins DEF Pc, Answer, Status
<1>0. ans = 200 /\ call' = [call EXCEPT ![c] = row]
  BY DEF ReplyToken
<1>. HIDE DEF ans
<1>2. /\ row \in CallRow /\ row.pc = "done" /\ row.ans = ans /\ row.token = t
      /\ row.op = call[c].op /\ row.owner = call[c].owner
      /\ row.inbox = call[c].inbox /\ row.event = call[c].event
      /\ row.patch = call[c].patch /\ row.tries = call[c].tries
  <2>1. call[c] \in CallRow /\ "done" \in Pc /\ ans \in Answer
    BY <1>1
  <2>. QED
    BY <2>1 DEF row, CallRow
<1>. HIDE DEF row
<1>4. /\ call' \in [Call -> CallRow] /\ call'[c] = row
      /\ \A d \in Call \ {c} : call'[d] = call[d]
  BY <1>0, <1>2, CallWritten
<1>5. Moves(c)
  BY <1>0, <1>2, <1>4 DEF Moves
<1>6. Shape(c)'
  BY <1>1, <1>2, <1>4 DEF Shape
<1>7. Authorized(c)' /\ Lasting(c)'
  BY <1>2, <1>4 DEF Authorized, Lasting, Applied
<1>8. Resolving(c)'
  BY <1>0, <1>2, <1>4 DEF Resolving, Held, HandedOut
<1>. QED
  BY <1>5, <1>6, <1>7, <1>8 DEF Advances

(* A token that is taken.                                                  *)
LEMMA Collided ==
    ASSUME APIIInv, NEW c \in Call, NEW ans \in Status, Collision(c, ans),
           call[c].tries < MaxTries
    PROVE  /\ call' \in [Call -> CallRow]
           /\ \A d \in Call \ {c} : call'[d] = call[d]
           /\ call'[c].op = call[c].op /\ call'[c].owner = call[c].owner
           /\ call'[c].inbox = call[c].inbox /\ call'[c].event = call[c].event
           /\ call'[c].patch = call[c].patch
           /\ \/ /\ call'[c].pc = call[c].pc /\ call'[c].ans = None
                 /\ call'[c].tries < MaxTries
              \/ /\ call'[c].pc = "done" /\ call'[c].ans = ans
                 /\ call'[c].tries = MaxTries
<1>. DEFINE n == call[c].tries + 1
            pc == IF n < MaxTries THEN call[c].pc ELSE "done"
            reply == IF n < MaxTries THEN None ELSE ans
            row == [call[c] EXCEPT !.tries = n, !.pc = pc, !.ans = reply]
<1>1. call[c] \in CallRow
  BY Begins
<1>2. call' = [call EXCEPT ![c] = row]
  BY DEF Collision
<1>3. call[c].tries \in 0 .. MaxTries /\ call[c].pc \in Pc
  BY <1>1 DEF CallRow
<1>4. n \in 0 .. MaxTries /\ (n < MaxTries \/ n = MaxTries)
  BY <1>3, InboxAPIAssumption
<1>5. pc \in Pc /\ reply \in Answer
  BY <1>3 DEF Pc, Answer
<1>6. \/ n < MaxTries /\ pc = call[c].pc /\ reply = None
      \/ n = MaxTries /\ pc = "done" /\ reply = ans
  BY <1>4, InboxAPIAssumption
<1>. HIDE DEF n, pc, reply
<1>7. /\ row \in CallRow /\ row.pc = pc /\ row.ans = reply /\ row.tries = n
      /\ row.op = call[c].op /\ row.owner = call[c].owner
      /\ row.inbox = call[c].inbox /\ row.event = call[c].event
      /\ row.patch = call[c].patch
  <2>. DEFINE tried == [call[c] EXCEPT !.tries = n]
  <2>1. n \in 0 .. MaxTries
    BY <1>4
  <2>2. /\ tried \in CallRow /\ tried.tries = n
        /\ tried.op = call[c].op /\ tried.owner = call[c].owner
        /\ tried.inbox = call[c].inbox /\ tried.event = call[c].event
        /\ tried.patch = call[c].patch
    BY <1>1, <2>1 DEF CallRow
  <2>. DEFINE moved == [tried EXCEPT !.pc = pc, !.ans = reply]
  <2>3. row = moved
    BY DEF row
  <2>. HIDE DEF tried
  <2>4. /\ moved \in CallRow /\ moved.pc = pc /\ moved.ans = reply
        /\ moved.tries = tried.tries /\ moved.op = tried.op
        /\ moved.owner = tried.owner /\ moved.inbox = tried.inbox
        /\ moved.event = tried.event /\ moved.patch = tried.patch
    BY <1>5, <2>2 DEF CallRow
  <2>. HIDE DEF moved
  <2>. QED
    BY <2>2, <2>3, <2>4
<1>. HIDE DEF row
<1>8. /\ call' \in [Call -> CallRow] /\ call'[c] = row
      /\ \A d \in Call \ {c} : call'[d] = call[d]
  BY <1>2, <1>7, CallWritten
<1>. QED
  BY <1>6, <1>7, <1>8

LEMMA CollisionAdvances ==
    ASSUME APIIInv, NEW c \in Call,
           \/ call[c].pc = "insert" /\ Collision(c, 200)
           \/ call[c].pc = "act" /\ call[c].op = "rotate" /\ Collision(c, 409),
           UNCHANGED storeVars
    PROVE  Advances(c)
<1>1. /\ call[c] \in CallRow /\ Shape(c) /\ Authorized(c)
      /\ call[c].tries < MaxTries /\ call[c].pc \in {"insert", "act"}
      /\ call[c].pc = "insert" => call[c].op = "create"
  BY Begins DEF Shape
<1>2. PICK ans \in Status :
         /\ Collision(c, ans) /\ call[c].op \in {"create", "rotate"}
         /\ call[c].op = "rotate" => ans # 200
  BY <1>1 DEF Status
<1>3. inbox' = inbox /\ event' = event /\ Writes(c) /\ [StoreNext]_storeVars
  BY Untouching
<1>4. Moves(c)
  BY <1>1, <1>2, <1>3, Collided DEF Moves
<1>5. Shape(c)'
  BY <1>1, <1>2, Collided DEF Shape
<1>6. Authorized(c)'
  BY <1>1, <1>2, <1>3, Collided DEF Authorized
<1>7. Lasting(c)'
  BY <1>1, <1>2, Collided DEF Lasting, Applied
<1>8. Resolving(c)'
  <2>1. SUFFICES ASSUME call'[c].ans = 200,
                        call'[c].op = "create" => call'[c].tries < MaxTries
                 PROVE  FALSE
    BY DEF Resolving, HandedOut
  <2>2. call'[c].tries = MaxTries /\ ans = 200
    BY <1>1, <1>2, <2>1, Collided, InboxAPIAssumption DEF Status
  <2>3. call'[c].op = "create"
    BY <1>1, <1>2, <2>2, Collided
  <2>. QED
    BY <2>1, <2>2, <2>3, InboxAPIAssumption
<1>. QED
  BY <1>3, <1>4, <1>5, <1>6, <1>7, <1>8 DEF Advances

-----------------------------------------------------------------------------
(* The handlers, one by one.                                               *)
LEMMA InsertAdvances ==
    ASSUME APIIInv, NEW c \in Call, Insert(c)
    PROVE  Advances(c)
<1>1. call[c].pc = "insert" /\ call[c].op = "create"
  BY Begins DEF Insert, Shape
<1>2. ASSUME NEW t \in Token, NEW s \in Configs, ReplyToken(c, t),
             CreateInbox(call[c].inbox, call[c].owner, t, s)
      PROVE  Advances(c)
  BY <1>1, <1>2, InsertWrites, ReplyTokenAdvances
<1>3. ASSUME Collision(c, 200), UNCHANGED storeVars PROVE Advances(c)
  BY <1>1, <1>3, CollisionAdvances
<1>. QED
  BY <1>2, <1>3 DEF Insert

LEMMA RotateAdvances ==
    ASSUME APIIInv, NEW c \in Call, Rotate(c)
    PROVE  Advances(c)
<1>1. call[c].pc = "act" /\ call[c].op = "rotate" /\ 404 \in Status
  BY DEF Rotate, Status
<1>2. ASSUME NEW t \in Token, RotateToken(call[c].inbox, t), ReplyToken(c, t)
      PROVE  Advances(c)
  BY <1>1, <1>2, RotateWrites, ReplyTokenAdvances
<1>3. ASSUME Collision(c, 409), UNCHANGED storeVars PROVE Advances(c)
  BY <1>1, <1>3, CollisionAdvances
<1>4. ASSUME Reply(c, 404), UNCHANGED storeVars PROVE Advances(c)
  BY <1>1, <1>4, ReplyAdvances, Untouching
<1>. QED
  BY <1>2, <1>3, <1>4 DEF Rotate

LEMMA RemoveInboxAdvances ==
    ASSUME APIIInv, NEW c \in Call, RemoveInbox(c)
    PROVE  Advances(c)
<1>1. /\ call[c].pc = "act" /\ call[c].op = "delete"
      /\ 404 \in Status /\ 200 \in Status
  BY DEF RemoveInbox, Status
<1>2. CASE DeleteInbox(call[c].inbox) /\ Reply(c, 200)
  BY <1>1, <1>2, RemoveInboxWrites, ReplyAdvances
<1>3. CASE Reply(c, 404) /\ UNCHANGED storeVars
  BY <1>1, <1>3, ReplyAdvances, Untouching
<1>. QED
  BY <1>2, <1>3 DEF RemoveInbox

LEMMA ClearEventsAdvances ==
    ASSUME APIIInv, NEW c \in Call, ClearEvents(c)
    PROVE  Advances(c)
<1>1. /\ call[c].pc = "act" /\ call[c].op = "clear" /\ 200 \in Status
      /\ DeleteInboxEvents(call[c].inbox) /\ Reply(c, 200)
  BY DEF ClearEvents, Status
<1>. QED
  BY <1>1, RemoveEventsWrites, ReplyAdvances

LEMMA RemoveEventAdvances ==
    ASSUME APIIInv, NEW c \in Call, RemoveEvent(c)
    PROVE  Advances(c)
<1>1. /\ call[c].pc = "act" /\ call[c].op = "deleteEvent"
      /\ 404 \in Status /\ 200 \in Status
  BY DEF RemoveEvent, Status
<1>2. CASE DeleteEvent(call[c].event) /\ Reply(c, 200)
  BY <1>1, <1>2, RemoveEventsWrites, ReplyAdvances
<1>3. CASE Reply(c, 404) /\ UNCHANGED storeVars
  BY <1>1, <1>3, ReplyAdvances, Untouching
<1>. QED
  BY <1>2, <1>3 DEF RemoveEvent

LEMMA RereadAdvances ==
    ASSUME APIIInv, NEW c \in Call, Reread(c)
    PROVE  Advances(c)
<1>1. /\ call[c].pc = "reread" /\ call[c].op = "patch"
      /\ 404 \in Status /\ 200 \in Status
  BY Begins DEF Reread, Status, Shape
<1>2. (Reply(c, 200) \/ Reply(c, 404)) /\ UNCHANGED storeVars
  BY DEF Reread
<1>. QED
  BY <1>1, <1>2, ReplyAdvances, Untouching

LEMMA FailAdvances ==
    ASSUME APIIInv, NEW c \in Call, Fail(c)
    PROVE  Advances(c)
<1>1. 404 \in Status /\ 500 \in Status /\ call[c].pc \notin {"idle", "done"}
  BY DEF Fail, Status
<1>2. (Reply(c, 500) \/ Reply(c, 404)) /\ UNCHANGED storeVars
  BY DEF Fail
<1>. QED
  BY <1>1, <1>2, ReplyAdvances, Untouching

LEMMA LostAnswerAdvances ==
    ASSUME APIIInv, NEW c \in Call, LostAnswer(c)
    PROVE  Advances(c)
<1>1. Reply(c, 500) /\ 500 \in Status /\ call[c].pc \in {"insert", "act"}
  BY DEF LostAnswer, Status
<1>2. Writes(c) /\ StoreNext
  BY InsertWrites, UpdateWrites, RemoveInboxWrites, RotateWrites, RemoveEventsWrites
     DEF LostAnswer
<1>. QED
  BY <1>1, <1>2, ReplyAdvances

(* Steps that only move on.                                                *)
LEMMA Went ==
    ASSUME APIIInv, NEW c \in Call, NEW pc \in Pc, GoTo(c, pc)
    PROVE  /\ call' \in [Call -> CallRow]
           /\ \A d \in Call \ {c} : call'[d] = call[d]
           /\ call'[c].pc = pc /\ call'[c].ans = call[c].ans
           /\ call'[c].op = call[c].op /\ call'[c].owner = call[c].owner
           /\ call'[c].inbox = call[c].inbox /\ call'[c].event = call[c].event
           /\ call'[c].patch = call[c].patch /\ call'[c].tries = call[c].tries
<1>. DEFINE row == [call[c] EXCEPT !.pc = pc]
<1>1. call[c] \in CallRow
  BY Begins
<1>2. /\ row \in CallRow /\ row.pc = pc /\ row.ans = call[c].ans
      /\ row.op = call[c].op /\ row.owner = call[c].owner
      /\ row.inbox = call[c].inbox /\ row.event = call[c].event
      /\ row.patch = call[c].patch /\ row.tries = call[c].tries
  BY <1>1 DEF CallRow
<1>3. call' = [call EXCEPT ![c] = row]
  BY DEF GoTo
<1>. HIDE DEF row
<1>4. /\ call' \in [Call -> CallRow] /\ call'[c] = row
      /\ \A d \in Call \ {c} : call'[d] = call[d]
  BY <1>2, <1>3, CallWritten
<1>. QED
  BY <1>2, <1>4

LEMMA CheckOwnerAdvances ==
    ASSUME APIIInv, NEW c \in Call, CheckOwner(c)
    PROVE  Advances(c)
<1>1. /\ call[c].pc = "check" /\ UNCHANGED storeVars
      /\ 404 \in Status /\ "act" \in Pc
  BY DEF CheckOwner, Status, Pc
<1>2. inbox' = inbox /\ event' = event /\ Writes(c) /\ [StoreNext]_storeVars
  BY <1>1, Untouching
<1>3. CASE Owned(c) /\ GoTo(c, "act")
  <2>1. Shape(c) /\ Authorized(c) /\ MaxTries > 0
    BY Begins, InboxAPIAssumption
  <2>2. /\ inbox[call[c].inbox].st = "live"
        /\ inbox[call[c].inbox].owner = call[c].owner
    BY <1>3 DEF Owned, LiveInboxes
  <2>3. Moves(c)
    BY <1>1, <1>2, <1>3, Went DEF Moves
  <2>4. Shape(c)'
    BY <1>1, <1>3, <2>1, Went DEF Shape
  <2>5. Authorized(c)'
    BY <1>1, <1>2, <1>3, <2>1, <2>2, Went DEF Authorized
  <2>6. Lasting(c)' /\ Resolving(c)'
    BY <1>1, <1>3, <2>1, Went, InboxAPIAssumption
       DEF Shape, Lasting, Applied, Resolving, HandedOut, Status
  <2>. QED
    BY <1>2, <2>3, <2>4, <2>5, <2>6 DEF Advances
<1>4. CASE Reply(c, 404)
  BY <1>1, <1>2, <1>4, ReplyAdvances
<1>. QED
  BY <1>3, <1>4 DEF CheckOwner

(* The columns of a patched row.                                           *)
LEMMA PatchedColumns ==
    ASSUME NEW s, NEW p \in Patch, NEW col \in Column
    PROVE  Patched(s, p)[col] = IF col \in p.cols THEN p.val[col] ELSE s[col]
<1>1. ASSUME col = "enabled"
      PROVE  Patched(s, p)[col] = IF col \in p.cols THEN p.val[col] ELSE s[col]
  BY <1>1 DEF Patched
<1>2. ASSUME col = "secret"
      PROVE  Patched(s, p)[col] = IF col \in p.cols THEN p.val[col] ELSE s[col]
  BY <1>2 DEF Patched
<1>3. ASSUME col = "require"
      PROVE  Patched(s, p)[col] = IF col \in p.cols THEN p.val[col] ELSE s[col]
  BY <1>3 DEF Patched
<1>4. ASSUME col = "keep"
      PROVE  Patched(s, p)[col] = IF col \in p.cols THEN p.val[col] ELSE s[col]
  BY <1>4 DEF Patched
<1>5. ASSUME col = "days"
      PROVE  Patched(s, p)[col] = IF col \in p.cols THEN p.val[col] ELSE s[col]
  BY <1>5 DEF Patched
<1>. QED
  BY <1>1, <1>2, <1>3, <1>4, <1>5 DEF Column

LEMMA PatchInboxAdvances ==
    ASSUME APIIInv, NEW c \in Call, PatchInbox(c)
    PROVE  Advances(c)
<1>1. /\ call[c].pc = "act" /\ call[c].op = "patch"
      /\ 404 \in Status /\ "reread" \in Pc
  BY DEF PatchInbox, Status, Pc
<1>2. CASE UpdateInbox(call[c].inbox, call[c].patch) /\ GoTo(c, "reread")
  <2>. DEFINE i == call[c].inbox
              p == call[c].patch
  <2>1. /\ Shape(c) /\ Authorized(c) /\ i \in InboxId /\ p \in Patch
        /\ inbox \in [InboxId -> InboxRow \cup Missing]
    BY <1>1, Begins, StoreAssumption DEF Shape
  <2>2. /\ inbox[i].st = "live" /\ Writes(c) /\ StoreNext
        /\ inbox' = [inbox EXCEPT ![i].cfg = Patched(inbox[i].cfg, p)]
    BY <1>1, <1>2, UpdateWrites DEF UpdateInbox
  <2>3. inbox[i] \in InboxRow
    BY <2>1, <2>2, MissingRows
  <2>4. /\ inbox'[i].st = "live" /\ inbox'[i].owner = inbox[i].owner
        /\ inbox'[i].cfg = Patched(inbox[i].cfg, p)
    BY <2>1, <2>2, <2>3 DEF InboxRow
  <2>5. \A col \in p.cols : inbox'[i].cfg[col] = p.val[col]
    <3>1. p.cols \subseteq Column
      BY <2>1 DEF Patch
    <3>. QED
      BY <2>1, <2>4, <3>1, PatchedColumns
  <2>6. Moves(c)
    BY <1>1, <1>2, Went DEF Moves
  <2>7. Shape(c)'
    BY <1>1, <1>2, <2>1, Went DEF Shape
  <2>8. Authorized(c)'
    BY <1>1, <1>2, <2>1, <2>2, <2>4, Went DEF Authorized
  <2>9. Lasting(c)'
    BY <1>1, <1>2, <2>4, <2>5, Went DEF Lasting
  <2>10. Resolving(c)'
    BY <1>1, <1>2, Went DEF Resolving, HandedOut
  <2>. QED
    BY <2>2, <2>6, <2>7, <2>8, <2>9, <2>10 DEF Advances
<1>3. CASE Reply(c, 404) /\ UNCHANGED storeVars
  BY <1>1, <1>3, ReplyAdvances, Untouching
<1>. QED
  BY <1>2, <1>3 DEF PatchInbox

LEMMA FindEventAdvances ==
    ASSUME APIIInv, NEW c \in Call, FindEvent(c)
    PROVE  Advances(c)
<1>. DEFINE e == call[c].event
<1>1. /\ call[c].pc = "event" /\ call[c].op = "deleteEvent" /\ e \in EventId
      /\ UNCHANGED storeVars /\ 404 \in Status /\ "check" \in Pc
  BY Begins DEF FindEvent, Shape, Status, Pc
<1>2. inbox' = inbox /\ event' = event /\ Writes(c) /\ [StoreNext]_storeVars
  BY <1>1, Untouching
<1>3. CASE e \in LiveEvents /\ call' = [call EXCEPT ![c] = [@ EXCEPT !.pc = "check",
                                                        !.inbox = event[e].inbox]]
  <2>. DEFINE i == event[e].inbox
              row == [call[c] EXCEPT !.pc = "check", !.inbox = i]
  <2>1. event[e].st = "live" /\ i \in InboxId
    <3>1. StoreTypeOK
      BY DEF APIIInv, StoreInv
    <3>. QED
      BY <1>3, <3>1, LiveRows DEF LiveEvents, EventRow
  <2>2. call' = [call EXCEPT ![c] = row]
    BY <1>3
  <2>3. call[c] \in CallRow /\ Shape(c)
    BY Begins
  <2>. HIDE DEF i
  <2>4. /\ row \in CallRow /\ row.pc = "check" /\ row.ans = call[c].ans
        /\ row.op = call[c].op /\ row.owner = call[c].owner /\ row.inbox = i
        /\ row.event = call[c].event /\ row.patch = call[c].patch
        /\ row.tries = call[c].tries
    <3>1. i \in InboxId /\ "check" \in Pc /\ call[c] \in CallRow
      BY <1>1, <2>1, <2>3
    <3>. QED
      BY <3>1 DEF CallRow
  <2>. HIDE DEF row
  <2>5. /\ call' \in [Call -> CallRow] /\ call'[c] = row
        /\ \A d \in Call \ {c} : call'[d] = call[d]
    BY <2>2, <2>4, CallWritten
  <2>6. Moves(c)
    BY <1>1, <1>2, <2>5 DEF Moves
  <2>7. Shape(c)'
    BY <1>1, <2>1, <2>3, <2>4, <2>5 DEF Shape
  <2>8. Authorized(c)'
    BY <1>1, <1>2, <2>1, <2>4, <2>5 DEF Authorized, i
  <2>9. Lasting(c)' /\ Resolving(c)'
    BY <1>1, <2>4, <2>5 DEF Lasting, Applied, Resolving, HandedOut
  <2>. QED
    BY <1>2, <2>6, <2>7, <2>8, <2>9 DEF Advances
<1>4. CASE Reply(c, 404)
  BY <1>1, <1>2, <1>4, ReplyAdvances
<1>. QED
  BY <1>3, <1>4 DEF FindEvent

(* The row a request begins with.                                          *)
LEMMA IdleRow ==
    /\ Idle \in CallRow /\ Idle.ans = None /\ Idle.tries = 0
    /\ Idle.op = None /\ Idle.pc = "idle"
  BY InboxAPIAssumption DEF Idle, CallRow, Pc, Answer

Begun(row) ==
    /\ row \in CallRow /\ row.ans = None /\ row.tries = 0
    /\ row.op \in Op /\ row.owner \in Owner
    /\ \/ row.op = "create" /\ row.pc = "insert" /\ row.inbox \in InboxId
       \/ /\ row.op \in {"delete", "rotate", "clear"} /\ row.pc = "check"
          /\ row.inbox \in InboxId
       \/ /\ row.op = "patch" /\ row.pc = "check"
          /\ row.inbox \in InboxId /\ row.patch \in Patches
       \/ row.op = "deleteEvent" /\ row.pc = "event" /\ row.event \in EventId

LEMMA RequestBegun ==
    ASSUME NEW c \in Call, Begin(c)
    PROVE  \E row \in CallRow : Begun(row) /\ call' = [call EXCEPT ![c] = row]
<1>1. ASSUME NEW q \in CallRow, q.ans = None, q.tries = 0, NEW o \in Owner
      PROVE  /\ \A i \in InboxId :
                   Begun([q EXCEPT !.pc = "insert", !.op = "create", !.owner = o,
                                   !.inbox = i])
             /\ \A i \in InboxId, op \in {"delete", "rotate", "clear"} :
                   Begun([q EXCEPT !.pc = "check", !.op = op, !.owner = o, !.inbox = i])
             /\ \A i \in InboxId, p \in Patches :
                   Begun([q EXCEPT !.pc = "check", !.op = "patch", !.owner = o,
                                   !.inbox = i, !.patch = p])
             /\ \A e \in EventId :
                   Begun([q EXCEPT !.pc = "event", !.op = "deleteEvent", !.owner = o,
                                   !.event = e])
  <2>1. ASSUME NEW i \in InboxId
        PROVE  Begun([q EXCEPT !.pc = "insert", !.op = "create", !.owner = o,
                               !.inbox = i])
    BY <1>1 DEF Begun, CallRow, Pc, Op
  <2>2. ASSUME NEW i \in InboxId, NEW op \in {"delete", "rotate", "clear"}
        PROVE  Begun([q EXCEPT !.pc = "check", !.op = op, !.owner = o, !.inbox = i])
    BY <1>1 DEF Begun, CallRow, Pc, Op
  <2>3. ASSUME NEW i \in InboxId, NEW p \in Patches
        PROVE  Begun([q EXCEPT !.pc = "check", !.op = "patch", !.owner = o,
                               !.inbox = i, !.patch = p])
    BY <1>1 DEF Begun, CallRow, Pc, Op
  <2>4. ASSUME NEW e \in EventId
        PROVE  Begun([q EXCEPT !.pc = "event", !.op = "deleteEvent", !.owner = o,
                               !.event = e])
    BY <1>1 DEF Begun, CallRow, Pc, Op
  <2>. QED
    BY <2>1, <2>2, <2>3, <2>4
<1>2. PICK op \in Op, o \in Owner :
         \/ /\ op = "create"
            /\ \E i \in InboxId :
                 call' = [call EXCEPT ![c] =
                    [Idle EXCEPT !.pc = "insert", !.op = op, !.owner = o, !.inbox = i]]
         \/ /\ op \in {"delete", "rotate", "clear"}
            /\ \E i \in InboxId :
                 call' = [call EXCEPT ![c] =
                    [Idle EXCEPT !.pc = "check", !.op = op, !.owner = o, !.inbox = i]]
         \/ /\ op = "patch"
            /\ \E i \in InboxId, p \in Patches :
                 call' = [call EXCEPT ![c] =
                    [Idle EXCEPT !.pc = "check", !.op = op, !.owner = o,
                                 !.inbox = i, !.patch = p]]
         \/ /\ op = "deleteEvent"
            /\ \E e \in EventId :
                 call' = [call EXCEPT ![c] =
                    [Idle EXCEPT !.pc = "event", !.op = op, !.owner = o, !.event = e]]
  BY DEF Begin
<1>3. \A row : Begun(row) => row \in CallRow
  BY DEF Begun
<1>4. CASE /\ op = "create"
           /\ \E i \in InboxId :
                 call' = [call EXCEPT ![c] =
                    [Idle EXCEPT !.pc = "insert", !.op = op, !.owner = o, !.inbox = i]]
  <2>1. PICK i \in InboxId :
           call' = [call EXCEPT ![c] =
              [Idle EXCEPT !.pc = "insert", !.op = "create", !.owner = o, !.inbox = i]]
    BY <1>4
  <2>2. Begun([Idle EXCEPT !.pc = "insert", !.op = "create", !.owner = o, !.inbox = i])
    BY <1>1, IdleRow, Zenon
  <2>. QED
    BY <1>3, <2>1, <2>2, Zenon
<1>5. CASE /\ op \in {"delete", "rotate", "clear"}
           /\ \E i \in InboxId :
                 call' = [call EXCEPT ![c] =
                    [Idle EXCEPT !.pc = "check", !.op = op, !.owner = o, !.inbox = i]]
  <2>1. PICK i \in InboxId :
           call' = [call EXCEPT ![c] =
              [Idle EXCEPT !.pc = "check", !.op = op, !.owner = o, !.inbox = i]]
    BY <1>5
  <2>2. Begun([Idle EXCEPT !.pc = "check", !.op = op, !.owner = o, !.inbox = i])
    BY <1>1, <1>5, IdleRow, Zenon
  <2>. QED
    BY <1>3, <2>1, <2>2, Zenon
<1>6. CASE /\ op = "patch"
           /\ \E i \in InboxId, p \in Patches :
                 call' = [call EXCEPT ![c] =
                    [Idle EXCEPT !.pc = "check", !.op = op, !.owner = o,
                                 !.inbox = i, !.patch = p]]
  <2>1. PICK i \in InboxId, p \in Patches :
           call' = [call EXCEPT ![c] =
              [Idle EXCEPT !.pc = "check", !.op = "patch", !.owner = o,
                           !.inbox = i, !.patch = p]]
    BY <1>6
  <2>2. Begun([Idle EXCEPT !.pc = "check", !.op = "patch", !.owner = o,
                           !.inbox = i, !.patch = p])
    BY <1>1, IdleRow, Zenon
  <2>. QED
    BY <1>3, <2>1, <2>2, Zenon
<1>7. CASE /\ op = "deleteEvent"
           /\ \E e \in EventId :
                 call' = [call EXCEPT ![c] =
                    [Idle EXCEPT !.pc = "event", !.op = op, !.owner = o, !.event = e]]
  <2>1. PICK e \in EventId :
           call' = [call EXCEPT ![c] =
              [Idle EXCEPT !.pc = "event", !.op = "deleteEvent", !.owner = o, !.event = e]]
    BY <1>7
  <2>2. Begun([Idle EXCEPT !.pc = "event", !.op = "deleteEvent", !.owner = o, !.event = e])
    BY <1>1, IdleRow, Zenon
  <2>. QED
    BY <1>3, <2>1, <2>2, Zenon
<1>. QED
  BY <1>2, <1>4, <1>5, <1>6, <1>7

LEMMA BeginAdvances ==
    ASSUME APIIInv, NEW c \in Call, Begin(c)
    PROVE  Advances(c)
<1>1. PICK row \in CallRow : Begun(row) /\ call' = [call EXCEPT ![c] = row]
  BY RequestBegun
<1>2. /\ call' \in [Call -> CallRow] /\ call'[c] = row
      /\ \A d \in Call \ {c} : call'[d] = call[d]
  BY <1>1, CallWritten
<1>3. call[c].pc = "idle" /\ call[c].op = None /\ UNCHANGED storeVars
  BY Begins DEF Begin, Shape
<1>4. inbox' = inbox /\ event' = event /\ Writes(c) /\ [StoreNext]_storeVars
  BY <1>3, Untouching
<1>5. /\ row.ans = None /\ row.tries = 0 /\ row.op \in Op /\ row.owner \in Owner
      /\ row.pc \in {"insert", "check", "event"} /\ MaxTries > 0
  BY <1>1, InboxAPIAssumption DEF Begun
<1>6. None # "patch" /\ None \notin {"rotate", "delete"} /\ None # 200
  BY InboxAPIAssumption DEF Op, Status
<1>7. Moves(c)
  BY <1>2, <1>3, <1>4, <1>6 DEF Moves
<1>8. Shape(c)'
  BY <1>1, <1>2, <1>5 DEF Shape, Begun
<1>9. Authorized(c)'
  BY <1>1, <1>2, <1>5 DEF Authorized, Begun
<1>10. Lasting(c)' /\ Resolving(c)'
  BY <1>2, <1>5, <1>6 DEF Lasting, Applied, Resolving, HandedOut
<1>. QED
  BY <1>4, <1>7, <1>8, <1>9, <1>10 DEF Advances

-----------------------------------------------------------------------------
(* What the step of one call is to an inbox, and to the other calls.       *)
LEMMA InboxEffects ==
    ASSUME APIIInv, NEW c \in Call, Writes(c), NEW j \in InboxId
    PROVE  \/ inbox'[j] = inbox[j]
           \/ /\ j = call[c].inbox /\ inbox' # inbox
              /\ \/ inbox[j].st = "fresh" /\ inbox'[j].st = "live"
                 \/ /\ call[c].pc = "act" /\ call[c].op = "delete"
                    /\ inbox[j].st = "live" /\ inbox'[j].st = "gone"
                 \/ /\ call[c].pc = "act"
                    /\ inbox[j].st = "live" /\ inbox'[j].st = "live"
                    /\ inbox'[j].owner = inbox[j].owner
                    /\ \/ /\ call[c].op = "patch"
                          /\ inbox'[j].token = inbox[j].token
                          /\ inbox'[j].cfg = Patched(inbox[j].cfg, call[c].patch)
                       \/ /\ call[c].op = "rotate"
                          /\ inbox'[j].cfg = inbox[j].cfg
<1>. DEFINE p == call[c].patch
<1>1. SUFFICES ASSUME InboxWritten(c), j = call[c].inbox, inbox'[j] # inbox[j]
               PROVE  \/ inbox[j].st = "fresh" /\ inbox'[j].st = "live"
                      \/ /\ call[c].pc = "act" /\ call[c].op = "delete"
                         /\ inbox[j].st = "live" /\ inbox'[j].st = "gone"
                      \/ /\ call[c].pc = "act"
                         /\ inbox[j].st = "live" /\ inbox'[j].st = "live"
                         /\ inbox'[j].owner = inbox[j].owner
                         /\ \/ /\ call[c].op = "patch"
                               /\ inbox'[j].token = inbox[j].token
                               /\ inbox'[j].cfg = Patched(inbox[j].cfg, p)
                            \/ /\ call[c].op = "rotate"
                               /\ inbox'[j].cfg = inbox[j].cfg
  BY DEF Writes, InboxWritten
<1>2. inbox[j].st = "live" => inbox[j] \in InboxRow
  BY Begins, MissingRows
<1>3. ASSUME inbox[j].st = "live", inbox'[j] = [inbox[j] EXCEPT !.cfg = Patched(@, p)]
      PROVE  /\ inbox'[j].st = "live" /\ inbox'[j].owner = inbox[j].owner
             /\ inbox'[j].token = inbox[j].token
             /\ inbox'[j].cfg = Patched(inbox[j].cfg, p)
  BY <1>2, <1>3 DEF InboxRow
<1>4. ASSUME inbox[j].st = "live",
             NEW t \in Token, inbox'[j] = [inbox[j] EXCEPT !.token = t]
      PROVE  /\ inbox'[j].st = "live" /\ inbox'[j].owner = inbox[j].owner
             /\ inbox'[j].cfg = inbox[j].cfg
  BY <1>2, <1>4 DEF InboxRow
<1>. QED
  BY <1>1, <1>3, <1>4 DEF InboxWritten

LEMMA OthersKept ==
    ASSUME APIIInv, NEW c \in Call, Moves(c), Writes(c), Resolving(c)',
           NEW d \in Call \ {c}
    PROVE  Shape(d)' /\ Authorized(d)' /\ Lasting(d)' /\ Resolving(d)'
<1>1. /\ Shape(d) /\ Authorized(d) /\ Lasting(d) /\ Resolving(d) /\ Shape(c)
      /\ call'[d] = call[d]
  BY Begins DEF Moves
<1>. DEFINE q == call[d]
            i == q.inbox
<1>2. Shape(d)'
  BY <1>1 DEF Shape
<1>3. Authorized(d)'
  <2>1. q.pc \in {"act", "reread"} =>
          \/ inbox'[i].st = "gone"
          \/ inbox'[i].st = "live" /\ inbox'[i].owner = q.owner
    <3>1. SUFFICES ASSUME q.pc \in {"act", "reread"}
                   PROVE  \/ inbox'[i].st = "gone"
                          \/ inbox'[i].st = "live" /\ inbox'[i].owner = q.owner
      OBVIOUS
    <3>2. /\ i \in InboxId
          /\ \/ inbox[i].st = "gone"
             \/ inbox[i].st = "live" /\ inbox[i].owner = q.owner
      BY <1>1, <3>1 DEF Shape, Authorized
    <3>. QED
      BY <3>2, InboxEffects
  <2>2. q.pc \in {"check", "act"} /\ q.op = "deleteEvent" =>
          \/ event'[q.event].st = "gone"
          \/ event'[q.event].st = "live" /\ event'[q.event].inbox = i
    BY <1>1 DEF Shape, Authorized, Writes, EventRemoved
  <2>. QED
    BY <1>1, <2>1, <2>2 DEF Authorized
<1>4. Lasting(d)'
  <2>1. SUFFICES ASSUME Applied(d)
                 PROVE  /\ inbox'[i].st # "fresh"
                        /\ inbox'[i].st = "live" =>
                             \A col \in q.patch.cols :
                               \/ inbox'[i].cfg[col] = q.patch.val[col]
                               \/ \E f \in Call \ {d} :
                                     /\ call'[f].op = "patch" /\ call'[f].inbox = i
                                     /\ col \in call'[f].patch.cols
    BY <1>1 DEF Lasting, Applied
  <2>2. /\ i \in InboxId /\ q.patch \in Patch /\ inbox[i].st # "fresh"
        /\ inbox[i].st = "live" =>
             \A col \in q.patch.cols :
               \/ inbox[i].cfg[col] = q.patch.val[col]
               \/ \E f \in Call \ {d} : /\ call[f].op = "patch" /\ call[f].inbox = i
                                        /\ col \in call[f].patch.cols
    BY <1>1, <2>1, StoreAssumption DEF Shape, Applied, Lasting
  <2>3. ASSUME NEW f \in Call \ {d}, call[f].op = "patch"
        PROVE  /\ call'[f].op = "patch" /\ call'[f].inbox = call[f].inbox
               /\ call'[f].patch = call[f].patch
    BY <2>3 DEF Moves
  <2>4. inbox'[i].st # "fresh"
    BY <2>2, InboxEffects
  <2>5. ASSUME inbox'[i].st = "live", NEW col \in q.patch.cols
        PROVE  \/ inbox'[i].cfg[col] = q.patch.val[col]
               \/ \E f \in Call \ {d} : /\ call'[f].op = "patch" /\ call'[f].inbox = i
                                        /\ col \in call'[f].patch.cols
    <3>1. /\ inbox[i].st = "live"
          /\ \/ inbox'[i].cfg = inbox[i].cfg
             \/ /\ call[c].op = "patch" /\ call[c].inbox = i
                /\ inbox'[i].cfg = Patched(inbox[i].cfg, call[c].patch)
      BY <2>2, <2>5, InboxEffects
    <3>2. CASE \E f \in Call \ {d} : /\ call[f].op = "patch" /\ call[f].inbox = i
                                    /\ col \in call[f].patch.cols
      BY <2>3, <3>2
    <3>3. CASE inbox[i].cfg[col] = q.patch.val[col] /\ inbox'[i].cfg = inbox[i].cfg
      BY <3>3
    <3>4. CASE /\ inbox[i].cfg[col] = q.patch.val[col]
               /\ call[c].op = "patch" /\ call[c].inbox = i
               /\ inbox'[i].cfg = Patched(inbox[i].cfg, call[c].patch)
      <4>1. col \in Column /\ call[c].patch \in Patch
        BY <1>1, <2>2, <2>5, <3>4, StoreAssumption DEF Patch, Shape
      <4>2. CASE col \in call[c].patch.cols
        BY <2>3, <3>4, <4>2
      <4>3. CASE col \notin call[c].patch.cols
        BY <3>4, <4>1, <4>3, PatchedColumns
      <4>. QED
        BY <4>2, <4>3
    <3>. QED
      BY <2>2, <2>5, <3>1, <3>2, <3>3, <3>4
  <2>. QED
    BY <2>4, <2>5
<1>5. Resolving(d)'
  <2>1. SUFFICES ASSUME HandedOut(d)
                 PROVE  /\ inbox'[i].st # "fresh"
                        /\ (inbox'[i].st = "live" /\ Held(i)') \/ Revoked(i)'
    BY <1>1 DEF Resolving, HandedOut
  <2>2. /\ i \in InboxId /\ inbox[i].st # "fresh"
        /\ (inbox[i].st = "live" /\ Held(i)) \/ Revoked(i)
    BY <1>1, <2>1 DEF Shape, Resolving, HandedOut
  <2>3. inbox'[i].st # "fresh"
    BY <2>2, InboxEffects
  <2>4. CASE Revoked(i)
    <3>1. PICK f \in Call : /\ call[f].inbox = i
                            /\ \/ call[f].op = "rotate" /\ call[f].ans = 500
                               \/ call[f].op = "delete" /\ call[f].ans \in {200, 500}
      BY <2>4 DEF Revoked
    <3>2. f # c
      BY <1>1, <3>1, InboxAPIAssumption DEF Moves, Shape, Status
    <3>3. call'[f] = call[f]
      BY <3>2 DEF Moves
    <3>. QED
      BY <1>1, <2>3, <3>1, <3>3 DEF Revoked
  <2>5. CASE inbox[i].st = "live" /\ Held(i)
    <3>1. \/ inbox'[i].st = "live" /\ inbox'[i].token = inbox[i].token
          \/ /\ call[c].op \in {"rotate", "delete"} /\ call[c].inbox = i
             /\ inbox' # inbox
      BY <2>2, <2>5, InboxEffects
    <3>2. CASE inbox'[i].st = "live" /\ inbox'[i].token = inbox[i].token
      <4>1. PICK h \in Call : /\ HandedOut(h) /\ call[h].inbox = i
                              /\ call[h].token = inbox[i].token
        BY <2>5 DEF Held
      <4>2. h # c
        BY <1>1, <4>1, InboxAPIAssumption DEF Moves, Shape, Status, HandedOut
      <4>3. call'[h] = call[h]
        BY <4>2 DEF Moves
      <4>. QED
        BY <1>1, <2>3, <3>2, <4>1, <4>3 DEF Held, HandedOut
    <3>3. CASE /\ call[c].op \in {"rotate", "delete"} /\ call[c].inbox = i
               /\ inbox' # inbox
      <4>1. /\ call'[c].op = call[c].op /\ call'[c].inbox = i
            /\ call'[c].ans \in {200, 500}
        BY <3>3 DEF Moves
      <4>2. CASE call'[c].op = "rotate" /\ call'[c].ans = 200
        <5>1. HandedOut(c)'
          BY <4>2 DEF HandedOut
        <5>. QED
          BY <1>1, <2>3, <4>1, <5>1 DEF Resolving
      <4>3. CASE ~(call'[c].op = "rotate" /\ call'[c].ans = 200)
        BY <1>1, <2>3, <3>3, <4>1, <4>3 DEF Revoked
      <4>. QED
        BY <4>2, <4>3
    <3>. QED
      BY <3>1, <3>2, <3>3
  <2>. QED
    BY <2>2, <2>4, <2>5
<1>. QED
  BY <1>2, <1>3, <1>4, <1>5

-----------------------------------------------------------------------------
Handles(c) ==
    \/ Begin(c) \/ Insert(c) \/ FindEvent(c) \/ CheckOwner(c)
    \/ PatchInbox(c) \/ Reread(c) \/ RemoveInbox(c) \/ Rotate(c)
    \/ ClearEvents(c) \/ RemoveEvent(c) \/ Fail(c) \/ LostAnswer(c)

LEMMA HandlesAdvances ==
    ASSUME APIIInv, NEW c \in Call, Handles(c)
    PROVE  Advances(c)
  BY BeginAdvances, InsertAdvances, FindEventAdvances, CheckOwnerAdvances,
     PatchInboxAdvances, RereadAdvances, RemoveInboxAdvances, RotateAdvances,
     ClearEventsAdvances, RemoveEventAdvances, FailAdvances, LostAnswerAdvances
     DEF Handles

LEMMA CapturedIsStatement ==
    ASSUME APIIInv, Captured
    PROVE  /\ StoreNext /\ inbox' = inbox /\ call' = call
           /\ \A e \in EventId : event'[e] = event[e] \/ event[e].st = "fresh"
<1>1. PICK e \in EventId, i \in LiveInboxes :
         CreateEvent(e, i, clock, None) /\ call' = call
  BY DEF Captured
<1>2. i \in InboxId /\ clock \in 0 .. clock /\ None \in SignatureValid
  BY DEF LiveInboxes, APIIInv, StoreInv, StoreTypeOK, SignatureValid
<1>3. StoreNext
  BY <1>1, <1>2 DEF StoreNext
<1>. QED
  BY <1>1, <1>3, Begins DEF CreateEvent, APIIInv, StoreInv, StoreTypeOK

LEMMA APIKeepsTables ==
    ASSUME APIIInv, [APINext]_apiVars
    PROVE  [StoreNext]_storeVars
  BY HandlesAdvances, CapturedIsStatement
     DEF APINext, Handles, Advances, apiVars, storeVars

LEMMA InitAPIIInv == APIInit => APIIInv
<1>. SUFFICES ASSUME APIInit PROVE APIIInv
  OBVIOUS
<1>1. StoreInv
  BY InitStoreInv DEF APIInit
<1>2. call \in [Call -> CallRow] /\ \A c \in Call : call[c] = Idle
  BY IdleRow DEF APIInit
<1>3. None # "patch" /\ None \notin {"create", "rotate", "delete", "clear", "deleteEvent"}
  BY InboxAPIAssumption DEF Op
<1>4. ASSUME NEW c \in Call
      PROVE  Shape(c) /\ Authorized(c) /\ Lasting(c) /\ Resolving(c)
  BY <1>2, <1>3, IdleRow DEF Shape, Authorized, Lasting, Applied, Resolving, HandedOut
<1>. QED
  BY <1>1, <1>2, <1>4 DEF APIIInv

LEMMA APINextKeepsIInv == APIIInv /\ [APINext]_apiVars => APIIInv'
<1>. SUFFICES ASSUME APIIInv, [APINext]_apiVars PROVE APIIInv'
  OBVIOUS
<1>1. StoreInv'
  BY APIKeepsTables, StoreNextKeepsInv DEF APIIInv
<1>2. ASSUME NEW c \in Call, Handles(c) PROVE APIIInv'
  <2>1. Advances(c)
    BY <1>2, HandlesAdvances
  <2>2. ASSUME NEW d \in Call
        PROVE  Shape(d)' /\ Authorized(d)' /\ Lasting(d)' /\ Resolving(d)'
    <3>1. CASE d = c
      BY <2>1, <3>1 DEF Advances
    <3>2. CASE d # c
      BY <2>1, <3>2, OthersKept DEF Advances
    <3>. QED
      BY <3>1, <3>2
  <2>. QED
    BY <1>1, <2>1, <2>2 DEF APIIInv, Advances, Moves
<1>3. CASE Captured \/ UNCHANGED apiVars
  <2>1. /\ inbox' = inbox /\ call' = call
        /\ \A e \in EventId : event'[e] = event[e] \/ event[e].st = "fresh"
    BY <1>3, CapturedIsStatement DEF apiVars
  <2>2. ASSUME NEW d \in Call
        PROVE  Shape(d)' /\ Authorized(d)' /\ Lasting(d)' /\ Resolving(d)'
    <3>1. Shape(d) /\ Authorized(d) /\ Lasting(d) /\ Resolving(d)
      BY Begins
    <3>2. Shape(d)' /\ Lasting(d)'
      BY <2>1, <3>1 DEF Shape, Lasting, Applied
    <3>3. Authorized(d)'
      BY <2>1, <3>1 DEF Shape, Authorized
    <3>4. Resolving(d)'
      BY <2>1, <3>1 DEF Resolving, HandedOut, Held, Revoked
    <3>. QED
      BY <3>2, <3>3, <3>4
  <2>. QED
    BY <1>1, <2>1, <2>2 DEF APIIInv
<1>. QED
  BY <1>2, <1>3 DEF APINext, Handles

LEMMA APIInvariance == APISpec => []APIIInv
  BY InitAPIIInv, APINextKeepsIInv, PTL DEF APISpec

-----------------------------------------------------------------------------
(* The state of the handlers and the tables below them keep their types;   *)
(* in particular no handler tries more tokens than allowed.                *)
THEOREM APITypesCorrect == APISpec => []APITypeOK
<1>1. APIIInv => APITypeOK
  BY DEF APIIInv, StoreInv, APITypeOK
<1>. QED
  BY <1>1, APIInvariance, PTL

(* Nothing of an inbox changes but by its owner's call, although the check *)
(* of the owner and the change are statements of different moments.        *)
THEOREM OwnersOnly == APISpec => OnlyOwnerChanges
<1>1. ASSUME APIIInv, [APINext]_apiVars, NEW i \in LiveInboxes,
             inbox'[i] # inbox[i] \/ \E e \in EventsOf(i) : event'[e] # event[e]
      PROVE  \E c \in Call : call'[c] # call[c] /\ call[c].owner = inbox[i].owner
  <2>1. i \in InboxId /\ inbox[i].st = "live"
    BY DEF LiveInboxes
  <2>2. ~ Captured /\ ~ UNCHANGED apiVars
    <3>1. \A e \in EventsOf(i) : e \in EventId /\ event[e].st = "live"
      BY DEF EventsOf, LiveEvents
    <3>. QED
      BY <1>1, <3>1, CapturedIsStatement DEF apiVars
  <2>3. PICK c \in Call : Advances(c)
    BY <1>1, <2>2, HandlesAdvances DEF APINext, Handles
  <2>4. Shape(c) /\ Authorized(c) /\ Shape(c)'
    BY <1>1, <2>3, Begins DEF Advances
  <2>5. call[c].pc = "act" /\ call[c].inbox = i
    <3>1. CASE inbox'[i] # inbox[i]
      BY <1>1, <2>1, <2>3, <3>1, InboxEffects DEF Advances
    <3>2. ASSUME NEW e \in EventsOf(i), event'[e] # event[e]
          PROVE  call[c].pc = "act" /\ call[c].inbox = i
      <4>1. e \in EventId /\ event[e].st = "live" /\ event[e].inbox = i
        BY <3>2 DEF EventsOf, LiveEvents
      <4>2. EventRemoved(c, e)
        BY <2>3, <3>2, <4>1 DEF Advances, Writes
      <4>. QED
        BY <2>4, <4>1, <4>2 DEF EventRemoved, Authorized
    <3>. QED
      BY <1>1, <3>1, <3>2
  <2>6. call[c].owner = inbox[i].owner
    BY <2>1, <2>4, <2>5 DEF Authorized
  <2>7. call'[c] # call[c]
    BY <1>1, <2>3 DEF Advances, Moves
  <2>. QED
    BY <2>6, <2>7
<1>2. APIIInv /\ [APINext]_apiVars =>
        [\A i \in LiveInboxes :
            \/ inbox'[i] # inbox[i]
            \/ \E e \in EventsOf(i) : event'[e] # event[e]
            => \E c \in Call : call'[c] # call[c] /\ call[c].owner = inbox[i].owner
        ]_apiVars
  BY <1>1
<1>. QED
  BY <1>2, APIInvariance, PTL DEF APISpec, OnlyOwnerChanges

(* Concurrent patches lose no update: the comment of UpdateInbox.          *)
THEOREM UpdatesLast == APISpec => []NoLostUpdate
<1>1. ASSUME APIIInv PROVE NoLostUpdate
  <2>1. \A c \in Call : Lasting(c)
    BY <1>1 DEF APIIInv
  <2>. QED
    BY <2>1 DEF Lasting, NoLostUpdate, LiveInboxes
<1>. QED
  BY <1>1, APIInvariance, PTL

(* Of the tokens answered for an inbox one is the inbox's, unless it was   *)
(* deleted or a rotation's answer was lost.                                *)
THEOREM TokensResolve == APISpec => []AnsweredTokenResolves
<1>1. ASSUME APIIInv PROVE AnsweredTokenResolves
  <2>1. \A c \in Call : Resolving(c) /\ Shape(c)
    BY <1>1 DEF APIIInv
  <2>. QED
    BY <2>1 DEF Resolving, Held, HandedOut, Shape, AnsweredTokenResolves, LiveInboxes
<1>. QED
  BY <1>1, APIInvariance, PTL

(* The handlers use the tables as Store allows.                            *)
THEOREM APIImplementsStore == APISpec => StoreSpec
<1>1. APIInit => StoreInit
  BY DEF APIInit
<1>2. APIIInv /\ [APINext]_apiVars => [StoreNext]_storeVars
  BY APIKeepsTables
<1>. QED
  BY <1>1, <1>2, APIInvariance, PTL DEF APISpec, StoreSpec
=============================================================================
