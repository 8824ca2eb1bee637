----------------------------- MODULE InboxAPI -----------------------------
(***************************************************************************)
(* The REST handlers that change inboxes and delete events                 *)
(* (internal/httpapi/inbox.go, event.go, api.go), as concurrent calls over *)
(* Store.  A handler checks the owner with one statement and acts with a   *)
(* later one, so other calls, and captures, run in between.                *)
(*                                                                         *)
(* Abstracted: request validation before the first statement (it touches   *)
(* no state), read-only handlers, DTOs and masking.                        *)
(***************************************************************************)
EXTENDS Store

CONSTANTS
    Call,     \* concurrent API calls
    MaxTries  \* tokens tried before giving up (5 in the code)

VARIABLE call  \* call[c]: the state of one handler

apiVars == <<inbox, event, replay, clock, call>>

-----------------------------------------------------------------------------
Op == {"create", "patch", "delete", "rotate", "clear", "deleteEvent"}
Pc == {"idle", "insert", "event", "check", "act", "reread", "done"}

(* 200 stands for the success status of the handler (200, 201 or 204).     *)
Status == {200, 404, 409, 500}
Answer == Status \cup {None}   \* None: not answered yet

ASSUME InboxAPIAssumption ==
    MaxTries \in Nat \ {0} /\ None \notin Op /\ None \notin Status

CallRow == [pc : Pc, op : Op \cup {None}, owner : Owner \cup {None},
            inbox : InboxId \cup {None}, event : EventId \cup {None},
            patch : Patches \cup {None}, token : Token \cup {None},
            tries : 0 .. MaxTries, ans : Answer]

Idle == [pc |-> "idle", op |-> None, owner |-> None, inbox |-> None,
         event |-> None, patch |-> None, token |-> None, tries |-> 0,
         ans |-> None]

APIInit == StoreInit /\ call = [c \in Call |-> Idle]

GoTo(c, pc) == call' = [call EXCEPT ![c].pc = pc]
Reply(c, ans) == call' = [call EXCEPT ![c] = [@ EXCEPT !.pc = "done", !.ans = ans]]

(* The answer carries the token of the inbox.                              *)
ReplyToken(c, t) ==
    call' = [call EXCEPT ![c] = [@ EXCEPT !.pc = "done", !.ans = 200, !.token = t]]

-----------------------------------------------------------------------------
(* A request arrives and passes validation.  Inbox ids come from the URL:  *)
(* any id, the caller's own or not, existing or not.                       *)
Begin(c) ==
    /\ call[c].pc = "idle"
    /\ \E op \in Op, o \in Owner :
         \/ /\ op = "create"
            /\ \E i \in InboxId :
                 /\ inbox[i].st = "fresh"
                 /\ \A d \in Call : call[d].op = "create" => call[d].inbox # i
                 /\ call' = [call EXCEPT ![c] =
                       [Idle EXCEPT !.pc = "insert", !.op = op, !.owner = o,
                                    !.inbox = i]]
         \/ /\ op \in {"delete", "rotate", "clear"}
            /\ \E i \in InboxId :
                 call' = [call EXCEPT ![c] =
                    [Idle EXCEPT !.pc = "check", !.op = op, !.owner = o,
                                 !.inbox = i]]
         \/ /\ op = "patch"
            /\ \E i \in InboxId, p \in Patches :
                 call' = [call EXCEPT ![c] =
                    [Idle EXCEPT !.pc = "check", !.op = op, !.owner = o,
                                 !.inbox = i, !.patch = p]]
         \/ /\ op = "deleteEvent"
            /\ \E e \in EventId :
                 call' = [call EXCEPT ![c] =
                    [Idle EXCEPT !.pc = "event", !.op = op, !.owner = o,
                                 !.event = e]]
    /\ UNCHANGED storeVars

(* A token was taken: the next try, or ans after the last one.             *)
(* Mutants: a try too many; a success after the last try.                  *)
CollisionOneMore(c, ans) ==
    LET n == call[c].tries + 1 IN
    call' = [call EXCEPT ![c] =
               [@ EXCEPT !.tries = n,
                         !.pc = IF n <= MaxTries THEN call[c].pc ELSE "done",
                         !.ans = IF n <= MaxTries THEN None ELSE ans]]

CollisionForgotten(c, ans) ==
    LET n == call[c].tries + 1 IN
    call' = [call EXCEPT ![c] =
               [@ EXCEPT !.tries = n,
                         !.pc = IF n < MaxTries THEN call[c].pc ELSE "done",
                         !.ans = IF n < MaxTries THEN None ELSE 200]]

Collision(c, ans) ==
    LET n == call[c].tries + 1 IN
    call' = [call EXCEPT ![c] =
               [@ EXCEPT !.tries = n,
                         !.pc = IF n < MaxTries THEN call[c].pc ELSE "done",
                         !.ans = IF n < MaxTries THEN None ELSE ans]]

(* createInbox: one CreateInbox per token.  After a collision the loop     *)
(* draws the next token with "token, err = NewToken()", which clears err:  *)
(* when the last try collides too the handler answers 201.                 *)
Insert(c) ==
    /\ call[c].pc = "insert"
    /\ \E t \in Token :
         \/ /\ \E s \in Configs : CreateInbox(call[c].inbox, call[c].owner, t, s)
            /\ ReplyToken(c, t)
         \/ /\ ~TokenFree(call[c].inbox, t)
            /\ Collision(c, 200)
            /\ UNCHANGED storeVars

(* ownedEvent, first statement: the event's inbox.                         *)
FindEvent(c) ==
    /\ call[c].pc = "event"
    /\ LET e == call[c].event IN
         \/ /\ e \in LiveEvents
            /\ call' = [call EXCEPT ![c] = [@ EXCEPT !.pc = "check",
                                                     !.inbox = event[e].inbox]]
         \/ e \notin LiveEvents /\ Reply(c, 404)
    /\ UNCHANGED storeVars

(* ownedInbox (and the second statement of ownedEvent): a foreign inbox is *)
(* reported like a missing one.                                            *)
(* Mutant: any tenant will do.                                             *)
OwnedByAnyone(c) == call[c].inbox \in LiveInboxes

Owned(c) == /\ call[c].inbox \in LiveInboxes
            /\ inbox[call[c].inbox].owner = call[c].owner

CheckOwner(c) ==
    /\ call[c].pc = "check"
    /\ IF Owned(c) THEN GoTo(c, "act") ELSE Reply(c, 404)
    /\ UNCHANGED storeVars

-----------------------------------------------------------------------------
(* The statement that changes something, one action per handler.  The row  *)
(* may have gone since the check.                                          *)
PatchInbox(c) ==
    /\ call[c].pc = "act" /\ call[c].op = "patch"
    /\ \/ UpdateInbox(call[c].inbox, call[c].patch) /\ GoTo(c, "reread")
       \/ /\ call[c].inbox \notin LiveInboxes
          /\ Reply(c, 404)
          /\ UNCHANGED storeVars

(* patchInbox answers with the row read back, not with what it wrote.      *)
Reread(c) ==
    /\ call[c].pc = "reread"
    /\ Reply(c, IF call[c].inbox \in LiveInboxes THEN 200 ELSE 404)
    /\ UNCHANGED storeVars

RemoveInbox(c) ==
    /\ call[c].pc = "act" /\ call[c].op = "delete"
    /\ \/ DeleteInbox(call[c].inbox) /\ Reply(c, 200)
       \/ /\ call[c].inbox \notin LiveInboxes
          /\ Reply(c, 404)
          /\ UNCHANGED storeVars

(* RotateToken of the store: one UPDATE per random token.                  *)
Rotate(c) ==
    /\ call[c].pc = "act" /\ call[c].op = "rotate"
    /\ \E t \in Token :
         \/ RotateToken(call[c].inbox, t) /\ ReplyToken(c, t)
         \/ /\ call[c].inbox \in LiveInboxes
            /\ ~TokenFree(call[c].inbox, t)
            /\ Collision(c, 409)
            /\ UNCHANGED storeVars
         \/ /\ call[c].inbox \notin LiveInboxes
            /\ Reply(c, 404)
            /\ UNCHANGED storeVars

ClearEvents(c) ==
    /\ call[c].pc = "act" /\ call[c].op = "clear"
    /\ DeleteInboxEvents(call[c].inbox)
    /\ Reply(c, 200)

RemoveEvent(c) ==
    /\ call[c].pc = "act" /\ call[c].op = "deleteEvent"
    /\ \/ DeleteEvent(call[c].event) /\ Reply(c, 200)
       \/ /\ call[c].event \notin LiveEvents
          /\ Reply(c, 404)
          /\ UNCHANGED storeVars

(* Any statement may fail before it has an effect; ownedEvent takes a      *)
(* failure to read the inbox for a foreign one.                            *)
Fail(c) ==
    /\ call[c].pc \notin {"idle", "done"}
    /\ Reply(c, IF call[c].op = "deleteEvent" /\ call[c].pc = "check" THEN 404 ELSE 500)
    /\ UNCHANGED storeVars

(* A statement took effect, but the driver reports an error: the request's *)
(* context ended or the connection broke while it ran.                     *)
LostAnswer(c) ==
    /\ \/ /\ call[c].pc = "insert"
          /\ \E t \in Token, s \in Configs :
                CreateInbox(call[c].inbox, call[c].owner, t, s)
       \/ /\ call[c].pc = "act"
          /\ \/ call[c].op = "patch" /\ UpdateInbox(call[c].inbox, call[c].patch)
             \/ call[c].op = "delete" /\ DeleteInbox(call[c].inbox)
             \/ call[c].op = "rotate" /\ \E t \in Token : RotateToken(call[c].inbox, t)
             \/ call[c].op = "clear" /\ DeleteInboxEvents(call[c].inbox)
             \/ call[c].op = "deleteEvent" /\ DeleteEvent(call[c].event)
    /\ Reply(c, 500)

(* The capture endpoint adds events meanwhile (module Capture).            *)
Captured ==
    /\ \E e \in EventId, i \in LiveInboxes : CreateEvent(e, i, clock, None)
    /\ UNCHANGED call

APINext ==
    \/ \E c \in Call :
         \/ Begin(c) \/ Insert(c) \/ FindEvent(c) \/ CheckOwner(c)
         \/ PatchInbox(c) \/ Reread(c) \/ RemoveInbox(c) \/ Rotate(c)
         \/ ClearEvents(c) \/ RemoveEvent(c) \/ Fail(c) \/ LostAnswer(c)
    \/ Captured

APISpec == APIInit /\ [][APINext]_apiVars

-----------------------------------------------------------------------------
APITypeOK ==
    /\ StoreTypeOK
    /\ call \in [Call -> CallRow]

(* Nothing of an inbox changes, neither its row nor its events, unless the *)
(* step is one of its owner's calls (or a capture adding an event): the    *)
(* owner is checked by an earlier statement than the one that acts.        *)
OnlyOwnerChanges ==
    [][\A i \in LiveInboxes :
          \/ inbox'[i] # inbox[i]
          \/ \E e \in EventsOf(i) : event'[e] # event[e]
          => \E c \in Call : call'[c] # call[c] /\ call[c].owner = inbox[i].owner
      ]_apiVars

(* Concurrent patches never undo each other: a column that only one patch  *)
(* of the inbox names keeps the value that patch gave it, whatever the     *)
(* others write and in whatever order (the comment of UpdateInbox).        *)
Applied(c) == /\ call[c].op = "patch"
              /\ call[c].pc = "reread" \/ call[c].ans = 200

NoLostUpdate ==
    \A c \in Call :
       Applied(c) /\ call[c].inbox \in LiveInboxes =>
          \A col \in call[c].patch.cols :
             \/ inbox[call[c].inbox].cfg[col] = call[c].patch.val[col]
             \/ \E d \in Call \ {c} : /\ call[d].op = "patch"
                                      /\ call[d].inbox = call[c].inbox
                                      /\ col \in call[d].patch.cols

(* The call answered with a token.  Creations that exhausted their tries   *)
(* are the exception CreatedIsStored is about.                             *)
HandedOut(c) ==
    /\ call[c].op \in {"create", "rotate"} /\ call[c].ans = 200
    /\ call[c].op = "create" => call[c].tries < MaxTries

(* A deletion, or a rotation that answered with an error: it may have      *)
(* replaced the token all the same.                                        *)
Revoked(i) ==
    \E d \in Call :
       /\ call[d].inbox = i
       /\ \/ call[d].op = "rotate" /\ call[d].ans = 500
          \/ call[d].op = "delete" /\ call[d].ans \in {200, 500}

(* However creations and rotations of one inbox interleave, somebody was   *)
(* handed the URL it listens on, unless it was deleted or an answer was    *)
(* lost: the token answered is the one the last try stored, and no inbox   *)
(* is left with a token nobody knows.                                      *)
AnsweredTokenResolves ==
    \A c \in Call :
       HandedOut(c) /\ ~Revoked(call[c].inbox) =>
          /\ call[c].inbox \in LiveInboxes
          /\ \E d \in Call : /\ HandedOut(d) /\ call[d].inbox = call[c].inbox
                            /\ call[d].token = inbox[call[c].inbox].token

(* createInbox answers "token_taken" when it cannot allocate a unique      *)
(* token, so an answered creation is a stored inbox (inbox.go:194-198).    *)
CreatedIsStored ==
    \A c \in Call :
       call[c].op = "create" /\ call[c].ans = 200 =>
          inbox[call[c].inbox].st # "fresh"
=============================================================================
