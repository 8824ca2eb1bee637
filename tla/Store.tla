------------------------------- MODULE Store -------------------------------
(***************************************************************************)
(* The storage contract every other component relies on: the tables inbox, *)
(* event and replay_attempt of the PostgreSQL driver                       *)
(* (internal/storage/postgres/postgres.go and migrations/0001_init.sql),   *)
(* one action per SQL statement.  A statement is atomic; a method of       *)
(* several statements is several actions.  A statement that fails leaves   *)
(* the tables alone: the callers' modules model what they do with errors.  *)
(*                                                                         *)
(* Abstracted: the columns no property reads (name, headers, bodies,       *)
(* timings, previews).  The slot of a deleted row is marked "gone", so     *)
(* that an id, a random UUID, is never used twice.                         *)
(***************************************************************************)
EXTENDS Integers, FiniteSets

CONSTANTS
    InboxId,   \* ids of inboxes
    EventId,   \* ids of events: naturals, ORDER BY ... id compares them
    ReplayId,  \* ids of replay attempts
    Token,     \* receive tokens
    Owner,     \* owner keys (tenants)
    Secret,    \* signing secrets
    None,      \* SQL NULL
    Keep,      \* values of retention_max_events, 0 is "no limit"
    Days,      \* values of retention_max_days, 0 is "no limit"
    Configs,   \* the settings inboxes are created with
    Patches,   \* the patches PATCH sends
    MaxNo,     \* bound of the model: the largest attempt_no
    MaxClock   \* bound of the model: the clock stops here

VARIABLES
    inbox,   \* inbox[i]: the row of table inbox with id i
    event,   \* event[e]: the row of table event with id e
    replay,  \* replay[a]: the row of table replay_attempt with id a
    clock    \* the database's now(), in the unit of retention_max_days

storeVars == <<inbox, event, replay, clock>>

-----------------------------------------------------------------------------
(* The columns PATCH may change that the properties tell apart.            *)
Column == {"enabled", "secret", "require", "keep", "days"}
Settings == [enabled : BOOLEAN, secret : Secret \cup {None},
             require : BOOLEAN, keep : Keep, days : Days]

(* A patch names the columns it carries (the non-nil fields of InboxPatch) *)
(* and their values; the others are ignored.                               *)
Patch == [cols : SUBSET Column, val : Settings]

(* Mutant: the UPDATE writes every column.                                 *)
PatchedWhole(s, p) == p.val

Patched(s, p) ==
    [enabled |-> IF "enabled" \in p.cols THEN p.val.enabled ELSE s.enabled,
     secret  |-> IF "secret"  \in p.cols THEN p.val.secret  ELSE s.secret,
     require |-> IF "require" \in p.cols THEN p.val.require ELSE s.require,
     keep    |-> IF "keep"    \in p.cols THEN p.val.keep    ELSE s.keep,
     days    |-> IF "days"    \in p.cols THEN p.val.days    ELSE s.days]

(* event.signature_valid: NULL when it was not verified.                   *)
SignatureValid == BOOLEAN \cup {None}

InboxRow  == [st : {"live"}, owner : Owner, token : Token, cfg : Settings]
EventRow  == [st : {"live"}, inbox : InboxId, at : Nat, valid : SignatureValid]
ReplayRow == [st : {"live"}, event : EventId, inbox : InboxId, no : Nat,
              retryOf : ReplayId \cup {None}]

ASSUME StoreAssumption ==
    /\ EventId \subseteq Nat /\ IsFiniteSet(EventId)
    /\ Keep \subseteq Nat /\ Days \subseteq Nat
    /\ None \notin Secret \cup Token \cup InboxId \cup EventId \cup ReplayId
    /\ Configs \subseteq Settings
    /\ Patches \subseteq Patch
    /\ MaxNo \in Nat /\ MaxClock \in Nat

(* An id without a row: never inserted yet, or deleted.                    *)
NoRow(st) == [st |-> st]
Missing == {NoRow("fresh"), NoRow("gone")}

LiveInboxes == {i \in InboxId : inbox[i].st = "live"}
LiveEvents  == {e \in EventId : event[e].st = "live"}
LiveReplays == {a \in ReplayId : replay[a].st = "live"}
EventsOf(i) == {e \in LiveEvents : event[e].inbox = i}

(* UNIQUE (token): what an INSERT or UPDATE setting i's token to t needs.  *)
TokenFree(i, t) == \A j \in LiveInboxes \ {i} : inbox[j].token # t

(* ORDER BY created_at DESC, id DESC.                                      *)
Newer(e, f) == \/ event[e].at > event[f].at
               \/ event[e].at = event[f].at /\ e > f

-----------------------------------------------------------------------------
(* Inboxes.                                                                *)

(* Mutant: no UNIQUE (token).                                              *)
CreateInboxUnchecked(i, o, t, s) ==
    /\ inbox[i].st = "fresh"
    /\ inbox' = [inbox EXCEPT ![i] =
                    [st |-> "live", owner |-> o, token |-> t, cfg |-> s]]
    /\ UNCHANGED <<event, replay, clock>>

CreateInbox(i, o, t, s) ==
    /\ inbox[i].st = "fresh"
    /\ TokenFree(i, t)
    /\ inbox' = [inbox EXCEPT ![i] =
                    [st |-> "live", owner |-> o, token |-> t, cfg |-> s]]
    /\ UNCHANGED <<event, replay, clock>>

(* One UPDATE of the columns the patch names; RowsAffected = 0 without a   *)
(* row.                                                                    *)
UpdateInbox(i, p) ==
    /\ inbox[i].st = "live"
    /\ inbox' = [inbox EXCEPT ![i].cfg = Patched(inbox[i].cfg, p)]
    /\ UNCHANGED <<event, replay, clock>>

(* One UPDATE of one of the five tries with a new random token.            *)
RotateToken(i, t) ==
    /\ inbox[i].st = "live"
    /\ TokenFree(i, t)
    /\ inbox' = [inbox EXCEPT ![i].token = t]
    /\ UNCHANGED <<event, replay, clock>>

(* What the foreign keys of replay_attempt do when events E and the        *)
(* replays' inboxes I go: event_id and inbox_id cascade, retry_of is set   *)
(* to NULL.                                                                *)
CascadedReplays(E, I) ==
    {a \in LiveReplays : replay[a].event \in E \/ replay[a].inbox \in I}

(* Mutant: retry_of has no ON DELETE SET NULL.                             *)
RemoveReplaysOnly(R) ==
    replay' = [a \in ReplayId |-> IF a \in R THEN NoRow("gone") ELSE replay[a]]

RemoveReplays(R) ==
    replay' = [a \in ReplayId |->
                 IF a \in R THEN NoRow("gone")
                 ELSE IF a \in LiveReplays /\ replay[a].retryOf \in R
                      THEN [replay[a] EXCEPT !.retryOf = None]
                      ELSE replay[a]]

RemoveEvents(E) ==
    event' = [e \in EventId |->
                IF e \in E THEN NoRow("gone") ELSE event[e]]

DeleteInbox(i) ==
    /\ inbox[i].st = "live"
    /\ inbox' = [inbox EXCEPT ![i] = NoRow("gone")]
    /\ RemoveEvents(EventsOf(i))
    /\ RemoveReplays(CascadedReplays(EventsOf(i), {i}))
    /\ UNCHANGED clock

-----------------------------------------------------------------------------
(* Events.  The caller stamps created_at, so rows may arrive out of order. *)

CreateEvent(e, i, at, valid) ==
    /\ event[e].st = "fresh"
    /\ inbox[i].st = "live"
    /\ event' = [event EXCEPT ![e] =
                    [st |-> "live", inbox |-> i, at |-> at, valid |-> valid]]
    /\ UNCHANGED <<inbox, replay, clock>>

DeleteEvents(E) ==
    /\ RemoveEvents(E)
    /\ RemoveReplays(CascadedReplays(E, {}))
    /\ UNCHANGED <<inbox, clock>>

DeleteEvent(e) ==
    /\ event[e].st = "live"
    /\ DeleteEvents({e})

DeleteInboxEvents(i) == DeleteEvents(EventsOf(i))

(* The two statements of PruneEvents.  Each is skipped for a limit <= 0.   *)
TooOld(i, days) == {e \in EventsOf(i) : event[e].at < clock - days}

(* Mutant: off by one, OFFSET keep - 1.                                    *)
TooManyByOne(i, keep) ==
    {e \in EventsOf(i) : Cardinality({f \in EventsOf(i) : Newer(f, e)}) >= keep - 1}

TooMany(i, keep) ==
    {e \in EventsOf(i) : Cardinality({f \in EventsOf(i) : Newer(f, e)}) >= keep}

PruneByAge(i, days) == days > 0 /\ DeleteEvents(TooOld(i, days))
PruneByCount(i, keep) == keep > 0 /\ DeleteEvents(TooMany(i, keep))

-----------------------------------------------------------------------------
(* Replay attempts.                                                        *)

(* attempt_no defaults to 1.  Mutant: attempts counted from 0 below it.     *)
AttemptNoFromZero(no) == no - 1

AttemptNo(no) == IF no = 0 THEN 1 ELSE no

CreateReplay(a, e, i, no, retryOf) ==
    /\ replay[a].st = "fresh"
    /\ event[e].st = "live"
    /\ inbox[i].st = "live"
    /\ retryOf \in LiveReplays \cup {None}
    /\ replay' = [replay EXCEPT ![a] =
                     [st |-> "live", event |-> e, inbox |-> i,
                      no |-> AttemptNo(no), retryOf |-> retryOf]]
    /\ UNCHANGED <<inbox, event, clock>>

-----------------------------------------------------------------------------
Tick == /\ clock < MaxClock
        /\ clock' = clock + 1
        /\ UNCHANGED <<inbox, event, replay>>

(* A server starts over the inboxes an earlier one left.                   *)
StoreInit ==
    /\ inbox \in [InboxId -> {NoRow("fresh")} \cup
          [st : {"live"}, owner : Owner, token : Token, cfg : Configs]]
    /\ \A i \in LiveInboxes : TokenFree(i, inbox[i].token)
    /\ event = [e \in EventId |-> NoRow("fresh")]
    /\ replay = [a \in ReplayId |-> NoRow("fresh")]
    /\ clock = 0

(* The tables under any sequence of statements the driver may send.        *)
StoreNext ==
    \/ \E i \in InboxId :
         \/ \E o \in Owner, t \in Token, s \in Configs : CreateInbox(i, o, t, s)
         \/ \E p \in Patches : UpdateInbox(i, p)
         \/ \E t \in Token : RotateToken(i, t)
         \/ DeleteInbox(i)
         \/ DeleteInboxEvents(i)
         \/ \E d \in Days : PruneByAge(i, d)
         \/ \E k \in Keep : PruneByCount(i, k)
    \/ \E e \in EventId :
         \/ \E i \in InboxId, v \in SignatureValid, at \in 0 .. clock :
               CreateEvent(e, i, at, v)
         \/ DeleteEvent(e)
         \/ \E a \in ReplayId, i \in InboxId, no \in 0 .. MaxNo,
               r \in ReplayId \cup {None} : CreateReplay(a, e, i, no, r)
    \/ Tick

StoreSpec == StoreInit /\ [][StoreNext]_storeVars

-----------------------------------------------------------------------------
(* The tables hold rows of their types.                                    *)
StoreTypeOK ==
    /\ inbox \in [InboxId -> InboxRow \cup Missing]
    /\ event \in [EventId -> EventRow \cup Missing]
    /\ replay \in [ReplayId -> ReplayRow \cup Missing]
    /\ clock \in Nat

(* No row ever refers to a row that is gone, whatever cascade or SET NULL  *)
(* a DELETE of an inbox, an event or a prune has to run: the foreign keys  *)
(* of 0001_init.sql, across all three tables.                              *)
ReferencesHold ==
    /\ \A e \in LiveEvents : event[e].inbox \in LiveInboxes
    /\ \A a \in LiveReplays :
         /\ replay[a].event \in LiveEvents
         /\ replay[a].inbox \in LiveInboxes
         /\ replay[a].retryOf \in LiveReplays \cup {None}

(* A receive token resolves to at most one inbox, through any order of     *)
(* creations, rotations and deletions: a webhook is never captured for two *)
(* inboxes.                                                                *)
TokensUnique ==
    \A i, j \in LiveInboxes : inbox[i].token = inbox[j].token => i = j
============================================================================
