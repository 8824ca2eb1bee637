---------------------------- MODULE StoreProofs ----------------------------
(***************************************************************************)
(* Proofs about Store, for every set of ids, tokens, settings and patches. *)
(* There is one lemma per statement, for any arguments of the right types: *)
(* the modules of the handlers, whose steps are these statements with the  *)
(* arguments the handlers compute, can cite them too.                      *)
(***************************************************************************)
EXTENDS Store, TLAPS

(* The three invariants are inductive together: the cascades need the      *)
(* references to hold before the step, and both need the rows' types.      *)
StoreInv == StoreTypeOK /\ ReferencesHold /\ TokensUnique

-----------------------------------------------------------------------------
(* Rows and the marks that stand for the lack of one.                      *)
LEMMA MissingRows ==
    /\ NoRow("fresh").st = "fresh" /\ NoRow("gone").st = "gone"
    /\ NoRow("fresh") \in Missing /\ NoRow("gone") \in Missing
    /\ \A r \in Missing : r.st # "live"
  BY DEF NoRow, Missing

(* A live row has its columns.                                             *)
LEMMA LiveRows ==
    ASSUME StoreTypeOK
    PROVE  /\ \A i \in LiveInboxes : i \in InboxId /\ inbox[i] \in InboxRow
           /\ \A e \in LiveEvents : e \in EventId /\ event[e] \in EventRow
           /\ \A a \in LiveReplays : a \in ReplayId /\ replay[a] \in ReplayRow
  BY MissingRows DEF StoreTypeOK, LiveInboxes, LiveEvents, LiveReplays

(* A patch applied to settings gives settings.                             *)
LEMMA PatchedSettings ==
    ASSUME NEW s \in Settings, NEW p \in Patch
    PROVE  Patched(s, p) \in Settings
  BY DEF Settings, Patch, Patched

(* What RemoveEvents leaves.                                               *)
LEMMA EventsLeft ==
    ASSUME StoreTypeOK, NEW E \in SUBSET EventId, RemoveEvents(E)
    PROVE  /\ event' \in [EventId -> EventRow \cup Missing]
           /\ LiveEvents' = LiveEvents \ E
           /\ \A e \in LiveEvents' : event'[e] = event[e]
<1>1. event' \in [EventId -> EventRow \cup Missing]
  BY MissingRows DEF StoreTypeOK, RemoveEvents
<1>2. \A e \in EventId :
         /\ e \in E => event'[e] = NoRow("gone")
         /\ e \notin E => event'[e] = event[e]
  BY DEF RemoveEvents
<1>3. LiveEvents' = LiveEvents \ E
  BY <1>2, MissingRows DEF LiveEvents
<1>. QED
  BY <1>1, <1>2, <1>3 DEF LiveEvents

(* What RemoveReplays leaves: the rows outside R, their retry_of set to    *)
(* NULL where it named a row of R.                                         *)
LEMMA ReplaysLeft ==
    ASSUME StoreTypeOK, NEW R \in SUBSET ReplayId, RemoveReplays(R)
    PROVE  /\ replay' \in [ReplayId -> ReplayRow \cup Missing]
           /\ LiveReplays' = LiveReplays \ R
           /\ \A a \in LiveReplays' :
                /\ replay'[a].event = replay[a].event
                /\ replay'[a].inbox = replay[a].inbox
                /\ replay'[a].no = replay[a].no
                /\ \/ replay'[a].retryOf = None
                   \/ /\ replay'[a].retryOf = replay[a].retryOf
                      /\ replay[a].retryOf \notin R
<1>1. ASSUME NEW a \in ReplayId
      PROVE  replay'[a] = IF a \in R THEN NoRow("gone")
                          ELSE IF a \in LiveReplays /\ replay[a].retryOf \in R
                               THEN [replay[a] EXCEPT !.retryOf = None]
                               ELSE replay[a]
  BY DEF RemoveReplays
<1>2. ASSUME NEW a \in LiveReplays
      PROVE  /\ [replay[a] EXCEPT !.retryOf = None] \in ReplayRow
             /\ [replay[a] EXCEPT !.retryOf = None].st = "live"
             /\ [replay[a] EXCEPT !.retryOf = None].event = replay[a].event
             /\ [replay[a] EXCEPT !.retryOf = None].inbox = replay[a].inbox
             /\ [replay[a] EXCEPT !.retryOf = None].no = replay[a].no
             /\ [replay[a] EXCEPT !.retryOf = None].retryOf = None
  BY LiveRows DEF ReplayRow
<1>3. ASSUME NEW a \in ReplayId
      PROVE  replay'[a] \in ReplayRow \cup Missing
  BY <1>1, <1>2, MissingRows DEF StoreTypeOK
<1>4. replay' \in [ReplayId -> ReplayRow \cup Missing]
  BY <1>3 DEF RemoveReplays
<1>5. LiveReplays' = LiveReplays \ R
  BY <1>1, <1>2, MissingRows DEF LiveReplays
<1>6. ASSUME NEW a \in LiveReplays'
      PROVE  /\ replay'[a].event = replay[a].event
             /\ replay'[a].inbox = replay[a].inbox
             /\ replay'[a].no = replay[a].no
             /\ \/ replay'[a].retryOf = None
                \/ /\ replay'[a].retryOf = replay[a].retryOf
                   /\ replay[a].retryOf \notin R
  <2>1. a \in LiveReplays \ R /\ a \in ReplayId
    BY <1>5 DEF LiveReplays
  <2>. QED
    BY <1>1, <1>2, <2>1
<1>. QED
  BY <1>4, <1>5, <1>6

-----------------------------------------------------------------------------
(* One lemma per statement.                                                *)

LEMMA InitStoreInv == StoreInit => StoreInv
<1>. SUFFICES ASSUME StoreInit PROVE StoreInv
  OBVIOUS
<1>1. StoreTypeOK
  BY MissingRows, StoreAssumption DEF StoreInit, StoreTypeOK, InboxRow
<1>2. LiveEvents = {} /\ LiveReplays = {}
  BY MissingRows DEF StoreInit, LiveEvents, LiveReplays
<1>3. TokensUnique
  BY DEF StoreInit, TokensUnique, TokenFree
<1>. QED
  BY <1>1, <1>2, <1>3 DEF StoreInv, ReferencesHold

(* CreateInbox, UpdateInbox and RotateToken write one row of inbox.        *)
LEMMA WrittenInboxKeepsInv ==
    ASSUME StoreInv, NEW i \in InboxId, NEW row \in InboxRow,
           TokenFree(i, row.token),
           inbox' = [inbox EXCEPT ![i] = row],
           UNCHANGED <<event, replay, clock>>
    PROVE  StoreInv'
<1>1. StoreTypeOK /\ ReferencesHold /\ TokensUnique
  BY DEF StoreInv
<1>2. row.st = "live"
  BY DEF InboxRow
<1>3. /\ inbox'[i] = row
      /\ \A j \in InboxId \ {i} : inbox'[j] = inbox[j]
  BY <1>1 DEF StoreTypeOK
<1>4. LiveInboxes' = LiveInboxes \cup {i}
  BY <1>2, <1>3 DEF LiveInboxes
<1>5. LiveEvents' = LiveEvents /\ LiveReplays' = LiveReplays
  BY DEF LiveEvents, LiveReplays
<1>6. StoreTypeOK'
  BY <1>1 DEF StoreTypeOK
<1>7. ReferencesHold'
  BY <1>1, <1>4, <1>5 DEF ReferencesHold
<1>8. TokensUnique'
  BY <1>1, <1>3, <1>4 DEF TokensUnique, TokenFree, LiveInboxes
<1>. QED
  BY <1>6, <1>7, <1>8 DEF StoreInv

LEMMA CreateInboxKeepsInv ==
    ASSUME StoreInv, NEW i \in InboxId, NEW o \in Owner, NEW t \in Token,
           NEW s \in Settings, CreateInbox(i, o, t, s)
    PROVE  StoreInv'
<1>. DEFINE row == [st |-> "live", owner |-> o, token |-> t, cfg |-> s]
<1>1. row \in InboxRow /\ row.token = t
  BY DEF InboxRow
<1>2. /\ TokenFree(i, t) /\ inbox' = [inbox EXCEPT ![i] = row]
      /\ UNCHANGED <<event, replay, clock>>
  BY DEF CreateInbox
<1>. QED
  BY <1>1, <1>2, WrittenInboxKeepsInv

LEMMA UpdateInboxKeepsInv ==
    ASSUME StoreInv, NEW i \in InboxId, NEW p \in Patch, UpdateInbox(i, p)
    PROVE  StoreInv'
<1>. DEFINE row == [inbox[i] EXCEPT !.cfg = Patched(inbox[i].cfg, p)]
<1>1. i \in LiveInboxes /\ inbox[i] \in InboxRow
  BY LiveRows DEF UpdateInbox, LiveInboxes, StoreInv
<1>2. Patched(inbox[i].cfg, p) \in Settings
  BY <1>1, PatchedSettings DEF InboxRow
<1>3. row \in InboxRow /\ row.token = inbox[i].token
  BY <1>1, <1>2 DEF InboxRow
<1>4. TokenFree(i, inbox[i].token)
  BY <1>1 DEF StoreInv, TokensUnique, TokenFree
<1>5. inbox' = [inbox EXCEPT ![i] = row] /\ UNCHANGED <<event, replay, clock>>
  BY DEF UpdateInbox
<1>. HIDE DEF row
<1>. QED
  BY <1>3, <1>4, <1>5, WrittenInboxKeepsInv

LEMMA RotateTokenKeepsInv ==
    ASSUME StoreInv, NEW i \in InboxId, NEW t \in Token, RotateToken(i, t)
    PROVE  StoreInv'
<1>. DEFINE row == [inbox[i] EXCEPT !.token = t]
<1>1. inbox[i] \in InboxRow
  BY LiveRows DEF RotateToken, LiveInboxes, StoreInv
<1>2. row \in InboxRow /\ row.token = t
  BY <1>1 DEF InboxRow
<1>3. /\ inbox' = [inbox EXCEPT ![i] = row] /\ UNCHANGED <<event, replay, clock>>
      /\ TokenFree(i, t)
  BY DEF RotateToken
<1>. HIDE DEF row
<1>. QED
  BY <1>2, <1>3, WrittenInboxKeepsInv

(* A deletion of inboxes I and events E keeps the references if it takes   *)
(* every event of the inboxes it takes.                                    *)
LEMMA DeletionKeepsInv ==
    ASSUME StoreInv, NEW E \in SUBSET LiveEvents, NEW I \in SUBSET LiveInboxes,
           \A e \in LiveEvents : event[e].inbox \in I => e \in E,
           inbox' \in [InboxId -> InboxRow \cup Missing],
           LiveInboxes' = LiveInboxes \ I,
           \A i \in LiveInboxes \ I : inbox'[i] = inbox[i],
           RemoveEvents(E), RemoveReplays(CascadedReplays(E, I)),
           UNCHANGED clock
    PROVE  StoreInv'
<1>. DEFINE R == CascadedReplays(E, I)
<1>1. StoreTypeOK /\ ReferencesHold /\ TokensUnique
  BY DEF StoreInv
<1>2. E \in SUBSET EventId /\ R \in SUBSET ReplayId
  BY DEF LiveEvents, LiveReplays, CascadedReplays
<1>3. /\ event' \in [EventId -> EventRow \cup Missing]
      /\ LiveEvents' = LiveEvents \ E
      /\ \A e \in LiveEvents' : event'[e] = event[e]
  BY <1>1, <1>2, EventsLeft
<1>4. /\ replay' \in [ReplayId -> ReplayRow \cup Missing]
      /\ LiveReplays' = LiveReplays \ R
      /\ \A a \in LiveReplays' :
           /\ replay'[a].event = replay[a].event
           /\ replay'[a].inbox = replay[a].inbox
           /\ \/ replay'[a].retryOf = None
              \/ /\ replay'[a].retryOf = replay[a].retryOf
                 /\ replay[a].retryOf \notin R
  BY <1>1, <1>2, ReplaysLeft
<1>5. StoreTypeOK'
  BY <1>1, <1>3, <1>4 DEF StoreTypeOK
<1>6. \A e \in LiveEvents' : event'[e].inbox \in LiveInboxes'
  BY <1>1, <1>3 DEF ReferencesHold
<1>7. ASSUME NEW a \in LiveReplays'
      PROVE  /\ replay'[a].event \in LiveEvents'
             /\ replay'[a].inbox \in LiveInboxes'
             /\ replay'[a].retryOf \in LiveReplays' \cup {None}
  <2>1. a \in LiveReplays /\ replay[a].event \notin E /\ replay[a].inbox \notin I
    BY <1>4 DEF CascadedReplays
  <2>2. /\ replay[a].event \in LiveEvents /\ replay[a].inbox \in LiveInboxes
        /\ replay[a].retryOf \in LiveReplays \cup {None}
    BY <1>1, <2>1 DEF ReferencesHold
  <2>. HIDE DEF R
  <2>. QED
    BY <1>3, <1>4, <2>1, <2>2
<1>8. ReferencesHold'
  BY <1>6, <1>7 DEF ReferencesHold
<1>9. TokensUnique'
  BY <1>1 DEF TokensUnique
<1>. QED
  BY <1>5, <1>8, <1>9 DEF StoreInv

LEMMA DeleteInboxKeepsInv ==
    ASSUME StoreInv, NEW i \in InboxId, DeleteInbox(i)
    PROVE  StoreInv'
<1>1. EventsOf(i) \in SUBSET LiveEvents /\ {i} \in SUBSET LiveInboxes
  BY DEF EventsOf, DeleteInbox, LiveInboxes
<1>2. \A e \in LiveEvents : event[e].inbox \in {i} => e \in EventsOf(i)
  BY DEF EventsOf
<1>3. /\ inbox' \in [InboxId -> InboxRow \cup Missing]
      /\ inbox'[i] = NoRow("gone")
      /\ \A j \in InboxId \ {i} : inbox'[j] = inbox[j]
  BY MissingRows DEF DeleteInbox, StoreInv, StoreTypeOK
<1>4. LiveInboxes' = LiveInboxes \ {i}
  BY <1>3, MissingRows DEF LiveInboxes
<1>5. \A j \in LiveInboxes \ {i} : inbox'[j] = inbox[j]
  BY <1>3 DEF LiveInboxes
<1>6. /\ RemoveEvents(EventsOf(i)) /\ UNCHANGED clock
      /\ RemoveReplays(CascadedReplays(EventsOf(i), {i}))
  BY DEF DeleteInbox
<1>. QED
  BY <1>1, <1>2, <1>3, <1>4, <1>5, <1>6, DeletionKeepsInv

LEMMA DeleteEventsKeepsInv ==
    ASSUME StoreInv, NEW E \in SUBSET LiveEvents, DeleteEvents(E)
    PROVE  StoreInv'
<1>1. inbox' = inbox /\ LiveInboxes' = LiveInboxes \ {}
  BY DEF DeleteEvents, LiveInboxes
<1>2. inbox' \in [InboxId -> InboxRow \cup Missing]
  BY <1>1 DEF StoreInv, StoreTypeOK
<1>3. /\ RemoveEvents(E) /\ RemoveReplays(CascadedReplays(E, {}))
      /\ UNCHANGED clock
  BY DEF DeleteEvents
<1>. QED
  BY <1>1, <1>2, <1>3, DeletionKeepsInv

LEMMA CreateEventKeepsInv ==
    ASSUME StoreInv, NEW e \in EventId, NEW i \in InboxId, NEW at \in Nat,
           NEW valid \in SignatureValid, CreateEvent(e, i, at, valid)
    PROVE  StoreInv'
<1>. DEFINE row == [st |-> "live", inbox |-> i, at |-> at, valid |-> valid]
<1>1. StoreTypeOK /\ ReferencesHold /\ TokensUnique
  BY DEF StoreInv
<1>2. row \in EventRow /\ row.st = "live" /\ row.inbox = i
  BY DEF EventRow
<1>3. /\ event[e].st = "fresh" /\ i \in LiveInboxes
      /\ event' = [event EXCEPT ![e] = row]
      /\ UNCHANGED <<inbox, replay, clock>>
  BY DEF CreateEvent, LiveInboxes
<1>. HIDE DEF row
<1>4. /\ event'[e] = row /\ \A f \in EventId \ {e} : event'[f] = event[f]
      /\ event' \in [EventId -> EventRow \cup Missing]
  BY <1>1, <1>2, <1>3 DEF StoreTypeOK
<1>5. LiveEvents' = LiveEvents \cup {e} /\ e \notin LiveEvents
  BY <1>2, <1>3, <1>4 DEF LiveEvents
<1>6. LiveInboxes' = LiveInboxes /\ LiveReplays' = LiveReplays
  BY <1>3 DEF LiveInboxes, LiveReplays
<1>7. StoreTypeOK'
  BY <1>1, <1>3, <1>4 DEF StoreTypeOK
<1>8. \A f \in LiveEvents' : event'[f].inbox \in LiveInboxes'
  BY <1>1, <1>2, <1>3, <1>4, <1>5, <1>6 DEF ReferencesHold, LiveEvents
<1>9. ReferencesHold'
  BY <1>1, <1>3, <1>5, <1>6, <1>8 DEF ReferencesHold
<1>10. TokensUnique'
  BY <1>1, <1>3, <1>6 DEF TokensUnique
<1>. QED
  BY <1>7, <1>9, <1>10 DEF StoreInv

LEMMA CreateReplayKeepsInv ==
    ASSUME StoreInv, NEW a \in ReplayId, NEW e \in EventId, NEW i \in InboxId,
           NEW no \in Nat, NEW retryOf \in ReplayId \cup {None},
           CreateReplay(a, e, i, no, retryOf)
    PROVE  StoreInv'
<1>. DEFINE row == [st |-> "live", event |-> e, inbox |-> i,
                    no |-> AttemptNo(no), retryOf |-> retryOf]
<1>1. StoreTypeOK /\ ReferencesHold /\ TokensUnique
  BY DEF StoreInv
<1>2. /\ row \in ReplayRow /\ row.st = "live"
      /\ row.event = e /\ row.inbox = i /\ row.retryOf = retryOf
  BY DEF ReplayRow, AttemptNo
<1>3. /\ e \in LiveEvents /\ i \in LiveInboxes
      /\ retryOf \in LiveReplays \cup {None}
      /\ replay' = [replay EXCEPT ![a] = row]
      /\ UNCHANGED <<inbox, event, clock>>
  BY DEF CreateReplay, LiveEvents, LiveInboxes
<1>. HIDE DEF row
<1>4. /\ replay'[a] = row /\ \A b \in ReplayId \ {a} : replay'[b] = replay[b]
      /\ replay' \in [ReplayId -> ReplayRow \cup Missing]
  BY <1>1, <1>2, <1>3 DEF StoreTypeOK
<1>5. LiveReplays' = LiveReplays \cup {a}
  BY <1>2, <1>3, <1>4 DEF LiveReplays
<1>6. LiveInboxes' = LiveInboxes /\ LiveEvents' = LiveEvents
  BY <1>3 DEF LiveInboxes, LiveEvents
<1>7. StoreTypeOK'
  BY <1>1, <1>3, <1>4 DEF StoreTypeOK
<1>8. ASSUME NEW b \in LiveReplays'
      PROVE  /\ replay'[b].event \in LiveEvents'
             /\ replay'[b].inbox \in LiveInboxes'
             /\ replay'[b].retryOf \in LiveReplays' \cup {None}
  <2>1. CASE b = a
    BY <1>2, <1>3, <1>4, <1>5, <1>6, <2>1
  <2>2. CASE b # a
    <3>1. b \in LiveReplays /\ replay'[b] = replay[b]
      BY <1>4, <1>5, <2>2 DEF LiveReplays
    <3>. QED
      BY <1>1, <1>5, <1>6, <3>1 DEF ReferencesHold
  <2>. QED
    BY <2>1, <2>2
<1>9. ReferencesHold'
  BY <1>1, <1>3, <1>6, <1>8 DEF ReferencesHold
<1>10. TokensUnique'
  BY <1>1, <1>3, <1>6 DEF TokensUnique
<1>. QED
  BY <1>7, <1>9, <1>10 DEF StoreInv

LEMMA TickKeepsInv ==
    ASSUME StoreInv, Tick
    PROVE  StoreInv'
  BY DEF StoreInv, Tick, StoreTypeOK, ReferencesHold, TokensUnique,
         LiveInboxes, LiveEvents, LiveReplays

-----------------------------------------------------------------------------
LEMMA StoreNextKeepsInv == StoreInv /\ [StoreNext]_storeVars => StoreInv'
<1>. SUFFICES ASSUME StoreInv, [StoreNext]_storeVars PROVE StoreInv'
  OBVIOUS
<1>. USE StoreAssumption
<1>1. ASSUME NEW i \in InboxId, NEW o \in Owner, NEW t \in Token,
             NEW s \in Configs, CreateInbox(i, o, t, s)
      PROVE  StoreInv'
  BY <1>1, CreateInboxKeepsInv
<1>2. ASSUME NEW i \in InboxId, NEW p \in Patches, UpdateInbox(i, p)
      PROVE  StoreInv'
  BY <1>2, UpdateInboxKeepsInv
<1>3. ASSUME NEW i \in InboxId, NEW t \in Token, RotateToken(i, t)
      PROVE  StoreInv'
  BY <1>3, RotateTokenKeepsInv
<1>4. ASSUME NEW i \in InboxId, DeleteInbox(i)
      PROVE  StoreInv'
  BY <1>4, DeleteInboxKeepsInv
<1>5. ASSUME NEW i \in InboxId, NEW n \in Nat,
             DeleteInboxEvents(i) \/ PruneByAge(i, n) \/ PruneByCount(i, n)
      PROVE  StoreInv'
  <2>1. /\ EventsOf(i) \subseteq LiveEvents /\ TooOld(i, n) \subseteq LiveEvents
        /\ TooMany(i, n) \subseteq LiveEvents
    BY DEF EventsOf, TooOld, TooMany
  <2>2. PICK E \in SUBSET LiveEvents : DeleteEvents(E)
    BY <1>5, <2>1 DEF DeleteInboxEvents, PruneByAge, PruneByCount
  <2>. QED
    BY <2>2, DeleteEventsKeepsInv
<1>6. ASSUME NEW e \in EventId, NEW i \in InboxId, NEW v \in SignatureValid,
             NEW at \in 0 .. clock, CreateEvent(e, i, at, v)
      PROVE  StoreInv'
  BY <1>6, CreateEventKeepsInv DEF StoreInv, StoreTypeOK
<1>7. ASSUME NEW e \in EventId, DeleteEvent(e)
      PROVE  StoreInv'
  <2>1. {e} \in SUBSET LiveEvents /\ DeleteEvents({e})
    BY <1>7 DEF DeleteEvent, LiveEvents
  <2>. QED
    BY <2>1, DeleteEventsKeepsInv
<1>8. ASSUME NEW a \in ReplayId, NEW e \in EventId, NEW i \in InboxId,
             NEW no \in 0 .. MaxNo, NEW r \in ReplayId \cup {None},
             CreateReplay(a, e, i, no, r)
      PROVE  StoreInv'
  BY <1>8, CreateReplayKeepsInv
<1>9. CASE Tick
  BY <1>9, TickKeepsInv
<1>10. CASE UNCHANGED storeVars
  BY <1>10 DEF storeVars, StoreInv, StoreTypeOK, ReferencesHold, TokensUnique,
               LiveInboxes, LiveEvents, LiveReplays
<1>. QED
  BY <1>1, <1>2, <1>3, <1>4, <1>5, <1>6, <1>7, <1>8, <1>9, <1>10 DEF StoreNext

-----------------------------------------------------------------------------
(* No statement changes a stored event other than by deleting it, brings   *)
(* a deleted one back, or turns the clock back.                            *)
EventsEndure ==
    \A e \in EventId : \/ event'[e] = event[e]
                       \/ event[e].st = "live" /\ event'[e].st = "gone"
                       \/ event[e].st = "fresh" /\ event'[e].st = "live"

LEMMA DeletedEventsEndure ==
    ASSUME StoreTypeOK, NEW E \in SUBSET LiveEvents, RemoveEvents(E)
    PROVE  EventsEndure
  BY MissingRows DEF RemoveEvents, EventsEndure, LiveEvents

LEMMA StoreStepsEndure ==
    ASSUME StoreTypeOK, [StoreNext]_storeVars
    PROVE  EventsEndure /\ clock <= clock'
<1>0. \A i \in InboxId : EventsOf(i) \in SUBSET LiveEvents
  BY DEF EventsOf
<1>1. ASSUME event' = event, clock' = clock \/ Tick
      PROVE  EventsEndure /\ clock <= clock'
  BY <1>1 DEF EventsEndure, Tick, StoreTypeOK
<1>2. ASSUME NEW E \in SUBSET LiveEvents, RemoveEvents(E), clock' = clock
      PROVE  EventsEndure /\ clock <= clock'
  BY <1>2, DeletedEventsEndure DEF StoreTypeOK
<1>3. ASSUME NEW e \in EventId, NEW i, NEW at, NEW v, CreateEvent(e, i, at, v)
      PROVE  EventsEndure /\ clock <= clock'
  BY <1>3 DEF EventsEndure, CreateEvent, StoreTypeOK
<1>4. ASSUME NEW i \in InboxId,
             \/ \E o \in Owner, t \in Token, s \in Configs : CreateInbox(i, o, t, s)
             \/ \E p \in Patches : UpdateInbox(i, p)
             \/ \E t \in Token : RotateToken(i, t)
      PROVE  EventsEndure /\ clock <= clock'
  BY <1>1, <1>4 DEF CreateInbox, UpdateInbox, RotateToken
<1>5. ASSUME NEW i \in InboxId, NEW n,
             \/ DeleteInbox(i) \/ DeleteInboxEvents(i)
             \/ PruneByAge(i, n) \/ PruneByCount(i, n)
      PROVE  EventsEndure /\ clock <= clock'
  <2>1. TooOld(i, n) \in SUBSET LiveEvents /\ TooMany(i, n) \in SUBSET LiveEvents
    BY <1>0 DEF TooOld, TooMany
  <2>. QED
    BY <1>0, <1>2, <1>5, <2>1 DEF DeleteInbox, DeleteInboxEvents, PruneByAge,
                                  PruneByCount, DeleteEvents
<1>6. ASSUME NEW e \in EventId, DeleteEvent(e)
      PROVE  EventsEndure /\ clock <= clock'
  <2>1. {e} \in SUBSET LiveEvents
    BY <1>6 DEF DeleteEvent, LiveEvents
  <2>. QED
    BY <1>2, <1>6, <2>1 DEF DeleteEvent, DeleteEvents
<1>7. ASSUME NEW a \in ReplayId, NEW e, NEW i, NEW no, NEW r,
             CreateReplay(a, e, i, no, r)
      PROVE  EventsEndure /\ clock <= clock'
  BY <1>1, <1>7 DEF CreateReplay
<1>8. CASE Tick
  BY <1>1, <1>8 DEF Tick
<1>9. CASE UNCHANGED storeVars
  BY <1>1, <1>9 DEF storeVars
<1>. QED
  BY <1>3, <1>4, <1>5, <1>6, <1>7, <1>8, <1>9 DEF StoreNext

(* An attempt goes only with its event or its inbox, and never comes back; *)
(* until then only its retry_of changes, and only when the attempt it      *)
(* names goes.                                                             *)
ReplaysEndure ==
    \A a \in ReplayId :
       \/ replay[a].st = "fresh"
       \/ replay[a].st = "gone" /\ replay'[a].st = "gone"
       \/ /\ replay[a].st = "live" /\ replay'[a].st = "gone"
          /\ \/ event'[replay[a].event].st = "gone"
             \/ inbox'[replay[a].inbox].st = "gone"
       \/ /\ replay[a].st = "live" /\ replay'[a].st = "live"
          /\ replay'[a].no = replay[a].no
          /\ replay'[a].event = replay[a].event
          /\ replay'[a].inbox = replay[a].inbox
          /\ \/ replay'[a].retryOf = replay[a].retryOf
             \/ /\ replay[a].retryOf \in ReplayId
                /\ replay'[replay[a].retryOf].st = "gone"

LEMMA DeletedReplaysEndure ==
    ASSUME StoreTypeOK, NEW E \in SUBSET LiveEvents, NEW I \in SUBSET LiveInboxes,
           RemoveEvents(E), \A i \in I : inbox'[i].st = "gone",
           RemoveReplays(CascadedReplays(E, I))
    PROVE  ReplaysEndure
<1>. DEFINE R == CascadedReplays(E, I)
<1>1. ASSUME NEW a \in ReplayId
      PROVE  /\ a \in R => replay'[a].st = "gone"
             /\ a \notin R /\ ~(a \in LiveReplays /\ replay[a].retryOf \in R) =>
                   replay'[a] = replay[a]
             /\ a \notin R /\ a \in LiveReplays /\ replay[a].retryOf \in R =>
                   replay'[a] = [replay[a] EXCEPT !.retryOf = None]
  BY MissingRows DEF RemoveReplays
<1>2. \A e \in E : event'[e].st = "gone"
  BY MissingRows DEF RemoveEvents, LiveEvents
<1>3. R \subseteq LiveReplays /\ R \subseteq ReplayId
  BY DEF CascadedReplays, LiveReplays
<1>4. ASSUME NEW a \in R
      PROVE  /\ replay[a].st = "live" /\ replay'[a].st = "gone"
             /\ \/ event'[replay[a].event].st = "gone"
                \/ inbox'[replay[a].inbox].st = "gone"
  BY <1>1, <1>2, <1>3 DEF CascadedReplays, LiveReplays
<1>5. ASSUME NEW a \in LiveReplays, a \notin R
      PROVE  /\ replay'[a].st = "live" /\ replay'[a].no = replay[a].no
             /\ replay'[a].event = replay[a].event
             /\ replay'[a].inbox = replay[a].inbox
             /\ \/ replay'[a].retryOf = replay[a].retryOf
                \/ /\ replay[a].retryOf \in ReplayId
                   /\ replay'[replay[a].retryOf].st = "gone"
  <2>1. replay[a] \in ReplayRow /\ a \in ReplayId
    BY LiveRows
  <2>2. CASE replay[a].retryOf \in R
    BY <1>1, <1>3, <1>5, <2>1, <2>2 DEF ReplayRow
  <2>3. CASE replay[a].retryOf \notin R
    BY <1>1, <1>5, <2>1, <2>3 DEF LiveReplays
  <2>. QED
    BY <2>2, <2>3
<1>6. \A a \in ReplayId : replay[a].st \in {"fresh", "gone", "live"}
  BY DEF StoreTypeOK, ReplayRow, Missing, NoRow
<1>7. ASSUME NEW a \in ReplayId, replay[a].st = "gone"
      PROVE  replay'[a].st = "gone"
  BY <1>1, <1>3, <1>7 DEF LiveReplays
<1>. HIDE DEF R
<1>. QED
  BY <1>4, <1>5, <1>6, <1>7 DEF ReplaysEndure, LiveReplays

LEMMA StoreStepsEndureReplays ==
    ASSUME StoreTypeOK, [StoreNext]_storeVars
    PROVE  ReplaysEndure
<1>0. \A i \in InboxId : EventsOf(i) \in SUBSET LiveEvents
  BY DEF EventsOf
<1>1. ASSUME replay' = replay
      PROVE  ReplaysEndure
  BY <1>1 DEF ReplaysEndure, StoreTypeOK, ReplayRow, Missing, NoRow
<1>2. ASSUME NEW E \in SUBSET LiveEvents, DeleteEvents(E)
      PROVE  ReplaysEndure
  BY <1>2, DeletedReplaysEndure DEF DeleteEvents
<1>3. ASSUME NEW i \in InboxId, DeleteInbox(i)
      PROVE  ReplaysEndure
  <2>1. {i} \in SUBSET LiveInboxes /\ inbox'[i].st = "gone"
    BY <1>3, MissingRows DEF DeleteInbox, LiveInboxes, StoreTypeOK
  <2>. QED
    BY <1>0, <1>3, <2>1, DeletedReplaysEndure DEF DeleteInbox
<1>4. ASSUME NEW i \in InboxId, NEW n,
             DeleteInboxEvents(i) \/ PruneByAge(i, n) \/ PruneByCount(i, n)
      PROVE  ReplaysEndure
  <2>1. TooOld(i, n) \in SUBSET LiveEvents /\ TooMany(i, n) \in SUBSET LiveEvents
    BY <1>0 DEF TooOld, TooMany
  <2>. QED
    BY <1>0, <1>2, <1>4, <2>1 DEF DeleteInboxEvents, PruneByAge, PruneByCount
<1>5. ASSUME NEW e \in EventId, DeleteEvent(e)
      PROVE  ReplaysEndure
  <2>1. {e} \in SUBSET LiveEvents
    BY <1>5 DEF DeleteEvent, LiveEvents
  <2>. QED
    BY <1>2, <1>5, <2>1 DEF DeleteEvent
<1>6. ASSUME NEW a \in ReplayId, NEW e, NEW i, NEW no, NEW r,
             CreateReplay(a, e, i, no, r)
      PROVE  ReplaysEndure
  BY <1>6 DEF CreateReplay, ReplaysEndure, StoreTypeOK, ReplayRow, Missing, NoRow
<1>7. ASSUME NEW i \in InboxId,
             \/ \E o \in Owner, t \in Token, s \in Configs : CreateInbox(i, o, t, s)
             \/ \E p \in Patches : UpdateInbox(i, p)
             \/ \E t \in Token : RotateToken(i, t)
      PROVE  ReplaysEndure
  BY <1>1, <1>7 DEF CreateInbox, UpdateInbox, RotateToken
<1>8. ASSUME NEW e \in EventId, NEW i, NEW at, NEW v, CreateEvent(e, i, at, v)
      PROVE  ReplaysEndure
  BY <1>1, <1>8 DEF CreateEvent
<1>9. CASE Tick \/ UNCHANGED storeVars
  BY <1>1, <1>9 DEF Tick, storeVars
<1>. QED
  BY <1>3, <1>4, <1>5, <1>6, <1>7, <1>8, <1>9 DEF StoreNext

-----------------------------------------------------------------------------
LEMMA StoreInvariance == StoreSpec => []StoreInv
  BY InitStoreInv, StoreNextKeepsInv, PTL DEF StoreSpec

(* The tables always hold rows of their types.                             *)
THEOREM StoreTypesCorrect == StoreSpec => []StoreTypeOK
<1>1. StoreInv => StoreTypeOK
  BY DEF StoreInv
<1>. QED
  BY <1>1, StoreInvariance, PTL

(* The foreign keys of 0001_init.sql: no statement leaves a row that       *)
(* refers to one that is gone.                                             *)
THEOREM StoreReferencesHold == StoreSpec => []ReferencesHold
<1>1. StoreInv => ReferencesHold
  BY DEF StoreInv
<1>. QED
  BY <1>1, StoreInvariance, PTL

(* UNIQUE (token): a receive token resolves to at most one inbox.          *)
THEOREM StoreTokensUnique == StoreSpec => []TokensUnique
<1>1. StoreInv => TokensUnique
  BY DEF StoreInv
<1>. QED
  BY <1>1, StoreInvariance, PTL
=============================================================================
