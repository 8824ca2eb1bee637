--------------------------- MODULE MemStoreProofs ---------------------------
(***************************************************************************)
(* Proofs about MemStore: the in-memory driver and PostgreSQL answer every *)
(* call alike, up to the two differences DriversAgree excepts, for every   *)
(* set of ids, tokens, settings, patches, limits and offsets.              *)
(*                                                                         *)
(* The inductive invariant relates the two states: the maps are the live   *)
(* rows (MapsFollow), and the list of attempts of a live event has each of *)
(* its attempts once, with its number (AttemptsFollow); what is left       *)
(* behind under an event that is gone is never read.  Every row has the    *)
(* time it was stamped with (StampsHold).                                  *)
(*                                                                         *)
(* Listings of inboxes and events agree because a strict total order on    *)
(* the same rows can be listed in one way only.  Listings of attempts go   *)
(* through the exchange sort of the memory driver: its two loops are shown *)
(* to rearrange the list and to leave it newest first, and two listings of *)
(* the same attempts that are newest first have the same moment at each    *)
(* place.                                                                  *)
(***************************************************************************)
EXTENDS MemStore, StoreProofs, FiniteSetTheorems, SequenceTheorems, WellFoundedInduction

-----------------------------------------------------------------------------
(* The memory driver.  Its maps are the live rows of the tables, without   *)
(* the columns that only PostgreSQL has.                                   *)
MemInboxRow(row) == [owner |-> row.owner, token |-> row.token, cfg |-> row.cfg]
MemEventRow(row) == [inbox |-> row.inbox, at |-> row.at]

Attempt == [id : ReplayId, no : Nat]

(* A list of attempts has one per id, and those of PostgreSQL.             *)
Lists(s, ids) ==
    /\ \A k, l \in DOMAIN s : s[k].id = s[l].id => k = l
    /\ {s[k].id : k \in DOMAIN s} = ids

(* The list has the numbers of the rows.                                   *)
Numbered(s, rows) == \A k \in DOMAIN s : s[k].no = rows[s[k].id].no

MapsFollow ==
    /\ mem = [inboxes |-> mem.inboxes, events |-> mem.events, replays |-> mem.replays]
    /\ mem.inboxes = [i \in LiveInboxes |-> MemInboxRow(inbox[i])]
    /\ mem.events = [e \in LiveEvents |-> MemEventRow(event[e])]

(* An event that is not there yet has no list, one that is gone may have.  *)
AttemptsFollow ==
    /\ mem.replays \in [EventId -> Seq(Attempt)]
    /\ \A e \in EventId : event[e].st = "fresh" => mem.replays[e] = <<>>
    /\ \A e \in LiveEvents : Lists(mem.replays[e], PgAttempts(e))
    /\ \A e \in LiveEvents : Numbered(mem.replays[e], replay)
    /\ \A a \in LiveReplays : replay[a].inbox = event[replay[a].event].inbox

SameAnswer == answer \in {<<>>, <<"gone", "ok">>}

(* A row has a time to be listed by.                                       *)
StampsHold ==
    /\ DOMAIN bornAt = InboxId /\ bornAt = [i \in InboxId |-> bornAt[i]]
    /\ DOMAIN madeAt = ReplayId /\ madeAt = [a \in ReplayId |-> madeAt[a]]
    /\ \A i \in LiveInboxes : bornAt[i] \in Nat
    /\ \A a \in LiveReplays : madeAt[a] \in Nat

MemPart == MapsFollow /\ AttemptsFollow
MemInv == StoreInv /\ MemPart /\ SameAnswer

-----------------------------------------------------------------------------
(* The indexes of the maps: what the driver scans.                         *)
LEMMA MemEvents ==
    ASSUME MapsFollow
    PROVE  /\ \A i : MemEventsOf(i) = EventsOf(i)
           /\ \A e, f \in LiveEvents : MemNewer(e, f) <=> Newer(e, f)
           /\ DOMAIN mem.inboxes = LiveInboxes /\ DOMAIN mem.events = LiveEvents
           /\ \A i \in LiveInboxes : mem.inboxes[i] = MemInboxRow(inbox[i])
           /\ \A i \in LiveInboxes : /\ mem.inboxes[i].owner = inbox[i].owner
                                    /\ mem.inboxes[i].token = inbox[i].token
                                    /\ mem.inboxes[i].cfg = inbox[i].cfg
           /\ \A e \in LiveEvents : /\ mem.events[e].inbox = event[e].inbox
                                   /\ mem.events[e].at = event[e].at
<1>1. DOMAIN mem.inboxes = LiveInboxes /\ DOMAIN mem.events = LiveEvents
  BY DEF MapsFollow
<1>2. \A i \in LiveInboxes : mem.inboxes[i] = MemInboxRow(inbox[i])
  BY DEF MapsFollow
<1>3. \A e \in LiveEvents : mem.events[e] = MemEventRow(event[e])
  BY DEF MapsFollow
<1>4. ASSUME NEW e \in LiveEvents
      PROVE  mem.events[e].inbox = event[e].inbox /\ mem.events[e].at = event[e].at
  <2>1. mem.events[e] = [inbox |-> event[e].inbox, at |-> event[e].at]
    BY <1>3 DEF MemEventRow
  <2>. QED
    BY <2>1
<1>5. ASSUME NEW i \in LiveInboxes
      PROVE  /\ mem.inboxes[i].owner = inbox[i].owner
             /\ mem.inboxes[i].token = inbox[i].token
             /\ mem.inboxes[i].cfg = inbox[i].cfg
  <2>1. mem.inboxes[i] = [owner |-> inbox[i].owner, token |-> inbox[i].token,
                          cfg |-> inbox[i].cfg]
    BY <1>2 DEF MemInboxRow
  <2>. QED
    BY <2>1
<1>. QED
  BY <1>1, <1>2, <1>4, <1>5 DEF MemEventsOf, EventsOf, MemNewer, Newer

-----------------------------------------------------------------------------
(* The calls.  First those that write an inbox.                            *)
LEMMA InboxWritten ==
    ASSUME MemPart, StoreTypeOK, NEW i \in InboxId, NEW row, row.st = "live",
           inbox' = [inbox EXCEPT ![i] = row], UNCHANGED <<event, replay>>,
           mem' = [mem EXCEPT !.inboxes = With(mem.inboxes, i, MemInboxRow(row))]
    PROVE  MemPart'
<1>1. /\ inbox'[i] = row /\ \A j \in InboxId \ {i} : inbox'[j] = inbox[j]
      /\ LiveInboxes' = LiveInboxes \cup {i}
  BY DEF StoreTypeOK, LiveInboxes
<1>2. LiveEvents' = LiveEvents /\ LiveReplays' = LiveReplays
  BY DEF LiveEvents, LiveReplays
<1>3. With(mem.inboxes, i, MemInboxRow(row)) = [j \in LiveInboxes' |-> MemInboxRow(inbox'[j])]
  BY <1>1, MemEvents DEF With, MemPart, LiveInboxes
<1>4. mem' = [inboxes |-> With(mem.inboxes, i, MemInboxRow(row)), events |-> mem.events,
              replays |-> mem.replays]
  BY DEF MemPart, MapsFollow
<1>5. MapsFollow'
  BY <1>2, <1>3, <1>4 DEF MemPart, MapsFollow
<1>6. AttemptsFollow'
  <2>1. mem'.replays = mem.replays /\ \A e : PgAttempts(e)' = PgAttempts(e)
    BY <1>2, <1>4 DEF PgAttempts
  <2>. QED
    BY <1>2, <2>1 DEF MemPart, AttemptsFollow
<1>. QED
  BY <1>5, <1>6 DEF MemPart

LEMMA NothingWritten ==
    ASSUME MemPart, UNCHANGED <<inbox, event, replay, mem>>
    PROVE  MemPart'
  BY DEF MemPart, MapsFollow, AttemptsFollow, PgAttempts, Numbered, LiveInboxes, LiveEvents,
         LiveReplays

(* A creation is refused by both when the token is taken.                  *)
LEMMA CreateInboxKeepsMem ==
    ASSUME MemInv, NEW i \in InboxId, NEW o \in Owner, NEW t \in Token, NEW s \in Settings,
           CallCreateInbox(i, o, t, s)
    PROVE  MemInv'
<1>. DEFINE row == [st |-> "live", owner |-> o, token |-> t, cfg |-> s]
            taken == \E j \in DOMAIN mem.inboxes : mem.inboxes[j].token = t
<1>1. StoreInv /\ StoreTypeOK /\ MemPart /\ MapsFollow
  BY DEF MemInv, StoreInv, MemPart
<1>2. \A j \in LiveInboxes : mem.inboxes[j].token = inbox[j].token
  BY <1>1, MemEvents
<1>3. taken <=> ~TokenFree(i, t)
  <2>1. DOMAIN mem.inboxes = LiveInboxes
    BY <1>1, MemEvents
  <2>2. i \notin LiveInboxes
    BY DEF CallCreateInbox, LiveInboxes
  <2>. QED
    BY <1>2, <2>1, <2>2 DEF TokenFree
<1>4. SameAnswer'
  BY <1>3 DEF CallCreateInbox, Answered, Told, SameAnswer
<1>5. CASE TokenFree(i, t)
  <2>1. CreateInbox(i, o, t, s)
    BY <1>5 DEF CallCreateInbox
  <2>2. StoreInv'
    BY <1>1, <2>1, CreateInboxKeepsInv
  <2>3. inbox' = [inbox EXCEPT ![i] = row] /\ UNCHANGED <<event, replay>>
    BY <2>1 DEF CreateInbox
  <2>4. MemInboxRow(row) = [owner |-> o, token |-> t, cfg |-> s] /\ row.st = "live"
    BY DEF MemInboxRow
  <2>5. mem' = [mem EXCEPT !.inboxes = With(mem.inboxes, i, [owner |-> o, token |-> t, cfg |-> s])]
    BY <1>3, <1>5 DEF CallCreateInbox
  <2>. HIDE DEF row, taken
  <2>6. MemPart'
    BY <1>1, <2>3, <2>4, <2>5, InboxWritten
  <2>. QED
    BY <1>4, <2>2, <2>6 DEF MemInv
<1>6. CASE ~TokenFree(i, t)
  <2>1. UNCHANGED storeVars /\ mem' = mem
    BY <1>3, <1>6 DEF CallCreateInbox, CreateInbox, Unchanged
  <2>2. StoreInv' /\ MemPart'
    BY <1>1, <2>1, StoreNextKeepsInv, NothingWritten DEF storeVars
  <2>. QED
    BY <1>4, <2>2 DEF MemInv
<1>. QED
  BY <1>5, <1>6

(* Neither driver finds an inbox that is not there.                        *)
LEMMA InboxNotFound ==
    ASSUME MemInv, NEW i \in InboxId, UNCHANGED storeVars, i \notin LiveInboxes,
           i \notin DOMAIN mem.inboxes => mem' = mem, SameAnswer'
    PROVE  MemInv'
<1>1. StoreInv /\ MemPart /\ MapsFollow
  BY DEF MemInv, MemPart
<1>2. mem' = mem
  BY <1>1, MemEvents
<1>. QED
  BY <1>1, <1>2, StoreNextKeepsInv, NothingWritten DEF storeVars, MemInv

LEMMA UpdateInboxKeepsMem ==
    ASSUME MemInv, NEW i \in InboxId, NEW p \in Patch, CallUpdateInbox(i, p)
    PROVE  MemInv'
<1>. DEFINE row == [inbox[i] EXCEPT !.cfg = Patched(inbox[i].cfg, p)]
<1>1. StoreInv /\ StoreTypeOK /\ MemPart /\ MapsFollow
  BY DEF MemInv, StoreInv, MemPart
<1>2. DOMAIN mem.inboxes = LiveInboxes
  BY <1>1, MemEvents
<1>3. SameAnswer'
  BY <1>2 DEF CallUpdateInbox, Answered, Told, SameAnswer, LiveInboxes
<1>4. CASE i \in LiveInboxes
  <2>1. UpdateInbox(i, p)
    BY <1>4 DEF CallUpdateInbox, LiveInboxes
  <2>2. StoreInv'
    BY <1>1, <2>1, UpdateInboxKeepsInv
  <2>3. inbox' = [inbox EXCEPT ![i] = row] /\ UNCHANGED <<event, replay>>
    BY <2>1 DEF UpdateInbox
  <2>4. inbox[i] \in InboxRow
    BY <1>1, <1>4, LiveRows
  <2>5. /\ row.st = "live" /\ row.owner = inbox[i].owner /\ row.token = inbox[i].token
        /\ row.cfg = Patched(inbox[i].cfg, p)
    BY <2>4 DEF InboxRow
  <2>6. mem.inboxes[i] = MemInboxRow(inbox[i])
    BY <1>1, <1>4, MemEvents
  <2>7. /\ mem.inboxes[i].cfg = inbox[i].cfg
        /\ [mem.inboxes[i] EXCEPT !.cfg = Patched(inbox[i].cfg, p)] = MemInboxRow(row)
    BY <2>5, <2>6 DEF MemInboxRow
  <2>8. [mem.inboxes EXCEPT ![i] = MemInboxRow(row)] = With(mem.inboxes, i, MemInboxRow(row))
    BY <1>1, <1>2, <1>4 DEF With, MapsFollow
  <2>9. mem' = [mem EXCEPT !.inboxes = With(mem.inboxes, i, MemInboxRow(row))]
    BY <1>1, <1>2, <1>4, <2>7, <2>8 DEF CallUpdateInbox, MapsFollow
  <2>. HIDE DEF row
  <2>10. MemPart'
    BY <1>1, <2>3, <2>5, <2>9, InboxWritten
  <2>. QED
    BY <1>3, <2>2, <2>10 DEF MemInv
<1>5. CASE i \notin LiveInboxes
  BY <1>3, <1>5, InboxNotFound DEF CallUpdateInbox, UpdateInbox, LiveInboxes, Unchanged
<1>. QED
  BY <1>4, <1>5

LEMMA RotateTokenKeepsMem ==
    ASSUME MemInv, NEW i \in InboxId, NEW t \in Token, CallRotateToken(i, t)
    PROVE  MemInv'
<1>. DEFINE row == [inbox[i] EXCEPT !.token = t]
<1>1. StoreInv /\ StoreTypeOK /\ MemPart /\ MapsFollow
  BY DEF MemInv, StoreInv, MemPart
<1>2. DOMAIN mem.inboxes = LiveInboxes
  BY <1>1, MemEvents
<1>3. SameAnswer'
  BY <1>2 DEF CallRotateToken, Answered, Told, SameAnswer, LiveInboxes
<1>4. CASE i \in LiveInboxes
  <2>1. RotateToken(i, t)
    BY <1>4 DEF CallRotateToken, LiveInboxes
  <2>2. StoreInv'
    BY <1>1, <2>1, RotateTokenKeepsInv
  <2>3. inbox' = [inbox EXCEPT ![i] = row] /\ UNCHANGED <<event, replay>>
    BY <2>1 DEF RotateToken
  <2>4. inbox[i] \in InboxRow
    BY <1>1, <1>4, LiveRows
  <2>5. /\ row.st = "live" /\ row.owner = inbox[i].owner /\ row.token = t
        /\ row.cfg = inbox[i].cfg
    BY <2>4 DEF InboxRow
  <2>6. mem.inboxes[i] = MemInboxRow(inbox[i])
    BY <1>1, <1>4, MemEvents
  <2>7. [mem.inboxes[i] EXCEPT !.token = t] = MemInboxRow(row)
    BY <2>5, <2>6 DEF MemInboxRow
  <2>8. [mem.inboxes EXCEPT ![i] = MemInboxRow(row)] = With(mem.inboxes, i, MemInboxRow(row))
    BY <1>1, <1>2, <1>4 DEF With, MapsFollow
  <2>9. mem' = [mem EXCEPT !.inboxes = With(mem.inboxes, i, MemInboxRow(row))]
    BY <1>1, <1>2, <1>4, <2>7, <2>8 DEF CallRotateToken, MapsFollow
  <2>. HIDE DEF row
  <2>10. MemPart'
    BY <1>1, <2>3, <2>5, <2>9, InboxWritten
  <2>. QED
    BY <1>3, <2>2, <2>10 DEF MemInv
<1>5. CASE i \notin LiveInboxes
  BY <1>3, <1>5, InboxNotFound DEF CallRotateToken, RotateToken, LiveInboxes, Unchanged
<1>. QED
  BY <1>4, <1>5
-----------------------------------------------------------------------------
(* A new event has no attempts: none was made for an id that is fresh.     *)
LEMMA CreateEventKeepsMem ==
    ASSUME MemInv, NEW e \in EventId, NEW i \in InboxId, NEW at \in Nat, CallCreateEvent(e, i, at)
    PROVE  MemInv'
<1>. DEFINE row == [st |-> "live", inbox |-> i, at |-> at, valid |-> None]
<1>1. StoreInv /\ StoreTypeOK /\ ReferencesHold /\ MemPart /\ MapsFollow /\ AttemptsFollow
  BY DEF MemInv, StoreInv, MemPart
<1>2. DOMAIN mem.inboxes = LiveInboxes
  BY <1>1, MemEvents
<1>3. SameAnswer'
  BY <1>2 DEF CallCreateEvent, Answered, Told, SameAnswer, LiveInboxes
<1>4. CASE i \in LiveInboxes
  <2>1. CreateEvent(e, i, at, None)
    BY <1>4 DEF CallCreateEvent, LiveInboxes
  <2>2. StoreInv'
    BY <1>1, <2>1, CreateEventKeepsInv DEF SignatureValid
  <2>3. event' = [event EXCEPT ![e] = row] /\ UNCHANGED <<inbox, replay>> /\ event[e].st = "fresh"
    BY <2>1 DEF CreateEvent
  <2>4. row.st = "live" /\ MemEventRow(row) = [inbox |-> i, at |-> at]
    BY DEF MemEventRow
  <2>5. mem' = [mem EXCEPT !.events = With(mem.events, e, MemEventRow(row))]
    BY <1>2, <1>4, <2>4 DEF CallCreateEvent
  <2>. HIDE DEF row
  <2>6. /\ event'[e] = row /\ \A f \in EventId \ {e} : event'[f] = event[f]
        /\ LiveEvents' = LiveEvents \cup {e} /\ e \notin LiveEvents
    BY <1>1, <2>3, <2>4 DEF StoreTypeOK, LiveEvents
  <2>7. LiveInboxes' = LiveInboxes /\ LiveReplays' = LiveReplays
    BY <2>3 DEF LiveInboxes, LiveReplays
  <2>8. With(mem.events, e, MemEventRow(row)) = [f \in LiveEvents' |-> MemEventRow(event'[f])]
    <3>1. \A f \in LiveEvents : event'[f] = event[f] /\ f # e
      BY <2>6 DEF LiveEvents
    <3>2. /\ DOMAIN mem.events = LiveEvents
          /\ \A f \in LiveEvents : mem.events[f] = MemEventRow(event[f])
      BY <1>1 DEF MapsFollow
    <3>. QED
      BY <2>6, <3>1, <3>2 DEF With
  <2>9. mem' = [inboxes |-> mem.inboxes, events |-> With(mem.events, e, MemEventRow(row)),
                replays |-> mem.replays]
    BY <1>1, <2>5 DEF MapsFollow
  <2>10. MapsFollow'
    BY <1>1, <2>3, <2>7, <2>8, <2>9 DEF MapsFollow
  <2>11. \A a \in LiveReplays : replay[a].event \in LiveEvents /\ replay[a].event # e
    BY <1>1, <2>6 DEF ReferencesHold
  <2>12. \A f \in EventId : PgAttempts(f)' = PgAttempts(f)
    BY <2>3, <2>7 DEF PgAttempts
  <2>13. PgAttempts(e)' = {} /\ mem'.replays[e] = <<>>
    BY <1>1, <2>3, <2>9, <2>11, <2>12 DEF PgAttempts, AttemptsFollow
  <2>14. Lists(mem'.replays[e], PgAttempts(e)')
    BY <2>13 DEF Lists
  <2>15. \A f \in LiveEvents' : Lists(mem'.replays[f], PgAttempts(f)')
    BY <1>1, <2>6, <2>9, <2>12, <2>14 DEF AttemptsFollow, LiveEvents
  <2>16. \A f \in EventId : event'[f].st = "fresh" => mem'.replays[f] = <<>>
    BY <1>1, <2>4, <2>6, <2>9 DEF AttemptsFollow
  <2>17. \A a \in LiveReplays' : replay'[a].inbox = event'[replay'[a].event].inbox
    BY <1>1, <2>3, <2>6, <2>7, <2>11 DEF AttemptsFollow, LiveEvents
  <2>18. \A f \in LiveEvents' : Numbered(mem'.replays[f], replay')
    BY <1>1, <2>3, <2>6, <2>9, <2>13 DEF AttemptsFollow, LiveEvents, Numbered
  <2>19. AttemptsFollow'
    BY <1>1, <2>9, <2>15, <2>16, <2>17, <2>18 DEF AttemptsFollow
  <2>. QED
    BY <1>3, <2>2, <2>10, <2>19 DEF MemInv, MemPart
<1>5. CASE i \notin LiveInboxes
  BY <1>3, <1>5, InboxNotFound DEF CallCreateEvent, CreateEvent, LiveInboxes, Unchanged
<1>. QED
  BY <1>4, <1>5

(* A deletion of inboxes I with all their events, and of events E, in both.*)
LEMMA DeletionKeepsMem ==
    ASSUME MemPart, StoreTypeOK, ReferencesHold,
           NEW E \in SUBSET LiveEvents, NEW I \in SUBSET LiveInboxes,
           \A e \in LiveEvents : event[e].inbox \in I => e \in E,
           LiveInboxes' = LiveInboxes \ I,
           \A i \in LiveInboxes \ I : inbox'[i] = inbox[i],
           RemoveEvents(E), RemoveReplays(CascadedReplays(E, I)),
           mem' = [MemDeletedEvents(mem, E) EXCEPT !.inboxes = Without(mem.inboxes, I)]
    PROVE  MemPart'
<1>. DEFINE R == CascadedReplays(E, I)
            lists == [e \in EventId |-> IF e \in E THEN <<>> ELSE mem.replays[e]]
<1>1. MapsFollow /\ AttemptsFollow
  BY DEF MemPart
<1>2. E \in SUBSET EventId /\ R \in SUBSET ReplayId
  BY DEF LiveEvents, LiveReplays, CascadedReplays
<1>3. LiveEvents' = LiveEvents \ E /\ \A e \in LiveEvents' : event'[e] = event[e]
  BY <1>2, EventsLeft
<1>4. /\ LiveReplays' = LiveReplays \ R
      /\ \A a \in LiveReplays' : /\ replay'[a].event = replay[a].event
                                 /\ replay'[a].inbox = replay[a].inbox
                                 /\ replay'[a].no = replay[a].no
  BY <1>2, ReplaysLeft
<1>5. mem' = [inboxes |-> Without(mem.inboxes, I), events |-> Without(mem.events, E),
              replays |-> lists]
  BY <1>1 DEF MapsFollow, MemDeletedEvents
<1>6. Without(mem.inboxes, I) = [i \in LiveInboxes' |-> MemInboxRow(inbox'[i])]
  BY <1>1 DEF Without, MapsFollow
<1>7. Without(mem.events, E) = [e \in LiveEvents' |-> MemEventRow(event'[e])]
  BY <1>1, <1>3 DEF Without, MapsFollow
<1>. HIDE DEF lists
<1>8. MapsFollow'
  <2>1. /\ mem'.inboxes = Without(mem.inboxes, I) /\ mem'.events = Without(mem.events, E)
        /\ mem'.replays = lists
    BY <1>5
  <2>. QED
    BY <1>5, <1>6, <1>7, <2>1 DEF MapsFollow
<1>. USE DEF lists
<1>9. ASSUME NEW e \in LiveEvents'
      PROVE  Lists(mem'.replays[e], PgAttempts(e)') /\ Numbered(mem'.replays[e], replay')
  <2>1. e \in LiveEvents /\ e \notin E /\ e \in EventId
    BY <1>3 DEF LiveEvents
  <2>2. \A a \in PgAttempts(e) : a \notin R
    BY <1>1, <2>1 DEF PgAttempts, CascadedReplays, AttemptsFollow
  <2>3. PgAttempts(e)' = PgAttempts(e)
    <3>. HIDE DEF R
    <3>. QED
      BY <1>4, <2>2 DEF PgAttempts
  <2>4. mem'.replays[e] = mem.replays[e]
    BY <1>5, <2>1
  <2>5. Lists(mem.replays[e], PgAttempts(e)) /\ Numbered(mem.replays[e], replay)
    BY <1>1, <2>1 DEF AttemptsFollow
  <2>. HIDE DEF lists, R
  <2>6. \A k \in DOMAIN mem.replays[e] : mem.replays[e][k].id \in LiveReplays'
    BY <2>3, <2>5 DEF Lists, PgAttempts
  <2>7. Numbered(mem'.replays[e], replay')
    BY <1>4, <2>4, <2>5, <2>6 DEF Numbered
  <2>. QED
    BY <2>3, <2>4, <2>5, <2>7
<1>10. \A e \in LiveEvents' : Lists(mem'.replays[e], PgAttempts(e)') /\ Numbered(mem'.replays[e], replay')
  BY <1>9
<1>11. \A e \in EventId : event'[e].st = "fresh" => mem'.replays[e] = <<>>
  <2>. TAKE e \in EventId
  <2>1. event'[e] = IF e \in E THEN NoRow("gone") ELSE event[e]
    BY DEF RemoveEvents
  <2>. QED
    BY <1>1, <1>5, <2>1, MissingRows DEF AttemptsFollow
<1>12. \A a \in LiveReplays' : replay'[a].inbox = event'[replay'[a].event].inbox
  <2>. TAKE a \in LiveReplays'
  <2>1. a \in LiveReplays /\ replay[a].event \in LiveEvents /\ replay[a].event \notin E
    BY <1>4 DEF CascadedReplays, ReferencesHold
  <2>. HIDE DEF R
  <2>. QED
    BY <1>1, <1>3, <1>4, <2>1 DEF AttemptsFollow
<1>13. mem'.replays \in [EventId -> Seq(Attempt)]
  <2>1. \A e \in EventId : lists[e] \in Seq(Attempt)
    BY <1>1 DEF AttemptsFollow
  <2>2. mem'.replays = lists
    BY <1>5
  <2>. QED
    BY <2>1, <2>2
<1>. HIDE DEF lists
<1>14. AttemptsFollow'
  BY <1>10, <1>11, <1>12, <1>13 DEF AttemptsFollow
<1>. QED
  BY <1>8, <1>14 DEF MemPart

LEMMA DeleteEventsKeepsMem ==
    ASSUME StoreInv, MemPart, NEW E \in SUBSET LiveEvents, DeleteEvents(E),
           mem' = MemDeletedEvents(mem, E)
    PROVE  StoreInv' /\ MemPart'
<1>1. LiveInboxes' = LiveInboxes \ {} /\ inbox' = inbox
  BY DEF DeleteEvents, LiveInboxes
<1>2. MapsFollow /\ StoreTypeOK /\ ReferencesHold
  BY DEF MemPart, StoreInv
<1>3. Without(mem.inboxes, {}) = mem.inboxes
  BY <1>2 DEF Without, MapsFollow
<1>4. mem' = [MemDeletedEvents(mem, E) EXCEPT !.inboxes = Without(mem.inboxes, {})]
  BY <1>2, <1>3 DEF MapsFollow, MemDeletedEvents
<1>5. RemoveEvents(E) /\ RemoveReplays(CascadedReplays(E, {}))
  BY DEF DeleteEvents
<1>6. MemPart'
  BY <1>1, <1>2, <1>4, <1>5, DeletionKeepsMem
<1>. QED
  BY <1>6, DeleteEventsKeepsInv
LEMMA DeleteInboxKeepsMem ==
    ASSUME MemInv, NEW i \in InboxId, CallDeleteInbox(i)
    PROVE  MemInv'
<1>1. StoreInv /\ StoreTypeOK /\ ReferencesHold /\ MemPart /\ MapsFollow
  BY DEF MemInv, StoreInv, MemPart
<1>2. DOMAIN mem.inboxes = LiveInboxes /\ MemEventsOf(i) = EventsOf(i)
  BY <1>1, MemEvents
<1>3. SameAnswer'
  BY <1>2 DEF CallDeleteInbox, Answered, Told, SameAnswer, LiveInboxes
<1>4. CASE i \in LiveInboxes
  <2>1. DeleteInbox(i)
    BY <1>4 DEF CallDeleteInbox, LiveInboxes
  <2>2. StoreInv'
    BY <1>1, <2>1, DeleteInboxKeepsInv
  <2>3. EventsOf(i) \in SUBSET LiveEvents /\ {i} \in SUBSET LiveInboxes
    BY <1>4 DEF EventsOf
  <2>4. \A e \in LiveEvents : event[e].inbox \in {i} => e \in EventsOf(i)
    BY DEF EventsOf
  <2>5. inbox'[i] = NoRow("gone") /\ \A j \in InboxId \ {i} : inbox'[j] = inbox[j]
    BY <1>1, <2>1 DEF DeleteInbox, StoreTypeOK
  <2>6. LiveInboxes' = LiveInboxes \ {i}
    BY <2>5, MissingRows DEF LiveInboxes
  <2>7. \A j \in LiveInboxes \ {i} : inbox'[j] = inbox[j]
    BY <2>5 DEF LiveInboxes
  <2>8. RemoveEvents(EventsOf(i)) /\ RemoveReplays(CascadedReplays(EventsOf(i), {i}))
    BY <2>1 DEF DeleteInbox
  <2>9. MemDeletedEvents(mem, EventsOf(i)).inboxes = mem.inboxes
    BY <1>1 DEF MapsFollow, MemDeletedEvents
  <2>10. mem' = [MemDeletedEvents(mem, EventsOf(i)) EXCEPT !.inboxes = Without(mem.inboxes, {i})]
    BY <1>2, <1>4, <2>9 DEF CallDeleteInbox
  <2>11. MemPart'
    BY <1>1, <2>3, <2>4, <2>6, <2>7, <2>8, <2>10, DeletionKeepsMem
  <2>. QED
    BY <1>3, <2>2, <2>11 DEF MemInv
<1>5. CASE i \notin LiveInboxes
  BY <1>3, <1>5, InboxNotFound DEF CallDeleteInbox, DeleteInbox, LiveInboxes, Unchanged
<1>. QED
  BY <1>4, <1>5

LEMMA DeleteEventKeepsMem ==
    ASSUME MemInv, NEW e \in EventId, CallDeleteEvent(e)
    PROVE  MemInv'
<1>1. StoreInv /\ MemPart /\ MapsFollow
  BY DEF MemInv, MemPart
<1>2. DOMAIN mem.events = LiveEvents
  BY <1>1, MemEvents
<1>3. SameAnswer'
  BY <1>2 DEF CallDeleteEvent, Answered, Told, SameAnswer, LiveEvents
<1>4. CASE e \in LiveEvents
  <2>1. {e} \in SUBSET LiveEvents /\ DeleteEvents({e}) /\ mem' = MemDeletedEvents(mem, {e})
    BY <1>2, <1>4 DEF CallDeleteEvent, DeleteEvent, LiveEvents
  <2>. QED
    BY <1>1, <1>3, <2>1, DeleteEventsKeepsMem DEF MemInv
<1>5. CASE e \notin LiveEvents
  <2>1. UNCHANGED storeVars /\ mem' = mem
    BY <1>2, <1>5 DEF CallDeleteEvent, DeleteEvent, Unchanged, LiveEvents
  <2>. QED
    BY <1>1, <1>3, <2>1, StoreNextKeepsInv, NothingWritten DEF storeVars, MemInv
<1>. QED
  BY <1>4, <1>5

(* Both prune the same events: the two rankings are the same relation.     *)
LEMMA SamePruned ==
    ASSUME MapsFollow, NEW i, NEW keep, NEW days
    PROVE  LET old  == IF days > 0 THEN TooOld(i, days) ELSE {}
               left == EventsOf(i) \ old
               many == {e \in left : /\ keep > 0
                                     /\ Cardinality({f \in left : Newer(f, e)}) >= keep} IN
           MemPruned(i, keep, days) = old \cup many
<1>. DEFINE old  == IF days > 0 THEN TooOld(i, days) ELSE {}
            left == EventsOf(i) \ old
            memOld  == {e \in MemEventsOf(i) : days > 0 /\ mem.events[e].at < clock - days}
            memKept == MemEventsOf(i) \ memOld
<1>1. MemEventsOf(i) = EventsOf(i) /\ EventsOf(i) \subseteq LiveEvents
  BY MemEvents DEF EventsOf
<1>2. memOld = old
  BY <1>1, MemEvents DEF TooOld
<1>3. memKept = left /\ left \subseteq LiveEvents
  BY <1>1, <1>2
<1>. HIDE DEF left, memKept
<1>4. \A e \in left : {f \in left : MemNewer(f, e)} = {f \in left : Newer(f, e)}
  BY <1>3, MemEvents
<1>5. {e \in left : keep > 0 /\ Cardinality({f \in left : MemNewer(f, e)}) >= keep}
        = {e \in left : keep > 0 /\ Cardinality({f \in left : Newer(f, e)}) >= keep}
  BY <1>4
<1>. QED
  BY <1>2, <1>3, <1>5 DEF MemPruned, left, memKept

LEMMA PrunesKeepMem ==
    ASSUME MemInv, NEW i \in InboxId, NEW keep, NEW days,
           CallPruneEvents(i, keep, days) \/ CallDeleteInboxEvents(i)
    PROVE  MemInv'
<1>1. StoreInv /\ MemPart /\ MapsFollow
  BY DEF MemInv, MemPart
<1>2. MemEventsOf(i) = EventsOf(i) /\ EventsOf(i) \in SUBSET LiveEvents
  BY <1>1, MemEvents DEF EventsOf
<1>3. PICK E \in SUBSET LiveEvents :
         /\ DeleteEvents(E) /\ mem' = MemDeletedEvents(mem, E)
         /\ answer' = <<>>
  <2>1. CASE CallDeleteInboxEvents(i)
    BY <1>2, <2>1 DEF CallDeleteInboxEvents, DeleteInboxEvents, Answered
  <2>2. CASE CallPruneEvents(i, keep, days)
    <3>. DEFINE old  == IF days > 0 THEN TooOld(i, days) ELSE {}
                left == EventsOf(i) \ old
                many == {e \in left : /\ keep > 0
                                      /\ Cardinality({f \in left : Newer(f, e)}) >= keep}
    <3>1. old \cup many \in SUBSET LiveEvents
      BY <1>2 DEF TooOld
    <3>2. MemPruned(i, keep, days) = old \cup many
      BY <1>1, SamePruned
    <3>3. /\ DeleteEvents(old \cup many)
          /\ mem' = MemDeletedEvents(mem, MemPruned(i, keep, days))
          /\ Answered(Cardinality(old \cup many), Cardinality(MemPruned(i, keep, days)))
      BY <2>2 DEF CallPruneEvents
    <3>. HIDE DEF old, many
    <3>. QED
      BY <3>1, <3>2, <3>3 DEF Answered
  <2>. QED
    BY <2>1, <2>2
<1>4. SameAnswer'
  BY <1>3 DEF SameAnswer
<1>. QED
  BY <1>1, <1>3, <1>4, DeleteEventsKeepsMem DEF MemInv
-----------------------------------------------------------------------------
(* The attempts.                                                           *)
LEMMA ListsAppend ==
    ASSUME NEW s \in Seq(Attempt), NEW ids, Lists(s, ids), NEW x \in Attempt, x.id \notin ids
    PROVE  Lists(Append(s, x), ids \cup {x.id})
<1>. DEFINE t == Append(s, x)
<1>1. /\ DOMAIN s = 1 .. Len(s) /\ Len(s) \in Nat /\ t \in Seq(Attempt)
      /\ DOMAIN t = 1 .. Len(s) + 1
  OBVIOUS
<1>2. t[Len(s) + 1] = x /\ \A k \in DOMAIN s : t[k] = s[k]
  BY <1>1
<1>. HIDE DEF t
<1>3. DOMAIN t = DOMAIN s \cup {Len(s) + 1} /\ Len(s) + 1 \notin DOMAIN s
  BY <1>1
<1>4. \A k \in DOMAIN s : s[k].id \in ids
  BY DEF Lists
<1>5. \A k, l \in DOMAIN t : t[k].id = t[l].id => k = l
  BY <1>2, <1>3, <1>4 DEF Lists
<1>6. {t[k].id : k \in DOMAIN t} = ids \cup {x.id}
  BY <1>2, <1>3 DEF Lists
<1>. QED
  BY <1>5, <1>6 DEF Lists, t

LEMMA AttemptAppended ==
    ASSUME MapsFollow, AttemptsFollow, NEW e \in EventId, NEW x \in Attempt,
           mem' = [mem EXCEPT !.replays[e] = Append(mem.replays[e], x)],
           UNCHANGED <<inbox, event>>
    PROVE  /\ MapsFollow' /\ mem'.replays \in [EventId -> Seq(Attempt)]
           /\ mem'.replays[e] = Append(mem.replays[e], x)
           /\ \A f \in EventId \ {e} : mem'.replays[f] = mem.replays[f]
<1>. DEFINE lists == [mem.replays EXCEPT ![e] = Append(mem.replays[e], x)]
<1>1. /\ mem' = [inboxes |-> mem.inboxes, events |-> mem.events, replays |-> lists]
      /\ mem'.inboxes = mem.inboxes /\ mem'.events = mem.events /\ mem'.replays = lists
  BY DEF MapsFollow
<1>2. LiveInboxes' = LiveInboxes /\ LiveEvents' = LiveEvents
  BY DEF LiveInboxes, LiveEvents
<1>3. MapsFollow'
  BY <1>1, <1>2 DEF MapsFollow
<1>4. mem.replays \in [EventId -> Seq(Attempt)]
  BY DEF AttemptsFollow
<1>5. lists \in [EventId -> Seq(Attempt)]
  BY <1>4
<1>. QED
  BY <1>1, <1>3, <1>4, <1>5

LEMMA CreateReplayKeepsMem ==
    ASSUME MemInv, NEW a \in ReplayId, NEW e \in EventId, NEW i \in InboxId, NEW no \in Nat,
           NEW at, NEW r \in ReplayId \cup {None}, CallCreateReplay(a, e, i, no, at, r)
    PROVE  MemInv'
<1>. DEFINE x == [id |-> a, no |-> AttemptNo(no)]
            row == [st |-> "live", event |-> e, inbox |-> i, no |-> AttemptNo(no), retryOf |-> r]
<1>1. StoreInv /\ StoreTypeOK /\ ReferencesHold /\ MapsFollow /\ AttemptsFollow
  BY DEF MemInv, StoreInv, MemPart
<1>2. x \in Attempt /\ x.id = a /\ x.no = AttemptNo(no)
  BY DEF Attempt, AttemptNo
<1>3. mem' = [mem EXCEPT !.replays[e] = Append(mem.replays[e], x)]
  BY <1>1 DEF CallCreateReplay, MapsFollow
<1>4. SameAnswer'
  BY DEF CallCreateReplay, Answered, Told, SameAnswer
<1>5. UNCHANGED <<inbox, event>>
  BY DEF CallCreateReplay, CreateReplay, Unchanged, storeVars
<1>. HIDE DEF x
<1>6. /\ MapsFollow' /\ mem'.replays \in [EventId -> Seq(Attempt)]
      /\ mem'.replays[e] = Append(mem.replays[e], x)
      /\ \A f \in EventId \ {e} : mem'.replays[f] = mem.replays[f]
  BY <1>1, <1>2, <1>3, <1>5, AttemptAppended
<1>7. LiveEvents' = LiveEvents
  BY <1>5 DEF LiveEvents
<1>8. \A f \in EventId : event'[f].st = "fresh" => mem'.replays[f] = <<>>
  BY <1>1, <1>5, <1>6 DEF AttemptsFollow, CallCreateReplay
<1>9. CASE e \in LiveEvents
  <2>1. event[e].st = "live" /\ event[e].inbox = i
    BY <1>9 DEF CallCreateReplay, LiveEvents
  <2>2. CreateReplay(a, e, i, no, r)
    BY <2>1 DEF CallCreateReplay
  <2>3. StoreInv'
    BY <1>1, <2>2, CreateReplayKeepsInv
  <2>4. replay' = [replay EXCEPT ![a] = row] /\ a \notin LiveReplays
    BY <2>2 DEF CreateReplay, LiveReplays
  <2>5. row.st = "live" /\ row.event = e /\ row.inbox = i /\ row.no = AttemptNo(no)
    OBVIOUS
  <2>. HIDE DEF row
  <2>6. /\ replay'[a] = row /\ \A b \in ReplayId \ {a} : replay'[b] = replay[b]
        /\ LiveReplays' = LiveReplays \cup {a} /\ LiveReplays \subseteq ReplayId
    BY <1>1, <2>4, <2>5 DEF StoreTypeOK, LiveReplays
  <2>7. PgAttempts(e)' = PgAttempts(e) \cup {a} /\ a \notin PgAttempts(e)
    BY <2>4, <2>5, <2>6 DEF PgAttempts
  <2>8. \A f \in EventId \ {e} : PgAttempts(f)' = PgAttempts(f)
    BY <2>4, <2>5, <2>6 DEF PgAttempts
  <2>9. Lists(mem'.replays[e], PgAttempts(e)')
    <3>1. mem.replays[e] \in Seq(Attempt) /\ Lists(mem.replays[e], PgAttempts(e))
      BY <1>1, <1>9 DEF AttemptsFollow
    <3>2. Lists(Append(mem.replays[e], x), PgAttempts(e) \cup {a})
      BY <1>2, <2>7, <3>1, ListsAppend
    <3>. QED
      BY <1>6, <2>7, <3>2
  <2>10. ASSUME NEW f \in LiveEvents'
         PROVE  Lists(mem'.replays[f], PgAttempts(f)')
    <3>1. f \in LiveEvents /\ f \in EventId
      BY <1>7 DEF LiveEvents
    <3>2. CASE f # e
      <4>1. Lists(mem.replays[f], PgAttempts(f))
        BY <1>1, <3>1 DEF AttemptsFollow
      <4>. QED
        BY <1>6, <2>8, <3>1, <3>2, <4>1
    <3>. QED
      BY <2>9, <3>2
  <2>11. \A b \in LiveReplays' : replay'[b].inbox = event'[replay'[b].event].inbox
    BY <1>1, <1>5, <2>1, <2>4, <2>5, <2>6 DEF AttemptsFollow
  <2>12. ASSUME NEW f \in LiveEvents'
         PROVE  Numbered(mem'.replays[f], replay')
    <3>1. f \in LiveEvents /\ f \in EventId
      BY <1>7 DEF LiveEvents
    <3>2. /\ mem.replays[f] \in Seq(Attempt) /\ Numbered(mem.replays[f], replay)
          /\ \A k \in DOMAIN mem.replays[f] : mem.replays[f][k].id \in LiveReplays
      BY <1>1, <3>1 DEF AttemptsFollow, Lists, PgAttempts
    <3>3. \A k \in DOMAIN mem.replays[f] : mem.replays[f][k].no = replay'[mem.replays[f][k].id].no
      BY <2>4, <2>6, <3>2 DEF Numbered
    <3>4. CASE f # e
      BY <1>6, <3>1, <3>3, <3>4 DEF Numbered
    <3>5. CASE f = e
      <4>. DEFINE s == mem.replays[e]
      <4>1. /\ DOMAIN Append(s, x) = DOMAIN s \cup {Len(s) + 1}
            /\ Append(s, x)[Len(s) + 1] = x /\ \A k \in DOMAIN s : Append(s, x)[k] = s[k]
        BY <3>2, <3>5
      <4>2. x.no = replay'[x.id].no
        BY <1>2, <2>5, <2>6
      <4>3. mem'.replays[f] = Append(s, x) /\ \A k \in DOMAIN s : s[k].no = replay'[s[k].id].no
        BY <1>6, <3>3, <3>5
      <4>. HIDE DEF s
      <4>. QED
        BY <4>1, <4>2, <4>3 DEF Numbered
    <3>. QED
      BY <3>4, <3>5
  <2>13. AttemptsFollow'
    BY <1>6, <1>8, <2>10, <2>11, <2>12 DEF AttemptsFollow
  <2>. QED
    BY <1>4, <1>6, <2>3, <2>13 DEF MemInv, MemPart
<1>10. CASE e \notin LiveEvents
  <2>1. UNCHANGED storeVars
    BY <1>10 DEF CallCreateReplay, CreateReplay, Unchanged, LiveEvents
  <2>2. UNCHANGED <<replay, event>> /\ LiveReplays' = LiveReplays
    BY <2>1 DEF storeVars, LiveReplays
  <2>3. StoreInv'
    BY <1>1, <2>1, StoreNextKeepsInv
  <2>4. ASSUME NEW f \in LiveEvents'
        PROVE  Lists(mem'.replays[f], PgAttempts(f)')
    <3>1. f \in LiveEvents /\ f \in EventId \ {e}
      BY <1>7, <1>10 DEF LiveEvents
    <3>2. PgAttempts(f)' = PgAttempts(f)
      BY <2>2 DEF PgAttempts
    <3>3. Lists(mem.replays[f], PgAttempts(f))
      BY <1>1, <3>1 DEF AttemptsFollow
    <3>. QED
      BY <1>6, <3>1, <3>2, <3>3
  <2>5. \A b \in LiveReplays' : replay'[b].inbox = event'[replay'[b].event].inbox
    BY <1>1, <2>2 DEF AttemptsFollow
  <2>6. \A f \in LiveEvents' : Numbered(mem'.replays[f], replay')
    BY <1>1, <1>6, <1>7, <1>10, <2>2 DEF AttemptsFollow, Numbered, LiveEvents
  <2>7. AttemptsFollow'
    BY <1>6, <1>8, <2>4, <2>5, <2>6 DEF AttemptsFollow
  <2>. QED
    BY <1>4, <1>6, <2>3, <2>7 DEF MemInv, MemPart
<1>. QED
  BY <1>9, <1>10

-----------------------------------------------------------------------------
LEMMA InitMemInv == MemInit => MemInv
<1>. SUFFICES ASSUME MemInit PROVE MemInv
  OBVIOUS
<1>1. StoreInv /\ LiveInboxes = {}
  BY InitStoreInv DEF MemInit
<1>2. LiveEvents = {} /\ LiveReplays = {}
  BY MissingRows DEF MemInit, StoreInit, LiveEvents, LiveReplays
<1>3. /\ mem = [inboxes |-> [i \in {} |-> 0], events |-> [e \in {} |-> 0],
                replays |-> [e \in EventId |-> <<>>]]
      /\ mem.inboxes = [i \in {} |-> 0] /\ mem.events = [e \in {} |-> 0]
      /\ mem.replays = [e \in EventId |-> <<>>]
  BY DEF MemInit
<1>4. MapsFollow
  BY <1>1, <1>2, <1>3 DEF MapsFollow
<1>5. AttemptsFollow
  BY <1>2, <1>3 DEF AttemptsFollow
<1>6. SameAnswer
  BY DEF MemInit, SameAnswer
<1>. QED
  BY <1>1, <1>4, <1>5, <1>6 DEF MemInv, MemPart

LEMMA MemNextKeepsInv == MemInv /\ [MemNext]_memVars => MemInv'
<1>. SUFFICES ASSUME MemInv, [MemNext]_memVars PROVE MemInv'
  OBVIOUS
<1>1. ASSUME NEW i \in InboxId, NEW o \in Owner, NEW t \in Token, NEW s \in Configs,
             CallCreateInbox(i, o, t, s)
      PROVE  MemInv'
  BY <1>1, StoreAssumption, CreateInboxKeepsMem
<1>2. ASSUME NEW i \in InboxId, NEW p \in Patches, CallUpdateInbox(i, p)
      PROVE  MemInv'
  BY <1>2, StoreAssumption, UpdateInboxKeepsMem
<1>3. ASSUME NEW i \in InboxId,
             \/ \E t \in Token : CallRotateToken(i, t)
             \/ CallDeleteInbox(i) \/ CallDeleteInboxEvents(i)
             \/ \E k \in Keep, d \in Days : CallPruneEvents(i, k, d)
      PROVE  MemInv'
  BY <1>3, RotateTokenKeepsMem, DeleteInboxKeepsMem, PrunesKeepMem
<1>4. ASSUME NEW e \in EventId, NEW i \in InboxId, NEW at \in 0 .. clock, CallCreateEvent(e, i, at)
      PROVE  MemInv'
  <2>1. at \in Nat
    BY DEF MemInv, StoreInv, StoreTypeOK
  <2>. QED
    BY <1>4, <2>1, CreateEventKeepsMem
<1>5. ASSUME NEW e \in EventId, CallDeleteEvent(e)
      PROVE  MemInv'
  BY <1>5, DeleteEventKeepsMem
<1>6. ASSUME NEW e \in EventId, NEW a \in ReplayId, NEW i \in InboxId, NEW no \in 0 .. MaxNo,
             NEW at \in 0 .. clock, NEW r \in ReplayId \cup {None}, r = None <=> no <= 1,
             CallCreateReplay(a, e, i, no, at, r)
      PROVE  MemInv'
  <2>1. no \in Nat
    BY StoreAssumption
  <2>. QED
    BY <1>6, <2>1, CreateReplayKeepsMem
<1>7. ASSUME UNCHANGED <<inbox, event, replay, mem, answer>>, Tick \/ UNCHANGED clock
      PROVE  MemInv'
  <2>1. StoreInv'
    BY <1>7, TickKeepsInv, StoreNextKeepsInv DEF MemInv, storeVars
  <2>. QED
    BY <1>7, <2>1, NothingWritten DEF MemInv, SameAnswer
<1>8. CASE Tick /\ UNCHANGED <<mem, stamps, answer>>
  BY <1>7, <1>8 DEF Tick
<1>9. CASE UNCHANGED memVars
  BY <1>7, <1>9 DEF memVars
<1>. QED
  BY <1>1, <1>2, <1>3, <1>4, <1>5, <1>6, <1>8, <1>9 DEF MemNext

(* Every row has the created_at it was stamped with: ids of either kind    *)
(* are never used twice.                                                   *)
LEMMA StampsStay ==
    ASSUME StampsHold, LiveInboxes' \subseteq LiveInboxes, LiveReplays' \subseteq LiveReplays,
           UNCHANGED stamps
    PROVE  StampsHold'
  BY DEF StampsHold, stamps

LEMMA RowsRemoved ==
    ASSUME StampsHold, StoreTypeOK, NEW R \in SUBSET ReplayId, RemoveReplays(R),
           LiveInboxes' \subseteq LiveInboxes, UNCHANGED stamps
    PROVE  StampsHold'
<1>1. LiveReplays' = LiveReplays \ R
  BY ReplaysLeft
<1>. QED
  BY <1>1, StampsStay

LEMMA MemNextKeepsStamps ==
    ASSUME StampsHold, MemInv, [MemNext]_memVars
    PROVE  StampsHold'
<1>1. StoreTypeOK /\ clock \in Nat /\ MapsFollow
  BY DEF MemInv, StoreInv, StoreTypeOK, MemPart
<1>2. \A E, I : CascadedReplays(E, I) \in SUBSET ReplayId
  BY DEF CascadedReplays, LiveReplays
<1>3. ASSUME inbox' = inbox, replay' = replay, UNCHANGED stamps
      PROVE  StampsHold'
  BY <1>3, StampsStay DEF LiveInboxes, LiveReplays
<1>4. ASSUME NEW E, DeleteEvents(E), UNCHANGED stamps
      PROVE  StampsHold'
  <2>1. LiveInboxes' = LiveInboxes /\ RemoveReplays(CascadedReplays(E, {}))
    BY <1>4 DEF DeleteEvents, LiveInboxes
  <2>. QED
    BY <1>1, <1>2, <1>4, <2>1, RowsRemoved
<1>5. ASSUME NEW i \in InboxId, NEW o, NEW t, NEW s, CallCreateInbox(i, o, t, s)
      PROVE  StampsHold'
  <2>1. madeAt' = madeAt /\ LiveReplays' = LiveReplays
    BY <1>5 DEF CallCreateInbox, CreateInbox, Unchanged, storeVars, LiveReplays
  <2>2. (\E j \in DOMAIN mem.inboxes : mem.inboxes[j].token = t) <=> ~TokenFree(i, t)
    <3>1. i \notin LiveInboxes
      BY <1>5 DEF CallCreateInbox, LiveInboxes
    <3>. QED
      BY <1>1, <3>1, MemEvents DEF TokenFree
  <2>3. CASE TokenFree(i, t)
    <3>1. bornAt' = [bornAt EXCEPT ![i] = clock] /\ LiveInboxes' \subseteq LiveInboxes \cup {i}
      BY <1>1, <1>5, <2>2, <2>3 DEF CallCreateInbox, CreateInbox, StoreTypeOK, LiveInboxes
    <3>2. bornAt'[i] = clock /\ \A j \in InboxId \ {i} : bornAt'[j] = bornAt[j]
      BY <3>1 DEF StampsHold
    <3>. QED
      BY <1>1, <2>1, <3>1, <3>2 DEF StampsHold, LiveInboxes
  <2>4. CASE ~TokenFree(i, t)
    <3>1. bornAt' = bornAt /\ inbox' = inbox
      BY <1>5, <2>2, <2>4 DEF CallCreateInbox, CreateInbox, Unchanged, storeVars
    <3>. QED
      BY <2>1, <3>1, StampsStay DEF LiveInboxes, stamps
  <2>. QED
    BY <2>3, <2>4
<1>6. ASSUME NEW i \in InboxId,
             \/ \E p \in Patches : CallUpdateInbox(i, p)
             \/ \E t \in Token : CallRotateToken(i, t)
      PROVE  StampsHold'
  <2>1. UNCHANGED stamps /\ replay' = replay
    BY <1>6 DEF CallUpdateInbox, CallRotateToken, UpdateInbox, RotateToken, Unchanged, storeVars
  <2>2. LiveInboxes' \subseteq LiveInboxes
    BY <1>1, <1>6 DEF CallUpdateInbox, CallRotateToken, UpdateInbox, RotateToken, Unchanged,
                      storeVars, LiveInboxes, StoreTypeOK
  <2>. QED
    BY <2>1, <2>2, StampsStay DEF LiveReplays
<1>7. ASSUME NEW i \in InboxId, CallDeleteInbox(i)
      PROVE  StampsHold'
  <2>1. UNCHANGED stamps
    BY <1>7 DEF CallDeleteInbox
  <2>2. CASE DeleteInbox(i)
    <3>1. LiveInboxes' \subseteq LiveInboxes
      BY <1>1, <2>2, MissingRows DEF DeleteInbox, StoreTypeOK, LiveInboxes
    <3>2. RemoveReplays(CascadedReplays(EventsOf(i), {i}))
      BY <2>2 DEF DeleteInbox
    <3>. QED
      BY <1>1, <1>2, <2>1, <3>1, <3>2, RowsRemoved
  <2>3. CASE Unchanged
    BY <1>3, <2>1, <2>3 DEF Unchanged, storeVars
  <2>. QED
    BY <1>7, <2>2, <2>3 DEF CallDeleteInbox
<1>8. ASSUME NEW i, NEW k, NEW d, CallDeleteInboxEvents(i) \/ CallPruneEvents(i, k, d)
      PROVE  StampsHold'
  BY <1>4, <1>8 DEF CallDeleteInboxEvents, CallPruneEvents, DeleteInboxEvents
<1>9. ASSUME NEW e, NEW i, NEW at, CallCreateEvent(e, i, at)
      PROVE  StampsHold'
  BY <1>3, <1>9 DEF CallCreateEvent, CreateEvent, Unchanged, storeVars
<1>10. ASSUME NEW e, CallDeleteEvent(e)
       PROVE  StampsHold'
  BY <1>3, <1>4, <1>10 DEF CallDeleteEvent, DeleteEvent, Unchanged, storeVars
<1>11. ASSUME NEW e, NEW a \in ReplayId, NEW i, NEW no, NEW at \in 0 .. clock, NEW r,
              CallCreateReplay(a, e, i, no, at, r)
       PROVE  StampsHold'
  <2>1. bornAt' = bornAt /\ inbox' = inbox
    BY <1>11 DEF CallCreateReplay, CreateReplay, Unchanged, storeVars
  <2>2. LiveReplays' \subseteq LiveReplays \cup {a}
    BY <1>1, <1>11 DEF CallCreateReplay, CreateReplay, Unchanged, storeVars, StoreTypeOK, LiveReplays
  <2>3. madeAt' = [madeAt EXCEPT ![a] = at] /\ at \in Nat
    BY <1>1, <1>11 DEF CallCreateReplay
  <2>4. madeAt'[a] = at /\ \A b \in ReplayId \ {a} : madeAt'[b] = madeAt[b]
    BY <2>3 DEF StampsHold
  <2>. QED
    BY <2>1, <2>2, <2>3, <2>4 DEF StampsHold, LiveInboxes, LiveReplays
<1>12. CASE Tick /\ UNCHANGED <<mem, stamps, answer>>
  BY <1>3, <1>12 DEF Tick
<1>13. CASE UNCHANGED memVars
  BY <1>3, <1>13 DEF memVars, stamps
<1>. QED
  BY <1>5, <1>6, <1>7, <1>8, <1>9, <1>10, <1>11, <1>12, <1>13 DEF MemNext

LEMMA MemInvariance == MemSpec => [](MemInv /\ StampsHold)
<1>1. MemInit => MemInv /\ StampsHold
  <2>1. MemInit => LiveReplays = {}
    BY MissingRows DEF MemInit, StoreInit, LiveReplays
  <2>. QED
    BY <2>1, InitMemInv DEF MemInit, StampsHold
<1>. QED
  BY <1>1, MemNextKeepsInv, MemNextKeepsStamps, PTL DEF MemSpec
-----------------------------------------------------------------------------
(* Listings of the same rows.                                              *)

(* One page: both clamp it to the rows there are.                          *)
LEMMA SamePage ==
    ASSUME NEW n \in Nat, NEW X, NEW s \in [1 .. n -> X], NEW l \in Nat \ {0}, NEW o \in Nat
    PROVE  Len(s) = n /\ MemPage(s, l, o) = PgPage(s, l, o)
<1>. DEFINE from == IF o > n THEN n ELSE o
            to   == IF from + l > n THEN n ELSE from + l
            rows == (o + 1 .. o + l) \cap (1 .. n)
<1>1. s \in Seq(X) /\ Len(s) = n /\ DOMAIN s = 1 .. n
  OBVIOUS
<1>2. from \in 0 .. n /\ to \in from .. n /\ from <= o
  OBVIOUS
<1>3. MemPage(s, l, o) = SubSeq(s, from + 1, to)
  BY <1>1 DEF MemPage
<1>4. Cardinality(rows) = to - from
  <2>1. CASE o > n
    <3>1. rows = {} /\ to = n /\ from = n
      BY <2>1
    <3>. QED
      BY <3>1, FS_EmptySet
  <2>2. CASE o <= n
    <3>1. rows = o + 1 .. to /\ from = o
      BY <2>2
    <3>2. o + 1 \in Int /\ to \in Int /\ to \in o .. n
      BY <1>2, <3>1
    <3>. HIDE DEF to, from, rows
    <3>3. Cardinality(o + 1 .. to) = IF o + 1 > to THEN 0 ELSE to - (o + 1) + 1
      BY <3>2, FS_Interval
    <3>. QED
      BY <3>1, <3>2, <3>3
  <2>. QED
    BY <2>1, <2>2
<1>5. PgPage(s, l, o) = [k \in 1 .. to - from |-> s[o + k]]
  BY <1>1, <1>4 DEF PgPage
<1>6. \A k \in 1 .. to - from : k + from \in 1 .. n /\ from = o
  BY <1>2
<1>. HIDE DEF from, to
<1>7. \A k \in from + 1 .. to : s[k] \in X
  BY <1>2
<1>8. /\ SubSeq(s, from + 1, to) \in Seq(X)
      /\ Len(SubSeq(s, from + 1, to)) = to - from
      /\ \A k \in 1 .. to - from : SubSeq(s, from + 1, to)[k] = s[from + k]
  <2>1. from + 1 \in Int /\ to \in Int /\ to - (from + 1) + 1 = to - from
    BY <1>2
  <2>2. /\ SubSeq(s, from + 1, to) \in Seq(X)
        /\ Len(SubSeq(s, from + 1, to)) = IF from + 1 <= to THEN to - (from + 1) + 1 ELSE 0
        /\ \A k \in 1 .. to - (from + 1) + 1 : SubSeq(s, from + 1, to)[k] = s[from + 1 + k - 1]
    BY <1>7, <2>1, SubSeqProperties
  <2>. QED
    BY <1>2, <2>1, <2>2
<1>9. SubSeq(s, from + 1, to) = [k \in 1 .. to - from |-> s[o + k]]
  <2>1. DOMAIN SubSeq(s, from + 1, to) = 1 .. to - from
    BY <1>8
  <2>. QED
    BY <1>6, <1>8, <2>1
<1>. QED
  BY <1>1, <1>3, <1>5, <1>9

(* The same rows have the same pages.                                      *)
LEMMA SameRows ==
    ASSUME NEW n \in Nat, NEW X, NEW s \in [1 .. n -> X]
    PROVE  SamePages(s, s)
<1>1. ASSUME NEW l \in Limit, NEW o \in Offset
      PROVE  MemPage(s, l, o) = PgPage(s, l, o)
  <2>1. l \in Nat \ {0} /\ o \in Nat
    BY MemAssumption
  <2>. QED
    BY <2>1, SamePage
<1>. QED
  BY <1>1 DEF SamePages

(* A listing has as many rows as there are events.                         *)
LEMMA ListingIsSequence ==
    ASSUME NEW S \in SUBSET EventId
    PROVE  /\ Cardinality(S) \in Nat
           /\ \E X : InOrder(S, Newer) \in [1 .. Cardinality(S) -> X]
<1>1. Cardinality(S) \in Nat
  BY StoreAssumption, FS_Subset, FS_CardinalityType
<1>2. DOMAIN InOrder(S, Newer) = 1 .. Cardinality(S)
  BY DEF InOrder
<1>. DEFINE s == InOrder(S, Newer)
            X == {s[k] : k \in 1 .. Cardinality(S)}
<1>3. s = [k \in 1 .. Cardinality(S) |-> s[k]]
  BY DEF InOrder
<1>. HIDE DEF s
<1>4. s \in [1 .. Cardinality(S) -> X]
  BY <1>3
<1>. QED
  BY <1>1, <1>4 DEF s

LEMMA SameListings ==
    ASSUME MapsFollow, NEW i, NEW w
    PROVE  MemListEvents(i, w) = PgListEvents(i, w)
<1>. DEFINE S == {e \in EventsOf(i) : Within(event[e].at, w)}
            T == {e \in MemEventsOf(i) : Within(mem.events[e].at, w)}
            place(k) == {e \in S : Cardinality({f \in S : Newer(f, e)}) = k - 1}
            memPlace(k) == {e \in T : Cardinality({f \in T : MemNewer(f, e)}) = k - 1}
<1>1. EventsOf(i) \subseteq LiveEvents /\ S \subseteq LiveEvents
  BY DEF EventsOf
<1>2. T = S
  BY <1>1, MemEvents
<1>3. MemListEvents(i, w) = [k \in 1 .. Cardinality(T) |-> CHOOSE e \in memPlace(k) : TRUE]
  BY DEF MemListEvents, InOrder
<1>4. PgListEvents(i, w) = [k \in 1 .. Cardinality(S) |-> CHOOSE e \in place(k) : TRUE]
  BY DEF PgListEvents, InOrder
<1>. HIDE DEF S, T
<1>5. ASSUME NEW k
      PROVE  memPlace(k) = place(k)
  <2>1. ASSUME NEW e \in S
        PROVE  {f \in T : MemNewer(f, e)} = {f \in S : Newer(f, e)}
    BY <1>1, <1>2, MemEvents
  <2>. QED
    BY <1>2, <2>1
<1>. HIDE DEF memPlace, place
<1>. QED
  BY <1>2, <1>3, <1>4, <1>5

-----------------------------------------------------------------------------
(* Sorted sequences.                                                       *)

(* A strict total order on a finite set puts a member at every place.      *)
LEMMA Ranking ==
    ASSUME NEW S, IsFiniteSet(S), NEW R,
           \A a \in S : <<a, a>> \notin R,
           \A a, b, c \in S : <<a, b>> \in R /\ <<b, c>> \in R => <<a, c>> \in R,
           \A a, b \in S : a = b \/ <<a, b>> \in R \/ <<b, a>> \in R
    PROVE  \A k \in 1 .. Cardinality(S) :
              \E e \in S : Cardinality({f \in S : <<f, e>> \in R}) = k - 1
<1>. DEFINE before(e) == {f \in S : <<f, e>> \in R}
            n == Cardinality(S)
            place == [e \in S |-> Cardinality(before(e)) + 1]
<1>1. n \in Nat
  BY FS_CardinalityType
<1>2. ASSUME NEW e \in S
      PROVE  IsFiniteSet(before(e)) /\ Cardinality(before(e)) \in 0 .. n - 1
  <2>1. before(e) \in SUBSET (S \ {e})
    OBVIOUS
  <2>2. IsFiniteSet(S \ {e}) /\ Cardinality(S \ {e}) = n - 1
    BY FS_RemoveElement
  <2>. HIDE DEF before, n
  <2>3. IsFiniteSet(before(e)) /\ Cardinality(before(e)) <= n - 1
    BY <2>1, <2>2, FS_Subset
  <2>4. Cardinality(before(e)) \in Nat
    BY <2>3, FS_CardinalityType
  <2>. QED
    BY <1>1, <2>3, <2>4
<1>3. ASSUME NEW a \in S, NEW b \in S, <<a, b>> \in R
      PROVE  Cardinality(before(a)) < Cardinality(before(b))
  <2>1. before(a) \subseteq before(b) /\ a \in before(b) /\ a \notin before(a)
    BY <1>3
  <2>2. IsFiniteSet(before(a)) /\ Cardinality(before(a)) \in Nat
    BY <1>2
  <2>3. IsFiniteSet(before(b)) /\ Cardinality(before(b)) \in Nat
    BY <1>2
  <2>. HIDE DEF before
  <2>4. /\ Cardinality(before(a)) <= Cardinality(before(b))
        /\ Cardinality(before(a)) # Cardinality(before(b))
    BY <2>1, <2>3, FS_Subset
  <2>. QED
    BY <2>2, <2>3, <2>4
<1>4. \A e \in S : place[e] = Cardinality(before(e)) + 1
  OBVIOUS
<1>5. place \in [S -> 1 .. n]
  <2>1. \A e \in S : Cardinality(before(e)) \in 0 .. n - 1
    BY <1>2
  <2>. HIDE DEF before, n
  <2>. QED
    BY <1>1, <2>1
<1>. HIDE DEF before, place, n
<1>6. \A e \in S : Cardinality(before(e)) \in Int
  BY <1>2
<1>7. place \in Injection(S, 1 .. n)
  <2>1. ASSUME NEW a \in S, NEW b \in S, place[a] = place[b]
        PROVE  a = b
    <3>1. Cardinality(before(a)) = Cardinality(before(b))
      BY <1>4, <1>6, <2>1
    <3>2. <<a, b>> \notin R
      BY <1>3, <1>6, <3>1
    <3>3. <<b, a>> \notin R
      BY <1>3, <1>6, <3>1
    <3>. QED
      BY <3>2, <3>3
  <2>. QED
    BY <1>5, <2>1 DEF Injection, IsInjective
<1>8. place \in Surjection(S, 1 .. n)
  <2>1. IsFiniteSet(1 .. n) /\ Cardinality(1 .. n) = n
    <3>1. /\ IsFiniteSet(1 .. n)
          /\ Cardinality(1 .. n) = IF 1 > n THEN 0 ELSE n - 1 + 1
      BY <1>1, FS_Interval
    <3>. QED
      BY <1>1, <3>1
  <2>2. Cardinality(S) = Cardinality(1 .. n) <=> place \in Surjection(S, 1 .. n)
    BY <1>7, <2>1, FS_Injection
  <2>. QED
    BY <2>1, <2>2 DEF n
<1>9. ASSUME NEW k \in 1 .. n
      PROVE  \E e \in S : Cardinality(before(e)) = k - 1
  <2>1. PICK e \in S : place[e] = k
    BY <1>8 DEF Surjection
  <2>. QED
    BY <1>4, <1>6, <2>1
<1>. QED
  BY <1>9 DEF before, n

(* The rows of a listing: one for each member of the set, in its place.    *)
LEMMA InboxesInOrder ==
    ASSUME StampsHold, NEW S \in SUBSET LiveInboxes
    PROVE  Cardinality(S) \in Nat /\ InOrder(S, Younger) \in [1 .. Cardinality(S) -> S]
<1>. DEFINE R == {p \in S \X S : Younger(p[1], p[2])}
            n == Cardinality(S)
            Place(k) == {e \in S : Cardinality({f \in S : Younger(f, e)}) = k - 1}
<1>1. IsFiniteSet(S) /\ n \in Nat
  <2>1. S \in SUBSET InboxId
    BY DEF LiveInboxes
  <2>. QED
    BY <2>1, MemAssumption, FS_Subset, FS_CardinalityType
<1>2. \A i, j \in S : <<i, j>> \in R <=> Younger(i, j)
  OBVIOUS
<1>3. \A i \in S : i \in Nat /\ bornAt[i] \in Nat
  BY MemAssumption DEF StampsHold, LiveInboxes
<1>4. /\ \A i \in S : ~Younger(i, i)
      /\ \A i, j, k \in S : Younger(i, j) /\ Younger(j, k) => Younger(i, k)
      /\ \A i, j \in S : i = j \/ Younger(i, j) \/ Younger(j, i)
  BY <1>3 DEF Younger
<1>5. \A k \in 1 .. n : \E e \in S : Cardinality({f \in S : <<f, e>> \in R}) = k - 1
  <2>. HIDE DEF R
  <2>. QED
    BY <1>1, <1>2, <1>4, Ranking
<1>6. \A e \in S : {f \in S : <<f, e>> \in R} = {f \in S : Younger(f, e)}
  BY <1>2
<1>7. \A k \in 1 .. n : Place(k) # {}
  <2>. HIDE DEF R
  <2>. QED
    BY <1>5, <1>6
<1>8. InOrder(S, Younger) = [k \in 1 .. n |-> CHOOSE e \in Place(k) : TRUE]
  BY DEF InOrder
<1>9. \A k \in 1 .. n : (CHOOSE e \in Place(k) : TRUE) \in Place(k)
  BY <1>7
<1>10. \A k : Place(k) \subseteq S
  OBVIOUS
<1>. HIDE DEF Place
<1>. QED
  BY <1>1, <1>8, <1>9, <1>10


LEMMA SameTokens ==
    ASSUME MapsFollow
    PROVE  \A t : MemByToken(t) = PgByToken(t)
  BY MemEvents DEF MemByToken, PgByToken

(* ListInboxes: the same ids in the same order, each with the same row and *)
(* counters.                                                               *)
LEMMA SameInboxes ==
    ASSUME MapsFollow, StampsHold, NEW o, NEW enabled
    PROVE  SamePages(MemListInboxes(o, enabled), PgListInboxes(o, enabled))
<1>. DEFINE I == {j \in LiveInboxes : /\ o \in {None, inbox[j].owner}
                                      /\ enabled \in {None, inbox[j].cfg.enabled}}
            ids == InOrder(I, Younger)
            n == Cardinality(I)
            pgRow(i) == [id |-> i, owner |-> inbox[i].owner, token |-> inbox[i].token,
                         cfg |-> inbox[i].cfg, count |-> Cardinality(EventsOf(i)),
                         last |-> Latest({event[e].at : e \in EventsOf(i)})]
            memRow(i) == [id |-> i, owner |-> mem.inboxes[i].owner,
                          token |-> mem.inboxes[i].token, cfg |-> mem.inboxes[i].cfg,
                          count |-> Cardinality(MemEventsOf(i)),
                          last |-> Latest({mem.events[e].at : e \in MemEventsOf(i)})]
<1>1. {j \in DOMAIN mem.inboxes : /\ o \in {None, mem.inboxes[j].owner}
                                  /\ enabled \in {None, mem.inboxes[j].cfg.enabled}} = I
  BY MemEvents
<1>2. \A i \in LiveInboxes : memRow(i) = pgRow(i)
  <2>1. \A i : MemEventsOf(i) = EventsOf(i) /\ EventsOf(i) \subseteq LiveEvents
    BY MemEvents DEF EventsOf
  <2>2. \A i : {mem.events[e].at : e \in MemEventsOf(i)} = {event[e].at : e \in EventsOf(i)}
    BY <2>1, MemEvents
  <2>. QED
    BY <2>1, <2>2, MemEvents
<1>3. MemListInboxes(o, enabled) = [k \in DOMAIN ids |-> memRow(ids[k])]
  BY <1>1 DEF MemListInboxes
<1>4. PgListInboxes(o, enabled) = [k \in DOMAIN ids |-> pgRow(ids[k])]
  BY DEF PgListInboxes
<1>5. n \in Nat /\ ids \in [1 .. n -> I] /\ I \subseteq LiveInboxes
  <2>1. I \in SUBSET LiveInboxes
    OBVIOUS
  <2>. HIDE DEF I
  <2>. QED
    BY <2>1, InboxesInOrder
<1>. HIDE DEF I, ids, n, pgRow, memRow
<1>6. MemListInboxes(o, enabled) = PgListInboxes(o, enabled)
  BY <1>2, <1>3, <1>4, <1>5
<1>7. PgListInboxes(o, enabled) \in [1 .. n -> {pgRow(i) : i \in I}]
  BY <1>4, <1>5
<1>. QED
  BY <1>5, <1>6, <1>7, SameRows

(* Attempts: as many as ids, and the last one is one of the newest.        *)
LEMMA SmallestIndex ==
    ASSUME NEW T \in SUBSET Nat, T # {}
    PROVE  \E m \in T : \A k \in T : m <= k
<1>1. \E m \in T : \A k \in T : ~ (<<k, m>> \in OpToRel(<, Nat))
  BY NatLessThanWellFounded, WFMin, Zenon
<1>2. PICK m \in T : \A k \in T : ~ (<<k, m>> \in OpToRel(<, Nat))
  BY <1>1, Zenon
<1>3. ASSUME NEW k \in T
      PROVE  m <= k
  <2>1. ~ (k < m)
    BY <1>2, <1>3 DEF OpToRel
  <2>. QED
    BY <2>1
<1>. QED
  BY <1>3

LEMMA SameLast ==
    ASSUME AttemptsFollow, NEW e \in LiveEvents
    PROVE  /\ {mem.replays[e][k].id : k \in DOMAIN mem.replays[e]} = PgAttempts(e)
           /\ Len(mem.replays[e]) = Cardinality(PgAttempts(e))
           /\ MemLast(e) \subseteq PgLast(e)
           /\ (PgLast(e) # {}) => (MemLast(e) # {})
<1>. DEFINE s == mem.replays[e]
            newest == {k \in DOMAIN s : \A l \in DOMAIN s : madeAt[s[l].id] <= madeAt[s[k].id]}
<1>1. s \in Seq(Attempt) /\ Lists(s, PgAttempts(e))
  BY DEF AttemptsFollow, LiveEvents
<1>2. DOMAIN s = 1 .. Len(s) /\ Len(s) \in Nat
  BY <1>1
<1>. HIDE DEF s
<1>3. Len(s) = Cardinality(PgAttempts(e))
  <2>. DEFINE idOf == [k \in 1 .. Len(s) |-> s[k].id]
  <2>1. idOf \in Injection(1 .. Len(s), PgAttempts(e))
    BY <1>1, <1>2 DEF Lists, Injection, IsInjective
  <2>2. idOf \in Surjection(1 .. Len(s), PgAttempts(e))
    BY <1>1, <1>2 DEF Lists, Surjection
  <2>3. ExistsBijection(1 .. Len(s), PgAttempts(e))
    BY <2>1, <2>2 DEF Bijection, ExistsBijection
  <2>4. IsFiniteSet(1 .. Len(s)) /\ Cardinality(1 .. Len(s)) = Len(s)
    <3>1. 1 \in Int /\ Len(s) \in Int
      BY <1>2
    <3>2. /\ IsFiniteSet(1 .. Len(s))
          /\ Cardinality(1 .. Len(s)) = IF 1 > Len(s) THEN 0 ELSE Len(s) - 1 + 1
      BY <3>1, FS_Interval
    <3>. QED
      BY <1>2, <3>2
  <2>. QED
    BY <2>3, <2>4, FS_Bijection
<1>4. \A k \in newest : s[k].id \in PgLast(e)
  BY <1>1 DEF Lists, PgLast
<1>5. MemLast(e) = {s[k].id : k \in {j \in newest : \A l \in newest : j <= l}}
  BY DEF MemLast, s
<1>6. ASSUME NEW a \in PgLast(e)
      PROVE  \E k : k \in newest
  <2>1. PICK k \in DOMAIN s : s[k].id = a
    BY <1>1 DEF PgLast, Lists
  <2>2. \A l \in DOMAIN s : madeAt[s[l].id] <= madeAt[s[k].id]
    BY <1>1, <2>1 DEF PgLast, Lists
  <2>. QED
    BY <2>1, <2>2
<1>7. newest \in SUBSET Nat
  BY <1>2
<1>. HIDE DEF newest
<1>8. ASSUME PgLast(e) # {}
      PROVE  MemLast(e) # {}
  <2>1. newest # {}
    BY <1>6, <1>8
  <2>. QED
    BY <1>5, <1>7, <2>1, SmallestIndex
<1>. QED
  BY <1>1, <1>3, <1>4, <1>5, <1>8 DEF Lists, s

-----------------------------------------------------------------------------
(* The exchange sort of ListReplays.                                       *)

(* From a to b, a step at a time.                                          *)
LEMMA Ascending ==
    ASSUME NEW a \in Nat, NEW b \in Nat, NEW T, a \in T,
           \A j \in a + 1 .. b : j - 1 \in T => j \in T
    PROVE  \A j \in a .. b : j \in T
<1>. DEFINE U == {j \in a .. b : j \notin T}
<1>1. SUFFICES ASSUME U # {} PROVE FALSE
  OBVIOUS
<1>2. U \in SUBSET Nat
  OBVIOUS
<1>3. PICK m \in U : \A k \in U : m <= k
  BY <1>1, <1>2, SmallestIndex
<1>4. m \in a + 1 .. b /\ m - 1 \in a .. b /\ m - 1 \notin U
  BY <1>3
<1>. QED
  BY <1>3, <1>4

(* What a pass at place i may do to a list: rearrange it from i on.        *)
Rearranged(u, s, i) ==
    /\ u \in [1 .. Len(s) -> Attempt]
    /\ \A k \in 1 .. Len(s) : k < i => u[k] = s[k]
    /\ \A k \in i .. Len(s) : \E l \in i .. Len(s) : u[k] = s[l]
    /\ \A k, l \in 1 .. Len(s) : u[k].id = u[l].id => k = l
    /\ \A l \in 1 .. Len(s) : \E k \in 1 .. Len(s) : u[k] = s[l]

(* A list to sort: no id twice, and every attempt has its time.            *)
Sortable(s) ==
    /\ s \in Seq(Attempt)
    /\ \A k, l \in 1 .. Len(s) : s[k].id = s[l].id => k = l
    /\ \A k \in 1 .. Len(s) : madeAt[s[k].id] \in Nat

LEMMA ExchangeRearranges ==
    ASSUME NEW s \in Seq(Attempt), NEW i \in 1 .. Len(s), NEW j \in i + 1 .. Len(s), NEW u,
           Rearranged(u, s, i)
    PROVE  /\ Rearranged(Exchange(u, i, j), s, i)
           /\ \A k \in 1 .. Len(s) : k \notin {i, j} => Exchange(u, i, j)[k] = u[k]
           /\ IF madeAt[u[j].id] > madeAt[u[i].id]
              THEN Exchange(u, i, j)[i] = u[j] /\ Exchange(u, i, j)[j] = u[i]
              ELSE Exchange(u, i, j) = u
<1>. DEFINE n == Len(s)
            v == Exchange(u, i, j)
<1>1. n \in Nat /\ i \in 1 .. n /\ j \in 1 .. n /\ i < j /\ i \in i .. n /\ j \in i .. n
  OBVIOUS
<1>2. u \in [1 .. n -> Attempt]
  BY DEF Rearranged
<1>3. CASE madeAt[u[j].id] > madeAt[u[i].id]
  <2>1. v = [u EXCEPT ![i] = u[j], ![j] = u[i]]
    BY <1>3 DEF Exchange
  <2>. HIDE DEF n, v
  <2>2. /\ v \in [1 .. n -> Attempt] /\ v[i] = u[j] /\ v[j] = u[i]
        /\ \A k \in 1 .. n : k \notin {i, j} => v[k] = u[k]
    BY <1>1, <1>2, <2>1
  <2>3. \A k \in 1 .. n : k < i => v[k] = s[k]
    <3>1. \A k \in 1 .. n : k < i => u[k] = s[k]
      BY DEF Rearranged, n
    <3>2. \A k \in 1 .. n : k < i => k \notin {i, j}
      BY <1>1
    <3>. QED
      BY <2>2, <3>1, <3>2
  <2>4. \A k \in i .. n : \E l \in i .. n : v[k] = s[l]
    <3>1. \A k \in i .. n : \E l \in i .. n : u[k] = s[l]
      BY DEF Rearranged, n
    <3>2. \A k \in i .. n : k \in 1 .. n
      BY <1>1
    <3>. QED
      BY <1>1, <2>2, <3>1, <3>2
  <2>5. \A k, l \in 1 .. n : v[k].id = v[l].id => k = l
    <3>1. \A k, l \in 1 .. n : u[k].id = u[l].id => k = l
      BY DEF Rearranged, n
    <3>. QED
      BY <1>1, <2>2, <3>1
  <2>6. \A l \in 1 .. n : \E k \in 1 .. n : v[k] = s[l]
    <3>1. \A l \in 1 .. n : \E k \in 1 .. n : u[k] = s[l]
      BY DEF Rearranged, n
    <3>. QED
      BY <1>1, <2>2, <3>1
  <2>7. Rearranged(v, s, i)
    BY <2>2, <2>3, <2>4, <2>5, <2>6 DEF Rearranged, n
  <2>. QED
    BY <1>3, <2>2, <2>7 DEF n, v
<1>4. CASE ~(madeAt[u[j].id] > madeAt[u[i].id])
  BY <1>4 DEF Exchange
<1>. QED
  BY <1>3, <1>4

(* The inner loop is a loop: its function exists.                          *)
LEMMA PassRuns ==
    ASSUME NEW s \in Seq(Attempt), NEW i \in 1 .. Len(s)
    PROVE  \E f : /\ f = [j \in i .. Len(s) |-> IF j = i THEN s ELSE Exchange(f[j - 1], i, j)]
                  /\ Pass(s, i) = f[Len(s)]
<1>. DEFINE n == Len(s)
            upTo[j \in i .. n] == IF j = i THEN s ELSE Exchange(upTo[j - 1], i, j)
            T == {m \in i .. n : \E f :
                    f = [j \in i .. m |-> IF j = i THEN s ELSE Exchange(f[j - 1], i, j)]}
<1>1. n \in Nat /\ i \in Nat /\ i <= n
  OBVIOUS
<1>2. i \in T
  <2>. DEFINE f == [j \in i .. i |-> s]
  <2>1. f = [j \in i .. i |-> IF j = i THEN s ELSE Exchange(f[j - 1], i, j)]
    BY <1>1
  <2>. HIDE DEF f
  <2>. QED
    BY <1>1, <2>1
<1>3. ASSUME NEW m \in i + 1 .. n, m - 1 \in T
      PROVE  m \in T
  <2>1. PICK f : f = [j \in i .. m - 1 |-> IF j = i THEN s ELSE Exchange(f[j - 1], i, j)]
    BY <1>3
  <2>. DEFINE g == [j \in i .. m |-> IF j = m THEN Exchange(f[m - 1], i, m) ELSE f[j]]
  <2>2. m \in i .. n /\ m # i
    BY <1>1
  <2>3. ASSUME NEW j \in i .. m
        PROVE  g[j] = IF j = i THEN s ELSE Exchange(g[j - 1], i, j)
    <3>1. j = i \/ (j - 1 \in i .. m /\ j - 1 # m)
      BY <1>1, <2>2
    <3>2. j = m \/ j \in i .. m - 1
      BY <1>1, <2>2
    <3>3. ASSUME j # i
          PROVE  g[j - 1] = f[j - 1]
      BY <3>1, <3>3
    <3>4. CASE j = m
      BY <2>2, <3>3, <3>4
    <3>5. CASE j # m
      <4>1. g[j] = f[j]
        BY <3>5
      <4>2. f[j] = IF j = i THEN s ELSE Exchange(f[j - 1], i, j)
        BY <2>1, <3>2, <3>5
      <4>. HIDE DEF g
      <4>. QED
        BY <3>3, <4>1, <4>2
    <3>. QED
      BY <3>4, <3>5
  <2>4. g = [j \in i .. m |-> g[j]]
    OBVIOUS
  <2>. HIDE DEF g
  <2>5. g = [j \in i .. m |-> IF j = i THEN s ELSE Exchange(g[j - 1], i, j)]
    BY <2>3, <2>4
  <2>. QED
    BY <2>2, <2>5
<1>4. n \in T
  <2>. HIDE DEF T, n
  <2>1. \A j \in i .. n : j \in T
    BY <1>1, <1>2, <1>3, Ascending
  <2>. QED
    BY <1>1, <2>1
<1>5. \E f : f = [j \in i .. n |-> IF j = i THEN s ELSE Exchange(f[j - 1], i, j)]
  BY <1>4
<1>6. upTo = [j \in i .. n |-> IF j = i THEN s ELSE Exchange(upTo[j - 1], i, j)]
  BY <1>5
<1>7. Pass(s, i) = upTo[n]
  BY DEF Pass
<1>. HIDE DEF upTo
<1>. QED
  BY <1>6, <1>7

(* A pass rearranges the list from i on, and leaves at i an attempt with   *)
(* the newest of those times.                                              *)
LEMMA PassSelects ==
    ASSUME NEW s, Sortable(s), NEW i \in 1 .. Len(s)
    PROVE  /\ Rearranged(Pass(s, i), s, i)
           /\ \A k \in i .. Len(s) : madeAt[Pass(s, i)[k].id] <= madeAt[Pass(s, i)[i].id]
<1>. DEFINE n == Len(s)
            Selects(u, j) == \A k \in i .. j : madeAt[u[k].id] <= madeAt[u[i].id]
<1>1. n \in Nat /\ i \in Nat /\ i <= n /\ s \in Seq(Attempt) /\ i \in i .. n /\ n \in i .. n
  BY DEF Sortable
<1>2. PICK f : /\ f = [j \in i .. n |-> IF j = i THEN s ELSE Exchange(f[j - 1], i, j)]
               /\ Pass(s, i) = f[n]
  BY <1>1, PassRuns
<1>. DEFINE T == {j \in i .. n : Rearranged(f[j], s, i) /\ Selects(f[j], j)}
<1>3. i \in T
  <2>1. f[i] = s
    BY <1>1, <1>2
  <2>2. s \in [1 .. n -> Attempt]
    BY <1>1
  <2>3. \A k \in i .. n : k \in 1 .. n
    BY <1>1
  <2>4. \A k \in i .. n : \E l \in i .. n : s[k] = s[l]
    OBVIOUS
  <2>5. \A l \in 1 .. n : \E k \in 1 .. n : s[k] = s[l]
    OBVIOUS
  <2>6. \A k, l \in 1 .. n : s[k].id = s[l].id => k = l
    BY DEF Sortable
  <2>7. Rearranged(s, s, i)
    BY <2>2, <2>4, <2>5, <2>6 DEF Rearranged
  <2>8. madeAt[s[i].id] \in Nat
    BY DEF Sortable
  <2>9. \A k \in i .. i : k = i
    BY <1>1
  <2>. QED
    BY <1>1, <2>1, <2>7, <2>8, <2>9
<1>4. ASSUME NEW j \in i + 1 .. n, j - 1 \in T
      PROVE  j \in T
  <2>. DEFINE u == f[j - 1]
              v == Exchange(u, i, j)
  <2>1. j \in i .. n /\ j # i /\ f[j] = v /\ j \in 1 .. n
    BY <1>1, <1>2
  <2>2. Rearranged(u, s, i) /\ Selects(u, j - 1)
    BY <1>4
  <2>. HIDE DEF u, n
  <2>3. /\ Rearranged(v, s, i)
        /\ \A k \in 1 .. n : k \notin {i, j} => v[k] = u[k]
        /\ IF madeAt[u[j].id] > madeAt[u[i].id] THEN v[i] = u[j] /\ v[j] = u[i] ELSE v = u
    BY <1>1, <2>2, ExchangeRearranges DEF n
  <2>4. \A k \in 1 .. n : k >= i => madeAt[u[k].id] \in Nat
    <3>1. \A k \in i .. n : \E l \in i .. n : u[k] = s[l]
      BY <2>2 DEF Rearranged, n
    <3>2. \A l \in 1 .. n : madeAt[s[l].id] \in Nat
      BY DEF Sortable, n
    <3>3. \A k \in 1 .. n : k >= i => k \in i .. n
      BY <1>1
    <3>4. \A l \in i .. n : l \in 1 .. n
      BY <1>1
    <3>. QED
      BY <3>1, <3>2, <3>3, <3>4
  <2>. HIDE DEF v
  <2>5. ASSUME NEW k \in i .. j
        PROVE  madeAt[v[k].id] <= madeAt[v[i].id]
    <3>1. k \in 1 .. n /\ i \in 1 .. n /\ k >= i /\ (k # j => k \in i .. j - 1)
      BY <1>1, <2>1
    <3>2. /\ madeAt[u[k].id] \in Nat /\ madeAt[u[i].id] \in Nat /\ madeAt[u[j].id] \in Nat
          /\ k # j => madeAt[u[k].id] <= madeAt[u[i].id]
      BY <1>1, <2>1, <2>2, <2>4, <3>1
    <3>3. CASE madeAt[u[j].id] > madeAt[u[i].id]
      BY <2>1, <2>3, <3>1, <3>2, <3>3
    <3>4. CASE ~(madeAt[u[j].id] > madeAt[u[i].id])
      BY <2>1, <2>3, <3>1, <3>2, <3>4
    <3>. QED
      BY <3>3, <3>4
  <2>. QED
    BY <2>1, <2>3, <2>5
<1>5. n \in T
  <2>. HIDE DEF T, n
  <2>1. \A j \in i .. n : j \in T
    BY <1>1, <1>3, <1>4, Ascending
  <2>. QED
    BY <1>1, <2>1
<1>. QED
  BY <1>2, <1>5

(* The outer loop.                                                         *)
LEMMA SortRuns ==
    ASSUME NEW s \in Seq(Attempt)
    PROVE  \E f : /\ f = [i \in 0 .. Len(s) |-> IF i = 0 THEN s ELSE Pass(f[i - 1], i)]
                  /\ ExchangeSort(s) = f[Len(s)]
<1>. DEFINE n == Len(s)
            after[i \in 0 .. n] == IF i = 0 THEN s ELSE Pass(after[i - 1], i)
            T == {m \in 0 .. n : \E f :
                    f = [i \in 0 .. m |-> IF i = 0 THEN s ELSE Pass(f[i - 1], i)]}
<1>1. n \in Nat
  OBVIOUS
<1>2. 0 \in T
  <2>. DEFINE f == [i \in 0 .. 0 |-> s]
  <2>1. f = [i \in 0 .. 0 |-> IF i = 0 THEN s ELSE Pass(f[i - 1], i)]
    OBVIOUS
  <2>. HIDE DEF f
  <2>. QED
    BY <1>1, <2>1
<1>3. ASSUME NEW m \in 0 + 1 .. n, m - 1 \in T
      PROVE  m \in T
  <2>1. PICK f : f = [i \in 0 .. m - 1 |-> IF i = 0 THEN s ELSE Pass(f[i - 1], i)]
    BY <1>3
  <2>. DEFINE g == [i \in 0 .. m |-> IF i = m THEN Pass(f[m - 1], m) ELSE f[i]]
  <2>2. m \in 0 .. n /\ m # 0
    BY <1>1
  <2>3. ASSUME NEW i \in 0 .. m
        PROVE  g[i] = IF i = 0 THEN s ELSE Pass(g[i - 1], i)
    <3>1. i = 0 \/ (i - 1 \in 0 .. m /\ i - 1 # m)
      BY <1>1, <2>2
    <3>2. i = m \/ i \in 0 .. m - 1
      BY <1>1, <2>2
    <3>3. ASSUME i # 0
          PROVE  g[i - 1] = f[i - 1]
      BY <3>1, <3>3
    <3>4. CASE i = m
      BY <2>2, <3>3, <3>4
    <3>5. CASE i # m
      <4>1. g[i] = f[i]
        BY <3>5
      <4>2. f[i] = IF i = 0 THEN s ELSE Pass(f[i - 1], i)
        BY <2>1, <3>2, <3>5
      <4>. HIDE DEF g
      <4>. QED
        BY <3>3, <4>1, <4>2
    <3>. QED
      BY <3>4, <3>5
  <2>4. g = [i \in 0 .. m |-> g[i]]
    OBVIOUS
  <2>. HIDE DEF g
  <2>5. g = [i \in 0 .. m |-> IF i = 0 THEN s ELSE Pass(g[i - 1], i)]
    BY <2>3, <2>4
  <2>. QED
    BY <2>2, <2>5
<1>4. n \in T
  <2>. HIDE DEF T, n
  <2>1. \A i \in 0 .. n : i \in T
    BY <1>1, <1>2, <1>3, Ascending
  <2>. QED
    BY <1>1, <2>1
<1>5. \E f : f = [i \in 0 .. n |-> IF i = 0 THEN s ELSE Pass(f[i - 1], i)]
  BY <1>4
<1>6. after = [i \in 0 .. n |-> IF i = 0 THEN s ELSE Pass(after[i - 1], i)]
  BY <1>5
<1>7. ExchangeSort(s) = after[n]
  BY DEF ExchangeSort
<1>. HIDE DEF after
<1>. QED
  BY <1>6, <1>7

LEMMA RearrangedIsSortable ==
    ASSUME NEW s, Sortable(s), NEW u, Rearranged(u, s, 1)
    PROVE  Sortable(u) /\ Len(u) = Len(s)
<1>1. Len(s) \in Nat
  BY DEF Sortable
<1>2. u \in Seq(Attempt) /\ Len(u) = Len(s)
  <2>1. u \in [1 .. Len(s) -> Attempt]
    BY DEF Rearranged
  <2>. QED
    BY <1>1, <2>1
<1>3. \A k \in 1 .. Len(u) : madeAt[u[k].id] \in Nat
  <2>1. \A k \in 1 .. Len(s) : \E l \in 1 .. Len(s) : u[k] = s[l]
    BY DEF Rearranged
  <2>. QED
    BY <1>2, <2>1 DEF Sortable
<1>4. \A k, l \in 1 .. Len(u) : u[k].id = u[l].id => k = l
  BY <1>2 DEF Rearranged
<1>. QED
  BY <1>2, <1>3, <1>4 DEF Sortable

LEMMA RearrangedTwice ==
    ASSUME NEW s, Sortable(s), NEW u, Rearranged(u, s, 1),
           NEW i \in 1 .. Len(s), NEW v, Rearranged(v, u, i)
    PROVE  Rearranged(v, s, 1)
<1>. DEFINE n == Len(s)
<1>1. n \in Nat /\ Len(u) = n /\ i \in 1 .. n
  BY RearrangedIsSortable DEF Sortable
<1>2. /\ v \in [1 .. n -> Attempt]
      /\ \A k \in 1 .. n : k < i => v[k] = u[k]
      /\ \A k \in i .. n : \E l \in i .. n : v[k] = u[l]
      /\ \A k, l \in 1 .. n : v[k].id = v[l].id => k = l
      /\ \A l \in 1 .. n : \E k \in 1 .. n : v[k] = u[l]
  BY <1>1 DEF Rearranged
<1>3. /\ \A k \in 1 .. n : \E l \in 1 .. n : u[k] = s[l]
      /\ \A l \in 1 .. n : \E k \in 1 .. n : u[k] = s[l]
  BY DEF Rearranged
<1>. HIDE DEF n
<1>4. \A k \in 1 .. n : \E l \in 1 .. n : v[k] = u[l]
  <2>1. \A k \in 1 .. n : k < i \/ k \in i .. n
    BY <1>1
  <2>2. \A l \in i .. n : l \in 1 .. n
    BY <1>1
  <2>. QED
    BY <1>2, <2>1, <2>2
<1>5. \A k \in 1 .. n : \E l \in 1 .. n : v[k] = s[l]
  BY <1>3, <1>4
<1>6. \A l \in 1 .. n : \E k \in 1 .. n : v[k] = s[l]
  BY <1>2, <1>3
<1>7. \A k \in 1 .. n : ~(k < 1)
  BY <1>1
<1>. QED
  BY <1>2, <1>5, <1>6, <1>7 DEF Rearranged, n

(* Nothing after place k is newer.                                         *)
NewestFirst(u, k) == \A l \in k .. Len(u) : madeAt[u[l].id] <= madeAt[u[k].id]

(* A pass at i keeps the places before it.                                 *)
LEMMA PassKeepsOrder ==
    ASSUME NEW u, Sortable(u), NEW i \in 1 .. Len(u), NEW v, Rearranged(v, u, i),
           NEW k \in 1 .. Len(u), k < i, NewestFirst(u, k)
    PROVE  \A l \in k .. Len(u) : madeAt[v[l].id] <= madeAt[v[k].id]
<1>. DEFINE n == Len(u)
<1>1. n \in Nat /\ i \in 1 .. n /\ k \in 1 .. n
  BY DEF Sortable
<1>2. /\ \A l \in 1 .. n : l < i => v[l] = u[l]
      /\ \A l \in i .. n : \E m \in i .. n : v[l] = u[m]
  BY DEF Rearranged
<1>3. \A l \in k .. n : madeAt[u[l].id] <= madeAt[u[k].id]
  BY DEF NewestFirst
<1>. HIDE DEF n
<1>4. \A l \in k .. n : (l < i /\ l \in 1 .. n) \/ l \in i .. n
  BY <1>1
<1>5. \A m \in i .. n : m \in k .. n
  BY <1>1
<1>6. v[k] = u[k]
  BY <1>1, <1>2
<1>. QED
  BY <1>2, <1>3, <1>4, <1>5, <1>6 DEF n

(* The exchange sort lists the same attempts, newest first.                *)
LEMMA ExchangeSortSorts ==
    ASSUME NEW s, Sortable(s)
    PROVE  /\ Rearranged(ExchangeSort(s), s, 1)
           /\ \A k \in 1 .. Len(s) : NewestFirst(ExchangeSort(s), k)
<1>. DEFINE n == Len(s)
<1>1. n \in Nat /\ s \in Seq(Attempt)
  BY DEF Sortable
<1>2. PICK f : /\ f = [i \in 0 .. n |-> IF i = 0 THEN s ELSE Pass(f[i - 1], i)]
               /\ ExchangeSort(s) = f[n]
  BY <1>1, SortRuns
<1>. DEFINE Sorted(u, i) == \A k \in 1 .. n : k <= i => NewestFirst(u, k)
            T == {i \in 0 .. n : Rearranged(f[i], s, 1) /\ Sorted(f[i], i)}
<1>3. 0 \in T
  <2>1. f[0] = s
    BY <1>1, <1>2
  <2>2. s \in [1 .. n -> Attempt]
    BY <1>1
  <2>3. /\ \A k \in 1 .. n : \E l \in 1 .. n : s[k] = s[l]
        /\ \A k \in 1 .. n : ~(k < 1) /\ ~(k <= 0)
    BY <1>1
  <2>4. \A k, l \in 1 .. n : s[k].id = s[l].id => k = l
    BY DEF Sortable
  <2>5. Rearranged(s, s, 1)
    BY <2>2, <2>3, <2>4 DEF Rearranged
  <2>. QED
    BY <1>1, <2>1, <2>3, <2>5
<1>4. ASSUME NEW i \in 0 + 1 .. n, i - 1 \in T
      PROVE  i \in T
  <2>. DEFINE u == f[i - 1]
              v == Pass(u, i)
  <2>1. i \in 0 .. n /\ i \in 1 .. n /\ f[i] = v
    BY <1>1, <1>2
  <2>2. Rearranged(u, s, 1) /\ Sorted(u, i - 1)
    BY <1>4
  <2>. HIDE DEF u, n
  <2>3. Sortable(u) /\ Len(u) = n
    BY <2>2, RearrangedIsSortable DEF n
  <2>4. /\ Rearranged(v, u, i)
        /\ \A k \in i .. n : madeAt[v[k].id] <= madeAt[v[i].id]
    BY <2>1, <2>3, PassSelects
  <2>. HIDE DEF v
  <2>5. Rearranged(v, s, 1)
    BY <2>1, <2>2, <2>4, RearrangedTwice DEF n
  <2>6. Len(v) = n
    BY <2>5, RearrangedIsSortable DEF n
  <2>7. ASSUME NEW k \in 1 .. n, k <= i
        PROVE  NewestFirst(v, k)
    <3>1. CASE k = i
      BY <2>4, <2>6, <3>1 DEF NewestFirst
    <3>2. CASE k < i
      <4>1. NewestFirst(u, k)
        <5>1. k <= i - 1
          BY <1>1, <2>1, <3>2
        <5>. QED
          BY <2>2, <5>1
      <4>2. \A l \in k .. n : madeAt[v[l].id] <= madeAt[v[k].id]
        BY <2>1, <2>3, <2>4, <3>2, <4>1, PassKeepsOrder
      <4>. QED
        BY <2>6, <4>2 DEF NewestFirst
    <3>. QED
      BY <1>1, <2>1, <2>7, <3>1, <3>2
  <2>. QED
    BY <2>1, <2>5, <2>7
<1>5. n \in T
  <2>. HIDE DEF T, n
  <2>1. \A i \in 0 .. n : i \in T
    BY <1>1, <1>3, <1>4, Ascending
  <2>. QED
    BY <1>1, <2>1
<1>6. \A k \in 1 .. n : k <= n
  BY <1>1
<1>. QED
  BY <1>2, <1>5, <1>6


(* Attempts: the one at place k has k - 1 others before it.                *)
LEMMA AttemptsInOrder ==
    ASSUME StampsHold, NEW S \in SUBSET LiveReplays
    PROVE  /\ IsFiniteSet(S) /\ Cardinality(S) \in Nat
           /\ InOrder(S, MadeLater) \in [1 .. Cardinality(S) -> S]
           /\ \A k \in 1 .. Cardinality(S) :
                 Cardinality({f \in S : MadeLater(f, InOrder(S, MadeLater)[k])}) = k - 1
<1>. DEFINE R == {p \in S \X S : MadeLater(p[1], p[2])}
            n == Cardinality(S)
            Place(k) == {e \in S : Cardinality({f \in S : MadeLater(f, e)}) = k - 1}
<1>1. IsFiniteSet(S) /\ n \in Nat
  <2>1. S \in SUBSET ReplayId
    BY DEF LiveReplays
  <2>. QED
    BY <2>1, MemAssumption, FS_Subset, FS_CardinalityType
<1>2. \A a, b \in S : <<a, b>> \in R <=> MadeLater(a, b)
  OBVIOUS
<1>3. \A a \in S : a \in Nat /\ madeAt[a] \in Nat
  BY MemAssumption DEF StampsHold, LiveReplays
<1>4. /\ \A a \in S : ~MadeLater(a, a)
      /\ \A a, b, c \in S : MadeLater(a, b) /\ MadeLater(b, c) => MadeLater(a, c)
      /\ \A a, b \in S : a = b \/ MadeLater(a, b) \/ MadeLater(b, a)
  BY <1>3 DEF MadeLater
<1>5. \A k \in 1 .. n : \E e \in S : Cardinality({f \in S : <<f, e>> \in R}) = k - 1
  <2>. HIDE DEF R
  <2>. QED
    BY <1>1, <1>2, <1>4, Ranking
<1>6. \A e \in S : {f \in S : <<f, e>> \in R} = {f \in S : MadeLater(f, e)}
  BY <1>2
<1>7. \A k \in 1 .. n : Place(k) # {}
  <2>. HIDE DEF R
  <2>. QED
    BY <1>5, <1>6
<1>8. InOrder(S, MadeLater) = [k \in 1 .. n |-> CHOOSE e \in Place(k) : TRUE]
  BY DEF InOrder
<1>9. \A k \in 1 .. n : (CHOOSE e \in Place(k) : TRUE) \in Place(k)
  BY <1>7
<1>10. \A k : \A e \in Place(k) : e \in S /\ Cardinality({f \in S : MadeLater(f, e)}) = k - 1
  OBVIOUS
<1>. HIDE DEF Place
<1>. QED
  BY <1>1, <1>8, <1>9, <1>10

(* A list of the attempts of S, newest first.                              *)
ListsNewestFirst(u, S) ==
    /\ u \in [1 .. Cardinality(S) -> Attempt]
    /\ \A k, l \in 1 .. Cardinality(S) : u[k].id = u[l].id => k = l
    /\ {u[k].id : k \in 1 .. Cardinality(S)} = S
    /\ \A k \in 1 .. Cardinality(S) : NewestFirst(u, k)

(* Such a list has at each place the moment PostgreSQL has there: with     *)
(* another one, too many attempts, or too few, would be newer.             *)
LEMMA SameMoments ==
    ASSUME StampsHold, NEW S \in SUBSET LiveReplays, NEW u, ListsNewestFirst(u, S),
           NEW k \in 1 .. Cardinality(S)
    PROVE  madeAt[u[k].id] = madeAt[InOrder(S, MadeLater)[k]]
<1>. DEFINE n == Cardinality(S)
            q == InOrder(S, MadeLater)[k]
            t == madeAt[q]
            Before == {b \in S : MadeLater(b, q)}
            Above == {b \in S : madeAt[b] > t}
            From == {b \in S : madeAt[b] >= t}
<1>1. /\ IsFiniteSet(S) /\ n \in Nat /\ k \in 1 .. n
      /\ q \in S /\ Cardinality(Before) = k - 1
  BY AttemptsInOrder
<1>2. \A a \in S : madeAt[a] \in Nat /\ a \in Nat
  BY MemAssumption DEF StampsHold, LiveReplays
<1>3. /\ \A l, m \in 1 .. n : u[l].id = u[m].id => l = m
      /\ \A l \in 1 .. n : u[l].id \in S
      /\ \A a \in S : \E l \in 1 .. n : u[l].id = a
  BY DEF ListsNewestFirst
<1>4. \A l \in 1 .. n : \A m \in l .. n : madeAt[u[m].id] <= madeAt[u[l].id]
  <2>1. Len(u) = n
    BY <1>1 DEF ListsNewestFirst
  <2>. HIDE DEF n
  <2>. QED
    BY <2>1 DEF ListsNewestFirst, NewestFirst, n
<1>5. t \in Nat /\ madeAt[u[k].id] \in Nat
  BY <1>1, <1>2, <1>3
<1>6. /\ Above \in SUBSET Before /\ Before \cup {q} \in SUBSET From /\ q \notin Before
      /\ Before \in SUBSET S /\ Above \in SUBSET S /\ From \in SUBSET S
  <2>. HIDE DEF q
  <2>1. \A b \in S : MadeLater(b, q) <=> (madeAt[b] > t \/ (madeAt[b] = t /\ b > q))
    BY DEF MadeLater
  <2>2. q \in S /\ q \in Nat /\ t \in Nat
    BY <1>1, <1>2
  <2>3. \A b \in S : /\ (madeAt[b] > t) => MadeLater(b, q)
                     /\ MadeLater(b, q) => (madeAt[b] >= t /\ b # q)
    BY <1>2, <2>1, <2>2
  <2>4. t >= t /\ q \notin Before
    BY <2>2, <2>3
  <2>5. \A b \in S : /\ b \in Before <=> MadeLater(b, q)
                     /\ b \in From <=> madeAt[b] >= t
                     /\ b \in Above <=> madeAt[b] > t
    OBVIOUS
  <2>6. Before \in SUBSET S /\ Above \in SUBSET S /\ From \in SUBSET S
    OBVIOUS
  <2>. HIDE DEF Before, From, Above
  <2>. QED
    BY <2>2, <2>3, <2>4, <2>5, <2>6
<1>7. \A a \in S : (a \in Above <=> madeAt[a] > t) /\ (a \in From <=> madeAt[a] >= t)
  OBVIOUS
<1>. HIDE DEF n, q, Before, Above, From
<1>8. /\ IsFiniteSet(Before) /\ IsFiniteSet(Above) /\ IsFiniteSet(From)
      /\ Cardinality(Above) \in Nat /\ Cardinality(From) \in Nat
  BY <1>1, <1>6, FS_Subset, FS_CardinalityType
<1>9. Cardinality(Above) <= k - 1
  BY <1>1, <1>6, <1>8, FS_Subset
<1>10. Cardinality(From) >= k
  <2>1. Cardinality(Before \cup {q}) = k - 1 + 1
    BY <1>1, <1>6, <1>8, FS_AddElement
  <2>2. Cardinality(Before \cup {q}) <= Cardinality(From)
    BY <1>6, <1>8, FS_Subset
  <2>. QED
    BY <1>1, <2>1, <2>2
<1>11. ASSUME NEW m \in Nat
       PROVE  IsFiniteSet(1 .. m) /\ Cardinality(1 .. m) = m
  <2>1. /\ IsFiniteSet(1 .. m)
        /\ Cardinality(1 .. m) = IF 1 > m THEN 0 ELSE m - 1 + 1
    BY FS_Interval
  <2>. QED
    BY <2>1
<1>12. ASSUME madeAt[u[k].id] > t
       PROVE  FALSE
  <2>. DEFINE g == [l \in 1 .. k |-> u[l].id]
  <2>1. \A l \in 1 .. k : l \in 1 .. n /\ k \in l .. n
    BY <1>1
  <2>2. \A l \in 1 .. k : u[l].id \in Above
    BY <1>2, <1>3, <1>4, <1>5, <1>7, <1>12, <2>1
  <2>3. g \in Injection(1 .. k, Above)
    BY <1>3, <2>1, <2>2 DEF Injection, IsInjective
  <2>. HIDE DEF g
  <2>4. k \in Nat
    BY <1>1
  <2>5. Cardinality(1 .. k) <= Cardinality(Above)
    BY <1>8, <2>3, FS_Injection
  <2>6. Cardinality(1 .. k) = k
    BY <1>11, <2>4
  <2>. QED
    BY <1>8, <1>9, <2>4, <2>5, <2>6
<1>13. ASSUME madeAt[u[k].id] < t
       PROVE  FALSE
  <2>. DEFINE Ids == {u[l].id : l \in 1 .. k - 1}
              g == [l \in 1 .. k - 1 |-> u[l].id]
  <2>1. k - 1 \in Nat /\ \A l \in 1 .. n : l \in 1 .. k - 1 \/ (l \in k .. n)
    BY <1>1
  <2>2. ASSUME NEW b \in From
        PROVE  b \in Ids
    <3>1. b \in S /\ madeAt[b] >= t
      BY <1>6, <1>7
    <3>2. PICK l \in 1 .. n : u[l].id = b
      BY <1>3, <3>1
    <3>3. l \notin k .. n
      BY <1>1, <1>2, <1>4, <1>5, <1>13, <3>1, <3>2
    <3>. QED
      BY <2>1, <3>2, <3>3
  <2>3. g \in Surjection(1 .. k - 1, Ids)
    BY DEF Surjection
  <2>. HIDE DEF g, Ids
  <2>4. IsFiniteSet(1 .. k - 1) /\ Cardinality(1 .. k - 1) = k - 1
    BY <1>11, <2>1
  <2>5. IsFiniteSet(Ids) /\ Cardinality(Ids) <= k - 1
    BY <2>3, <2>4, FS_Surjection
  <2>6. Cardinality(Ids) \in Nat
    BY <2>5, FS_CardinalityType
  <2>7. Cardinality(From) <= Cardinality(Ids)
    BY <2>2, <2>5, FS_Subset
  <2>. QED
    BY <1>1, <1>8, <1>10, <2>5, <2>6, <2>7
<1>. QED
  BY <1>5, <1>12, <1>13 DEF q

(* ListReplays of a live event: the sorted list against the sorted rows.   *)
LEMMA SameReplays ==
    ASSUME AttemptsFollow, StampsHold, NEW e \in LiveEvents, NEW l \in Limit
    PROVE  SameAttempts(e, l)
<1>. DEFINE s == mem.replays[e]
            S == PgAttempts(e)
            n == Cardinality(S)
            u == ExchangeSort(s)
            ids == InOrder(S, MadeLater)
            rows == [k \in DOMAIN ids |-> [id |-> ids[k], no |-> replay[ids[k]].no]]
            m == Cardinality((0 + 1 .. 0 + l) \cap (1 .. n))
<1>1. S \in SUBSET LiveReplays
  BY DEF PgAttempts
<1>2. /\ s \in Seq(Attempt) /\ Lists(s, S) /\ Numbered(s, replay)
      /\ Len(s) = n /\ DOMAIN s = 1 .. n
  BY SameLast DEF AttemptsFollow, LiveEvents
<1>3. n \in Nat /\ ids \in [1 .. n -> S]
  BY <1>1, AttemptsInOrder
<1>4. /\ PgListReplays(e, l) = PgPage(rows, l, 0)
      /\ MemListReplays(e, l) = MemPage(u, l, 0)
  BY DEF PgListReplays, MemListReplays
<1>. HIDE DEF s, S, n, u, ids
<1>5. Sortable(s)
  <2>1. \A k \in 1 .. n : s[k].id \in S
    BY <1>2 DEF Lists
  <2>. QED
    BY <1>1, <1>2, <2>1 DEF Sortable, Lists, StampsHold
<1>6. Rearranged(u, s, 1) /\ \A k \in 1 .. n : NewestFirst(u, k)
  BY <1>2, <1>5, ExchangeSortSorts DEF u
<1>7. u \in [1 .. n -> Attempt] /\ \A k, j \in 1 .. n : u[k].id = u[j].id => k = j
  <2>1. Len(s) = n
    BY <1>2
  <2>. QED
    BY <1>6, <2>1 DEF Rearranged
<1>8. \A k \in 1 .. n : u[k].id \in S /\ u[k].no = replay[u[k].id].no
  <2>1. \A j \in 1 .. n : s[j].id \in S /\ s[j].no = replay[s[j].id].no
    BY <1>2 DEF Lists, Numbered
  <2>2. \A k \in 1 .. n : \E j \in 1 .. n : u[k] = s[j]
    BY <1>2, <1>6 DEF Rearranged
  <2>. QED
    BY <2>1, <2>2
<1>9. ListsNewestFirst(u, S)
  <2>1. \A a \in S : \E k \in 1 .. n : u[k].id = a
    <3>1. \A a \in S : \E j \in 1 .. n : s[j].id = a
      BY <1>2 DEF Lists
    <3>2. \A j \in 1 .. n : \E k \in 1 .. n : u[k] = s[j]
      BY <1>2, <1>6 DEF Rearranged
    <3>. QED
      BY <3>1, <3>2
  <2>2. {u[k].id : k \in 1 .. n} = S
    BY <1>8, <2>1
  <2>. QED
    BY <1>6, <1>7, <2>2 DEF ListsNewestFirst, n
<1>10. \A k \in 1 .. n : madeAt[u[k].id] = madeAt[ids[k]]
  BY <1>1, <1>9, SameMoments DEF n, ids
<1>11. m \in 0 .. n
  <2>1. IsFiniteSet(1 .. n) /\ Cardinality(1 .. n) = n
    <3>1. /\ IsFiniteSet(1 .. n)
          /\ Cardinality(1 .. n) = IF 1 > n THEN 0 ELSE n - 1 + 1
      BY <1>3, FS_Interval
    <3>. QED
      BY <1>3, <3>1
  <2>2. (0 + 1 .. 0 + l) \cap (1 .. n) \in SUBSET (1 .. n)
    OBVIOUS
  <2>. QED
    BY <1>3, <2>1, <2>2, FS_Subset, FS_CardinalityType
<1>12. PgListReplays(e, l) = [k \in 1 .. m |-> rows[0 + k]]
  BY <1>3, <1>4 DEF PgPage
<1>13. MemListReplays(e, l) = [k \in 1 .. m |-> u[0 + k]]
  <2>1. MemPage(u, l, 0) = PgPage(u, l, 0)
    BY <1>3, <1>7, MemAssumption, SamePage
  <2>2. DOMAIN u = 1 .. n
    BY <1>7
  <2>. QED
    BY <1>4, <2>1, <2>2 DEF PgPage
<1>14. \A k \in 1 .. n : rows[k] = [id |-> ids[k], no |-> replay[ids[k]].no]
  BY <1>3
<1>. HIDE DEF m, rows
<1>15. \A k \in 1 .. m : k \in 1 .. n /\ 0 + k = k
  BY <1>3, <1>11
<1>16. ASSUME NEW k \in 1 .. m
       PROVE  /\ u[k].id \in S /\ u[k].no = replay[u[k].id].no
              /\ madeAt[u[k].id] = madeAt[rows[k].id]
              /\ \/ u[k] = rows[k]
                 \/ \E a \in S \ {rows[k].id} : madeAt[a] = madeAt[rows[k].id]
  <2>1. k \in 1 .. n /\ rows[k] = [id |-> ids[k], no |-> replay[ids[k]].no]
    BY <1>14, <1>15
  <2>2. rows[k].id = ids[k] /\ u[k] \in Attempt
    BY <1>7, <2>1
  <2>3. CASE u[k].id = ids[k]
    <3>1. u[k] = [id |-> u[k].id, no |-> u[k].no]
      BY <2>2 DEF Attempt
    <3>. QED
      BY <1>8, <1>10, <2>1, <2>2, <2>3, <3>1
  <2>4. CASE u[k].id # ids[k]
    BY <1>8, <1>10, <2>1, <2>2, <2>4
  <2>. QED
    BY <2>3, <2>4
<1>17. /\ DOMAIN PgListReplays(e, l) = 1 .. m
       /\ Len(MemListReplays(e, l)) = Len(PgListReplays(e, l))
       /\ \A k \in 1 .. m : /\ PgListReplays(e, l)[k] = rows[k]
                            /\ MemListReplays(e, l)[k] = u[k]
  BY <1>11, <1>12, <1>13, <1>15
<1>. HIDE DEF S
<1>. QED
  BY <1>16, <1>17 DEF SameAttempts, S

-----------------------------------------------------------------------------
(* mem.go:293: after any sequence of calls the drivers give the same       *)
(* answers: each call's outcome and count, token lookups, the rows, order  *)
(* and pages of inboxes and events, the last attempt, and the attempts     *)
(* with their numbers, in the same order up to those of one moment.  The   *)
(* exceptions are those DriversAgree names.                                *)
THEOREM DriversGiveTheSameAnswers == MemSpec => []DriversAgree
<1>1. ASSUME MemInv, StampsHold
      PROVE  DriversAgree
  <2>1. MapsFollow /\ AttemptsFollow /\ SameAnswer
    BY <1>1 DEF MemInv, MemPart
  <2>2. ASSUME NEW i \in InboxId, NEW w \in Window
        PROVE  SamePages(MemListEvents(i, w), PgListEvents(i, w))
    <3>. DEFINE S == {e \in EventsOf(i) : Within(event[e].at, w)}
    <3>1. S \in SUBSET EventId /\ PgListEvents(i, w) = InOrder(S, Newer)
      BY DEF EventsOf, LiveEvents, PgListEvents
    <3>. HIDE DEF S
    <3>2. PICK X : PgListEvents(i, w) \in [1 .. Cardinality(S) -> X]
      BY <3>1, ListingIsSequence
    <3>3. Cardinality(S) \in Nat
      BY <3>1, ListingIsSequence
    <3>4. MemListEvents(i, w) = PgListEvents(i, w)
      BY <2>1, SameListings
    <3>. QED
      BY <3>2, <3>3, <3>4, SameRows
  <2>3. \A t \in Token : MemByToken(t) = PgByToken(t)
    BY <2>1, SameTokens
  <2>4. \A o, enabled : SamePages(MemListInboxes(o, enabled), PgListInboxes(o, enabled))
    BY <1>1, <2>1, SameInboxes
  <2>5. ASSUME NEW e \in LiveEvents
        PROVE  /\ MemLast(e) \subseteq PgLast(e)
               /\ (PgLast(e) # {}) => (MemLast(e) # {})
               /\ \A l \in Limit : SameAttempts(e, l)
    BY <1>1, <2>1, SameLast, SameReplays
  <2>. QED
    BY <2>1, <2>2, <2>3, <2>4, <2>5 DEF DriversAgree, SameAnswer
<1>. QED
  BY <1>1, MemInvariance, PTL

(* Whatever is called on both drivers, the tables keep their types, have   *)
(* no dangling reference and no token twice: also when PruneEvents runs    *)
(* its two statements in one step, which StoreNext does not have.          *)
THEOREM TablesStayWhole == MemSpec => [](StoreTypeOK /\ ReferencesHold /\ TokensUnique)
<1>1. MemInv => StoreTypeOK /\ ReferencesHold /\ TokensUnique
  BY DEF MemInv, StoreInv
<1>. QED
  BY <1>1, MemInvariance, PTL
=============================================================================
