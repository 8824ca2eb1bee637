------------------------------ MODULE MemStore ------------------------------
(***************************************************************************)
(* The in-memory driver (internal/storage/mem/mem.go), with which every    *)
(* unit test of the handlers runs, side by side with the PostgreSQL driver *)
(* of Store: each call is made to both, and what either answers is kept.   *)
(* "Keeping the two drivers identical is what makes the unit tests         *)
(* meaningful" (mem.go:293).                                               *)
(*                                                                         *)
(* A method of the memory driver runs under its mutex and is one step,     *)
(* also where PostgreSQL's is several statements: nobody else calls in     *)
(* between.  The memory driver keeps attempts in one list per event and    *)
(* has no foreign keys.  Text filters are left out.                        *)
(*                                                                         *)
(* A rotation draws a token nobody has: the driver does not look, and      *)
(* relies on its random bits.  What both drivers store as given (bodies,   *)
(* headers, signature_valid) is left out.                                  *)
(***************************************************************************)
EXTENDS Store, Sequences

CONSTANTS
    Window,   \* <<from, to>>: the bounds of created_at listings ask for
    Limit,    \* page sizes; the handlers never ask for less than 1
    Offset    \* page offsets

(* Ids are compared to break ties, hence numbers; there are only so many.  *)
ASSUME MemAssumption ==
    /\ Limit \subseteq Nat \ {0} /\ Offset \subseteq Nat
    /\ InboxId \subseteq Nat /\ IsFiniteSet(InboxId)
    /\ ReplayId \subseteq Nat /\ IsFiniteSet(ReplayId)

VARIABLES
    mem,      \* the maps inboxes, events and replays of the memory driver
    bornAt,   \* created_at of each inbox, stamped alike by both drivers
    madeAt,   \* created_at of each attempt, which the caller gives to both
    answer    \* of the last call: nothing, or the two answers if they differ

stamps == <<bornAt, madeAt>>
memVars == <<inbox, event, replay, clock, mem, bornAt, madeAt, answer>>

Answered(pg, m) == answer' = IF pg = m THEN <<>> ELSE <<pg, m>>

(* A PostgreSQL statement that changes nothing.                            *)
Unchanged == UNCHANGED storeVars

Told(done, otherwise) == IF done THEN "ok" ELSE otherwise

-----------------------------------------------------------------------------
(* The maps.                                                               *)

Without(f, S) == [x \in DOMAIN f \ S |-> f[x]]
With(f, x, v) == [y \in DOMAIN f \cup {x} |-> IF y = x THEN v ELSE f[y]]

MemEventsOf(i) == {e \in DOMAIN mem.events : mem.events[e].inbox = i}

(* delete(s.events, id); delete(s.replays, id)                             *)
MemDeletedEvents(m, E) ==
    [m EXCEPT !.events = Without(m.events, E),
              !.replays = [e \in EventId |->
                             IF e \in E THEN <<>> ELSE m.replays[e]]]

MemNewer(e, f) ==
    \/ mem.events[e].at > mem.events[f].at
    \/ mem.events[e].at = mem.events[f].at /\ e > f

(* What the loops over `kept` of PruneEvents delete.                       *)
MemPruned(i, keep, days) ==
    LET old  == {e \in MemEventsOf(i) :
                    days > 0 /\ mem.events[e].at < clock - days}
        kept == MemEventsOf(i) \ old IN
    old \cup {e \in kept : /\ keep > 0
                           /\ Cardinality({f \in kept : MemNewer(f, e)}) >= keep}

-----------------------------------------------------------------------------
(* One call, to both drivers.                                              *)

CallCreateInbox(i, o, t, s) ==
    /\ inbox[i].st = "fresh"
    /\ \/ CreateInbox(i, o, t, s)
       \/ ~TokenFree(i, t) /\ Unchanged
    /\ LET taken == \E j \in DOMAIN mem.inboxes : mem.inboxes[j].token = t IN
       /\ mem' = IF taken THEN mem
                 ELSE [mem EXCEPT !.inboxes =
                          With(@, i, [owner |-> o, token |-> t, cfg |-> s])]
       /\ Answered(Told(TokenFree(i, t), "taken"), Told(~taken, "taken"))
       /\ bornAt' = IF taken THEN bornAt ELSE [bornAt EXCEPT ![i] = clock]
    /\ UNCHANGED madeAt

CallUpdateInbox(i, p) ==
    /\ \/ UpdateInbox(i, p)
       \/ inbox[i].st # "live" /\ Unchanged
    /\ LET found == i \in DOMAIN mem.inboxes IN
       /\ mem' = IF found THEN [mem EXCEPT !.inboxes[i].cfg = Patched(@, p)]
                 ELSE mem
       /\ Answered(Told(inbox[i].st = "live", "not found"),
                   Told(found, "not found"))
    /\ UNCHANGED stamps

CallRotateToken(i, t) ==
    /\ \A j \in LiveInboxes : inbox[j].token # t
    /\ \/ RotateToken(i, t)
       \/ inbox[i].st # "live" /\ Unchanged
    /\ LET found == i \in DOMAIN mem.inboxes IN
       /\ mem' = IF found THEN [mem EXCEPT !.inboxes[i].token = t] ELSE mem
       /\ Answered(Told(inbox[i].st = "live", "not found"),
                   Told(found, "not found"))
    /\ UNCHANGED stamps

CallDeleteInbox(i) ==
    /\ \/ DeleteInbox(i)
       \/ inbox[i].st # "live" /\ Unchanged
    /\ LET found == i \in DOMAIN mem.inboxes
           m == MemDeletedEvents(mem, MemEventsOf(i)) IN
       /\ mem' = IF found THEN [m EXCEPT !.inboxes = Without(@, {i})] ELSE mem
       /\ Answered(Told(inbox[i].st = "live", "not found"),
                   Told(found, "not found"))
    /\ UNCHANGED stamps

(* PostgreSQL's refusal is its foreign key's, memory looks the inbox up.   *)
CallCreateEvent(e, i, at) ==
    /\ event[e].st = "fresh"
    /\ \/ CreateEvent(e, i, at, None)
       \/ inbox[i].st # "live" /\ Unchanged
    /\ LET found == i \in DOMAIN mem.inboxes IN
       /\ mem' = IF found THEN [mem EXCEPT !.events =
                    With(@, e, [inbox |-> i, at |-> at])]
                 ELSE mem
       /\ Answered(Told(inbox[i].st = "live", "refused"),
                   Told(found, "refused"))
    /\ UNCHANGED stamps

CallDeleteEvent(e) ==
    /\ \/ DeleteEvent(e)
       \/ event[e].st # "live" /\ Unchanged
    /\ LET found == e \in DOMAIN mem.events IN
       /\ mem' = IF found THEN MemDeletedEvents(mem, {e}) ELSE mem
       /\ Answered(Told(event[e].st = "live", "not found"),
                   Told(found, "not found"))
    /\ UNCHANGED stamps

CallDeleteInboxEvents(i) ==
    /\ DeleteInboxEvents(i)
    /\ mem' = MemDeletedEvents(mem, MemEventsOf(i))
    /\ Answered(Cardinality(EventsOf(i)), Cardinality(MemEventsOf(i)))
    /\ UNCHANGED stamps

(* PostgreSQL: by age, then by count among what that statement left.       *)
CallPruneEvents(i, keep, days) ==
    LET old  == IF days > 0 THEN TooOld(i, days) ELSE {}
        left == EventsOf(i) \ old
        many == {e \in left : /\ keep > 0
                              /\ Cardinality({f \in left : Newer(f, e)}) >= keep}
    IN
    /\ DeleteEvents(old \cup many)
    /\ mem' = MemDeletedEvents(mem, MemPruned(i, keep, days))
    /\ Answered(Cardinality(old \cup many), Cardinality(MemPruned(i, keep, days)))
    /\ UNCHANGED stamps

(* An attempt of an event that may be gone by now: PostgreSQL's foreign    *)
(* keys refuse it, the memory driver appends it all the same.              *)
CallCreateReplay(a, e, i, no, at, r) ==
    /\ replay[a].st = "fresh" /\ madeAt[a] = None
    /\ event[e].st # "fresh" /\ (event[e].st = "live" => event[e].inbox = i)
    /\ r \in LiveReplays \cup {None}
    /\ \/ CreateReplay(a, e, i, no, r)
       \/ event[e].st # "live" /\ Unchanged
    /\ mem' = [mem EXCEPT !.replays[e] = Append(@, [id |-> a, no |-> AttemptNo(no)])]
    /\ madeAt' = [madeAt EXCEPT ![a] = at] /\ UNCHANGED bornAt
    /\ Answered(Told(event[e].st = "live", "gone"), "ok")

-----------------------------------------------------------------------------
(* Listings: what either driver answers in the present state.              *)

PgByToken(t)  == {i \in LiveInboxes : inbox[i].token = t}
MemByToken(t) == {i \in DOMAIN mem.inboxes : mem.inboxes[i].token = t}

Latest(S) == IF S = {} THEN None ELSE CHOOSE x \in S : \A y \in S : y <= x

(* The members of S, the one with most others before it last.              *)
InOrder(S, Before(_, _)) ==
    LET Place(k) == {e \in S : Cardinality({f \in S : Before(f, e)}) = k - 1} IN
    [k \in 1 .. Cardinality(S) |-> CHOOSE e \in Place(k) : TRUE]

(* LIMIT l OFFSET o                                                        *)
PgPage(s, l, o) ==
    [k \in 1 .. Cardinality((o + 1 .. o + l) \cap DOMAIN s) |-> s[o + k]]

(* out[offset:end], both clamped to the total.                             *)
MemPage(s, l, o) ==
    LET from == IF o > Len(s) THEN Len(s) ELSE o
        to   == IF from + l > Len(s) THEN Len(s) ELSE from + l IN
    SubSeq(s, from + 1, to)

(* Both order inboxes by created_at DESC, id DESC.                         *)
Younger(i, j) == \/ bornAt[i] > bornAt[j]
                 \/ bornAt[i] = bornAt[j] /\ i > j

(* The inboxes of an owner, or of all for the sweeps (None), each with its *)
(* counters.                                                               *)
PgListInboxes(o, enabled) ==
    LET ids == InOrder({i \in LiveInboxes : /\ o \in {None, inbox[i].owner}
                                            /\ enabled \in {None, inbox[i].cfg.enabled}},
                       Younger) IN
    [k \in DOMAIN ids |->
        LET row == inbox[ids[k]] IN
        [id |-> ids[k], owner |-> row.owner, token |-> row.token, cfg |-> row.cfg,
         count |-> Cardinality(EventsOf(ids[k])),
         last |-> Latest({event[e].at : e \in EventsOf(ids[k])})]]

MemListInboxes(o, enabled) ==
    LET ids == InOrder({i \in DOMAIN mem.inboxes :
                          /\ o \in {None, mem.inboxes[i].owner}
                          /\ enabled \in {None, mem.inboxes[i].cfg.enabled}},
                       Younger) IN
    [k \in DOMAIN ids |->
        LET row == mem.inboxes[ids[k]] IN
        [id |-> ids[k], owner |-> row.owner, token |-> row.token, cfg |-> row.cfg,
         count |-> Cardinality(MemEventsOf(ids[k])),
         last |-> Latest({mem.events[e].at : e \in MemEventsOf(ids[k])})]]

Within(at, w) == (w[1] # None => at >= w[1]) /\ (w[2] # None => at <= w[2])

PgListEvents(i, w) ==
    InOrder({e \in EventsOf(i) : Within(event[e].at, w)}, Newer)
MemListEvents(i, w) ==
    InOrder({e \in MemEventsOf(i) : Within(mem.events[e].at, w)}, MemNewer)

PgAttempts(e) == {a \in LiveReplays : replay[a].event = e}

(* The attempts the LATERAL join may take for the last one: with equal     *)
(* created_at any of them.                                                 *)
PgLast(e) == {a \in PgAttempts(e) : \A b \in PgAttempts(e) : madeAt[b] <= madeAt[a]}

(* Mutant: the last one appended.                                          *)
MemLastAppended(e) == {mem.replays[e][Len(mem.replays[e])].id : k \in DOMAIN mem.replays[e]}

(* The first appended of those with the newest created_at.                 *)
MemLast(e) ==
    LET s == mem.replays[e]
        newest == {k \in DOMAIN s : \A l \in DOMAIN s : madeAt[s[l].id] <= madeAt[s[k].id]} IN
    {s[k].id : k \in {j \in newest : \A l \in newest : j <= l}}

(* ListReplays.  PostgreSQL: ORDER BY created_at DESC, id DESC LIMIT l.    *)
MadeLater(a, b) == \/ madeAt[a] > madeAt[b]
                   \/ madeAt[a] = madeAt[b] /\ a > b

PgListReplays(e, l) ==
    LET ids == InOrder(PgAttempts(e), MadeLater) IN
    PgPage([k \in DOMAIN ids |-> [id |-> ids[k], no |-> replay[ids[k]].no]], l, 0)

(* The body of the two loops that sort a copy of the list: it looks at     *)
(* created_at only, and swaps, so that attempts of one moment end up in    *)
(* an order of their own.                                                  *)
Exchange(s, i, j) ==
    IF madeAt[s[j].id] > madeAt[s[i].id]
    THEN [s EXCEPT ![i] = s[j], ![j] = s[i]] ELSE s

(* The inner loop, then the outer one.                                     *)
Pass(s, i) ==
    LET upTo[j \in i .. Len(s)] == IF j = i THEN s ELSE Exchange(upTo[j - 1], i, j)
    IN upTo[Len(s)]

ExchangeSort(s) ==
    LET after[i \in 0 .. Len(s)] == IF i = 0 THEN s ELSE Pass(after[i - 1], i)
    IN after[Len(s)]

MemListReplays(e, l) == MemPage(ExchangeSort(mem.replays[e]), l, 0)

-----------------------------------------------------------------------------
MemInit ==
    /\ StoreInit /\ LiveInboxes = {}
    /\ mem = [inboxes |-> [i \in {} |-> 0], events |-> [e \in {} |-> 0],
              replays |-> [e \in EventId |-> <<>>]]
    /\ bornAt = [i \in InboxId |-> None]
    /\ madeAt = [a \in ReplayId |-> None]
    /\ answer = <<>>

MemNext ==
    \/ \E i \in InboxId :
         \/ \E o \in Owner, t \in Token, s \in Configs : CallCreateInbox(i, o, t, s)
         \/ \E p \in Patches : CallUpdateInbox(i, p)
         \/ \E t \in Token : CallRotateToken(i, t)
         \/ CallDeleteInbox(i)
         \/ CallDeleteInboxEvents(i)
         \/ \E k \in Keep, d \in Days : CallPruneEvents(i, k, d)
    \/ \E e \in EventId :
         \/ \E i \in InboxId, at \in 0 .. clock : CallCreateEvent(e, i, at)
         \/ CallDeleteEvent(e)
         \/ \E a \in ReplayId, i \in InboxId, no \in 0 .. MaxNo, at \in 0 .. clock,
               r \in ReplayId \cup {None} :
               /\ r = None <=> no <= 1  \* only a retry has a number above 1
               /\ CallCreateReplay(a, e, i, no, at, r)
    \/ Tick /\ UNCHANGED <<mem, stamps, answer>>

MemSpec == MemInit /\ [][MemNext]_memVars

-----------------------------------------------------------------------------
(* Two listings have as many rows and the same pages.                      *)
SamePages(m, pg) ==
    /\ Len(m) = Len(pg)
    /\ \A l \in Limit, o \in Offset : MemPage(m, l, o) = PgPage(pg, l, o)

(* ListReplays of a live event: as many rows, each an attempt with its     *)
(* number, those of the same moments at the same places, and the same row  *)
(* where that attempt is the only one of its moment.                       *)
SameAttempts(e, l) ==
    LET pg == PgListReplays(e, l)
        m  == MemListReplays(e, l) IN
    /\ Len(m) = Len(pg)
    /\ \A k \in DOMAIN pg :
         /\ m[k].id \in PgAttempts(e) /\ m[k].no = replay[m[k].id].no
         /\ madeAt[m[k].id] = madeAt[pg[k].id]
         /\ \/ m[k] = pg[k]
            \/ \E a \in PgAttempts(e) \ {pg[k].id} : madeAt[a] = madeAt[pg[k].id]

(* mem.go:293: after any sequence of calls the two drivers give the same   *)
(* answers: each call succeeded or failed alike and deleted as many        *)
(* events, tokens resolve alike, and ListInboxes and ListEvents have the   *)
(* same rows, total, order, pages, counters and last attempt.              *)
(*                                                                         *)
(* They do differ in two ways, which the property excepts.  An attempt for *)
(* an event that was deleted meanwhile is refused by the foreign keys only;*)
(* what the memory driver keeps then shows in no listing of events.  And   *)
(* ListReplays orders attempts of one moment by id in PostgreSQL, but as   *)
(* the exchange sort leaves them in memory: with a limit, the two may even *)
(* return different ones of them.                                          *)
DriversAgree ==
    /\ answer \in {<<>>, <<"gone", "ok">>}
    /\ \A t \in Token : MemByToken(t) = PgByToken(t)
    /\ \A o \in Owner \cup {None}, en \in BOOLEAN \cup {None} :
          SamePages(MemListInboxes(o, en), PgListInboxes(o, en))
    /\ \A i \in InboxId, w \in Window :
          SamePages(MemListEvents(i, w), PgListEvents(i, w))
    /\ \A e \in LiveEvents :
          /\ MemLast(e) \subseteq PgLast(e)
          /\ (PgLast(e) # {}) => (MemLast(e) # {})
          /\ \A l \in Limit : SameAttempts(e, l)
=============================================================================
