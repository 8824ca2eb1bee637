-------------------------- MODULE RetentionProofs --------------------------
(***************************************************************************)
(* Proofs about Retention, for every number of inboxes, events, tenants    *)
(* and failures and every page size.                                       *)
(*                                                                         *)
(* Pages and the limit on the number of events count rows: what they need  *)
(* is that in a linear order the ranks below k are taken by exactly k      *)
(* members (TopRanks).  The inductive invariant RetentionIInv adds to the  *)
(* tables' that a page's limits were each inbox's own at some time since   *)
(* (Limited), and where an inbox that was not visited yet will be met      *)
(* (Ahead).                                                                *)
(***************************************************************************)
EXTENDS Retention, StoreProofs, FiniteSetTheorems, TLAPS

-----------------------------------------------------------------------------
(* Linear orders.  above[s] is what comes before s.                        *)
Linear(S, above) ==
    /\ above \in [S -> SUBSET S]
    /\ \A s \in S : s \notin above[s]
    /\ \A s, t \in S : s # t => \/ s \in above[t] /\ above[s] \subseteq above[t]
                                \/ t \in above[s] /\ above[t] \subseteq above[s]

(* A later member has more before it.                                      *)
LEMMA RanksDiffer ==
    ASSUME NEW S, IsFiniteSet(S), NEW above, Linear(S, above),
           NEW s \in S, NEW t \in S, s \in above[t]
    PROVE  Cardinality(above[s]) < Cardinality(above[t])
<1>1. /\ above[s] \in SUBSET S /\ above[t] \in SUBSET S
      /\ s \notin above[s] /\ t \notin above[t] /\ s # t
  BY DEF Linear
<1>2. above[s] \subseteq above[t]
  BY <1>1 DEF Linear
<1>3. IsFiniteSet(above[t]) /\ IsFiniteSet(above[s])
  BY <1>1, FS_Subset
<1>4. /\ Cardinality(above[s]) <= Cardinality(above[t])
      /\ Cardinality(above[t]) = Cardinality(above[s]) => above[t] = above[s]
  BY <1>2, <1>3, FS_Subset
<1>5. Cardinality(above[s]) \in Nat /\ Cardinality(above[t]) \in Nat
  BY <1>3, FS_CardinalityType
<1>6. above[t] # above[s]
  BY <1>1
<1>. QED
  BY <1>4, <1>5, <1>6

(* Every rank below the number of members is taken once, so k members have *)
(* a rank below k.                                                         *)
LEMMA TopRanks ==
    ASSUME NEW S, IsFiniteSet(S), NEW above, Linear(S, above),
           NEW k \in Nat, k <= Cardinality(S)
    PROVE  Cardinality({s \in S : Cardinality(above[s]) < k}) = k
<1>. DEFINE n == Cardinality(S)
            rank == [s \in S |-> Cardinality(above[s])]
            T == {s \in S : Cardinality(above[s]) < k}
            pos == [s \in T |-> Cardinality(above[s])]
<1>1. n \in Nat
  BY FS_CardinalityType
<1>2. \A s \in S : Cardinality(above[s]) \in 0 .. n - 1
  <2>. TAKE s \in S
  <2>1. above[s] \in SUBSET S /\ s \notin above[s]
    BY DEF Linear
  <2>2. IsFiniteSet(above[s])
    BY <2>1, FS_Subset
  <2>3. Cardinality(above[s]) <= n /\ (n = Cardinality(above[s]) => S = above[s])
    BY <2>1, FS_Subset
  <2>4. Cardinality(above[s]) \in Nat
    BY <2>2, FS_CardinalityType
  <2>. QED
    BY <1>1, <2>1, <2>3, <2>4
<1>3. \A s, t \in S : s # t => Cardinality(above[s]) # Cardinality(above[t])
  <2>. TAKE s, t \in S
  <2>. HAVE s # t
  <2>1. s \in above[t] \/ t \in above[s]
    BY DEF Linear
  <2>2. \/ Cardinality(above[s]) < Cardinality(above[t])
        \/ Cardinality(above[t]) < Cardinality(above[s])
    BY <2>1, RanksDiffer
  <2>. QED
    BY <1>1, <1>2, <2>2
<1>4. IsFiniteSet(0 .. n - 1) /\ Cardinality(0 .. n - 1) = n
  <2>1. 0 \in Int /\ n - 1 \in Int
    BY <1>1
  <2>2. /\ IsFiniteSet(0 .. n - 1)
        /\ Cardinality(0 .. n - 1) = IF 0 > n - 1 THEN 0 ELSE n - 1 - 0 + 1
    BY <2>1, FS_Interval
  <2>. QED
    BY <1>1, <2>2
<1>5. rank \in Injection(S, 0 .. n - 1)
  BY <1>2, <1>3 DEF Injection, IsInjective
<1>6. rank \in Surjection(S, 0 .. n - 1)
  BY <1>4, <1>5, FS_Injection
<1>7. \A r \in 0 .. n - 1 : \E s \in S : Cardinality(above[s]) = r
  BY <1>6 DEF Surjection
<1>8. pos \in Bijection(T, 0 .. k - 1)
  <2>1. \A s \in T : Cardinality(above[s]) \in 0 .. k - 1
    BY <1>1, <1>2
  <2>2. pos \in Injection(T, 0 .. k - 1)
    BY <1>3, <2>1 DEF Injection, IsInjective
  <2>3. \A r \in 0 .. k - 1 : \E s \in T : Cardinality(above[s]) = r
    BY <1>1, <1>7
  <2>4. pos \in Surjection(T, 0 .. k - 1)
    BY <2>1, <2>3 DEF Surjection
  <2>. QED
    BY <2>2, <2>4 DEF Bijection
<1>9. T \in SUBSET S /\ IsFiniteSet(T)
  BY FS_Subset
<1>10. Cardinality(0 .. k - 1) = Cardinality(T)
  BY <1>8, <1>9, FS_Bijection DEF ExistsBijection
<1>11. Cardinality(0 .. k - 1) = IF 0 > k - 1 THEN 0 ELSE k - 1 - 0 + 1
  BY FS_Interval
<1>. QED
  BY <1>10, <1>11

-----------------------------------------------------------------------------
(* The listing: an inbox with PageSize rows of the page, or more, before   *)
(* it means that the page is full.                                         *)
LEMMA InboxesLinear ==
    /\ IsFiniteSet(Listed)
    /\ Linear(Listed, [i \in Listed |-> {j \in Listed : j > i}])
<1>1. Listed \in SUBSET InboxId
  BY DEF Listed, LiveInboxes
<1>2. IsFiniteSet(Listed)
  BY <1>1, RetentionAssumption, FS_Subset
<1>3. \A i \in Listed : i \in Nat
  BY <1>1, RetentionAssumption
<1>. QED
  BY <1>2, <1>3 DEF Linear

LEMMA RankIsNat == \A i : Rank(i) \in Nat
<1>. SUFFICES ASSUME NEW i PROVE Rank(i) \in Nat
  OBVIOUS
<1>1. {j \in Listed : j > i} \in SUBSET Listed
  OBVIOUS
<1>. QED
  BY <1>1, InboxesLinear, FS_Subset, FS_CardinalityType DEF Rank

LEMMA FullPage ==
    ASSUME NEW offset \in Nat, NEW i \in Listed, Rank(i) >= offset + PageSize
    PROVE  Cardinality(Page(offset)) = PageSize
<1>. DEFINE before == [j \in Listed |-> {l \in Listed : l > j}]
            Top(k) == {j \in Listed : Cardinality(before[j]) < k}
<1>1. PageSize \in Nat
  BY RetentionAssumption
<1>2. \A j \in Listed : Cardinality(before[j]) = Rank(j) /\ Rank(j) \in Nat
  BY RankIsNat DEF Rank
<1>3. Rank(i) \in Nat /\ Rank(i) <= Cardinality(Listed) /\ Cardinality(Listed) \in Nat
  <2>1. {j \in Listed : j > i} \in SUBSET Listed
    OBVIOUS
  <2>. QED
    BY <2>1, InboxesLinear, RankIsNat, FS_Subset, FS_CardinalityType DEF Rank
<1>4. /\ offset + PageSize \in Nat
      /\ offset + PageSize <= Cardinality(Listed)
      /\ offset <= Cardinality(Listed)
  <2>. DEFINE r == Rank(i)
              n == Cardinality(Listed)
  <2>. HIDE DEF r, n
  <2>1. r \in Nat /\ n \in Nat /\ r <= n /\ r >= offset + PageSize
    BY <1>3 DEF r, n
  <2>2. /\ offset + PageSize \in Nat
        /\ offset + PageSize <= n
        /\ offset <= n
    BY <1>1, <2>1
  <2>. QED
    BY <2>2 DEF n
<1>5. IsFiniteSet(Listed) /\ Linear(Listed, before)
  BY InboxesLinear
<1>6. Cardinality(Top(offset + PageSize)) = offset + PageSize
  BY <1>4, <1>5, TopRanks
<1>7. Cardinality(Top(offset)) = offset
  BY <1>4, <1>5, TopRanks
<1>8. Page(offset) = Top(offset + PageSize) \ Top(offset)
  BY <1>1, <1>2 DEF Page
<1>9. Top(offset + PageSize) \cap Top(offset) = Top(offset)
  BY <1>1, <1>2
<1>10. IsFiniteSet(Top(offset + PageSize))
  BY <1>5, FS_Subset
<1>11. Cardinality(Page(offset)) = (offset + PageSize) - offset
  <2>. DEFINE A == Top(offset + PageSize)
              B == Top(offset)
  <2>1. IsFiniteSet(A) /\ Cardinality(A) = offset + PageSize
    BY <1>6, <1>10
  <2>2. A \cap B = B /\ Cardinality(B) = offset /\ Page(offset) = A \ B
    BY <1>7, <1>8, <1>9
  <2>. HIDE DEF A, B
  <2>3. Cardinality(A \ B) = Cardinality(A) - Cardinality(A \cap B)
    BY <2>1, FS_Difference
  <2>. QED
    BY <2>1, <2>2, <2>3
<1>. QED
  BY <1>1, <1>11

(* Inboxes that are added only push the others back.                       *)
LEMMA RanksGrow ==
    ASSUME LiveInboxes \subseteq LiveInboxes', NEW i
    PROVE  Rank(i) <= Rank(i)'
<1>1. LiveInboxes' \in SUBSET InboxId
  BY DEF LiveInboxes
<1>2. IsFiniteSet(LiveInboxes')
  BY <1>1, RetentionAssumption, FS_Subset
<1>3. {j \in LiveInboxes' : j > i} \in SUBSET LiveInboxes'
  OBVIOUS
<1>4. IsFiniteSet({j \in LiveInboxes' : j > i})
  BY <1>2, <1>3, FS_Subset
<1>5. {j \in LiveInboxes : j > i} \in SUBSET {j \in LiveInboxes' : j > i}
  OBVIOUS
<1>6. Cardinality({j \in LiveInboxes : j > i}) <= Cardinality({j \in LiveInboxes' : j > i})
  BY <1>4, <1>5, FS_Subset
<1>. QED
  BY <1>6 DEF Rank, Listed

-----------------------------------------------------------------------------
(* What the statement for retention_max_events leaves: for every event it  *)
(* deletes, as many newer ones as the limit keeps.                         *)
LEMMA EventsLinear ==
    ASSUME StoreTypeOK, NEW i
    PROVE  /\ IsFiniteSet(EventsOf(i))
           /\ Linear(EventsOf(i),
                     [e \in EventsOf(i) |-> {f \in EventsOf(i) : Newer(f, e)}])
<1>1. EventsOf(i) \in SUBSET EventId
  BY DEF EventsOf, LiveEvents
<1>2. IsFiniteSet(EventsOf(i))
  BY <1>1, StoreAssumption, FS_Subset
<1>3. \A e \in EventsOf(i) : e \in Nat /\ event[e].at \in Nat
  BY <1>1, LiveRows, StoreAssumption DEF EventsOf, EventRow
<1>. QED
  BY <1>2, <1>3 DEF Linear, Newer

LEMMA NewestAreKept ==
    ASSUME StoreTypeOK, NEW i, NEW keep \in Nat, NEW e \in TooMany(i, keep),
           DeleteEvents(TooMany(i, keep))
    PROVE  Cardinality({f \in EventsOf(i) : event'[f].st = "live" /\ Newer(f, e)}) >= keep
<1>. DEFINE S == EventsOf(i)
            above == [f \in S |-> {g \in S : Newer(g, f)}]
            Top == {f \in S : Cardinality(above[f]) < keep}
            Left == {f \in S : event'[f].st = "live" /\ Newer(f, e)}
<1>1. IsFiniteSet(S) /\ Linear(S, above)
  BY EventsLinear
<1>2. e \in S /\ Cardinality(above[e]) >= keep
  BY DEF TooMany
<1>3. \A f \in S : above[f] \in SUBSET S /\ Cardinality(above[f]) \in Nat
  BY <1>1, FS_Subset, FS_CardinalityType
<1>4. Cardinality(above[e]) <= Cardinality(S) /\ Cardinality(S) \in Nat
  BY <1>1, <1>2, <1>3, FS_Subset, FS_CardinalityType
<1>5. keep <= Cardinality(S)
  BY <1>2, <1>3, <1>4
<1>6. Cardinality(Top) = keep
  BY <1>1, <1>5, TopRanks
<1>7. ASSUME NEW f \in Top PROVE f \in Left
  <2>1. f \in S /\ Cardinality(above[f]) < Cardinality(above[e])
    BY <1>2, <1>3
  <2>2. f \in above[e]
    <3>1. ~(Cardinality(above[e]) < Cardinality(above[f])) /\ f # e
      BY <1>2, <1>3, <2>1
    <3>2. e \notin above[f]
      BY <1>1, <1>2, <2>1, <3>1, RanksDiffer
    <3>. QED
      BY <1>1, <1>2, <2>1, <3>1, <3>2 DEF Linear
  <2>3. f \in EventId /\ event[f].st = "live" /\ f \notin TooMany(i, keep)
    <3>1. f \in EventId /\ event[f].st = "live"
      BY DEF EventsOf, LiveEvents
    <3>2. Cardinality({g \in S : Newer(g, f)}) < keep
      BY <2>1
    <3>3. Cardinality({g \in S : Newer(g, f)}) \in Nat
      BY <1>3, <2>1
    <3>4. ~ (Cardinality({g \in S : Newer(g, f)}) >= keep)
      BY <3>2, <3>3
    <3>. QED
      BY <3>1, <3>4 DEF TooMany
  <2>4. event'[f].st = "live"
    BY <2>3 DEF DeleteEvents, RemoveEvents
  <2>. QED
    BY <1>2, <2>1, <2>2, <2>4
<1>8. IsFiniteSet(Left) /\ Top \in SUBSET Left
  BY <1>1, <1>7, FS_Subset
<1>9. Cardinality(Top) <= Cardinality(Left) /\ Cardinality(Left) \in Nat
  BY <1>8, FS_Subset, FS_CardinalityType
<1>. QED
  BY <1>6, <1>9

-----------------------------------------------------------------------------
HistRow == [visited : SUBSET InboxId, deleted : BOOLEAN, failed : BOOLEAN,
            limits : [InboxId -> SUBSET Settings]]

Typed ==
    /\ sweep \in SweepRow
    /\ sweep.page = {} <=> sweep.pc \in {"rest", "list"}
    /\ due \in SUBSET LiveInboxes
    /\ hist \in HistRow

(* The limits of the page are limits its inboxes had since.                *)
Limited ==
    \A x \in sweep.page :
       \E c \in hist.limits[x.inbox] : c.keep = x.keep /\ c.days = x.days

(* Inbox i is still to come, on this page or on a later one.               *)
Ahead(i) ==
    \/ sweep.pc = "list" /\ Rank(i) >= sweep.offset
    \/ \E x \in sweep.page : x.inbox = i
    \/ /\ sweep.pc \in {"age", "count"}
       /\ ~sweep.last
       /\ Rank(i) >= sweep.offset

Undisturbed == LostSecret = {} /\ ~hist.failed /\ ~hist.deleted

RetentionIInv ==
    /\ StoreInv
    /\ Typed
    /\ Limited
    /\ Undisturbed => \A i \in due \ hist.visited : Ahead(i)

-----------------------------------------------------------------------------
(* The tables: the cleaner and what runs meanwhile use Store's statements. *)
LEMMA RetentionKeepsTables ==
    StoreTypeOK /\ Typed /\ [RetentionNext]_retentionVars => [StoreNext]_storeVars
<1>. SUFFICES ASSUME StoreTypeOK, Typed, [RetentionNext]_retentionVars
              PROVE  [StoreNext]_storeVars
  OBVIOUS
<1>1. \A x \in sweep.page : x.inbox \in InboxId /\ x.keep \in Keep /\ x.days \in Days
  BY DEF Typed, SweepRow, Item
<1>2. CASE PruneAge
  BY <1>1, <1>2 DEF PruneAge, StoreNext
<1>3. CASE PruneCount
  BY <1>1, <1>3 DEF PruneCount, StoreNext
<1>4. CASE CapturedEvent
  <2>1. PICK e \in EventId, i \in LiveInboxes, at \in {clock - 1, clock} \cap Nat :
          CreateEvent(e, i, at, None)
    BY <1>4 DEF CapturedEvent
  <2>2. i \in InboxId /\ at \in 0 .. clock /\ None \in SignatureValid
    BY <2>1 DEF LiveInboxes, SignatureValid, StoreTypeOK
  <2>. QED
    BY <2>1, <2>2 DEF StoreNext
<1>5. CASE NewInbox
  BY <1>5 DEF NewInbox, StoreNext
<1>6. CASE PatchedInbox
  BY <1>6 DEF PatchedInbox, StoreNext
<1>7. CASE DeletedInbox
  BY <1>7 DEF DeletedInbox, StoreNext
<1>8. CASE Later
  BY <1>8 DEF Later, StoreNext
<1>9. CASE Fire \/ ListPage \/ SweepError \/ UNCHANGED retentionVars
  BY <1>9 DEF Fire, ListPage, SweepError, retentionVars, storeVars
<1>. QED
  BY <1>2, <1>3, <1>4, <1>5, <1>6, <1>7, <1>8, <1>9 DEF RetentionNext, Sweep

(* The sweep goes on with what is left of a page.                          *)
LEMMA VisitGoesOn ==
    ASSUME NEW page \in SUBSET Item, NEW offset \in Nat, NEW last \in BOOLEAN,
           Visit(page, offset, last)
    PROVE  /\ sweep' \in SweepRow
           /\ sweep'.page = page
           /\ (sweep'.page = {} <=> sweep'.pc \in {"rest", "list"})
           /\ \A i : (\E x \in page : x.inbox = i) => Ahead(i)'
           /\ \A i : ~last /\ Rank(i)' >= offset => Ahead(i)'
<1>1. CASE page # {}
  <2>1. sweep' = [pc |-> "age", page |-> page, offset |-> offset, last |-> last]
    BY <1>1 DEF Visit
  <2>. QED
    BY <1>1, <2>1 DEF SweepRow, Ahead
<1>2. CASE page = {} /\ last
  <2>1. sweep' = Rest
    BY <1>2 DEF Visit
  <2>. QED
    BY <1>2, <2>1 DEF SweepRow, Rest
<1>3. CASE page = {} /\ ~last
  <2>1. sweep' = [pc |-> "list", page |-> {}, offset |-> offset, last |-> FALSE]
    BY <1>3 DEF Visit
  <2>. QED
    BY <1>3, <2>1 DEF SweepRow, Ahead
<1>. QED
  BY <1>1, <1>2, <1>3

LEMMA SameListing ==
    ASSUME inbox' = inbox
    PROVE  LiveInboxes' = LiveInboxes /\ \A i : Rank(i)' = Rank(i)
  BY DEF LiveInboxes, Listed, Rank

-----------------------------------------------------------------------------
LEMMA InitRetentionIInv == RetentionInit => RetentionIInv
<1>. SUFFICES ASSUME RetentionInit PROVE RetentionIInv
  OBVIOUS
<1>1. StoreInv
  BY InitStoreInv DEF RetentionInit
<1>2. Typed
  BY DEF RetentionInit, Typed, SweepRow, Rest, HistRow, NoLimits
<1>. QED
  BY <1>1, <1>2 DEF RetentionInit, RetentionIInv, Limited, Rest

LEMMA FireKeeps ==
    ASSUME RetentionIInv, Fire
    PROVE  Typed' /\ Limited' /\ \A i \in due' : Ahead(i)'
<1>1. sweep' = [pc |-> "list", page |-> {}, offset |-> 0, last |-> FALSE]
  BY DEF Fire, Rest
<1>2. LiveInboxes' = LiveInboxes
  BY SameListing DEF Fire, storeVars
<1>3. hist' \in HistRow
  BY DEF Fire, HistRow, NoLimits
<1>4. Typed'
  <2>1. sweep' \in SweepRow
    BY <1>1 DEF SweepRow
  <2>2. sweep'.page = {} <=> sweep'.pc \in {"rest", "list"}
    BY <1>1
  <2>3. due' \in SUBSET LiveInboxes'
    BY <1>2 DEF Fire
  <2>. QED
    BY <1>3, <2>1, <2>2, <2>3 DEF Typed
<1>5. \A i : Rank(i)' \in Nat
  BY RankIsNat, SameListing DEF Fire, storeVars
<1>. QED
  BY <1>1, <1>4, <1>5 DEF Limited, Ahead

LEMMA ListPageKeeps ==
    ASSUME RetentionIInv, ListPage
    PROVE  /\ Typed' /\ Limited'
           /\ Undisturbed' => \A i \in due' \ hist'.visited : Ahead(i)'
<1>. DEFINE page == Page(sweep.offset)
            rows == {Row(i) : i \in page}
<1>1. /\ inbox' = inbox /\ due' = due
      /\ LiveInboxes' = LiveInboxes /\ \A i : Rank(i)' = Rank(i)
  BY SameListing DEF ListPage, storeVars
<1>2. CASE /\ \E i \in page : Unreadable(i)
           /\ sweep' = Rest /\ hist' = hist
  <2>1. LostSecret # {}
    BY <1>2 DEF Unreadable
  <2>2. Typed' /\ Limited'
    BY <1>1, <1>2 DEF RetentionIInv, Typed, Limited, Rest, SweepRow
  <2>. QED
    BY <2>1, <2>2 DEF Undisturbed
<1>3. CASE /\ Visit(rows, sweep.offset + Cardinality(page), IsLast(page))
           /\ hist' = [hist EXCEPT !.limits = InEffect]
  <2>1. sweep.offset \in Nat /\ sweep.pc = "list"
    BY DEF RetentionIInv, Typed, SweepRow, ListPage
  <2>2. page \in SUBSET Listed /\ Listed = LiveInboxes
    BY DEF Page, Listed
  <2>3. Cardinality(page) \in Nat
    BY <2>2, InboxesLinear, FS_Subset, FS_CardinalityType
  <2>4. \A i \in LiveInboxes : i \in InboxId /\ inbox[i].cfg \in Settings
    BY LiveRows DEF RetentionIInv, StoreInv, InboxRow
  <2>5. \A i \in page : Row(i) \in Item /\ Row(i).inbox = i
    BY <2>2, <2>4 DEF Row, Item, Settings
  <2>6. rows \in SUBSET Item /\ IsLast(page) \in BOOLEAN
    BY <2>5 DEF IsLast
  <2>7. sweep.offset + Cardinality(page) \in Nat
    BY <2>1, <2>3
  <2>8. /\ sweep' \in SweepRow
        /\ sweep'.page = rows
        /\ (sweep'.page = {} <=> sweep'.pc \in {"rest", "list"})
        /\ \A i : (\E x \in rows : x.inbox = i) => Ahead(i)'
        /\ \A i : ~IsLast(page) /\ Rank(i)' >= sweep.offset + Cardinality(page) => Ahead(i)'
    BY <1>3, <2>6, <2>7, VisitGoesOn
  <2>9. InEffect \in [InboxId -> SUBSET Settings]
    BY <2>4 DEF InEffect
  <2>10. hist' \in HistRow /\ hist'.limits = InEffect /\ hist'.visited = hist.visited
         /\ (Undisturbed' => Undisturbed)
    BY <1>3, <2>9 DEF RetentionIInv, Typed, HistRow, Undisturbed
  <2>11. Typed'
    BY <1>1, <2>8, <2>10 DEF RetentionIInv, Typed
  <2>12. Limited'
    <3>1. \A i \in page : /\ inbox[i].cfg \in InEffect[Row(i).inbox]
                          /\ inbox[i].cfg.keep = Row(i).keep
                          /\ inbox[i].cfg.days = Row(i).days
      BY <2>2, <2>4 DEF InEffect, Row
    <3>. QED
      BY <2>8, <2>10, <3>1 DEF Limited
  <2>13. ASSUME Undisturbed', NEW i \in due' \ hist'.visited PROVE Ahead(i)'
    <3>1. Ahead(i) /\ i \in LiveInboxes
      BY <1>1, <2>10, <2>13 DEF RetentionIInv, Typed
    <3>2. sweep.page = {}
      BY <2>1 DEF RetentionIInv, Typed
    <3>3. Rank(i) >= sweep.offset /\ Rank(i) \in Nat
      BY <2>1, <3>1, <3>2, RankIsNat DEF Ahead
    <3>4. CASE i \in page
      BY <2>5, <2>8, <3>4
    <3>5. CASE i \notin page
      <4>1. Rank(i) >= sweep.offset + PageSize
        BY <2>1, <2>2, <3>1, <3>3, <3>5, RetentionAssumption DEF Page
      <4>2. Cardinality(page) = PageSize
        BY <2>1, <2>2, <3>1, <4>1, FullPage
      <4>3. ~IsLast(page)
        BY <4>2, RetentionAssumption DEF IsLast
      <4>. QED
        BY <1>1, <2>8, <4>1, <4>2, <4>3
    <3>. QED
      BY <3>4, <3>5
  <2>. QED
    BY <2>11, <2>12, <2>13
<1>. QED
  BY <1>2, <1>3 DEF ListPage

LEMMA PruneAgeKeeps ==
    ASSUME RetentionIInv, PruneAge
    PROVE  /\ Typed' /\ Limited'
           /\ Undisturbed' => \A i \in due' \ hist'.visited : Ahead(i)'
<1>1. /\ inbox' = inbox /\ due' = due /\ hist' = hist
      /\ sweep' = [sweep EXCEPT !.pc = "count"] /\ sweep.pc = "age"
  BY DEF PruneAge, PruneByAge, DeleteEvents, storeVars
<1>2. LiveInboxes' = LiveInboxes /\ \A i : Rank(i)' = Rank(i)
  BY <1>1, SameListing
<1>3. /\ sweep' \in SweepRow /\ sweep'.pc = "count" /\ sweep'.page = sweep.page
      /\ sweep'.last = sweep.last /\ sweep'.offset = sweep.offset
  BY <1>1 DEF RetentionIInv, Typed, SweepRow
<1>4. Typed' /\ Limited'
  BY <1>1, <1>2, <1>3 DEF RetentionIInv, Typed, Limited
<1>5. \A i : Ahead(i) => Ahead(i)'
  BY <1>1, <1>2, <1>3 DEF Ahead
<1>. QED
  BY <1>1, <1>4, <1>5 DEF RetentionIInv, Undisturbed

(* The current inbox is done with, pruned or not.                          *)
LEMMA DoneKeeps ==
    ASSUME RetentionIInv, NEW x \in sweep.page, Done(x), inbox' = inbox,
           due' = due, hist' \in HistRow, hist'.limits = hist.limits
    PROVE  /\ Typed' /\ Limited'
           /\ \A i : Ahead(i) /\ i # x.inbox => Ahead(i)'
<1>1. /\ sweep.page \ {x} \in SUBSET Item /\ sweep.offset \in Nat
      /\ sweep.last \in BOOLEAN
  BY DEF RetentionIInv, Typed, SweepRow
<1>2. LiveInboxes' = LiveInboxes /\ \A i : Rank(i)' = Rank(i)
  BY SameListing
<1>3. /\ sweep' \in SweepRow
      /\ sweep'.page = sweep.page \ {x}
      /\ (sweep'.page = {} <=> sweep'.pc \in {"rest", "list"})
      /\ \A i : (\E y \in sweep.page \ {x} : y.inbox = i) => Ahead(i)'
      /\ \A i : ~sweep.last /\ Rank(i)' >= sweep.offset => Ahead(i)'
  BY <1>1, VisitGoesOn DEF Done
<1>4. Typed' /\ Limited'
  BY <1>2, <1>3 DEF RetentionIInv, Typed, Limited
<1>5. sweep.pc # "list"
  BY DEF RetentionIInv, Typed
<1>. QED
  BY <1>2, <1>3, <1>4, <1>5 DEF Ahead

LEMMA PruneCountKeeps ==
    ASSUME RetentionIInv, PruneCount
    PROVE  /\ Typed' /\ Limited'
           /\ Undisturbed' => \A i \in due' \ hist'.visited : Ahead(i)'
<1>1. PICK x \in sweep.page :
        /\ Done(x) /\ inbox' = inbox
        /\ hist' = [hist EXCEPT !.visited = @ \cup {x.inbox}]
  BY DEF PruneCount, PruneByCount, DeleteEvents, storeVars
<1>2. x.inbox \in InboxId
  BY DEF RetentionIInv, Typed, SweepRow, Item
<1>3. /\ hist' \in HistRow /\ hist'.limits = hist.limits
      /\ hist'.visited = hist.visited \cup {x.inbox}
      /\ (Undisturbed' => Undisturbed)
  BY <1>1, <1>2 DEF RetentionIInv, Typed, HistRow, Undisturbed
<1>4. due' = due
  BY DEF PruneCount
<1>5. /\ Typed' /\ Limited'
      /\ \A i : Ahead(i) /\ i # x.inbox => Ahead(i)'
  BY <1>1, <1>3, <1>4, DoneKeeps
<1>. QED
  BY <1>3, <1>4, <1>5 DEF RetentionIInv

LEMMA SweepErrorKeeps ==
    ASSUME RetentionIInv, SweepError
    PROVE  Typed' /\ Limited' /\ ~Undisturbed'
<1>1. /\ inbox' = inbox /\ due' = due /\ hist' = [hist EXCEPT !.failed = TRUE]
  BY DEF SweepError, storeVars
<1>2. /\ hist' \in HistRow /\ hist'.limits = hist.limits
      /\ hist'.failed
  BY <1>1 DEF RetentionIInv, Typed, HistRow
<1>3. CASE sweep' = Rest
  BY <1>1, <1>2, <1>3, SameListing
     DEF RetentionIInv, Typed, Limited, Undisturbed, Rest, SweepRow
<1>4. CASE \E x \in sweep.page : Done(x)
  BY <1>1, <1>2, <1>4, DoneKeeps DEF Undisturbed
<1>. QED
  BY <1>3, <1>4 DEF SweepError

(* What runs meanwhile leaves the sweep alone; it may add inboxes, which   *)
(* push the others back, and change limits, which are noted.               *)
LEMMA OthersKeep ==
    ASSUME RetentionIInv, sweep' = sweep, LiveInboxes \subseteq LiveInboxes',
           due' = due, hist' \in HistRow, hist'.visited = hist.visited,
           \A i \in InboxId : hist.limits[i] \subseteq hist'.limits[i]
    PROVE  Typed' /\ Limited' /\ \A i : Ahead(i) => Ahead(i)'
<1>1. Typed'
  BY DEF RetentionIInv, Typed
<1>2. Limited'
  BY DEF RetentionIInv, Typed, Limited, SweepRow, Item
<1>0. (\A i : Rank(i) \in Nat)'
  BY RankIsNat, PTL
<1>3. ASSUME NEW i, Ahead(i) PROVE Ahead(i)'
  <2>1. Rank(i) \in Nat /\ Rank(i)' \in Nat /\ Rank(i) <= Rank(i)'
    BY <1>0, RankIsNat, RanksGrow
  <2>2. sweep.offset \in Nat
    BY DEF RetentionIInv, Typed, SweepRow
  <2>3. Rank(i) >= sweep.offset => Rank(i)' >= sweep.offset
    BY <2>1, <2>2
  <2>. QED
    BY <1>3, <2>3 DEF Ahead
<1>. QED
  BY <1>1, <1>2, <1>3

LEMMA NewLimitsKeep ==
    ASSUME RetentionIInv, hist' = Observed, StoreTypeOK'
    PROVE  /\ hist' \in HistRow /\ hist'.visited = hist.visited
           /\ hist'.failed = hist.failed /\ hist'.deleted = hist.deleted
           /\ \A i \in InboxId : hist.limits[i] \subseteq hist'.limits[i]
<1>1. \A i \in InboxId : inbox'[i].st = "live" => inbox'[i].cfg \in Settings
  BY MissingRows DEF StoreTypeOK, InboxRow
<1>2. hist \in HistRow
  BY DEF RetentionIInv, Typed
<1>. QED
  BY <1>1, <1>2 DEF Observed, HistRow

LEMMA RetentionNextKeepsIInv ==
    RetentionIInv /\ [RetentionNext]_retentionVars => RetentionIInv'
<1>. SUFFICES ASSUME RetentionIInv, [RetentionNext]_retentionVars
              PROVE  RetentionIInv'
  OBVIOUS
<1>1. StoreInv' /\ StoreTypeOK'
  BY RetentionKeepsTables, StoreNextKeepsInv DEF RetentionIInv, StoreInv
<1>2. CASE Fire
  BY <1>1, <1>2, FireKeeps DEF RetentionIInv
<1>3. CASE ListPage
  BY <1>1, <1>3, ListPageKeeps DEF RetentionIInv
<1>4. CASE PruneAge
  BY <1>1, <1>4, PruneAgeKeeps DEF RetentionIInv
<1>5. CASE PruneCount
  BY <1>1, <1>5, PruneCountKeeps DEF RetentionIInv
<1>6. CASE SweepError
  BY <1>1, <1>6, SweepErrorKeeps DEF RetentionIInv
<1>7. hist \in HistRow /\ due \in SUBSET LiveInboxes
  BY DEF RetentionIInv, Typed
<1>8. CASE CapturedEvent \/ Later \/ UNCHANGED retentionVars
  <2>1. inbox' = inbox /\ sweep' = sweep /\ due' = due /\ hist' = hist
    BY <1>8 DEF CapturedEvent, CreateEvent, Later, Tick, retentionVars
  <2>2. LiveInboxes' = LiveInboxes
    BY <2>1, SameListing
  <2>3. Typed' /\ Limited' /\ \A i : Ahead(i) => Ahead(i)'
    BY <1>7, <2>1, <2>2, OthersKeep
  <2>. QED
    BY <1>1, <2>1, <2>3 DEF RetentionIInv, Undisturbed
<1>9. CASE NewInbox \/ PatchedInbox
  <2>1. hist' = Observed /\ sweep' = sweep /\ due' = due
    BY <1>9 DEF NewInbox, PatchedInbox
  <2>2. LiveInboxes \subseteq LiveInboxes'
    <3>1. ASSUME NewInbox PROVE LiveInboxes \subseteq LiveInboxes'
      BY <3>1 DEF RetentionIInv, StoreInv, StoreTypeOK, NewInbox, CreateInbox, LiveInboxes
    <3>2. ASSUME PatchedInbox PROVE LiveInboxes \subseteq LiveInboxes'
      <4>1. PICK i \in InboxId, p \in Patches : UpdateInbox(i, p)
        BY <3>2 DEF PatchedInbox
      <4>2. inbox[i] \in InboxRow
        BY <4>1, LiveRows DEF RetentionIInv, StoreInv, UpdateInbox, LiveInboxes
      <4>. DEFINE row == [inbox[i] EXCEPT !.cfg = Patched(inbox[i].cfg, p)]
      <4>3. row.st = "live"
        BY <4>2 DEF InboxRow
      <4>4. inbox' = [inbox EXCEPT ![i] = row]
        BY <4>1 DEF UpdateInbox
      <4>. HIDE DEF row
      <4>. QED
        BY <4>3, <4>4 DEF RetentionIInv, StoreInv, StoreTypeOK, LiveInboxes
    <3>. QED
      BY <1>9, <3>1, <3>2
  <2>3. /\ hist' \in HistRow /\ hist'.visited = hist.visited
        /\ hist'.failed = hist.failed /\ hist'.deleted = hist.deleted
        /\ \A i \in InboxId : hist.limits[i] \subseteq hist'.limits[i]
    BY <1>1, <2>1, NewLimitsKeep
  <2>4. Typed' /\ Limited' /\ \A i : Ahead(i) => Ahead(i)'
    BY <2>1, <2>2, <2>3, OthersKeep
  <2>. QED
    BY <1>1, <2>1, <2>3, <2>4 DEF RetentionIInv, Undisturbed
<1>10. CASE DeletedInbox
  <2>1. PICK i \in InboxId : DeleteInbox(i) /\ due' = due \ {i}
    BY <1>10 DEF DeletedInbox
  <2>2. sweep' = sweep /\ hist' = [hist EXCEPT !.deleted = TRUE]
    BY <1>10 DEF DeletedInbox
  <2>3. /\ hist' \in HistRow /\ hist'.limits = hist.limits /\ hist'.deleted
    BY <1>7, <2>2 DEF HistRow
  <2>4. LiveInboxes \ {i} \subseteq LiveInboxes'
    BY <2>1 DEF RetentionIInv, StoreInv, StoreTypeOK, DeleteInbox, LiveInboxes
  <2>5. Typed'
    BY <1>7, <2>1, <2>2, <2>3, <2>4 DEF RetentionIInv, Typed
  <2>6. Limited'
    BY <2>2, <2>3 DEF RetentionIInv, Limited
  <2>. QED
    BY <1>1, <2>3, <2>5, <2>6 DEF RetentionIInv, Undisturbed
<1>. QED
  BY <1>2, <1>3, <1>4, <1>5, <1>6, <1>8, <1>9, <1>10 DEF RetentionNext, Sweep

LEMMA RetentionInvariance == RetentionSpec => []RetentionIInv
  BY InitRetentionIInv, RetentionNextKeepsIInv, PTL DEF RetentionSpec

-----------------------------------------------------------------------------
(* RunOnce walks every inbox: unless the master key was changed (a secret  *)
(* that cannot be read ends the sweep, BrokenInboxDoesNotStopRest), a      *)
(* sweep without errors and deletions meets all inboxes it began with, for *)
(* any page size and however many inboxes are created between two pages.   *)
THEOREM SweepsWalkEveryInbox ==
    ASSUME LostSecret = {}
    PROVE  RetentionSpec => []WalksEveryInbox
<1>1. RetentionIInv => WalksEveryInbox
  <2>. SUFFICES ASSUME RetentionIInv, sweep.pc = "rest", ~hist.failed, ~hist.deleted
                PROVE  due \subseteq hist.visited
    BY DEF WalksEveryInbox
  <2>1. sweep.page = {}
    BY DEF RetentionIInv, Typed
  <2>2. \A i : ~Ahead(i)
    BY <2>1 DEF Ahead
  <2>. QED
    BY <2>2 DEF RetentionIInv, Undisturbed
<1>. QED
  BY <1>1, RetentionInvariance, PTL

(* PruneEvents deletes nothing that is within the limits its inbox has had *)
(* since the page was read, and the newest events always stay.             *)
THEOREM PrunesOnlyOverLimit == RetentionSpec => OnlyOverLimitPruned
<1>. DEFINE Justified ==
              \A i \in InboxId : \A e \in EventsOf(i) :
                 PruneAge \/ PruneCount =>
                    \/ event'[e] = event[e]
                    \/ \E c \in hist.limits[i] : OverLimit(e, i, c)
<1>1. ASSUME RetentionIInv, NEW i \in InboxId, NEW e \in EventsOf(i),
             PruneAge, event'[e] # event[e]
      PROVE  \E c \in hist.limits[i] : OverLimit(e, i, c)
  <2>1. PICK x \in sweep.page :
          IF x.days > 0 THEN PruneByAge(x.inbox, x.days) ELSE UNCHANGED storeVars
    BY <1>1 DEF PruneAge
  <2>2. x.days > 0 /\ DeleteEvents(TooOld(x.inbox, x.days))
    BY <1>1, <2>1 DEF storeVars, PruneByAge
  <2>3. e \in EventId /\ event[e].inbox = i
    BY <1>1 DEF EventsOf, LiveEvents
  <2>4. e \in TooOld(x.inbox, x.days)
    BY <1>1, <2>2, <2>3 DEF DeleteEvents, RemoveEvents
  <2>5. x.inbox = i /\ event[e].at < clock - x.days
    BY <2>3, <2>4 DEF TooOld, EventsOf
  <2>6. PICK c \in hist.limits[i] : c.keep = x.keep /\ c.days = x.days
    BY <1>1, <2>5 DEF RetentionIInv, Limited
  <2>. QED
    BY <2>2, <2>5, <2>6 DEF OverLimit
<1>2. ASSUME RetentionIInv, NEW i \in InboxId, NEW e \in EventsOf(i),
             PruneCount, event'[e] # event[e]
      PROVE  \E c \in hist.limits[i] : OverLimit(e, i, c)
  <2>1. PICK x \in sweep.page :
          IF x.keep > 0 THEN PruneByCount(x.inbox, x.keep) ELSE UNCHANGED storeVars
    BY <1>2 DEF PruneCount
  <2>2. x.keep > 0 /\ DeleteEvents(TooMany(x.inbox, x.keep))
    BY <1>2, <2>1 DEF storeVars, PruneByCount
  <2>3. e \in EventId /\ event[e].inbox = i
    BY <1>2 DEF EventsOf, LiveEvents
  <2>4. e \in TooMany(x.inbox, x.keep)
    BY <1>2, <2>2, <2>3 DEF DeleteEvents, RemoveEvents
  <2>5. x.inbox = i
    BY <2>3, <2>4 DEF TooMany, EventsOf
  <2>6. x.keep \in Nat
    BY <1>2, StoreAssumption DEF RetentionIInv, Typed, SweepRow, Item
  <2>7. Cardinality({f \in EventsOf(i) : event'[f].st = "live" /\ Newer(f, e)}) >= x.keep
    BY <1>2, <2>2, <2>4, <2>5, <2>6, NewestAreKept DEF RetentionIInv, StoreInv
  <2>8. PICK c \in hist.limits[i] : c.keep = x.keep /\ c.days = x.days
    BY <1>2, <2>5 DEF RetentionIInv, Limited
  <2>. QED
    BY <2>2, <2>7, <2>8 DEF OverLimit
<1>3. RetentionIInv /\ [RetentionNext]_retentionVars => [Justified]_retentionVars
  BY <1>1, <1>2
<1>. QED
  BY <1>3, RetentionInvariance, PTL DEF RetentionSpec, OnlyOverLimitPruned

(* The cleaner and what runs meanwhile use the tables as Store allows.     *)
THEOREM RetentionImplementsStore == RetentionSpec => StoreSpec
<1>1. RetentionInit => StoreInit
  BY DEF RetentionInit
<1>2. RetentionIInv /\ [RetentionNext]_retentionVars => [StoreNext]_storeVars
  BY RetentionKeepsTables DEF RetentionIInv, StoreInv
<1>. QED
  BY <1>1, <1>2, RetentionInvariance, PTL DEF RetentionSpec, StoreSpec
=============================================================================
