----------------------------- MODULE Retention -----------------------------
(***************************************************************************)
(* The background cleaner (internal/retention/retention.go) over Store:    *)
(* every tick it walks the inboxes page by page, by OFFSET, and prunes     *)
(* each with the limits the page showed, one statement per limit, while    *)
(* captures and the API go on.                                             *)
(*                                                                         *)
(* Abstracted: created_at of inboxes.  Ids are naturals handed out in      *)
(* creation order, so the listing (newest first) is descending in them; a  *)
(* page is the set of inboxes whose ranks in it are the page's rows.       *)
(***************************************************************************)
EXTENDS Store

CONSTANTS
    PageSize,    \* inboxes per page (200 in the code)
    LostSecret,  \* secrets encrypted under a master key no longer in use
    MaxErrors    \* bound of the model: statements that fail

ASSUME RetentionAssumption ==
    /\ InboxId \subseteq Nat /\ IsFiniteSet(InboxId)
    /\ PageSize \in Nat \ {0} /\ MaxErrors \in Nat
    /\ LostSecret \subseteq Secret

VARIABLES
    sweep,   \* state of the cleaner's goroutine
    errors,  \* statements that failed so far
    due,     \* inboxes that exist since the sweep began (history)
    hist     \* since it began: inboxes visited, whether an inbox was deleted,
             \* whether a statement failed, the limits each inbox had (history)

retentionVars == <<inbox, event, replay, clock, sweep, errors, due, hist>>

-----------------------------------------------------------------------------
Item == [inbox : InboxId, keep : Keep, days : Days]

(* The sweep between two pages: what is left of the page, the offset of    *)
(* the next one, whether there is none.                                    *)
SweepRow == [pc : {"rest", "list", "age", "count"}, page : SUBSET Item,
             offset : Nat, last : BOOLEAN]

Rest == [pc |-> "rest", page |-> {}, offset |-> 0, last |-> FALSE]

(* Mutant: without AllOwners, the default tenant's inboxes.                *)
ListedOfDefault == {i \in LiveInboxes : inbox[i].owner = CHOOSE o \in Owner : TRUE}

(* ListInboxes with AllOwners: every tenant's inboxes, newest first.       *)
Listed == LiveInboxes
Rank(i) == Cardinality({j \in Listed : j > i})
Page(offset) == {i \in Listed : Rank(i) \in offset .. offset + PageSize - 1}

(* Mutant: a full page is taken for the last one.                          *)
IsLastOrFull(page) == Cardinality(page) <= PageSize

IsLast(page) == Cardinality(page) < PageSize

(* One row whose secret cannot be decrypted fails the whole page.          *)
Unreadable(i) == inbox[i].cfg.secret \in LostSecret

NoLimits == [i \in InboxId |-> {}]

RetentionInit ==
    /\ StoreInit
    /\ sweep = Rest
    /\ errors = 0
    /\ due = {}
    /\ hist = [visited |-> {}, deleted |-> FALSE, failed |-> FALSE,
               limits |-> NoLimits]

-----------------------------------------------------------------------------
(* The ticker fires: RunOnce.                                              *)
Fire ==
    /\ sweep.pc = "rest"
    /\ sweep' = [Rest EXCEPT !.pc = "list"]
    /\ due' = LiveInboxes
    /\ hist' = [visited |-> {}, deleted |-> FALSE, failed |-> FALSE,
                limits |-> NoLimits]
    /\ UNCHANGED <<storeVars, errors>>

InEffect == [i \in InboxId |-> IF i \in LiveInboxes THEN {inbox[i].cfg} ELSE {}]

(* The inboxes left on the page; then the next page, or the end.           *)
Visit(page, offset, last) ==
    sweep' = IF page # {}
             THEN [pc |-> "age", page |-> page, offset |-> offset, last |-> last]
             ELSE IF last THEN Rest
             ELSE [pc |-> "list", page |-> {}, offset |-> offset, last |-> FALSE]

Row(i) == [inbox |-> i, keep |-> inbox[i].cfg.keep, days |-> inbox[i].cfg.days]

ListPage ==
    /\ sweep.pc = "list"
    /\ LET page == Page(sweep.offset) IN
       \/ /\ \E i \in page : Unreadable(i)
          /\ sweep' = Rest
          /\ UNCHANGED hist
       \/ /\ \A i \in page : ~Unreadable(i)
          /\ Visit({Row(i) : i \in page}, sweep.offset + Cardinality(page), IsLast(page))
          /\ hist' = [hist EXCEPT !.limits = InEffect]
    /\ UNCHANGED <<storeVars, errors, due>>

Current(x) == x \in sweep.page /\ \A y \in sweep.page : y.inbox <= x.inbox

Done(x) == Visit(sweep.page \ {x}, sweep.offset, sweep.last)

(* The two statements of PruneEvents, each skipped without its limit.      *)
PruneAge ==
    /\ sweep.pc = "age"
    /\ \E x \in sweep.page :
         /\ Current(x)
         /\ IF x.days > 0 THEN PruneByAge(x.inbox, x.days) ELSE UNCHANGED storeVars
    /\ sweep' = [sweep EXCEPT !.pc = "count"]
    /\ UNCHANGED <<errors, due, hist>>

PruneCount ==
    /\ sweep.pc = "count"
    /\ \E x \in sweep.page :
         /\ Current(x)
         /\ IF x.keep > 0 THEN PruneByCount(x.inbox, x.keep) ELSE UNCHANGED storeVars
         /\ Done(x)
         /\ hist' = [hist EXCEPT !.visited = @ \cup {x.inbox}]
    /\ UNCHANGED <<errors, due>>

(* A listing that fails ends the sweep; a prune that fails is logged and   *)
(* the next inbox is next.                                                 *)
SweepError ==
    /\ errors < MaxErrors
    /\ errors' = errors + 1
    /\ \/ sweep.pc = "list" /\ sweep' = Rest
       \/ /\ sweep.pc \in {"age", "count"}
          /\ \E x \in sweep.page : Current(x) /\ Done(x)
    /\ hist' = [hist EXCEPT !.failed = TRUE]
    /\ UNCHANGED <<storeVars, due>>

-----------------------------------------------------------------------------
(* Meanwhile: captures, patches, creations, deletions.                     *)
Observed == [hist EXCEPT !.limits = [i \in InboxId |->
               IF inbox'[i].st = "live" THEN @[i] \cup {inbox'[i].cfg} ELSE @[i]]]

CapturedEvent ==
    /\ \E e \in EventId, i \in LiveInboxes, at \in {clock - 1, clock} \cap Nat :
         CreateEvent(e, i, at, None)
    /\ UNCHANGED <<sweep, errors, due, hist>>

NewInbox ==
    /\ \E i \in InboxId, o \in Owner, t \in Token, s \in Configs :
         /\ \A j \in InboxId : j > i => inbox[j].st = "fresh"
         /\ CreateInbox(i, o, t, s)
    /\ hist' = Observed
    /\ UNCHANGED <<sweep, errors, due>>

PatchedInbox ==
    /\ \E i \in InboxId, p \in Patches : UpdateInbox(i, p)
    /\ hist' = Observed
    /\ UNCHANGED <<sweep, errors, due>>

DeletedInbox ==
    /\ \E i \in InboxId : DeleteInbox(i) /\ due' = due \ {i}
    /\ hist' = [hist EXCEPT !.deleted = TRUE]
    /\ UNCHANGED <<sweep, errors>>

Later == Tick /\ UNCHANGED <<sweep, errors, due, hist>>

Sweep == Fire \/ ListPage \/ PruneAge \/ PruneCount

RetentionNext ==
    \/ Sweep \/ SweepError
    \/ CapturedEvent \/ NewInbox \/ PatchedInbox \/ DeletedInbox \/ Later

(* The ticker keeps firing and every statement ends.                       *)
RetentionSpec ==
    RetentionInit /\ [][RetentionNext]_retentionVars /\ WF_retentionVars(Sweep)

-----------------------------------------------------------------------------
(* The cleaner works with limits it read earlier.  Every event it deletes  *)
(* is over a limit the inbox has had since the page was read: too old, or  *)
(* with as many newer events left as the limit keeps.  The newest events   *)
(* survive, whatever captures and patches run in between.                  *)
OverLimit(e, i, c) ==
    \/ c.days > 0 /\ event[e].at < clock - c.days
    \/ c.keep > 0 /\ Cardinality({f \in EventsOf(i) : /\ event'[f].st = "live"
                                                   /\ Newer(f, e)}) >= c.keep

OnlyOverLimitPruned ==
    [][\A i \in InboxId : \A e \in EventsOf(i) :
          PruneAge \/ PruneCount =>
             \/ event'[e] = event[e]
             \/ \E c \in hist.limits[i] : OverLimit(e, i, c)
      ]_retentionVars

(* A sweep during which no inbox was deleted and no statement failed has   *)
(* visited every inbox that existed when it began, though new inboxes move *)
(* the others to later offsets between two pages.                          *)
WalksEveryInbox ==
    sweep.pc = "rest" /\ ~hist.failed /\ ~hist.deleted => due \subseteq hist.visited

(* Once the API and the senders are quiet, every inbox is brought within   *)
(* its limits and stays there: a failed or incomplete sweep is made up for *)
(* by a later one.                                                         *)
WithinLimits(i) ==
    LET c == inbox[i].cfg IN
    /\ c.keep > 0 => Cardinality(EventsOf(i)) <= c.keep
    /\ c.days > 0 => \A e \in EventsOf(i) : event[e].at >= clock - c.days

EventuallyWithinLimits == <>[](\A i \in LiveInboxes : WithinLimits(i))

(* retention.go:40: "a single broken inbox must not stop the rest from     *)
(* being cleaned".                                                         *)
BrokenInboxDoesNotStopRest ==
    sweep.pc = "rest" /\ ~hist.failed /\ ~hist.deleted =>
       \A i \in due \ hist.visited : Unreadable(i)
=============================================================================
