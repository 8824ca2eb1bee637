--------------------------- MODULE ReplayProofs ---------------------------
(***************************************************************************)
(* Proofs about Replay, for any number of replays, retries and attempts,   *)
(* whatever fails and whatever is deleted meanwhile.                       *)
(*                                                                         *)
(* The invariant has two parts for each replay: how far it is and what it  *)
(* has recorded by then (Progress), and what has become of its rows, which *)
(* go exactly when the replayed event goes (Chained).                      *)
(***************************************************************************)
EXTENDS Replay, StoreProofs

-----------------------------------------------------------------------------
(* What the handler has established at each program point.                 *)
Phase(r) ==
    LET q == run[r] IN
    /\ q.pc # "done" => q.ans = None
    /\ q.pc # "idle" => q.event \in EventId /\ q.target \in Target
    /\ q.pc \notin {"idle", "done"} => q.inbox \in InboxId
    /\ q.pc \in {"idle", "inbox", "validate"} =>
          q.tried = <<>> /\ q.rows = <<>> /\ q.sent = 0
    /\ q.pc = "send" => /\ q.target = "allowed"
                        /\ Len(q.tried) = Len(q.rows) /\ Len(q.tried) <= MaxRetries
                        /\ \A n \in 1 .. Len(q.tried) : Retryable(q.tried[n])
    /\ q.pc = "record" => Len(q.tried) = Len(q.rows) + 1

(* What the properties say of one replay.                                  *)
Ahead(r) == Len(run[r].tried) <= Len(run[r].rows) + 1

Justified(r) ==
    LET q == run[r] IN
    /\ q.sent <= Len(q.tried) /\ Len(q.tried) <= 1 + MaxRetries
    /\ \A n \in 1 .. Len(q.tried) - 1 : Retryable(q.tried[n])
    /\ q.target # "allowed" => q.sent = 0

Matches(r) ==
    LET q == run[r] IN
    /\ q.ans = 200 =>
         /\ q.tried # <<>> /\ Len(q.rows) = Len(q.tried)
         /\ \/ ~Retryable(q.tried[Len(q.tried)])
            \/ Len(q.tried) = 1 + MaxRetries
    /\ q.ans \in {400, 403, 404, 422} => q.sent = 0

Progress(r) == Phase(r) /\ Ahead(r) /\ Justified(r) /\ Matches(r)

(* The inbox a replay copied is that of its event, as long as there is one.*)
Copied(r) ==
    LET q == run[r] IN
    q.inbox # None =>
       /\ q.event \in EventId
       /\ \/ event[q.event].st = "gone"
          \/ event[q.event].st = "live" /\ event[q.event].inbox = q.inbox

(* Its rows live exactly as long as the event, unchanged.                  *)
Row(r, n) ==
    LET q == run[r]
        a == q.rows[n] IN
    /\ replay[a].st # "fresh"
    /\ replay[a].st = "live" <=> event[q.event].st = "live"
    /\ replay[a].st = "live" =>
         /\ replay[a].no = n
         /\ replay[a].retryOf = IF n = 1 THEN None ELSE q.rows[1]
         /\ replay[a].event = q.event
         /\ replay[a].inbox = q.inbox

Chained(r) ==
    /\ Copied(r)
    /\ run[r].rows # <<>> => run[r].inbox # None
    /\ \A n \in DOMAIN run[r].rows : Row(r, n)

ReplayIInv ==
    /\ StoreInv
    /\ run \in [Run -> RunRow]
    /\ \A r \in Run : Progress(r) /\ Chained(r)

-----------------------------------------------------------------------------
LEMMA Lists ==
    /\ <<>> \in Outcomes /\ <<>> \in Rows /\ <<"blocked">> \in Outcomes
    /\ \A s \in Outcomes : /\ Len(s) \in Nat
                         /\ \A o \in Outcome : Append(s, o) \in Outcomes
    /\ \A s \in Rows : /\ Len(s) \in Nat
                     /\ \A a \in ReplayId : Append(s, a) \in Rows
  BY DEF Outcomes, Rows, Outcome

(* Every step is a statement of Store, or leaves the tables alone.         *)
LEMMA InsertIsStatement ==
    ASSUME ReplayIInv, NEW r \in Run, NEW a \in ReplayId,
           run[r].pc = "record", Insert(r, a)
    PROVE  StoreNext
<1>. DEFINE q == run[r]
<1>1. /\ q \in RunRow /\ q.event \in EventId /\ q.inbox \in InboxId
      /\ Len(q.tried) <= 1 + MaxRetries /\ Len(q.tried) \in Nat
  BY Lists DEF ReplayIInv, Progress, Phase, Justified, RunRow
<1>2. Len(q.tried) \in 0 .. MaxNo
  BY <1>1, ReplayAssumption, StoreAssumption
<1>3. First(r) \in ReplayId \cup {None}
  BY <1>1 DEF First, RunRow, Rows
<1>4. CreateReplay(a, q.event, q.inbox, Len(q.tried), First(r))
  BY DEF Insert
<1>. HIDE DEF q
<1>. QED
  BY <1>1, <1>2, <1>3, <1>4 DEF StoreNext

LEMMA ReplayKeepsTables ==
    ASSUME ReplayIInv, [ReplayNext]_replayVars
    PROVE  [StoreNext]_storeVars
<1>1. ASSUME NEW r \in Run, Record(r) \/ RecordLostAnswer(r)
      PROVE  StoreNext
  BY <1>1, InsertIsStatement DEF Record, RecordLostAnswer
<1>2. ASSUME NEW r \in Run,
             \/ Begin(r) \/ FindInbox(r) \/ ReadFailed(r) \/ Validate(r)
             \/ Execute(r) \/ RecordFailed(r) \/ Disconnect(r)
      PROVE  UNCHANGED storeVars
  BY <1>2 DEF Begin, FindInbox, ReadFailed, Validate, Execute, RecordFailed, Disconnect
<1>3. CASE Elsewhere
  <2>1. \A i \in LiveInboxes : i \in InboxId
    BY DEF LiveInboxes
  <2>2. clock \in 0 .. clock /\ None \in SignatureValid
    BY DEF ReplayIInv, StoreInv, StoreTypeOK, SignatureValid
  <2>. QED
    BY <1>3, <2>1, <2>2 DEF Elsewhere, StoreNext
<1>4. CASE UNCHANGED replayVars
  BY <1>4 DEF replayVars, storeVars
<1>. QED
  BY <1>1, <1>2, <1>3, <1>4 DEF ReplayNext, Handle

-----------------------------------------------------------------------------
(* What happens elsewhere to a replay's event, inbox and rows.             *)
Stepping == ReplayIInv /\ StoreInv' /\ EventsEndure /\ ReplaysEndure

LEMMA ReplayBegins ==
    ASSUME Stepping, NEW r \in Run
    PROVE  /\ run \in [Run -> RunRow] /\ run[r] \in RunRow
           /\ Progress(r) /\ Chained(r) /\ Copied(r)
           /\ \A n \in DOMAIN run[r].rows :
                 n \in Nat /\ n >= 1 /\ run[r].rows[n] \in ReplayId /\ Row(r, n)
<1>1. run \in [Run -> RunRow] /\ run[r] \in RunRow /\ Progress(r) /\ Chained(r)
  BY DEF Stepping, ReplayIInv
<1>2. run[r].rows \in Seq(ReplayId)
  BY <1>1 DEF RunRow, Rows
<1>3. \A n \in DOMAIN run[r].rows : n \in Nat /\ n >= 1 /\ run[r].rows[n] \in ReplayId
  BY <1>2
<1>. QED
  BY <1>1, <1>3 DEF Chained

LEMMA CopyEndures ==
    ASSUME Stepping, NEW r \in Run, run[r].inbox # None
    PROVE  LET q == run[r] IN
           \/ event'[q.event].st = "gone"
           \/ /\ event[q.event].st = "live" /\ event'[q.event].st = "live"
              /\ event'[q.event].inbox = q.inbox
  BY ReplayBegins DEF Copied, Stepping, EventsEndure

LEMMA RowsEndure ==
    ASSUME Stepping, NEW r \in Run, NEW n \in DOMAIN run[r].rows
    PROVE  LET q == run[r]
               a == q.rows[n] IN
           /\ replay'[a].st # "fresh"
           /\ replay'[a].st = "live" <=> event'[q.event].st = "live"
           /\ replay'[a].st = "live" =>
                /\ replay'[a].no = n /\ replay'[a].event = q.event
                /\ replay'[a].inbox = q.inbox
                /\ \/ replay'[a].retryOf = replay[a].retryOf
                   \/ /\ replay[a].retryOf \in ReplayId
                      /\ replay'[replay[a].retryOf].st = "gone"
                /\ replay[a].retryOf = IF n = 1 THEN None ELSE q.rows[1]
<1>. DEFINE q == run[r]
            a == q.rows[n]
<1>1. /\ a \in ReplayId /\ Row(r, n) /\ q.inbox # None
      /\ q.event \in EventId
  BY ReplayBegins DEF Chained, Copied
<1>2. /\ replay[a].st # "fresh"
      /\ replay[a].st = "live" <=> event[q.event].st = "live"
      /\ replay[a].st = "live" =>
           /\ replay[a].no = n /\ replay[a].event = q.event
           /\ replay[a].inbox = q.inbox
           /\ replay[a].retryOf = IF n = 1 THEN None ELSE q.rows[1]
  BY <1>1 DEF Row
<1>3. StoreTypeOK' /\ ReferencesHold'
  BY DEF Stepping, StoreInv
<1>4. \/ event'[q.event].st = "gone"
      \/ /\ event[q.event].st = "live" /\ event'[q.event].st = "live"
         /\ event'[q.event].inbox = q.inbox
  BY <1>1, CopyEndures
<1>5. replay'[a].st = "live" => event'[q.event].st = "live"
  <2>1. SUFFICES ASSUME replay'[a].st = "live" PROVE event'[q.event].st = "live"
    OBVIOUS
  <2>2. replay'[a].event = q.event
    BY <1>1, <1>2, <2>1 DEF Stepping, ReplaysEndure
  <2>. QED
    BY <1>1, <1>3, <2>1, <2>2 DEF ReferencesHold, LiveReplays, LiveEvents
<1>6. event'[q.event].st = "live" => replay'[a].st = "live"
  <2>1. SUFFICES ASSUME event'[q.event].st = "live" PROVE replay'[a].st = "live"
    OBVIOUS
  <2>2. replay[a].st = "live" /\ event'[q.event].inbox = q.inbox
    BY <1>2, <1>4, <2>1
  <2>3. inbox'[q.inbox].st = "live"
    BY <1>1, <1>3, <2>1, <2>2 DEF ReferencesHold, LiveEvents, LiveInboxes
  <2>. QED
    BY <1>1, <1>2, <2>1, <2>2, <2>3 DEF Stepping, ReplaysEndure
<1>. HIDE DEF q, a
<1>7. replay'[a].st # "fresh"
  BY <1>1, <1>2 DEF Stepping, ReplaysEndure
<1>8. replay'[a].st = "live" =>
        /\ replay[a].st = "live"
        /\ replay'[a].no = n /\ replay'[a].event = q.event
        /\ replay'[a].inbox = q.inbox
        /\ \/ replay'[a].retryOf = replay[a].retryOf
           \/ /\ replay[a].retryOf \in ReplayId
              /\ replay'[replay[a].retryOf].st = "gone"
  BY <1>1, <1>2 DEF Stepping, ReplaysEndure
<1>. QED
  BY <1>2, <1>5, <1>6, <1>7, <1>8 DEF q, a

(* A replay that does not step itself keeps what it has.                   *)
LEMMA ChainEndures ==
    ASSUME Stepping, NEW r \in Run, NEW n \in DOMAIN run[r].rows,
           run'[r].rows[n] = run[r].rows[n], run'[r].rows[1] = run[r].rows[1],
           run'[r].event = run[r].event, run'[r].inbox = run[r].inbox
    PROVE  Row(r, n)'
<1>. DEFINE q == run[r]
            a == q.rows[n]
<1>1. replay'[a].st = "live" =>
         replay'[a].retryOf = IF n = 1 THEN None ELSE q.rows[1]
  <2>1. SUFFICES ASSUME replay'[a].st = "live"
                 PROVE  replay'[a].retryOf = IF n = 1 THEN None ELSE q.rows[1]
    OBVIOUS
  <2>2. 1 \in DOMAIN q.rows
    BY ReplayBegins DEF RunRow, Rows
  <2>3. replay'[q.rows[1]].st = "live"
    BY <2>1, <2>2, RowsEndure
  <2>. QED
    BY <2>1, <2>3, RowsEndure, StoreAssumption
<1>. QED
  BY <1>1, RowsEndure DEF Row

LEMMA OthersKept ==
    ASSUME Stepping, NEW r \in Run, run'[r] = run[r]
    PROVE  Progress(r)' /\ Chained(r)'
<1>1. Progress(r)'
  BY ReplayBegins DEF Progress, Phase, Ahead, Justified, Matches
<1>2. Copied(r)'
  BY ReplayBegins, CopyEndures DEF Copied
<1>3. \A n \in DOMAIN run'[r].rows : Row(r, n)'
  BY ChainEndures
<1>. QED
  BY <1>1, <1>2, <1>3, ReplayBegins DEF Chained

-----------------------------------------------------------------------------
(* What is to be shown of the step of one replay, whose row becomes row.   *)
Advanced(r) == /\ run' \in [Run -> RunRow]
               /\ \A s \in Run \ {r} : run'[s] = run[s]
               /\ Progress(r)' /\ Chained(r)'

LEMMA RowWritten ==
    ASSUME Stepping, NEW r \in Run, NEW row \in RunRow,
           run' = [run EXCEPT ![r] = row]
    PROVE  /\ run' \in [Run -> RunRow] /\ run'[r] = row
           /\ \A s \in Run \ {r} : run'[s] = run[s]
  BY ReplayBegins

(* A step that records nothing keeps the chain.                            *)
LEMMA RowsKept ==
    ASSUME Stepping, NEW r \in Run,
           run'[r].rows = run[r].rows,
           run'[r].event = run[r].event, run'[r].inbox = run[r].inbox
    PROVE  Chained(r)'
<1>1. Copied(r)'
  BY ReplayBegins, CopyEndures DEF Copied
<1>2. \A n \in DOMAIN run'[r].rows : Row(r, n)'
  BY ChainEndures
<1>. QED
  BY <1>1, <1>2, ReplayBegins DEF Chained

LEMMA IdleRow ==
    /\ Idle \in RunRow /\ Idle.sent = 0
    /\ Idle.tried = <<>> /\ Idle.rows = <<>>
<1>1. ASSUME NEW empty, empty \in Outcomes, empty \in Rows
      PROVE  [pc |-> "idle", event |-> None, inbox |-> None, target |-> None,
              cancelled |-> FALSE, tried |-> empty, sent |-> 0, rows |-> empty,
              ans |-> None] \in RunRow
  BY <1>1 DEF RunRow, Pc, Answer, Cancelled
<1>2. Idle \in RunRow
  BY <1>1, Lists DEF Idle
<1>. QED
  BY <1>2 DEF Idle

(* A replay that starts or ends without an attempt.                        *)
LEMMA RowStarted ==
    ASSUME NEW q \in RunRow, NEW e \in EventId, NEW t \in Target,
           NEW i \in InboxId \cup {None}, NEW pc \in Pc, NEW ans \in Answer
    PROVE  LET row == [q EXCEPT !.event = e, !.target = t, !.inbox = i,
                                !.pc = pc, !.ans = ans] IN
           /\ row \in RunRow /\ row.event = e /\ row.target = t /\ row.inbox = i
           /\ row.pc = pc /\ row.ans = ans /\ row.sent = q.sent
           /\ row.tried = q.tried /\ row.rows = q.rows
  BY DEF RunRow

LEMMA BeginKept ==
    ASSUME Stepping, NEW r \in Run, Begin(r)
    PROVE  Advanced(r)
<1>1. PICK e \in EventId, t \in Target :
         run' = [run EXCEPT ![r] =
                   [Idle EXCEPT
                      !.event = e, !.target = t,
                      !.inbox = IF e \in LiveEvents THEN event[e].inbox ELSE None,
                      !.pc = IF e \in LiveEvents THEN "inbox" ELSE "done",
                      !.ans = IF e \in LiveEvents THEN None ELSE 404]]
  BY DEF Begin
<1>. DEFINE i == IF e \in LiveEvents THEN event[e].inbox ELSE None
            pc == IF e \in LiveEvents THEN "inbox" ELSE "done"
            ans == IF e \in LiveEvents THEN None ELSE 404
            row == [Idle EXCEPT !.event = e, !.target = t, !.inbox = i,
                                !.pc = pc, !.ans = ans]
<1>2. run' = [run EXCEPT ![r] = row]
  BY <1>1
<1>3. /\ StoreTypeOK /\ event' = event /\ event \in [EventId -> EventRow \cup Missing]
      /\ None \notin InboxId /\ None \notin Status
  BY StoreAssumption, ReplayAssumption
     DEF Begin, storeVars, Stepping, ReplayIInv, StoreInv, StoreTypeOK
<1>4. /\ i \in InboxId \cup {None}
      /\ i # None <=> e \in LiveEvents
      /\ i # None => event[e].inbox = i
  BY <1>3, LiveRows DEF EventRow
<1>5. /\ pc \in {"inbox", "done"} /\ ans \in {None, 404}
      /\ pc = "inbox" => ans = None /\ i # None
  BY <1>4
<1>. HIDE DEF i, pc, ans
<1>6. /\ row \in RunRow /\ row.event = e /\ row.target = t /\ row.inbox = i
      /\ row.pc = pc /\ row.ans = ans /\ row.sent = 0
      /\ row.tried = <<>> /\ row.rows = <<>>
  <2>1. pc \in Pc /\ ans \in Answer
    BY <1>5 DEF Pc, Answer, Status
  <2>2. Idle \in RunRow
    BY IdleRow
  <2>3. /\ row \in RunRow /\ row.event = e /\ row.target = t /\ row.inbox = i
        /\ row.pc = pc /\ row.ans = ans /\ row.sent = Idle.sent
        /\ row.tried = Idle.tried /\ row.rows = Idle.rows
    <3>1. ASSUME NEW q \in RunRow
          PROVE  LET new == [q EXCEPT !.event = e, !.target = t, !.inbox = i,
                                      !.pc = pc, !.ans = ans] IN
                 /\ new \in RunRow /\ new.event = e /\ new.target = t /\ new.inbox = i
                 /\ new.pc = pc /\ new.ans = ans /\ new.sent = q.sent
                 /\ new.tried = q.tried /\ new.rows = q.rows
      BY <1>4, <2>1 DEF RunRow
    <3>. QED
      BY <2>2, <3>1 DEF row
  <2>. QED
    BY <2>3, IdleRow
<1>. HIDE DEF row
<1>7. /\ run' \in [Run -> RunRow] /\ run'[r] = row
      /\ \A s \in Run \ {r} : run'[s] = run[s]
  BY <1>2, <1>6, RowWritten
<1>8. Phase(r)'
  <2>1. row.tried = <<>> /\ row.rows = <<>> /\ row.sent = 0
    BY <1>6
  <2>2. /\ row.pc \in {"inbox", "done"} /\ row.event \in EventId /\ row.target \in Target
        /\ row.pc = "inbox" => row.ans = None /\ row.inbox \in InboxId
    BY <1>4, <1>5, <1>6
  <2>. QED
    BY <1>7, <2>1, <2>2 DEF Phase
<1>9. Ahead(r)' /\ Justified(r)' /\ Matches(r)'
  BY <1>3, <1>5, <1>6, <1>7, ReplayAssumption
     DEF Ahead, Justified, Matches, Status
<1>10. Chained(r)'
  <2>1. row.inbox # None => e \in LiveEvents /\ event[e].inbox = row.inbox
    BY <1>4, <1>6
  <2>2. Copied(r)'
    BY <1>3, <1>6, <1>7, <2>1 DEF Copied, LiveEvents
  <2>3. run'[r].rows = <<>>
    BY <1>6, <1>7
  <2>4. DOMAIN run'[r].rows = {}
    BY <2>3
  <2>. QED
    BY <2>2, <2>3, <2>4 DEF Chained
<1>. QED
  BY <1>7, <1>8, <1>9, <1>10 DEF Advanced, Progress

(* A reply without an attempt: before anything was sent.                   *)
LEMMA RefusedKept ==
    ASSUME Stepping, NEW r \in Run, NEW ans \in {404, 422, 500},
           run[r].pc = "inbox", Reply(r, ans)
    PROVE  Advanced(r)
<1>. DEFINE row == [run[r] EXCEPT !.pc = "done", !.ans = ans]
<1>0. run \in [Run -> RunRow] /\ run[r] \in RunRow
  BY ReplayBegins
<1>1. run' = [run EXCEPT ![r] = row]
  BY DEF Reply
<1>2. /\ run[r] \in RunRow /\ Phase(r) /\ Justified(r) /\ Ahead(r)
      /\ run[r].sent = 0 /\ run[r].rows = <<>> /\ run[r].tried = <<>>
  BY ReplayBegins DEF Progress, Phase
<1>3. /\ row \in RunRow /\ row.pc = "done" /\ row.ans = ans
      /\ row.event = run[r].event /\ row.inbox = run[r].inbox
      /\ row.target = run[r].target /\ row.sent = run[r].sent
      /\ row.tried = run[r].tried /\ row.rows = run[r].rows
  <2>1. "done" \in Pc /\ ans \in Answer
    BY DEF Pc, Answer, Status
  <2>. QED
    BY <1>0, <2>1 DEF RunRow
<1>. HIDE DEF row
<1>4. /\ run' \in [Run -> RunRow] /\ run'[r] = row
      /\ \A s \in Run \ {r} : run'[s] = run[s]
  BY <1>1, <1>3, RowWritten
<1>5. Phase(r)'
  BY <1>2, <1>3, <1>4 DEF Phase
<1>6. Ahead(r)' /\ Justified(r)' /\ Matches(r)'
  BY <1>2, <1>3, <1>4 DEF Ahead, Justified, Matches
<1>7. Chained(r)'
  BY <1>3, <1>4, RowsKept
<1>. QED
  BY <1>4, <1>5, <1>6, <1>7 DEF Advanced, Progress

(* A step that only moves on.                                              *)
LEMMA MovedOn ==
    ASSUME NEW q \in RunRow, NEW pc \in Pc
    PROVE  LET row == [q EXCEPT !.pc = pc] IN
           /\ row \in RunRow /\ row.pc = pc /\ row.ans = q.ans
           /\ row.event = q.event /\ row.inbox = q.inbox /\ row.target = q.target
           /\ row.tried = q.tried /\ row.sent = q.sent /\ row.rows = q.rows
  BY DEF RunRow

LEMMA FindInboxKept ==
    ASSUME Stepping, NEW r \in Run, FindInbox(r)
    PROVE  Advanced(r)
<1>1. CASE run' = [run EXCEPT ![r].pc = "validate"]
  <2>. DEFINE row == [run[r] EXCEPT !.pc = "validate"]
  <2>1. run' = [run EXCEPT ![r] = row]
    BY <1>1, ReplayBegins
  <2>2. run[r] \in RunRow /\ Phase(r) /\ run[r].pc = "inbox"
    BY ReplayBegins DEF Progress, FindInbox
  <2>3. /\ row \in RunRow /\ row.pc = "validate" /\ row.ans = run[r].ans
        /\ row.event = run[r].event /\ row.inbox = run[r].inbox
        /\ row.target = run[r].target /\ row.sent = run[r].sent
        /\ row.tried = run[r].tried /\ row.rows = run[r].rows
    BY <2>2, MovedOn DEF Pc
  <2>. HIDE DEF row
  <2>4. /\ run' \in [Run -> RunRow] /\ run'[r] = row
        /\ \A s \in Run \ {r} : run'[s] = run[s]
    BY <2>1, <2>3, RowWritten
  <2>5. Phase(r)'
    BY <2>2, <2>3, <2>4 DEF Phase
  <2>6. Ahead(r)' /\ Justified(r)' /\ Matches(r)'
    BY <2>3, <2>4, ReplayBegins DEF Progress, Ahead, Justified, Matches
  <2>7. Chained(r)'
    BY <2>3, <2>4, RowsKept
  <2>. QED
    BY <2>4, <2>5, <2>6, <2>7 DEF Advanced, Progress
<1>2. CASE Reply(r, 422) \/ Reply(r, 404)
  BY <1>2, RefusedKept DEF FindInbox
<1>. QED
  BY <1>1, <1>2 DEF FindInbox

LEMMA ReadFailedKept ==
    ASSUME Stepping, NEW r \in Run, ReadFailed(r)
    PROVE  Advanced(r)
  BY RefusedKept DEF ReadFailed

LEMMA DisconnectKept ==
    ASSUME Stepping, NEW r \in Run, Disconnect(r)
    PROVE  Advanced(r)
<1>. DEFINE row == [run[r] EXCEPT !.cancelled = TRUE]
<1>1. run' = [run EXCEPT ![r] = row]
  BY ReplayBegins DEF Disconnect
<1>2. /\ row \in RunRow /\ row.pc = run[r].pc /\ row.ans = run[r].ans
      /\ row.event = run[r].event /\ row.inbox = run[r].inbox
      /\ row.target = run[r].target /\ row.sent = run[r].sent
      /\ row.tried = run[r].tried /\ row.rows = run[r].rows
  BY ReplayBegins DEF RunRow, Cancelled
<1>. HIDE DEF row
<1>3. /\ run' \in [Run -> RunRow] /\ run'[r] = row
      /\ \A s \in Run \ {r} : run'[s] = run[s]
  BY <1>1, <1>2, RowWritten
<1>4. Progress(r)'
  BY <1>2, <1>3, ReplayBegins DEF Progress, Phase, Ahead, Justified, Matches
<1>5. Chained(r)'
  BY <1>2, <1>3, RowsKept
<1>. QED
  BY <1>3, <1>4, <1>5 DEF Advanced

LEMMA ValidateKept ==
    ASSUME Stepping, NEW r \in Run, Validate(r)
    PROVE  Advanced(r)
<1>. DEFINE q == run[r]
<1>1. /\ q \in RunRow /\ Progress(r) /\ q.pc = "validate" /\ q.ans = None
      /\ q.event \in EventId /\ q.inbox \in InboxId /\ q.target \in Target
      /\ q.tried = <<>> /\ q.rows = <<>> /\ q.sent = 0
  BY ReplayBegins DEF Progress, Phase, Validate
<1>2. CASE q.target = "allowed"
  <2>. DEFINE row == [q EXCEPT !.pc = "send"]
  <2>1. run' = [run EXCEPT ![r] = row]
    BY <1>1, <1>2, ReplayBegins DEF Validate
  <2>2. /\ row \in RunRow /\ row.pc = "send" /\ row.ans = q.ans
        /\ row.event = q.event /\ row.inbox = q.inbox
        /\ row.target = q.target /\ row.sent = q.sent
        /\ row.tried = q.tried /\ row.rows = q.rows
    BY <1>1, MovedOn DEF Pc
  <2>. HIDE DEF row
  <2>3. /\ run' \in [Run -> RunRow] /\ run'[r] = row
        /\ \A s \in Run \ {r} : run'[s] = run[s]
    BY <2>1, <2>2, RowWritten
  <2>4. Phase(r)'
    <3>1. /\ row.tried = <<>> /\ row.rows = <<>> /\ row.target = "allowed"
          /\ row.pc = "send" /\ row.ans = None /\ row.event \in EventId
          /\ row.inbox \in InboxId /\ row.target \in Target
      BY <1>1, <1>2, <2>2
    <3>2. /\ Len(row.tried) = 0 /\ Len(row.rows) = 0
          /\ \A n \in 1 .. Len(row.tried) : Retryable(row.tried[n])
      BY <3>1
    <3>. QED
      BY <2>3, <3>1, <3>2, ReplayAssumption DEF Phase
  <2>5. Ahead(r)' /\ Justified(r)' /\ Matches(r)'
    BY <1>1, <2>2, <2>3 DEF Progress, Ahead, Justified, Matches
  <2>6. Chained(r)'
    BY <2>2, <2>3, RowsKept
  <2>. QED
    BY <2>3, <2>4, <2>5, <2>6 DEF Advanced, Progress
<1>3. CASE q.target # "allowed"
  <2>. DEFINE row == [q EXCEPT !.pc = "record", !.tried = <<"blocked">>]
  <2>1. run' = [run EXCEPT ![r] = row]
    BY <1>3 DEF Validate
  <2>2. /\ row \in RunRow /\ row.pc = "record" /\ row.ans = q.ans
        /\ row.event = q.event /\ row.inbox = q.inbox
        /\ row.target = q.target /\ row.sent = q.sent
        /\ row.rows = q.rows
    <3>1. ASSUME NEW tried \in Outcomes
          PROVE  LET new == [q EXCEPT !.pc = "record", !.tried = tried] IN
                 /\ new \in RunRow /\ new.pc = "record" /\ new.ans = q.ans
                 /\ new.event = q.event /\ new.inbox = q.inbox
                 /\ new.target = q.target /\ new.sent = q.sent
                 /\ new.rows = q.rows
      <4>1. q \in RunRow /\ "record" \in Pc
        BY <1>1 DEF Pc
      <4>. HIDE DEF q
      <4>. QED
        BY <4>1 DEF RunRow
    <3>. QED
      BY <3>1, Lists
  <2>3. row.tried = <<"blocked">>
    BY <1>1 DEF RunRow
  <2>. HIDE DEF row
  <2>4. /\ run' \in [Run -> RunRow] /\ run'[r] = row
        /\ \A s \in Run \ {r} : run'[s] = run[s]
    BY <2>1, <2>2, RowWritten
  <2>5. Len(row.tried) = 1 /\ Len(row.rows) = 0
    BY <1>1, <2>2, <2>3
  <2>6. Phase(r)'
    BY <1>1, <2>2, <2>4, <2>5 DEF Phase
  <2>7. Ahead(r)' /\ Justified(r)' /\ Matches(r)'
    <3>1. row.sent = 0 /\ row.ans = None
      BY <1>1, <2>2
    <3>. QED
      BY <2>4, <2>5, <3>1, ReplayAssumption DEF Ahead, Justified, Matches, Status
  <2>8. Chained(r)'
    BY <2>2, <2>4, RowsKept
  <2>. QED
    BY <2>4, <2>6, <2>7, <2>8 DEF Advanced, Progress
<1>. QED
  BY <1>2, <1>3

LEMMA ExecuteKept ==
    ASSUME Stepping, NEW r \in Run, Execute(r)
    PROVE  Advanced(r)
<1>. DEFINE q == run[r]
<1>1. /\ q \in RunRow /\ Progress(r) /\ q.pc = "send" /\ q.ans = None
      /\ q.event \in EventId /\ q.inbox \in InboxId /\ q.target \in Target
      /\ q.target = "allowed" /\ q.tried \in Outcomes /\ q.rows \in Rows
      /\ Len(q.tried) = Len(q.rows) /\ Len(q.tried) <= MaxRetries
      /\ \A n \in 1 .. Len(q.tried) : Retryable(q.tried[n])
      /\ q.sent \in Nat /\ q.sent <= Len(q.tried)
  BY ReplayBegins DEF Progress, Phase, Justified, Execute, RunRow
<1>2. PICK o \in Reported \cap Outcome, sent \in 0 .. 1 :
         run' = [run EXCEPT ![r] = [@ EXCEPT !.pc = "record",
                                             !.tried = Append(run[r].tried, o),
                                             !.sent = run[r].sent + sent]]
  BY DEF Execute
<1>. DEFINE tried == Append(q.tried, o)
            total == q.sent + sent
            row == [q EXCEPT !.pc = "record", !.tried = tried, !.sent = total]
<1>3. run' = [run EXCEPT ![r] = row]
  BY <1>2
<1>. HIDE DEF q, row
<1>4. /\ tried \in Outcomes /\ Len(tried) = Len(q.tried) + 1
      /\ \A n \in 1 .. Len(q.tried) : tried[n] = q.tried[n]
      /\ total \in Nat /\ total <= Len(q.tried) + 1 /\ Len(q.tried) \in Nat
  <2>1. q.tried \in Seq(Outcome) /\ o \in Outcome
    BY <1>1 DEF Outcomes
  <2>2. /\ tried \in Seq(Outcome) /\ Len(tried) = Len(q.tried) + 1
        /\ \A n \in 1 .. Len(q.tried) : tried[n] = q.tried[n]
    BY <2>1
  <2>3. Len(q.tried) \in Nat
    BY <2>1
  <2>4. total \in Nat /\ total <= Len(q.tried) + 1
    BY <1>1, <2>3
  <2>. QED
    BY <2>2, <2>3, <2>4 DEF Outcomes
<1>. HIDE DEF tried, total
<1>5. /\ row \in RunRow /\ row.pc = "record" /\ row.ans = q.ans
      /\ row.event = q.event /\ row.inbox = q.inbox /\ row.target = q.target
      /\ row.tried = tried /\ row.sent = total /\ row.rows = q.rows
  <2>1. "record" \in Pc /\ q \in RunRow /\ tried \in Outcomes /\ total \in Nat
    BY <1>1, <1>4 DEF Pc
  <2>. QED
    BY <2>1 DEF row, RunRow
<1>6. /\ run' \in [Run -> RunRow] /\ run'[r] = row
      /\ \A s \in Run \ {r} : run'[s] = run[s]
  BY <1>3, <1>5, RowWritten
<1>7. Phase(r)'
  BY <1>1, <1>4, <1>5, <1>6 DEF Phase
<1>8. Ahead(r)'
  BY <1>1, <1>4, <1>5, <1>6 DEF Ahead
<1>9. Justified(r)'
  <2>1. \A n \in 1 .. Len(tried) - 1 : Retryable(tried[n])
    BY <1>1, <1>4
  <2>2. /\ row.sent <= Len(row.tried) /\ Len(row.tried) <= 1 + MaxRetries
        /\ row.target = "allowed"
    BY <1>1, <1>4, <1>5, ReplayAssumption
  <2>. QED
    BY <1>5, <1>6, <2>1, <2>2 DEF Justified
<1>10. Matches(r)'
  BY <1>1, <1>5, <1>6, ReplayAssumption DEF Matches, Status
<1>11. Chained(r)'
  BY <1>5, <1>6, RowsKept DEF q
<1>. QED
  BY <1>6, <1>7, <1>8, <1>9, <1>10, <1>11 DEF Advanced, Progress

-----------------------------------------------------------------------------
(* Recording an attempt.                                                   *)
LEMMA RecordBegins ==
    ASSUME Stepping, NEW r \in Run, run[r].pc = "record"
    PROVE  LET q == run[r] IN
           /\ q \in RunRow /\ q.ans = None
           /\ q.event \in EventId /\ q.inbox \in InboxId /\ q.target \in Target
           /\ q.tried \in Outcomes /\ q.rows \in Rows /\ q.sent \in Nat
           /\ Len(q.tried) = Len(q.rows) + 1 /\ Len(q.rows) \in Nat
           /\ Len(q.tried) \in Nat /\ Len(q.tried) <= 1 + MaxRetries
           /\ Justified(r) /\ Chained(r)
  BY Lists, ReplayBegins DEF Progress, Phase, Justified, RunRow

(* The new row joins the chain.                                            *)
LEMMA ChainExtended ==
    ASSUME Stepping, NEW r \in Run, run[r].pc = "record",
           NEW a \in ReplayId, Insert(r, a),
           run'[r].rows = Append(run[r].rows, a),
           run'[r].event = run[r].event, run'[r].inbox = run[r].inbox
    PROVE  Chained(r)'
<1>. DEFINE q == run[r]
            rows == Append(q.rows, a)
            len == Len(q.rows)
<1>1. /\ q.event \in EventId /\ q.inbox \in InboxId /\ q.rows \in Seq(ReplayId)
      /\ Len(q.tried) = len + 1 /\ len \in Nat
  BY RecordBegins DEF Rows
<1>2. /\ rows \in Seq(ReplayId) /\ DOMAIN rows = 1 .. len + 1 /\ rows # <<>>
      /\ DOMAIN q.rows = 1 .. len
      /\ \A n \in 1 .. len : rows[n] = q.rows[n]
      /\ rows[len + 1] = a
  BY <1>1
<1>3. /\ replay[a].st = "fresh" /\ event[q.event].st = "live"
      /\ replay' = [replay EXCEPT ![a] =
                      [st |-> "live", event |-> q.event, inbox |-> q.inbox,
                       no |-> AttemptNo(Len(q.tried)), retryOf |-> First(r)]]
      /\ event' = event
  BY DEF Insert, CreateReplay
<1>4. First(r) = IF len + 1 = 1 THEN None ELSE rows[1]
  BY <1>1, <1>2 DEF First
<1>5. replay \in [ReplayId -> ReplayRow \cup Missing]
  BY DEF Stepping, ReplayIInv, StoreInv, StoreTypeOK
<1>6. AttemptNo(Len(q.tried)) = len + 1
  BY <1>1 DEF AttemptNo
<1>7. /\ run'[r].rows = rows /\ run'[r].event = q.event /\ run'[r].inbox = q.inbox
  OBVIOUS
<1>. HIDE DEF rows, len, q
<1>8. ASSUME NEW n, n = len + 1 PROVE Row(r, n)'
  <2>1. /\ replay'[a].st = "live" /\ replay'[a].event = q.event
        /\ replay'[a].inbox = q.inbox /\ replay'[a].no = len + 1
        /\ replay'[a].retryOf = First(r)
    BY <1>3, <1>5, <1>6
  <2>2. event'[q.event].st = "live"
    BY <1>3
  <2>3. run'[r].rows[n] = a /\ run'[r].rows[1] = rows[1]
    BY <1>2, <1>7, <1>8
  <2>. QED
    BY <1>4, <1>7, <1>8, <2>1, <2>2, <2>3 DEF Row
<1>9. \A n \in 1 .. len : Row(r, n)'
  <2>1. TAKE n \in 1 .. len
  <2>2. n \in DOMAIN q.rows /\ rows[n] = q.rows[n]
    BY <1>2
  <2>3. rows[1] = q.rows[1]
    <3>1. 1 \in 1 .. len
      BY <1>1
    <3>. QED
      BY <1>2, <3>1
  <2>. QED
    BY <1>7, <2>2, <2>3, ChainEndures DEF q
<1>10. Copied(r)'
  BY <1>7, ReplayBegins, CopyEndures DEF Copied, q
<1>11. \A n \in DOMAIN rows : n \in 1 .. len \/ n = len + 1
  BY <1>1, <1>2
<1>12. \A n \in DOMAIN run'[r].rows : Row(r, n)'
  BY <1>7, <1>8, <1>9, <1>11
<1>13. run'[r].inbox # None
  BY <1>1, <1>7, StoreAssumption
<1>. QED
  BY <1>10, <1>12, <1>13 DEF Chained

(* Whether the attempt was recorded or not: the replay goes on only when   *)
(* Run's loop does, and an answer says what happened.                      *)
LEMMA AttemptEnds ==
    ASSUME Stepping, NEW r \in Run, run[r].pc = "record",
           NEW rows \in Rows, NEW pc \in {"send", "done"}, NEW ans \in Answer,
           run' = [run EXCEPT ![r] = [@ EXCEPT !.rows = rows, !.pc = pc, !.ans = ans]],
           Len(rows) = Len(run[r].rows) \/ Len(rows) = Len(run[r].rows) + 1,
           pc = "send" => Again(r) /\ ans = None /\ Len(rows) = Len(run[r].tried),
           ans = 200 => /\ ~Again(r) /\ run[r].target = "allowed"
                        /\ Len(rows) = Len(run[r].tried),
           ans \in {400, 403, 404, 422} => run[r].target # "allowed",
           Chained(r)'
    PROVE  Advanced(r)
<1>. DEFINE q == run[r]
            row == [q EXCEPT !.rows = rows, !.pc = pc, !.ans = ans]
<1>1. /\ q \in RunRow /\ q.event \in EventId /\ q.inbox \in InboxId
      /\ q.target \in Target /\ q.tried \in Outcomes
      /\ Len(q.tried) = Len(q.rows) + 1 /\ Len(q.rows) \in Nat
      /\ Len(q.tried) \in Nat /\ Len(q.tried) <= 1 + MaxRetries
      /\ q.sent <= Len(q.tried) /\ Justified(r)
  BY RecordBegins DEF Justified
<1>2. run' = [run EXCEPT ![r] = row]
  OBVIOUS
<1>3. pc \in Pc
  BY DEF Pc
<1>. HIDE DEF q
<1>4. /\ row \in RunRow /\ row.pc = pc /\ row.ans = ans
      /\ row.event = q.event /\ row.inbox = q.inbox /\ row.target = q.target
      /\ row.tried = q.tried /\ row.sent = q.sent /\ row.rows = rows
  <2>1. q \in RunRow
    BY <1>1
  <2>. QED
    BY <1>3, <2>1 DEF row, RunRow
<1>. HIDE DEF row
<1>5. /\ run' \in [Run -> RunRow] /\ run'[r] = row
      /\ \A s \in Run \ {r} : run'[s] = run[s]
  BY <1>2, <1>4, RowWritten
<1>6. \A n \in 1 .. Len(q.tried) - 1 : Retryable(q.tried[n])
  BY <1>1 DEF Justified, q
<1>7. /\ pc = "send" => /\ Retryable(q.tried[Len(q.tried)])
                        /\ Len(q.tried) <= MaxRetries /\ q.target = "allowed"
      /\ ans = 200 => /\ q.target = "allowed" /\ Len(rows) = Len(q.tried)
                      /\ \/ ~Retryable(q.tried[Len(q.tried)])
                         \/ Len(q.tried) = 1 + MaxRetries
  BY <1>1, ReplayAssumption DEF Again, q
<1>8. Phase(r)'
  <2>1. row.pc = "send" =>
           /\ row.target = "allowed" /\ row.ans = None
           /\ Len(row.tried) = Len(row.rows) /\ Len(row.tried) <= MaxRetries
           /\ \A n \in 1 .. Len(row.tried) : Retryable(row.tried[n])
    <3>1. SUFFICES ASSUME pc = "send"
                   PROVE  \A n \in 1 .. Len(q.tried) : Retryable(q.tried[n])
      BY <1>4, <1>7 DEF q
    <3>. QED
      BY <1>1, <1>6, <1>7, <3>1
  <2>2. row.event \in EventId /\ row.target \in Target /\ row.inbox \in InboxId
    BY <1>1, <1>4
  <2>3. row.pc \in {"send", "done"} /\ (row.pc = "send" => row.ans = None)
    BY <1>4, <2>1
  <2>4. run'[r] = row
    BY <1>5
  <2>. QED
    BY <2>1, <2>2, <2>3, <2>4 DEF Phase
<1>9. Ahead(r)'
  BY <1>1, <1>4, <1>5 DEF Ahead, q
<1>10. Justified(r)'
  BY <1>1, <1>4, <1>5 DEF Justified, q
<1>11. Matches(r)'
  <2>1. q.target # "allowed" => q.sent = 0
    BY <1>1 DEF Justified, q
  <2>2. ans = 200 => q.tried # <<>>
    <3>1. Len(q.tried) # 0
      BY <1>1
    <3>. QED
      BY <3>1
  <2>3. /\ row.ans = 200 =>
              /\ row.tried # <<>> /\ Len(row.rows) = Len(row.tried)
              /\ \/ ~Retryable(row.tried[Len(row.tried)])
                 \/ Len(row.tried) = 1 + MaxRetries
        /\ row.ans \in {400, 403, 404, 422} => row.sent = 0
    BY <1>4, <1>7, <2>1, <2>2 DEF q
  <2>. QED
    BY <1>5, <2>3 DEF Matches
<1>. QED
  BY <1>5, <1>8, <1>9, <1>10, <1>11 DEF Advanced, Progress

LEMMA AnswerOrNamesRefusal ==
    ASSUME NEW r \in Run, run[r].target \in Target, NEW ans \in {200, 500}
    PROVE  /\ AnswerOr(r, ans) \in Answer
           /\ AnswerOr(r, ans) = 200 => run[r].target = "allowed" /\ ans = 200
           /\ AnswerOr(r, ans) \in {400, 403, 404, 422} => run[r].target # "allowed"
  BY DEF AnswerOr, Target, Answer, Status

LEMMA RecordKept ==
    ASSUME Stepping, NEW r \in Run, Record(r)
    PROVE  Advanced(r)
<1>1. run[r].pc = "record"
  BY DEF Record
<1>2. PICK a \in ReplayId : Insert(r, a) /\ Recorded(r, Append(run[r].rows, a))
  BY DEF Record
<1>. DEFINE rows == Append(run[r].rows, a)
            pc == IF Again(r) THEN "send" ELSE "done"
            ans == IF Again(r) THEN None ELSE AnswerOr(r, 200)
<1>3. run' = [run EXCEPT ![r] = [@ EXCEPT !.rows = rows, !.pc = pc, !.ans = ans]]
  BY <1>2 DEF Recorded
<1>4. /\ rows \in Rows /\ Len(rows) = Len(run[r].rows) + 1
      /\ Len(rows) = Len(run[r].tried)
  <2>1. run[r].rows \in Seq(ReplayId)
    BY <1>1, RecordBegins DEF Rows
  <2>2. rows \in Seq(ReplayId) /\ Len(rows) = Len(run[r].rows) + 1
    BY <2>1
  <2>. QED
    BY <1>1, <2>2, RecordBegins DEF Rows
<1>5. /\ pc \in {"send", "done"}
      /\ pc = "send" => Again(r) /\ ans = None
  OBVIOUS
<1>6. /\ ans \in Answer
      /\ ans = 200 => ~Again(r) /\ run[r].target = "allowed"
      /\ ans \in {400, 403, 404, 422} => run[r].target # "allowed"
  BY <1>1, RecordBegins, AnswerOrNamesRefusal, ReplayAssumption DEF Answer, Status
<1>7. Chained(r)'
  <2>1. /\ run'[r].rows = rows /\ run'[r].event = run[r].event
        /\ run'[r].inbox = run[r].inbox
    BY <1>1, <1>3, RecordBegins, ReplayBegins DEF RunRow
  <2>. QED
    BY <1>1, <1>2, <2>1, ChainExtended
<1>. HIDE DEF rows, pc, ans
<1>. QED
  BY <1>1, <1>3, <1>4, <1>5, <1>6, <1>7, AttemptEnds

LEMMA RecordLostAnswerKept ==
    ASSUME Stepping, NEW r \in Run, RecordLostAnswer(r)
    PROVE  Advanced(r)
<1>1. run[r].pc = "record"
  BY DEF RecordLostAnswer
<1>2. PICK a \in ReplayId : Insert(r, a) /\ NotRecorded(r, Append(run[r].rows, a))
  BY DEF RecordLostAnswer
<1>. DEFINE rows == Append(run[r].rows, a)
            ans == AnswerOr(r, 500)
<1>3. run' = [run EXCEPT ![r] = [@ EXCEPT !.rows = rows, !.pc = "done", !.ans = ans]]
  BY <1>2 DEF NotRecorded
<1>4. rows \in Rows /\ Len(rows) = Len(run[r].rows) + 1
  <2>1. run[r].rows \in Seq(ReplayId)
    BY <1>1, RecordBegins DEF Rows
  <2>. QED
    BY <2>1 DEF Rows
<1>5. /\ ans \in Answer /\ ans # 200
      /\ ans \in {400, 403, 404, 422} => run[r].target # "allowed"
  BY <1>1, RecordBegins, AnswerOrNamesRefusal
<1>6. Chained(r)'
  <2>1. /\ run'[r].rows = rows /\ run'[r].event = run[r].event
        /\ run'[r].inbox = run[r].inbox
    BY <1>1, <1>3, RecordBegins, ReplayBegins DEF RunRow
  <2>. QED
    BY <1>1, <1>2, <2>1, ChainExtended
<1>. HIDE DEF rows, ans
<1>. QED
  BY <1>1, <1>3, <1>4, <1>5, <1>6, AttemptEnds

LEMMA RecordFailedKept ==
    ASSUME Stepping, NEW r \in Run, RecordFailed(r)
    PROVE  Advanced(r)
<1>1. run[r].pc = "record"
  BY DEF RecordFailed
<1>. DEFINE rows == run[r].rows
            ans == AnswerOr(r, 500)
<1>2. run' = [run EXCEPT ![r] = [@ EXCEPT !.rows = rows, !.pc = "done", !.ans = ans]]
  BY DEF RecordFailed, NotRecorded
<1>3. rows \in Rows
  BY <1>1, RecordBegins
<1>4. /\ ans \in Answer /\ ans # 200
      /\ ans \in {400, 403, 404, 422} => run[r].target # "allowed"
  BY <1>1, RecordBegins, AnswerOrNamesRefusal
<1>5. Chained(r)'
  <2>1. /\ run'[r].rows = run[r].rows /\ run'[r].event = run[r].event
        /\ run'[r].inbox = run[r].inbox
    BY <1>1, <1>2, RecordBegins, ReplayBegins DEF RunRow
  <2>. QED
    BY <2>1, RowsKept
<1>. HIDE DEF ans
<1>. QED
  BY <1>1, <1>2, <1>3, <1>4, <1>5, AttemptEnds

-----------------------------------------------------------------------------
LEMMA InitReplayIInv == ReplayInit => ReplayIInv
<1>. SUFFICES ASSUME ReplayInit PROVE ReplayIInv
  OBVIOUS
<1>1. StoreInv
  BY InitStoreInv DEF ReplayInit
<1>2. run = [r \in Run |-> Idle]
  BY DEF ReplayInit
<1>3. run \in [Run -> RunRow]
  BY <1>2, IdleRow
<1>4. /\ Idle.pc = "idle" /\ Idle.ans = None /\ Idle.inbox = None /\ Idle.sent = 0
      /\ Idle.tried = <<>> /\ Idle.rows = <<>>
  BY DEF Idle
<1>5. ASSUME NEW r \in Run PROVE Progress(r) /\ Chained(r)
  <2>1. /\ run[r].pc = "idle" /\ run[r].ans = None /\ run[r].inbox = None
        /\ run[r].sent = 0 /\ run[r].tried = <<>> /\ run[r].rows = <<>>
    BY <1>2, <1>4
  <2>2. Len(run[r].tried) = 0 /\ Len(run[r].rows) = 0 /\ DOMAIN run[r].rows = {}
    BY <2>1
  <2>3. Phase(r)
    BY <2>1 DEF Phase
  <2>4. Ahead(r) /\ Justified(r) /\ Matches(r)
    BY <2>1, <2>2, ReplayAssumption DEF Ahead, Justified, Matches, Status
  <2>5. Chained(r)
    BY <2>1, <2>2 DEF Chained, Copied
  <2>. QED
    BY <2>3, <2>4, <2>5 DEF Progress
<1>. QED
  BY <1>1, <1>3, <1>5 DEF ReplayIInv

LEMMA ReplayNextKeepsIInv ==
    ReplayIInv /\ [ReplayNext]_replayVars => ReplayIInv'
<1>. SUFFICES ASSUME ReplayIInv, [ReplayNext]_replayVars PROVE ReplayIInv'
  OBVIOUS
<1>1. StoreInv' /\ Stepping
  BY ReplayKeepsTables, StoreNextKeepsInv, StoreStepsEndure, StoreStepsEndureReplays
     DEF Stepping, ReplayIInv, StoreInv
<1>2. ASSUME NEW r \in Run, Begin(r) \/ Handle(r) \/ Disconnect(r)
      PROVE  ReplayIInv'
  <2>1. Advanced(r)
    BY <1>1, <1>2, BeginKept, FindInboxKept, ReadFailedKept, ValidateKept,
       ExecuteKept, RecordKept, RecordLostAnswerKept, RecordFailedKept,
       DisconnectKept DEF Handle
  <2>2. ASSUME NEW s \in Run \ {r} PROVE Progress(s)' /\ Chained(s)'
    BY <1>1, <2>1, OthersKept DEF Advanced
  <2>3. ASSUME NEW s \in Run PROVE Progress(s)' /\ Chained(s)'
    <3>1. CASE s = r
      BY <2>1, <3>1 DEF Advanced
    <3>2. CASE s # r
      BY <2>2, <3>2
    <3>. QED
      BY <3>1, <3>2
  <2>. QED
    BY <1>1, <2>1, <2>3 DEF ReplayIInv, Advanced
<1>3. CASE run' = run
  <2>1. ASSUME NEW s \in Run PROVE Progress(s)' /\ Chained(s)'
    BY <1>1, <1>3, OthersKept
  <2>. QED
    BY <1>1, <1>3, <2>1 DEF ReplayIInv
<1>. QED
  BY <1>2, <1>3 DEF ReplayNext, Elsewhere, replayVars

LEMMA ReplayInvariance == ReplaySpec => []ReplayIInv
  BY InitReplayIInv, ReplayNextKeepsIInv, PTL DEF ReplaySpec

-----------------------------------------------------------------------------
(* The state of the replays and the tables below them keep their types.    *)
THEOREM ReplayTypesCorrect == ReplaySpec => []ReplayTypeOK
<1>1. ReplayIInv => ReplayTypeOK
  BY DEF ReplayIInv, StoreInv, ReplayTypeOK
<1>. QED
  BY <1>1, ReplayInvariance, PTL

(* Run never sends again before the attempt before is in the history,      *)
(* whatever fails.                                                         *)
THEOREM HistoryKeepsUp == ReplaySpec => []NeverAheadOfHistory
<1>1. ReplayIInv => NeverAheadOfHistory
  BY DEF ReplayIInv, Progress, Ahead, NeverAheadOfHistory
<1>. QED
  BY <1>1, ReplayInvariance, PTL

(* The rows of a replay are one chain, and no DELETE, cascade or SET NULL  *)
(* leaves a part of it.                                                    *)
THEOREM ChainsStayWhole == ReplaySpec => []HistoryIsChain
<1>1. ASSUME ReplayIInv PROVE HistoryIsChain
  <2>1. SUFFICES ASSUME NEW r \in Run, NEW m \in DOMAIN run[r].rows,
                        NEW n \in DOMAIN run[r].rows
        PROVE  LET a == run[r].rows[n] IN
               /\ a \in LiveReplays <=> run[r].rows[m] \in LiveReplays
               /\ a \in LiveReplays =>
                    /\ replay[a].no = n
                    /\ replay[a].retryOf = IF n = 1 THEN None ELSE run[r].rows[1]
                    /\ replay[a].event = run[r].event
                    /\ replay[a].inbox = event[run[r].event].inbox
    BY DEF HistoryIsChain
  <2>. DEFINE q == run[r]
              a == q.rows[n]
              b == q.rows[m]
  <2>2. /\ a \in ReplayId /\ b \in ReplayId
        /\ replay[a].st = "live" <=> event[q.event].st = "live"
        /\ replay[b].st = "live" <=> event[q.event].st = "live"
        /\ replay[a].st = "live" =>
              /\ replay[a].no = n
              /\ replay[a].retryOf = IF n = 1 THEN None ELSE q.rows[1]
              /\ replay[a].event = q.event
              /\ replay[a].inbox = q.inbox
    <3>1. q.rows \in Seq(ReplayId) /\ Row(r, n) /\ Row(r, m)
      BY <1>1 DEF ReplayIInv, Chained, RunRow, Rows
    <3>. QED
      BY <3>1 DEF Row
  <2>3. event[q.event].st = "live" => event[q.event].inbox = q.inbox
    BY <1>1 DEF ReplayIInv, Chained, Copied
  <2>. HIDE DEF q, a, b
  <2>. QED
    BY <2>2, <2>3 DEF LiveReplays, q, a, b
<1>. QED
  BY <1>1, ReplayInvariance, PTL

(* Requests are sent again within the budget and for a reason, never to a  *)
(* refused target.                                                         *)
THEOREM RetriesAreJustified == ReplaySpec => []RetriesJustified
<1>1. ASSUME ReplayIInv PROVE RetriesJustified
  <2>1. ASSUME NEW r \in Run
        PROVE  Justified(r) /\ run[r].sent \in Nat /\ Len(run[r].tried) \in Nat
    BY <1>1, Lists DEF ReplayIInv, Progress, RunRow
  <2>. QED
    BY <2>1, ReplayAssumption DEF Justified, RetriesJustified
<1>. QED
  BY <1>1, ReplayInvariance, PTL

(* 200 means that all that was sent is in the history, a refusal that      *)
(* nothing was sent.                                                       *)
THEOREM AnswersMatchHistory == ReplaySpec => []AnswerMatchesHistory
<1>1. ReplayIInv => AnswerMatchesHistory
  BY DEF ReplayIInv, Progress, Matches, AnswerMatchesHistory
<1>. QED
  BY <1>1, ReplayInvariance, PTL

(* Replays use the tables as Store allows.                                 *)
THEOREM ReplayImplementsStore == ReplaySpec => StoreSpec
<1>1. ReplayInit => StoreInit
  BY DEF ReplayInit
<1>2. ReplayIInv /\ [ReplayNext]_replayVars => [StoreNext]_storeVars
  BY ReplayKeepsTables
<1>. QED
  BY <1>1, <1>2, ReplayInvariance, PTL DEF ReplaySpec, StoreSpec
=============================================================================
