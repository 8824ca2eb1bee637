-------------------------- MODULE UninstallProofs --------------------------
(***************************************************************************)
(* Proofs about Tray and Uninstall, for every number of trays, servers and *)
(* commands, and every number of clicks.                                   *)
(*                                                                         *)
(* The inductive invariant has three parts: a tray that has spawned a      *)
(* service has it in hand (InHand), the mutex and the exit event between   *)
(* them let only one tray run (TrayPart), and what an uninstaller has      *)
(* removed so far stays removed (Settled), because a process that has      *)
(* ended never comes back.                                                 *)
(***************************************************************************)
EXTENDS Uninstall, TLAPS

TrayPc == {"off", "acquire", "events", "taskbar", "loop", "tail", "release", "exit", "gone"}
LivePc == {"taskbar", "loop", "tail", "release", "exit"}
HoldingPc == {"events", "taskbar", "loop", "tail", "release"}
Place == {"idle", "check", "spawn", "sweep", "wait", "shutdown", "launch", "done"}

TrayRow == [pc : TrayPc, spawned : BOOLEAN, stopping : BOOLEAN, uninstalling : BOOLEAN,
            quit : BOOLEAN, at : [Goroutine -> Place], watch : SUBSET Server,
            excused : BOOLEAN]

ServerRow == [pc : {"off", "starting", "up", "gone"}, by : Tray \cup {Nobody}]

Process == Tray \cup Server \cup Caller

CallerPc == {"off", "signal", "ack", "scan", "ask", "processes", "items", "files",
             "done", "removed", "refused", "killed"}

CallerRow == [pc : CallerPc, cmd : Command \cup {"none"}, procs : SUBSET Process,
              items : SUBSET Item, failed : BOOLEAN]

Typed ==
    /\ tray \in [Tray -> TrayRow]
    /\ server \in [Server -> ServerRow]
    /\ caller \in [Caller -> CallerRow]
    /\ mutex \in Tray \cup {Nobody}
    /\ present \subseteq Item

(* A tray that has spawned and may not spawn again runs, and has a reason. *)
InHand(row) ==
    row.spawned => /\ row.pc \in LivePc
                   /\ \/ row.watch # {}
                      \/ row.at["boot"] = "spawn" \/ row.at["toggle"] = "spawn"
                      \/ row.excused \/ row.stopping

(* Whoever is past acquireInstance holds the mutex until it releases it;   *)
(* after that its events keep others out until its process has ended.      *)
TrayPart ==
    /\ \A t \in Tray : InHand(tray[t])
    /\ \A t \in Tray : tray[t].pc \in HoldingPc => mutex = t
    /\ \A t, u \in Tray : Live(t) /\ Live(u) => t = u

LEMMA TrayRows ==
    /\ NoTray \in TrayRow /\ NewTray \in TrayRow /\ GoneTray \in TrayRow
    /\ InHand(NoTray) /\ InHand(NewTray) /\ InHand(GoneTray)
    /\ NoTray.pc = "off" /\ NewTray.pc = "acquire" /\ GoneTray.pc = "gone"
<1>1. Started \in [Goroutine -> Place]
  BY DEF Started, Place
<1>2. NoTray \in TrayRow
  BY <1>1 DEF NoTray, TrayRow, TrayPc
<1>3. NewTray \in TrayRow /\ GoneTray \in TrayRow
  BY <1>2 DEF NewTray, GoneTray, TrayRow, TrayPc
<1>. QED
  BY <1>2, <1>3 DEF InHand, NoTray, NewTray, GoneTray

LEMMA FreshIsOff ==
    ASSUME NEW state, NEW p \in Fresh(state)
    PROVE  p \in DOMAIN state /\ state[p].pc = "off"
  BY DEF Fresh

TrayMoves ==
    \A t \in Tray : /\ tray'[t].pc = "off" => tray[t].pc = "off"
                    /\ tray[t].pc = "gone" => tray'[t].pc = "gone"

(* What every step leaves of trays and mutex.                              *)
TraysKept ==
    /\ TrayPart' /\ TrayMoves
    /\ tray' \in [Tray -> TrayRow] /\ mutex' \in Tray \cup {Nobody}

-----------------------------------------------------------------------------
(* Tray t writes its own row.                                              *)
LEMMA RowWritten ==
    ASSUME Typed, TrayPart, NEW t \in Tray, NEW row \in TrayRow,
           tray' = [tray EXCEPT ![t] = row],
           InHand(row), row.pc # "off", tray[t].pc # "gone" \/ row.pc = "gone",
           row.pc \in HoldingPc => mutex' = t,
           mutex' = mutex \/ (mutex' = t /\ mutex = Nobody) \/ (mutex' = Nobody /\ mutex = t),
           row.pc \in LivePc => Live(t) \/ \A u \in Tray : ~Live(u)
    PROVE  TraysKept
<1>1. /\ tray' \in [Tray -> TrayRow] /\ tray'[t] = row
      /\ \A u \in Tray \ {t} : tray'[u] = tray[u]
  BY DEF Typed
<1>2. \A u \in Tray : InHand(tray'[u])
  BY <1>1 DEF TrayPart
<1>3. \A u \in Tray : tray'[u].pc \in HoldingPc => mutex' = u
  BY <1>1, TrayAssumption DEF TrayPart
<1>4. \A u, w \in Tray : Live(u)' /\ Live(w)' => u = w
  BY <1>1 DEF TrayPart, Live, LivePc
<1>. QED
  BY <1>1, <1>2, <1>3, <1>4 DEF TrayPart, TrayMoves, Typed, TraysKept

(* Tray t is gone, and with it the mutex if it held it.                    *)
LEMMA RowGone ==
    ASSUME Typed, TrayPart, NEW t \in Tray, tray' = [tray EXCEPT ![t] = GoneTray],
           mutex' = mutex \/ (mutex' = Nobody /\ mutex = t)
    PROVE  TraysKept
<1>1. GoneTray.pc \notin HoldingPc \cup LivePc /\ GoneTray.pc = "gone"
  BY TrayRows DEF HoldingPc, LivePc
<1>2. GoneTray \in TrayRow /\ InHand(GoneTray)
  BY TrayRows
<1>. QED
  BY <1>1, <1>2, RowWritten

(* The processes in ps are terminated, t goes on as changed.               *)
LEMMA OthersTerminated ==
    ASSUME Typed, TrayPart, NEW t \in Tray, NEW ps, t \notin ps, Live(t),
           NEW changed \in TrayRow, InHand(changed), changed.pc \in LivePc,
           changed.pc \in HoldingPc => tray[t].pc \in HoldingPc,
           tray' = [TraysWithout(ps) EXCEPT ![t] = changed],
           mutex' = IF mutex \in ps THEN Nobody ELSE mutex
    PROVE  TraysKept
<1>1. /\ tray' \in [Tray -> TrayRow] /\ tray'[t] = changed
      /\ \A u \in Tray \ {t} : tray'[u] = IF u \in ps THEN GoneTray ELSE tray[u]
  BY TrayRows DEF Typed, TraysWithout
<1>2. \A u \in Tray : InHand(tray'[u])
  BY <1>1, TrayRows DEF TrayPart
<1>3. GoneTray.pc = "gone"
  BY TrayRows
<1>4. \A u \in Tray : tray'[u].pc \in HoldingPc => mutex' = u
  BY <1>1, <1>3 DEF TrayPart, HoldingPc
<1>5. \A u, w \in Tray : Live(u)' /\ Live(w)' => u = w
  BY <1>1, <1>3 DEF TrayPart, Live
<1>6. TrayMoves
  BY <1>1, <1>3 DEF TrayMoves, Live, LivePc
<1>. QED
  BY <1>1, <1>2, <1>4, <1>5, <1>6 DEF TrayPart, TraysKept, Typed

LEMMA SomeTerminated ==
    ASSUME Typed, TrayPart, NEW ps, tray' = TraysWithout(ps),
           mutex' = IF mutex \in ps THEN Nobody ELSE mutex
    PROVE  TraysKept
<1>1. /\ tray' \in [Tray -> TrayRow]
      /\ \A u \in Tray : tray'[u] = IF u \in ps THEN GoneTray ELSE tray[u]
  BY TrayRows DEF Typed, TraysWithout
<1>2. \A u \in Tray : InHand(tray'[u])
  BY <1>1, TrayRows DEF TrayPart
<1>3. GoneTray.pc = "gone"
  BY TrayRows
<1>4. \A u \in Tray : tray'[u].pc \in HoldingPc => mutex' = u
  BY <1>1, <1>3 DEF TrayPart, HoldingPc
<1>5. \A u, w \in Tray : Live(u)' /\ Live(w)' => u = w
  BY <1>1, <1>3 DEF TrayPart, Live
<1>6. TrayMoves
  BY <1>1, <1>3 DEF TrayMoves
<1>. QED
  BY <1>1, <1>2, <1>4, <1>5, <1>6 DEF TrayPart, TraysKept, Typed

-----------------------------------------------------------------------------
(* The main goroutine.                                                     *)
LEMMA MainKeeps ==
    ASSUME Typed, TrayPart, NEW t \in Tray, Main(t)
    PROVE  TraysKept
<1>. DEFINE AtPc(pc) == [tray[t] EXCEPT !.pc = pc]
<1>0. tray[t] \in TrayRow /\ InHand(tray[t])
  BY DEF Typed, TrayPart
<1>1. ASSUME NEW pc \in LivePc \cup {"events"}, pc \in LivePc \/ ~Live(t)
      PROVE /\ AtPc(pc) \in TrayRow /\ AtPc(pc).pc = pc /\ InHand(AtPc(pc))
            /\ tray' = [tray EXCEPT ![t].pc = pc] => tray' = [tray EXCEPT ![t] = AtPc(pc)]
  <2>1. AtPc(pc) \in TrayRow /\ AtPc(pc).pc = pc
    BY <1>0 DEF TrayRow, TrayPc, LivePc
  <2>2. InHand(AtPc(pc))
    BY <1>0, <1>1 DEF TrayRow, LivePc, InHand, Live
  <2>. QED
    BY <2>1, <2>2 DEF Typed
<1>. HIDE DEF AtPc
<1>2. CASE Acquire(t)
  <2>1. CASE /\ tray' = [tray EXCEPT ![t].pc = "events"] /\ tray[t].pc = "acquire"
             /\ mutex = Nobody /\ mutex' = t
    BY <1>1, <2>1, RowWritten DEF LivePc, Live
  <2>2. CASE tray' = [tray EXCEPT ![t] = GoneTray] /\ UNCHANGED mutex
    BY <2>2, RowGone
  <2>. QED
    BY <1>2, <2>1, <2>2 DEF Acquire
<1>3. CASE CreateControlEvents(t)
  <2>1. tray[t].pc = "events" /\ mutex = t
    BY <1>3 DEF CreateControlEvents, TrayPart, HoldingPc
  <2>2. CASE tray' = [tray EXCEPT ![t] = GoneTray] /\ mutex' = Nobody
    BY <2>1, <2>2, RowGone
  <2>3. CASE /\ tray' = [tray EXCEPT ![t].pc = "taskbar"] /\ UNCHANGED mutex
             /\ \A u \in Tray : ~Live(u)
    BY <1>1, <2>1, <2>3, RowWritten DEF LivePc
  <2>. QED
    BY <1>3, <2>2, <2>3 DEF CreateControlEvents
<1>4. CASE TaskbarReady(t) \/ LoopEnds(t) \/ (Tail(t) /\ tray[t].uninstalling)
  <2>1. PICK pc \in {"loop", "tail", "release"} :
           tray' = [tray EXCEPT ![t].pc = pc] /\ UNCHANGED mutex
    BY <1>4 DEF TaskbarReady, LoopEnds, Tail
  <2>2. Live(t) /\ mutex = t
    BY <1>4 DEF TaskbarReady, LoopEnds, Tail, Live, TrayPart, HoldingPc
  <2>. QED
    BY <1>1, <2>1, <2>2, RowWritten DEF LivePc, Live
<1>5. CASE Tail(t) /\ ~tray[t].uninstalling
  <2>1. PICK spared \in SUBSET Server : StopService(t, spared, AtPc("release"))
    BY <1>5 DEF Tail, AtPc
  <2>2. Live(t) /\ tray[t].pc \in HoldingPc
    BY <1>5 DEF Tail, Live, HoldingPc
  <2>. QED
    BY <1>1, <2>1, <2>2, OthersTerminated DEF LivePc, StopService, RestWithout
<1>6. CASE ReleaseInstance(t)
  <2>1. Live(t) /\ mutex = t
    BY <1>6 DEF ReleaseInstance, Live, TrayPart, HoldingPc
  <2>2. tray' = [tray EXCEPT ![t].pc = "exit"] /\ mutex' = Nobody
    BY <1>6 DEF ReleaseInstance
  <2>. QED
    BY <1>1, <2>1, <2>2, RowWritten DEF LivePc, HoldingPc, Live
<1>7. CASE Exit(t)
  BY <1>7, RowGone DEF Exit, EndOfTray, RestWithout
<1>. QED
  BY <1>2, <1>3, <1>4, <1>5, <1>6, <1>7 DEF Main

-----------------------------------------------------------------------------
(* The other goroutines of a tray write its row while it runs.             *)
LEMMA GoroutineWrites ==
    ASSUME Typed, TrayPart, NEW t \in Tray, Live(t), NEW row \in TrayRow,
           row.pc = tray[t].pc, InHand(row), tray' = [tray EXCEPT ![t] = row],
           UNCHANGED mutex
    PROVE  TraysKept
<1>1. row.pc \in HoldingPc => mutex' = t
  BY DEF TrayPart
<1>2. row.pc # "off" /\ tray[t].pc # "gone"
  BY DEF Live
<1>. QED
  BY <1>1, <1>2, RowWritten DEF TraysKept

(* Goroutine g, which is not about to spawn, is at its next step.          *)
LEMMA Placed ==
    ASSUME Typed, TrayPart, NEW t \in Tray, NEW g \in Goroutine,
           tray[t].at[g] # "spawn", NEW step \in Place
    PROVE  LET row == [tray[t] EXCEPT !.at[g] = step] IN
           row \in TrayRow /\ row.pc = tray[t].pc /\ InHand(row)
<1>. DEFINE row == [tray[t] EXCEPT !.at[g] = step]
<1>1. tray[t] \in TrayRow /\ InHand(tray[t])
  BY DEF Typed, TrayPart
<1>2. [tray[t].at EXCEPT ![g] = step] \in [Goroutine -> Place]
  BY <1>1 DEF TrayRow
<1>3. row \in TrayRow
  BY <1>1, <1>2 DEF TrayRow
<1>4. InHand(row)
  BY <1>1 DEF TrayRow, InHand, Goroutine
<1>. QED
  BY <1>1, <1>3, <1>4 DEF TrayRow

LEMMA ToKeeps ==
    ASSUME Typed, TrayPart, NEW t \in Tray, Live(t), NEW g \in Goroutine,
           tray[t].at[g] # "spawn", NEW step \in Place, To(t, g, step), UNCHANGED mutex
    PROVE  TraysKept
<1>. DEFINE row == [tray[t] EXCEPT !.at[g] = step]
<1>1. tray' = [tray EXCEPT ![t] = row]
  BY DEF To, Typed
<1>2. row \in TrayRow /\ row.pc = tray[t].pc /\ InHand(row)
  BY Placed
<1>. QED
  BY <1>1, <1>2, GoroutineWrites

(* A goroutine that terminates the others and goes on.                     *)
LEMMA SweepThenKeeps ==
    ASSUME Typed, TrayPart, NEW t \in Tray, Live(t), NEW g \in Goroutine,
           tray[t].at[g] # "spawn", NEW step \in Place, SweepThen(t, g, step)
    PROVE  TraysKept
<1>. DEFINE row == [tray[t] EXCEPT !.at[g] = step]
<1>1. PICK spared \in SUBSET Server : StopService(t, spared, row)
  BY DEF SweepThen
<1>2. row \in TrayRow /\ row.pc = tray[t].pc /\ InHand(row)
  BY Placed
<1>3. row.pc \in LivePc
  BY <1>2 DEF Live, LivePc
<1>. QED
  BY <1>1, <1>2, <1>3, OthersTerminated DEF StopService, RestWithout

LEMMA EnsuredKeeps ==
    ASSUME Typed, TrayPart, NEW t \in Tray, Live(t), NEW g \in {"boot", "toggle"},
           tray[t].at[g] # "spawn", Ensured(t, g), UNCHANGED mutex
    PROVE  TraysKept
<1>. DEFINE row == [tray[t] EXCEPT !.at[g] = "spawn", !.spawned = TRUE]
<1>0. g \in Goroutine
  BY DEF Goroutine
<1>1. CASE To(t, g, "idle")
  BY <1>0, <1>1, ToKeeps DEF Place
<1>2. CASE tray' = [tray EXCEPT ![t].at[g] = "spawn", ![t].spawned = TRUE]
  <2>1. tray' = [tray EXCEPT ![t] = row]
    BY <1>2 DEF Typed
  <2>2. tray[t] \in TrayRow
    BY DEF Typed
  <2>3. [tray[t].at EXCEPT ![g] = "spawn"] \in [Goroutine -> Place]
    BY <2>2 DEF TrayRow, Place
  <2>4. row \in TrayRow
    BY <2>2, <2>3 DEF TrayRow
  <2>5. InHand(row) /\ row.pc = tray[t].pc
    BY <1>0, <2>2 DEF TrayRow, InHand, Goroutine, Live, LivePc
  <2>. QED
    BY <2>1, <2>4, <2>5, GoroutineWrites
<1>. QED
  BY <1>1, <1>2 DEF Ensured

LEMMA ToggleKeeps ==
    ASSUME Typed, TrayPart, NEW t \in Tray, Toggle(t)
    PROVE  TraysKept
<1>1. Live(t) /\ tray[t].at["toggle"] # "spawn" /\ UNCHANGED mutex
  BY DEF Toggle, At
<1>2. "toggle" \in Goroutine /\ "sweep" \in Place
  BY DEF Goroutine, Place
<1>3. To(t, "toggle", "sweep") \/ Ensured(t, "toggle")
  BY DEF Toggle
<1>. QED
  BY <1>1, <1>2, <1>3, ToKeeps, EnsuredKeeps

LEMMA ToggleSweepKeeps ==
    ASSUME Typed, TrayPart, NEW t \in Tray, ToggleSweep(t)
    PROVE  TraysKept
<1>. DEFINE row(spared) == [tray[t] EXCEPT !.at["toggle"] = "idle",
                                           !.spawned = @ /\ spared # {}]
<1>1. PICK spared \in SUBSET Server : StopService(t, spared, row(spared))
  BY DEF ToggleSweep
<1>2. tray[t] \in TrayRow /\ InHand(tray[t]) /\ Live(t) /\ tray[t].at["toggle"] = "sweep"
  BY DEF Typed, TrayPart, ToggleSweep, At
<1>3. [tray[t].at EXCEPT !["toggle"] = "idle"] \in [Goroutine -> Place]
  BY <1>2 DEF TrayRow, Place
<1>4. row(spared) \in TrayRow
  BY <1>2, <1>3 DEF TrayRow
<1>5. InHand(row(spared)) /\ row(spared).pc = tray[t].pc
  BY <1>2 DEF TrayRow, InHand, Goroutine
<1>6. row(spared).pc \in LivePc
  BY <1>2, <1>5 DEF Live, LivePc
<1>. QED
  BY <1>1, <1>2, <1>4, <1>5, <1>6, OthersTerminated DEF StopService, RestWithout

(* A spawn gives the tray a service to watch, or an excuse.                *)
LEMMA SpawnServiceKeeps ==
    ASSUME Typed, TrayPart, NEW t \in Tray, NEW g \in {"boot", "toggle"}, SpawnService(t, g)
    PROVE  TraysKept
<1>. DEFINE failed == [tray[t] EXCEPT !.at[g] = "idle", !.excused = TRUE]
            done(s) == [tray[t] EXCEPT !.at[g] = "idle", !.watch = @ \cup {s}]
<1>1. tray[t] \in TrayRow /\ InHand(tray[t]) /\ Live(t) /\ UNCHANGED mutex
  BY DEF Typed, TrayPart, SpawnService, At
<1>2. [tray[t].at EXCEPT ![g] = "idle"] \in [Goroutine -> Place]
  BY <1>1 DEF TrayRow, Place, Goroutine
<1>3. CASE tray' = [tray EXCEPT ![t].at[g] = "idle", ![t].excused = TRUE]
  <2>1. tray' = [tray EXCEPT ![t] = failed]
    BY <1>3 DEF Typed
  <2>2. failed \in TrayRow
    BY <1>1, <1>2 DEF TrayRow
  <2>3. InHand(failed) /\ failed.pc = tray[t].pc
    BY <1>1 DEF TrayRow, InHand, Live, LivePc
  <2>. QED
    BY <1>1, <2>1, <2>2, <2>3, GoroutineWrites
<1>4. ASSUME NEW s \in Server,
             tray' = [tray EXCEPT ![t].at[g] = "idle", ![t].watch = @ \cup {s}]
      PROVE  TraysKept
  <2>1. tray' = [tray EXCEPT ![t] = done(s)]
    BY <1>4 DEF Typed
  <2>2. done(s) \in TrayRow
    BY <1>1, <1>2 DEF TrayRow
  <2>3. InHand(done(s)) /\ done(s).pc = tray[t].pc
    BY <1>1 DEF TrayRow, InHand, Live, LivePc
  <2>. QED
    BY <1>1, <2>1, <2>2, <2>3, GoroutineWrites
<1>5. \A s \in Fresh(server) : s \in Server
  BY FreshIsOff DEF Typed
<1>. QED
  BY <1>3, <1>4, <1>5 DEF SpawnService

(* When the last service watched is gone, so is spawned, or the tray has   *)
(* an excuse.                                                              *)
LEMMA WatchServiceKeeps ==
    ASSUME Typed, TrayPart, NEW t \in Tray, NEW s \in Server, WatchService(t, s)
    PROVE  TraysKept
<1>. DEFINE row == [tray[t] EXCEPT !.watch = @ \ {s},
                                   !.spawned = @ /\ (tray[t].stopping \/ Healthy),
                                   !.excused = @ \/ (Healthy /\ ~tray[t].stopping)]
<1>1. tray[t] \in TrayRow /\ InHand(tray[t]) /\ Live(t) /\ UNCHANGED mutex
  BY DEF Typed, TrayPart, WatchService
<1>2. tray' = [tray EXCEPT ![t] = row]
  BY DEF Typed, WatchService
<1>3. row \in TrayRow
  BY <1>1 DEF TrayRow
<1>4. InHand(row) /\ row.pc = tray[t].pc
  BY <1>1 DEF TrayRow, InHand, Live, LivePc
<1>. QED
  BY <1>1, <1>2, <1>3, <1>4, GoroutineWrites

(* Whoever shuts the tray down marks it as stopping.                       *)
LEMMA StoppingKeeps ==
    ASSUME Typed, TrayPart, NEW t \in Tray, Live(t), NEW at \in [Goroutine -> Place],
           NEW quit \in BOOLEAN, UNCHANGED mutex,
           tray' = [tray EXCEPT ![t] =
                      [tray[t] EXCEPT !.at = at, !.stopping = TRUE, !.quit = quit]]
    PROVE  TraysKept
<1>. DEFINE row == [tray[t] EXCEPT !.at = at, !.stopping = TRUE, !.quit = quit]
<1>1. tray[t] \in TrayRow
  BY DEF Typed
<1>2. row \in TrayRow
  BY <1>1 DEF TrayRow
<1>3. InHand(row) /\ row.pc = tray[t].pc
  BY <1>1 DEF TrayRow, InHand, Live, LivePc
<1>. QED
  BY <1>2, <1>3, GoroutineWrites

LEMMA ShutdownKeeps ==
    ASSUME Typed, TrayPart, NEW t \in Tray, Live(t), NEW g \in Goroutine,
           Shutdown(t, g), UNCHANGED mutex
    PROVE  TraysKept
<1>1. tray[t] \in TrayRow
  BY DEF Typed
<1>2. PICK heard \in BOOLEAN :
         tray' = [tray EXCEPT ![t].at[g] = "done", ![t].stopping = TRUE,
                              ![t].quit = @ \/ (heard /\ ~tray[t].stopping)]
  BY DEF Shutdown
<1>3. [tray[t].at EXCEPT ![g] = "done"] \in [Goroutine -> Place]
  BY <1>1 DEF TrayRow, Place
<1>4. PICK quit \in BOOLEAN : quit = (tray[t].quit \/ (heard /\ ~tray[t].stopping))
  OBVIOUS
<1>5. tray' = [tray EXCEPT ![t] =
                 [tray[t] EXCEPT !.at = [tray[t].at EXCEPT ![g] = "done"],
                                 !.stopping = TRUE, !.quit = quit]]
  BY <1>1, <1>2, <1>4 DEF Typed, TrayRow
<1>. QED
  BY <1>3, <1>5, StoppingKeeps

LEMMA QuitKeeps ==
    ASSUME Typed, TrayPart, NEW t \in Tray, Quit(t)
    PROVE  TraysKept
<1>1. tray[t] \in TrayRow /\ Live(t) /\ UNCHANGED mutex
  BY DEF Typed, Quit, Live
<1>2. tray[t].at \in [Goroutine -> Place]
  BY <1>1 DEF TrayRow
<1>3. tray' = [tray EXCEPT ![t] =
                 [tray[t] EXCEPT !.at = tray[t].at, !.stopping = TRUE, !.quit = TRUE]]
  BY <1>1 DEF Typed, TrayRow, Quit
<1>. QED
  BY <1>1, <1>2, <1>3, StoppingKeeps

LEMMA WatchExitKeeps ==
    ASSUME Typed, TrayPart, NEW t \in Tray, WatchExit(t)
    PROVE  TraysKept
<1>1. "exit" \in Goroutine /\ {"sweep", "shutdown"} \subseteq Place /\ Live(t)
  BY DEF Goroutine, Place, WatchExit, At
<1>2. CASE At(t, "exit", "wait") /\ To(t, "exit", "sweep") /\ UNCHANGED mutex
  BY <1>1, <1>2, ToKeeps DEF At
<1>3. CASE At(t, "exit", "sweep") /\ SweepThen(t, "exit", "shutdown")
  BY <1>1, <1>3, SweepThenKeeps DEF At
<1>4. CASE Shutdown(t, "exit") /\ UNCHANGED mutex
  BY <1>1, <1>4, ShutdownKeeps
<1>. QED
  BY <1>2, <1>3, <1>4 DEF WatchExit

(* The menu item that uninstalls.                                          *)
LEMMA UninstallItemKeeps ==
    ASSUME Typed, TrayPart, NEW t \in Tray,
           \/ ConfirmUninstall(t) \/ BeginUninstall(t)
           \/ LaunchUninstaller(t) \/ QuitForUninstaller(t)
    PROVE  TraysKept
<1>1. "uninstall" \in Goroutine /\ {"idle", "sweep", "launch", "shutdown"} \subseteq Place
  BY DEF Goroutine, Place
<1>2. tray[t] \in TrayRow /\ InHand(tray[t]) /\ Live(t)
  BY DEF Typed, TrayPart, ConfirmUninstall, BeginUninstall, LaunchUninstaller,
         QuitForUninstaller, At
<1>3. ASSUME NEW step \in {"sweep", "idle"}, NEW b \in BOOLEAN, UNCHANGED mutex,
             tray[t].at["uninstall"] # "spawn",
             tray' = [tray EXCEPT ![t].at["uninstall"] = step, ![t].uninstalling = b]
      PROVE  TraysKept
  <2>. DEFINE row == [tray[t] EXCEPT !.at["uninstall"] = step, !.uninstalling = b]
  <2>1. tray' = [tray EXCEPT ![t] = row]
    BY <1>3 DEF Typed
  <2>2. [tray[t].at EXCEPT !["uninstall"] = step] \in [Goroutine -> Place]
    BY <1>2 DEF TrayRow, Place
  <2>3. row \in TrayRow
    BY <1>2, <2>2 DEF TrayRow
  <2>4. InHand(row) /\ row.pc = tray[t].pc
    BY <1>2 DEF TrayRow, InHand, Goroutine
  <2>. QED
    BY <1>2, <1>3, <2>1, <2>3, <2>4, GoroutineWrites
<1>4. CASE ConfirmUninstall(t)
  <2>1. tray[t].at["uninstall"] # "spawn" /\ UNCHANGED mutex
    BY <1>4 DEF ConfirmUninstall, At
  <2>. QED
    BY <1>3, <1>4, <2>1 DEF ConfirmUninstall
<1>5. CASE BeginUninstall(t)
  BY <1>1, <1>2, <1>5, SweepThenKeeps DEF BeginUninstall, At
<1>6. CASE LaunchUninstaller(t)
  <2>1. tray[t].at["uninstall"] # "spawn" /\ UNCHANGED mutex
    BY <1>6 DEF LaunchUninstaller, At
  <2>2. CASE To(t, "uninstall", "shutdown")
    BY <1>1, <1>2, <2>1, <2>2, ToKeeps
  <2>. QED
    BY <1>3, <1>6, <2>1, <2>2 DEF LaunchUninstaller
<1>7. CASE QuitForUninstaller(t)
  BY <1>1, <1>2, <1>7, ShutdownKeeps DEF QuitForUninstaller
<1>. QED
  BY <1>4, <1>5, <1>6, <1>7

(* A tray is started, by the user or by a server that came up.             *)
LEMMA NewTrayKeeps ==
    ASSUME Typed, TrayPart, NEW t \in Fresh(tray), tray' = [tray EXCEPT ![t] = NewTray],
           UNCHANGED mutex
    PROVE  TraysKept
<1>1. t \in Tray /\ tray[t].pc = "off"
  BY FreshIsOff DEF Typed
<1>2. NewTray \in TrayRow /\ InHand(NewTray) /\ NewTray.pc = "acquire"
  BY TrayRows
<1>3. NewTray.pc \notin HoldingPc \cup LivePc
  BY <1>2 DEF HoldingPc, LivePc
<1>. QED
  BY <1>1, <1>2, <1>3, RowWritten DEF TraysKept

LEMMA SameTrays ==
    ASSUME Typed, TrayPart, UNCHANGED <<tray, mutex>>
    PROVE  TraysKept
  BY DEF Typed, TrayPart, TrayMoves, TraysKept, Live

LEMMA TrayStepKeeps ==
    ASSUME Typed, TrayPart, NEW t \in Tray, TrayStep(t)
    PROVE  TraysKept
<1>1. CASE Main(t) \/ WatchExit(t)
  BY <1>1, MainKeeps, WatchExitKeeps
<1>2. CASE Toggle(t) \/ ToggleSweep(t)
  BY <1>2, ToggleKeeps, ToggleSweepKeeps
<1>3. CASE EnsureService(t)
  BY <1>3, EnsuredKeeps DEF EnsureService, At
<1>4. CASE \E g \in {"boot", "toggle"} : SpawnService(t, g)
  BY <1>4, SpawnServiceKeeps
<1>5. CASE \E s \in Server : WatchService(t, s)
  BY <1>5, WatchServiceKeeps
<1>6. CASE Quit(t)
  BY <1>6, QuitKeeps
<1>7. CASE TrayStarts(t)
  BY <1>7, NewTrayKeeps DEF TrayStarts
<1>8. CASE TrayCrashes(t)
  BY <1>8, RowGone DEF TrayCrashes, EndOfTray, RestWithout, TraysKept
<1>. QED
  BY <1>1, <1>2, <1>3, <1>4, <1>5, <1>6, <1>7, <1>8 DEF TrayStep

LEMMA TraysKeep ==
    ASSUME Typed, TrayPart, [Next]_vars
    PROVE  TraysKept
<1>1. ASSUME NEW t \in Tray, TrayStep(t)
      PROVE  TraysKept
  BY <1>1, TrayStepKeeps
<1>2. ASSUME NEW t \in Tray,
             \/ ConfirmUninstall(t) \/ BeginUninstall(t)
             \/ LaunchUninstaller(t) \/ QuitForUninstaller(t)
      PROVE  TraysKept
  BY <1>2, UninstallItemKeeps
<1>3. ASSUME NEW s \in Server, UserStarts(s) \/ Serve(s) \/ ServerEnds(s)
      PROVE  TraysKept
  BY <1>3, NewTrayKeeps, SameTrays DEF UserStarts, Serve, ServerEnds
<1>4. ASSUME NEW c \in Caller, KillProcesses(c)
      PROVE  TraysKept
  BY <1>4, SomeTerminated DEF KillProcesses, RestWithout
<1>5. ASSUME NEW c \in Caller, (\E cmd \in Command : Call(c, cmd)) \/ ExitCommand(c)
      PROVE  TraysKept
  BY <1>5, SameTrays DEF Call, ExitCommand, RequestExit, WaitExited
<1>6. ASSUME NEW c \in Caller, Uninstaller(c)
      PROVE  TraysKept
  <2>1. CASE Coordinate(c) \/ AskTray(c)
    BY <2>1, SameTrays DEF Coordinate, AskTray, RequestExit, WaitExited
  <2>2. CASE \E flags \in BOOLEAN \X BOOLEAN : Scan(c, flags[1], flags[2])
    BY <2>2, SameTrays DEF Scan
  <2>3. CASE Confirm(c) \/ RemoveItems(c) \/ RemoveAppDir(c)
    BY <2>3, SameTrays DEF Confirm, RemoveItems, RemoveAppDir
  <2>. QED
    BY <1>4, <1>6, <2>1, <2>2, <2>3 DEF Uninstaller
<1>7. CASE UNCHANGED vars
  BY <1>7, SameTrays DEF vars, trayVars
<1>. QED
  BY <1>1, <1>2, <1>3, <1>5, <1>6, <1>7 DEF Next

-----------------------------------------------------------------------------
(* What every step leaves of the servers and of the commands: a process    *)
(* that was started stays started, and one that has ended stays so.  And a *)
(* command has not moved, or is not at its list (any more), or has done a  *)
(* step of it.                                                             *)
ServersKept ==
    /\ server' \in [Server -> ServerRow]
    /\ \A s \in Server : /\ server'[s].pc = "off" => server[s].pc = "off"
                         /\ server[s].pc = "gone" => server'[s].pc = "gone"

Over == {"done", "removed", "refused", "killed"}
Late == {"items", "files", "removed"}

Retreats(c) == caller'[c].pc \notin Late /\ caller'[c].procs \subseteq caller[c].procs

AtList(c) ==
    \/ \E flags \in BOOLEAN \X BOOLEAN : Scan(c, flags[1], flags[2])
    \/ KillProcesses(c) \/ RemoveItems(c) \/ RemoveAppDir(c)

CallersKept ==
    /\ caller' \in [Caller -> CallerRow]
    /\ \A c \in Caller : /\ caller'[c].pc = "off" => caller[c].pc = "off"
                         /\ caller[c].pc \in Over => caller'[c].pc \in Over
    /\ \A c \in Caller : caller'[c] = caller[c] \/ Retreats(c) \/ AtList(c)

LEMMA ServersTerminated ==
    ASSUME Typed, NEW ps, RestWithout(ps)
    PROVE  ServersKept
<1>1. Off("gone") \in ServerRow /\ Off("gone").pc = "gone"
  BY DEF Off, ServerRow
<1>2. PICK unassigned :
         server' = [s \in Server |-> IF s \in ps \/ (server[s].by \in ps /\ s \notin unassigned)
                                     THEN Off("gone") ELSE server[s]]
  BY DEF RestWithout
<1>. QED
  BY <1>1, <1>2 DEF Typed, ServersKept

LEMMA ServerWritten ==
    ASSUME Typed, NEW s \in Server, NEW row \in ServerRow, server' = [server EXCEPT ![s] = row],
           row.pc # "off", server[s].pc # "gone"
    PROVE  ServersKept
  BY DEF Typed, ServersKept

LEMMA SameServers ==
    ASSUME Typed, UNCHANGED server
    PROVE  ServersKept
  BY DEF Typed, ServersKept

LEMMA SpawnedServer ==
    ASSUME Typed, NEW t \in Tray, NEW g \in {"boot", "toggle"}, SpawnService(t, g)
    PROVE  ServersKept
<1>1. ASSUME NEW s \in Fresh(server), server' = [server EXCEPT ![s] = [pc |-> "starting", by |-> t]]
      PROVE  ServersKept
  <2>1. s \in Server /\ server[s].pc = "off"
    BY FreshIsOff DEF Typed
  <2>2. [pc |-> "starting", by |-> t] \in ServerRow
    BY DEF ServerRow
  <2>. QED
    BY <1>1, <2>1, <2>2, ServerWritten
<1>. QED
  BY <1>1, SameServers DEF SpawnService

LEMMA ServerStepKeeps ==
    ASSUME Typed, NEW s \in Server, UserStarts(s) \/ Serve(s) \/ ServerEnds(s)
    PROVE  ServersKept
<1>1. PICK pc \in {"starting", "up", "gone"}, by \in Tray \cup {Nobody} :
         server' = [server EXCEPT ![s] = [pc |-> pc, by |-> by]]
  <2>1. server[s] = [pc |-> server[s].pc, by |-> server[s].by]
    BY DEF Typed, ServerRow
  <2>2. server[s].by \in Tray \cup {Nobody}
    BY DEF Typed, ServerRow
  <2>. QED
    BY <2>1, <2>2 DEF UserStarts, Serve, ServerEnds, Off, Typed
<1>2. server[s].pc # "gone"
  BY FreshIsOff DEF UserStarts, Serve, ServerEnds, Running
<1>3. [pc |-> pc, by |-> by] \in ServerRow
  BY DEF ServerRow
<1>. QED
  BY <1>1, <1>2, <1>3, ServerWritten

LEMMA ServersKeep ==
    ASSUME Typed, [Next]_vars
    PROVE  ServersKept
<1>1. ASSUME NEW t \in Tray, TrayStep(t)
      PROVE  ServersKept
  <2>1. CASE Main(t)
    BY <2>1, SameServers, ServersTerminated
       DEF Main, Acquire, CreateControlEvents, TaskbarReady, LoopEnds, Tail, StopService,
           ReleaseInstance, Exit, EndOfTray
  <2>2. CASE WatchExit(t) \/ Toggle(t) \/ ToggleSweep(t) \/ EnsureService(t)
    BY <2>2, SameServers, ServersTerminated
       DEF WatchExit, SweepThen, StopService, Toggle, ToggleSweep, EnsureService
  <2>3. CASE \E g \in {"boot", "toggle"} : SpawnService(t, g)
    BY <2>3, SpawnedServer
  <2>4. CASE (\E s \in Server : WatchService(t, s)) \/ Quit(t) \/ TrayStarts(t)
    BY <2>4, SameServers DEF WatchService, Quit, TrayStarts
  <2>5. CASE TrayCrashes(t)
    BY <2>5, ServersTerminated DEF TrayCrashes, EndOfTray
  <2>. QED
    BY <1>1, <2>1, <2>2, <2>3, <2>4, <2>5 DEF TrayStep
<1>2. ASSUME NEW t \in Tray,
             \/ ConfirmUninstall(t) \/ BeginUninstall(t)
             \/ LaunchUninstaller(t) \/ QuitForUninstaller(t)
      PROVE  ServersKept
  BY <1>2, SameServers, ServersTerminated
     DEF ConfirmUninstall, BeginUninstall, SweepThen, StopService, LaunchUninstaller,
         QuitForUninstaller
<1>3. ASSUME NEW c \in Caller, (\E cmd \in Command : Call(c, cmd)) \/ ExitCommand(c)
      PROVE  ServersKept
  BY <1>3, SameServers DEF Call, ExitCommand, RequestExit, WaitExited
<1>4. ASSUME NEW c \in Caller, Uninstaller(c)
      PROVE  ServersKept
  <2>1. CASE Coordinate(c) \/ AskTray(c)
    BY <2>1, SameServers DEF Coordinate, AskTray, RequestExit, WaitExited
  <2>2. CASE \E flags \in BOOLEAN \X BOOLEAN : Scan(c, flags[1], flags[2])
    BY <2>2, SameServers DEF Scan
  <2>3. CASE Confirm(c) \/ RemoveItems(c) \/ RemoveAppDir(c)
    BY <2>3, SameServers DEF Confirm, RemoveItems, RemoveAppDir
  <2>4. CASE KillProcesses(c)
    BY <2>4, ServersTerminated DEF KillProcesses
  <2>. QED
    BY <1>4, <2>1, <2>2, <2>3, <2>4 DEF Uninstaller
<1>5. CASE UNCHANGED vars
  BY <1>5, SameServers DEF vars, trayVars
<1>. QED
  BY <1>1, <1>2, <1>3, <1>4, <1>5, ServerStepKeeps DEF Next

-----------------------------------------------------------------------------
LEMMA CallerRows ==
    /\ \A cmd \in Command \cup {"none"} :
         /\ NewCaller(cmd) \in CallerRow
         /\ [NewCaller(cmd) EXCEPT !.pc = "killed"] \in CallerRow
    /\ \A cmd : NewCaller(cmd).pc = "signal" /\ NewCaller(cmd).procs = {}
    /\ \A pc \in {"done", "refused"} :
         Ended(pc) \in CallerRow /\ Ended(pc).pc = pc /\ Ended(pc).procs = {}
  BY DEF NewCaller, Ended, CallerRow, CallerPc

(* The commands in ps are terminated.                                      *)
LEMMA CallersTerminated ==
    ASSUME Typed, NEW ps, caller' = CallersWithout(ps)
    PROVE  CallersKept
<1>1. \A c \in Caller :
         LET row == [NewCaller(caller[c].cmd) EXCEPT !.pc = "killed"] IN
         row \in CallerRow /\ row.pc = "killed" /\ row.procs = {}
  BY CallerRows DEF Typed, CallerRow, NewCaller
<1>. QED
  BY <1>1 DEF Typed, CallersWithout, CallersKept, Retreats, Over, Late

LEMMA SameCallers ==
    ASSUME Typed, UNCHANGED caller
    PROVE  CallersKept
  BY DEF Typed, CallersKept

(* Command c goes on or gives up, before it has come to its list.          *)
LEMMA CallerGoesOn ==
    ASSUME Typed, NEW c \in Caller, NEW row \in CallerRow, Become(c, row),
           caller[c].pc \notin Over, row.pc # "off",
           \/ row.pc \notin Late /\ row.procs \subseteq caller[c].procs
           \/ AtList(c)
    PROVE  CallersKept
  BY DEF Typed, Become, CallersKept, Retreats

LEMMA CallsKeep ==
    ASSUME Typed, NEW c \in Fresh(caller), NEW cmd \in Command, Become(c, NewCaller(cmd))
    PROVE  CallersKept
<1>1. c \in Caller /\ caller[c].pc = "off"
  BY FreshIsOff DEF Typed
<1>. QED
  BY <1>1, CallerRows, CallerGoesOn DEF Over, Late

LEMMA GoOnRow ==
    ASSUME Typed, NEW c \in Caller, NEW pc \in CallerPc
    PROVE  /\ GoOn(c, pc) \in CallerRow
           /\ GoOn(c, pc).pc = pc /\ GoOn(c, pc).procs = caller[c].procs
           /\ GoOn(c, pc).items = caller[c].items /\ GoOn(c, pc).failed = caller[c].failed
  BY DEF Typed, GoOn, CallerRow

(* The talk with the tray.                                                 *)
LEMMA AskingKeeps ==
    ASSUME Typed, NEW c \in Caller, ExitCommand(c) \/ Coordinate(c) \/ AskTray(c) \/ Confirm(c)
    PROVE  CallersKept
<1>1. PICK row \in {GoOn(c, "ack"), GoOn(c, "scan"), GoOn(c, "processes"),
                    Ended("done"), Ended("refused")} : Become(c, row)
  BY DEF ExitCommand, Coordinate, AskTray, Confirm, RequestExit, WaitExited, Become, Step
<1>2. row \in CallerRow /\ row.pc \notin Late /\ row.pc # "off" /\ row.procs \subseteq caller[c].procs
  BY CallerRows, GoOnRow DEF CallerPc, Late
<1>3. caller[c].pc \in {"signal", "ack", "ask"}
  BY DEF ExitCommand, Coordinate, AskTray, Confirm, RequestExit, WaitExited
<1>. QED
  BY <1>1, <1>2, <1>3, CallerGoesOn DEF Over

(* The steps of the list itself.                                           *)
LEMMA ScanKeeps ==
    ASSUME Typed, NEW c \in Caller, NEW yes \in BOOLEAN, NEW allowDrop \in BOOLEAN,
           Scan(c, yes, allowDrop)
    PROVE  CallersKept
<1>0. AtList(c) /\ caller[c].pc \notin Over
  <2>1. <<yes, allowDrop>> \in BOOLEAN \X BOOLEAN
    OBVIOUS
  <2>2. Scan(c, <<yes, allowDrop>>[1], <<yes, allowDrop>>[2])
    OBVIOUS
  <2>. QED
    BY <2>1, <2>2 DEF Scan, AtList, Over
<1>1. CASE Become(c, Ended("refused"))
  BY <1>0, <1>1, CallerRows, CallerGoesOn
<1>2. ASSUME NEW pc \in {"processes", "ask"}, NEW items \in SUBSET Item,
             Become(c, [GoOn(c, pc) EXCEPT !.cmd = "uninstall", !.procs = Alive \ {c},
                                           !.items = items])
      PROVE  CallersKept
  <2>. DEFINE row == [GoOn(c, pc) EXCEPT !.cmd = "uninstall", !.procs = Alive \ {c},
                                         !.items = items]
  <2>1. Alive \subseteq Process
    BY DEF Alive, Process
  <2>2. GoOn(c, pc) \in CallerRow /\ GoOn(c, pc).pc = pc
    BY GoOnRow DEF CallerPc
  <2>3. row \in CallerRow /\ row.pc = pc
    BY <2>1, <2>2 DEF CallerRow, Command
  <2>. QED
    BY <1>0, <1>2, <2>3, CallerGoesOn
<1>. QED
  BY <1>1, <1>2 DEF Scan, Typed

LEMMA KillKeeps ==
    ASSUME Typed, NEW c \in Caller, KillProcesses(c)
    PROVE  CallersKept
<1>1. PICK killed \in SUBSET Alive, failed \in BOOLEAN :
         caller' = [CallersWithout(killed) EXCEPT ![c] = [GoOn(c, "items") EXCEPT !.failed = failed]]
  <2>1. PICK killed \in SUBSET Alive :
           caller' = [CallersWithout(killed) EXCEPT ![c] =
                        [GoOn(c, "items") EXCEPT !.failed = killed # caller[c].procs]]
    BY DEF KillProcesses
  <2>2. PICK failed \in BOOLEAN : failed = (killed # caller[c].procs)
    OBVIOUS
  <2>. QED
    BY <2>1, <2>2
<1>. DEFINE row == [GoOn(c, "items") EXCEPT !.failed = failed]
<1>2. row \in CallerRow /\ row.pc = "items"
  <2>1. GoOn(c, "items") \in CallerRow /\ GoOn(c, "items").pc = "items"
    BY GoOnRow DEF CallerPc
  <2>. QED
    BY <2>1 DEF CallerRow
<1>3. \A d \in Caller :
         LET end == [NewCaller(caller[d].cmd) EXCEPT !.pc = "killed"] IN
         end \in CallerRow /\ end.pc = "killed" /\ end.procs = {}
  BY CallerRows DEF Typed, CallerRow, NewCaller
<1>4. AtList(c) /\ caller[c].pc = "processes"
  BY DEF KillProcesses, AtList
<1>5. /\ caller' \in [Caller -> CallerRow]
      /\ \A d \in Caller \ {c} :
           caller'[d] = caller[d] \/ (caller'[d].pc = "killed" /\ caller'[d].procs = {})
      /\ caller'[c].pc = "items"
  BY <1>1, <1>2, <1>3 DEF Typed, CallersWithout
<1>. QED
  BY <1>4, <1>5 DEF CallersKept, Retreats, Over, Late

LEMMA RemovalKeeps ==
    ASSUME Typed, NEW c \in Caller, RemoveItems(c) \/ RemoveAppDir(c)
    PROVE  CallersKept
<1>1. PICK row \in CallerRow : Become(c, row) /\ row.pc \in {"files", "removed", "refused"}
  <2>1. CASE RemoveItems(c)
    <3>1. PICK left \in SUBSET caller[c].items :
             Become(c, [GoOn(c, "files") EXCEPT !.failed = @ \/ left # {}])
      BY <2>1 DEF RemoveItems
    <3>2. GoOn(c, "files") \in CallerRow /\ GoOn(c, "files").pc = "files"
      BY GoOnRow DEF CallerPc
    <3>3. [GoOn(c, "files") EXCEPT !.failed = @ \/ left # {}] \in CallerRow
      BY <3>2 DEF CallerRow
    <3>4. [GoOn(c, "files") EXCEPT !.failed = @ \/ left # {}].pc = "files"
      BY <3>2 DEF CallerRow
    <3>. QED
      BY <3>1, <3>3, <3>4
  <2>2. CASE RemoveAppDir(c)
    BY <2>2, CallerRows, GoOnRow DEF RemoveAppDir, CallerPc, Step
  <2>. QED
    BY <2>1, <2>2
<1>2. AtList(c) /\ caller[c].pc \notin Over
  BY DEF RemoveItems, RemoveAppDir, AtList, Over
<1>. QED
  BY <1>1, <1>2, CallerGoesOn

LEMMA CallersKeep ==
    ASSUME Typed, [Next]_vars
    PROVE  CallersKept
<1>0. ASSUME NEW t \in Tray, NEW spared, NEW changed, StopService(t, spared, changed)
      PROVE  CallersKept
  BY <1>0, CallersTerminated DEF StopService
<1>1. ASSUME NEW t \in Tray, TrayStep(t)
      PROVE  CallersKept
  <2>1. CASE Main(t)
    BY <1>0, <2>1, SameCallers
       DEF Main, Acquire, CreateControlEvents, TaskbarReady, LoopEnds, Tail,
           ReleaseInstance, Exit, EndOfTray
  <2>2. CASE WatchExit(t) \/ Toggle(t) \/ ToggleSweep(t) \/ EnsureService(t)
    BY <1>0, <2>2, SameCallers DEF WatchExit, SweepThen, Toggle, ToggleSweep, EnsureService
  <2>3. CASE \E g \in {"boot", "toggle"} : SpawnService(t, g)
    BY <2>3, SameCallers DEF SpawnService
  <2>4. CASE (\E s \in Server : WatchService(t, s)) \/ Quit(t) \/ TrayStarts(t) \/ TrayCrashes(t)
    BY <2>4, SameCallers DEF WatchService, Quit, TrayStarts, TrayCrashes, EndOfTray
  <2>. QED
    BY <1>1, <2>1, <2>2, <2>3, <2>4 DEF TrayStep
<1>2. ASSUME NEW t \in Tray,
             \/ ConfirmUninstall(t) \/ BeginUninstall(t)
             \/ LaunchUninstaller(t) \/ QuitForUninstaller(t)
      PROVE  CallersKept
  <2>1. CASE LaunchUninstaller(t)
    BY <2>1, SameCallers, CallsKeep DEF LaunchUninstaller, Command
  <2>. QED
    BY <1>0, <1>2, <2>1, SameCallers DEF ConfirmUninstall, BeginUninstall, SweepThen,
       QuitForUninstaller
<1>3. ASSUME NEW s \in Server, UserStarts(s) \/ Serve(s) \/ ServerEnds(s)
      PROVE  CallersKept
  BY <1>3, SameCallers DEF UserStarts, Serve, ServerEnds
<1>4. ASSUME NEW c \in Caller, \E cmd \in Command : Call(c, cmd)
      PROVE  CallersKept
  BY <1>4, CallsKeep DEF Call
<1>5. ASSUME NEW c \in Caller, ExitCommand(c) \/ Uninstaller(c)
      PROVE  CallersKept
  <2>1. ASSUME NEW flags \in BOOLEAN \X BOOLEAN, Scan(c, flags[1], flags[2])
        PROVE  CallersKept
    BY <2>1, ScanKeeps
  <2>. QED
    BY <1>5, <2>1, AskingKeeps, KillKeeps, RemovalKeeps DEF Uninstaller
<1>6. CASE UNCHANGED vars
  BY <1>6, SameCallers DEF vars, trayVars
<1>. QED
  BY <1>1, <1>2, <1>3, <1>4, <1>5, <1>6 DEF Next

-----------------------------------------------------------------------------
(* What an uninstaller found, and what of it it has removed.               *)
Used ==
    {t \in Tray : tray[t].pc # "off"} \cup {s \in Server : server[s].pc # "off"}
      \cup {c \in Caller : caller[c].pc # "off"}

Settled(c) ==
    /\ caller[c].procs \subseteq Used \ {c}
    /\ caller[c].pc \in Late /\ ~caller[c].failed => caller[c].procs \cap Alive = {}
    /\ caller[c].pc \in Late \ {"items"} /\ ~caller[c].failed => present \cap caller[c].items = {}
    /\ caller[c].pc = "removed" => ~caller[c].failed /\ ~binary

DesktopInv == Typed /\ TrayPart /\ \A c \in Caller : Settled(c)

(* A process that has ended does not come back, and neither does what was  *)
(* removed.                                                                *)
NothingReturns ==
    /\ Used \subseteq Used' /\ Used \cap Alive' \subseteq Alive
    /\ present' \subseteq present
    /\ ~binary => ~binary'

LEMMA ProcessesDoNotReturn ==
    ASSUME Typed, TraysKept, ServersKept, CallersKept
    PROVE  Used \subseteq Used' /\ Used \cap Alive' \subseteq Alive
<1>1. Used \subseteq Used'
  BY DEF Used, TraysKept, TrayMoves, ServersKept, CallersKept
<1>2. ASSUME NEW t \in Tray, t \in Used, t \in Alive'
      PROVE  t \in Alive
  <2>1. t \notin Server /\ t \notin Caller
    BY TrayAssumption
  <2>2. tray[t].pc # "off" /\ tray'[t].pc \notin {"off", "gone"}
    BY <1>2, <2>1 DEF Used, Alive
  <2>. QED
    BY <2>2 DEF TraysKept, TrayMoves, Alive
<1>3. ASSUME NEW s \in Server, s \in Used, s \in Alive'
      PROVE  s \in Alive
  <2>1. s \notin Tray /\ s \notin Caller
    BY TrayAssumption
  <2>2. server[s].pc # "off" /\ server'[s].pc \in {"starting", "up"}
    BY <1>3, <2>1 DEF Used, Alive, Running
  <2>3. server[s].pc \in {"starting", "up"}
    BY <2>2 DEF ServersKept, Typed, ServerRow
  <2>. QED
    BY <2>3 DEF Alive, Running
<1>4. ASSUME NEW c \in Caller, c \in Used, c \in Alive'
      PROVE  c \in Alive
  <2>1. c \notin Tray /\ c \notin Server
    BY TrayAssumption
  <2>2. caller[c].pc # "off" /\ Working(c)'
    BY <1>4, <2>1 DEF Used, Alive
  <2>. QED
    BY <2>2 DEF CallersKept, Working, Over, Alive
<1>. QED
  BY <1>1, <1>2, <1>3, <1>4 DEF Used

LEMMA NothingIsPutBack ==
    ASSUME [Next]_vars
    PROVE  present' \subseteq present /\ (~binary => ~binary')
<1>1. ASSUME NEW t \in Tray, TrayStep(t)
      PROVE  UNCHANGED binary
  BY <1>1 DEF TrayStep, Main, Acquire, CreateControlEvents, TaskbarReady, LoopEnds, Tail,
     ReleaseInstance, Exit, EndOfTray, WatchExit, SweepThen, StopService, Toggle, ToggleSweep,
     EnsureService, SpawnService, WatchService, Quit, TrayStarts, TrayCrashes
<1>2. ASSUME NEW t \in Tray,
             \/ ConfirmUninstall(t) \/ BeginUninstall(t)
             \/ LaunchUninstaller(t) \/ QuitForUninstaller(t)
      PROVE  UNCHANGED <<binary, present>>
  BY <1>2 DEF ConfirmUninstall, BeginUninstall, SweepThen, StopService, LaunchUninstaller,
     QuitForUninstaller
<1>3. ASSUME NEW s \in Server, UserStarts(s) \/ Serve(s) \/ ServerEnds(s)
      PROVE  UNCHANGED binary
  BY <1>3 DEF UserStarts, Serve, ServerEnds
<1>4. ASSUME NEW c \in Caller, ExitCommand(c)
      PROVE  UNCHANGED binary
  BY <1>4 DEF ExitCommand, RequestExit, WaitExited
<1>5. ASSUME NEW c \in Caller, (\E cmd \in Command : Call(c, cmd)) \/ Uninstaller(c)
      PROVE  present' \subseteq present /\ (~binary => ~binary')
  <2>1. CASE RemoveItems(c)
    BY <2>1 DEF RemoveItems
  <2>2. CASE RemoveAppDir(c)
    <3>1. UNCHANGED present /\ (binary' = FALSE \/ binary' = binary)
      BY <2>2 DEF RemoveAppDir
    <3>. QED
      BY <3>1
  <2>3. ASSUME \/ Coordinate(c) \/ AskTray(c) \/ Confirm(c) \/ KillProcesses(c)
               \/ \E cmd \in Command : Call(c, cmd)
               \/ \E flags \in BOOLEAN \X BOOLEAN : Scan(c, flags[1], flags[2])
        PROVE  UNCHANGED <<binary, present>>
    BY <2>3 DEF Coordinate, AskTray, RequestExit, WaitExited, Confirm, KillProcesses, Call, Scan
  <2>. QED
    BY <1>5, <2>1, <2>2, <2>3 DEF Uninstaller
<1>. QED
  BY <1>1, <1>2, <1>3, <1>4, <1>5 DEF Next, vars, trayVars

(* A command that did not do a step of its list.                           *)
LEMMA SettledStays ==
    ASSUME NothingReturns, NEW c \in Caller, Settled(c),
           caller'[c] = caller[c] \/ Retreats(c)
    PROVE  Settled(c)'
<1>1. CASE caller'[c] = caller[c]
  BY <1>1 DEF Settled, NothingReturns
<1>2. CASE Retreats(c)
  BY <1>2 DEF Settled, NothingReturns, Retreats, Late
<1>. QED
  BY <1>1, <1>2

LEMMA ScanSettles ==
    ASSUME Typed, NothingReturns, NEW c \in Caller, NEW yes \in BOOLEAN, NEW allowDrop \in BOOLEAN,
           Scan(c, yes, allowDrop)
    PROVE  Settled(c)'
<1>1. CASE Become(c, Ended("refused"))
  BY <1>1, CallerRows DEF Become, Typed, Settled, Late
<1>2. ASSUME NEW pc \in {"processes", "ask"}, NEW items,
             Become(c, [GoOn(c, pc) EXCEPT !.cmd = "uninstall", !.procs = Alive \ {c},
                                           !.items = items])
      PROVE  Settled(c)'
  <2>1. Alive \subseteq Used
    BY DEF Alive, Used, Running, Working
  <2>2. caller'[c].pc = pc /\ caller'[c].procs = Alive \ {c}
    BY <1>2, GoOnRow DEF Become, Typed, CallerRow, CallerPc
  <2>. QED
    BY <2>1, <2>2 DEF Settled, Late, NothingReturns
<1>. QED
  BY <1>1, <1>2 DEF Scan

(* Unless it has failed, every process of the list has been terminated.    *)
LEMMA KillSettles ==
    ASSUME Typed, NothingReturns, NEW c \in Caller, Settled(c), KillProcesses(c)
    PROVE  Settled(c)'
<1>. DEFINE procs == caller[c].procs
<1>1. PICK killed \in SUBSET Alive :
         /\ tray' = TraysWithout(killed)
         /\ caller' = [CallersWithout(killed) EXCEPT ![c] =
                         [GoOn(c, "items") EXCEPT !.failed = killed # procs]]
         /\ RestWithout(killed)
  BY DEF KillProcesses
<1>2. GoOn(c, "items") \in CallerRow /\ GoOn(c, "items").pc = "items" /\ GoOn(c, "items").procs = procs
  BY GoOnRow DEF CallerPc
<1>3. /\ caller'[c].pc = "items" /\ caller'[c].procs = procs
      /\ ~caller'[c].failed => killed = procs
  BY <1>1, <1>2 DEF CallerRow, Typed, CallersWithout
<1>4. c \notin procs
  BY DEF Settled
<1>5. ASSUME killed = procs, NEW p \in procs, p \in Alive'
      PROVE  FALSE
  <2>1. CASE p \in Tray
    <3>1. tray'[p].pc = "gone"
      BY <1>1, <1>5, <2>1, TrayRows DEF TraysWithout
    <3>. QED
      BY <1>5, <2>1, <3>1, TrayAssumption DEF Alive
  <2>2. CASE p \in Server
    <3>1. server'[p].pc = "gone"
      BY <1>1, <1>5, <2>2 DEF RestWithout, Off
    <3>. QED
      BY <1>5, <2>2, <3>1, TrayAssumption DEF Alive, Running
  <2>3. CASE p \in Caller
    <3>1. caller'[p].pc = "killed"
      BY <1>1, <1>4, <1>5, <2>3 DEF CallersWithout, Typed, NewCaller
    <3>. QED
      BY <1>5, <2>3, <3>1, TrayAssumption DEF Alive, Working
  <2>. QED
    BY <1>5, <2>1, <2>2, <2>3 DEF Alive
<1>. QED
  BY <1>3, <1>5 DEF Settled, Late, NothingReturns

LEMMA RemoveItemsSettles ==
    ASSUME Typed, NothingReturns, NEW c \in Caller, Settled(c), RemoveItems(c)
    PROVE  Settled(c)'
<1>1. PICK left \in SUBSET caller[c].items :
         /\ present' = present \ (caller[c].items \ left)
         /\ Become(c, [GoOn(c, "files") EXCEPT !.failed = @ \/ left # {}])
  BY DEF RemoveItems
<1>2. /\ GoOn(c, "files") \in CallerRow
      /\ GoOn(c, "files").pc = "files" /\ GoOn(c, "files").procs = caller[c].procs
      /\ GoOn(c, "files").items = caller[c].items /\ GoOn(c, "files").failed = caller[c].failed
  BY GoOnRow DEF CallerPc
<1>3. /\ caller'[c].pc = "files" /\ caller'[c].procs = caller[c].procs
      /\ caller'[c].items = caller[c].items
      /\ ~caller'[c].failed => ~caller[c].failed /\ left = {}
  BY <1>1, <1>2 DEF CallerRow, Typed, Become
<1>4. caller[c].pc = "items"
  BY DEF RemoveItems
<1>5. ~caller'[c].failed => caller[c].procs \cap Alive' = {}
  BY <1>3, <1>4 DEF Settled, Late, NothingReturns
<1>6. ~caller'[c].failed => present' \cap caller[c].items = {}
  BY <1>1, <1>3
<1>. QED
  BY <1>3, <1>5, <1>6 DEF Settled, Late, NothingReturns

LEMMA RemoveAppDirSettles ==
    ASSUME Typed, NothingReturns, NEW c \in Caller, Settled(c), RemoveAppDir(c)
    PROVE  Settled(c)'
<1>1. CASE Become(c, Ended("refused"))
  BY <1>1, CallerRows DEF Become, Typed, Settled, Late
<1>2. CASE ~caller[c].failed /\ Step(c, "removed") /\ binary' = FALSE
  <2>1. caller[c].pc = "files" /\ caller'[c] = GoOn(c, "removed")
    BY <1>2 DEF RemoveAppDir, Step, Become, Typed
  <2>2. /\ caller'[c].pc = "removed" /\ caller'[c].procs = caller[c].procs
        /\ caller'[c].items = caller[c].items /\ ~caller'[c].failed
    BY <1>2, <2>1, GoOnRow DEF CallerPc
  <2>. QED
    BY <1>2, <2>1, <2>2 DEF Settled, Late, NothingReturns
<1>. QED
  BY <1>1, <1>2 DEF RemoveAppDir

-----------------------------------------------------------------------------
LEMMA DesktopInit ==
    ASSUME Init
    PROVE  DesktopInv
<1>1. Off("off") \in ServerRow
  BY DEF Off, ServerRow
<1>2. LET row == [NewCaller("exit") EXCEPT !.pc = "off"] IN
      row \in CallerRow /\ row.pc = "off" /\ row.procs = {}
  BY DEF NewCaller, CallerRow, CallerPc, Command
<1>3. Typed
  BY <1>1, <1>2, TrayRows DEF Init, Typed
<1>4. TrayPart
  BY TrayRows DEF Init, TrayPart, HoldingPc, Live
<1>5. \A c \in Caller : Settled(c)
  BY <1>2 DEF Init, Settled, Late
<1>. QED
  BY <1>3, <1>4, <1>5 DEF DesktopInv

LEMMA DesktopStep ==
    ASSUME DesktopInv, [Next]_vars
    PROVE  DesktopInv'
<1>1. Typed /\ TrayPart /\ \A c \in Caller : Settled(c)
  BY DEF DesktopInv
<1>2. TraysKept /\ ServersKept /\ CallersKept
  BY <1>1, TraysKeep, ServersKeep, CallersKeep
<1>3. NothingReturns
  BY <1>1, <1>2, ProcessesDoNotReturn, NothingIsPutBack DEF NothingReturns
<1>4. Typed'
  BY <1>1, <1>2, <1>3 DEF TraysKept, ServersKept, CallersKept, NothingReturns, Typed
<1>5. ASSUME NEW c \in Caller
      PROVE  Settled(c)'
  <2>1. CASE AtList(c)
    <3>1. ASSUME NEW flags \in BOOLEAN \X BOOLEAN, Scan(c, flags[1], flags[2])
          PROVE  Settled(c)'
      BY <1>1, <1>3, <3>1, ScanSettles
    <3>. QED
      BY <1>1, <1>3, <2>1, <3>1, KillSettles, RemoveItemsSettles, RemoveAppDirSettles DEF AtList
  <2>2. CASE caller'[c] = caller[c] \/ Retreats(c)
    BY <1>1, <1>3, <2>2, SettledStays
  <2>. QED
    BY <1>2, <2>1, <2>2 DEF CallersKept
<1>. QED
  BY <1>2, <1>4, <1>5 DEF DesktopInv, TraysKept

THEOREM DesktopInvariant == Spec => []DesktopInv
<1>1. Init => DesktopInv
  BY DesktopInit
<1>2. DesktopInv /\ [Next]_vars => DesktopInv'
  BY DesktopStep
<1>. QED
  BY <1>1, <1>2, PTL DEF Spec

(* internal/tray: `start` after a manual stop works again.  However        *)
(* toggles, sweeps and watchers overlap, a tray with spawned set watches a *)
(* service, is about to spawn one, is stopping, or has the excuse of a     *)
(* failed spawn or of something else that answered.                        *)
THEOREM StartWorks == Spec => []MenuStartWorks
<1>1. DesktopInv => MenuStartWorks
  <2>1. ASSUME DesktopInv, NEW t \in Tray, tray[t].spawned
        PROVE  \/ tray[t].watch # {} \/ \E g \in {"boot", "toggle"} : At(t, g, "spawn")
               \/ tray[t].excused \/ tray[t].stopping
    BY <2>1 DEF DesktopInv, TrayPart, InHand, At, Live, LivePc
  <2>. QED
    BY <2>1 DEF MenuStartWorks
<1>. QED
  BY <1>1, DesktopInvariant, PTL

(* internal/cli/uninstall: what an uninstaller that ended with success has *)
(* listed is gone, whatever was started, ended or refused to end meanwhile.*)
THEOREM SuccessIsComplete == Spec => []SuccessMeansGone
<1>1. DesktopInv => SuccessMeansGone
  BY DEF DesktopInv, Settled, Late, SuccessMeansGone
<1>. QED
  BY <1>1, DesktopInvariant, PTL

(* However a tray ends, the goroutines of two trays never run together:    *)
(* its events outlive the mutex it has released.                           *)
THEOREM SingleInstance == Spec => []OneTray
<1>1. DesktopInv => OneTray
  BY DEF DesktopInv, TrayPart, OneTray
<1>. QED
  BY <1>1, DesktopInvariant, PTL
=============================================================================
