------------------------------ MODULE Uninstall ------------------------------
(***************************************************************************)
(* The uninstaller (internal/cli/uninstall) beside the tray it must first  *)
(* send away: started by hand or from the list of installed apps           *)
(* (`uninstall`), by `tray --uninstall`, or by the tray's own menu.        *)
(*                                                                         *)
(* What there is to remove: processes of the binary, registrations         *)
(* (service, autostart task, app entry and PATH, one item here), the       *)
(* database and the application directory with the binary and the config.  *)
(* The scan is one step; after it the program asks, and then goes through  *)
(* its list, whatever has been started, or has ended, in the meantime.     *)
(***************************************************************************)
EXTENDS Tray

CONSTANT Flags   \* what `uninstall` may be given: sets of <<--yes, --drop-database>>

ASSUME UninstallAssumption == Flags \subseteq BOOLEAN \X BOOLEAN

VARIABLE present   \* what there is of registrations and database

vars == <<trayVars, present>>

-----------------------------------------------------------------------------
Command == {"exit", "uninstall", "tray --uninstall"}

Item == {"registrations", "database"}

Become(c, state) == caller' = [caller EXCEPT ![c] = state]
Step(c, pc) == Become(c, GoOn(c, pc))

(* A command the user types.                                               *)
Call(c, cmd) ==
    /\ binary /\ c \in Fresh(caller)
    /\ Become(c, NewCaller(cmd))
    /\ UNCHANGED <<tray, server, mutex, signalled, binary, clicks, present>>

(* coordinateWithTray: a tray that stays is the end of it.                 *)
Coordinate(c) ==
    /\ caller[c].cmd = "uninstall"
    /\ \/ RequestExit(c, [signalled |-> GoOn(c, "ack"), error |-> GoOn(c, "ack"),
                          noTray |-> GoOn(c, "scan")])
       \/ WaitExited(c, [gone |-> GoOn(c, "scan"), there |-> Ended("refused")])
    /\ UNCHANGED present

(* runUninstall of `tray --uninstall`: a stuck tray does not block it.     *)
AskTray(c) ==
    /\ caller[c].cmd = "tray --uninstall"
    /\ \/ RequestExit(c, [signalled |-> GoOn(c, "ack"), error |-> GoOn(c, "scan"),
                          noTray |-> GoOn(c, "scan")])
       \/ WaitExited(c, [gone |-> GoOn(c, "scan"), there |-> GoOn(c, "scan")])
    /\ UNCHANGED present

-----------------------------------------------------------------------------
(* confirmDropDatabase: only when allowed; then --yes settles it, or the   *)
(* user, who must agree twice, does.                                       *)
DropsDatabase(yes, allowDrop) ==
    IF ~allowDrop THEN {FALSE} ELSE IF yes THEN {TRUE} ELSE BOOLEAN

(* platformItems, scanDatabase and scanFiles.  Processes never include the *)
(* uninstaller itself, the database is listed when it can be reached; of   *)
(* what is listed, items keeps what will be removed.  Without --yes the    *)
(* program then asks; `tray --uninstall` has no flags.                     *)
Scan(c, yes, allowDrop) ==
    /\ caller[c].pc = "scan"
    /\ <<yes, allowDrop>> \in IF caller[c].cmd = "uninstall" THEN Flags ELSE {<<FALSE, FALSE>>}
    /\ IF present = {} /\ ~binary /\ Alive = {c} THEN Become(c, Ended("refused"))
       ELSE \E reachable \in BOOLEAN, drop \in DropsDatabase(yes, allowDrop) :
               Become(c, [GoOn(c, IF yes THEN "processes" ELSE "ask") EXCEPT
                            !.cmd = "uninstall", !.procs = Alive \ {c},
                            !.items = IF reachable /\ drop THEN present
                                      ELSE present \ {"database"}])
    /\ UNCHANGED <<tray, server, mutex, signalled, binary, clicks, present>>

(* What the user answered is drawn with the scan; here it is given.  One   *)
(* who declines, or cannot be read, changes nothing.                       *)
Confirm(c) ==
    /\ caller[c].pc = "ask"
    /\ Step(c, "processes") \/ Become(c, Ended("refused"))
    /\ UNCHANGED <<tray, server, mutex, signalled, binary, clicks, present>>

-----------------------------------------------------------------------------
(* Mutant: what cannot be killed is taken for what has ended by itself.    *)
KillProcessesAnyway(c) ==
    /\ caller[c].pc = "processes"
    /\ \E killed \in SUBSET (caller[c].procs \cap Alive) :
          /\ tray' = TraysWithout(killed)
          /\ caller' = [CallersWithout(killed) EXCEPT ![c] = GoOn(c, "items")]
          /\ RestWithout(killed)
    /\ UNCHANGED <<binary, clicks, present>>

(* killProcesses, one after the other; it ends at the first that cannot be *)
(* terminated, which one that has ended by itself cannot.  A failed item   *)
(* is counted, and the rest goes on.                                       *)
KillProcesses(c) ==
    /\ caller[c].pc = "processes"
    /\ \E killed \in SUBSET (caller[c].procs \cap Alive) :
          /\ tray' = TraysWithout(killed)
          /\ caller' = [CallersWithout(killed) EXCEPT ![c] =
                           [GoOn(c, "items") EXCEPT !.failed = killed # caller[c].procs]]
          /\ RestWithout(killed)
    /\ UNCHANGED <<binary, clicks, present>>

(* The other items, one after the other: each is gone, or counted as       *)
(* failed and there still.                                                 *)
RemoveItems(c) ==
    /\ caller[c].pc = "items"
    /\ \E left \in SUBSET caller[c].items :
          /\ present' = present \ (caller[c].items \ left)
          /\ Become(c, [GoOn(c, "files") EXCEPT !.failed = @ \/ left # {}])
    /\ UNCHANGED <<tray, server, mutex, signalled, binary, clicks>>

(* removeAppDir, which moves the running binary out first.  When it fails, *)
(* any part of the directory may be gone; while another process runs from  *)
(* it, it may fail or not.                                                 *)
RemoveAppDir(c) ==
    /\ caller[c].pc = "files"
    /\ \/ /\ IF caller[c].failed THEN Become(c, Ended("refused")) ELSE Step(c, "removed")
          /\ binary' = FALSE
       \/ Become(c, Ended("refused")) /\ binary' \in {binary, FALSE}
    /\ UNCHANGED <<tray, server, mutex, signalled, clicks, present>>

Uninstaller(c) ==
    \/ Coordinate(c) \/ AskTray(c)
    \/ \E flags \in BOOLEAN \X BOOLEAN : Scan(c, flags[1], flags[2])
    \/ Confirm(c)
    \/ KillProcesses(c) \/ RemoveItems(c) \/ RemoveAppDir(c)

-----------------------------------------------------------------------------
(* beginUninstall, from the tray's menu: the dialog, which may have been   *)
(* opened before the tray began to stop, the sweep, and the uninstaller in *)
(* a console of its own; when that fails the tray stays.                   *)
ConfirmUninstall(t) ==
    /\ tray[t].pc \in {"loop", "tail", "release", "exit"} /\ At(t, "uninstall", "idle") /\ Click
    /\ tray[t].stopping => tray[t].quit
    /\ tray' = [tray EXCEPT ![t].at["uninstall"] = "sweep", ![t].uninstalling = TRUE]
    /\ UNCHANGED <<server, caller, mutex, signalled, binary, present>>

BeginUninstall(t) ==
    /\ At(t, "uninstall", "sweep") /\ SweepThen(t, "uninstall", "launch")
    /\ UNCHANGED present

LaunchUninstaller(t) ==
    /\ At(t, "uninstall", "launch")
    /\ \/ /\ tray' = [tray EXCEPT ![t].at["uninstall"] = "idle", ![t].uninstalling = FALSE]
          /\ UNCHANGED caller
       \/ /\ \E c \in Fresh(caller) : binary /\ Become(c, NewCaller("uninstall"))
          /\ To(t, "uninstall", "shutdown")
    /\ UNCHANGED <<server, mutex, signalled, binary, clicks, present>>

QuitForUninstaller(t) ==
    /\ At(t, "uninstall", "shutdown") /\ Shutdown(t, "uninstall")
    /\ UNCHANGED <<server, caller, mutex, signalled, binary, clicks, present>>

-----------------------------------------------------------------------------
TrayStep(t) ==
    \/ Main(t) \/ WatchExit(t)
    \/ Toggle(t) \/ ToggleSweep(t)
    \/ EnsureService(t) \/ \E g \in {"boot", "toggle"} : SpawnService(t, g)
    \/ \E s \in Server : WatchService(t, s)
    \/ Quit(t) \/ TrayStarts(t) \/ TrayCrashes(t)

Init ==
    /\ tray = [t \in Tray |-> NoTray]
    /\ server = [s \in Server |-> Off("off")]
    /\ caller = [c \in Caller |-> [NewCaller("exit") EXCEPT !.pc = "off"]]
    /\ mutex = Nobody /\ signalled = FALSE /\ binary = TRUE
    /\ clicks = 0
    /\ present = Item

Next ==
    \/ \E t \in Tray :
         \/ TrayStep(t) /\ UNCHANGED present
         \/ ConfirmUninstall(t) \/ BeginUninstall(t)
         \/ LaunchUninstaller(t) \/ QuitForUninstaller(t)
    \/ \E s \in Server : (UserStarts(s) \/ Serve(s) \/ ServerEnds(s)) /\ UNCHANGED present
    \/ \E c \in Caller :
         \/ \E cmd \in Command : Call(c, cmd)
         \/ ExitCommand(c) /\ UNCHANGED present
         \/ Uninstaller(c)

(* Windows schedules the process; nobody has to click, type or start       *)
(* anything, and no server has to come up.                                 *)
Leaves(t) == (Main(t) \/ WatchExit(t)) /\ UNCHANGED present

Fairness == \A t \in Tray : WF_vars(Leaves(t))

Spec == Init /\ [][Next]_vars /\ Fairness

-----------------------------------------------------------------------------
(* A signalled exit ends a tray whose icon loop runs: neither an open      *)
(* dialog, a toggle in progress, another exit on the way nor a failing     *)
(* sweep keeps it.                                                         *)
ExitEndsTray ==
    \A t \in Tray :
       (tray[t].pc = "loop" /\ ~tray[t].stopping /\ signalled) ~> tray[t].pc = "gone"

(* tray.go:41-44: spawned is reset whenever the service is confirmed gone, *)
(* "so 'start' after a manual stop works again".  However toggles, sweeps  *)
(* and watchers of dead services overlap, a tray that neither spawns nor   *)
(* waits for a service can spawn one - except after a spawn that failed    *)
(* early, or when something else answered as the service died.             *)
MenuStartWorks ==
    \A t \in Tray :
       tray[t].spawned =>
          \/ tray[t].watch # {} \/ \E g \in {"boot", "toggle"} : At(t, g, "spawn")
          \/ tray[t].excused \/ tray[t].stopping

(* "One tray per desktop" (ipc_windows.go:20-22, tray.go:81-122): the      *)
(* mutex is released while the goroutines of the tray still run, until its *)
(* process ends; even so they and those of the next tray never run at the  *)
(* same time, whoever crashes, probes the mutex or is swept away.          *)
OneTray == \A t, u \in Tray : Live(t) /\ Live(u) => t = u

(* An uninstaller that reports success has removed everything it listed:   *)
(* whatever was started, ended or refused to end while it asked, no        *)
(* process it found is left, and neither are registrations and binary.     *)
SuccessMeansGone ==
    \A c \in Caller :
       caller[c].pc = "removed" =>
          /\ caller[c].procs \cap Alive = {} /\ ~binary
          /\ present \cap caller[c].items = {}

(* The uninstaller never ends at the hand of the tray it sends away:       *)
(* uninstall/command.go:108 expects that "it heard us and left", and       *)
(* tray.go:53 that the tray "does not kill the uninstaller".               *)
UninstallerSurvives ==
    \A c \in Caller : caller[c].pc = "killed" => caller[c].cmd = "exit"
=============================================================================
