-------------------------------- MODULE Tray --------------------------------
(***************************************************************************)
(* The tray application of a Windows desktop (internal/tray) beside the    *)
(* other processes of the same binary: servers, which the user or a tray   *)
(* starts, and callers, the short-lived commands that talk to the tray     *)
(* (`tray --exit` here, `uninstall` in Uninstall).                         *)
(*                                                                         *)
(* A tray is several goroutines over a few shared flags: the one of Run,   *)
(* the first ensureService, the menu items toggle and uninstall, watchExit *)
(* and one watcher per service it spawned.  They go on until the process   *)
(* ends.  A probe of /healthz and the change of a flag it leads to are one *)
(* step, what it leads to after that is another; stopService is one step.  *)
(*                                                                         *)
(* Left out: the icon, which no code reads back; the uninstall event,      *)
(* which no code signals (RequestUninstall has no caller); and the port,   *)
(* the same for all.  The library's CreateMutex and CreateEvent report a   *)
(* name that already exists as an error, at which acquireInstance and      *)
(* nobodyHoldsMutex give up; where they could as well have waited, both    *)
(* outcomes are allowed.                                                   *)
(*                                                                         *)
(* A process identifier is used once: Tray, Server and Caller bound how    *)
(* many processes of each kind are ever started.                           *)
(***************************************************************************)
EXTENDS Naturals, FiniteSets

CONSTANTS
    Tray, Server, Caller,   \* processes of the binary
    Nobody,                 \* no process: not Tray, Server or Caller
    MaxClicks               \* bound of the model: clicks on menu items

ASSUME TrayAssumption ==
    /\ MaxClicks \in Nat
    /\ Nobody \notin Tray \cup Server \cup Caller
    /\ Tray \cap Server = {} /\ Server \cap Caller = {} /\ Tray \cap Caller = {}

VARIABLES
    tray,      \* tray[t]: its goroutines and flags
    server,    \* server[s]: whether it answers, who spawned it, in whose job
    caller,    \* caller[c]: the command and where it is
    mutex,     \* the tray that holds the single-instance mutex
    signalled, \* the state of the auto-reset exit event
    binary,    \* whether the installed executable is there
    clicks     \* clicks so far, bounded

trayVars == <<tray, server, caller, mutex, signalled, binary, clicks>>

-----------------------------------------------------------------------------
Goroutine == {"boot", "toggle", "exit", "uninstall"}

Started == [g \in Goroutine |-> IF g = "boot" THEN "check"
                               ELSE IF g = "exit" THEN "wait" ELSE "idle"]

NoTray == [pc |-> "off", spawned |-> FALSE, stopping |-> FALSE, uninstalling |-> FALSE,
           quit |-> FALSE, at |-> Started, watch |-> {}, excused |-> FALSE]
NewTray == [NoTray EXCEPT !.pc = "acquire"]
GoneTray == [NoTray EXCEPT !.pc = "gone"]

Off(pc) == [pc |-> pc, by |-> Nobody]

(* Its goroutines run: from the creation of the events to the exit.        *)
Live(t) == tray[t].pc \in {"taskbar", "loop", "tail", "release", "exit"}

(* A command just started, and one that has ended in some way.             *)
NewCaller(cmd) == [pc |-> "signal", cmd |-> cmd, procs |-> {}, items |-> {}, failed |-> FALSE]
Ended(pc) == [NewCaller("none") EXCEPT !.pc = pc]

Working(c) == caller[c].pc \notin {"off", "done", "removed", "refused", "killed"}

Healthy == \E s \in Server : server[s].pc = "up"

Running(s) == server[s].pc \in {"starting", "up"}

(* A new process; which of the identifiers not yet used it gets does not   *)
(* matter.                                                                 *)
Fresh(state) == LET free == {p \in DOMAIN state : state[p].pc = "off"} IN
                IF free = {} THEN {} ELSE {CHOOSE p \in free : TRUE}

Alive == {t \in Tray : tray[t].pc \notin {"off", "gone"}} \cup {s \in Server : Running(s)}
           \cup {c \in Caller : Working(c)}

(* What is left when the processes in ps have ended.  The services of a    *)
(* tray's kill-on-close job end with it; whether a service was assigned to *)
(* the job, which may fail and is survivable, shows only then.  The mutex  *)
(* is abandoned and the event object goes.                                 *)
TraysWithout(ps) == [t \in Tray |-> IF t \in ps THEN GoneTray ELSE tray[t]]

CallersWithout(ps) ==
    [c \in Caller |-> IF c \in ps THEN [NewCaller(caller[c].cmd) EXCEPT !.pc = "killed"] ELSE caller[c]]

RestWithout(ps) ==
    /\ \E unassigned \in SUBSET {s \in Server : server[s].by \in ps \cap Tray} :
          server' = [s \in Server |-> IF s \in ps \/ (server[s].by \in ps /\ s \notin unassigned)
                                      THEN Off("gone") ELSE server[s]]
    /\ mutex' = IF mutex \in ps THEN Nobody ELSE mutex
    /\ signalled' = (signalled /\ \E t \in Tray \ ps : Live(t))

-----------------------------------------------------------------------------
(* Goroutine g of tray t goes on with, or is at, a step.                   *)
To(t, g, step) == tray' = [tray EXCEPT ![t].at[g] = step]

At(t, g, step) == Live(t) /\ tray[t].at[g] = step

(* stopService: every other process of the binary is terminated, whatever  *)
(* it is; terminating a server may fail.  changed is what becomes of t.    *)
StopService(t, spared, changed) ==
    LET targets == Alive \ ({t} \cup spared) IN
    /\ tray' = [TraysWithout(targets) EXCEPT ![t] = changed]
    /\ caller' = CallersWithout(targets)
    /\ RestWithout(targets)
    /\ UNCHANGED <<binary, clicks>>

SweepThen(t, g, step) ==
    \E spared \in SUBSET {s \in Server : Running(s)} :
       StopService(t, spared, [tray[t] EXCEPT !.at[g] = step])

-----------------------------------------------------------------------------
(* acquireInstance.  Another process that only probes the mutex makes a    *)
(* tray believe it is the second one, too.                                 *)
Probing == \E c \in Caller : caller[c].pc = "ack"

Acquire(t) ==
    /\ tray[t].pc = "acquire"
    /\ \/ /\ mutex = Nobody
          /\ mutex' = t /\ tray' = [tray EXCEPT ![t].pc = "events"]
       \/ /\ mutex # Nobody \/ Probing
          /\ tray' = [tray EXCEPT ![t] = GoneTray] /\ UNCHANGED mutex
    /\ UNCHANGED <<server, caller, signalled, binary, clicks>>

(* Mutant: the events of another tray are opened, not refused.             *)
CreateControlEventsAnyway(t) ==
    /\ tray[t].pc = "events"
    /\ tray' = [tray EXCEPT ![t].pc = "taskbar"]
    /\ UNCHANGED <<server, caller, mutex, signalled, binary, clicks>>

(* createControlEvents fails while the process of the last tray has not    *)
(* ended.                                                                  *)
CreateControlEvents(t) ==
    /\ tray[t].pc = "events"
    /\ IF \E u \in Tray : Live(u)
       THEN mutex' = Nobody /\ tray' = [tray EXCEPT ![t] = GoneTray]
       ELSE tray' = [tray EXCEPT ![t].pc = "taskbar"] /\ UNCHANGED mutex
    /\ UNCHANGED <<server, caller, signalled, binary, clicks>>

(* waitForTaskbar, then systray.Run.                                       *)
TaskbarReady(t) ==
    /\ tray[t].pc = "taskbar"
    /\ tray' = [tray EXCEPT ![t].pc = "loop"]
    /\ UNCHANGED <<server, caller, mutex, signalled, binary, clicks>>

(* shutdown: only the first call quits the loop, and that call is lost     *)
(* when it comes before the loop runs (the library posts a message to a    *)
(* window that is not there yet; both outcomes are allowed).               *)
Shutdown(t, g) ==
    \E heard \in IF tray[t].pc = "taskbar" THEN BOOLEAN ELSE {TRUE} :
       tray' = [tray EXCEPT ![t].at[g] = "done", ![t].stopping = TRUE,
                            ![t].quit = @ \/ (heard /\ ~tray[t].stopping)]

LoopEnds(t) ==
    /\ tray[t].pc = "loop" /\ tray[t].quit
    /\ tray' = [tray EXCEPT ![t].pc = "tail"]
    /\ UNCHANGED <<server, caller, mutex, signalled, binary, clicks>>

(* The end of Run: the service dies before the mutex is released, unless   *)
(* an uninstaller was started.                                             *)
Tail(t) ==
    /\ tray[t].pc = "tail"
    /\ IF tray[t].uninstalling
       THEN /\ tray' = [tray EXCEPT ![t].pc = "release"]
            /\ UNCHANGED <<server, caller, mutex, signalled, binary, clicks>>
       ELSE \E spared \in SUBSET {s \in Server : Running(s)} :
               StopService(t, spared, [tray[t] EXCEPT !.pc = "release"])

ReleaseInstance(t) ==
    /\ tray[t].pc = "release"
    /\ tray' = [tray EXCEPT ![t].pc = "exit"]
    /\ mutex' = Nobody
    /\ UNCHANGED <<server, caller, signalled, binary, clicks>>

EndOfTray(t) ==
    /\ tray' = [tray EXCEPT ![t] = GoneTray]
    /\ RestWithout({t})
    /\ UNCHANGED <<caller, binary, clicks>>

Exit(t) == tray[t].pc = "exit" /\ EndOfTray(t)

Main(t) ==
    \/ Acquire(t) \/ CreateControlEvents(t) \/ TaskbarReady(t) \/ LoopEnds(t)
    \/ Tail(t) \/ ReleaseInstance(t) \/ Exit(t)

-----------------------------------------------------------------------------
Click == clicks < MaxClicks /\ clicks' = clicks + 1

(* ensureService, from Run and from the menu: the first caller spawns.     *)
Ensured(t, g) ==
    IF Healthy \/ tray[t].spawned THEN To(t, g, "idle")
    ELSE tray' = [tray EXCEPT ![t].at[g] = "spawn", ![t].spawned = TRUE]

EnsureService(t) ==
    /\ At(t, "boot", "check") /\ Ensured(t, "boot")
    /\ UNCHANGED <<server, caller, mutex, signalled, binary, clicks>>

(* toggle stops a healthy service, else it goes on as ensureService (the   *)
(* second probe there is not another step).                                *)
Toggle(t) ==
    /\ tray[t].pc = "loop" /\ At(t, "toggle", "idle") /\ Click
    /\ IF Healthy THEN To(t, "toggle", "sweep") ELSE Ensured(t, "toggle")
    /\ UNCHANGED <<server, caller, mutex, signalled, binary>>

ToggleSweep(t) ==
    /\ At(t, "toggle", "sweep")
    /\ \E spared \in SUBSET {s \in Server : Running(s)} :
          StopService(t, spared, [tray[t] EXCEPT !.at["toggle"] = "idle",
                                                 !.spawned = @ /\ spared # {}])

(* spawnService.  An early failure leaves spawned set.                     *)
SpawnService(t, g) ==
    /\ At(t, g, "spawn")
    /\ \/ /\ tray' = [tray EXCEPT ![t].at[g] = "idle", ![t].excused = TRUE]
          /\ UNCHANGED server
       \/ \E s \in Fresh(server) :
             /\ binary
             /\ server' = [server EXCEPT ![s] = [pc |-> "starting", by |-> t]]
             /\ tray' = [tray EXCEPT ![t].at[g] = "idle", ![t].watch = @ \cup {s}]
    /\ UNCHANGED <<caller, mutex, signalled, binary, clicks>>

(* Mutant: a service that came up and died later is not forgotten.         *)
WatchServiceOnce(t, s) ==
    /\ Live(t) /\ s \in tray[t].watch /\ ~Running(s)
    /\ tray' = [tray EXCEPT ![t].watch = @ \ {s}]
    /\ UNCHANGED <<server, caller, mutex, signalled, binary, clicks>>

(* The watcher of a spawned service, once it is gone.  When something else *)
(* answers by then, spawned stays set.                                     *)
WatchService(t, s) ==
    /\ Live(t) /\ s \in tray[t].watch /\ ~Running(s)
    /\ tray' = [tray EXCEPT ![t].watch = @ \ {s},
                            ![t].spawned = @ /\ (tray[t].stopping \/ Healthy),
                            ![t].excused = @ \/ (Healthy /\ ~tray[t].stopping)]
    /\ UNCHANGED <<server, caller, mutex, signalled, binary, clicks>>

(* Mutant: a sweep that was not clean ends watchExit early.                *)
WatchExitGivesUp(t) ==
    \/ /\ At(t, "exit", "wait") /\ signalled
       /\ To(t, "exit", "sweep") /\ signalled' = FALSE
       /\ UNCHANGED <<server, caller, mutex, binary, clicks>>
    \/ /\ At(t, "exit", "sweep")
       /\ \/ SweepThen(t, "exit", "shutdown")
          \/ /\ To(t, "exit", "done")
             /\ UNCHANGED <<server, caller, mutex, signalled, binary, clicks>>
    \/ /\ At(t, "exit", "shutdown") /\ Shutdown(t, "exit")
       /\ UNCHANGED <<server, caller, mutex, signalled, binary, clicks>>

(* watchExit, which serves one signal.                                     *)
WatchExit(t) ==
    \/ /\ At(t, "exit", "wait") /\ signalled
       /\ To(t, "exit", "sweep") /\ signalled' = FALSE
       /\ UNCHANGED <<server, caller, mutex, binary, clicks>>
    \/ At(t, "exit", "sweep") /\ SweepThen(t, "exit", "shutdown")
    \/ /\ At(t, "exit", "shutdown") /\ Shutdown(t, "exit")
       /\ UNCHANGED <<server, caller, mutex, signalled, binary, clicks>>

Quit(t) ==
    /\ tray[t].pc = "loop" /\ ~tray[t].stopping /\ Click
    /\ tray' = [tray EXCEPT ![t].stopping = TRUE, ![t].quit = TRUE]
    /\ UNCHANGED <<server, caller, mutex, signalled, binary>>

-----------------------------------------------------------------------------
(* A caller asks the tray to leave: no event object, no tray (ErrNoTray).  *)
(* then[r] is the caller's state after RequestExit returned r.             *)
RequestExit(c, then) ==
    /\ caller[c].pc = "signal"
    /\ \/ /\ \E t \in Tray : Live(t)
          /\ \/ signalled' = TRUE /\ caller' = [caller EXCEPT ![c] = then.signalled]
             \/ UNCHANGED signalled /\ caller' = [caller EXCEPT ![c] = then.error]
       \/ /\ ~\E t \in Tray : Live(t)
          /\ UNCHANGED signalled /\ caller' = [caller EXCEPT ![c] = then.noTray]
    /\ UNCHANGED <<tray, server, mutex, binary, clicks>>

(* WaitExited: the mutex was free at some moment, or was not within the    *)
(* time given to it.                                                       *)
WaitExited(c, then) ==
    /\ caller[c].pc = "ack"
    /\ \/ mutex = Nobody /\ caller' = [caller EXCEPT ![c] = then.gone]
       \/ /\ mutex # Nobody \/ \E d \in Caller \ {c} : caller[d].pc = "ack"
          /\ caller' = [caller EXCEPT ![c] = then.there]
    /\ UNCHANGED <<tray, server, mutex, signalled, binary, clicks>>

GoOn(c, pc) == [caller[c] EXCEPT !.pc = pc]

(* `tray --exit` (requestExit of cli/tray).                                *)
ExitCommand(c) ==
    /\ caller[c].cmd = "exit"
    /\ \/ RequestExit(c, [signalled |-> GoOn(c, "ack"), error |-> Ended("refused"),
                          noTray |-> Ended("refused")])
       \/ WaitExited(c, [gone |-> Ended("done"), there |-> Ended("refused")])

-----------------------------------------------------------------------------
(* A `start` comes up, unless the port is taken; one the user started then *)
(* brings up a tray of its own (SpawnFromServer).                          *)
UserStarts(s) ==
    /\ binary /\ s \in Fresh(server)
    /\ server' = [server EXCEPT ![s] = [pc |-> "starting", by |-> Nobody]]
    /\ UNCHANGED <<tray, caller, mutex, signalled, binary, clicks>>

Serve(s) ==
    /\ server[s].pc = "starting"
    /\ IF Healthy THEN server' = [server EXCEPT ![s] = Off("gone")] /\ UNCHANGED tray
       ELSE /\ server' = [server EXCEPT ![s].pc = "up"]
            /\ \/ UNCHANGED tray
               \/ \E t \in Fresh(tray) : /\ binary /\ server[s].by = Nobody
                                       /\ tray' = [tray EXCEPT ![t] = NewTray]
    /\ UNCHANGED <<caller, mutex, signalled, binary, clicks>>

ServerEnds(s) ==
    /\ Running(s)
    /\ server' = [server EXCEPT ![s] = Off("gone")]
    /\ UNCHANGED <<tray, caller, mutex, signalled, binary, clicks>>

(* The logon task, the Start menu.                                         *)
TrayStarts(t) ==
    /\ binary /\ t \in Fresh(tray)
    /\ tray' = [tray EXCEPT ![t] = NewTray]
    /\ UNCHANGED <<server, caller, mutex, signalled, binary, clicks>>

TrayCrashes(t) == t \in Alive /\ EndOfTray(t)
=============================================================================
