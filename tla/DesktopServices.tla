-------------------------- MODULE DesktopServices --------------------------
(***************************************************************************)
(* apps/desktop: how the desktop app starts, watches and stops what the    *)
(* dashboard needs (src-tauri/src/services.rs, lib.rs, menu.rs and the     *)
(* splash screen frontend/main.js).                                        *)
(*                                                                         *)
(* start_all runs on a thread of its own; the menu, the window and the     *)
(* signal handler call stop_all from other threads.  The two share only    *)
(* Services.children, a Mutex each of them holds for one call.  A step of  *)
(* the start thread lies between two such calls, two probes of a port or   *)
(* two waits.  The configured folder is a valid one; PostgreSQL and the    *)
(* test applications run in Docker and are never stopped by the app, but   *)
(* the `docker compose` commands that start them are processes of the app. *)
(***************************************************************************)
EXTENDS Naturals, Sequences, FiniteSets, SequencesExt

CONSTANTS
    MaxProcesses,   \* bound of the model: processes that ever run
    MaxCrashes      \* bound of the model: processes that fail on their own

ASSUME DesktopAssumption == MaxProcesses \in Nat /\ MaxCrashes \in Nat

VARIABLES
    app,        \* the desktop app: "running", "exiting" (stop_all is done), "gone"
    page,       \* what the window shows
    database,   \* PostgreSQL answers on its port
    built,      \* .next/BUILD_ID exists
    processes,  \* every process that was started, indexed by its pid
    children,   \* Services.children
    starting,   \* AppState.starting
    thread,     \* the thread begin_start spawned
    outcome,    \* history: how the last start ended, and the child it judged
    crashes,    \* history: processes that failed on their own
    quietQuit   \* history: no start was in progress when the app quit

processVars == <<processes, crashes>>
appVars == <<app, quietQuit>>
vars == <<app, page, database, built, processes, children, starting, thread, outcome,
          crashes, quietQuit>>

Services == {"api", "dashboard"}
Steps == {"database"} \union Services
Pids == 1..MaxProcesses

Process(name, owner, state) == [name |-> name, owner |-> owner, state |-> state]
Commands == {"postgres", "testapps", "build"}   \* the two docker compose up -d, pnpm build
Processes == [name : Services \union Commands, owner : {"app", "user"},
              state : {"starting", "listening", "exited", "stopped"}]

Idle == [pc |-> "idle", step |-> "database", pid |-> 0, up |-> FALSE]

DesktopTypeOK ==
    /\ app \in {"running", "exiting", "gone"}
    /\ page \in {"splash", "dashboard"}
    /\ database \in BOOLEAN
    /\ built \in BOOLEAN
    /\ processes \in Seq(Processes)
    /\ children \in Seq(Pids)
    /\ starting \in BOOLEAN
    /\ thread \in [pc : {"idle", "probe", "compose", "testapps", "build", "track", "wait",
                         "check", "open"},
                   step : Steps, pid : 0..MaxProcesses, up : BOOLEAN]
    /\ outcome \in [result : {"none", "opened", "failed", "died", "timeout"}, pid : 0..MaxProcesses]
    /\ crashes \in 0..MaxCrashes
    /\ quietQuit \in BOOLEAN

(* Services the user started by hand may already run. *)
Init ==
    /\ app = "running"
    /\ page = "splash"
    /\ database \in BOOLEAN
    /\ built \in BOOLEAN
    /\ \E running \in SUBSET Services :
          processes = [i \in 1..Cardinality(running) |->
                         Process(SetToSeq(running)[i], "user", "listening")]
    /\ children = <<>>
    /\ starting = FALSE
    /\ thread = Idle
    /\ outcome = [result |-> "none", pid |-> 0]
    /\ crashes = 0
    /\ quietQuit = FALSE
----------------------------------------------------------------------------
(* Processes and ports. *)

Live(pid) == processes[pid].state \in {"starting", "listening"}
Own(pid) == processes[pid].owner = "app"

(* http_status: some process listens on the configured port and answers. *)
Answers(name) ==
    \E pid \in DOMAIN processes : processes[pid].name = name /\ processes[pid].state = "listening"

Become(pid, state) == processes' = [processes EXCEPT ![pid].state = state]

(* A service comes up, or finds its port taken and exits. *)
Boot(pid) ==
    /\ processes[pid].state = "starting"
    /\ processes[pid].name \in Services
    /\ Become(pid, IF Answers(processes[pid].name) THEN "exited" ELSE "listening")
    /\ UNCHANGED <<page, database, built, children, starting, thread, outcome, crashes, appVars>>

Crash(pid) ==
    /\ Live(pid)
    /\ processes[pid].name \in Services
    /\ crashes < MaxCrashes
    /\ crashes' = crashes + 1
    /\ Become(pid, "exited")
    /\ UNCHANGED <<page, database, built, children, starting, thread, outcome, appVars>>

(* The background docker compose has brought its containers up, or failed. *)
TestAppsDone(pid) ==
    /\ Live(pid)
    /\ processes[pid].name = "testapps"
    /\ Become(pid, "exited")
    /\ UNCHANGED <<page, database, built, children, starting, thread, outcome, crashes, appVars>>

DatabaseUp ==
    /\ ~database
    /\ database' = TRUE
    /\ UNCHANGED <<page, built, processVars, children, starting, thread, outcome, appVars>>
----------------------------------------------------------------------------
(* Services.children *)

(* The first child of that name has exited; no child has not. *)
Died(name) ==
    LET first == SelectInSeq(children, LAMBDA pid : processes[pid].name = name)
    IN  first # 0 /\ processes[children[first]].state = "exited"

StopAll_ByPort ==
    /\ processes' = [pid \in DOMAIN processes |->
                       IF Live(pid) /\ processes[pid].name \in Services
                       THEN [processes[pid] EXCEPT !.state = "stopped"] ELSE processes[pid]]
    /\ children' = <<>>

StopAll_LastOnly ==
    /\ processes' = [pid \in DOMAIN processes |->
                       IF Live(pid) /\ children # <<>> /\ pid = Last(children)
                       THEN [processes[pid] EXCEPT !.state = "stopped"] ELSE processes[pid]]
    /\ children' = <<>>

(* stop_all: TERM to every tracked process group, KILL after four seconds, *)
(* and the list is emptied, all under the lock.                            *)
StopAll ==
    /\ processes' = [pid \in DOMAIN processes |->
                       IF Live(pid) /\ pid \in Range(children)
                       THEN [processes[pid] EXCEPT !.state = "stopped"] ELSE processes[pid]]
    /\ children' = <<>>
----------------------------------------------------------------------------
(* start_all, one action per step of its thread. *)

At(pc, step) == app # "gone" /\ thread.pc = pc /\ thread.step = step

GoTo(pc, step) == thread' = [thread EXCEPT !.pc = pc, !.step = step]

(* start_all returns and the thread clears `starting`. *)
Finish(result) ==
    /\ thread' = Idle
    /\ starting' = FALSE
    /\ outcome' = [result |-> result, pid |-> thread.pid]

Fail(result) == Finish(result) /\ UNCHANGED <<page, built, processes, children>>

(* A new process in a process group of its own, with the next pid. *)
Spawn(name, pc) ==
    /\ Len(processes) < MaxProcesses
    /\ processes' = Append(processes, Process(name, "app", "starting"))
    /\ thread' = [thread EXCEPT !.pc = pc, !.pid = Len(processes')]
    /\ UNCHANGED <<page, built, children, starting, outcome>>

ProbeDatabase ==
    /\ At("probe", "database")
    /\ IF database
       THEN /\ GoTo("testapps", "database")
            /\ UNCHANGED <<page, built, processes, children, starting, outcome>>
       ELSE Fail("failed") \/ Spawn("postgres", "compose")

(* run_blocking waits for the process, which is not in `children`. *)
Awaited(pc, step) ==
    /\ At(pc, step)
    /\ Become(thread.pid, "exited")
    /\ UNCHANGED <<page, children>>

(* docker compose up -d postgres mailpit *)
Compose ==
    /\ Awaited("compose", "database")
    /\ \/ Finish("failed")
       \/ GoTo("wait", "database") /\ UNCHANGED <<starting, outcome>>
    /\ UNCHANGED built

WaitDatabase ==
    /\ At("wait", "database")
    /\ IF database
       THEN /\ GoTo("testapps", "database")
            /\ UNCHANGED <<page, built, processes, children, starting, outcome>>
       ELSE Fail("timeout")

(* docker compose up -d, "best effort and not waited for": the handle of   *)
(* the process goes to a thread that only waits for it, never to           *)
(* `children`, and a start goes on when it cannot be spawned.              *)
TestApps ==
    /\ At("testapps", "database")
    /\ thread' = [Idle EXCEPT !.pc = "probe", !.step = "api"]
    /\ \/ UNCHANGED processes
       \/ /\ Len(processes) < MaxProcesses
          /\ processes' = Append(processes, Process("testapps", "app", "starting"))
    /\ UNCHANGED <<page, built, children, starting, outcome>>

(* emit(name, "ready"), and on to the next service. *)
Ready(name) ==
    /\ thread' = [Idle EXCEPT !.pc = IF name = "api" THEN "probe" ELSE "open",
                              !.step = "dashboard"]
    /\ UNCHANGED <<page, built, processes, children, starting, outcome>>

ProbeService_AlwaysSpawn(name) ==
    /\ At("probe", name)
    /\ Fail("failed") \/ (IF name = "api" \/ built THEN Spawn(name, "track") ELSE Spawn("build", "build"))

(* A service that already answers is used as it is; otherwise it is        *)
(* spawned, the dashboard after the build its first start needs.           *)
ProbeService(name) ==
    /\ At("probe", name)
    /\ IF Answers(name)
       THEN Ready(name)
       ELSE \/ Fail("failed")
            \/ IF name = "api" \/ built THEN Spawn(name, "track") ELSE Spawn("build", "build")

(* pnpm --filter dashboard build *)
Build ==
    /\ Awaited("build", "dashboard")
    /\ \/ Finish("failed") /\ UNCHANGED built
       \/ GoTo("probe", "dashboard") /\ built' = TRUE /\ UNCHANGED <<starting, outcome>>

Track_OffByOne(name) ==
    /\ At("track", name)
    /\ children' = Append(children, thread.pid - 1)
    /\ GoTo("wait", name)
    /\ UNCHANGED <<page, built, processes, starting, outcome>>

Track(name) ==
    /\ At("track", name)
    /\ children' = Append(children, thread.pid)
    /\ GoTo("wait", name)
    /\ UNCHANGED <<page, built, processes, starting, outcome>>

(* wait_until returns what its last call of ready() returned: that the     *)
(* child died or the port answers, or neither at the deadline.             *)
WaitService(name) ==
    /\ At("wait", name)
    /\ thread' = [thread EXCEPT !.pc = "check", !.up = Died(name) \/ Answers(name)]
    /\ UNCHANGED <<page, built, processes, children, starting, outcome>>

CheckService(name) ==
    /\ At("check", name)
    /\ CASE Died(name)                -> Fail("died")
         [] ~Died(name) /\ ~thread.up -> Fail("timeout")
         [] OTHER                     -> Ready(name)

(* Half a second after services-ready the window goes to the dashboard. *)
Open ==
    /\ At("open", "dashboard")
    /\ page' = "dashboard"
    /\ Finish("opened")
    /\ UNCHANGED <<built, processes, children>>

StartThread ==
    /\ \/ ProbeDatabase \/ Compose \/ WaitDatabase \/ TestApps
       \/ \E name \in Services :
             ProbeService(name) \/ Track(name) \/ WaitService(name) \/ CheckService(name)
       \/ Build \/ Open
    /\ UNCHANGED <<database, crashes, appVars>>
----------------------------------------------------------------------------
(* The window, the menu and the end of the app. *)

BeginStart_Unguarded ==
    /\ app = "running"
    /\ page = "splash"
    /\ starting' = TRUE
    /\ thread' = [Idle EXCEPT !.pc = "probe"]
    /\ outcome' = [result |-> "none", pid |-> 0]
    /\ UNCHANGED <<page, database, built, processVars, children, appVars>>

(* start() of the splash screen, on every load of the page and on "Try     *)
(* again"; begin_start returns when a start is already in progress.        *)
BeginStart ==
    /\ app = "running"
    /\ page = "splash"
    /\ ~starting
    /\ starting' = TRUE
    /\ thread' = [Idle EXCEPT !.pc = "probe"]
    /\ outcome' = [result |-> "none", pid |-> 0]
    /\ UNCHANGED <<page, database, built, processVars, children, appVars>>

(* Restart Services and Change DBInsight Folder. *)
Restart ==
    /\ app = "running"
    /\ StopAll
    /\ page' = "splash"
    /\ UNCHANGED <<database, built, starting, thread, outcome, crashes, appVars>>

(* The command stop_services, which only the splash screen may call. *)
StopServices ==
    /\ app = "running"
    /\ page = "splash"
    /\ StopAll
    /\ UNCHANGED <<page, database, built, starting, thread, outcome, crashes, appVars>>

(* RunEvent::Exit and the signal handler call stop_all and then end the    *)
(* process; until it has ended its threads run on.                         *)
Quit ==
    /\ app = "running"
    /\ app' = "exiting"
    /\ quietQuit' = ~starting
    /\ StopAll
    /\ UNCHANGED <<page, database, built, starting, thread, outcome, crashes>>

Gone ==
    /\ app = "exiting"
    /\ app' = "gone"
    /\ UNCHANGED <<page, database, built, processVars, children, starting, thread, outcome, quietQuit>>

Next ==
    \/ \E pid \in DOMAIN processes : Boot(pid) \/ Crash(pid) \/ TestAppsDone(pid)
    \/ DatabaseUp
    \/ StartThread
    \/ BeginStart \/ Restart \/ StopServices \/ Quit \/ Gone

Spec == Init /\ [][Next]_vars

(* The start thread runs, and somebody who looks at the splash screen      *)
(* presses "Try again".                                                    *)
FairSpec == Spec /\ WF_vars(StartThread) /\ WF_vars(BeginStart)
----------------------------------------------------------------------------
(***************************************************************************)
(* Every live process the app started can be stopped by it or is awaited:  *)
(* it is in `children`, or the start thread still holds it.  No order of   *)
(* retries, restarts and failed starts loses one.  The exception is the    *)
(* background `docker compose up -d` of each start, which services.rs      *)
(* gives away on purpose: nothing but its own end ends it.                 *)
(***************************************************************************)
OwnProcessesHeld ==
    \A pid \in DOMAIN processes : Own(pid) /\ Live(pid) =>
        \/ processes[pid].name = "testapps"
        \/ pid \in Range(children)
        \/ thread.pc \in {"compose", "track", "build"} /\ pid = thread.pid

(***************************************************************************)
(* When the app quits and no start is in progress, every service and every *)
(* awaited command it started has ended, the services left by earlier      *)
(* failed starts included.  At most background `docker compose up -d`      *)
(* commands outlive it: stop_all does not know them.                       *)
(***************************************************************************)
QuietQuitStopsOwn ==
    app = "gone" /\ quietQuit =>
        \A pid \in DOMAIN processes : Own(pid) /\ Live(pid) => processes[pid].name = "testapps"

(***************************************************************************)
(* Only what the app started is stopped: a service the user started is     *)
(* left alone by every restart and by quitting.                            *)
(***************************************************************************)
OnlyOwnStopped ==
    \A pid \in DOMAIN processes : processes[pid].state = "stopped" => Own(pid)

(***************************************************************************)
(* Once PostgreSQL, the API and the dashboard answer, whoever started them *)
(* (an earlier start that gave up included), trying again opens the        *)
(* dashboard.                                                              *)
(***************************************************************************)
AllAnswer == database /\ \A name \in Services : Answers(name)
RetryUsesWhatRuns ==
    AllAnswer /\ ~starting ~> page = "dashboard" \/ ~AllAnswer \/ app # "running"
----------------------------------------------------------------------------
(***************************************************************************)
(* "Read the message below, fix it, and try again" (frontend/main.js:21):  *)
(* a start reports that a service did not start because it exited only     *)
(* when the process that this start spawned has exited.                    *)
(***************************************************************************)
RetryJudgesItsOwnChild == outcome.result = "died" => ~Live(outcome.pid)

(***************************************************************************)
(* "It stops what it started when it quits" (lib.rs:4-5): no service and   *)
(* no build of the app outlives it.  The docker compose commands are left  *)
(* out of the question: they end by themselves once the containers are up, *)
(* and the containers are not the app's to stop.                           *)
(***************************************************************************)
QuitStopsEverythingStarted ==
    app = "gone" => \A pid \in DOMAIN processes :
        Own(pid) /\ processes[pid].name \in Services \union {"build"} => ~Live(pid)
============================================================================
