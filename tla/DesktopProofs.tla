--------------------------- MODULE DesktopProofs ---------------------------
(***************************************************************************)
(* Theorems about module DesktopServices, for any number of processes and  *)
(* of crashes.                                                             *)
(***************************************************************************)
EXTENDS DesktopServices, SequenceTheorems, FiniteSetTheorems, TLAPS

(* What the app keeps a handle of, it started itself. *)
ChildrenAreOwn ==
    \A pid \in Range(children) : pid \in DOMAIN processes /\ Own(pid)

(* The process the start thread has in its hands is one of the app's. *)
ThreadHoldsOwn ==
    thread.pc \in {"compose", "track", "build"} =>
        thread.pid \in DOMAIN processes /\ Own(thread.pid)

(* `starting` is set exactly while the start thread runs: this is what     *)
(* keeps a second thread from taking the place of the first.               *)
StartingIsThread == starting <=> thread.pc # "idle"

(* After a quiet quit no process of the app lives but a background docker  *)
(* compose, and no thread is left that could start one.                    *)
QuietlyGone ==
    app # "running" /\ quietQuit =>
        /\ ~starting
        /\ \A pid \in DOMAIN processes :
              Own(pid) /\ Live(pid) => processes[pid].name = "testapps"

DesktopInv ==
    /\ DesktopTypeOK
    /\ ChildrenAreOwn
    /\ ThreadHoldsOwn
    /\ StartingIsThread
    /\ OwnProcessesHeld
    /\ OnlyOwnStopped
    /\ QuietlyGone
----------------------------------------------------------------------------
(* The services the user runs, in any order, are a sequence of services. *)
LEMMA RunningServices ==
    ASSUME NEW running \in SUBSET Services
    PROVE  /\ Cardinality(running) \in Nat
           /\ \A i \in 1..Cardinality(running) : SetToSeq(running)[i] \in Services
<1>1. IsFiniteSet({"api", "dashboard"})
  <2>1. IsFiniteSet({} \union {"api"})
    BY FS_EmptySet, FS_AddElement
  <2>2. IsFiniteSet(({} \union {"api"}) \union {"dashboard"})
    BY <2>1, FS_AddElement
  <2>3. ({} \union {"api"}) \union {"dashboard"} = {"api", "dashboard"}
    OBVIOUS
  <2>. QED
    BY <2>2, <2>3
<1>2. IsFiniteSet(running)
  BY <1>1, FS_Subset DEF Services
<1>3. Cardinality(running) \in Nat /\ ExistsBijection(1..Cardinality(running), running)
  BY <1>2, FS_CardinalityType
<1>4. \E f \in [1..Cardinality(running) -> running] : IsInjective(f)
  BY <1>3 DEF ExistsBijection, Bijection, Injection, IsInjective
<1>5. SetToSeq(running) \in [1..Cardinality(running) -> running]
  BY <1>4 DEF SetToSeq
<1>. QED
  BY <1>3, <1>5

(* Initially every process is the user's, and the app holds none. *)
LEMMA DesktopInvInit == Init => DesktopInv
<1>. SUFFICES ASSUME Init PROVE DesktopInv
  OBVIOUS
<1>1. PICK running \in SUBSET Services :
        processes = [i \in 1..Cardinality(running) |->
                       Process(SetToSeq(running)[i], "user", "listening")]
  BY DEF Init
<1>2. /\ Cardinality(running) \in Nat
      /\ \A i \in 1..Cardinality(running) : SetToSeq(running)[i] \in Services
  BY RunningServices
<1>3. DOMAIN processes = 1..Cardinality(running)
  BY <1>1
<1>4. \A i \in DOMAIN processes :
        /\ processes[i] \in Processes
        /\ processes[i].owner = "user"
        /\ processes[i].state = "listening"
  BY <1>1, <1>2, <1>3 DEF Process, Processes
<1>5. processes \in Seq(Processes)
  <2>1. processes \in [1..Cardinality(running) -> Processes]
    BY <1>1, <1>3, <1>4
  <2>. QED
    BY <2>1, <1>2, SeqDef
<1>6. DesktopTypeOK
  <2>1. children \in Seq(Pids) /\ thread \in [pc : {"idle", "probe", "compose", "testapps", "build", "track", "wait",
                  "check", "open"},
                   step : Steps, pid : 0..MaxProcesses, up : BOOLEAN]
    BY DesktopAssumption DEF Init, Idle, Steps
  <2>2. outcome \in [result : {"none", "opened", "failed", "died", "timeout"}, pid : 0..MaxProcesses]
    BY DesktopAssumption DEF Init
  <2>3. crashes \in 0..MaxCrashes
    BY DesktopAssumption DEF Init
  <2>. QED
    BY <2>1, <2>2, <2>3, <1>5 DEF Init, DesktopTypeOK
<1>7. Range(children) = {}
  BY DEF Init, Range
<1>8. StartingIsThread /\ ThreadHoldsOwn /\ QuietlyGone
  BY DEF Init, StartingIsThread, ThreadHoldsOwn, QuietlyGone, Idle
<1>. QED
  BY <1>4, <1>6, <1>7, <1>8 DEF DesktopInv, ChildrenAreOwn, OwnProcessesHeld, OnlyOwnStopped, Own
----------------------------------------------------------------------------
(* Where the start thread has a process in its hands. *)
Holding == {"compose", "track", "build"}

(* Steps that leave the processes and the child list alone, and with them  *)
(* any process the thread has in its hands.                                *)
LEMMA SameProcesses ==
    ASSUME DesktopInv, DesktopTypeOK',
           UNCHANGED <<processes, children, app, quietQuit>>,
           thread.pc \in Holding \/ thread'.pc \in Holding => thread' = thread,
           starting' <=> thread'.pc # "idle",
           starting' => starting \/ app = "running"
    PROVE  DesktopInv'
<1>1. ChildrenAreOwn'
  BY DEF DesktopInv, ChildrenAreOwn, Own
<1>2. ThreadHoldsOwn'
  BY DEF DesktopInv, ThreadHoldsOwn, Own, Holding
<1>3. OwnProcessesHeld'
  BY DEF DesktopInv, OwnProcessesHeld, Own, Live, Holding
<1>4. OnlyOwnStopped'
  BY DEF DesktopInv, OnlyOwnStopped, Own
<1>5. QuietlyGone'
  BY Zenon DEF DesktopInv, QuietlyGone, Own, Live
<1>. QED
  BY <1>1, <1>2, <1>3, <1>4, <1>5 DEF DesktopInv, StartingIsThread

(* Steps of a process that wakes none that had ended and stops none. *)
LEMMA NoNewLife ==
    ASSUME DesktopInv, DesktopTypeOK',
           UNCHANGED <<children, app, quietQuit, starting, thread>>,
           DOMAIN processes' = DOMAIN processes,
           \A q \in DOMAIN processes :
              /\ processes'[q].name = processes[q].name
              /\ processes'[q].owner = processes[q].owner
              /\ Live(q)' => Live(q)
              /\ processes'[q].state = "stopped" => processes[q].state = "stopped"
    PROVE  DesktopInv'
<1>1. \A q \in DOMAIN processes : Own(q)' <=> Own(q)
  BY DEF Own
<1>2. ChildrenAreOwn'
  BY <1>1 DEF DesktopInv, ChildrenAreOwn
<1>3. ThreadHoldsOwn' /\ StartingIsThread'
  BY <1>1 DEF DesktopInv, ThreadHoldsOwn, StartingIsThread
<1>4. OwnProcessesHeld'
  BY <1>1 DEF DesktopInv, OwnProcessesHeld
<1>5. OnlyOwnStopped'
  BY <1>1 DEF DesktopInv, OnlyOwnStopped
<1>6. QuietlyGone'
  BY <1>1 DEF DesktopInv, QuietlyGone
<1>. QED
  BY <1>2, <1>3, <1>4, <1>5, <1>6 DEF DesktopInv

(* One process changes its state. *)
LEMMA BecomeChanges ==
    ASSUME processes \in Seq(Processes), NEW pid \in DOMAIN processes,
           NEW state \in {"starting", "listening", "exited", "stopped"},
           Become(pid, state)
    PROVE  /\ processes' \in Seq(Processes)
           /\ DOMAIN processes' = DOMAIN processes
           /\ processes'[pid].state = state
           /\ \A q \in DOMAIN processes :
                 /\ processes'[q].name = processes[q].name
                 /\ processes'[q].owner = processes[q].owner
                 /\ q # pid => processes'[q].state = processes[q].state
<1> DEFINE new == [processes[pid] EXCEPT !.state = state]
<1>1. DOMAIN processes = 1..Len(processes) /\ processes[pid] \in Processes
  BY LenProperties, ElementOfSeq
<1>2. new \in Processes /\ new.name = processes[pid].name /\ new.owner = processes[pid].owner
      /\ new.state = state
  BY <1>1 DEF Processes
<1>3. processes' = [processes EXCEPT ![pid] = new]
  BY DEF Become
<1>4. processes' \in Seq(Processes)
  BY <1>1, <1>2, <1>3, ExceptSeq
<1>. QED
  BY <1>2, <1>3, <1>4

(* A service comes up or fails, or a background docker compose ends. *)
LEMMA ProcessStep ==
    ASSUME DesktopInv, NEW pid \in DOMAIN processes,
           Boot(pid) \/ Crash(pid) \/ TestAppsDone(pid)
    PROVE  DesktopInv'
<1>1. Live(pid)
  BY DEF Boot, Crash, TestAppsDone, Live
<1>2. PICK state \in {"listening", "exited"} : Become(pid, state)
  BY Zenon DEF Boot, Crash, TestAppsDone
<1>3. UNCHANGED <<page, database, built, children, starting, thread, outcome, app, quietQuit>>
  BY DEF Boot, Crash, TestAppsDone, appVars
<1>4. crashes' \in 0..MaxCrashes
  BY DesktopAssumption DEF Boot, Crash, TestAppsDone, DesktopInv, DesktopTypeOK
<1>5. processes \in Seq(Processes)
  BY DEF DesktopInv, DesktopTypeOK
<1>6. /\ processes' \in Seq(Processes)
      /\ DOMAIN processes' = DOMAIN processes
      /\ processes'[pid].state = state
      /\ \A q \in DOMAIN processes :
            /\ processes'[q].name = processes[q].name
            /\ processes'[q].owner = processes[q].owner
            /\ q # pid => processes'[q].state = processes[q].state
  BY <1>2, <1>5, BecomeChanges
<1>7. DesktopTypeOK'
  BY <1>3, <1>4, <1>6 DEF DesktopInv, DesktopTypeOK
<1>8. \A q \in DOMAIN processes :
        /\ Live(q)' => Live(q)
        /\ processes'[q].state = "stopped" => processes[q].state = "stopped"
  BY <1>1, <1>6 DEF Live
<1>. QED
  BY <1>3, <1>6, <1>7, <1>8, NoNewLife
----------------------------------------------------------------------------
(* stop_all empties the list and stops, of what lives, exactly what is in  *)
(* it.                                                                     *)
LEMMA StopAllStops ==
    ASSUME processes \in Seq(Processes), StopAll
    PROVE  /\ processes' \in Seq(Processes)
           /\ children' = <<>>
           /\ DOMAIN processes' = DOMAIN processes
           /\ \A q \in DOMAIN processes :
                 /\ processes'[q].name = processes[q].name
                 /\ processes'[q].owner = processes[q].owner
                 /\ Live(q)' => Live(q) /\ q \notin Range(children)
                 /\ processes'[q].state = "stopped" =>
                       processes[q].state = "stopped" \/ q \in Range(children)
<1> DEFINE after(q) == IF Live(q) /\ q \in Range(children)
                       THEN [processes[q] EXCEPT !.state = "stopped"] ELSE processes[q]
<1>1. processes' = [q \in DOMAIN processes |-> after(q)] /\ children' = <<>>
  BY DEF StopAll
<1>2. Len(processes) \in Nat /\ DOMAIN processes = 1..Len(processes)
  BY LenProperties
<1>3. \A q \in DOMAIN processes : processes[q] \in Processes
  BY <1>2, ElementOfSeq
<1>4. \A q \in DOMAIN processes :
        /\ after(q) \in Processes
        /\ after(q).name = processes[q].name
        /\ after(q).owner = processes[q].owner
        /\ after(q).state = IF Live(q) /\ q \in Range(children) THEN "stopped"
                                                                ELSE processes[q].state
  BY <1>3 DEF Processes
<1>5. processes' \in [1..Len(processes) -> Processes]
  BY <1>1, <1>2, <1>4
<1>6. processes' \in Seq(Processes)
  BY <1>2, <1>5, SeqDef
<1>7. \A q \in DOMAIN processes : Live(q)' <=> processes'[q].state \in {"starting", "listening"}
  BY DEF Live
<1>. HIDE DEF after
<1>8. \A q \in DOMAIN processes : processes'[q] = after(q)
  BY <1>1
<1>9. \A q \in DOMAIN processes : Live(q) <=> processes[q].state \in {"starting", "listening"}
  BY DEF Live
<1>. QED
  BY <1>1, <1>4, <1>6, <1>7, <1>8, <1>9

(* Restart, the command stop_services, and quitting. *)
LEMMA StopStep ==
    ASSUME DesktopInv, Restart \/ StopServices \/ Quit
    PROVE  DesktopInv'
<1>1. StopAll /\ UNCHANGED <<database, built, starting, thread, outcome, crashes>>
  BY DEF Restart, StopServices, Quit, appVars
<1>2. processes \in Seq(Processes)
  BY DEF DesktopInv, DesktopTypeOK
<1>3. /\ processes' \in Seq(Processes)
      /\ children' = <<>>
      /\ DOMAIN processes' = DOMAIN processes
      /\ \A q \in DOMAIN processes :
            /\ processes'[q].name = processes[q].name
            /\ processes'[q].owner = processes[q].owner
            /\ Live(q)' => Live(q) /\ q \notin Range(children)
            /\ processes'[q].state = "stopped" =>
                  processes[q].state = "stopped" \/ q \in Range(children)
  BY <1>1, <1>2, StopAllStops
<1>4. \A q \in DOMAIN processes : Own(q)' <=> Own(q)
  BY <1>3 DEF Own
<1>5. DesktopTypeOK'
  <2>1. app' \in {"running", "exiting", "gone"} /\ page' \in {"splash", "dashboard"}
    BY DEF Restart, StopServices, Quit, appVars, DesktopInv, DesktopTypeOK
  <2>2. quietQuit' \in BOOLEAN
    BY DEF Restart, StopServices, Quit, appVars, DesktopInv, DesktopTypeOK
  <2>3. children' \in Seq(Pids)
    BY <1>3
  <2>. QED
    BY <1>1, <1>3, <2>1, <2>2, <2>3 DEF DesktopInv, DesktopTypeOK
<1>6. Range(children') = {}
  BY <1>3 DEF Range
<1>7. ChildrenAreOwn'
  BY <1>6 DEF ChildrenAreOwn
<1>8. ThreadHoldsOwn' /\ StartingIsThread'
  BY <1>1, <1>3, <1>4 DEF DesktopInv, ThreadHoldsOwn, StartingIsThread
<1>9. OwnProcessesHeld'
  BY <1>1, <1>3, <1>4 DEF DesktopInv, OwnProcessesHeld
<1>10. OnlyOwnStopped'
  BY <1>3, <1>4 DEF DesktopInv, OnlyOwnStopped, ChildrenAreOwn
<1>11. QuietlyGone'
  <2>1. CASE Quit
    <3>. SUFFICES ASSUME quietQuit'
                  PROVE  ~starting' /\ \A q \in DOMAIN processes' :
                            Own(q)' /\ Live(q)' => processes'[q].name = "testapps"
      BY DEF QuietlyGone
    <3>1. ~starting
      BY <2>1 DEF Quit
    <3>2. thread.pc = "idle"
      BY <3>1 DEF DesktopInv, StartingIsThread
    <3>3. \A q \in DOMAIN processes :
            Own(q) /\ Live(q) => q \in Range(children) \/ processes[q].name = "testapps"
      BY <3>2 DEF DesktopInv, OwnProcessesHeld
    <3>4. \A q \in DOMAIN processes' : Own(q)' /\ Live(q)' => processes'[q].name = "testapps"
      BY <1>3, <1>4, <3>3
    <3>. QED
      BY <1>1, <3>1, <3>4
  <2>2. CASE Restart \/ StopServices
    <3>1. app' = "running"
      BY <2>2 DEF Restart, StopServices, appVars
    <3>. QED
      BY <3>1 DEF QuietlyGone
  <2>. QED
    BY <2>1, <2>2
<1>. QED
  BY <1>5, <1>7, <1>8, <1>9, <1>10, <1>11 DEF DesktopInv

(* The process ends. *)
LEMMA GoneStep == DesktopInv /\ Gone => DesktopInv'
<1>. SUFFICES ASSUME DesktopInv, Gone PROVE DesktopInv'
  OBVIOUS
<1>1. /\ UNCHANGED <<page, database, built, processes, crashes, children, starting, thread, outcome, quietQuit>>
      /\ app = "exiting" /\ app' = "gone"
  BY DEF Gone, processVars
<1>2. DesktopTypeOK'
  BY <1>1 DEF DesktopInv, DesktopTypeOK
<1>3. QuietlyGone'
  BY <1>1 DEF DesktopInv, QuietlyGone, Own, Live
<1>. QED
  BY <1>1, <1>2, <1>3 DEF DesktopInv, ChildrenAreOwn, ThreadHoldsOwn, StartingIsThread,
                          OwnProcessesHeld, OnlyOwnStopped, Own, Live
----------------------------------------------------------------------------
(* The steps of the start thread. *)

Thread == [pc : {"idle", "probe", "compose", "testapps", "build", "track", "wait",
                  "check", "open"},
           step : Steps, pid : 0..MaxProcesses, up : BOOLEAN]

(* What is not the thread's to change. *)
Elsewhere == UNCHANGED <<database, crashes, app, quietQuit>>

(* A start that is under way has no process in its hands. *)
FreeHands == thread.pc \notin {"idle"} \union Holding

(* The thread goes on without touching processes or children. *)
LEMMA MoveStep ==
    ASSUME DesktopInv, Elsewhere, FreeHands,
           thread' \in Thread, thread'.pc \notin {"idle"} \union Holding,
           UNCHANGED <<page, built, processes, children, starting, outcome>>
    PROVE  DesktopInv'
<1>1. DesktopTypeOK'
  BY DEF DesktopInv, DesktopTypeOK, Thread, Elsewhere
<1>2. starting' <=> thread'.pc # "idle"
  BY DEF DesktopInv, StartingIsThread, FreeHands
<1>3. UNCHANGED <<processes, children, app, quietQuit>>
  BY DEF Elsewhere
<1>. QED
  BY <1>1, <1>2, <1>3, SameProcesses DEF FreeHands, Holding

LEMMA ReadyStep ==
    ASSUME DesktopInv, Elsewhere, FreeHands, NEW name \in Services, Ready(name)
    PROVE  DesktopInv'
<1>1. thread' \in Thread /\ thread'.pc \in {"open", "probe"}
  <2>1. PICK pc \in {"probe", "open"} :
          thread' = [Idle EXCEPT !.pc = pc, !.step = "dashboard"]
    BY DEF Ready
  <2>2. thread' = [pc |-> pc, step |-> "dashboard", pid |-> 0, up |-> FALSE]
    BY <2>1 DEF Idle
  <2>. QED
    BY <2>2, DesktopAssumption DEF Thread, Steps, Services
<1>2. UNCHANGED <<page, built, processes, children, starting, outcome>>
  BY DEF Ready
<1>. QED
  BY <1>1, <1>2, MoveStep DEF Holding

(* start_all returns, with an error or with the dashboard open. *)
LEMMA FinishStep ==
    ASSUME DesktopInv, Elsewhere, FreeHands,
           NEW result \in {"opened", "failed", "died", "timeout"}, Finish(result),
           page' \in {"splash", "dashboard"}, UNCHANGED <<built, processes, children>>
    PROVE  DesktopInv'
<1>1. thread' = Idle /\ ~starting' /\ starting' \in BOOLEAN
  BY DEF Finish
<1>2. thread' \in Thread /\ thread'.pc = "idle"
  BY <1>1, DesktopAssumption DEF Thread, Idle, Steps
<1>3. outcome' \in [result : {"none", "opened", "failed", "died", "timeout"}, pid : 0..MaxProcesses]
  BY DEF Finish, DesktopInv, DesktopTypeOK
<1>4. DesktopTypeOK'
  BY <1>1, <1>2, <1>3 DEF DesktopInv, DesktopTypeOK, Thread, Elsewhere
<1>5. UNCHANGED <<processes, children, app, quietQuit>>
  BY DEF Elsewhere
<1>. QED
  BY <1>1, <1>2, <1>4, <1>5, SameProcesses DEF FreeHands, Holding

LEMMA FailStep ==
    ASSUME DesktopInv, Elsewhere, FreeHands,
           NEW result \in {"failed", "died", "timeout"}, Fail(result)
    PROVE  DesktopInv'
<1>1. Finish(result) /\ UNCHANGED <<page, built, processes, children>>
  BY DEF Fail
<1>2. page' \in {"splash", "dashboard"}
  BY <1>1 DEF DesktopInv, DesktopTypeOK
<1>. QED
  BY <1>1, <1>2, FinishStep

(* A thread moves on to a step of its own position. *)
LEMMA GoToStep ==
    ASSUME DesktopInv, Elsewhere, FreeHands,
           NEW pc \in {"testapps", "wait"}, NEW step \in Steps,
           GoTo(pc, step),
           UNCHANGED <<page, built, processes, children, starting, outcome>>
    PROVE  DesktopInv'
<1>1. thread \in Thread
  BY DEF DesktopInv, DesktopTypeOK, Thread
<1>2. thread' \in Thread /\ thread'.pc = pc
  BY <1>1 DEF GoTo, Thread
<1>. QED
  BY <1>2, MoveStep DEF Holding

(* A new process is in the thread's hands before anything else can happen, *)
(* unless it is the background docker compose.                             *)
LEMMA NewProcess ==
    ASSUME DesktopInv, Elsewhere, FreeHands, NEW name \in Services \union Commands,
           Len(processes) < MaxProcesses,
           processes' = Append(processes, Process(name, "app", "starting")),
           thread' \in Thread,
           \/ thread'.pc \in Holding /\ thread'.pid = Len(processes) + 1
           \/ thread'.pc = "probe" /\ name = "testapps",
           UNCHANGED <<page, built, children, starting, outcome>>
    PROVE  DesktopInv'
<1> DEFINE new == Process(name, "app", "starting")
<1>1. /\ processes \in Seq(Processes)
      /\ Len(processes) \in Nat /\ DOMAIN processes = 1..Len(processes)
  BY LenProperties DEF DesktopInv, DesktopTypeOK
<1>2. new \in Processes /\ new.name = name /\ new.owner = "app" /\ new.state = "starting"
  BY DEF Process, Processes
<1>3. processes' = Append(processes, new)
  OBVIOUS
<1>. HIDE DEF new
<1>4. /\ processes' \in Seq(Processes)
      /\ DOMAIN processes' = 1..(Len(processes) + 1)
      /\ processes'[Len(processes) + 1] = new
      /\ \A q \in DOMAIN processes : processes'[q] = processes[q]
  BY <1>1, <1>2, <1>3, AppendProperties
<1>5. DesktopTypeOK'
  BY <1>4 DEF DesktopInv, DesktopTypeOK, Thread, Elsewhere
<1>6. \A q \in DOMAIN processes' : q \in DOMAIN processes \/ q = Len(processes) + 1
  BY <1>1, <1>4
<1>7. DOMAIN processes \subseteq DOMAIN processes' /\ Len(processes) + 1 \in DOMAIN processes'
  BY <1>1, <1>4
<1>8. \A q \in DOMAIN processes : (Own(q)' <=> Own(q)) /\ (Live(q)' <=> Live(q))
  BY <1>4 DEF Own, Live
<1>9. ChildrenAreOwn'
  BY <1>7, <1>8 DEF DesktopInv, ChildrenAreOwn
<1>10. ThreadHoldsOwn'
  BY <1>2, <1>4, <1>7 DEF ThreadHoldsOwn, Own, Holding
<1>11. StartingIsThread'
  BY DEF DesktopInv, StartingIsThread, FreeHands, Holding
<1>12. OwnProcessesHeld'
  <2>. SUFFICES ASSUME NEW q \in DOMAIN processes', Own(q)', Live(q)'
                PROVE  \/ processes'[q].name = "testapps"
                       \/ q \in Range(children')
                       \/ thread'.pc \in {"compose", "track", "build"} /\ q = thread'.pid
    BY DEF OwnProcessesHeld
  <2>1. CASE q \in DOMAIN processes
    BY <1>4, <1>8, <2>1 DEF DesktopInv, OwnProcessesHeld, FreeHands, Holding
  <2>2. CASE q = Len(processes) + 1
    BY <1>2, <1>4, <2>2 DEF Holding
  <2>. QED
    BY <1>6, <2>1, <2>2
<1>13. OnlyOwnStopped'
  BY <1>2, <1>4, <1>6, <1>8 DEF DesktopInv, OnlyOwnStopped
<1>14. QuietlyGone'
  <2>1. starting
    BY DEF DesktopInv, StartingIsThread, FreeHands
  <2>. QED
    BY <2>1 DEF DesktopInv, QuietlyGone, Elsewhere
<1>. QED
  BY <1>5, <1>9, <1>10, <1>11, <1>12, <1>13, <1>14 DEF DesktopInv

LEMMA SpawnStep ==
    ASSUME DesktopInv, Elsewhere, FreeHands,
           NEW name \in Services \union Commands, NEW pc \in Holding,
           Spawn(name, pc)
    PROVE  DesktopInv'
<1> DEFINE new == Process(name, "app", "starting")
<1>1. /\ processes \in Seq(Processes) /\ thread \in Thread /\ Len(processes) \in Nat
  BY LenProperties DEF DesktopInv, DesktopTypeOK, Thread
<1>2. /\ processes' = Append(processes, new) /\ Len(processes) < MaxProcesses
      /\ UNCHANGED <<page, built, children, starting, outcome>>
      /\ thread' = [thread EXCEPT !.pc = pc, !.pid = Len(processes')]
  BY DEF Spawn
<1>3. new \in Processes
  BY DEF Process, Processes
<1>4. Len(processes') = Len(processes) + 1
  BY <1>1, <1>2, <1>3, AppendProperties
<1>5. Len(processes) + 1 \in 0..MaxProcesses
  BY <1>1, <1>2, DesktopAssumption
<1>6. thread' \in Thread /\ thread'.pc = pc /\ thread'.pid = Len(processes) + 1
  BY <1>1, <1>2, <1>4, <1>5 DEF Thread, Holding
<1>. QED
  BY <1>2, <1>6, NewProcess

(* The start goes on, with or without a background docker compose. *)
LEMMA TestAppsStep ==
    ASSUME DesktopInv, Elsewhere, TestApps
    PROVE  DesktopInv'
<1>1. FreeHands
  BY DEF TestApps, At, FreeHands, Holding
<1>2. thread' \in Thread /\ thread'.pc = "probe"
  <2>1. thread' = [pc |-> "probe", step |-> "api", pid |-> 0, up |-> FALSE]
    BY DEF TestApps, Idle
  <2>. QED
    BY <2>1, DesktopAssumption DEF Thread, Steps, Services
<1>3. UNCHANGED <<page, built, children, starting, outcome>>
  BY DEF TestApps
<1>4. CASE UNCHANGED processes
  BY <1>1, <1>2, <1>3, <1>4, MoveStep DEF Holding
<1>5. CASE /\ Len(processes) < MaxProcesses
           /\ processes' = Append(processes, Process("testapps", "app", "starting"))
  <2>1. "testapps" \in Services \union Commands
    BY DEF Commands
  <2>. QED
    BY <1>1, <1>2, <1>3, <1>5, <2>1, NewProcess
<1>. QED
  BY <1>4, <1>5 DEF TestApps

(* The child list takes over the process the thread had. *)
LEMMA TrackStep ==
    ASSUME DesktopInv, Elsewhere, NEW name \in Services, Track(name)
    PROVE  DesktopInv'
<1>1. /\ processes \in Seq(Processes) /\ children \in Seq(Pids) /\ thread \in Thread
      /\ Len(processes) \in Nat /\ DOMAIN processes = 1..Len(processes)
      /\ Len(children) \in Nat /\ DOMAIN children = 1..Len(children)
  BY LenProperties DEF DesktopInv, DesktopTypeOK, Thread
<1>2. thread.pc = "track" /\ thread.pid \in DOMAIN processes /\ Own(thread.pid)
  BY DEF Track, At, DesktopInv, ThreadHoldsOwn
<1>3. thread.pid \in Pids
  <2>1. thread.pid \in 0..MaxProcesses
    BY <1>1 DEF Thread
  <2>. QED
    BY <1>1, <1>2, <2>1, DesktopAssumption DEF Pids
<1>4. /\ children' = Append(children, thread.pid)
      /\ GoTo("wait", name)
      /\ UNCHANGED <<page, built, processes, starting, outcome>>
  BY DEF Track
<1>5. /\ children' \in Seq(Pids)
      /\ DOMAIN children' = 1..(Len(children) + 1)
      /\ children'[Len(children) + 1] = thread.pid
      /\ \A i \in DOMAIN children : children'[i] = children[i]
  BY <1>1, <1>3, <1>4, AppendProperties
<1>6. Range(children') = Range(children) \union {thread.pid}
  <2>1. \A i \in DOMAIN children' : i \in DOMAIN children \/ i = Len(children) + 1
    BY <1>1, <1>5
  <2>2. Len(children) + 1 \in DOMAIN children' /\ DOMAIN children \subseteq DOMAIN children'
    BY <1>1, <1>5
  <2>. QED
    BY <1>5, <2>1, <2>2 DEF Range
<1>7. thread' \in Thread /\ thread'.pc = "wait"
  BY <1>1, <1>4 DEF GoTo, Thread, Steps
<1>8. DesktopTypeOK'
  BY <1>4, <1>5, <1>7 DEF DesktopInv, DesktopTypeOK, Thread, Elsewhere
<1>9. \A q \in DOMAIN processes : (Own(q)' <=> Own(q)) /\ (Live(q)' <=> Live(q))
  BY <1>4 DEF Own, Live
<1>10. ChildrenAreOwn'
  BY <1>2, <1>4, <1>6, <1>9 DEF DesktopInv, ChildrenAreOwn
<1>11. ThreadHoldsOwn'
  BY <1>7 DEF ThreadHoldsOwn
<1>12. StartingIsThread'
  BY <1>2, <1>4, <1>7 DEF DesktopInv, StartingIsThread
<1>13. OwnProcessesHeld'
  BY <1>4, <1>6, <1>9 DEF DesktopInv, OwnProcessesHeld
<1>14. OnlyOwnStopped'
  BY <1>4, <1>9 DEF DesktopInv, OnlyOwnStopped
<1>15. QuietlyGone'
  BY <1>2 DEF DesktopInv, StartingIsThread, QuietlyGone, Elsewhere
<1>. QED
  BY <1>8, <1>10, <1>11, <1>12, <1>13, <1>14, <1>15 DEF DesktopInv

(* An awaited command ends, and the thread, which alone held it, lets it   *)
(* go.                                                                     *)
LEMMA AwaitedStep ==
    ASSUME DesktopInv, Elsewhere, Compose \/ Build
    PROVE  DesktopInv'
<1>1. /\ thread.pc \in {"compose", "build"} /\ thread.pid \in DOMAIN processes
      /\ Become(thread.pid, "exited")
  BY DEF Compose, Build, Awaited, At, DesktopInv, ThreadHoldsOwn
<1>2. processes \in Seq(Processes) /\ thread \in Thread
  BY DEF DesktopInv, DesktopTypeOK, Thread
<1>3. /\ processes' \in Seq(Processes)
      /\ DOMAIN processes' = DOMAIN processes
      /\ processes'[thread.pid].state = "exited"
      /\ \A q \in DOMAIN processes :
            /\ processes'[q].name = processes[q].name
            /\ processes'[q].owner = processes[q].owner
            /\ q # thread.pid => processes'[q].state = processes[q].state
  BY <1>1, <1>2, BecomeChanges
<1>4. /\ thread' \in Thread
      /\ thread'.pc \in {"idle", "probe", "wait"}
      /\ starting' \in BOOLEAN
      /\ starting' <=> thread'.pc # "idle"
  <2>1. CASE Finish("failed")
    <3>1. thread' = Idle /\ starting' = FALSE
      BY <2>1 DEF Finish
    <3>2. thread' \in Thread /\ thread'.pc = "idle"
      BY <3>1, DesktopAssumption DEF Idle, Thread, Steps
    <3>. QED
      BY <3>1, <3>2
  <2>2. CASE (GoTo("probe", "dashboard") \/ GoTo("wait", "database")) /\ UNCHANGED starting
    <3>1. thread' \in Thread /\ thread'.pc \in {"probe", "wait"}
      BY <1>2, <2>2 DEF GoTo, Thread, Steps, Services
    <3>2. starting /\ starting \in BOOLEAN
      BY <1>1 DEF DesktopInv, DesktopTypeOK, StartingIsThread
    <3>. QED
      BY <2>2, <3>1, <3>2
  <2>. QED
    BY <2>1, <2>2 DEF Compose, Build
<1>5. outcome' \in [result : {"none", "opened", "failed", "died", "timeout"}, pid : 0..MaxProcesses]
  BY <1>2 DEF Compose, Build, Finish, Thread, DesktopInv, DesktopTypeOK
<1>6. UNCHANGED <<page, children>> /\ built' \in BOOLEAN
  BY DEF Compose, Build, Awaited, DesktopInv, DesktopTypeOK
<1>7. DesktopTypeOK'
  BY <1>3, <1>4, <1>5, <1>6 DEF DesktopInv, DesktopTypeOK, Thread, Elsewhere
<1>8. \A q \in DOMAIN processes : (Own(q)' <=> Own(q)) /\ (Live(q)' => Live(q) /\ q # thread.pid)
  BY <1>3 DEF Own, Live
<1>9. ChildrenAreOwn'
  BY <1>3, <1>6, <1>8 DEF DesktopInv, ChildrenAreOwn
<1>10. ThreadHoldsOwn'
  BY <1>4 DEF ThreadHoldsOwn
<1>11. StartingIsThread'
  BY <1>4 DEF StartingIsThread
<1>12. OwnProcessesHeld'
  BY <1>3, <1>6, <1>8 DEF DesktopInv, OwnProcessesHeld
<1>13. OnlyOwnStopped'
  BY <1>3, <1>8 DEF DesktopInv, OnlyOwnStopped
<1>14. QuietlyGone'
  BY <1>1 DEF DesktopInv, StartingIsThread, QuietlyGone, Elsewhere
<1>. QED
  BY <1>7, <1>9, <1>10, <1>11, <1>12, <1>13, <1>14 DEF DesktopInv

(* The probe of a service adopts it, fails, or spawns a process. *)
LEMMA ProbeServiceStep ==
    ASSUME DesktopInv, Elsewhere, NEW name \in Services, ProbeService(name)
    PROVE  DesktopInv'
<1>1. FreeHands
  BY DEF ProbeService, At, FreeHands, Holding
<1>2. CASE Ready(name)
  BY <1>1, <1>2, ReadyStep
<1>3. CASE Fail("failed")
  BY <1>1, <1>3, FailStep
<1>4. CASE Spawn(name, "track")
  BY <1>1, <1>4, SpawnStep DEF Holding
<1>5. CASE Spawn("build", "build")
  BY <1>1, <1>5, SpawnStep DEF Holding, Commands
<1>. QED
  BY <1>2, <1>3, <1>4, <1>5 DEF ProbeService

(* Waiting for a service and judging what the wait found. *)
LEMMA WaitStep ==
    ASSUME DesktopInv, Elsewhere, NEW name \in Services, WaitService(name) \/ CheckService(name)
    PROVE  DesktopInv'
<1>1. FreeHands
  BY DEF WaitService, CheckService, At, FreeHands, Holding
<1>2. CASE WaitService(name)
  <2>1. thread \in Thread
    BY DEF DesktopInv, DesktopTypeOK, Thread
  <2>2. PICK up \in BOOLEAN : thread' = [thread EXCEPT !.pc = "check", !.up = up]
    <3>1. (Died(name) \/ Answers(name)) \in BOOLEAN
      OBVIOUS
    <3>. QED
      BY <1>2, <3>1, Zenon DEF WaitService
  <2>3. thread' \in Thread /\ thread'.pc = "check"
    BY <2>1, <2>2 DEF Thread
  <2>. QED
    BY <1>1, <1>2, <2>3, MoveStep DEF WaitService, Holding
<1>3. CASE CheckService(name)
  <2>1. Fail("died") \/ Fail("timeout") \/ Ready(name)
    BY <1>3 DEF CheckService
  <2>. QED
    BY <1>1, <2>1, FailStep, ReadyStep
<1>. QED
  BY <1>2, <1>3

(* The database is found, started or given up. *)
LEMMA DatabaseStep ==
    ASSUME DesktopInv, Elsewhere, ProbeDatabase \/ WaitDatabase
    PROVE  DesktopInv'
<1>1. FreeHands /\ "database" \in Steps
  BY DEF ProbeDatabase, WaitDatabase, At, FreeHands, Steps, Holding
<1>2. CASE Fail("failed") \/ Fail("timeout")
  BY <1>1, <1>2, FailStep
<1>3. CASE Spawn("postgres", "compose")
  BY <1>1, <1>3, SpawnStep DEF Holding, Commands
<1>4. CASE /\ GoTo("testapps", "database")
           /\ UNCHANGED <<page, built, processes, children, starting, outcome>>
  BY <1>1, <1>4, GoToStep
<1>. QED
  BY <1>2, <1>3, <1>4 DEF ProbeDatabase, WaitDatabase

LEMMA StartThreadStep == DesktopInv /\ StartThread => DesktopInv'
<1>. SUFFICES ASSUME DesktopInv, StartThread PROVE DesktopInv'
  OBVIOUS
<1>1. Elsewhere
  BY DEF StartThread, Elsewhere, appVars
<1>2. CASE ProbeDatabase \/ WaitDatabase
  BY <1>1, <1>2, DatabaseStep
<1>3. ASSUME NEW name \in Services, ProbeService(name) PROVE DesktopInv'
  BY <1>1, <1>3, ProbeServiceStep
<1>4. ASSUME NEW name \in Services, Track(name) PROVE DesktopInv'
  BY <1>1, <1>4, TrackStep
<1>5. ASSUME NEW name \in Services, WaitService(name) \/ CheckService(name) PROVE DesktopInv'
  BY <1>1, <1>5, WaitStep
<1>6. CASE Compose \/ Build
  BY <1>1, <1>6, AwaitedStep
<1>7. CASE Open
  <2>1. /\ FreeHands /\ Finish("opened") /\ page' \in {"splash", "dashboard"}
        /\ UNCHANGED <<built, processes, children>>
    BY <1>7 DEF Open, At, FreeHands, Holding
  <2>. QED
    BY <1>1, <2>1, FinishStep
<1>8. CASE TestApps
  BY <1>1, <1>8, TestAppsStep
<1>. QED
  BY <1>2, <1>3, <1>4, <1>5, <1>6, <1>7, <1>8 DEF StartThread
----------------------------------------------------------------------------
(* A start begins only when none is under way. *)
LEMMA BeginStartStep == DesktopInv /\ BeginStart => DesktopInv'
<1>. SUFFICES ASSUME DesktopInv, BeginStart PROVE DesktopInv'
  OBVIOUS
<1>1. /\ app = "running" /\ ~starting /\ starting' = TRUE
      /\ UNCHANGED <<page, database, built, processes, crashes, children, app, quietQuit>>
  BY DEF BeginStart, processVars, appVars
<1>2. thread.pc = "idle"
  BY <1>1 DEF DesktopInv, StartingIsThread
<1>3. thread' \in Thread /\ thread'.pc = "probe"
  <2>1. thread' = [pc |-> "probe", step |-> "database", pid |-> 0, up |-> FALSE]
    BY DEF BeginStart, Idle
  <2>. QED
    BY <2>1, DesktopAssumption DEF Thread, Steps
<1>4. outcome' \in [result : {"none", "opened", "failed", "died", "timeout"}, pid : 0..MaxProcesses]
  BY DesktopAssumption DEF BeginStart
<1>5. DesktopTypeOK'
  BY <1>1, <1>3, <1>4 DEF DesktopInv, DesktopTypeOK, Thread
<1>. QED
  BY <1>1, <1>2, <1>3, <1>5, SameProcesses DEF Holding

LEMMA DesktopInvStep == DesktopInv /\ [Next]_vars => DesktopInv'
<1>. SUFFICES ASSUME DesktopInv, [Next]_vars PROVE DesktopInv'
  OBVIOUS
<1>1. ASSUME NEW pid \in DOMAIN processes, Boot(pid) \/ Crash(pid) \/ TestAppsDone(pid)
      PROVE  DesktopInv'
  BY <1>1, ProcessStep
<1>2. CASE DatabaseUp
  <2>1. /\ UNCHANGED <<page, built, processes, crashes, children, starting, thread, outcome, app, quietQuit>>
        /\ database' \in BOOLEAN
    BY <1>2 DEF DatabaseUp, processVars, appVars
  <2>2. DesktopTypeOK'
    BY <2>1 DEF DesktopInv, DesktopTypeOK
  <2>3. starting' <=> thread'.pc # "idle"
    BY <2>1 DEF DesktopInv, StartingIsThread
  <2>. QED
    BY <2>1, <2>2, <2>3, SameProcesses
<1>3. CASE StartThread
  BY <1>3, StartThreadStep
<1>4. CASE BeginStart
  BY <1>4, BeginStartStep
<1>5. CASE Restart \/ StopServices \/ Quit
  BY <1>5, StopStep
<1>6. CASE Gone
  BY <1>6, GoneStep
<1>7. CASE UNCHANGED vars
  BY <1>7 DEF vars, DesktopInv, DesktopTypeOK, ChildrenAreOwn, ThreadHoldsOwn, StartingIsThread,
              OwnProcessesHeld, OnlyOwnStopped, QuietlyGone, Own, Live
<1>. QED
  BY <1>1, <1>2, <1>3, <1>4, <1>5, <1>6, <1>7 DEF Next

(***************************************************************************)
(* DesktopInv is inductive: it holds in every reachable state.             *)
(***************************************************************************)
THEOREM DesktopInvariance == Spec => []DesktopInv
BY DesktopInvInit, DesktopInvStep, PTL DEF Spec

(* The types of DesktopServices are kept. *)
THEOREM DesktopTypeCorrect == Spec => []DesktopTypeOK
<1>1. DesktopInv => DesktopTypeOK
  BY DEF DesktopInv
<1>. QED
  BY <1>1, DesktopInvariance, PTL

(***************************************************************************)
(* However often a start fails, is retried or is restarted, each live      *)
(* process the app started is in `children`, in the hands of the thread    *)
(* that has just spawned it or awaits it, or a background docker compose.  *)
(***************************************************************************)
THEOREM NoProcessIsLost == Spec => []OwnProcessesHeld
<1>1. DesktopInv => OwnProcessesHeld
  BY DEF DesktopInv
<1>. QED
  BY <1>1, DesktopInvariance, PTL

(***************************************************************************)
(* stop_all never stops a process of the user.                             *)
(***************************************************************************)
THEOREM UserProcessesAreLeftAlone == Spec => []OnlyOwnStopped
<1>1. DesktopInv => OnlyOwnStopped
  BY DEF DesktopInv
<1>. QED
  BY <1>1, DesktopInvariance, PTL

(***************************************************************************)
(* An app that quits while no start is under way leaves no service and no  *)
(* awaited command behind; of its processes at most background docker      *)
(* compose commands live on.                                               *)
(***************************************************************************)
THEOREM QuietQuitIsClean == Spec => []QuietQuitStopsOwn
<1>1. DesktopInv => QuietQuitStopsOwn
  BY DEF DesktopInv, QuietlyGone, QuietQuitStopsOwn
<1>. QED
  BY <1>1, DesktopInvariance, PTL
============================================================================
