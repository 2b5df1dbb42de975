------------------------------- MODULE Kernel -------------------------------
(***************************************************************************)
(* The scheduler of the meter: the run level chosen from the power supply  *)
(* (Kernel/Src/kernel.c, Devices/basic/Src/power.c), the four passes over  *)
(* the task table (Tasks/Tasks/Src/tasks.c), and what the passes do to the *)
(* long-lived heap blocks (Kernel/Src/heap.c), to the file system          *)
(* (Kernel/Src/disk.c) and to each task's own status.                      *)
(*                                                                         *)
(* A pass is a sequence of task bodies in the order of the task table; a   *)
(* body is a step Begin(t), any number of calls into the kernel, and a     *)
(* Finish step.  The supply, the keys, and (on the emulator) the console   *)
(* thread act between any two of those steps.                              *)
(***************************************************************************)
EXTENDS Naturals

CONSTANTS
  Tasks,        \* the entries of task_tables[]
  NoTask,       \* task_id = 0xffff: no body is running
  Order,        \* Order[pass][t]: rank of t in that pass (order byte, then table index)
  AlwaysUp,     \* tasks whose status() is the constant TASK_INIT
  UpAt,         \* UpAt[t]: the levels at which t's init makes its status TASK_INIT
  InitAlloc,    \* tasks whose init takes a salloc block when it makes them up
  FreesOnExit,  \* tasks whose exit and reset free the block and clear the pointer
  LazyAlloc,    \* tasks that salloc and free while serving calls of their API
  Orphaning,    \* tasks whose exit may leave a pointer to a recycled block
  Clients,      \* Clients[u]: tasks whose loop calls u's API
  Console,      \* the console task (NoTask in a build without it)
  Keyboard,     \* the keyboard task
  WakeTime,     \* wake_time.config / KERNEL_PERIOD
  MaxStalls     \* bound: how often the watchdog fires in a behaviour

Passes == {"init", "loop", "exit", "reset"}
RunLevels == {"RUN", "SLEEP", "WAKEUP"}
Levels == RunLevels \cup {"BOOT", "RESET"}

ASSUME TasksAssumption == NoTask \notin Tasks
ASSUME OrderAssumption ==
  /\ Order \in [Passes -> [Tasks -> Nat]]
  /\ \A p \in Passes : \A t, u \in Tasks : Order[p][t] = Order[p][u] => t = u
ASSUME SetsAssumption ==
  /\ AlwaysUp \subseteq Tasks
  /\ UpAt \in [Tasks -> SUBSET RunLevels]
  /\ InitAlloc \cup FreesOnExit \cup LazyAlloc \cup Orphaning \subseteq Tasks
  /\ InitAlloc \cap LazyAlloc = {}
  /\ AlwaysUp \cap (InitAlloc \cup LazyAlloc) = {}
  /\ LazyAlloc \subseteq FreesOnExit \cup Orphaning
  /\ Clients \in [LazyAlloc -> SUBSET Tasks]
  /\ Console \in Tasks \cup {NoTask}
  /\ Keyboard \in Tasks
  /\ WakeTime \in Nat /\ MaxStalls \in Nat

VARIABLES
  supply,    \* is_powered(): mains present
  power,     \* status_current of power.c
  klevel,    \* klevel of kernel.c, what system_status() returns
  before,    \* level_before of tasks_sched()
  pass,      \* where the main loop is
  todo,      \* tasks the current pass has not reached yet
  taskId,    \* task_id of tasks.c
  status,    \* status of each task: "INIT" also for TASK_RUN, "DOWN" for the
             \* TASK_NOTINIT and TASK_SUSPEND the kernel treats alike
  lastInit,  \* the level t's init last ran at, "OFF" once it has exited
  shold,     \* tasks that own a block on slist
  ptr,       \* tasks whose static pointer to their block is not null
  fs,        \* lfs_err: 0, -1, or the error of a failed mount
  flash,     \* the flash driver is initialised or suspended
  wake,      \* wake_time.counter of the keyboard task
  command,   \* what the console thread is doing
  stalls     \* watchdog resets so far

powerVars == <<power, command>>
levelVars == <<klevel, before>>
passVars  == <<pass, todo, taskId>>
taskVars  == <<status, lastInit, wake>>
heapVars  == <<shold, ptr>>
diskVars  == <<fs, flash>>
vars == <<supply, powerVars, levelVars, passVars, taskVars, heapVars, diskVars, stalls>>

-----------------------------------------------------------------------------
\* power.c

Supply(s) == IF s THEN "AC" ELSE "BATTERY"

\* mutant: a reset request is read like a supply status
PowerStatusForgetsReset(p) ==
  IF p = "WAKEUP" /\ ~supply THEN p ELSE Supply(supply)
\* mutant: a wake-up outlives the return of the mains
PowerStatusHoldsWakeup(p) ==
  IF p \in {"RESET", "WAKEUP"} THEN p ELSE Supply(supply)

\* power_status(): a wake-up lasts while on battery, a reset request for ever
PowerStatus(p) ==
  IF p = "RESET" \/ (p = "WAKEUP" /\ ~supply) THEN p ELSE Supply(supply)

\* get_state(): the run level that belongs to a power status
LevelOf(p) ==
  CASE p = "AC"     -> "RUN"
    [] p = "WAKEUP" -> "WAKEUP"
    [] p = "RESET"  -> "RESET"
    [] OTHER        -> "SLEEP"

-----------------------------------------------------------------------------
\* disk.c and heap.c: what the passes call

\* disk_ctrl.start(): only the levels that use files wake the flash and mount
DiskStart ==
  IF klevel \in {"RUN", "WAKEUP"}
    THEN /\ flash' = "on"
         /\ fs' \in IF fs = "mounted" THEN {fs} ELSE {"mounted", "error"}
    ELSE UNCHANGED diskVars

\* disk_ctrl.idle()
DiskIdle ==
  /\ fs' = IF fs = "mounted" THEN "unmounted" ELSE fs
  /\ flash' = "off"

\* disk_ctrl.format(): erases and mounts, whether or not the flash is awake
DiskFormat == fs' \in {"mounted", "error"}

\* mutant: the blocks of a task that leaves stay
RecycleNothing(t) == UNCHANGED shold

\* heap_ctrl.recycle(): every block of the running task is freed
Recycle(t) == shold' = shold \ {t}

\* heap_ctrl.sinit()
EmptyHeap == shold' = {}

-----------------------------------------------------------------------------
\* tasks.c: the task table

IsUp(t) == t \in AlwaysUp \/ status[t] = "INIT"

\* t is the task the current pass comes to next
IsNext(t) ==
  /\ taskId = NoTask
  /\ t \in todo
  /\ \A u \in todo : Order[pass][t] <= Order[pass][u]

\* the values of RAM after a processor reset; mains and flash contents survive
Boot ==
  /\ power' = "BATTERY" /\ command' = "none"
  /\ klevel' = "BOOT" /\ before' = "BOOT"
  /\ pass' = "main" /\ todo' = {} /\ taskId' = NoTask
  /\ status' = [t \in Tasks |-> "DOWN"]
  /\ lastInit' = [t \in Tasks |-> "OFF"]
  /\ wake' = 0
  /\ shold' = {} /\ ptr' = {}
  /\ fs' = "unmounted" /\ flash' = "off"

Init ==
  /\ supply \in BOOLEAN
  /\ power = "BATTERY" /\ command = "none"
  /\ klevel = "BOOT" /\ before = "BOOT"
  /\ pass = "main" /\ todo = {} /\ taskId = NoTask
  /\ status = [t \in Tasks |-> "DOWN"]
  /\ lastInit = [t \in Tasks |-> "OFF"]
  /\ wake = 0
  /\ shold = {} /\ ptr = {}
  /\ fs = "unmounted" /\ flash = "off"
  /\ stalls = 0

-----------------------------------------------------------------------------
\* kernel.c: one turn of the main loop, up to the start of a pass

GetState ==
  /\ pass = "main"
  /\ power' = PowerStatus(power)
  /\ klevel' = LevelOf(power')
  /\ UNCHANGED <<supply, command, before, taskId, taskVars, heapVars, flash, stalls>>

\* the level changed: what ran at the old level leaves first
LeaveLevel ==
  /\ GetState
  /\ klevel' # before /\ klevel' # "RESET" /\ before # "BOOT"
  /\ pass' = "exit" /\ todo' = Tasks
  /\ UNCHANGED fs

\* the first level after a boot: nothing to leave
FirstLevel ==
  /\ GetState
  /\ klevel' # before /\ klevel' # "RESET" /\ before = "BOOT"
  /\ pass' = "quiet"
  /\ UNCHANGED <<todo, fs>>

\* a factory reset formats the disk and then resets the tasks, without exiting
StartReset ==
  /\ GetState
  /\ klevel' = "RESET" /\ klevel' # before
  /\ DiskFormat
  /\ pass' = "reset" /\ todo' = Tasks

\* the level is the same and the period has passed: a loop pass is due
LoopDue ==
  /\ GetState
  /\ klevel' = before
  /\ pass' = "loop" /\ todo' = Tasks
  /\ UNCHANGED fs

\* the level is the same and the period has not passed
NotDue ==
  /\ GetState
  /\ klevel' = before
  /\ UNCHANGED <<pass, todo, fs>>

-----------------------------------------------------------------------------
\* tasks.c: the passes

\* the next task of a pass gets the processor; the disk is unlocked for it
Begin(t) ==
  /\ pass \in Passes
  /\ IsNext(t)
  /\ pass = "loop" => IsUp(t)
  /\ taskId' = t
  /\ todo' = todo \ {t}
  /\ UNCHANGED <<supply, powerVars, levelVars, pass, taskVars, heapVars, diskVars, stalls>>

\* a loop pass leaves out the tasks that are not up
Skip(t) ==
  /\ pass = "loop"
  /\ IsNext(t)
  /\ ~IsUp(t)
  /\ todo' = todo \ {t}
  /\ UNCHANGED <<supply, powerVars, levelVars, pass, taskId, taskVars, heapVars, diskVars, stalls>>

\* a task body of the given pass returns
Return(p) ==
  /\ pass = p
  /\ taskId # NoTask
  /\ taskId' = NoTask
  /\ UNCHANGED <<supply, levelVars, pass, todo, diskVars, stalls>>

\* init: the task comes up if the level is one of its own and its block can be
\* had.  A task that allocates in init clears its pointer first.
FinishInit ==
  /\ Return("init")
  /\ lastInit' = [lastInit EXCEPT ![taskId] = klevel]
  /\ wake' = IF taskId = Keyboard THEN 0 ELSE wake
  /\ UNCHANGED powerVars
  /\ IF klevel \notin UpAt[taskId]
       THEN /\ ptr' = ptr \ (InitAlloc \cap {taskId})
            /\ UNCHANGED <<status, shold>>
       ELSE \E got \in BOOLEAN :
              /\ taskId \notin InitAlloc => got
              /\ status' = [status EXCEPT ![taskId] = IF got THEN "INIT" ELSE "ERROR"]
              /\ IF got /\ taskId \in InitAlloc
                   THEN ptr' = ptr \cup {taskId} /\ shold' = shold \cup {taskId}
                   ELSE ptr' = ptr \ (InitAlloc \cap {taskId}) /\ UNCHANGED shold

\* mutant: the wake-up counter has no end
FinishLoopCountsOn ==
  /\ Return("loop")
  /\ UNCHANGED <<command, status, lastInit, heapVars, power>>
  /\ wake' = IF taskId = Keyboard THEN wake + 1 ELSE wake

\* mutant: the end of the wake-up only reads the status
FinishLoopKeepsWakeup ==
  /\ Return("loop")
  /\ UNCHANGED <<command, status, lastInit, heapVars>>
  /\ IF taskId = Keyboard /\ klevel = "WAKEUP"
       THEN IF wake < WakeTime
              THEN wake' = wake + 1 /\ UNCHANGED power
              ELSE power' = PowerStatus(power) /\ UNCHANGED wake
       ELSE UNCHANGED <<power, wake>>

\* loop: the keyboard task counts the wake-up and ends it
FinishLoop ==
  /\ Return("loop")
  /\ UNCHANGED <<command, status, lastInit, heapVars>>
  /\ \/ taskId # Keyboard /\ UNCHANGED <<power, wake>>
     \/ /\ taskId = Keyboard /\ klevel # "WAKEUP"
        /\ wake' = 0 /\ UNCHANGED power
     \/ /\ taskId = Keyboard /\ klevel = "WAKEUP"
        /\ IF wake < WakeTime
             THEN wake' = wake + 1 /\ UNCHANGED power
             ELSE power' = Supply(supply) /\ UNCHANGED wake   \* power_alter(SUPPLY_BATTERY)

\* exit and reset: the task goes down and the kernel recycles its blocks; what
\* is left of its pointer depends on the task
Quit(p) ==
  /\ Return(p)
  /\ status' = [status EXCEPT ![taskId] = "DOWN"]
  /\ lastInit' = [lastInit EXCEPT ![taskId] = "OFF"]
  /\ Recycle(taskId)
  /\ \E lost \in SUBSET ({taskId} \cap Orphaning) :
       ptr' = ptr \ (lost \cup ({taskId} \cap FreesOnExit))
  /\ UNCHANGED <<powerVars, wake>>

FinishExit == Quit("exit")
FinishReset == Quit("reset")

\* every task has exited: the file system is unmounted, the flash suspended
ExitDone ==
  /\ pass = "exit" /\ taskId = NoTask /\ todo = {}
  /\ pass' = "quiet"
  /\ DiskIdle
  /\ UNCHANGED <<supply, powerVars, levelVars, todo, taskId, taskVars, heapVars, stalls>>

\* tasks_init(): the heap is emptied, the disk started at the levels that use it
InitStart ==
  /\ pass = "quiet"
  /\ pass' = "init" /\ todo' = Tasks
  /\ EmptyHeap
  /\ DiskStart
  /\ UNCHANGED <<supply, powerVars, levelVars, taskId, taskVars, ptr, stalls>>

\* the level is entered, and a loop pass follows at once
InitDone ==
  /\ pass = "init" /\ taskId = NoTask /\ todo = {}
  /\ before' = klevel
  /\ pass' = "loop" /\ todo' = Tasks
  /\ UNCHANGED <<supply, powerVars, klevel, taskId, taskVars, heapVars, diskVars, stalls>>

LoopDone ==
  /\ pass = "loop" /\ taskId = NoTask /\ todo = {}
  /\ pass' = "main"
  /\ UNCHANGED <<supply, powerVars, levelVars, todo, taskId, taskVars, heapVars, diskVars, stalls>>

\* every task is reset: the disk goes idle and the processor restarts
ResetDone ==
  /\ pass = "reset" /\ taskId = NoTask /\ todo = {}
  /\ Boot
  /\ UNCHANGED <<supply, stalls>>

-----------------------------------------------------------------------------
\* what a running body does to the kernel

\* a file operation: remount if the power is back, work, and look at the power
\* again if the operation failed
FileOperation(mount, ok) ==
  LET remount == fs = "unmounted" /\ PowerStatus(power) = "AC"
      fs1     == IF remount THEN mount ELSE fs
      checkup == fs1 = "mounted" /\ ~ok
  IN /\ power' = IF fs = "unmounted" \/ checkup THEN PowerStatus(power) ELSE power
     /\ fs' = IF checkup /\ power' # "AC" THEN "unmounted" ELSE fs1

\* Tasks use files in the loops and inits of RUN and WAKEUP, in the exit from
\* RUN, and in a reset.
DiskAccess ==
  /\ taskId # NoTask
  /\ \/ pass \in {"init", "loop"} /\ klevel \in {"RUN", "WAKEUP"}
     \/ pass = "exit" /\ before = "RUN"
     \/ pass = "reset"
  /\ \E mount \in {"mounted", "error"}, ok \in BOOLEAN : FileOperation(mount, ok)
  /\ UNCHANGED <<supply, command, levelVars, passVars, taskVars, heapVars, flash, stalls>>

\* a loop body calls the API of a task that is up, which may take a block ...
Salloc(u) ==
  /\ pass = "loop" /\ taskId \in Clients[u] /\ IsUp(u)
  /\ shold' = shold \cup {u}
  /\ ptr' = ptr \cup {u}
  /\ UNCHANGED <<supply, powerVars, levelVars, passVars, taskVars, diskVars, stalls>>

\* ... and it gives the block back, then or in its own loop
Free(u) ==
  /\ pass = "loop" /\ taskId \in Clients[u] \cup {u} /\ IsUp(u)
  /\ shold' = shold \ {u}
  /\ ptr' = ptr \ {u}
  /\ UNCHANGED <<supply, powerVars, levelVars, passVars, taskVars, diskVars, stalls>>

\* key_changed(): keys.runner() found a key pressed.  Asleep, it asks for a wake-up.
KeyPress ==
  /\ pass = "loop" /\ taskId = Keyboard
  /\ wake' = 0
  /\ power' = IF klevel = "SLEEP" /\ power = "BATTERY" THEN "WAKEUP" ELSE power
  /\ UNCHANGED <<supply, command, levelVars, passVars, status, lastInit, heapVars, diskVars, stalls>>

-----------------------------------------------------------------------------
\* the environment

SupplyChange ==
  /\ supply' = ~supply
  /\ UNCHANGED <<powerVars, levelVars, passVars, taskVars, heapVars, diskVars, stalls>>

\* the console thread: a command line arrives while the handler is installed
CommandLine ==
  /\ command = "none"
  /\ Console \in Tasks /\ lastInit[Console] # "OFF"
  /\ command' \in {"reset", "power"}
  /\ UNCHANGED <<supply, power, levelVars, passVars, taskVars, heapVars, diskVars, stalls>>

\* the thread tests the power status, and writes it in another step, whatever
\* the scheduler did to it in between
CommandTest ==
  /\ \/ /\ command = "reset"                                 \* power_alter(POWER_RESET)
        /\ command' = IF power = "AC" THEN "grant" ELSE "none"
     \/ /\ command = "power"                                 \* power_status()
        /\ command' = IF PowerStatus(power) = Supply(supply) THEN Supply(supply) ELSE "none"
  /\ UNCHANGED <<supply, power, levelVars, passVars, taskVars, heapVars, diskVars, stalls>>

\* a granted reset that lands inside a power_status() of the scheduler is lost
CommandWrite ==
  /\ command \in {"grant", "AC", "BATTERY"}
  /\ power' \in IF command = "grant" THEN {"RESET", power} ELSE {command}
  /\ command' = "none"
  /\ UNCHANGED <<supply, levelVars, passVars, taskVars, heapVars, diskVars, stalls>>

\* a body that runs too long is cut off by the watchdog
Watchdog ==
  /\ taskId # NoTask
  /\ stalls < MaxStalls
  /\ stalls' = stalls + 1
  /\ Boot
  /\ UNCHANGED supply

-----------------------------------------------------------------------------
MainLoop ==
  LeaveLevel \/ FirstLevel \/ StartReset \/ LoopDue \/ ExitDone \/ InitStart
    \/ InitDone \/ LoopDone \/ ResetDone
Body == FinishInit \/ FinishLoop \/ FinishExit \/ FinishReset
Dispatch == \E t \in Tasks : Begin(t) \/ Skip(t)
Calls == DiskAccess \/ KeyPress \/ \E u \in LazyAlloc : Salloc(u) \/ Free(u)
Environment == SupplyChange \/ CommandLine \/ CommandTest \/ CommandWrite \/ Watchdog

Next == MainLoop \/ NotDue \/ Body \/ Dispatch \/ Calls \/ Environment

Spec == Init /\ [][Next]_vars

\* the main loop never stops: time passes, so a loop pass falls due, and every
\* body returns (or the watchdog ends it)
FairSpec == Spec /\ WF_vars(MainLoop) /\ WF_vars(Body) /\ WF_vars(Dispatch)

-----------------------------------------------------------------------------
\* properties

\* The variables hold the values the C variables can take.
TypeOK ==
  /\ supply \in BOOLEAN
  /\ power \in {"AC", "BATTERY", "WAKEUP", "RESET"}
  /\ command \in {"none", "reset", "power", "grant", "AC", "BATTERY"}
  /\ klevel \in Levels /\ before \in RunLevels \cup {"BOOT"}
  /\ pass \in Passes \cup {"main", "quiet"}
  /\ todo \subseteq Tasks
  /\ taskId \in Tasks \cup {NoTask}
  /\ status \in [Tasks -> {"DOWN", "INIT", "ERROR"}]
  /\ lastInit \in [Tasks -> RunLevels \cup {"OFF"}]
  /\ wake \in 0..WakeTime
  /\ shold \subseteq Tasks /\ ptr \subseteq Tasks
  /\ fs \in {"mounted", "unmounted", "error"}
  /\ flash \in {"on", "off"}
  /\ stalls \in 0..MaxStalls

\* The file system is mounted only while the flash driver is up: whatever file
\* operations, power failures and level changes come between disk_ctrl_start and
\* disk_ctrl_idle.  (A factory reset asked for on battery formats a suspended
\* flash; that pass is left out.)
MountedFlashIsOn == fs = "mounted" /\ pass # "reset" => flash = "on"

\* A task whose API api() hands out has no pointer to a freed block: recycle,
\* sinit and the tasks' own frees agree with the statuses, at every level.
UpMeansAllocated ==
  \A t \in ptr \ Orphaning : IsUp(t) => t \in shold

\* No task's loop runs at a level its init has not run at: a level is left and
\* entered as a whole, however fast the supply changes in between.
LoopsAtItsOwnLevel ==
  pass = "loop" => \A t \in Tasks : lastInit[t] = klevel

\* Between leaving a level and entering the next one no task owns a block,
\* none is up, and the storage is at rest.
QuietBetweenLevels ==
  pass = "quiet" =>
    /\ shold = {} /\ fs # "mounted" /\ flash = "off"
    /\ \A t \in Tasks : lastInit[t] = "OFF" /\ status[t] = "DOWN"

\* The levels are kept apart: all of the above.
LevelsApart ==
  MountedFlashIsOn /\ UpMeansAllocated /\ LoopsAtItsOwnLevel /\ QuietBetweenLevels

\* A factory reset that was granted is carried out: no level change, supply
\* change or file operation takes it back.  Only the end of a key wake-up does:
\* power_alter(SUPPLY_BATTERY) writes over any status.
ResetNotLost ==
  [][power = "RESET" =>
       \/ power' = "RESET"
       \/ klevel' = "BOOT"
       \/ klevel = "WAKEUP" /\ pass = "loop" /\ taskId = Keyboard /\ wake = WakeTime]_vars

\* The wake-up level is entered from sleep only, and by a key: a key pressed in a
\* loop pass that still runs at the mains level, after a file operation has
\* already seen the power fail, must not become a wake-up.
WakeupFromSleepOnly ==
  [][klevel' = "WAKEUP" /\ klevel # "WAKEUP" => klevel = "SLEEP" /\ power = "WAKEUP"]_vars

\* What was asked of the power status is neither lost nor made up (power.c:220,
\* task_keyboard.c:50): both of the above.
PowerRequestsKept == ResetNotLost /\ WakeupFromSleepOnly

\* Once the supply stays, the tasks loop at the mains level again and again,
\* whatever level, pass or file operation the return of the power met.
RunResumes == <>[]supply => []<>(klevel = "RUN" /\ pass = "loop")

\* A wake-up comes to an end unless keys keep being pressed.
WakeupEnds ==
  []<><<KeyPress>>_vars \/ (klevel = "WAKEUP" ~> klevel # "WAKEUP")

\* A granted reset is acted upon: the processor restarts, unless the end of a
\* wake-up takes the request back.
ResetHonoured == power = "RESET" ~> power # "RESET"

\* What was asked of the power status comes to its end (task_keyboard.c:150,
\* kernel.c:148): both of the above.
PowerRequestsEnd == WakeupEnds /\ ResetHonoured

-----------------------------------------------------------------------------
\* The inductive invariant behind the safety properties, in four parts.

\* nothing is running that is not part of a pass
AtRest == pass = "quiet" \/ (pass = "main" /\ before = "BOOT")
Gone(t) == t \notin shold /\ lastInit[t] = "OFF" /\ status[t] = "DOWN"

PassInv ==
  /\ pass \in {"main", "quiet"} => taskId = NoTask
  /\ taskId \notin todo
  /\ pass \in {"loop", "main"} => klevel = before
  /\ pass \in {"loop", "exit"} => before # "BOOT"
  /\ pass \in {"init", "exit", "quiet"} => klevel \in RunLevels

StorageInv ==
  /\ MountedFlashIsOn
  /\ pass = "init" /\ klevel # "SLEEP" => flash = "on"
  /\ pass \in {"loop", "main", "exit"} /\ before \in {"RUN", "WAKEUP"} => flash = "on"
  /\ AtRest => fs # "mounted" /\ flash = "off"

TaskInv ==
  /\ pass \in {"loop", "main"} /\ before # "BOOT" => \A t \in Tasks : lastInit[t] = before
  /\ pass = "init" => \A t \in Tasks \ todo : t # taskId => lastInit[t] = klevel
  /\ pass = "exit" => \A t \in Tasks \ todo : t # taskId => Gone(t)
  /\ AtRest => \A t \in Tasks : Gone(t)

HeapInv ==
  /\ UpMeansAllocated
  /\ ptr \subseteq InitAlloc \cup LazyAlloc
  /\ \A t \in ptr \cap (LazyAlloc \ Orphaning) : status[t] = "INIT"

PowerInv ==
  /\ command \in {"AC", "BATTERY"} => power # "RESET"
  /\ power = "WAKEUP" => klevel \in {"SLEEP", "WAKEUP"}

IInv == TypeOK /\ PassInv /\ StorageInv /\ TaskInv /\ HeapInv /\ PowerInv
=============================================================================
