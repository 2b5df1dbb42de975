----------------------------- MODULE TaskProofs -----------------------------
(***************************************************************************)
(* Proofs about the scheduler (Kernel), and about the display task that it *)
(* runs (Display): the type correctness of each, an inductive invariant,   *)
(* and the safety properties that follow from it.                          *)
(***************************************************************************)
EXTENDS Kernel, Display, FiniteSetTheorems, WellFoundedInduction, TLAPS

USE DEF Passes, RunLevels, Levels

-----------------------------------------------------------------------------
\* A supply is never a wake-up or a reset request, and a power status is one of
\* the four of TypeOK.
LEMMA PowerStatusType ==
  ASSUME TypeOK
  PROVE  /\ Supply(supply) \in {"AC", "BATTERY"}
         /\ PowerStatus(power) \in {"AC", "BATTERY", "WAKEUP", "RESET"}
         /\ PowerStatus(power) = "WAKEUP" => power = "WAKEUP"
         /\ power = "RESET" => PowerStatus(power) = "RESET"
BY DEF TypeOK, PowerStatus, Supply

\* A processor reset establishes the invariant, whatever was interrupted.
LEMMA BootEstablishes ==
  ASSUME TypeOK, Boot, supply' \in BOOLEAN, stalls' \in 0..MaxStalls
  PROVE  IInv'
<1> USE TasksAssumption, SetsAssumption
<1>1. TypeOK' BY DEF Boot, TypeOK
<1>2. PassInv' BY DEF Boot, PassInv
<1>3. StorageInv' BY DEF Boot, StorageInv, MountedFlashIsOn, AtRest
<1>4. TaskInv' BY DEF Boot, TaskInv, AtRest, Gone
<1>5. HeapInv' BY DEF Boot, HeapInv, UpMeansAllocated
<1>6. PowerInv' BY DEF Boot, PowerInv
<1>7. QED BY <1>1, <1>2, <1>3, <1>4, <1>5, <1>6 DEF IInv

-----------------------------------------------------------------------------
\* Every step preserves the invariant: one case per action.
LEMMA NextStep == IInv /\ [Next]_vars => IInv'
<1> SUFFICES ASSUME IInv, [Next]_vars PROVE IInv'
  OBVIOUS
<1> USE TasksAssumption, SetsAssumption
    DEF powerVars, levelVars, passVars, taskVars, heapVars, diskVars,
        IInv, TypeOK, PassInv, StorageInv, MountedFlashIsOn, AtRest, Gone, TaskInv,
        HeapInv, UpMeansAllocated, IsUp, PowerInv
<1>a. ASSUME GetState
      PROVE  /\ power' \in {"AC", "BATTERY", "WAKEUP", "RESET"}
             /\ klevel' \in {"RUN", "SLEEP", "WAKEUP", "RESET"}
             /\ power' = "WAKEUP" <=> klevel' = "WAKEUP"
             /\ power' = "WAKEUP" => power = "WAKEUP"
             /\ power' = "RESET" <=> klevel' = "RESET"
             /\ power' = "RESET" => power = "RESET"
  BY <1>a DEF GetState, PowerStatus, Supply, LevelOf
<1>1. CASE LeaveLevel
  BY <1>1, <1>a DEF LeaveLevel, GetState
<1>2. CASE FirstLevel
  BY <1>2, <1>a DEF FirstLevel, GetState
<1>3. CASE StartReset
  BY <1>3, <1>a DEF StartReset, GetState, DiskFormat
<1>4. CASE LoopDue
  BY <1>4, <1>a DEF LoopDue, GetState
<1>5. CASE NotDue
  BY <1>5, <1>a DEF NotDue, GetState
<1>6. CASE ExitDone
  BY <1>6 DEF ExitDone, DiskIdle
<1>7. CASE InitStart
  BY <1>7 DEF InitStart, DiskStart, EmptyHeap
<1>8. CASE InitDone
  BY <1>8 DEF InitDone
<1>9. CASE LoopDone
  BY <1>9 DEF LoopDone
<1>10. CASE ResetDone
  BY <1>10, BootEstablishes DEF ResetDone
<1>11. CASE FinishInit
  BY <1>11 DEF FinishInit, Return
<1>12. CASE FinishLoop
  BY <1>12, PowerStatusType DEF FinishLoop, Return
<1>13. CASE FinishExit
  BY <1>13 DEF FinishExit, Quit, Return, Recycle
<1>14. CASE FinishReset
  BY <1>14 DEF FinishReset, Quit, Return, Recycle
<1>15. CASE DiskAccess
  <2>1. /\ fs' \in {"mounted", "unmounted", "error"}
        /\ power' \in {power, PowerStatus(power)}
        /\ fs' = "mounted" => fs \in {"mounted", "unmounted"}
    <3>1. PICK mount \in {"mounted", "error"}, ok \in BOOLEAN : FileOperation(mount, ok)
      BY <1>15 DEF DiskAccess
    <3>2. power' \in {power, PowerStatus(power)} BY <3>1 DEF FileOperation
    <3>3. fs' \in {"unmounted", fs} \/ (fs = "unmounted" /\ fs' = mount)
      BY <3>1 DEF FileOperation
    <3>4. QED BY <3>2, <3>3
  <2>2. /\ taskId # NoTask
        /\ \/ pass \in {"init", "loop"} /\ klevel \in {"RUN", "WAKEUP"}
           \/ pass = "exit" /\ before = "RUN"
           \/ pass = "reset"
        /\ UNCHANGED <<supply, command, levelVars, passVars, taskVars, heapVars, flash, stalls>>
    BY <1>15 DEF DiskAccess
  <2>3. TypeOK' BY <2>1, <2>2, PowerStatusType
  <2>4. PassInv' BY <2>2
  <2>5. StorageInv' BY <2>1, <2>2
  <2>6. TaskInv' BY <2>2
  <2>7. HeapInv' BY <2>2
  <2>8. PowerInv' BY <2>1, <2>2, PowerStatusType DEF PowerStatus, Supply
  <2>9. QED BY <2>3, <2>4, <2>5, <2>6, <2>7, <2>8
<1>16. CASE KeyPress
  BY <1>16 DEF KeyPress
<1>17. CASE SupplyChange
  BY <1>17 DEF SupplyChange
<1>18. CASE CommandLine
  BY <1>18 DEF CommandLine
<1>19. CASE CommandTest
  BY <1>19, PowerStatusType DEF CommandTest
<1>20. CASE CommandWrite
  BY <1>20 DEF CommandWrite
<1>21. CASE Watchdog
  BY <1>21, BootEstablishes DEF Watchdog
<1>22. ASSUME NEW t \in Tasks, Begin(t) PROVE IInv'
  BY <1>22 DEF Begin, IsNext
<1>23. ASSUME NEW t \in Tasks, Skip(t) PROVE IInv'
  BY <1>23 DEF Skip, IsNext
<1>24. ASSUME NEW u \in LazyAlloc, Salloc(u) PROVE IInv'
  BY <1>24 DEF Salloc
<1>25. ASSUME NEW u \in LazyAlloc, Free(u) PROVE IInv'
  BY <1>25 DEF Free
<1>26. CASE UNCHANGED vars
  BY <1>26 DEF vars
<1>27. QED
  BY <1>1, <1>2, <1>3, <1>4, <1>5, <1>6, <1>7, <1>8, <1>9, <1>10, <1>11, <1>12, <1>13, <1>14, <1>15, <1>16, <1>17, <1>18, <1>19, <1>20, <1>21, <1>22, <1>23, <1>24, <1>25, <1>26
     DEF Next, MainLoop, Body, Dispatch, Calls, Environment

\* IInv holds of every reachable state.
THEOREM Invariance == Spec => []IInv
<1>1. Init => IInv
  BY TasksAssumption, SetsAssumption
     DEF Init, IInv, TypeOK, PassInv, StorageInv, MountedFlashIsOn, AtRest, Gone, TaskInv,
         HeapInv, UpMeansAllocated, PowerInv
<1>2. QED BY <1>1, NextStep, PTL DEF Spec

\* Type correctness of the scheduler.
THEOREM TypeCorrect == Spec => []TypeOK
BY Invariance, PTL DEF IInv

\* The file system is mounted only over a flash driver that is up.
THEOREM MountedFlash == Spec => []MountedFlashIsOn
BY Invariance, PTL DEF IInv, StorageInv

\* The pointer of a task that api() hands out is never dangling.
THEOREM UpTasksAllocated == Spec => []UpMeansAllocated
BY Invariance, PTL DEF IInv, HeapInv

\* A loop pass only meets tasks initialised for its level.
THEOREM LoopLevel == Spec => []LoopsAtItsOwnLevel
<1>1. IInv => LoopsAtItsOwnLevel BY DEF IInv, PassInv, TaskInv, LoopsAtItsOwnLevel
<1>2. QED BY <1>1, Invariance, PTL

\* Nothing of a level is left when the next one is entered.
THEOREM Quiet == Spec => []QuietBetweenLevels
<1>1. IInv => QuietBetweenLevels
  BY DEF IInv, TypeOK, StorageInv, TaskInv, AtRest, Gone, QuietBetweenLevels
<1>2. QED BY <1>1, Invariance, PTL

\* The levels are kept apart: storage, blocks, statuses and loops are those of
\* one level at a time (kernel.c:92, tasks.c:117 to 293).
THEOREM LevelsStayApart == Spec => []LevelsApart
BY MountedFlash, UpTasksAllocated, LoopLevel, Quiet, PTL DEF LevelsApart

\* A granted factory reset is withdrawn by the end of a wake-up and nothing else.
THEOREM ResetKept == Spec => ResetNotLost
<1> DEFINE Kept == \/ power' = "RESET"
                   \/ klevel' = "BOOT"
                   \/ klevel = "WAKEUP" /\ pass = "loop" /\ taskId = Keyboard /\ wake = WakeTime
<1>1. ASSUME IInv, [Next]_vars, power = "RESET" PROVE Kept
  <2> USE <1>1 DEF powerVars, IInv, TypeOK, PowerInv
  <2>1. CASE MainLoop \/ NotDue
    <3>1. CASE GetState BY <3>1, PowerStatusType DEF GetState
    <3>2. CASE ResetDone BY <3>2 DEF ResetDone, Boot
    <3>3. CASE ExitDone \/ InitStart \/ InitDone \/ LoopDone
      BY <3>3 DEF ExitDone, InitStart, InitDone, LoopDone
    <3>4. QED BY <2>1, <3>1, <3>2, <3>3
      DEF MainLoop, NotDue, LeaveLevel, FirstLevel, StartReset, LoopDue
  <2>2. CASE Body
    <3>1. CASE FinishLoop BY <3>1, SetsAssumption DEF FinishLoop, Return
    <3>2. CASE FinishInit \/ FinishExit \/ FinishReset
      BY <3>2 DEF FinishInit, FinishExit, FinishReset, Quit
    <3>3. QED BY <2>2, <3>1, <3>2 DEF Body
  <2>3. CASE Dispatch BY <2>3 DEF Dispatch, Begin, Skip
  <2>4. CASE Calls
    <3>1. CASE DiskAccess BY <3>1, PowerStatusType DEF DiskAccess, FileOperation
    <3>2. CASE KeyPress BY <3>2 DEF KeyPress
    <3>3. ASSUME NEW u \in LazyAlloc, Salloc(u) \/ Free(u) PROVE Kept
      BY <3>3 DEF Salloc, Free
    <3>4. QED BY <2>4, <3>1, <3>2, <3>3 DEF Calls
  <2>5. CASE Environment
    BY <2>5 DEF Environment, SupplyChange, CommandLine, CommandTest, CommandWrite, Watchdog, Boot
  <2>6. CASE UNCHANGED vars BY <2>6 DEF vars
  <2>7. QED BY <2>1, <2>2, <2>3, <2>4, <2>5, <2>6 DEF Next
<1>2. QED BY <1>1, Invariance, PTL DEF Spec, ResetNotLost

\* The wake-up level is entered from sleep, on a wake-up request, and in no other way.
THEOREM WakeupEntry == Spec => WakeupFromSleepOnly
<1> DEFINE Entry == klevel' = "WAKEUP" /\ klevel # "WAKEUP" => klevel = "SLEEP" /\ power = "WAKEUP"
<1>1. ASSUME IInv, [Next]_vars PROVE Entry
  <2> USE <1>1 DEF levelVars, IInv, PowerInv
  <2>1. CASE GetState
    BY <2>1 DEF GetState, LevelOf, PowerStatus, Supply
  <2>2. CASE ~GetState
    <3>1. klevel' \in {klevel, "BOOT"}
      BY <2>2 DEF Next, MainLoop, NotDue, LeaveLevel, FirstLevel, StartReset, LoopDue, ExitDone,
        InitStart, InitDone, LoopDone, ResetDone, Body, FinishInit, FinishLoop, FinishExit,
        FinishReset, Quit, Return, Dispatch, Begin, Skip, Calls, DiskAccess, KeyPress, Salloc,
        Free, Environment, SupplyChange, CommandLine, CommandTest, CommandWrite, Watchdog, Boot, vars
    <3>2. QED BY <3>1
  <2>3. QED BY <2>1, <2>2
<1>2. QED BY <1>1, Invariance, PTL DEF Spec, WakeupFromSleepOnly

\* No request of the power status is lost or made up (power.c:203,
\* task_keyboard.c:50).
THEOREM RequestsAreKept == Spec => PowerRequestsKept
BY ResetKept, WakeupEntry DEF PowerRequestsKept

HIDE DEF Passes, RunLevels, Levels

-----------------------------------------------------------------------------
(* The display task.  Its handlers are functions of the view; each is shown to *)
(* leave the view right, and then each action to keep the invariant.           *)

\* no amount is kept beyond the end of the file
AmountsReached(f) ==
  \A c \in {Scrolling, Alternate} : f.amount[c] > 0 => Readable(f, AmountAt(c))

\* the item in view is the one the file has at its place
InView(v, f) ==
  ~v.missed =>
    /\ v.channel # Debug
    /\ v.amount = f.amount[v.channel]
    /\ v.index < v.amount
    /\ v.entry = f.entry[v.channel][v.index]

DisplayInv ==
  /\ DisplayTypeOK
  /\ AmountsReached(file)
  /\ level # "off" => InView(view, file)

USE DEF Scrolling, Alternate, Debug, Channels

\* The places of the file: the debug list lies outside of it.
LEMMA Sizes ==
  /\ ListMax \in Nat /\ ListMax > 1 /\ Byte = 2 * ListMax /\ Byte \in Nat
  /\ FileSize = 5 + 2 * ListMax
  /\ AmountAt(Scrolling) = 5 /\ AmountAt(Alternate) = 6 + ListMax
  /\ AmountAt(Debug) > FileSize
  /\ \A i \in Nat : EntryAt(Debug, i) > FileSize
BY DisplayAssumption DEF FileSize, AmountAt, EntryAt

\* A remainder stays below what it was divided by.
LEMMA Remainder == ASSUME NEW a \in Int, NEW m \in Nat \ {0} PROVE a % m \in 0 .. m - 1
OBVIOUS

\* A number below what it is divided by is its own remainder.
LEMMA SmallRemainder == ASSUME NEW m \in Nat \ {0}, NEW a \in 0 .. m - 1 PROVE a % m = a
OBVIOUS

\* What is computed in a byte stays in a byte.
LEMMA InByte == ASSUME NEW a \in Int PROVE a % Byte \in Bytes
<1>1. Byte \in Nat \ {0} BY Sizes
<1> QED BY <1>1, Remainder DEF Bytes

\* The fields of a view.
LEMMA ViewFields ==
  ASSUME NEW v \in Views
  PROVE  /\ v.channel \in Channels /\ v.last \in {Scrolling, Debug}
         /\ v.amount \in 0 .. ListMax /\ v.amount \in Nat
         /\ v.index \in 0 .. Byte - 1 /\ v.index \in Nat
         /\ v.entry \in Entries \cup {Straddling}
         /\ v.scroll \in Bytes /\ v.scroll \in Nat /\ v.start \in Bytes /\ v.start \in Nat
         /\ v.light \in Bytes /\ v.light \in Nat
         /\ v.time \in Times /\ v.time.start \in Bytes /\ v.time.scroll \in Bytes
         /\ v.time.light \in Bytes
         /\ v.record \in Nat /\ v.record <= 2 * Second /\ v.flush \in 0 .. Half
         /\ v.insert \in 0 .. Insertion
         /\ v.lit \in BOOLEAN /\ v.missed \in BOOLEAN
<1>1. Byte \in Nat /\ ListMax \in Nat /\ Second \in Nat /\ Half \in Nat /\ Insertion \in Nat
  BY Sizes, DisplayAssumption
<1>2. Bytes \subseteq Nat /\ Bytes = 0 .. Byte - 1 BY <1>1 DEF Bytes
<1>3. /\ v.channel \in Channels /\ v.last \in {Scrolling, Debug}
      /\ v.amount \in 0 .. ListMax /\ v.index \in Bytes
      /\ v.entry \in Entries \cup {Straddling}
      /\ v.scroll \in Bytes /\ v.start \in Bytes
      /\ v.light \in Bytes
      /\ v.time \in Times
      /\ v.record \in 0 .. 2 * Second /\ v.flush \in 0 .. Half
      /\ v.insert \in 0 .. Insertion
      /\ v.lit \in BOOLEAN /\ v.missed \in BOOLEAN
  BY DEF Views
<1>4. v.time.start \in Bytes /\ v.time.scroll \in Bytes /\ v.time.light \in Bytes
  BY <1>3 DEF Times
<1> QED BY <1>1, <1>2, <1>3, <1>4

\* The fields of a file.
LEMMA FileFields ==
  ASSUME NEW f \in Files
  PROVE  /\ f.length \in Nat /\ f.length <= FileSize /\ f.time \in Times
         /\ \A c \in {Scrolling, Alternate} :
              /\ f.amount[c] \in 0 .. ListMax
              /\ \A i \in 0 .. ListMax - 1 : f.entry[c][i] \in Entries
BY Sizes DEF Files

\* what a handler starts from and what it leaves
Right(v) == v \in Views /\ InView(v, file)

\* a place is in view; its item need not be read yet
Placed(v) ==
  /\ v \in Views
  /\ ~v.missed => /\ v.channel # Debug
                  /\ v.amount = file.amount[v.channel]
                  /\ v.index < v.amount

\* Once an item is read, the view shows it or is marked; the debug list, which lies
\* outside the file, is never read.
LEMMA ShownIsRight ==
  ASSUME DisplayTypeOK, NEW v, NEW bad, Placed(v)
  PROVE  Right(Shown(v, bad))
<1> DEFINE found == "entry" \notin bad /\ Readable(file, EntryAt(v.channel, v.index))
           lights == v.channel = Alternate /\ level = "RUN"
           light == IF lights THEN v.time.light ELSE v.light
           lit == v.lit \/ lights
           entry == IF found THEN EntryIn(file, v.channel, v.index) ELSE v.entry
           missed == v.missed \/ ~found
           w == [v EXCEPT !.scroll = 0, !.light = light, !.lit = lit, !.entry = entry,
                          !.missed = missed]
<1>1. v \in Views /\ file \in Files BY DEF Placed, DisplayTypeOK
<1>2. found => v.channel # Debug
  <2>1. v.index \in Nat /\ file.length \in Nat /\ file.length <= FileSize
    BY <1>1, ViewFields, FileFields
  <2>2. EntryAt(Debug, v.index) > FileSize /\ FileSize \in Nat BY <2>1, Sizes
  <2>3. ~Readable(file, EntryAt(Debug, v.index)) BY <2>1, <2>2, Sizes DEF Readable, EntryAt, AmountAt
  <2> QED BY <2>3
<1>3. entry \in Entries \cup {Straddling}
  <2>1. CASE ~found BY <1>1, <2>1, ViewFields
  <2>2. CASE found
    <3>1. v.channel \in {Scrolling, Alternate} BY <1>1, <1>2, <2>2, ViewFields
    <3>2. EntryIn(file, v.channel, v.index) \in Entries \cup {Straddling}
      BY <1>1, <3>1, ViewFields, FileFields, Sizes DEF EntryIn
    <3> QED BY <2>2, <3>2
  <2> QED BY <2>1, <2>2
<1>4. light \in Bytes /\ 0 \in Bytes BY <1>1, ViewFields, Sizes DEF Bytes
<1>5. lit \in BOOLEAN /\ missed \in BOOLEAN OBVIOUS
<1>6. Shown(v, bad) = w BY DEF Shown
<1>7. /\ missed => TRUE
      /\ ~missed => /\ v.channel # Debug
                    /\ v.amount = file.amount[v.channel]
                    /\ v.index < v.amount
                    /\ entry = file.entry[v.channel][v.index]
  <2> SUFFICES ASSUME ~missed
               PROVE  /\ v.channel # Debug /\ v.amount = file.amount[v.channel]
                      /\ v.index < v.amount
                      /\ EntryIn(file, v.channel, v.index) = file.entry[v.channel][v.index]
    OBVIOUS
  <2>1. v.channel # Debug /\ v.amount = file.amount[v.channel] /\ v.index < v.amount
    BY DEF Placed
  <2>2. v.index < ListMax BY <1>1, <2>1, ViewFields, Sizes
  <2> QED BY <2>1, <2>2 DEF EntryIn
<1> HIDE DEF light, lit, entry, missed
<1>8. w \in Views BY <1>1, <1>3, <1>4, <1>5 DEF Views
<1>9. /\ w.missed = missed /\ w.channel = v.channel
      /\ w.amount = v.amount /\ w.index = v.index /\ w.entry = entry
  BY <1>1 DEF Views
<1>10. InView(w, file) BY <1>7, <1>9 DEF InView
<1> QED BY <1>6, <1>8, <1>10 DEF Right

\* Any place within the list can be shown.
LEMMA IndexShown ==
  ASSUME DisplayTypeOK, NEW v \in Views, NEW i \in Bytes, NEW bad,
         ~v.missed => /\ v.channel # Debug
                      /\ v.amount = file.amount[v.channel]
                      /\ i < v.amount
  PROVE  Right(Shown([v EXCEPT !.index = i], bad))
<1>1. Placed([v EXCEPT !.index = i]) BY DEF Placed, Views
<1> QED BY <1>1, ShownIsRight

\* The next item, wrapping at the byte and at the end of the list.
LEMMA NextIsRight ==
  ASSUME DisplayTypeOK, NEW v, Right(v), NEW bad
  PROVE  Right(ShowNext(v, bad))
<1> DEFINE next == (v.index + 1) % Byte
           i == IF next >= v.amount THEN 0 ELSE next
<1>1. v \in Views /\ v.index \in Nat /\ v.amount \in Nat BY ViewFields DEF Right
<1>2. next \in Bytes /\ v.index + 1 \in Int
  <2>1. v.index + 1 \in Int BY <1>1
  <2> QED BY <2>1, InByte
<1>3. i \in Bytes /\ (v.amount > 0 => i < v.amount) BY <1>1, <1>2, Sizes DEF Bytes
<1>4. ~v.missed => v.channel # Debug /\ v.amount = file.amount[v.channel] /\ v.amount > 0
  BY <1>1 DEF Right, InView
<1>5. ShowNext(v, bad) = Shown([v EXCEPT !.index = i], bad) BY DEF ShowNext
<1> QED BY <1>1, <1>3, <1>4, <1>5, IndexShown

\* The item before, wrapping at the start of the list.
LEMMA LastIsRight ==
  ASSUME DisplayTypeOK, NEW v, Right(v), NEW bad
  PROVE  Right(ShowLast(v, bad))
<1> DEFINE i == (IF v.index > 0 THEN v.index - 1 ELSE v.amount - 1) % Byte
<1>1. v \in Views /\ v.index \in Nat /\ v.amount \in Nat /\ v.amount <= ListMax
  BY ViewFields, Sizes DEF Right
<1>2. i \in Bytes
  <2> DEFINE j == IF v.index > 0 THEN v.index - 1 ELSE v.amount - 1
  <2>1. j \in Int BY <1>1
  <2> HIDE DEF j
  <2>2. j % Byte \in Bytes BY <2>1, InByte
  <2> QED BY <2>2 DEF j
<1>3. ~v.missed => /\ v.channel # Debug /\ v.amount = file.amount[v.channel]
                   /\ v.index < v.amount
  BY <1>1 DEF Right, InView
<1>4. v.index < v.amount => i < v.amount
  <2> DEFINE j == IF v.index > 0 THEN v.index - 1 ELSE v.amount - 1
  <2> SUFFICES ASSUME v.index < v.amount PROVE i < v.amount OBVIOUS
  <2>1. j \in 0 .. Byte - 1 /\ j < v.amount BY <1>1, Sizes
  <2>2. j % Byte = j
    <3>1. Byte \in Nat \ {0} BY Sizes
    <3> HIDE DEF j
    <3> QED BY <2>1, <3>1, SmallRemainder
  <2> QED BY <2>1, <2>2
<1>5. ShowLast(v, bad) = Shown([v EXCEPT !.index = i], bad) BY <1>1 DEF ShowLast, Views
<1> QED BY <1>1, <1>2, <1>3, <1>4, <1>5, IndexShown

\* A place past the list is ignored.
LEMMA IndexIsRight ==
  ASSUME DisplayTypeOK, NEW v, Right(v), NEW i \in Bytes, NEW bad
  PROVE  Right(ShowIndex(v, i, bad))
<1>1. v \in Views /\ i \in Nat /\ v.amount \in Nat BY DEF Right, Views, Bytes
<1>2. CASE i >= v.amount BY <1>2 DEF ShowIndex
<1>3. CASE i < v.amount
  <2>1. ~v.missed => v.channel # Debug /\ v.amount = file.amount[v.channel]
    BY DEF Right, InView
  <2>2. ShowIndex(v, i, bad) = Shown([v EXCEPT !.index = i], bad) BY <1>1, <1>3 DEF ShowIndex
  <2> QED BY <1>1, <1>3, <2>1, <2>2, IndexShown
<1> QED BY <1>1, <1>2, <1>3

\* A change of list shows its first item, or marks the view.
LEMMA ChangeIsRight ==
  ASSUME DisplayTypeOK, NEW v \in Views, NEW c \in Channels, NEW bad
  PROVE  Right(Change(v, c, bad))
<1> DEFINE found == "amount" \notin bad /\ Readable(file, AmountAt(c))
           n == IF found THEN file.amount[c] ELSE v.amount
           moved == [v EXCEPT !.last = Leaving(v),
                         !.channel = c, !.amount = n, !.scroll = 0, !.index = 0,
                         !.missed = ~found \/ n = 0]
<1>1. file \in Files BY DEF DisplayTypeOK
<1>2. found => c # Debug
  <2>1. ~Readable(file, AmountAt(Debug)) BY <1>1, FileFields, Sizes DEF Readable, AmountAt
  <2> QED BY <2>1
<1>3. n \in 0 .. ListMax BY <1>1, <1>2, FileFields, ViewFields
<1>4. Leaving(v) \in {Scrolling, Debug} BY DEF Leaving, Views
<1>5. 0 \in Bytes BY Sizes DEF Bytes
<1>6. moved \in Views BY <1>3, <1>4, <1>5 DEF Views
<1>7. /\ moved.channel = c /\ moved.amount = n /\ moved.missed = (~found \/ n = 0)
      /\ moved.index = 0
  BY DEF Views
<1>8. Change(v, c, bad) = ShowIndex(moved, 0, bad) BY DEF Change
<1> HIDE DEF moved, n, found
<1>9. CASE n = 0
  <2>1. ShowIndex(moved, 0, bad) = moved BY <1>7, <1>9 DEF ShowIndex
  <2> QED BY <1>6, <1>7, <1>8, <1>9, <2>1 DEF Right, InView
<1>10. CASE n # 0
  <2>1. ShowIndex(moved, 0, bad) = Shown([moved EXCEPT !.index = 0], bad)
    BY <1>3, <1>7, <1>10, Sizes DEF ShowIndex
  <2>2. ~moved.missed => moved.channel # Debug /\ moved.amount = file.amount[moved.channel]
    BY <1>2, <1>7 DEF n
  <2> QED BY <1>3, <1>5, <1>6, <1>7, <1>8, <1>10, <2>1, <2>2, IndexShown
<1> QED BY <1>9, <1>10

\* A handler that touches nothing of the item in view leaves it right.
LEMMA SameItem ==
  ASSUME NEW v, Right(v), NEW w \in Views,
         w.missed = v.missed, w.channel = v.channel, w.amount = v.amount,
         w.index = v.index, w.entry = v.entry
  PROVE  Right(w)
BY DEF Right, InView

\* Counting half-seconds leaves the item in view.
LEMMA CountedIsRight ==
  ASSUME NEW v, Right(v)
  PROVE  Right(Counted(v))
<1> DEFINE flush == IF v.start >= v.time.start /\ v.flush < Half THEN v.flush + 1 ELSE v.flush
           lit == v.lit /\ level = "RUN"
           light == IF v.lit /\ level # "RUN" THEN 0 ELSE v.light
           w == [v EXCEPT !.flush = flush, !.lit = lit, !.light = light]
<1>1. v \in Views BY DEF Right
<1>2. flush \in 0 .. Half BY <1>1, ViewFields, DisplayAssumption
<1>3. lit \in BOOLEAN OBVIOUS
<1>4. light \in Bytes BY <1>1, ViewFields, Sizes DEF Bytes
<1>5. Counted(v) = w BY <1>1 DEF Counted, Views
<1> HIDE DEF flush, lit, light
<1>6. w \in Views BY <1>1, <1>2, <1>3, <1>4 DEF Views
<1>7. /\ w.missed = v.missed /\ w.channel = v.channel /\ w.amount = v.amount
      /\ w.index = v.index /\ w.entry = v.entry
  BY <1>1 DEF Views
<1> QED BY <1>5, <1>6, <1>7, SameItem

\* A message in view leaves the item behind it.
LEMMA InsertedIsRight ==
  ASSUME NEW v, Right(v), v.insert > 0
  PROVE  Right(Inserted(v))
<1> DEFINE lit == v.lit \/ level = "RUN"
           insert == v.insert - 1
           record == IF v.insert = 1 THEN 2 * Second ELSE v.record
           w == [v EXCEPT !.lit = lit, !.insert = insert, !.record = record]
<1>1. v \in Views BY DEF Right
<1>2. lit \in BOOLEAN OBVIOUS
<1>3. insert \in 0 .. Insertion BY <1>1, ViewFields, DisplayAssumption
<1>4. record \in 0 .. 2 * Second BY <1>1, ViewFields, DisplayAssumption
<1>5. Inserted(v) = w BY DEF Inserted
<1> HIDE DEF lit, insert, record
<1>6. w \in Views BY <1>1, <1>2, <1>3, <1>4 DEF Views
<1>7. /\ w.missed = v.missed /\ w.channel = v.channel /\ w.amount = v.amount
      /\ w.index = v.index /\ w.entry = v.entry
  BY <1>1 DEF Views
<1> QED BY <1>5, <1>6, <1>7, SameItem

\* Counting the light down leaves the item in view.
LEMMA DimmedIsRight ==
  ASSUME NEW v, Right(v)
  PROVE  Right(Dimmed(v))
<1> DEFINE light == IF v.light > 0 THEN v.light - 1 ELSE 0
           lit == v.lit /\ v.light # 1
           w == [v EXCEPT !.light = light, !.lit = lit]
<1>1. v \in Views BY DEF Right
<1>2. light \in Bytes BY <1>1, ViewFields, Sizes DEF Bytes
<1>3. lit \in BOOLEAN OBVIOUS
<1>4. Dimmed(v) = w BY DEF Dimmed
<1> HIDE DEF lit, light
<1>5. w \in Views BY <1>1, <1>2, <1>3 DEF Views
<1>6. /\ w.missed = v.missed /\ w.channel = v.channel /\ w.amount = v.amount
      /\ w.index = v.index /\ w.entry = v.entry
  BY <1>1 DEF Views
<1> QED BY <1>4, <1>5, <1>6, SameItem

\* Counting the seconds of the scroll time.
LEMMA TickIsRight ==
  ASSUME NEW v, Right(v)
  PROVE  Right([v EXCEPT !.scroll = (@ + 1) % Byte])
<1> DEFINE scroll == (v.scroll + 1) % Byte
           w == [v EXCEPT !.scroll = scroll]
<1>1. v \in Views /\ v.scroll + 1 \in Int BY ViewFields DEF Right
<1>2. scroll \in Bytes BY <1>1, InByte
<1> HIDE DEF scroll
<1>3. w \in Views BY <1>1, <1>2 DEF Views
<1>4. /\ w.missed = v.missed /\ w.channel = v.channel /\ w.amount = v.amount
      /\ w.index = v.index /\ w.entry = v.entry
  BY <1>1 DEF Views
<1>5. Right(w) BY <1>3, <1>4, SameItem
<1> QED BY <1>5 DEF scroll

\* The picture at the start, whose time the key list sets too.
LEMMA StartedIsRight ==
  ASSUME NEW v, Right(v), NEW t \in Bytes
  PROVE  Right([v EXCEPT !.start = t])
<1> DEFINE w == [v EXCEPT !.start = t]
<1>1. v \in Views BY DEF Right
<1>2. w \in Views BY <1>1 DEF Views
<1>3. /\ w.missed = v.missed /\ w.channel = v.channel /\ w.amount = v.amount
      /\ w.index = v.index /\ w.entry = v.entry
  BY <1>1 DEF Views
<1> QED BY <1>2, <1>3, SameItem

\* The scroll list, through the start-up picture and from item to item.
LEMMA ScrolledIsRight ==
  ASSUME DisplayTypeOK, NEW v, Right(v), NEW bad
  PROVE  Right(Scrolled(v, bad))
<1> DEFINE started == [v EXCEPT !.start = v.start + 1]
           counted == [v EXCEPT !.scroll = (@ + 1) % Byte]
<1>1. v \in Views BY DEF Right
<1>2. CASE v.start < v.time.start
  <2>1. v.start + 1 \in Bytes BY <1>1, <1>2, ViewFields, Sizes DEF Bytes
  <2>2. Right(started) BY <2>1, StartedIsRight
  <2>3. v.index \in Bytes BY <1>1 DEF Views
  <2>4. Right(ShowIndex(started, v.index, bad)) BY <2>2, <2>3, IndexIsRight
  <2>5. Scrolled(v, bad) \in {started, ShowIndex(started, v.index, bad)}
    BY <1>2 DEF Scrolled
  <2> QED BY <2>2, <2>4, <2>5
<1>3. CASE ~(v.start < v.time.start)
  <2>1. Right(counted) BY TickIsRight
  <2>2. Right(ShowNext(counted, bad)) BY <2>1, NextIsRight
  <2>3. Scrolled(v, bad) \in {counted, ShowNext(counted, bad)} BY <1>3 DEF Scrolled
  <2> QED BY <2>1, <2>2, <2>3
<1> QED BY <1>2, <1>3

\* The key list, and its way back.
LEMMA AlternatedIsRight ==
  ASSUME DisplayTypeOK, NEW v, Right(v), NEW bad
  PROVE  Right(Alternated(v, bad))
<1> DEFINE counted == [v EXCEPT !.scroll = (@ + 1) % Byte]
           back == IF ScrollIsDue(counted) THEN Change(counted, v.last, bad) ELSE counted
<1>1. Right(counted) /\ counted \in Views BY TickIsRight DEF Right
<1>2. v.last \in Channels BY ViewFields DEF Right
<1>3. Right(Change(counted, v.last, bad)) BY <1>1, <1>2, ChangeIsRight
<1>4. Right(back) BY <1>1, <1>3
<1>5. Alternated(v, bad) = [back EXCEPT !.start = (back.time.start + 1) % Byte]
  BY DEF Alternated
<1> HIDE DEF back
<1>6. back.time.start + 1 \in Int BY <1>4, ViewFields, Sizes DEF Right, Bytes
<1>7. (back.time.start + 1) % Byte \in Bytes BY <1>6, InByte
<1> QED BY <1>4, <1>5, <1>7, StartedIsRight

\* The place is taken back only when it lies past the list: never that of an item
\* that is read.
LEMMA FlushedIsRight ==
  ASSUME NEW v, Right(v)
  PROVE  Right(Flushed(v))
<1> DEFINE index == IF v.index >= v.amount THEN 0 ELSE v.index
           w == [v EXCEPT !.flush = 0, !.index = index]
<1>1. v \in Views BY DEF Right
<1>2. CASE v.flush < Half BY <1>2 DEF Flushed
<1>3. CASE ~(v.flush < Half)
  <2>1. index \in Bytes /\ 0 \in 0 .. Half BY <1>1, ViewFields, Sizes, DisplayAssumption DEF Bytes
  <2>2. ~v.missed => index = v.index BY <1>1, ViewFields DEF Right, InView
  <2>3. Flushed(v) = w BY <1>1, <1>3 DEF Flushed, Views
  <2> HIDE DEF index
  <2>4. w \in Views BY <1>1, <2>1 DEF Views
  <2>5. /\ w.missed = v.missed /\ w.channel = v.channel /\ w.amount = v.amount
        /\ w.index = index /\ w.entry = v.entry
    BY <1>1 DEF Views
  <2> QED BY <2>2, <2>3, <2>4, <2>5 DEF Right, InView
<1> QED BY <1>2, <1>3

\* display_loop() leaves in view what the list holds.
LEMMA LoopedIsRight ==
  ASSUME DisplayTypeOK, NEW v, Right(v), NEW bad
  PROVE  Right(Looped(v, bad))
<1> DEFINE counted == Counted(v)
           record == counted.record + 1
           ticked == [counted EXCEPT !.record = record]
           over == [ticked EXCEPT !.record = 0, !.flush = 0]
<1>1. Right(counted) BY CountedIsRight
<1>2. CASE v.insert > 0
  <2>1. counted.insert = v.insert BY DEF Counted, Right, Views
  <2>2. Right(Inserted(counted)) BY <1>1, <1>2, <2>1, InsertedIsRight
  <2> QED BY <1>2, <2>2 DEF Looped
<1>3. CASE ~(v.insert > 0)
  <2> HIDE DEF counted
  <2>1. counted \in Views /\ counted.record \in Nat BY <1>1, ViewFields DEF Right
  <2>2. ticked.record = record BY <2>1 DEF Views
  <2>3. CASE record >= Second
    <3>1. over = [counted EXCEPT !.record = 0, !.flush = 0] BY <2>1 DEF Views
    <3>2. 0 \in 0 .. 2 * Second /\ 0 \in 0 .. Half BY DisplayAssumption
    <3>3. over \in Views BY <2>1, <3>1, <3>2 DEF Views
    <3>4. /\ over.missed = counted.missed /\ over.channel = counted.channel
          /\ over.amount = counted.amount /\ over.index = counted.index
          /\ over.entry = counted.entry
      BY <2>1, <3>1 DEF Views
    <3>5. Right(over) BY <1>1, <3>3, <3>4, SameItem
    <3> HIDE DEF over
    <3>6. Right(Dimmed(over)) BY <3>5, DimmedIsRight
    <3>7. Right(Alternated(Dimmed(over), bad)) /\ Right(Scrolled(Dimmed(over), bad))
      BY <3>6, AlternatedIsRight, ScrolledIsRight
    <3>8. SecondOver(ticked, bad) \in {Alternated(Dimmed(over), bad), Scrolled(Dimmed(over), bad)}
      BY DEF SecondOver, over
    <3>9. Looped(v, bad) = SecondOver(ticked, bad) BY <1>3, <2>2, <2>3 DEF Looped, counted
    <3> QED BY <3>7, <3>8, <3>9
  <2>4. CASE ~(record >= Second)
    <3>1. record \in 0 .. 2 * Second BY <2>1, <2>4, DisplayAssumption
    <3>2. ticked \in Views BY <2>1, <3>1 DEF Views
    <3>3. /\ ticked.missed = counted.missed /\ ticked.channel = counted.channel
          /\ ticked.amount = counted.amount /\ ticked.index = counted.index
          /\ ticked.entry = counted.entry
      BY <2>1 DEF Views
    <3>4. Right(ticked) BY <1>1, <3>2, <3>3, SameItem
    <3>5. Looped(v, bad) = Flushed(ticked) BY <1>3, <2>2, <2>4 DEF Looped, counted
    <3> HIDE DEF ticked
    <3> QED BY <3>4, <3>5, FlushedIsRight
  <2> QED BY <2>3, <2>4
<1> QED BY <1>2, <1>3

-----------------------------------------------------------------------------
\* what the file keeps to
Good(f) == f \in Files /\ AmountsReached(f)

\* A write within the file only lengthens it.
LEMMA Reached ==
  ASSUME NEW f \in Files, NEW place \in 0 .. FileSize
  PROVE  LET g == Reaching(f, place)
         IN  /\ g \in Files /\ g.time = f.time /\ g.amount = f.amount /\ g.entry = f.entry
             /\ g.length >= f.length /\ g.length >= place
<1> DEFINE length == IF f.length < place THEN place ELSE f.length
           g == [f EXCEPT !.length = length]
<1>1. FileSize \in Nat /\ f.length \in 0 .. FileSize BY FileFields, Sizes
<1>2. length \in 0 .. FileSize /\ length >= f.length /\ length >= place BY <1>1
<1>3. Reaching(f, place) = g BY DEF Reaching
<1> HIDE DEF length
<1>4. g \in Files BY <1>2 DEF Files
<1>5. g.length = length /\ g.time = f.time /\ g.amount = f.amount /\ g.entry = f.entry
  BY DEF Files
<1> QED BY <1>2, <1>3, <1>4, <1>5

\* A file that only reaches further is as good.
LEMMA ReachedIsGood ==
  ASSUME NEW f, NEW g, Good(f), g \in Files, g.amount = f.amount, g.length >= f.length
  PROVE  Good(g)
<1>1. f \in Files /\ f.length \in Nat /\ g.length \in Nat BY FileFields DEF Good
<1>2. AmountAt(Scrolling) \in Nat /\ AmountAt(Alternate) \in Nat BY Sizes
<1> QED BY <1>1, <1>2 DEF Good, AmountsReached, Readable

\* An amount is written and reached.
LEMMA AmountIsGood ==
  ASSUME NEW f, Good(f), NEW c \in {Scrolling, Alternate}, NEW n \in 0 .. ListMax
  PROVE  LET g == Reaching([f EXCEPT !.amount[c] = n], AmountAt(c))
         IN  /\ Good(g) /\ g.entry = f.entry /\ g.time = f.time
             /\ g.amount = [f.amount EXCEPT ![c] = n] /\ g.length >= f.length
<1> DEFINE amount == [f.amount EXCEPT ![c] = n]
           h == [f EXCEPT !.amount = amount]
           g == Reaching(h, AmountAt(c))
<1>1. f \in Files /\ f.length \in Nat /\ f.amount \in [{Scrolling, Alternate} -> 0 .. ListMax]
  BY FileFields DEF Good, Files
<1>2. amount \in [{Scrolling, Alternate} -> 0 .. ListMax] BY <1>1
<1>3. [f EXCEPT !.amount[c] = n] = h BY <1>1 DEF Files
<1> HIDE DEF amount
<1>4. h \in Files /\ h.amount = amount /\ h.entry = f.entry /\ h.length = f.length /\ h.time = f.time
  BY <1>1, <1>2 DEF Files
<1>5. AmountAt(c) \in 0 .. FileSize BY Sizes
<1> HIDE DEF h
<1>6. /\ g \in Files /\ g.amount = amount /\ g.entry = f.entry /\ g.time = f.time
      /\ g.length >= f.length /\ g.length >= AmountAt(c)
  BY <1>4, <1>5, Reached
<1>7. AmountsReached(g)
  <2> SUFFICES ASSUME NEW d \in {Scrolling, Alternate}, g.amount[d] > 0
               PROVE  AmountAt(d) <= g.length
    BY DEF AmountsReached, Readable
  <2>1. CASE d = c BY <1>6, <2>1
  <2>2. CASE d # c
    <3>1. f.amount[d] > 0 BY <1>1, <1>6, <2>2 DEF amount
    <3>2. AmountAt(d) <= f.length BY <3>1 DEF Good, AmountsReached, Readable
    <3>3. AmountAt(d) \in Nat /\ g.length \in Nat BY <1>6, FileFields, Sizes
    <3> QED BY <1>1, <1>6, <3>2, <3>3
  <2> QED BY <2>1, <2>2
<1> QED BY <1>3, <1>6, <1>7 DEF Good, amount

\* An amount that is read is one of a list; that of the debug list reads as none.
LEMMA AmountOfType ==
  ASSUME NEW f \in Files, NEW c \in Channels, NEW bad
  PROVE  /\ AmountOf(f, c, bad) \in 0 .. ListMax
         /\ AmountOf(f, c, bad) # 0 => c # Debug
<1>1. ~Readable(f, AmountAt(Debug)) BY FileFields, Sizes DEF Readable, AmountAt
<1>2. c # Debug => f.amount[c] \in 0 .. ListMax BY FileFields
<1> QED BY <1>1, <1>2, Sizes DEF AmountOf

\* Writing an amount leaves the items and the other list's amount.
LEMMA AmountWrittenIsGood ==
  ASSUME NEW f, Good(f), NEW c \in Channels, NEW n \in 0 .. ListMax, NEW bad
  PROVE  LET g == AmountWritten(f, c, n, bad)
         IN  /\ Good(g) /\ g.entry = f.entry
             /\ \A d \in {Scrolling, Alternate} \ {c} : g.amount[d] = f.amount[d]
<1>1. CASE c = Debug
  <2>1. ~Writable(AmountAt(c)) BY <1>1, Sizes DEF Writable, AmountAt
  <2> QED BY <2>1 DEF AmountWritten
<1>2. CASE c \in {Scrolling, Alternate}
  <2> DEFINE g == Reaching([f EXCEPT !.amount[c] = n], AmountAt(c))
  <2>1. Good(g) /\ g.entry = f.entry /\ g.amount = [f.amount EXCEPT ![c] = n]
    BY <1>2, AmountIsGood
  <2>2. f.amount \in [{Scrolling, Alternate} -> 0 .. ListMax] BY DEF Good, Files
  <2>3. AmountWritten(f, c, n, bad) \in {f, g} BY DEF AmountWritten
  <2> HIDE DEF g
  <2>4. \A d \in {Scrolling, Alternate} \ {c} : g.amount[d] = f.amount[d]
    BY <2>1, <2>2
  <2> QED BY <2>1, <2>3, <2>4
<1> QED BY <1>1, <1>2

\* what an item written to a list of n items changes: its own place, and the amount
Appending(f, g, c, n, written) ==
  /\ Good(g)
  /\ Full(n) \/ c = Debug => g = f
  /\ \A d \in {Scrolling, Alternate} \ {c} :
       g.amount[d] = f.amount[d] /\ g.entry[d] = f.entry[d]
  /\ c # Debug => \A i \in 0 .. ListMax - 1 : i # n => g.entry[c][i] = f.entry[c][i]
  /\ c # Debug /\ ~Full(n) /\ written => g.amount[c] = n + 1

\* display_config_list_write() changes what Appending says and nothing else,
\* whichever of its operations fail.
LEMMA ListWrittenIsGood ==
  ASSUME NEW f, Good(f), NEW c \in Channels, NEW item \in Entries, NEW bad
  PROVE  Appending(f, ListWritten(f, c, item, bad), c, AmountOf(f, c, bad), "write" \notin bad)
<1> DEFINE n == AmountOf(f, c, bad)
           g == ListWritten(f, c, item, bad)
<1>1. f \in Files /\ f.amount \in [{Scrolling, Alternate} -> 0 .. ListMax]
      /\ f.entry \in [{Scrolling, Alternate} -> [0 .. ListMax - 1 -> Entries]]
      /\ f.length \in Nat
  BY FileFields DEF Good, Files
<1>2. n \in 0 .. ListMax BY <1>1, AmountOfType
<1>3. CASE Full(n) BY <1>3, Sizes, <1>2 DEF ListWritten, Full, Appending
<1>4. CASE c = Debug
  <2>1. n = 0 BY <1>1, <1>4, AmountOfType
  <2>2. ~Writable(EntryAt(c, n)) /\ ~Writable(AmountAt(c)) /\ ~Full(n)
    BY <1>4, <2>1, Sizes DEF Writable, EntryAt, AmountAt, Full
  <2>3. g = f BY <2>2 DEF ListWritten
  <2> QED BY <1>4, <2>2, <2>3 DEF Appending
<1>5. CASE ~Full(n) /\ c \in {Scrolling, Alternate}
  <2> DEFINE entry == [f.entry EXCEPT ![c] = [f.entry[c] EXCEPT ![n] = item]]
             h == [f EXCEPT !.entry = entry]
             r == Reaching(h, EntryAt(c, n))
             w == IF "item" \in bad \/ ~Writable(EntryAt(c, n)) THEN f ELSE r
  <2>1. n \in 0 .. ListMax - 1 BY <1>2, <1>5, Sizes DEF Full
  <2>2. /\ entry \in [{Scrolling, Alternate} -> [0 .. ListMax - 1 -> Entries]]
        /\ \A d \in {Scrolling, Alternate} \ {c} : entry[d] = f.entry[d]
        /\ \A i \in 0 .. ListMax - 1 : i # n => entry[c][i] = f.entry[c][i]
    BY <1>1, <1>5, <2>1
  <2>3. [f EXCEPT !.entry[c][n] = item] = h BY <1>1, <1>5 DEF Files
  <2> HIDE DEF n, entry
  <2>4. h \in Files /\ h.entry = entry /\ h.amount = f.amount /\ h.length = f.length
    BY <1>1, <2>2 DEF Files
  <2>5. EntryAt(c, n) \in Nat BY <1>5, <2>1, Sizes DEF EntryAt
  <2> HIDE DEF h
  <2>6. Writable(EntryAt(c, n)) => Good(r) /\ r.entry = entry /\ r.amount = f.amount
    <3> SUFFICES ASSUME Writable(EntryAt(c, n))
                 PROVE  Good(r) /\ r.entry = entry /\ r.amount = f.amount
      OBVIOUS
    <3>1. EntryAt(c, n) \in 0 .. FileSize BY <2>5, Sizes DEF Writable
    <3>2. r \in Files /\ r.entry = entry /\ r.amount = f.amount /\ r.length >= f.length
      BY <2>4, <3>1, Reached
    <3> QED BY <3>2, ReachedIsGood
  <2>7. /\ Good(w) /\ w.amount = f.amount
        /\ \A d \in {Scrolling, Alternate} \ {c} : w.entry[d] = f.entry[d]
        /\ \A i \in 0 .. ListMax - 1 : i # n => w.entry[c][i] = f.entry[c][i]
    <3> HIDE DEF r
    <3> QED BY <2>2, <2>6
  <2> DEFINE a == Reaching([w EXCEPT !.amount[c] = n + 1], AmountAt(c))
  <2>8. n + 1 \in 0 .. ListMax BY <2>1, Sizes
  <2>9. Good(a) /\ a.entry = w.entry /\ a.amount = [f.amount EXCEPT ![c] = n + 1]
    <3> HIDE DEF w
    <3> QED BY <1>5, <2>7, <2>8, AmountIsGood
  <2>10. /\ a.amount[c] = n + 1
         /\ \A d \in {Scrolling, Alternate} \ {c} : a.amount[d] = f.amount[d]
    <3> HIDE DEF a
    <3> QED BY <1>1, <1>5, <2>9
  <2>11. g = IF "write" \in bad \/ ~Writable(AmountAt(c)) THEN w ELSE a
    BY <1>5, <2>3 DEF ListWritten, n
  <2>12. Writable(AmountAt(c)) BY <1>5, Sizes DEF Writable
  <2> HIDE DEF w, a
  <2>13. CASE "write" \in bad
    <3>1. g = w BY <2>11, <2>13
    <3>2. Appending(f, w, c, n, FALSE) BY <1>5, <2>7 DEF Appending, n
    <3> QED BY <2>13, <3>1, <3>2 DEF n, Appending
  <2>14. CASE "write" \notin bad
    <3>1. g = a BY <2>11, <2>12, <2>14
    <3>2. Appending(f, a, c, n, TRUE) BY <1>5, <2>7, <2>9, <2>10 DEF Appending, n
    <3> QED BY <2>14, <3>1, <3>2 DEF n, Appending
  <2> QED BY <2>13, <2>14
<1> QED BY <1>3, <1>4, <1>5

-----------------------------------------------------------------------------
\* The reset: default after default, from a file nobody has written.

\* A set of naturals that has 0 and the successor of each of its members is all of
\* them.
LEMMA AllNaturals ==
  ASSUME NEW P \in SUBSET Nat, 0 \in P, \A n \in P : n + 1 \in P
  PROVE  P = Nat
<1>. DEFINE R == {q \in Nat \X Nat : q[1] < q[2]}
            Rest == Nat \ P
<1>1. IsWellFoundedOn(R, Nat) BY NatLessThanWellFounded, Zenon DEF OpToRel
<1>2. SUFFICES ASSUME Rest # {} PROVE FALSE OBVIOUS
<1>3. PICK k \in Rest : \A m \in Rest : <<m, k>> \notin R
  <2>1. Rest \subseteq Nat OBVIOUS
  <2>. HIDE DEF Rest, R
  <2>. QED BY <1>1, <1>2, <2>1, WFMin
<1>4. k \in Nat /\ k # 0 /\ k - 1 \in Nat OBVIOUS
<1>5. k - 1 \notin Rest
  <2>1. <<k - 1, k>> \in R BY <1>4
  <2>. QED BY <1>3, <2>1
<1>6. (k - 1) + 1 \in P BY <1>4, <1>5
<1>. QED BY <1>4, <1>6

\* the first n results of applying step[1], step[2], ... one after the other
Iterates(f, T, base, step, n) ==
  /\ f \in [0 .. n -> T] /\ f[0] = base
  /\ \A k \in 1 .. n : f[k] = step[k][f[k - 1]]

\* Any number of steps can be taken.
LEMMA Iteration ==
  ASSUME NEW T, NEW base \in T, NEW N \in Nat, NEW step \in [1 .. N -> [T -> T]]
  PROVE  \E f : Iterates(f, T, base, step, N)
<1> DEFINE P == {n \in Nat : n <= N => \E f : Iterates(f, T, base, step, n)}
<1>1. 0 \in P
  <2>1. Iterates([k \in 0 .. 0 |-> base], T, base, step, 0) BY DEF Iterates
  <2> QED BY <2>1
<1>2. ASSUME NEW n \in P PROVE n + 1 \in P
  <2> SUFFICES ASSUME n + 1 <= N PROVE \E f : Iterates(f, T, base, step, n + 1)
    OBVIOUS
  <2>1. n \in Nat /\ n <= N OBVIOUS
  <2>2. PICK f : Iterates(f, T, base, step, n) BY <2>1
  <2> DEFINE g == [k \in 0 .. n + 1 |-> IF k <= n THEN f[k] ELSE step[k][f[n]]]
  <2>3. step[n + 1] \in [T -> T] BY <2>1
  <2>4. f[n] \in T BY <2>1, <2>2 DEF Iterates
  <2>5. g \in [0 .. n + 1 -> T] BY <2>1, <2>2, <2>3, <2>4 DEF Iterates
  <2>6. g[0] = base BY <2>1, <2>2 DEF Iterates
  <2>7. ASSUME NEW k \in 1 .. n + 1 PROVE g[k] = step[k][g[k - 1]]
    <3>1. CASE k <= n BY <2>1, <2>2, <3>1 DEF Iterates
    <3>2. CASE k = n + 1 BY <2>1, <3>2
    <3> QED BY <2>1, <3>1, <3>2
  <2>8. Iterates(g, T, base, step, n + 1)
    <3> HIDE DEF g
    <3> QED BY <2>5, <2>6, <2>7 DEF Iterates
  <2> QED BY <2>8
<1>3. P = Nat
  <2>1. P \in SUBSET Nat OBVIOUS
  <2> HIDE DEF P
  <2> QED BY <1>1, <1>2, <2>1, AllNaturals
<1>4. N \in P
  <2> HIDE DEF P
  <2> QED BY <1>3
<1> QED BY <1>4

\* A file nobody has written is good.
LEMMA NoFileIsGood == Good(NoFile)
<1>1. ListMax \in Nat /\ FileSize \in Nat /\ Byte \in Nat /\ Byte > 0 BY Sizes
<1>2. 0 \in Bytes /\ 0 \in 0 .. ListMax /\ 0 \in 0 .. FileSize /\ Blank \in Entries
  BY <1>1 DEF Bytes, Entries
<1>3. NoFile.amount \in [{Scrolling, Alternate} -> 0 .. ListMax] BY <1>2 DEF NoFile
<1>4. NoFile.time \in Times BY <1>2 DEF NoFile, Times
<1>5. NoFile.entry \in [{Scrolling, Alternate} -> [0 .. ListMax - 1 -> Entries]]
  BY <1>2 DEF NoFile
<1>6. NoFile.length = 0 /\ NoFile = [length |-> NoFile.length, time |-> NoFile.time,
                                     amount |-> NoFile.amount, entry |-> NoFile.entry]
  BY DEF NoFile
<1>7. NoFile \in Files BY <1>2, <1>3, <1>4, <1>5, <1>6 DEF Files
<1>8. \A c \in {Scrolling, Alternate} : NoFile.amount[c] = 0 BY DEF NoFile
<1> QED BY <1>7, <1>8 DEF Good, AmountsReached

\* Writing times touches no list.
LEMMA TimeIsGood ==
  ASSUME NEW f, Good(f), NEW time \in Times, NEW place \in 1 .. 4
  PROVE  LET g == Reaching([f EXCEPT !.time = time], place)
         IN  Good(g) /\ g.amount = f.amount /\ g.entry = f.entry
<1> DEFINE h == [f EXCEPT !.time = time]
           g == Reaching(h, place)
<1>1. f \in Files BY DEF Good
<1>2. h \in Files /\ h.amount = f.amount /\ h.entry = f.entry /\ h.length = f.length
  BY <1>1 DEF Files
<1>3. place \in 0 .. FileSize BY Sizes
<1> HIDE DEF h
<1>4. g \in Files /\ g.amount = f.amount /\ g.entry = f.entry /\ g.length >= f.length
  BY <1>2, <1>3, Reached
<1>5. Good(g)
  <2> HIDE DEF g
  <2> QED BY <1>4, ReachedIsGood
<1> QED BY <1>4, <1>5 DEF h

\* Every default leaves the file good.
LEMMA DefaultWriteIsGood ==
  ASSUME NEW f, Good(f), NEW k \in 1 .. Defaults, NEW bad
  PROVE  Good(DefaultWrite(f, k, bad))
<1>1. Len(DefaultItems) \in Nat /\ DOMAIN DefaultItems = 1 .. Len(DefaultItems)
  BY DisplayAssumption
<1>2. CASE k <= 4
  <2> DEFINE place == <<4, 2, 3, 1>>[k]
             time == [x \in DOMAIN f.time |->
                        IF PlaceOf[x] = place THEN DefaultTimes[x] ELSE f.time[x]]
  <2>1. k \in 1 .. 4 /\ place \in 1 .. 4 BY <1>2
  <2>2. f.time \in Times /\ DefaultTimes \in [start : Bytes, scroll : Bytes, light : Bytes]
    BY DisplayAssumption DEF Good, Files
  <2>3. time \in Times BY <2>2 DEF Times
  <2>4. TimeWritten(f, place) = Reaching([f EXCEPT !.time = time], place)
    BY DEF TimeWritten, Good, Files
  <2> HIDE DEF place, time
  <2>5. Good(TimeWritten(f, place)) BY <2>1, <2>3, <2>4, TimeIsGood
  <2>6. DefaultWrite(f, k, bad) \in {f, TimeWritten(f, place)}
    BY <1>2 DEF DefaultWrite, place
  <2> QED BY <2>5, <2>6
<1>3. CASE ~(k <= 4) /\ k <= 8
  <2> DEFINE c == IF k \in {5, 7} THEN Scrolling ELSE Alternate
             n == IF k <= 6 THEN DefaultAmount ELSE 0
             b == IF k \in bad THEN {"write"} ELSE {}
  <2>1. c \in Channels /\ n \in 0 .. ListMax BY DisplayAssumption, Sizes
  <2>2. DefaultWrite(f, k, bad) = AmountWritten(f, c, n, b) BY <1>3 DEF DefaultWrite
  <2> HIDE DEF c, n, b
  <2> QED BY <2>1, <2>2, AmountWrittenIsGood
<1>4. CASE ~(k <= 8)
  <2> DEFINE i == k - 9
             j == (i \div 2) + 1
  <2>1. i \in Nat /\ i < 2 * Len(DefaultItems) BY <1>1, <1>4 DEF Defaults
  <2>2. i % 2 \in Channels /\ j \in 1 .. Len(DefaultItems) BY <1>1, <2>1
  <2>3. DefaultItems[j] \in Entries
    <3> HIDE DEF j
    <3> QED BY <1>1, <2>2 DEF Entries
  <2>4. DefaultWrite(f, k, bad)
          = ListWritten(f, i % 2, DefaultItems[j], ItemFailures(i, bad))
    BY <1>4 DEF DefaultWrite
  <2> HIDE DEF i, j
  <2> QED BY <2>2, <2>3, <2>4, ListWrittenIsGood DEF Appending
<1> QED BY <1>2, <1>3, <1>4

\* A reset leaves a good file, whichever of its operations fail.
LEMMA DefaultFileIsGood ==
  ASSUME NEW bad
  PROVE  Good(DefaultFile(bad))
<1> DEFINE T == {f \in Files : AmountsReached(f)}
           step == [k \in 1 .. Defaults |-> [f \in T |-> DefaultWrite(f, k, bad)]]
           after(g) == [k \in 0 .. Defaults |->
                          IF k = 0 THEN NoFile ELSE DefaultWrite(g[k - 1], k, bad)]
<1>1. Defaults \in Nat BY DisplayAssumption DEF Defaults
<1>2. NoFile \in T BY NoFileIsGood DEF Good
<1>3. step \in [1 .. Defaults -> [T -> T]]
  <2>1. ASSUME NEW k \in 1 .. Defaults, NEW f \in T PROVE DefaultWrite(f, k, bad) \in T
    BY DefaultWriteIsGood DEF Good
  <2> QED BY <2>1
<1>4. PICK g : Iterates(g, T, NoFile, step, Defaults)
  <2> HIDE DEF T, step
  <2> QED BY <1>1, <1>2, <1>3, Iteration
<1>5. g = after(g)
  <2>1. g \in [0 .. Defaults -> T] /\ g[0] = NoFile BY <1>4 DEF Iterates
  <2>2. ASSUME NEW k \in 1 .. Defaults PROVE g[k] = DefaultWrite(g[k - 1], k, bad)
    <3>1. g[k - 1] \in T BY <1>1, <2>1
    <3>2. g[k] = step[k][g[k - 1]] BY <1>4 DEF Iterates
    <3> HIDE DEF T
    <3> QED BY <3>1, <3>2
  <2>3. \A k \in 0 .. Defaults : g[k] = after(g)[k]
    <3> SUFFICES ASSUME NEW k \in 0 .. Defaults PROVE g[k] = after(g)[k] OBVIOUS
    <3>1. CASE k = 0 BY <2>1, <3>1
    <3>2. CASE k # 0
      <4>1. k \in 1 .. Defaults BY <1>1, <3>2
      <4> QED BY <2>2, <3>2, <4>1
    <3> QED BY <3>1, <3>2
  <2> QED BY <2>1, <2>3
<1> DEFINE h == CHOOSE x : x = after(x)
<1>6. h = after(h) BY <1>5
<1> HIDE DEF h
<1> DEFINE P == {n \in Nat : n <= Defaults => h[n] \in T}
<1>7. 0 \in P
  <2>1. h[0] = NoFile BY <1>1, <1>6
  <2> QED BY <1>2, <2>1
<1>8. ASSUME NEW n \in P PROVE n + 1 \in P
  <2> SUFFICES ASSUME n + 1 <= Defaults PROVE h[n + 1] \in T OBVIOUS
  <2>1. h[n] \in T /\ n \in Nat /\ n + 1 \in 1 .. Defaults BY <1>1
  <2>2. h[n + 1] = DefaultWrite(h[n], n + 1, bad) BY <1>1, <1>6, <2>1
  <2> QED BY <2>1, <2>2, DefaultWriteIsGood DEF Good
<1>9. P = Nat
  <2>1. P \in SUBSET Nat OBVIOUS
  <2> HIDE DEF P
  <2> QED BY <1>7, <1>8, <2>1, AllNaturals
<1>10. h[Defaults] \in T BY <1>1, <1>9
<1>11. DefaultFile(bad) = h[Defaults] BY DEF DefaultFile, h
<1> QED BY <1>10, <1>11 DEF Good

-----------------------------------------------------------------------------
\* The faults stay within their bound.
LEMMA SpendIsBounded ==
  ASSUME DisplayTypeOK, NEW ops, IsFiniteSet(ops), NEW bad \in Failing(ops), Spend(bad)
  PROVE  faults' \in 0 .. MaxFaults
<1>1. bad \in SUBSET ops /\ Cardinality(bad) <= MaxFaults - faults BY DEF Failing
<1>2. Cardinality(bad) \in Nat BY <1>1, FS_Subset, FS_CardinalityType
<1>3. faults \in 0 .. MaxFaults /\ MaxFaults \in Nat BY DisplayAssumption DEF DisplayTypeOK
<1> QED BY <1>1, <1>2, <1>3 DEF Spend

\* A handler has a few file operations.
LEMMA FewOperations ==
  /\ IsFiniteSet(Reads) /\ IsFiniteSet({"time", "amount", "entry"})
  /\ IsFiniteSet({"amount", "item", "write"}) /\ IsFiniteSet({"write"})
  /\ IsFiniteSet(ResetWrites)
<1>1. \A x : IsFiniteSet({x}) BY FS_Singleton
<1>2. ASSUME NEW x, NEW y PROVE IsFiniteSet({x, y})
  <2>1. {x, y} = {x} \cup {y} /\ IsFiniteSet({x}) BY <1>1
  <2>2. IsFiniteSet({x} \cup {y}) BY <2>1, FS_AddElement
  <2> QED BY <2>1, <2>2
<1>3. ASSUME NEW x, NEW y, NEW z PROVE IsFiniteSet({x, y, z})
  <2>1. {x, y, z} = {x, y} \cup {z} /\ IsFiniteSet({x, y}) BY <1>2
  <2>2. IsFiniteSet({x, y} \cup {z}) BY <2>1, FS_AddElement
  <2> QED BY <2>1, <2>2
<1>4. IsFiniteSet(ResetWrites)
  <2>1. 8 + 6 * Len(DefaultItems) \in Int BY DisplayAssumption
  <2> QED BY <2>1, FS_Interval DEF ResetWrites
<1> QED BY <1>1, <1>2, <1>3, <1>4 DEF Reads

\* What a step owes to the invariant, part by part.
LEMMA Parts ==
  ASSUME level' \in {"off", "RUN", "WAKEUP"}, Good(file'), view' \in Views,
         level' # "off" => InView(view', file'),
         alone' \in BOOLEAN, edits' \in 0 .. MaxEdits, faults' \in 0 .. MaxFaults
  PROVE  DisplayInv'
BY DEF DisplayInv, DisplayTypeOK, Good

\* What the invariant gives to a handler.
LEMMA Given ==
  ASSUME DisplayInv
  PROVE  /\ DisplayTypeOK /\ Good(file) /\ view \in Views
         /\ level \in {"off", "RUN", "WAKEUP"}
         /\ level # "off" => Right(view)
         /\ alone \in BOOLEAN /\ edits \in 0 .. MaxEdits /\ faults \in 0 .. MaxFaults
BY DEF DisplayInv, DisplayTypeOK, Good, Right

\* The view of a display that is off.
LEMMA NoViewIsAView == NoView \in Views
<1>1. Good(NoFile) BY NoFileIsGood
<1>2. NoFile.time \in Times BY <1>1 DEF Good, Files
<1>3. /\ 0 \in Bytes /\ 0 \in 0 .. ListMax /\ 0 \in 0 .. 2 * Second /\ 0 \in 0 .. Half
      /\ 0 \in 0 .. Insertion /\ Blank \in Entries
  BY Sizes, DisplayAssumption DEF Bytes, Entries
<1> QED BY <1>2, <1>3 DEF NoView, Views

\* A handler that changes the view only.
LEMMA ViewStep ==
  ASSUME DisplayInv, level # "off", NEW ops, IsFiniteSet(ops), NEW bad \in Failing(ops), Spend(bad),
         Right(view'), UNCHANGED <<level, file, edits>>, alone' \in BOOLEAN
  PROVE  DisplayInv'
<1>1. faults' \in 0 .. MaxFaults BY Given, SpendIsBounded
<1>2. view' \in Views /\ InView(view', file') BY DEF Right
<1> QED BY <1>1, <1>2, Given, Parts

\* A start shows the first item of the scroll list, or marks the view.
LEMMA StartStep ==
  ASSUME DisplayInv, NEW l \in {"RUN", "WAKEUP"}, Start(l)
  PROVE  DisplayInv'
<1>1. PICK bad \in Failing({"time", "amount", "entry"}) :
        /\ Spend(bad)
        /\ view' =
             LET timed == IF "time" \in bad \/ ~Readable(file, PlaceOf.light) THEN NoFile.time
                          ELSE file.time
                 n == AmountOf(file, Scrolling, bad)
                 found == "entry" \notin bad /\ Readable(file, EntryAt(Scrolling, 0))
             IN  [NoView EXCEPT
                    !.time = timed,
                    !.amount = IF n > ListMax THEN 0 ELSE n,
                    !.entry = IF found THEN EntryIn(file, Scrolling, 0) ELSE Blank,
                    !.light = IF l = "RUN" THEN timed.light ELSE 0,
                    !.lit = l = "RUN",
                    !.missed = ~found \/ n = 0 \/ "amount" \in bad]
  BY DEF Start
<1> DEFINE time == IF "time" \in bad \/ ~Readable(file, PlaceOf.light) THEN NoFile.time
                   ELSE file.time
           n == AmountOf(file, Scrolling, bad)
           found == "entry" \notin bad /\ Readable(file, EntryAt(Scrolling, 0))
           amount == IF n > ListMax THEN 0 ELSE n
           entry == IF found THEN EntryIn(file, Scrolling, 0) ELSE Blank
           light == IF l = "RUN" THEN time.light ELSE 0
           lit == l = "RUN"
           missed == ~found \/ n = 0 \/ "amount" \in bad
           w == [NoView EXCEPT !.time = time, !.amount = amount, !.entry = entry,
                               !.light = light, !.lit = lit, !.missed = missed]
<1>2. view' = w BY <1>1
<1>3. file \in Files /\ Good(NoFile) BY Given, NoFileIsGood DEF Good
<1>4. time \in Times /\ time.light \in Bytes BY <1>3 DEF Good, Files, Times
<1>5. n \in 0 .. ListMax BY <1>3, AmountOfType
<1>6. amount = n BY <1>5, Sizes
<1>7. 0 \in 0 .. ListMax - 1 /\ 0 < ListMax /\ 0 \in Bytes /\ Blank \in Entries
  BY Sizes DEF Bytes, Entries
<1>8. EntryIn(file, Scrolling, 0) = file.entry[Scrolling][0] BY <1>7 DEF EntryIn
<1>9. file.entry[Scrolling][0] \in Entries BY <1>3, <1>7, FileFields
<1>10. entry \in Entries \cup {Straddling} BY <1>7, <1>8, <1>9
<1>11. light \in Bytes BY <1>4, <1>7
<1>12. lit \in BOOLEAN /\ missed \in BOOLEAN OBVIOUS
<1>13. ~missed => /\ amount = file.amount[Scrolling] /\ 0 < amount
                  /\ entry = file.entry[Scrolling][0]
  BY <1>5, <1>6, <1>8 DEF AmountOf
<1> HIDE DEF time, amount, entry, light, lit, missed
<1>14. w \in Views BY <1>4, <1>5, <1>6, <1>10, <1>11, <1>12, NoViewIsAView DEF Views
<1>15. /\ w.missed = missed /\ w.channel = Scrolling /\ w.amount = amount /\ w.index = 0
       /\ w.entry = entry
  BY DEF NoView
<1>16. InView(w, file) BY <1>13, <1>15 DEF InView
<1>17. faults' \in 0 .. MaxFaults BY <1>1, FewOperations, Given, SpendIsBounded
<1> HIDE DEF w
<1> QED BY <1>2, <1>14, <1>16, <1>17, Given, Parts DEF Start

\* A display that is off shows nothing.
LEMMA StopStep ==
  ASSUME DisplayInv, Stop
  PROVE  DisplayInv'
BY Given, Parts, NoViewIsAView DEF Stop

\* A reset leaves a good file.
LEMMA ResetStep ==
  ASSUME DisplayInv, Reset
  PROVE  DisplayInv'
<1>1. PICK bad \in Failing(ResetWrites) : Spend(bad) /\ file' = DefaultFile(bad) BY DEF Reset
<1>2. faults' \in 0 .. MaxFaults BY <1>1, FewOperations, Given, SpendIsBounded
<1>3. Good(file') BY <1>1, DefaultFileIsGood
<1> QED BY <1>2, <1>3, Given, Parts DEF Reset

\* The loop of the display.
LEMMA LoopStep ==
  ASSUME DisplayInv, Loop
  PROVE  DisplayInv'
<1>1. PICK bad \in Failing(Reads) : Spend(bad) /\ view' = Looped(view, bad) BY DEF Loop
<1>2. level # "off" /\ UNCHANGED <<level, file, edits>> /\ alone' \in BOOLEAN BY DEF Loop
<1>3. Right(view') BY <1>1, <1>2, Given, LoopedIsRight
<1> QED BY <1>1, <1>2, <1>3, FewOperations, ViewStep

\* A key.
LEMMA KeyStep ==
  ASSUME DisplayInv, alone' = FALSE, NEW id \in {"UP", "DOWN"}, Key(id)
  PROVE  DisplayInv'
<1>1. PICK bad \in Failing(Reads) :
        /\ Spend(bad)
        /\ view' = CASE view.channel # Alternate -> Change(view, Alternate, bad)
                     [] view.channel = Alternate /\ id = "UP" -> ShowLast(view, bad)
                     [] view.channel = Alternate /\ id = "DOWN" -> ShowNext(view, bad)
  BY DEF Key
<1>2. level # "off" /\ UNCHANGED <<level, file, edits>> BY DEF Key
<1>3. Right(Change(view, Alternate, bad)) BY Given, ChangeIsRight
<1>4. Right(ShowLast(view, bad)) /\ Right(ShowNext(view, bad))
  BY <1>2, Given, LastIsRight, NextIsRight
<1>5. view' \in {Change(view, Alternate, bad), ShowLast(view, bad), ShowNext(view, bad)}
  BY <1>1
<1>6. Right(view') BY <1>3, <1>4, <1>5
<1> QED BY <1>1, <1>2, <1>6, FewOperations, ViewStep

\* The calls that show another item or list.
LEMMA ShowsStep ==
  ASSUME DisplayInv, alone' = FALSE, Shows
  PROVE  DisplayInv'
<1>1. PICK bad \in Failing(Reads) :
        /\ Spend(bad)
        /\ \/ \E c \in Channels : view' = Change(view, c, bad)
           \/ view' = ShowNext(view, bad)
           \/ view' = ShowLast(view, bad)
           \/ \E i \in Bytes : view' = ShowIndex(view, i, bad)
  BY DEF Shows
<1>2. level # "off" /\ UNCHANGED <<level, file, edits>> BY DEF Shows
<1>3. DisplayTypeOK /\ Right(view) /\ view \in Views BY <1>2, Given
<1>4. Right(view') BY <1>1, <1>3, ChangeIsRight, NextIsRight, LastIsRight, IndexIsRight
<1> QED BY <1>1, <1>2, <1>4, FewOperations, ViewStep

\* A message.
LEMMA InsertStep ==
  ASSUME DisplayInv, alone' = FALSE, NEW lights \in BOOLEAN, Insert(lights)
  PROVE  DisplayInv'
<1> DEFINE lit == view.lit \/ (lights /\ level = "RUN")
           w == [view EXCEPT !.insert = Insertion, !.lit = lit]
<1>1. level # "off" /\ view' = w /\ UNCHANGED <<level, file, edits, faults>> BY DEF Insert
<1>2. lit \in BOOLEAN /\ Insertion \in 0 .. Insertion BY DisplayAssumption
<1>3. Right(view) /\ view \in Views BY <1>1, Given
<1> HIDE DEF lit
<1>4. w \in Views BY <1>2, <1>3 DEF Views
<1>5. /\ w.missed = view.missed /\ w.channel = view.channel /\ w.amount = view.amount
      /\ w.index = view.index /\ w.entry = view.entry
  BY <1>3 DEF Views
<1>6. Right(w) BY <1>3, <1>4, <1>5, SameItem
<1> HIDE DEF w
<1>7. view' \in Views /\ InView(view', file') BY <1>1, <1>6 DEF Right
<1> QED BY <1>1, <1>7, Given, Parts

\* A call that writes the file is counted.
LEMMA EditingIsBounded ==
  ASSUME DisplayInv, Editing
  PROVE  edits' \in 0 .. MaxEdits
BY Given, DisplayAssumption DEF Editing

\* A time set in RAM and in the file.
LEMMA TimeSetStep ==
  ASSUME DisplayInv, alone' = FALSE, NEW x \in DOMAIN view.time, NEW second \in TimeChoices,
         TimeSet(x, second)
  PROVE  DisplayInv'
<1>1. PICK bad \in Failing({"write"}) :
        /\ Spend(bad)
        /\ file' = IF "write" \in bad THEN file
                   ELSE Reaching([file EXCEPT !.time[x] = second], PlaceOf[x])
  BY DEF TimeSet
<1>2. /\ level # "off" /\ level' = level /\ edits' \in 0 .. MaxEdits
      /\ view' = [view EXCEPT !.time[x] = second]
  BY EditingIsBounded DEF TimeSet, Editing
<1>3. Right(view) /\ view \in Views /\ Good(file) /\ file \in Files BY <1>2, Given DEF Good
<1>4. view.time \in Times /\ file.time \in Times BY <1>3, ViewFields, FileFields
<1>5. x \in {"start", "scroll", "light"} /\ second \in Bytes
  BY <1>4, DisplayAssumption DEF Times
<1> DEFINE time == [view.time EXCEPT ![x] = second]
           kept == [file.time EXCEPT ![x] = second]
           w == [view EXCEPT !.time = time]
           f == Reaching([file EXCEPT !.time = kept], PlaceOf[x])
<1>6. time \in Times /\ kept \in Times BY <1>4, <1>5 DEF Times
<1>7. view' = w /\ file' \in {file, f} BY <1>1, <1>2, <1>3 DEF Views, Files
<1>8. PlaceOf[x] \in 1 .. 4 BY <1>5 DEF PlaceOf
<1> HIDE DEF time, kept
<1>9. Good(f) /\ f.amount = file.amount /\ f.entry = file.entry
  BY <1>3, <1>6, <1>8, TimeIsGood
<1>10. w \in Views BY <1>3, <1>6 DEF Views
<1>11. /\ w.missed = view.missed /\ w.channel = view.channel /\ w.amount = view.amount
       /\ w.index = view.index /\ w.entry = view.entry
  BY <1>3 DEF Views
<1> HIDE DEF w, f
<1>12. Right(w) BY <1>3, <1>10, <1>11, SameItem
<1>13. Good(file') /\ file'.amount = file.amount /\ file'.entry = file.entry
  BY <1>3, <1>7, <1>9
<1>14. InView(view', file') BY <1>7, <1>12, <1>13 DEF Right, InView
<1>15. faults' \in 0 .. MaxFaults BY <1>1, FewOperations, Given, SpendIsBounded
<1> QED BY <1>2, <1>7, <1>10, <1>13, <1>14, <1>15, Given, Parts

\* Decimal places written back.
LEMMA DotSetStep ==
  ASSUME DisplayInv, alone' = FALSE, DotSet
  PROVE  DisplayInv'
<1>1. /\ level # "off" /\ UNCHANGED <<level, view, faults>> /\ edits' \in 0 .. MaxEdits
      /\ file' = Reaching(file, PlaceOf.dots)
  BY EditingIsBounded DEF DotSet, Editing
<1>2. Right(view) /\ view \in Views /\ Good(file) /\ file \in Files BY <1>1, Given DEF Good
<1>3. PlaceOf.dots \in 0 .. FileSize BY Sizes DEF PlaceOf
<1>4. /\ file' \in Files /\ file'.amount = file.amount /\ file'.entry = file.entry
      /\ file'.length >= file.length
  BY <1>1, <1>2, <1>3, Reached
<1>5. Good(file') BY <1>2, <1>4, ReachedIsGood
<1>6. InView(view', file') BY <1>1, <1>2, <1>4 DEF Right, InView
<1> QED BY <1>1, <1>2, <1>5, <1>6, Given, Parts

\* Adding to a list: the item in view keeps its place and the amount in RAM follows,
\* or the view is marked.
LEMMA ListWriteStep ==
  ASSUME DisplayInv, alone' = FALSE, NEW c \in Channels, NEW item \in Items, ListWrite(c, item)
  PROVE  DisplayInv'
<1>1. PICK bad \in Failing({"amount", "item", "write"}) :
        /\ Spend(bad)
        /\ file' = ListWritten(file, c, item, bad)
        /\ view' = IF view.channel # c \/ Full(AmountOf(file, c, bad)) THEN view
                   ELSE [view EXCEPT !.amount = AmountOf(file, c, bad) + 1,
                                     !.missed = @ \/ bad # {} \/ ~Writable(AmountAt(c))]
  BY DEF ListWrite
<1>2. level # "off" /\ level' = level /\ edits' \in 0 .. MaxEdits
  BY EditingIsBounded DEF ListWrite, Editing
<1>3. Right(view) /\ view \in Views /\ Good(file) /\ file \in Files BY <1>2, Given DEF Good
<1> DEFINE n == AmountOf(file, c, bad)
           missed == view.missed \/ bad # {} \/ ~Writable(AmountAt(c))
           w == [view EXCEPT !.amount = n + 1, !.missed = missed]
<1>4. n \in 0 .. ListMax BY <1>3, AmountOfType
<1>5. item \in Entries BY DEF Entries
<1>6. Appending(file, file', c, n, "write" \notin bad) BY <1>1, <1>3, <1>5, ListWrittenIsGood
<1>7. faults' \in 0 .. MaxFaults BY <1>1, FewOperations, Given, SpendIsBounded
<1>8. view' \in Views /\ InView(view', file')
  <2>1. CASE Full(n)
    <3>1. view' = view /\ file' = file BY <1>1, <1>6, <2>1 DEF Appending
    <3> QED BY <1>3, <3>1 DEF Right
  <2>2. CASE view.channel # c
    <3>1. view' = view BY <1>1, <2>2
    <3>2. ~view.missed => view.channel \in {Scrolling, Alternate} \ {c}
      BY <1>3, <2>2, ViewFields DEF Right, InView
    <3>3. ~view.missed => /\ file'.amount[view.channel] = file.amount[view.channel]
                          /\ file'.entry[view.channel] = file.entry[view.channel]
      BY <1>6, <3>2 DEF Appending
    <3> QED BY <1>3, <3>1, <3>3 DEF Right, InView
  <2>3. CASE ~Full(n) /\ view.channel = c
    <3>1. n + 1 \in 0 .. ListMax /\ missed \in BOOLEAN BY <1>4, <2>3, Sizes DEF Full
    <3>2. view' = w BY <1>1, <2>3
    <3>3. ~missed => /\ ~view.missed /\ bad = {} /\ c # Debug
      BY <2>3, Sizes DEF Writable, AmountAt
    <3>4. ~missed => /\ view.amount = n /\ view.index < n /\ n # view.index
                     /\ view.index \in 0 .. ListMax - 1
      <4> SUFFICES ASSUME ~missed
                   PROVE  /\ view.amount = n /\ view.index < n /\ n # view.index
                          /\ view.index \in 0 .. ListMax - 1
        OBVIOUS
      <4>1. view.amount = file.amount[c] /\ view.index < view.amount
        BY <1>3, <2>3, <3>3 DEF Right, InView
      <4>2. c \in {Scrolling, Alternate} BY <3>3
      <4>3. view.amount \in Nat /\ view.amount <= ListMax /\ view.index \in Nat
        BY <1>3, ViewFields, Sizes
      <4>4. Readable(file, AmountAt(c)) BY <1>3, <4>1, <4>2, <4>3 DEF Good, AmountsReached
      <4>5. n = file.amount[c] BY <3>3, <4>4 DEF AmountOf
      <4> QED BY <4>1, <4>3, <4>5, Sizes
    <3>5. ~missed => /\ file'.amount[c] = n + 1
                     /\ file'.entry[c][view.index] = file.entry[c][view.index]
      BY <1>6, <2>3, <3>3, <3>4 DEF Appending
    <3>6. ~missed => view.entry = file.entry[c][view.index]
      BY <1>3, <2>3, <3>3 DEF Right, InView
    <3> HIDE DEF n, missed
    <3>7. w \in Views BY <1>3, <3>1 DEF Views
    <3>8. /\ w.missed = missed /\ w.channel = c /\ w.amount = n + 1
          /\ w.index = view.index /\ w.entry = view.entry
      BY <1>3, <2>3 DEF Views
    <3> HIDE DEF w
    <3>9. InView(w, file')
      <4>1. n \in Int /\ view.index \in Int BY <1>3, <1>4, ViewFields, Sizes
      <4> QED BY <3>3, <3>4, <3>5, <3>6, <3>8, <4>1 DEF InView
    <3> QED BY <3>2, <3>7, <3>9
  <2> QED BY <2>1, <2>2, <2>3
<1>9. Good(file') BY <1>6 DEF Appending
<1> QED BY <1>2, <1>7, <1>8, <1>9, Given, Parts

\* Cleaning the list in view marks the view.
LEMMA ListCleanStep ==
  ASSUME DisplayInv, alone' = FALSE, NEW c \in Channels, ListClean(c)
  PROVE  DisplayInv'
<1>1. PICK bad \in Failing({"write"}) : Spend(bad) /\ file' = AmountWritten(file, c, 0, bad)
  BY DEF ListClean
<1>2. /\ level # "off" /\ level' = level /\ edits' \in 0 .. MaxEdits
      /\ view' = IF view.channel # c THEN view ELSE [view EXCEPT !.amount = 0, !.missed = TRUE]
  BY EditingIsBounded DEF ListClean, Editing
<1>3. Right(view) /\ view \in Views /\ Good(file) BY <1>2, Given
<1>4. 0 \in 0 .. ListMax BY Sizes
<1>5. /\ Good(file') /\ file'.entry = file.entry
      /\ \A d \in {Scrolling, Alternate} \ {c} : file'.amount[d] = file.amount[d]
  BY <1>1, <1>3, <1>4, AmountWrittenIsGood
<1>6. faults' \in 0 .. MaxFaults BY <1>1, FewOperations, Given, SpendIsBounded
<1>7. view' \in Views /\ InView(view', file')
  <2>1. CASE view.channel # c
    <3>1. view' = view BY <1>2, <2>1
    <3>2. ~view.missed => view.channel \in {Scrolling, Alternate} \ {c}
      BY <1>3, <2>1, ViewFields DEF Right, InView
    <3> QED BY <1>3, <1>5, <3>1, <3>2 DEF Right, InView
  <2>2. CASE view.channel = c
    <3>1. view' = [view EXCEPT !.amount = 0, !.missed = TRUE] BY <1>2, <2>2
    <3>2. view' \in Views /\ view'.missed BY <1>3, <1>4, <3>1 DEF Views
    <3> QED BY <3>2 DEF InView
  <2> QED BY <2>1, <2>2
<1> QED BY <1>2, <1>5, <1>6, <1>7, Given, Parts

\* Every step preserves the invariant: one case per action.
LEMMA DisplayStep == DisplayInv /\ [DisplayNext]_displayVars => DisplayInv'
<1> SUFFICES ASSUME DisplayInv, [DisplayNext]_displayVars PROVE DisplayInv' OBVIOUS
<1>1. ASSUME NEW l \in {"RUN", "WAKEUP"}, Start(l) PROVE DisplayInv' BY <1>1, StartStep
<1>2. CASE Stop BY <1>2, StopStep
<1>3. CASE Reset BY <1>3, ResetStep
<1>4. CASE Loop BY <1>4, LoopStep
<1>5. CASE Call
  <2>1. alone' = FALSE BY <1>5 DEF Call
  <2>2. ASSUME NEW id \in {"UP", "DOWN"}, Key(id) PROVE DisplayInv' BY <2>1, <2>2, KeyStep
  <2>3. CASE Shows BY <2>1, <2>3, ShowsStep
  <2>4. ASSUME NEW lights \in BOOLEAN, Insert(lights) PROVE DisplayInv'
    BY <2>1, <2>4, InsertStep
  <2>5. ASSUME NEW x \in DOMAIN view.time, NEW second \in TimeChoices, TimeSet(x, second)
        PROVE  DisplayInv'
    BY <2>1, <2>5, TimeSetStep
  <2>6. CASE DotSet BY <2>1, <2>6, DotSetStep
  <2>7. ASSUME NEW c \in Channels, ListClean(c) PROVE DisplayInv'
    BY <2>1, <2>7, ListCleanStep
  <2>8. ASSUME NEW c \in Channels, NEW item \in Items, ListWrite(c, item) PROVE DisplayInv'
    BY <2>1, <2>8, ListWriteStep
  <2> QED BY <1>5, <2>2, <2>3, <2>4, <2>5, <2>6, <2>7, <2>8 DEF Call
<1>6. CASE UNCHANGED displayVars
  BY <1>6, Given, Parts DEF displayVars, Right
<1> QED BY <1>1, <1>2, <1>3, <1>4, <1>5, <1>6 DEF DisplayNext

\* The invariant holds at first, on a new file and after a reset.
LEMMA DisplayBegins == DisplayInit => DisplayInv
<1> SUFFICES ASSUME DisplayInit PROVE DisplayInv OBVIOUS
<1>1. Good(file) BY NoFileIsGood, DefaultFileIsGood DEF DisplayInit
<1>2. view \in Views BY NoViewIsAView DEF DisplayInit
<1>3. level = "off" /\ alone \in BOOLEAN /\ edits \in 0 .. MaxEdits /\ faults \in 0 .. MaxFaults
  BY DisplayAssumption DEF DisplayInit
<1> QED BY <1>1, <1>2, <1>3 DEF DisplayInv, DisplayTypeOK, Good

\* The invariant holds always.
LEMMA DisplayInvHolds == DisplaySpec => []DisplayInv
BY DisplayBegins, DisplayStep, PTL DEF DisplaySpec

\* Counters stay within their bytes and amounts within their lists, in RAM and in the
\* file, and the list to go back to is never the key list: for any lists, bytes,
\* times and items, and any number of edits, restarts and faults.
THEOREM DisplayTypeCorrect == DisplaySpec => []DisplayTypeOK
<1>1. DisplayInv => DisplayTypeOK BY DEF DisplayInv
<1> QED BY DisplayInvHolds, <1>1, PTL

\* The item in view is the one the file has at its place of its list, through keys,
\* time-outs, changes of list, items added and restarts, unless an operation failed,
\* the list was cleaned or there is nothing to see.
THEOREM DisplayShowsItsList == DisplaySpec => []ShowsItsList
<1>1. DisplayInv => ShowsItsList BY DEF DisplayInv, InView, ShowsItsList
<1> QED BY DisplayInvHolds, <1>1, PTL
=============================================================================
