# VirtualMeter: models, checks and proofs

VirtualMeter is the firmware of an electricity meter: a cooperative scheduler,
a task per function, an HDLC/DLMS stack and file storage, built for an STM32F0
and, with the hardware replaced by threads and UDP ports, as a Windows program.
This directory holds TLA+ models translated from the C source, the TLC
configurations that check them, and proofs checked by TLAPS.

All C sources are GB18030; line numbers here and in `PROJECT.json` are those of
the files as they are. The repository's only makefile with all sources
(`Project/DEV_C_WIN32/Makefile.win`) defines `MAKE_RUN_FOR_DEBUG`; that is the
build the models follow.

## 1. The system

### Components

| component | state it keeps | operations | model |
|---|---|---|---|
| Scheduler (`Kernel/Src/kernel.c`, `Tasks/Tasks/Src/tasks.c`) | run level, the pass over the task table, the task that runs | choose a level, exit/init/loop/reset passes | `Kernel` |
| Power (`Devices/basic/Src/power.c`) | `status_current` | `power_status`, `power_alter`, console commands | `Kernel` |
| Processor (`Devices/basic/Src/cpu.c`) | watchdog | reset | `Kernel` (Boot, Watchdog), a power loss in the others |
| Heap (`Kernel/Src/heap.c`) | lists of long- and short-lived blocks, quotas per task | `salloc`, `dalloc`, `free`, `recycle`, guarded copies | `Heap`, `HeapPromise`; ownership over the levels in `Kernel` |
| Disk (`Kernel/Src/disk.c`) | mount state, files over littlefs | parameter files, format, start, idle | mounting in `Kernel`; a parameter file per task in `Disconnect`, `Metering`, `Display`, `Comm`, `Xmodem` |
| Keyboard (`Tasks/Keyboard`) | wake-up counter | key handlers, loop | `Kernel`; its keys in `Display` |
| Communication (`Tasks/Comm`) | ports, parameters | start, loop: read, dispatch, write; settings | `Comm`; its period in `Hdlc` and `Xmodem` |
| Serial ports and UARTs (`Devices/serial`, `Devices/buses`) | receive buffer, frame length, counters, bus state | interrupt handlers, runner, read, write | `Comm` |
| HDLC (`proto_dlms/Src/hdlc_datalink.c`) | a link per channel: counters, buffers, timer, reply | SNRM, I, RR, DISC, tick, response | `Hdlc`, `Exchange`; set-up and release over several channels in `Associations` |
| DLMS associations (`dlms_association.c`) | list of associations in heap blocks | gateway, AARQ, RLRQ, clean-up, storage | `Associations` |
| DLMS application (`dlms_application.c`, `cosem_objects.c`) | the request's entries in the association's storage | make, check, run, clear | `Requests` |
| XMODEM (`proto_xmodem.c`) | one transfer and one reply for all ports | opening, block, end, time-out | `Xmodem` |
| Metering (`Tasks/Metering`) | settings, totals of a tariff, waiting readings, the walk | loop, exit, tariff and settings API, reset | `Metering` |
| Disconnect (`Tasks/Disconnect`, `relay.c`) | requests, mask, priorities, position | request, mask, priority, selection, loop | `Disconnect` |
| Display (`Tasks/Display`, `vm_display.c`) | lists of items in a file, the item in view, light and scroll counters | keys, time-outs, messages, editing lists and times | `Display` |
| Logger (`Tasks/Logger`) | states of events under a check | loop, event query | not modelled |
| Timed (`Tasks/Timed`) | table of entries | add, remove; the loop does nothing yet | not modelled |
| Console (`Tasks/Console`, `console.c`) | a thread | lines to Lua, `reset`, `power` | its effect on power in `Kernel` |
| Storage and other devices | registers or sockets | read, write | outcomes only |
| Libraries of the project | none | checks, conversions | not modelled |

Third-party code (Lua, littlefs, mbed TLS, the STM32 library) is not modelled.
`PROJECT.json` lists every part with its status and the reason.

### How they interact

`main()` calls `tasks_sched()` for ever. Each turn compares the power status
with the level of the turn before. A change runs a whole *exit* pass, recycles
the heap, stops the disk, then starts the disk for the new level and runs an
*init* pass; otherwise a *loop* pass runs when `KERNEL_PERIOD` ms have gone by.
Bodies never overlap: a task calls another through `api(name)`, which answers
only for tasks whose `status()` says they are up. What runs beside them are the
supply, the keys, the console and watchdog threads of the emulator, and the
ports' receive buffers. File calls go through `file.*`, guarded by a task lock;
each one may see the power fail and unmount the file system in the middle of a
body. Requests of the outside come in through `comm_loop()`, which hands bytes
to the protocol that takes them and writes the answer when the bus is free.

### What is hard, and what has to hold

- *Level changes*: the supply may change between any two bodies, a wake-up or a
  reset may be asked for at any time. Passes must be complete, nothing of the
  old level may survive into the next, a granted reset must not be lost.
- *Storage under power failure*: mount state, flash driver and run level are
  three variables that different calls move.
- *Shared heap*: blocks are recycled under tasks that keep static pointers.
- *Lost and repeated frames*: frame counters, a question in parts and an answer
  in parts must survive a resend, a time-out and a link set up again.
- *RAM against file*: totals, masks and tables are kept twice; restarts, level
  changes and failing writes come between.
- *Arbitration and staleness*: requests, masks and tables change in any order
  before one loop looks at them; a position is reported from a copy.
- *Interrupts*: bytes arrive and leave between any two accesses of a runner that
  uses no lock.
- *Shared singletons*: one XMODEM transfer and one pending reply for all ports;
  associations found by a pair of addresses, whichever channel they came by.
- *Copies*: the item in view of the display is a copy of one in a file others edit.
- *Numeric edges*: three-bit counters, byte counters that wrap, modulo walks, a
  rate modulo `MAX_RATE + 1`, quotas, lengths.

Every one of these at its line is in `PROJECT.json`, "hazards", with the
property that watches it or the reason there is none.

## 2. Plan

Order: what everything rests on first, then the protocol, then the tasks that
keep values people are billed by, then what remains.

1. **Scheduler, heap ownership, mounting** - `Kernel`, `TaskProofs`. Done.
2. **HDLC link** - `Exchange` (abstract), `Hdlc`, `HdlcProofs`. Done; proved for
   questions and answers of one frame on any line, and of any number of parts on
   a line that loses nothing.
3. **Disconnect** - `Disconnect`, `DisconnectProofs`. Done.
4. **Metering** - `Metering`, `MeteringProofs`. Done.
5. **Heap** - `HeapPromise` (abstract), `Heap`, `HeapProofs`. Done.
6. **Associations and requests** - `Associations` over `Requests`,
   `AssociationsProofs`. Done.
7. **XMODEM** - `Xmodem`, `XmodemProofs`. Done.
8. **Display and keys** - `Display`, `TaskProofs`. Done.
9. **Ports and communication task** - `Comm`, `CommProofs`. Done.
10. Left: the composition of `Comm` with `Hdlc` (a frame
    that ends early meets a link's check sum, which drops it); HLS
    authentication once the source completes it; the logger's and the timed
    task's loops once they do something; ring files once one is in the file
    table.

Module style: one action per operation, no RECURSIVE in a module that is proved
about, constants with named assumptions, invariants as conjunctions of named
parts, mutated definitions beside the ones they mutate.

## 3. The modules and the code

### Kernel

One variable per C variable or status (`power` = `status_current`, `klevel`,
`before` = `level_before`, `taskId` = `task_id`, `fs` = `lfs_err`, `wake`), plus
where the main loop is: `pass` and `todo`. A pass is a sequence of
`Begin(t)`/`Finish...` steps in the order the table's order bytes give, or
`Skip(t)`; between the two a body may touch the disk, the heap, the keys, as the
constants say that task does. `LeaveLevel`, `FirstLevel`, `StartReset`,
`LoopDue`, `NotDue`, `ExitDone`, `InitDone`, `LoopDone`, `ResetDone` are the
straight pieces of `tasks_sched()` between passes. `SupplyChange`,
`CommandLine`, `CommandTest`, `CommandWrite` (the console thread's test and write
of the status are two steps) and `Watchdog` are the environment.
`power_alter(POWER_REBOOT)` and `task_ctrl_reset()` have no caller and are left
out, and so is `waketime.set` while a wake-up runs.

### Exchange and Hdlc

`Exchange` is what a client may rely on: one question at a time, the application
runs only the one asked last, an answer is whole and answers that question.
`Hdlc` is one channel: `link` is `hdlc_links[channel]`, with `csss`/`crrr` the
numbers of the frame before, `recv` the parts put together, `sent` and
`confirming` the place in the answer. `turn` is the order the period gives: the
link's timer, then the frame that came in, then the reply. The client is a
primary station with a window of one that resends when nothing came back, and
the line loses frames either way. It always sets the poll bit. An answer is the
interval of its bytes, with the sizes of the code: 128 bytes of information in a
frame, 3 of LLC, 12 of frame. `RequestSnrm`'s second disjunct is an allocation
that fails. The last part of a question runs the application (`Run`), which
leaves an answer (`RequestInfoLast`) or none (`RequestInfoUnanswered`,
hdlc_datalink.c:1169): `dlms_asso_gateway()` has several ways to return without
one. Then `recv` is emptied and `csss` has moved, but `rrr` and `sss` have not, no
reply goes out and the timer is not refreshed. The client resends, the link takes
that for a lost reply, takes back a frame it never sent and runs what it has now,
the last part alone. `silent` and `unanswered` are histories of such runs.

### Disconnect

`requests`, `mask`, `priority`, `action`, `reason`, `flush` are `relay_runs`,
`file` is the parameter file, `switch` the relay, `report` the position the API
returns. `Scan` is `request_arbitrate()` as it is written: each slot that passes
replaces the one before. `Up`, `Loop` and the four setters are whole functions
with their file operations, each of which may fail within `MaxFaults`.
`RelayObeys` says that the relay follows requests that count and nothing else; it
does not say which of two that disagree should win. `PriorityWins` does, as the
comment has it, and fails (section 5).

### Metering

`mp` holds of the settings what the rest depends on: the tariff, whether energy
is counted, whether the divisors are sound. `saved.now` and `saved.check` are
the file's settings and those its check was computed from, so that a field
written alone makes a file that fails its check. `totals` is the file
`measurements`, `length` how many registers it reaches to: a block is readable
only up to there, and a write past the end fills with zeros. `mc`, `flush`,
`step`, `walk`, `clock` are the task's statics. A reading adds one to one of the
twelve registers (the phases of a register are summed); `Walk` is the end of
`metering_loop()`, in the same step as the reading. `Enter` covers the levels
that read the files and the one that does not; a level left without the files
loses what its `metering_exit()` cannot write.

### Heap and HeapPromise

`Heap` is the two linked lists cell by cell: `chunks` maps the address of a
header to its size, owner (`magic`) and link, `slist` and `dlist` are the heads,
`work` is the call that runs with the place its walk has reached. Each turn of a
walk is a step, so that the invariants hold in the middle of an unlinking.
`CallAlloc`, `Count`, `Fits`/`Refuse`, `Grant` are an allocation (the quota is a
sum taken anew over the list), `Free`, `Recycle` and their `Pass`/`GiveBack` the
walks of `heap_free()` and `heap_recycle()`, `Sinit`/`Dinit` the emptying,
`Write` a guarded copy or clearing of any length anywhere. `Fresh` is `malloc()`:
any place that is free, or none. `HeapPromise` is what callers rely on: a set of
disjoint blocks with owners, granted one at a time and given back as asked, at
once. `Held` is the mapping: the blocks on the lists but for those that the call
under way has still to reach (`Doomed`).

### Requests and Associations

`Requests` is one call of `dlms_appl_entrance()` as a function of the
association's storage (`Storage` is `__cosem_request`'s entries): make the entries
the question names, check them, run those that are active, clear. `Associations`
is two channels' links and the list `asso_list`: `Snrm` and its three ways to
fail, `Disc`, `Tick`, `ChangeLevel`, `AarqNew`/`AarqAgain`, `Rlrq`, `Ask`. `links`
and `slots` hold block addresses, `heap` is what the protocol task owns, so that
"lost" and "shared" are facts about sets of blocks. Where the code reads a freed
block the model sets `wild` and ends (`GoWild`): what follows is not defined by
the program.

### Xmodem

`turn` is the order of the period: the task's loop, each port's frame, each
port's reply. `info` is `xfr_info`, `reply` is `result` with its port. `Open`,
`End`, `Garbled`, `Repeated`, `Written`, `Cancelled` are the branches of
`xfr_receive()` in order. A client is a textbook sender: an opening, blocks, EOT, a
repeat after silence, possibly too early; it may give up and try again with
another image. `opened` and `ended` are histories: who opened the transfer, which
ports it has heard, and whether an EOT ended it.

### Display

`file` is the parameter file (its length, times, amounts, items), `view` the
statics of the task. `Loop` is one call of `display_loop()`: the half-second flush,
the counters of the second, the insertion, the return from the key list, the
scroll. The operators `Counted` ... `Alternated` are its pieces in order, each
from view to view. `Key` and `Shows` are the callers' changes of list and item,
`Call` the interface others edit lists and times with, `Insert` the messages.
Reading and writing the file follow `disk.c`: nothing is readable past its
length. `DefaultWrite` is one write of `display_reset()`, `DefaultFile` all of them
in order, with `DefaultAmount` the amount it first gives both lists. The field
`missed` of the view is a history: an operation on the list in view failed, or it was
cleaned, since it was last shown. `alone` says the last step was the task's own.

### Comm

One port with interrupts (`BUILD_REAL_WORLD`; the emulator's threads stand at the
same places). `pc` is the point `comm_loop()` has reached, cut where an interrupt
makes a difference: `Pass` reads the silence counter, `Stamp` stores it back (the
two halves of `+=`, rs485_1.c:155), `Due` tests the buffer, notes the frame's
length and copies it, `Rewind` drops the bytes, `Release` hands the frame over,
`Answer`/`NoAnswer` end the pass. `RecvByte` and `TransHandler` are the two
handlers. The sending half of the runner (`Delay`, `Blocked`, `Settle`, `Launch`)
is part of `Stamp` and `Due`. Bytes are numbered as they arrive; `handed`,
`wire`, `quiet`, `excused` are histories that begin anew with each level or
answer.

`Start`, `Stop` and `Reset` are the task's init, exit and reset; the reset writes
the defaults of every port on a disk just formatted, as the build for debugging
does. The settings of a port are its silence, speed, parity and stop bits, each
with a setter (`Record`): the record is read, one field changed and the whole
written back. The setters that scripts call are `SetTimeout`, `SetBaudrate`,
`SetParity` and `SetStop`, of which the last sets the parity (vm_comm.c:182). The
ports' records lie one behind the other in one file. When another port is set and
the file has no record of this one yet, it is lengthened over this one's place
(`OtherPortSet`, and `Reset` when this port's write fails and a later one's does
not), and the next start reads zeros there: a silence replaced by 100, speed 0.
The histories `wanted`, `spoilt` and `zeroed` note what was asked for, what a
failed operation put at risk and what such a write made zero; they outlive levels.

## 4. The runs

| run | question | result |
|---|---|---|
| `kernel` | six tasks of the table, any supply, keys, console, failing disk, one watchdog reset: are levels kept apart and requests kept; does the mains level resume and a wake-up end? | holds |
| `hdlc_clean` | no loss; questions of 2, 3, 3 and 4 parts (4 overflow the buffer), answers of three frames, questions without an answer, refusals, time-outs, set-ups in the middle | holds |
| `hdlc_lossy` | two faults (a lost frame, an early resend); one-frame questions and answers, one question without an answer: in step until then, implements `Exchange`, answered in the end | holds |
| `hdlc_answer_resent` | one lost frame of a long answer | `AnswerWhole` violated |
| `disconnect` | three slots, two tables, masks, failing files, restarts, resets: the relay follows requests that count, its report and its mask are right | holds |
| `metering` | readings, walk, tariffs, clears, levels, losses of power, one failing file operation | holds |
| `metering_tariff` | does a change of tariff leave the others alone? | `TariffsApart` violated |
| `heap` | two tasks and short-lived blocks, every call at every turn of a walk, writes anywhere: lists sound, quotas kept, calls return, implements `HeapPromise` | holds |
| `dlms` | two channels, three sessions, two entries, five blocks; set-ups that fail half-way, releases, level changes, requests: no block lost or shared, entries follow links | holds |
| `xmodem` | two ports over one transfer, two faults, a second try: what is acknowledged is whole, transfers end | holds |
| `display` | keys, changes of list, one edit, restarts, resets, one failing operation: the item in view is the file's, the display rests and scrolls round | holds |
| `comm` | three bytes a level, answers of one and two bytes, a setting of this port and of another, resets, a failing file operation, interrupts anywhere: frames are what the line brought, answers go out whole, settings last | holds |

Five more configurations are kept for the reader and belong to the disagreements
of section 5: `MCHdlcQuestion.cfg` (`QuestionWhole` fails), `MCHdlcPoll.cfg`
(`InStep` fails), `MCMeteringBlank.cfg` (`Accounted` fails),
`MCAssociationsList.cfg` (`RunsWhatIsAsked` fails) and
`MCDisconnectPriority.cfg` (`PriorityWins` fails).

**Bounds, and why they are enough.** `WakeTime` 2 lets a wake-up last and be
renewed; `MaxStalls` 1 puts a watchdog reset in every state once, and the proofs
need neither bound. The six tasks are one of each kind the kernel can tell apart
(always up, with a block from init, with lazily taken blocks, freeing at exit or
leaving a pointer behind). In `Hdlc` each side numbers more than eight frames in
`hdlc_clean`, and two faults in `hdlc_lossy` are enough for a resend that meets a
resend. `MaxUnanswered` leaves two questions of a link unanswered in
`hdlc_clean`, of several parts and of what a resend leaves, and one in
`hdlc_lossy`; without an end to it a client could resend such a question for ever,
so once one is left unanswered the resends stop when the application has run
`MaxRuns` times. Three slots in `Disconnect` give one below and one above the deciding one;
`PollLoops` 2 is the shortest second with a loop inside. In `Metering`
`WritePeriod` 2 has walks and loops between them, `FlushAbove` 1 has registers
passed by and registers written, two readings reach and pass that threshold, two
tariffs are enough for one to be out of effect; one phase per register makes
`step` wrap within the run. `RateChoices` and `DivisorChoices` there are what
`Careful` allows, as in the theorems. Seven cells of memory in `Heap` hold three
blocks of the smallest size, so that a walk has a first, a middle and a last one,
and quotas of 3 are reached; sums stay below `Word`, as the assumption says. In
`dlms` five blocks are one less than two open links with their buffers and
associations want; channels, sessions and blocks are symmetric, and no property
there is temporal. `Xmodem`'s block number is of two bits, `Patience` 1 lets a
transfer end at any time; the image of the first client has two blocks, so
that one can be repeated after the next was sent. `Display`'s bytes are of two bits
so that a time of 255 (here 3) is reached, its lists have two places of which a
reset fills one, and an insertion lasts one loop. In `Comm` two places for three
bytes fill the buffer, the silence asked for is out of range and works as
twice the default, and every setting asked for differs from its default and from
zero. Faults are spent one at a time, every operation of a handler having its
own.

**Fairness.** `Kernel!FairSpec`: the main loop goes on, and bodies return; a body
that does not is ended by the watchdog. Nothing is assumed of supply, keys or
console. `Hdlc!FairSpec`: the period goes round (`tasks_sched()` calls both
tasks every period), the client reads replies and resends after silence; losses
are bounded by `MaxFaults`, not by fairness. `AnswerComes` promises nothing once a
question was left unanswered. `Metering!FairSpec`: the loop of a
task that is up keeps being called; nothing is assumed of readings.
`Heap!FairSpec`: a call runs to its end, for nothing else has the processor.
`Xmodem!FairSpec`: the period goes round; nothing is assumed of clients.
`Display!DisplayFairSpec`: its loop keeps being called; the properties speak of times
when nobody else calls for ever (`Disturbed`). `Comm!Spec`: the loop goes on
and the UART gets a byte out; nothing is assumed of the line.

**Deadlock** is checked but where the model really ends: in `dlms` after a use of
freed memory, in `heap` after a cleared null pointer, in `xmodem` when its clients
have done.

**Each property has a mutant** (`PROJECT.json`, "mutants"): a definition changed
the way a plausible bug would change it, and TLC then finds the property
violated. The changed definitions stand next to the right ones, marked "mutant".

## 5. What disagrees with the comments

1. `hdlc_datalink.c:1266`: a repeated RR takes the length of the whole frame off
   `sent`, which counts information bytes, so the answer is resent from the
   wrong byte (`hdlc_answer_resent`).
2. `task_metering.c:907`: a change of tariff writes the old tariff's waiting
   totals over the new one's (`metering_tariff`).
3. `hdlc_datalink.c:1144`: a resent part of a question is taken for a resend in
   the counters but added to the buffer again (`MCHdlcQuestion.cfg`).
4. `hdlc_datalink.c:1273`: an RR with the N(R) of the one before takes the send
   counter back even when its answer had not moved it (`MCHdlcPoll.cfg`).
5. `task_disconnect.c:79`: the comment at l.55 says requests are arbitrated by
   their priorities and masks, but the priority compared with is never updated,
   so that of two requests that disagree the last slot's wins
   (`MCDisconnectPriority.cfg`, `PriorityWins` fails). `RelayObeys` is silent about
   which of them wins.
6. `task_metering.c:1626`: the whole block is unreadable until its last register
   was written, which nothing does but a factory reset; each start counts from
   zero (`MCMeteringBlank.cfg`).
7. `dlms_application.c:2664`: a list refused because some of its objects are
   unknown leaves the others' entries alive, and the next request of the
   association runs them too (`MCAssociationsList.cfg`).
8. `vm_comm.c:182`: the script's stop setter sets the parity, in the port and in
   its file.

The first two have runs that TLC must find violated; the configurations named
with the others can be run by hand.

`QuestionWhole`, `InStep`, `RelayObeys`, `Accounted` and `RunsAskedUnlessLeft` say
what the code does hold to beside these; the passing runs and theorems are about
that, under the conditions they name. What a property excludes it does not catch:
the hazards of section 1 whose case is excluded say so in their notes.

Facts met while translating, which the models contain and no property contradicts:

- *Heap*: `heap_szalloc()` and `heap_dzalloc()` clear the block only if the
  allocation failed (heap.c:236, 318).
- *Disk*: after a failed mount `lfs_low_restart()` mounts no more until the next
  level (disk.c:138); a factory reset formats a flash driver that a request on
  battery has left suspended (disk.c:353).
- *HDLC*: a question the application leaves unanswered (hdlc_datalink.c:1169) is
  not only without an answer. Its resend takes the link's send counter back below
  what the client expects, and with several parts gives the application the last
  one alone. If the application answers that, the frame carries a number the
  client does not take; each resend refreshes the timer, so the two may go on so
  until the client sets the link up again.
- *DLMS*: an HLS association stays pending, GET-NEXT and SET with blocks are never
  served, the first and next blocks of an ACTION run the method and then answer
  that it is not supported (dlms_application.c:2172); two channels with the same
  pair of addresses share an association.
- *XMODEM*: every exception `DoneIsWhole` makes is needed. A frame for another
  meter clears another port's pending reply; a second port's blocks go into the
  first one's file; a repeated EOT is not answered; an opening in the middle of a
  transfer that has no block yet is acknowledged as a repeated block. A file whose
  size is no multiple of 128 cannot be sent to its end, and the script file is
  declared larger than its place in the file table (disk.c:93, 102).
- *Display*: the file of 4096 bytes (disk.c:95) is shorter than the structure, so
  the last place of the key list straddles its end and is not stored; `list_write`
  answers 16 also when nothing was written (842, 858); `change()` with a failed
  read keeps the old amount (425); the item before the first of an empty list is
  number 255 (502); the setters of decimal places write back an unchanged copy
  (690).
- *Disconnect*: `relay_priority_write()` writes the table in effect, whichever was
  meant (task_disconnect.c:175).
- *Ports*: a byte that arrives between the two halves of `+=` loses its reset of
  the counter, so that the frame may end early (rs485_1.c:155); bytes between the
  copy of a frame and its rewind are dropped; a line set up while it sends leaves
  the port busy until the level ends (vuart1.c:697); a first answer of one byte
  after a set-up may be followed by a byte that is not of it (607); the branch
  that waits a second for the reader (l.173) is never taken; setting a later port
  before an earlier one ever had a record makes the earlier one start with zeros
  (task_comm.c:178, 546).

## 6. What is proved

**Kernel** (`TaskProofs`), from `TasksAssumption`, `OrderAssumption`,
`SetsAssumption`, for any task table, wake-up time and number of watchdog
resets. None of the invariants is inductive alone. `IInv` adds: `PassInv`,
which levels a pass can be in and that the running task is not still to come;
`StorageInv`, that the levels that use files have their flash driver on; `TaskInv`,
that in a pass the tasks already reached are at the new level and none of the
others; `HeapInv`, which tasks may hold a pointer at all; `PowerInv`, that a
console command that was let through meets no reset, and that a wake-up is asked
for from sleep only. One case per action. `LevelsStayApart` puts the four parts of
`LevelsApart` together; `RequestsAreKept` is read off each action under the
invariant.

**Disconnect** (`DisconnectProofs`), from `DisconnectAssumption`, for any number
of slots, tables, masks, loops per second and faults. `DisconnectInv` adds to the
properties `Arbitrated` (with no change pending, the action is the arbitration's),
`Driven` (the relay is where the action put it) and `ReportTimed` (a wrong report
is no older than the clock). `RelayIsObedient` then needs a lemma on `Scan`: what
it leaves is the action of a slot that counts, and none only if none counts.

**Metering** (`MeteringProofs`), from `MeteringAssumption`, for any phases,
tariffs, periods, thresholds and faults. `MeteringTypeCorrect` holds of anything
callers do. `RegistersAccounted` and `PlannedEndLosesNothing` assume `Careful`:
tariffs that exist, divisors that are not zero, a file a factory reset has
written in full; `MCMeteringBlank.cfg` shows why the last is needed. `Accounted`
alone is not inductive: `AccountedInv` adds that the settings in RAM and in the
file name a tariff, that those in RAM are sound while the task is up (so that
`config_check()` does not change the tariff under the totals), and that without a
failure every tariff can be read.

**Hdlc** (`HdlcProofs`), from the module's assumptions. `HdlcTypeCorrect` holds for
questions, answers, frames and buffers of any size: `TypeInv` with `Sound` says the
link's place never passes what it holds. The others hold in two cases, each with
its own inductive invariant, and fail between them: one lost frame of an answer in
parts breaks `AnswerWhole`, a second poll of an idle link breaks `InStep` (section
5).

A question left unanswered breaks the exchange in either case, so `InStep` and
`QuestionWhole` speak of such questions themselves: the counters agree until the
first of a link, and what is run after it is a whole question or the last part of
one run before. The theorems leave them in, in both cases below.

- `SingleFrames`: questions and answers fit one frame, the line loses what it likes
  and the client resends when it likes. `StepInv`: `LinkInv` and `ClientInv` relate
  the counters on each side, `ToServerInv` and `ToClientInv` say what a frame on the
  line can be of (the exchange that is open or the one before), `OpenInv` relates
  the two ends of an open link, `HistInv` the histories.
- `Clean`: questions and answers in any number of parts, with time-outs, refusals,
  full buffers and set-ups in the middle, no frame lost or resent early, an idle
  link polled once at most, and fewer than eight questions of a link left
  unanswered, as each takes the send counter one back and eight bring it round.
  `CleanInv`: `OneFrame`, that what the client waits for is under way one way or
  the other, or the link is gone; `Agreed`, that until the meter takes the frame
  both ends have the same numbers, parts of the question and place in the answer;
  `PartFits`, `RestFits`, `PollFits` and `CallFits`, that the reply is the one to
  the frame the client waits on; `WholeInv`, that the pieces of each answer join
  from its first byte to its last. `InStep` follows from the parts about frames
  and replies, `QuestionWhole` and `AnswerWhole` from the last.

`ImplementsExchange` maps each action to a step of `Exchange` or to none; that the
application runs a question only when it is the last one asked (`RunSeen`) and that
an answer is of the question it ran (`AnswerSeen`) is shown from each of the two
invariants, the rest once.

**Heap** (`HeapProofs`), from `HeapAssumption`, for any memory, header, quotas and
tasks. `HeapInv` is `HeapTypeOK` with `HeapSound`'s parts, where `NoneLost` is not
inductive as it stands (what a link reaches is a set defined by the links): the
rank `Aged`, in which every link goes from a younger block to an older one, replaces
it, and a lemma gives reachability back. The order exists because a new
block is always linked in at the head. `PromiseInv` adds for the refinement
`KindInv` (slist has the blocks with an owner, dlist those without) and `Remaining`
(a walk that gives back has ahead of it all that it has still to give back), so
that `Held` changes in the first step of such a call and never again.
`StepsPromise` maps each step to one of the promise or to none, and
`HeapKeepsPromise` follows. `QuotaInv` adds
`CountInv`: the sum of a count that is under way, with the blocks ahead, is that of
the task's blocks. A sum over a set is a recursive function; its equations are
proved by induction over the naturals in the form that quantifies over sets (a set
of naturals closed under successor is all of them, from `WFMin`), as the
library's induction theorems cannot be used. The sum is taken modulo `Word` in the
code; it never wraps, because a task within its quota asks for no more than what
`HeapAssumption` lets one request and one quota be together.

**Display** (`TaskProofs`), from `DisplayAssumption`, for any lists, bytes, times,
items, edits, restarts and faults. `DisplayInv` adds to `DisplayTypeOK` and to
`ShowsItsList` that an amount that is not zero lies within the file's length
(`AmountsReached`): otherwise an item added to a list whose amount cannot be read
would go over the first one, which may be in view. The handlers are functions of
the view, so each has a lemma that it leaves a right view right (`Right`), and the
actions follow. The reset is an iteration: `Iteration` says that any number of
steps can be taken, by the same induction as the sums of `Heap`.

**Associations** (`AssociationsProofs`), for any number of channels, sessions,
entries, blocks and objects. `Inv` has `AssociationsTypeOK`, `LinkShape` and
`SlotShape` (which fields of a link or an entry go together), `MemorySound`,
`EntryFollowsLink`, `Leftovers` (what a request may leave alive) and
`RunsAskedUnlessLeft`. That the blocks in use are a partition is proved owner by
owner: each action changes one owner's blocks and leaves the others'.

**Comm** (`CommProofs`), from `CommAssumption`, for any buffer, period, settings and
faults. The invariant has the types and four parts. `LineInv` with `LostInv`: the
frames handed, the copy and the buffer are, in this order, one increasing run of
the line's bytes, and whatever is in none of them is excused. `TimeInv` relates
the runner's counter to the passes since the last byte, in each half of the `+=`
and with the byte that falls between them. `SendInv` ties the port's status, the
UART's and the positions sent. `SettingInv` says that what a read of the file
would give is, field by field, what was wanted, or zero where another port's write
made it so, but for spoilt fields; and that a record that is not there has no such
zeros.

**Xmodem** (`XmodemProofs`), from `XmodemAssumption` (of `Modulus` only that two
neighbouring blocks have different numbers), for any ports, images, files,
attempts and faults. `DoneIsWhole` needs four parts besides the types. `ClientInv`:
a client that sent nothing too early has nothing on the line but the frame it waits
on. `HistoryInv`: no history names an attempt still to come. `OwnInv`: while the
transfer is its own, a client is never more than one reply behind the meter, so
that no ACK is under way for a block not yet written, nor two for a written one.
`EndedInv`: after the end the file stays as it is.

**Model-checked only**: liveness (`RunResumes`, `PowerRequestsEnd`, `AnswerComes`,
`EveryRegisterSaved`, `CallsReturn`, `TransferEnds`, `DisplayRests`,
`ScrollGoesRound`, `PortFreed`), which is out of the prover's reach. Every
invariant and action property of the passing runs has its theorem, and so has each
refinement.

## 7. What the models leave out

- Bytes: encodings, checks (a check is the contents it was computed from),
  texts, addresses, HDLC length negotiation.
- Time beyond counted periods; load measurement; sleep modes of the processor.
- `Hdlc`: RNR and unknown frames, UI frames (`hdlc_send_info` has no caller),
  several channels (but see `Associations`). A link that is closed drops I and RR:
  `hdlc_errors` is read uninitialised there, and both outcomes leave the link as it
  is. The branch for frames out of sequence is in the model but the client never
  sends one. `AnswerLength > 0` is the length of an answer there is; the question
  without one is an action of its own.
- `Kernel`: `POWER_REBOOT` and `task_ctrl_reset()` have no caller. The reset pass
  writes on a flash driver that a request on battery has left suspended;
  `MountedFlashIsOn` leaves that pass out and says so.
- `Associations`: which question an authentication mechanism accepts, ciphering,
  the frame counter; access rights in `Requests`; all are choices.
  `dlms_asso_key_eliminate()` has no caller.
- `Display`: the decimal places, which only formatting reads, and what the LCD
  shows.
- `Comm`: the module port (plug detection, AT commands), the registered monitors
  and `comm->reset`, which nothing calls; errors of the UART (parity, overrun),
  which make a byte not arrive. The task's own stop setter, which nothing calls.
  When the task's buffers cannot be had it is in error, and the scheduler skips it:
  the port stays off, as between `Stop` and `Start`. The script's conversions of
  its arguments are left out.
- `Disconnect`: the Lua bindings (empty), the emulator's datagrams.
- `Metering`: values derived on demand, demand (stubs), ratios and calibration
  values nothing else reads, the chip's calibration, RAM that changes by itself
  and the reread that answers it (l.1696-1714). Neither the C code nor the Lua
  bindings call the setters; they are exported, and the model calls them between
  any two loops, as one body does to another.
- Ring and parallel files (disk.c from l.700): no ring file is in the file table,
  and the only parallel file, `firmware`, has no user since image transfer is a
  stub. No sequence of calls of this program reaches them.
- Logger: its loop samples inputs that the drivers of this build never raise.
  Timed: a table with additions and removals that no loop reads.
- AT commands, calendar, NVRAM: no behaviour to model (stubs, an empty file, a
  table without users). Security setup and image transfer are stubs.
- Third-party code. Of the repository's 241,000 lines of C about 47,000 are its
  own; the others are Lua, littlefs, mbed TLS and the STM32 library. Of its own,
  the larger part has no state to go wrong: attribute encoders of COSEM objects
  (one function per attribute), segment tables and fonts of the LCD, register
  set-up, tables of constants, and the getters of the metering interface. The
  models follow the parts that keep state over several calls.

## 8. Running

`tlc -config MCKernel.cfg MCKernel.tla` and likewise for each run of
`PROJECT.json`; every passing run ends within five minutes on two workers.
`tlapm TaskProofs.tla`, and likewise for `HdlcProofs`, `DisconnectProofs`,
`MeteringProofs`, `HeapProofs`, `AssociationsProofs`, `CommProofs` and
`XmodemProofs`, check the proofs, with Z3, Zenon and LS4.
