-------------------------------- MODULE Comm --------------------------------
(***************************************************************************)
(* One serial port of the meter: the UART's interrupt handlers             *)
(* (Devices/buses/Src/vuart1.c), the framing by silence on top of them     *)
(* (Devices/serial/Src/rs485_1.c), and the communication task that polls   *)
(* the port once per period, hands frames to the protocols, takes their    *)
(* answers and keeps the port's settings (Tasks/Comm/Src/task_comm.c).     *)
(*                                                                         *)
(* The main program is cut at every point where an interrupt makes a       *)
(* difference; between two of its steps the handlers run whole.  The build *)
(* with interrupts (BUILD_REAL_WORLD) is the one modelled; the other ports *)
(* differ in their pins.  Received bytes are numbered as they arrive, and  *)
(* a byte of an answer is its position in the answer.                      *)
(***************************************************************************)
EXTENDS Naturals, Sequences, Functions

CONSTANTS
  RxSize,          \* COMM_CONF_BUFF: places of the receive buffer
  Period,          \* KERNEL_PERIOD
  DefaultTimeout,  \* 50: the silence that ends a frame, until one is set
  MinTimeout, MaxTimeout,  \* 10 and 3000: a silence outside of them ...
  Substitute,      \* ... is replaced by 100
  DefaultBaudrate, \* BDRT_9600
  Choices,         \* the values a script may ask for, setting by setting
  AnswerSizes,     \* lengths of the protocols' answers
  Blank,           \* there is no file "comm", or it ends before this port's record
  FirstFiles,      \* what an earlier life of the meter may have left there
  MaxBytes, MaxSets, MaxFaults  \* bounds of a behaviour

Fields == {"timeout", "baudrate", "parity", "stop"}
Settings == [Fields -> Nat]

ASSUME CommAssumption ==
  /\ RxSize \in Nat \ {0} /\ Period \in Nat \ {0}
  /\ MinTimeout \in Nat \ {0} /\ MaxTimeout \in Nat
  /\ {DefaultTimeout, Substitute} \subseteq MinTimeout .. MaxTimeout
  /\ DefaultBaudrate \in Nat
  /\ Choices \in [Fields -> SUBSET Nat]
  /\ AnswerSizes \subseteq Nat \ {0}
  /\ Blank \notin Settings
  /\ FirstFiles \subseteq Settings \cup {Blank}
  /\ {MaxBytes, MaxSets, MaxFaults} \subseteq Nat

VARIABLES
  pc,        \* the point the main program has reached in comm_loop()
  rx,        \* rx_buff up to rx_w_index, rx_frame_length, timeout_rx_counter
  loaded,    \* the counter as rs485_runner() read it
  copied,    \* the frame as rs485_read() copied it
  tx,        \* the port's status, tx_data_size and timeout_tx_counter
  uart,      \* bus_status, length, sent, the TC interrupt's enable and flag
  effect,    \* the settings the port works with
  file,      \* the record of this port in the file that the ports share
  arrived,   \* history: bytes the line has brought
  handed,    \* history: frames given to stream.in()
  excused,   \* history: bytes that met a full buffer or a frame being read
  quiet,     \* history: passes since the last stored byte
  raced,     \* history: that byte came inside the runner
  answer,    \* history: length of the answer in tx_buff, the last stream.out()
  wire,      \* history: the positions of it the UART was given
  prompt,    \* history: it was begun with the TC flag already up
  cut,       \* history: a setting of the line broke its sending
  wanted,    \* history: the settings as last asked of the task
  spoilt,    \* history: the settings a failed file operation may have lost
  zeroed,    \* history: the settings that the write of another port made zero
  sets, faults  \* counters for the bounds

lineVars == <<rx, loaded, copied, arrived, handed, excused, quiet, raced>>
sendVars == <<tx, uart, answer, wire, prompt, cut>>
settingVars == <<effect, file, wanted, spoilt, zeroed, sets, faults>>
vars == <<pc, lineVars, sendVars, settingVars>>

Points == {"off", "rest", "stamp", "due", "rewind", "release", "answer"}

\* comm_init() gave the port its buffers
Up == pc # "off"

\* mutant: the limits are not looked at
AdmittedAsAsked(ms) == ms

\* rs485_timeout_config()
Admitted(ms) == IF ms < MinTimeout \/ ms > MaxTimeout THEN Substitute ELSE ms

\* 50 ms, 9600 baud, PARI_NONE, STOP_ONE
Default == [f \in Fields |->
  CASE f = "timeout" -> DefaultTimeout [] f = "baudrate" -> DefaultBaudrate [] OTHER -> 0]

\* the port works with a setting of its file, or with one it was given, like this
Works(field, value) == IF field = "timeout" THEN Admitted(value) ELSE value

QuietMax == MaxTimeout + 1

EmptyRx == [bytes |-> <<>>, frame |-> 0, timer |-> 0]
IdleTx == [status |-> "IDLE", size |-> 0, timer |-> 0]
IdleUart == [bus |-> "IDLE", length |-> 0, sent |-> 0, irq |-> FALSE, flag |-> FALSE]

\* what a part of the file reads as that was never written
Zeros == [f \in Fields |-> 0]

-----------------------------------------------------------------------------
\* The interrupt handlers.

\* VUART1_Recv_Handler() and recv_callback().
RecvByte ==
  /\ Up /\ arrived < MaxBytes
  /\ arrived' = arrived + 1
  /\ IF Len(rx.bytes) < RxSize
       THEN /\ rx' = [rx EXCEPT !.bytes = Append(@, arrived + 1), !.timer = 0]
            /\ quiet' = 0
            /\ raced' = (pc \in {"stamp", "due"})
       ELSE UNCHANGED <<rx, quiet, raced>>
  /\ excused' = IF Len(rx.bytes) = RxSize \/ pc = "rewind"
                  THEN excused \cup {arrived + 1} ELSE excused
  /\ UNCHANGED <<pc, loaded, copied, handed, sendVars, settingVars>>

\* mutant: the end of the sending does not free the bus
TransHandlerStaysBusy ==
  /\ uart.irq
  /\ IF uart.sent < uart.length
       THEN /\ uart' = [uart EXCEPT !.sent = @ + 1]
            /\ wire' = Append(wire, uart.sent + 1)
       ELSE uart' = [uart EXCEPT !.irq = FALSE] /\ UNCHANGED wire
  /\ UNCHANGED <<pc, lineVars, tx, answer, prompt, cut, settingVars>>

\* VUART1_Trans_Handler(): the byte before is out.
TransHandler ==
  /\ uart.irq
  /\ IF uart.sent < uart.length
       THEN /\ uart' = [uart EXCEPT !.sent = @ + 1]
            /\ wire' = Append(wire, uart.sent + 1)
       ELSE /\ uart' = [uart EXCEPT !.irq = FALSE, !.bus = "IDLE"]
            /\ UNCHANGED wire
  /\ UNCHANGED <<pc, lineVars, tx, answer, prompt, cut, settingVars>>

-----------------------------------------------------------------------------
\* The sending half of rs485_runner().

\* A write starts the delay; that of an idle port is not followed.
Delay ==
  /\ tx.status # "IDLE" /\ tx.timer < effect.timeout
  /\ tx' = [tx EXCEPT !.timer = @ + Period]
  /\ UNCHANGED <<uart, wire, prompt>>

Idle ==
  /\ tx.status = "IDLE"
  /\ UNCHANGED <<tx, uart, wire, prompt>>

Blocked ==
  /\ tx.timer >= effect.timeout /\ uart.bus # "IDLE"
  /\ UNCHANGED <<tx, uart, wire, prompt>>

Settle ==
  /\ tx.timer >= effect.timeout /\ uart.bus = "IDLE" /\ tx.status = "TRANSFER"
  /\ tx' = IdleTx
  /\ UNCHANGED <<uart, wire, prompt>>

\* mutant: the sending goes on from where the last one ended
LaunchGoesOn ==
  /\ tx.timer >= effect.timeout /\ uart.bus = "IDLE" /\ tx.status = "BUSY"
  /\ tx' = [tx EXCEPT !.status = "TRANSFER"]
  /\ uart' = [bus |-> "TRANSFER", length |-> tx.size, sent |-> uart.sent + 1,
              irq |-> TRUE, flag |-> FALSE]
  /\ wire' = Append(wire, uart.sent + 1)
  /\ UNCHANGED prompt

\* uart_write().  A line that was set up and has sent nothing yet may have its
\* TC flag up: the handler then runs as soon as the interrupt is enabled, and
\* sends the first byte before uart_write() sends data[sent].
Launch ==
  /\ tx.timer >= effect.timeout /\ uart.bus = "IDLE" /\ tx.status = "BUSY"
  /\ tx' = [tx EXCEPT !.status = "TRANSFER"]
  /\ \E early \in {FALSE, uart.flag} :
       LET first == IF early THEN <<1, 2>> ELSE <<1>> IN
       /\ uart' = [bus |-> "TRANSFER", length |-> tx.size, sent |-> Len(first),
                   irq |-> TRUE, flag |-> FALSE]
       /\ wire' = wire \o first
       /\ prompt' = early

Send == Idle \/ Delay \/ Blocked \/ Settle \/ Launch

-----------------------------------------------------------------------------
\* comm_loop(): rs485_runner(), rs485_read() and stream.in().  The sending half
\* of the runner shares nothing with the receiving handler, so it is taken in
\* the step before it.

Pass ==
  /\ pc = "rest"
  /\ IF rx.timer < effect.timeout
       THEN pc' = "stamp" /\ loaded' = rx.timer
       ELSE pc' = "due" /\ UNCHANGED loaded
  /\ quiet' = IF quiet < QuietMax THEN quiet + 1 ELSE quiet
  /\ UNCHANGED <<rx, copied, arrived, handed, excused, raced, sendVars, settingVars>>

\* timeout_rx_counter += msecond, stored over what a handler did meanwhile
Stamp ==
  /\ pc = "stamp"
  /\ rx' = [rx EXCEPT !.timer = loaded + Period]
  /\ loaded' = 0
  /\ Send
  /\ pc' = "answer"
  /\ UNCHANGED <<copied, arrived, handed, excused, quiet, raced, answer, cut,
                 settingVars>>

\* The silence was long enough: what is in the buffer is a frame, and
\* rs485_read() copies it.  A frame is read in the pass that ends it, so the
\* branch that waits another second for the reader is never taken.
Due ==
  /\ pc = "due"
  /\ Send
  /\ IF rx.bytes = <<>>
       THEN pc' = "answer" /\ UNCHANGED <<rx, copied>>
       ELSE /\ rx' = [rx EXCEPT !.frame = Len(rx.bytes)]
            /\ copied' = rx.bytes
            /\ pc' = "rewind"
  /\ UNCHANGED <<loaded, arrived, handed, excused, quiet, raced, answer, cut,
                 settingVars>>

Rewind ==
  /\ pc = "rewind"
  /\ rx' = [rx EXCEPT !.bytes = <<>>]
  /\ pc' = "release"
  /\ UNCHANGED <<loaded, copied, arrived, handed, excused, quiet, raced,
                 sendVars, settingVars>>

\* mutant: the buffer is rewound once the frame is handed over
ReleaseRewinds ==
  /\ pc = "release"
  /\ rx' = [rx EXCEPT !.frame = 0, !.bytes = <<>>]
  /\ handed' = Append(handed, copied)
  /\ copied' = <<>>
  /\ pc' = "answer"
  /\ UNCHANGED <<loaded, arrived, excused, quiet, raced, sendVars, settingVars>>

Release ==
  /\ pc = "release"
  /\ rx' = [rx EXCEPT !.frame = 0]
  /\ handed' = Append(handed, copied)
  /\ copied' = <<>>
  /\ pc' = "answer"
  /\ UNCHANGED <<loaded, arrived, excused, quiet, raced, sendVars, settingVars>>

-----------------------------------------------------------------------------
\* comm_loop(): stream.out() and rs485_write().

NoAnswer ==
  /\ pc = "answer"
  /\ pc' = "rest"
  /\ UNCHANGED <<lineVars, sendVars, settingVars>>

Answer ==
  /\ pc = "answer" /\ tx.status = "IDLE"
  /\ \E n \in AnswerSizes :
       /\ tx' = [status |-> "BUSY", size |-> n, timer |-> 0]
       /\ answer' = n
  /\ wire' = <<>> /\ prompt' = FALSE /\ cut' = FALSE
  /\ pc' = "rest"
  /\ UNCHANGED <<lineVars, uart, settingVars>>

-----------------------------------------------------------------------------
\* comm_init(), comm_exit() and comm_reset(), between two loops.

\* mutant: the other settings are not taken from the file
OnFileAnew(readable) == Default

\* What a read of the file leaves in the structure, and how many of the two
\* file operations failed though there was a record.
OnFile(readable) == IF readable /\ file # Blank THEN file ELSE Default
Failed(readable, writable) ==
  (IF readable \/ file = Blank THEN 0 ELSE 1) + (IF writable THEN 0 ELSE 1)

\* The port works with its record, and without one with the defaults.  Without
\* buffers, as heap.salloc() fails, the task is in error: it is neither looped
\* nor handed out, and the port stays off.
Start ==
  /\ pc = "off" /\ pc' = "rest"
  /\ uart' = [IdleUart EXCEPT !.flag = TRUE]
  /\ \E readable \in BOOLEAN :
       LET failed == Failed(readable, TRUE) IN
       /\ faults + failed <= MaxFaults
       /\ faults' = faults + failed
       /\ effect' = [f \in Fields |-> Works(f, OnFile(readable)[f])]
       /\ spoilt' = IF failed = 0 THEN spoilt ELSE Fields
  /\ UNCHANGED <<lineVars, tx, answer, wire, prompt, cut, file, wanted, zeroed, sets>>

\* rs485_suspend() and uart_suspend().  Nothing of the line outlives them, and
\* its histories begin anew.
Suspend ==
  /\ pc' = "off"
  /\ rx' = EmptyRx /\ tx' = IdleTx /\ uart' = IdleUart
  /\ effect' = [effect EXCEPT !.timeout = DefaultTimeout]
  /\ arrived' = 0 /\ handed' = <<>> /\ excused' = {} /\ quiet' = 0 /\ raced' = FALSE
  /\ answer' = 0 /\ wire' = <<>> /\ prompt' = FALSE /\ cut' = FALSE
  /\ UNCHANGED <<loaded, copied, sets>>

Stop ==
  /\ pc = "rest"
  /\ Suspend
  /\ UNCHANGED <<file, wanted, spoilt, zeroed, faults>>

\* comm_reset() after the disk was formatted, in the build for debugging: the
\* defaults are written port by port.  If this port's write fails and a later
\* one does not, the file reads as zeros where this port's record should be.
Reset ==
  /\ pc \in {"rest", "off"}
  /\ Suspend
  /\ \E own, later \in BOOLEAN :
       LET failed == IF own THEN 0 ELSE 1 IN
       /\ faults + failed <= MaxFaults
       /\ faults' = faults + failed
       /\ file' = IF own THEN Default ELSE IF later THEN Zeros ELSE Blank
       /\ zeroed' = IF later /\ ~own THEN Fields ELSE {}
  /\ wanted' = Default /\ spoilt' = {}

-----------------------------------------------------------------------------
\* serial_timeout_set(), serial_baudrate_set() and serial_parity_set(), which
\* scripts call: the record is read, one field of it changed and the whole
\* written back, without looking at the outcome.

Record(field, value) ==
  /\ pc = "rest" /\ sets < MaxSets
  /\ sets' = sets + 1
  /\ \E readable, writable \in BOOLEAN :
       LET failed == Failed(readable, writable)
           mixed  == IF Failed(readable, TRUE) = 0 THEN spoilt ELSE Fields IN
       /\ faults + failed <= MaxFaults
       /\ faults' = faults + failed
       /\ file' = IF writable THEN [OnFile(readable) EXCEPT ![field] = value] ELSE file
       /\ spoilt' = IF writable THEN mixed \ {field} ELSE spoilt \cup {field}
       /\ zeroed' = IF writable THEN zeroed \ {field} ELSE zeroed
  /\ wanted' = [wanted EXCEPT ![field] = value]
  /\ effect' = [effect EXCEPT ![field] = Works(field, value)]
  /\ UNCHANGED <<pc, lineVars, tx, answer, wire, prompt>>

SetTimeout ==
  /\ \E ms \in Choices["timeout"] : Record("timeout", ms)
  /\ UNCHANGED <<uart, cut>>

\* uart_baudrate_set() and uart_parity_set() set the whole UART up again: the TC
\* interrupt is off then, while bus_status stays as it is.
SetLine(field, value) ==
  /\ Record(field, value)
  /\ uart' = [uart EXCEPT !.irq = FALSE, !.flag = TRUE]
  /\ cut' = (cut \/ uart.bus # "IDLE")

SetBaudrate == \E baud \in Choices["baudrate"] : SetLine("baudrate", baud)
SetParity == \E parity \in Choices["parity"] : SetLine("parity", parity)

\* The script's stop.set calls the task's parity.set; nothing calls its stop.set.
SetStop == \E stop \in Choices["stop"] : SetLine("parity", stop)

\* A setting of a port whose record comes later in the file: the file now goes
\* on beyond this port's record, which reads as zeros if it was never written.
OtherPortSet ==
  /\ pc = "rest" /\ file = Blank
  /\ file' = Zeros /\ zeroed' = Fields
  /\ UNCHANGED <<pc, lineVars, sendVars, effect, wanted, spoilt, sets, faults>>

-----------------------------------------------------------------------------
Init ==
  /\ pc = "off"
  /\ rx = EmptyRx /\ loaded = 0 /\ copied = <<>>
  /\ tx = IdleTx /\ uart = IdleUart
  /\ effect = Default /\ file \in FirstFiles
  /\ wanted = IF file = Blank THEN Default ELSE file
  /\ arrived = 0 /\ handed = <<>> /\ excused = {} /\ quiet = 0 /\ raced = FALSE
  /\ answer = 0 /\ wire = <<>> /\ prompt = FALSE /\ cut = FALSE
  /\ spoilt = {} /\ zeroed = {} /\ sets = 0 /\ faults = 0

Loop == Pass \/ Stamp \/ Due \/ Rewind \/ Release \/ NoAnswer \/ Answer
Interrupts == RecvByte \/ TransHandler
Script == SetTimeout \/ SetBaudrate \/ SetParity \/ SetStop \/ OtherPortSet
Next == Loop \/ Interrupts \/ Start \/ Stop \/ Reset \/ Script

\* The kernel calls the loop every period, and the UART gets a byte out.
Spec == Init /\ [][Next]_vars /\ WF_vars(Loop) /\ WF_vars(TransHandler)

-----------------------------------------------------------------------------
\* Every variable stays in its range.
CommTypeOK ==
  /\ pc \in Points
  /\ Len(rx.bytes) <= RxSize
  /\ rx \in [bytes : Seq(1 .. MaxBytes), frame : 0 .. RxSize, timer : Nat]
  /\ loaded \in Nat
  /\ copied \in Seq(1 .. MaxBytes)
  /\ tx \in [status : {"IDLE", "BUSY", "TRANSFER"}, size : {0} \cup AnswerSizes,
             timer : Nat]
  /\ uart \in [bus : {"IDLE", "TRANSFER"}, length : {0} \cup AnswerSizes, sent : Nat,
               irq : BOOLEAN, flag : BOOLEAN]
  /\ effect \in Settings /\ effect["timeout"] \in MinTimeout .. MaxTimeout
  /\ file \in Settings \cup {Blank} /\ wanted \in Settings
  /\ arrived \in 0 .. MaxBytes
  /\ handed \in Seq(Seq(1 .. MaxBytes))
  /\ excused \subseteq 1 .. MaxBytes
  /\ quiet \in 0 .. QuietMax /\ raced \in BOOLEAN
  /\ answer \in {0} \cup AnswerSizes /\ wire \in Seq(Nat \ {0})
  /\ prompt \in BOOLEAN /\ cut \in BOOLEAN
  /\ spoilt \subseteq Fields /\ zeroed \subseteq Fields
  /\ sets \in 0 .. MaxSets /\ faults \in 0 .. MaxFaults

\* What the protocols get is what the line brought: the bytes of a frame
\* followed each other on the line, frames come in their order and none twice
\* (rs485_1.c:224 against recv_callback() at any point of it).
FramesAreRuns ==
  /\ \A k \in 1 .. Len(handed) :
       /\ handed[k] # <<>>
       /\ \A i \in 1 .. Len(handed[k]) - 1 : handed[k][i + 1] = handed[k][i] + 1
  /\ \A k \in 1 .. Len(handed) - 1 : handed[k][Len(handed[k])] < handed[k + 1][1]

\* A byte the line brought is in a frame, on its way there, or met a full
\* buffer or a frame that was copied and not yet dropped.
NothingElseLost ==
  \A b \in 1 .. arrived :
    \/ b \in excused
    \/ b \in Range(rx.bytes)
    \/ b \in Range(copied)
    \/ \E k \in 1 .. Len(handed) : b \in Range(handed[k])

\* No frame runs on over a silence: a pass that finds the line quiet for the
\* timeout makes a frame of all that is in the buffer, and leaves the buffer
\* empty (rs485_1.c:153 to 246).
NoneRunsOn ==
  quiet > 0 /\ (quiet - 1) * Period >= effect.timeout =>
    /\ pc = "rewind" => copied = rx.bytes
    /\ pc = "answer" => rx.bytes = <<>>

\* A frame is ended by the timeout's silence and by nothing else, unless its
\* last byte came while the runner was counting (rs485_1.c:155).
EndsInSilence ==
  [][rx.frame = 0 /\ rx'.frame # 0
       => raced \/ (quiet - 1) * Period >= effect.timeout]_vars

\* The line is read faithfully: all of the above.
LineIsRead == [](FramesAreRuns /\ NothingElseLost /\ NoneRunsOn) /\ EndsInSilence

\* An answer goes out whole, its bytes in order and once, and the port is free
\* only after the last of them, unless the answer was cut; a single byte sent
\* with the TC flag up is followed by one that is not of the answer
\* (vuart1.c:176, 607).
AnswersGoOutWhole ==
  LET whole == IF answer = 1 /\ prompt THEN 2 ELSE answer IN
  /\ \A i \in 1 .. Len(wire) : wire[i] = i
  /\ Len(wire) <= whole
  /\ tx.status = "IDLE" /\ ~cut => Len(wire) = whole

\* The port works with each setting as it was last asked of the task, over any
\* number of restarts and factory resets, unless a failed file operation put
\* that setting at risk since (task_comm.c:156, 546, 742).  What a write of
\* another port made of a record that was never written, works as zero once the
\* port starts again.
SettingsKept ==
  Up => \A f \in Fields \ spoilt :
          \/ effect[f] = Works(f, wanted[f])
          \/ f \in zeroed /\ effect[f] = Works(f, 0)

\* A port that has something to send gets rid of it, unless the line was set
\* while the UART was sending (vuart1.c:697).
PortFreed ==
  (tx.status # "IDLE" /\ ~cut) ~> (tx.status = "IDLE" \/ cut)
=============================================================================
