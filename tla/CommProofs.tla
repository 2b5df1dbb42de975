------------------------------ MODULE CommProofs -----------------------------
(***************************************************************************)
(* Proofs about one serial port, for any buffer, period, limits, settings  *)
(* and number of bytes, answers and faults.  The inductive invariant has   *)
(* five parts, each proved of every step by itself: the types; what the    *)
(* buffers hold of the line; what the counter says of the silence; how far *)
(* an answer has got; and how the file, the port and the wishes agree.     *)
(***************************************************************************)
EXTENDS Comm, SequenceTheorems, TLAPS

-----------------------------------------------------------------------------
\* The constants and the small operators.

\* The constants are natural numbers, in the ranges the proofs use.
LEMMA Numbers ==
  /\ RxSize \in Nat /\ RxSize >= 1 /\ Period \in Nat /\ Period >= 1
  /\ MinTimeout \in Nat /\ MinTimeout >= 1 /\ MaxTimeout \in Nat
  /\ DefaultTimeout \in MinTimeout .. MaxTimeout
  /\ Substitute \in MinTimeout .. MaxTimeout
  /\ MaxBytes \in Nat /\ MaxSets \in Nat /\ MaxFaults \in Nat
  BY CommAssumption DEF CommAssumption

\* The next byte has a number of its own.
LEMMA NextByte ==
  ASSUME arrived \in 0 .. MaxBytes, arrived < MaxBytes
  PROVE  arrived + 1 \in 1 .. MaxBytes
  BY Numbers

\* The sizes of answers and what scripts ask for are numbers too.
LEMMA Sizes ==
  /\ \A f \in Fields : Choices[f] \subseteq Nat
  /\ \A n \in AnswerSizes : n \in Nat /\ n >= 1
<1>1. Choices \in [Fields -> SUBSET Nat] /\ AnswerSizes \subseteq Nat \ {0}
  BY CommAssumption DEF CommAssumption
<1>. QED
  BY <1>1

\* A file holds settings or is blank.
LEMMA Files ==
  /\ FirstFiles \subseteq Settings \cup {Blank}
  /\ Blank \notin Settings
  BY CommAssumption DEF CommAssumption

\* rs485_timeout_config() leaves no silence out of its limits.
LEMMA AdmittedInLimits ==
  \A ms \in Nat : Admitted(ms) \in MinTimeout .. MaxTimeout
  BY Numbers DEF Admitted

\* What a port makes of a setting is a number, and a silence within the limits.
LEMMA WorksInRange ==
  ASSUME NEW field \in Fields, NEW value \in Nat
  PROVE  Works(field, value) \in Nat /\ Works("timeout", value) \in MinTimeout .. MaxTimeout
  BY AdmittedInLimits, Numbers DEF Works

\* The default settings are settings, and a silence within the limits.
LEMMA DefaultIsSetting == Default \in Settings /\ Default["timeout"] = DefaultTimeout
<1>1. DefaultBaudrate \in Nat /\ DefaultTimeout \in Nat
  BY Numbers, CommAssumption DEF CommAssumption
<1>. QED
  BY <1>1 DEF Default, Settings, Fields

\* So are the zeros of a record that was never written.
LEMMA ZerosAreSettings == Zeros \in Settings /\ \A f \in Fields : Zeros[f] = 0
  BY DEF Zeros, Settings

\* Whatever the read of the file does, a whole setting comes of it.
LEMMA OnFileIsSetting ==
  ASSUME file \in Settings \cup {Blank}
  PROVE  \A readable \in BOOLEAN : OnFile(readable) \in Settings
  BY DefaultIsSetting DEF OnFile

\* A script sets up the line.
LineSet == \E field \in Fields, value \in Nat : SetLine(field, value)

\* The setters of the line differ in the field alone.
LEMMA LineSetters == SetBaudrate \/ SetParity \/ SetStop => LineSet
  BY Sizes DEF SetBaudrate, SetParity, SetStop, LineSet, Fields

\* What a step can be.
LEMMA Steps ==
  Next => Loop \/ Interrupts \/ Start \/ Stop \/ Reset \/ SetTimeout \/ LineSet \/ OtherPortSet
  BY LineSetters DEF Next, Script

\* The ends of the task.
LEMMA Suspended == Stop \/ Reset => Suspend /\ pc \in {"rest", "off"}
  BY DEF Stop, Reset

-----------------------------------------------------------------------------
\* The type invariant, in the three parts that the steps disturb apart.

RxType == [bytes : Seq(1 .. MaxBytes), frame : 0 .. RxSize, timer : Nat]
TxType == [status : {"IDLE", "BUSY", "TRANSFER"}, size : {0} \cup AnswerSizes, timer : Nat]
UartType == [bus : {"IDLE", "TRANSFER"}, length : {0} \cup AnswerSizes, sent : Nat,
             irq : BOOLEAN, flag : BOOLEAN]

LineTypes ==
  /\ pc \in Points
  /\ Len(rx.bytes) <= RxSize /\ rx \in RxType
  /\ loaded \in Nat
  /\ copied \in Seq(1 .. MaxBytes)
  /\ arrived \in 0 .. MaxBytes
  /\ handed \in Seq(Seq(1 .. MaxBytes))
  /\ excused \subseteq 1 .. MaxBytes
  /\ quiet \in 0 .. QuietMax /\ raced \in BOOLEAN

SendTypes ==
  /\ tx \in TxType /\ uart \in UartType
  /\ answer \in {0} \cup AnswerSizes /\ wire \in Seq(Nat \ {0})
  /\ prompt \in BOOLEAN /\ cut \in BOOLEAN

SettingTypes ==
  /\ effect \in Settings /\ effect["timeout"] \in MinTimeout .. MaxTimeout
  /\ file \in Settings \cup {Blank} /\ wanted \in Settings
  /\ spoilt \subseteq Fields /\ zeroed \subseteq Fields
  /\ sets \in 0 .. MaxSets /\ faults \in 0 .. MaxFaults

\* The type invariant in three parts: the line, the answers, the settings.
LEMMA TypeParts == CommTypeOK <=> LineTypes /\ SendTypes /\ SettingTypes
  BY DEF CommTypeOK, LineTypes, SendTypes, SettingTypes, RxType, TxType, UartType

\* The empty buffer, and the empty list of frames.
LEMMA NoBytes ==
  /\ <<>> \in Seq(1 .. MaxBytes) /\ <<>> \in Seq(Seq(1 .. MaxBytes))
  /\ <<>> \in Seq(Nat \ {0}) /\ Len(<<>>) = 0
  OBVIOUS

\* The types hold at the start.
LEMMA TypeInit == Init => LineTypes /\ SendTypes /\ SettingTypes
<1>. SUFFICES ASSUME Init PROVE LineTypes /\ SendTypes /\ SettingTypes
  OBVIOUS
<1>1. file \in Settings \cup {Blank} /\ wanted \in Settings
  BY DefaultIsSetting, Files DEF Init
<1>2. effect \in Settings /\ effect["timeout"] \in MinTimeout .. MaxTimeout
  BY Numbers, DefaultIsSetting DEF Init
<1>3. LineTypes
  <2>1. rx \in RxType /\ Len(rx.bytes) <= RxSize
    BY NoBytes, Numbers DEF Init, EmptyRx, RxType
  <2>2. quiet \in 0 .. QuietMax /\ arrived \in 0 .. MaxBytes
    BY Numbers DEF Init, QuietMax
  <2>. QED
    BY <2>1, <2>2, NoBytes DEF Init, LineTypes, Points
<1>4. SendTypes
  BY NoBytes DEF Init, SendTypes, TxType, UartType, IdleTx, IdleUart
<1>5. SettingTypes
  BY <1>1, <1>2, Numbers DEF Init, SettingTypes
<1>. QED
  BY <1>3, <1>4, <1>5

\* Of the line.
LEMMA LineTypesStep ==
  ASSUME LineTypes, [Next]_vars
  PROVE  LineTypes'
<1>1. CASE RecvByte
  <2>1. arrived + 1 \in 1 .. MaxBytes
    BY <1>1, NextByte DEF RecvByte, LineTypes
  <2>2. rx.bytes \in Seq(1 .. MaxBytes)
    BY DEF LineTypes, RxType
  <2>3. Append(rx.bytes, arrived + 1) \in Seq(1 .. MaxBytes)
        /\ Len(Append(rx.bytes, arrived + 1)) = Len(rx.bytes) + 1
    BY <2>1, <2>2
  <2>4. Len(rx'.bytes) <= RxSize /\ rx' \in RxType
    <3>1. CASE Len(rx.bytes) < RxSize
      <4>1. rx' = [rx EXCEPT !.bytes = Append(rx.bytes, arrived + 1), !.timer = 0]
        BY <1>1, <3>1 DEF RecvByte
      <4>2. rx' \in RxType /\ rx'.bytes = Append(rx.bytes, arrived + 1)
        BY <4>1, <2>3 DEF LineTypes, RxType
      <4>. QED
        BY <4>2, <2>2, <2>3, <3>1, Numbers
    <3>2. CASE ~(Len(rx.bytes) < RxSize)
      BY <1>1, <3>2 DEF RecvByte, LineTypes
    <3>. QED
      BY <3>1, <3>2
  <2>5. excused' \subseteq 1 .. MaxBytes
    BY <1>1, <2>1 DEF RecvByte, LineTypes
  <2>6. quiet' \in 0 .. QuietMax /\ raced' \in BOOLEAN
    <3>1. 0 \in 0 .. QuietMax
      BY Numbers DEF QuietMax
    <3>2. quiet' \in {0, quiet}
      BY <1>1 DEF RecvByte
    <3>3. raced' = (pc \in {"stamp", "due"}) \/ raced' = raced
      BY <1>1 DEF RecvByte
    <3>4. quiet' \in 0 .. QuietMax
      BY <3>1, <3>2 DEF LineTypes
    <3>5. raced' \in BOOLEAN
      <4>1. raced \in BOOLEAN /\ (pc \in {"stamp", "due"}) \in BOOLEAN
        BY DEF LineTypes
      <4>. QED
        BY <3>3, <4>1
    <3>. QED
      BY <3>4, <3>5
  <2>. QED
    BY <1>1, <2>1, <2>4, <2>5, <2>6 DEF RecvByte, LineTypes
<1>2. CASE Pass
  BY <1>2, Numbers DEF Pass, LineTypes, RxType, Points, QuietMax
<1>3. CASE Stamp
  <2>1. rx' \in RxType /\ rx'.bytes = rx.bytes
    <3>1. loaded + Period \in Nat
      BY Numbers DEF LineTypes
    <3>. QED
      BY <1>3, <3>1 DEF Stamp, LineTypes, RxType
  <2>. QED
    BY <1>3, <2>1 DEF Stamp, LineTypes, Points
<1>4. CASE Due
  <2>1. rx.bytes \in Seq(1 .. MaxBytes) /\ Len(rx.bytes) \in 0 .. RxSize
    BY Numbers DEF LineTypes, RxType
  <2>2. /\ rx' \in RxType /\ rx'.bytes = rx.bytes /\ copied' \in Seq(1 .. MaxBytes)
        /\ pc' \in {"answer", "rewind"}
    BY <1>4, <2>1 DEF Due, LineTypes, RxType
  <2>. QED
    BY <1>4, <2>2 DEF Due, LineTypes, Points
<1>5. CASE Rewind
  <2>1. rx' \in RxType /\ rx'.bytes = <<>>
    BY <1>5, NoBytes DEF Rewind, LineTypes, RxType
  <2>. QED
    BY <1>5, <2>1, NoBytes, Numbers DEF Rewind, LineTypes, Points
<1>6. CASE Release
  <2>1. rx' \in RxType /\ rx'.bytes = rx.bytes
    <3>1. 0 \in 0 .. RxSize
      BY Numbers
    <3>. QED
      BY <1>6, <3>1 DEF Release, LineTypes, RxType
  <2>2. handed' \in Seq(Seq(1 .. MaxBytes))
    BY <1>6 DEF Release, LineTypes
  <2>. QED
    BY <1>6, <2>1, <2>2, NoBytes DEF Release, LineTypes, Points
<1>7. CASE Stop \/ Reset
  <2>1. rx' \in RxType /\ Len(rx'.bytes) <= RxSize
    <3>1. rx' = [bytes |-> <<>>, frame |-> 0, timer |-> 0] /\ 0 \in 0 .. RxSize
      BY <1>7, Suspended, Numbers DEF Suspend, EmptyRx
    <3>. QED
      BY <3>1, NoBytes, Numbers DEF RxType
  <2>2. quiet' \in 0 .. QuietMax /\ arrived' \in 0 .. MaxBytes
    BY <1>7, Suspended, Numbers DEF Suspend, QuietMax
  <2>. QED
    BY <1>7, Suspended, <2>1, <2>2, NoBytes DEF Suspend, LineTypes, Points
<1>8. CASE TransHandler \/ NoAnswer \/ Answer \/ Start
  BY <1>8 DEF TransHandler, NoAnswer, Answer, Start, LineTypes, Points, lineVars
<1>9. CASE SetTimeout \/ LineSet \/ OtherPortSet \/ UNCHANGED vars
  BY <1>9 DEF SetTimeout, LineSet, SetLine, OtherPortSet, Record, vars, LineTypes, lineVars
<1>. QED
  BY <1>1, <1>2, <1>3, <1>4, <1>5, <1>6, <1>7, <1>8, <1>9, Steps DEF Loop, Interrupts

\* Of the sending.
LEMMA SendTypesOfSend ==
  ASSUME SendTypes, Send
  PROVE  tx' \in TxType /\ uart' \in UartType /\ wire' \in Seq(Nat \ {0}) /\ prompt' \in BOOLEAN
<1>1. CASE Idle \/ Blocked \/ Settle
  <2>1. IdleTx \in TxType
    BY DEF IdleTx, TxType
  <2>2. /\ tx' = tx \/ tx' = IdleTx
        /\ uart' = uart /\ wire' = wire /\ prompt' = prompt
    BY <1>1 DEF Idle, Blocked, Settle
  <2>3. tx \in TxType /\ uart \in UartType /\ wire \in Seq(Nat \ {0}) /\ prompt \in BOOLEAN
    BY DEF SendTypes
  <2>4. tx' \in TxType
    BY <2>1, <2>2, <2>3
  <2>5. uart' \in UartType /\ wire' \in Seq(Nat \ {0})
    BY <2>2, <2>3
  <2>6. prompt' \in BOOLEAN
    BY <2>2, <2>3
  <2>. QED
    BY <2>4, <2>5, <2>6
<1>2. CASE Delay
  <2>1. tx.timer + Period \in Nat
    BY Numbers DEF SendTypes, TxType
  <2>2. tx' \in TxType /\ uart' \in UartType /\ wire' \in Seq(Nat \ {0})
    BY <1>2, <2>1 DEF Delay, SendTypes, TxType
  <2>3. prompt \in BOOLEAN /\ prompt' = prompt
    BY <1>2 DEF Delay, SendTypes
  <2>. QED
    BY <2>2, <2>3
<1>3. CASE Launch
  <2>1. PICK early \in {FALSE, uart.flag} :
          LET first == IF early THEN <<1, 2>> ELSE <<1>> IN
          /\ uart' = [bus |-> "TRANSFER", length |-> tx.size, sent |-> Len(first),
                      irq |-> TRUE, flag |-> FALSE]
          /\ wire' = wire \o first
          /\ prompt' = early
    BY <1>3 DEF Launch
  <2>2. early \in BOOLEAN
    BY DEF SendTypes, UartType
  <2>3. <<1, 2>> \in Seq(Nat \ {0}) /\ <<1>> \in Seq(Nat \ {0})
    OBVIOUS
  <2>4. wire' \in Seq(Nat \ {0})
    <3>1. wire \in Seq(Nat \ {0})
      BY DEF SendTypes
    <3>2. CASE early
      BY <2>1, <2>3, <3>1, <3>2
    <3>3. CASE ~early
      BY <2>1, <2>3, <3>1, <3>3
    <3>. QED
      BY <3>2, <3>3
  <2>5. tx' \in TxType
    BY <1>3 DEF Launch, SendTypes, TxType
  <2>6. tx.size \in {0} \cup AnswerSizes
    BY DEF SendTypes, TxType
  <2>7. uart' \in UartType
    BY <2>1, <2>2, <2>6 DEF UartType
  <2>. QED
    BY <2>1, <2>2, <2>4, <2>5, <2>7
<1>. QED
  BY <1>1, <1>2, <1>3 DEF Send

\* The types of the answers are kept.
LEMMA SendTypesStep ==
  ASSUME SendTypes, [Next]_vars
  PROVE  SendTypes'
<1>1. CASE Stamp
  BY <1>1, SendTypesOfSend DEF Stamp, SendTypes
<1>2. CASE Due
  BY <1>2, SendTypesOfSend DEF Due, SendTypes
<1>3. CASE TransHandler
  <2>1. wire \in Seq(Nat \ {0}) /\ uart \in UartType /\ uart.sent + 1 \in Nat \ {0}
    BY DEF SendTypes, UartType
  <2>2. wire' \in Seq(Nat \ {0})
    <3>1. Append(wire, uart.sent + 1) \in Seq(Nat \ {0})
      BY <2>1
    <3>2. wire' \in {wire, Append(wire, uart.sent + 1)}
      BY <1>3 DEF TransHandler
    <3>. QED
      BY <2>1, <3>1, <3>2
  <2>3. uart' \in UartType
    BY <1>3, <2>1 DEF TransHandler, UartType
  <2>. QED
    BY <1>3, <2>2, <2>3 DEF TransHandler, SendTypes
<1>4. CASE Answer
  <2>1. PICK n \in AnswerSizes : tx' = [status |-> "BUSY", size |-> n, timer |-> 0] /\ answer' = n
    BY <1>4 DEF Answer
  <2>2. tx' \in TxType
    BY <2>1 DEF TxType
  <2>. QED
    BY <1>4, <2>1, <2>2, NoBytes DEF Answer, SendTypes
<1>5. CASE Start
  BY <1>5 DEF Start, SendTypes, UartType, IdleUart
<1>6. CASE Stop \/ Reset
  <2>1. /\ tx' = IdleTx /\ uart' = IdleUart /\ answer' = 0 /\ wire' = <<>>
        /\ prompt' = FALSE /\ cut' = FALSE
    BY <1>6, Suspended DEF Suspend
  <2>2. tx' \in TxType /\ uart' \in UartType
    BY <2>1 DEF TxType, UartType, IdleTx, IdleUart
  <2>. QED
    BY <2>1, <2>2, NoBytes DEF SendTypes
<1>7. CASE LineSet
  <2>1. PICK field \in Fields, value \in Nat : SetLine(field, value)
    BY <1>7 DEF LineSet
  <2>2. uart' \in UartType /\ cut' \in BOOLEAN
    BY <2>1 DEF SetLine, SendTypes, UartType
  <2>. QED
    BY <2>1, <2>2 DEF SetLine, Record, SendTypes
<1>8. CASE RecvByte \/ Pass \/ Rewind \/ Release \/ NoAnswer \/ SetTimeout
           \/ OtherPortSet \/ UNCHANGED vars
  BY <1>8 DEF RecvByte, Pass, Rewind, Release, NoAnswer, SetTimeout, OtherPortSet, Record, vars,
              sendVars, SendTypes
<1>. QED
  BY <1>1, <1>2, <1>3, <1>4, <1>5, <1>6, <1>7, <1>8, Steps DEF Loop, Interrupts

\* Of the settings.
LEMMA SettingTypesOfRecord ==
  ASSUME SettingTypes, NEW field \in Fields, NEW value \in Nat, Record(field, value)
  PROVE  SettingTypes'
<1>1. PICK readable \in BOOLEAN, writable \in BOOLEAN :
        LET failed == Failed(readable, writable)
            mixed  == IF Failed(readable, TRUE) = 0 THEN spoilt ELSE Fields IN
        /\ faults + failed <= MaxFaults
        /\ faults' = faults + failed
        /\ file' = IF writable THEN [OnFile(readable) EXCEPT ![field] = value] ELSE file
        /\ spoilt' = IF writable THEN mixed \ {field} ELSE spoilt \cup {field}
        /\ zeroed' = IF writable THEN zeroed \ {field} ELSE zeroed
  BY DEF Record
<1>2. OnFile(readable) \in Settings
  BY OnFileIsSetting DEF SettingTypes
<1>3. file' \in Settings \cup {Blank} /\ wanted' \in Settings
  BY <1>1, <1>2 DEF Record, SettingTypes, Settings
<1>4. spoilt' \subseteq Fields /\ zeroed' \subseteq Fields
  BY <1>1 DEF SettingTypes
<1>5. Failed(readable, writable) \in Nat
  BY DEF Failed
<1>6. sets' \in 0 .. MaxSets /\ faults' \in 0 .. MaxFaults
  BY <1>1, <1>5, Numbers DEF Record, SettingTypes
<1>7. effect' \in Settings /\ effect'["timeout"] \in MinTimeout .. MaxTimeout
  <2>1. effect' = [effect EXCEPT ![field] = Works(field, value)]
    BY DEF Record
  <2>2. "timeout" \in Fields /\ Works(field, value) \in Nat
    BY WorksInRange DEF Fields
  <2>3. effect' \in Settings /\ effect'["timeout"] \in {effect["timeout"], Works("timeout", value)}
    BY <2>1, <2>2 DEF SettingTypes, Settings
  <2>4. Works("timeout", value) \in MinTimeout .. MaxTimeout
    BY <2>2, WorksInRange
  <2>. QED
    BY <2>3, <2>4 DEF SettingTypes
<1>. QED
  BY <1>3, <1>4, <1>6, <1>7 DEF SettingTypes

\* The types of the settings are kept.
LEMMA SettingTypesStep ==
  ASSUME SettingTypes, [Next]_vars
  PROVE  SettingTypes'
<1>1. CASE Start
  <2>1. PICK readable \in BOOLEAN :
          LET failed == Failed(readable, TRUE) IN
          /\ faults + failed <= MaxFaults
          /\ faults' = faults + failed
          /\ effect' = [f \in Fields |-> Works(f, OnFile(readable)[f])]
          /\ spoilt' = IF failed = 0 THEN spoilt ELSE Fields
    BY <1>1 DEF Start
  <2>2. \A f \in Fields : OnFile(readable)[f] \in Nat
    BY OnFileIsSetting DEF SettingTypes, Settings
  <2>3. effect' \in Settings
    BY <2>1, <2>2, WorksInRange DEF Settings
  <2>4. effect'["timeout"] \in MinTimeout .. MaxTimeout
    BY <2>1, <2>2, WorksInRange DEF Fields
  <2>5. faults' \in 0 .. MaxFaults /\ spoilt' \subseteq Fields
    BY <2>1, Numbers DEF Failed, SettingTypes
  <2>. QED
    BY <1>1, <2>3, <2>4, <2>5 DEF Start, SettingTypes
<1>2. CASE Stop \/ Reset
  <2>1. effect' = [effect EXCEPT !["timeout"] = DefaultTimeout] /\ sets' = sets
    BY <1>2, Suspended DEF Suspend
  <2>2. effect' \in Settings /\ effect'["timeout"] \in MinTimeout .. MaxTimeout
    <3>1. "timeout" \in Fields /\ DefaultTimeout \in Nat
      BY Numbers DEF Fields
    <3>2. effect' \in Settings /\ effect'["timeout"] = DefaultTimeout
      BY <2>1, <3>1 DEF SettingTypes, Settings
    <3>. QED
      BY <3>2, Numbers
  <2>3. CASE Stop
    BY <2>1, <2>2, <2>3 DEF Stop, SettingTypes
  <2>4. CASE Reset
    <3>1. faults' \in 0 .. MaxFaults
      BY <2>4, Numbers DEF Reset, SettingTypes
    <3>2. file' \in Settings \cup {Blank} /\ wanted' \in Settings
      BY <2>4, DefaultIsSetting, ZerosAreSettings DEF Reset
    <3>3. spoilt' \subseteq Fields /\ zeroed' \subseteq Fields
      BY <2>4 DEF Reset
    <3>. QED
      BY <2>1, <2>2, <3>1, <3>2, <3>3 DEF SettingTypes
  <2>. QED
    BY <1>2, <2>3, <2>4
<1>3. CASE SetTimeout
  BY <1>3, SettingTypesOfRecord, Sizes DEF SetTimeout, Fields
<1>4. CASE LineSet
  BY <1>4, SettingTypesOfRecord DEF LineSet, SetLine
<1>5. CASE OtherPortSet
  BY <1>5, ZerosAreSettings DEF OtherPortSet, SettingTypes
<1>6. CASE Loop \/ Interrupts \/ UNCHANGED vars
  BY <1>6 DEF Loop, Pass, Stamp, Due, Rewind, Release, NoAnswer, Answer, Interrupts, RecvByte,
              TransHandler, vars, settingVars, SettingTypes
<1>. QED
  BY <1>1, <1>2, <1>3, <1>4, <1>5, <1>6, Steps

\* Every variable stays in its range, for any sizes and limits.
THEOREM CommTypeCorrect == Spec => []CommTypeOK
<1>1. Init => CommTypeOK
  BY TypeInit, TypeParts
<1>2. CommTypeOK /\ [Next]_vars => CommTypeOK'
  <2>1. LineTypes' /\ SendTypes' /\ SettingTypes' => CommTypeOK'
    BY DEF CommTypeOK, LineTypes, SendTypes, SettingTypes, RxType, TxType, UartType
  <2>. QED
    BY <2>1, TypeParts, LineTypesStep, SendTypesStep, SettingTypesStep
<1>. QED
  BY <1>1, <1>2, PTL DEF Spec

-----------------------------------------------------------------------------
\* What the buffers hold of the line: runs of bytes, in their order, and no
\* byte lost but the excused ones.

Run(s) == \A i \in 1 .. Len(s) - 1 : s[i + 1] = s[i] + 1
Last(s) == s[Len(s)]
Before(s, t) == s # <<>> /\ t # <<>> => Last(s) < t[1]
Bytes == Seq(1 .. MaxBytes)

LineInv ==
  /\ Run(rx.bytes) /\ Run(copied)
  /\ rx.bytes # <<>> => Last(rx.bytes) <= arrived
  /\ rx.bytes # <<>> /\ Len(rx.bytes) < RxSize => Last(rx.bytes) = arrived
  /\ copied # <<>> <=> pc \in {"rewind", "release"}
  /\ copied # <<>> => Last(copied) <= arrived
  /\ FramesAreRuns
  /\ handed # <<>> =>
       /\ Last(Last(handed)) <= arrived
       /\ Before(Last(handed), copied) /\ Before(Last(handed), rx.bytes)
  /\ pc = "release" => Before(copied, rx.bytes)

LostInv ==
  /\ pc = "rewind" => Range(rx.bytes) \subseteq Range(copied) \cup excused
  /\ NothingElseLost

\* A byte that is added is the last one, and the others stay.
LEMMA Appended ==
  ASSUME NEW s \in Bytes, NEW b \in 1 .. MaxBytes
  PROVE  /\ Append(s, b) \in Bytes /\ Append(s, b) # <<>>
         /\ Len(Append(s, b)) = Len(s) + 1
         /\ \A i \in 1 .. Len(s) : Append(s, b)[i] = s[i]
         /\ Append(s, b)[Len(s) + 1] = b
         /\ Last(Append(s, b)) = b
         /\ Append(s, b)[1] = IF s = <<>> THEN b ELSE s[1]
  BY DEF Bytes, Last

\* A buffer that is not empty has a first and a last byte.
LEMMA LastIsByte ==
  ASSUME NEW s \in Bytes, s # <<>>
  PROVE  Last(s) \in 1 .. MaxBytes /\ s[1] \in 1 .. MaxBytes /\ Len(s) \in Nat \ {0}
<1>1. Len(s) \in Nat \ {0}
  BY EmptySeq DEF Bytes
<1>2. \A i \in 1 .. Len(s) : s[i] \in 1 .. MaxBytes
  BY ElementOfSeq DEF Bytes
<1>. QED
  BY <1>1, <1>2 DEF Last

\* The last frame that was handed over.
LEMMA LastFrame ==
  ASSUME LineTypes, LineInv, handed # <<>>
  PROVE  /\ Last(handed) \in Bytes /\ Last(handed) # <<>>
         /\ Last(Last(handed)) \in 1 .. MaxBytes
<1>1. Len(handed) \in Nat \ {0} /\ \A k \in 1 .. Len(handed) : handed[k] \in Bytes
  BY DEF LineTypes, Bytes
<1>2. Last(handed) \in Bytes /\ Last(handed) # <<>>
  BY <1>1 DEF Last, LineInv, FramesAreRuns
<1>. QED
  BY <1>2, LastIsByte

\* The bytes in a buffer ...
LEMMA RangeOf ==
  ASSUME NEW s \in Bytes
  PROVE  Range(s) = {s[i] : i \in 1 .. Len(s)}
  BY DEF Range, Bytes

\* ... and in one that has a byte more.
LEMMA RangeOfAppend ==
  ASSUME NEW s \in Bytes, NEW b \in 1 .. MaxBytes
  PROVE  Range(Append(s, b)) = Range(s) \cup {b}
<1>1. Append(s, b) \in Bytes /\ Len(s) \in Nat
  BY DEF Bytes
<1>2. Range(Append(s, b)) = {Append(s, b)[i] : i \in 1 .. Len(s) + 1}
  BY <1>1, RangeOf, Appended
<1>3. \A i \in 1 .. Len(s) : Append(s, b)[i] = s[i]
  BY Appended
<1>4. Append(s, b)[Len(s) + 1] = b
  BY Appended
<1>. QED
  BY <1>1, <1>2, <1>3, <1>4, RangeOf

\* A run grows by the byte that follows its last one.
LEMMA RunGrows ==
  ASSUME NEW s \in Bytes, NEW b \in 1 .. MaxBytes, Run(s), s # <<>> => b = Last(s) + 1
  PROVE  Run(Append(s, b))
<1>. SUFFICES ASSUME NEW i \in 1 .. Len(s)
              PROVE  Append(s, b)[i + 1] = Append(s, b)[i] + 1
  BY Appended DEF Run, Bytes
<1>1. Append(s, b)[i] = s[i] /\ s # <<>> /\ Len(s) \in Nat
  BY Appended DEF Bytes
<1>2. CASE i = Len(s)
  BY <1>1, <1>2, Appended DEF Last
<1>3. CASE i < Len(s)
  BY <1>1, <1>3, Appended DEF Run
<1>. QED
  BY <1>1, <1>2, <1>3

\* Nothing has come over the line at the start.
LEMMA LineInit == Init => LineInv /\ LostInv
  BY NoBytes, Numbers DEF Init, LineInv, LostInv, Run, EmptyRx, FramesAreRuns, NothingElseLost

\* What the port has received is kept in order.
LEMMA LineStep ==
  ASSUME LineTypes, LineInv, [Next]_vars
  PROVE  LineInv'
<1>. DEFINE bytes == rx.bytes
<1>1. bytes \in Bytes /\ copied \in Bytes /\ handed \in Seq(Bytes) /\ arrived \in Nat
  BY Numbers DEF LineTypes, RxType, Bytes
<1>2. CASE RecvByte
  <2>1. arrived + 1 \in 1 .. MaxBytes /\ arrived' = arrived + 1
    BY <1>2, NextByte DEF RecvByte, LineTypes
  <2>2. pc' = pc /\ copied' = copied /\ handed' = handed
    BY <1>2 DEF RecvByte
  <2>3. CASE Len(bytes) < RxSize
    <3>1. rx'.bytes = Append(bytes, arrived + 1)
      BY <1>2, <2>3 DEF RecvByte, LineTypes, RxType
    <3>2. Run(rx'.bytes)
      BY <1>1, <2>1, <2>3, <3>1, RunGrows DEF LineInv
    <3>3. Last(rx'.bytes) = arrived'
      BY <1>1, <2>1, <3>1, Appended
    <3>4. rx'.bytes[1] = IF bytes = <<>> THEN arrived + 1 ELSE bytes[1]
      BY <1>1, <2>1, <3>1, Appended
    <3>5. handed # <<>> => Last(Last(handed)) \in 1 .. MaxBytes
      BY LastFrame
    <3>6. copied # <<>> => Last(copied) \in 1 .. MaxBytes
      BY <1>1, LastIsByte
    <3>. QED
      BY <1>1, <2>1, <2>2, <3>2, <3>3, <3>4, <3>5, <3>6 DEF LineInv, Before, FramesAreRuns
  <2>4. CASE ~(Len(bytes) < RxSize)
    <3>1. rx' = rx
      BY <1>2, <2>4 DEF RecvByte
    <3>2. bytes # <<>> => Last(bytes) \in 1 .. MaxBytes
      BY <1>1, LastIsByte
    <3>3. handed # <<>> => Last(Last(handed)) \in 1 .. MaxBytes
      BY LastFrame
    <3>4. copied # <<>> => Last(copied) \in 1 .. MaxBytes
      BY <1>1, LastIsByte
    <3>. QED
      BY <1>1, <2>1, <2>2, <2>4, <3>1, <3>2, <3>3, <3>4 DEF LineInv, Before, FramesAreRuns
  <2>. QED
    BY <2>3, <2>4
<1>3. CASE Due
  <2>1. CASE bytes = <<>>
    <3>1. pc' = "answer" /\ rx' = rx /\ copied' = copied /\ pc = "due" /\ handed' = handed
          /\ arrived' = arrived
      BY <1>3, <2>1 DEF Due
    <3>. QED
      BY <3>1 DEF LineInv, FramesAreRuns
  <2>2. CASE bytes # <<>>
    <3>1. pc' = "rewind" /\ rx'.bytes = bytes /\ copied' = bytes /\ handed' = handed
          /\ arrived' = arrived
      BY <1>3, <2>2 DEF Due, LineTypes, RxType
    <3>. QED
      BY <2>2, <3>1 DEF LineInv, FramesAreRuns
  <2>. QED
    BY <2>1, <2>2
<1>4. CASE Rewind
  <2>1. pc' = "release" /\ pc = "rewind" /\ rx'.bytes = <<>> /\ copied' = copied /\ handed' = handed
        /\ arrived' = arrived
    BY <1>4 DEF Rewind, LineTypes, RxType
  <2>. QED
    BY <2>1, NoBytes DEF LineInv, FramesAreRuns, Before, Run
<1>5. CASE Release
  <2>1. /\ pc' = "answer" /\ pc = "release" /\ rx'.bytes = bytes /\ copied' = <<>>
        /\ handed' = Append(handed, copied) /\ arrived' = arrived
    BY <1>5 DEF Release, LineTypes, RxType
  <2>2. copied # <<>>
    BY <2>1 DEF LineInv
  <2>3. /\ Len(handed') = Len(handed) + 1 /\ Len(handed) \in Nat /\ handed' # <<>>
        /\ \A k \in 1 .. Len(handed) : handed'[k] = handed[k]
        /\ handed'[Len(handed) + 1] = copied /\ Last(handed') = copied
    BY <1>1, <2>1 DEF Last
  <2>4. FramesAreRuns'
    <3>1. ASSUME NEW k \in 1 .. Len(handed')
          PROVE  handed'[k] # <<>> /\ Run(handed'[k])
      <4>1. CASE k = Len(handed) + 1
        BY <2>2, <2>3, <4>1 DEF LineInv
      <4>2. CASE k \in 1 .. Len(handed)
        BY <2>3, <4>2 DEF LineInv, FramesAreRuns, Run
      <4>. QED
        BY <2>3, <4>1, <4>2
    <3>2. ASSUME NEW k \in 1 .. Len(handed') - 1
          PROVE  handed'[k][Len(handed'[k])] < handed'[k + 1][1]
      <4>1. CASE k = Len(handed)
        BY <2>2, <2>3, <4>1 DEF LineInv, FramesAreRuns, Before, Last
      <4>2. CASE k \in 1 .. Len(handed) - 1
        BY <2>3, <4>2 DEF LineInv, FramesAreRuns
      <4>. QED
        BY <2>3, <4>1, <4>2
    <3>. QED
      BY <3>1, <3>2 DEF FramesAreRuns, Run
  <2>5. Run(copied') /\ Run(rx'.bytes)
    BY <2>1, NoBytes DEF Run, LineInv
  <2>. QED
    BY <2>1, <2>2, <2>3, <2>4, <2>5 DEF LineInv, Before
<1>6. CASE Stop \/ Reset
  BY <1>6, Suspended, NoBytes DEF Suspend, LineInv, EmptyRx, FramesAreRuns, Run
<1>7. CASE Pass
  BY <1>7 DEF Pass, LineInv, FramesAreRuns
<1>8. CASE Stamp
  <2>1. /\ rx'.bytes = bytes /\ copied' = copied /\ handed' = handed /\ arrived' = arrived
        /\ pc = "stamp" /\ pc' = "answer"
    BY <1>8 DEF Stamp, LineTypes, RxType
  <2>. QED
    BY <2>1 DEF LineInv, FramesAreRuns
<1>9. CASE NoAnswer \/ Answer \/ Start \/ TransHandler
  <2>1. /\ \/ pc \notin {"rewind", "release"} /\ pc' \notin {"rewind", "release"}
           \/ pc' = pc
        /\ UNCHANGED lineVars
    BY <1>9 DEF NoAnswer, Answer, Start, TransHandler
  <2>. QED
    BY <2>1 DEF lineVars, LineInv, FramesAreRuns
<1>10. CASE SetTimeout \/ LineSet \/ OtherPortSet \/ UNCHANGED vars
  BY <1>10 DEF SetTimeout, LineSet, SetLine, OtherPortSet, Record, vars, lineVars, LineInv, FramesAreRuns
<1>. QED
  BY <1>2, <1>3, <1>4, <1>5, <1>6, <1>7, <1>8, <1>9, <1>10, Steps DEF Loop, Interrupts


\* What is lost is accounted for.
LEMMA LostStep ==
  ASSUME LineTypes, LineInv, LostInv, [Next]_vars
  PROVE  LostInv'
<1>. DEFINE bytes == rx.bytes
            InHanded(b) == \E k \in 1 .. Len(handed) : b \in Range(handed[k])
<1>1. bytes \in Bytes /\ copied \in Bytes /\ handed \in Seq(Bytes) /\ arrived \in Nat
  BY Numbers DEF LineTypes, RxType, Bytes
<1>2. CASE RecvByte
  <2>1. arrived + 1 \in 1 .. MaxBytes /\ arrived' = arrived + 1
    BY <1>2, NextByte DEF RecvByte, LineTypes
  <2>2. pc' = pc /\ copied' = copied /\ handed' = handed /\ excused \subseteq excused'
    BY <1>2 DEF RecvByte
  <2>3. Range(rx'.bytes) = Range(bytes) \cup {arrived'} \/ (rx' = rx /\ arrived' \in excused')
    <3>1. CASE Len(bytes) < RxSize
      <4>1. rx'.bytes = Append(bytes, arrived + 1)
        BY <1>2, <3>1 DEF RecvByte, LineTypes, RxType
      <4>. QED
        BY <1>1, <2>1, <4>1, RangeOfAppend
    <3>2. CASE ~(Len(bytes) < RxSize)
      <4>1. Len(bytes) = RxSize
        BY <1>1, <3>2, Numbers DEF LineTypes, Bytes
      <4>. QED
        BY <1>2, <2>1, <3>2, <4>1 DEF RecvByte
    <3>. QED
      BY <3>1, <3>2
  <2>4. pc = "rewind" => arrived' \in excused'
    BY <1>2, <2>1 DEF RecvByte
  <2>5. ASSUME NEW b \in 1 .. arrived'
        PROVE  b \in excused' \/ b \in Range(rx'.bytes) \/ b \in Range(copied') \/ InHanded(b)
    <3>1. CASE b = arrived'
      BY <2>3, <3>1
    <3>2. CASE b \in 1 .. arrived
      BY <2>2, <2>3, <3>2 DEF LostInv, NothingElseLost
    <3>. QED
      BY <1>1, <2>1, <3>1, <3>2
  <2>6. NothingElseLost'
    BY <2>2, <2>5 DEF NothingElseLost
  <2>. QED
    BY <2>2, <2>3, <2>4, <2>6 DEF LostInv
<1>3. CASE Due
  <2>1. CASE bytes = <<>>
    BY <1>3, <2>1 DEF Due, LostInv, NothingElseLost
  <2>2. CASE bytes # <<>>
    <3>1. /\ pc = "due" /\ rx'.bytes = bytes /\ copied' = bytes /\ handed' = handed
          /\ arrived' = arrived /\ excused' = excused
      BY <1>3, <2>2 DEF Due, LineTypes, RxType
    <3>2. copied = <<>>
      BY <3>1 DEF LineInv
    <3>3. Range(copied) = {}
      BY <3>2 DEF Range
    <3>. QED
      BY <3>1, <3>3 DEF LostInv, NothingElseLost
  <2>. QED
    BY <2>1, <2>2
<1>4. CASE Rewind
  <2>1. /\ pc' = "release" /\ pc = "rewind" /\ copied' = copied /\ handed' = handed
        /\ arrived' = arrived /\ excused' = excused
    BY <1>4 DEF Rewind
  <2>. QED
    BY <2>1 DEF LostInv, NothingElseLost
<1>5. CASE Release
  <2>1. /\ pc' = "answer" /\ rx'.bytes = bytes /\ handed' = Append(handed, copied)
        /\ arrived' = arrived /\ excused' = excused
    BY <1>5 DEF Release, LineTypes, RxType
  <2>2. /\ Len(handed') = Len(handed) + 1 /\ Len(handed) \in Nat
        /\ \A k \in 1 .. Len(handed) : handed'[k] = handed[k]
        /\ handed'[Len(handed) + 1] = copied
    BY <1>1, <2>1
  <2>3. ASSUME NEW b \in 1 .. arrived
        PROVE  b \in excused \/ b \in Range(bytes)
                 \/ \E k \in 1 .. Len(handed') : b \in Range(handed'[k])
    <3>1. CASE b \in Range(copied)
      BY <2>2, <3>1
    <3>2. CASE InHanded(b)
      <4>1. PICK k \in 1 .. Len(handed) : b \in Range(handed[k])
        BY <3>2
      <4>. QED
        BY <2>2, <4>1
    <3>. QED
      BY <3>1, <3>2 DEF LostInv, NothingElseLost
  <2>. QED
    BY <2>1, <2>3 DEF LostInv, NothingElseLost
<1>6. CASE Stop \/ Reset
  BY <1>6, Suspended DEF Suspend, LostInv, NothingElseLost
<1>7. CASE Pass
  BY <1>7 DEF Pass, LostInv, NothingElseLost
<1>8. CASE Stamp
  <2>1. /\ rx'.bytes = bytes /\ copied' = copied /\ handed' = handed /\ arrived' = arrived
        /\ excused' = excused /\ pc' = "answer"
    BY <1>8 DEF Stamp, LineTypes, RxType
  <2>. QED
    BY <2>1 DEF LostInv, NothingElseLost
<1>9. CASE NoAnswer \/ Answer \/ Start \/ TransHandler
  BY <1>9 DEF NoAnswer, Answer, Start, TransHandler, lineVars, LostInv, NothingElseLost
<1>10. CASE SetTimeout \/ LineSet \/ OtherPortSet \/ UNCHANGED vars
  BY <1>10 DEF SetTimeout, LineSet, SetLine, OtherPortSet, Record, vars, lineVars, LostInv, NothingElseLost
<1>. QED
  BY <1>2, <1>3, <1>4, <1>5, <1>6, <1>7, <1>8, <1>9, <1>10, Steps DEF Loop, Interrupts

-----------------------------------------------------------------------------
\* What the counter says of the silence.  It never counts more passes than
\* there were since the last byte, but when the runner stored its sum over the
\* handler's zero; and with bytes in the buffer it never counts fewer.

TimeInv ==
  /\ pc # "stamp" => raced \/ quiet = QuietMax \/ rx.timer <= quiet * Period
  /\ pc = "stamp" =>
       /\ raced \/ quiet = QuietMax \/ loaded <= (quiet - 1) * Period
       /\ loaded < effect.timeout
       /\ rx.bytes # <<>> => (quiet - 1) * Period <= loaded
  /\ pc = "due" => raced \/ (quiet - 1) * Period >= effect.timeout
  /\ pc = "rewind" => quiet = 0 \/ copied = rx.bytes
  /\ pc = "release" => quiet = 0 \/ rx.bytes = <<>>
  /\ pc = "answer" /\ rx.bytes # <<>> => quiet = 0 \/ (quiet - 1) * Period < effect.timeout
  /\ pc \in {"rest", "answer", "release", "off"} /\ rx.bytes # <<>> => quiet * Period <= rx.timer

\* A whole QuietMax of passes is longer than any timeout.
LEMMA QuietMaxIsLong ==
  ASSUME SettingTypes
  PROVE  (QuietMax - 1) * Period >= effect.timeout
<1>1. effect.timeout \in Nat /\ effect.timeout <= MaxTimeout
  BY Numbers DEF SettingTypes
<1>2. \A m \in Nat : m * Period >= m
  BY Numbers
<1>3. QuietMax - 1 = MaxTimeout
  BY Numbers DEF QuietMax
<1>. QED
  BY <1>1, <1>2, <1>3, Numbers

\* The timer at the start.
LEMMA TimeInit == Init => TimeInv
  BY Numbers DEF Init, TimeInv, EmptyRx

\* The counter holds no more passes than there were since the last byte, unless the two raced.
LEMMA TimeStep ==
  ASSUME LineTypes, LineInv, SettingTypes, TimeInv, [Next]_vars
  PROVE  TimeInv'
<1>1. /\ quiet \in Nat /\ rx.timer \in Nat /\ loaded \in Nat /\ Period \in Nat /\ Period >= 1
      /\ effect.timeout \in Nat /\ effect.timeout >= 1 /\ QuietMax \in Nat
      /\ quiet <= QuietMax /\ raced \in BOOLEAN
  BY Numbers DEF LineTypes, SettingTypes, RxType, QuietMax
<1>2. quiet * Period \in Nat /\ (quiet - 1) * Period = quiet * Period - Period
  BY <1>1
<1>3. 0 * Period = 0 /\ (0 - 1) * Period = 0 - Period
  BY <1>1
<1>4. CASE RecvByte
  <2>1. pc' = pc /\ copied' = copied /\ loaded' = loaded /\ effect' = effect
    BY <1>4 DEF RecvByte, settingVars
  <2>2. CASE Len(rx.bytes) < RxSize
    <3>1. rx'.timer = 0 /\ quiet' = 0 /\ raced' = (pc \in {"stamp", "due"})
      BY <1>4, <2>2 DEF RecvByte, LineTypes, RxType
    <3>2. quiet' * Period = 0 /\ (quiet' - 1) * Period = 0 - Period
      BY <3>1, <1>3
    <3>3. pc \in {"stamp", "due"} => raced'
      BY <3>1
    <3>. QED
      BY <1>1, <2>1, <3>1, <3>2, <3>3 DEF TimeInv
  <2>3. CASE ~(Len(rx.bytes) < RxSize)
    <3>1. rx' = rx /\ quiet' = quiet /\ raced' = raced
      BY <1>4, <2>3 DEF RecvByte
    <3>. QED
      BY <2>1, <3>1 DEF TimeInv
  <2>. QED
    BY <2>2, <2>3
<1>5. CASE Pass
  <2>1. /\ pc = "rest" /\ rx' = rx /\ raced' = raced /\ copied' = copied /\ effect' = effect
        /\ quiet' = IF quiet < QuietMax THEN quiet + 1 ELSE quiet
    BY <1>5 DEF Pass, settingVars
  <2>2. \/ quiet < QuietMax /\ (quiet' - 1) * Period = quiet * Period
        \/ quiet = QuietMax /\ quiet' = QuietMax
    BY <1>1, <2>1
  <2>3. quiet' * Period >= quiet * Period
    BY <1>1, <2>1
  <2>4. CASE rx.timer < effect.timeout
    <3>1. pc' = "stamp" /\ loaded' = rx.timer
      BY <1>5, <2>4 DEF Pass
    <3>2. (quiet' - 1) * Period <= quiet * Period
      BY <1>1, <1>2, <2>2
    <3>3. raced \/ quiet' = QuietMax \/ rx.timer <= (quiet' - 1) * Period
      <4>1. raced \/ quiet = QuietMax \/ rx.timer <= quiet * Period
        BY <2>1 DEF TimeInv
      <4>2. CASE ~raced /\ quiet < QuietMax
        <5>1. (quiet' - 1) * Period = quiet * Period /\ rx.timer <= quiet * Period
          BY <1>1, <2>2, <4>1, <4>2
        <5>. QED
          BY <5>1
      <4>3. CASE quiet = QuietMax
        BY <1>1, <2>2, <4>3
      <4>. QED
        BY <1>1, <4>2, <4>3
    <3>4. rx.bytes # <<>> => (quiet' - 1) * Period <= rx.timer
      <4>1. quiet' \in Nat
        BY <1>1, <2>1
      <4>. QED
        BY <1>1, <1>2, <2>1, <3>2, <4>1 DEF TimeInv
    <3>. QED
      BY <2>1, <2>4, <3>1, <3>3, <3>4 DEF TimeInv
  <2>5. CASE ~(rx.timer < effect.timeout)
    <3>1. pc' = "due"
      BY <1>5, <2>5 DEF Pass
    <3>2. raced \/ (quiet' - 1) * Period >= effect.timeout
      BY <1>1, <1>2, <2>1, <2>2, <2>5, QuietMaxIsLong DEF TimeInv
    <3>3. raced \/ quiet' = QuietMax \/ rx.timer <= quiet' * Period
      <4>1. quiet' \in Nat /\ quiet' * Period \in Nat
        BY <1>1, <2>1
      <4>. QED
        BY <1>1, <1>2, <2>1, <2>2, <2>3, <4>1 DEF TimeInv
    <3>. QED
      BY <2>1, <3>1, <3>2, <3>3 DEF TimeInv
  <2>. QED
    BY <2>4, <2>5
<1>6. CASE Stamp
  <2>1. /\ rx'.timer = loaded + Period /\ rx'.bytes = rx.bytes /\ quiet' = quiet /\ raced' = raced
        /\ effect' = effect /\ pc = "stamp" /\ pc' = "answer"
    BY <1>6 DEF Stamp, LineTypes, RxType, settingVars
  <2>. QED
    BY <1>1, <1>2, <2>1 DEF TimeInv
<1>7. CASE Due
  <2>1. /\ pc = "due" /\ rx'.timer = rx.timer /\ rx'.bytes = rx.bytes /\ quiet' = quiet
        /\ raced' = raced
        /\ \/ pc' = "answer" /\ rx.bytes = <<>>
           \/ pc' = "rewind" /\ copied' = rx.bytes
    BY <1>7 DEF Due, LineTypes, RxType
  <2>. QED
    BY <2>1 DEF TimeInv
<1>8. CASE Rewind
  <2>1. /\ pc = "rewind" /\ pc' = "release" /\ rx'.timer = rx.timer /\ rx'.bytes = <<>>
        /\ quiet' = quiet /\ raced' = raced
    BY <1>8 DEF Rewind, LineTypes, RxType
  <2>. QED
    BY <2>1 DEF TimeInv
<1>9. CASE Release
  <2>1. /\ pc = "release" /\ pc' = "answer" /\ rx'.timer = rx.timer /\ rx'.bytes = rx.bytes
        /\ quiet' = quiet /\ raced' = raced
    BY <1>9 DEF Release, LineTypes, RxType
  <2>. QED
    BY <2>1 DEF TimeInv
<1>10. CASE Stop \/ Reset
  <2>1. pc' = "off" /\ rx'.timer = 0 /\ rx'.bytes = <<>> /\ quiet' = 0
    BY <1>10, Suspended DEF Suspend, EmptyRx
  <2>. QED
    BY <1>3, <2>1 DEF TimeInv
<1>11. CASE NoAnswer \/ Answer
  <2>1. pc = "answer" /\ pc' = "rest" /\ rx' = rx /\ quiet' = quiet /\ raced' = raced
    BY <1>11 DEF NoAnswer, Answer, lineVars
  <2>. QED
    BY <2>1 DEF TimeInv
<1>12. CASE Start
  <2>1. pc = "off" /\ pc' = "rest" /\ rx' = rx /\ quiet' = quiet /\ raced' = raced
    BY <1>12 DEF Start, lineVars
  <2>. QED
    BY <2>1 DEF TimeInv
<1>13. CASE SetTimeout \/ LineSet \/ OtherPortSet
  <2>1. pc = "rest" /\ pc' = "rest" /\ rx' = rx /\ quiet' = quiet /\ raced' = raced
    BY <1>13 DEF SetTimeout, LineSet, SetLine, OtherPortSet, Record, lineVars
  <2>. QED
    BY <2>1 DEF TimeInv
<1>14. CASE TransHandler \/ UNCHANGED vars
  BY <1>14 DEF TransHandler, vars, lineVars, settingVars, TimeInv
<1>. QED
  BY <1>4, <1>5, <1>6, <1>7, <1>8, <1>9, <1>10, <1>11, <1>12, <1>13, <1>14,
     Steps DEF Loop, Interrupts

-----------------------------------------------------------------------------
\* How far an answer has got.

Whole == IF answer = 1 /\ prompt THEN 2 ELSE answer

SendInv ==
  /\ \A i \in 1 .. Len(wire) : wire[i] = i
  /\ pc = "off" => tx.status = "IDLE"
  /\ uart.irq => uart.bus = "TRANSFER"
  /\ tx.status # "TRANSFER" => uart.bus = "IDLE" /\ ~uart.irq
  /\ tx.status = "BUSY" => wire = <<>> /\ tx.size = answer /\ answer \in AnswerSizes
  /\ tx.status = "IDLE" => Len(wire) <= Whole /\ (cut \/ Len(wire) = Whole)
  /\ tx.status = "TRANSFER" =>
       /\ uart.length = answer /\ answer \in AnswerSizes
       /\ Len(wire) = uart.sent /\ uart.sent <= Whole
       /\ IF prompt THEN uart.sent >= 2 ELSE uart.sent >= 1
       /\ uart.irq \/ cut \/ (uart.bus = "IDLE" /\ uart.sent = Whole)

\* An answer is on the line whole or still being sent.
LEMMA WholeIsSent == SendTypes /\ SendInv => AnswersGoOutWhole
<1>. SUFFICES ASSUME SendTypes, SendInv PROVE AnswersGoOutWhole
  OBVIOUS
<1>1. Len(wire) <= Whole /\ (tx.status = "IDLE" /\ ~cut => Len(wire) = Whole)
  <2>1. Len(wire) \in Nat /\ Len(<<>>) = 0
    BY DEF SendTypes
  <2>2. CASE tx.status = "IDLE"
    BY <2>2 DEF SendInv
  <2>3. CASE tx.status = "BUSY"
    <3>1. wire = <<>> /\ answer \in Nat /\ answer >= 1
      BY <2>3, Sizes DEF SendInv
    <3>. QED
      BY <2>1, <2>3, <3>1 DEF Whole
  <2>4. CASE tx.status = "TRANSFER"
    BY <2>4 DEF SendInv
  <2>. QED
    BY <2>2, <2>3, <2>4 DEF SendTypes, TxType
<1>. QED
  BY <1>1 DEF AnswersGoOutWhole, Whole, SendInv

\* Nothing has been sent at the start.
LEMMA SendInit == Init => SendInv
  BY NoBytes DEF Init, SendInv, IdleTx, IdleUart, Whole

\* The sending half of the runner.
LEMMA SendOfSend ==
  ASSUME SendTypes, SendInv, Send, pc # "off", pc' # "off", UNCHANGED <<answer, cut>>
  PROVE  SendInv'
<1>1. CASE Idle \/ Blocked
  BY <1>1 DEF Idle, Blocked, SendInv, Whole
<1>2. CASE Delay
  <2>1. tx'.status = tx.status /\ tx'.size = tx.size
    BY <1>2 DEF Delay, SendTypes, TxType
  <2>. QED
    BY <1>2, <2>1 DEF Delay, SendInv, Whole
<1>3. CASE Settle
  <2>1. tx'.status = "IDLE" /\ tx.status = "TRANSFER" /\ uart.bus = "IDLE" /\ ~uart.irq
    BY <1>3 DEF Settle, IdleTx, SendInv
  <2>2. wire' = wire /\ uart' = uart /\ prompt' = prompt
    BY <1>3 DEF Settle
  <2>3. Whole' = Whole
    BY <2>2 DEF Whole
  <2>4. Len(wire) <= Whole /\ (cut \/ Len(wire) = Whole)
    BY <2>1 DEF SendInv
  <2>. QED
    BY <2>1, <2>2, <2>3, <2>4 DEF SendInv
<1>4. CASE Launch
  <2>1. PICK early \in {FALSE, uart.flag} :
          LET first == IF early THEN <<1, 2>> ELSE <<1>> IN
          /\ uart' = [bus |-> "TRANSFER", length |-> tx.size, sent |-> Len(first),
                      irq |-> TRUE, flag |-> FALSE]
          /\ wire' = wire \o first
          /\ prompt' = early
    BY <1>4 DEF Launch
  <2>2. /\ tx'.status = "TRANSFER" /\ wire = <<>> /\ tx.size = answer /\ answer \in AnswerSizes
        /\ answer \in Nat /\ answer >= 1
    BY <1>4, Sizes DEF Launch, SendInv, SendTypes, TxType
  <2>3. uart'.bus = "TRANSFER" /\ uart'.irq /\ uart'.length = answer'
    BY <2>1, <2>2
  <2>4. CASE early
    <3>1. wire' = <<1, 2>> /\ uart'.sent = 2 /\ prompt' = early
      BY <2>1, <2>2, <2>4
    <3>2. Whole' >= 2
      BY <2>2, <2>4, <3>1 DEF Whole
    <3>3. Len(wire') = 2 /\ \A i \in 1 .. Len(wire') : wire'[i] = i
      BY <3>1
    <3>. QED
      BY <2>2, <2>3, <2>4, <3>1, <3>2, <3>3 DEF SendInv
  <2>5. CASE ~early
    <3>1. wire' = <<1>> /\ uart'.sent = 1 /\ prompt' = early
      BY <2>1, <2>2, <2>5
    <3>2. Whole' >= 1
      BY <2>2, <2>5, <3>1 DEF Whole
    <3>3. Len(wire') = 1 /\ \A i \in 1 .. Len(wire') : wire'[i] = i
      BY <3>1
    <3>. QED
      BY <2>2, <2>3, <2>5, <3>1, <3>2, <3>3 DEF SendInv
  <2>. QED
    BY <2>4, <2>5
<1>. QED
  BY <1>1, <1>2, <1>3, <1>4 DEF Send

\* An answer is sent from its first byte to its last.
LEMMA SendStep ==
  ASSUME SendTypes, SendInv, [Next]_vars
  PROVE  SendInv'
<1>1. CASE Stamp
  BY <1>1, SendOfSend DEF Stamp
<1>2. CASE Due
  <2>1. pc = "due" /\ pc' \in {"answer", "rewind"} /\ Send /\ UNCHANGED <<answer, cut>>
    BY <1>2 DEF Due
  <2>. QED
    BY <2>1, SendOfSend
<1>3. CASE TransHandler
  <2>1. /\ uart.irq /\ pc' = pc /\ tx' = tx /\ answer' = answer /\ prompt' = prompt /\ cut' = cut
    BY <1>3 DEF TransHandler
  <2>2. /\ tx.status = "TRANSFER" /\ Whole' = Whole /\ uart.sent \in Nat /\ uart.length = answer
        /\ answer \in Nat /\ answer >= 1 /\ Len(wire) = uart.sent /\ wire \in Seq(Nat \ {0})
    BY <2>1, Sizes DEF SendInv, SendTypes, TxType, UartType, Whole
  <2>3. CASE uart.sent < uart.length
    <3>1. /\ uart'.sent = uart.sent + 1 /\ uart'.length = uart.length /\ uart'.irq = uart.irq
          /\ uart'.bus = uart.bus /\ wire' = Append(wire, uart.sent + 1)
      BY <1>3, <2>3 DEF TransHandler, SendTypes, UartType
    <3>2. uart.sent + 1 <= Whole
      BY <2>2, <2>3 DEF Whole
    <3>3. /\ Len(wire') = uart'.sent
          /\ \A i \in 1 .. Len(wire') : wire'[i] = i
      BY <2>2, <3>1 DEF SendInv
    <3>4. IF prompt' THEN uart'.sent >= 2 ELSE uart'.sent >= 1
      BY <2>1, <2>2, <3>1 DEF SendInv
    <3>. QED
      BY <2>1, <2>2, <3>1, <3>2, <3>3, <3>4 DEF SendInv
  <2>4. CASE ~(uart.sent < uart.length)
    <3>1. /\ uart'.sent = uart.sent /\ uart'.length = uart.length /\ uart'.irq = FALSE
          /\ uart'.bus = "IDLE" /\ wire' = wire
      BY <1>3, <2>4 DEF TransHandler, SendTypes, UartType
    <3>2. uart.sent = Whole
      BY <2>2, <2>4 DEF Whole, SendInv
    <3>. QED
      BY <2>1, <2>2, <3>1, <3>2 DEF SendInv
  <2>. QED
    BY <2>3, <2>4
<1>4. CASE Answer
  <2>1. /\ pc' = "rest" /\ tx.status = "IDLE" /\ tx'.status = "BUSY" /\ tx'.size = answer'
        /\ answer' \in AnswerSizes /\ wire' = <<>> /\ uart' = uart
    BY <1>4 DEF Answer
  <2>. QED
    BY <2>1, NoBytes DEF SendInv
<1>5. CASE Start
  <2>1. /\ pc = "off" /\ pc' = "rest" /\ tx' = tx /\ answer' = answer /\ wire' = wire
        /\ prompt' = prompt /\ cut' = cut /\ uart'.bus = "IDLE" /\ ~uart'.irq
    BY <1>5 DEF Start, IdleUart
  <2>2. tx.status = "IDLE" /\ Whole' = Whole
    BY <2>1 DEF SendInv, Whole
  <2>. QED
    BY <2>1, <2>2 DEF SendInv
<1>6. CASE Stop \/ Reset
  BY <1>6, Suspended, NoBytes DEF Suspend, SendInv, IdleTx, IdleUart, Whole
<1>7. CASE LineSet
  <2>1. /\ pc' = pc /\ tx' = tx /\ answer' = answer /\ wire' = wire /\ prompt' = prompt
        /\ uart' = [uart EXCEPT !.irq = FALSE, !.flag = TRUE]
        /\ cut' = (cut \/ uart.bus # "IDLE")
    BY <1>7 DEF LineSet, SetLine, Record
  <2>2. Whole' = Whole
    BY <2>1 DEF Whole
  <2>3. /\ uart'.bus = uart.bus /\ uart'.length = uart.length /\ uart'.sent = uart.sent
        /\ uart'.irq = FALSE
    BY <2>1 DEF SendTypes, UartType
  <2>4. (cut => cut') /\ (uart.bus # "IDLE" => cut')
    BY <2>1
  <2>5. uart.irq => uart.bus # "IDLE"
    BY DEF SendInv
  <2>. QED
    BY <2>1, <2>2, <2>3, <2>4, <2>5 DEF SendInv
<1>8. CASE RecvByte \/ Pass \/ Rewind \/ Release \/ NoAnswer \/ UNCHANGED vars
  <2>1. /\ UNCHANGED sendVars /\ (pc' = "off" => pc = "off")
    BY <1>8 DEF RecvByte, Pass, Rewind, Release, NoAnswer, vars
  <2>. QED
    BY <2>1 DEF sendVars, SendInv, Whole
<1>9. CASE SetTimeout \/ OtherPortSet
  <2>1. UNCHANGED <<pc, tx, uart, answer, wire, prompt, cut>>
    BY <1>9 DEF SetTimeout, OtherPortSet, Record, sendVars
  <2>. QED
    BY <2>1 DEF SendInv, Whole
<1>. QED
  BY <1>1, <1>2, <1>3, <1>4, <1>5, <1>6, <1>7, <1>8, <1>9, Steps DEF Loop, Interrupts


-----------------------------------------------------------------------------
\* How the file, the port and the wishes agree: but for what a failed file
\* operation put at risk, the next start finds what was asked for last.

Agrees(f) ==
  OnFile(TRUE)[f] = wanted[f] \/ (f \in zeroed /\ OnFile(TRUE)[f] = 0)

SettingInv ==
  /\ \A f \in Fields \ spoilt : Agrees(f)
  /\ file = Blank => zeroed = {}
  /\ SettingsKept

\* The settings at the start are those of the file, or the default.
LEMMA SettingInit == Init => SettingInv
  BY DEF Init, SettingInv, Agrees, SettingsKept, OnFile, Up

\* A write keeps the other settings as they were, and notes the wish.
LEMMA RecordKeeps ==
  ASSUME SettingTypes, SettingInv, NEW field \in Fields, NEW value \in Nat,
         Record(field, value)
  PROVE  SettingInv'
<1>1. PICK readable \in BOOLEAN, writable \in BOOLEAN :
        LET mixed  == IF Failed(readable, TRUE) = 0 THEN spoilt ELSE Fields IN
        /\ file' = IF writable THEN [OnFile(readable) EXCEPT ![field] = value] ELSE file
        /\ spoilt' = IF writable THEN mixed \ {field} ELSE spoilt \cup {field}
        /\ zeroed' = IF writable THEN zeroed \ {field} ELSE zeroed
  BY DEF Record
<1>2. /\ wanted'[field] = value
      /\ \A f \in Fields : f # field => wanted'[f] = wanted[f]
  BY DEF Record, SettingTypes, Settings
<1>3. /\ effect'[field] = Works(field, value)
      /\ \A f \in Fields : f # field => effect'[f] = effect[f]
  BY DEF Record, SettingTypes, Settings
<1>4. OnFile(readable) \in Settings
  BY OnFileIsSetting DEF SettingTypes
<1>5. pc = "rest" /\ pc' = "rest" /\ Up
  BY DEF Record, Up
<1>6. \A f \in Fields \ spoilt' : f # field => f \notin spoilt /\ (f \in zeroed => f \in zeroed')
  BY <1>1
<1>7. SettingsKept'
  <2>1. ASSUME NEW f \in Fields \ spoilt'
        PROVE  effect'[f] = Works(f, wanted'[f]) \/ (f \in zeroed' /\ effect'[f] = Works(f, 0))
    <3>1. CASE f = field
      BY <1>2, <1>3, <3>1
    <3>2. CASE f # field
      BY <1>2, <1>3, <1>5, <1>6, <3>2 DEF SettingInv, SettingsKept
    <3>. QED
      BY <3>1, <3>2
  <2>. QED
    BY <2>1 DEF SettingsKept, Works, Admitted
<1>8. CASE writable
  <2>1. file' = [OnFile(readable) EXCEPT ![field] = value]
    BY <1>1, <1>8
  <2>2. /\ file' \in Settings /\ file'[field] = value
        /\ \A f \in Fields : f # field => file'[f] = OnFile(readable)[f]
    BY <2>1, <1>4 DEF Settings
  <2>3. OnFile(TRUE)' = file' /\ file' # Blank
    BY <2>2, Files DEF OnFile
  <2>4. \A f \in Fields \ spoilt' : f # field => OnFile(readable) = OnFile(TRUE)
    BY <1>1, <1>8 DEF Failed, OnFile
  <2>5. ASSUME NEW f \in Fields \ spoilt'
        PROVE  file'[f] = wanted'[f] \/ (f \in zeroed' /\ file'[f] = 0)
    <3>1. CASE f = field
      BY <3>1, <2>2, <1>2
    <3>2. CASE f # field
      <4>1. Agrees(f) /\ file'[f] = OnFile(TRUE)[f]
        BY <3>2, <1>6, <2>2, <2>4 DEF SettingInv
      <4>. QED
        BY <3>2, <4>1, <1>2, <1>6 DEF Agrees
    <3>. QED
      BY <3>1, <3>2
  <2>. QED
    BY <2>3, <2>5, <1>7 DEF SettingInv, Agrees
<1>9. CASE ~writable
  <2>1. file' = file /\ spoilt' = spoilt \cup {field} /\ zeroed' = zeroed
    BY <1>1, <1>9
  <2>2. OnFile(TRUE)' = OnFile(TRUE)
    BY <2>1 DEF OnFile
  <2>. QED
    BY <2>1, <2>2, <1>2, <1>7 DEF SettingInv, Agrees
<1>. QED
  BY <1>8, <1>9

\* Port, file and what was wanted agree, but for what a failed file operation
\* spoilt and what the write of another port made zero.
LEMMA SettingStep ==
  ASSUME SettingTypes, SettingInv, [Next]_vars
  PROVE  SettingInv'
<1>1. CASE Start
  <2>1. PICK readable \in BOOLEAN :
          /\ effect' = [f \in Fields |-> Works(f, OnFile(readable)[f])]
          /\ spoilt' = IF Failed(readable, TRUE) = 0 THEN spoilt ELSE Fields
    BY <1>1 DEF Start
  <2>2. file' = file /\ wanted' = wanted /\ zeroed' = zeroed
    BY <1>1 DEF Start
  <2>3. OnFile(TRUE)' = OnFile(TRUE)
    BY <2>2 DEF OnFile
  <2>4. CASE Failed(readable, TRUE) = 0
    <3>1. OnFile(readable) = OnFile(TRUE) /\ spoilt' = spoilt
      BY <2>1, <2>4 DEF Failed, OnFile
    <3>2. \A f \in Fields : effect'[f] = Works(f, OnFile(TRUE)[f])
      BY <2>1, <3>1
    <3>3. \A f \in Fields \ spoilt' :
            effect'[f] = Works(f, wanted'[f]) \/ (f \in zeroed' /\ effect'[f] = Works(f, 0))
      BY <2>2, <3>1, <3>2 DEF SettingInv, Agrees
    <3>4. SettingsKept'
      BY <3>3 DEF SettingsKept, Works, Admitted
    <3>. QED
      BY <2>2, <2>3, <3>1, <3>4 DEF SettingInv, Agrees
  <2>5. CASE Failed(readable, TRUE) # 0
    <3>1. spoilt' = Fields
      BY <2>1, <2>5
    <3>. QED
      BY <2>2, <3>1 DEF SettingInv, SettingsKept
  <2>. QED
    BY <2>4, <2>5
<1>2. CASE SetTimeout
  BY <1>2, RecordKeeps, Sizes DEF SetTimeout, Fields
<1>3. CASE LineSet
  BY <1>3, RecordKeeps DEF LineSet, SetLine
<1>4. CASE Stop
  <2>1. ~Up' /\ UNCHANGED <<file, wanted, spoilt, zeroed>>
    BY <1>4 DEF Stop, Suspend, Up
  <2>. QED
    BY <2>1 DEF SettingInv, Agrees, SettingsKept, OnFile
<1>5. CASE Reset
  <2>1. PICK own \in BOOLEAN, later \in BOOLEAN :
          /\ file' = IF own THEN Default ELSE IF later THEN Zeros ELSE Blank
          /\ zeroed' = IF later /\ ~own THEN Fields ELSE {}
    BY <1>5 DEF Reset
  <2>2. ~Up' /\ wanted' = Default
    BY <1>5, Suspended DEF Reset, Suspend, Up
  <2>3. CASE own \/ ~later
    <3>1. OnFile(TRUE)' = Default /\ (file' = Blank => zeroed' = {})
      BY <2>1, <2>3, Files, DefaultIsSetting DEF OnFile
    <3>. QED
      BY <2>2, <3>1 DEF SettingInv, Agrees, SettingsKept
  <2>4. CASE ~own /\ later
    <3>1. OnFile(TRUE)' = Zeros /\ zeroed' = Fields /\ file' # Blank
      BY <2>1, <2>4, Files, ZerosAreSettings DEF OnFile
    <3>. QED
      BY <2>2, <3>1, ZerosAreSettings DEF SettingInv, Agrees, SettingsKept
  <2>. QED
    BY <2>3, <2>4
<1>6. CASE OtherPortSet
  <2>1. /\ file' = Zeros /\ zeroed' = Fields /\ OnFile(TRUE)' = Zeros /\ file' # Blank
        /\ UNCHANGED <<pc, effect, wanted, spoilt>>
    BY <1>6, Files, ZerosAreSettings DEF OtherPortSet, OnFile
  <2>2. SettingsKept'
    BY <2>1 DEF SettingInv, SettingsKept, Up, Works, Admitted
  <2>. QED
    BY <2>1, <2>2, ZerosAreSettings DEF SettingInv, Agrees
<1>7. CASE Loop \/ Interrupts \/ UNCHANGED vars
  <2>1. UNCHANGED settingVars /\ Up' = Up
    BY <1>7 DEF Loop, Pass, Stamp, Due, Rewind, Release, NoAnswer, Answer, Interrupts, RecvByte,
                TransHandler, vars, Up
  <2>. QED
    BY <2>1 DEF settingVars, SettingInv, Agrees, SettingsKept, OnFile, Works, Admitted
<1>. QED
  BY <1>1, <1>2, <1>3, <1>4, <1>5, <1>6, <1>7, Steps

-----------------------------------------------------------------------------
\* The theorems.

LineAll == LineTypes /\ SettingTypes /\ LineInv /\ LostInv /\ TimeInv

\* The invariants of the line hold throughout.
LEMMA LineInvariant == Spec => []LineAll
<1>1. Init => LineAll
  BY TypeInit, LineInit, TimeInit DEF LineAll
<1>2. LineAll /\ [Next]_vars => LineAll'
  BY LineTypesStep, SettingTypesStep, LineStep, LostStep, TimeStep DEF LineAll
<1>. QED
  BY <1>1, <1>2, PTL DEF Spec

\* Only the runner makes a frame, and it does when the counter says so.
LEMMA FramesEndInSilence ==
  ASSUME LineAll, [Next]_vars, rx.frame = 0, rx'.frame # 0
  PROVE  raced \/ (quiet - 1) * Period >= effect.timeout
<1>1. CASE Due
  BY <1>1 DEF Due, LineAll, TimeInv
<1>2. CASE RecvByte \/ Stamp \/ Rewind
  <2>1. rx'.frame = rx.frame
    BY <1>2 DEF RecvByte, Stamp, Rewind, LineAll, LineTypes, RxType
  <2>. QED
    BY <2>1
<1>3. CASE Release \/ Stop \/ Reset
  <2>1. rx'.frame = 0
    BY <1>3, Suspended DEF Release, Suspend, EmptyRx, LineAll, LineTypes, RxType
  <2>. QED
    BY <2>1
<1>4. CASE Pass \/ NoAnswer \/ Answer \/ TransHandler \/ Start
  BY <1>4 DEF Pass, NoAnswer, Answer, TransHandler, Start, lineVars
<1>5. CASE SetTimeout \/ LineSet \/ OtherPortSet \/ UNCHANGED vars
  BY <1>5 DEF SetTimeout, LineSet, SetLine, OtherPortSet, Record, vars, lineVars
<1>. QED
  BY <1>1, <1>2, <1>3, <1>4, <1>5, Steps DEF Loop, Interrupts

\* A pass that finds the line silent for the time-out makes a frame of all the buffer holds.
LEMMA SilenceEndsFrames ==
  ASSUME LineAll
  PROVE  NoneRunsOn
  BY Numbers DEF LineAll, LineTypes, TimeInv, NoneRunsOn, SettingTypes

\* The protocols get the line's bytes in runs, in order and once; none is lost
\* but the excused ones; and a frame is what lies between two silences, but
\* for the race of the counter (rs485_1.c:153 to 246).
THEOREM TheLineIsRead == Spec => LineIsRead
<1>1. LineAll => FramesAreRuns /\ NothingElseLost /\ NoneRunsOn
  BY SilenceEndsFrames DEF LineAll, LineInv, LostInv
<1>2. LineAll /\ [Next]_vars
        => [rx.frame = 0 /\ rx'.frame # 0
              => raced \/ (quiet - 1) * Period >= effect.timeout]_vars
  BY FramesEndInSilence
<1>. QED
  BY <1>1, <1>2, LineInvariant, PTL DEF Spec, LineIsRead, EndsInSilence

\* Answers of any lengths go out whole, but for a line set while sending
\* (vuart1.c:176, 607, 697).
THEOREM AnswersAreSentWhole == Spec => []AnswersGoOutWhole
<1>1. Init => SendTypes /\ SendInv
  BY TypeInit, SendInit
<1>2. SendTypes /\ SendInv /\ [Next]_vars => SendTypes' /\ SendInv'
  BY SendTypesStep, SendStep
<1>. QED
  BY <1>1, <1>2, WholeIsSent, PTL DEF Spec

\* Each setting survives any number of restarts, changes and factory resets,
\* but for those a failed file operation put at risk, and those that work as
\* zero since the write of another port (task_comm.c:156, 178, 546, 742).
THEOREM SettingsAreKept == Spec => []SettingsKept
<1>1. Init => SettingTypes /\ SettingInv
  BY TypeInit, SettingInit
<1>2. SettingTypes /\ SettingInv /\ [Next]_vars => SettingTypes' /\ SettingInv'
  BY SettingTypesStep, SettingStep
<1>3. SettingInv => SettingsKept
  BY DEF SettingInv
<1>. QED
  BY <1>1, <1>2, <1>3, PTL DEF Spec
=============================================================================
