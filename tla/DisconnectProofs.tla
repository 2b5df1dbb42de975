-------------------------- MODULE DisconnectProofs --------------------------
(***************************************************************************)
(* Proofs about Disconnect, for every number of slots, every mask and      *)
(* table, and every bound on the faults.                                   *)
(***************************************************************************)
EXTENDS Disconnect, WellFoundedInduction, TLAPS

(* A set of slots that is not empty has a last member: Max is one.           *)
LEMMA LastSlot ==
  ASSUME NEW S \in SUBSET Slots, S # {}
  PROVE  Max(S) \in S /\ \A u \in S : u <= Max(S)
<1>. DEFINE Mirror == {n \in Nat : SlotCount - 1 - n \in S}
<1>1. SlotCount \in Nat \ {0} BY DisconnectAssumption
<1>2. PICK s \in S : TRUE OBVIOUS
<1>3. s \in Slots OBVIOUS
<1>4. SlotCount - 1 - s \in Mirror
  BY <1>1, <1>2, <1>3 DEF Slots
<1>5. PICK n \in Mirror : \A m \in Mirror : n <= m
  <2>. DEFINE R == {p \in Nat \X Nat : p[1] < p[2]}
  <2>1. IsWellFoundedOn(R, Nat) BY NatLessThanWellFounded, Zenon DEF OpToRel
  <2>2. PICK k \in Mirror : \A m \in Mirror : <<m, k>> \notin R
    BY <1>4, <2>1, WFMin
  <2>3. \A m \in Mirror : k <= m
    <3>. TAKE m \in Mirror
    <3>1. m \in Nat /\ k \in Nat OBVIOUS
    <3>2. ~(m < k) BY <2>2, <3>1
    <3>. QED BY <3>1, <3>2
  <2>. HIDE DEF Mirror
  <2>. QED BY <2>3
<1>6. \A u \in S : u <= SlotCount - 1 - n
  <2>. TAKE u \in S
  <2>1. u \in 0 .. SlotCount - 1 BY DEF Slots
  <2>2. SlotCount - 1 - u \in Nat /\ SlotCount - 1 - (SlotCount - 1 - u) = u
    BY <1>1, <2>1
  <2>3. SlotCount - 1 - u \in Mirror BY <2>2
  <2>. QED BY <1>1, <1>5, <2>1, <2>3
<1>7. \E x \in S : \A y \in S : x >= y
  <2>1. SlotCount - 1 - n \in S OBVIOUS
  <2>. QED BY <1>1, <1>6, <2>1 DEF Slots
<1>. QED BY <1>1, <1>7 DEF Max, Slots

(* Scan yields what a slot with a request that counts asks for, and RELEASE if *)
(* there is none.                                                              *)
LEMMA ScanHeeds ==
  ASSUME DisconnectTypeOK
  PROVE  LET act == Scan(requests, mask, priority)[1]
         IN  \/ act \in Moves /\ \E s \in Slots : Counts(s, act)
             \/ act = "RELEASE" /\ \A s \in Slots, m \in Moves : ~Counts(s, m)
<1>. DEFINE P == Passing(requests, mask, priority)
<1>1. P \in SUBSET Slots BY DEF Passing
<1>2. CASE P = {}
  <2>1. Scan(requests, mask, priority)[1] = "RELEASE" BY <1>2 DEF Scan
  <2>2. \A s \in Slots, m \in Moves : ~Counts(s, m) BY <1>2 DEF Passing, Counts
  <2>. QED BY <2>1, <2>2
<1>3. CASE P # {}
  <2>1. Max(P) \in P BY <1>1, <1>3, LastSlot
  <2>2. Scan(requests, mask, priority)[1] = requests[Max(P)] BY <1>3 DEF Scan
  <2>3. \A s \in P : s \in Slots /\ requests[s] \in Moves /\ Counts(s, requests[s])
    BY DEF Passing, Counts
  <2>. HIDE DEF P
  <2>. QED BY <2>1, <2>2, <2>3
<1>. QED BY <1>2, <1>3

(* The type of what Scan yields, whatever mask and table it is given.          *)
LEMMA ScanType ==
  ASSUME NEW req \in [Slots -> Actions], NEW msk, NEW table
  PROVE  /\ Scan(req, msk, table)[1] \in Actions
         /\ Scan(req, msk, table)[2] \in Slots \cup {NoSlot}
<1>. DEFINE P == Passing(req, msk, table)
<1>1. P \in SUBSET Slots BY DEF Passing
<1>2. CASE P = {} BY <1>2 DEF Scan, Actions
<1>3. CASE P # {}
  <2>1. Max(P) \in Slots BY <1>1, <1>3, LastSlot
  <2>. QED BY <1>3, <2>1 DEF Scan
<1>. QED BY <1>2, <1>3

-----------------------------------------------------------------------------
(* What a handler reads is a parameter record, and remains one when it is       *)
(* changed and written back.                                                    *)
LEMMA ReadingType ==
  ASSUME DisconnectTypeOK, NEW fails \in BOOLEAN
  PROVE  Reading(fails) \in Params
<1>1. NoTable \in PriorityTables BY DEF NoTable, PriorityTables
<1>2. Blank \in Params BY <1>1, DisconnectAssumption DEF Blank, Params, Masks
<1>. QED BY <1>2 DEF Reading, DisconnectTypeOK

\* The fields of the parameters.
LEMMA ParamParts ==
  ASSUME NEW p \in Params, NEW c \in Selections
  PROVE  /\ p.mask \in Masks /\ p.selection \in Selections
         /\ p.tables[c] \in PriorityTables
BY DEF Params

\* The parameters with one field set.
LEMMA ParamChanges ==
  ASSUME NEW p \in Params, NEW c \in Selections, NEW m \in Masks, NEW t \in PriorityTables
  PROVE  /\ [p EXCEPT !.mask = m] \in Params
         /\ [p EXCEPT !.selection = c] \in Params
         /\ [p EXCEPT !.tables[p.selection] = t] \in Params
BY DEF Params

\* The file holds parameters, whether the write fails or not.
LEMMA WritingType ==
  ASSUME DisconnectTypeOK, NEW p \in Params, NEW fails \in BOOLEAN, Writing(p, fails)
  PROVE  file' \in Params
BY DEF Writing, DisconnectTypeOK

\* The bound on failures is kept.
LEMMA SpendType ==
  ASSUME DisconnectTypeOK, NEW failures, Spend(failures)
  PROVE  faults' \in 0 .. MaxFaults
BY DisconnectAssumption DEF Spend, DisconnectTypeOK

\* The task that starts finds all fields in their sets.
LEMMA BootType ==
  ASSUME DisconnectTypeOK, Boot, file' \in Params, faults' \in 0 .. MaxFaults
  PROVE  DisconnectTypeOK'
<1>1. [s \in Slots |-> "RELEASE"] \in [Slots -> Actions] BY DEF Actions
<1>2. NoTable \in PriorityTables BY DEF NoTable, PriorityTables
<1>3. {} \in Masks BY DEF Masks
<1>4. 0 \in Slots BY DisconnectAssumption DEF Slots
<1>5. "CLOSE" \in Moves /\ "RELEASE" \in Actions BY DEF Moves, Actions
<1>6. 0 \in 0 .. PollLoops BY DisconnectAssumption
<1>. QED BY <1>1, <1>2, <1>3, <1>4, <1>5, <1>6 DEF Boot, DisconnectTypeOK

-----------------------------------------------------------------------------
(* Every step keeps the type invariant.                                         *)
LEMMA TypeStep == DisconnectTypeOK /\ [Next]_vars => DisconnectTypeOK'
<1>. SUFFICES ASSUME DisconnectTypeOK, [Next]_vars PROVE DisconnectTypeOK'
  OBVIOUS
<1>. USE DisconnectAssumption
<1>. DEFINE Idle == [s \in Slots |-> "RELEASE"]
<1>1. CASE Up
  <2>0. Idle \in [Slots -> Actions] BY DEF Actions
  <2>1. PICK fails \in BOOLEAN :
          /\ Spend(<<fails, FALSE>>)
          /\ requests' = Idle
          /\ mask' = Reading(fails).mask
          /\ priority' = Reading(fails).tables[Reading(fails).selection]
          /\ flush' = FALSE
          /\ action' = Scan(Idle, mask', priority')[1]
          /\ reason' = Scan(Idle, mask', priority')[2]
          /\ switch' = Position(action')
    BY <1>1 DEF Up
  <2>2. action' \in Actions /\ reason' \in Slots \cup {NoSlot}
    BY <2>0, <2>1, ScanType
  <2>3. faults' \in 0 .. MaxFaults BY <2>1, SpendType
  <2>4. mask' \in Masks /\ priority' \in PriorityTables
    BY <2>1, ReadingType, ParamParts
  <2>5. switch' \in Moves BY <2>1 DEF Position, Moves
  <2>6. report' \in Moves BY <1>1 DEF Up, Moves
  <2>7. moved' \in 0 .. PollLoops + 1 /\ since' \in 0 .. PollLoops
    BY <1>1 DEF Up, DisconnectTypeOK
  <2>8. up' = TRUE /\ file' = file BY <1>1 DEF Up
  <2>. QED BY <2>0, <2>1, <2>2, <2>3, <2>4, <2>5, <2>6, <2>7, <2>8 DEF DisconnectTypeOK
<1>2. CASE Down BY <1>2 DEF Down, runs, time, DisconnectTypeOK
<1>3. CASE Crash BY <1>3, BootType DEF Crash, DisconnectTypeOK
<1>4. CASE Reset
  <2>1. Default \in PriorityTables BY DEF Default, Slots, PriorityTables
  <2>2. [c \in Selections |-> Default] \in [Selections -> PriorityTables] BY <2>1
  <2>3. Blank \in Params
    BY DEF Blank, Params, Masks, NoTable, PriorityTables
  <2>4. file' \in Params BY <1>4, <2>2, <2>3 DEF Reset, Params
  <2>5. faults' \in 0 .. MaxFaults BY <1>4, SpendType DEF Reset
  <2>. QED BY <1>4, <2>4, <2>5, BootType DEF Reset
<1>5. CASE Loop
  <2>1. action' \in Actions /\ reason' \in Slots \cup {NoSlot} /\ switch' \in Moves
    <3>1. Scan(requests, mask, priority)[1] \in Actions
          /\ Scan(requests, mask, priority)[2] \in Slots \cup {NoSlot}
      BY ScanType DEF DisconnectTypeOK
    <3>. QED BY <1>5, <3>1 DEF Loop, Refresh, Position, Moves, DisconnectTypeOK
  <2>2. since' \in 0 .. PollLoops /\ report' \in Moves
    BY <1>5, <2>1 DEF Loop, Poll, DisconnectTypeOK
  <2>3. moved' \in 0 .. PollLoops + 1 BY <1>5 DEF Loop, Moving, DisconnectTypeOK
  <2>. QED BY <1>5, <2>1, <2>2, <2>3 DEF Loop, DisconnectTypeOK
<1>6. ASSUME NEW s \in Slots, NEW act \in Actions, Request(s, act)
      PROVE  DisconnectTypeOK'
  BY <1>6 DEF Request, time, DisconnectTypeOK
<1>7. ASSUME NEW m \in MaskChoices, MaskSet(m)
      PROVE  DisconnectTypeOK'
  <2>1. PICK failures \in BOOLEAN \X BOOLEAN :
          /\ Spend(failures)
          /\ Writing([Reading(failures[1]) EXCEPT !.mask = m], failures[2])
    BY <1>7 DEF MaskSet
  <2>2. failures[1] \in BOOLEAN /\ failures[2] \in BOOLEAN OBVIOUS
  <2>3. faults' \in 0 .. MaxFaults BY <2>1, SpendType
  <2>4. [Reading(failures[1]) EXCEPT !.mask = m] \in Params
    BY <2>2, ReadingType, ParamChanges DEF Params
  <2>5. file' \in Params BY <2>1, <2>2, <2>4, WritingType
  <2>. QED BY <1>7, <2>3, <2>5 DEF MaskSet, time, DisconnectTypeOK
<1>8. ASSUME NEW c \in Selections, NEW t \in Tables, PriorityWrite(c, t)
      PROVE  DisconnectTypeOK'
  <2>1. PICK failures \in BOOLEAN \X BOOLEAN :
          LET param == Reading(failures[1])
          IN  /\ Spend(failures)
              /\ Writing([param EXCEPT !.tables[param.selection] = t], failures[2])
              /\ IF param.selection = c
                   THEN priority' = t /\ flush' = TRUE
                   ELSE UNCHANGED <<priority, flush>>
    BY <1>8 DEF PriorityWrite
  <2>2. failures[1] \in BOOLEAN /\ failures[2] \in BOOLEAN OBVIOUS
  <2>3. faults' \in 0 .. MaxFaults BY <2>1, SpendType
  <2>4. Reading(failures[1]) \in Params BY <2>2, ReadingType
  <2>5. t \in PriorityTables OBVIOUS
  <2>6. [Reading(failures[1]) EXCEPT !.tables[Reading(failures[1]).selection] = t]
          \in Params
    BY <2>4, <2>5 DEF Params
  <2>7. file' \in Params BY <2>1, <2>2, <2>6, WritingType
  <2>8. priority' \in PriorityTables /\ flush' \in BOOLEAN
    BY <2>1, <2>5 DEF DisconnectTypeOK
  <2>. QED BY <1>8, <2>3, <2>7, <2>8 DEF PriorityWrite, time, DisconnectTypeOK
<1>9. ASSUME NEW c \in Selections, SelectionSet(c)
      PROVE  DisconnectTypeOK'
  <2>1. \E failures \in BOOLEAN \X BOOLEAN :
          LET param == [Reading(failures[1]) EXCEPT !.selection = c]
          IN  /\ Spend(failures)
              /\ Writing(param, failures[2])
              /\ priority' = param.tables[c]
    BY <1>9 DEF SelectionSet
  <2>2. PICK failures \in BOOLEAN \X BOOLEAN :
          /\ Spend(failures)
          /\ Writing([Reading(failures[1]) EXCEPT !.selection = c], failures[2])
          /\ priority' = [Reading(failures[1]) EXCEPT !.selection = c].tables[c]
    BY <2>1
  <2>3. failures[1] \in BOOLEAN /\ failures[2] \in BOOLEAN OBVIOUS
  <2>4. [Reading(failures[1]) EXCEPT !.selection = c] \in Params
    BY <2>3, ReadingType DEF Params
  <2>5. faults' \in 0 .. MaxFaults BY <2>2, SpendType
  <2>6. file' \in Params BY <2>2, <2>3, <2>4, WritingType
  <2>7. priority' \in PriorityTables BY <2>2, <2>4, ParamParts
  <2>. QED BY <1>9, <2>5, <2>6, <2>7 DEF SelectionSet, time, DisconnectTypeOK
<1>10. CASE UNCHANGED vars BY <1>10 DEF vars, runs, time, DisconnectTypeOK
<1>. QED BY <1>1, <1>2, <1>3, <1>4, <1>5, <1>6, <1>7, <1>8, <1>9, <1>10 DEF Next

-----------------------------------------------------------------------------
(* Every step keeps DisconnectInv. Only Up, Loop and the handlers that set flush *)
(* touch what the relay should do.                                               *)
LEMMA InvStep == DisconnectInv /\ [Next]_vars => DisconnectInv'
<1>. SUFFICES ASSUME DisconnectInv, [Next]_vars PROVE DisconnectInv'
  OBVIOUS
<1>. USE DisconnectAssumption
<1>0. DisconnectTypeOK /\ DisconnectTypeOK' BY TypeStep DEF DisconnectInv
<1>. SUFFICES Arbitrated' /\ Driven' /\ ReportTimed' /\ MaskOutlivesRestart'
  BY <1>0 DEF DisconnectInv
<1>. USE DEF DisconnectInv
<1>1. CASE Up
  <2>1. PICK fails \in BOOLEAN :
          /\ Spend(<<fails, FALSE>>)
          /\ mask' = Reading(fails).mask
          /\ action' = Scan(requests', mask', priority')[1]
          /\ switch' = Position(action')
    BY <1>1 DEF Up
  <2>2. Arbitrated' BY <2>1 DEF Arbitrated
  <2>3. Driven' BY <2>1 DEF Driven
  <2>4. ReportTimed' BY <1>0, <1>1 DEF Up, ReportTimed, DisconnectTypeOK
  <2>5. faults' = 0 => ~fails BY <1>0, <2>1 DEF Spend, DisconnectTypeOK
  <2>6. MaskOutlivesRestart'
    BY <1>1, <2>1, <2>5 DEF Up, Reading, MaskOutlivesRestart
  <2>. QED BY <2>2, <2>3, <2>4, <2>6
<1>2. CASE ~up'
  BY <1>2 DEF Arbitrated, Driven, ReportTimed, MaskOutlivesRestart
<1>3. CASE Loop
  <2>1. Arbitrated' BY <1>3 DEF Loop, Refresh, Arbitrated
  <2>2. Driven' BY <1>3 DEF Loop, Refresh, Driven
  <2>3. ReportTimed'
    <3>1. CASE since + 1 < PollLoops
      <4>1. since' = since + 1 /\ report' = report BY <1>3, <3>1 DEF Loop, Poll
      <4>. QED BY <1>0, <1>3, <3>1, <4>1
             DEF Loop, Moving, ReportTimed, DisconnectTypeOK
    <3>2. CASE ~(since + 1 < PollLoops)
      BY <1>3, <3>2 DEF Loop, Poll, ReportTimed
    <3>. QED BY <3>1, <3>2
  <2>4. MaskOutlivesRestart' BY <1>3 DEF Loop, MaskOutlivesRestart
  <2>. QED BY <2>1, <2>2, <2>3, <2>4
<1>4. ASSUME NEW s \in Slots, NEW act \in Actions, Request(s, act)
      PROVE  Arbitrated' /\ Driven' /\ ReportTimed' /\ MaskOutlivesRestart'
  BY <1>4 DEF Request, time, Arbitrated, Driven, ReportTimed, MaskOutlivesRestart
<1>5. ASSUME NEW m \in MaskChoices, MaskSet(m)
      PROVE  Arbitrated' /\ Driven' /\ ReportTimed' /\ MaskOutlivesRestart'
  <2>1. Arbitrated' /\ Driven' /\ ReportTimed'
    BY <1>5 DEF MaskSet, time, Arbitrated, Driven, ReportTimed
  <2>2. PICK failures \in BOOLEAN \X BOOLEAN :
          /\ Spend(failures)
          /\ Writing([Reading(failures[1]) EXCEPT !.mask = m], failures[2])
    BY <1>5 DEF MaskSet
  <2>3. Reading(failures[1]) \in Params BY <1>0, ReadingType
  <2>4. faults' = 0 => ~failures[2] BY <1>0, <2>2 DEF Spend, DisconnectTypeOK
  <2>5. faults' = 0 => file'.mask = m
    BY <2>2, <2>3, <2>4 DEF Writing, Params
  <2>. QED BY <1>5, <2>1, <2>5 DEF MaskSet, MaskOutlivesRestart
<1>6. ASSUME NEW c \in Selections, NEW t \in Tables, PriorityWrite(c, t)
      PROVE  Arbitrated' /\ Driven' /\ ReportTimed' /\ MaskOutlivesRestart'
  <2>1. PICK failures \in BOOLEAN \X BOOLEAN :
          LET param == Reading(failures[1])
          IN  /\ Spend(failures)
              /\ Writing([param EXCEPT !.tables[param.selection] = t], failures[2])
              /\ IF param.selection = c
                   THEN priority' = t /\ flush' = TRUE
                   ELSE UNCHANGED <<priority, flush>>
    BY <1>6 DEF PriorityWrite
  <2>2. Arbitrated' BY <1>6, <2>1 DEF PriorityWrite, Arbitrated
  <2>3. Driven' /\ ReportTimed'
    BY <1>6 DEF PriorityWrite, time, Driven, ReportTimed
  <2>4. faults' = 0 => faults = 0 /\ ~failures[1] /\ ~failures[2]
    BY <1>0, <2>1 DEF Spend, DisconnectTypeOK
  <2>5. faults' = 0 => file'.mask = file.mask
    BY <1>0, <2>1, <2>4 DEF Writing, Reading, Params, DisconnectTypeOK
  <2>. QED BY <1>6, <2>2, <2>3, <2>4, <2>5 DEF PriorityWrite, MaskOutlivesRestart
<1>7. ASSUME NEW c \in Selections, SelectionSet(c)
      PROVE  Arbitrated' /\ Driven' /\ ReportTimed' /\ MaskOutlivesRestart'
  <2>1. Arbitrated' /\ Driven' /\ ReportTimed'
    BY <1>7 DEF SelectionSet, time, Arbitrated, Driven, ReportTimed
  <2>2. PICK failures \in BOOLEAN \X BOOLEAN :
          /\ Spend(failures)
          /\ Writing([Reading(failures[1]) EXCEPT !.selection = c], failures[2])
    BY <1>7 DEF SelectionSet
  <2>3. faults' = 0 => faults = 0 /\ ~failures[1] /\ ~failures[2]
    BY <1>0, <2>2 DEF Spend, DisconnectTypeOK
  <2>4. faults' = 0 => file'.mask = file.mask
    BY <1>0, <2>2, <2>3 DEF Writing, Reading, Params, DisconnectTypeOK
  <2>. QED BY <1>7, <2>1, <2>3, <2>4 DEF SelectionSet, MaskOutlivesRestart
<1>8. CASE UNCHANGED vars
  BY <1>8 DEF vars, runs, time, Arbitrated, Driven, ReportTimed, MaskOutlivesRestart
<1>. QED
  BY <1>1, <1>2, <1>3, <1>4, <1>5, <1>6, <1>7, <1>8 DEF Next, Down, Crash, Reset, Boot

\* The invariant holds at the start.
LEMMA InitInv == Init => DisconnectInv
<1>. SUFFICES ASSUME Init PROVE DisconnectInv
  OBVIOUS
<1>1. NoTable \in PriorityTables BY DEF NoTable, PriorityTables
<1>2. Blank \in Params BY <1>1, DisconnectAssumption DEF Blank, Params, Masks
<1>3. DisconnectTypeOK
  <2>1. [s \in Slots |-> "RELEASE"] \in [Slots -> Actions] BY DEF Actions
  <2>2. {} \in Masks BY DEF Masks
  <2>3. "CLOSE" \in Moves /\ "RELEASE" \in Actions BY DEF Moves, Actions
  <2>4. 0 \in Slots /\ 0 \in 0 .. PollLoops /\ 0 \in 0 .. PollLoops + 1 /\ 0 \in 0 .. MaxFaults
    BY DisconnectAssumption DEF Slots
  <2>. QED BY <1>1, <1>2, <2>1, <2>2, <2>3, <2>4 DEF Init, DisconnectTypeOK
<1>. QED BY <1>3 DEF Init, DisconnectInv, Arbitrated, Driven, ReportTimed, MaskOutlivesRestart

(* The inductive invariant of the disconnect task.                               *)
THEOREM DisconnectInvariance == Spec => []DisconnectInv
BY InitInv, InvStep, PTL DEF Spec

(* RAM and the parameter file keep their types through failing file operations.  *)
THEOREM DisconnectTypeCorrect == Spec => []DisconnectTypeOK
<1>1. DisconnectInv => DisconnectTypeOK BY DEF DisconnectInv
<1>. QED BY <1>1, DisconnectInvariance, PTL

(* After the loop that follows the last change, the relay is open only for a     *)
(* request to open it that counts, and closed against such requests only for one *)
(* to close it: request_arbitrate(), flush, the comparison with the last action, *)
(* and request_action() together.                                                *)
THEOREM RelayIsObedient == Spec => []RelayObeys
<1>1. ASSUME DisconnectInv, up, ~flush
      PROVE  /\ switch = "OPEN" => \E s \in Slots : Counts(s, "OPEN")
             /\ switch = "CLOSE" /\ (\E s \in Slots : Counts(s, "OPEN")) =>
                  \E s \in Slots : Counts(s, "CLOSE")
  <2>1. \/ action \in Moves /\ \E s \in Slots : Counts(s, action)
        \/ action = "RELEASE" /\ \A s \in Slots, m \in Moves : ~Counts(s, m)
    BY <1>1, ScanHeeds DEF DisconnectInv, Arbitrated
  <2>2. switch = Position(action) BY <1>1 DEF DisconnectInv, Driven
  <2>. QED BY <2>1, <2>2 DEF Position, Moves
<1>2. DisconnectInv => RelayObeys BY <1>1 DEF RelayObeys
<1>. QED BY <1>2, DisconnectInvariance, PTL

(* What the API reports of the relay is never more than a second old.            *)
THEOREM ReportStaysFresh == Spec => []ReportIsFresh
<1>1. DisconnectInv => ReportIsFresh BY DEF DisconnectInv, ReportTimed, ReportIsFresh
<1>. QED BY <1>1, DisconnectInvariance, PTL

(* Without a failed file operation the mask survives a restart.                  *)
THEOREM MaskSurvives == Spec => []MaskOutlivesRestart
<1>1. DisconnectInv => MaskOutlivesRestart BY DEF DisconnectInv
<1>. QED BY <1>1, DisconnectInvariance, PTL
=============================================================================
