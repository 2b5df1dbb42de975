--------------------------- MODULE MeteringProofs ---------------------------
(***************************************************************************)
(* Proofs about Metering, for every number of phases and tariffs, every    *)
(* walk period and threshold, and every bound on readings and faults.      *)
(***************************************************************************)
EXTENDS Metering, FiniteSetTheorems, TLAPS

(* The bound on faults counts the operations that fail: none does exactly if   *)
(* the count does not move.                                                    *)
LEMMA SpendType ==
  ASSUME MeteringTypeOK, NEW failed \in SUBSET Operations, Spend(failed)
  PROVE  /\ faults' \in 0 .. MaxFaults
         /\ faults' = 0 => faults = 0 /\ failed = {}
<1>1. IsFiniteSet(Operations)
  <2>1. IsFiniteSet({} \cup {"read"}) BY FS_EmptySet, FS_AddElement, Zenon
  <2>2. IsFiniteSet(({} \cup {"read"}) \cup {"save"}) BY <2>1, FS_AddElement, Zenon
  <2>3. IsFiniteSet((({} \cup {"read"}) \cup {"save"}) \cup {"field"})
    BY <2>2, FS_AddElement, Zenon
  <2>4. IsFiniteSet(((({} \cup {"read"}) \cup {"save"}) \cup {"field"}) \cup {"block"})
    BY <2>3, FS_AddElement, Zenon
  <2>5. IsFiniteSet((((({} \cup {"read"}) \cup {"save"}) \cup {"field"}) \cup {"block"})
                    \cup {"write"})
    BY <2>4, FS_AddElement, Zenon
  <2>6. Operations = (((({} \cup {"read"}) \cup {"save"}) \cup {"field"}) \cup {"block"})
                     \cup {"write"}
    BY DEF Operations
  <2>. QED BY <2>5, <2>6
<1>2. IsFiniteSet(failed) BY <1>1, FS_Subset
<1>3. Cardinality(failed) \in Nat /\ (Cardinality(failed) = 0 <=> failed = {})
  BY <1>2, FS_CardinalityType, FS_EmptySet
<1>. QED BY <1>3, MeteringAssumption DEF Spend, MeteringTypeOK

(* A file only grows, up to each of the ends that are written.                 *)
LEMMA GrowType ==
  ASSUME NEW n \in Nat, NEW ends \in SUBSET Nat, Grow(n, ends)
  PROVE  length' \in Nat /\ n <= length' /\ \A e \in ends : e <= length'
BY DEF Grow

\* The places in the file are natural numbers.
LEMMA BlockEndType ==
  ASSUME NEW r \in Blocks
  PROVE  BlockEnd(r) \in Nat /\ \A c \in Cells : CellEnd(r, c) \in Nat
BY MeteringAssumption DEF Blocks, BlockEnd, CellEnd, CellCount, Cells, Quads, Groups

(* Writing registers of one block leaves the other blocks alone.               *)
LEMMA PutType ==
  ASSUME MeteringTypeOK, NEW r \in Blocks, NEW cs \in SUBSET Cells,
         NEW energy \in Registers, Put(r, cs, energy)
  PROVE  /\ totals' \in [Blocks -> Registers]
         /\ totals' = [totals EXCEPT ![r] =
              [c \in Cells |-> IF c \in cs THEN energy[c] ELSE totals[r][c]]]
         /\ length' \in Nat /\ length <= length'
<1>1. {CellEnd(r, c) : c \in cs} \in SUBSET Nat BY BlockEndType
<1>2. length' \in Nat /\ length <= length'
  BY <1>1, GrowType DEF Put, MeteringTypeOK
<1>3. [c \in Cells |-> IF c \in cs THEN energy[c] ELSE totals[r][c]] \in Registers
  BY DEF MeteringTypeOK, Registers
<1>. QED BY <1>2, <1>3 DEF Put, MeteringTypeOK

\* The default settings, and those of a blank file.
LEMMA DefaultType ==
  /\ Default \in Settings /\ Zeros \in Settings
  /\ Default.divisors /\ Default.rate = 0 /\ Zeros.rate = 0
  /\ 0 \in Tariffs /\ 0 \in Blocks /\ Tariffs \subseteq Blocks
BY MeteringAssumption DEF Default, Zeros, Settings, Blocks, Tariffs

\* Settings read back are those of the file if sound, or the default.
LEMMA SettleType ==
  ASSUME NEW p \in Settings, NEW check \in Settings
  PROVE  /\ Settle(p, check) \in Settings /\ Settle(p, check).divisors
         /\ Settle(p, check) \in {p, Default}
         /\ p.divisors /\ p = check => Settle(p, check) = p
BY DefaultType DEF Settle, Sound

\* What the file holds after the settings are read.
LEMMA KeptType ==
  ASSUME MeteringTypeOK, NEW p, NEW check, NEW failed
  PROVE  /\ Kept(p, check, failed) \in SavedSettings
         /\ Kept(p, check, failed).now \in {saved.now, Default}
BY DefaultType DEF Kept, Saved, SavedSettings, MeteringTypeOK

(* One field of the settings changes, in RAM and in the file.                  *)
FieldValues(f) == IF f = "rate" THEN Blocks ELSE BOOLEAN

\* Settings with one field set, in RAM and in the file.
LEMMA FieldType ==
  ASSUME NEW p \in Settings, NEW s \in SavedSettings,
         NEW f \in {"rate", "counting", "divisors"}, NEW v \in FieldValues(f), NEW failed
  PROVE  /\ [p EXCEPT ![f] = v] \in Settings
         /\ FieldSaved(s, f, v, failed) \in SavedSettings
<1>1. \A q \in Settings : [q EXCEPT ![f] = v] \in Settings
  <2>1. CASE f = "rate" BY <2>1 DEF FieldValues, Settings
  <2>2. CASE f = "counting" BY <2>2 DEF FieldValues, Settings
  <2>3. CASE f = "divisors" BY <2>3 DEF FieldValues, Settings
  <2>. QED BY <2>1, <2>2, <2>3
<1>2. [s EXCEPT !.now[f] = v] \in SavedSettings
  <2>1. [s.now EXCEPT ![f] = v] \in Settings BY <1>1 DEF SavedSettings
  <2>2. [s EXCEPT !.now[f] = v] = [s EXCEPT !.now = [s.now EXCEPT ![f] = v]]
    BY DEF SavedSettings
  <2>. QED BY <2>1, <2>2 DEF SavedSettings
<1>. QED BY <1>1, <1>2 DEF FieldSaved

\* A rate names a block of the file.
LEMMA RateType ==
  ASSUME NEW rate \in Nat
  PROVE  rate % (TariffCount + 1) \in Blocks
BY MeteringAssumption DEF Blocks

\* A task that starts has nothing waiting.
LEMMA FreshType ==
  ASSUME Fresh
  PROVE  /\ flush' \in Registers /\ step' \in 0 .. 3 * PhaseCount
         /\ walk' \in (0 .. 4) \X (0 .. 3) /\ clock' \in 0 .. WritePeriod - 1
BY MeteringAssumption DEF Fresh, NoEnergy, Registers

(* The walk stays within the quadrants and groups it wraps over.               *)
LEMMA PairType ==
  ASSUME MeteringTypeOK
  PROVE  Pair \in Cells /\ NextPair \in (0 .. 4) \X (0 .. 3)
BY DEF MeteringTypeOK, Pair, NextPair, Cells, Quads, Groups

\* The walk's next step.
LEMMA StepType ==
  ASSUME MeteringTypeOK
  PROVE  NextStep \in 0 .. 3 * PhaseCount
BY MeteringAssumption DEF MeteringTypeOK, NextStep

(* One reading more in one register.                                           *)
LEMMA ReadingType ==
  ASSUME NEW e \in Registers, NEW c
  PROVE  /\ [e EXCEPT ![c] = @ + 1] \in Registers
         /\ \A d \in Cells : [e EXCEPT ![c] = @ + 1][d] = IF d = c THEN e[d] + 1 ELSE e[d]
<1>1. CASE c \in Cells BY <1>1 DEF Registers
<1>2. CASE c \notin Cells
  <2>1. [e EXCEPT ![c] = @ + 1] = e BY <1>2 DEF Registers
  <2>. QED BY <1>2, <2>1 DEF Registers
<1>. QED BY <1>1, <1>2

(* A visit of the walk keeps the types, and changes no tariff but the one in     *)
(* effect, and there only the register it writes.                              *)
LEMMA WalkType ==
  ASSUME MeteringTypeOK, NEW energy \in Registers, NEW waiting \in Registers,
         Walk(energy, waiting)
  PROVE  /\ mp' \in Settings /\ saved' \in SavedSettings /\ flush' \in Registers
         /\ walk' \in (0 .. 4) \X (0 .. 3) /\ clock' \in 0 .. WritePeriod - 1
         /\ totals' \in [Blocks -> Registers] /\ length' \in Nat
         /\ faults' \in 0 .. MaxFaults
<1>1. CASE clock + 1 < WritePeriod
  BY <1>1, MeteringAssumption DEF Walk, disk, MeteringTypeOK
<1>2. CASE ~(clock + 1 < WritePeriod)
  <2>1. PICK failed \in SUBSET {"save", "write"} :
          /\ Spend(failed)
          /\ clock' = 0 /\ walk' = NextPair
          /\ mp' = Settle(mp, mp) /\ saved' = Kept(mp, mp, failed)
          /\ IF waiting[Pair] > FlushAbove
               THEN /\ Put(mp'.rate, IF "write" \in failed THEN {} ELSE {Pair}, energy)
                    /\ flush' = [waiting EXCEPT ![Pair] = 0]
               ELSE "write" \notin failed /\ flush' = waiting /\ UNCHANGED <<totals, length>>
    BY <1>2 DEF Walk
  <2>2. failed \in SUBSET Operations BY DEF Operations
  <2>3. faults' \in 0 .. MaxFaults BY <2>1, <2>2, SpendType
  <2>4. mp' \in Settings /\ saved' \in SavedSettings
    BY <2>1, SettleType, KeptType DEF MeteringTypeOK
  <2>5. mp'.rate \in Blocks BY <2>4 DEF Settings
  <2>6. Pair \in Cells /\ NextPair \in (0 .. 4) \X (0 .. 3) BY PairType
  <2>7. flush' \in Registers BY <2>1 DEF Registers
  <2>8. totals' \in [Blocks -> Registers] /\ length' \in Nat
    <3>1. CASE waiting[Pair] > FlushAbove
      BY <2>1, <2>5, <2>6, <3>1, PutType
    <3>2. CASE ~(waiting[Pair] > FlushAbove)
      BY <2>1, <3>2 DEF MeteringTypeOK
    <3>. QED BY <3>1, <3>2
  <2>9. clock' \in 0 .. WritePeriod - 1 BY <2>1, MeteringAssumption
  <2>. QED BY <2>1, <2>3, <2>4, <2>6, <2>7, <2>8, <2>9
<1>. QED BY <1>1, <1>2

-----------------------------------------------------------------------------
(* The types.                                                                  *)
LEMMA InitType == Init => MeteringTypeOK
<1>. SUFFICES ASSUME Init PROVE MeteringTypeOK
  OBVIOUS
<1>1. NoEnergy \in Registers BY DEF NoEnergy, Registers
<1>2. NotSaved \in SavedSettings BY DefaultType DEF NotSaved, SavedSettings
<1>. QED BY <1>1, <1>2, DefaultType, MeteringAssumption DEF Init, MeteringTypeOK, Levels

\* The task that starts finds all fields in their sets.
LEMMA BootType ==
  ASSUME MeteringTypeOK, Boot
  PROVE  /\ level' \in Levels /\ mp' \in Settings /\ mc' \in Registers
         /\ flush' \in Registers /\ step' \in 0 .. 3 * PhaseCount
         /\ walk' \in (0 .. 4) \X (0 .. 3) /\ clock' \in 0 .. WritePeriod - 1
BY DefaultType, FreshType DEF Boot, Levels, NoEnergy, Registers

\* Every step keeps the types.
LEMMA MeteringTypeStep ==
  ASSUME MeteringTypeOK, [Next]_vars
  PROVE  MeteringTypeOK'
<1>1. ASSUME NEW l \in Levels \ {"off"}, Enter(l) PROVE MeteringTypeOK'
  <2>1. CASE l \notin Active
    BY <1>1, <2>1 DEF Enter, ram, MeteringTypeOK
  <2>2. CASE l \in Active
    <3>1. PICK failed \in SUBSET {"read", "save", "block"} :
            LET read  == saved.there /\ "read" \notin failed
                p     == IF read THEN saved.now ELSE mp
                check == IF read THEN saved.check ELSE mp
            IN  /\ Spend(failed)
                /\ mp' = Settle(p, check)
                /\ saved' = Kept(p, check, failed)
                /\ mc' = IF length >= BlockEnd(mp'.rate) /\ "block" \notin failed
                           THEN totals[mp'.rate] ELSE NoEnergy
                /\ Fresh
      BY <1>1, <2>2 DEF Enter
    <3>2. faults' \in 0 .. MaxFaults BY <3>1, SpendType DEF Operations
    <3>3. mp' \in Settings /\ saved' \in SavedSettings
      BY <3>1, SettleType, KeptType DEF MeteringTypeOK, SavedSettings
    <3>4. mc' \in Registers
      BY <3>1, <3>3 DEF MeteringTypeOK, Settings, NoEnergy, Registers
    <3>. QED BY <1>1, <3>1, <3>2, <3>3, <3>4, FreshType DEF Enter, MeteringTypeOK
  <2>. QED BY <2>1, <2>2
<1>2. CASE Leave
  <2>1. PICK failed \in SUBSET {"save", "write"}, lost \in SUBSET Waiting :
          /\ IF level = "SLEEP" THEN "save" \in failed /\ lost = Waiting /\ UNCHANGED faults
                                ELSE Spend(failed)
          /\ mp' = Settle(mp, mp) /\ saved' = Kept(mp, mp, failed)
          /\ Put(mp'.rate, Waiting \ lost, mc)
    BY <1>2 DEF Leave
  <2>2. faults' \in 0 .. MaxFaults BY <2>1, SpendType DEF Operations, MeteringTypeOK
  <2>3. mp' \in Settings /\ saved' \in SavedSettings
    BY <2>1, SettleType, KeptType DEF MeteringTypeOK
  <2>4. totals' \in [Blocks -> Registers] /\ length' \in Nat
    BY <2>1, <2>3, PutType DEF Waiting, Settings, MeteringTypeOK
  <2>5. flush' \in Registers BY <1>2 DEF Leave, NoEnergy, Registers
  <2>. QED BY <1>2, <2>2, <2>3, <2>4, <2>5 DEF Leave, Levels, MeteringTypeOK
<1>3. CASE Crash
  BY <1>3, BootType DEF Crash, disk, MeteringTypeOK
<1>4. CASE Reset
  <2>1. PICK failed \in SUBSET {"save", "write"}, written \in SUBSET Tariffs :
          /\ Spend(failed)
          /\ saved' = IF "save" \in failed THEN NotSaved ELSE Saved(Default)
          /\ Grow(0, {BlockEnd(r) : r \in written})
    BY <1>4 DEF Reset
  <2>2. faults' \in 0 .. MaxFaults BY <2>1, SpendType DEF Operations
  <2>3. saved' \in SavedSettings BY <2>1, DefaultType DEF Saved, NotSaved, SavedSettings
  <2>4. length' \in Nat BY <2>1, BlockEndType, GrowType, DefaultType
  <2>5. totals' \in [Blocks -> Registers] BY <1>4 DEF Reset, NoEnergy, Registers
  <2>. QED BY <1>4, <2>2, <2>3, <2>4, <2>5, BootType DEF Reset, MeteringTypeOK
<1>5. CASE Clear
  <2>1. PICK written \in SUBSET Tariffs :
          /\ Spend(IF written = Tariffs THEN {} ELSE {"write"})
          /\ totals' = [r \in Blocks |-> IF r \in written THEN NoEnergy ELSE totals[r]]
          /\ Grow(length, {BlockEnd(r) : r \in written})
    BY <1>5 DEF Clear
  <2>2. faults' \in 0 .. MaxFaults
    <3>1. (IF written = Tariffs THEN {} ELSE {"write"}) \in SUBSET Operations
      BY DEF Operations
    <3>. QED BY <2>1, <3>1, SpendType
  <2>3. length' \in Nat BY <2>1, BlockEndType, GrowType, DefaultType DEF MeteringTypeOK
  <2>4. NoEnergy \in Registers BY DEF NoEnergy, Registers
  <2>5. totals' \in [Blocks -> Registers] BY <2>1, <2>4 DEF MeteringTypeOK
  <2>. QED BY <1>5, <2>2, <2>3, <2>4, <2>5 DEF Clear, MeteringTypeOK
<1>6. CASE LoopIdle
  <2>1. Walk(mc, flush) BY <1>6 DEF LoopIdle
  <2>. QED BY <1>6, <2>1, WalkType, StepType DEF LoopIdle, MeteringTypeOK
<1>7. ASSUME NEW flow \in Flows, LoopCount(flow) PROVE MeteringTypeOK'
  <2>1. mc' \in Registers /\ [flush EXCEPT ![Counted(flow)] = @ + 1] \in Registers
    BY <1>7, ReadingType DEF LoopCount, MeteringTypeOK
  <2>2. Walk(mc', [flush EXCEPT ![Counted(flow)] = @ + 1]) BY <1>7 DEF LoopCount
  <2>3. readings' \in 0 .. MaxReadings
    BY <1>7, MeteringAssumption DEF LoopCount, MeteringTypeOK
  <2>. QED BY <1>7, <2>1, <2>2, <2>3, WalkType, StepType DEF LoopCount, MeteringTypeOK
<1>8. ASSUME NEW f \in {"counting", "divisors"}, NEW v \in BOOLEAN, Change(f, v)
      PROVE  MeteringTypeOK'
  <2>1. PICK failed \in SUBSET {"save", "field"} :
          /\ Spend(failed)
          /\ mp' = [Settle(mp, mp) EXCEPT ![f] = v]
          /\ saved' = FieldSaved(Kept(mp, mp, failed), f, v, failed)
    BY <1>8 DEF Change
  <2>2. faults' \in 0 .. MaxFaults BY <2>1, SpendType DEF Operations
  <2>3. mp' \in Settings /\ saved' \in SavedSettings
    <3>1. Settle(mp, mp) \in Settings /\ Kept(mp, mp, failed) \in SavedSettings
      BY SettleType, KeptType DEF MeteringTypeOK
    <3>2. v \in FieldValues(f) BY DEF FieldValues
    <3>. QED BY <2>1, <3>1, <3>2, FieldType
  <2>. QED BY <1>8, <2>2, <2>3 DEF Change, MeteringTypeOK
<1>9. ASSUME NEW rate \in RateChoices, RateChange(rate) PROVE MeteringTypeOK'
  <2>. DEFINE new == rate % (TariffCount + 1)
  <2>1. PICK failed \in SUBSET (Operations \ {"read"}), lost \in SUBSET Waiting :
          /\ Spend(failed)
          /\ mp' = [Settle(mp, mp) EXCEPT !.rate = new]
          /\ saved' = FieldSaved(Kept(mp, mp, failed), "rate", new, failed)
          /\ IF new = Settle(mp, mp).rate
               THEN UNCHANGED <<mc, flush, totals, length>>
               ELSE /\ Put(new, Waiting \ lost, mc)
                    /\ flush' = NoEnergy
                    /\ Reread(new, failed)
    BY <1>9 DEF RateChange
  <2>2. new \in Blocks BY RateType, MeteringAssumption
  <2>. HIDE DEF new
  <2>3. faults' \in 0 .. MaxFaults BY <2>1, SpendType
  <2>4. mp' \in Settings /\ saved' \in SavedSettings
    <3>1. Settle(mp, mp) \in Settings /\ Kept(mp, mp, failed) \in SavedSettings
      BY SettleType, KeptType DEF MeteringTypeOK
    <3>2. new \in FieldValues("rate") BY <2>2 DEF FieldValues
    <3>. QED BY <2>1, <3>1, <3>2, FieldType
  <2>5. /\ mc' \in Registers /\ flush' \in Registers
        /\ totals' \in [Blocks -> Registers] /\ length' \in Nat
    <3>1. CASE new = Settle(mp, mp).rate BY <2>1, <3>1 DEF MeteringTypeOK
    <3>2. CASE new # Settle(mp, mp).rate
      <4>1. totals' \in [Blocks -> Registers] /\ length' \in Nat
        BY <2>1, <2>2, <3>2, PutType DEF Waiting, MeteringTypeOK
      <4>2. flush' \in Registers BY <2>1, <3>2 DEF NoEnergy, Registers
      <4>3. mc' \in Registers
        BY <2>1, <2>2, <3>2, <4>1 DEF Reread, MeteringTypeOK
      <4>. QED BY <4>1, <4>2, <4>3
    <3>. QED BY <3>1, <3>2
  <2>. QED BY <1>9, <2>3, <2>4, <2>5 DEF RateChange, MeteringTypeOK
<1>10. CASE UNCHANGED vars
  BY <1>10 DEF vars, ram, disk, MeteringTypeOK
<1>. QED
  BY <1>1, <1>2, <1>3, <1>4, <1>5, <1>6, <1>7, <1>8, <1>9, <1>10, MeteringAssumption
  DEF Next, Loop, EnergySwitch, DivisorSet

-----------------------------------------------------------------------------
(* The registers in RAM and the file, given tariffs that exist, divisors that    *)
(* are not zero and a file that can be read.                                   *)

\* The registers are accounted for at the start ...
LEMMA InitAccounted ==
  ASSUME Careful, Init
  PROVE  AccountedInv
BY InitType, DefaultType
   DEF Careful, Init, AccountedInv, TariffsNamed, SettingsSound, AllReadable, Accounted,
       Active, NotSaved

(* A visit of the walk moves readings from "waiting" into the file.            *)
LEMMA WalkAccounted ==
  ASSUME AccountedInv, mp.divisors,
         NEW energy \in Registers, NEW waiting \in Registers, Walk(energy, waiting),
         faults = 0 => \A c \in Cells : energy[c] = totals[mp.rate][c] + waiting[c]
  PROVE  /\ mp' = mp /\ saved'.now \in {saved.now, Default} /\ length <= length'
         /\ faults' = 0 =>
              faults = 0 /\ \A c \in Cells : energy[c] = totals'[mp.rate][c] + flush'[c]
<1>0. MeteringTypeOK BY DEF AccountedInv
<1>1. CASE clock + 1 < WritePeriod
  BY <1>0, <1>1 DEF Walk, disk, MeteringTypeOK
<1>2. CASE ~(clock + 1 < WritePeriod)
  <2>1. PICK failed \in SUBSET {"save", "write"} :
          /\ Spend(failed)
          /\ mp' = Settle(mp, mp) /\ saved' = Kept(mp, mp, failed)
          /\ IF waiting[Pair] > FlushAbove
               THEN /\ Put(mp'.rate, IF "write" \in failed THEN {} ELSE {Pair}, energy)
                    /\ flush' = [waiting EXCEPT ![Pair] = 0]
               ELSE flush' = waiting /\ UNCHANGED <<totals, length>>
    BY <1>2 DEF Walk
  <2>2. faults' = 0 => faults = 0 /\ failed = {}
    BY <1>0, <2>1, SpendType DEF Operations
  <2>3. mp' = mp /\ saved'.now \in {saved.now, Default}
    BY <1>0, <2>1, SettleType, KeptType DEF MeteringTypeOK
  <2>4. Pair \in Cells /\ mp.rate \in Blocks BY <1>0, PairType DEF MeteringTypeOK, Settings
  <2>5. CASE waiting[Pair] > FlushAbove
    <3>. DEFINE cs == IF "write" \in failed THEN {} ELSE {Pair}
    <3>1. Put(mp.rate, cs, energy) /\ cs \in SUBSET Cells
      BY <2>1, <2>3, <2>4, <2>5
    <3>. HIDE DEF cs
    <3>2. totals' = [totals EXCEPT ![mp.rate] =
               [c \in Cells |-> IF c \in cs THEN energy[c] ELSE totals[mp.rate][c]]]
      BY <3>1 DEF Put
    <3>4. length <= length'
      <4>1. {CellEnd(mp.rate, c) : c \in cs} \in SUBSET Nat BY <2>4, <3>1, BlockEndType
      <4>. QED BY <1>0, <3>1, <4>1, GrowType DEF Put, MeteringTypeOK
    <3>3. ASSUME faults' = 0, NEW c \in Cells
          PROVE  energy[c] = totals'[mp.rate][c] + flush'[c]
      <4>1. totals'[mp.rate][c] = IF c = Pair THEN energy[c] ELSE totals[mp.rate][c]
        BY <1>0, <2>2, <2>4, <3>2, <3>3 DEF cs, MeteringTypeOK
      <4>2. flush'[c] = IF c = Pair THEN 0 ELSE waiting[c]
        BY <2>1, <2>5 DEF Registers
      <4>3. energy[c] \in Nat /\ waiting[c] \in Nat BY DEF Registers
      <4>. QED BY <2>2, <3>3, <4>1, <4>2, <4>3
    <3>. QED BY <2>2, <2>3, <3>3, <3>4
  <2>6. CASE ~(waiting[Pair] > FlushAbove)
    BY <1>0, <2>1, <2>2, <2>3, <2>6 DEF MeteringTypeOK
  <2>. QED BY <2>5, <2>6
<1>. QED BY <1>1, <1>2

\* ... and after every step ...
LEMMA AccountedStep ==
  ASSUME Careful, AccountedInv, [Next]_vars
  PROVE  AccountedInv'
<1>0. MeteringTypeOK /\ MeteringTypeOK' BY MeteringTypeStep DEF AccountedInv
<1>. DEFINE Rest == TariffsNamed' /\ SettingsSound' /\ AllReadable' /\ Accounted'
<1>. SUFFICES Rest BY <1>0 DEF AccountedInv
<1>a. 0 \in Tariffs /\ Tariffs \subseteq Blocks /\ TariffCount - 1 \in Tariffs
  BY DefaultType, MeteringAssumption DEF Tariffs
<1>b. Default.rate = 0 /\ Default.divisors /\ Zeros.rate = 0 BY DefaultType
<1>1. ASSUME NEW l \in Levels \ {"off"}, Enter(l) PROVE Rest
  <2>1. CASE l \notin Active
    BY <1>1, <2>1 DEF Enter, ram, AccountedInv, TariffsNamed, SettingsSound, AllReadable, Accounted
  <2>2. CASE l \in Active
    <3>1. PICK failed \in SUBSET {"read", "save", "block"} :
            LET read  == saved.there /\ "read" \notin failed
                p     == IF read THEN saved.now ELSE mp
                check == IF read THEN saved.check ELSE mp
            IN  /\ Spend(failed)
                /\ mp' = Settle(p, check)
                /\ saved' = Kept(p, check, failed)
                /\ mc' = IF length >= BlockEnd(mp'.rate) /\ "block" \notin failed
                           THEN totals[mp'.rate] ELSE NoEnergy
                /\ Fresh
      BY <1>1, <2>2 DEF Enter
    <3>2. faults' = 0 => faults = 0 /\ failed = {} BY <1>0, <3>1, SpendType DEF Operations
    <3>3. mp'.divisors /\ mp' \in {saved.now, mp, Default} /\ saved'.now \in {saved.now, Default}
      BY <1>0, <3>1, SettleType, KeptType DEF MeteringTypeOK, SavedSettings
    <3>4. TariffsNamed' BY <1>a, <1>b, <3>3 DEF AccountedInv, TariffsNamed
    <3>5. length' = length /\ totals' = totals BY <1>1 DEF Enter
    <3>6. Accounted'
      <4>. SUFFICES ASSUME faults' = 0, NEW c \in Cells
                    PROVE  mc'[c] = totals'[mp'.rate][c] + flush'[c]
        BY DEF Accounted
      <4>1. length >= BlockEnd(TariffCount - 1) BY <3>2 DEF AccountedInv, AllReadable
      <4>2. mp'.rate \in Tariffs BY <3>4 DEF TariffsNamed
      <4>3. length >= BlockEnd(mp'.rate)
        BY <1>0, <4>1, <4>2, MeteringAssumption DEF BlockEnd, CellCount, Tariffs, MeteringTypeOK
      <4>4. mc' = totals[mp'.rate] BY <3>1, <3>2, <4>3
      <4>5. flush'[c] = 0 BY <3>1 DEF Fresh, NoEnergy
      <4>6. totals[mp'.rate][c] \in Nat
        BY <1>0, <1>a, <4>2 DEF MeteringTypeOK, Registers
      <4>. QED BY <3>5, <4>4, <4>5, <4>6
    <3>. QED BY <3>2, <3>3, <3>4, <3>5, <3>6 DEF AccountedInv, SettingsSound, AllReadable
  <2>. QED BY <2>1, <2>2
<1>2. CASE Leave
  <2>1. PICK failed \in SUBSET {"save", "write"}, lost \in SUBSET Waiting :
          /\ IF level = "SLEEP" THEN UNCHANGED faults ELSE Spend(failed)
          /\ mp' = Settle(mp, mp) /\ saved' = Kept(mp, mp, failed)
          /\ Put(mp'.rate, Waiting \ lost, mc)
    BY <1>2 DEF Leave
  <2>2. faults' = 0 => faults = 0 BY <1>0, <2>1, SpendType DEF Operations
  <2>3. mp' \in {mp, Default} /\ saved'.now \in {saved.now, Default}
    BY <1>0, <2>1, SettleType, KeptType DEF MeteringTypeOK
  <2>4. length \in Nat /\ length' \in Nat /\ length <= length'
    <3>1. mp'.rate \in Blocks BY <1>0 DEF MeteringTypeOK, Settings
    <3>. QED BY <1>0, <2>1, <3>1, PutType DEF Waiting, MeteringTypeOK
  <2>5. level' = "off" BY <1>2 DEF Leave
  <2>6. BlockEnd(TariffCount - 1) \in Nat BY <1>a, BlockEndType
  <2>. QED BY <1>a, <1>b, <2>2, <2>3, <2>4, <2>5, <2>6
           DEF AccountedInv, TariffsNamed, SettingsSound, AllReadable, Accounted, Active
<1>3. CASE Crash
  BY <1>3, <1>a, <1>b
  DEF Crash, Boot, disk, AccountedInv, TariffsNamed, SettingsSound, AllReadable, Accounted, Active
<1>4. CASE Reset
  <2>1. PICK failed \in SUBSET {"save", "write"}, written \in SUBSET Tariffs :
          /\ "write" \in failed <=> written # Tariffs
          /\ Spend(failed)
          /\ saved' = IF "save" \in failed THEN NotSaved ELSE Saved(Default)
          /\ Grow(0, {BlockEnd(r) : r \in written})
    BY <1>4 DEF Reset
  <2>2. faults' = 0 => failed = {} BY <1>0, <2>1, SpendType DEF Operations
  <2>3. faults' = 0 => length' >= BlockEnd(TariffCount - 1)
    <3>1. {BlockEnd(r) : r \in written} \in SUBSET Nat BY <1>a, BlockEndType
    <3>2. \A e \in {BlockEnd(r) : r \in written} : e <= length'
      BY <2>1, <3>1, GrowType
    <3>. QED BY <1>a, <2>1, <2>2, <3>2
  <2>4. saved'.now.rate = 0 BY <1>b, <2>1 DEF Saved, NotSaved
  <2>. QED BY <1>4, <1>a, <1>b, <2>3, <2>4
           DEF Reset, Boot, TariffsNamed, SettingsSound, AllReadable, Accounted, Active
<1>5. CASE Clear
  <2>1. PICK written \in SUBSET Tariffs :
          /\ Spend(IF written = Tariffs THEN {} ELSE {"write"})
          /\ totals' = [r \in Blocks |-> IF r \in written THEN NoEnergy ELSE totals[r]]
          /\ Grow(length, {BlockEnd(r) : r \in written})
    BY <1>5 DEF Clear
  <2>2. faults' = 0 => faults = 0 /\ written = Tariffs
    <3>1. (IF written = Tariffs THEN {} ELSE {"write"}) \in SUBSET Operations
      BY DEF Operations
    <3>2. faults' = 0 => faults = 0 /\ (IF written = Tariffs THEN {} ELSE {"write"}) = {}
      BY <1>0, <2>1, <3>1, SpendType
    <3>. QED BY <3>2
  <2>3. length \in Nat /\ length' \in Nat /\ length <= length'
    <3>1. {BlockEnd(r) : r \in written} \in SUBSET Nat BY <1>a, BlockEndType
    <3>. QED BY <1>0, <2>1, <3>1, GrowType DEF MeteringTypeOK
  <2>4. BlockEnd(TariffCount - 1) \in Nat BY <1>a, BlockEndType
  <2>5. Accounted'
    <3>. SUFFICES ASSUME faults' = 0, NEW c \in Cells
                  PROVE  mc'[c] = totals'[mp'.rate][c] + flush'[c]
      BY DEF Accounted
    <3>1. mp' = mp /\ mp.rate \in Tariffs BY <1>5 DEF Clear, AccountedInv, TariffsNamed
    <3>2. totals'[mp.rate] = NoEnergy BY <1>a, <2>1, <2>2, <3>1
    <3>3. mc'[c] = 0 /\ flush'[c] = 0 BY <1>5 DEF Clear, NoEnergy
    <3>. QED BY <3>1, <3>2, <3>3 DEF NoEnergy
  <2>. QED BY <1>5, <2>2, <2>3, <2>4, <2>5
           DEF Clear, AccountedInv, TariffsNamed, SettingsSound, AllReadable
<1>6. CASE LoopIdle
  <2>1. Walk(mc, flush) /\ level = "RUN" /\ level' = level /\ mc' = mc BY <1>6 DEF LoopIdle
  <2>2. mp.divisors /\ mc \in Registers /\ flush \in Registers
    BY <1>0, <2>1 DEF AccountedInv, SettingsSound, Active, MeteringTypeOK
  <2>3. faults = 0 => \A c \in Cells : mc[c] = totals[mp.rate][c] + flush[c]
    BY <2>1 DEF AccountedInv, Accounted, Active
  <2>4. /\ mp' = mp /\ saved'.now \in {saved.now, Default} /\ length <= length'
        /\ faults' = 0 => faults = 0 /\ \A c \in Cells : mc[c] = totals'[mp.rate][c] + flush'[c]
    BY <2>1, <2>2, <2>3, WalkAccounted
  <2>5. length \in Nat /\ length' \in Nat /\ BlockEnd(TariffCount - 1) \in Nat
    BY <1>0, <1>a, BlockEndType DEF MeteringTypeOK
  <2>. QED BY <1>a, <1>b, <2>1, <2>2, <2>4, <2>5
           DEF AccountedInv, TariffsNamed, SettingsSound, AllReadable, Accounted
<1>7. ASSUME NEW flow \in Flows, LoopCount(flow) PROVE Rest
  <2>. PICK k : k = Counted(flow) OBVIOUS
  <2>. DEFINE waiting == [flush EXCEPT ![k] = @ + 1]
  <2>1. /\ Walk(mc', waiting) /\ level = "RUN" /\ level' = level
        /\ mc' = [mc EXCEPT ![k] = @ + 1]
    BY <1>7 DEF LoopCount
  <2>2. mp.divisors /\ mc \in Registers /\ flush \in Registers
    BY <1>0, <2>1 DEF AccountedInv, SettingsSound, Active, MeteringTypeOK
  <2>3. mc' \in Registers /\ waiting \in Registers BY <2>1, <2>2, ReadingType
  <2>6. \A c \in Cells : /\ mc'[c] = IF c = k THEN mc[c] + 1 ELSE mc[c]
                         /\ waiting[c] = IF c = k THEN flush[c] + 1 ELSE flush[c]
    BY <2>1, <2>2, ReadingType
  <2>. HIDE DEF waiting
  <2>7. faults = 0 => \A c \in Cells : mc'[c] = totals[mp.rate][c] + waiting[c]
    <3>. SUFFICES ASSUME faults = 0, NEW c \in Cells
                  PROVE  mc'[c] = totals[mp.rate][c] + waiting[c]
      OBVIOUS
    <3>1. mc[c] = totals[mp.rate][c] + flush[c] BY <2>1 DEF AccountedInv, Accounted, Active
    <3>2. mc[c] \in Nat /\ flush[c] \in Nat /\ totals[mp.rate][c] \in Nat
      BY <1>0, <1>a DEF AccountedInv, TariffsNamed, MeteringTypeOK, Registers
    <3>. QED BY <2>6, <3>1, <3>2
  <2>4. /\ mp' = mp /\ saved'.now \in {saved.now, Default} /\ length <= length'
        /\ faults' = 0 =>
             faults = 0 /\ \A c \in Cells : mc'[c] = totals'[mp.rate][c] + flush'[c]
    BY <2>1, <2>2, <2>3, <2>7, WalkAccounted
  <2>5. length \in Nat /\ length' \in Nat /\ BlockEnd(TariffCount - 1) \in Nat
    BY <1>0, <1>a, BlockEndType DEF MeteringTypeOK
  <2>. QED BY <1>a, <1>b, <2>1, <2>2, <2>4, <2>5
           DEF AccountedInv, TariffsNamed, SettingsSound, AllReadable, Accounted
<1>8. ASSUME NEW f \in {"counting", "divisors"}, NEW v \in BOOLEAN, Change(f, v),
             f = "divisors" => v
      PROVE  Rest
  <2>1. PICK failed \in SUBSET {"save", "field"} :
          /\ Spend(failed)
          /\ mp' = [Settle(mp, mp) EXCEPT ![f] = v]
          /\ saved' = FieldSaved(Kept(mp, mp, failed), f, v, failed)
    BY <1>8 DEF Change
  <2>2. faults' = 0 => faults = 0 BY <1>0, <2>1, SpendType DEF Operations
  <2>3. level \in Active /\ mp \in Settings /\ mp.divisors
    BY <1>0, <1>8 DEF Change, AccountedInv, SettingsSound, MeteringTypeOK
  <2>4. mp' = [mp EXCEPT ![f] = v] BY <2>1, <2>3, SettleType
  <2>5. mp'.rate = mp.rate /\ mp'.divisors BY <1>8, <2>3, <2>4 DEF Settings
  <2>6. saved'.now.rate \in {saved.now.rate, 0}
    <3>1. PICK s : s = Kept(mp, mp, failed) OBVIOUS
    <3>2. s \in SavedSettings /\ s.now \in {saved.now, Default}
      BY <1>0, <3>1, KeptType
    <3>3. saved' = FieldSaved(s, f, v, failed) BY <2>1, <3>1
    <3>4. saved'.now.rate = s.now.rate
      BY <1>8, <3>2, <3>3 DEF FieldSaved, SavedSettings, Settings
    <3>. QED BY <1>b, <3>2, <3>4
  <2>. QED BY <1>8, <1>a, <2>2, <2>5, <2>6
           DEF Change, AccountedInv, TariffsNamed, SettingsSound, AllReadable, Accounted
<1>9. ASSUME NEW rate \in RateChoices, RateChange(rate) PROVE Rest
  <2>. PICK new : new = rate % (TariffCount + 1) OBVIOUS
  <2>1. PICK failed \in SUBSET (Operations \ {"read"}), lost \in SUBSET Waiting :
          /\ Spend(failed)
          /\ mp' = [Settle(mp, mp) EXCEPT !.rate = new]
          /\ saved' = FieldSaved(Kept(mp, mp, failed), "rate", new, failed)
          /\ IF new = Settle(mp, mp).rate
               THEN UNCHANGED <<mc, flush, totals, length>>
               ELSE /\ Put(new, Waiting \ lost, mc)
                    /\ flush' = NoEnergy
                    /\ Reread(new, failed)
    BY <1>9 DEF RateChange
  <2>2. faults' = 0 => faults = 0 /\ failed = {} BY <1>0, <2>1, SpendType
  <2>3. level \in Active /\ level' = level /\ mp \in Settings /\ mp.divisors
    BY <1>0, <1>9 DEF RateChange, AccountedInv, SettingsSound, MeteringTypeOK
  <2>4. new \in Tariffs BY DEF Careful
  <2>5. Settle(mp, mp) = mp BY <2>3, SettleType
  <2>6. mp'.rate = new /\ mp'.divisors BY <2>1, <2>3, <2>5 DEF Settings
  <2>7. saved'.now.rate \in Tariffs
    <3>1. PICK s : s = Kept(mp, mp, failed) OBVIOUS
    <3>2. s \in SavedSettings /\ s.now \in {saved.now, Default}
      BY <1>0, <3>1, KeptType
    <3>3. saved' = FieldSaved(s, "rate", new, failed) BY <2>1, <3>1
    <3>4. saved'.now.rate \in {new, s.now.rate}
      BY <3>2, <3>3 DEF FieldSaved, SavedSettings, Settings
    <3>. QED BY <1>a, <1>b, <2>4, <3>2, <3>4 DEF AccountedInv, TariffsNamed
  <2>8. /\ length \in Nat /\ length' \in Nat /\ length <= length'
        /\ BlockEnd(TariffCount - 1) \in Nat
    <3>1. CASE new = mp.rate BY <1>0, <1>a, <2>1, <2>5, <3>1, BlockEndType DEF MeteringTypeOK
    <3>2. CASE new # mp.rate
      <4>1. Put(new, Waiting \ lost, mc) /\ new \in Blocks BY <1>a, <2>1, <2>4, <2>5, <3>2
      <4>. QED BY <1>0, <1>a, <4>1, PutType, BlockEndType DEF Waiting, MeteringTypeOK
    <3>. QED BY <3>1, <3>2
  <2>9. AllReadable' BY <2>2, <2>8 DEF AccountedInv, AllReadable
  <2>10. Accounted'
    <3>1. CASE new = mp.rate
      BY <2>1, <2>2, <2>3, <2>5, <2>6, <3>1, <1>a, <1>0, <2>4
         DEF AccountedInv, Accounted, MeteringTypeOK
    <3>2. CASE new # mp.rate
      <4>. SUFFICES ASSUME faults' = 0, NEW c \in Cells
                    PROVE  mc'[c] = totals'[mp'.rate][c] + flush'[c]
        BY DEF Accounted
      <4>1. flush'[c] = 0 BY <2>1, <2>5, <3>2 DEF NoEnergy
      <4>2. length' >= BlockEnd(TariffCount - 1) BY <2>9 DEF AllReadable
      <4>3. length' >= BlockEnd(new)
        BY <2>4, <2>8, <4>2, MeteringAssumption DEF BlockEnd, CellCount, Tariffs
      <4>4. mc' = totals'[new] BY <2>1, <2>2, <2>5, <3>2, <4>3 DEF Reread
      <4>5. totals'[new][c] \in Nat
        BY <1>0, <1>a, <2>4 DEF MeteringTypeOK, Registers
      <4>. QED BY <2>6, <4>1, <4>4, <4>5
    <3>. QED BY <3>1, <3>2
  <2>. QED BY <2>4, <2>6, <2>7, <2>9, <2>10 DEF TariffsNamed, SettingsSound
<1>10. CASE UNCHANGED vars
  BY <1>10 DEF vars, ram, disk, AccountedInv, TariffsNamed, SettingsSound, AllReadable, Accounted
<1>11. ASSUME NEW on \in BOOLEAN, EnergySwitch(on) PROVE Rest
  BY <1>8, <1>11 DEF EnergySwitch
<1>12. ASSUME NEW sound \in DivisorChoices, DivisorSet(sound) PROVE Rest
  <2>1. sound \in BOOLEAN /\ sound BY MeteringAssumption DEF Careful
  <2>. QED BY <1>8, <1>12, <2>1 DEF DivisorSet
<1>. QED
  BY <1>1, <1>2, <1>3, <1>4, <1>5, <1>6, <1>7, <1>9, <1>10, <1>11, <1>12 DEF Next, Loop

-----------------------------------------------------------------------------
(* Every handler keeps the types, whatever is asked of it and whatever fails:   *)
(* the walk's pair, the divided step of the chip and rate % (MAX_RATE + 1)     *)
(* never name a register or a block that is not there.                         *)
THEOREM MeteringTypeCorrect == Spec => []MeteringTypeOK
<1>1. MeteringTypeOK /\ [Next]_vars => MeteringTypeOK' BY MeteringTypeStep
<1>. QED BY InitType, <1>1, PTL DEF Spec

\* ... so throughout.
LEMMA AccountedInvariant ==
  ASSUME Careful
  PROVE  Spec => []AccountedInv
<1>1. Init => AccountedInv BY InitAccounted
<1>2. AccountedInv /\ [Next]_vars => AccountedInv' BY AccountedStep
<1>. QED BY <1>1, <1>2, PTL DEF Spec

(* metering_loop(), the setters and restarts keep every register in RAM equal to *)
(* the one in the file and what flush says is waiting.                         *)
THEOREM RegistersAccounted ==
  ASSUME Careful
  PROVE  Spec => []Accounted
<1>1. AccountedInv => Accounted BY DEF AccountedInv
<1>. QED BY AccountedInvariant, <1>1, PTL

(* metering_exit() after any history leaves every reading in the file.         *)
THEOREM PlannedEndLosesNothing ==
  ASSUME Careful
  PROVE  Spec => LeavesNothing
<1>1. ASSUME AccountedInv, Leave, level \in Active, faults' = 0
      PROVE  totals'[mp.rate] = mc
  <2>0. MeteringTypeOK BY <1>1 DEF AccountedInv
  <2>1. PICK failed \in SUBSET {"save", "write"}, lost \in SUBSET Waiting :
          /\ "write" \in failed <=> lost # {}
          /\ Spend(failed)
          /\ mp' = Settle(mp, mp) /\ Put(mp'.rate, Waiting \ lost, mc)
    BY <1>1 DEF Leave, Active
  <2>2. faults = 0 /\ failed = {} /\ lost = {}
    BY <1>1, <2>0, <2>1, SpendType DEF Operations
  <2>3. mp \in Settings /\ mp' = mp
    BY <1>1, <2>0, <2>1, SettleType DEF AccountedInv, SettingsSound, MeteringTypeOK
  <2>4. mp.rate \in Blocks BY <2>3 DEF Settings
  <2>5. totals' = [totals EXCEPT ![mp.rate] =
             [c \in Cells |-> IF c \in Waiting THEN mc[c] ELSE totals[mp.rate][c]]]
    BY <2>1, <2>2, <2>3 DEF Put
  <2>6. totals'[mp.rate] = [c \in Cells |-> IF c \in Waiting THEN mc[c]
                                                             ELSE totals[mp.rate][c]]
    BY <2>0, <2>4, <2>5 DEF MeteringTypeOK
  <2>7. \A c \in Cells : c \notin Waiting => totals[mp.rate][c] = mc[c]
    BY <1>1, <2>0, <2>2, <2>4 DEF AccountedInv, Accounted, Waiting, MeteringTypeOK, Registers
  <2>. QED BY <2>0, <2>6, <2>7 DEF MeteringTypeOK, Registers
<1>. QED BY AccountedInvariant, <1>1, PTL DEF LeavesNothing
=============================================================================
