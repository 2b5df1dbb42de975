------------------------------- MODULE Metering -------------------------------
(***************************************************************************)
(* The metering task (Tasks/Metering/Src/task_metering.c): every loop reads*)
(* one energy register of the chip into the totals of the tariff in effect,*)
(* flush counts what is not in the file yet, a walk over the registers     *)
(* writes them back one at a time, and exit writes what is left.  The      *)
(* settings are read whole and written field by field, under a check.      *)
(*                                                                         *)
(* One reading adds one; the phases of a register add up to one number; a  *)
(* check is the contents it was computed from; RAM keeps what it is given. *)
(***************************************************************************)
EXTENDS Integers, FiniteSets

CONSTANTS
  PhaseCount,      \* MAX_PHASE
  TariffCount,     \* MAX_RATE
  RateChoices,     \* what callers pass to rate.change()
  DivisorChoices,  \* FALSE in it: callers set a divisor to zero
  Flows,           \* signs of active and reactive power: <<active >= 0, reactive >= 0>>
  WritePeriod,     \* 5000 / KERNEL_PERIOD: loops between two steps of the walk
  FlushAbove,      \* readings a register may have waiting when the walk passes it by
  StartLength,     \* registers the file holds at the outset: 0 on a blank disk
  MaxReadings,     \* bound: readings of the chip that are not zero
  MaxFaults        \* bound: file operations that fail

Quads == 0 .. 3
Groups == 0 .. 2                      \* active, reactive, apparent
Cells == Quads \X Groups
CellCount == 12
Tariffs == 0 .. TariffCount - 1
Blocks == 0 .. TariffCount            \* rate % (MAX_RATE + 1) may leave energy[]
Active == {"RUN", "WAKEUP"}
Levels == Active \cup {"SLEEP", "off"}

ASSUME MeteringAssumption ==
  /\ PhaseCount \in Nat \ {0} /\ TariffCount \in Nat \ {0} /\ WritePeriod \in Nat \ {0}
  /\ RateChoices \subseteq Nat /\ DivisorChoices \subseteq BOOLEAN
  /\ Flows \subseteq BOOLEAN \X BOOLEAN
  /\ FlushAbove \in Nat /\ StartLength \in Nat /\ MaxReadings \in Nat /\ MaxFaults \in Nat

VARIABLES
  level,     \* the run level the task was initialised at, "off" after exit and reset
  mp,        \* the settings in RAM; their check is right after every config_check()
  mc,        \* the totals of the tariff in effect
  flush,     \* readings of each register since it was written
  step,      \* the chip register read last
  walk,      \* <<quad, group>>, the register the walk comes to next
  clock,     \* period / KERNEL_PERIOD
  saved,     \* the settings in the file "calibration"
  totals,    \* the file "measurements": totals of every tariff
  length,    \* registers in that file
  readings, faults

ram == <<mp, mc, flush, step, walk, clock>>
disk == <<saved, totals, length>>
vars == <<level, ram, disk, readings, faults>>

Settings == [rate : Blocks, counting : BOOLEAN, divisors : BOOLEAN]
Zeros == [rate |-> 0, counting |-> FALSE, divisors |-> FALSE]
Default == [rate |-> 0, counting |-> TRUE, divisors |-> TRUE]
NoEnergy == [c \in Cells |-> 0]
Registers == [Cells -> Nat]

-----------------------------------------------------------------------------
\* the files: a block can be read only if the file reaches to its end, a write
\* beyond the end fills the gap with zeros

SavedSettings == [there : BOOLEAN, now : Settings, check : Settings]
Saved(p) == [there |-> TRUE, now |-> p, check |-> p]
NotSaved == [there |-> FALSE, now |-> Zeros, check |-> Zeros]

BlockEnd(r) == CellCount * (r + 1)
CellEnd(r, c) == CellCount * r + 3 * c[1] + c[2] + 1

\* a file of n registers is written up to each of ends
Grow(n, ends) ==
  /\ length' \in {n} \cup ends
  /\ \A e \in {n} \cup ends : e <= length'

\* the registers cs of block r are given the values of energy
Put(r, cs, energy) ==
  /\ totals' = [totals EXCEPT ![r] =
                  [c \in Cells |-> IF c \in cs THEN energy[c] ELSE totals[r][c]]]
  /\ Grow(length, {CellEnd(r, c) : c \in cs})

\* mutant: only what the walk would write
WaitingOften == {c \in Cells : flush[c] > FlushAbove}

\* the registers exit and a change of tariff write
Waiting == {c \in Cells : flush[c] # 0}

\* the file operations of a handler: reading the settings, saving all or one field
\* of them, reading a block of totals, writing registers
Operations == {"read", "save", "field", "block", "write"}

\* those that fail count against the bound
Spend(failed) ==
  LET n == faults + Cardinality(failed) IN n <= MaxFaults /\ faults' = n

-----------------------------------------------------------------------------
\* config_check(): settings that fail their check, or lack a divisor, are
\* replaced and written back whole; reading them again does not mend them

Sound(p, check) == p = check /\ p.divisors
Settle(p, check) == IF Sound(p, check) THEN p ELSE Default
Kept(p, check, failed) ==
  IF Sound(p, check) \/ "save" \in failed THEN saved ELSE Saved(Default)

\* one field of the settings is written, their check is not
FieldSaved(s, f, v, failed) ==
  IF s.there /\ "field" \notin failed THEN [s EXCEPT !.now[f] = v] ELSE s

-----------------------------------------------------------------------------
Fresh ==
  /\ flush' = NoEnergy /\ step' = 0 /\ walk' = <<0, 0>> /\ clock' = 0

Init ==
  /\ level = "off"
  /\ mp = Zeros /\ mc = NoEnergy
  /\ flush = NoEnergy /\ step = 0 /\ walk = <<0, 0>> /\ clock = 0
  /\ saved = NotSaved /\ totals = [r \in Blocks |-> NoEnergy] /\ length = StartLength
  /\ readings = 0 /\ faults = 0

\* metering_init(): RAM keeps its settings if the file's cannot be read
Enter(l) ==
  /\ level = "off" /\ level' = l
  /\ IF l \in Active
       THEN \E failed \in SUBSET {"read", "save", "block"} :
              LET read  == saved.there /\ "read" \notin failed
                  p     == IF read THEN saved.now ELSE mp
                  check == IF read THEN saved.check ELSE mp
              IN  /\ Spend(failed)
                  /\ mp' = Settle(p, check)
                  /\ saved' = Kept(p, check, failed)
                  /\ mc' = IF length >= BlockEnd(mp'.rate) /\ "block" \notin failed
                             THEN totals[mp'.rate] ELSE NoEnergy
                  /\ Fresh
       ELSE UNCHANGED <<ram, saved, faults>>
  /\ UNCHANGED <<totals, length, readings>>

\* metering_exit(): what still waits is written; nothing can be when asleep
Leave ==
  /\ level # "off" /\ level' = "off"
  /\ \E failed \in SUBSET {"save", "write"}, lost \in SUBSET Waiting :
       /\ "write" \in failed <=> lost # {}
       /\ IF level = "SLEEP" THEN "save" \in failed /\ lost = Waiting /\ UNCHANGED faults
                             ELSE Spend(failed)
       /\ mp' = Settle(mp, mp) /\ saved' = Kept(mp, mp, failed)
       /\ Put(mp'.rate, Waiting \ lost, mc)
  /\ flush' = NoEnergy
  /\ UNCHANGED <<mc, step, walk, clock, readings>>

\* RAM after a processor reset
Boot == level' = "off" /\ mp' = Zeros /\ mc' = NoEnergy /\ Fresh

Crash == Boot /\ UNCHANGED <<disk, readings, faults>>

\* metering_reset() between a formatted disk and a processor reset; the tariffs
\* that are not written stay without a register
Reset ==
  /\ \E failed \in SUBSET {"save", "write"}, written \in SUBSET Tariffs :
       /\ "write" \in failed <=> written # Tariffs
       /\ Spend(failed)
       /\ saved' = IF "save" \in failed THEN NotSaved ELSE Saved(Default)
       /\ Grow(0, {BlockEnd(r) : r \in written})
  /\ totals' = [r \in Blocks |-> NoEnergy]
  /\ Boot /\ UNCHANGED readings

\* config_energy_start(), config_energy_stop(), config_active_div_set(), ...
Change(f, v) ==
  /\ level \in Active
  /\ \E failed \in SUBSET {"save", "field"} :
       /\ Spend(failed)
       /\ mp' = [Settle(mp, mp) EXCEPT ![f] = v]
       /\ saved' = FieldSaved(Kept(mp, mp, failed), f, v, failed)
  /\ UNCHANGED <<level, mc, flush, step, walk, clock, totals, length, readings>>

EnergySwitch(on) == Change("counting", on)
DivisorSet(sound) == Change("divisors", sound)

\* mutant: the new tariff goes on with the old one's totals
RereadNothing(new, failed) == UNCHANGED mc

\* config_rate_change(): the totals of the new tariff, once those of the old are written
Reread(new, failed) ==
  mc' = IF length' >= BlockEnd(new) /\ "block" \notin failed THEN totals'[new] ELSE mc

\* config_rate_change(): what waits of the old tariff goes where the new one is
RateChange(rate) ==
  /\ level \in Active
  /\ \E failed \in SUBSET (Operations \ {"read"}), lost \in SUBSET Waiting :
       LET new == rate % (TariffCount + 1)
       IN  /\ Spend(failed)
           /\ "write" \in failed <=> lost # {}
           /\ mp' = [Settle(mp, mp) EXCEPT !.rate = new]
           /\ saved' = FieldSaved(Kept(mp, mp, failed), "rate", new, failed)
           /\ IF new = Settle(mp, mp).rate
                THEN /\ failed \subseteq {"save", "field"}
                     /\ UNCHANGED <<mc, flush, totals, length>>
                ELSE /\ Put(new, Waiting \ lost, mc)
                     /\ flush' = NoEnergy
                     /\ Reread(new, failed)
  /\ UNCHANGED <<level, step, walk, clock, readings>>

\* config_energy_clear()
Clear ==
  /\ level \in Active
  /\ \E written \in SUBSET Tariffs :
       /\ Spend(IF written = Tariffs THEN {} ELSE {"write"})
       /\ totals' = [r \in Blocks |-> IF r \in written THEN NoEnergy ELSE totals[r]]
       /\ Grow(length, {BlockEnd(r) : r \in written})
  /\ mc' = NoEnergy /\ flush' = NoEnergy
  /\ UNCHANGED <<level, mp, step, walk, clock, saved, readings>>

-----------------------------------------------------------------------------
\* metering_loop()

\* the quadrant of a reading; apparent energy is only ever forward or reverse
QuadOf(g, flow) ==
  IF flow[1] THEN IF flow[2] \/ g = 2 THEN 0 ELSE 3
             ELSE IF flow[2] /\ g # 2 THEN 1 ELSE 2

\* mutant: the loop without a reading does not start again
NextStepCountsOn == step + 1

\* step 1 .. 12: a register of the chip, then one loop without a reading
NextStep == IF step < 3 * PhaseCount THEN step + 1 ELSE 0

\* the registers the chip's readings can reach
Reached == {<<QuadOf(g, flow), g>> : g \in Groups, flow \in Flows}

\* the register this loop adds to
Counted(flow) == LET g == (NextStep - 1) \div PhaseCount IN <<QuadOf(g, flow), g>>

\* mutant: the group goes on from the quadrant
NextPairDiagonal == <<(walk[1] % 4) + 1, (walk[1] % 4) + 1>>

\* quad and group go on together, each within its own range
Pair == <<walk[1] % 4, walk[2] % 3>>
NextPair == <<Pair[1] + 1, Pair[2] + 1>>

\* the end of the loop, once every WritePeriod: the register the walk is at, with
\* the totals and waiting readings this loop has made
Walk(energy, waiting) ==
  IF clock + 1 < WritePeriod
    THEN /\ clock' = clock + 1 /\ flush' = waiting
         /\ UNCHANGED <<mp, walk, disk, faults>>
    ELSE \E failed \in SUBSET {"save", "write"} :
           /\ Spend(failed)
           /\ clock' = 0 /\ walk' = NextPair
           /\ mp' = Settle(mp, mp) /\ saved' = Kept(mp, mp, failed)
           /\ IF waiting[Pair] > FlushAbove
                THEN /\ Put(mp'.rate, IF "write" \in failed THEN {} ELSE {Pair}, energy)
                     /\ flush' = [waiting EXCEPT ![Pair] = 0]
                ELSE "write" \notin failed /\ flush' = waiting /\ UNCHANGED <<totals, length>>

\* the chip has nothing, or counting is off
LoopIdle ==
  /\ level = "RUN"
  /\ step' = NextStep /\ Walk(mc, flush)
  /\ UNCHANGED <<level, mc, readings>>

LoopCount(flow) ==
  /\ level = "RUN" /\ mp.counting
  /\ readings < MaxReadings /\ readings' = readings + 1
  /\ step' = NextStep /\ NextStep # 0
  /\ mc' = [mc EXCEPT ![Counted(flow)] = @ + 1]
  /\ Walk(mc', [flush EXCEPT ![Counted(flow)] = @ + 1])
  /\ UNCHANGED level

Loop == LoopIdle \/ \E flow \in Flows : LoopCount(flow)

Next ==
  \/ \E l \in Levels \ {"off"} : Enter(l)
  \/ Leave \/ Crash \/ Reset \/ Clear \/ Loop
  \/ \E on \in BOOLEAN : EnergySwitch(on)
  \/ \E sound \in DivisorChoices : DivisorSet(sound)
  \/ \E rate \in RateChoices : RateChange(rate)

Spec == Init /\ [][Next]_vars

\* the scheduler goes on calling the loop of a task that is up
FairSpec == Spec /\ WF_vars(Loop)

-----------------------------------------------------------------------------
(* The task's variables and files hold values they can have: the chip's step    *)
(* and the walk stay within the registers there are.                           *)
MeteringTypeOK ==
  /\ level \in Levels /\ mp \in Settings
  /\ mc \in Registers /\ flush \in Registers
  /\ step \in 0 .. 3 * PhaseCount
  /\ walk \in (0 .. 4) \X (0 .. 3) /\ clock \in 0 .. WritePeriod - 1
  /\ saved \in SavedSettings
  /\ totals \in [Blocks -> Registers] /\ length \in Nat
  /\ readings \in 0 .. MaxReadings /\ faults \in 0 .. MaxFaults

(* A register in RAM is the one in the file of the tariff in effect and the    *)
(* readings that wait, after any starts, tariff changes, clears and losses of  *)
(* power, so long as no file operation failed: what a loss of power costs is   *)
(* what flush says, and never more.                                            *)
Accounted ==
  level \in Active /\ faults = 0 => \A c \in Cells : mc[c] = totals[mp.rate][c] + flush[c]

(* A planned change of the run level costs nothing: metering_exit() leaves the *)
(* file with every reading that was taken.                                     *)
LeavesNothing ==
  [][Leave /\ level \in Active /\ faults' = 0 => totals'[mp.rate] = mc]_vars

(* The walk comes by every register (l.2150: all of them in 12 * 5 seconds):   *)
(* one with enough readings waiting is written, or the level or tariff ends.   *)
EveryRegisterSaved ==
  \A c \in Reached :
    (level = "RUN" /\ flush[c] > FlushAbove) ~> (level # "RUN" \/ flush[c] = 0)

(* What callers and the disk must be like for that: tariffs that exist, no      *)
(* divisor set to zero, a file that a factory reset has written in full.       *)
Careful ==
  /\ \A r \in RateChoices : r % (TariffCount + 1) \in Tariffs
  /\ FALSE \notin DivisorChoices
  /\ StartLength >= BlockEnd(TariffCount - 1)

(* Its inductive form: the settings in RAM and in the file name a tariff, those *)
(* in RAM are sound while the task is up, and every tariff can be read.        *)
TariffsNamed == mp.rate \in Tariffs /\ saved.now.rate \in Tariffs
SettingsSound == level \in Active => mp.divisors
AllReadable == faults = 0 => length >= BlockEnd(TariffCount - 1)
AccountedInv ==
  MeteringTypeOK /\ TariffsNamed /\ SettingsSound /\ AllReadable /\ Accounted

(* Changing the tariff writes back "the current tariff's data" (l.897): the    *)
(* totals of a tariff that is not in effect are nobody's to change but Clear's *)
(* and Reset's.                                                                *)
TariffsApart ==
  [][~(Clear \/ Reset) =>
       \A r \in Blocks : totals'[r] # totals[r] => r = mp.rate]_vars
=============================================================================
