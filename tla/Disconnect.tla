----------------------------- MODULE Disconnect -----------------------------
(***************************************************************************)
(* The disconnect task (Tasks/Disconnect/Src/task_disconnect.c): slots ask *)
(* for the relay to be opened or closed, the loop arbitrates between them  *)
(* by mask and priority and drives the relay (Devices/relay/Src/relay.c).  *)
(* Masks and priority tables live in a parameter file that is read, changed*)
(* and written back as a whole; requests live in RAM only.                 *)
(***************************************************************************)
EXTENDS Integers, FiniteSetsExt

CONSTANTS
  SlotCount,    \* request sources; 16 in the code
  Selections,   \* sets of priority tables: 0 .. RELAY_CONF_CONTENT - 1
  MaskChoices,  \* masks a caller may set: subsets of Slots \X Moves
  Tables,       \* priority tables a caller may write: [Slots -> [Moves -> Nat]]
  PollLoops,    \* 1000 / KERNEL_PERIOD: loops between two readings of the relay
  MaxFaults     \* bound: file operations that fail

Slots == 0 .. SlotCount - 1
Moves == {"OPEN", "CLOSE"}
Actions == Moves \cup {"RELEASE"}
NoSlot == -1                          \* reason 0xff
PriorityTables == [Slots -> [Moves -> Nat]]
Masks == SUBSET (Slots \X Moves)
NoTable == [s \in Slots |-> [m \in Moves |-> 0]]

ASSUME DisconnectAssumption ==
  /\ SlotCount \in Nat \ {0} /\ PollLoops \in Nat \ {0} /\ MaxFaults \in Nat
  /\ Selections \subseteq Nat /\ 0 \in Selections
  /\ MaskChoices \subseteq Masks
  /\ Tables \subseteq PriorityTables

VARIABLES
  up,        \* task_status is TASK_INIT or TASK_RUN
  requests,  \* relay_runs.requests
  mask,      \* relay_runs.mask: the requests that are ignored
  priority,  \* relay_runs.priority
  flush,     \* relay_runs.flush # 0
  action,    \* relay_runs.action
  reason,    \* relay_runs.reason
  report,    \* relay_runs.status, what the API reports of the relay
  file,      \* the parameter file "disconnect"
  switch,    \* the position of the relay
  since,     \* loops since the relay was read last
  moved,     \* loops since the relay moved last (only the properties read it)
  faults

runs == <<requests, mask, priority, flush, action, reason>>
time == <<since, moved>>
vars == <<up, runs, report, file, switch, time, faults>>

-----------------------------------------------------------------------------
\* request_arbitrate()

\* the slots whose request passes the mask and has a priority above the local
\* priority, which is 0 and stays 0
Passing(req, msk, table) ==
  {s \in Slots : req[s] \in Moves /\ <<s, req[s]>> \notin msk /\ table[s][req[s]] > 0}

\* what the loop over the slots leaves in *action and *reason: as every slot that
\* passes replaces the one before it, the last one
Scan(req, msk, table) ==
  LET passing == Passing(req, msk, table)
  IN  IF passing = {} THEN <<"RELEASE", NoSlot>>
      ELSE <<req[Max(passing)], Max(passing)>>

\* mutant: the relay is given the action as it stands
PositionAsAsked(act) == act

\* request_action(): everything but OPEN closes the relay
Position(act) == IF act = "OPEN" THEN "OPEN" ELSE "CLOSE"

-----------------------------------------------------------------------------
\* file.parameter: a read may fail and leave the zeros the caller put there,
\* a write may fail and leave the file as it was

Params == [mask : Masks, tables : [Selections -> PriorityTables], selection : Selections]
Blank == [mask |-> {}, tables |-> [c \in Selections |-> NoTable], selection |-> 0]

Reading(fails) == IF fails THEN Blank ELSE file

Writing(param, fails) == file' = IF fails THEN file ELSE param

\* the faults of a handler, within their bound
Spend(failures) ==
  LET n == faults + (IF failures[1] THEN 1 ELSE 0) + (IF failures[2] THEN 1 ELSE 0)
  IN  n <= MaxFaults /\ faults' = n

-----------------------------------------------------------------------------
\* the loop's clock

Moving == moved' = IF switch' # switch THEN 0
                   ELSE IF moved <= PollLoops THEN moved + 1 ELSE moved

Init ==
  /\ up = FALSE
  /\ requests = [s \in Slots |-> "RELEASE"] /\ mask = {} /\ priority = NoTable
  /\ flush = FALSE /\ action = "RELEASE" /\ reason = 0 /\ report = "CLOSE"
  /\ file = Blank /\ switch \in Moves
  /\ since = 0 /\ moved = 0 /\ faults = 0

\* disc_init() when the level is RUN: everything is taken from the file, and
\* the relay driven whatever its position; the file holds no requests
Up ==
  /\ ~up
  /\ \E fails \in BOOLEAN :
       LET param == Reading(fails)
           table == param.tables[param.selection]
           none  == [s \in Slots |-> "RELEASE"]
           found == Scan(none, param.mask, table)
       IN  /\ Spend(<<fails, FALSE>>)
           /\ requests' = none /\ mask' = param.mask /\ priority' = table
           /\ flush' = FALSE
           /\ action' = found[1] /\ reason' = found[2]
           /\ switch' = Position(found[1])
  /\ up' = TRUE /\ report' = "CLOSE"
  /\ moved' = 0 /\ since' \in since .. PollLoops
  /\ UNCHANGED file

\* disc_exit(): the relay keeps its position, RAM its values
Down ==
  /\ up /\ up' = FALSE
  /\ UNCHANGED <<runs, report, file, switch, time, faults>>

\* the processor resets: RAM is zeroed
Boot ==
  /\ up' = FALSE
  /\ requests' = [s \in Slots |-> "RELEASE"] /\ mask' = {} /\ priority' = NoTable
  /\ flush' = FALSE /\ action' = "RELEASE" /\ reason' = 0 /\ report' = "CLOSE"
  /\ since' = 0
  /\ UNCHANGED <<switch, moved>>

Crash == Boot /\ UNCHANGED <<file, faults>>

\* the priorities disc_reset() writes in a debug build: the first 16 of the 32
Default == [s \in Slots |-> [m \in Moves |->
              LET n == 2 * s + (IF m = "OPEN" THEN 0 ELSE 1)
              IN  IF n < SlotCount THEN n ELSE 0]]

\* disc_reset() between a formatted disk and a processor reset
Reset ==
  /\ \E fails \in BOOLEAN :
       /\ Spend(<<FALSE, fails>>)
       /\ file' = IF fails THEN Blank
                  ELSE [Blank EXCEPT !.tables = [c \in Selections |-> Default]]
  /\ Boot

\* mutant: the request is noted, but not that something changed
RequestUnnoticed(s, act) ==
  /\ up
  /\ requests' = [requests EXCEPT ![s] = act]
  /\ UNCHANGED <<up, mask, priority, flush, action, reason, report, file, switch, time, faults>>

\* relay_request()
Request(s, act) ==
  /\ up
  /\ requests' = [requests EXCEPT ![s] = act]
  /\ flush' = TRUE
  /\ UNCHANGED <<up, mask, priority, action, reason, report, file, switch, time, faults>>

\* mutant: the new mask is not written back
MaskSetNotSaved(m) ==
  /\ up /\ mask' = m /\ flush' = TRUE
  /\ UNCHANGED <<up, requests, priority, action, reason, report, file, switch, time, faults>>

\* relay_mask_set()
MaskSet(m) ==
  /\ up
  /\ \E failures \in BOOLEAN \X BOOLEAN :
       /\ Spend(failures)
       /\ Writing([Reading(failures[1]) EXCEPT !.mask = m], failures[2])
  /\ mask' = m /\ flush' = TRUE
  /\ UNCHANGED <<up, requests, priority, action, reason, report, switch, time>>

\* relay_priority_write(): the table in effect is overwritten, whichever was meant
PriorityWrite(selection, table) ==
  /\ up
  /\ \E failures \in BOOLEAN \X BOOLEAN :
       LET param == Reading(failures[1])
       IN  /\ Spend(failures)
           /\ Writing([param EXCEPT !.tables[param.selection] = table], failures[2])
           /\ IF param.selection = selection
                THEN priority' = table /\ flush' = TRUE
                ELSE UNCHANGED <<priority, flush>>
  /\ UNCHANGED <<up, requests, mask, action, reason, report, switch, time>>

\* relay_selection_set()
SelectionSet(selection) ==
  /\ up
  /\ \E failures \in BOOLEAN \X BOOLEAN :
       LET param == [Reading(failures[1]) EXCEPT !.selection = selection]
       IN  /\ Spend(failures)
           /\ Writing(param, failures[2])
           /\ priority' = param.tables[selection]
  /\ flush' = TRUE
  /\ UNCHANGED <<up, requests, mask, action, reason, report, switch, time>>

\* disc_loop(): what the loop does about a change
Refresh ==
  IF flush
    THEN LET found == Scan(requests, mask, priority)
         IN  IF found[1] # action
               THEN /\ action' = found[1] /\ reason' = found[2]
                    /\ switch' = Position(found[1])
               ELSE UNCHANGED <<action, reason, switch>>
    ELSE UNCHANGED <<action, reason, switch>>

\* mutant: the clock starts again at every loop
PollRestarts == since' = 0 /\ UNCHANGED report

\* disc_loop(): the position the API reports is read once a second
Poll ==
  IF since + 1 < PollLoops
    THEN since' = since + 1 /\ UNCHANGED report
    ELSE since' = 0 /\ report' = switch'

Loop ==
  /\ up
  /\ Refresh /\ flush' = FALSE
  /\ Poll /\ Moving
  /\ UNCHANGED <<up, requests, mask, priority, file, faults>>

Next ==
  \/ Up \/ Down \/ Crash \/ Reset \/ Loop
  \/ \E s \in Slots, act \in Actions : Request(s, act)
  \/ \E m \in MaskChoices : MaskSet(m)
  \/ \E c \in Selections, t \in Tables : PriorityWrite(c, t)
  \/ \E c \in Selections : SelectionSet(c)

Spec == Init /\ [][Next]_vars

-----------------------------------------------------------------------------
(* The fields of relay_runs, the file and the relay hold values the code gives *)
(* them: the relay is only ever opened or closed.                              *)
DisconnectTypeOK ==
  /\ up \in BOOLEAN /\ flush \in BOOLEAN
  /\ requests \in [Slots -> Actions] /\ mask \in Masks /\ priority \in PriorityTables
  /\ action \in Actions /\ reason \in Slots \cup {NoSlot}
  /\ report \in Moves /\ switch \in Moves
  /\ file \in Params
  /\ since \in 0 .. PollLoops /\ moved \in 0 .. PollLoops + 1
  /\ faults \in 0 .. MaxFaults

\* a request that counts: asked for, not masked, and of a priority above zero
Counts(s, m) == requests[s] = m /\ <<s, m>> \notin mask /\ priority[s][m] > 0

(* Once a loop has seen the last change (requests, mask, table or selection,   *)
(* in whatever order they came, across files that fail and levels that end),   *)
(* the relay stands where some request that counts wants it: it is open only   *)
(* for a request to open it, and closed against such a request only for one to *)
(* close it (request_arbitrate(), flush, the comparison with the last action). *)
(* Which of two that disagree should win, PriorityWins says.                   *)
RelayObeys ==
  up /\ ~flush =>
    /\ switch = "OPEN" => \E s \in Slots : Counts(s, "OPEN")
    /\ switch = "CLOSE" /\ (\E s \in Slots : Counts(s, "OPEN")) =>
         \E s \in Slots : Counts(s, "CLOSE")

(* The API never reports a position the relay left more than a second ago.     *)
ReportIsFresh == up /\ report # switch => moved < PollLoops

(* While no file operation failed, a restart changes nothing: the mask in RAM  *)
(* is the one that the file would give back.                                   *)
MaskOutlivesRestart == up /\ faults = 0 => mask = file.mask

(* What makes these three inductive: between a change and the next loop, flush *)
(* is set; the relay is where the last action put it; a report that differs    *)
(* from the relay has been wrong for no longer than the clock has run.         *)
Arbitrated == up /\ ~flush => action = Scan(requests, mask, priority)[1]
Driven == up => switch = Position(action)
ReportTimed == up /\ report # switch => moved <= since /\ moved < PollLoops
DisconnectInv ==
  DisconnectTypeOK /\ Arbitrated /\ Driven /\ ReportTimed /\ MaskOutlivesRestart

(* Arbitration follows the priorities (task_disconnect.c:55): no request that  *)
(* counts outranks all the requests for what the relay was told to do.  The    *)
(* code does not keep it: MCDisconnectPriority.cfg shows two requests of which *)
(* the later slot wins over the higher priority.                               *)
PriorityWins ==
  up /\ ~flush =>
    \A s \in Slots, m \in Moves \ {action} :
      Counts(s, m) => \E u \in Slots : Counts(u, action)
                        /\ priority[u][action] >= priority[s][m]
=============================================================================
