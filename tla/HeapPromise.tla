----------------------------- MODULE HeapPromise -----------------------------
(* What a caller of the heap may rely on: a block belongs to the task it was  *)
(* granted to, or to the pass, shares no cell with another, and stays until   *)
(* its holder, the end of its task or of the pass gives it back - at once and *)
(* without touching any other block.                                          *)
EXTENDS Integers

CONSTANTS Tasks, NoTask, Memory, Header, Requests

Cells == 1 .. Memory
Blocks == [at : Cells, size : Requests, owner : Tasks \cup {NoTask}]

VARIABLES
  blocks,
  call    \* the call that gives back, if one runs: [op, task, address]

CellsOf(b) == b.at .. b.at + Header + b.size - 1
Payload(b) == b.at + Header .. b.at + Header + b.size - 1

Init == blocks = {} /\ call.op = "none"

\* one block more, in cells that no other has
Grant ==
  /\ call.op = "none" /\ UNCHANGED call
  /\ \E b \in blocks' \ blocks :
       /\ b \in Blocks /\ CellsOf(b) \subseteq Cells
       /\ \A c \in blocks : CellsOf(b) \cap CellsOf(c) = {}
       /\ blocks' = blocks \cup {b}

\* the blocks a call gives back: the one that has the address in its payload,
\* whoever it belongs to; all of a task; all of every task; all of the pass
Given(c) ==
  CASE c.op = "free"    -> {b \in blocks : c.address \in Payload(b)}
    [] c.op = "recycle" -> {b \in blocks : b.owner = c.task}
    [] c.op = "sinit"   -> {b \in blocks : b.owner \in Tasks}
    [] c.op = "dinit"   -> {b \in blocks : b.owner = NoTask}

GiveBack ==
  /\ call.op = "none" /\ call'.op # "none"
  /\ blocks' = blocks \ Given(call')

Return == call.op # "none" /\ call'.op = "none" /\ UNCHANGED blocks

Next == Grant \/ GiveBack \/ Return

Spec == Init /\ [][Next]_<<blocks, call>>
=============================================================================
