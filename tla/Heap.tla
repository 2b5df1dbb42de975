-------------------------------- MODULE Heap --------------------------------
(***************************************************************************)
(* The heap (Kernel/Src/heap.c): blocks of the C library's memory, each    *)
(* with a header in front, on two linked lists, slist for what a task keeps*)
(* and dlist for what lasts until the next pass.  A call walks a list a    *)
(* block at a time; every turn of such a loop is a step.  HeapPromise is   *)
(* what the callers may rely on.                                           *)
(***************************************************************************)
EXTENDS Integers, FiniteSetsExt

CONSTANTS
  Tasks, NoTask,  \* the tasks of the table; NoTask is the magic 0
  Memory,         \* bound: cells the C library has to give
  Header,         \* sizeof(struct __mem_entry), in cells
  TaskQuota,      \* MAX_SHEAP_PER_TASK
  ShortQuota,     \* MAX_DHEAP
  Word,           \* 2^32: sums of sizes are taken modulo Word
  Requests        \* sizes that callers ask for

Null == 0
Cells == 1 .. Memory
Owners == Tasks \cup {NoTask}
Allocs == {"salloc", "dalloc"}

\* No caller asks for so much that a sum with its size wraps: the sizes in the
\* source are constants of the code or lengths of 16 bits.
ASSUME HeapAssumption ==
  /\ NoTask \notin Tasks
  /\ Memory \in Nat /\ Header \in Nat \ {0} /\ Word \in Nat \ {0}
  /\ TaskQuota \in Nat /\ ShortQuota \in Nat
  /\ Requests \subseteq Nat
  /\ \A n \in Requests :
       n + Header < Word /\ n + TaskQuota < Word /\ n + ShortQuota < Word

VARIABLES
  chunks,  \* what malloc() has given: address -> [size, magic, next]
  slist, dlist,
  work,    \* the call that runs, with the locals of its loop
  fault    \* memset() has been given a null pointer

vars == <<chunks, slist, dlist, work, fault>>

Idle == [op |-> "none", list |-> "dlist", task |-> NoTask, size |-> 0, zero |-> FALSE,
         address |-> Null, p |-> Null, previous |-> Null, sum |-> 0]
Calls == [op : {"none", "salloc", "dalloc", "free", "recycle", "sinit", "dinit"},
          list : {"slist", "dlist"}, task : Owners, size : Nat, zero : BOOLEAN,
          address : Nat, p : Nat, previous : Nat, sum : Nat]

HeadOf(list) == IF list = "slist" THEN slist ELSE dlist

Init ==
  /\ chunks = [a \in {} |-> Idle]
  /\ slist = Null /\ dlist = Null
  /\ work = Idle /\ fault = FALSE

-----------------------------------------------------------------------------
\* the C library

\* the cells of a block, header included, as malloc() was asked for them
Length(n) == (n + Header) % Word

\* the places where malloc() can find so many cells
Fresh(length) ==
  {at \in Cells :
     /\ at + length - 1 <= Memory
     /\ \A a \in DOMAIN chunks : at + length <= a \/ a + Length(chunks[a].size) <= at}

-----------------------------------------------------------------------------
\* salloc(), dalloc() and their variants

\* the call, after the checks of its arguments.  scalloc() and dcalloc() are
\* these with a product for a size, szalloc() and dzalloc() with zero.
CallAlloc(op, t, n, zero) ==
  /\ ~fault /\ work = Idle /\ n # 0
  /\ work' = [Idle EXCEPT !.op = op, !.task = t, !.size = n, !.zero = zero,
                          !.p = IF op = "salloc" THEN slist ELSE dlist]
  /\ UNCHANGED <<chunks, slist, dlist, fault>>

Salloc(t, n, zero) == CallAlloc("salloc", t, n, zero)
Dalloc(n, zero) == CallAlloc("dalloc", NoTask, n, zero)

\* mutant: what other blocks take is not added
CountNothing ==
  /\ work.op \in Allocs /\ work.p # Null
  /\ work' = [work EXCEPT !.p = chunks[@].next]
  /\ UNCHANGED <<chunks, slist, dlist, fault>>

\* one turn of the loop that adds up what the task, or everyone, has already
Count ==
  /\ work.op \in Allocs /\ work.p # Null
  /\ work' = [work EXCEPT
       !.p = chunks[@].next,
       !.sum = IF work.op = "dalloc" \/ chunks[work.p].magic = work.task
                 THEN (@ + chunks[work.p].size) % Word ELSE @]
  /\ UNCHANGED <<chunks, slist, dlist, fault>>

Fits ==
  (work.sum + work.size) % Word <= IF work.op = "salloc" THEN TaskQuota ELSE ShortQuota

\* mutant: malloc() is asked for the payload alone
GrantNoHeader ==
  /\ work.op \in Allocs /\ work.p = Null
  /\ Fits
  /\ \E at \in Fresh(work.size) :
       /\ chunks' = [a \in DOMAIN chunks \cup {at} |->
            IF a = at THEN [size |-> work.size, magic |-> work.task,
                            next |-> IF work.op = "salloc" THEN slist ELSE dlist]
            ELSE chunks[a]]
       /\ IF work.op = "salloc" THEN slist' = at /\ UNCHANGED dlist
                                ELSE dlist' = at /\ UNCHANGED slist
  /\ work' = Idle
  /\ UNCHANGED fault

\* the block is found, and becomes the head of its list.  What it holds is what
\* was there before: the variants that should clear it do so only without one.
Grant ==
  /\ work.op \in Allocs /\ work.p = Null
  /\ Fits
  /\ \E at \in Fresh(Length(work.size)) :
       /\ chunks' = [a \in DOMAIN chunks \cup {at} |->
            IF a = at THEN [size |-> work.size, magic |-> work.task,
                            next |-> IF work.op = "salloc" THEN slist ELSE dlist]
            ELSE chunks[a]]
       /\ IF work.op = "salloc" THEN slist' = at /\ UNCHANGED dlist
                                ELSE dlist' = at /\ UNCHANGED slist
  /\ work' = Idle
  /\ UNCHANGED fault

\* the quota is used up or malloc() has nothing.  szalloc() and dzalloc() then
\* clear the memory at the null pointer, which ends the emulator.
Refuse ==
  /\ work.op \in Allocs /\ work.p = Null
  /\ fault' \in {FALSE, work.zero}
  /\ work' = Idle
  /\ UNCHANGED <<chunks, slist, dlist>>

-----------------------------------------------------------------------------
\* free() and recycle()

\* mutant: the cell behind the block counts as well
HoldsOnePast(p, address) ==
  p + Header <= address /\ address <= p + Header + chunks[p].size

\* the address lies in the payload of the block at p
Holds(p, address) ==
  p + Header <= address /\ address < p + Header + chunks[p].size

Free(address) ==
  /\ ~fault /\ work = Idle
  /\ work' = [Idle EXCEPT !.op = "free", !.address = address, !.p = dlist,
                          !.previous = dlist]
  /\ UNCHANGED <<chunks, slist, dlist, fault>>

\* recycle() of the task that runs, at the end of its exit or reset
Recycle(t) ==
  /\ ~fault /\ work = Idle
  /\ work' = [Idle EXCEPT !.op = "recycle", !.list = "slist", !.task = t,
                          !.p = slist, !.previous = slist]
  /\ UNCHANGED <<chunks, slist, dlist, fault>>

\* the block at p is one to give back
Wanted ==
  \/ work.op = "free" /\ Holds(work.p, work.address)
  \/ work.op = "recycle" /\ chunks[work.p].magic \in {work.task, NoTask}

\* mutant: the block before is not moved on
PassStays ==
  /\ work.op \in {"free", "recycle"} /\ work.p # Null
  /\ ~Wanted
  /\ work' = [work EXCEPT !.p = chunks[work.previous].next]
  /\ UNCHANGED <<chunks, slist, dlist, fault>>

\* the block is not one of those: on to the next
Pass ==
  /\ work.op \in {"free", "recycle"} /\ work.p # Null
  /\ ~Wanted
  /\ work' = [work EXCEPT !.previous = work.p, !.p = chunks[@].next]
  /\ UNCHANGED <<chunks, slist, dlist, fault>>

\* chunks without the one at p, the link at `from` bent round it
Without(p, from) ==
  [a \in DOMAIN chunks \ {p} |->
     IF a = from THEN [chunks[a] EXCEPT !.next = chunks[p].next] ELSE chunks[a]]

MoveHead(list, next) ==
  IF list = "slist" THEN slist' = next /\ UNCHANGED dlist
                    ELSE dlist' = next /\ UNCHANGED slist

\* mutant: the block before the head is not followed up
GiveBackLosesPlace ==
  /\ work.op \in {"free", "recycle"} /\ work.p # Null
  /\ Wanted
  /\ LET next == chunks[work.p].next
     IN  /\ chunks' = Without(work.p, work.previous)
         /\ IF work.p = HeadOf(work.list) THEN MoveHead(work.list, next)
                                        ELSE UNCHANGED <<slist, dlist>>
         /\ work' = IF work.list = "dlist" THEN Idle
                    ELSE [work EXCEPT !.p = IF next = Null THEN Null ELSE chunks[next].next]
  /\ UNCHANGED fault

\* the block leaves its list and goes back to the C library; on dlist free()
\* returns, on slist it looks on, and so does recycle()
GiveBack ==
  /\ work.op \in {"free", "recycle"} /\ work.p # Null
  /\ Wanted
  /\ LET next == chunks[work.p].next
     IN  IF work.p # HeadOf(work.list)
           THEN /\ chunks' = Without(work.p, work.previous)
                /\ UNCHANGED <<slist, dlist>>
                /\ work' = IF work.list = "dlist" THEN Idle ELSE [work EXCEPT !.p = next]
           ELSE /\ chunks' = Without(work.p, Null)
                /\ MoveHead(work.list, next)
                /\ work' = IF work.list = "dlist" THEN Idle
                           ELSE [work EXCEPT !.p = next, !.previous = next]
  /\ UNCHANGED fault

\* the end of a list: free() goes on from dlist to slist
EndOfList ==
  /\ work.op \in {"free", "recycle"} /\ work.p = Null
  /\ work' = IF work.list = "dlist"
               THEN [work EXCEPT !.list = "slist", !.p = slist, !.previous = slist]
               ELSE Idle
  /\ UNCHANGED <<chunks, slist, dlist, fault>>

-----------------------------------------------------------------------------
\* sinit() when a level is entered, dinit() before every pass

Sinit ==
  /\ ~fault /\ work = Idle
  /\ work' = [Idle EXCEPT !.op = "sinit", !.list = "slist"]
  /\ UNCHANGED <<chunks, slist, dlist, fault>>

Dinit ==
  /\ ~fault /\ work = Idle
  /\ work' = [Idle EXCEPT !.op = "dinit"]
  /\ UNCHANGED <<chunks, slist, dlist, fault>>

\* the head is freed until there is none
Empty ==
  /\ work.op \in {"sinit", "dinit"}
  /\ LET head == HeadOf(work.list)
     IN  IF head = Null
           THEN work' = Idle /\ UNCHANGED <<chunks, slist, dlist>>
           ELSE /\ chunks' = Without(head, Null)
                /\ MoveHead(work.list, chunks[head].next)
                /\ UNCHANGED work
  /\ UNCHANGED fault

-----------------------------------------------------------------------------
\* copy() and set()

\* the blocks that the links lead to from head, none from Null: every set that has
\* head and the next of each of its blocks has them
Listed(head) ==
  {a \in DOMAIN chunks : \A S \in SUBSET DOMAIN chunks :
     head \in S \cup {Null} /\ (\A b \in S : chunks[b].next \in S \cup {Null}) => a \in S}

OnLists == Listed(slist) \cup Listed(dlist)

\* a write of size cells at dst would meet the header of a block on a list
Conflicts(dst, size) ==
  \E p \in OnLists : dst < p + Header /\ dst + size > p

\* the two walk both lists, then write all or nothing; a header that is written
\* over leads anywhere
Write(dst, size) ==
  /\ ~fault /\ work = Idle /\ size # 0
  /\ IF Conflicts(dst, size) THEN UNCHANGED chunks
     ELSE \E junk \in Cells :
            chunks' = [a \in DOMAIN chunks |->
              IF dst < a + Header /\ dst + size > a
                THEN [chunks[a] EXCEPT !.next = junk] ELSE chunks[a]]
  /\ UNCHANGED <<slist, dlist, work, fault>>

-----------------------------------------------------------------------------
Step == Count \/ Grant \/ Refuse \/ Pass \/ GiveBack \/ EndOfList \/ Empty

Next ==
  \/ Step
  \/ \E t \in Tasks, n \in Requests, zero \in BOOLEAN : Salloc(t, n, zero)
  \/ \E n \in Requests, zero \in BOOLEAN : Dalloc(n, zero)
  \/ \E address \in Cells : Free(address)
  \/ \E t \in Tasks : Recycle(t)
  \/ Sinit
  \/ Dinit
  \/ \E dst \in Cells, size \in Requests : Write(dst, size)

Spec == Init /\ [][Next]_vars

\* a call runs to its end: nothing else has the processor
FairSpec == Spec /\ WF_vars(Step)

-----------------------------------------------------------------------------
\* Types of the variables: blocks lie inside the memory, and a call that is to
\* find a block was asked for one of the sizes.
HeapTypeOK ==
  /\ DOMAIN chunks \subseteq Cells
  /\ chunks \in [DOMAIN chunks -> [size : Requests, magic : Owners, next : Nat]]
  /\ \A a \in DOMAIN chunks : a + Header + chunks[a].size - 1 <= Memory
  /\ slist \in Nat /\ dlist \in Nat
  /\ work \in Calls /\ (work.op \in Allocs => work.size \in Requests)
  /\ fault \in BOOLEAN

\* no two blocks share a cell, headers included
Apart ==
  \A a, b \in DOMAIN chunks :
    a # b => \/ a + Header + chunks[a].size <= b
             \/ b + Header + chunks[b].size <= a

\* each block is the head of the list of its kind or follows exactly one other
\* block of its kind, and a link leads to a block or nowhere
LinksSound ==
  LET D == DOMAIN chunks
      Short(a) == chunks[a].magic = NoTask
  IN  /\ slist \in D \cup {Null} /\ (slist # Null => ~Short(slist))
      /\ dlist \in D \cup {Null} /\ (dlist # Null => Short(dlist))
      /\ \A a \in D :
           /\ chunks[a].next \in (D \ {slist, dlist}) \cup {Null}
           /\ chunks[a].next # Null => (Short(a) <=> Short(chunks[a].next))
           /\ a \in {slist, dlist} \/ \E b \in D : chunks[b].next = a
           /\ \A b \in D : chunks[a].next = chunks[b].next => a = b \/ chunks[a].next = Null

\* a walk is at a block or at the end, and knows the block before it
WalkSound ==
  /\ work.p \in DOMAIN chunks \cup {Null}
  /\ work.op \in {"none", "sinit", "dinit"} => work.p = Null
  /\ work.op \in Allocs => (work.task = NoTask <=> work.op = "dalloc")
  /\ work.op \in {"free", "recycle"} /\ work.p \notin {Null, HeadOf(work.list)} =>
       work.previous \in DOMAIN chunks /\ chunks[work.previous].next = work.p

\* every block the C library has given is on a list: none is lost
NoneLost == DOMAIN chunks = OnLists

\* After any calls in any order, and in the middle of each, the blocks are apart
\* and on the list of their kind, and no write that copy() and set() let through
\* has met a header (heap.c:92-121 and 355-421 unlink and free in the middle of a
\* walk, 430 and 491 guard the headers).
HeapSound == Apart /\ LinksSound /\ WalkSound /\ NoneLost

Total(mem, S) == MapThenSumSet(LAMBDA a : mem[a].size, S)
SizeOf(S) == Total(chunks, S)

\* No task holds more than MAX_SHEAP_PER_TASK, and the short-lived blocks are
\* not more than MAX_DHEAP (heap.c:27-28).
QuotaKept ==
  /\ \A t \in Tasks : SizeOf({a \in DOMAIN chunks : chunks[a].magic = t}) <= TaskQuota
  /\ SizeOf({a \in DOMAIN chunks : chunks[a].magic = NoTask}) <= ShortQuota

\* Every call comes to its end: no walk runs in a circle (heap.c:92, 178, 268,
\* 355, 391, the loops over the links).
CallsReturn == (work # Idle) ~> (work = Idle)

\* What is granted and kept is what HeapPromise says, taking a call that gives
\* back as done when it starts: a block that is still on a list but about to go
\* is not counted.
Doomed(a) ==
  \/ work.op = "free" /\ Holds(a, work.address)
  \/ work.op = "recycle" /\ chunks[a].magic = work.task
  \/ work.op = "sinit" /\ chunks[a].magic # NoTask
  \/ work.op = "dinit" /\ chunks[a].magic = NoTask

GivingBack ==
  IF work.op \in Allocs THEN [op |-> "none", task |-> NoTask, address |-> Null]
  ELSE [op |-> work.op, task |-> work.task, address |-> work.address]

Held ==
  {[at |-> a, size |-> chunks[a].size, owner |-> chunks[a].magic] :
     a \in {p \in OnLists : ~Doomed(p)}}

Promise == INSTANCE HeapPromise WITH blocks <- Held, call <- GivingBack

KeepsPromise == Promise!Spec
=============================================================================
