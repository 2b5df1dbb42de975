----------------------------- MODULE HeapProofs -----------------------------
(***************************************************************************)
(* Proofs about Heap, for every memory, header, quota and set of sizes: the*)
(* blocks stay apart, the links stay two lists, nothing is lost, and so no *)
(* write that copy() and set() let through meets a header.  A walk meets   *)
(* all that is ahead of it: so a count is the sum of the task's blocks, the*)
(* quotas are kept, and the allocator does what HeapPromise says.          *)
(***************************************************************************)
EXTENDS Heap, FiniteSetTheorems, WellFoundedInduction, TLAPS

\* the links only go from younger blocks to older ones
Aged ==
  \E rank \in [DOMAIN chunks -> Nat] :
    \A a \in DOMAIN chunks : chunks[a].next # Null => rank[a] < rank[chunks[a].next]

\* the inductive invariant
HeapInv == HeapTypeOK /\ Apart /\ LinksSound /\ WalkSound /\ Aged

\* what every removal of a block from a list does
Removal(list, p, from) ==
  /\ p \in DOMAIN chunks
  /\ chunks' = Without(p, from)
  /\ \/ /\ p = HeadOf(list) /\ from = Null
        /\ MoveHead(list, chunks[p].next)
     \/ /\ p \notin {slist, dlist}
        /\ from \in DOMAIN chunks /\ chunks[from].next = p
        /\ UNCHANGED <<slist, dlist>>

\* what a grant does to the lists
Granting ==
  /\ work.op \in Allocs /\ work.p = Null /\ Fits
  /\ \E at \in Fresh(Length(work.size)) :
       /\ chunks' = [a \in DOMAIN chunks \cup {at} |->
            IF a = at THEN [size |-> work.size, magic |-> work.task,
                            next |-> IF work.op = "salloc" THEN slist ELSE dlist]
            ELSE chunks[a]]
       /\ IF work.op = "salloc" THEN slist' = at /\ UNCHANGED dlist
                                ELSE dlist' = at /\ UNCHANGED slist

-----------------------------------------------------------------------------
(* Sums of sizes.                                                              *)
Pick(T) == CHOOSE x \in T : TRUE

(* A natural number is in every set that has 0 and the successors of its       *)
(* elements.                                                                   *)
LEMMA AllNaturals ==
  ASSUME NEW P \in SUBSET Nat, 0 \in P, \A n \in P : n + 1 \in P
  PROVE  P = Nat
<1>. DEFINE R == {q \in Nat \X Nat : q[1] < q[2]}
            Rest == Nat \ P
<1>1. IsWellFoundedOn(R, Nat) BY NatLessThanWellFounded, Zenon DEF OpToRel
<1>2. SUFFICES ASSUME Rest # {} PROVE FALSE OBVIOUS
<1>3. PICK k \in Rest : \A m \in Rest : <<m, k>> \notin R
  <2>1. Rest \subseteq Nat OBVIOUS
  <2>. HIDE DEF Rest, R
  <2>. QED BY <1>1, <1>2, <2>1, WFMin
<1>4. k \in Nat /\ k # 0 /\ k - 1 \in Nat OBVIOUS
<1>5. k - 1 \notin Rest
  <2>1. <<k - 1, k>> \in R BY <1>4
  <2>. QED BY <1>3, <2>1
<1>6. (k - 1) + 1 \in P BY <1>4, <1>5
<1>. QED BY <1>4, <1>6

(* the equations of a fold that adds up the sizes of the blocks in mem         *)
Adds(f, mem, D) ==
  /\ f[{}] = 0
  /\ \A T \in SUBSET D : T # {} => f[T] = mem[Pick(T)].size + f[T \ {Pick(T)}]

Adder(f, mem, D) ==
  Adds(f, mem, D) /\ f \in [SUBSET D -> Nat] /\ \A a \in D : mem[a].size \in Nat

\* What is picked is one of the set.
LEMMA PickOne == ASSUME NEW T, T # {} PROVE Pick(T) \in T
BY DEF Pick

\* Every finite set can be added up.
LEMMA AdderExists ==
  ASSUME NEW D, IsFiniteSet(D), NEW mem, \A a \in D : mem[a].size \in Nat
  PROVE  \E f \in [SUBSET D -> Nat] : Adds(f, mem, D)
<1>. DEFINE Small(n) == {T \in SUBSET D : Cardinality(T) <= n}
            Good(f, n) ==
              /\ f \in [Small(n) -> Nat]
              /\ f[{}] = 0
              /\ \A T \in Small(n) : T # {} => f[T] = mem[Pick(T)].size + f[T \ {Pick(T)}]
            P == {n \in Nat : \E f : Good(f, n)}
<1>1. \A T \in SUBSET D : IsFiniteSet(T) /\ Cardinality(T) \in Nat
  BY FS_Subset, FS_CardinalityType
<1>2. {} \in SUBSET D /\ Cardinality({}) = 0 BY FS_EmptySet
<1>3. 0 \in P
  <2>. DEFINE z == [T \in Small(0) |-> 0]
  <2>1. \A T \in Small(0) : T = {} BY <1>1, FS_EmptySet
  <2>2. {} \in Small(0) BY <1>2
  <2>3. Good(z, 0) BY <2>1, <2>2
  <2>. HIDE DEF Good
  <2>. QED BY <2>3
<1>4. ASSUME NEW n \in P PROVE n + 1 \in P
  <2>1. PICK f : Good(f, n) BY <1>4
  <2>. DEFINE g == [T \in Small(n + 1) |->
                     IF Cardinality(T) <= n THEN f[T]
                     ELSE mem[Pick(T)].size + f[T \ {Pick(T)}]]
  <2>2. ASSUME NEW T \in Small(n + 1), T # {}
        PROVE  /\ Pick(T) \in T /\ Pick(T) \in D
               /\ T \ {Pick(T)} \in Small(n)
               /\ mem[Pick(T)].size \in Nat
    <3>1. Pick(T) \in T BY <2>2, PickOne
    <3>2. Cardinality(T \ {Pick(T)}) = Cardinality(T) - 1 BY <1>1, <3>1, FS_RemoveElement
    <3>. QED BY <1>1, <3>1, <3>2
  <2>3. g \in [Small(n + 1) -> Nat]
    <3>1. ASSUME NEW T \in Small(n + 1) PROVE g[T] \in Nat
      <4>1. CASE Cardinality(T) <= n BY <2>1, <4>1
      <4>2. CASE ~(Cardinality(T) <= n)
        <5>. HIDE DEF Good
        <5>0. n \in Nat OBVIOUS
        <5>1. T # {}
          <6>1. SUFFICES ASSUME T = {} PROVE FALSE OBVIOUS
          <6>2. Cardinality(T) = 0 BY <1>2, <6>1, Zenon
          <6>. QED BY <4>2, <5>0, <6>2
        <5>. USE DEF Good
        <5>2. f[T \ {Pick(T)}] \in Nat BY <2>1, <2>2, <5>1
        <5>. QED BY <2>2, <4>2, <5>1, <5>2
      <4>. QED BY <4>1, <4>2
    <3>. QED BY <3>1
  <2>4. g[{}] = 0
    <3>1. {} \in Small(n + 1) BY <1>2
    <3>. QED BY <1>2, <2>1, <3>1
  <2>5. ASSUME NEW T \in Small(n + 1), T # {}
        PROVE  g[T] = mem[Pick(T)].size + g[T \ {Pick(T)}]
    <3>1. T \ {Pick(T)} \in Small(n) /\ T \ {Pick(T)} \in Small(n + 1)
      BY <1>1, <2>2, <2>5
    <3>2. g[T \ {Pick(T)}] = f[T \ {Pick(T)}] BY <3>1
    <3>3. CASE Cardinality(T) <= n
      <4>1. T \in Small(n) /\ g[T] = f[T] BY <3>3
      <4>. QED BY <2>1, <2>5, <3>2, <4>1
    <3>4. CASE ~(Cardinality(T) <= n) BY <3>2, <3>4
    <3>. QED BY <3>3, <3>4
  <2>6. Good(g, n + 1) BY <2>3, <2>4, <2>5
  <2>. HIDE DEF Good
  <2>. QED BY <2>6
<1>5. P = Nat
  <2>. HIDE DEF P
  <2>1. P \in SUBSET Nat BY DEF P
  <2>. QED BY <1>3, <1>4, <2>1, AllNaturals
<1>6. PICK f : Good(f, Cardinality(D)) BY <1>1, <1>5
<1>7. Small(Cardinality(D)) = SUBSET D BY <1>1, FS_Subset
<1>8. f \in [SUBSET D -> Nat] /\ Adds(f, mem, D) BY <1>6, <1>7 DEF Adds
<1>. QED BY <1>8

(* What a fold adds up is the same wherever it is taken from, as long as the   *)
(* sizes are.                                                                  *)
LEMMA AddersAgree ==
  ASSUME NEW D, NEW E, NEW m, NEW w, NEW f, NEW g,
         Adds(f, m, D), Adds(g, w, E),
         NEW S, IsFiniteSet(S), S \subseteq D, S \subseteq E,
         \A a \in S : m[a].size = w[a].size
  PROVE  f[S] = g[S]
<1>. DEFINE P == {n \in Nat : \A T \in SUBSET S : Cardinality(T) <= n => f[T] = g[T]}
<1>1. \A T \in SUBSET S : IsFiniteSet(T) /\ Cardinality(T) \in Nat
  BY FS_Subset, FS_CardinalityType
<1>2. 0 \in P
  <2>1. \A T \in SUBSET S : Cardinality(T) <= 0 => T = {} BY <1>1, FS_EmptySet
  <2>2. f[{}] = 0 /\ g[{}] = 0 BY DEF Adds
  <2>. QED BY <2>1, <2>2
<1>3. ASSUME NEW n \in P PROVE n + 1 \in P
  <2>1. SUFFICES ASSUME NEW T \in SUBSET S, Cardinality(T) <= n + 1, T # {}
                 PROVE  f[T] = g[T]
    <3>1. f[{}] = 0 /\ g[{}] = 0 BY DEF Adds
    <3>. QED BY <2>1, <3>1
  <2>2. Pick(T) \in T BY <2>1, PickOne
  <2>3. Cardinality(T \ {Pick(T)}) = Cardinality(T) - 1 BY <1>1, <2>2, FS_RemoveElement
  <2>4. f[T \ {Pick(T)}] = g[T \ {Pick(T)}] BY <1>1, <1>3, <2>1, <2>3
  <2>. QED BY <2>1, <2>2, <2>4 DEF Adds
<1>4. P = Nat
  <2>. HIDE DEF P
  <2>1. P \in SUBSET Nat BY DEF P
  <2>. QED BY <1>2, <1>3, <2>1, AllNaturals
<1>. QED BY <1>1, <1>4

(* The order in which a fold takes the blocks makes no difference.             *)
LEMMA AnyFirst ==
  ASSUME NEW D, IsFiniteSet(D), NEW m, NEW f, Adder(f, m, D),
         NEW S \in SUBSET D, NEW x \in S
  PROVE  f[S] = m[x].size + f[S \ {x}]
<1>. DEFINE P == {n \in Nat : \A T \in SUBSET D : \A y \in T :
                    Cardinality(T) <= n => f[T] = m[y].size + f[T \ {y}]}
<1>1. \A T \in SUBSET D : IsFiniteSet(T) /\ Cardinality(T) \in Nat /\ f[T] \in Nat
  BY FS_Subset, FS_CardinalityType DEF Adder, Adds
<1>2. 0 \in P
  <2>1. \A T \in SUBSET D : Cardinality(T) <= 0 => T = {} BY <1>1, FS_EmptySet
  <2>. QED BY <2>1
<1>3. ASSUME NEW n \in P PROVE n + 1 \in P
  <2>1. SUFFICES ASSUME NEW T \in SUBSET D, NEW y \in T, Cardinality(T) <= n + 1
                 PROVE  f[T] = m[y].size + f[T \ {y}]
    BY <1>3
  <2>. DEFINE p == Pick(T)
  <2>2. p \in T BY PickOne
  <2>3. f[T] = m[p].size + f[T \ {p}] BY <2>1 DEF Adder, Adds
  <2>4. CASE p = y BY <2>3, <2>4
  <2>5. CASE p # y
    <3>1. Cardinality(T \ {p}) = Cardinality(T) - 1 /\ Cardinality(T \ {y}) = Cardinality(T) - 1
      BY <1>1, <2>2, FS_RemoveElement
    <3>2. Cardinality(T \ {p}) <= n /\ Cardinality(T \ {y}) <= n BY <1>1, <1>3, <2>1, <3>1
    <3>3. T \ {p} \in SUBSET D /\ y \in T \ {p} /\ T \ {y} \in SUBSET D /\ p \in T \ {y}
          /\ (T \ {p}) \ {y} = (T \ {y}) \ {p}
      BY <2>2, <2>5
    <3>4. f[T \ {p}] = m[y].size + f[(T \ {p}) \ {y}] BY <1>3, <3>2, <3>3
    <3>5. f[T \ {y}] = m[p].size + f[(T \ {y}) \ {p}] BY <1>3, <3>2, <3>3
    <3>6. m[p].size \in Nat /\ m[y].size \in Nat /\ f[(T \ {p}) \ {y}] \in Nat
      BY <1>1, <2>2 DEF Adder
    <3>7. f[(T \ {p}) \ {y}] = f[(T \ {y}) \ {p}] BY <3>3, Zenon
    <3>. HIDE DEF p
    <3>. QED BY <2>3, <3>4, <3>5, <3>6, <3>7
  <2>. QED BY <2>4, <2>5
<1>4. P = Nat
  <2>. HIDE DEF P
  <2>1. P \in SUBSET Nat BY DEF P
  <2>. QED BY <1>2, <1>3, <2>1, AllNaturals
<1>. QED BY <1>1, <1>4

(* Total is such a fold.                                                       *)
LEMMA TotalIsSum ==
  ASSUME NEW S, IsFiniteSet(S), NEW mem, \A a \in S : mem[a].size \in Nat
  PROVE  \E f \in [SUBSET S -> Nat] : Adds(f, mem, S) /\ Total(mem, S) = f[S]
<1>. DEFINE eq(f) == f = [s \in SUBSET S |-> IF s = {} THEN 0
                           ELSE mem[CHOOSE x \in s : TRUE].size + f[s \ {CHOOSE x \in s : TRUE}]]
            iter == CHOOSE f : eq(f)
<1>1. PICK f \in [SUBSET S -> Nat] : Adds(f, mem, S) BY AdderExists
<1>2. eq(f)
  <2>1. \A s \in SUBSET S : s # {} => Pick(s) \in s BY PickOne
  <2>. QED BY <1>1, <2>1 DEF Adds, Pick
<1>3. eq(iter) BY <1>2
<1>4. Total(mem, S) = iter[S] BY DEF Total, MapThenSumSet, MapThenFoldSet
<1>5. Adds(iter, mem, S)
  <2>. HIDE DEF iter
  <2>. QED BY <1>3 DEF Adds, Pick
<1>6. iter[S] = f[S]
  <2>. HIDE DEF iter
  <2>. QED BY <1>1, <1>5, AddersAgree
<1>. QED BY <1>1, <1>4, <1>6

(* What a reader expects of Total: nothing has none, and a block more is its   *)
(* size more.                                                                  *)
LEMMA TotalOfNone == ASSUME NEW mem PROVE Total(mem, {}) = 0
<1>1. PICK f \in [SUBSET {} -> Nat] : Adds(f, mem, {}) /\ Total(mem, {}) = f[{}]
  BY FS_EmptySet, TotalIsSum
<1>. QED BY <1>1 DEF Adds

\* A sum of sizes is a natural.
LEMMA TotalIsNatural ==
  ASSUME NEW S, IsFiniteSet(S), NEW mem, \A a \in S : mem[a].size \in Nat
  PROVE  Total(mem, S) \in Nat
<1>1. PICK f \in [SUBSET S -> Nat] : Adds(f, mem, S) /\ Total(mem, S) = f[S]
  BY TotalIsSum
<1>. QED BY <1>1

\* One block more adds its size.
LEMMA TotalOfMore ==
  ASSUME NEW S, IsFiniteSet(S), NEW mem, \A a \in S : mem[a].size \in Nat, NEW x \in S
  PROVE  /\ Total(mem, S) \in Nat
         /\ Total(mem, S) = mem[x].size + Total(mem, S \ {x})
<1>1. PICK f \in [SUBSET S -> Nat] : Adds(f, mem, S) /\ Total(mem, S) = f[S]
  BY TotalIsSum
<1>2. IsFiniteSet(S \ {x}) BY FS_Subset
<1>3. PICK g \in [SUBSET (S \ {x}) -> Nat] :
        Adds(g, mem, S \ {x}) /\ Total(mem, S \ {x}) = g[S \ {x}]
  BY <1>2, TotalIsSum
<1>4. f[S \ {x}] = g[S \ {x}]
  <2>1. S \ {x} \subseteq S OBVIOUS
  <2>. QED BY <1>1, <1>2, <1>3, <2>1, AddersAgree
<1>5. f[S] = mem[x].size + f[S \ {x}]
  <2>1. Adder(f, mem, S) BY <1>1 DEF Adder
  <2>2. ASSUME NEW T \in SUBSET S, NEW y \in T PROVE f[T] = mem[y].size + f[T \ {y}]
    BY <2>1, AnyFirst
  <2>. QED BY <2>2
<1>. QED BY <1>1, <1>3, <1>4, <1>5

\* A sum depends on the sizes it adds up only.
LEMMA TotalOfSame ==
  ASSUME NEW S, IsFiniteSet(S), NEW mem, NEW other,
         \A a \in S : mem[a].size \in Nat /\ other[a].size = mem[a].size
  PROVE  Total(other, S) = Total(mem, S)
<1>1. PICK f \in [SUBSET S -> Nat] : Adds(f, mem, S) /\ Total(mem, S) = f[S]
  BY TotalIsSum
<1>2. PICK g \in [SUBSET S -> Nat] : Adds(g, other, S) /\ Total(other, S) = g[S]
  BY TotalIsSum
<1>. QED BY <1>1, <1>2, AddersAgree

-----------------------------------------------------------------------------
(* A block that no list leads to would have a predecessor that no list leads   *)
(* to, and that a younger one: there is none.                                  *)
LEMMA Reached ==
  ASSUME HeapTypeOK, LinksSound, Aged
  PROVE  NoneLost
<1>. DEFINE D == DOMAIN chunks
<1>1. PICK rank \in [D -> Nat] :
        \A a \in D : chunks[a].next # Null => rank[a] < rank[chunks[a].next]
  BY DEF Aged
<1>2. OnLists \subseteq D BY DEF OnLists, Listed
<1>3. \A a \in OnLists : chunks[a].next \in OnLists \cup {Null}
  <2>1. \A a \in D : chunks[a].next \in D \cup {Null} BY DEF LinksSound
  <2>2. ASSUME NEW head, NEW a \in Listed(head), chunks[a].next # Null
        PROVE  chunks[a].next \in Listed(head)
    BY <2>1, <2>2 DEF Listed
  <2>. QED BY <2>2 DEF OnLists
<1>4. slist \in OnLists \cup {Null} /\ dlist \in OnLists \cup {Null}
  BY DEF LinksSound, OnLists, Listed
<1>5. ASSUME NEW x \in D, x \notin OnLists PROVE FALSE
  <2>. DEFINE Lost == {rank[a] : a \in D \ OnLists}
              R == {q \in Nat \X Nat : q[1] < q[2]}
  <2>1. Lost \subseteq Nat /\ rank[x] \in Lost BY <1>1, <1>5
  <2>2. IsWellFoundedOn(R, Nat) BY NatLessThanWellFounded, Zenon DEF OpToRel
  <2>3. PICK k \in Lost : \A m \in Lost : <<m, k>> \notin R
    <3>. HIDE DEF Lost, R
    <3>. QED BY <2>1, <2>2, WFMin
  <2>4. PICK a \in D \ OnLists : k = rank[a] OBVIOUS
  <2>5. PICK b \in D : chunks[b].next = a BY <1>4, <2>4 DEF LinksSound, HeapTypeOK, Cells, Null
  <2>6. a # Null BY <2>4 DEF HeapTypeOK, Cells, Null
  <2>7. rank[b] < rank[a] BY <1>1, <2>5, <2>6
  <2>8. b \notin OnLists BY <1>3, <2>4, <2>5, <2>6
  <2>9. rank[b] \in Lost BY <2>8
  <2>. QED BY <1>1, <2>3, <2>4, <2>7, <2>9
<1>. QED BY <1>2, <1>5 DEF NoneLost

(* A write that copy() and set() let through meets no header: none is out of   *)
(* their sight.                                                                *)
LEMMA WriteMeetsNoHeader ==
  ASSUME HeapInv, NEW dst \in Cells, NEW size \in Requests, Write(dst, size)
  PROVE  UNCHANGED <<chunks, slist, dlist>>
<1>1. NoneLost BY Reached DEF HeapInv
<1>2. CASE Conflicts(dst, size) BY <1>2 DEF Write
<1>3. CASE ~Conflicts(dst, size)
  <2>1. \A a \in DOMAIN chunks : ~(dst < a + Header /\ dst + size > a)
    BY <1>1, <1>3 DEF Conflicts, NoneLost
  <2>2. PICK junk \in Cells :
          chunks' = [a \in DOMAIN chunks |->
            IF dst < a + Header /\ dst + size > a
              THEN [chunks[a] EXCEPT !.next = junk] ELSE chunks[a]]
    BY <1>3 DEF Write
  <2>3. chunks' = [a \in DOMAIN chunks |-> chunks[a]] BY <2>1, <2>2, Zenon
  <2>. QED BY <2>3 DEF Write, HeapInv, HeapTypeOK
<1>. QED BY <1>2, <1>3

(* Every step leaves the blocks and their links alone, grants a block or       *)
(* removes one.                                                                *)
LEMMA Steps ==
  ASSUME HeapInv, [Next]_vars
  PROVE  \/ UNCHANGED <<chunks, slist, dlist>>
         \/ Granting
         \/ \E list \in {"slist", "dlist"}, p \in Nat, from \in Nat : Removal(list, p, from)
<1>. USE DEF HeapInv
<1>2. CASE Grant BY <1>2 DEF Grant, Granting
<1>3. CASE GiveBack
  <2>1. work.p \in DOMAIN chunks /\ work.p \in Nat /\ work.previous \in Nat
        /\ work.list \in {"slist", "dlist"} /\ Null \in Nat
    BY <1>3 DEF GiveBack, WalkSound, HeapTypeOK, Calls, Null
  <2>2. CASE work.p = HeadOf(work.list)
    <3>1. Removal(work.list, work.p, Null) BY <1>3, <2>1, <2>2 DEF GiveBack, Removal
    <3>. QED BY <2>1, <3>1
  <2>3. CASE work.p # HeadOf(work.list)
    <3>1. work.previous \in DOMAIN chunks /\ chunks[work.previous].next = work.p
      BY <1>3, <2>1, <2>3 DEF GiveBack, WalkSound
    <3>2. work.p \notin {slist, dlist} BY <1>3, <3>1 DEF LinksSound, GiveBack
    <3>3. Removal(work.list, work.p, work.previous)
      BY <1>3, <2>1, <2>3, <3>1, <3>2 DEF GiveBack, Removal
    <3>. QED BY <2>1, <3>3
  <2>. QED BY <2>2, <2>3
<1>4. CASE Empty
  <2>1. work.list \in {"slist", "dlist"} /\ HeadOf(work.list) \in Nat /\ Null \in Nat
    BY DEF HeapTypeOK, Calls, HeadOf, Null
  <2>2. CASE HeadOf(work.list) # Null
    <3>1. HeadOf(work.list) \in DOMAIN chunks BY <2>2 DEF LinksSound, HeadOf
    <3>2. Removal(work.list, HeadOf(work.list), Null) BY <1>4, <2>2, <3>1 DEF Empty, Removal
    <3>. QED BY <2>1, <3>2
  <2>. QED BY <1>4, <2>2 DEF Empty
<1>5. ASSUME NEW dst \in Cells, NEW size \in Requests, Write(dst, size)
      PROVE  UNCHANGED <<chunks, slist, dlist>>
  BY <1>5, WriteMeetsNoHeader
<1>. QED
  BY <1>2, <1>3, <1>4, <1>5
  DEF Next, Step, vars, Salloc, Dalloc, CallAlloc, Count, Refuse, Pass, EndOfList, Free,
      Recycle, Sinit, Dinit

(* malloc() finds no place where a block starts.                               *)
LEMMA FreshIsNew ==
  ASSUME HeapInv, work.op \in Allocs, NEW at \in Fresh(Length(work.size))
  PROVE  at \notin DOMAIN chunks
<1>1. \A n \in Requests : n \in Nat /\ Length(n) = n + Header
  BY HeapAssumption DEF Length
<1>2. work.size \in Requests /\ \A a \in DOMAIN chunks : a \in Nat /\ chunks[a].size \in Requests
  BY DEF HeapInv, HeapTypeOK, Cells
<1>3. SUFFICES ASSUME at \in DOMAIN chunks PROVE FALSE OBVIOUS
<1>4. at + Length(work.size) <= at \/ at + Length(chunks[at].size) <= at
  BY <1>3 DEF Fresh
<1>5. /\ at \in Nat /\ Header \in Nat /\ Header > 0
      /\ work.size \in Nat /\ Length(work.size) = work.size + Header
      /\ chunks[at].size \in Nat /\ Length(chunks[at].size) = chunks[at].size + Header
  <2>1. at \in Nat /\ chunks[at].size \in Requests BY <1>2, <1>3
  <2>2. Header \in Nat /\ Header > 0 BY HeapAssumption
  <2>. QED BY <1>1, <1>2, <2>1, <2>2
<1>. QED BY <1>4, <1>5

\* the part of the type invariant that is about the blocks
ChunksTypeOK ==
  /\ DOMAIN chunks \subseteq Cells
  /\ chunks \in [DOMAIN chunks -> [size : Requests, magic : Owners, next : Nat]]
  /\ \A a \in DOMAIN chunks : a + Header + chunks[a].size - 1 <= Memory
  /\ slist \in Nat /\ dlist \in Nat

ListsInv == ChunksTypeOK /\ Apart /\ LinksSound /\ Aged

(* A block that malloc() finds is apart from the others, as no sum wraps, and  *)
(* heads its list.                                                             *)
LEMMA GrantKeeps ==
  ASSUME HeapInv, Granting
  PROVE  ListsInv'
<1>. DEFINE n == work.size
            head == IF work.op = "salloc" THEN slist ELSE dlist
<1>1. PICK at \in Fresh(Length(n)) :
        /\ chunks' = [a \in DOMAIN chunks \cup {at} |->
             IF a = at THEN [size |-> n, magic |-> work.task, next |-> head] ELSE chunks[a]]
        /\ IF work.op = "salloc" THEN slist' = at /\ UNCHANGED dlist
                                 ELSE dlist' = at /\ UNCHANGED slist
  BY DEF Granting
<1>2. n \in Requests /\ n \in Nat /\ work.task \in Owners /\ head \in Nat
      /\ work.op \in Allocs
  BY HeapAssumption DEF HeapInv, HeapTypeOK, Calls, Granting
<1>3. \A m \in Requests : Length(m) = m + Header /\ m \in Nat
  BY HeapAssumption DEF Length
<1>4. Header \in Nat /\ Header > 0 BY HeapAssumption
<1>5. /\ \A a \in DOMAIN chunks :
           /\ a \in Nat /\ chunks[a].size \in Nat
           /\ Length(chunks[a].size) = chunks[a].size + Header
      /\ Length(n) = n + Header
  <2>1. \A a \in DOMAIN chunks : a \in Nat /\ chunks[a].size \in Requests
    BY DEF HeapInv, HeapTypeOK, Cells
  <2>. QED BY <1>2, <1>3, <2>1
<1>6. /\ at \in Cells /\ at \in Nat /\ at # Null
      /\ at + n + Header - 1 <= Memory
      /\ \A a \in DOMAIN chunks :
           at + n + Header <= a \/ a + chunks[a].size + Header <= at
      /\ at \notin DOMAIN chunks
  <2>1. at \in Cells /\ at \in Nat /\ at # Null
    BY <1>1, HeapAssumption DEF Fresh, Cells, Null
  <2>2. at + (n + Header) - 1 <= Memory
        /\ \A a \in DOMAIN chunks :
             at + (n + Header) <= a \/ a + (chunks[a].size + Header) <= at
    BY <1>1, <1>5 DEF Fresh
  <2>3. at + n + Header - 1 <= Memory
        /\ \A a \in DOMAIN chunks :
             at + n + Header <= a \/ a + chunks[a].size + Header <= at
    BY <1>2, <1>4, <1>5, <2>1, <2>2, HeapAssumption
  <2>4. at \notin DOMAIN chunks BY <1>2, <1>4, <1>5, <2>1, <2>3
  <2>. QED BY <2>1, <2>3, <2>4
<1>7. DOMAIN chunks' = DOMAIN chunks \cup {at} BY <1>1
<1>8. chunks'[at] = [size |-> n, magic |-> work.task, next |-> head]
      /\ \A a \in DOMAIN chunks : chunks'[a] = chunks[a]
  BY <1>1, <1>6
<1>. HIDE DEF n, head
<1>9. ChunksTypeOK'
  <2>1. \A a \in DOMAIN chunks' :
          chunks'[a] \in [size : Requests, magic : Owners, next : Nat]
    BY <1>2, <1>7, <1>8 DEF HeapInv, HeapTypeOK
  <2>2. chunks' \in [DOMAIN chunks' -> [size : Requests, magic : Owners, next : Nat]]
    BY <1>1, <1>7, <2>1
  <2>3. \A a \in DOMAIN chunks' : a + Header + chunks'[a].size - 1 <= Memory
    BY <1>2, <1>4, <1>5, <1>6, <1>7, <1>8 DEF HeapInv, HeapTypeOK
  <2>. QED BY <1>1, <1>6, <1>7, <2>2, <2>3 DEF ChunksTypeOK, HeapInv, HeapTypeOK
<1>10. Apart'
  <2>1. \A a \in DOMAIN chunks :
          \/ a + Header + chunks'[a].size <= at
          \/ at + Header + chunks'[at].size <= a
    BY <1>2, <1>4, <1>5, <1>6, <1>8
  <2>. QED BY <1>7, <1>8, <2>1 DEF Apart, HeapInv
<1>11. LinksSound'
  <2>1. head \in DOMAIN chunks \cup {Null} /\ head \in {slist, dlist}
    BY DEF head, HeapInv, LinksSound
  <2>2. work.task = NoTask <=> work.op = "dalloc"
    BY <1>2 DEF HeapInv, WalkSound
  <2>. QED BY <1>1, <1>2, <1>6, <1>7, <1>8, <2>1, <2>2 DEF LinksSound, HeapInv, head, Allocs
<1>12. Aged'
  <2>1. PICK rank \in [DOMAIN chunks -> Nat] : \A a \in DOMAIN chunks :
          chunks[a].next # Null => rank[a] < rank[chunks[a].next]
    BY DEF HeapInv, Aged
  <2>. DEFINE older == [a \in DOMAIN chunks' |-> IF a = at THEN 0 ELSE rank[a] + 1]
  <2>2. older \in [DOMAIN chunks' -> Nat] BY <1>7, <2>1
  <2>3. head \in DOMAIN chunks \cup {Null} BY DEF head, HeapInv, LinksSound
  <2>4. \A a \in DOMAIN chunks : chunks[a].next \in DOMAIN chunks \cup {Null}
    BY DEF HeapInv, LinksSound
  <2>5. ASSUME NEW a \in DOMAIN chunks', chunks'[a].next # Null
        PROVE  older[a] < older[chunks'[a].next]
    BY <1>6, <1>7, <1>8, <2>1, <2>3, <2>4, <2>5
  <2>. HIDE DEF older
  <2>. QED BY <2>2, <2>5 DEF Aged
<1>. QED BY <1>9, <1>10, <1>11, <1>12 DEF ListsInv

(* A removal bends the one link that led to the block, or moves the head.      *)
LEMMA RemovalKeeps ==
  ASSUME HeapInv, NEW list \in {"slist", "dlist"}, NEW p \in Nat, NEW from \in Nat,
         Removal(list, p, from)
  PROVE  ListsInv'
<1>. DEFINE D == DOMAIN chunks
            next == chunks[p].next
<1>1. p \in D /\ p # Null /\ next \in (D \ {slist, dlist}) \cup {Null}
  BY DEF Removal, HeapInv, HeapTypeOK, LinksSound, Cells, Null
<1>2. PICK rank \in [D -> Nat] :
        \A a \in D : chunks[a].next # Null => rank[a] < rank[chunks[a].next]
  BY DEF HeapInv, Aged
<1>3. next # p /\ (from \in D /\ chunks[from].next = p => from # p)
  BY <1>1, <1>2
<1>4. chunks' = [a \in D \ {p} |->
        IF a = from THEN [size |-> chunks[a].size, magic |-> chunks[a].magic, next |-> next]
        ELSE chunks[a]]
  BY DEF Removal, Without, HeapInv, HeapTypeOK
<1>5. DOMAIN chunks' = D \ {p} BY <1>4
<1>6. \A a \in D \ {p} :
        /\ chunks'[a].size = chunks[a].size /\ chunks'[a].magic = chunks[a].magic
        /\ chunks'[a].next = IF a = from THEN next ELSE chunks[a].next
  BY <1>4
<1>7. \/ /\ p = HeadOf(list) /\ from = Null
         /\ MoveHead(list, next)
      \/ /\ p \notin {slist, dlist}
         /\ from \in D \ {p} /\ chunks[from].next = p
         /\ UNCHANGED <<slist, dlist>>
  BY <1>3 DEF Removal
<1>8. ChunksTypeOK'
  <2>1. \A a \in D \ {p} :
          chunks'[a] \in [size : Requests, magic : Owners, next : Nat]
    BY <1>1, <1>4 DEF HeapInv, HeapTypeOK
  <2>2. chunks' \in [DOMAIN chunks' -> [size : Requests, magic : Owners, next : Nat]]
    BY <1>4, <1>5, <2>1
  <2>3. next \in Nat BY <1>1 DEF HeapInv, HeapTypeOK
  <2>4. slist' \in Nat /\ dlist' \in Nat
    BY <1>7, <2>3 DEF MoveHead, HeapInv, HeapTypeOK
  <2>. QED BY <1>5, <1>6, <2>2, <2>4 DEF ChunksTypeOK, HeapInv, HeapTypeOK
<1>9. Apart' BY <1>5, <1>6 DEF Apart, HeapInv
<1>. DEFINE Short(a) == chunks[a].magic = NoTask
<1>10. slist \in D \cup {Null} /\ dlist \in D \cup {Null}
       /\ (slist # Null => ~Short(slist)) /\ (dlist # Null => Short(dlist))
       /\ \A a \in D :
           /\ chunks[a].next \in (D \ {slist, dlist}) \cup {Null}
           /\ chunks[a].next # Null => (Short(a) <=> Short(chunks[a].next))
           /\ a \in {slist, dlist} \/ \E b \in D : chunks[b].next = a
           /\ \A b \in D : chunks[a].next = chunks[b].next => a = b \/ chunks[a].next = Null
  BY DEF HeapInv, LinksSound
<1>11. Null \notin D BY DEF HeapInv, HeapTypeOK, Cells, Null
<1>. HIDE DEF D, next
<1>12. LinksSound'
  <2>1. /\ slist' \in D \cup {Null} /\ slist' # p
        /\ dlist' \in D \cup {Null} /\ dlist' # p
        /\ slist' # Null => ~Short(slist')
        /\ dlist' # Null => Short(dlist')
        /\ \A a \in D \ {p} : a \in {slist, dlist} => a \in {slist', dlist'}
        /\ p \in {slist, dlist} /\ next # Null => next \in {slist', dlist'}
        /\ p \notin {slist, dlist} => UNCHANGED <<slist, dlist>>
        /\ slist' \in {slist, next} /\ dlist' \in {dlist, next}
        /\ next \in {slist', dlist'} /\ next # Null => p \in {slist, dlist}
    BY <1>1, <1>3, <1>7, <1>10, <1>11 DEF HeadOf, MoveHead, next
  <2>8. \A a \in D \ {p} :
          /\ chunks[a].next = next => next = Null
          /\ chunks[a].next = p => a = from
          /\ chunks[a].next \in (D \ {slist, dlist}) \cup {Null}
    BY <1>1, <1>7, <1>10, <1>11 DEF next, HeadOf
  <2>9. \A a \in D \ {p} : a = from => p \notin {slist, dlist}
    BY <1>7, <1>11
  <2>2. \A a \in D \ {p} :
          chunks'[a].next \in ((D \ {p}) \ {slist', dlist'}) \cup {Null}
    <3>. TAKE a \in D \ {p}
    <3>1. CASE a = from
      <4>1. chunks'[a].next = next BY <1>6, <3>1
      <4>. QED BY <1>1, <1>3, <2>1, <2>9, <3>1, <4>1
    <3>2. CASE a # from
      <4>1. chunks'[a].next = chunks[a].next BY <1>6, <3>2
      <4>2. chunks[a].next # p BY <2>8, <3>2
      <4>. QED BY <2>1, <2>8, <4>1, <4>2
    <3>. QED BY <3>1, <3>2
  <2>3. \A a \in D \ {p} : chunks'[a].next # Null =>
          (chunks'[a].magic = NoTask <=> chunks'[chunks'[a].next].magic = NoTask)
    <3>1. SUFFICES ASSUME NEW a \in D \ {p}, chunks'[a].next # Null
                   PROVE  Short(a) <=> Short(chunks'[a].next)
      BY <1>6, <2>2
    <3>2. CASE a = from
      <4>1. chunks'[a].next = next /\ chunks[a].next = p
        BY <1>6, <1>7, <1>11, <3>2
      <4>. QED BY <1>1, <1>10, <3>1, <4>1 DEF next
    <3>3. CASE a # from
      <4>1. chunks'[a].next = chunks[a].next BY <1>6, <3>3
      <4>. QED BY <1>10, <3>1, <4>1
    <3>. QED BY <3>2, <3>3
  <2>4. \A a \in D \ {p} : a \in {slist', dlist'} \/ \E b \in D \ {p} : chunks'[b].next = a
    <3>. TAKE a \in D \ {p}
    <3>1. CASE a = next
      <4>1. CASE p \in {slist, dlist} BY <1>11, <2>1, <3>1, <4>1
      <4>2. CASE p \notin {slist, dlist}
        <5>1. from \in D \ {p} BY <1>7, <1>10, <4>2 DEF HeadOf
        <5>2. chunks'[from].next = a BY <1>6, <3>1, <5>1
        <5>. QED BY <5>1, <5>2
      <4>. QED BY <4>1, <4>2
    <3>2. CASE a # next
      <4>1. a \in {slist, dlist} \/ \E b \in D : b # p /\ chunks[b].next = a
        BY <1>10, <3>2 DEF next
      <4>2. \A b \in D \ {p} : chunks[b].next = a => b # from
        BY <1>7, <1>11
      <4>. QED BY <1>6, <2>1, <4>1, <4>2
    <3>. QED BY <3>1, <3>2
  <2>5. \A a, b \in D \ {p} : chunks'[a].next = chunks'[b].next =>
          a = b \/ chunks'[a].next = Null
    BY <1>1, <1>3, <1>6, <1>7, <1>10, <1>11 DEF next
  <2>6. \A a \in D \ {p} : chunks'[a].magic = NoTask <=> Short(a) BY <1>6
  <2>7. /\ slist' # Null => ~(chunks'[slist'].magic = NoTask)
        /\ dlist' # Null => chunks'[dlist'].magic = NoTask
    BY <2>1, <2>6
  <2>. HIDE DEF Short
  <2>. QED BY <1>5, <2>1, <2>2, <2>3, <2>4, <2>5, <2>7 DEF LinksSound
<1>13. Aged'
  <2>. DEFINE same == [a \in D \ {p} |-> rank[a]]
  <2>1. same \in [DOMAIN chunks' -> Nat] BY <1>5
  <2>2. ASSUME NEW a \in D \ {p}, chunks'[a].next # Null
        PROVE  same[a] < same[chunks'[a].next]
    <3>1. CASE a = from
      <4>1. chunks[a].next = p /\ chunks'[a].next = next BY <1>6, <1>7, <1>11, <3>1
      <4>2. rank[a] < rank[p] /\ rank[p] < rank[next]
        BY <1>1, <1>2, <2>2, <4>1 DEF next
      <4>3. next \in D \ {p} BY <1>1, <1>3, <2>2, <4>1
      <4>4. same[a] = rank[a] /\ same[chunks'[a].next] = rank[next] BY <4>1, <4>3
      <4>5. rank[a] \in Nat /\ rank[p] \in Nat /\ rank[next] \in Nat BY <1>1, <1>2, <4>3
      <4>6. rank[a] < rank[next] BY <4>2, <4>5
      <4>. QED BY <4>4, <4>6
    <3>2. CASE a # from
      <4>1. chunks'[a].next = chunks[a].next BY <1>6, <3>2
      <4>2. chunks[a].next # p BY <1>1, <1>7, <1>10, <3>2, <2>2 DEF HeadOf
      <4>. QED BY <1>2, <1>10, <2>2, <4>1, <4>2
    <3>. QED BY <3>1, <3>2
  <2>. HIDE DEF same
  <2>. QED BY <1>5, <2>1, <2>2 DEF Aged
<1>. QED BY <1>8, <1>9, <1>12, <1>13 DEF ListsInv
(* What happens to the blocks keeps what is said of them.                      *)
LEMMA ListsKeep ==
  ASSUME HeapInv, [Next]_vars
  PROVE  ListsInv'
<1>1. CASE UNCHANGED <<chunks, slist, dlist>>
  BY <1>1 DEF HeapInv, HeapTypeOK, ListsInv, ChunksTypeOK, Apart, LinksSound, Aged
<1>2. CASE Granting BY <1>2, GrantKeeps
<1>3. ASSUME NEW list \in {"slist", "dlist"}, NEW p \in Nat, NEW from \in Nat,
             Removal(list, p, from)
      PROVE  ListsInv'
  BY <1>3, RemovalKeeps
<1>. QED BY <1>1, <1>2, <1>3, Steps

(* The call in progress keeps its type.                                        *)
LEMMA WorkTypeKeeps ==
  ASSUME HeapInv, [Next]_vars
  PROVE  work' \in Calls /\ (work'.op \in Allocs => work'.size \in Requests)
         /\ fault' \in BOOLEAN
<1>1. /\ work \in Calls /\ (work.op \in Allocs => work.size \in Requests)
      /\ fault \in BOOLEAN /\ slist \in Nat /\ dlist \in Nat /\ Null \in Nat
  BY DEF HeapInv, HeapTypeOK, Null
<1>2. Idle \in Calls /\ Idle.op = "none" BY DEF Idle, Calls, Owners, Null
<1>3. \A a \in DOMAIN chunks : chunks[a].next \in Nat /\ chunks[a].size \in Nat
  BY HeapAssumption DEF HeapInv, HeapTypeOK
<1>4. work.p \in DOMAIN chunks \cup {Null} BY DEF HeapInv, WalkSound
<1>5. ASSUME NEW op \in Allocs, NEW t \in Owners, NEW n \in Requests, NEW zero \in BOOLEAN,
             CallAlloc(op, t, n, zero)
      PROVE  work' \in Calls /\ work'.size \in Requests /\ fault' = fault
  BY <1>1, <1>5, HeapAssumption DEF CallAlloc, Idle, Calls, Allocs, Owners, Null
<1>6. CASE Count
  <2>1. work.sum + chunks[work.p].size \in Nat BY <1>1, <1>3, <1>4, <1>6 DEF Count, Calls
  <2>2. (work.sum + chunks[work.p].size) % Word \in Nat BY <2>1, HeapAssumption
  <2>3. chunks[work.p].next \in Nat BY <1>3, <1>4, <1>6 DEF Count
  <2>4. \E q, s \in Nat : work' = [work EXCEPT !.p = q, !.sum = s]
    <3>. DEFINE s == IF work.op = "dalloc" \/ chunks[work.p].magic = work.task
                       THEN (work.sum + chunks[work.p].size) % Word ELSE work.sum
    <3>1. s \in Nat BY <1>1, <2>2 DEF Calls
    <3>2. work' = [work EXCEPT !.p = chunks[work.p].next, !.sum = s] BY <1>6 DEF Count
    <3>. QED BY <2>3, <3>1, <3>2
  <2>. QED BY <1>1, <1>6, <2>4 DEF Count, Calls
<1>7. CASE Pass
  <2>1. chunks[work.p].next \in Nat /\ work.p \in Nat BY <1>1, <1>3, <1>4, <1>7 DEF Pass, Calls
  <2>. QED BY <1>1, <1>7, <2>1 DEF Pass, Calls, Allocs
<1>8. CASE GiveBack
  <2>1. chunks[work.p].next \in Nat BY <1>3, <1>4, <1>8 DEF GiveBack
  <2>2. \/ work' = Idle
        \/ work' = [work EXCEPT !.p = chunks[work.p].next]
        \/ work' = [work EXCEPT !.p = chunks[work.p].next, !.previous = chunks[work.p].next]
    BY <1>8 DEF GiveBack
  <2>3. fault' = fault /\ work.op \notin Allocs BY <1>8 DEF GiveBack, Allocs
  <2>. QED BY <1>1, <1>2, <2>1, <2>2, <2>3 DEF Calls, Allocs
<1>9. CASE EndOfList
  <2>1. \/ work' = Idle
        \/ work' = [work EXCEPT !.list = "slist", !.p = slist, !.previous = slist]
    BY <1>9 DEF EndOfList
  <2>2. fault' = fault /\ work.op \notin Allocs BY <1>9 DEF EndOfList, Allocs
  <2>. QED BY <1>1, <1>2, <2>1, <2>2 DEF Calls, Allocs
<1>10. ASSUME NEW t \in Tasks, Recycle(t) PROVE work' \in Calls /\ work'.op \notin Allocs /\ fault' = fault
  BY <1>1, <1>10 DEF Recycle, Idle, Calls, Allocs, Owners, Null
<1>11. ASSUME NEW address \in Cells, Free(address)
       PROVE  work' \in Calls /\ work'.op \notin Allocs /\ fault' = fault
  <2>1. address \in Nat BY HeapAssumption DEF Cells
  <2>2. work' = [Idle EXCEPT !.op = "free", !.address = address, !.p = dlist,
                             !.previous = dlist] /\ fault' = fault
    BY <1>11 DEF Free
  <2>. QED BY <1>1, <1>2, <2>1, <2>2 DEF Calls, Allocs
<1>12. CASE Sinit \/ Dinit
  BY <1>1, <1>2, <1>12 DEF Sinit, Dinit, Calls, Allocs, Idle
<1>13. CASE Empty BY <1>1, <1>2, <1>13 DEF Empty, Allocs
<1>14. CASE Grant \/ Refuse
  BY <1>1, <1>2, <1>14 DEF Grant, Refuse, Allocs, Calls
<1>15. ASSUME NEW t \in Tasks, NEW n \in Requests, NEW zero \in BOOLEAN,
              Salloc(t, n, zero) \/ Dalloc(n, zero)
       PROVE  work' \in Calls /\ work'.size \in Requests /\ fault' = fault
  BY <1>5, <1>15 DEF Salloc, Dalloc, Allocs, Owners
<1>16. ASSUME NEW n \in Requests, NEW zero \in BOOLEAN, Dalloc(n, zero)
       PROVE  work' \in Calls /\ work'.size \in Requests /\ fault' = fault
  BY <1>5, <1>16 DEF Dalloc, Allocs, Owners
<1>17. ASSUME NEW dst \in Cells, NEW size \in Requests, Write(dst, size)
       PROVE  UNCHANGED <<work, fault>>
  BY <1>17 DEF Write
<1>. QED
  BY <1>1, <1>6, <1>7, <1>8, <1>9, <1>10, <1>11, <1>12, <1>13, <1>14, <1>15, <1>16, <1>17
  DEF Next, Step, vars

(* A walk stands where it can go on.                                           *)
LEMMA WalkKeeps ==
  ASSUME HeapInv, [Next]_vars, ListsInv'
  PROVE  WalkSound'
<1>. DEFINE D == DOMAIN chunks
<1>1. /\ work \in Calls /\ work.p \in D \cup {Null}
      /\ slist \in D \cup {Null} /\ dlist \in D \cup {Null}
      /\ \A a \in D : chunks[a].next \in D \cup {Null}
      /\ WalkSound /\ Null \notin D
  BY DEF HeapInv, HeapTypeOK, WalkSound, LinksSound, Cells, Null
<1>2. Idle.op = "none" /\ Idle.p = Null BY DEF Idle
<1>3. ASSUME work' = Idle PROVE WalkSound'
  BY <1>2, <1>3 DEF WalkSound, Allocs
<1>4. ASSUME NEW op \in Allocs, NEW t \in Owners, NEW n \in Requests, NEW zero \in BOOLEAN,
             CallAlloc(op, t, n, zero), t = NoTask <=> op = "dalloc"
      PROVE  WalkSound'
  BY <1>1, <1>4 DEF CallAlloc, WalkSound, Idle, Allocs
<1>5. ASSUME NEW t \in Tasks, NEW n \in Requests, NEW zero \in BOOLEAN, Salloc(t, n, zero)
      PROVE  WalkSound'
  BY <1>4, <1>5, HeapAssumption DEF Salloc, Allocs, Owners
<1>6. ASSUME NEW n \in Requests, NEW zero \in BOOLEAN, Dalloc(n, zero)
      PROVE  WalkSound'
  BY <1>4, <1>6 DEF Dalloc, Allocs, Owners
<1>7. CASE Count
  <2>1. chunks[work.p].next \in D \cup {Null} /\ chunks' = chunks BY <1>1, <1>7 DEF Count
  <2>2. work'.p = chunks[work.p].next /\ work'.op = work.op /\ work'.task = work.task
    BY <1>1, <1>7 DEF Count, Calls
  <2>3. work.op \in Allocs BY <1>7 DEF Count
  <2>. QED BY <1>1, <2>1, <2>2, <2>3 DEF WalkSound, Allocs
<1>8. CASE Pass
  <2>1. work.p \in D /\ chunks[work.p].next \in D \cup {Null} BY <1>1, <1>8 DEF Pass
  <2>2. work'.p = chunks[work.p].next /\ work'.previous = work.p /\ work'.op = work.op
    BY <1>1, <1>8 DEF Pass, Calls
  <2>3. work.op \in {"free", "recycle"} /\ chunks' = chunks BY <1>8 DEF Pass
  <2>. QED BY <1>1, <2>1, <2>2, <2>3 DEF WalkSound, Allocs
<1>9. CASE GiveBack
  <2>. DEFINE p == work.p
              next == chunks[p].next
  <2>1. p \in D /\ next \in D \cup {Null} /\ work.op \in {"free", "recycle"}
    BY <1>1, <1>9 DEF GiveBack
  <2>2. next # p BY <2>1, <1>1 DEF HeapInv, Aged
  <2>3. CASE p # HeadOf(work.list) /\ work.list # "dlist"
    <3>1. work.previous \in D /\ chunks[work.previous].next = p
      BY <1>1, <2>1, <2>3 DEF WalkSound
    <3>2. work.previous # p BY <2>2, <3>1
    <3>3. chunks' = Without(p, work.previous) /\ work' = [work EXCEPT !.p = next]
      BY <1>9, <2>3 DEF GiveBack
    <3>4. DOMAIN chunks' = D \ {p} /\ chunks'[work.previous].next = next
      BY <3>1, <3>2, <3>3 DEF Without, HeapInv, HeapTypeOK
    <3>5. work'.p = next /\ work'.previous = work.previous /\ work'.op = work.op
      BY <1>1, <3>3 DEF Calls
    <3>. QED BY <2>1, <2>2, <3>1, <3>2, <3>4, <3>5 DEF WalkSound, Allocs
  <2>4. CASE p = HeadOf(work.list) /\ work.list # "dlist"
    <3>1. /\ chunks' = Without(p, Null) /\ MoveHead(work.list, next)
          /\ work' = [work EXCEPT !.p = next, !.previous = next]
      BY <1>9, <2>4 DEF GiveBack
    <3>2. DOMAIN chunks' = D \ {p} BY <3>1 DEF Without
    <3>3. work'.p = next /\ work'.list = work.list /\ work'.op = work.op
      BY <1>1, <3>1 DEF Calls
    <3>4. work.list = "slist" /\ slist' = next
      BY <1>1, <2>4, <3>1 DEF Calls, MoveHead
    <3>. QED BY <2>1, <2>2, <3>2, <3>3, <3>4 DEF WalkSound, Allocs, HeadOf
  <2>5. CASE work.list = "dlist" BY <1>3, <1>9, <2>5 DEF GiveBack
  <2>. QED BY <2>3, <2>4, <2>5
<1>10. CASE EndOfList
  <2>1. CASE work.list = "dlist"
    <3>1. work' = [work EXCEPT !.list = "slist", !.p = slist, !.previous = slist]
          /\ chunks' = chunks /\ slist' = slist /\ work.op \in {"free", "recycle"}
      BY <1>10, <2>1 DEF EndOfList
    <3>2. work'.p = slist /\ work'.list = "slist" /\ work'.op = work.op
      BY <1>1, <3>1 DEF Calls
    <3>. QED BY <1>1, <3>1, <3>2 DEF WalkSound, Allocs, HeadOf
  <2>2. CASE work.list # "dlist" BY <1>3, <1>10, <2>2 DEF EndOfList
  <2>. QED BY <2>1, <2>2
<1>11. ASSUME NEW t \in Tasks, Recycle(t) PROVE WalkSound'
  BY <1>1, <1>11 DEF Recycle, WalkSound, Idle, Allocs, HeadOf
<1>12. ASSUME NEW address \in Cells, Free(address) PROVE WalkSound'
  BY <1>1, <1>12 DEF Free, WalkSound, Idle, Allocs, HeadOf
<1>13. CASE Sinit \/ Dinit
  BY <1>1, <1>13 DEF Sinit, Dinit, WalkSound, Idle, Allocs
<1>14. CASE Empty
  <2>1. CASE UNCHANGED work
    BY <1>1, <1>14, <2>1 DEF Empty, WalkSound, Allocs
  <2>. QED BY <1>3, <1>14, <2>1 DEF Empty
<1>15. CASE Grant \/ Refuse BY <1>3, <1>15 DEF Grant, Refuse
<1>16. CASE UNCHANGED work /\ UNCHANGED <<chunks, slist, dlist>>
  BY <1>1, <1>16 DEF WalkSound, HeadOf
<1>17. ASSUME NEW dst \in Cells, NEW size \in Requests, Write(dst, size) PROVE WalkSound'
  BY <1>3, <1>17 DEF Write
<1>. QED
  BY <1>5, <1>6, <1>7, <1>8, <1>9, <1>10, <1>11, <1>12, <1>13, <1>14, <1>15, <1>16, <1>17
  DEF Next, Step, vars

\* The invariant holds in an empty memory.
LEMMA HeapInvInit == Init => HeapInv
<1>. SUFFICES ASSUME Init PROVE HeapInv OBVIOUS
<1>1. chunks = [a \in {} |-> Idle] /\ DOMAIN chunks = {} BY DEF Init
<1>2. HeapTypeOK
  BY <1>1 DEF Init, HeapTypeOK, Idle, Calls, Owners, Null, Allocs
<1>3. Aged
  <2>1. [a \in {} |-> 0] \in [DOMAIN chunks -> Nat] BY <1>1
  <2>. QED BY <1>1, <2>1 DEF Aged
<1>4. Apart /\ LinksSound BY <1>1 DEF Init, Apart, LinksSound, Null
<1>5. WalkSound BY <1>1 DEF Init, WalkSound, Idle, Allocs
<1>. QED BY <1>2, <1>3, <1>4, <1>5 DEF HeapInv

\* Every step preserves the invariant.
LEMMA HeapInvStep == HeapInv /\ [Next]_vars => HeapInv'
<1>. SUFFICES ASSUME HeapInv, [Next]_vars PROVE HeapInv' OBVIOUS
<1>1. ListsInv' BY ListsKeep
<1>2. WalkSound' BY <1>1, WalkKeeps
<1>3. HeapTypeOK' BY <1>1, WorkTypeKeeps DEF ListsInv, ChunksTypeOK, HeapTypeOK
<1>. QED BY <1>1, <1>2, <1>3 DEF HeapInv, ListsInv

-----------------------------------------------------------------------------
(* The variables keep their types: every block lies in the memory.             *)
THEOREM HeapTypeInvariant == Spec => []HeapTypeOK
<1>1. HeapInv => HeapTypeOK BY DEF HeapInv
<1>. QED BY <1>1, HeapInvInit, HeapInvStep, PTL DEF Spec

(* Whatever calls are made, the blocks are apart, on the list of their kind and *)
(* none is lost, in the middle of a walk too; copy() and set() meet no header.  *)
THEOREM HeapIsSound == Spec => []HeapSound
<1>1. HeapInv => HeapSound BY Reached DEF HeapInv, HeapSound
<1>. QED BY <1>1, HeapInvInit, HeapInvStep, PTL DEF Spec

-----------------------------------------------------------------------------
(* What a list leads to: from a block, that block and what its link leads to;  *)
(* from the heads, the blocks of their kind.                                   *)
LEMMA ListedFromBlock ==
  ASSUME HeapInv, NEW p \in DOMAIN chunks
  PROVE  /\ Listed(p) = {p} \cup Listed(chunks[p].next)
         /\ p \notin Listed(chunks[p].next)
<1>. DEFINE D == DOMAIN chunks
            next == chunks[p].next
            Closed(S) == \A b \in S : chunks[b].next \in S \cup {Null}
<1>1. Null \notin D /\ \A a \in D : chunks[a].next \in D \cup {Null}
  BY DEF HeapInv, HeapTypeOK, LinksSound, Cells, Null
<1>2. \A head, a : a \in Listed(head) <=>
        a \in D /\ \A S \in SUBSET D : head \in S \cup {Null} /\ Closed(S) => a \in S
  BY DEF Listed
<1>. HIDE DEF Closed
<1>3. p \in Listed(p) BY <1>1, <1>2
<1>4. ASSUME NEW a \in Listed(next) PROVE a \in Listed(p)
  <2>1. ASSUME NEW S \in SUBSET D, p \in S \cup {Null}, Closed(S) PROVE a \in S
    <3>1. p \in S BY <1>1, <2>1
    <3>2. next \in S \cup {Null} BY <2>1, <3>1 DEF Closed
    <3>. QED BY <1>2, <2>1, <3>2
  <2>2. a \in D BY <1>2
  <2>. QED BY <1>2, <2>1, <2>2
<1>5. ASSUME NEW a \in Listed(p), a # p PROVE a \in Listed(next)
  <2>1. ASSUME NEW S \in SUBSET D, next \in S \cup {Null}, Closed(S) PROVE a \in S
    <3>1. Closed(S \cup {p}) BY <2>1 DEF Closed
    <3>2. S \cup {p} \in SUBSET D /\ p \in (S \cup {p}) \cup {Null} OBVIOUS
    <3>3. a \in S \cup {p} BY <1>2, <3>1, <3>2
    <3>. QED BY <1>5, <3>3
  <2>2. a \in D BY <1>2
  <2>. QED BY <1>2, <2>1, <2>2
<1>6. p \notin Listed(next)
  <2>1. PICK rank \in [D -> Nat] :
          \A a \in D : chunks[a].next # Null => rank[a] < rank[chunks[a].next]
    BY DEF HeapInv, Aged
  <2>. DEFINE Older == {a \in D : rank[p] < rank[a]}
  <2>2. Closed(Older) BY <1>1, <2>1 DEF Closed
  <2>3. next \in Older \cup {Null} BY <1>1, <2>1
  <2>4. p \notin Older /\ Older \in SUBSET D BY <2>1
  <2>. HIDE DEF Older
  <2>. QED BY <1>2, <2>2, <2>3, <2>4
<1>. QED BY <1>3, <1>4, <1>5, <1>6

\* No block is on an empty list.
LEMMA ListedFromNull == Listed(Null) = {}
<1>1. {} \in SUBSET DOMAIN chunks OBVIOUS
<1>. QED BY <1>1 DEF Listed

\* slist reaches the blocks that have an owner, dlist those that have none.
LEMMA ListedByKind ==
  ASSUME HeapInv
  PROVE  /\ Listed(slist) = {a \in DOMAIN chunks : chunks[a].magic # NoTask}
         /\ Listed(dlist) = {a \in DOMAIN chunks : chunks[a].magic = NoTask}
<1>. DEFINE D == DOMAIN chunks
            Kept == {a \in D : chunks[a].magic # NoTask}
            Short == {a \in D : chunks[a].magic = NoTask}
<1>1. D = Listed(slist) \cup Listed(dlist)
  BY Reached DEF HeapInv, NoneLost, OnLists
<1>2. /\ slist \in Kept \cup {Null} /\ dlist \in Short \cup {Null}
      /\ \A b \in Kept : chunks[b].next \in Kept \cup {Null}
      /\ \A b \in Short : chunks[b].next \in Short \cup {Null}
  BY DEF HeapInv, LinksSound
<1>3. Listed(slist) \subseteq Kept /\ Listed(dlist) \subseteq Short
  <2>1. Kept \in SUBSET D /\ Short \in SUBSET D OBVIOUS
  <2>. HIDE DEF Kept, Short
  <2>. QED BY <1>2, <2>1 DEF Listed
<1>. QED BY <1>1, <1>3

-----------------------------------------------------------------------------
\* the blocks of a task, and the short-lived ones
OfTask(t) == {a \in DOMAIN chunks : chunks[a].magic = t}

\* A call walks the list of its kind.
KindInv ==
  /\ work.op \in {"recycle", "sinit"} => work.list = "slist"
  /\ work.op = "dinit" => work.list = "dlist"
  /\ work.op \in {"free", "recycle"} /\ work.p # Null =>
       (chunks[work.p].magic = NoTask <=> work.list = "dlist")
  /\ work.op \in Allocs /\ work.p # Null =>
       (chunks[work.p].magic = NoTask <=> work.op = "dalloc")

\* What a call is to give back is still ahead of its walk.
Ahead ==
  Listed(work.p) \cup (IF work.op = "free" /\ work.list = "dlist" THEN Listed(slist) ELSE {})
Remaining ==
  work.op \in {"free", "recycle"} => \A a \in DOMAIN chunks : Doomed(a) => a \in Ahead

\* What is counted and what is ahead of the count are all the task has.
CountInv ==
  work.op \in Allocs =>
    work.sum + SizeOf(OfTask(work.task) \cap Listed(work.p)) = SizeOf(OfTask(work.task))

\* where work.p goes when the walk moves on
LEMMA KindStep ==
  ASSUME HeapInv, KindInv, [Next]_vars
  PROVE  KindInv'
<1>. DEFINE D == DOMAIN chunks
            Short(a) == chunks[a].magic = NoTask
            Steady == /\ \A a \in DOMAIN chunks' : a \in D /\ chunks'[a].magic = chunks[a].magic
<1>1. /\ work \in Calls /\ work.p \in D \cup {Null} /\ Null \notin D
      /\ slist \in D \cup {Null} /\ (slist # Null => ~Short(slist))
      /\ dlist \in D \cup {Null} /\ (dlist # Null => Short(dlist))
      /\ \A a \in D : chunks[a].next # Null =>
           chunks[a].next \in D /\ (Short(a) <=> Short(chunks[a].next))
  BY DEF HeapInv, HeapTypeOK, WalkSound, LinksSound, Cells, Null
<1>2. Idle.op = "none" BY DEF Idle
<1>3. ASSUME work' = Idle PROVE KindInv'
  BY <1>2, <1>3 DEF KindInv, Allocs
<1>4. ASSUME NEW op \in Allocs, NEW t \in Owners, NEW n \in Requests, NEW zero \in BOOLEAN,
             CallAlloc(op, t, n, zero)
      PROVE  KindInv'
  BY <1>1, <1>4 DEF CallAlloc, KindInv, Idle, Allocs
<1>5. ASSUME NEW t \in Tasks, NEW n \in Requests, NEW zero \in BOOLEAN,
             Salloc(t, n, zero) \/ Dalloc(n, zero)
      PROVE  KindInv'
  BY <1>4, <1>5 DEF Salloc, Dalloc, Allocs, Owners
<1>6. ASSUME NEW n \in Requests, NEW zero \in BOOLEAN, Dalloc(n, zero)
      PROVE  KindInv'
  BY <1>4, <1>6 DEF Dalloc, Allocs, Owners
<1>7. CASE Count
  <2>1. work'.p = chunks[work.p].next /\ work'.op = work.op /\ chunks' = chunks
        /\ work.op \in Allocs /\ work.p # Null
    BY <1>1, <1>7 DEF Count, Calls
  <2>. QED BY <1>1, <2>1 DEF KindInv, Allocs
<1>8. CASE Pass
  <2>1. work'.p = chunks[work.p].next /\ work'.op = work.op /\ work'.list = work.list
        /\ chunks' = chunks /\ work.op \in {"free", "recycle"} /\ work.p # Null
    BY <1>1, <1>8 DEF Pass, Calls
  <2>. QED BY <1>1, <2>1 DEF KindInv, Allocs
<1>9. CASE GiveBack
  <2>1. CASE work.list = "dlist" BY <1>3, <1>9, <2>1 DEF GiveBack
  <2>2. CASE work.list # "dlist"
    <3>1. /\ work'.p = chunks[work.p].next /\ work'.op = work.op /\ work'.list = work.list
          /\ work.op \in {"free", "recycle"} /\ work.p # Null
          /\ chunks' = Without(work.p, work.previous) \/ chunks' = Without(work.p, Null)
      BY <1>1, <1>9, <2>2 DEF GiveBack, Calls
    <3>2. \A a \in DOMAIN chunks' : chunks'[a].magic = chunks[a].magic
      BY <3>1 DEF Without, HeapInv, HeapTypeOK
    <3>3. work'.p \in DOMAIN chunks' \cup {Null}
      BY HeapInvStep DEF HeapInv, WalkSound
    <3>. QED BY <1>1, <2>2, <3>1, <3>2, <3>3 DEF KindInv, Allocs
  <2>. QED BY <2>1, <2>2
<1>10. CASE EndOfList
  <2>1. CASE work.list = "dlist"
    <3>1. work'.p = slist /\ work'.list = "slist" /\ work'.op = work.op /\ chunks' = chunks
          /\ work.op \in {"free", "recycle"}
      BY <1>1, <1>10, <2>1 DEF EndOfList, Calls
    <3>. QED BY <1>1, <3>1 DEF KindInv, Allocs
  <2>2. CASE work.list # "dlist" BY <1>3, <1>10, <2>2 DEF EndOfList
  <2>. QED BY <2>1, <2>2
<1>11. ASSUME NEW t \in Tasks, Recycle(t) PROVE KindInv'
  BY <1>1, <1>11 DEF Recycle, KindInv, Idle, Allocs
<1>12. ASSUME NEW address \in Cells, Free(address) PROVE KindInv'
  BY <1>1, <1>12 DEF Free, KindInv, Idle, Allocs
<1>13. CASE Sinit \/ Dinit
  BY <1>13 DEF Sinit, Dinit, KindInv, Idle, Allocs
<1>14. CASE Empty
  <2>1. CASE UNCHANGED work BY <1>14, <2>1 DEF Empty, KindInv, Allocs
  <2>. QED BY <1>3, <1>14, <2>1 DEF Empty
<1>15. CASE Grant \/ Refuse BY <1>3, <1>15 DEF Grant, Refuse
<1>16. CASE UNCHANGED vars BY <1>16 DEF vars, KindInv, Allocs
<1>17. ASSUME NEW dst \in Cells, NEW size \in Requests, Write(dst, size) PROVE KindInv'
  BY <1>3, <1>17 DEF Write
<1>. QED
  BY <1>5, <1>6, <1>7, <1>8, <1>9, <1>10, <1>11, <1>12, <1>13, <1>14, <1>15, <1>16, <1>17
  DEF Next, Step

\* Listed, for any links
Linked(mem, head) ==
  {a \in DOMAIN mem : \A S \in SUBSET DOMAIN mem :
     head \in S \cup {Null} /\ (\A b \in S : mem[b].next \in S \cup {Null}) => a \in S}

(* The block that leaves a list leaves what comes after it.                    *)
LEMMA LinkedWithout ==
  ASSUME HeapInv, NEW p \in DOMAIN chunks, NEW from \in Nat,
         from \in DOMAIN chunks => chunks[from].next = p,
         NEW a \in Listed(p), a # p
  PROVE  a \in Linked(Without(p, from), chunks[p].next)
<1>. DEFINE D == DOMAIN chunks
            after == Without(p, from)
            next == chunks[p].next
<1>1. /\ DOMAIN after = D \ {p}
      /\ \A b \in D \ {p} : after[b].next = IF b = from THEN next ELSE chunks[b].next
  BY DEF Without, HeapInv, HeapTypeOK
<1>2. a \in D /\ \A S \in SUBSET D :
        p \in S \cup {Null} /\ (\A b \in S : chunks[b].next \in S \cup {Null}) => a \in S
  BY DEF Listed
<1>3. ASSUME NEW S \in SUBSET (D \ {p}), next \in S \cup {Null},
             \A b \in S : after[b].next \in S \cup {Null}
      PROVE  a \in S
  <2>. DEFINE T == S \cup {p}
  <2>1. \A b \in T : chunks[b].next \in T \cup {Null}
    BY <1>1, <1>3
  <2>2. T \in SUBSET D /\ p \in T \cup {Null} BY <1>3
  <2>3. a \in T
    <3>. HIDE DEF T
    <3>. QED BY <1>2, <2>1, <2>2
  <2>. QED BY <2>3
<1>. HIDE DEF after
<1>. QED BY <1>1, <1>2, <1>3 DEF Linked, after

\* Every step of a walk leaves ahead what it has not met yet.
LEMMA RemainingStep ==
  ASSUME HeapInv, KindInv, Remaining, [Next]_vars
  PROVE  Remaining'
<1>. DEFINE D == DOMAIN chunks
<1>1. /\ work \in Calls /\ work.p \in D \cup {Null} /\ Null \notin D /\ slist \in Nat /\ dlist \in Nat
  BY DEF HeapInv, HeapTypeOK, WalkSound, LinksSound, Cells, Null
<1>2. Idle.op = "none" BY DEF Idle
<1>3. ASSUME work'.op \notin {"free", "recycle"} PROVE Remaining'
  BY <1>3 DEF Remaining
<1>4. /\ \A head : Listed(head) = Linked(chunks, head)
      /\ Ahead' = Linked(chunks', work'.p) \cup
                    (IF work'.op = "free" /\ work'.list = "dlist" THEN Linked(chunks', slist') ELSE {})
  BY DEF Ahead, Listed, Linked
<1>5. CASE Pass
  <2>1. /\ work'.p = chunks[work.p].next /\ work'.op = work.op /\ work'.list = work.list
        /\ work'.address = work.address /\ work'.task = work.task
        /\ chunks' = chunks /\ slist' = slist /\ work.p \in D /\ ~Wanted
        /\ work.op \in {"free", "recycle"}
    BY <1>1, <1>5 DEF Pass, Calls
  <2>2. SUFFICES ASSUME NEW a \in D, Doomed(a)' PROVE a \in Ahead'
    BY <2>1 DEF Remaining
  <2>3. Doomed(a) BY <2>1, <2>2 DEF Doomed, Holds
  <2>4. a # work.p BY <2>1, <2>3 DEF Doomed, Wanted
  <2>5. a \in Ahead BY <2>1, <2>3 DEF Remaining
  <2>6. Listed(work.p) = {work.p} \cup Listed(chunks[work.p].next) BY <2>1, ListedFromBlock
  <2>. QED BY <1>4, <2>1, <2>4, <2>5, <2>6 DEF Ahead
<1>6. CASE GiveBack
  <2>1. CASE work.list = "dlist" BY <1>2, <1>3, <1>6, <2>1 DEF GiveBack
  <2>2. CASE work.list # "dlist"
    <3>. DEFINE from == IF work.p # HeadOf(work.list) THEN work.previous ELSE Null
    <3>1. /\ work'.p = chunks[work.p].next /\ work'.op = work.op /\ work'.list = work.list
          /\ work'.address = work.address /\ work'.task = work.task
          /\ work.p \in D /\ work.op \in {"free", "recycle"}
          /\ chunks' = Without(work.p, from)
      BY <1>1, <1>6, <2>2 DEF GiveBack, Calls
    <3>2. from \in Nat /\ (from \in D => chunks[from].next = work.p)
      BY <1>1, <3>1 DEF HeapInv, WalkSound, Calls, Null
    <3>3. DOMAIN chunks' = D \ {work.p}
          /\ \A a \in D \ {work.p} : chunks'[a].size = chunks[a].size /\ chunks'[a].magic = chunks[a].magic
      BY <3>1 DEF Without, HeapInv, HeapTypeOK
    <3>4. SUFFICES ASSUME NEW a \in D \ {work.p}, Doomed(a)' PROVE a \in Ahead'
      BY <3>3 DEF Remaining
    <3>5. Doomed(a) BY <3>1, <3>3, <3>4 DEF Doomed, Holds
    <3>6. a \in Listed(work.p) BY <2>2, <3>1, <3>5 DEF Remaining, Ahead
    <3>. HIDE DEF from
    <3>7. a \in Linked(chunks', work'.p) BY <3>1, <3>2, <3>4, <3>6, LinkedWithout
    <3>. QED BY <1>4, <3>7
  <2>. QED BY <2>1, <2>2
<1>7. CASE EndOfList
  <2>1. CASE work.list # "dlist" BY <1>2, <1>3, <1>7, <2>1 DEF EndOfList
  <2>2. CASE work.list = "dlist"
    <3>1. /\ work'.p = slist /\ work'.op = work.op /\ work.p = Null
          /\ work'.address = work.address /\ work'.task = work.task
          /\ chunks' = chunks /\ slist' = slist /\ work.op \in {"free", "recycle"}
      BY <1>1, <1>7, <2>2 DEF EndOfList, Calls
    <3>2. work.op = "free" BY <2>2, <3>1 DEF KindInv
    <3>3. SUFFICES ASSUME NEW a \in D, Doomed(a)' PROVE a \in Ahead'
      BY <3>1 DEF Remaining
    <3>4. Doomed(a) BY <3>1, <3>3 DEF Doomed, Holds
    <3>5. a \in Listed(slist) BY <2>2, <3>1, <3>2, <3>4, ListedFromNull DEF Remaining, Ahead
    <3>. QED BY <1>4, <3>1, <3>5
  <2>. QED BY <2>1, <2>2
<1>8. ASSUME NEW t \in Tasks, Recycle(t) PROVE Remaining'
  <2>1. work'.p = slist /\ work'.op = "recycle" /\ work'.task = t /\ chunks' = chunks /\ slist' = slist
    BY <1>8 DEF Recycle, Idle
  <2>2. SUFFICES ASSUME NEW a \in D, Doomed(a)' PROVE a \in Ahead'
    BY <2>1 DEF Remaining
  <2>3. chunks[a].magic # NoTask BY <2>1, <2>2, HeapAssumption DEF Doomed
  <2>4. a \in Listed(slist) BY <2>3, ListedByKind
  <2>. QED BY <1>4, <2>1, <2>4
<1>9. ASSUME NEW address \in Cells, Free(address) PROVE Remaining'
  <2>1. work'.p = dlist /\ work'.op = "free" /\ work'.list = "dlist" /\ chunks' = chunks /\ slist' = slist
    BY <1>9 DEF Free, Idle
  <2>2. D = Listed(slist) \cup Listed(dlist) BY ListedByKind
  <2>. QED BY <1>4, <2>1, <2>2 DEF Remaining
<1>10. CASE Count \/ Grant \/ Refuse \/ Empty \/ Sinit \/ Dinit
       \/ (\E t \in Tasks, n \in Requests, zero \in BOOLEAN : Salloc(t, n, zero))
       \/ (\E n \in Requests, zero \in BOOLEAN : Dalloc(n, zero))
  <2>. USE DEF Allocs
  <2>1. work = Idle => work'.op \in {"salloc", "dalloc", "sinit", "dinit"}
    BY <1>10 DEF Count, Grant, Refuse, Empty, Sinit, Dinit, Salloc, Dalloc, CallAlloc, Idle
  <2>2. CASE work = Idle BY <1>3, <2>1, <2>2
  <2>3. CASE work # Idle
    <3>1. CASE Count BY <1>1, <3>1, <1>3 DEF Count, Calls
    <3>2. CASE Grant \/ Refuse BY <3>2, <1>2, <1>3 DEF Grant, Refuse
    <3>3. CASE Empty BY <3>3, <1>2, <1>3 DEF Empty
    <3>. QED BY <1>10, <2>3, <3>1, <3>2, <3>3 DEF Sinit, Dinit, Salloc, Dalloc, CallAlloc
  <2>. QED BY <2>2, <2>3
<1>11. ASSUME NEW dst \in Cells, NEW size \in Requests, Write(dst, size) PROVE Remaining'
  BY <1>2, <1>3, <1>11 DEF Write
<1>12. CASE UNCHANGED vars BY <1>12 DEF vars, Remaining, Doomed, Holds, Ahead, Listed
<1>. QED
  BY <1>5, <1>6, <1>7, <1>8, <1>9, <1>10, <1>11, <1>12 DEF Next, Step

-----------------------------------------------------------------------------
(* What Held has of a block.                                                   *)
BlockAt(mem, a) == [at |-> a, size |-> mem[a].size, owner |-> mem[a].magic]

(* When no block is lost, the blocks held are those not about to go.           *)
LEMMA HeldIs ==
  HeapInv => Held = {BlockAt(chunks, a) : a \in {p \in DOMAIN chunks : ~Doomed(p)}}
BY Reached DEF HeapInv, NoneLost, Held, BlockAt

(* A step that gives back what is to go, or nothing, takes none of the others. *)
LEMMA HeldSame ==
  ASSUME HeapInv, HeapInv',
         \A a \in DOMAIN chunks' :
           /\ a \in DOMAIN chunks
           /\ chunks'[a].size = chunks[a].size /\ chunks'[a].magic = chunks[a].magic
           /\ Doomed(a)' <=> Doomed(a),
         \A a \in DOMAIN chunks : a \in DOMAIN chunks' \/ Doomed(a)
  PROVE  UNCHANGED Held
<1>1. Held = {BlockAt(chunks, a) : a \in {p \in DOMAIN chunks : ~Doomed(p)}} BY HeldIs
<1>2. Held' = {BlockAt(chunks', a) : a \in {p \in DOMAIN chunks' : ~Doomed(p)'}}
  <2>1. (Held = {BlockAt(chunks, a) : a \in {p \in DOMAIN chunks : ~Doomed(p)}})' BY HeldIs, PTL
  <2>. QED BY <2>1
<1>3. {p \in DOMAIN chunks' : ~Doomed(p)'} = {p \in DOMAIN chunks : ~Doomed(p)} OBVIOUS
<1>4. \A a \in {p \in DOMAIN chunks' : ~Doomed(p)'} : BlockAt(chunks', a) = BlockAt(chunks, a)
  BY DEF BlockAt
<1>. QED BY <1>1, <1>2, <1>3, <1>4

(* A step in which the blocks and the call stay, but for how far it has come.  *)
LEMMA WalkOn ==
  ASSUME HeapInv, HeapInv', chunks' = chunks,
         work'.op = work.op \/ {work.op, work'.op} \subseteq Allocs \cup {"none"},
         work'.task = work.task \/ {work.op, work'.op} \subseteq Allocs \cup {"none"},
         work'.address = work.address \/ {work.op, work'.op} \subseteq Allocs \cup {"none"},
         work.op = "none" => work = Idle, work'.op = "none" => work' = Idle
  PROVE  UNCHANGED <<Held, GivingBack>>
<1>1. UNCHANGED GivingBack BY DEF GivingBack, Allocs, Idle
<1>2. \A a \in DOMAIN chunks : Doomed(a)' <=> Doomed(a)
  BY DEF Doomed, Holds, Allocs
<1>. QED BY <1>1, <1>2, HeldSame

(* The end of a call that gives back: there is nothing left to give back.      *)
LEMMA Returns ==
  ASSUME HeapInv, HeapInv', work.op \in {"free", "recycle", "sinit", "dinit"}, work' = Idle,
         \A a \in DOMAIN chunks' :
           /\ a \in DOMAIN chunks /\ ~Doomed(a)
           /\ chunks'[a].size = chunks[a].size /\ chunks'[a].magic = chunks[a].magic,
         \A a \in DOMAIN chunks : a \in DOMAIN chunks' \/ Doomed(a)
  PROVE  Promise!Return
<1>1. GivingBack.op # "none" /\ GivingBack'.op = "none" BY DEF GivingBack, Allocs, Idle
<1>2. \A a \in DOMAIN chunks' : ~Doomed(a)' BY DEF Doomed, Idle
<1>3. UNCHANGED Held BY <1>2, HeldSame
<1>. QED BY <1>1, <1>3 DEF Promise!Return

(* A call that gives back: what it is to give back is no longer held.          *)
LEMMA Begins ==
  ASSUME HeapInv, HeapInv', chunks' = chunks, work = Idle,
         work'.op \in {"free", "recycle", "sinit", "dinit"},
         work'.op = "recycle" => work'.task \in Tasks, work'.address \in Nat
  PROVE  Promise!GiveBack
<1>1. GivingBack.op = "none"
      /\ GivingBack' = [op |-> work'.op, task |-> work'.task, address |-> work'.address]
  BY DEF GivingBack, Allocs, Idle
<1>2. Held = {BlockAt(chunks, a) : a \in DOMAIN chunks}
  <2>1. \A a \in DOMAIN chunks : ~Doomed(a) BY DEF Doomed, Idle
  <2>. QED BY <2>1, HeldIs
<1>3. Held' = {BlockAt(chunks, a) : a \in {p \in DOMAIN chunks : ~Doomed(p)'}}
  <2>1. (Held = {BlockAt(chunks, a) : a \in {p \in DOMAIN chunks : ~Doomed(p)}})' BY HeldIs, PTL
  <2>. QED BY <2>1
<1>4. ASSUME NEW a \in DOMAIN chunks
      PROVE  Doomed(a)' <=> BlockAt(chunks, a) \in Promise!Given(GivingBack')
  <2>1. a \in Nat /\ Header \in Nat /\ chunks[a].size \in Nat /\ chunks[a].magic \in Owners
    BY HeapAssumption DEF HeapInv, HeapTypeOK, Cells
  <2>2. work'.address \in Promise!Payload(BlockAt(chunks, a)) <=> Holds(a, work'.address)
    BY <2>1 DEF Promise!Payload, BlockAt, Holds
  <2>3. BlockAt(chunks, a) \in Held BY <1>2
  <2>4. BlockAt(chunks, a).owner = chunks[a].magic BY DEF BlockAt
  <2>5. CASE work'.op = "free"
    BY <1>1, <2>2, <2>3, <2>5 DEF Promise!Given, Doomed, Holds
  <2>6. CASE work'.op = "recycle" BY <1>1, <2>3, <2>4, <2>6 DEF Promise!Given, Doomed
  <2>7. CASE work'.op = "sinit"
    BY <1>1, <2>1, <2>3, <2>4, <2>7, HeapAssumption DEF Promise!Given, Doomed, Owners
  <2>8. CASE work'.op = "dinit" BY <1>1, <2>3, <2>4, <2>8 DEF Promise!Given, Doomed
  <2>. QED BY <2>5, <2>6, <2>7, <2>8
<1>5. Held' = Held \ Promise!Given(GivingBack')
  <2>1. \A a, b \in DOMAIN chunks : BlockAt(chunks, a) = BlockAt(chunks, b) => a = b
    BY DEF BlockAt
  <2>. QED BY <1>2, <1>3, <1>4, <2>1
<1>. QED BY <1>1, <1>5 DEF Promise!GiveBack

(* A block that is granted shares no cell with one that is held.               *)
LEMMA Grants ==
  ASSUME HeapInv, HeapInv', Grant
  PROVE  Promise!Grant
<1>1. PICK at \in Fresh(Length(work.size)) :
        chunks' = [a \in DOMAIN chunks \cup {at} |->
            IF a = at THEN [size |-> work.size, magic |-> work.task,
                            next |-> IF work.op = "salloc" THEN slist ELSE dlist]
            ELSE chunks[a]]
  BY DEF Grant
<1>2. work.op \in Allocs /\ work' = Idle /\ at \in Nat /\ at \in Cells
  BY <1>1, HeapAssumption DEF Grant, Fresh, Cells
<1>3. GivingBack.op = "none" /\ UNCHANGED GivingBack
  BY <1>2 DEF GivingBack, Allocs, Idle
<1>4. /\ work.size \in Requests /\ work.size \in Nat /\ work.task \in Owners /\ Header \in Nat \ {0}
      /\ Length(work.size) = work.size + Header
      /\ \A a \in DOMAIN chunks :
           /\ a \in Nat /\ chunks[a].size \in Nat
           /\ Length(chunks[a].size) = chunks[a].size + Header
  <2>1. work.size \in Requests /\ work.task \in Owners BY <1>2 DEF HeapInv, HeapTypeOK, Calls
  <2>2. \A n \in Requests : n \in Nat /\ Length(n) = n + Header
    BY HeapAssumption DEF Length
  <2>3. \A a \in DOMAIN chunks : a \in Nat /\ chunks[a].size \in Requests
    BY DEF HeapInv, HeapTypeOK, Cells
  <2>. QED BY <2>1, <2>2, <2>3, HeapAssumption
<1>5. /\ at + (work.size + Header) - 1 <= Memory
      /\ \A a \in DOMAIN chunks :
           at + (work.size + Header) <= a \/ a + (chunks[a].size + Header) <= at
  BY <1>1, <1>4 DEF Fresh
<1>6. at \notin DOMAIN chunks BY <1>2, <1>4, <1>5
<1>. DEFINE b == [at |-> at, size |-> work.size, owner |-> work.task]
<1>7. Held = {BlockAt(chunks, a) : a \in DOMAIN chunks}
  <2>1. \A a \in DOMAIN chunks : ~Doomed(a) BY <1>2 DEF Doomed, Allocs
  <2>. QED BY <2>1, HeldIs
<1>8. Held' = {BlockAt(chunks', a) : a \in DOMAIN chunks'}
  <2>1. (Held = {BlockAt(chunks, a) : a \in {p \in DOMAIN chunks : ~Doomed(p)}})' BY HeldIs, PTL
  <2>2. \A a \in DOMAIN chunks' : ~Doomed(a)' BY <1>2 DEF Doomed, Idle
  <2>. QED BY <2>1, <2>2
<1>9. Held' = Held \cup {b} /\ b \notin Held
  <2>1. DOMAIN chunks' = DOMAIN chunks \cup {at} BY <1>1
  <2>2. BlockAt(chunks', at) = b BY <1>1 DEF BlockAt
  <2>3. \A a \in DOMAIN chunks : BlockAt(chunks', a) = BlockAt(chunks, a) /\ BlockAt(chunks, a) # b
    BY <1>1, <1>6 DEF BlockAt
  <2>. QED BY <1>7, <1>8, <2>1, <2>2, <2>3
<1>10. b \in Promise!Blocks /\ Promise!CellsOf(b) \subseteq Promise!Cells
  BY <1>2, <1>4, <1>5, HeapAssumption
  DEF Promise!Blocks, Promise!CellsOf, Promise!Cells, Owners, Cells
<1>11. \A c \in Held : Promise!CellsOf(b) \cap Promise!CellsOf(c) = {}
  <2>1. SUFFICES ASSUME NEW a \in DOMAIN chunks
                 PROVE  Promise!CellsOf(b) \cap Promise!CellsOf(BlockAt(chunks, a)) = {}
    BY <1>7
  <2>. QED BY <1>2, <1>4, <1>5 DEF Promise!CellsOf, BlockAt
<1>12. b \in Held' \ Held BY <1>9
<1>. HIDE DEF b
<1>. QED BY <1>3, <1>9, <1>10, <1>11, <1>12 DEF Promise!Grant

\* what has to hold of a call for its steps to be those of the promise
PromiseInv == HeapInv /\ KindInv /\ Remaining

\* What the promise needs holds in an empty memory.
LEMMA PromiseInvInit == Init => PromiseInv
BY HeapInvInit DEF PromiseInv, KindInv, Remaining, Init, Idle, Allocs

\* What the promise needs is preserved.
LEMMA PromiseInvStep == PromiseInv /\ [Next]_vars => PromiseInv'
BY HeapInvStep, KindStep, RemainingStep DEF PromiseInv

(* Every step is one of the promise, or none.                                  *)
LEMMA StepsPromise ==
  ASSUME PromiseInv, [Next]_vars
  PROVE  [Promise!Next]_<<Held, GivingBack>>
<1>. DEFINE D == DOMAIN chunks
            Goal == [Promise!Next]_<<Held, GivingBack>>
<1>1. /\ HeapInv /\ KindInv /\ Remaining /\ HeapInv'
      /\ work \in Calls /\ work.p \in D \cup {Null} /\ Null \notin D
      /\ slist \in D \cup {Null} /\ dlist \in D \cup {Null}
  BY HeapInvStep DEF PromiseInv, HeapInv, HeapTypeOK, WalkSound, LinksSound, Cells, Null
<1>2. Idle.op = "none" BY DEF Idle
<1>3. work.op = "none" \/ work.op \in Allocs \/ work.op \in {"free", "recycle", "sinit", "dinit"}
  BY <1>1 DEF Calls, Allocs
<1>4. CASE Count \/ Pass
  <2>1. chunks' = chunks /\ work'.op = work.op /\ work'.task = work.task
        /\ work'.address = work.address /\ work.op # "none"
    BY <1>1, <1>4 DEF Count, Pass, Calls, Allocs
  <2>. QED BY <1>1, <2>1, WalkOn
<1>5. CASE GiveBack
  <2>. DEFINE from == IF work.p # HeadOf(work.list) THEN work.previous ELSE Null
  <2>1. /\ chunks' = Without(work.p, from) /\ work.p \in D
        /\ work.op \in {"free", "recycle"} /\ Wanted
    BY <1>1, <1>5 DEF GiveBack
  <2>2. DOMAIN chunks' = D \ {work.p}
        /\ \A a \in D \ {work.p} : chunks'[a].size = chunks[a].size /\ chunks'[a].magic = chunks[a].magic
    BY <1>1, <2>1 DEF Without, HeapInv, HeapTypeOK
  <2>3. Doomed(work.p) BY <1>1, <2>1 DEF Wanted, Doomed, KindInv
  <2>. HIDE DEF from
  <2>4. CASE work.list = "dlist"
    <3>1. work' = Idle BY <1>5, <2>4 DEF GiveBack
    <3>2. work.op = "free" BY <1>1, <2>1, <2>4 DEF KindInv
    <3>3. ASSUME NEW a \in D \ {work.p} PROVE ~Doomed(a)
      <4>1. Holds(work.p, work.address) BY <2>3, <3>2 DEF Doomed
      <4>2. \/ a + Header + chunks[a].size <= work.p
            \/ work.p + Header + chunks[work.p].size <= a
        BY <1>1, <2>1 DEF HeapInv, Apart
      <4>3. /\ a \in Nat /\ work.p \in Nat /\ Header \in Nat /\ work.address \in Nat
            /\ chunks[a].size \in Nat /\ chunks[work.p].size \in Nat
        BY <1>1, <2>1, HeapAssumption DEF HeapInv, HeapTypeOK, Calls, Cells
      <4>. QED BY <3>2, <4>1, <4>2, <4>3 DEF Doomed, Holds
    <3>4. Promise!Return BY <1>1, <2>1, <2>2, <2>3, <3>1, <3>3, Returns
    <3>. QED BY <3>4 DEF Promise!Next
  <2>5. CASE work.list # "dlist"
    <3>1. work'.op = work.op /\ work'.task = work.task /\ work'.address = work.address
      BY <1>1, <1>5, <2>5 DEF GiveBack, Calls
    <3>2. UNCHANGED GivingBack BY <3>1 DEF GivingBack
    <3>3. \A a \in DOMAIN chunks' : Doomed(a)' <=> Doomed(a)
      BY <2>2, <3>1 DEF Doomed, Holds
    <3>4. UNCHANGED Held BY <1>1, <2>2, <2>3, <3>3, HeldSame
    <3>. QED BY <3>2, <3>4
  <2>. QED BY <2>4, <2>5
<1>6. CASE EndOfList
  <2>1. work.op \in {"free", "recycle"} /\ chunks' = chunks /\ work.p = Null
    BY <1>6 DEF EndOfList
  <2>2. CASE work.list = "dlist"
    <3>1. work'.op = work.op /\ work'.task = work.task /\ work'.address = work.address
      BY <1>1, <1>6, <2>2 DEF EndOfList, Calls
    <3>. QED BY <1>1, <2>1, <3>1, WalkOn
  <2>3. CASE work.list # "dlist"
    <3>1. work' = Idle BY <1>6, <2>3 DEF EndOfList
    <3>2. \A a \in D : ~Doomed(a)
      BY <1>1, <2>1, <2>3, ListedFromNull DEF Remaining, Ahead
    <3>3. Promise!Return BY <1>1, <2>1, <3>1, <3>2, Returns
    <3>. QED BY <3>3 DEF Promise!Next
  <2>. QED BY <2>2, <2>3
<1>7. CASE Empty
  <2>. DEFINE head == HeadOf(work.list)
  <2>1. work.op \in {"sinit", "dinit"} /\ work.list \in {"slist", "dlist"} BY <1>1, <1>7 DEF Empty, Calls
  <2>2. \A a \in D : Doomed(a) <=> a \in Listed(head)
    BY <1>1, <2>1, ListedByKind DEF Doomed, KindInv, HeadOf
  <2>3. CASE head = Null
    <3>1. work' = Idle /\ chunks' = chunks BY <1>7, <2>3 DEF Empty
    <3>2. \A a \in D : ~Doomed(a) BY <2>2, <2>3, ListedFromNull
    <3>3. Promise!Return BY <1>1, <2>1, <3>1, <3>2, Returns
    <3>. QED BY <3>3 DEF Promise!Next
  <2>4. CASE head # Null
    <3>1. head \in D BY <1>1, <2>4 DEF HeadOf
    <3>2. chunks' = Without(head, Null) /\ work' = work BY <1>7, <2>4 DEF Empty
    <3>3. DOMAIN chunks' = D \ {head}
          /\ \A a \in D \ {head} : chunks'[a].size = chunks[a].size /\ chunks'[a].magic = chunks[a].magic
      BY <1>1, <3>2 DEF Without, HeapInv, HeapTypeOK
    <3>4. Doomed(head) BY <1>1, <2>2, <3>1, ListedFromBlock
    <3>5. \A a \in DOMAIN chunks' : Doomed(a)' <=> Doomed(a)
      BY <3>2, <3>3 DEF Doomed, Holds
    <3>. HIDE DEF head
    <3>6. UNCHANGED Held BY <1>1, <3>3, <3>4, <3>5, HeldSame
    <3>. QED BY <3>2, <3>6 DEF GivingBack
  <2>. QED BY <2>3, <2>4
<1>8. CASE Grant BY <1>1, <1>8, Grants DEF Promise!Next
<1>9. CASE Refuse
  <2>1. chunks' = chunks /\ work.op \in Allocs /\ work' = Idle BY <1>9 DEF Refuse
  <2>2. work.op # "none" BY <2>1 DEF Allocs
  <2>. QED BY <1>1, <1>2, <2>1, <2>2, WalkOn
<1>10. ASSUME NEW op \in Allocs, NEW t \in Owners, NEW n \in Requests, NEW zero \in BOOLEAN,
              CallAlloc(op, t, n, zero)
       PROVE  Goal
  <2>1. chunks' = chunks /\ work = Idle /\ work'.op = op /\ op # "none"
    BY <1>10 DEF CallAlloc, Idle, Allocs
  <2>. QED BY <1>1, <1>2, <2>1, WalkOn
<1>11. ASSUME NEW t \in Tasks, NEW n \in Requests, NEW zero \in BOOLEAN, Salloc(t, n, zero)
       PROVE  Goal
  BY <1>10, <1>11 DEF Salloc, Allocs, Owners
<1>12. ASSUME NEW n \in Requests, NEW zero \in BOOLEAN, Dalloc(n, zero)
       PROVE  Goal
  BY <1>10, <1>12 DEF Dalloc, Allocs, Owners
<1>13. ASSUME NEW t \in Tasks, Recycle(t) PROVE Goal
  <2>1. chunks' = chunks /\ work = Idle /\ work'.op = "recycle" /\ work'.task = t /\ work'.address = Null
    BY <1>13 DEF Recycle, Idle
  <2>2. Promise!GiveBack BY <1>1, <2>1, Begins DEF Null
  <2>. QED BY <2>2 DEF Promise!Next
<1>14. ASSUME NEW address \in Cells, Free(address) PROVE Goal
  <2>1. chunks' = chunks /\ work = Idle /\ work'.op = "free" /\ work'.address = address
    BY <1>14 DEF Free, Idle
  <2>2. address \in Nat BY HeapAssumption DEF Cells
  <2>3. Promise!GiveBack BY <1>1, <2>1, <2>2, Begins
  <2>. QED BY <2>3 DEF Promise!Next
<1>15. CASE Sinit \/ Dinit
  <2>1. chunks' = chunks /\ work = Idle /\ work'.op \in {"sinit", "dinit"} /\ work'.address = Null
    BY <1>15 DEF Sinit, Dinit, Idle
  <2>2. Promise!GiveBack BY <1>1, <2>1, Begins DEF Null
  <2>. QED BY <2>2 DEF Promise!Next
<1>16. ASSUME NEW dst \in Cells, NEW size \in Requests, Write(dst, size) PROVE Goal
  <2>1. chunks' = chunks BY <1>1, <1>16, WriteMeetsNoHeader
  <2>2. work = Idle /\ work' = Idle BY <1>16 DEF Write
  <2>. QED BY <1>1, <2>1, <2>2, WalkOn
<1>17. CASE UNCHANGED vars
  <2>1. chunks' = chunks /\ work' = work BY <1>17 DEF vars
  <2>2. UNCHANGED GivingBack BY <2>1 DEF GivingBack
  <2>3. \A a \in DOMAIN chunks' : Doomed(a)' <=> Doomed(a) BY <2>1 DEF Doomed, Holds
  <2>4. UNCHANGED Held BY <1>1, <2>1, <2>3, HeldSame
  <2>. QED BY <2>2, <2>4
<1>. HIDE DEF Goal
<1>18. Goal
  BY <1>4, <1>5, <1>6, <1>7, <1>8, <1>9, <1>11, <1>12, <1>13, <1>14, <1>15, <1>16, <1>17
  DEF Next, Step, Goal
<1>. QED BY <1>18 DEF Goal

(* The heap keeps its promise to its callers: what is granted is apart from    *)
(* everything held, and goes all at once, by its holder's call and no other.   *)
THEOREM HeapKeepsPromise == Spec => KeepsPromise
<1>1. Init => Promise!Init
  <2>1. SUFFICES ASSUME Init PROVE Promise!Init OBVIOUS
  <2>2. Held = {}
    <3>1. DOMAIN chunks = {} BY <2>1 DEF Init
    <3>2. HeapInv BY <2>1, HeapInvInit
    <3>. QED BY <3>1, <3>2, HeldIs
  <2>. QED BY <2>1, <2>2 DEF Init, Promise!Init, GivingBack, Idle, Allocs
<1>2. PromiseInv /\ [Next]_vars => [Promise!Next]_<<Held, GivingBack>> BY StepsPromise
<1>. QED BY <1>1, <1>2, PromiseInvInit, PromiseInvStep, PTL DEF Spec, KeepsPromise, Promise!Spec

-----------------------------------------------------------------------------
Quota(t) == IF t = NoTask THEN ShortQuota ELSE TaskQuota

\* A quota that is kept, said with the sum.
LEMMA QuotaKeptIs == QuotaKept <=> \A t \in Owners : SizeOf(OfTask(t)) <= Quota(t)
BY HeapAssumption DEF QuotaKept, Quota, OfTask, Owners

(* the sizes of any blocks can be added up                                     *)
LEMMA Addable ==
  ASSUME HeapInv, NEW S \in SUBSET DOMAIN chunks
  PROVE  IsFiniteSet(S) /\ \A a \in S : chunks[a].size \in Nat
<1>1. IsFiniteSet(Cells) /\ S \subseteq Cells
  <2>1. IsFiniteSet(1 .. Memory) BY FS_Interval, HeapAssumption
  <2>. QED BY <2>1 DEF HeapInv, HeapTypeOK, Cells
<1>2. \A a \in S : chunks[a].size \in Nat
  BY HeapAssumption DEF HeapInv, HeapTypeOK
<1>. QED BY <1>1, <1>2, FS_Subset

(* The sum the loop has so far does not wrap, nor would the sum with what is   *)
(* asked for.                                                                  *)
LEMMA SumIsSmall ==
  ASSUME HeapInv, CountInv, QuotaKept, work.op \in Allocs
  PROVE  /\ SizeOf(OfTask(work.task)) \in Nat
         /\ SizeOf(OfTask(work.task)) <= Quota(work.task)
         /\ Quota(work.task) \in Nat /\ Quota(work.task) < Word
         /\ work.size \in Nat /\ work.size + Quota(work.task) < Word
<1>1. work.task \in Owners /\ work.size \in Requests BY DEF HeapInv, HeapTypeOK, Calls
<1>2. SizeOf(OfTask(work.task)) <= Quota(work.task) BY <1>1, QuotaKeptIs
<1>3. /\ work.size \in Nat /\ Quota(work.task) \in Nat /\ Word \in Nat
      /\ work.size + Quota(work.task) < Word
  BY <1>1, HeapAssumption DEF Quota
<1>4. SizeOf(OfTask(work.task)) \in Nat
  <2>1. OfTask(work.task) \in SUBSET DOMAIN chunks BY DEF OfTask
  <2>2. IsFiniteSet(OfTask(work.task)) /\ \A a \in OfTask(work.task) : chunks[a].size \in Nat
    BY <2>1, Addable
  <2>. QED BY <2>2, TotalIsNatural DEF SizeOf
<1>. QED BY <1>2, <1>3, <1>4

\* The sum of a count that is under way stays the one of the blocks it has met.
LEMMA CountStep ==
  ASSUME HeapInv, KindInv, CountInv, QuotaKept, [Next]_vars
  PROVE  CountInv'
<1>. DEFINE D == DOMAIN chunks
            Of(t) == {a \in DOMAIN chunks' : chunks'[a].magic = t}
<1>1. /\ work \in Calls /\ work.p \in D \cup {Null} /\ Null \notin D
      /\ work.op \in Allocs => (work.task = NoTask <=> work.op = "dalloc")
  BY DEF HeapInv, HeapTypeOK, WalkSound, LinksSound, Cells, Null
<1>2. Idle.op = "none" BY DEF Idle
<1>3. ASSUME work'.op \notin Allocs PROVE CountInv'
  BY <1>3 DEF CountInv
<1>4. CountInv' <=> (work'.op \in Allocs =>
         work'.sum + Total(chunks', Of(work'.task) \cap Linked(chunks', work'.p))
           = Total(chunks', Of(work'.task)))
  BY DEF CountInv, SizeOf, OfTask, Listed, Linked
<1>5. /\ \A t : OfTask(t) = {a \in D : chunks[a].magic = t}
      /\ \A head : Listed(head) = Linked(chunks, head)
      /\ \A S : SizeOf(S) = Total(chunks, S)
  BY DEF OfTask, Listed, Linked, SizeOf
<1>6. ASSUME NEW op \in Allocs, NEW t \in Owners, NEW n \in Requests, NEW zero \in BOOLEAN,
             CallAlloc(op, t, n, zero), t = NoTask <=> op = "dalloc"
      PROVE  CountInv'
  <2>1. /\ chunks' = chunks /\ work'.sum = 0 /\ work'.task = t
        /\ work'.p = IF op = "salloc" THEN slist ELSE dlist
    BY <1>6 DEF CallAlloc, Idle
  <2>2. OfTask(t) \subseteq Listed(work'.p)
    BY <1>5, <1>6, <2>1, ListedByKind DEF Allocs
  <2>3. Of(t) \cap Linked(chunks', work'.p) = Of(t) /\ Of(t) = OfTask(t)
    BY <1>5, <2>1, <2>2
  <2>4. Total(chunks', Of(t)) \in Nat
    <3>1. OfTask(t) \in SUBSET D BY <1>5
    <3>2. IsFiniteSet(OfTask(t)) /\ \A a \in OfTask(t) : chunks[a].size \in Nat
      BY <3>1, Addable
    <3>. QED BY <2>1, <2>3, <3>2, TotalIsNatural
  <2>. HIDE DEF Of
  <2>. QED BY <1>4, <2>1, <2>3, <2>4
<1>7. ASSUME NEW t \in Tasks, NEW n \in Requests, NEW zero \in BOOLEAN, Salloc(t, n, zero)
      PROVE  CountInv'
  BY <1>6, <1>7, HeapAssumption DEF Salloc, Allocs, Owners
<1>8. ASSUME NEW n \in Requests, NEW zero \in BOOLEAN, Dalloc(n, zero)
      PROVE  CountInv'
  BY <1>6, <1>8 DEF Dalloc, Allocs, Owners
<1>9. CASE Count
  <2>. DEFINE p == work.p
              t == work.task
              next == chunks[p].next
              size == chunks[p].size
              A == OfTask(t) \cap Listed(p)
              B == OfTask(t) \cap Listed(next)
  <2>1. /\ work.op \in Allocs /\ p \in D /\ chunks' = chunks
        /\ work'.p = next /\ work'.task = t
        /\ work'.sum = IF work.op = "dalloc" \/ chunks[p].magic = t
                         THEN (work.sum + size) % Word ELSE work.sum
    BY <1>1, <1>9 DEF Count, Calls
  <2>2. work.op = "dalloc" => chunks[p].magic = t
    BY <1>1, <2>1 DEF KindInv, Null
  <2>3. Listed(p) = {p} \cup Listed(next) /\ p \notin Listed(next)
    BY <2>1, ListedFromBlock
  <2>4. work.sum + SizeOf(A) = SizeOf(OfTask(t)) BY <2>1 DEF CountInv
  <2>5. IsFiniteSet(A) /\ IsFiniteSet(B) /\ \A a \in A \cup B \cup {p} : chunks[a].size \in Nat
    <3>1. A \in SUBSET D /\ B \in SUBSET D /\ {p} \in SUBSET D BY <1>5, <2>1
    <3>. HIDE DEF A, B, p
    <3>. QED BY <3>1, Addable
  <2>6. work.sum \in Nat BY <1>1 DEF Calls
  <2>7. SizeOf(B) \in Nat
    <3>. HIDE DEF B
    <3>. QED BY <1>5, <2>5, TotalIsNatural
  <2>8. work'.sum + SizeOf(B) = SizeOf(OfTask(t))
    <3>1. CASE chunks[p].magic = t
      <4>1. p \in A /\ A \ {p} = B BY <1>5, <2>1, <2>3, <3>1
      <4>2. SizeOf(A) = size + SizeOf(B)
        <5>. HIDE DEF A, B, p
        <5>. QED BY <1>5, <2>5, <4>1, TotalOfMore
      <4>3. work.sum + size < Word /\ size \in Nat /\ Word \in Nat
        <5>1. /\ SizeOf(OfTask(t)) \in Nat /\ SizeOf(OfTask(t)) <= Quota(t)
              /\ Quota(t) \in Nat /\ Quota(t) < Word
          BY <2>1, SumIsSmall
        <5>2. size \in Nat /\ Word \in Nat BY <2>5, HeapAssumption
        <5>. HIDE DEF A, B, p, size, t
        <5>. QED BY <2>4, <2>6, <2>7, <4>2, <5>1, <5>2
      <4>4. (work.sum + size) % Word = work.sum + size
        <5>. HIDE DEF size
        <5>. QED BY <2>6, <4>3
      <4>5. work'.sum = work.sum + size BY <2>1, <3>1, <4>4
      <4>. HIDE DEF A, B, size, t
      <4>. QED BY <2>4, <2>6, <2>7, <4>2, <4>3, <4>5
    <3>2. CASE chunks[p].magic # t
      <4>1. A = B BY <1>5, <2>3, <3>2
      <4>2. work'.sum = work.sum BY <2>1, <2>2, <3>2
      <4>. HIDE DEF A, B
      <4>. QED BY <2>4, <4>1, <4>2
    <3>. QED BY <3>1, <3>2
  <2>9. Of(t) = OfTask(t) /\ Of(t) \cap Linked(chunks', next) = B BY <1>5, <2>1
  <2>. HIDE DEF B, Of, t, next
  <2>. QED BY <1>4, <1>5, <2>1, <2>8, <2>9
<1>10. CASE Pass \/ GiveBack \/ EndOfList \/ Grant \/ Refuse \/ Empty \/ Sinit \/ Dinit
       \/ (\E t \in Tasks : Recycle(t)) \/ (\E address \in Cells : Free(address))
  <2>1. work'.op \notin Allocs
    BY <1>1, <1>2, <1>10 DEF Pass, GiveBack, EndOfList, Grant, Refuse, Empty, Sinit, Dinit,
      Recycle, Free, Allocs, Calls, Idle
  <2>. QED BY <1>3, <2>1
<1>11. ASSUME NEW dst \in Cells, NEW size \in Requests, Write(dst, size) PROVE CountInv'
  <2>1. work'.op \notin Allocs BY <1>2, <1>11 DEF Write, Allocs
  <2>. QED BY <1>3, <2>1
<1>12. CASE UNCHANGED vars
  BY <1>12 DEF vars, CountInv, SizeOf, OfTask, Listed
<1>. QED
  BY <1>7, <1>8, <1>9, <1>10, <1>11, <1>12 DEF Next, Step

\* Every step keeps the quotas.
LEMMA QuotaStep ==
  ASSUME HeapInv, KindInv, CountInv, QuotaKept, [Next]_vars
  PROVE  QuotaKept'
<1>. DEFINE D == DOMAIN chunks
            Of(t) == {a \in DOMAIN chunks' : chunks'[a].magic = t}
<1>1. QuotaKept' <=> \A t \in Owners : Total(chunks', Of(t)) <= Quota(t)
  BY HeapAssumption DEF QuotaKept, Quota, Owners, SizeOf
<1>2. ASSUME NEW t \in Owners
      PROVE  /\ IsFiniteSet(OfTask(t)) /\ \A a \in OfTask(t) : chunks[a].size \in Nat
             /\ Total(chunks, OfTask(t)) \in Nat
             /\ Total(chunks, OfTask(t)) <= Quota(t) /\ Quota(t) \in Nat
  <2>1. OfTask(t) \in SUBSET D BY DEF OfTask
  <2>2. IsFiniteSet(OfTask(t)) /\ \A a \in OfTask(t) : chunks[a].size \in Nat
    BY <2>1, Addable
  <2>3. Total(chunks, OfTask(t)) \in Nat BY <2>2, TotalIsNatural
  <2>4. Total(chunks, OfTask(t)) <= Quota(t) BY QuotaKeptIs DEF SizeOf
  <2>. QED BY <2>2, <2>3, <2>4, HeapAssumption DEF Quota
<1>3. CASE UNCHANGED <<chunks, slist, dlist>>
  <2>1. \A t \in Owners : Of(t) = OfTask(t) BY <1>3 DEF OfTask
  <2>. QED BY <1>1, <1>2, <1>3, <2>1
<1>4. CASE Granting
  <2>1. PICK at \in Fresh(Length(work.size)) :
          chunks' = [a \in DOMAIN chunks \cup {at} |->
            IF a = at THEN [size |-> work.size, magic |-> work.task,
                            next |-> IF work.op = "salloc" THEN slist ELSE dlist]
            ELSE chunks[a]]
    BY <1>4 DEF Granting
  <2>2. at \notin D BY <2>1, FreshIsNew, <1>4 DEF Granting
  <2>3. work.op \in Allocs /\ work.p = Null /\ Fits /\ work.task \in Owners
    BY <1>4 DEF Granting, HeapInv, HeapTypeOK, Calls
  <2>4. work.sum = Total(chunks, OfTask(work.task))
    <3>1. OfTask(work.task) \cap Listed(work.p) = {} BY <2>3, ListedFromNull
    <3>2. SizeOf({}) = 0 BY TotalOfNone DEF SizeOf
    <3>3. work.sum \in Nat BY DEF HeapInv, HeapTypeOK, Calls
    <3>. QED BY <2>3, <3>1, <3>2, <3>3 DEF CountInv, SizeOf
  <2>5. work.sum + work.size <= Quota(work.task)
    <3>1. /\ work.sum \in Nat /\ work.sum <= Quota(work.task) /\ Quota(work.task) \in Nat
          /\ work.size \in Nat /\ work.size + Quota(work.task) < Word /\ Word \in Nat
      BY <2>3, <2>4, <1>2, SumIsSmall, HeapAssumption
    <3>2. (work.sum + work.size) % Word = work.sum + work.size BY <3>1
    <3>3. work.task = NoTask <=> work.op = "dalloc" BY <2>3 DEF HeapInv, WalkSound
    <3>. QED BY <2>3, <3>2, <3>3 DEF Fits, Quota, Allocs
  <2>6. ASSUME NEW t \in Owners PROVE Total(chunks', Of(t)) <= Quota(t)
    <3>1. CASE t = work.task
      <4>1. Of(t) = OfTask(t) \cup {at} /\ at \notin OfTask(t) BY <2>1, <2>2, <3>1 DEF OfTask
      <4>2. \A a \in OfTask(t) : chunks'[a].size = chunks[a].size BY <2>1, <2>2 DEF OfTask
      <4>3. chunks'[at].size = work.size /\ work.size \in Nat
        BY <2>1, <2>3, SumIsSmall
      <4>. HIDE DEF Of
      <4>4. Total(chunks', OfTask(t)) = Total(chunks, OfTask(t))
        BY <1>2, <4>2, TotalOfSame
      <4>5. Total(chunks', Of(t)) = work.size + Total(chunks', OfTask(t))
        <5>1. IsFiniteSet(Of(t)) /\ at \in Of(t) /\ Of(t) \ {at} = OfTask(t)
          BY <1>2, <4>1, FS_AddElement
        <5>2. \A a \in Of(t) : chunks'[a].size \in Nat BY <1>2, <4>1, <4>2, <4>3
        <5>. QED BY <4>3, <5>1, <5>2, TotalOfMore
      <4>6. work.sum \in Nat BY DEF HeapInv, HeapTypeOK, Calls
      <4>. QED BY <2>4, <2>5, <3>1, <4>3, <4>4, <4>5, <4>6
    <3>2. CASE t # work.task
      <4>1. Of(t) = OfTask(t) BY <2>1, <2>2, <3>2 DEF OfTask
      <4>2. \A a \in OfTask(t) : chunks'[a].size = chunks[a].size BY <2>1, <2>2 DEF OfTask
      <4>. HIDE DEF Of
      <4>3. Total(chunks', OfTask(t)) = Total(chunks, OfTask(t))
        BY <1>2, <4>2, TotalOfSame
      <4>. QED BY <1>2, <4>1, <4>3
    <3>. QED BY <3>1, <3>2
  <2>. QED BY <1>1, <2>6
<1>5. ASSUME NEW list \in {"slist", "dlist"}, NEW p \in Nat, NEW from \in Nat,
             Removal(list, p, from)
      PROVE  QuotaKept'
  <2>1. /\ p \in D /\ DOMAIN chunks' = D \ {p}
        /\ \A a \in D \ {p} :
             chunks'[a].size = chunks[a].size /\ chunks'[a].magic = chunks[a].magic
    BY <1>5 DEF Removal, Without, HeapInv, HeapTypeOK
  <2>2. ASSUME NEW t \in Owners PROVE Total(chunks', Of(t)) <= Quota(t)
    <3>1. Of(t) = OfTask(t) \ {p} BY <2>1 DEF OfTask
    <3>2. Of(t) \in SUBSET D /\ \A a \in Of(t) : chunks'[a].size = chunks[a].size BY <2>1
    <3>. HIDE DEF Of
    <3>3. IsFiniteSet(Of(t)) /\ \A a \in Of(t) : chunks[a].size \in Nat BY <3>2, Addable
    <3>4. Total(chunks', Of(t)) = Total(chunks, Of(t)) /\ Total(chunks, Of(t)) \in Nat
      BY <3>2, <3>3, TotalOfSame, TotalIsNatural
    <3>5. CASE p \in OfTask(t)
      <4>1. Total(chunks, OfTask(t)) = chunks[p].size + Total(chunks, Of(t))
        BY <1>2, <3>1, <3>5, TotalOfMore
      <4>2. chunks[p].size \in Nat BY <1>2, <3>5
      <4>. QED BY <1>2, <3>4, <4>1, <4>2
    <3>6. CASE p \notin OfTask(t)
      <4>1. Of(t) = OfTask(t) BY <3>1, <3>6
      <4>. QED BY <1>2, <3>4, <4>1
    <3>. QED BY <3>5, <3>6
  <2>. QED BY <1>1, <2>2
<1>. QED BY <1>3, <1>4, <1>5, Steps

\* the invariant behind the quotas
QuotaInv == HeapInv /\ KindInv /\ CountInv /\ QuotaKept

(* No task ever holds more than its quota, nor the pass more than its own,     *)
(* whatever is asked for, granted and given back, and although the sums are    *)
(* taken modulo 2^32: no sum that is compared has wrapped.                     *)
THEOREM QuotasAreKept == Spec => []QuotaKept
<1>1. Init => QuotaInv
  <2>. SUFFICES ASSUME Init PROVE QuotaInv OBVIOUS
  <2>1. HeapInv BY HeapInvInit
  <2>2. KindInv /\ CountInv BY DEF KindInv, CountInv, Init, Idle, Allocs
  <2>3. \A t : OfTask(t) = {} BY DEF Init, OfTask
  <2>4. SizeOf({}) = 0 BY TotalOfNone DEF SizeOf
  <2>5. QuotaKept BY <2>3, <2>4, QuotaKeptIs, HeapAssumption DEF Quota
  <2>. QED BY <2>1, <2>2, <2>5 DEF QuotaInv
<1>2. QuotaInv /\ [Next]_vars => QuotaInv'
  BY HeapInvStep, KindStep, CountStep, QuotaStep DEF QuotaInv
<1>3. QuotaInv => QuotaKept BY DEF QuotaInv
<1>. QED BY <1>1, <1>2, <1>3, PTL DEF Spec
=============================================================================
