------------------------- MODULE AssociationsProofs -------------------------
(***************************************************************************)
(* The links and the associations, for any number of channels, sessions,   *)
(* entries, objects and blocks: MemorySound, EntryFollowsLink and          *)
(* RunsAskedUnlessLeft hold in every reachable state.                      *)
(***************************************************************************)
EXTENDS Associations, FiniteSetTheorems, SequenceTheorems, TLAPS

\* A link that is not open has no key and no buffers, and its pointer dangles only
\* after a set-up that failed half-way.
LinkShape ==
  \A c \in Channels :
    /\ Open(c) => links[c].key \in Keys /\ links[c].send \in Blocks /\ links[c].recv \in Blocks
    /\ ~Open(c) => links[c].send \in {Null, Dangling} /\ links[c].recv = Null
    /\ links[c].send = Dangling => setupFailed

\* An entry that is not used has no storage; one whose block is gone was forsaken.
SlotShape ==
  \A i \in Slots :
    /\ slots[i].at \notin Blocks => slots[i].appl = Null
    /\ slots[i].at # Null => slots[i].key \in Keys
    /\ slots[i].at = Dangling => slots[i].key \in abandoned

\* What a request leaves alive, it leaves after a list known in part.
Leftovers == \A i \in Slots : slots[i].partial \/ Live(slots[i].store) = {}

Inv ==
  /\ AssociationsTypeOK
  /\ LinkShape /\ SlotShape
  /\ MemorySound /\ EntryFollowsLink
  /\ Leftovers /\ RunsAskedUnlessLeft

Memory == OnlyThese /\ NotShared

-----------------------------------------------------------------------------
\* The storage of an association is typed after any request, and what is alive in
\* it was either named by the request or left before.
LEMMA ClearedIsEmpty == Cleared \in Storage /\ Live(Cleared) = {}
BY RequestsAssumption DEF Cleared, Storage, Live

\* A request names at most as many objects as there are entries.
LEMMA NamesAreObjects ==
  ASSUME NEW r \in Request
  PROVE  Len(r.names) \in 0 .. ListMax /\ \A i \in 1 .. Len(r.names) : r.names[i] \in Objects
<1>1. CASE r.kind \in {"normal", "first"}
  <2>1. PICK o \in Objects : r.names = <<o>>
    BY <1>1 DEF Request
  <2> QED BY <2>1, RequestsAssumption
<1>2. CASE r.kind = "next"
  <2>1. r.names = <<>>
    BY <1>2 DEF Request
  <2> QED BY <2>1, RequestsAssumption
<1>3. CASE r.kind = "list"
  <2>1. PICK n \in 1 .. ListMax : r.names \in [1 .. n -> Objects]
    BY <1>3 DEF Request
  <2>2. r.names \in Seq(Objects) /\ n \in Nat
    BY <2>1, RequestsAssumption, SeqDef
  <2>3. DOMAIN r.names = 1 .. n /\ DOMAIN r.names = 1 .. Len(r.names) /\ Len(r.names) \in Nat
    BY <2>1, <2>2, LenProperties
  <2>4. Len(r.names) = n
    BY <2>2, <2>3
  <2> QED BY <2>1, <2>4, RequestsAssumption
<1>4. r.kind \in {"normal", "first", "next", "list"}
  BY DEF Request
<1> QED BY <1>1, <1>2, <1>3, <1>4

\* Entries made anew are typed.
LEMMA MadeIsStorage ==
  ASSUME NEW s \in Storage, NEW r \in Request
  PROVE  Make(s, r) \in Storage
<1>1. CASE r.kind = "next"
  BY <1>1 DEF Make
<1>2. CASE r.kind # "next"
  <2>1. Len(r.names) \in 0 .. ListMax /\ \A i \in 1 .. Len(r.names) : r.names[i] \in Objects
    BY NamesAreObjects
  <2> QED BY <1>2, <2>1, RequestsAssumption DEF Make, MakeEntries, Storage, Load
<1> QED BY <1>1, <1>2

\* The outcomes of a request: storage of the right type; handlers of objects that
\* the request names, unless something was alive before; and nothing alive
\* afterwards, unless something was before or the list is known in part.
LEMMA OutcomesSound ==
  ASSUME NEW s \in Storage, NEW r \in Request, NEW out \in Outcomes(s, r)
  PROVE  /\ out.store \in Storage /\ out.ran \subseteq Known
         /\ Live(s) = {} => out.ran \subseteq Named(r)
         /\ (Live(s) = {} /\ ~PartlyKnown(r)) => Live(out.store) = {}
         /\ Named(r) \subseteq Objects
<1> DEFINE m == Make(s, r)
<1>1. m \in Storage
  BY MadeIsStorage
<1>2. \/ ~CannotMake(s, r) /\ out.store = Cleared /\ out.ran \subseteq {m.entry[i] : i \in Live(m)}
      \/ out.store = Cleared /\ out.ran = {}
      \/ out.store = m /\ out.ran = {} /\ ~Legal(m)
  <2>1. CASE CannotMake(s, r)
    <3> HIDE DEF m
    <3>1. out \in {[store |-> Cleared, ran |-> {}]}
      BY <2>1, Zenon DEF Outcomes, m
    <3> QED BY <3>1
  <2>2. CASE ~CannotMake(s, r) /\ ~Legal(m)
    <3> HIDE DEF m
    <3>1. out \in {[store |-> m, ran |-> {}]}
      BY <2>2, Zenon DEF Outcomes, m
    <3> QED BY <3>1, <2>2
  <2>3. CASE ~CannotMake(s, r) /\ Legal(m)
    <3> HIDE DEF m
    <3>1. out \in {[store |-> Cleared, ran |-> {}]}
             \cup {[store |-> Finish(m), ran |-> granted] : granted \in SUBSET {m.entry[i] : i \in Live(m)}}
      BY <2>3, Zenon DEF Outcomes, m
    <3> QED BY <3>1, <2>3 DEF Finish
  <2> QED BY <2>1, <2>2, <2>3
<1>3. Len(r.names) \in 0 .. ListMax /\ \A i \in 1 .. Len(r.names) : r.names[i] \in Objects
  BY NamesAreObjects
<1>4. r.kind = "next" => m = s
  BY DEF Make
<1>5. r.kind # "next" =>
        /\ m.actived = Len(r.names)
        /\ \A i \in 1 .. ListMax :
             m.entry[i] = IF i <= Len(r.names) THEN Load(r.names[i]) ELSE s.entry[i]
  BY DEF Make, MakeEntries
<1>6. ASSUME NEW i \in Live(m)
      PROVE  m.entry[i] \in Known
  BY <1>1 DEF Live, Storage
<1>7. out.store \in Storage /\ out.ran \subseteq Known
  <2> HIDE DEF m
  <2> QED BY <1>1, <1>2, <1>6, ClearedIsEmpty
<1>8. ASSUME Live(s) = {}, ~CannotMake(s, r), NEW i \in Live(m)
      PROVE  m.entry[i] \in Named(r)
  <2>1. r.kind # "next"
    BY <1>8, RequestsAssumption DEF CannotMake, Live
  <2>2. i \in 1 .. ListMax /\ m.entry[i] # NoEntry
    BY <1>8 DEF Live
  <2>3. i <= Len(r.names) /\ m.entry[i] = r.names[i]
    <3> HIDE DEF m
    <3> QED BY <2>1, <2>2, <1>5, <1>8 DEF Live, Load
  <2> QED BY <2>2, <2>3, <1>3 DEF Named
<1>9. Live(s) = {} => out.ran \subseteq Named(r)
  <2> HIDE DEF m
  <2> QED BY <1>2, <1>8
<1>10. ASSUME Live(s) = {}, ~PartlyKnown(r), ~Legal(m)
       PROVE  Live(m) = {}
  <2>1. CASE r.kind = "next"
    BY <2>1, <1>4, <1>10
  <2>2. CASE r.kind # "next" /\ Named(r) \cap Known = {}
    <3> HIDE DEF m
    <3>1. \A i \in 1 .. Len(r.names) : r.names[i] \notin Known
      BY <2>2 DEF Named
    <3>2. \A i \in 1 .. ListMax : s.entry[i] = NoEntry
      BY <1>10 DEF Live
    <3> QED BY <2>2, <3>1, <3>2, <1>3, <1>5 DEF Live, Load
  <2>3. CASE r.kind # "next" /\ Named(r) \subseteq Known
    <3> HIDE DEF m
    <3>1. \A i \in 1 .. Len(r.names) : r.names[i] \in Known
      BY <2>3 DEF Named
    <3>2. \A i \in 1 .. ListMax : s.entry[i] = NoEntry
      BY <1>10 DEF Live
    <3>3. Live(m) = 1 .. Len(r.names)
      BY <2>3, <3>1, <3>2, <1>3, <1>5, RequestsAssumption DEF Live, Load
    <3>4. Cardinality(1 .. Len(r.names)) = Len(r.names)
      BY <1>3, FS_Interval, RequestsAssumption
    <3> QED BY <2>3, <3>3, <3>4, <1>5, <1>10 DEF Legal
  <2> QED BY <2>1, <2>2, <2>3, <1>10 DEF PartlyKnown
<1>11. (Live(s) = {} /\ ~PartlyKnown(r)) => Live(out.store) = {}
  <2> HIDE DEF m
  <2> QED BY <1>2, <1>10, ClearedIsEmpty
<1>12. Named(r) \subseteq Objects
  BY <1>3 DEF Named
<1> QED BY <1>7, <1>9, <1>11, <1>12
-----------------------------------------------------------------------------
\* who holds what, block by block

LinkHas(c, b) == b \in Blocks /\ (links[c].send = b \/ links[c].recv = b)
SlotHas(i, b) == b \in Blocks /\ (slots[i].at = b \/ slots[i].appl = b)

\* Memory, said of each block.
BlockByBlock ==
  /\ heap \subseteq Blocks
  /\ \A b \in Blocks : b \in heap <=> (\E c \in Channels : LinkHas(c, b)) \/ (\E i \in Slots : SlotHas(i, b))
  /\ \A b \in Blocks, c, d \in Channels : LinkHas(c, b) /\ LinkHas(d, b) => c = d
  /\ \A b \in Blocks, i, j \in Slots : SlotHas(i, b) /\ SlotHas(j, b) => i = j
  /\ \A b \in Blocks, c \in Channels, i \in Slots : ~(LinkHas(c, b) /\ SlotHas(i, b))
  /\ \A c \in Channels : links[c].send = links[c].recv => links[c].send = Null
  /\ \A i \in Slots : slots[i].at = slots[i].appl => slots[i].at = Null

\* The two say the same.
LEMMA SameMemory == Memory <=> BlockByBlock
<1>1. \A c \in Channels : \A b : b \in LinkBlocks(c) <=> LinkHas(c, b)
  BY DEF LinkBlocks, LinkHas
<1>2. \A i \in Slots : \A b : b \in SlotBlocks(i) <=> SlotHas(i, b)
  BY DEF SlotBlocks, SlotHas
<1>3. ASSUME Memory PROVE BlockByBlock
  <2>1. \A b : b \in heap <=> (\E c \in Channels : LinkHas(c, b)) \/ (\E i \in Slots : SlotHas(i, b))
    BY <1>3, <1>1, <1>2 DEF Memory, OnlyThese
  <2>2. heap \subseteq Blocks
    BY <2>1 DEF LinkHas, SlotHas
  <2> QED BY <1>3, <1>1, <1>2, <2>1, <2>2 DEF Memory, NotShared, BlockByBlock
<1>4. ASSUME BlockByBlock PROVE Memory
  <2>1. OnlyThese
    BY <1>4, <1>1, <1>2 DEF BlockByBlock, OnlyThese, LinkHas, SlotHas
  <2>2. NotShared
    BY <1>4, <1>1, <1>2 DEF BlockByBlock, NotShared, LinkHas, SlotHas
  <2> QED BY <2>1, <2>2 DEF Memory
<1> QED BY <1>3, <1>4

\* A link that gives back its blocks and takes others that are free keeps the memory.
LEMMA LinkKeepsMemory ==
  ASSUME AssociationsTypeOK, BlockByBlock, NEW c \in Channels, NEW l \in Links,
         l.send = l.recv => l.send = Null,
         NEW new, new = {l.send, l.recv} \cap Blocks,
         new \cap (heap \ LinkBlocks(c)) = {},
         links' = [links EXCEPT ![c] = l], slots' = slots,
         heap' = (heap \ LinkBlocks(c)) \cup new
  PROVE  BlockByBlock'
<1>1. \A d \in Channels : \A b : LinkHas(d, b)' <=> IF d = c THEN b \in new ELSE LinkHas(d, b)
  BY DEF AssociationsTypeOK, LinkHas
<1>2. \A i \in Slots : \A b : SlotHas(i, b)' <=> SlotHas(i, b)
  BY DEF SlotHas
<1>3. \A b : b \in LinkBlocks(c) <=> LinkHas(c, b)
  BY DEF LinkBlocks, LinkHas
<1>4. \A b \in Blocks : b \in heap' <=> (b \in heap /\ ~LinkHas(c, b)) \/ b \in new
  BY <1>3
<1>5. \A d \in Channels : links'[d].send = links'[d].recv => links'[d].send = Null
  BY DEF AssociationsTypeOK, BlockByBlock
<1>6. heap' \subseteq Blocks
  BY DEF BlockByBlock
<1>7. \A b \in new : b \in Blocks /\ (b \in heap => LinkHas(c, b))
  BY <1>3
<1>8. \A b \in Blocks : b \in heap' <=> (\E d \in Channels : LinkHas(d, b)') \/ (\E i \in Slots : SlotHas(i, b)')
  BY <1>1, <1>2, <1>4, <1>7 DEF BlockByBlock
<1>9. \A b \in Blocks, d, e \in Channels : LinkHas(d, b)' /\ LinkHas(e, b)' => d = e
  BY <1>1, <1>7 DEF BlockByBlock
<1>10. \A b \in Blocks, d \in Channels, i \in Slots : ~(LinkHas(d, b)' /\ SlotHas(i, b)')
  BY <1>1, <1>2, <1>7 DEF BlockByBlock
<1>11. \A b \in Blocks, i, j \in Slots : SlotHas(i, b)' /\ SlotHas(j, b)' => i = j
  BY <1>2 DEF BlockByBlock
<1> QED BY <1>5, <1>6, <1>8, <1>9, <1>10, <1>11 DEF BlockByBlock

\* An entry that gives back its blocks, or some of them, and takes others that are
\* free keeps the memory.
LEMMA SlotKeepsMemory ==
  ASSUME AssociationsTypeOK, BlockByBlock, NEW i \in Slots, NEW e \in Entries,
         e.at = e.appl => e.at = Null,
         NEW new, new = {e.at, e.appl} \cap Blocks,
         new \cap (heap \ SlotBlocks(i)) = {},
         slots' = [slots EXCEPT ![i] = e], links' = links,
         heap' = (heap \ SlotBlocks(i)) \cup new
  PROVE  BlockByBlock'
<1>1. \A j \in Slots : \A b : SlotHas(j, b)' <=> IF j = i THEN b \in new ELSE SlotHas(j, b)
  BY DEF AssociationsTypeOK, SlotHas
<1>2. \A c \in Channels : \A b : LinkHas(c, b)' <=> LinkHas(c, b)
  BY DEF LinkHas
<1>3. \A b : b \in SlotBlocks(i) <=> SlotHas(i, b)
  BY DEF SlotBlocks, SlotHas
<1>4. \A b \in Blocks : b \in heap' <=> (b \in heap /\ ~SlotHas(i, b)) \/ b \in new
  BY <1>3
<1>5. \A j \in Slots : slots'[j].at = slots'[j].appl => slots'[j].at = Null
  BY DEF AssociationsTypeOK, BlockByBlock
<1>6. heap' \subseteq Blocks
  BY DEF BlockByBlock
<1>7. \A b \in new : b \in Blocks /\ (b \in heap => SlotHas(i, b))
  BY <1>3
<1>8. \A b \in Blocks : b \in heap' <=> (\E c \in Channels : LinkHas(c, b)') \/ (\E j \in Slots : SlotHas(j, b)')
  BY <1>1, <1>2, <1>4, <1>7 DEF BlockByBlock
<1>9. \A b \in Blocks, j, k \in Slots : SlotHas(j, b)' /\ SlotHas(k, b)' => j = k
  BY <1>1, <1>7 DEF BlockByBlock
<1>10. \A b \in Blocks, c \in Channels, j \in Slots : ~(LinkHas(c, b)' /\ SlotHas(j, b)')
  BY <1>1, <1>2, <1>7 DEF BlockByBlock
<1>11. \A b \in Blocks, c, d \in Channels : LinkHas(c, b)' /\ LinkHas(d, b)' => c = d
  BY <1>2 DEF BlockByBlock
<1>12. \A c \in Channels : links'[c].send = links'[c].recv => links'[c].send = Null
  BY DEF BlockByBlock
<1> QED BY <1>5, <1>6, <1>8, <1>9, <1>10, <1>11, <1>12 DEF BlockByBlock

\* Links and entries that give back all they hold keep the memory.
LEMMA DroppingKeepsMemory ==
  ASSUME BlockByBlock, NEW cs \in SUBSET Channels, NEW gone \in SUBSET Slots,
         \A c \in Channels \ cs : links'[c] = links[c],
         \A c \in cs : links'[c] = NoLink,
         \A i \in Slots \ gone : slots'[i] = slots[i],
         \A i \in gone : slots'[i].at \in {Null, Dangling} /\ slots'[i].appl = Null,
         heap' = heap \ ((UNION {LinkBlocks(c) : c \in cs}) \cup (UNION {SlotBlocks(i) : i \in gone}))
  PROVE  BlockByBlock'
<1>1. \A c \in Channels : \A b : LinkHas(c, b)' <=> c \notin cs /\ LinkHas(c, b)
  BY AssociationsAssumption DEF LinkHas, NoLink
<1>2. \A i \in Slots : \A b : SlotHas(i, b)' <=> i \notin gone /\ SlotHas(i, b)
  BY AssociationsAssumption DEF SlotHas
<1>3. \A b \in Blocks : b \in heap' <=>
        b \in heap /\ (\A c \in cs : ~LinkHas(c, b)) /\ (\A i \in gone : ~SlotHas(i, b))
  BY DEF LinkBlocks, SlotBlocks, LinkHas, SlotHas
<1>4. heap' \subseteq Blocks
  BY DEF BlockByBlock
<1>5. \A b \in Blocks : b \in heap' <=> (\E c \in Channels : LinkHas(c, b)') \/ (\E i \in Slots : SlotHas(i, b)')
  BY <1>1, <1>2, <1>3 DEF BlockByBlock
<1>6. \A b \in Blocks, c, d \in Channels : LinkHas(c, b)' /\ LinkHas(d, b)' => c = d
  BY <1>1 DEF BlockByBlock
<1>7. \A b \in Blocks, i, j \in Slots : SlotHas(i, b)' /\ SlotHas(j, b)' => i = j
  BY <1>2 DEF BlockByBlock
<1>8. \A b \in Blocks, c \in Channels, i \in Slots : ~(LinkHas(c, b)' /\ SlotHas(i, b)')
  BY <1>1, <1>2 DEF BlockByBlock
<1>9. \A c \in Channels : links'[c].send = links'[c].recv => links'[c].send = Null
  BY DEF BlockByBlock, NoLink
<1>10. \A i \in Slots : slots'[i].at = slots'[i].appl => slots'[i].at = Null
  BY AssociationsAssumption DEF BlockByBlock
<1> QED BY <1>4, <1>5, <1>6, <1>7, <1>8, <1>9, <1>10 DEF BlockByBlock
-----------------------------------------------------------------------------
\* The rest of the invariant, without the memory.
Rest == AssociationsTypeOK /\ LinkShape /\ SlotShape /\ EntryFollowsLink /\ Leftovers

\* The parts of the invariant, apart from the types of the entries ...
LEMMA InvParts == Inv <=> Rest /\ BlockByBlock /\ WildOnlyAfter /\ RunsAskedUnlessLeft
BY SameMemory DEF Inv, Rest, Memory, MemorySound

\* ... and after a step.
LEMMA InvPartsNext == Inv' <=> (Rest' /\ BlockByBlock' /\ WildOnlyAfter' /\ RunsAskedUnlessLeft')
BY InvParts, PTL

\* At the start all is empty.
LEMMA InvInit == Init => Inv
<1> SUFFICES ASSUME Init PROVE Inv
  OBVIOUS
<1> USE AssociationsAssumption, ClearedIsEmpty DEF Init, NoLink, NoSlot, Nothing
<1>1. AssociationsTypeOK
  BY DEF AssociationsTypeOK, Links, Entries, Verdicts
<1>2. LinkShape /\ SlotShape
  BY DEF LinkShape, SlotShape, Open
<1>3. EntryFollowsLink /\ Leftovers
  BY DEF EntryFollowsLink, Used, Leftovers
<1>4. BlockByBlock
  BY DEF BlockByBlock, LinkHas, SlotHas
<1>5. WildOnlyAfter /\ RunsAskedUnlessLeft
  BY DEF WildOnlyAfter, RunsAskedUnlessLeft
<1> QED BY <1>1, <1>2, <1>3, <1>4, <1>5, InvParts DEF Rest

\* The use of freed memory ends the model; it comes after a set-up that failed
\* half-way or that forsook an association.
LEMMA WildKeeps ==
  ASSUME Inv, GoWild, WalkIsWild \/ \E c \in Channels : links[c].send = Dangling
  PROVE  Inv'
<1>1. setupFailed \/ abandoned # {}
  BY DEF Inv, LinkShape, SlotShape, WalkIsWild, Used
<1>2. Rest' /\ BlockByBlock'
  <2> USE InvParts DEF GoWild, Nothing
  <2>1. AssociationsTypeOK'
    BY DEF Rest, AssociationsTypeOK
  <2>2. (LinkShape /\ SlotShape /\ EntryFollowsLink /\ Leftovers)'
    BY DEF Rest, LinkShape, SlotShape, EntryFollowsLink, Leftovers, Open, Used
  <2>3. BlockByBlock'
    BY DEF BlockByBlock, LinkHas, SlotHas
  <2> QED BY <2>1, <2>2, <2>3 DEF Rest
<1>3. WildOnlyAfter' /\ RunsAskedUnlessLeft'
  BY <1>1 DEF GoWild, Nothing, WildOnlyAfter, RunsAskedUnlessLeft
<1> QED BY <1>2, <1>3, InvPartsNext

\* A link is set up anew, or left closed: the entries stay, and the session that
\* the link had is written down if it is not the new one.
LEMMA SetupKeeps ==
  ASSUME Inv, ~wild, NEW c \in Channels, NEW l \in Links,
         links' = [links EXCEPT ![c] = l],
         l.status # "DISCONNECTED" => l.key \in Keys /\ l.send \in Blocks /\ l.recv \in Blocks,
         l.status = "DISCONNECTED" => l.send \in {Null, Dangling} /\ l.recv = Null,
         l.send = Dangling => setupFailed',
         l.send = l.recv => l.send = Null,
         ({l.send, l.recv} \cap Blocks) \cap (heap \ LinkBlocks(c)) = {},
         heap' = (heap \ LinkBlocks(c)) \cup ({l.send, l.recv} \cap Blocks),
         abandoned' = abandoned \cup (IF Open(c) THEN {links[c].key} \ {l.key} ELSE {}),
         l.status = "DISCONNECTED" => l.key = Null,
         setupFailed \in BOOLEAN, setupFailed' \in BOOLEAN, setupFailed => setupFailed',
         last' = Nothing, slots' = slots, wild' = wild
  PROVE  Inv'
<1> USE InvParts DEF Rest
<1>1. AssociationsTypeOK'
  BY DEF AssociationsTypeOK, Nothing, LinkShape
<1>2. BlockByBlock'
  BY LinkKeepsMemory
<1>3. LinkShape'
  BY DEF LinkShape, Open, AssociationsTypeOK
<1>4. SlotShape' /\ Leftovers'
  BY DEF SlotShape, Leftovers
<1>5. EntryFollowsLink'
  <2>1. \A d \in Channels : d # c => links'[d] = links[d]
    BY DEF AssociationsTypeOK
  <2>2. links'[c] = l
    BY DEF AssociationsTypeOK
  <2>3. \A d \in Channels : Open(d) => links[d].key \in abandoned' \cup {links'[e].key : e \in {f \in Channels : Open(f)'}}
    <3> TAKE d \in Channels
    <3>1. CASE d # c
      BY <3>1, <2>1 DEF Open
    <3>2. CASE d = c /\ Open(c)
      <4>1. CASE l.key = links[c].key
        <5>1. links[c].key # Null
          BY <3>2, AssociationsAssumption DEF LinkShape
        <5>2. Open(c)'
          BY <4>1, <5>1, <2>2 DEF Open
        <5> QED BY <5>2, <4>1, <3>2, <2>2
      <4>2. CASE l.key # links[c].key
        BY <4>2, <3>2
      <4> QED BY <4>1, <4>2
    <3> QED BY <3>1, <3>2
  <2>4. Used' = Used
    BY DEF Used
  <2>5. ASSUME NEW i \in Used
        PROVE  slots[i].key \in abandoned' \cup {links'[e].key : e \in {f \in Channels : Open(f)'}}
    <3>1. slots[i].key \in abandoned \/ \E d \in Channels : Open(d) /\ slots[i].key = links[d].key
      BY <2>5 DEF EntryFollowsLink
    <3> QED BY <3>1, <2>3
  <2> QED BY <2>4, <2>5 DEF EntryFollowsLink
<1>6. WildOnlyAfter' /\ RunsAskedUnlessLeft'
  BY DEF WildOnlyAfter, RunsAskedUnlessLeft, Nothing
<1> QED BY <1>1, <1>2, <1>3, <1>4, <1>5, <1>6, InvPartsNext

-----------------------------------------------------------------------------
\* the links

\* A link is set up: its channel's entry and memory are released first.
LEMMA SnrmStep ==
  ASSUME Inv, ~wild, NEW c \in Channels, NEW k \in Keys, Snrm(c, k)
  PROVE  Inv'
<1>1. PICK send \in Blocks \ (heap \ LinkBlocks(c)), recv \in Blocks \ (heap \ LinkBlocks(c)) :
        /\ send # recv
        /\ heap' = (heap \ LinkBlocks(c)) \cup {send, recv}
        /\ links' = [links EXCEPT ![c] = [status |-> "CONNECTED", key |-> k, send |-> send, recv |-> recv]]
  BY DEF Snrm
<1> DEFINE l == [status |-> "CONNECTED", key |-> k, send |-> send, recv |-> recv]
<1>2. l \in Links /\ l.status = "CONNECTED" /\ l.key = k /\ l.send = send /\ l.recv = recv
  BY DEF Links
<1>3. {send, recv} \cap Blocks = {send, recv} /\ send # Dangling
  BY AssociationsAssumption
<1>4. links' = [links EXCEPT ![c] = l]
  BY <1>1
<1>5. abandoned' = abandoned \cup (IF Open(c) THEN {links[c].key} \ {k} ELSE {})
  BY DEF Snrm, Forsaken
<1>6. setupFailed' = setupFailed /\ last' = Nothing /\ slots' = slots /\ wild' = wild
  BY DEF Snrm
<1>7. setupFailed \in BOOLEAN
  BY DEF Inv, AssociationsTypeOK
<1> HIDE DEF l
<1>8. {l.send, l.recv} \cap Blocks = {send, recv}
  BY <1>2, <1>3
<1>9. ({l.send, l.recv} \cap Blocks) \cap (heap \ LinkBlocks(c)) = {}
  BY <1>8
<1>10. heap' = (heap \ LinkBlocks(c)) \cup ({l.send, l.recv} \cap Blocks)
  BY <1>1, <1>8
<1>11. abandoned' = abandoned \cup (IF Open(c) THEN {links[c].key} \ {l.key} ELSE {})
  BY <1>2, <1>5
<1>12. /\ l.status # "DISCONNECTED" => l.key \in Keys /\ l.send \in Blocks /\ l.recv \in Blocks
       /\ l.status = "DISCONNECTED" => l.send \in {Null, Dangling} /\ l.recv = Null /\ l.key = Null
       /\ l.send = Dangling => setupFailed'
       /\ l.send = l.recv => l.send = Null
  BY <1>1, <1>2, <1>3
<1> QED BY <1>2, <1>4, <1>6, <1>7, <1>9, <1>10, <1>11, <1>12, SetupKeeps

\* Nothing is set up, or memory is released half-way.
LEMMA SnrmRefusedStep ==
  ASSUME Inv, ~wild, NEW c \in Channels, SnrmRefused(c) \/ SnrmHalfway(c)
  PROVE  Inv'
<1>1. PICK l \in {NoLink, [NoLink EXCEPT !.send = Dangling]} :
        /\ links' = [links EXCEPT ![c] = l]
        /\ l.send = Dangling => setupFailed'
        /\ setupFailed' \in BOOLEAN /\ (setupFailed => setupFailed')
  BY AssociationsAssumption DEF SnrmRefused, SnrmHalfway, Inv, AssociationsTypeOK, NoLink
<1>2. /\ l \in Links /\ l.status = "DISCONNECTED" /\ l.key = Null /\ l.recv = Null
      /\ l.send \in {Null, Dangling} /\ (l.send = l.recv => l.send = Null)
  BY DEF Links, NoLink
<1>3. {l.send, l.recv} \cap Blocks = {}
  BY <1>2, AssociationsAssumption
<1>4. heap' = (heap \ LinkBlocks(c)) \cup {} /\ last' = Nothing /\ slots' = slots /\ wild' = wild
  BY DEF SnrmRefused, SnrmHalfway
<1>5. abandoned' = abandoned \cup (IF Open(c) THEN {links[c].key} \ {l.key} ELSE {})
  BY <1>2 DEF SnrmRefused, SnrmHalfway, Forsaken
<1>6. setupFailed \in BOOLEAN
  BY DEF Inv, AssociationsTypeOK
<1> QED BY <1>1, <1>2, <1>3, <1>4, <1>5, <1>6, SetupKeeps

\* DISC only marks the link.
LEMMA DiscStep ==
  ASSUME Inv, ~wild, NEW c \in Channels, Disc(c)
  PROVE  Inv'
<1> DEFINE l == [links[c] EXCEPT !.status = "MARK"]
<1>1. links[c] \in Links /\ links[c].status = "CONNECTED" /\ Open(c)
  BY DEF Inv, AssociationsTypeOK, Disc, Open
<1>2. /\ l \in Links /\ l.status = "MARK" /\ l.key = links[c].key
      /\ l.send = links[c].send /\ l.recv = links[c].recv
  BY <1>1 DEF Links
<1>3. l.key \in Keys /\ l.send \in Blocks /\ l.recv \in Blocks /\ l.send # Dangling
  BY <1>1, <1>2, AssociationsAssumption DEF Inv, LinkShape
<1>4. links' = [links EXCEPT ![c] = l]
  BY <1>1 DEF Disc, Links
<1>5. LinkBlocks(c) = {l.send, l.recv} \cap Blocks
  BY <1>2 DEF LinkBlocks
<1>6. LinkBlocks(c) \subseteq heap
  BY DEF Inv, MemorySound, OnlyThese
<1>7. l.send = l.recv => l.send = Null
  BY <1>2 DEF Inv, MemorySound, NotShared
<1>8. /\ heap' = heap /\ abandoned' = abandoned /\ setupFailed' = setupFailed
      /\ last' = Nothing /\ slots' = slots /\ wild' = wild /\ setupFailed \in BOOLEAN
  BY DEF Disc, Inv, AssociationsTypeOK
<1>9. heap' = (heap \ LinkBlocks(c)) \cup ({l.send, l.recv} \cap Blocks)
  BY <1>5, <1>6, <1>8
<1>10. ({l.send, l.recv} \cap Blocks) \cap (heap \ LinkBlocks(c)) = {}
  BY <1>5
<1>11. abandoned' = abandoned \cup (IF Open(c) THEN {links[c].key} \ {l.key} ELSE {})
  BY <1>2, <1>8
<1> HIDE DEF l
<1> QED BY <1>2, <1>3, <1>4, <1>7, <1>8, <1>9, <1>10, <1>11, SetupKeeps
\* Cleaning up closes links and releases the associations of those that were open.
LEMMA CleanupKeeps ==
  ASSUME Inv, ~wild, NEW cs \in SUBSET Channels, ~CleanupIsWild(cs), Cleanup(cs),
         last' = Nothing, UNCHANGED <<wild, setupFailed>>
  PROVE  Inv'
<1> DEFINE keys == {links[c].key : c \in {d \in cs : Open(d)}}
           gone == UNION {OfKey(k) : k \in keys}
<1> USE InvParts DEF Rest
<1>1. /\ links' = [c \in Channels |-> IF c \in cs THEN NoLink ELSE links[c]]
      /\ slots' = [i \in Slots |-> IF i \in gone THEN NoSlot ELSE slots[i]]
      /\ heap' = heap \ ((UNION {LinkBlocks(c) : c \in cs}) \cup (UNION {SlotBlocks(i) : i \in gone}))
      /\ abandoned' = abandoned \ keys
  BY Zenon DEF Cleanup
<1>2. \A i \in Slots : i \in gone <=> (slots[i].at # Null /\ slots[i].key \in keys)
  BY DEF OfKey, Used
<1>3. gone \subseteq Slots
  BY DEF OfKey, Used
<1>4. \A c \in cs : Open(c) => links[c].key \in keys
  OBVIOUS
<1> HIDE DEF keys, gone
<1>5. AssociationsTypeOK'
  <2>1. NoLink \in Links /\ NoSlot \in Entries
    BY ClearedIsEmpty DEF NoLink, NoSlot, Links, Entries, Verdicts
  <2> QED BY <1>1, <2>1 DEF AssociationsTypeOK, Nothing
<1>6. BlockByBlock'
  <2>1. \A i \in gone : slots'[i].at \in {Null, Dangling} /\ slots'[i].appl = Null
    BY <1>1, <1>3 DEF NoSlot
  <2>2. /\ \A c \in Channels \ cs : links'[c] = links[c]
        /\ \A c \in cs : links'[c] = NoLink
        /\ \A i \in Slots \ gone : slots'[i] = slots[i]
    BY <1>1
  <2> QED BY <1>1, <1>3, <2>1, <2>2, DroppingKeepsMemory
<1>7. LinkShape'
  BY <1>1, AssociationsAssumption DEF LinkShape, Open, NoLink
<1>8. SlotShape' /\ Leftovers'
  <2>1. NoSlot.at = Null /\ NoSlot.appl = Null /\ Live(NoSlot.store) = {}
    BY ClearedIsEmpty DEF NoSlot
  <2>2. \A i \in Slots : slots'[i] = NoSlot \/ (slots'[i] = slots[i] /\ i \notin gone)
    BY <1>1
  <2>3. \A i \in Slots : i \notin gone /\ slots[i].at = Dangling => slots[i].key \in abandoned'
    BY <1>1, <1>2, AssociationsAssumption DEF SlotShape
  <2> QED BY <2>1, <2>2, <2>3, AssociationsAssumption DEF SlotShape, Leftovers
<1>9. EntryFollowsLink'
  <2>1. \A i \in Slots : slots'[i].at # Null => slots'[i] = slots[i] /\ i \in Used /\ slots[i].key \notin keys
    BY <1>1, <1>2 DEF NoSlot, Used
  <2>2. \A d \in Channels : Open(d) /\ links[d].key \notin keys => links'[d] = links[d] /\ Open(d)'
    BY <1>1, <1>4 DEF Open
  <2>3. ASSUME NEW i \in Slots, slots'[i].at # Null
        PROVE  slots'[i].key \in abandoned' \cup {links'[c].key : c \in {d \in Channels : Open(d)'}}
    <3>1. slots[i].key \in abandoned \/ \E d \in Channels : Open(d) /\ slots[i].key = links[d].key
      BY <2>1, <2>3 DEF EntryFollowsLink
    <3>2. slots'[i] = slots[i] /\ slots[i].key \notin keys
      BY <2>1, <2>3
    <3> QED BY <3>1, <3>2, <2>2, <1>1
  <2>4. \A i, j \in Slots : slots'[i].at # Null /\ slots'[j].at # Null /\ i # j => slots'[i].key # slots'[j].key
    BY <2>1 DEF EntryFollowsLink
  <2> QED BY <2>3, <2>4 DEF EntryFollowsLink, Used
<1>10. WildOnlyAfter' /\ RunsAskedUnlessLeft'
  BY DEF WildOnlyAfter, RunsAskedUnlessLeft, Nothing
<1> QED BY <1>5, <1>6, <1>7, <1>8, <1>9, <1>10, InvPartsNext

\* Links that time out leave their entries to the next message.
LEMMA TickStep ==
  ASSUME Inv, ~wild, NEW expired \in SUBSET Channels, Tick(expired)
  PROVE  Inv'
<1>1. Closing(expired) \in SUBSET Channels
  BY DEF Closing
<1>2. CASE CleanupIsWild(Closing(expired))
  <2>1. WalkIsWild \/ \E c \in Channels : links[c].send = Dangling
    BY <1>1, <1>2 DEF CleanupIsWild
  <2> QED BY <1>2, <2>1, WildKeeps DEF Tick
<1>3. CASE ~CleanupIsWild(Closing(expired))
  BY <1>1, <1>3, CleanupKeeps DEF Tick
<1> QED BY <1>2, <1>3

\* A change of the run level forgets everything.
LEMMA ChangeLevelStep ==
  ASSUME Inv, ~wild, ChangeLevel
  PROVE  Inv'
<1>1. CASE CleanupIsWild(Channels)
  <2>1. WalkIsWild \/ \E c \in Channels : links[c].send = Dangling
    BY <1>1 DEF CleanupIsWild
  <2> QED BY <1>1, <2>1, WildKeeps DEF ChangeLevel
<1>2. CASE ~CleanupIsWild(Channels)
  <2> DEFINE kept == {i \in Used : \A c \in Channels : Open(c) => slots[i].key # links[c].key}
             keys == {links[c].key : c \in {d \in Channels : Open(d)}}
  <2> USE InvParts DEF Rest
  <2>1. /\ links' = [c \in Channels |-> NoLink]
        /\ slots' = [i \in Slots |->
                      IF i \in kept THEN [slots[i] EXCEPT !.at = Dangling, !.appl = Null] ELSE NoSlot]
        /\ heap' = {}
        /\ abandoned' = abandoned \ keys
        /\ last' = Nothing /\ wild' = wild /\ setupFailed' = setupFailed
    BY <1>2, Zenon DEF ChangeLevel
  <2>2. \A i \in kept : i \in Slots /\ i \in Used /\ slots[i].key \in abandoned'
    BY <2>1 DEF Used, EntryFollowsLink
  <2> HIDE DEF kept, keys
  <2>3. AssociationsTypeOK'
    <3>1. NoLink \in Links /\ NoSlot \in Entries
      BY ClearedIsEmpty DEF NoLink, NoSlot, Links, Entries, Verdicts
    <3>2. \A i \in Slots : [slots[i] EXCEPT !.at = Dangling, !.appl = Null] \in Entries
      BY DEF AssociationsTypeOK, Entries
    <3> QED BY <2>1, <3>1, <3>2 DEF AssociationsTypeOK, Nothing
  <2>4. \A i \in Slots : /\ slots'[i].at \in {Null, Dangling} /\ slots'[i].appl = Null
                         /\ slots'[i].at = Dangling => i \in kept
                         /\ i \in kept => slots'[i].key = slots[i].key /\ slots'[i].store = slots[i].store
                                           /\ slots'[i].partial = slots[i].partial
                         /\ i \notin kept => slots'[i] = NoSlot
    <3>1. ASSUME NEW i \in kept
          PROVE  /\ slots'[i].at = Dangling /\ slots'[i].appl = Null
                 /\ slots'[i].key = slots[i].key /\ slots'[i].store = slots[i].store
                 /\ slots'[i].partial = slots[i].partial
      BY <2>1, <2>2 DEF AssociationsTypeOK, Entries
    <3>2. ASSUME NEW i \in Slots, i \notin kept
          PROVE  slots'[i] = NoSlot
      BY <2>1, <3>2
    <3>3. NoSlot.at = Null /\ NoSlot.appl = Null /\ Null # Dangling
      BY AssociationsAssumption DEF NoSlot
    <3> QED BY <3>1, <3>2, <3>3
  <2>5. BlockByBlock'
    <3>1. /\ \A c \in Channels : ~(links'[c].send \in Blocks) /\ ~(links'[c].recv \in Blocks)
          /\ \A c \in Channels : links'[c].send = Null
      BY <2>1, AssociationsAssumption DEF NoLink
    <3>2. \A i \in Slots : ~(slots'[i].at \in Blocks) /\ ~(slots'[i].appl \in Blocks)
      BY <2>4, AssociationsAssumption
    <3>3. \A c \in Channels : \A b : ~LinkHas(c, b)'
      BY <3>1 DEF LinkHas
    <3>4. \A i \in Slots : \A b : ~SlotHas(i, b)'
      BY <3>2 DEF SlotHas
    <3>5. \A i \in Slots : slots'[i].at = slots'[i].appl => slots'[i].at = Null
      BY <2>4
    <3> QED BY <2>1, <3>1, <3>3, <3>4, <3>5 DEF BlockByBlock
  <2>6. LinkShape'
    BY <2>1, AssociationsAssumption DEF LinkShape, Open, NoLink
  <2>7. SlotShape' /\ Leftovers'
    <3>1. Live(NoSlot.store) = {}
      BY ClearedIsEmpty DEF NoSlot
    <3>2. \A i \in kept : slots[i].key \in Keys
      BY <2>2 DEF SlotShape, Used
    <3> QED BY <2>2, <2>4, <3>1, <3>2 DEF SlotShape, Leftovers, NoSlot
  <2>8. EntryFollowsLink'
    <3>1. \A i \in Slots : slots'[i].at # Null => i \in kept
      BY <2>4 DEF NoSlot
    <3> QED BY <2>2, <2>4, <3>1 DEF EntryFollowsLink, Used
  <2>9. WildOnlyAfter' /\ RunsAskedUnlessLeft'
    BY <2>1 DEF WildOnlyAfter, RunsAskedUnlessLeft, Nothing
  <2> QED BY <2>3, <2>5, <2>6, <2>7, <2>8, <2>9, InvPartsNext
<1> QED BY <1>1, <1>2
-----------------------------------------------------------------------------
\* the gateway

\* An entry of an open link changes, or is given to it.
LEMMA EntryKeeps ==
  ASSUME Inv, ~wild, NEW c \in Channels, Open(c), NEW i \in Slots, NEW e \in Entries,
         slots' = [slots EXCEPT ![i] = e],
         e.at \in Blocks \cup {Null}, e.at = Null => e.appl = Null,
         e.at # Null => e.key = links[c].key,
         e.at # Null => \A j \in OfKey(links[c].key) : j = i,
         e.partial \/ Live(e.store) = {},
         e.at = e.appl => e.at = Null,
         ({e.at, e.appl} \cap Blocks) \cap (heap \ SlotBlocks(i)) = {},
         heap' = (heap \ SlotBlocks(i)) \cup ({e.at, e.appl} \cap Blocks),
         last' \in [named : SUBSET Objects, ran : SUBSET Known, partial : BOOLEAN],
         last'.ran \subseteq last'.named \/ last'.partial,
         UNCHANGED <<links, wild, abandoned, setupFailed>>
  PROVE  Inv'
<1> USE InvParts DEF Rest
<1>1. links[c].key \in Keys
  BY DEF LinkShape
<1>2. AssociationsTypeOK'
  BY DEF AssociationsTypeOK
<1>3. BlockByBlock'
  BY SlotKeepsMemory
<1>4. \A j \in Slots : slots'[j] = IF j = i THEN e ELSE slots[j]
  BY DEF AssociationsTypeOK
<1>5. LinkShape'
  BY DEF LinkShape, Open
<1>6. SlotShape' /\ Leftovers'
  BY <1>1, <1>4, AssociationsAssumption DEF SlotShape, Leftovers
<1>7. EntryFollowsLink'
  <2>1. \A j \in Slots : slots'[j].at # Null => IF j = i THEN slots'[j].key = links[c].key ELSE j \in Used
    BY <1>4 DEF Used
  <2>2. \A j \in Used : slots[j].key = links[c].key => j \in OfKey(links[c].key)
    BY DEF OfKey
  <2>3. ASSUME NEW j \in Slots, slots'[j].at # Null
        PROVE  slots'[j].key \in abandoned' \cup {links'[d].key : d \in {f \in Channels : Open(f)'}}
    BY <1>4, <2>1, <2>3 DEF EntryFollowsLink, Open
  <2>4. \A j, k \in Slots : slots'[j].at # Null /\ slots'[k].at # Null /\ j # k => slots'[j].key # slots'[k].key
    BY <1>4, <2>1, <2>2 DEF EntryFollowsLink
  <2> QED BY <2>3, <2>4 DEF EntryFollowsLink, Used
<1>8. WildOnlyAfter' /\ RunsAskedUnlessLeft'
  BY DEF WildOnlyAfter, RunsAskedUnlessLeft
<1> QED BY <1>2, <1>3, <1>5, <1>6, <1>7, <1>8, InvPartsNext

\* What a session finds in the table is its only entry, on blocks of the heap.
LEMMA EntryFound ==
  ASSUME Inv, NEW c \in Channels, Gateway(c), NEW i \in OfKey(links[c].key)
  PROVE  /\ Open(c) /\ links[c].key \in Keys
         /\ i \in Slots /\ slots[i] \in Entries /\ slots[i].key = links[c].key
         /\ slots[i].at \in Blocks /\ slots[i].at # slots[i].appl
         /\ SlotBlocks(i) \subseteq heap
         /\ \A j \in OfKey(links[c].key) : j = i
<1>1. Open(c) /\ links[c].key \in Keys
  BY DEF Gateway, Open, Inv, LinkShape
<1>2. i \in Used /\ i \in Slots /\ slots[i].key = links[c].key /\ slots[i].at # Null
  BY DEF OfKey, Used
<1>3. slots[i] \in Entries /\ slots[i].at \in Blocks
  BY <1>2 DEF Inv, AssociationsTypeOK, Gateway, WalkIsWild, Entries
<1>4. slots[i].at # slots[i].appl
  BY <1>2 DEF Inv, MemorySound, NotShared
<1>5. SlotBlocks(i) \subseteq heap
  BY <1>2 DEF Inv, MemorySound, OnlyThese
<1>6. \A j \in OfKey(links[c].key) : j = i
  BY <1>2 DEF OfKey, Inv, EntryFollowsLink
<1> QED BY <1>1, <1>2, <1>3, <1>4, <1>5, <1>6

\* A new entry holds its own block and no application memory.
LEMMA FreshEntry ==
  ASSUME NEW at \in Blocks, NEW k \in Keys, NEW verdict \in Verdicts,
         NEW e, e = Fresh(at, k, verdict)
  PROVE  /\ e \in Entries /\ e.at = at /\ e.key = k /\ e.appl = Null
         /\ Live(e.store) = {} /\ {e.at, e.appl} \cap Blocks = {at} /\ e.at # Null
BY ClearedIsEmpty, AssociationsAssumption DEF Fresh, NoSlot, Entries

\* A request that ran nothing.
LEMMA NothingIsTyped ==
  /\ Nothing \in [named : SUBSET Objects, ran : SUBSET Known, partial : BOOLEAN]
  /\ Nothing.ran \subseteq Nothing.named
BY DEF Nothing

\* An association is made, or made again over the old one.
LEMMA AarqStep ==
  ASSUME Inv, ~wild, NEW c \in Channels, NEW verdict \in Verdicts,
         AarqAgain(c, verdict) \/ AarqNew(c, verdict)
  PROVE  Inv'
<1>1. CASE AarqAgain(c, verdict)
  <2>1. PICK i \in OfKey(links[c].key) :
          /\ heap' = heap \ {slots[i].appl}
          /\ slots' = [slots EXCEPT ![i] = Fresh(slots[i].at, links[c].key, verdict)]
    BY <1>1 DEF AarqAgain
  <2> DEFINE e == Fresh(slots[i].at, links[c].key, verdict)
  <2>2. /\ Open(c) /\ links[c].key \in Keys /\ i \in Slots
        /\ slots[i].at \in Blocks /\ slots[i].at # slots[i].appl
        /\ SlotBlocks(i) \subseteq heap
        /\ \A j \in OfKey(links[c].key) : j = i
    BY <1>1, EntryFound DEF AarqAgain
  <2>3. /\ e \in Entries /\ e.at = slots[i].at /\ e.key = links[c].key /\ e.appl = Null
        /\ Live(e.store) = {} /\ {e.at, e.appl} \cap Blocks = {slots[i].at} /\ e.at # Null
    <3>1. e = Fresh(slots[i].at, links[c].key, verdict)
      OBVIOUS
    <3> HIDE DEF e
    <3>2. PICK at \in Blocks : at = slots[i].at
      BY <2>2
    <3>3. PICK k \in Keys : k = links[c].key
      BY <2>2
    <3>4. e = Fresh(at, k, verdict)
      BY <3>1, <3>2, <3>3
    <3>5. e \in Entries /\ e.at = at /\ e.key = k /\ e.appl = Null
      BY <3>4, FreshEntry
    <3>6. Live(e.store) = {} /\ {e.at, e.appl} \cap Blocks = {at} /\ e.at # Null
      BY <3>4, FreshEntry
    <3> QED BY <3>2, <3>3, <3>5, <3>6
  <2>4. UNCHANGED <<links, wild, abandoned, setupFailed>> /\ last' = Nothing
    BY <1>1 DEF AarqAgain
  <2>5. slots' = [slots EXCEPT ![i] = e]
    BY <2>1
  <2> HIDE DEF e
  <2>6. heap \subseteq Blocks
    BY DEF Inv, AssociationsTypeOK
  <2>7. heap' = (heap \ SlotBlocks(i)) \cup ({e.at, e.appl} \cap Blocks)
    BY <2>1, <2>2, <2>3, <2>6 DEF SlotBlocks
  <2>8. ({e.at, e.appl} \cap Blocks) \cap (heap \ SlotBlocks(i)) = {}
    BY <2>2, <2>3 DEF SlotBlocks
  <2> QED BY <2>2, <2>3, <2>4, <2>5, <2>7, <2>8, NothingIsTyped, EntryKeeps
<1>2. CASE AarqNew(c, verdict)
  <2>1. PICK i \in Slots \ Used, at \in Blocks \ heap :
          /\ heap' = heap \cup {at}
          /\ slots' = [slots EXCEPT ![i] = Fresh(at, links[c].key, verdict)]
    BY <1>2 DEF AarqNew
  <2> DEFINE e == Fresh(at, links[c].key, verdict)
  <2>2. Open(c) /\ links[c].key \in Keys
    BY <1>2 DEF AarqNew, Gateway, Open, Inv, LinkShape
  <2>3. /\ e \in Entries /\ e.at = at /\ e.key = links[c].key /\ e.appl = Null
        /\ Live(e.store) = {} /\ {e.at, e.appl} \cap Blocks = {at} /\ e.at # Null
    <3>1. e = Fresh(at, links[c].key, verdict)
      OBVIOUS
    <3> HIDE DEF e
    <3>2. links[c].key \in Keys /\ at \in Blocks
      BY <2>2
    <3>3. PICK k \in Keys : k = links[c].key
      BY <3>2
    <3>4. e = Fresh(at, k, verdict)
      BY <3>1, <3>3
    <3>5. e \in Entries /\ e.at = at /\ e.key = k /\ e.appl = Null
      BY <3>2, <3>4, FreshEntry
    <3>6. Live(e.store) = {} /\ {e.at, e.appl} \cap Blocks = {at}
      BY <3>2, <3>4, FreshEntry
    <3>7. at # Null
      BY <3>2, AssociationsAssumption
    <3> QED BY <3>3, <3>5, <3>6, <3>7
  <2>4. UNCHANGED <<links, wild, abandoned, setupFailed>> /\ last' = Nothing
    BY <1>2 DEF AarqNew
  <2>5. slots' = [slots EXCEPT ![i] = e]
    BY <2>1
  <2> HIDE DEF e
  <2>6. SlotBlocks(i) = {}
    BY AssociationsAssumption DEF SlotBlocks, Used, Inv, SlotShape
  <2>7. \A j \in OfKey(links[c].key) : j = i
    BY <1>2 DEF AarqNew
  <2>8. heap' = (heap \ SlotBlocks(i)) \cup ({e.at, e.appl} \cap Blocks)
    BY <2>1, <2>3, <2>6
  <2>9. ({e.at, e.appl} \cap Blocks) \cap (heap \ SlotBlocks(i)) = {}
    BY <2>1, <2>3
  <2> QED BY <2>2, <2>3, <2>4, <2>5, <2>7, <2>8, <2>9, NothingIsTyped, EntryKeeps
<1> QED BY <1>1, <1>2

\* An association is released.
LEMMA RlrqStep ==
  ASSUME Inv, ~wild, NEW c \in Channels, Rlrq(c)
  PROVE  Inv'
<1>1. PICK i \in OfKey(links[c].key) :
        /\ heap' = heap \ SlotBlocks(i)
        /\ slots' = [slots EXCEPT ![i] = NoSlot]
  BY DEF Rlrq
<1>2. Open(c) /\ i \in Slots
  BY EntryFound DEF Rlrq
<1>3. /\ NoSlot \in Entries /\ NoSlot.at = Null /\ NoSlot.appl = Null
      /\ Live(NoSlot.store) = {} /\ {NoSlot.at, NoSlot.appl} \cap Blocks = {}
  BY ClearedIsEmpty, AssociationsAssumption DEF NoSlot, Entries, Verdicts
<1>4. UNCHANGED <<links, wild, abandoned, setupFailed>> /\ last' = Nothing
  BY DEF Rlrq
<1> QED BY <1>1, <1>2, <1>3, <1>4, NothingIsTyped, EntryKeeps

\* A request runs, on the entry of its channel's link.
LEMMA AskStep ==
  ASSUME Inv, ~wild, NEW c \in Channels, NEW r \in Request, Ask(c, r)
  PROVE  Inv'
<1>1. PICK i \in OfKey(links[c].key) :
        \E appl \in (IF slots[i].appl = Null THEN Blocks \ heap ELSE {slots[i].appl}),
           out \in Outcomes(slots[i].store, r) :
          /\ heap' = heap \cup {appl}
          /\ slots' = [slots EXCEPT ![i].appl = appl, ![i].store = out.store,
               ![i].partial = out.store # Cleared /\ (@ \/ PartlyKnown(r))]
          /\ last' = [named |-> Named(r), ran |-> out.ran, partial |-> slots[i].partial]
  BY Zenon DEF Ask
<1>2. PICK appl \in (IF slots[i].appl = Null THEN Blocks \ heap ELSE {slots[i].appl}),
           out \in Outcomes(slots[i].store, r) :
          /\ heap' = heap \cup {appl}
          /\ slots' = [slots EXCEPT ![i].appl = appl, ![i].store = out.store,
               ![i].partial = out.store # Cleared /\ (@ \/ PartlyKnown(r))]
          /\ last' = [named |-> Named(r), ran |-> out.ran, partial |-> slots[i].partial]
  BY <1>1, Zenon
<1>3. /\ Open(c) /\ links[c].key \in Keys
      /\ i \in Slots /\ slots[i] \in Entries /\ slots[i].key = links[c].key
      /\ slots[i].at \in Blocks /\ slots[i].at # slots[i].appl
      /\ SlotBlocks(i) \subseteq heap
      /\ \A j \in OfKey(links[c].key) : j = i
  BY EntryFound DEF Ask
<1> DEFINE left == out.store # Cleared /\ (slots[i].partial \/ PartlyKnown(r))
           e == [slots[i] EXCEPT !.appl = appl, !.store = out.store, !.partial = left]
<1>4. slots[i].store \in Storage
  BY <1>3 DEF Entries
<1>5. /\ out.store \in Storage /\ out.ran \subseteq Known /\ Named(r) \subseteq Objects
      /\ Live(slots[i].store) = {} => out.ran \subseteq Named(r)
      /\ (Live(slots[i].store) = {} /\ ~PartlyKnown(r)) => Live(out.store) = {}
  BY <1>4, OutcomesSound
<1>6. slots[i].partial \/ Live(slots[i].store) = {}
  BY <1>3 DEF Inv, Leftovers
<1>7. slots[i].partial \in BOOLEAN /\ left \in BOOLEAN
  BY <1>3 DEF Entries
<1>8. slots' = [slots EXCEPT ![i] = e]
  BY <1>2, <1>3 DEF Entries, Inv, AssociationsTypeOK
<1>9. left \/ Live(out.store) = {}
  BY <1>5, <1>6, ClearedIsEmpty
<1>10. heap \subseteq Blocks
  BY DEF Inv, AssociationsTypeOK
<1>11. appl \in Blocks /\ (slots[i].appl # Null => appl = slots[i].appl)
                       /\ (slots[i].appl = Null => appl \notin heap)
  BY <1>3 DEF Entries
<1> HIDE DEF left
<1>12. /\ e \in Entries /\ e.at = slots[i].at /\ e.key = links[c].key /\ e.appl = appl
       /\ e.store = out.store /\ e.partial = left
  BY <1>3, <1>5, <1>7, <1>11 DEF Entries
<1> HIDE DEF e
<1>13. slots[i].at # Null /\ slots[i].at \in heap /\ slots[i].at # appl
  BY <1>3, <1>11, AssociationsAssumption DEF SlotBlocks
<1>14. heap' = (heap \ SlotBlocks(i)) \cup ({e.at, e.appl} \cap Blocks)
  BY <1>2, <1>3, <1>10, <1>11, <1>12, <1>13, AssociationsAssumption DEF SlotBlocks
<1>15. ({e.at, e.appl} \cap Blocks) \cap (heap \ SlotBlocks(i)) = {}
  BY <1>3, <1>11, <1>12, AssociationsAssumption DEF SlotBlocks
<1>16. /\ last' \in [named : SUBSET Objects, ran : SUBSET Known, partial : BOOLEAN]
       /\ last'.ran \subseteq last'.named \/ last'.partial
  BY <1>2, <1>5, <1>6, <1>7
<1>17. UNCHANGED <<links, wild, abandoned, setupFailed>>
  BY DEF Ask
<1> QED BY <1>3, <1>8, <1>9, <1>12, <1>13, <1>14, <1>15, <1>16, <1>17, EntryKeeps

-----------------------------------------------------------------------------
\* Every step keeps the invariant, up to the first wild access.
LEMMA InvStep == Inv /\ [Next]_vars => Inv'
<1> SUFFICES ASSUME Inv, [Next]_vars PROVE Inv'
  OBVIOUS
<1>1. CASE UNCHANGED vars
  <2> USE InvParts, <1>1 DEF vars, Rest
  <2>1. Rest'
    <3>1. AssociationsTypeOK'
      BY DEF AssociationsTypeOK
    <3>2. LinkShape' /\ SlotShape' /\ Leftovers'
      BY DEF LinkShape, SlotShape, Leftovers, Open
    <3>3. EntryFollowsLink'
      BY DEF EntryFollowsLink, Open, Used
    <3> QED BY <3>1, <3>2, <3>3
  <2>2. BlockByBlock'
    BY DEF BlockByBlock, LinkHas, SlotHas
  <2>3. WildOnlyAfter' /\ RunsAskedUnlessLeft'
    BY DEF WildOnlyAfter, RunsAskedUnlessLeft
  <2> QED BY <2>1, <2>2, <2>3, InvPartsNext
<1>2. CASE Next
  <2>1. ~wild
    BY <1>2 DEF Next
  <2>2. ASSUME NEW c \in Channels,
               \/ \E k \in Keys : Snrm(c, k)
               \/ SnrmRefused(c) \/ SnrmHalfway(c) \/ SnrmWild(c)
               \/ Disc(c) \/ Rlrq(c) \/ GatewayWild(c)
               \/ \E verdict \in Verdicts : AarqAgain(c, verdict) \/ AarqNew(c, verdict)
               \/ \E r \in Request : Ask(c, r)
        PROVE  Inv'
    <3>1. CASE \E k \in Keys : Snrm(c, k)
      BY <2>1, <3>1, SnrmStep
    <3>2. CASE SnrmRefused(c) \/ SnrmHalfway(c)
      BY <2>1, <3>2, SnrmRefusedStep
    <3>3. CASE SnrmWild(c) \/ GatewayWild(c)
      BY <3>3, WildKeeps DEF SnrmWild, GatewayWild
    <3>4. CASE Disc(c)
      BY <2>1, <3>4, DiscStep
    <3>5. CASE Rlrq(c)
      BY <2>1, <3>5, RlrqStep
    <3>6. CASE \E verdict \in Verdicts : AarqAgain(c, verdict) \/ AarqNew(c, verdict)
      BY <2>1, <3>6, AarqStep
    <3>7. CASE \E r \in Request : Ask(c, r)
      BY <2>1, <3>7, AskStep
    <3> QED BY <2>2, <3>1, <3>2, <3>3, <3>4, <3>5, <3>6, <3>7
  <2>3. CASE \E expired \in SUBSET Channels : Tick(expired)
    BY <2>1, <2>3, TickStep
  <2>4. CASE ChangeLevel
    BY <2>1, <2>4, ChangeLevelStep
  <2> QED BY <1>2, <2>2, <2>3, <2>4, Zenon DEF Next
<1> QED BY <1>1, <1>2

\* The invariant holds throughout.
LEMMA Invariance == Spec => []Inv
BY InvInit, InvStep, PTL DEF Spec

\* AssociationsTypeOK holds in every reachable state.
THEOREM AssociationsTypeInvariant == Spec => []AssociationsTypeOK
<1>1. Inv => AssociationsTypeOK
  BY DEF Inv
<1> QED BY <1>1, Invariance, PTL

\* MemorySound holds in every reachable state: no set-up, release, timeout or change
\* of level, in any order, loses a block or gives it to two.
THEOREM MemoryIsSound == Spec => []MemorySound
<1>1. Inv => MemorySound
  BY DEF Inv
<1> QED BY <1>1, Invariance, PTL

\* EntryFollowsLink holds in every reachable state: only a session that an SNRM
\* forsook has an association without a link.
THEOREM EntriesFollowLinks == Spec => []EntryFollowsLink
<1>1. Inv => EntryFollowsLink
  BY DEF Inv
<1> QED BY <1>1, Invariance, PTL

\* RunsAskedUnlessLeft holds in every reachable state, for lists of any length: the
\* handlers that run are those of the request.
THEOREM RequestsRunTheirOwn == Spec => []RunsAskedUnlessLeft
<1>1. Inv => RunsAskedUnlessLeft
  BY DEF Inv
<1> QED BY <1>1, Invariance, PTL
=============================================================================
