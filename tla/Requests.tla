------------------------------ MODULE Requests ------------------------------
(***************************************************************************)
(* One request of a client to the COSEM objects                            *)
(* (proto_dlms/Src/dlms_application.c: dlms_appl_entrance), as operators   *)
(* over the storage that an association keeps between its requests.        *)
(*                                                                         *)
(* An entry of the storage is named by the object whose handler it holds.  *)
(* No handler of the source leaves its iterator on the way: the one that   *)
(* uses it (GetObjectList) goes through to the end in one call.            *)
(***************************************************************************)
EXTENDS Naturals, Sequences, FiniteSets

CONSTANTS
  Objects,  \* what a client may name
  Known,    \* those that CosemLoadAttribute() or CosemLoadMethod() has a handler for
  NoEntry,  \* a null Object
  ListMax   \* DLMS_REQ_LIST_MAX

ASSUME RequestsAssumption ==
  /\ Known \subseteq Objects /\ NoEntry \notin Objects
  /\ ListMax \in Nat \ {0}

\* struct __cosem_request
Storage == [actived : 0 .. ListMax, entry : [1 .. ListMax -> Known \cup {NoEntry}]]

Cleared == [actived |-> 0, entry |-> [i \in 1 .. ListMax |-> NoEntry]]

\* What parse_dlms_frame() lets through: a request for one object, the first
\* block of one, the next block of one, and a list to get.
Request ==
  [kind : {"normal"}, names : {<<o>> : o \in Objects}, inOrder : {TRUE}]
    \cup [kind : {"first"}, names : {<<o>> : o \in Objects}, inOrder : BOOLEAN]
    \cup [kind : {"next"}, names : {<<>>}, inOrder : BOOLEAN]
    \cup [kind : {"list"}, names : UNION {[1 .. n -> Objects] : n \in 1 .. ListMax},
          inOrder : {TRUE}]

Named(r) == {r.names[i] : i \in 1 .. Len(r.names)}

Live(s) == {i \in 1 .. ListMax : s.entry[i] # NoEntry}

Load(o) == IF o \in Known THEN o ELSE NoEntry

\* mutant: the entries are added to those counted before
MakeEntriesAdds(s, r) ==
  [actived |-> s.actived + Len(r.names),
   entry   |-> [i \in 1 .. ListMax |-> IF i <= Len(r.names) THEN Load(r.names[i]) ELSE s.entry[i]]]

\* The entries that the request names are made anew, and the others left alone.
MakeEntries(s, r) ==
  [actived |-> Len(r.names),
   entry   |-> [i \in 1 .. ListMax |-> IF i <= Len(r.names) THEN Load(r.names[i]) ELSE s.entry[i]]]

\* make_cosem_instance() refuses a block that is out of order, and one that
\* continues what has no single entry
CannotMake(s, r) ==
  \/ r.kind \in {"first", "next"} /\ ~r.inOrder
  \/ r.kind = "next" /\ (s.actived # 1 \/ s.entry[1] = NoEntry)

Make(s, r) == IF r.kind = "next" THEN s ELSE MakeEntries(s, r)

\* as many live entries as the request activated
Legal(s) == s.actived = Cardinality(Live(s))

\* mutant: the entries that ran stay, but for the first
FinishFirst(s) == [s EXCEPT !.actived = Cardinality(Live(s) \ {1}), !.entry[1] = NoEntry]

\* step 6: the entries that ran are cleared, for none of them iterates
Finish(s) == Cleared

\* The storage that the request leaves, and the objects whose handlers it runs:
\* those of the live entries that check_accessibility() grants.  No handler runs,
\* and all is cleared, if there is no memory for their output.  Storage that is
\* not legal is kept as it is.
Outcomes(s, r) ==
  LET m == Make(s, r)
  IN IF CannotMake(s, r) THEN {[store |-> Cleared, ran |-> {}]}
     ELSE IF ~Legal(m) THEN {[store |-> m, ran |-> {}]}
     ELSE {[store |-> Cleared, ran |-> {}]}
       \cup {[store |-> Finish(m), ran |-> granted] :
              granted \in SUBSET {m.entry[i] : i \in Live(m)}}
=============================================================================
