---------------------------- MODULE Associations ----------------------------
(***************************************************************************)
(* The application associations (proto_dlms/Src/dlms_association.c) on the *)
(* links of the HDLC channels (hdlc_datalink.c), with the heap blocks that *)
(* both hold and the storage of the requests (Requests).                   *)
(*                                                                         *)
(* A channel takes one frame a period and the tick comes before the next   *)
(* one, so nothing arrives on a link that is marked for closing.           *)
(***************************************************************************)
EXTENDS Requests

CONSTANTS
  Channels,  \* HDLC_CONFIG_MAX_CHANNEL
  Keys,      \* client address and logical device, of those in ap_support_list
  Slots,     \* indices of asso_list
  Blocks,    \* what the heap can give to the protocol task
  Null,      \* a null pointer, a zero address
  Dangling   \* the address of a block that has been freed

ASSUME AssociationsAssumption ==
  /\ Null \notin Blocks \cup Keys /\ Dangling \notin Blocks \cup {Null}
  /\ Slots \subseteq Nat

VARIABLES
  links,      \* hdlc_links
  slots,      \* asso_list, with what the entries point to
  heap,       \* the protocol task's blocks
  wild,       \* freed memory has been used; the model ends there
  last,       \* history: what the request that has just been served named and ran
  abandoned,  \* history: keys whose link was set up anew before it was closed
  setupFailed \* history: link_setup() ran out of memory half-way

vars == <<links, slots, heap, wild, last, abandoned, setupFailed>>

NoLink == [status |-> "DISCONNECTED", key |-> Null, send |-> Null, recv |-> Null]
NoSlot == [at |-> Null, key |-> Null, status |-> "NON_ASSOCIATED", appl |-> Null,
           store |-> Cleared, partial |-> FALSE]
Nothing == [named |-> {}, ran |-> {}, partial |-> FALSE]

Init ==
  /\ links = [c \in Channels |-> NoLink]
  /\ slots = [i \in Slots |-> NoSlot]
  /\ heap = {} /\ wild = FALSE
  /\ last = Nothing /\ abandoned = {} /\ setupFailed = FALSE

-----------------------------------------------------------------------------
Open(c) == links[c].status # "DISCONNECTED"

LinkBlocks(c) == {links[c].send, links[c].recv} \cap Blocks
SlotBlocks(i) == {slots[i].at, slots[i].appl} \cap Blocks

Used == {i \in Slots : slots[i].at # Null}

\* a walk over asso_list that meets an entry whose block has been freed
WalkIsWild == \E i \in Used : slots[i].at = Dangling

\* the entries that a walk takes for the session's
OfKey(k) == {i \in Used : slots[i].key = k}

GoWild == wild' = TRUE /\ last' = Nothing /\ UNCHANGED <<links, slots, heap, abandoned, setupFailed>>

-----------------------------------------------------------------------------
\* the links

\* mutant: the storage of a released association stays allocated
CleanupKeepsStorage(cs) ==
  LET keys == {links[c].key : c \in {d \in cs : Open(d)}}
      gone == UNION {OfKey(k) : k \in keys}
  IN /\ links' = [c \in Channels |-> IF c \in cs THEN NoLink ELSE links[c]]
     /\ slots' = [i \in Slots |-> IF i \in gone THEN NoSlot ELSE slots[i]]
     /\ heap' = heap \ ((UNION {LinkBlocks(c) : c \in cs}) \cup {slots[i].at : i \in gone})
     /\ abandoned' = abandoned \ keys

\* link_cleanup() of some channels, with dlms_asso_cleanup() for those that are open
Cleanup(cs) ==
  LET keys == {links[c].key : c \in {d \in cs : Open(d)}}
      gone == UNION {OfKey(k) : k \in keys}
  IN /\ links' = [c \in Channels |-> IF c \in cs THEN NoLink ELSE links[c]]
     /\ slots' = [i \in Slots |-> IF i \in gone THEN NoSlot ELSE slots[i]]
     /\ heap' = heap \ ((UNION {LinkBlocks(c) : c \in cs}) \cup (UNION {SlotBlocks(i) : i \in gone}))
     /\ abandoned' = abandoned \ keys

CleanupIsWild(cs) ==
  \/ \E c \in cs : links[c].send = Dangling
  \/ (\E c \in cs : Open(c)) /\ WalkIsWild

\* link_setup() forgets the association of an open link
Forsaken(c, k) == IF Open(c) THEN {links[c].key} \ {k} ELSE {}

\* SNRM: the link is set up anew
Snrm(c, k) ==
  /\ links[c].status # "MARK" /\ links[c].send # Dangling
  /\ \E send, recv \in Blocks \ (heap \ LinkBlocks(c)) :
       /\ send # recv
       /\ heap' = (heap \ LinkBlocks(c)) \cup {send, recv}
       /\ links' = [links EXCEPT ![c] =
            [status |-> "CONNECTED", key |-> k, send |-> send, recv |-> recv]]
  /\ abandoned' = abandoned \cup Forsaken(c, k)
  /\ last' = Nothing
  /\ UNCHANGED <<slots, wild, setupFailed>>

\* SNRM without memory for the first buffer, or from an address of zero
SnrmRefused(c) ==
  /\ links[c].status # "MARK" /\ links[c].send # Dangling
  /\ heap' = heap \ LinkBlocks(c)
  /\ links' = [links EXCEPT ![c] = NoLink]
  /\ abandoned' = abandoned \cup Forsaken(c, Null)
  /\ last' = Nothing
  /\ UNCHANGED <<slots, wild, setupFailed>>

\* SNRM without memory for the second buffer: the first is freed, but not forgotten
SnrmHalfway(c) ==
  /\ links[c].status # "MARK" /\ links[c].send # Dangling
  /\ heap' = heap \ LinkBlocks(c)
  /\ links' = [links EXCEPT ![c] = [NoLink EXCEPT !.send = Dangling]]
  /\ abandoned' = abandoned \cup Forsaken(c, Null)
  /\ setupFailed' = TRUE
  /\ last' = Nothing
  /\ UNCHANGED <<slots, wild>>

\* SNRM after that frees the first buffer again
SnrmWild(c) == links[c].send = Dangling /\ GoWild

Disc(c) ==
  /\ links[c].status = "CONNECTED"
  /\ links' = [links EXCEPT ![c].status = "MARK"]
  /\ last' = Nothing
  /\ UNCHANGED <<slots, heap, wild, abandoned, setupFailed>>

\* hdlc_tick(): the links that are marked, and those whose timer has run out
Closing(expired) == {c \in Channels : links[c].status = "MARK" \/ (c \in expired /\ Open(c))}

Tick(expired) ==
  LET cs == Closing(expired)
  IN IF CleanupIsWild(cs) THEN GoWild
     ELSE Cleanup(cs) /\ last' = Nothing /\ UNCHANGED <<wild, setupFailed>>

\* The run level changes: dlms_exit() clears every channel, and the end of the task
\* loop takes the task's blocks back, whoever still points to them.
ChangeLevel ==
  IF CleanupIsWild(Channels) THEN GoWild
  ELSE LET kept == {i \in Used : \A c \in Channels : Open(c) => slots[i].key # links[c].key}
       IN /\ links' = [c \in Channels |-> NoLink]
          /\ slots' = [i \in Slots |->
               IF i \in kept THEN [slots[i] EXCEPT !.at = Dangling, !.appl = Null] ELSE NoSlot]
          /\ heap' = {}
          /\ abandoned' = abandoned \ {links[c].key : c \in {d \in Channels : Open(d)}}
          /\ last' = Nothing
          /\ UNCHANGED <<wild, setupFailed>>

-----------------------------------------------------------------------------
\* dlms_asso_gateway()

\* a frame of information for the application, on a link that is open
Gateway(c) == links[c].status = "CONNECTED" /\ ~WalkIsWild

GatewayWild(c) == links[c].status = "CONNECTED" /\ WalkIsWild /\ GoWild

\* What asso_aarq_none(), asso_aarq_low() and asso_aarq_high() make of the question.
\* ASSOCIATION_PENDING counts as associated here: the gateway does not tell them apart.
Verdicts == {"NON_ASSOCIATED", "ASSOCIATED"}

Fresh(at, k, verdict) == [NoSlot EXCEPT !.at = at, !.key = k, !.status = verdict]

\* AARQ for a session that has an entry: the entry is used again
AarqAgain(c, verdict) ==
  /\ Gateway(c)
  /\ \E i \in OfKey(links[c].key) :
       /\ heap' = heap \ {slots[i].appl}
       /\ slots' = [slots EXCEPT ![i] = Fresh(slots[i].at, links[c].key, verdict)]
  /\ last' = Nothing
  /\ UNCHANGED <<links, wild, abandoned, setupFailed>>

\* mutant: an entry is taken though the session has one
AarqNewAnyway(c, verdict) ==
  /\ Gateway(c)
  /\ \E i \in Slots \ Used, at \in Blocks \ heap :
       /\ \A j \in Slots \ Used : i <= j
       /\ heap' = heap \cup {at}
       /\ slots' = [slots EXCEPT ![i] = Fresh(at, links[c].key, verdict)]
  /\ last' = Nothing
  /\ UNCHANGED <<links, wild, abandoned, setupFailed>>

\* AARQ for a session that has none: the first free entry is taken.  The table may
\* be full, or the heap: then there is no answer.
AarqNew(c, verdict) ==
  /\ Gateway(c) /\ OfKey(links[c].key) = {}
  /\ \E i \in Slots \ Used, at \in Blocks \ heap :
       /\ \A j \in Slots \ Used : i <= j
       /\ heap' = heap \cup {at}
       /\ slots' = [slots EXCEPT ![i] = Fresh(at, links[c].key, verdict)]
  /\ last' = Nothing
  /\ UNCHANGED <<links, wild, abandoned, setupFailed>>

\* RLRQ: asso_rlrq() releases the entry
Rlrq(c) ==
  /\ Gateway(c)
  /\ \E i \in OfKey(links[c].key) :
       /\ heap' = heap \ SlotBlocks(i)
       /\ slots' = [slots EXCEPT ![i] = NoSlot]
  /\ last' = Nothing
  /\ UNCHANGED <<links, wild, abandoned, setupFailed>>

\* a list that the meter can serve in part: it is refused, and leaves entries behind
PartlyKnown(r) == Named(r) \cap Known # {} /\ ~(Named(r) \subseteq Known)

\* Any other question: dlms_appl_entrance(), if the session is associated.  The storage is attached at the first request, if there is memory.
Ask(c, r) ==
  /\ Gateway(c)
  /\ \E i \in OfKey(links[c].key) :
       /\ slots[i].status # "NON_ASSOCIATED"
       /\ \E appl \in (IF slots[i].appl = Null THEN Blocks \ heap ELSE {slots[i].appl}),
             out \in Outcomes(slots[i].store, r) :
            /\ heap' = heap \cup {appl}
            /\ slots' = [slots EXCEPT ![i].appl = appl, ![i].store = out.store,
                 ![i].partial = out.store # Cleared /\ (@ \/ PartlyKnown(r))]
            /\ last' = [named |-> Named(r), ran |-> out.ran, partial |-> slots[i].partial]
  /\ UNCHANGED <<links, wild, abandoned, setupFailed>>

-----------------------------------------------------------------------------
Next ==
  /\ ~wild
  /\ \/ \E c \in Channels :
          \/ \E k \in Keys : Snrm(c, k)
          \/ SnrmRefused(c) \/ SnrmHalfway(c) \/ SnrmWild(c)
          \/ Disc(c) \/ Rlrq(c) \/ GatewayWild(c)
          \/ \E verdict \in Verdicts : AarqAgain(c, verdict) \/ AarqNew(c, verdict)
          \/ \E r \in Request : Ask(c, r)
     \/ \E expired \in SUBSET Channels : Tick(expired)
     \/ ChangeLevel

Spec == Init /\ [][Next]_vars

-----------------------------------------------------------------------------
\* properties

Links == [status : {"DISCONNECTED", "CONNECTED", "MARK"}, key : Keys \cup {Null},
          send : Blocks \cup {Null, Dangling}, recv : Blocks \cup {Null}]
Entries == [at : Blocks \cup {Null, Dangling}, key : Keys \cup {Null}, status : Verdicts,
            appl : Blocks \cup {Null}, store : Storage, partial : BOOLEAN]

\* The variables hold the values they can have.
AssociationsTypeOK ==
  /\ links \in [Channels -> Links]
  /\ slots \in [Slots -> Entries]
  /\ heap \subseteq Blocks
  /\ wild \in BOOLEAN /\ setupFailed \in BOOLEAN
  /\ abandoned \subseteq Keys
  /\ last \in [named : SUBSET Objects, ran : SUBSET Known, partial : BOOLEAN]

OnlyThese ==
  heap = (UNION {LinkBlocks(c) : c \in Channels}) \cup (UNION {SlotBlocks(i) : i \in Slots})
NotShared ==
  /\ \A c, d \in Channels : c # d => LinkBlocks(c) \cap LinkBlocks(d) = {}
  /\ \A i, j \in Slots : i # j => SlotBlocks(i) \cap SlotBlocks(j) = {}
  /\ \A c \in Channels, i \in Slots : LinkBlocks(c) \cap SlotBlocks(i) = {}
  /\ \A c \in Channels : links[c].send = links[c].recv => links[c].send = Null
  /\ \A i \in Slots : slots[i].at = slots[i].appl => slots[i].at = Null
WildOnlyAfter == wild => setupFailed \/ abandoned # {}
\* The links and the associations share no block and lose none: what the protocol
\* task holds of the heap is what they point to, through set-ups, releases, timeouts
\* and level changes.  Freed memory is used only after a set-up that failed half-way
\* or that forsook an association.
MemorySound == OnlyThese /\ NotShared /\ WildOnlyAfter

\* A session has one entry of asso_list at most, and an entry has an open link of its
\* session, but for those that an SNRM of another session forsook: link_cleanup() is
\* the only one to tell dlms_asso_cleanup() that a link is gone.
EntryFollowsLink ==
  /\ \A i \in Used : slots[i].key \in abandoned \cup {links[c].key : c \in {d \in Channels : Open(d)}}
  /\ \A i, j \in Used : i # j => slots[i].key # slots[j].key

\* A request runs the handlers of objects it names and of no other, whatever was asked
\* before: dlms_appl_entrance() leaves no entry alive - but for a list that it refused
\* because the meter knows only some of the objects.
RunsAskedUnlessLeft == last.ran \subseteq last.named \/ last.partial

\* The same without exception: dlms_appl_entrance() checks that the entries made are
\* legal (dlms_application.c:2647) and counts the active ones (:123).
RunsWhatIsAsked == last.ran \subseteq last.named
=============================================================================
