------------------------------- MODULE Display -------------------------------
(***************************************************************************)
(* The display task (Tasks/Display/Src/task_display.c): lists of items in  *)
(* a parameter file, shown one after the other (the scroll list), or at    *)
(* the press of a key (the key list, left again after a while), a          *)
(* backlight that goes out by itself, messages that come between, and the  *)
(* setters of times and lists.  The item in view is kept twice: its place  *)
(* and the list's length in RAM, the item itself as read from the file.    *)
(***************************************************************************)
EXTENDS Integers, FiniteSets, SequencesExt

CONSTANTS
  Items,         \* what a caller may add to a list
  Blank,         \* an entry nobody has written: zeros
  Straddling,    \* bytes of two entries of the next list, read as one
  ListMax,       \* DISP_CONF_AMOUNT_IN_LIST, 128 in the code
  Byte,          \* 256 in the code: all counters are bytes
  Second,        \* loops in a second
  Half,          \* loops in half a second
  Insertion,     \* loops a message stays in view; a second or more in the code
  DefaultTimes,  \* times.start, scroll and light of a factory reset
  DefaultAmount, \* the amount it first gives the first two lists, 6 in the code
  DefaultItems,  \* the items it writes to them
  TimeChoices,   \* times a caller may set
  MaxEdits,      \* bound: calls that write the file
  MaxFaults      \* bound: file operations that fail

Scrolling == 0
Alternate == 1   \* the key list
Debug == 2
Channels == {Scrolling, Alternate, Debug}
Bytes == 0 .. Byte - 1
Entries == Items \cup {Blank} \cup {DefaultItems[i] : i \in DOMAIN DefaultItems}

ASSUME DisplayAssumption ==
  /\ ListMax \in Nat \ {0, 1} /\ Byte = 2 * ListMax
  /\ Half \in Nat \ {0} /\ Second \in Nat /\ Half < Second /\ Second <= 2 * Half
  /\ Insertion \in Nat \ {0}
  /\ DefaultTimes \in [start : Bytes, scroll : Bytes, light : Bytes]
  /\ DefaultAmount \in 0 .. ListMax
  /\ DefaultItems \in Seq({DefaultItems[i] : i \in DOMAIN DefaultItems})
  /\ Len(DefaultItems) < ListMax
  /\ TimeChoices \subseteq Bytes
  /\ Blank \notin Items /\ Straddling \notin Entries
  /\ MaxEdits \in Nat /\ MaxFaults \in Nat

VARIABLES
  level,    \* RUN or WAKEUP while the task is up, else off
  file,     \* the file "display" and how far it reaches
  view,     \* disp_runs, the backlight, and as history whether the item in view
            \* need not be the one the list holds (missed)
  alone,    \* history: the last step was not a call of others
  edits, faults

displayVars == <<level, file, view, alone, edits, faults>>

-----------------------------------------------------------------------------
\* The file.  struct __disp_param is longer than the 4096 bytes of the file: the
\* key list loses its last place, the debug list is outside altogether.

PlaceOf == [start |-> 1, scroll |-> 2, light |-> 3, dots |-> 4]
AmountAt(c) == 5 + c * (ListMax + 1)
\* an index past a list names bytes of the next one, its amount included
EntryAt(c, i) == AmountAt(c) + 1 + i + (IF i < ListMax THEN 0 ELSE 1)
FileSize == EntryAt(Alternate, ListMax - 2)

NoFile == [length |-> 0,
           time   |-> [start |-> 0, scroll |-> 0, light |-> 0],
           amount |-> [c \in {Scrolling, Alternate} |-> 0],
           entry  |-> [c \in {Scrolling, Alternate} |-> [i \in 0 .. ListMax - 1 |-> Blank]]]

\* parameter_read(): nothing beyond the end of the file is read
Readable(f, place) == place <= f.length

\* parameter_write() outside the file is refused, inside it may lengthen the file
Writable(place) == place <= FileSize
Reaching(f, place) == [f EXCEPT !.length = IF @ < place THEN place ELSE @]

\* the faults of a handler: the operations in `bad` fail
Failing(ops) == {bad \in SUBSET ops : Cardinality(bad) <= MaxFaults - faults}
Spend(bad) == faults' = faults + Cardinality(bad)

EntryIn(f, c, i) == IF i < ListMax THEN f.entry[c][i] ELSE Straddling

-----------------------------------------------------------------------------
\* Showing an item.  A handler is a function of what is in view: `v` is the view,
\* `bad` the file operations that fail.

NoView == [channel |-> Scrolling, last |-> Scrolling, amount |-> 0, index |-> 0,
           entry |-> Blank, scroll |-> 0, start |-> 0, light |-> 0,
           time |-> NoFile.time, record |-> 0, flush |-> 0, insert |-> 0,
           lit |-> FALSE, missed |-> TRUE]

\* what display_list_show_next(), _last() and _index() have in common: the item at
\* v.index is read, and a key list lights up at the mains level
Shown(v, bad) ==
  LET place == EntryAt(v.channel, v.index)
      found == "entry" \notin bad /\ Readable(file, place)
      lights == v.channel = Alternate /\ level = "RUN"
  IN  [v EXCEPT !.scroll = 0,
                !.light = IF lights THEN v.time.light ELSE @,
                !.lit = @ \/ lights,
                !.entry = IF found THEN EntryIn(file, v.channel, v.index) ELSE @,
                !.missed = @ \/ ~found]

ShowNext(v, bad) ==
  LET next == (v.index + 1) % Byte
  IN  Shown([v EXCEPT !.index = IF next >= v.amount THEN 0 ELSE next], bad)

\* from the first item to the last; in an empty list to index 255
ShowLast(v, bad) ==
  Shown([v EXCEPT !.index = (IF @ > 0 THEN @ - 1 ELSE v.amount - 1) % Byte], bad)

\* mutant: the item is not read
ShowIndexLater(v, i, bad) == IF i >= v.amount THEN v ELSE [v EXCEPT !.index = i]

ShowIndex(v, i, bad) ==
  IF i >= v.amount THEN v ELSE Shown([v EXCEPT !.index = i], bad)

\* mutant: the key list is remembered like any other
LeavingAny(v) == v.channel

\* the list a change leaves, to go back to: never the key list
Leaving(v) == IF v.channel # Alternate THEN v.channel ELSE v.last

\* display_change(): when the amount cannot be read that of the list before stays
Change(v, c, bad) ==
  LET found == "amount" \notin bad /\ Readable(file, AmountAt(c))
      n == IF found THEN file.amount[c] ELSE v.amount
      moved == [v EXCEPT !.last = Leaving(v),
                         !.channel = c, !.amount = n, !.scroll = 0, !.index = 0,
                         !.missed = ~found \/ n = 0]
  IN  ShowIndex(moved, 0, bad)

Reads == {"amount", "entry"}

-----------------------------------------------------------------------------
\* display_loop(), in the order of its parts

\* mutant: the time must be exceeded
ScrollIsDueLate(v) == v.scroll > v.time.scroll
ScrollIsDue(v) == v.scroll >= v.time.scroll

\* the half-second counts once the start-up picture is over; above Half it makes
\* no difference.  Off the mains the light goes out at once.
Counted(v) ==
  [v EXCEPT !.flush = IF v.start >= v.time.start /\ @ < Half THEN @ + 1 ELSE @,
            !.lit = @ /\ level = "RUN",
            !.light = IF v.lit /\ level # "RUN" THEN 0 ELSE @]

\* a message is in view: nothing else is counted, and the second is over with it
Inserted(v) ==
  [v EXCEPT !.lit = @ \/ level = "RUN", !.insert = @ - 1,
            !.record = IF v.insert = 1 THEN 2 * Second ELSE @]

Dimmed(v) ==
  [v EXCEPT !.light = IF @ > 0 THEN @ - 1 ELSE 0, !.lit = @ /\ v.light # 1]

\* the start-up picture, then the next item whenever the scroll time is over
Scrolled(v, bad) ==
  LET started  == [v EXCEPT !.start = @ + 1]
      counted == [v EXCEPT !.scroll = (@ + 1) % Byte]
  IN  IF v.start < v.time.start
      THEN IF started.start >= v.time.start THEN ShowIndex(started, v.index, bad) ELSE started
      ELSE IF ScrollIsDue(counted) THEN ShowNext(counted, bad) ELSE counted

\* the key list: back to the list before when the time is over
Alternated(v, bad) ==
  LET counted == [v EXCEPT !.scroll = (@ + 1) % Byte]
      back == IF ScrollIsDue(counted) THEN Change(counted, v.last, bad) ELSE counted
  IN  [back EXCEPT !.start = (back.time.start + 1) % Byte]

SecondOver(v, bad) ==
  LET begun == Dimmed([v EXCEPT !.record = 0, !.flush = 0])
  IN  IF v.channel = Alternate THEN Alternated(begun, bad) ELSE Scrolled(begun, bad)

\* flush_data(): the values are read again, the item is not
Flushed(v) ==
  IF v.flush < Half THEN v
  ELSE [v EXCEPT !.flush = 0, !.index = IF @ >= v.amount THEN 0 ELSE @]

Looped(v, bad) ==
  LET counted == Counted(v)
      ticked  == [counted EXCEPT !.record = @ + 1]
  IN  IF v.insert > 0 THEN Inserted(counted)
      ELSE IF ticked.record >= Second THEN SecondOver(ticked, bad)
      ELSE Flushed(ticked)
-----------------------------------------------------------------------------
\* The lists in the file

\* mutant: a full list grows on
FullNever(n) == FALSE
Full(n) == n >= ListMax

\* display_config_list_write(): the amount is read, the item written behind the
\* last one and the amount written back, each whether the others failed or not
AmountOf(f, c, bad) ==
  IF "amount" \notin bad /\ Readable(f, AmountAt(c)) THEN f.amount[c] ELSE 0

ListWritten(f, c, item, bad) ==
  LET n == AmountOf(f, c, bad)
      withItem == IF "item" \in bad \/ ~Writable(EntryAt(c, n)) THEN f
                  ELSE Reaching([f EXCEPT !.entry[c][n] = item], EntryAt(c, n))
  IN  IF Full(n) THEN f
      ELSE IF "write" \in bad \/ ~Writable(AmountAt(c)) THEN withItem
      ELSE Reaching([withItem EXCEPT !.amount[c] = n + 1], AmountAt(c))

AmountWritten(f, c, n, bad) ==
  IF "write" \in bad \/ ~Writable(AmountAt(c)) THEN f
  ELSE Reaching([f EXCEPT !.amount[c] = n], AmountAt(c))

\* display_reset() on a formatted disk, one default after the other: the times and
\* the decimal places, the amounts, which list.clean() takes back, and the items.
\* The operations in `bad` fail: 1 to 4, 5 to 8, and then three for every item.
TimeWritten(f, place) ==
  Reaching([f EXCEPT !.time = [x \in DOMAIN @ |->
              IF PlaceOf[x] = place THEN DefaultTimes[x] ELSE @[x]]], place)

\* the i-th item is three operations
ItemOps == [amount |-> 9, item |-> 10, write |-> 11]
ItemFailures(i, bad) == {op \in DOMAIN ItemOps : ItemOps[op] + 3 * i \in bad}

DefaultWrite(f, k, bad) ==
  LET i == k - 9
  IN  IF k <= 4 THEN IF k \in bad THEN f ELSE TimeWritten(f, <<4, 2, 3, 1>>[k])
      ELSE IF k <= 8
      THEN AmountWritten(f, IF k \in {5, 7} THEN Scrolling ELSE Alternate,
                         IF k <= 6 THEN DefaultAmount ELSE 0,
                         IF k \in bad THEN {"write"} ELSE {})
      ELSE ListWritten(f, i % 2, DefaultItems[(i \div 2) + 1], ItemFailures(i, bad))

Defaults == 8 + 2 * Len(DefaultItems)

DefaultFile(bad) ==
  LET after[k \in 0 .. Defaults] == IF k = 0 THEN NoFile ELSE DefaultWrite(after[k - 1], k, bad)
  IN  after[Defaults]

ResetWrites == 1 .. (8 + 6 * Len(DefaultItems))

-----------------------------------------------------------------------------
DisplayInit ==
  /\ level = "off" /\ file \in {NoFile, DefaultFile({})}
  /\ view = NoView
  /\ alone = TRUE
  /\ edits = 0 /\ faults = 0

\* display_init(): the mains level lights up, the other one does not
Start(l) ==
  /\ level = "off" /\ level' = l
  /\ \E bad \in Failing({"time", "amount", "entry"}) :
       LET timed == IF "time" \in bad \/ ~Readable(file, PlaceOf.light) THEN NoFile.time
                    ELSE file.time
           n == AmountOf(file, Scrolling, bad)
           found == "entry" \notin bad /\ Readable(file, EntryAt(Scrolling, 0))
       IN  /\ Spend(bad)
           /\ view' = [NoView EXCEPT
                !.time = timed,
                !.amount = IF n > ListMax THEN 0 ELSE n,
                !.entry = IF found THEN EntryIn(file, Scrolling, 0) ELSE Blank,
                !.light = IF l = "RUN" THEN timed.light ELSE 0,
                !.lit = l = "RUN",
                !.missed = ~found \/ n = 0 \/ "amount" \in bad]
  /\ UNCHANGED <<file, alone, edits>>

\* display_exit(), or a loss of power: the display goes dark
Stop ==
  /\ level # "off" /\ level' = "off"
  /\ view' = NoView
  /\ UNCHANGED <<file, alone, edits, faults>>

\* the reset pass, after which the processor starts anew
Reset ==
  /\ level = "off"
  /\ \E bad \in Failing(ResetWrites) : Spend(bad) /\ file' = DefaultFile(bad)
  /\ UNCHANGED <<level, view, alone, edits>>

Loop ==
  /\ level # "off"
  /\ alone' = TRUE
  /\ UNCHANGED <<level, file, edits>>
  /\ \E bad \in Failing(Reads) : Spend(bad) /\ view' = Looped(view, bad)

\* key_changed() of the keyboard task: the first press comes to the key list, the
\* next ones move in it
Key(id) ==
  /\ level # "off"
  /\ \E bad \in Failing(Reads) :
       /\ Spend(bad)
       /\ view' = CASE view.channel # Alternate -> Change(view, Alternate, bad)
                    [] view.channel = Alternate /\ id = "UP" -> ShowLast(view, bad)
                    [] view.channel = Alternate /\ id = "DOWN" -> ShowNext(view, bad)
  /\ UNCHANGED <<level, file, edits>>

\* the interface: vm_display.c offers all of it but the messages
Shows ==
  /\ level # "off"
  /\ \E bad \in Failing(Reads) :
       /\ Spend(bad)
       /\ \/ \E c \in Channels : view' = Change(view, c, bad)
          \/ view' = ShowNext(view, bad)
          \/ view' = ShowLast(view, bad)
          \/ \E i \in Bytes : view' = ShowIndex(view, i, bad)
  /\ UNCHANGED <<level, file, edits>>

\* display_list_insert_message() lights up, display_list_insert_instance() does
\* not; is_entry is assigned nowhere, so the item inserted is not shown
Insert(lights) ==
  /\ level # "off"
  /\ view' = [view EXCEPT !.insert = Insertion, !.lit = @ \/ (lights /\ level = "RUN")]
  /\ UNCHANGED <<level, file, edits, faults>>

Editing == level # "off" /\ edits < MaxEdits /\ edits' = edits + 1

\* the setters of times: RAM takes the time whether the file does or not
TimeSet(x, second) ==
  /\ Editing
  /\ view' = [view EXCEPT !.time[x] = second]
  /\ \E bad \in Failing({"write"}) :
       /\ Spend(bad)
       /\ file' = IF "write" \in bad THEN file
                  ELSE Reaching([file EXCEPT !.time[x] = second], PlaceOf[x])
  /\ UNCHANGED level

\* the setters of decimal places: what they write back is what they have read
DotSet ==
  /\ Editing
  /\ file' = Reaching(file, PlaceOf.dots)
  /\ UNCHANGED <<level, view, faults>>

ListWrite(c, item) ==
  /\ Editing
  /\ \E bad \in Failing({"amount", "item", "write"}) :
       LET n == AmountOf(file, c, bad)
       IN  /\ Spend(bad)
           /\ file' = ListWritten(file, c, item, bad)
           /\ view' = IF view.channel # c \/ Full(n) THEN view
                      ELSE [view EXCEPT !.amount = n + 1,
                                        !.missed = @ \/ bad # {} \/ ~Writable(AmountAt(c))]
  /\ UNCHANGED level

ListClean(c) ==
  /\ Editing
  /\ \E bad \in Failing({"write"}) : Spend(bad) /\ file' = AmountWritten(file, c, 0, bad)
  /\ view' = IF view.channel # c THEN view
             ELSE [view EXCEPT !.amount = 0, !.missed = TRUE]
  /\ UNCHANGED level

\* what others do to the display
Call ==
  /\ alone' = FALSE
  /\ \/ \E id \in {"UP", "DOWN"} : Key(id)
     \/ Shows
     \/ \E lights \in BOOLEAN : Insert(lights)
     \/ \E x \in DOMAIN view.time, second \in TimeChoices : TimeSet(x, second)
     \/ DotSet
     \/ \E c \in Channels : ListClean(c) \/ \E item \in Items : ListWrite(c, item)

DisplayNext == \/ \E l \in {"RUN", "WAKEUP"} : Start(l)
               \/ Stop \/ Reset \/ Loop \/ Call

DisplaySpec == DisplayInit /\ [][DisplayNext]_displayVars

\* tasks_loop() goes on calling the loop of a task that is up
DisplayFairSpec == DisplaySpec /\ WF_displayVars(Loop)

-----------------------------------------------------------------------------
Times == [{"start", "scroll", "light"} -> Bytes]
Files ==
  [length : 0 .. FileSize, time : Times,
   amount : [{Scrolling, Alternate} -> 0 .. ListMax],
   entry  : [{Scrolling, Alternate} -> [0 .. ListMax - 1 -> Entries]]]
Views ==
  [channel : Channels, last : {Scrolling, Debug}, amount : 0 .. ListMax, index : Bytes,
   entry : Entries \cup {Straddling}, scroll : Bytes, start : Bytes, light : Bytes,
   time : Times, record : 0 .. 2 * Second, flush : 0 .. Half, insert : 0 .. Insertion,
   lit : BOOLEAN, missed : BOOLEAN]

\* Every place and counter stays within its byte and every amount within its list,
\* in RAM and in the file, and the list to go back to is never the key list.
DisplayTypeOK ==
  /\ level \in {"off", "RUN", "WAKEUP"}
  /\ file \in Files
  /\ view \in Views
  /\ alone \in BOOLEAN /\ edits \in 0 .. MaxEdits /\ faults \in 0 .. MaxFaults

\* RAM and file agree about what is in view: through keys, time-outs, changes of
\* list, items added to the list in view and restarts, the item shown is the one the
\* file has at that place of that list.  It may be another one only after a file
\* operation of the list in view failed, after that list was cleaned, or when the
\* list is empty or not to be read.
ShowsItsList ==
  level # "off" /\ ~view.missed =>
    /\ view.amount = file.amount[view.channel]
    /\ view.index < view.amount
    /\ view.entry = file.entry[view.channel][view.index]

\* others call again and again
Disturbed == []<>~alone

\* Left alone, the display comes to rest: the key list gives way to the list before
\* it, and a light with time on its counter goes out.
DisplayRests ==
  \/ Disturbed
  \/ /\ []<>(level = "off" \/ view.channel # Alternate)
     /\ []<>(level = "off" \/ ~view.lit \/ view.light = 0)

\* Left alone in the scroll list, the display comes by every item of it, whatever
\* the times set and whatever was in view when the list became shorter or longer.
ScrollGoesRound ==
  \/ Disturbed
  \/ \A i \in 0 .. ListMax - 1 :
       []<>(level = "off" \/ view.channel # Scrolling \/ view.amount <= i \/ view.index = i)
=============================================================================
