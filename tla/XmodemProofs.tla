---------------------------- MODULE XmodemProofs ----------------------------
(***************************************************************************)
(* Proofs about Xmodem, for any number of ports and attempts, images and   *)
(* files of any size, and any number of faults.                            *)
(***************************************************************************)
EXTENDS Xmodem, TLAPS

\* The frames a client at p may have on the line.
FramesOf(p) ==
  {NoFrame, Noise, Foreign, Eot, Opening(p)}
    \cup {Block(n, <<p, a, n>>) : a \in Nat, n \in 1 .. Image[p]}
Spoilt == {NoFrame, Noise, Foreign}
Clients(p) ==
  [state : {"idle", "opening", "sending", "ending", "done"}, attempt : 0 .. Attempts[p],
   block : 0 .. Image[p], clean : BOOLEAN]

\* The variables with their structure.
InfoType ==
  \/ info = NoTransfer
  \/ /\ info \in [on : {TRUE}, file : Port, counter : Nat, timeout : 0 .. Patience + 1]
     /\ info.counter <= Room[info.file]
Histories == [by : Nat \X Nat, heard : SUBSET Port]
TypeInv ==
  /\ InfoType
  /\ reply \in {NoReply} \cup [code : Codes, port : Port]
  /\ turn \in {<<"loop", 0>>} \cup ({"in", "out"} \X Port)
  /\ DOMAIN toMeter = Port /\ \A p \in Port : toMeter[p] \in FramesOf(p)
  /\ toClient \in [Port -> {NoFrame} \cup [kind : Codes]]
  /\ DOMAIN files = Port /\ \A p \in Port : DOMAIN files[p] = 1 .. Room[p]
  /\ DOMAIN client = Port /\ \A p \in Port : client[p] \in Clients(p)
  /\ \A p \in Port : client[p].state = "sending" => client[p].block > 0
  /\ DOMAIN faults = Port /\ \A p \in Port : faults[p] \in 0 .. MaxFaults[p]
  /\ opened \in Histories /\ ended \in [Port -> Histories]

\* A client that has sent nothing too early has no frame on the line but the one it
\* waits for.
FrameAwaited(p) ==
  /\ client[p].clean /\ Waiting(p) => toMeter[p] \in Spoilt \cup {Current(p, client[p])}
  /\ client[p].clean /\ client[p].state = "done" => toMeter[p] \in Spoilt \cup {Eot}
ClientInv == \A p \in Port : FrameAwaited(p)

\* The histories name no attempt that is still to come, and a transfer is that of
\* the port that opened it.
HistoryInv ==
  /\ info.on => opened.by[1] = info.file /\ opened.by[1] \in opened.heard
  /\ \A p \in Port :
       /\ opened.by[1] = p => opened.by[2] <= client[p].attempt
       /\ ended[p].by[1] = p => ended[p].by[2] <= client[p].attempt

\* The transfer that is on is the one the client at p opened in this attempt, and
\* has heard no other.
Own(p) ==
  /\ info.on /\ client[p].clean
  /\ opened = [by |-> <<p, client[p].attempt>>, heard |-> {p}]

\* a reply on its way to p
Replied(p, code) == reply.port = p /\ reply.code = code
Arriving(p, code) == toClient[p].kind = code
Stored(p, n) == \A i \in 1 .. n : i <= Room[p] /\ files[p][i] = <<p, client[p].attempt, i>>

\* Then the client is never more than one reply behind the meter: no ACK is under
\* way for a block that is not written, nor two for one that is.
OpeningInv(p) ==
  /\ info.counter = 0
  /\ Arriving(p, "NAK") => toMeter[p] = NoFrame /\ ~Replied(p, "ACK")
  /\ Replied(p, "NAK") => toMeter[p] = NoFrame
SendingInv(p) ==
  LET b == client[p].block IN
  /\ info.counter \in {b - 1, b} /\ Stored(p, info.counter)
  /\ info.counter = b - 1 => ~Replied(p, "ACK") /\ ~Arriving(p, "ACK")
  /\ Arriving(p, "ACK") => toMeter[p] \in Spoilt /\ ~Replied(p, "ACK")
  /\ Replied(p, "ACK") => toMeter[p] \in Spoilt
EndingInv(p) ==
  Whole(p) /\ ~Replied(p, "ACK") /\ ~Arriving(p, "ACK")
Follows(p) ==
  /\ client[p].state # "done"
  /\ client[p].state = "opening" => OpeningInv(p)
  /\ client[p].state = "sending" => SendingInv(p)
  /\ client[p].state = "ending" => EndingInv(p)
OwnFollowed(p) == Own(p) => Follows(p)
OwnInv == \A p \in Port : OwnFollowed(p)

\* After its end the file stays as it is.
EndKept(p) ==
  client[p].clean /\ OwnTransfer(p) =>
    /\ client[p].state \in {"idle", "ending", "done"}
    /\ client[p].state # "idle" => Whole(p) /\ ~(info.on /\ info.file = p)
EndedInv == \A p \in Port : EndKept(p)

XmodemInv == TypeInv /\ ClientInv /\ HistoryInv /\ OwnInv /\ EndedInv

-----------------------------------------------------------------------------
\* Two blocks that follow each other have different numbers.
LEMMA Neighbours ==
  ASSUME NEW n \in Nat
  PROVE  (n + 1) % Modulus # n % Modulus
<1>. DEFINE m == Modulus
            q == n \div m
            r == (n + 1) \div m
<1>1. m \in Nat /\ m >= 2
  BY XmodemAssumption
<1>2. /\ n = m * q + (n % m) /\ q \in Nat
      /\ n + 1 = m * r + ((n + 1) % m) /\ r \in Nat
  BY <1>1
<1>3. SUFFICES ASSUME (n + 1) % m = n % m PROVE FALSE
  OBVIOUS
<1>4. m * r - m * q = 1
  BY <1>2, <1>3, <1>1
<1>5. CASE r <= q
  <2>1. PICK k \in Nat : q = r + k
    <3>1. q - r \in Nat /\ q = r + (q - r)
      BY <1>5, <1>2
    <3>. QED BY <3>1
  <2>2. m * q = m * r + m * k /\ m * k \in Nat
    BY <2>1, <1>1, <1>2
  <2>3. m * r \in Nat
    BY <1>1, <1>2
  <2>. QED
    BY <2>2, <2>3, <1>4
<1>6. CASE r > q
  <2>1. PICK k \in Nat : r = q + 1 + k
    <3>1. r - q - 1 \in Nat /\ r = q + 1 + (r - q - 1)
      BY <1>6, <1>2
    <3>. QED BY <3>1
  <2>2. m * r = m * q + m + m * k /\ m * k \in Nat /\ m * q \in Nat
    BY <2>1, <1>1, <1>2
  <2>. QED
    BY <2>2, <1>4, <1>1
<1>. QED
  BY <1>5, <1>6, <1>2

\* Block numbers are taken modulo the width of the field.
LEMMA Zero == 0 % Modulus = 0 /\ \A n \in Nat : n % Modulus \in Nat
BY XmodemAssumption

\* The frames of a client, by kind.
LEMMA FrameKinds ==
  /\ NoFrame.kind = "none" /\ Noise.kind = "noise" /\ Foreign.kind = "foreign" /\ Eot.kind = "EOT"
  /\ \A n, d : Block(n, d).kind = "block" /\ Block(n, d).number = n % Modulus /\ Block(n, d).data = d
BY DEF NoFrame, Noise, Foreign, Eot, Block

\* A frame is of one of these kinds.
LEMMA KindsOfFrames ==
  ASSUME NEW p \in Port, NEW f \in FramesOf(p)
  PROVE  f.kind \in {"none", "noise", "foreign", "EOT", "block"}
<1>1. CASE f \in {NoFrame, Noise, Foreign, Eot}
  BY <1>1, FrameKinds
<1>2. CASE f = Opening(p)
  BY <1>2, FrameKinds DEF Opening
<1>3. CASE \E a \in Nat, n \in 1 .. Image[p] : f = Block(n, <<p, a, n>>)
  BY <1>3, FrameKinds
<1>. QED
  BY <1>1, <1>2, <1>3 DEF FramesOf

\* The first block of a file, and no other frame, opens a transfer.
LEMMA Openings ==
  ASSUME NEW p \in Port
  PROVE  /\ Opening(p).kind = "block" /\ Opening(p).number = 0 /\ Opening(p).data = <<p, 0, 0>>
         /\ \A f \in FramesOf(p) : IsOpening(f) <=> f = Opening(p)
<1>1. Opening(p).kind = "block" /\ Opening(p).number = 0 /\ Opening(p).data = <<p, 0, 0>>
  BY FrameKinds, Zero DEF Opening
<1>2. IsOpening(Opening(p))
  BY <1>1 DEF IsOpening
<1>3. ASSUME NEW f \in {NoFrame, Noise, Foreign, Eot} PROVE ~IsOpening(f)
  BY FrameKinds DEF IsOpening
<1>4. ASSUME NEW a \in Nat, NEW n \in 1 .. Image[p] PROVE ~IsOpening(Block(n, <<p, a, n>>))
  <2>1. Image[p] \in Nat
    BY XmodemAssumption
  <2>2. Block(n, <<p, a, n>>).data[3] = n /\ n # 0
    BY FrameKinds, <2>1
  <2>. QED BY <2>2 DEF IsOpening
<1>5. ASSUME NEW f \in FramesOf(p) PROVE IsOpening(f) <=> f = Opening(p)
  <2>1. CASE f = Opening(p)
    BY <2>1, <1>2
  <2>2. CASE f \in {NoFrame, Noise, Foreign, Eot}
    <3>1. ~IsOpening(f)
      BY <1>3, <2>2
    <3>. QED BY <3>1, <1>2
  <2>3. CASE \E a \in Nat, n \in 1 .. Image[p] : f = Block(n, <<p, a, n>>)
    <3>1. ~IsOpening(f)
      BY <1>4, <2>3
    <3>. QED BY <3>1, <1>2
  <2>. QED
    BY <1>5, <2>1, <2>2, <2>3 DEF FramesOf
<1>. QED
  BY <1>1, <1>5

\* What a client sends next is a frame of its port.
LEMMA CurrentFrame ==
  ASSUME NEW p \in Port, NEW c \in Clients(p),
         c.state \in {"opening", "sending", "ending"}, c.state = "sending" => c.block > 0
  PROVE  Current(p, c) \in FramesOf(p)
<1>1. CASE c.state = "opening"
  BY <1>1 DEF Current, FramesOf
<1>2. CASE c.state = "sending"
  <2>1. c.attempt \in Nat /\ c.block \in 1 .. Image[p]
    BY <1>2, XmodemAssumption DEF Clients
  <2>. QED BY <1>2, <2>1 DEF Current, FramesOf
<1>3. CASE c.state = "ending"
  BY <1>3 DEF Current, FramesOf
<1>. QED
  BY <1>1, <1>2, <1>3

\* The types that sending a frame disturbs.
StationTypes ==
  /\ DOMAIN toMeter = Port /\ \A p \in Port : toMeter[p] \in FramesOf(p)
  /\ DOMAIN client = Port /\ \A p \in Port : client[p] \in Clients(p)
  /\ \A p \in Port : client[p].state = "sending" => client[p].block > 0

\* Sending keeps the types of the stations.
LEMMA SendTypes ==
  ASSUME StationTypes, NEW p \in Port, NEW c \in Clients(p), Send(p, c),
         c.state \in {"opening", "sending", "ending"}, c.state = "sending" => c.block > 0
  PROVE  StationTypes'
BY CurrentFrame DEF StationTypes, Send

\* The sizes and bounds of a port are natural numbers.
LEMMA Bounds ==
  ASSUME NEW p \in Port
  PROVE  Image[p] \in Nat /\ Image[p] > 0 /\ Room[p] \in Nat /\ Attempts[p] \in Nat /\ MaxFaults[p] \in Nat
BY XmodemAssumption

\* What a reply makes of the client that takes it.
LEMMA TakenCases ==
  ASSUME NEW p \in Port, client[p] \in Clients(p), NEW code \in Codes,
         NEW c, c = client[p], NEW t, t = Taken(p, code)
  PROVE  /\ t \in Clients(p) /\ t.attempt = c.attempt /\ t.clean = c.clean
         /\ \/ t.state = "idle"
            \/ code = "NAK" /\ c.state = "opening" /\ t.state = "sending" /\ t.block = 1
            \/ /\ code = "ACK" /\ c.state = "sending" /\ c.block < Image[p]
               /\ t.state = "sending" /\ t.block = c.block + 1
            \/ code = "ACK" /\ c.state = "sending" /\ c.block = Image[p] /\ t.state = "ending"
            \/ code = "ACK" /\ c.state = "ending" /\ t.state = "done"
            \/ t = c /\ ~(code = "ACK" /\ c.state \in {"sending", "ending"})
<1>0. c \in Clients(p) /\ Image[p] \in Nat /\ c.block \in 0 .. Image[p]
  BY Bounds DEF Clients
<1>1. CASE code = "CAN"
  <2>1. t = [c EXCEPT !.state = "idle"]
    BY <1>1 DEF Taken
  <2>. QED BY <2>1, <1>0 DEF Clients
<1>2. CASE code = "NAK" /\ c.state = "opening"
  <2>1. t = [c EXCEPT !.state = "sending", !.block = 1]
    BY <1>2 DEF Taken
  <2>2. t = [state |-> "sending", attempt |-> c.attempt, block |-> 1, clean |-> c.clean]
    BY <2>1, <1>0 DEF Clients
  <2>3. c.attempt \in 0 .. Attempts[p] /\ c.clean \in BOOLEAN /\ 1 \in 0 .. Image[p]
    BY <1>0, Bounds DEF Clients
  <2>. QED BY <2>2, <2>3, <1>2 DEF Clients
<1>3. CASE code = "ACK" /\ c.state = "sending" /\ c.block < Image[p]
  <2>1. t = [c EXCEPT !.block = @ + 1]
    <3>1. c.block # Image[p]
      BY <1>3, <1>0
    <3>. QED BY <1>3, <3>1 DEF Taken
  <2>. QED BY <2>1, <1>0, <1>3 DEF Clients
<1>4. CASE code = "ACK" /\ c.state = "sending" /\ c.block = Image[p]
  <2>1. t = [c EXCEPT !.state = "ending"]
    BY <1>4, <1>0 DEF Taken
  <2>. QED BY <2>1, <1>0, <1>4 DEF Clients
<1>5. CASE code = "ACK" /\ c.state = "ending"
  <2>1. t = [c EXCEPT !.state = "done"]
    BY <1>5 DEF Taken
  <2>. QED BY <2>1, <1>0, <1>5 DEF Clients
<1>6. ASSUME code # "CAN", ~(code = "NAK" /\ c.state = "opening"),
             ~(code = "ACK" /\ c.state = "sending"), ~(code = "ACK" /\ c.state = "ending")
      PROVE  t = c
  BY <1>6 DEF Taken
<1>. QED
  BY <1>0, <1>1, <1>2, <1>3, <1>4, <1>5, <1>6

\* The period goes round.
LEMMA NextTurn ==
  ASSUME NEW t \in {<<"loop", 0>>} \cup ({"in", "out"} \X Port)
  PROVE  After(t) \in {<<"loop", 0>>} \cup ({"in", "out"} \X Port)
<1>1. Ports \in Nat /\ 1 \in Port BY XmodemAssumption DEF Port
<1>2. CASE t = <<"loop", 0>> BY <1>1, <1>2 DEF After
<1>3. CASE t \in {"in", "out"} \X Port
  <2>1. PICK way \in {"in", "out"}, p \in Port : t = <<way, p>> BY <1>3
  <2>2. p < Ports => p + 1 \in Port BY <1>1 DEF Port
  <2>3. CASE way = "in" BY <1>1, <2>1, <2>2, <2>3 DEF After
  <2>4. CASE way = "out" BY <1>1, <2>1, <2>2, <2>4 DEF After
  <2>. QED BY <2>1, <2>3, <2>4
<1>. QED BY <1>2, <1>3

\* A frame taken off a port, and the reply to it, keep their types.
LEMMA ReceiveTypes ==
  ASSUME TypeInv, NEW p \in Port, NEW code \in Codes \cup {"none"}, Receive(p, code)
  PROVE  /\ reply' \in {NoReply} \cup [code : Codes, port : Port]
         /\ turn' \in {<<"loop", 0>>} \cup ({"in", "out"} \X Port)
         /\ DOMAIN toMeter' = Port /\ \A q \in Port : toMeter'[q] \in FramesOf(q)
         /\ UNCHANGED <<toClient, faults, client>>
<1>1. reply' \in {NoReply} \cup [code : Codes, port : Port]
  BY DEF Receive, NoReply, Codes
<1>2. turn' \in {<<"loop", 0>>} \cup ({"in", "out"} \X Port)
  BY NextTurn DEF Receive, TypeInv
<1>3. NoFrame \in FramesOf(p)
  BY DEF FramesOf
<1>. QED
  BY <1>1, <1>2, <1>3 DEF Receive, TypeInv

\* The fields of the transfer while one is on.
LEMMA WhenOn ==
  ASSUME TypeInv, info.on
  PROVE  /\ info \in [on : {TRUE}, file : Port, counter : Nat, timeout : 0 .. Patience + 1]
         /\ info.counter <= Room[info.file]
<1>1. NoTransfer.on = FALSE
  BY DEF NoTransfer
<1>2. info # NoTransfer
  BY <1>1
<1>. QED
  BY <1>2 DEF TypeInv, InfoType

\* Every step keeps the types.
LEMMA TypeStep ==
  ASSUME TypeInv, [Next]_vars
  PROVE  TypeInv'
<1>1. CASE Loop \/ ChangeLevel
  <2>1. InfoType'
    <3>1. CASE info' \in {info, NoTransfer}
      BY <3>1 DEF TypeInv, InfoType
    <3>2. CASE info.on /\ ~(info.timeout > Patience) /\ info' = [info EXCEPT !.timeout = @ + 1]
      <4>1. /\ info \in [on : {TRUE}, file : Port, counter : Nat, timeout : 0 .. Patience + 1]
            /\ info.counter <= Room[info.file]
        BY <3>2, WhenOn
      <4>2. info.timeout + 1 \in 0 .. Patience + 1
        BY <4>1, <3>2, XmodemAssumption
      <4>3. /\ info' \in [on : {TRUE}, file : Port, counter : Nat, timeout : 0 .. Patience + 1]
            /\ info'.counter = info.counter /\ info'.file = info.file
        BY <4>1, <4>2, <3>2
      <4>. QED BY <4>1, <4>3 DEF InfoType
    <3>. QED BY <1>1, <3>1, <3>2 DEF Loop, ChangeLevel
  <2>2. turn' \in {<<"loop", 0>>} \cup ({"in", "out"} \X Port)
    BY <1>1, XmodemAssumption DEF Loop, ChangeLevel, TypeInv, After, Port
  <2>. QED
    BY <1>1, <2>1, <2>2 DEF Loop, ChangeLevel, TypeInv, lineVars
<1>2. ASSUME NEW p \in Port, Out(p) PROVE TypeInv'
  <2>1. turn' \in {<<"loop", 0>>} \cup ({"in", "out"} \X Port)
    BY <1>2, XmodemAssumption DEF Out, After, Port
  <2>2. toClient' \in [Port -> {NoFrame} \cup [kind : Codes]] /\ reply' \in {NoReply, reply}
    <3>1. reply.port = p => reply.code \in Codes
      <4>1. p # 0
        BY DEF Port
      <4>. QED BY <4>1 DEF TypeInv, NoReply
    <3>2. reply.port = p => [kind |-> reply.code] \in [kind : Codes]
      BY <3>1
    <3>3. toClient \in [Port -> {NoFrame} \cup [kind : Codes]]
      BY DEF TypeInv
    <3>4. CASE reply.port = p /\ toClient[p] = NoFrame
      <4>1. toClient' = [toClient EXCEPT ![p] = [kind |-> reply.code]] /\ reply' = NoReply
        BY <1>2, <3>4 DEF Out
      <4>. QED BY <4>1, <3>2, <3>3, <3>4
    <3>5. CASE ~(reply.port = p /\ toClient[p] = NoFrame)
      <4>1. UNCHANGED <<toClient, reply>>
        BY <1>2, <3>5 DEF Out
      <4>. QED BY <4>1, <3>3
    <3>. QED BY <3>4, <3>5
  <2>. QED
    BY <1>2, <2>1, <2>2 DEF Out, TypeInv, InfoType
<1>3. ASSUME NEW p \in Port, In(p) PROVE TypeInv'
  <2>1. CASE Nothing(p)
    <3>1. turn' \in {<<"loop", 0>>} \cup ({"in", "out"} \X Port)
      BY <2>1, NextTurn DEF Nothing, TypeInv
    <3>. QED BY <2>1, <3>1 DEF Nothing, TypeInv, InfoType, meterVars, lineVars
  <2>2. CASE Ignored(p)
    BY <2>2, ReceiveTypes DEF Ignored, TypeInv, InfoType
  <2>3. CASE Open(p)
    <3>1. toMeter[p].data[1] = p
      BY <2>3, Openings DEF Open, TypeInv
    <3>2. InfoType'
      <4>1. CASE info' = [NoTransfer EXCEPT !.on = TRUE, !.file = toMeter[p].data[1]]
        <5>1. info' = [on |-> TRUE, file |-> p, counter |-> 0, timeout |-> 0]
          BY <4>1, <3>1 DEF NoTransfer
        <5>. QED BY <5>1, Bounds, XmodemAssumption DEF InfoType
      <4>. QED BY <2>3, <4>1 DEF Open, TypeInv, InfoType
    <3>3. opened' \in Histories
      <4>1. client[p].attempt \in Nat /\ p \in Nat
        BY XmodemAssumption DEF TypeInv, Clients, Port
      <4>. QED BY <2>3, <4>1 DEF Open, TypeInv, Histories
    <3>4. \E code \in Codes \cup {"none"} : Receive(p, code)
      BY <2>3 DEF Open, Codes
    <3>. QED BY <2>3, <3>2, <3>3, <3>4, ReceiveTypes DEF Open, TypeInv
  <2>4. CASE End(p) \/ Garbled(p) \/ Repeated(p) \/ Written(p) \/ Cancelled(p)
    <3>1. \E code \in Codes \cup {"none"} : Receive(p, code)
      BY <2>4 DEF End, Garbled, Repeated, Written, Cancelled, Codes
    <3>2. info.on /\ opened' = Heard(p) /\ Heard(p) \in Histories
      BY <2>4 DEF End, Garbled, Repeated, Written, Cancelled, Served, Heard, TypeInv, Histories
    <3>3. ended' \in [Port -> Histories]
      BY <2>4, <3>2 DEF End, Garbled, Repeated, Written, Cancelled, TypeInv
    <3>4. InfoType'
      <4>1. CASE info' \in {info, NoTransfer}
        BY <4>1 DEF TypeInv, InfoType
      <4>2. CASE info.counter + 1 <= Room[info.file] /\ info' = [info EXCEPT !.counter = @ + 1, !.timeout = 0]
        <5>1. info \in [on : {TRUE}, file : Port, counter : Nat, timeout : 0 .. Patience + 1]
          BY <3>2, WhenOn
        <5>2. 0 \in 0 .. Patience + 1 /\ info.counter + 1 \in Nat
          BY <5>1, XmodemAssumption
        <5>3. /\ info' \in [on : {TRUE}, file : Port, counter : Nat, timeout : 0 .. Patience + 1]
              /\ info'.counter = info.counter + 1 /\ info'.file = info.file
          BY <5>1, <5>2, <4>2
        <5>. QED BY <4>2, <5>3 DEF InfoType
      <4>. QED BY <2>4, <4>1, <4>2 DEF End, Garbled, Repeated, Written, Cancelled
    <3>5. DOMAIN files' = Port /\ \A q \in Port : DOMAIN files'[q] = 1 .. Room[q]
      BY <2>4 DEF End, Garbled, Repeated, Written, Cancelled, TypeInv
    <3>. QED BY <3>1, <3>2, <3>3, <3>4, <3>5, ReceiveTypes DEF TypeInv
  <2>. QED BY <1>3, <2>1, <2>2, <2>3, <2>4 DEF In
<1>4. ASSUME NEW p \in Port, Station(p) \/ Line(p) PROVE TypeInv'
  <2>0. StationTypes /\ client[p] \in Clients(p)
    BY DEF TypeInv, StationTypes
  <2>1. CASE Begin(p)
    <3>. DEFINE c == [state |-> "opening", attempt |-> client[p].attempt + 1, block |-> 0, clean |-> TRUE]
    <3>1. c \in Clients(p) /\ Send(p, c)
      BY <2>0, <2>1, XmodemAssumption DEF Begin, Clients
    <3>2. StationTypes'
      BY <2>0, <3>1, SendTypes
    <3>. QED BY <2>1, <3>2 DEF Begin, TypeInv, StationTypes, InfoType, meterVars
  <2>2. CASE Resend(p)
    <3>1. StationTypes'
      BY <2>0, <2>2, SendTypes DEF Resend, Silence, Waiting, StationTypes
    <3>. QED BY <2>2, <3>1 DEF Resend, TypeInv, StationTypes, InfoType, meterVars
  <2>3. CASE ResendEarly(p)
    <3>. DEFINE c == [client[p] EXCEPT !.clean = FALSE]
    <3>1. c \in Clients(p) /\ c.state = client[p].state /\ c.block = client[p].block
      BY <2>0 DEF Clients
    <3>2. StationTypes'
      BY <2>0, <2>3, <3>1, SendTypes DEF ResendEarly, Waiting, StationTypes
    <3>3. faults'[p] \in 0 .. MaxFaults[p]
      BY <2>3, Bounds DEF ResendEarly, TypeInv
    <3>. QED BY <2>3, <3>2, <3>3 DEF ResendEarly, TypeInv, StationTypes, InfoType, meterVars
  <2>4. CASE GiveUp(p)
    <3>1. StationTypes'
      BY <2>0, <2>4 DEF GiveUp, StationTypes, Clients, lineVars
    <3>. QED BY <2>4, <3>1 DEF GiveUp, TypeInv, StationTypes, InfoType, meterVars, lineVars
  <2>5. CASE Lose(p)
    <3>1. DOMAIN toMeter' = Port /\ \A q \in Port : toMeter'[q] \in FramesOf(q)
      <4>1. {NoFrame, Noise, Foreign} \subseteq FramesOf(p)
        BY DEF FramesOf
      <4>. QED BY <2>5, <4>1 DEF Lose, TypeInv
    <3>2. faults'[p] \in 0 .. MaxFaults[p]
      BY <2>5, Bounds DEF Lose, TypeInv
    <3>3. toClient' \in [Port -> {NoFrame} \cup [kind : Codes]]
      BY <2>5 DEF Lose, TypeInv
    <3>. QED BY <2>5, <3>1, <3>2, <3>3 DEF Lose, TypeInv, InfoType, meterVars
  <2>6. CASE Take(p)
    <3>. DEFINE c == Taken(p, toClient[p].kind)
    <3>1. toClient[p].kind \in Codes
      BY <2>6 DEF Take, TypeInv
    <3>2. c \in Clients(p) /\ (c.state = "sending" => c.block > 0)
      BY <2>0, <3>1, TakenCases, Bounds DEF StationTypes, Clients
    <3>3. StationTypes'
      <4>1. CASE c # client[p] /\ c.state \in {"sending", "ending"}
        BY <2>0, <2>6, <3>2, <4>1, SendTypes DEF Take
      <4>2. CASE ~(c # client[p] /\ c.state \in {"sending", "ending"})
        <5>1. client' = [client EXCEPT ![p] = c] /\ UNCHANGED toMeter
          BY <2>6, <4>2 DEF Take
        <5>. QED BY <2>0, <3>2, <5>1 DEF StationTypes
      <4>. QED BY <4>1, <4>2
    <3>4. toClient' \in [Port -> {NoFrame} \cup [kind : Codes]]
      BY <2>6 DEF Take, TypeInv
    <3>. QED BY <2>6, <3>3, <3>4 DEF Take, TypeInv, StationTypes, InfoType, meterVars
  <2>. QED BY <1>4, <2>1, <2>2, <2>3, <2>4, <2>5, <2>6 DEF Station, Line
<1>5. CASE UNCHANGED vars
  BY <1>5 DEF vars, meterVars, lineVars, TypeInv, InfoType
<1>. QED
  BY <1>1, <1>2, <1>3, <1>4, <1>5 DEF Next, Period

-----------------------------------------------------------------------------
\* What taking a reply changes.
LEMMA TakeMoves ==
  ASSUME TypeInv, NEW p \in Port, Take(p), NEW t, t = Taken(p, toClient[p].kind)
  PROVE  /\ toClient[p].kind \in Codes /\ client[p] \in Clients(p)
         /\ toClient'[p] = NoFrame /\ client'[p] = t
         /\ \A q \in Port \ {p} : toClient'[q] = toClient[q] /\ client'[q] = client[q]
                                  /\ toMeter'[q] = toMeter[q]
         /\ \/ /\ toMeter[p] = NoFrame /\ toMeter'[p] = Current(p, t)
               /\ t # client[p] /\ t.state \in {"sending", "ending"}
            \/ toMeter'[p] = toMeter[p] /\ (t = client[p] \/ t.state \notin {"sending", "ending"})
         /\ UNCHANGED <<info, reply, files, opened, ended>>
<1>1. toClient[p].kind \in Codes /\ client[p] \in Clients(p)
  BY DEF Take, TypeInv
<1>2. toClient'[p] = NoFrame /\ \A q \in Port \ {p} : toClient'[q] = toClient[q]
  BY DEF Take, TypeInv
<1>3. UNCHANGED <<info, reply, files, opened, ended>>
  BY DEF Take, meterVars
<1>4. CASE t # client[p] /\ t.state \in {"sending", "ending"}
  <2>1. Send(p, t)
    BY <1>4 DEF Take
  <2>. QED BY <1>1, <1>2, <1>3, <1>4, <2>1 DEF Send, TypeInv
<1>5. CASE ~(t # client[p] /\ t.state \in {"sending", "ending"})
  <2>1. client' = [client EXCEPT ![p] = t] /\ UNCHANGED toMeter
    BY <1>5 DEF Take
  <2>. QED BY <1>1, <1>2, <1>3, <1>5, <2>1 DEF TypeInv
<1>. QED
  BY <1>4, <1>5

\* What the meter's own steps leave of the clients and their frames.
LEMMA PeriodMoves ==
  ASSUME TypeInv, NEW p \in Port, Period \/ ChangeLevel
  PROVE  client' = client /\ toMeter'[p] \in {toMeter[p], NoFrame}
<1>1. ASSUME NEW q \in Port, In(q) PROVE client' = client /\ toMeter'[p] \in {toMeter[p], NoFrame}
  BY <1>1 DEF In, Nothing, Ignored, Open, End, Garbled, Repeated, Written, Cancelled, Receive,
     lineVars, TypeInv
<1>2. ASSUME NEW q \in Port, Out(q) PROVE client' = client /\ toMeter'[p] \in {toMeter[p], NoFrame}
  BY <1>2 DEF Out
<1>. QED
  BY <1>1, <1>2 DEF Period, Loop, ChangeLevel, lineVars

\* A client or a line touches its own port only, and nothing inside the meter.
LEMMA PortMoves ==
  ASSUME TypeInv, NEW q \in Port, Station(q) \/ Line(q)
  PROVE  /\ \A p \in Port \ {q} : client'[p] = client[p] /\ toMeter'[p] = toMeter[p]
                                  /\ toClient'[p] = toClient[p]
         /\ UNCHANGED <<info, reply, files, opened, ended>>
<1>1. CASE Begin(q) \/ Resend(q) \/ ResendEarly(q)
  BY <1>1 DEF Begin, Resend, ResendEarly, Send, meterVars, TypeInv
<1>2. CASE GiveUp(q) \/ Lose(q)
  BY <1>2 DEF GiveUp, Lose, meterVars, lineVars, TypeInv
<1>3. CASE Take(q)
  BY <1>3, TakeMoves
<1>. QED
  BY <1>1, <1>2, <1>3 DEF Station, Line

\* Every step keeps what is known of the clients.
LEMMA ClientStep ==
  ASSUME TypeInv, ClientInv, [Next]_vars
  PROVE  ClientInv'
<1>. SUFFICES ASSUME NEW p \in Port PROVE FrameAwaited(p)'
  BY DEF ClientInv
<1>0. FrameAwaited(p)
  BY DEF ClientInv
<1>1. CASE Period \/ ChangeLevel \/ UNCHANGED vars
  <2>1. client'[p] = client[p] /\ toMeter'[p] \in {toMeter[p], NoFrame}
    BY <1>1, PeriodMoves DEF vars, lineVars
  <2>. QED BY <1>0, <2>1 DEF FrameAwaited, Spoilt, Waiting, Current
<1>2. ASSUME NEW q \in Port, q # p, Station(q) \/ Line(q) PROVE FrameAwaited(p)'
  <2>1. client'[p] = client[p] /\ toMeter'[p] = toMeter[p]
    BY <1>2, PortMoves
  <2>. QED BY <1>0, <2>1 DEF FrameAwaited, Waiting, Current
<1>3. CASE Begin(p)
  <2>1. client'[p].state = "opening" /\ toMeter'[p] = Current(p, client'[p])
    BY <1>3 DEF Begin, Send, TypeInv
  <2>. QED BY <2>1 DEF FrameAwaited
<1>4. CASE Resend(p)
  <2>1. client'[p] = client[p] /\ Waiting(p) /\ toMeter'[p] = Current(p, client'[p])
    BY <1>4 DEF Resend, Silence, Send, TypeInv
  <2>. QED BY <2>1 DEF FrameAwaited, Waiting
<1>5. CASE ResendEarly(p)
  <2>1. client'[p].clean = FALSE
    BY <1>5 DEF ResendEarly, Send, TypeInv, Clients
  <2>. QED BY <2>1 DEF FrameAwaited
<1>6. CASE GiveUp(p)
  <2>1. client'[p].state = "idle"
    BY <1>6 DEF GiveUp, TypeInv, Clients
  <2>. QED BY <2>1 DEF FrameAwaited, Waiting
<1>7. CASE Lose(p)
  <2>1. client'[p] = client[p] /\ toMeter'[p] \in Spoilt \cup {toMeter[p]}
    BY <1>7 DEF Lose, TypeInv, Spoilt
  <2>. QED BY <1>0, <2>1 DEF FrameAwaited, Waiting, Current
<1>8. CASE Take(p)
  <2>. DEFINE t == Taken(p, toClient[p].kind)
              c == client[p]
  <2>1. client'[p] = t /\ toClient[p].kind \in Codes /\ c \in Clients(p)
    BY <1>8, TakeMoves
  <2>2. CASE t.state \in {"sending", "ending"} /\ toMeter'[p] = Current(p, t)
    BY <2>1, <2>2 DEF FrameAwaited
  <2>3. CASE toMeter'[p] = toMeter[p] /\ t = c
    BY <1>0, <2>1, <2>3 DEF FrameAwaited, Waiting
  <2>4. CASE toMeter'[p] = toMeter[p] /\ t.state = "idle"
    BY <2>1, <2>4 DEF FrameAwaited, Waiting
  <2>5. CASE toMeter'[p] = toMeter[p] /\ c.state = "ending" /\ t.state = "done" /\ t.clean = c.clean
    BY <1>0, <2>1, <2>5 DEF FrameAwaited, Waiting, Current
  <2>. QED
    <3>1. \/ t.state \in {"sending", "ending"} /\ toMeter'[p] = Current(p, t)
          \/ toMeter'[p] = toMeter[p] /\ (t = c \/ t.state \notin {"sending", "ending"})
      BY <1>8, TakeMoves
    <3>2. t.state = "idle" \/ t.state \in {"sending", "ending"} \/ t = c
            \/ (c.state = "ending" /\ t.state = "done" /\ t.clean = c.clean)
      BY <2>1, TakenCases
    <3>. QED BY <2>2, <2>3, <2>4, <2>5, <3>1, <3>2
<1>. QED
  BY <1>1, <1>2, <1>3, <1>4, <1>5, <1>6, <1>7, <1>8 DEF Next, Station, Line

\* A client never goes back to an earlier attempt.
LEMMA AttemptsGrow ==
  ASSUME TypeInv, NEW p \in Port, [Next]_vars
  PROVE  client[p].attempt \in Nat /\ client'[p].attempt \in Nat
         /\ client'[p].attempt >= client[p].attempt
<1>0. client[p] \in Clients(p) /\ client[p].attempt \in Nat
  BY Bounds DEF TypeInv, Clients
<1>1. CASE Period \/ ChangeLevel \/ UNCHANGED vars
  <2>1. client'[p] = client[p]
    BY <1>1, PeriodMoves DEF vars
  <2>. QED BY <1>0, <2>1
<1>2. ASSUME NEW q \in Port, q # p, Station(q) \/ Line(q)
      PROVE  client'[p] = client[p]
  BY <1>2, PortMoves
<1>3. CASE Begin(p)
  <2>1. client'[p].attempt = client[p].attempt + 1
    BY <1>3 DEF Begin, Send, TypeInv
  <2>. QED BY <1>0, <2>1
<1>4. CASE Resend(p) \/ ResendEarly(p) \/ GiveUp(p) \/ Lose(p)
  <2>1. client'[p].attempt = client[p].attempt
    BY <1>0, <1>4 DEF Resend, ResendEarly, GiveUp, Lose, Send, TypeInv, Clients
  <2>. QED BY <1>0, <2>1
<1>5. CASE Take(p)
  <2>1. client'[p].attempt = client[p].attempt
    BY <1>5, TakeMoves, TakenCases
  <2>. QED BY <1>0, <2>1
<1>. QED
  BY <1>0, <1>1, <1>2, <1>3, <1>4, <1>5 DEF Next, Station, Line

\* The steps of the meter that serve a frame of the transfer that is on.
Serves(p) == End(p) \/ Garbled(p) \/ Repeated(p) \/ Written(p) \/ Cancelled(p)

\* What changes when the transfer is served a frame of its port.
LEMMA ServeMoves ==
  ASSUME TypeInv, NEW p \in Port, Serves(p)
  PROVE  /\ info.on /\ opened' = Heard(p) /\ opened'.by = opened.by
         /\ opened'.heard = opened.heard \cup {p}
         /\ info'.on => info'.file = info.file
         /\ client' = client /\ toClient' = toClient
<1>1. info.on /\ opened' = Heard(p) /\ client' = client /\ toClient' = toClient
  BY DEF Serves, End, Garbled, Repeated, Written, Cancelled, Served, Receive
<1>2. opened'.by = opened.by /\ opened'.heard = opened.heard \cup {p}
  BY <1>1 DEF Heard, TypeInv, Histories
<1>3. CASE info' \in {info, NoTransfer}
  BY <1>1, <1>2, <1>3 DEF NoTransfer
<1>4. CASE info' = [info EXCEPT !.counter = @ + 1, !.timeout = 0]
  BY <1>1, <1>2, <1>4, WhenOn
<1>. QED
  BY <1>3, <1>4 DEF Serves, End, Garbled, Repeated, Written, Cancelled

\* What changes when a transfer is opened, or refused.
LEMMA OpenMoves ==
  ASSUME TypeInv, NEW p \in Port, Open(p)
  PROVE  /\ toMeter[p] = Opening(p) /\ ~info.on
         /\ \/ /\ info' = [on |-> TRUE, file |-> p, counter |-> 0, timeout |-> 0]
               /\ opened' = [by |-> <<p, client[p].attempt>>, heard |-> {p}]
               /\ Receive(p, "NAK")
            \/ Receive(p, "none") /\ UNCHANGED <<info, opened>>
         /\ UNCHANGED <<files, ended, client, toClient>>
<1>1. toMeter[p] = Opening(p) /\ toMeter[p].data[1] = p
  BY Openings DEF Open, TypeInv
<1>. QED
  BY <1>1 DEF Open, Receive, NoTransfer

\* What the meter's own loop changes.
LEMMA LoopMoves ==
  ASSUME TypeInv, Loop \/ ChangeLevel
  PROVE  /\ UNCHANGED <<opened, files, ended, client, toMeter, toClient, reply>>
         /\ info'.on => info.on /\ info'.file = info.file /\ info'.counter = info.counter
<1>1. UNCHANGED <<opened, files, ended, client, toMeter, toClient, reply>>
  BY DEF Loop, ChangeLevel, lineVars
<1>2. CASE info' \in {info, NoTransfer}
  BY <1>1, <1>2 DEF NoTransfer
<1>3. CASE info.on /\ info' = [info EXCEPT !.timeout = @ + 1]
  BY <1>1, <1>3, WhenOn
<1>. QED
  BY <1>2, <1>3 DEF Loop, ChangeLevel

\* The other steps begin no transfer and end none but by dropping it.
LEMMA OtherMoves ==
  ASSUME TypeInv, [Next]_vars, \A p \in Port : ~Open(p) /\ ~Serves(p)
  PROVE  /\ UNCHANGED <<opened, files, ended>>
         /\ info'.on => info.on /\ info'.file = info.file /\ info'.counter = info.counter
<1>1. CASE Loop \/ ChangeLevel
  BY <1>1, LoopMoves
<1>2. ASSUME NEW p \in Port, In(p) \/ Out(p) PROVE UNCHANGED <<opened, files, ended, info>>
  BY <1>2 DEF In, Out, Nothing, Ignored, Serves, meterVars
<1>3. ASSUME NEW p \in Port, Station(p) \/ Line(p) PROVE UNCHANGED <<opened, files, ended, info>>
  BY <1>3, PortMoves
<1>. QED
  BY <1>1, <1>2, <1>3 DEF Next, Period, vars, meterVars

\* No history names an attempt still to come, and a transfer is that of the port that opened it.
LEMMA HistoryStep ==
  ASSUME TypeInv, HistoryInv, [Next]_vars
  PROVE  HistoryInv'
<1>1. ASSUME NEW p \in Port, Open(p) PROVE HistoryInv'
  <2>1. UNCHANGED <<ended, client>>
    BY <1>1, OpenMoves
  <2>2. p \in Nat /\ client[p].attempt \in Nat
    BY Bounds DEF TypeInv, Clients, Port
  <2>3. CASE /\ info' = [on |-> TRUE, file |-> p, counter |-> 0, timeout |-> 0]
             /\ opened' = [by |-> <<p, client[p].attempt>>, heard |-> {p}]
    <3>1. info'.file = p /\ opened'.by[1] = p /\ opened'.by[2] = client[p].attempt
          /\ opened'.heard = {p}
      BY <2>3
    <3>. QED BY <2>1, <2>2, <3>1 DEF HistoryInv
  <2>. QED BY <1>1, <2>1, <2>3, OpenMoves DEF HistoryInv
<1>2. ASSUME NEW p \in Port, Serves(p) PROVE HistoryInv'
  <2>1. \A q \in Port : ended'[q].by = ended[q].by \/ ended'[q].by = opened.by
    <3>1. \A q \in Port : ended'[q] = ended[q] \/ ended'[q] = opened'
      BY <1>2, ServeMoves DEF Serves, End, Garbled, Repeated, Written, Cancelled, TypeInv
    <3>. QED BY <1>2, <3>1, ServeMoves
  <2>. QED BY <1>2, <2>1, ServeMoves DEF HistoryInv
<1>3. CASE \A p \in Port : ~Open(p) /\ ~Serves(p)
  <2>1. opened.by[2] \in Nat /\ \A p \in Port : ended[p].by[2] \in Nat
    BY DEF TypeInv, Histories
  <2>2. \A p \in Port : client[p].attempt \in Nat /\ client'[p].attempt \in Nat
                        /\ client'[p].attempt >= client[p].attempt
    BY AttemptsGrow
  <2>. QED BY <1>3, <2>1, <2>2, OtherMoves DEF HistoryInv
<1>. QED
  BY <1>1, <1>2, <1>3

-----------------------------------------------------------------------------
\* Nothing that happens to the client at p helps its replies on.
LEMMA Quietly ==
  ASSUME TypeInv, NEW p \in Port, OwnFollowed(p),
         client'[p] = client[p], opened' = opened, files' = files,
         info'.on => info.on /\ info'.counter = info.counter,
         toMeter'[p] \in {toMeter[p], NoFrame} \/ (toMeter[p] # NoFrame /\ toMeter'[p] \in Spoilt),
         toClient'[p] \in {toClient[p], NoFrame},
         reply' = reply \/ reply'.port # p
  PROVE  OwnFollowed(p)'
<1>. SUFFICES ASSUME Own(p)' PROVE Own(p) /\ Follows(p)'
  BY DEF OwnFollowed
<1>1. Own(p) /\ Follows(p)
  BY DEF Own, OwnFollowed
<1>2. \A code \in Codes : /\ Arriving(p, code)' => Arriving(p, code)
                          /\ Replied(p, code)' => Replied(p, code)
  BY FrameKinds DEF Arriving, Replied, Codes
<1>3. info'.counter = info.counter
  BY <1>1 DEF Own
<1>. QED
  BY <1>1, <1>2, <1>3 DEF Follows, OpeningInv, SendingInv, EndingInv, Stored, Whole, Codes, Spoilt

\* The blocks written are those of the client that opened the transfer.
LEMMA OwnStep ==
  ASSUME TypeInv, ClientInv, HistoryInv, OwnInv, [Next]_vars
  PROVE  OwnInv'
<1>. SUFFICES ASSUME NEW p \in Port, Own(p)' PROVE Follows(p)'
  BY DEF OwnInv, OwnFollowed
<1>0. /\ OwnFollowed(p) /\ FrameAwaited(p) /\ client[p] \in Clients(p) /\ toMeter[p] \in FramesOf(p)
      /\ client[p].state = "sending" => client[p].block > 0
      /\ toClient[p] \in {NoFrame} \cup [kind : Codes] /\ p # 0
  BY DEF OwnInv, ClientInv, TypeInv, Port
<1>1. /\ info'.on /\ client'[p].clean
      /\ opened' = [by |-> <<p, client'[p].attempt>>, heard |-> {p}]
      /\ opened'.by = <<p, client'[p].attempt>> /\ opened'.heard = {p}
  BY DEF Own
\* the meter
<1>2. CASE Loop \/ ChangeLevel \/ UNCHANGED vars
  <2>1. /\ UNCHANGED <<opened, files, client, toMeter, toClient, reply>>
        /\ info'.on => info.on /\ info'.counter = info.counter
    BY <1>2, LoopMoves DEF vars, meterVars, lineVars
  <2>2. client'[p] = client[p] /\ toMeter'[p] = toMeter[p] /\ toClient'[p] = toClient[p]
    BY <2>1
  <2>3. OwnFollowed(p)'
    BY <1>0, <2>1, <2>2, Quietly
  <2>. QED BY <2>3 DEF OwnFollowed
<1>3. ASSUME NEW q \in Port, q # p, In(q) PROVE Follows(p)'
  <2>1. CASE Nothing(q) \/ Ignored(q)
    <3>1. /\ UNCHANGED <<info, opened, files, client, toClient>> /\ toMeter'[p] = toMeter[p]
          /\ reply' = reply \/ reply' = NoReply
      BY <1>3, <2>1 DEF Nothing, Ignored, Receive, meterVars, lineVars, TypeInv
    <3>2. reply' = reply \/ reply'.port # p
      BY <1>0, <3>1 DEF NoReply
    <3>. QED BY <1>0, <3>1, <3>2, Quietly DEF OwnFollowed
  <2>2. CASE Open(q)
    BY <1>1, <1>3, <2>2, OpenMoves
  <2>3. CASE Serves(q)
    BY <1>1, <1>3, <2>3, ServeMoves
  <2>. QED BY <1>3, <2>1, <2>2, <2>3 DEF In, Serves
<1>4. CASE Nothing(p) \/ Ignored(p)
  <2>1. /\ UNCHANGED <<info, opened, files, client, toClient>> /\ toMeter'[p] \in {toMeter[p], NoFrame}
        /\ reply' = reply \/ reply' = NoReply
    BY <1>4 DEF Nothing, Ignored, Receive, meterVars, lineVars, TypeInv
  <2>2. reply' = reply \/ reply'.port # p
    BY <1>0, <2>1 DEF NoReply
  <2>. QED BY <1>0, <2>1, <2>2, Quietly DEF OwnFollowed
<1>5. CASE Open(p)
  <2>1. /\ toMeter[p] = Opening(p) /\ info'.counter = 0 /\ Receive(p, "NAK")
        /\ client' = client
    <3>1. info' # info
      BY <1>1, <1>5, OpenMoves
    <3>2. /\ info' = [on |-> TRUE, file |-> p, counter |-> 0, timeout |-> 0]
          /\ Receive(p, "NAK")
      BY <1>5, <3>1, OpenMoves
    <3>. QED BY <1>5, <3>2, OpenMoves
  <2>2. toMeter'[p] = NoFrame /\ reply' = [code |-> "NAK", port |-> p]
    BY <2>1 DEF Receive, TypeInv
  <2>3. client[p].state \in {"idle", "opening"}
    <3>1. Opening(p) \notin Spoilt \cup {Eot} /\ Opening(p).data[3] = 0
      BY Openings, FrameKinds DEF Spoilt
    <3>2. client[p].state = "sending" => Current(p, client[p]).data[3] > 0
      BY <1>0, FrameKinds DEF Current
    <3>3. client[p].state = "ending" => Current(p, client[p]) = Eot
      BY DEF Current
    <3>4. client[p].clean
      BY <1>1, <2>1
    <3>. QED BY <1>0, <2>1, <3>1, <3>2, <3>3, <3>4 DEF FrameAwaited, Waiting, Clients
  <2>4. OpeningInv(p)'
    BY <2>1, <2>2 DEF OpeningInv, Replied
  <2>. QED BY <2>1, <2>3, <2>4 DEF Follows
<1>6. CASE Serves(p)
  <2>1. /\ info.on /\ opened.by = opened'.by /\ client' = client /\ toClient' = toClient
        /\ opened.heard \subseteq {p}
    BY <1>1, <1>6, ServeMoves
  <2>2. Own(p)
    <3>1. opened.by = <<p, client[p].attempt>> /\ opened.by[1] = p
      BY <1>1, <2>1
    <3>2. opened.heard = {p}
      BY <2>1, <3>1 DEF HistoryInv
    <3>3. opened = [by |-> opened.by, heard |-> opened.heard]
      BY DEF TypeInv, Histories
    <3>. QED BY <1>1, <2>1, <3>1, <3>2, <3>3 DEF Own
  <2>3. Follows(p) /\ client[p].clean
    BY <1>0, <2>2 DEF OwnFollowed, Own
  <2>4. toMeter'[p] = NoFrame
    BY <1>6 DEF Serves, End, Garbled, Repeated, Written, Cancelled, Receive, TypeInv
  <2>5. CASE End(p) \/ Cancelled(p)
    BY <1>1, <2>5 DEF End, Cancelled, NoTransfer
  <2>6. CASE Garbled(p)
    <3>1. /\ UNCHANGED <<info, files>> /\ reply' = [code |-> "NAK", port |-> p]
          /\ toMeter[p] = Noise
      BY <2>6 DEF Garbled, Receive, Served
    <3>2. toMeter[p] # NoFrame
      BY <3>1, FrameKinds
    <3>. QED BY <2>1, <2>3, <2>4, <3>1, <3>2
         DEF Follows, OpeningInv, SendingInv, EndingInv, Stored, Whole, Replied, Arriving, Spoilt
  <2>7. CASE Repeated(p)
    <3>1. /\ UNCHANGED <<info, files>> /\ reply' = [code |-> "ACK", port |-> p]
          /\ toMeter[p].kind = "block" /\ toMeter[p].number = info.counter % Modulus
      BY <2>7 DEF Repeated, Receive, Served
    <3>2. toMeter[p] \notin Spoilt \cup {Eot}
      BY <3>1, FrameKinds DEF Spoilt
    <3>3. client[p].state \in {"idle", "opening", "sending"}
      BY <1>0, <2>3, <3>2 DEF FrameAwaited, Waiting, Current, Clients
    <3>4. client[p].state = "opening" => OpeningInv(p)'
      BY <2>1, <2>3, <2>4, <3>1, <3>2 DEF Follows, OpeningInv, Replied, Arriving, Spoilt
    <3>5. ASSUME client[p].state = "sending" PROVE SendingInv(p)'
      <4>. DEFINE b == client[p].block
      <4>1. b \in Nat /\ b > 0 /\ info.counter \in {b - 1, b} /\ SendingInv(p)
        BY <1>0, <2>3, <3>5, Bounds DEF Follows, SendingInv, Clients
      <4>2. toMeter[p].number = b % Modulus
        BY <1>0, <2>3, <3>2, <3>5, FrameKinds DEF FrameAwaited, Waiting, Current
      <4>3. info.counter # b - 1
        <5>1. b - 1 \in Nat /\ (b - 1) + 1 = b
          BY <4>1
        <5>2. b % Modulus # (b - 1) % Modulus
          BY <5>1, Neighbours
        <5>. QED BY <3>1, <4>2, <5>2
      <4>4. ~Arriving(p, "ACK")
        BY <3>2, <4>1 DEF SendingInv
      <4>. QED BY <2>1, <2>4, <3>1, <4>1, <4>3, <4>4 DEF SendingInv, Stored, Replied, Arriving, Spoilt
    <3>. QED BY <2>1, <3>3, <3>4, <3>5 DEF Follows
  <2>8. CASE Written(p)
    <3>1. /\ toMeter[p].kind = "block" /\ toMeter[p].number # info.counter % Modulus
          /\ toMeter[p].number = (info.counter + 1) % Modulus
          /\ info.counter + 1 <= Room[info.file]
          /\ files' = [files EXCEPT ![info.file][info.counter + 1] = toMeter[p].data]
          /\ info' = [info EXCEPT !.counter = @ + 1, !.timeout = 0]
          /\ reply' = [code |-> "ACK", port |-> p]
      BY <2>8 DEF Written, Receive, Served, IsNext
    <3>2. toMeter[p] \notin Spoilt \cup {Eot}
      BY <3>1, FrameKinds DEF Spoilt
    <3>3. client[p].state \in {"idle", "opening", "sending"}
      BY <1>0, <2>3, <3>2 DEF FrameAwaited, Waiting, Current, Clients
    <3>4. client[p].state # "opening"
      <4>1. SUFFICES ASSUME client[p].state = "opening" PROVE FALSE
        OBVIOUS
      <4>2. info.counter = 0 /\ toMeter[p] = Opening(p)
        BY <1>0, <2>3, <3>2, <4>1 DEF Follows, OpeningInv, FrameAwaited, Waiting, Current
      <4>. QED BY <3>1, <4>2, Openings, Zero
    <3>5. ASSUME client[p].state = "sending" PROVE SendingInv(p)'
      <4>. DEFINE b == client[p].block
      <4>1. b \in Nat /\ b > 0 /\ info.counter \in {b - 1, b} /\ SendingInv(p)
        BY <1>0, <2>3, <3>5, Bounds DEF Follows, SendingInv, Clients
      <4>2. toMeter[p].number = b % Modulus /\ toMeter[p].data = <<p, client[p].attempt, b>>
        BY <1>0, <2>3, <3>2, <3>5, FrameKinds DEF FrameAwaited, Waiting, Current
      <4>3. info.counter = b - 1 /\ info.counter + 1 = b
        BY <3>1, <4>1, <4>2
      <4>4. info.file = p /\ info'.counter = b
        <5>1. opened.by[1] = p
          BY <1>1, <2>1
        <5>. QED BY <2>1, <3>1, <4>3, <5>1, WhenOn DEF HistoryInv
      <4>5. Stored(p, b - 1)
        BY <4>1, <4>3 DEF SendingInv
      <4>6. Stored(p, b)'
        <5>1. DOMAIN files = Port /\ DOMAIN files[p] = 1 .. Room[p] /\ Room[p] \in Nat
          BY Bounds DEF TypeInv
        <5>2. files'[p] = [files[p] EXCEPT ![b] = <<p, client[p].attempt, b>>]
          BY <3>1, <4>2, <4>3, <4>4, <5>1
        <5>3. b \in 1 .. Room[p]
          BY <3>1, <4>1, <4>3, <4>4, <5>1
        <5>4. ASSUME NEW i \in 1 .. b PROVE i <= Room[p] /\ files'[p][i] = <<p, client[p].attempt, i>>
          <6>1. CASE i = b
            BY <5>1, <5>2, <5>3, <6>1
          <6>2. CASE i # b
            <7>1. i \in 1 .. (b - 1)
              BY <4>1, <6>2
            <7>2. i <= Room[p] /\ files[p][i] = <<p, client[p].attempt, i>>
              BY <4>5, <7>1 DEF Stored
            <7>. QED BY <5>1, <5>2, <5>3, <6>2, <7>2
          <6>. QED BY <6>1, <6>2
        <5>. QED BY <2>1, <5>4 DEF Stored
      <4>7. ~Arriving(p, "ACK")
        BY <4>1, <4>3 DEF SendingInv
      <4>. QED BY <2>1, <2>4, <4>1, <4>4, <4>6, <4>7 DEF SendingInv, Replied, Arriving, Spoilt
    <3>. QED BY <2>1, <3>3, <3>4, <3>5 DEF Follows
  <2>. QED BY <1>6, <2>5, <2>6, <2>7, <2>8 DEF Serves
<1>7. ASSUME NEW q \in Port, Out(q) PROVE Follows(p)'
  <2>1. UNCHANGED <<info, files, opened, toMeter, client>>
    BY <1>7 DEF Out
  <2>2. CASE q = p /\ reply.port = p /\ toClient[p] = NoFrame
    <3>1. toClient'[p] = [kind |-> reply.code] /\ reply' = NoReply
      BY <1>7, <2>2 DEF Out, TypeInv
    <3>2. \A code : /\ Arriving(p, code)' <=> Replied(p, code)
                    /\ ~Replied(p, code)'
      BY <1>0, <2>2, <3>1 DEF Arriving, Replied, NoReply
    <3>3. Own(p)
      BY <1>1, <2>1 DEF Own
    <3>. QED BY <1>0, <2>1, <3>2, <3>3
         DEF OwnFollowed, Follows, OpeningInv, SendingInv, EndingInv, Stored, Whole, Spoilt
  <2>3. CASE ~(q = p /\ reply.port = p /\ toClient[p] = NoFrame)
    <3>1. toClient'[p] = toClient[p]
      BY <1>7, <2>3 DEF Out, TypeInv
    <3>2. reply' = reply \/ reply'.port # p
      BY <1>0, <1>7, <2>3 DEF Out, NoReply
    <3>. QED BY <1>0, <2>1, <3>1, <3>2, Quietly DEF OwnFollowed
  <2>. QED BY <2>2, <2>3
\* the clients and the lines
<1>8. ASSUME NEW q \in Port, q # p, Station(q) \/ Line(q) PROVE Follows(p)'
  BY <1>0, <1>8, PortMoves, Quietly DEF OwnFollowed
<1>9. CASE Begin(p)
  <2>1. client'[p].attempt = client[p].attempt + 1 /\ client[p].attempt \in Nat
    BY <1>0, <1>9, Bounds DEF Begin, Send, TypeInv, Clients
  <2>2. opened.by[1] = p /\ opened.by[2] = client[p].attempt + 1
    <3>1. opened' = opened
      BY <1>9, PortMoves DEF Station
    <3>. QED BY <1>1, <2>1, <3>1
  <2>. QED BY <2>1, <2>2 DEF HistoryInv
<1>10. CASE Resend(p)
  <2>1. /\ toMeter[p] = NoFrame /\ toClient[p] = NoFrame /\ reply.port # p
        /\ client'[p] = client[p] /\ toClient' = toClient
    BY <1>10 DEF Resend, Silence, Send, TypeInv
  <2>2. UNCHANGED <<info, reply, files, opened>>
    BY <1>10, PortMoves DEF Station
  <2>3. \A code \in Codes : ~Arriving(p, code)' /\ ~Replied(p, code)'
    BY <2>1, <2>2, FrameKinds DEF Arriving, Replied, Codes
  <2>4. Own(p)
    BY <1>1, <2>1, <2>2 DEF Own
  <2>. QED BY <1>0, <2>1, <2>2, <2>3, <2>4
       DEF OwnFollowed, Follows, OpeningInv, SendingInv, EndingInv, Stored, Whole, Codes
<1>11. CASE ResendEarly(p)
  <2>1. client'[p].clean = FALSE
    BY <1>0, <1>11 DEF ResendEarly, Send, TypeInv, Clients
  <2>. QED BY <1>1, <2>1
<1>12. CASE GiveUp(p)
  <2>1. client'[p].state = "idle"
    BY <1>0, <1>12 DEF GiveUp, TypeInv, Clients
  <2>. QED BY <2>1 DEF Follows
<1>13. CASE Lose(p)
  <2>1. /\ client' = client /\ toClient'[p] \in {toClient[p], NoFrame}
        /\ toMeter'[p] = toMeter[p] \/ (toMeter[p] # NoFrame /\ toMeter'[p] \in Spoilt)
    BY <1>13 DEF Lose, TypeInv, Spoilt
  <2>2. UNCHANGED <<info, reply, files, opened>>
    BY <1>13, PortMoves DEF Line
  <2>. QED BY <1>0, <2>1, <2>2, Quietly DEF OwnFollowed
<1>14. CASE Take(p)
  <2>. DEFINE c == client[p]
              t == Taken(p, toClient[p].kind)
              code == toClient[p].kind
  <2>1. /\ code \in Codes /\ toClient'[p] = NoFrame /\ client'[p] = t
        /\ UNCHANGED <<info, reply, files, opened>>
        /\ \/ toMeter[p] = NoFrame /\ t # c /\ t.state \in {"sending", "ending"}
           \/ toMeter'[p] = toMeter[p] /\ (t = c \/ t.state \notin {"sending", "ending"})
    BY <1>14, TakeMoves
  <2>2. \A k \in Codes : ~Arriving(p, k)' /\ (Replied(p, k)' <=> Replied(p, k))
    BY <2>1, FrameKinds DEF Arriving, Replied, Codes
  <2>3. t.attempt = c.attempt /\ t.clean = c.clean
    BY <1>0, <2>1, TakenCases
  <2>4. Own(p) /\ Follows(p)
    BY <1>0, <1>1, <2>1, <2>3 DEF Own, OwnFollowed
  <2>5. CASE t.state = "idle"
    BY <2>1, <2>5 DEF Follows
  <2>6. CASE code = "NAK" /\ c.state = "opening" /\ t.state = "sending" /\ t.block = 1
    <3>1. info.counter = 0 /\ ~Replied(p, "ACK")
      BY <2>4, <2>6 DEF Follows, OpeningInv, Arriving
    <3>2. Stored(p, 0)'
      BY DEF Stored
    <3>3. SendingInv(p)'
      BY <2>1, <2>2, <2>6, <3>1, <3>2 DEF SendingInv, Codes
    <3>. QED BY <2>1, <2>6, <3>3 DEF Follows
  <2>7. CASE code = "ACK" /\ c.state = "sending"
    <3>0. c.block \in Nat
      BY <1>0, Bounds DEF Clients
    <3>1. SendingInv(p) /\ info.counter = c.block /\ Stored(p, c.block) /\ ~Replied(p, "ACK")
      BY <2>4, <2>7 DEF Follows, SendingInv, Arriving
    <3>2. CASE t.state = "sending" /\ t.block = c.block + 1
      <4>1. Stored(p, info.counter)'
        BY <2>1, <2>3, <3>1 DEF Stored
      <4>2. SendingInv(p)'
        BY <2>1, <2>2, <3>0, <3>1, <3>2, <4>1 DEF SendingInv, Codes
      <4>. QED BY <2>1, <3>2, <4>2 DEF Follows
    <3>3. CASE c.block = Image[p] /\ t.state = "ending"
      <4>1. Whole(p)'
        BY <2>1, <2>3, <3>1, <3>3 DEF Stored, Whole
      <4>. QED BY <2>1, <2>2, <3>1, <3>3, <4>1 DEF Follows, EndingInv, Codes
    <3>. QED BY <1>0, <2>1, <2>5, <2>7, <3>2, <3>3, TakenCases
  <2>8. CASE code = "ACK" /\ c.state = "ending"
    BY <2>4, <2>8 DEF Follows, EndingInv, Arriving
  <2>9. CASE t = c /\ toMeter'[p] = toMeter[p]
    BY <2>1, <2>2, <2>4, <2>9
    DEF Follows, OpeningInv, SendingInv, EndingInv, Stored, Whole, Codes
  <2>. QED BY <1>0, <2>1, <2>5, <2>6, <2>7, <2>8, <2>9, TakenCases
<1>. QED
  BY <1>2, <1>3, <1>4, <1>5, <1>6, <1>7, <1>8, <1>9, <1>10, <1>11, <1>12, <1>13, <1>14
  DEF Next, Period, In, Serves, Station, Line

\* After a transfer has ended well its file stays whole as it is.
LEMMA EndedStep ==
  ASSUME TypeInv, ClientInv, HistoryInv, OwnInv, EndedInv, [Next]_vars
  PROVE  EndedInv'
<1>. SUFFICES ASSUME NEW p \in Port, client'[p].clean, OwnTransfer(p)'
              PROVE  /\ client'[p].state \in {"idle", "ending", "done"}
                     /\ client'[p].state # "idle" => Whole(p)' /\ ~(info'.on /\ info'.file = p)
  BY DEF EndedInv, EndKept
<1>0. /\ EndKept(p) /\ OwnFollowed(p) /\ FrameAwaited(p)
      /\ client[p] \in Clients(p) /\ toMeter[p] \in FramesOf(p)
  BY DEF EndedInv, OwnInv, ClientInv, TypeInv
<1>1. ended'[p].by[1] = p /\ ended'[p].by[2] = client'[p].attempt /\ ended'[p].heard = {p}
  BY DEF OwnTransfer
\* a step that leaves the client, its file and its end alone
<1>2. ASSUME client'[p] = client[p], ended'[p] = ended[p],
             client[p].state # "idle" /\ info'.on /\ info'.file = p =>
               info.on /\ info.file = p,
             client[p].state # "idle" => files'[p] = files[p] \/ (info.on /\ info.file = p)
      PROVE  /\ client'[p].state \in {"idle", "ending", "done"}
             /\ client'[p].state # "idle" => Whole(p)' /\ ~(info'.on /\ info'.file = p)
  <2>1. client[p].clean /\ OwnTransfer(p)
    BY <1>2 DEF OwnTransfer
  <2>. QED BY <1>0, <1>2, <2>1 DEF EndKept, Whole
<1>3. CASE Loop \/ ChangeLevel \/ UNCHANGED vars
  BY <1>2, <1>3, LoopMoves DEF vars, meterVars
<1>4. ASSUME NEW q \in Port, Out(q) \/ Nothing(q) \/ Ignored(q)
      PROVE  UNCHANGED <<info, files, ended, client>>
  BY <1>4 DEF Out, Nothing, Ignored, Receive, meterVars, lineVars
<1>5. ASSUME NEW q \in Port, Open(q)
      PROVE  /\ client'[p].state \in {"idle", "ending", "done"}
             /\ client'[p].state # "idle" => Whole(p)' /\ ~(info'.on /\ info'.file = p)
  <2>1. UNCHANGED <<files, ended, client>> /\ toMeter[q] = Opening(q)
    BY <1>5, OpenMoves
  <2>2. info'.on => info'.file = q
    BY <1>5, OpenMoves
  <2>3. q = p => client[p].state \notin {"ending", "done"}
    <3>1. Opening(p) \notin Spoilt \cup {Eot}
      BY Openings, FrameKinds DEF Spoilt
    <3>. QED BY <1>0, <2>1, <3>1 DEF FrameAwaited, Waiting, Current
  <2>4. client[p].state \in {"idle", "ending", "done"}
    BY <1>0, <2>1 DEF EndKept, OwnTransfer
  <2>. QED BY <1>2, <2>1, <2>2, <2>3, <2>4
<1>6. ASSUME NEW q \in Port, Serves(q), ~(q = p /\ End(q))
      PROVE  /\ client'[p].state \in {"idle", "ending", "done"}
             /\ client'[p].state # "idle" => Whole(p)' /\ ~(info'.on /\ info'.file = p)
  <2>1. /\ client' = client /\ info.on /\ (info'.on => info'.file = info.file)
    BY <1>6, ServeMoves
  <2>2. ended'[p] = ended[p]
    BY <1>6 DEF Serves, End, Garbled, Repeated, Written, Cancelled, TypeInv
  <2>3. files'[p] = files[p] \/ info.file = p
    BY <1>6 DEF Serves, End, Garbled, Repeated, Written, Cancelled, TypeInv
  <2>. QED BY <1>2, <2>1, <2>2, <2>3
<1>7. ASSUME End(p)
      PROVE  /\ client'[p].state \in {"idle", "ending", "done"}
             /\ client'[p].state # "idle" => Whole(p)' /\ ~(info'.on /\ info'.file = p)
  <2>1. /\ info.on /\ toMeter[p] = Eot /\ info' = NoTransfer /\ ended'[p] = opened'
        /\ UNCHANGED <<files, client>>
    BY <1>7 DEF End, Served, Receive, TypeInv
  <2>2. opened'.by = opened.by /\ opened'.heard = opened.heard \cup {p}
    BY <1>7, ServeMoves DEF Serves
  <2>3. Own(p)
    <3>1. opened.by = <<p, client[p].attempt>> /\ opened.by[1] = p
      BY <2>1, <2>2 DEF OwnTransfer
    <3>2. opened.heard = {p}
      BY <1>1, <2>1, <2>2, <3>1 DEF HistoryInv
    <3>3. opened = [by |-> opened.by, heard |-> opened.heard]
      BY DEF TypeInv, Histories
    <3>. QED BY <2>1, <3>1, <3>2, <3>3 DEF Own
  <2>4. Follows(p)
    BY <1>0, <2>3 DEF OwnFollowed
  <2>5. client[p].state \in {"idle", "ending"}
    <3>1. Eot.kind # "block" /\ Eot \notin Spoilt
      BY FrameKinds DEF Spoilt
    <3>2. Opening(p) # Eot /\ \A n, d : Block(n, d) # Eot
      BY <3>1, Openings, FrameKinds
    <3>. QED BY <1>0, <2>1, <2>4, <3>1, <3>2 DEF FrameAwaited, Waiting, Current, Clients, Follows
  <2>6. ~info'.on
    BY <2>1 DEF NoTransfer
  <2>. QED BY <2>1, <2>4, <2>5, <2>6 DEF Follows, EndingInv, Whole
<1>8. ASSUME NEW q \in Port, q # p, Station(q) \/ Line(q)
      PROVE  /\ client'[p].state \in {"idle", "ending", "done"}
             /\ client'[p].state # "idle" => Whole(p)' /\ ~(info'.on /\ info'.file = p)
  BY <1>2, <1>8, PortMoves
<1>9. ASSUME Station(p) \/ Line(p)
      PROVE  /\ client'[p].state \in {"idle", "ending", "done"}
             /\ client'[p].state # "idle" => Whole(p)' /\ ~(info'.on /\ info'.file = p)
  <2>1. UNCHANGED <<info, files, ended>>
    BY <1>9, PortMoves
  <2>2. CASE Begin(p)
    <3>1. client'[p].attempt = client[p].attempt + 1 /\ client[p].attempt \in Nat
      BY <1>0, <2>2, Bounds DEF Begin, Send, TypeInv, Clients
    <3>. QED BY <1>1, <2>1, <3>1 DEF HistoryInv
  <2>3. CASE Resend(p) \/ Lose(p)
    <3>1. client'[p] = client[p]
      BY <2>3 DEF Resend, Lose, Send, TypeInv
    <3>. QED BY <1>2, <2>1, <3>1
  <2>4. CASE ResendEarly(p)
    <3>1. client'[p].clean = FALSE
      BY <1>0, <2>4 DEF ResendEarly, Send, TypeInv, Clients
    <3>. QED BY <3>1
  <2>5. CASE GiveUp(p)
    <3>1. client'[p].state = "idle"
      BY <1>0, <2>5 DEF GiveUp, TypeInv, Clients
    <3>. QED BY <3>1
  <2>6. CASE Take(p)
    <3>. DEFINE t == Taken(p, toClient[p].kind)
    <3>1. client'[p] = t /\ toClient[p].kind \in Codes
      BY <2>6, TakeMoves
    <3>2. t.attempt = client[p].attempt /\ t.clean = client[p].clean
      BY <1>0, <3>1, TakenCases
    <3>3. client[p].clean /\ OwnTransfer(p)
      BY <2>1, <3>1, <3>2 DEF OwnTransfer
    <3>4. /\ client[p].state \in {"idle", "ending", "done"}
          /\ client[p].state # "idle" => Whole(p) /\ ~(info.on /\ info.file = p)
      BY <1>0, <3>3 DEF EndKept
    <3>5. t.state = "idle" \/ t = client[p] \/ (client[p].state = "ending" /\ t.state = "done")
      BY <1>0, <3>1, <3>4, TakenCases
    <3>. QED BY <2>1, <3>1, <3>2, <3>4, <3>5 DEF Whole
  <2>. QED BY <1>9, <2>2, <2>3, <2>4, <2>5, <2>6 DEF Station, Line
<1>. QED
  BY <1>2, <1>3, <1>4, <1>5, <1>6, <1>7, <1>8, <1>9 DEF Next, Period, In, Serves

\* The invariant holds at the start.
LEMMA XmodemInit ==
  ASSUME Init
  PROVE  XmodemInv
<1>1. TypeInv
  <2>1. InfoType /\ opened \in Histories /\ ended \in [Port -> Histories]
    BY DEF Init, InfoType, Histories, Nobody
  <2>2. turn \in {<<"loop", 0>>} \cup ({"in", "out"} \X Port) /\ reply = NoReply
    BY DEF Init
  <2>3. \A p \in Port : /\ toMeter[p] \in FramesOf(p) /\ client[p].state = "idle"
                        /\ client[p] \in Clients(p) /\ faults[p] \in 0 .. MaxFaults[p]
    BY Bounds DEF Init, FramesOf, Clients
  <2>4. DOMAIN files = Port /\ \A p \in Port : DOMAIN files[p] = 1 .. Room[p]
    BY DEF Init
  <2>5. /\ toClient \in [Port -> {NoFrame} \cup [kind : Codes]]
        /\ DOMAIN toMeter = Port /\ DOMAIN client = Port /\ DOMAIN faults = Port
    BY DEF Init
  <2>. QED BY <2>1, <2>2, <2>3, <2>4, <2>5 DEF TypeInv
<1>2. ClientInv
  BY DEF Init, ClientInv, FrameAwaited, Waiting
<1>3. ~info.on /\ opened.by[1] = 0 /\ \A p \in Port : ended[p].by[1] = 0 /\ p # 0
  BY DEF Init, NoTransfer, Nobody, Port
<1>4. HistoryInv /\ OwnInv
  BY <1>3 DEF HistoryInv, OwnInv, OwnFollowed, Own
<1>5. ASSUME NEW p \in Port PROVE ~OwnTransfer(p)
  <2>1. ended[p].by[1] # p
    BY <1>3
  <2>. QED BY <2>1 DEF OwnTransfer
<1>. QED
  BY <1>1, <1>2, <1>4, <1>5 DEF XmodemInv, EndedInv, EndKept

\* The invariant of the transfer holds: it relates the meter, the line and the client
\* of every port at every step.
THEOREM XmodemInvariance == Spec => []XmodemInv
<1>1. XmodemInv /\ [Next]_vars => XmodemInv'
  BY TypeStep, ClientStep, HistoryStep, OwnStep, EndedStep DEF XmodemInv
<1>. QED
  BY <1>1, XmodemInit, PTL DEF Spec

\* The variables keep their types, and a transfer never counts more blocks than its
\* file has room for (proto_xmodem.c:207).
THEOREM XmodemTypeCorrect == Spec => []XmodemTypeOK
<1>1. TypeInv => XmodemTypeOK
  <2>. SUFFICES ASSUME TypeInv PROVE XmodemTypeOK
    OBVIOUS
  <2>1. \/ info = NoTransfer
        \/ /\ info.on /\ info.file \in Port
           /\ info.counter \in 0 .. Room[info.file] /\ info.timeout \in 0 .. Patience + 1
    <3>1. CASE info = NoTransfer
      BY <3>1
    <3>2. CASE info # NoTransfer
      <4>1. /\ info \in [on : {TRUE}, file : Port, counter : Nat, timeout : 0 .. Patience + 1]
            /\ info.counter <= Room[info.file]
        BY <3>2 DEF TypeInv, InfoType
      <4>2. /\ info.on /\ info.file \in Port /\ info.counter \in Nat
            /\ info.timeout \in 0 .. Patience + 1
        BY <4>1
      <4>3. info.counter \in 0 .. Room[info.file]
        BY <4>1, <4>2, Bounds
      <4>. QED BY <4>2, <4>3
    <3>. QED BY <3>1, <3>2
  <2>2. ASSUME NEW p \in Port
        PROVE  toMeter[p].kind \in {"none", "noise", "foreign", "EOT", "block"}
    <3>1. toMeter[p] \in FramesOf(p)
      BY DEF TypeInv
    <3>. QED BY <3>1, KindsOfFrames
  <2>3. ASSUME NEW p \in Port PROVE toClient[p].kind \in Codes \cup {"none"}
    BY FrameKinds DEF TypeInv
  <2>. QED BY <2>1, <2>2, <2>3 DEF TypeInv, XmodemTypeOK, Clients
<1>. QED
  BY <1>1, XmodemInvariance, PTL DEF XmodemInv

\* A client whose EOT was acknowledged finds its image whole in its file, for any
\* number of ports, attempts and faults and images of any size, when the transfer was
\* its own and it repeated nothing too early (proto_xmodem.c:99 to 219).
THEOREM AcknowledgedIsWhole == Spec => []DoneIsWhole
<1>1. EndedInv => DoneIsWhole
  BY DEF EndedInv, EndKept, DoneIsWhole
<1>. QED
  BY <1>1, XmodemInvariance, PTL DEF XmodemInv
=============================================================================
