------------------------------- MODULE Xmodem -------------------------------
(***************************************************************************)
(* The file transfer (proto_xmodem/Src/proto_xmodem.c) as the tasks drive  *)
(* it: every period its loop, then the frame of each port, then the reply  *)
(* to each port.  There is one transfer and one pending reply for all the  *)
(* ports.  A client at each port sends an image to a file of its own, over *)
(* a line that loses and garbles frames; it repeats a frame that is not    *)
(* answered and may give up and begin again with another image.            *)
(***************************************************************************)
EXTENDS Naturals, FiniteSets

CONSTANTS
  Ports,      \* bound: ports 1 to Ports have a client
  Image,      \* Image[p]: blocks of 128 bytes the client at p sends
  Room,       \* Room[p]: whole blocks in the file it names
  Modulus,    \* 2^8: the block number is a byte
  Patience,   \* 60 * 1000, in periods
  Attempts,   \* bound: Attempts[p]: images the client at p sends
  MaxFaults   \* bound: MaxFaults[p]: frames of p lost, garbled or sent too early

Port == 1 .. Ports

ASSUME XmodemAssumption ==
  /\ Ports \in Nat \ {0} /\ Modulus \in Nat \ {0, 1}
  /\ Image \in [Port -> Nat \ {0}] /\ Room \in [Port -> Nat]
  /\ {Attempts, MaxFaults} \subseteq [Port -> Nat] /\ Patience \in Nat

VARIABLES
  info,     \* xfr_info: the file is that of a port
  reply,    \* result and result_channel
  turn,     \* what the period does next, and for which port
  toMeter, toClient,  \* the frame on the line of each port, either way
  files,    \* file.parameter: the block in each place
  client,   \* the clients' stations
  faults,   \* counters of the bound
  opened,   \* history: whose opening began the transfer, and the ports heard since
  ended     \* history: opened, when the client's EOT ended the transfer

meterVars == <<info, reply, files, opened, ended>>
lineVars == <<toMeter, toClient, faults>>
vars == <<meterVars, lineVars, turn, client>>

NoFrame == [kind |-> "none"]
Noise == [kind |-> "noise"]    \* a frame for this meter that is garbled inside
Foreign == [kind |-> "foreign"] \* one whose address or address sum is wrong
Eot == [kind |-> "EOT"]
Block(n, data) == [kind |-> "block", number |-> n % Modulus, data |-> data]
\* block 0 carries the password and the name of the file
Opening(p) == Block(0, <<p, 0, 0>>)
IsOpening(f) == f.kind = "block" /\ f.number = 0 /\ f.data[3] = 0
Old == <<0, 0, 0>>

NoTransfer == [on |-> FALSE, file |-> 0, counter |-> 0, timeout |-> 0]
NoReply == [code |-> "none", port |-> 0]
Nobody == [by |-> <<0, 0>>, heard |-> {}]

Init ==
  /\ info = NoTransfer /\ reply = NoReply /\ turn = <<"loop", 0>>
  /\ toMeter = [p \in Port |-> NoFrame] /\ toClient = [p \in Port |-> NoFrame]
  /\ files = [p \in Port |-> [i \in 1 .. Room[p] |-> Old]]
  /\ client = [p \in Port |-> [state |-> "idle", attempt |-> 0, block |-> 0, clean |-> TRUE]]
  /\ faults = [p \in Port |-> 0]
  /\ opened = Nobody /\ ended = [p \in Port |-> Nobody]

-----------------------------------------------------------------------------
\* the period

After(t) ==
  CASE t[1] = "loop" -> <<"in", 1>>
    [] t[1] = "in"  -> IF t[2] < Ports THEN <<"in", t[2] + 1>> ELSE <<"out", 1>>
    [] t[1] = "out" -> IF t[2] < Ports THEN <<"out", t[2] + 1>> ELSE <<"loop", 0>>

\* xmodem_loop()
Loop ==
  /\ turn[1] = "loop" /\ turn' = After(turn)
  /\ info' = IF ~info.on THEN info
             ELSE IF info.timeout > Patience THEN NoTransfer
             ELSE [info EXCEPT !.timeout = @ + 1]
  /\ UNCHANGED <<reply, files, opened, ended, lineVars, client>>

\* the level changes, or the task starts or is reset: xmodem_exit(), xmodem_init()
\* and xmodem_reset() drop the transfer, but not the reply
ChangeLevel ==
  /\ turn[1] = "loop"
  /\ info' = NoTransfer
  /\ UNCHANGED <<reply, turn, files, opened, ended, lineVars, client>>

\* xmodem_stream_out(): the reply goes out at its port, if the bus is idle
Out(p) ==
  /\ turn = <<"out", p>> /\ turn' = After(turn)
  /\ IF reply.port = p /\ toClient[p] = NoFrame
       THEN /\ toClient' = [toClient EXCEPT ![p] = [kind |-> reply.code]]
            /\ reply' = NoReply
       ELSE UNCHANGED <<toClient, reply>>
  /\ UNCHANGED <<info, files, opened, ended, toMeter, faults, client>>

-----------------------------------------------------------------------------
\* xmodem_stream_in() and xfr_receive()

\* the frame of port p is taken off the line, and answered with the code
Receive(p, code) ==
  /\ turn = <<"in", p>> /\ turn' = After(turn)
  /\ toMeter' = [toMeter EXCEPT ![p] = NoFrame]
  /\ reply' = IF code = "none" THEN NoReply ELSE [code |-> code, port |-> p]
  /\ UNCHANGED <<toClient, faults, client>>

Nothing(p) ==
  /\ turn = <<"in", p>> /\ turn' = After(turn) /\ toMeter[p] = NoFrame
  /\ UNCHANGED <<meterVars, lineVars, client>>

\* a frame for another meter takes the pending reply with it, as does one that is
\* not an opening while no transfer is on
Ignored(p) ==
  LET f == toMeter[p]
  IN /\ f.kind = "foreign" \/ (f # NoFrame /\ ~info.on /\ ~IsOpening(f))
     /\ Receive(p, "none")
     /\ UNCHANGED <<info, files, opened, ended>>

\* a transfer begins; there may be no memory for it, or no such file
Open(p) ==
  /\ ~info.on /\ IsOpening(toMeter[p])
  /\ \/ /\ info' = [NoTransfer EXCEPT !.on = TRUE, !.file = toMeter[p].data[1]]
        /\ opened' = [by |-> <<p, client[p].attempt>>, heard |-> {p}]
        /\ Receive(p, "NAK")
     \/ Receive(p, "none") /\ UNCHANGED <<info, opened>>
  /\ UNCHANGED <<files, ended>>

Heard(p) == [opened EXCEPT !.heard = @ \cup {p}]

\* a frame for the transfer that is on
Served(p, f) == info.on /\ f = toMeter[p] /\ opened' = Heard(p)

End(p) ==
  /\ Served(p, Eot)
  /\ info' = NoTransfer
  /\ ended' = [ended EXCEPT ![p] = Heard(p)]
  /\ Receive(p, "ACK") /\ UNCHANGED files

Garbled(p) ==
  /\ Served(p, Noise)
  /\ Receive(p, "NAK") /\ UNCHANGED <<info, files, ended>>

\* mutant: a repeated block keeps the transfer alive
RepeatedRefreshes(p) ==
  LET f == toMeter[p]
  IN /\ f.kind = "block" /\ Served(p, f)
     /\ f.number = info.counter % Modulus
     /\ info' = [info EXCEPT !.timeout = 0]
     /\ Receive(p, "ACK") /\ UNCHANGED <<files, ended>>

\* the block that was written last, once more
Repeated(p) ==
  LET f == toMeter[p]
  IN /\ f.kind = "block" /\ Served(p, f)
     /\ f.number = info.counter % Modulus
     /\ Receive(p, "ACK") /\ UNCHANGED <<info, files, ended>>

\* mutant: a repeated block is written as the next one
IsNextAgain(f) == f.number \in {info.counter % Modulus, (info.counter + 1) % Modulus}

\* a block is next if its number follows the one that was written last
IsNext(f) == f.number # info.counter % Modulus /\ f.number = (info.counter + 1) % Modulus

\* mutant: the size of the file is not looked at
WrittenAnywhere(p) ==
  LET f == toMeter[p]
  IN /\ f.kind = "block" /\ Served(p, f) /\ IsNext(f)
     /\ files' = [files EXCEPT ![info.file] =
          [i \in DOMAIN @ |-> IF i = info.counter + 1 THEN f.data ELSE @[i]]]
     /\ info' = [info EXCEPT !.counter = @ + 1, !.timeout = 0]
     /\ Receive(p, "ACK") /\ UNCHANGED ended

\* the next block is written to its place
Written(p) ==
  LET f == toMeter[p]
  IN /\ f.kind = "block" /\ Served(p, f) /\ IsNext(f)
     /\ info.counter + 1 <= Room[info.file]
     /\ files' = [files EXCEPT ![info.file][info.counter + 1] = f.data]
     /\ info' = [info EXCEPT !.counter = @ + 1, !.timeout = 0]
     /\ Receive(p, "ACK") /\ UNCHANGED ended

\* A block out of order ends the transfer, and so does one that cannot be written:
\* there is no room for all of it, or the file system fails.
Cancelled(p) ==
  LET f == toMeter[p]
  IN /\ f.kind = "block" /\ Served(p, f)
     /\ f.number # info.counter % Modulus
     /\ info' = NoTransfer
     /\ Receive(p, "CAN") /\ UNCHANGED <<files, ended>>

In(p) ==
  \/ Nothing(p) \/ Ignored(p) \/ Open(p) \/ End(p)
  \/ Garbled(p) \/ Repeated(p) \/ Written(p) \/ Cancelled(p)

-----------------------------------------------------------------------------
\* the clients, and the lines

Waiting(p) == client[p].state \in {"opening", "sending", "ending"}

\* the frame that the client waits for a reply to
Current(p, c) ==
  CASE c.state = "opening" -> Opening(p)
    [] c.state = "sending" -> Block(c.block, <<p, c.attempt, c.block>>)
    [] c.state = "ending"  -> Eot

Send(p, c) ==
  /\ toMeter[p] = NoFrame
  /\ toMeter' = [toMeter EXCEPT ![p] = Current(p, c)]
  /\ client' = [client EXCEPT ![p] = c]

Begin(p) ==
  /\ client[p].state = "idle" /\ client[p].attempt < Attempts[p]
  /\ Send(p, [state |-> "opening", attempt |-> client[p].attempt + 1, block |-> 0, clean |-> TRUE])
  /\ UNCHANGED <<meterVars, toClient, faults, turn>>

\* no reply is under way
Silence(p) ==
  Waiting(p) /\ toMeter[p] = NoFrame /\ toClient[p] = NoFrame /\ reply.port # p /\ turn[1] = "loop"

Resend(p) ==
  /\ Silence(p)
  /\ Send(p, client[p])
  /\ UNCHANGED <<meterVars, toClient, faults, turn>>

\* the client's timer runs out while the reply is still to come
ResendEarly(p) ==
  /\ Waiting(p) /\ faults[p] < MaxFaults[p] /\ faults' = [faults EXCEPT ![p] = @ + 1]
  /\ Send(p, [client[p] EXCEPT !.clean = FALSE])
  /\ UNCHANGED <<meterVars, toClient, turn>>

GiveUp(p) ==
  /\ Silence(p)
  /\ client' = [client EXCEPT ![p].state = "idle"]
  /\ UNCHANGED <<meterVars, lineVars, turn>>

Lose(p) ==
  /\ faults[p] < MaxFaults[p] /\ faults' = [faults EXCEPT ![p] = @ + 1]
  /\ \/ /\ toMeter[p] # NoFrame /\ UNCHANGED toClient
        /\ \E f \in {NoFrame, Noise, Foreign} : toMeter' = [toMeter EXCEPT ![p] = f]
     \/ /\ toClient[p] # NoFrame /\ UNCHANGED toMeter
        /\ toClient' = [toClient EXCEPT ![p] = NoFrame]
  /\ UNCHANGED <<meterVars, turn, client>>

\* the state of the client once the reply is taken; it opens on NAK only
Taken(p, code) ==
  LET c == client[p]
  IN CASE code = "CAN" -> [c EXCEPT !.state = "idle"]
       [] code = "NAK" /\ c.state = "opening" -> [c EXCEPT !.state = "sending", !.block = 1]
       [] code = "ACK" /\ c.state = "sending" /\ c.block < Image[p] -> [c EXCEPT !.block = @ + 1]
       [] code = "ACK" /\ c.state = "sending" /\ c.block = Image[p] -> [c EXCEPT !.state = "ending"]
       [] code = "ACK" /\ c.state = "ending" -> [c EXCEPT !.state = "done"]
       [] OTHER -> c

\* the client takes the reply and goes on with its next frame, if it has one
Take(p) ==
  /\ toClient[p] # NoFrame
  /\ toClient' = [toClient EXCEPT ![p] = NoFrame]
  /\ LET c == Taken(p, toClient[p].kind)
     IN IF c # client[p] /\ c.state \in {"sending", "ending"}
          THEN Send(p, c)
          ELSE client' = [client EXCEPT ![p] = c] /\ UNCHANGED toMeter
  /\ UNCHANGED <<meterVars, faults, turn>>

-----------------------------------------------------------------------------
Period == Loop \/ \E p \in Port : In(p) \/ Out(p)
Station(p) == Begin(p) \/ Resend(p) \/ GiveUp(p) \/ Take(p)
Line(p) == ResendEarly(p) \/ Lose(p)

\* When a client acts matters only before the meter reads its port and before it
\* writes to it: two moments of a period are enough for both.
Outside == turn[1] = "loop" \/ turn = <<"out", 1>>

Next == Period \/ ChangeLevel \/ (Outside /\ \E p \in Port : Station(p) \/ Line(p))

Spec == Init /\ [][Next]_vars

\* the period goes round; the clients need do nothing
FairSpec == Spec /\ WF_vars(Period)

-----------------------------------------------------------------------------
\* properties

Codes == {"NAK", "ACK", "CAN"}

\* The variables hold the values they can have; a pending reply has a port, and the
\* transfer counts no more blocks than its file has room for.
XmodemTypeOK ==
  /\ \/ info = NoTransfer
     \/ /\ info.on /\ info.file \in Port
        /\ info.counter \in 0 .. Room[info.file] /\ info.timeout \in 0 .. Patience + 1
  /\ reply = NoReply \/ (reply.code \in Codes /\ reply.port \in Port)
  /\ turn \in {<<"loop", 0>>} \cup ({"in", "out"} \X Port)
  /\ \A p \in Port :
       /\ toMeter[p].kind \in {"none", "noise", "foreign", "EOT", "block"}
       /\ toClient[p].kind \in Codes \cup {"none"}
       /\ DOMAIN files[p] = 1 .. Room[p]
       /\ client[p].state \in {"idle", "opening", "sending", "ending", "done"}
       /\ client[p].attempt \in 0 .. Attempts[p] /\ client[p].block \in 0 .. Image[p]
       /\ client[p].clean \in BOOLEAN
       /\ faults[p] \in 0 .. MaxFaults[p]

Whole(p) == \A i \in 1 .. Image[p] : i <= Room[p] /\ files[p][i] = <<p, client[p].attempt, i>>
OwnTransfer(p) == ended[p] = [by |-> <<p, client[p].attempt>>, heard |-> {p}]
\* A client whose EOT is acknowledged has every block of its image in its place in its
\* file, whatever was lost, garbled, repeated or begun again.  Two things are not in
\* xfr_receive()'s hands: an acknowledgement has no number, so the client must not
\* repeat a frame whose reply is still to come; and it does not look at the port, so
\* the transfer must have heard no other, and be the one the client opened.
DoneIsWhole ==
  \A p \in Port : (client[p].state = "done" /\ client[p].clean /\ OwnTransfer(p)) => Whole(p)

\* A transfer that has begun comes to an end, whatever the clients do: xmodem_loop()
\* gives it up, and only a block that is written makes it wait longer.
TransferEnds == info.on ~> ~info.on
=============================================================================
