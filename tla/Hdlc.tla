-------------------------------- MODULE Hdlc --------------------------------
(***************************************************************************)
(* One HDLC data link of the meter (proto_dlms/Src/hdlc_datalink.c), as    *)
(* the communication task drives it: every period a tick of the link's     *)
(* timer, then the frame the port has received, then the reply, if the bus *)
(* is idle.  The client and the line are the environment: a primary        *)
(* station with a window of one, on a line that loses frames.              *)
(*                                                                         *)
(* A frame is what its control field and its information field say.  The   *)
(* information of a request is the number of the request and of the part;  *)
(* that of an answer is the interval of the answer's bytes it carries.     *)
(***************************************************************************)
EXTENDS Naturals, Sequences

CONSTANTS
  Requests,      \* bound: questions the client asks
  RequestParts,  \* RequestParts[r]: frames the question r is split into
  MtuParts,      \* HDLC_CONFIG_APPL_MTU() in such parts
  AnswerLength,  \* bytes of an answer
  MaxLenTrans,   \* max_len_trans: information bytes in one frame to the client
  Llc,           \* bytes of the LLC header
  FrameOverhead, \* bytes of a frame around its information field
  Timeout,       \* hdlc_get_timeout(), in ticks
  MaxPolls,      \* bound: RR polls the client sends while idle
  MaxFaults,     \* bound: lost frames, and retransmissions before their time
  MaxRefusals,   \* bound: failed allocations in link_setup
  MaxUnanswered, \* bound: questions of one link that the application leaves unanswered
  MaxRuns        \* bound: runs of the application after which none of these is repeated

ASSUME HdlcAssumption ==
  /\ {Requests, AnswerLength, Timeout, MaxPolls, MaxFaults, MaxRefusals, FrameOverhead,
      MaxUnanswered, MaxRuns} \subseteq Nat
  /\ RequestParts \in [1..Requests -> Nat \ {0}] /\ MtuParts \in Nat
  /\ Llc \in Nat /\ MaxLenTrans \in Nat /\ MaxLenTrans > Llc
  /\ AnswerLength > 0

VARIABLES
  link,      \* hdlc_links[channel]
  turn,      \* what the period does next: "tick", "in" or "out"
  toServer, toClient,      \* the frame on the line, either way
  client,    \* the client's station
  executed,  \* history: what dlms_asso_gateway() was given, run by run
  silent,    \* history: the runs that left no answer
  unanswered,              \* history: how many of them there were on this link
  answers,   \* history: the answers the client has put together
  faults, refusals, polls  \* counters of the bounds

serverVars == <<link, turn, executed, silent, unanswered, refusals>>
clientVars == <<client, answers, polls>>
vars == <<serverVars, clientVars, toServer, toClient, faults>>

\* sequence numbers are three bits wide
Succ(n) == (n + 1) % 8
Pred(n) == (n + 7) % 8
Unknown == 255

NoFrame == [kind |-> "none"]
Frame(kind) == [kind |-> kind]
RR(n) == [kind |-> "RR", rrr |-> n]
Part(r, i, s, n) ==
  [kind |-> "I", sss |-> s, rrr |-> n, segment |-> i < RequestParts[r], info |-> <<r, i>>]
Question(r) == [i \in 1..RequestParts[r] |-> <<r, i>>]

-----------------------------------------------------------------------------
\* the meter's end of the link

Closed ==
  [status |-> "DISCONNECTED", sss |-> 0, rrr |-> 0, rrrc |-> 0, csss |-> 0, crrr |-> 0,
   recv |-> <<>>, filled |-> 0, sent |-> 0, confirming |-> 0, answer |-> 0,
   reply |-> NoFrame, timer |-> 0]

Init ==
  /\ link = Closed /\ turn = "tick"
  /\ toServer = NoFrame /\ toClient = NoFrame
  /\ client = [state |-> "closed", vs |-> 0, vr |-> 0, request |-> 0, waits |-> NoFrame,
               got |-> <<>>]
  /\ executed = <<>> /\ silent = {} /\ unanswered = 0 /\ answers = <<>>
  /\ faults = 0 /\ refusals = 0 /\ polls = 0

\* encode_rr() and encode_frmr()
EncodeRr(l) == [l EXCEPT !.reply = RR(l.rrr), !.confirming = 0]
EncodeFrmr(l) == [l EXCEPT !.reply = Frame("FRMR"), !.confirming = 0]

\* an I frame that carries the answer from byte "from" on
EncodeInfo(l, from, length, llc, more) ==
  [l EXCEPT !.reply = [kind |-> "I", sss |-> l.sss, rrr |-> l.rrr, segment |-> more,
                       info |-> [answer |-> l.answer, from |-> from, length |-> length]],
            !.sss = Succ(l.sss),
            !.confirming = FrameOverhead + llc + length]

\* mutant: the frame number of the resend is a new one
RollBackKeepsSequence(l) ==
  [l EXCEPT !.sent = IF l.sent >= l.confirming THEN l.sent - l.confirming ELSE 0,
            !.confirming = 0]

\* the frame is taken for a resend of the last one: take back what it made the
\* link send
RollBack(l) ==
  [l EXCEPT !.sent = IF l.sent >= l.confirming THEN l.sent - l.confirming ELSE 0,
            !.confirming = 0,
            !.sss = Pred(l.sss)]

\* hdlc_request() takes the frame off the port; a frame that is answered restarts
\* the timer
Receive(f) ==
  /\ turn = "in" /\ turn' = "out"
  /\ toServer = f /\ toServer' = NoFrame
  /\ UNCHANGED <<clientVars, toClient, faults>>
Refresh(l) == [l EXCEPT !.timer = Timeout]

\* mutant: the link is not cleared
SetupKeepsReceived == [Closed EXCEPT !.csss = Unknown, !.crrr = Unknown, !.recv = link.recv]

\* link_setup() leaves a link as new
Setup == [Closed EXCEPT !.csss = Unknown, !.crrr = Unknown]

\* SNRM: the buffers are allocated afresh, or the link is left closed
RequestSnrm(f) ==
  /\ f.kind = "SNRM"
  /\ Receive(f)
  /\ \/ /\ link' = Refresh([Setup EXCEPT !.status = "CONNECTED", !.reply = Frame("UA")])
        /\ UNCHANGED refusals
     \/ /\ refusals < MaxRefusals /\ refusals' = refusals + 1
        /\ link' = Closed
  /\ unanswered' = 0
  /\ UNCHANGED <<executed, silent>>

\* mutant: a resend is taken for a new frame
InfoTakenAsNew(f) == [link EXCEPT !.crrr = f.rrr, !.csss = f.sss, !.rrrc = link.rrr]

\* The state of the link once an I frame in sequence, or a resent one, is taken.
InfoTaken(f) ==
  LET l == IF f.sss = link.csss THEN [RollBack(link) EXCEPT !.rrr = link.rrrc] ELSE link
  IN [l EXCEPT !.crrr = f.rrr, !.csss = f.sss, !.rrrc = l.rrr]

\* mutant: a resend is out of sequence
InSequenceNext(f) == f.sss = Succ(link.csss)

\* the next I frame, or the last one again
InSequence(f) == f.sss \in {link.csss, Succ(link.csss)}

Info(f) == f.kind = "I" /\ link.status = "CONNECTED" /\ Receive(f) /\ UNCHANGED refusals

\* an I frame that is neither the next one nor the last one again is answered with
\* RR; one that overruns the application's buffer is refused, and empties it
RequestInfoRefused(f) ==
  /\ Info(f)
  /\ ~InSequence(f) \/ Len(link.recv) + 1 > MtuParts
  /\ link' = Refresh(IF InSequence(f) THEN EncodeFrmr([InfoTaken(f) EXCEPT !.recv = <<>>])
                                     ELSE EncodeRr(link))
  /\ UNCHANGED <<executed, silent, unanswered>>

\* one more part of a question
RequestInfoSegment(f) ==
  /\ Info(f) /\ InSequence(f) /\ f.segment
  /\ Len(link.recv) + 1 <= MtuParts
  /\ LET l == InfoTaken(f)
     IN link' = Refresh(EncodeRr([l EXCEPT !.recv = Append(l.recv, f.info), !.rrr = Succ(l.rrr)]))
  /\ UNCHANGED <<executed, silent, unanswered>>

\* the last part, with which the application runs
Run(f) ==
  /\ Info(f) /\ InSequence(f) /\ ~f.segment
  /\ Len(link.recv) + 1 <= MtuParts
  /\ executed' = Append(executed, Append(link.recv, f.info))

\* there is an answer, and its first frame is built
RequestInfoLast(f) ==
  /\ Run(f)
  /\ UNCHANGED <<silent, unanswered>>
  /\ LET t == InfoTaken(f)
         l == [t EXCEPT !.recv = <<>>, !.rrr = Succ(t.rrr), !.answer = Len(executed')]
         first == MaxLenTrans - Llc
     IN link' = Refresh(
          IF AnswerLength + Llc > MaxLenTrans
            THEN [EncodeInfo(l, 0, first, Llc, TRUE) EXCEPT !.filled = AnswerLength, !.sent = first]
            ELSE [EncodeInfo(l, 0, AnswerLength, Llc, FALSE) EXCEPT !.filled = 0, !.sent = 0])

\* there is none: no reply is built and the timer goes on.  The frame counts as taken,
\* but neither number of the link moves.
RequestInfoUnanswered(f) ==
  /\ Run(f)
  /\ unanswered < MaxUnanswered /\ unanswered' = unanswered + 1
  /\ silent' = silent \cup {Len(executed')}
  /\ link' = [InfoTaken(f) EXCEPT !.recv = <<>>, !.filled = 0]

\* mutant: the read pointer counts a header that only the first frame has
EncodeRestSkips(l) ==
  LET left == l.filled - l.sent
      length == IF left > MaxLenTrans THEN MaxLenTrans ELSE left
  IN [EncodeInfo(l, l.sent, length, 0, left > MaxLenTrans) EXCEPT !.sent = l.sent + length + Llc]

\* mutant: the last frame is as long as the others
EncodeRestFull(l) ==
  [EncodeInfo(l, l.sent, MaxLenTrans, 0, l.filled - l.sent > MaxLenTrans)
     EXCEPT !.sent = l.sent + MaxLenTrans]

\* the next frame of the answer
EncodeRest(l) ==
  LET left == l.filled - l.sent
      length == IF left > MaxLenTrans THEN MaxLenTrans ELSE left
  IN [EncodeInfo(l, l.sent, length, 0, left > MaxLenTrans) EXCEPT !.sent = l.sent + length]

\* RR: the client wants the rest of the answer, or gives the meter a turn
RequestRr(f) ==
  /\ f.kind = "RR" /\ link.status = "CONNECTED"
  /\ Receive(f)
  /\ LET l == [(IF f.rrr = link.crrr THEN RollBack(link) ELSE link) EXCEPT !.crrr = f.rrr]
     IN link' = Refresh(
          IF f.rrr \notin {link.crrr, Succ(link.crrr)} THEN EncodeFrmr(link)
          ELSE IF l.filled <= l.sent THEN EncodeRr(l)
          ELSE EncodeRest(l))
  /\ UNCHANGED <<executed, silent, unanswered, refusals>>

\* DISC: the answer is UA, and the tick that follows closes the link.  A closed
\* link builds a DM, which hdlc_response() never sends.
RequestDisc(f) ==
  /\ f.kind = "DISC"
  /\ Receive(f)
  /\ link' = IF link.status = "CONNECTED"
               THEN Refresh([link EXCEPT !.status = "MARK", !.reply = Frame("UA")])
               ELSE link
  /\ UNCHANGED <<executed, silent, unanswered, refusals>>

\* I and RR on a closed link are dropped; so is a period in which nothing came
NoRequest ==
  \/ /\ toServer.kind \in {"I", "RR"} /\ link.status # "CONNECTED"
     /\ Receive(toServer)
     /\ UNCHANGED <<link, executed, silent, unanswered, refusals>>
  \/ /\ toServer = NoFrame /\ turn = "in" /\ turn' = "out"
     /\ UNCHANGED <<link, executed, silent, unanswered, refusals, clientVars, toServer, toClient, faults>>

\* hdlc_tick()
Tick ==
  /\ turn = "tick" /\ turn' = "in"
  /\ link' = IF link.status = "DISCONNECTED" THEN link
             ELSE IF link.status = "MARK" \/ link.timer <= 1 THEN Closed
             ELSE [link EXCEPT !.timer = @ - 1]
  /\ UNCHANGED <<executed, silent, unanswered, refusals, clientVars, toServer, toClient, faults>>

\* hdlc_response(): the reply goes out once, if the bus is idle
Respond ==
  /\ turn = "out" /\ turn' = "tick"
  /\ toClient = NoFrame
  /\ toClient' = link.reply
  /\ link' = [link EXCEPT !.reply = NoFrame]
  /\ UNCHANGED <<executed, silent, unanswered, refusals, clientVars, toServer, faults>>

Busy ==
  /\ turn = "out" /\ turn' = "tick"
  /\ toClient # NoFrame \/ toServer # NoFrame
  /\ UNCHANGED <<link, executed, silent, unanswered, refusals, clientVars, toServer, toClient, faults>>

Request ==
  LET f == toServer
  IN RequestSnrm(f) \/ RequestInfoRefused(f) \/ RequestInfoSegment(f)
       \/ RequestInfoLast(f) \/ RequestInfoUnanswered(f) \/ RequestRr(f) \/ RequestDisc(f)

-----------------------------------------------------------------------------
\* the client's end, and the line

Idle == client.waits = NoFrame

\* the client puts a frame on a line that is free and waits for the reply
Send(f, c) ==
  /\ toServer = NoFrame
  /\ toServer' = f
  /\ client' = [c EXCEPT !.waits = f]

Connect ==
  /\ client.state = "closed" /\ Idle
  /\ Send(Frame("SNRM"), [client EXCEPT !.state = "calling"])
  /\ UNCHANGED <<serverVars, toClient, answers, polls, faults>>

Ask ==
  /\ client.state = "open" /\ Idle /\ client.request < Requests
  /\ LET r == client.request + 1
     IN Send(Part(r, 1, client.vs, client.vr), [client EXCEPT !.request = r, !.got = <<>>])
  /\ UNCHANGED <<serverVars, toClient, answers, polls, faults>>

Poll ==
  /\ client.state = "open" /\ Idle /\ polls < MaxPolls
  /\ Send(RR(client.vr), client)
  /\ polls' = polls + 1
  /\ UNCHANGED <<serverVars, toClient, answers, faults>>

Leave ==
  /\ client.state = "open" /\ Idle
  /\ Send(Frame("DISC"), [client EXCEPT !.state = "leaving"])
  /\ UNCHANGED <<serverVars, toClient, answers, polls, faults>>

\* no reply is under way: the frame or its reply was lost, or the link is closed
Silence ==
  ~Idle /\ toServer = NoFrame /\ toClient = NoFrame /\ link.reply = NoFrame /\ turn = "tick"

Resend ==
  /\ Silence /\ (unanswered = 0 \/ Len(executed) < MaxRuns)
  /\ Send(client.waits, client)
  /\ UNCHANGED <<serverVars, toClient, answers, polls, faults>>

\* the client's timer runs out while the reply is still to come
ResendEarly ==
  /\ ~Idle /\ faults < MaxFaults /\ faults' = faults + 1
  /\ Send(client.waits, client)
  /\ UNCHANGED <<serverVars, toClient, answers, polls>>

\* the client has no reply to hope for: it sets the link up again
GiveUp ==
  /\ Silence /\ client.state # "calling"
  /\ Send(Frame("SNRM"), [client EXCEPT !.state = "calling"])
  /\ UNCHANGED <<serverVars, toClient, answers, polls, faults>>

Lose ==
  /\ faults < MaxFaults /\ faults' = faults + 1
  /\ \/ toServer # NoFrame /\ toServer' = NoFrame /\ UNCHANGED toClient
     \/ toClient # NoFrame /\ toClient' = NoFrame /\ UNCHANGED toServer
  /\ UNCHANGED <<serverVars, clientVars>>

\* the reply that the frame the client waits on calls for
Awaited(f) ==
  \/ f.kind = "UA" /\ client.state \in {"calling", "leaving"}
  \/ /\ f.kind = "I" /\ client.state = "open" /\ f.sss = client.vr
     /\ \/ client.waits.kind = "I" /\ ~client.waits.segment /\ f.rrr = Succ(client.vs)
        \/ client.waits.kind = "RR" /\ f.rrr = client.vs
  \/ /\ f.kind = "RR" /\ client.state = "open"
     /\ \/ client.waits.kind = "I" /\ client.waits.segment /\ f.rrr = Succ(client.vs)
        \/ client.waits.kind = "RR" /\ f.rrr = client.vs
  \/ f.kind = "FRMR" /\ client.state = "open" /\ ~Idle

\* any other frame is dropped
Drop ==
  /\ toClient # NoFrame /\ ~Awaited(toClient)
  /\ toClient' = NoFrame
  /\ UNCHANGED <<serverVars, clientVars, toServer, faults>>

\* the client goes on without sending anything
Rest(c) == client' = [c EXCEPT !.waits = NoFrame] /\ UNCHANGED toServer

TakeUa ==
  /\ IF client.state = "calling"
       THEN Rest([client EXCEPT !.state = "open", !.vs = 0, !.vr = 0, !.got = <<>>])
       ELSE Rest([client EXCEPT !.state = "closed"])
  /\ UNCHANGED answers

TakeFrmr == Rest([client EXCEPT !.state = "closed"]) /\ UNCHANGED answers

\* a part is acknowledged, and the next one goes out; or a poll is answered
TakeRr ==
  /\ IF client.waits.kind = "I"
       THEN LET vs == Succ(client.vs)
            IN Send(Part(client.request, client.waits.info[2] + 1, vs, client.vr),
                    [client EXCEPT !.vs = vs])
       ELSE Rest(client)
  /\ UNCHANGED answers

\* one more frame of the answer, which the client asks for more of or has whole
TakeInfo(f) ==
  LET vr == Succ(client.vr)
      got == Append(client.got, f.info)
      c == [client EXCEPT !.vr = vr, !.got = got,
              !.vs = IF client.waits.kind = "I" THEN Succ(client.vs) ELSE client.vs]
  IN IF f.segment
       THEN Send(RR(vr), c) /\ UNCHANGED answers
       ELSE /\ Rest([c EXCEPT !.got = <<>>])
            /\ answers' = Append(answers, [request |-> client.request, got |-> got])

Take ==
  /\ toClient # NoFrame /\ Awaited(toClient)
  /\ toClient' = NoFrame
  /\ CASE toClient.kind = "UA"   -> TakeUa
       [] toClient.kind = "FRMR" -> TakeFrmr
       [] toClient.kind = "RR"   -> TakeRr
       [] toClient.kind = "I"    -> TakeInfo(toClient)
  /\ UNCHANGED <<serverVars, polls, faults>>

\* the client breaks off in the middle of a question or of an answer
BreakOff ==
  /\ toClient.kind \in {"RR", "I"} /\ Awaited(toClient)
  /\ toClient' = NoFrame
  /\ Send(Frame("SNRM"), [client EXCEPT !.state = "calling"])
  /\ UNCHANGED <<serverVars, answers, polls, faults>>

-----------------------------------------------------------------------------
Period == Tick \/ NoRequest \/ Respond \/ Busy
Station == Connect \/ Ask \/ Poll \/ Leave \/ GiveUp \/ BreakOff
Reply == Take \/ Drop
Line == ResendEarly \/ Lose

Next == Period \/ Request \/ Station \/ Reply \/ Resend \/ Line

Spec == Init /\ [][Next]_vars

\* the period goes round, the client reads its replies and repeats itself
FairSpec ==
  Spec /\ WF_vars(Period \/ Request) /\ WF_vars(Reply) /\ WF_vars(Resend)

-----------------------------------------------------------------------------
\* properties

Numbers == 0..7
SequenceNumbers == Numbers \cup {Unknown}
Infos == [answer : 1..Len(executed), from : 0..AnswerLength, length : 0..MaxLenTrans]

\* The fields of the link and of the client hold the values they can have.
HdlcTypeOK ==
  /\ link.status \in {"DISCONNECTED", "CONNECTED", "MARK"}
  /\ link.sss \in Numbers /\ link.rrr \in Numbers /\ link.rrrc \in Numbers
  /\ link.csss \in SequenceNumbers /\ link.crrr \in SequenceNumbers
  /\ Len(link.recv) \in 0..MtuParts
  /\ link.filled \in {0, AnswerLength} /\ link.sent \in 0..AnswerLength
  /\ link.confirming \in 0..(FrameOverhead + Llc + MaxLenTrans)
  /\ link.reply.kind \in {"none", "UA", "RR", "I", "FRMR"}
  /\ link.timer \in 0..Timeout
  /\ turn \in {"tick", "in", "out"} /\ unanswered \in 0..MaxUnanswered
  /\ client.state \in {"closed", "calling", "open", "leaving"}
  /\ client.vs \in Numbers /\ client.vr \in Numbers

\* The link's frame counters and the client's agree: while both hold the link
\* open, each side is at most the one outstanding frame ahead of the other.  A
\* question the application leaves unanswered parts them, as its resend takes back
\* a frame that was never sent.
InStep ==
  (link.status = "CONNECTED" /\ client.state = "open" /\ unanswered = 0) =>
    /\ link.sss \in {client.vr, Succ(client.vr)}
    /\ link.rrr \in {client.vs, Succ(client.vs)}

\* The application is only ever given a whole question, its parts once each and
\* in order, whatever link came before and however it ended; or else the last part
\* alone, as the resend of a question that it was given whole and left unanswered.
QuestionWhole ==
  \A i \in 1..Len(executed) : \E r \in 1..Requests :
    \/ executed[i] = Question(r)
    \/ /\ executed[i] = <<<<r, RequestParts[r]>>>>
       /\ \E j \in silent : j < i /\ executed[j] = Question(r)

\* What the client puts together is one whole answer to the question it asked:
\* the intervals join up, and come from one run of the application.
AnswerWhole ==
  \A i \in 1..Len(answers) :
    LET got == answers[i].got
        after(k) == IF k = 0 THEN 0 ELSE got[k].from + got[k].length
    IN /\ after(Len(got)) = AnswerLength
       /\ \A k \in 1..Len(got) : got[k].from = after(k - 1) /\ got[k].answer = got[1].answer
       /\ executed[got[1].answer] = Question(answers[i].request)

\* what the client of Exchange sees of the link
Asked == client.request
Ran == {executed[i][1][1] : i \in 1..Len(executed)}
Answered == {executed[answers[i].got[1].answer][1][1] : i \in 1..Len(answers)}
E == INSTANCE Exchange WITH asked <- Asked, ran <- Ran, answered <- Answered
\* The link keeps the promise of Exchange: hdlc_request() gives the application
\* the question asked last and no other, and hdlc_response() its whole answer.
KeepsExchange == E!Spec

\* A client that asks is answered, or the link is gone, or the client gives up:
\* lost frames only delay it.  Nothing of the kind holds once the application has
\* left a question of the link unanswered.
AnswerComes ==
  client.waits.kind = "I" ~>
    (client.waits.kind # "I" \/ link.status # "CONNECTED" \/ unanswered > 0)
=============================================================================
