----------------------------- MODULE HdlcProofs -----------------------------
(***************************************************************************)
(* Proofs about Hdlc.  The type invariant holds for every size of          *)
(* questions, answers, frames and buffers.  The link and the client stay   *)
(* in step, and keep the promise of Exchange, in two cases: when questions *)
(* and answers fit in one frame, for any number of questions, losses,      *)
(* resends before their time, time-outs, refusals and set-ups; and when    *)
(* they come in any number of parts, for any time-outs, refusals and       *)
(* set-ups on a line that loses nothing, with up to seven questions on a   *)
(* link that the application leaves unanswered.                            *)
(***************************************************************************)
EXTENDS Hdlc, TLAPS

-----------------------------------------------------------------------------
\* types

Plain == [kind : {"none", "SNRM", "DISC", "UA", "FRMR"}] \cup [kind : {"RR"}, rrr : Numbers]
ToMeter == Plain \cup
  [kind : {"I"}, sss : Numbers, rrr : Numbers, segment : BOOLEAN, info : Nat \X Nat]
Pieces == [answer : Nat, from : Nat, length : Nat]
ToStation == Plain \cup
  [kind : {"I"}, sss : Numbers, rrr : Numbers, segment : BOOLEAN,
   info : Pieces]

Links ==
  [status : {"DISCONNECTED", "CONNECTED", "MARK"},
   sss : Numbers, rrr : Numbers, rrrc : Numbers,
   csss : SequenceNumbers, crrr : SequenceNumbers,
   recv : Seq(Nat \X Nat), filled : {0, AnswerLength}, sent : Nat,
   confirming : 0 .. (FrameOverhead + Llc + MaxLenTrans), answer : Nat,
   reply : ToStation, timer : 0 .. Timeout]

Stations ==
  [state : {"closed", "calling", "open", "leaving"}, vs : Numbers, vr : Numbers,
   request : Nat, waits : ToMeter, got : Seq(Pieces)]

Whole == [request : Nat, got : Seq(Pieces)]

\* what a link may send, and how much of its buffers it may use
Sound(l) ==
  /\ l \in Links
  /\ l.sent <= AnswerLength
  /\ Len(l.recv) <= MtuParts
  /\ l.reply.kind \in {"none", "UA", "RR", "I", "FRMR"}

TypeInv ==
  /\ Sound(link)
  /\ turn \in {"tick", "in", "out"}
  /\ toServer \in ToMeter /\ toClient \in ToStation
  /\ client \in Stations
  /\ executed \in Seq(Seq(Nat \X Nat)) /\ unanswered \in 0 .. MaxUnanswered
  /\ answers \in Seq(Whole)

\* The number before and the number after another.
LEMMA Neighbours ==
  ASSUME NEW n \in Numbers
  PROVE  /\ Succ(n) \in Numbers /\ Pred(n) \in Numbers
         /\ Pred(Succ(n)) = n /\ Succ(Pred(n)) = n
         /\ Succ(n) # n /\ Pred(n) # n /\ Succ(n) # Pred(n) /\ n # Unknown
BY DEF Numbers, Succ, Pred, Unknown

\* The sizes, as the fields of a link use them.
LEMMA Sizes ==
  /\ Timeout \in 0 .. Timeout /\ 0 \in 0 .. Timeout
  /\ MtuParts \in Nat /\ 0 <= MtuParts
  /\ AnswerLength \in Nat /\ 0 \in {0, AnswerLength}
  /\ 0 \in 0 .. (FrameOverhead + Llc + MaxLenTrans)
BY HdlcAssumption

\* The number of questions and the lengths of a frame are numbers.
LEMMA Lengths ==
  /\ Requests \in Nat /\ FrameOverhead \in Nat /\ MaxUnanswered \in Nat /\ Timeout \in Nat
  /\ Llc \in Nat /\ MaxLenTrans \in Nat
<1>1. {Requests, FrameOverhead, MaxUnanswered, Timeout} \subseteq
        {Requests, AnswerLength, Timeout, MaxPolls, MaxFaults, MaxRefusals, FrameOverhead,
         MaxUnanswered, MaxRuns}
  OBVIOUS
<1>2. Requests \in Nat /\ FrameOverhead \in Nat /\ MaxUnanswered \in Nat /\ Timeout \in Nat
  BY <1>1, HdlcAssumption
<1>. QED BY <1>2, HdlcAssumption

\* An emptied buffer is one.
LEMMA EmptiedSound ==
  ASSUME NEW l, Sound(l)
  PROVE  Sound([l EXCEPT !.recv = <<>>])
<1>1. <<>> \in Seq(Nat \X Nat) /\ Len(<<>>) <= MtuParts BY Sizes
<1>. QED BY <1>1 DEF Sound, Links

\* So is one that holds nothing more to send.
LEMMA NothingLeftSound ==
  ASSUME NEW l, Sound(l)
  PROVE  Sound([l EXCEPT !.filled = 0, !.sent = 0])
<1>1. 0 \in {0, AnswerLength} /\ 0 \in Nat /\ 0 <= AnswerLength BY Sizes
<1>. QED BY <1>1 DEF Sound, Links

\* Nor does a reply without information change that.
LEMMA EncodeRrSound ==
  ASSUME NEW l, Sound(l)
  PROVE  Sound(EncodeRr(l)) /\ Sound(EncodeFrmr(l))
<1>1. RR(l.rrr) \in ToStation /\ RR(l.rrr).kind = "RR"
  BY DEF Sound, Links, RR, ToStation, Plain
<1>2. Frame("FRMR") \in ToStation /\ Frame("FRMR").kind = "FRMR"
  BY DEF Frame, ToStation, Plain
<1>. QED BY <1>1, <1>2, Sizes DEF Sound, Links, EncodeRr, EncodeFrmr

\* A frame of an answer leaves the buffers as they are.
LEMMA EncodeInfoSound ==
  ASSUME NEW l, Sound(l), NEW from \in Nat, NEW length \in 0 .. MaxLenTrans,
         NEW llc \in {0, Llc}, NEW more \in BOOLEAN
  PROVE  /\ Sound(EncodeInfo(l, from, length, llc, more))
         /\ EncodeInfo(l, from, length, llc, more).filled = l.filled
         /\ EncodeInfo(l, from, length, llc, more).sent = l.sent
<1>1. Succ(l.sss) \in Numbers BY Neighbours DEF Sound, Links
<1>2. FrameOverhead + llc + length \in 0 .. (FrameOverhead + Llc + MaxLenTrans)
  <2>1. FrameOverhead \in Nat /\ Llc \in Nat /\ MaxLenTrans \in Nat /\ length \in Nat
        /\ length <= MaxLenTrans
    BY Lengths
  <2>2. CASE llc = 0 BY <2>1, <2>2
  <2>3. CASE llc = Llc BY <2>1, <2>3
  <2>. QED BY <2>2, <2>3
<1>3. [kind |-> "I", sss |-> l.sss, rrr |-> l.rrr, segment |-> more,
       info |-> [answer |-> l.answer, from |-> from, length |-> length]] \in ToStation
  BY HdlcAssumption DEF Sound, Links, ToStation, Pieces
<1>. QED BY <1>1, <1>2, <1>3 DEF Sound, Links, EncodeInfo

\* Taking a frame back leaves no more to send than there is.
LEMMA RollBackSound ==
  ASSUME NEW l, Sound(l)
  PROVE  Sound(RollBack(l)) /\ RollBack(l).filled = l.filled /\ RollBack(l).recv = l.recv
<1>1. Pred(l.sss) \in Numbers BY Neighbours DEF Sound, Links
<1>2. IF l.sent >= l.confirming THEN l.sent - l.confirming \in Nat /\ l.sent - l.confirming <= l.sent
                               ELSE TRUE
  <2>1. l.sent \in Nat /\ l.confirming \in 0 .. (FrameOverhead + Llc + MaxLenTrans)
    BY DEF Sound, Links
  <2>2. l.confirming \in Nat BY <2>1, Lengths
  <2>. QED BY <2>1, <2>2
<1>3. Pred(l.sss) \in Numbers /\ l.sent \in Nat /\ l.sent <= AnswerLength
  BY <1>1 DEF Sound, Links
<1>. DEFINE left == IF l.sent >= l.confirming THEN l.sent - l.confirming ELSE 0
<1>. AnswerLength \in Nat /\ 0 <= AnswerLength BY Sizes
<1>4. left \in Nat /\ left <= AnswerLength
  BY <1>2, <1>3
<1>. HIDE DEF left
<1>5. RollBack(l) = [l EXCEPT !.sent = left, !.confirming = 0, !.sss = Pred(l.sss)]
  BY DEF RollBack, left
<1>6. 0 \in 0 .. (FrameOverhead + Llc + MaxLenTrans) BY Sizes
<1>7. RollBack(l) \in Links BY <1>3, <1>4, <1>5, <1>6 DEF Sound, Links
<1>. QED BY <1>4, <1>5, <1>7 DEF Sound, Links

\* Restarting the timer.
LEMMA RefreshSound ==
  ASSUME NEW l, Sound(l)
  PROVE  Sound(Refresh(l))
<1>1. Timeout \in 0 .. Timeout BY Sizes
<1>2. Refresh(l) = [l EXCEPT !.timer = Timeout] BY DEF Refresh
<1>3. \A t \in 0 .. Timeout : Sound([l EXCEPT !.timer = t]) BY DEF Sound, Links
<1>. QED BY <1>1, <1>2, <1>3

\* Taking an I frame, new or resent, leaves the parts received before.
LEMMA InfoTakenSound ==
  ASSUME Sound(link), NEW f \in ToMeter, f.kind = "I"
  PROVE  Sound(InfoTaken(f)) /\ InfoTaken(f).recv = link.recv
<1>1. f.sss \in Numbers /\ f.rrr \in Numbers BY DEF ToMeter, Plain
<1>. DEFINE l == IF f.sss = link.csss THEN [RollBack(link) EXCEPT !.rrr = link.rrrc] ELSE link
<1>2. Sound(l) /\ l.recv = link.recv
  BY RollBackSound DEF Sound, Links
<1>. HIDE DEF l
<1>3. InfoTaken(f) = [l EXCEPT !.crrr = f.rrr, !.csss = f.sss, !.rrrc = l.rrr]
  BY DEF InfoTaken, l
<1>. QED BY <1>1, <1>2, <1>3 DEF Sound, Links, SequenceNumbers

\* A closed link, and a new one.
LEMMA SetupSound == Sound(Closed) /\ Sound(Setup)
<1>1. NoFrame \in ToStation /\ NoFrame.kind = "none" BY DEF NoFrame, ToStation, Plain
<1>2. 0 \in Numbers /\ 0 \in SequenceNumbers /\ Unknown \in SequenceNumbers
  BY DEF Numbers, SequenceNumbers, Unknown
<1>3. <<>> \in Seq(Nat \X Nat) /\ Len(<<>>) = 0 OBVIOUS
<1>4. Closed \in Links BY <1>1, <1>2, <1>3, Sizes DEF Links, Closed
<1>5. Setup \in Links BY <1>2, <1>4 DEF Links, Setup
<1>6. /\ Setup.sent = 0 /\ Setup.filled = 0 /\ Setup.recv = <<>> /\ Setup.reply = NoFrame
      /\ Closed.sent = 0 /\ Closed.filled = 0 /\ Closed.recv = <<>> /\ Closed.reply = NoFrame
  BY DEF Setup, Closed
<1>7. 0 <= AnswerLength BY Sizes
<1>. QED BY <1>1, <1>3, <1>4, <1>5, <1>6, <1>7, Sizes DEF Sound

\* A part of a question is a frame to the meter.
LEMMA PartTyped ==
  ASSUME NEW r \in Nat, NEW i \in Nat, NEW s \in Numbers, NEW n \in Numbers
  PROVE  Part(r, i, s, n) \in ToMeter
BY DEF Part, ToMeter

\* So are the other frames the client sends; and UA is one to the client.
LEMMA FramesTyped ==
  /\ NoFrame \in ToMeter \cap ToStation
  /\ Frame("SNRM") \in ToMeter /\ Frame("DISC") \in ToMeter /\ Frame("UA") \in ToStation
  /\ \A n \in Numbers : RR(n) \in ToMeter
BY DEF NoFrame, Frame, RR, ToMeter, ToStation, Plain

\* The next frame of an answer sends no more than there is.
LEMMA RestSound ==
  ASSUME NEW l, Sound(l), l.filled > l.sent
  PROVE  Sound(EncodeRest(l))
<1>. DEFINE left == l.filled - l.sent
            length == IF left > MaxLenTrans THEN MaxLenTrans ELSE left
            e == EncodeInfo(l, l.sent, length, 0, left > MaxLenTrans)
<1>1. l.filled \in Nat /\ l.sent \in Nat BY Sizes DEF Sound, Links
<1>2. length \in 0 .. MaxLenTrans /\ length <= left BY <1>1, Lengths
<1>3. l.filled <= AnswerLength BY Sizes DEF Sound, Links
<1>7. l.sent + length \in Nat /\ l.sent + length <= AnswerLength BY <1>1, <1>2, <1>3, Sizes
<1>4. (left > MaxLenTrans) \in BOOLEAN OBVIOUS
<1>. HIDE DEF length, left
<1>5. Sound(e) /\ e.filled = l.filled BY <1>1, <1>2, <1>4, EncodeInfoSound
<1>6. EncodeRest(l) = [e EXCEPT !.sent = l.sent + length] BY DEF EncodeRest, length, left
<1>. HIDE DEF e
<1>. QED BY <1>5, <1>6, <1>7 DEF Sound, Links

\* The types hold at the start ...
LEMMA TypeInit == Init => TypeInv
<1>. SUFFICES ASSUME Init PROVE TypeInv OBVIOUS
<1>1. Sound(link) BY SetupSound DEF Init
<1>2. client \in Stations
  BY FramesTyped DEF Init, Stations, Numbers
<1>3. unanswered \in 0 .. MaxUnanswered BY Lengths DEF Init
<1>. QED BY <1>1, <1>2, <1>3, FramesTyped DEF Init, TypeInv

\* The meter's actions.
LEMMA TypePeriod ==
  ASSUME TypeInv, Period \/ Request
  PROVE  TypeInv'
<1>. USE DEF TypeInv
<1>1. CASE Tick
  <2>1. CASE link' = link BY <1>1, <2>1 DEF Tick, clientVars
  <2>2. CASE link' = Closed BY <1>1, <2>2, SetupSound DEF Tick, clientVars
  <2>3. CASE link' = [link EXCEPT !.timer = @ - 1] /\ ~(link.timer <= 1)
    <3>0. link.timer \in 0 .. Timeout BY DEF Sound, Links
    <3>1. link.timer - 1 \in 0 .. Timeout BY <2>3, <3>0, Lengths
    <3>2. Sound(link') BY <2>3, <3>1 DEF Sound, Links
    <3>. QED BY <1>1, <3>2 DEF Tick, clientVars
  <2>. QED BY <1>1, <2>1, <2>2, <2>3 DEF Tick
<1>2. CASE NoRequest BY <1>2, FramesTyped DEF NoRequest, Receive, clientVars
<1>3. CASE Respond
  <2>1. link.reply \in ToStation BY DEF Sound, Links
  <2>2. Sound(link')
    <3>1. NoFrame.kind = "none" BY DEF NoFrame
    <3>. QED BY <1>3, <3>1, FramesTyped DEF Respond, Sound, Links
  <2>. QED BY <1>3, <2>1, <2>2 DEF Respond, clientVars
<1>4. CASE Busy BY <1>4 DEF Busy, clientVars
<1>5. ASSUME NEW f, Receive(f)
      PROVE  /\ f \in ToMeter /\ turn' = "out" /\ toServer' \in ToMeter
             /\ toClient' = toClient /\ client' = client /\ answers' = answers
  BY <1>5, FramesTyped DEF Receive, clientVars
<1>6. ASSUME NEW f, RequestSnrm(f) PROVE TypeInv'
  <2>1. Sound([Setup EXCEPT !.status = "CONNECTED", !.reply = Frame("UA")])
    <3>1. Frame("UA").kind = "UA" BY DEF Frame
    <3>. QED BY <3>1, SetupSound, FramesTyped DEF Sound, Links
  <2>2. Sound(link') BY <1>6, <2>1, SetupSound, RefreshSound DEF RequestSnrm
  <2>3. 0 \in 0 .. MaxUnanswered BY Lengths
  <2>. QED BY <1>5, <1>6, <2>2, <2>3 DEF RequestSnrm
<1>7. ASSUME NEW f, Info(f) PROVE f \in ToMeter /\ f.kind = "I" /\ f.info \in Nat \X Nat
        /\ Sound(InfoTaken(f)) /\ InfoTaken(f).recv = link.recv
  <2>1. f \in ToMeter /\ f.kind = "I" BY <1>5, <1>7 DEF Info
  <2>2. f.info \in Nat \X Nat BY <2>1 DEF ToMeter, Plain
  <2>. QED BY <2>1, <2>2, InfoTakenSound
<1>8. ASSUME NEW f, RequestInfoRefused(f) PROVE TypeInv'
  <2>1. Sound(InfoTaken(f)) BY <1>7, <1>8 DEF RequestInfoRefused
  <2>2. Sound([InfoTaken(f) EXCEPT !.recv = <<>>]) BY <2>1, EmptiedSound
  <2>3. Sound(link') BY <1>8, <2>2, EncodeRrSound, RefreshSound DEF RequestInfoRefused
  <2>. QED BY <1>5, <1>8, <2>3 DEF RequestInfoRefused, Info
<1>9. ASSUME NEW f, RequestInfoSegment(f) PROVE TypeInv'
  <2>. DEFINE l == InfoTaken(f)
              more == Append(l.recv, f.info)
  <2>1. Sound(l) /\ l.recv = link.recv /\ f.info \in Nat \X Nat
    BY <1>7, <1>9 DEF RequestInfoSegment
  <2>. HIDE DEF l
  <2>2. more \in Seq(Nat \X Nat) /\ Len(more) <= MtuParts
    BY <1>9, <2>1 DEF RequestInfoSegment, Sound, Links
  <2>3. Succ(l.rrr) \in Numbers BY <2>1, Neighbours DEF Sound, Links
  <2>. HIDE DEF more
  <2>4. Sound([l EXCEPT !.recv = more, !.rrr = Succ(l.rrr)])
    BY <2>1, <2>2, <2>3 DEF Sound, Links
  <2>5. link' = Refresh(EncodeRr([l EXCEPT !.recv = more, !.rrr = Succ(l.rrr)]))
    BY <1>9 DEF RequestInfoSegment, l, more
  <2>6. Sound(link') BY <2>4, <2>5, EncodeRrSound, RefreshSound
  <2>. QED BY <1>5, <1>9, <2>6 DEF RequestInfoSegment, Info
<1>10. ASSUME NEW f, RequestInfoLast(f) PROVE TypeInv'
  <2>. DEFINE t == InfoTaken(f)
              ran == Len(executed')
              l == [t EXCEPT !.recv = <<>>, !.rrr = Succ(t.rrr), !.answer = ran]
              first == MaxLenTrans - Llc
  <2>1. Sound(t) /\ f.info \in Nat \X Nat BY <1>7, <1>10 DEF RequestInfoLast, Run
  <2>2. executed' \in Seq(Seq(Nat \X Nat)) /\ ran \in Nat
    BY <1>10, <2>1 DEF RequestInfoLast, Run, Sound, Links
  <2>3. Succ(t.rrr) \in Numbers BY <2>1, Neighbours DEF Sound, Links
  <2>. HIDE DEF t, ran
  <2>4. Sound(l)
    <3>1. Sound([t EXCEPT !.recv = <<>>]) BY <2>1, EmptiedSound
    <3>2. l = [[t EXCEPT !.recv = <<>>] EXCEPT !.rrr = Succ(t.rrr), !.answer = ran]
      BY <2>1 DEF Sound, Links
    <3>. QED BY <2>2, <2>3, <3>1, <3>2 DEF Sound, Links
  <2>5. first \in 0 .. MaxLenTrans /\ 0 \in Nat BY HdlcAssumption
  <2>6. link' = Refresh(
          IF AnswerLength + Llc > MaxLenTrans
            THEN [EncodeInfo(l, 0, first, Llc, TRUE) EXCEPT !.filled = AnswerLength, !.sent = first]
            ELSE [EncodeInfo(l, 0, AnswerLength, Llc, FALSE) EXCEPT !.filled = 0, !.sent = 0])
    BY <1>10 DEF RequestInfoLast, t, ran
  <2>. HIDE DEF l
  <2>7. CASE AnswerLength + Llc > MaxLenTrans
    <3>1. Sound(EncodeInfo(l, 0, first, Llc, TRUE)) BY <2>4, <2>5, EncodeInfoSound
    <3>2. first \in Nat /\ first <= AnswerLength BY <2>5, <2>7, Lengths, Sizes
    <3>. HIDE DEF first
    <3>3. Sound([EncodeInfo(l, 0, first, Llc, TRUE) EXCEPT !.filled = AnswerLength, !.sent = first])
      BY <3>1, <3>2 DEF Sound, Links
    <3>4. Sound(link') BY <2>6, <2>7, <3>3, RefreshSound
    <3>. QED BY <1>5, <1>10, <2>2, <3>4 DEF RequestInfoLast, Run, Info
  <2>8. CASE ~(AnswerLength + Llc > MaxLenTrans)
    <3>1. AnswerLength \in 0 .. MaxLenTrans BY <2>8, Lengths, Sizes
    <3>. DEFINE e == EncodeInfo(l, 0, AnswerLength, Llc, FALSE)
    <3>2. Sound(e) BY <2>4, <2>5, <3>1, EncodeInfoSound
    <3>. HIDE DEF e
    <3>3. Sound([e EXCEPT !.filled = 0, !.sent = 0]) BY <3>2, NothingLeftSound
    <3>4. Sound(link') BY <2>6, <2>8, <3>3, RefreshSound DEF e
    <3>. QED BY <1>5, <1>10, <2>2, <3>4 DEF RequestInfoLast, Run, Info
  <2>. QED BY <2>7, <2>8
<1>13. ASSUME NEW f, RequestInfoUnanswered(f) PROVE TypeInv'
  <2>. DEFINE t == InfoTaken(f)
  <2>1. Sound(t) /\ f.info \in Nat \X Nat BY <1>7, <1>13 DEF RequestInfoUnanswered, Run
  <2>2. executed' \in Seq(Seq(Nat \X Nat))
    BY <1>13, <2>1 DEF RequestInfoUnanswered, Run, Sound, Links
  <2>3. unanswered' \in 0 .. MaxUnanswered BY <1>13, Lengths DEF RequestInfoUnanswered
  <2>. HIDE DEF t
  <2>4. Sound([t EXCEPT !.recv = <<>>]) BY <2>1, EmptiedSound
  <2>5. Sound([[t EXCEPT !.recv = <<>>] EXCEPT !.filled = 0]) BY <2>4, Sizes DEF Sound, Links
  <2>6. link' = [[t EXCEPT !.recv = <<>>] EXCEPT !.filled = 0]
    BY <1>13, <2>1 DEF RequestInfoUnanswered, t, Sound, Links
  <2>7. Sound(link') BY <2>5, <2>6
  <2>. QED BY <1>5, <1>13, <2>2, <2>3, <2>7 DEF RequestInfoUnanswered, Run, Info
<1>11. ASSUME NEW f, RequestRr(f) PROVE TypeInv'
  <2>. DEFINE b == IF f.rrr = link.crrr THEN RollBack(link) ELSE link
              l == [b EXCEPT !.crrr = f.rrr]
  <2>0. f \in ToMeter /\ f.kind = "RR" BY <1>5, <1>11 DEF RequestRr
  <2>1. f.rrr \in Numbers BY <2>0 DEF ToMeter, Plain
  <2>2. Sound(b) BY RollBackSound
  <2>. HIDE DEF b
  <2>3. Sound(l) BY <2>1, <2>2 DEF Sound, Links, SequenceNumbers
  <2>. HIDE DEF l
  <2>4. l.filled \in Nat /\ l.sent \in Nat
    <3>1. l.filled \in {0, AnswerLength} /\ l.sent \in Nat BY <2>3 DEF Sound, Links
    <3>. QED BY <3>1, Sizes
  <2>5. link' = Refresh(
          IF f.rrr \notin {link.crrr, Succ(link.crrr)} THEN EncodeFrmr(link)
          ELSE IF l.filled <= l.sent THEN EncodeRr(l)
          ELSE EncodeRest(l))
    BY <1>11 DEF RequestRr, l, b
  <2>6. l.filled <= l.sent \/ l.filled > l.sent BY <2>4
  <2>7. Sound(link') BY <2>3, <2>5, <2>6, EncodeRrSound, RestSound, RefreshSound
  <2>. QED BY <1>5, <1>11, <2>7 DEF RequestRr
<1>12. ASSUME NEW f, RequestDisc(f) PROVE TypeInv'
  <2>1. Frame("UA").kind = "UA" BY DEF Frame
  <2>2. Sound([link EXCEPT !.status = "MARK", !.reply = Frame("UA")])
    BY <2>1, FramesTyped DEF Sound, Links
  <2>3. Sound(link') BY <1>12, <2>2, RefreshSound DEF RequestDisc
  <2>. QED BY <1>5, <1>12, <2>3 DEF RequestDisc
<1>. QED BY <1>1, <1>2, <1>3, <1>4, <1>6, <1>8, <1>9, <1>10, <1>11, <1>12, <1>13 DEF Period, Request

\* The client's actions, and the line's.
LEMMA TypeStation ==
  ASSUME TypeInv, Station \/ Reply \/ Resend \/ Line
  PROVE  TypeInv'
<1>. USE DEF TypeInv, serverVars, clientVars
<1>. <<>> \in Seq(Pieces) OBVIOUS
<1>1. ASSUME NEW f \in ToMeter, NEW c \in Stations, Send(f, c),
             UNCHANGED serverVars, toClient' \in {toClient, NoFrame}, UNCHANGED answers
      PROVE  TypeInv'
  BY <1>1, FramesTyped DEF Send, Stations
<1>2. ASSUME NEW s \in {"closed", "calling", "open", "leaving"} PROVE [client EXCEPT !.state = s] \in Stations
  BY <1>2 DEF Stations
<1>3. CASE Connect \/ Leave \/ GiveUp \/ BreakOff
  <2>1. [client EXCEPT !.state = "calling"] \in Stations /\ [client EXCEPT !.state = "leaving"] \in Stations
    BY <1>2
  <2>2. CASE Connect BY <1>1, <2>1, <2>2, FramesTyped DEF Connect
  <2>3. CASE Leave BY <1>1, <2>1, <2>3, FramesTyped DEF Leave
  <2>4. CASE GiveUp BY <1>1, <2>1, <2>4, FramesTyped DEF GiveUp
  <2>5. CASE BreakOff BY <1>1, <2>1, <2>5, FramesTyped DEF BreakOff
  <2>. QED BY <1>3, <2>2, <2>3, <2>4, <2>5
<1>4. CASE Ask
  <2>. DEFINE r == client.request + 1
              c == [client EXCEPT !.request = r, !.got = <<>>]
              f == Part(r, 1, client.vs, client.vr)
  <2>1. r \in Nat /\ client.vs \in Numbers /\ client.vr \in Numbers BY DEF Stations
  <2>2. f \in ToMeter BY <2>1, PartTyped
  <2>. HIDE DEF r
  <2>3. c \in Stations BY <2>1 DEF Stations
  <2>4. Send(f, c) /\ UNCHANGED <<serverVars, toClient, answers>> BY <1>4 DEF Ask, r
  <2>. HIDE DEF c, f
  <2>. QED BY <1>1, <2>2, <2>3, <2>4
<1>5. CASE Poll
  <2>1. RR(client.vr) \in ToMeter BY FramesTyped DEF Stations
  <2>. QED BY <1>1, <1>5, <2>1 DEF Poll
<1>6. CASE Resend \/ ResendEarly
  <2>1. client.waits \in ToMeter BY DEF Stations
  <2>. QED BY <1>1, <1>6, <2>1 DEF Resend, ResendEarly
<1>7. CASE Lose BY <1>7, FramesTyped DEF Lose
<1>8. CASE Drop BY <1>8, FramesTyped DEF Drop
<1>9. ASSUME NEW c \in Stations, Rest(c), UNCHANGED serverVars, toClient' = NoFrame,
             answers' = answers \/ \E a \in Whole :
                                      answers' = Append(answers, a)
      PROVE  TypeInv'
  <2>1. client' \in Stations BY <1>9, FramesTyped DEF Rest, Stations
  <2>2. answers' \in Seq(Whole)
    <3>1. \A a \in Whole : Append(answers, a) \in Seq(Whole) OBVIOUS
    <3>. QED BY <1>9, <3>1
  <2>. QED BY <1>9, <2>1, <2>2, FramesTyped DEF Rest
<1>10. CASE Take
  <2>1. UNCHANGED serverVars /\ toClient' = NoFrame BY <1>10 DEF Take
  <2>2. CASE toClient.kind = "UA"
    <3>1. TakeUa BY <1>10, <2>2 DEF Take
    <3>2. 0 \in Numbers BY DEF Numbers
    <3>3. [client EXCEPT !.state = "open", !.vs = 0, !.vr = 0, !.got = <<>>] \in Stations
      BY <3>2 DEF Stations
    <3>. QED BY <1>2, <1>9, <2>1, <3>1, <3>3 DEF TakeUa
  <2>3. CASE toClient.kind = "FRMR"
    <3>1. TakeFrmr BY <1>10, <2>3 DEF Take
    <3>. QED BY <1>2, <1>9, <2>1, <3>1 DEF TakeFrmr
  <2>4. CASE toClient.kind = "RR"
    <3>1. TakeRr BY <1>10, <2>4 DEF Take
    <3>2. CASE client.waits.kind = "I"
      <4>. DEFINE vs == Succ(client.vs)
                  i == client.waits.info[2] + 1
                  f == Part(client.request, i, vs, client.vr)
                  c == [client EXCEPT !.vs = vs]
      <4>1. vs \in Numbers /\ client.vr \in Numbers /\ client.request \in Nat /\ client.waits \in ToMeter
        BY Neighbours DEF Stations
      <4>2. client.waits.info \in Nat \X Nat BY <3>2, <4>1 DEF ToMeter, Plain
      <4>3. i \in Nat BY <4>2
      <4>4. f \in ToMeter BY <4>1, <4>3, PartTyped
      <4>5. c \in Stations BY <4>1 DEF Stations
      <4>6. Send(f, c) /\ UNCHANGED answers BY <3>1, <3>2 DEF TakeRr
      <4>. HIDE DEF vs, i, f, c
      <4>. QED BY <1>1, <2>1, <4>4, <4>5, <4>6
    <3>3. CASE client.waits.kind # "I" BY <1>9, <2>1, <3>1, <3>3 DEF TakeRr
    <3>. QED BY <3>2, <3>3
  <2>5. CASE toClient.kind = "I"
    <3>. DEFINE f == toClient
                vr == Succ(client.vr)
                got == Append(client.got, f.info)
                vs == IF client.waits.kind = "I" THEN Succ(client.vs) ELSE client.vs
                c == [client EXCEPT !.vr = vr, !.got = got, !.vs = vs]
    <3>1. TakeInfo(f) BY <1>10, <2>5 DEF Take
    <3>2. f.info \in Pieces BY <2>5 DEF ToStation, Plain
    <3>3. vr \in Numbers /\ vs \in Numbers BY Neighbours DEF Stations
    <3>4. got \in Seq(Pieces) BY <3>2 DEF Stations
    <3>. HIDE DEF vr, vs, got
    <3>5. c \in Stations BY <3>3, <3>4 DEF Stations
    <3>6. [c EXCEPT !.got = <<>>] \in Stations BY <3>5 DEF Stations
    <3>7. RR(vr) \in ToMeter BY <3>3, FramesTyped
    <3>8. IF f.segment
            THEN Send(RR(vr), c) /\ UNCHANGED answers
            ELSE /\ Rest([c EXCEPT !.got = <<>>])
                 /\ answers' = Append(answers, [request |-> client.request, got |-> got])
      BY <3>1 DEF TakeInfo, vr, vs, got
    <3>9. [request |-> client.request, got |-> got] \in Whole
      BY <3>4 DEF Stations, Whole
    <3>. HIDE DEF c
    <3>. QED BY <1>1, <1>9, <2>1, <3>5, <3>6, <3>7, <3>8, <3>9
  <2>6. toClient.kind \in {"UA", "FRMR", "RR", "I"}
    BY <1>10 DEF Take, Awaited
  <2>. QED BY <2>2, <2>3, <2>4, <2>5, <2>6
<1>. QED BY <1>3, <1>4, <1>5, <1>6, <1>7, <1>8, <1>10 DEF Station, Reply, Line

\* ... and after every step.
LEMMA TypeStep == TypeInv /\ [Next]_vars => TypeInv'
<1>. SUFFICES ASSUME TypeInv, [Next]_vars PROVE TypeInv' OBVIOUS
<1>1. CASE UNCHANGED vars BY <1>1 DEF TypeInv, vars, serverVars, clientVars
<1>. QED BY <1>1, TypePeriod, TypeStation DEF Next

(* The fields of the link and of the client hold the values they can have, for *)
(* questions and answers of any length (hdlc_datalink.c: request_info,         *)
(* request_rr, link_setup): the buffer is never overrun, and no more of an     *)
(* answer is sent than there is.                                               *)
THEOREM HdlcTypeCorrect == Spec => []HdlcTypeOK
<1>1. TypeInv => HdlcTypeOK
  <2>. SUFFICES ASSUME TypeInv PROVE HdlcTypeOK OBVIOUS
  <2>1. Len(link.recv) \in 0 .. MtuParts BY Sizes DEF TypeInv, Sound, Links
  <2>2. link.sent \in 0 .. AnswerLength BY Sizes DEF TypeInv, Sound, Links
  <2>. QED BY <2>1, <2>2 DEF HdlcTypeOK, TypeInv, Sound, Links, Stations
<1>. QED BY <1>1, TypeInit, TypeStep, PTL DEF Spec

-----------------------------------------------------------------------------
\* questions and answers of one frame

\* What fits in one frame is not split, and nothing polls an idle link: the cases in
\* which the code loses count are left out.
SingleFrames ==
  /\ \A r \in 1 .. Requests : RequestParts[r] = 1
  /\ MtuParts >= 1 /\ AnswerLength + Llc <= MaxLenTrans /\ MaxPolls = 0

N == client.vs
Connected == link.status = "CONNECTED"
Open == client.state = "open"
Waiting == Open /\ client.waits # NoFrame
\* the link is up, and the application has answered whatever it was asked on it
Good == Connected /\ unanswered = 0
\* the link has taken no frame since it was set up
New == Connected => link.csss = Unknown
NoInfo == link.reply.kind # "I" /\ New
IsAnswer(f) ==
  /\ ~f.segment
  /\ f.info.from = 0 /\ f.info.length = AnswerLength /\ f.info.answer \in 1 .. Len(executed)
Answers(f) == executed[f.info.answer] = Question(client.request)

\* The link's numbers follow from the frame it took last: all of them while every
\* question is answered, and only the number it waits for otherwise.
LinkInv ==
  /\ link.recv = <<>> /\ link.filled = 0
  /\ Connected => \/ link.csss = Unknown /\ link.rrr = 0
                  \/ link.csss # Unknown /\ link.rrr \in {link.rrrc, Succ(link.rrrc)}
  /\ Good => /\ link.sss = link.rrr /\ Succ(link.csss) = link.rrr
             /\ link.csss # Unknown => link.rrrc = link.csss
  /\ link.reply.kind \in {"none", "UA", "I"}
  /\ link.reply.kind = "I" => Connected /\ IsAnswer(link.reply)

\* What the client waits for follows from its state.
ClientInv ==
  /\ client.vs = client.vr /\ client.got = <<>> /\ client.request \in 0 .. Requests /\ polls = 0
  /\ client.state = "closed" => client.waits = NoFrame
  /\ client.state = "calling" => client.waits = Frame("SNRM")
  /\ client.state = "leaving" => client.waits = Frame("DISC")
  /\ Waiting => client.request \in 1 .. Requests /\ client.waits = Part(client.request, 1, N, N)

\* A frame to the meter is the one waited on, or a resend of the one before.
ToServerInv ==
  \/ toServer = NoFrame
  \/ toServer = Frame("SNRM") /\ (client.state = "calling" \/ (Open /\ ~Waiting /\ N = 0))
  \/ toServer = Frame("DISC") /\ client.state \in {"leaving", "closed"}
  \/ /\ Open /\ client.request \in 1 .. Requests
     /\ \/ Waiting /\ toServer = Part(client.request, 1, N, N)
        \/ /\ ~Waiting /\ toServer = Part(client.request, 1, Pred(N), Pred(N))
           /\ Connected => link.csss = Pred(N)

\* No answer of an earlier link is on its way when a new one comes up.
ToClientInv ==
  /\ toClient.kind \in {"none", "UA", "I"}
  /\ toClient.kind = "I" => IsAnswer(toClient)
  /\ client.state = "closed" => NoInfo /\ toClient.kind # "I"
  /\ Open /\ toServer.kind = "SNRM" => NoInfo /\ toClient.kind # "I"
  /\ "UA" \in {link.reply.kind, toClient.kind} /\ ~Waiting => NoInfo /\ toServer.kind # "I"

\* On an open link either side is one frame ahead at most, and what is on its way is
\* the answer waited for or one that the client drops: they differ in the number the
\* meter waits for, which a question left unanswered holds back.
OpenInv ==
  Open =>
    /\ Connected => \/ Succ(link.csss) = N /\ (link.csss # Unknown => link.rrrc = link.csss)
                    \/ Waiting /\ link.csss = N /\ link.rrrc \in {N, Pred(N)}
    /\ link.reply.kind = "I" =>
         \/ link.reply.rrr \in {N, Pred(N)}
         \/ /\ Waiting /\ link.reply.rrr = Succ(N) /\ Answers(link.reply)
            /\ link.csss = N /\ link.rrrc = N
    /\ toClient.kind = "I" =>
         \/ toClient.rrr \in {N, Pred(N)}
         \/ /\ Waiting /\ toClient.rrr = Succ(N) /\ Answers(toClient)
            /\ Connected => link.csss = N /\ link.rrrc = N
            /\ link.reply.kind # "UA"
            /\ link.reply.kind = "I" => link.reply.rrr = Succ(N)

\* Each answer is whole, and to the question that was asked.
AllWhole == \A i \in 1 .. Len(executed) : \E r \in 1 .. Requests : executed[i] = Question(r)
HistInv ==
  /\ AllWhole
  /\ \A i \in 1 .. Len(answers) :
       /\ Len(answers[i].got) = 1
       /\ answers[i].got[1].from = 0 /\ answers[i].got[1].length = AnswerLength
       /\ answers[i].got[1].answer \in 1 .. Len(executed)
       /\ answers[i].request \in 1 .. client.request
       /\ executed[answers[i].got[1].answer] = Question(answers[i].request)
       /\ Waiting => answers[i].request < client.request

StepInv == TypeInv /\ LinkInv /\ ClientInv /\ ToServerInv /\ ToClientInv /\ OpenInv /\ HistInv

\* A question of one frame is its one part.
LEMMA QuestionOne ==
  ASSUME SingleFrames, NEW r \in 1 .. Requests
  PROVE  Question(r) = <<<<r, 1>>>> /\ Question(r)[1][1] = r
<1>1. RequestParts[r] = 1 BY DEF SingleFrames
<1>2. Question(r) = [i \in 1 .. 1 |-> <<r, i>>] BY <1>1 DEF Question
<1>3. DOMAIN <<<<r, 1>>>> = 1 .. 1 /\ <<<<r, 1>>>>[1] = <<r, 1>> OBVIOUS
<1>4. [i \in 1 .. 1 |-> <<r, i>>] = <<<<r, 1>>>> OBVIOUS
<1>. QED BY <1>2, <1>4

\* Before the first frame both ends are in step.
LEMMA StepInit == ASSUME SingleFrames PROVE Init => StepInv
<1>. SUFFICES ASSUME Init PROVE StepInv OBVIOUS
<1>1. TypeInv BY TypeInit
<1>2. LinkInv /\ ToServerInv /\ ToClientInv /\ OpenInv
  BY DEF Init, LinkInv, ToServerInv, ToClientInv, OpenInv, Closed, NoFrame, NoInfo, New, Connected, Open, Good
<1>3. ClientInv BY HdlcAssumption DEF Init, ClientInv, NoFrame, Waiting, Open
<1>4. HistInv BY DEF Init, HistInv, AllWhole
<1>. QED BY <1>1, <1>2, <1>3, <1>4 DEF StepInv

\* A link in the state Closed, and a new one.
LEMMA SetupState ==
  /\ Closed.recv = <<>> /\ Closed.filled = 0 /\ Closed.status = "DISCONNECTED"
  /\ Closed.reply = NoFrame
  /\ LET l == Refresh([Setup EXCEPT !.status = "CONNECTED", !.reply = Frame("UA")])
     IN /\ l.recv = <<>> /\ l.filled = 0 /\ l.status = "CONNECTED" /\ l.reply = Frame("UA")
        /\ l.sss = 0 /\ l.rrr = 0 /\ l.csss = Unknown
BY DEF Closed, Setup, Refresh

\* The number before the first, of a link that has taken no frame.
LEMMA Wrap == Succ(Unknown) = 0 /\ Unknown \notin Numbers /\ 0 \in Numbers
BY DEF Succ, Unknown, Numbers

\* What precedes a number is unique, but for a new link.
LEMMA SuccOne ==
  ASSUME NEW n \in SequenceNumbers, NEW m \in Numbers, Succ(n) = m, n # Unknown
  PROVE  n = Pred(m) /\ n \in Numbers /\ n # m
BY DEF SequenceNumbers, Numbers, Succ, Pred, Unknown

\* The frames the client sends.
LEMMA PartOne ==
  ASSUME SingleFrames, NEW r \in 1 .. Requests, NEW s \in Numbers, NEW n \in Numbers
  PROVE  /\ Part(r, 1, s, n).kind = "I" /\ Part(r, 1, s, n).sss = s /\ Part(r, 1, s, n).rrr = n
         /\ Part(r, 1, s, n).segment = FALSE
<1>1. RequestParts[r] = 1 BY DEF SingleFrames
<1>2. (1 < RequestParts[r]) = FALSE BY <1>1
<1>3. Part(r, 1, s, n) = [kind |-> "I", sss |-> s, rrr |-> n, segment |-> FALSE, info |-> <<r, 1>>]
  BY <1>2 DEF Part
<1>. QED BY <1>3

\* An I frame the meter receives is the question asked last, in sequence: the one
\* after the frame taken last, or that frame again.
LEMMA Received ==
  ASSUME SingleFrames, StepInv, toServer.kind = "I"
  PROVE  LET f == toServer
         IN /\ Open /\ client.request \in 1 .. Requests
            /\ f.sss \in Numbers /\ f.rrr = f.sss /\ ~f.segment /\ f.info = <<client.request, 1>>
            /\ (f.sss = N /\ Waiting) \/ (f.sss = Pred(N) /\ ~Waiting)
            /\ Connected =>
                 \/ f.sss = link.csss
                 \/ f.sss # link.csss /\ f.sss = Succ(link.csss)
<1>. USE DEF StepInv
<1>1. toServer \notin {NoFrame, Frame("SNRM"), Frame("DISC")} BY DEF NoFrame, Frame
<1>2. Open /\ client.request \in 1 .. Requests BY <1>1 DEF ToServerInv
<1>3. N \in Numbers /\ Pred(N) \in Numbers
  <2>1. N \in Numbers BY DEF TypeInv, Stations, N
  <2>. QED BY <2>1, Neighbours
<1>5. CASE Waiting /\ toServer = Part(client.request, 1, N, N)
  <2>1. /\ toServer.sss = N /\ toServer.rrr = N /\ ~toServer.segment
        /\ toServer.info = <<client.request, 1>>
    <3>. DEFINE f == Part(client.request, 1, N, N)
    <3>1. /\ f.sss = N /\ f.rrr = N /\ f.info = <<client.request, 1>>
          /\ f.segment = (1 < RequestParts[client.request])
      BY DEF Part
    <3>2. ~(1 < RequestParts[client.request]) BY <1>2 DEF SingleFrames
    <3>3. toServer = f BY <1>5
    <3>. HIDE DEF f
    <3>. QED BY <3>1, <3>2, <3>3
  <2>2. Connected => link.csss = N \/ Succ(link.csss) = N BY <1>2 DEF OpenInv
  <2>. QED BY <1>2, <1>3, <1>5, <2>1, <2>2
<1>6. CASE ~Waiting /\ toServer = Part(client.request, 1, Pred(N), Pred(N))
           /\ (Connected => link.csss = Pred(N))
  <2>1. /\ toServer.sss = Pred(N) /\ toServer.rrr = Pred(N) /\ ~toServer.segment
        /\ toServer.info = <<client.request, 1>>
    <3>. DEFINE f == Part(client.request, 1, Pred(N), Pred(N))
    <3>1. /\ f.sss = Pred(N) /\ f.rrr = Pred(N) /\ f.info = <<client.request, 1>>
          /\ f.segment = (1 < RequestParts[client.request])
      BY DEF Part
    <3>2. ~(1 < RequestParts[client.request]) BY <1>2 DEF SingleFrames
    <3>3. toServer = f BY <1>6
    <3>. HIDE DEF f
    <3>. QED BY <3>1, <3>2, <3>3
  <2>. QED BY <1>2, <1>3, <1>6, <2>1
<1>. QED BY <1>1, <1>5, <1>6 DEF ToServerInv

\* The fields of a link that has taken an I frame, new or resent.
LEMMA TakenFields ==
  ASSUME Sound(link), NEW f \in ToMeter, f.kind = "I"
  PROVE  LET t == InfoTaken(f)
         IN /\ Sound(t) /\ t.recv = link.recv /\ t.csss = f.sss /\ t.rrrc = t.rrr
            /\ t.status = link.status /\ t.filled = link.filled /\ t.reply = link.reply
            /\ t.rrr = IF f.sss = link.csss THEN link.rrrc ELSE link.rrr
            /\ t.sss = IF f.sss = link.csss THEN Pred(link.sss) ELSE link.sss
<1>. DEFINE t == InfoTaken(f)
<1>1. link \in Links BY DEF Sound
<1>2. Sound(t) /\ t.recv = link.recv BY InfoTakenSound
<1>3. CASE f.sss = link.csss
  <2>. DEFINE b == RollBack(link)
  <2>1. b \in Links /\ b.filled = link.filled BY RollBackSound DEF Sound
  <2>2. b.sss = Pred(link.sss) /\ b.status = link.status /\ b.reply = link.reply
    BY <1>1, <2>1 DEF RollBack, Links
  <2>. HIDE DEF b
  <2>3. t = [[b EXCEPT !.rrr = link.rrrc]
               EXCEPT !.crrr = f.rrr, !.csss = f.sss, !.rrrc = [b EXCEPT !.rrr = link.rrrc].rrr]
    BY <1>3 DEF InfoTaken, b
  <2>. HIDE DEF t
  <2>. QED BY <1>2, <1>3, <2>1, <2>2, <2>3 DEF Links, t
<1>4. CASE f.sss # link.csss
  <2>1. t = [link EXCEPT !.crrr = f.rrr, !.csss = f.sss, !.rrrc = link.rrr] BY <1>4 DEF InfoTaken
  <2>. HIDE DEF t
  <2>. QED BY <1>1, <1>2, <1>4, <2>1 DEF Links, t
<1>. QED BY <1>3, <1>4

\* What the link becomes when it takes such a frame, new or resent.
LEMMA Taken ==
  ASSUME SingleFrames, StepInv, NEW f, f = toServer, Run(f)
  PROVE  LET t == InfoTaken(f)
         IN /\ Connected /\ f.kind = "I" /\ executed' = Append(executed, <<f.info>>)
            /\ Sound(t) /\ t.recv = <<>> /\ t.filled = 0 /\ t.status = "CONNECTED"
            /\ t.reply = link.reply /\ t.csss = f.sss /\ t.rrrc = t.rrr
            /\ t.rrr = IF f.sss = link.csss THEN link.rrrc ELSE link.rrr
            /\ f.sss = N => t.rrr \in {N, Pred(N)}
            /\ f.sss = Pred(N) => t.rrr = Pred(N)
            /\ Good => t.sss = f.sss /\ t.rrr = f.sss
<1>. DEFINE t == InfoTaken(f)
<1>. USE DEF StepInv
<1>1. Connected /\ f.kind = "I" BY DEF Run, Info, Connected
<1>2. /\ f.sss \in Numbers /\ f.rrr = f.sss /\ Open
      /\ (f.sss = N /\ Waiting) \/ (f.sss = Pred(N) /\ ~Waiting)
      /\ f.sss = link.csss \/ (f.sss # link.csss /\ f.sss = Succ(link.csss))
  BY <1>1, Received
<1>3. link \in Links /\ f \in ToMeter BY DEF TypeInv, Sound
<1>4. Sound(t) /\ t.recv = link.recv BY <1>1, <1>3, InfoTakenSound DEF TypeInv
<1>5. link.recv = <<>> /\ link.filled = 0 BY DEF LinkInv
<1>6. N \in Numbers /\ f.sss # Unknown /\ Succ(Pred(N)) = N /\ Pred(N) # N /\ Succ(N) # N
      /\ Pred(Succ(f.sss)) = f.sss
  <2>1. N \in Numbers BY DEF TypeInv, Stations, N
  <2>. QED BY <1>2, <2>1, Neighbours
<1>7. /\ t.csss = f.sss /\ t.rrrc = t.rrr /\ t.status = "CONNECTED"
      /\ t.filled = link.filled /\ t.reply = link.reply
      /\ t.rrr = IF f.sss = link.csss THEN link.rrrc ELSE link.rrr
      /\ t.sss = IF f.sss = link.csss THEN Pred(link.sss) ELSE link.sss
  BY <1>1, <1>3, TakenFields DEF TypeInv, Connected
<1>. HIDE DEF t
<1>8. f.sss = N => t.rrr \in {N, Pred(N)}
  <2>. SUFFICES ASSUME f.sss = N PROVE t.rrr \in {N, Pred(N)} OBVIOUS
  <2>1. CASE f.sss = link.csss
    <3>1. Succ(link.csss) # N BY <1>6, <2>1
    <3>. QED BY <1>1, <1>2, <1>7, <2>1, <3>1 DEF OpenInv
  <2>2. CASE f.sss # link.csss
    <3>1. Succ(link.csss) = N /\ (link.csss # Unknown => link.rrrc = link.csss)
      BY <1>1, <1>2, <2>2 DEF OpenInv
    <3>2. CASE link.csss = Unknown BY <1>1, <1>7, <2>2, <3>1, <3>2, Wrap DEF LinkInv
    <3>3. CASE link.csss # Unknown
      <4>1. link.csss \in SequenceNumbers BY <1>3 DEF Links
      <4>2. link.csss = Pred(N) BY <1>6, <3>1, <3>3, <4>1, SuccOne
      <4>. QED BY <1>1, <1>6, <1>7, <2>2, <3>1, <3>3, <4>2 DEF LinkInv
    <3>. QED BY <3>2, <3>3
  <2>. QED BY <2>1, <2>2
<1>9. f.sss = Pred(N) => t.rrr = Pred(N)
  <2>. SUFFICES ASSUME f.sss = Pred(N) PROVE t.rrr = Pred(N) OBVIOUS
  <2>1. ~Waiting BY <1>2, <1>6
  <2>2. link.csss = Pred(N)
    <3>1. toServer \notin {NoFrame, Frame("SNRM"), Frame("DISC")} BY <1>1 DEF NoFrame, Frame
    <3>. QED BY <1>1, <2>1, <3>1 DEF ToServerInv
  <2>3. link.rrrc = link.csss BY <1>1, <1>2, <1>6, <2>1, <2>2 DEF OpenInv
  <2>. QED BY <1>7, <2>2, <2>3
<1>10. Good => t.sss = f.sss /\ t.rrr = f.sss
  <2>. SUFFICES ASSUME Good PROVE t.sss = f.sss /\ t.rrr = f.sss OBVIOUS
  <2>1. link.sss = link.rrr /\ Succ(link.csss) = link.rrr /\ (link.csss # Unknown => link.rrrc = link.csss)
    BY DEF LinkInv
  <2>2. CASE f.sss = link.csss BY <1>6, <1>7, <2>1, <2>2
  <2>3. CASE f.sss # link.csss BY <1>2, <1>7, <2>1, <2>3
  <2>. QED BY <2>2, <2>3
<1>11. executed' = Append(executed, <<f.info>>)
  <2>1. Append(link.recv, f.info) = <<f.info>> BY <1>5
  <2>. QED BY <2>1 DEF Run
<1>. QED BY <1>1, <1>4, <1>5, <1>7, <1>8, <1>9, <1>10, <1>11 DEF t

\* The application has an answer: it is the reply, and both numbers move.
LEMMA RunAnswered ==
  ASSUME SingleFrames, StepInv, NEW f, f = toServer, RequestInfoLast(f)
  PROVE  LET t == InfoTaken(f)
         IN /\ link'.status = "CONNECTED" /\ link'.recv = <<>> /\ link'.filled = 0
            /\ link'.sss = Succ(t.sss) /\ link'.rrr = Succ(t.rrr)
            /\ link'.csss = t.csss /\ link'.rrrc = t.rrrc
            /\ link'.reply = [kind |-> "I", sss |-> t.sss, rrr |-> Succ(t.rrr), segment |-> FALSE,
                              info |-> [answer |-> Len(executed) + 1, from |-> 0,
                                        length |-> AnswerLength]]
<1>. DEFINE t == InfoTaken(f)
            ran == Len(executed')
            l == [t EXCEPT !.recv = <<>>, !.rrr = Succ(t.rrr), !.answer = ran]
            e == EncodeInfo(l, 0, AnswerLength, Llc, FALSE)
<1>. USE DEF StepInv
<1>1. /\ f.kind = "I" /\ executed' = Append(executed, <<f.info>>)
      /\ Sound(t) /\ t.status = "CONNECTED"
  BY Taken DEF RequestInfoLast
<1>2. executed \in Seq(Seq(Nat \X Nat)) BY DEF TypeInv
<1>3. f.info \in Nat \X Nat BY <1>1 DEF TypeInv, ToMeter, Plain
<1>4. ran = Len(executed) + 1
  <2>1. <<f.info>> \in Seq(Nat \X Nat) BY <1>3
  <2>. QED BY <1>1, <1>2, <2>1
<1>5. link' = Refresh([e EXCEPT !.filled = 0, !.sent = 0])
  <2>1. ~(AnswerLength + Llc > MaxLenTrans) BY HdlcAssumption DEF SingleFrames
  <2>. QED BY <2>1 DEF RequestInfoLast
<1>. HIDE DEF t, ran
<1>6. /\ l.sss = t.sss /\ l.rrr = Succ(t.rrr) /\ l.csss = t.csss /\ l.rrrc = t.rrrc
      /\ l.status = "CONNECTED" /\ l.recv = <<>> /\ l.answer = ran
      /\ DOMAIN l = DOMAIN t
  BY <1>1 DEF Sound, Links
<1>7. DOMAIN t = {"status", "sss", "rrr", "rrrc", "csss", "crrr", "recv", "filled", "sent",
                  "confirming", "answer", "reply", "timer"}
  BY <1>1 DEF Sound, Links
<1>. HIDE DEF l
<1>8. /\ e.status = "CONNECTED" /\ e.recv = <<>> /\ e.csss = t.csss /\ e.rrrc = t.rrrc
      /\ e.rrr = Succ(t.rrr) /\ e.sss = Succ(t.sss) /\ DOMAIN e = DOMAIN t
      /\ e.reply = [kind |-> "I", sss |-> t.sss, rrr |-> Succ(t.rrr), segment |-> FALSE,
                    info |-> [answer |-> ran, from |-> 0, length |-> AnswerLength]]
  BY <1>6, <1>7 DEF EncodeInfo
<1>. HIDE DEF e
<1>9. Refresh([e EXCEPT !.filled = 0, !.sent = 0])
         = [e EXCEPT !.filled = 0, !.sent = 0, !.timer = Timeout]
  BY <1>7, <1>8 DEF Refresh
<1>. QED BY <1>4, <1>5, <1>7, <1>8, <1>9 DEF t

\* It has none: the frame is taken, and nothing else happens.
LEMMA RunUnanswered ==
  ASSUME SingleFrames, StepInv, NEW f, f = toServer, RequestInfoUnanswered(f)
  PROVE  LET t == InfoTaken(f)
         IN /\ link'.status = "CONNECTED" /\ link'.recv = <<>> /\ link'.filled = 0
            /\ link'.rrr = t.rrr /\ link'.csss = t.csss /\ link'.rrrc = t.rrrc
            /\ link'.reply = t.reply /\ unanswered' # 0
<1>. DEFINE t == InfoTaken(f)
<1>1. Sound(t) /\ t.status = "CONNECTED" BY Taken DEF RequestInfoUnanswered
<1>2. link' = [t EXCEPT !.recv = <<>>, !.filled = 0] BY DEF RequestInfoUnanswered
<1>3. unanswered' # 0 BY Lengths DEF RequestInfoUnanswered, StepInv, TypeInv
<1>. HIDE DEF t
<1>. QED BY <1>1, <1>2, <1>3 DEF Sound, Links, t

-----------------------------------------------------------------------------
\* the invariant is kept

\* What a step that leaves the application alone must keep.
LEMMA QuietHist ==
  ASSUME HistInv, UNCHANGED <<executed, answers>>,
         client.request \in Nat, client'.request \in Nat,
         \/ Waiting' => Waiting
         \/ client'.request > client.request,
         client'.request >= client.request
  PROVE  HistInv'
<1>1. AllWhole' BY DEF HistInv, AllWhole, Question
<1>2. ASSUME NEW i \in 1 .. Len(answers')
      PROVE  /\ Len(answers'[i].got) = 1
             /\ answers'[i].got[1].from = 0 /\ answers'[i].got[1].length = AnswerLength
             /\ answers'[i].got[1].answer \in 1 .. Len(executed')
             /\ answers'[i].request \in 1 .. client'.request
             /\ executed'[answers'[i].got[1].answer] = Question(answers'[i].request)
             /\ Waiting' => answers'[i].request < client'.request
  BY <1>2 DEF HistInv, Question
<1>. QED BY <1>1, <1>2 DEF HistInv, Question

LinkPart == LinkInv /\ ToServerInv /\ ToClientInv /\ OpenInv

\* A link whose timer alone goes on, as a frame is taken off the line or left there.
LEMMA Kept ==
  ASSUME LinkPart, UNCHANGED <<client, executed, unanswered, toClient>>, toServer' \in {toServer, NoFrame},
         link'.status = link.status, link'.sss = link.sss, link'.rrr = link.rrr,
         link'.rrrc = link.rrrc, link'.csss = link.csss, link'.recv = link.recv,
         link'.filled = link.filled, link'.reply = link.reply
  PROVE  LinkPart'
<1>. USE DEF LinkPart, Connected, Good, Open, Waiting, New, NoInfo, N
<1>1. NoFrame.kind = "none" BY DEF NoFrame
<1>2. \A f : IsAnswer(f)' <=> IsAnswer(f) BY DEF IsAnswer
<1>3. \A f : Answers(f)' <=> Answers(f) BY DEF Answers, Question
<1>4. LinkInv' BY <1>2 DEF LinkInv
<1>5. ToServerInv' BY <1>1 DEF ToServerInv, Part, NoFrame, Frame
<1>6. ToClientInv' BY <1>1, <1>2 DEF ToClientInv
<1>7. OpenInv' BY <1>3 DEF OpenInv
<1>. QED BY <1>4, <1>5, <1>6, <1>7

\* A link that is closed.
LEMMA Dropped ==
  ASSUME LinkPart, UNCHANGED <<client, executed, toClient>>, toServer' \in {toServer, NoFrame},
         link' = Closed
  PROVE  LinkPart'
<1>. USE DEF LinkPart, Connected, Good, Open, Waiting, New, NoInfo, N
<1>1. NoFrame.kind = "none" BY DEF NoFrame
<1>2. \A f : IsAnswer(f)' <=> IsAnswer(f) BY DEF IsAnswer
<1>3. \A f : Answers(f)' <=> Answers(f) BY DEF Answers, Question
<1>4. /\ link'.recv = <<>> /\ link'.filled = 0 /\ link'.status = "DISCONNECTED"
      /\ link'.reply.kind = "none"
  BY <1>1, SetupState
<1>5. LinkInv' BY <1>4 DEF LinkInv
<1>6. ToServerInv' BY <1>1, <1>4 DEF ToServerInv, Part, NoFrame, Frame
<1>7. ToClientInv' BY <1>1, <1>2, <1>4 DEF ToClientInv
<1>8. OpenInv' BY <1>3, <1>4 DEF OpenInv
<1>. QED BY <1>5, <1>6, <1>7, <1>8

\* A link that is set up.
LEMMA SetUp ==
  ASSUME LinkPart, UNCHANGED <<client, executed, toClient>>,
         toServer.kind = "SNRM", toServer' = NoFrame, unanswered' = 0,
         link' = Refresh([Setup EXCEPT !.status = "CONNECTED", !.reply = Frame("UA")])
  PROVE  LinkPart'
<1>. USE DEF LinkPart, Connected, Good, Open, Waiting, New, NoInfo, N
<1>1. NoFrame.kind = "none" /\ Frame("UA").kind = "UA" BY DEF NoFrame, Frame
<1>2. \A f : IsAnswer(f)' <=> IsAnswer(f) BY DEF IsAnswer
<1>3. /\ link'.recv = <<>> /\ link'.filled = 0 /\ link'.status = "CONNECTED"
      /\ link'.reply.kind = "UA" /\ link'.sss = 0 /\ link'.rrr = 0 /\ link'.csss = Unknown
  BY <1>1, SetupState
<1>4. LinkInv' BY <1>3, Wrap DEF LinkInv
<1>5. Open => ~Waiting /\ N = 0
  BY DEF ToServerInv, NoFrame, Frame, Part
<1>6. ToServerInv' BY DEF ToServerInv
<1>7. ToClientInv' BY <1>1, <1>2, <1>3 DEF ToClientInv
<1>8. OpenInv' BY <1>1, <1>3, <1>5, Wrap DEF OpenInv, ToClientInv
<1>. QED BY <1>4, <1>6, <1>7, <1>8

\* A link that a DISC marks.
LEMMA Marked ==
  ASSUME LinkPart, link \in Links, UNCHANGED <<client, executed, toClient>>,
         toServer.kind = "DISC", toServer' = NoFrame,
         link' = Refresh([link EXCEPT !.status = "MARK", !.reply = Frame("UA")])
  PROVE  LinkPart'
<1>. USE DEF LinkPart, Connected, Good, Open, Waiting, New, NoInfo, N
<1>1. NoFrame.kind = "none" /\ Frame("UA").kind = "UA" BY DEF NoFrame, Frame
<1>2. \A f : IsAnswer(f)' <=> IsAnswer(f) BY DEF IsAnswer
<1>3. /\ link'.recv = link.recv /\ link'.filled = link.filled /\ link'.status = "MARK"
      /\ link'.reply.kind = "UA"
  BY <1>1 DEF Links, Refresh
<1>4. LinkInv' BY <1>3 DEF LinkInv
<1>5. ~Open BY DEF ToServerInv, NoFrame, Frame, Part
<1>6. ToServerInv' BY DEF ToServerInv
<1>7. ToClientInv' BY <1>1, <1>2, <1>3, <1>5 DEF ToClientInv
<1>8. OpenInv' BY <1>5 DEF OpenInv
<1>. QED BY <1>4, <1>6, <1>7, <1>8

\* The reply goes out.
LEMMA Sent ==
  ASSUME StepInv, UNCHANGED <<client, executed, unanswered, toServer>>,
         toClient = NoFrame, toClient' = link.reply, link' = [link EXCEPT !.reply = NoFrame]
  PROVE  LinkPart'
<1>. USE DEF StepInv, Connected, Good, Open, Waiting, New, NoInfo, N
<1>1. NoFrame.kind = "none" BY DEF NoFrame
<1>2. \A f : IsAnswer(f)' <=> IsAnswer(f) BY DEF IsAnswer
<1>3. \A f : Answers(f)' <=> Answers(f) BY DEF Answers, Question
<1>4. /\ link'.status = link.status /\ link'.sss = link.sss /\ link'.rrr = link.rrr
      /\ link'.rrrc = link.rrrc /\ link'.csss = link.csss /\ link'.recv = link.recv
      /\ link'.filled = link.filled /\ link'.reply.kind = "none"
  BY <1>1 DEF TypeInv, Sound, Links
<1>5. LinkInv' BY <1>4 DEF LinkInv
<1>6. ToServerInv' BY <1>4 DEF ToServerInv, Part, NoFrame, Frame
<1>7. ToClientInv' BY <1>1, <1>2, <1>4 DEF ToClientInv, LinkInv
<1>8. OpenInv'
  <2>1. ASSUME Open, link.reply.kind = "I" PROVE
          \/ link.reply.rrr \in {N, Pred(N)}
          \/ /\ Waiting /\ link.reply.rrr = Succ(N) /\ Answers(link.reply)
             /\ link.csss = N /\ link.rrrc = N
    BY <2>1 DEF OpenInv
  <2>. QED BY <1>1, <1>3, <1>4, <2>1 DEF OpenInv
<1>. QED BY <1>5, <1>6, <1>7, <1>8 DEF LinkPart

\* The last frame of a question is taken: the application is given the question asked
\* last, whole.
LEMMA StepRun ==
  ASSUME SingleFrames, StepInv, NEW f, f = toServer, Run(f)
  PROVE  /\ Open /\ client.request \in 1 .. Requests /\ f.sss \in Numbers
         /\ (f.sss = N /\ Waiting) \/ (f.sss = Pred(N) /\ ~Waiting)
         /\ UNCHANGED <<client, answers, toClient>> /\ toServer' = NoFrame
         /\ executed' = Append(executed, Question(client.request))
         /\ executed'[Len(executed) + 1] = Question(client.request)
         /\ Len(executed') = Len(executed) + 1 /\ Len(executed) + 1 \in 1 .. Len(executed')
         /\ \A g : IsAnswer(g) => IsAnswer(g)'
         /\ \A g : IsAnswer(g) /\ Answers(g) => Answers(g)'
         /\ HistInv'
<1>. DEFINE ran == Len(executed) + 1
            r == client.request
<1>. USE DEF StepInv
<1>1. client' = client /\ answers' = answers /\ toClient' = toClient /\ toServer' = NoFrame
  BY DEF Run, Info, Receive, clientVars
<1>2. f.kind = "I" /\ executed' = Append(executed, <<f.info>>) BY Taken
<1>3. /\ Open /\ r \in 1 .. Requests /\ f.sss \in Numbers /\ f.info = <<r, 1>>
      /\ (f.sss = N /\ Waiting) \/ (f.sss = Pred(N) /\ ~Waiting)
  BY <1>2, Received
<1>5. executed \in Seq(Seq(Nat \X Nat)) /\ Len(executed) \in Nat BY DEF TypeInv
<1>6. /\ executed' = Append(executed, Question(r)) /\ Question(r) \in Seq(Nat \X Nat)
      /\ executed'[ran] = Question(r) /\ Len(executed') = ran
      /\ \A i \in 1 .. Len(executed) : i \in 1 .. ran /\ executed'[i] = executed[i]
  <2>1. Question(r) = <<f.info>> BY <1>3, QuestionOne
  <2>2. Question(r) \in Seq(Nat \X Nat) BY <1>3, <2>1
  <2>3. executed' = Append(executed, Question(r)) BY <1>2, <2>1
  <2>. HIDE DEF ran, r
  <2>4. ran = Len(executed) + 1 BY DEF ran
  <2>. QED BY <1>5, <2>2, <2>3, <2>4
<1>8. ran \in 1 .. ran BY <1>5
<1>. HIDE DEF ran, r
<1>10. \A g : IsAnswer(g) => IsAnswer(g)' BY <1>6 DEF IsAnswer
<1>11. \A g : IsAnswer(g) /\ Answers(g) => Answers(g)' BY <1>1, <1>6 DEF IsAnswer, Answers, Question
<1>14. Waiting' = Waiting BY <1>1 DEF Waiting, Open
<1>19. HistInv'
  <2>1. AllWhole'
    <3>1. ASSUME NEW i \in 1 .. Len(executed')
          PROVE  \E q \in 1 .. Requests : executed'[i] = Question(q)
      <4>1. CASE i = ran BY <1>3, <1>6, <4>1 DEF r
      <4>2. CASE i # ran
        <5>1. i \in 1 .. Len(executed) BY <1>5, <1>6, <3>1, <4>2 DEF ran
        <5>. QED BY <1>6, <5>1 DEF HistInv, AllWhole
      <4>. QED BY <4>1, <4>2
    <3>. QED BY <3>1 DEF AllWhole, Question
  <2>2. ASSUME NEW i \in 1 .. Len(answers')
        PROVE  /\ Len(answers'[i].got) = 1
               /\ answers'[i].got[1].from = 0 /\ answers'[i].got[1].length = AnswerLength
               /\ answers'[i].got[1].answer \in 1 .. Len(executed')
               /\ answers'[i].request \in 1 .. client'.request
               /\ executed'[answers'[i].got[1].answer] = Question(answers'[i].request)
               /\ Waiting' => answers'[i].request < client'.request
    <3>1. i \in 1 .. Len(answers) /\ answers'[i] = answers[i] BY <1>1, <2>2
    <3>2. /\ Len(answers[i].got) = 1
          /\ answers[i].got[1].from = 0 /\ answers[i].got[1].length = AnswerLength
          /\ answers[i].got[1].answer \in 1 .. Len(executed)
          /\ answers[i].request \in 1 .. client.request
          /\ executed[answers[i].got[1].answer] = Question(answers[i].request)
          /\ Waiting => answers[i].request < client.request
      BY <3>1 DEF HistInv
    <3>. QED BY <1>1, <1>6, <1>14, <3>1, <3>2 DEF Question
  <2>. QED BY <2>1, <2>2 DEF HistInv, Question
<1>. QED BY <1>1, <1>3, <1>6, <1>8, <1>10, <1>11, <1>19 DEF ran, r

\* Its answer is the reply.
LEMMA StepLast ==
  ASSUME SingleFrames, StepInv, NEW f, f = toServer, RequestInfoLast(f)
  PROVE  LinkPart'
<1>. DEFINE t == InfoTaken(f)
            ran == Len(executed) + 1
            reply == [kind |-> "I", sss |-> t.sss, rrr |-> Succ(t.rrr), segment |-> FALSE,
                      info |-> [answer |-> ran, from |-> 0, length |-> AnswerLength]]
<1>. USE DEF StepInv, New, NoInfo
<1>1. Run(f) /\ unanswered' = unanswered BY DEF RequestInfoLast
<1>2. /\ Connected /\ t.csss = f.sss /\ t.rrrc = t.rrr /\ f.kind = "I"
      /\ f.sss = N => t.rrr \in {N, Pred(N)}
      /\ f.sss = Pred(N) => t.rrr = Pred(N)
      /\ Good => t.sss = f.sss /\ t.rrr = f.sss
      /\ t.rrr = IF f.sss = link.csss THEN link.rrrc ELSE link.rrr
  BY <1>1, Taken
<1>3. /\ link'.status = "CONNECTED" /\ link'.recv = <<>> /\ link'.filled = 0
      /\ link'.sss = Succ(t.sss) /\ link'.rrr = Succ(t.rrr)
      /\ link'.csss = f.sss /\ link'.rrrc = t.rrr /\ link'.reply = reply
  BY <1>2, RunAnswered
<1>4. /\ Open /\ f.sss \in Numbers
      /\ (f.sss = N /\ Waiting) \/ (f.sss = Pred(N) /\ ~Waiting)
      /\ UNCHANGED <<client, answers, toClient>> /\ toServer' = NoFrame
      /\ executed'[ran] = Question(client.request) /\ ran \in 1 .. Len(executed')
      /\ \A g : IsAnswer(g) => IsAnswer(g)'
      /\ \A g : IsAnswer(g) /\ Answers(g) => Answers(g)'
  BY <1>1, StepRun
<1>5. /\ f.sss # Unknown /\ N \in Numbers /\ Succ(Pred(N)) = N /\ Pred(N) \in Numbers
      /\ Succ(N) # N /\ Succ(N) # Pred(N) /\ Pred(N) # N
  <2>1. N \in Numbers BY DEF TypeInv, Stations, N
  <2>. QED BY <1>4, <2>1, Neighbours
<1>7. /\ reply.kind = "I" /\ reply.rrr = Succ(t.rrr) /\ ~reply.segment
      /\ reply.info.answer = ran /\ reply.info.from = 0 /\ reply.info.length = AnswerLength
  OBVIOUS
<1>9. NoFrame.kind = "none" BY DEF NoFrame
<1>. HIDE DEF reply, ran, t
<1>12. IsAnswer(link.reply)' BY <1>3, <1>4, <1>7 DEF IsAnswer
<1>13. Answers(link.reply)' BY <1>3, <1>4, <1>7 DEF Answers, Question
<1>14. Open' = Open /\ Waiting' = Waiting /\ N' = N /\ Connected' /\ (Good' <=> Good)
  BY <1>1, <1>2, <1>3, <1>4 DEF Open, Waiting, N, Connected, Good
<1>15. LinkInv' BY <1>2, <1>3, <1>5, <1>7, <1>12, <1>14 DEF LinkInv
<1>16. ToServerInv' BY <1>4 DEF ToServerInv
<1>17. ToClientInv'
  <2>1. Open => client.state # "closed" BY DEF Open
  <2>2. toClient.kind = "UA" => Waiting BY <1>2 DEF ToClientInv
  <2>. QED BY <1>3, <1>4, <1>7, <1>9, <1>14, <2>1, <2>2 DEF ToClientInv
<1>18. OpenInv'
  <2>1. CASE f.sss = N /\ Waiting
    <3>1. ASSUME toClient.kind = "I", ~(toClient.rrr \in {N, Pred(N)})
          PROVE  toClient.rrr = Succ(N) /\ Answers(toClient)' /\ t.rrr = N
      <4>1. toClient.rrr = Succ(N) /\ Answers(toClient) /\ IsAnswer(toClient)
            /\ link.csss = N /\ link.rrrc = N
        BY <1>2, <1>4, <3>1 DEF OpenInv, ToClientInv
      <4>. QED BY <1>2, <1>4, <2>1, <4>1
    <3>. QED BY <1>2, <1>3, <1>4, <1>5, <1>7, <1>13, <1>14, <2>1, <3>1 DEF OpenInv
  <2>2. CASE f.sss = Pred(N) /\ ~Waiting
    <3>1. toClient.kind = "I" => toClient.rrr \in {N, Pred(N)} BY <1>4, <2>2 DEF OpenInv
    <3>. QED BY <1>2, <1>3, <1>4, <1>5, <1>7, <1>14, <2>2, <3>1 DEF OpenInv
  <2>. QED BY <1>4, <2>1, <2>2
<1>. QED BY <1>15, <1>16, <1>17, <1>18 DEF LinkPart

\* It leaves none: a reply that has not gone out yet stays as it is.
LEMMA StepUnanswered ==
  ASSUME SingleFrames, StepInv, NEW f, f = toServer, RequestInfoUnanswered(f)
  PROVE  LinkPart'
<1>. DEFINE t == InfoTaken(f)
<1>. USE DEF StepInv, New, NoInfo
<1>1. Run(f) BY DEF RequestInfoUnanswered
<1>2. /\ Connected /\ t.csss = f.sss /\ t.rrrc = t.rrr /\ t.reply = link.reply /\ f.kind = "I"
      /\ f.sss = N => t.rrr \in {N, Pred(N)}
      /\ f.sss = Pred(N) => t.rrr = Pred(N)
      /\ t.rrr = IF f.sss = link.csss THEN link.rrrc ELSE link.rrr
  BY <1>1, Taken
<1>3. /\ link'.status = "CONNECTED" /\ link'.recv = <<>> /\ link'.filled = 0
      /\ link'.rrr = t.rrr /\ link'.csss = f.sss /\ link'.rrrc = t.rrr
      /\ link'.reply = link.reply /\ unanswered' # 0
  BY <1>2, RunUnanswered
<1>4. /\ Open /\ f.sss \in Numbers
      /\ (f.sss = N /\ Waiting) \/ (f.sss = Pred(N) /\ ~Waiting)
      /\ UNCHANGED <<client, answers, toClient>> /\ toServer' = NoFrame
      /\ \A g : IsAnswer(g) => IsAnswer(g)'
      /\ \A g : IsAnswer(g) /\ Answers(g) => Answers(g)'
  BY <1>1, StepRun
<1>5. /\ f.sss # Unknown /\ N \in Numbers /\ Succ(Pred(N)) = N /\ Pred(N) \in Numbers
      /\ Succ(N) # N /\ Succ(N) # Pred(N) /\ Pred(N) # N
  <2>1. N \in Numbers BY DEF TypeInv, Stations, N
  <2>. QED BY <1>4, <2>1, Neighbours
<1>9. NoFrame.kind = "none" BY DEF NoFrame
<1>. HIDE DEF t
<1>14. Open' = Open /\ Waiting' = Waiting /\ N' = N /\ Connected' /\ ~Good'
  BY <1>2, <1>3, <1>4 DEF Open, Waiting, N, Connected, Good
<1>15. LinkInv' BY <1>2, <1>3, <1>4, <1>5, <1>14 DEF LinkInv
<1>16. ToServerInv' BY <1>4 DEF ToServerInv
<1>17. ToClientInv'
  <2>1. Open => client.state # "closed" BY DEF Open
  <2>2. "UA" \in {link.reply.kind, toClient.kind} => Waiting BY <1>2 DEF ToClientInv
  <2>. QED BY <1>3, <1>4, <1>9, <1>14, <2>1, <2>2 DEF ToClientInv
<1>18. OpenInv'
  <2>1. CASE f.sss = N /\ Waiting
    <3>1. ASSUME NEW g \in {link.reply, toClient}, g.kind = "I", ~(g.rrr \in {N, Pred(N)})
          PROVE  g.rrr = Succ(N) /\ Answers(g)' /\ t.rrr = N
      <4>1. g.rrr = Succ(N) /\ Answers(g) /\ IsAnswer(g) /\ link.csss = N /\ link.rrrc = N
        BY <1>2, <1>4, <3>1 DEF OpenInv, ToClientInv, LinkInv
      <4>. QED BY <1>2, <1>4, <2>1, <4>1
    <3>2. \/ Succ(link'.csss) = N' /\ (link'.csss # Unknown => link'.rrrc = link'.csss)
          \/ Waiting' /\ link'.csss = N' /\ link'.rrrc \in {N', Pred(N')}
      BY <1>2, <1>3, <1>14, <2>1
    <3>3. link'.reply.kind = "I" =>
            \/ link'.reply.rrr \in {N', Pred(N')}
            \/ /\ Waiting' /\ link'.reply.rrr = Succ(N') /\ Answers(link.reply)'
               /\ link'.csss = N' /\ link'.rrrc = N'
      BY <1>3, <1>14, <2>1, <3>1
    <3>4. toClient'.kind = "I" =>
            \/ toClient'.rrr \in {N', Pred(N')}
            \/ /\ Waiting' /\ toClient'.rrr = Succ(N') /\ Answers(toClient)'
               /\ link'.csss = N' /\ link'.rrrc = N'
               /\ link'.reply.kind # "UA"
               /\ link'.reply.kind = "I" => link'.reply.rrr = Succ(N')
      BY <1>3, <1>4, <1>14, <2>1, <3>1 DEF OpenInv
    <3>. QED BY <1>3, <1>4, <1>14, <3>2, <3>3, <3>4 DEF OpenInv
  <2>2. CASE f.sss = Pred(N) /\ ~Waiting
    <3>1. /\ toClient.kind = "I" => toClient.rrr \in {N, Pred(N)}
          /\ link.reply.kind = "I" => link.reply.rrr \in {N, Pred(N)}
      BY <1>4, <2>2 DEF OpenInv
    <3>. QED BY <1>2, <1>3, <1>4, <1>5, <1>14, <2>2, <3>1 DEF OpenInv
  <2>. QED BY <1>4, <2>1, <2>2
<1>. QED BY <1>15, <1>16, <1>17, <1>18 DEF LinkPart

\* Every action of the meter.
LEMMA StepMeter ==
  ASSUME SingleFrames, StepInv, Period \/ Request
  PROVE  StepInv'
<1>1. TypeInv' BY TypePeriod DEF StepInv
<1>2. UNCHANGED clientVars
  BY DEF Period, Request, Tick, NoRequest, Respond, Busy, RequestSnrm, RequestInfoRefused,
         RequestInfoSegment, RequestInfoLast, RequestInfoUnanswered, Run, RequestRr, RequestDisc,
         Info, Receive
<1>3. ClientInv' BY <1>2 DEF StepInv, ClientInv, clientVars, Waiting, Open, N, Part
<1>4. LinkPart BY DEF StepInv, LinkPart
<1>5. ASSUME UNCHANGED executed PROVE HistInv'
  <2>1. client.request \in Nat /\ client' = client BY <1>2 DEF StepInv, TypeInv, Stations, clientVars
  <2>2. Waiting' => Waiting BY <2>1 DEF Waiting, Open
  <2>. QED BY <1>2, <1>5, <2>1, <2>2, QuietHist DEF StepInv, clientVars
<1>6. CASE Tick
  <2>1. UNCHANGED <<client, executed, unanswered, toClient, toServer>> BY <1>6 DEF Tick, clientVars
  <2>2. link' = link => LinkPart' BY <1>4, <2>1, Kept
  <2>3. link' = Closed => LinkPart' BY <1>4, <2>1, Dropped
  <2>4. ASSUME link' = [link EXCEPT !.timer = @ - 1] PROVE LinkPart'
    <3>1. /\ link'.status = link.status /\ link'.sss = link.sss /\ link'.rrr = link.rrr
          /\ link'.rrrc = link.rrrc /\ link'.csss = link.csss /\ link'.recv = link.recv
          /\ link'.filled = link.filled /\ link'.reply = link.reply
      BY <2>4 DEF StepInv, TypeInv, Sound, Links
    <3>. QED BY <1>4, <2>1, <3>1, Kept
  <2>5. LinkPart' BY <1>6, <2>2, <2>3, <2>4 DEF Tick
  <2>. QED BY <1>1, <1>3, <1>5, <2>1, <2>5 DEF StepInv, LinkPart
<1>7. CASE NoRequest
  <2>1. UNCHANGED <<client, executed, unanswered, toClient, link>> /\ toServer' \in {toServer, NoFrame}
    BY <1>7 DEF NoRequest, Receive, clientVars
  <2>2. LinkPart' BY <1>4, <2>1, Kept
  <2>. QED BY <1>1, <1>3, <1>5, <2>1, <2>2 DEF StepInv, LinkPart
<1>8. CASE Respond
  <2>1. UNCHANGED <<client, executed, unanswered, toServer>> BY <1>8 DEF Respond, clientVars
  <2>2. LinkPart' BY <1>8, <2>1, Sent DEF Respond
  <2>. QED BY <1>1, <1>3, <1>5, <2>1, <2>2 DEF StepInv, LinkPart
<1>9. CASE Busy
  <2>1. UNCHANGED <<client, executed, unanswered, toClient, link, toServer>> BY <1>9 DEF Busy, clientVars
  <2>2. LinkPart' BY <1>4, <2>1, Kept
  <2>. QED BY <1>1, <1>3, <1>5, <2>1, <2>2 DEF StepInv, LinkPart
<1>10. CASE RequestSnrm(toServer)
  <2>1. /\ UNCHANGED <<client, executed, toClient>> /\ toServer.kind = "SNRM"
        /\ toServer' = NoFrame /\ unanswered' = 0
    BY <1>10 DEF RequestSnrm, Receive, clientVars
  <2>2. LinkPart' BY <1>4, <1>10, <2>1, SetUp, Dropped DEF RequestSnrm
  <2>. QED BY <1>1, <1>3, <1>5, <2>1, <2>2 DEF StepInv, LinkPart
<1>11. ~RequestInfoRefused(toServer) /\ ~RequestInfoSegment(toServer)
  <2>. SUFFICES ASSUME Info(toServer)
       PROVE  InSequence(toServer) /\ ~(Len(link.recv) + 1 > MtuParts) /\ ~toServer.segment
    BY DEF RequestInfoRefused, RequestInfoSegment
  <2>1. toServer.kind = "I" /\ Connected BY DEF Info, Connected
  <2>2. ~toServer.segment /\ InSequence(toServer) BY <2>1, Received DEF InSequence
  <2>3. link.recv = <<>> BY DEF StepInv, LinkInv
  <2>4. Len(link.recv) = 0 BY <2>3
  <2>. QED BY <2>2, <2>4, HdlcAssumption DEF SingleFrames
<1>12. CASE RequestInfoLast(toServer) \/ RequestInfoUnanswered(toServer)
  <2>1. LinkPart' BY <1>12, StepLast, StepUnanswered
  <2>2. HistInv' BY <1>12, StepRun DEF RequestInfoLast, RequestInfoUnanswered
  <2>. QED BY <1>1, <1>3, <2>1, <2>2 DEF StepInv, LinkPart
<1>13. ~RequestRr(toServer)
  BY PartOne DEF RequestRr, StepInv, ToServerInv, NoFrame, Frame, Part
<1>14. CASE RequestDisc(toServer)
  <2>1. /\ UNCHANGED <<client, executed, unanswered, toClient>> /\ toServer.kind = "DISC"
        /\ toServer' = NoFrame
    BY <1>14 DEF RequestDisc, Receive, clientVars
  <2>2. LinkPart' BY <1>4, <1>14, <2>1, Marked, Kept DEF RequestDisc, StepInv, TypeInv, Sound
  <2>. QED BY <1>1, <1>3, <1>5, <2>1, <2>2 DEF StepInv, LinkPart
<1>. QED BY <1>6, <1>7, <1>8, <1>9, <1>10, <1>11, <1>12, <1>13, <1>14 DEF Period, Request

-----------------------------------------------------------------------------
\* The client's actions and the line's.  The link stays as it is.

\* A frame to the meter is put on the line again, or lost; one to the client is lost.
LEMMA StepLine ==
  ASSUME StepInv, Resend \/ Line \/ Drop
  PROVE  StepInv'
<1>. USE DEF Connected, Good, Open, Waiting, New, NoInfo, N
<1>1. TypeInv' BY TypeStation DEF StepInv, Reply
<1>2. UNCHANGED <<client, link, executed, unanswered, answers, polls>>
  <2>1. ASSUME Resend \/ ResendEarly PROVE client' = client
    BY <2>1 DEF Resend, ResendEarly, Send, StepInv, TypeInv, Stations
  <2>. QED BY <2>1 DEF Resend, ResendEarly, Line, Lose, Drop, serverVars, clientVars
<1>3. ClientInv' BY <1>2 DEF StepInv, ClientInv, Part
<1>4. LinkInv' BY <1>2 DEF StepInv, LinkInv, IsAnswer
<1>5. HistInv' BY <1>2, QuietHist DEF StepInv, TypeInv, Stations
<1>6. NoFrame.kind = "none" BY DEF NoFrame
<1>7. \A f : IsAnswer(f)' <=> IsAnswer(f) BY <1>2 DEF IsAnswer
<1>8. \A f : Answers(f)' <=> Answers(f) BY <1>2 DEF Answers, Question
<1>9. toClient' \in {toClient, NoFrame}
  BY DEF Resend, ResendEarly, Line, Lose, Drop
<1>10. OpenInv' BY <1>2, <1>6, <1>8, <1>9 DEF StepInv, OpenInv
<1>11. CASE toServer' \in {toServer, NoFrame}
  <2>1. ToServerInv' BY <1>2, <1>11 DEF StepInv, ToServerInv, Part
  <2>2. ToClientInv' BY <1>2, <1>6, <1>7, <1>9, <1>11 DEF StepInv, ToClientInv
  <2>. QED BY <1>1, <1>3, <1>4, <1>5, <1>10, <2>1, <2>2 DEF StepInv
<1>12. CASE toServer' = client.waits /\ client.waits # NoFrame
  <2>1. ToServerInv' BY <1>2, <1>12 DEF StepInv, ClientInv, ToServerInv, Part, TypeInv, Stations
  <2>2. client.state # "closed" /\ (Open => toServer'.kind = "I")
    BY <1>12 DEF StepInv, ClientInv, Part
  <2>3. ~Waiting => toServer'.kind # "I"
    BY <1>12 DEF StepInv, ClientInv, Frame, TypeInv, Stations
  <2>4. ToClientInv' BY <1>2, <1>6, <1>7, <1>9, <2>2, <2>3 DEF StepInv, ToClientInv
  <2>. QED BY <1>1, <1>3, <1>4, <1>5, <1>10, <2>1, <2>4 DEF StepInv
<1>13. toServer' \in {toServer, NoFrame} \/ (toServer' = client.waits /\ client.waits # NoFrame)
  BY DEF Resend, ResendEarly, Silence, Send, Idle, Line, Lose, Drop
<1>. QED BY <1>11, <1>12, <1>13

\* The client leaves a link, or calls for a new one.
LEMMA StepCall ==
  ASSUME StepInv, UNCHANGED <<link, executed, unanswered, answers, polls>>,
         toClient' \in {toClient, NoFrame},
         ~Waiting \/ (toClient' = NoFrame /\ link.reply.kind # "UA"),
         NEW s \in {"calling", "leaving"},
         client' = [client EXCEPT !.state = s, !.waits = toServer'],
         toServer' = Frame(IF s = "calling" THEN "SNRM" ELSE "DISC")
  PROVE  LinkPart' /\ ClientInv' /\ HistInv'
<1>. USE DEF Connected, Good, Open, Waiting, New, NoInfo, N
<1>1. /\ client'.vs = client.vs /\ client'.vr = client.vr /\ client'.got = client.got
      /\ client'.request = client.request /\ client'.waits = toServer' /\ client'.state = s
  BY DEF StepInv, TypeInv, Stations
<1>2. \/ client'.state = "calling" /\ toServer' = Frame("SNRM")
      \/ client'.state = "leaving" /\ toServer' = Frame("DISC")
  BY <1>1
<1>3. NoFrame.kind = "none" /\ toServer'.kind \in {"SNRM", "DISC"} BY <1>2 DEF NoFrame, Frame
<1>4. \A f : IsAnswer(f)' <=> IsAnswer(f) BY DEF IsAnswer
<1>5. LinkInv' BY DEF StepInv, LinkInv, IsAnswer
<1>6. ClientInv' BY <1>1, <1>2 DEF StepInv, ClientInv
<1>7. ToServerInv' BY <1>1, <1>2 DEF ToServerInv
<1>8. ~Open' /\ client'.state # "closed" BY <1>2
<1>9. ToClientInv'
  <2>1. link.reply.kind = "UA" => NoInfo BY DEF StepInv, ToClientInv
  <2>2. toClient'.kind = "UA" => NoInfo BY <1>3 DEF StepInv, ToClientInv
  <2>3. toClient'.kind \in {"none", "UA", "I"} /\ (toClient'.kind = "I" => IsAnswer(toClient)')
    BY <1>3, <1>4 DEF StepInv, ToClientInv
  <2>. QED BY <1>3, <1>8, <2>1, <2>2, <2>3 DEF ToClientInv
<1>10. OpenInv' BY <1>8 DEF OpenInv
<1>11. HistInv'
  <2>1. client.request \in Nat BY DEF StepInv, TypeInv, Stations
  <2>. QED BY <1>1, <1>8, <2>1, QuietHist DEF StepInv
<1>. QED BY <1>5, <1>6, <1>7, <1>9, <1>10, <1>11 DEF LinkPart

\* The client asks the next question.
LEMMA StepAsk ==
  ASSUME StepInv, Ask
  PROVE  StepInv'
<1>. USE DEF Connected, Good, Open, Waiting, New, NoInfo
<1>. DEFINE r == client.request + 1
            f == Part(r, 1, N, N)
<1>1. TypeInv' BY TypeStation DEF StepInv, Station
<1>2. /\ UNCHANGED <<link, executed, unanswered, answers, polls, toClient>> /\ toServer' = f /\ toServer = NoFrame
      /\ client.state = "open" /\ client.waits = NoFrame /\ client.request < Requests
      /\ client' = [[client EXCEPT !.request = r, !.got = <<>>] EXCEPT !.waits = f]
  BY DEF Ask, Send, Idle, StepInv, ClientInv, N, serverVars
<1>3. f.kind = "I" /\ f # NoFrame BY DEF Part, NoFrame
<1>4. client.request \in 0 .. Requests /\ client.vr = N /\ polls = 0 BY DEF StepInv, ClientInv, N
<1>5. r \in 1 .. Requests /\ r \in Nat BY <1>2, <1>4, Lengths
<1>. HIDE DEF r, f
<1>6. /\ client'.vs = N /\ client'.vr = client.vr /\ client'.got = <<>>
      /\ client'.request = r /\ client'.waits = f /\ client'.state = "open"
  BY <1>2 DEF StepInv, TypeInv, Stations, N
<1>7. N' = N /\ Open /\ ~Waiting /\ Open' /\ Waiting' BY <1>2, <1>3, <1>6 DEF N
<1>8. f = Part(r, 1, N, N) BY DEF f
<1>9. \A g : IsAnswer(g)' <=> IsAnswer(g) BY <1>2 DEF IsAnswer
<1>10. LinkInv' BY <1>2, <1>9 DEF StepInv, LinkInv
<1>11. ClientInv' BY <1>2, <1>4, <1>5, <1>6, <1>7, <1>8 DEF ClientInv, Part
<1>12. ToServerInv' BY <1>2, <1>5, <1>6, <1>7, <1>8 DEF ToServerInv, Part
<1>13. ToClientInv' BY <1>2, <1>3, <1>6, <1>7, <1>9 DEF StepInv, ToClientInv
<1>14. OpenInv' BY <1>2, <1>7 DEF StepInv, OpenInv
<1>15. HistInv'
  <2>1. r > client.request /\ r >= client.request /\ client.request \in Nat BY <1>4 DEF r
  <2>. QED BY <1>2, <1>5, <1>6, <2>1, QuietHist DEF StepInv
<1>. QED BY <1>1, <1>10, <1>11, <1>12, <1>13, <1>14, <1>15 DEF StepInv

\* An answer to a call or to a farewell.
LEMMA StepUa ==
  ASSUME StepInv, Take, toClient.kind = "UA"
  PROVE  StepInv'
<1>. USE DEF Connected, Good, Open, Waiting, New, NoInfo
<1>1. TypeInv' BY TypeStation DEF StepInv, Reply
<1>2. /\ UNCHANGED <<link, executed, unanswered, answers, polls, toServer>> /\ toClient' = NoFrame
      /\ client.state \in {"calling", "leaving"}
  BY DEF Take, TakeUa, Rest, Awaited, serverVars
<1>3. \/ /\ client.state = "calling"
         /\ client' = [[client EXCEPT !.state = "open", !.vs = 0, !.vr = 0, !.got = <<>>]
                         EXCEPT !.waits = NoFrame]
      \/ /\ client.state = "leaving"
         /\ client' = [[client EXCEPT !.state = "closed"] EXCEPT !.waits = NoFrame]
  BY <1>2 DEF Take, TakeUa, Rest
<1>4. /\ client'.request = client.request /\ client'.waits = NoFrame
      /\ client'.vr = client'.vs /\ client'.got = <<>>
      /\ \/ client.state = "calling" /\ client'.state = "open" /\ client'.vs = 0
         \/ client.state = "leaving" /\ client'.state = "closed"
  BY <1>3 DEF StepInv, TypeInv, Stations, ClientInv
<1>5. ~Waiting /\ ~Waiting' BY <1>2, <1>4
<1>6. NoInfo /\ toServer.kind # "I" BY <1>5 DEF StepInv, ToClientInv
<1>7. NoFrame.kind = "none" BY DEF NoFrame
<1>8. \A f : IsAnswer(f)' <=> IsAnswer(f) BY <1>2 DEF IsAnswer
<1>9. LinkInv' BY <1>2, <1>8 DEF StepInv, LinkInv
<1>10. ClientInv' BY <1>2, <1>4, <1>5 DEF StepInv, ClientInv
<1>11. ToServerInv'
  <2>1. toServer = NoFrame \/ (toServer = Frame("SNRM") /\ client.state = "calling")
          \/ (toServer = Frame("DISC") /\ client.state = "leaving")
    BY <1>2 DEF StepInv, ToServerInv
  <2>. QED BY <1>2, <1>4, <1>5, <2>1 DEF ToServerInv, N
<1>12. ToClientInv' BY <1>2, <1>5, <1>6, <1>7 DEF StepInv, ToClientInv
<1>13. OpenInv'
  <2>1. Connected => link.csss = Unknown BY <1>6
  <2>. QED BY <1>2, <1>4, <1>6, <1>7, <2>1, Wrap DEF OpenInv, N
<1>14. HistInv' BY <1>2, <1>4, <1>5, QuietHist DEF StepInv, TypeInv, Stations
<1>. QED BY <1>1, <1>9, <1>10, <1>11, <1>12, <1>13, <1>14 DEF StepInv

\* What the client may take for its answer.
LEMMA AnswerAwaited ==
  ASSUME StepInv, Awaited(toClient), toClient.kind # "UA"
  PROVE  /\ toClient.kind = "I" /\ Waiting /\ ~toClient.segment
         /\ Answers(toClient) /\ IsAnswer(toClient) /\ client.request \in 1 .. Requests
         /\ Connected => link.csss = N /\ link.rrrc = N
         /\ link.reply.kind # "UA"
         /\ link.reply.kind = "I" => link.reply.rrr = Succ(N)
<1>1. toClient.kind = "I" BY DEF StepInv, ToClientInv, Awaited
<1>2. /\ client.state = "open" /\ client.waits.kind \in {"I", "RR"}
      /\ client.waits.kind = "I" => toClient.rrr = Succ(N)
  BY <1>1 DEF Awaited, N
<1>3. Waiting BY <1>2 DEF Waiting, Open, NoFrame
<1>4. client.request \in 1 .. Requests /\ client.waits.kind = "I"
  BY <1>3 DEF StepInv, ClientInv, N, Part
<1>5. N \in Numbers BY DEF StepInv, TypeInv, Stations, N
<1>6. toClient.rrr = Succ(N) /\ Succ(N) # N /\ Succ(N) # Pred(N) BY <1>2, <1>4, <1>5, Neighbours
<1>7. IsAnswer(toClient) BY <1>1 DEF StepInv, ToClientInv
<1>. QED BY <1>1, <1>2, <1>3, <1>4, <1>6, <1>7 DEF StepInv, OpenInv, IsAnswer, Open

\* The answer comes.
LEMMA StepAnswer ==
  ASSUME StepInv, Take, toClient.kind # "UA"
  PROVE  /\ StepInv'
         /\ answers' = Append(answers, [request |-> client.request, got |-> <<toClient.info>>])
         /\ UNCHANGED executed /\ client'.request = client.request
<1>. DEFINE a == [request |-> client.request, got |-> <<toClient.info>>]
            g == toClient.info.answer
<1>. USE DEF Connected, Good, Open, Waiting, New, NoInfo
<1>1. TypeInv' BY TypeStation DEF StepInv, Reply
<1>2. Awaited(toClient) /\ toClient' = NoFrame /\ UNCHANGED <<link, executed, unanswered, polls>>
  BY DEF Take, serverVars
<1>3. /\ toClient.kind = "I" /\ Waiting /\ ~toClient.segment
      /\ Answers(toClient) /\ IsAnswer(toClient) /\ client.request \in 1 .. Requests
      /\ Connected => link.csss = N /\ link.rrrc = N
      /\ link.reply.kind # "UA"
      /\ link.reply.kind = "I" => link.reply.rrr = Succ(N)
  BY <1>2, AnswerAwaited
<1>4. client.got = <<>> /\ client.vr = N /\ client.vs = N /\ client.waits = Part(client.request, 1, N, N)
  BY <1>3 DEF StepInv, ClientInv, N
<1>5. client.waits.kind = "I" BY <1>4 DEF Part
<1>6. toClient.info \in Pieces BY <1>3 DEF StepInv, TypeInv, ToStation, Plain
<1>7. Append(client.got, toClient.info) = <<toClient.info>> BY <1>4
<1>. DEFINE c == [client EXCEPT !.vr = Succ(N), !.got = <<toClient.info>>, !.vs = Succ(N)]
<1>8. UNCHANGED toServer /\ client' = [[c EXCEPT !.got = <<>>] EXCEPT !.waits = NoFrame]
      /\ answers' = Append(answers, a)
  <2>1. TakeInfo(toClient) BY <1>3 DEF Take
  <2>. QED BY <1>3, <1>4, <1>5, <1>7, <2>1 DEF TakeInfo, Rest
<1>9. /\ client'.state = "open" /\ client'.vs = Succ(N) /\ client'.vr = Succ(N)
      /\ client'.got = <<>> /\ client'.waits = NoFrame /\ client'.request = client.request
  BY <1>3, <1>8 DEF StepInv, TypeInv, Stations
<1>10. N \in Numbers /\ Pred(Succ(N)) = N /\ Succ(N) \in Numbers
  <2>1. N \in Numbers BY DEF StepInv, TypeInv, Stations, N
  <2>. QED BY <2>1, Neighbours
<1>11. N' = Succ(N) /\ Open' /\ ~Waiting' BY <1>9 DEF N
<1>12. NoFrame.kind = "none" BY DEF NoFrame
<1>13. \A f : IsAnswer(f)' <=> IsAnswer(f) BY <1>2 DEF IsAnswer
<1>14. LinkInv' BY <1>2, <1>13 DEF StepInv, LinkInv
<1>15. ClientInv' BY <1>2, <1>9, <1>11 DEF StepInv, ClientInv
<1>17. ToServerInv'
  <2>1. toServer = NoFrame \/ toServer = Part(client.request, 1, N, N)
    BY <1>3 DEF StepInv, ToServerInv
  <2>. QED BY <1>2, <1>3, <1>8, <1>9, <1>10, <1>11, <2>1 DEF ToServerInv, Part
<1>18. ToClientInv'
  <2>1. toServer.kind # "SNRM" BY <1>3 DEF StepInv, ToServerInv, NoFrame, Frame, Part
  <2>. QED BY <1>2, <1>3, <1>8, <1>9, <1>12, <2>1 DEF ToClientInv
<1>19. OpenInv' BY <1>2, <1>3, <1>10, <1>11, <1>12 DEF OpenInv
<1>20. HistInv'
  <2>1. AllWhole' BY <1>2 DEF StepInv, HistInv, AllWhole, Question
  <2>2. a.request = client.request /\ Len(a.got) = 1 /\ a.got[1] = toClient.info /\ a \in Whole
    BY <1>6 DEF StepInv, TypeInv, Stations, Whole
  <2>3. answers \in Seq(Whole) BY DEF StepInv, TypeInv
  <2>. HIDE DEF a
  <2>4. ASSUME NEW i \in 1 .. Len(answers')
        PROVE  /\ Len(answers'[i].got) = 1
               /\ answers'[i].got[1].from = 0 /\ answers'[i].got[1].length = AnswerLength
               /\ answers'[i].got[1].answer \in 1 .. Len(executed)
               /\ answers'[i].request \in 1 .. client.request
               /\ executed[answers'[i].got[1].answer] = Question(answers'[i].request)
    <3>1. CASE i \in 1 .. Len(answers)
      <4>1. answers'[i] = answers[i] BY <1>8, <2>2, <2>3, <3>1
      <4>. QED BY <3>1, <4>1 DEF StepInv, HistInv
    <3>2. CASE i = Len(answers) + 1
      <4>1. answers'[i] = a BY <1>8, <2>2, <2>3, <3>2
      <4>2. client.request \in 1 .. client.request BY <1>3, HdlcAssumption
      <4>. QED BY <1>3, <2>2, <4>1, <4>2 DEF IsAnswer, Answers
    <3>3. Len(answers') = Len(answers) + 1 BY <1>8, <2>2, <2>3
    <3>4. Len(answers) \in Nat BY <2>3
    <3>. QED BY <3>1, <3>2, <3>3, <3>4, <2>4
  <2>. QED BY <1>2, <1>9, <1>11, <2>1, <2>4 DEF HistInv, Question
<1>. QED BY <1>1, <1>2, <1>8, <1>9, <1>14, <1>15, <1>17, <1>18, <1>19, <1>20 DEF StepInv

\* Every action of the client and of the line.
LEMMA StepStation ==
  ASSUME SingleFrames, StepInv, Station \/ Reply \/ Resend \/ Line
  PROVE  StepInv'
<1>. USE DEF StepInv, Station, Reply, serverVars
<1>1. TypeInv' BY TypeStation
<1>2. ASSUME UNCHANGED <<link, executed, unanswered, answers, polls>>,
             toClient' \in {toClient, NoFrame},
             ~Waiting \/ (toClient' = NoFrame /\ link.reply.kind # "UA"),
             NEW s \in {"calling", "leaving"},
             client' = [[client EXCEPT !.state = s] EXCEPT !.waits = toServer'],
             toServer' = Frame(IF s = "calling" THEN "SNRM" ELSE "DISC")
      PROVE  StepInv'
  <2>1. client' = [client EXCEPT !.state = s, !.waits = toServer'] BY <1>2 DEF TypeInv, Stations
  <2>. QED BY <1>1, <1>2, <2>1, StepCall DEF LinkPart
<1>3. CASE Connect
  <2>1. ~Waiting BY <1>3 DEF Connect, Idle, Waiting
  <2>. QED BY <1>2, <1>3, <2>1 DEF Connect, Send
<1>4. CASE Ask BY <1>4, StepAsk
<1>5. ~Poll BY DEF Poll, ClientInv, SingleFrames
<1>6. CASE Leave
  <2>1. ~Waiting BY <1>6 DEF Leave, Idle, Waiting
  <2>. QED BY <1>2, <1>6, <2>1 DEF Leave, Send
<1>7. CASE GiveUp BY <1>2, <1>7 DEF GiveUp, Silence, Send, NoFrame
<1>8. CASE BreakOff
  <2>1. Awaited(toClient) /\ toClient.kind # "UA" BY <1>8 DEF BreakOff
  <2>2. link.reply.kind # "UA" BY <2>1, AnswerAwaited
  <2>. QED BY <1>2, <1>8, <2>2 DEF BreakOff, Send
<1>9. CASE Take BY <1>9, StepUa, StepAnswer
<1>10. CASE Resend \/ Line \/ Drop BY <1>10, StepLine
<1>. QED BY <1>3, <1>4, <1>5, <1>6, <1>7, <1>8, <1>9, <1>10

\* No step takes the ends out of step.
LEMMA StepStep == ASSUME SingleFrames PROVE StepInv /\ [Next]_vars => StepInv'
<1>. SUFFICES ASSUME StepInv, [Next]_vars PROVE StepInv' OBVIOUS
<1>1. CASE UNCHANGED vars
  <2>1. UNCHANGED <<link, turn, executed, unanswered, client, answers, polls, toServer, toClient>>
    BY <1>1 DEF vars, serverVars, clientVars
  <2>2. TypeInv' BY <2>1 DEF StepInv, TypeInv
  <2>3. LinkPart' BY <2>1, Kept DEF StepInv, LinkPart
  <2>4. ClientInv' BY <2>1 DEF StepInv, ClientInv, Waiting, Open, N, Part
  <2>5. HistInv' BY <2>1, QuietHist DEF StepInv, Waiting, Open, TypeInv, Stations
  <2>. QED BY <2>2, <2>3, <2>4, <2>5 DEF StepInv, LinkPart
<1>. QED BY <1>1, StepMeter, StepStation DEF Next

-----------------------------------------------------------------------------
\* questions and answers in parts

\* No frame is lost or repeated before its time, the client polls an idle link once
\* at most, and a link is left by the time that so many of its questions went
\* unanswered that its three-bit numbers come round; questions and answers are of
\* any length.
Clean == MaxFaults = 0 /\ MaxPolls <= 1 /\ MaxUnanswered < 8

\* the reply on its way to the client
Back == IF link.reply # NoFrame THEN link.reply ELSE toClient

Asking == Open /\ client.waits.kind = "I"
Fetching == Open /\ client.waits.kind = "RR" /\ client.got # <<>>
Polling == Open /\ client.waits.kind = "RR" /\ client.got = <<>>
AskedPart == client.waits.info[2]

\* m is the number before n, or that of a link that has taken no frame yet
Before(m, n) == Succ(m) = n /\ m # n

\* s is the first k parts of the question r
PartsOf(s, r, k) == Len(s) = k /\ \A j \in 1 .. k : s[j] = <<r, j>>

\* pieces of one answer that join up, and the byte they end at
End(got) == got[Len(got)].from + got[Len(got)].length
Joined(got) ==
  /\ got # <<>> /\ got[1].from = 0
  /\ \A k \in 1 .. Len(got) : got[k].answer = got[1].answer
  /\ \A k \in 2 .. Len(got) : got[k].from = got[k - 1].from + got[k - 1].length
AnswerTo(a, r) == a \in 1 .. Len(executed) /\ executed[a] = Question(r)

\* One frame is under way while the client waits, or else the link is gone, or the
\* application has left a question unanswered.
OneFrame ==
  /\ toServer \in {NoFrame, client.waits}
  /\ toServer # NoFrame => Back = NoFrame
  /\ toClient # NoFrame => link.reply = NoFrame
  /\ Idle => Back = NoFrame
  /\ Good /\ toServer = NoFrame /\ Back = NoFrame => Idle

\* What the client waits for follows from its state.
WaitInv ==
  /\ faults = 0 /\ client.request \in 0 .. Requests /\ polls \in 0 .. 1
  /\ client.state = "closed" => Idle
  /\ client.state = "calling" => client.waits = Frame("SNRM")
  /\ client.state = "leaving" => client.waits = Frame("DISC")
  /\ Open => (Idle /\ client.got = <<>>) \/ Asking \/ Fetching \/ Polling
  /\ Asking => /\ client.request \in 1 .. Requests /\ client.got = <<>>
               /\ AskedPart \in 1 .. RequestParts[client.request]
               /\ client.waits = Part(client.request, AskedPart, client.vs, client.vr)
  /\ Fetching => /\ client.request \in 1 .. Requests /\ client.waits = RR(client.vr)
                 /\ Joined(client.got) /\ AnswerTo(client.got[1].answer, client.request)
  /\ Polling => client.waits = RR(client.vr) /\ polls = 1

\* the numbers of the link are those that the client goes by
Numbered == link.sss = client.vr /\ link.rrr = client.vs /\ Before(link.csss, client.vs)

\* the link holds more of the answer a, and has sent it up to the byte "to"
MoreOf(a, to) ==
  /\ link.filled = AnswerLength /\ link.sent < link.filled
  /\ link.sent = to /\ link.answer = a
SentAll == link.filled <= link.sent

\* Until the meter takes the client's frame, link and client agree on their numbers,
\* on the parts of the question and on those of the answer.
Agreed ==
  Open /\ Good /\ Back = NoFrame =>
    /\ Numbered
    /\ Asking => PartsOf(link.recv, client.request, AskedPart - 1)
    /\ ~Asking => link.recv = <<>>
    /\ Fetching => MoreOf(client.got[1].answer, End(client.got))
    /\ ~Fetching => SentAll
    /\ Fetching \/ Polling \/ (Idle /\ polls = 0) => Before(link.crrr, client.vr)

\* f is the frame of an answer from the byte "from" on, and the link has sent it
Piece(f, from) ==
  /\ f.kind = "I" /\ f.sss = client.vr /\ f.info.from = from
  /\ AnswerTo(f.info.answer, client.request)
  /\ ~f.segment => f.info.from + f.info.length = AnswerLength
  /\ Good =>
       /\ link.sss = Succ(client.vr) /\ link.rrr = f.rrr /\ Before(link.csss, f.rrr)
       /\ link.recv = <<>> /\ link.crrr = client.vr
       /\ f.segment => MoreOf(f.info.answer, f.info.from + f.info.length)
       /\ ~f.segment => SentAll

\* The reply is the one that the client waits for, or one that it drops.
CallFits ==
  Back # NoFrame =>
    /\ client.state = "calling" =>
         /\ Back = Frame("UA")
         /\ Good => /\ link.sss = 0 /\ link.rrr = 0 /\ link.csss = Unknown
                    /\ link.crrr = Unknown /\ link.recv = <<>> /\ SentAll
    /\ client.state = "leaving" => Back = Frame("UA") /\ ~Connected
PartFits ==
  Back # NoFrame /\ Asking =>
    \/ Back = Frame("FRMR") /\ (Good => link.sss = client.vr /\ link.rrr = client.vs)
    \/ /\ client.waits.segment /\ Back = RR(Succ(client.vs))
       /\ Good => /\ link.sss = client.vr /\ link.rrr = Succ(client.vs)
                  /\ link.csss = client.vs /\ SentAll
                  /\ PartsOf(link.recv, client.request, AskedPart)
    \/ ~Good /\ Back.kind = "I" /\ Back.sss # client.vr
    \/ ~client.waits.segment /\ Back.rrr = Succ(client.vs) /\ Piece(Back, 0)
RestFits ==
  Back # NoFrame /\ Fetching =>
    /\ Piece(Back, End(client.got)) /\ Back.rrr = client.vs
    /\ Back.info.answer = client.got[1].answer
PollFits ==
  Back # NoFrame /\ Polling =>
    Back = RR(client.vs) /\ (Good => Numbered /\ link.recv = <<>> /\ SentAll)

\* After a question of the link is left unanswered, the client repeats its last part,
\* which is all that the link then gives the application; and each run that leaves no
\* answer puts the link's numbers one further behind, so that the client drops the
\* answer to a later one.
SpoiltInv ==
  Connected /\ unanswered # 0 =>
    /\ client.state = "calling" => Back = NoFrame
    /\ Open =>
         /\ Asking /\ ~client.waits.segment /\ link.recv = <<>> /\ 1 <= MtuParts
         /\ link.csss = client.vs /\ link.sss = (client.vr + 9 - unanswered) % 8
         /\ \E j \in silent : j \in 1 .. Len(executed) /\ executed[j] = Question(client.request)
         /\ Back # NoFrame => Back.kind = "I" /\ Back.sss = (client.vr + 8 - unanswered) % 8

\* Each question and each answer is whole.
RunsWhole == QuestionWhole /\ silent \subseteq 1 .. Len(executed)
WholeInv ==
  /\ RunsWhole
  /\ \A i \in 1 .. Len(answers) :
       /\ Joined(answers[i].got) /\ End(answers[i].got) = AnswerLength
       /\ AnswerTo(answers[i].got[1].answer, answers[i].request)
       /\ answers[i].request \in 1 .. client.request
       /\ Asking \/ Fetching => answers[i].request < client.request

LineInv == OneFrame /\ WaitInv /\ Agreed /\ CallFits /\ PartFits /\ RestFits /\ PollFits
CleanInv == TypeInv /\ LineInv /\ SpoiltInv /\ WholeInv

\* Before the first frame nothing is under way.
LEMMA CleanInit == ASSUME Clean PROVE Init => CleanInv
<1>. SUFFICES ASSUME Init PROVE CleanInv OBVIOUS
<1>1. TypeInv BY TypeInit
<1>2. /\ ~Connected /\ ~Open /\ Back = NoFrame /\ Idle /\ toServer = NoFrame /\ toClient = NoFrame
      /\ client.state = "closed"
  BY DEF Init, Closed, Connected, Open, Back, Idle
<1>3. OneFrame /\ Agreed /\ CallFits /\ PartFits /\ RestFits /\ PollFits
  BY <1>2 DEF OneFrame, Agreed, CallFits, PartFits, RestFits, PollFits, Idle
<1>4. WaitInv
  <2>1. faults = 0 /\ polls = 0 /\ client.request = 0 BY DEF Init
  <2>. QED BY <1>2, <2>1, HdlcAssumption DEF WaitInv, Asking, Fetching, Polling
<1>5. WholeInv BY DEF Init, WholeInv, RunsWhole, QuestionWhole
<1>6. SpoiltInv BY <1>2 DEF SpoiltInv
<1>. QED BY <1>1, <1>3, <1>4, <1>5, <1>6 DEF CleanInv, LineInv

\* A step that leaves the client and the application alone.
LEMMA SameClient ==
  ASSUME WaitInv, WholeInv, UNCHANGED <<client, executed, silent, answers, polls, faults>>
  PROVE  /\ WaitInv' /\ WholeInv'
         /\ Open' = Open /\ Asking' = Asking /\ Fetching' = Fetching /\ Polling' = Polling
         /\ AskedPart' = AskedPart /\ Idle' = Idle
         /\ \A a, r : AnswerTo(a, r)' = AnswerTo(a, r)
<1>1. /\ Open' = Open /\ Asking' = Asking /\ Fetching' = Fetching /\ Polling' = Polling
      /\ AskedPart' = AskedPart /\ Idle' = Idle
  BY DEF Open, Asking, Fetching, Polling, AskedPart, Idle
<1>2. \A a, r : AnswerTo(a, r)' = AnswerTo(a, r) BY DEF AnswerTo, Question
<1>3. WaitInv' BY <1>1, <1>2 DEF WaitInv
<1>4. WholeInv' BY <1>1, <1>2 DEF WholeInv, RunsWhole, QuestionWhole, Question
<1>. QED BY <1>1, <1>2, <1>3, <1>4

\* A step that also leaves the numbers and the buffers of the link, and the reply.
LEMMA SameLink ==
  ASSUME LineInv, WholeInv, UNCHANGED <<client, executed, silent, unanswered, answers, polls, faults, toServer>>,
         Back' = Back, toClient' # NoFrame => link'.reply = NoFrame,
         link'.status = link.status, link'.sss = link.sss, link'.rrr = link.rrr,
         link'.csss = link.csss, link'.crrr = link.crrr, link'.recv = link.recv,
         link'.filled = link.filled, link'.sent = link.sent, link'.answer = link.answer
  PROVE  LineInv' /\ WholeInv'
<1>. USE DEF LineInv
<1>1. /\ WaitInv' /\ WholeInv'
      /\ Open' = Open /\ Asking' = Asking /\ Fetching' = Fetching /\ Polling' = Polling
      /\ AskedPart' = AskedPart /\ Idle' = Idle
      /\ \A a, r : AnswerTo(a, r)' = AnswerTo(a, r)
  BY SameClient
<1>2. /\ Connected' = Connected /\ Good' = Good
      /\ Numbered' = Numbered /\ SentAll' = SentAll
  BY DEF Connected, Good, Numbered, SentAll
<1>3. \A a, to : MoreOf(a, to)' = MoreOf(a, to) BY DEF MoreOf
<1>4. \A f, from : Piece(f, from)' = Piece(f, from) BY <1>1, <1>2, <1>3 DEF Piece
<1>5. OneFrame' BY <1>1, <1>2 DEF OneFrame
<1>6. Agreed' BY <1>1, <1>2, <1>3 DEF Agreed
<1>7. CallFits' /\ PollFits' BY <1>1, <1>2 DEF CallFits, PollFits
<1>8. PartFits' /\ RestFits' BY <1>1, <1>2, <1>4 DEF PartFits, RestFits
<1>. QED BY <1>1, <1>5, <1>6, <1>7, <1>8

\* A step after which the link is not open, or a question of it went unanswered, and
\* that gives the client no new reply.
LEMMA Gone ==
  ASSUME LineInv, WholeInv, UNCHANGED <<client, executed, silent, answers, polls, faults>>,
         ~Good', Connected' => Connected,
         Back' \in {NoFrame, Back}, toClient' # NoFrame => link'.reply = NoFrame,
         toServer' \in {NoFrame, client.waits}, toServer' # NoFrame => Back' = NoFrame
  PROVE  LineInv' /\ WholeInv'
<1>. USE DEF LineInv
<1>1. /\ WaitInv' /\ WholeInv'
      /\ Open' = Open /\ Asking' = Asking /\ Fetching' = Fetching /\ Polling' = Polling
      /\ AskedPart' = AskedPart /\ Idle' = Idle
      /\ \A a, r : AnswerTo(a, r)' = AnswerTo(a, r)
  BY SameClient
<1>2. \A f, from : Piece(f, from) => Piece(f, from)' BY <1>1 DEF Piece
<1>3. OneFrame' BY <1>1 DEF OneFrame
<1>4. Agreed' BY DEF Agreed
<1>5. CallFits' /\ PollFits' BY <1>1 DEF CallFits, PollFits
<1>6. PartFits' /\ RestFits' BY <1>1, <1>2 DEF PartFits, RestFits
<1>. QED BY <1>1, <1>3, <1>4, <1>5, <1>6

\* The tick, the reply's way out, and periods in which the meter takes no frame.
LEMMA CleanPeriod ==
  ASSUME CleanInv, Period
  PROVE  LineInv' /\ WholeInv'
<1>. USE DEF CleanInv, LineInv
<1>1. link \in Links BY DEF TypeInv, Sound
<1>2. CASE Tick
  <2>1. UNCHANGED <<client, executed, silent, unanswered, answers, polls, faults, toServer, toClient>>
    BY <1>2 DEF Tick, clientVars
  <2>2. CASE link' = link BY <2>1, <2>2, SameLink DEF Back, OneFrame
  <2>3. CASE link' = Closed
    <3>1. ~Connected' /\ ~Good' /\ link'.reply = NoFrame BY <2>3 DEF Closed, Connected, Good
    <3>2. Back' = toClient BY <2>1, <3>1 DEF Back
    <3>3. Back' \in {NoFrame, Back} BY <3>2 DEF OneFrame, Back
    <3>4. toServer' \in {NoFrame, client.waits} /\ (toServer' # NoFrame => Back' = NoFrame)
      BY <2>1, <3>2 DEF OneFrame, Back
    <3>. QED BY <2>1, <3>1, <3>3, <3>4, Gone
  <2>4. CASE link' = [link EXCEPT !.timer = @ - 1]
    <3>1. /\ link'.status = link.status /\ link'.sss = link.sss /\ link'.rrr = link.rrr
          /\ link'.csss = link.csss /\ link'.crrr = link.crrr /\ link'.recv = link.recv
          /\ link'.filled = link.filled /\ link'.sent = link.sent /\ link'.answer = link.answer
          /\ link'.reply = link.reply
      BY <1>1, <2>4 DEF Links
    <3>2. Back' = Back /\ (toClient' # NoFrame => link'.reply = NoFrame)
      BY <2>1, <3>1 DEF Back, OneFrame
    <3>. QED BY <2>1, <3>1, <3>2, SameLink
  <2>. QED BY <1>2, <2>2, <2>3, <2>4 DEF Tick
<1>3. CASE Respond
  <2>1. /\ UNCHANGED <<client, executed, silent, unanswered, answers, polls, faults, toServer>>
        /\ toClient = NoFrame /\ toClient' = link.reply
        /\ link' = [link EXCEPT !.reply = NoFrame]
    BY <1>3 DEF Respond, clientVars
  <2>2. /\ link'.status = link.status /\ link'.sss = link.sss /\ link'.rrr = link.rrr
        /\ link'.csss = link.csss /\ link'.crrr = link.crrr /\ link'.recv = link.recv
        /\ link'.filled = link.filled /\ link'.sent = link.sent /\ link'.answer = link.answer
        /\ link'.reply = NoFrame
    BY <1>1, <2>1 DEF Links
  <2>3. Back' = Back BY <2>1, <2>2 DEF Back
  <2>. QED BY <2>1, <2>2, <2>3, SameLink
<1>4. CASE Busy \/ UNCHANGED <<link, executed, silent, unanswered, client, answers, polls, faults, toServer, toClient>>
  <2>1. UNCHANGED <<link, executed, silent, unanswered, client, answers, polls, faults, toServer, toClient>>
    BY <1>4 DEF Busy, clientVars
  <2>2. Back' = Back /\ (toClient' # NoFrame => link'.reply = NoFrame) BY <2>1 DEF Back, OneFrame
  <2>. QED BY <2>1, <2>2, SameLink
<1>5. CASE NoRequest
  <2>1. CASE toServer.kind \in {"I", "RR"} /\ link.status # "CONNECTED" /\ Receive(toServer)
             /\ UNCHANGED <<link, executed, silent, unanswered, refusals>>
    <3>1. /\ UNCHANGED <<link, client, executed, silent, unanswered, answers, polls, faults, toClient>>
          /\ toServer' = NoFrame
      BY <2>1 DEF Receive, clientVars
    <3>2. ~Connected' /\ ~Good' /\ Back' = Back /\ (toClient' # NoFrame => link'.reply = NoFrame)
      BY <2>1, <3>1 DEF Connected, Good, Back, OneFrame
    <3>. QED BY <3>1, <3>2, Gone
  <2>2. CASE UNCHANGED <<link, executed, silent, unanswered, client, answers, polls, faults, toServer, toClient>>
    BY <1>4, <2>2
  <2>. QED BY <1>5, <2>1, <2>2 DEF NoRequest, clientVars
<1>. QED BY <1>2, <1>3, <1>4, <1>5 DEF Period

\* The frame the meter takes is the one that the client waits on, and no reply is
\* under way.
LEMMA Heard ==
  ASSUME TypeInv, LineInv, toServer # NoFrame
  PROVE  /\ toServer = client.waits /\ ~Idle
         /\ Back = NoFrame /\ link.reply = NoFrame /\ toClient = NoFrame
         /\ toServer.kind = "SNRM" => client.state = "calling"
         /\ toServer.kind = "DISC" => client.state = "leaving"
         /\ toServer.kind = "I" => Asking
         /\ toServer.kind = "RR" => Fetching \/ Polling
         /\ client.state = "calling" => toServer = Frame("SNRM")
<1>. USE DEF LineInv
<1>1. toServer = client.waits /\ Back = NoFrame /\ ~Idle BY DEF OneFrame, Idle
<1>2. link.reply = NoFrame /\ toClient = NoFrame BY <1>1 DEF Back
<1>3. Frame("SNRM").kind = "SNRM" /\ Frame("DISC").kind = "DISC" BY DEF Frame
<1>4. client.state \in {"closed", "calling", "open", "leaving"} BY DEF TypeInv, Stations
<1>5. client.state # "closed" /\ (client.state = "calling" => toServer = Frame("SNRM"))
      /\ (client.state = "leaving" => toServer = Frame("DISC"))
  BY <1>1 DEF WaitInv
<1>6. Open => (Asking /\ toServer.kind = "I") \/ ((Fetching \/ Polling) /\ toServer.kind = "RR")
  BY <1>1 DEF WaitInv, Asking, Fetching, Polling
<1>7. client.state \in {"calling", "leaving"} \/ Open BY <1>4, <1>5 DEF Open
<1>. QED BY <1>1, <1>2, <1>3, <1>5, <1>6, <1>7 DEF Open

\* The meter takes that frame and builds a reply.
LEMMA Replied ==
  ASSUME TypeInv, LineInv, WholeInv, toServer # NoFrame, toServer' = NoFrame,
         UNCHANGED <<client, toClient, answers, polls, faults>>, link'.reply # NoFrame,
         \A a, r : AnswerTo(a, r) => AnswerTo(a, r)', RunsWhole'
  PROVE  /\ OneFrame' /\ WaitInv' /\ Agreed' /\ WholeInv' /\ Back' = link'.reply
         /\ Open' = Open /\ Asking' = Asking /\ Fetching' = Fetching /\ Polling' = Polling
         /\ AskedPart' = AskedPart
<1>. USE DEF LineInv
<1>1. /\ Open' = Open /\ Asking' = Asking /\ Fetching' = Fetching /\ Polling' = Polling
      /\ AskedPart' = AskedPart /\ Idle' = Idle
  BY DEF Open, Asking, Fetching, Polling, AskedPart, Idle
<1>2. Back' = link'.reply BY DEF Back
<1>3. OneFrame' BY <1>1, <1>2, Heard DEF OneFrame
<1>4. WaitInv' BY <1>1 DEF WaitInv
<1>5. Agreed' BY <1>2 DEF Agreed
<1>6. WholeInv' BY <1>1 DEF WholeInv
<1>. QED BY <1>1, <1>2, <1>3, <1>4, <1>5, <1>6

\* The application is left alone.
LEMMA Unrun ==
  ASSUME WholeInv, executed' = executed, silent' = silent
  PROVE  RunsWhole' /\ \A a, r : AnswerTo(a, r) => AnswerTo(a, r)'
<1>1. RunsWhole' BY DEF WholeInv, RunsWhole, QuestionWhole, Question
<1>2. \A a, r : AnswerTo(a, r) => AnswerTo(a, r)' BY DEF AnswerTo, Question
<1>. QED BY <1>1, <1>2

\* SNRM makes the link anew, or leaves it closed.
LEMMA CleanSnrm ==
  ASSUME CleanInv, NEW f, f = toServer, RequestSnrm(f)
  PROVE  LineInv' /\ WholeInv'
<1>. USE DEF CleanInv
<1>1. /\ f.kind = "SNRM" /\ toServer # NoFrame /\ toServer' = NoFrame
      /\ UNCHANGED <<client, toClient, executed, silent, answers, polls, faults>>
  BY DEF RequestSnrm, Receive, clientVars, NoFrame
<1>2. CASE link' = Closed
  <2>1. ~Connected' /\ ~Good' /\ link'.reply = NoFrame BY <1>2 DEF Closed, Connected, Good
  <2>2. Back' = NoFrame BY <1>1, <2>1, Heard DEF Back
  <2>. QED BY <1>1, <2>1, <2>2, Gone
<1>3. CASE link' = Refresh([Setup EXCEPT !.status = "CONNECTED", !.reply = Frame("UA")])
  <2>1. /\ link'.sss = 0 /\ link'.rrr = 0 /\ link'.csss = Unknown /\ link'.crrr = Unknown
        /\ link'.recv = <<>> /\ link'.filled = 0 /\ link'.sent = 0 /\ link'.reply = Frame("UA")
    BY <1>3 DEF Refresh, Setup, Closed
  <2>2. Frame("UA") # NoFrame BY DEF Frame, NoFrame
  <2>3. client.state = "calling" BY <1>1, Heard DEF LineInv
  <2>4. ~Open /\ client'.state = "calling" BY <1>1, <2>3 DEF Open
  <2>5. SentAll' BY <2>1 DEF SentAll
  <2>6. OneFrame' /\ WaitInv' /\ Agreed' /\ WholeInv' /\ Back' = link'.reply /\ ~Open'
    BY <1>1, <2>1, <2>2, <2>4, Replied, Unrun
  <2>7. CallFits' BY <2>1, <2>4, <2>5, <2>6 DEF CallFits
  <2>8. PartFits' /\ RestFits' /\ PollFits'
    BY <2>6 DEF PartFits, RestFits, PollFits, Asking, Fetching, Polling
  <2>. QED BY <2>6, <2>7, <2>8 DEF LineInv
<1>. QED BY <1>2, <1>3 DEF RequestSnrm

\* DISC marks the link, or finds it closed.
LEMMA CleanDisc ==
  ASSUME CleanInv, NEW f, f = toServer, RequestDisc(f)
  PROVE  LineInv' /\ WholeInv'
<1>. USE DEF CleanInv
<1>1. /\ f.kind = "DISC" /\ toServer # NoFrame /\ toServer' = NoFrame
      /\ UNCHANGED <<client, toClient, executed, silent, answers, polls, faults>>
  BY DEF RequestDisc, Receive, clientVars, NoFrame
<1>2. CASE link.status # "CONNECTED"
  <2>1. link' = link BY <1>2 DEF RequestDisc
  <2>2. /\ ~Connected' /\ ~Good' /\ Back' = Back
        /\ toClient' # NoFrame => link'.reply = NoFrame
    BY <1>1, <1>2, <2>1 DEF Connected, Good, Back, OneFrame, LineInv
  <2>. QED BY <1>1, <2>2, Gone
<1>3. CASE link.status = "CONNECTED"
  <2>1. link' = Refresh([link EXCEPT !.status = "MARK", !.reply = Frame("UA")])
    BY <1>3 DEF RequestDisc
  <2>2. link \in Links BY DEF TypeInv, Sound
  <2>3. link'.status = "MARK" /\ link'.reply = Frame("UA") BY <2>1, <2>2 DEF Links, Refresh
  <2>4. Frame("UA") # NoFrame BY DEF Frame, NoFrame
  <2>5. client.state = "leaving" BY <1>1, Heard DEF LineInv
  <2>6. ~Open /\ client'.state = "leaving" BY <1>1, <2>5 DEF Open
  <2>7. OneFrame' /\ WaitInv' /\ Agreed' /\ WholeInv' /\ Back' = link'.reply /\ ~Open'
    BY <1>1, <2>3, <2>4, <2>6, Replied, Unrun
  <2>8. CallFits' BY <2>3, <2>6, <2>7 DEF CallFits, Connected
  <2>9. PartFits' /\ RestFits' /\ PollFits'
    BY <2>7 DEF PartFits, RestFits, PollFits, Asking, Fetching, Polling
  <2>. QED BY <2>7, <2>8, <2>9 DEF LineInv
<1>. QED BY <1>2, <1>3

\* A part of a question that the meter takes: the one the client waits on, in sequence.
LEMMA PartHeard ==
  ASSUME CleanInv, NEW f, f = toServer, Info(f), unanswered = 0
  PROVE  /\ Connected /\ Asking /\ Open /\ ~Fetching /\ ~Polling /\ toServer # NoFrame
         /\ client.request \in 1 .. Requests
         /\ AskedPart \in 1 .. RequestParts[client.request]
         /\ f.kind = "I" /\ f.sss = client.vs /\ f.rrr = client.vr
         /\ f.segment = (AskedPart < RequestParts[client.request])
         /\ client.waits.segment = f.segment
         /\ f.info = <<client.request, AskedPart>>
         /\ InSequence(f) /\ SentAll /\ link.sss = client.vr /\ link.rrr = client.vs
         /\ PartsOf(link.recv, client.request, AskedPart - 1)
         /\ InfoTaken(f) = [link EXCEPT !.crrr = f.rrr, !.csss = f.sss, !.rrrc = link.rrr]
         /\ toServer' = NoFrame /\ UNCHANGED <<client, toClient, answers, polls, faults>>
<1>. USE DEF CleanInv, LineInv
<1>1. /\ f.kind = "I" /\ Connected /\ toServer # NoFrame /\ toServer' = NoFrame
      /\ UNCHANGED <<client, toClient, answers, polls, faults>>
  BY DEF Info, Receive, clientVars, NoFrame, Connected
<1>2. Asking /\ Back = NoFrame /\ f = client.waits BY <1>1, Heard
<1>3. Open /\ ~Fetching /\ ~Polling BY <1>2 DEF Asking, Fetching, Polling
<1>4. /\ client.request \in 1 .. Requests /\ AskedPart \in 1 .. RequestParts[client.request]
      /\ f = Part(client.request, AskedPart, client.vs, client.vr)
  BY <1>2 DEF WaitInv
<1>5. /\ f.sss = client.vs /\ f.rrr = client.vr /\ f.info = <<client.request, AskedPart>>
      /\ f.segment = (AskedPart < RequestParts[client.request])
  BY <1>4 DEF Part
<1>6. /\ Numbered /\ SentAll /\ PartsOf(link.recv, client.request, AskedPart - 1)
  BY <1>1, <1>2, <1>3 DEF Agreed, Good
<1>7. Before(link.csss, f.sss) /\ link.sss = client.vr /\ link.rrr = client.vs
  BY <1>5, <1>6 DEF Numbered
<1>8. InSequence(f) /\ f.sss # link.csss BY <1>7 DEF Before, InSequence
<1>9. InfoTaken(f) = [link EXCEPT !.crrr = f.rrr, !.csss = f.sss, !.rrrc = link.rrr]
  BY <1>8 DEF InfoTaken
<1>10. client.waits.segment = f.segment BY <1>2
<1>. QED BY <1>1, <1>2, <1>3, <1>4, <1>5, <1>6, <1>7, <1>8, <1>9, <1>10

\* After a question is left unanswered: its last part, which the link has taken before.
LEMMA LastHeard ==
  ASSUME CleanInv, NEW f, f = toServer, Info(f), unanswered # 0
  PROVE  /\ Connected /\ Asking /\ Open /\ ~Fetching /\ ~Polling /\ toServer # NoFrame
         /\ client.request \in 1 .. Requests /\ Back = NoFrame /\ link.reply = NoFrame
         /\ f \in ToMeter /\ f.kind = "I" /\ f.sss = client.vs /\ f.sss = link.csss
         /\ f.segment = FALSE /\ client.waits.segment = FALSE
         /\ f.info = <<client.request, RequestParts[client.request]>>
         /\ InSequence(f) /\ link.recv = <<>> /\ ~(Len(link.recv) + 1 > MtuParts)
         /\ toServer' = NoFrame /\ UNCHANGED <<client, toClient, answers, polls, faults>>
<1>. USE DEF CleanInv, LineInv
<1>1. /\ f.kind = "I" /\ Connected /\ toServer # NoFrame /\ toServer' = NoFrame
      /\ UNCHANGED <<client, toClient, answers, polls, faults>>
  BY DEF Info, Receive, clientVars, NoFrame, Connected
<1>2. Asking /\ Back = NoFrame /\ link.reply = NoFrame /\ f = client.waits BY <1>1, Heard
<1>3. Open /\ ~Fetching /\ ~Polling BY <1>2 DEF Asking, Fetching, Polling
<1>4. /\ client.request \in 1 .. Requests /\ AskedPart \in 1 .. RequestParts[client.request]
      /\ f = Part(client.request, AskedPart, client.vs, client.vr)
  BY <1>2 DEF WaitInv
<1>5. /\ f.sss = client.vs /\ f.info = <<client.request, AskedPart>>
      /\ f.segment = (AskedPart < RequestParts[client.request])
  BY <1>4 DEF Part
<1>6. /\ ~client.waits.segment /\ link.recv = <<>> /\ 1 <= MtuParts /\ link.csss = client.vs
  BY <1>1, <1>3 DEF SpoiltInv
<1>7. AskedPart = RequestParts[client.request] /\ f.segment = FALSE
  <2>1. RequestParts[client.request] \in Nat BY <1>4, HdlcAssumption
  <2>2. ~(AskedPart < RequestParts[client.request]) BY <1>2, <1>5, <1>6
  <2>3. AskedPart = RequestParts[client.request] BY <1>4, <2>1, <2>2
  <2>4. (AskedPart < RequestParts[client.request]) = FALSE BY <2>2
  <2>. QED BY <1>5, <2>3, <2>4
<1>8. f \in ToMeter BY DEF TypeInv
<1>9. Len(link.recv) = 0 BY <1>6
<1>10. ~(Len(link.recv) + 1 > MtuParts) BY <1>6, <1>9, HdlcAssumption
<1>. QED BY <1>1, <1>2, <1>3, <1>4, <1>5, <1>6, <1>7, <1>8, <1>10 DEF InSequence

\* A part that overruns the buffer is refused, and the client will leave.
LEMMA CleanRefused ==
  ASSUME CleanInv, NEW f, f = toServer, RequestInfoRefused(f)
  PROVE  LineInv' /\ WholeInv'
<1>. USE DEF CleanInv
<1>1. Info(f) /\ executed' = executed /\ silent' = silent /\ unanswered = 0
  BY LastHeard DEF RequestInfoRefused
<1>2. link \in Links BY DEF TypeInv, Sound
<1>. DEFINE t == [link EXCEPT !.crrr = f.rrr, !.csss = f.sss, !.rrrc = link.rrr]
<1>3. link' = Refresh(EncodeFrmr([t EXCEPT !.recv = <<>>]))
  BY <1>1, PartHeard DEF RequestInfoRefused
<1>4. link'.reply = Frame("FRMR") /\ link'.sss = link.sss /\ link'.rrr = link.rrr
  BY <1>2, <1>3 DEF Links, Refresh, EncodeFrmr
<1>5. Frame("FRMR") # NoFrame BY DEF Frame, NoFrame
<1>6. /\ OneFrame' /\ WaitInv' /\ Agreed' /\ WholeInv' /\ Back' = link'.reply
      /\ Open' /\ ~Fetching' /\ ~Polling'
  <2>1. /\ Open /\ ~Fetching /\ ~Polling /\ toServer # NoFrame /\ toServer' = NoFrame
        /\ UNCHANGED <<client, toClient, answers, polls, faults>>
    BY <1>1, PartHeard
  <2>2. RunsWhole' /\ \A a, r : AnswerTo(a, r) => AnswerTo(a, r)' BY <1>1, Unrun
  <2>3. link'.reply # NoFrame BY <1>4, <1>5
  <2>4. /\ OneFrame' /\ WaitInv' /\ Agreed' /\ WholeInv' /\ Back' = link'.reply
        /\ Open' = Open /\ Asking' = Asking /\ Fetching' = Fetching /\ Polling' = Polling
        /\ AskedPart' = AskedPart
    BY <2>1, <2>2, <2>3, Replied
  <2>. QED BY <2>1, <2>4
<1>7. PartFits' BY <1>1, <1>4, <1>6, PartHeard DEF PartFits
<1>8. CallFits' /\ RestFits' /\ PollFits'
  BY <1>6 DEF CallFits, RestFits, PollFits, Open
<1>. QED BY <1>6, <1>7, <1>8 DEF LineInv

\* One part more.
LEMMA PartAdded ==
  ASSUME NEW s \in Seq(Nat \X Nat), NEW r \in Nat, NEW k \in Nat \ {0}, PartsOf(s, r, k - 1)
  PROVE  PartsOf(Append(s, <<r, k>>), r, k) /\ Append(s, <<r, k>>) \in Seq(Nat \X Nat)
<1>1. Len(s) = k - 1 /\ \A j \in 1 .. k - 1 : s[j] = <<r, j>> BY DEF PartsOf
<1>. DEFINE a == Append(s, <<r, k>>)
<1>2. a \in Seq(Nat \X Nat) /\ Len(a) = k /\ a[k] = <<r, k>> /\ \A j \in 1 .. k - 1 : a[j] = s[j]
  BY <1>1
<1>. HIDE DEF a
<1>3. \A j \in 1 .. k : j \in 1 .. k - 1 \/ j = k OBVIOUS
<1>. QED BY <1>1, <1>2, <1>3 DEF PartsOf, a

\* All the parts are the question.
LEMMA AllParts ==
  ASSUME NEW s \in Seq(Nat \X Nat), NEW r \in 1 .. Requests, PartsOf(s, r, RequestParts[r])
  PROVE  s = Question(r)
<1>1. RequestParts[r] \in Nat BY HdlcAssumption
<1>2. DOMAIN s = 1 .. RequestParts[r] /\ \A j \in 1 .. RequestParts[r] : s[j] = <<r, j>>
  BY <1>1 DEF PartsOf
<1>3. s = [j \in 1 .. RequestParts[r] |-> s[j]] BY <1>2
<1>. QED BY <1>2, <1>3 DEF Question

\* One part more is received and acknowledged.
LEMMA CleanSegment ==
  ASSUME CleanInv, NEW f, f = toServer, RequestInfoSegment(f)
  PROVE  LineInv' /\ WholeInv'
<1>. USE DEF CleanInv
<1>1. Info(f) /\ executed' = executed /\ silent' = silent /\ f.segment /\ unanswered = 0
  BY LastHeard DEF RequestInfoSegment
<1>2. link \in Links /\ link.recv \in Seq(Nat \X Nat) BY DEF TypeInv, Sound, Links
<1>. DEFINE t == [link EXCEPT !.crrr = f.rrr, !.csss = f.sss, !.rrrc = link.rrr]
            more == Append(link.recv, f.info)
<1>3. link' = Refresh(EncodeRr([t EXCEPT !.recv = Append(t.recv, f.info), !.rrr = Succ(t.rrr)]))
  BY <1>1, PartHeard DEF RequestInfoSegment
<1>4. t.recv = link.recv /\ t.rrr = link.rrr BY <1>2 DEF Links
<1>5. link' = Refresh(EncodeRr([t EXCEPT !.recv = more, !.rrr = Succ(link.rrr)]))
  BY <1>3, <1>4
<1>6. PartsOf(more, client.request, AskedPart)
  <2>1. client.request \in Nat /\ AskedPart \in Nat \ {0}
    <3>1. client.request \in 1 .. Requests /\ AskedPart \in 1 .. RequestParts[client.request]
      BY <1>1, PartHeard
    <3>2. \A r \in 1 .. Requests : r \in Nat /\ RequestParts[r] \in Nat BY HdlcAssumption
    <3>. QED BY <3>1, <3>2
  <2>. QED BY <1>1, <1>2, <2>1, PartHeard, PartAdded
<1>. HIDE DEF more
<1>7. /\ link'.reply = RR(Succ(link.rrr)) /\ link'.sss = link.sss /\ link'.rrr = Succ(link.rrr)
      /\ link'.csss = f.sss /\ link'.recv = more
      /\ link'.filled = link.filled /\ link'.sent = link.sent
  BY <1>2, <1>5 DEF Links, Refresh, EncodeRr
<1>8. RR(Succ(link.rrr)) # NoFrame BY DEF RR, NoFrame
<1>9. /\ OneFrame' /\ WaitInv' /\ Agreed' /\ WholeInv' /\ Back' = link'.reply
      /\ Open' /\ ~Fetching' /\ ~Polling' /\ AskedPart' = AskedPart
  <2>1. /\ Open /\ ~Fetching /\ ~Polling /\ toServer # NoFrame /\ toServer' = NoFrame
        /\ UNCHANGED <<client, toClient, answers, polls, faults>>
    BY <1>1, PartHeard
  <2>2. RunsWhole' /\ \A a, r : AnswerTo(a, r) => AnswerTo(a, r)' BY <1>1, Unrun
  <2>3. link'.reply # NoFrame BY <1>7, <1>8
  <2>4. /\ OneFrame' /\ WaitInv' /\ Agreed' /\ WholeInv' /\ Back' = link'.reply
        /\ Open' = Open /\ Asking' = Asking /\ Fetching' = Fetching /\ Polling' = Polling
        /\ AskedPart' = AskedPart
    BY <2>1, <2>2, <2>3, Replied
  <2>. QED BY <2>1, <2>4
<1>10. SentAll' BY <1>1, <1>7, PartHeard DEF SentAll
<1>11. /\ client' = client /\ client.waits.segment /\ link.rrr = client.vs
       /\ link.sss = client.vr /\ f.sss = client.vs
  BY <1>1, PartHeard
<1>12. PartFits' BY <1>6, <1>7, <1>9, <1>10, <1>11 DEF PartFits, PartsOf
<1>13. CallFits' /\ RestFits' /\ PollFits'
  BY <1>9 DEF CallFits, RestFits, PollFits, Open
<1>. QED BY <1>9, <1>12, <1>13 DEF LineInv

\* The link once a frame of an answer is built.
Built(l, from, length, more, filled, sent, d) ==
  /\ d.reply = [kind |-> "I", sss |-> l.sss, rrr |-> l.rrr, segment |-> more,
                info |-> [answer |-> l.answer, from |-> from, length |-> length]]
  /\ d.sss = Succ(l.sss) /\ d.rrr = l.rrr /\ d.csss = l.csss /\ d.crrr = l.crrr
  /\ d.recv = l.recv /\ d.answer = l.answer /\ d.filled = filled /\ d.sent = sent
  /\ d.status = l.status

\* The first frame of an answer ...
LEMMA FirstBuilt ==
  ASSUME NEW l \in Links, NEW from, NEW length, NEW llc, NEW more, NEW filled, NEW sent
  PROVE  Built(l, from, length, more, filled, sent,
               Refresh([EncodeInfo(l, from, length, llc, more) EXCEPT !.filled = filled,
                                                                      !.sent = sent]))
BY DEF EncodeInfo, Refresh, Links, Built

\* ... and those that follow it.
LEMMA NextBuilt ==
  ASSUME NEW l \in Links, NEW from, NEW length, NEW llc, NEW more, NEW sent
  PROVE  Built(l, from, length, more, l.filled, sent,
               Refresh([EncodeInfo(l, from, length, llc, more) EXCEPT !.sent = sent]))
BY DEF EncodeInfo, Refresh, Links, Built

\* q is the question r, or its last part as the resend of one left unanswered
RunOfQuestion(q, r) ==
  \/ q = Question(r)
  \/ /\ q = <<<<r, RequestParts[r]>>>>
     /\ \E j \in silent : j \in 1 .. Len(executed) /\ executed[j] = Question(r)

\* One run of the application more.
LEMMA OneRunMore ==
  ASSUME TypeInv, WholeInv, NEW q \in Seq(Nat \X Nat), NEW r \in 1 .. Requests,
         RunOfQuestion(q, r), executed' = Append(executed, q),
         silent' \in {silent, silent \cup {Len(executed')}}
  PROVE  /\ RunsWhole' /\ \A a, s : AnswerTo(a, s) => AnswerTo(a, s)'
         /\ q = Question(r) => \A a : a = Len(executed') => AnswerTo(a, r)'
         /\ Len(executed') = Len(executed) + 1
<1>1. /\ Len(executed') = Len(executed) + 1 /\ Len(executed) \in Nat
      /\ executed'[Len(executed) + 1] = q
      /\ \A i \in 1 .. Len(executed) : executed'[i] = executed[i]
  BY DEF TypeInv
<1>2. silent \subseteq 1 .. Len(executed) /\ silent \subseteq silent'
      /\ silent' \subseteq 1 .. Len(executed')
  <2>1. silent \subseteq 1 .. Len(executed) BY DEF WholeInv, RunsWhole
  <2>2. 1 .. Len(executed) \subseteq 1 .. Len(executed') /\ Len(executed') \in 1 .. Len(executed')
    BY <1>1
  <2>. QED BY <2>1, <2>2
<1>. DEFINE before(i, s) == \E j \in silent' : j < i /\ executed'[j] = Question(s)
            fits(i, s) == \/ executed'[i] = Question(s)
                          \/ executed'[i] = <<<<s, RequestParts[s]>>>> /\ before(i, s)
<1>3. ASSUME NEW i \in 1 .. Len(executed')
      PROVE  \E s \in 1 .. Requests : fits(i, s)
  <2>1. CASE i \in 1 .. Len(executed)
    <3>1. PICK s \in 1 .. Requests :
            \/ executed[i] = Question(s)
            \/ /\ executed[i] = <<<<s, RequestParts[s]>>>>
               /\ \E j \in silent : j < i /\ executed[j] = Question(s)
      BY <2>1 DEF WholeInv, RunsWhole, QuestionWhole
    <3>2. executed'[i] = executed[i] BY <1>1, <2>1
    <3>3. ASSUME NEW j \in silent, j < i, executed[j] = Question(s)
          PROVE  j \in silent' /\ executed'[j] = Question(s)
      BY <1>1, <1>2, <3>3
    <3>4. (\E j \in silent : j < i /\ executed[j] = Question(s)) => before(i, s) BY <3>3
    <3>. HIDE DEF before
    <3>. QED BY <3>1, <3>2, <3>4
  <2>2. CASE i = Len(executed) + 1
    <3>1. executed'[i] = q BY <1>1, <2>2
    <3>2. ASSUME NEW j \in silent, j \in 1 .. Len(executed), executed[j] = Question(r)
          PROVE  j \in silent' /\ j < i /\ executed'[j] = Question(r)
      BY <1>1, <1>2, <2>2, <3>2
    <3>3. (\E j \in silent : j \in 1 .. Len(executed) /\ executed[j] = Question(r)) => before(i, r)
      BY <3>2
    <3>. HIDE DEF before
    <3>4. fits(i, r) BY <3>1, <3>3 DEF RunOfQuestion
    <3>. QED BY <3>4
  <2>3. i \in 1 .. Len(executed) \/ i = Len(executed) + 1 BY <1>1
  <2>. QED BY <2>1, <2>2, <2>3
<1>4. RunsWhole' BY <1>2, <1>3 DEF RunsWhole, QuestionWhole, Question
<1>5. \A a, s : AnswerTo(a, s) => AnswerTo(a, s)'
  <2>. SUFFICES ASSUME NEW a, NEW s, a \in 1 .. Len(executed), executed[a] = Question(s)
       PROVE  a \in 1 .. Len(executed') /\ executed'[a] = Question(s)
    BY DEF AnswerTo, Question
  <2>. QED BY <1>1
<1>6. ASSUME q = Question(r), NEW a, a = Len(executed') PROVE AnswerTo(a, r)'
  <2>1. a \in 1 .. Len(executed') /\ executed'[a] = Question(r) BY <1>1, <1>6
  <2>. QED BY <2>1 DEF AnswerTo, Question
<1>. QED BY <1>1, <1>4, <1>5, <1>6

\* The last part completes the question, the application runs, and its answer begins.
LEMMA CleanLast ==
  ASSUME CleanInv, NEW f, f = toServer, RequestInfoLast(f), unanswered = 0
  PROVE  /\ LineInv' /\ WholeInv'
         /\ executed' = Append(executed, Question(client.request))
         /\ client.request \in 1 .. Requests /\ UNCHANGED <<client, answers>>
<1>. USE DEF CleanInv
<1>1. /\ Info(f) /\ ~f.segment /\ executed' = Append(executed, Append(link.recv, f.info))
      /\ unanswered = 0 /\ silent' = silent
  BY DEF RequestInfoLast, Run
<1>2. link \in Links /\ link.recv \in Seq(Nat \X Nat) BY DEF TypeInv, Sound, Links
<1>. DEFINE r == client.request
            q == Append(link.recv, f.info)
            ran == Len(executed')
            t == [link EXCEPT !.crrr = f.rrr, !.csss = f.sss, !.rrrc = link.rrr]
            l == [t EXCEPT !.recv = <<>>, !.rrr = Succ(t.rrr), !.answer = ran]
            first == MaxLenTrans - Llc
            large == AnswerLength + Llc > MaxLenTrans
            length == IF large THEN first ELSE AnswerLength
            e == EncodeInfo(l, 0, length, Llc, large)
            filled == IF large THEN AnswerLength ELSE 0
            sent == IF large THEN first ELSE 0
<1>3. /\ Open /\ Asking /\ ~Fetching /\ ~Polling /\ toServer # NoFrame /\ toServer' = NoFrame
      /\ UNCHANGED <<client, toClient, answers, polls, faults>>
      /\ r \in 1 .. Requests /\ f.sss = client.vs /\ f.rrr = client.vr
      /\ client.waits.segment = f.segment
      /\ link.sss = client.vr /\ link.rrr = client.vs
  BY <1>1, PartHeard
<1>4. q \in Seq(Nat \X Nat) /\ q = Question(r)
  <2>1. /\ AskedPart \in 1 .. RequestParts[r] /\ f.segment = (AskedPart < RequestParts[r])
        /\ f.info = <<r, AskedPart>> /\ PartsOf(link.recv, r, AskedPart - 1)
    BY <1>1, PartHeard
  <2>2. r \in Nat /\ RequestParts[r] \in Nat \ {0} BY <1>3, HdlcAssumption
  <2>3. ~(AskedPart < RequestParts[r]) BY <1>1, <2>1
  <2>5. AskedPart = RequestParts[r] /\ AskedPart \in Nat \ {0} BY <2>1, <2>2, <2>3
  <2>4. PartsOf(q, r, RequestParts[r]) /\ q \in Seq(Nat \X Nat)
    BY <1>2, <2>1, <2>2, <2>5, PartAdded
  <2>. HIDE DEF q
  <2>. QED BY <1>3, <2>4, AllParts
<1>5. executed' = Append(executed, q) BY <1>1
<1>. HIDE DEF q
<1>6. /\ RunsWhole' /\ \A a, s : AnswerTo(a, s) => AnswerTo(a, s)'
      /\ \A a, s : a = ran /\ s = r => AnswerTo(a, s)'
      /\ ran = Len(executed) + 1
  <2>1. RunOfQuestion(q, r) BY <1>4 DEF RunOfQuestion
  <2>. QED BY <1>1, <1>3, <1>4, <1>5, <2>1, OneRunMore
<1>7. ran \in Nat BY <1>6 DEF TypeInv
<1>8. InfoTaken(f) = t BY <1>1, PartHeard
<1>9. link' = Refresh([e EXCEPT !.filled = filled, !.sent = sent])
  <2>1. link' = Refresh(
          IF large
            THEN [EncodeInfo(l, 0, first, Llc, TRUE) EXCEPT !.filled = AnswerLength, !.sent = first]
            ELSE [EncodeInfo(l, 0, AnswerLength, Llc, FALSE) EXCEPT !.filled = 0, !.sent = 0])
    BY <1>8 DEF RequestInfoLast
  <2>. HIDE DEF l, first
  <2>2. CASE large
    <3>1. large = TRUE BY <2>2
    <3>2. length = first /\ filled = AnswerLength /\ sent = first BY <2>2
    <3>. HIDE DEF large, length, filled, sent
    <3>. QED BY <2>1, <2>2, <3>1, <3>2
  <2>3. CASE ~large
    <3>1. large = FALSE BY <2>3
    <3>2. length = AnswerLength /\ filled = 0 /\ sent = 0 BY <2>3
    <3>. HIDE DEF large, length, filled, sent
    <3>. QED BY <2>1, <2>3, <3>1, <3>2
  <2>. QED BY <2>2, <2>3
<1>. HIDE DEF ran
<1>10. /\ l \in Links /\ l.sss = link.sss /\ l.rrr = Succ(link.rrr) /\ l.csss = f.sss
       /\ l.crrr = f.rrr /\ l.recv = <<>> /\ l.answer = ran
  <2>1. f.sss \in SequenceNumbers /\ f.rrr \in SequenceNumbers
    BY <1>3 DEF TypeInv, Stations, SequenceNumbers
  <2>2. link.rrr \in Numbers /\ Succ(link.rrr) \in Numbers BY <1>2, Neighbours DEF Links
  <2>3. <<>> \in Seq(Nat \X Nat) OBVIOUS
  <2>4. t \in Links /\ t.rrr = link.rrr BY <1>2, <2>1, <2>2 DEF Links
  <2>5. t.sss = link.sss /\ t.csss = f.sss /\ t.crrr = f.rrr BY <1>2 DEF Links
  <2>. HIDE DEF t
  <2>. QED BY <1>7, <2>2, <2>3, <2>4, <2>5 DEF Links
<1>. HIDE DEF l, large, length, filled, sent
<1>11. /\ link'.reply = [kind |-> "I", sss |-> l.sss, rrr |-> l.rrr, segment |-> large,
                         info |-> [answer |-> l.answer, from |-> 0, length |-> length]]
       /\ link'.sss = Succ(l.sss) /\ link'.rrr = l.rrr /\ link'.csss = l.csss
       /\ link'.crrr = l.crrr /\ link'.recv = l.recv /\ link'.answer = l.answer
       /\ link'.filled = filled /\ link'.sent = sent
  <2>1. Built(l, 0, length, large, filled, sent, Refresh([e EXCEPT !.filled = filled, !.sent = sent]))
    BY <1>10, FirstBuilt
  <2>. HIDE DEF e
  <2>. QED BY <1>9, <2>1 DEF Built
<1>. HIDE DEF e
<1>12. link'.reply # NoFrame BY <1>11 DEF NoFrame
<1>13. /\ OneFrame' /\ WaitInv' /\ Agreed' /\ WholeInv' /\ Back' = link'.reply
       /\ Open' = Open /\ Asking' = Asking /\ Fetching' = Fetching /\ Polling' = Polling
       /\ AskedPart' = AskedPart
  BY <1>3, <1>6, <1>12, Replied
<1>14. /\ large => \A a, to : a = ran /\ to = length => MoreOf(a, to)'
       /\ ~large => SentAll' /\ length = AnswerLength
  <2>1. CASE large
    <3>1. first < AnswerLength BY <2>1, HdlcAssumption DEF large
    <3>. QED BY <1>10, <1>11, <2>1, <3>1 DEF MoreOf, filled, sent, length
  <2>2. CASE ~large BY <1>11, <2>2 DEF SentAll, filled, sent, length
  <2>. QED BY <2>1, <2>2
<1>15. /\ Back'.kind = "I" /\ Back'.sss = client.vr /\ Back'.rrr = Succ(client.vs)
       /\ Back'.segment = large /\ Back'.info.from = 0 /\ Back'.info.answer = ran
       /\ Back'.info.length = length
  BY <1>3, <1>10, <1>11, <1>13
<1>16. 0 + length = length
  <2>1. AnswerLength \in Nat /\ first \in Nat BY HdlcAssumption
  <2>. QED BY <2>1 DEF length
<1>17. Before(client.vs, Succ(client.vs))
  <2>1. client.vs \in Numbers BY DEF TypeInv, Stations
  <2>. QED BY <2>1, Neighbours DEF Before
<1>18. Piece(Back, 0)'
  BY <1>3, <1>6, <1>10, <1>11, <1>14, <1>15, <1>16, <1>17 DEF Piece, Before
<1>19. PartFits' BY <1>1, <1>3, <1>15, <1>18 DEF PartFits
<1>20. CallFits' /\ RestFits' /\ PollFits'
  BY <1>3, <1>13 DEF CallFits, RestFits, PollFits, Open
<1>. QED BY <1>3, <1>4, <1>5, <1>13, <1>19, <1>20 DEF LineInv

\* The answer to a run is begun, whatever its length.
LEMMA AnswerBegun ==
  ASSUME NEW f, RequestInfoLast(f), InfoTaken(f) \in Links, Len(executed') \in Nat
  PROVE  LET t == InfoTaken(f)
         IN /\ link'.reply.kind = "I" /\ link'.reply.sss = t.sss /\ link'.sss = Succ(t.sss)
            /\ link'.csss = t.csss /\ link'.recv = <<>> /\ link'.status = t.status
<1>. DEFINE t == InfoTaken(f)
            ran == Len(executed')
            l == [t EXCEPT !.recv = <<>>, !.rrr = Succ(t.rrr), !.answer = ran]
            first == MaxLenTrans - Llc
<1>1. \E length, large, filled, sent :
        link' = Refresh([EncodeInfo(l, 0, length, Llc, large) EXCEPT !.filled = filled, !.sent = sent])
  <2>1. link' = Refresh(
          IF AnswerLength + Llc > MaxLenTrans
            THEN [EncodeInfo(l, 0, first, Llc, TRUE) EXCEPT !.filled = AnswerLength, !.sent = first]
            ELSE [EncodeInfo(l, 0, AnswerLength, Llc, FALSE) EXCEPT !.filled = 0, !.sent = 0])
    BY DEF RequestInfoLast
  <2>. HIDE DEF l, first
  <2>. QED BY <2>1
<1>2. PICK length, large, filled, sent :
        link' = Refresh([EncodeInfo(l, 0, length, Llc, large) EXCEPT !.filled = filled, !.sent = sent])
  BY <1>1
<1>. HIDE DEF t, ran
<1>3. t \in Links /\ ran \in Nat BY DEF t, ran
<1>4. Succ(t.rrr) \in Numbers BY <1>3, Neighbours DEF Links
<1>5. /\ l \in Links /\ l.sss = t.sss /\ l.csss = t.csss /\ l.recv = <<>>
      /\ l.status = t.status
  <2>1. <<>> \in Seq(Nat \X Nat) OBVIOUS
  <2>. QED BY <1>3, <1>4, <2>1 DEF Links
<1>. HIDE DEF l
<1>6. Built(l, 0, length, large, filled, sent, link') BY <1>2, <1>5, FirstBuilt
<1>. QED BY <1>5, <1>6 DEF Built, t

\* Numbers that differ by one to seven.
LEMMA Behind ==
  ASSUME NEW n \in Numbers, NEW u \in 1 .. 7
  PROVE  /\ (n + 8 - u) % 8 # n /\ (n + 8 - u) % 8 \in Numbers
         /\ Pred((n + 9 - u) % 8) = (n + 8 - u) % 8 /\ Succ((n + 8 - u) % 8) = (n + 9 - u) % 8
<1>1. n \in 0 .. 7 BY DEF Numbers
<1>. QED BY <1>1 DEF Pred, Succ, Numbers

\* What the links and the client's ends of a run have in common.
LEMMA RunHeard ==
  ASSUME CleanInv, NEW f, f = toServer, Run(f)
  PROVE  /\ Connected /\ Asking /\ Open /\ ~Fetching /\ ~Polling /\ toServer # NoFrame
         /\ client.request \in 1 .. Requests /\ Back = NoFrame /\ link.reply = NoFrame
         /\ f \in ToMeter /\ f.kind = "I" /\ f.sss = client.vs /\ ~client.waits.segment
         /\ toServer' = NoFrame /\ UNCHANGED <<client, toClient, answers, polls, faults>>
         /\ 1 <= MtuParts
         /\ \E q \in Seq(Nat \X Nat) :
              /\ executed' = Append(executed, q) /\ RunOfQuestion(q, client.request)
              /\ q[1][1] = client.request
              /\ unanswered = 0 => q = Question(client.request)
<1>. DEFINE r == client.request
            q == Append(link.recv, f.info)
<1>. USE DEF CleanInv
<1>1. /\ Info(f) /\ ~f.segment /\ executed' = Append(executed, q)
      /\ Len(link.recv) + 1 <= MtuParts
  BY DEF Run
<1>2. link.recv \in Seq(Nat \X Nat) /\ f \in ToMeter BY DEF TypeInv, Sound, Links
<1>3. 1 <= MtuParts
  <2>1. Len(link.recv) \in Nat BY <1>2
  <2>. QED BY <1>1, <2>1, HdlcAssumption
<1>4. ASSUME r \in 1 .. Requests
      PROVE  r \in Nat /\ RequestParts[r] \in Nat \ {0}
  BY <1>4, HdlcAssumption
<1>5. CASE unanswered = 0
  <2>1. /\ AskedPart \in 1 .. RequestParts[r] /\ f.segment = (AskedPart < RequestParts[r])
        /\ f.info = <<r, AskedPart>> /\ PartsOf(link.recv, r, AskedPart - 1)
        /\ Connected /\ Asking /\ Open /\ ~Fetching /\ ~Polling /\ toServer # NoFrame
        /\ r \in 1 .. Requests /\ f.kind = "I" /\ f.sss = client.vs
        /\ client.waits.segment = f.segment
        /\ toServer' = NoFrame /\ UNCHANGED <<client, toClient, answers, polls, faults>>
    BY <1>1, <1>5, PartHeard
  <2>2. r \in Nat /\ RequestParts[r] \in Nat \ {0} BY <1>4, <2>1
  <2>3. ~(AskedPart < RequestParts[r]) BY <1>1, <2>1
  <2>4. AskedPart = RequestParts[r] /\ AskedPart \in Nat \ {0} BY <2>1, <2>2, <2>3
  <2>5. PartsOf(q, r, RequestParts[r]) /\ q \in Seq(Nat \X Nat)
    BY <1>2, <2>1, <2>2, <2>4, PartAdded
  <2>. HIDE DEF q, r
  <2>6. q = Question(r) BY <2>1, <2>5, AllParts
  <2>7. q[1][1] = r
    <3>1. 1 \in 1 .. RequestParts[r] BY <2>2
    <3>. QED BY <2>6, <3>1 DEF Question
  <2>8. Back = NoFrame /\ link.reply = NoFrame BY <2>1, Heard
  <2>9. RunOfQuestion(q, r) BY <2>6 DEF RunOfQuestion
  <2>. QED BY <1>1, <1>2, <1>3, <2>1, <2>5, <2>6, <2>7, <2>8, <2>9 DEF r
<1>6. CASE unanswered # 0
  <2>1. /\ Connected /\ Asking /\ Open /\ ~Fetching /\ ~Polling /\ toServer # NoFrame
        /\ r \in 1 .. Requests /\ Back = NoFrame /\ link.reply = NoFrame
        /\ f.kind = "I" /\ f.sss = client.vs /\ client.waits.segment = FALSE
        /\ f.info = <<r, RequestParts[r]>> /\ link.recv = <<>>
        /\ toServer' = NoFrame /\ UNCHANGED <<client, toClient, answers, polls, faults>>
    BY <1>1, <1>6, LastHeard
  <2>2. r \in Nat /\ RequestParts[r] \in Nat \ {0} BY <1>4, <2>1
  <2>3. q = <<<<r, RequestParts[r]>>>> /\ q \in Seq(Nat \X Nat) BY <2>1, <2>2
  <2>4. q[1][1] = r BY <2>3
  <2>5. RunOfQuestion(q, r) BY <1>6, <2>1, <2>3 DEF SpoiltInv, RunOfQuestion
  <2>. HIDE DEF q
  <2>. QED BY <1>1, <1>2, <1>3, <1>6, <2>1, <2>3, <2>4, <2>5
<1>. QED BY <1>5, <1>6

\* The question is left unanswered, given whole or as its last part.
LEMMA CleanUnanswered ==
  ASSUME CleanInv, NEW f, f = toServer, RequestInfoUnanswered(f), Clean
  PROVE  LineInv' /\ SpoiltInv' /\ WholeInv'
<1>. DEFINE r == client.request
            t == InfoTaken(f)
<1>. USE DEF CleanInv
<1>1. Run(f) /\ silent' = silent \cup {Len(executed')} /\ unanswered' = unanswered + 1
      /\ unanswered < MaxUnanswered /\ link' = [t EXCEPT !.recv = <<>>, !.filled = 0]
  BY DEF RequestInfoUnanswered
<1>2. /\ Connected /\ Asking /\ Open /\ ~Fetching /\ ~Polling /\ toServer # NoFrame
      /\ r \in 1 .. Requests /\ Back = NoFrame /\ link.reply = NoFrame
      /\ f \in ToMeter /\ f.kind = "I" /\ f.sss = client.vs /\ ~client.waits.segment
      /\ toServer' = NoFrame /\ UNCHANGED <<client, toClient, answers, polls, faults>>
      /\ 1 <= MtuParts
  BY <1>1, RunHeard
<1>3. PICK q \in Seq(Nat \X Nat) :
        /\ executed' = Append(executed, q) /\ RunOfQuestion(q, r)
        /\ unanswered = 0 => q = Question(r)
  BY <1>1, RunHeard
<1>4. /\ RunsWhole' /\ \A a, s : AnswerTo(a, s) => AnswerTo(a, s)'
      /\ q = Question(r) => \A a : a = Len(executed') => AnswerTo(a, r)'
      /\ Len(executed') = Len(executed) + 1
  BY <1>1, <1>2, <1>3, OneRunMore
<1>5. /\ Sound(t) /\ t.csss = f.sss /\ t.reply = NoFrame /\ t.status = link.status
      /\ t.sss = IF f.sss = link.csss THEN Pred(link.sss) ELSE link.sss
  BY <1>2, TakenFields DEF TypeInv
<1>. HIDE DEF t
<1>6. /\ link'.csss = client.vs /\ link'.reply = NoFrame /\ link'.recv = <<>>
      /\ link'.sss = IF client.vs = link.csss THEN Pred(link.sss) ELSE link.sss
  BY <1>1, <1>2, <1>5 DEF Sound, Links
<1>7. /\ unanswered \in 0 .. 6 /\ unanswered' \in 1 .. 7
  <2>1. unanswered \in Nat /\ MaxUnanswered \in Nat BY Lengths DEF TypeInv
  <2>2. MaxUnanswered < 8 BY DEF Clean
  <2>3. unanswered < MaxUnanswered /\ unanswered' = unanswered + 1 BY <1>1
  <2>. QED BY <2>1, <2>2, <2>3
<1>8. /\ Open' = Open /\ Asking' = Asking /\ Fetching' = Fetching /\ Polling' = Polling
      /\ AskedPart' = AskedPart /\ Idle' = Idle /\ ~Good'
  BY <1>2, <1>7 DEF Open, Asking, Fetching, Polling, AskedPart, Idle, Good
<1>9. Back' = NoFrame BY <1>2, <1>6, Heard DEF Back
<1>10. LineInv'
  <2>1. toClient' = NoFrame BY <1>2, Heard
  <2>2. OneFrame' BY <1>2, <1>8, <1>9, <2>1 DEF OneFrame
  <2>3. WaitInv' BY <1>2, <1>4, <1>8 DEF WaitInv, LineInv
  <2>4. Agreed' BY <1>8 DEF Agreed
  <2>5. CallFits' /\ PartFits' /\ RestFits' /\ PollFits'
    BY <1>9 DEF CallFits, PartFits, RestFits, PollFits
  <2>. QED BY <2>2, <2>3, <2>4, <2>5 DEF LineInv
<1>11. WholeInv' BY <1>2, <1>4, <1>8 DEF WholeInv
<1>12. link'.sss = (client.vr + 9 - unanswered') % 8
  <2>1. client.vr \in Numbers /\ client.vs \in Numbers BY DEF TypeInv, Stations
  <2>2. CASE unanswered = 0
    <3>1. link.sss = client.vr /\ Before(link.csss, client.vs)
      BY <1>2, <2>2 DEF Agreed, LineInv, Good, Numbered
    <3>2. link'.sss = client.vr BY <1>6, <3>1 DEF Before
    <3>3. (client.vr + 9 - 1) % 8 = client.vr
      <4>1. \A n \in 0 .. 7 : (n + 9 - 1) % 8 = n OBVIOUS
      <4>. QED BY <2>1, <4>1 DEF Numbers
    <3>. QED BY <1>1, <2>2, <3>2, <3>3
  <2>3. CASE unanswered # 0
    <3>1. link.csss = client.vs /\ link.sss = (client.vr + 9 - unanswered) % 8
      BY <1>2, <2>3 DEF SpoiltInv
    <3>2. unanswered \in 1 .. 7 BY <1>7, <2>3
    <3>3. link'.sss = (client.vr + 8 - unanswered) % 8 BY <1>6, <2>1, <3>1, <3>2, Behind
    <3>4. client.vr + 9 - unanswered' = client.vr + 8 - unanswered
      BY <1>1, <1>7, <2>1 DEF Numbers
    <3>. QED BY <3>3, <3>4
  <2>. QED BY <2>2, <2>3
<1>13. \E j \in silent' : j \in 1 .. Len(executed') /\ executed'[j] = Question(r)'
  <2>1. CASE unanswered = 0
    <3>1. AnswerTo(Len(executed), r)' BY <1>2, <1>3, <1>4, <2>1
    <3>2. Len(executed') \in silent' BY <1>1
    <3>. QED BY <3>1, <3>2 DEF AnswerTo, Question
  <2>2. CASE unanswered # 0
    <3>1. PICK j \in silent : j \in 1 .. Len(executed) /\ executed[j] = Question(r)
      BY <1>2, <2>2 DEF SpoiltInv
    <3>2. AnswerTo(j, r)' BY <1>2, <1>4, <3>1 DEF AnswerTo
    <3>. QED BY <1>1, <3>1, <3>2 DEF AnswerTo, Question
  <2>. QED BY <2>1, <2>2
<1>14. SpoiltInv'
  BY <1>2, <1>6, <1>8, <1>9, <1>12, <1>13 DEF SpoiltInv, Open, Question
<1>. QED BY <1>10, <1>11, <1>14

\* The last part again is answered, with a number that the client has had before.
LEMMA CleanLastAgain ==
  ASSUME CleanInv, NEW f, f = toServer, RequestInfoLast(f), unanswered # 0, Clean
  PROVE  LineInv' /\ SpoiltInv' /\ WholeInv'
<1>. DEFINE r == client.request
            t == InfoTaken(f)
<1>. USE DEF CleanInv
<1>1. Run(f) /\ silent' = silent /\ unanswered' = unanswered /\ Info(f)
  BY DEF RequestInfoLast, Run
<1>2. /\ Connected /\ Asking /\ Open /\ ~Fetching /\ ~Polling /\ toServer # NoFrame
      /\ r \in 1 .. Requests /\ Back = NoFrame /\ link.reply = NoFrame
      /\ f \in ToMeter /\ f.kind = "I" /\ f.sss = client.vs /\ ~client.waits.segment
      /\ toServer' = NoFrame /\ UNCHANGED <<client, toClient, answers, polls, faults>>
      /\ 1 <= MtuParts
  BY <1>1, RunHeard
<1>3. PICK q \in Seq(Nat \X Nat) : executed' = Append(executed, q) /\ RunOfQuestion(q, r)
  BY <1>1, RunHeard
<1>4. /\ RunsWhole' /\ \A a, s : AnswerTo(a, s) => AnswerTo(a, s)'
      /\ Len(executed') = Len(executed) + 1
  BY <1>1, <1>2, <1>3, OneRunMore
<1>5. /\ Sound(t) /\ t.csss = f.sss /\ t.status = link.status
      /\ t.sss = IF f.sss = link.csss THEN Pred(link.sss) ELSE link.sss
  BY <1>2, TakenFields DEF TypeInv
<1>6. Len(executed') \in Nat BY <1>4 DEF TypeInv
<1>7. /\ link'.reply.kind = "I" /\ link'.reply.sss = t.sss /\ link'.sss = Succ(t.sss)
      /\ link'.csss = client.vs /\ link'.recv = <<>>
  BY <1>2, <1>5, <1>6, AnswerBegun DEF Sound
<1>. HIDE DEF t
<1>8. unanswered \in 1 .. 7
  <2>1. unanswered \in Nat /\ MaxUnanswered \in Nat /\ unanswered <= MaxUnanswered
    BY Lengths DEF TypeInv
  <2>. QED BY <2>1 DEF Clean
<1>9. /\ t.sss = (client.vr + 8 - unanswered) % 8 /\ t.sss # client.vr
      /\ link'.sss = (client.vr + 9 - unanswered) % 8
  <2>1. client.vr \in Numbers BY DEF TypeInv, Stations
  <2>2. link.csss = client.vs /\ link.sss = (client.vr + 9 - unanswered) % 8
    BY <1>2, <1>8 DEF SpoiltInv
  <2>. QED BY <1>2, <1>5, <1>7, <1>8, <2>1, <2>2, Behind
<1>10. link'.reply # NoFrame BY <1>7 DEF NoFrame
<1>11. /\ OneFrame' /\ WaitInv' /\ Agreed' /\ WholeInv' /\ Back' = link'.reply
       /\ Open' = Open /\ Asking' = Asking /\ Fetching' = Fetching /\ Polling' = Polling
       /\ AskedPart' = AskedPart
  BY <1>2, <1>4, <1>10, Replied
<1>12. ~Good' BY <1>1, <1>8 DEF Good
<1>13. PartFits' BY <1>2, <1>7, <1>9, <1>11, <1>12 DEF PartFits
<1>14. CallFits' /\ RestFits' /\ PollFits'
  BY <1>2, <1>11 DEF CallFits, RestFits, PollFits, Open
<1>15. SpoiltInv'
  <2>1. PICK j \in silent : j \in 1 .. Len(executed) /\ executed[j] = Question(r)
    BY <1>2, <1>8 DEF SpoiltInv
  <2>2. AnswerTo(j, r)' BY <1>2, <1>4, <2>1 DEF AnswerTo
  <2>3. \E i \in silent' : i \in 1 .. Len(executed') /\ executed'[i] = Question(r)'
    BY <1>1, <2>1, <2>2 DEF AnswerTo, Question
  <2>. QED BY <1>1, <1>2, <1>7, <1>9, <1>11, <2>3 DEF SpoiltInv, Open, Question
<1>. QED BY <1>11, <1>13, <1>14, <1>15 DEF LineInv

\* RR fetches the next piece of the answer, or polls a link that has nothing to send.
LEMMA CleanRr ==
  ASSUME CleanInv, NEW f, f = toServer, RequestRr(f)
  PROVE  LineInv' /\ WholeInv'
<1>. USE DEF CleanInv
<1>1. /\ f.kind = "RR" /\ Connected /\ toServer # NoFrame /\ toServer' = NoFrame
      /\ UNCHANGED <<client, toClient, executed, silent, answers, polls, faults>>
  BY DEF RequestRr, Receive, clientVars, NoFrame, Connected
<1>2. link \in Links BY DEF TypeInv, Sound
<1>3. /\ (Fetching \/ Polling) /\ Back = NoFrame /\ f = client.waits
  BY <1>1, Heard
<1>4. Open /\ ~Asking /\ ~(Fetching /\ Polling) /\ Good
  BY <1>1, <1>3 DEF Asking, Fetching, Polling, SpoiltInv, Good
<1>5. f = RR(client.vr) BY <1>3 DEF WaitInv, LineInv
<1>6. f.rrr = client.vr BY <1>5 DEF RR
<1>7. Numbered /\ link.recv = <<>> /\ Before(link.crrr, client.vr)
  BY <1>3, <1>4 DEF Agreed, LineInv
<1>. DEFINE l == [link EXCEPT !.crrr = f.rrr]
<1>8. /\ f.rrr # link.crrr /\ f.rrr \in {link.crrr, Succ(link.crrr)}
  BY <1>6, <1>7 DEF Before
<1>9. link' = Refresh(IF l.filled <= l.sent THEN EncodeRr(l) ELSE EncodeRest(l))
  BY <1>8 DEF RequestRr
<1>10. /\ l \in Links /\ l.crrr = client.vr /\ l.sss = link.sss /\ l.rrr = link.rrr
       /\ l.csss = link.csss /\ l.recv = link.recv /\ l.filled = link.filled
       /\ l.sent = link.sent /\ l.answer = link.answer
  <2>1. f.rrr \in SequenceNumbers BY <1>6 DEF TypeInv, Stations, SequenceNumbers
  <2>. QED BY <1>2, <1>6, <2>1 DEF Links
<1>. HIDE DEF l
<1>11. CASE Polling
  <2>1. SentAll /\ ~Fetching BY <1>1, <1>3, <1>4, <1>11 DEF Agreed, LineInv
  <2>2. link' = Refresh(EncodeRr(l)) BY <1>9, <1>10, <2>1 DEF SentAll
  <2>3. /\ link'.reply = RR(link.rrr) /\ link'.sss = link.sss /\ link'.rrr = link.rrr
        /\ link'.csss = link.csss /\ link'.recv = link.recv
        /\ link'.filled = link.filled /\ link'.sent = link.sent
    BY <1>10, <2>2 DEF Links, Refresh, EncodeRr
  <2>4. link'.reply # NoFrame BY <2>3 DEF RR, NoFrame
  <2>5. /\ OneFrame' /\ WaitInv' /\ Agreed' /\ WholeInv' /\ Back' = link'.reply
        /\ Open' = Open /\ Asking' = Asking /\ Fetching' = Fetching
    BY <1>1, <2>4, Replied, Unrun
  <2>6. PollFits' BY <1>1, <1>7, <2>1, <2>3, <2>5 DEF PollFits, Numbered, SentAll
  <2>7. CallFits' /\ RestFits' /\ PartFits'
    BY <1>4, <2>1, <2>5 DEF CallFits, RestFits, PartFits, Open
  <2>. QED BY <2>5, <2>6, <2>7 DEF LineInv
<1>12. CASE Fetching
  <2>. DEFINE left == l.filled - l.sent
              more == left > MaxLenTrans
              length == IF more THEN MaxLenTrans ELSE left
              sent == l.sent + length
  <2>1. MoreOf(client.got[1].answer, End(client.got)) /\ ~Polling
    BY <1>1, <1>3, <1>4, <1>12 DEF Agreed, LineInv
  <2>2. AnswerTo(client.got[1].answer, client.request) BY <1>12 DEF WaitInv, LineInv
  <2>3. l.sent \in Nat /\ l.filled = AnswerLength /\ l.sent < l.filled /\ AnswerLength \in Nat
        /\ MaxLenTrans \in Nat /\ l.sent = End(client.got) /\ l.answer = client.got[1].answer
    BY <1>2, <1>10, <2>1, HdlcAssumption DEF MoreOf, Links
  <2>4. ~(l.filled <= l.sent) BY <2>3
  <2>5. link' = Refresh([EncodeInfo(l, l.sent, length, 0, more) EXCEPT !.sent = sent])
    BY <1>9, <2>4 DEF EncodeRest
  <2>6. IF more THEN sent < l.filled ELSE sent = l.filled BY <2>3
  <2>. HIDE DEF more, length, sent
  <2>7. /\ link'.reply = [kind |-> "I", sss |-> l.sss, rrr |-> l.rrr, segment |-> more,
                          info |-> [answer |-> l.answer, from |-> l.sent, length |-> length]]
        /\ link'.sss = Succ(l.sss) /\ link'.rrr = l.rrr /\ link'.csss = l.csss
        /\ link'.crrr = l.crrr /\ link'.recv = l.recv /\ link'.answer = l.answer
        /\ link'.filled = l.filled /\ link'.sent = sent
    <3>1. Built(l, l.sent, length, more, l.filled, sent,
                Refresh([EncodeInfo(l, l.sent, length, 0, more) EXCEPT !.sent = sent]))
      BY <1>10, NextBuilt
    <3>. QED BY <2>5, <3>1 DEF Built
  <2>8. link'.reply # NoFrame BY <2>7 DEF NoFrame
  <2>9. /\ OneFrame' /\ WaitInv' /\ Agreed' /\ WholeInv' /\ Back' = link'.reply
        /\ Open' = Open /\ Asking' = Asking /\ Fetching' = Fetching /\ Polling' = Polling
        /\ \A a, r : AnswerTo(a, r) => AnswerTo(a, r)'
    BY <1>1, <2>8, Replied, Unrun
  <2>10. /\ more => \A a, to : a = l.answer /\ to = sent => MoreOf(a, to)'
         /\ ~more => SentAll' /\ sent = AnswerLength
    BY <2>3, <2>6, <2>7 DEF MoreOf, SentAll
  <2>11. link.sss = client.vr /\ link.rrr = client.vs /\ Before(link.csss, client.vs)
    BY <1>7 DEF Numbered
  <2>12. /\ Back'.kind = "I" /\ Back'.sss = client.vr /\ Back'.rrr = client.vs
         /\ Back'.segment = more /\ Back'.info.from = l.sent /\ Back'.info.answer = l.answer
         /\ Back'.info.length = length /\ Back'.info.from + Back'.info.length = sent
    BY <1>10, <2>7, <2>9, <2>11 DEF sent
  <2>13. Piece(Back, End(client.got))'
    BY <1>1, <1>7, <1>10, <2>2, <2>3, <2>7, <2>9, <2>10, <2>11, <2>12 DEF Piece
  <2>14. RestFits' BY <1>1, <2>3, <2>12, <2>13 DEF RestFits
  <2>15. CallFits' /\ PartFits' /\ PollFits'
    BY <1>4, <2>1, <2>9, <1>1 DEF CallFits, PartFits, PollFits, Open
  <2>. QED BY <2>9, <2>14, <2>15 DEF LineInv
<1>. QED BY <1>3, <1>11, <1>12

\* The client calls the meter: nothing is under way.
LEMMA CleanCall ==
  ASSUME CleanInv, NEW s \in {"calling", "leaving"},
         UNCHANGED <<link, executed, silent, answers, polls, faults>>,
         toClient' = NoFrame, link.reply = NoFrame,
         toServer' = Frame(IF s = "calling" THEN "SNRM" ELSE "DISC"),
         client' = [[client EXCEPT !.state = s] EXCEPT !.waits = toServer']
  PROVE  LineInv' /\ WholeInv'
<1>. USE DEF CleanInv
<1>1. client'.state = s /\ client'.waits = toServer' /\ client'.request = client.request
  BY DEF TypeInv, Stations
<1>2. Back' = NoFrame /\ toServer' # NoFrame BY DEF Back, Frame, NoFrame
<1>3. ~Open' /\ ~Asking' /\ ~Fetching' /\ ~Polling' /\ ~Idle'
  BY <1>1, <1>2 DEF Open, Asking, Fetching, Polling, Idle
<1>4. OneFrame' BY <1>1, <1>2, <1>3 DEF OneFrame
<1>5. WaitInv' BY <1>1, <1>3 DEF WaitInv, LineInv
<1>6. Agreed' /\ CallFits' /\ PartFits' /\ RestFits' /\ PollFits'
  BY <1>2, <1>3 DEF Agreed, CallFits, PartFits, RestFits, PollFits
<1>7. WholeInv' BY <1>1, <1>3 DEF WholeInv, RunsWhole, QuestionWhole, AnswerTo, Question
<1>. QED BY <1>4, <1>5, <1>6, <1>7 DEF LineInv

\* The client's station when it asks or polls.
LEMMA IdleOpen ==
  ASSUME CleanInv, Open, Idle
  PROVE  /\ Back = NoFrame /\ link.reply = NoFrame /\ toClient = NoFrame
         /\ client.got = <<>> /\ ~Asking /\ ~Fetching /\ ~Polling
         /\ Connected => Good
         /\ Connected => Numbered /\ link.recv = <<>> /\ SentAll
         /\ Connected /\ polls = 0 => Before(link.crrr, client.vr)
<1>. USE DEF CleanInv, LineInv
<1>1. Back = NoFrame BY DEF OneFrame
<1>2. link.reply = NoFrame /\ toClient = NoFrame BY <1>1 DEF Back
<1>3. client.waits.kind = "none" BY DEF Idle, NoFrame
<1>4. ~Asking /\ ~Fetching /\ ~Polling BY <1>3 DEF Asking, Fetching, Polling
<1>5. client.got = <<>> BY <1>4 DEF WaitInv
<1>6. Connected => Good BY <1>4 DEF SpoiltInv, Good
<1>7. Connected => /\ Numbered /\ link.recv = <<>> /\ SentAll
                   /\ polls = 0 => Before(link.crrr, client.vr)
  BY <1>1, <1>4, <1>6 DEF Agreed
<1>. QED BY <1>1, <1>2, <1>4, <1>5, <1>6, <1>7

\* The client asks the next question.
LEMMA CleanAsk ==
  ASSUME CleanInv, Ask
  PROVE  LineInv' /\ WholeInv'
<1>. USE DEF CleanInv
<1>. DEFINE r == client.request + 1
            f == Part(r, 1, client.vs, client.vr)
<1>1. /\ Open /\ Idle /\ client.request < Requests
      /\ toServer' = f /\ client' = [[client EXCEPT !.request = r, !.got = <<>>] EXCEPT !.waits = f]
      /\ UNCHANGED <<link, executed, silent, unanswered, toClient, answers, polls, faults>>
  BY DEF Ask, Send, serverVars, Open
<1>2. /\ Back = NoFrame /\ toClient = NoFrame /\ link.reply = NoFrame
      /\ Connected => Numbered /\ link.recv = <<>> /\ SentAll
  BY <1>1, IdleOpen
<1>3. r \in 1 .. Requests /\ client.request \in Nat /\ client.request < r
  <2>1. client.request \in 0 .. Requests BY DEF WaitInv, LineInv
  <2>. QED BY <1>1, <2>1, Lengths
<1>4. /\ f.kind = "I" /\ f.info = <<r, 1>> BY DEF Part
<1>5. f # NoFrame BY <1>4 DEF NoFrame
<1>. HIDE DEF r, f
<1>6. /\ client'.state = "open" /\ client'.request = r /\ client'.got = <<>> /\ client'.waits = f
      /\ client'.vs = client.vs /\ client'.vr = client.vr
  BY <1>1 DEF TypeInv, Stations, Open
<1>7. Open' /\ Asking' /\ ~Fetching' /\ ~Polling' /\ ~Idle' /\ AskedPart' = 1
  BY <1>4, <1>5, <1>6 DEF Open, Asking, Fetching, Polling, Idle, AskedPart
<1>8. Back' = NoFrame BY <1>1, <1>2 DEF Back
<1>9. OneFrame' BY <1>1, <1>2, <1>5, <1>6, <1>7, <1>8 DEF OneFrame
<1>10. WaitInv'
  <2>1. 1 \in 1 .. RequestParts[r] BY <1>3, HdlcAssumption
  <2>2. client'.waits = Part(client'.request, 1, client'.vs, client'.vr) BY <1>6 DEF f
  <2>. QED BY <1>1, <1>3, <1>6, <1>7, <2>1, <2>2 DEF WaitInv, LineInv
<1>11. Agreed'
  <2>1. Connected' => Connected BY <1>1 DEF Connected
  <2>2. Connected' => Numbered' BY <1>1, <1>2, <1>6, <2>1 DEF Numbered
  <2>3. Connected' => SentAll' BY <1>1, <1>2, <2>1 DEF SentAll
  <2>4. Connected' => PartsOf(link.recv, client.request, AskedPart - 1)'
    <3>1. 1 - 1 = 0 /\ \A j : j \notin 1 .. 0 OBVIOUS
    <3>. QED BY <1>1, <1>2, <1>7, <2>1, <3>1 DEF PartsOf
  <2>. QED BY <1>7, <2>2, <2>3, <2>4 DEF Agreed, Good
<1>12. CallFits' /\ PartFits' /\ RestFits' /\ PollFits'
  BY <1>8 DEF CallFits, PartFits, RestFits, PollFits
<1>13. WholeInv'
  <2>1. \A i \in 1 .. Len(answers) : answers[i].request \in 1 .. client.request BY DEF WholeInv
  <2>2. \A i \in 1 .. Len(answers) : answers[i].request \in 1 .. r /\ answers[i].request < r
    BY <1>3, <2>1
  <2>. QED BY <1>1, <1>6, <2>2 DEF WholeInv, RunsWhole, QuestionWhole, AnswerTo, Question
<1>. QED BY <1>9, <1>10, <1>11, <1>12, <1>13 DEF LineInv

\* The one poll that the bound allows finds the numbers as the answer left them.
LEMMA CleanPoll ==
  ASSUME Clean, CleanInv, Poll
  PROVE  LineInv' /\ WholeInv'
<1>. USE DEF CleanInv
<1>. DEFINE f == RR(client.vr)
<1>1. /\ Open /\ Idle /\ polls < MaxPolls /\ polls' = polls + 1
      /\ toServer' = f /\ client' = [client EXCEPT !.waits = f]
      /\ UNCHANGED <<link, executed, silent, unanswered, toClient, answers, faults>>
  BY DEF Poll, Send, serverVars, Open
<1>2. polls = 0 /\ polls' = 1
  <2>1. polls \in 0 .. 1 /\ MaxPolls <= 1 /\ MaxPolls \in Nat
    BY HdlcAssumption DEF Clean, WaitInv, LineInv
  <2>. QED BY <1>1, <2>1
<1>3. /\ Back = NoFrame /\ toClient = NoFrame /\ link.reply = NoFrame /\ client.got = <<>>
      /\ Connected => /\ Numbered /\ link.recv = <<>> /\ SentAll
                      /\ Before(link.crrr, client.vr)
  BY <1>1, <1>2, IdleOpen
<1>4. f.kind = "RR" /\ f # NoFrame BY DEF RR, NoFrame
<1>. HIDE DEF f
<1>5. /\ client'.state = "open" /\ client'.request = client.request /\ client'.got = <<>>
      /\ client'.waits = f /\ client'.vs = client.vs /\ client'.vr = client.vr
  BY <1>1, <1>3 DEF TypeInv, Stations, Open
<1>6. Open' /\ ~Asking' /\ ~Fetching' /\ Polling' /\ ~Idle'
  BY <1>4, <1>5 DEF Open, Asking, Fetching, Polling, Idle
<1>7. Back' = NoFrame BY <1>1, <1>3 DEF Back
<1>8. OneFrame' BY <1>1, <1>3, <1>4, <1>5, <1>6, <1>7 DEF OneFrame
<1>9. WaitInv' BY <1>1, <1>2, <1>5, <1>6 DEF WaitInv, LineInv, f
<1>10. Agreed'
  <2>1. Connected' => Connected BY <1>1 DEF Connected
  <2>2. Connected' => Numbered' /\ SentAll' BY <1>1, <1>3, <1>5, <2>1 DEF Numbered, SentAll
  <2>. QED BY <1>1, <1>3, <1>5, <1>6, <2>1, <2>2 DEF Agreed, Good
<1>11. CallFits' /\ PartFits' /\ RestFits' /\ PollFits'
  BY <1>7 DEF CallFits, PartFits, RestFits, PollFits
<1>12. WholeInv' BY <1>1, <1>5, <1>6 DEF WholeInv, RunsWhole, QuestionWhole, AnswerTo, Question
<1>. QED BY <1>8, <1>9, <1>10, <1>11, <1>12 DEF LineInv

\* The client repeats itself only when the link is gone, or has left a question of it
\* unanswered.
LEMMA CleanResend ==
  ASSUME CleanInv, Resend
  PROVE  LineInv' /\ WholeInv'
<1>. USE DEF CleanInv
<1>1. /\ ~Idle /\ toServer = NoFrame /\ toClient = NoFrame /\ link.reply = NoFrame
      /\ toServer' = client.waits /\ client' = [client EXCEPT !.waits = client.waits]
      /\ UNCHANGED <<link, executed, silent, unanswered, toClient, answers, polls, faults>>
  BY DEF Resend, Silence, Send, serverVars
<1>2. client' = client BY <1>1 DEF TypeInv, Stations
<1>3. Back = NoFrame /\ Back' = NoFrame BY <1>1 DEF Back
<1>4. ~Good' /\ (Connected' => Connected)
  BY <1>1, <1>3 DEF OneFrame, LineInv, Connected, Good
<1>. QED BY <1>1, <1>2, <1>3, <1>4, Gone

\* Every reply is the one the client waits for, or the late answer to a question left
\* unanswered, which has a number that the client has had before.
LEMMA BackAwaited ==
  ASSUME CleanInv, toClient # NoFrame
  PROVE  /\ Awaited(toClient) \/ (Asking /\ ~Good)
         /\ Awaited(toClient) /\ toClient.kind = "I" => toClient.sss = client.vr
         /\ Back = toClient /\ link.reply = NoFrame /\ toServer = NoFrame
         /\ client.state \in {"calling", "leaving"} => toClient = Frame("UA")
         /\ Open => toClient.kind # "UA" /\ (Asking \/ Fetching \/ Polling)
         /\ client.state \in {"calling", "leaving"} \/ Open
<1>. USE DEF CleanInv, LineInv
<1>1. link.reply = NoFrame /\ Back = toClient BY DEF OneFrame, Back
<1>2. toServer = NoFrame /\ ~Idle BY <1>1 DEF OneFrame
<1>8. Awaited(toClient) /\ toClient.kind = "I" => toClient.sss = client.vr BY DEF Awaited
<1>3. Frame("UA").kind = "UA" /\ Frame("FRMR").kind = "FRMR" /\ \A n : RR(n).kind = "RR" /\ RR(n).rrr = n
  BY DEF Frame, RR
<1>4. client.state \in {"closed", "calling", "open", "leaving"} BY DEF TypeInv, Stations
<1>5. client.state # "closed" BY <1>2 DEF WaitInv
<1>6. CASE client.state \in {"calling", "leaving"}
  <2>1. toClient = Frame("UA") BY <1>1, <1>6 DEF CallFits
  <2>. QED BY <1>1, <1>2, <1>3, <1>6, <2>1 DEF Awaited, Open
<1>7. CASE Open
  <2>1. Asking \/ Fetching \/ Polling BY <1>2, <1>7 DEF WaitInv
  <2>2. client.state = "open" BY <1>7 DEF Open
  <2>3. CASE Asking
    <3>1. client.waits.kind = "I" BY <2>3 DEF Asking
    <3>2. \/ toClient = Frame("FRMR")
          \/ client.waits.segment /\ toClient = RR(Succ(client.vs))
          \/ ~Good /\ toClient.kind = "I"
          \/ /\ ~client.waits.segment /\ toClient.rrr = Succ(client.vs)
             /\ toClient.kind = "I" /\ toClient.sss = client.vr
      BY <1>1, <2>3 DEF PartFits, Piece
    <3>3. CASE ~Good /\ toClient.kind = "I"
      BY <1>1, <1>2, <1>8, <2>1, <2>2, <2>3, <3>3 DEF Open
    <3>4. CASE toClient = Frame("FRMR")
      BY <1>1, <1>2, <1>3, <1>8, <2>1, <2>2, <3>4 DEF Awaited, Open
    <3>5. CASE client.waits.segment /\ toClient = RR(Succ(client.vs))
      BY <1>1, <1>2, <1>3, <1>8, <2>1, <2>2, <3>1, <3>5 DEF Awaited, Open
    <3>6. CASE /\ ~client.waits.segment /\ toClient.rrr = Succ(client.vs)
               /\ toClient.kind = "I" /\ toClient.sss = client.vr
      BY <1>1, <1>2, <1>8, <2>1, <2>2, <3>1, <3>6 DEF Awaited, Open
    <3>. QED BY <3>2, <3>3, <3>4, <3>5, <3>6
  <2>4. CASE Fetching
    <3>1. client.waits.kind = "RR" BY <2>4 DEF Fetching
    <3>2. toClient.kind = "I" /\ toClient.sss = client.vr /\ toClient.rrr = client.vs
      BY <1>1, <2>4 DEF RestFits, Piece
    <3>. QED BY <1>1, <1>2, <2>1, <2>2, <3>1, <3>2 DEF Awaited, Open
  <2>5. CASE Polling
    <3>1. client.waits.kind = "RR" BY <2>5 DEF Polling
    <3>2. toClient = RR(client.vs) BY <1>1, <2>5 DEF PollFits
    <3>. QED BY <1>1, <1>2, <1>3, <2>1, <2>2, <3>1, <3>2 DEF Awaited, Open
  <2>. QED BY <2>1, <2>3, <2>4, <2>5
<1>. QED BY <1>4, <1>5, <1>6, <1>7, <1>8 DEF Open

\* UA opens the client's end, or closes it.
LEMMA CleanTakeUa ==
  ASSUME CleanInv, Take, toClient.kind = "UA"
  PROVE  LineInv' /\ WholeInv'
<1>. USE DEF CleanInv
<1>1. /\ toClient # NoFrame /\ toClient' = NoFrame /\ TakeUa
      /\ UNCHANGED <<link, executed, silent, unanswered, polls, faults>>
  BY DEF Take, serverVars
<1>2. /\ Back = toClient /\ link.reply = NoFrame /\ toServer = NoFrame
      /\ client.state \in {"calling", "leaving"}
  BY <1>1, BackAwaited
<1>3. Back' = NoFrame BY <1>1, <1>2 DEF Back
<1>4. NoFrame.kind = "none" BY DEF NoFrame
<1>5. CASE client.state = "calling"
  <2>1. /\ UNCHANGED <<toServer, answers>>
        /\ client' = [[client EXCEPT !.state = "open", !.vs = 0, !.vr = 0, !.got = <<>>]
                        EXCEPT !.waits = NoFrame]
    BY <1>1, <1>5 DEF TakeUa, Rest
  <2>2. /\ client'.state = "open" /\ client'.vs = 0 /\ client'.vr = 0 /\ client'.got = <<>>
        /\ client'.waits = NoFrame /\ client'.request = client.request
    BY <2>1 DEF TypeInv, Stations
  <2>3. Open' /\ Idle' /\ ~Asking' /\ ~Fetching' /\ ~Polling'
    BY <1>4, <2>2 DEF Open, Idle, Asking, Fetching, Polling
  <2>4. Good => /\ link.sss = 0 /\ link.rrr = 0 /\ link.csss = Unknown
                /\ link.crrr = Unknown /\ link.recv = <<>> /\ SentAll
    BY <1>1, <1>2, <1>5 DEF CallFits, LineInv
  <2>5. Before(Unknown, 0) BY Wrap DEF Before, Unknown
  <2>6. OneFrame' BY <1>1, <1>2, <1>3, <2>1, <2>2, <2>3 DEF OneFrame
  <2>7. WaitInv' BY <1>1, <2>2, <2>3 DEF WaitInv, LineInv
  <2>8. Agreed'
    <3>1. Good' => Good BY <1>1 DEF Connected, Good
    <3>2. Good' => Numbered' /\ SentAll' BY <1>1, <2>2, <2>4, <2>5, <3>1 DEF Numbered, SentAll, Before
    <3>. QED BY <1>1, <2>2, <2>3, <2>4, <2>5, <3>1, <3>2 DEF Agreed, Before, Good
  <2>9. CallFits' /\ PartFits' /\ RestFits' /\ PollFits'
    BY <1>3 DEF CallFits, PartFits, RestFits, PollFits
  <2>10. WholeInv' BY <1>1, <2>1, <2>2, <2>3 DEF WholeInv, RunsWhole, QuestionWhole, AnswerTo, Question
  <2>. QED BY <2>6, <2>7, <2>8, <2>9, <2>10 DEF LineInv
<1>6. CASE client.state = "leaving"
  <2>1. /\ UNCHANGED <<toServer, answers>>
        /\ client' = [[client EXCEPT !.state = "closed"] EXCEPT !.waits = NoFrame]
    BY <1>1, <1>6 DEF TakeUa, Rest
  <2>2. client'.state = "closed" /\ client'.waits = NoFrame /\ client'.request = client.request
    BY <2>1 DEF TypeInv, Stations
  <2>3. ~Open' /\ Idle' /\ ~Asking' /\ ~Fetching' /\ ~Polling'
    BY <1>4, <2>2 DEF Open, Idle, Asking, Fetching, Polling
  <2>4. OneFrame' BY <1>1, <1>2, <1>3, <2>1, <2>2, <2>3 DEF OneFrame
  <2>5. WaitInv' BY <1>1, <2>2, <2>3 DEF WaitInv, LineInv
  <2>6. Agreed' /\ CallFits' /\ PartFits' /\ RestFits' /\ PollFits'
    BY <1>3, <2>3 DEF Agreed, CallFits, PartFits, RestFits, PollFits
  <2>7. WholeInv' BY <1>1, <2>1, <2>2, <2>3 DEF WholeInv, RunsWhole, QuestionWhole, AnswerTo, Question
  <2>. QED BY <2>4, <2>5, <2>6, <2>7 DEF LineInv
<1>. QED BY <1>2, <1>5, <1>6

\* A refusal closes the client's end.
LEMMA CleanTakeFrmr ==
  ASSUME CleanInv, Take, toClient.kind = "FRMR"
  PROVE  LineInv' /\ WholeInv'
<1>. USE DEF CleanInv
<1>1. /\ toClient # NoFrame /\ toClient' = NoFrame /\ TakeFrmr
      /\ UNCHANGED <<link, executed, silent, unanswered, polls, faults>>
  BY DEF Take, serverVars
<1>2. link.reply = NoFrame /\ toServer = NoFrame BY <1>1, BackAwaited
<1>3. Back' = NoFrame BY <1>1, <1>2 DEF Back
<1>4. NoFrame.kind = "none" BY DEF NoFrame
<1>5. /\ UNCHANGED <<toServer, answers>>
      /\ client' = [[client EXCEPT !.state = "closed"] EXCEPT !.waits = NoFrame]
  BY <1>1 DEF TakeFrmr, Rest
<1>6. client'.state = "closed" /\ client'.waits = NoFrame /\ client'.request = client.request
  BY <1>5 DEF TypeInv, Stations
<1>7. ~Open' /\ Idle' /\ ~Asking' /\ ~Fetching' /\ ~Polling'
  BY <1>4, <1>6 DEF Open, Idle, Asking, Fetching, Polling
<1>8. OneFrame' BY <1>1, <1>2, <1>3, <1>5, <1>6, <1>7 DEF OneFrame
<1>9. WaitInv' BY <1>1, <1>6, <1>7 DEF WaitInv, LineInv
<1>10. Agreed' /\ CallFits' /\ PartFits' /\ RestFits' /\ PollFits'
  BY <1>3, <1>7 DEF Agreed, CallFits, PartFits, RestFits, PollFits
<1>11. WholeInv' BY <1>1, <1>5, <1>6, <1>7 DEF WholeInv, RunsWhole, QuestionWhole, AnswerTo, Question
<1>. QED BY <1>8, <1>9, <1>10, <1>11 DEF LineInv

\* A part is acknowledged and the next one goes out, or a poll is answered.
LEMMA CleanTakeRr ==
  ASSUME CleanInv, Take, toClient.kind = "RR"
  PROVE  LineInv' /\ WholeInv'
<1>. USE DEF CleanInv
<1>1. /\ toClient # NoFrame /\ toClient' = NoFrame /\ TakeRr
      /\ UNCHANGED <<link, executed, silent, unanswered, polls, faults>>
  BY DEF Take, serverVars
<1>2. Frame("UA").kind = "UA" /\ Frame("FRMR").kind = "FRMR" /\ NoFrame.kind = "none"
  BY DEF Frame, NoFrame
<1>3. /\ Back = toClient /\ link.reply = NoFrame /\ toServer = NoFrame
      /\ Open /\ (Asking \/ Fetching \/ Polling)
  BY <1>1, <1>2, BackAwaited
<1>4. ~Fetching BY <1>1, <1>3 DEF RestFits, Piece, LineInv
<1>5. Back' = NoFrame BY <1>1, <1>3 DEF Back
<1>6. CallFits' /\ PartFits' /\ RestFits' /\ PollFits'
  BY <1>5 DEF CallFits, PartFits, RestFits, PollFits
<1>7. Good' => Good BY <1>1 DEF Connected, Good
<1>8. CASE Asking
  <2>. DEFINE vs == Succ(client.vs)
              i == AskedPart + 1
              f == Part(client.request, i, vs, client.vr)
  <2>1. client.waits.kind = "I" BY <1>8 DEF Asking
  <2>2. /\ toServer' = f /\ client' = [[client EXCEPT !.vs = vs] EXCEPT !.waits = f]
        /\ UNCHANGED answers
    BY <1>1, <2>1 DEF TakeRr, Send, AskedPart
  <2>3. /\ client.waits.segment
        /\ Good => /\ link.sss = client.vr /\ link.rrr = vs
                   /\ link.csss = client.vs /\ SentAll
                   /\ PartsOf(link.recv, client.request, AskedPart)
    BY <1>1, <1>2, <1>3, <1>8 DEF PartFits, Piece, LineInv
  <2>4. /\ client.request \in 1 .. Requests /\ client.got = <<>>
        /\ AskedPart \in 1 .. RequestParts[client.request]
        /\ client.waits = Part(client.request, AskedPart, client.vs, client.vr)
    BY <1>8 DEF WaitInv, LineInv
  <2>5. AskedPart < RequestParts[client.request]
    <3>1. client.waits.segment = (AskedPart < RequestParts[client.request]) BY <2>4 DEF Part
    <3>. QED BY <2>3, <3>1
  <2>6. i \in 1 .. RequestParts[client.request] /\ i - 1 = AskedPart
    <3>1. RequestParts[client.request] \in Nat BY <2>4, HdlcAssumption
    <3>. QED BY <2>4, <2>5, <3>1
  <2>7. Before(client.vs, vs)
    <3>1. client.vs \in Numbers BY DEF TypeInv, Stations
    <3>. QED BY <3>1, Neighbours DEF Before
  <2>8. f.kind = "I" /\ f.info = <<client.request, i>> /\ f # NoFrame BY <1>2 DEF Part
  <2>. HIDE DEF f, i, vs
  <2>9. /\ client'.state = "open" /\ client'.vs = vs /\ client'.vr = client.vr
        /\ client'.got = <<>> /\ client'.waits = f /\ client'.request = client.request
    BY <1>3, <2>2, <2>4 DEF TypeInv, Stations, Open
  <2>10. Open' /\ Asking' /\ ~Fetching' /\ ~Polling' /\ ~Idle' /\ AskedPart' = i
    BY <2>8, <2>9 DEF Open, Idle, Asking, Fetching, Polling, AskedPart
  <2>11. OneFrame' BY <1>1, <1>3, <1>5, <2>2, <2>8, <2>9, <2>10 DEF OneFrame
  <2>12. WaitInv'
    <3>1. client'.waits = Part(client'.request, i, client'.vs, client'.vr) BY <2>9 DEF f
    <3>. QED BY <1>1, <2>4, <2>6, <2>9, <2>10, <3>1 DEF WaitInv, LineInv
  <2>13. Agreed'
    <3>1. Good' => Numbered' /\ SentAll'
      BY <1>1, <1>7, <2>3, <2>7, <2>9 DEF Numbered, SentAll
    <3>2. Good' => PartsOf(link.recv, client.request, AskedPart - 1)'
      BY <1>1, <1>7, <2>3, <2>6, <2>9, <2>10 DEF PartsOf
    <3>. QED BY <2>10, <3>1, <3>2 DEF Agreed, Good
  <2>14. WholeInv' BY <1>1, <1>8, <2>2, <2>9, <2>10 DEF WholeInv, RunsWhole, QuestionWhole, AnswerTo, Question
  <2>. QED BY <1>6, <2>11, <2>12, <2>13, <2>14 DEF LineInv
<1>9. CASE Polling
  <2>1. client.waits.kind = "RR" /\ client.got = <<>> BY <1>9 DEF Polling
  <2>2. UNCHANGED <<toServer, answers>> /\ client' = [client EXCEPT !.waits = NoFrame]
    BY <1>1, <2>1 DEF TakeRr, Rest
  <2>3. polls = 1 /\ (Good => Numbered /\ link.recv = <<>> /\ SentAll)
    BY <1>1, <1>3, <1>9 DEF WaitInv, PollFits, LineInv
  <2>4. /\ client'.state = "open" /\ client'.vs = client.vs /\ client'.vr = client.vr
        /\ client'.got = <<>> /\ client'.waits = NoFrame /\ client'.request = client.request
    BY <1>3, <2>1, <2>2 DEF TypeInv, Stations, Open
  <2>5. Open' /\ Idle' /\ ~Asking' /\ ~Fetching' /\ ~Polling'
    BY <1>2, <2>4 DEF Open, Idle, Asking, Fetching, Polling
  <2>6. OneFrame' BY <1>1, <1>3, <1>5, <2>2, <2>4, <2>5 DEF OneFrame
  <2>7. WaitInv' BY <1>1, <2>4, <2>5 DEF WaitInv, LineInv
  <2>8. Agreed'
    <3>1. Good' => Numbered' /\ SentAll'
      BY <1>1, <1>7, <2>3, <2>4 DEF Numbered, SentAll
    <3>2. polls' = 1 BY <1>1, <2>3
    <3>. QED BY <1>1, <1>7, <2>3, <2>5, <3>1, <3>2 DEF Agreed, Good
  <2>9. WholeInv' BY <1>1, <2>2, <2>4, <2>5 DEF WholeInv, RunsWhole, QuestionWhole, AnswerTo, Question
  <2>. QED BY <1>6, <2>6, <2>7, <2>8, <2>9 DEF LineInv
<1>. QED BY <1>3, <1>4, <1>8, <1>9

\* One piece more.
LEMMA PieceAdded ==
  ASSUME NEW got \in Seq(Pieces), NEW p \in Pieces,
         \/ got = <<>> /\ p.from = 0
         \/ Joined(got) /\ p.from = End(got) /\ p.answer = got[1].answer
  PROVE  LET more == Append(got, p)
         IN /\ Joined(more) /\ End(more) = p.from + p.length
            /\ more[1].answer = p.answer /\ more # <<>>
<1>. DEFINE more == Append(got, p)
            n == Len(got)
<1>1. /\ more \in Seq(Pieces) /\ n \in Nat /\ Len(more) = n + 1 /\ more[n + 1] = p
      /\ \A k \in 1 .. n : more[k] = got[k]
  OBVIOUS
<1>. HIDE DEF more
<1>2. End(more) = p.from + p.length /\ more # <<>> BY <1>1 DEF End
<1>3. CASE got = <<>> /\ p.from = 0
  <2>1. n = 0 /\ more[1] = p BY <1>1, <1>3
  <2>2. \A k \in 1 .. Len(more) : k = 1 BY <1>1, <2>1
  <2>3. \A k : k \notin 2 .. Len(more) BY <1>1, <2>1
  <2>. QED BY <1>2, <1>3, <2>1, <2>2, <2>3 DEF Joined, more
<1>4. CASE got # <<>> /\ Joined(got) /\ p.from = End(got) /\ p.answer = got[1].answer
  <2>. HIDE DEF n
  <2>1. n > 0 BY <1>1, <1>4 DEF n
  <2>2. more[1] = got[1] BY <1>1, <2>1
  <2>3. /\ got[1].from = 0 /\ p.from = got[n].from + got[n].length
        /\ \A k \in 1 .. n : got[k].answer = got[1].answer
        /\ \A k \in 2 .. n : got[k].from = got[k - 1].from + got[k - 1].length
    BY <1>4 DEF Joined, End, n
  <2>4. \A k \in 1 .. n + 1 : more[k].answer = more[1].answer
    <3>1. \A k \in 1 .. n + 1 : k \in 1 .. n \/ k = n + 1 BY <1>1
    <3>. QED BY <1>1, <1>4, <2>2, <2>3, <3>1
  <2>5. \A k \in 2 .. n + 1 : more[k].from = more[k - 1].from + more[k - 1].length
    <3>. SUFFICES ASSUME NEW k \in 2 .. n + 1
         PROVE  more[k].from = more[k - 1].from + more[k - 1].length
      OBVIOUS
    <3>1. k - 1 \in 1 .. n BY <1>1
    <3>2. CASE k \in 2 .. n
      <4>1. k \in 1 .. n BY <3>2
      <4>. QED BY <1>1, <2>3, <3>1, <3>2, <4>1
    <3>3. CASE k = n + 1
      <4>1. k - 1 = n BY <1>1, <3>3
      <4>. QED BY <1>1, <2>3, <3>1, <3>3, <4>1
    <3>. QED BY <1>1, <3>2, <3>3
  <2>6. Joined(more) BY <1>1, <1>2, <2>2, <2>3, <2>4, <2>5 DEF Joined
  <2>. QED BY <1>2, <1>4, <2>2, <2>6 DEF more
<1>5. Joined(got) => got # <<>> BY DEF Joined
<1>. QED BY <1>3, <1>4, <1>5

\* One more frame of the answer, which the client asks for more of or has whole.
LEMMA CleanTakeInfo ==
  ASSUME CleanInv, Take, toClient.kind = "I"
  PROVE  /\ LineInv' /\ WholeInv'
         /\ UNCHANGED executed /\ client'.request = client.request
         /\ client.request \in 1 .. Requests /\ (Asking \/ Fetching)
         /\ \/ answers' = answers
            \/ \E a \in Whole : /\ answers' = Append(answers, a)
                               /\ AnswerTo(a.got[1].answer, client.request)
<1>. USE DEF CleanInv
<1>. DEFINE f == toClient
            vr == Succ(client.vr)
            got == Append(client.got, f.info)
            from == IF Asking THEN 0 ELSE End(client.got)
<1>1. /\ f # NoFrame /\ toClient' = NoFrame /\ TakeInfo(f)
      /\ UNCHANGED <<link, executed, silent, unanswered, polls, faults>>
  BY DEF Take, serverVars
<1>2. NoFrame.kind = "none" /\ Frame("UA").kind = "UA" /\ Frame("FRMR").kind = "FRMR"
      /\ \A n : RR(n).kind = "RR"
  BY DEF NoFrame, Frame, RR
<1>3. /\ Back = f /\ link.reply = NoFrame /\ toServer = NoFrame
      /\ Open /\ (Asking \/ Fetching \/ Polling) /\ f.sss = client.vr
  BY <1>1, <1>2, BackAwaited DEF Take
<1>4. ~Polling /\ ~(Asking /\ Fetching) BY <1>1, <1>2, <1>3 DEF PollFits, LineInv, Asking, Fetching
<1>5. Back' = NoFrame BY <1>1, <1>3 DEF Back
<1>6. CallFits' /\ PartFits' /\ RestFits' /\ PollFits'
  BY <1>5 DEF CallFits, PartFits, RestFits, PollFits
<1>7. Good' => Good BY <1>1 DEF Connected, Good
<1>8. f.info \in Pieces /\ client.got \in Seq(Pieces) /\ client.vr \in Numbers
  BY <1>2 DEF TypeInv, ToStation, Plain, Stations
<1>9. /\ Piece(f, from) /\ client.request \in 1 .. Requests
      /\ f.rrr = IF client.waits.kind = "I" THEN Succ(client.vs) ELSE client.vs
      /\ \/ client.got = <<>> /\ from = 0
         \/ Joined(client.got) /\ from = End(client.got)
              /\ f.info.answer = client.got[1].answer
  <2>1. CASE Asking
    <3>1. Piece(f, 0) /\ f.rrr = Succ(client.vs)
      BY <1>1, <1>2, <1>3, <2>1 DEF PartFits, LineInv
    <3>. QED BY <2>1, <3>1 DEF WaitInv, LineInv, Asking
  <2>2. CASE Fetching
    <3>1. Piece(f, End(client.got)) /\ f.rrr = client.vs /\ f.info.answer = client.got[1].answer
      BY <1>1, <1>3, <2>2 DEF RestFits, LineInv
    <3>2. ~Asking /\ client.waits.kind = "RR" BY <1>4, <2>2 DEF Fetching
    <3>. QED BY <2>2, <3>1, <3>2 DEF WaitInv, LineInv
  <2>. QED BY <1>3, <1>4, <2>1, <2>2
<1>10. IF f.segment
         THEN /\ toServer' = RR(vr) /\ UNCHANGED answers
              /\ client' = [[client EXCEPT !.vr = vr, !.got = got, !.vs = f.rrr] EXCEPT !.waits = RR(vr)]
         ELSE /\ UNCHANGED toServer
              /\ answers' = Append(answers, [request |-> client.request, got |-> got])
              /\ client' = [[[client EXCEPT !.vr = vr, !.got = got, !.vs = f.rrr] EXCEPT !.got = <<>>]
                              EXCEPT !.waits = NoFrame]
  BY <1>1, <1>9 DEF TakeInfo, Send, Rest
<1>. HIDE DEF from
<1>11. /\ f.info.from = from /\ AnswerTo(f.info.answer, client.request)
       /\ ~f.segment => f.info.from + f.info.length = AnswerLength
       /\ Good =>
            /\ link.sss = vr /\ link.rrr = f.rrr /\ Before(link.csss, f.rrr)
            /\ link.recv = <<>> /\ link.crrr = client.vr
            /\ f.segment => MoreOf(f.info.answer, f.info.from + f.info.length)
            /\ ~f.segment => SentAll
  BY <1>9 DEF Piece
<1>12. /\ Joined(got) /\ End(got) = f.info.from + f.info.length
       /\ got[1].answer = f.info.answer /\ got # <<>>
  BY <1>8, <1>9, <1>11, PieceAdded
<1>13. got \in Seq(Pieces) BY <1>8
<1>14. Before(client.vr, vr) BY <1>8, Neighbours DEF Before
<1>15. RunsWhole' /\ \A a, r : AnswerTo(a, r)' <=> AnswerTo(a, r)
  <2>1. RunsWhole' BY <1>1 DEF WholeInv, RunsWhole, QuestionWhole, Question
  <2>2. \A a, r : AnswerTo(a, r)' <=> AnswerTo(a, r) BY <1>1 DEF AnswerTo, Question
  <2>. QED BY <2>1, <2>2
<1>. HIDE DEF got, vr
<1>16. CASE f.segment
  <2>1. /\ client'.state = "open" /\ client'.vs = f.rrr /\ client'.vr = vr
        /\ client'.got = got /\ client'.waits = RR(vr) /\ client'.request = client.request
    BY <1>3, <1>10, <1>16 DEF TypeInv, Stations, Open
  <2>2. Open' /\ ~Asking' /\ Fetching' /\ ~Polling' /\ ~Idle'
    BY <1>2, <1>12, <2>1 DEF Open, Idle, Asking, Fetching, Polling
  <2>3. OneFrame' BY <1>1, <1>2, <1>5, <1>10, <1>16, <2>1, <2>2 DEF OneFrame
  <2>4. WaitInv'
    <3>1. Joined(client'.got) /\ client'.got[1].answer = f.info.answer BY <1>12, <2>1
    <3>2. AnswerTo(client.got[1].answer, client.request)' BY <1>11, <1>15, <2>1, <3>1
    <3>. QED BY <1>1, <1>9, <2>1, <2>2, <3>1, <3>2 DEF WaitInv, LineInv
  <2>5. Agreed'
    <3>1. Good' => Numbered' BY <1>1, <1>7, <1>11, <2>1 DEF Numbered
    <3>2. Good' => MoreOf(client.got[1].answer, End(client.got))'
      BY <1>1, <1>7, <1>11, <1>12, <1>16, <2>1 DEF MoreOf
    <3>3. Good' => link'.recv = <<>> /\ Before(link'.crrr, client'.vr)
      BY <1>1, <1>7, <1>11, <1>14, <2>1
    <3>. QED BY <2>2, <3>1, <3>2, <3>3 DEF Agreed, Good
  <2>6. WholeInv'
    <3>1. \A i \in 1 .. Len(answers) : answers[i].request < client.request
      BY <1>3, <1>4 DEF WholeInv
    <3>. QED BY <1>10, <1>15, <1>16, <2>1, <3>1 DEF WholeInv
  <2>. QED BY <1>1, <1>3, <1>4, <1>6, <1>9, <1>10, <1>16, <2>1, <2>3, <2>4, <2>5, <2>6 DEF LineInv
<1>17. CASE ~f.segment
  <2>. DEFINE a == [request |-> client.request, got |-> got]
  <2>1. /\ client'.state = "open" /\ client'.vs = f.rrr /\ client'.vr = vr
        /\ client'.got = <<>> /\ client'.waits = NoFrame /\ client'.request = client.request
    BY <1>3, <1>10, <1>17 DEF TypeInv, Stations, Open
  <2>2. Open' /\ ~Asking' /\ ~Fetching' /\ ~Polling' /\ Idle'
    BY <1>2, <2>1 DEF Open, Idle, Asking, Fetching, Polling
  <2>3. OneFrame' BY <1>1, <1>3, <1>5, <1>10, <1>17, <2>1, <2>2 DEF OneFrame
  <2>4. WaitInv' BY <1>1, <2>1, <2>2 DEF WaitInv, LineInv
  <2>5. Agreed'
    <3>1. Good' => Numbered' /\ SentAll'
      BY <1>1, <1>7, <1>11, <1>17, <2>1 DEF Numbered, SentAll
    <3>2. Good' => link'.recv = <<>> /\ Before(link'.crrr, client'.vr)
      BY <1>1, <1>7, <1>11, <1>14, <2>1
    <3>. QED BY <2>2, <3>1, <3>2 DEF Agreed, Good
  <2>6. WholeInv'
    <3>1. a \in Whole /\ a.request = client.request /\ a.got = got
      BY <1>13 DEF Whole, TypeInv, Stations
    <3>2. answers \in Seq(Whole) /\ answers' = Append(answers, a)
      BY <1>10, <1>17 DEF TypeInv
    <3>. HIDE DEF a
    <3>3. /\ Len(answers') = Len(answers) + 1 /\ Len(answers) \in Nat
          /\ \A i \in 1 .. Len(answers) : answers'[i] = answers[i]
          /\ answers'[Len(answers) + 1] = a
      BY <3>1, <3>2
    <3>4. client.request \in 1 .. client.request BY <1>9, HdlcAssumption
    <3>5. ASSUME NEW i \in 1 .. Len(answers')
          PROVE  /\ Joined(answers'[i].got) /\ End(answers'[i].got) = AnswerLength
                 /\ AnswerTo(answers'[i].got[1].answer, answers'[i].request)
                 /\ answers'[i].request \in 1 .. client.request
      <4>1. CASE i \in 1 .. Len(answers)
        <5>1. answers'[i] = answers[i] BY <3>3, <4>1
        <5>. QED BY <4>1, <5>1 DEF WholeInv
      <4>2. CASE i = Len(answers) + 1
        <5>1. answers'[i] = a BY <3>3, <4>2
        <5>. QED BY <1>11, <1>12, <1>17, <3>1, <3>4, <5>1
      <4>3. i \in 1 .. Len(answers) \/ i = Len(answers) + 1 BY <3>3
      <4>. QED BY <4>1, <4>2, <4>3
    <3>. QED BY <1>15, <2>1, <2>2, <3>5 DEF WholeInv
  <2>7. \E w \in Whole : answers' = Append(answers, w) /\ AnswerTo(w.got[1].answer, client.request)
    <3>1. a \in Whole /\ a.got = got BY <1>13 DEF Whole, TypeInv, Stations
    <3>2. answers' = Append(answers, a) BY <1>10, <1>17
    <3>. HIDE DEF a
    <3>. QED BY <1>11, <1>12, <3>1, <3>2
  <2>8. LineInv' BY <1>6, <2>3, <2>4, <2>5 DEF LineInv
  <2>. QED BY <1>1, <1>3, <1>4, <1>9, <2>1, <2>6, <2>7, <2>8
<1>. QED BY <1>16, <1>17

\* Every action of the client; the line does nothing of its own.
LEMMA CleanStation ==
  ASSUME Clean, CleanInv, Station \/ Reply \/ Resend \/ Line
  PROVE  LineInv' /\ WholeInv'
<1>. USE DEF CleanInv
<1>1. CASE Connect \/ Leave
  <2>1. Idle /\ link.reply = NoFrame /\ toClient = NoFrame
    <3>1. Idle BY <1>1 DEF Connect, Leave
    <3>. QED BY <3>1 DEF OneFrame, LineInv, Back
  <2>2. CASE Connect BY <2>1, <2>2, CleanCall DEF Connect, Send, serverVars
  <2>3. CASE Leave BY <2>1, <2>3, CleanCall DEF Leave, Send, serverVars
  <2>. QED BY <1>1, <2>2, <2>3
<1>2. CASE GiveUp BY <1>2, CleanCall DEF GiveUp, Silence, Send, serverVars
<1>3. CASE BreakOff
  <2>1. toClient # NoFrame BY <1>3 DEF BreakOff, NoFrame
  <2>2. link.reply = NoFrame BY <2>1 DEF OneFrame, LineInv
  <2>. QED BY <1>3, <2>2, CleanCall DEF BreakOff, Send, serverVars
<1>4. CASE Ask BY <1>4, CleanAsk
<1>5. CASE Poll BY <1>5, CleanPoll
<1>6. CASE Resend BY <1>6, CleanResend
<1>7. CASE Take
  <2>1. toClient.kind \in {"UA", "FRMR", "RR", "I"} BY <1>7 DEF Take, Awaited
  <2>. QED BY <1>7, <2>1, CleanTakeUa, CleanTakeFrmr, CleanTakeRr, CleanTakeInfo
<1>8. CASE Drop
  <2>1. /\ UNCHANGED <<link, client, executed, silent, answers, polls, faults, toServer>>
        /\ toClient # NoFrame /\ ~Awaited(toClient) /\ toClient' = NoFrame /\ unanswered' = unanswered
    BY <1>8 DEF Drop, serverVars, clientVars
  <2>2. ~Good /\ Back = toClient /\ link.reply = NoFrame /\ toServer = NoFrame
    BY <2>1, BackAwaited
  <2>3. ~Good' /\ (Connected' => Connected) BY <2>1, <2>2 DEF Good, Connected
  <2>4. Back' = NoFrame BY <2>1, <2>2 DEF Back
  <2>. QED BY <2>1, <2>2, <2>3, <2>4, Gone
<1>9. ~Line
  <2>1. faults = 0 /\ MaxFaults = 0 BY DEF Clean, WaitInv, LineInv
  <2>. QED BY <2>1 DEF Line, ResendEarly, Lose
<1>. QED BY <1>1, <1>2, <1>3, <1>4, <1>5, <1>6, <1>7, <1>8, <1>9 DEF Station, Reply

\* What is said of a link with a question unanswered stays true.
LEMMA SpoiltStep ==
  ASSUME Clean, CleanInv, [Next]_vars
  PROVE  SpoiltInv'
<1>. USE DEF CleanInv
<1>1. ASSUME ~(Connected' /\ unanswered' # 0) PROVE SpoiltInv' BY <1>1 DEF SpoiltInv
<1>2. ASSUME UNCHANGED <<executed, silent, unanswered, client>>, Back' \in {Back, NoFrame},
             link'.status = link.status, link'.sss = link.sss, link'.csss = link.csss,
             link'.recv = link.recv
      PROVE  SpoiltInv'
  <2>1. Open' = Open /\ Asking' = Asking /\ Connected' = Connected
    BY <1>2 DEF Open, Asking, Connected
  <2>. QED BY <1>2, <2>1 DEF SpoiltInv, Question
<1>3. ASSUME link' = Closed PROVE SpoiltInv' BY <1>1, <1>3 DEF Connected, Closed
<1>4. ASSUME NEW s \in {"calling", "leaving"}, NEW f, client' = [[client EXCEPT !.state = s] EXCEPT !.waits = f],
             Back' = NoFrame
      PROVE  SpoiltInv'
  <2>1. client'.state = s BY <1>4 DEF TypeInv, Stations
  <2>. QED BY <1>4, <2>1 DEF SpoiltInv, Open
<1>5. link \in Links BY DEF TypeInv, Sound
<1>6. CASE UNCHANGED vars
  BY <1>2, <1>6 DEF vars, serverVars, clientVars, Back
<1>7. CASE Period
  <2>1. UNCHANGED <<executed, silent, unanswered, client>>
    BY <1>7 DEF Period, Tick, NoRequest, Respond, Busy, Receive, clientVars
  <2>2. CASE Tick
    <3>1. CASE link' = Closed BY <1>3, <3>1
    <3>2. CASE link' = link BY <1>2, <2>1, <2>2, <3>2 DEF Tick, Back
    <3>3. CASE link' = [link EXCEPT !.timer = @ - 1]
      <4>1. /\ link'.status = link.status /\ link'.sss = link.sss /\ link'.csss = link.csss
            /\ link'.recv = link.recv /\ link'.reply = link.reply
        BY <1>5, <3>3 DEF Links
      <4>2. Back' = Back BY <2>2, <4>1 DEF Tick, Back
      <4>. QED BY <1>2, <2>1, <4>1, <4>2
    <3>. QED BY <2>2, <3>1, <3>2, <3>3 DEF Tick
  <2>3. CASE Respond
    <3>1. /\ link'.status = link.status /\ link'.sss = link.sss /\ link'.csss = link.csss
          /\ link'.recv = link.recv /\ link'.reply = NoFrame
      BY <1>5, <2>3 DEF Respond, Links
    <3>2. Back' = Back BY <2>3, <3>1 DEF Respond, Back
    <3>. QED BY <1>2, <2>1, <3>1, <3>2
  <2>4. CASE NoRequest \/ Busy
    <3>1. link' = link /\ toClient' = toClient BY <2>4 DEF NoRequest, Busy, Receive
    <3>2. Back' = Back BY <3>1 DEF Back
    <3>. QED BY <1>2, <2>1, <3>1, <3>2
  <2>. QED BY <1>7, <2>2, <2>3, <2>4 DEF Period
<1>8. CASE Request
  <2>. DEFINE f == toServer
  <2>1. CASE RequestSnrm(f) BY <1>1, <2>1 DEF RequestSnrm
  <2>2. CASE RequestDisc(f)
    <3>1. CASE link.status # "CONNECTED" BY <1>1, <2>2, <3>1 DEF RequestDisc, Connected
    <3>2. CASE link.status = "CONNECTED"
      <4>1. link'.status = "MARK" BY <1>5, <2>2, <3>2 DEF RequestDisc, Refresh, Links
      <4>. QED BY <1>1, <4>1 DEF Connected
    <3>. QED BY <3>1, <3>2
  <2>3. CASE RequestInfoRefused(f) \/ RequestInfoSegment(f)
    <3>1. unanswered = 0 /\ unanswered' = 0
      BY <2>3, LastHeard DEF RequestInfoRefused, RequestInfoSegment
    <3>. QED BY <1>1, <3>1
  <2>4. CASE RequestRr(f)
    <3>1. f.kind = "RR" /\ Connected /\ toServer # NoFrame
      BY <2>4 DEF RequestRr, Connected, NoFrame
    <3>2. (Fetching \/ Polling) /\ unanswered' = unanswered BY <2>4, <3>1, Heard DEF RequestRr
    <3>3. unanswered = 0 BY <3>1, <3>2 DEF SpoiltInv, Asking, Fetching, Polling
    <3>. QED BY <1>1, <3>2, <3>3
  <2>5. CASE RequestInfoLast(f)
    <3>1. CASE unanswered = 0 BY <1>1, <2>5, <3>1 DEF RequestInfoLast
    <3>2. CASE unanswered # 0 BY <2>5, <3>2, CleanLastAgain
    <3>. QED BY <3>1, <3>2
  <2>6. CASE RequestInfoUnanswered(f) BY <2>6, CleanUnanswered
  <2>. QED BY <1>8, <2>1, <2>2, <2>3, <2>4, <2>5, <2>6 DEF Request
<1>9. CASE Connect \/ Leave
  <2>1. Idle BY <1>9 DEF Connect, Leave
  <2>2. Back = NoFrame BY <2>1 DEF LineInv, OneFrame
  <2>3. Back' = NoFrame BY <1>9, <2>2 DEF Connect, Leave, Back, serverVars
  <2>. QED BY <1>4, <1>9, <2>3 DEF Connect, Leave, Send
<1>10. CASE GiveUp
  <2>1. Back' = NoFrame BY <1>10 DEF GiveUp, Silence, Back, serverVars
  <2>. QED BY <1>4, <1>10, <2>1 DEF GiveUp, Send
<1>11. CASE BreakOff
  <2>1. toClient # NoFrame BY <1>11 DEF BreakOff, NoFrame
  <2>2. Back' = NoFrame BY <1>11, <2>1, BackAwaited DEF BreakOff, Back, serverVars
  <2>. QED BY <1>4, <1>11, <2>2 DEF BreakOff, Send
<1>12. CASE Ask \/ Poll
  <2>1. Open /\ Idle /\ link' = link /\ unanswered' = unanswered
    BY <1>12 DEF Ask, Poll, Open, serverVars
  <2>2. Connected' = Connected BY <2>1 DEF Connected
  <2>. QED BY <1>1, <2>1, <2>2, IdleOpen DEF Good
<1>13. CASE Resend
  <2>1. UNCHANGED <<link, executed, silent, unanswered, client, toClient>>
    BY <1>13 DEF Resend, Send, serverVars, TypeInv, Stations
  <2>2. Back' = Back BY <2>1 DEF Back
  <2>. QED BY <1>2, <2>1, <2>2
<1>14. CASE Drop
  <2>1. UNCHANGED <<link, executed, silent, unanswered, client>> /\ toClient' = NoFrame
        /\ toClient # NoFrame
    BY <1>14 DEF Drop, serverVars, clientVars
  <2>2. link.reply = NoFrame BY <2>1, BackAwaited
  <2>3. Back' = NoFrame BY <2>1, <2>2 DEF Back
  <2>. QED BY <1>2, <2>1, <2>3
<1>15. CASE Take
  <2>1. UNCHANGED <<link, executed, silent, unanswered>> /\ toClient # NoFrame /\ Awaited(toClient)
    BY <1>15 DEF Take, serverVars
  <2>2. Back = toClient BY <2>1, BackAwaited
  <2>3. Connected' = Connected BY <2>1 DEF Connected
  <2>4. CASE Connected /\ unanswered # 0
    <3>1. client.state # "calling" BY <2>1, <2>2, <2>4 DEF SpoiltInv
    <3>2. ~Open
      <4>. SUFFICES ASSUME Open PROVE FALSE OBVIOUS
      <4>1. /\ client.waits.kind = "I" /\ ~client.waits.segment /\ toClient.kind = "I"
            /\ toClient.sss = (client.vr + 8 - unanswered) % 8
        BY <2>1, <2>2, <2>4 DEF SpoiltInv, Asking
      <4>2. toClient.sss = client.vr BY <2>1, <4>1, BackAwaited
      <4>3. client.vr \in Numbers /\ unanswered \in 1 .. 7
        <5>1. unanswered \in Nat /\ MaxUnanswered \in Nat /\ unanswered <= MaxUnanswered
          BY Lengths DEF TypeInv
        <5>2. unanswered \in 1 .. 7 BY <2>4, <5>1 DEF Clean
        <5>. QED BY <5>2 DEF TypeInv, Stations
      <4>. QED BY <4>1, <4>2, <4>3, Behind
    <3>3. toClient.kind = "UA" /\ client.state = "leaving"
      BY <2>1, <3>1, <3>2 DEF Awaited, Open
    <3>4. client' = [[client EXCEPT !.state = "closed"] EXCEPT !.waits = NoFrame]
      BY <1>15, <3>3 DEF Take, TakeUa, Rest
    <3>5. client'.state = "closed" BY <3>4 DEF TypeInv, Stations
    <3>. QED BY <3>5 DEF SpoiltInv, Open
  <2>. QED BY <1>1, <2>1, <2>3, <2>4
<1>16. ~Line
  <2>1. faults = 0 /\ MaxFaults = 0 BY DEF Clean, WaitInv, LineInv
  <2>. QED BY <2>1 DEF Line, ResendEarly, Lose
<1>. QED BY <1>6, <1>7, <1>8, <1>9, <1>10, <1>11, <1>12, <1>13, <1>14, <1>15, <1>16
     DEF Next, Station, Reply

\* No step breaks the invariant.
LEMMA CleanStep == ASSUME Clean PROVE CleanInv /\ [Next]_vars => CleanInv'
<1>. SUFFICES ASSUME CleanInv, [Next]_vars PROVE CleanInv' OBVIOUS
<1>1. TypeInv' /\ SpoiltInv' BY TypeStep, SpoiltStep DEF CleanInv
<1>2. CASE UNCHANGED vars
  <2>1. UNCHANGED <<link, executed, silent, unanswered, client, answers, polls, faults, toServer, toClient>>
    BY <1>2 DEF vars, serverVars, clientVars
  <2>2. Back' = Back /\ (toClient' # NoFrame => link'.reply = NoFrame)
    BY <2>1 DEF Back, OneFrame, CleanInv, LineInv
  <2>. QED BY <1>1, <2>1, <2>2, SameLink DEF CleanInv
<1>3. CASE Period BY <1>1, <1>3, CleanPeriod DEF CleanInv
<1>4. CASE Request
  <2>1. RequestInfoLast(toServer) => LineInv' /\ WholeInv' BY CleanLast, CleanLastAgain
  <2>. QED BY <1>1, <1>4, <2>1, CleanSnrm, CleanRefused, CleanSegment, CleanUnanswered, CleanRr,
              CleanDisc
           DEF Request, CleanInv
<1>5. CASE Station \/ Reply \/ Resend \/ Line BY <1>1, <1>5, CleanStation DEF CleanInv
<1>. QED BY <1>2, <1>3, <1>4, <1>5 DEF Next

\* While both ends hold the link open they are in step.
LEMMA CleanInStep == CleanInv => InStep
<1>. SUFFICES ASSUME CleanInv, Good, Open
     PROVE  /\ link.sss \in {client.vr, Succ(client.vr)}
            /\ link.rrr \in {client.vs, Succ(client.vs)}
  BY DEF InStep, Connected, Good, Open
<1>. USE DEF CleanInv, LineInv
<1>1. CASE Back = NoFrame BY <1>1 DEF Agreed, Numbered
<1>2. CASE Back # NoFrame
  <2>1. Asking \/ Fetching \/ Polling BY <1>2 DEF OneFrame, WaitInv
  <2>2. CASE Asking BY <1>2, <2>2 DEF PartFits, Piece
  <2>3. CASE Fetching BY <1>2, <2>3 DEF RestFits, Piece
  <2>4. CASE Polling BY <1>2, <2>4 DEF PollFits, Numbered
  <2>. QED BY <2>1, <2>2, <2>3, <2>4
<1>. QED BY <1>1, <1>2

\* So are the answers that the client has put together.
LEMMA CleanWhole == CleanInv => QuestionWhole /\ AnswerWhole
<1>. SUFFICES ASSUME CleanInv PROVE QuestionWhole /\ AnswerWhole OBVIOUS
<1>1. QuestionWhole BY DEF CleanInv, WholeInv, RunsWhole
<1>2. ASSUME NEW i \in 1 .. Len(answers)
      PROVE  LET got == answers[i].got
                 after(k) == IF k = 0 THEN 0 ELSE got[k].from + got[k].length
             IN /\ after(Len(got)) = AnswerLength
                /\ \A k \in 1 .. Len(got) : got[k].from = after(k - 1) /\ got[k].answer = got[1].answer
                /\ executed[got[1].answer] = Question(answers[i].request)
  <2>. DEFINE got == answers[i].got
              after(k) == IF k = 0 THEN 0 ELSE got[k].from + got[k].length
  <2>1. /\ Joined(got) /\ End(got) = AnswerLength
        /\ executed[got[1].answer] = Question(answers[i].request)
    BY DEF CleanInv, WholeInv, AnswerTo
  <2>2. got \in Seq(Pieces)
    <3>1. answers \in Seq(Whole) BY DEF CleanInv, TypeInv
    <3>2. answers[i] \in Whole BY <3>1
    <3>. QED BY <3>2 DEF Whole
  <2>. HIDE DEF got
  <2>3. Len(got) \in Nat /\ Len(got) # 0 BY <2>1, <2>2 DEF Joined
  <2>4. after(Len(got)) = AnswerLength BY <2>1, <2>3 DEF End
  <2>5. ASSUME NEW k \in 1 .. Len(got)
        PROVE  got[k].from = after(k - 1) /\ got[k].answer = got[1].answer
    <3>1. CASE k = 1 BY <2>1, <3>1 DEF Joined
    <3>2. CASE k # 1
      <4>1. k \in 2 .. Len(got) /\ k - 1 # 0 BY <2>3, <3>2
      <4>. QED BY <2>1, <4>1 DEF Joined
    <3>. QED BY <3>1, <3>2
  <2>. QED BY <2>1, <2>4, <2>5 DEF got
<1>. QED BY <1>1, <1>2 DEF AnswerWhole

-----------------------------------------------------------------------------
\* what is kept in both cases

(* While the application answers what it is asked, the frame counters of the    *)
(* link and of the client never part (hdlc_datalink.c: request_info,            *)
(* request_rr, roll_back, link_setup): over any number of links, when questions *)
(* and answers fit in one frame, whatever is lost, repeated early, timed out or *)
(* refused; and in parts of any number, when no frame is lost.  A question left *)
(* unanswered parts them until the link is set up anew, and no longer.          *)
THEOREM StaysInStep == ASSUME SingleFrames \/ Clean PROVE Spec => []InStep
<1>1. StepInv => InStep
  <2>. SUFFICES ASSUME StepInv, Good, Open
       PROVE  /\ link.sss \in {client.vr, Succ(client.vr)}
              /\ link.rrr \in {client.vs, Succ(client.vs)}
    BY DEF InStep, Connected, Good, Open
  <2>1. link.sss = link.rrr /\ Succ(link.csss) = link.rrr BY DEF StepInv, LinkInv
  <2>2. Succ(link.csss) = client.vs \/ link.csss = client.vs BY DEF StepInv, OpenInv, Good, N
  <2>. QED BY <2>1, <2>2 DEF StepInv, ClientInv
<1>2. CASE SingleFrames BY <1>1, <1>2, StepInit, StepStep, PTL DEF Spec
<1>3. CASE Clean BY <1>3, CleanInStep, CleanInit, CleanStep, PTL DEF Spec
<1>. QED BY <1>2, <1>3

(* The application is given whole questions (request_info, recv.filled), each   *)
(* part of them once and in order, whatever link came before: of one frame on a *)
(* lossy line, and of any number of parts on one that loses nothing, those that *)
(* overrun the buffer and are refused among them.  The one exception is the     *)
(* resend of a question that it was given whole and left unanswered: of that it *)
(* is given the last part alone.                                                *)
THEOREM QuestionsAreWhole == ASSUME SingleFrames \/ Clean PROVE Spec => []QuestionWhole
<1>1. StepInv => QuestionWhole BY DEF StepInv, HistInv, AllWhole, QuestionWhole
<1>2. CASE SingleFrames BY <1>1, <1>2, StepInit, StepStep, PTL DEF Spec
<1>3. CASE Clean BY <1>3, CleanWhole, CleanInit, CleanStep, PTL DEF Spec
<1>. QED BY <1>2, <1>3

(* What the client puts together is the whole answer to the question it asked: *)
(* never the answer to an earlier one that was sent again (roll_back), and, of *)
(* an answer in parts, every byte once (request_rr: sent, filled).             *)
THEOREM AnswersAreWhole == ASSUME SingleFrames \/ Clean PROVE Spec => []AnswerWhole
<1>1. StepInv => AnswerWhole
  <2>. SUFFICES ASSUME StepInv, NEW i \in 1 .. Len(answers)
       PROVE  LET got == answers[i].got
                  after(k) == IF k = 0 THEN 0 ELSE got[k].from + got[k].length
              IN /\ after(Len(got)) = AnswerLength
                 /\ \A k \in 1 .. Len(got) : got[k].from = after(k - 1) /\ got[k].answer = got[1].answer
                 /\ executed[got[1].answer] = Question(answers[i].request)
    BY DEF AnswerWhole
  <2>1. /\ Len(answers[i].got) = 1
        /\ answers[i].got[1].from = 0 /\ answers[i].got[1].length = AnswerLength
        /\ executed[answers[i].got[1].answer] = Question(answers[i].request)
    BY DEF StepInv, HistInv
  <2>2. \A k \in 1 .. Len(answers[i].got) : k = 1 BY <2>1
  <2>3. 0 + AnswerLength = AnswerLength BY HdlcAssumption
  <2>. QED BY <2>1, <2>2, <2>3
<1>2. CASE SingleFrames BY <1>1, <1>2, StepInit, StepStep, PTL DEF Spec
<1>3. CASE Clean BY <1>3, CleanWhole, CleanInit, CleanStep, PTL DEF Spec
<1>. QED BY <1>2, <1>3

-----------------------------------------------------------------------------
\* the promise of Exchange

\* A step that the client of Exchange does not see.
LEMMA Unseen ==
  ASSUME UNCHANGED <<executed, answers>>, client'.request = client.request
  PROVE  UNCHANGED <<Asked, Ran, Answered>>
BY DEF Asked, Ran, Answered

\* The question a run of the application was given.
LEMMA RunOf ==
  ASSUME NEW r \in 1 .. Requests, NEW q, q = Question(r)
  PROVE  q[1][1] = r
<1>1. 1 \in 1 .. RequestParts[r] BY HdlcAssumption
<1>. QED BY <1>1 DEF Question

\* each answer is to a question that was asked and run
AnswersKnown ==
  \A i \in 1 .. Len(answers) :
    /\ AnswerTo(answers[i].got[1].answer, answers[i].request)
    /\ answers[i].request \in 1 .. client.request

\* The application runs the question asked last.
LEMMA RunSeen ==
  ASSUME TypeInv, AnswersKnown, client.request \in 1 .. Requests,
         NEW q \in Seq(Nat \X Nat), q[1][1] = client.request,
         executed' = Append(executed, q), UNCHANGED <<client, answers>>
  PROVE  E!Run
<1>1. client.request \in Nat /\ client.request > 0
  <2>1. Requests \in Nat BY HdlcAssumption
  <2>2. \A r \in 1 .. Requests : r \in Nat /\ r > 0 BY <2>1
  <2>. QED BY <2>2
<1>2. executed \in Seq(Seq(Nat \X Nat)) BY DEF TypeInv
<1>3. /\ Len(executed') = Len(executed) + 1
      /\ \A i \in 1 .. Len(executed) : executed'[i] = executed[i]
      /\ executed'[Len(executed) + 1] = q
      /\ Len(executed) \in Nat
  BY <1>2
<1>4. 1 .. Len(executed') = (1 .. Len(executed)) \cup {Len(executed) + 1} BY <1>3
<1>5. Ran' = Ran \cup {Asked} BY <1>3, <1>4 DEF Ran, Asked
<1>6. Answered' = Answered
  <2>1. ASSUME NEW i \in 1 .. Len(answers)
        PROVE  executed'[answers[i].got[1].answer] = executed[answers[i].got[1].answer]
    BY <1>3 DEF AnswersKnown, AnswerTo
  <2>. QED BY <2>1 DEF Answered
<1>. QED BY <1>1, <1>5, <1>6 DEF E!Run, Asked

\* The client has the answer to the question it asked last, for the first time.
LEMMA AnswerSeen ==
  ASSUME TypeInv, AnswersKnown, client.request \in 1 .. Requests,
         \A i \in 1 .. Len(answers) : answers[i].request < client.request,
         NEW a \in Whole, answers' = Append(answers, a),
         AnswerTo(a.got[1].answer, client.request),
         UNCHANGED executed, client'.request = client.request
  PROVE  E!Answer
<1>. DEFINE g == a.got[1].answer
<1>1. g \in 1 .. Len(executed) /\ executed[g][1][1] = client.request
  BY RunOf DEF AnswerTo
<1>2. Asked \in Ran BY <1>1 DEF Asked, Ran
<1>3. Asked \notin Answered
  <2>. SUFFICES ASSUME NEW i \in 1 .. Len(answers)
       PROVE  executed[answers[i].got[1].answer][1][1] # client.request
    BY DEF Asked, Answered
  <2>1. /\ answers[i].request \in 1 .. client.request /\ answers[i].request < client.request
        /\ executed[answers[i].got[1].answer] = Question(answers[i].request)
    BY DEF AnswersKnown, AnswerTo
  <2>2. answers[i].request \in 1 .. Requests BY <2>1, Lengths
  <2>3. executed[answers[i].got[1].answer][1][1] = answers[i].request BY <2>1, <2>2, RunOf
  <2>4. answers[i].request # client.request BY <2>1, <2>2, Lengths
  <2>. QED BY <2>3, <2>4
<1>4. /\ Len(answers') = Len(answers) + 1 /\ Len(answers) \in Nat
      /\ \A i \in 1 .. Len(answers) : answers'[i] = answers[i]
      /\ answers'[Len(answers) + 1] = a
  BY DEF TypeInv
<1>5. 1 .. Len(answers') = (1 .. Len(answers)) \cup {Len(answers) + 1} BY <1>4
<1>6. Answered' = Answered \cup {Asked}
  <2>1. executed[answers'[Len(answers) + 1].got[1].answer][1][1] = client.request
    BY <1>1, <1>4
  <2>. DEFINE answered(i) == executed[answers[i].got[1].answer][1][1]
              after(i) == executed[answers'[i].got[1].answer][1][1]
  <2>2. \A i \in 1 .. Len(answers) : after(i) = answered(i) BY <1>4
  <2>3. after(Len(answers) + 1) = Asked BY <2>1 DEF Asked
  <2>4. Answered' = {after(i) : i \in 1 .. Len(answers')} BY DEF Answered
  <2>5. Answered = {answered(i) : i \in 1 .. Len(answers)} BY DEF Answered
  <2>. HIDE DEF answered, after
  <2>. QED BY <1>5, <2>2, <2>3, <2>4, <2>5
<1>7. Ran' = Ran /\ Asked' = Asked BY DEF Ran, Asked
<1>. QED BY <1>2, <1>3, <1>6, <1>7 DEF E!Answer

\* With questions of one frame the application is given the one asked last ...
LEMMA RunsTheQuestion ==
  ASSUME SingleFrames, StepInv, NEW f, f = toServer, Run(f)
  PROVE  E!Run
<1>. DEFINE q == <<f.info>>
<1>. USE DEF StepInv
<1>1. f.kind = "I" /\ executed' = Append(executed, q) BY Taken
<1>2. client.request \in 1 .. Requests /\ f.info = <<client.request, 1>> BY <1>1, Received
<1>3. q \in Seq(Nat \X Nat) /\ q[1][1] = client.request
  <2>1. client.request \in Nat BY DEF TypeInv, Stations
  <2>. QED BY <1>2, <2>1
<1>4. client' = client /\ answers' = answers BY DEF Run, Info, Receive, clientVars
<1>5. AnswersKnown BY DEF HistInv, AnswersKnown, AnswerTo
<1>. HIDE DEF q
<1>. QED BY <1>1, <1>2, <1>3, <1>4, <1>5, RunSeen

\* ... and the client its answer.
LEMMA AnswersTheQuestion ==
  ASSUME SingleFrames, StepInv, Take, toClient.kind # "UA"
  PROVE  E!Answer
<1>. DEFINE a == [request |-> client.request, got |-> <<toClient.info>>]
<1>. USE DEF StepInv
<1>1. answers' = Append(answers, a) /\ executed' = executed /\ client'.request = client.request
  BY StepAnswer
<1>2. Awaited(toClient) BY DEF Take
<1>3. Answers(toClient) /\ IsAnswer(toClient) /\ client.request \in 1 .. Requests /\ Waiting
  BY <1>2, AnswerAwaited
<1>4. toClient.info \in Pieces
  <2>1. toClient.kind = "I" BY <1>2, AnswerAwaited
  <2>. QED BY <2>1 DEF TypeInv, ToStation, Plain
<1>5. a \in Whole /\ a.got[1] = toClient.info BY <1>4 DEF TypeInv, Stations, Whole
<1>6. AnswerTo(a.got[1].answer, client.request) BY <1>3, <1>5 DEF AnswerTo, Answers, IsAnswer
<1>7. AnswersKnown /\ \A i \in 1 .. Len(answers) : answers[i].request < client.request
  BY <1>3 DEF HistInv, AnswersKnown, AnswerTo
<1>. HIDE DEF a
<1>. QED BY <1>1, <1>3, <1>5, <1>6, <1>7, AnswerSeen

\* Every step is one of Exchange, or is not seen there.
LEMMA StepExchange ==
  ASSUME TypeInv, [Next]_vars,
         ASSUME Run(toServer) PROVE E!Run,
         ASSUME Take, toClient.kind # "UA"
         PROVE  E!Answer \/ (UNCHANGED <<executed, answers>> /\ client'.request = client.request)
  PROVE  [E!Next]_<<Asked, Ran, Answered>>
<1>. USE DEF serverVars, clientVars
<1>1. CASE UNCHANGED vars BY <1>1, Unseen DEF vars
<1>2. CASE Period BY <1>2, Unseen DEF Period, Tick, NoRequest, Receive, Respond, Busy
<1>3. CASE Request
  <2>1. CASE Run(toServer) BY <2>1 DEF E!Next
  <2>2. CASE ~Run(toServer)
    <3>1. UNCHANGED <<executed, client, answers>>
      BY <1>3, <2>2 DEF Request, RequestInfoLast, RequestInfoUnanswered, RequestSnrm, RequestInfoRefused, RequestInfoSegment, RequestRr,
                        RequestDisc, Info, Receive
    <3>. QED BY <3>1, Unseen
  <2>. QED BY <2>1, <2>2
<1>4. CASE Ask
  <2>1. UNCHANGED <<executed, answers>> /\ client'.request = client.request + 1
    BY <1>4 DEF Ask, Send, TypeInv, Stations
  <2>2. E!Ask BY <2>1 DEF E!Ask, Asked, Ran, Answered
  <2>. QED BY <2>2 DEF E!Next
<1>5. CASE Take
  <2>1. CASE toClient.kind = "UA"
    <3>1. TakeUa BY <1>5, <2>1 DEF Take
    <3>2. UNCHANGED <<executed, answers>> /\ client'.request = client.request
      BY <1>5, <3>1 DEF Take, TakeUa, Rest, TypeInv, Stations
    <3>. QED BY <3>2, Unseen
  <2>2. CASE toClient.kind # "UA" BY <1>5, <2>2, Unseen DEF E!Next
  <2>. QED BY <2>1, <2>2
<1>6. CASE Connect \/ Poll \/ Leave \/ GiveUp \/ BreakOff
  <2>1. UNCHANGED <<executed, answers>> /\ client'.request = client.request
    BY <1>6 DEF Connect, Poll, Leave, GiveUp, BreakOff, Send, TypeInv, Stations
  <2>. QED BY <2>1, Unseen
<1>7. CASE Resend \/ Line \/ Drop
  <2>1. UNCHANGED <<executed, answers>> /\ client'.request = client.request
    BY <1>7 DEF Resend, Line, ResendEarly, Lose, Drop, Send, TypeInv, Stations
  <2>. QED BY <2>1, Unseen
<1>. QED BY <1>1, <1>2, <1>3, <1>4, <1>5, <1>6, <1>7 DEF Next, Station, Reply

\* With questions of one frame every step is one of Exchange, or a stutter.
LEMMA SingleExchange ==
  ASSUME SingleFrames PROVE StepInv /\ [Next]_vars => [E!Next]_<<Asked, Ran, Answered>>
<1>. SUFFICES ASSUME StepInv, [Next]_vars PROVE [E!Next]_<<Asked, Ran, Answered>> OBVIOUS
<1>1. TypeInv BY DEF StepInv
<1>. QED BY <1>1, RunsTheQuestion, AnswersTheQuestion, StepExchange

\* In parts: the run has all of them, and the answer the last one.
LEMMA PartsExchange ==
  ASSUME Clean PROVE CleanInv /\ [Next]_vars => [E!Next]_<<Asked, Ran, Answered>>
<1>. SUFFICES ASSUME CleanInv, [Next]_vars PROVE [E!Next]_<<Asked, Ran, Answered>> OBVIOUS
<1>1. TypeInv /\ AnswersKnown BY DEF CleanInv, WholeInv, AnswersKnown
<1>2. ASSUME Run(toServer) PROVE E!Run
  <2>1. client.request \in 1 .. Requests /\ UNCHANGED <<client, answers>> BY <1>2, RunHeard
  <2>2. PICK q \in Seq(Nat \X Nat) : executed' = Append(executed, q) /\ q[1][1] = client.request
    BY <1>2, RunHeard
  <2>. QED BY <1>1, <2>1, <2>2, RunSeen
<1>3. ASSUME Take, toClient.kind # "UA"
      PROVE  E!Answer \/ (UNCHANGED <<executed, answers>> /\ client'.request = client.request)
  <2>1. toClient.kind \in {"FRMR", "RR", "I"} BY <1>3 DEF Take, Awaited
  <2>2. CASE toClient.kind = "I"
    <3>1. \A i \in 1 .. Len(answers) : answers[i].request < client.request
      BY <1>3, <2>2, CleanTakeInfo DEF CleanInv, WholeInv
    <3>. QED BY <1>1, <1>3, <2>2, <3>1, CleanTakeInfo, AnswerSeen
  <2>3. CASE toClient.kind \in {"FRMR", "RR"}
    <3>1. TakeFrmr \/ TakeRr BY <1>3, <2>3 DEF Take
    <3>. QED BY <1>1, <1>3, <3>1
         DEF Take, TakeFrmr, TakeRr, Send, Rest, serverVars, TypeInv, Stations
  <2>. QED BY <2>1, <2>2, <2>3
<1>. QED BY <1>1, <1>2, <1>3, StepExchange

(* The link implements the promise of Exchange, for any number of questions: of  *)
(* one frame on a lossy line, and in parts on one that loses nothing.  The       *)
(* application runs the question asked last and no other, and the client is      *)
(* given its whole answer once (hdlc_datalink.c: hdlc_request, hdlc_response).   *)
THEOREM ImplementsExchange == ASSUME SingleFrames \/ Clean PROVE Spec => KeepsExchange
<1>1. Init => E!Init
  BY DEF Init, E!Init, Asked, Ran, Answered
<1>2. CASE SingleFrames
  BY <1>1, <1>2, StepInit, StepStep, SingleExchange, PTL DEF Spec, KeepsExchange, E!Spec
<1>3. CASE Clean
  BY <1>1, <1>3, CleanInit, CleanStep, PartsExchange, PTL DEF Spec, KeepsExchange, E!Spec
<1>. QED BY <1>2, <1>3
=============================================================================
