------------------------------- MODULE MCHdlc -------------------------------
(* The sizes of the code: 128 bytes of information, 3 of LLC, 12 of frame. *)
EXTENDS Hdlc
CodeMaxLenTrans == 128
CodeLlc == 3
CodeFrameOverhead == 12
\* questions of one to four frames; four are more than the buffer holds
CleanParts == <<3, 3, 2, 4>>
OnePart == [r \in 1..Requests |-> 1]
TwoParts == [r \in 1..Requests |-> 2]
=============================================================================
