------------------------------ MODULE MCXmodem ------------------------------
(* Two clients, of which the first sends a second image if the first one fails. *)
EXTENDS Xmodem
Images == <<2, 1>>
Rooms == <<2, 1>>
Tries == <<2, 1>>
Faults == <<2, 0>>
=============================================================================
