----------------------------- MODULE MCDisplay -----------------------------
(* Lists of two places, of which a factory reset fills one, and bytes of two *)
(* bits.                                                                     *)
EXTENDS Display
CONSTANTS energy, power
MCTimes == [start |-> 1, scroll |-> 3, light |-> 1]
MCDefaultItems == <<energy>>
MCTimeChoices == {0}
=============================================================================
