------------------------------ MODULE MCMetering ------------------------------
(* Small instances of Metering. *)
EXTENDS Metering

\* the load feeds energy back: the second quadrant, and the third for what is apparent
Reverse == {<<FALSE, TRUE>>}
TwoTariffs == {0, 1}
Nonzero == {TRUE}
=============================================================================
