--------------------------- MODULE MCAssociations ---------------------------
(* Two channels, more sessions than entries, and less memory than they want. *)
EXTENDS Associations, TLC
CONSTANTS ch1, ch2, k1, k2, k3, b1, b2, b3, b4, b5, energy, unknown
TwoChannels == {ch1, ch2}
ThreeKeys == {k1, k2, k3}
TwoSlots == 1 .. 2
FiveBlocks == {b1, b2, b3, b4, b5}
SomeObjects == {energy, unknown}
KnownObjects == {energy}
Symmetric == Permutations(TwoChannels) \cup Permutations(ThreeKeys) \cup
             Permutations(FiveBlocks)
=============================================================================
