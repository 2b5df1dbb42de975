---------------------------- MODULE MCDisconnect ----------------------------
(* Three slots, two sets of priorities; the table a caller writes ranks the *)
(* slots the other way round than the arbitration does.                     *)
EXTENDS Disconnect

TwoSelections == {0, 1}
NoneOrOne == {{}, {<<1, "OPEN">>, <<2, "CLOSE">>}}
FallingTable ==
  [s \in Slots |-> [m \in Moves |-> IF m = "OPEN" THEN SlotCount - s ELSE s]]
OneTable == {FallingTable}
=============================================================================
