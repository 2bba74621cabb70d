--------------------------- MODULE MCRecoveryGate ---------------------------
(* Small instance of RecoveryGate: fewer rounds than objects, and fewer      *)
(* permits than objects, so that the gate latches while objects are queued.  *)
EXTENDS RecoveryGate

CONSTANTS o1, o2, o3, o4
MCObjects == {o1, o2, o3, o4}
MCTwoObjects == {o1, o2}
=============================================================================
