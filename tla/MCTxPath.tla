------------------------------ MODULE MCTxPath ------------------------------
(* A small instance of TxPath.                                             *)
EXTENDS TxPath

CONSTANTS ptp, stack
TwoSenders == {ptp, stack}
Roles == [s \in TwoSenders |-> IF s = ptp THEN {"general", "event"} ELSE {"plain"}]
=============================================================================
