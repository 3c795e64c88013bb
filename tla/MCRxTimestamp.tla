--------------------------- MODULE MCRxTimestamp ---------------------------
(* Small instances of RxTimestamp.                                         *)
EXTENDS RxTimestamp, TLC

Symmetric == Permutations(Pkts) \cup Permutations(Keys)
NoFault   == {}
AnyFault  == FaultKinds
=============================================================================
