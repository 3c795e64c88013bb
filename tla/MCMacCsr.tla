------------------------------ MODULE MCMacCsr ------------------------------
(* A small instance of MacCsr.                                             *)
EXTENDS MacCsr, TLC

CONSTANTS main, refresh, mdns, ptp, pdelay
TwoApps   == {main, refresh}
AllGroups == {mdns, ptp, pdelay}
\* Two of the groups share a bit; bit 41 is in HMAC_HASHH, bit 0 in HMAC_HASHL.
Bits == [g \in {mdns, ptp, pdelay} |-> IF g = mdns THEN 0 ELSE 41]
\* The threads do the same, and so do the groups that share a bit.
Alike == Permutations(TwoApps) \cup Permutations({ptp, pdelay})
=============================================================================
