--------------------------- MODULE MCNetworkScan ---------------------------
(* Small instances of NetworkScan: the scheduler and a thread of the API.  *)
EXTENDS NetworkScan, TLC

CONSTANTS scheduler, thread, h1, h2

TwoScanners == {scheduler, thread}
TwoHosts == {h1, h2}

Alike == Permutations(Scanners) \cup Permutations(Hosts)
=============================================================================
