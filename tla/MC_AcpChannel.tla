----------------------------- MODULE MC_AcpChannel ------------------------------
(* Connections are numbers: a new one is the least that was never used.  The     *)
(* callers do the same things, so swapping them changes nothing (safety only).   *)
EXTENDS AcpChannel, TLC

CONSTANT NumConns
MCConns == 1..NumConns
CallerSymmetry == Permutations(Callers)
=============================================================================
