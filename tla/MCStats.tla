------------------------------ MODULE MCStats ------------------------------
(* Small instances of Stats for TLC: an hour of three ticks, a window of two *)
(* hours.                                                                  *)
EXTENDS Stats, TLC

IPSymmetry == Permutations(IPs)
=============================================================================
