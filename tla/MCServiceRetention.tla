-------------------------- MODULE MCServiceRetention --------------------------
(* Small instances of ServiceRetention for TLC. *)
EXTENDS ServiceRetention, TLC

CONSTANTS n1, n2, k1, k2

MCName == {n1, n2}
MCCaller == {k1, k2}
Symmetry == Permutations(MCName) \cup Permutations(MCCaller)
================================================================================
