------------------------------- MODULE MCRelay -------------------------------
(* A small relay for TLC.                                                  *)
EXTENDS Relay, TLC

ConnSymmetry == Permutations(Conns)
=============================================================================
