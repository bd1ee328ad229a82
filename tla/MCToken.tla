------------------------------- MODULE MCToken -------------------------------
(* A small signer for TLC.                                                 *)
EXTENDS Token, TLC
=============================================================================
