------------------------------ MODULE MCBunker ------------------------------
(* A small bunker for TLC.                                                 *)
EXTENDS Bunker, TLC
=============================================================================
