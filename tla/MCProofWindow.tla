---------------------------- MODULE MCProofWindow ----------------------------
(* ProofWindow at a width of nine bits: a second is 8 ticks, a duration wraps *)
(* after 64 seconds, proofMaxLife is 20 of them and proofSkew 3.              *)
EXTENDS ProofWindow

Width9    == 256
SomeClock == 43 .. 50
SomeDates == {-256, -255, -27, 255} \cup 0 .. 12
AllDates  == -256 .. 255
=============================================================================
