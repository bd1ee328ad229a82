--------------------------- MODULE MCSignerSocket ---------------------------
(* Runs of SignerSocket: of two vaults that hold one name.                    *)
EXTENDS SignerSocket, TLC

CONSTANTS r1, r2, r3, r4, v1, v2

TwoVaults == r1 :> v1 @@ r2 :> v2 @@ r3 :> v1 @@ r4 :> v1
=============================================================================
