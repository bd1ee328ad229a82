------------------------------ MODULE MCPkcs11 ------------------------------
(* Two sessions, and two vaults, one with an RSA and one with an EC key.     *)
EXTENDS Pkcs11

CONSTANTS p1, p2

MCPins == {p1, p2}
MCPeers == {[pin |-> p1, key |-> "rsa"], [pin |-> p2, key |-> "ec"]}
MCSizes == {1, 2, 3}
=============================================================================
