---------------------------- MODULE MCNonceRing ----------------------------
(* NonceRing for TLC: the nonces are interchangeable.                      *)
EXTENDS NonceRing, TLC

NonceSymmetry == Permutations(Nonces)
============================================================================
