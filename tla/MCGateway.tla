----------------------------- MODULE MCGateway ------------------------------
(***************************************************************************)
(* OrderGateway for TLC.  Signers are interchangeable: a signer only ever  *)
(* compares for equality, as the owner of an order and as the key of the   *)
(* nonce table.                                                            *)
(***************************************************************************)
EXTENDS OrderGateway, TLC

Symmetry == Permutations(Signers)
=============================================================================
