----------------------------- MODULE MCKeyStore -----------------------------
(* Instances of KeyStore for TLC.  Clients are interchangeable.              *)
EXTENDS KeyStore, TLC

ClientSymmetry == Permutations(Clients)
=============================================================================
