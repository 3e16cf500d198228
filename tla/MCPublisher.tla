---------------------------- MODULE MCPublisher ----------------------------
(* Instances of Publisher for TLC.                                         *)
EXTENDS Publisher, TLC

CONSTANTS c1, c2

ClientSymmetry == Permutations(Clients)
=============================================================================
