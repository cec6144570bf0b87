---------------------------- MODULE MCContainers ----------------------------
(* A small instance of Containers for TLC.                                 *)
EXTENDS Containers

\* Addresses are interchangeable, and so are the values pushed.
MCSymmetry == Permutations(Node) \cup Permutations(Value)
=============================================================================
