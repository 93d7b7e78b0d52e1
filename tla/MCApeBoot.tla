----------------------------- MODULE MCApeBoot -----------------------------
(* Finite instances of ApeBoot.                                            *)
EXTENDS ApeBoot
=============================================================================
