------------------------------- MODULE MCNvm --------------------------------
(* Small instances of Nvm: no word equals its swap, and a file is longer    *)
(* than a buffer.                                                           *)
EXTENDS Nvm, TLC

CONSTANTS p1, p2
MCProcs == {p1, p2}
MCWord  == {<<0, 1>>, <<1, 0>>}
MCFiles == {<< >>, <<<<0, 1>>>>, <<<<0, 1>>, <<1, 0>>, <<0, 1>>>>}
Symmetry == Permutations(MCProcs)

=============================================================================
