---------------------------- MODULE MCApeShell ----------------------------
(***************************************************************************)
(* Finite instances of ApeShell: at most one word of memory, one address   *)
(* that faults (address 0), and two values of which one is 0xFFFFFFFF.     *)
(***************************************************************************)
EXTENDS ApeShellInv, TLC

SameAddresses == Permutations(Addr)

=============================================================================
