----------------------------- MODULE MCDebugLog -----------------------------
(* Finite instances of DebugLog.                                           *)
EXTENDS DebugLog
=============================================================================
