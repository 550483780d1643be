---------------------------- MODULE MC_OrderFlow ----------------------------
(* OrderFlow instantiated for TLC. *)
EXTENDS OrderFlow

=============================================================================
