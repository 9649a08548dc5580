---------------------------- MODULE MCManagement ----------------------------
(* Small instances of Management for TLC. *)
EXTENDS Management, TLC
=============================================================================
