------------------------- MODULE MCConcurrentCalls -------------------------
(* Small instances of ConcurrentCalls for TLC.                             *)
EXTENDS ConcurrentCalls

MCCalls == 3

=============================================================================
