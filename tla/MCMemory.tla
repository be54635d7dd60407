------------------------------ MODULE MCMemory ------------------------------
(* Small instances of MemoryManager.                                       *)
EXTENDS MemoryManager

Everywhere == 1 .. 14

=============================================================================
