------------------------------ MODULE MCSystem ------------------------------
(* A small instance of System.                                             *)
EXTENDS System

AllThreads == Thread

(* Main is NORMAL; the other threads of the application are HIGH.          *)
AllHigh == [t \in Thread |-> CASE t = Main -> 2 [] t = Idle -> 0 [] OTHER -> 3]

=============================================================================
