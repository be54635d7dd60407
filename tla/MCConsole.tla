----------------------------- MODULE MCConsole ------------------------------
(* A small instance of Console.                                           *)
EXTENDS Console

(* Main is NORMAL; thread 3 is HIGH, thread 4 LOW.                         *)
HighLow == [t \in Thread |-> CASE t = Main -> 2 [] t = Idle -> 0
                               [] t = 3 -> 3 [] OTHER -> 1]

=============================================================================
