------------------------------ MODULE MCKernel ------------------------------
(* Small instances of Kernel.                                              *)
EXTENDS Kernel

(* Main is NORMAL; thread 3 is HIGH, thread 4 LOW, thread 5 HIGH.          *)
HighLow == [t \in Thread |-> CASE t = Main -> 2 [] t = Idle -> 0
                               [] t = 3 -> 3 [] t = 4 -> 1 [] OTHER -> 3]

(* Threads 3 and up are all HIGH: they take turns.                         *)
AllHigh == [t \in Thread |-> CASE t = Main -> 2 [] t = Idle -> 0 [] OTHER -> 3]

CONSTANT MaxQueue   \* bound: the longest queue of a state TLC goes on from

ShortQueues ==
  /\ \A p \in Priorities : Len(vm.ready[p]) <= MaxQueue
  /\ \A r \in Reasons : Len(vm.waiting[r]) <= MaxQueue
  /\ \A m \in MutexID, p \in Priorities : Len(vm.mWaiting[m][p]) <= MaxQueue

=============================================================================
