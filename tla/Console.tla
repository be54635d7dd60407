------------------------------ MODULE Console -------------------------------
(***************************************************************************)
(* VMFileRead and VMFileWrite on a file descriptor below 3, run by the     *)
(* threads of Kernel.  Both copy through a block of shared memory, 512     *)
(* bytes at a time: they take a block, waiting while none is free, pass it *)
(* to the machine once per 512 bytes of the request, waiting for each      *)
(* answer, and give the block back.  They change the state alike and are   *)
(* one set of actions here; what is copied is left out.                    *)
(***************************************************************************)
EXTENDS Kernel

CONSTANTS
  Blocks,         \* how many blocks the shared memory holds
  Rounds,         \* the numbers of 512-byte rounds that are asked for
  ConsoleUsers,   \* the threads that use the console
  Results         \* what the machine answers: "ok", or "error" for result < 0

ASSUME ConsoleAssumption ==
  /\ Blocks \in Nat \ {0}
  /\ Rounds \subseteq Nat
  /\ ConsoleUsers \subseteq App
  /\ Results \subseteq {"ok", "error"}

VARIABLES
  freeBlocks,   \* blocks of shared memory no call has taken
  left,         \* the rounds that are left of each thread's call
  result        \* ThreadControlBlock::result

consoleVars == <<freeBlocks, left, result>>

allVars == <<vars, consoleVars>>

ConsoleTypeOK ==
  /\ TypeOK
  /\ freeBlocks \in 0 .. Blocks
  /\ left \in [Thread -> Nat]
  /\ result \in [Thread -> {"ok", "error"}]

ConsoleInit ==
  /\ Init
  /\ freeBlocks = Blocks
  /\ left = [t \in Thread |-> 0]
  /\ result = [t \in Thread |-> "ok"]

-----------------------------------------------------------------------------
(* Mutant: the thread that is woken stays in the memory queue.             *)
WakeTop(k) ==
  IF AllEmpty(k.memQueue)
  THEN k
  ELSE AddToReady(RemoveFromWaiting(k, First(k.memQueue)), First(k.memQueue))

(* The thread that has waited longest at the highest priority, if any, is  *)
(* made ready to try again.                                                *)
WakeNext(k) ==
  IF AllEmpty(k.memQueue)
  THEN k
  ELSE LET t == First(k.memQueue)
       IN  AddToReady(RemoveFromWaiting([k EXCEPT !.memQueue = Pop(@)], t), t)

(* Wait for an answer from the machine.                                    *)
Request(n) ==
  /\ vm' = Block(vm, WAITING_IO)
  /\ io' = [io EXCEPT ![curr] = @ + 1]
  /\ left' = [left EXCEPT ![curr] = n]
  /\ Suspend("console", NULL_MUTEX, 0)

(* Mutant: the block is not given back.                                    *)
FailKeepingBlock ==
  /\ vm' = WakeNext(vm)
  /\ left' = [left EXCEPT ![curr] = 0]
  /\ Return
  /\ UNCHANGED <<io, freeBlocks>>

(* Mutant: the call fails and wakes no one.                                *)
FailSilently ==
  /\ vm' = vm
  /\ freeBlocks' = freeBlocks + 1
  /\ left' = [left EXCEPT ![curr] = 0]
  /\ Return
  /\ UNCHANGED io

(* The call fails: the block is given back, and the thread that is woken   *)
(* does not preempt the caller.                                            *)
Fail ==
  /\ vm' = WakeNext(vm)
  /\ freeBlocks' = freeBlocks + 1
  /\ left' = [left EXCEPT ![curr] = 0]
  /\ Return
  /\ UNCHANGED io

(* Mutant: no one is told that a block is free.                            *)
SucceedSilently(free) ==
  /\ vm' = vm
  /\ freeBlocks' = free
  /\ left' = [left EXCEPT ![curr] = 0]
  /\ Return
  /\ UNCHANGED io

(* Mutant: the thread that is woken never gets the processor at once.      *)
SucceedCalmly(free) ==
  /\ vm' = WakeNext(vm)
  /\ freeBlocks' = free
  /\ left' = [left EXCEPT ![curr] = 0]
  /\ Return
  /\ UNCHANGED io

(* The call succeeds, leaving free blocks; the thread that is woken gets   *)
(* the processor if its priority is higher.                                *)
Succeed(free) ==
  /\ vm' = IF AllEmpty(vm.memQueue)
           THEN vm
           ELSE Preempt(WakeNext(vm), First(vm.memQueue))
  /\ freeBlocks' = free
  /\ left' = [left EXCEPT ![curr] = 0]
  /\ Return
  /\ UNCHANGED io

(* Mutant: the block is not counted as taken.                              *)
TakeUncounted(n) ==
  \/ /\ freeBlocks > 0 /\ n > 0
     /\ Request(n)
     /\ UNCHANGED freeBlocks
  \/ /\ freeBlocks > 0 /\ n = 0
     /\ Succeed(freeBlocks)

(***************************************************************************)
(* Take a block and start, or wait for one.  A request of no bytes takes a *)
(* block and gives it back at once.                                        *)
(***************************************************************************)
TakeBlock(n) ==
  \/ /\ freeBlocks > 0 /\ n > 0
     /\ freeBlocks' = freeBlocks - 1
     /\ Request(n)
  \/ /\ freeBlocks > 0 /\ n = 0
     /\ Succeed(freeBlocks)
  \/ /\ freeBlocks = 0
     /\ vm' = Block([vm EXCEPT !.memQueue = Push(@, Priority[curr], curr)],
                    WAITING_MEMORY)
     /\ left' = [left EXCEPT ![curr] = n]
     /\ Suspend("memory", NULL_MUTEX, 0)
     /\ UNCHANGED <<io, freeBlocks>>

ConsoleCall(n) ==
  /\ Calls
  /\ curr \in ConsoleUsers
  /\ TakeBlock(n)
  /\ UNCHANGED <<due, result>>

(* A thread woken for a block finds one, or waits again.                   *)
Retry ==
  /\ Finishing("memory")
  /\ TakeBlock(left[curr])
  /\ UNCHANGED <<due, result>>

(* A round is over.                                                        *)
RoundReturns ==
  /\ Finishing("console")
  /\ \/ /\ result[curr] = "error"
        /\ Fail
     \/ /\ result[curr] = "ok" /\ left[curr] > 1
        /\ Request(left[curr] - 1)
        /\ UNCHANGED freeBlocks
     \/ /\ result[curr] = "ok" /\ left[curr] = 1
        /\ Succeed(freeBlocks + 1)
  /\ UNCHANGED <<due, result>>

(* fileHandler leaves the result in the control block of a living thread.  *)
Answer(t) ==
  /\ FileHandler(t)
  /\ \E r \in Results :
       result' = IF vm.state[t] = "DEAD" THEN result ELSE [result EXCEPT ![t] = r]
  /\ UNCHANGED <<freeBlocks, left>>

ConsoleStep == (\E n \in Rounds : ConsoleCall(n)) \/ Retry \/ RoundReturns

ConsoleNext ==
  \/ ConsoleStep
  \/ (Call \/ Finish \/ AlarmHandler) /\ UNCHANGED consoleVars
  \/ \E t \in Thread : Answer(t)

ConsoleSpec == ConsoleInit /\ [][ConsoleNext]_allVars

-----------------------------------------------------------------------------
(* Properties of an application that terminates no thread in a console call *)

(***************************************************************************)
(* Shared memory does not leak: the blocks that are taken are those of the *)
(* living threads that wait for a round of theirs.                         *)
(***************************************************************************)
InRound == {t \in Thread : frame[t].op = "console" /\ vm.state[t] # "DEAD"}

BlocksAccounted == freeBlocks + Cardinality(InRound) = Blocks

(***************************************************************************)
(* No wake-up is lost: while threads wait for memory, there are no more    *)
(* free blocks than threads that have been woken and will try again.       *)
(***************************************************************************)
Woken ==
  {t \in Thread : frame[t].op = "memory" /\ vm.state[t] \in {"READY", "RUNNING"}}

WakeupsSuffice ==
  ~ AllEmpty(vm.memQueue) => freeBlocks <= Cardinality(Woken)

(* A thread is in the memory queue exactly while it waits for memory, once. *)
MemoryQueueAgrees ==
  \A t \in App :
    Count(vm.memQueue[Priority[t]], t) =
      IF vm.state[t] = "WAITING" /\ vm.waitingFor[t] = WAITING_MEMORY THEN 1 ELSE 0

(***************************************************************************)
(* Only a call that failed keeps a higher thread waiting: the one it woke  *)
(* for the block it gave back.                                             *)
(***************************************************************************)
OnlyErrorsDelay == HighestRuns \/ result[curr] = "error"

=============================================================================
