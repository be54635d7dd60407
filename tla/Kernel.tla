------------------------------- MODULE Kernel -------------------------------
(***************************************************************************)
(* The thread, mutex and I/O-waiting calls of VirtualMachine.cpp, run by    *)
(* the threads of an application and interrupted by the alarm and by I/O   *)
(* completions.                                                            *)
(*                                                                         *)
(* A call runs with signals suspended until it gives the processor up, so  *)
(* each stretch of a call up to its return, or to the scheduleNext inside  *)
(* it, is one action.  frame[t] says where thread t is: in its own code    *)
(* ("user", signals enabled), or in the rest of a call whose scheduleNext  *)
(* switched it away.  A thread that resumes in the rest of a call must     *)
(* finish it before a signal can be taken.                                 *)
(***************************************************************************)
EXTENDS Scheduler, FiniteSets

CONSTANTS
  SleepTimes,       \* the ticks an application passes to VMThreadSleep
  AcquireTimeouts,  \* the timeouts it passes to VMMutexAcquire
  Reentrant,        \* whether a thread may ask for a mutex it already owns
  Victims,          \* the threads an application names in VMThreadTerminate
  MutexUsers,       \* the threads that use mutexes
  IOUsers,          \* the threads that do I/O
  MaxIO             \* bound: requests of one thread that are not answered yet

ASSUME ProfileAssumption ==
  /\ SleepTimes \subseteq Tick \ {VM_TIMEOUT_INFINITE}
  /\ AcquireTimeouts \subseteq Tick
  /\ Reentrant \in BOOLEAN
  /\ Victims \subseteq Thread
  /\ MutexUsers \subseteq App
  /\ IOUsers \subseteq App
  /\ MaxIO \in Nat

(***************************************************************************)
(* VMThreadTerminate looks at nothing but the state of the thread: it takes *)
(* the idle thread too.  An application that leaves the idle thread alone. *)
(***************************************************************************)
IdleSpared == Idle \notin Victims

VARIABLES
  vm,      \* the scheduler, its threads and its mutexes
  frame,   \* where each thread is: its own code or the rest of a call
  io,      \* the I/O requests of each thread the machine has not answered
  due      \* history: the ticks that are still to pass before a wait is over

vars == <<vm, frame, io, due>>

Ops == {"user", "sleep", "acquire", "io", "exit", "memory", "console"}

Frames == [op : Ops, mutex : MutexID \union {NULL_MUTEX}, timeout : Tick]

User == [op |-> "user", mutex |-> NULL_MUTEX, timeout |-> 0]

TypeOK ==
  /\ vm \in KernelState
  /\ frame \in [Thread -> Frames]
  /\ io \in [Thread -> Nat]
  /\ due \in [Thread -> Tick]

(***************************************************************************)
(* The state VMStart has built when it calls VMMain: the main thread runs, *)
(* the idle thread was activated and then added to the ready queue once    *)
(* more, and mutex 1, FILE_SYSTEM_MUTEX, exists.                           *)
(***************************************************************************)
Init ==
  /\ vm = [ allThreads   |-> {Main, Idle},
            nextTID      |-> 3,
            state        |-> [t \in Thread |-> CASE t = Main -> "RUNNING"
                                                 [] t = Idle -> "READY"
                                                 [] OTHER    -> "DEAD"],
            waitingFor   |-> [t \in Thread |-> NOTHING],
            ticksLeft    |-> [t \in Thread |-> 0],
            infiniteFlag |-> [t \in Thread |-> FALSE],
            mWants       |-> [t \in Thread |-> NULL_MUTEX],
            mHeld        |-> [t \in Thread |-> <<>>],
            ready        |-> [p \in Priorities |->
                                IF p = Priority[Idle] THEN <<Idle, Idle>> ELSE <<>>],
            waiting      |-> [r \in Reasons |-> <<>>],
            memQueue     |-> [p \in Priorities |-> <<>>],
            current      |-> Main,
            mutexes      |-> {1},
            nextMID      |-> 2,
            isLocked     |-> [m \in MutexID |-> FALSE],
            owner        |-> [m \in MutexID |-> NoThread],
            mWaiting     |-> [m \in MutexID |-> [p \in Priorities |-> <<>>]],
            fault        |-> "none" ]
  /\ frame = [t \in Thread |-> User]
  /\ io = [t \in Thread |-> 0]
  /\ due = [t \in Thread |-> 0]

-----------------------------------------------------------------------------
curr == vm.current

(* The current thread runs its own code, with signals enabled.             *)
InUser == vm.fault = "none" /\ frame[curr].op = "user"

(* The current thread is about to finish the call op.                      *)
Finishing(op) == vm.fault = "none" /\ frame[curr].op = op

(* The idle thread calls nothing.                                          *)
Calls == InUser /\ curr # Idle

Suspend(op, m, n) ==
  frame' = [frame EXCEPT ![curr] = [op |-> op, mutex |-> m, timeout |-> n]]

Return == frame' = [frame EXCEPT ![curr] = User]

-----------------------------------------------------------------------------
(* Threads                                                                 *)

VMThreadCreate ==
  /\ Calls
  /\ vm.nextTID <= MaxTID
  /\ vm' = [vm EXCEPT !.allThreads = @ \union {vm.nextTID},
                      !.nextTID = @ + 1]
  /\ UNCHANGED <<frame, io, due>>

(* Mutant: the thread need not be DEAD.                                    *)
DeleteLiving(t) ==
  /\ Calls
  /\ t \in vm.allThreads \ {Main}
  /\ vm' = [vm EXCEPT !.allThreads = @ \ {t}]
  /\ UNCHANGED <<frame, io, due>>

(***************************************************************************)
(* The main thread has no stack of its own: VMMemoryPoolDeallocate(NULL)   *)
(* fails and the call returns before the control block is freed.           *)
(***************************************************************************)
VMThreadDelete(t) ==
  /\ Calls
  /\ t \in vm.allThreads \ {Main}
  /\ vm.state[t] = "DEAD"
  /\ vm' = [vm EXCEPT !.allThreads = @ \ {t}]
  /\ UNCHANGED <<frame, io, due>>

(***************************************************************************)
(* The main thread, once terminated, is not activated again: it would get  *)
(* a context on the stack it does not have.                                *)
(***************************************************************************)
VMThreadActivate(t) ==
  /\ Calls
  /\ t \in vm.allThreads \ {Main}
  /\ vm.state[t] = "DEAD"
  /\ vm' = Preempt(AddToReady(vm, t), t)
  /\ frame' = [frame EXCEPT ![t] = User]
  /\ UNCHANGED <<io, due>>

(***************************************************************************)
(* The mutexes of thread t are passed on one by one.  mHeld is cleared     *)
(* only after the loop, and grows when t is handed a mutex it waits for    *)
(* itself: such a mutex is met again.  Each round takes an entry of mHeld  *)
(* and adds one only if it takes a waiter, so the rounds are bounded.      *)
(***************************************************************************)
ReleaseNext(x, t) ==
  IF x.i > Len(x.k.mHeld[t])
  THEN x
  ELSE LET m == x.k.mHeld[t][x.i]
           n == NextOwner(Unlock(x.k, m), m)
           k == IF m \in x.k.mutexes THEN x.k ELSE Fault(x.k, "null")
       IN  [ k       |-> PassOn(k, m),
             i       |-> x.i + 1,
             preempt |-> \/ x.preempt
                         \/ n # NoThread /\ Priority[n] > Priority[k.current] ]

(* The entries of the mutexes' waiting queues.                             *)
Waits(k) ==
  UNION {{<<m, p, j>> : j \in 1 .. Len(k.mWaiting[m][p])} :
           m \in MutexID, p \in Priorities}

ReleaseAll(k, t) ==
  LET last == Len(k.mHeld[t]) + Cardinality(Waits(k))
      loop[n \in 0 .. last] ==
        IF n = 0
        THEN [k |-> k, i |-> 1, preempt |-> FALSE]
        ELSE ReleaseNext(loop[n - 1], t)
  IN  [loop[last] EXCEPT !.k.mHeld[t] = <<>>]

(* Mutant: a READY thread stays in the ready queue.                        *)
LeaveWaitingOnly(k, t, was) ==
  IF was = "WAITING" /\ k.waitingFor[t] = WAITING_MUTEX /\ k.mWants[t] \in k.mutexes
  THEN RemoveFromWaiting(StopWaiting(k, k.mWants[t], t), t)
  ELSE RemoveFromWaiting(k, t)

(* Mutant: a thread that waits for a mutex stays in the mutex's queue.     *)
LeaveWaitersQueued(k, t, was) ==
  CASE was = "READY"   -> RemoveFromReady(k, t)
    [] was = "WAITING" -> RemoveFromWaiting(k, t)
    [] OTHER -> k

(* The queues are left as the state t had on entry says.                   *)
LeaveQueues(k, t, was) ==
  CASE was = "READY"   -> RemoveFromReady(k, t)
    [] was = "WAITING" ->
         LET w == k.mWants[t]
             k1 == CASE k.waitingFor[t] = WAITING_MUTEX /\ w \in k.mutexes ->
                          StopWaiting(k, w, t)
                     [] k.waitingFor[t] = WAITING_MEMORY ->
                          RemoveFromMemoryQueue(k, t)
                     [] OTHER -> k
         IN  RemoveFromWaiting(k1, t)
    [] OTHER -> k

(* Mutant: a higher thread that is handed a mutex does not preempt.        *)
TerminateCalmly(k, t) ==
  LET was  == k.state[t]
      left == LeaveQueues(ReleaseAll([k EXCEPT !.state[t] = "DEAD"], t).k, t, was)
  IN  IF was = "RUNNING" THEN ScheduleNext(left) ELSE left

Terminate(k, t) ==
  LET was  == k.state[t]
      rel  == ReleaseAll([k EXCEPT !.state[t] = "DEAD"], t)
      left == LeaveQueues(rel.k, t, was)
  IN  CASE was = "RUNNING" -> ScheduleNext(left)
        [] was # "RUNNING" /\ rel.preempt -> Yield(left)
        [] OTHER -> left

(***************************************************************************)
(* A thread names t, another thread or itself.  A caller that names itself *)
(* gives the processor up if it was RUNNING; if a stale wait has left it   *)
(* READY or WAITING, the call returns to it.                               *)
(***************************************************************************)
VMThreadTerminate(t) ==
  /\ Calls
  /\ t \in Victims
  /\ t \in vm.allThreads
  /\ vm.state[t] # "DEAD"
  /\ vm' = Terminate(vm, t)
  /\ UNCHANGED <<frame, io, due>>

(***************************************************************************)
(* The thread's entry function returns and skeletonEntry terminates the    *)
(* thread.  The main thread has no skeletonEntry.                          *)
(***************************************************************************)
SkeletonExit ==
  /\ Calls
  /\ curr # Main
  /\ vm' = IF curr \in vm.allThreads /\ vm.state[curr] # "DEAD"
           THEN Terminate(vm, curr)
           ELSE vm
  /\ Suspend("exit", NULL_MUTEX, 0)
  /\ UNCHANGED <<io, due>>

(* VMThreadTerminate came back: skeletonEntry returns and boot aborts.     *)
ExitReturns ==
  /\ Finishing("exit")
  /\ vm' = Fault(vm, "abort")
  /\ UNCHANGED <<frame, io, due>>

VMThreadSleep(n) ==
  /\ Calls
  /\ vm' = IF n = VM_TIMEOUT_IMMEDIATE
           THEN Yield(vm)
           ELSE Block([vm EXCEPT !.ticksLeft[curr] = n], WAITING_SLEEP)
  /\ Suspend("sleep", NULL_MUTEX, n)
  /\ due' = [due EXCEPT ![curr] = IF n = VM_TIMEOUT_IMMEDIATE THEN 0 ELSE n]
  /\ UNCHANGED io

SleepReturns ==
  /\ Finishing("sleep")
  /\ Return
  /\ due' = [due EXCEPT ![curr] = 0]
  /\ UNCHANGED <<vm, io>>

-----------------------------------------------------------------------------
(* Mutexes                                                                 *)

VMMutexCreate ==
  /\ Calls
  /\ curr \in MutexUsers
  /\ vm.nextMID <= MaxMID
  /\ vm' = [vm EXCEPT !.mutexes = @ \union {vm.nextMID},
                      !.nextMID = @ + 1]
  /\ UNCHANGED <<frame, io, due>>

VMMutexDelete(m) ==
  /\ Calls
  /\ curr \in MutexUsers
  /\ m \in vm.mutexes
  /\ ~ vm.isLocked[m]
  /\ vm' = [vm EXCEPT !.mutexes = @ \ {m}]
  /\ UNCHANGED <<frame, io, due>>

(* A free mutex is taken at once.                                          *)
AcquireFree(m) ==
  /\ Calls
  /\ curr \in MutexUsers
  /\ m \in vm.mutexes
  /\ ~ vm.isLocked[m]
  /\ vm' = [vm EXCEPT !.mHeld[curr] = Append(@, m),
                      !.isLocked[m] = TRUE,
                      !.owner[m] = curr]
  /\ UNCHANGED <<frame, io, due>>

(***************************************************************************)
(* A locked one is waited for, unless the timeout is IMMEDIATE: then the   *)
(* call fails and changes nothing.                                         *)
(***************************************************************************)
AcquireLocked(m, n) ==
  /\ Calls
  /\ curr \in MutexUsers
  /\ m \in vm.mutexes
  /\ vm.isLocked[m]
  /\ vm.owner[m] = curr => Reentrant
  /\ n # VM_TIMEOUT_IMMEDIATE
  /\ LET k == IF n = VM_TIMEOUT_INFINITE
              THEN [vm EXCEPT !.infiniteFlag[curr] = TRUE,
                              !.ticksLeft[curr] = TickMax]
              ELSE [vm EXCEPT !.ticksLeft[curr] = n]
     IN  vm' = Block(WantsMutex(k, m, curr), WAITING_MUTEX)
  /\ Suspend("acquire", m, n)
  /\ due' = [due EXCEPT ![curr] = n]
  /\ UNCHANGED io

(***************************************************************************)
(* The rest of VMMutexAcquire: the call succeeds when its caller owns the  *)
(* mutex now.                                                              *)
(***************************************************************************)
AcquireReturns ==
  LET m == frame[curr].mutex
  IN  /\ Finishing("acquire")
      /\ vm' = IF m \in vm.mutexes THEN StopWaiting(vm, m, curr)
                                   ELSE Fault(vm, "freed")
      /\ Return
      /\ due' = [due EXCEPT ![curr] = 0]
      /\ UNCHANGED io

(* Mutant: anyone may release the mutex.                                   *)
ReleaseByAnyone(m) ==
  /\ Calls
  /\ m \in vm.mutexes
  /\ vm.isLocked[m]
  /\ vm' = PassOn([vm EXCEPT !.mHeld[curr] = EraseEach(@, m)], m)
  /\ UNCHANGED <<frame, io, due>>

VMMutexRelease(m) ==
  /\ Calls
  /\ m \in vm.mutexes
  /\ vm.isLocked[m]
  /\ vm.owner[m] = curr
  /\ LET t == NextOwner(Unlock(vm, m), m)
         k == PassOn([vm EXCEPT !.mHeld[curr] = EraseEach(@, m)], m)
     IN  vm' = IF t # NoThread /\ Priority[t] > Priority[curr]
               THEN Yield(k)
               ELSE k
  /\ UNCHANGED <<frame, io, due>>

-----------------------------------------------------------------------------
(* Signals                                                                 *)

(* Mutant: the thread the tick interrupts is not put back in line.         *)
TickForGood(k) == ScheduleNext(ProcessAllWaiting(k))

(* What a tick does to the scheduler.                                      *)
TickOf(k) == Yield(ProcessAllWaiting(k))

(* A tick, taken while the current thread runs its own code.               *)
AlarmHandler ==
  /\ InUser
  /\ UNCHANGED <<frame, io>>
  /\ due' = [t \in Thread |-> IF due[t] = 0 THEN 0 ELSE due[t] - 1]
  /\ vm' = TickOf(vm)

(* Mutant: the caller stays ready while its request is served.             *)
WaitForIOReady ==
  /\ Calls
  /\ curr \in IOUsers
  /\ io[curr] < MaxIO
  /\ vm' = Yield(vm)
  /\ io' = [io EXCEPT ![curr] = @ + 1]
  /\ Suspend("io", NULL_MUTEX, 0)
  /\ UNCHANGED due

(* A call asks the machine for I/O and waits for the answer.               *)
WaitForIO ==
  /\ Calls
  /\ curr \in IOUsers
  /\ io[curr] < MaxIO
  /\ vm' = Block(vm, WAITING_IO)
  /\ io' = [io EXCEPT ![curr] = @ + 1]
  /\ Suspend("io", NULL_MUTEX, 0)
  /\ UNCHANGED due

(***************************************************************************)
(* The answer to a request of thread t.  calldata is t's control block,    *)
(* whether or not t is still the thread that asked.                        *)
(***************************************************************************)
FileHandler(t) ==
  /\ InUser
  /\ io[t] > 0
  /\ io' = [io EXCEPT ![t] = @ - 1]
  /\ vm' = CASE t \notin vm.allThreads -> Fault(vm, "freed")
              [] t \in vm.allThreads /\ vm.state[t] = "DEAD" -> vm
              [] OTHER -> Preempt(AddToReady(RemoveFromWaiting(vm, t), t), t)
  /\ UNCHANGED <<frame, due>>

IOReturns ==
  /\ Finishing("io")
  /\ Return
  /\ UNCHANGED <<vm, io, due>>

-----------------------------------------------------------------------------
(* What the current thread may call, what it must finish, what interrupts. *)
Call ==
  \/ VMThreadCreate
  \/ \E t \in Thread : VMThreadDelete(t)
  \/ \E t \in Thread : VMThreadActivate(t)
  \/ \E t \in Thread : VMThreadTerminate(t)
  \/ SkeletonExit
  \/ \E n \in SleepTimes : VMThreadSleep(n)
  \/ VMMutexCreate
  \/ \E m \in MutexID : VMMutexDelete(m)
  \/ \E m \in MutexID : AcquireFree(m)
  \/ \E m \in MutexID, n \in AcquireTimeouts : AcquireLocked(m, n)
  \/ \E m \in MutexID : VMMutexRelease(m)
  \/ WaitForIO

Finish == ExitReturns \/ SleepReturns \/ AcquireReturns \/ IOReturns

Signal == AlarmHandler \/ \E t \in Thread : FileHandler(t)

Next == Call \/ Finish \/ Signal

Spec == Init /\ [][Next]_vars

-----------------------------------------------------------------------------
(* Properties of every application that does not terminate the idle thread *)

(***************************************************************************)
(* scheduleNext dereferences what it finds without looking: it is safe as  *)
(* long as no one terminates the idle thread, because VMStart queues it    *)
(* twice and each switch away from it puts it back, so that one entry is   *)
(* left whenever the idle thread itself runs.  Each termination of thread  *)
(* 2 takes an entry out for good: after two the queues may run empty.      *)
(***************************************************************************)
IdleIsQueued ==
  /\ Len(vm.ready[VM_THREAD_PRIORITY_NONE]) = IF curr = Idle THEN 1 ELSE 2
  /\ vm.fault # "null"

(***************************************************************************)
(* Preemptive priorities: whenever a handler is done, no ready thread has  *)
(* a higher priority than the one that runs.                               *)
(***************************************************************************)
HighestRuns ==
  \A p \in Priorities : p > Priority[curr] => vm.ready[p] = <<>>

(***************************************************************************)
(* The two records of who holds a mutex, Mutex::owner and the threads'     *)
(* mHeld lists, agree, and no list names a mutex twice.  VMThreadTerminate *)
(* walks mHeld, VMMutexRelease trusts owner.                               *)
(***************************************************************************)
HoldersAgree ==
  /\ \A t \in Thread, m \in MutexID :
       Holds(vm.mHeld[t], m) <=> vm.isLocked[m] /\ vm.owner[m] = t
  /\ \A t \in Thread : \A i, j \in 1 .. Len(vm.mHeld[t]) :
       vm.mHeld[t][i] = vm.mHeld[t][j] => i = j

(***************************************************************************)
(* No waiter is forgotten: a mutex that is not locked has no one waiting,  *)
(* and only a mutex that is not deleted is locked.                         *)
(***************************************************************************)
NoWaiterForgotten ==
  \A m \in MutexID :
    /\ ~ vm.isLocked[m] => AllEmpty(vm.mWaiting[m])
    /\ vm.isLocked[m] => m \in vm.mutexes

-----------------------------------------------------------------------------
(* Properties of an application without timed waits for mutexes, that      *)
(* neither asks for a mutex it owns nor terminates a thread that does I/O  *)

Count(q, t) == Cardinality({j \in 1 .. Len(q) : q[j] = t})

(***************************************************************************)
(* A thread is in the one queue its state calls for, once, and the one     *)
(* RUNNING thread is the current one.  VMThreadTerminate takes a single    *)
(* entry out of the queue the state names: another one would resurrect it. *)
(***************************************************************************)
InOneQueue ==
  /\ \A t \in Thread : vm.state[t] = "RUNNING" <=> t = curr
  /\ \A t \in App :
       /\ Count(vm.ready[Priority[t]], t) = IF vm.state[t] = "READY" THEN 1 ELSE 0
       /\ \A r \in Reasons :
            Count(vm.waiting[r], t) =
              IF vm.state[t] = "WAITING" /\ vm.waitingFor[t] = r THEN 1 ELSE 0
       /\ \A m \in MutexID :
            Count(vm.mWaiting[m][Priority[t]], t) =
              IF /\ vm.state[t] = "WAITING"
                 /\ vm.waitingFor[t] = WAITING_MUTEX
                 /\ vm.mWants[t] = m
              THEN 1 ELSE 0

(* VMThreadSleep(n) does not return before n ticks have passed.            *)
SleepsLongEnough == Finishing("sleep") => due[curr] = 0

(***************************************************************************)
(* VMMutexAcquire with VM_TIMEOUT_INFINITE returns only with the mutex.    *)
(***************************************************************************)
InfiniteAcquireSucceeds ==
  Finishing("acquire") /\ frame[curr].timeout = VM_TIMEOUT_INFINITE =>
    vm.isLocked[frame[curr].mutex] /\ vm.owner[frame[curr].mutex] = curr

(***************************************************************************)
(* The answer a thread resumes with is that of its own request: none is    *)
(* left to come.                                                           *)
(***************************************************************************)
OwnAnswer == Finishing("io") => io[curr] = 0

(* No freed control block or mutex is used, and no thread aborts the VM.   *)
NoFault == vm.fault = "none"

(* A terminated thread lives again only through VMThreadActivate.          *)
OnlyActivateRevives ==
  [][\A t \in Thread :
       vm.state[t] = "DEAD" /\ vm'.state[t] # "DEAD" => VMThreadActivate(t)]_vars

(***************************************************************************)
(* A mutex is taken from its owner by the owner's own call, or because the *)
(* owner is terminated; it then passes on or becomes free.                 *)
(***************************************************************************)
OwnerKeeps ==
  [][\A m \in MutexID, t \in Thread :
       vm.isLocked[m] /\ vm.owner[m] = t /\ vm'.owner[m] # t =>
         curr = t \/ vm'.state[t] = "DEAD"]_vars

(* VMThreadTerminate leaves the thread it terminates DEAD.                 *)
TerminatedIsDead ==
  [][\A t \in Thread : VMThreadTerminate(t) => vm'.state[t] = "DEAD"]_vars

=============================================================================
