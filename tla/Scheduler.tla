----------------------------- MODULE Scheduler -----------------------------
(***************************************************************************)
(* The data the virtual machine's calls share, and the methods that change *)
(* it: Scheduler.cpp, ThreadControlBlock.cpp, Mutex.cpp and the memory     *)
(* queue of MemoryManager.cpp.  A value k of KernelState is one snapshot   *)
(* of that data; every method is an operator from snapshots to snapshots,  *)
(* so that a handler is written as the chain of calls it makes.            *)
(*                                                                         *)
(* A thread is named by its TID.  Dereferencing the control block of a     *)
(* thread that VMThreadDelete has freed, a NULL pointer, or returning from *)
(* a thread's first function is recorded in k.fault; nothing is promised   *)
(* after it.                                                               *)
(***************************************************************************)
EXTENDS Integers, Sequences, SequencesExt

CONSTANTS
  MaxTID,       \* bound: thread identifiers run from 1 to MaxTID
  MaxMID,       \* bound: mutex identifiers run from 1 to MaxMID
  Priority,     \* the priority each thread is created with
  TickMax       \* the largest value of a TVMTick, 2^32 - 1 in the code

Main == 1
Idle == 2
NoThread == 0

VM_THREAD_PRIORITY_NONE == 0
VM_THREAD_PRIORITY_NORMAL == 2
VM_THREAD_PRIORITY_HIGH == 3
Priorities == VM_THREAD_PRIORITY_NONE .. VM_THREAD_PRIORITY_HIGH

VM_TIMEOUT_INFINITE == 0
VM_TIMEOUT_IMMEDIATE == TickMax

Thread == 1 .. MaxTID
App == Thread \ {Idle}
MutexID == 1 .. MaxMID
NULL_MUTEX == 0
Tick == 0 .. TickMax

ASSUME BoundsAssumption ==
  /\ MaxTID \in Nat /\ MaxTID >= 2
  /\ MaxMID \in Nat /\ MaxMID >= 1
  /\ TickMax \in Nat /\ TickMax >= 2

(***************************************************************************)
(* VMStart gives the idle thread priority NONE and the main thread NORMAL; *)
(* an application's threads are LOW, NORMAL or HIGH.                       *)
(***************************************************************************)
ASSUME PriorityAssumption ==
  /\ Priority \in [Thread -> Priorities]
  /\ Priority[Idle] = VM_THREAD_PRIORITY_NONE
  /\ Priority[Main] = VM_THREAD_PRIORITY_NORMAL
  /\ \A t \in App : Priority[t] # VM_THREAD_PRIORITY_NONE

-----------------------------------------------------------------------------
(* Why a thread waits; also the index of the queue it waits in.            *)
WAITING_IO == 0
WAITING_MUTEX == 1
WAITING_SLEEP == 2
WAITING_MEMORY == 3
NOTHING == 4
Reasons == WAITING_IO .. WAITING_MEMORY

ThreadStates == {"DEAD", "RUNNING", "READY", "WAITING"}
Faults == {"none", "freed", "null", "abort"}

KernelState ==
  [ allThreads   : SUBSET Thread,              \* Scheduler::all_threads
    nextTID      : 1 .. MaxTID + 1,
    state        : [Thread -> ThreadStates],
    waitingFor   : [Thread -> Reasons \union {NOTHING}],
    ticksLeft    : [Thread -> Tick],
    infiniteFlag : [Thread -> BOOLEAN],
    mWants       : [Thread -> MutexID \union {NULL_MUTEX}],
    mHeld        : [Thread -> Seq(MutexID)],
    ready        : [Priorities -> Seq(Thread)],
    waiting      : [Reasons -> Seq(App)],
    memQueue     : [Priorities -> Seq(App)],   \* MemoryManager::waitingQueue
    current      : Thread,
    mutexes      : SUBSET MutexID,
    nextMID      : 1 .. MaxMID + 1,
    isLocked     : [MutexID -> BOOLEAN],
    owner        : [MutexID -> Thread \union {NoThread}],
    mWaiting     : [MutexID -> [Priorities -> Seq(App)]],   \* Mutex::waiting
    fault        : Faults ]

(* The first fault is the one that counts.                                 *)
Fault(k, kind) == [k EXCEPT !.fault = IF @ = "none" THEN kind ELSE @]

(* Following a pointer to the control block of thread t.                   *)
Deref(k, t) == IF t \in k.allThreads THEN k ELSE Fault(k, "freed")

-----------------------------------------------------------------------------
(* Arrays of queues, as vectors indexed by priority or by waiting reason.  *)

(* Mutant: the newcomer goes to the front.                                 *)
PushFront(qs, i, t) == [qs EXCEPT ![i] = <<t>> \o @]

Push(qs, i, t) == [qs EXCEPT ![i] = Append(@, t)]

Holds(q, t) == \E j \in 1 .. Len(q) : q[j] = t

AllEmpty(qs) == \A i \in DOMAIN qs : qs[i] = <<>>

(* The first entry of the highest queue that is not empty is the next one. *)
Top(qs) == CHOOSE i \in DOMAIN qs :
             /\ qs[i] # <<>>
             /\ \A j \in DOMAIN qs : j > i => qs[j] = <<>>

First(qs) == Head(qs[Top(qs)])

Pop(qs) == [qs EXCEPT ![Top(qs)] = Tail(@)]

(* The lowest queue that holds t loses its first entry for t.              *)
Lowest(qs, t) == CHOOSE i \in DOMAIN qs :
                   /\ Holds(qs[i], t)
                   /\ \A j \in DOMAIN qs : j < i => ~ Holds(qs[j], t)

FirstAt(q, t) == CHOOSE j \in 1 .. Len(q) :
                   q[j] = t /\ \A l \in 1 .. Len(q) : l < j => q[l] # t

Without(qs, t) ==
  IF \E i \in DOMAIN qs : Holds(qs[i], t)
  THEN [qs EXCEPT ![Lowest(qs, t)] = RemoveAt(@, FirstAt(@, t))]
  ELSE qs

-----------------------------------------------------------------------------
(* ThreadControlBlock                                                      *)

(* Mutant: the counter goes below zero.                                    *)
DecrementPastZero(k, t) ==
  IF k.infiniteFlag[t] THEN k ELSE [k EXCEPT !.ticksLeft[t] = @ - 1]

(* Mutant: VM_TIMEOUT_INFINITE is counted down like any other timeout.     *)
DecrementInfinite(k, t) ==
  [k EXCEPT !.ticksLeft[t] = IF @ = 0 THEN TickMax ELSE @ - 1]

(* TVMTick is unsigned: decrementing 0 wraps around.                       *)
DecrementTicks(k, t) ==
  IF k.infiniteFlag[t]
  THEN k
  ELSE [k EXCEPT !.ticksLeft[t] = IF @ = 0 THEN TickMax ELSE @ - 1]

(* Mutant: the wait is over one tick early.                                *)
DoneEarly(k, t) == k.ticksLeft[t] <= 1

DoneWaiting(k, t) == k.ticksLeft[t] = 0

HasMutex(k, t) == \E j \in 1 .. Len(k.mHeld[t]) : k.mHeld[t][j] = k.mWants[t]

-----------------------------------------------------------------------------
(* Scheduler                                                               *)

AddToReady(k, t) ==
  [Deref(k, t) EXCEPT !.state[t] = "READY",
                      !.ready = Push(@, Priority[t], t)]

RemoveFromReady(k, t) == [k EXCEPT !.ready = Without(@, t)]

(* waitingFor[t] has been set by the caller.                               *)
AddToWaiting(k, t) ==
  [k EXCEPT !.state[t] = "WAITING",
            !.waiting = Push(@, k.waitingFor[t], t)]

StopsWaiting(k, t) ==
  [k EXCEPT !.waitingFor[t] = NOTHING,
            !.ticksLeft[t] = 0,
            !.infiniteFlag[t] = FALSE]

RemoveFromWaiting(k, t) ==
  IF \E r \in Reasons : Holds(k.waiting[r], t)
  THEN [StopsWaiting(k, t) EXCEPT !.waiting = Without(@, t)]
  ELSE k

(***************************************************************************)
(* processAllWaiting visits the entries its queue had on entry, index i    *)
(* standing still when the entry at i is removed.  The sleep loop tests    *)
(* doneWaiting alone; the mutex loop also hasMutex, and clears mWants.     *)
(***************************************************************************)
VisitWaiting(x, r) ==
  LET t  == x.k.waiting[r][x.i]
      k1 == DecrementTicks(Deref(x.k, t), t)
      k2 == AddToReady(StopsWaiting(k1, t), t)
      k3 == [k2 EXCEPT !.mWants[t] = IF r = WAITING_MUTEX THEN NULL_MUTEX ELSE @,
                       !.waiting[r] = RemoveAt(@, x.i)]
  IN  IF x.counter = 0
      THEN x
      ELSE IF DoneWaiting(k1, t) \/ (r = WAITING_MUTEX /\ HasMutex(k1, t))
      THEN [k |-> k3, i |-> x.i, counter |-> x.counter - 1]
      ELSE [k |-> k1, i |-> x.i + 1, counter |-> x.counter - 1]

ProcessWaiting(k, r) ==
  LET length == Len(k.waiting[r])
      visit[n \in 0 .. length] ==
        IF n = 0
        THEN [k |-> k, i |-> 1, counter |-> length]
        ELSE VisitWaiting(visit[n - 1], r)
  IN  visit[length].k

(* Mutant: the threads that sleep are left out.                            *)
ProcessMutexesOnly(k) == ProcessWaiting(k, WAITING_MUTEX)

ProcessAllWaiting(k) ==
  ProcessWaiting(ProcessWaiting(k, WAITING_SLEEP), WAITING_MUTEX)

(* With no thread ready, newThread stays NULL and is dereferenced.         *)
ScheduleNext(k) ==
  IF AllEmpty(k.ready)
  THEN Fault(k, "null")
  ELSE LET t == First(k.ready)
       IN  [Deref(k, t) EXCEPT !.ready = Pop(@),
                               !.state[t] = "RUNNING",
                               !.current = t]

(* The caller gives the processor up to whoever is first in line.          *)
Yield(k) == ScheduleNext(AddToReady(k, k.current))

(* A higher thread t, just made ready, takes the processor.                *)
Preempt(k, t) == IF Priority[t] > Priority[k.current] THEN Yield(k) ELSE k

(* The caller waits for reason r.                                          *)
Block(k, r) ==
  LET t == k.current
  IN  ScheduleNext(AddToWaiting([k EXCEPT !.waitingFor[t] = r], t))

-----------------------------------------------------------------------------
(* Mutex                                                                   *)

(* The thread getNextOwner returns, NoThread for NULL.                     *)
NextOwner(k, m) ==
  IF k.isLocked[m] \/ AllEmpty(k.mWaiting[m])
  THEN NoThread
  ELSE First(k.mWaiting[m])

(* Mutant: the new owner does not learn that it holds the mutex.           *)
GetNextOwnerUntold(k, m) ==
  LET t == NextOwner(k, m)
  IN  IF t = NoThread
      THEN k
      ELSE [Deref(k, t) EXCEPT !.mWaiting[m] = Pop(@),
                               !.mWants[t] = NULL_MUTEX,
                               !.owner[m] = t,
                               !.isLocked[m] = TRUE]

GetNextOwner(k, m) ==
  LET t == NextOwner(k, m)
  IN  IF t = NoThread
      THEN k
      ELSE [Deref(k, t) EXCEPT !.mWaiting[m] = Pop(@),
                               !.mHeld[t] = Append(@, m),
                               !.mWants[t] = NULL_MUTEX,
                               !.owner[m] = t,
                               !.isLocked[m] = TRUE]

WantsMutex(k, m, t) ==
  [k EXCEPT !.mWants[t] = m,
            !.mWaiting[m] = Push(@, Priority[t], t)]

StopWaiting(k, m, t) ==
  IF \E p \in Priorities : Holds(k.mWaiting[m][p], t)
  THEN [k EXCEPT !.mWants[t] = NULL_MUTEX,
                 !.mWaiting[m] = Without(@, t)]
  ELSE k

Unlock(k, m) == [k EXCEPT !.isLocked[m] = FALSE, !.owner[m] = NoThread]

(* Mutant: the mutex is unlocked and its waiters are left waiting.         *)
PassToNobody(k, m) == Unlock(k, m)

(***************************************************************************)
(* What VMMutexRelease and VMThreadTerminate do with a mutex they let go   *)
(* of: unlock it, pass it to the next waiter, and make that waiter ready.  *)
(***************************************************************************)
PassOn(k, m) ==
  LET free == Unlock(k, m)
      t    == NextOwner(free, m)
  IN  IF t = NoThread
      THEN free
      ELSE AddToReady(RemoveFromWaiting(GetNextOwner(free, m), t), t)

-----------------------------------------------------------------------------
(***************************************************************************)
(* for(i = 0; i < q.size(); i++) if(q[i] == t) q.erase(i);  the loop steps *)
(* over the entry that follows the one it erases, so of two adjacent       *)
(* entries for t only the first goes.                                      *)
(***************************************************************************)
EraseNext(x, e, t) ==
  IF e = t /\ ~ x.erased
  THEN [kept |-> x.kept, erased |-> TRUE]
  ELSE [kept |-> Append(x.kept, e), erased |-> FALSE]

EraseEach(q, t) ==
  LET scan[n \in 0 .. Len(q)] ==
        IF n = 0
        THEN [kept |-> <<>>, erased |-> FALSE]
        ELSE EraseNext(scan[n - 1], q[n], t)
  IN  scan[Len(q)].kept

(* MemoryManager: the threads waiting for a block of shared memory.        *)
RemoveFromMemoryQueue(k, t) ==
  [k EXCEPT !.memQueue = [p \in Priorities |-> EraseEach(@[p], t)]]

=============================================================================
