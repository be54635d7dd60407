--------------------------- MODULE ConsoleProofs ---------------------------
(***************************************************************************)
(* The invariants of Console, for any number of threads and blocks: shared *)
(* memory does not leak, no wake-up for a block is lost, and only a call   *)
(* that failed delays a higher thread.  The scheduler's part is the        *)
(* invariant of CalmProofs.                                                *)
(***************************************************************************)
EXTENDS Console, CalmProofs

(* No thread that may use the console is terminated by a call.             *)
CalmUsers == Calm /\ Victims \intersect ConsoleUsers = {}

(* The memory queue lists the threads that wait for a block.               *)
MemoryPlace(k) ==
  [u \in Thread |-> IF k.waitingFor[u] = WAITING_MEMORY THEN Priority[u] ELSE NOTHING]

InMemoryQueue(k) == Lines(k.memQueue, Priorities, MemoryPlace(k))

(* A thread in a call lives, and waits for memory only in the call.        *)
Using(k, f, u) ==
  /\ f[u].op \in {"memory", "console"} => k.state[u] # "DEAD" /\ u \in ConsoleUsers
  /\ f[u].op = "memory" => k.waitingFor[u] \in {WAITING_MEMORY, NOTHING}
  /\ k.waitingFor[u] = WAITING_MEMORY => f[u].op = "memory"

InCalls == InMemoryQueue(vm) /\ \A u \in Thread : Using(vm, frame, u)

BlocksOK == freeBlocks \in Nat /\ BlocksAccounted /\ WakeupsSuffice

Served == HighestFirst(vm) \/ result[curr] = "error"

ConsoleInd ==
  /\ CalmInd
  /\ InCalls
  /\ left \in [Thread -> Nat]
  /\ result \in [Thread -> {"ok", "error"}]
  /\ BlocksOK
  /\ Served

-----------------------------------------------------------------------------
(* The threads that hold a block and those that have been told of one      *)

Busy(f) == {u \in Thread : f[u].op = "console"}

Told(k, f) == {u \in Thread : f[u].op = "memory" /\ k.waitingFor[u] = NOTHING}

LEMMA Counted ==
  ASSUME NEW S \in SUBSET Thread, NEW t
  PROVE  /\ IsFiniteSet(S) /\ Cardinality(S) \in Nat
         /\ Cardinality(S \union {t}) = IF t \in S THEN Cardinality(S) ELSE Cardinality(S) + 1
         /\ Cardinality(S \ {t}) = IF t \in S THEN Cardinality(S) - 1 ELSE Cardinality(S)
<1>1. IsFiniteSet(Thread)
  BY BoundsAssumption, FS_Interval DEF Thread
<1>2. IsFiniteSet(S)
  BY <1>1, FS_Subset
<1> QED BY <1>2, FS_CardinalityType, FS_AddElement, FS_RemoveElement

LEMMA ToldType ==
  ASSUME NEW k \in KernelState, NEW f, Standing(k, {}), \A u \in Thread : Using(k, f, u)
  PROVE  /\ Busy(f) = {u \in Thread : f[u].op = "console" /\ k.state[u] # "DEAD"}
         /\ Told(k, f) = {u \in Thread : f[u].op = "memory" /\ k.state[u] \in {"READY", "RUNNING"}}
<1>1. Busy(f) = {u \in Thread : f[u].op = "console" /\ k.state[u] # "DEAD"}
  BY DEF Busy, Using
<1>2. ASSUME NEW u \in Thread, f[u].op = "memory"
      PROVE  k.waitingFor[u] = NOTHING <=> k.state[u] \in {"READY", "RUNNING"}
  <2>1. k.state[u] \in ThreadStates /\ k.state[u] # "DEAD"
    BY <1>2 DEF KernelState, Using
  <2>2. k.state[u] = "WAITING" <=> k.waitingFor[u] # NOTHING
    BY DEF Standing
  <2> QED BY <2>1, <2>2 DEF ThreadStates
<1> QED BY <1>1, <1>2 DEF Told

(* The blocks, in these terms.                                             *)
Supplied(k, f, free) ==
  /\ free \in Nat
  /\ free + Cardinality(Busy(f)) = Blocks
  /\ ~ AllEmpty(k.memQueue) => free <= Cardinality(Told(k, f))

LEMMA BlocksSupplied ==
  CalmInd /\ InCalls => (BlocksOK <=> Supplied(vm, frame, freeBlocks))
<1> SUFFICES ASSUME CalmInd, InCalls PROVE BlocksOK <=> Supplied(vm, frame, freeBlocks)
  OBVIOUS
<1>1. vm \in KernelState /\ Standing(vm, {})
  BY CalmType DEF Placed
<1>2. InRound = Busy(frame) /\ Woken = Told(vm, frame)
  BY <1>1, ToldType DEF InCalls, InRound, Woken
<1> QED BY <1>2 DEF BlocksOK, Supplied, BlocksAccounted, WakeupsSuffice

LEMMA BlocksSuppliedNext ==
  ASSUME CalmInd', InCalls', Supplied(vm', frame', freeBlocks')
  PROVE  BlocksOK'
<1>1. vm' \in KernelState /\ Standing(vm', {})
  <2>1. Good(vm') /\ Placed(vm')
    BY DEF CalmInd, Ind
  <2> QED BY <2>1, GoodType DEF Placed
<1>2. InRound' = Busy(frame') /\ Woken' = Told(vm', frame')
  BY <1>1, ToldType DEF InCalls, InRound, Woken
<1> QED BY <1>2 DEF BlocksOK, Supplied, BlocksAccounted, WakeupsSuffice

-----------------------------------------------------------------------------
(* The steps of Kernel: no thread enters or leaves a call of Console       *)

LEMMA FramesKept ==
  ASSUME CalmInd, InCalls, [Next]_vars, NEW u \in Thread, NEW op \in {"memory", "console"}
  PROVE  /\ frame'[u].op = op <=> frame[u].op = op
         /\ frame[u].op = op => u # curr \/ vm' = vm
<1>1. frame \in [Thread -> Frames] /\ curr \in Thread
  BY CalmType
<1>4. CASE Call
  <2>1. frame[curr].op = "user"
    BY <1>4 DEF Call, VMThreadCreate, VMThreadDelete, VMThreadActivate, VMThreadTerminate,
                SkeletonExit, VMThreadSleep, VMMutexCreate, VMMutexDelete, AcquireFree,
                AcquireLocked, VMMutexRelease, WaitForIO, Calls, InUser
  <2>2. \/ frame' = frame
        \/ \E g \in {"exit", "sleep", "acquire", "io"} :
             \E m \in MutexID \union {NULL_MUTEX}, n \in SleepTimes \union AcquireTimeouts \union {0} :
               frame' = [frame EXCEPT ![curr] = [op |-> g, mutex |-> m, timeout |-> n]]
        \/ \E t \in Thread : vm.state[t] = "DEAD" /\ frame' = [frame EXCEPT ![t] = User]
    BY <1>4 DEF Call, VMThreadCreate, VMThreadDelete, VMThreadActivate, VMThreadTerminate,
                SkeletonExit, VMThreadSleep, VMMutexCreate, VMMutexDelete, AcquireFree,
                AcquireLocked, VMMutexRelease, WaitForIO, Suspend
  <2>3. ASSUME NEW t \in Thread, vm.state[t] = "DEAD", frame' = [frame EXCEPT ![t] = User]
        PROVE  frame'[u].op = op <=> frame[u].op = op
    BY <1>1, <2>3 DEF InCalls, Using, User
  <2> QED BY <1>1, <2>1, <2>2, <2>3
<1>5. CASE Finish
  <2>1. frame[curr].op \in {"exit", "sleep", "acquire", "io"}
    BY <1>5 DEF Finish, ExitReturns, SleepReturns, AcquireReturns, IOReturns, Finishing
  <2>2. frame' = frame \/ frame' = [frame EXCEPT ![curr] = User]
    BY <1>5 DEF Finish, ExitReturns, SleepReturns, AcquireReturns, IOReturns, Return
  <2> QED BY <1>1, <2>1, <2>2 DEF User
<1>6. CASE Signal
  BY <1>1, <1>6 DEF Signal, AlarmHandler, FileHandler, InUser
<1>7. CASE UNCHANGED vars
  BY <1>7 DEF vars
<1> QED BY <1>4, <1>5, <1>6, <1>7 DEF Next

(* A thread that waits for memory is not terminated.                       *)
LEMMA MemoryQueueKept ==
  ASSUME Calm, CalmInd, [Next]_vars
  PROVE  vm'.memQueue = vm.memQueue
<1>1. /\ Good(vm) /\ Placed(vm) /\ vm \in KernelState
      /\ curr = vm.current /\ curr \in Thread /\ \A u \in Thread : ThreadOK(u)
  BY CalmType
<1>2. QueueKept
  BY NextKeeps DEF Calm, CalmInd, IndStep
<1>3. ASSUME NEW t \in App, vm.waitingFor[t] # WAITING_MEMORY, vm.state[t] # "DEAD", curr # Idle
      PROVE  Terminate(vm, t).memQueue = vm.memQueue
  BY <1>1, <1>3, TerminatePlaced
<1>4. ASSUME NEW t \in Thread, VMThreadTerminate(t) PROVE vm'.memQueue = vm.memQueue
  <2>1. /\ t \in App /\ t \in Victims /\ vm.state[t] # "DEAD" /\ curr # Idle
        /\ vm' = Terminate(vm, t)
    BY <1>4 DEF VMThreadTerminate, Calls, Calm, IdleSpared, App
  <2>2. vm.waitingFor[t] # WAITING_MEMORY
    BY <1>1, <2>1 DEF ThreadOK, Asking
  <2> QED BY <1>3, <2>1, <2>2
<1>5. ASSUME SkeletonExit PROVE vm'.memQueue = vm.memQueue
  <2>1. curr \in App /\ curr # Idle /\ vm.state[curr] # "DEAD" /\ vm.waitingFor[curr] # WAITING_MEMORY
    BY <1>1, <1>5, CurrentFree, ReasonsDiffer DEF SkeletonExit, Calls, App
  <2>2. vm' \in {vm, Terminate(vm, curr)}
    BY <1>5 DEF SkeletonExit
  <2> QED BY <1>3, <2>1, <2>2
<1> QED BY <1>2, <1>4, <1>5 DEF QueueKept

LEMMA KernelSteps ==
  ASSUME CalmUsers, CalmInd, InCalls, [Next]_vars
  PROVE  /\ CalmInd' /\ InCalls'
         /\ Busy(frame') = Busy(frame) /\ Told(vm', frame') = Told(vm, frame)
         /\ vm'.memQueue = vm.memQueue /\ KeepsOrder(vm, vm')
<1>1. CalmInd' /\ \A u \in Thread : Respects(u)
  BY NextCalm DEF CalmUsers
<1>2. \A u \in Thread, op \in {"memory", "console"} :
        /\ frame'[u].op = op <=> frame[u].op = op
        /\ frame[u].op = op => u # curr \/ vm' = vm
  BY FramesKept
<1>3. ASSUME NEW u \in Thread
      PROVE  /\ Using(vm', frame', u)
             /\ frame[u].op = "memory" =>
                  (vm'.waitingFor[u] = NOTHING <=> vm.waitingFor[u] = NOTHING)
  <2>1. Using(vm, frame, u) /\ Respects(u)
    BY <1>1 DEF InCalls
  <2>2. /\ frame'[u].op = "memory" <=> frame[u].op = "memory"
        /\ frame'[u].op = "console" <=> frame[u].op = "console"
        /\ frame[u].op \in {"memory", "console"} => u # curr \/ vm' = vm
    BY <1>2
  <2>3. frame[u].op \in {"memory", "console"} => vm'.state[u] # "DEAD"
    BY <2>1 DEF CalmUsers, Using, Respects
  <2>4. frame[u].op = "memory" => (vm'.waitingFor[u] = NOTHING <=> vm.waitingFor[u] = NOTHING)
    BY <2>1, <2>2, ReasonsDiffer DEF Using, Respects
  <2>5. frame[u].op = "memory" => vm'.waitingFor[u] \in {WAITING_MEMORY, NOTHING}
    BY <2>1, <2>4 DEF Using, Respects
  <2> QED BY <2>1, <2>2, <2>3, <2>4, <2>5 DEF Using, Respects
<1>4. vm'.memQueue = vm.memQueue
  BY MemoryQueueKept DEF CalmUsers
<1>5. MemoryPlace(vm') = MemoryPlace(vm)
  BY <1>1 DEF MemoryPlace, Respects
<1>6. InCalls'
  BY <1>3, <1>4, <1>5 DEF InCalls, InMemoryQueue
<1>7. Busy(frame') = Busy(frame) /\ Told(vm', frame') = Told(vm, frame)
  BY <1>2, <1>3 DEF Busy, Told
<1>8. KeepsOrder(vm, vm')
  BY NextKeeps DEF CalmUsers, Calm, CalmInd, IndStep
<1> QED BY <1>1, <1>4, <1>6, <1>7, <1>8

-----------------------------------------------------------------------------
(* The calls of Console                                                    *)

(* The caller, in its own code or in a call of Console.                    *)
Caller == curr \in ConsoleUsers /\ frame[curr].op \in {"user", "memory", "console"}

LEMMA CallerType ==
  ASSUME CalmUsers, CalmInd, Caller
  PROVE  /\ curr \in App /\ curr \in Thread /\ curr # Idle /\ curr \notin Victims
         /\ curr = vm.current /\ vm.state[curr] = "RUNNING"
         /\ vm.waitingFor[curr] = NOTHING /\ vm.mWants[curr] = NULL_MUTEX
<1>1. vm \in KernelState /\ Placed(vm) /\ curr = vm.current
  BY CalmType
<1>2. curr \in App /\ curr \notin Victims
  BY ConsoleAssumption DEF Caller, CalmUsers
<1> QED BY <1>1, <1>2, CurrentFree DEF App

LEMMA Asked ==
  ASSUME CalmUsers, CalmInd, InCalls, Caller, NEW n, Request(n), due' = due
  PROVE  /\ CalmInd' /\ InCalls'
         /\ Busy(frame') = Busy(frame) \union {curr}
         /\ Told(vm', frame') = Told(vm, frame) \ {curr}
         /\ vm'.memQueue = vm.memQueue /\ HighestFirst(vm')
<1>1. /\ Good(vm) /\ vm \in KernelState /\ frame \in [Thread -> Frames]
      /\ io \in [Thread -> Nat] /\ io[Idle] = 0 /\ due \in [Thread -> Tick]
  BY CalmType
<1>2. /\ curr \in Thread /\ curr # Idle /\ curr \notin Victims
      /\ curr = vm.current /\ vm.state[curr] = "RUNNING" /\ vm.waitingFor[curr] = NOTHING
  BY CallerType
<1>3. /\ vm' = Block(vm, WAITING_IO) /\ io' = [io EXCEPT ![curr] = @ + 1]
      /\ frame' = [frame EXCEPT ![curr] = [op |-> "console", mutex |-> NULL_MUTEX, timeout |-> 0]]
  BY DEF Request, Suspend
<1>4. CalmStep /\ SameDead(vm, vm')
  BY <1>2, <1>3, AsksCalm
<1>5. WAITING_IO \in Reasons
  BY DEF Reasons, WAITING_IO, WAITING_MEMORY
<1>6. Good(vm') /\ HighestFirst(vm') /\ vm'.memQueue = vm.memQueue
  BY <1>1, <1>2, <1>3, <1>5, GoodBlocks
<1>7. frame' \in [Thread -> Frames]
  <2>1. "console" \in Ops /\ NULL_MUTEX \in MutexID \union {NULL_MUTEX} /\ 0 \in Tick
    BY BoundsAssumption DEF Ops, Tick
  <2>2. Suspend("console", NULL_MUTEX, 0)
    BY DEF Request
  <2> QED BY <1>1, <2>1, <2>2, FramesType
<1>8. CalmInd'
  BY <1>1, <1>2, <1>3, <1>4, <1>6, <1>7, SystemThreads DEF CalmInd, Ind, CalmStep
<1>9. /\ frame'[curr].op = "console"
      /\ \A u \in Thread \ {curr} : frame'[u] = frame[u]
  BY <1>1, <1>2, <1>3
<1>10. ASSUME NEW u \in Thread
       PROVE  /\ vm'.waitingFor[u] = WAITING_MEMORY <=> vm.waitingFor[u] = WAITING_MEMORY
              /\ u # curr /\ vm.waitingFor[u] = NOTHING => vm'.waitingFor[u] = NOTHING
              /\ vm'.state[u] = "DEAD" <=> vm.state[u] = "DEAD"
  BY <1>4 DEF CalmStep, Respects, SameDead
<1>11. ASSUME NEW u \in Thread PROVE Using(vm', frame', u)
  <2>1. Using(vm, frame, u)
    BY DEF InCalls
  <2>2. CASE u = curr
    BY <1>2, <1>9, <1>10, <2>2, ReasonsDiffer DEF Using, Caller
  <2>3. CASE u # curr
    BY <1>9, <1>10, <2>1, <2>3 DEF Using
  <2> QED BY <2>2, <2>3
<1>12. MemoryPlace(vm') = MemoryPlace(vm)
  BY <1>10 DEF MemoryPlace
<1>13. InCalls'
  BY <1>6, <1>11, <1>12 DEF InCalls, InMemoryQueue
<1>14. Busy(frame') = Busy(frame) \union {curr}
  BY <1>2, <1>9 DEF Busy
<1>15. Told(vm', frame') = Told(vm, frame) \ {curr}
  <2>1. \A u \in Thread \ {curr} :
          frame[u].op = "memory" => (vm'.waitingFor[u] = NOTHING <=> vm.waitingFor[u] = NOTHING)
    BY <1>10, ReasonsDiffer DEF InCalls, Using
  <2> QED BY <1>9, <2>1 DEF Told
<1> QED BY <1>6, <1>8, <1>13, <1>14, <1>15

(* No block is free: the caller joins the line for one.                    *)
Queued ==
  /\ vm' = Block([vm EXCEPT !.memQueue = Push(@, Priority[curr], curr)], WAITING_MEMORY)
  /\ Suspend("memory", NULL_MUTEX, 0)
  /\ io' = io /\ due' = due

LEMMA QueuedCalm ==
  ASSUME CalmUsers, CalmInd, InCalls, Caller, Queued
  PROVE  /\ CalmInd' /\ HighestFirst(vm') /\ SameDead(vm, vm')
         /\ vm'.memQueue = Push(vm.memQueue, Priority[curr], curr)
         /\ vm'.waitingFor = [vm.waitingFor EXCEPT ![curr] = WAITING_MEMORY]
<1> DEFINE q == Push(vm.memQueue, Priority[curr], curr)
           k == [vm EXCEPT !.memQueue = q]
           r == Block(k, WAITING_MEMORY)
<1>1. /\ Good(vm) /\ Placed(vm) /\ vm \in KernelState /\ LocksOK(vm)
      /\ frame \in [Thread -> Frames]
      /\ io \in [Thread -> Nat] /\ io[Idle] = 0 /\ due \in [Thread -> Tick]
      /\ \A u \in Thread : ThreadOK(u)
  BY CalmType
<1>2. /\ curr \in App /\ curr \in Thread /\ curr # Idle /\ curr \notin Victims
      /\ curr = vm.current /\ vm.state[curr] = "RUNNING"
      /\ vm.waitingFor[curr] = NOTHING /\ vm.mWants[curr] = NULL_MUTEX
  BY CallerType
<1>3. q \in [Priorities -> Seq(App)]
  BY <1>1, <1>2, PushType, AppPrioritiesType DEF KernelState
<1> HIDE DEF q
<1>4. /\ k \in KernelState /\ k.memQueue = q
      /\ k.state = vm.state /\ k.ready = vm.ready /\ k.current = vm.current
      /\ k.waiting = vm.waiting /\ k.waitingFor = vm.waitingFor
      /\ k.ticksLeft = vm.ticksLeft /\ k.infiniteFlag = vm.infiniteFlag
      /\ k.mWants = vm.mWants /\ k.fault = vm.fault /\ k.allThreads = vm.allThreads
      /\ SameLocks(vm, k)
  BY <1>1, <1>3 DEF KernelState, SameLocks
<1> HIDE DEF k
<1>5. Good(k)
  BY <1>1, <1>4, GoodSame, LocksOKSame
<1>6. Placed(k)
  <2>1. \A u \in Thread : vm.state[u] # "DEAD" => u \in k.allThreads
    BY <1>1, <1>4 DEF Placed, Standing
  <2> QED BY <1>1, <1>4, <2>1, PlacedSame DEF SameLocks
<1>7. WAITING_MEMORY \in Reasons /\ WAITING_MEMORY # WAITING_MUTEX
  BY DEF Reasons, WAITING_IO, WAITING_MEMORY, WAITING_MUTEX
<1>8. Good(r) /\ HighestFirst(r) /\ r.memQueue = q
  BY <1>2, <1>4, <1>5, <1>7, GoodBlocks
<1>9. /\ Placed(r) /\ r.waitingFor = [vm.waitingFor EXCEPT ![curr] = WAITING_MEMORY]
      /\ r.ticksLeft = vm.ticksLeft /\ r.mWants = vm.mWants
      /\ SameLocks(k, r) /\ SameDead(k, r)
  <2>1. /\ InLine(k, ReadyOnes(k)) /\ Standing(k, {}) /\ Running(k)
        /\ InWait(k) /\ Linked(k, {k.current})
    BY <1>6 DEF Placed, Parked, Linked
  <2>2. ReadySorted(k) /\ IdleReady(k)
    BY <1>5 DEF Good
  <2>3. k.mWants[k.current] = NULL_MUTEX /\ k.current # Idle
    BY <1>2, <1>4
  <2> QED BY <1>2, <1>4, <1>7, <2>1, <2>2, <2>3, BlockPlaced
<1> HIDE DEF r
<1>10. vm' = r
  BY DEF Queued, r, k, q
<1>11. SameDead(vm, r) /\ SameLocks(vm, r)
  BY <1>4, <1>9 DEF SameDead, SameLocks
<1>12. /\ frame'[curr].op = "memory" /\ frame' \in [Thread -> Frames]
       /\ \A u \in Thread \ {curr} : frame'[u] = frame[u]
  <2>1. "memory" \in Ops /\ NULL_MUTEX \in MutexID \union {NULL_MUTEX} /\ 0 \in Tick
    BY BoundsAssumption DEF Ops, Tick
  <2>2. Suspend("memory", NULL_MUTEX, 0)
    BY DEF Queued
  <2>3. frame' \in [Thread -> Frames]
    BY <1>1, <2>1, <2>2, FramesType
  <2> QED BY <1>1, <1>2, <2>2, <2>3 DEF Suspend
<1>13. io' = io /\ due' = due
  BY DEF Queued
<1>14. ASSUME NEW u \in Thread PROVE ThreadOK(u)'
  <2>1. CASE u # curr
    <3>1. r.waitingFor[u] = vm.waitingFor[u]
      BY <1>1, <1>9, <2>1 DEF KernelState
    <3> QED BY <1>9, <1>10, <1>11, <1>12, <1>13, <2>1, <3>1, OthersOK DEF SameLocks
  <2>2. CASE u = curr
    <3>1. r.waitingFor[u] = WAITING_MEMORY
      BY <1>1, <1>2, <1>9, <2>2 DEF KernelState
    <3>2. Asking(u)'
      BY <1>1, <1>2, <1>10, <1>13, <2>2, <3>1, ReasonsDiffer DEF ThreadOK, Asking
    <3> QED BY <1>12, <2>2, <3>2 DEF ThreadOK, Sleeping, Acquiring, Exiting
  <2> QED BY <2>1, <2>2
<1>15. CalmInd'
  BY <1>1, <1>8, <1>9, <1>10, <1>12, <1>13, <1>14 DEF CalmInd, Ind
<1> QED BY <1>8, <1>9, <1>10, <1>11, <1>15 DEF q

LEMMA JoinsLine ==
  ASSUME CalmUsers, CalmInd, InCalls, Caller, frame[curr].op # "console", Queued
  PROVE  /\ CalmInd' /\ InCalls' /\ HighestFirst(vm')
         /\ Busy(frame') = Busy(frame)
<1>1. /\ vm \in KernelState /\ frame \in [Thread -> Frames]
      /\ curr \in App /\ curr \in Thread
      /\ vm.waitingFor[curr] = NOTHING /\ vm.state[curr] = "RUNNING"
  BY CalmType, CallerType
<1>2. /\ CalmInd' /\ HighestFirst(vm') /\ SameDead(vm, vm')
      /\ vm'.memQueue = Push(vm.memQueue, Priority[curr], curr)
      /\ vm'.waitingFor = [vm.waitingFor EXCEPT ![curr] = WAITING_MEMORY]
  BY QueuedCalm
<1>3. /\ vm'.waitingFor[curr] = WAITING_MEMORY
      /\ \A u \in Thread \ {curr} : vm'.waitingFor[u] = vm.waitingFor[u]
  BY <1>1, <1>2 DEF KernelState
<1>4. /\ frame'[curr].op = "memory"
      /\ \A u \in Thread \ {curr} : frame'[u] = frame[u]
  BY <1>1 DEF Queued, Suspend
<1>5. ASSUME NEW u \in Thread PROVE Using(vm', frame', u)
  <2>1. Using(vm, frame, u)
    BY DEF InCalls
  <2>2. CASE u = curr
    BY <1>1, <1>2, <1>3, <1>4, <2>2 DEF Using, Caller, SameDead
  <2>3. CASE u # curr
    BY <1>2, <1>3, <1>4, <2>1, <2>3 DEF Using, SameDead
  <2> QED BY <2>2, <2>3
<1>6. InMemoryQueue(vm')
  <2> DEFINE qs == vm.memQueue
             place == MemoryPlace(vm)
             moved == MemoryPlace(vm')
             i == Priority[curr]
  <2>1. qs \in [Priorities -> Seq(App)] /\ Lines(qs, Priorities, place)
    BY <1>1 DEF KernelState, InCalls, InMemoryQueue
  <2>2. i \in Priorities /\ place[curr] \notin Priorities
    BY <1>1, AppPrioritiesType, ReasonsDiffer DEF MemoryPlace
  <2>3. \A u \in Thread : moved[u] = IF u = curr THEN i ELSE place[u]
    BY <1>3 DEF MemoryPlace
  <2> HIDE DEF qs, place, moved, i
  <2>4. Lines(Push(qs, i, curr), Priorities, moved)
    BY <1>1, <2>1, <2>2, <2>3, PushLines
  <2> QED BY <1>2, <2>4 DEF InMemoryQueue, qs, moved, i
<1>7. Busy(frame') = Busy(frame)
  BY <1>4 DEF Busy
<1> QED BY <1>2, <1>5, <1>6, <1>7 DEF InCalls

-----------------------------------------------------------------------------
(* A thread is told of a block                                             *)

(* What the caller leaves of the scheduler when it lets thread t try again. *)
Released(k, r, t) ==
  /\ Good(r) /\ Parked(r)
  /\ InLine(r, ReadyOnes(r)) /\ Running(r) /\ Standing(r, {t})
  /\ r.state = k.state /\ r.current = k.current /\ r.allThreads = k.allThreads
  /\ r.mWants = k.mWants /\ SameLocks(k, r) /\ KeepsOrder(k, r)
  /\ \A u \in Thread :
       /\ r.waitingFor[u] = IF u = t THEN NOTHING ELSE k.waitingFor[u]
       /\ u # t => r.ticksLeft[u] = k.ticksLeft[u]
  /\ InMemoryQueue(r)

LEMMA FirstInLine ==
  ASSUME CalmInd, InCalls, ~ AllEmpty(vm.memQueue)
  PROVE  LET t == First(vm.memQueue)
             r == RemoveFromWaiting([vm EXCEPT !.memQueue = Pop(@)], t)
         IN  /\ t \in App /\ t \in vm.allThreads
             /\ vm.waitingFor[t] = WAITING_MEMORY /\ vm.state[t] = "WAITING"
             /\ Released(vm, r, t)
<1> DEFINE qs == vm.memQueue
           t == First(qs)
           place == MemoryPlace(vm)
           moved == [u \in Thread |-> IF u = t THEN NOTHING ELSE place[u]]
           q == Pop(qs)
           k == [vm EXCEPT !.memQueue = q]
           r == RemoveFromWaiting(k, t)
<1>1. /\ Good(vm) /\ Placed(vm) /\ vm \in KernelState /\ LocksOK(vm)
      /\ ReadySorted(vm) /\ IdleReady(vm)
  BY CalmType
<1>2. /\ Priorities \in SUBSET Priorities /\ NOTHING \notin Priorities
      /\ App \in SUBSET Thread
  BY AppPrioritiesType DEF App
<1>3. /\ qs \in Queues(App) /\ Lines(qs, Priorities, place)
      /\ \A u \in Thread : moved[u] = IF u = First(qs) THEN NOTHING ELSE place[u]
  BY <1>1 DEF KernelState, Queues, InCalls, InMemoryQueue
<1>4. Top(qs) \in Priorities /\ q \in Queues(App)
  <2>1. Top(qs) \in Priorities
    BY <1>3, TopType
  <2>2. qs[Top(qs)] \in Seq(App)
    BY <1>3, <2>1 DEF Queues
  <2> HIDE DEF qs
  <2>3. ~ AllEmpty(qs)
    BY DEF qs
  <2>4. Pop(qs) \in Queues(App)
    BY <1>3, <2>2, <2>3, PopType
  <2> QED BY <2>1, <2>4 DEF qs
<1>5. t \in App /\ place[t] = Top(qs) /\ Lines(q, Priorities, moved)
  <2> HIDE DEF qs, place, moved
  <2>1. ~ AllEmpty(qs)
    BY DEF qs
  <2> QED BY <1>2, <1>3, <1>4, <2>1, PopLines
<1> HIDE DEF qs, t, q
<1>6. vm.waitingFor[t] = WAITING_MEMORY /\ t \in Thread
  <2>1. t \in Thread
    BY <1>5 DEF App
  <2> QED BY <1>2, <1>4, <1>5, <2>1 DEF MemoryPlace
<1>7. vm.state[t] = "WAITING" /\ t \in vm.allThreads /\ vm.mWants[t] = NULL_MUTEX
  BY <1>1, <1>6, ReasonsDiffer DEF Placed, Standing, Parked, Linked
<1>8. /\ k \in KernelState /\ k.memQueue = q
      /\ k.state = vm.state /\ k.ready = vm.ready /\ k.current = vm.current
      /\ k.waiting = vm.waiting /\ k.waitingFor = vm.waitingFor
      /\ k.ticksLeft = vm.ticksLeft /\ k.infiniteFlag = vm.infiniteFlag
      /\ k.mWants = vm.mWants /\ k.fault = vm.fault /\ k.allThreads = vm.allThreads
      /\ SameLocks(vm, k)
  BY <1>1, <1>4 DEF KernelState, SameLocks, Queues
<1> HIDE DEF k, place, moved
<1>9. Good(k) /\ KeepsOrder(vm, k)
  BY <1>1, <1>8, GoodSame, LocksOKSame
<1>10. InWait(k) /\ Linked(k, {t})
  BY <1>1, <1>8 DEF Placed, Parked, InWait, Linked, MutexPlace, SameLocks
<1>11. /\ Parked(r)
       /\ r.state = k.state /\ r.ready = k.ready /\ r.current = k.current
       /\ r.mWants = k.mWants /\ r.allThreads = k.allThreads /\ r.fault = k.fault
       /\ SameLocks(k, r)
       /\ \A u \in Thread :
            /\ r.waitingFor[u] = IF u = t THEN NOTHING ELSE k.waitingFor[u]
            /\ u # t => r.ticksLeft[u] = k.ticksLeft[u]
  <2>1. k.mWants[t] = NULL_MUTEX
    BY <1>7, <1>8
  <2> QED BY <1>5, <1>8, <1>10, <2>1, RemoveFromWaitingPlaced
<1>12. r \in KernelState /\ r.memQueue = q
  BY <1>6, <1>8, RemoveFromWaitingType DEF SameReady, Harmless
<1> HIDE DEF r
<1>13. Good(r) /\ KeepsOrder(k, r)
  <2>1. LocksOK(k)
    BY <1>9 DEF Good
  <2>2. LocksOK(r)
    BY <1>11, <2>1, LocksOKSame
  <2> QED BY <1>9, <1>11, <1>12, <2>2, GoodSame
<1>14. KeepsOrder(vm, r)
  BY <1>9, <1>13, KeepsOrderTransitive
<1>15. InLine(r, ReadyOnes(r)) /\ Running(r) /\ Standing(r, {t})
  <2>1. ReadyOnes(r) = ReadyOnes(vm)
    BY <1>8, <1>11 DEF ReadyOnes
  <2> QED BY <1>1, <1>8, <1>11, <2>1 DEF Placed, InLine, Running, Standing
<1>16. InMemoryQueue(r)
  <2>1. MemoryPlace(r) = moved
    BY <1>8, <1>11, ReasonsDiffer DEF MemoryPlace, moved, place
  <2> QED BY <1>5, <1>12, <2>1 DEF InMemoryQueue
<1>17. Released(vm, r, t)
  BY <1>8, <1>11, <1>13, <1>14, <1>15, <1>16 DEF Released, SameLocks
<1>18. r = RemoveFromWaiting([vm EXCEPT !.memQueue = Pop(@)], First(vm.memQueue))
  BY <1>1 DEF r, k, q, t, qs, KernelState
<1> QED BY <1>5, <1>6, <1>7, <1>17, <1>18 DEF t, qs

(* Thread t can try again.                                                 *)
Awoken(k, r, t) ==
  /\ Good(r) /\ Placed(r) /\ InMemoryQueue(r)
  /\ SameDead(k, r) /\ SameLocks(k, r) /\ r.mWants = k.mWants
  /\ \A u \in Thread :
       /\ r.waitingFor[u] = IF u = t THEN NOTHING ELSE k.waitingFor[u]
       /\ u # t => r.ticksLeft[u] = k.ticksLeft[u]

LEMMA WakesCalmly ==
  ASSUME CalmInd, InCalls, ~ AllEmpty(vm.memQueue)
  PROVE  Awoken(vm, WakeNext(vm), First(vm.memQueue)) /\ WakeNext(vm).current = curr
<1> DEFINE t == First(vm.memQueue)
           k == RemoveFromWaiting([vm EXCEPT !.memQueue = Pop(@)], t)
           r == AddToReady(k, t)
<1>1. /\ t \in App /\ t \in vm.allThreads /\ vm.state[t] = "WAITING"
      /\ Released(vm, k, t)
  BY FirstInLine
<1>2. WakeNext(vm) = r
  BY DEF WakeNext
<1>3. curr = vm.current /\ vm \in KernelState
  BY CalmType
<1> HIDE DEF k, t
<1>4. /\ Good(r) /\ r.current = k.current /\ r.memQueue = k.memQueue
  BY <1>1, GoodReady DEF Released
<1>5. /\ InLine(r, ReadyOnes(k) \union {t}) /\ Parked(r) /\ Standing(r, {})
      /\ SameWaiting(k, r)
      /\ \A u \in Thread : r.state[u] = IF u = t THEN "READY" ELSE k.state[u]
  <2>1. /\ k \in KernelState /\ t \in k.allThreads /\ k.waitingFor[t] = NOTHING
        /\ ReadyOnes(k) \in SUBSET App /\ t \notin ReadyOnes(k)
        /\ InLine(k, ReadyOnes(k)) /\ Parked(k) /\ Standing(k, {} \union {t})
    BY <1>1, GoodType DEF Released, ReadyOnes, App
  <2> QED BY <1>1, <2>1, AddToReadyPlaced
<1> HIDE DEF r
<1>6. ReadyOnes(r) = ReadyOnes(k) \union {t}
  BY <1>1, <1>5 DEF ReadyOnes, App
<1>7. Running(r) /\ SameDead(vm, r)
  BY <1>1, <1>4, <1>5 DEF Running, Released, SameDead
<1>8. InMemoryQueue(r)
  BY <1>1, <1>4, <1>5 DEF InMemoryQueue, MemoryPlace, SameWaiting, Released
<1>9. Awoken(vm, r, t)
  BY <1>1, <1>4, <1>5, <1>6, <1>7, <1>8
     DEF Awoken, Placed, Released, SameWaiting, SameLocks
<1> QED BY <1>1, <1>2, <1>3, <1>4, <1>9 DEF t, Released

LEMMA WakesHigher ==
  ASSUME CalmInd, InCalls, ~ AllEmpty(vm.memQueue)
  PROVE  LET r == Preempt(WakeNext(vm), First(vm.memQueue))
         IN  Awoken(vm, r, First(vm.memQueue)) /\ KeepsOrder(vm, r)
<1> DEFINE t == First(vm.memQueue)
           k == RemoveFromWaiting([vm EXCEPT !.memQueue = Pop(@)], t)
           r == Preempt(AddToReady(k, t), t)
<1>1. /\ t \in App /\ t \in vm.allThreads /\ vm.state[t] = "WAITING"
      /\ Released(vm, k, t)
  BY FirstInLine
<1>2. Preempt(WakeNext(vm), t) = r
  BY DEF WakeNext
<1> HIDE DEF k, t
<1>3. Good(r) /\ KeepsOrder(k, r) /\ r.memQueue = k.memQueue
  BY <1>1, GoodWakes DEF Released
<1>4. KeepsOrder(vm, r)
  BY <1>1, <1>3, KeepsOrderTransitive DEF Released
<1>5. /\ Placed(r) /\ SameWaiting(k, r) /\ r.state[t] # "DEAD"
      /\ \A u \in Thread \ {t} : r.state[u] = "DEAD" <=> k.state[u] = "DEAD"
  <2>1. /\ k \in KernelState /\ ReadySorted(k) /\ IdleReady(k)
        /\ t \in k.allThreads /\ k.waitingFor[t] = NOTHING
        /\ k.state[t] \in {"DEAD", "WAITING"}
        /\ InLine(k, ReadyOnes(k)) /\ Parked(k) /\ Standing(k, {t}) /\ Running(k)
    BY <1>1, GoodType DEF Released, App
  <2> QED BY <1>1, <2>1, WakePlaced
<1> HIDE DEF r
<1>6. SameDead(vm, r)
  BY <1>1, <1>5 DEF SameDead, Released
<1>7. InMemoryQueue(r)
  BY <1>1, <1>3, <1>5 DEF InMemoryQueue, MemoryPlace, SameWaiting, Released
<1>8. Awoken(vm, r, t)
  BY <1>1, <1>3, <1>5, <1>6, <1>7 DEF Awoken, Released, SameWaiting, SameLocks
<1> QED BY <1>2, <1>4, <1>8 DEF t

(* The caller returns, and the first in line, if any, can try again.       *)
LEMMA Returned ==
  ASSUME CalmUsers, CalmInd, InCalls, Caller, Return, io' = io, due' = due,
         IF AllEmpty(vm.memQueue) THEN vm' = vm ELSE Awoken(vm, vm', First(vm.memQueue))
  PROVE  /\ CalmInd' /\ InCalls'
         /\ Busy(frame') = Busy(frame) \ {curr}
         /\ \/ AllEmpty(vm'.memQueue)
            \/ /\ ~ AllEmpty(vm.memQueue)
               /\ \E t \in Thread \ (Told(vm, frame) \union {curr}) :
                    Told(vm', frame') = (Told(vm, frame) \ {curr}) \union {t}
<1> DEFINE t == First(vm.memQueue)
<1>1. /\ Good(vm) /\ Placed(vm) /\ vm \in KernelState
      /\ frame \in [Thread -> Frames]
      /\ io \in [Thread -> Nat] /\ io[Idle] = 0 /\ due \in [Thread -> Tick]
      /\ \A u \in Thread : ThreadOK(u)
  BY CalmType
<1>2. /\ curr \in App /\ curr \in Thread
      /\ vm.state[curr] = "RUNNING" /\ vm.waitingFor[curr] = NOTHING
  BY CallerType
<1>3. /\ frame'[curr].op = "user" /\ frame' \in [Thread -> Frames]
      /\ \A u \in Thread \ {curr} : frame'[u] = frame[u]
  <2>1. frame' \in [Thread -> Frames]
    <3>1. "user" \in Ops /\ NULL_MUTEX \in MutexID \union {NULL_MUTEX} /\ 0 \in Tick
      BY BoundsAssumption DEF Ops, Tick
    <3> QED BY <1>1, <3>1, FramesType
  <2> QED BY <1>1, <1>2, <2>1 DEF Return, User
<1>4. CASE AllEmpty(vm.memQueue)
  <2>1. vm' = vm
    BY <1>4
  <2>2. frame' = [frame EXCEPT ![curr] = User] /\ \A u \in Thread \ {curr} : due'[u] = due[u]
    BY DEF Return
  <2>3. CalmInd'
    <3>1. CalmStep
      BY <2>1, <2>2, ReturnOK
    <3> QED BY <1>1, <1>3, <2>1, <3>1 DEF CalmInd, Ind, CalmStep
  <2>4. \A u \in Thread : Using(vm', frame', u)
    BY <1>2, <1>3, <2>1, ReasonsDiffer DEF InCalls, Using
  <2>5. Busy(frame') = Busy(frame) \ {curr}
    BY <1>3 DEF Busy
  <2> QED BY <1>4, <2>1, <2>3, <2>4, <2>5 DEF InCalls
<1>5. CASE ~ AllEmpty(vm.memQueue)
  <2>1. /\ t \in App /\ t \in Thread
        /\ vm.waitingFor[t] = WAITING_MEMORY /\ vm.state[t] = "WAITING"
    BY <1>5, FirstInLine DEF App
  <2>2. Awoken(vm, vm', t)
    BY <1>5
  <2> HIDE DEF t
  <2>3. t # curr /\ frame[t].op = "memory" /\ frame'[t] = frame[t] /\ vm.mWants[t] = NULL_MUTEX
    BY <1>1, <1>2, <1>3, <2>1, ReasonsDiffer DEF InCalls, Using, Placed, Parked, Linked
  <2>4. /\ Good(vm') /\ Placed(vm') /\ InMemoryQueue(vm')
        /\ SameDead(vm, vm') /\ SameLocks(vm, vm') /\ vm'.mWants = vm.mWants
        /\ vm'.waitingFor[t] = NOTHING
        /\ \A u \in Thread \ {t} : /\ vm'.waitingFor[u] = vm.waitingFor[u]
                                   /\ vm'.ticksLeft[u] = vm.ticksLeft[u]
    BY <2>1, <2>2 DEF Awoken
  <2>5. ASSUME NEW u \in Thread PROVE ThreadOK(u)'
    <3>1. CASE u # t /\ u # curr
      <4>1. Undisturbed(vm, vm', u)
        BY <2>4, <3>1 DEF Undisturbed, SameDead, SameLocks
      <4> QED BY <1>1, <1>3, <3>1, <4>1, UndisturbedOK
    <3>2. CASE u = t
      BY <1>1, <2>1, <2>3, <2>4, <3>2, ReasonsDiffer
         DEF ThreadOK, Asking, Sleeping, Acquiring, Exiting
    <3>3. CASE u = curr
      BY <1>1, <1>2, <1>3, <2>3, <2>4, <3>3, ReasonsDiffer
         DEF ThreadOK, Asking, Sleeping, Acquiring, Exiting
    <3> QED BY <3>1, <3>2, <3>3
  <2>6. CalmInd'
    BY <1>1, <1>3, <2>4, <2>5 DEF CalmInd, Ind
  <2>7. ASSUME NEW u \in Thread PROVE Using(vm', frame', u)
    <3>1. Using(vm, frame, u)
      BY DEF InCalls
    <3>2. CASE u = curr
      BY <1>2, <1>3, <2>3, <2>4, <3>2, ReasonsDiffer DEF Using
    <3>3. CASE u # curr
      BY <1>3, <2>3, <2>4, <3>1, <3>3, ReasonsDiffer DEF Using, SameDead
    <3> QED BY <3>2, <3>3
  <2>8. Busy(frame') = Busy(frame) \ {curr}
    BY <1>3 DEF Busy
  <2>9. /\ t \in Thread \ (Told(vm, frame) \union {curr})
        /\ Told(vm', frame') = (Told(vm, frame) \ {curr}) \union {t}
    BY <1>2, <1>3, <2>1, <2>3, <2>4, ReasonsDiffer DEF Told
  <2> QED BY <1>5, <2>4, <2>6, <2>7, <2>8, <2>9 DEF InCalls
<1> QED BY <1>4, <1>5

-----------------------------------------------------------------------------
(* The blocks are counted through every step                               *)

(* A caller that returns gives back the block it holds, or holds none.     *)
LEMMA ReturnedSupplied ==
  ASSUME Supplied(vm, frame, freeBlocks), curr \in Thread,
         NEW free, free = IF curr \in Busy(frame) THEN freeBlocks + 1 ELSE freeBlocks,
         curr \in Busy(frame) => curr \notin Told(vm, frame),
         Busy(frame') = Busy(frame) \ {curr},
         \/ AllEmpty(vm'.memQueue)
         \/ /\ ~ AllEmpty(vm.memQueue)
            /\ \E t \in Thread \ (Told(vm, frame) \union {curr}) :
                 Told(vm', frame') = (Told(vm, frame) \ {curr}) \union {t}
  PROVE  Supplied(vm', frame', free)
<1> DEFINE b == Busy(frame)
           w == Told(vm, frame)
<1>1. b \in SUBSET Thread /\ w \in SUBSET Thread
  BY DEF Busy, Told
<1> HIDE DEF b, w
<1>2. /\ Cardinality(b) \in Nat /\ Cardinality(w) \in Nat
      /\ Cardinality(b \ {curr}) = IF curr \in b THEN Cardinality(b) - 1 ELSE Cardinality(b)
      /\ Cardinality(w \ {curr}) = IF curr \in w THEN Cardinality(w) - 1 ELSE Cardinality(w)
  BY <1>1, Counted
<1>3. freeBlocks \in Nat /\ freeBlocks + Cardinality(b) = Blocks
  BY DEF Supplied, b
<1>4. free \in Nat /\ free + Cardinality(b \ {curr}) = Blocks
  BY <1>2, <1>3 DEF b
<1>5. ASSUME NEW t \in Thread \ (w \union {curr}), freeBlocks <= Cardinality(w)
      PROVE  free <= Cardinality((w \ {curr}) \union {t})
  <2>1. w \ {curr} \in SUBSET Thread /\ t \notin w \ {curr}
    BY <1>1
  <2>2. Cardinality((w \ {curr}) \union {t}) = Cardinality(w \ {curr}) + 1
    BY <2>1, Counted
  <2>3. curr \in b => curr \notin w
    BY DEF b, w
  <2> QED BY <1>2, <1>3, <1>5, <2>2, <2>3 DEF b
<1>6. ~ AllEmpty(vm'.memQueue) => free <= Cardinality(Told(vm', frame'))
  <2> SUFFICES ASSUME ~ AllEmpty(vm'.memQueue)
               PROVE  free <= Cardinality(Told(vm', frame'))
    OBVIOUS
  <2>1. freeBlocks <= Cardinality(w)
    BY DEF Supplied, w
  <2>2. PICK t \in Thread \ (w \union {curr}) : Told(vm', frame') = (w \ {curr}) \union {t}
    BY DEF w
  <2> QED BY <1>5, <2>1, <2>2
<1> QED BY <1>4, <1>6 DEF Supplied, b

(* A caller that asks the machine takes a block, or holds one.             *)
LEMMA AskedSupplied ==
  ASSUME Supplied(vm, frame, freeBlocks), curr \in Thread,
         curr \notin Busy(frame) => freeBlocks > 0,
         curr \in Busy(frame) => curr \notin Told(vm, frame),
         NEW free, free = IF curr \in Busy(frame) THEN freeBlocks ELSE freeBlocks - 1,
         Busy(frame') = Busy(frame) \union {curr},
         Told(vm', frame') = Told(vm, frame) \ {curr},
         vm'.memQueue = vm.memQueue
  PROVE  Supplied(vm', frame', free)
<1> DEFINE b == Busy(frame)
           w == Told(vm, frame)
<1>1. b \in SUBSET Thread /\ w \in SUBSET Thread
  BY DEF Busy, Told
<1> HIDE DEF b, w
<1>2. /\ Cardinality(b) \in Nat /\ Cardinality(w) \in Nat
      /\ Cardinality(b \union {curr}) = IF curr \in b THEN Cardinality(b) ELSE Cardinality(b) + 1
      /\ Cardinality(w \ {curr}) = IF curr \in w THEN Cardinality(w) - 1 ELSE Cardinality(w)
  BY <1>1, Counted
<1>3. /\ freeBlocks \in Nat /\ freeBlocks + Cardinality(b) = Blocks
      /\ ~ AllEmpty(vm.memQueue) => freeBlocks <= Cardinality(w)
  BY DEF Supplied, b, w
<1>4. free \in Nat /\ free + Cardinality(b \union {curr}) = Blocks
  BY <1>2, <1>3 DEF b
<1>5. ~ AllEmpty(vm.memQueue) => free <= Cardinality(w \ {curr})
  BY <1>2, <1>3 DEF b, w
<1> QED BY <1>4, <1>5 DEF Supplied, b, w

-----------------------------------------------------------------------------
(* Every step keeps the invariant                                          *)

LEMMA ConsoleType ==
  ASSUME ConsoleInd
  PROVE  /\ CalmInd /\ InCalls /\ curr \in Thread /\ curr = vm.current
         /\ left \in [Thread -> Nat] /\ result \in [Thread -> {"ok", "error"}]
         /\ Supplied(vm, frame, freeBlocks) /\ Served
         /\ curr \in Busy(frame) <=> frame[curr].op = "console"
         /\ curr \in Busy(frame) => curr \notin Told(vm, frame)
<1>1. CalmInd /\ InCalls /\ BlocksOK
  BY DEF ConsoleInd
<1>2. curr \in Thread /\ curr = vm.current
  BY <1>1, CalmType
<1>3. Supplied(vm, frame, freeBlocks)
  BY <1>1, BlocksSupplied
<1> QED BY <1>1, <1>2, <1>3 DEF ConsoleInd, Busy, Told

(* How the scheduler's order is passed on.                                 *)
LEMMA ServedNext ==
  ASSUME ConsoleInd, KeepsOrder(vm, vm'), result'[curr] = result[curr]
  PROVE  Served'
<1>1. CASE HighestFirst(vm')
  BY <1>1 DEF Served
<1>2. CASE vm'.current = vm.current /\ ~ HighestFirst(vm)
  BY <1>2 DEF Served, ConsoleInd, curr
<1> QED BY <1>1, <1>2 DEF KeepsOrder

LEMMA ReturnKeeps ==
  ASSUME CalmUsers, ConsoleInd, Caller, Return, UNCHANGED <<io, due, result>>,
         freeBlocks' = IF frame[curr].op = "console" THEN freeBlocks + 1 ELSE freeBlocks,
         left' = [left EXCEPT ![curr] = 0],
         IF AllEmpty(vm.memQueue) THEN vm' = vm ELSE Awoken(vm, vm', First(vm.memQueue)),
         Served'
  PROVE  ConsoleInd'
<1>1. /\ CalmInd /\ InCalls /\ curr \in Thread
      /\ left \in [Thread -> Nat] /\ result \in [Thread -> {"ok", "error"}]
      /\ Supplied(vm, frame, freeBlocks)
      /\ curr \in Busy(frame) <=> frame[curr].op = "console"
      /\ curr \in Busy(frame) => curr \notin Told(vm, frame)
  BY ConsoleType
<1>2. /\ CalmInd' /\ InCalls'
      /\ Busy(frame') = Busy(frame) \ {curr}
      /\ \/ AllEmpty(vm'.memQueue)
         \/ /\ ~ AllEmpty(vm.memQueue)
            /\ \E t \in Thread \ (Told(vm, frame) \union {curr}) :
                 Told(vm', frame') = (Told(vm, frame) \ {curr}) \union {t}
  BY <1>1, Returned
<1>3. PICK free : free = freeBlocks'
  OBVIOUS
<1>4. free = IF curr \in Busy(frame) THEN freeBlocks + 1 ELSE freeBlocks
  BY <1>1, <1>3
<1>5. Supplied(vm', frame', free)
  BY <1>1, <1>2, <1>4, ReturnedSupplied
<1>6. BlocksOK'
  BY <1>2, <1>3, <1>5, BlocksSuppliedNext
<1> QED BY <1>1, <1>2, <1>6 DEF ConsoleInd

LEMMA SucceedKeeps ==
  ASSUME CalmUsers, ConsoleInd, Caller, UNCHANGED <<due, result>>,
         Succeed(IF frame[curr].op = "console" THEN freeBlocks + 1 ELSE freeBlocks)
  PROVE  ConsoleInd'
<1>1. CalmInd /\ InCalls /\ curr = vm.current
  BY ConsoleType
<1>2. CASE AllEmpty(vm.memQueue)
  <2>1. KeepsOrder(vm, vm') /\ vm' = vm
    BY <1>2, KeepsOrderSame DEF Succeed
  <2>2. Served'
    BY <2>1, ServedNext
  <2> QED BY <1>2, <2>1, <2>2, ReturnKeeps DEF Succeed
<1>3. CASE ~ AllEmpty(vm.memQueue)
  <2>1. Awoken(vm, vm', First(vm.memQueue)) /\ KeepsOrder(vm, vm')
    BY <1>1, <1>3, WakesHigher DEF Succeed
  <2>2. Served'
    BY <2>1, ServedNext
  <2> QED BY <1>3, <2>1, <2>2, ReturnKeeps DEF Succeed
<1> QED BY <1>2, <1>3

LEMMA FailKeeps ==
  ASSUME CalmUsers, ConsoleInd, Caller, frame[curr].op = "console", result[curr] = "error",
         UNCHANGED <<due, result>>, Fail
  PROVE  ConsoleInd'
<1>1. CalmInd /\ InCalls /\ curr = vm.current
  BY ConsoleType
<1>2. IF AllEmpty(vm.memQueue) THEN vm' = vm ELSE Awoken(vm, vm', First(vm.memQueue))
  BY <1>1, WakesCalmly DEF Fail, WakeNext
<1>3. vm'.current = vm.current
  BY <1>1, WakesCalmly DEF Fail, WakeNext
<1>4. Served'
  BY <1>1, <1>3 DEF Served, curr
<1> QED BY <1>2, <1>4, ReturnKeeps DEF Fail

LEMMA RequestKeeps ==
  ASSUME CalmUsers, ConsoleInd, Caller, NEW n \in Nat, Request(n),
         UNCHANGED <<due, result>>,
         frame[curr].op # "console" => freeBlocks > 0,
         freeBlocks' = IF frame[curr].op = "console" THEN freeBlocks ELSE freeBlocks - 1
  PROVE  ConsoleInd'
<1>1. /\ CalmInd /\ InCalls /\ curr \in Thread
      /\ left \in [Thread -> Nat] /\ result \in [Thread -> {"ok", "error"}]
      /\ Supplied(vm, frame, freeBlocks)
      /\ curr \in Busy(frame) <=> frame[curr].op = "console"
      /\ curr \in Busy(frame) => curr \notin Told(vm, frame)
  BY ConsoleType
<1>2. /\ CalmInd' /\ InCalls'
      /\ Busy(frame') = Busy(frame) \union {curr}
      /\ Told(vm', frame') = Told(vm, frame) \ {curr}
      /\ vm'.memQueue = vm.memQueue /\ HighestFirst(vm')
  BY <1>1, Asked
<1>3. PICK free : free = freeBlocks'
  OBVIOUS
<1>4. free = IF curr \in Busy(frame) THEN freeBlocks ELSE freeBlocks - 1
  BY <1>1, <1>3
<1>5. curr \notin Busy(frame) => freeBlocks > 0
  BY <1>1
<1>6. Supplied(vm', frame', free)
  BY <1>1, <1>2, <1>4, <1>5, AskedSupplied
<1>7. BlocksOK'
  BY <1>2, <1>3, <1>6, BlocksSuppliedNext
<1>8. left' \in [Thread -> Nat]
  BY <1>1 DEF Request
<1> QED BY <1>1, <1>2, <1>7, <1>8 DEF ConsoleInd, Served

LEMMA QueuedKeeps ==
  ASSUME CalmUsers, ConsoleInd, Caller, frame[curr].op # "console",
         NEW n \in Nat, left' = [left EXCEPT ![curr] = n],
         freeBlocks = 0, Queued, UNCHANGED <<freeBlocks, result>>
  PROVE  ConsoleInd'
<1>1. /\ CalmInd /\ InCalls
      /\ left \in [Thread -> Nat] /\ result \in [Thread -> {"ok", "error"}]
      /\ Supplied(vm, frame, freeBlocks)
  BY ConsoleType
<1>2. CalmInd' /\ InCalls' /\ HighestFirst(vm') /\ Busy(frame') = Busy(frame)
  BY <1>1, JoinsLine
<1>3. Supplied(vm', frame', freeBlocks')
  <2>1. Cardinality(Told(vm', frame')) \in Nat
    BY Counted DEF Told
  <2> QED BY <1>1, <1>2, <2>1 DEF Supplied
<1>4. BlocksOK'
  BY <1>2, <1>3, BlocksSuppliedNext
<1> QED BY <1>1, <1>2, <1>4 DEF ConsoleInd, Served

LEMMA TakeBlockKeeps ==
  ASSUME CalmUsers, ConsoleInd, Caller, frame[curr].op # "console",
         NEW n \in Nat, TakeBlock(n), UNCHANGED <<due, result>>
  PROVE  ConsoleInd'
<1>1. CASE freeBlocks > 0 /\ n > 0
  <2>1. Request(n) /\ freeBlocks' = freeBlocks - 1
    BY <1>1 DEF TakeBlock
  <2> QED BY <1>1, <2>1, RequestKeeps
<1>2. CASE freeBlocks > 0 /\ n = 0
  <2>1. Succeed(IF frame[curr].op = "console" THEN freeBlocks + 1 ELSE freeBlocks)
    BY <1>2 DEF TakeBlock
  <2> QED BY <2>1, SucceedKeeps
<1>3. CASE freeBlocks = 0
  <2>1. Queued /\ UNCHANGED freeBlocks /\ left' = [left EXCEPT ![curr] = n]
    BY <1>3 DEF TakeBlock, Queued
  <2> QED BY <1>3, <2>1, QueuedKeeps
<1> QED BY <1>1, <1>2, <1>3 DEF TakeBlock

LEMMA ConsoleStepKeeps ==
  ASSUME CalmUsers, ConsoleInd, ConsoleStep
  PROVE  ConsoleInd'
<1>1. /\ InCalls /\ curr \in Thread /\ left \in [Thread -> Nat]
      /\ result \in [Thread -> {"ok", "error"}] /\ left[curr] \in Nat
  BY ConsoleType
<1>2. frame[curr].op \in {"memory", "console"} => Caller
  BY <1>1 DEF InCalls, Using, Caller
<1>3. ASSUME NEW n \in Rounds, ConsoleCall(n) PROVE ConsoleInd'
  <2>1. Caller /\ frame[curr].op = "user"
    BY <1>3 DEF ConsoleCall, Calls, InUser, Caller
  <2>2. n \in Nat
    BY ConsoleAssumption
  <2> QED BY <1>3, <2>1, <2>2, TakeBlockKeeps DEF ConsoleCall
<1>4. ASSUME Retry PROVE ConsoleInd'
  <2>1. Caller /\ frame[curr].op = "memory"
    BY <1>2, <1>4 DEF Retry, Finishing
  <2>2. PICK n \in Nat : n = left[curr]
    BY <1>1
  <2>3. TakeBlock(n) /\ UNCHANGED <<due, result>>
    BY <1>4, <2>2 DEF Retry
  <2> QED BY <2>1, <2>3, TakeBlockKeeps
<1>5. ASSUME RoundReturns PROVE ConsoleInd'
  <2>1. Caller /\ frame[curr].op = "console" /\ UNCHANGED <<due, result>>
    BY <1>2, <1>5 DEF RoundReturns, Finishing
  <2>2. CASE result[curr] = "error" /\ Fail
    BY <2>1, <2>2, FailKeeps
  <2>3. CASE left[curr] > 1 /\ Request(left[curr] - 1) /\ UNCHANGED freeBlocks
    <3>1. PICK n \in Nat : n = left[curr] - 1
      BY <1>1, <2>3
    <3>2. Request(n)
      BY <2>3, <3>1
    <3> QED BY <2>1, <2>3, <3>2, RequestKeeps
  <2>4. CASE Succeed(freeBlocks + 1)
    <3>1. Succeed(IF frame[curr].op = "console" THEN freeBlocks + 1 ELSE freeBlocks)
      BY <2>1, <2>4
    <3> QED BY <2>1, <3>1, SucceedKeeps
  <2> QED BY <1>5, <2>2, <2>3, <2>4 DEF RoundReturns
<1> QED BY <1>3, <1>4, <1>5 DEF ConsoleStep

(* A step of Kernel, and what it may do to the results.                    *)
LEMMA KernelKeeps ==
  ASSUME CalmUsers, ConsoleInd, [Next]_vars, UNCHANGED <<freeBlocks, left>>,
         result' \in [Thread -> {"ok", "error"}], result'[curr] = result[curr]
  PROVE  ConsoleInd'
<1>1. /\ CalmInd /\ InCalls /\ left \in [Thread -> Nat]
      /\ Supplied(vm, frame, freeBlocks)
  BY ConsoleType
<1>2. /\ CalmInd' /\ InCalls'
      /\ Busy(frame') = Busy(frame) /\ Told(vm', frame') = Told(vm, frame)
      /\ vm'.memQueue = vm.memQueue /\ KeepsOrder(vm, vm')
  BY <1>1, KernelSteps
<1>3. Supplied(vm', frame', freeBlocks')
  BY <1>1, <1>2 DEF Supplied
<1>4. BlocksOK'
  BY <1>2, <1>3, BlocksSuppliedNext
<1>5. Served'
  BY <1>2, ServedNext
<1> QED BY <1>1, <1>2, <1>4, <1>5 DEF ConsoleInd

LEMMA ConsoleNextKeeps ==
  ASSUME CalmUsers, ConsoleInd, [ConsoleNext]_allVars
  PROVE  ConsoleInd'
<1>1. /\ CalmInd /\ curr \in Thread /\ curr = vm.current
      /\ result \in [Thread -> {"ok", "error"}]
  BY ConsoleType
<1>2. CASE ConsoleStep
  BY <1>2, ConsoleStepKeeps
<1>3. CASE (Call \/ Finish \/ AlarmHandler) /\ UNCHANGED consoleVars
  BY <1>1, <1>3, KernelKeeps DEF consoleVars, Next, Signal
<1>4. ASSUME NEW t \in Thread, Answer(t) PROVE ConsoleInd'
  <2>1. FileHandler(t) /\ UNCHANGED <<freeBlocks, left>>
    BY <1>4 DEF Answer
  <2>2. [Next]_vars
    BY <2>1 DEF Next, Signal
  <2>3. t # curr
    <3>1. io[t] > 0 /\ Asking(t)
      BY <1>1, <2>1, CalmType DEF FileHandler, ThreadOK
    <3>2. vm.waitingFor[t] = WAITING_IO
      BY <3>1 DEF Asking
    <3> QED BY <1>1, <3>2, CalmType, CurrentFree, ReasonsDiffer
  <2>4. /\ result' \in [Thread -> {"ok", "error"}] /\ result'[curr] = result[curr]
    BY <1>1, <1>4, <2>3, ConsoleAssumption DEF Answer
  <2> QED BY <2>1, <2>2, <2>4, KernelKeeps
<1>5. CASE UNCHANGED allVars
  BY <1>1, <1>5, KernelKeeps DEF allVars, consoleVars
<1> QED BY <1>2, <1>3, <1>4, <1>5 DEF ConsoleNext

LEMMA InitConsole ==
  ASSUME ConsoleInit PROVE ConsoleInd
<1>1. Init /\ CalmInd /\ HighestFirst(vm)
  BY InitCalm, InitGood DEF ConsoleInit
<1>2. /\ vm.memQueue = [p \in Priorities |-> <<>>]
      /\ vm.waitingFor = [t \in Thread |-> NOTHING]
      /\ frame = [t \in Thread |-> User]
  BY <1>1 DEF Init
<1>3. \A u \in Thread : frame[u].op = "user" /\ vm.waitingFor[u] = NOTHING
  BY <1>2 DEF User
<1>4. InMemoryQueue(vm)
  <2>1. \A p \in Priorities : vm.memQueue[p] = <<>>
    BY <1>2
  <2>2. \A u \in App : MemoryPlace(vm)[u] \notin Priorities
    BY <1>3, AppPrioritiesType, ReasonsDiffer DEF MemoryPlace
  <2> HIDE DEF MemoryPlace
  <2> QED BY <2>1, <2>2, EmptyLines DEF InMemoryQueue
<1>5. InCalls
  BY <1>3, <1>4, ReasonsDiffer DEF InCalls, Using
<1>6. Supplied(vm, frame, freeBlocks)
  <2>1. Busy(frame) = {}
    BY <1>3 DEF Busy
  <2>2. AllEmpty(vm.memQueue)
    BY <1>2 DEF AllEmpty
  <2> QED BY <2>1, <2>2, FS_EmptySet, ConsoleAssumption DEF Supplied, ConsoleInit
<1>7. BlocksOK
  BY <1>1, <1>5, <1>6, BlocksSupplied
<1> QED BY <1>1, <1>5, <1>7 DEF ConsoleInd, ConsoleInit, Served

-----------------------------------------------------------------------------
(* The theorems                                                            *)

(***************************************************************************)
(* Where no thread that may use the console is terminated by another, the  *)
(* blocks of shared memory, the line for them and the threads in the calls *)
(* of Console agree in every state.                                        *)
(***************************************************************************)
THEOREM ConsoleInvariance ==
  ASSUME CalmUsers
  PROVE  ConsoleSpec => []ConsoleInd
<1>1. ConsoleInit => ConsoleInd
  BY InitConsole
<1>2. ConsoleInd /\ [ConsoleNext]_allVars => ConsoleInd'
  BY ConsoleNextKeeps
<1> QED BY <1>1, <1>2, PTL DEF ConsoleSpec

(* The types of the data, and no more blocks than the shared memory holds. *)
THEOREM ConsoleTypeCorrect ==
  ASSUME CalmUsers
  PROVE  ConsoleSpec => []ConsoleTypeOK
<1>1. ConsoleInd => ConsoleTypeOK
  <2> SUFFICES ASSUME ConsoleInd PROVE ConsoleTypeOK
    OBVIOUS
  <2>1. TypeOK
    BY DEF ConsoleInd, CalmInd, Ind, Good, TypeOK
  <2>2. freeBlocks \in 0 .. Blocks
    <3>1. Supplied(vm, frame, freeBlocks)
      BY ConsoleType
    <3>2. Cardinality(Busy(frame)) \in Nat
      BY Counted DEF Busy
    <3> QED BY <3>1, <3>2, ConsoleAssumption DEF Supplied
  <2> QED BY <2>1, <2>2 DEF ConsoleTypeOK, ConsoleInd
<1> QED BY <1>1, ConsoleInvariance, PTL

(***************************************************************************)
(* Shared memory does not leak: a block is free or held by a living thread *)
(* that waits for a round of its own, however its call ends.               *)
(***************************************************************************)
THEOREM NoBlockLeaks ==
  ASSUME CalmUsers
  PROVE  ConsoleSpec => []BlocksAccounted
<1>1. ConsoleInd => BlocksAccounted
  BY DEF ConsoleInd, BlocksOK
<1> QED BY <1>1, ConsoleInvariance, PTL

(***************************************************************************)
(* No wake-up for a block is lost: while threads wait for memory, each     *)
(* free block has a thread that was woken for it and will try again.       *)
(***************************************************************************)
THEOREM NoWakeupLost ==
  ASSUME CalmUsers
  PROVE  ConsoleSpec => []WakeupsSuffice
<1>1. ConsoleInd => WakeupsSuffice
  BY DEF ConsoleInd, BlocksOK
<1> QED BY <1>1, ConsoleInvariance, PTL

(* A thread is in the memory queue exactly while it waits for memory, once. *)
THEOREM AlwaysInMemoryQueue ==
  ASSUME CalmUsers
  PROVE  ConsoleSpec => []MemoryQueueAgrees
<1>1. ConsoleInd => MemoryQueueAgrees
  <2> SUFFICES ASSUME ConsoleInd, NEW t \in App
               PROVE  Count(vm.memQueue[Priority[t]], t) =
                        IF vm.state[t] = "WAITING" /\ vm.waitingFor[t] = WAITING_MEMORY
                        THEN 1 ELSE 0
    BY DEF MemoryQueueAgrees
  <2>1. CalmInd /\ InMemoryQueue(vm)
    BY DEF ConsoleInd, InCalls
  <2>2. Placed(vm) /\ t \in Thread /\ Priority[t] \in Priorities /\ NOTHING \notin Priorities
    BY <2>1, CalmType, AppPrioritiesType
  <2>3. /\ NoRepeats(vm.memQueue[Priority[t]], 1)
        /\ Holds(vm.memQueue[Priority[t]], t) <=> vm.waitingFor[t] = WAITING_MEMORY
    BY <2>1, <2>2 DEF InMemoryQueue, Lines, MemoryPlace
  <2>4. vm.waitingFor[t] = WAITING_MEMORY => vm.state[t] = "WAITING"
    BY <2>2, ReasonsDiffer DEF Placed, Standing
  <2> QED BY <2>3, <2>4, CountOnce
<1> QED BY <1>1, ConsoleInvariance, PTL

(* A higher thread is ready and waits only after a call that failed.       *)
THEOREM AlwaysOnlyErrorsDelay ==
  ASSUME CalmUsers
  PROVE  ConsoleSpec => []OnlyErrorsDelay
<1>1. ConsoleInd => OnlyErrorsDelay
  BY DEF ConsoleInd, Served, OnlyErrorsDelay, HighestFirst, HighestRuns, curr
<1> QED BY <1>1, ConsoleInvariance, PTL

=============================================================================
