---------------------------- MODULE KernelProofs ----------------------------
(***************************************************************************)
(* The kernel's inductive invariant and the theorems that follow from it,  *)
(* for every number of threads and mutexes, every assignment of priorities *)
(* and every application that does not terminate the idle thread           *)
(* (IdleSpared).  The first part says what the operators of                *)
(* Scheduler return and preserve, and those of Kernel that release the     *)
(* mutexes of a thread and take it out of its queues.                      *)
(***************************************************************************)
EXTENDS Kernel, IterationProofs, SequenceTheorems, FiniteSetTheorems

-----------------------------------------------------------------------------
(* Sequences                                                               *)

(* The first entry for t is an entry for t.                                *)
LEMMA FirstAtType ==
  ASSUME NEW S, NEW q \in Seq(S), NEW t, Holds(q, t)
  PROVE  FirstAt(q, t) \in 1 .. Len(q) /\ q[FirstAt(q, t)] = t
<1> DEFINE At == {j \in 1 .. Len(q) : q[j] = t}
<1>1. At \in SUBSET Nat /\ At # {}
  BY DEF Holds
<1>2. PICK j \in At : \A l \in At : j <= l
  <2> HIDE DEF At
  <2> QED BY <1>1, LeastNatural
<1>3. \E l \in 1 .. Len(q) : q[l] = t /\ \A h \in 1 .. Len(q) : h < l => q[h] # t
  <2>1. j \in 1 .. Len(q) /\ q[j] = t
    OBVIOUS
  <2>2. ASSUME NEW h \in 1 .. Len(q), h < j PROVE q[h] # t
    <3>1. h \notin At
      <4> HIDE DEF At
      <4> QED BY <1>1, <1>2, <2>2
    <3> QED BY <3>1
  <2> QED BY <2>1, <2>2
<1> QED BY <1>3 DEF FirstAt

-----------------------------------------------------------------------------
(* Arrays of queues                                                        *)

Queues(T) == [Priorities -> Seq(T)]

LEMMA TopType ==
  ASSUME NEW T, NEW qs \in Queues(T), ~ AllEmpty(qs)
  PROVE  /\ Top(qs) \in Priorities
         /\ qs[Top(qs)] # <<>>
         /\ \A j \in Priorities : j > Top(qs) => qs[j] = <<>>
<1>1. DOMAIN qs = 0 .. 3
  BY DEF Queues, Priorities, VM_THREAD_PRIORITY_NONE, VM_THREAD_PRIORITY_HIGH
<1>2. \E i \in 0 .. 3 : qs[i] # <<>> /\ \A j \in 0 .. 3 : j > i => qs[j] = <<>>
  <2>1. 0 .. 3 = {0, 1, 2, 3}
    OBVIOUS
  <2>2. \E i \in {0, 1, 2, 3} : qs[i] # <<>>
    BY <1>1, <2>1 DEF AllEmpty
  <2>3. CASE qs[3] # <<>>
    BY <2>3
  <2>4. CASE qs[3] = <<>> /\ qs[2] # <<>>
    BY <2>4, <2>1
  <2>5. CASE qs[3] = <<>> /\ qs[2] = <<>> /\ qs[1] # <<>>
    BY <2>5, <2>1
  <2>6. CASE qs[3] = <<>> /\ qs[2] = <<>> /\ qs[1] = <<>>
    BY <2>6, <2>1, <2>2
  <2> QED BY <2>3, <2>4, <2>5, <2>6
<1> QED BY <1>1, <1>2
     DEF Top, Priorities, VM_THREAD_PRIORITY_NONE, VM_THREAD_PRIORITY_HIGH

LEMMA LowestType ==
  ASSUME NEW T, NEW qs \in [0 .. 3 -> Seq(T)], NEW t, \E i \in 0 .. 3 : Holds(qs[i], t)
  PROVE  Lowest(qs, t) \in 0 .. 3 /\ Holds(qs[Lowest(qs, t)], t)
<1>1. DOMAIN qs = 0 .. 3
  OBVIOUS
<1> DEFINE At == {i \in 0 .. 3 : Holds(qs[i], t)}
<1>2. At \in SUBSET Nat /\ At # {}
  OBVIOUS
<1>3. PICK i \in At : \A j \in At : i <= j
  <2> HIDE DEF At
  <2> QED BY <1>2, LeastNatural
<1>4. \A j \in 0 .. 3 : j < i => ~ Holds(qs[j], t)
  BY <1>3
<1> QED BY <1>1, <1>3, <1>4 DEF Lowest

LEMMA PushType ==
  ASSUME NEW T, NEW I, NEW qs \in [I -> Seq(T)], NEW i \in I, NEW t \in T
  PROVE  /\ Push(qs, i, t) \in [I -> Seq(T)]
         /\ Push(qs, i, t)[i] = Append(qs[i], t)
         /\ \A j \in I : j # i => Push(qs, i, t)[j] = qs[j]
BY DEF Push

(* U is what the entries of the queue served are known to be.              *)
LEMMA PopType ==
  ASSUME NEW T, NEW qs \in Queues(T), ~ AllEmpty(qs),
         NEW U, qs[Top(qs)] \in Seq(U)
  PROVE  /\ Pop(qs) \in Queues(T)
         /\ First(qs) \in T
         /\ First(qs) \in U
         /\ Pop(qs)[Top(qs)] \in Seq(U)
         /\ Len(Pop(qs)[Top(qs)]) = Len(qs[Top(qs)]) - 1
         /\ \A j \in Priorities : j # Top(qs) => Pop(qs)[j] = qs[j]
<1>1. Top(qs) \in Priorities /\ qs[Top(qs)] # <<>>
  BY TopType
<1>2. qs[Top(qs)] \in Seq(T)
  BY <1>1 DEF Queues
<1>3. /\ Head(qs[Top(qs)]) \in T
      /\ Tail(qs[Top(qs)]) \in Seq(T)
      /\ Len(Tail(qs[Top(qs)])) = Len(qs[Top(qs)]) - 1
  BY <1>1, <1>2, HeadTailProperties
<1>4. /\ Head(qs[Top(qs)]) \in U
      /\ Tail(qs[Top(qs)]) \in Seq(U)
  BY <1>1, HeadTailProperties
<1> HIDE DEF Top
<1> QED BY <1>1, <1>3, <1>4 DEF Pop, First, Queues

LEMMA WithoutType ==
  ASSUME NEW T, NEW qs \in [0 .. 3 -> Seq(T)], NEW t
  PROVE  /\ Without(qs, t) \in [0 .. 3 -> Seq(T)]
         /\ \A j \in 0 .. 3 : ~ Holds(qs[j], t) => Without(qs, t)[j] = qs[j]
         /\ \A j \in 0 .. 3 : qs[j] = <<>> => Without(qs, t)[j] = <<>>
<1>1. CASE \E i \in 0 .. 3 : Holds(qs[i], t)
  <2> DEFINE i == Lowest(qs, t)
             h == FirstAt(qs[i], t)
  <2>1. i \in 0 .. 3 /\ Holds(qs[i], t)
    BY <1>1, LowestType
  <2> HIDE DEF i
  <2>2. qs[i] \in Seq(T) /\ h \in 1 .. Len(qs[i])
    BY <2>1, FirstAtType
  <2>3. RemoveAt(qs[i], h) \in Seq(T)
    BY <2>2, RemoveAtType
  <2>4. Without(qs, t) = [qs EXCEPT ![i] = RemoveAt(qs[i], h)]
    BY <1>1 DEF Without, i
  <2>5. qs[i] # <<>>
    BY <2>1 DEF Holds
  <2> HIDE DEF h
  <2> QED BY <2>1, <2>3, <2>4, <2>5
<1>2. CASE ~ \E i \in 0 .. 3 : Holds(qs[i], t)
  BY <1>2 DEF Without
<1> QED BY <1>1, <1>2

(* Erasing an entry leaves what the others are known to be.                *)
LEMMA WithoutKeeps ==
  ASSUME NEW T, NEW qs \in [0 .. 3 -> Seq(T)], NEW t,
         NEW U, NEW j \in 0 .. 3, qs[j] \in Seq(U)
  PROVE  Without(qs, t)[j] \in Seq(U)
<1>1. CASE Holds(qs[j], t) /\ j = Lowest(qs, t)
  <2>1. FirstAt(qs[j], t) \in 1 .. Len(qs[j])
    BY <1>1, FirstAtType
  <2>2. Without(qs, t)[j] = RemoveAt(qs[j], FirstAt(qs[j], t))
    BY <1>1 DEF Without
  <2> QED BY <2>1, <2>2, RemoveAtType
<1>2. CASE ~ (Holds(qs[j], t) /\ j = Lowest(qs, t))
  <2>1. Without(qs, t)[j] = qs[j]
    <3>1. CASE ~ Holds(qs[j], t)
      <4>1. CASE \E i \in 0 .. 3 : Holds(qs[i], t)
        <5>1. Lowest(qs, t) # j
          BY <3>1, <4>1, LowestType
        <5> QED BY <5>1 DEF Without
      <4>2. CASE ~ \E i \in 0 .. 3 : Holds(qs[i], t)
        BY <4>2 DEF Without
      <4> QED BY <4>1, <4>2
    <3>2. CASE Holds(qs[j], t) /\ j # Lowest(qs, t)
      BY <3>2 DEF Without
    <3> QED BY <3>1, <3>2, <1>2
  <2> QED BY <2>1
<1> QED BY <1>1, <1>2

-----------------------------------------------------------------------------
(* Threads and their queues                                                *)

AtPriority(p) == {t \in Thread : Priority[t] = p}

(* Every ready queue holds threads of its own priority.                    *)
ReadySorted(k) == \A p \in Priorities : k.ready[p] \in Seq(AtPriority(p))

SameLocks(k, r) ==
  /\ r.mHeld = k.mHeld
  /\ r.isLocked = k.isLocked
  /\ r.owner = k.owner
  /\ r.mWaiting = k.mWaiting
  /\ r.mutexes = k.mutexes

(* No NULL pointer has been followed, and the idle thread has not died.    *)
NoNewNull(k, r) ==
  /\ r.fault = "null" => k.fault = "null"
  /\ r.state[Idle] = "DEAD" => k.state[Idle] = "DEAD"

(* Nor has anyone joined or left the queue for memory.                     *)
Harmless(k, r) == NoNewNull(k, r) /\ r.memQueue = k.memQueue

(* The thread ids of the main and the idle thread are in range.             *)
LEMMA SystemThreads ==
  Main \in Thread /\ Idle \in Thread /\ Main \in App /\ Main # Idle
BY BoundsAssumption DEF Main, Idle, Thread, App

LEMMA AddToReadyType ==
  ASSUME NEW k \in KernelState, NEW t \in Thread
  PROVE  /\ AddToReady(k, t) \in KernelState
         /\ AddToReady(k, t).ready = Push(k.ready, Priority[t], t)
         /\ AddToReady(k, t).waiting = k.waiting
         /\ AddToReady(k, t).current = k.current
         /\ SameLocks(k, AddToReady(k, t))
         /\ Harmless(k, AddToReady(k, t))
<1>1. Priority[t] \in Priorities
  BY PriorityAssumption
<1>2. Push(k.ready, Priority[t], t) \in [Priorities -> Seq(Thread)]
  BY <1>1, PushType DEF KernelState
<1>3. /\ [k.state EXCEPT ![t] = "READY"] \in [Thread -> ThreadStates]
      /\ [k.state EXCEPT ![t] = "READY"][Idle] = "DEAD" => k.state[Idle] = "DEAD"
  BY SystemThreads DEF KernelState, ThreadStates
<1> DEFINE s == [k.state EXCEPT ![t] = "READY"]
           d == Deref(k, t)
<1>4. /\ d \in KernelState /\ d.state = k.state /\ d.ready = k.ready
      /\ d.waiting = k.waiting /\ d.current = k.current /\ SameLocks(k, d)
      /\ d.memQueue = k.memQueue
      /\ d.fault = "null" => k.fault = "null"
  BY DEF KernelState, Deref, Fault, Faults, SameLocks
<1>5. AddToReady(k, t) = [d EXCEPT !.state = s, !.ready = Push(k.ready, Priority[t], t)]
  BY <1>4 DEF AddToReady, KernelState
<1> HIDE DEF s, d
<1> DEFINE a == AddToReady(k, t)
<1>6. /\ a.state = s /\ a.ready = Push(k.ready, Priority[t], t)
      /\ a.waiting = k.waiting /\ a.current = k.current /\ a.fault = d.fault
      /\ a.memQueue = k.memQueue
      /\ SameLocks(k, a)
  BY <1>4, <1>5 DEF KernelState, SameLocks
<1>7. a \in KernelState
  <2>1. s \in [Thread -> ThreadStates]
    BY <1>3 DEF s
  <2> QED BY <1>2, <1>4, <1>5, <2>1, ZenonT(60) DEF KernelState
<1>8. Harmless(k, a)
  BY <1>3, <1>4, <1>6 DEF s, Harmless, NoNewNull
<1> QED BY <1>6, <1>7, <1>8

LEMMA RemoveFromReadyType ==
  ASSUME NEW k \in KernelState, NEW t \in Thread
  PROVE  /\ RemoveFromReady(k, t) \in KernelState
         /\ RemoveFromReady(k, t).ready = Without(k.ready, t)
         /\ RemoveFromReady(k, t).current = k.current
         /\ SameLocks(k, RemoveFromReady(k, t))
         /\ Harmless(k, RemoveFromReady(k, t))
<1>1. Without(k.ready, t) \in [0 .. 3 -> Seq(Thread)]
  BY WithoutType DEF KernelState, Priorities, VM_THREAD_PRIORITY_NONE, VM_THREAD_PRIORITY_HIGH
<1> QED BY <1>1 DEF KernelState, RemoveFromReady, SameLocks, Harmless, NoNewNull,
                    Priorities, VM_THREAD_PRIORITY_NONE, VM_THREAD_PRIORITY_HIGH

(* What the methods that leave the ready queues alone have in common.      *)
SameReady(k, r) ==
  /\ r \in KernelState
  /\ r.ready = k.ready
  /\ r.current = k.current
  /\ r.allThreads = k.allThreads
  /\ SameLocks(k, r)
  /\ Harmless(k, r)

LEMMA AddToWaitingType ==
  ASSUME NEW k \in KernelState, NEW t \in App, k.waitingFor[t] \in Reasons
  PROVE  /\ SameReady(k, AddToWaiting(k, t))
         /\ AddToWaiting(k, t).state = [k.state EXCEPT ![t] = "WAITING"]
<1>1. Push(k.waiting, k.waitingFor[t], t) \in [Reasons -> Seq(App)]
  BY PushType DEF KernelState
<1>2. t \in Thread
  BY DEF App
<1> DEFINE s == [k.state EXCEPT ![t] = "WAITING"]
<1>3. s \in [Thread -> ThreadStates] /\ (s[Idle] = "DEAD" => k.state[Idle] = "DEAD")
  BY <1>2, SystemThreads DEF KernelState, ThreadStates
<1>4. AddToWaiting(k, t) =
        [k EXCEPT !.state = s, !.waiting = Push(k.waiting, k.waitingFor[t], t)]
  BY DEF AddToWaiting, KernelState
<1> HIDE DEF s
<1>5. AddToWaiting(k, t).state = s
  BY <1>4 DEF KernelState
<1> QED BY <1>1, <1>3, <1>4, <1>5, ZenonT(60) DEF KernelState, s, SameReady, SameLocks, Harmless, NoNewNull

LEMMA StopsWaitingType ==
  ASSUME NEW k \in KernelState, NEW t \in Thread
  PROVE  /\ SameReady(k, StopsWaiting(k, t))
         /\ StopsWaiting(k, t).waiting = k.waiting
<1>1. /\ [k.waitingFor EXCEPT ![t] = NOTHING] \in [Thread -> Reasons \union {NOTHING}]
      /\ [k.ticksLeft EXCEPT ![t] = 0] \in [Thread -> Tick]
      /\ [k.infiniteFlag EXCEPT ![t] = FALSE] \in [Thread -> BOOLEAN]
  BY BoundsAssumption DEF KernelState, Tick
<1>2. StopsWaiting(k, t) =
        [k EXCEPT !.waitingFor = [k.waitingFor EXCEPT ![t] = NOTHING],
                  !.ticksLeft = [k.ticksLeft EXCEPT ![t] = 0],
                  !.infiniteFlag = [k.infiniteFlag EXCEPT ![t] = FALSE]]
  BY DEF StopsWaiting, KernelState
<1> QED BY <1>1, <1>2, ZenonT(60) DEF KernelState, SameReady, SameLocks, Harmless, NoNewNull

LEMMA RemoveFromWaitingType ==
  ASSUME NEW k \in KernelState, NEW t \in Thread
  PROVE  SameReady(k, RemoveFromWaiting(k, t))
<1>1. Without(k.waiting, t) \in [0 .. 3 -> Seq(App)]
  BY WithoutType DEF KernelState, Reasons, WAITING_IO, WAITING_MEMORY
<1>2. SameReady(k, StopsWaiting(k, t)) /\ StopsWaiting(k, t).waiting = k.waiting
  BY StopsWaitingType
<1> QED BY <1>1, <1>2 DEF KernelState, RemoveFromWaiting, Reasons, WAITING_IO, WAITING_MEMORY,
                    SameReady, SameLocks, Harmless, NoNewNull

LEMMA DerefType ==
  ASSUME NEW k \in KernelState, NEW t \in Thread
  PROVE  /\ SameReady(k, Deref(k, t))
         /\ Deref(k, t).waiting = k.waiting
BY DEF KernelState, Deref, Fault, Faults, SameReady, SameLocks, Harmless, NoNewNull

LEMMA DecrementTicksType ==
  ASSUME NEW k \in KernelState, NEW t \in Thread
  PROVE  /\ SameReady(k, DecrementTicks(k, t))
         /\ DecrementTicks(k, t).waiting = k.waiting
<1>1. (IF k.ticksLeft[t] = 0 THEN TickMax ELSE k.ticksLeft[t] - 1) \in Tick
  BY BoundsAssumption DEF KernelState, Tick
<1> QED BY <1>1 DEF KernelState, DecrementTicks, SameReady, SameLocks, Harmless, NoNewNull

-----------------------------------------------------------------------------
(* The loops of processAllWaiting                                          *)

(* What a tick's loops keep of the snapshot k they start from.             *)
TickKeeps(k, r) ==
  /\ r \in KernelState
  /\ ReadySorted(r)
  /\ r.ready[VM_THREAD_PRIORITY_NONE] = k.ready[VM_THREAD_PRIORITY_NONE]
  /\ r.current = k.current
  /\ SameLocks(k, r)
  /\ Harmless(k, r)

(* A ready queue that is given a thread of its priority stays sorted.      *)
LEMMA AddToReadySorted ==
  ASSUME NEW k \in KernelState, ReadySorted(k), NEW t \in Thread
  PROVE  /\ ReadySorted(AddToReady(k, t))
         /\ \A p \in Priorities :
              p # Priority[t] => AddToReady(k, t).ready[p] = k.ready[p]
<1>1. Priority[t] \in Priorities
  BY PriorityAssumption
<1>2. k.ready \in [Priorities -> Seq(Thread)]
  BY DEF KernelState
<1>3. /\ Push(k.ready, Priority[t], t)[Priority[t]] = Append(k.ready[Priority[t]], t)
      /\ \A p \in Priorities :
           p # Priority[t] => Push(k.ready, Priority[t], t)[p] = k.ready[p]
  BY <1>1, <1>2, PushType
<1>4. t \in AtPriority(Priority[t])
  BY DEF AtPriority
<1>5. Append(k.ready[Priority[t]], t) \in Seq(AtPriority(Priority[t]))
  BY <1>1, <1>4, AppendProperties DEF ReadySorted
<1>6. AddToReady(k, t).ready = Push(k.ready, Priority[t], t)
  BY AddToReadyType
<1> QED BY <1>1, <1>3, <1>5, <1>6 DEF ReadySorted

(* An application's thread never goes to the idle thread's queue.          *)
LEMMA AddAppToReady ==
  ASSUME NEW k \in KernelState, ReadySorted(k), NEW t \in App
  PROVE  TickKeeps(k, AddToReady(k, t))
<1>1. t \in Thread /\ Priority[t] # VM_THREAD_PRIORITY_NONE
  BY PriorityAssumption DEF App
<1>2. VM_THREAD_PRIORITY_NONE \in Priorities
  BY DEF Priorities, VM_THREAD_PRIORITY_NONE, VM_THREAD_PRIORITY_HIGH
<1> QED BY <1>1, <1>2, AddToReadyType, AddToReadySorted DEF TickKeeps

LEMMA TickKeepsSame ==
  ASSUME NEW k, NEW r, NEW s, TickKeeps(k, r), SameReady(r, s)
  PROVE  TickKeeps(k, s)
BY DEF TickKeeps, SameReady, ReadySorted, SameLocks, Harmless, NoNewNull

LEMMA TickKeepsTransitive ==
  ASSUME NEW k, NEW r, NEW s, TickKeeps(k, r), TickKeeps(r, s)
  PROVE  TickKeeps(k, s)
BY DEF TickKeeps, SameLocks, Harmless, NoNewNull

(* The rounds of the loop over waiting queue r, begun in k.                *)
Visits(k, r) ==
  {x \in [k : KernelState, i : Nat \ {0}, counter : Nat] :
     /\ TickKeeps(k, x.k)
     /\ x.i - 1 + x.counter = Len(x.k.waiting[r])}

LEMMA VisitWaitingType ==
  ASSUME NEW k \in KernelState, NEW r \in Reasons, NEW x \in Visits(k, r)
  PROVE  VisitWaiting(x, r) \in Visits(k, r)
<1> DEFINE t  == x.k.waiting[r][x.i]
           k0 == Deref(x.k, t)
           k1 == DecrementTicks(k0, t)
           k2 == StopsWaiting(k1, t)
           k3 == AddToReady(k2, t)
           k4 == [k3 EXCEPT !.mWants[t] = IF r = WAITING_MUTEX THEN NULL_MUTEX ELSE @,
                            !.waiting[r] = RemoveAt(@, x.i)]
<1>1. /\ x.k \in KernelState /\ x.i \in Nat \ {0} /\ x.counter \in Nat
      /\ TickKeeps(k, x.k)
      /\ x.i - 1 + x.counter = Len(x.k.waiting[r])
      /\ x = [k |-> x.k, i |-> x.i, counter |-> x.counter]
  BY DEF Visits
<1>2. CASE x.counter = 0
  BY <1>2 DEF VisitWaiting
<1>3. CASE x.counter # 0
  <2>1. x.k.waiting \in [Reasons -> Seq(App)] /\ x.k.waiting[r] \in Seq(App)
    BY <1>1 DEF KernelState
  <2>2. x.i \in 1 .. Len(x.k.waiting[r])
    BY <1>1, <1>3, <2>1
  <2>3. t \in App /\ t \in Thread
    BY <2>1, <2>2, ElementOfSeq DEF App
  <2> HIDE DEF t
  <2>4. k0 \in KernelState /\ TickKeeps(k, k0) /\ k0.waiting = x.k.waiting
    BY <1>1, <2>3, DerefType, TickKeepsSame DEF SameReady
  <2> HIDE DEF k0
  <2>5. k1 \in KernelState /\ TickKeeps(k, k1) /\ k1.waiting = x.k.waiting
    BY <2>3, <2>4, DecrementTicksType, TickKeepsSame DEF SameReady
  <2> HIDE DEF k1
  <2>6. k2 \in KernelState /\ TickKeeps(k, k2) /\ k2.waiting = x.k.waiting
    BY <2>3, <2>5, StopsWaitingType, TickKeepsSame DEF SameReady
  <2> HIDE DEF k2
  <2>7. k3 \in KernelState /\ TickKeeps(k, k3) /\ k3.waiting = x.k.waiting
    <3>1. ReadySorted(k2)
      BY <2>6 DEF TickKeeps
    <3>2. TickKeeps(k2, k3) /\ k3.waiting = k2.waiting
      BY <2>3, <2>6, <3>1, AddAppToReady, AddToReadyType
    <3> HIDE DEF k3
    <3> QED BY <2>6, <3>2, TickKeepsTransitive DEF TickKeeps
  <2> HIDE DEF k3
  <2>8. /\ RemoveAt(x.k.waiting[r], x.i) \in Seq(App)
        /\ Len(RemoveAt(x.k.waiting[r], x.i)) = Len(x.k.waiting[r]) - 1
    BY <2>1, <2>2, RemoveAtType
  <2>9. /\ SameReady(k3, k4)
        /\ k4.waiting = [x.k.waiting EXCEPT ![r] = RemoveAt(x.k.waiting[r], x.i)]
    BY <2>3, <2>7, <2>8 DEF KernelState, SameReady, SameLocks, Harmless, NoNewNull
  <2>10. k4 \in KernelState /\ TickKeeps(k, k4)
    BY <2>7, <2>9, TickKeepsSame DEF SameReady
  <2>11. k4.waiting[r] = RemoveAt(x.k.waiting[r], x.i)
    BY <2>1, <2>9
  <2> HIDE DEF k4
  <2>12. [k |-> k4, i |-> x.i, counter |-> x.counter - 1] \in Visits(k, r)
    BY <1>1, <1>3, <2>8, <2>10, <2>11 DEF Visits
  <2>13. [k |-> k1, i |-> x.i + 1, counter |-> x.counter - 1] \in Visits(k, r)
    BY <1>1, <1>3, <2>5 DEF Visits
  <2>14. \/ VisitWaiting(x, r) = [k |-> k4, i |-> x.i, counter |-> x.counter - 1]
         \/ VisitWaiting(x, r) = [k |-> k1, i |-> x.i + 1, counter |-> x.counter - 1]
    BY <1>3 DEF VisitWaiting, t, k0, k1, k2, k3, k4
  <2> QED BY <2>12, <2>13, <2>14
<1> QED BY <1>1, <1>2, <1>3

(***************************************************************************)
(* What holds of the loop's start and is kept by every round holds of its  *)
(* end.                                                                    *)
(***************************************************************************)
LEMMA ProcessWaitingLoop ==
  ASSUME NEW k \in KernelState, NEW r \in Reasons, NEW X,
         [k |-> k, i |-> 1, counter |-> Len(k.waiting[r])] \in X,
         \A x \in X : VisitWaiting(x, r) \in X
  PROVE  \E x \in X : ProcessWaiting(k, r) = x.k
<1> DEFINE length == Len(k.waiting[r])
           first  == [k |-> k, i |-> 1, counter |-> length]
           step   == [n \in 1 .. length |-> [x \in X |-> VisitWaiting(x, r)]]
           S      == [n \in 0 .. length |-> X]
           Is(f)  == f = [n \in 0 .. length |->
                            IF n = 0 THEN first ELSE VisitWaiting(f[n - 1], r)]
           visit  == CHOOSE f : Is(f)
<1>1. length \in Nat
  BY LenProperties DEF KernelState
<1>2. first \in X
  OBVIOUS
<1>3. /\ \A n \in 1 .. length, x \in X : step[n][x] = VisitWaiting(x, r)
      /\ step \in [1 .. length -> [X -> X]]
  OBVIOUS
<1> HIDE DEF length, first, step
<1>4. PICK f \in [0 .. length -> X] : IsLoop(f, first, step, length)
  BY <1>1, <1>2, <1>3, IterationExists
<1>5. Is(f)
  <2>1. \A n \in 0 .. length :
          f[n] = IF n = 0 THEN first ELSE VisitWaiting(f[n - 1], r)
    <3>1. \A n \in 0 .. length : n # 0 => n \in 1 .. length /\ n - 1 \in 0 .. length
      BY <1>1
    <3> QED BY <1>3, <1>4, <3>1 DEF IsLoop
  <2> QED BY <1>4, <2>1
<1>6. Is(visit)
  BY <1>5
<1> HIDE DEF visit
<1>7. \A n \in 0 .. length : visit[n] \in X
  <2>1. visit[0] \in S[0]
    BY <1>1, <1>2, <1>6
  <2>2. \A n \in 1 .. length : visit[n - 1] \in S[n - 1] => visit[n] \in S[n]
    <3>1. \A n \in 1 .. length : visit[n] = VisitWaiting(visit[n - 1], r)
      BY <1>1, <1>6
    <3>2. \A n \in 1 .. length : n - 1 \in 0 .. length
      BY <1>1
    <3> QED BY <3>1, <3>2
  <2>3. \A n \in 0 .. length : visit[n] \in S[n]
    <3> HIDE DEF S
    <3> QED BY <1>1, <2>1, <2>2, IterationStays
  <2> QED BY <2>3
<1>8. ProcessWaiting(k, r) = visit[length].k
  BY DEF ProcessWaiting, visit, length, first
<1> QED BY <1>1, <1>7, <1>8

LEMMA FirstVisit ==
  ASSUME NEW k \in KernelState, ReadySorted(k), NEW r \in Reasons
  PROVE  [k |-> k, i |-> 1, counter |-> Len(k.waiting[r])] \in Visits(k, r)
<1>1. TickKeeps(k, k)
  BY DEF TickKeeps, SameLocks, Harmless, NoNewNull
<1>2. Len(k.waiting[r]) \in Nat
  BY LenProperties DEF KernelState
<1> QED BY <1>1, <1>2 DEF Visits

LEMMA ProcessWaitingType ==
  ASSUME NEW k \in KernelState, ReadySorted(k), NEW r \in Reasons
  PROVE  TickKeeps(k, ProcessWaiting(k, r))
<1>1. PICK x \in Visits(k, r) : ProcessWaiting(k, r) = x.k
  BY FirstVisit, VisitWaitingType, ProcessWaitingLoop
<1> QED BY <1>1 DEF Visits

LEMMA ProcessAllWaitingType ==
  ASSUME NEW k \in KernelState, ReadySorted(k)
  PROVE  TickKeeps(k, ProcessAllWaiting(k))
<1> DEFINE k1 == ProcessWaiting(k, WAITING_SLEEP)
<1>1. WAITING_SLEEP \in Reasons /\ WAITING_MUTEX \in Reasons
  BY DEF Reasons, WAITING_IO, WAITING_MUTEX, WAITING_SLEEP, WAITING_MEMORY
<1>2. TickKeeps(k, k1)
  BY <1>1, ProcessWaitingType
<1> HIDE DEF k1
<1>3. TickKeeps(k1, ProcessWaiting(k1, WAITING_MUTEX))
  BY <1>1, <1>2, ProcessWaitingType DEF TickKeeps
<1>4. ProcessAllWaiting(k) = ProcessWaiting(k1, WAITING_MUTEX)
  BY DEF ProcessAllWaiting, k1
<1> QED BY <1>2, <1>3, <1>4, TickKeepsTransitive

-----------------------------------------------------------------------------
(* Giving the processor up                                                 *)

IdleCount(k) == Len(k.ready[VM_THREAD_PRIORITY_NONE])

IdleReady(k) == IdleCount(k) = IF k.current = Idle THEN 1 ELSE 2

HighestFirst(k) ==
  \A p \in Priorities : p > Priority[k.current] => k.ready[p] = <<>>

(* What scheduleNext establishes and every handler keeps.                  *)
Scheduled(k) ==
  /\ k \in KernelState
  /\ ReadySorted(k)
  /\ IdleReady(k)
  /\ HighestFirst(k)

LEMMA ScheduleNextType ==
  ASSUME NEW k \in KernelState, ReadySorted(k), IdleCount(k) = 2
  PROVE  /\ Scheduled(ScheduleNext(k))
         /\ SameLocks(k, ScheduleNext(k))
         /\ Harmless(k, ScheduleNext(k))
<1> DEFINE p  == Top(k.ready)
           t  == First(k.ready)
           qs == Pop(k.ready)
           d  == Deref(k, t)
           s  == [k.state EXCEPT ![t] = "RUNNING"]
           r  == [d EXCEPT !.ready = qs, !.state = s, !.current = t]
<1>1. k.ready \in Queues(Thread) /\ VM_THREAD_PRIORITY_NONE \in Priorities
  BY DEF KernelState, Queues, Priorities, VM_THREAD_PRIORITY_NONE, VM_THREAD_PRIORITY_HIGH
<1>2. k.ready[VM_THREAD_PRIORITY_NONE] # <<>>
  BY EmptySeq DEF IdleCount
<1>3. ~ AllEmpty(k.ready)
  BY <1>1, <1>2 DEF AllEmpty, Queues
<1>4. /\ p \in Priorities
      /\ \A j \in Priorities : j > p => k.ready[j] = <<>>
  BY <1>1, <1>3, TopType
<1>5. k.ready[p] \in Seq(AtPriority(p))
  BY <1>4 DEF ReadySorted
<1>6. /\ qs \in Queues(Thread)
      /\ t \in Thread /\ t \in AtPriority(p)
      /\ qs[p] \in Seq(AtPriority(p))
      /\ Len(qs[p]) = Len(k.ready[p]) - 1
      /\ \A j \in Priorities : j # p => qs[j] = k.ready[j]
  BY <1>1, <1>3, <1>5, PopType
<1> HIDE DEF p, qs
<1>7. /\ d \in KernelState /\ d.ready = k.ready /\ d.state = k.state
      /\ SameLocks(k, d) /\ (d.fault = "null" => k.fault = "null")
      /\ d.memQueue = k.memQueue
  BY <1>6 DEF KernelState, Deref, Fault, Faults, SameLocks
<1>13. ScheduleNext(k) = r
  BY <1>3, <1>7 DEF ScheduleNext, KernelState, qs
<1> HIDE DEF t, d
<1>14. s \in [Thread -> ThreadStates] /\ (s[Idle] = "DEAD" => k.state[Idle] = "DEAD")
  BY <1>6, SystemThreads DEF KernelState, ThreadStates
<1> HIDE DEF s
<1>8. /\ r \in KernelState /\ r.ready = qs /\ r.current = t
      /\ SameLocks(k, r) /\ Harmless(k, r)
  BY <1>6, <1>7, <1>14 DEF KernelState, Queues, SameLocks, Harmless, NoNewNull
<1> HIDE DEF r
<1>9. ReadySorted(r)
  BY <1>6, <1>8 DEF ReadySorted
<1>10. Priority[t] = p
  BY <1>6 DEF AtPriority
<1>11. HighestFirst(r)
  <2>1. \A j \in Priorities : j > p => qs[j] = <<>>
    <3>1. \A j \in Priorities : j > p => j # p
      BY <1>4 DEF Priorities, VM_THREAD_PRIORITY_NONE, VM_THREAD_PRIORITY_HIGH
    <3> QED BY <1>4, <1>6, <3>1
  <2> QED BY <1>8, <1>10, <2>1 DEF HighestFirst
<1>12. IdleReady(r)
  <2>1. CASE p = VM_THREAD_PRIORITY_NONE
    <3>1. t = Idle
      BY <2>1, <1>6, <1>10, PriorityAssumption DEF App
    <3>2. IdleCount(r) = IdleCount(k) - 1
      BY <2>1, <1>6, <1>8 DEF IdleCount
    <3>3. r.current = Idle
      BY <3>1, <1>8
    <3> QED BY <3>2, <3>3 DEF IdleReady
  <2>2. CASE p # VM_THREAD_PRIORITY_NONE
    <3>1. t # Idle
      BY <2>2, <1>10, PriorityAssumption
    <3> QED BY <2>2, <3>1, <1>1, <1>6, <1>8 DEF IdleReady, IdleCount
  <2> QED BY <2>1, <2>2
<1> QED BY <1>8, <1>9, <1>11, <1>12, <1>13 DEF Scheduled

(* The idle thread, when it yields, joins its other entry.                 *)
LEMMA YieldType ==
  ASSUME NEW k \in KernelState, ReadySorted(k), IdleReady(k)
  PROVE  /\ Scheduled(Yield(k))
         /\ SameLocks(k, Yield(k))
         /\ Harmless(k, Yield(k))
<1> DEFINE t == k.current
           r == AddToReady(k, t)
<1>1. t \in Thread
  BY DEF KernelState
<1>2. /\ r \in KernelState /\ ReadySorted(r)
      /\ r.ready = Push(k.ready, Priority[t], t)
      /\ SameLocks(k, r) /\ Harmless(k, r)
  BY <1>1, AddToReadyType, AddToReadySorted
<1>3. IdleCount(r) = 2
  <2>1. VM_THREAD_PRIORITY_NONE \in Priorities
    BY DEF Priorities, VM_THREAD_PRIORITY_NONE, VM_THREAD_PRIORITY_HIGH
  <2>2. CASE t = Idle
    <3>1. Priority[t] = VM_THREAD_PRIORITY_NONE
      BY <2>2, PriorityAssumption
    <3>2. r.ready[VM_THREAD_PRIORITY_NONE] = Append(k.ready[VM_THREAD_PRIORITY_NONE], t)
      <4>1. k.ready \in [Priorities -> Seq(Thread)]
        BY DEF KernelState
      <4>2. Push(k.ready, Priority[t], t)[Priority[t]] = Append(k.ready[Priority[t]], t)
        BY <1>1, <2>1, <3>1, <4>1, PushType
      <4> QED BY <1>2, <3>1, <4>2
    <3>3. k.ready[VM_THREAD_PRIORITY_NONE] \in Seq(Thread)
      BY <2>1 DEF KernelState
    <3>4. Len(k.ready[VM_THREAD_PRIORITY_NONE]) = 1
      BY <2>2 DEF IdleReady, IdleCount
    <3> QED BY <1>1, <3>2, <3>3, <3>4, AppendProperties DEF IdleCount
  <2>3. CASE t # Idle
    <3>1. t \in App
      BY <1>1, <2>3 DEF App
    <3>2. r.ready[VM_THREAD_PRIORITY_NONE] = k.ready[VM_THREAD_PRIORITY_NONE]
      BY <3>1, AddAppToReady DEF TickKeeps
    <3> QED BY <2>3, <3>2 DEF IdleReady, IdleCount
  <2> QED BY <2>2, <2>3
<1>4. Yield(k) = ScheduleNext(r)
  BY DEF Yield
<1> HIDE DEF r
<1> QED BY <1>2, <1>3, <1>4, ScheduleNextType DEF SameLocks, Harmless, NoNewNull

LEMMA BlockType ==
  ASSUME NEW k \in KernelState, ReadySorted(k), IdleReady(k), k.current # Idle,
         NEW w \in Reasons
  PROVE  /\ Scheduled(Block(k, w))
         /\ SameLocks(k, Block(k, w))
         /\ Harmless(k, Block(k, w))
<1> DEFINE t == k.current
           a == [k EXCEPT !.waitingFor[t] = w]
           r == AddToWaiting(a, t)
<1>1. t \in Thread /\ t \in App
  BY DEF KernelState, App
<1>2. SameReady(k, a) /\ a.waitingFor[t] = w /\ a.state = k.state
  BY <1>1 DEF KernelState, SameReady, SameLocks, Harmless, NoNewNull
<1>3. a \in KernelState
  BY <1>2 DEF SameReady
<1> HIDE DEF a
<1>4. SameReady(a, r)
  BY <1>1, <1>2, <1>3, AddToWaitingType
<1>5. Block(k, w) = ScheduleNext(r)
  BY DEF Block, a
<1> HIDE DEF r
<1>6. SameReady(k, r)
  BY <1>2, <1>4 DEF SameReady, SameLocks, Harmless, NoNewNull
<1>7. r \in KernelState /\ ReadySorted(r) /\ IdleCount(r) = 2
  BY <1>6 DEF SameReady, ReadySorted, IdleReady, IdleCount
<1> QED BY <1>5, <1>6, <1>7, ScheduleNextType DEF SameReady, SameLocks, Harmless, NoNewNull

-----------------------------------------------------------------------------
(***************************************************************************)
(* The two records of who owns a mutex, Mutex::owner and the threads'      *)
(* mHeld lists, through the calls that let a mutex go.  VMThreadTerminate  *)
(* does not shorten mHeld while it passes its mutexes on: the first i - 1  *)
(* entries of the list of the thread t it terminates no longer count.      *)
(***************************************************************************)

(* Lists, from their i-th entry on                                         *)

HoldsFrom(s, i, x) == \E j \in i .. Len(s) : s[j] = x

NoRepeats(s, i) == \A j, l \in i .. Len(s) : s[j] = s[l] => j = l

LEMMA AppendHolds ==
  ASSUME NEW T, NEW s \in Seq(T), NEW i \in 1 .. Len(s) + 1, NEW x \in T
  PROVE  /\ \A y : HoldsFrom(Append(s, x), i, y) <=> HoldsFrom(s, i, y) \/ y = x
         /\ NoRepeats(s, i) /\ ~ HoldsFrom(s, i, x) => NoRepeats(Append(s, x), i)
<1>1. /\ Len(s) \in Nat
      /\ Len(Append(s, x)) = Len(s) + 1
      /\ Append(s, x)[Len(s) + 1] = x
      /\ \A j \in 1 .. Len(s) : Append(s, x)[j] = s[j]
  BY AppendProperties, LenProperties
<1> DEFINE a == Append(s, x)
           n == Len(s)
<1> HIDE DEF a, n
<1>2. /\ n \in Nat /\ Len(a) = n + 1 /\ a[n + 1] = x /\ i \in 1 .. n + 1
      /\ \A j \in 1 .. n : a[j] = s[j]
  BY <1>1 DEF a, n
<1>3. \A y : (\E j \in i .. n + 1 : a[j] = y) <=> (\E j \in i .. n : s[j] = y) \/ y = x
  <2>1. \A j : j \in i .. n + 1 <=> j \in i .. n \/ j = n + 1
    BY <1>2
  <2>2. \A j \in i .. n : a[j] = s[j]
    BY <1>2
  <2> QED BY <1>2, <2>1, <2>2
<1>4. ASSUME NoRepeats(s, i), ~ HoldsFrom(s, i, x)
      PROVE  \A j, l \in i .. n + 1 : a[j] = a[l] => j = l
  <2>1. \A j \in i .. n : a[j] = s[j] /\ s[j] # x
    BY <1>2, <1>4 DEF HoldsFrom, n
  <2>2. \A j \in i .. n + 1 : j # n + 1 => j \in i .. n
    BY <1>2
  <2>3. \A j, l \in i .. n : s[j] = s[l] => j = l
    BY <1>4 DEF NoRepeats, n
  <2> QED BY <1>2, <2>1, <2>2, <2>3
<1> QED BY <1>2, <1>3, <1>4 DEF HoldsFrom, NoRepeats, a, n

LEMMA NextHolds ==
  ASSUME NEW T, NEW s \in Seq(T), NEW i \in 1 .. Len(s)
  PROVE  /\ \A y : HoldsFrom(s, i, y) <=> y = s[i] \/ HoldsFrom(s, i + 1, y)
         /\ NoRepeats(s, i) => NoRepeats(s, i + 1) /\ ~ HoldsFrom(s, i + 1, s[i])
<1>1. Len(s) \in Nat
  BY LenProperties
<1>2. \A j : j \in i .. Len(s) <=> j = i \/ j \in i + 1 .. Len(s)
  BY <1>1
<1>3. i \notin i + 1 .. Len(s)
  BY <1>1
<1> QED BY <1>2, <1>3 DEF HoldsFrom, NoRepeats

(* Erasing the one entry for x leaves the others.                          *)
Kept(q, x, n) ==
  {y \in [kept : Seq(MutexID), erased : BOOLEAN] :
     /\ \A e : Holds(y.kept, e) <=> e # x /\ \E j \in 1 .. n : q[j] = e
     /\ NoRepeats(y.kept, 1)
     /\ y.erased => \E j \in 1 .. n : q[j] = x}

LEMMA EraseNextKeeps ==
  ASSUME NEW q \in Seq(MutexID), NoRepeats(q, 1), NEW x, NEW n \in 1 .. Len(q),
         NEW y \in Kept(q, x, n - 1)
  PROVE  EraseNext(y, q[n], x) \in Kept(q, x, n)
<1>1. /\ y.kept \in Seq(MutexID) /\ y.erased \in BOOLEAN
      /\ \A e : Holds(y.kept, e) <=> e # x /\ \E j \in 1 .. n - 1 : q[j] = e
      /\ NoRepeats(y.kept, 1)
      /\ y.erased => \E j \in 1 .. n - 1 : q[j] = x
  BY DEF Kept
<1>2. \A j : j \in 1 .. n <=> j = n \/ j \in 1 .. n - 1
  OBVIOUS
<1>3. ~ \E j \in 1 .. n - 1 : q[j] = q[n]
  <2>1. \A j \in 1 .. n - 1 : j \in 1 .. Len(q) /\ j # n
    BY LenProperties
  <2> QED BY <2>1 DEF NoRepeats
<1>4. q[n] \in MutexID
  BY ElementOfSeq
<1>5. CASE q[n] = x
  <2>1. ~ y.erased
    BY <1>1, <1>3, <1>5
  <2>2. EraseNext(y, q[n], x) = [kept |-> y.kept, erased |-> TRUE]
    BY <1>5, <2>1 DEF EraseNext
  <2>3. \A e : Holds(y.kept, e) <=> e # x /\ \E j \in 1 .. n : q[j] = e
    BY <1>1, <1>2, <1>5
  <2>4. \E j \in 1 .. n : q[j] = x
    BY <1>2, <1>5
  <2> QED BY <1>1, <2>2, <2>3, <2>4 DEF Kept
<1>6. CASE q[n] # x
  <2> DEFINE s == Append(y.kept, q[n])
  <2>1. EraseNext(y, q[n], x) = [kept |-> s, erased |-> FALSE]
    BY <1>6 DEF EraseNext
  <2>2. s \in Seq(MutexID)
    BY <1>1, <1>4, AppendProperties
  <2>3. ~ HoldsFrom(y.kept, 1, q[n])
    BY <1>1, <1>3 DEF Holds, HoldsFrom
  <2>4. 1 \in 1 .. Len(y.kept) + 1
    BY <1>1, LenProperties
  <2>5. /\ \A e : HoldsFrom(s, 1, e) <=> HoldsFrom(y.kept, 1, e) \/ e = q[n]
        /\ NoRepeats(s, 1)
    BY <1>1, <1>4, <2>3, <2>4, AppendHolds
  <2> HIDE DEF s
  <2>6. \A e : Holds(s, e) <=> e # x /\ \E j \in 1 .. n : q[j] = e
    BY <1>1, <1>2, <1>6, <2>5 DEF Holds, HoldsFrom
  <2> QED BY <2>1, <2>2, <2>5, <2>6 DEF Kept
<1> QED BY <1>5, <1>6

(* For any list, erasing the entries for x gives a list of the same kind.  *)
Scans(T) == [kept : Seq(T), erased : BOOLEAN]

IsScan(scan, q, x) ==
  /\ scan[0] = [kept |-> <<>>, erased |-> FALSE]
  /\ \A n \in 1 .. Len(q) : scan[n] = EraseNext(scan[n - 1], q[n], x)
  /\ EraseEach(q, x) = scan[Len(q)].kept

LEMMA EraseEachLoop ==
  ASSUME NEW T, NEW q \in Seq(T), NEW x
  PROVE  \E scan \in [0 .. Len(q) -> Scans(T)] : IsScan(scan, q, x)
<1> DEFINE last  == Len(q)
           first == [kept |-> <<>>, erased |-> FALSE]
           step  == [n \in 1 .. last |-> [y \in Scans(T) |-> EraseNext(y, q[n], x)]]
           Is(f) == f = [n \in 0 .. last |->
                           IF n = 0 THEN first ELSE EraseNext(f[n - 1], q[n], x)]
           scan  == CHOOSE f : Is(f)
<1>1. last \in Nat
  BY LenProperties
<1>2. first \in Scans(T)
  BY EmptySeq DEF Scans
<1>3. /\ \A n \in 1 .. last, y \in Scans(T) : step[n][y] = EraseNext(y, q[n], x)
      /\ step \in [1 .. last -> [Scans(T) -> Scans(T)]]
  <2>1. ASSUME NEW n \in 1 .. last, NEW y \in Scans(T)
        PROVE  EraseNext(y, q[n], x) \in Scans(T)
    <3>1. q[n] \in T
      BY ElementOfSeq
    <3>2. Append(y.kept, q[n]) \in Seq(T)
      BY <3>1, AppendProperties DEF Scans
    <3> QED BY <3>2 DEF EraseNext, Scans
  <2> HIDE DEF last
  <2> QED BY <2>1
<1> HIDE DEF last, first, step
<1>4. PICK f \in [0 .. last -> Scans(T)] : IsLoop(f, first, step, last)
  BY <1>1, <1>2, <1>3, IterationExists
<1>5. Is(f)
  <2>1. \A n \in 0 .. last : n # 0 => n \in 1 .. last /\ n - 1 \in 0 .. last
    BY <1>1
  <2>2. \A n \in 0 .. last :
          f[n] = IF n = 0 THEN first ELSE EraseNext(f[n - 1], q[n], x)
    BY <1>3, <1>4, <2>1 DEF IsLoop
  <2> QED BY <1>4, <2>2
<1>6. Is(scan)
  BY <1>5
<1>7. EraseEach(q, x) = scan[last].kept
  BY DEF EraseEach, scan, last, first
<1> HIDE DEF scan
<1>8. /\ scan[0] = first
      /\ \A n \in 1 .. last : scan[n] = EraseNext(scan[n - 1], q[n], x)
  BY <1>1, <1>6
<1>9. \A n \in 0 .. last : scan[n] = f[n]
  <2> DEFINE S == [n \in 0 .. last |-> {f[n]}]
  <2>1. scan[0] \in S[0]
    BY <1>1, <1>4, <1>8 DEF IsLoop
  <2>2. \A n \in 1 .. last : scan[n - 1] \in S[n - 1] => scan[n] \in S[n]
    <3>1. \A n \in 1 .. last : n \in 0 .. last /\ n - 1 \in 0 .. last
      BY <1>1
    <3> QED BY <1>3, <1>4, <1>8, <3>1 DEF IsLoop
  <2>3. \A n \in 0 .. last : scan[n] \in S[n]
    <3> HIDE DEF S
    <3> QED BY <1>1, <2>1, <2>2, IterationStays
  <2> QED BY <2>3
<1>10. scan \in [0 .. last -> Scans(T)]
  BY <1>4, <1>6, <1>9
<1> QED BY <1>7, <1>8, <1>10 DEF first, last, IsScan

LEMMA EraseEachType ==
  ASSUME NEW T, NEW q \in Seq(T), NEW x
  PROVE  EraseEach(q, x) \in Seq(T)
<1>1. Len(q) \in 0 .. Len(q)
  BY LenProperties
<1> QED BY <1>1, EraseEachLoop DEF Scans, IsScan

LEMMA EraseEachKeeps ==
  ASSUME NEW q \in Seq(MutexID), NoRepeats(q, 1), NEW x
  PROVE  /\ \A e : Holds(EraseEach(q, x), e) <=> e # x /\ Holds(q, e)
         /\ NoRepeats(EraseEach(q, x), 1)
<1>1. PICK scan \in [0 .. Len(q) -> Scans(MutexID)] : IsScan(scan, q, x)
  BY EraseEachLoop
<1> DEFINE S == [n \in 0 .. Len(q) |-> Kept(q, x, n)]
<1>2. Len(q) \in Nat
  BY LenProperties
<1>3. scan[0] \in S[0]
  <2>1. <<>> \in Seq(MutexID) /\ Len(<<>>) = 0
    BY EmptySeq
  <2>2. [kept |-> <<>>, erased |-> FALSE] \in Kept(q, x, 0)
    <3> DEFINE y == [kept |-> <<>>, erased |-> FALSE]
    <3>1. y \in [kept : Seq(MutexID), erased : BOOLEAN] /\ y.kept = <<>> /\ ~ y.erased
      BY <2>1
    <3>2. \A j : j \notin 1 .. 0
      OBVIOUS
    <3> HIDE DEF y
    <3>3. \A e : Holds(y.kept, e) <=> e # x /\ \E j \in 1 .. 0 : q[j] = e
      BY <2>1, <3>1, <3>2 DEF Holds
    <3>4. NoRepeats(y.kept, 1)
      BY <2>1, <3>1, <3>2 DEF NoRepeats
    <3>5. y \in Kept(q, x, 0)
      BY <3>1, <3>3, <3>4 DEF Kept
    <3> QED BY <3>5 DEF y
  <2> QED BY <1>1, <1>2, <2>2 DEF IsScan
<1>4. \A n \in 1 .. Len(q) : scan[n - 1] \in S[n - 1] => scan[n] \in S[n]
  <2>1. \A n \in 1 .. Len(q) : n \in 0 .. Len(q) /\ n - 1 \in 0 .. Len(q)
    BY <1>2
  <2> QED BY <1>1, <2>1, EraseNextKeeps DEF IsScan
<1>5. \A n \in 0 .. Len(q) : scan[n] \in S[n]
  <2> HIDE DEF S
  <2> QED BY <1>2, <1>3, <1>4, IterationStays
<1>6. scan[Len(q)] \in Kept(q, x, Len(q))
  BY <1>2, <1>5
<1> QED BY <1>1, <1>6 DEF Kept, Holds, IsScan

-----------------------------------------------------------------------------
(* Letting a mutex go                                                      *)

(* What passing a mutex on keeps of the snapshot k.                        *)
PassKeeps(k, r) ==
  /\ r \in KernelState
  /\ ReadySorted(r)
  /\ r.ready[VM_THREAD_PRIORITY_NONE] = k.ready[VM_THREAD_PRIORITY_NONE]
  /\ r.current = k.current
  /\ r.mutexes = k.mutexes
  /\ Harmless(k, r)

LEMMA UnlockType ==
  ASSUME NEW k \in KernelState, NEW m \in MutexID
  PROVE  /\ Unlock(k, m) \in KernelState
         /\ Unlock(k, m).isLocked = [k.isLocked EXCEPT ![m] = FALSE]
         /\ Unlock(k, m).owner = [k.owner EXCEPT ![m] = NoThread]
         /\ Unlock(k, m).mHeld = k.mHeld
         /\ Unlock(k, m).mWaiting = k.mWaiting
         /\ Unlock(k, m).mutexes = k.mutexes
         /\ Unlock(k, m).ready = k.ready
         /\ Unlock(k, m).current = k.current
         /\ Harmless(k, Unlock(k, m))
<1>1. /\ [k.isLocked EXCEPT ![m] = FALSE] \in [MutexID -> BOOLEAN]
      /\ [k.owner EXCEPT ![m] = NoThread] \in [MutexID -> Thread \union {NoThread}]
  BY DEF KernelState
<1>2. Unlock(k, m) = [k EXCEPT !.isLocked = [k.isLocked EXCEPT ![m] = FALSE],
                               !.owner = [k.owner EXCEPT ![m] = NoThread]]
  BY DEF Unlock, KernelState
<1> QED BY <1>1, <1>2 DEF KernelState, Harmless, NoNewNull

(* With no one waiting, the mutex becomes free and nothing else happens.   *)
LEMMA PassOnFrees ==
  ASSUME NEW k \in KernelState, ReadySorted(k), NEW m \in MutexID,
         AllEmpty(k.mWaiting[m])
  PROVE  /\ NextOwner(Unlock(k, m), m) = NoThread
         /\ PassKeeps(k, PassOn(k, m))
         /\ PassOn(k, m).mHeld = k.mHeld
         /\ PassOn(k, m).isLocked = [k.isLocked EXCEPT ![m] = FALSE]
         /\ PassOn(k, m).owner = [k.owner EXCEPT ![m] = NoThread]
         /\ PassOn(k, m).mWaiting = k.mWaiting
         /\ PassOn(k, m).ready = k.ready
<1>1. NextOwner(Unlock(k, m), m) = NoThread
  BY UnlockType DEF NextOwner
<1>2. PassOn(k, m) = Unlock(k, m)
  BY <1>1 DEF PassOn
<1> QED BY <1>1, <1>2, UnlockType DEF PassKeeps, ReadySorted

(* The next owner is locked out of the mutex's waiting queue.              *)
LEMMA GetNextOwnerType ==
  ASSUME NEW k \in KernelState, NEW m \in MutexID,
         ~ k.isLocked[m], ~ AllEmpty(k.mWaiting[m])
  PROVE  LET t == First(k.mWaiting[m])
             r == GetNextOwner(k, m)
         IN  /\ t \in App
             /\ NextOwner(k, m) = t
             /\ t # NoThread
             /\ r \in KernelState
             /\ r.mHeld = [k.mHeld EXCEPT ![t] = Append(@, m)]
             /\ r.isLocked = [k.isLocked EXCEPT ![m] = TRUE]
             /\ r.owner = [k.owner EXCEPT ![m] = t]
             /\ r.mWaiting = [k.mWaiting EXCEPT ![m] = Pop(@)]
             /\ r.mutexes = k.mutexes
             /\ r.ready = k.ready
             /\ r.current = k.current
             /\ Harmless(k, r)
<1> DEFINE qs == k.mWaiting[m]
           t  == First(qs)
           d  == Deref(k, t)
           h  == [k.mHeld EXCEPT ![t] = Append(@, m)]
           w  == [k.mWants EXCEPT ![t] = NULL_MUTEX]
           o  == [k.owner EXCEPT ![m] = t]
           l  == [k.isLocked EXCEPT ![m] = TRUE]
           q  == [k.mWaiting EXCEPT ![m] = Pop(@)]
<1>1. qs \in Queues(App)
  BY DEF KernelState, Queues
<1>2. Top(qs) \in Priorities
  BY <1>1, TopType
<1>3. qs[Top(qs)] \in Seq(App)
  BY <1>1, <1>2 DEF Queues
<1>4. Pop(qs) \in Queues(App) /\ t \in App
  <2> HIDE DEF qs
  <2> QED BY <1>1, <1>3, PopType DEF qs
<1>5. t \in Thread /\ t # NoThread
  BY <1>4 DEF App, Thread, NoThread
<1>6. NextOwner(k, m) = t
  BY DEF NextOwner
<1> HIDE DEF t
<1>7. /\ d \in KernelState /\ d.mHeld = k.mHeld /\ d.mWants = k.mWants /\ d.owner = k.owner
      /\ d.isLocked = k.isLocked /\ d.mWaiting = k.mWaiting /\ d.mutexes = k.mutexes
      /\ d.ready = k.ready /\ d.current = k.current /\ Harmless(k, d)
  BY <1>5 DEF KernelState, Deref, Fault, Faults, Harmless, NoNewNull
<1>8. h \in [Thread -> Seq(MutexID)]
  <2>1. Append(k.mHeld[t], m) \in Seq(MutexID)
    BY <1>5, AppendProperties DEF KernelState
  <2> QED BY <1>5, <2>1 DEF KernelState
<1>9. /\ w \in [Thread -> MutexID \union {NULL_MUTEX}]
      /\ o \in [MutexID -> Thread \union {NoThread}]
      /\ l \in [MutexID -> BOOLEAN]
  BY <1>5 DEF KernelState
<1>10. q \in [MutexID -> [Priorities -> Seq(App)]]
  BY <1>4 DEF KernelState, Queues
<1> DEFINE r == [d EXCEPT !.mWaiting = q, !.mHeld = h, !.mWants = w,
                          !.owner = o, !.isLocked = l]
<1>11. GetNextOwner(k, m) = r
  BY <1>5, <1>6, <1>7 DEF GetNextOwner, KernelState
<1> HIDE DEF d, h, w, o, l, q
<1>12. /\ r.mHeld = h /\ r.isLocked = l /\ r.owner = o /\ r.mWaiting = q
       /\ r.mutexes = k.mutexes /\ r.ready = k.ready /\ r.current = k.current
       /\ r.fault = d.fault /\ r.state = d.state /\ r.memQueue = d.memQueue
  BY <1>7 DEF KernelState
<1>13. r \in KernelState
  BY <1>7, <1>8, <1>9, <1>10 DEF KernelState
<1> HIDE DEF r
<1>14. Harmless(k, r)
  BY <1>7, <1>12 DEF Harmless, NoNewNull
<1> QED BY <1>4, <1>5, <1>6, <1>11, <1>12, <1>13, <1>14 DEF t, h, o, l, q

(* Otherwise the first waiter gets the mutex and becomes ready.            *)
LEMMA PassOnGrants ==
  ASSUME NEW k \in KernelState, ReadySorted(k), NEW m \in MutexID,
         ~ AllEmpty(k.mWaiting[m])
  PROVE  LET t == First(k.mWaiting[m])
             r == PassOn(k, m)
         IN  /\ t \in App
             /\ NextOwner(Unlock(k, m), m) = t
             /\ t # NoThread
             /\ PassKeeps(k, r)
             /\ r.mHeld = [k.mHeld EXCEPT ![t] = Append(@, m)]
             /\ r.isLocked = [k.isLocked EXCEPT ![m] = TRUE]
             /\ r.owner = [k.owner EXCEPT ![m] = t]
             /\ r.mWaiting = [k.mWaiting EXCEPT ![m] = Pop(@)]
             /\ \A p \in Priorities : p # Priority[t] => r.ready[p] = k.ready[p]
<1> DEFINE t == First(k.mWaiting[m])
           u == Unlock(k, m)
           g == GetNextOwner(u, m)
           w == RemoveFromWaiting(g, t)
           r == AddToReady(w, t)
<1>1. /\ u \in KernelState
      /\ u.isLocked = [k.isLocked EXCEPT ![m] = FALSE]
      /\ u.owner = [k.owner EXCEPT ![m] = NoThread]
      /\ u.mHeld = k.mHeld /\ u.mWaiting = k.mWaiting /\ u.mutexes = k.mutexes
      /\ u.ready = k.ready /\ u.current = k.current /\ Harmless(k, u)
  BY UnlockType
<1>2. ~ u.isLocked[m] /\ ~ AllEmpty(u.mWaiting[m])
  BY <1>1 DEF KernelState
<1>3. First(u.mWaiting[m]) = t
  BY <1>1
<1> HIDE DEF u, t
<1>4. /\ t \in App /\ NextOwner(u, m) = t /\ t # NoThread
      /\ g \in KernelState
      /\ g.mHeld = [u.mHeld EXCEPT ![t] = Append(@, m)]
      /\ g.isLocked = [u.isLocked EXCEPT ![m] = TRUE]
      /\ g.owner = [u.owner EXCEPT ![m] = t]
      /\ g.mWaiting = [u.mWaiting EXCEPT ![m] = Pop(@)]
      /\ g.mutexes = u.mutexes /\ g.ready = u.ready /\ g.current = u.current
      /\ Harmless(u, g)
  BY <1>1, <1>2, <1>3, GetNextOwnerType, ZenonT(60)
<1>5. /\ g.isLocked = [k.isLocked EXCEPT ![m] = TRUE]
      /\ g.owner = [k.owner EXCEPT ![m] = t]
      /\ g.mHeld = [k.mHeld EXCEPT ![t] = Append(@, m)]
      /\ g.mWaiting = [k.mWaiting EXCEPT ![m] = Pop(@)]
  BY <1>1, <1>4 DEF KernelState
<1>6. PassOn(k, m) = r
  BY <1>4 DEF PassOn, u
<1> HIDE DEF g
<1>7. t \in Thread
  BY <1>4 DEF App
<1>8. SameReady(g, w)
  BY <1>4, <1>7, RemoveFromWaitingType
<1> HIDE DEF w
<1>9. w \in KernelState /\ ReadySorted(w) /\ w.ready = k.ready
  BY <1>1, <1>4, <1>8 DEF SameReady, ReadySorted
<1>10. /\ TickKeeps(w, r)
       /\ \A p \in Priorities : p # Priority[t] => r.ready[p] = w.ready[p]
  BY <1>4, <1>7, <1>9, AddAppToReady, AddToReadySorted
<1> HIDE DEF r
<1>11. PassKeeps(k, r)
  BY <1>1, <1>4, <1>8, <1>9, <1>10
     DEF PassKeeps, TickKeeps, SameReady, SameLocks, Harmless, NoNewNull
<1>12. SameLocks(g, r)
  BY <1>8, <1>10 DEF SameReady, TickKeeps, SameLocks
<1> QED BY <1>4, <1>5, <1>6, <1>9, <1>10, <1>11, <1>12 DEF SameLocks, t, u

-----------------------------------------------------------------------------
(* The two records of who owns a mutex agree                               *)

(* The first entry of u's list that counts.                                *)
Start(u, t, i) == IF u = t THEN i ELSE 1

(***************************************************************************)
(* The lists, t's from its i-th entry on, and the owners agree, except for *)
(* mutex x, which is being passed on and is in no list; no one waits for a *)
(* free mutex; a locked mutex exists.                                      *)
(***************************************************************************)
Agree(k, t, i, x) ==
  /\ \A u \in Thread, m \in MutexID :
       HoldsFrom(k.mHeld[u], Start(u, t, i), m)
         <=> m # x /\ k.isLocked[m] /\ k.owner[m] = u
  /\ \A u \in Thread : NoRepeats(k.mHeld[u], Start(u, t, i))

Waited(k, x) ==
  \A m \in MutexID :
    /\ m # x /\ ~ k.isLocked[m] => AllEmpty(k.mWaiting[m])
    /\ m # x /\ k.isLocked[m] => m \in k.mutexes

(* Between two calls.                                                      *)
LocksOK(k) == Agree(k, Main, 1, NULL_MUTEX) /\ Waited(k, NULL_MUTEX)

LEMMA AgreeFromStart ==
  ASSUME NEW k, NEW t, NEW t2, NEW x
  PROVE  Agree(k, t, 1, x) <=> Agree(k, t2, 1, x)
<1>1. \A u : Start(u, t, 1) = 1 /\ Start(u, t2, 1) = 1
  BY DEF Start
<1> QED BY <1>1 DEF Agree

(* The i-th entry of t's list is the next mutex to pass on.                *)
LEMMA AgreeNext ==
  ASSUME NEW k \in KernelState, NEW t \in Thread, NEW i \in 1 .. Len(k.mHeld[t]),
         Agree(k, t, i, NULL_MUTEX), Waited(k, NULL_MUTEX)
  PROVE  LET m == k.mHeld[t][i]
         IN  /\ m \in MutexID
             /\ m \in k.mutexes
             /\ Agree(k, t, i + 1, m)
             /\ Waited(k, m)
<1> DEFINE s == k.mHeld[t]
           m == s[i]
<1>1. s \in Seq(MutexID)
  BY DEF KernelState
<1>2. m \in MutexID
  BY <1>1, ElementOfSeq
<1>3. m # NULL_MUTEX
  BY <1>2 DEF MutexID, NULL_MUTEX
<1>4. /\ \A y : HoldsFrom(s, i, y) <=> y = m \/ HoldsFrom(s, i + 1, y)
      /\ NoRepeats(s, i) => NoRepeats(s, i + 1) /\ ~ HoldsFrom(s, i + 1, m)
  <2> HIDE DEF s
  <2> QED BY <1>1, NextHolds DEF s
<1>5. Start(t, t, i) = i /\ Start(t, t, i + 1) = i + 1
  BY DEF Start
<1>6. \A u : u # t => Start(u, t, i) = Start(u, t, i + 1)
  BY DEF Start
<1> HIDE DEF m
<1>7. k.isLocked[m] /\ k.owner[m] = t
  BY <1>2, <1>4, <1>5 DEF Agree
<1>8. m \in k.mutexes
  BY <1>2, <1>3, <1>7 DEF Waited
<1>9. ASSUME NEW u \in Thread, NEW y \in MutexID
      PROVE  HoldsFrom(k.mHeld[u], Start(u, t, i + 1), y)
               <=> y # m /\ k.isLocked[y] /\ k.owner[y] = u
  <2>1. HoldsFrom(k.mHeld[u], Start(u, t, i), y) <=> k.isLocked[y] /\ k.owner[y] = u
    BY DEF Agree, MutexID, NULL_MUTEX
  <2>2. CASE u = t
    <3>1. NoRepeats(s, i)
      BY <1>5 DEF Agree
    <3> QED BY <2>1, <2>2, <3>1, <1>4, <1>5
  <2>3. CASE u # t
    BY <2>1, <2>3, <1>6, <1>7
  <2> QED BY <2>2, <2>3
<1>10. \A u \in Thread : NoRepeats(k.mHeld[u], Start(u, t, i + 1))
  BY <1>4, <1>5, <1>6 DEF Agree
<1>11. Waited(k, m)
  BY DEF Waited, MutexID, NULL_MUTEX
<1> QED BY <1>2, <1>8, <1>9, <1>10, <1>11 DEF Agree, m

(* Passing mutex x on makes the records agree on it, too.                  *)
LEMMA PassOnAgrees ==
  ASSUME NEW k \in KernelState, ReadySorted(k),
         NEW t \in Thread, NEW i \in 1 .. Len(k.mHeld[t]) + 1,
         NEW x \in MutexID, x \in k.mutexes,
         Agree(k, t, i, x), Waited(k, x)
  PROVE  /\ Agree(PassOn(k, x), t, i, NULL_MUTEX)
         /\ Waited(PassOn(k, x), NULL_MUTEX)
         /\ i \in 1 .. Len(PassOn(k, x).mHeld[t]) + 1
<1> DEFINE r == PassOn(k, x)
<1> HIDE DEF r
<1>1. \A m \in MutexID : m # NULL_MUTEX
  BY DEF MutexID, NULL_MUTEX
<1>2. CASE AllEmpty(k.mWaiting[x])
  <2>1. /\ r.mHeld = k.mHeld
        /\ r.isLocked = [k.isLocked EXCEPT ![x] = FALSE]
        /\ r.owner = [k.owner EXCEPT ![x] = NoThread]
        /\ r.mWaiting = k.mWaiting /\ r.mutexes = k.mutexes
    BY <1>2, PassOnFrees DEF PassKeeps, r
  <2>2. /\ \A m \in MutexID : m # x => r.isLocked[m] = k.isLocked[m] /\ r.owner[m] = k.owner[m]
        /\ ~ r.isLocked[x]
    BY <2>1 DEF KernelState
  <2>3. Agree(r, t, i, NULL_MUTEX)
    BY <1>1, <2>1, <2>2 DEF Agree
  <2>4. Waited(r, NULL_MUTEX)
    BY <1>1, <1>2, <2>1, <2>2 DEF Waited
  <2> QED BY <2>1, <2>3, <2>4 DEF r
<1>3. CASE ~ AllEmpty(k.mWaiting[x])
  <2> DEFINE n == First(k.mWaiting[x])
             s == k.mHeld[n]
             b == Start(n, t, i)
  <2>1. /\ n \in App
        /\ r.mHeld = [k.mHeld EXCEPT ![n] = Append(@, x)]
        /\ r.isLocked = [k.isLocked EXCEPT ![x] = TRUE]
        /\ r.owner = [k.owner EXCEPT ![x] = n]
        /\ r.mWaiting = [k.mWaiting EXCEPT ![x] = Pop(@)] /\ r.mutexes = k.mutexes
    BY <1>3, PassOnGrants DEF PassKeeps, r
  <2> HIDE DEF n
  <2>2. n \in Thread
    BY <2>1 DEF App
  <2>3. /\ \A m \in MutexID : m # x => /\ r.isLocked[m] = k.isLocked[m]
                                      /\ r.owner[m] = k.owner[m]
                                      /\ r.mWaiting[m] = k.mWaiting[m]
        /\ r.isLocked[x] /\ r.owner[x] = n
        /\ \A u \in Thread : u # n => r.mHeld[u] = k.mHeld[u]
        /\ r.mHeld[n] = Append(s, x)
    BY <2>1, <2>2 DEF KernelState
  <2>4. s \in Seq(MutexID)
    BY <2>2 DEF KernelState
  <2>5. b \in 1 .. Len(s) + 1
    BY <2>4, LenProperties DEF Start
  <2>6. NoRepeats(s, b) /\ ~ HoldsFrom(s, b, x)
    BY <2>2 DEF Agree
  <2> HIDE DEF s, b
  <2>7. /\ \A y : HoldsFrom(Append(s, x), b, y) <=> HoldsFrom(s, b, y) \/ y = x
        /\ NoRepeats(Append(s, x), b)
    BY <2>4, <2>5, <2>6, AppendHolds
  <2>8. ASSUME NEW u \in Thread, NEW y \in MutexID
        PROVE  HoldsFrom(r.mHeld[u], Start(u, t, i), y)
                 <=> y # NULL_MUTEX /\ r.isLocked[y] /\ r.owner[y] = u
    <3>1. HoldsFrom(k.mHeld[u], Start(u, t, i), y)
            <=> y # x /\ k.isLocked[y] /\ k.owner[y] = u
      BY DEF Agree
    <3>2. CASE u = n
      <4>1. HoldsFrom(s, b, y) <=> y # x /\ k.isLocked[y] /\ k.owner[y] = n
        BY <3>1, <3>2 DEF s, b
      <4>2. HoldsFrom(r.mHeld[u], Start(u, t, i), y) <=> HoldsFrom(s, b, y) \/ y = x
        BY <2>3, <2>7, <3>2 DEF b
      <4> QED BY <1>1, <2>3, <3>2, <4>1, <4>2
    <3>3. CASE u # n
      BY <1>1, <2>3, <3>1, <3>3
    <3> QED BY <3>2, <3>3
  <2>9. ASSUME NEW u \in Thread PROVE NoRepeats(r.mHeld[u], Start(u, t, i))
    <3>1. CASE u = n
      BY <2>3, <2>7, <3>1 DEF b
    <3>2. CASE u # n
      BY <2>3, <3>2 DEF Agree
    <3> QED BY <3>1, <3>2
  <2>10. Waited(r, NULL_MUTEX)
    BY <1>1, <2>1, <2>3 DEF Waited
  <2>11. i \in 1 .. Len(r.mHeld[t]) + 1
    <3>1. CASE t = n
      <4>1. Len(r.mHeld[t]) = Len(s) + 1 /\ Len(s) \in Nat
        BY <2>3, <2>4, <3>1, AppendProperties, LenProperties
      <4> QED BY <3>1, <4>1 DEF s
    <3>2. CASE t # n
      BY <2>3, <3>2
    <3> QED BY <3>1, <3>2
  <2> QED BY <2>8, <2>9, <2>10, <2>11 DEF Agree, r
<1> QED BY <1>2, <1>3

-----------------------------------------------------------------------------
(* The rounds of the loop of VMThreadTerminate are bounded                 *)

(* The entries of one of the waiting queues of mutex m.                    *)
Cell(k, m, p) == {<<m, p, j>> : j \in 1 .. Len(k.mWaiting[m][p])}

LEMMA WaitsCells ==
  ASSUME NEW k
  PROVE  /\ Waits(k) = UNION {Cell(k, m, p) : m \in MutexID, p \in Priorities}
         /\ \A w : w \in Waits(k) <=>
              \E m \in MutexID, p \in Priorities :
                \E j \in 1 .. Len(k.mWaiting[m][p]) : w = <<m, p, j>>
<1>1. Waits(k) = UNION {Cell(k, m, p) : m \in MutexID, p \in Priorities}
  <2>1. \A m, p : Cell(k, m, p) = {<<m, p, j>> : j \in 1 .. Len(k.mWaiting[m][p])}
    BY DEF Cell
  <2> QED BY <2>1 DEF Waits
<1>2. \A w : w \in Waits(k) <=>
                \E m \in MutexID, p \in Priorities : w \in Cell(k, m, p)
  BY <1>1
<1>3. ASSUME NEW w, NEW m, NEW p
      PROVE  w \in Cell(k, m, p) <=>
               \E j \in 1 .. Len(k.mWaiting[m][p]) : w = <<m, p, j>>
  BY DEF Cell
<1> QED BY <1>1, <1>2, <1>3

LEMMA WaitsFinite ==
  ASSUME NEW k \in KernelState
  PROVE  IsFiniteSet(Waits(k)) /\ Cardinality(Waits(k)) \in Nat
<1> DEFINE F == {Cell(k, m, p) : m \in MutexID, p \in Priorities}
           g == [w \in MutexID \X Priorities |-> Cell(k, w[1], w[2])]
<1>1. IsFiniteSet(MutexID) /\ IsFiniteSet(Priorities)
  <2>1. MaxMID \in Int /\ 1 \in Int /\ 0 \in Int /\ 3 \in Int
    BY BoundsAssumption
  <2>2. IsFiniteSet(1 .. MaxMID) /\ IsFiniteSet(0 .. 3)
    BY <2>1, FS_Interval
  <2> QED BY <2>2
       DEF MutexID, Priorities, VM_THREAD_PRIORITY_NONE, VM_THREAD_PRIORITY_HIGH
<1>2. IsFiniteSet(MutexID \X Priorities)
  BY <1>1, FS_Product
<1>3. g \in Surjection(MutexID \X Priorities, F)
  <2>1. \A w \in MutexID \X Priorities : g[w] \in F
    OBVIOUS
  <2>2. ASSUME NEW T \in F PROVE \E w \in MutexID \X Priorities : g[w] = T
    <3>1. PICK m \in MutexID, p \in Priorities : T = Cell(k, m, p)
      OBVIOUS
    <3>2. <<m, p>> \in MutexID \X Priorities /\ g[<<m, p>>] = Cell(k, m, p)
      OBVIOUS
    <3> QED BY <3>1, <3>2
  <2> HIDE DEF F
  <2>3. g \in [MutexID \X Priorities -> F]
    BY <2>1
  <2> HIDE DEF g
  <2> QED BY <2>2, <2>3 DEF Surjection
<1>4. IsFiniteSet(F)
  <2> HIDE DEF g, F
  <2> QED BY <1>2, <1>3, FS_Surjection
<1>5. ASSUME NEW m \in MutexID, NEW p \in Priorities PROVE IsFiniteSet(Cell(k, m, p))
  <2> DEFINE n == Len(k.mWaiting[m][p])
             h == [j \in 1 .. n |-> <<m, p, j>>]
  <2>1. n \in Nat
    BY LenProperties DEF KernelState
  <2>2. h \in Surjection(1 .. n, Cell(k, m, p))
    <3> HIDE DEF n
    <3>1. Cell(k, m, p) = {<<m, p, j>> : j \in 1 .. n}
      BY DEF Cell, n
    <3>2. h \in [1 .. n -> Cell(k, m, p)]
      BY <3>1
    <3>3. \A T \in Cell(k, m, p) : \E j \in 1 .. n : h[j] = T
      BY <3>1
    <3> HIDE DEF h
    <3> QED BY <3>2, <3>3 DEF Surjection
  <2>3. IsFiniteSet(1 .. n)
    BY <2>1, FS_Interval
  <2> HIDE DEF n, h
  <2> QED BY <2>2, <2>3, FS_Surjection
<1>6. IsFiniteSet(UNION F)
  <2>1. \A T \in F : IsFiniteSet(T)
    BY <1>5
  <2> HIDE DEF F
  <2> QED BY <1>4, <2>1, FS_UNION
<1>7. Waits(k) = UNION F
  BY WaitsCells
<1> QED BY <1>6, <1>7, FS_CardinalityType

(* Passing a mutex on takes its next owner's entry away.                   *)
LEMMA PassOnWaits ==
  ASSUME NEW k \in KernelState, ReadySorted(k), NEW m \in MutexID
  PROVE  Cardinality(Waits(PassOn(k, m))) =
           IF AllEmpty(k.mWaiting[m])
           THEN Cardinality(Waits(k))
           ELSE Cardinality(Waits(k)) - 1
<1> DEFINE r == PassOn(k, m)
<1>1. CASE AllEmpty(k.mWaiting[m])
  <2>1. r.mWaiting = k.mWaiting
    BY <1>1, PassOnFrees
  <2>2. Waits(r) = Waits(k)
    BY <2>1 DEF Waits
  <2> QED BY <1>1, <2>2
<1>2. CASE ~ AllEmpty(k.mWaiting[m])
  <2> DEFINE qs == k.mWaiting[m]
             b  == Top(qs)
             n  == Len(qs[b])
  <2>1. qs \in Queues(App)
    BY DEF KernelState, Queues
  <2>2. b \in Priorities /\ qs[b] # <<>>
    BY <1>2, <2>1, TopType
  <2>3. qs[b] \in Seq(App)
    BY <2>1, <2>2 DEF Queues
  <2>4. n \in Nat \ {0}
    BY <2>2, <2>3, LenProperties, EmptySeq
  <2>5. /\ Len(Pop(qs)[b]) = n - 1
        /\ \A p \in Priorities : p # b => Pop(qs)[p] = qs[p]
    <3> HIDE DEF qs
    <3> QED BY <1>2, <2>1, <2>3, PopType DEF qs
  <2>6. r.mWaiting = [k.mWaiting EXCEPT ![m] = Pop(qs)]
    BY <1>2, PassOnGrants
  <2> HIDE DEF r, qs, b
  <2>7. /\ r.mWaiting[m] = Pop(qs)
        /\ \A l \in MutexID : l # m => r.mWaiting[l] = k.mWaiting[l]
    BY <2>6 DEF KernelState
  <2>8. \A l \in MutexID, p \in Priorities :
          Len(r.mWaiting[l][p]) = IF l = m /\ p = b THEN n - 1 ELSE Len(k.mWaiting[l][p])
    BY <2>5, <2>7 DEF qs
  <2>9. \A j : j \in 1 .. n - 1 <=> j \in 1 .. n /\ j # n
    BY <2>4
  <2>10. Waits(r) = Waits(k) \ {<<m, b, n>>}
    <3>1. ASSUME NEW w PROVE w \in Waits(r) => w \in Waits(k) /\ w # <<m, b, n>>
      <4> SUFFICES ASSUME w \in Waits(r) PROVE w \in Waits(k) /\ w # <<m, b, n>>
        OBVIOUS
      <4>1. PICK l \in MutexID, p \in Priorities :
              \E j \in 1 .. Len(r.mWaiting[l][p]) : w = <<l, p, j>>
        BY WaitsCells
      <4>2. PICK j \in 1 .. Len(r.mWaiting[l][p]) : w = <<l, p, j>>
        BY <4>1
      <4>3. j \in 1 .. Len(k.mWaiting[l][p]) /\ ~ (l = m /\ p = b /\ j = n)
        BY <2>8, <2>9 DEF qs
      <4> QED BY <4>2, <4>3, WaitsCells
    <3>2. ASSUME NEW w PROVE w \in Waits(k) /\ w # <<m, b, n>> => w \in Waits(r)
      <4> SUFFICES ASSUME w \in Waits(k), w # <<m, b, n>> PROVE w \in Waits(r)
        OBVIOUS
      <4>1. PICK l \in MutexID, p \in Priorities :
              \E j \in 1 .. Len(k.mWaiting[l][p]) : w = <<l, p, j>>
        BY WaitsCells
      <4>2. PICK j \in 1 .. Len(k.mWaiting[l][p]) : w = <<l, p, j>>
        BY <4>1
      <4>3. j \in 1 .. Len(r.mWaiting[l][p])
        BY <2>8, <2>9, <4>2 DEF qs
      <4> QED BY <4>2, <4>3, WaitsCells
    <3> QED BY <3>1, <3>2
  <2>11. <<m, b, n>> \in Waits(k)
    <3>1. n \in 1 .. Len(k.mWaiting[m][b])
      BY <2>4 DEF qs
    <3> QED BY <2>2, <3>1, WaitsCells
  <2>12. Cardinality(Waits(r)) = Cardinality(Waits(k)) - 1
    <3> DEFINE W == Waits(k)
               e == <<m, b, n>>
    <3>1. IsFiniteSet(W) /\ Cardinality(W) \in Nat
      BY WaitsFinite
    <3>2. e \in W /\ Waits(r) = W \ {e}
      BY <2>10, <2>11
    <3> HIDE DEF W, e
    <3>3. Cardinality(W \ {e}) = IF e \in W THEN Cardinality(W) - 1 ELSE Cardinality(W)
      BY <3>1, FS_RemoveElement
    <3> QED BY <3>2, <3>3 DEF W
  <2> QED BY <1>2, <2>12 DEF r
<1> QED BY <1>1, <1>2

-----------------------------------------------------------------------------
(* The loop of VMThreadTerminate over the mutexes of thread t, begun in k  *)

Releasing(k, t) ==
  {x \in [k : KernelState, i : Nat, preempt : BOOLEAN] :
     /\ PassKeeps(k, x.k)
     /\ x.i \in 1 .. Len(x.k.mHeld[t]) + 1
     /\ Agree(x.k, t, x.i, NULL_MUTEX)
     /\ Waited(x.k, NULL_MUTEX)
     /\ ~ x.preempt => \A p \in Priorities :
                         p > Priority[k.current] => x.k.ready[p] = k.ready[p]}

RoundsLeft(k, t) == Len(k.mHeld[t]) + Cardinality(Waits(k))

(* After n rounds the loop is over or has at most the other rounds to go.  *)
Bounded(k, t, n) ==
  {x \in Releasing(k, t) :
     x.i <= Len(x.k.mHeld[t]) => n + RoundsLeft(x.k, t) - x.i + 1 <= RoundsLeft(k, t)}

LEMMA LastType ==
  ASSUME NEW k \in KernelState, NEW t \in Thread
  PROVE  RoundsLeft(k, t) \in Nat /\ Len(k.mHeld[t]) \in Nat /\ Len(k.mHeld[t]) <= RoundsLeft(k, t)
<1>1. Len(k.mHeld[t]) \in Nat
  BY LenProperties DEF KernelState
<1> QED BY <1>1, WaitsFinite DEF RoundsLeft

LEMMA PassOnLast ==
  ASSUME NEW k \in KernelState, ReadySorted(k), NEW m \in MutexID, NEW t \in Thread
  PROVE  RoundsLeft(PassOn(k, m), t) <= RoundsLeft(k, t)
<1>1. PassOn(k, m) \in KernelState
  BY PassOnFrees, PassOnGrants DEF PassKeeps
<1>2. Cardinality(Waits(k)) \in Nat /\ Cardinality(Waits(PassOn(k, m))) \in Nat
  BY <1>1, WaitsFinite
<1>3. k.mHeld[t] \in Seq(MutexID) /\ Len(k.mHeld[t]) \in Nat
  BY LenProperties DEF KernelState
<1>4. CASE AllEmpty(k.mWaiting[m])
  <2>1. PassOn(k, m).mHeld = k.mHeld
    BY <1>4, PassOnFrees
  <2>2. Cardinality(Waits(PassOn(k, m))) = Cardinality(Waits(k))
    BY <1>4, PassOnWaits
  <2> QED BY <1>2, <1>3, <2>1, <2>2 DEF RoundsLeft
<1>5. CASE ~ AllEmpty(k.mWaiting[m])
  <2> DEFINE n == First(k.mWaiting[m])
  <2>1. n \in Thread /\ PassOn(k, m).mHeld = [k.mHeld EXCEPT ![n] = Append(@, m)]
    BY <1>5, PassOnGrants DEF App
  <2> HIDE DEF n
  <2>2. Len(Append(k.mHeld[t], m)) = Len(k.mHeld[t]) + 1
    BY <1>3, AppendProperties
  <2>3. Len(PassOn(k, m).mHeld[t]) \in {Len(k.mHeld[t]), Len(k.mHeld[t]) + 1}
    BY <2>1, <2>2 DEF KernelState
  <2>4. Cardinality(Waits(PassOn(k, m))) = Cardinality(Waits(k)) - 1
    BY <1>5, PassOnWaits
  <2> QED BY <1>2, <1>3, <2>3, <2>4 DEF RoundsLeft
<1> QED BY <1>4, <1>5

LEMMA ReleaseNextType ==
  ASSUME NEW k \in KernelState, NEW t \in Thread, NEW x \in Releasing(k, t)
  PROVE  /\ ReleaseNext(x, t) \in Releasing(k, t)
         /\ \A n \in Nat : x \in Bounded(k, t, n) => ReleaseNext(x, t) \in Bounded(k, t, n + 1)
<1>1. /\ x.k \in KernelState /\ x.i \in Nat /\ x.preempt \in BOOLEAN
      /\ PassKeeps(k, x.k)
      /\ x.i \in 1 .. Len(x.k.mHeld[t]) + 1
      /\ Agree(x.k, t, x.i, NULL_MUTEX)
      /\ Waited(x.k, NULL_MUTEX)
      /\ ~ x.preempt => \A p \in Priorities :
                          p > Priority[k.current] => x.k.ready[p] = k.ready[p]
  BY DEF Releasing
<1>2. Len(x.k.mHeld[t]) \in Nat /\ RoundsLeft(x.k, t) \in Nat
  BY <1>1, LastType
<1>3. CASE x.i > Len(x.k.mHeld[t])
  <2>1. ReleaseNext(x, t) = x
    BY <1>3 DEF ReleaseNext
  <2>2. \A n \in Nat : x \in Bounded(k, t, n + 1)
    BY <1>1, <1>2, <1>3 DEF Bounded
  <2> QED BY <2>1, <2>2
<1>4. CASE ~ x.i > Len(x.k.mHeld[t])
  <2> DEFINE m == x.k.mHeld[t][x.i]
             n == NextOwner(Unlock(x.k, m), m)
             r == PassOn(x.k, m)
             e == \/ x.preempt
                  \/ n # NoThread /\ Priority[n] > Priority[x.k.current]
             y == [k |-> r, i |-> x.i + 1, preempt |-> e]
  <2>1. x.i \in 1 .. Len(x.k.mHeld[t])
    BY <1>1, <1>2, <1>4
  <2>2. /\ m \in MutexID /\ m \in x.k.mutexes
        /\ Agree(x.k, t, x.i + 1, m) /\ Waited(x.k, m)
    BY <1>1, <2>1, AgreeNext
  <2>3. ReleaseNext(x, t) = y
    BY <1>4, <2>2 DEF ReleaseNext
  <2> HIDE DEF m
  <2>4. ReadySorted(x.k) /\ x.k.current = k.current
    BY <1>1 DEF PassKeeps
  <2>5. x.i + 1 \in 1 .. Len(x.k.mHeld[t]) + 1
    BY <1>2, <2>1
  <2>6. /\ Agree(r, t, x.i + 1, NULL_MUTEX) /\ Waited(r, NULL_MUTEX)
        /\ x.i + 1 \in 1 .. Len(r.mHeld[t]) + 1
    BY <1>1, <2>2, <2>4, <2>5, PassOnAgrees
  <2>7. PassKeeps(x.k, r)
    BY <1>1, <2>2, <2>4, PassOnFrees, PassOnGrants
  <2>8. ~ e => \A p \in Priorities : p > Priority[k.current] => r.ready[p] = x.k.ready[p]
    <3>1. CASE AllEmpty(x.k.mWaiting[m])
      BY <1>1, <2>2, <2>4, <3>1, PassOnFrees
    <3>2. CASE ~ AllEmpty(x.k.mWaiting[m])
      <4>1. /\ n # NoThread /\ n \in Thread
            /\ \A p \in Priorities : p # Priority[n] => r.ready[p] = x.k.ready[p]
        <5> DEFINE f == First(x.k.mWaiting[m])
        <5>1. /\ f \in App /\ n = f /\ f # NoThread
              /\ \A p \in Priorities : p # Priority[f] => r.ready[p] = x.k.ready[p]
          BY <1>1, <2>2, <2>4, <3>2, PassOnGrants
        <5> HIDE DEF f, n, r
        <5> QED BY <5>1 DEF App
      <4>2. ~ e => ~ x.preempt /\ ~ Priority[n] > Priority[k.current]
        BY <2>4, <4>1
      <4> HIDE DEF n, r, e
      <4>3. ~ e => \A p \in Priorities : p > Priority[k.current] => p # Priority[n]
        BY <4>2
      <4> QED BY <4>1, <4>3
    <3> QED BY <3>1, <3>2
  <2>9. PassKeeps(k, r)
    BY <1>1, <2>7 DEF PassKeeps, Harmless, NoNewNull
  <2>10. e \in BOOLEAN /\ (x.preempt => e)
    BY <1>1
  <2>11. r \in KernelState
    BY <2>7 DEF PassKeeps
  <2>12. RoundsLeft(r, t) <= RoundsLeft(x.k, t) /\ RoundsLeft(r, t) \in Nat /\ Len(r.mHeld[t]) \in Nat
    BY <1>1, <2>2, <2>4, <2>11, PassOnLast, LastType
  <2> HIDE DEF r, e
  <2>13. y \in Releasing(k, t)
    BY <1>1, <2>6, <2>8, <2>9, <2>10, <2>11 DEF Releasing
  <2>14. ASSUME NEW j \in Nat, x \in Bounded(k, t, j)
         PROVE  y \in Bounded(k, t, j + 1)
    <3>1. j + RoundsLeft(x.k, t) - x.i + 1 <= RoundsLeft(k, t)
      BY <1>2, <2>1, <2>14 DEF Bounded
    <3>2. (j + 1) + RoundsLeft(r, t) - (x.i + 1) + 1 <= RoundsLeft(k, t)
      BY <1>1, <1>2, <2>12, <3>1, LastType, SMTT(30)
    <3> QED BY <2>13, <3>2 DEF Bounded
  <2> QED BY <2>3, <2>13, <2>14
<1> QED BY <1>3, <1>4

(***************************************************************************)
(* What holds of the loop's start, S[0], and is carried from each round to *)
(* the next, S[n], holds of its end; the list of t is then emptied.        *)
(***************************************************************************)
LEMMA ReleaseAllLoop ==
  ASSUME NEW k \in KernelState, NEW t \in Thread, NEW S,
         [k |-> k, i |-> 1, preempt |-> FALSE] \in S[0],
         [k |-> k, i |-> 1, preempt |-> FALSE] \in Releasing(k, t),
         \A n \in 1 .. RoundsLeft(k, t) : \A x \in Releasing(k, t) :
           x \in S[n - 1] => ReleaseNext(x, t) \in S[n]
  PROVE  \E x \in Releasing(k, t) :
           /\ x \in S[RoundsLeft(k, t)]
           /\ ReleaseAll(k, t) = [x EXCEPT !.k.mHeld[t] = <<>>]
<1> DEFINE last  == Len(k.mHeld[t]) + Cardinality(Waits(k))
           R     == Releasing(k, t)
           first == [k |-> k, i |-> 1, preempt |-> FALSE]
           step  == [n \in 1 .. last |-> [x \in R |-> ReleaseNext(x, t)]]
           T     == [n \in 0 .. last |-> {x \in R : x \in S[n]}]
           Is(f) == f = [n \in 0 .. last |->
                           IF n = 0 THEN first ELSE ReleaseNext(f[n - 1], t)]
           loop  == CHOOSE f : Is(f)
<1>1. last \in Nat /\ last = RoundsLeft(k, t)
  BY LastType DEF RoundsLeft
<1>2. first \in R /\ first \in S[0]
  OBVIOUS
<1>3. /\ \A n \in 1 .. last, x \in R : step[n][x] = ReleaseNext(x, t)
      /\ step \in [1 .. last -> [R -> R]]
  BY ReleaseNextType
<1>4. \A x \in R : ReleaseNext(x, t) \in R
  BY ReleaseNextType
<1>5. ReleaseAll(k, t) = [loop[last] EXCEPT !.k.mHeld[t] = <<>>]
  BY DEF ReleaseAll
<1> HIDE DEF last, first, step, R
<1>6. PICK f \in [0 .. last -> R] : IsLoop(f, first, step, last)
  BY <1>1, <1>2, <1>3, IterationExists
<1>7. Is(f)
  <2>1. \A n \in 0 .. last : n # 0 => n \in 1 .. last /\ n - 1 \in 0 .. last
    BY <1>1
  <2>2. \A n \in 0 .. last : f[n] = IF n = 0 THEN first ELSE ReleaseNext(f[n - 1], t)
    BY <1>3, <1>6, <2>1 DEF IsLoop
  <2> QED BY <1>6, <2>2
<1>8. Is(loop)
  BY <1>7
<1> HIDE DEF loop
<1>9. loop[last] \in R /\ loop[last] \in S[last]
  <2>1. loop[0] \in T[0]
    BY <1>1, <1>2, <1>8
  <2>2. \A n \in 1 .. last : loop[n - 1] \in T[n - 1] => loop[n] \in T[n]
    <3>1. \A n \in 1 .. last : n \in 0 .. last /\ n - 1 \in 0 .. last
      BY <1>1
    <3>2. \A n \in 1 .. last : loop[n] = ReleaseNext(loop[n - 1], t)
      BY <1>1, <1>8
    <3> QED BY <1>1, <1>4, <3>1, <3>2 DEF R
  <2>3. \A n \in 0 .. last : loop[n] \in T[n]
    <3> HIDE DEF T
    <3> QED BY <1>1, <2>1, <2>2, IterationStays
  <2> QED BY <1>1, <2>3
<1> QED BY <1>1, <1>5, <1>9 DEF R

LEMMA FirstRelease ==
  ASSUME NEW k \in KernelState, ReadySorted(k), NEW t \in Thread, LocksOK(k)
  PROVE  [k |-> k, i |-> 1, preempt |-> FALSE] \in Bounded(k, t, 0)
<1> DEFINE first == [k |-> k, i |-> 1, preempt |-> FALSE]
<1>1. PassKeeps(k, k)
  BY DEF PassKeeps, Harmless, NoNewNull
<1>2. Agree(k, t, 1, NULL_MUTEX) /\ Waited(k, NULL_MUTEX)
  BY AgreeFromStart DEF LocksOK
<1>3. first \in Releasing(k, t)
  BY <1>1, <1>2, LastType DEF Releasing
<1> QED BY <1>3, LastType DEF Bounded

LEMMA ReleaseAllType ==
  ASSUME NEW k \in KernelState, ReadySorted(k), NEW t \in Thread, LocksOK(k)
  PROVE  LET rel == ReleaseAll(k, t)
         IN  /\ PassKeeps(k, rel.k)
             /\ LocksOK(rel.k)
             /\ ~ rel.preempt => \A p \in Priorities :
                  p > Priority[k.current] => rel.k.ready[p] = k.ready[p]
<1> DEFINE last == RoundsLeft(k, t)
           S    == [n \in 0 .. last |-> Bounded(k, t, n)]
<1>1. last \in Nat
  BY LastType
<1>2. /\ [k |-> k, i |-> 1, preempt |-> FALSE] \in S[0]
      /\ [k |-> k, i |-> 1, preempt |-> FALSE] \in Releasing(k, t)
  BY <1>1, FirstRelease DEF Bounded
<1>3. ASSUME NEW n \in 1 .. last, NEW y \in Releasing(k, t), y \in S[n - 1]
      PROVE  ReleaseNext(y, t) \in S[n]
  <2>1. n \in 0 .. last /\ n - 1 \in 0 .. last /\ n - 1 \in Nat /\ (n - 1) + 1 = n
    BY <1>1
  <2>2. y \in Bounded(k, t, n - 1)
    BY <1>3, <2>1
  <2>3. ReleaseNext(y, t) \in Bounded(k, t, (n - 1) + 1)
    BY <2>1, <2>2, ReleaseNextType
  <2> QED BY <2>1, <2>3
<1>4. S[last] = Bounded(k, t, last)
  BY <1>1
<1>5. PICK x \in Releasing(k, t) :
        x \in S[last] /\ ReleaseAll(k, t) = [x EXCEPT !.k.mHeld[t] = <<>>]
  <2> HIDE DEF S
  <2> QED BY <1>2, <1>3, ReleaseAllLoop
<1> DEFINE s == x.k.mHeld[t]
           h == [x.k.mHeld EXCEPT ![t] = <<>>]
           r == [x.k EXCEPT !.mHeld = h]
<1>10. /\ x \in Releasing(k, t)
       /\ x.i <= Len(s) => last + RoundsLeft(x.k, t) - x.i + 1 <= RoundsLeft(k, t)
  BY <1>4, <1>5 DEF Bounded
<1>11. /\ x = [k |-> x.k, i |-> x.i, preempt |-> x.preempt]
       /\ x.k \in KernelState
       /\ PassKeeps(k, x.k)
       /\ x.i \in 1 .. Len(s) + 1
       /\ Agree(x.k, t, x.i, NULL_MUTEX)
       /\ Waited(x.k, NULL_MUTEX)
       /\ ~ x.preempt => \A p \in Priorities :
                           p > Priority[k.current] => x.k.ready[p] = k.ready[p]
  BY <1>10 DEF Releasing
<1>12. x.i = Len(s) + 1
  <2>1. RoundsLeft(x.k, t) \in Nat /\ Len(s) \in Nat /\ Len(s) <= RoundsLeft(x.k, t)
    BY <1>11, LastType
  <2> QED BY <1>1, <1>10, <1>11, <2>1
<1>13. ReleaseAll(k, t) = [k |-> r, i |-> x.i, preempt |-> x.preempt]
  BY <1>5, <1>11
<1>14. h \in [Thread -> Seq(MutexID)] /\ h[t] = <<>> /\ \A u \in Thread : u # t => h[u] = x.k.mHeld[u]
  BY <1>11, EmptySeq DEF KernelState
<1>15. /\ r \in KernelState /\ r.mHeld = h
       /\ r.isLocked = x.k.isLocked /\ r.owner = x.k.owner /\ r.mWaiting = x.k.mWaiting
       /\ r.mutexes = x.k.mutexes /\ r.ready = x.k.ready /\ r.current = x.k.current
       /\ r.fault = x.k.fault /\ r.state = x.k.state /\ r.memQueue = x.k.memQueue
  <2> HIDE DEF h
  <2> QED BY <1>11, <1>14 DEF KernelState
<1> HIDE DEF r, h
<1>16. PassKeeps(k, r)
  BY <1>11, <1>15 DEF PassKeeps, Harmless, NoNewNull, ReadySorted
<1>17. Agree(r, t, 1, NULL_MUTEX)
  <2>1. \A y : ~ HoldsFrom(s, Len(s) + 1, y) /\ ~ HoldsFrom(<<>>, 1, y)
    <3>1. Len(s) \in Nat /\ Len(<<>>) = 0
      BY <1>11, LastType
    <3>2. \A j : j \notin Len(s) + 1 .. Len(s) /\ j \notin 1 .. 0
      BY <3>1
    <3> HIDE DEF s
    <3> QED BY <3>1, <3>2 DEF HoldsFrom
  <2>2. NoRepeats(<<>>, 1)
    BY DEF NoRepeats
  <2>3. \A u \in Thread, m \in MutexID :
          HoldsFrom(h[u], 1, m) <=> HoldsFrom(x.k.mHeld[u], Start(u, t, x.i), m)
    BY <1>12, <1>14, <2>1 DEF Start
  <2>4. \A u \in Thread : NoRepeats(h[u], 1)
    BY <1>11, <1>14, <2>2 DEF Agree, Start
  <2>5. \A u : Start(u, t, 1) = 1
    BY DEF Start
  <2> QED BY <1>11, <1>15, <2>3, <2>4, <2>5 DEF Agree
<1>18. LocksOK(r)
  BY <1>11, <1>15, <1>17, AgreeFromStart DEF LocksOK, Waited
<1> QED BY <1>11, <1>13, <1>15, <1>16, <1>18

-----------------------------------------------------------------------------
(* Leaving the queues                                                      *)

(* What leaving queues keeps of the snapshot k: it fills no queue.         *)
LeaveKeeps(k, r) ==
  /\ r \in KernelState
  /\ ReadySorted(r)
  /\ r.ready[VM_THREAD_PRIORITY_NONE] = k.ready[VM_THREAD_PRIORITY_NONE]
  /\ \A p \in Priorities : k.ready[p] = <<>> => r.ready[p] = <<>>
  /\ r.current = k.current
  /\ r.mHeld = k.mHeld /\ r.isLocked = k.isLocked /\ r.owner = k.owner
  /\ r.mutexes = k.mutexes
  /\ \A m \in MutexID : AllEmpty(k.mWaiting[m]) => AllEmpty(r.mWaiting[m])
  /\ NoNewNull(k, r)

LEMMA LeaveKeepsSame ==
  ASSUME NEW k \in KernelState, ReadySorted(k), NEW r, SameReady(k, r)
  PROVE  LeaveKeeps(k, r)
BY DEF LeaveKeeps, SameReady, SameLocks, Harmless, ReadySorted

LEMMA LeaveKeepsTransitive ==
  ASSUME NEW k, NEW r, NEW s, LeaveKeeps(k, r), LeaveKeeps(r, s)
  PROVE  LeaveKeeps(k, s)
BY DEF LeaveKeeps, Harmless, NoNewNull

LEMMA LeaveKeepsLocks ==
  ASSUME NEW k, NEW r, LocksOK(k), LeaveKeeps(k, r)
  PROVE  LocksOK(r)
BY DEF LocksOK, LeaveKeeps, Agree, Waited

LEMMA LeaveReady ==
  ASSUME NEW k \in KernelState, ReadySorted(k), NEW t \in App
  PROVE  LeaveKeeps(k, RemoveFromReady(k, t))
<1> DEFINE r == RemoveFromReady(k, t)
<1>1. t \in Thread
  BY DEF App
<1>2. /\ r \in KernelState /\ r.ready = Without(k.ready, t) /\ r.current = k.current
      /\ SameLocks(k, r) /\ NoNewNull(k, r)
  BY <1>1, RemoveFromReadyType DEF Harmless
<1>3. /\ Priorities = 0 .. 3 /\ VM_THREAD_PRIORITY_NONE \in 0 .. 3
      /\ k.ready \in [0 .. 3 -> Seq(Thread)]
  BY DEF KernelState, Priorities, VM_THREAD_PRIORITY_NONE, VM_THREAD_PRIORITY_HIGH
<1>4. \A p \in Priorities : r.ready[p] \in Seq(AtPriority(p))
  BY <1>2, <1>3, WithoutKeeps DEF ReadySorted
<1>5. ~ Holds(k.ready[VM_THREAD_PRIORITY_NONE], t)
  <2>1. k.ready[VM_THREAD_PRIORITY_NONE] \in Seq(AtPriority(VM_THREAD_PRIORITY_NONE))
    BY <1>3 DEF ReadySorted
  <2>2. t \notin AtPriority(VM_THREAD_PRIORITY_NONE)
    BY PriorityAssumption DEF AtPriority
  <2>3. \A j \in 1 .. Len(k.ready[VM_THREAD_PRIORITY_NONE]) :
          k.ready[VM_THREAD_PRIORITY_NONE][j] \in AtPriority(VM_THREAD_PRIORITY_NONE)
    BY <2>1, ElementOfSeq
  <2> QED BY <2>2, <2>3 DEF Holds
<1>6. /\ r.ready[VM_THREAD_PRIORITY_NONE] = k.ready[VM_THREAD_PRIORITY_NONE]
      /\ \A p \in Priorities : k.ready[p] = <<>> => r.ready[p] = <<>>
  <2>1. /\ \A j \in 0 .. 3 : ~ Holds(k.ready[j], t) => Without(k.ready, t)[j] = k.ready[j]
        /\ \A j \in 0 .. 3 : k.ready[j] = <<>> => Without(k.ready, t)[j] = <<>>
    BY <1>3, WithoutType
  <2> QED BY <1>2, <1>3, <1>5, <2>1
<1> QED BY <1>2, <1>4, <1>6 DEF LeaveKeeps, SameLocks, ReadySorted

LEMMA StopWaitingType ==
  ASSUME NEW k \in KernelState, ReadySorted(k), NEW m \in MutexID, NEW t \in Thread
  PROVE  LeaveKeeps(k, StopWaiting(k, m, t))
<1> DEFINE qs == k.mWaiting[m]
           q  == [k.mWaiting EXCEPT ![m] = Without(qs, t)]
           w  == [k.mWants EXCEPT ![t] = NULL_MUTEX]
           r  == [k EXCEPT !.mWants = w, !.mWaiting = q]
<1>1. Priorities = 0 .. 3
  BY DEF Priorities, VM_THREAD_PRIORITY_NONE, VM_THREAD_PRIORITY_HIGH
<1>2. qs \in [0 .. 3 -> Seq(App)]
  BY <1>1 DEF KernelState
<1>3. /\ Without(qs, t) \in [0 .. 3 -> Seq(App)]
      /\ \A j \in 0 .. 3 : qs[j] = <<>> => Without(qs, t)[j] = <<>>
  <2> HIDE DEF qs
  <2> QED BY <1>2, WithoutType
<1>4. AllEmpty(qs) => AllEmpty(Without(qs, t))
  BY <1>2, <1>3 DEF AllEmpty
<1>5. q \in [MutexID -> [Priorities -> Seq(App)]]
  BY <1>1, <1>3 DEF KernelState
<1>6. w \in [Thread -> MutexID \union {NULL_MUTEX}]
  BY DEF KernelState
<1>7. \A l \in MutexID : AllEmpty(k.mWaiting[l]) => AllEmpty(q[l])
  BY <1>4 DEF KernelState
<1>8. StopWaiting(k, m, t) \in {k, r}
  BY DEF StopWaiting, KernelState
<1> HIDE DEF q, w
<1>9. LeaveKeeps(k, r)
  BY <1>5, <1>6, <1>7 DEF KernelState, LeaveKeeps, ReadySorted, Harmless, NoNewNull
<1>10. LeaveKeeps(k, k)
  BY DEF LeaveKeeps, Harmless, NoNewNull
<1> QED BY <1>8, <1>9, <1>10

LEMMA RemoveFromMemoryQueueType ==
  ASSUME NEW k \in KernelState, ReadySorted(k), NEW t \in Thread
  PROVE  LeaveKeeps(k, RemoveFromMemoryQueue(k, t))
<1> DEFINE q == [p \in Priorities |-> EraseEach(k.memQueue[p], t)]
<1>1. q \in [Priorities -> Seq(App)]
  BY EraseEachType DEF KernelState
<1>2. RemoveFromMemoryQueue(k, t) = [k EXCEPT !.memQueue = q]
  BY DEF RemoveFromMemoryQueue
<1> HIDE DEF q
<1> QED BY <1>1, <1>2 DEF KernelState, LeaveKeeps, ReadySorted, Harmless, NoNewNull

LEMMA LeaveQueuesType ==
  ASSUME NEW k \in KernelState, ReadySorted(k), NEW t \in App, NEW was
  PROVE  LeaveKeeps(k, LeaveQueues(k, t, was))
<1>1. t \in Thread
  BY DEF App
<1>2. LeaveKeeps(k, k)
  BY DEF LeaveKeeps, Harmless, NoNewNull
<1>3. CASE was = "READY"
  BY <1>3, LeaveReady DEF LeaveQueues
<1>4. CASE was = "WAITING"
  <2> DEFINE w  == k.mWants[t]
             k1 == CASE k.waitingFor[t] = WAITING_MUTEX /\ w \in k.mutexes ->
                          StopWaiting(k, w, t)
                     [] k.waitingFor[t] = WAITING_MEMORY ->
                          RemoveFromMemoryQueue(k, t)
                     [] OTHER -> k
  <2>1. LeaveQueues(k, t, was) = RemoveFromWaiting(k1, t)
    BY <1>4 DEF LeaveQueues
  <2>2. k.mutexes \subseteq MutexID
    BY DEF KernelState
  <2>3. \/ k1 = StopWaiting(k, w, t) /\ w \in k.mutexes
        \/ k1 = RemoveFromMemoryQueue(k, t)
        \/ k1 = k
    BY DEF WAITING_MUTEX, WAITING_MEMORY
  <2> HIDE DEF k1
  <2>4. LeaveKeeps(k, k1)
    BY <1>1, <1>2, <2>2, <2>3, StopWaitingType, RemoveFromMemoryQueueType
  <2>5. LeaveKeeps(k1, RemoveFromWaiting(k1, t))
    BY <1>1, <2>4, RemoveFromWaitingType, LeaveKeepsSame DEF LeaveKeeps
  <2> QED BY <2>1, <2>4, <2>5, LeaveKeepsTransitive
<1>5. CASE was \notin {"READY", "WAITING"}
  BY <1>2, <1>5 DEF LeaveQueues
<1> QED BY <1>3, <1>4, <1>5

(* Only a thread that waits for memory leaves the queue for memory.        *)
LEMMA LeaveQueuesMemory ==
  ASSUME NEW k \in KernelState, ReadySorted(k), NEW t \in App, NEW was,
         k.waitingFor[t] # WAITING_MEMORY
  PROVE  LeaveQueues(k, t, was).memQueue = k.memQueue
<1>1. t \in Thread /\ k.mutexes \subseteq MutexID
  BY DEF App, KernelState
<1>2. CASE was = "READY"
  BY <1>1, <1>2, RemoveFromReadyType DEF LeaveQueues, Harmless
<1>3. CASE was = "WAITING"
  <2> DEFINE w  == k.mWants[t]
             k1 == CASE k.waitingFor[t] = WAITING_MUTEX /\ w \in k.mutexes ->
                          StopWaiting(k, w, t)
                     [] k.waitingFor[t] = WAITING_MEMORY ->
                          RemoveFromMemoryQueue(k, t)
                     [] OTHER -> k
  <2>1. LeaveQueues(k, t, was) = RemoveFromWaiting(k1, t)
    BY <1>3 DEF LeaveQueues
  <2>2. (w \in k.mutexes /\ k1 = StopWaiting(k, w, t)) \/ k1 = k
    OBVIOUS
  <2> HIDE DEF k1
  <2>3. k1 \in KernelState
    BY <1>1, <2>2, StopWaitingType DEF LeaveKeeps
  <2>4. k1.memQueue = k.memQueue
    BY <2>2 DEF StopWaiting, KernelState
  <2> QED BY <1>1, <2>1, <2>3, <2>4, RemoveFromWaitingType DEF SameReady, Harmless
<1>4. CASE was \notin {"READY", "WAITING"}
  BY <1>4 DEF LeaveQueues
<1> QED BY <1>2, <1>3, <1>4

-----------------------------------------------------------------------------
(* VMThreadTerminate                                                       *)

LEMMA LocksOKSame ==
  ASSUME NEW k, NEW r, LocksOK(k), SameLocks(k, r)
  PROVE  LocksOK(r)
BY DEF LocksOK, SameLocks, Agree, Waited

(* What a good handler leaves: no ready thread is above the current one,   *)
(* or one was already and the current thread goes on.                      *)
KeepsOrder(k, r) ==
  HighestFirst(r) \/ (r.current = k.current /\ ~ HighestFirst(k))

LEMMA KeepsOrderSame ==
  ASSUME NEW k, NEW r, r.current = k.current, HighestFirst(k) => HighestFirst(r)
  PROVE  KeepsOrder(k, r)
BY DEF KeepsOrder

LEMMA KeepsOrderTransitive ==
  ASSUME NEW k, NEW r, NEW s, KeepsOrder(k, r), KeepsOrder(r, s)
  PROVE  KeepsOrder(k, s)
BY DEF KeepsOrder

(* The whole of it, called by a thread that is not the idle thread.        *)
LEMMA TerminateType ==
  ASSUME NEW k \in KernelState, ReadySorted(k), IdleReady(k), LocksOK(k),
         k.current # Idle, NEW t \in App
  PROVE  /\ Terminate(k, t) \in KernelState
         /\ ReadySorted(Terminate(k, t))
         /\ IdleReady(Terminate(k, t))
         /\ LocksOK(Terminate(k, t))
         /\ NoNewNull(k, Terminate(k, t))
         /\ KeepsOrder(k, Terminate(k, t))
<1> DEFINE was  == k.state[t]
           k0   == [k EXCEPT !.state[t] = "DEAD"]
           rel  == ReleaseAll(k0, t)
           left == LeaveQueues(rel.k, t, was)
<1>1. t \in Thread /\ t # Idle /\ k \in KernelState
  BY DEF App
<1>2. /\ k0 \in KernelState /\ SameLocks(k, k0) /\ NoNewNull(k, k0)
      /\ k0.ready = k.ready /\ k0.current = k.current
  BY <1>1, SystemThreads DEF KernelState, ThreadStates, SameLocks, Harmless, NoNewNull
<1> HIDE DEF k0
<1>3. ReadySorted(k0) /\ LocksOK(k0)
  BY <1>2, LocksOKSame DEF ReadySorted
<1>4. /\ PassKeeps(k0, rel.k)
      /\ LocksOK(rel.k)
      /\ ~ rel.preempt => \A p \in Priorities :
           p > Priority[k0.current] => rel.k.ready[p] = k0.ready[p]
  BY <1>1, <1>2, <1>3, ReleaseAllType
<1> HIDE DEF rel
<1>5. LeaveKeeps(rel.k, left)
  BY <1>4, LeaveQueuesType DEF PassKeeps
<1> HIDE DEF left
<1>6. LocksOK(left)
  BY <1>4, <1>5, LeaveKeepsLocks
<1>7. /\ left \in KernelState /\ ReadySorted(left) /\ left.current = k.current
      /\ NoNewNull(k, left)
  BY <1>2, <1>4, <1>5 DEF PassKeeps, LeaveKeeps, Harmless, NoNewNull
<1>8. IdleCount(left) = 2 /\ IdleReady(left)
  BY <1>2, <1>4, <1>5 DEF PassKeeps, LeaveKeeps, IdleReady, IdleCount
<1>9. Terminate(k, t) = CASE was = "RUNNING" -> ScheduleNext(left)
                          [] was # "RUNNING" /\ rel.preempt -> Yield(left)
                          [] OTHER -> left
  BY DEF Terminate, left, rel, k0
<1> HIDE DEF was
<1>10. CASE was = "RUNNING"
  <2>1. Terminate(k, t) = ScheduleNext(left)
    BY <1>9, <1>10
  <2> QED BY <1>6, <1>7, <1>8, <2>1, ScheduleNextType, LocksOKSame
             DEF Harmless, NoNewNull, Scheduled, KeepsOrder
<1>11. CASE was # "RUNNING" /\ rel.preempt
  <2>1. Terminate(k, t) = Yield(left)
    BY <1>9, <1>11
  <2> QED BY <1>6, <1>7, <1>8, <2>1, YieldType, LocksOKSame
             DEF Harmless, NoNewNull, Scheduled, KeepsOrder
<1>12. CASE was # "RUNNING" /\ ~ rel.preempt
  <2>1. Terminate(k, t) = left
    BY <1>9, <1>12
  <2>2. HighestFirst(k) => HighestFirst(left)
    BY <1>2, <1>4, <1>5, <1>7, <1>12 DEF HighestFirst, LeaveKeeps
  <2> QED BY <1>6, <1>7, <1>8, <2>1, <2>2, KeepsOrderSame
<1> QED BY <1>10, <1>11, <1>12

-----------------------------------------------------------------------------
(* The kernel's invariant                                                  *)

(***************************************************************************)
(* Every ready queue holds threads of its own priority: without it nothing *)
(* says that serving the highest queue that is not empty serves the        *)
(* highest priority, nor that the idle thread's queue holds only the idle  *)
(* thread.  That the highest thread runs is not part of it: Console has    *)
(* handlers that do not see to it.                                         *)
(***************************************************************************)
Good(k) ==
  /\ k \in KernelState
  /\ ReadySorted(k)
  /\ IdleReady(k)
  /\ LocksOK(k)
  /\ k.fault # "null"
  /\ k.state[Idle] # "DEAD"

Ind ==
  /\ Good(vm)
  /\ frame \in [Thread -> Frames]
  /\ io \in [Thread -> Nat] /\ io[Idle] = 0
  /\ due \in [Thread -> Tick]

-----------------------------------------------------------------------------
(* How a handler keeps a snapshot good                                     *)

LEMMA GoodType ==
  ASSUME NEW k, Good(k)
  PROVE  /\ k \in KernelState /\ ReadySorted(k) /\ IdleReady(k)
         /\ LocksOK(k) /\ k.current \in Thread
         /\ k.fault # "null" /\ k.state[Idle] # "DEAD"
BY DEF Good, KernelState

(* The locks change, the scheduler does not.                               *)
LEMMA GoodSame ==
  ASSUME NEW k, Good(k), NEW r \in KernelState,
         r.ready = k.ready, r.current = k.current, r.state = k.state,
         r.fault = "null" => k.fault = "null",
         LocksOK(r)
  PROVE  Good(r) /\ KeepsOrder(k, r)
BY DEF Good, ReadySorted, IdleReady, IdleCount, HighestFirst, KeepsOrder

LEMMA GoodLeaves ==
  ASSUME NEW k, Good(k), NEW r, LeaveKeeps(k, r)
  PROVE  Good(r) /\ KeepsOrder(k, r)
<1>1. LocksOK(r)
  BY LeaveKeepsLocks DEF Good
<1>2. IdleReady(r)
  BY DEF Good, LeaveKeeps, IdleReady, IdleCount
<1>3. KeepsOrder(k, r)
  BY DEF LeaveKeeps, HighestFirst, KeepsOrder
<1> QED BY <1>1, <1>2, <1>3 DEF Good, LeaveKeeps, Harmless, NoNewNull

LEMMA GoodYields ==
  ASSUME NEW k \in KernelState, ReadySorted(k), IdleReady(k), LocksOK(k),
         k.fault # "null", k.state[Idle] # "DEAD"
  PROVE  Good(Yield(k)) /\ HighestFirst(Yield(k)) /\ Yield(k).memQueue = k.memQueue
<1>1. Scheduled(Yield(k)) /\ SameLocks(k, Yield(k)) /\ Harmless(k, Yield(k))
  BY YieldType
<1>2. LocksOK(Yield(k))
  BY <1>1, LocksOKSame
<1> QED BY <1>1, <1>2 DEF Good, Harmless, NoNewNull, Scheduled

LEMMA GoodReady ==
  ASSUME NEW k, Good(k), NEW t \in App
  PROVE  LET r == AddToReady(k, t)
         IN  /\ Good(r) /\ r.current = k.current /\ r.memQueue = k.memQueue
             /\ \A p \in Priorities : p # Priority[t] => r.ready[p] = k.ready[p]
<1> DEFINE r == AddToReady(k, t)
<1>1. /\ k \in KernelState /\ ReadySorted(k) /\ IdleReady(k)
      /\ LocksOK(k) /\ k.current \in Thread /\ t \in Thread
  BY GoodType DEF App
<1>2. /\ TickKeeps(k, r)
      /\ \A p \in Priorities : p # Priority[t] => r.ready[p] = k.ready[p]
  BY <1>1, AddAppToReady, AddToReadySorted
<1> HIDE DEF r
<1>3. LocksOK(r)
  BY <1>1, <1>2, LocksOKSame DEF TickKeeps
<1>4. IdleReady(r)
  BY <1>1, <1>2 DEF TickKeeps, IdleReady, IdleCount
<1> QED BY <1>2, <1>3, <1>4 DEF r, Good, TickKeeps, Harmless, NoNewNull

(* A thread that becomes ready preempts the current one if its priority is *)
(* higher.                                                                 *)
LEMMA GoodWakes ==
  ASSUME NEW k, Good(k), NEW t \in App
  PROVE  /\ Good(Preempt(AddToReady(k, t), t))
         /\ KeepsOrder(k, Preempt(AddToReady(k, t), t))
         /\ Preempt(AddToReady(k, t), t).memQueue = k.memQueue
<1> DEFINE r == AddToReady(k, t)
<1>1. /\ Good(r) /\ r.current = k.current /\ r.memQueue = k.memQueue
      /\ \A p \in Priorities : p # Priority[t] => r.ready[p] = k.ready[p]
  BY GoodReady
<1> HIDE DEF r
<1>2. CASE Priority[t] > Priority[k.current]
  <2>1. /\ Good(Yield(r)) /\ HighestFirst(Yield(r)) /\ Yield(r).memQueue = r.memQueue
    BY <1>1, GoodType, GoodYields
  <2> QED BY <1>1, <1>2, <2>1 DEF Preempt, r, KeepsOrder
<1>3. CASE ~ Priority[t] > Priority[k.current]
  <2>1. HighestFirst(k) => HighestFirst(r)
    BY <1>1, <1>3 DEF HighestFirst
  <2>2. KeepsOrder(k, r)
    BY <1>1, <2>1, KeepsOrderSame
  <2> QED BY <1>1, <1>3, <2>2 DEF Preempt, r
<1> QED BY <1>2, <1>3

LEMMA GoodBlocks ==
  ASSUME NEW k, Good(k), k.current # Idle, NEW w \in Reasons
  PROVE  /\ Good(Block(k, w)) /\ HighestFirst(Block(k, w))
         /\ Block(k, w).memQueue = k.memQueue
<1>1. /\ Scheduled(Block(k, w)) /\ SameLocks(k, Block(k, w)) /\ Harmless(k, Block(k, w))
  BY GoodType, BlockType
<1>2. LocksOK(Block(k, w))
  BY <1>1, LocksOKSame DEF Good
<1> QED BY <1>1, <1>2 DEF Good, Harmless, NoNewNull, Scheduled

LEMMA GoodTerminates ==
  ASSUME NEW k, Good(k), k.current # Idle, NEW t \in App
  PROVE  Good(Terminate(k, t)) /\ KeepsOrder(k, Terminate(k, t))
<1>1. /\ Terminate(k, t) \in KernelState /\ ReadySorted(Terminate(k, t))
      /\ IdleReady(Terminate(k, t)) /\ LocksOK(Terminate(k, t))
      /\ NoNewNull(k, Terminate(k, t)) /\ KeepsOrder(k, Terminate(k, t))
  BY GoodType, TerminateType
<1> QED BY <1>1 DEF Good, Harmless, NoNewNull

-----------------------------------------------------------------------------
(* The invariant holds when VMMain is called                               *)

LEMMA InitGood ==
  ASSUME Init PROVE Ind /\ HighestFirst(vm)
<1>1. vm \in KernelState
  <2>1. /\ <<Idle, Idle>> \in Seq(Thread) /\ <<>> \in Seq(Thread) /\ <<>> \in Seq(App)
        /\ <<>> \in Seq(MutexID)
    BY SystemThreads
  <2>2. /\ {Main, Idle} \in SUBSET Thread /\ 3 \in 1 .. MaxTID + 1 /\ Main \in Thread
        /\ {1} \in SUBSET MutexID /\ 2 \in 1 .. MaxMID + 1 /\ 0 \in Tick
    BY SystemThreads, BoundsAssumption DEF MutexID, Tick
  <2> QED BY <2>1, <2>2 DEF Init, KernelState, ThreadStates, Faults
<1>2. Priority[Idle] = 0 /\ Priority[Main] = 2 /\ VM_THREAD_PRIORITY_NONE = 0 /\ Priorities = 0 .. 3
  BY PriorityAssumption DEF VM_THREAD_PRIORITY_NONE, VM_THREAD_PRIORITY_NORMAL,
                            VM_THREAD_PRIORITY_HIGH, Priorities
<1>3. /\ vm.current = Main /\ vm.state[Idle] = "READY" /\ vm.fault = "none"
      /\ vm.ready = [p \in Priorities |-> IF p = Priority[Idle] THEN <<Idle, Idle>> ELSE <<>>]
      /\ vm.mHeld = [t \in Thread |-> <<>>]
      /\ vm.isLocked = [m \in MutexID |-> FALSE]
      /\ vm.mWaiting = [m \in MutexID |-> [p \in Priorities |-> <<>>]]
  BY SystemThreads DEF Init
<1>4. ReadySorted(vm)
  <2>1. \A p \in Priorities : <<>> \in Seq(AtPriority(p))
    BY EmptySeq
  <2>2. Idle \in AtPriority(Priority[Idle])
    BY SystemThreads DEF AtPriority
  <2>3. <<Idle, Idle>> \in Seq(AtPriority(Priority[Idle]))
    BY <2>2
  <2> QED BY <1>3, <2>1, <2>3 DEF ReadySorted
<1>5. IdleReady(vm) /\ HighestFirst(vm)
  BY <1>2, <1>3, SystemThreads DEF IdleReady, IdleCount, HighestFirst
<1>6. LocksOK(vm)
  <2>1. \A y : ~ HoldsFrom(<<>>, 1, y)
    BY DEF HoldsFrom
  <2>2. NoRepeats(<<>>, 1)
    BY DEF NoRepeats
  <2>3. Agree(vm, Main, 1, NULL_MUTEX)
    BY <1>3, <2>1, <2>2 DEF Agree, Start
  <2>4. Waited(vm, NULL_MUTEX)
    BY <1>3 DEF Waited, AllEmpty
  <2> QED BY <2>3, <2>4 DEF LocksOK
<1>7. Good(vm)
  BY <1>1, <1>3, <1>4, <1>5, <1>6 DEF Good
<1>8. User \in Frames /\ 0 \in Tick
  BY BoundsAssumption DEF User, Frames, Ops, NULL_MUTEX, Tick
<1> QED BY <1>5, <1>7, <1>8, SystemThreads DEF Ind, Init

-----------------------------------------------------------------------------
(* The calls that change locks                                             *)

LEMMA AcquireFreeGood ==
  ASSUME Good(vm), NEW m \in vm.mutexes, ~ vm.isLocked[m]
  PROVE  LET r == [vm EXCEPT !.mHeld[curr] = Append(@, m),
                             !.isLocked[m] = TRUE,
                             !.owner[m] = curr]
         IN  Good(r) /\ KeepsOrder(vm, r) /\ r.memQueue = vm.memQueue
<1> DEFINE c == vm.current
           s == vm.mHeld[c]
           h == [vm.mHeld EXCEPT ![c] = Append(s, m)]
           l == [vm.isLocked EXCEPT ![m] = TRUE]
           o == [vm.owner EXCEPT ![m] = c]
           r == [vm EXCEPT !.mHeld = h, !.isLocked = l, !.owner = o]
<1>1. /\ vm \in KernelState /\ c \in Thread /\ m \in MutexID /\ LocksOK(vm)
      /\ s \in Seq(MutexID)
  BY GoodType DEF KernelState
<1>2. /\ h \in [Thread -> Seq(MutexID)] /\ l \in [MutexID -> BOOLEAN]
      /\ o \in [MutexID -> Thread \union {NoThread}]
  BY <1>1, AppendProperties DEF KernelState
<1>3. /\ h[c] = Append(s, m) /\ \A u \in Thread : u # c => h[u] = vm.mHeld[u]
      /\ l[m] /\ o[m] = c
      /\ \A y \in MutexID : y # m => l[y] = vm.isLocked[y] /\ o[y] = vm.owner[y]
  BY <1>1 DEF KernelState
<1> HIDE DEF s, h, l, o
<1>4. /\ r \in KernelState /\ r.ready = vm.ready /\ r.current = c /\ r.state = vm.state
      /\ r.fault = vm.fault /\ r.mWaiting = vm.mWaiting /\ r.mutexes = vm.mutexes
      /\ r.mHeld = h /\ r.isLocked = l /\ r.owner = o /\ r.memQueue = vm.memQueue
  BY <1>1, <1>2 DEF KernelState
<1>5. /\ \A u \in Thread, y \in MutexID :
           HoldsFrom(vm.mHeld[u], 1, y) <=> vm.isLocked[y] /\ vm.owner[y] = u
      /\ \A u \in Thread : NoRepeats(vm.mHeld[u], 1)
  BY <1>1 DEF LocksOK, Agree, Start, MutexID, NULL_MUTEX
<1>6. 1 \in 1 .. Len(s) + 1 /\ NoRepeats(s, 1) /\ ~ HoldsFrom(s, 1, m)
  BY <1>1, <1>5, LenProperties DEF s
<1>7. /\ \A y : HoldsFrom(Append(s, m), 1, y) <=> HoldsFrom(s, 1, y) \/ y = m
      /\ NoRepeats(Append(s, m), 1)
  BY <1>1, <1>6, AppendHolds
<1>8. Agree(r, Main, 1, NULL_MUTEX)
  <2>1. ASSUME NEW u \in Thread, NEW y \in MutexID
        PROVE  HoldsFrom(h[u], 1, y) <=> l[y] /\ o[y] = u
    <3>1. CASE u = c
      <4>1. HoldsFrom(h[u], 1, y) <=> HoldsFrom(s, 1, y) \/ y = m
        BY <1>3, <1>7, <3>1
      <4>2. HoldsFrom(s, 1, y) <=> vm.isLocked[y] /\ vm.owner[y] = c
        BY <1>1, <1>5 DEF s
      <4> QED BY <1>3, <3>1, <4>1, <4>2
    <3>2. CASE u # c
      BY <1>1, <1>3, <1>5, <3>2
    <3> QED BY <3>1, <3>2
  <2>2. \A u \in Thread : NoRepeats(h[u], 1)
    BY <1>3, <1>5, <1>7
  <2>3. \A y \in MutexID : y # NULL_MUTEX
    BY DEF MutexID, NULL_MUTEX
  <2> QED BY <1>4, <2>1, <2>2, <2>3 DEF Agree, Start
<1>9. Waited(r, NULL_MUTEX)
  BY <1>1, <1>3, <1>4 DEF LocksOK, Waited
<1>10. [vm EXCEPT !.mHeld[curr] = Append(@, m), !.isLocked[m] = TRUE, !.owner[m] = curr] = r
  BY <1>1 DEF curr, h, l, o, s, KernelState
<1> HIDE DEF r
<1> QED BY <1>4, <1>8, <1>9, <1>10, GoodSame DEF LocksOK

(* The owner's list loses m; m is then passed on.                          *)
LEMMA ReleaseGood ==
  ASSUME Good(vm), NEW m \in vm.mutexes, vm.isLocked[m], vm.owner[m] = curr
  PROVE  LET t == NextOwner(Unlock(vm, m), m)
             k == PassOn([vm EXCEPT !.mHeld[curr] = EraseEach(@, m)], m)
             r == IF t # NoThread /\ Priority[t] > Priority[curr] THEN Yield(k) ELSE k
         IN  Good(r) /\ KeepsOrder(vm, r) /\ r.memQueue = vm.memQueue
<1> DEFINE c == vm.current
           s == vm.mHeld[c]
           e == EraseEach(s, m)
           h == [vm.mHeld EXCEPT ![c] = e]
           j == [vm EXCEPT !.mHeld = h]
           k == PassOn(j, m)
           t == NextOwner(Unlock(vm, m), m)
<1>1. /\ vm \in KernelState /\ c \in Thread /\ m \in MutexID /\ LocksOK(vm)
      /\ ReadySorted(vm) /\ IdleReady(vm)
      /\ s \in Seq(MutexID)
  BY GoodType DEF KernelState
<1>2. /\ \A u \in Thread, y \in MutexID :
           HoldsFrom(vm.mHeld[u], 1, y) <=> vm.isLocked[y] /\ vm.owner[y] = u
      /\ \A u \in Thread : NoRepeats(vm.mHeld[u], 1)
  BY <1>1 DEF LocksOK, Agree, Start, MutexID, NULL_MUTEX
<1>3. NoRepeats(s, 1)
  BY <1>1, <1>2
<1> HIDE DEF s
<1>4. /\ e \in Seq(MutexID)
      /\ \A y : HoldsFrom(e, 1, y) <=> y # m /\ HoldsFrom(s, 1, y)
      /\ NoRepeats(e, 1)
  <2>1. /\ \A y : Holds(e, y) <=> y # m /\ Holds(s, y)
        /\ NoRepeats(e, 1)
    BY <1>1, <1>3, EraseEachKeeps
  <2>2. e \in Seq(MutexID)
    BY <1>1, EraseEachType
  <2> HIDE DEF e
  <2> QED BY <2>1, <2>2 DEF Holds, HoldsFrom
<1> HIDE DEF e
<1>5. /\ h \in [Thread -> Seq(MutexID)]
      /\ h[c] = e /\ \A u \in Thread : u # c => h[u] = vm.mHeld[u]
  BY <1>1, <1>4 DEF KernelState
<1>6. [vm EXCEPT !.mHeld[curr] = EraseEach(@, m)] = j
  BY <1>1 DEF curr, s, e, KernelState
<1> HIDE DEF h
<1>7. /\ j \in KernelState /\ j.mHeld = h
      /\ j.ready = vm.ready /\ j.current = c /\ j.state = vm.state /\ j.fault = vm.fault
      /\ j.isLocked = vm.isLocked /\ j.owner = vm.owner /\ j.mWaiting = vm.mWaiting
      /\ j.mutexes = vm.mutexes /\ j.memQueue = vm.memQueue
  BY <1>1, <1>5 DEF KernelState
<1> HIDE DEF j
<1>8. Agree(j, Main, 1, m)
  <2>1. ASSUME NEW u \in Thread, NEW y \in MutexID
        PROVE  HoldsFrom(h[u], 1, y) <=> y # m /\ vm.isLocked[y] /\ vm.owner[y] = u
    <3>1. CASE u = c
      BY <1>1, <1>2, <1>4, <1>5, <3>1 DEF s
    <3>2. CASE u # c
      BY <1>1, <1>2, <1>5, <3>2 DEF curr
    <3> QED BY <3>1, <3>2
  <2>2. \A u \in Thread : NoRepeats(h[u], 1)
    BY <1>2, <1>4, <1>5
  <2> QED BY <1>7, <2>1, <2>2 DEF Agree, Start
<1>9. Waited(j, m)
  BY <1>1, <1>7 DEF LocksOK, Waited, MutexID, NULL_MUTEX
<1>10. ReadySorted(j) /\ m \in j.mutexes
  BY <1>1, <1>7 DEF ReadySorted
<1>11. LocksOK(k)
  <2>1. 1 \in 1 .. Len(j.mHeld[Main]) + 1
    BY <1>7, SystemThreads, LenProperties DEF KernelState
  <2> QED BY <1>1, <1>7, <1>8, <1>9, <1>10, <2>1, SystemThreads, PassOnAgrees DEF LocksOK
<1>12. PassKeeps(j, k)
  BY <1>1, <1>7, <1>10, PassOnFrees, PassOnGrants
<1>13. t = NextOwner(Unlock(j, m), m)
  <2>1. /\ ~ Unlock(vm, m).isLocked[m] /\ Unlock(vm, m).mWaiting = vm.mWaiting
        /\ ~ Unlock(j, m).isLocked[m] /\ Unlock(j, m).mWaiting = vm.mWaiting
    <3>1. ASSUME NEW a \in KernelState
          PROVE  ~ Unlock(a, m).isLocked[m] /\ Unlock(a, m).mWaiting = a.mWaiting
      <4>1. /\ Unlock(a, m).isLocked = [a.isLocked EXCEPT ![m] = FALSE]
            /\ Unlock(a, m).mWaiting = a.mWaiting
        BY <1>1, UnlockType
      <4>2. a.isLocked \in [MutexID -> BOOLEAN]
        BY DEF KernelState
      <4> QED BY <1>1, <4>1, <4>2
    <3> QED BY <1>1, <1>7, <3>1
  <2> QED BY <2>1 DEF NextOwner
<1>14. \/ t = NoThread /\ k.ready = j.ready
       \/ /\ t \in App /\ t # NoThread
          /\ \A p \in Priorities : p # Priority[t] => k.ready[p] = j.ready[p]
  <2>1. CASE AllEmpty(j.mWaiting[m])
    BY <1>1, <1>7, <1>10, <1>13, <2>1, PassOnFrees
  <2>2. CASE ~ AllEmpty(j.mWaiting[m])
    <3> DEFINE f == First(j.mWaiting[m])
    <3>1. /\ f \in App /\ NextOwner(Unlock(j, m), m) = f /\ f # NoThread
          /\ \A p \in Priorities : p # Priority[f] => k.ready[p] = j.ready[p]
      BY <1>1, <1>7, <1>10, <2>2, PassOnGrants
    <3> HIDE DEF f, k, t
    <3> QED BY <1>13, <3>1
  <2> QED BY <2>1, <2>2
<1> HIDE DEF k, t
<1>15. /\ k \in KernelState /\ ReadySorted(k) /\ k.current = c
       /\ k.fault # "null" /\ k.state[Idle] # "DEAD" /\ IdleReady(k)
       /\ k.memQueue = vm.memQueue
  BY <1>1, <1>7, <1>12 DEF PassKeeps, Harmless, NoNewNull, Good, IdleReady, IdleCount
<1>16. CASE t # NoThread /\ Priority[t] > Priority[c]
  <2>1. /\ Good(Yield(k)) /\ KeepsOrder(vm, Yield(k))
        /\ Yield(k).memQueue = vm.memQueue
    BY <1>11, <1>15, GoodYields DEF KeepsOrder
  <2> QED BY <1>6, <1>15, <1>16, <2>1 DEF k, t, curr
<1>17. CASE ~ (t # NoThread /\ Priority[t] > Priority[c])
  <2>1. HighestFirst(vm) => HighestFirst(k)
    BY <1>1, <1>7, <1>14, <1>15, <1>17 DEF HighestFirst
  <2>2. Good(k) /\ KeepsOrder(vm, k)
    BY <1>11, <1>15, <2>1, KeepsOrderSame DEF Good
  <2> QED BY <1>6, <1>15, <1>17, <2>2 DEF k, t, curr
<1> QED BY <1>16, <1>17

-----------------------------------------------------------------------------
(* Every step keeps the invariant                                          *)

(* The rest of the state: a call that suspends or returns its caller.      *)
LEMMA FramesType ==
  ASSUME Good(vm), frame \in [Thread -> Frames],
         NEW op \in Ops, NEW m \in MutexID \union {NULL_MUTEX}, NEW n \in Tick
  PROVE  /\ Suspend(op, m, n) => frame' \in [Thread -> Frames]
         /\ Return => frame' \in [Thread -> Frames]
<1>1. [op |-> op, mutex |-> m, timeout |-> n] \in Frames /\ User \in Frames
  BY BoundsAssumption DEF Frames, User, Ops, Tick, NULL_MUTEX
<1> QED BY <1>1 DEF Suspend, Return

(* Only the termination of a thread changes the queue for memory.          *)
QueueKept ==
  vm'.memQueue # vm.memQueue => SkeletonExit \/ \E t \in Thread : VMThreadTerminate(t)

(* A step keeps the invariant, and the order of the threads.               *)
IndStep == Ind' /\ KeepsOrder(vm, vm') /\ QueueKept

(* The caller's step keeps the scheduler's part, and the queue for memory. *)
KeptGood == Good(vm') /\ KeepsOrder(vm, vm') /\ vm'.memQueue = vm.memQueue

LEMMA CallKeeps ==
  ASSUME IdleSpared, Ind, Call PROVE IndStep
<1>1. /\ Good(vm) /\ vm \in KernelState /\ ReadySorted(vm) /\ IdleReady(vm)
      /\ LocksOK(vm) /\ vm.current \in Thread
      /\ vm.fault # "null" /\ vm.state[Idle] # "DEAD"
      /\ frame \in [Thread -> Frames] /\ io \in [Thread -> Nat] /\ io[Idle] = 0
      /\ due \in [Thread -> Tick]
  BY GoodType DEF Ind, Good
<1>2. /\ \A op \in Ops, m \in MutexID \union {NULL_MUTEX}, n \in Tick :
           Suspend(op, m, n) => frame' \in [Thread -> Frames]
      /\ \A op : op \in {"user", "sleep", "acquire", "io", "exit"} => op \in Ops
      /\ NULL_MUTEX \in MutexID \union {NULL_MUTEX} /\ 0 \in Tick /\ TickMax \in Tick
      /\ User \in Frames
  <2>1. {"user", "sleep", "acquire", "io", "exit"} \subseteq Ops
    BY Zenon DEF Ops
  <2>2. NULL_MUTEX \in MutexID \union {NULL_MUTEX} /\ 0 \in Tick /\ TickMax \in Tick
    BY BoundsAssumption DEF Tick
  <2>3. User \in Frames
    BY <2>2, Zenon DEF User, Frames, Ops
  <2> QED BY <1>1, <2>1, <2>2, <2>3, FramesType
<1>3. Calls => curr \in App /\ vm.current # Idle
  BY <1>1 DEF Calls, curr, App
<1>4. ASSUME VMThreadCreate PROVE IndStep
  <2>1. vm' = [vm EXCEPT !.allThreads = @ \union {vm.nextTID}, !.nextTID = @ + 1]
        /\ vm.nextTID \in Thread /\ vm.nextTID + 1 \in 1 .. MaxTID + 1
    BY <1>1, <1>4, BoundsAssumption DEF VMThreadCreate, KernelState, Thread
  <2>2. vm' \in KernelState /\ SameReady([vm EXCEPT !.allThreads = vm'.allThreads], vm')
    BY <1>1, <2>1, ZenonT(60) DEF KernelState, SameReady, SameLocks, Harmless, NoNewNull
  <2>3. /\ vm'.ready = vm.ready /\ vm'.current = vm.current /\ vm'.state = vm.state
        /\ vm'.fault = vm.fault /\ vm'.memQueue = vm.memQueue /\ SameLocks(vm, vm')
    BY <1>1, <2>1 DEF KernelState, SameLocks
  <2>4. KeptGood
    BY <1>1, <2>2, <2>3, GoodSame, LocksOKSame DEF KeptGood
  <2> QED BY <1>1, <1>4, <2>4 DEF VMThreadCreate, Ind, IndStep, QueueKept, KeptGood
<1>5. ASSUME NEW t \in Thread, VMThreadDelete(t) PROVE IndStep
  <2>1. vm' = [vm EXCEPT !.allThreads = @ \ {t}]
    BY <1>5 DEF VMThreadDelete
  <2>2. /\ vm' \in KernelState
        /\ vm'.ready = vm.ready /\ vm'.current = vm.current /\ vm'.state = vm.state
        /\ vm'.fault = vm.fault /\ vm'.memQueue = vm.memQueue /\ SameLocks(vm, vm')
    BY <1>1, <2>1, ZenonT(60) DEF KernelState, SameLocks
  <2>3. KeptGood
    BY <1>1, <2>2, GoodSame, LocksOKSame DEF KeptGood
  <2> QED BY <1>1, <1>5, <2>3 DEF VMThreadDelete, Ind, IndStep, QueueKept, KeptGood
<1>6. ASSUME NEW t \in Thread, VMThreadActivate(t) PROVE IndStep
  <2>1. t \in App
    BY <1>1, <1>6 DEF VMThreadActivate, App
  <2>2. KeptGood
    BY <1>1, <1>6, <2>1, GoodWakes DEF VMThreadActivate, curr, KeptGood
  <2> QED BY <1>1, <1>2, <1>6, <2>2 DEF VMThreadActivate, Ind, IndStep, QueueKept, KeptGood
<1>7. ASSUME NEW t \in Thread, VMThreadTerminate(t) PROVE IndStep
  <2>1. t \in App
    BY <1>7 DEF VMThreadTerminate, IdleSpared, App
  <2>2. Good(vm') /\ KeepsOrder(vm, vm')
    BY <1>1, <1>3, <1>7, <2>1, GoodTerminates DEF VMThreadTerminate
  <2> QED BY <1>1, <1>7, <2>2 DEF VMThreadTerminate, Ind, IndStep, QueueKept
<1>8. ASSUME SkeletonExit PROVE IndStep
  <2>1. curr \in App
    BY <1>3, <1>8 DEF SkeletonExit
  <2>2. Good(Terminate(vm, curr)) /\ KeepsOrder(vm, Terminate(vm, curr))
    BY <1>1, <1>3, <1>8, <2>1, GoodTerminates DEF SkeletonExit
  <2>3. Good(vm') /\ KeepsOrder(vm, vm')
    BY <1>1, <1>8, <2>2, KeepsOrderSame DEF SkeletonExit
  <2>4. frame' \in [Thread -> Frames]
    BY <1>2, <1>8 DEF SkeletonExit
  <2> QED BY <1>1, <1>8, <2>3, <2>4 DEF SkeletonExit, Ind, IndStep, QueueKept
<1>9. ASSUME NEW n \in SleepTimes, VMThreadSleep(n) PROVE IndStep
  <2>1. n \in Tick /\ n # 0
    BY ProfileAssumption DEF VM_TIMEOUT_INFINITE
  <2> DEFINE k == [vm EXCEPT !.ticksLeft[curr] = n]
  <2>2. /\ k \in KernelState
        /\ k.ready = vm.ready /\ k.current = vm.current /\ k.state = vm.state
        /\ k.fault = vm.fault /\ k.memQueue = vm.memQueue /\ SameLocks(vm, k)
    BY <1>1, <2>1, ZenonT(60) DEF KernelState, SameLocks, curr
  <2>3. Good(k)
    <3> HIDE DEF k
    <3> QED BY <1>1, <2>2, GoodSame, LocksOKSame
  <2>4. /\ Good(Block(k, WAITING_SLEEP)) /\ HighestFirst(Block(k, WAITING_SLEEP))
        /\ Block(k, WAITING_SLEEP).memQueue = vm.memQueue
    <3> HIDE DEF k
    <3>1. WAITING_SLEEP \in Reasons
      BY DEF Reasons, WAITING_IO, WAITING_SLEEP, WAITING_MEMORY
    <3> QED BY <1>3, <1>9, <2>2, <2>3, <3>1, GoodBlocks DEF VMThreadSleep
  <2>5. Good(Yield(vm)) /\ HighestFirst(Yield(vm)) /\ Yield(vm).memQueue = vm.memQueue
    BY <1>1, GoodYields
  <2>6. KeptGood
    BY <1>9, <2>4, <2>5 DEF VMThreadSleep, KeepsOrder, KeptGood
  <2>7. frame' \in [Thread -> Frames] /\ due' \in [Thread -> Tick]
    BY <1>1, <1>2, <1>9, <2>1 DEF VMThreadSleep
  <2> QED BY <1>1, <1>9, <2>6, <2>7 DEF VMThreadSleep, Ind, IndStep, QueueKept, KeptGood
<1>10. ASSUME VMMutexCreate PROVE IndStep
  <2>1. /\ vm' = [vm EXCEPT !.mutexes = @ \union {vm.nextMID}, !.nextMID = @ + 1]
        /\ vm.nextMID \in MutexID /\ vm.nextMID + 1 \in 1 .. MaxMID + 1
    BY <1>1, <1>10, BoundsAssumption DEF VMMutexCreate, KernelState, MutexID
  <2>2. /\ vm' \in KernelState
        /\ vm'.ready = vm.ready /\ vm'.current = vm.current /\ vm'.state = vm.state
        /\ vm'.fault = vm.fault /\ vm'.memQueue = vm.memQueue /\ vm'.mutexes = vm.mutexes \union {vm.nextMID}
        /\ vm'.mHeld = vm.mHeld /\ vm'.isLocked = vm.isLocked /\ vm'.owner = vm.owner
        /\ vm'.mWaiting = vm.mWaiting
    BY <1>1, <2>1, ZenonT(60) DEF KernelState
  <2>3. LocksOK(vm')
    BY <1>1, <2>2 DEF LocksOK, Agree, Waited
  <2>4. KeptGood
    BY <1>1, <2>2, <2>3, GoodSame DEF KeptGood
  <2> QED BY <1>1, <1>10, <2>4 DEF VMMutexCreate, Ind, IndStep, QueueKept, KeptGood
<1>11. ASSUME NEW m \in MutexID, VMMutexDelete(m) PROVE IndStep
  <2>1. vm' = [vm EXCEPT !.mutexes = @ \ {m}] /\ ~ vm.isLocked[m]
    BY <1>11 DEF VMMutexDelete
  <2>2. /\ vm' \in KernelState
        /\ vm'.ready = vm.ready /\ vm'.current = vm.current /\ vm'.state = vm.state
        /\ vm'.fault = vm.fault /\ vm'.memQueue = vm.memQueue /\ vm'.mutexes = vm.mutexes \ {m}
        /\ vm'.mHeld = vm.mHeld /\ vm'.isLocked = vm.isLocked /\ vm'.owner = vm.owner
        /\ vm'.mWaiting = vm.mWaiting
    BY <1>1, <2>1, ZenonT(60) DEF KernelState
  <2>3. LocksOK(vm')
    BY <1>1, <2>1, <2>2 DEF LocksOK, Agree, Waited
  <2>4. KeptGood
    BY <1>1, <2>2, <2>3, GoodSame DEF KeptGood
  <2> QED BY <1>1, <1>11, <2>4 DEF VMMutexDelete, Ind, IndStep, QueueKept, KeptGood
<1>12. ASSUME NEW m \in MutexID, AcquireFree(m) PROVE IndStep
  <2>1. KeptGood
    BY <1>1, <1>12, AcquireFreeGood DEF AcquireFree, KeptGood
  <2> QED BY <1>1, <1>12, <2>1 DEF AcquireFree, Ind, IndStep, QueueKept, KeptGood
<1>13. ASSUME NEW m \in MutexID, NEW n \in AcquireTimeouts, AcquireLocked(m, n) PROVE IndStep
  <2> DEFINE b == IF n = VM_TIMEOUT_INFINITE THEN TRUE ELSE vm.infiniteFlag[curr]
             a == IF n = VM_TIMEOUT_INFINITE THEN TickMax ELSE n
             k == IF n = VM_TIMEOUT_INFINITE
                  THEN [vm EXCEPT !.infiniteFlag[curr] = TRUE,
                                  !.ticksLeft[curr] = TickMax]
                  ELSE [vm EXCEPT !.ticksLeft[curr] = n]
             w == WantsMutex(k, m, curr)
             q == [vm.mWaiting EXCEPT ![m] = Push(@, Priority[curr], curr)]
  <2>1. n \in Tick
    BY ProfileAssumption
  <2>2. /\ k \in KernelState
        /\ k.ready = vm.ready /\ k.current = vm.current /\ k.state = vm.state
        /\ k.fault = vm.fault /\ k.memQueue = vm.memQueue /\ SameLocks(vm, k)
    BY <1>1, <1>2, <2>1, ZenonT(60) DEF KernelState, SameLocks, curr
  <2> HIDE DEF k
  <2>3. q \in [MutexID -> [Priorities -> Seq(App)]]
    <3>1. curr \in App /\ Priority[curr] \in Priorities
      BY <1>3, <1>13, PriorityAssumption DEF AcquireLocked, App
    <3>2. Push(vm.mWaiting[m], Priority[curr], curr) \in [Priorities -> Seq(App)]
      BY <1>1, <3>1, PushType DEF KernelState
    <3> QED BY <1>1, <3>2 DEF KernelState
  <2>4. w = [k EXCEPT !.mWants = [k.mWants EXCEPT ![curr] = m], !.mWaiting = q]
    BY <2>2 DEF WantsMutex, KernelState, SameLocks
  <2>5. \A l \in MutexID : l # m => q[l] = vm.mWaiting[l]
    BY <1>1 DEF KernelState
  <2> HIDE DEF q, w
  <2>6. [k.mWants EXCEPT ![curr] = m] \in [Thread -> MutexID \union {NULL_MUTEX}]
    BY <2>2 DEF KernelState
  <2>7. /\ w \in KernelState
        /\ w.ready = vm.ready /\ w.current = vm.current /\ w.state = vm.state
        /\ w.fault = vm.fault /\ w.mutexes = vm.mutexes /\ w.memQueue = vm.memQueue
        /\ w.mHeld = vm.mHeld /\ w.isLocked = vm.isLocked /\ w.owner = vm.owner
        /\ w.mWaiting = q
    BY <2>2, <2>3, <2>4, <2>6 DEF KernelState, SameLocks
  <2>8. LocksOK(w)
    BY <1>1, <1>13, <2>5, <2>7 DEF LocksOK, Agree, Waited, AcquireLocked
  <2>9. Good(w)
    BY <1>1, <2>7, <2>8, GoodSame
  <2>10. WAITING_MUTEX \in Reasons
    BY DEF Reasons, WAITING_IO, WAITING_MUTEX, WAITING_MEMORY
  <2>11. /\ Good(Block(w, WAITING_MUTEX)) /\ HighestFirst(Block(w, WAITING_MUTEX))
         /\ Block(w, WAITING_MUTEX).memQueue = vm.memQueue
    BY <1>3, <1>13, <2>7, <2>9, <2>10, GoodBlocks DEF AcquireLocked
  <2>12. KeptGood
    BY <1>13, <2>11 DEF AcquireLocked, w, k, KeepsOrder, KeptGood
  <2>13. frame' \in [Thread -> Frames] /\ due' \in [Thread -> Tick]
    BY <1>1, <1>2, <1>13, <2>1 DEF AcquireLocked
  <2> QED BY <1>1, <1>13, <2>12, <2>13 DEF AcquireLocked, Ind, IndStep, QueueKept, KeptGood
<1>14. ASSUME NEW m \in MutexID, VMMutexRelease(m) PROVE IndStep
  <2>1. KeptGood
    BY <1>1, <1>14, ReleaseGood DEF VMMutexRelease, KeptGood
  <2> QED BY <1>1, <1>14, <2>1 DEF VMMutexRelease, Ind, IndStep, QueueKept, KeptGood
<1>15. ASSUME WaitForIO PROVE IndStep
  <2>1. WAITING_IO \in Reasons
    BY DEF Reasons, WAITING_IO, WAITING_MEMORY
  <2>2. KeptGood
    BY <1>1, <1>3, <1>15, <2>1, GoodBlocks DEF WaitForIO, KeepsOrder, KeptGood
  <2>3. frame' \in [Thread -> Frames]
    BY <1>2, <1>15 DEF WaitForIO
  <2>4. io' \in [Thread -> Nat] /\ io'[Idle] = 0
    BY <1>1, <1>3, <1>15, SystemThreads DEF WaitForIO, curr
  <2> QED BY <1>1, <1>15, <2>2, <2>3, <2>4 DEF WaitForIO, Ind, IndStep, QueueKept, KeptGood
<1> QED BY <1>4, <1>5, <1>6, <1>7, <1>8, <1>9, <1>10, <1>11, <1>12, <1>13, <1>14, <1>15 DEF Call

LEMMA FinishKeeps ==
  ASSUME Ind, Finish PROVE IndStep
<1>1. /\ Good(vm) /\ vm \in KernelState /\ ReadySorted(vm) /\ LocksOK(vm)
      /\ vm.current \in Thread /\ vm.fault # "null" /\ vm.state[Idle] # "DEAD"
      /\ frame \in [Thread -> Frames] /\ io \in [Thread -> Nat] /\ io[Idle] = 0
      /\ due \in [Thread -> Tick]
  BY GoodType DEF Ind, Good
<1>2. Return => frame' \in [Thread -> Frames]
  <2>1. "user" \in Ops /\ NULL_MUTEX \in MutexID \union {NULL_MUTEX} /\ 0 \in Tick
    BY BoundsAssumption DEF Ops, Tick
  <2> QED BY <1>1, <2>1, FramesType
<1>3. [due EXCEPT ![curr] = 0] \in [Thread -> Tick]
  BY <1>1, BoundsAssumption DEF Tick, curr
<1>4. ASSUME NEW kind \in Faults, kind # "null"
      PROVE  /\ Good(Fault(vm, kind)) /\ KeepsOrder(vm, Fault(vm, kind))
             /\ Fault(vm, kind).memQueue = vm.memQueue
  <2> DEFINE r == Fault(vm, kind)
  <2>1. /\ r \in KernelState
        /\ r.ready = vm.ready /\ r.current = vm.current /\ r.state = vm.state
        /\ r.fault = "null" => vm.fault = "null"
        /\ r.memQueue = vm.memQueue /\ SameLocks(vm, r)
    BY <1>1, <1>4, ZenonT(60) DEF KernelState, Fault, SameLocks
  <2> HIDE DEF r
  <2>2. Good(r) /\ KeepsOrder(vm, r)
    BY <1>1, <2>1, GoodSame, LocksOKSame
  <2> QED BY <2>1, <2>2 DEF r
<1>5. ASSUME ExitReturns PROVE IndStep
  <2>1. KeptGood
    BY <1>4, <1>5 DEF ExitReturns, Faults, KeptGood
  <2> QED BY <1>1, <1>5, <2>1 DEF ExitReturns, Ind, IndStep, QueueKept, KeptGood
<1>6. ASSUME SleepReturns PROVE IndStep
  BY <1>1, <1>2, <1>3, <1>6, KeepsOrderSame DEF SleepReturns, Ind, IndStep, QueueKept, KeptGood
<1>7. ASSUME AcquireReturns PROVE IndStep
  <2> DEFINE m == frame[curr].mutex
  <2>1. CASE m \in vm.mutexes
    <3>1. m \in MutexID
      BY <1>1, <2>1 DEF KernelState
    <3>2. LeaveKeeps(vm, StopWaiting(vm, m, curr))
      BY <1>1, <3>1, StopWaitingType DEF curr
    <3>4. StopWaiting(vm, m, curr).memQueue = vm.memQueue
      BY <1>1 DEF StopWaiting, KernelState
    <3>3. KeptGood
      BY <1>1, <1>7, <2>1, <3>2, <3>4, GoodLeaves DEF AcquireReturns, KeptGood
    <3> QED BY <1>1, <1>2, <1>3, <1>7, <3>3 DEF AcquireReturns, Ind, IndStep, QueueKept, KeptGood
  <2>2. CASE m \notin vm.mutexes
    <3>1. KeptGood
      BY <1>4, <1>7, <2>2 DEF AcquireReturns, Faults, KeptGood
    <3> QED BY <1>1, <1>2, <1>3, <1>7, <3>1 DEF AcquireReturns, Ind, IndStep, QueueKept, KeptGood
  <2> QED BY <2>1, <2>2
<1>8. ASSUME IOReturns PROVE IndStep
  BY <1>1, <1>2, <1>8, KeepsOrderSame DEF IOReturns, Ind, IndStep, QueueKept, KeptGood
<1> QED BY <1>5, <1>6, <1>7, <1>8 DEF Finish

LEMMA SignalKeeps ==
  ASSUME Ind, Signal PROVE IndStep
<1>1. /\ Good(vm) /\ vm \in KernelState /\ ReadySorted(vm) /\ IdleReady(vm) /\ LocksOK(vm)
      /\ vm.current \in Thread /\ vm.fault # "null" /\ vm.state[Idle] # "DEAD"
      /\ frame \in [Thread -> Frames] /\ io \in [Thread -> Nat] /\ io[Idle] = 0
      /\ due \in [Thread -> Tick]
  BY GoodType DEF Ind, Good
<1>2. ASSUME AlarmHandler PROVE IndStep
  <2> DEFINE k == ProcessAllWaiting(vm)
  <2>1. TickKeeps(vm, k)
    BY <1>1, ProcessAllWaitingType
  <2> HIDE DEF k
  <2>2. /\ k \in KernelState /\ ReadySorted(k) /\ IdleReady(k)
        /\ k.fault # "null" /\ k.state[Idle] # "DEAD" /\ k.memQueue = vm.memQueue
    BY <1>1, <2>1 DEF TickKeeps, Harmless, NoNewNull, IdleReady, IdleCount
  <2>3. LocksOK(k)
    BY <1>1, <2>1, LocksOKSame DEF TickKeeps
  <2>4. KeptGood
    BY <1>2, <2>2, <2>3, GoodYields DEF AlarmHandler, TickOf, k, KeepsOrder, KeptGood
  <2>5. due' \in [Thread -> Tick]
    <3>1. \A n \in Tick : (IF n = 0 THEN 0 ELSE n - 1) \in Tick
      BY BoundsAssumption DEF Tick
    <3> QED BY <1>1, <1>2, <3>1 DEF AlarmHandler
  <2> QED BY <1>1, <1>2, <2>4, <2>5 DEF AlarmHandler, Ind, IndStep, QueueKept, KeptGood
<1>3. ASSUME NEW t \in Thread, FileHandler(t) PROVE IndStep
  <2>1. t \in App /\ t # Idle
    BY <1>1, <1>3 DEF FileHandler, App
  <2>2. io' \in [Thread -> Nat] /\ io'[Idle] = 0
    <3>1. io[t] - 1 \in Nat
      BY <1>1, <1>3 DEF FileHandler
    <3> QED BY <1>1, <1>3, <2>1, <3>1, SystemThreads DEF FileHandler
  <2> DEFINE k == RemoveFromWaiting(vm, t)
  <2>3. SameReady(vm, k)
    BY <1>1, RemoveFromWaitingType
  <2> HIDE DEF k
  <2>4. /\ Good(k) /\ k.current = vm.current /\ KeepsOrder(vm, k)
        /\ k.memQueue = vm.memQueue
    BY <1>1, <2>3, GoodLeaves, LeaveKeepsSame DEF SameReady, Harmless
  <2>5. /\ Good(Preempt(AddToReady(k, t), t))
        /\ KeepsOrder(vm, Preempt(AddToReady(k, t), t))
        /\ Preempt(AddToReady(k, t), t).memQueue = vm.memQueue
    BY <2>1, <2>4, GoodWakes, KeepsOrderTransitive
  <2>6. /\ Good(Fault(vm, "freed")) /\ KeepsOrder(vm, Fault(vm, "freed"))
        /\ Fault(vm, "freed").memQueue = vm.memQueue
    <3> DEFINE r == Fault(vm, "freed")
    <3>1. /\ r \in KernelState
          /\ r.ready = vm.ready /\ r.current = vm.current /\ r.state = vm.state
          /\ r.fault = "null" => vm.fault = "null"
          /\ r.memQueue = vm.memQueue /\ SameLocks(vm, r)
      BY <1>1, ZenonT(60) DEF KernelState, Fault, Faults, SameLocks
    <3> HIDE DEF r
    <3>2. Good(r) /\ KeepsOrder(vm, r)
      BY <1>1, <3>1, GoodSame, LocksOKSame
    <3> QED BY <3>1, <3>2 DEF r
  <2>7. KeptGood
    BY <1>1, <1>3, <2>4, <2>5, <2>6, KeepsOrderSame DEF FileHandler, k, curr, KeptGood
  <2> QED BY <1>1, <1>3, <2>2, <2>7 DEF FileHandler, Ind, IndStep, QueueKept, KeptGood
<1> QED BY <1>2, <1>3 DEF Signal

LEMMA NextKeeps ==
  ASSUME IdleSpared, Ind, [Next]_vars PROVE IndStep
<1>1. CASE Next
  BY <1>1, CallKeeps, FinishKeeps, SignalKeeps DEF Next
<1>2. CASE UNCHANGED vars
  BY <1>2 DEF vars, Ind, Good, LocksOK, IndStep, KeepsOrder, HighestFirst, QueueKept
<1> QED BY <1>1, <1>2

-----------------------------------------------------------------------------
(* The theorems                                                            *)

(* The invariant holds in every state of every application that does not   *)
(* terminate the idle thread.                                              *)
THEOREM Invariance ==
  ASSUME IdleSpared
  PROVE  Spec => []Ind
<1>1. Init => Ind
  BY InitGood
<1>2. Ind /\ [Next]_vars => Ind'
  BY NextKeeps DEF IndStep
<1> QED BY <1>1, <1>2, PTL DEF Spec

(* The scheduler's data keep the types the header files give them, as long *)
(* as no one terminates the idle thread.                                   *)
THEOREM TypeCorrect ==
  ASSUME IdleSpared
  PROVE  Spec => []TypeOK
<1>1. Ind => TypeOK
  BY DEF Ind, Good, TypeOK
<1> QED BY <1>1, Invariance, PTL

(***************************************************************************)
(* scheduleNext always finds a thread in an application that does not      *)
(* terminate the idle thread: the NULL it would dereference with every     *)
(* ready queue empty is then out of reach.                                 *)
(***************************************************************************)
THEOREM AlwaysIdleQueued ==
  ASSUME IdleSpared
  PROVE  Spec => []IdleIsQueued
<1>1. Ind => IdleIsQueued
  BY DEF Ind, Good, IdleReady, IdleCount, IdleIsQueued, curr
<1> QED BY <1>1, Invariance, PTL

(***************************************************************************)
(* Whatever the threads call, the termination of the idle thread apart,    *)
(* and whichever signals arrive, no ready thread has a higher priority     *)
(* than the running one when the handler is done.                          *)
(***************************************************************************)
THEOREM AlwaysHighestRuns ==
  ASSUME IdleSpared
  PROVE  Spec => []HighestRuns
<1>1. Init => Ind /\ HighestFirst(vm)
  BY InitGood
<1>2. Ind /\ HighestFirst(vm) /\ [Next]_vars => Ind' /\ HighestFirst(vm)'
  BY NextKeeps DEF IndStep, KeepsOrder
<1>3. HighestFirst(vm) => HighestRuns
  BY DEF HighestFirst, HighestRuns, curr
<1> QED BY <1>1, <1>2, <1>3, PTL DEF Spec

(***************************************************************************)
(* Mutex::owner and mHeld agree, through hand-overs, time-outs and the     *)
(* termination of owners and of waiters, the idle thread apart.            *)
(***************************************************************************)
THEOREM AlwaysHoldersAgree ==
  ASSUME IdleSpared
  PROVE  Spec => []HoldersAgree
<1>1. Ind => HoldersAgree
  <2> SUFFICES ASSUME Ind PROVE HoldersAgree
    OBVIOUS
  <2>1. Agree(vm, Main, 1, NULL_MUTEX) /\ \A m \in MutexID : m # NULL_MUTEX
    BY DEF Ind, Good, LocksOK, MutexID, NULL_MUTEX
  <2> QED BY <2>1 DEF Agree, Start, HoldersAgree, Holds, HoldsFrom, NoRepeats
<1> QED BY <1>1, Invariance, PTL

(* A mutex is never free while a thread waits for it, in an application    *)
(* that does not terminate the idle thread.                                *)
THEOREM AlwaysNoWaiterForgotten ==
  ASSUME IdleSpared
  PROVE  Spec => []NoWaiterForgotten
<1>1. Ind => NoWaiterForgotten
  <2> SUFFICES ASSUME Ind PROVE NoWaiterForgotten
    OBVIOUS
  <2>1. Waited(vm, NULL_MUTEX) /\ \A m \in MutexID : m # NULL_MUTEX
    BY DEF Ind, Good, LocksOK, MutexID, NULL_MUTEX
  <2> QED BY <2>1 DEF Waited, NoWaiterForgotten
<1> QED BY <1>1, Invariance, PTL
=============================================================================
