----------------------------- MODULE CalmProofs -----------------------------
(***************************************************************************)
(* The invariants of an application without timed waits for mutexes, that  *)
(* neither asks for a mutex it owns nor terminates a thread that does I/O: *)
(* every thread is in the one queue its state calls for.  Each queue lists *)
(* a set of threads, each of them once; the operators of Scheduler move a  *)
(* thread from one set to another.                                         *)
(***************************************************************************)
EXTENDS KernelProofs

-----------------------------------------------------------------------------
(* Sequences                                                               *)

(* Taking the first entry.                                                 *)
LEMMA TailLine ==
  ASSUME NEW T, NEW q \in Seq(T), q # <<>>, NoRepeats(q, 1)
  PROVE  /\ NoRepeats(Tail(q), 1)
         /\ \A u : Holds(Tail(q), u) <=> Holds(q, u) /\ u # Head(q)
<1>1. /\ Len(q) \in Nat /\ Len(q) > 0 /\ Len(Tail(q)) = Len(q) - 1
      /\ Head(q) = q[1]
      /\ \A j \in 1 .. Len(q) - 1 : Tail(q)[j] = q[j + 1]
  BY HeadTailProperties, LenProperties, EmptySeq
<1> DEFINE n == Len(q)
           a == Tail(q)
<1> HIDE DEF n, a
<1>2. /\ n \in Nat /\ n > 0 /\ Len(a) = n - 1 /\ Len(q) = n
      /\ \A j \in 1 .. n - 1 : a[j] = q[j + 1]
  BY <1>1 DEF n, a
<1>3. \A j, l \in 1 .. n : q[j] = q[l] => j = l
  BY DEF NoRepeats, n
<1>4. NoRepeats(a, 1)
  BY <1>2, <1>3 DEF NoRepeats
<1>5. ASSUME NEW u PROVE Holds(a, u) <=> Holds(q, u) /\ u # q[1]
  <2>1. Holds(a, u) => Holds(q, u) /\ u # q[1]
    BY <1>2, <1>3 DEF Holds
  <2>2. ASSUME Holds(q, u), u # q[1] PROVE Holds(a, u)
    <3>1. PICK j \in 1 .. n : q[j] = u
      BY <1>2, <2>2 DEF Holds
    <3>2. j - 1 \in 1 .. n - 1 /\ a[j - 1] = u
      BY <1>2, <2>2, <3>1
    <3> QED BY <1>2, <3>2 DEF Holds
  <2> QED BY <2>1, <2>2
<1> QED BY <1>1, <1>4, <1>5 DEF a

LEMMA RemoveAtLine ==
  ASSUME NEW T, NEW q \in Seq(T), NEW i \in 1 .. Len(q), NoRepeats(q, 1)
  PROVE  /\ NoRepeats(RemoveAt(q, i), 1)
         /\ \A u : Holds(RemoveAt(q, i), u) <=> Holds(q, u) /\ u # q[i]
<1> DEFINE n == Len(q)
           a == RemoveAt(q, i)
<1>1. /\ n \in Nat /\ Len(a) = n - 1 /\ Len(q) = n
      /\ \A j \in 1 .. n - 1 : a[j] = IF j < i THEN q[j] ELSE q[j + 1]
  BY RemoveAtEntries, LenProperties
<1>2. \A j, l \in 1 .. n : q[j] = q[l] => j = l
  BY DEF NoRepeats
<1>3. i \in 1 .. n
  OBVIOUS
<1> HIDE DEF n, a
<1>4. NoRepeats(a, 1)
  BY <1>1, <1>2, <1>3 DEF NoRepeats
<1>5. ASSUME NEW u PROVE Holds(a, u) <=> Holds(q, u) /\ u # q[i]
  <2>1. Holds(a, u) => Holds(q, u) /\ u # q[i]
    BY <1>1, <1>2, <1>3 DEF Holds
  <2>2. ASSUME Holds(q, u), u # q[i] PROVE Holds(a, u)
    <3>1. PICK j \in 1 .. n : q[j] = u
      BY <1>1, <2>2 DEF Holds
    <3>2. CASE j < i
      BY <1>1, <1>3, <3>1, <3>2 DEF Holds
    <3>3. CASE ~ j < i
      <4>1. j - 1 \in 1 .. n - 1 /\ a[j - 1] = u
        BY <1>1, <1>3, <2>2, <3>1, <3>3
      <4> QED BY <1>1, <4>1 DEF Holds
    <3> QED BY <3>2, <3>3
  <2> QED BY <2>1, <2>2
<1> QED BY <1>4, <1>5 DEF a

-----------------------------------------------------------------------------
(* Arrays of queues                                                        *)

(***************************************************************************)
(* Every application's thread is in the queue its place says, once; a      *)
(* place that is not in I is none of these queues.                         *)
(***************************************************************************)
Lines(qs, I, place) ==
  \A i \in I : /\ NoRepeats(qs[i], 1)
               /\ \A u \in Thread : Holds(qs[i], u) <=> u \in App /\ place[u] = i

LEMMA PushLines ==
  ASSUME NEW T, NEW J, NEW qs \in [J -> Seq(T)], NEW I \in SUBSET J,
         NEW place, Lines(qs, I, place),
         NEW t \in T, t \in App, place[t] \notin I, NEW i \in I,
         NEW moved, \A u \in Thread : moved[u] = IF u = t THEN i ELSE place[u]
  PROVE  Lines(Push(qs, i, t), I, moved)
<1>1. /\ Push(qs, i, t)[i] = Append(qs[i], t)
      /\ \A j \in I : j # i => Push(qs, i, t)[j] = qs[j]
  <2>1. i \in J /\ \A j \in I : j \in J
    OBVIOUS
  <2> QED BY <2>1, PushType
<1>2. qs[i] \in Seq(T) /\ NoRepeats(qs[i], 1) /\ ~ Holds(qs[i], t)
  BY DEF Lines, App
<1>3. \A s, y : Holds(s, y) <=> HoldsFrom(s, 1, y)
  BY DEF Holds, HoldsFrom
<1>4. /\ \A y : Holds(Append(qs[i], t), y) <=> Holds(qs[i], y) \/ y = t
      /\ NoRepeats(Append(qs[i], t), 1)
  <2>1. 1 \in 1 .. Len(qs[i]) + 1
    BY <1>2, LenProperties
  <2> QED BY <1>2, <1>3, <2>1, AppendHolds
<1>5. ASSUME NEW j \in I
      PROVE  /\ NoRepeats(Push(qs, i, t)[j], 1)
             /\ \A u \in Thread : Holds(Push(qs, i, t)[j], u) <=> u \in App /\ moved[u] = j
  <2>1. NoRepeats(qs[j], 1) /\ \A u \in Thread : Holds(qs[j], u) <=> u \in App /\ place[u] = j
    BY DEF Lines
  <2>2. CASE j = i
    BY <1>1, <1>4, <2>1, <2>2
  <2>3. CASE j # i
    BY <1>1, <2>1, <2>3
  <2> QED BY <2>2, <2>3
<1> QED BY <1>5 DEF Lines

LEMMA PushWaiting ==
  ASSUME NEW qs \in [Reasons -> Seq(App)], NEW place, Lines(qs, Reasons, place),
         NEW t \in App, place[t] \notin Reasons, NEW i \in Reasons,
         NEW moved, \A u \in Thread : moved[u] = IF u = t THEN i ELSE place[u]
  PROVE  Lines(Push(qs, i, t), Reasons, moved)
BY PushLines

(* The highest queue gives its first thread.                               *)
LEMMA PopLines ==
  ASSUME NEW T \in SUBSET Thread, NEW qs \in Queues(T), ~ AllEmpty(qs),
         NEW I \in SUBSET Priorities, NOTHING \notin I,
         NEW place, Lines(qs, I, place),
         NEW moved,
         \A u \in Thread : moved[u] = IF u = First(qs) THEN NOTHING ELSE place[u]
  PROVE  /\ Top(qs) \notin I => Lines(Pop(qs), I, place)
         /\ Top(qs) \in I =>
              /\ First(qs) \in App /\ place[First(qs)] = Top(qs)
              /\ Lines(Pop(qs), I, moved)
<1> DEFINE p == Top(qs)
           t == First(qs)
<1>1. p \in Priorities /\ qs[p] # <<>> /\ qs[p] \in Seq(T)
  BY TopType DEF Queues
<1>2. /\ t \in T
      /\ \A j \in Priorities : j # p => Pop(qs)[j] = qs[j]
  BY <1>1, PopType
<1>3. t = Head(qs[p]) /\ Pop(qs)[p] = Tail(qs[p])
  BY <1>1 DEF First, Pop, Queues
<1>4. Holds(qs[p], t)
  BY <1>1, <1>3, HeadTailProperties, LenProperties, EmptySeq DEF Holds
<1> HIDE DEF p, t
<1>5. CASE p \in I
  <2>1. t \in App /\ place[t] = p /\ NoRepeats(qs[p], 1)
    BY <1>2, <1>4, <1>5 DEF Lines
  <2>2. /\ NoRepeats(Pop(qs)[p], 1)
        /\ \A u : Holds(Pop(qs)[p], u) <=> Holds(qs[p], u) /\ u # t
    BY <1>1, <1>3, <2>1, TailLine
  <2>3. \A u \in Thread : moved[u] = IF u = t THEN NOTHING ELSE place[u]
    BY DEF t
  <2>4. Lines(Pop(qs), I, moved)
    BY <1>2, <2>1, <2>2, <2>3 DEF Lines
  <2> QED BY <1>5, <2>1, <2>4 DEF p, t
<1>6. CASE p \notin I
  <2>1. Lines(Pop(qs), I, place)
    BY <1>2, <1>6 DEF Lines
  <2> QED BY <1>6, <2>1 DEF p, t
<1> QED BY <1>5, <1>6

(* A thread is taken out of the queue it is in.                            *)
LEMMA WithoutLines ==
  ASSUME NEW T \in SUBSET Thread, NEW qs \in [0 .. 3 -> Seq(T)],
         NEW I \in SUBSET (0 .. 3), NOTHING \notin I,
         NEW place, Lines(qs, I, place),
         NEW t \in App, \A i \in 0 .. 3 : Holds(qs[i], t) => i \in I,
         NEW moved, \A u \in Thread : moved[u] = IF u = t THEN NOTHING ELSE place[u]
  PROVE  /\ Lines(Without(qs, t), I, moved)
         /\ (\E i \in 0 .. 3 : Holds(qs[i], t)) <=> place[t] \in I
<1>1. t \in Thread
  BY DEF App
<1>2. (\E i \in 0 .. 3 : Holds(qs[i], t)) <=> place[t] \in I
  BY <1>1 DEF Lines
<1>3. moved[t] = NOTHING /\ \A u \in Thread : u # t => moved[u] = place[u]
  BY <1>1
<1>4. CASE \E i \in 0 .. 3 : Holds(qs[i], t)
  <2> DEFINE i == Lowest(qs, t)
             h == FirstAt(qs[i], t)
  <2>1. i \in 0 .. 3 /\ Holds(qs[i], t) /\ i \in I
    BY <1>4, LowestType
  <2> HIDE DEF i
  <2>2. place[t] = i /\ NoRepeats(qs[i], 1)
    BY <1>1, <2>1 DEF Lines
  <2>3. qs[i] \in Seq(T) /\ h \in 1 .. Len(qs[i]) /\ qs[i][h] = t
    BY <2>1, FirstAtType
  <2> HIDE DEF h
  <2>4. /\ NoRepeats(RemoveAt(qs[i], h), 1)
        /\ \A u : Holds(RemoveAt(qs[i], h), u) <=> Holds(qs[i], u) /\ u # t
    BY <2>2, <2>3, RemoveAtLine
  <2>5. Without(qs, t) = [qs EXCEPT ![i] = RemoveAt(qs[i], h)]
    BY <1>4 DEF Without, i, h
  <2>6. \A j \in I : Without(qs, t)[j] = IF j = i THEN RemoveAt(qs[i], h) ELSE qs[j]
    BY <2>1, <2>5
  <2>7. ASSUME NEW j \in I
        PROVE  /\ NoRepeats(Without(qs, t)[j], 1)
               /\ \A u \in Thread :
                    Holds(Without(qs, t)[j], u) <=> u \in App /\ moved[u] = j
    <3>1. /\ NoRepeats(qs[j], 1)
          /\ \A u \in Thread : Holds(qs[j], u) <=> u \in App /\ place[u] = j
      BY DEF Lines
    <3>2. CASE j = i
      BY <1>3, <2>4, <2>6, <3>1, <3>2
    <3>3. CASE j # i
      BY <1>3, <2>2, <2>6, <3>1, <3>3
    <3> QED BY <3>2, <3>3
  <2> QED BY <1>2, <2>7 DEF Lines
<1>5. CASE ~ \E i \in 0 .. 3 : Holds(qs[i], t)
  <2>1. Without(qs, t) = qs
    BY <1>5 DEF Without
  <2>2. place[t] \notin I
    BY <1>2, <1>5
  <2> QED BY <1>1, <1>2, <1>3, <2>1, <2>2 DEF Lines
<1> QED BY <1>4, <1>5

LEMMA WithoutAll ==
  ASSUME NEW qs \in [0 .. 3 -> Seq(App)], NEW place, Lines(qs, 0 .. 3, place),
         NEW t \in App,
         NEW moved, \A u \in Thread : moved[u] = IF u = t THEN NOTHING ELSE place[u]
  PROVE  /\ Lines(Without(qs, t), 0 .. 3, moved)
         /\ (\E i \in 0 .. 3 : Holds(qs[i], t)) <=> place[t] \in 0 .. 3
<1>1. App \in SUBSET Thread /\ NOTHING \notin 0 .. 3 /\ 0 .. 3 \in SUBSET (0 .. 3)
  BY DEF App, NOTHING
<1>2. \A i \in 0 .. 3 : Holds(qs[i], t) => i \in 0 .. 3
  OBVIOUS
<1> QED BY <1>1, <1>2, WithoutLines

-----------------------------------------------------------------------------
(* Where the threads are                                                   *)

AppPriorities == Priorities \ {VM_THREAD_PRIORITY_NONE}

ReadyPlace(S) == [u \in Thread |-> IF u \in S THEN Priority[u] ELSE NOTHING]

MutexPlace(k, m) ==
  [u \in Thread |-> IF k.mWants[u] = m THEN Priority[u] ELSE NOTHING]

ReadyOnes(k) == {u \in App : k.state[u] = "READY"}

(* The ready queues list the threads of S.                                 *)
InLine(k, S) == Lines(k.ready, AppPriorities, ReadyPlace(S))

(* The waiting queues list the threads that wait, by reason and by mutex.  *)
InWait(k) ==
  /\ Lines(k.waiting, Reasons, k.waitingFor)
  /\ \A m \in MutexID : Lines(k.mWaiting[m], Priorities, MutexPlace(k, m))

(***************************************************************************)
(* The threads, except those of X, that want a mutex are those that wait   *)
(* for one.  Such a thread does not own the mutex, and waits for ever: no  *)
(* tick ends its wait.                                                     *)
(***************************************************************************)
Linked(k, X) ==
  \A u \in Thread \ X :
    /\ k.mWants[u] # NULL_MUTEX <=> k.waitingFor[u] = WAITING_MUTEX
    /\ k.mWants[u] # NULL_MUTEX =>
         k.owner[k.mWants[u]] # u /\ k.infiniteFlag[u] /\ k.ticksLeft[u] # 0

(* No control block in use is freed; those of X are being moved.           *)
Standing(k, X) ==
  /\ \A u \in Thread \ X : k.state[u] = "WAITING" <=> k.waitingFor[u] # NOTHING
  /\ \A u \in Thread : k.state[u] # "DEAD" => u \in k.allThreads
  /\ k.state[Idle] \in {"READY", "RUNNING"}
  /\ k.fault = "none"

Running(k) == \A u \in Thread : k.state[u] = "RUNNING" <=> u = k.current

Halted(k) == \A u \in Thread : k.state[u] # "RUNNING"

Parked(k) == InWait(k) /\ Linked(k, {})

(* Every thread is where its state says.                                   *)
Placed(k) ==
  InLine(k, ReadyOnes(k)) /\ Parked(k) /\ Standing(k, {}) /\ Running(k)

(* What a method that moves no waiting thread keeps.                       *)
SameWaiting(k, r) ==
  /\ r.waiting = k.waiting /\ r.waitingFor = k.waitingFor
  /\ r.ticksLeft = k.ticksLeft /\ r.infiniteFlag = k.infiniteFlag
  /\ r.mWants = k.mWants
  /\ r.allThreads = k.allThreads /\ r.fault = k.fault
  /\ SameLocks(k, r)

SameDead(k, r) == \A u \in Thread : r.state[u] = "DEAD" <=> k.state[u] = "DEAD"

LEMMA SameWaitingParked ==
  ASSUME NEW k, NEW r, NEW X, SameWaiting(k, r)
  PROVE  /\ InWait(k) => InWait(r)
         /\ Linked(k, X) => Linked(r, X)
BY DEF SameWaiting, SameLocks, InWait, Linked, MutexPlace

LEMMA AppPrioritiesType ==
  /\ Priorities = 0 .. 3
  /\ AppPriorities = 1 .. 3
  /\ AppPriorities \in SUBSET Priorities
  /\ Reasons = 0 .. 3
  /\ NOTHING \notin Priorities /\ NOTHING \notin Reasons
  /\ VM_THREAD_PRIORITY_NONE \in Priorities
  /\ \A t \in App : t \in Thread /\ Priority[t] \in AppPriorities /\ Priority[t] \in Priorities
  /\ Priority[Idle] \notin AppPriorities
<1>1. /\ Priorities = 0 .. 3 /\ Reasons = 0 .. 3 /\ NOTHING = 4
      /\ VM_THREAD_PRIORITY_NONE = 0
  BY DEF Priorities, VM_THREAD_PRIORITY_NONE, VM_THREAD_PRIORITY_HIGH, NOTHING, Reasons,
         WAITING_IO, WAITING_MEMORY
<1>2. AppPriorities = 1 .. 3
  BY <1>1 DEF AppPriorities
<1>3. \A t \in App : t \in Thread /\ Priority[t] \in AppPriorities
  BY PriorityAssumption DEF AppPriorities, App
<1> QED BY <1>1, <1>2, <1>3, PriorityAssumption DEF AppPriorities

(* What scheduleNext and addToReady do to the rest of the snapshot.        *)
LEMMA AddToReadyEffect ==
  ASSUME NEW k \in KernelState, NEW t \in Thread, t \in k.allThreads
  PROVE  /\ AddToReady(k, t).state = [k.state EXCEPT ![t] = "READY"]
         /\ AddToReady(k, t).ready = Push(k.ready, Priority[t], t)
         /\ AddToReady(k, t).current = k.current
         /\ SameWaiting(k, AddToReady(k, t))
<1>1. AddToReady(k, t) =
        [k EXCEPT !.state = [k.state EXCEPT ![t] = "READY"],
                  !.ready = Push(k.ready, Priority[t], t)]
  BY DEF AddToReady, Deref, KernelState
<1> QED BY <1>1 DEF KernelState, SameWaiting, SameLocks

LEMMA ScheduleNextEffect ==
  ASSUME NEW k \in KernelState, ~ AllEmpty(k.ready),
         First(k.ready) \in Thread, First(k.ready) \in k.allThreads
  PROVE  /\ ScheduleNext(k).state = [k.state EXCEPT ![First(k.ready)] = "RUNNING"]
         /\ ScheduleNext(k).ready = Pop(k.ready)
         /\ ScheduleNext(k).current = First(k.ready)
         /\ SameWaiting(k, ScheduleNext(k))
<1> DEFINE t == First(k.ready)
           q == Pop(k.ready)
<1>1. ScheduleNext(k) =
        [k EXCEPT !.ready = q, !.state = [k.state EXCEPT ![t] = "RUNNING"], !.current = t]
  BY DEF ScheduleNext, Deref, KernelState
<1> HIDE DEF t, q
<1>2. /\ ScheduleNext(k).state = [k.state EXCEPT ![t] = "RUNNING"]
      /\ ScheduleNext(k).ready = q /\ ScheduleNext(k).current = t
      /\ SameWaiting(k, ScheduleNext(k))
  BY <1>1 DEF KernelState, SameWaiting, SameLocks
<1> QED BY <1>2 DEF t, q

(* A thread that is made ready joins the line of its priority, once.       *)
LEMMA AddToReadyInLine ==
  ASSUME NEW k \in KernelState, NEW t \in Thread, t \in k.allThreads,
         NEW S \in SUBSET App, t \notin S, InLine(k, S)
  PROVE  InLine(AddToReady(k, t), S \union ({t} \intersect App))
<1> DEFINE q == Push(k.ready, Priority[t], t)
           S2 == S \union ({t} \intersect App)
<1>1. k.ready \in [Priorities -> Seq(Thread)] /\ Priority[t] \in Priorities
  BY PriorityAssumption DEF KernelState
<1>2. AddToReady(k, t).ready = q
  BY AddToReadyEffect
<1>3. CASE t \in App
  <2>1. Priority[t] \in AppPriorities
    BY <1>3, AppPrioritiesType
  <2>2. \A u \in Thread : ReadyPlace(S2)[u] = IF u = t THEN Priority[t] ELSE ReadyPlace(S)[u]
    BY <1>3 DEF ReadyPlace
  <2>3. ReadyPlace(S)[t] \notin AppPriorities
    BY AppPrioritiesType DEF ReadyPlace
  <2>4. Lines(k.ready, AppPriorities, ReadyPlace(S))
    BY DEF InLine
  <2>5. AppPriorities \in SUBSET Priorities
    BY AppPrioritiesType
  <2> HIDE DEF S2
  <2>6. Lines(q, AppPriorities, ReadyPlace(S2))
    BY <1>1, <1>3, <2>1, <2>2, <2>3, <2>4, <2>5, PushLines
  <2> QED BY <1>2, <2>6 DEF InLine, S2
<1>4. CASE t \notin App
  <2>1. Priority[t] \notin AppPriorities
    BY <1>4, AppPrioritiesType DEF App
  <2>2. \A p \in AppPriorities : q[p] = k.ready[p]
    BY <1>1, <2>1, AppPrioritiesType DEF Push
  <2>3. S2 = S
    BY <1>4
  <2> HIDE DEF q, S2
  <2> QED BY <1>2, <2>2, <2>3 DEF InLine, Lines, S2
<1> QED BY <1>3, <1>4

(***************************************************************************)
(* scheduleNext, called when no thread runs: the thread it takes out of    *)
(* the line of its priority is the only entry for it.                      *)
(***************************************************************************)
LEMMA ScheduleNextPlaced ==
  ASSUME NEW k \in KernelState, ReadySorted(k), IdleCount(k) = 2,
         InLine(k, ReadyOnes(k)), Parked(k), Standing(k, {}), Halted(k)
  PROVE  /\ Placed(ScheduleNext(k))
         /\ SameWaiting(k, ScheduleNext(k))
         /\ SameDead(k, ScheduleNext(k))
<1> DEFINE qs == k.ready
           p  == Top(qs)
           t  == First(qs)
           r  == ScheduleNext(k)
<1>1. qs \in Queues(Thread)
  BY DEF KernelState, Queues
<1>2. ~ AllEmpty(qs)
  <2>1. qs[VM_THREAD_PRIORITY_NONE] # <<>>
    BY EmptySeq DEF IdleCount
  <2> QED BY <1>1, <2>1, AppPrioritiesType DEF AllEmpty, Queues
<1>3. p \in Priorities
  BY <1>1, <1>2, TopType
<1>4. qs[p] \in Seq(AtPriority(p))
  BY <1>3 DEF ReadySorted
<1>5. t \in Thread /\ t \in AtPriority(p)
  <2> HIDE DEF qs
  <2> QED BY <1>1, <1>2, <1>4, PopType
<1> HIDE DEF qs, p, t
<1>6. \A u \in Thread : (ReadyPlace(ReadyOnes(k) \ {t}))[u]
                          = IF u = t THEN NOTHING ELSE ReadyPlace(ReadyOnes(k))[u]
  BY DEF ReadyPlace
<1>7. /\ p \notin AppPriorities => Lines(Pop(qs), AppPriorities, ReadyPlace(ReadyOnes(k)))
      /\ p \in AppPriorities =>
           /\ t \in App /\ ReadyPlace(ReadyOnes(k))[t] = p
           /\ Lines(Pop(qs), AppPriorities, ReadyPlace(ReadyOnes(k) \ {t}))
  <2>1. Lines(qs, AppPriorities, ReadyPlace(ReadyOnes(k)))
    BY DEF InLine, qs
  <2>2. /\ Thread \in SUBSET Thread /\ NOTHING \notin AppPriorities
        /\ AppPriorities \in SUBSET Priorities
    BY AppPrioritiesType
  <2> QED BY <1>1, <1>2, <1>6, <2>1, <2>2, PopLines DEF p, t
<1>8. k.state[t] = "READY"
  <2>1. CASE p \in AppPriorities
    <3>1. t \in ReadyOnes(k)
      BY <1>3, <1>5, <1>7, <2>1, AppPrioritiesType DEF ReadyPlace
    <3> QED BY <3>1 DEF ReadyOnes
  <2>2. CASE p \notin AppPriorities
    <3>1. t = Idle
      BY <1>5, <2>2, AppPrioritiesType DEF AtPriority, App
    <3> QED BY <3>1, SystemThreads DEF Standing, Halted
  <2> QED BY <2>1, <2>2
<1>9. t \in k.allThreads
  BY <1>5, <1>8 DEF Standing
<1>10. /\ r.state = [k.state EXCEPT ![t] = "RUNNING"]
       /\ r.ready = Pop(qs) /\ r.current = t
       /\ SameWaiting(k, r)
  BY <1>2, <1>5, <1>9, ScheduleNextEffect DEF qs, t
<1>11. \A u \in Thread : r.state[u] = IF u = t THEN "RUNNING" ELSE k.state[u]
  BY <1>5, <1>10 DEF KernelState
<1> HIDE DEF r
<1>12. ReadyOnes(r) = ReadyOnes(k) \ {t}
  BY <1>11 DEF ReadyOnes, App
<1>13. InLine(r, ReadyOnes(r))
  <2>1. CASE p \in AppPriorities
    BY <1>7, <1>10, <1>12, <2>1 DEF InLine
  <2>2. CASE p \notin AppPriorities
    <3>1. t \notin App
      BY <1>5, <2>2, AppPrioritiesType DEF AtPriority
    <3>2. ReadyOnes(k) \ {t} = ReadyOnes(k)
      BY <3>1 DEF ReadyOnes
    <3> QED BY <1>7, <1>10, <1>12, <2>2, <3>2 DEF InLine
  <2> QED BY <2>1, <2>2
<1>14. Parked(r)
  BY <1>10, SameWaitingParked DEF Parked
<1>15. Standing(r, {})
  <2>1. \A u \in Thread : k.state[u] = "WAITING" <=> k.waitingFor[u] # NOTHING
    BY AppPrioritiesType DEF Standing
  <2>2. \A u \in Thread : r.state[u] = "WAITING" <=> r.waitingFor[u] # NOTHING
    BY <1>8, <1>10, <1>11, <2>1 DEF SameWaiting
  <2>3. \A u \in Thread : r.state[u] # "DEAD" => u \in r.allThreads
    BY <1>9, <1>10, <1>11 DEF Standing, SameWaiting
  <2> QED BY <1>10, <1>11, <2>2, <2>3, SystemThreads DEF Standing, SameWaiting
<1>16. Running(r)
  BY <1>10, <1>11 DEF Running, Halted
<1>17. SameDead(k, r)
  BY <1>8, <1>11 DEF SameDead
<1> QED BY <1>10, <1>13, <1>14, <1>15, <1>16, <1>17 DEF Placed, r

LEMMA YieldPlaced ==
  ASSUME NEW k \in KernelState, ReadySorted(k), IdleReady(k), Placed(k)
  PROVE  /\ Placed(Yield(k))
         /\ SameWaiting(k, Yield(k))
         /\ SameDead(k, Yield(k))
<1> DEFINE c == k.current
           a == AddToReady(k, c)
<1>1. c \in Thread /\ k.state[c] = "RUNNING" /\ c \in k.allThreads
  BY DEF KernelState, Placed, Running, Standing
<1>2. /\ a.state = [k.state EXCEPT ![c] = "READY"]
      /\ SameWaiting(k, a)
  BY <1>1, AddToReadyEffect
<1>3. a \in KernelState /\ ReadySorted(a) /\ a.ready = Push(k.ready, Priority[c], c)
  BY <1>1, AddToReadyType, AddToReadySorted
<1>4. \A u \in Thread : a.state[u] = IF u = c THEN "READY" ELSE k.state[u]
  BY <1>1, <1>2 DEF KernelState
<1>5. IdleCount(a) = 2
  <2>1. k.ready \in [Priorities -> Seq(Thread)] /\ Priority[c] \in Priorities
    BY <1>1, PriorityAssumption DEF KernelState
  <2>2. CASE c = Idle
    <3>1. a.ready[VM_THREAD_PRIORITY_NONE] = Append(k.ready[VM_THREAD_PRIORITY_NONE], c)
      BY <1>3, <2>1, <2>2, PriorityAssumption DEF Push
    <3>2. k.ready[VM_THREAD_PRIORITY_NONE] \in Seq(Thread)
      BY <2>1, AppPrioritiesType
    <3> QED BY <1>1, <2>2, <3>1, <3>2, AppendProperties DEF IdleReady, IdleCount
  <2>3. CASE c # Idle
    <3>1. c \in App
      BY <1>1, <2>3 DEF App
    <3>2. a.ready[VM_THREAD_PRIORITY_NONE] = k.ready[VM_THREAD_PRIORITY_NONE]
      BY <3>1, AddAppToReady DEF TickKeeps
    <3> QED BY <2>3, <3>2 DEF IdleReady, IdleCount
  <2> QED BY <2>2, <2>3
<1>6. InLine(a, ReadyOnes(a))
  <2>1. ReadyOnes(k) \in SUBSET App /\ c \notin ReadyOnes(k) /\ InLine(k, ReadyOnes(k))
    BY <1>1 DEF ReadyOnes, Placed
  <2>2. InLine(a, ReadyOnes(k) \union ({c} \intersect App))
    BY <1>1, <2>1, AddToReadyInLine
  <2> HIDE DEF a
  <2>3. ReadyOnes(a) = ReadyOnes(k) \union ({c} \intersect App)
    BY <1>4 DEF ReadyOnes, App
  <2> QED BY <2>2, <2>3
<1> HIDE DEF a
<1>7. Parked(a)
  BY <1>2, SameWaitingParked DEF Parked, Placed
<1>8. Standing(a, {})
  <2>1. \A u \in Thread : k.state[u] = "WAITING" <=> k.waitingFor[u] # NOTHING
    BY AppPrioritiesType DEF Placed, Standing
  <2>2. \A u \in Thread : a.state[u] = "WAITING" <=> a.waitingFor[u] # NOTHING
    BY <1>1, <1>2, <1>4, <2>1 DEF SameWaiting
  <2>3. \A u \in Thread : a.state[u] # "DEAD" => u \in a.allThreads
    BY <1>1, <1>2, <1>4 DEF Placed, Standing, SameWaiting
  <2> QED BY <1>2, <1>4, <2>2, <2>3, SystemThreads DEF Placed, Standing, SameWaiting
<1>9. Halted(a)
  BY <1>4 DEF Placed, Running, Halted
<1>10. /\ Placed(ScheduleNext(a)) /\ SameWaiting(a, ScheduleNext(a))
       /\ SameDead(a, ScheduleNext(a))
  BY <1>3, <1>5, <1>6, <1>7, <1>8, <1>9, ScheduleNextPlaced
<1>11. Yield(k) = ScheduleNext(a)
  BY DEF Yield, a
<1>12. SameDead(k, a)
  BY <1>1, <1>4 DEF SameDead
<1> QED BY <1>2, <1>10, <1>11, <1>12 DEF SameWaiting, SameLocks, SameDead

(***************************************************************************)
(* A thread of an application that waits for nothing is made ready.  S is  *)
(* who is in line already; the threads of X are still being moved.         *)
(***************************************************************************)
LEMMA AddToReadyPlaced ==
  ASSUME NEW k \in KernelState, NEW t \in App, t \in k.allThreads,
         k.waitingFor[t] = NOTHING,
         NEW S \in SUBSET App, t \notin S, InLine(k, S),
         NEW X, Parked(k), Standing(k, X \union {t})
  PROVE  /\ InLine(AddToReady(k, t), S \union {t})
         /\ Parked(AddToReady(k, t))
         /\ Standing(AddToReady(k, t), X)
         /\ SameWaiting(k, AddToReady(k, t))
         /\ \A u \in Thread :
              AddToReady(k, t).state[u] = IF u = t THEN "READY" ELSE k.state[u]
<1> DEFINE r == AddToReady(k, t)
<1>1. t \in Thread
  BY DEF App
<1>2. r.state = [k.state EXCEPT ![t] = "READY"] /\ SameWaiting(k, r)
  BY <1>1, AddToReadyEffect
<1>3. \A u \in Thread : r.state[u] = IF u = t THEN "READY" ELSE k.state[u]
  BY <1>1, <1>2 DEF KernelState
<1>4. InLine(r, S \union {t})
  <2>1. {t} \intersect App = {t}
    OBVIOUS
  <2> QED BY <1>1, <2>1, AddToReadyInLine
<1> HIDE DEF r
<1>5. Parked(r)
  BY <1>2, SameWaitingParked DEF Parked
<1>6. Standing(r, X)
  <2>1. \A u \in Thread \ X : r.state[u] = "WAITING" <=> r.waitingFor[u] # NOTHING
    BY <1>2, <1>3 DEF Standing, SameWaiting
  <2> QED BY <1>2, <1>3, <2>1, SystemThreads DEF Standing, SameWaiting, App
<1> QED BY <1>2, <1>3, <1>4, <1>5, <1>6 DEF r

(***************************************************************************)
(* How a step that is about another thread may change thread u: it may     *)
(* hand it the mutex it waits for.                                         *)
(***************************************************************************)
Undisturbed(k, r, u) ==
  /\ r.state[u] = "DEAD" <=> k.state[u] = "DEAD"
  /\ \A m \in MutexID :
       k.isLocked[m] /\ k.owner[m] = u => r.isLocked[m] /\ r.owner[m] = u
  /\ \/ /\ r.waitingFor[u] = k.waitingFor[u]
        /\ r.ticksLeft[u] = k.ticksLeft[u]
        /\ r.mWants[u] = k.mWants[u]
     \/ /\ k.waitingFor[u] = WAITING_MUTEX /\ r.waitingFor[u] = NOTHING
        /\ r.mWants[u] = NULL_MUTEX
        /\ \E m \in MutexID : k.mWants[u] = m /\ r.isLocked[m] /\ r.owner[m] = u

LEMMA UndisturbedTransitive ==
  ASSUME NEW k, NEW r, NEW s, NEW u, Undisturbed(k, r, u), Undisturbed(r, s, u)
  PROVE  Undisturbed(k, s, u)
<1>1. WAITING_MUTEX # NOTHING
  BY DEF WAITING_MUTEX, NOTHING
<1> QED BY <1>1 DEF Undisturbed

LEMMA UndisturbedSame ==
  ASSUME NEW k, NEW r, NEW u \in Thread, SameWaiting(k, r), SameDead(k, r)
  PROVE  Undisturbed(k, r, u)
BY DEF Undisturbed, SameWaiting, SameLocks, SameDead

(* A thread that is woken, by an answer or by VMThreadActivate.            *)
LEMMA WakePlaced ==
  ASSUME NEW k \in KernelState, ReadySorted(k), IdleReady(k),
         NEW t \in App, t \in k.allThreads, k.waitingFor[t] = NOTHING,
         k.state[t] \in {"DEAD", "WAITING"},
         InLine(k, ReadyOnes(k)), Parked(k), Standing(k, {t}), Running(k)
  PROVE  LET r == Preempt(AddToReady(k, t), t)
         IN  /\ Placed(r)
             /\ SameWaiting(k, r)
             /\ r.state[t] # "DEAD"
             /\ \A u \in Thread \ {t} : r.state[u] = "DEAD" <=> k.state[u] = "DEAD"
<1> DEFINE a == AddToReady(k, t)
<1>1. t \in Thread /\ t \notin ReadyOnes(k) /\ ReadyOnes(k) \in SUBSET App
      /\ t # k.current
  BY DEF App, ReadyOnes, Running
<1>2. /\ InLine(a, ReadyOnes(k) \union {t}) /\ Parked(a) /\ Standing(a, {})
      /\ SameWaiting(k, a)
      /\ \A u \in Thread : a.state[u] = IF u = t THEN "READY" ELSE k.state[u]
  <2>1. {} \union {t} = {t}
    OBVIOUS
  <2>2. Standing(k, {} \union {t})
    BY <2>1
  <2> QED BY <1>1, <2>2, AddToReadyPlaced
<1>3. a \in KernelState /\ ReadySorted(a) /\ a.current = k.current
  BY <1>1, AddToReadyType, AddToReadySorted
<1>4. IdleReady(a)
  <2>1. a.ready[VM_THREAD_PRIORITY_NONE] = k.ready[VM_THREAD_PRIORITY_NONE]
    BY AddAppToReady DEF TickKeeps
  <2> QED BY <1>3, <2>1 DEF IdleReady, IdleCount
<1> HIDE DEF a
<1>5. ReadyOnes(a) = ReadyOnes(k) \union {t}
  BY <1>1, <1>2 DEF ReadyOnes, App
<1>6. Running(a)
  BY <1>1, <1>2, <1>3 DEF Running
<1>7. Placed(a)
  BY <1>2, <1>5, <1>6 DEF Placed
<1>8. /\ Placed(Yield(a)) /\ SameWaiting(a, Yield(a)) /\ SameDead(a, Yield(a))
  BY <1>3, <1>4, <1>7, YieldPlaced
<1>9. Preempt(a, t) \in {Yield(a), a}
  BY DEF Preempt
<1>10. Placed(Preempt(a, t)) /\ SameWaiting(a, Preempt(a, t)) /\ SameDead(a, Preempt(a, t))
  BY <1>7, <1>8, <1>9 DEF SameWaiting, SameLocks, SameDead
<1>11. SameWaiting(k, Preempt(a, t))
  BY <1>2, <1>10 DEF SameWaiting, SameLocks
<1>12. \A u \in Thread : Preempt(a, t).state[u] = "DEAD" <=> k.state[u] = "DEAD" /\ u # t
  BY <1>1, <1>2, <1>10 DEF SameDead
<1> QED BY <1>1, <1>10, <1>11, <1>12 DEF a

(***************************************************************************)
(* The running thread gives the processor up to wait.  Its call has put it *)
(* into a mutex's queue when it waits for a mutex.                         *)
(***************************************************************************)
LEMMA BlockPlaced ==
  ASSUME NEW k \in KernelState, ReadySorted(k), IdleReady(k), k.current # Idle,
         InLine(k, ReadyOnes(k)), Standing(k, {}), Running(k),
         InWait(k), Linked(k, {k.current}),
         NEW w \in Reasons,
         k.mWants[k.current] # NULL_MUTEX <=> w = WAITING_MUTEX,
         k.mWants[k.current] # NULL_MUTEX =>
           /\ k.owner[k.mWants[k.current]] # k.current
           /\ k.infiniteFlag[k.current] /\ k.ticksLeft[k.current] # 0
  PROVE  /\ Placed(Block(k, w))
         /\ Block(k, w).waitingFor = [k.waitingFor EXCEPT ![k.current] = w]
         /\ Block(k, w).ticksLeft = k.ticksLeft
         /\ Block(k, w).mWants = k.mWants
         /\ SameLocks(k, Block(k, w))
         /\ SameDead(k, Block(k, w))
<1> DEFINE c == k.current
           f == [k.waitingFor EXCEPT ![c] = w]
           s == [k.state EXCEPT ![c] = "WAITING"]
           q == Push(k.waiting, w, c)
           a == AddToWaiting([k EXCEPT !.waitingFor[c] = w], c)
<1>1. /\ c \in Thread /\ c \in App /\ k.state[c] = "RUNNING" /\ k.waitingFor[c] = NOTHING
      /\ k.waitingFor \in [Thread -> Reasons \union {NOTHING}]
      /\ k.state \in [Thread -> ThreadStates]
      /\ k.waiting \in [Reasons -> Seq(App)]
  BY DEF KernelState, App, Running, Standing
<1>2. /\ \A u \in Thread : f[u] = IF u = c THEN w ELSE k.waitingFor[u]
      /\ \A u \in Thread : s[u] = IF u = c THEN "WAITING" ELSE k.state[u]
  BY <1>1
<1>3. f \in [Thread -> Reasons \union {NOTHING}] /\ s \in [Thread -> ThreadStates]
  BY <1>1 DEF ThreadStates
<1>4. q \in [Reasons -> Seq(App)]
  BY <1>1, PushType
<1>5. a = [k EXCEPT !.waitingFor = f, !.state = s, !.waiting = q]
  BY <1>1 DEF AddToWaiting, KernelState
<1> HIDE DEF c, f, s, q, a
<1>6. /\ a.waitingFor = f /\ a.state = s /\ a.waiting = q
      /\ a.ready = k.ready /\ a.ticksLeft = k.ticksLeft /\ a.infiniteFlag = k.infiniteFlag
      /\ a.mWants = k.mWants /\ a.allThreads = k.allThreads /\ a.fault = k.fault
      /\ SameLocks(k, a)
  BY <1>5 DEF KernelState, SameLocks
<1>7. a \in KernelState
  BY <1>3, <1>4, <1>5, ZenonT(60) DEF KernelState
<1>8. ReadySorted(a) /\ IdleCount(a) = 2
  BY <1>6 DEF ReadySorted, IdleReady, IdleCount
<1>9. InLine(a, ReadyOnes(a))
  <2>1. ReadyOnes(a) = ReadyOnes(k)
    BY <1>1, <1>2, <1>6 DEF ReadyOnes, App
  <2> QED BY <1>6, <2>1 DEF InLine
<1>10. Parked(a)
  <2>1. Lines(q, Reasons, f)
    <3>1. k.waitingFor[c] \notin Reasons
      BY <1>1, AppPrioritiesType
    <3>2. Lines(k.waiting, Reasons, k.waitingFor)
      BY DEF InWait
    <3>3. c \in App /\ k.waiting \in [Reasons -> Seq(App)]
      BY <1>1
    <3>4. \A u \in Thread : f[u] = IF u = c THEN w ELSE k.waitingFor[u]
      BY <1>2
    <3> QED BY <3>1, <3>2, <3>3, <3>4, PushWaiting DEF q
  <2>2. \A m \in MutexID : Lines(a.mWaiting[m], Priorities, MutexPlace(a, m))
    BY <1>6 DEF InWait, MutexPlace, SameLocks
  <2>3. Linked(a, {})
    <3>1. ASSUME NEW u \in Thread
          PROVE  /\ a.mWants[u] # NULL_MUTEX <=> a.waitingFor[u] = WAITING_MUTEX
                 /\ a.mWants[u] # NULL_MUTEX =>
                      /\ a.owner[a.mWants[u]] # u
                      /\ a.infiniteFlag[u] /\ a.ticksLeft[u] # 0
      <4>1. CASE u = c
        BY <1>2, <1>6, <4>1 DEF c, SameLocks
      <4>2. CASE u # c
        BY <1>2, <1>6, <4>2 DEF c, SameLocks, Linked
      <4> QED BY <4>1, <4>2
    <3> QED BY <3>1 DEF Linked
  <2> QED BY <1>6, <2>1, <2>2, <2>3 DEF Parked, InWait
<1>11. Standing(a, {})
  <2>1. \A u \in Thread : a.state[u] = "WAITING" <=> a.waitingFor[u] # NOTHING
    BY <1>2, <1>6, AppPrioritiesType DEF Standing
  <2>2. \A u \in Thread : a.state[u] # "DEAD" => u \in a.allThreads
    BY <1>1, <1>2, <1>6 DEF Standing
  <2> QED BY <1>1, <1>2, <1>6, <2>1, <2>2, SystemThreads DEF Standing, App
<1>12. Halted(a) /\ SameDead(k, a)
  BY <1>1, <1>2, <1>6 DEF Running, Halted, SameDead, c
<1>13. /\ Placed(ScheduleNext(a)) /\ SameWaiting(a, ScheduleNext(a))
       /\ SameDead(a, ScheduleNext(a))
  BY <1>7, <1>8, <1>9, <1>10, <1>11, <1>12, ScheduleNextPlaced
<1>14. Block(k, w) = ScheduleNext(a)
  BY DEF Block, a, c
<1> QED BY <1>6, <1>12, <1>13, <1>14 DEF SameWaiting, SameLocks, SameDead, f, c

-----------------------------------------------------------------------------
(* Leaving the waiting queues                                              *)

(* A thread that wants no mutex (any more) stops waiting.                  *)
LEMMA RemoveFromWaitingPlaced ==
  ASSUME NEW k \in KernelState, NEW t \in App, InWait(k), Linked(k, {t}),
         k.mWants[t] = NULL_MUTEX
  PROVE  LET r == RemoveFromWaiting(k, t)
         IN  /\ Parked(r)
             /\ r.state = k.state /\ r.ready = k.ready /\ r.current = k.current
             /\ r.mWants = k.mWants /\ r.allThreads = k.allThreads /\ r.fault = k.fault
             /\ SameLocks(k, r)
             /\ \A u \in Thread :
                  /\ r.waitingFor[u] = IF u = t THEN NOTHING ELSE k.waitingFor[u]
                  /\ u # t => r.ticksLeft[u] = k.ticksLeft[u]
<1> DEFINE r == RemoveFromWaiting(k, t)
           q == Without(k.waiting, t)
           f == [k.waitingFor EXCEPT ![t] = NOTHING]
           n == [k.ticksLeft EXCEPT ![t] = 0]
           b == [k.infiniteFlag EXCEPT ![t] = FALSE]
<1>1. /\ t \in Thread
      /\ k.waiting \in [0 .. 3 -> Seq(App)] /\ Reasons = 0 .. 3
      /\ k.waitingFor \in [Thread -> Reasons \union {NOTHING}]
      /\ k.ticksLeft \in [Thread -> Tick] /\ k.infiniteFlag \in [Thread -> BOOLEAN]
      /\ NOTHING \notin 0 .. 3 /\ Lines(k.waiting, 0 .. 3, k.waitingFor)
  BY AppPrioritiesType DEF App, KernelState, InWait
<1>2. \A u \in Thread : f[u] = IF u = t THEN NOTHING ELSE k.waitingFor[u]
  BY <1>1
<1>3. /\ Lines(q, 0 .. 3, f)
      /\ (\E i \in 0 .. 3 : Holds(k.waiting[i], t)) <=> k.waitingFor[t] \in 0 .. 3
  BY <1>1, <1>2, WithoutAll
<1>4. CASE k.waitingFor[t] \in 0 .. 3
  <2>1. r = [k EXCEPT !.waitingFor = f, !.ticksLeft = n, !.infiniteFlag = b, !.waiting = q]
    BY <1>1, <1>3, <1>4 DEF RemoveFromWaiting, StopsWaiting, KernelState
  <2> HIDE DEF r, q
  <2>2. /\ r.waiting = q /\ r.waitingFor = f /\ r.ticksLeft = n /\ r.infiniteFlag = b
        /\ r.state = k.state /\ r.ready = k.ready /\ r.current = k.current
        /\ r.mWants = k.mWants /\ r.allThreads = k.allThreads /\ r.fault = k.fault
        /\ SameLocks(k, r)
    <3> HIDE DEF f, n, b
    <3> QED BY <2>1 DEF KernelState, SameLocks
  <2>3. \A u \in Thread : u # t => n[u] = k.ticksLeft[u] /\ b[u] = k.infiniteFlag[u]
    BY <1>1
  <2> HIDE DEF f, n, b
  <2>4. Linked(r, {})
    <3>1. NOTHING # WAITING_MUTEX
      BY DEF NOTHING, WAITING_MUTEX
    <3>2. ASSUME NEW u \in Thread
          PROVE  /\ r.mWants[u] # NULL_MUTEX <=> r.waitingFor[u] = WAITING_MUTEX
                 /\ r.mWants[u] # NULL_MUTEX =>
                      /\ r.owner[r.mWants[u]] # u
                      /\ r.infiniteFlag[u] /\ r.ticksLeft[u] # 0
      <4>1. CASE u = t
        BY <1>2, <2>2, <3>1, <4>1
      <4>2. CASE u # t
        BY <1>2, <2>2, <2>3, <4>2 DEF Linked, SameLocks
      <4> QED BY <4>1, <4>2
    <3> QED BY <3>2 DEF Linked
  <2>5. InWait(r)
    BY <1>1, <1>3, <2>2 DEF InWait, MutexPlace, SameLocks
  <2> QED BY <1>2, <2>2, <2>3, <2>4, <2>5 DEF Parked, r
<1>5. CASE k.waitingFor[t] \notin 0 .. 3
  <2>1. r = k
    BY <1>1, <1>3, <1>5 DEF RemoveFromWaiting
  <2>2. k.waitingFor[t] = NOTHING
    BY <1>1, <1>5
  <2>3. Linked(k, {})
    <3>1. NOTHING # WAITING_MUTEX
      BY DEF NOTHING, WAITING_MUTEX
    <3> QED BY <2>2, <3>1 DEF Linked
  <2> HIDE DEF r
  <2> QED BY <2>1, <2>2, <2>3 DEF Parked, SameLocks, r
<1> QED BY <1>4, <1>5

(* A terminated thread gives up its place in the queue of its mutex.       *)
LEMMA StopWaitingPlaced ==
  ASSUME NEW k \in KernelState, NEW t \in App, InWait(k), Linked(k, {}),
         NEW m \in MutexID, k.mWants[t] = m
  PROVE  LET r == StopWaiting(k, m, t)
         IN  /\ InWait(r) /\ Linked(r, {t})
             /\ r.state = k.state /\ r.ready = k.ready /\ r.current = k.current
             /\ r.waitingFor = k.waitingFor /\ r.ticksLeft = k.ticksLeft
             /\ r.allThreads = k.allThreads /\ r.fault = k.fault
             /\ r.isLocked = k.isLocked /\ r.owner = k.owner
             /\ \A u \in Thread :
                  r.mWants[u] = IF u = t THEN NULL_MUTEX ELSE k.mWants[u]
<1> DEFINE r  == StopWaiting(k, m, t)
           qs == k.mWaiting[m]
           q  == [k.mWaiting EXCEPT ![m] = Without(qs, t)]
           w  == [k.mWants EXCEPT ![t] = NULL_MUTEX]
<1>1. /\ t \in Thread /\ Priorities = 0 .. 3 /\ NOTHING \notin 0 .. 3
      /\ qs \in [0 .. 3 -> Seq(App)] /\ Priority[t] \in 0 .. 3
      /\ Lines(qs, 0 .. 3, MutexPlace(k, m)) /\ MutexPlace(k, m)[t] = Priority[t]
  BY AppPrioritiesType DEF App, KernelState, InWait, MutexPlace
<1> HIDE DEF qs
<1>2. \A u \in Thread : w[u] = IF u = t THEN NULL_MUTEX ELSE k.mWants[u]
  BY <1>1 DEF KernelState
<1> HIDE DEF w
<1> DEFINE moved == [u \in Thread |-> IF w[u] = m THEN Priority[u] ELSE NOTHING]
<1>3. \A u \in Thread : moved[u] = IF u = t THEN NOTHING ELSE MutexPlace(k, m)[u]
  BY <1>2 DEF MutexPlace, MutexID, NULL_MUTEX
<1> HIDE DEF moved
<1>4. /\ Lines(Without(qs, t), 0 .. 3, moved)
      /\ \E i \in 0 .. 3 : Holds(qs[i], t)
  BY <1>1, <1>3, WithoutAll
<1>5. r = [k EXCEPT !.mWants = w, !.mWaiting = q]
  BY <1>1, <1>4 DEF StopWaiting, qs, w, KernelState
<1>6. /\ q[m] = Without(qs, t)
      /\ \A l \in MutexID : l # m => q[l] = k.mWaiting[l]
  BY DEF KernelState
<1> HIDE DEF q, r
<1>7. /\ r.mWants = w /\ r.mWaiting = q
      /\ r.state = k.state /\ r.ready = k.ready /\ r.current = k.current
      /\ r.waitingFor = k.waitingFor /\ r.ticksLeft = k.ticksLeft
      /\ r.infiniteFlag = k.infiniteFlag /\ r.waiting = k.waiting
      /\ r.allThreads = k.allThreads /\ r.fault = k.fault
      /\ r.isLocked = k.isLocked /\ r.owner = k.owner
  BY <1>5 DEF KernelState
<1>8. ASSUME NEW l \in MutexID PROVE Lines(r.mWaiting[l], Priorities, MutexPlace(r, l))
  <2>1. CASE l = m
    <3>1. MutexPlace(r, l) = moved
      BY <1>7, <2>1 DEF MutexPlace, moved
    <3> QED BY <1>1, <1>4, <1>6, <1>7, <2>1, <3>1
  <2>2. CASE l # m
    <3>1. \A u \in Thread : MutexPlace(r, l)[u] = MutexPlace(k, l)[u]
      BY <1>2, <1>7, <2>2 DEF MutexPlace, MutexID, NULL_MUTEX
    <3>2. Lines(k.mWaiting[l], Priorities, MutexPlace(k, l))
      BY DEF InWait
    <3> QED BY <1>6, <1>7, <2>2, <3>1, <3>2 DEF Lines
  <2> QED BY <2>1, <2>2
<1>9. InWait(r)
  BY <1>7, <1>8 DEF InWait
<1>10. Linked(r, {t})
  BY <1>2, <1>7 DEF Linked
<1> QED BY <1>2, <1>7, <1>9, <1>10 DEF r

-----------------------------------------------------------------------------
(* Letting a mutex go                                                      *)

(* What becomes of the threads when thread c lets a mutex of its own go.   *)
Passed(k, r, c) ==
  /\ r.allThreads = k.allThreads
  /\ \A u \in Thread : r.state[u] = "RUNNING" <=> k.state[u] = "RUNNING"
  /\ \A u \in Thread \ {c} : Undisturbed(k, r, u)
  /\ r.state[c] = k.state[c]
  /\ r.waitingFor[c] = k.waitingFor[c]
  /\ r.mWants[c] = k.mWants[c]

LEMMA PassedTransitive ==
  ASSUME NEW k, NEW r, NEW s, NEW c, Passed(k, r, c), Passed(r, s, c)
  PROVE  Passed(k, s, c)
BY UndisturbedTransitive DEF Passed

LEMMA UnlockEffect ==
  ASSUME NEW k \in KernelState, NEW m \in MutexID
  PROVE  LET r == Unlock(k, m)
         IN  /\ r.isLocked = [k.isLocked EXCEPT ![m] = FALSE]
             /\ r.owner = [k.owner EXCEPT ![m] = NoThread]
             /\ r.mWaiting = k.mWaiting /\ r.waiting = k.waiting
             /\ r.waitingFor = k.waitingFor /\ r.ticksLeft = k.ticksLeft
             /\ r.infiniteFlag = k.infiniteFlag /\ r.mWants = k.mWants
             /\ r.allThreads = k.allThreads /\ r.fault = k.fault
             /\ r.state = k.state /\ r.ready = k.ready /\ r.current = k.current
<1>1. Unlock(k, m) = [k EXCEPT !.isLocked = [k.isLocked EXCEPT ![m] = FALSE],
                               !.owner = [k.owner EXCEPT ![m] = NoThread]]
  BY DEF Unlock, KernelState
<1> QED BY <1>1 DEF KernelState

(* The mutex goes to the first of those that wait.                         *)
LEMMA GetNextOwnerEffect ==
  ASSUME NEW k \in KernelState, NEW m \in MutexID,
         ~ k.isLocked[m], ~ AllEmpty(k.mWaiting[m]),
         First(k.mWaiting[m]) \in App, First(k.mWaiting[m]) \in k.allThreads
  PROVE  LET t == First(k.mWaiting[m])
             r == GetNextOwner(k, m)
         IN  /\ r \in KernelState
             /\ r.mWants = [k.mWants EXCEPT ![t] = NULL_MUTEX]
             /\ r.isLocked = [k.isLocked EXCEPT ![m] = TRUE]
             /\ r.owner = [k.owner EXCEPT ![m] = t]
             /\ r.mWaiting = [k.mWaiting EXCEPT ![m] = Pop(@)]
             /\ r.waiting = k.waiting /\ r.waitingFor = k.waitingFor
             /\ r.ticksLeft = k.ticksLeft /\ r.infiniteFlag = k.infiniteFlag
             /\ r.allThreads = k.allThreads /\ r.fault = k.fault
             /\ r.state = k.state /\ r.ready = k.ready /\ r.current = k.current
<1> DEFINE t == First(k.mWaiting[m])
           r == GetNextOwner(k, m)
           h == [k.mHeld EXCEPT ![t] = Append(@, m)]
           w == [k.mWants EXCEPT ![t] = NULL_MUTEX]
           o == [k.owner EXCEPT ![m] = t]
           l == [k.isLocked EXCEPT ![m] = TRUE]
           q == [k.mWaiting EXCEPT ![m] = Pop(@)]
<1>1. NextOwner(k, m) = t /\ t # NoThread
  BY DEF NextOwner, App, Thread, NoThread
<1>2. Deref(k, t) = k
  BY DEF Deref
<1> HIDE DEF t
<1>3. r = [k EXCEPT !.mWaiting = q, !.mHeld = h, !.mWants = w, !.owner = o, !.isLocked = l]
  BY <1>1, <1>2 DEF GetNextOwner, KernelState
<1>4. r \in KernelState
  BY GetNextOwnerType
<1> HIDE DEF h, w, o, l, q, r
<1>5. /\ r.mWants = w /\ r.isLocked = l /\ r.owner = o /\ r.mWaiting = q
      /\ r.waiting = k.waiting /\ r.waitingFor = k.waitingFor
      /\ r.ticksLeft = k.ticksLeft /\ r.infiniteFlag = k.infiniteFlag
      /\ r.allThreads = k.allThreads /\ r.fault = k.fault
      /\ r.state = k.state /\ r.ready = k.ready /\ r.current = k.current
  BY <1>3 DEF KernelState
<1> QED BY <1>4, <1>5 DEF t, w, o, l, q, r

(***************************************************************************)
(* Thread c lets mutex m go.  D and X hold c when c is being terminated: D *)
(* while it is still in line, X until it has left its queues.              *)
(***************************************************************************)
LEMMA PassOnPlaced ==
  ASSUME NEW k \in KernelState, NEW m \in MutexID, NEW c \in Thread,
         k.isLocked[m], k.owner[m] = c,
         NEW X \in SUBSET {c}, NEW D \in SUBSET App, D \subseteq X,
         InLine(k, ReadyOnes(k) \union D), Parked(k), Standing(k, X)
  PROVE  LET r == PassOn(k, m)
         IN  /\ InLine(r, ReadyOnes(r) \union D)
             /\ Parked(r)
             /\ Standing(r, X)
             /\ Passed(k, r, c)
<1> DEFINE r  == PassOn(k, m)
           u0 == Unlock(k, m)
<1>1. /\ u0 \in KernelState
      /\ u0.isLocked = [k.isLocked EXCEPT ![m] = FALSE]
      /\ u0.owner = [k.owner EXCEPT ![m] = NoThread]
      /\ u0.mWaiting = k.mWaiting /\ u0.waiting = k.waiting
      /\ u0.waitingFor = k.waitingFor /\ u0.ticksLeft = k.ticksLeft
      /\ u0.infiniteFlag = k.infiniteFlag /\ u0.mWants = k.mWants
      /\ u0.allThreads = k.allThreads /\ u0.fault = k.fault
      /\ u0.state = k.state /\ u0.ready = k.ready /\ u0.current = k.current
  BY UnlockType, UnlockEffect
<1>2. /\ \A l \in MutexID : l # m => u0.isLocked[l] = k.isLocked[l] /\ u0.owner[l] = k.owner[l]
      /\ ~ u0.isLocked[m] /\ u0.owner[m] = NoThread
  BY <1>1 DEF KernelState
<1>3. \A u \in Thread : u # NoThread
  BY DEF Thread, NoThread
<1>4. CASE AllEmpty(k.mWaiting[m])
  <2>1. r = u0
    BY <1>1, <1>4 DEF NextOwner, PassOn
  <2> HIDE DEF u0, r
  <2>2. InLine(r, ReadyOnes(r) \union D)
    BY <1>1, <2>1 DEF InLine, ReadyOnes
  <2>3. Linked(r, {})
    BY <1>1, <1>2, <1>3, <2>1 DEF Parked, Linked, KernelState
  <2>4. Parked(r)
    BY <1>1, <2>1, <2>3 DEF Parked, InWait, MutexPlace
  <2>5. Standing(r, X)
    BY <1>1, <2>1 DEF Standing
  <2>6. Passed(k, r, c)
    <3>1. \A u \in Thread \ {c} : Undisturbed(k, r, u)
      BY <1>1, <1>2, <2>1 DEF Undisturbed
    <3> QED BY <1>1, <2>1, <3>1 DEF Passed
  <2> QED BY <2>2, <2>4, <2>5, <2>6 DEF r
<1>5. CASE ~ AllEmpty(k.mWaiting[m])
  <2> DEFINE qs == k.mWaiting[m]
             t  == First(qs)
             g  == GetNextOwner(u0, m)
             w  == RemoveFromWaiting(g, t)
             place == MutexPlace(k, m)
             moved == [u \in Thread |-> IF u = t THEN NOTHING ELSE place[u]]
  <2>1. /\ t \in App /\ place[t] \in Priorities
        /\ Lines(Pop(qs), Priorities, moved)
    <3>1. qs \in Queues(App) /\ Lines(qs, Priorities, place)
      BY DEF KernelState, Queues, Parked, InWait
    <3>2. Top(qs) \in Priorities
      BY <1>5, <3>1, TopType
    <3>3. App \in SUBSET Thread /\ NOTHING \notin Priorities /\ Priorities \in SUBSET Priorities
      BY AppPrioritiesType DEF App
    <3> HIDE DEF place
    <3>4. \A u \in Thread : moved[u] = IF u = t THEN NOTHING ELSE place[u]
      OBVIOUS
    <3> HIDE DEF moved, t, qs
    <3>5. ~ AllEmpty(qs)
      BY <1>5 DEF qs
    <3>6. \A u \in Thread : moved[u] = IF u = First(qs) THEN NOTHING ELSE place[u]
      BY <3>4 DEF t
    <3> QED BY <3>1, <3>2, <3>3, <3>5, <3>6, PopLines DEF t
  <2> HIDE DEF t
  <2>2. t \in Thread /\ k.mWants[t] = m /\ m # NULL_MUTEX
    BY <2>1, AppPrioritiesType DEF App, MutexPlace, MutexID, NULL_MUTEX
  <2>3. t # c /\ k.waitingFor[t] = WAITING_MUTEX
    BY <2>2 DEF Parked, Linked
  <2>4. k.state[t] = "WAITING" /\ t \in k.allThreads
    BY <2>2, <2>3 DEF Standing, WAITING_MUTEX, NOTHING
  <2> HIDE DEF qs
  <2>5. /\ g \in KernelState
        /\ g.mWants = [k.mWants EXCEPT ![t] = NULL_MUTEX]
        /\ g.isLocked = [u0.isLocked EXCEPT ![m] = TRUE]
        /\ g.owner = [u0.owner EXCEPT ![m] = t]
        /\ g.mWaiting = [k.mWaiting EXCEPT ![m] = Pop(qs)]
        /\ g.waiting = k.waiting /\ g.waitingFor = k.waitingFor
        /\ g.ticksLeft = k.ticksLeft /\ g.infiniteFlag = k.infiniteFlag
        /\ g.allThreads = k.allThreads /\ g.fault = k.fault
        /\ g.state = k.state /\ g.ready = k.ready /\ g.current = k.current
    <3>1. ~ u0.isLocked[m] /\ ~ AllEmpty(u0.mWaiting[m]) /\ First(u0.mWaiting[m]) = t
      BY <1>1, <1>2, <1>5 DEF t, qs
    <3> HIDE DEF u0
    <3> QED BY <1>1, <2>1, <2>4, <3>1, GetNextOwnerEffect DEF qs
  <2>6. /\ \A u \in Thread : g.mWants[u] = IF u = t THEN NULL_MUTEX ELSE k.mWants[u]
        /\ \A l \in MutexID : l # m => /\ g.isLocked[l] = k.isLocked[l]
                                      /\ g.owner[l] = k.owner[l]
                                      /\ g.mWaiting[l] = k.mWaiting[l]
        /\ g.isLocked[m] /\ g.owner[m] = t /\ g.mWaiting[m] = Pop(qs)
    BY <1>1, <1>2, <2>2, <2>5 DEF KernelState
  <2>7. NextOwner(u0, m) = t /\ t # NoThread
    BY <1>1, <1>2, <1>3, <1>5, <2>2 DEF NextOwner, t, qs
  <2>8. r = AddToReady(w, t)
    BY <2>7 DEF PassOn
  <2> HIDE DEF g, r, u0
  <2>9. InWait(g)
    <3>1. ASSUME NEW l \in MutexID PROVE Lines(g.mWaiting[l], Priorities, MutexPlace(g, l))
      <4>1. CASE l = m
        <5>1. MutexPlace(g, l) = moved
          BY <2>2, <2>6, <4>1 DEF MutexPlace
        <5> QED BY <2>1, <2>6, <4>1, <5>1
      <4>2. CASE l # m
        <5>1. \A u \in Thread : MutexPlace(g, l)[u] = MutexPlace(k, l)[u]
          BY <2>2, <2>6, <4>2 DEF MutexPlace, MutexID, NULL_MUTEX
        <5>2. Lines(k.mWaiting[l], Priorities, MutexPlace(k, l))
          BY DEF Parked, InWait
        <5> QED BY <2>6, <4>2, <5>1, <5>2 DEF Lines
      <4> QED BY <4>1, <4>2
    <3> QED BY <2>5, <3>1 DEF InWait, Parked
  <2>10. Linked(g, {t})
    <3>1. ASSUME NEW u \in Thread \ {t}
          PROVE  /\ g.mWants[u] # NULL_MUTEX <=> g.waitingFor[u] = WAITING_MUTEX
                 /\ g.mWants[u] # NULL_MUTEX =>
                      /\ g.owner[g.mWants[u]] # u
                      /\ g.infiniteFlag[u] /\ g.ticksLeft[u] # 0
      <4>1. /\ g.mWants[u] = k.mWants[u]
            /\ k.mWants[u] # NULL_MUTEX => k.mWants[u] \in MutexID
        BY <2>6 DEF KernelState
      <4> QED BY <2>5, <2>6, <4>1 DEF Parked, Linked
    <3> QED BY <3>1 DEF Linked
  <2>11. /\ Parked(w)
         /\ w.state = k.state /\ w.ready = k.ready /\ w.current = k.current
         /\ w.mWants = g.mWants /\ w.allThreads = k.allThreads /\ w.fault = k.fault
         /\ SameLocks(g, w)
         /\ \A u \in Thread :
              /\ w.waitingFor[u] = IF u = t THEN NOTHING ELSE k.waitingFor[u]
              /\ u # t => w.ticksLeft[u] = k.ticksLeft[u]
    <3>1. g.mWants[t] = NULL_MUTEX /\ g \in KernelState
      BY <2>2, <2>5, <2>6
    <3>2. /\ Parked(w)
          /\ w.state = g.state /\ w.ready = g.ready /\ w.current = g.current
          /\ w.mWants = g.mWants /\ w.allThreads = g.allThreads /\ w.fault = g.fault
          /\ SameLocks(g, w)
          /\ \A u \in Thread :
               /\ w.waitingFor[u] = IF u = t THEN NOTHING ELSE g.waitingFor[u]
               /\ u # t => w.ticksLeft[u] = g.ticksLeft[u]
      BY <2>1, <2>9, <2>10, <3>1, RemoveFromWaitingPlaced
    <3> HIDE DEF w
    <3> QED BY <2>5, <3>2
  <2>12. w \in KernelState
    BY <2>2, <2>5, RemoveFromWaitingType DEF SameReady
  <2> HIDE DEF w
  <2> DEFINE S == ReadyOnes(k) \union D
  <2>13. S \in SUBSET App /\ t \notin S /\ InLine(w, S) /\ ReadyOnes(w) = ReadyOnes(k)
    BY <2>3, <2>4, <2>11 DEF ReadyOnes, InLine
  <2>14. Standing(w, X \union {t}) /\ t \in w.allThreads /\ w.waitingFor[t] = NOTHING
    BY <2>2, <2>4, <2>11 DEF Standing
  <2> HIDE DEF S
  <2>15. /\ InLine(r, S \union {t}) /\ Parked(r) /\ Standing(r, X) /\ SameWaiting(w, r)
         /\ \A u \in Thread : r.state[u] = IF u = t THEN "READY" ELSE k.state[u]
    <3>1. Parked(w) /\ w \in KernelState /\ t \in App
      BY <2>1, <2>11, <2>12
    <3>2. S \in SUBSET App /\ t \notin S /\ InLine(w, S)
      BY <2>13
    <3> DEFINE a == AddToReady(w, t)
    <3>3. /\ InLine(a, S \union {t}) /\ Parked(a) /\ Standing(a, X) /\ SameWaiting(w, a)
          /\ \A u \in Thread : a.state[u] = IF u = t THEN "READY" ELSE w.state[u]
      BY <2>14, <3>1, <3>2, AddToReadyPlaced
    <3>4. a = r
      BY <2>8
    <3> HIDE DEF a
    <3> QED BY <2>11, <3>3, <3>4
  <2>16. S \union {t} = ReadyOnes(r) \union D
    BY <2>1, <2>15 DEF S, ReadyOnes, App
  <2>17. Passed(k, r, c)
    <3>1. ASSUME NEW u \in Thread \ {c} PROVE Undisturbed(k, r, u)
      <4>1. r.isLocked = g.isLocked /\ r.owner = g.owner
        BY <2>11, <2>15 DEF SameWaiting, SameLocks
      <4>2. \A l \in MutexID : k.isLocked[l] /\ k.owner[l] = u => r.isLocked[l] /\ r.owner[l] = u
        BY <2>6, <4>1
      <4>3. r.state[u] = "DEAD" <=> k.state[u] = "DEAD"
        BY <2>4, <2>15
      <4>4. CASE u = t
        <5>1. r.waitingFor[u] = NOTHING /\ r.mWants[u] = NULL_MUTEX
          BY <2>6, <2>11, <2>15, <4>4 DEF SameWaiting
        <5>2. k.mWants[u] = m /\ r.isLocked[m] /\ r.owner[m] = u
          BY <2>2, <2>6, <4>1, <4>4
        <5> QED BY <2>3, <4>2, <4>3, <4>4, <5>1, <5>2 DEF Undisturbed
      <4>5. CASE u # t
        <5>1. /\ r.waitingFor[u] = k.waitingFor[u] /\ r.ticksLeft[u] = k.ticksLeft[u]
              /\ r.mWants[u] = k.mWants[u]
          BY <2>6, <2>11, <2>15, <4>5 DEF SameWaiting
        <5> QED BY <4>2, <4>3, <5>1 DEF Undisturbed
      <4> QED BY <4>4, <4>5
    <3>2. r.allThreads = k.allThreads
      BY <2>11, <2>15 DEF SameWaiting
    <3>3. \A u \in Thread : r.state[u] = "RUNNING" <=> k.state[u] = "RUNNING"
      BY <2>4, <2>15
    <3>4. /\ r.state[c] = k.state[c] /\ r.waitingFor[c] = k.waitingFor[c]
          /\ r.mWants[c] = k.mWants[c]
      BY <2>3, <2>6, <2>11, <2>15 DEF SameWaiting
    <3> QED BY <3>1, <3>2, <3>3, <3>4 DEF Passed
  <2> QED BY <2>15, <2>16, <2>17 DEF r
<1> QED BY <1>4, <1>5

-----------------------------------------------------------------------------
(* A tick                                                                  *)

LEMMA DecrementEffect ==
  ASSUME NEW k \in KernelState, NEW t \in Thread
  PROVE  LET r == DecrementTicks(k, t)
         IN  /\ r \in KernelState
             /\ r.state = k.state /\ r.ready = k.ready /\ r.current = k.current
             /\ r.waiting = k.waiting /\ r.waitingFor = k.waitingFor
             /\ r.infiniteFlag = k.infiniteFlag /\ r.mWants = k.mWants
             /\ r.allThreads = k.allThreads /\ r.fault = k.fault
             /\ SameLocks(k, r)
             /\ \A u \in Thread : u # t => r.ticksLeft[u] = k.ticksLeft[u]
             /\ r.ticksLeft[t] >= k.ticksLeft[t] - 1
             /\ r.ticksLeft[t] = 0 => k.ticksLeft[t] <= 1
             /\ k.infiniteFlag[t] => r = k
<1> DEFINE n == IF k.ticksLeft[t] = 0 THEN TickMax ELSE k.ticksLeft[t] - 1
           f == [k.ticksLeft EXCEPT ![t] = n]
<1>1. k.ticksLeft \in [Thread -> Tick] /\ k.ticksLeft[t] \in Tick
  BY DEF KernelState
<1>2. n \in Tick /\ n >= k.ticksLeft[t] - 1 /\ (n = 0 => k.ticksLeft[t] <= 1)
  BY <1>1, BoundsAssumption DEF Tick
<1>3. CASE k.infiniteFlag[t]
  <2>1. DecrementTicks(k, t) = k
    BY <1>3 DEF DecrementTicks
  <2> QED BY <1>1, <2>1 DEF SameLocks, Tick
<1>4. CASE ~ k.infiniteFlag[t]
  <2>1. DecrementTicks(k, t) = [k EXCEPT !.ticksLeft = f]
    BY <1>4 DEF DecrementTicks, KernelState
  <2>2. f \in [Thread -> Tick] /\ f[t] = n /\ \A u \in Thread : u # t => f[u] = k.ticksLeft[u]
    BY <1>1, <1>2
  <2> HIDE DEF f
  <2>3. DecrementTicks(k, t) \in KernelState /\ DecrementTicks(k, t).ticksLeft = f
    BY <2>1, <2>2, ZenonT(60) DEF KernelState
  <2> QED BY <1>2, <1>4, <2>1, <2>2, <2>3 DEF KernelState, SameLocks
<1> QED BY <1>3, <1>4

(* The thread at place i of the queue of those that sleep.                 *)
LEMMA Sleeper ==
  ASSUME NEW k \in KernelState, Placed(k), NEW w \in Reasons,
         NEW i \in 1 .. Len(k.waiting[w])
  PROVE  LET t == k.waiting[w][i]
         IN  /\ t \in App /\ t \in Thread /\ k.waitingFor[t] = w
             /\ k.state[t] = "WAITING" /\ t \in k.allThreads
             /\ \A j \in 1 .. Len(k.waiting[w]) : k.waiting[w][j] = t => j = i
<1> DEFINE t == k.waiting[w][i]
<1>1. k.waiting[w] \in Seq(App)
  BY DEF KernelState
<1>2. t \in App /\ t \in Thread
  BY <1>1, ElementOfSeq DEF App
<1>3. Holds(k.waiting[w], t)
  BY DEF Holds
<1>4. Lines(k.waiting, Reasons, k.waitingFor)
  BY DEF Placed, Parked, InWait
<1>5. k.waitingFor[t] = w /\ NoRepeats(k.waiting[w], 1)
  <2> HIDE DEF t
  <2> QED BY <1>2, <1>3, <1>4 DEF Lines
<1>6. w # NOTHING
  BY AppPrioritiesType
<1>7. k.state[t] = "WAITING" /\ t \in k.allThreads
  <2> HIDE DEF t
  <2> QED BY <1>2, <1>5, <1>6 DEF Placed, Standing
<1>8. \A j \in 1 .. Len(k.waiting[w]) : k.waiting[w][j] = t => j = i
  BY <1>5 DEF NoRepeats
<1> QED BY <1>2, <1>5, <1>7, <1>8

(* A tick counts the time of a thread that sleeps.                         *)
LEMMA CountsDown ==
  ASSUME NEW k \in KernelState, Placed(k), NEW t \in Thread, k.waitingFor[t] = WAITING_SLEEP
  PROVE  Placed(DecrementTicks(k, t))
<1> DEFINE r == DecrementTicks(k, t)
<1>1. /\ r.state = k.state /\ r.ready = k.ready /\ r.current = k.current
      /\ r.waiting = k.waiting /\ r.waitingFor = k.waitingFor
      /\ r.infiniteFlag = k.infiniteFlag /\ r.mWants = k.mWants
      /\ r.allThreads = k.allThreads /\ r.fault = k.fault
      /\ SameLocks(k, r)
      /\ \A u \in Thread : u # t => r.ticksLeft[u] = k.ticksLeft[u]
  BY DecrementEffect
<1> HIDE DEF r
<1>2. WAITING_SLEEP # WAITING_MUTEX
  BY DEF WAITING_SLEEP, WAITING_MUTEX
<1>3. Linked(r, {})
  BY <1>1, <1>2 DEF Placed, Parked, Linked, SameLocks
<1>4. InWait(r)
  BY <1>1 DEF Placed, Parked, InWait, MutexPlace, SameLocks
<1>5. ReadyOnes(r) = ReadyOnes(k)
  BY <1>1 DEF ReadyOnes
<1>6. InLine(r, ReadyOnes(r)) /\ Standing(r, {}) /\ Running(r)
  BY <1>1, <1>5 DEF Placed, InLine, Standing, Running
<1> QED BY <1>3, <1>4, <1>6 DEF Placed, Parked, r

(* The entry of the queue is removed and its thread is ready.              *)
LEMMA SleepOver ==
  ASSUME NEW k \in KernelState, Placed(k), NEW i \in 1 .. Len(k.waiting[WAITING_SLEEP])
  PROVE  LET t == k.waiting[WAITING_SLEEP][i]
             r == [AddToReady(StopsWaiting(k, t), t)
                     EXCEPT !.mWants[t] = IF WAITING_SLEEP = WAITING_MUTEX
                                          THEN NULL_MUTEX ELSE @,
                            !.waiting[WAITING_SLEEP] = RemoveAt(@, i)]
         IN  /\ Placed(r)
             /\ SameDead(k, r)
             /\ r.mWants = k.mWants /\ r.allThreads = k.allThreads
             /\ r.waiting[WAITING_SLEEP] = RemoveAt(k.waiting[WAITING_SLEEP], i)
             /\ \A u \in Thread :
                  /\ r.waitingFor[u] = IF u = t THEN NOTHING ELSE k.waitingFor[u]
                  /\ u # t => r.ticksLeft[u] = k.ticksLeft[u]
<1> DEFINE w == WAITING_SLEEP
           t == k.waiting[w][i]
           q == RemoveAt(k.waiting[w], i)
           s == StopsWaiting(k, t)
           a == AddToReady(s, t)
           r == [a EXCEPT !.mWants[t] = IF WAITING_SLEEP = WAITING_MUTEX
                                        THEN NULL_MUTEX ELSE @,
                          !.waiting[w] = RemoveAt(@, i)]
<1>1. w \in Reasons /\ w # WAITING_MUTEX /\ w # NOTHING
  BY DEF WAITING_SLEEP, WAITING_MUTEX, Reasons, WAITING_IO, WAITING_MEMORY, NOTHING
<1>2. /\ t \in App /\ t \in Thread /\ k.waitingFor[t] = w
      /\ k.state[t] = "WAITING" /\ t \in k.allThreads
  BY <1>1, Sleeper
<1>3. /\ NoRepeats(q, 1)
      /\ \A u : Holds(q, u) <=> Holds(k.waiting[w], u) /\ u # t
  <2>1. k.waiting[w] \in Seq(App) /\ NoRepeats(k.waiting[w], 1)
    BY <1>1 DEF KernelState, Placed, Parked, InWait, Lines
  <2> QED BY <2>1, RemoveAtLine
<1> HIDE DEF t, q, w
<1>4. /\ s \in KernelState
      /\ s.state = k.state /\ s.ready = k.ready /\ s.current = k.current
      /\ s.waiting = k.waiting /\ s.mWants = k.mWants
      /\ s.allThreads = k.allThreads /\ s.fault = k.fault
      /\ SameLocks(k, s)
      /\ \A u \in Thread : s.waitingFor[u] = IF u = t THEN NOTHING ELSE k.waitingFor[u]
      /\ \A u \in Thread :
           u # t => s.ticksLeft[u] = k.ticksLeft[u] /\ s.infiniteFlag[u] = k.infiniteFlag[u]
  <2>1. s \in KernelState
    BY <1>2, StopsWaitingType DEF SameReady
  <2> QED BY <1>2, <2>1 DEF StopsWaiting, KernelState, SameLocks
<1> HIDE DEF s
<1>5. /\ a.state = [s.state EXCEPT ![t] = "READY"] /\ a.current = s.current
      /\ SameWaiting(s, a) /\ a \in KernelState
      /\ InLine(a, ReadyOnes(k) \union {t})
  <2>1. t \in s.allThreads
    BY <1>2, <1>4
  <2>2. ReadyOnes(k) \in SUBSET App /\ t \notin ReadyOnes(k) /\ InLine(s, ReadyOnes(k))
    BY <1>2, <1>4 DEF ReadyOnes, Placed, InLine
  <2>3. InLine(a, ReadyOnes(k) \union ({t} \intersect App))
    BY <1>2, <1>4, <2>1, <2>2, AddToReadyInLine
  <2>4. {t} \intersect App = {t}
    BY <1>2
  <2> QED BY <1>2, <1>4, <2>1, <2>3, <2>4, AddToReadyEffect, AddToReadyType
<1> HIDE DEF a
<1>6. /\ a.waiting = k.waiting /\ a.waitingFor = s.waitingFor
      /\ a.ticksLeft = s.ticksLeft /\ a.infiniteFlag = s.infiniteFlag
      /\ a.mWants = k.mWants /\ a.allThreads = k.allThreads /\ a.fault = k.fault
      /\ SameLocks(k, a)
      /\ \A u \in Thread : a.state[u] = IF u = t THEN "READY" ELSE k.state[u]
  BY <1>2, <1>4, <1>5 DEF SameWaiting, SameLocks, KernelState
<1>7. r = [a EXCEPT !.waiting = [k.waiting EXCEPT ![w] = q]]
  <2> DEFINE m == [a.mWants EXCEPT ![t] = IF WAITING_SLEEP = WAITING_MUTEX
                                          THEN NULL_MUTEX ELSE @]
             v == [a.waiting EXCEPT ![w] = RemoveAt(@, i)]
  <2>1. a.mWants \in [Thread -> MutexID \union {NULL_MUTEX}]
    BY <1>5 DEF KernelState
  <2>2. m = a.mWants
    BY <1>1, <2>1 DEF w
  <2>3. v = [k.waiting EXCEPT ![w] = q]
    BY <1>6 DEF q
  <2>4. r = [a EXCEPT !.mWants = m, !.waiting = v]
    BY <1>5 DEF KernelState
  <2> HIDE DEF m, v, r
  <2> QED BY <1>5, <2>2, <2>3, <2>4 DEF KernelState
<1> HIDE DEF r
<1>8. /\ r.waiting = [k.waiting EXCEPT ![w] = q] /\ r.waitingFor = s.waitingFor
      /\ r.ticksLeft = s.ticksLeft /\ r.infiniteFlag = s.infiniteFlag
      /\ r.mWants = k.mWants /\ r.allThreads = k.allThreads /\ r.fault = k.fault
      /\ r.state = a.state /\ r.ready = a.ready /\ r.current = k.current
      /\ SameLocks(k, r)
  BY <1>4, <1>5, <1>6, <1>7 DEF KernelState, SameLocks
<1>9. InLine(r, ReadyOnes(r))
  <2>1. ReadyOnes(r) = ReadyOnes(k) \union {t}
    BY <1>2, <1>6, <1>8 DEF ReadyOnes, App
  <2> QED BY <1>5, <1>8, <2>1 DEF InLine
<1>10. InWait(r)
  <2>1. r.waiting[w] = q /\ \A j \in Reasons : j # w => r.waiting[j] = k.waiting[j]
    BY <1>1, <1>8 DEF KernelState
  <2>2. Lines(k.waiting, Reasons, k.waitingFor)
    BY DEF Placed, Parked, InWait
  <2>3. NOTHING \notin Reasons
    BY AppPrioritiesType
  <2>4. Lines(r.waiting, Reasons, r.waitingFor)
    <3>1. ASSUME NEW j \in Reasons
          PROVE  /\ NoRepeats(r.waiting[j], 1)
                 /\ \A u \in Thread : Holds(r.waiting[j], u) <=> u \in App /\ r.waitingFor[u] = j
      <4>1. /\ NoRepeats(k.waiting[j], 1)
            /\ \A u \in Thread : Holds(k.waiting[j], u) <=> u \in App /\ k.waitingFor[u] = j
        BY <2>2 DEF Lines
      <4>2. CASE j = w
        BY <1>3, <1>4, <1>8, <2>1, <2>3, <4>1, <4>2
      <4>3. CASE j # w
        BY <1>2, <1>4, <1>8, <2>1, <2>3, <4>1, <4>3
      <4> QED BY <4>2, <4>3
    <3> QED BY <3>1 DEF Lines
  <2> QED BY <1>8, <2>4 DEF Placed, Parked, InWait, MutexPlace, SameLocks
<1>11. Linked(r, {})
  <2>1. k.mWants[t] = NULL_MUTEX /\ NOTHING # WAITING_MUTEX
    BY <1>1, <1>2 DEF Placed, Parked, Linked, NOTHING, WAITING_MUTEX
  <2> QED BY <1>4, <1>8, <2>1 DEF Placed, Parked, Linked, SameLocks
<1>12. Standing(r, {})
  <2>1. \A u \in Thread : r.state[u] = "WAITING" <=> r.waitingFor[u] # NOTHING
    BY <1>4, <1>6, <1>8 DEF Placed, Standing
  <2>2. \A u \in Thread : r.state[u] # "DEAD" => u \in r.allThreads
    BY <1>2, <1>6, <1>8 DEF Placed, Standing
  <2> QED BY <1>2, <1>6, <1>8, <2>1, <2>2, SystemThreads DEF Placed, Standing, App
<1>13. Running(r)
  BY <1>2, <1>6, <1>8 DEF Placed, Running
<1>14. SameDead(k, r)
  BY <1>2, <1>6, <1>8 DEF SameDead
<1>15. /\ r.waiting[w] = q
       /\ \A u \in Thread :
            /\ r.waitingFor[u] = IF u = t THEN NOTHING ELSE k.waitingFor[u]
            /\ u # t => r.ticksLeft[u] = k.ticksLeft[u]
  BY <1>1, <1>4, <1>8 DEF KernelState
<1>16. /\ Placed(r) /\ SameDead(k, r)
       /\ r.mWants = k.mWants /\ r.allThreads = k.allThreads
  BY <1>8, <1>9, <1>10, <1>11, <1>12, <1>13, <1>14 DEF Placed, Parked
<1> QED BY <1>15, <1>16 DEF r, a, s, t, q, w

(***************************************************************************)
(* What a tick does to thread u: one tick of the time it sleeps passes, at *)
(* most; it is woken only when no more than one was left.                  *)
(***************************************************************************)
Ticked(k, r, u) ==
  /\ r.state[u] = "DEAD" <=> k.state[u] = "DEAD"
  /\ r.mWants[u] = k.mWants[u]
  /\ \/ r.waitingFor[u] = k.waitingFor[u]
     \/ /\ k.waitingFor[u] = WAITING_SLEEP /\ r.waitingFor[u] = NOTHING
        /\ k.ticksLeft[u] <= 1
  /\ r.waitingFor[u] = WAITING_SLEEP => r.ticksLeft[u] >= k.ticksLeft[u] - 1

(* The loop over those that sleep, begun in k.  The entries it has not     *)
(* visited have all their time left.                                       *)
Awaking(k) ==
  {x \in Visits(k, WAITING_SLEEP) :
     /\ Placed(x.k) /\ x.k.allThreads = k.allThreads
     /\ \A u \in Thread : Ticked(k, x.k, u)
     /\ \A j \in x.i .. Len(x.k.waiting[WAITING_SLEEP]) :
          x.k.ticksLeft[x.k.waiting[WAITING_SLEEP][j]]
            = k.ticksLeft[x.k.waiting[WAITING_SLEEP][j]]}

LEMMA SleepVisit ==
  ASSUME NEW k \in KernelState, NEW x \in Awaking(k)
  PROVE  VisitWaiting(x, WAITING_SLEEP) \in Awaking(k)
<1> DEFINE w == WAITING_SLEEP
           g == x.k
           i == x.i
           t == g.waiting[w][i]
           d == DecrementTicks(g, t)
           e == [AddToReady(StopsWaiting(d, t), t)
                     EXCEPT !.mWants[t] = IF WAITING_SLEEP = WAITING_MUTEX
                                          THEN NULL_MUTEX ELSE @,
                            !.waiting[WAITING_SLEEP] = RemoveAt(@, i)]
           y == VisitWaiting(x, w)
<1>1. /\ w \in Reasons /\ w # NOTHING /\ w # WAITING_MUTEX
  BY DEF WAITING_SLEEP, WAITING_MUTEX, Reasons, WAITING_IO, WAITING_MEMORY, NOTHING
<1>2. /\ x \in Visits(k, w) /\ g \in KernelState /\ i \in Nat \ {0} /\ x.counter \in Nat
      /\ i - 1 + x.counter = Len(g.waiting[w])
      /\ Placed(g) /\ g.allThreads = k.allThreads
      /\ \A u \in Thread : Ticked(k, g, u)
      /\ \A j \in i .. Len(g.waiting[w]) :
           g.ticksLeft[g.waiting[w][j]] = k.ticksLeft[g.waiting[w][j]]
  BY DEF Awaking, Visits
<1>3. y \in Visits(k, w)
  BY <1>1, <1>2, VisitWaitingType
<1> HIDE DEF g, i, w, d, e, y
<1>4. CASE x.counter = 0
  <2>1. y = x
    BY <1>4 DEF VisitWaiting, y
  <2> QED BY <2>1 DEF y, w
<1>5. CASE x.counter # 0
  <2>1. Len(g.waiting[w]) \in Nat /\ g.waiting[w] \in Seq(App)
    BY <1>1, <1>2, LenProperties DEF KernelState
  <2>2. i \in 1 .. Len(g.waiting[w])
    BY <1>2, <1>5, <2>1
  <2>3. /\ t \in App /\ t \in Thread /\ g.waitingFor[t] = w
        /\ g.state[t] = "WAITING" /\ t \in g.allThreads
        /\ \A j \in 1 .. Len(g.waiting[w]) : g.waiting[w][j] = t => j = i
    BY <1>1, <1>2, <2>2, Sleeper
  <2>4. g.ticksLeft[t] = k.ticksLeft[t]
    BY <1>2, <2>1, <2>2
  <2> HIDE DEF t
  <2>5. /\ d \in KernelState
        /\ d.state = g.state /\ d.ready = g.ready /\ d.current = g.current
        /\ d.waiting = g.waiting /\ d.waitingFor = g.waitingFor
        /\ d.mWants = g.mWants /\ d.allThreads = g.allThreads
        /\ \A u \in Thread : u # t => d.ticksLeft[u] = g.ticksLeft[u]
        /\ d.ticksLeft[t] >= g.ticksLeft[t] - 1
        /\ d.ticksLeft[t] = 0 => g.ticksLeft[t] <= 1
    BY <1>2, <2>3, DecrementEffect DEF d
  <2>6. Placed(d)
    BY <1>2, <2>3, CountsDown DEF d, w
  <2>7. Deref(g, t) = g
    BY <2>3 DEF Deref
  <2>8. y = IF d.ticksLeft[t] = 0
            THEN [k |-> e, i |-> i, counter |-> x.counter - 1]
            ELSE [k |-> d, i |-> i + 1, counter |-> x.counter - 1]
    BY <1>1, <1>5, <2>7 DEF VisitWaiting, DoneWaiting, t, y, e, d, g, i, w
  <2>9. ASSUME NEW u \in Thread PROVE Ticked(k, d, u)
    <3>1. Ticked(k, g, u)
      BY <1>2
    <3>2. CASE u = t
      BY <2>4, <2>5, <3>1, <3>2 DEF Ticked
    <3>3. CASE u # t
      BY <2>5, <3>1, <3>3 DEF Ticked
    <3> QED BY <3>2, <3>3
  <2>10. CASE d.ticksLeft[t] = 0
    <3>1. t = d.waiting[WAITING_SLEEP][i] /\ i \in 1 .. Len(d.waiting[WAITING_SLEEP])
      BY <2>2, <2>5 DEF t, w
    <3>2. /\ Placed(e)
          /\ SameDead(d, e)
          /\ e.mWants = d.mWants /\ e.allThreads = d.allThreads
          /\ e.waiting[w] = RemoveAt(g.waiting[w], i)
          /\ \A u \in Thread :
               /\ e.waitingFor[u] = IF u = t THEN NOTHING ELSE d.waitingFor[u]
               /\ u # t => e.ticksLeft[u] = d.ticksLeft[u]
      <4>1. d.waiting[WAITING_SLEEP] = g.waiting[w]
        BY <2>5 DEF w
      <4> DEFINE v == d.waiting[WAITING_SLEEP][i]
                 f == [AddToReady(StopsWaiting(d, v), v)
                         EXCEPT !.mWants[v] = IF WAITING_SLEEP = WAITING_MUTEX
                                              THEN NULL_MUTEX ELSE @,
                                !.waiting[WAITING_SLEEP] = RemoveAt(@, i)]
      <4>2. /\ Placed(f)
            /\ SameDead(d, f)
            /\ f.mWants = d.mWants /\ f.allThreads = d.allThreads
            /\ f.waiting[WAITING_SLEEP] = RemoveAt(d.waiting[WAITING_SLEEP], i)
            /\ \A u \in Thread :
                 /\ f.waitingFor[u] = IF u = v THEN NOTHING ELSE d.waitingFor[u]
                 /\ u # v => f.ticksLeft[u] = d.ticksLeft[u]
        BY <2>5, <2>6, <3>1, SleepOver
      <4>3. v = t
        BY <3>1
      <4> HIDE DEF v
      <4>4. f = e
        BY <4>3 DEF e
      <4> HIDE DEF f
      <4> QED BY <4>1, <4>2, <4>3, <4>4 DEF w
    <3>3. y.k = e /\ y.i = i
      BY <2>8, <2>10
    <3>4. ASSUME NEW u \in Thread PROVE Ticked(k, e, u)
      <4>1. Ticked(k, d, u)
        BY <2>9
      <4>2. CASE u = t
        <5>1. k.waitingFor[t] = w
          <6>1. g.waitingFor[t] = k.waitingFor[t] \/ g.waitingFor[t] = NOTHING
            BY <1>2, <2>3 DEF Ticked
          <6> QED BY <1>1, <2>3, <6>1
        <5> QED BY <1>1, <2>4, <2>5, <2>10, <3>2, <4>1, <4>2, <5>1 DEF Ticked, SameDead, w
      <4>3. CASE u # t
        BY <3>2, <4>1, <4>3 DEF Ticked, SameDead
      <4> QED BY <4>2, <4>3
    <3>5. ASSUME NEW j \in i .. Len(e.waiting[w])
          PROVE  e.ticksLeft[e.waiting[w][j]] = k.ticksLeft[e.waiting[w][j]]
      <4>1. /\ Len(e.waiting[w]) = Len(g.waiting[w]) - 1
            /\ e.waiting[w][j] = g.waiting[w][j + 1]
        <5>1. /\ Len(RemoveAt(g.waiting[w], i)) = Len(g.waiting[w]) - 1
              /\ \A l \in 1 .. Len(g.waiting[w]) - 1 :
                   RemoveAt(g.waiting[w], i)[l]
                     = IF l < i THEN g.waiting[w][l] ELSE g.waiting[w][l + 1]
          BY <2>1, <2>2, RemoveAtEntries
        <5> QED BY <1>2, <2>1, <2>2, <3>2, <5>1
      <4>2. j + 1 \in i .. Len(g.waiting[w]) /\ j + 1 # i /\ j + 1 \in 1 .. Len(g.waiting[w])
        BY <1>2, <2>1, <4>1
      <4>3. g.waiting[w][j + 1] # t /\ g.waiting[w][j + 1] \in Thread
        BY <2>1, <2>3, <4>2, ElementOfSeq DEF App
      <4> QED BY <1>2, <2>5, <3>2, <4>1, <4>2, <4>3
    <3> QED BY <1>2, <1>3, <2>5, <3>2, <3>3, <3>4, <3>5 DEF Awaking, y, w
  <2>11. CASE d.ticksLeft[t] # 0
    <3>1. y.k = d /\ y.i = i + 1
      BY <2>8, <2>11
    <3>2. ASSUME NEW j \in i + 1 .. Len(d.waiting[w])
          PROVE  d.ticksLeft[d.waiting[w][j]] = k.ticksLeft[d.waiting[w][j]]
      <4>1. j \in i .. Len(g.waiting[w]) /\ j # i /\ j \in 1 .. Len(g.waiting[w])
        BY <1>2, <2>1, <2>5
      <4>2. g.waiting[w][j] # t /\ g.waiting[w][j] \in Thread
        BY <2>1, <2>3, <4>1, ElementOfSeq DEF App
      <4> QED BY <1>2, <2>5, <4>1, <4>2
    <3> QED BY <1>2, <1>3, <2>5, <2>6, <2>9, <3>1, <3>2 DEF Awaking, y, w
  <2> QED BY <2>10, <2>11
<1> QED BY <1>4, <1>5

LEMMA SleepLoop ==
  ASSUME NEW k \in KernelState, ReadySorted(k), Placed(k)
  PROVE  LET r == ProcessWaiting(k, WAITING_SLEEP)
         IN  /\ Placed(r) /\ TickKeeps(k, r) /\ r.allThreads = k.allThreads
             /\ \A u \in Thread : Ticked(k, r, u)
<1> DEFINE first == [k |-> k, i |-> 1, counter |-> Len(k.waiting[WAITING_SLEEP])]
<1>1. WAITING_SLEEP \in Reasons
  BY DEF WAITING_SLEEP, Reasons, WAITING_IO, WAITING_MEMORY
<1>2. first \in Visits(k, WAITING_SLEEP)
  BY <1>1, FirstVisit
<1>3. \A u \in Thread : Ticked(k, k, u)
  <2>1. \A u \in Thread : k.ticksLeft[u] \in Nat
    BY BoundsAssumption DEF KernelState, Tick
  <2> QED BY <2>1 DEF Ticked
<1>4. first \in Awaking(k)
  BY <1>2, <1>3 DEF Awaking
<1>5. PICK x \in Awaking(k) : ProcessWaiting(k, WAITING_SLEEP) = x.k
  BY <1>1, <1>4, SleepVisit, ProcessWaitingLoop
<1> QED BY <1>5 DEF Awaking, Visits

(***************************************************************************)
(* No thread's wait for a mutex is over: none of them owns what it wants,  *)
(* and time does not pass for them.                                        *)
(***************************************************************************)
LEMMA MutexLoop ==
  ASSUME NEW k \in KernelState, ReadySorted(k), Placed(k), LocksOK(k)
  PROVE  ProcessWaiting(k, WAITING_MUTEX) = k
<1> DEFINE w == WAITING_MUTEX
           X == {x \in Visits(k, w) : x.k = k}
<1>1. w \in Reasons
  BY DEF WAITING_MUTEX, Reasons, WAITING_IO, WAITING_MEMORY
<1>2. [k |-> k, i |-> 1, counter |-> Len(k.waiting[w])] \in X
  BY <1>1, FirstVisit
<1>3. ASSUME NEW x \in X PROVE VisitWaiting(x, w) \in X
  <2> DEFINE i == x.i
             t == k.waiting[w][i]
             y == VisitWaiting(x, w)
  <2>1. /\ x \in Visits(k, w) /\ x.k = k /\ i \in Nat \ {0} /\ x.counter \in Nat
        /\ i - 1 + x.counter = Len(k.waiting[w])
    BY DEF Visits
  <2>2. y \in Visits(k, w)
    BY <1>1, <2>1, VisitWaitingType
  <2> HIDE DEF w, i, y
  <2>3. CASE x.counter = 0
    BY <2>1, <2>2, <2>3 DEF VisitWaiting, y
  <2>4. CASE x.counter # 0
    <3>1. Len(k.waiting[w]) \in Nat
      BY <1>1, LenProperties DEF KernelState
    <3>2. i \in 1 .. Len(k.waiting[w])
      BY <2>1, <2>4, <3>1
    <3>3. t \in Thread /\ k.waitingFor[t] = w /\ t \in k.allThreads
      BY <1>1, <3>2, Sleeper
    <3> HIDE DEF t
    <3>4. /\ k.mWants[t] # NULL_MUTEX /\ k.owner[k.mWants[t]] # t
          /\ k.infiniteFlag[t] /\ k.ticksLeft[t] # 0
      BY <3>3 DEF Placed, Parked, Linked, w
    <3>5. Deref(k, t) = k /\ DecrementTicks(k, t) = k
      BY <3>3, <3>4 DEF Deref, DecrementTicks
    <3>6. ~ HasMutex(k, t)
      <4>1. k.mWants[t] \in MutexID /\ \A m \in MutexID : m # NULL_MUTEX
        BY <3>3, <3>4 DEF KernelState, MutexID, NULL_MUTEX
      <4>2. ~ HoldsFrom(k.mHeld[t], 1, k.mWants[t])
        BY <3>3, <3>4, <4>1 DEF LocksOK, Agree, Start
      <4> QED BY <4>2 DEF HasMutex, HoldsFrom
    <3>7. y = [k |-> k, i |-> i + 1, counter |-> x.counter - 1]
      BY <2>1, <2>4, <3>4, <3>5, <3>6 DEF VisitWaiting, DoneWaiting, y, t, i, w
    <3> QED BY <2>2, <3>7 DEF y
  <2> QED BY <2>3, <2>4
<1>4. PICK x \in X : ProcessWaiting(k, w) = x.k
  <2> HIDE DEF w, X
  <2> QED BY <1>1, <1>2, <1>3, ProcessWaitingLoop
<1> QED BY <1>4

LEMMA TickPlaced ==
  ASSUME NEW k, Good(k), Placed(k)
  PROVE  /\ Placed(TickOf(k))
         /\ SameLocks(k, TickOf(k))
         /\ \A u \in Thread : Ticked(k, TickOf(k), u)
<1> DEFINE s == ProcessWaiting(k, WAITING_SLEEP)
<1>1. /\ k \in KernelState /\ ReadySorted(k) /\ IdleReady(k) /\ LocksOK(k)
  BY GoodType
<1>2. /\ Placed(s) /\ TickKeeps(k, s) /\ \A u \in Thread : Ticked(k, s, u)
  BY <1>1, SleepLoop
<1> HIDE DEF s
<1>3. /\ s \in KernelState /\ ReadySorted(s) /\ SameLocks(k, s) /\ LocksOK(s)
      /\ IdleReady(s)
  BY <1>1, <1>2, LocksOKSame DEF TickKeeps, IdleReady, IdleCount
<1>4. ProcessAllWaiting(k) = s
  BY <1>2, <1>3, MutexLoop DEF ProcessAllWaiting, s
<1>5. Placed(Yield(s)) /\ SameWaiting(s, Yield(s)) /\ SameDead(s, Yield(s))
  BY <1>2, <1>3, YieldPlaced
<1>6. \A u \in Thread : Ticked(k, Yield(s), u)
  BY <1>2, <1>5 DEF Ticked, SameWaiting, SameDead
<1>7. SameLocks(k, Yield(s))
  BY <1>3, <1>5 DEF SameWaiting, SameLocks
<1> QED BY <1>4, <1>5, <1>6, <1>7 DEF TickOf

-----------------------------------------------------------------------------
(* VMThreadTerminate                                                       *)

(* All mutexes of thread t are passed on.                                  *)
LEMMA ReleaseAllPlaced ==
  ASSUME NEW k \in KernelState, ReadySorted(k), LocksOK(k),
         NEW t \in Thread, NEW D \in SUBSET App, D \subseteq {t},
         InLine(k, ReadyOnes(k) \union D), Parked(k), Standing(k, {t})
  PROVE  LET r == ReleaseAll(k, t).k
         IN  /\ InLine(r, ReadyOnes(r) \union D)
             /\ Parked(r)
             /\ Standing(r, {t})
             /\ Passed(k, r, t)
<1> DEFINE OK(r) == /\ InLine(r, ReadyOnes(r) \union D)
                    /\ Parked(r)
                    /\ Standing(r, {t})
                    /\ Passed(k, r, t)
           X == {x \in Releasing(k, t) : OK(x.k)}
           last == RoundsLeft(k, t)
           S == [n \in 0 .. last |-> X]
           first == [k |-> k, i |-> 1, preempt |-> FALSE]
<1>1. OK(k)
  <2>1. \A u \in Thread : Undisturbed(k, k, u)
    BY DEF Undisturbed
  <2> QED BY <2>1 DEF Passed
<1>2. first \in Releasing(k, t)
  BY FirstRelease DEF Bounded
<1>3. first \in X
  BY <1>1, <1>2
<1>4. ASSUME NEW x \in X PROVE ReleaseNext(x, t) \in X
  <2> DEFINE y == ReleaseNext(x, t)
             m == x.k.mHeld[t][x.i]
             r == PassOn(x.k, m)
  <2>1. /\ x \in Releasing(k, t) /\ x.k \in KernelState /\ OK(x.k)
        /\ x.i \in Nat /\ x.i \in 1 .. Len(x.k.mHeld[t]) + 1
        /\ Agree(x.k, t, x.i, NULL_MUTEX) /\ Waited(x.k, NULL_MUTEX)
    BY DEF Releasing
  <2>2. y \in Releasing(k, t)
    BY <2>1, ReleaseNextType
  <2>3. CASE x.i > Len(x.k.mHeld[t])
    BY <2>3 DEF ReleaseNext
  <2>4. CASE ~ x.i > Len(x.k.mHeld[t])
    <3>1. x.i \in 1 .. Len(x.k.mHeld[t])
      BY <2>1, <2>4, LastType
    <3>2. m \in MutexID /\ m \in x.k.mutexes
      BY <2>1, <3>1, AgreeNext
    <3>3. y.k = r
      BY <2>4, <3>2 DEF ReleaseNext
    <3>4. x.k.isLocked[m] /\ x.k.owner[m] = t
      <4>1. HoldsFrom(x.k.mHeld[t], Start(t, t, x.i), m)
        BY <3>1 DEF HoldsFrom, Start
      <4> HIDE DEF m
      <4> QED BY <2>1, <3>2, <4>1 DEF Agree
    <3> HIDE DEF m
    <3>5. {t} \in SUBSET {t} /\ D \subseteq {t} /\ D \in SUBSET App
      OBVIOUS
    <3>6. /\ InLine(r, ReadyOnes(r) \union D) /\ Parked(r) /\ Standing(r, {t})
          /\ Passed(x.k, r, t)
      <4>1. /\ InLine(x.k, ReadyOnes(x.k) \union D) /\ Parked(x.k) /\ Standing(x.k, {t})
        BY <2>1
      <4> HIDE DEF OK
      <4> QED BY <2>1, <3>2, <3>4, <3>5, <4>1, PassOnPlaced
    <3> HIDE DEF r
    <3>7. Passed(k, r, t)
      BY <2>1, <3>6, PassedTransitive
    <3> QED BY <2>2, <3>3, <3>6, <3>7
  <2> QED BY <2>3, <2>4
<1> HIDE DEF first, OK
<1>5. last \in Nat
  BY LastType
<1> HIDE DEF last, X
<1>6. first \in S[0]
  BY <1>3, <1>5
<1>7. \A n \in 1 .. last : \A x \in Releasing(k, t) :
        x \in S[n - 1] => ReleaseNext(x, t) \in S[n]
  <2>1. \A n \in 1 .. last : n \in 0 .. last /\ n - 1 \in 0 .. last
    BY <1>5
  <2> QED BY <1>4, <2>1
<1>8. S[last] = X
  BY <1>5
<1> HIDE DEF S
<1>9. PICK x \in Releasing(k, t) :
        x \in S[last] /\ ReleaseAll(k, t) = [x EXCEPT !.k.mHeld[t] = <<>>]
  BY <1>2, <1>6, <1>7, ReleaseAllLoop DEF first, last
<1> DEFINE h == [x.k.mHeld EXCEPT ![t] = <<>>]
           r == [x.k EXCEPT !.mHeld = h]
<1>10. /\ x = [k |-> x.k, i |-> x.i, preempt |-> x.preempt]
       /\ x.k \in KernelState /\ OK(x.k)
  BY <1>8, <1>9 DEF Releasing, X
<1>11. ReleaseAll(k, t).k = r
  BY <1>9, <1>10 DEF KernelState
<1> HIDE DEF h
<1>12. /\ r.state = x.k.state /\ r.ready = x.k.ready
       /\ r.waiting = x.k.waiting /\ r.waitingFor = x.k.waitingFor
       /\ r.ticksLeft = x.k.ticksLeft /\ r.infiniteFlag = x.k.infiniteFlag
       /\ r.mWants = x.k.mWants /\ r.allThreads = x.k.allThreads /\ r.fault = x.k.fault
       /\ r.isLocked = x.k.isLocked /\ r.owner = x.k.owner /\ r.mWaiting = x.k.mWaiting
  BY <1>10 DEF KernelState
<1> HIDE DEF r
<1>13. ReadyOnes(r) = ReadyOnes(x.k)
  BY <1>12 DEF ReadyOnes
<1>14. InLine(r, ReadyOnes(r) \union D)
  BY <1>10, <1>12, <1>13 DEF OK, InLine
<1>15. Parked(r)
  BY <1>10, <1>12 DEF OK, Parked, InWait, Linked, MutexPlace
<1>16. Standing(r, {t})
  BY <1>10, <1>12 DEF OK, Standing
<1>17. Passed(k, r, t)
  BY <1>10, <1>12 DEF OK, Passed, Undisturbed
<1> QED BY <1>11, <1>14, <1>15, <1>16, <1>17

(* A terminated thread that was ready leaves the line.                     *)
LEMMA LeaveReadyPlaced ==
  ASSUME NEW k \in KernelState, ReadySorted(k), NEW t \in App, t \notin ReadyOnes(k),
         InLine(k, ReadyOnes(k) \union {t})
  PROVE  LET r == RemoveFromReady(k, t)
         IN  /\ InLine(r, ReadyOnes(k))
             /\ r.state = k.state /\ r.current = k.current /\ SameWaiting(k, r)
<1> DEFINE r  == RemoveFromReady(k, t)
           qs == k.ready
<1>1. t \in Thread /\ Priorities = 0 .. 3 /\ qs \in [0 .. 3 -> Seq(Thread)]
  BY AppPrioritiesType DEF App, KernelState
<1>2. r = [k EXCEPT !.ready = Without(qs, t)]
  BY DEF RemoveFromReady
<1>3. ASSUME NEW i \in 0 .. 3, Holds(qs[i], t) PROVE i \in AppPriorities
  <2>1. qs[i] \in Seq(AtPriority(i))
    BY <1>1 DEF ReadySorted
  <2>2. t \in AtPriority(i)
    BY <1>3, <2>1, ElementOfSeq DEF Holds
  <2> QED BY <2>2, AppPrioritiesType DEF AtPriority
<1> HIDE DEF qs
<1> DEFINE place == ReadyPlace(ReadyOnes(k) \union {t})
           moved == ReadyPlace(ReadyOnes(k))
<1>4. \A u \in Thread : moved[u] = IF u = t THEN NOTHING ELSE place[u]
  BY DEF ReadyPlace
<1>5. Lines(qs, AppPriorities, place)
  BY DEF InLine, qs
<1>6. /\ AppPriorities \in SUBSET (0 .. 3) /\ NOTHING \notin AppPriorities
      /\ Thread \in SUBSET Thread
  BY AppPrioritiesType
<1> HIDE DEF place, moved
<1>7. Lines(Without(qs, t), AppPriorities, moved)
  BY <1>1, <1>3, <1>4, <1>5, <1>6, WithoutLines
<1> HIDE DEF r
<1>8. /\ r.ready = Without(qs, t) /\ r.state = k.state /\ r.current = k.current
      /\ SameWaiting(k, r)
  BY <1>2 DEF KernelState, SameWaiting, SameLocks
<1>9. InLine(r, ReadyOnes(k))
  BY <1>7, <1>8 DEF InLine, moved
<1> QED BY <1>8, <1>9 DEF r

(* One that waited leaves the queues it waited in.                         *)
LEMMA LeaveWaitingPlaced ==
  ASSUME NEW k \in KernelState, ReadySorted(k), LocksOK(k), NEW t \in App, Parked(k)
  PROVE  LET r == LeaveQueues(k, t, "WAITING")
         IN  /\ Parked(r)
             /\ r.state = k.state /\ r.ready = k.ready /\ r.current = k.current
             /\ r.allThreads = k.allThreads /\ r.fault = k.fault
             /\ r.isLocked = k.isLocked /\ r.owner = k.owner
             /\ r.waitingFor[t] = NOTHING
             /\ \A u \in Thread \ {t} :
                  /\ r.waitingFor[u] = k.waitingFor[u]
                  /\ r.ticksLeft[u] = k.ticksLeft[u]
                  /\ r.mWants[u] = k.mWants[u]
<1> DEFINE m  == k.mWants[t]
           k1 == CASE k.waitingFor[t] = WAITING_MUTEX /\ m \in k.mutexes ->
                        StopWaiting(k, m, t)
                   [] k.waitingFor[t] = WAITING_MEMORY ->
                        RemoveFromMemoryQueue(k, t)
                   [] OTHER -> k
           r  == LeaveQueues(k, t, "WAITING")
<1>1. t \in Thread
  BY DEF App
<1>2. r = RemoveFromWaiting(k1, t)
  BY DEF LeaveQueues
<1>3. WAITING_MUTEX # WAITING_MEMORY
  BY DEF WAITING_MUTEX, WAITING_MEMORY
<1> HIDE DEF r
<1>4. /\ k1 \in KernelState /\ InWait(k1) /\ Linked(k1, {t}) /\ k1.mWants[t] = NULL_MUTEX
      /\ k1.state = k.state /\ k1.ready = k.ready /\ k1.current = k.current
      /\ k1.allThreads = k.allThreads /\ k1.fault = k.fault
      /\ k1.isLocked = k.isLocked /\ k1.owner = k.owner
      /\ k1.waitingFor = k.waitingFor /\ k1.ticksLeft = k.ticksLeft
      /\ \A u \in Thread \ {t} : k1.mWants[u] = k.mWants[u]
  <2>1. CASE k.waitingFor[t] = WAITING_MUTEX
    <3>1. m \in MutexID /\ m # NULL_MUTEX
      BY <1>1, <2>1 DEF Parked, Linked, KernelState
    <3>2. m \in k.mutexes
      <4>1. Priority[t] \in Priorities
        BY <1>1, PriorityAssumption
      <4>2. MutexPlace(k, m)[t] = Priority[t]
        BY <1>1 DEF MutexPlace
      <4> HIDE DEF m
      <4>3. Holds(k.mWaiting[m][Priority[t]], t)
        BY <1>1, <3>1, <4>1, <4>2 DEF Parked, InWait, Lines
      <4>4. k.mWaiting[m][Priority[t]] # <<>>
        BY <4>3 DEF Holds
      <4>5. ~ AllEmpty(k.mWaiting[m])
        BY <3>1, <4>1, <4>4 DEF AllEmpty, KernelState
      <4> QED BY <3>1, <4>5 DEF LocksOK, Waited
    <3>3. k1 = StopWaiting(k, m, t)
      BY <1>3, <2>1, <3>2
    <3>4. k1 \in KernelState
      BY <1>1, <3>1, <3>3, StopWaitingType DEF LeaveKeeps
    <3> DEFINE s == StopWaiting(k, m, t)
    <3>5. /\ InWait(s) /\ Linked(s, {t})
          /\ s.state = k.state /\ s.ready = k.ready /\ s.current = k.current
          /\ s.waitingFor = k.waitingFor /\ s.ticksLeft = k.ticksLeft
          /\ s.allThreads = k.allThreads /\ s.fault = k.fault
          /\ s.isLocked = k.isLocked /\ s.owner = k.owner
          /\ \A u \in Thread : s.mWants[u] = IF u = t THEN NULL_MUTEX ELSE k.mWants[u]
      <4>1. InWait(k) /\ Linked(k, {})
        BY DEF Parked
      <4> QED BY <3>1, <4>1, StopWaitingPlaced
    <3>6. k1 = s
      BY <3>3
    <3> HIDE DEF k1, s
    <3> QED BY <1>1, <3>4, <3>5, <3>6
  <2>2. CASE k.waitingFor[t] # WAITING_MUTEX
    <3>1. k.mWants[t] = NULL_MUTEX
      BY <1>1, <2>2 DEF Parked, Linked
    <3>2. k1 = RemoveFromMemoryQueue(k, t) \/ k1 = k
      BY <2>2
    <3>3. k1 \in KernelState
      BY <1>1, <3>2, RemoveFromMemoryQueueType DEF LeaveKeeps
    <3> DEFINE s == RemoveFromMemoryQueue(k, t)
    <3>4. /\ s.state = k.state /\ s.ready = k.ready /\ s.current = k.current
          /\ s.waiting = k.waiting /\ s.waitingFor = k.waitingFor
          /\ s.ticksLeft = k.ticksLeft /\ s.infiniteFlag = k.infiniteFlag
          /\ s.mWants = k.mWants /\ s.mWaiting = k.mWaiting
          /\ s.allThreads = k.allThreads /\ s.fault = k.fault
          /\ s.isLocked = k.isLocked /\ s.owner = k.owner
      BY DEF RemoveFromMemoryQueue, KernelState
    <3>5. k1 = s \/ k1 = k
      BY <3>2
    <3> HIDE DEF k1, s
    <3>6. /\ k1.state = k.state /\ k1.ready = k.ready /\ k1.current = k.current
          /\ k1.waiting = k.waiting /\ k1.waitingFor = k.waitingFor
          /\ k1.ticksLeft = k.ticksLeft /\ k1.infiniteFlag = k.infiniteFlag
          /\ k1.mWants = k.mWants /\ k1.mWaiting = k.mWaiting
          /\ k1.allThreads = k.allThreads /\ k1.fault = k.fault
          /\ k1.isLocked = k.isLocked /\ k1.owner = k.owner
      BY <3>4, <3>5
    <3>7. InWait(k1) /\ Linked(k1, {t})
      BY <3>6 DEF Parked, InWait, Linked, MutexPlace
    <3> QED BY <3>1, <3>3, <3>6, <3>7
  <2> QED BY <2>1, <2>2
<1> HIDE DEF k1
<1> DEFINE w == RemoveFromWaiting(k1, t)
<1>5. /\ Parked(w)
      /\ w.state = k1.state /\ w.ready = k1.ready /\ w.current = k1.current
      /\ w.mWants = k1.mWants /\ w.allThreads = k1.allThreads /\ w.fault = k1.fault
      /\ SameLocks(k1, w)
      /\ \A u \in Thread :
           /\ w.waitingFor[u] = IF u = t THEN NOTHING ELSE k1.waitingFor[u]
           /\ u # t => w.ticksLeft[u] = k1.ticksLeft[u]
  BY <1>4, RemoveFromWaitingPlaced
<1>6. r = w
  BY <1>2
<1> HIDE DEF w
<1>7. /\ Parked(r)
      /\ r.state = k.state /\ r.ready = k.ready /\ r.current = k.current
      /\ r.allThreads = k.allThreads /\ r.fault = k.fault
      /\ r.isLocked = k.isLocked /\ r.owner = k.owner
      /\ r.waitingFor[t] = NOTHING
      /\ \A u \in Thread \ {t} :
           /\ r.waitingFor[u] = k.waitingFor[u]
           /\ r.ticksLeft[u] = k.ticksLeft[u]
           /\ r.mWants[u] = k.mWants[u]
  BY <1>1, <1>4, <1>5, <1>6 DEF SameLocks
<1> QED BY <1>7 DEF r

(* However it was queued, a terminated thread is in no queue afterwards.   *)
LEMMA LeaveQueuesPlaced ==
  ASSUME NEW k \in KernelState, ReadySorted(k), LocksOK(k), NEW t \in App,
         k.state[t] = "DEAD", NEW was,
         was = "WAITING" <=> k.waitingFor[t] # NOTHING,
         NEW D, D = IF was = "READY" THEN {t} ELSE {},
         InLine(k, ReadyOnes(k) \union D), Parked(k), Standing(k, {t})
  PROVE  LET r == LeaveQueues(k, t, was)
         IN  /\ InLine(r, ReadyOnes(r)) /\ Parked(r) /\ Standing(r, {})
             /\ r.state = k.state
             /\ r.waitingFor[t] = NOTHING
             /\ \A u \in Thread \ {t} : Undisturbed(k, r, u)
<1> DEFINE r == LeaveQueues(k, t, was)
<1>1. t \in Thread /\ t \notin ReadyOnes(k)
  BY DEF App, ReadyOnes
<1>2. CASE was = "READY"
  <2>1. r = RemoveFromReady(k, t)
    BY <1>2 DEF LeaveQueues
  <2>2. InLine(k, ReadyOnes(k) \union {t})
    BY <1>2
  <2>3. /\ InLine(r, ReadyOnes(k))
        /\ r.state = k.state /\ r.current = k.current /\ SameWaiting(k, r)
    <3> DEFINE s == RemoveFromReady(k, t)
    <3>1. /\ InLine(s, ReadyOnes(k))
          /\ s.state = k.state /\ s.current = k.current /\ SameWaiting(k, s)
      BY <1>1, <2>2, LeaveReadyPlaced
    <3>2. r = s
      BY <2>1
    <3> HIDE DEF r, s
    <3> QED BY <3>1, <3>2
  <2> HIDE DEF r
  <2>4. ReadyOnes(r) = ReadyOnes(k)
    BY <2>3 DEF ReadyOnes
  <2>5. r.waitingFor[t] = NOTHING
    BY <1>2, <2>3 DEF SameWaiting
  <2>6. Standing(r, {})
    BY <2>3, <2>5 DEF Standing, SameWaiting
  <2>7. Parked(r)
    BY <2>3, SameWaitingParked DEF Parked
  <2>8. \A u \in Thread : Undisturbed(k, r, u)
    BY <2>3, UndisturbedSame DEF SameDead
  <2> QED BY <2>3, <2>4, <2>5, <2>6, <2>7, <2>8 DEF r
<1>3. CASE was = "WAITING"
  <2>1. /\ Parked(r)
        /\ r.state = k.state /\ r.ready = k.ready /\ r.current = k.current
        /\ r.allThreads = k.allThreads /\ r.fault = k.fault
        /\ r.isLocked = k.isLocked /\ r.owner = k.owner
        /\ r.waitingFor[t] = NOTHING
        /\ \A u \in Thread \ {t} :
             /\ r.waitingFor[u] = k.waitingFor[u]
             /\ r.ticksLeft[u] = k.ticksLeft[u]
             /\ r.mWants[u] = k.mWants[u]
    BY <1>3, LeaveWaitingPlaced
  <2> HIDE DEF r
  <2>2. ReadyOnes(r) = ReadyOnes(k) /\ ReadyOnes(k) \union D = ReadyOnes(k)
    BY <1>3, <2>1 DEF ReadyOnes
  <2>3. InLine(r, ReadyOnes(r))
    BY <2>1, <2>2 DEF InLine
  <2>4. Standing(r, {})
    BY <1>1, <2>1 DEF Standing
  <2>5. \A u \in Thread \ {t} : Undisturbed(k, r, u)
    BY <2>1 DEF Undisturbed
  <2> QED BY <2>1, <2>3, <2>4, <2>5 DEF r
<1>4. CASE was \notin {"READY", "WAITING"}
  <2>1. r = k
    BY <1>4 DEF LeaveQueues
  <2>2. k.waitingFor[t] = NOTHING /\ D = {} /\ ReadyOnes(k) \union D = ReadyOnes(k)
    BY <1>4
  <2> HIDE DEF r
  <2>3. Standing(k, {})
    BY <1>1, <2>2 DEF Standing
  <2>4. InLine(k, ReadyOnes(k))
    BY <2>2
  <2>5. \A u \in Thread : Undisturbed(k, k, u)
    BY DEF Undisturbed
  <2> QED BY <2>1, <2>2, <2>3, <2>4, <2>5 DEF r
<1> QED BY <1>2, <1>3, <1>4

LEMMA TerminatePlaced ==
  ASSUME NEW k, Good(k), Placed(k), k.current # Idle,
         NEW t \in App, k.state[t] # "DEAD"
  PROVE  LET r == Terminate(k, t)
         IN  /\ Placed(r)
             /\ r.state[t] = "DEAD" /\ r.waitingFor[t] = NOTHING
             /\ \A u \in Thread \ {t} : Undisturbed(k, r, u)
             /\ k.waitingFor[t] # WAITING_MEMORY => r.memQueue = k.memQueue
<1> DEFINE was  == k.state[t]
           s    == [k.state EXCEPT ![t] = "DEAD"]
           k0   == [k EXCEPT !.state = s]
           rel  == ReleaseAll(k0, t)
           left == LeaveQueues(rel.k, t, was)
           D    == IF was = "READY" THEN {t} ELSE {}
<1>1. t \in Thread /\ t # Idle
  BY DEF App
<1>2. /\ k \in KernelState /\ ReadySorted(k) /\ IdleReady(k) /\ LocksOK(k)
      /\ k.state \in [Thread -> ThreadStates]
  BY GoodType DEF KernelState
<1>3. \A u \in Thread : s[u] = IF u = t THEN "DEAD" ELSE k.state[u]
  BY <1>2
<1>4. s \in [Thread -> ThreadStates]
  BY <1>2 DEF ThreadStates
<1> HIDE DEF s
<1>5. k0 \in KernelState
  BY <1>2, <1>4, ZenonT(60) DEF KernelState
<1>6. /\ k0.state = s /\ k0.ready = k.ready /\ k0.current = k.current
      /\ SameWaiting(k, k0)
  BY <1>2 DEF KernelState, SameWaiting, SameLocks
<1>26. k0.memQueue = k.memQueue
  BY <1>2 DEF KernelState
<1>7. Terminate(k, t) = CASE was = "RUNNING" -> ScheduleNext(left)
                          [] was # "RUNNING" /\ rel.preempt -> Yield(left)
                          [] OTHER -> left
  <2>1. [k EXCEPT !.state[t] = "DEAD"] = k0
    BY <1>2 DEF s, KernelState
  <2> HIDE DEF k0
  <2> QED BY <2>1 DEF Terminate
<1> HIDE DEF k0
<1>8. ReadySorted(k0) /\ LocksOK(k0)
  BY <1>2, <1>6, LocksOKSame DEF ReadySorted, SameWaiting
<1>9. PassKeeps(k0, rel.k) /\ LocksOK(rel.k)
  BY <1>1, <1>5, <1>8, ReleaseAllType
<1>10. D \in SUBSET App /\ D \subseteq {t}
  OBVIOUS
<1> HIDE DEF was
<1>11. InLine(k0, ReadyOnes(k0) \union D)
  <2>1. ReadyOnes(k0) \union D = ReadyOnes(k)
    BY <1>1, <1>3, <1>6 DEF ReadyOnes, was, App
  <2>2. InLine(k, ReadyOnes(k))
    BY DEF Placed
  <2> HIDE DEF D
  <2> QED BY <1>6, <2>1, <2>2 DEF InLine
<1>12. Parked(k0)
  BY <1>6, SameWaitingParked DEF Placed, Parked
<1>13. Standing(k0, {t})
  BY <1>1, <1>3, <1>6, SystemThreads DEF Placed, Standing, SameWaiting
<1> HIDE DEF D
<1>14. /\ InLine(rel.k, ReadyOnes(rel.k) \union D)
       /\ Parked(rel.k)
       /\ Standing(rel.k, {t})
       /\ Passed(k0, rel.k, t)
  BY <1>1, <1>5, <1>8, <1>10, <1>11, <1>12, <1>13, ReleaseAllPlaced
<1> HIDE DEF rel
<1>15. rel.k.state[t] = "DEAD" /\ (was = "WAITING" <=> rel.k.waitingFor[t] # NOTHING)
  BY <1>1, <1>3, <1>6, <1>14 DEF Passed, SameWaiting, Placed, Standing, was
<1>16. rel.k \in KernelState /\ ReadySorted(rel.k)
  BY <1>9 DEF PassKeeps
<1>17. /\ InLine(left, ReadyOnes(left)) /\ Parked(left) /\ Standing(left, {})
       /\ left.state = rel.k.state
       /\ left.waitingFor[t] = NOTHING
       /\ \A u \in Thread \ {t} : Undisturbed(rel.k, left, u)
  <2>1. D = IF was = "READY" THEN {t} ELSE {}
    BY DEF D
  <2> QED BY <1>9, <1>14, <1>15, <1>16, <2>1, LeaveQueuesPlaced
<1>18. LeaveKeeps(rel.k, left)
  BY <1>16, LeaveQueuesType
<1> HIDE DEF left
<1>19. /\ left \in KernelState /\ ReadySorted(left) /\ left.current = k.current
       /\ IdleCount(left) = 2 /\ IdleReady(left)
  BY <1>2, <1>6, <1>9, <1>18 DEF PassKeeps, LeaveKeeps, IdleReady, IdleCount
<1>20. /\ \A u \in Thread : left.state[u] = "RUNNING" <=> u = k.current /\ u # t
       /\ left.state[t] = "DEAD"
  BY <1>3, <1>6, <1>14, <1>15, <1>17 DEF Passed, Placed, Running
<1>21. \A u \in Thread \ {t} : Undisturbed(k, left, u)
  <2>1. \A u \in Thread \ {t} : Undisturbed(k, k0, u)
    BY <1>3, <1>6 DEF Undisturbed, SameWaiting, SameLocks
  <2> QED BY <1>14, <1>17, <2>1, UndisturbedTransitive DEF Passed
<1> DEFINE r == Terminate(k, t)
<1>22. Placed(r) /\ SameWaiting(left, r) /\ SameDead(left, r)
  <2>1. CASE was = "RUNNING"
    <3>1. r = ScheduleNext(left)
      BY <1>7, <2>1
    <3>2. Halted(left)
      BY <1>1, <1>20, <2>1 DEF Halted, was, Placed, Running
    <3> HIDE DEF r
    <3> QED BY <1>17, <1>19, <3>1, <3>2, ScheduleNextPlaced
  <2>2. CASE was # "RUNNING"
    <3>1. r = Yield(left) \/ r = left
      BY <1>7, <2>2
    <3> HIDE DEF r
    <3>2. Running(left)
      BY <1>1, <1>19, <1>20, <2>2 DEF was, Placed, Running
    <3>3. Placed(left)
      BY <1>17, <3>2 DEF Placed
    <3>4. Placed(Yield(left)) /\ SameWaiting(left, Yield(left)) /\ SameDead(left, Yield(left))
      BY <1>19, <3>3, YieldPlaced
    <3>5. SameWaiting(left, left) /\ SameDead(left, left)
      BY DEF SameWaiting, SameLocks, SameDead
    <3> QED BY <3>1, <3>3, <3>4, <3>5
  <2> QED BY <2>1, <2>2
<1> HIDE DEF r
<1>23. r.state[t] = "DEAD" /\ r.waitingFor[t] = NOTHING
  BY <1>1, <1>17, <1>20, <1>22 DEF SameWaiting, SameDead
<1>24. \A u \in Thread \ {t} : Undisturbed(k, r, u)
  BY <1>21, <1>22, UndisturbedSame, UndisturbedTransitive
<1>25. ASSUME k.waitingFor[t] # WAITING_MEMORY PROVE r.memQueue = k.memQueue
  <2>1. rel.k.waitingFor[t] # WAITING_MEMORY /\ rel.k.memQueue = k.memQueue
    BY <1>6, <1>9, <1>14, <1>25, <1>26 DEF Passed, SameWaiting, PassKeeps, Harmless
  <2>2. left.memQueue = k.memQueue
    BY <1>16, <2>1, LeaveQueuesMemory DEF left
  <2>3. r = ScheduleNext(left) \/ r = Yield(left) \/ r = left
    BY <1>7 DEF r
  <2> QED BY <1>19, <2>2, <2>3, ScheduleNextType, YieldType DEF Harmless
<1> QED BY <1>22, <1>23, <1>24, <1>25 DEF r

-----------------------------------------------------------------------------
(* The calm applications and their invariant                               *)

LEMMA ReasonsDiffer ==
  /\ WAITING_IO \notin {WAITING_MUTEX, WAITING_SLEEP, WAITING_MEMORY, NOTHING}
  /\ WAITING_MUTEX \notin {WAITING_SLEEP, WAITING_MEMORY, NOTHING}
  /\ WAITING_SLEEP \notin {WAITING_MEMORY, NOTHING}
  /\ WAITING_MEMORY # NOTHING
BY DEF WAITING_IO, WAITING_MUTEX, WAITING_SLEEP, WAITING_MEMORY, NOTHING

(***************************************************************************)
(* No wait for a mutex has a time limit, no thread asks for a mutex it     *)
(* owns, and neither the idle thread nor one that may do I/O is terminated *)
(* by a call.                                                              *)
(***************************************************************************)
Calm ==
  /\ AcquireTimeouts \subseteq {VM_TIMEOUT_INFINITE, VM_TIMEOUT_IMMEDIATE}
  /\ ~ Reentrant
  /\ Victims \intersect IOUsers = {}
  /\ IdleSpared

(* A thread waits for the answer to the one request it has made.           *)
Asking(u) ==
  /\ io[u] = IF vm.waitingFor[u] = WAITING_IO THEN 1 ELSE 0
  /\ vm.waitingFor[u] \in {WAITING_IO, WAITING_MEMORY} => u \notin Victims

(* A thread inside VMThreadSleep whose time is not over waits, and its     *)
(* ticksLeft is no less than what is left.                                 *)
Sleeping(u) ==
  vm.state[u] # "DEAD" /\ frame[u].op = "sleep" =>
    due[u] = 0 \/ (vm.waitingFor[u] = WAITING_SLEEP /\ due[u] <= vm.ticksLeft[u])

(* A thread inside VMMutexAcquire waits for the mutex or owns it.          *)
Acquiring(u) ==
  vm.state[u] # "DEAD" /\ frame[u].op = "acquire" =>
    /\ frame[u].mutex \in MutexID
    /\ \/ vm.mWants[u] = frame[u].mutex
       \/ vm.isLocked[frame[u].mutex] /\ vm.owner[frame[u].mutex] = u

(* A thread that has returned from its first function does not run again.  *)
Exiting(u) == frame[u].op = "exit" => vm.state[u] = "DEAD"

ThreadOK(u) == Asking(u) /\ Sleeping(u) /\ Acquiring(u) /\ Exiting(u)

CalmInd ==
  /\ Ind
  /\ Placed(vm)
  /\ \A u \in Thread : ThreadOK(u)

(* What a step leaves of thread u's life, its mutexes and its wait for     *)
(* shared memory, which only a call of Console begins or ends: u begins to *)
(* wait in a step of its own.                                              *)
Respects(u) ==
  /\ vm.waitingFor[u] = NOTHING /\ vm'.waitingFor[u] # NOTHING => u = curr
  /\ vm'.waitingFor[u] = WAITING_MEMORY <=> vm.waitingFor[u] = WAITING_MEMORY
  /\ vm.state[u] # "DEAD" /\ vm'.state[u] = "DEAD" => u \in Victims \/ frame[u].op = "user"
  /\ vm.state[u] = "DEAD" /\ vm'.state[u] # "DEAD" => VMThreadActivate(u)
  /\ \A m \in MutexID :
       vm.isLocked[m] /\ vm.owner[m] = u /\ vm'.owner[m] # u =>
         curr = u \/ vm'.state[u] = "DEAD"

LEMMA UndisturbedOK ==
  ASSUME NEW u \in Thread, ThreadOK(u), Undisturbed(vm, vm', u),
         frame'[u] = frame[u], io'[u] = io[u], due'[u] = due[u]
  PROVE  ThreadOK(u)' /\ Respects(u)
<1>1. /\ WAITING_MUTEX # NOTHING /\ WAITING_MUTEX # WAITING_IO /\ NOTHING # WAITING_IO
      /\ WAITING_MUTEX # WAITING_SLEEP
      /\ WAITING_MEMORY \notin {WAITING_MUTEX, NOTHING}
  BY DEF WAITING_MUTEX, NOTHING, WAITING_IO, WAITING_SLEEP, WAITING_MEMORY
<1>2. Asking(u)'
  BY <1>1 DEF ThreadOK, Undisturbed, Asking
<1>3. Sleeping(u)'
  BY <1>1 DEF ThreadOK, Undisturbed, Sleeping
<1>4. Acquiring(u)'
  BY DEF ThreadOK, Undisturbed, Acquiring
<1>5. Exiting(u)'
  BY DEF ThreadOK, Undisturbed, Exiting
<1>6. Respects(u)
  BY <1>1 DEF Undisturbed, Respects
<1> QED BY <1>2, <1>3, <1>4, <1>5, <1>6 DEF ThreadOK

LEMMA SameRespects ==
  ASSUME NEW u \in Thread, SameDead(vm, vm'), vm'.owner = vm.owner,
         u = curr \/ vm'.waitingFor[u] = NOTHING,
         vm'.waitingFor[u] = WAITING_MEMORY <=> vm.waitingFor[u] = WAITING_MEMORY
  PROVE  Respects(u)
BY DEF SameDead, Respects

(* The running thread waits for nothing.                                   *)
LEMMA CurrentFree ==
  ASSUME NEW k \in KernelState, Placed(k)
  PROVE  LET c == k.current
         IN  /\ c \in Thread /\ k.state[c] = "RUNNING" /\ c \in k.allThreads
             /\ k.waitingFor[c] = NOTHING /\ k.mWants[c] = NULL_MUTEX
<1> DEFINE c == k.current
<1>1. c \in Thread /\ k.state[c] = "RUNNING"
  BY DEF KernelState, Placed, Running
<1>2. c \in k.allThreads /\ k.waitingFor[c] = NOTHING
  BY <1>1 DEF Placed, Standing
<1>3. k.mWants[c] = NULL_MUTEX
  <2>1. NOTHING # WAITING_MUTEX
    BY DEF NOTHING, WAITING_MUTEX
  <2> QED BY <1>1, <1>2, <2>1 DEF Placed, Parked, Linked
<1> QED BY <1>1, <1>2, <1>3

(* A call that changes neither threads nor queues.                         *)
LEMMA PlacedSame ==
  ASSUME NEW k, NEW r, Placed(k),
         r.state = k.state, r.ready = k.ready, r.current = k.current,
         r.waiting = k.waiting, r.waitingFor = k.waitingFor,
         r.ticksLeft = k.ticksLeft, r.infiniteFlag = k.infiniteFlag,
         r.mWants = k.mWants, r.owner = k.owner, r.mWaiting = k.mWaiting,
         r.fault = k.fault,
         \A u \in Thread : k.state[u] # "DEAD" => u \in r.allThreads
  PROVE  Placed(r)
<1>1. ReadyOnes(r) = ReadyOnes(k)
  BY DEF ReadyOnes
<1>2. InLine(r, ReadyOnes(r)) /\ Running(r)
  BY <1>1 DEF Placed, InLine, Running
<1>3. Parked(r)
  BY DEF Placed, Parked, InWait, Linked, MutexPlace
<1>4. Standing(r, {})
  BY DEF Placed, Standing
<1> QED BY <1>2, <1>3, <1>4 DEF Placed

-----------------------------------------------------------------------------
(* The application begins with every queue but the idle thread's empty     *)

LEMMA EmptyLines ==
  ASSUME NEW qs, NEW I, NEW place, \A i \in I : qs[i] = <<>>,
         \A u \in App : place[u] \notin I
  PROVE  Lines(qs, I, place)
<1>1. NoRepeats(<<>>, 1)
  BY DEF NoRepeats
<1>2. \A u : ~ Holds(<<>>, u)
  BY DEF Holds
<1> QED BY <1>1, <1>2 DEF Lines

LEMMA InitCalm ==
  ASSUME Init PROVE CalmInd
<1>1. /\ vm.current = Main /\ vm.fault = "none" /\ vm.allThreads = {Main, Idle}
      /\ vm.state = [t \in Thread |-> CASE t = Main -> "RUNNING"
                                        [] t = Idle -> "READY"
                                        [] OTHER    -> "DEAD"]
      /\ vm.waitingFor = [t \in Thread |-> NOTHING]
      /\ vm.mWants = [t \in Thread |-> NULL_MUTEX]
      /\ vm.ready = [p \in Priorities |-> IF p = Priority[Idle] THEN <<Idle, Idle>> ELSE <<>>]
      /\ vm.waiting = [r \in Reasons |-> <<>>]
      /\ vm.mWaiting = [m \in MutexID |-> [p \in Priorities |-> <<>>]]
      /\ frame = [t \in Thread |-> User]
      /\ io = [t \in Thread |-> 0]
  BY DEF Init
<1>2. \A t \in Thread : /\ t = Main => vm.state[t] = "RUNNING"
                        /\ t = Idle => vm.state[t] = "READY"
                        /\ t # Main /\ t # Idle => vm.state[t] = "DEAD"
  BY <1>1 DEF Main, Idle
<1>3. NOTHING # WAITING_MUTEX /\ NOTHING # WAITING_IO
  BY DEF NOTHING, WAITING_MUTEX, WAITING_IO
<1>4. InLine(vm, ReadyOnes(vm))
  <2>1. ReadyOnes(vm) = {}
    BY <1>2 DEF ReadyOnes, App
  <2>2. \A u \in App : ReadyPlace({})[u] \notin AppPriorities
    BY AppPrioritiesType DEF ReadyPlace
  <2>3. \A p \in AppPriorities : vm.ready[p] = <<>>
    BY <1>1, AppPrioritiesType
  <2> QED BY <2>1, <2>2, <2>3, EmptyLines DEF InLine
<1>5. InWait(vm)
  <2>1. Lines(vm.waiting, Reasons, vm.waitingFor)
    <3>1. \A u \in App : vm.waitingFor[u] \notin Reasons
      BY <1>1, AppPrioritiesType
    <3>2. \A r \in Reasons : vm.waiting[r] = <<>>
      BY <1>1
    <3> QED BY <3>1, <3>2, EmptyLines
  <2>2. ASSUME NEW m \in MutexID
        PROVE  Lines(vm.mWaiting[m], Priorities, MutexPlace(vm, m))
    <3>1. \A u \in App : MutexPlace(vm, m)[u] \notin Priorities
      BY <1>1, AppPrioritiesType DEF MutexPlace, MutexID, NULL_MUTEX
    <3>2. \A p \in Priorities : vm.mWaiting[m][p] = <<>>
      BY <1>1
    <3> QED BY <3>1, <3>2, EmptyLines
  <2> QED BY <2>1, <2>2 DEF InWait
<1>6. Linked(vm, {})
  BY <1>1, <1>3 DEF Linked
<1>7. Standing(vm, {}) /\ Running(vm)
  BY <1>1, <1>2, SystemThreads DEF Standing, Running
<1>8. \A u \in Thread : ThreadOK(u)
  BY <1>1, <1>3, ReasonsDiffer DEF ThreadOK, Asking, Sleeping, Acquiring, Exiting, User
<1> QED BY <1>4, <1>5, <1>6, <1>7, <1>8, InitGood DEF CalmInd, Placed, Parked

-----------------------------------------------------------------------------
(* The steps of a calm application                                         *)

CalmStep == Placed(vm') /\ \A u \in Thread : ThreadOK(u)' /\ Respects(u)

LEMMA CalmType ==
  ASSUME CalmInd
  PROVE  /\ Good(vm) /\ Placed(vm) /\ vm \in KernelState
         /\ ReadySorted(vm) /\ IdleReady(vm) /\ LocksOK(vm)
         /\ curr \in Thread /\ curr = vm.current
         /\ frame \in [Thread -> Frames] /\ io \in [Thread -> Nat] /\ io[Idle] = 0
         /\ due \in [Thread -> Tick]
         /\ \A u \in Thread : ThreadOK(u)
BY GoodType DEF CalmInd, Ind, curr

(* Creating and deleting threads and mutexes moves no one.                 *)
LEMMA CreateCalm ==
  ASSUME CalmInd,
         VMThreadCreate \/ (\E t \in Thread : VMThreadDelete(t))
           \/ VMMutexCreate \/ (\E m \in MutexID : VMMutexDelete(m))
  PROVE  CalmStep
<1>1. Placed(vm) /\ vm \in KernelState /\ \A u \in Thread : ThreadOK(u)
  BY CalmType
<1>2. /\ vm'.state = vm.state /\ vm'.ready = vm.ready /\ vm'.current = vm.current
      /\ vm'.waiting = vm.waiting /\ vm'.waitingFor = vm.waitingFor
      /\ vm'.ticksLeft = vm.ticksLeft /\ vm'.infiniteFlag = vm.infiniteFlag
      /\ vm'.mWants = vm.mWants /\ vm'.owner = vm.owner /\ vm'.mWaiting = vm.mWaiting
      /\ vm'.fault = vm.fault /\ vm'.isLocked = vm.isLocked
      /\ \A u \in Thread : u \in vm.allThreads /\ vm.state[u] # "DEAD" => u \in vm'.allThreads
  BY <1>1 DEF VMThreadCreate, VMThreadDelete, VMMutexCreate, VMMutexDelete, KernelState
<1>3. frame' = frame /\ io' = io /\ due' = due
  BY DEF VMThreadCreate, VMThreadDelete, VMMutexCreate, VMMutexDelete
<1>4. \A u \in Thread : vm.state[u] # "DEAD" => u \in vm'.allThreads
  BY <1>1, <1>2 DEF Placed, Standing
<1>5. Placed(vm')
  BY <1>1, <1>2, <1>4, PlacedSame
<1>6. ASSUME NEW u \in Thread PROVE ThreadOK(u)' /\ Respects(u)
  <2>1. Undisturbed(vm, vm', u)
    BY <1>2 DEF Undisturbed
  <2> QED BY <1>1, <1>3, <2>1, UndisturbedOK
<1> QED BY <1>5, <1>6 DEF CalmStep

LEMMA ActivateCalm ==
  ASSUME CalmInd, NEW t \in Thread, VMThreadActivate(t)
  PROVE  CalmStep
<1> DEFINE r == Preempt(AddToReady(vm, t), t)
<1>1. /\ Placed(vm) /\ vm \in KernelState /\ ReadySorted(vm) /\ IdleReady(vm)
      /\ frame \in [Thread -> Frames]
      /\ \A u \in Thread : ThreadOK(u)
  BY CalmType
<1>2. /\ vm' = r /\ t \in vm.allThreads /\ vm.state[t] = "DEAD"
      /\ frame' = [frame EXCEPT ![t] = User] /\ io' = io /\ due' = due
  BY DEF VMThreadActivate
<1> HIDE DEF r
<1>3. t \in App /\ vm.waitingFor[t] = NOTHING
  BY <1>1, <1>2 DEF Placed, Standing, App
<1>4. InLine(vm, ReadyOnes(vm)) /\ Parked(vm) /\ Standing(vm, {t}) /\ Running(vm)
  BY <1>1 DEF Placed, Standing
<1>5. /\ Placed(r) /\ SameWaiting(vm, r)
      /\ \A u \in Thread \ {t} : r.state[u] = "DEAD" <=> vm.state[u] = "DEAD"
  BY <1>1, <1>2, <1>3, <1>4, WakePlaced DEF r
<1>6. ASSUME NEW u \in Thread PROVE ThreadOK(u)' /\ Respects(u)
  <2>1. CASE u # t
    <3>1. Undisturbed(vm, vm', u)
      BY <1>2, <1>5, <2>1 DEF Undisturbed, SameWaiting, SameLocks
    <3> QED BY <1>1, <1>2, <2>1, <3>1, UndisturbedOK
  <2>2. CASE u = t
    <3>1. frame'[u].op = "user"
      BY <1>1, <1>2, <2>2 DEF User
    <3>2. Asking(u)'
      BY <1>1, <1>2, <1>5 DEF ThreadOK, Asking, SameWaiting
    <3>3. Respects(u)
      BY <1>2, <1>5, <2>2 DEF Respects, SameWaiting, SameLocks
    <3> QED BY <3>1, <3>2, <3>3 DEF ThreadOK, Sleeping, Acquiring, Exiting
  <2> QED BY <2>1, <2>2
<1> QED BY <1>2, <1>5, <1>6 DEF CalmStep

(* What is left of a thread that has been terminated.                      *)
LEMMA TerminatedOK ==
  ASSUME CalmInd, NEW t \in App, vm' = Terminate(vm, t), curr # Idle,
         vm.state[t] # "DEAD", vm.waitingFor[t] \notin {WAITING_IO, WAITING_MEMORY},
         t \in Victims \/ frame[t].op = "user",
         io' = io, due' = due,
         \A u \in Thread \ {t} : frame'[u] = frame[u]
  PROVE  CalmStep
<1>1. Good(vm) /\ Placed(vm) /\ curr = vm.current /\ \A u \in Thread : ThreadOK(u)
  BY CalmType
<1>2. /\ Placed(vm') /\ vm'.state[t] = "DEAD" /\ vm'.waitingFor[t] = NOTHING
      /\ \A u \in Thread \ {t} : Undisturbed(vm, vm', u)
  BY <1>1, TerminatePlaced
<1>3. ASSUME NEW u \in Thread PROVE ThreadOK(u)' /\ Respects(u)
  <2>1. CASE u # t
    BY <1>1, <1>2, <2>1, UndisturbedOK
  <2>2. CASE u = t
    <3>1. NOTHING \notin {WAITING_IO, WAITING_MEMORY}
      BY DEF NOTHING, WAITING_IO, WAITING_MEMORY
    <3>2. io'[t] = 0
      BY <1>1, <2>2 DEF ThreadOK, Asking
    <3> QED BY <1>2, <2>2, <3>1, <3>2
            DEF ThreadOK, Asking, Sleeping, Acquiring, Exiting, Respects
  <2> QED BY <2>1, <2>2
<1> QED BY <1>2, <1>3 DEF CalmStep

LEMMA TerminateCalm ==
  ASSUME Calm, CalmInd, (\E t \in Thread : VMThreadTerminate(t)) \/ SkeletonExit
  PROVE  CalmStep
<1>1. /\ Placed(vm) /\ vm \in KernelState /\ curr \in Thread /\ curr = vm.current
      /\ frame \in [Thread -> Frames]
      /\ \A u \in Thread : ThreadOK(u)
  BY CalmType
<1>2. ASSUME NEW t \in Thread, VMThreadTerminate(t) PROVE CalmStep
  <2>1. /\ t \in Victims /\ curr # Idle /\ vm.state[t] # "DEAD"
        /\ vm' = Terminate(vm, t) /\ frame' = frame /\ io' = io /\ due' = due
    BY <1>2 DEF VMThreadTerminate, Calls
  <2>2. t \in App
    BY <2>1 DEF Calm, IdleSpared, App
  <2>3. vm.waitingFor[t] \notin {WAITING_IO, WAITING_MEMORY}
    BY <1>1, <2>1 DEF ThreadOK, Asking
  <2> QED BY <2>1, <2>2, <2>3, TerminatedOK
<1>3. ASSUME SkeletonExit PROVE CalmStep
  <2>1. /\ curr # Idle /\ io' = io /\ due' = due
        /\ frame' = [frame EXCEPT ![curr] =
                       [op |-> "exit", mutex |-> NULL_MUTEX, timeout |-> 0]]
    BY <1>3 DEF SkeletonExit, Calls, Suspend
  <2>2. /\ curr \in vm.allThreads /\ vm.state[curr] = "RUNNING"
        /\ vm.waitingFor[curr] = NOTHING
    BY <1>1, CurrentFree
  <2>3. vm' = Terminate(vm, curr)
    BY <1>3, <2>2 DEF SkeletonExit
  <2>4. vm.waitingFor[curr] \notin {WAITING_IO, WAITING_MEMORY}
    BY <2>2 DEF NOTHING, WAITING_IO, WAITING_MEMORY
  <2>5. curr \in App /\ \A u \in Thread \ {curr} : frame'[u] = frame[u]
    BY <1>1, <2>1 DEF App
  <2>6. frame[curr].op = "user"
    BY <1>3 DEF SkeletonExit, Calls, InUser
  <2> QED BY <2>1, <2>2, <2>3, <2>4, <2>5, <2>6, TerminatedOK
<1> QED BY <1>2, <1>3

(* The current thread sets its clock: it is in no queue.                   *)
LEMMA ClockSet ==
  ASSUME CalmInd, NEW f \in [Thread -> Tick], NEW b \in [Thread -> BOOLEAN],
         \A u \in Thread \ {curr} : f[u] = vm.ticksLeft[u] /\ b[u] = vm.infiniteFlag[u]
  PROVE  LET k == [vm EXCEPT !.ticksLeft = f, !.infiniteFlag = b]
         IN  /\ k \in KernelState /\ ReadySorted(k) /\ IdleReady(k)
             /\ InLine(k, ReadyOnes(k)) /\ Standing(k, {}) /\ Running(k)
             /\ InWait(k) /\ Linked(k, {curr})
             /\ k.ticksLeft = f /\ k.infiniteFlag = b /\ k.current = curr
             /\ k.mWants = vm.mWants /\ k.waitingFor = vm.waitingFor
             /\ k.waiting = vm.waiting /\ k.ready = vm.ready
             /\ k.allThreads = vm.allThreads /\ k.fault = vm.fault
             /\ k.state = vm.state /\ SameLocks(vm, k)
<1> DEFINE k == [vm EXCEPT !.ticksLeft = f, !.infiniteFlag = b]
<1>1. /\ Placed(vm) /\ vm \in KernelState /\ ReadySorted(vm) /\ IdleReady(vm)
      /\ curr = vm.current
  BY CalmType
<1>2. k \in KernelState
  BY <1>1, ZenonT(60) DEF KernelState
<1>3. /\ k.ticksLeft = f /\ k.infiniteFlag = b /\ k.current = curr
      /\ k.mWants = vm.mWants /\ k.waitingFor = vm.waitingFor
      /\ k.waiting = vm.waiting /\ k.ready = vm.ready
      /\ k.allThreads = vm.allThreads /\ k.fault = vm.fault
      /\ k.state = vm.state /\ SameLocks(vm, k)
  BY <1>1 DEF KernelState, SameLocks
<1> HIDE DEF k
<1>4. ReadySorted(k) /\ IdleReady(k)
  BY <1>1, <1>3 DEF ReadySorted, IdleReady, IdleCount
<1>5. ReadyOnes(k) = ReadyOnes(vm)
  BY <1>3 DEF ReadyOnes
<1>6. InLine(k, ReadyOnes(k)) /\ Standing(k, {}) /\ Running(k)
  BY <1>1, <1>3, <1>5 DEF Placed, InLine, Standing, Running
<1>7. InWait(k) /\ Linked(k, {curr})
  BY <1>1, <1>3 DEF Placed, Parked, InWait, Linked, MutexPlace, SameLocks
<1> QED BY <1>2, <1>3, <1>4, <1>6, <1>7 DEF k

(* A step in which only the current thread's call goes on.                 *)
LEMMA OthersOK ==
  ASSUME CalmInd, SameDead(vm, vm'), vm'.isLocked = vm.isLocked, vm'.owner = vm.owner,
         NEW u \in Thread, u # curr,
         vm'.waitingFor[u] = vm.waitingFor[u], vm'.ticksLeft[u] = vm.ticksLeft[u],
         vm'.mWants[u] = vm.mWants[u],
         frame'[u] = frame[u], io'[u] = io[u], due'[u] = due[u]
  PROVE  ThreadOK(u)' /\ Respects(u)
<1>1. Undisturbed(vm, vm', u)
  BY DEF Undisturbed, SameDead
<1> QED BY <1>1, UndisturbedOK DEF CalmInd

LEMMA SleepCalm ==
  ASSUME CalmInd, NEW n \in SleepTimes, VMThreadSleep(n)
  PROVE  CalmStep
<1>1. /\ Placed(vm) /\ vm \in KernelState /\ ReadySorted(vm) /\ IdleReady(vm)
      /\ curr = vm.current /\ curr \in Thread
      /\ frame \in [Thread -> Frames] /\ due \in [Thread -> Tick]
      /\ \A u \in Thread : ThreadOK(u)
  BY CalmType
<1>2. n \in Tick
  BY ProfileAssumption
<1>3. vm.waitingFor[curr] = NOTHING /\ vm.mWants[curr] = NULL_MUTEX
  BY <1>1, CurrentFree
<1>4. /\ curr # Idle /\ io' = io
      /\ frame' = [frame EXCEPT ![curr] = [op |-> "sleep", mutex |-> NULL_MUTEX, timeout |-> n]]
      /\ due' = [due EXCEPT ![curr] = IF n = VM_TIMEOUT_IMMEDIATE THEN 0 ELSE n]
  BY DEF VMThreadSleep, Calls, Suspend
<1>5. /\ frame'[curr].op = "sleep" /\ io'[curr] = io[curr]
      /\ due'[curr] = IF n = VM_TIMEOUT_IMMEDIATE THEN 0 ELSE n
      /\ \A u \in Thread \ {curr} :
           frame'[u] = frame[u] /\ io'[u] = io[u] /\ due'[u] = due[u]
  BY <1>1, <1>4
<1>6. /\ NOTHING # WAITING_IO /\ WAITING_SLEEP # WAITING_IO /\ WAITING_SLEEP # WAITING_MUTEX
      /\ WAITING_SLEEP \in Reasons
  BY DEF NOTHING, WAITING_IO, WAITING_SLEEP, WAITING_MUTEX, Reasons, WAITING_MEMORY
<1>7. io[curr] = 0
  BY <1>1, <1>3, <1>6 DEF ThreadOK, Asking
<1>8. CASE n = VM_TIMEOUT_IMMEDIATE
  <2>1. vm' = Yield(vm)
    BY <1>8 DEF VMThreadSleep
  <2>2. Placed(vm') /\ SameWaiting(vm, vm') /\ SameDead(vm, vm')
    BY <1>1, <2>1, YieldPlaced
  <2>3. ASSUME NEW u \in Thread PROVE ThreadOK(u)' /\ Respects(u)
    <3>1. CASE u # curr
      BY <1>5, <2>2, <3>1, OthersOK DEF SameWaiting, SameLocks
    <3>2. CASE u = curr
      <4>1. Respects(u)
        BY <2>2, <3>2, SameRespects DEF SameWaiting, SameLocks
      <4> QED BY <1>3, <1>5, <1>6, <1>7, <1>8, <2>2, <3>2, <4>1, ReasonsDiffer
              DEF SameWaiting, SameLocks, ThreadOK, Asking, Sleeping, Acquiring, Exiting
    <3> QED BY <3>1, <3>2
  <2> QED BY <2>2, <2>3 DEF CalmStep
<1>9. CASE n # VM_TIMEOUT_IMMEDIATE
  <2> DEFINE f == [vm.ticksLeft EXCEPT ![curr] = n]
             b == vm.infiniteFlag
             k == [vm EXCEPT !.ticksLeft = f, !.infiniteFlag = b]
             r == Block(k, WAITING_SLEEP)
  <2>1. /\ f \in [Thread -> Tick] /\ b \in [Thread -> BOOLEAN] /\ f[curr] = n
        /\ \A u \in Thread \ {curr} : f[u] = vm.ticksLeft[u] /\ b[u] = vm.infiniteFlag[u]
    BY <1>1, <1>2 DEF KernelState
  <2>2. [vm EXCEPT !.ticksLeft[curr] = n] = k
    BY <1>1 DEF KernelState
  <2> HIDE DEF f, b
  <2>3. vm' = r
    <3> HIDE DEF k
    <3> QED BY <1>9, <2>2 DEF VMThreadSleep
  <2>4. /\ k \in KernelState /\ ReadySorted(k) /\ IdleReady(k)
        /\ InLine(k, ReadyOnes(k)) /\ Standing(k, {}) /\ Running(k)
        /\ InWait(k) /\ Linked(k, {curr})
        /\ k.ticksLeft = f /\ k.current = curr
        /\ k.mWants = vm.mWants /\ k.waitingFor = vm.waitingFor
        /\ k.state = vm.state /\ SameLocks(vm, k)
    BY <2>1, ClockSet
  <2> HIDE DEF k
  <2>5. /\ Placed(r) /\ r.waitingFor = [k.waitingFor EXCEPT ![k.current] = WAITING_SLEEP]
        /\ r.ticksLeft = f /\ r.mWants = vm.mWants /\ SameLocks(k, r) /\ SameDead(k, r)
    BY <1>3, <1>4, <1>6, <2>4, BlockPlaced
  <2> HIDE DEF r
  <2>6. SameLocks(vm, r) /\ SameDead(vm, r)
    BY <2>4, <2>5 DEF SameLocks, SameDead
  <2>7. /\ r.waitingFor[curr] = WAITING_SLEEP
        /\ \A u \in Thread \ {curr} : r.waitingFor[u] = vm.waitingFor[u]
    BY <1>1, <2>4, <2>5 DEF KernelState
  <2>8. ASSUME NEW u \in Thread PROVE ThreadOK(u)' /\ Respects(u)
    <3>1. CASE u # curr
      BY <1>5, <2>1, <2>3, <2>5, <2>6, <2>7, <3>1, OthersOK DEF SameLocks
    <3>2. CASE u = curr
      <4>1. due'[u] <= vm'.ticksLeft[u]
        BY <1>2, <1>5, <1>9, <2>1, <2>3, <2>5, <3>2 DEF Tick
      <4>2. Respects(u)
        BY <1>3, <2>3, <2>6, <2>7, <3>2, ReasonsDiffer, SameRespects DEF SameLocks
      <4> QED BY <1>5, <1>6, <1>7, <2>3, <2>7, <3>2, <4>1, <4>2, ReasonsDiffer
              DEF ThreadOK, Asking, Sleeping, Acquiring, Exiting
    <3> QED BY <3>1, <3>2
  <2> QED BY <2>3, <2>5, <2>8 DEF CalmStep
<1> QED BY <1>8, <1>9

(* A thread that no one may terminate asks the machine and waits.          *)
LEMMA AsksCalm ==
  ASSUME CalmInd, vm' = Block(vm, WAITING_IO), curr # Idle, curr \notin Victims,
         io' = [io EXCEPT ![curr] = @ + 1], due' = due,
         NEW op \in {"io", "console"},
         frame' = [frame EXCEPT ![curr] = [op |-> op, mutex |-> NULL_MUTEX, timeout |-> 0]]
  PROVE  CalmStep /\ SameDead(vm, vm')
<1> DEFINE r == Block(vm, WAITING_IO)
<1>1. /\ Placed(vm) /\ vm \in KernelState /\ ReadySorted(vm) /\ IdleReady(vm)
      /\ curr = vm.current /\ curr \in Thread
      /\ frame \in [Thread -> Frames] /\ io \in [Thread -> Nat]
      /\ \A u \in Thread : ThreadOK(u)
  BY CalmType
<1>2. vm.waitingFor[curr] = NOTHING /\ vm.mWants[curr] = NULL_MUTEX
  BY <1>1, CurrentFree
<1>3. vm' = r
  OBVIOUS
<1>4. /\ NOTHING # WAITING_IO /\ WAITING_IO # WAITING_MUTEX /\ WAITING_IO \in Reasons
  BY DEF NOTHING, WAITING_IO, WAITING_MUTEX, Reasons, WAITING_MEMORY
<1>5. /\ frame'[curr].op = op /\ io'[curr] = 1
      /\ \A u \in Thread \ {curr} : frame'[u] = frame[u] /\ io'[u] = io[u]
  BY <1>1, <1>2, <1>4 DEF ThreadOK, Asking
<1>6. /\ InLine(vm, ReadyOnes(vm)) /\ Standing(vm, {}) /\ Running(vm)
      /\ InWait(vm) /\ Linked(vm, {vm.current})
  BY <1>1 DEF Placed, Parked, Linked
<1>7. /\ Placed(r) /\ r.waitingFor = [vm.waitingFor EXCEPT ![vm.current] = WAITING_IO]
      /\ r.ticksLeft = vm.ticksLeft /\ r.mWants = vm.mWants
      /\ SameLocks(vm, r) /\ SameDead(vm, r)
  BY <1>1, <1>2, <1>4, <1>6, BlockPlaced
<1> HIDE DEF r
<1>8. /\ r.waitingFor[curr] = WAITING_IO
      /\ \A u \in Thread \ {curr} : r.waitingFor[u] = vm.waitingFor[u]
  BY <1>1, <1>7 DEF KernelState
<1>9. ASSUME NEW u \in Thread PROVE ThreadOK(u)' /\ Respects(u)
  <2>1. CASE u # curr
    BY <1>3, <1>5, <1>7, <1>8, <2>1, OthersOK DEF SameLocks
  <2>2. CASE u = curr
    <3>1. Respects(u)
      BY <1>2, <1>3, <1>7, <1>8, <2>2, ReasonsDiffer, SameRespects DEF SameLocks
    <3> QED BY <1>3, <1>5, <1>8, <2>2, <3>1
            DEF ThreadOK, Asking, Sleeping, Acquiring, Exiting
  <2> QED BY <2>1, <2>2
<1> QED BY <1>3, <1>7, <1>9 DEF CalmStep

LEMMA IOCalm ==
  ASSUME Calm, CalmInd, WaitForIO
  PROVE  CalmStep
<1>1. /\ vm' = Block(vm, WAITING_IO) /\ curr # Idle /\ curr \notin Victims
      /\ io' = [io EXCEPT ![curr] = @ + 1] /\ due' = due
      /\ frame' = [frame EXCEPT ![curr] = [op |-> "io", mutex |-> NULL_MUTEX, timeout |-> 0]]
  BY DEF WaitForIO, Calls, Suspend, Calm
<1> QED BY <1>1, AsksCalm

(* A mutex that is not locked has no one waiting for it.                   *)
LEMMA AcquireFreeCalm ==
  ASSUME CalmInd, NEW m \in MutexID, AcquireFree(m)
  PROVE  CalmStep
<1>1. /\ Placed(vm) /\ vm \in KernelState /\ curr = vm.current /\ curr \in Thread
      /\ \A u \in Thread : ThreadOK(u)
  BY CalmType
<1>2. vm.mWants[curr] = NULL_MUTEX
  BY <1>1, CurrentFree
<1>3. ~ vm.isLocked[m] /\ frame' = frame /\ io' = io /\ due' = due
  BY DEF AcquireFree
<1>4. /\ vm'.state = vm.state /\ vm'.ready = vm.ready /\ vm'.current = vm.current
      /\ vm'.waiting = vm.waiting /\ vm'.waitingFor = vm.waitingFor
      /\ vm'.ticksLeft = vm.ticksLeft /\ vm'.infiniteFlag = vm.infiniteFlag
      /\ vm'.mWants = vm.mWants /\ vm'.mWaiting = vm.mWaiting
      /\ vm'.allThreads = vm.allThreads /\ vm'.fault = vm.fault
      /\ vm'.isLocked = [vm.isLocked EXCEPT ![m] = TRUE]
      /\ vm'.owner = [vm.owner EXCEPT ![m] = curr]
  BY <1>1 DEF AcquireFree, KernelState
<1>5. /\ vm'.owner[m] = curr /\ vm'.isLocked[m]
      /\ \A l \in MutexID \ {m} : vm'.owner[l] = vm.owner[l] /\ vm'.isLocked[l] = vm.isLocked[l]
  BY <1>1, <1>4 DEF KernelState
<1>6. Placed(vm')
  <2>1. ReadyOnes(vm') = ReadyOnes(vm)
    BY <1>4 DEF ReadyOnes
  <2>2. InLine(vm', ReadyOnes(vm')) /\ Standing(vm', {}) /\ Running(vm')
    BY <1>1, <1>4, <2>1 DEF Placed, InLine, Standing, Running
  <2>3. InWait(vm')
    BY <1>1, <1>4 DEF Placed, Parked, InWait, MutexPlace
  <2>4. Linked(vm', {})
    <3>1. ASSUME NEW u \in Thread, vm.mWants[u] # NULL_MUTEX
          PROVE  vm'.owner[vm.mWants[u]] # u
      <4>1. vm.mWants[u] \in MutexID /\ vm.owner[vm.mWants[u]] # u /\ u # curr
        BY <1>1, <1>2, <3>1 DEF KernelState, Placed, Parked, Linked
      <4> QED BY <1>5, <4>1
    <3> QED BY <1>1, <1>4, <3>1 DEF Placed, Parked, Linked
  <2> QED BY <2>2, <2>3, <2>4 DEF Placed, Parked
<1>7. ASSUME NEW u \in Thread PROVE ThreadOK(u)' /\ Respects(u)
  <2>1. Undisturbed(vm, vm', u)
    BY <1>3, <1>4, <1>5 DEF Undisturbed
  <2> QED BY <1>1, <1>3, <2>1, UndisturbedOK
<1> QED BY <1>6, <1>7 DEF CalmStep

LEMMA AcquireLockedCalm ==
  ASSUME Calm, CalmInd, NEW m \in MutexID, NEW n \in AcquireTimeouts, AcquireLocked(m, n)
  PROVE  CalmStep
<1> DEFINE f == [vm.ticksLeft EXCEPT ![curr] = TickMax]
           b == [vm.infiniteFlag EXCEPT ![curr] = TRUE]
           a == [vm EXCEPT !.ticksLeft = f, !.infiniteFlag = b]
           q == Push(vm.mWaiting[m], Priority[curr], curr)
           g == [vm.mWants EXCEPT ![curr] = m]
           h == [vm.mWaiting EXCEPT ![m] = q]
           k == [a EXCEPT !.mWants = g, !.mWaiting = h]
           r == Block(k, WAITING_MUTEX)
<1>1. /\ Placed(vm) /\ vm \in KernelState /\ curr = vm.current /\ curr \in Thread
      /\ frame \in [Thread -> Frames] /\ due \in [Thread -> Tick]
      /\ \A u \in Thread : ThreadOK(u)
  BY CalmType
<1>2. vm.waitingFor[curr] = NOTHING /\ vm.mWants[curr] = NULL_MUTEX
  BY <1>1, CurrentFree
<1>3. /\ curr # Idle /\ curr \in App /\ vm.owner[m] # curr /\ io' = io
      /\ frame' = [frame EXCEPT ![curr] = [op |-> "acquire", mutex |-> m, timeout |-> n]]
      /\ due' = [due EXCEPT ![curr] = n]
  BY <1>1 DEF AcquireLocked, Calls, Suspend, Calm, App
<1>4. /\ NOTHING # WAITING_IO /\ WAITING_MUTEX # WAITING_IO /\ WAITING_MUTEX \in Reasons
      /\ m # NULL_MUTEX /\ TickMax \in Tick /\ TickMax # 0
  BY BoundsAssumption
     DEF NOTHING, WAITING_IO, WAITING_MUTEX, Reasons, WAITING_MEMORY, MutexID, NULL_MUTEX, Tick
<1>5. /\ frame'[curr].op = "acquire" /\ frame'[curr].mutex = m
      /\ \A u \in Thread \ {curr} : frame'[u] = frame[u] /\ due'[u] = due[u]
  BY <1>1, <1>3
<1>6. /\ f \in [Thread -> Tick] /\ b \in [Thread -> BOOLEAN] /\ f[curr] = TickMax /\ b[curr]
      /\ \A u \in Thread \ {curr} : f[u] = vm.ticksLeft[u] /\ b[u] = vm.infiniteFlag[u]
  BY <1>1, <1>4 DEF KernelState
<1>7. vm' = r
  <2>1. n = VM_TIMEOUT_INFINITE
    BY DEF AcquireLocked, Calm
  <2>2. [vm EXCEPT !.infiniteFlag[curr] = TRUE, !.ticksLeft[curr] = TickMax] = a
    BY <1>1 DEF KernelState
  <2>3. WantsMutex(a, m, curr) = k
    BY <1>1 DEF WantsMutex, KernelState
  <2> HIDE DEF a, k
  <2> QED BY <2>1, <2>2, <2>3 DEF AcquireLocked
<1> HIDE DEF f, b
<1>8. /\ a \in KernelState /\ ReadySorted(a) /\ IdleReady(a)
      /\ InLine(a, ReadyOnes(a)) /\ Standing(a, {}) /\ Running(a)
      /\ InWait(a) /\ Linked(a, {curr})
      /\ a.ticksLeft = f /\ a.infiniteFlag = b /\ a.current = curr
      /\ a.mWants = vm.mWants /\ a.waitingFor = vm.waitingFor
      /\ a.state = vm.state /\ SameLocks(vm, a)
  <2> HIDE DEF q, g, h, k, r
  <2>1. /\ f \in [Thread -> Tick] /\ b \in [Thread -> BOOLEAN]
        /\ \A u \in Thread \ {curr} : f[u] = vm.ticksLeft[u] /\ b[u] = vm.infiniteFlag[u]
    BY <1>6
  <2> QED BY <2>1, ClockSet
<1> HIDE DEF a
<1>9. Priority[curr] \in Priorities
  BY <1>1, PriorityAssumption
<1>10. q \in [Priorities -> Seq(App)] /\ vm.mWaiting[m] \in [Priorities -> Seq(App)]
  BY <1>1, <1>3, <1>9, PushType DEF KernelState
<1> HIDE DEF q
<1>11. /\ g \in [Thread -> MutexID \union {NULL_MUTEX}]
       /\ h \in [MutexID -> [Priorities -> Seq(App)]]
       /\ g[curr] = m /\ \A u \in Thread \ {curr} : g[u] = vm.mWants[u]
       /\ h[m] = q /\ \A l \in MutexID \ {m} : h[l] = vm.mWaiting[l]
  BY <1>1, <1>10 DEF KernelState
<1> HIDE DEF g, h
<1>12. k \in KernelState
  BY <1>8, <1>11, ZenonT(60) DEF KernelState
<1>13. /\ k.mWants = g /\ k.mWaiting = h
       /\ k.ticksLeft = f /\ k.infiniteFlag = b /\ k.current = curr
       /\ k.waitingFor = vm.waitingFor /\ k.state = vm.state
       /\ k.ready = a.ready /\ k.waiting = a.waiting
       /\ k.allThreads = a.allThreads /\ k.fault = a.fault
       /\ k.isLocked = vm.isLocked /\ k.owner = vm.owner
  BY <1>8 DEF KernelState, SameLocks
<1> HIDE DEF k
<1>14. ReadySorted(k) /\ IdleReady(k) /\ Standing(k, {}) /\ Running(k)
  BY <1>8, <1>13 DEF ReadySorted, IdleReady, IdleCount, Standing, Running
<1>15. InLine(k, ReadyOnes(k))
  <2>1. ReadyOnes(k) = ReadyOnes(a)
    BY <1>8, <1>13 DEF ReadyOnes
  <2> QED BY <1>8, <1>13, <2>1 DEF InLine
<1>16. InWait(k)
  <2>1. Lines(k.waiting, Reasons, k.waitingFor)
    BY <1>8, <1>13 DEF InWait
  <2>2. Lines(k.mWaiting[m], Priorities, MutexPlace(k, m))
    <3>1. Lines(vm.mWaiting[m], Priorities, MutexPlace(vm, m))
      BY <1>1 DEF Placed, Parked, InWait
    <3>2. MutexPlace(vm, m)[curr] \notin Priorities
      BY <1>1, <1>2, <1>4, AppPrioritiesType DEF MutexPlace
    <3>3. \A u \in Thread :
            MutexPlace(k, m)[u] = IF u = curr THEN Priority[curr] ELSE MutexPlace(vm, m)[u]
      BY <1>11, <1>13 DEF MutexPlace
    <3>4. Lines(Push(vm.mWaiting[m], Priority[curr], curr), Priorities, MutexPlace(k, m))
      <4> DEFINE p == Priority[curr]
                 w == MutexPlace(k, m)
                 x == MutexPlace(vm, m)
      <4> HIDE DEF p, w, x
      <4>1. Lines(Push(vm.mWaiting[m], p, curr), Priorities, w)
        <5>1. /\ Lines(vm.mWaiting[m], Priorities, x) /\ x[curr] \notin Priorities
              /\ \A u \in Thread : w[u] = IF u = curr THEN p ELSE x[u]
          BY <3>1, <3>2, <3>3 DEF p, w, x
        <5>2. p \in Priorities
          BY <1>9 DEF p
        <5> QED BY <1>3, <1>10, <5>1, <5>2, PushLines
      <4> QED BY <4>1 DEF p, w
    <3> QED BY <1>11, <1>13, <3>4 DEF q
  <2>3. ASSUME NEW l \in MutexID, l # m
        PROVE  Lines(k.mWaiting[l], Priorities, MutexPlace(k, l))
    <3>1. Lines(vm.mWaiting[l], Priorities, MutexPlace(vm, l))
      BY <1>1 DEF Placed, Parked, InWait
    <3>2. l # NULL_MUTEX
      BY DEF MutexID, NULL_MUTEX
    <3>3. \A u \in Thread : MutexPlace(k, l)[u] = MutexPlace(vm, l)[u]
      BY <1>2, <1>11, <1>13, <2>3, <3>2 DEF MutexPlace
    <3>4. k.mWaiting[l] = vm.mWaiting[l]
      BY <1>11, <1>13, <2>3
    <3> HIDE DEF r
    <3> QED BY <3>1, <3>3, <3>4 DEF Lines
  <2> QED BY <2>1, <2>2, <2>3 DEF InWait
<1>17. Linked(k, {k.current})
  <2>1. k.owner = a.owner
    BY <1>8, <1>13 DEF SameLocks
  <2>2. ASSUME NEW u \in Thread \ {curr}
        PROVE  /\ k.mWants[u] = a.mWants[u] /\ k.waitingFor[u] = a.waitingFor[u]
               /\ k.infiniteFlag = a.infiniteFlag /\ k.ticksLeft = a.ticksLeft
    BY <1>8, <1>11, <1>13
  <2> HIDE DEF r
  <2> QED BY <1>8, <1>13, <2>1, <2>2 DEF Linked
<1>18. /\ Placed(r) /\ r.waitingFor = [k.waitingFor EXCEPT ![k.current] = WAITING_MUTEX]
       /\ r.ticksLeft = k.ticksLeft /\ r.mWants = k.mWants
       /\ SameLocks(k, r) /\ SameDead(k, r)
  <2>1. /\ k.mWants[k.current] = m /\ k.owner[m] # k.current
        /\ k.infiniteFlag[k.current] /\ k.ticksLeft[k.current] # 0 /\ k.current # Idle
    BY <1>3, <1>4, <1>6, <1>11, <1>13
  <2> QED BY <1>4, <1>12, <1>14, <1>15, <1>16, <1>17, <2>1, BlockPlaced
<1> HIDE DEF r
<1>19. /\ r.isLocked = vm.isLocked /\ r.owner = vm.owner /\ SameDead(vm, r)
       /\ r.mWants = g /\ r.ticksLeft = f
       /\ r.waitingFor[curr] = WAITING_MUTEX
       /\ \A u \in Thread \ {curr} : r.waitingFor[u] = vm.waitingFor[u]
  BY <1>1, <1>13, <1>18 DEF SameLocks, SameDead, KernelState
<1>20. ASSUME NEW u \in Thread PROVE ThreadOK(u)' /\ Respects(u)
  <2>1. CASE u # curr
    BY <1>3, <1>5, <1>6, <1>7, <1>11, <1>19, <2>1, OthersOK
  <2>2. CASE u = curr
    <3>1. Respects(u)
      BY <1>1, <1>2, <1>7, <1>19, <2>2, ReasonsDiffer, SameRespects
    <3>2. Asking(u)'
      BY <1>1, <1>2, <1>3, <1>4, <1>7, <1>19, <2>2, ReasonsDiffer DEF ThreadOK, Asking
    <3>3. Acquiring(u)'
      BY <1>5, <1>7, <1>11, <1>19, <2>2 DEF Acquiring
    <3> QED BY <1>5, <2>2, <3>1, <3>2, <3>3 DEF ThreadOK, Sleeping, Exiting
  <2> QED BY <2>1, <2>2
<1> QED BY <1>7, <1>18, <1>20 DEF CalmStep

LEMMA ReleaseCalm ==
  ASSUME CalmInd, NEW m \in MutexID, VMMutexRelease(m)
  PROVE  CalmStep
<1> DEFINE e == [vm.mHeld EXCEPT ![curr] = EraseEach(@, m)]
           j == [vm EXCEPT !.mHeld = e]
           k == PassOn(j, m)
<1>1. /\ Placed(vm) /\ vm \in KernelState /\ ReadySorted(vm) /\ IdleReady(vm)
      /\ curr = vm.current /\ curr \in Thread
      /\ \A u \in Thread : ThreadOK(u)
  BY CalmType
<1>2. /\ frame[curr].op = "user" /\ m \in vm.mutexes /\ vm.isLocked[m] /\ vm.owner[m] = curr
      /\ frame' = frame /\ io' = io /\ due' = due
  BY DEF VMMutexRelease, Calls, InUser
<1>3. vm' \in {k, Yield(k)}
  <2>1. [vm EXCEPT !.mHeld[curr] = EraseEach(@, m)] = j
    BY <1>1 DEF KernelState
  <2> HIDE DEF j
  <2> QED BY <2>1 DEF VMMutexRelease
<1>4. e \in [Thread -> Seq(MutexID)]
  BY <1>1, EraseEachType DEF KernelState
<1> HIDE DEF e
<1>5. /\ j \in KernelState
      /\ j.ready = vm.ready /\ j.current = vm.current /\ j.state = vm.state
      /\ j.waiting = vm.waiting /\ j.waitingFor = vm.waitingFor
      /\ j.ticksLeft = vm.ticksLeft /\ j.infiniteFlag = vm.infiniteFlag
      /\ j.mWants = vm.mWants /\ j.mWaiting = vm.mWaiting
      /\ j.allThreads = vm.allThreads /\ j.fault = vm.fault /\ j.mutexes = vm.mutexes
      /\ j.isLocked = vm.isLocked /\ j.owner = vm.owner
  BY <1>1, <1>4 DEF KernelState
<1> HIDE DEF j
<1>6. Placed(j) /\ ReadySorted(j) /\ IdleReady(j)
  <2>1. \A u \in Thread : vm.state[u] # "DEAD" => u \in j.allThreads
    BY <1>1, <1>5 DEF Placed, Standing
  <2>2. Placed(j)
    BY <1>1, <1>5, <2>1, PlacedSame
  <2> QED BY <1>1, <1>5, <2>2 DEF ReadySorted, IdleReady, IdleCount
<1>7. PassKeeps(j, k)
  BY <1>2, <1>5, <1>6, PassOnFrees, PassOnGrants
<1>8. /\ InLine(k, ReadyOnes(k)) /\ Parked(k) /\ Standing(k, {}) /\ Passed(j, k, curr)
  <2>1. {} \in SUBSET {curr} /\ {} \in SUBSET App /\ {} \subseteq {}
    OBVIOUS
  <2>2. \A x : ReadyOnes(x) \union {} = ReadyOnes(x)
    OBVIOUS
  <2>3. InLine(j, ReadyOnes(j) \union {}) /\ Parked(j) /\ Standing(j, {})
    BY <1>6, <2>2 DEF Placed
  <2>4. j.isLocked[m] /\ j.owner[m] = curr
    BY <1>2, <1>5
  <2>5. /\ InLine(k, ReadyOnes(k) \union {}) /\ Parked(k) /\ Standing(k, {})
        /\ Passed(j, k, curr)
    BY <1>1, <1>5, <2>1, <2>3, <2>4, PassOnPlaced
  <2> QED BY <2>2, <2>5
<1> HIDE DEF k
<1>9. /\ k \in KernelState /\ ReadySorted(k) /\ k.current = curr /\ IdleReady(k)
  BY <1>1, <1>5, <1>6, <1>7 DEF PassKeeps, IdleReady, IdleCount
<1>10. Placed(k)
  <2>1. Running(k)
    BY <1>1, <1>5, <1>6, <1>8, <1>9 DEF Placed, Running, Passed
  <2> QED BY <1>8, <2>1 DEF Placed
<1>11. Placed(vm') /\ SameWaiting(k, vm') /\ SameDead(k, vm')
  <2>1. Placed(Yield(k)) /\ SameWaiting(k, Yield(k)) /\ SameDead(k, Yield(k))
    BY <1>9, <1>10, YieldPlaced
  <2>2. SameWaiting(k, k) /\ SameDead(k, k)
    BY DEF SameWaiting, SameLocks, SameDead
  <2> QED BY <1>3, <1>10, <2>1, <2>2
<1>12. ASSUME NEW u \in Thread PROVE ThreadOK(u)' /\ Respects(u)
  <2>1. CASE u # curr
    <3>1. Undisturbed(vm, j, u)
      BY <1>5 DEF Undisturbed
    <3>2. Undisturbed(j, k, u)
      BY <1>8, <2>1 DEF Passed
    <3>3. Undisturbed(k, vm', u)
      BY <1>11, UndisturbedSame
    <3>4. Undisturbed(vm, vm', u)
      BY <3>1, <3>2, <3>3, UndisturbedTransitive
    <3> QED BY <1>1, <1>2, <3>4, UndisturbedOK
  <2>2. CASE u = curr
    <3>1. vm'.waitingFor[u] = vm.waitingFor[u]
      BY <1>5, <1>8, <1>11, <2>2 DEF Passed, SameWaiting
    <3>2. Asking(u)'
      BY <1>1, <1>2, <3>1 DEF ThreadOK, Asking
    <3>3. Respects(u)
      <4>1. vm.state[u] = "RUNNING"
        BY <1>1, <2>2, CurrentFree
      <4> QED BY <1>2, <2>2, <3>1, <4>1 DEF Respects
    <3> QED BY <1>2, <2>2, <3>2, <3>3 DEF ThreadOK, Sleeping, Acquiring, Exiting
  <2> QED BY <2>1, <2>2
<1> QED BY <1>11, <1>12 DEF CalmStep

(* A call returns to its caller; the scheduler's data stay as they are.    *)
LEMMA ReturnOK ==
  ASSUME CalmInd, vm' = vm, io' = io, frame' = [frame EXCEPT ![curr] = User],
         \A u \in Thread \ {curr} : due'[u] = due[u]
  PROVE  CalmStep
<1>1. /\ Placed(vm) /\ curr \in Thread /\ frame \in [Thread -> Frames]
      /\ \A u \in Thread : ThreadOK(u)
  BY CalmType
<1>2. frame'[curr].op = "user" /\ \A u \in Thread \ {curr} : frame'[u] = frame[u]
  BY <1>1 DEF User
<1>3. ASSUME NEW u \in Thread PROVE ThreadOK(u)' /\ Respects(u)
  <2>1. Respects(u)
    BY DEF Respects
  <2>2. CASE u # curr
    BY <1>1, <1>2, <2>1, <2>2 DEF ThreadOK, Asking, Sleeping, Acquiring, Exiting
  <2>3. CASE u = curr
    BY <1>1, <1>2, <2>1, <2>3 DEF ThreadOK, Asking, Sleeping, Acquiring, Exiting
  <2> QED BY <2>2, <2>3
<1> QED BY <1>1, <1>3 DEF CalmStep, Placed, InLine, Parked, InWait, Linked, Standing, Running

LEMMA FinishCalm ==
  ASSUME CalmInd, Finish
  PROVE  CalmStep
<1>1. /\ Placed(vm) /\ vm \in KernelState /\ LocksOK(vm)
      /\ curr = vm.current /\ curr \in Thread
      /\ frame \in [Thread -> Frames] /\ due \in [Thread -> Tick]
      /\ \A u \in Thread : ThreadOK(u)
  BY CalmType
<1>2. /\ vm.state[curr] = "RUNNING" /\ vm.waitingFor[curr] = NOTHING
      /\ vm.mWants[curr] = NULL_MUTEX
  BY <1>1, CurrentFree
<1>3. ~ ExitReturns
  BY <1>1, <1>2 DEF ExitReturns, Finishing, ThreadOK, Exiting
<1>4. ASSUME SleepReturns \/ IOReturns PROVE CalmStep
  <2>1. /\ vm' = vm /\ io' = io /\ frame' = [frame EXCEPT ![curr] = User]
        /\ \A u \in Thread \ {curr} : due'[u] = due[u]
    BY <1>1, <1>4 DEF SleepReturns, IOReturns, Return
  <2> QED BY <2>1, ReturnOK
<1>5. ASSUME AcquireReturns PROVE CalmStep
  <2> DEFINE m == frame[curr].mutex
  <2>1. /\ io' = io /\ frame' = [frame EXCEPT ![curr] = User]
        /\ \A u \in Thread \ {curr} : due'[u] = due[u]
    BY <1>1, <1>5 DEF AcquireReturns, Return
  <2>2. m \in MutexID /\ m # NULL_MUTEX /\ vm.isLocked[m]
    BY <1>1, <1>2, <1>5
       DEF AcquireReturns, Finishing, ThreadOK, Acquiring, MutexID, NULL_MUTEX
  <2>3. m \in vm.mutexes
    BY <1>1, <2>2 DEF LocksOK, Waited
  <2>4. \A p \in Priorities : ~ Holds(vm.mWaiting[m][p], curr)
    <3>1. \A p \in Priorities : MutexPlace(vm, m)[curr] # p
      BY <1>1, <1>2, <2>2, AppPrioritiesType DEF MutexPlace
    <3>2. Lines(vm.mWaiting[m], Priorities, MutexPlace(vm, m))
      BY <1>1, <2>2 DEF Placed, Parked, InWait
    <3> QED BY <1>1, <3>1, <3>2 DEF Lines
  <2>5. vm' = vm
    BY <1>5, <2>3, <2>4 DEF AcquireReturns, StopWaiting
  <2> QED BY <2>1, <2>5, ReturnOK
<1> QED BY <1>3, <1>4, <1>5 DEF Finish

(* A tick takes one from what is due and at most one from ticksLeft.       *)
LEMMA AlarmCalm ==
  ASSUME CalmInd, AlarmHandler
  PROVE  CalmStep
<1>1. /\ Good(vm) /\ Placed(vm) /\ vm \in KernelState /\ due \in [Thread -> Tick]
      /\ \A u \in Thread : ThreadOK(u)
  BY CalmType
<1>2. /\ vm' = TickOf(vm) /\ frame' = frame /\ io' = io
      /\ due' = [t \in Thread |-> IF due[t] = 0 THEN 0 ELSE due[t] - 1]
  BY DEF AlarmHandler
<1>3. /\ Placed(vm') /\ SameLocks(vm, vm') /\ \A u \in Thread : Ticked(vm, vm', u)
  BY <1>1, <1>2, TickPlaced
<1>4. vm' \in KernelState
  <2>1. Good(vm')
    BY SignalKeeps DEF CalmInd, Signal, Ind, IndStep
  <2> QED BY <2>1, GoodType
<1>5. /\ WAITING_IO # WAITING_SLEEP /\ NOTHING # WAITING_IO /\ NOTHING # WAITING_SLEEP
  BY DEF WAITING_IO, WAITING_SLEEP, NOTHING
<1>6. ASSUME NEW u \in Thread PROVE ThreadOK(u)' /\ Respects(u)
  <2>1. ThreadOK(u) /\ Ticked(vm, vm', u)
    BY <1>1, <1>3
  <2>2. Asking(u)'
    BY <1>2, <1>5, <2>1, ReasonsDiffer DEF ThreadOK, Asking, Ticked
  <2>3. Sleeping(u)'
    <3> SUFFICES ASSUME vm'.state[u] # "DEAD", frame'[u].op = "sleep", due'[u] # 0
                 PROVE  vm'.waitingFor[u] = WAITING_SLEEP /\ due'[u] <= vm'.ticksLeft[u]
      BY DEF Sleeping
    <3>1. due[u] \in Nat /\ vm.ticksLeft[u] \in Nat /\ vm'.ticksLeft[u] \in Nat
      BY <1>1, <1>4, BoundsAssumption DEF KernelState, Tick
    <3>2. due[u] # 0 /\ due'[u] = due[u] - 1
      BY <1>2
    <3>3. vm.waitingFor[u] = WAITING_SLEEP /\ due[u] <= vm.ticksLeft[u]
      BY <1>2, <2>1, <3>2 DEF ThreadOK, Sleeping, Ticked
    <3>4. vm'.waitingFor[u] = WAITING_SLEEP
      BY <2>1, <3>1, <3>2, <3>3 DEF Ticked
    <3> QED BY <2>1, <3>1, <3>2, <3>3, <3>4 DEF Ticked
  <2>4. Acquiring(u)'
    BY <1>2, <1>3, <2>1 DEF ThreadOK, Acquiring, Ticked, SameLocks
  <2>5. Exiting(u)'
    BY <1>2, <2>1 DEF ThreadOK, Exiting, Ticked
  <2>6. Respects(u)
    BY <1>3, <2>1, ReasonsDiffer DEF Respects, Ticked, SameLocks
  <2> QED BY <2>2, <2>3, <2>4, <2>5, <2>6 DEF ThreadOK
<1> QED BY <1>3, <1>6 DEF CalmStep

(* An answer finds the thread that asked waiting for it.                   *)
LEMMA FileCalm ==
  ASSUME CalmInd, NEW t \in Thread, FileHandler(t)
  PROVE  CalmStep
<1> DEFINE k == RemoveFromWaiting(vm, t)
           r == Preempt(AddToReady(k, t), t)
<1>1. /\ Placed(vm) /\ vm \in KernelState /\ ReadySorted(vm) /\ IdleReady(vm)
      /\ io \in [Thread -> Nat] /\ io[Idle] = 0
      /\ \A u \in Thread : ThreadOK(u)
  BY CalmType
<1>2. io[t] > 0 /\ frame' = frame /\ due' = due /\ io' = [io EXCEPT ![t] = @ - 1]
  BY DEF FileHandler
<1>3. /\ NOTHING # WAITING_IO /\ WAITING_IO # WAITING_MUTEX /\ WAITING_IO # WAITING_SLEEP
      /\ NULL_MUTEX \notin MutexID
  BY DEF NOTHING, WAITING_IO, WAITING_MUTEX, WAITING_SLEEP, NULL_MUTEX, MutexID
<1>4. vm.waitingFor[t] = WAITING_IO /\ io[t] = 1 /\ t \in App
  BY <1>1, <1>2 DEF ThreadOK, Asking, App
<1>5. vm.state[t] = "WAITING" /\ t \in vm.allThreads
  BY <1>1, <1>3, <1>4 DEF Placed, Standing
<1>6. vm.mWants[t] = NULL_MUTEX
  BY <1>1, <1>3, <1>4 DEF Placed, Parked, Linked
<1>7. vm' = r
  BY <1>5 DEF FileHandler
<1>8. /\ Parked(k)
      /\ k.state = vm.state /\ k.ready = vm.ready /\ k.current = vm.current
      /\ k.mWants = vm.mWants /\ k.allThreads = vm.allThreads /\ k.fault = vm.fault
      /\ SameLocks(vm, k)
      /\ \A u \in Thread :
           /\ k.waitingFor[u] = IF u = t THEN NOTHING ELSE vm.waitingFor[u]
           /\ u # t => k.ticksLeft[u] = vm.ticksLeft[u]
  <2>1. InWait(vm) /\ Linked(vm, {t})
    BY <1>1 DEF Placed, Parked, Linked
  <2> QED BY <1>1, <1>4, <1>6, <2>1, RemoveFromWaitingPlaced
<1>9. k \in KernelState
  BY <1>1, RemoveFromWaitingType DEF SameReady
<1> HIDE DEF k
<1>10. ReadySorted(k) /\ IdleReady(k)
  BY <1>1, <1>8 DEF ReadySorted, IdleReady, IdleCount
<1>11. InLine(k, ReadyOnes(k)) /\ Running(k) /\ Standing(k, {t})
  <2>1. ReadyOnes(k) = ReadyOnes(vm)
    BY <1>8 DEF ReadyOnes
  <2> QED BY <1>1, <1>8, <2>1 DEF Placed, InLine, Running, Standing
<1>12. /\ Placed(r) /\ SameWaiting(k, r) /\ r.state[t] # "DEAD"
       /\ \A u \in Thread \ {t} : r.state[u] = "DEAD" <=> k.state[u] = "DEAD"
  <2>1. /\ t \in k.allThreads /\ k.waitingFor[t] = NOTHING
        /\ k.state[t] \in {"DEAD", "WAITING"}
    BY <1>5, <1>8
  <2> QED BY <1>4, <1>8, <1>9, <1>10, <1>11, <2>1, WakePlaced
<1> HIDE DEF r
<1>13. /\ SameDead(vm, r) /\ SameLocks(vm, r) /\ r.mWants = vm.mWants
       /\ r.waitingFor[t] = NOTHING
       /\ \A u \in Thread \ {t} : /\ r.waitingFor[u] = vm.waitingFor[u]
                                  /\ r.ticksLeft[u] = vm.ticksLeft[u]
  BY <1>5, <1>8, <1>12 DEF SameDead, SameWaiting, SameLocks
<1>14. ASSUME NEW u \in Thread PROVE ThreadOK(u)' /\ Respects(u)
  <2>1. CASE u # t
    <3>1. Undisturbed(vm, vm', u)
      BY <1>7, <1>13, <2>1 DEF Undisturbed, SameDead, SameLocks
    <3> QED BY <1>1, <1>2, <2>1, <3>1, UndisturbedOK
  <2>2. CASE u = t
    <3>1. Asking(u)'
      BY <1>1, <1>2, <1>3, <1>4, <1>7, <1>13, <2>2, ReasonsDiffer DEF Asking
    <3>2. Sleeping(u)' /\ Acquiring(u)' /\ Exiting(u)'
      BY <1>1, <1>2, <1>3, <1>4, <1>6, <1>7, <1>13, <2>2
         DEF ThreadOK, Sleeping, Acquiring, Exiting, SameDead, SameLocks
    <3>3. Respects(u)
      BY <1>4, <1>7, <1>13, <2>2, ReasonsDiffer, SameRespects DEF SameLocks
    <3> QED BY <3>1, <3>2, <3>3 DEF ThreadOK
  <2> QED BY <2>1, <2>2
<1> QED BY <1>7, <1>12, <1>14 DEF CalmStep

LEMMA NextCalm ==
  ASSUME Calm, CalmInd, [Next]_vars
  PROVE  CalmInd' /\ \A u \in Thread : Respects(u)
<1>1. Ind'
  BY NextKeeps DEF Calm, CalmInd, IndStep
<1>2. CASE Call
  <2>1. CASE \/ VMThreadCreate \/ (\E t \in Thread : VMThreadDelete(t))
             \/ VMMutexCreate \/ (\E m \in MutexID : VMMutexDelete(m))
    BY <2>1, CreateCalm, <1>1 DEF CalmStep, CalmInd
  <2>2. CASE \E t \in Thread : VMThreadActivate(t)
    BY <2>2, ActivateCalm, <1>1 DEF CalmStep, CalmInd
  <2>3. CASE (\E t \in Thread : VMThreadTerminate(t)) \/ SkeletonExit
    BY <2>3, TerminateCalm, <1>1 DEF CalmStep, CalmInd
  <2>4. CASE \E n \in SleepTimes : VMThreadSleep(n)
    BY <2>4, SleepCalm, <1>1 DEF CalmStep, CalmInd
  <2>5. CASE \E m \in MutexID : AcquireFree(m)
    BY <2>5, AcquireFreeCalm, <1>1 DEF CalmStep, CalmInd
  <2>6. CASE \E m \in MutexID, n \in AcquireTimeouts : AcquireLocked(m, n)
    BY <2>6, AcquireLockedCalm, <1>1 DEF CalmStep, CalmInd
  <2>7. CASE \E m \in MutexID : VMMutexRelease(m)
    BY <2>7, ReleaseCalm, <1>1 DEF CalmStep, CalmInd
  <2>8. CASE WaitForIO
    BY <2>8, IOCalm, <1>1 DEF CalmStep, CalmInd
  <2> QED BY <1>2, <2>1, <2>2, <2>3, <2>4, <2>5, <2>6, <2>7, <2>8 DEF Call
<1>3. CASE Finish
  BY <1>3, FinishCalm, <1>1 DEF CalmStep, CalmInd
<1>4. CASE Signal
  <2>1. CASE AlarmHandler
    BY <2>1, AlarmCalm, <1>1 DEF CalmStep, CalmInd
  <2>2. CASE \E t \in Thread : FileHandler(t)
    BY <2>2, FileCalm, <1>1 DEF CalmStep, CalmInd
  <2> QED BY <1>4, <2>1, <2>2 DEF Signal
<1>5. CASE UNCHANGED vars
  <2>1. vm' = vm /\ frame' = frame /\ io' = io /\ due' = due
    BY <1>5 DEF vars
  <2>2. Placed(vm')
    BY <2>1 DEF CalmInd
  <2>3. ASSUME NEW u \in Thread PROVE ThreadOK(u)' /\ Respects(u)
    <3>1. Undisturbed(vm, vm', u)
      BY <2>1 DEF Undisturbed
    <3> QED BY <2>1, <3>1, UndisturbedOK DEF CalmInd
  <2> QED BY <1>1, <2>2, <2>3 DEF CalmInd
<1> QED BY <1>2, <1>3, <1>4, <1>5 DEF Next

-----------------------------------------------------------------------------
(* The theorems                                                            *)

(***************************************************************************)
(* In a calm application every thread is where its state says, in every    *)
(* state, and is as far in its call as the queues say.                     *)
(***************************************************************************)
THEOREM CalmInvariance ==
  ASSUME Calm
  PROVE  Spec => []CalmInd
<1>1. Init => CalmInd
  BY InitCalm
<1>2. CalmInd /\ [Next]_vars => CalmInd'
  BY NextCalm
<1> QED BY <1>1, <1>2, PTL DEF Spec

LEMMA CountOnce ==
  ASSUME NEW q, NoRepeats(q, 1), NEW t
  PROVE  Count(q, t) = IF Holds(q, t) THEN 1 ELSE 0
<1> DEFINE J == {j \in 1 .. Len(q) : q[j] = t}
<1>1. CASE ~ Holds(q, t)
  <2>1. J = {}
    BY <1>1 DEF Holds
  <2> QED BY <1>1, <2>1, FS_EmptySet DEF Count
<1>2. CASE Holds(q, t)
  <2>1. PICK j \in 1 .. Len(q) : q[j] = t
    BY <1>2 DEF Holds
  <2>2. J = {j}
    BY <2>1 DEF NoRepeats
  <2> QED BY <1>2, <2>2, FS_Singleton DEF Count
<1> QED BY <1>1, <1>2

(***************************************************************************)
(* A thread of a calm application is in the one queue its state calls for, *)
(* once: no call, tick or answer leaves a second entry, or none.           *)
(***************************************************************************)
THEOREM AlwaysInOneQueue ==
  ASSUME Calm
  PROVE  Spec => []InOneQueue
<1>1. CalmInd => InOneQueue
  <2> SUFFICES ASSUME CalmInd PROVE InOneQueue
    OBVIOUS
  <2>1. /\ InLine(vm, ReadyOnes(vm)) /\ InWait(vm) /\ Linked(vm, {}) /\ Standing(vm, {})
        /\ Running(vm) /\ vm \in KernelState
    BY GoodType DEF CalmInd, Ind, Placed, Parked
  <2>2. ASSUME NEW t \in App
        PROVE  /\ Count(vm.ready[Priority[t]], t) = IF vm.state[t] = "READY" THEN 1 ELSE 0
               /\ \A r \in Reasons :
                    Count(vm.waiting[r], t) =
                      IF vm.state[t] = "WAITING" /\ vm.waitingFor[t] = r THEN 1 ELSE 0
               /\ \A m \in MutexID :
                    Count(vm.mWaiting[m][Priority[t]], t) =
                      IF /\ vm.state[t] = "WAITING"
                         /\ vm.waitingFor[t] = WAITING_MUTEX
                         /\ vm.mWants[t] = m
                      THEN 1 ELSE 0
    <3>1. /\ t \in Thread /\ Priority[t] \in AppPriorities /\ Priority[t] \in Priorities
          /\ NOTHING \notin Priorities /\ NOTHING \notin Reasons
      BY AppPrioritiesType
    <3>2. vm.state[t] = "WAITING" <=> vm.waitingFor[t] # NOTHING
      BY <2>1, <3>1 DEF Standing
    <3>3. Count(vm.ready[Priority[t]], t) = IF vm.state[t] = "READY" THEN 1 ELSE 0
      <4>1. ReadyPlace(ReadyOnes(vm))[t] = Priority[t] <=> vm.state[t] = "READY"
        BY <3>1 DEF ReadyPlace, ReadyOnes
      <4>2. /\ NoRepeats(vm.ready[Priority[t]], 1)
            /\ Holds(vm.ready[Priority[t]], t) <=> vm.state[t] = "READY"
        BY <2>1, <3>1, <4>1 DEF InLine, Lines
      <4> QED BY <4>2, CountOnce
    <3>4. ASSUME NEW r \in Reasons
          PROVE  Count(vm.waiting[r], t) =
                   IF vm.state[t] = "WAITING" /\ vm.waitingFor[t] = r THEN 1 ELSE 0
      <4>1. /\ NoRepeats(vm.waiting[r], 1)
            /\ Holds(vm.waiting[r], t) <=> vm.waitingFor[t] = r
        BY <2>1, <3>1 DEF InWait, Lines
      <4> QED BY <3>1, <3>2, <4>1, CountOnce
    <3>5. ASSUME NEW m \in MutexID
          PROVE  Count(vm.mWaiting[m][Priority[t]], t) =
                   IF /\ vm.state[t] = "WAITING"
                      /\ vm.waitingFor[t] = WAITING_MUTEX
                      /\ vm.mWants[t] = m
                   THEN 1 ELSE 0
      <4>1. MutexPlace(vm, m)[t] = Priority[t] <=> vm.mWants[t] = m
        BY <3>1 DEF MutexPlace
      <4>2. /\ NoRepeats(vm.mWaiting[m][Priority[t]], 1)
            /\ Holds(vm.mWaiting[m][Priority[t]], t) <=> vm.mWants[t] = m
        BY <2>1, <3>1, <4>1 DEF InWait, Lines
      <4>3. vm.mWants[t] = m => vm.waitingFor[t] = WAITING_MUTEX /\ vm.state[t] = "WAITING"
        <5>1. m # NULL_MUTEX /\ WAITING_MUTEX # NOTHING
          BY DEF MutexID, NULL_MUTEX, WAITING_MUTEX, NOTHING
        <5> QED BY <2>1, <3>1, <3>2, <5>1 DEF Linked
      <4> QED BY <4>2, <4>3, CountOnce
    <3> QED BY <3>3, <3>4, <3>5
  <2>3. \A t \in Thread : vm.state[t] = "RUNNING" <=> t = curr
    BY <2>1 DEF Running, curr
  <2> QED BY <2>2, <2>3 DEF InOneQueue
<1> QED BY <1>1, CalmInvariance, PTL

(***************************************************************************)
(* VMThreadSleep of a calm application returns only when the ticks it was  *)
(* asked for have passed.                                                  *)
(***************************************************************************)
THEOREM AlwaysSleepsLongEnough ==
  ASSUME Calm
  PROVE  Spec => []SleepsLongEnough
<1>1. CalmInd => SleepsLongEnough
  <2> SUFFICES ASSUME CalmInd, Finishing("sleep") PROVE due[curr] = 0
    BY DEF SleepsLongEnough
  <2>1. NOTHING # WAITING_SLEEP
    BY DEF NOTHING, WAITING_SLEEP
  <2>2. /\ curr \in Thread /\ vm.state[curr] = "RUNNING" /\ vm.waitingFor[curr] = NOTHING
    BY CalmType, CurrentFree
  <2> QED BY <2>1, <2>2, CalmType DEF Finishing, ThreadOK, Sleeping
<1> QED BY <1>1, CalmInvariance, PTL

(***************************************************************************)
(* VMMutexAcquire with an infinite timeout returns to its caller only with *)
(* the mutex, in every calm application.                                   *)
(***************************************************************************)
THEOREM AlwaysAcquires ==
  ASSUME Calm
  PROVE  Spec => []InfiniteAcquireSucceeds
<1>1. CalmInd => InfiniteAcquireSucceeds
  <2> SUFFICES ASSUME CalmInd, Finishing("acquire")
               PROVE  /\ vm.isLocked[frame[curr].mutex]
                      /\ vm.owner[frame[curr].mutex] = curr
    BY DEF InfiniteAcquireSucceeds
  <2>1. NULL_MUTEX \notin MutexID
    BY DEF MutexID, NULL_MUTEX
  <2>2. /\ curr \in Thread /\ vm.state[curr] = "RUNNING" /\ vm.mWants[curr] = NULL_MUTEX
    BY CalmType, CurrentFree
  <2> QED BY <2>1, <2>2, CalmType DEF Finishing, ThreadOK, Acquiring
<1> QED BY <1>1, CalmInvariance, PTL

(***************************************************************************)
(* A thread of a calm application that comes back from a wait for I/O has  *)
(* been woken by the answer to its own request.                            *)
(***************************************************************************)
THEOREM AlwaysOwnAnswer ==
  ASSUME Calm
  PROVE  Spec => []OwnAnswer
<1>1. CalmInd => OwnAnswer
  <2> SUFFICES ASSUME CalmInd PROVE io[curr] = 0
    BY DEF OwnAnswer
  <2>1. NOTHING # WAITING_IO
    BY DEF NOTHING, WAITING_IO
  <2>2. /\ curr \in Thread /\ vm.waitingFor[curr] = NOTHING
    BY CalmType, CurrentFree
  <2> QED BY <2>1, <2>2, CalmType DEF ThreadOK, Asking
<1> QED BY <1>1, CalmInvariance, PTL

(***************************************************************************)
(* A calm application never makes the virtual machine follow a pointer to  *)
(* a thread or mutex that was freed, a NULL pointer, or abort.             *)
(***************************************************************************)
THEOREM AlwaysNoFault ==
  ASSUME Calm
  PROVE  Spec => []NoFault
<1>1. CalmInd => NoFault
  BY DEF CalmInd, Placed, Standing, NoFault
<1> QED BY <1>1, CalmInvariance, PTL

(***************************************************************************)
(* In a calm application a thread that has been terminated stays DEAD      *)
(* until it is activated: no stale queue entry, tick or answer revives it. *)
(***************************************************************************)
THEOREM StaysDead ==
  ASSUME Calm
  PROVE  Spec => OnlyActivateRevives
<1>1. /\ CalmInd /\ [Next]_vars
      => [\A t \in Thread :
            vm.state[t] = "DEAD" /\ vm'.state[t] # "DEAD" => VMThreadActivate(t)]_vars
  BY NextCalm DEF Respects
<1> QED BY <1>1, CalmInvariance, PTL DEF Spec, OnlyActivateRevives

(***************************************************************************)
(* In a calm application a mutex leaves its owner only in a call of the    *)
(* owner's own, or because the owner is terminated.                        *)
(***************************************************************************)
THEOREM OwnersKeepTheirs ==
  ASSUME Calm
  PROVE  Spec => OwnerKeeps
<1>1. /\ CalmInd /\ [Next]_vars
      => [\A m \in MutexID, t \in Thread :
            vm.isLocked[m] /\ vm.owner[m] = t /\ vm'.owner[m] # t =>
              curr = t \/ vm'.state[t] = "DEAD"]_vars
  BY NextCalm DEF Respects
<1> QED BY <1>1, CalmInvariance, PTL DEF Spec, OwnerKeeps

=============================================================================
