----------------------------- MODULE SystemProofs -----------------------------
(***************************************************************************)
(* Proofs about Machine and System: no message is forgotten at either end, *)
(* for any number of threads and descriptors and any bound on the pipe;    *)
(* the whole system behaves as Machine says, so that what is proved of     *)
(* Machine holds of it; and a thread that waits for an answer has one on   *)
(* its way, for any number of threads, any priorities and any number of    *)
(* blocks of shared memory.                                                *)
(***************************************************************************)
EXTENDS System, ConsoleProofs, FunctionTheorems

-----------------------------------------------------------------------------
(* Machine                                                                 *)

(* What is left to do for the requests, with what its proof needs.         *)
RequestInv == pipe \in Nat /\ NoRequestForgotten

LEMMA RequestInit == MachineInit => RequestInv
  BY DEF MachineInit, RequestInv, NoRequestForgotten

(* The threads, and the handlers on their stacks, add requests with their  *)
(* signal and take none away.                                              *)
LEMMA RequestThreads ==
  ASSUME RequestInv, NEW t, ThreadStep(t)
  PROVE  RequestInv'
<1> USE DEF RequestInv, NoRequestForgotten
<1>1. CASE \E what : MachineRequest(t, what)
  BY <1>1 DEF MachineRequest, Send
<1>2. CASE MachineTerminate(t)
  BY <1>2 DEF MachineTerminate, Send
<1>3. CASE ReplySignal(t)
  BY <1>3 DEF ReplySignal, child
<1>4. CASE Receive(t)
  BY <1>4 DEF Receive, child
<1>5. CASE CallBack(t)
  BY <1>5 DEF CallBack, child
<1> QED
  BY <1>1, <1>2, <1>3, <1>4, <1>5 DEF ThreadStep

(* The machine process turns its signal into a byte, and the byte into a   *)
(* loop that ends when there is no request.                                *)
LEMMA RequestMachine ==
  ASSUME RequestInv, MachineStep
  PROVE  RequestInv'
<1> USE DEF RequestInv, NoRequestForgotten
<1>1. CASE RequestSignal
  BY <1>1 DEF RequestSignal
<1>2. CASE Poll
  BY <1>2 DEF Poll
<1>3. CASE PollTimesOut
  BY <1>3 DEF PollTimesOut
<1>4. CASE Serve
  BY <1>4 DEF Serve
<1>5. CASE PassDone
  BY <1>5 DEF PassDone
<1>6. CASE \E d \in Descriptors : Read(d)
  BY <1>6 DEF Read
<1> QED
  BY <1>1, <1>2, <1>3, <1>4, <1>5, <1>6 DEF MachineStep

LEMMA RequestStep == RequestInv /\ [MachineNext]_machineVars => RequestInv'
<1> SUFFICES ASSUME RequestInv, [MachineNext]_machineVars
             PROVE  RequestInv'
  OBVIOUS
<1> USE DEF RequestInv, NoRequestForgotten
<1>1. CASE \E t \in Threads : ThreadStep(t)
  BY <1>1, RequestThreads
<1>2. CASE Killed
  BY <1>2 DEF Killed, child
<1>3. CASE MachineStep
  BY <1>3, RequestMachine
<1>4. CASE \E d \in Descriptors : Input(d)
  BY <1>4 DEF Input
<1>5. CASE UNCHANGED machineVars
  BY <1>5 DEF machineVars
<1> QED
  BY <1>1, <1>2, <1>3, <1>4, <1>5 DEF MachineNext

(* No request is forgotten: a signal that is lost because one is pending   *)
(* already takes none with it, since MachineRequestSignalHandler leads to  *)
(* a pass over all requests.                                               *)
THEOREM RequestsReachMachine == MachineSpec => []NoRequestForgotten
<1>1. RequestInv => NoRequestForgotten
  BY DEF RequestInv
<1> QED
  BY RequestInit, RequestStep, <1>1, PTL DEF MachineSpec

-----------------------------------------------------------------------------
LEMMA ReplyInit == MachineInit => NoReplyForgotten
  BY DEF MachineInit, NoReplyForgotten

(* A handler leaves its loop only when there is no reply.                  *)
LEMMA ReplyThreads ==
  ASSUME NoReplyForgotten, NEW t, ThreadStep(t)
  PROVE  NoReplyForgotten'
<1> USE DEF NoReplyForgotten
<1>1. CASE \E what : MachineRequest(t, what)
  BY <1>1 DEF MachineRequest, Send
<1>2. CASE MachineTerminate(t)
  BY <1>2 DEF MachineTerminate, Send
<1>3. CASE ReplySignal(t)
  BY <1>3 DEF ReplySignal
<1>4. CASE Receive(t)
  BY <1>4 DEF Receive, InHandler
<1>5. CASE CallBack(t)
  BY <1>5 DEF CallBack
<1> QED
  BY <1>1, <1>2, <1>3, <1>4, <1>5 DEF ThreadStep

(* The machine process sends SIGUSR2 after each reply.                     *)
LEMMA ReplyMachine ==
  ASSUME NoReplyForgotten, MachineStep
  PROVE  NoReplyForgotten'
<1> USE DEF NoReplyForgotten, Nothing, MachineSendReply, parent
<1>1. CASE RequestSignal
  BY <1>1 DEF RequestSignal
<1>2. CASE Poll
  BY <1>2 DEF Poll
<1>3. CASE PollTimesOut
  BY <1>3 DEF PollTimesOut
<1>4. CASE Serve
  BY <1>4 DEF Serve, ServeHead
<1>5. CASE PassDone
  BY <1>5 DEF PassDone
<1>6. CASE \E d \in Descriptors : Read(d)
  BY <1>6 DEF Read
<1> QED
  BY <1>1, <1>2, <1>3, <1>4, <1>5, <1>6 DEF MachineStep

LEMMA ReplyStep == NoReplyForgotten /\ [MachineNext]_machineVars => NoReplyForgotten'
<1> SUFFICES ASSUME NoReplyForgotten, [MachineNext]_machineVars
             PROVE  NoReplyForgotten'
  OBVIOUS
<1>1. CASE \E t \in Threads : ThreadStep(t)
  BY <1>1, ReplyThreads
<1>2. CASE Killed
  BY <1>2 DEF Killed, NoReplyForgotten
<1>3. CASE MachineStep
  BY <1>3, ReplyMachine
<1>4. CASE \E d \in Descriptors : Input(d)
  BY <1>4 DEF Input, Nothing, parent, NoReplyForgotten
<1>5. CASE UNCHANGED machineVars
  BY <1>5 DEF machineVars, NoReplyForgotten
<1> QED
  BY <1>1, <1>2, <1>3, <1>4, <1>5 DEF MachineNext

(* No reply is forgotten: SIGUSR2 that comes while it is pending is lost,  *)
(* but the loop of MachineReplySignalHandler takes every reply it finds,   *)
(* on whichever thread's stack it waits to go on.                          *)
THEOREM RepliesReachThreads == MachineSpec => []NoReplyForgotten
  BY ReplyInit, ReplyStep, PTL DEF MachineSpec

-----------------------------------------------------------------------------
(* Counting messages                                                       *)

Tally(q, S) == Cardinality({i \in 1 .. Len(q) : q[i] \in S})

LEMMA TallyType ==
  ASSUME NEW T, NEW q \in Seq(T), NEW S
  PROVE  /\ Tally(q, S) \in Nat
         /\ \A i \in 1 .. Len(q) : q[i] \in S => Tally(q, S) > 0
<1> DEFINE I == {i \in 1 .. Len(q) : q[i] \in S}
<1>1. IsFiniteSet(1 .. Len(q)) /\ I \in SUBSET (1 .. Len(q))
  BY FS_Interval, LenProperties
<1>2. IsFiniteSet(I)
  BY <1>1, FS_Subset
<1>3. Cardinality(I) \in Nat
  BY <1>2, FS_CardinalityType
<1>4. ASSUME NEW i \in 1 .. Len(q), q[i] \in S PROVE Cardinality(I) > 0
  <2>1. I # {}
    BY <1>4
  <2>2. Cardinality(I) # 0
    BY <1>2, <2>1, FS_EmptySet
  <2> QED BY <1>3, <2>2
<1> QED BY <1>3, <1>4 DEF Tally

LEMMA TallyEmpty ==
  ASSUME NEW S PROVE Tally(<<>>, S) = 0
<1>1. {i \in 1 .. Len(<<>>) : <<>>[i] \in S} = {}
  OBVIOUS
<1> QED BY <1>1, FS_EmptySet DEF Tally

LEMMA TallyAppend ==
  ASSUME NEW T, NEW q \in Seq(T), NEW x \in T, NEW S
  PROVE  Tally(Append(q, x), S) = IF x \in S THEN Tally(q, S) + 1 ELSE Tally(q, S)
<1> DEFINE n == Len(q)
           I == {i \in 1 .. n : q[i] \in S}
           r == Append(q, x)
           J == {i \in 1 .. Len(r) : r[i] \in S}
<1>1. /\ n \in Nat /\ Len(r) = n + 1 /\ r[n + 1] = x
      /\ \A i \in 1 .. n : r[i] = q[i]
  BY AppendProperties, LenProperties
<1>2. IsFiniteSet(I)
  <2>1. IsFiniteSet(1 .. n) /\ I \in SUBSET (1 .. n)
    BY <1>1, FS_Interval
  <2> QED BY <2>1, FS_Subset
<1>3. n + 1 \notin I
  <2> HIDE DEF n
  <2> QED BY <1>1
<1>4. J = IF x \in S THEN I \union {n + 1} ELSE I
  <2> HIDE DEF r, n
  <2> QED BY <1>1
<1>5. Cardinality(I \union {n + 1}) = Cardinality(I) + 1
  BY <1>2, <1>3, FS_AddElement
<1> QED BY <1>4, <1>5 DEF Tally

(* Entry e of q is erased, and those behind it move up.                    *)
Erased(q, r, e) ==
  /\ Len(r) = Len(q) - 1
  /\ \A j \in 1 .. Len(q) - 1 : r[j] = IF j < e THEN q[j] ELSE q[j + 1]

LEMMA TallyErased ==
  ASSUME NEW T, NEW q \in Seq(T), NEW r \in Seq(T), NEW e \in 1 .. Len(q),
         Erased(q, r, e), NEW S
  PROVE  Tally(r, S) = IF q[e] \in S THEN Tally(q, S) - 1 ELSE Tally(q, S)
<1> DEFINE n == Len(q)
           I == {i \in 1 .. n : q[i] \in S}
           J == {i \in 1 .. n - 1 : r[i] \in S}
           K == I \ {e}
           f == [j \in J |-> IF j < e THEN j ELSE j + 1]
<1>1. n \in Nat /\ e \in 1 .. n /\ Len(r) = n - 1
      /\ \A j \in 1 .. n - 1 : r[j] = IF j < e THEN q[j] ELSE q[j + 1]
  BY LenProperties DEF Erased
<1>2. IsFiniteSet(I) /\ IsFiniteSet(J)
  <2> HIDE DEF n
  <2>1. n - 1 \in Int
    BY <1>1
  <2>2. IsFiniteSet(1 .. n) /\ IsFiniteSet(1 .. n - 1)
    BY <1>1, <2>1, FS_Interval
  <2>3. I \in SUBSET (1 .. n) /\ J \in SUBSET (1 .. n - 1)
    OBVIOUS
  <2> QED BY <2>2, <2>3, FS_Subset
<1>3. f \in Bijection(J, K)
  <2> HIDE DEF n
  <2>1. \A j \in J : f[j] \in K
    BY <1>1
  <2>2. \A j, l \in J : f[j] = f[l] => j = l
    BY <1>1
  <2>3. ASSUME NEW i \in K PROVE \E j \in J : f[j] = i
    <3>1. CASE i < e
      <4>1. i \in J /\ f[i] = i
        BY <1>1, <3>1
      <4> QED BY <4>1
    <3>2. CASE ~ i < e
      <4>1. i - 1 \in J
        BY <1>1, <3>2
      <4>2. f[i - 1] = i
        BY <1>1, <3>2, <4>1
      <4> QED BY <4>1, <4>2
    <3> QED BY <3>1, <3>2
  <2>4. f \in [J -> K]
    BY <2>1
  <2> HIDE DEF f, J, K
  <2> QED BY <2>2, <2>3, <2>4, Fun_IsBij
<1>4. Cardinality(K) = Cardinality(J)
  <2> HIDE DEF f, J, K
  <2>1. ExistsBijection(J, K)
    BY <1>3 DEF ExistsBijection
  <2> QED BY <1>2, <2>1, FS_Bijection
<1>5. Cardinality(K) = IF e \in I THEN Cardinality(I) - 1 ELSE Cardinality(I)
  BY <1>2, FS_RemoveElement
<1>6. e \in I <=> q[e] \in S
  BY <1>1
<1>7. Tally(r, S) = Cardinality(J) /\ Tally(q, S) = Cardinality(I)
  BY <1>1 DEF Tally
<1> HIDE DEF I, J, K, f, n
<1> QED BY <1>4, <1>5, <1>6, <1>7

LEMMA TallyRemoveAt ==
  ASSUME NEW T, NEW q \in Seq(T), NEW e \in 1 .. Len(q), NEW S
  PROVE  /\ RemoveAt(q, e) \in Seq(T)
         /\ Tally(RemoveAt(q, e), S) = IF q[e] \in S THEN Tally(q, S) - 1 ELSE Tally(q, S)
<1>1. RemoveAt(q, e) \in Seq(T) /\ Erased(q, RemoveAt(q, e), e)
  BY RemoveAtEntries DEF Erased
<1> QED BY <1>1, TallyErased

LEMMA TallyTail ==
  ASSUME NEW T, NEW q \in Seq(T), q # <<>>, NEW S
  PROVE  /\ Head(q) \in T /\ Tail(q) \in Seq(T)
         /\ Tally(Tail(q), S) = IF Head(q) \in S THEN Tally(q, S) - 1 ELSE Tally(q, S)
<1>1. /\ Head(q) \in T /\ Tail(q) \in Seq(T) /\ Len(q) \in Nat /\ 1 \in 1 .. Len(q)
      /\ Head(q) = q[1] /\ Len(Tail(q)) = Len(q) - 1
      /\ \A j \in 1 .. Len(q) - 1 : Tail(q)[j] = q[j + 1]
  BY HeadTailProperties, LenProperties, EmptySeq
<1>2. \A j \in 1 .. Len(q) - 1 : Tail(q)[j] = IF j < 1 THEN q[j] ELSE q[j + 1]
  BY <1>1
<1>3. Erased(q, Tail(q), 1)
  BY <1>1, <1>2 DEF Erased
<1>4. PICK r \in Seq(T) : r = Tail(q)
  BY <1>1
<1>5. PICK e \in 1 .. Len(q) : e = 1
  BY <1>1
<1>6. Erased(q, r, e)
  BY <1>3, <1>4, <1>5
<1>7. Tally(r, S) = IF q[e] \in S THEN Tally(q, S) - 1 ELSE Tally(q, S)
  BY <1>6, TallyErased
<1> QED BY <1>1, <1>4, <1>5, <1>7

(* The requests of thread t that are to be answered.                       *)
RequestsOf(t) == {m \in Message : m.from = t /\ m.what # "terminate"}

Unanswered(rq, pr, rs, t) ==
  Tally(rq, RequestsOf(t)) + Tally(pr, RequestsOf(t)) + Tally(rs, {t})

LEMMA UnansweredType ==
  ASSUME NEW rq \in Seq(Message), NEW pr \in Seq(Message), NEW rs \in Seq(Threads), NEW t
  PROVE  /\ Unanswered(rq, pr, rs, t) \in Nat
         /\ rs # <<>> /\ Head(rs) = t => Unanswered(rq, pr, rs, t) > 0
<1>1. /\ Tally(rq, RequestsOf(t)) \in Nat /\ Tally(pr, RequestsOf(t)) \in Nat
      /\ Tally(rs, {t}) \in Nat /\ \A i \in 1 .. Len(rs) : rs[i] \in {t} => Tally(rs, {t}) > 0
  BY TallyType
<1>2. rs # <<>> => 1 \in 1 .. Len(rs) /\ Head(rs) = rs[1]
  BY EmptySeq, LenProperties
<1>3. rs # <<>> /\ Head(rs) = t => Tally(rs, {t}) > 0
  BY <1>1, <1>2
<1> QED BY <1>1, <1>3 DEF Unanswered

(* A message is sent.                                                      *)
LEMMA SentFlow ==
  ASSUME NEW rq \in Seq(Message), NEW pr \in Seq(Message), NEW rs \in Seq(Threads),
         NEW m \in Message, NEW t
  PROVE  Unanswered(Append(rq, m), pr, rs, t) =
           IF m.from = t /\ m.what # "terminate"
           THEN Unanswered(rq, pr, rs, t) + 1 ELSE Unanswered(rq, pr, rs, t)
<1>1. Tally(Append(rq, m), RequestsOf(t)) =
        IF m \in RequestsOf(t) THEN Tally(rq, RequestsOf(t)) + 1 ELSE Tally(rq, RequestsOf(t))
  BY TallyAppend
<1>2. m \in RequestsOf(t) <=> m.from = t /\ m.what # "terminate"
  BY DEF RequestsOf
<1>3. /\ Tally(rq, RequestsOf(t)) \in Nat /\ Tally(pr, RequestsOf(t)) \in Nat
      /\ Tally(rs, {t}) \in Nat
  BY TallyType
<1> QED BY <1>1, <1>2, <1>3 DEF Unanswered

(* A request to terminate is served.                                       *)
LEMMA EndFlow ==
  ASSUME NEW rq \in Seq(Message), NEW pr \in Seq(Message), NEW rs \in Seq(Threads),
         rq # <<>>, Head(rq).what = "terminate", NEW t
  PROVE  Unanswered(Tail(rq), pr, rs, t) = Unanswered(rq, pr, rs, t)
<1>1. Head(rq) \notin RequestsOf(t)
  BY DEF RequestsOf
<1>2. Tally(Tail(rq), RequestsOf(t)) = Tally(rq, RequestsOf(t))
  BY <1>1, TallyTail
<1> QED BY <1>2 DEF Unanswered

(* A request is answered at once.                                          *)
LEMMA AnsweredFlow ==
  ASSUME NEW rq \in Seq(Message), NEW pr \in Seq(Message), NEW rs \in Seq(Threads),
         rq # <<>>, Head(rq).what # "terminate", NEW t
  PROVE  Unanswered(Tail(rq), pr, Append(rs, Head(rq).from), t) = Unanswered(rq, pr, rs, t)
<1>1. PICK h \in Message : h = Head(rq)
  BY TallyTail
<1>2. Tally(Tail(rq), RequestsOf(t)) =
        IF h \in RequestsOf(t) THEN Tally(rq, RequestsOf(t)) - 1 ELSE Tally(rq, RequestsOf(t))
  BY <1>1, TallyTail
<1>3. h.from \in Threads /\ (h \in RequestsOf(t) <=> h.from = t)
  BY <1>1 DEF RequestsOf, Message
<1>4. Tally(Append(rs, h.from), {t}) =
        IF h.from \in {t} THEN Tally(rs, {t}) + 1 ELSE Tally(rs, {t})
  BY <1>3, TallyAppend
<1>5. /\ Tally(rq, RequestsOf(t)) \in Nat /\ Tally(pr, RequestsOf(t)) \in Nat
      /\ Tally(rs, {t}) \in Nat
  BY TallyType
<1>6. Unanswered(Tail(rq), pr, Append(rs, h.from), t) = Unanswered(rq, pr, rs, t)
  BY <1>2, <1>3, <1>4, <1>5 DEF Unanswered
<1> QED BY <1>1, <1>6

(* A read becomes pending.                                                 *)
LEMMA PendingFlow ==
  ASSUME NEW rq \in Seq(Message), NEW pr \in Seq(Message), NEW rs \in Seq(Threads),
         rq # <<>>, NEW t
  PROVE  Unanswered(Tail(rq), Append(pr, Head(rq)), rs, t) = Unanswered(rq, pr, rs, t)
<1>1. PICK h \in Message : h = Head(rq)
  BY TallyTail
<1>2. Tally(Tail(rq), RequestsOf(t)) =
        IF h \in RequestsOf(t) THEN Tally(rq, RequestsOf(t)) - 1 ELSE Tally(rq, RequestsOf(t))
  BY <1>1, TallyTail
<1>3. Tally(Append(pr, h), RequestsOf(t)) =
        IF h \in RequestsOf(t) THEN Tally(pr, RequestsOf(t)) + 1 ELSE Tally(pr, RequestsOf(t))
  BY TallyAppend
<1>4. /\ Tally(rq, RequestsOf(t)) \in Nat /\ Tally(pr, RequestsOf(t)) \in Nat
      /\ Tally(rs, {t}) \in Nat
  BY TallyType
<1>5. Unanswered(Tail(rq), Append(pr, h), rs, t) = Unanswered(rq, pr, rs, t)
  BY <1>2, <1>3, <1>4 DEF Unanswered
<1> QED BY <1>1, <1>5

(* A pending read is answered.                                             *)
LEMMA ReadFlow ==
  ASSUME NEW rq \in Seq(Message), NEW pr \in Seq(Message), NEW rs \in Seq(Threads),
         NEW i \in 1 .. Len(pr), pr[i].what # "terminate", NEW t
  PROVE  Unanswered(rq, RemoveAt(pr, i), Append(rs, pr[i].from), t) = Unanswered(rq, pr, rs, t)
<1>1. PICK h \in Message : h = pr[i]
  BY LenProperties
<1>2. Tally(RemoveAt(pr, i), RequestsOf(t)) =
        IF h \in RequestsOf(t) THEN Tally(pr, RequestsOf(t)) - 1 ELSE Tally(pr, RequestsOf(t))
  BY <1>1, TallyRemoveAt
<1>3. h.from \in Threads /\ (h \in RequestsOf(t) <=> h.from = t)
  BY <1>1 DEF RequestsOf, Message
<1>4. Tally(Append(rs, h.from), {t}) =
        IF h.from \in {t} THEN Tally(rs, {t}) + 1 ELSE Tally(rs, {t})
  BY <1>3, TallyAppend
<1>5. /\ Tally(rq, RequestsOf(t)) \in Nat /\ Tally(pr, RequestsOf(t)) \in Nat
      /\ Tally(rs, {t}) \in Nat
  BY TallyType
<1>6. Unanswered(rq, RemoveAt(pr, i), Append(rs, h.from), t) = Unanswered(rq, pr, rs, t)
  BY <1>2, <1>3, <1>4, <1>5 DEF Unanswered
<1> QED BY <1>1, <1>6

(* A handler receives a reply.                                             *)
LEMMA ReceivedFlow ==
  ASSUME NEW rq \in Seq(Message), NEW pr \in Seq(Message), NEW rs \in Seq(Threads),
         rs # <<>>, NEW t
  PROVE  Unanswered(rq, pr, Tail(rs), t) =
           IF Head(rs) = t THEN Unanswered(rq, pr, rs, t) - 1 ELSE Unanswered(rq, pr, rs, t)
<1>1. PICK h \in Threads : h = Head(rs)
  BY TallyTail
<1>2. Tally(Tail(rs), {t}) = IF h \in {t} THEN Tally(rs, {t}) - 1 ELSE Tally(rs, {t})
  BY <1>1, TallyTail
<1>3. /\ Tally(rq, RequestsOf(t)) \in Nat /\ Tally(pr, RequestsOf(t)) \in Nat
      /\ Tally(rs, {t}) \in Nat
  BY TallyType
<1>4. Unanswered(rq, pr, Tail(rs), t) =
        IF h = t THEN Unanswered(rq, pr, rs, t) - 1 ELSE Unanswered(rq, pr, rs, t)
  BY <1>2, <1>3 DEF Unanswered
<1> QED BY <1>1, <1>4

-----------------------------------------------------------------------------
(* What the callbacks of Machine count                                     *)

(* callbacks[t] are the requests of t on their way, and its replies.       *)
Balanced ==
  \A t \in Threads :
    /\ Unanswered(requests, pendingReads, replies, t) <= callbacks[t]
    /\ vmProcess = "runs" => Unanswered(requests, pendingReads, replies, t) = callbacks[t]

(* A pass reads only where a request waits, and only requests to read wait.*)
ReadsWait ==
  /\ readable \subseteq Polled
  /\ \A i \in 1 .. Len(pendingReads) : pendingReads[i].what \in Descriptors

(* The machine process is told to end when no thread runs any more.        *)
NotTold ==
  vmProcess = "runs" =>
    ~ terminated /\ \A i \in 1 .. Len(requests) : requests[i].what # "terminate"

MachineInv == MachineTypeOK /\ ReadsWait /\ NotTold /\ Balanced

LEMMA MachineInvInit == MachineInit => MachineInv
<1> SUFFICES ASSUME MachineInit PROVE MachineInv
  OBVIOUS
<1>1. MachineTypeOK
  <2>1. \A T : <<>> \in Seq(T)
    BY EmptySeq
  <2>2. requests \in Seq(Message) /\ replies \in Seq(Threads) /\ pendingReads \in Seq(Message)
    BY <2>1 DEF MachineInit
  <2>3. /\ callbacks \in [Threads -> Nat]
        /\ taken \in [Threads -> Threads \union {Nobody}]
    BY DEF MachineInit
  <2>4. pipe \in 0 .. PipeMax
    <3>1. pipe = 0
      BY DEF MachineInit
    <3>2. PipeMax \in Nat
      BY MachineAssumption
    <3> QED BY <3>1, <3>2
  <2> QED BY <2>2, <2>3, <2>4 DEF MachineInit, MachineTypeOK
<1>2. ReadsWait /\ NotTold
  BY EmptySeq DEF MachineInit, ReadsWait, NotTold
<1>3. \A t \in Threads : Unanswered(<<>>, <<>>, <<>>, t) = 0
  BY TallyEmpty DEF Unanswered
<1>4. Balanced
  BY <1>3 DEF MachineInit, Balanced
<1> QED BY <1>1, <1>2, <1>4 DEF MachineInv

LEMMA MachineLetters ==
  ASSUME MachineInv
  PROVE  /\ requests \in Seq(Message) /\ pendingReads \in Seq(Message)
         /\ replies \in Seq(Threads) /\ callbacks \in [Threads -> Nat]
         /\ taken \in [Threads -> Threads \union {Nobody}]
         /\ \A t \in Threads : Unanswered(requests, pendingReads, replies, t) \in Nat
BY UnansweredType DEF MachineInv, MachineTypeOK

LEMMA AppendLast ==
  ASSUME NEW T, NEW q \in Seq(T), NEW x \in T
  PROVE  /\ Append(q, x) \in Seq(T)
         /\ \A i \in 1 .. Len(Append(q, x)) :
              (i \in 1 .. Len(q) /\ Append(q, x)[i] = q[i]) \/ Append(q, x)[i] = x
         /\ \A i \in 1 .. Len(q) : i \in 1 .. Len(Append(q, x)) /\ Append(q, x)[i] = q[i]
         /\ Len(q) + 1 \in 1 .. Len(Append(q, x)) /\ Append(q, x)[Len(q) + 1] = x
<1> DEFINE r == Append(q, x)
<1>1. /\ r \in Seq(T) /\ Len(q) \in Nat /\ Len(r) = Len(q) + 1
      /\ \A i \in 1 .. Len(q) : r[i] = q[i]
      /\ r[Len(q) + 1] = x
  BY AppendProperties, LenProperties
<1> HIDE DEF r
<1>2. \A i \in 1 .. Len(r) : i \in 1 .. Len(q) \/ i = Len(q) + 1
  BY <1>1
<1> QED BY <1>1, <1>2 DEF r

LEMMA TailEntries ==
  ASSUME NEW T, NEW q \in Seq(T), q # <<>>
  PROVE  /\ Head(q) \in T /\ Tail(q) \in Seq(T)
         /\ \E i \in 1 .. Len(q) : q[i] = Head(q)
         /\ \A i \in 1 .. Len(Tail(q)) : \E j \in 1 .. Len(q) : Tail(q)[i] = q[j]
<1>1. /\ Head(q) \in T /\ Tail(q) \in Seq(T) /\ Len(q) \in Nat /\ 1 \in 1 .. Len(q)
      /\ Head(q) = q[1] /\ Len(Tail(q)) = Len(q) - 1
      /\ \A i \in 1 .. Len(Tail(q)) : Tail(q)[i] = q[i + 1]
  BY HeadTailProperties, LenProperties, EmptySeq
<1>2. \A i \in 1 .. Len(Tail(q)) : i + 1 \in 1 .. Len(q)
  BY <1>1
<1> QED BY <1>1, <1>2

LEMMA MachineThreads ==
  ASSUME MachineInv, NEW t \in Threads, ThreadStep(t)
  PROVE  MachineInv'
<1>1. MachineTypeOK /\ ReadsWait /\ NotTold /\ Balanced
  BY DEF MachineInv
<1>7. /\ requests \in Seq(Message) /\ pendingReads \in Seq(Message)
      /\ replies \in Seq(Threads)
  BY MachineLetters
<1>8. callbacks \in [Threads -> Nat]
  BY MachineLetters
<1>9. \A u \in Threads : Unanswered(requests, pendingReads, replies, u) \in Nat
  BY MachineLetters
<1>2. ASSUME NEW what \in Whats, what # "terminate", MachineRequest(t, what)
      PROVE  MachineInv'
  <2>1. PICK m \in Message : m = [from |-> t, what |-> what]
    BY DEF Message
  <2>2. m.from = t /\ m.what # "terminate"
    BY <1>2, <2>1
  <2>3. /\ requests' = Append(requests, m)
        /\ callbacks' = [callbacks EXCEPT ![t] = @ + 1]
        /\ vmProcess = "runs" /\ usr1' = TRUE
        /\ UNCHANGED <<replies, usr2, pipe, phase, terminated, pendingReads, input,
                       readable, draining, taken, vmProcess>>
    BY <1>2, <2>1 DEF MachineRequest, Send, InOwnCode
  <2>8. callbacks' \in [Threads -> Nat]
    <3>1. callbacks[t] + 1 \in Nat
      BY <1>8
    <3> QED BY <1>8, <2>3, <3>1
  <2>9. /\ requests' \in Seq(Message)
        /\ \A i \in 1 .. Len(requests') :
             (i \in 1 .. Len(requests) /\ requests'[i] = requests[i]) \/ requests'[i] = m
    <3>1. requests' = Append(requests, m)
      BY <2>3
    <3> QED BY <1>7, <3>1, AppendLast
  <2>4. MachineTypeOK'
    BY <1>1, <2>3, <2>8, <2>9 DEF MachineTypeOK
  <2>5. ReadsWait' /\ NotTold'
    BY <1>1, <2>2, <2>3, <2>9 DEF ReadsWait, NotTold, Polled
  <2>6. ASSUME NEW u \in Threads
        PROVE  Unanswered(Append(requests, m), pendingReads, replies, u) = callbacks'[u]
    <3>1. Unanswered(Append(requests, m), pendingReads, replies, u) =
            IF t = u THEN Unanswered(requests, pendingReads, replies, u) + 1
            ELSE Unanswered(requests, pendingReads, replies, u)
      BY <1>7, <2>2, SentFlow
    <3>2. Unanswered(requests, pendingReads, replies, u) = callbacks[u]
      BY <1>1, <2>3 DEF Balanced
    <3>3. callbacks'[u] = IF t = u THEN callbacks[u] + 1 ELSE callbacks[u]
      <4>1. callbacks' = [callbacks EXCEPT ![t] = @ + 1]
        BY <2>3
      <4> QED BY <1>8, <4>1
    <3> QED BY <1>9, <3>1, <3>2, <3>3
  <2>7. Balanced'
    <3>1. \A u \in Threads : callbacks'[u] \in Nat
      BY <2>8
    <3>2. \A u \in Threads : Unanswered(requests', pendingReads', replies', u) = callbacks'[u]
      BY <2>3, <2>6
    <3> QED BY <3>1, <3>2 DEF Balanced
  <2> QED BY <2>4, <2>5, <2>7 DEF MachineInv
<1>3. ASSUME MachineTerminate(t) PROVE MachineInv'
  <2>1. PICK m \in Message : m = [from |-> t, what |-> "terminate"]
    BY DEF Message, Whats
  <2>2. /\ requests' = Append(requests, m)
        /\ usr1' = TRUE /\ vmProcess' = "closing"
        /\ UNCHANGED <<replies, usr2, pipe, phase, terminated, pendingReads, input,
                       readable, draining, taken, callbacks>>
    BY <1>3, <2>1 DEF MachineTerminate, Send
  <2>3. MachineTypeOK'
    BY <1>1, <1>7, <2>2, AppendLast DEF MachineTypeOK
  <2>4. ReadsWait' /\ NotTold'
    BY <1>1, <2>2 DEF ReadsWait, NotTold, Polled
  <2>5. \A u \in Threads : Unanswered(Append(requests, m), pendingReads, replies, u) =
                             Unanswered(requests, pendingReads, replies, u)
    BY <1>7, <2>1, SentFlow
  <2>6. Balanced'
    BY <1>1, <2>2, <2>5 DEF Balanced
  <2> QED BY <2>3, <2>4, <2>6 DEF MachineInv
<1>4. ASSUME ReplySignal(t) PROVE MachineInv'
  <2>1. /\ usr2' = FALSE /\ draining' = draining \union {t}
        /\ UNCHANGED <<requests, replies, callbacks, taken, vmProcess, child>>
    BY <1>4 DEF ReplySignal
  <2>2. MachineTypeOK'
    BY <1>1, <2>1 DEF MachineTypeOK, child
  <2>3. ReadsWait' /\ NotTold'
    BY <1>1, <2>1 DEF ReadsWait, NotTold, Polled, child
  <2>4. Balanced'
    BY <1>1, <2>1 DEF Balanced, child
  <2> QED BY <2>2, <2>3, <2>4 DEF MachineInv
<1>5. ASSUME Receive(t) PROVE MachineInv'
  <2>1. UNCHANGED <<requests, usr2, vmProcess, child>>
    BY <1>5 DEF Receive
  <2>2. CASE draining' = draining \ {t} /\ UNCHANGED <<replies, callbacks, taken>>
    <3>1. MachineTypeOK'
      BY <1>1, <2>1, <2>2 DEF MachineTypeOK, child
    <3>2. ReadsWait' /\ NotTold' /\ Balanced'
      BY <1>1, <2>1, <2>2 DEF ReadsWait, NotTold, Polled, child, Balanced
    <3> QED BY <3>1, <3>2 DEF MachineInv
  <2>3. CASE /\ replies # <<>>
             /\ taken' = [taken EXCEPT ![t] = Head(replies)]
             /\ callbacks' = [callbacks EXCEPT ![Head(replies)] = @ - 1]
             /\ replies' = Tail(replies)
             /\ UNCHANGED draining
    <3>1. PICK h \in Threads : h = Head(replies)
      BY <1>7, <2>3, TailEntries
    <3>2. Unanswered(requests, pendingReads, replies, h) > 0
      BY <1>7, <2>3, <3>1, UnansweredType
    <3>3. callbacks' = [callbacks EXCEPT ![h] = callbacks[h] - 1] /\ callbacks[h] > 0
      BY <1>1, <1>8, <1>9, <2>3, <3>1, <3>2 DEF Balanced
    <3>4. callbacks' \in [Threads -> Nat]
      BY <1>8, <3>3
    <3>5. MachineTypeOK'
      BY <1>1, <1>7, <2>1, <2>3, <3>1, <3>4, TailEntries DEF MachineTypeOK, child
    <3>6. ReadsWait' /\ NotTold'
      BY <1>1, <2>1 DEF ReadsWait, NotTold, Polled, child
    <3>7. \A u \in Threads :
            Unanswered(requests, pendingReads, Tail(replies), u) =
              IF h = u THEN Unanswered(requests, pendingReads, replies, u) - 1
              ELSE Unanswered(requests, pendingReads, replies, u)
      BY <1>7, <2>3, <3>1, ReceivedFlow
    <3>8. Balanced'
      <4>1. requests' = requests /\ pendingReads' = pendingReads /\ replies' = Tail(replies)
            /\ vmProcess' = vmProcess
        BY <2>1, <2>3 DEF child
      <4>2. ASSUME NEW u \in Threads
            PROVE  LET n == Unanswered(requests, pendingReads, Tail(replies), u)
                   IN  n <= callbacks'[u] /\ (vmProcess = "runs" => n = callbacks'[u])
        <5>1. callbacks'[u] = IF h = u THEN callbacks[u] - 1 ELSE callbacks[u]
          BY <1>8, <3>3
        <5> QED BY <1>1, <1>8, <1>9, <3>7, <5>1 DEF Balanced
      <4> QED BY <4>1, <4>2 DEF Balanced
    <3> QED BY <3>5, <3>6, <3>8 DEF MachineInv
  <2> QED BY <1>5, <2>2, <2>3 DEF Receive
<1>6. ASSUME CallBack(t) PROVE MachineInv'
  <2>1. /\ taken' = [taken EXCEPT ![t] = Nobody]
        /\ UNCHANGED <<requests, replies, callbacks, usr2, draining, vmProcess, child>>
    BY <1>6 DEF CallBack
  <2>2. MachineTypeOK'
    BY <1>1, <2>1 DEF MachineTypeOK, child
  <2>3. ReadsWait' /\ NotTold' /\ Balanced'
    BY <1>1, <2>1 DEF ReadsWait, NotTold, Polled, child, Balanced
  <2> QED BY <2>2, <2>3 DEF MachineInv
<1>10. \A what \in Descriptors \union {"at once"} : what \in Whats /\ what # "terminate"
  BY MachineAssumption DEF Whats
<1> QED BY <1>2, <1>3, <1>4, <1>5, <1>6, <1>10 DEF ThreadStep

(* A pass that reads from d finds a request to read from it.               *)
LEMMA FirstReadType ==
  ASSUME ReadsWait, pendingReads \in Seq(Message), NEW d \in readable
  PROVE  FirstRead(d) \in 1 .. Len(pendingReads) /\ pendingReads[FirstRead(d)].what = d
<1> DEFINE I == {i \in 1 .. Len(pendingReads) : pendingReads[i].what = d}
           P(i) == /\ pendingReads[i].what = d
                   /\ \A j \in 1 .. i - 1 : pendingReads[j].what # d
<1>1. Len(pendingReads) \in Nat
  BY LenProperties
<1>2. I # {} /\ I \in SUBSET Nat
  BY <1>1 DEF ReadsWait, Polled
<1>3. PICK n \in I : \A j \in I : n <= j
  BY <1>2, LeastNatural
<1>4. n \in 1 .. Len(pendingReads) /\ P(n)
  <2>1. n \in 1 .. Len(pendingReads) /\ pendingReads[n].what = d
    OBVIOUS
  <2>2. ASSUME NEW j \in 1 .. n - 1 PROVE pendingReads[j].what # d
    <3>1. j \in 1 .. Len(pendingReads) /\ ~ n <= j
      BY <1>1, <2>1
    <3> QED BY <1>3, <3>1
  <2> QED BY <2>1, <2>2
<1>5. FirstRead(d) = CHOOSE i \in 1 .. Len(pendingReads) : P(i)
  BY DEF FirstRead
<1> HIDE DEF P
<1>6. FirstRead(d) \in 1 .. Len(pendingReads) /\ P(FirstRead(d))
  BY <1>4, <1>5
<1> QED BY <1>6 DEF P

(* What leaves the letters as they are.                                    *)
LEMMA LettersKept ==
  ASSUME MachineInv, UNCHANGED <<requests, replies, pendingReads, parent>>,
         readable' = readable \/ readable' = Polled \intersect input,
         terminated' = terminated \/ vmProcess = "killed"
  PROVE  ReadsWait' /\ NotTold' /\ Balanced'
<1>1. ReadsWait /\ NotTold /\ Balanced
  BY DEF MachineInv
<1>2. ReadsWait'
  BY <1>1 DEF ReadsWait, Polled
<1>3. NotTold'
  BY <1>1 DEF NotTold, parent
<1>4. Balanced'
  BY <1>1 DEF Balanced, parent
<1> QED BY <1>2, <1>3, <1>4

LEMMA ServeKeeps ==
  ASSUME MachineInv, Serve
  PROVE  MachineInv'
<1>1. MachineTypeOK /\ ReadsWait /\ NotTold /\ Balanced
  BY DEF MachineInv
<1>2. /\ requests \in Seq(Message) /\ pendingReads \in Seq(Message)
      /\ replies \in Seq(Threads)
  BY MachineLetters
<1>3. UNCHANGED <<usr1, pipe, input, readable, parent>>
  BY DEF Serve
<1>4. ASSUME phase' = "reads", Nothing, UNCHANGED <<requests, terminated, pendingReads>>
      PROVE  MachineInv'
  <2>1. MachineTypeOK'
    BY <1>1, <1>3, <1>4 DEF MachineTypeOK, Nothing, parent
  <2>2. ReadsWait' /\ NotTold' /\ Balanced'
    BY <1>3, <1>4, LettersKept DEF Nothing
  <2> QED BY <2>1, <2>2 DEF MachineInv
<1>5. ASSUME requests # <<>>, requests' = Tail(requests), ServeHead, UNCHANGED phase
      PROVE  MachineInv'
  <2>1. PICK r \in Message : r = Head(requests)
    BY <1>2, <1>5, TailEntries
  <2>2. /\ requests' \in Seq(Message)
        /\ \E i \in 1 .. Len(requests) : requests[i] = r
        /\ \A i \in 1 .. Len(requests') : \E j \in 1 .. Len(requests) : requests'[i] = requests[j]
    BY <1>2, <1>5, <2>1, TailEntries
  <2>3. NotTold'
    <3>1. vmProcess = "runs" => r.what # "terminate"
      BY <1>1, <2>2 DEF NotTold
    <3>2. vmProcess = "runs" => terminated' = terminated
      BY <1>5, <2>1, <3>1 DEF ServeHead
    <3> QED BY <1>1, <1>3, <2>2, <3>2 DEF NotTold, parent
  <2>4. CASE r.what = "terminate" /\ terminated' = TRUE /\ Nothing /\ UNCHANGED pendingReads
    <3>1. MachineTypeOK'
      BY <1>1, <1>3, <1>5, <2>2, <2>4 DEF MachineTypeOK, Nothing, parent
    <3>2. ReadsWait'
      BY <1>1, <1>3, <2>4 DEF ReadsWait, Polled
    <3>3. \A u \in Threads : Unanswered(Tail(requests), pendingReads, replies, u) =
                               Unanswered(requests, pendingReads, replies, u)
      BY <1>2, <1>5, <2>1, <2>4, EndFlow
    <3>4. Balanced'
      BY <1>1, <1>3, <1>5, <2>4, <3>3 DEF Balanced, Nothing, parent
    <3> QED BY <2>3, <3>1, <3>2, <3>4 DEF MachineInv
  <2>5. CASE r.what = "at once" /\ MachineSendReply(r.from) /\ UNCHANGED <<terminated, pendingReads>>
    <3>1. r.from \in Threads /\ r.what # "terminate"
      BY <2>5 DEF Message
    <3>2. replies' = Append(replies, r.from) /\ replies' \in Seq(Threads)
      BY <1>2, <2>5, <3>1, AppendLast DEF MachineSendReply
    <3>3. MachineTypeOK'
      BY <1>1, <1>3, <1>5, <2>2, <2>5, <3>2 DEF MachineTypeOK, MachineSendReply, parent
    <3>4. ReadsWait'
      BY <1>1, <1>3, <2>5 DEF ReadsWait, Polled
    <3>5. \A u \in Threads :
            Unanswered(Tail(requests), pendingReads, Append(replies, r.from), u) =
              Unanswered(requests, pendingReads, replies, u)
      BY <1>2, <1>5, <2>1, <3>1, AnsweredFlow
    <3>6. Balanced'
      <4>1. \A u \in Threads : Unanswered(requests', pendingReads', replies', u) =
                                 Unanswered(requests, pendingReads, replies, u)
        BY <1>5, <2>5, <3>2, <3>5
      <4> QED BY <1>1, <1>3, <4>1 DEF Balanced, parent
    <3> QED BY <2>3, <3>3, <3>4, <3>6 DEF MachineInv
  <2>6. CASE r.what \in Descriptors /\ pendingReads' = Append(pendingReads, r) /\ Nothing
             /\ UNCHANGED terminated
    <3>1. /\ pendingReads' \in Seq(Message)
          /\ \A i \in 1 .. Len(pendingReads') :
               (i \in 1 .. Len(pendingReads) /\ pendingReads'[i] = pendingReads[i])
                 \/ pendingReads'[i] = r
          /\ \A i \in 1 .. Len(pendingReads) :
               i \in 1 .. Len(pendingReads') /\ pendingReads'[i] = pendingReads[i]
      BY <1>2, <2>6, AppendLast
    <3>2. MachineTypeOK'
      BY <1>1, <1>3, <1>5, <2>2, <2>6, <3>1 DEF MachineTypeOK, Nothing, parent
    <3>3. ReadsWait'
      BY <1>1, <1>3, <2>6, <3>1 DEF ReadsWait, Polled
    <3>4. \A u \in Threads :
            Unanswered(Tail(requests), Append(pendingReads, r), replies, u) =
              Unanswered(requests, pendingReads, replies, u)
      BY <1>2, <1>5, <2>1, PendingFlow
    <3>5. Balanced'
      <4>1. \A u \in Threads : Unanswered(requests', pendingReads', replies', u) =
                                 Unanswered(requests, pendingReads, replies, u)
        BY <1>5, <2>6, <3>4 DEF Nothing
      <4> QED BY <1>1, <1>3, <4>1 DEF Balanced, parent
    <3> QED BY <2>3, <3>2, <3>3, <3>5 DEF MachineInv
  <2> QED BY <1>5, <2>1, <2>4, <2>5, <2>6 DEF ServeHead
<1> QED BY <1>4, <1>5 DEF Serve

LEMMA ReadKeeps ==
  ASSUME MachineInv, NEW d \in Descriptors, Read(d)
  PROVE  MachineInv'
<1>1. MachineTypeOK /\ ReadsWait /\ NotTold /\ Balanced
  BY DEF MachineInv
<1>2. /\ requests \in Seq(Message) /\ pendingReads \in Seq(Message)
      /\ replies \in Seq(Threads)
  BY MachineLetters
<1>3. PICK i \in 1 .. Len(pendingReads) : i = FirstRead(d) /\ pendingReads[i].what = d
  BY <1>1, <1>2, FirstReadType DEF Read
<1>4. /\ readable' = readable \ {d} /\ input' = input \ {d}
      /\ replies' = Append(replies, pendingReads[i].from) /\ usr2' = TRUE
      /\ pendingReads' = RemoveAt(pendingReads, i)
      /\ UNCHANGED <<requests, usr1, pipe, phase, terminated, parent>>
  BY <1>3 DEF Read, MachineSendReply
<1>5. PICK r \in Message : r = pendingReads[i]
  BY <1>2, LenProperties
<1>6. r.from \in Threads /\ r.what = d /\ d # "terminate"
  BY <1>3, <1>5, MachineAssumption DEF Message
<1>7. replies' \in Seq(Threads)
  <2>1. replies' = Append(replies, r.from)
    BY <1>4, <1>5
  <2> QED BY <1>2, <1>6, <2>1, AppendLast
<1>8. /\ Len(pendingReads) \in Nat
      /\ pendingReads' \in Seq(Message) /\ Len(pendingReads') = Len(pendingReads) - 1
      /\ \A j \in 1 .. Len(pendingReads) - 1 :
           pendingReads'[j] = IF j < i THEN pendingReads[j] ELSE pendingReads[j + 1]
  BY <1>2, <1>4, RemoveAtEntries, LenProperties
<1>9. MachineTypeOK'
  BY <1>1, <1>4, <1>7, <1>8 DEF MachineTypeOK, parent
<1>10. ReadsWait'
  <2>1. ASSUME NEW j \in 1 .. Len(pendingReads') PROVE pendingReads'[j].what \in Descriptors
    <3>1. j \in 1 .. Len(pendingReads) /\ j + 1 \in 1 .. Len(pendingReads)
      BY <1>8
    <3>2. pendingReads'[j] = pendingReads[j] \/ pendingReads'[j] = pendingReads[j + 1]
      BY <1>8
    <3> QED BY <1>1, <3>1, <3>2 DEF ReadsWait
  <2>2. ASSUME NEW e \in readable' PROVE \E j \in 1 .. Len(pendingReads') : pendingReads'[j].what = e
    <3>1. e # d /\ e \in readable
      BY <1>4
    <3>2. PICK j \in 1 .. Len(pendingReads) : pendingReads[j].what = e
      BY <1>1, <3>1 DEF ReadsWait, Polled
    <3>3. j # i
      BY <1>3, <3>1, <3>2
    <3>4. CASE j < i
      <4>1. j \in 1 .. Len(pendingReads') /\ pendingReads'[j] = pendingReads[j]
        BY <1>8, <3>4
      <4> QED BY <3>2, <4>1
    <3>5. CASE ~ j < i
      <4>1. j - 1 \in 1 .. Len(pendingReads) - 1 /\ ~ (j - 1 < i) /\ (j - 1) + 1 = j
        BY <1>8, <3>3, <3>5
      <4>2. j - 1 \in 1 .. Len(pendingReads') /\ pendingReads'[j - 1] = pendingReads[j]
        BY <1>8, <4>1
      <4> QED BY <3>2, <4>2
    <3> QED BY <3>4, <3>5
  <2> QED BY <2>1, <2>2 DEF ReadsWait, Polled
<1>11. NotTold'
  BY <1>1, <1>4 DEF NotTold, parent
<1>12. Balanced'
  <2>1. \A u \in Threads :
          Unanswered(requests, RemoveAt(pendingReads, i), Append(replies, pendingReads[i].from), u)
            = Unanswered(requests, pendingReads, replies, u)
    BY <1>2, <1>5, <1>6, ReadFlow
  <2>2. \A u \in Threads : Unanswered(requests', pendingReads', replies', u) =
                             Unanswered(requests, pendingReads, replies, u)
    BY <1>4, <2>1
  <2> QED BY <1>1, <1>4, <2>2 DEF Balanced, parent
<1> QED BY <1>9, <1>10, <1>11, <1>12 DEF MachineInv

LEMMA MachineStepKeeps ==
  ASSUME MachineInv, MachineStep
  PROVE  MachineInv'
<1>1. MachineTypeOK /\ ReadsWait /\ NotTold /\ Balanced
  BY DEF MachineInv
<1>8. pipe \in 0 .. PipeMax /\ PipeMax \in Nat
  <2>1. PipeMax \in Nat
    BY MachineAssumption
  <2> QED BY <1>1, <2>1 DEF MachineTypeOK
<1>2. CASE RequestSignal
  <2>1. pipe' \in 0 .. PipeMax
    BY <1>2, <1>8 DEF RequestSignal
  <2>2. MachineTypeOK'
    BY <1>1, <1>2, <2>1 DEF RequestSignal, MachineTypeOK, Nothing, parent
  <2>3. ReadsWait' /\ NotTold' /\ Balanced'
    BY <1>2, LettersKept DEF RequestSignal, Nothing
  <2> QED BY <2>2, <2>3 DEF MachineInv
<1>3. CASE Poll
  <2>1. pipe' \in 0 .. PipeMax /\ phase' \in {"drain", "reads"}
    BY <1>3, <1>8 DEF Poll
  <2>2. MachineTypeOK'
    BY <1>1, <1>3, <2>1 DEF Poll, MachineTypeOK, Nothing, parent
  <2>3. ReadsWait' /\ NotTold' /\ Balanced'
    BY <1>3, LettersKept DEF Poll, Nothing
  <2> QED BY <2>2, <2>3 DEF MachineInv
<1>4. CASE PollTimesOut
  <2>1. MachineTypeOK'
    BY <1>1, <1>4 DEF PollTimesOut, MachineTypeOK, Nothing, parent
  <2>2. ReadsWait' /\ NotTold' /\ Balanced'
    BY <1>4, LettersKept DEF PollTimesOut, Nothing
  <2> QED BY <2>1, <2>2 DEF MachineInv
<1>5. CASE Serve
  BY <1>5, ServeKeeps
<1>6. CASE PassDone
  <2>1. UNCHANGED <<usr1, usr2, pipe, terminated, pendingReads, input, readable, parent>>
    BY <1>6 DEF PassDone
  <2>2. CASE phase' = "poll" /\ UNCHANGED <<requests, replies>>
    <3>1. MachineTypeOK'
      BY <1>1, <2>1, <2>2 DEF MachineTypeOK, parent
    <3>2. ReadsWait' /\ NotTold' /\ Balanced'
      BY <2>1, <2>2, LettersKept
    <3> QED BY <3>1, <3>2 DEF MachineInv
  <2>3. CASE terminated /\ phase' = "gone" /\ requests' = <<>> /\ replies' = <<>>
    <3>1. requests' \in Seq(Message) /\ replies' \in Seq(Threads)
      BY <2>3, EmptySeq
    <3>2. MachineTypeOK'
      BY <1>1, <2>1, <2>3, <3>1 DEF MachineTypeOK, parent
    <3>3. ReadsWait' /\ NotTold' /\ vmProcess # "runs"
      BY <1>1, <2>1, <2>3 DEF ReadsWait, NotTold, Polled, parent
    <3>4. ASSUME NEW u \in Threads
          PROVE  Unanswered(<<>>, pendingReads, <<>>, u) <= callbacks[u]
      <4>1. /\ Tally(requests, RequestsOf(u)) \in Nat /\ Tally(pendingReads, RequestsOf(u)) \in Nat
            /\ Tally(replies, {u}) \in Nat
        BY TallyType, MachineLetters
      <4>2. callbacks[u] \in Nat
        BY MachineLetters
      <4>3. Unanswered(requests, pendingReads, replies, u) <= callbacks[u]
        BY <1>1 DEF Balanced
      <4> QED BY <4>1, <4>2, <4>3, TallyEmpty DEF Unanswered
    <3>5. Balanced'
      BY <2>1, <2>3, <3>3, <3>4 DEF Balanced, parent
    <3> QED BY <3>2, <3>3, <3>5 DEF MachineInv
  <2> QED BY <1>6, <2>2, <2>3 DEF PassDone
<1>7. CASE \E d \in Descriptors : Read(d)
  BY <1>7, ReadKeeps
<1> QED BY <1>2, <1>3, <1>4, <1>5, <1>6, <1>7 DEF MachineStep

LEMMA MachineInvStep == MachineInv /\ [MachineNext]_machineVars => MachineInv'
<1> SUFFICES ASSUME MachineInv, [MachineNext]_machineVars
             PROVE  MachineInv'
  OBVIOUS
<1>1. MachineTypeOK /\ ReadsWait /\ NotTold /\ Balanced
  BY DEF MachineInv
<1>2. CASE \E t \in Threads : ThreadStep(t)
  BY <1>2, MachineThreads
<1>3. CASE Killed
  <2>1. MachineTypeOK'
    BY <1>1, <1>3 DEF Killed, MachineTypeOK, child
  <2>2. ReadsWait' /\ NotTold' /\ Balanced'
    BY <1>1, <1>3 DEF Killed, ReadsWait, NotTold, Balanced, Polled, child
  <2> QED BY <2>1, <2>2 DEF MachineInv
<1>4. CASE MachineStep
  BY <1>4, MachineStepKeeps
<1>5. CASE \E d \in Descriptors : Input(d)
  <2>1. MachineTypeOK'
    BY <1>1, <1>5 DEF Input, MachineTypeOK, Nothing, parent
  <2>2. ReadsWait' /\ NotTold' /\ Balanced'
    BY <1>5, LettersKept DEF Input, Nothing
  <2> QED BY <2>1, <2>2 DEF MachineInv
<1>6. CASE UNCHANGED machineVars
  <2>1. MachineTypeOK'
    BY <1>1, <1>6 DEF machineVars, MachineTypeOK
  <2>2. ReadsWait' /\ NotTold' /\ Balanced'
    BY <1>6, LettersKept DEF machineVars, parent
  <2> QED BY <2>1, <2>2 DEF MachineInv
<1> QED BY <1>2, <1>3, <1>4, <1>5, <1>6 DEF MachineNext

(* The queues hold messages of the right kind, no callback is looked for   *)
(* that is not there, and the pipe does not overflow.                      *)
THEOREM MachineTypeCorrect == MachineSpec => []MachineTypeOK
<1>1. MachineInv => MachineTypeOK
  BY DEF MachineInv
<1> QED BY MachineInvInit, MachineInvStep, <1>1, PTL DEF MachineSpec

-----------------------------------------------------------------------------
(* System                                                                  *)

LEMMA RefinesInit == SystemInit => MachineInit
  BY DEF SystemInit

(* A call makes its request, or leaves the machine alone.                  *)
LEMMA AsksRefines ==
  ASSUME NEW t \in Thread, Asks(t)
  PROVE  [MachineNext]_machineVars
<1>1. CASE UNCHANGED machineVars
  BY <1>1
<1>2. CASE \E what \in Descriptors \union {"at once"} : MachineRequest(t, what)
  BY <1>2, SystemAssumption DEF MachineNext, ThreadStep
<1> QED
  BY <1>1, <1>2 DEF Asks

(* What a thread and the handler on its stack do to the machine.           *)
LEMMA ThreadRefines ==
  ASSUME NEW t \in Thread,
         MakeCall(t) \/ CloseImage(t) \/ Resume(t) \/ WaitForClose(t)
           \/ EndMachine(t) \/ HandlerLoop(t) \/ HandlerCallsBack(t)
  PROVE  [MachineNext]_machineVars
<1>0. t \in Threads
  BY SystemAssumption
<1>1. CASE MakeCall(t)
  BY <1>1, AsksRefines DEF MakeCall
<1>2. CASE Resume(t)
  BY <1>2, AsksRefines DEF Resume
<1>3. CASE CloseImage(t)
  <2>1. MachineRequest(t, "at once")
    BY <1>3 DEF CloseImage
  <2> QED
    BY <1>0, <2>1 DEF MachineNext, ThreadStep
<1>4. CASE WaitForClose(t)
  BY <1>4 DEF WaitForClose
<1>5. CASE EndMachine(t)
  BY <1>0, <1>5 DEF EndMachine, MachineNext, ThreadStep
<1>6. CASE HandlerLoop(t)
  BY <1>0, <1>6 DEF HandlerLoop, MachineNext, ThreadStep
<1>7. CASE HandlerCallsBack(t)
  BY <1>0, <1>7 DEF HandlerCallsBack, MachineNext, ThreadStep
<1> QED
  BY <1>1, <1>2, <1>3, <1>4, <1>5, <1>6, <1>7

LEMMA RefinesStep == [SystemNext]_systemVars => [MachineNext]_machineVars
<1> SUFFICES ASSUME [SystemNext]_systemVars
             PROVE  [MachineNext]_machineVars
  OBVIOUS
<1>1. CASE \E t \in Thread : t = curr /\ (MakeCall(t) \/ CloseImage(t))
  BY <1>1, ThreadRefines
<1>2. CASE Resumes
  BY <1>2, ThreadRefines DEF Resumes
<1>3. CASE ShutsDown
  BY <1>3, ThreadRefines DEF ShutsDown
<1>4. CASE HandlerStep
  BY <1>4, ThreadRefines DEF HandlerStep
<1>5. CASE Alarm
  BY <1>5 DEF Alarm
<1>6. CASE MachineWorks
  BY <1>6 DEF MachineWorks, MachineNext
<1>7. CASE \E d \in Descriptors : InputComes(d)
  BY <1>7 DEF InputComes, MachineNext
<1>8. CASE Killed
  BY <1>8 DEF MachineNext
<1>9. CASE UNCHANGED systemVars
  BY <1>9 DEF systemVars
<1> QED
  BY <1>1, <1>2, <1>3, <1>4, <1>5, <1>6, <1>7, <1>8, <1>9 DEF SystemNext

(* Threads, handlers and shutdown use the queues and the signals only as   *)
(* Machine allows: System implements it, with the same variables.          *)
THEOREM SystemImplementsMachine == SystemSpec => MachineSpec
  BY RefinesInit, RefinesStep, PTL DEF SystemSpec, MachineSpec

(* No request is forgotten, whatever the scheduler does.                   *)
THEOREM SystemForgetsNoRequest == SystemSpec => []NoRequestForgotten
  BY SystemImplementsMachine, RequestsReachMachine

(* No reply is forgotten, although the thread whose stack holds the loop   *)
(* of the handler may have to wait for others.                             *)
THEOREM SystemForgetsNoReply == SystemSpec => []NoReplyForgotten
  BY SystemImplementsMachine, RepliesReachThreads

-----------------------------------------------------------------------------
(* The threads and their answers                                           *)

(* The handlers that hold a reply to thread t.                             *)
Holders(f, t) == {u \in Thread : f[u] = t}

(* What a thread waits for is on its way, or in a handler's hands.         *)
Answered == \A t \in Thread : io[t] = callbacks[t] + Cardinality(Holders(taken, t))

(* What is left of it when VMMain has returned and no thread uses the      *)
(* console: the request of the main thread may be answered before it waits.*)
Ended ==
  /\ Ind
  /\ freeBlocks \in 0 .. Blocks
  /\ left \in [Thread -> Nat] /\ result \in [Thread -> {"ok", "error"}]
  /\ \A u \in Thread : frame[u].op \notin {"memory", "console"}

(* While VMMain runs.                                                      *)
Runs == ConsoleInd /\ (vmProcess = "runs" => Answered)

MainInv ==
  /\ shutdown \in {"no", "asked", "waits"}
  /\ shutdown = "no" => Runs
  /\ shutdown # "no" => Ended

SystemInv == MachineInv /\ MainInv

-----------------------------------------------------------------------------
(* A handler that receives a reply holds it until it calls back.           *)
LEMMA HoldersPass ==
  ASSUME NEW f \in [Thread -> Threads \union {Nobody}], NEW t \in Thread,
         NEW h \in Threads, NEW u \in Thread
  PROVE  /\ Cardinality(Holders(f, u)) \in Nat
         /\ f[t] = Nobody =>
              Cardinality(Holders([f EXCEPT ![t] = h], u)) =
                IF u = h THEN Cardinality(Holders(f, u)) + 1 ELSE Cardinality(Holders(f, u))
         /\ f[t] = h =>
              Cardinality(Holders([f EXCEPT ![t] = Nobody], u)) =
                IF u = h THEN Cardinality(Holders(f, u)) - 1 ELSE Cardinality(Holders(f, u))
<1>1. Holders(f, u) \in SUBSET Thread
  BY DEF Holders
<1>2. u # Nobody /\ h # Nobody
  BY SystemAssumption, MachineAssumption
<1>3. /\ Cardinality(Holders(f, u)) \in Nat
      /\ t \notin Holders(f, u) =>
           /\ Cardinality(Holders(f, u) \union {t}) = Cardinality(Holders(f, u)) + 1
      /\ t \in Holders(f, u) =>
           /\ Cardinality(Holders(f, u) \ {t}) = Cardinality(Holders(f, u)) - 1
  BY <1>1, Counted
<1>4. ASSUME f[t] = Nobody
      PROVE  /\ t \notin Holders(f, u)
             /\ Holders([f EXCEPT ![t] = h], u) =
                  IF u = h THEN Holders(f, u) \union {t} ELSE Holders(f, u)
  BY <1>2, <1>4 DEF Holders
<1>5. ASSUME f[t] = h
      PROVE  /\ t \in Holders(f, u) <=> u = h
             /\ Holders([f EXCEPT ![t] = Nobody], u) =
                  IF u = h THEN Holders(f, u) \ {t} ELSE Holders(f, u)
  BY <1>2, <1>5 DEF Holders
<1> QED BY <1>3, <1>4, <1>5

(* A call makes no request, or one of its caller.                          *)
LEMMA CallAsks ==
  ASSUME Call \/ Finish \/ ConsoleStep, io' # io
  PROVE  io' = [io EXCEPT ![curr] = @ + 1]
<1>1. CASE Call
  BY <1>1 DEF Call, VMThreadCreate, VMThreadDelete, VMThreadActivate, VMThreadTerminate,
              SkeletonExit, VMThreadSleep, VMMutexCreate, VMMutexDelete, AcquireFree,
              AcquireLocked, VMMutexRelease, WaitForIO
<1>2. CASE Finish
  BY <1>2 DEF Finish, ExitReturns, SleepReturns, AcquireReturns, IOReturns
<1>3. ASSUME NEW n, TakeBlock(n)
      PROVE  io' = [io EXCEPT ![curr] = @ + 1]
  BY <1>3 DEF TakeBlock, Request, Succeed
<1>4. CASE ConsoleStep
  <2>1. CASE RoundReturns
    BY <2>1 DEF RoundReturns, Request, Fail, Succeed
  <2> QED BY <1>3, <1>4, <2>1 DEF ConsoleStep, ConsoleCall, Retry
<1> QED BY <1>1, <1>2, <1>4

(* A request, and the caller's count of those it waits for.                *)
LEMMA AskedAnswered ==
  ASSUME Answered, callbacks \in [Threads -> Nat],
         taken \in [Threads -> Threads \union {Nobody}], io \in [Thread -> Nat],
         curr \in Thread, Asks(curr), Call \/ Finish \/ ConsoleStep
  PROVE  Answered'
<1>1. CASE io' = io /\ UNCHANGED machineVars
  BY <1>1 DEF Answered, machineVars
<1>2. CASE io' # io /\ \E what \in Descriptors \union {"at once"} : MachineRequest(curr, what)
  <2>1. io' = [io EXCEPT ![curr] = @ + 1]
    BY <1>2, CallAsks
  <2>2. callbacks' = [callbacks EXCEPT ![curr] = @ + 1] /\ taken' = taken
    BY <1>2 DEF MachineRequest, Send
  <2>3. ASSUME NEW u \in Thread
        PROVE  io'[u] = callbacks'[u] + Cardinality(Holders(taken', u))
    <3>1. Cardinality(Holders(taken, u)) \in Nat
      BY Counted DEF Holders
    <3>2. callbacks[u] \in Nat /\ io[u] \in Nat
      BY SystemAssumption
    <3>3. io[u] = callbacks[u] + Cardinality(Holders(taken, u))
      BY DEF Answered
    <3>4. Holders(taken', u) = Holders(taken, u)
      BY <2>2
    <3>5. /\ callbacks'[u] = IF u = curr THEN callbacks[u] + 1 ELSE callbacks[u]
          /\ io'[u] = IF u = curr THEN io[u] + 1 ELSE io[u]
      BY <2>1, <2>2, SystemAssumption
    <3> QED BY <3>1, <3>2, <3>3, <3>4, <3>5
  <2> QED BY <2>3 DEF Answered
<1> QED BY <1>1, <1>2 DEF Asks

(* The handler takes a reply out of the queue.                             *)
LEMMA LoopAnswered ==
  ASSUME Answered, MachineInv, NEW t \in Thread, HandlerLoop(t)
  PROVE  Answered'
<1>1. /\ callbacks \in [Threads -> Nat] /\ replies \in Seq(Threads)
      /\ taken \in [Threads -> Threads \union {Nobody}]
  BY MachineLetters
<1>5. taken \in [Thread -> Threads \union {Nobody}]
  BY <1>1, SystemAssumption
<1>2. io' = io
  BY DEF HandlerLoop, allVars, vars
<1>3. CASE UNCHANGED <<callbacks, taken>>
  BY <1>2, <1>3 DEF Answered
<1>4. CASE /\ replies # <<>> /\ taken[t] = Nobody
           /\ taken' = [taken EXCEPT ![t] = Head(replies)]
           /\ callbacks' = [callbacks EXCEPT ![Head(replies)] = @ - 1]
  <2>1. PICK h \in Threads : h = Head(replies)
    BY <1>1, <1>4, TailEntries
  <2>2. ASSUME NEW u \in Thread
        PROVE  io'[u] = callbacks'[u] + Cardinality(Holders(taken', u))
    <3>1. /\ Cardinality(Holders(taken, u)) \in Nat
          /\ Cardinality(Holders([taken EXCEPT ![t] = h], u)) =
               IF u = h THEN Cardinality(Holders(taken, u)) + 1
                        ELSE Cardinality(Holders(taken, u))
      <4>1. /\ Cardinality(Holders(taken, u)) \in Nat
            /\ taken[t] = Nobody =>
                 Cardinality(Holders([taken EXCEPT ![t] = h], u)) =
                   IF u = h THEN Cardinality(Holders(taken, u)) + 1
                            ELSE Cardinality(Holders(taken, u))
        BY <1>5, HoldersPass, Zenon
      <4> QED BY <1>4, <4>1
    <3>2. taken' = [taken EXCEPT ![t] = h]
      BY <1>4, <2>1
    <3>3. callbacks[u] \in Nat
      BY <1>1, SystemAssumption
    <3>4. io[u] = callbacks[u] + Cardinality(Holders(taken, u))
      BY DEF Answered
    <3>5. callbacks'[u] = IF u = h THEN callbacks[u] - 1 ELSE callbacks[u]
      BY <1>1, <1>4, <2>1, SystemAssumption
    <3> QED BY <1>2, <3>1, <3>2, <3>3, <3>4, <3>5
  <2> QED BY <2>2 DEF Answered
<1> QED BY <1>3, <1>4 DEF HandlerLoop, ReplySignal, Receive

(* It passes the reply on, to a thread that waits for it.                  *)
LEMMA CallBackAnswered ==
  ASSUME Answered, MachineInv, io \in [Thread -> Nat], NEW t \in Thread, HandlerCallsBack(t)
  PROVE  Answered'
<1>1. /\ callbacks \in [Threads -> Nat]
      /\ taken \in [Threads -> Threads \union {Nobody}]
  BY MachineLetters
<1>5. taken \in [Thread -> Threads \union {Nobody}]
  BY <1>1, SystemAssumption
<1>2. PICK h \in Threads : h = taken[t]
  BY <1>1, SystemAssumption DEF HandlerCallsBack
<1>3. /\ taken' = [taken EXCEPT ![t] = Nobody] /\ callbacks' = callbacks
      /\ io' = [io EXCEPT ![h] = @ - 1]
  BY <1>2 DEF HandlerCallsBack, CallBack, Answer, FileHandler
<1>4. ASSUME NEW u \in Thread
      PROVE  io'[u] = callbacks'[u] + Cardinality(Holders(taken', u))
  <2>1. /\ Cardinality(Holders(taken, u)) \in Nat
        /\ Cardinality(Holders([taken EXCEPT ![t] = Nobody], u)) =
             IF u = h THEN Cardinality(Holders(taken, u)) - 1
                      ELSE Cardinality(Holders(taken, u))
    <3>1. /\ Cardinality(Holders(taken, u)) \in Nat
          /\ taken[t] = h =>
               Cardinality(Holders([taken EXCEPT ![t] = Nobody], u)) =
                 IF u = h THEN Cardinality(Holders(taken, u)) - 1
                          ELSE Cardinality(Holders(taken, u))
      BY <1>5, HoldersPass, Zenon
    <3> QED BY <1>2, <3>1
  <2>2. callbacks[u] \in Nat
    BY <1>1, SystemAssumption
  <2>3. io[u] = callbacks[u] + Cardinality(Holders(taken, u))
    BY DEF Answered
  <2>4. io'[u] = IF u = h THEN io[u] - 1 ELSE io[u]
    BY <1>3
  <2> QED BY <1>3, <2>1, <2>2, <2>3, <2>4
<1> QED BY <1>4 DEF Answered

-----------------------------------------------------------------------------
(* While VMMain runs, and after                                            *)

LEMMA RunsType ==
  ASSUME Runs
  PROVE  /\ ConsoleInd /\ CalmInd /\ InCalls /\ curr \in Thread
         /\ frame \in [Thread -> Frames] /\ io \in [Thread -> Nat]
         /\ freeBlocks \in 0 .. Blocks
<1>1. ConsoleInd /\ CalmInd /\ InCalls /\ curr \in Thread
  BY ConsoleType DEF Runs
<1>2. freeBlocks \in 0 .. Blocks
  <2>1. Supplied(vm, frame, freeBlocks)
    BY <1>1, ConsoleType
  <2>2. Cardinality(Busy(frame)) \in Nat
    BY Counted DEF Busy
  <2> QED BY <2>1, <2>2, ConsoleAssumption DEF Supplied
<1> QED BY <1>1, <1>2, CalmType

LEMMA CalmUsersHere ==
  ASSUME Calm PROVE CalmUsers
BY SystemAssumption DEF CalmUsers

(* The current thread calls, or goes on with a call.                       *)
LEMMA CallsRun ==
  ASSUME Calm, Runs, MachineInv, MakeCall(curr) \/ Resume(curr)
  PROVE  Runs'
<1>1. /\ vmProcess = "runs" /\ vmProcess' = vmProcess
  BY DEF MakeCall, Resume, InOwnCode, Asks, MachineRequest, machineVars
<1>2. ConsoleStep \/ ((Call \/ Finish) /\ UNCHANGED consoleVars)
  BY DEF MakeCall, Resume, ConsoleStep
<1>3. ConsoleInd'
  BY <1>2, CalmUsersHere, ConsoleNextKeeps DEF Runs, ConsoleNext
<1>4. Answered'
  <2>1. Asks(curr) /\ (Call \/ Finish \/ ConsoleStep)
    BY <1>2 DEF MakeCall, Resume
  <2> QED BY <1>1, <2>1, AskedAnswered, RunsType, MachineLetters DEF Runs
<1> QED BY <1>3, <1>4 DEF Runs

LEMMA HandlersRun ==
  ASSUME Calm, Runs, MachineInv, NEW t \in Thread, HandlerLoop(t) \/ HandlerCallsBack(t)
  PROVE  Runs'
<1>1. vmProcess = "runs"
  BY DEF HandlerLoop, HandlerCallsBack, ReplySignal, Receive, CallBack, InOwnCode, InHandler
<1>2. CASE HandlerLoop(t)
  <2>1. UNCHANGED allVars
    BY <1>2 DEF HandlerLoop
  <2>2. ConsoleInd'
    BY <2>1, CalmUsersHere, ConsoleNextKeeps DEF Runs
  <2> QED BY <1>1, <1>2, <2>2, LoopAnswered DEF Runs
<1>3. CASE HandlerCallsBack(t)
  <2>1. taken[t] \in Thread
    <3>1. taken \in [Thread -> Threads \union {Nobody}]
      BY MachineLetters, SystemAssumption
    <3>2. taken[t] \in Threads
      BY <1>3, <3>1 DEF HandlerCallsBack
    <3> QED BY <3>2, SystemAssumption
  <2>2. Answer(taken[t])
    BY <1>3 DEF HandlerCallsBack
  <2>3. ConsoleInd'
    BY <2>1, <2>2, CalmUsersHere, ConsoleNextKeeps DEF Runs, ConsoleNext
  <2> QED BY <1>1, <1>3, <2>3, CallBackAnswered, RunsType DEF Runs
<1> QED BY <1>2, <1>3

LEMMA AlarmRuns ==
  ASSUME Calm, Runs, Alarm
  PROVE  Runs'
<1>1. AlarmHandler /\ UNCHANGED consoleVars /\ UNCHANGED machineVars
  BY DEF Alarm
<1>2. ConsoleInd'
  BY <1>1, CalmUsersHere, ConsoleNextKeeps DEF Runs, ConsoleNext
<1>3. UNCHANGED <<io, callbacks, taken, vmProcess>>
  BY <1>1 DEF AlarmHandler, machineVars
<1> QED BY <1>2, <1>3 DEF Runs, Answered

(* The machine process works, or something comes from outside.             *)
LEMMA OutsideRuns ==
  ASSUME Calm, Runs, UNCHANGED allVars,
         vmProcess' = "killed" \/ UNCHANGED <<callbacks, taken, vmProcess>>
  PROVE  Runs'
<1>1. ConsoleInd'
  BY CalmUsersHere, ConsoleNextKeeps DEF Runs
<1>2. UNCHANGED io
  BY DEF allVars, vars
<1> QED BY <1>1, <1>2 DEF Runs, Answered

(* VMMain has returned: every thread but the main and the idle one is      *)
(* dead, and no thread is in a call of Console.                            *)
LEMMA CloseEnds ==
  ASSUME Runs, CloseImage(curr)
  PROVE  Ended'
<1>1. /\ ConsoleInd /\ CalmInd /\ InCalls /\ curr \in Thread
      /\ frame \in [Thread -> Frames] /\ io \in [Thread -> Nat]
      /\ freeBlocks \in 0 .. Blocks
      /\ Ind /\ io[Idle] = 0
      /\ left \in [Thread -> Nat] /\ result \in [Thread -> {"ok", "error"}]
  BY RunsType DEF ConsoleInd, CalmInd, Ind
<1>2. /\ UNCHANGED <<vm, frame, due>> /\ UNCHANGED consoleVars
      /\ io' = [io EXCEPT ![curr] = @ + 1] /\ curr # Idle
      /\ curr = Main /\ frame[curr].op = "user"
      /\ \A u \in App \ {Main} : vm.state[u] = "DEAD"
  BY DEF CloseImage, Calls, InUser
<1>3. io' \in [Thread -> Nat] /\ io'[Idle] = 0
  <2>1. io[curr] + 1 \in Nat
    BY <1>1
  <2> QED BY <1>1, <1>2, <2>1, SystemThreads
<1>4. Ind'
  BY <1>1, <1>2, <1>3 DEF Ind
<1>5. ASSUME NEW u \in Thread PROVE frame[u].op \notin {"memory", "console"}
  <2>1. CASE u = Main
    BY <1>2, <2>1
  <2>2. CASE u # Main
    BY <1>1, <1>2, <2>2, ConsoleAssumption DEF InCalls, Using
  <2> QED BY <2>1, <2>2
<1> QED BY <1>1, <1>2, <1>4, <1>5 DEF Ended, consoleVars

-----------------------------------------------------------------------------
(* After VMMain has returned                                               *)

LEMMA EndedKept ==
  ASSUME Ended, Ind', UNCHANGED <<freeBlocks, left>>,
         result' \in [Thread -> {"ok", "error"}],
         \A u \in Thread : frame'[u].op \in {frame[u].op, "user", "io"}
  PROVE  Ended'
BY DEF Ended

(* Only calls of Kernel are still to be finished.                          *)
LEMMA ResumeEnded ==
  ASSUME Ended, curr \in Thread, Resume(curr)
  PROVE  Ended'
<1>1. Ind /\ frame \in [Thread -> Frames] /\ frame[curr].op \notin {"memory", "console"}
  BY DEF Ended, Ind
<1>2. Finish /\ UNCHANGED consoleVars
  BY <1>1 DEF Resume, Retry, RoundReturns, Finishing
<1>3. Ind'
  BY <1>1, <1>2, FinishKeeps DEF IndStep
<1>4. frame' = frame \/ frame' = [frame EXCEPT ![curr] = User]
  BY <1>2 DEF Finish, ExitReturns, SleepReturns, AcquireReturns, IOReturns, Return
<1>5. \A u \in Thread : frame'[u].op \in {frame[u].op, "user", "io"}
  BY <1>1, <1>4 DEF User
<1> QED BY <1>2, <1>3, <1>5, EndedKept DEF consoleVars, Ended

LEMMA SignalEnded ==
  ASSUME Ended, Signal, UNCHANGED <<freeBlocks, left>>,
         result' \in [Thread -> {"ok", "error"}]
  PROVE  Ended'
<1>1. Ind'
  BY SignalKeeps DEF Ended, IndStep
<1>2. frame' = frame
  BY DEF Signal, AlarmHandler, FileHandler
<1> QED BY <1>1, <1>2, EndedKept

LEMMA CallBackEnded ==
  ASSUME Ended, MachineInv, NEW t \in Thread, HandlerCallsBack(t)
  PROVE  Ended'
<1>1. PICK h \in Thread : h = taken[t]
  <2>1. taken \in [Thread -> Threads \union {Nobody}]
    BY MachineLetters, SystemAssumption
  <2>2. taken[t] \in Threads
    BY <2>1 DEF HandlerCallsBack
  <2> QED BY <2>2, SystemAssumption
<1>2. Answer(h)
  BY <1>1 DEF HandlerCallsBack
<1>3. Signal /\ UNCHANGED <<freeBlocks, left>>
  BY <1>2 DEF Answer, Signal
<1>4. result' \in [Thread -> {"ok", "error"}]
  BY <1>2, ConsoleAssumption DEF Answer, Ended
<1> QED BY <1>3, <1>4, SignalEnded

(* VMStart waits for the answer to its last request.                       *)
LEMMA WaitEnded ==
  ASSUME Ended, curr \in Thread, WaitForClose(curr)
  PROVE  Ended'
<1>1. /\ Good(vm) /\ frame \in [Thread -> Frames] /\ io \in [Thread -> Nat] /\ io[Idle] = 0
      /\ due \in [Thread -> Tick]
  BY DEF Ended, Ind
<1>2. /\ vm' = Block(vm, WAITING_IO) /\ Suspend("io", NULL_MUTEX, 0)
      /\ UNCHANGED <<io, due>> /\ UNCHANGED consoleVars /\ vm.current # Idle
  BY DEF WaitForClose, Calls, curr
<1>3. Good(vm')
  <2>1. WAITING_IO \in Reasons
    BY DEF Reasons, WAITING_IO, WAITING_MEMORY
  <2> QED BY <1>1, <1>2, <2>1, GoodBlocks
<1>4. frame' \in [Thread -> Frames]
  <2>1. "io" \in Ops /\ NULL_MUTEX \in MutexID \union {NULL_MUTEX} /\ 0 \in Tick
    BY BoundsAssumption DEF Ops, Tick
  <2> QED BY <1>1, <1>2, <2>1, FramesType
<1>5. Ind'
  BY <1>1, <1>2, <1>3, <1>4 DEF Ind
<1>6. \A u \in Thread : frame'[u].op \in {frame[u].op, "user", "io"}
  BY <1>1, <1>2 DEF Suspend
<1> QED BY <1>2, <1>5, <1>6, EndedKept DEF Ended, consoleVars

LEMMA OutsideEnded ==
  ASSUME Ended, UNCHANGED allVars
  PROVE  Ended'
BY DEF Ended, Ind, allVars, vars, consoleVars

-----------------------------------------------------------------------------
(* The whole system                                                        *)

LEMMA SystemInvInit == SystemInit => SystemInv
<1> SUFFICES ASSUME SystemInit PROVE SystemInv
  OBVIOUS
<1>1. MachineInv
  BY MachineInvInit DEF SystemInit
<1>2. ConsoleInd
  BY InitConsole DEF SystemInit
<1>3. Answered
  <2>1. ASSUME NEW u \in Thread
        PROVE  io[u] = callbacks[u] + Cardinality(Holders(taken, u))
    <3>1. io[u] = 0 /\ callbacks[u] = 0
      BY SystemAssumption DEF SystemInit, ConsoleInit, Init, MachineInit
    <3>2. \A v \in Thread : taken[v] # u
      BY SystemAssumption, MachineAssumption DEF SystemInit, MachineInit
    <3>3. Holders(taken, u) = {}
      BY <3>2 DEF Holders
    <3> QED BY <3>1, <3>3, FS_EmptySet
  <2> QED BY <2>1 DEF Answered
<1> QED BY <1>1, <1>2, <1>3 DEF SystemInit, SystemInv, MainInv, Runs

(* What the current thread does, and the handler on its stack.             *)
LEMMA SystemThreadsKeep ==
  ASSUME Calm, SystemInv, curr \in Thread, NEW t \in Thread, t = curr,
         \/ MakeCall(t) \/ CloseImage(t) \/ Resume(t)
         \/ WaitForClose(t) \/ EndMachine(t) \/ HandlerLoop(t) \/ HandlerCallsBack(t)
  PROVE  MainInv'
<1>1. /\ MachineInv /\ shutdown \in {"no", "asked", "waits"}
      /\ shutdown = "no" => Runs
      /\ shutdown # "no" => Ended
  BY DEF SystemInv, MainInv
<1>2. CASE MakeCall(t)
  <2>1. shutdown = "no" /\ shutdown' = shutdown
    BY <1>2 DEF MakeCall
  <2> QED BY <1>1, <1>2, <2>1, CallsRun DEF MainInv
<1>3. CASE Resume(t)
  <2>1. shutdown' = shutdown
    BY <1>3 DEF Resume
  <2> QED BY <1>1, <1>3, <2>1, CallsRun, ResumeEnded DEF MainInv
<1>4. CASE CloseImage(t)
  <2>1. shutdown = "no" /\ shutdown' = "asked"
    BY <1>4 DEF CloseImage
  <2> QED BY <1>1, <1>4, <2>1, CloseEnds DEF MainInv
<1>5. CASE WaitForClose(t)
  <2>1. shutdown = "asked" /\ shutdown' = "waits"
    BY <1>5 DEF WaitForClose
  <2> QED BY <1>1, <1>5, <2>1, WaitEnded DEF MainInv
<1>6. CASE EndMachine(t)
  <2>1. shutdown = "waits" /\ UNCHANGED <<allVars, shutdown>>
    BY <1>6 DEF EndMachine
  <2> QED BY <1>1, <2>1, OutsideEnded DEF MainInv
<1>7. CASE HandlerLoop(t)
  <2>1. UNCHANGED <<allVars, shutdown>>
    BY <1>7 DEF HandlerLoop
  <2> QED BY <1>1, <1>7, <2>1, HandlersRun, OutsideEnded DEF MainInv
<1>8. CASE HandlerCallsBack(t)
  <2>1. shutdown' = shutdown
    BY <1>8 DEF HandlerCallsBack
  <2> QED BY <1>1, <1>8, <2>1, HandlersRun, CallBackEnded DEF MainInv
<1> QED BY <1>2, <1>3, <1>4, <1>5, <1>6, <1>7, <1>8

(* What the machine process and the world outside do.                      *)
LEMMA SystemOutsideKeeps ==
  ASSUME Calm, SystemInv, UNCHANGED <<allVars, shutdown>>,
         vmProcess' = "killed" \/ UNCHANGED <<callbacks, taken, vmProcess>>
  PROVE  MainInv'
<1>1. /\ shutdown \in {"no", "asked", "waits"}
      /\ shutdown = "no" => Runs
      /\ shutdown # "no" => Ended
  BY DEF SystemInv, MainInv
<1> QED BY <1>1, OutsideRuns, OutsideEnded DEF MainInv

LEMMA SystemInvStep ==
  ASSUME Calm, SystemInv, [SystemNext]_systemVars
  PROVE  SystemInv'
<1>1. MachineInv'
  BY RefinesStep, MachineInvStep DEF SystemInv
<1>2. curr \in Thread
  <2>1. Ind
    BY DEF SystemInv, MainInv, Runs, ConsoleInd, CalmInd, Ended
  <2> QED BY <2>1, GoodType DEF Ind, curr
<1>3. CASE \E t \in Thread : t = curr /\ (MakeCall(t) \/ CloseImage(t))
  <2>1. MainInv'
    BY <1>2, <1>3, SystemThreadsKeep
  <2> QED BY <2>1, <1>1 DEF SystemInv
<1>4. CASE Resumes \/ ShutsDown \/ HandlerStep
  <2>1. MainInv'
    BY <1>2, <1>4, SystemThreadsKeep DEF Resumes, ShutsDown, HandlerStep
  <2> QED BY <2>1, <1>1 DEF SystemInv
<1>5. CASE Alarm
  <2>1. /\ UNCHANGED shutdown /\ AlarmHandler /\ UNCHANGED consoleVars
        /\ shutdown \in {"no", "asked", "waits"}
        /\ shutdown = "no" => Runs
        /\ shutdown # "no" => Ended
    BY <1>5 DEF Alarm, SystemInv, MainInv
  <2>2. CASE shutdown = "no"
    <3>1. Runs'
      BY <1>5, <2>1, <2>2, AlarmRuns
    <3> QED BY <1>1, <2>1, <2>2, <3>1 DEF SystemInv, MainInv
  <2>3. CASE shutdown # "no"
    <3>1. UNCHANGED <<freeBlocks, left>> /\ result' \in [Thread -> {"ok", "error"}]
      BY <2>1, <2>3 DEF consoleVars, Ended
    <3>2. Ended'
      BY <2>1, <2>3, <3>1, SignalEnded DEF Signal
    <3> QED BY <1>1, <2>1, <2>3, <3>2 DEF SystemInv, MainInv
  <2> QED BY <2>2, <2>3
<1>6. CASE \/ MachineWorks \/ (\E d \in Descriptors : InputComes(d))
           \/ (Killed /\ UNCHANGED <<allVars, shutdown>>) \/ UNCHANGED systemVars
  <2>1. UNCHANGED <<allVars, shutdown>>
    BY <1>6 DEF MachineWorks, InputComes, systemVars
  <2>2. vmProcess' = "killed" \/ UNCHANGED <<callbacks, taken, vmProcess>>
    <3>1. CASE MachineWorks
      BY <3>1 DEF MachineWorks, MachineStep, RequestSignal, Poll, PollTimesOut, Serve,
                  PassDone, Read, parent
    <3>2. CASE (\E d \in Descriptors : InputComes(d)) \/ Killed \/ UNCHANGED systemVars
      BY <3>2 DEF InputComes, Input, Killed, parent, systemVars, machineVars
    <3> QED BY <1>6, <3>1, <3>2
  <2>3. MainInv'
    BY <2>1, <2>2, SystemOutsideKeeps
  <2> QED BY <2>3, <1>1 DEF SystemInv
<1> QED BY <1>3, <1>4, <1>5, <1>6 DEF SystemNext

(***************************************************************************)
(* In a calm application, the scheduler, the shared memory, the messages   *)
(* and the handlers agree in every state, whatever is interrupted when.    *)
(***************************************************************************)
THEOREM SystemInvariance ==
  ASSUME Calm
  PROVE  SystemSpec => []SystemInv
<1>1. SystemInit => SystemInv
  BY SystemInvInit
<1>2. SystemInv /\ [SystemNext]_systemVars => SystemInv'
  BY SystemInvStep
<1> QED BY <1>1, <1>2, PTL DEF SystemSpec

(* The types of the data of the whole system.                              *)
THEOREM SystemTypeCorrect ==
  ASSUME Calm
  PROVE  SystemSpec => []SystemTypeOK
<1>1. SystemInv => SystemTypeOK
  <2> SUFFICES ASSUME SystemInv PROVE SystemTypeOK
    OBVIOUS
  <2>1. MachineTypeOK /\ shutdown \in {"no", "asked", "waits"}
    BY DEF SystemInv, MainInv, MachineInv
  <2>2. /\ Ind /\ freeBlocks \in 0 .. Blocks
        /\ left \in [Thread -> Nat] /\ result \in [Thread -> {"ok", "error"}]
    <3>1. CASE shutdown = "no"
      BY <3>1, RunsType DEF SystemInv, MainInv, Runs, ConsoleInd, CalmInd
    <3>2. CASE shutdown # "no"
      BY <3>2 DEF SystemInv, MainInv, Ended
    <3> QED BY <3>1, <3>2
  <2>3. TypeOK
    BY <2>2 DEF Ind, Good, TypeOK
  <2> QED BY <2>1, <2>2, <2>3 DEF SystemTypeOK, ConsoleTypeOK
<1> QED BY <1>1, SystemInvariance, PTL

(* While threads run, what is on its way to a thread is what it waits for. *)
LEMMA OnTheirWayType ==
  ASSUME MachineInv, vmProcess = "runs", NEW t \in Thread
  PROVE  /\ OnTheirWay(t) = callbacks[t] + Cardinality(Holders(taken, t))
<1>1. /\ requests \in Seq(Message) /\ pendingReads \in Seq(Message)
      /\ replies \in Seq(Threads) /\ t \in Threads
  BY MachineLetters, SystemAssumption
<1>2. /\ \A i \in 1 .. Len(requests) : requests[i].what # "terminate"
      /\ \A i \in 1 .. Len(pendingReads) : pendingReads[i].what # "terminate"
  BY MachineAssumption DEF MachineInv, NotTold, ReadsWait
<1>3. ASSUME NEW q \in Seq(Message), \A i \in 1 .. Len(q) : q[i].what # "terminate"
      PROVE  MessagesFrom(t, q) = Tally(q, RequestsOf(t))
  <2>1. \A i \in 1 .. Len(q) : q[i] \in Message
    BY <1>3, ElementOfSeq
  <2>2. \A i \in 1 .. Len(q) : q[i].from = t <=> q[i] \in RequestsOf(t)
    BY <1>3, <2>1 DEF RequestsOf
  <2> QED BY <2>2 DEF MessagesFrom, Tally
<1>4. Count(replies, t) = Tally(replies, {t})
  BY DEF Count, Tally
<1>5. callbacks[t] = Unanswered(requests, pendingReads, replies, t)
  BY <1>1 DEF MachineInv, Balanced
<1>6. /\ MessagesFrom(t, requests) = Tally(requests, RequestsOf(t))
      /\ MessagesFrom(t, pendingReads) = Tally(pendingReads, RequestsOf(t))
  BY <1>1, <1>2, <1>3
<1> QED BY <1>4, <1>5, <1>6 DEF OnTheirWay, Unanswered, Holders

(***************************************************************************)
(* No answer is lost and none is made twice, on whichever stack it waits:  *)
(* a thread that waits for I/O has one on its way, and no other thread has *)
(* one, while VMMain runs.                                                 *)
(***************************************************************************)
THEOREM AlwaysOneAnswerEach ==
  ASSUME Calm
  PROVE  SystemSpec => []OneAnswerEach
<1>1. SystemInv => OneAnswerEach
  <2> SUFFICES ASSUME SystemInv, vmProcess = "runs", shutdown = "no", NEW t \in App
               PROVE  OnTheirWay(t) =
                        IF vm.state[t] = "WAITING" /\ vm.waitingFor[t] = WAITING_IO THEN 1 ELSE 0
    BY DEF OneAnswerEach
  <2>1. t \in Thread /\ MachineInv /\ CalmInd /\ Answered
    BY RunsType DEF SystemInv, MainInv, Runs, App
  <2>2. OnTheirWay(t) = io[t]
    BY <2>1, OnTheirWayType DEF Answered
  <2>3. io[t] = IF vm.waitingFor[t] = WAITING_IO THEN 1 ELSE 0
    BY <2>1, CalmType DEF ThreadOK, Asking
  <2>4. vm.waitingFor[t] = WAITING_IO => vm.state[t] = "WAITING"
    BY <2>1, CalmType, ReasonsDiffer DEF Placed, Standing
  <2> QED BY <2>2, <2>3, <2>4
<1> QED BY <1>1, SystemInvariance, PTL

=============================================================================
