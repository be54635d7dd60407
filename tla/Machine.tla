------------------------------- MODULE Machine -------------------------------
(***************************************************************************)
(* Machine.cpp: the process that does the I/O of the virtual machine, the  *)
(* message queues to and from it, and the SIGUSR2 handlers at both ends.   *)
(*                                                                         *)
(* A signal that is sent while one is pending is lost, so each handler     *)
(* takes all the messages it finds.  The handler of the virtual machine    *)
(* runs on the stack of the thread it interrupts.  Its callback may switch *)
(* to another thread, and SIGALRM is not masked while it runs: its loop    *)
(* then stays where it is until its thread runs again, and any other       *)
(* thread may be interrupted by the next signal.                           *)
(*                                                                         *)
(* A request stands for the entry that MachinePendingCallbacks keeps for   *)
(* it, which names the thread that asked: identifiers repeat after 2^32    *)
(* requests, and none is taken to wait that long.  A message queue is      *)
(* taken to have room.                                                     *)
(***************************************************************************)
EXTENDS Integers, SequencesExt

CONSTANTS
  Threads,      \* the threads that ask for I/O
  Descriptors,  \* what they read from: input may be long in coming
  PipeMax       \* bound: the bytes in the pipe

Nobody == 0

ASSUME MachineAssumption ==
  /\ Nobody \notin Threads
  /\ Descriptors \intersect {"at once", "terminate"} = {}
  /\ PipeMax \in Nat

(* A read waits for input; other requests are answered when they are met.  *)
Whats == Descriptors \union {"at once", "terminate"}

Message == [from : Threads, what : Whats]

VARIABLES
  requests,     \* the queue DRequestChannel
  replies,      \* the queue DReplyChannel: whose request each one answers
  callbacks,    \* how many entries of MachinePendingCallbacks name a thread
  usr1,         \* SIGUSR2 is pending for the machine process
  usr2,         \* SIGUSR2 is pending for the virtual machine
  pipe,         \* the bytes in MachineSignalPipe
  phase,        \* where the machine process is in its loop
  terminated,   \* its variable Terminated
  pendingReads,
  input,        \* the descriptors with input for the first read from them
  readable,     \* those that poll has reported and this pass has yet to read
  draining,     \* the threads with MachineReplySignalHandler on their stack
  taken,        \* whose reply it has received but not passed on, there
  vmProcess     \* whether the virtual machine runs, waits for the machine
                \* process to exit, or has been killed

machineVars ==
  <<requests, replies, callbacks, usr1, usr2, pipe, phase, terminated,
    pendingReads, input, readable, draining, taken, vmProcess>>

parent == <<callbacks, draining, taken, vmProcess>>
child == <<usr1, pipe, phase, terminated, pendingReads, input, readable>>

MachineTypeOK ==
  /\ requests \in Seq(Message)
  /\ replies \in Seq(Threads)
  /\ callbacks \in [Threads -> Nat]
  /\ usr1 \in BOOLEAN /\ usr2 \in BOOLEAN
  /\ pipe \in 0 .. PipeMax
  /\ phase \in {"poll", "drain", "reads", "gone"}
  /\ terminated \in BOOLEAN
  /\ pendingReads \in Seq(Message)
  /\ input \subseteq Descriptors /\ readable \subseteq Descriptors
  /\ draining \subseteq Threads
  /\ taken \in [Threads -> Threads \union {Nobody}]
  /\ vmProcess \in {"runs", "closing", "killed"}

MachineInit ==
  /\ requests = << >> /\ replies = << >> /\ pendingReads = << >>
  /\ callbacks = [t \in Threads |-> 0]
  /\ usr1 = FALSE /\ usr2 = FALSE
  /\ pipe = 0 /\ phase = "poll" /\ terminated = FALSE
  /\ input = {} /\ readable = {}
  /\ draining = {} /\ taken = [t \in Threads |-> Nobody]
  /\ vmProcess = "runs"

-----------------------------------------------------------------------------
(* The virtual machine                                                     *)

(* Thread t runs its own code, and not the handler on top of it.           *)
InOwnCode(t) == vmProcess = "runs" /\ t \notin draining

InHandler(t) == vmProcess = "runs" /\ t \in draining

(* Mutant: the machine process is not told.                                *)
SendQuietly(t, what) ==
  /\ requests' = Append(requests, [from |-> t, what |-> what])
  /\ UNCHANGED <<usr1, replies, usr2, pipe, phase, terminated, pendingReads,
                 input, readable, draining, taken>>

(* A message for the machine process, and SIGUSR2.                         *)
Send(t, what) ==
  /\ requests' = Append(requests, [from |-> t, what |-> what])
  /\ usr1' = TRUE
  /\ UNCHANGED <<replies, usr2, pipe, phase, terminated, pendingReads, input,
                 readable, draining, taken>>

(* MachineFileOpen, Read, Write, Seek and Close, called by thread t.       *)
MachineRequest(t, what) ==
  /\ InOwnCode(t)
  /\ callbacks' = [callbacks EXCEPT ![t] = @ + 1]
  /\ Send(t, what)
  /\ UNCHANGED vmProcess

(* No thread runs any more, and no handler, until the process has exited.  *)
MachineTerminate(t) ==
  /\ InOwnCode(t)
  /\ vmProcess' = "closing"
  /\ Send(t, "terminate")
  /\ UNCHANGED callbacks

(* SIGUSR2 interrupts thread t.                                            *)
ReplySignal(t) ==
  /\ InOwnCode(t)
  /\ usr2
  /\ usr2' = FALSE
  /\ draining' = draining \union {t}
  /\ UNCHANGED <<requests, replies, callbacks, taken, vmProcess, child>>

(* Mutant: the reply stays in the queue.                                   *)
ReceiveKeeping(t) ==
  /\ InHandler(t) /\ taken[t] = Nobody
  /\ \/ /\ replies = << >>
        /\ draining' = draining \ {t}
        /\ UNCHANGED <<callbacks, taken>>
     \/ /\ replies # << >>
        /\ taken' = [taken EXCEPT ![t] = Head(replies)]
        /\ callbacks' = [callbacks EXCEPT ![Head(replies)] = @ - 1]
        /\ UNCHANGED draining
  /\ UNCHANGED <<requests, replies, usr2, vmProcess, child>>

(* The handler on the stack of t receives a reply, or there is none.       *)
Receive(t) ==
  /\ InHandler(t) /\ taken[t] = Nobody
  /\ \/ /\ replies = << >>
        /\ draining' = draining \ {t}
        /\ UNCHANGED <<replies, callbacks, taken>>
     \/ /\ replies # << >>
        /\ taken' = [taken EXCEPT ![t] = Head(replies)]
        /\ callbacks' = [callbacks EXCEPT ![Head(replies)] = @ - 1]
        /\ replies' = Tail(replies)
        /\ UNCHANGED draining
  /\ UNCHANGED <<requests, usr2, vmProcess, child>>

(* Mutant: the handler takes one reply for each signal.                    *)
CallBackOnce(t) ==
  /\ InHandler(t) /\ taken[t] # Nobody
  /\ taken' = [taken EXCEPT ![t] = Nobody]
  /\ draining' = draining \ {t}
  /\ UNCHANGED <<requests, replies, callbacks, usr2, vmProcess, child>>

(* It calls back for the reply it has received.                            *)
CallBack(t) ==
  /\ InHandler(t) /\ taken[t] # Nobody
  /\ taken' = [taken EXCEPT ![t] = Nobody]
  /\ UNCHANGED <<requests, replies, callbacks, usr2, draining, vmProcess, child>>

(* The virtual machine is killed; the machine process is not.              *)
Killed ==
  /\ vmProcess # "killed" /\ phase # "gone"
  /\ vmProcess' = "killed"
  /\ UNCHANGED <<requests, replies, callbacks, usr2, draining, taken, child>>

-----------------------------------------------------------------------------
(* The machine process                                                     *)

MachineSendReply(t) ==
  /\ replies' = Append(replies, t)
  /\ usr2' = TRUE

Nothing == UNCHANGED <<replies, usr2>>

(* MachineRequestSignalHandler: a byte for poll.                           *)
RequestSignal ==
  /\ phase # "gone"
  /\ usr1
  /\ pipe < PipeMax
  /\ usr1' = FALSE
  /\ pipe' = pipe + 1
  /\ Nothing
  /\ UNCHANGED <<requests, phase, terminated, pendingReads, input, readable, parent>>

Polled == {pendingReads[i].what : i \in 1 .. Len(pendingReads)}

(* There is input for a thread that waits for it.                          *)
Input(d) ==
  /\ phase # "gone"
  /\ d \in Polled \ input
  /\ input' = input \union {d}
  /\ Nothing
  /\ UNCHANGED <<requests, usr1, pipe, phase, terminated, pendingReads, readable, parent>>

(* poll reports a byte, or a descriptor that a thread waits to read from.  *)
Poll ==
  /\ phase = "poll"
  /\ pipe > 0 \/ Polled \intersect input # {}
  /\ readable' = Polled \intersect input
  /\ \/ pipe > 0 /\ pipe' = pipe - 1 /\ phase' = "drain"
     \/ pipe = 0 /\ phase' = "reads" /\ UNCHANGED pipe
  /\ Nothing
  /\ UNCHANGED <<requests, usr1, terminated, pendingReads, input, parent>>

(***************************************************************************)
(* poll times out.  A process that is left alone ends; otherwise, as when  *)
(* a signal interrupts poll, nothing changes.                              *)
(***************************************************************************)
PollTimesOut ==
  /\ phase = "poll"
  /\ pipe = 0 /\ Polled \intersect input = {}
  /\ vmProcess = "killed"
  /\ terminated' = TRUE
  /\ phase' = "reads"
  /\ Nothing
  /\ UNCHANGED <<requests, usr1, pipe, pendingReads, input, readable, parent>>

ServeHead ==
  LET r == Head(requests)
  IN  \/ /\ r.what = "terminate"
         /\ terminated' = TRUE
         /\ Nothing
         /\ UNCHANGED pendingReads
      \/ /\ r.what = "at once"
         /\ MachineSendReply(r.from)
         /\ UNCHANGED <<terminated, pendingReads>>
      \/ /\ r.what \in Descriptors
         /\ pendingReads' = Append(pendingReads, r)
         /\ Nothing
         /\ UNCHANGED terminated

(* Mutant: one message is served for each byte.                            *)
ServeOne ==
  /\ phase = "drain"
  /\ phase' = "reads"
  /\ \/ /\ requests = << >>
        /\ Nothing
        /\ UNCHANGED <<requests, terminated, pendingReads>>
     \/ /\ requests # << >>
        /\ requests' = Tail(requests)
        /\ ServeHead
  /\ UNCHANGED <<usr1, pipe, input, readable, parent>>

(* The messages are served one after the other, until there is none.       *)
Serve ==
  /\ phase = "drain"
  /\ \/ /\ requests = << >>
        /\ phase' = "reads"
        /\ Nothing
        /\ UNCHANGED <<requests, terminated, pendingReads>>
     \/ /\ requests # << >>
        /\ requests' = Tail(requests)
        /\ ServeHead
        /\ UNCHANGED phase
  /\ UNCHANGED <<usr1, pipe, input, readable, parent>>

FirstRead(d) ==
  CHOOSE i \in 1 .. Len(pendingReads) :
    /\ pendingReads[i].what = d
    /\ \A j \in 1 .. i - 1 : pendingReads[j].what # d

(* Mutant: the read is answered and stays pending.                         *)
ReadKeeping(d) ==
  /\ phase = "reads"
  /\ d \in readable
  /\ readable' = readable \ {d}
  /\ MachineSendReply(pendingReads[FirstRead(d)].from)
  /\ input' = input \ {d}
  /\ UNCHANGED <<requests, usr1, pipe, phase, terminated, pendingReads, parent>>

(* The first read from d is done.                                          *)
Read(d) ==
  /\ phase = "reads"
  /\ d \in readable
  /\ readable' = readable \ {d}
  /\ MachineSendReply(pendingReads[FirstRead(d)].from)
  /\ pendingReads' = RemoveAt(pendingReads, FirstRead(d))
  /\ input' = input \ {d}
  /\ UNCHANGED <<requests, usr1, pipe, phase, terminated, parent>>

(* The pass is over.  A process that leaves the loop removes the queues.   *)
PassDone ==
  /\ phase = "reads"
  /\ readable = {}
  /\ \/ /\ ~ terminated
        /\ phase' = "poll"
        /\ UNCHANGED <<requests, replies>>
     \/ /\ terminated
        /\ phase' = "gone"
        /\ requests' = << >> /\ replies' = << >>
  /\ UNCHANGED <<usr1, usr2, pipe, terminated, pendingReads, input, readable, parent>>

MachineStep ==
  \/ RequestSignal \/ Poll \/ PollTimesOut \/ Serve \/ PassDone
  \/ \E d \in Descriptors : Read(d)

-----------------------------------------------------------------------------
(* Any thread may run; System says which one does.                         *)
ThreadStep(t) ==
  \/ \E what \in Descriptors \union {"at once"} : MachineRequest(t, what)
  \/ MachineTerminate(t)
  \/ ReplySignal(t) \/ Receive(t) \/ CallBack(t)

MachineNext ==
  \/ \E t \in Threads : ThreadStep(t)
  \/ Killed
  \/ MachineStep
  \/ \E d \in Descriptors : Input(d)

MachineSpec == MachineInit /\ [][MachineNext]_machineVars

-----------------------------------------------------------------------------
(***************************************************************************)
(* No request is forgotten: while there is one in the queue, a signal or a *)
(* byte is on its way to the machine process, or it is taking requests.    *)
(***************************************************************************)
NoRequestForgotten == requests # << >> => usr1 \/ pipe > 0 \/ phase = "drain"

(***************************************************************************)
(* No reply is forgotten: while there is one in the queue, SIGUSR2 is      *)
(* pending or a handler's loop is on the stack of some thread.             *)
(***************************************************************************)
NoReplyForgotten == replies # << >> => usr2 \/ draining # {}

=============================================================================
