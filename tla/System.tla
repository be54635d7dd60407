------------------------------- MODULE System -------------------------------
(***************************************************************************)
(* The virtual machine and the machine process together: the threads of    *)
(* Console make their requests of the process of Machine, and its answers  *)
(* come to them through the handler of SIGUSR2, which runs on the stack of *)
(* whichever thread it interrupts.                                         *)
(*                                                                         *)
(* VMMain returns when no other thread of the application lives, and no    *)
(* thread is terminated by another: a thread terminated while the handler  *)
(* is on its stack would take the reply the handler holds with it.         *)
(***************************************************************************)
EXTENDS Console, Machine

(* Those who ask for I/O are the threads of the scheduler.                 *)
ASSUME SystemAssumption == Threads = Thread /\ Victims = {}

VARIABLE
  shutdown   \* how far VMStart has come since VMMain returned

systemVars == <<allVars, machineVars, shutdown>>

SystemTypeOK ==
  /\ ConsoleTypeOK
  /\ MachineTypeOK
  /\ shutdown \in {"no", "asked", "waits"}

SystemInit == ConsoleInit /\ MachineInit /\ shutdown = "no"

-----------------------------------------------------------------------------
(* A call that now waits for an answer has made a request.                 *)
Asks(t) ==
  \/ io' = io /\ UNCHANGED machineVars
  \/ io' # io /\ \E what \in Descriptors \union {"at once"} : MachineRequest(t, what)

MakeCall(t) ==
  /\ InOwnCode(t)
  /\ shutdown = "no"
  /\ \/ \E n \in Rounds : ConsoleCall(n)
     \/ Call /\ UNCHANGED consoleVars
  /\ Asks(t)
  /\ UNCHANGED shutdown

(* The current thread resumes in a call and goes on with it.               *)
Resume(t) ==
  /\ InOwnCode(t)
  /\ \/ Retry \/ RoundReturns
     \/ Finish /\ UNCHANGED consoleVars
  /\ Asks(t)
  /\ UNCHANGED shutdown

(* The handler begins, receives a reply or ends.                           *)
HandlerLoop(t) ==
  /\ InUser
  /\ ReplySignal(t) \/ Receive(t)
  /\ UNCHANGED <<allVars, shutdown>>

(* It calls fileHandler for the thread that asked.                         *)
HandlerCallsBack(t) ==
  /\ taken[t] # Nobody
  /\ CallBack(t)
  /\ UNCHANGED shutdown
  /\ Answer(taken[t])

(* A tick interrupts the thread's own code or the handler.                 *)
Alarm ==
  /\ vmProcess = "runs"
  /\ UNCHANGED <<consoleVars, machineVars, shutdown>>
  /\ AlarmHandler

(***************************************************************************)
(* The end of VMStart.  VMMain has returned with signals enabled, and they *)
(* stay so: the answer may come after the request to close the disk image  *)
(* and before the main thread waits for it.                                *)
(***************************************************************************)
CloseImage(t) ==
  /\ Calls /\ t = Main
  /\ shutdown = "no"
  /\ \A u \in App \ {Main} : vm.state[u] = "DEAD"
  /\ MachineRequest(t, "at once")
  /\ io' = [io EXCEPT ![t] = @ + 1]
  /\ shutdown' = "asked"
  /\ UNCHANGED <<vm, frame, due, consoleVars>>

WaitForClose(t) ==
  /\ Calls /\ InOwnCode(t)
  /\ shutdown = "asked"
  /\ vm' = Block(vm, WAITING_IO)
  /\ Suspend("io", NULL_MUTEX, 0)
  /\ shutdown' = "waits"
  /\ UNCHANGED <<io, due, consoleVars, machineVars>>

EndMachine(t) ==
  /\ Calls
  /\ shutdown = "waits"
  /\ MachineTerminate(t)
  /\ UNCHANGED <<allVars, shutdown>>

Resumes == \E t \in Thread : t = curr /\ Resume(t)

HandlerStep == \E t \in Thread : t = curr /\ (HandlerLoop(t) \/ HandlerCallsBack(t))

InputComes(d) == Input(d) /\ UNCHANGED <<allVars, shutdown>>

MachineWorks == MachineStep /\ UNCHANGED <<allVars, shutdown>>

ShutsDown == \E t \in Thread : t = curr /\ (WaitForClose(t) \/ EndMachine(t))

SystemNext ==
  \/ \E t \in Thread : t = curr /\ (MakeCall(t) \/ CloseImage(t))
  \/ Resumes
  \/ ShutsDown
  \/ HandlerStep
  \/ Alarm
  \/ MachineWorks
  \/ \E d \in Descriptors : InputComes(d)
  \/ Killed /\ UNCHANGED <<allVars, shutdown>>

SystemSpec == SystemInit /\ [][SystemNext]_systemVars

-----------------------------------------------------------------------------
(***************************************************************************)
(* Fairness.  The machine process runs beside the virtual machine and gets *)
(* processor time, and input comes in as long as it is waited for.  A      *)
(* thread that resumes inside a call goes on with it, VMStart goes on, and *)
(* a handler that is not interrupted goes on.  A signal that is pending is *)
(* delivered when a call enables signals again: a thread that makes call   *)
(* after call cannot put it off for ever, so ticks are strongly fair, and  *)
(* so are the steps of a handler that is due whenever the idle thread      *)
(* runs.  Nothing is assumed of a thread's own code.  The last three       *)
(* conjuncts are WF and SF with what enables the action written out.       *)
(***************************************************************************)
HandlerDue ==
  /\ vmProcess = "runs" /\ InUser
  /\ usr2 \/ curr \in draining

TickMatters ==
  /\ vmProcess = "runs" /\ InUser
  /\ TickOf(vm) # vm \/ \E t \in Thread : due[t] # 0

Fairness ==
  /\ WF_systemVars(MachineWorks)
  /\ \A d \in Descriptors : WF_systemVars(InputComes(d))
  /\ WF_systemVars(Resumes)
  /\ WF_systemVars(ShutsDown)
  /\ <>[]HandlerDue => []<><<HandlerStep>>_systemVars
  /\ []<>(HandlerDue /\ curr = Idle) => []<><<HandlerStep /\ curr = Idle>>_systemVars
  /\ []<>TickMatters => []<><<Alarm>>_systemVars

FairSpec == SystemSpec /\ Fairness

-----------------------------------------------------------------------------
MessagesFrom(t, q) == Cardinality({i \in 1 .. Len(q) : q[i].from = t})

(* The messages and replies that concern thread t, wherever they are.      *)
OnTheirWay(t) ==
  MessagesFrom(t, requests) + MessagesFrom(t, pendingReads) + Count(replies, t)
    + Cardinality({u \in Thread : taken[u] = t})

(***************************************************************************)
(* A thread that waits for I/O has one answer on its way to it, and none   *)
(* is on its way to any other thread, as long as VMMain runs.              *)
(***************************************************************************)
OneAnswerEach ==
  vmProcess = "runs" /\ shutdown = "no" =>
    \A t \in App :
      OnTheirWay(t) =
        IF vm.state[t] = "WAITING" /\ vm.waitingFor[t] = WAITING_IO THEN 1 ELSE 0

WaitsFor(t, reasons) ==
  /\ vmProcess # "killed"
  /\ vm.state[t] = "WAITING" /\ vm.waitingFor[t] \in reasons

(* A thread that sleeps becomes ready.                                     *)
SleepsEnd == \A t \in App : WaitsFor(t, {WAITING_SLEEP}) ~> ~ WaitsFor(t, {WAITING_SLEEP})

(***************************************************************************)
(* A thread that waits for an answer, or for a block of shared memory,     *)
(* becomes ready, if the two processes run out of work again and again.    *)
(* Neither can be left out: the handler's loop may hold a reply on the     *)
(* stack of a thread of low priority, until that thread runs again, and    *)
(* the machine process reads nothing while it finds one request after the  *)
(* other.                                                                  *)
(***************************************************************************)
AnswersCome ==
  []<>(curr = Idle) /\ []<>(phase # "drain") =>
    \A t \in App :
      WaitsFor(t, {WAITING_IO, WAITING_MEMORY}) ~> ~ WaitsFor(t, {WAITING_IO, WAITING_MEMORY})

(* Round robin: a ready thread of the highest priority gets its turn.      *)
HighGetsTurn ==
  \A t \in {u \in App : Priority[u] = VM_THREAD_PRIORITY_HIGH} :
    vm.state[t] = "READY" /\ vmProcess = "runs"
    ~> ~ (vm.state[t] = "READY" /\ vmProcess = "runs")

(***************************************************************************)
(* Shutdown comes to its end: the image is closed, whenever the answer     *)
(* comes, and the machine process exits, which VMStart waits for.  It also *)
(* exits when the virtual machine has been killed.                         *)
(***************************************************************************)
MachineEnds == shutdown # "no" \/ vmProcess = "killed" ~> phase = "gone"

=============================================================================
