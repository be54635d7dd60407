# The virtual machine of Basic-Operating-System in TLA+

The repository is a user-space virtual machine: an application is a shared
object whose threads call the `VM*` functions; a "machine" process does their
I/O and signals the alarm. These modules model the calls that change shared
state, check them on small instances with TLC, and prove with TLAPS the invariants that
hold for every application, or for every one of a kind that is named.

## 1. The system

| Component | Code | State | Operations |
|---|---|---|---|
| Scheduler | `Scheduler.cpp`, `ThreadControlBlock.cpp` | the threads' control blocks, four ready queues (one per priority), four waiting queues (one per reason), the current thread | `addToReady`, `removeFromReady`, `addToWaiting`, `removeFromWaiting`, `processAllWaiting`, `scheduleNext` |
| Threads | `VirtualMachine.cpp` 1040-1294 | a control block's state, ticks, mutexes held and wanted | `VMThreadCreate`, `Delete`, `Activate`, `Terminate`, `ID`, `State`, `Sleep` |
| Mutexes | `VirtualMachine.cpp` 2050-2224, `Mutex.cpp` | locked or not, owner, a queue of waiters per priority | `VMMutexCreate`, `Delete`, `Query`, `Acquire`, `Release` |
| Signals | `VirtualMachine.cpp` 45-51, 481-492, 1301-1323 | pending ticks and answers, handlers on the stacks of threads | `alarmHandler`, `fileHandler`, `waitForIO` |
| Memory pools | `MemoryPool.cpp`, `MemoryManager.cpp`, `VirtualMachine.cpp` 933-1033 | free and used chunks of each pool; threads waiting for shared memory | `VMMemoryPoolCreate`, `Delete`, `Query`, `Allocate`, `Deallocate` |
| Console I/O | `VirtualMachine.cpp` 1564-1661, 1760-1858 | a block of shared memory per call | `VMFileRead`, `VMFileWrite` on descriptors below 3 |
| File system | `VirtualMachine.cpp` 55-476, 1325-2043, `FileSystem.cpp` | FAT, root entries, open files, cached clusters, the file-system mutex | `VMFileOpen`, `Close`, `Read`, `Write`, `Seek` |
| Directories | `VirtualMachine.cpp` 57-359, 670-926, 1377-1503 | the slots of the root directory, open directories; the current path is always "/" | `VMDirectory*`, the search and creation of `VMFileOpen` |
| Names, dates, paths | `VirtualMachine.cpp` 57-359, `VirtualMachineUtils.c` | none | long and short names, FAT dates, paths |
| Machine | `Machine.cpp` | request and reply queues, pending callbacks, pending reads, the pipe, two pending signals | `MachineFile*`, `MachineTerminate`, `MachineReplySignalHandler`, the loop of the machine process |
| Start, shutdown | `VMStart`, `main.c` | how far shutdown has come | `VMStart` before and after `VMMain` |

A call suspends signals on entry and resumes them on return. It gives the
processor up only in `scheduleNext`, where another thread goes on in the middle
of *its* call, with signals still suspended, or in its own code. Everything the
threads share lives in the scheduler, so all the races of the system are races
between a thread that waits in the middle of a call and the calls, ticks and
answers that happen meanwhile. One handler adds to that: `SIGALRM` is not masked
while the handler of `SIGUSR2` drains the reply queue, and its callback calls the
scheduler, so that a drain loop can stay on the stack of a thread while others run.
Across the process boundary requests and replies travel in System V message queues,
each followed by a `SIGUSR2` that merges with one that is pending already.

What is hard here: a time-out against a grant of the mutex it waits for;
terminating a thread in each of its states, with mutexes held and wanted;
answers for threads that are dead, deleted or activated again; two records of
who owns what; a `scheduleNext` that trusts that some queue is filled; unsigned
counters at 0 and at 2^32; loops that erase from the vector they walk; merged
signals, replies held on a sleeping stack, a shutdown that waits with signals
blocked; names that are compared by their beginnings and cut into pieces.
PROJECT.json lists each hazard at its line.

## 2. Modules

| Module | What it holds |
|---|---|
| `Scheduler` | `KernelState`, one record with all the shared data, and every method of the scheduler, the control block, the mutex and the memory queue as an operator from records to records |
| `Kernel` | one action per call and signal handler, the properties |
| `Console` | `VMFileRead` and `VMFileWrite` below descriptor 3, run by the threads of `Kernel`: the block of shared memory, the rounds, the memory queue, errors |
| `MemoryPool` | the lists of a pool, as operators: first fit, give back, merge |
| `MemoryManager` | the five calls on memory pools, and the map to `Allocator` |
| `Allocator` | what these calls promise, without lists |
| `Files` | the file calls from descriptor 3 on, the file-system mutex, the cache, the end of `VMStart` |
| `Machine` | `Machine.cpp`: both ends of the message queues, the two handlers, the loop of the machine process; any thread may run |
| `System` | `Console` and `Machine` together: which thread's stack a handler is on, the answers that `Console` takes from it, shutdown, fairness, liveness |
| `Directories` | the slots of the root directory, the search and creation of `VMFileOpen`, the directory calls |
| `MCKernel`, `MCConsole`, `MCMemory`, `MCFiles`, `MCSystem`, `MCDirectories` | instances for TLC |
| `IterationProofs` | what a loop written as a recursive function returns, and what erasing from a vector leaves |
| `KernelProofs` | what each operator of `Scheduler` preserves, hand-over and termination included; the inductive invariant and the theorems of `Kernel` |
| `CalmProofs` | calm applications: each thread in its one queue, sleeps, waits and answers as promised |
| `ConsoleProofs` | blocks do not leak, no wake-up for one is lost, only errors delay a higher thread |
| `FilesProofs` | the chains of the FAT stay apart and hold the files' bytes; reads, writes and shutdown keep them |
| `MemoryProofs` | the lists of a pool stay tiled and merged; `MemoryManager` implements `Allocator` |
| `SystemProofs` | no request and no reply is forgotten; `System` implements `Machine`; one answer for each thread that waits |
| `DirectoriesProofs` | tables stay sound, short names distinct, a name keeps its file |

**Kernel.** `vm` is the shared data. `frame[t]` is the stack of thread t as far
as it matters: `User` while t runs its own code, otherwise the call whose
`scheduleNext` switched it away, with the arguments the rest of the call uses.
`io[t]` counts requests of t that the machine has not answered. `due[t]` is a
history variable: the ticks that must still pass before t may return from a
sleep or a timed wait. One action is a call up to its return or up to its
`scheduleNext`; the rest after it is an action of `Finish`, which must come
before any signal is taken. A fault (NULL, a freed control block, `abort`)
stops the model: it promises nothing afterwards. The loops that look for a
thread read the tids of the entries they pass; those reads are taken to
succeed. `VMThreadTerminate` takes any thread in `Victims`, the caller and the idle
thread included, as the code does; which threads those are is up to the run. The main thread can be terminated; activating
it again would start a context with a NULL entry function, and is left out.

**Console.** A call first takes a block (`ConsoleCall`), or waits in the memory
queue and tries again when it is woken (`Retry`); `RoundReturns` is what it does
after each answer. The path of a failed answer differs from that of a good one:
it readies the next thread without giving it the processor, which is why
`HighestRuns`, proved of `Kernel`, becomes `OnlyErrorsDelay` here.

**Memory pools.** Addresses are numbers. `MemoryPool` keeps the free and the
allocated list as sequences in the code's order. The loop that looks for the block to give
back runs on to the length the vector had before the erase, and so reads the slot behind the
vector's end (`SearchNext`); that libstdc++'s `erase` leaves the last segment there is taken for granted.
`misled` records that such a slot has been taken for the block. `MemoryManager!IsAllocator`
says that the code, seen through the blocks it has handed out, implements
`Allocator`: blocks do not overlap, a request is refused only if no gap is large
enough, and only a pool that has everything back can be deleted.

**Files.** An action is what a call does between two places where it may lose
the processor: where it waits for the mutex (`at = "lock"`), for the machine
(`"seek"`, `"read"`), or has let a higher thread have the mutex (`"unlocked"`).
The scheduler is left out: any waiter may be given the mutex and any thread that
can go on may go on, so one run stands for every choice of priorities.
`"wild"` marks a call whose cluster is outside the FAT; the code reads whatever
lies at that place of the disk image, and the model follows it no further. `"freed"` marks a call whose
descriptor another thread has closed. Any thread may use any descriptor, as `findOpenFile` lets it, where `Risks`
contains `"share"`; elsewhere each uses those it has opened. The disk image never fails.
`position` is where the machine reads next, since a cluster is one seek and then
a read per sector. `text` is a history variable: what each file should hold.

**Machine.** A message is `[from, what]`; who asked stands for the entry of
`MachinePendingCallbacks`. `usr1` and `usr2` are the pending bits of `SIGUSR2` at the
machine process and at the virtual machine; `pipe` is the pipe its handler writes to.
`phase` is where the machine process is in its loop: at `poll`, draining the requests,
at the reads. `draining` are the threads with `MachineReplySignalHandler` on their
stack, `taken[t]` the reply that handler has received there and not passed on. Each
system call (`msgrcv`, `msgsnd` with `kill`, `read`, `poll`) is an action of its own. A
kill of the virtual machine may come at any point; the machine process ends when a
poll that has timed out finds its parent gone.

**System.** Each step of a thread is one of `Console`'s joined with one of `Machine`'s:
a call that sets `io` makes a request, `fileHandler` is called back from a handler,
and both happen only on the current thread (`InOwnCode`, `InHandler`). Ticks come in
its own code and inside a handler. `shutdown` follows `VMStart` after `VMMain`: the
image is closed, the main thread waits for the answer, the machine process is
told to end and waited for. The answer may come before the wait; `fileHandler` then
puts the running main thread into a ready queue, and that entry ends the wait.
`SystemImplementsMachine` is the refinement: projected to the queues, whatever the
scheduler does is a behaviour of `Machine`, where any thread may run at any time.

**Directories.** A slot is a piece of a long name or the entry of a file. What a name
is made of is abstracted to its length, its short form, and which names begin with it:
that is all the search, `updateSFN` and the piece count look at. The eighth character of a short
name is a byte, which `updateSFN` reads as a signed `char` on one side of its comparison (`Beyond`). `opened`, `returned` and
`seen` are history variables. Four things the code does are modelled as they are and
contradict no document of the repository: a reader lists deleted files that have
long names, since the mark of a deleted slot (0xE5) contains the bit of a last piece
(0x40); `VMFileOpen` opens such a file; a name opens any file whose long name it
begins; and a reader at the end of the table stays there whatever is created. A fifth
is not followed: where a new file's pieces do not fit the table, the code writes beyond it.

## 3. Runs

| Run | Question |
|---|---|
| `calm` | threads 3 (high), 4 (low), 5 (high) and main, two mutexes; no timed waits, no thread asks for a mutex it owns, no termination during I/O (3, 5 and main can be terminated, by themselves too): is each thread in one queue, do sleeps last, do infinite waits succeed, are answers one's own, is nothing revived or freed in use, does an owner keep its mutex |
| `any` | the same without these restrictions, one mutex, and a thread that is terminated, also by itself, during I/O, and activated again: the invariants of every application that spares the idle thread |
| `console` | four threads, three priorities, one block, failed answers: do blocks leak, are wake-ups lost |
| `system` | main, idle and two high threads, the machine process, input that is late, lost signals, ticks inside the handler, shutdown, a kill at any point: is a request, reply or wake-up forgotten, is each request answered once, do sleeps, waits and shutdown end, do the highest threads take turns |
| `directories` | an empty disk, one with a deleted file, one with a deleted long name and one on which another system has come to a higher digit; five names: do tables stay sound and short names apart, does a name keep its file, do readers see each file once |
| `memory` | two pools, created, used and deleted: are the lists tiled, inside the pool and merged, does the search never take a stale slot for the block, is it an allocator |
| `files` | two threads, a file each, three good clusters, from an empty disk and from one with a file whose clusters are out of order: is the FAT sound, do reads return what was written, does the disk hold it after shutdown |
| `early_wakeup`, `terminate_self_waiter`, `lost_wakeup`, `files_shrink`, `append_lost` | each shows one disagreement with a test or a comment |

What the five findings show:

* `early_wakeup`: a timed wait for a mutex runs out and the mutex is released
  before the thread runs. The thread is granted the mutex and is in a ready queue
  twice; the second entry ends its next sleep early. In the same way an infinite
  `VMMutexAcquire` can return failure.
* `terminate_self_waiter`: a thread that waits for a mutex it owns is handed it
  again by its own termination, and is READY after it.
* `lost_wakeup`: a thread woken for a block of shared memory is terminated
  before it takes it; the next in line stays asleep beside a free block.
* `files_shrink`: two threads write to one file through two descriptors; the size is
  read before the wait for the mutex and set after its release. No one seeks in this run: with
  one descriptor for both, a seek before the size is set would cut the file as well.
* `append_lost`: a write at the end of a file whose last cluster is full starts
  in the cluster numbered 0xFFFF.

Three more are known that contradict no document and have no run of their own. Lift the
restriction on `Victims` in `calm`, and `OwnAnswer` fails, since an answer to a request from
before a thread's termination resumes the request it makes after it has been activated
again. In `any` such an answer, or a timed wait, leaves a thread with a stale entry in a ready queue; it
then may come to be twice in the queue of sleepers, and its `ticksLeft` wraps around. And put the idle
thread into `Victims` in `any`, and `IdleIsQueued` fails: `VMThreadTerminate` (1143-1159) refuses only
threads that do not exist or are DEAD, so an application can terminate TID 2, which takes one of its two ready
entries; once the other has made it RUNNING again, a second termination takes that one too, and `scheduleNext`
dereferences NULL. If it is deleted instead, a freed control block is scheduled. `any`, and all theorems about
`Kernel`, `Console` and `System`, are therefore about applications that leave the idle thread
alone: `IdleSpared`, `Idle \notin Victims`.

The passing runs leave these out: the restrictions of `calm`, `Victims = {}` in
`console`, and `Risks = {}` in `files` are what the findings show to be needed,
and each violation run lifts one of them. The risks of `Files` are one file open twice, or one
descriptor used by two threads (`"share"`), a call that starts at the end of a full cluster
(`"boundary"`) and a write for which there may be no free cluster (`"full"`).

Bounds.

* `MaxTID` and `MaxMID` bound how many threads and mutexes are ever made, `MaxIO`
  the unanswered requests. `TickMax` stands for 2^32 - 1: 7 where sleeps are 2
  ticks long, 2 or 3 where they are 1 tick long. `MaxQueue`, with
  `ShortQueues`, cuts off states with longer queues in `any`: there a thread can be
  queued twice, and each double entry can make another, without end. The other
  runs need no constraint.
* One block of shared memory is the least and the hardest case; calls of 0 and 2
  rounds cover the one that never waits for an answer and the one that keeps its
  block from one answer to the next.
* `Granule` 2 stands for 64 and `SizeMax` 16 for 2^32; pools of 4 and 7 hold up to
  three blocks with a remainder, so that both neighbours of a block can be free,
  and a third request must look past a gap that is too small. `MaxMemID` bounds the
  pools ever made; once they are deleted nothing is left to do, so that run does
  not check deadlock.
* `Files`: two sectors of one byte per cluster, a FAT with three good clusters and
  a bad one. Requests of three bytes cross a cluster boundary from any position.
  `MaxFD` bounds the files ever opened. `EndMark` stands for 0xFFF7 and `ShortMark`
  for the 0xFFF that one comparison has instead. VMStart ends, so deadlock is not
  checked.

Deadlock is not checked in `any` and the violation runs: there a fault of
the code stops the model, or, with the idle thread alone left, nothing happens.

* `System`: one thread reads input and writes, two share the block, `PipeMax` 1 lets the
  handler of the machine process meet a full pipe, and one descriptor with two readers is
  enough for their order. `MaxIO` 1 bounds what one thread has under way, as its
  wait does. VMStart ends, so deadlock is not checked.
* `Directories`: pieces of two characters, so that names of 1, 2 and 3 characters are
  below, at and above the boundary. Ten slots let three files be created beside those of the
  disk, `MaxDescriptor` 4 two readers. `CharMax` 7 stands for 127 and `One` for the
  character 49: three names share the stem `"s"`, and on the disk with the
  digit 4 they have just enough room to stay in the range of a `char` (`MCDirectories` has TLC
  evaluate `FewShare`). Only the bounds end the run, so deadlock is not checked.

Fairness (`System!Fairness`). The machine process is a process of its own and gets time:
its steps are weakly fair, and so is input that is waited for. A thread that resumes inside
a call, and `VMStart`, go on: weakly fair, since signals are suspended there. A signal that
arrives during a call stays pending and is delivered when the call resumes signals; a
thread making call after call cannot put it off for ever, so ticks and the handler of
`SIGUSR2` are strongly fair. Nothing is assumed of the threads' own code: it may loop
or call for ever. `[]<>(curr = Idle)` and `[]<>(phase # "drain")` are premises of
`AnswersCome`, not fairness: without the first a reply can be held for ever by a handler on
the stack of a thread of low priority, without the second the machine process can find one
request after the other and never read. Both starvations are real, and TLC finds a
counterexample to `AnswersCome` when either premise is taken away: a NORMAL thread spins
while the handler that should take a HIGH thread's reply is on the idle thread's stack. `SleepsEnd`, `HighGetsTurn` and
`MachineEnds` have no such premise. The conjuncts for ticks and handlers are WF and SF with
what enables the action written out (a tick matters if it changes the scheduler), which
keeps TLC from computing ENABLED of large actions.

## 4. Proofs

`KernelProofs` proves, for all values of the constants that satisfy the
assumptions in `Scheduler` and `Kernel` and `IdleSpared`, that the invariants of run `any` hold
of `Spec`. `IdleSpared` is needed (section 3), and is a hypothesis of every theorem there. The
inductive invariant `Ind` adds to them:

* `ReadySorted`: an entry of `ready[p]` has priority p, and the idle thread is
  the only one of priority NONE. Without it, `IdleIsQueued` is not preserved by
  taking a thread out of a queue, nor `HighestRuns` by `scheduleNext`.
* `LocksOK`: holders agree and no waiter is forgotten for every mutex, and a
  locked mutex exists.
* `io[Idle] = 0` and that the idle thread is never DEAD: nobody answers it, and
  by `IdleSpared` nobody terminates it.

The loops (`processAllWaiting`, the release of a terminated thread's mutexes,
the erase loops) are recursive functions; `IterationProofs` proves that such a
function exists and what its steps preserve. The loop over `mHeld` in
`VMThreadTerminate` is the hard one, since `mHeld` can grow while it runs: each
round uses up an entry and adds one only when it takes a waiter out of a mutex's
queue, so the entries still to come plus the waiters bound the rounds
(`PassOnLast`).

`CalmProofs` proves the seven properties of run `calm` of every calm application: no
mutex is waited for with a time-out (`AcquireTimeouts` holds only 0 and VM_TIMEOUT_INFINITE),
no thread asks for a mutex it owns (`~Reentrant`), no thread that may be in I/O is
terminated (`Victims \cap IOUsers = {}`), and the idle thread is not (`IdleSpared`). A finding, or a counterexample named in section 3,
shows that each of the four is needed. The inductive invariant `CalmInd` adds to `Ind`

* `Placed`, of the shared data alone. `InLine` and `InWait`: a queue lists a set of threads,
  each once, and a thread is in a queue exactly if its state and its reason to wait
  call for it. `Linked`: the threads in the queue of a mutex are those that want it, and they wait
  without end and do not own it. `Standing` and `Running`: what the state of a thread says of its ticks.
* `ThreadOK`, of a thread and the call it is in: a thread in `VMThreadSleep` is waiting, or
  its time is over; one in `VMMutexAcquire` wants the mutex, or owns it; one that waits for
  an answer has one coming, and no other.

None of the seven can be proved alone: that a sleep lasts needs that no stale entry of a
ready queue exists, which needs that whoever readies a thread finds it waiting, for an answer
as much as for a mutex. What the three loops do to `Placed` is one lemma each: `SleepLoop` (a tick), `MutexLoop`
(the search for the next owner) and `ReleaseAllPlaced` (the mutexes of a dead thread).

`ConsoleProofs` proves the five invariants of run `console`, for calm applications in which no thread
that may use the console is terminated (`CalmUsers`; `lost_wakeup` shows the need). The inductive
invariant `ConsoleInd` adds to `CalmInd`

* `InMemoryQueue`: the memory queue lists, each once, the threads whose `waitingFor` says so.
* `Using`: a thread in a call lives, and only one in the call waits for memory. `WakeupsSuffice` counts the
  threads that were woken and try again; the count falls only when one of them takes a block or waits
  again, so nothing else may change what such a thread waits for. That no tick, grant or answer reaches it is `Placed`.
* `Served`: the current thread is the highest, or has just left the path of an error. It needs what `KernelProofs`
  also proves of each call: which threads it makes ready, and that it leaves the memory queue alone (`QueueKept`).

`BlocksAccounted` and `WakeupsSuffice` compare cardinalities, so each step of a call is a lemma about the
sets `Busy` and `Told` of threads before and after it.

`MemoryProofs` proves the invariants of run `memory` and the refinement, for pools of any size
and any sequence of calls. `Modest` says that rounding a request up to the granule does not
wrap: for a size above 2^32 - 64 the code itself allocates nothing and answers with
success, which is a hazard of PROJECT.json and no promise. `Ample`, used by the refinement alone, says that
`Addresses`, over which `Allocator` quantifies, holds every address of every pool. The
inductive invariant `MemInv` says that every pool is `Sound`: its lists are in order and
apart, each address of the pool lies in exactly one of their segments, and no segment, free
or allocated, reaches outside it.

* Taking a block shrinks or erases one free segment and appends one allocated segment. `FirstFit` finds a
  segment whenever one is large enough.
* Giving a block back: the free segments before it and after it are split at
  exactly one place (`Splits`), and `MergeKeeps` takes the four cases of touching neighbours. The loop
  over the allocated list goes on after it has erased an entry, but no second block has the base,
  so it changes nothing more: that holds of the slot behind the vector's end too (`SearchNeverMisled`), which
  the loop does read.
* The query adds up the sizes of a list. Sums that count addresses (`SizesAddUp`, `BytesBalance`)
  relate them to the size of the pool, so that "all free" means that there is no allocated block.
* A refusal is right because a gap between allocated blocks is covered by the free list, and
  by one segment of it, since touching segments would have been merged (`RoomIsFree`).

`SystemProofs` proves that both queues are always met by a signal or a loop:
`NoRequestForgotten` (inductive with `pipe \in Nat`) and `NoReplyForgotten` (inductive as it
stands: a handler leaves a stack only when it has found the queue empty).
It then proves `SystemSpec => MachineSpec`, action by action, and so that the two hold
of the whole system, for any number of threads, any priorities and any scheduling.

It also proves `SystemTypeOK` and `OneAnswerEach`, of calm applications (`Calm`, as in `CalmProofs`; `System`
itself has no thread terminated by another). The invariant joins two. `MachineInv`, of `Machine` alone:

* `Balanced`: the callbacks registered for a thread are its requests in the queue, its reads that
  are pending and its replies in the queue, taken together. Each step of the machine process moves one message from
  one of these to the next, and a lemma about `Tally` says what that does to the sum. When the machine process ends
  it removes the queues, and "are" becomes "are no fewer than"; so no callback count ever falls below 0.
* `ReadsWait`: a pass reads only from a descriptor for which a read is pending. `NotTold`: while threads run, the machine
  process is not told to end.

`MainInv`, of the rest: while `VMMain` runs, `ConsoleInd` holds, and `Answered`, that the requests a thread waits for are
its callbacks and the replies to it that handlers hold, on whichever stack. `CalmInd` says that this number is 1 for
a thread in WAITING_IO and 0 for any other. Once `VMMain` has returned only `Ended` is left: the answer to the request that closes the disk
image may come before the main thread waits for it, so `CalmInd` fails then, and only the types are kept.

`FilesProofs` proves the five invariants of run `files`, for any size of sectors, clusters, FAT and root
directory and any number of threads, descriptors and calls. It supposes what the run does. `Risks = {}`: the
findings `files_shrink` and `append_lost` show that with two descriptors on one file, or a write
at the end of a full cluster, the properties fail; the third risk, a file that is created or grows when no cluster is free, is the hazard at
line 1405 of `VirtualMachine.cpp`. `SoundImages`: the disk is one that a file system has left, each chain
ending at an end mark, long enough for its file and apart from the others (`MCFiles` has TLC evaluate it for the disks of
the runs). No assumption is made on who gets the mutex or which thread goes on.

The inductive invariant `FilesInv` says that there are chains `ps`, one for each entry of the root directory, such that
(`Sound(ps)`)

* `LaidOut`: `ps[e]` starts where entry e says, follows the FAT to an end mark, and is long enough for the
  size; no cluster is in two places of the chains; a cluster in no chain is free or bad. The chains are part of the
  statement, not computed from the FAT: a step then says which chain it makes longer (`LinkLaysOut`, `NewLaysOut`), and only
  `LaidOutSound` has to know that following the FAT finds them.
* `Filed`: a file that no write is at work on has its bytes in its chain, read through the cache.
* `Under`, of a call that is at work, wherever it waits: from where it began to where its file pointer is, the
  chain holds what a write has copied, and everywhere else what the file held before; a read has collected the bytes
  between the two places. `At` says that the cluster and the offset the call remembers are those of its file pointer.

In addition (`Reading`) a call that waits for a cluster owns the mutex and knows how many sectors it has read; once
`VMMain` has returned no call is left, and after `WriteTables` the disk has the tables (`Ending`). Why each
part is needed: `BytesKept` fails after a step of a write unless the copied bytes are known to be in that file's own clusters, which
is `LaidOut`; `ReadsBack` looks at a call's end only, so `Under` must say what the call has read since; the FAT changes
while others wait for the mutex, and what they remember (`At`) must still be right when they get it.

* The loop of `VMFileRead` and `VMFileWrite` is `Copy`. `Going` is what every round keeps, `CopyNextKeeps` takes the
  round apart, and each round copies something or is the last, so that the bound on the rounds is never met (`CopyKeeps`).
* A step of one call leaves all other files and calls alone because their clusters are others: `OneFileKeeps` says so once, for
  every step of every call.
* Writing a cluster back and dropping it from the cache changes no byte of any file (`WrittenBack`), and so shutdown ends
  with the files on the disk.

`DirectoriesProofs` proves `DirectoriesTypeOK`, `TableSound`, `ShortNamesDistinct`,
`SameFile` and `ReadsInOrder` for names and pieces of any length and tables of any size, from
`DirectoryAssumption`: the disk's root directory is sound and its short names distinct when
it is mounted, no name is empty, and a name with more than eight characters before the "."
has a short form that ends in ~1. `ShortNamesDistinct` has the hypothesis `FewShare` besides: beyond the
range of a `char` the digit is compared as a negative number, and the last rival in the table alone decides what comes
next. With the digits 5, 8 and 4 on the disk, in this order, and 7 for `CharMax`, the next file gets 5 again (TLC finds this). `NamesInv` adds `Room`: no digit is so high that the names still missing could
bring it beyond `CharMax`; each file that is created raises the highest digit by one and is one name less
that is missing (`MissingLess`). `TableInv` replaces `SameFile` by the stronger fact
that what a name has opened is the first entry it matches: a new file goes behind all others,
so a first match stays first (`FirstStays`), and a file is created only if nothing
matches, so it is the first match of its name (`FirstNew`). `ShortNamesDistinct` rests on the
same search (`StaysDistinct`): a short name without ~1 would have been found. For
`ReadsInOrder` (`ListsInv`) a reader must also stand at a slot at which readers stop. It passes no
file that is listed, since a deleted file with a long name has a deleted piece before it
(`DeletedWhole`), at which the reader has stopped.

## 5. Only checked, or not modelled

Every safety property that a passing run checks is proved. Liveness (`SleepsEnd`, `HighGetsTurn`, `AnswersCome`,
`MachineEnds`) is out of the prover's reach and stays with TLC: it needs the fairness conditions, and with them ENABLED. The five findings are counterexamples of runs.

Left out:

* the contexts themselves and the stacks of threads, which the code takes from the
  shared pools of `MemoryManager`;
* the wrap-around of a size near 2^32 that is rounded up: `MemoryPool` has it
  (`RoundUp`), but no run asks for such a size;
* the failures of `MachineInitialize`, a message queue that is full (both `msgsnd`s would
  block with signals suspended), a request identifier that comes round after 2^32 requests;
* a tick inside the map `MachinePendingCallbacks`, and the termination of a thread with a
  handler on its stack: undefined or lost, as PROJECT.json says at their lines;
* a return of `VMMain` while other threads are in file calls; a thread terminated during one;
  a seek or a read of the disk image that fails, whose result no one looks at; what a call does
  with a `File` that another thread has closed;
* the termination of the idle thread: `Kernel` has it, the properties exclude it (`IdleSpared`); the
  activation of a main thread that was terminated;
* `VirtualMachineUtils.c`: pure functions on path strings, of which the directory calls
  accept only "/"; the conversion of dates; the bytes that console calls copy;
* the applications, which are clients: threads make any call in any order.

PROJECT.json lists for each component what is left out, and for each hazard that
no property covers why.

## 6. Plan

1. Scheduler, Kernel (the core) with proofs. Done.
2. MemoryPool and the abstract allocator it implements. Done and proved.
3. Console: blocks, the memory queue, lost wake-ups. Done and proved.
4. Machine and System: queues, signals, the drain loops, shutdown, fairness. Done, with
   the refinement proved.
5. FileSystem: FAT chains, clusters, the mutex held and not held. Done and proved.
6. Directories: slots, names, readers. Done and proved.
7. The invariants of `Kernel` for calm applications. Done and proved; they hold of
   `Console` and, while `VMMain` runs, of `System`, where `OneAnswerEach` follows.
