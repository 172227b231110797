# Verification of the operating-systems homework repository

The repository is a collection of course work. Its core is a NachOS kernel that
grew over three assignments (`tarea1ThreadsNachos`, `ProyectoUserProg`,
`ProyectoVM`); `ProyectoVM/NachOS/code` is the last and largest state of it and
the one modelled here (`code/` below). Around it stand small concurrent
programs: three versions of a "hot potato" ring (semaphores, threads, message
queues) and the baboons exam. Vendored binaries, the MIPS cross compiler, the
C++ tutorial and the course documents are not part of this project.

## 1. Inventory

| Part | State it keeps | Operations | Talks to |
|---|---|---|---|
| Scheduler, threads (`code/threads/scheduler.cc`, `thread.cc`) | `currentThread`, the ready list, each thread's status, `threadToBeDestroyed` | Fork, Yield, Sleep, Finish, Run | everything that blocks; the interrupt simulator when idle |
| Semaphore, Lock, Condition, Mutex, Barrier (`code/threads/synch.cc`) | value and queue, holder, wait queue, count | P/V, Acquire/Release, Wait/Signal/Broadcast, Barrier::Wait | scheduler |
| SynchList (`code/threads/synchlist.h`) | list, lock, condition | Append, Remove | locks, conditions; used by mailboxes |
| Interrupt simulator, timer, preemption (`code/machine/interrupt.cc`, `timer.cc`, `threads/preemptive.cc`) | pending interrupts, level, mode | SetLevel, OneTick, Idle, Schedule, CheckIfDue | scheduler; device handlers |
| Dining philosophers (`code/threads/diningph.cc`, `threadtest.cc`) | state per philosopher, lock, five conditions | pickup, putdown, test | locks, conditions |
| Thread and semaphore tables (`code/threads/sysDataStructures.cc`) | bitmap, ThreadData, semaphores per id | AddThread, RemoveThread, IsThread, IsJoinable, AddSemaphore, RemoveSemaphore, GetSemaphore | system calls |
| System calls (`code/userprog/exception.cc`) | registers, the tables above | Exec, Join, Exit, Fork, Yield, Sem*, files, sockets | tables, address spaces, scheduler |
| Open files table (`code/userprog/table.cc`, `bitmap.cc`) | bitmap of used slots, Unix handles, counts | Open, Close, getUnixHandle | system calls |
| Address spaces (`code/userprog/addrspace.cc`) | page table, frames taken from the free map | create, copy for Fork, Save/RestoreState | bitmap, machine |
| Virtual memory (`code/vm/VmDataStructures.cc`) | inverted page table, TLB, swap | page fault, evict, load, protect, restore | machine, disk file |
| Disk driver (`code/filesys/synchdisk.cc`, `machine/disk.cc`), console | lock, semaphore, `active`; one character each way | ReadSector/WriteSector, GetChar/PutChar | interrupts |
| File system (`code/filesys`) | free map, directory, headers | Create, Remove, Open, Read, Write | the disk |
| Processor (`code/machine/mipssim.cc`, `machine.cc`, `translate.cc`) | registers, a delayed load, memory | OneInstruction, RaiseException, Translate | system calls, the TLB |
| Post office and network (`code/network/post.cc`, `code/machine/network.cc`) | mailboxes, sendLock, messageSent | Send, Receive, PostalDelivery | network interrupts |
| Potato ring with processes (`ProgrammingProject1/src`) | shared table of players, one semaphore per player | setPotato, setPlayer, potatoGame, launch, wait | SysV semaphores and shared memory |
| Potato ring with threads (`ShortHomework1_1/src`) | the same over `sem_t` and pthreads | the same | |
| Potato ring with messages (`ShortHomework1_2/src`) | potato value and round travel in messages | the same | SysV message queue |
| Baboons (`ExamIBaboons/src`) | a count of waiting baboons per rope, mutex, condition variables | Baboon, crossCanyon, waitOnRope | pthreads |

### What is hard in this code

* Every blocking operation of the kernel is split in two by `Thread::Sleep`:
  what comes after runs when the thread is dispatched, and by then another
  thread may have changed what it waited for (Mesa style).
* A single `threadToBeDestroyed` carries finished threads to whoever runs next.
* Exec, Join and Exit meet through a table whose slots are reused.
* Device operations end in interrupt handlers that V a semaphore.
* The potato programs must pass one token round a ring of processes, change the
  ring's state only while holding it, elect one winner and end everybody.
* The baboons leave their mutex before waking those who wait.
* The page fault handler writes three tables that must agree, and looks for
  victims with two different ideas of what is least recently used.
* Open files, sockets and semaphores are known by small numbers that are given
  out again, from tables of two sizes over one set of host descriptors.
* Create and Remove are several sector writes, and the machine may stop between
  two of them.
* Packets are lost, and nobody sends again.
* A load's value arrives one instruction late, and a page fault, an interrupt or
  a switch can come in between.

## 2. Plan

The order is by importance: first what every other part of the kernel stands
on, then the programs whose whole point is synchronisation, then the devices
and tables. Each step is a module, its run, and the theorems worth proving.

Done:

1. `NachosSync`, the thread kernel; `MesaMonitor`, what it implements;
   `NachosSyncProofs`.
2. Over it `DiningPh`, `Barrier` and `SynchList`, brought together by
   `Programs`; and `ExecJoin`. `ProgramsProofs`, `ExecJoinProofs`.
3. `PotatoRing` with processes, `PotatoThreads`, `PotatoMail`, brought together
   by `PotatoGames`; `Elimination`, what all three implement;
   `UnixProgramsProofs`.
4. `Baboons`, proved about in the same module.
5. `VirtualMemory`: inverted page table, TLB, replacement and address spaces;
   `VirtualMemoryProofs`.
6. `Machine`: clock, pending interrupts, timer, disk and console, over
   `NachosSync`; `MachineProofs`.
7. `FileSystem`: files on a disk whose machine may crash.
8. `PostOffice`, and `LossyMail`, what it implements; `DiskAndNetworkProofs`,
   for this and the file system.
9. `UserCalls`: files, semaphores and sockets of user programs.
10. `MipsSim`, and `MipsArchitecture`, what it implements, over `Words`;
    `UserModeProofs`, for this and the system calls.

Every safety property of a passing run is proved; section 5 tells what stays
with TLC for good.

## 3. Modules and code

`code/` stands for `src/ProyectoVM/NachOS/code/`. PROJECT.json gives the lines
behind each definition.

**NachosSync** (`threads/scheduler.cc`, `thread.cc`, `synch.cc`; the effect of
`machine/interrupt.cc` and `timer.cc`). Operations run with interrupts off on
one processor, so each is one step up to the point where it puts its caller to
sleep. What remains of it is the continuation `on[t]`, the semaphore in whose
P loop the thread is, and runs as the step `Resume` when the thread is
dispatched, again with interrupts off. `Finish` and a blocking `P` or `Wait`
leave the thread inside `Thread::Sleep`; `Dispatch` is the `Scheduler::Run` at
its end and `Idle` the idle loop before it, which may halt the machine.
`SwitchTo` has the one thing about `Run` that is easy to miss: the finished
thread is deleted only by a thread that *returns* from `SWITCH`. A lock is
identified with its own semaphore, as in the code. The time slicer is a
`Yield` at any point; a device is a semaphore that its interrupt Vs.

**MesaMonitor** is what `synch.h` says of the same operations: no scheduler, no
queue, each call one step.

**DiningPh**, **Barrier**, **SynchList**, **ExecJoin** extend NachosSync: a
program counter per thread names the statement it is at, and each step takes
one operation of the kernel together with the assignments before it. They are
compositions: every interleaving, preemption and wakeup comes from the kernel
module and none from an abstraction of it. The initial count of a barrier is
one of `InitialCounts`, since the constructor never writes it, and
`firstCount` remembers it; the run takes -1, 0, 1 and 2. **Programs**
extends NachosSync too and instantiates the first three on one machine:
`program` is what was started, the kernel's variables and the set of threads
are shared (the philosophers are `N` of them, and the barrier is made for all),
and a property of a program is stated of the behaviours that run it.

In ExecJoin the identity of a thread stands for its exit status and for the
semaphore of its entry, so that taking somebody else's is visible. A table
operation is one step; so are `IsThread` and the removal after it, and
AddThread and the fork inside `NachOS_Fork`. Nothing can come between them in
the default kernel, `ExecSpec`, which is the one modelled. Deleted threads stay in the table, and reading the kind of one is a
choice between the outcomes. Thread objects are alike, and `Fresh` is the next
one made.

**PotatoRing**, **PotatoThreads**, **PotatoMail** are the three versions of the
game. A step is one semaphore or queue operation, or what a player does
between two of them. Shared memory has no lock, so the private copies and the
shared potato are modelled as they are and `OneToken` is checked. The ring
passes left or right; `fork` may fail. PotatoThreads extends PotatoRing with the
joins, destroys and frees of `clean_up`. In PotatoMail the type of a message is
the player's number, and a blank message read as a potato yields anything.
**PotatoGames** starts one of the three (`version`) with the same arguments.
**Elimination** is the game as the readme tells it.

**Baboons** splits a baboon's visit at every atomic read of a counter, since a
baboon that releases its own rope has left the mutex. `wait` has no predicate:
it may return spuriously, and a notification before it is lost.

**VirtualMemory** (`vm/VmDataStructures.cc`, `userprog/addrspace.cc`, the TLB
half of `machine/translate.cc`, `NachOS_PAGE_FAULT_HANDLER`). The MMU is a
record and each of its methods an operator from that record to the next, with
the method's name. A step is the fetch of an instruction or its operand with the
fault it takes, an Exec, a Fork, or a switch with its SaveState and
RestoreState. An address space is its address in the heap, which a later one can
have again; `lastAccessCount` is the order it gives. Two tests in the replacement
code are not what their comments say, and the model has them as they are: the
LRU scan runs over 128 entries where 32 frames exist, and `if (tlbLocation)`
takes -1 for a place in the TLB and slot 0 for none.

**Machine** extends NachosSync: `list` is the sorted list of pending interrupts,
with times from now, and `phase` is where the processor is in `SetLevel`,
`OneTick`, `CheckIfDue` and `Idle`. A thread's operation is the kernel's, after
which interrupts are enabled and time passes. Time is that of system code only
(`SystemTick`), nobody types the 'q' that ends ConsoleTest, and the host's
signals of `-p` are left out. The timer's delays are more than a tick, as in
`TimerTicks`.

**PostOffice** has two machines with their two halves of MailTest and other
threads that send. Semaphores, locks and mailboxes are used as MesaMonitor and
`SynchList` describe them. Networks are reliable or lose any packet; the order
of interrupts is free. **LossyMail** is what `network.h` and `post.h` promise.

**FileSystem** keeps the disk (`sector`, `freeMap`, `directory`) apart from the
copies that a call works on (`call`); each write of a sector is a step, and
`Crash` can come before each. `filesys.cc:38-40` says that a crash may corrupt
the disk and that there is one client, so the client is one, and it leaves a
directory entry that a crash hit alone from then on (`hit`): without that no
property of this file system survives a crash.

**UserCalls** has the calls on files, sockets and semaphores as steps between
the points where a thread can lose the processor: a table's own lock, a
semaphore of the kernel's. A file's name, handle and host descriptor are three
things, and so are a semaphore's id and address. User programs pass any number
for an id: their own, another space's, the console's 0 and 1, the kernel's
semaphores 0..3, or none that exists. Three variables only remember: `opened`,
what a space has opened by name; `reached`, which file its Reads and Writes met
behind which descriptor; `meddled`, the kernel's semaphores whose id a program
has passed. What the code promises nothing about is then said of the properties
and not of the programs: `OneOwner` and `OnlyOwnFiles` are about the descriptors
other than 0 and 1, `SystemSemaphores` and `CallsReturn` about the semaphores
not in `meddled`.

**MipsSim** is OneInstruction with its delayed load and its traps; words have
`ByteBits` bits a byte and four bytes. **MipsArchitecture** is the processor it
stands for: instructions read, compute and write in one step, a load's value is
there, and there are no faults or other threads. `Seen` maps one to the other.
The rules of the manual that the simulator may rely on are in `KeepsTheRules`,
with one that is not in the manual: a J or JAL whose delay slot ends a region of
`JumpRegion` bytes is left out. The opcodes that compute something else
(`WrongOps`) are modelled as they are, and `SimAssumption` has no program contain
them.

The type invariants `TypeOK`, `ProgramsTypeOK`, `ExecTypeOK`, `GamesTypeOK`,
`BaboonsTypeOK`, `VMTypeOK`, `MachineTypeOK`, `PostTypeOK`, `FsTypeOK` and
`CallsTypeOK` are there for readers and for proofs. TLC finds each true with its
run's constants, and the listed runs spend their time on the other properties.

## 4. Runs

Passing runs:

| Run | Shows |
|---|---|
| `kernel` | all legal calls of three threads on one lock, two conditions and a device semaphore: one place per thread, no use of a deleted thread, lock and holder agree, no lost wakeup, the refinement of MesaMonitor; a ready thread runs and wakeups are used |
| `programs` | philosophers: neighbours apart; barrier: in either of two rounds, nobody is through a Wait that more threads have yet to call than the heap counted at first, so nobody is early from a count of 0 or less; list: exactly once and in order per producer, no item lies while consumers sleep. Everything gets done in all three, at the barrier from a count of 0 |
| `execjoin` | entries stay their owners', a join gets its child's status, no null entry is used, a join returns once the child has been through Exit |
| `potato` | in each version one potato at all times, the elimination, nothing used after it is destroyed, main reads its queue in order; games end |
| `baboons` | no rope counts a baboon it let go |
| `vm` | page tables, inverted table and free frames agree; the TLB translates the running process's pages only; a process finds what it wrote, as long as the heap has not used an address space's place again |
| `machine` | a request never meets a busy disk and is answered by its own interrupt; the console loses and repeats nothing; the machine halts over no waiting thread; who waits for the disk is woken |
| `post` | the refinement of LossyMail; an acknowledgement means delivery; a Send returns whatever is lost |
| `files` | after any crashes every other file keeps its sectors and the free map is exact; no call changes a byte it is not about |
| `calls` | with any ids: no descriptor beyond 0 and 1 has two owners; by those a Read or Write, also one that had to wait, reaches only files that its own space opened; a kernel semaphore whose id no program used is there, has its value and lets one call in at a time, and calls that wait for it return |
| `cpu` | each thread sees the MIPS processor, in spite of faults, interrupts, system calls and switches, but for OR, SRL, SRLV, LWL, LWR, SWL and SWR |

One run is refuted by TLC, a disagreement between the code and what is written
of it (quoted in PROJECT.json): `baboons_enough`, enough baboons wait and none
will ever cross, whoever comes.

### Differences that have no run

Each was seen in a model or while writing one.

* `threads/synch.cc:246` is meant to clear `count` and assigns the parameter. From
  a positive number in the heap a thread is through a Wait that others have yet to
  call, by as many as `BarrierHolds` allows; from a negative one the barrier opens
  late or never.
* A thread that ends without Exit never signals its parent: ExecuteThread returns
  when the file is missing (`exception.cc:200`). With -rs or -p the parent is in
  Join by then and sleeps until the machine halts; without, the child is deleted
  before the parent can ask for it, and what its kind reads as decides.
* Fork with a full table keeps the id -1 (`exception.cc:694`); a program that the
  new thread Execs asserts in BitMap::Test when it exits, which is what `NoCrash`
  leaves out.
* With -rs or -p a thread can Join, and another reuse the slot, between the V of
  Exit and its check (`exception.cc:144`), which removes the other's entry.
* `ShortHomework1_2/src/main.cpp:43` draws the starter from 0..n-1 while players
  are 1..n: one game in n with messages does not start (`Start` in PotatoMail).
* A baboon that is notified between its unlock and its wait is left behind, and
  its rope's count is reset all the same (`Rope.cpp:20`).
* Close(0) and Close(1) close the host's descriptors under every program, since
  each table starts with them (`exception.cc:621`, `table.cc`). The next file that
  any program opens is there instead, and all console output goes into it: the
  case that `OnlyOwnFiles` leaves out.
* `threads/thread.cc:132-134` lets Run delete every finished thread; when the
  next one is new it starts in ThreadRoot, not behind SWITCH, and if it finishes
  first `threadToBeDestroyed` is overwritten (`scheduler.cc:107`): a leak.
* `IsJoinable` asks a Thread that may be deleted for its kind: a Join of a child
  already gone may answer -1 (`IsJoinable` in ExecJoin has both outcomes).
* `ProgrammingProject1/readme.md:38` gives the arguments as n, v, r and
  `main.cpp:103` reads n, r, v: with a rotation of n or more the game never ends.
* `ExamIBaboons/src/main.cpp:37` passes the number of ropes and the maximum in the
  other order than the constructor takes them; with more ropes than the maximum
  `ropes[rope]` is out of bounds.
* When the TLB is full and every candidate is in slot 0, no entry is evicted and
  the fault is taken again and again (`VmDataStructures.cc:465`; `Diseno.md` says
  one is evicted, and that only `halt` works). A forked child's pages are
  read-only for ever: the copy-on-write case does nothing. Frames of dead
  processes are never given back, a fault leaks an OpenFile (:320), and nothing
  writes a page to swap.
* After an address space is deleted, another one at its address is taken for it
  by the TLB and the inverted table; `OwnContents` leaves those cases out
  (`reused`).
* `exception.cc:408-409` says that Write answers -1 for a bad id; BitMap::Test
  asserts and the machine stops. Write never writes register 2 for a file.
* SemDestroy, SemWait and SemSignal take the ids 0..3 of the kernel's own
  semaphores like any other (`exception.cc:738-767`): a program can let two
  Writes in at once, or leave every later Create a null pointer. For the last
  two an id that is in no table is a null pointer at once.
* Open and Create that find the table full, and Exit, leave host descriptors
  open; a thread that sleeps on a destroyed semaphore sleeps for ever; SemCreate
  leaks when its table is full; Socket throws when the host has no descriptor
  left; the Lock and Cond calls are empty and do not move the program counter, so
  they repeat for ever.
* Kernel code ignores the answer of ReadMem (`exception.cc:77`), so a name on a
  page that is out is read wrong.
* `filehdr.h`'s MaxFileSize is not tested by anybody.
* OR takes rs twice, SRL and SRLV keep the sign, LWL, LWR, SWL and SWR refuse
  what they are for. INT_MIN / -1 stops the host.
* J and JAL take the region from the address behind the delay slot, where the
  manual takes it from that of the slot: they differ when the slot is the last
  word of a region of 2^28 bytes, which no memory of this machine reaches.

**Bounds.** In `kernel`, three threads let one hold a lock, one wait for it or
on a condition and one be new or woken; two of them queue in one place in either
order. A semaphore's value plus pending interrupts is at most `MaxValue`, 2, so
that two wakeups can be on their way at once. In `programs` there are four threads: three philosophers with two
meals each, so that the two others can alternate past a hungry one; three
sleepers at the barrier and the one that opens it; two producers against two
consumers. Two rounds of a barrier show one use running into the next, two items
per producer their order; a first count of -1, 0, 1 or 2 leaves the barrier too
late, right, and too early by one thread and by several. A table of three slots
for four threads is full and is reused. Five potato players passing left
have neighbours, the wrap-around and three others; random values are taken from
a few that explode after a different number of turns. Four baboons on two ropes with a threshold of two allow a group that
crosses, one that comes in between and one that finds the result.

In `vm` three processes of three pages share three frames, an inverted table one
entry longer and a TLB of two slots, so that every replacement happens, also of
pages that another process has; two heap addresses make the third process land
where one was. In `machine` two threads compete for the disk beside the echo of
two characters; a disk is faster or slower than the timer and the console. In
`post` one machine has a second sender, so that two packets meet in the
one-packet buffer and two threads at the send lock. In `files` five free sectors
hold a file of each size and no third one; three names fill the directory, one entry
of which straddles two sectors; a write can start and end in, on and across
sector boundaries. In `calls` every table has one or two free places at first. What its
calls cost in all is bounded (`MaxCost`): four of Open, Write and Close let a thread
open, wait, be overtaken by a close and an open, and go on; three of any kind let
one hold a kernel semaphore, one wait for it and one use an id of its own or of
the kernel's. In `cpu` two instructions of one thread, with a start in a delay
slot or behind a load, and one of another put every instruction behind every
other with a fault, an interrupt or a switch between; a byte has one bit, so a
word has four, which is enough for signs, carries and overflow, and a region for
jumps has half of the addresses. Baboons and file
names, whom nobody names, are symmetric; there are no liveness properties in
those runs. The safety properties are proved for any such bounds.

**Deadlock** is not checked where the system stops by itself: a machine that
halts, games that end, baboons of a finite flow.

**Fairness.** The dispatcher is sequential code and devices answer in the end
(`Fairness` in NachosSync), and the time slicer makes a running thread yield
again and again, which is what `-rs` and `-p` are for; nothing is assumed of
what threads call. `Machine` needs less: the simulator is one sequential program
that goes on while it can (`WF(MachineNext)`), so a starving order of its choices
is part of what `DiskAnswers` holds for. In `PostOffice` each thread, each
machine's interrupts and each worker go on: a ready thread is dispatched and a
device answers. In `UserCalls` a thread inside a call goes on when it can, and
none has to make a call. The programs over the kernel assume that the processor is not
spent on preemption only (`WF(Progress)`): the timer fires after a number of
ticks in which code runs. In ExecJoin the machine goes on and user programs call
the kernel again in the end. The potato's processes and threads all run; a game
whose fork failed is not asked to end.

## 5. Proofs

Everything in this section holds for every value of the constants allowed by
the modules' ASSUMEs.

`NachosSyncProofs`: `TypeCorrect`, `OnePlaceHolds`, `NoDanglingThreadHolds`,
`LockExclusionHolds`, `NoLostWakeupHolds` and `ImplementsMonitor`. `OnePlace` is
not inductive: that Fork does not put a thread into the ready list twice needs
that exactly the threads that are still new were never given a place
(`NewInv`); that a dead thread comes back into no list needs that it is blocked
with no P left to do, and that the one carried in `threadToBeDestroyed` is not
deleted already (`DeadInv`); that the interrupt of a device in the idle loop
makes no second running thread needs that nobody runs there (`IdleInv`).
`ThreadInv` is the conjunction. Its proof goes
action by action, each a lemma, from lemmas on sequences (what Append, Tail and
Head do to "listed" and to injectivity). `NoLostWakeup` then needs cardinalities
of the set of awake threads: V adds one to both sides, a successful P takes one
from both, and a newcomer that takes a unit leaves an awake thread that will
queue again, when the value is one less. `ImplementsMonitor` maps the queue of
a condition to the set of its sleepers.

`UnixProgramsProofs`, the potato with processes: `PotatoTypeCorrect` and
`OneTokenHolds`. The type of the potato needs that its round is at most n for as
long as nobody has won (`RoundInv`), or the next explosion would take it past
n + 1. `OneToken` needs that before main signals there is no token and no player
(`StartInv`), so that the signal makes the first one. `RingInv` is the
conjunction; each action has a lemma.

The other two games: `GamesTypeCorrect`, `NoUseAfterDestroyHolds`,
`OnePotatoHolds`, `MainReadsInOrderHolds`. With threads, main's count of
signals is the number of players that have signalled and not been counted
(`CountInv`), so when it reaches n nobody is left to use what is destroyed, and
nothing is before that (`CleanInv`). With messages, the copy of the potato in a message or in
a hand is up to date with who is out (`MailToken`), and `MailBox` says what main's part of the queue looks like: the winner's
message first, blank ones after it, none before somebody has won.
`RingImplementsElimination` and `GamesImplementElimination` are the refinements.
What links the detail to the abstract order of going out is `Numbered`: the
rounds that those who are out have reached are 1, 2, ... without gap or
repetition, so sorting by them gives the order (`OutOrder`), and a player that
goes out extends it at its end.

Baboons: `CountedAreThereHolds`. The rope that a baboon at `notify_own` or
`reset_own` lets go is the one it stands at (`BaboonsInv`), so the reset it owes
is of the count it is part of.

`ExecJoinProofs`: `ExecTypeCorrect`, `OwnEntryHolds`, `JoinExactHolds`,
`NoCrashHolds`, and `ExecRunsKernel`, that every step of the system calls is one
of the kernel's (with NULL not an entry). The invariant is about who holds an
entry: a thread in its program has its slot (`SlotInv`), a parent and each child
it has not joined are linked through it (`FamilyInv`); Exec, Join and Exit in
progress each say what holds in between (`ExecingInv`, `JoiningInv`,
`AtomicInv`), and a join's semaphore is up only when its child has written the
status (`SemInv`).

`ProgramsProofs`, over `ThreadInv` and `LockExclusion` of the kernel:
`NeighboursApartHolds`, since a philosopher that eats has no eating neighbour and
one signalled still waits in its place (`Seated`, `EatApart`);
`BarrierHoldsForAll`, whatever the heap held. Every thread but the set L of those
left behind has called Wait r or r + 1 times, those one ahead are asleep on the
condition, and those in L are one round before the others (`InRound`). The
count is at most the number of those one ahead, and of L there are no more than
the heap counted at first; until the barrier opens for the first time L is empty
and the heap's number stands in the count instead (`Counted`);
`NoStrandedItemHolds`, which counts
the consumers on their way against the items (`Served`); and
`ExactlyOnceInOrderHolds`, which is about the concatenation of what was removed
and what lies in the list (`Conveyed`).

`VirtualMemoryProofs`: `VMTypeCorrect`, `TablesAgreeHolds`,
`OnlyOwnTranslationsHolds`, `OwnContentsHolds`. The methods of the MMU call each other in the middle
of a change, so the invariant is stated of a record m and a set U of frames in
use that runs ahead of the tables (`EntriesSound` for the page tables,
`SlotsSound` for the TLB, `OrderSound` for the ages), and each method has a
lemma. The scan that runs over more entries than there
are frames, and the place -1 for none, are why `LostForGood` is needed: once a
frame in use has no place in the TLB, the TLB is full, and the scan finds that
frame, or another such, and evicts nothing. That a process finds what it wrote
(`ContentsInv`) has one hypothesis more, `IptLength > NumFrames`, which is true of
the code: the array has 128 entries and the memory 32 frames. It is what keeps
written pages in memory, not any write to swap: entry 32 is never accessed, so
the scan for a victim ends at a frame that nobody has accessed either, or past
the memory. Hence what is evicted is clean (`NothingDirty`), what differs from
the executable is in memory and has been accessed (`Lasting`), a page is in one
frame (`OneFrame`), and a free frame is as the machine started with it or was
cleared (`Cleared`). A forked child never gets a frame.

`MachineProofs`, over the kernel's `ThreadInv`, `LockExclusion` and
`NoLostWakeup`: `MachineTypeCorrect`, `DeviceProtocolHolds`, `EchoInOrderHolds`,
`HaltLeavesNobodyHolds`. Each semaphore has its own balance: the disk's
interrupt pending, or its V done, or nobody using the disk (`DiskInv`); a
character in the buffer is one that has been announced or is being fetched
(`ConsoleInv`); each device has at most one interrupt in the list, exactly while
it is busy (`PendingInv`). `Placed` says which semaphore a thread can wait for at
each of its statements. That the halt leaves nobody takes all of them: a thread
that waits would need a unit that `NoLostWakeup` gives to an awake thread, or a
pending interrupt, and the idle loop has seen neither. The proof uses that the
disk's and the console's semaphores are distinct (`MachineAssumption`).

`DiskAndNetworkProofs`, the network: `PostTypeCorrect`, `AckMeansDeliveredHolds`,
`ImplementsLossyMail`. At most one thread is inside Send (`OneSender`), at most
one packet is between the network and the worker and the semaphores say where
(`OnePacket`); whatever is in transit is what its receiver has reason to expect
(`InTransit`), so an acknowledgement was preceded by the other's hearing. The
refinement maps socket, buffer and worker's hand to one sequence.

The file system: `FilesSoundHolds`, `OnlyOwnBytesHolds`. Calls write the disk one
sector at a time, so the invariant `FilesInv` speaks of the entries that are
*settled*: in use, never hit by a crash, and not the one the call is about. Their
files are well formed and disjoint (`SoundFiles`), and the map on the disk marks
their sectors and those of the call, when the call has come to that (`Marked`).
A crash between the two sectors of a directory entry that straddles them can
leave an old name in use there; `NamesFirst` says that it never stands before
the entry of the file of that name, as Add takes the first free one, so that it
shadows nothing. `Creating` and `Removing` say what the copies in memory hold
that the disk does not hold yet, and `Writing` that the buffer agrees with the
file outside the bytes to be written, by arithmetic on what WriteAt reads before
(`KeepsOld`). That Find can be called as often as Allocate does is a counting
argument: the free sectors, ranked by number, are as many as the ranks.

`UserModeProofs`, on system calls: `CallsTypeCorrect`, `OneOwnerHolds`,
`OnlyOwnFilesHolds`, `SystemSemaphoresHold`, for programs that pass any ids. A
call that waits keeps its handle and looks the descriptor up again, so the
invariant says of the tables alone that what they name, beyond the host's
descriptors 0 and 1, is open on a file the space opened, or on a socket
(`EntriesOpen`), and named once (`NoSharing`). The descriptors 0 and 1 are outside
both, as any program can close them. Of the semaphores, ids name different ones
that are there, and a kernel semaphore whose id no program has used is where the
kernel put it (`SemaphoresNamed`); only the calls that take such a semaphore have
its address put aside (`OwnCallsOnly`), so nobody else changes its value, and
that is 0 exactly while one of them is inside. `Underway` says what a call will
still do.

And on the processor: `SimTypeCorrect`, `IsMipsHolds`, `MultUnsigned`,
`MultSigned`, `CDivTruncates`, for any threads, programs, memories and size of a
byte. `SimInv` adds to the types that what stands at a thread's program counter
keeps the rules for the registers that thread has, on the processor or saved
(`Own`); it is what lets an instruction read what the program sees
(`OperandsSeen`), although a load may be under way. Each group of opcodes is then
one lemma (`ComputeStep` to `BranchStep`), that its outcome, seen with the load
landed (`AfterIs`), is the step of the architecture; traps, interrupts and
switches move a load that is under way but do not change what is seen
(`TrapStep`, `SwitchStep`). The groups need facts of arithmetic: overflow by the
bits of the signs (`AddOverflows`, `SubOverflows`), wrapping once or at every
step (`WrapSum`), and Mult, whose loop keeps a*(b << i) + product the same
(`Loop`, `TurnStep`, over double words). The induction over the loop is one over
a finite set of numbers, with no operator for a parameter (`Induction`, by
smallest counterexample), and the same gives a value to the recursive functions
`Turns` and `Sums`. `WordsAssumption` states that powers of two are positive
and 2^(m + n) = 2^m * 2^n up to the width of a word: the provers know no
exponents; TLC computes it.

**Only model-checked**: all liveness, as the prover has no ENABLED.
`EnoughAreLetCross` is false.

## 6. Not modelled

Most of the repository's lines are copies: `tarea1ThreadsNachos` and
`ProyectoUserProg` hold earlier states of the files under `ProyectoVM`, and each
has the course's tools for object files (`bin/`), test programs and headers.
The lines behind the models are therefore a small share of all, and the models
would say the same of the other copies; where they differ the last one is taken.

Of `ProyectoVM`, left out are: `AddrSpace` of the build without virtual memory,
whose loop over bytes copies pages until the file ends; the class `Swap` and
`writePageToSwap`, which have no caller; a page number beyond the address space,
which ends the thread; Decode, the byte order of the host and the debugger;
Select, addresses and data of sockets, and the host's own files; statistics,
command lines, List, Print and all other printing.

The one-call IPC demonstrations, the pseudocode and the client programs have no
states of their own. What the potato programs leave in the system after they
are killed is outside the models, and so are signals that interrupt `semop`,
which is retried.
