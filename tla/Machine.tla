------------------------------- MODULE Machine -------------------------------
(***************************************************************************)
(* The simulated machine under the kernel: the clock and the list of       *)
(* pending interrupts of machine/interrupt.cc, and three devices with what *)
(* the kernel puts over them: the timer of -rs, the disk under             *)
(* filesys/synchdisk.cc and the console under ConsoleTest of               *)
(* userprog/progtest.cc.                                                   *)
(*                                                                         *)
(* Time passes when an operation re-enables interrupts (OneTick) and in    *)
(* the idle loop.  `list` holds times from now, so the states are finite   *)
(* without a bound on time.  `phase` is where the processor is: in a       *)
(* thread ("run"), about to re-enable interrupts ("tick"), in the loop of  *)
(* OneTick ("check") or of Idle ("drain"), or at the end of Idle ("idle"). *)
(***************************************************************************)
EXTENDS NachosSync, SequencesExt

CONSTANTS
  DiskDone, ReadAvail, WriteDone, (* semaphores the handlers V             *)
  DiskLock,                       (* SynchDisk's lock                      *)
  Echo,                           (* the thread that runs ConsoleTest      *)
  SystemTick, ConsoleTime,        (* of machine/stats.h, scaled down       *)
  TimerDelays,                    (* 1 + Random() % (TimerTicks * 2)       *)
  Latencies,                      (* what Disk::ComputeLatency may return  *)
  MaxChars                        (* bound: characters typed               *)

ASSUME MachineAssumption ==
  /\ Devices = {DiskDone, ReadAvail, WriteDone} /\ Semaphores = Devices
  /\ DiskDone # ReadAvail /\ DiskDone # WriteDone /\ ReadAvail # WriteDone
  /\ Locks = {DiskLock} /\ Conditions = {}
  /\ InitialValue = [d \in Devices |-> 0]
  /\ Echo \in Threads \ {MainThread}
  /\ {SystemTick, ConsoleTime} \subseteq Nat \ {0} /\ MaxChars \in Nat
  /\ TimerDelays \subseteq Nat \ {0} /\ Latencies \subseteq Nat \ {0}
  /\ TimerDelays # {} /\ Latencies # {}

VARIABLES
  list,           (* pending interrupts, sorted by the time they are due   *)
  phase,          (* where the processor is                                *)
  yieldOnReturn,  (* Interrupt::yieldOnReturn                              *)
  pc,             (* what each thread does next                            *)
  active,         (* Disk::active                                          *)
  incoming, putBusy,   (* Console: the buffered character, 0 if none       *)
  typed, screen,       (* characters read from the keyboard, and shown     *)
  crashed              (* an ASSERT failed                                 *)

diskVars == <<active>>
consoleVars == <<incoming, putBusy, typed, screen>>
ownVars == <<list, phase, yieldOnReturn, pc, diskVars, consoleVars, crashed>>
machineVars == <<vars, ownVars>>

Types == {"TimerInt", "DiskInt", "ConsoleReadInt", "ConsoleWriteInt"}

MachineTypeOK ==
  /\ TypeOK
  /\ list \in Seq([type : Types, in : Int])
  /\ \A i, j \in DOMAIN list : i < j => list[i].in <= list[j].in
  /\ phase \in {"run", "tick", "check", "drain", "idle"}
  /\ yieldOnReturn \in BOOLEAN
  /\ pc \in [Threads -> {"user", "request", "sleep", "release",
                         "console", "char", "put", "shown"}]
  /\ active \in BOOLEAN /\ putBusy \in BOOLEAN /\ crashed \in BOOLEAN
  /\ incoming \in 0..MaxChars /\ typed \in 0..MaxChars
  /\ screen \in Seq(1..MaxChars)

-----------------------------------------------------------------------------
(* The list of pending interrupts.                                         *)

(* List::SortedInsert: in front of the first element whose key is bigger.  *)
SortedInsert(seq, item) ==
  LET bigger == {i \in DOMAIN seq : seq[i].in > item.in}
      place == IF bigger = {} THEN Len(seq) + 1
               ELSE CHOOSE i \in bigger : \A j \in bigger : i <= j
  IN  InsertAt(seq, place, item)

(* Interrupt::Schedule.                                                    *)
Schedule(seq, type, fromNow) == SortedInsert(seq, [type |-> type, in |-> fromNow])

Elapse(seq, ticks) == [i \in DOMAIN seq |-> [seq[i] EXCEPT !.in = @ - ticks]]

Due == list # <<>> /\ Head(list).in <= 0

(* Mutant: the rest of the list is not looked at.                          *)
TimerFirst == list # <<>> /\ Head(list).type = "TimerInt"

(* CheckIfDue does not serve the time slicer when the machine is idle and  *)
(* nothing else is pending.                                                *)
OnlyTheTimer == list # <<>> /\ Tail(list) = <<>> /\ Head(list).type = "TimerInt"

(* Mutant: what is not served is lost.                                     *)
PutBackNot == IF list = <<>> THEN list ELSE Tail(list)

(* SortedRemove and SortedInsert of an interrupt that is not to be served. *)
PutBack == IF list = <<>> THEN list ELSE SortedInsert(Tail(list), Head(list))

(* The timer is there with -rs; nobody has asked anything of the disk, and *)
(* the console is made by ConsoleTest.                                     *)
MachineInit ==
  /\ Init
  /\ list \in {<<>>} \union {Schedule(<<>>, "TimerInt", d) : d \in TimerDelays}
  /\ pc = [t \in Threads |-> IF t = Echo THEN "console" ELSE "user"]
  /\ phase = "run" /\ yieldOnReturn = FALSE
  /\ active = FALSE /\ incoming = 0 /\ putBusy = FALSE
  /\ typed = 0 /\ screen = <<>> /\ crashed = FALSE

-----------------------------------------------------------------------------
(* Threads.  An operation of the kernel leaves its caller blocked, or      *)
(* about to re-enable interrupts.                                          *)

Executing(t) == Running(t) /\ phase = "run" /\ ~ crashed

Step(t, from, to) ==
  /\ Executing(t) /\ pc[t] = from /\ pc' = [pc EXCEPT ![t] = to]

(* Where a thread goes on that gets the processor: round its P loop, or    *)
(* out of Yield or into ThreadRoot, which both enable interrupts.          *)
Entry(t) == IF on[t] = NULL THEN "tick" ELSE "run"

AfterCall(t) == phase' = IF status'[t] = "RUNNING" THEN "tick" ELSE "run"

ForkThread(t, new) ==
  /\ Executing(t) /\ pc[t] = "user" /\ t = MainThread
  /\ Fork(t, new) /\ AfterCall(t)
  /\ UNCHANGED <<list, yieldOnReturn, pc, diskVars, consoleVars, crashed>>

FinishThread(t) ==
  /\ Executing(t) /\ pc[t] = "user"
  /\ Finish(t) /\ AfterCall(t)
  /\ UNCHANGED <<list, yieldOnReturn, pc, diskVars, consoleVars, crashed>>

GoOn(t) ==
  /\ phase = "run" /\ Resume(t) /\ AfterCall(t)
  /\ UNCHANGED <<list, yieldOnReturn, pc, diskVars, consoleVars, crashed>>

(* The end of Sleep, once the idle loop, if it was entered, has returned.  *)
GiveProcessor ==
  /\ phase \in {"run", "idle"} /\ Dispatch
  /\ phase' = Entry(Head(readyList))
  /\ UNCHANGED <<list, yieldOnReturn, pc, diskVars, consoleVars, crashed>>

-----------------------------------------------------------------------------
(* SynchDisk: ReadSector and WriteSector are the same four steps.          *)

(* Mutant: the disk is used without its lock.                              *)
AcquireDiskNot(t) ==
  /\ Step(t, "user", "request")
  /\ UNCHANGED <<vars, list, phase, yieldOnReturn, diskVars, consoleVars, crashed>>

AcquireDisk(t) ==
  /\ Step(t, "user", "request")
  /\ P(t, DiskLock) /\ AfterCall(t)
  /\ UNCHANGED <<list, yieldOnReturn, diskVars, consoleVars, crashed>>

(* Disk::ReadRequest and WriteRequest.                                     *)
DiskRequest(t) ==
  /\ Step(t, "request", "sleep")
  /\ IF active
     THEN crashed' = TRUE /\ UNCHANGED <<list, active>>
     ELSE /\ active' = TRUE
          /\ \E ticks \in Latencies : list' = Schedule(list, "DiskInt", ticks)
          /\ UNCHANGED crashed
  /\ UNCHANGED <<vars, phase, yieldOnReturn, consoleVars>>

AwaitDisk(t) ==
  /\ Step(t, "sleep", "release")
  /\ P(t, DiskDone) /\ AfterCall(t)
  /\ UNCHANGED <<list, yieldOnReturn, diskVars, consoleVars, crashed>>

ReleaseDisk(t) ==
  /\ Step(t, "release", "user")
  /\ Release(t, DiskLock) /\ AfterCall(t)
  /\ UNCHANGED <<list, yieldOnReturn, diskVars, consoleVars, crashed>>

-----------------------------------------------------------------------------
(* ConsoleTest: echo what is typed.  Nobody types 'q'.                     *)

NewConsole(t) ==
  /\ Step(t, "console", "char")
  /\ list' = Schedule(list, "ConsoleReadInt", ConsoleTime)
  /\ UNCHANGED <<vars, phase, yieldOnReturn, diskVars, consoleVars, crashed>>

AwaitChar(t) ==
  /\ Step(t, "char", "put")
  /\ P(t, ReadAvail) /\ AfterCall(t)
  /\ UNCHANGED <<list, yieldOnReturn, diskVars, consoleVars, crashed>>

(* Console::GetChar, then Console::PutChar.                                *)
GetAndPut(t) ==
  /\ Step(t, "put", "shown")
  /\ incoming' = 0
  /\ IF putBusy
     THEN crashed' = TRUE /\ UNCHANGED <<list, putBusy, screen>>
     ELSE /\ screen' = Append(screen, incoming)
          /\ putBusy' = TRUE
          /\ list' = Schedule(list, "ConsoleWriteInt", ConsoleTime)
          /\ UNCHANGED crashed
  /\ UNCHANGED <<vars, phase, yieldOnReturn, diskVars, typed>>

AwaitShown(t) ==
  /\ Step(t, "shown", "char")
  /\ P(t, WriteDone) /\ AfterCall(t)
  /\ UNCHANGED <<list, yieldOnReturn, diskVars, consoleVars, crashed>>

-----------------------------------------------------------------------------
(* Interrupt handlers, run with interrupts off by CheckIfDue.              *)

HandlerV(d) ==
  /\ VBody(d) /\ status' = Ready(status, Woken(d))
  /\ UNCHANGED <<currentThread, life, threadToBeDestroyed, on, holder,
                 waitQueue, machVars>>

(* CheckIfDue takes the first interrupt and calls its handler.             *)
Serve(type) ==
  /\ \/ phase = "check"
     \/ phase = "drain" /\ ~ OnlyTheTimer
  /\ Due /\ Head(list).type = type

(* Timer::TimerExpired.  CheckIfDue has set the status to SystemMode, so   *)
(* the handler asks for a yield in the idle loop too.                      *)
TimerExpired ==
  /\ Serve("TimerInt")
  /\ \E d \in TimerDelays : list' = Schedule(Tail(list), "TimerInt", d)
  /\ yieldOnReturn' = TRUE
  /\ UNCHANGED <<vars, phase, pc, diskVars, consoleVars, crashed>>

(* Disk::HandleInterrupt, SynchDisk::RequestDone.                          *)
DiskInterrupt ==
  /\ Serve("DiskInt") /\ list' = Tail(list)
  /\ active' = FALSE
  /\ HandlerV(DiskDone)
  /\ UNCHANGED <<phase, yieldOnReturn, pc, consoleVars, crashed>>

(* Mutant: a character is read over one that nobody has taken.             *)
CanReadAlways == typed < MaxChars

(* There is room in the buffer, and a character at the keyboard.           *)
CanRead == incoming = 0 /\ typed < MaxChars

(* Console::CheckCharAvail; a character may not have been typed yet.       *)
CheckCharAvail ==
  /\ Serve("ConsoleReadInt")
  /\ list' = Schedule(Tail(list), "ConsoleReadInt", ConsoleTime)
  /\ \/ /\ CanRead
        /\ typed' = typed + 1 /\ incoming' = typed + 1
        /\ HandlerV(ReadAvail)
     \/ UNCHANGED <<vars, typed, incoming>>
  /\ UNCHANGED <<phase, yieldOnReturn, pc, diskVars, putBusy, screen, crashed>>

(* Console::WriteDone.                                                     *)
ConsoleWritten ==
  /\ Serve("ConsoleWriteInt") /\ list' = Tail(list)
  /\ putBusy' = FALSE
  /\ HandlerV(WriteDone)
  /\ UNCHANGED <<phase, yieldOnReturn, pc, diskVars, incoming, typed, screen,
                 crashed>>

-----------------------------------------------------------------------------
(* The clock.                                                              *)

OneTick ==
  /\ phase = "tick"
  /\ list' = Elapse(list, SystemTick) /\ phase' = "check"
  /\ UNCHANGED <<vars, yieldOnReturn, pc, diskVars, consoleVars, crashed>>

(* The end of OneTick: nothing more is due; yield if the timer asked to.   *)
EndTick ==
  /\ phase = "check" /\ ~ Due
  /\ list' = PutBack /\ yieldOnReturn' = FALSE
  /\ IF ~ yieldOnReturn THEN phase' = "run" /\ UNCHANGED vars
     ELSE IF readyList = <<>> THEN phase' = "tick" /\ UNCHANGED vars
     ELSE phase' = Entry(Head(readyList)) /\ Yield(currentThread)
  /\ UNCHANGED <<pc, diskVars, consoleVars, crashed>>

(* Interrupt::Idle: nobody is ready; halt, or go to the time of the first  *)
(* interrupt.                                                              *)
IdleLoop ==
  /\ Sleeping /\ readyList = <<>> /\ phase \in {"run", "idle"}
  /\ mode # "Halted"
  /\ IF list = <<>> \/ OnlyTheTimer
     THEN mode' = "Halted" /\ UNCHANGED <<list, phase>>
     ELSE /\ mode' = "IdleMode" /\ phase' = "drain"
          /\ list' = IF Due THEN list ELSE Elapse(list, Head(list).in)
  /\ UNCHANGED <<threadVars, synchVars, pending, yieldOnReturn, pc, diskVars,
                 consoleVars, crashed>>

(* Its end: what was due has been served.                                  *)
EndIdle ==
  /\ phase = "drain" /\ (~ Due \/ OnlyTheTimer)
  /\ list' = PutBack /\ yieldOnReturn' = FALSE /\ phase' = "idle"
  /\ UNCHANGED <<vars, pc, diskVars, consoleVars, crashed>>

ThreadStep(t) ==
  \/ \E new \in Threads : ForkThread(t, new)
  \/ FinishThread(t) \/ GoOn(t)
  \/ AcquireDisk(t) \/ DiskRequest(t) \/ AwaitDisk(t) \/ ReleaseDisk(t)
  \/ NewConsole(t) \/ AwaitChar(t) \/ GetAndPut(t) \/ AwaitShown(t)

MachineNext ==
  \/ \E t \in Threads : ThreadStep(t)
  \/ GiveProcessor \/ OneTick \/ EndTick \/ IdleLoop \/ EndIdle
  \/ TimerExpired \/ DiskInterrupt \/ CheckCharAvail \/ ConsoleWritten

(* The machine is a sequential program: while it can go on, it does.       *)
MachineSpec == MachineInit /\ [][MachineNext]_machineVars /\ WF_machineVars(MachineNext)

-----------------------------------------------------------------------------
(* Properties.                                                             *)

Count(type) == Cardinality({i \in DOMAIN list : list[i].type = type})

(* A device has exactly one interrupt pending while it is busy, and none   *)
(* otherwise; requests never meet a busy disk, and who returns from the    *)
(* wait was woken by its own request, not by an earlier one's.             *)
DeviceProtocol ==
  /\ ~ crashed
  /\ Count("DiskInt") = IF active THEN 1 ELSE 0
  /\ Count("ConsoleWriteInt") = IF putBusy THEN 1 ELSE 0
  /\ \A t \in Threads : pc[t] = "release" /\ on[t] = NULL /\ status[t] # "BLOCKED"
       => ~ active /\ value[DiskDone] = 0 /\ holder[DiskLock] = t

(* console.cc:81-83 reads a character only if there is room for it: what   *)
(* is typed is echoed once each, in order.                                 *)
EchoInOrder ==
  /\ \A i \in DOMAIN screen : screen[i] = i
  /\ Len(screen) + (IF incoming = 0 THEN 0 ELSE 1) = typed

(* interrupt.cc:228-231 halts when nothing is ready and nothing pending,   *)
(* even over waiting threads; yet the time slicer never makes it stop      *)
(* while a request is on its way, so nobody is left behind.                *)
HaltLeavesNobody ==
  mode = "Halted" => \A t \in Threads : life[t] \notin {"forked", "started"}

(* Whatever else runs and however the timer slices, who waits for the disk *)
(* is woken and leaves it.                                                 *)
DiskAnswers == \A t \in Threads : pc[t] = "release" ~> pc[t] # "release"

=============================================================================
