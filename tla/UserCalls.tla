----------------------------- MODULE UserCalls -----------------------------
(***************************************************************************)
(* The system calls on files, semaphores and sockets of                    *)
(* userprog/exception.cc over their three tables: the open files of an     *)
(* address space (userprog/table.cc), and the semaphores and the sockets   *)
(* of the whole machine (threads/sysDataStructures.cc, sysSocketLib.cc).   *)
(*                                                                         *)
(* User programs make any calls with any number for an id: of their own,   *)
(* of another space, of the console or of the kernel's semaphores, still   *)
(* good or not.  A thread may lose the processor wherever a call releases  *)
(* a lock or takes a semaphore (the kernel run with -rs).  A table's       *)
(* operation holds its lock from end to end and is part of one step.       *)
(* After a failed ASSERT, or the use of a deleted object, the machine is   *)
(* "crashed" and takes no more steps.                                      *)
(***************************************************************************)
EXTENDS Integers, FiniteSets, FiniteSetsExt

CONSTANTS
  NULL,
  UserThreads, Spaces, SpaceOf, (* who runs where; Forked threads share    *)
  Files, Present, (* names, and those of files that exist at first         *)
  MaxOpenFiles,   (* MAX_OPEN_FILES = 128                                  *)
  MaxSockets,     (* MAX_SOCKETS = 40                                      *)
  MagicNumber,    (* MAGIC_NUMBER = 130                                    *)
  MaxSemaphores,  (* MAX_SEMAPHORES = 40                                   *)
  MaxDescriptors, (* how many the host lets the simulator have             *)
  Ops,            (* the calls the user programs make                      *)
  Cost, MaxCost   (* bound: what calls cost, and may cost in all           *)

Handles == 0..(MaxOpenFiles - 1)
SocketIds == MagicNumber..(MagicNumber + MaxSockets - 1)
SemIds == 0..(MaxSemaphores - 1)
Descriptors == 0..(MaxDescriptors - 1)
SystemIds == 0..3

(* What a register may hold; -1 stands for the numbers of no table.        *)
FileOrSocket == Handles \union SocketIds \union {-1}
AnySemaphore == SemIds \union {-1}

ASSUME CallsAssumption ==
  /\ SpaceOf \in [UserThreads -> Spaces] /\ Present \subseteq Files
  /\ {MaxOpenFiles, MagicNumber, MaxSockets, MaxSemaphores, MaxDescriptors,
      MaxCost} \subseteq Nat
  /\ Cost \in [Ops -> Nat]
  /\ NULL \notin Int /\ NULL \notin Files /\ NULL \notin {"console", "socket"}
  /\ NULL \notin [fd : Descriptors, open : BOOLEAN]
  /\ Files \intersect {"console", "socket"} = {}
  /\ MaxOpenFiles > 2 /\ MaxSemaphores > 4 /\ MaxSockets > 0
  /\ MagicNumber >= MaxOpenFiles /\ MaxDescriptors > 2

VARIABLES
  openFiles,  (* space -> handle -> descriptor, NULL when its bit is clear *)
  sockets,    (* id -> [fd, open], NULL when its bit is clear              *)
  semTable,   (* id -> address of a Semaphore, NULL when its bit is clear  *)
  heap,       (* address -> value of the Semaphore there, NULL when freed  *)
  host,       (* descriptor -> what it denotes, NULL when closed           *)
  made,       (* the files that exist                                      *)
  job,        (* the call each thread is in                                *)
  opened,     (* space -> the files it has opened or created by name       *)
  reached,    (* space -> <<descriptor, file>> its Reads and Writes reached *)
  meddled,    (* the kernel's semaphores whose id a program has used       *)
  spent, crashed

kernelVars == <<openFiles, sockets, semTable, heap, host, made>>
ghostVars == <<opened, reached, meddled>>
callVars == <<kernelVars, job, ghostVars, spent, crashed>>

ConsoleIn == 0
ConsoleOut == 1

(* at: "user", "isOpened", "P", "asleep", "hold" (past its P), "socket"    *)
(* (it holds a pointer it was given by GetSocket), "lost", "done".         *)
Job(at, op, id, arg) == [at |-> at, op |-> op, id |-> id, arg |-> arg]
User == Job("user", NULL, NULL, NULL)
Become(t, j) == job' = [job EXCEPT ![t] = j]
Return(t) == Become(t, User)

CallsInit ==
  /\ openFiles = [s \in Spaces |-> [h \in Handles |->
                                      IF h < 2 THEN h ELSE NULL]]
  /\ sockets = [i \in SocketIds |-> NULL]
  /\ semTable = [i \in SemIds |-> IF i < 4 THEN i ELSE NULL]
  /\ heap = [a \in SemIds |-> IF a < 4 THEN 1 ELSE NULL]
  /\ host = [d \in Descriptors |-> IF d < 3 THEN "console" ELSE NULL]
  /\ made = Present
  /\ job = [t \in UserThreads |-> User]
  /\ opened = [s \in Spaces |-> {}] /\ reached = [s \in Spaces |-> {}]
  /\ meddled = {}
  /\ spent = 0 /\ crashed = "no"

(* BitMap::Find, and the host's choice of a descriptor: the lowest free.   *)
FreeIn(f) == {i \in DOMAIN f : f[i] = NULL}
Lowest(f) == IF FreeIn(f) = {} THEN -1 ELSE Min(FreeIn(f))

Crash(why) ==
  /\ crashed' = why
  /\ UNCHANGED <<kernelVars, job, ghostVars>>

-----------------------------------------------------------------------------
(* OpenFilesTable.                                                         *)

Marked(s, h) == openFiles[s][h] # NULL

(* A descriptor that is in the table already keeps its (last) handle.      *)
OpenHandle(s, d) ==
  LET Same == {h \in Handles : openFiles[s][h] = d}
  IN IF Same # {} THEN Max(Same) ELSE Lowest(openFiles[s])

SetHandle(s, h, d) ==
  IF h = -1 THEN openFiles ELSE [openFiles EXCEPT ![s][h] = d]

(* Open: the file must exist, and both the host and the table must have    *)
(* room; a descriptor that finds the table full stays open in the host.    *)
OpenCall(t, f) ==
  LET s == SpaceOf[t]
      d == IF f \in made THEN Lowest(host) ELSE -1
      h == OpenHandle(s, d)
  IN /\ IF d = -1
        THEN UNCHANGED <<openFiles, host, opened>>
        ELSE /\ host' = [host EXCEPT ![d] = f]
             /\ openFiles' = SetHandle(s, h, d)
             /\ opened' = [opened EXCEPT ![s] = @ \union {f}]
     /\ UNCHANGED <<sockets, semTable, heap, made, job, reached, meddled, crashed>>

(* As if Close left the entry, or only the bit, behind.                    *)
CloseFileKept(s, h) ==
  IF ~Marked(s, h) THEN UNCHANGED <<openFiles, host>>
  ELSE /\ host' = [host EXCEPT ![openFiles[s][h]] = NULL]
       /\ openFiles' = openFiles

(* Close of an id that is not a socket, the console's handles 0 and 1      *)
(* included.  The entry stays when the host's close fails, which finds the *)
(* descriptor closed already.                                              *)
CloseFile(s, h) ==
  IF ~Marked(s, h) \/ host[openFiles[s][h]] = NULL THEN UNCHANGED <<openFiles, host>>
  ELSE /\ host' = [host EXCEPT ![openFiles[s][h]] = NULL]
       /\ openFiles' = [openFiles EXCEPT ![s][h] = NULL]

-----------------------------------------------------------------------------
(* SysSocketTable.  A socket that Accept made was never marked open, and   *)
(* its destructor leaves the descriptor alone.                             *)

IsSocket(id) == id \in SocketIds /\ sockets[id] # NULL

Closed(sock) == IF sock.open THEN [host EXCEPT ![sock.fd] = NULL] ELSE host

(* Socket, and Accept when a client is there: a descriptor, then an id.    *)
AddSocket(open) ==
  LET d == Lowest(host)
      id == Lowest(sockets)
  IN /\ d # -1
     /\ IF id = -1
        THEN /\ host' = IF open THEN host ELSE [host EXCEPT ![d] = "socket"]
             /\ UNCHANGED sockets
        ELSE /\ host' = [host EXCEPT ![d] = "socket"]
             /\ sockets' = [sockets EXCEPT ![id] = [fd |-> d, open |-> open]]

RemoveSocket(id) ==
  /\ host' = Closed(sockets[id])
  /\ sockets' = [sockets EXCEPT ![id] = NULL]

-----------------------------------------------------------------------------
(* SysSemaphoreTable.  new takes any free address.                         *)

AddSemaphore(value) ==
  LET id == Lowest(semTable)
  IN IF id = -1 THEN UNCHANGED <<semTable, heap>>
     ELSE \E a \in FreeIn(heap) :
            /\ semTable' = [semTable EXCEPT ![id] = a]
            /\ heap' = [heap EXCEPT ![a] = value]

(* delete drops the queue, and the threads in it sleep for ever.           *)
RemoveSemaphore(id) ==
  LET a == semTable[id]
  IN /\ heap' = [heap EXCEPT ![a] = NULL]
     /\ semTable' = [semTable EXCEPT ![id] = NULL]
     /\ job' = [t \in UserThreads |->
                  IF job[t].at = "asleep" /\ job[t].arg = a
                  THEN [job[t] EXCEPT !.at = "lost"] ELSE job[t]]

GetSemaphore(id) == IF id \in SemIds THEN semTable[id] ELSE NULL

Asleep(a) == {t \in UserThreads : job[t].at = "asleep" /\ job[t].arg = a}

(* Semaphore::V on address a, and j for the thread that calls it.          *)
Signal(t, a, j) ==
  /\ heap' = [heap EXCEPT ![a] = @ + 1]
  /\ IF Asleep(a) = {} THEN Become(t, j)
     ELSE \E w \in Asleep(a) : job' = [job EXCEPT ![t] = j, ![w].at = "P"]

-----------------------------------------------------------------------------
(* The first step of each call.                                            *)

Calling(t, op) ==
  /\ op \in Ops /\ job[t].at = "user" /\ spent + Cost[op] <= MaxCost /\ crashed = "no"
  /\ spent' = spent + Cost[op]

(* A call that takes system semaphore n looks it up, then waits on it.     *)
Enter(t, op, id, n) == Become(t, Job("P", op, id, GetSemaphore(n)))

CallOpen(t) == \E f \in Files : Calling(t, "Open") /\ OpenCall(t, f)

CallCreate(t) == \E f \in Files :
  /\ Calling(t, "Create")
  /\ Enter(t, "Create", f, 2)
  /\ UNCHANGED <<kernelVars, ghostVars, crashed>>

(* Write and Read.  The other console stream is refused.                   *)
Transfer(t, op, console, n, other) ==
  \E id \in FileOrSocket :
    /\ Calling(t, op)
    /\ CASE id = console -> Enter(t, op, id, n)
         [] id = other -> Return(t)
         [] IsSocket(id) -> Become(t, Job("socket", op, id, sockets[id]))
         [] OTHER -> Become(t, Job("isOpened", op, id, NULL))
    /\ UNCHANGED <<kernelVars, ghostVars, crashed>>
CallWrite(t) == Transfer(t, "Write", ConsoleOut, 0, ConsoleIn)
CallRead(t) == Transfer(t, "Read", ConsoleIn, 3, ConsoleOut)

CallClose(t) ==
  \E id \in FileOrSocket :
    /\ Calling(t, "Close")
    /\ IF IsSocket(id)
       THEN RemoveSocket(id) /\ UNCHANGED <<openFiles, job, crashed>>
       ELSE Become(t, Job("isOpened", "Close", id, NULL))
            /\ UNCHANGED <<openFiles, sockets, host, crashed>>
    /\ UNCHANGED <<semTable, heap, made, ghostVars>>

CallSemCreate(t) == \E value \in {0, 1} :
  /\ Calling(t, "SemCreate")
  /\ AddSemaphore(value)
  /\ UNCHANGED <<openFiles, sockets, host, made, job, ghostVars, crashed>>

Meddle(id) == meddled' = meddled \union ({id} \intersect SystemIds)

CallSemDestroy(t) == \E id \in AnySemaphore :
  /\ Calling(t, "SemDestroy") /\ Meddle(id)
  /\ IF GetSemaphore(id) = NULL THEN UNCHANGED <<heap, semTable, job>>
     ELSE RemoveSemaphore(id)
  /\ UNCHANGED <<openFiles, sockets, host, made, opened, reached, crashed>>

(* SemWait and SemSignal follow the pointer without looking at it.         *)
CallSemaphore(t) ==
  \E op \in {"SemWait", "SemSignal"}, id \in AnySemaphore :
    /\ Calling(t, op)
    /\ IF GetSemaphore(id) = NULL THEN Crash("null pointer")
       ELSE /\ Become(t, Job(IF op = "SemWait" THEN "P" ELSE "V",
                             op, id, GetSemaphore(id)))
            /\ Meddle(id)
            /\ UNCHANGED <<kernelVars, opened, reached, crashed>>

CallSocket(t) ==
  /\ Calling(t, "Socket")
  /\ AddSocket(TRUE)
  /\ UNCHANGED <<openFiles, semTable, heap, made, job, ghostVars, crashed>>

(* Connect, Bind, Listen, Accept and Shutdown; nothing for an unknown id.  *)
CallOnSocket(t) ==
  \E op \in {"Use", "Accept"}, id \in SocketIds :
    /\ Calling(t, op) /\ IsSocket(id)
    /\ Become(t, Job("socket", op, id, sockets[id]))
    /\ UNCHANGED <<kernelVars, ghostVars, crashed>>

(* The last thread of a space drops the table; the descriptors stay open.  *)
CallExit(t) ==
  LET s == SpaceOf[t]
      last == \A u \in UserThreads \ {t} :
                SpaceOf[u] = s => job[u].at = "done"
  IN /\ Calling(t, "Exit")
     /\ Become(t, [User EXCEPT !.at = "done"])
     /\ openFiles' = IF last THEN [openFiles EXCEPT ![s] = [h \in Handles |-> NULL]]
                     ELSE openFiles
     /\ UNCHANGED <<sockets, semTable, heap, host, made, ghostVars, crashed>>

-----------------------------------------------------------------------------
(* The later steps of the calls.                                           *)

Going(t, at) == job[t].at = at /\ crashed = "no" /\ UNCHANGED spent

(* The file that descriptor d is open on, if it is, has been reached.      *)
Reaching(s, d) ==
  IF d \in Descriptors /\ host[d] \in Files
  THEN [reached EXCEPT ![s] = @ \union {<<d, host[d]>>}] ELSE reached

(* isOpened, with the look-up of semaphore 1 by Write; Close and Read act  *)
(* at once, with no point where the processor can be lost.  BitMap::Test   *)
(* asserts its range.                                                      *)
TestHandle(t) ==
  LET s == SpaceOf[t]
      h == job[t].id
  IN /\ Going(t, "isOpened")
     /\ CASE h \notin Handles -> Crash("assertion")
          [] h \in Handles /\ job[t].op = "Close" ->
               /\ CloseFile(s, h) /\ Return(t)
               /\ UNCHANGED <<sockets, semTable, heap, made, ghostVars, crashed>>
          [] h \in Handles /\ job[t].op = "Read" ->
               /\ reached' = Reaching(s, openFiles[s][h])
               /\ Return(t) /\ UNCHANGED <<kernelVars, opened, meddled, crashed>>
          [] h \in Handles /\ job[t].op = "Write" ->
               /\ IF Marked(s, h) THEN Enter(t, "Write", h, 1) ELSE Return(t)
               /\ UNCHANGED <<kernelVars, ghostVars, crashed>>

(* Semaphore::P: take it, or sleep and look again when woken.              *)
Down(t) ==
  LET a == job[t].arg
  IN /\ Going(t, "P")
     /\ CASE a = NULL -> Crash("null pointer")
          [] a # NULL /\ heap[a] = NULL -> Crash("freed memory")
          [] a # NULL /\ heap[a] = 0 ->
               /\ Become(t, [job[t] EXCEPT !.at = "asleep"])
               /\ UNCHANGED <<kernelVars, ghostVars, crashed>>
          [] a # NULL /\ heap[a] \notin {NULL, 0} ->
               /\ heap' = [heap EXCEPT ![a] = @ - 1]
               /\ IF job[t].op = "SemWait" THEN Return(t)
                  ELSE Become(t, [job[t] EXCEPT !.at = "hold"])
               /\ UNCHANGED <<openFiles, sockets, semTable, host, made,
                              ghostVars, crashed>>

(* Semaphore::V, of SemSignal or of the look-up of a system semaphore.     *)
Up(t) ==
  LET a == job[t].arg
  IN /\ Going(t, "V")
     /\ CASE a = NULL -> Crash("null pointer")
          [] a # NULL /\ heap[a] = NULL -> Crash("freed memory")
          [] a # NULL /\ heap[a] # NULL ->
               /\ Signal(t, a, User)
               /\ UNCHANGED <<openFiles, sockets, semTable, host, made,
                              ghostVars, crashed>>

(* creat: the file exists, empty, from here on; its handle is not returned.*)
CreateHeld(t) ==
  LET s == SpaceOf[t]
      f == job[t].id
      d == Lowest(host)
  IN IF d = -1 THEN UNCHANGED <<host, made, openFiles, opened>>
     ELSE /\ host' = [host EXCEPT ![d] = f] /\ made' = made \union {f}
          /\ openFiles' = SetHandle(s, OpenHandle(s, d), d)
          /\ opened' = [opened EXCEPT ![s] = @ \union {f}]

(* The descriptor written.  A handle is looked up again now that Write     *)
(* holds semaphore 1: none, an error, when it was closed meanwhile.        *)
WriteTarget(t) ==
  IF job[t].id = ConsoleOut THEN 1 ELSE openFiles[SpaceOf[t]][job[t].id]

(* What is done inside a system semaphore.  Read's getline takes what is   *)
(* at descriptor 0, or what cin has buffered or its earlier failure.       *)
Inside(t) ==
  CASE job[t].op = "Create" -> CreateHeld(t) /\ UNCHANGED reached
    [] job[t].op = "Write" ->
         /\ reached' = Reaching(SpaceOf[t], WriteTarget(t))
         /\ UNCHANGED <<host, made, openFiles, opened>>
    [] job[t].op = "Read" ->
         /\ reached' \in {reached, Reaching(SpaceOf[t], 0)}
         /\ UNCHANGED <<host, made, openFiles, opened>>

(* The system semaphore of a call.                                         *)
SystemId(j) ==
  CASE j.op = "Create" -> 2
    [] j.op = "Read" -> 3
    [] j.op = "Write" -> IF j.id = ConsoleOut THEN 0 ELSE 1
    [] OTHER -> -1

(* As if each of them gave back the semaphore of Create.                   *)
HeldWrongV(t) ==
  /\ Going(t, "hold")
  /\ Inside(t)
  /\ Become(t, [job[t] EXCEPT !.at = "V", !.arg = GetSemaphore(2)])
  /\ UNCHANGED <<sockets, semTable, heap, meddled, crashed>>

(* As if none of them gave it back.                                        *)
HeldForGood(t) ==
  /\ Going(t, "hold")
  /\ Inside(t) /\ Return(t)
  /\ UNCHANGED <<sockets, semTable, heap, meddled, crashed>>

(* It is looked up again for the V.                                        *)
Held(t) ==
  /\ Going(t, "hold")
  /\ Inside(t)
  /\ Become(t, [job[t] EXCEPT !.at = "V", !.arg = GetSemaphore(SystemId(job[t]))])
  /\ UNCHANGED <<sockets, semTable, heap, meddled, crashed>>

(* The socket may have been removed, and deleted, since GetSocket.         *)
OnSocket(t) ==
  /\ Going(t, "socket")
  /\ IF sockets[job[t].id] # job[t].arg THEN Crash("freed memory")
     ELSE /\ Return(t)
          /\ IF job[t].op = "Accept" /\ Lowest(host) # -1 THEN AddSocket(FALSE)
             ELSE UNCHANGED <<sockets, host>>
          /\ UNCHANGED <<openFiles, semTable, heap, made, ghostVars, crashed>>

Step(t) ==
  \/ TestHandle(t) \/ Down(t) \/ Up(t) \/ Held(t) \/ OnSocket(t)

Call(t) ==
  \/ CallOpen(t) \/ CallCreate(t) \/ CallWrite(t) \/ CallRead(t) \/ CallClose(t)
  \/ CallSemCreate(t) \/ CallSemDestroy(t) \/ CallSemaphore(t)
  \/ CallSocket(t) \/ CallOnSocket(t) \/ CallExit(t)

CallsNext == \E t \in UserThreads : Step(t) \/ Call(t)

(* The ready list is served in order: a thread that can go on does.        *)
CallsSpec ==
  CallsInit /\ [][CallsNext]_callVars /\ \A t \in UserThreads : WF_callVars(Step(t))

-----------------------------------------------------------------------------
Places ==
  {"user", "isOpened", "P", "V", "asleep", "hold", "socket", "lost", "done"}

JobsAt(at) ==
  [at : {at}, op : Ops \union {NULL},
   id : Files \union Handles \union SocketIds \union SemIds \union {-1, NULL},
   arg : IF at = "socket" THEN [fd : Descriptors, open : BOOLEAN]
         ELSE SemIds \union {NULL}]

TablesType ==
  /\ openFiles \in [Spaces -> [Handles -> Descriptors \union {NULL}]]
  /\ sockets \in [SocketIds -> {NULL} \union [fd : Descriptors, open : BOOLEAN]]
  /\ host \in [Descriptors -> Files \union {"console", "socket", NULL}]
  /\ opened \in [Spaces -> SUBSET Files]

SemaphoresType ==
  /\ semTable \in [SemIds -> SemIds \union {NULL}]
  /\ heap \in [SemIds -> Nat \union {NULL}]

JobsType ==
  /\ job = [t \in UserThreads |-> job[t]]
  /\ \A t \in UserThreads : job[t].at \in Places /\ job[t] \in JobsAt(job[t].at)

CallsTypeOK ==
  /\ TablesType /\ SemaphoresType /\ JobsType
  /\ made \subseteq Files /\ meddled \subseteq SystemIds
  /\ reached \in [Spaces -> SUBSET (Descriptors \X Files)]
  /\ spent \in 0..MaxCost
  /\ crashed \in {"no", "null pointer", "freed memory", "assertion"}

(* The entries that hold descriptor d: a space's handle, or a socket's id. *)
Owners(d) ==
  {e \in Spaces \X Handles : openFiles[e[1]][e[2]] = d}
    \union {<<"socket", i>> : i \in {j \in SocketIds :
                                       sockets[j] # NULL /\ sockets[j].fd = d}}

(* The host numbers files and sockets of all spaces alike and gives a      *)
(* number again as soon as it is closed, while each space has a table of   *)
(* its own and the sockets another: beyond the descriptors 0 and 1, which  *)
(* all tables start with, no two entries of those tables hold the same     *)
(* descriptor, and each entry's is open.                                   *)
OneOwner ==
  \A d \in Descriptors \ {0, 1} :
    /\ Cardinality(Owners(d)) <= 1
    /\ Owners(d) # {} => host[d] # NULL

(* A Read or Write of a space reaches, by any descriptor but 0 and 1, only *)
(* files which the space itself opened or created by name, though a Write  *)
(* waits for semaphore 1 between its test of the handle and its use, and   *)
(* handles and descriptors are closed and given again meanwhile.  By 0 and *)
(* 1 it may reach any file, for syscall.h:106-109 gives every space the    *)
(* console there and NachOS_Close lets every space close that of all: the  *)
(* next Open of another gets the descriptor.                               *)
OnlyOwnFiles ==
  \A s \in Spaces : \A r \in reached[s] : r[1] \in {0, 1} \/ r[2] \in opened[s]

(* Who has entered semaphore n of the kernel and not left it.              *)
Entered(n) ==
  {t \in UserThreads : job[t].at \in {"hold", "V"} /\ SystemId(job[t]) = n}

(* At most one call is inside each of the kernel's semaphores, its value   *)
(* says whether one is, and it is there for the next, while other threads  *)
(* wait for it or are woken.  That is up to the programs as well: any of   *)
(* them can pass 0..3 to SemWait, SemSignal and SemDestroy, which do not   *)
(* look; of a semaphore to which one has, nothing is said.                 *)
SystemSemaphores ==
  \A n \in SystemIds \ meddled :
    /\ semTable[n] # NULL
    /\ heap[semTable[n]] = IF Entered(n) = {} THEN 1 ELSE 0
    /\ \A t, u \in Entered(n) : t = u

(* A call that takes one of the kernel's own semaphores ends, unless a     *)
(* program has passed the id of that one to SemWait, SemSignal or          *)
(* SemDestroy: whoever has it gives it back on every path.                 *)
CallsReturn ==
  \A t \in UserThreads :
    (SystemId(job[t]) # -1)
      ~> (job[t].at = "user" \/ crashed # "no" \/ SystemId(job[t]) \in meddled)

=============================================================================
