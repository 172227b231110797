---------------------------- MODULE UserModeProofs ----------------------------
(***************************************************************************)
(* Proofs about what user programs run on: UserCalls for any user threads, *)
(* spaces and files, and tables of any size, and MipsSim for any threads,  *)
(* programs, memories and size of a byte.                                  *)
(***************************************************************************)
EXTENDS UserCalls, MipsSim, FiniteSetTheorems, WellFoundedInduction, TLAPS

-----------------------------------------------------------------------------
(* The inductive invariant.                                                *)

(* An entry of a table of open files that holds another descriptor than 0  *)
(* and 1 is open on a file its space opened by name, and a socket's is     *)
(* open on a socket.                                                       *)
EntriesOpen ==
  /\ \A s \in Spaces, h \in Handles :
       openFiles[s][h] \notin {0, 1, NULL} => host[openFiles[s][h]] \in opened[s]
  /\ \A i \in SocketIds :
       sockets[i] # NULL /\ sockets[i].fd \notin {0, 1} =>
         host[sockets[i].fd] = "socket"

(* Beyond 0 and 1, no two entries of the tables, or of the table of        *)
(* sockets, hold the same descriptor.                                      *)
NoSharing ==
  /\ \A s, r \in Spaces : \A h, k \in Handles :
       /\ openFiles[s][h] \notin {0, 1, NULL}
       /\ openFiles[s][h] = openFiles[r][k]
       => s = r /\ h = k
  /\ \A i, j \in SocketIds :
       /\ sockets[i] # NULL /\ sockets[j] # NULL
       /\ sockets[i].fd \notin {0, 1} /\ sockets[i].fd = sockets[j].fd
       => i = j

(* Ids name different semaphores that are there, and those of the kernel   *)
(* that no program has touched are where SysSemaphoreTable put them.       *)
SemaphoresNamed ==
  /\ \A i \in SemIds : semTable[i] # NULL => heap[semTable[i]] # NULL
  /\ \A i, j \in SemIds : semTable[i] # NULL /\ semTable[i] = semTable[j] => i = j
  /\ \A n \in SystemIds \ meddled : semTable[n] = n

(* Only the calls that take such a semaphore have its address put aside.   *)
AtSemaphore == {"P", "asleep", "hold", "V"}
OwnCalls(j, n) == j.at \in AtSemaphore => (j.arg = n <=> SystemId(j) = n)
OwnCallsOnly ==
  \A t \in UserThreads : \A n \in SystemIds \ meddled : OwnCalls(job[t], n)

(* What a call has put aside for its later steps.                          *)
InCall(j) ==
  /\ j.at = "isOpened" =>
       /\ j.op \in {"Close", "Read", "Write"}
       /\ j.op = "Write" => j.id # ConsoleOut
  /\ j.at \in {"P", "asleep", "hold"} =>
       /\ j.op \in {"Create", "Write", "Read", "SemWait"}
       /\ j.op = "Create" => j.id \in Files
       /\ j.op = "Write" => j.id \in Handles
  /\ j.at \in {"asleep", "hold"} => j.arg \in SemIds
  /\ j.at = "hold" => j.op # "SemWait"
  /\ j.at = "socket" => j.id \in SocketIds

Underway == \A t \in UserThreads : InCall(job[t])

CallsInv ==
  /\ CallsTypeOK /\ EntriesOpen /\ NoSharing /\ Underway /\ OnlyOwnFiles
  /\ SemaphoresNamed /\ OwnCallsOnly /\ SystemSemaphores

-----------------------------------------------------------------------------
(* Lemmas about the operators of the model.                                *)

(* A set of numbers that is not empty has a least one, which is its Min.   *)
LEMMA LeastNumber ==
  ASSUME NEW T \in SUBSET Nat, T # {}
  PROVE  Min(T) \in T /\ \A x \in T : Min(T) <= x
<1> DEFINE R == {ss \in Nat \X Nat : ss[1] < ss[2]}
<1>1. IsWellFoundedOn(R, Nat)
  BY NatLessThanWellFounded DEF OpToRel
<1>2. \A y, x \in Nat : <<y, x>> \in R <=> y < x
  OBVIOUS
<1> HIDE DEF R
<1>3. \E x \in T : \A y \in T : ~ (<<y, x>> \in R)
  BY <1>1, WFMin
<1>4. \E x \in T : \A y \in T : x =< y
  <2>1. PICK x \in T : \A y \in T : ~ (<<y, x>> \in R)
    BY <1>3
  <2>2. \A y \in T : y \in Nat /\ x \in Nat /\ ~ (y < x)
    BY <1>2, <2>1
  <2> QED
    BY <2>2
<1> QED
  BY <1>4, Zenon DEF Min

(* What BitMap::Find and the host choose is free, or is -1.                *)
LEMMA LowestIsFree ==
  ASSUME NEW S \in SUBSET Nat, NEW R, NEW f \in [S -> R]
  PROVE  /\ Lowest(f) \in S \union {-1}
         /\ Lowest(f) # -1 => Lowest(f) \in S /\ f[Lowest(f)] = NULL
<1>1. FreeIn(f) \in SUBSET Nat /\ FreeIn(f) \subseteq S
  BY DEF FreeIn
<1>2. CASE FreeIn(f) = {}
  BY <1>2 DEF Lowest
<1>3. CASE FreeIn(f) # {}
  <2>1. Min(FreeIn(f)) \in FreeIn(f)
    BY <1>1, <1>3, LeastNumber
  <2>2. Lowest(f) \in FreeIn(f)
    BY <1>3, <2>1 DEF Lowest
  <2> QED
    BY <2>2, <1>1 DEF FreeIn
<1> QED
  BY <1>2, <1>3

(* The ids of the four tables are numbers; the console's two are handles   *)
(* and descriptors, and no socket's id is a handle.                        *)
LEMMA Ids ==
  /\ Handles \subseteq Nat /\ SocketIds \subseteq Nat /\ SemIds \subseteq Nat
  /\ Descriptors \subseteq Nat /\ Handles \intersect SocketIds = {}
  /\ {0, 1, 2} \subseteq Descriptors /\ {0, 1} \subseteq Handles
  /\ SystemIds \subseteq SemIds
  /\ NULL \notin Handles /\ NULL \notin SocketIds /\ NULL \notin SemIds
  /\ NULL \notin Descriptors /\ -1 \notin Nat
BY CallsAssumption DEF Handles, SocketIds, SemIds, Descriptors,
                       SystemIds

-----------------------------------------------------------------------------
(* The types of a job.                                                     *)

JobIds == Files \union Handles \union SocketIds \union SemIds \union {-1, NULL}
Sockets == [fd : Descriptors, open : BOOLEAN]

GoodJob(j) == j.at \in Places /\ j \in JobsAt(j.at)
GoodJobs(f) == f = [t \in UserThreads |-> f[t]] /\ \A t \in UserThreads : GoodJob(f[t])

(* A job made with a semaphore, or with nothing, put aside.                *)
LEMMA MadeJob ==
  ASSUME NEW at \in Places \ {"socket"}, NEW op \in Ops \union {NULL},
         NEW id \in JobIds, NEW arg \in SemIds \union {NULL}
  PROVE  GoodJob(Job(at, op, id, arg))
BY DEF Job, GoodJob, JobsAt, JobIds

(* A job made with a socket put aside.                                     *)
LEMMA MadeSocketJob ==
  ASSUME NEW op \in Ops \union {NULL}, NEW id \in JobIds, NEW arg \in Sockets
  PROVE  GoodJob(Job("socket", op, id, arg))
BY DEF Job, GoodJob, JobsAt, JobIds, Places, Sockets

(* A job that moves from one place to another, neither with a socket.      *)
LEMMA MovedJob ==
  ASSUME NEW j, GoodJob(j), j.at # "socket", NEW at \in Places \ {"socket"}
  PROVE  GoodJob([j EXCEPT !.at = at])
BY DEF GoodJob, JobsAt

(* The job of a thread back in its program.                                *)
LEMMA UserJob == GoodJob(User) /\ GoodJob([User EXCEPT !.at = "done"])
<1>1. GoodJob(User)
  BY MadeJob DEF User, Places, JobIds
<1>2. User.at = "user"
  BY DEF User, Job
<1> QED
  BY <1>1, <1>2, MovedJob DEF Places

(* One thread's job changed.                                               *)
LEMMA BecomeType ==
  ASSUME JobsType, NEW t \in UserThreads, NEW j, GoodJob(j), Become(t, j)
  PROVE  GoodJobs(job')
BY DEF JobsType, GoodJobs, GoodJob, Become

(* A V, and the calls that make one.                                       *)
LEMMA SignalType ==
  ASSUME JobsType, SemaphoresType, NEW t \in UserThreads, NEW j, GoodJob(j),
         NEW a \in SemIds, heap[a] # NULL, Signal(t, a, j),
         job[t].at # "asleep"
  PROVE  GoodJobs(job') /\ heap' \in [SemIds -> Nat \union {NULL}]
<1>1. heap' \in [SemIds -> Nat \union {NULL}]
  <2>1. heap[a] \in Nat
    BY DEF SemaphoresType
  <2>2. heap' = [heap EXCEPT ![a] = heap[a] + 1] /\ heap[a] + 1 \in Nat
    BY <2>1 DEF Signal
  <2> QED
    BY <2>2 DEF SemaphoresType
<1>2. CASE Asleep(a) = {}
  BY <1>1, <1>2, BecomeType DEF Signal
<1>3. CASE Asleep(a) # {}
  <2>1. PICK w \in Asleep(a) : job' = [job EXCEPT ![t] = j, ![w].at = "P"]
    BY <1>3 DEF Signal
  <2>2. w \in UserThreads /\ job[w].at = "asleep" /\ GoodJob(job[w])
    BY <2>1 DEF Asleep, JobsType, GoodJob
  <2>3. GoodJob([job[w] EXCEPT !.at = "P"])
    BY <2>2, MovedJob DEF Places
  <2>4. w # t
    BY <2>2
  <2> QED
    BY <2>1, <2>2, <2>3, <2>4, <1>1 DEF GoodJobs, GoodJob, JobsType
<1> QED
  BY <1>2, <1>3

(* A set of handles that is not empty has a greatest one.                  *)
LEMMA GreatestHandle ==
  ASSUME NEW T \in SUBSET Handles, T # {}
  PROVE  Max(T) \in T
<1> DEFINE R == {MaxOpenFiles - x : x \in T}
<1>1. T \subseteq 0..(MaxOpenFiles - 1) /\ MaxOpenFiles \in Nat
  BY CallsAssumption DEF Handles
<1>2. R \in SUBSET Nat /\ R # {}
  <2>1. \A x \in T : MaxOpenFiles - x \in Nat
    BY <1>1
  <2>2. PICK x \in T : TRUE
    OBVIOUS
  <2> QED
    BY <2>1, <2>2
<1>3. Min(R) \in R /\ \A y \in R : Min(R) <= y
  BY <1>2, LeastNumber
<1>4. PICK x \in T : Min(R) = MaxOpenFiles - x
  BY <1>3
<1>5. \A y \in T : x >= y
  <2>1. ASSUME NEW y \in T PROVE x >= y
    <3>1. MaxOpenFiles - x <= MaxOpenFiles - y
      BY <1>3, <1>4
    <3> QED
      BY <3>1, <1>1
  <2> QED
    BY <2>1
<1>6. \E z \in T : \A y \in T : z >= y
  BY <1>5
<1> QED
  BY <1>6 DEF Max

(* The handle for a descriptor: one that has it already, or a free one.    *)
LEMMA HandleFound ==
  ASSUME TablesType, NEW s \in Spaces, NEW d \in Descriptors
  PROVE  /\ OpenHandle(s, d) \in Handles \union {-1}
         /\ OpenHandle(s, d) # -1 => openFiles[s][OpenHandle(s, d)] \in {d, NULL}
<1> DEFINE Same == {h \in Handles : openFiles[s][h] = d}
<1>1. CASE Same = {}
  <2>1. OpenHandle(s, d) = Lowest(openFiles[s])
    BY <1>1 DEF OpenHandle
  <2>2. openFiles[s] \in [Handles -> Descriptors \union {NULL}] /\ Handles \in SUBSET Nat
    BY Ids DEF TablesType
  <2>3. /\ Lowest(openFiles[s]) \in Handles \union {-1}
        /\ Lowest(openFiles[s]) # -1 => openFiles[s][Lowest(openFiles[s])] = NULL
    BY <2>2, LowestIsFree
  <2> QED
    BY <2>1, <2>3
<1>2. CASE Same # {}
  <2>1. Max(Same) \in Same
    BY <1>2, GreatestHandle
  <2>2. OpenHandle(s, d) = Max(Same)
    BY <1>2 DEF OpenHandle
  <2> QED
    BY <2>1, <2>2
<1> QED
  BY <1>1, <1>2

(* The descriptor the host gives is closed: beyond 0 and 1 no table has it.*)
NotHeld(d) ==
  /\ \A s \in Spaces, h \in Handles : openFiles[s][h] # d
  /\ \A i \in SocketIds : sockets[i] # NULL => sockets[i].fd # d

LEMMA NewDescriptor ==
  ASSUME TablesType, EntriesOpen, NEW d, d = Lowest(host), d # -1
  PROVE  /\ d \in Descriptors /\ host[d] = NULL
         /\ d \in {0, 1} \/ NotHeld(d)
<1>1. d \in Descriptors /\ host[d] = NULL
  <2>1. host \in [Descriptors -> Files \union {"console", "socket", NULL}]
    BY DEF TablesType
  <2> QED
    BY <2>1, LowestIsFree, Ids
<1>2. \A s \in Spaces : opened[s] \subseteq Files
  BY DEF TablesType
<1>3. ASSUME NEW s \in Spaces, NEW h \in Handles, openFiles[s][h] = d, d \notin {0, 1}
      PROVE  FALSE
  BY <1>1, CallsAssumption, <1>2, <1>3, Ids DEF EntriesOpen
<1>4. d \notin {0, 1} => \A i \in SocketIds : sockets[i] # NULL => sockets[i].fd # d
  BY <1>1, CallsAssumption DEF EntriesOpen
<1> QED
  BY <1>1, <1>3, <1>4 DEF NotHeld

-----------------------------------------------------------------------------
(* The operations on the tables.                                           *)

(* What the tables and the host must be together.                          *)
TablesOK == TablesType /\ EntriesOpen /\ NoSharing

(* Open and Create: a new descriptor, then a handle if there is one.       *)
LEMMA OpenDescriptor ==
  ASSUME TablesType, EntriesOpen, NoSharing,
         NEW s \in Spaces, NEW f \in Files, NEW d, d = Lowest(host), d # -1,
         host' = [host EXCEPT ![d] = f],
         openFiles' = SetHandle(s, OpenHandle(s, d), d),
         opened' = [opened EXCEPT ![s] = @ \union {f}],
         UNCHANGED sockets
  PROVE  TablesOK'
<1> DEFINE h == OpenHandle(s, d)
<1>1. d \in Descriptors /\ host[d] = NULL /\ (d \in {0, 1} \/ NotHeld(d))
  BY NewDescriptor
<1>2. h \in Handles \union {-1} /\ (h # -1 => openFiles[s][h] \in {d, NULL})
  BY <1>1, HandleFound
<1>3. openFiles' = IF h = -1 THEN openFiles ELSE [openFiles EXCEPT ![s][h] = d]
  BY DEF SetHandle
<1> HIDE DEF h
<1>4. /\ openFiles' \in [Spaces -> [Handles -> Descriptors \union {NULL}]]
      /\ host' \in [Descriptors -> Files \union {"console", "socket", NULL}]
      /\ opened' \in [Spaces -> SUBSET Files]
      /\ sockets' \in [SocketIds -> {NULL} \union [fd : Descriptors, open : BOOLEAN]]
  <2>1. openFiles' \in [Spaces -> [Handles -> Descriptors \union {NULL}]]
    BY <1>1, <1>2, <1>3 DEF TablesType
  <2>2. host' \in [Descriptors -> Files \union {"console", "socket", NULL}]
    BY <1>1 DEF TablesType
  <2> QED
    BY <2>1, <2>2 DEF TablesType
<1>5. \A r \in Spaces, k \in Handles :
        openFiles'[r][k] = openFiles[r][k] \/ (openFiles'[r][k] = d /\ r = s /\ k = h)
  <2>1. CASE h = -1
    BY <1>3, <2>1
  <2>2. CASE h \in Handles
    BY <1>3, <2>2, Ids DEF TablesType
  <2> QED
    BY <1>2, <2>1, <2>2
<1>6. /\ host'[d] = f /\ f \in opened'[s]
      /\ \A e \in Descriptors : e # d => host'[e] = host[e]
      /\ \A r \in Spaces : opened[r] \subseteq opened'[r]
  BY <1>1 DEF TablesType
<1>7. \A r \in Spaces, k \in Handles :
        openFiles'[r][k] \notin {0, 1, NULL} =>
          \/ openFiles'[r][k] = openFiles[r][k] /\ openFiles[r][k] \in Descriptors \ {d}
          \/ openFiles'[r][k] = d /\ r = s /\ k = h /\ NotHeld(d)
  <2>1. ASSUME NEW r \in Spaces, NEW k \in Handles, openFiles'[r][k] \notin {0, 1, NULL}
        PROVE  \/ openFiles'[r][k] = openFiles[r][k] /\ openFiles[r][k] \in Descriptors \ {d}
               \/ openFiles'[r][k] = d /\ r = s /\ k = h /\ NotHeld(d)
    <3>1. CASE openFiles'[r][k] = openFiles[r][k]
      <4>1. openFiles[r][k] \in Descriptors \union {NULL}
        BY DEF TablesType
      <4>2. openFiles[r][k] # d
        BY <1>1, <2>1, <3>1 DEF NotHeld
      <4> QED
        BY <4>1, <4>2, <2>1, <3>1
    <3>2. CASE openFiles'[r][k] = d /\ r = s /\ k = h
      BY <1>1, <2>1, <3>2
    <3> QED
      BY <3>1, <3>2, <1>5
  <2> QED
    BY <2>1
<1>8. \A i \in SocketIds :
        sockets[i] # NULL /\ sockets[i].fd \notin {0, 1} =>
          sockets[i].fd \in Descriptors \ {d}
  BY <1>1 DEF TablesType, NotHeld
<1>9. EntriesOpen'
  <2>1. ASSUME NEW r \in Spaces, NEW k \in Handles, openFiles'[r][k] \notin {0, 1, NULL}
        PROVE  host'[openFiles'[r][k]] \in opened'[r]
    <3>1. CASE openFiles'[r][k] = openFiles[r][k] /\ openFiles[r][k] \in Descriptors \ {d}
      BY <3>1, <1>6, <2>1 DEF EntriesOpen
    <3>2. CASE openFiles'[r][k] = d /\ r = s
      BY <3>2, <1>6
    <3> QED
      BY <3>1, <3>2, <1>7, <2>1
  <2>2. ASSUME NEW i \in SocketIds, sockets'[i] # NULL, sockets'[i].fd \notin {0, 1}
        PROVE  host'[sockets'[i].fd] = "socket"
    BY <1>6, <1>8, <2>2 DEF EntriesOpen
  <2> QED
    BY <2>1, <2>2 DEF EntriesOpen
<1>10. NoSharing'
  <2>1. ASSUME NEW r \in Spaces, NEW q \in Spaces, NEW k \in Handles, NEW l \in Handles,
               openFiles'[r][k] \notin {0, 1, NULL},
               openFiles'[r][k] = openFiles'[q][l]
        PROVE  r = q /\ k = l
    BY <2>1, <1>7 DEF NoSharing
  <2> QED
    BY <2>1 DEF NoSharing
<1> QED
  BY <1>4, <1>9, <1>10 DEF TablesOK, TablesType

(* Close of a handle.                                                      *)
LEMMA CloseDescriptor ==
  ASSUME TablesType, EntriesOpen, NoSharing,
         NEW s \in Spaces, NEW h \in Handles, CloseFile(s, h),
         UNCHANGED <<sockets, opened>>
  PROVE  TablesOK'
<1> DEFINE d == openFiles[s][h]
<1>1. CASE UNCHANGED <<openFiles, host>>
  <2>1. EntriesOpen' /\ NoSharing'
    BY <1>1 DEF EntriesOpen, NoSharing
  <2> QED
    BY <1>1, <2>1 DEF TablesOK, TablesType
<1>2. CASE ~ UNCHANGED <<openFiles, host>>
  <2>1. d \in Descriptors
    BY <1>2 DEF CloseFile, Marked, TablesType
  <2>2. /\ host' = [host EXCEPT ![d] = NULL]
        /\ openFiles' = [openFiles EXCEPT ![s][h] = NULL]
    BY <1>2 DEF CloseFile
  <2>3. /\ openFiles' \in [Spaces -> [Handles -> Descriptors \union {NULL}]]
        /\ host' \in [Descriptors -> Files \union {"console", "socket", NULL}]
        /\ opened' \in [Spaces -> SUBSET Files]
        /\ sockets' \in [SocketIds -> {NULL} \union [fd : Descriptors, open : BOOLEAN]]
    BY <2>1, <2>2 DEF TablesType
  <2>4. \A r \in Spaces, k \in Handles :
          openFiles'[r][k] \notin {0, 1, NULL} =>
            openFiles'[r][k] = openFiles[r][k] /\ openFiles[r][k] \in Descriptors \ {d}
    <3>1. ASSUME NEW r \in Spaces, NEW k \in Handles, openFiles'[r][k] \notin {0, 1, NULL}
          PROVE  openFiles'[r][k] = openFiles[r][k] /\ openFiles[r][k] \in Descriptors \ {d}
      <4>1. ~ (r = s /\ k = h) /\ openFiles'[r][k] = openFiles[r][k]
        BY <2>2, <3>1 DEF TablesType
      <4>2. openFiles[r][k] \in Descriptors
        BY <4>1, <3>1 DEF TablesType
      <4> QED
        BY <4>1, <4>2, <3>1 DEF NoSharing
    <3> QED
      BY <3>1
  <2>5. \A e \in Descriptors : e # d => host'[e] = host[e]
    BY <2>1, <2>2 DEF TablesType
  <2>6. \A i \in SocketIds :
          sockets[i] # NULL /\ sockets[i].fd \notin {0, 1} =>
            sockets[i].fd \in Descriptors \ {d}
    <3>1. ASSUME NEW i \in SocketIds, sockets[i] # NULL, sockets[i].fd \notin {0, 1},
                 sockets[i].fd = d
          PROVE  FALSE
      <4>1. host[d] = "socket" /\ host[d] \in opened[s] /\ opened[s] \subseteq Files
        BY <2>1, <3>1, Ids DEF EntriesOpen, TablesType
      <4> QED
        BY <4>1, CallsAssumption
    <3> QED
      BY <3>1 DEF TablesType
  <2> HIDE DEF d
  <2>7. EntriesOpen'
    BY <2>4, <2>5, <2>6 DEF EntriesOpen
  <2>8. NoSharing'
    BY <2>4 DEF NoSharing
  <2> QED
    BY <2>3, <2>7, <2>8 DEF TablesOK, TablesType
<1> QED
  BY <1>1, <1>2

(* Exit of a space's last thread: its entries are dropped.                 *)
LEMMA DropTable ==
  ASSUME TablesType, EntriesOpen, NoSharing, NEW s \in Spaces,
         \/ openFiles' = openFiles
         \/ openFiles' = [openFiles EXCEPT ![s] = [h \in Handles |-> NULL]],
         UNCHANGED <<sockets, host, opened>>
  PROVE  TablesOK'
<1>1. openFiles' \in [Spaces -> [Handles -> Descriptors \union {NULL}]]
  BY DEF TablesType
<1>2. \A r \in Spaces, k \in Handles :
        openFiles'[r][k] # NULL => openFiles'[r][k] = openFiles[r][k]
  BY DEF TablesType
<1>3. EntriesOpen'
  BY <1>2 DEF EntriesOpen
<1>4. NoSharing'
  BY <1>2 DEF NoSharing
<1> QED
  BY <1>1, <1>3, <1>4 DEF TablesOK, TablesType

(* Socket and Accept: a new descriptor, then a free id if there is one.    *)
LEMMA AddSocketStep ==
  ASSUME TablesType, EntriesOpen, NoSharing,
         NEW open \in BOOLEAN, AddSocket(open),
         UNCHANGED <<openFiles, opened>>
  PROVE  TablesOK'
<1> DEFINE d == Lowest(host)
           id == Lowest(sockets)
<1>1. d \in Descriptors /\ host[d] = NULL /\ (d \in {0, 1} \/ NotHeld(d))
  BY NewDescriptor DEF AddSocket
<1>2. id \in SocketIds \union {-1} /\ (id # -1 => sockets[id] = NULL)
  <2>1. SocketIds \in SUBSET Nat
    BY Ids
  <2> QED
    BY <2>1, LowestIsFree DEF TablesType
<1>3. \/ host' = host /\ sockets' = sockets
      \/ host' = [host EXCEPT ![d] = "socket"] /\ sockets' = sockets
      \/ /\ host' = [host EXCEPT ![d] = "socket"] /\ id # -1
         /\ sockets' = [sockets EXCEPT ![id] = [fd |-> d, open |-> open]]
  BY DEF AddSocket
<1> HIDE DEF d, id
<1>4. /\ openFiles' \in [Spaces -> [Handles -> Descriptors \union {NULL}]]
      /\ host' \in [Descriptors -> Files \union {"console", "socket", NULL}]
      /\ opened' \in [Spaces -> SUBSET Files]
      /\ sockets' \in [SocketIds -> {NULL} \union [fd : Descriptors, open : BOOLEAN]]
  <2>1. host' \in [Descriptors -> Files \union {"console", "socket", NULL}]
    BY <1>1, <1>3 DEF TablesType
  <2>2. sockets' \in [SocketIds -> {NULL} \union [fd : Descriptors, open : BOOLEAN]]
    BY <1>1, <1>2, <1>3 DEF TablesType
  <2> QED
    BY <2>1, <2>2 DEF TablesType
<1>5. \A i \in SocketIds :
        sockets'[i] # NULL /\ sockets'[i].fd \notin {0, 1} =>
          \/ sockets'[i] = sockets[i] /\ sockets[i].fd \in Descriptors \ {d}
          \/ i = id /\ sockets'[i].fd = d /\ host'[d] = "socket" /\ NotHeld(d)
  <2>1. ASSUME NEW i \in SocketIds, sockets'[i] # NULL, sockets'[i].fd \notin {0, 1}
        PROVE  \/ sockets'[i] = sockets[i] /\ sockets[i].fd \in Descriptors \ {d}
               \/ i = id /\ sockets'[i].fd = d /\ host'[d] = "socket" /\ NotHeld(d)
    <3>1. CASE sockets'[i] = sockets[i]
      <4>1. sockets[i].fd \in Descriptors
        BY <2>1, <3>1 DEF TablesType
      <4> QED
        BY <4>1, <1>1, <2>1, <3>1 DEF NotHeld
    <3>2. CASE sockets'[i] # sockets[i]
      <4>1. i = id /\ sockets'[i].fd = d /\ host'[d] = "socket"
        BY <1>1, <1>2, <1>3, <3>2 DEF TablesType
      <4> QED
        BY <4>1, <1>1, <2>1
    <3> QED
      BY <3>1, <3>2
  <2> QED
    BY <2>1
<1>6. \A e \in Descriptors : e # d => host'[e] = host[e]
  BY <1>1, <1>3 DEF TablesType
<1>7. EntriesOpen'
  <2>1. ASSUME NEW r \in Spaces, NEW k \in Handles, openFiles'[r][k] \notin {0, 1, NULL}
        PROVE  host'[openFiles'[r][k]] \in opened'[r]
    <3>1. openFiles[r][k] \in Descriptors \ {d}
      BY <1>1, <2>1 DEF TablesType, NotHeld
    <3> QED
      BY <3>1, <1>6, <2>1 DEF EntriesOpen
  <2>2. ASSUME NEW i \in SocketIds, sockets'[i] # NULL, sockets'[i].fd \notin {0, 1}
        PROVE  host'[sockets'[i].fd] = "socket"
    BY <1>5, <1>6, <2>2 DEF EntriesOpen
  <2> QED
    BY <2>1, <2>2 DEF EntriesOpen
<1>8. NoSharing'
  <2>1. ASSUME NEW i \in SocketIds, NEW j \in SocketIds,
               sockets'[i] # NULL, sockets'[j] # NULL,
               sockets'[i].fd \notin {0, 1}, sockets'[i].fd = sockets'[j].fd
        PROVE  i = j
    BY <1>5, <2>1 DEF NoSharing
  <2>2. \A r, q \in Spaces : \A h, k \in Handles :
          /\ openFiles'[r][h] \notin {0, 1, NULL}
          /\ openFiles'[r][h] = openFiles'[q][k]
          => r = q /\ h = k
    BY DEF NoSharing
  <2> QED
    BY <2>1, <2>2 DEF NoSharing
<1> QED
  BY <1>4, <1>7, <1>8 DEF TablesOK, TablesType

(* Close of a socket.                                                      *)
LEMMA RemoveSocketStep ==
  ASSUME TablesType, EntriesOpen, NoSharing, NEW id \in SocketIds,
         sockets[id] # NULL, RemoveSocket(id), UNCHANGED <<openFiles, opened>>
  PROVE  TablesOK'
<1> DEFINE d == sockets[id].fd
<1>1. d \in Descriptors /\ (d \notin {0, 1} => host[d] = "socket")
  BY DEF TablesType, EntriesOpen
<1>2. /\ host' = host \/ host' = [host EXCEPT ![d] = NULL]
      /\ sockets' = [sockets EXCEPT ![id] = NULL]
  BY DEF RemoveSocket, Closed
<1>3. /\ host' \in [Descriptors -> Files \union {"console", "socket", NULL}]
      /\ sockets' \in [SocketIds -> {NULL} \union [fd : Descriptors, open : BOOLEAN]]
  BY <1>1, <1>2 DEF TablesType
<1>4. \A i \in SocketIds :
        sockets'[i] # NULL /\ sockets'[i].fd \notin {0, 1} =>
          sockets'[i] = sockets[i] /\ sockets[i].fd \in Descriptors \ {d}
  <2>1. ASSUME NEW i \in SocketIds, sockets'[i] # NULL, sockets'[i].fd \notin {0, 1}
        PROVE  sockets'[i] = sockets[i] /\ sockets[i].fd \in Descriptors \ {d}
    <3>1. i # id /\ sockets'[i] = sockets[i]
      BY <1>2, <2>1 DEF TablesType
    <3>2. sockets[i].fd \in Descriptors
      BY <2>1, <3>1 DEF TablesType
    <3> QED
      BY <2>1, <3>1, <3>2 DEF NoSharing
  <2> QED
    BY <2>1
<1>5. \A e \in Descriptors : e # d => host'[e] = host[e]
  BY <1>1, <1>2 DEF TablesType
<1>6. \A r \in Spaces, k \in Handles :
        openFiles[r][k] \notin {0, 1, NULL} => openFiles[r][k] \in Descriptors \ {d}
  <2>1. \A r \in Spaces : opened[r] \subseteq Files
    BY DEF TablesType
  <2>2. ASSUME NEW r \in Spaces, NEW k \in Handles, openFiles[r][k] \notin {0, 1, NULL}
        PROVE  openFiles[r][k] \in Descriptors /\ openFiles[r][k] # d
    <3>1. openFiles[r][k] \in Descriptors
      BY <2>2 DEF TablesType
    <3>2. host[openFiles[r][k]] \in Files
      BY <2>1, <2>2 DEF EntriesOpen
    <3> QED
      BY <1>1, <2>2, <3>1, <3>2, CallsAssumption
  <2> QED
    BY <2>2
<1> HIDE DEF d
<1>7. EntriesOpen'
  BY <1>4, <1>5, <1>6 DEF EntriesOpen
<1>8. NoSharing'
  <2>1. ASSUME NEW i \in SocketIds, NEW j \in SocketIds,
               sockets'[i] # NULL, sockets'[j] # NULL,
               sockets'[i].fd \notin {0, 1}, sockets'[i].fd = sockets'[j].fd
        PROVE  i = j
    BY <1>4, <2>1 DEF NoSharing
  <2>2. \A r, q \in Spaces : \A h, k \in Handles :
          /\ openFiles'[r][h] \notin {0, 1, NULL}
          /\ openFiles'[r][h] = openFiles'[q][k]
          => r = q /\ h = k
    BY DEF NoSharing
  <2> QED
    BY <2>1, <2>2 DEF NoSharing
<1> QED
  BY <1>3, <1>7, <1>8 DEF TablesOK, TablesType

(* Nothing of the tables changes in most steps.                            *)
LEMMA TablesUnchanged ==
  ASSUME TablesType, EntriesOpen, NoSharing,
         UNCHANGED <<openFiles, sockets, host, opened>>
  PROVE  TablesOK'
BY DEF TablesOK, TablesType, EntriesOpen, NoSharing

-----------------------------------------------------------------------------
(* Every step keeps the tables sound.                                      *)

LEMMA TablesStep ==
  ASSUME CallsInv, CallsNext
  PROVE  TablesOK'
<1> SUFFICES ASSUME NEW t \in UserThreads, Step(t) \/ Call(t)
             PROVE  TablesOK'
  BY DEF CallsNext
<1>0. /\ TablesType /\ EntriesOpen /\ NoSharing /\ SpaceOf[t] \in Spaces
      /\ Underway
  BY CallsAssumption DEF CallsInv, CallsTypeOK
<1> DEFINE Same == UNCHANGED <<openFiles, sockets, host, opened>>
<1>1. CASE CallOpen(t)
  <2>1. PICK f \in Files : OpenCall(t, f)
    BY <1>1 DEF CallOpen
  <2> DEFINE d == IF f \in made THEN Lowest(host) ELSE -1
  <2>2. CASE d = -1
    BY <2>1, <2>2, <1>0, TablesUnchanged DEF OpenCall
  <2>3. CASE d # -1
    <3>1. d = Lowest(host)
      BY <2>3
    <3>2. /\ host' = [host EXCEPT ![d] = f]
          /\ openFiles' = SetHandle(SpaceOf[t], OpenHandle(SpaceOf[t], d), d)
          /\ opened' = [opened EXCEPT ![SpaceOf[t]] = @ \union {f}]
          /\ UNCHANGED sockets
      BY <2>1, <2>3 DEF OpenCall
    <3> HIDE DEF d
    <3> QED
      BY <3>1, <3>2, <2>3, <1>0, OpenDescriptor
  <2> QED
    BY <2>2, <2>3
<1>2. CASE CallClose(t)
  <2>1. PICK id \in FileOrSocket :
          IF IsSocket(id)
          THEN RemoveSocket(id) /\ UNCHANGED <<openFiles, opened>>
          ELSE Same
    BY <1>2 DEF CallClose, ghostVars
  <2>2. CASE IsSocket(id)
    BY <2>1, <2>2, <1>0, RemoveSocketStep DEF IsSocket
  <2>3. CASE ~ IsSocket(id)
    BY <2>1, <2>3, <1>0, TablesUnchanged
  <2> QED
    BY <2>2, <2>3
<1>3. CASE CallSocket(t)
  BY <1>3, <1>0, AddSocketStep DEF CallSocket, ghostVars
<1>4. CASE CallExit(t)
  <2>1. /\ \/ openFiles' = openFiles
           \/ openFiles' = [openFiles EXCEPT ![SpaceOf[t]] = [h \in Handles |-> NULL]]
        /\ UNCHANGED <<sockets, host, opened>>
    BY <1>4 DEF CallExit, ghostVars
  <2> QED
    BY <2>1, <1>0, DropTable
<1>5. CASE CallCreate(t) \/ CallWrite(t) \/ CallRead(t) \/ CallSemaphore(t)
             \/ CallOnSocket(t)
  <2>1. Same
    BY <1>5 DEF CallCreate, CallWrite, CallRead, Transfer, CallSemaphore, Crash,
                CallOnSocket, kernelVars, ghostVars
  <2> QED
    BY <2>1, <1>0, TablesUnchanged
<1>6. CASE CallSemCreate(t) \/ CallSemDestroy(t)
  <2>1. Same
    BY <1>6 DEF CallSemCreate, CallSemDestroy, ghostVars
  <2> QED
    BY <2>1, <1>0, TablesUnchanged
<1>7. CASE TestHandle(t)
  <2>1. CASE Same
    BY <2>1, <1>0, TablesUnchanged
  <2>2. CASE ~ Same
    <3>1. /\ job[t].id \in Handles /\ job[t].op = "Close" /\ job[t].at = "isOpened"
          /\ CloseFile(SpaceOf[t], job[t].id) /\ UNCHANGED <<sockets, opened>>
      BY <1>7, <2>2, <1>0
      DEF TestHandle, Going, Crash, kernelVars, ghostVars, Underway, InCall
    <3> QED
      BY <3>1, <1>0, CloseDescriptor
  <2> QED
    BY <2>1, <2>2
<1>8. CASE Down(t) \/ Up(t)
  <2>1. Same
    BY <1>8 DEF Down, Up, Crash, kernelVars, ghostVars
  <2> QED
    BY <2>1, <1>0, TablesUnchanged
<1>9. CASE Held(t)
  <2>1. CASE Same
    BY <2>1, <1>0, TablesUnchanged
  <2>2. CASE ~ Same
    <3>1. /\ job[t].at = "hold" /\ job[t].op = "Create" /\ CreateHeld(t)
          /\ UNCHANGED sockets
      BY <1>9, <2>2, <1>0 DEF Held, Inside, Going, Underway, InCall
    <3>2. job[t].id \in Files
      BY <3>1, <1>0 DEF Underway, InCall
    <3>3. Lowest(host) # -1
      BY <3>1, <2>2 DEF CreateHeld
    <3>4. /\ host' = [host EXCEPT ![Lowest(host)] = job[t].id]
          /\ openFiles' = SetHandle(SpaceOf[t], OpenHandle(SpaceOf[t], Lowest(host)),
                                    Lowest(host))
          /\ opened' = [opened EXCEPT ![SpaceOf[t]] = @ \union {job[t].id}]
      BY <3>1, <3>3 DEF CreateHeld
    <3> QED
      BY <3>1, <3>2, <3>3, <3>4, <1>0, OpenDescriptor
  <2> QED
    BY <2>1, <2>2
<1>10. CASE OnSocket(t)
  <2>1. Same \/ (AddSocket(FALSE) /\ UNCHANGED <<openFiles, opened>>)
    BY <1>10 DEF OnSocket, Crash, kernelVars, ghostVars
  <2>2. CASE Same
    BY <2>2, <1>0, TablesUnchanged
  <2>3. CASE AddSocket(FALSE) /\ UNCHANGED <<openFiles, opened>>
    BY <2>3, <1>0, AddSocketStep
  <2> QED
    BY <2>1, <2>2, <2>3
<1> QED
  BY <1>1, <1>2, <1>3, <1>4, <1>5, <1>6, <1>7, <1>8, <1>9, <1>10
  DEF Step, Call

-----------------------------------------------------------------------------
(* Semaphores.                                                             *)

SemaphoresOK == SemaphoresType /\ SemaphoresNamed /\ meddled \subseteq SystemIds

(* What a look-up returns; each semaphore of the kernel's that no program  *)
(* has touched only by its own id.                                         *)
LEMMA LookUp ==
  ASSUME SemaphoresType, NEW id
  PROVE  /\ GetSemaphore(id) \in SemIds \union {NULL}
         /\ SemaphoresNamed =>
              \A n \in SystemIds \ meddled : GetSemaphore(id) = n <=> id = n
<1>1. GetSemaphore(id) \in SemIds \union {NULL}
  BY DEF GetSemaphore, SemaphoresType
<1>2. ASSUME SemaphoresNamed, NEW n \in SystemIds \ meddled
      PROVE  GetSemaphore(id) = n <=> id = n
  <2>1. n \in SemIds /\ n # NULL /\ semTable[n] = n
    BY <1>2, Ids DEF SemaphoresNamed
  <2>2. CASE id \in SemIds
    BY <2>1, <2>2, <1>2 DEF GetSemaphore, SemaphoresNamed
  <2>3. CASE id \notin SemIds
    BY <2>1, <2>3 DEF GetSemaphore
  <2> QED
    BY <2>2, <2>3
<1> QED
  BY <1>1, <1>2

(* SemCreate.                                                              *)
LEMMA AddSemaphoreStep ==
  ASSUME SemaphoresOK, NEW value \in {0, 1}, AddSemaphore(value), UNCHANGED meddled
  PROVE  SemaphoresOK'
<1> DEFINE id == Lowest(semTable)
<1>0. SemaphoresType /\ SemaphoresNamed
  BY DEF SemaphoresOK
<1>1. id \in SemIds \union {-1} /\ (id # -1 => semTable[id] = NULL)
  <2>1. SemIds \in SUBSET Nat
    BY Ids
  <2> QED
    BY <2>1, <1>0, LowestIsFree DEF SemaphoresType
<1>2. id \notin SystemIds \ meddled
  BY <1>0, <1>1, Ids DEF SemaphoresNamed
<1>3. CASE UNCHANGED <<semTable, heap>>
  BY <1>3 DEF SemaphoresOK, SemaphoresType, SemaphoresNamed
<1>4. CASE id # -1 /\ \E a \in FreeIn(heap) : /\ semTable' = [semTable EXCEPT ![id] = a]
                                              /\ heap' = [heap EXCEPT ![a] = value]
  <2>1. PICK a \in FreeIn(heap) : /\ semTable' = [semTable EXCEPT ![id] = a]
                                  /\ heap' = [heap EXCEPT ![a] = value]
    BY <1>4
  <2>2. a \in SemIds /\ heap[a] = NULL /\ a # NULL
    BY <1>0, Ids DEF FreeIn, SemaphoresType
  <2>3. \A i \in SemIds : semTable[i] # NULL => semTable[i] \in SemIds /\ semTable[i] # a
    BY <1>0, <2>2 DEF SemaphoresType, SemaphoresNamed
  <2> HIDE DEF id
  <2>4. id \in SemIds
    BY <1>1, <1>4
  <2>5. SemaphoresType'
    BY <1>0, <2>1, <2>2, <2>4 DEF SemaphoresType
  <2>6. \A i \in SemIds : semTable'[i] = IF i = id THEN a ELSE semTable[i]
    BY <1>0, <2>1, <2>4 DEF SemaphoresType
  <2>7. \A i \in SemIds : heap'[i] = IF i = a THEN value ELSE heap[i]
    BY <1>0, <2>1, <2>2 DEF SemaphoresType
  <2>8. \A n \in SystemIds \ meddled : semTable'[n] = n
    BY <1>0, <2>6, <1>2, Ids DEF SemaphoresNamed
  <2>9. \A i \in SemIds : semTable'[i] # NULL => heap'[semTable'[i]] # NULL
    <3>1. value # NULL
      BY CallsAssumption
    <3> QED
      BY <1>0, <2>2, <2>3, <2>6, <2>7, <3>1 DEF SemaphoresNamed
  <2>10. \A i, j \in SemIds : semTable'[i] # NULL /\ semTable'[i] = semTable'[j] => i = j
    BY <1>0, <2>2, <2>3, <2>6 DEF SemaphoresNamed
  <2> QED
    BY <2>5, <2>8, <2>9, <2>10 DEF SemaphoresOK, SemaphoresNamed
<1> QED
  BY <1>3, <1>4 DEF AddSemaphore

(* SemDestroy.                                                             *)
LEMMA RemoveSemaphoreStep ==
  ASSUME SemaphoresOK, NEW id \in SemIds, GetSemaphore(id) # NULL,
         RemoveSemaphore(id), Meddle(id)
  PROVE  SemaphoresOK'
<1> DEFINE a == semTable[id]
<1>0. SemaphoresType /\ SemaphoresNamed
  BY DEF SemaphoresOK
<1>1. a \in SemIds /\ a # NULL
  BY <1>0 DEF GetSemaphore, SemaphoresType
<1>2. meddled' \subseteq SystemIds /\ SystemIds \ meddled' \subseteq (SystemIds \ meddled) \ {id}
  BY DEF SemaphoresOK, Meddle
<1>3. /\ heap' = [heap EXCEPT ![a] = NULL]
      /\ semTable' = [semTable EXCEPT ![id] = NULL]
  BY DEF RemoveSemaphore
<1>4. \A i \in SemIds \ {id} : semTable[i] # NULL => semTable[i] # a
  BY <1>0, <1>1 DEF SemaphoresNamed
<1> HIDE DEF a
<1>5. SemaphoresType'
  BY <1>0, <1>1, <1>3 DEF SemaphoresType
<1>6. \A i \in SemIds : semTable'[i] = IF i = id THEN NULL ELSE semTable[i]
  BY <1>0, <1>1, <1>3 DEF SemaphoresType
<1>7. \A i \in SemIds : heap'[i] = IF i = a THEN NULL ELSE heap[i]
  BY <1>0, <1>1, <1>3 DEF SemaphoresType
<1>8. \A n \in SystemIds \ meddled' : semTable'[n] = n
  BY <1>0, <1>2, <1>6, Ids DEF SemaphoresNamed
<1>9. \A i \in SemIds : semTable'[i] # NULL => heap'[semTable'[i]] # NULL
  <2>1. ASSUME NEW i \in SemIds, semTable'[i] # NULL
        PROVE  heap'[semTable'[i]] # NULL
    <3>1. i # id /\ semTable'[i] = semTable[i] /\ semTable[i] # NULL
      BY <1>6, <2>1
    <3>2. semTable[i] \in SemIds /\ semTable[i] # a /\ heap[semTable[i]] # NULL
      BY <1>0, <1>4, <3>1 DEF SemaphoresType, SemaphoresNamed
    <3> QED
      BY <1>7, <3>1, <3>2
  <2> QED
    BY <2>1
<1>10. \A i, j \in SemIds : semTable'[i] # NULL /\ semTable'[i] = semTable'[j] => i = j
  BY <1>0, <1>6 DEF SemaphoresNamed
<1> QED
  BY <1>2, <1>5, <1>8, <1>9, <1>10 DEF SemaphoresOK, SemaphoresNamed

(* A P or a V on a semaphore that is there.                                *)
LEMMA HeapStep ==
  ASSUME SemaphoresOK, NEW a \in SemIds, NEW n \in Nat, heap' = [heap EXCEPT ![a] = n],
         UNCHANGED <<semTable, meddled>>
  PROVE  SemaphoresOK'
<1>0. SemaphoresType /\ SemaphoresNamed
  BY DEF SemaphoresOK
<1>1. \A i \in SemIds : heap'[i] = IF i = a THEN n ELSE heap[i]
  BY <1>0 DEF SemaphoresType
<1>2. n # NULL
  BY CallsAssumption
<1>3. SemaphoresType'
  BY <1>0 DEF SemaphoresType
<1>4. \A i \in SemIds : semTable[i] # NULL => heap'[semTable[i]] # NULL
  BY <1>0, <1>1, <1>2 DEF SemaphoresType, SemaphoresNamed
<1> QED
  BY <1>0, <1>3, <1>4 DEF SemaphoresOK, SemaphoresNamed

(* Other calls, that may use the id of a semaphore of the kernel's.        *)
LEMMA SemaphoresUnchanged ==
  ASSUME SemaphoresOK, UNCHANGED <<semTable, heap>>,
         UNCHANGED meddled \/ \E id : Meddle(id)
  PROVE  SemaphoresOK'
<1>1. meddled \subseteq meddled' /\ meddled' \subseteq SystemIds
  BY DEF SemaphoresOK, Meddle
<1> QED
  BY <1>1 DEF SemaphoresOK, SemaphoresType, SemaphoresNamed

LEMMA SemaphoresStep ==
  ASSUME CallsInv, CallsNext
  PROVE  SemaphoresOK'
<1> SUFFICES ASSUME NEW t \in UserThreads, Step(t) \/ Call(t)
             PROVE  SemaphoresOK'
  BY DEF CallsNext
<1>0. SemaphoresOK /\ SemaphoresType /\ InCall(job[t]) /\ GoodJob(job[t])
  BY DEF CallsInv, CallsTypeOK, Underway, SemaphoresOK, JobsType, GoodJob
<1> DEFINE Same == UNCHANGED <<semTable, heap, meddled>>
<1>a. CASE Same
  BY <1>a, <1>0, SemaphoresUnchanged
<1>1. CASE CallOpen(t) \/ CallCreate(t) \/ CallWrite(t) \/ CallRead(t) \/ CallSocket(t)
             \/ CallOnSocket(t) \/ CallClose(t) \/ CallExit(t)
  <2>1. Same
    BY <1>1 DEF CallOpen, OpenCall, CallCreate, CallWrite, CallRead, Transfer, CallSocket,
                CallOnSocket, CallClose, CallExit, kernelVars, ghostVars
  <2> QED
    BY <2>1, <1>a
<1>2. CASE CallSemCreate(t)
  BY <1>2, <1>0, AddSemaphoreStep DEF CallSemCreate, ghostVars
<1>3. CASE CallSemDestroy(t)
  <2>1. PICK id \in AnySemaphore :
          /\ Meddle(id)
          /\ IF GetSemaphore(id) = NULL THEN UNCHANGED <<heap, semTable, job>>
             ELSE RemoveSemaphore(id)
    BY <1>3 DEF CallSemDestroy
  <2>2. CASE GetSemaphore(id) = NULL
    BY <2>1, <2>2, <1>0, SemaphoresUnchanged
  <2>3. CASE GetSemaphore(id) # NULL
    <3>1. id \in SemIds
      BY <2>3 DEF GetSemaphore
    <3> QED
      BY <2>1, <2>3, <3>1, <1>0, RemoveSemaphoreStep
  <2> QED
    BY <2>2, <2>3
<1>4. CASE CallSemaphore(t)
  <2>1. /\ UNCHANGED <<semTable, heap>>
        /\ UNCHANGED meddled \/ \E id : Meddle(id)
    BY <1>4 DEF CallSemaphore, Crash, kernelVars, ghostVars
  <2> QED
    BY <2>1, <1>0, SemaphoresUnchanged
<1>5. CASE TestHandle(t) \/ Held(t) \/ OnSocket(t)
  <2>1. Same
    BY <1>5, <1>0
    DEF TestHandle, Held, OnSocket, Going, InCall, Crash, kernelVars, ghostVars
  <2> QED
    BY <2>1, <1>a
<1>6. CASE Down(t) \/ Up(t)
  <2> DEFINE a == job[t].arg
  <2>1. \/ Same
        \/ /\ job[t].at \in {"P", "V"} /\ a # NULL /\ heap[a] # NULL
           /\ UNCHANGED <<semTable, meddled>>
           /\ \/ heap' = [heap EXCEPT ![a] = heap[a] + 1]
              \/ heap[a] # 0 /\ heap' = [heap EXCEPT ![a] = heap[a] - 1]
    BY <1>6 DEF Down, Up, Signal, Going, Crash, kernelVars, ghostVars
  <2>2. CASE /\ job[t].at \in {"P", "V"} /\ a # NULL /\ heap[a] # NULL
             /\ UNCHANGED <<semTable, meddled>>
             /\ \/ heap' = [heap EXCEPT ![a] = heap[a] + 1]
                \/ heap[a] # 0 /\ heap' = [heap EXCEPT ![a] = heap[a] - 1]
    <3>1. a \in SemIds
      BY <2>2, <1>0 DEF GoodJob, JobsAt
    <3>2. heap[a] \in Nat
      BY <2>2, <3>1, <1>0 DEF SemaphoresType
    <3>3. heap[a] + 1 \in Nat /\ (heap[a] # 0 => heap[a] - 1 \in Nat)
      BY <3>2
    <3> HIDE DEF a
    <3> QED
      BY <2>2, <3>1, <3>3, <1>0, HeapStep
  <2> QED
    BY <2>1, <2>2, <1>a
<1> QED
  BY <1>1, <1>2, <1>3, <1>4, <1>5, <1>6
  DEF Step, Call

-----------------------------------------------------------------------------
(* Jobs.                                                                   *)

JobsOK == JobsType /\ Underway

(* One thread's job changed, or none.                                      *)
LEMMA BecomeStep ==
  ASSUME JobsType, Underway, NEW t \in UserThreads,
         NEW j, GoodJob(j), InCall(j), Become(t, j)
  PROVE  JobsOK'
<1>1. job' = [job EXCEPT ![t] = j]
  BY DEF Become
<1>2. \A u \in UserThreads : job'[u] = IF u = t THEN j ELSE job[u]
  BY <1>1 DEF JobsType
<1>3. Underway'
  BY <1>2 DEF Underway
<1>4. JobsType'
  BY BecomeType DEF GoodJobs, GoodJob, JobsType
<1> QED
  BY <1>3, <1>4 DEF JobsOK

LEMMA ReturnStep ==
  ASSUME JobsType, Underway, NEW t \in UserThreads, Return(t)
  PROVE  JobsOK'
<1>1. InCall(User)
  BY DEF InCall, User, Job
<1> QED
  BY <1>1, UserJob, BecomeStep DEF Return

LEMMA JobsUnchanged ==
  ASSUME JobsType, Underway, UNCHANGED job
  PROVE  JobsOK'
BY DEF JobsOK, JobsType, Underway

(* A V wakes one of those asleep, who tries its P again.                   *)
LEMMA SignalStep ==
  ASSUME JobsType, SemaphoresType, Underway, NEW t \in UserThreads,
         NEW a \in SemIds, heap[a] # NULL, Signal(t, a, User),
         job[t].at # "asleep"
  PROVE  JobsOK'
<1>1. JobsType'
  BY SignalType, UserJob DEF GoodJobs, GoodJob, JobsType
<1>2. CASE Asleep(a) = {}
  BY <1>2, ReturnStep DEF Signal, Return
<1>3. CASE Asleep(a) # {}
  <2>1. PICK w \in Asleep(a) : job' = [job EXCEPT ![t] = User, ![w].at = "P"]
    BY <1>3 DEF Signal
  <2>2. w \in UserThreads /\ job[w].at = "asleep" /\ w # t
    BY DEF Asleep
  <2>3. \A u \in UserThreads : u # t /\ u # w => job'[u] = job[u]
    BY <2>1 DEF JobsType
  <2>4. job'[t] = User /\ job'[w] = [job[w] EXCEPT !.at = "P"]
    BY <2>1, <2>2 DEF JobsType
  <2>5. InCall(User)
    BY DEF InCall, User, Job
  <2>6. InCall([job[w] EXCEPT !.at = "P"])
    <3>1. job[w] \in JobsAt("asleep") /\ InCall(job[w])
      BY <2>2 DEF JobsType, Underway
    <3> QED
      BY <3>1, <2>2 DEF InCall, JobsAt
  <2>7. \A u \in UserThreads : InCall(job'[u])
    BY <2>3, <2>4, <2>5, <2>6 DEF Underway
  <2> QED
    BY <1>1, <2>7 DEF JobsOK, Underway
<1> QED
  BY <1>2, <1>3

(* SemDestroy: who sleeps there sleeps for ever.                           *)
LEMMA LostStep ==
  ASSUME JobsType, Underway, NEW id, RemoveSemaphore(id)
  PROVE  JobsOK'
<1>1. job' = [u \in UserThreads |->
                 IF job[u].at = "asleep" /\ job[u].arg = semTable[id]
                 THEN [job[u] EXCEPT !.at = "lost"] ELSE job[u]]
  BY DEF RemoveSemaphore
<1>2. ASSUME NEW u \in UserThreads
      PROVE  GoodJob(job'[u]) /\ InCall(job'[u])
  <2>1. GoodJob(job[u]) /\ InCall(job[u])
    BY DEF JobsType, Underway, GoodJob
  <2>2. CASE job'[u] = job[u]
    BY <2>1, <2>2
  <2>3. CASE job[u].at = "asleep" /\ job'[u] = [job[u] EXCEPT !.at = "lost"]
    <3>1. GoodJob([job[u] EXCEPT !.at = "lost"])
      BY <2>1, <2>3, MovedJob DEF Places
    <3>2. job[u] \in JobsAt("asleep")
      BY <2>1, <2>3 DEF GoodJob
    <3>3. InCall([job[u] EXCEPT !.at = "lost"])
      BY <2>1, <2>3, <3>2 DEF InCall, JobsAt
    <3> QED
      BY <2>3, <3>1, <3>3
  <2> QED
    BY <1>1, <2>2, <2>3
<1>3. job' = [u \in UserThreads |-> job'[u]]
  BY <1>1
<1> QED
  BY <1>2, <1>3 DEF JobsOK, JobsType, Underway, GoodJob

(* The ids a program may pass are ids of a job.                            *)
LEMMA PassedIds == FileOrSocket \subseteq JobIds /\ AnySemaphore \subseteq JobIds
BY DEF FileOrSocket, AnySemaphore, JobIds

(* A call that takes a semaphore of the kernel's.                          *)
LEMMA EnterStep ==
  ASSUME JobsType, Underway, SemaphoresType,
         NEW t \in UserThreads, NEW op \in Ops \union {NULL}, NEW id \in JobIds,
         NEW n \in SystemIds, op \in {"Create", "Write", "Read"}, Enter(t, op, id, n),
         op = "Create" => id \in Files, op = "Write" => id \in Handles
  PROVE  JobsOK'
<1> DEFINE a == GetSemaphore(n)
<1>1. a \in SemIds \union {NULL}
  BY LookUp
<1> HIDE DEF a
<1>2. GoodJob(Job("P", op, id, a))
  BY <1>1, MadeJob DEF Places
<1>3. InCall(Job("P", op, id, a))
  BY DEF InCall, Job
<1> QED
  BY <1>2, <1>3, BecomeStep DEF Enter, a

LEMMA TransferStep ==
  ASSUME CallsInv, NEW t \in UserThreads, NEW op \in {"Write", "Read"},
         NEW console, NEW n \in SystemIds, NEW other, Transfer(t, op, console, n, other),
         op = "Write" => console = 1, {console, other} = {0, 1}
  PROVE  JobsOK'
<1>0. /\ JobsType /\ Underway /\ SemaphoresType /\ TablesType
      /\ SpaceOf[t] \in Spaces
  BY CallsAssumption DEF CallsInv, CallsTypeOK
<1>1. PICK id \in FileOrSocket :
        /\ op \in Ops
        /\ CASE id = console -> Enter(t, op, id, n)
             [] id = other -> Return(t)
             [] IsSocket(id) -> Become(t, Job("socket", op, id, sockets[id]))
             [] OTHER -> Become(t, Job("isOpened", op, id, NULL))
  BY DEF Transfer, Calling
<1>2. id \in JobIds
  BY PassedIds
<1>x. /\ id = console => id # other /\ ~ IsSocket(id)
      /\ id = other => ~ IsSocket(id)
  <2>1. console # other /\ console \in {0, 1} /\ other \in {0, 1}
    OBVIOUS
  <2>2. \A i \in {0, 1} : ~ IsSocket(i)
    BY Ids DEF IsSocket
  <2> QED
    BY <2>1, <2>2
<1>3. CASE id = console
  <2>1. Enter(t, op, id, n) /\ op # "Create"
    BY <1>1, <1>x, <1>3
  <2>2. op = "Write" => id \in Handles
    BY <1>3, Ids
  <2> QED
    BY <2>1, <2>2, <1>0, <1>1, <1>2, EnterStep
<1>4. CASE id # console /\ id = other
  <2>1. Return(t)
    BY <1>1, <1>x, <1>4
  <2> QED
    BY <2>1, <1>0, ReturnStep
<1>5. CASE id # console /\ id # other /\ IsSocket(id)
  <2>1. Become(t, Job("socket", op, id, sockets[id])) /\ id \in SocketIds
    BY <1>1, <1>5 DEF IsSocket
  <2>2. sockets[id] \in Sockets
    BY <1>5, <1>0, <2>1 DEF IsSocket, TablesType, Sockets
  <2>3. GoodJob(Job("socket", op, id, sockets[id]))
    BY <1>1, <1>2, <2>2, MadeSocketJob
  <2>4. InCall(Job("socket", op, id, sockets[id]))
    BY <2>1 DEF InCall, Job
  <2> QED
    BY <2>1, <2>3, <2>4, <1>0, BecomeStep
<1>6. CASE id # console /\ id # other /\ ~ IsSocket(id)
  <2>1. /\ Become(t, Job("isOpened", op, id, NULL))
        /\ op = "Write" => id # ConsoleOut
    BY <1>1, <1>6 DEF ConsoleOut
  <2>2. GoodJob(Job("isOpened", op, id, NULL))
    BY <1>1, <1>2, MadeJob DEF Places
  <2>3. InCall(Job("isOpened", op, id, NULL))
    BY <2>1 DEF InCall, Job
  <2> QED
    BY <2>1, <2>2, <2>3, <1>0, BecomeStep
<1> QED
  BY <1>3, <1>4, <1>5, <1>6

LEMMA JobsStep ==
  ASSUME CallsInv, CallsNext
  PROVE  JobsOK'
<1> SUFFICES ASSUME NEW t \in UserThreads, Step(t) \/ Call(t)
             PROVE  JobsOK'
  BY DEF CallsNext
<1>0. /\ TablesType /\ SemaphoresType /\ SpaceOf[t] \in Spaces
      /\ JobsType /\ Underway /\ InCall(job[t]) /\ GoodJob(job[t])
  BY CallsAssumption DEF CallsInv, CallsTypeOK, Underway, JobsType, GoodJob
<1>a. CASE UNCHANGED job
  BY <1>a, <1>0, JobsUnchanged
<1>b. CASE Return(t)
  BY <1>b, <1>0, ReturnStep
<1>1. CASE CallOpen(t) \/ CallSemCreate(t) \/ CallSocket(t)
  <2>1. UNCHANGED job
    BY <1>1 DEF CallOpen, OpenCall, CallSemCreate, CallSocket
  <2> QED
    BY <2>1, <1>a
<1>2. CASE CallCreate(t)
  <2>1. PICK f \in Files : "Create" \in Ops /\ Enter(t, "Create", f, 2)
    BY <1>2 DEF CallCreate, Calling
  <2> QED
    BY <2>1, <1>0, EnterStep DEF JobIds, SystemIds
<1>3. CASE CallWrite(t)
  BY <1>3, TransferStep DEF CallWrite, ConsoleIn, ConsoleOut, SystemIds
<1>4. CASE CallRead(t)
  BY <1>4, TransferStep DEF CallRead, ConsoleIn, ConsoleOut, SystemIds
<1>5. CASE CallClose(t)
  <2>1. PICK id \in FileOrSocket :
          /\ "Close" \in Ops
          /\ \/ UNCHANGED job
             \/ Become(t, Job("isOpened", "Close", id, NULL))
    BY <1>5 DEF CallClose, Calling
  <2>2. id \in JobIds
    BY PassedIds
  <2>3. GoodJob(Job("isOpened", "Close", id, NULL))
    BY <2>1, <2>2, MadeJob DEF Places
  <2>4. InCall(Job("isOpened", "Close", id, NULL))
    BY DEF InCall, Job
  <2> QED
    BY <2>1, <2>3, <2>4, <1>0, <1>a, BecomeStep
<1>6. CASE CallSemDestroy(t)
  <2>1. PICK id \in AnySemaphore : UNCHANGED job \/ RemoveSemaphore(id)
    BY <1>6 DEF CallSemDestroy
  <2> QED
    BY <2>1, <1>0, <1>a, LostStep
<1>7. CASE CallSemaphore(t)
  <2>1. PICK op \in {"SemWait", "SemSignal"}, id \in AnySemaphore :
          /\ op \in Ops
          /\ \/ UNCHANGED job
             \/ /\ GetSemaphore(id) # NULL
                /\ Become(t, Job(IF op = "SemWait" THEN "P" ELSE "V",
                                 op, id, GetSemaphore(id)))
    BY <1>7 DEF CallSemaphore, Calling, Crash
  <2> DEFINE at == IF op = "SemWait" THEN "P" ELSE "V"
  <2>2. CASE GetSemaphore(id) # NULL /\ Become(t, Job(at, op, id, GetSemaphore(id)))
    <3>1. GetSemaphore(id) \in SemIds
      BY <2>2, <1>0 DEF GetSemaphore, SemaphoresType
    <3>2. GoodJob(Job(at, op, id, GetSemaphore(id)))
      BY <2>1, <3>1, <1>0, PassedIds, MadeJob DEF Places
    <3>3. InCall(Job(at, op, id, GetSemaphore(id)))
      BY <2>1, <3>1 DEF InCall, Job
    <3> HIDE DEF at
    <3> QED
      BY <2>2, <3>2, <3>3, <1>0, BecomeStep
  <2> QED
    BY <2>1, <2>2, <1>a
<1>8. CASE CallOnSocket(t)
  <2>1. PICK op \in {"Use", "Accept"}, id \in SocketIds :
          op \in Ops /\ IsSocket(id) /\ Become(t, Job("socket", op, id, sockets[id]))
    BY <1>8 DEF CallOnSocket, Calling
  <2>2. id \in SocketIds /\ sockets[id] \in Sockets
    BY <2>1, <1>0 DEF IsSocket, TablesType, Sockets
  <2>3. GoodJob(Job("socket", op, id, sockets[id]))
    BY <2>1, <2>2, <1>0, MadeSocketJob DEF JobIds
  <2>4. InCall(Job("socket", op, id, sockets[id]))
    BY <2>2 DEF InCall, Job
  <2> QED
    BY <2>1, <2>3, <2>4, <1>0, BecomeStep
<1>9. CASE CallExit(t)
  <2>1. Become(t, [User EXCEPT !.at = "done"])
    BY <1>9 DEF CallExit
  <2>2. InCall([User EXCEPT !.at = "done"])
    BY DEF InCall, User, Job
  <2> QED
    BY <2>1, <2>2, <1>0, UserJob, BecomeStep
<1>10. CASE TestHandle(t)
  <2>1. /\ job[t].at = "isOpened"
        /\ \/ UNCHANGED job
           \/ Return(t)
           \/ /\ job[t].id \in Handles /\ job[t].op = "Write"
              /\ Enter(t, "Write", job[t].id, 1)
    BY <1>10, <1>0 DEF TestHandle, Going, Crash, InCall
  <2>2. job[t].op \in Ops \union {NULL}
    BY <1>0, <2>1 DEF GoodJob, JobsAt
  <2> QED
    BY <2>1, <2>2, <1>0, <1>a, <1>b, EnterStep DEF JobIds, SystemIds
<1>11. CASE Down(t)
  <2> DEFINE sleep == [job[t] EXCEPT !.at = "asleep"]
             hold == [job[t] EXCEPT !.at = "hold"]
  <2>1. /\ job[t].at = "P"
        /\ \/ UNCHANGED job
           \/ Return(t)
           \/ job[t].arg # NULL /\ Become(t, sleep)
           \/ job[t].arg # NULL /\ job[t].op # "SemWait" /\ Become(t, hold)
    BY <1>11 DEF Down, Going, Crash
  <2>2. GoodJob(sleep) /\ GoodJob(hold)
    BY <2>1, <1>0, MovedJob DEF Places
  <2>3. job[t] \in JobsAt("P")
    BY <2>1, <1>0 DEF GoodJob
  <2>4. job[t].arg # NULL =>
          InCall(sleep) /\ (job[t].op # "SemWait" => InCall(hold))
    BY <2>1, <2>3, <1>0 DEF InCall, JobsAt
  <2> HIDE DEF sleep, hold
  <2> QED
    BY <2>1, <2>2, <2>4, <1>0, <1>a, <1>b, BecomeStep
<1>12. CASE Up(t)
  <2>1. \/ UNCHANGED job
        \/ /\ job[t].at = "V" /\ job[t].arg # NULL /\ heap[job[t].arg] # NULL
           /\ Signal(t, job[t].arg, User)
    BY <1>12 DEF Up, Going, Crash
  <2>2. job[t].at = "V" => job[t].arg \in SemIds \union {NULL}
    BY <1>0 DEF GoodJob, JobsAt
  <2> QED
    BY <2>1, <2>2, <1>0, <1>a, SignalStep
<1>13. CASE Held(t)
  <2> DEFINE a == GetSemaphore(SystemId(job[t]))
             v == [job[t] EXCEPT !.at = "V", !.arg = a]
  <2>1. job[t].at = "hold" /\ Become(t, v)
    BY <1>13 DEF Held, Going
  <2>2. a \in SemIds \union {NULL}
    BY <1>0, LookUp
  <2> HIDE DEF a
  <2>3. job[t] \in JobsAt("hold") /\ "V" \in Places
    BY <2>1, <1>0 DEF GoodJob, Places
  <2>4. v.at = "V" /\ GoodJob(v)
    BY <2>2, <2>3 DEF GoodJob, JobsAt
  <2>5. InCall(v)
    BY <2>4 DEF InCall
  <2> HIDE DEF v
  <2> QED
    BY <2>1, <2>4, <2>5, <1>0, BecomeStep
<1>14. CASE OnSocket(t)
  <2>1. UNCHANGED job \/ Return(t)
    BY <1>14 DEF OnSocket, Crash
  <2> QED
    BY <2>1, <1>a, <1>b
<1> QED
  BY <1>1, <1>2, <1>3, <1>4, <1>5, <1>6, <1>7, <1>8, <1>9, <1>10, <1>11, <1>12,
     <1>13, <1>14
  DEF Step, Call

-----------------------------------------------------------------------------
(* A semaphore of the kernel's that no program has touched: its value is 1 *)
(* or 0 by whether one call is inside, and no other call has its address.  *)

IsIn(j, n) == j.at \in {"hold", "V"} /\ SystemId(j) = n

Sound(n) ==
  /\ heap[n] = IF Entered(n) = {} THEN 1 ELSE 0
  /\ \A u, w \in Entered(n) : u = w
  /\ \A u \in UserThreads : OwnCalls(job[u], n)

Untouched == SystemIds \ meddled

AllSound == \A n \in Untouched : Sound(n)

LEMMA SoundForAll ==
  SemaphoresNamed => (SystemSemaphores /\ OwnCallsOnly <=> AllSound)
<1> SUFFICES ASSUME SemaphoresNamed
             PROVE  SystemSemaphores /\ OwnCallsOnly <=> AllSound
  OBVIOUS
<1>1. \A n \in Untouched : semTable[n] = n /\ n # NULL
  BY Ids DEF SemaphoresNamed, Untouched
<1> QED
  BY <1>1 DEF SystemSemaphores, OwnCallsOnly, Sound, Untouched, AllSound

(* Steps by which nobody enters or leaves it.                              *)
LEMMA SoundKept ==
  ASSUME NEW n \in Untouched, Sound(n), heap'[n] = heap[n],
         \A u \in UserThreads : IsIn(job'[u], n) <=> IsIn(job[u], n),
         \A u \in UserThreads : OwnCalls(job'[u], n)
  PROVE  Sound(n)'
<1>1. Entered(n)' = Entered(n)
  BY DEF Entered, IsIn, SystemId
<1> QED
  BY <1>1 DEF Sound, OwnCalls, SystemId, AtSemaphore

(* One thread goes on, neither into it nor out of it.                      *)
LEMMA SoundMove ==
  ASSUME JobsType, NEW n \in Untouched, Sound(n), heap'[n] = heap[n],
         NEW t \in UserThreads, NEW j, Become(t, j),
         IsIn(j, n) <=> IsIn(job[t], n), OwnCalls(j, n)
  PROVE  Sound(n)'
<1>1. \A u \in UserThreads : job'[u] = IF u = t THEN j ELSE job[u]
  BY DEF Become, JobsType
<1> QED
  BY <1>1, SoundKept DEF Sound

LEMMA SoundReturn ==
  ASSUME JobsType, NEW n \in Untouched, Sound(n), heap'[n] = heap[n],
         NEW t \in UserThreads, Return(t) \/ Become(t, [User EXCEPT !.at = "done"]),
         ~ IsIn(job[t], n)
  PROVE  Sound(n)'
<1>1. /\ ~ IsIn(User, n) /\ OwnCalls(User, n)
      /\ ~ IsIn([User EXCEPT !.at = "done"], n)
      /\ OwnCalls([User EXCEPT !.at = "done"], n)
  BY DEF User, Job, IsIn, OwnCalls, AtSemaphore
<1> QED
  BY <1>1, SoundMove DEF Return

LEMMA SoundUnchanged ==
  ASSUME NEW n \in Untouched, Sound(n), heap'[n] = heap[n], UNCHANGED job
  PROVE  Sound(n)'
BY SoundKept DEF Sound

(* A call waits for semaphore m of the kernel's.                           *)
LEMMA SoundEnter ==
  ASSUME JobsType, SemaphoresType, SemaphoresNamed,
         NEW n \in Untouched, Sound(n), UNCHANGED heap,
         NEW t \in UserThreads, ~ IsIn(job[t], n),
         NEW op, NEW id, NEW m, Enter(t, op, id, m),
         SystemId(Job("P", op, id, GetSemaphore(m))) = m
  PROVE  Sound(n)'
<1> DEFINE j == Job("P", op, id, GetSemaphore(m))
<1>1. GetSemaphore(m) = n <=> m = n
  BY LookUp DEF Untouched
<1>2. j.arg = GetSemaphore(m) /\ j.at = "P"
  BY DEF Job
<1>3. ~ IsIn(j, n) /\ OwnCalls(j, n)
  BY <1>1, <1>2 DEF IsIn, OwnCalls
<1> HIDE DEF j
<1> QED
  BY <1>3, SoundMove DEF Enter, j

(* SemWait and SemSignal of another id.                                    *)
LEMMA SoundOther ==
  ASSUME JobsType, SemaphoresType, SemaphoresNamed,
         NEW n \in Untouched, Sound(n), UNCHANGED heap,
         NEW t \in UserThreads, job[t].at = "user",
         NEW at, NEW op \in {"SemWait", "SemSignal"}, NEW id, id # n,
         Become(t, Job(at, op, id, GetSemaphore(id)))
  PROVE  Sound(n)'
<1> DEFINE j == Job(at, op, id, GetSemaphore(id))
<1>1. GetSemaphore(id) # n
  BY LookUp DEF Untouched
<1>2. j.arg = GetSemaphore(id) /\ j.op = op
  BY DEF Job
<1>3. SystemId(j) # n
  <2>1. SystemId(j) = -1
    BY <1>2 DEF SystemId
  <2> QED
    BY <2>1 DEF Untouched, SystemIds
<1>4. ~ IsIn(j, n) /\ OwnCalls(j, n)
  BY <1>1, <1>2, <1>3 DEF IsIn, OwnCalls
<1>5. ~ IsIn(job[t], n)
  BY DEF IsIn
<1> HIDE DEF j
<1> QED
  BY <1>4, <1>5, SoundMove DEF j

(* Semaphore::P, of this semaphore or of another.                          *)
LEMMA SoundDown ==
  ASSUME CallsInv, NEW n \in Untouched, Sound(n), NEW t \in UserThreads, Down(t)
  PROVE  Sound(n)'
<1> DEFINE a == job[t].arg
           sleep == [job[t] EXCEPT !.at = "asleep"]
           hold == [job[t] EXCEPT !.at = "hold"]
<1>0. /\ JobsType /\ SemaphoresType /\ InCall(job[t]) /\ GoodJob(job[t])
      /\ job[t] \in JobsAt("P") /\ job[t].at = "P"
  BY DEF CallsInv, CallsTypeOK, Underway, JobsType, GoodJob, Down, Going
<1>1. /\ ~ IsIn(job[t], n) /\ OwnCalls(job[t], n) /\ (a = n <=> SystemId(job[t]) = n)
  BY <1>0 DEF IsIn, OwnCalls, AtSemaphore, Sound
<1>2. /\ sleep.at = "asleep" /\ sleep.arg = a /\ SystemId(sleep) = SystemId(job[t])
      /\ hold.at = "hold" /\ hold.arg = a /\ SystemId(hold) = SystemId(job[t])
  BY <1>0 DEF JobsAt, SystemId
<1>3. /\ ~ IsIn(sleep, n) /\ OwnCalls(sleep, n) /\ OwnCalls(hold, n)
      /\ IsIn(hold, n) <=> a = n
  BY <1>1, <1>2 DEF IsIn, OwnCalls, AtSemaphore
<1>4. n \in SemIds /\ n # NULL
  BY Ids DEF Untouched
<1>5. \/ UNCHANGED <<heap, job>>
      \/ UNCHANGED heap /\ Become(t, sleep)
      \/ /\ a # NULL /\ heap[a] \notin {NULL, 0}
         /\ heap' = [heap EXCEPT ![a] = heap[a] - 1]
         /\ IF job[t].op = "SemWait" THEN Return(t) ELSE Become(t, hold)
  BY DEF Down, Crash, kernelVars
<1> HIDE DEF sleep, hold
<1>6. CASE UNCHANGED <<heap, job>>
  BY <1>6, SoundUnchanged
<1>7. CASE UNCHANGED heap /\ Become(t, sleep)
  BY <1>7, <1>0, <1>1, <1>3, SoundMove
<1>8. CASE /\ a # NULL /\ heap[a] \notin {NULL, 0}
           /\ heap' = [heap EXCEPT ![a] = heap[a] - 1]
           /\ IF job[t].op = "SemWait" THEN Return(t) ELSE Become(t, hold)
  <2>1. a \in SemIds
    BY <1>0, <1>8 DEF JobsAt
  <2>2. CASE a # n
    <3>1. heap'[n] = heap[n]
      BY <1>8, <2>1, <2>2, <1>0, <1>4 DEF SemaphoresType
    <3>2. CASE Return(t)
      BY <3>1, <3>2, <1>0, <1>1, SoundReturn
    <3>3. CASE Become(t, hold)
      BY <3>1, <3>3, <2>2, <1>0, <1>1, <1>3, SoundMove
    <3> QED
      BY <3>2, <3>3, <1>8
  <2>3. CASE a = n
    <3>1. SystemId(job[t]) = n /\ n # -1
      BY <1>1, <2>3, <1>4, Ids
    <3>2. job[t].op # "SemWait"
      BY <3>1 DEF SystemId
    <3>3. Become(t, hold)
      BY <3>2, <1>8
    <3>4. heap[n] = 1 /\ Entered(n) = {}
      BY <1>8, <2>3 DEF Sound
    <3>5. heap'[n] = 0
      BY <1>8, <3>4, <2>3, <1>0, <1>4 DEF SemaphoresType
    <3>6. \A u \in UserThreads : job'[u] = IF u = t THEN hold ELSE job[u]
      BY <3>3, <1>0 DEF Become, JobsType
    <3>7. Entered(n)' = {t}
      <4>1. \A u \in UserThreads : IsIn(job'[u], n) <=> u = t
        BY <3>4, <3>6, <2>3, <1>3 DEF Entered, IsIn
      <4> QED
        BY <4>1 DEF Entered, IsIn, SystemId
    <3>8. \A u \in UserThreads : OwnCalls(job'[u], n)
      BY <3>6, <1>3 DEF Sound
    <3> QED
      BY <3>5, <3>7, <3>8 DEF Sound, OwnCalls, SystemId, AtSemaphore
  <2> QED
    BY <2>2, <2>3
<1> QED
  BY <1>5, <1>6, <1>7, <1>8

(* Semaphore::V, of this semaphore or of another.                          *)
LEMMA SoundUp ==
  ASSUME CallsInv, NEW n \in Untouched, Sound(n), NEW t \in UserThreads, Up(t)
  PROVE  Sound(n)'
<1> DEFINE a == job[t].arg
<1>0. /\ JobsType /\ SemaphoresType /\ GoodJob(job[t])
      /\ job[t] \in JobsAt("V") /\ job[t].at = "V"
  BY DEF CallsInv, CallsTypeOK, JobsType, GoodJob, Up, Going
<1>1. /\ a = n <=> SystemId(job[t]) = n
      /\ a = n <=> IsIn(job[t], n)
  BY <1>0 DEF IsIn, OwnCalls, AtSemaphore, Sound
<1>2. n \in SemIds /\ n # NULL
  BY Ids DEF Untouched
<1>3. CASE UNCHANGED <<heap, job>>
  BY <1>3, SoundUnchanged
<1>4. CASE a # NULL /\ heap[a] # NULL /\ Signal(t, a, User)
  <2>1. a \in SemIds /\ heap' = [heap EXCEPT ![a] = heap[a] + 1]
    BY <1>0, <1>4 DEF JobsAt, Signal
  <2>2. ~ IsIn(User, n) /\ OwnCalls(User, n)
    BY DEF User, Job, IsIn, OwnCalls, AtSemaphore
  <2>3. \A u \in UserThreads \ {t} :
          /\ IsIn(job'[u], n) <=> IsIn(job[u], n)
          /\ OwnCalls(job'[u], n)
    <3>1. CASE job' = [job EXCEPT ![t] = User]
      BY <3>1 DEF JobsType, Sound
    <3>2. ASSUME NEW w \in Asleep(a), job' = [job EXCEPT ![t] = User, ![w].at = "P"],
                 NEW u \in UserThreads \ {t}
          PROVE  /\ IsIn(job'[u], n) <=> IsIn(job[u], n)
                 /\ OwnCalls(job'[u], n)
      <4>1. CASE u # w
        <5>1. job'[u] = job[u]
          BY <3>2, <4>1, <1>0 DEF JobsType
        <5> QED
          BY <5>1 DEF Sound
      <4>2. CASE u = w
        <5> DEFINE p == [job[u] EXCEPT !.at = "P"]
        <5>1. job'[u] = p
          BY <3>2, <4>2, <1>0 DEF JobsType
        <5>2. job[u].at = "asleep" /\ job[u] \in JobsAt("asleep")
          BY <4>2, <1>0 DEF Asleep, JobsType
        <5>3. p.at = "P" /\ p.arg = job[u].arg /\ SystemId(p) = SystemId(job[u])
          BY <5>2 DEF JobsAt, SystemId
        <5>4. OwnCalls(job[u], n)
          BY DEF Sound
        <5> HIDE DEF p
        <5> QED
          BY <5>1, <5>2, <5>3, <5>4 DEF IsIn, OwnCalls, AtSemaphore
      <4> QED
        BY <4>1, <4>2
    <3> QED
      BY <1>4, <3>1, <3>2 DEF Signal, Become
  <2>4. job'[t] = User
    <3>1. t \notin Asleep(a)
      BY <1>0 DEF Asleep
    <3> QED
      BY <1>4, <3>1, <1>0 DEF Signal, Become, JobsType, Asleep
  <2>5. \A u \in UserThreads : OwnCalls(job'[u], n)
    BY <2>2, <2>3, <2>4
  <2>6. CASE a # n
    <3>1. heap'[n] = heap[n]
      BY <2>1, <2>6, <1>0, <1>2 DEF SemaphoresType
    <3>2. \A u \in UserThreads : IsIn(job'[u], n) <=> IsIn(job[u], n)
      BY <1>1, <2>2, <2>3, <2>4, <2>6
    <3> QED
      BY <3>1, <3>2, <2>5, SoundKept
  <2>7. CASE a = n
    <3>1. t \in Entered(n)
      BY <1>1, <2>7 DEF IsIn, Entered
    <3>2. heap[n] = 0 /\ \A u \in Entered(n) : u = t
      BY <3>1 DEF Sound
    <3>3. heap'[n] = 1
      BY <2>1, <2>7, <3>2, <1>0, <1>2 DEF SemaphoresType
    <3>4. \A u \in UserThreads : ~ IsIn(job'[u], n)
      BY <3>2, <2>2, <2>3, <2>4 DEF Entered, IsIn
    <3>5. Entered(n)' = {}
      BY <3>4 DEF Entered, IsIn, SystemId
    <3> QED
      BY <3>3, <3>5, <2>5 DEF Sound, OwnCalls, SystemId, AtSemaphore
  <2> QED
    BY <2>6, <2>7
<1> QED
  BY <1>3, <1>4 DEF Up, Crash, kernelVars

LEMMA SoundStep ==
  ASSUME CallsInv, CallsNext
  PROVE  AllSound'
<1> SUFFICES ASSUME NEW t \in UserThreads, Step(t) \/ Call(t), NEW n \in Untouched'
             PROVE  Sound(n)'
  BY DEF CallsNext, AllSound
<1>0. /\ SemaphoresType /\ SemaphoresNamed /\ JobsType /\ SpaceOf[t] \in Spaces
      /\ InCall(job[t]) /\ GoodJob(job[t])
  BY CallsAssumption DEF CallsInv, CallsTypeOK, Underway, JobsType, GoodJob
<1>1. meddled \subseteq meddled'
  <2>1. CASE Step(t)
    BY <2>1, <1>0 DEF Step, TestHandle, Down, Up, Held, OnSocket, Going, Crash, InCall,
                      kernelVars, ghostVars
  <2>2. CASE Call(t)
    BY <2>2 DEF Call, CallOpen, OpenCall, CallCreate, CallWrite, CallRead, Transfer,
                CallClose, CallSemCreate, CallSemDestroy, CallSemaphore, Crash, Meddle,
                CallSocket, CallOnSocket, CallExit, kernelVars, ghostVars
  <2> QED
    BY <2>1, <2>2
<1>2. n \in Untouched /\ Sound(n)
  BY <1>0, <1>1, SoundForAll DEF Untouched, CallsInv, AllSound
<1>3. n \in SemIds /\ n # NULL /\ n \in SystemIds /\ semTable[n] = n
  BY <1>0, <1>2, Ids DEF Untouched, SemaphoresNamed
<1>4. job[t].at \notin {"hold", "V"} => ~ IsIn(job[t], n)
  BY DEF IsIn
<1> DEFINE Same == UNCHANGED <<heap, job>>
<1>a. CASE Same
  BY <1>a, <1>2, SoundUnchanged
<1>b. CASE /\ UNCHANGED heap /\ job[t].at \notin {"hold", "V"}
           /\ \E at, op, id, arg : at \notin AtSemaphore /\ Become(t, Job(at, op, id, arg))
  <2>1. PICK at, op, id, arg :
          at \notin AtSemaphore /\ Become(t, Job(at, op, id, arg))
    BY <1>b
  <2> DEFINE j == Job(at, op, id, arg)
  <2>2. ~ IsIn(j, n) /\ OwnCalls(j, n)
    BY <2>1 DEF Job, IsIn, OwnCalls, AtSemaphore
  <2> HIDE DEF j
  <2> QED
    BY <1>b, <2>1, <2>2, <1>0, <1>2, <1>4, SoundMove DEF j
<1>5. CASE CallOpen(t) \/ CallSocket(t)
  BY <1>5, <1>a DEF CallOpen, OpenCall, CallSocket
<1>6. CASE CallCreate(t)
  <2>1. PICK f \in Files : Enter(t, "Create", f, 2)
    BY <1>6 DEF CallCreate
  <2>2. SystemId(Job("P", "Create", f, GetSemaphore(2))) = 2
    BY DEF SystemId, Job
  <2>3. UNCHANGED heap /\ job[t].at = "user"
    BY <1>6 DEF CallCreate, Calling, kernelVars
  <2> QED
    BY <2>1, <2>2, <2>3, <1>0, <1>2, <1>4, SoundEnter
<1>c. ASSUME NEW op \in {"Write", "Read"}, NEW console, NEW m, NEW other,
             Transfer(t, op, console, m, other),
             \/ op = "Write" /\ console = ConsoleOut /\ m = 0
             \/ op = "Read" /\ m = 3
      PROVE  Sound(n)'
  <2>1. PICK id \in FileOrSocket :
          /\ CASE id = console -> Enter(t, op, id, m)
               [] id = other -> Return(t)
               [] IsSocket(id) -> Become(t, Job("socket", op, id, sockets[id]))
               [] OTHER -> Become(t, Job("isOpened", op, id, NULL))
          /\ UNCHANGED heap /\ job[t].at = "user"
    BY <1>c DEF Transfer, Calling, kernelVars
  <2>2. \/ id = console /\ Enter(t, op, id, m)
        \/ Return(t)
        \/ \E at, arg : at \notin AtSemaphore /\ Become(t, Job(at, op, id, arg))
    BY <2>1 DEF AtSemaphore
  <2>3. CASE id = console /\ Enter(t, op, id, m)
    <3>1. SystemId(Job("P", op, id, GetSemaphore(m))) = m
      BY <1>c, <2>3 DEF SystemId, Job
    <3> QED
      BY <2>1, <2>3, <3>1, <1>0, <1>2, <1>4, SoundEnter
  <2>4. CASE Return(t)
    BY <2>1, <2>4, <1>0, <1>2, <1>4, SoundReturn
  <2>5. CASE \E at, arg : at \notin AtSemaphore /\ Become(t, Job(at, op, id, arg))
    BY <2>1, <2>5, <1>b
  <2> QED
    BY <2>2, <2>3, <2>4, <2>5
<1>7. CASE CallWrite(t)
  BY <1>7, <1>c DEF CallWrite
<1>8. CASE CallRead(t)
  BY <1>8, <1>c DEF CallRead
<1>9. CASE CallClose(t)
  <2>1. /\ UNCHANGED heap /\ job[t].at = "user"
        /\ UNCHANGED job \/ \E id : Become(t, Job("isOpened", "Close", id, NULL))
    BY <1>9 DEF CallClose, Calling
  <2> QED
    BY <2>1, <1>a, <1>b DEF AtSemaphore
<1>10. CASE CallSemCreate(t)
  <2>1. UNCHANGED job /\ heap'[n] = heap[n]
    <3>1. \A a \in FreeIn(heap) : a # n
      <4>1. heap[n] # NULL
        BY <1>0, <1>3 DEF SemaphoresNamed
      <4> QED
        BY <4>1 DEF FreeIn
    <3>2. PICK value \in {0, 1} : AddSemaphore(value)
      BY <1>10 DEF CallSemCreate
    <3> QED
      BY <1>10, <1>0, <1>3, <3>1, <3>2 DEF CallSemCreate, AddSemaphore, SemaphoresType
  <2> QED
    BY <2>1, <1>2, SoundUnchanged
<1>11. CASE CallSemDestroy(t)
  <2>1. PICK id \in AnySemaphore :
          /\ Meddle(id)
          /\ IF GetSemaphore(id) = NULL THEN UNCHANGED <<heap, semTable, job>>
             ELSE RemoveSemaphore(id)
    BY <1>11 DEF CallSemDestroy
  <2>2. id # n
    BY <2>1, <1>3 DEF Meddle, Untouched
  <2>3. CASE RemoveSemaphore(id) /\ GetSemaphore(id) # NULL
    <3>1. GetSemaphore(id) # n /\ GetSemaphore(id) = semTable[id]
      BY <2>2, <2>3, <1>0, <1>2, LookUp DEF GetSemaphore, Untouched
    <3>2. heap'[n] = heap[n]
      BY <2>3, <3>1, <1>0, <1>3 DEF RemoveSemaphore, SemaphoresType
    <3>3. \A u \in UserThreads :
            \/ job'[u] = job[u]
            \/ job[u].at = "asleep" /\ job'[u] = [job[u] EXCEPT !.at = "lost"]
      BY <2>3 DEF RemoveSemaphore
    <3>4. ASSUME NEW u \in UserThreads
          PROVE  /\ IsIn(job'[u], n) <=> IsIn(job[u], n)
                 /\ OwnCalls(job'[u], n)
      <4>1. CASE job'[u] = job[u]
        BY <4>1, <1>2 DEF Sound
      <4>2. CASE job[u].at = "asleep" /\ job'[u] = [job[u] EXCEPT !.at = "lost"]
        <5>1. job[u] \in JobsAt("asleep")
          BY <4>2, <1>0 DEF JobsType
        <5>2. job'[u].at = "lost"
          BY <4>2, <5>1 DEF JobsAt
        <5> QED
          BY <4>2, <5>2 DEF IsIn, OwnCalls, AtSemaphore
      <4> QED
        BY <3>3, <4>1, <4>2
    <3> QED
      BY <3>2, <3>4, <1>2, SoundKept
  <2> QED
    BY <2>1, <2>3, <1>a
<1>12. CASE CallSemaphore(t)
  <2>1. PICK op \in {"SemWait", "SemSignal"}, id \in AnySemaphore :
          /\ job[t].at = "user"
          /\ \/ Same
             \/ /\ Become(t, Job(IF op = "SemWait" THEN "P" ELSE "V",
                                 op, id, GetSemaphore(id)))
                /\ Meddle(id) /\ UNCHANGED heap
    BY <1>12 DEF CallSemaphore, Calling, Crash, kernelVars
  <2>2. CASE /\ Become(t, Job(IF op = "SemWait" THEN "P" ELSE "V",
                              op, id, GetSemaphore(id)))
             /\ Meddle(id) /\ UNCHANGED heap
    <3>1. id # n
      BY <2>2, <1>3 DEF Meddle, Untouched
    <3> QED
      BY <2>1, <2>2, <3>1, <1>0, <1>2, SoundOther
  <2> QED
    BY <2>1, <2>2, <1>a
<1>13. CASE CallOnSocket(t)
  <2>1. /\ UNCHANGED heap /\ job[t].at = "user"
        /\ \E op, id, arg : Become(t, Job("socket", op, id, arg))
    BY <1>13 DEF CallOnSocket, Calling, kernelVars
  <2> QED
    BY <2>1, <1>b DEF AtSemaphore
<1>14. CASE CallExit(t)
  <2>1. /\ UNCHANGED heap /\ job[t].at = "user"
        /\ Become(t, [User EXCEPT !.at = "done"])
    BY <1>14 DEF CallExit, Calling
  <2> QED
    BY <2>1, <1>0, <1>2, <1>4, SoundReturn
<1>15. CASE TestHandle(t)
  <2> DEFINE h == job[t].id
  <2>1. /\ UNCHANGED heap /\ job[t].at = "isOpened"
        /\ \/ UNCHANGED job
           \/ Return(t)
           \/ job[t].op = "Write" /\ Enter(t, "Write", h, 1)
    BY <1>15, <1>0 DEF TestHandle, Going, Crash, InCall, kernelVars
  <2>2. CASE job[t].op = "Write" /\ Enter(t, "Write", h, 1)
    <3>1. h # ConsoleOut
      BY <2>1, <2>2, <1>0 DEF InCall
    <3>2. SystemId(Job("P", "Write", h, GetSemaphore(1))) = 1
      BY <3>1 DEF SystemId, Job
    <3> QED
      BY <2>1, <2>2, <3>2, <1>0, <1>2, <1>4, SoundEnter
  <2> QED
    BY <2>1, <2>2, <1>0, <1>2, <1>4, <1>a, SoundReturn
<1>16. CASE Down(t)
  BY <1>16, <1>2, SoundDown
<1>17. CASE Up(t)
  BY <1>17, <1>2, SoundUp
<1>18. CASE Held(t)
  <2> DEFINE m == SystemId(job[t])
             v == [job[t] EXCEPT !.at = "V", !.arg = GetSemaphore(m)]
  <2>1. UNCHANGED heap /\ job[t].at = "hold" /\ Become(t, v)
    BY <1>18 DEF Held, Going
  <2>2. v.at = "V" /\ v.arg = GetSemaphore(m) /\ SystemId(v) = m
    BY <2>1, <1>0 DEF GoodJob, JobsAt, SystemId
  <2>3. GetSemaphore(m) = n <=> m = n
    BY <1>0, <1>2, LookUp DEF Untouched
  <2>4. /\ IsIn(v, n) <=> IsIn(job[t], n)
        /\ OwnCalls(v, n)
    BY <2>1, <2>2, <2>3 DEF IsIn, OwnCalls
  <2> HIDE DEF v
  <2> QED
    BY <2>1, <2>4, <1>0, <1>2, SoundMove
<1>19. CASE OnSocket(t)
  <2>1. /\ UNCHANGED heap /\ job[t].at = "socket"
        /\ UNCHANGED job \/ Return(t)
    BY <1>19 DEF OnSocket, Going, Crash, kernelVars
  <2> QED
    BY <2>1, <1>0, <1>2, <1>4, <1>a, SoundReturn
<1> QED
  BY <1>5, <1>6, <1>7, <1>8, <1>9, <1>10, <1>11, <1>12, <1>13, <1>14, <1>15, <1>16,
     <1>17, <1>18, <1>19
  DEF Step, Call

-----------------------------------------------------------------------------
(* Files a space reaches, and the rest of the types.                       *)

ReachedOK ==
  /\ made \subseteq Files /\ reached \in [Spaces -> SUBSET (Descriptors \X Files)]
  /\ spent \in 0..MaxCost
  /\ crashed \in {"no", "null pointer", "freed memory", "assertion"}
  /\ OnlyOwnFiles

(* What the claim lets a space reach.                                      *)
MayReach(s) == {r \in Descriptors \X Files : r[1] \in {0, 1} \/ r[2] \in opened[s]}

(* No step takes a file away from those a space has opened.                *)
LEMMA OpenedGrows ==
  ASSUME CallsInv, CallsNext
  PROVE  \A s \in Spaces : opened[s] \subseteq opened'[s]
<1> SUFFICES ASSUME NEW t \in UserThreads, Step(t) \/ Call(t)
             PROVE  \A s \in Spaces : opened[s] \subseteq opened'[s]
  BY DEF CallsNext
<1>0. TablesType /\ SpaceOf[t] \in Spaces /\ InCall(job[t])
  BY CallsAssumption DEF CallsInv, CallsTypeOK, Underway
<1>1. ASSUME NEW F, opened' = [opened EXCEPT ![SpaceOf[t]] = @ \union F]
      PROVE  \A s \in Spaces : opened[s] \subseteq opened'[s]
  BY <1>1, <1>0 DEF TablesType
<1>2. CASE Step(t)
  <2>1. \/ UNCHANGED opened
        \/ opened' = [opened EXCEPT ![SpaceOf[t]] = @ \union {job[t].id}]
    BY <1>2, <1>0 DEF Step, TestHandle, Down, Up, Held, OnSocket, Inside, CreateHeld,
                InCall,
                Going, Crash, kernelVars, ghostVars
  <2> QED
    BY <2>1, <1>1
<1>3. CASE Call(t)
  <2>1. \/ UNCHANGED opened
        \/ \E f \in Files : opened' = [opened EXCEPT ![SpaceOf[t]] = @ \union {f}]
    BY <1>3 DEF Call, CallOpen, OpenCall, CallCreate, CallWrite, CallRead, Transfer,
                CallClose, CallSemCreate, CallSemDestroy, CallSemaphore, Crash,
                CallSocket, CallOnSocket, CallExit, kernelVars, ghostVars
  <2> QED
    BY <2>1, <1>1
<1> QED
  BY <1>2, <1>3

(* What a step adds to the files a space has reached.                      *)
LEMMA ReachingGrows ==
  ASSUME TablesType, NEW s \in Spaces, NEW d,
         d \in Descriptors \ {0, 1} => host[d] \in opened[s],
         reached' = Reaching(s, d)
  PROVE  \/ UNCHANGED reached
         \/ \E R \in SUBSET MayReach(s) : reached' = [reached EXCEPT ![s] = @ \union R]
<1>1. CASE d \in Descriptors /\ host[d] \in Files
  <2>1. {<<d, host[d]>>} \in SUBSET MayReach(s)
    BY <1>1 DEF MayReach
  <2> QED
    BY <1>1, <2>1 DEF Reaching
<1>2. CASE ~ (d \in Descriptors /\ host[d] \in Files)
  BY <1>2 DEF Reaching
<1> QED
  BY <1>1, <1>2

LEMMA ReachedGrows ==
  ASSUME CallsInv, CallsNext
  PROVE  \/ UNCHANGED reached
         \/ \E s \in Spaces : \E R \in SUBSET MayReach(s) :
              reached' = [reached EXCEPT ![s] = @ \union R]
<1> SUFFICES ASSUME NEW t \in UserThreads, Step(t) \/ Call(t), ~ UNCHANGED reached
             PROVE  \E s \in Spaces : \E R \in SUBSET MayReach(s) :
                      reached' = [reached EXCEPT ![s] = @ \union R]
  BY DEF CallsNext
<1>0. /\ TablesType /\ EntriesOpen /\ SpaceOf[t] \in Spaces /\ InCall(job[t])
  BY CallsAssumption DEF CallsInv, CallsTypeOK, Underway
<1> DEFINE s == SpaceOf[t]
           h == job[t].id
<1>1. TestHandle(t) \/ Held(t)
  BY DEF Step, Down, Up, OnSocket, Call, CallOpen, OpenCall, CallCreate, CallWrite,
         CallRead, Transfer, CallClose, CallSemCreate, CallSemDestroy, CallSemaphore,
         Crash, CallSocket, CallOnSocket, CallExit, kernelVars, ghostVars
<1>2. ASSUME NEW k \in Handles
      PROVE  openFiles[s][k] \in Descriptors \ {0, 1} => host[openFiles[s][k]] \in opened[s]
  BY <1>0, <1>2, Ids DEF EntriesOpen
<1>3. CASE TestHandle(t)
  <2>1. h \in Handles /\ reached' = Reaching(s, openFiles[s][h])
    BY <1>3, <1>0 DEF TestHandle, Going, Crash, InCall, kernelVars, ghostVars
  <2> QED
    BY <2>1, <1>0, <1>2, ReachingGrows
<1>4. CASE Held(t)
  <2>1. \/ job[t].op = "Write" /\ h \in Handles /\ reached' = Reaching(s, WriteTarget(t))
        \/ reached' = Reaching(s, 0)
    BY <1>4, <1>0 DEF Held, Inside, Going, InCall
  <2>2. CASE h \in Handles /\ reached' = Reaching(s, WriteTarget(t))
    <3>1. \/ WriteTarget(t) = 1
          \/ WriteTarget(t) = openFiles[s][h]
      BY DEF WriteTarget
    <3>2. WriteTarget(t) \in Descriptors \ {0, 1} => host[WriteTarget(t)] \in opened[s]
      BY <2>2, <3>1, <1>2
    <3> QED
      BY <2>2, <3>2, <1>0, ReachingGrows
  <2>3. CASE reached' = Reaching(s, 0)
    BY <2>3, <1>0, ReachingGrows
  <2> QED
    BY <2>1, <2>2, <2>3
<1> QED
  BY <1>1, <1>3, <1>4

LEMMA ReachedStep ==
  ASSUME CallsInv, CallsNext
  PROVE  ReachedOK'
<1>0. /\ TablesType /\ reached \in [Spaces -> SUBSET (Descriptors \X Files)] /\ OnlyOwnFiles
      /\ Underway /\ made \subseteq Files /\ spent \in 0..MaxCost
      /\ crashed \in {"no", "null pointer", "freed memory", "assertion"}
  BY DEF CallsInv, CallsTypeOK
<1>1. \A s \in Spaces : opened[s] \subseteq opened'[s]
  BY OpenedGrows
<1>2. reached' \in [Spaces -> SUBSET (Descriptors \X Files)] /\ OnlyOwnFiles'
  <2>1. CASE UNCHANGED reached
    BY <2>1, <1>0, <1>1 DEF OnlyOwnFiles
  <2>2. ASSUME NEW s \in Spaces, NEW R \in SUBSET MayReach(s),
               reached' = [reached EXCEPT ![s] = @ \union R]
        PROVE  reached' \in [Spaces -> SUBSET (Descriptors \X Files)] /\ OnlyOwnFiles'
    BY <2>2, <1>0, <1>1 DEF OnlyOwnFiles, MayReach
  <2> QED
    BY <2>1, <2>2, ReachedGrows
<1> SUFFICES ASSUME NEW t \in UserThreads, Step(t) \/ Call(t)
             PROVE  /\ made' \subseteq Files
                    /\ spent' \in 0..MaxCost
                    /\ crashed' \in {"no", "null pointer", "freed memory", "assertion"}
  BY <1>2 DEF CallsNext, ReachedOK
<1>3. InCall(job[t])
  BY <1>0 DEF Underway
<1>4. CASE Step(t)
  <2>1. made' = made \/ (job[t].at = "hold" /\ job[t].op = "Create"
                         /\ made' = made \union {job[t].id})
    BY <1>3, <1>4 DEF Step, TestHandle, Down, Up, Held, OnSocket, Inside, CreateHeld,
                      InCall,
                      Going, Crash, kernelVars, ghostVars
  <2>2. made' \subseteq Files
    BY <2>1, <1>0, <1>3 DEF InCall
  <2>3. spent' = spent
    BY <1>4 DEF Step, TestHandle, Down, Up, Held, OnSocket, Going
  <2>4. crashed' = crashed \/ crashed' \in {"null pointer", "freed memory", "assertion"}
    BY <1>3, <1>4 DEF Step, TestHandle, Down, Up, Held, OnSocket, InCall, Going, Crash
  <2> QED
    BY <2>2, <2>3, <2>4, <1>0
<1>5. CASE Call(t)
  <2>1. /\ made' = made
        /\ crashed' = crashed \/ crashed' = "null pointer"
    BY <1>5 DEF Call, CallOpen, OpenCall, CallCreate, CallWrite, CallRead, Transfer,
                CallClose, CallSemCreate, CallSemDestroy, CallSemaphore, Crash,
                CallSocket, CallOnSocket, CallExit, kernelVars, ghostVars
  <2>2. \E op \in Ops : spent + Cost[op] <= MaxCost /\ spent' = spent + Cost[op]
    BY <1>5 DEF Call, CallOpen, CallCreate, CallWrite, CallRead, Transfer,
                CallClose, CallSemCreate, CallSemDestroy, CallSemaphore,
                CallSocket, CallOnSocket, CallExit, Calling
  <2>3. spent' \in 0..MaxCost
    <3>1. MaxCost \in Nat /\ \A op \in Ops : Cost[op] \in Nat
      BY CallsAssumption
    <3>2. ASSUME NEW s \in 0..MaxCost, NEW c \in Nat, s + c <= MaxCost
          PROVE  s + c \in 0..MaxCost
      BY <3>1, <3>2
    <3>3. PICK op \in Ops : spent + Cost[op] <= MaxCost /\ spent' = spent + Cost[op]
      BY <2>2
    <3> QED
      BY <3>1, <3>2, <3>3, <1>0, Zenon
  <2> QED
    BY <2>1, <2>3, <1>0
<1> QED
  BY <1>4, <1>5

-----------------------------------------------------------------------------
(* The theorems.                                                           *)

LEMMA CallsInvInit == CallsInit => CallsInv
<1> SUFFICES ASSUME CallsInit
             PROVE  CallsInv
  OBVIOUS
<1>1. TablesType
  <2>1. openFiles \in [Spaces -> [Handles -> Descriptors \union {NULL}]]
    <3>1. \A h \in Handles : h < 2 => h \in Descriptors
      <4>1. ASSUME NEW h \in Handles, h < 2 PROVE h \in Descriptors
        <5>1. h \in Nat /\ {0, 1, 2} \subseteq Descriptors
          BY Ids
        <5>2. h = 0 \/ h = 1
          BY <4>1, <5>1
        <5> QED
          BY <5>1, <5>2
      <4> QED
        BY <4>1
    <3> QED
      BY <3>1 DEF CallsInit
  <2>2. host \in [Descriptors -> Files \union {"console", "socket", NULL}]
    BY Ids DEF CallsInit
  <2> QED
    BY <2>1, <2>2 DEF CallsInit, TablesType
<1>2. SemaphoresType
  BY Ids DEF CallsInit, SemaphoresType
<1>3. JobsType /\ Underway
  <2>1. InCall(User)
    BY DEF InCall, User, Job
  <2>2. \A t \in UserThreads : job[t] = User
    BY DEF CallsInit
  <2>3. job = [t \in UserThreads |-> job[t]]
    BY DEF CallsInit
  <2> QED
    BY <2>1, <2>2, <2>3, UserJob DEF JobsType, Underway, GoodJob
<1>5. EntriesOpen
  BY Ids, CallsAssumption DEF CallsInit, EntriesOpen
<1>6. NoSharing
  <2>1. \A s \in Spaces, h \in Handles : openFiles[s][h] \in {0, 1, NULL}
    BY Ids DEF CallsInit
  <2>2. \A i \in SocketIds : sockets[i] = NULL
    BY DEF CallsInit
  <2> QED
    BY <2>1, <2>2 DEF NoSharing
<1>7. SemaphoresNamed /\ meddled \subseteq SystemIds
  <2>1. \A i \in SemIds : semTable[i] = IF i < 4 THEN i ELSE NULL
    BY DEF CallsInit
  <2>2. \A i \in SemIds : heap[i] = IF i < 4 THEN 1 ELSE NULL
    BY DEF CallsInit
  <2>3. \A n \in SystemIds : semTable[n] = n
    BY <2>1, Ids DEF SystemIds
  <2>4. \A i \in SemIds : semTable[i] # NULL => heap[semTable[i]] # NULL
    BY <2>1, <2>2, CallsAssumption
  <2>5. \A i, j \in SemIds : semTable[i] # NULL /\ semTable[i] = semTable[j] => i = j
    BY <2>1, Ids
  <2> QED
    BY <2>3, <2>4, <2>5 DEF SemaphoresNamed, CallsInit
<1>9. SystemSemaphores /\ OwnCallsOnly
  <2>1. \A t \in UserThreads : job[t].at = "user"
    BY DEF CallsInit, User, Job
  <2>2. \A n \in SystemIds : heap[n] = 1 /\ Entered(n) = {}
    BY <2>1, Ids DEF CallsInit, SystemIds, Entered
  <2>3. \A n \in Untouched : Sound(n)
    BY <2>1, <2>2 DEF Sound, Untouched, OwnCalls, AtSemaphore
  <2> QED
    BY <2>3, <1>7, SoundForAll DEF AllSound
<1>8. /\ made \subseteq Files /\ reached \in [Spaces -> SUBSET (Descriptors \X Files)]
      /\ spent \in 0..MaxCost /\ crashed = "no" /\ OnlyOwnFiles
  BY CallsAssumption DEF CallsInit, OnlyOwnFiles
<1> QED
  BY <1>1, <1>2, <1>3, <1>5, <1>6, <1>7, <1>8, <1>9 DEF CallsInv, CallsTypeOK

LEMMA CallsInvHolds == CallsSpec => []CallsInv
<1>1. ASSUME CallsInv, [CallsNext]_callVars
      PROVE  CallsInv'
  <2>1. CASE CallsNext
    <3>1. TablesOK' /\ SemaphoresOK' /\ JobsOK' /\ ReachedOK' /\ AllSound'
      BY <1>1, <2>1, TablesStep, SemaphoresStep, JobsStep, ReachedStep, SoundStep
    <3>2. SystemSemaphores' /\ OwnCallsOnly'
      BY <3>1, SoundForAll, PTL DEF SemaphoresOK
    <3> QED
      BY <3>1, <3>2 DEF CallsInv, CallsTypeOK, TablesOK, SemaphoresOK, JobsOK, ReachedOK
  <2>2. CASE UNCHANGED callVars
    <3>1. TablesOK' /\ JobsOK'
      BY <1>1, <2>2, TablesUnchanged, JobsUnchanged
      DEF CallsInv, CallsTypeOK, callVars, kernelVars, ghostVars
    <3>2. SemaphoresOK' /\ ReachedOK'
      BY <1>1, <2>2
      DEF CallsInv, CallsTypeOK, callVars, kernelVars, ghostVars, SemaphoresOK,
          SemaphoresType, SemaphoresNamed, ReachedOK, OnlyOwnFiles
    <3>3. SystemSemaphores' /\ OwnCallsOnly'
      <4>1. /\ UNCHANGED <<job, heap, semTable, meddled>>
            /\ SystemSemaphores /\ OwnCallsOnly
        BY <1>1, <2>2 DEF CallsInv, callVars, kernelVars, ghostVars
      <4>2. SystemSemaphores'
        BY <4>1 DEF SystemSemaphores, Entered, SystemId
      <4>3. OwnCallsOnly'
        BY <4>1 DEF OwnCallsOnly, OwnCalls, SystemId, AtSemaphore
      <4> QED
        BY <4>2, <4>3
    <3> QED
      BY <3>1, <3>2, <3>3
      DEF CallsInv, CallsTypeOK, TablesOK, SemaphoresOK, JobsOK, ReachedOK
  <2> QED
    BY <1>1, <2>1, <2>2
<1> QED
  BY <1>1, CallsInvInit, PTL DEF CallsSpec

(* Each of the tables always holds what its type says.                     *)
THEOREM CallsTypeCorrect == CallsSpec => []CallsTypeOK
BY CallsInvHolds, PTL DEF CallsInv

(* Beyond the console, no two entries of any space's table of open files,  *)
(* or of the table of sockets, hold the same descriptor of the host, and   *)
(* each is open (Open, Create, Close, Socket, Accept, Exit).               *)
THEOREM OneOwnerHolds == CallsSpec => []OneOwner
<1>1. CallsInv => OneOwner
  <2> SUFFICES ASSUME CallsInv, NEW d \in Descriptors \ {0, 1}
               PROVE  Cardinality(Owners(d)) <= 1 /\ (Owners(d) # {} => host[d] # NULL)
    BY DEF OneOwner
  <2>0. TablesType /\ EntriesOpen /\ NoSharing /\ d # NULL
    BY Ids DEF CallsInv, CallsTypeOK
  <2> DEFINE O == {e \in Spaces \X Handles : openFiles[e[1]][e[2]] = d}
             S == {i \in SocketIds : sockets[i] # NULL /\ sockets[i].fd = d}
  <2>1. Owners(d) = O \union {<<"socket", i>> : i \in S}
    BY DEF Owners
  <2>2. \A e \in O : host[d] \in Files
    <3>1. ASSUME NEW e \in O PROVE host[d] \in opened[e[1]] /\ e[1] \in Spaces
      BY <2>0 DEF EntriesOpen
    <3> QED
      BY <3>1, <2>0 DEF TablesType
  <2>3. \A i \in S : host[d] = "socket"
    BY <2>0 DEF EntriesOpen
  <2>4. \A e, g \in O : e = g
    <3>1. ASSUME NEW e \in O, NEW g \in O PROVE e = g
      <4>1. e[1] = g[1] /\ e[2] = g[2]
        BY <2>0 DEF NoSharing
      <4> QED
        BY <4>1
    <3> QED
      BY <3>1
  <2>5. \A i, j \in S : i = j
    BY <2>0 DEF NoSharing
  <2>6. O = {} \/ S = {}
    BY <2>2, <2>3, CallsAssumption
  <2> HIDE DEF O, S
  <2>7. Owners(d) = {} \/ \E x : Owners(d) = {x}
    <3>1. CASE O = {} /\ S = {}
      BY <3>1, <2>1
    <3>2. CASE O # {}
      <4>1. PICK e \in O : TRUE
        BY <3>2
      <4>2. Owners(d) = {e}
        BY <4>1, <2>1, <2>4, <2>6, <3>2
      <4> QED
        BY <4>2
    <3>3. CASE S # {}
      <4>1. PICK i \in S : TRUE
        BY <3>3
      <4>2. Owners(d) = {<<"socket", i>>}
        BY <4>1, <2>1, <2>5, <2>6, <3>3
      <4> QED
        BY <4>2
    <3> QED
      BY <3>1, <3>2, <3>3
  <2>8. Cardinality(Owners(d)) <= 1
    <3>1. CASE Owners(d) = {}
      <4>1. Cardinality(Owners(d)) = 0
        BY <3>1, FS_EmptySet, Zenon
      <4> QED
        BY <4>1
    <3>2. CASE \E x : Owners(d) = {x}
      <4>1. Cardinality(Owners(d)) = 1
        BY <3>2, FS_Singleton, Zenon
      <4> QED
        BY <4>1
    <3> QED
      BY <2>7, <3>1, <3>2
  <2>9. Owners(d) # {} => host[d] # NULL
    BY <2>1, <2>2, <2>3, CallsAssumption
  <2> QED
    BY <2>8, <2>9
<1> QED
  BY <1>1, CallsInvHolds, PTL

(* By any descriptor but the console's two, a space's Reads and Writes     *)
(* only reach files that it has itself opened or created by name.          *)
THEOREM OnlyOwnFilesHolds == CallsSpec => []OnlyOwnFiles
BY CallsInvHolds, PTL DEF CallsInv

(* While no program passes the id of one of the kernel's four semaphores   *)
(* to SemWait, SemSignal or SemDestroy, that one is there, at most one     *)
(* call is inside it, and its value says whether one is.                   *)
THEOREM SystemSemaphoresHold == CallsSpec => []SystemSemaphores
BY CallsInvHolds, PTL DEF CallsInv

-----------------------------------------------------------------------------
(* Arithmetic of words.                                                    *)

LEMMA PowerOf == ASSUME NEW n \in 0..WordBits PROVE 2^n \in Nat \ {0}
BY WordsAssumption

LEMMA NextPower ==
  ASSUME NEW n \in 0..(WordBits - 1)
  PROVE  2^n \in Nat \ {0} /\ 2^(n + 1) = 2 * 2^n
<1>1. WordBits \in Nat /\ 1 \in 0..WordBits /\ n \in 0..WordBits
  BY WordsAssumption DEF WordBits
<1>2. PICK p : p = 2^n
  OBVIOUS
<1>3. p \in Nat \ {0} /\ 2^(n + 1) = p * 2
  BY <1>1, <1>2, WordsAssumption
<1>4. QED
  BY <1>2, <1>3

LEMMA ValuesType == ASSUME NEW n \in 0..4 PROVE Values(n) \in Nat \ {0}
<1>1. ByteBits * n \in 0..WordBits
  BY WordsAssumption DEF WordBits
<1>2. QED
  BY <1>1, PowerOf DEF Values

LEMMA ValuesSum ==
  ASSUME NEW m \in 0..4, NEW n \in 0..4
  PROVE  Values(m + n) = Values(m) * Values(n)
<1>1. /\ ByteBits * n \in 0..WordBits /\ ByteBits * m \in 0..WordBits
      /\ ByteBits * (m + n) = ByteBits * m + ByteBits * n
  BY WordsAssumption DEF WordBits
<1>2. QED
  BY <1>1, WordsAssumption DEF Values

LEMMA ByteType == Byte \in Nat \ {0}
BY ValuesType DEF Byte

(* Half the words have the sign bit.                                       *)
LEMMA HalfWord == \E h \in Nat \ {0} : W = 2 * h /\ W \div 2 = h
<1>1. /\ WordBits - 1 \in 0..WordBits /\ WordBits - 1 \in 0..(WordBits - 1)
      /\ (WordBits - 1) + 1 = WordBits
  BY WordsAssumption DEF WordBits
<1>2. PICK h : h = 2^(WordBits - 1)
  OBVIOUS
<1>3. h \in Nat \ {0} /\ 2^WordBits = 2 * h
  BY <1>1, <1>2, NextPower
<1>4. WordBits = ByteBits * 4
  BY WordsAssumption DEF WordBits
<1>5. W = 2 * h
  BY <1>3, <1>4 DEF W, Values
<1>6. QED
  BY <1>3, <1>5

LEMMA WordSize == W \in Nat \ {0, 1} /\ 0 \in Word /\ 1 \in Word
<1>1. PICK h \in Nat \ {0} : W = 2 * h
  BY HalfWord
<1>2. QED
  BY <1>1 DEF Word

LEMMA WrapType ==
  ASSUME NEW n \in Int
  PROVE  Wrap(n) \in Word /\ \E q \in Int : n = q * W + Wrap(n)
<1>1. PICK w \in Nat \ {0} : w = W
  BY WordSize
<1>2. n % w \in 0..(w - 1) /\ n \div w \in Int
  BY <1>1
<1>3. PICK q \in Int : q = n \div w
  BY <1>2
<1>4. PICK r \in Int : r = n % w
  BY <1>2
<1>5. n = q * w + r
  BY <1>1, <1>3, <1>4
<1>6. QED
  BY <1>1, <1>2, <1>4, <1>5 DEF Wrap, Word

(* A word is the only one that it differs from by a multiple of W.         *)
LEMMA SameRest ==
  ASSUME NEW w \in Nat \ {0}, NEW p \in Int, NEW q \in Int,
         NEW a \in 0..(w - 1), NEW b \in 0..(w - 1), p * w + a = q * w + b
  PROVE  p = q /\ a = b
<1>1. CASE p = q
  BY <1>1
<1>2. CASE p > q
  <2>1. PICK d \in Nat : p = q + 1 + d
    BY <1>2
  <2>2. p * w = q * w + w + d * w
    BY <2>1
  <2>3. d * w >= 0 /\ d * w \in Int /\ q * w \in Int
    BY <2>1
  <2>4. QED
    BY <2>2, <2>3
<1>3. CASE q > p
  <2>1. PICK d \in Nat : q = p + 1 + d
    BY <1>3
  <2>2. q * w = p * w + w + d * w
    BY <2>1
  <2>3. d * w >= 0 /\ d * w \in Int /\ p * w \in Int
    BY <2>1
  <2>4. QED
    BY <2>2, <2>3
<1>4. QED
  BY <1>1, <1>2, <1>3

LEMMA WrapIs ==
  ASSUME NEW n \in Int, NEW q \in Int, NEW v \in Word, n = q * W + v
  PROVE  Wrap(n) = v
<1>1. PICK w \in Nat \ {0} : w = W
  BY WordSize
<1>2. PICK p \in Int : n = p * W + Wrap(n)
  BY WrapType
<1>3. PICK r : r = Wrap(n)
  OBVIOUS
<1>4. r \in 0..(w - 1) /\ v \in 0..(w - 1) /\ p * w + r = q * w + v
  BY <1>1, <1>2, <1>3, WrapType DEF Word
<1>5. r = v
  BY <1>4, SameRest
<1>6. QED
  BY <1>3, <1>5

LEMMA WrapOfWord == ASSUME NEW n \in Word PROVE Wrap(n) = n
<1>1. n \in Int /\ n = 0 * W + n
  BY WordSize DEF Word
<1>2. QED
  BY <1>1, WrapIs

(* Sums are wrapped once or at every step.                                 *)
LEMMA WrapSum ==
  ASSUME NEW a \in Int, NEW b \in Int
  PROVE  Wrap(Wrap(a) + b) = Wrap(a + b)
<1>1. PICK w \in Nat \ {0} : w = W
  BY WordSize
<1>2. PICK r : r = Wrap(a)
  OBVIOUS
<1>3. r \in Int
  BY <1>2, WrapType, WordSize DEF Word
<1>4. PICK p \in Int : a = p * w + r
  BY <1>1, <1>2, WrapType
<1>5. PICK v : v = Wrap(r + b)
  OBVIOUS
<1>6. v \in Word /\ v \in Int /\ r + b \in Int
  BY <1>3, <1>5, WrapType, WordSize DEF Word
<1>7. PICK q \in Int : r + b = q * w + v
  BY <1>1, <1>5, <1>6, WrapType
<1>8. PICK k \in Int : k = p + q
  OBVIOUS
<1>9. a + b \in Int /\ a + b = k * W + v
  BY <1>1, <1>3, <1>4, <1>6, <1>7, <1>8
<1>10. Wrap(a + b) = v
  BY ONLY <1>6, <1>8, <1>9, WrapIs
<1>11. QED
  BY <1>2, <1>5, <1>10

(* The sum and the difference of two words are at most W off.              *)
LEMMA WrapNear ==
  ASSUME NEW n \in Int, n >= -W, n < 2 * W
  PROVE  Wrap(n) = IF n < 0 THEN n + W ELSE IF n >= W THEN n - W ELSE n
<1>1. PICK w \in Nat \ {0} : w = W
  BY WordSize
<1>2. CASE n < 0
  <2>1. PICK k \in Int : k = -1
    OBVIOUS
  <2>2. PICK v : v = n + w
    OBVIOUS
  <2>3. v \in Word /\ n = k * W + v
    BY <1>1, <1>2, <2>1, <2>2 DEF Word
  <2>4. Wrap(n) = v
    BY <2>1, <2>3, WrapIs
  <2>5. QED
    BY <1>1, <1>2, <2>2, <2>4
<1>3. CASE n >= W
  <2>1. PICK k \in Int : k = 1
    OBVIOUS
  <2>2. PICK v : v = n - w
    OBVIOUS
  <2>3. v \in Word /\ n = k * W + v
    BY <1>1, <1>3, <2>1, <2>2 DEF Word
  <2>4. Wrap(n) = v
    BY <2>1, <2>3, WrapIs
  <2>5. QED
    BY <1>1, <1>3, <2>2, <2>4
<1>4. CASE n >= 0 /\ n < W
  <2>1. n \in Word
    BY <1>1, <1>4 DEF Word
  <2>2. QED
    BY <1>1, <1>4, <2>1, WrapOfWord
<1>5. QED
  BY <1>1, <1>2, <1>3, <1>4

(* What a word is as a signed number.                                      *)
LEMMA SignedType ==
  ASSUME NEW a \in Word, NEW h \in Nat \ {0}, W = 2 * h, W \div 2 = h
  PROVE  /\ SignBit(a) <=> a >= h
         /\ Signed(a) = IF a >= h THEN a - 2 * h ELSE a
         /\ Signed(a) \in (-h)..(h - 1)
         /\ Signed(a) < 0 <=> SignBit(a)
BY DEF Word, SignBit, Signed

-----------------------------------------------------------------------------
(* The tests of OneInstruction are on sign bits; the manual's are of the   *)
(* exact result.                                                           *)

(* ADD, and ADDI with b the word of its immediate.                         *)
LEMMA AddOverflows ==
  ASSUME NEW a \in Word, NEW b \in Word
  PROVE  /\ SignBit(a) <=> SignBit(b)
         /\ ~ (SignBit(a) <=> SignBit(Wrap(a + b)))
         <=>
         \/ Signed(a) + Signed(b) < -(W \div 2)
         \/ Signed(a) + Signed(b) >= W \div 2
<1>1. PICK h \in Nat \ {0} : W = 2 * h /\ W \div 2 = h
  BY HalfWord
<1>2. a \in 0..(2 * h - 1) /\ b \in 0..(2 * h - 1)
  BY <1>1 DEF Word
<1>3. PICK s : s = Wrap(a + b)
  OBVIOUS
<1>4. s = IF a + b >= 2 * h THEN a + b - 2 * h ELSE a + b
  BY <1>1, <1>2, <1>3, WrapNear
<1>5. s \in 0..(2 * h - 1)
  BY <1>2, <1>4
<1>6. s \in Word
  BY <1>1, <1>5 DEF Word
<1>7. /\ SignBit(a) <=> a >= h
      /\ Signed(a) = IF a >= h THEN a - 2 * h ELSE a
  BY <1>1, SignedType
<1>8. /\ SignBit(b) <=> b >= h
      /\ Signed(b) = IF b >= h THEN b - 2 * h ELSE b
  BY <1>1, SignedType
<1>9. SignBit(s) <=> s >= h
  BY <1>1, <1>6, SignedType
<1>10. QED
  BY <1>1, <1>2, <1>3, <1>4, <1>7, <1>8, <1>9

LEMMA SubOverflows ==
  ASSUME NEW a \in Word, NEW b \in Word
  PROVE  /\ ~ (SignBit(a) <=> SignBit(b))
         /\ ~ (SignBit(a) <=> SignBit(Wrap(a - b)))
         <=>
         \/ Signed(a) - Signed(b) < -(W \div 2)
         \/ Signed(a) - Signed(b) >= W \div 2
<1>1. PICK h \in Nat \ {0} : W = 2 * h /\ W \div 2 = h
  BY HalfWord
<1>2. a \in 0..(2 * h - 1) /\ b \in 0..(2 * h - 1)
  BY <1>1 DEF Word
<1>3. PICK s : s = Wrap(a - b)
  OBVIOUS
<1>4. s = IF a - b < 0 THEN a - b + 2 * h ELSE a - b
  BY <1>1, <1>2, <1>3, WrapNear
<1>5. s \in 0..(2 * h - 1)
  BY <1>2, <1>4
<1>6. s \in Word
  BY <1>1, <1>5 DEF Word
<1>7. /\ SignBit(a) <=> a >= h
      /\ Signed(a) = IF a >= h THEN a - 2 * h ELSE a
  BY <1>1, SignedType
<1>8. /\ SignBit(b) <=> b >= h
      /\ Signed(b) = IF b >= h THEN b - 2 * h ELSE b
  BY <1>1, SignedType
<1>9. SignBit(s) <=> s >= h
  BY <1>1, <1>6, SignedType
<1>10. QED
  BY <1>1, <1>2, <1>3, <1>4, <1>7, <1>8, <1>9

(* An immediate is the signed number of its word.                          *)
LEMMA SignedImmediate ==
  ASSUME NEW x \in -(W \div 2)..(W \div 2 - 1)
  PROVE  x \in Int /\ Wrap(x) \in Word /\ Signed(Wrap(x)) = x
<1>1. PICK h \in Nat \ {0} : W = 2 * h /\ W \div 2 = h
  BY HalfWord
<1>2. x \in Int /\ x >= -h /\ x < h
  BY <1>1
<1>3. PICK v : v = Wrap(x)
  OBVIOUS
<1>4. v = IF x < 0 THEN x + 2 * h ELSE x
  BY <1>1, <1>2, <1>3, WrapNear
<1>5. v \in Word
  BY <1>2, <1>3, WrapType
<1>6. Signed(v) = IF v >= h THEN v - 2 * h ELSE v
  BY <1>1, <1>5, SignedType
<1>7. QED
  BY <1>2, <1>3, <1>4, <1>5, <1>6

LEMMA TimesSquare ==
  ASSUME NEW q \in Int, NEW r \in Int, NEW v \in Int
  PROVE  (q * v + r) * v = q * (v * v) + r * v
OBVIOUS

LEMMA HalfType ==
  ASSUME NEW x \in Int
  PROVE  /\ Half(x) \in Word
         /\ Wrap(x * Values(2)) = Half(x) * Values(2)
<1>1. PICK v : v = Values(2)
  OBVIOUS
<1>2. v \in Nat \ {0}
  BY <1>1, ValuesType
<1>3. Values(2 + 2) = Values(2) * Values(2)
  BY ValuesSum
<1>4. W = v * v
  BY <1>1, <1>3 DEF W
<1>5. PICK r \in Int : r = x % v
  BY <1>2
<1>6. PICK q \in Int : q = x \div v
  BY <1>2
<1>7. x = q * v + r /\ r \in 0..(v - 1)
  BY <1>2, <1>5, <1>6
<1>8. r * v \in Nat /\ r * v =< (v - 1) * v /\ (v - 1) * v = v * v - v
  BY <1>2, <1>7
<1>9. v =< v * v /\ v * v \in Nat
  BY <1>2
<1>10. r \in Word
  BY <1>2, <1>4, <1>7, <1>9 DEF Word
<1>11. PICK p \in Int : p = r * v
  BY <1>8
<1>12. p \in Word
  BY <1>2, <1>4, <1>8, <1>9, <1>11 DEF Word
<1>13. x * v \in Int /\ x * v = q * W + p
  <2>1. (q * v + r) * v = q * (v * v) + r * v
    BY <1>2, TimesSquare
  <2>2. x * v \in Int
    BY <1>2
  <2>3. QED
    BY <1>4, <1>7, <1>11, <2>1, <2>2
<1>14. Wrap(x * v) = p
  BY <1>12, <1>13, WrapIs
<1>15. QED
  BY <1>1, <1>5, <1>10, <1>11, <1>14 DEF Half

-----------------------------------------------------------------------------
(* Induction, and functions defined by recursion, over 0..n.               *)

LEMMA Induction ==
  ASSUME NEW n \in Nat, NEW S, 0 \in S,
         \A i \in 0..(n - 1) : i \in S => i + 1 \in S
  PROVE  \A i \in 0..n : i \in S
<1> SUFFICES ASSUME NEW k \in 0..n, k \notin S PROVE FALSE
  OBVIOUS
<1> DEFINE R == {p \in Nat \X Nat : p[1] < p[2]}
           T == {i \in 0..n : i \notin S}
<1>1. IsWellFoundedOn(R, Nat)
  BY NatLessThanWellFounded DEF OpToRel
<1>2. \A y, x \in Nat : <<y, x>> \in R <=> y < x
  OBVIOUS
<1>3. T \in SUBSET Nat /\ k \in T
  OBVIOUS
<1> HIDE DEF R
<1>4. PICK x \in T : \A y \in T : ~ (<<y, x>> \in R)
  BY <1>1, <1>3, WFMin
<1>5. x \in 0..n /\ x \notin S /\ x # 0
  BY <1>4
<1>6. PICK y \in 0..(n - 1) : x = y + 1
  BY <1>5
<1>7. y \notin S
  BY <1>5, <1>6
<1>8. y \in T /\ y \in Nat /\ x \in Nat /\ y < x
  BY <1>5, <1>6, <1>7
<1>9. QED
  BY <1>2, <1>4, <1>8

(* f starts with first and goes on, from i to i + 1, by next[i].           *)
Steps(n, V) == [0..n -> [V -> V]]
Follows(f, n, V, first, next) ==
  /\ f \in [0..n -> V] /\ f[0] = first
  /\ \A i \in 1..n : f[i] = next[i - 1][f[i - 1]]

LEMMA Recursion ==
  ASSUME NEW n \in Nat, NEW V, NEW first \in V, NEW next \in Steps(n, V)
  PROVE  \E f : Follows(f, n, V, first, next)
<1> DEFINE Upto(k, f) ==
             f \in [0..k -> V] /\ f[0] = first
               /\ \A i \in 1..k : f[i] = next[i - 1][f[i - 1]]
           S == {k \in 0..n : \E f : Upto(k, f)}
<1>1. 0 \in S
  <2>1. PICK f : f = [i \in 0..0 |-> first]
    OBVIOUS
  <2>2. f \in [0..0 -> V] /\ f[0] = first
    BY <2>1
  <2>3. Upto(0, f)
    BY <2>2
  <2>4. QED
    BY <2>3
<1>2. ASSUME NEW k \in 0..(n - 1), k \in S PROVE k + 1 \in S
  <2>1. PICK f : Upto(k, f)
    BY <1>2
  <2>2. PICK v : v = next[k][f[k]]
    OBVIOUS
  <2>3. v \in V
    BY <2>1, <2>2 DEF Steps
  <2>4. PICK g : g = [i \in 0..(k + 1) |-> IF i = k + 1 THEN v ELSE f[i]]
    OBVIOUS
  <2>5. g \in [0..(k + 1) -> V] /\ g[0] = first /\ g[k + 1] = v
    BY <2>1, <2>3, <2>4
  <2>6. \A i \in 0..k : g[i] = f[i]
    BY <2>4
  <2>7. ASSUME NEW i \in 1..(k + 1) PROVE g[i] = next[i - 1][g[i - 1]]
    <3>1. CASE i = k + 1
      BY <2>2, <2>5, <2>6, <3>1
    <3>2. CASE i # k + 1
      <4>1. i \in 1..k /\ i \in 0..k /\ i - 1 \in 0..k
        BY <3>2
      <4>2. f[i] = next[i - 1][f[i - 1]]
        BY <2>1, <4>1
      <4>3. QED
        BY <2>6, <4>1, <4>2
    <3>3. QED
      BY <3>1, <3>2
  <2>8. Upto(k + 1, g)
    BY <2>5, <2>7
  <2>9. k + 1 \in 0..n
    OBVIOUS
  <2>10. QED
    BY <2>8, <2>9
<1> HIDE DEF Upto, S
<1>3. \A i \in 0..n : i \in S
  BY <1>1, <1>2, Induction
<1>4. PICK f : Upto(n, f)
  BY <1>3 DEF S
<1>5. QED
  BY <1>4 DEF Upto, Follows

-----------------------------------------------------------------------------
(* Words made of bits.                                                     *)

LEMMA SumsAre ==
  ASSUME NEW S
  PROVE  Sums(S) = [n \in 0..WordBits |->
           IF n = 0 THEN 0
           ELSE Sums(S)[n - 1] + (IF n - 1 \in S THEN 2^(n - 1) ELSE 0)]
<1> DEFINE bit(n) == IF n \in S THEN 2^n ELSE 0
           next == [n \in 0..WordBits |-> [v \in Int |-> v + bit(n)]]
<1>1. WordBits \in Nat
  BY WordsAssumption DEF WordBits
<1>2. \A n \in 0..WordBits : bit(n) \in Int
  BY PowerOf
<1>3. \A n \in 0..WordBits, v \in Int : next[n][v] = v + bit(n)
  OBVIOUS
<1>4. next \in [0..WordBits -> [Int -> Int]]
  BY <1>2
<1> HIDE DEF next
<1>5. PICK f : Follows(f, WordBits, Int, 0, next)
  <2>1. 0 \in Int /\ next \in Steps(WordBits, Int)
    BY <1>4 DEF Steps
  <2>2. QED
    BY <1>1, <2>1, Recursion
<1>6. ASSUME NEW i \in 1..WordBits PROVE f[i] = f[i - 1] + bit(i - 1)
  <2>1. i - 1 \in 0..WordBits /\ f[i - 1] \in Int
    BY <1>1, <1>5 DEF Follows
  <2>2. next[i - 1][f[i - 1]] = f[i - 1] + bit(i - 1)
    BY <1>3, <2>1
  <2>3. QED
    BY <1>5, <2>2 DEF Follows
<1>7. f = [n \in 0..WordBits |-> IF n = 0 THEN 0 ELSE f[n - 1] + bit(n - 1)]
  BY <1>1, <1>5, <1>6 DEF Follows
<1>8. QED
  BY <1>7 DEF Sums

LEMMA FromBitsType == ASSUME NEW S PROVE FromBits(S) \in Word
<1> DEFINE Small == {n \in 0..WordBits : Sums(S)[n] \in 0..(2^n - 1)}
<1>1. WordBits \in Nat
  BY WordsAssumption DEF WordBits
<1>2. 0 \in Small
  BY <1>1, SumsAre, WordsAssumption
<1>3. ASSUME NEW i \in 0..(WordBits - 1), i \in Small PROVE i + 1 \in Small
  <2>1. PICK p : p = 2^i
    OBVIOUS
  <2>2. p \in Nat /\ 2^(i + 1) = 2 * p
    BY <2>1, NextPower
  <2>3. PICK s : s = Sums(S)[i]
    OBVIOUS
  <2>4. s \in 0..(p - 1)
    BY <1>3, <2>1, <2>3
  <2>5. i + 1 \in 0..WordBits /\ i + 1 # 0 /\ (i + 1) - 1 = i
    BY <1>1
  <2>6. Sums(S)[i + 1] = s + (IF i \in S THEN p ELSE 0)
    <3>1. PICK f : f = Sums(S)
      OBVIOUS
    <3>2. f = [n \in 0..WordBits |->
                IF n = 0 THEN 0 ELSE f[n - 1] + (IF n - 1 \in S THEN 2^(n - 1) ELSE 0)]
      BY <3>1, SumsAre, Zenon
    <3>3. f[i + 1] = IF i + 1 = 0 THEN 0
                     ELSE f[(i + 1) - 1]
                            + (IF (i + 1) - 1 \in S THEN 2^((i + 1) - 1) ELSE 0)
      BY <2>5, <3>2
    <3>4. QED
      BY <2>1, <2>3, <2>5, <3>1, <3>3
  <2>7. QED
    BY <2>2, <2>4, <2>5, <2>6
<1> HIDE DEF Small
<1>4. WordBits \in Small
  BY <1>1, <1>2, <1>3, Induction
<1>5. ByteBits * 4 = WordBits
  BY WordsAssumption DEF WordBits
<1>6. QED
  BY <1>4, <1>5 DEF Small, FromBits, Word, W, Values

-----------------------------------------------------------------------------
(* Mult computes the product.                                              *)

(* hi and lo are the double word of x, of which there may be more.         *)
IsDouble(x, hi, lo) == \E k \in Int : x = k * (W * W) + hi * W + lo

LEMMA ShiftAlgebra ==
  ASSUME NEW w \in Int, NEW k \in Int, NEW hi \in Int, NEW lo \in Int,
         NEW c \in Int, NEW d \in Int, NEW u \in Int, NEW v \in Int,
         2 * lo = c * w + v, 2 * hi = d * w + u
  PROVE  2 * (k * (w * w) + hi * w + lo) = (2 * k + d) * (w * w) + (u + c) * w + v
<1>1. (2 * hi) * w = (d * w + u) * w
  OBVIOUS
<1>2. (2 * hi) * w = 2 * (hi * w)
  OBVIOUS
<1>3. (d * w + u) * w = d * (w * w) + u * w
  BY TimesSquare
<1>4. (u + c) * w = u * w + c * w
  OBVIOUS
<1>5. (2 * k + d) * (w * w) = 2 * (k * (w * w)) + d * (w * w)
  OBVIOUS
<1>6. QED
  BY <1>1, <1>2, <1>3, <1>4, <1>5

LEMMA DoubleShift ==
  ASSUME NEW x \in Int, NEW hi \in Word, NEW lo \in Word, IsDouble(x, hi, lo)
  PROVE  /\ Wrap(2 * hi) + Truth(SignBit(lo)) \in Word /\ Wrap(2 * lo) \in Word
         /\ IsDouble(2 * x, Wrap(2 * hi) + Truth(SignBit(lo)), Wrap(2 * lo))
<1>1. PICK h \in Nat \ {0} : W = 2 * h /\ W \div 2 = h
  BY HalfWord
<1>2. PICK w \in Nat : w = W
  BY WordSize
<1>3. hi \in 0..(w - 1) /\ lo \in 0..(w - 1)
  BY <1>2 DEF Word
<1>4. PICK c \in {0, 1} : c = Truth(SignBit(lo))
  BY DEF Truth
<1>5. PICK v \in Int : v = IF lo >= h THEN 2 * lo - w ELSE 2 * lo
  BY <1>3
<1>6. Wrap(2 * lo) = v /\ 2 * lo = c * w + v
  <2>1. SignBit(lo) <=> lo >= h
    BY <1>1, SignedType
  <2>2. Wrap(2 * lo) = v
    BY <1>1, <1>2, <1>3, <1>5, WrapNear
  <2>3. QED
    BY <1>1, <1>2, <1>3, <1>4, <1>5, <2>1, <2>2 DEF Truth
<1>7. PICK d \in {0, 1} : d = IF hi >= h THEN 1 ELSE 0
  OBVIOUS
<1>8. PICK u \in Int : u = IF hi >= h THEN 2 * hi - w ELSE 2 * hi
  BY <1>3
<1>9. Wrap(2 * hi) = u /\ 2 * hi = d * w + u
  <2>1. Wrap(2 * hi) = u
    BY <1>1, <1>2, <1>3, <1>8, WrapNear
  <2>2. QED
    BY <1>1, <1>2, <1>3, <1>7, <1>8, <2>1
<1>10. u + c \in Word /\ v \in Word
  BY <1>1, <1>2, <1>3, <1>5, <1>8 DEF Word
<1>11. PICK k \in Int : x = k * (w * w) + hi * w + lo
  BY <1>2 DEF IsDouble
<1>12. 2 * x = (2 * k + d) * (w * w) + (u + c) * w + v
  BY <1>2, <1>3, <1>6, <1>9, <1>11, ShiftAlgebra
<1>13. PICK m \in Int : m = 2 * k + d
  OBVIOUS
<1>14. 2 * x = m * (W * W) + (u + c) * W + v
  BY <1>2, <1>12, <1>13
<1>15. IsDouble(2 * x, u + c, v)
  BY <1>14 DEF IsDouble
<1>16. QED
  BY <1>4, <1>6, <1>9, <1>10, <1>15

LEMMA AddAlgebra ==
  ASSUME NEW w \in Int, NEW k \in Int, NEW h1 \in Int, NEW l1 \in Int,
         NEW m \in Int, NEW h2 \in Int, NEW l2 \in Int,
         NEW c \in Int, NEW d \in Int, NEW u \in Int, NEW v \in Int,
         l1 + l2 = c * w + v, h1 + c + h2 = d * w + u
  PROVE  (k * (w * w) + h1 * w + l1) + (m * (w * w) + h2 * w + l2)
           = (k + m + d) * (w * w) + u * w + v
<1>1. (h1 + c + h2) * w = (d * w + u) * w
  OBVIOUS
<1>2. (h1 + c + h2) * w = h1 * w + c * w + h2 * w
  OBVIOUS
<1>3. (d * w + u) * w = d * (w * w) + u * w
  BY TimesSquare
<1>4. (k + m + d) * (w * w) = k * (w * w) + m * (w * w) + d * (w * w)
  OBVIOUS
<1>5. QED
  BY <1>1, <1>2, <1>3, <1>4

(* The sum of the low words is less than one of them if it carries.        *)
LEMMA DoubleAdd ==
  ASSUME NEW x \in Int, NEW h1 \in Word, NEW l1 \in Word, IsDouble(x, h1, l1),
         NEW y \in Int, NEW h2 \in Word, NEW l2 \in Word, IsDouble(y, h2, l2)
  PROVE  /\ Wrap(l1 + l2) \in Word
         /\ Wrap(h1 + Truth(Wrap(l1 + l2) < l2) + h2) \in Word
         /\ IsDouble(x + y, Wrap(h1 + Truth(Wrap(l1 + l2) < l2) + h2), Wrap(l1 + l2))
<1>1. PICK w \in Nat \ {0} : w = W
  BY WordSize
<1>2. /\ h1 \in 0..(w - 1) /\ l1 \in 0..(w - 1)
      /\ h2 \in 0..(w - 1) /\ l2 \in 0..(w - 1)
  BY <1>1 DEF Word
<1>3. PICK v : v = IF l1 + l2 >= w THEN l1 + l2 - w ELSE l1 + l2
  OBVIOUS
<1>4. Wrap(l1 + l2) = v /\ v \in Word
  <2>1. Wrap(l1 + l2) = v
    BY <1>1, <1>2, <1>3, WrapNear
  <2>2. v \in 0..(w - 1)
    BY <1>2, <1>3
  <2>3. QED
    BY <1>1, <2>1, <2>2 DEF Word
<1>5. PICK c \in {0, 1} : c = Truth(v < l2)
  BY DEF Truth
<1>6. l1 + l2 = c * w + v
  BY <1>2, <1>3, <1>5 DEF Truth
<1>7. PICK u : u = Wrap(h1 + c + h2)
  OBVIOUS
<1>8. u \in Word /\ \E d \in Int : h1 + c + h2 = d * w + u
  BY <1>1, <1>2, <1>7, WrapType
<1>9. PICK d \in Int : h1 + c + h2 = d * w + u
  BY <1>8
<1>10. u \in Int
  BY <1>1, <1>8 DEF Word
<1>11. PICK k \in Int : x = k * (w * w) + h1 * w + l1
  BY <1>1 DEF IsDouble
<1>12. PICK m \in Int : y = m * (w * w) + h2 * w + l2
  BY <1>1 DEF IsDouble
<1>13. x + y = (k + m + d) * (w * w) + u * w + v
  BY <1>1, <1>2, <1>4, <1>6, <1>9, <1>10, <1>11, <1>12, AddAlgebra
<1>14. PICK n \in Int : n = k + m + d
  OBVIOUS
<1>15. x + y = n * (W * W) + u * W + v
  BY <1>1, <1>13, <1>14
<1>16. IsDouble(x + y, u, v)
  BY <1>15 DEF IsDouble
<1>17. QED
  BY <1>4, <1>5, <1>7, <1>8, <1>16

LEMMA DoubleNegate ==
  ASSUME NEW x \in Int, NEW hi \in Word, NEW lo \in Word, IsDouble(x, hi, lo)
  PROVE  LET low == Wrap(Not(lo) + 1)
             high == Wrap(Not(hi) + Truth(low = 0))
         IN low \in Word /\ high \in Word /\ IsDouble(-x, high, low)
<1>1. PICK w \in Nat \ {0} : w = W
  BY WordSize
<1>2. hi \in 0..(w - 1) /\ lo \in 0..(w - 1)
  BY <1>1 DEF Word
<1>3. Not(lo) = w - 1 - lo /\ Not(hi) = w - 1 - hi
  BY <1>1 DEF Not
<1>4. PICK v : v = Wrap(Not(lo) + 1)
  OBVIOUS
<1>5. v = IF lo = 0 THEN 0 ELSE w - lo
  BY <1>1, <1>2, <1>3, <1>4, WrapNear
<1>6. v \in Int /\ v \in Word
  BY <1>1, <1>2, <1>5 DEF Word
<1>7. PICK c \in {0, 1} : c = Truth(v = 0)
  BY DEF Truth
<1>8. c = IF lo = 0 THEN 1 ELSE 0
  BY <1>2, <1>5, <1>7 DEF Truth
<1>9. PICK u : u = Wrap(Not(hi) + c)
  OBVIOUS
<1>10. u \in Word /\ \E d \in Int : Not(hi) + c = d * w + u
  <2>1. PICK n \in Int : n = Not(hi) + c
    BY <1>2, <1>3
  <2>2. QED
    BY <1>1, <1>9, <2>1, WrapType
<1>11. PICK d \in Int : w - 1 - hi + c = d * w + u
  BY <1>3, <1>10
<1>12. u \in Int
  BY <1>1, <1>10 DEF Word
<1>13. PICK k \in Int : x = k * (w * w) + hi * w + lo
  BY <1>1 DEF IsDouble
<1>14. -x = (d - 1 - k) * (w * w) + u * w + v
  <2>1. (w - 1 - hi + c) * w = (d * w + u) * w
    BY <1>11
  <2>2. (w - 1 - hi + c) * w = w * w - w - hi * w + c * w
    BY <1>2
  <2>3. (d * w + u) * w = d * (w * w) + u * w
    BY <1>12, TimesSquare
  <2>4. (d - 1 - k) * (w * w) = d * (w * w) - w * w - k * (w * w)
    OBVIOUS
  <2>5. c * w - w = -lo - v
    BY <1>2, <1>5, <1>8
  <2>6. QED
    BY <1>2, <1>6, <1>12, <1>13, <2>1, <2>2, <2>3, <2>4, <2>5
<1>15. PICK n \in Int : n = d - 1 - k
  OBVIOUS
<1>16. -x = n * (W * W) + u * W + v
  BY <1>1, <1>14, <1>15
<1>17. IsDouble(-x, u, v)
  BY <1>16 DEF IsDouble
<1>18. QED
  BY <1>4, <1>6, <1>7, <1>9, <1>10, <1>17

(* The double word of a number is its low word and the next one.           *)
LEMMA DoubleIs ==
  ASSUME NEW x \in Int, NEW hi \in Word, NEW lo \in Word, IsDouble(x, hi, lo)
  PROVE  lo = Wrap(x) /\ hi = Wrap(x \div W)
<1>1. PICK w \in Nat \ {0} : w = W
  BY WordSize
<1>2. hi \in 0..(w - 1) /\ lo \in 0..(w - 1)
  BY <1>1 DEF Word
<1>3. PICK k \in Int : x = k * (w * w) + hi * w + lo
  BY <1>1 DEF IsDouble
<1>4. (k * w + hi) * w = k * (w * w) + hi * w
  BY <1>2, TimesSquare
<1>5. PICK q \in Int : q = k * w + hi
  BY <1>2
<1>6. x = q * w + lo
  BY <1>3, <1>4, <1>5
<1>7. PICK d \in Int : d = x \div w
  BY <1>1
<1>8. PICK r \in Int : r = x % w
  BY <1>1
<1>9. x = d * w + r /\ r \in 0..(w - 1)
  BY <1>7, <1>8
<1>10. d = q /\ r = lo
  BY <1>2, <1>6, <1>9, SameRest
<1>11. Wrap(q) = hi
  BY <1>1, <1>5, WrapIs
<1>12. QED
  BY <1>1, <1>7, <1>8, <1>10, <1>11 DEF Wrap

LoopStates == [a : Word, bLo : Word, bHi : Word, lo : Word, hi : Word]

(* What the first turns of the loop have done for x and b: the bits of x   *)
(* below p are used up, what is left of it is in a, and b is p times what  *)
(* it was.                                                                 *)
Loop(s, p, x, b) ==
  /\ s \in LoopStates
  /\ \E done \in 0..(p - 1) :
       x = p * Signed(s.a) + done /\ IsDouble(done * b, s.hi, s.lo)
  /\ IsDouble(p * b, s.bHi, s.bLo)

(* The shift of a word by one halves its signed number.                    *)
LEMMA SraOne ==
  ASSUME NEW a \in Word
  PROVE  /\ Sra(a, 1) \in Word
         /\ Signed(a) = 2 * Signed(Sra(a, 1)) + (a % 2)
         /\ a % 2 \in {0, 1}
<1>1. PICK h \in Nat \ {0} : W = 2 * h /\ W \div 2 = h
  BY HalfWord
<1>2. a \in 0..(2 * h - 1)
  BY <1>1 DEF Word
<1>3. PICK q \in Int : q = a \div 2
  BY <1>2
<1>4. PICK r \in {0, 1} : r = a % 2
  BY <1>2
<1>5. a = 2 * q + r
  BY <1>2, <1>3, <1>4
<1>6. PICK z \in Int : z = Signed(a)
  BY <1>1, SignedType
<1>7. z \in (-h)..(h - 1) /\ z = IF a >= h THEN a - 2 * h ELSE a
  BY <1>1, <1>6, SignedType
<1>8. PICK y \in Int : y = z \div 2
  BY <1>6
<1>9. z = 2 * y + r
  BY <1>2, <1>3, <1>4, <1>5, <1>7, <1>8
<1>10. y \in (-h)..(h - 1)
  BY <1>7, <1>9
<1>11. y \in -(W \div 2)..(W \div 2 - 1)
  BY <1>1, <1>10
<1>12. Wrap(y) \in Word /\ Signed(Wrap(y)) = y
  BY <1>11, SignedImmediate
<1>13. Sra(a, 1) = Wrap(y)
  BY <1>6, <1>8, WordsAssumption DEF Sra
<1>14. QED
  BY <1>4, <1>6, <1>9, <1>12, <1>13

LEMMA TurnStep ==
  ASSUME NEW s, NEW p \in Nat \ {0}, NEW x \in Int, NEW b \in Word,
         Loop(s, p, x, b)
  PROVE  Loop(Turn(s), 2 * p, x, b)
<1>1. /\ s \in LoopStates /\ s.a \in Word /\ s.bLo \in Word /\ s.bHi \in Word
      /\ s.lo \in Word /\ s.hi \in Word
  BY DEF Loop, LoopStates
<1>2. b \in Int
  BY WordSize DEF Word
<1>3. PICK done \in 0..(p - 1) :
        x = p * Signed(s.a) + done /\ IsDouble(done * b, s.hi, s.lo)
  BY DEF Loop
<1>4. PICK y : y = p * b
  OBVIOUS
<1>5. y \in Int /\ IsDouble(y, s.bHi, s.bLo)
  BY <1>2, <1>4 DEF Loop
<1>6. PICK t : t = Turn(s)
  OBVIOUS
<1>7. /\ t.a = Sra(s.a, 1) /\ t.bLo = Wrap(2 * s.bLo)
      /\ t.bHi = Wrap(2 * s.bHi) + Truth(SignBit(s.bLo))
      /\ t = [a |-> t.a, bLo |-> t.bLo, bHi |-> t.bHi, lo |-> t.lo, hi |-> t.hi]
  BY <1>6 DEF Turn
<1>8. t.bHi \in Word /\ t.bLo \in Word /\ IsDouble(2 * y, t.bHi, t.bLo)
  BY <1>1, <1>5, <1>7, DoubleShift
<1>9. (2 * p) * b = 2 * y
  BY <1>2, <1>4
<1>10. PICK z : z = Signed(t.a)
  OBVIOUS
<1>11. PICK bit \in {0, 1} : bit = s.a % 2
  BY <1>1, SraOne
<1>12. t.a \in Word /\ Signed(s.a) = 2 * z + bit
  BY <1>1, <1>7, <1>10, <1>11, SraOne
<1>13. z \in Int
  BY <1>10, <1>12, HalfWord, SignedType
<1>14. PICK d : d = done + p * bit
  OBVIOUS
<1>15. d \in 0..(2 * p - 1)
  <2>1. CASE bit = 0
    BY <1>3, <1>14, <2>1
  <2>2. CASE bit = 1
    BY <1>3, <1>14, <2>2
  <2>3. QED
    BY <2>1, <2>2
<1>16. x = (2 * p) * z + d
  <2>1. p * (2 * z + bit) = (2 * p) * z + p * bit
    BY <1>13
  <2>2. QED
    BY <1>3, <1>12, <1>13, <1>14, <2>1
<1>17. t.lo \in Word /\ t.hi \in Word /\ IsDouble(d * b, t.hi, t.lo)
  <2>1. CASE bit = 0
    <3>1. t.lo = s.lo /\ t.hi = s.hi
      BY <1>6, <1>11, <2>1 DEF Turn
    <3>2. d = done
      BY <1>3, <1>14, <2>1
    <3>3. QED
      BY <1>1, <1>3, <3>1, <3>2
  <2>2. CASE bit = 1
    <3>1. /\ t.lo = Wrap(s.lo + s.bLo)
          /\ t.hi = Wrap(s.hi + Truth(Wrap(s.lo + s.bLo) < s.bLo) + s.bHi)
      BY <1>6, <1>11, <2>2 DEF Turn
    <3>2. PICK v : v = done * b
      OBVIOUS
    <3>3. v \in Int /\ IsDouble(v, s.hi, s.lo)
      BY <1>2, <1>3, <3>2
    <3>4. t.lo \in Word /\ t.hi \in Word /\ IsDouble(v + y, t.hi, t.lo)
      BY <1>1, <1>5, <3>1, <3>3, DoubleAdd
    <3>5. d * b = v + y
      BY <1>2, <1>3, <1>4, <1>14, <2>2, <3>2
    <3>6. QED
      BY <3>4, <3>5
  <2>3. QED
    BY <2>1, <2>2
<1>18. t \in LoopStates
  BY <1>7, <1>8, <1>12, <1>17 DEF LoopStates
<1>19. QED
  BY <1>6, <1>8, <1>9, <1>10, <1>15, <1>16, <1>17, <1>18 DEF Loop

LoopStart(a, b) == [a |-> a, bLo |-> b, bHi |-> 0, lo |-> 0, hi |-> 0]

LEMMA LoopStarts ==
  ASSUME NEW a \in Word, NEW b \in Word
  PROVE  Loop(LoopStart(a, b), 1, Signed(a), b)
<1>1. PICK s : s = LoopStart(a, b)
  OBVIOUS
<1>2. s.a = a /\ s.bLo = b /\ s.bHi = 0 /\ s.lo = 0 /\ s.hi = 0 /\ s \in LoopStates
  BY <1>1, WordSize DEF LoopStart, LoopStates
<1>3. PICK w \in Int : w = W
  BY WordSize
<1>4. b \in Int /\ Signed(a) \in Int
  BY <1>3, HalfWord, SignedType DEF Word
<1>5. \A x \in Int : x = 0 * (w * w) + 0 * w + x
  BY <1>3
<1>6. 0 * b = 0 /\ 1 * b = b /\ Signed(a) = 1 * Signed(a) + 0
  BY <1>4
<1>7. IsDouble(0, 0, 0) /\ IsDouble(b, 0, b)
  BY <1>3, <1>4, <1>5 DEF IsDouble
<1>8. 0 \in 0..(1 - 1)
  OBVIOUS
<1>9. QED
  BY <1>1, <1>2, <1>6, <1>7, <1>8 DEF Loop

(* Any step keeps the type, wherever it starts.                            *)
LEMMA TurnType == ASSUME NEW s \in LoopStates PROVE Turn(s) \in LoopStates
<1>1. /\ s.a \in Word /\ s.bLo \in Word /\ s.bHi \in Word
      /\ s.lo \in Word /\ s.hi \in Word
  BY DEF LoopStates
<1>2. PICK x \in Int : IsDouble(x, s.bHi, s.bLo)
  <2>1. PICK w \in Int : w = W
    BY WordSize
  <2>2. s.bHi \in Int /\ s.bLo \in Int
    BY <1>1, <2>1 DEF Word
  <2>3. PICK x : x = 0 * (w * w) + s.bHi * w + s.bLo
    OBVIOUS
  <2>4. x \in Int
    BY <2>1, <2>2, <2>3
  <2>5. x = 0 * (W * W) + s.bHi * W + s.bLo
    BY <2>1, <2>3
  <2>6. IsDouble(x, s.bHi, s.bLo)
    BY <2>5 DEF IsDouble
  <2>7. QED
    BY <2>4, <2>6
<1>3. Wrap(2 * s.bHi) + Truth(SignBit(s.bLo)) \in Word /\ Wrap(2 * s.bLo) \in Word
  BY <1>1, <1>2, DoubleShift
<1>4. /\ Wrap(s.lo + s.bLo) \in Word
      /\ Wrap(s.hi + Truth(Wrap(s.lo + s.bLo) < s.bLo) + s.bHi) \in Word
  <2>1. s.lo + s.bLo \in Int
    BY <1>1, WordSize DEF Word
  <2>2. s.hi + Truth(Wrap(s.lo + s.bLo) < s.bLo) + s.bHi \in Int
    BY <1>1, WordSize DEF Word, Truth
  <2>3. QED
    BY <2>1, <2>2, WrapType
<1>5. Sra(s.a, 1) \in Word
  BY <1>1, SraOne
<1>6. QED
  BY <1>1, <1>3, <1>4, <1>5 DEF Turn, LoopStates

LEMMA TurnsAre ==
  ASSUME NEW a \in Word, NEW b \in Word
  PROVE  Turns(a, b) = [i \in 0..WordBits |->
           IF i = 0 THEN LoopStart(a, b) ELSE Turn(Turns(a, b)[i - 1])]
<1> DEFINE next == [i \in 0..WordBits |-> [s \in LoopStates |-> Turn(s)]]
<1>1. WordBits \in Nat
  BY WordsAssumption DEF WordBits
<1>2. \A i \in 0..WordBits, s \in LoopStates : next[i][s] = Turn(s)
  OBVIOUS
<1>3. next \in Steps(WordBits, LoopStates)
  BY TurnType DEF Steps
<1>4. LoopStart(a, b) \in LoopStates
  BY WordSize DEF LoopStart, LoopStates
<1> HIDE DEF next
<1>5. PICK first : first = LoopStart(a, b)
  OBVIOUS
<1>6. PICK f : Follows(f, WordBits, LoopStates, first, next)
  BY <1>1, <1>3, <1>4, <1>5, Recursion
<1>7. ASSUME NEW i \in 1..WordBits PROVE f[i] = Turn(f[i - 1])
  <2>1. i - 1 \in 0..WordBits
    BY <1>1
  <2>2. f[i - 1] \in LoopStates
    BY <1>6, <2>1 DEF Follows
  <2>3. next[i - 1][f[i - 1]] = Turn(f[i - 1])
    BY <1>2, <2>1, <2>2
  <2>4. QED
    BY <1>6, <2>3 DEF Follows
<1>8. f = [i \in 0..WordBits |-> IF i = 0 THEN first ELSE Turn(f[i - 1])]
  BY <1>1, <1>6, <1>7 DEF Follows
<1>9. QED
  BY <1>5, <1>8 DEF Turns, LoopStart

(* At its end the loop has the product of the two words.                   *)
LEMMA TurnsMultiply ==
  ASSUME NEW a \in Word, NEW b \in Word
  PROVE  LET p == Turns(a, b)[WordBits]
         IN p.hi \in Word /\ p.lo \in Word /\ IsDouble(a * b, p.hi, p.lo)
<1> DEFINE Good == {i \in 0..WordBits : Loop(Turns(a, b)[i], 2^i, Signed(a), b)}
<1>1. WordBits \in Nat
  BY WordsAssumption DEF WordBits
<1>2. Signed(a) \in Int
  BY HalfWord, SignedType
<1>3. PICK f : f = Turns(a, b)
  OBVIOUS
<1>4. f = [i \in 0..WordBits |-> IF i = 0 THEN LoopStart(a, b) ELSE Turn(f[i - 1])]
  BY <1>3, TurnsAre, Zenon
<1>5. 0 \in Good
  BY <1>1, <1>3, <1>4, LoopStarts, WordsAssumption
<1>6. ASSUME NEW i \in 0..(WordBits - 1), i \in Good PROVE i + 1 \in Good
  <2>1. PICK p : p = 2^i
    OBVIOUS
  <2>2. p \in Nat \ {0} /\ 2^(i + 1) = 2 * p
    BY <2>1, NextPower
  <2>3. i + 1 \in 0..WordBits /\ i + 1 # 0 /\ (i + 1) - 1 = i
    BY <1>1
  <2>4. f[i + 1] = IF i + 1 = 0 THEN LoopStart(a, b) ELSE Turn(f[(i + 1) - 1])
    BY <1>4, <2>3
  <2>5. f[i + 1] = Turn(f[i])
    BY <2>3, <2>4
  <2>6. Loop(f[i], p, Signed(a), b)
    BY <1>3, <1>6, <2>1
  <2>7. Loop(Turn(f[i]), 2 * p, Signed(a), b)
    BY <1>2, <2>2, <2>6, TurnStep
  <2>8. QED
    BY <1>3, <2>2, <2>3, <2>5, <2>7
<1> HIDE DEF Good
<1>7. WordBits \in Good
  BY <1>1, <1>5, <1>6, Induction
<1>8. PICK s : s = f[WordBits]
  OBVIOUS
<1>9. 2^WordBits = W
  <2>1. ByteBits * 4 = WordBits
    BY WordsAssumption DEF WordBits
  <2>2. QED
    BY <2>1 DEF W, Values
<1>10. Loop(s, W, Signed(a), b)
  BY <1>3, <1>7, <1>8, <1>9 DEF Good
<1>11. PICK w \in Nat \ {0} : w = W
  BY WordSize
<1>12. s.hi \in Word /\ s.lo \in Word /\ s.a \in Word
  BY <1>10 DEF Loop, LoopStates
<1>13. PICK done \in 0..(w - 1) :
         Signed(a) = w * Signed(s.a) + done /\ IsDouble(done * b, s.hi, s.lo)
  BY <1>10, <1>11 DEF Loop
<1>14. PICK h \in Nat \ {0} : W = 2 * h /\ W \div 2 = h
  BY HalfWord
<1>15. PICK k \in {0, 1} : Signed(a) = a - k * w
  BY <1>11, <1>14, SignedType DEF Word
<1>16. PICK z \in Int : z = Signed(s.a)
  BY <1>12, <1>14, SignedType
<1>17. a \in 0..(w - 1)
  BY <1>11 DEF Word
<1>18. (z + k) * w + done = 0 * w + a
  <2>1. (z + k) * w = w * z + k * w
    BY <1>16
  <2>2. w * z + done = a - k * w
    BY <1>13, <1>15, <1>16
  <2>3. PICK m \in Int : m = w * z
    BY <1>16
  <2>4. PICK n \in Int : n = k * w
    OBVIOUS
  <2>5. 0 * w = 0
    OBVIOUS
  <2>6. (z + k) * w + done = a
    BY <1>17, <2>1, <2>2, <2>3, <2>4
  <2>7. QED
    BY <1>17, <2>5, <2>6
<1>19. PICK q \in Int : q = z + k
  BY <1>16
<1>20. done = a
  BY <1>17, <1>18, <1>19, SameRest
<1>21. QED
  BY <1>3, <1>8, <1>12, <1>13, <1>20

LEMMA PositiveIs ==
  ASSUME NEW a \in Word
  PROVE  /\ Positive(a, FALSE) = a
         /\ Positive(a, TRUE) \in Word
         /\ Positive(a, TRUE) = IF Signed(a) < 0 THEN -Signed(a) ELSE Signed(a)
<1>1. PICK h \in Nat \ {0} : W = 2 * h /\ W \div 2 = h
  BY HalfWord
<1>2. a \in 0..(2 * h - 1)
  BY <1>1 DEF Word
<1>3. PICK z \in Int : z = Signed(a)
  BY <1>1, SignedType
<1>4. z = IF a >= h THEN a - 2 * h ELSE a
  BY <1>1, <1>3, SignedType
<1>5. CASE z < 0
  <2>1. Wrap(-a) = -z
    BY <1>1, <1>2, <1>4, <1>5, WrapNear
  <2>2. -z \in Word
    BY <1>1, <1>2, <1>4, <1>5 DEF Word
  <2>3. QED
    BY <1>3, <1>5, <2>1, <2>2 DEF Positive
<1>6. CASE ~ (z < 0)
  BY <1>2, <1>3, <1>4, <1>6 DEF Positive
<1>7. QED
  BY <1>5, <1>6

(* MULTU gives the double word of the product, for words of any size: Mult *)
(* in mipssim.cc, without signs.                                           *)
THEOREM MultUnsigned ==
  ASSUME NEW a \in Word, NEW b \in Word
  PROVE  /\ Mult(a, b, FALSE).hi \in Word /\ Mult(a, b, FALSE).lo \in Word
         /\ Mult(a, b, FALSE).lo = Wrap(a * b)
         /\ Mult(a, b, FALSE).hi = Wrap((a * b) \div W)
<1>1. a \in Int /\ b \in Int
  BY WordSize DEF Word
<1>2. PICK x \in Int : x = a * b
  BY <1>1
<1>3. PICK m : m = Mult(a, b, FALSE)
  OBVIOUS
<1>4. m.hi \in Word /\ m.lo \in Word /\ IsDouble(x, m.hi, m.lo)
  <2>1. CASE a = 0 \/ b = 0
    <3>1. m.hi = 0 /\ m.lo = 0 /\ x = 0
      <4>1. m = [hi |-> 0, lo |-> 0]
        BY <1>3, <2>1 DEF Mult
      <4>2. \A n \in Int : 0 * n = 0 /\ n * 0 = 0
        OBVIOUS
      <4>3. x = 0
        BY <1>1, <1>2, <2>1, <4>2
      <4>4. QED
        BY <4>1, <4>3
    <3>2. PICK w \in Int : w = W
      BY WordSize
    <3>3. 0 = 0 * (w * w) + 0 * w + 0
      BY <3>2
    <3>4. IsDouble(0, 0, 0)
      BY <3>2, <3>3 DEF IsDouble
    <3>5. QED
      BY <3>1, <3>4, WordSize
  <2>2. CASE a # 0 /\ b # 0
    <3>1. m = [hi |-> Turns(a, b)[WordBits].hi, lo |-> Turns(a, b)[WordBits].lo]
      BY <1>3, <2>2, PositiveIs DEF Mult
    <3>2. m.hi = Turns(a, b)[WordBits].hi /\ m.lo = Turns(a, b)[WordBits].lo
      BY <3>1
    <3>3. QED
      BY <1>2, <3>2, TurnsMultiply
  <2>3. QED
    BY <2>1, <2>2
<1>5. QED
  BY <1>2, <1>3, <1>4, DoubleIs

(* MULT gives that of the signed product: Mult works on the numbers without *)
(* their signs, and negates a double word by hand.                          *)
THEOREM MultSigned ==
  ASSUME NEW a \in Word, NEW b \in Word
  PROVE  /\ Mult(a, b, TRUE).hi \in Word /\ Mult(a, b, TRUE).lo \in Word
         /\ Mult(a, b, TRUE).lo = Wrap(Signed(a) * Signed(b))
         /\ Mult(a, b, TRUE).hi = Wrap((Signed(a) * Signed(b)) \div W)
<1>1. PICK h \in Nat \ {0} : W = 2 * h /\ W \div 2 = h
  BY HalfWord
<1>2. PICK y \in Int : y = Signed(a)
  BY <1>1, SignedType
<1>3. PICK z \in Int : z = Signed(b)
  BY <1>1, SignedType
<1>4. PICK x \in Int : x = y * z
  OBVIOUS
<1>5. PICK m : m = Mult(a, b, TRUE)
  OBVIOUS
<1>6. m.hi \in Word /\ m.lo \in Word /\ IsDouble(x, m.hi, m.lo)
  <2>1. CASE a = 0 \/ b = 0
    <3>1. y = 0 \/ z = 0
      BY <1>1, <1>2, <1>3, <2>1, SignedType
    <3>2. m.hi = 0 /\ m.lo = 0 /\ x = 0
      <4>1. m = [hi |-> 0, lo |-> 0]
        BY <1>5, <2>1 DEF Mult
      <4>2. \A n \in Int : 0 * n = 0 /\ n * 0 = 0
        OBVIOUS
      <4>3. x = 0
        BY <1>4, <3>1, <4>2
      <4>4. QED
        BY <4>1, <4>3
    <3>3. PICK w \in Int : w = W
      BY WordSize
    <3>4. 0 = 0 * (w * w) + 0 * w + 0
      BY <3>3
    <3>5. IsDouble(0, 0, 0)
      BY <3>3, <3>4 DEF IsDouble
    <3>6. QED
      BY <3>2, <3>5, WordSize
  <2>2. CASE a # 0 /\ b # 0
    <3>1. PICK pa : pa = Positive(a, TRUE)
      OBVIOUS
    <3>2. PICK pb : pb = Positive(b, TRUE)
      OBVIOUS
    <3>3. pa \in Word /\ pa = IF y < 0 THEN -y ELSE y
      BY <1>2, <3>1, PositiveIs
    <3>4. pb \in Word /\ pb = IF z < 0 THEN -z ELSE z
      BY <1>3, <3>2, PositiveIs
    <3>5. PICK p : p = Turns(pa, pb)[WordBits]
      OBVIOUS
    <3>6. p.hi \in Word /\ p.lo \in Word /\ IsDouble(pa * pb, p.hi, p.lo)
      BY <3>3, <3>4, <3>5, TurnsMultiply
    <3>7. PICK v \in Int : v = pa * pb
      BY <3>3, <3>4
    <3>8. CASE y < 0 <=> z < 0
      <4>1. m = [hi |-> p.hi, lo |-> p.lo]
        BY <1>2, <1>3, <1>5, <2>2, <3>1, <3>2, <3>5, <3>8 DEF Mult
      <4>2. v = x
        BY <1>4, <3>3, <3>4, <3>7, <3>8
      <4>3. QED
        BY <3>6, <3>7, <4>1, <4>2
    <3>9. CASE ~ (y < 0 <=> z < 0)
      <4>1. m.lo = Wrap(Not(p.lo) + 1) /\ m.hi = Wrap(Not(p.hi) + Truth(m.lo = 0))
        BY <1>2, <1>3, <1>5, <2>2, <3>1, <3>2, <3>5, <3>9 DEF Mult
      <4>2. -v = x
        BY <1>4, <3>3, <3>4, <3>7, <3>9
      <4>3. m.hi \in Word /\ m.lo \in Word /\ IsDouble(-v, m.hi, m.lo)
        BY <3>6, <3>7, <4>1, DoubleNegate
      <4>4. QED
        BY <4>2, <4>3
    <3>10. QED
      BY <3>8, <3>9
  <2>3. QED
    BY <2>1, <2>2
<1>7. QED
  BY <1>2, <1>3, <1>4, <1>5, <1>6, DoubleIs

-----------------------------------------------------------------------------
(* DIV and DIVU round towards zero, as the manual wants it.                *)

Magnitude(n) == IF n < 0 THEN -n ELSE n

(* q is the quotient: what is left is less than b and has the sign of a.   *)
Truncates(q, a, b) ==
  LET r == a - q * b
  IN /\ IF r < 0 THEN -r < (IF b < 0 THEN -b ELSE b) ELSE r < (IF b < 0 THEN -b ELSE b)
     /\ r # 0 => (r < 0 <=> a < 0)

LEMMA TooFar ==
  ASSUME NEW d \in Int, NEW b \in Int, d # 0
  PROVE  Magnitude(d * b) >= Magnitude(b)
<1>1. PICK n \in Nat : n = Magnitude(b)
  BY DEF Magnitude
<1>2. b = n \/ b = -n
  BY <1>1 DEF Magnitude
<1>3. CASE d > 0
  <2>1. PICK e \in Nat : d = 1 + e
    BY <1>3
  <2>2. d * n = n + e * n /\ e * n >= 0 /\ e * n \in Int
    BY <2>1
  <2>3. d * (-n) = -(d * n)
    OBVIOUS
  <2>4. QED
    BY <1>1, <1>2, <2>2, <2>3 DEF Magnitude
<1>4. CASE d < 0
  <2>1. PICK e \in Nat : d = -1 - e
    BY <1>4
  <2>2. d * n = -n - e * n /\ e * n >= 0 /\ e * n \in Int
    BY <2>1
  <2>3. d * (-n) = -(d * n)
    OBVIOUS
  <2>4. QED
    BY <1>1, <1>2, <2>2, <2>3 DEF Magnitude
<1>5. QED
  BY <1>3, <1>4

LEMMA OneQuotient ==
  ASSUME NEW a \in Int, NEW b \in Int, NEW q \in Int, NEW p \in Int,
         Truncates(q, a, b), Truncates(p, a, b)
  PROVE  p = q
<1>1. PICK r \in Int : r = a - q * b
  OBVIOUS
<1>2. PICK s \in Int : s = a - p * b
  OBVIOUS
<1>3. PICK n \in Nat : n = Magnitude(b)
  BY DEF Magnitude
<1>4. Magnitude(r) < n /\ (r # 0 => (r < 0 <=> a < 0))
  BY <1>1, <1>3 DEF Truncates, Magnitude
<1>5. Magnitude(s) < n /\ (s # 0 => (s < 0 <=> a < 0))
  BY <1>2, <1>3 DEF Truncates, Magnitude
<1>6. Magnitude(r - s) < n
  BY <1>3, <1>4, <1>5 DEF Magnitude
<1>7. (p - q) * b = r - s
  <2>1. (p - q) * b = p * b - q * b
    OBVIOUS
  <2>2. p * b \in Int /\ q * b \in Int
    OBVIOUS
  <2>3. QED
    BY <1>1, <1>2, <2>1, <2>2
<1>8. PICK d \in Int : d = p - q
  OBVIOUS
<1>9. d = 0
  <2>1. SUFFICES ASSUME d # 0 PROVE FALSE
    OBVIOUS
  <2>2. PICK e \in Int : e = d * b
    OBVIOUS
  <2>3. e = r - s
    BY <1>7, <1>8, <2>2
  <2>4. Magnitude(e) >= n
    BY <1>3, <2>1, <2>2, TooFar
  <2>5. PICK k \in Int : k = Magnitude(e)
    BY DEF Magnitude
  <2>6. QED
    BY <1>6, <2>3, <2>4, <2>5
<1>10. QED
  BY <1>8, <1>9

(* DIV and DIVU round towards zero, and what is left has the sign of the    *)
(* dividend.                                                                *)
THEOREM CDivTruncates ==
  ASSUME NEW a \in Int, NEW b \in Int, b # 0
  PROVE  CDiv(a, b) \in Int /\ Truncates(CDiv(a, b), a, b)
         /\ Magnitude(CDiv(a, b)) =< Magnitude(a)
<1>1. PICK m \in Nat : m = Magnitude(a)
  BY DEF Magnitude
<1>2. PICK n \in Nat \ {0} : n = Magnitude(b)
  BY DEF Magnitude
<1>3. PICK q \in Int : q = m \div n
  OBVIOUS
<1>4. PICK r \in Int : r = m % n
  OBVIOUS
<1>5. m = q * n + r /\ r \in 0..(n - 1)
  BY <1>3, <1>4
<1>6. q \in 0..m
  <2>1. q >= 0
    BY <1>3
  <2>2. q * n >= q
    <3>1. PICK k \in Nat : n = k + 1
      OBVIOUS
    <3>2. q * n = q * k + q /\ q * k >= 0 /\ q * k \in Int
      BY <2>1, <3>1
    <3>3. QED
      BY <3>2
  <2>3. q * n \in Int
    OBVIOUS
  <2>4. QED
    BY <1>5, <2>1, <2>2, <2>3
<1>7. PICK c \in Int : c = IF a < 0 <=> b < 0 THEN q ELSE -q
  OBVIOUS
<1>8. CDiv(a, b) = c
  BY <1>1, <1>2, <1>3, <1>7 DEF CDiv, Magnitude
<1>9. PICK s \in Int : s = a - c * b
  OBVIOUS
<1>10. s = IF a < 0 THEN -r ELSE r
  <2>1. PICK u \in Int : u = q * n
    OBVIOUS
  <2>2. (-q) * n = -u /\ q * (-n) = -u /\ (-q) * (-n) = u
    BY <2>1
  <2>3. c * b = IF a < 0 THEN -u ELSE u
    BY <1>2, <1>7, <2>1, <2>2 DEF Magnitude
  <2>4. QED
    BY <1>1, <1>5, <1>9, <2>1, <2>3 DEF Magnitude
<1>11. Truncates(c, a, b)
  BY <1>2, <1>5, <1>9, <1>10 DEF Truncates, Magnitude
<1>12. Magnitude(c) =< m
  BY <1>6, <1>7 DEF Magnitude
<1>13. QED
  BY <1>1, <1>8, <1>11, <1>12

(* The quotient of the manual, for numbers no greater than W.              *)
LEMMA QuotientIs ==
  ASSUME NEW t, NEW a \in -W..W, NEW b \in -W..W, b # 0
  PROVE  CDiv(a, b) \in Int /\ Arch(t)!Quotient(a, b) = CDiv(a, b)
<1>1. PICK w \in Nat : w = W
  BY WordSize
<1>2. a \in Int /\ b \in Int /\ -w =< a /\ a =< w
  BY <1>1
<1>3. PICK c : c = CDiv(a, b)
  OBVIOUS
<1>4. c \in Int /\ Truncates(c, a, b) /\ Magnitude(c) =< Magnitude(a)
  BY <1>2, <1>3, CDivTruncates
<1>5. c \in -w..w
  BY <1>2, <1>4 DEF Magnitude
<1>6. \A q \in -w..w : Truncates(q, a, b) => q = c
  <2>1. TAKE q \in -w..w
  <2>2. q \in Int
    BY <1>1
  <2>3. QED
    BY <1>2, <1>4, <2>2, OneQuotient
<1>7. c = CHOOSE q \in -w..w : Truncates(q, a, b)
  BY <1>4, <1>5, <1>6
<1>8. Arch(t)!Quotient(a, b) = CHOOSE q \in -W..W : Truncates(q, a, b)
  BY Zenon DEF Truncates, Arch!Quotient, Arch!W, Arch!Values, W, Values
<1>9. Arch(t)!Quotient(a, b) = c
  BY <1>1, <1>7, <1>8, Zenon
<1>10. QED
  BY <1>3, <1>4, <1>9

-----------------------------------------------------------------------------
(* The registers.                                                          *)

LEMMA RegisterTypes ==
  ASSUME NEW r \in RegisterValues
  PROVE  /\ r.g \in [Reg -> Word] /\ r.hi \in Word /\ r.lo \in Word
         /\ r.pc \in Int /\ r.npc \in Int /\ r.loadReg \in Reg /\ r.loadValue \in Word
         /\ r = [g |-> r.g, hi |-> r.hi, lo |-> r.lo, pc |-> r.pc, npc |-> r.npc,
                 loadReg |-> r.loadReg, loadValue |-> r.loadValue]
BY DEF RegisterValues

LEMMA RegNumbers == 0 \in Reg /\ 2 \in Reg /\ 31 \in Reg
BY SimAssumption

LEMMA LandedType ==
  ASSUME NEW r \in RegisterValues
  PROVE  /\ Landed(r) \in [Reg -> Word] /\ Landed(r)[0] = 0
         /\ \A k \in Reg : Landed(r)[k] = IF k = 0 THEN 0
                                          ELSE IF k = r.loadReg THEN r.loadValue
                                          ELSE r.g[k]
BY RegisterTypes, RegNumbers, WordSize DEF Landed

LEMMA DelayedLoadIs ==
  ASSUME NEW r \in RegisterValues, NEW nextReg, NEW nextValue
  PROVE  DelayedLoad(r, nextReg, nextValue) =
           [g |-> Landed(r), hi |-> r.hi, lo |-> r.lo, pc |-> r.pc, npc |-> r.npc,
            loadReg |-> nextReg, loadValue |-> nextValue]
<1>1. PICK l : l = Landed(r)
  OBVIOUS
<1>2. PICK q : q = [r EXCEPT !.g = l]
  OBVIOUS
<1>3. q = [g |-> l, hi |-> r.hi, lo |-> r.lo, pc |-> r.pc, npc |-> r.npc,
           loadReg |-> r.loadReg, loadValue |-> r.loadValue]
  BY <1>2, RegisterTypes
<1>4. PICK p : p = [q EXCEPT !.loadReg = nextReg]
  OBVIOUS
<1>5. p = [g |-> l, hi |-> r.hi, lo |-> r.lo, pc |-> r.pc, npc |-> r.npc,
           loadReg |-> nextReg, loadValue |-> r.loadValue]
  BY <1>3, <1>4
<1>6. [p EXCEPT !.loadValue = nextValue] =
        [g |-> l, hi |-> r.hi, lo |-> r.lo, pc |-> r.pc, npc |-> r.npc,
         loadReg |-> nextReg, loadValue |-> nextValue]
  BY <1>5
<1>7. DelayedLoad(r, nextReg, nextValue) = [p EXCEPT !.loadValue = nextValue]
  BY <1>1, <1>2, <1>4, Zenon DEF DelayedLoad
<1>8. QED
  BY <1>1, <1>6, <1>7

LEMMA DelayedLoadType ==
  ASSUME NEW r \in RegisterValues, NEW nextReg \in Reg, NEW nextValue \in Word
  PROVE  DelayedLoad(r, nextReg, nextValue) \in RegisterFile
BY DelayedLoadIs, LandedType, RegisterTypes DEF RegisterFile, RegisterValues

(* A load that has landed does not land again.                             *)
LEMMA LandedOnce ==
  ASSUME NEW r \in RegisterFile, r.loadReg = 0
  PROVE  Landed(r) = r.g
<1>1. r \in RegisterValues /\ r.g[0] = 0
  BY DEF RegisterFile
<1>2. Landed(r) \in [Reg -> Word] /\ r.g \in [Reg -> Word]
  BY <1>1, LandedType, RegisterTypes
<1>3. \A k \in Reg : Landed(r)[k] = r.g[k]
  BY <1>1, LandedType
<1>4. QED
  BY <1>2, <1>3

LEMMA TrapIs ==
  ASSUME NEW r \in RegisterFile
  PROVE  /\ Trap(r) \in RegisterFile /\ Trap(r).g = Landed(r)
         /\ Trap(r).loadReg = 0 /\ Trap(r).pc = r.pc /\ Trap(r).npc = r.npc
         /\ DelayedLoad(Trap(r), 0, 0) = DelayedLoad(r, 0, 0)
         /\ DelayedLoad(r, 0, 0) = Trap(r)
<1>1. r \in RegisterValues
  BY DEF RegisterFile
<1>2. PICK q : q = Trap(r)
  OBVIOUS
<1>3. q = [g |-> Landed(r), hi |-> r.hi, lo |-> r.lo, pc |-> r.pc, npc |-> r.npc,
           loadReg |-> 0, loadValue |-> 0]
  BY <1>1, <1>2, DelayedLoadIs DEF Trap
<1>4. q \in RegisterFile
  BY <1>1, <1>2, DelayedLoadType, RegNumbers, WordSize DEF Trap
<1>5. Landed(q) = q.g
  BY <1>3, <1>4, LandedOnce
<1>6. DelayedLoad(q, 0, 0) = q
  <2>1. q \in RegisterValues
    BY <1>4 DEF RegisterFile
  <2>2. QED
    BY <1>3, <1>5, <2>1, DelayedLoadIs
<1>7. QED
  BY <1>2, <1>3, <1>4, <1>6 DEF Trap

-----------------------------------------------------------------------------
(* The architecture of a thread has the same words.                        *)

LEMMA ArchWords ==
  ASSUME NEW t
  PROVE  /\ Arch(t)!W = W
         /\ \A n : Arch(t)!Values(n) = Values(n) /\ Arch(t)!Wrap(n) = Wrap(n)
         /\ \A a : Arch(t)!Signed(a) = Signed(a)
         /\ \A n : Arch(t)!Half(n) = Half(n) /\ Arch(t)!Truth(n) = Truth(n)
         /\ \A a : Arch(t)!Not(a) = Not(a)
         /\ Arch(t)!WordBits = WordBits
<1>1. Arch(t)!W = W /\ \A n : Arch(t)!Values(n) = Values(n)
  BY DEF Arch!W, W, Arch!Values, Values
<1>2. \A n : Arch(t)!Wrap(n) = Wrap(n)
  BY <1>1 DEF Arch!Wrap, Wrap
<1>3. \A a : Arch(t)!Signed(a) = Signed(a)
  BY <1>1 DEF Arch!Signed, Signed, Arch!SignBit, SignBit
<1>4. \A n : Arch(t)!Half(n) = Half(n)
  BY <1>1 DEF Arch!Half, Half
<1>5. \A n : Arch(t)!Truth(n) = Truth(n)
  BY DEF Arch!Truth, Truth
<1>6. \A a : Arch(t)!Not(a) = Not(a)
  BY <1>1 DEF Arch!Not, Not
<1>7. Arch(t)!WordBits = WordBits
  BY DEF Arch!WordBits, WordBits
<1>8. QED
  BY <1>1, <1>2, <1>3, <1>4, <1>5, <1>6, <1>7

LEMMA ArchBits ==
  ASSUME NEW t, NEW a, NEW b
  PROVE  /\ Arch(t)!And(a, b) = And(a, b) /\ Arch(t)!Or(a, b) = Or(a, b)
         /\ Arch(t)!Xor(a, b) = Xor(a, b)
<1>1. \A S : Arch(t)!FromBits(S) = FromBits(S)
  BY Zenon DEF Arch!FromBits, FromBits, Arch!Sums, Sums, Arch!WordBits, WordBits
<1>2. \A c : Arch(t)!Bits(c) = Bits(c)
  BY Zenon DEF Arch!Bits, Bits, Arch!WordBits, WordBits
<1>3. Arch(t)!And(a, b) = And(a, b)
  BY <1>1, <1>2 DEF Arch!And, And
<1>4. Arch(t)!Or(a, b) = Or(a, b)
  BY <1>1, <1>2 DEF Arch!Or, Or
<1>5. Arch(t)!Xor(a, b) = Xor(a, b)
  BY <1>1, <1>2 DEF Arch!Xor, Xor
<1>6. QED
  BY <1>3, <1>4, <1>5

LEMMA BitsType ==
  ASSUME NEW a \in Word, NEW b \in Word
  PROVE  /\ And(a, b) \in Word /\ Or(a, b) \in Word /\ Xor(a, b) \in Word
         /\ Not(a) \in Word
BY FromBitsType, WordSize DEF And, Or, Xor, Not, Word

LEMMA SraType ==
  ASSUME NEW a \in Word, NEW n \in 0..WordBits
  PROVE  Sra(a, n) \in Word
<1>1. Signed(a) \in Int
  BY HalfWord, SignedType
<1>2. PICK p : p = 2^n
  OBVIOUS
<1>3. p \in Nat \ {0}
  BY <1>2, PowerOf
<1>4. Signed(a) \div p \in Int
  BY <1>1, <1>3
<1>5. QED
  BY <1>2, <1>4, WrapType DEF Sra

-----------------------------------------------------------------------------
(* The instructions that compute a register.                               *)

(* What the rules for programs say of an instruction.                      *)
IsInstruction(i) ==
  /\ i.op \notin WrongOps
  /\ i.extra \in -(W \div 2)..(W \div 2 - 1)
  /\ i.rs \in Reg /\ i.rt \in Reg /\ i.rd \in Reg
  /\ i.op \in {"SLL", "SRA"} => i.extra \in 0..(WordBits - 1)
  /\ i.op = "JALR" => i.rs # i.rd
  /\ i.op \in {"BGEZAL", "BLTZAL"} => i.rs # 31

LEMMA Instructions ==
  ASSUME NEW t \in Threads, NEW i \in Program[t]
  PROVE  IsInstruction(i)
BY SimAssumption DEF IsInstruction

LEMMA ShiftType ==
  ASSUME NEW a \in Word
  PROVE  a % WordBits \in 0..WordBits
<1>1. WordBits \in Nat \ {0}
  BY WordsAssumption DEF WordBits
<1>2. a \in Int
  BY WordSize DEF Word
<1>3. QED
  BY <1>1, <1>2

LEMMA AluType ==
  ASSUME NEW r \in RegisterValues, NEW i, IsInstruction(i), i.op \in AluOps
  PROVE  Alu(r, i) \in Word
<1>1. PICK a : a = r.g[i.rs]
  OBVIOUS
<1>2. PICK b : b = r.g[i.rt]
  OBVIOUS
<1>3. PICK x : x = i.extra
  OBVIOUS
<1>4. /\ a \in Word /\ b \in Word /\ r.hi \in Word /\ r.lo \in Word
      /\ a \in Int /\ b \in Int /\ x \in Int
  <2>1. a \in Word /\ b \in Word /\ r.hi \in Word /\ r.lo \in Word
    BY <1>1, <1>2, RegisterTypes DEF IsInstruction
  <2>2. x \in -(W \div 2)..(W \div 2 - 1)
    BY <1>3 DEF IsInstruction
  <2>3. QED
    BY <2>1, <2>2, SignedImmediate, WordSize DEF Word
<1>5. Half(x) \in Word
  BY <1>4, HalfType
<1>6. 0 \in Word /\ 1 \in Word
  BY WordSize
<1>7. \A n \in Int : Wrap(n) \in Word
  BY WrapType
<1>8. CASE i.op \in {"ADD", "ADDU", "SUB", "SUBU", "ADDI", "ADDIU"}
  <2>1. a + b \in Int /\ a - b \in Int /\ a + x \in Int
    BY <1>4
  <2>2. Wrap(a + b) \in Word /\ Wrap(a - b) \in Word /\ Wrap(a + x) \in Word
    BY <1>7, <2>1
  <2>3. QED
    BY <1>1, <1>2, <1>3, <1>8, <2>2 DEF Alu, G
<1>9. CASE i.op \in {"AND", "ANDI", "ORI", "XOR", "XORI", "NOR"}
  <2>1. /\ And(a, b) \in Word /\ And(a, Half(x)) \in Word /\ Or(a, Half(x)) \in Word
        /\ Xor(a, b) \in Word /\ Xor(a, Half(x)) \in Word /\ Not(Or(a, b)) \in Word
    BY <1>4, <1>5, BitsType
  <2>2. QED
    BY <1>1, <1>2, <1>3, <1>9, <2>1 DEF Alu, G
<1>10. CASE i.op \in {"LUI", "MFHI", "MFLO", "SLL", "SLLV", "SRA", "SRAV"}
  <2>1. CASE i.op = "LUI"
    <3>1. x * Values(2) \in Int
      BY <1>4, ValuesType
    <3>2. QED
      BY <1>3, <1>7, <2>1, <3>1 DEF Alu
  <2>2. CASE i.op = "MFHI" \/ i.op = "MFLO"
    BY <1>4, <2>2 DEF Alu
  <2>3. CASE i.op = "SLL"
    <3>1. x \in 0..WordBits
      BY <1>3, <2>3, WordsAssumption DEF IsInstruction, WordBits
    <3>2. b * 2^x \in Int
      BY <1>4, <3>1, PowerOf
    <3>3. QED
      BY <1>2, <1>3, <1>7, <2>3, <3>2 DEF Alu, G
  <2>4. CASE i.op = "SLLV"
    <3>1. PICK n : n = a % WordBits
      OBVIOUS
    <3>2. b * 2^n \in Int
      BY <1>4, <3>1, ShiftType, PowerOf
    <3>3. QED
      BY <1>1, <1>2, <1>7, <2>4, <3>1, <3>2 DEF Alu, G
  <2>5. CASE i.op = "SRA"
    <3>1. x \in 0..WordBits
      BY <1>3, <2>5, WordsAssumption DEF IsInstruction, WordBits
    <3>2. QED
      BY <1>2, <1>3, <1>4, <2>5, <3>1, SraType DEF Alu, G
  <2>6. CASE i.op = "SRAV"
    BY <1>1, <1>2, <1>4, <2>6, ShiftType, SraType DEF Alu, G
  <2>7. QED
    BY <1>10, <2>1, <2>2, <2>3, <2>4, <2>5, <2>6
<1>11. CASE i.op \in {"SLT", "SLTI", "SLTIU", "SLTU"}
  BY <1>6, <1>11 DEF Alu, Truth
<1>12. QED
  BY <1>8, <1>9, <1>10, <1>11 DEF IsInstruction, AluOps, WrongOps

(* v has what an instruction at work on r reads.                           *)
SameOperands(v, r, i) ==
  /\ v.g[i.rs] = r.g[i.rs] /\ v.g[i.rt] = r.g[i.rt]
  /\ v.hi = r.hi /\ v.lo = r.lo

LEMMA ComputedIs ==
  ASSUME NEW t, NEW r \in RegisterValues, NEW i, IsInstruction(i), i.op \in AluOps,
         SameOperands(Seen(t), r, i)
  PROVE  Arch(t)!Computed(i) = Alu(r, i)
<1>1. PICK a : a = r.g[i.rs]
  OBVIOUS
<1>2. PICK b : b = r.g[i.rt]
  OBVIOUS
<1>3. PICK x : x = i.extra
  OBVIOUS
<1>4. PICK v : v = Seen(t)
  OBVIOUS
<1>5. v.g[i.rs] = a /\ v.g[i.rt] = b /\ v.hi = r.hi /\ v.lo = r.lo
  BY <1>1, <1>2, <1>4 DEF SameOperands
<1>6. CASE i.op \in {"ADD", "ADDU", "SUB", "SUBU", "ADDI", "ADDIU"}
  BY <1>1, <1>2, <1>4, <1>5, <1>6, ArchWords DEF Arch!Computed, Alu, G
<1>7. CASE i.op \in {"AND", "ANDI", "ORI", "XOR", "XORI", "NOR"}
  BY <1>1, <1>2, <1>4, <1>5, <1>7, ArchWords, ArchBits DEF Arch!Computed, Alu, G
<1>8. CASE i.op \in {"SLL", "SLLV", "SRA", "SRAV", "MFHI", "MFLO"}
  BY <1>1, <1>2, <1>4, <1>5, <1>8, ArchWords DEF Arch!Computed, Alu, G, Sra
<1>9. CASE i.op \in {"SLT", "SLTI", "SLTIU", "SLTU"}
  BY <1>1, <1>2, <1>4, <1>5, <1>9, ArchWords DEF Arch!Computed, Alu, G, Truth, Arch!Truth
<1>10. CASE i.op = "LUI"
  <2>1. x \in Int
    BY <1>3, SignedImmediate DEF IsInstruction
  <2>2. Wrap(x * Values(2)) = Half(x) * Values(2)
    BY <2>1, HalfType
  <2>3. Alu(r, i) = Wrap(x * Values(2))
    BY <1>3, <1>10 DEF Alu
  <2>4. Arch(t)!Computed(i) = Arch(t)!Half(x) * Arch(t)!Values(2)
    BY <1>3, <1>10 DEF Arch!Computed
  <2>5. QED
    BY <2>2, <2>3, <2>4, ArchWords
<1>11. QED
  BY <1>6, <1>7, <1>8, <1>9, <1>10 DEF IsInstruction, AluOps, WrongOps

LEMMA OverflowsIs ==
  ASSUME NEW t, NEW r \in RegisterValues, NEW i, IsInstruction(i), i.op \in AluOps,
         SameOperands(Seen(t), r, i)
  PROVE  Arch(t)!Overflows(i) <=> Overflow(r, i)
<1>1. PICK a : a = r.g[i.rs]
  OBVIOUS
<1>2. PICK b : b = r.g[i.rt]
  OBVIOUS
<1>3. PICK x : x = i.extra
  OBVIOUS
<1>4. PICK v : v = Seen(t)
  OBVIOUS
<1>5. v.g[i.rs] = a /\ v.g[i.rt] = b
  BY <1>1, <1>2, <1>4 DEF SameOperands
<1>6. a \in Word /\ b \in Word
  BY <1>1, <1>2, RegisterTypes DEF IsInstruction
<1>7. PICK h \in Nat \ {0} : W = 2 * h /\ W \div 2 = h
  BY HalfWord
<1>8. CASE i.op = "ADD"
  <2>1. Overflow(r, i) <=> /\ SignBit(a) <=> SignBit(b)
                           /\ ~ (SignBit(a) <=> SignBit(Wrap(a + b)))
    BY <1>1, <1>2, <1>8 DEF Overflow, G
  <2>2. Arch(t)!Overflows(i) <=> \/ Signed(a) + Signed(b) < -(W \div 2)
                                 \/ Signed(a) + Signed(b) >= W \div 2
    BY <1>4, <1>5, <1>8, ArchWords DEF Arch!Overflows
  <2>3. QED
    BY <1>6, <2>1, <2>2, AddOverflows
<1>9. CASE i.op = "SUB"
  <2>1. Overflow(r, i) <=> /\ ~ (SignBit(a) <=> SignBit(b))
                           /\ ~ (SignBit(a) <=> SignBit(Wrap(a - b)))
    BY <1>1, <1>2, <1>9 DEF Overflow, G
  <2>2. Arch(t)!Overflows(i) <=> \/ Signed(a) - Signed(b) < -(W \div 2)
                                 \/ Signed(a) - Signed(b) >= W \div 2
    BY <1>4, <1>5, <1>9, ArchWords DEF Arch!Overflows
  <2>3. QED
    BY <1>6, <2>1, <2>2, SubOverflows
<1>10. CASE i.op = "ADDI"
  <2>1. PICK y : y = Wrap(x)
    OBVIOUS
  <2>2. y \in Word /\ Signed(y) = x /\ x \in Int
    BY <1>3, <2>1, SignedImmediate DEF IsInstruction
  <2>3. Wrap(a + y) = Wrap(y + a)
    BY <1>6, <2>2, WordSize DEF Word
  <2>4. Overflow(r, i) <=> /\ SignBit(a) <=> SignBit(y)
                           /\ ~ (SignBit(y) <=> SignBit(Wrap(a + y)))
    BY <1>1, <1>2, <1>3, <1>10, <2>1 DEF Overflow, G
  <2>5. Arch(t)!Overflows(i) <=> Signed(a) + x < -(W \div 2) \/ Signed(a) + x >= W \div 2
    BY <1>3, <1>4, <1>5, <1>10, ArchWords DEF Arch!Overflows
  <2>6. /\ SignBit(a) <=> SignBit(y)
        /\ ~ (SignBit(a) <=> SignBit(Wrap(a + y)))
        <=>
        \/ Signed(a) + Signed(y) < -(W \div 2)
        \/ Signed(a) + Signed(y) >= W \div 2
    BY <1>6, <2>2, AddOverflows
  <2>7. QED
    BY <2>2, <2>4, <2>5, <2>6
<1>11. CASE i.op \notin {"ADD", "SUB", "ADDI"}
  <2>1. ~ Overflow(r, i)
    BY <1>11 DEF Overflow
  <2>2. Arch(t)!Overflows(i) <=> 0 < -(W \div 2) \/ 0 >= W \div 2
    BY <1>11, ArchWords DEF Arch!Overflows
  <2>3. QED
    BY <1>7, <2>1, <2>2
<1>12. QED
  BY <1>8, <1>9, <1>10, <1>11


-----------------------------------------------------------------------------
(* Memory.                                                                 *)

LEMMA Digits ==
  ASSUME NEW n \in Nat \ {0}, NEW b \in Nat \ {0}, NEW q \in 0..(n - 1), NEW d \in 0..(b - 1)
  PROVE  q * b + d \in 0..(n * b - 1)
<1>1. q * b >= 0 /\ q * b \in Int /\ n * b \in Int
  OBVIOUS
<1>2. (n - 1) * b = n * b - b
  OBVIOUS
<1>3. q * b <= (n - 1) * b
  OBVIOUS
<1>4. QED
  BY <1>1, <1>2, <1>3

LEMMA ValuesBelow ==
  ASSUME NEW size \in {1, 2, 4}
  PROVE  Values(size) \in Nat \ {0} /\ Values(size) <= W
<1>1. W = Values(1) * Values(3) /\ W = Values(2) * Values(2)
  BY ValuesSum, 1 + 3 = 4, 2 + 2 = 4 DEF W
<1>2. PICK x \in Nat \ {0} : x = Values(1)
  BY ValuesType
<1>3. PICK y \in Nat \ {0} : y = Values(2)
  BY ValuesType
<1>4. PICK z \in Nat \ {0} : z = Values(3)
  BY ValuesType
<1>5. x * z >= x /\ y * y >= y
  BY <1>2, <1>3, <1>4
<1>6. W \in Nat \ {0} /\ Values(4) = W
  BY WordSize DEF W
<1>7. CASE size = 1
  BY <1>1, <1>2, <1>4, <1>5, <1>7
<1>8. CASE size = 2
  BY <1>1, <1>3, <1>5, <1>8
<1>9. CASE size = 4
  BY <1>6, <1>9
<1>10. QED
  BY <1>7, <1>8, <1>9

LEMMA InMemory ==
  ASSUME NEW m, IsMemory(m), NEW addr \in Nat, NEW size \in {1, 2, 4},
         addr + size - 1 \in DOMAIN m
  PROVE  \A k \in 0..(size - 1) : addr + k \in DOMAIN m /\ m[addr + k] \in 0..(Byte - 1)
<1>1. TAKE k \in 0..(size - 1)
<1>2. addr + k \in 0..(addr + size - 1)
  OBVIOUS
<1>3. addr + k \in DOMAIN m
  BY <1>2 DEF IsMemory
<1>4. QED
  BY <1>3 DEF IsMemory

LEMMA ReadType ==
  ASSUME NEW m, IsMemory(m), NEW addr \in Nat, NEW size \in {1, 2, 4},
         addr + size - 1 \in DOMAIN m
  PROVE  Read(m, addr, size) \in 0..(Values(size) - 1)
<1>1. PICK b \in Nat \ {0} : b = Byte
  BY ByteType
<1>2. Values(1) = b
  BY <1>1 DEF Byte
<1>3. Values(2) = b * b
  BY <1>2, ValuesSum, 1 + 1 = 2
<1>4. Values(3) = b * b * b
  BY <1>2, <1>3, ValuesSum, 2 + 1 = 3
<1>5. Values(4) = b * b * b * b
  BY <1>2, <1>4, ValuesSum, 3 + 1 = 4
<1>6. \A k \in 0..(size - 1) : m[addr + k] \in 0..(b - 1)
  BY <1>1, InMemory
<1>7. m[addr] \in 0..(b - 1)
  BY <1>6, addr + 0 = addr
<1>8. CASE size = 1
  BY <1>2, <1>7, <1>8 DEF Read
<1>9. CASE size = 2
  <2>1. m[addr + 1] \in 0..(b - 1)
    BY <1>6, <1>9
  <2>2. m[addr + 1] * b + m[addr] \in 0..(b * b - 1)
    BY <1>7, <2>1, Digits
  <2>3. QED
    BY <1>1, <1>3, <1>9, <2>2 DEF Read
<1>10. CASE size = 4
  <2>1. /\ m[addr + 1] \in 0..(b - 1) /\ m[addr + 2] \in 0..(b - 1)
        /\ m[addr + 3] \in 0..(b - 1)
    BY <1>6, <1>10
  <2>2. PICK x : x = m[addr + 3] * b + m[addr + 2]
    OBVIOUS
  <2>3. x \in 0..(b * b - 1)
    BY <2>1, <2>2, Digits
  <2>4. PICK y : y = x * b + m[addr + 1]
    OBVIOUS
  <2>5. y \in 0..(b * b * b - 1)
    <3>1. PICK n \in Nat \ {0} : n = b * b
      OBVIOUS
    <3>2. QED
      BY <2>1, <2>3, <2>4, <3>1, Digits
  <2>6. y * b + m[addr] \in 0..(b * b * b * b - 1)
    <3>1. PICK n \in Nat \ {0} : n = b * b * b
      BY <1>4, ValuesType
    <3>2. QED
      BY <1>7, <2>5, <3>1, Digits
  <2>7. QED
    BY <1>1, <1>5, <1>10, <2>2, <2>4, <2>6 DEF Read
<1>11. QED
  BY <1>8, <1>9, <1>10

LEMMA ExtendType ==
  ASSUME NEW size \in {1, 2, 4}, NEW value \in 0..(Values(size) - 1)
  PROVE  Extend(value, size) \in Word /\ value \in Word
<1>1. PICK n \in Nat \ {0} : n = Values(size)
  BY ValuesBelow
<1>2. value \in Word
  BY <1>1, ValuesBelow, WordSize DEF Word
<1>3. Wrap(value - n) \in Word
  BY <1>1, WrapType
<1>4. QED
  BY <1>1, <1>2, <1>3 DEF Extend

LEMMA WriteType ==
  ASSUME NEW m, IsMemory(m), NEW addr \in Nat, NEW size \in {1, 2, 4}, NEW value \in Word
  PROVE  IsMemory(Write(m, addr, size, value))
<1>1. PICK w : w = Write(m, addr, size, value)
  OBVIOUS
<1>2. DOMAIN w = DOMAIN m
  BY <1>1 DEF Write
<1>3. ASSUME NEW a \in DOMAIN m
      PROVE  w[a] \in 0..(Byte - 1)
  <2>1. w[a] = IF a \in addr..(addr + size - 1)
               THEN (value \div Values(a - addr)) % Byte ELSE m[a]
    BY <1>1 DEF Write
  <2>2. CASE a \in addr..(addr + size - 1)
    <3>1. a - addr \in 0..4
      BY <2>2
    <3>2. PICK p \in Nat \ {0} : p = Values(a - addr)
      BY <3>1, ValuesType
    <3>3. value \div p \in Int
      BY WordSize DEF Word
    <3>4. (value \div p) % Byte \in 0..(Byte - 1)
      BY <3>3, ByteType
    <3>5. QED
      BY <2>1, <2>2, <3>2, <3>4
  <2>3. QED
    BY <2>1, <2>2 DEF IsMemory
<1>4. QED
  BY <1>1, <1>2, <1>3 DEF IsMemory

LEMMA ArchMemory ==
  ASSUME NEW t
  PROVE  /\ \A m, addr, size : Arch(t)!Read(m, addr, size) = Read(m, addr, size)
         /\ \A m, addr, size, value :
              Arch(t)!Write(m, addr, size, value) = Write(m, addr, size, value)
         /\ \A value, size : Arch(t)!Extend(value, size) = Extend(value, size)
<1>1. Arch(t)!Byte = Byte
  BY DEF Arch!Byte, Byte, Arch!Values, Values
<1>2. \A m, addr, size : Arch(t)!Read(m, addr, size) = Read(m, addr, size)
  BY <1>1 DEF Arch!Read, Read
<1>3. ASSUME NEW m, NEW addr, NEW size, NEW value
      PROVE  Arch(t)!Write(m, addr, size, value) = Write(m, addr, size, value)
  BY Zenon DEF Arch!Write, Write, Arch!Byte, Byte, Arch!Values, Values
<1>4. \A value, size : Arch(t)!Extend(value, size) = Extend(value, size)
  BY ArchWords DEF Arch!Extend, Extend
<1>5. QED
  BY <1>2, <1>3, <1>4

-----------------------------------------------------------------------------
(* What a program sees after an instruction.                               *)

LEMMA AdvanceIs ==
  ASSUME NEW how, NEW r \in RegisterValues, NEW load \in Reg, NEW value \in Word,
         NEW after \in Int, NEW m
  PROVE  LET q == Advance(Outcome(how, r, load, value, after, m))
         IN /\ q = [g |-> Landed(r), hi |-> r.hi, lo |-> r.lo, pc |-> r.npc, npc |-> after,
                    loadReg |-> load, loadValue |-> value]
            /\ q \in RegisterFile
<1>1. PICK o : o = Outcome(how, r, load, value, after, m)
  OBVIOUS
<1>2. o.r = r /\ o.load = load /\ o.value = value /\ o.after = after
  BY <1>1 DEF Outcome
<1>3. PICK d : d = DelayedLoad(r, load, value)
  OBVIOUS
<1>4. PICK l : l = Landed(r)
  OBVIOUS
<1>5. d = [g |-> l, hi |-> r.hi, lo |-> r.lo, pc |-> r.pc, npc |-> r.npc,
           loadReg |-> load, loadValue |-> value]
  BY <1>3, <1>4, DelayedLoadIs
<1>6. PICK p : p = [d EXCEPT !.pc = r.npc]
  OBVIOUS
<1>7. p = [g |-> l, hi |-> r.hi, lo |-> r.lo, pc |-> r.npc, npc |-> r.npc,
           loadReg |-> load, loadValue |-> value]
  BY <1>5, <1>6
<1>8. PICK q : q = [p EXCEPT !.npc = after]
  OBVIOUS
<1>9. q = [g |-> l, hi |-> r.hi, lo |-> r.lo, pc |-> r.npc, npc |-> after,
           loadReg |-> load, loadValue |-> value]
  BY <1>7, <1>8
<1>10. Advance(o) = q
  BY <1>2, <1>3, <1>6, <1>8, Zenon DEF Advance
<1>11. q \in RegisterFile
  <2>1. l \in [Reg -> Word] /\ l[0] = 0
    BY <1>4, LandedType
  <2>2. r.hi \in Word /\ r.lo \in Word /\ r.npc \in Int
    BY RegisterTypes
  <2>3. q \in RegisterValues
    BY <1>9, <2>1, <2>2 DEF RegisterValues
  <2>4. QED
    BY <1>9, <2>1, <2>3 DEF RegisterFile
<1>12. QED
  BY <1>1, <1>4, <1>9, <1>10, <1>11

After(o) == DelayedLoad(Advance(o), 0, 0)

(* s is r with the load under way landed, and then the next one.           *)
Lands(s, r, load, value, after) ==
  /\ s.g \in [Reg -> Word]
  /\ \A k \in Reg : s.g[k] = IF k = 0 THEN 0 ELSE IF k = load THEN value
                             ELSE IF k = r.loadReg THEN r.loadValue ELSE r.g[k]
  /\ s.hi = r.hi /\ s.lo = r.lo /\ s.pc = r.npc /\ s.npc = after

LEMMA AfterIs ==
  ASSUME NEW how, NEW r \in RegisterValues, NEW load \in Reg, NEW value \in Word,
         NEW after \in Int, NEW m
  PROVE  Lands(After(Outcome(how, r, load, value, after, m)), r, load, value, after)
<1>1. PICK q : q = Advance(Outcome(how, r, load, value, after, m))
  OBVIOUS
<1>2. /\ q = [g |-> Landed(r), hi |-> r.hi, lo |-> r.lo, pc |-> r.npc, npc |-> after,
              loadReg |-> load, loadValue |-> value]
      /\ q \in RegisterValues
  BY <1>1, AdvanceIs DEF RegisterFile
<1>3. PICK l : l = Landed(r)
  OBVIOUS
<1>4. PICK l2 : l2 = Landed(q)
  OBVIOUS
<1>5. \A k \in Reg : l2[k] = IF k = 0 THEN 0 ELSE IF k = load THEN value
                             ELSE IF k = r.loadReg THEN r.loadValue ELSE r.g[k]
  <2>1. \A k \in Reg : l2[k] = IF k = 0 THEN 0 ELSE IF k = q.loadReg THEN q.loadValue
                               ELSE q.g[k]
    BY <1>2, <1>4, LandedType
  <2>2. q.loadReg = load /\ q.loadValue = value /\ q.g = l
    BY <1>2, <1>3
  <2>3. \A k \in Reg : l[k] = IF k = 0 THEN 0 ELSE IF k = r.loadReg THEN r.loadValue
                              ELSE r.g[k]
    BY <1>3, LandedType
  <2>4. QED
    BY <2>1, <2>2, <2>3
<1>6. l2 \in [Reg -> Word]
  BY <1>2, <1>4, LandedType
<1>7. PICK s : s = DelayedLoad(q, 0, 0)
  OBVIOUS
<1>8. s = [g |-> l2, hi |-> q.hi, lo |-> q.lo, pc |-> q.pc, npc |-> q.npc,
           loadReg |-> 0, loadValue |-> 0]
  BY <1>2, <1>4, <1>7, DelayedLoadIs
<1>9. s.g = l2 /\ s.hi = r.hi /\ s.lo = r.lo /\ s.pc = r.npc /\ s.npc = after
  BY <1>2, <1>8
<1>10. Lands(s, r, load, value, after)
  BY <1>5, <1>6, <1>9 DEF Lands
<1>11. QED
  BY <1>1, <1>7, <1>10 DEF After

LEMMA SetGIs ==
  ASSUME NEW r \in RegisterValues, NEW d \in Reg, NEW v \in Word
  PROVE  /\ SetG(r, d, v) = [g |-> [r.g EXCEPT ![d] = v], hi |-> r.hi, lo |-> r.lo,
                             pc |-> r.pc, npc |-> r.npc, loadReg |-> r.loadReg,
                             loadValue |-> r.loadValue]
         /\ SetG(r, d, v) \in RegisterValues
<1>1. PICK s : s = SetG(r, d, v)
  OBVIOUS
<1>2. s = [g |-> [r.g EXCEPT ![d] = v], hi |-> r.hi, lo |-> r.lo,
           pc |-> r.pc, npc |-> r.npc, loadReg |-> r.loadReg, loadValue |-> r.loadValue]
  BY <1>1, RegisterTypes DEF SetG
<1>3. [r.g EXCEPT ![d] = v] \in [Reg -> Word]
  BY RegisterTypes
<1>4. s \in RegisterValues
  BY <1>2, <1>3, RegisterTypes DEF RegisterValues
<1>5. QED
  BY <1>1, <1>2, <1>4

(* s is what is seen of r after d was set.                                 *)
SeesSet(s, r, d, v, after) ==
  /\ s.g = [Landed(r) EXCEPT ![d] = IF d = 0 THEN 0 ELSE v]
  /\ s.hi = r.hi /\ s.lo = r.lo /\ s.pc = r.npc /\ s.npc = after

(* A register that an instruction sets is seen at once, unless a load of   *)
(* the same one is under way.                                              *)
LEMMA SetSeen ==
  ASSUME NEW how, NEW r \in RegisterFile, NEW d \in Reg, NEW v \in Word, NEW after \in Int,
         NEW m, r.loadReg = 0 \/ d # r.loadReg
  PROVE  SeesSet(After(Outcome(how, SetG(r, d, v), 0, 0, after, m)), r, d, v, after)
<1>1. PICK q : q = SetG(r, d, v)
  OBVIOUS
<1>2. r \in RegisterValues
  BY DEF RegisterFile
<1>3. /\ q = [g |-> [r.g EXCEPT ![d] = v], hi |-> r.hi, lo |-> r.lo,
              pc |-> r.pc, npc |-> r.npc, loadReg |-> r.loadReg, loadValue |-> r.loadValue]
      /\ q \in RegisterValues
  BY <1>1, <1>2, SetGIs
<1>4. PICK s : s = After(Outcome(how, q, 0, 0, after, m))
  OBVIOUS
<1>5. /\ s.g \in [Reg -> Word]
      /\ \A k \in Reg : s.g[k] = IF k = 0 THEN 0
                                 ELSE IF k = q.loadReg THEN q.loadValue ELSE q.g[k]
      /\ s.hi = q.hi /\ s.lo = q.lo /\ s.pc = q.npc /\ s.npc = after
  <2>1. 0 \in Reg /\ 0 \in Word
    BY RegNumbers, WordSize
  <2>2. Lands(s, q, 0, 0, after)
    BY <1>3, <1>4, <2>1, AfterIs
  <2>3. QED
    BY <2>2 DEF Lands
<1>6. PICK l : l = Landed(r)
  OBVIOUS
<1>7. l \in [Reg -> Word] /\ \A k \in Reg : l[k] = IF k = 0 THEN 0
                                                   ELSE IF k = r.loadReg THEN r.loadValue
                                                   ELSE r.g[k]
  BY <1>2, <1>6, LandedType
<1>8. r.g \in [Reg -> Word]
  BY <1>2, RegisterTypes
<1>9. \A k \in Reg : s.g[k] = [l EXCEPT ![d] = IF d = 0 THEN 0 ELSE v][k]
  <2>1. q.g = [r.g EXCEPT ![d] = v] /\ q.loadReg = r.loadReg /\ q.loadValue = r.loadValue
    BY <1>3
  <2>2. \A k \in Reg : q.g[k] = IF k = d THEN v ELSE r.g[k]
    BY <1>8, <2>1
  <2>3. \A k \in Reg : [l EXCEPT ![d] = IF d = 0 THEN 0 ELSE v][k] =
                         IF k = d THEN IF d = 0 THEN 0 ELSE v ELSE l[k]
    BY <1>7
  <2>4. QED
    BY <1>5, <1>7, <2>1, <2>2, <2>3
<1>10. s.g = [l EXCEPT ![d] = IF d = 0 THEN 0 ELSE v]
  BY <1>5, <1>7, <1>9
<1>11. SeesSet(s, r, d, v, after)
  BY <1>3, <1>5, <1>6, <1>10 DEF SeesSet
<1>12. QED
  BY <1>1, <1>4, <1>11

(* One that sets none leaves what was seen, the load under way landed.     *)
LEMMA KeepSeen ==
  ASSUME NEW how, NEW r \in RegisterFile, NEW q \in RegisterValues, NEW after \in Int, NEW m,
         q.g = r.g, q.loadReg = r.loadReg, q.loadValue = r.loadValue
  PROVE  LET s == After(Outcome(how, q, 0, 0, after, m))
         IN /\ s.g = Landed(r)
            /\ s.hi = q.hi /\ s.lo = q.lo /\ s.pc = q.npc /\ s.npc = after
<1>1. PICK s : s = After(Outcome(how, q, 0, 0, after, m))
  OBVIOUS
<1>2. 0 \in Reg /\ 0 \in Word
  BY RegNumbers, WordSize
<1>3. Lands(s, q, 0, 0, after)
  BY <1>1, <1>2, AfterIs
<1>4. PICK l : l = Landed(r)
  OBVIOUS
<1>5. l \in [Reg -> Word] /\ \A k \in Reg : l[k] = IF k = 0 THEN 0
                                                   ELSE IF k = r.loadReg THEN r.loadValue
                                                   ELSE r.g[k]
  BY <1>4, LandedType DEF RegisterFile
<1>6. s.g = l
  BY <1>3, <1>5 DEF Lands
<1>7. QED
  BY <1>1, <1>3, <1>4, <1>6 DEF Lands

(* The value of a load is seen at once, whatever was under way.            *)
LEMMA LoadSeen ==
  ASSUME NEW how, NEW r \in RegisterFile, NEW d \in Reg, NEW v \in Word, NEW after \in Int,
         NEW m
  PROVE  SeesSet(After(Outcome(how, r, d, v, after, m)), r, d, v, after)
<1>1. PICK s : s = After(Outcome(how, r, d, v, after, m))
  OBVIOUS
<1>2. r \in RegisterValues
  BY DEF RegisterFile
<1>3. Lands(s, r, d, v, after)
  BY <1>1, <1>2, AfterIs
<1>4. PICK l : l = Landed(r)
  OBVIOUS
<1>5. l \in [Reg -> Word] /\ \A k \in Reg : l[k] = IF k = 0 THEN 0
                                                   ELSE IF k = r.loadReg THEN r.loadValue
                                                   ELSE r.g[k]
  BY <1>2, <1>4, LandedType
<1>6. \A k \in Reg : [l EXCEPT ![d] = IF d = 0 THEN 0 ELSE v][k] =
                       IF k = d THEN IF d = 0 THEN 0 ELSE v ELSE l[k]
  BY <1>5
<1>7. s.g = [l EXCEPT ![d] = IF d = 0 THEN 0 ELSE v]
  <2>1. s.g \in [Reg -> Word]
    BY <1>3 DEF Lands
  <2>2. PICK f : f = [l EXCEPT ![d] = IF d = 0 THEN 0 ELSE v]
    OBVIOUS
  <2>3. f \in [Reg -> Word]
    BY <1>5, <2>2, WordSize
  <2>4. \A k \in Reg : s.g[k] = f[k]
    BY <1>3, <1>5, <1>6, <2>2 DEF Lands
  <2>5. QED
    BY <2>1, <2>2, <2>3, <2>4
<1>8. QED
  BY <1>1, <1>3, <1>4, <1>7 DEF Lands, SeesSet

-----------------------------------------------------------------------------
(* The instructions of thread t, from the registers r.                     *)

AtWork(t, r, i) ==
  /\ r \in RegisterFile /\ IsInstruction(i) /\ KeepsTheRules(r, i)
  /\ Seen(t) = Trap(r) /\ instr[t] = i /\ IsMemory(mem[t])

Done(t, o) == o.how = "done" /\ Seen(t)' = After(o) /\ mem'[t] = o.mem

(* The register of a load under way is none that the instruction names, so *)
(* it reads what the program sees.                                         *)
LEMMA OperandsSeen ==
  ASSUME NEW t, NEW r, NEW i, AtWork(t, r, i), i.op # "SYSCALL"
  PROVE  /\ Seen(t).g = Landed(r) /\ Seen(t).hi = r.hi /\ Seen(t).lo = r.lo
         /\ Seen(t).pc = r.pc /\ Seen(t).npc = r.npc
         /\ Seen(t).g[i.rs] = r.g[i.rs]
         /\ i.op \notin LoadOps => SameOperands(Seen(t), r, i)
<1>1. r \in RegisterFile /\ r \in RegisterValues /\ IsInstruction(i) /\ KeepsTheRules(r, i)
  BY DEF AtWork, RegisterFile
<1>2. PICK v : v = Seen(t)
  OBVIOUS
<1>3. v.g = Landed(r) /\ v.hi = r.hi /\ v.lo = r.lo /\ v.pc = r.pc /\ v.npc = r.npc
  <2>1. v = DelayedLoad(r, 0, 0)
    BY <1>2 DEF AtWork, Trap
  <2>2. v = [g |-> Landed(r), hi |-> r.hi, lo |-> r.lo, pc |-> r.pc, npc |-> r.npc,
             loadReg |-> 0, loadValue |-> 0]
    BY <1>1, <2>1, DelayedLoadIs
  <2>3. QED
    BY <2>2
<1>4. ASSUME NEW k \in Reg, r.loadReg = 0 \/ k # r.loadReg
      PROVE  v.g[k] = r.g[k]
  <2>1. r.g[0] = 0
    BY <1>1 DEF RegisterFile
  <2>2. QED
    BY <1>1, <1>3, <1>4, <2>1, LandedType
<1>5. r.loadReg = 0 \/ i.rs # r.loadReg
  BY <1>1 DEF KeepsTheRules, Touches
<1>6. i.op \notin LoadOps => r.loadReg = 0 \/ i.rt # r.loadReg
  BY <1>1 DEF KeepsTheRules, Touches
<1>7. i.rs \in Reg /\ i.rt \in Reg
  BY <1>1 DEF IsInstruction
<1>8. QED
  BY <1>2, <1>3, <1>4, <1>5, <1>6, <1>7 DEF SameOperands

LEMMA PcAfterType ==
  ASSUME NEW r \in RegisterValues
  PROVE  PcAfter(r) \in Word /\ PcAfter(r) \in Int
<1>1. PICK n \in Int : n = r.npc + 4
  BY RegisterTypes
<1>2. Wrap(n) \in Word
  BY WrapType
<1>3. QED
  BY <1>1, <1>2, WordSize DEF PcAfter, Word

LEMMA ComputeStep ==
  ASSUME NEW t, NEW r, NEW i, AtWork(t, r, i), i.op \in AluOps, NEW o, Done(t, o),
         o = DoAlu(r, i, mem[t])
  PROVE  Arch(t)!Compute
<1>1. r \in RegisterFile /\ r \in RegisterValues /\ IsInstruction(i) /\ KeepsTheRules(r, i)
  BY DEF AtWork, RegisterFile
<1>2. i.op # "SYSCALL" /\ i.op \notin LoadOps /\ i.op \notin WrongOps
  BY <1>1 DEF AluOps, LoadOps, WrongOps, IsInstruction
<1>3. ~ Overflow(r, i)
  BY DEF DoAlu, Stop, Outcome, Done
<1>4. PICK d : d = IF i.op \in ToRt THEN i.rt ELSE i.rd
  OBVIOUS
<1>5. PICK v : v = Alu(r, i)
  OBVIOUS
<1>6. d \in Reg /\ v \in Word
  BY <1>1, <1>4, <1>5, AluType DEF IsInstruction
<1>7. o = Outcome("done", SetG(r, d, v), 0, 0, PcAfter(r), mem[t])
  <2>1. o = Plain(SetG(r, d, v), mem[t])
    BY <1>3, <1>4, <1>5 DEF DoAlu
  <2>2. PcAfter(SetG(r, d, v)) = PcAfter(r)
    BY <1>1, <1>6, SetGIs DEF PcAfter
  <2>3. QED
    BY <2>1, <2>2 DEF Plain
<1>8. r.loadReg = 0 \/ d # r.loadReg
  BY <1>1, <1>2, <1>4 DEF KeepsTheRules, Touches
<1>9. /\ Seen(t)'.g = [Landed(r) EXCEPT ![d] = IF d = 0 THEN 0 ELSE v]
      /\ Seen(t)'.hi = r.hi /\ Seen(t)'.lo = r.lo
      /\ Seen(t)'.pc = r.npc /\ Seen(t)'.npc = PcAfter(r)
  <2>1. PICK n \in Int : n = PcAfter(r)
    BY <1>1, PcAfterType
  <2>2. SeesSet(After(o), r, d, v, n)
    BY <1>1, <1>6, <1>7, <1>8, <2>1, SetSeen
  <2>3. QED
    BY <2>1, <2>2 DEF Done, SeesSet
<1>10. mem'[t] = mem[t]
  BY <1>7 DEF Done, Outcome
<1>11. Arch(t)!Computed(i) = v /\ ~ Arch(t)!Overflows(i)
  BY <1>1, <1>2, <1>3, <1>5, OperandsSeen, ComputedIs, OverflowsIs
<1>12. /\ i.op \in Arch(t)!ThreeRegisters \union Arch(t)!Immediates
       /\ i.op \in Arch(t)!Immediates <=> i.op \in ToRt
  BY DEF AluOps, Arch!ThreeRegisters, Arch!Immediates, ToRt
<1>13. Seen(t)'.g = Arch(t)!Set(d, v)
  BY <1>2, <1>9, OperandsSeen DEF Arch!Set
<1>14. Arch(t)!FallThrough
  BY <1>2, <1>9, OperandsSeen, ArchWords DEF Arch!FallThrough, PcAfter
<1>15. QED
  BY <1>2, <1>4, <1>9, <1>10, <1>11, <1>12, <1>13, <1>14, OperandsSeen DEF Arch!Compute, AtWork

(* The registers with a double word in hi and lo.                          *)
HiLoSet(r, h, l) ==
  [g |-> r.g, hi |-> h, lo |-> l, pc |-> r.pc, npc |-> r.npc,
   loadReg |-> r.loadReg, loadValue |-> r.loadValue]

HiThenLo(r, h, l) == [r EXCEPT !.hi = h, !.lo = l]
LoThenHi(r, h, l) == [r EXCEPT !.lo = l, !.hi = h]

LEMMA HiSetIs ==
  ASSUME NEW r \in RegisterValues, NEW h
  PROVE  [r EXCEPT !.hi = h] = HiLoSet(r, h, r.lo)
BY RegisterTypes DEF HiLoSet

LEMMA LoSetIs ==
  ASSUME NEW r \in RegisterValues, NEW l
  PROVE  [r EXCEPT !.lo = l] = HiLoSet(r, r.hi, l)
BY RegisterTypes DEF HiLoSet

LEMMA HiThenLoIs ==
  ASSUME NEW r \in RegisterValues, NEW h, NEW l
  PROVE  HiThenLo(r, h, l) = HiLoSet(r, h, l)
<1>1. PICK x : x = [r EXCEPT !.hi = h]
  OBVIOUS
<1>2. x = HiLoSet(r, h, r.lo)
  BY <1>1, HiSetIs
<1>3. [x EXCEPT !.lo = l] = HiLoSet(r, h, l)
  BY <1>2 DEF HiLoSet
<1>4. QED
  BY <1>1, <1>3, Zenon DEF HiThenLo

LEMMA LoThenHiIs ==
  ASSUME NEW r \in RegisterValues, NEW h, NEW l
  PROVE  LoThenHi(r, h, l) = HiLoSet(r, h, l)
<1>1. PICK x : x = [r EXCEPT !.lo = l]
  OBVIOUS
<1>2. x = HiLoSet(r, r.hi, l)
  BY <1>1, LoSetIs
<1>3. [x EXCEPT !.hi = h] = HiLoSet(r, h, l)
  BY <1>2 DEF HiLoSet
<1>4. QED
  BY <1>1, <1>3, Zenon DEF LoThenHi

LEMMA HiLoSeen ==
  ASSUME NEW t, NEW r, NEW i, AtWork(t, r, i), i.op # "SYSCALL", NEW o, Done(t, o),
         NEW h \in Word, NEW l \in Word, o = Plain(HiLoSet(r, h, l), mem[t])
  PROVE  /\ Seen(t)'.g = Seen(t).g /\ Seen(t)'.hi = h /\ Seen(t)'.lo = l
         /\ Arch(t)!FallThrough /\ mem'[t] = mem[t]
<1>1. r \in RegisterFile /\ r \in RegisterValues
  BY DEF AtWork, RegisterFile
<1>2. PICK q : q = HiLoSet(r, h, l)
  OBVIOUS
<1>3. /\ q.g = r.g /\ q.hi = h /\ q.lo = l /\ q.npc = r.npc /\ q.loadReg = r.loadReg
      /\ q.loadValue = r.loadValue
  BY <1>2 DEF HiLoSet
<1>4. q \in RegisterValues
  <2>1. /\ r.g \in [Reg -> Word] /\ r.pc \in Int /\ r.npc \in Int /\ r.loadReg \in Reg
        /\ r.loadValue \in Word
    BY <1>1, RegisterTypes
  <2>2. QED
    BY <1>2, <2>1 DEF HiLoSet, RegisterValues
<1>5. o = Outcome("done", q, 0, 0, PcAfter(r), mem[t])
  BY <1>2, <1>3 DEF Plain, PcAfter
<1>6. /\ Seen(t)'.g = Landed(r) /\ Seen(t)'.hi = q.hi /\ Seen(t)'.lo = q.lo
      /\ Seen(t)'.pc = q.npc /\ Seen(t)'.npc = PcAfter(r)
  BY <1>1, <1>3, <1>4, <1>5, KeepSeen, PcAfterType DEF Done
<1>7. mem'[t] = mem[t]
  BY <1>5 DEF Done, Outcome
<1>8. Arch(t)!FallThrough
  BY <1>3, <1>6, OperandsSeen, ArchWords DEF Arch!FallThrough, PcAfter
<1>9. QED
  BY <1>3, <1>6, <1>7, <1>8, OperandsSeen

LEMMA DivideIs ==
  ASSUME NEW t, NEW r \in RegisterValues, NEW a \in -W..W, NEW b \in -W..W
  PROVE  \E h, l \in Word :
           /\ Divide(r, a, b) = HiLoSet(r, h, l)
           /\ IF b = 0 THEN h = 0 /\ l = 0
              ELSE /\ l = Wrap(Arch(t)!Quotient(a, b))
                   /\ h = Wrap(a - Arch(t)!Quotient(a, b) * b)
<1>1. 0 \in Word
  BY WordSize
<1>2. CASE b = 0
  <2>1. Divide(r, a, b) = HiLoSet(r, 0, 0)
    <3>1. Divide(r, a, b) = LoThenHi(r, 0, 0)
      BY <1>2 DEF Divide, LoThenHi
    <3>2. QED
      BY <3>1, LoThenHiIs
  <2>2. QED
    BY <1>1, <1>2, <2>1
<1>3. CASE b # 0
  <2>1. PICK c \in Int : c = CDiv(a, b)
    BY <1>3, QuotientIs
  <2>2. Arch(t)!Quotient(a, b) = c
    BY <1>3, <2>1, QuotientIs
  <2>3. PICK d \in Int : d = a - c * b
    BY <2>1, WordSize
  <2>4. Wrap(c) \in Word /\ Wrap(d) \in Word
    BY <2>1, <2>3, WrapType
  <2>5. Divide(r, a, b) = LoThenHi(r, Wrap(d), Wrap(c))
    BY <1>3, <2>1, <2>3 DEF Divide, LoThenHi
  <2>6. Divide(r, a, b) = HiLoSet(r, Wrap(d), Wrap(c))
    BY <2>5, LoThenHiIs
  <2>7. QED
    BY <1>3, <2>2, <2>3, <2>4, <2>6
<1>4. QED
  BY <1>2, <1>3

LEMMA HiLoStep ==
  ASSUME NEW t, NEW r, NEW i, AtWork(t, r, i), i.op \in HiLoOps, NEW o, Done(t, o),
         o = DoHiLo(r, i, mem[t])
  PROVE  Arch(t)!HiLo
<1>1. r \in RegisterFile /\ r \in RegisterValues /\ IsInstruction(i)
  BY DEF AtWork, RegisterFile
<1>2. i.op # "SYSCALL" /\ i.op \notin LoadOps
  BY DEF HiLoOps, LoadOps
<1>3. instr[t] = i
  BY DEF AtWork
<1>4. PICK a : a = r.g[i.rs]
  OBVIOUS
<1>5. PICK b : b = r.g[i.rt]
  OBVIOUS
<1>6. a \in Word /\ b \in Word
  BY <1>1, <1>4, <1>5, RegisterTypes DEF IsInstruction
<1>7. /\ Seen(t).g[i.rs] = a /\ Seen(t).g[i.rt] = b
      /\ Seen(t).hi = r.hi /\ Seen(t).lo = r.lo
  BY <1>2, <1>4, <1>5, OperandsSeen DEF SameOperands
<1>8. r.hi \in Word /\ r.lo \in Word
  BY <1>1, RegisterTypes
<1>9. PICK w \in Nat : w = W
  BY WordSize
<1>10. a \in -W..W /\ b \in -W..W
  BY <1>6, <1>9 DEF Word
<1>11. Signed(a) \in -W..W /\ Signed(b) \in -W..W
  <2>1. PICK k \in Nat \ {0} : W = 2 * k /\ W \div 2 = k
    BY HalfWord
  <2>2. Signed(a) \in (-k)..(k - 1) /\ Signed(b) \in (-k)..(k - 1)
    BY <1>6, <2>1, SignedType
  <2>3. QED
    BY <2>1, <2>2
<1>12. CASE i.op = "MULT"
  <2>1. PICK p : p = Mult(a, b, TRUE)
    OBVIOUS
  <2>2. PICK n : n = Signed(a) * Signed(b)
    OBVIOUS
  <2>3. p.hi \in Word /\ p.lo \in Word /\ p.lo = Wrap(n) /\ p.hi = Wrap(n \div W)
    BY <1>6, <2>1, <2>2, MultSigned
  <2>4. o = Plain(HiLoSet(r, p.hi, p.lo), mem[t])
    <3>1. o = Plain(HiThenLo(r, p.hi, p.lo), mem[t])
      BY <1>4, <1>5, <1>12, <2>1 DEF DoHiLo, G, HiThenLo
    <3>2. QED
      BY <1>1, <3>1, HiThenLoIs
  <2>5. /\ Seen(t)'.g = Seen(t).g /\ Seen(t)'.hi = p.hi /\ Seen(t)'.lo = p.lo
        /\ Arch(t)!FallThrough /\ mem'[t] = mem[t]
    BY <1>2, <2>3, <2>4, HiLoSeen
  <2>6. QED
    BY <1>3, <1>7, <1>12, <2>2, <2>3, <2>5, ArchWords DEF Arch!HiLo
<1>13. CASE i.op = "MULTU"
  <2>1. PICK p : p = Mult(a, b, FALSE)
    OBVIOUS
  <2>2. PICK n : n = a * b
    OBVIOUS
  <2>3. p.hi \in Word /\ p.lo \in Word /\ p.lo = Wrap(n) /\ p.hi = Wrap(n \div W)
    BY <1>6, <2>1, <2>2, MultUnsigned
  <2>4. o = Plain(HiLoSet(r, p.hi, p.lo), mem[t])
    <3>1. o = Plain(HiThenLo(r, p.hi, p.lo), mem[t])
      BY <1>4, <1>5, <1>13, <2>1 DEF DoHiLo, G, HiThenLo
    <3>2. QED
      BY <1>1, <3>1, HiThenLoIs
  <2>5. /\ Seen(t)'.g = Seen(t).g /\ Seen(t)'.hi = p.hi /\ Seen(t)'.lo = p.lo
        /\ Arch(t)!FallThrough /\ mem'[t] = mem[t]
    BY <1>2, <2>3, <2>4, HiLoSeen
  <2>6. QED
    BY <1>3, <1>7, <1>13, <2>2, <2>3, <2>5, ArchWords DEF Arch!HiLo
<1>14. CASE i.op = "DIV"
  <2>1. PICK x \in -W..W : x = Signed(a)
    BY <1>11
  <2>2. PICK y \in -W..W : y = Signed(b)
    BY <1>11
  <2>3. PICK d : d = Divide(r, x, y)
    OBVIOUS
  <2>4. PICK h \in Word, l \in Word :
          /\ d = HiLoSet(r, h, l)
          /\ IF y = 0 THEN h = 0 /\ l = 0
             ELSE /\ l = Wrap(Arch(t)!Quotient(x, y))
                  /\ h = Wrap(x - Arch(t)!Quotient(x, y) * y)
    BY <1>1, <2>3, DivideIs
  <2>5. o = Plain(HiLoSet(r, h, l), mem[t])
    <3>1. o = IF a = W \div 2 /\ b = W - 1 THEN Stop(r, mem[t]) ELSE Plain(d, mem[t])
      BY <1>4, <1>5, <1>14, <2>1, <2>2, <2>3 DEF DoHiLo, G
    <3>2. Stop(r, mem[t]).how = "trap" /\ o.how = "done"
      BY DEF Stop, Outcome, Done
    <3>3. QED
      BY <2>4, <3>1, <3>2
  <2>6. /\ Seen(t)'.g = Seen(t).g /\ Seen(t)'.hi = h /\ Seen(t)'.lo = l
        /\ Arch(t)!FallThrough /\ mem'[t] = mem[t]
    BY <1>2, <2>5, HiLoSeen
  <2>7. CASE y = 0
    BY <1>3, <1>7, <1>14, <2>2, <2>4, <2>6, <2>7, ArchWords DEF Arch!HiLo
  <2>8. CASE y # 0
    <3>1. PICK c : c = Arch(t)!Quotient(x, y)
      OBVIOUS
    <3>2. l = Wrap(c) /\ h = Wrap(x - c * y)
      BY <2>4, <2>8, <3>1
    <3>3. QED
      BY <1>3, <1>7, <1>14, <2>1, <2>2, <2>6, <2>8, <3>1, <3>2, ArchWords DEF Arch!HiLo
  <2>9. QED
    BY <2>7, <2>8
<1>15. CASE i.op = "DIVU"
  <2>1. PICK d : d = Divide(r, a, b)
    OBVIOUS
  <2>2. PICK h \in Word, l \in Word :
          /\ d = HiLoSet(r, h, l)
          /\ IF b = 0 THEN h = 0 /\ l = 0
             ELSE /\ l = Wrap(Arch(t)!Quotient(a, b))
                  /\ h = Wrap(a - Arch(t)!Quotient(a, b) * b)
    BY <1>1, <1>10, <2>1, DivideIs
  <2>3. o = Plain(HiLoSet(r, h, l), mem[t])
    BY <1>4, <1>5, <1>15, <2>1, <2>2 DEF DoHiLo, G
  <2>4. /\ Seen(t)'.g = Seen(t).g /\ Seen(t)'.hi = h /\ Seen(t)'.lo = l
        /\ Arch(t)!FallThrough /\ mem'[t] = mem[t]
    BY <1>2, <2>3, HiLoSeen
  <2>5. CASE b = 0
    BY <1>3, <1>7, <1>15, <2>2, <2>4, <2>5, ArchWords DEF Arch!HiLo
  <2>6. CASE b # 0
    <3>1. PICK c : c = Arch(t)!Quotient(a, b)
      OBVIOUS
    <3>2. l = Wrap(c) /\ h = Wrap(a - c * b)
      BY <2>2, <2>6, <3>1
    <3>3. QED
      BY <1>3, <1>7, <1>15, <2>4, <2>6, <3>1, <3>2, ArchWords DEF Arch!HiLo
  <2>7. QED
    BY <2>5, <2>6
<1>16. CASE i.op = "MTHI"
  <2>1. o = Plain(HiLoSet(r, a, r.lo), mem[t])
    BY <1>1, <1>4, <1>16, HiSetIs DEF DoHiLo, G
  <2>2. /\ Seen(t)'.g = Seen(t).g /\ Seen(t)'.hi = a /\ Seen(t)'.lo = r.lo
        /\ Arch(t)!FallThrough /\ mem'[t] = mem[t]
    BY <1>2, <1>6, <1>8, <2>1, HiLoSeen
  <2>3. QED
    BY <1>3, <1>7, <1>16, <2>2 DEF Arch!HiLo
<1>17. CASE i.op = "MTLO"
  <2>1. o = Plain(HiLoSet(r, r.hi, a), mem[t])
    BY <1>1, <1>4, <1>17, LoSetIs DEF DoHiLo, G
  <2>2. /\ Seen(t)'.g = Seen(t).g /\ Seen(t)'.hi = r.hi /\ Seen(t)'.lo = a
        /\ Arch(t)!FallThrough /\ mem'[t] = mem[t]
    BY <1>2, <1>6, <1>8, <2>1, HiLoSeen
  <2>3. QED
    BY <1>3, <1>7, <1>17, <2>2 DEF Arch!HiLo
<1>18. QED
  BY <1>12, <1>13, <1>14, <1>15, <1>16, <1>17 DEF HiLoOps

(* The address is one of memory, and so are the bytes up to the last.      *)
LEMMA AddressIs ==
  ASSUME NEW t, NEW r, NEW i, AtWork(t, r, i), i.op # "SYSCALL"
  PROVE  /\ Address(r, i) \in Nat /\ Arch(t)!Addr(i) = Address(r, i)
         /\ Size(i.op) \in {1, 2, 4} /\ Arch(t)!Size(i.op) = Size(i.op)
<1>1. r \in RegisterValues /\ IsInstruction(i)
  BY DEF AtWork, RegisterFile
<1>2. PICK a \in Int : a = r.g[i.rs]
  BY <1>1, RegisterTypes, WordSize DEF IsInstruction, Word
<1>3. PICK n \in Int : n = a + i.extra
  BY <1>1, SignedImmediate DEF IsInstruction
<1>4. Wrap(n) \in Nat
  BY WrapType, WordSize DEF Word
<1>5. Seen(t).g[i.rs] = a
  BY <1>2, OperandsSeen
<1>6. Address(r, i) = Wrap(n) /\ Arch(t)!Addr(i) = Wrap(n)
  BY <1>2, <1>3, <1>5, ArchWords DEF Address, Arch!Addr, G
<1>7. Size(i.op) \in {1, 2, 4}
  BY DEF Size
<1>8. Arch(t)!Size(i.op) = Size(i.op)
  BY DEF Size, Arch!Size
<1>9. QED
  BY <1>4, <1>6, <1>7, <1>8

LEMMA LoadStep ==
  ASSUME NEW t, NEW r, NEW i, AtWork(t, r, i), i.op \in LoadOps, NEW o, Done(t, o),
         o = DoLoad(r, i, mem[t])
  PROVE  Arch(t)!Transfer
<1>1. r \in RegisterFile /\ r \in RegisterValues /\ IsInstruction(i) /\ IsMemory(mem[t])
  BY DEF AtWork, RegisterFile
<1>2. i.op # "SYSCALL" /\ i.op \in {"LB", "LBU", "LH", "LHU", "LW"} /\ instr[t] = i
  BY <1>1 DEF LoadOps, IsInstruction, WrongOps, AtWork
<1>3. PICK addr \in Nat : addr = Address(r, i)
  BY <1>2, AddressIs
<1>4. PICK size \in {1, 2, 4} : size = Size(i.op)
  BY <1>2, AddressIs
<1>5. PICK value : value = Read(mem[t], addr, size)
  OBVIOUS
<1>6. Stop(r, mem[t]).how = "trap" /\ o.how = "done"
  BY DEF Stop, Outcome, Done
<1>7. addr % size = 0 /\ addr + size - 1 \in DOMAIN mem[t]
  <2>1. Reaches(mem[t], addr, size)
    BY <1>3, <1>4, <1>6 DEF DoLoad
  <2>2. QED
    BY <2>1 DEF Reaches
<1>8. value \in 0..(Values(size) - 1)
  BY <1>1, <1>5, <1>7, ReadType
<1>9. PICK v : v = IF i.op \in {"LB", "LH"} THEN Extend(value, size) ELSE value
  OBVIOUS
<1>10. v \in Word
  BY <1>8, <1>9, ExtendType
<1>11. o = Outcome("done", r, i.rt, v, PcAfter(r), mem[t])
  <2>1. Reaches(mem[t], addr, size)
    BY <1>7 DEF Reaches
  <2>2. CASE i.op \in {"LB", "LH"}
    BY <1>3, <1>4, <1>5, <1>9, <2>1, <2>2 DEF DoLoad
  <2>3. CASE i.op \in {"LBU", "LHU", "LW"}
    BY <1>3, <1>4, <1>5, <1>9, <2>1, <2>3 DEF DoLoad
  <2>4. QED
    BY <1>2, <2>2, <2>3
<1>12. /\ Seen(t)'.g = [Landed(r) EXCEPT ![i.rt] = IF i.rt = 0 THEN 0 ELSE v]
       /\ Seen(t)'.hi = r.hi /\ Seen(t)'.lo = r.lo
       /\ Seen(t)'.pc = r.npc /\ Seen(t)'.npc = PcAfter(r)
  <2>1. PICK n \in Int : n = PcAfter(r)
    BY <1>1, PcAfterType
  <2>2. SeesSet(After(o), r, i.rt, v, n)
    BY <1>1, <1>10, <1>11, <2>1, LoadSeen DEF IsInstruction
  <2>3. QED
    BY <2>1, <2>2 DEF Done, SeesSet
<1>13. mem'[t] = mem[t]
  BY <1>11 DEF Done, Outcome
<1>14. Seen(t)'.g = Arch(t)!Set(i.rt, v)
  BY <1>2, <1>12, OperandsSeen DEF Arch!Set
<1>15. Arch(t)!FallThrough
  BY <1>2, <1>12, OperandsSeen, ArchWords DEF Arch!FallThrough, PcAfter
<1>16. Arch(t)!Addr(i) = addr /\ Arch(t)!Size(i.op) = size
  BY <1>2, <1>3, <1>4, AddressIs
<1>17. v = IF i.op \in {"LB", "LH"} THEN Arch(t)!Extend(Arch(t)!Read(mem[t], addr, size), size)
           ELSE Arch(t)!Read(mem[t], addr, size)
  BY <1>5, <1>9, ArchMemory
<1>18. i.op \in Arch(t)!LoadOps /\ i.op \notin Arch(t)!StoreOps
  BY <1>2 DEF Arch!LoadOps, Arch!StoreOps
<1>19. Seen(t)'.hi = Seen(t).hi /\ Seen(t)'.lo = Seen(t).lo
  BY <1>2, <1>12, OperandsSeen
<1>20. QED
  BY <1>2, <1>7, <1>13, <1>14, <1>15, <1>16, <1>17, <1>18, <1>19 DEF Arch!Transfer

LEMMA StoreStep ==
  ASSUME NEW t, NEW r, NEW i, AtWork(t, r, i), i.op \in StoreOps, NEW o, Done(t, o),
         o = DoStore(r, i, mem[t])
  PROVE  Arch(t)!Transfer
<1>1. r \in RegisterFile /\ r \in RegisterValues /\ IsInstruction(i) /\ IsMemory(mem[t])
  BY DEF AtWork, RegisterFile
<1>2. /\ i.op # "SYSCALL" /\ i.op \notin LoadOps /\ i.op \in {"SB", "SH", "SW"}
      /\ i.op # "SWR" /\ instr[t] = i
  BY <1>1 DEF LoadOps, StoreOps, IsInstruction, WrongOps, AtWork
<1>3. PICK addr \in Nat : addr = Address(r, i)
  BY <1>2, AddressIs
<1>4. PICK size \in {1, 2, 4} : size = Size(i.op)
  BY <1>2, AddressIs
<1>5. PICK reg : reg = r.g[i.rt]
  OBVIOUS
<1>6. Stop(r, mem[t]).how = "trap" /\ o.how = "done"
  BY DEF Stop, Outcome, Done
<1>7. addr % size = 0 /\ addr + size - 1 \in DOMAIN mem[t]
  <2>1. Reaches(mem[t], addr, size)
    BY <1>3, <1>4, <1>6 DEF DoStore
  <2>2. QED
    BY <2>1 DEF Reaches
<1>8. PICK w : w = Write(mem[t], addr, size, reg)
  OBVIOUS
<1>9. o = Outcome("done", r, 0, 0, PcAfter(r), w)
  <2>1. Reaches(mem[t], addr, size)
    BY <1>7 DEF Reaches
  <2>2. o = Plain(r, w)
    BY <1>2, <1>3, <1>4, <1>5, <1>8, <2>1 DEF DoStore, G
  <2>3. QED
    BY <2>2 DEF Plain
<1>10. /\ Seen(t)'.g = Landed(r) /\ Seen(t)'.hi = r.hi /\ Seen(t)'.lo = r.lo
       /\ Seen(t)'.pc = r.npc /\ Seen(t)'.npc = PcAfter(r)
  BY <1>1, <1>9, KeepSeen, PcAfterType DEF Done
<1>11. mem'[t] = w
  BY <1>9 DEF Done, Outcome
<1>12. Arch(t)!FallThrough
  BY <1>2, <1>10, OperandsSeen, ArchWords DEF Arch!FallThrough, PcAfter
<1>13. Arch(t)!Addr(i) = addr /\ Arch(t)!Size(i.op) = size
  BY <1>2, <1>3, <1>4, AddressIs
<1>14. Arch(t)!Write(mem[t], addr, size, Seen(t).g[i.rt]) = w
  <2>1. Seen(t).g[i.rt] = reg
    BY <1>2, <1>5, OperandsSeen DEF SameOperands
  <2>2. QED
    BY <1>8, <2>1, ArchMemory
<1>15. i.op \in Arch(t)!StoreOps
  BY <1>2 DEF Arch!StoreOps
<1>16. /\ Seen(t)'.hi = Seen(t).hi /\ Seen(t)'.lo = Seen(t).lo /\ Seen(t)'.g = Seen(t).g
  BY <1>2, <1>10, OperandsSeen
<1>17. QED
  BY <1>2, <1>7, <1>11, <1>12, <1>13, <1>14, <1>15, <1>16 DEF Arch!Transfer

(* Where a branch goes, from the registers before it links.                *)
LinkOps == {"BGEZAL", "BLTZAL", "JAL", "JALR"}
LinkReg(i) == IF i.op = "JALR" THEN i.rd ELSE 31
Linked(r, i) == IF i.op \in LinkOps THEN SetG(r, LinkReg(i), PcAfter(r)) ELSE r
TestIs(r, i) ==
  CASE i.op = "BEQ" -> r.g[i.rs] = r.g[i.rt]
    [] i.op = "BNE" -> r.g[i.rs] # r.g[i.rt]
    [] i.op \in {"BGEZ", "BGEZAL"} -> ~SignBit(r.g[i.rs])
    [] i.op \in {"BLTZ", "BLTZAL"} -> SignBit(r.g[i.rs])
    [] i.op = "BGTZ" -> Signed(r.g[i.rs]) > 0
    [] i.op = "BLEZ" -> Signed(r.g[i.rs]) <= 0
    [] OTHER -> FALSE
BranchTo(r, i) ==
  CASE i.op \in {"J", "JAL"} -> (PcAfter(r) \div JumpRegion) * JumpRegion + 4 * i.extra
    [] i.op \in {"JR", "JALR"} -> r.g[i.rs]
    [] OTHER -> IF TestIs(r, i) THEN Wrap(r.npc + 4 * i.extra) ELSE PcAfter(r)

LEMMA LinkedIs ==
  ASSUME NEW r \in RegisterValues, NEW i, IsInstruction(i), NEW n, n \in Reg,
         i.op \in LinkOps => n # LinkReg(i)
  PROVE  G(Linked(r, i), n) = r.g[n]
<1>1. CASE i.op \in LinkOps
  <2>1. PICK d \in Reg : d = LinkReg(i)
    BY RegNumbers DEF LinkReg, IsInstruction
  <2>2. PICK v \in Word : v = PcAfter(r)
    BY PcAfterType
  <2>3. SetG(r, d, v).g = [r.g EXCEPT ![d] = v]
    BY SetGIs
  <2>4. r.g \in [Reg -> Word]
    BY RegisterTypes
  <2>5. Linked(r, i).g = [r.g EXCEPT ![d] = v]
    BY <1>1, <2>1, <2>2, <2>3 DEF Linked
  <2>6. d # n
    BY <1>1, <2>1
  <2>7. QED
    BY <2>4, <2>5, <2>6 DEF G
<1>2. CASE i.op \notin LinkOps
  BY <1>2 DEF Linked, G
<1>3. QED
  BY <1>1, <1>2

LEMMA BranchIs ==
  ASSUME NEW r \in RegisterValues, NEW i, IsInstruction(i), NEW m,
         i.op \in Branches \union Jumps
  PROVE  DoBranch(r, i, m) = Outcome("done", Linked(r, i), 0, 0, BranchTo(r, i), m)
<1>1. i.rs \in Reg /\ i.rt \in Reg
  BY DEF IsInstruction
<1>2. PICK q : q = Linked(r, i)
  OBVIOUS
<1>3. i.op # "JAL" => G(q, i.rs) = r.g[i.rs]
  <2>1. i.op # "JAL" /\ i.op \in LinkOps => i.rs # LinkReg(i)
    BY DEF LinkOps, LinkReg, IsInstruction
  <2>2. QED
    BY <1>1, <1>2, <2>1, LinkedIs
<1>4. i.op \notin LinkOps => G(q, i.rt) = r.g[i.rt]
  BY <1>1, <1>2, LinkedIs
<1>5. PICK link : link = CASE i.op \in {"BGEZAL", "BLTZAL", "JAL"} -> SetG(r, 31, PcAfter(r))
                           [] i.op = "JALR" -> SetG(r, i.rd, PcAfter(r))
                           [] OTHER -> r
  OBVIOUS
<1>6. link = q
  BY <1>2, <1>5 DEF Linked, LinkOps, LinkReg
<1>7. CASE i.op \in {"J", "JAL"}
  <2>1. BranchTo(r, i) = (PcAfter(r) \div JumpRegion) * JumpRegion + 4 * i.extra
    BY <1>7 DEF BranchTo
  <2>2. QED
    BY <1>2, <1>5, <1>6, <1>7, <2>1 DEF DoBranch
<1>8. CASE i.op \in {"JR", "JALR"}
  <2>1. BranchTo(r, i) = G(q, i.rs)
    BY <1>3, <1>8 DEF BranchTo
  <2>2. QED
    BY <1>2, <1>5, <1>6, <1>8, <2>1 DEF DoBranch
<1>9. CASE i.op \in Branches
  <2>1. PICK taken : taken = CASE i.op = "BEQ" -> G(q, i.rs) = G(q, i.rt)
                               [] i.op = "BNE" -> G(q, i.rs) # G(q, i.rt)
                               [] i.op \in {"BGEZ", "BGEZAL"} -> ~SignBit(G(q, i.rs))
                               [] i.op \in {"BLTZ", "BLTZAL"} -> SignBit(G(q, i.rs))
                               [] i.op = "BGTZ" -> Signed(G(q, i.rs)) > 0
                               [] i.op = "BLEZ" -> Signed(G(q, i.rs)) <= 0
                               [] OTHER -> FALSE
    OBVIOUS
  <2>2. taken <=> TestIs(r, i)
    BY <1>3, <1>4, <1>9, <2>1 DEF TestIs, LinkOps, Branches
  <2>3. BranchTo(r, i) = IF TestIs(r, i) THEN Wrap(r.npc + 4 * i.extra) ELSE PcAfter(r)
    BY <1>9 DEF BranchTo, Branches
  <2>4. DoBranch(r, i, m) =
          Outcome("done", q, 0, 0, IF taken THEN Wrap(r.npc + 4 * i.extra) ELSE PcAfter(r), m)
    BY <1>5, <1>6, <1>9, <2>1 DEF DoBranch, Branches
  <2>5. QED
    BY <1>2, <2>2, <2>3, <2>4
<1>10. QED
  BY <1>7, <1>8, <1>9 DEF Jumps

LEMMA TestType ==
  ASSUME NEW t, NEW r, NEW i, AtWork(t, r, i), i.op \in Branches
  PROVE  Arch(t)!Taken(i) <=> TestIs(r, i)
<1>1. i.op # "SYSCALL" /\ i.op \notin LoadOps
  BY DEF Branches, LoadOps
<1>2. PICK a : a = r.g[i.rs]
  OBVIOUS
<1>3. PICK b : b = r.g[i.rt]
  OBVIOUS
<1>4. Seen(t).g[i.rs] = a /\ Seen(t).g[i.rt] = b
  BY <1>1, <1>2, <1>3, OperandsSeen DEF SameOperands
<1>5. a \in Word
  BY <1>2, RegisterTypes DEF AtWork, RegisterFile, IsInstruction
<1>6. PICK h \in Nat \ {0} : W = 2 * h /\ W \div 2 = h
  BY HalfWord
<1>7. Signed(a) \in (-h)..(h - 1) /\ (Signed(a) < 0 <=> SignBit(a))
  BY <1>5, <1>6, SignedType
<1>8. Signed(a) >= 0 <=> ~SignBit(a)
  BY <1>7
<1>9. CASE i.op \in {"BEQ", "BNE"}
  BY <1>2, <1>3, <1>4, <1>9 DEF Arch!Taken, TestIs
<1>10. CASE i.op \in {"BGEZ", "BGEZAL"}
  BY <1>2, <1>4, <1>8, <1>10, ArchWords DEF Arch!Taken, TestIs
<1>11. CASE i.op \in {"BLTZ", "BLTZAL"}
  BY <1>2, <1>4, <1>7, <1>11, ArchWords DEF Arch!Taken, TestIs
<1>12. CASE i.op \in {"BGTZ", "BLEZ"}
  BY <1>2, <1>4, <1>12, ArchWords DEF Arch!Taken, TestIs
<1>13. QED
  BY <1>9, <1>10, <1>11, <1>12 DEF Branches

(* A branch is in no delay slot: the program counters stand one behind the *)
(* other.                                                                  *)
LEMMA CountersAre ==
  ASSUME NEW t, NEW r, NEW i, AtWork(t, r, i), i.op \in Branches \union Jumps
  PROVE  /\ r.pc \in Int /\ r.npc \in Int /\ r.npc = Wrap(r.pc + 4)
         /\ PcAfter(r) = Wrap(r.pc + 8)
<1>1. r.pc \in Int /\ r.npc \in Int
  BY RegisterTypes DEF AtWork, RegisterFile
<1>2. r.npc = Wrap(r.pc + 4)
  BY DEF AtWork, KeepsTheRules
<1>3. PICK n \in Int : n = r.pc + 4
  BY <1>1
<1>4. Wrap(Wrap(n) + 4) = Wrap(n + 4)
  BY WrapSum
<1>5. n + 4 = r.pc + 8
  BY <1>1, <1>3
<1>6. QED
  BY <1>1, <1>2, <1>3, <1>4, <1>5 DEF PcAfter

LEMMA BranchToIs ==
  ASSUME NEW t, NEW r, NEW i, AtWork(t, r, i), i.op \in Branches \union Jumps
  PROVE  /\ BranchTo(r, i) \in Int
         /\ BranchTo(r, i) =
              CASE i.op \in Arch(t)!Branches ->
                     Wrap(IF TestIs(r, i) THEN r.pc + 4 + 4 * i.extra ELSE r.npc + 4)
                [] i.op \in {"J", "JAL"} ->
                     (Wrap(r.pc + 4) \div JumpRegion) * JumpRegion + 4 * i.extra
                [] i.op \in {"JR", "JALR"} -> r.g[i.rs]
<1>1. r \in RegisterValues /\ IsInstruction(i) /\ KeepsTheRules(r, i)
  BY DEF AtWork, RegisterFile
<1>2. PICK x \in Int : x = i.extra
  BY <1>1, SignedImmediate DEF IsInstruction
<1>3. r.pc \in Int /\ r.npc \in Int /\ r.npc = Wrap(r.pc + 4)
  BY CountersAre
<1>4. \A n \in Word : n \in Int
  BY WordSize DEF Word
<1>5. CASE i.op \in {"J", "JAL"}
  <2>1. PICK k : k = PcAfter(r) \div JumpRegion
    OBVIOUS
  <2>2. k = r.npc \div JumpRegion
    BY <1>1, <1>5, <2>1 DEF KeepsTheRules
  <2>3. k \in Int /\ JumpRegion \in Int
    BY <1>3, <2>2, SimAssumption
  <2>4. k * JumpRegion + 4 * x \in Int
    BY <1>2, <2>3
  <2>5. BranchTo(r, i) = k * JumpRegion + 4 * x
    BY <1>2, <1>5, <2>1 DEF BranchTo
  <2>6. i.op \notin Arch(t)!Branches
    BY <1>5 DEF Arch!Branches
  <2>7. QED
    BY <1>2, <1>3, <1>5, <2>2, <2>4, <2>5, <2>6
<1>6. CASE i.op \in {"JR", "JALR"}
  <2>1. r.g[i.rs] \in Int
    BY <1>1, <1>4, RegisterTypes DEF IsInstruction
  <2>2. i.op \notin Arch(t)!Branches
    BY <1>6 DEF Arch!Branches
  <2>3. QED
    BY <1>6, <2>1, <2>2 DEF BranchTo
<1>7. CASE i.op \in Branches
  <2>1. BranchTo(r, i) = IF TestIs(r, i) THEN Wrap(r.npc + 4 * x) ELSE PcAfter(r)
    BY <1>2, <1>7 DEF BranchTo, Branches
  <2>2. PICK n \in Int : n = r.pc + 4
    BY <1>3
  <2>3. PICK y \in Int : y = 4 * x
    OBVIOUS
  <2>4. Wrap(r.npc + y) = Wrap(n + y)
    BY <1>3, <2>2, WrapSum
  <2>5. Wrap(n + y) \in Word
    BY WrapType
  <2>6. PcAfter(r) = Wrap(r.npc + 4) /\ PcAfter(r) \in Word
    BY <1>1, PcAfterType DEF PcAfter
  <2>7. i.op \in Arch(t)!Branches
    BY <1>7 DEF Branches, Arch!Branches
  <2>8. PICK c : c = IF TestIs(r, i) THEN r.pc + 4 + 4 * i.extra ELSE r.npc + 4
    OBVIOUS
  <2>9. BranchTo(r, i) = Wrap(c) /\ BranchTo(r, i) \in Int
    <3>1. CASE TestIs(r, i)
      <4>1. c = n + y
        BY <1>2, <2>2, <2>3, <2>8, <3>1
      <4>2. QED
        BY <1>2, <1>4, <2>1, <2>3, <2>4, <2>5, <3>1, <4>1
    <3>2. CASE ~TestIs(r, i)
      BY <1>4, <2>1, <2>6, <2>8, <3>2
    <3>3. QED
      BY <3>1, <3>2
  <2>10. i.op \notin {"J", "JAL", "JR", "JALR"}
    BY <1>7 DEF Branches
  <2>11. PICK w : w = Wrap(c)
    OBVIOUS
  <2>12. w = CASE i.op \in Arch(t)!Branches -> w
              [] i.op \in {"J", "JAL"} ->
                (Wrap(r.pc + 4) \div JumpRegion) * JumpRegion + 4 * i.extra
              [] i.op \in {"JR", "JALR"} -> r.g[i.rs]
    BY <2>7, <2>10
  <2>13. QED
    BY <2>8, <2>9, <2>11, <2>12, Zenon
<1>8. QED
  BY <1>5, <1>6, <1>7 DEF Jumps

LEMMA BranchStep ==
  ASSUME NEW t, NEW r, NEW i, AtWork(t, r, i), i.op \in Branches \union Jumps,
         NEW o, Done(t, o), o = DoBranch(r, i, mem[t])
  PROVE  Arch(t)!Branch
<1>1. /\ r \in RegisterFile /\ r \in RegisterValues /\ IsInstruction(i)
      /\ KeepsTheRules(r, i) /\ instr[t] = i
  BY DEF AtWork, RegisterFile
<1>2. i.op # "SYSCALL" /\ i.op \notin LoadOps
  BY DEF Branches, Jumps, LoadOps
<1>3. PICK to \in Int : to = BranchTo(r, i)
  BY BranchToIs
<1>4. o = Outcome("done", Linked(r, i), 0, 0, to, mem[t])
  BY <1>1, <1>3, BranchIs
<1>5. mem'[t] = mem[t]
  BY <1>4 DEF Done, Outcome
<1>6. PICK d \in Reg : d = LinkReg(i)
  BY <1>1, RegNumbers DEF LinkReg, IsInstruction
<1>7. PICK v \in Word : v = PcAfter(r)
  BY <1>1, PcAfterType
<1>8. /\ Seen(t)'.g = IF i.op \in LinkOps
                      THEN [Landed(r) EXCEPT ![d] = IF d = 0 THEN 0 ELSE v]
                      ELSE Landed(r)
      /\ Seen(t)'.hi = r.hi /\ Seen(t)'.lo = r.lo
      /\ Seen(t)'.pc = r.npc /\ Seen(t)'.npc = to
  <2>1. CASE i.op \in LinkOps
    <3>1. r.loadReg = 0 \/ d # r.loadReg
      BY <1>1, <1>2, <1>6, <2>1 DEF KeepsTheRules, Touches, LinkOps, LinkReg
    <3>2. Seen(t)' = After(Outcome("done", SetG(r, d, v), 0, 0, to, mem[t]))
      BY <1>4, <1>6, <1>7, <2>1 DEF Done, Linked
    <3>3. SeesSet(Seen(t)', r, d, v, to)
      BY <1>1, <3>1, <3>2, SetSeen
    <3>4. QED
      BY <2>1, <3>3 DEF SeesSet
  <2>2. CASE i.op \notin LinkOps
    <3>1. Seen(t)' = After(Outcome("done", r, 0, 0, to, mem[t]))
      BY <1>4, <2>2 DEF Done, Linked
    <3>2. QED
      BY <1>1, <1>4, <2>2, <3>1, KeepSeen
  <2>3. QED
    BY <2>1, <2>2
<1>9. /\ Seen(t).g = Landed(r) /\ Seen(t).hi = r.hi /\ Seen(t).lo = r.lo
      /\ Seen(t).pc = r.pc /\ Seen(t).npc = r.npc
      /\ Seen(t).g[i.rs] = r.g[i.rs]
  BY <1>2, OperandsSeen
<1>10. v = Wrap(r.pc + 8)
  BY <1>7, CountersAre
<1>11. Seen(t)'.g = CASE i.op \in {"BGEZAL", "BLTZAL", "JAL"} -> Arch(t)!Set(31, v)
                      [] i.op = "JALR" -> Arch(t)!Set(i.rd, v)
                      [] OTHER -> Seen(t).g
  <2>1. CASE i.op \in {"BGEZAL", "BLTZAL", "JAL"}
    <3>1. d = 31 /\ i.op \in LinkOps
      BY <1>6, <2>1 DEF LinkReg, LinkOps
    <3>2. QED
      BY <1>8, <1>9, <2>1, <3>1 DEF Arch!Set
  <2>2. CASE i.op = "JALR"
    <3>1. d = i.rd /\ i.op \in LinkOps
      BY <1>6, <2>2 DEF LinkReg, LinkOps
    <3>2. QED
      BY <1>8, <1>9, <2>2, <3>1 DEF Arch!Set
  <2>3. CASE i.op \notin {"BGEZAL", "BLTZAL", "JAL", "JALR"}
    BY <1>8, <1>9, <2>3 DEF LinkOps
  <2>4. QED
    BY <2>1, <2>2, <2>3
<1>12. i.op \in Branches => (Arch(t)!Taken(i) <=> TestIs(r, i))
  BY TestType
<1>13. /\ i.op \in Arch(t)!Branches \union Arch(t)!Jumps
       /\ i.op \in Arch(t)!Branches <=> i.op \in Branches
  BY DEF Branches, Jumps, Arch!Branches, Arch!Jumps
<1>14. Seen(t)'.npc =
         CASE i.op \in Arch(t)!Branches ->
                Wrap(IF Arch(t)!Taken(i) THEN r.pc + 4 + 4 * i.extra ELSE r.npc + 4)
           [] i.op \in {"J", "JAL"} ->
                (Wrap(r.pc + 4) \div JumpRegion) * JumpRegion + 4 * i.extra
           [] i.op \in {"JR", "JALR"} -> r.g[i.rs]
  <2>1. CASE i.op \in Branches
    BY <1>3, <1>8, <1>12, <1>13, <2>1, BranchToIs
  <2>2. CASE i.op \notin Branches
    <3>1. PICK b : b = CASE i.op \in Arch(t)!Branches ->
                Wrap(IF TestIs(r, i) THEN r.pc + 4 + 4 * i.extra ELSE r.npc + 4)
           [] i.op \in {"J", "JAL"} ->
                (Wrap(r.pc + 4) \div JumpRegion) * JumpRegion + 4 * i.extra
           [] i.op \in {"JR", "JALR"} -> r.g[i.rs]
      OBVIOUS
    <3>2. to = b
      BY <1>3, <3>1, BranchToIs
    <3>3. i.op \notin Arch(t)!Branches /\ i.op \in {"J", "JAL", "JR", "JALR"}
      BY <1>13, <2>2 DEF Jumps
    <3>4. QED
      BY <1>8, <3>1, <3>2, <3>3
  <2>3. QED
    BY <2>1, <2>2
<1>15. QED
  BY <1>1, <1>5, <1>8, <1>9, <1>10, <1>11, <1>13, <1>14, ArchWords DEF Arch!Branch

-----------------------------------------------------------------------------
(* What an instruction leaves behind.                                      *)

LEMMA PlainType ==
  ASSUME NEW q \in RegisterValues, NEW m, IsMemory(m), NEW o, o = Plain(q, m)
  PROVE  Advance(o) \in RegisterFile /\ IsMemory(o.mem)
<1>1. 0 \in Reg /\ 0 \in Word
  BY RegNumbers, WordSize
<1>2. PICK n \in Int : n = PcAfter(q)
  BY PcAfterType
<1>3. o = Outcome("done", q, 0, 0, n, m)
  BY <1>2 DEF Plain
<1>4. Advance(o) \in RegisterFile
  BY <1>1, <1>3, AdvanceIs
<1>5. o.mem = m
  BY <1>3 DEF Outcome
<1>6. QED
  BY <1>4, <1>5

LEMMA HiLoType ==
  ASSUME NEW t, NEW r, NEW i, AtWork(t, r, i), i.op \in HiLoOps, NEW o,
         o = DoHiLo(r, i, mem[t]), o.how = "done"
  PROVE  Advance(o) \in RegisterFile /\ IsMemory(o.mem)
<1>1. r \in RegisterValues /\ IsInstruction(i) /\ IsMemory(mem[t])
  BY DEF AtWork, RegisterFile
<1>2. PICK a : a = r.g[i.rs]
  OBVIOUS
<1>3. PICK b : b = r.g[i.rt]
  OBVIOUS
<1>4. a \in Word /\ b \in Word /\ r.hi \in Word /\ r.lo \in Word
  BY <1>1, <1>2, <1>3, RegisterTypes DEF IsInstruction
<1>5. PICK w \in Nat : w = W
  BY WordSize
<1>6. a \in -W..W /\ b \in -W..W
  BY <1>4, <1>5 DEF Word
<1>7. Signed(a) \in -W..W /\ Signed(b) \in -W..W
  <2>1. PICK k \in Nat \ {0} : W = 2 * k /\ W \div 2 = k
    BY HalfWord
  <2>2. Signed(a) \in (-k)..(k - 1) /\ Signed(b) \in (-k)..(k - 1)
    BY <1>4, <2>1, SignedType
  <2>3. QED
    BY <2>1, <2>2
<1>8. ASSUME NEW h \in Word, NEW l \in Word
      PROVE  HiLoSet(r, h, l) \in RegisterValues
  <2>1. /\ r.g \in [Reg -> Word] /\ r.pc \in Int /\ r.npc \in Int /\ r.loadReg \in Reg
        /\ r.loadValue \in Word
    BY <1>1, RegisterTypes
  <2>2. QED
    BY <2>1 DEF HiLoSet, RegisterValues
<1>9. ASSUME NEW x \in -W..W, NEW y \in -W..W
      PROVE  Divide(r, x, y) \in RegisterValues
  BY <1>1, <1>8, DivideIs
<1>10. CASE i.op = "MULT"
  <2>1. PICK p : p = Mult(a, b, TRUE)
    OBVIOUS
  <2>2. p.hi \in Word /\ p.lo \in Word
    BY <1>4, <2>1, MultSigned
  <2>3. o = Plain(HiThenLo(r, p.hi, p.lo), mem[t])
    BY <1>2, <1>3, <1>10, <2>1 DEF DoHiLo, G, HiThenLo
  <2>4. HiThenLo(r, p.hi, p.lo) \in RegisterValues
    BY <1>1, <1>8, <2>2, HiThenLoIs
  <2>5. QED
    BY <1>1, <2>3, <2>4, PlainType
<1>11. CASE i.op = "MULTU"
  <2>1. PICK p : p = Mult(a, b, FALSE)
    OBVIOUS
  <2>2. p.hi \in Word /\ p.lo \in Word
    BY <1>4, <2>1, MultUnsigned
  <2>3. o = Plain(HiThenLo(r, p.hi, p.lo), mem[t])
    BY <1>2, <1>3, <1>11, <2>1 DEF DoHiLo, G, HiThenLo
  <2>4. HiThenLo(r, p.hi, p.lo) \in RegisterValues
    BY <1>1, <1>8, <2>2, HiThenLoIs
  <2>5. QED
    BY <1>1, <2>3, <2>4, PlainType
<1>12. CASE i.op = "DIV"
  <2>1. PICK d : d = Divide(r, Signed(a), Signed(b))
    OBVIOUS
  <2>2. d \in RegisterValues
    BY <1>7, <1>9, <2>1
  <2>3. o = IF a = W \div 2 /\ b = W - 1 THEN Stop(r, mem[t]) ELSE Plain(d, mem[t])
    BY <1>2, <1>3, <1>12, <2>1 DEF DoHiLo, G
  <2>4. Stop(r, mem[t]).how = "trap"
    BY DEF Stop, Outcome
  <2>5. o = Plain(d, mem[t])
    BY <2>3, <2>4
  <2>6. QED
    BY <1>1, <2>2, <2>5, PlainType
<1>13. CASE i.op = "DIVU"
  <2>1. PICK d : d = Divide(r, a, b)
    OBVIOUS
  <2>2. d \in RegisterValues
    BY <1>6, <1>9, <2>1
  <2>3. o = Plain(d, mem[t])
    BY <1>2, <1>3, <1>13, <2>1 DEF DoHiLo, G
  <2>4. QED
    BY <1>1, <2>2, <2>3, PlainType
<1>14. CASE i.op = "MTHI"
  <2>1. o = Plain(HiLoSet(r, a, r.lo), mem[t])
    BY <1>1, <1>2, <1>14, HiSetIs DEF DoHiLo, G
  <2>2. QED
    BY <1>1, <1>4, <1>8, <2>1, PlainType
<1>15. CASE i.op = "MTLO"
  <2>1. o = Plain(HiLoSet(r, r.hi, a), mem[t])
    BY <1>1, <1>2, <1>15, LoSetIs DEF DoHiLo, G
  <2>2. QED
    BY <1>1, <1>4, <1>8, <2>1, PlainType
<1>16. QED
  BY <1>10, <1>11, <1>12, <1>13, <1>14, <1>15 DEF HiLoOps

LEMMA AluOutcomeType ==
  ASSUME NEW t, NEW r, NEW i, AtWork(t, r, i), i.op \in AluOps, NEW o,
         o = DoAlu(r, i, mem[t]), o.how = "done"
  PROVE  Advance(o) \in RegisterFile /\ IsMemory(o.mem)
<1>1. r \in RegisterValues /\ IsInstruction(i) /\ IsMemory(mem[t])
  BY DEF AtWork, RegisterFile
<1>2. PICK d : d = IF i.op \in ToRt THEN i.rt ELSE i.rd
  OBVIOUS
<1>3. PICK v : v = Alu(r, i)
  OBVIOUS
<1>4. d \in Reg /\ v \in Word
  BY <1>1, <1>2, <1>3, AluType DEF IsInstruction
<1>5. SetG(r, d, v) \in RegisterValues
  BY <1>1, <1>4, SetGIs
<1>6. o = Plain(SetG(r, d, v), mem[t])
  BY <1>2, <1>3 DEF DoAlu, Stop, Outcome
<1>7. QED
  BY <1>1, <1>5, <1>6, PlainType

LEMMA LoadType ==
  ASSUME NEW t, NEW r, NEW i, AtWork(t, r, i), i.op \in LoadOps, NEW o,
         o = DoLoad(r, i, mem[t]), o.how = "done"
  PROVE  Advance(o) \in RegisterFile /\ IsMemory(o.mem)
<1>1. r \in RegisterValues /\ IsInstruction(i) /\ IsMemory(mem[t])
  BY DEF AtWork, RegisterFile
<1>2. i.op # "SYSCALL" /\ i.op \in {"LB", "LBU", "LH", "LHU", "LW"}
  BY <1>1 DEF LoadOps, IsInstruction, WrongOps
<1>3. PICK addr \in Nat : addr = Address(r, i)
  BY <1>2, AddressIs
<1>4. PICK size \in {1, 2, 4} : size = Size(i.op)
  BY <1>2, AddressIs
<1>5. PICK value : value = Read(mem[t], addr, size)
  OBVIOUS
<1>6. Stop(r, mem[t]).how = "trap"
  BY DEF Stop, Outcome
<1>7. Reaches(mem[t], addr, size)
  BY <1>3, <1>4, <1>6 DEF DoLoad
<1>8. value \in 0..(Values(size) - 1)
  BY <1>1, <1>5, <1>7, ReadType DEF Reaches
<1>9. Extend(value, size) \in Word /\ value \in Word
  BY <1>8, ExtendType
<1>10. PICK v \in Word : o = Outcome("done", r, i.rt, v, PcAfter(r), mem[t])
  <2>1. CASE i.op \in {"LB", "LH"}
    BY <1>3, <1>4, <1>5, <1>7, <1>9, <2>1 DEF DoLoad
  <2>2. CASE i.op \in {"LBU", "LHU", "LW"}
    BY <1>3, <1>4, <1>5, <1>7, <1>9, <2>2 DEF DoLoad
  <2>3. QED
    BY <1>2, <2>1, <2>2
<1>11. PICK n \in Int : n = PcAfter(r)
  BY <1>1, PcAfterType
<1>12. Advance(o) \in RegisterFile
  BY <1>1, <1>10, <1>11, AdvanceIs DEF IsInstruction
<1>13. o.mem = mem[t]
  BY <1>10 DEF Outcome
<1>14. QED
  BY <1>1, <1>12, <1>13

LEMMA StoreType ==
  ASSUME NEW t, NEW r, NEW i, AtWork(t, r, i), i.op \in StoreOps, NEW o,
         o = DoStore(r, i, mem[t]), o.how = "done"
  PROVE  Advance(o) \in RegisterFile /\ IsMemory(o.mem)
<1>1. r \in RegisterValues /\ IsInstruction(i) /\ IsMemory(mem[t])
  BY DEF AtWork, RegisterFile
<1>2. i.op # "SYSCALL" /\ i.op # "SWR"
  BY <1>1 DEF StoreOps, IsInstruction, WrongOps
<1>3. PICK addr \in Nat : addr = Address(r, i)
  BY <1>2, AddressIs
<1>4. PICK size \in {1, 2, 4} : size = Size(i.op)
  BY <1>2, AddressIs
<1>5. PICK reg \in Word : reg = r.g[i.rt]
  BY <1>1, RegisterTypes DEF IsInstruction
<1>6. Stop(r, mem[t]).how = "trap"
  BY DEF Stop, Outcome
<1>7. Reaches(mem[t], addr, size)
  BY <1>3, <1>4, <1>6 DEF DoStore
<1>8. PICK w : w = Write(mem[t], addr, size, reg)
  OBVIOUS
<1>9. o = Plain(r, w)
  BY <1>2, <1>3, <1>4, <1>5, <1>7, <1>8 DEF DoStore, G
<1>10. IsMemory(w)
  BY <1>1, <1>8, WriteType
<1>11. QED
  BY <1>1, <1>9, <1>10, PlainType

LEMMA BranchOutcomeType ==
  ASSUME NEW t, NEW r, NEW i, AtWork(t, r, i), i.op \in Branches \union Jumps, NEW o,
         o = DoBranch(r, i, mem[t])
  PROVE  Advance(o) \in RegisterFile /\ IsMemory(o.mem)
<1>1. r \in RegisterValues /\ IsInstruction(i) /\ IsMemory(mem[t])
  BY DEF AtWork, RegisterFile
<1>2. PICK to \in Int : to = BranchTo(r, i)
  BY BranchToIs
<1>3. PICK q : q = Linked(r, i)
  OBVIOUS
<1>4. o = Outcome("done", q, 0, 0, to, mem[t])
  BY <1>1, <1>2, <1>3, BranchIs
<1>5. q \in RegisterValues
  <2>1. PICK d \in Reg : d = LinkReg(i)
    BY <1>1, RegNumbers DEF LinkReg, IsInstruction
  <2>2. PICK v \in Word : v = PcAfter(r)
    BY <1>1, PcAfterType
  <2>3. SetG(r, d, v) \in RegisterValues
    BY <1>1, SetGIs
  <2>4. QED
    BY <1>1, <1>3, <2>1, <2>2, <2>3 DEF Linked
<1>6. 0 \in Reg /\ 0 \in Word
  BY RegNumbers, WordSize
<1>7. Advance(o) \in RegisterFile
  BY <1>4, <1>5, <1>6, AdvanceIs
<1>8. o.mem = mem[t]
  BY <1>4 DEF Outcome
<1>9. QED
  BY <1>1, <1>7, <1>8

(* The group of an opcode decides.                                         *)
Dispatched(r, i, m, o) ==
  /\ i.op \in AluOps => o = DoAlu(r, i, m)
  /\ i.op \in HiLoOps => o = DoHiLo(r, i, m)
  /\ i.op \in LoadOps => o = DoLoad(r, i, m)
  /\ i.op \in StoreOps => o = DoStore(r, i, m)
  /\ i.op \in Branches \union Jumps => o = DoBranch(r, i, m)
  /\ i.op = "SYSCALL" => o = Outcome("syscall", r, 0, 0, 0, m)
  /\ i.op \notin AluOps \union HiLoOps \union LoadOps \union StoreOps
                 \union Branches \union Jumps \union {"SYSCALL"} => o = Stop(r, m)

LEMMA OneDispatched ==
  ASSUME NEW r, NEW i, NEW m
  PROVE  Dispatched(r, i, m, OneInstruction(r, i, m))
<1>1. PICK o : o = OneInstruction(r, i, m)
  OBVIOUS
<1>2. i.op \in AluOps => o = DoAlu(r, i, m)
  <2>1. SUFFICES ASSUME i.op \in AluOps PROVE o = DoAlu(r, i, m)
    OBVIOUS
  <2>2. /\ i.op \notin HiLoOps /\ i.op \notin LoadOps /\ i.op \notin StoreOps
        /\ i.op \notin Branches \union Jumps /\ i.op # "SYSCALL"
    BY <2>1 DEF AluOps, HiLoOps, LoadOps, StoreOps, Branches, Jumps
  <2>3. QED
    BY <1>1, <2>1, <2>2 DEF OneInstruction
<1>3. i.op \in HiLoOps => o = DoHiLo(r, i, m)
  <2>1. SUFFICES ASSUME i.op \in HiLoOps PROVE o = DoHiLo(r, i, m)
    OBVIOUS
  <2>2. /\ i.op \notin AluOps /\ i.op \notin LoadOps /\ i.op \notin StoreOps
        /\ i.op \notin Branches \union Jumps /\ i.op # "SYSCALL"
    BY <2>1 DEF AluOps, HiLoOps, LoadOps, StoreOps, Branches, Jumps
  <2>3. QED
    BY <1>1, <2>1, <2>2 DEF OneInstruction
<1>4. i.op \in LoadOps => o = DoLoad(r, i, m)
  <2>1. SUFFICES ASSUME i.op \in LoadOps PROVE o = DoLoad(r, i, m)
    OBVIOUS
  <2>2. /\ i.op \notin AluOps /\ i.op \notin HiLoOps /\ i.op \notin StoreOps
        /\ i.op \notin Branches \union Jumps /\ i.op # "SYSCALL"
    BY <2>1 DEF AluOps, HiLoOps, LoadOps, StoreOps, Branches, Jumps
  <2>3. QED
    BY <1>1, <2>1, <2>2 DEF OneInstruction
<1>5. i.op \in StoreOps => o = DoStore(r, i, m)
  <2>1. SUFFICES ASSUME i.op \in StoreOps PROVE o = DoStore(r, i, m)
    OBVIOUS
  <2>2. /\ i.op \notin AluOps /\ i.op \notin HiLoOps /\ i.op \notin LoadOps
        /\ i.op \notin Branches \union Jumps /\ i.op # "SYSCALL"
    BY <2>1 DEF AluOps, HiLoOps, LoadOps, StoreOps, Branches, Jumps
  <2>3. QED
    BY <1>1, <2>1, <2>2 DEF OneInstruction
<1>6. i.op \in Branches \union Jumps => o = DoBranch(r, i, m)
  <2>1. SUFFICES ASSUME i.op \in Branches \union Jumps PROVE o = DoBranch(r, i, m)
    OBVIOUS
  <2>2. /\ i.op \notin AluOps /\ i.op \notin HiLoOps /\ i.op \notin LoadOps
        /\ i.op \notin StoreOps /\ i.op # "SYSCALL"
    BY <2>1 DEF AluOps, HiLoOps, LoadOps, StoreOps, Branches, Jumps
  <2>3. QED
    BY <1>1, <2>1, <2>2 DEF OneInstruction
<1>7. i.op = "SYSCALL" => o = Outcome("syscall", r, 0, 0, 0, m)
  BY <1>1 DEF OneInstruction, AluOps, HiLoOps, LoadOps, StoreOps, Branches, Jumps
<1>8. i.op \notin AluOps \union HiLoOps \union LoadOps \union StoreOps
               \union Branches \union Jumps \union {"SYSCALL"} => o = Stop(r, m)
  BY <1>1 DEF OneInstruction
<1>9. QED
  BY <1>1, <1>2, <1>3, <1>4, <1>5, <1>6, <1>7, <1>8 DEF Dispatched

(* An instruction that is done leaves registers and memory behind; one     *)
(* that is not leaves the memory as it was.                                *)
LEMMA OutcomeType ==
  ASSUME NEW t, NEW r, NEW i, AtWork(t, r, i), NEW o, o = OneInstruction(r, i, mem[t])
  PROVE  /\ o.how = "done" => Advance(o) \in RegisterFile /\ IsMemory(o.mem)
         /\ o.how # "done" => o.mem = mem[t]
<1>1. Stop(r, mem[t]).how = "trap" /\ Stop(r, mem[t]).mem = mem[t]
  BY DEF Stop, Outcome
<1>2. ASSUME NEW q, NEW m
      PROVE  Plain(q, m).how = "done"
  BY DEF Plain, Outcome
<1>3. CASE i.op \in AluOps
  <2>1. o = DoAlu(r, i, mem[t])
    BY <1>3, OneDispatched DEF Dispatched
  <2>2. o.how # "done" => o = Stop(r, mem[t])
    BY <1>2, <2>1 DEF DoAlu
  <2>3. QED
    BY <1>1, <1>3, <2>1, <2>2, AluOutcomeType
<1>4. CASE i.op \in HiLoOps
  <2>1. o = DoHiLo(r, i, mem[t])
    BY <1>4, OneDispatched DEF Dispatched
  <2>2. o.how # "done" => o = Stop(r, mem[t])
    <3>1. CASE i.op \in {"MULT", "MULTU"}
      BY <1>2, <2>1, <3>1 DEF DoHiLo
    <3>2. CASE i.op \in {"DIV", "DIVU"}
      BY <1>2, <2>1, <3>2 DEF DoHiLo
    <3>3. CASE i.op \in {"MTHI", "MTLO"}
      BY <1>2, <2>1, <3>3 DEF DoHiLo
    <3>4. QED
      BY <1>4, <3>1, <3>2, <3>3 DEF HiLoOps
  <2>3. QED
    BY <1>1, <1>4, <2>1, <2>2, HiLoType
<1>5. CASE i.op \in LoadOps
  <2>1. o = DoLoad(r, i, mem[t])
    BY <1>5, OneDispatched DEF Dispatched
  <2>2. o.how # "done" => o = Stop(r, mem[t])
    <3>1. i.op \in {"LB", "LBU", "LH", "LHU", "LW"}
      BY <1>5 DEF AtWork, IsInstruction, LoadOps, WrongOps
    <3>2. ASSUME NEW l, NEW v, NEW a
          PROVE  Outcome("done", r, l, v, a, mem[t]).how = "done"
      BY DEF Outcome
    <3>3. QED
      BY <2>1, <3>1, <3>2 DEF DoLoad
  <2>3. QED
    BY <1>1, <1>5, <2>1, <2>2, LoadType
<1>6. CASE i.op \in StoreOps
  <2>1. o = DoStore(r, i, mem[t])
    BY <1>6, OneDispatched DEF Dispatched
  <2>2. o.how # "done" => o = Stop(r, mem[t])
    BY <1>2, <2>1 DEF DoStore
  <2>3. QED
    BY <1>1, <1>6, <2>1, <2>2, StoreType
<1>7. CASE i.op \in Branches \union Jumps
  <2>1. o = DoBranch(r, i, mem[t])
    BY <1>7, OneDispatched DEF Dispatched
  <2>2. o.how = "done"
    BY <1>7, <2>1, BranchIs DEF AtWork, RegisterFile, Outcome
  <2>3. QED
    BY <1>7, <2>1, <2>2, BranchOutcomeType
<1>8. CASE i.op = "SYSCALL"
  <2>1. o = Outcome("syscall", r, 0, 0, 0, mem[t])
    BY <1>8, OneDispatched DEF Dispatched
  <2>2. QED
    BY <2>1 DEF Outcome
<1>9. CASE i.op \notin AluOps \union HiLoOps \union LoadOps \union StoreOps
                     \union Branches \union Jumps \union {"SYSCALL"}
  <2>1. o = Stop(r, mem[t])
    BY <1>9, OneDispatched DEF Dispatched
  <2>2. QED
    BY <1>1, <2>1
<1>10. QED
  BY <1>3, <1>4, <1>5, <1>6, <1>7, <1>8, <1>9

(* One that is done is an instruction of the architecture.                 *)
LEMMA DoneStep ==
  ASSUME NEW t, NEW r, NEW i, AtWork(t, r, i), NEW o, o = OneInstruction(r, i, mem[t]),
         Done(t, o)
  PROVE  Arch(t)!Next
<1>1. o.how = "done"
  BY DEF Done
<1>2. CASE i.op \in AluOps
  <2>1. o = DoAlu(r, i, mem[t])
    BY <1>2, OneDispatched DEF Dispatched
  <2>2. QED
    BY <1>2, <2>1, ComputeStep DEF Arch!Next
<1>3. CASE i.op \in HiLoOps
  <2>1. o = DoHiLo(r, i, mem[t])
    BY <1>3, OneDispatched DEF Dispatched
  <2>2. QED
    BY <1>3, <2>1, HiLoStep DEF Arch!Next
<1>4. CASE i.op \in LoadOps
  <2>1. o = DoLoad(r, i, mem[t])
    BY <1>4, OneDispatched DEF Dispatched
  <2>2. QED
    BY <1>4, <2>1, LoadStep DEF Arch!Next
<1>5. CASE i.op \in StoreOps
  <2>1. o = DoStore(r, i, mem[t])
    BY <1>5, OneDispatched DEF Dispatched
  <2>2. QED
    BY <1>5, <2>1, StoreStep DEF Arch!Next
<1>6. CASE i.op \in Branches \union Jumps
  <2>1. o = DoBranch(r, i, mem[t])
    BY <1>6, OneDispatched DEF Dispatched
  <2>2. QED
    BY <1>6, <2>1, BranchStep DEF Arch!Next
<1>7. CASE i.op = "SYSCALL"
  <2>1. o = Outcome("syscall", r, 0, 0, 0, mem[t])
    BY <1>7, OneDispatched DEF Dispatched
  <2>2. QED
    BY <1>1, <2>1 DEF Outcome
<1>8. CASE i.op \notin AluOps \union HiLoOps \union LoadOps \union StoreOps
                     \union Branches \union Jumps \union {"SYSCALL"}
  <2>1. o = Stop(r, mem[t])
    BY <1>8, OneDispatched DEF Dispatched
  <2>2. QED
    BY <1>1, <2>1 DEF Stop, Outcome
<1>9. QED
  BY <1>2, <1>3, <1>4, <1>5, <1>6, <1>7, <1>8

-----------------------------------------------------------------------------
(* Every thread's registers and memory are of their types, and what stands *)
(* at its PC keeps the rules.                                              *)

SimType ==
  /\ current \in Threads
  /\ registers \in RegisterFile /\ saved \in [Threads -> RegisterFile]
  /\ DOMAIN mem = Threads /\ \A t \in Threads : IsMemory(mem[t])
  /\ DOMAIN instr = Threads /\ \A t \in Threads : instr[t] \in Program[t]
  /\ DOMAIN executed = Threads
Ruled(t) == executed[t] < MaxExecuted[t] => KeepsTheRules(Own(t), instr[t])
SimInv == SimType /\ \A t \in Threads : Ruled(t)

LEMMA OwnType ==
  ASSUME SimType, NEW t \in Threads
  PROVE  Own(t) \in RegisterFile
BY DEF SimType, Own

(* A trap leaves the rules as they were: no load is under way after it.    *)
LEMMA TrapKeepsRules ==
  ASSUME NEW r \in RegisterFile, NEW i, KeepsTheRules(r, i)
  PROVE  KeepsTheRules(Trap(r), i)
<1>1. PICK q : q = Trap(r)
  OBVIOUS
<1>2. q.loadReg = 0 /\ q.pc = r.pc /\ q.npc = r.npc
  BY <1>1, TrapIs
<1>3. PcAfter(q) = PcAfter(r)
  BY <1>2 DEF PcAfter
<1>4. KeepsTheRules(q, i)
  BY <1>2, <1>3 DEF KeepsTheRules
<1>5. QED
  BY <1>1, <1>4

LEMMA SimInitInv == SimInit => SimInv
<1>1. SUFFICES ASSUME SimInit PROVE SimInv
  OBVIOUS
<1>2. /\ current \in Threads /\ saved \in Start /\ registers = saved[current]
      /\ mem = Memory /\ executed = [t \in Threads |-> 0]
  BY <1>1, Zenon DEF SimInit
<1>3. \A t \in Threads : instr[t] \in Program[t] /\ KeepsTheRules(saved[t], instr[t])
  BY <1>1, Zenon DEF SimInit
<1>4. DOMAIN instr = Threads
  <2>1. PICK S : S = UNION {Program[t] : t \in Threads}
    OBVIOUS
  <2>2. instr \in [Threads -> S]
    BY <1>1, <2>1, Zenon DEF SimInit
  <2>3. QED
    BY <2>2
<1>5. saved \in [Threads -> RegisterFile]
  BY <1>2, SimAssumption
<1>6. registers \in RegisterFile
  BY <1>2, <1>5
<1>7. DOMAIN mem = Threads /\ \A t \in Threads : IsMemory(mem[t])
  BY <1>2, SimAssumption
<1>8. \A t \in Threads : KeepsTheRules(Own(t), instr[t])
  BY <1>2, <1>3 DEF Own
<1>9. QED
  BY <1>2, <1>3, <1>4, <1>5, <1>6, <1>7, <1>8 DEF SimInv, SimType, Ruled

LEMMA RunningAtWork ==
  ASSUME SimInv, NEW t \in Threads, Running(t)
  PROVE  AtWork(t, registers, instr[t]) /\ registers \in RegisterFile
         /\ IsInstruction(instr[t]) /\ Own(t) = registers
<1>1. Own(t) = registers
  BY DEF Running, Own
<1>2. KeepsTheRules(registers, instr[t])
  BY <1>1 DEF SimInv, Ruled, Running
<1>3. registers \in RegisterFile /\ IsMemory(mem[t]) /\ instr[t] \in Program[t]
  BY DEF SimInv, SimType
<1>4. IsInstruction(instr[t])
  BY <1>3, Instructions
<1>5. Seen(t) = Trap(registers)
  BY <1>1 DEF Seen, Trap
<1>6. QED
  BY <1>1, <1>2, <1>3, <1>4, <1>5 DEF AtWork

LEMMA IncreasePCIs ==
  ASSUME NEW r \in RegisterFile, r.loadReg = 0, NEW x \in Word, NEW answers \in BOOLEAN
  PROVE  LET q == IF answers THEN SetG(r, 2, x) ELSE r
             s == IncreasePC(q)
         IN /\ s \in RegisterFile
            /\ DelayedLoad(s, 0, 0).g = IF answers THEN [r.g EXCEPT ![2] = x] ELSE r.g
            /\ DelayedLoad(s, 0, 0).hi = r.hi /\ DelayedLoad(s, 0, 0).lo = r.lo
            /\ DelayedLoad(s, 0, 0).pc = r.npc
            /\ DelayedLoad(s, 0, 0).npc = Wrap(r.npc + 4)
<1>1. r \in RegisterValues /\ r.g[0] = 0
  BY DEF RegisterFile
<1>2. PICK q : q = IF answers THEN SetG(r, 2, x) ELSE r
  OBVIOUS
<1>3. PICK g : g = IF answers THEN [r.g EXCEPT ![2] = x] ELSE r.g
  OBVIOUS
<1>4. q = [g |-> g, hi |-> r.hi, lo |-> r.lo, pc |-> r.pc, npc |-> r.npc,
           loadReg |-> r.loadReg, loadValue |-> r.loadValue]
  <2>1. CASE answers
    BY <1>1, <1>2, <1>3, <2>1, SetGIs, RegNumbers
  <2>2. CASE ~answers
    BY <1>1, <1>2, <1>3, <2>2, RegisterTypes
  <2>3. QED
    BY <2>1, <2>2
<1>5. g \in [Reg -> Word] /\ g[0] = 0
  BY <1>1, <1>3, RegisterTypes, RegNumbers
<1>6. PICK p : p = [q EXCEPT !.pc = q.npc]
  OBVIOUS
<1>7. p = [g |-> g, hi |-> r.hi, lo |-> r.lo, pc |-> r.npc, npc |-> r.npc,
           loadReg |-> r.loadReg, loadValue |-> r.loadValue]
  BY <1>4, <1>6
<1>8. PICK n \in Int : n = Wrap(r.npc + 4)
  BY <1>1, PcAfterType DEF PcAfter
<1>9. PICK s : s = [p EXCEPT !.npc = n]
  OBVIOUS
<1>10. s = [g |-> g, hi |-> r.hi, lo |-> r.lo, pc |-> r.npc, npc |-> n,
            loadReg |-> 0, loadValue |-> r.loadValue]
  BY <1>7, <1>9
<1>11. s = IncreasePC(q)
  <2>1. q.npc = r.npc
    BY <1>4
  <2>2. QED
    BY <1>6, <1>8, <1>9, <2>1, Zenon DEF IncreasePC
<1>12. s \in RegisterFile
  <2>1. /\ r.hi \in Word /\ r.lo \in Word /\ r.npc \in Int /\ 0 \in Reg
        /\ r.loadValue \in Word
    BY <1>1, RegisterTypes, RegNumbers
  <2>2. s \in RegisterValues
    BY <1>5, <1>10, <2>1 DEF RegisterValues
  <2>3. QED
    BY <1>5, <1>10, <2>2 DEF RegisterFile
<1>13. Landed(s) = g
  BY <1>10, <1>12, LandedOnce
<1>14. DelayedLoad(s, 0, 0) =
         [g |-> g, hi |-> r.hi, lo |-> r.lo, pc |-> r.npc, npc |-> n,
          loadReg |-> 0, loadValue |-> 0]
  <2>1. s \in RegisterValues
    BY <1>12 DEF RegisterFile
  <2>2. PICK d : d = DelayedLoad(s, 0, 0)
    OBVIOUS
  <2>3. d = [g |-> Landed(s), hi |-> s.hi, lo |-> s.lo, pc |-> s.pc, npc |-> s.npc,
             loadReg |-> 0, loadValue |-> 0]
    BY <2>1, <2>2, DelayedLoadIs
  <2>4. s.hi = r.hi /\ s.lo = r.lo /\ s.pc = r.npc /\ s.npc = n
    BY <1>10
  <2>5. QED
    BY <1>13, <2>2, <2>3, <2>4
<1>15. QED
  BY <1>2, <1>3, <1>8, <1>11, <1>12, <1>14

LEMMA HowType ==
  ASSUME NEW t, NEW r, NEW i, AtWork(t, r, i), NEW o, o = OneInstruction(r, i, mem[t])
  PROVE  o.how \in {"done", "syscall", "trap"} /\ (o.how = "syscall" => i.op = "SYSCALL")
<1>1. Stop(r, mem[t]).how = "trap"
  BY DEF Stop, Outcome
<1>2. ASSUME NEW q, NEW m
      PROVE  Plain(q, m).how = "done"
  BY DEF Plain, Outcome
<1>3. ASSUME NEW l, NEW v, NEW a
      PROVE  Outcome("done", r, l, v, a, mem[t]).how = "done"
  BY DEF Outcome
<1>4. Dispatched(r, i, mem[t], o)
  BY OneDispatched
<1>5. CASE i.op \in AluOps
  BY <1>1, <1>2, <1>4, <1>5 DEF Dispatched, DoAlu
<1>6. CASE i.op \in HiLoOps
  <2>1. o = DoHiLo(r, i, mem[t])
    BY <1>4, <1>6 DEF Dispatched
  <2>2. CASE i.op \in {"MULT", "MULTU"}
    BY <1>2, <2>1, <2>2 DEF DoHiLo
  <2>3. CASE i.op \in {"DIV", "DIVU"}
    BY <1>1, <1>2, <2>1, <2>3 DEF DoHiLo
  <2>4. CASE i.op \in {"MTHI", "MTLO"}
    BY <1>2, <2>1, <2>4 DEF DoHiLo
  <2>5. QED
    BY <1>6, <2>2, <2>3, <2>4 DEF HiLoOps
<1>7. CASE i.op \in LoadOps
  <2>1. o = DoLoad(r, i, mem[t])
    BY <1>4, <1>7 DEF Dispatched
  <2>2. i.op \in {"LB", "LBU", "LH", "LHU", "LW"}
    BY <1>7 DEF AtWork, IsInstruction, LoadOps, WrongOps
  <2>3. QED
    BY <1>1, <1>3, <2>1, <2>2 DEF DoLoad
<1>8. CASE i.op \in StoreOps
  BY <1>1, <1>2, <1>4, <1>8 DEF Dispatched, DoStore
<1>9. CASE i.op \in Branches \union Jumps
  <2>1. o = DoBranch(r, i, mem[t])
    BY <1>4, <1>9 DEF Dispatched
  <2>2. QED
    BY <1>9, <2>1, BranchIs DEF AtWork, RegisterFile, Outcome
<1>10. CASE i.op = "SYSCALL"
  BY <1>4, <1>10 DEF Dispatched, Outcome
<1>11. CASE i.op \notin AluOps \union HiLoOps \union LoadOps \union StoreOps
                     \union Branches \union Jumps \union {"SYSCALL"}
  BY <1>1, <1>4, <1>11 DEF Dispatched
<1>12. QED
  BY <1>5, <1>6, <1>7, <1>8, <1>9, <1>10, <1>11

(* The next instruction of the thread that runs.                           *)
LEMMA ChooseType ==
  ASSUME SimInv, NEW t \in Threads, Choose(t)
  PROVE  /\ DOMAIN instr' = Threads /\ \A u \in Threads : instr'[u] \in Program[u]
         /\ DOMAIN executed' = Threads
         /\ executed'[t] < MaxExecuted[t] => KeepsTheRules(registers', instr'[t])
         /\ \A u \in Threads : u # t => instr'[u] = instr[u] /\ executed'[u] = executed[u]
<1>1. executed' = [executed EXCEPT ![t] = @ + 1]
  BY DEF Choose
<1>2. PICK i \in Program[t] :
        /\ IF executed'[t] < MaxExecuted[t] THEN KeepsTheRules(registers', i) ELSE i = instr[t]
        /\ instr' = [instr EXCEPT ![t] = i]
  BY DEF Choose
<1>3. DOMAIN instr = Threads /\ DOMAIN executed = Threads
      /\ \A u \in Threads : instr[u] \in Program[u]
  BY DEF SimInv, SimType
<1>4. DOMAIN instr' = Threads /\ instr'[t] = i
      /\ \A u \in Threads : u # t => instr'[u] = instr[u]
  BY <1>2, <1>3
<1>5. DOMAIN executed' = Threads
      /\ \A u \in Threads : u # t => executed'[u] = executed[u]
  BY <1>1, <1>3
<1>6. \A u \in Threads : instr'[u] \in Program[u]
  BY <1>2, <1>3, <1>4
<1>7. QED
  BY <1>2, <1>4, <1>5, <1>6

(* A step of thread t alone: registers and memory of t become the next,    *)
(* those of the others stay.                                               *)
OnlyOf(t) ==
  /\ current = t /\ UNCHANGED <<current, saved>>
  /\ \A u \in Threads : u # t => mem'[u] = mem[u]

LEMMA OnlyOfStays ==
  ASSUME SimInv, NEW t \in Threads, OnlyOf(t), NEW u \in Threads, u # t
  PROVE  Own(u)' = Own(u) /\ UNCHANGED Arch(u)!archVars
<1>1. Own(u)' = Own(u)
  BY DEF OnlyOf, Own
<1>2. Seen(u)' = Seen(u)
  BY <1>1 DEF Seen
<1>3. mem'[u] = mem[u]
  BY DEF OnlyOf
<1>4. QED
  BY <1>1, <1>2, <1>3 DEF Arch!archVars

LEMMA MemoryStep ==
  ASSUME SimInv, NEW t \in Threads, NEW m, mem' = [mem EXCEPT ![t] = m], IsMemory(m)
  PROVE  /\ DOMAIN mem' = Threads /\ \A u \in Threads : IsMemory(mem'[u])
         /\ mem'[t] = m /\ \A u \in Threads : u # t => mem'[u] = mem[u]
<1>1. DOMAIN mem = Threads /\ \A u \in Threads : IsMemory(mem[u])
  BY DEF SimInv, SimType
<1>2. \A u \in Threads : mem'[u] = IF u = t THEN m ELSE mem[u]
  BY <1>1
<1>3. QED
  BY <1>1, <1>2

(* A trap, of whatever kind, that leaves the program where it is.          *)
LEMMA TrapStep ==
  ASSUME SimInv, NEW t \in Threads, OnlyOf(t), registers' = Trap(registers),
         UNCHANGED <<instr, executed>>, mem'[t] = mem[t], DOMAIN mem' = Threads
  PROVE  /\ SimInv'
         /\ \A u \in Threads : UNCHANGED Arch(u)!archVars
<1>1. PICK r : r = registers
  OBVIOUS
<1>2. r \in RegisterFile /\ current = t /\ current' = t /\ saved' = saved
  BY <1>1 DEF SimInv, SimType, OnlyOf
<1>3. Trap(r) \in RegisterFile /\ DelayedLoad(Trap(r), 0, 0) = DelayedLoad(r, 0, 0)
  BY <1>2, TrapIs
<1>4. Own(t) = r /\ Own(t)' = Trap(r)
  BY <1>1, <1>2 DEF Own
<1>5. \A u \in Threads : mem'[u] = mem[u]
  BY DEF OnlyOf
<1>6. SimType'
  BY <1>1, <1>2, <1>3, <1>5 DEF SimInv, SimType
<1>7. ASSUME NEW u \in Threads
      PROVE  Ruled(u)' /\ UNCHANGED Arch(u)!archVars
  <2>1. CASE u = t
    <3>1. KeepsTheRules(r, instr[t]) => KeepsTheRules(Trap(r), instr[t])
      BY <1>2, TrapKeepsRules
    <3>2. Ruled(t)'
      BY <1>4, <3>1 DEF SimInv, Ruled
    <3>3. Seen(t)' = Seen(t)
      BY <1>3, <1>4 DEF Seen
    <3>4. UNCHANGED Arch(t)!archVars
      BY <3>3 DEF Arch!archVars
    <3>5. QED
      BY <2>1, <3>2, <3>4
  <2>2. CASE u # t
    <3>1. Own(u)' = Own(u) /\ UNCHANGED Arch(u)!archVars
      BY <2>2, OnlyOfStays
    <3>2. Ruled(u)'
      BY <3>1 DEF SimInv, Ruled
    <3>3. QED
      BY <3>1, <3>2
  <2>3. QED
    BY <2>1, <2>2
<1>8. QED
  BY <1>6, <1>7 DEF SimInv

LEMMA ExecuteStep ==
  ASSUME SimInv, NEW t \in Threads, Execute(t)
  PROVE  /\ SimInv'
         /\ \A u \in Threads : Arch(u)!Next \/ UNCHANGED Arch(u)!archVars
<1>1. PICK i : i = instr[t]
  OBVIOUS
<1>2. PICK r : r = registers
  OBVIOUS
<1>3. PICK o : o = OneInstruction(r, i, mem[t])
  OBVIOUS
<1>4. Running(t) /\ mem' = [mem EXCEPT ![t] = o.mem] /\ UNCHANGED <<current, saved, faults>>
  BY <1>1, <1>2, <1>3, Zenon DEF Execute
<1>5. /\ AtWork(t, r, i) /\ r \in RegisterFile /\ IsInstruction(i) /\ Own(t) = r
      /\ Seen(t) = Trap(r)
  BY <1>1, <1>2, <1>4, RunningAtWork DEF AtWork
<1>6. /\ o.how = "done" => Advance(o) \in RegisterFile /\ IsMemory(o.mem)
      /\ o.how # "done" => o.mem = mem[t]
  BY <1>3, <1>5, OutcomeType
<1>7. IsMemory(mem[t])
  BY DEF SimInv, SimType
<1>8. /\ DOMAIN mem' = Threads /\ \A u \in Threads : IsMemory(mem'[u])
      /\ mem'[t] = o.mem /\ \A u \in Threads : u # t => mem'[u] = mem[u]
  <2>1. IsMemory(o.mem)
    BY <1>6, <1>7
  <2>2. QED
    BY <1>4, <2>1, MemoryStep
<1>9. /\ current = t /\ current' = t /\ current' \in Threads
      /\ saved' \in [Threads -> RegisterFile]
  BY <1>4 DEF Running, SimInv, SimType
<1>10. OnlyOf(t)
  BY <1>4, <1>8, <1>9 DEF OnlyOf
<1>11. Own(t)' = registers'
  BY <1>9 DEF Own
<1>12. \A u \in Threads : u # t => Own(u)' = Own(u) /\ UNCHANGED Arch(u)!archVars
  BY <1>10, OnlyOfStays
<1>13. ASSUME registers' \in RegisterFile, Choose(t)
       PROVE  SimInv'
  <2>1. SimType'
    BY <1>8, <1>9, <1>13, ChooseType DEF SimType
  <2>2. ASSUME NEW u \in Threads
        PROVE  Ruled(u)'
    <3>1. CASE u = t
      BY <1>11, <1>13, <3>1, ChooseType DEF Ruled
    <3>2. CASE u # t
      BY <1>12, <1>13, <3>2, ChooseType DEF Ruled, SimInv
    <3>3. QED
      BY <3>1, <3>2
  <2>3. QED
    BY <2>1, <2>2 DEF SimInv
<1>14. CASE o.how = "done"
  <2>1. registers' = Advance(o) /\ Choose(t)
    BY <1>1, <1>2, <1>3, <1>14 DEF Execute
  <2>2. SimInv'
    BY <1>6, <1>13, <1>14, <2>1
  <2>3. Seen(t)' = After(o)
    BY <1>11, <2>1 DEF Seen, After
  <2>4. Done(t, o)
    BY <1>8, <1>14, <2>3 DEF Done
  <2>5. Arch(t)!Next
    BY <1>3, <1>5, <2>4, DoneStep
  <2>6. QED
    BY <1>12, <2>2, <2>5
<1>15. CASE o.how = "syscall"
  <2>1. PICK q : q = Trap(r)
    OBVIOUS
  <2>2. q \in RegisterFile /\ q.loadReg = 0
    BY <1>5, <2>1, TrapIs
  <2>3. /\ answer' \in {-1, W - 1} /\ Choose(t)
        /\ registers' = IncreasePC(IF answer' = -1 THEN q ELSE SetG(q, 2, answer'))
    BY <1>1, <1>2, <1>3, <1>15, <2>1 DEF Execute
  <2>4. PICK x \in Word : x = W - 1
    BY WordSize DEF Word
  <2>5. PICK s : s = IF answer' = -1 THEN q ELSE SetG(q, 2, x)
    OBVIOUS
  <2>6. registers' = IncreasePC(s)
    BY <2>3, <2>4, <2>5
  <2>7. PICK answers \in BOOLEAN : answers <=> answer' # -1
    OBVIOUS
  <2>8. s = IF answers THEN SetG(q, 2, x) ELSE q
    BY <2>5, <2>7
  <2>9. PICK n : n = IncreasePC(s)
    OBVIOUS
  <2>10. /\ n \in RegisterFile
         /\ DelayedLoad(n, 0, 0).g = IF answers THEN [q.g EXCEPT ![2] = x] ELSE q.g
         /\ DelayedLoad(n, 0, 0).hi = q.hi /\ DelayedLoad(n, 0, 0).lo = q.lo
         /\ DelayedLoad(n, 0, 0).pc = q.npc
         /\ DelayedLoad(n, 0, 0).npc = Wrap(q.npc + 4)
    BY <2>2, <2>8, <2>9, IncreasePCIs
  <2>11. SimInv'
    BY <1>13, <2>3, <2>6, <2>9, <2>10
  <2>12. Seen(t)' = DelayedLoad(n, 0, 0) /\ Seen(t) = q
    BY <1>5, <1>11, <2>1, <2>6, <2>9 DEF Seen
  <2>13. instr[t].op = "SYSCALL"
    BY <1>1, <1>3, <1>5, <1>15, HowType
  <2>14. mem'[t] = mem[t]
    BY <1>6, <1>8, <1>15
  <2>15. Seen(t)'.g = IF answer' = -1 THEN Seen(t).g ELSE [Seen(t).g EXCEPT ![2] = answer']
    BY <2>3, <2>4, <2>7, <2>10, <2>12
  <2>16. Arch(t)!FallThrough
    BY <2>10, <2>12, ArchWords DEF Arch!FallThrough
  <2>17. Arch(t)!Syscall
    BY <2>10, <2>12, <2>13, <2>14, <2>15, <2>16 DEF Arch!Syscall
  <2>18. QED
    BY <1>12, <2>11, <2>17 DEF Arch!Next
<1>16. CASE o.how = "trap"
  <2>1. registers' = Trap(r) /\ UNCHANGED <<instr, executed>>
    BY <1>1, <1>2, <1>3, <1>16 DEF Execute
  <2>2. mem'[t] = mem[t]
    BY <1>6, <1>8, <1>16
  <2>3. QED
    BY <1>8, <1>9, <1>10, <2>1, <2>2, <1>2, TrapStep
<1>17. QED
  <2>1. o.how \in {"done", "syscall", "trap"}
    BY <1>3, <1>5, HowType
  <2>2. QED
    BY <1>14, <1>15, <1>16, <2>1

LEMMA SwitchStep ==
  ASSUME SimInv, NEW t \in Threads, Switch(t)
  PROVE  /\ SimInv'
         /\ \A u \in Threads : UNCHANGED Arch(u)!archVars
<1>1. PICK c : c = current
  OBVIOUS
<1>2. PICK r : r = registers
  OBVIOUS
<1>3. c \in Threads /\ r \in RegisterFile /\ saved \in [Threads -> RegisterFile] /\ t # c
  BY <1>1, <1>2 DEF SimInv, SimType, Switch
<1>4. /\ saved' = [saved EXCEPT ![c] = Trap(r)] /\ registers' = saved[t] /\ current' = t
      /\ UNCHANGED <<mem, instr, executed>>
  BY <1>1, <1>2 DEF Switch
<1>5. Trap(r) \in RegisterFile /\ DelayedLoad(Trap(r), 0, 0) = DelayedLoad(r, 0, 0)
  BY <1>3, TrapIs
<1>6. saved' \in [Threads -> RegisterFile] /\ registers' \in RegisterFile
  BY <1>3, <1>4, <1>5
<1>7. SimType'
  BY <1>4, <1>6 DEF SimInv, SimType
<1>8. ASSUME NEW u \in Threads
      PROVE  Ruled(u)' /\ UNCHANGED Arch(u)!archVars
  <2>1. CASE u = c
    <3>1. Own(u) = r /\ Own(u)' = Trap(r)
      BY <1>1, <1>2, <1>3, <1>4, <2>1 DEF Own
    <3>2. KeepsTheRules(r, instr[u]) => KeepsTheRules(Trap(r), instr[u])
      BY <1>3, TrapKeepsRules
    <3>3. Ruled(u)'
      BY <1>4, <3>1, <3>2 DEF SimInv, Ruled
    <3>4. Seen(u)' = Seen(u)
      BY <1>5, <3>1 DEF Seen
    <3>5. QED
      BY <1>4, <3>3, <3>4 DEF Arch!archVars
  <2>2. CASE u # c
    <3>1. Own(u)' = Own(u)
      BY <1>1, <1>3, <1>4, <2>2 DEF Own
    <3>2. Ruled(u)'
      BY <1>4, <3>1 DEF SimInv, Ruled
    <3>3. Seen(u)' = Seen(u)
      BY <3>1 DEF Seen
    <3>4. QED
      BY <1>4, <3>2, <3>3 DEF Arch!archVars
  <2>3. QED
    BY <2>1, <2>2
<1>9. QED
  BY <1>7, <1>8 DEF SimInv

LEMMA SimStep ==
  ASSUME SimInv, [SimNext]_simVars
  PROVE  /\ SimInv'
         /\ \A u \in Threads : Arch(u)!Next \/ UNCHANGED Arch(u)!archVars
<1>1. DOMAIN mem = Threads
  BY DEF SimInv, SimType
<1>2. ASSUME NEW t \in Threads, PageFault(t) \/ Interrupt(t)
      PROVE  SimInv' /\ \A u \in Threads : UNCHANGED Arch(u)!archVars
  <2>1. /\ OnlyOf(t) /\ registers' = Trap(registers) /\ UNCHANGED <<mem, instr, executed>>
    BY <1>2 DEF PageFault, Interrupt, OnlyOf, Running
  <2>2. QED
    BY <1>1, <2>1, TrapStep
<1>3. CASE UNCHANGED simVars
  <2>1. UNCHANGED <<current, registers, saved, mem, instr, executed>>
    BY <1>3 DEF simVars
  <2>2. \A u \in Threads : Own(u)' = Own(u) /\ Seen(u)' = Seen(u)
    BY <2>1 DEF Own, Seen
  <2>3. SimInv'
    BY <2>1, <2>2 DEF SimInv, SimType, Ruled
  <2>4. \A u \in Threads : UNCHANGED Arch(u)!archVars
    BY <2>1, <2>2 DEF Arch!archVars
  <2>5. QED
    BY <2>3, <2>4
<1>4. CASE SimNext
  <2>1. PICK t \in Threads : Execute(t) \/ PageFault(t) \/ Interrupt(t) \/ Switch(t)
    BY <1>4 DEF SimNext
  <2>2. QED
    BY <1>2, <2>1, ExecuteStep, SwitchStep
<1>5. QED
  BY <1>3, <1>4

(* Type correctness: R0 is zero in every saved and current register file,   *)
(* memory stays bytes, every program counter stands at an instruction of    *)
(* its program that keeps the rules.                                        *)
THEOREM SimTypeCorrect == SimSpec => []SimInv
<1>1. SimInit => SimInv
  BY SimInitInv
<1>2. SimInv /\ [SimNext]_simVars => SimInv'
  BY SimStep
<1>3. QED
  BY <1>1, <1>2, PTL DEF SimSpec

(* To every program that keeps the rules the simulator of mipssim.cc is the *)
(* MIPS of the manual, for any number of threads, programs, memories and    *)
(* size of a byte: each step of it is one instruction of the architecture   *)
(* for the thread that runs, or none for any, and page faults, interrupts,  *)
(* traps and switches are of the second kind.                               *)
THEOREM IsMipsHolds == SimSpec => IsMips
<1>1. SimInit => \A t \in Threads : Arch(t)!Init
  <2>1. SimInit => \A t \in Threads : instr[t] \in Program[t]
    BY Zenon DEF SimInit
  <2>2. QED
    BY <2>1 DEF Arch!Init
<1>2. SimInv /\ [SimNext]_simVars
        => [\A t \in Threads : [Arch(t)!Next]_(Arch(t)!archVars)]_simVars
  BY SimStep
<1>3. QED
  BY <1>1, <1>2, SimTypeCorrect, PTL DEF SimSpec, IsMips
==============================================================================
