------------------------------ MODULE Baboons ------------------------------
(***************************************************************************)
(* The monitor of the baboons (ExamIBaboons/src).  A thread per baboon     *)
(* counts itself on its rope, adds up the counts of all ropes, one atomic  *)
(* read at a time, and when the total is the threshold lets the rope with  *)
(* most baboons cross.  Counts grow only under baboonsMonitorMutex, but a  *)
(* baboon that releases its own rope has already left it, so its           *)
(* notify_all and its reset interleave with the next baboons.  waitOnRope  *)
(* waits with no predicate: a notification sent before it is lost, and a   *)
(* spurious wakeup lets the baboon go ("strayed").                         *)
(***************************************************************************)
EXTENDS Integers, FiniteSets, FiniteSetsExt

CONSTANTS Baboon,               \* the threads of main
          numberOfRopes,        \* argv[1]
          maxWaitingBaboons,    \* argv[2]
          NULL                  \* nobody holds the monitor's mutex

\* main hands argv[1] and argv[2] to a constructor that takes them in the
\* other order; with fewer Rope objects than rope numbers ropes[rope] is
\* undefined and the program is not modelled.
maxBaboonsWaiting == numberOfRopes
ropesCount == maxWaitingBaboons

ASSUME BaboonsAssumption ==
  /\ numberOfRopes \in Nat \ {0}
  /\ maxWaitingBaboons \in Nat
  /\ numberOfRopes <= maxWaitingBaboons
  /\ IsFiniteSet(Baboon)
  /\ NULL \notin Baboon

Rope == 0 .. ropesCount - 1

VARIABLES
  baboonsCount,     \* [Rope -> Nat], atomic
  mutex,            \* baboonsMonitorMutex: the baboon that holds it
  place,            \* [Baboon -> Step]
  rope,             \* [Baboon -> the rope it was given]
  index,            \* [Baboon -> the rope its loop looks at]
  total,            \* [Baboon -> totalBaboonsWaiting]
  most              \* [Baboon -> maxBaboonsFound and its rope]

baboonVars == <<baboonsCount, mutex, place, rope, index, total, most>>

Step == {"start", "sum", "scan", "record", "notify_other", "reset_other",
         "notify_own", "reset_own", "to_wait", "waiting", "strayed",
         "crossed"}

BaboonsInit ==
  /\ baboonsCount = [r \in Rope |-> 0]
  /\ mutex = NULL
  /\ place = [b \in Baboon |-> "start"]
  /\ rope = [b \in Baboon |-> 0]
  /\ index = [b \in Baboon |-> 0]
  /\ total = [b \in Baboon |-> 0]
  /\ most = [b \in Baboon |-> [count |-> 0, rope |-> 0]]

GoTo(b, s) == place' = [place EXCEPT ![b] = s]

\* Lock the monitor and count itself on a random rope.
Enter(b, r) ==
  /\ place[b] = "start" /\ mutex = NULL
  /\ mutex' = b
  /\ rope' = [rope EXCEPT ![b] = r]
  /\ baboonsCount' = [baboonsCount EXCEPT ![r] = @ + 1]
  /\ GoTo(b, "sum")
  /\ UNCHANGED <<index, total, most>>

\* howManyBaboonsWaiting reads one rope...
AddRope(b) ==
  /\ place[b] = "sum" /\ index[b] < ropesCount
  /\ total' = [total EXCEPT ![b] = @ + baboonsCount[index[b]]]
  /\ index' = [index EXCEPT ![b] = @ + 1]
  /\ UNCHANGED <<baboonsCount, mutex, place, rope, most>>

Enough(b) == total[b] = maxBaboonsWaiting

\* ... and its result is compared: too few, or too many, and b leaves to wait.
Decide(b) ==
  /\ place[b] = "sum" /\ index[b] = ropesCount
  /\ IF Enough(b)
       THEN GoTo(b, "scan") /\ UNCHANGED mutex
       ELSE GoTo(b, "to_wait") /\ mutex' = NULL
  /\ index' = [index EXCEPT ![b] = 0]
  /\ UNCHANGED <<baboonsCount, rope, total, most>>

\* getRopeWithMostBaboons compares one read of the count...
CompareRope(b) ==
  /\ place[b] = "scan" /\ index[b] < ropesCount
  /\ IF baboonsCount[index[b]] > most[b].count
       THEN GoTo(b, "record") /\ UNCHANGED index
       ELSE index' = [index EXCEPT ![b] = @ + 1] /\ UNCHANGED place
  /\ UNCHANGED <<baboonsCount, mutex, rope, total, most>>

\* ... and stores another one, which may be smaller.
RecordRope(b) ==
  /\ place[b] = "record"
  /\ most' = [most EXCEPT ![b] = [count |-> baboonsCount[index[b]],
                                  rope |-> index[b]]]
  /\ index' = [index EXCEPT ![b] = @ + 1]
  /\ GoTo(b, "scan")
  /\ UNCHANGED <<baboonsCount, mutex, rope, total>>

\* Its own rope is released after the monitor, another rope inside it.
Choose(b) ==
  /\ place[b] = "scan" /\ index[b] = ropesCount
  /\ IF most[b].rope = rope[b]
       THEN GoTo(b, "notify_own") /\ mutex' = NULL
       ELSE GoTo(b, "notify_other") /\ UNCHANGED mutex
  /\ UNCHANGED <<baboonsCount, rope, index, total, most>>

Waiting(r) == {b \in Baboon : place[b] = "waiting" /\ rope[b] = r}

\* crossCanyon: notify_all lets whoever waits now go...
NotifyAll(b) ==
  /\ place[b] \in {"notify_other", "notify_own"}
  /\ place' = [c \in Baboon |->
              IF c \in Waiting(most[b].rope) THEN "crossed"
              ELSE IF c # b THEN place[c]
              ELSE IF place[b] = "notify_own" THEN "reset_own"
              ELSE "reset_other"]
  /\ UNCHANGED <<baboonsCount, mutex, rope, index, total, most>>

\* Mutant: a baboon takes only itself off the count.
ResetOne(b) ==
  /\ place[b] \in {"reset_other", "reset_own"}
  /\ baboonsCount' = [baboonsCount EXCEPT ![most[b].rope] = IF @ > 0 THEN @ - 1 ELSE 0]
  /\ IF place[b] = "reset_own"
       THEN GoTo(b, "crossed") /\ UNCHANGED mutex
       ELSE GoTo(b, "to_wait") /\ mutex' = NULL
  /\ UNCHANGED <<rope, index, total, most>>

\* ... and then the count is reset; b crosses, or unlocks and goes to wait.
ResetCount(b) ==
  /\ place[b] \in {"reset_other", "reset_own"}
  /\ baboonsCount' = [baboonsCount EXCEPT ![most[b].rope] = 0]
  /\ IF place[b] = "reset_own"
       THEN GoTo(b, "crossed") /\ UNCHANGED mutex
       ELSE GoTo(b, "to_wait") /\ mutex' = NULL
  /\ UNCHANGED <<rope, index, total, most>>

\* waitOnRope: it waits whatever was notified before.
WaitOnRope(b) ==
  /\ place[b] = "to_wait"
  /\ GoTo(b, "waiting")
  /\ UNCHANGED <<baboonsCount, mutex, rope, index, total, most>>

\* condition_variable::wait may return with no notification.
SpuriousWakeup(b) ==
  /\ place[b] = "waiting"
  /\ GoTo(b, "strayed")
  /\ UNCHANGED <<baboonsCount, mutex, rope, index, total, most>>

BaboonsNext == \E b \in Baboon :
  \/ \E r \in 0 .. numberOfRopes - 1 : Enter(b, r)
  \/ AddRope(b) \/ Decide(b)
  \/ CompareRope(b) \/ RecordRope(b) \/ Choose(b)
  \/ NotifyAll(b) \/ ResetCount(b)
  \/ WaitOnRope(b) \/ SpuriousWakeup(b)

BaboonsSpec == BaboonsInit /\ [][BaboonsNext]_baboonVars

-----------------------------------------------------------------------------

\* Every variable keeps its type, and only the baboon inside the monitor is
\* between its lock and its unlock (Baboons.cpp, Baboon).
BaboonsTypeOK ==
  /\ baboonsCount \in [Rope -> 0 .. Cardinality(Baboon)]
  /\ mutex \in Baboon \cup {NULL}
  /\ place \in [Baboon -> Step]
  /\ rope \in [Baboon -> 0 .. numberOfRopes - 1]
  /\ index \in [Baboon -> 0 .. ropesCount]
  /\ total \in [Baboon -> 0 .. Cardinality(Baboon)]
  /\ most \in [Baboon -> [count : 0 .. Cardinality(Baboon), rope : Rope]]
  /\ \A b \in Baboon :
       (mutex = b) <=> place[b] \in {"sum", "scan", "record", "notify_other",
                                     "reset_other"}

Releasing(r) == {b \in Baboon : /\ place[b] \in {"reset_own", "reset_other"}
                                /\ most[b].rope = r}
Entered(r) == {b \in Baboon : rope[b] = r /\ place[b] \notin {"start", "crossed"}}

\* Once every release of a rope has finished, the rope counts no baboon that
\* a release let go: crossCanyon notifies before it resets, so a baboon that
\* arrives between the two is let go with its count or not counted at all,
\* never counted after it left, whichever releases overlap.
CountedAreThere ==
  \A r \in Rope :
    Releasing(r) = {} => baboonsCount[r] <= Cardinality(Entered(r))

TotalCount == MapThenSumSet(LAMBDA r : baboonsCount[r], Rope)

\* Nobody is inside the monitor, on the way to wait, or releasing a rope.
Quiet ==
  \A b \in Baboon : place[b] \in {"start", "waiting", "crossed"}

\* A baboon that enters asks whether enough wait on all ropes and then some
\* rope passes (README.MD), so enough of them never all stay behind.
\* Violated: baboons that enter between a releaser's unlock and its reset
\* find more than the threshold, and == misses it from then on.
EnoughAreLetCross == Quiet => TotalCount < maxBaboonsWaiting

=============================================================================
