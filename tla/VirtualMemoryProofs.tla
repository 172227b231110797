------------------------- MODULE VirtualMemoryProofs -------------------------
(***************************************************************************)
(* Proofs about VirtualMemory for any number of processes, addresses,      *)
(* frames, TLB entries and pages.  The methods of the MMU are operators on *)
(* its record, and most lemmas say what one of them makes of a record m.   *)
(***************************************************************************)
EXTENDS VirtualMemory, SequenceTheorems, FiniteSetTheorems,
        WellFoundedInduction, TLAPS

-----------------------------------------------------------------------------
(* The inductive invariant.                                                *)

(* While a page is being brought in, its frame is taken but not in use     *)
(* yet: U is the set of frames in use, of all those taken.                 *)

(* The inverted page table: an entry in use has a page and an owner, the   *)
(* others are as new; only frames of the memory are ever in use.           *)
EntriesSound(m, U) ==
  /\ U \subseteq m.used
  /\ \A f \in U : m.ipt[f].space # NULL /\ m.ipt[f].page \in Pages
  /\ \A i \in Entries \ m.used : m.ipt[i] = EmptyEntry

(* The TLB and the inverted page table point at each other.                *)
SlotsSound(m, U) ==
  /\ \A f \in U : m.ipt[f].slot # -1 =>
       /\ m.ipt[f].slot \in m.taken
       /\ m.tlb[m.ipt[f].slot] =
            [page |-> m.ipt[f].page, frame |-> f, valid |-> m.ipt[f].valid]
  /\ \A s \in Slots : m.tlb[s].valid =>
       m.tlb[s].frame \in U /\ m.ipt[m.tlb[s].frame].slot = s

(* Only frames in use have been accessed, and each is listed once.         *)
OrderSound(m, U) ==
  /\ \A i \in 1..Len(m.order) : m.order[i] \in U
  /\ \A i, j \in 1..Len(m.order) : m.order[i] = m.order[j] => i = j

(* A page marked valid is where its table says, unless the table is a      *)
(* forked one.                                                             *)
TablesSound(m, U) ==
  \A a \in Addresses, v \in Pages :
    /\ m.tables[a] # NULL
    /\ m.tables[a][v].valid /\ ~ m.tables[a][v].readOnly
    => LET f == m.tables[a][v].frame IN
       f \in U /\ m.ipt[f].space = a /\ m.ipt[f].page = v

(* The frames evictTLBEntry chooses from.                                  *)
Collected(m) == {f \in OnTLB(m) : Cardinality({g \in OnTLB(m) : g < f}) < NumSlots}

(* The one it chooses, for ever after, once a frame has lost its TLB entry *)
(* or has never had one: it is not on the TLB, nothing has accessed it and *)
(* all those collected before it have been accessed.                       *)
Victim(m, v) ==
  /\ v \in Collected(m) /\ m.ipt[v].slot = -1 /\ Rank(m, v) = 0
  /\ \A g \in Collected(m) : g < v => Rank(m, g) # 0

LostForGood(m) ==
  (\E f \in m.used : m.ipt[f].slot = -1) =>
    m.taken = Slots /\ \E v \in Frames : Victim(m, v)

(* Of the pages in memory, those of the space at a are valid.              *)
OnlyValid(m, U, a) == \A f \in U : m.ipt[f].valid <=> m.ipt[f].space = a

Sound(m, U) ==
  /\ m \in Unit
  /\ EntriesSound(m, U) /\ SlotsSound(m, U) /\ OrderSound(m, U) /\ TablesSound(m, U)

UnitSound(m) == Sound(m, m.used) /\ LostForGood(m)

(* Processes that have not been deleted have address spaces of their own.  *)
OwnSpaces ==
  /\ life[current] = "alive"
  /\ doomed # NULL => life[doomed] = "finished"
  /\ \A p \in Processes : life[p] \in {"fork", "alive", "finished"} =>
       /\ space[p] \in Addresses /\ mmu.tables[space[p]] # NULL
       /\ \A r \in Processes \ {p} :
            life[r] \in {"fork", "alive", "finished"} => space[r] # space[p]

VMInv ==
  /\ VMTypeOK /\ UnitSound(mmu) /\ OnlyValid(mmu, mmu.used, space[current]) /\ OwnSpaces

-----------------------------------------------------------------------------
(* Numbers and sequences.                                                  *)

LEMMA Numbers ==
  /\ Frames \subseteq Entries /\ Entries \subseteq Nat /\ Slots \subseteq Nat
  /\ Pages \subseteq Nat /\ Image \subseteq Pages /\ 0 \in Slots /\ 0 \in Frames
  /\ -1 \notin Nat /\ NULL \notin Addresses /\ NULL \notin Processes
  /\ NULL \notin [Pages -> TableEntry] /\ Main \in Processes
BY MemoryAssumption DEF Frames, Entries, Slots, Pages, Image

(* A set of numbers that is not empty has a least one.                     *)
LEMMA LeastNumber ==
  ASSUME NEW T \in SUBSET Nat, T # {}
  PROVE  \E x \in T : \A y \in T : x <= y
<1> DEFINE R == {ss \in Nat \X Nat : ss[1] < ss[2]}
<1>1. IsWellFoundedOn(R, Nat)
  BY NatLessThanWellFounded DEF OpToRel
<1>2. \A y, x \in Nat : <<y, x>> \in R <=> y < x
  OBVIOUS
<1> HIDE DEF R
<1>3. \E x \in T : \A y \in T : ~ (<<y, x>> \in R)
  BY <1>1, WFMin
<1>4. PICK x \in T : \A y \in T : ~ (<<y, x>> \in R)
  BY <1>3
<1>5. \A y \in T : y \in Nat /\ x \in Nat /\ ~ (y < x)
  BY <1>2, <1>4
<1> QED
  BY <1>5

(* The first clear bit is clear, when there is one.                        *)
LEMMA FirstClearIs ==
  ASSUME NEW all \in SUBSET Nat, NEW bits
  PROVE  /\ all \subseteq bits => FirstClear(bits, all) = -1
         /\ ~ (all \subseteq bits) => FirstClear(bits, all) \in all \ bits
<1>1. ASSUME ~ (all \subseteq bits)
      PROVE  FirstClear(bits, all) \in all \ bits
  <2>1. \E i \in all \ bits : \A j \in all \ bits : i <= j
    <3>1. all \ bits \in SUBSET Nat /\ all \ bits # {}
      BY <1>1
    <3> QED
      BY <3>1, LeastNumber
  <2> QED
    BY <1>1, <2>1, Zenon DEF FirstClear
<1> QED
  BY <1>1 DEF FirstClear

LEMMA FirstClearLeast ==
  ASSUME NEW all \in SUBSET Nat, NEW bits, ~ (all \subseteq bits)
  PROVE  \A j \in all \ bits : FirstClear(bits, all) <= j
<1>1. \E i \in all \ bits : \A j \in all \ bits : i <= j
  <2>1. all \ bits \in SUBSET Nat /\ all \ bits # {}
    OBVIOUS
  <2> QED
    BY <2>1, LeastNumber
<1>2. FirstClear(bits, all) = CHOOSE i \in all \ bits : \A j \in all \ bits : i <= j
  BY DEF FirstClear
<1> QED
  BY <1>1, <1>2, Zenon

(* IndexOf is 0 of what is not in the sequence, and an index of the rest.  *)
LEMMA IndexOfIs ==
  ASSUME NEW S, NEW seq \in Seq(S), NEW x
  PROVE  /\ IndexOf(seq, x) \in Nat
         /\ IndexOf(seq, x) = 0 <=> \A i \in 1..Len(seq) : seq[i] # x
         /\ IndexOf(seq, x) # 0 =>
              IndexOf(seq, x) \in 1..Len(seq) /\ seq[IndexOf(seq, x)] = x
<1>1. CASE \E i \in 1..Len(seq) : seq[i] = x
  <2> DEFINE n == CHOOSE i \in 1..Len(seq) : seq[i] = x
  <2>1. n \in 1..Len(seq) /\ seq[n] = x
    BY <1>1
  <2>2. IndexOf(seq, x) = n
    BY <1>1 DEF IndexOf
  <2> HIDE DEF n
  <2>3. n \in Nat /\ n # 0
    BY <2>1
  <2> QED
    BY <1>1, <2>1, <2>2, <2>3
<1>2. CASE ~ \E i \in 1..Len(seq) : seq[i] = x
  BY <1>2 DEF IndexOf
<1> QED
  BY <1>1, <1>2

(* A sequence over T; one that lists x; one that lists nothing twice.      *)
Among(seq, T) == \A i \in 1..Len(seq) : seq[i] \in T
Lists(seq, x) == \E i \in 1..Len(seq) : seq[i] = x
Distinct(seq) == \A i, j \in 1..Len(seq) : seq[i] = seq[j] => i = j

(* Taking x out of a sequence that has it at most once.                    *)
LEMMA WithoutIs ==
  ASSUME NEW S, NEW seq \in Seq(S), Distinct(seq), NEW x
  PROVE  /\ Without(seq, x) \in Seq(S) /\ Distinct(Without(seq, x))
         /\ \A i \in 1..Len(Without(seq, x)) :
              \E j \in 1..Len(seq) : Without(seq, x)[i] = seq[j] /\ seq[j] # x
         /\ \A j \in 1..Len(seq) : seq[j] # x =>
              \E i \in 1..Len(Without(seq, x)) : Without(seq, x)[i] = seq[j]
<1> DEFINE n == IndexOf(seq, x)
           w == Without(seq, x)
<1>1. /\ n \in Nat
      /\ n = 0 <=> \A i \in 1..Len(seq) : seq[i] # x
      /\ n # 0 => n \in 1..Len(seq) /\ seq[n] = x
  BY IndexOfIs
<1>2. CASE n = 0
  <2>1. w = seq
    BY <1>2 DEF Without
  <2> QED
    BY <1>1, <1>2, <2>1
<1>3. CASE n # 0
  <2>1. w = SubSeq(seq, 1, n - 1) \o SubSeq(seq, n + 1, Len(seq))
    BY <1>3 DEF Without, RemoveAt
  <2>2. n \in 1..Len(seq) /\ seq[n] = x /\ Len(seq) \in Nat
    BY <1>1, <1>3
  <2> HIDE DEF n
  <2>3. /\ w \in Seq(S) /\ Len(w) = Len(seq) - 1
        /\ \A i \in 1..(Len(seq) - 1) : w[i] = IF i < n THEN seq[i] ELSE seq[i + 1]
    <3> DEFINE A == SubSeq(seq, 1, n - 1)
               B == SubSeq(seq, n + 1, Len(seq))
    <3>1. A \in Seq(S) /\ Len(A) = n - 1 /\ \A i \in 1..(n - 1) : A[i] = seq[i]
      BY <2>2, SubSeqProperties
    <3>2. /\ B \in Seq(S) /\ Len(B) = Len(seq) - n
          /\ \A i \in 1..(Len(seq) - n) : B[i] = seq[n + i]
      BY <2>2, SubSeqProperties
    <3>3. w = A \o B
      BY <2>1
    <3> HIDE DEF A, B, w
    <3>4. /\ w \in Seq(S) /\ Len(w) = Len(A) + Len(B)
          /\ \A i \in 1..(Len(A) + Len(B)) :
               w[i] = IF i <= Len(A) THEN A[i] ELSE B[i - Len(A)]
      BY <3>1, <3>2, <3>3, ConcatProperties
    <3>a. Len(A) + Len(B) = Len(seq) - 1
      BY <2>2, <3>1, <3>2
    <3>5. ASSUME NEW i \in 1..(Len(seq) - 1)
          PROVE  w[i] = IF i < n THEN seq[i] ELSE seq[i + 1]
      <4>0. w[i] = IF i <= n - 1 THEN A[i] ELSE B[i - (n - 1)]
        BY <3>1, <3>4, <3>a
      <4>1. CASE i < n
        <5>1. i <= n - 1 /\ i \in 1..(n - 1)
          BY <4>1, <2>2
        <5> QED
          BY <4>0, <4>1, <5>1, <3>1
      <4>2. CASE ~ (i < n)
        <5>1. w[i] = B[i - (n - 1)] /\ i - (n - 1) \in 1..(Len(seq) - n)
          BY <4>0, <4>2, <2>2
        <5>2. n + (i - (n - 1)) = i + 1
          BY <2>2
        <5>3. B[i - (n - 1)] = seq[n + (i - (n - 1))]
          BY <5>1, <3>2
        <5> QED
          BY <4>2, <5>1, <5>2, <5>3
      <4> QED
        BY <4>1, <4>2
    <3> QED
      BY <3>4, <3>5, <3>a
  <2> HIDE DEF w
  <2>4. Distinct(w)
    <3> SUFFICES ASSUME NEW i \in 1..Len(w), NEW j \in 1..Len(w), w[i] = w[j]
                 PROVE  i = j
      BY DEF Distinct
    <3> DEFINE up(k) == IF k < n THEN k ELSE k + 1
    <3>1. up(i) \in 1..Len(seq) /\ up(j) \in 1..Len(seq)
      BY <2>2, <2>3
    <3>2. w[i] = seq[up(i)] /\ w[j] = seq[up(j)]
      BY <2>2, <2>3
    <3>3. up(i) = up(j)
      BY <3>1, <3>2, Zenon DEF Distinct
    <3> QED
      BY <2>2, <2>3, <3>3
  <2>5. ASSUME NEW i \in 1..Len(w)
        PROVE  \E j \in 1..Len(seq) : w[i] = seq[j] /\ seq[j] # x
    <3>1. CASE i < n
      <4>1. i \in 1..Len(seq) /\ i # n /\ w[i] = seq[i]
        BY <2>2, <2>3, <3>1
      <4> QED
        BY <4>1, <2>2 DEF Distinct
    <3>2. CASE ~ (i < n)
      <4>1. i + 1 \in 1..Len(seq) /\ i + 1 # n /\ w[i] = seq[i + 1]
        BY <2>2, <2>3, <3>2
      <4> QED
        BY <4>1, <2>2 DEF Distinct
    <3> QED
      BY <3>1, <3>2
  <2>6. ASSUME NEW j \in 1..Len(seq), seq[j] # x
        PROVE  \E i \in 1..Len(w) : w[i] = seq[j]
    <3>1. CASE j < n
      <4>1. j \in 1..Len(w) /\ w[j] = seq[j]
        BY <2>2, <2>3, <3>1
      <4> QED
        BY <4>1
    <3>2. CASE ~ (j < n)
      <4>1. j - 1 \in 1..Len(w) /\ ~ (j - 1 < n)
        BY <2>2, <2>3, <2>6, <3>2
      <4>2. w[j - 1] = seq[j]
        BY <2>3, <4>1
      <4> QED
        BY <4>1, <4>2
    <3> QED
      BY <3>1, <3>2
  <2> QED
    BY <2>3, <2>4, <2>5, <2>6 DEF w
<1> QED
  BY <1>2, <1>3

(* The least recent of some frames.                                        *)
LEMMA LeastRecentIs ==
  ASSUME NEW m \in Unit, NEW T \in SUBSET Nat, T # {}
  PROVE  /\ LeastRecent(m, T) \in T
         /\ \A g \in T : \/ Rank(m, LeastRecent(m, T)) < Rank(m, g)
                         \/ /\ Rank(m, LeastRecent(m, T)) = Rank(m, g)
                            /\ LeastRecent(m, T) <= g
<1>1. \A f : Rank(m, f) \in Nat
  BY IndexOfIs DEF Rank, Unit
<1> DEFINE Ranks == {Rank(m, f) : f \in T}
<1>2. PICK f \in T : \A g \in T : Rank(m, f) <= Rank(m, g)
  <2>1. Ranks \in SUBSET Nat /\ Ranks # {}
    BY <1>1
  <2>2. PICK r \in Ranks : \A q \in Ranks : r <= q
    BY <2>1, LeastNumber
  <2> QED
    BY <2>2
<1> DEFINE Low == {g \in T : Rank(m, g) = Rank(m, f)}
<1>3. PICK h \in Low : \A g \in Low : h <= g
  <2>1. Low \in SUBSET Nat /\ Low # {}
    OBVIOUS
  <2> QED
    BY <2>1, LeastNumber
<1>4. ASSUME NEW g \in T
      PROVE  Rank(m, h) < Rank(m, g) \/ (Rank(m, h) = Rank(m, g) /\ h <= g)
  <2>1. Rank(m, h) = Rank(m, f) /\ Rank(m, f) <= Rank(m, g)
    BY <1>2
  <2>2. CASE Rank(m, g) = Rank(m, f)
    BY <1>3, <2>1, <2>2
  <2>3. CASE Rank(m, g) # Rank(m, f)
    BY <1>1, <2>1, <2>3
  <2> QED
    BY <2>2, <2>3
<1>5. \E x \in T : \A g \in T :
        Rank(m, x) < Rank(m, g) \/ (Rank(m, x) = Rank(m, g) /\ x <= g)
  BY <1>4
<1> QED
  BY <1>5, Zenon DEF LeastRecent

-----------------------------------------------------------------------------
(* The record of the MMU.                                                  *)

(* The fields of a record m and what they hold.                            *)
LEMMA UnitFields ==
  ASSUME NEW m \in Unit
  PROVE  /\ m.ipt \in [Entries -> Entry] /\ m.tlb \in [Slots -> Translation]
         /\ m.used \subseteq Frames /\ m.taken \subseteq Slots
         /\ m.order \in Seq(Frames) /\ m.memory \in [Frames -> Contents]
         /\ m.tables \in [Addresses -> {NULL} \union [Pages -> TableEntry]]
         /\ m.wild \in BOOLEAN
         /\ \A f \in Frames : m.ipt[f] \in Entry /\ m.ipt[f].slot \in Slots \union {-1}
BY Numbers DEF Unit, Entry

LEMMA EmptyFields ==
  /\ EmptyEntry.page = -1 /\ EmptyEntry.space = NULL /\ EmptyEntry.slot = -1
  /\ EmptyEntry.valid = FALSE /\ EmptyEntry.dirty = FALSE
BY DEF EmptyEntry

(* The rank of what has not been accessed is 0.                            *)
LEMMA RankIs ==
  ASSUME NEW m \in Unit, NEW f
  PROVE  /\ Rank(m, f) \in Nat
         /\ Rank(m, f) = 0 <=> ~ Lists(m.order, f)
BY UnitFields, IndexOfIs DEF Rank, Lists

(* What is on the TLB before something collected is collected too.         *)
LEMMA CollectedDown ==
  ASSUME NEW m, NEW v \in Collected(m), NEW e \in OnTLB(m), e < v
  PROVE  e \in Collected(m)
<1> DEFINE Below(x) == {g \in OnTLB(m) : g < x}
<1>1. IsFiniteSet(Below(v)) /\ Below(e) \subseteq Below(v)
  <2>1. IsFiniteSet(Frames) /\ OnTLB(m) \subseteq Frames /\ Frames \subseteq Nat
    <3>1. IsFiniteSet(0..(NumFrames - 1))
      <4>1. 0 \in Int /\ NumFrames - 1 \in Int
        BY MemoryAssumption
      <4> QED
        BY <4>1, FS_Interval
    <3> QED
      BY <3>1, Numbers DEF Frames, OnTLB
  <2>2. v \in Nat /\ e \in Nat
    BY <2>1 DEF Collected
  <2>3. Below(v) \subseteq Frames
    BY <2>1
  <2> QED
    <3>1. ASSUME NEW g \in OnTLB(m), g < e
          PROVE  g < v
      <4>1. g \in Nat
        BY <2>1
      <4> QED
        BY <2>2, <3>1, <4>1
    <3>a. Below(e) \subseteq Below(v)
      BY <3>1
    <3>2. IsFiniteSet(Below(v))
      BY <2>1, <2>3, FS_Subset
    <3> QED
      BY <3>a, <3>2
<1>2. Cardinality(Below(e)) <= Cardinality(Below(v)) /\ IsFiniteSet(Below(e))
  BY <1>1, FS_Subset
<1>3. Cardinality(Below(e)) \in Nat /\ Cardinality(Below(v)) \in Nat /\ NumSlots \in Nat
  BY <1>1, <1>2, FS_CardinalityType, MemoryAssumption
<1>4. Cardinality(Below(v)) < NumSlots
  BY DEF Collected
<1> HIDE DEF Below
<1>5. Cardinality(Below(e)) < NumSlots
  BY <1>2, <1>3, <1>4
<1> QED
  BY <1>5 DEF Collected, Below

(* LostForGood speaks of taken, of the TLB entries frames have, and of     *)
(* those nothing has accessed.                                             *)
LEMMA LostKept ==
  ASSUME NEW m \in Unit, NEW n \in Unit, LostForGood(m),
         OnTLB(n) = OnTLB(m), m.taken = Slots => n.taken = Slots,
         (\E f \in n.used : n.ipt[f].slot = -1) => \E f \in m.used : m.ipt[f].slot = -1,
         \A g \in Frames : Rank(n, g) = 0 => Rank(m, g) = 0,
         \A g \in Frames : m.ipt[g].slot = -1 /\ Rank(m, g) = 0 =>
                             n.ipt[g].slot = -1 /\ Rank(n, g) = 0
  PROVE  LostForGood(n)
<1> SUFFICES ASSUME \E f \in n.used : n.ipt[f].slot = -1
             PROVE  n.taken = Slots /\ \E v \in Frames : Victim(n, v)
  BY DEF LostForGood
<1>1. m.taken = Slots /\ \E v \in Frames : Victim(m, v)
  BY DEF LostForGood
<1>2. PICK v \in Frames : Victim(m, v)
  BY <1>1
<1>3. Collected(n) = Collected(m) /\ Collected(m) \subseteq Frames
  BY DEF Collected, OnTLB
<1>4. Victim(n, v)
  BY <1>2, <1>3 DEF Victim
<1> QED
  BY <1>1, <1>4

LEMMA LostSame ==
  ASSUME NEW m, LostForGood(m), NEW n,
         n.ipt = m.ipt, n.used = m.used, n.taken = m.taken, n.order = m.order
  PROVE  LostForGood(n)
<1>1. Collected(n) = Collected(m)
  BY DEF Collected, OnTLB
<1>2. \A g : Rank(n, g) = Rank(m, g)
  BY DEF Rank
<1>3. \A v : Victim(m, v) => Victim(n, v)
  BY <1>1, <1>2 DEF Victim
<1> QED
  BY <1>3 DEF LostForGood

(* Parts that stay when the entries, the TLB and the tables do.            *)
LEMMA PartsKept ==
  ASSUME NEW m, NEW n, NEW U, SlotsSound(m, U), OrderSound(m, U), TablesSound(m, U),
         n.ipt = m.ipt, n.tlb = m.tlb, n.taken = m.taken, n.order = m.order,
         n.tables = m.tables
  PROVE  SlotsSound(n, U) /\ OrderSound(n, U) /\ TablesSound(n, U)
<1>1. SlotsSound(n, U)
  BY DEF SlotsSound
<1>2. OrderSound(n, U)
  BY DEF OrderSound
<1>3. TablesSound(n, U)
  <2> SUFFICES ASSUME NEW a \in Addresses, NEW v \in Pages, n.tables[a] # NULL,
                      n.tables[a][v].valid, ~ n.tables[a][v].readOnly
               PROVE  LET f == n.tables[a][v].frame IN
                      f \in U /\ n.ipt[f].space = a /\ n.ipt[f].page = v
    BY DEF TablesSound
  <2> DEFINE f == m.tables[a][v].frame
  <2>1. m.tables[a] # NULL /\ m.tables[a][v].valid /\ ~ m.tables[a][v].readOnly
    OBVIOUS
  <2>2. f \in U /\ m.ipt[f].space = a /\ m.ipt[f].page = v
    BY <2>1 DEF TablesSound
  <2> QED
    BY <2>2
<1> QED
  BY <1>1, <1>2, <1>3

LEMMA SoundKept ==
  ASSUME NEW m, NEW U, Sound(m, U), NEW n \in Unit,
         n.ipt = m.ipt, n.tlb = m.tlb, n.used = m.used, n.taken = m.taken,
         n.order = m.order, n.tables = m.tables
  PROVE  Sound(n, U)
<1>1. SlotsSound(n, U) /\ OrderSound(n, U) /\ TablesSound(n, U)
  BY PartsKept DEF Sound
<1>2. EntriesSound(n, U)
  BY DEF Sound, EntriesSound
<1> QED
  BY <1>1, <1>2 DEF Sound

-----------------------------------------------------------------------------
(* An access through the TLB.                                              *)

(* The order of the accesses, with f the last.                             *)
Accessed(seq, f) == Append(Without(seq, f), f)

LEMMA OrderTouched ==
  ASSUME NEW m, NEW U, Sound(m, U), U \subseteq Frames, NEW f \in U
  PROVE  /\ Accessed(m.order, f) \in Seq(Frames)
         /\ Among(Accessed(m.order, f), U)
         /\ Distinct(Accessed(m.order, f))
         /\ \A g : Lists(Accessed(m.order, f), g) <=> g = f \/ Lists(m.order, g)
<1> DEFINE o == Accessed(m.order, f)
<1>0. o = Append(Without(m.order, f), f)
  BY DEF Accessed
<1> HIDE DEF o
<1> DEFINE w == Without(m.order, f)
<1>1. /\ w \in Seq(Frames) /\ Distinct(w)
      /\ \A i \in 1..Len(w) : \E j \in 1..Len(m.order) : w[i] = m.order[j] /\ m.order[j] # f
      /\ \A j \in 1..Len(m.order) : m.order[j] # f => \E i \in 1..Len(w) : w[i] = m.order[j]
  <2>1. m.order \in Seq(Frames) /\ Distinct(m.order)
    BY UnitFields DEF Sound, OrderSound, Distinct
  <2> DEFINE q == m.order
  <2> HIDE DEF q
  <2>2. /\ Without(q, f) \in Seq(Frames) /\ Distinct(Without(q, f))
        /\ \A i \in 1..Len(Without(q, f)) :
             \E j \in 1..Len(q) : Without(q, f)[i] = q[j] /\ q[j] # f
        /\ \A j \in 1..Len(q) : q[j] # f =>
             \E i \in 1..Len(Without(q, f)) : Without(q, f)[i] = q[j]
    <3>1. q \in Seq(Frames) /\ Distinct(q)
      BY <2>1 DEF q
    <3> QED
      BY <3>1, WithoutIs
  <2> QED
    BY <2>2 DEF q
<1>2. \A i \in 1..Len(m.order) : m.order[i] \in U
  BY DEF Sound, OrderSound
<1>3. o = Append(w, f)
  BY <1>0
<1> HIDE DEF w
<1>4. /\ o \in Seq(Frames) /\ Len(o) = Len(w) + 1 /\ Len(w) \in Nat
      /\ \A i \in 1..Len(w) : o[i] = w[i]
      /\ o[Len(w) + 1] = f
  BY <1>1, <1>3, AppendProperties
<1>5. \A i \in 1..Len(o) : i \in 1..Len(w) \/ i = Len(w) + 1
  BY <1>4
<1>a. \A i \in 1..Len(w) : w[i] \in U /\ w[i] # f
  BY <1>1, <1>2
<1>6. ASSUME NEW i \in 1..Len(o) PROVE o[i] \in U
  <2>1. CASE i \in 1..Len(w)
    BY <1>a, <1>4, <2>1
  <2>2. CASE i = Len(w) + 1
    BY <1>4, <2>2
  <2> QED
    BY <1>5, <2>1, <2>2
<1>7. Distinct(o)
  <2> SUFFICES ASSUME NEW i \in 1..Len(o), NEW j \in 1..Len(o), o[i] = o[j]
               PROVE  i = j
    BY DEF Distinct
  <2>1. CASE i \in 1..Len(w) /\ j \in 1..Len(w)
    BY <1>1, <1>4, <2>1 DEF Distinct
  <2>2. CASE i \in 1..Len(w) /\ j = Len(w) + 1
    BY <1>a, <1>4, <2>2
  <2>3. CASE i = Len(w) + 1 /\ j \in 1..Len(w)
    BY <1>a, <1>4, <2>3
  <2> QED
    BY <1>5, <2>1, <2>2, <2>3
<1>8. ASSUME NEW g, g # f, \A i \in 1..Len(m.order) : m.order[i] # g
      PROVE  \A i \in 1..Len(o) : o[i] # g
  <2>1. \A i \in 1..Len(w) : w[i] # g
    BY <1>1, <1>8
  <2> QED
    BY <1>4, <1>5, <1>8, <2>1
<1>9. ASSUME NEW g, \A i \in 1..Len(o) : o[i] # g
      PROVE  g # f /\ \A i \in 1..Len(m.order) : m.order[i] # g
  <2>1. Len(w) + 1 \in 1..Len(o) /\ \A i \in 1..Len(w) : i \in 1..Len(o)
    BY <1>4
  <2>2. g # f /\ \A i \in 1..Len(w) : w[i] # g
    BY <1>4, <1>9, <2>1
  <2> QED
    BY <1>1, <2>2
<1>10. Among(o, U)
  BY <1>6 DEF Among
<1>11. ASSUME NEW g
       PROVE  Lists(o, g) <=> g = f \/ Lists(m.order, g)
  BY <1>8, <1>9 DEF Lists
<1> QED
  BY <1>4, <1>7, <1>10, <1>11 DEF o

(* The fields Touch changes.                                               *)
LEMMA TouchFields ==
  ASSUME NEW m \in Unit, NEW s \in Slots, m.tlb[s].frame \in Frames,
         NEW writing \in BOOLEAN, NEW f, f = m.tlb[s].frame,
         Accessed(m.order, f) \in Seq(Frames)
  PROVE  LET n == Touch(m, s, writing) IN
         /\ n \in Unit
         /\ n.order = Accessed(m.order, f)
         /\ \A i \in Entries : /\ n.ipt[i].page = m.ipt[i].page
                               /\ n.ipt[i].space = m.ipt[i].space
                               /\ n.ipt[i].valid = m.ipt[i].valid
                               /\ n.ipt[i].slot = m.ipt[i].slot
         /\ \A i \in Entries : i # f => n.ipt[i] = m.ipt[i]
         /\ n.ipt[f].dirty = (m.ipt[f].dirty \/ writing)
         /\ n.tlb = m.tlb /\ n.used = m.used /\ n.taken = m.taken
         /\ n.memory = m.memory /\ n.tables = m.tables /\ n.wild = m.wild
<1> DEFINE o == Accessed(m.order, f)
           d == m.ipt[f].dirty \/ writing
<1>1. Touch(m, s, writing) = [m EXCEPT !.order = o, !.ipt[f].dirty = d]
  BY DEF Touch, Accessed
<1>2. m.ipt \in [Entries -> Entry] /\ f \in Entries /\ o \in Seq(Frames) /\ d \in BOOLEAN
  BY UnitFields, Numbers DEF Entry
<1> HIDE DEF o, d
<1> DEFINE n == Touch(m, s, writing)
           e == [m.ipt EXCEPT ![f] = [m.ipt[f] EXCEPT !.dirty = d]]
<1>3. /\ n.ipt = e /\ n.order = o
      /\ n.tlb = m.tlb /\ n.used = m.used /\ n.taken = m.taken
      /\ n.memory = m.memory /\ n.tables = m.tables /\ n.wild = m.wild
  BY <1>1 DEF Unit
<1>4. e \in [Entries -> Entry]
  BY <1>2 DEF Entry
<1>5. n \in Unit
  BY <1>1, <1>2, <1>4 DEF Unit
<1>6. /\ \A i \in Entries : i # f => e[i] = m.ipt[i]
      /\ e[f] = [m.ipt[f] EXCEPT !.dirty = d]
  BY <1>2
<1>7. /\ e[f].page = m.ipt[f].page /\ e[f].space = m.ipt[f].space
      /\ e[f].valid = m.ipt[f].valid /\ e[f].slot = m.ipt[f].slot
      /\ e[f].dirty = d
  BY SMTT(30), <1>2, <1>6 DEF Entry
<1> HIDE DEF e, n
<1> QED
  BY <1>3, <1>5, <1>6, <1>7 DEF n, o, d

(* Touch keeps the unit sound, and what is accessed is in use.             *)
LEMMA TouchSound ==
  ASSUME NEW m, UnitSound(m), NEW a, OnlyValid(m, m.used, a),
         NEW s \in Slots, m.tlb[s].valid, NEW writing \in BOOLEAN
  PROVE  LET n == Touch(m, s, writing)
             f == m.tlb[s].frame IN
         /\ UnitSound(n) /\ OnlyValid(n, n.used, a)
         /\ f \in m.used
         /\ \A g \in Frames : Rank(n, g) = 0 <=> g # f /\ Rank(m, g) = 0
         /\ n.tables = m.tables /\ n.memory = m.memory /\ n.tlb = m.tlb
         /\ n.used = m.used
         /\ \A i \in Entries : /\ n.ipt[i].page = m.ipt[i].page
                               /\ n.ipt[i].space = m.ipt[i].space
                               /\ n.ipt[i].valid = m.ipt[i].valid
                               /\ n.ipt[i].slot = m.ipt[i].slot
         /\ \A i \in Entries : i # f => n.ipt[i] = m.ipt[i]
<1> DEFINE n == Touch(m, s, writing)
           f == m.tlb[s].frame
           U == m.used
<1>0. Sound(m, U) /\ LostForGood(m) /\ m \in Unit
  BY DEF UnitSound, Sound
<1>1. f \in U /\ U \subseteq Frames /\ m.ipt[f].slot = s
  BY <1>0, UnitFields DEF Sound, SlotsSound
<1> DEFINE o == Accessed(m.order, f)
<1>2. /\ o \in Seq(Frames) /\ Distinct(o) /\ Among(o, U)
      /\ \A g : Lists(o, g) <=> g = f \/ Lists(m.order, g)
  <2> HIDE DEF U, f
  <2> QED
    BY <1>0, <1>1, OrderTouched
<1>3. /\ n \in Unit
      /\ n.order = o
      /\ \A i \in Entries : /\ n.ipt[i].page = m.ipt[i].page
                            /\ n.ipt[i].space = m.ipt[i].space
                            /\ n.ipt[i].valid = m.ipt[i].valid
                            /\ n.ipt[i].slot = m.ipt[i].slot
      /\ \A i \in Entries : i # f => n.ipt[i] = m.ipt[i]
      /\ n.tlb = m.tlb /\ n.used = m.used /\ n.taken = m.taken
      /\ n.memory = m.memory /\ n.tables = m.tables
  BY <1>0, <1>1, <1>2, TouchFields
<1> HIDE DEF n, f, o
<1>4. \A g : Rank(n, g) = 0 <=> g # f /\ Rank(m, g) = 0
  BY <1>0, <1>2, <1>3, RankIs
<1>5. EntriesSound(n, U)
  BY <1>0, <1>1, <1>3, Numbers DEF Sound, EntriesSound
<1>s. SlotsSound(m, U) /\ TablesSound(m, U) /\ U \subseteq Entries
  BY <1>0, <1>1, Numbers DEF Sound
<1>6. SlotsSound(n, U)
  BY <1>s, <1>3 DEF SlotsSound
<1>7. OrderSound(n, U)
  BY <1>2, <1>3 DEF OrderSound, Among, Distinct
<1>8. TablesSound(n, U)
  BY SMTT(30), <1>s, <1>3 DEF TablesSound
<1>9. LostForGood(n)
  <2>1. OnTLB(n) = OnTLB(m)
    BY <1>3, Numbers DEF OnTLB
  <2>2. (\E g \in n.used : n.ipt[g].slot = -1) => \E g \in m.used : m.ipt[g].slot = -1
    BY <1>1, <1>3, Numbers
  <2>3. \A g \in Frames : Rank(n, g) = 0 => Rank(m, g) = 0
    BY <1>4
  <2>4. \A g \in Frames : m.ipt[g].slot = -1 /\ Rank(m, g) = 0 =>
                            n.ipt[g].slot = -1 /\ Rank(n, g) = 0
    BY <1>1, <1>3, <1>4, Numbers
  <2> QED
    BY <1>0, <1>3, <2>1, <2>2, <2>3, <2>4, LostKept
<1>10. OnlyValid(n, n.used, a)
  BY <1>1, <1>3, Numbers DEF OnlyValid
<1> QED
  BY <1>1, <1>3, <1>4, <1>5, <1>6, <1>7, <1>8, <1>9, <1>10 DEF UnitSound, Sound, n, f

-----------------------------------------------------------------------------
(* Switching the pages of a space on and off.                              *)

LEMMA SetValidFields ==
  ASSUME NEW m \in Unit, NEW a, NEW valid \in BOOLEAN,
         NEW n, n = SetValid(m, a, valid)
  PROVE  /\ n \in Unit
         /\ \A i \in Entries : /\ n.ipt[i].page = m.ipt[i].page
                               /\ n.ipt[i].space = m.ipt[i].space
                               /\ n.ipt[i].slot = m.ipt[i].slot
                               /\ n.ipt[i].dirty = m.ipt[i].dirty
                               /\ n.ipt[i].valid =
                                    IF i \in Frames /\ m.ipt[i].space = a THEN valid
                                    ELSE m.ipt[i].valid
                               /\ ~ (i \in Frames /\ m.ipt[i].space = a) =>
                                    n.ipt[i] = m.ipt[i]
         /\ \A s \in Slots : n.tlb[s] = IF s \in SlotsOf(m, a, ~ valid)
                                        THEN [m.tlb[s] EXCEPT !.valid = valid]
                                        ELSE m.tlb[s]
         /\ n.order = m.order /\ n.used = m.used /\ n.taken = m.taken
         /\ n.memory = m.memory /\ n.tables = m.tables /\ n.wild = m.wild
<1> DEFINE e == [i \in Entries |->
                   IF i \in Frames /\ m.ipt[i].space = a
                   THEN [m.ipt[i] EXCEPT !.valid = valid] ELSE m.ipt[i]]
           t == [s \in Slots |->
                   IF s \in SlotsOf(m, a, ~ valid)
                   THEN [m.tlb[s] EXCEPT !.valid = valid] ELSE m.tlb[s]]
<1>1. n = [m EXCEPT !.ipt = e, !.tlb = t]
  BY DEF SetValid
<1>2. e \in [Entries -> Entry]
  BY UnitFields DEF Entry
<1>3. t \in [Slots -> Translation]
  BY UnitFields DEF Translation
<1>4. \A i \in Entries : /\ e[i].page = m.ipt[i].page
                         /\ e[i].space = m.ipt[i].space
                         /\ e[i].slot = m.ipt[i].slot
                         /\ e[i].dirty = m.ipt[i].dirty
                         /\ e[i].valid =
                              IF i \in Frames /\ m.ipt[i].space = a THEN valid
                              ELSE m.ipt[i].valid
                         /\ ~ (i \in Frames /\ m.ipt[i].space = a) => e[i] = m.ipt[i]
  BY UnitFields DEF Entry
<1>5. \A s \in Slots : t[s] = IF s \in SlotsOf(m, a, ~ valid)
                              THEN [m.tlb[s] EXCEPT !.valid = valid] ELSE m.tlb[s]
  OBVIOUS
<1> HIDE DEF e, t
<1>6. /\ n.ipt = e /\ n.tlb = t /\ n \in Unit
      /\ n.order = m.order /\ n.used = m.used /\ n.taken = m.taken
      /\ n.memory = m.memory /\ n.tables = m.tables /\ n.wild = m.wild
  BY <1>1, <1>2, <1>3 DEF Unit
<1> QED
  BY <1>4, <1>5, <1>6

(* Either way the unit stays sound: the TLB entries that are switched are  *)
(* those of the pages switched.                                            *)
LEMMA SetValidSound ==
  ASSUME NEW m, UnitSound(m), NEW a \in Addresses, NEW valid \in BOOLEAN
  PROVE  UnitSound(SetValid(m, a, valid))
<1> DEFINE n == SetValid(m, a, valid)
           U == m.used
<1>0. Sound(m, U) /\ LostForGood(m) /\ m \in Unit /\ U \subseteq Frames
  BY UnitFields DEF UnitSound, Sound
<1>1. /\ n \in Unit
      /\ \A i \in Entries : /\ n.ipt[i].page = m.ipt[i].page
                            /\ n.ipt[i].space = m.ipt[i].space
                            /\ n.ipt[i].slot = m.ipt[i].slot
                            /\ n.ipt[i].valid =
                                 IF i \in Frames /\ m.ipt[i].space = a THEN valid
                                 ELSE m.ipt[i].valid
                            /\ ~ (i \in Frames /\ m.ipt[i].space = a) =>
                                 n.ipt[i] = m.ipt[i]
      /\ \A s \in Slots : n.tlb[s] = IF s \in SlotsOf(m, a, ~ valid)
                                     THEN [m.tlb[s] EXCEPT !.valid = valid]
                                     ELSE m.tlb[s]
      /\ n.order = m.order /\ n.used = m.used /\ n.taken = m.taken
      /\ n.memory = m.memory /\ n.tables = m.tables
  <2>1. n = SetValid(m, a, valid)
    OBVIOUS
  <2> HIDE DEF n
  <2> QED
    BY <1>0, <2>1, SetValidFields
<1> HIDE DEF n
<1>2. EntriesSound(n, U)
  <2>1. \A i \in Entries \ U : m.ipt[i] = EmptyEntry
    BY <1>0 DEF Sound, EntriesSound
  <2>2. ASSUME NEW i \in Entries \ U
        PROVE  n.ipt[i] = EmptyEntry
    <3>1. m.ipt[i].space = NULL /\ m.ipt[i] = EmptyEntry
      BY <2>1, EmptyFields
    <3>2. a # NULL
      BY Numbers
    <3> QED
      BY <1>1, <3>1, <3>2
  <2> QED
    BY <1>0, <1>1, <2>2, Numbers DEF Sound, EntriesSound
<1>a. \A f \in U : m.ipt[f].slot # -1 =>
        /\ m.ipt[f].slot \in m.taken /\ m.ipt[f].slot \in Slots
        /\ m.tlb[m.ipt[f].slot] =
             [page |-> m.ipt[f].page, frame |-> f, valid |-> m.ipt[f].valid]
  BY <1>0, UnitFields DEF Sound, SlotsSound
<1>b. ASSUME NEW s \in SlotsOf(m, a, ~ valid), s # -1
      PROVE  \E f \in U : /\ m.ipt[f].slot = s /\ m.ipt[f].space = a
                          /\ m.ipt[f].valid = ~ valid
  <2>1. PICK f \in Frames : s = m.ipt[f].slot /\ m.ipt[f].space = a
                            /\ m.ipt[f].valid = ~ valid
    BY DEF SlotsOf
  <2>2. f \in U
    BY <1>0, <1>b, <2>1, Numbers DEF Sound, EntriesSound, EmptyEntry
  <2> QED
    BY <2>1, <2>2
<1>c. \A f, g \in U : m.ipt[f].slot # -1 /\ m.ipt[f].slot = m.ipt[g].slot => f = g
  <2> SUFFICES ASSUME NEW f \in U, NEW g \in U, m.ipt[f].slot # -1,
                      m.ipt[f].slot = m.ipt[g].slot
               PROVE  f = g
    OBVIOUS
  <2>0. /\ m.tlb[m.ipt[f].slot] =
             [page |-> m.ipt[f].page, frame |-> f, valid |-> m.ipt[f].valid]
        /\ m.tlb[m.ipt[g].slot] =
             [page |-> m.ipt[g].page, frame |-> g, valid |-> m.ipt[g].valid]
    BY <1>a
  <2>1. /\ m.tlb[m.ipt[f].slot].frame = f
        /\ m.tlb[m.ipt[g].slot].frame = g
    BY <2>0
  <2> QED
    BY <2>1
<1>3. SlotsSound(n, U)
  <2>1. ASSUME NEW f \in U, n.ipt[f].slot # -1
        PROVE  /\ n.ipt[f].slot \in n.taken
               /\ n.tlb[n.ipt[f].slot] =
                    [page |-> n.ipt[f].page, frame |-> f, valid |-> n.ipt[f].valid]
    <3> DEFINE s == m.ipt[f].slot
    <3>1. /\ f \in Entries /\ f \in Frames /\ n.ipt[f].slot = s /\ s # -1
          /\ s \in m.taken /\ s \in Slots
          /\ m.tlb[s] = [page |-> m.ipt[f].page, frame |-> f, valid |-> m.ipt[f].valid]
      BY <1>0, <1>1, <1>a, <2>1, Numbers
    <3>2. CASE s \in SlotsOf(m, a, ~ valid)
      <4>1. m.ipt[f].space = a
        BY <1>b, <1>c, <3>1, <3>2
      <4>2. n.ipt[f].valid = valid /\ n.ipt[f].page = m.ipt[f].page
        BY <1>1, <3>1, <4>1
      <4>3. n.tlb[s] = [m.tlb[s] EXCEPT !.valid = valid]
        BY <1>1, <3>1, <3>2
      <4>4. n.tlb[s] = [page |-> m.ipt[f].page, frame |-> f, valid |-> valid]
        BY <3>1, <4>3
      <4> QED
        BY <1>1, <3>1, <4>2, <4>4
    <3>3. CASE s \notin SlotsOf(m, a, ~ valid)
      <4>1. n.tlb[s] = m.tlb[s]
        BY <1>1, <3>1, <3>3
      <4>2. m.ipt[f].space = a => m.ipt[f].valid = valid
        <5>1. m.ipt[f].valid \in BOOLEAN
          BY <1>0, <3>1, UnitFields DEF Entry
        <5>2. ~ (m.ipt[f].space = a /\ m.ipt[f].valid = ~ valid)
          BY <3>1, <3>3 DEF SlotsOf
        <5> QED
          BY <5>1, <5>2
      <4>3. n.ipt[f].valid = m.ipt[f].valid /\ n.ipt[f].page = m.ipt[f].page
        BY <1>1, <3>1, <4>2
      <4> QED
        BY <1>1, <3>1, <4>1, <4>3
    <3> QED
      BY <3>2, <3>3
  <2>2. ASSUME NEW s \in Slots, n.tlb[s].valid
        PROVE  n.tlb[s].frame \in U /\ n.ipt[n.tlb[s].frame].slot = s
    <3>1. CASE s \in SlotsOf(m, a, ~ valid)
      <4>1. PICK f \in U : m.ipt[f].slot = s
        BY <1>b, <3>1, Numbers
      <4>a. m.tlb[s] = [page |-> m.ipt[f].page, frame |-> f, valid |-> m.ipt[f].valid]
        BY <1>a, <4>1, Numbers
      <4>2. m.tlb[s].frame = f /\ n.ipt[f].slot = s
        BY <1>0, <1>1, <4>1, <4>a, Numbers
      <4>3. n.tlb[s].frame = m.tlb[s].frame
        <5>1. m.tlb[s] \in Translation
          BY <1>0, UnitFields
        <5> QED
          BY <1>1, <3>1, <5>1 DEF Translation
      <4> QED
        BY <4>2, <4>3
    <3>2. CASE s \notin SlotsOf(m, a, ~ valid)
      <4>1. n.tlb[s] = m.tlb[s]
        BY <1>1, <3>2
      <4>2. m.tlb[s].frame \in U /\ m.ipt[m.tlb[s].frame].slot = s
        BY <1>0, <2>2, <4>1 DEF Sound, SlotsSound
      <4> QED
        BY <1>0, <1>1, <4>1, <4>2, Numbers
    <3> QED
      BY <3>1, <3>2
  <2> QED
    BY <2>1, <2>2 DEF SlotsSound
<1>4. OrderSound(n, U)
  BY <1>0, <1>1 DEF Sound, OrderSound
<1>5. TablesSound(n, U)
  BY SMTT(30), <1>0, <1>1, Numbers DEF Sound, TablesSound
<1>6. LostForGood(n)
  <2>1. OnTLB(n) = OnTLB(m)
    BY <1>1, Numbers DEF OnTLB
  <2>2. (\E g \in n.used : n.ipt[g].slot = -1) => \E g \in m.used : m.ipt[g].slot = -1
    BY <1>0, <1>1, Numbers
  <2>3. \A g \in Frames : Rank(n, g) = Rank(m, g)
    BY <1>1 DEF Rank
  <2>4. \A g \in Frames : m.ipt[g].slot = -1 /\ Rank(m, g) = 0 =>
                            n.ipt[g].slot = -1 /\ Rank(n, g) = 0
    BY <1>1, <2>3, Numbers
  <2> QED
    BY <1>0, <1>1, <2>1, <2>2, <2>3, <2>4, LostKept
<1> QED
  BY <1>1, <1>2, <1>3, <1>4, <1>5, <1>6 DEF UnitSound, Sound, n

(* SaveState: no page is valid; RestoreState: those of the next space are. *)
LEMMA ProtectIs ==
  ASSUME NEW m, UnitSound(m), NEW a \in Addresses, OnlyValid(m, m.used, a)
  PROVE  OnlyValid(protectProcessPages(m, a), protectProcessPages(m, a).used, NULL)
<1> DEFINE n == SetValid(m, a, FALSE)
<1>0. m \in Unit /\ m.used \subseteq Frames
  BY UnitFields DEF UnitSound, Sound
<1>1. /\ n.used = m.used
      /\ \A i \in Entries : /\ n.ipt[i].space = m.ipt[i].space
                            /\ n.ipt[i].valid =
                                 IF i \in Frames /\ m.ipt[i].space = a THEN FALSE
                                 ELSE m.ipt[i].valid
  <2> DEFINE b == FALSE
  <2>1. b \in BOOLEAN
    OBVIOUS
  <2>a. b = FALSE
    OBVIOUS
  <2>2. n = SetValid(m, a, b)
    OBVIOUS
  <2> HIDE DEF n, b
  <2>3. /\ n.used = m.used
        /\ \A i \in Entries : /\ n.ipt[i].space = m.ipt[i].space
                              /\ n.ipt[i].valid =
                                   IF i \in Frames /\ m.ipt[i].space = a THEN b
                                   ELSE m.ipt[i].valid
    BY <1>0, <2>1, <2>2, SetValidFields
  <2> QED
    BY <2>a, <2>3
<1> HIDE DEF n
<1>2. \A f \in m.used : m.ipt[f].space # NULL
  BY DEF UnitSound, Sound, EntriesSound
<1>3. OnlyValid(n, n.used, NULL)
  BY <1>0, <1>1, <1>2, Numbers DEF OnlyValid
<1> QED
  BY <1>3 DEF protectProcessPages, n

LEMMA RestoreIs ==
  ASSUME NEW m, UnitSound(m), NEW a \in Addresses, OnlyValid(m, m.used, NULL)
  PROVE  OnlyValid(restoreProcessPages(m, a), restoreProcessPages(m, a).used, a)
<1> DEFINE n == SetValid(m, a, TRUE)
<1>0. m \in Unit /\ m.used \subseteq Frames
  BY UnitFields DEF UnitSound, Sound
<1>1. /\ n.used = m.used
      /\ \A i \in Entries : /\ n.ipt[i].space = m.ipt[i].space
                            /\ n.ipt[i].valid =
                                 IF i \in Frames /\ m.ipt[i].space = a THEN TRUE
                                 ELSE m.ipt[i].valid
  <2> DEFINE b == TRUE
  <2>1. b \in BOOLEAN
    OBVIOUS
  <2>a. b = TRUE
    OBVIOUS
  <2>2. n = SetValid(m, a, b)
    OBVIOUS
  <2> HIDE DEF n, b
  <2>3. /\ n.used = m.used
        /\ \A i \in Entries : /\ n.ipt[i].space = m.ipt[i].space
                              /\ n.ipt[i].valid =
                                   IF i \in Frames /\ m.ipt[i].space = a THEN b
                                   ELSE m.ipt[i].valid
    BY <1>0, <2>1, <2>2, SetValidFields
  <2> QED
    BY <2>a, <2>3
<1> HIDE DEF n
<1>2. \A f \in m.used : m.ipt[f].space # NULL
  BY DEF UnitSound, Sound, EntriesSound
<1>3. OnlyValid(n, n.used, a)
  BY <1>0, <1>1, <1>2, Numbers DEF OnlyValid
<1> QED
  BY <1>3 DEF restoreProcessPages, n

-----------------------------------------------------------------------------
(* A frame for a new page.                                                 *)

(* What is left in the entry of a frame that was taken from its page.      *)
Emptied(s) == [EmptyEntry EXCEPT !.slot = s]

LEMMA EmptiedFields ==
  ASSUME NEW s \in Slots \union {-1}
  PROVE  /\ Emptied(s) \in Entry
         /\ Emptied(s).page = -1 /\ Emptied(s).space = NULL /\ Emptied(s).slot = s
         /\ Emptied(s).valid = FALSE /\ Emptied(s).dirty = FALSE
         /\ s = -1 => Emptied(s) = EmptyEntry
<1>1. EmptyEntry \in Entry /\ EmptyEntry.slot = -1
  BY DEF EmptyEntry, Entry
<1>2. /\ Emptied(s) \in Entry /\ Emptied(s).slot = s
      /\ Emptied(s).page = EmptyEntry.page /\ Emptied(s).space = EmptyEntry.space
      /\ Emptied(s).valid = EmptyEntry.valid /\ Emptied(s).dirty = EmptyEntry.dirty
  BY <1>1 DEF Emptied, Entry
<1>3. s = -1 => Emptied(s) = EmptyEntry
  BY <1>1 DEF Emptied, Entry
<1> QED
  BY <1>2, <1>3, EmptyFields

(* What evicting frame e makes of m.                                       *)
Freed(m, n, e) ==
  /\ n \in Unit
  /\ n.ipt[e] = Emptied(m.ipt[e].slot)
  /\ \A i \in Entries \ {e} : n.ipt[i] = m.ipt[i]
  /\ n.order = Without(m.order, e)
  /\ n.used = m.used \ {e} /\ n.taken = m.taken \ {m.ipt[e].slot}
  /\ \A s \in Slots : n.tlb[s] = IF s = m.ipt[e].slot THEN NoTranslation ELSE m.tlb[s]
  /\ \A b \in Addresses : n.tables[b] = NULL <=> m.tables[b] = NULL
  /\ \A b \in Addresses, w \in Pages : n.tables[b] # NULL =>
       IF b = m.ipt[e].space /\ w = m.ipt[e].page
       THEN /\ ~ n.tables[b][w].valid
            /\ n.tables[b][w].dirty = m.ipt[e].dirty
            /\ n.tables[b][w].readOnly = m.tables[b][w].readOnly
       ELSE n.tables[b][w] = m.tables[b][w]
  /\ n.memory = [m.memory EXCEPT ![e] = Zero]

(* invalidateTLBEntry, for any entry a frame can name.                     *)
LEMMA InvalidateTLBFields ==
  ASSUME NEW m \in Unit, NEW k \in Slots \union {-1}
  PROVE  /\ invalidateTLBEntry(m, k) \in Unit
         /\ invalidateTLBEntry(m, k).taken = m.taken \ {k}
         /\ \A s \in Slots : invalidateTLBEntry(m, k).tlb[s] =
                               IF s = k THEN NoTranslation ELSE m.tlb[s]
         /\ invalidateTLBEntry(m, k).ipt = m.ipt
         /\ invalidateTLBEntry(m, k).used = m.used
         /\ invalidateTLBEntry(m, k).order = m.order
         /\ invalidateTLBEntry(m, k).memory = m.memory
         /\ invalidateTLBEntry(m, k).tables = m.tables
         /\ invalidateTLBEntry(m, k).wild = m.wild
<1> DEFINE n == invalidateTLBEntry(m, k)
<1>1. CASE k \in Slots
  <2> DEFINE t == [m.tlb EXCEPT ![k] = NoTranslation]
             u == m.taken \ {k}
  <2>1. n = [m EXCEPT !.tlb = t, !.taken = u]
    BY <1>1 DEF invalidateTLBEntry
  <2>2. t \in [Slots -> Translation] /\ u \subseteq Slots
    BY UnitFields DEF NoTranslation, Translation
  <2>3. \A s \in Slots : t[s] = IF s = k THEN NoTranslation ELSE m.tlb[s]
    BY UnitFields, <1>1
  <2> HIDE DEF t, n
  <2>4. /\ n \in Unit /\ n.tlb = t /\ n.taken = u
        /\ n.ipt = m.ipt /\ n.used = m.used /\ n.order = m.order
        /\ n.memory = m.memory /\ n.tables = m.tables /\ n.wild = m.wild
    BY <2>1, <2>2 DEF Unit
  <2> QED
    BY <2>3, <2>4 DEF n
<1>2. CASE k = -1
  <2>1. k \notin Slots
    BY <1>2, Numbers
  <2>2. n = m /\ m.taken \ {k} = m.taken
    BY <2>1, UnitFields DEF invalidateTLBEntry
  <2> QED
    BY <2>1, <2>2
<1> QED
  BY <1>1, <1>2

(* invalidateInvPageTableEntry on an entry with an owner: the page table   *)
(* it leaves the owner, if the owner is there, and the rest.               *)
TableWithout(table, v, dirty) ==
  IF table = NULL THEN NULL
  ELSE [table EXCEPT ![v] = [table[v] EXCEPT !.frame = -1, !.valid = FALSE, !.dirty = dirty]]

LEMMA InvalidateEntry ==
  ASSUME NEW m \in Unit, NEW f, m.ipt[f].space # NULL
  PROVE  invalidateInvPageTableEntry(m, f) =
           [m EXCEPT
             !.tables = [m.tables EXCEPT ![m.ipt[f].space] =
                           TableWithout(m.tables[m.ipt[f].space], m.ipt[f].page, m.ipt[f].dirty)],
             !.ipt = [m.ipt EXCEPT ![f] = Emptied(m.ipt[f].slot)],
             !.order = Without(m.order, f), !.used = m.used \ {f}]
<1>1. invalidateInvPageTableEntry(m, f) =
        [m EXCEPT
          !.tables[m.ipt[f].space] = TableWithout(m.tables[m.ipt[f].space], m.ipt[f].page, m.ipt[f].dirty),
          !.ipt[f] = Emptied(m.ipt[f].slot),
          !.order = Without(@, f),
          !.used = @ \ {f}]
  BY Zenon DEF invalidateInvPageTableEntry, TableWithout, Emptied
<1> QED
  BY <1>1 DEF Unit

(* evictPage on a frame in use.                                            *)
LEMMA EvictedFields ==
  ASSUME NEW m, UnitSound(m), NEW e \in m.used, NEW k, k = m.ipt[e].slot,
         NEW n, n = [invalidateInvPageTableEntry(invalidateTLBEntry(m, k), e)
                       EXCEPT !.memory[e] = Zero]
  PROVE  Freed(m, n, e)
<1>0. m \in Unit /\ Sound(m, m.used) /\ m.used \subseteq Frames
  BY UnitFields DEF UnitSound, Sound
<1>1. /\ e \in Frames /\ e \in Entries /\ k \in Slots \union {-1}
      /\ m.ipt[e].space \in Addresses /\ m.ipt[e].page \in Pages
      /\ m.ipt[e].dirty \in BOOLEAN
  <2>1. e \in Frames /\ e \in Entries /\ m.ipt[e] \in Entry
    BY <1>0, UnitFields, Numbers
  <2>2. m.ipt[e].space # NULL /\ m.ipt[e].page \in Pages
    BY <1>0 DEF Sound, EntriesSound
  <2> QED
    BY <2>1, <2>2 DEF Entry
<1> DEFINE q == invalidateTLBEntry(m, k)
<1>2. /\ q \in Unit /\ q.taken = m.taken \ {k}
      /\ \A s \in Slots : q.tlb[s] = IF s = k THEN NoTranslation ELSE m.tlb[s]
      /\ q.ipt = m.ipt /\ q.used = m.used /\ q.order = m.order
      /\ q.memory = m.memory /\ q.tables = m.tables /\ q.wild = m.wild
  BY <1>0, <1>1, InvalidateTLBFields
<1> DEFINE b0 == m.ipt[e].space
           v0 == m.ipt[e].page
           d0 == m.ipt[e].dirty
           old == m.tables[b0]
           new == TableWithout(old, v0, d0)
           tables == [m.tables EXCEPT ![b0] = new]
           ipt == [m.ipt EXCEPT ![e] = Emptied(k)]
           order == Without(m.order, e)
           memory == [m.memory EXCEPT ![e] = Zero]
<1>3. n = [q EXCEPT !.tables = tables, !.ipt = ipt, !.order = order,
                    !.used = m.used \ {e}, !.memory = memory]
  <2> HIDE DEF q
  <2>1. q.ipt[e].space # NULL
    BY <1>1, <1>2, Numbers
  <2>2. q.ipt[e].slot = k /\ q.ipt[e].space = b0 /\ q.ipt[e].page = v0 /\ q.ipt[e].dirty = d0
    BY <1>2
  <2>3. invalidateInvPageTableEntry(q, e) =
          [q EXCEPT
             !.tables = [q.tables EXCEPT ![q.ipt[e].space] =
                           TableWithout(q.tables[q.ipt[e].space], q.ipt[e].page, q.ipt[e].dirty)],
             !.ipt = [q.ipt EXCEPT ![e] = Emptied(q.ipt[e].slot)],
             !.order = Without(q.order, e), !.used = q.used \ {e}]
    <3>1. q \in Unit
      BY <1>2
    <3> QED
      BY <2>1, <3>1, InvalidateEntry, Zenon
  <2>a. /\ [q.tables EXCEPT ![q.ipt[e].space] =
               TableWithout(q.tables[q.ipt[e].space], q.ipt[e].page, q.ipt[e].dirty)] = tables
        /\ [q.ipt EXCEPT ![e] = Emptied(q.ipt[e].slot)] = ipt
        /\ Without(q.order, e) = order /\ q.used \ {e} = m.used \ {e}
    BY <1>2, <2>2
  <2> HIDE DEF tables, ipt, order
  <2>b. invalidateInvPageTableEntry(q, e) =
          [q EXCEPT !.tables = tables, !.ipt = ipt, !.order = order,
                    !.used = m.used \ {e}]
    BY <2>3, <2>a
  <2>4. n = [invalidateInvPageTableEntry(q, e) EXCEPT !.memory[e] = Zero]
    BY DEF q
  <2>5. q.memory = m.memory
    BY <1>2
  <2> QED
    BY ZenonT(30), <1>2, <2>b, <2>4, <2>5 DEF Unit
<1>4. /\ tables \in [Addresses -> {NULL} \union [Pages -> TableEntry]]
      /\ \A b \in Addresses : tables[b] = NULL <=> m.tables[b] = NULL
      /\ \A b \in Addresses, w \in Pages : tables[b] # NULL =>
           IF b = b0 /\ w = v0
           THEN /\ ~ tables[b][w].valid /\ tables[b][w].dirty = d0
                /\ tables[b][w].readOnly = m.tables[b][w].readOnly
           ELSE tables[b][w] = m.tables[b][w]
  <2>1. m.tables \in [Addresses -> {NULL} \union [Pages -> TableEntry]]
    BY <1>0, UnitFields
  <2>2. b0 \in Addresses /\ v0 \in Pages /\ d0 \in BOOLEAN
    BY <1>1
  <2> HIDE DEF b0, v0, d0
  <2>3. /\ new \in {NULL} \union [Pages -> TableEntry]
        /\ new = NULL <=> old = NULL
        /\ new # NULL => \A w \in Pages :
             IF w = v0 THEN /\ ~ new[w].valid /\ new[w].dirty = d0
                            /\ new[w].readOnly = old[w].readOnly
             ELSE new[w] = old[w]
    <3>1. CASE old = NULL
      BY <3>1 DEF TableWithout
    <3>2. CASE old # NULL
      <4> DEFINE row == [old[v0] EXCEPT !.frame = -1, !.valid = FALSE, !.dirty = d0]
      <4>1. old \in [Pages -> TableEntry]
        BY <2>1, <2>2, <3>2
      <4>2. /\ row \in TableEntry /\ ~ row.valid /\ row.dirty = d0
            /\ row.readOnly = old[v0].readOnly
        BY <2>2, <4>1 DEF TableEntry
      <4>3. new = [old EXCEPT ![v0] = row]
        BY <3>2 DEF TableWithout
      <4> HIDE DEF row, old, new
      <4>4. /\ new \in [Pages -> TableEntry] /\ new[v0] = row
            /\ \A w \in Pages \ {v0} : new[w] = old[w]
        BY <2>2, <4>1, <4>2, <4>3
      <4>5. new # NULL
        BY <4>4, Numbers
      <4> QED
        BY <3>2, <4>2, <4>4, <4>5
    <3> QED
      BY <3>1, <3>2
  <2>4. old = m.tables[b0]
    OBVIOUS
  <2> HIDE DEF new, old
  <2>5. /\ tables \in [Addresses -> {NULL} \union [Pages -> TableEntry]]
        /\ tables[b0] = new
        /\ \A b \in Addresses \ {b0} : tables[b] = m.tables[b]
    BY <2>1, <2>2, <2>3
  <2> HIDE DEF tables
  <2> QED
    BY <2>3, <2>4, <2>5
<1>5. /\ ipt \in [Entries -> Entry] /\ ipt[e] = Emptied(k)
      /\ \A i \in Entries \ {e} : ipt[i] = m.ipt[i]
  BY <1>0, <1>1, UnitFields, EmptiedFields
<1>6. order \in Seq(Frames)
  <2> DEFINE o == m.order
  <2>1. o \in Seq(Frames) /\ Distinct(o)
    BY <1>0, UnitFields DEF Sound, OrderSound, Distinct
  <2>2. order = Without(o, e)
    OBVIOUS
  <2> HIDE DEF o, order
  <2> QED
    BY <2>1, <2>2, WithoutIs
<1>7. memory \in [Frames -> Contents]
  BY <1>0, <1>1, UnitFields DEF Contents
<1> HIDE DEF tables, ipt, order, memory, q, new, old
<1>8. /\ n \in Unit /\ n.tables = tables /\ n.ipt = ipt /\ n.order = order
      /\ n.used = m.used \ {e} /\ n.taken = m.taken \ {k} /\ n.tlb = q.tlb
      /\ n.memory = memory
  <2>1. /\ n.tables = tables /\ n.ipt = ipt /\ n.order = order
        /\ n.used = m.used \ {e} /\ n.taken = q.taken /\ n.tlb = q.tlb
        /\ n.memory = memory
    BY <1>2, <1>3 DEF Unit
  <2>2. n \in Unit
    <3>1. m.used \ {e} \in SUBSET Frames /\ tables \in [Addresses -> {NULL} \union [Pages -> TableEntry]]
      BY <1>0, <1>4
    <3> QED
      BY ZenonT(30), <1>2, <1>3, <1>5, <1>6, <1>7, <3>1 DEF Unit
  <2> QED
    BY <1>2, <2>1, <2>2
<1> QED
  <2>1. n.ipt[e] = Emptied(m.ipt[e].slot) /\ n.order = Without(m.order, e)
    BY <1>5, <1>8 DEF order
  <2>2. \A i \in Entries \ {e} : n.ipt[i] = m.ipt[i]
    BY <1>5, <1>8
  <2>3. \A s \in Slots : n.tlb[s] = IF s = m.ipt[e].slot THEN NoTranslation ELSE m.tlb[s]
    BY <1>2, <1>8
  <2>4. /\ \A b \in Addresses : n.tables[b] = NULL <=> m.tables[b] = NULL
        /\ \A b \in Addresses, w \in Pages : n.tables[b] # NULL =>
             IF b = m.ipt[e].space /\ w = m.ipt[e].page
             THEN /\ ~ n.tables[b][w].valid
                  /\ n.tables[b][w].dirty = m.ipt[e].dirty
                  /\ n.tables[b][w].readOnly = m.tables[b][w].readOnly
             ELSE n.tables[b][w] = m.tables[b][w]
    <3>1. /\ n.tables = tables
          /\ b0 = m.ipt[e].space /\ v0 = m.ipt[e].page /\ d0 = m.ipt[e].dirty
      BY <1>8
    <3> HIDE DEF b0, v0, d0
    <3> QED
      BY SMTT(30), <1>4, <3>1
  <2>5. n.memory = [m.memory EXCEPT ![e] = Zero]
    BY <1>8 DEF memory
  <2> QED
    BY <1>8, <2>1, <2>2, <2>3, <2>4, <2>5 DEF Freed

(* findFreeFrame marks the frame it returns.                               *)
MarkFrame(m, f) == [m EXCEPT !.used = @ \union {f}]

LEMMA MarkFrameFields ==
  ASSUME NEW m \in Unit, NEW f \in Frames
  PROVE  /\ MarkFrame(m, f) \in Unit
         /\ MarkFrame(m, f).used = m.used \union {f}
         /\ MarkFrame(m, f).ipt = m.ipt /\ MarkFrame(m, f).tlb = m.tlb
         /\ MarkFrame(m, f).taken = m.taken /\ MarkFrame(m, f).order = m.order
         /\ MarkFrame(m, f).memory = m.memory /\ MarkFrame(m, f).tables = m.tables
         /\ MarkFrame(m, f).wild = m.wild
BY DEF MarkFrame, Unit

(* The unit when frame f has been found for a page of the space at a: all  *)
(* is sound but for f, which nothing points at.  The TLB entry f had is    *)
(* free.  If some frame has lost its TLB entry then so has the one that    *)
(* evictTLBEntry will choose, and there is no other free TLB entry.        *)
Opened(n, f, a) ==
  /\ f \in n.used
  /\ Sound(n, n.used \ {f})
  /\ OnlyValid(n, n.used \ {f}, a)
  /\ n.ipt[f].slot \notin n.taken
  /\ \A g \in Frames : g < f => g \in n.used
  /\ (\E g \in n.used \ {f} : n.ipt[g].slot = -1) =>
       /\ Slots \ {n.ipt[f].slot} \subseteq n.taken
       /\ n.ipt[f].slot \in {0, -1}
       /\ \E v \in Frames : Victim(n, v)

(* A frame that was not in use.                                            *)
LEMMA UnusedOpened ==
  ASSUME NEW m, UnitSound(m), NEW a, OnlyValid(m, m.used, a),
         NEW f \in Frames \ m.used, \A g \in Frames : g < f => g \in m.used
  PROVE  Opened(MarkFrame(m, f), f, a)
<1> DEFINE n == MarkFrame(m, f)
           U == m.used
<1>0. m \in Unit /\ Sound(m, U) /\ LostForGood(m) /\ U \subseteq Frames
  BY UnitFields DEF UnitSound, Sound
<1>1. /\ n \in Unit /\ n.used = U \union {f}
      /\ n.ipt = m.ipt /\ n.tlb = m.tlb /\ n.taken = m.taken
      /\ n.order = m.order /\ n.tables = m.tables
  BY <1>0, MarkFrameFields
<1> HIDE DEF n
<1>2. n.used \ {f} = U /\ f \in n.used
  BY <1>1
<1>3. Sound(n, U)
  <2>1. EntriesSound(n, U)
    BY <1>0, <1>1 DEF Sound, EntriesSound
  <2>2. SlotsSound(n, U) /\ OrderSound(n, U) /\ TablesSound(n, U)
    <3>1. SlotsSound(m, U) /\ OrderSound(m, U) /\ TablesSound(m, U)
      BY <1>0 DEF Sound
    <3> HIDE DEF U
    <3> QED
      BY <1>1, <3>1, PartsKept
  <2> QED
    BY <1>1, <2>1, <2>2 DEF Sound
<1>4. OnlyValid(n, U, a)
  BY <1>1 DEF OnlyValid
<1>5. n.ipt[f].slot = -1 /\ -1 \notin n.taken /\ -1 \notin Slots
  <2>1. m.ipt[f] = EmptyEntry
    BY <1>0, Numbers DEF Sound, EntriesSound
  <2> QED
    BY <1>1, <2>1, EmptyFields, UnitFields, Numbers
<1>6. \A g \in Frames : g < f => g \in n.used
  BY <1>1
<1>7. ASSUME \E g \in U : n.ipt[g].slot = -1
      PROVE  Slots \subseteq n.taken /\ \E v \in Frames : Victim(n, v)
  <2>1. m.taken = Slots /\ \E v \in Frames : Victim(m, v)
    BY <1>0, <1>1, <1>7 DEF LostForGood
  <2>2. Collected(n) = Collected(m)
    BY <1>1 DEF Collected, OnTLB
  <2>3. \A g : Rank(n, g) = Rank(m, g)
    BY <1>1 DEF Rank
  <2> QED
    BY <1>1, <2>1, <2>2, <2>3 DEF Victim
<1> QED
  BY <1>2, <1>3, <1>4, <1>5, <1>6, <1>7 DEF Opened, n

(* The frame of the page that was evicted.                                 *)
Evicted(m, n, e, a) ==
  /\ n.used = m.used /\ n.taken = m.taken \ {m.ipt[e].slot}
  /\ Sound(n, m.used \ {e}) /\ OnlyValid(n, m.used \ {e}, a)
  /\ \A f \in Frames : n.ipt[f].slot = m.ipt[f].slot
  /\ \A g : Rank(n, g) = 0 <=> g = e \/ Rank(m, g) = 0
  /\ \A b \in Addresses : n.tables[b] = NULL <=> m.tables[b] = NULL

LEMMA EvictedSound ==
  ASSUME NEW m, UnitSound(m), NEW a, OnlyValid(m, m.used, a),
         NEW e \in m.used, NEW q, Freed(m, q, e)
  PROVE  Evicted(m, MarkFrame(q, e), e, a)
<1> DEFINE n == MarkFrame(q, e)
           U == m.used
           V == m.used \ {e}
           k == m.ipt[e].slot
<1>0. /\ m \in Unit /\ Sound(m, U) /\ U \subseteq Frames /\ e \in Frames /\ e \in Entries
      /\ U \subseteq Entries /\ k \in Slots \union {-1}
  BY UnitFields, Numbers DEF UnitSound, Sound
<1>1. /\ n \in Unit /\ n.used = U
      /\ n.ipt[e] = Emptied(k)
      /\ \A i \in Entries \ {e} : n.ipt[i] = m.ipt[i]
      /\ n.order = Without(m.order, e) /\ n.taken = m.taken \ {k}
      /\ \A s \in Slots : n.tlb[s] = IF s = k THEN NoTranslation ELSE m.tlb[s]
      /\ \A b \in Addresses : n.tables[b] = NULL <=> m.tables[b] = NULL
      /\ \A b \in Addresses, w \in Pages : n.tables[b] # NULL =>
           IF b = m.ipt[e].space /\ w = m.ipt[e].page THEN ~ n.tables[b][w].valid
           ELSE n.tables[b][w] = m.tables[b][w]
  <2>1. q \in Unit /\ q.used = U \ {e}
    BY DEF Freed
  <2>2. (U \ {e}) \union {e} = U
    OBVIOUS
  <2> QED
    <3>1. /\ n \in Unit /\ n.used = q.used \union {e}
          /\ n.ipt = q.ipt /\ n.tlb = q.tlb /\ n.taken = q.taken
          /\ n.order = q.order /\ n.tables = q.tables
      BY <1>0, <2>1, MarkFrameFields
    <3> HIDE DEF n
    <3> QED
      BY <2>1, <2>2, <3>1 DEF Freed
<1> HIDE DEF n
<1>2. EntriesSound(n, V)
  <2>1. EntriesSound(m, U)
    BY <1>0 DEF Sound
  <2> QED
    BY <1>0, <1>1, <2>1 DEF EntriesSound
<1>s. SlotsSound(m, U)
  BY <1>0 DEF Sound
<1>3. ASSUME NEW f \in V, n.ipt[f].slot # -1
      PROVE  /\ n.ipt[f].slot \in n.taken
             /\ n.tlb[n.ipt[f].slot] =
                  [page |-> n.ipt[f].page, frame |-> f, valid |-> n.ipt[f].valid]
  <2>1. n.ipt[f] = m.ipt[f] /\ f \in U /\ f # e
    BY <1>0, <1>1
  <2>2. /\ m.ipt[f].slot \in m.taken /\ m.ipt[f].slot \in Slots
        /\ m.tlb[m.ipt[f].slot] =
             [page |-> m.ipt[f].page, frame |-> f, valid |-> m.ipt[f].valid]
    BY <1>s, <1>0, <1>3, <2>1, UnitFields DEF SlotsSound
  <2>3. m.ipt[f].slot # k
    <3> SUFFICES ASSUME m.ipt[f].slot = k PROVE FALSE
      OBVIOUS
    <3>1. m.tlb[k] = [page |-> m.ipt[e].page, frame |-> e, valid |-> m.ipt[e].valid]
      BY <1>s, <1>3, <2>1 DEF SlotsSound
    <3>2. m.tlb[k].frame = e
      BY <3>1
    <3>3. m.tlb[k].frame = f
      BY <2>2
    <3> QED
      BY <2>1, <3>2, <3>3
  <2> QED
    BY <1>1, <2>1, <2>2, <2>3
<1>4. ASSUME NEW s \in Slots, n.tlb[s].valid
      PROVE  n.tlb[s].frame \in V /\ n.ipt[n.tlb[s].frame].slot = s
  <2>1. s # k /\ n.tlb[s] = m.tlb[s]
    BY <1>1, <1>4 DEF NoTranslation
  <2>2. m.tlb[s].frame \in U /\ m.ipt[m.tlb[s].frame].slot = s
    BY <1>s, <1>4, <2>1 DEF SlotsSound
  <2> QED
    BY <1>0, <1>1, <2>1, <2>2
<1>5. SlotsSound(n, V)
  BY <1>3, <1>4 DEF SlotsSound
<1>6. OrderSound(n, V) /\ \A g : Lists(n.order, g) <=> g # e /\ Lists(m.order, g)
  <2> DEFINE o == m.order
             w == Without(o, e)
  <2>1. o \in Seq(Frames) /\ Distinct(o) /\ \A i \in 1..Len(o) : o[i] \in U
    BY <1>0, UnitFields DEF Sound, OrderSound, Distinct
  <2>2. n.order = w /\ o = m.order
    BY <1>1
  <2> HIDE DEF o
  <2>3. /\ w \in Seq(Frames) /\ Distinct(w)
        /\ \A i \in 1..Len(w) : \E j \in 1..Len(o) : w[i] = o[j] /\ o[j] # e
        /\ \A j \in 1..Len(o) : o[j] # e => \E i \in 1..Len(w) : w[i] = o[j]
    BY <2>1, WithoutIs
  <2> HIDE DEF w
  <2>4. \A i \in 1..Len(w) : w[i] \in V
    BY <2>1, <2>3
  <2>5. OrderSound(n, V)
    BY <2>2, <2>3, <2>4 DEF OrderSound, Distinct
  <2>6. \A g : Lists(w, g) <=> g # e /\ Lists(o, g)
    BY <2>3 DEF Lists
  <2> QED
    BY <2>2, <2>5, <2>6
<1>7. TablesSound(n, V)
  <2>1. TablesSound(m, U)
    BY <1>0 DEF Sound
  <2> SUFFICES ASSUME NEW b \in Addresses, NEW w \in Pages, n.tables[b] # NULL,
                      n.tables[b][w].valid, ~ n.tables[b][w].readOnly
               PROVE  LET f == n.tables[b][w].frame IN
                      f \in V /\ n.ipt[f].space = b /\ n.ipt[f].page = w
    BY SMTT(30) DEF TablesSound
  <2>2. ~ (b = m.ipt[e].space /\ w = m.ipt[e].page)
    BY <1>1
  <2>3. n.tables[b][w] = m.tables[b][w] /\ m.tables[b] # NULL
    BY <1>1, <2>2
  <2> DEFINE f == m.tables[b][w].frame
  <2>4. f \in U /\ m.ipt[f].space = b /\ m.ipt[f].page = w
    BY <2>1, <2>3 DEF TablesSound
  <2>5. f # e
    BY <2>2, <2>4
  <2> QED
    BY SMTT(30), <1>0, <1>1, <2>3, <2>4, <2>5
<1>8. OnlyValid(n, V, a)
  BY <1>0, <1>1 DEF OnlyValid
<1>9. \A f \in Frames : n.ipt[f].slot = m.ipt[f].slot
  <2>1. n.ipt[e].slot = k
    BY <1>0, <1>1, EmptiedFields
  <2> QED
    BY <1>0, <1>1, <2>1, Numbers
<1>10. \A g : Rank(n, g) = 0 <=> g = e \/ Rank(m, g) = 0
  BY <1>0, <1>1, <1>6, RankIs
<1> QED
  BY <1>1, <1>2, <1>5, <1>6, <1>7, <1>8, <1>9, <1>10 DEF Sound, Evicted, n

(* findFreeFrame returns no frame only after the wild write.               *)
LEMMA FreeFrameIs ==
  ASSUME NEW m, UnitSound(m), NEW a, OnlyValid(m, m.used, a)
  PROVE  /\ findFreeFrame(m).at \in Frames \union {-1}
         /\ \A b \in Addresses : findFreeFrame(m).mmu.tables[b] = NULL <=> m.tables[b] = NULL
         /\ findFreeFrame(m).at = -1 =>
              /\ UnitSound(findFreeFrame(m).mmu)
              /\ OnlyValid(findFreeFrame(m).mmu, findFreeFrame(m).mmu.used, a)
         /\ findFreeFrame(m).at # -1 =>
              Opened(findFreeFrame(m).mmu, findFreeFrame(m).at, a)
<1>0. m \in Unit /\ Sound(m, m.used) /\ LostForGood(m) /\ m.used \subseteq Frames
  BY UnitFields DEF UnitSound, Sound
<1>1. CASE ~ (Frames \subseteq m.used)
  <2> DEFINE f == FirstClear(m.used, Frames)
  <2>1. f \in Frames \ m.used /\ f # -1
    <3>1. Frames \in SUBSET Nat
      BY Numbers
    <3> QED
      BY <1>1, <3>1, FirstClearIs, Numbers
  <2>2. \A g \in Frames : g < f => g \in m.used
    <3>1. Frames \in SUBSET Nat
      BY Numbers
    <3>2. \A g \in Frames \ m.used : f <= g
      BY <1>1, <3>1, FirstClearLeast
    <3> HIDE DEF f
    <3> SUFFICES ASSUME NEW g \in Frames, g < f, g \notin m.used PROVE FALSE
      OBVIOUS
    <3>3. g \in Nat /\ f \in Nat
      BY <2>1, <3>1
    <3>4. f <= g
      BY <3>2
    <3> QED
      BY <3>3, <3>4
  <2>3. findFreeFrame(m) = [mmu |-> [m EXCEPT !.used = @ \union ({f} \ {-1})], at |-> f]
    BY <2>1 DEF findFreeFrame
  <2> HIDE DEF f
  <2>4. findFreeFrame(m).mmu = MarkFrame(m, f) /\ findFreeFrame(m).at = f
    <3>1. {f} \ {-1} = {f}
      BY <2>1
    <3> QED
      BY <2>3, <3>1 DEF MarkFrame
  <2>5. Opened(MarkFrame(m, f), f, a)
    BY <2>1, <2>2, UnusedOpened
  <2>6. \A b \in Addresses : MarkFrame(m, f).tables[b] = NULL <=> m.tables[b] = NULL
    BY <1>0, <2>1, MarkFrameFields
  <2> QED
    BY <2>1, <2>4, <2>5, <2>6
<1>2. CASE Frames \subseteq m.used
  <2> DEFINE e == findLeastRecentlyUsed(m)
  <2>1. m.used = Frames /\ FirstClear(m.used, Frames) = -1
    <3>1. Frames \in SUBSET Nat /\ m.used = Frames
      BY <1>0, <1>2, Numbers
    <3> QED
      BY <1>2, <3>1, FirstClearIs
  <2>2. /\ e \in Entries
        /\ \A g \in Entries : Rank(m, e) < Rank(m, g) \/ (Rank(m, e) = Rank(m, g) /\ e <= g)
    <3>1. Entries \in SUBSET Nat /\ Entries # {}
      BY Numbers
    <3> QED
      BY <1>0, <3>1, LeastRecentIs DEF findLeastRecentlyUsed
  <2>3. CASE e \notin Frames
    <3> DEFINE n == [m EXCEPT !.wild = TRUE]
    <3>1. evictPage(m) = n
      BY <2>3 DEF evictPage
    <3>2. /\ n \in Unit /\ n.used = m.used /\ n.ipt = m.ipt /\ n.tlb = m.tlb
          /\ n.taken = m.taken /\ n.order = m.order /\ n.tables = m.tables
      BY <1>0 DEF Unit
    <3> HIDE DEF n, e
    <3>3. FirstClear(n.used, Frames) = -1
      BY <2>1, <3>2
    <3>4. /\ findFreeFrame(m).mmu = [n EXCEPT !.used = n.used]
          /\ findFreeFrame(m).at = -1
      BY <2>1, <3>1, <3>3 DEF findFreeFrame
    <3>5. [n EXCEPT !.used = n.used] = n
      BY <3>2 DEF Unit
    <3>6. Sound(n, m.used)
      BY <1>0, <3>2, SoundKept
    <3>7. LostForGood(n)
      <4>1. OnTLB(n) = OnTLB(m) /\ \A g : Rank(n, g) = Rank(m, g)
        BY <3>2 DEF OnTLB, Rank
      <4> QED
        BY <1>0, <3>2, <4>1, LostKept
    <3>8. OnlyValid(n, n.used, a)
      BY <3>2 DEF OnlyValid
    <3> QED
      BY <3>2, <3>4, <3>5, <3>6, <3>7, <3>8 DEF UnitSound
  <2>4. CASE e \in Frames
    <3> DEFINE k == m.ipt[e].slot
               q == [invalidateInvPageTableEntry(invalidateTLBEntry(m, k), e)
                       EXCEPT !.memory[e] = Zero]
               n == MarkFrame(q, e)
    <3>1. evictPage(m) = q
      BY <2>4 DEF evictPage
    <3>2. Freed(m, q, e)
      <4>1. k = m.ipt[e].slot /\ e \in m.used
        BY <2>1, <2>4
      <4>2. q = [invalidateInvPageTableEntry(invalidateTLBEntry(m, k), e)
                   EXCEPT !.memory[e] = Zero]
        OBVIOUS
      <4> HIDE DEF k, q, e
      <4> QED
        BY <4>1, <4>2, EvictedFields
    <3> HIDE DEF q, e
    <3>3. FirstClear(q.used, Frames) = e /\ e # -1
      <4>1. q.used = Frames \ {e}
        BY <2>1, <3>2 DEF Freed
      <4>2. FirstClear(q.used, Frames) \in Frames \ q.used
        <5> DEFINE bits == q.used
        <5>1. Frames \in SUBSET Nat
          BY Numbers
        <5>2. ~ (Frames \subseteq bits)
          BY <2>4, <4>1
        <5> HIDE DEF bits
        <5>3. FirstClear(bits, Frames) \in Frames \ bits
          BY <5>1, <5>2, FirstClearIs
        <5> QED
          BY <5>3 DEF bits
      <4> QED
        BY <2>4, <4>1, <4>2, Numbers
    <3>4. findFreeFrame(m).mmu = n /\ findFreeFrame(m).at = e
      <4>1. {e} \ {-1} = {e}
        BY <3>3
      <4> QED
        BY <2>1, <3>1, <3>3, <4>1 DEF findFreeFrame, MarkFrame
    <3>5. /\ n.used = m.used
          /\ Sound(n, m.used \ {e}) /\ OnlyValid(n, m.used \ {e}, a)
          /\ n.taken = m.taken \ {k}
          /\ \A f \in Frames : n.ipt[f].slot = m.ipt[f].slot
          /\ \A g : Rank(n, g) = 0 <=> g = e \/ Rank(m, g) = 0
          /\ \A b \in Addresses : n.tables[b] = NULL <=> m.tables[b] = NULL
      <4>1. e \in m.used
        BY <2>1, <2>4
      <4> QED
        <5>1. Evicted(m, MarkFrame(q, e), e, a)
          BY <3>2, <4>1, EvictedSound
        <5> QED
          BY <5>1 DEF Evicted
    <3> HIDE DEF n
    <3>6. ASSUME \E g \in n.used \ {e} : n.ipt[g].slot = -1
          PROVE  /\ Slots \ {k} \subseteq n.taken
                 /\ k \in {0, -1}
                 /\ \E v \in Frames : Victim(n, v)
      <4>1. m.taken = Slots /\ \E v \in Frames : Victim(m, v)
        BY <1>0, <2>1, <3>5, <3>6 DEF LostForGood
      <4>2. PICK v \in Frames : Victim(m, v)
        BY <4>1
      <4>3. v \in Collected(m) /\ m.ipt[v].slot = -1 /\ Rank(m, v) = 0
        BY <4>2 DEF Victim
      <4>4. Rank(m, e) = 0 /\ e <= v
        <5>1. v \in Entries /\ Rank(m, e) \in Nat
          BY <1>0, Numbers, RankIs
        <5>2. Rank(m, e) < Rank(m, v) \/ (Rank(m, e) = Rank(m, v) /\ e <= v)
          BY <2>2, <5>1
        <5> QED
          BY <4>3, <5>1, <5>2
      <4>5. e = v \/ e \notin OnTLB(m)
        <5> SUFFICES ASSUME e # v, e \in OnTLB(m) PROVE FALSE
          OBVIOUS
        <5>1. e < v /\ e \in Nat /\ v \in Nat
          BY <2>4, <4>4, Numbers
        <5>2. e \in Collected(m)
          BY <4>3, <5>1, CollectedDown
        <5> QED
          BY <4>2, <4>4, <5>1, <5>2 DEF Victim
      <4>6. k \in {0, -1}
        BY <2>4, <4>3, <4>5 DEF OnTLB
      <4>7. Collected(n) = Collected(m)
        <5>1. OnTLB(n) = OnTLB(m)
          BY <3>5 DEF OnTLB
        <5> QED
          BY <5>1 DEF Collected
      <4>8. Victim(n, v)
        <5>1. v \in Collected(n) /\ n.ipt[v].slot = -1 /\ Rank(n, v) = 0
          BY <3>5, <4>3, <4>7
        <5>2. ASSUME NEW g \in Collected(n), g < v
              PROVE  Rank(n, g) # 0
          <6>1. g \in Collected(m) /\ Rank(m, g) # 0 /\ g \in OnTLB(m)
            BY <4>2, <4>7, <5>2 DEF Victim, Collected
          <6>2. g # e
            BY <4>4, <6>1
          <6> QED
            BY <3>5, <6>1, <6>2
        <5> QED
          BY <5>1, <5>2 DEF Victim
      <4> QED
        BY <3>5, <4>1, <4>6, <4>8
    <3>7. Opened(n, e, a)
      <4>1. n.ipt[e].slot = k /\ k \notin n.taken /\ e \in n.used
        BY <2>1, <2>4, <3>5
      <4>2. \A g \in Frames : g < e => g \in n.used
        BY <2>1, <3>5
      <4> QED
        BY <3>5, <3>6, <4>1, <4>2 DEF Opened
    <3> QED
      BY <2>4, <3>3, <3>4, <3>5, <3>7
  <2> QED
    BY <2>3, <2>4
<1> QED
  BY <1>1, <1>2

-----------------------------------------------------------------------------
(* A TLB entry for a new page.                                             *)

(* What findFreeTLBEntry makes of n when it returns entry s.               *)
TLBVictim(n) == findTLBLeastRecentlyUsed(n)

EntryFound(n, r, s) ==
  /\ r \in Unit /\ s \in Slots \union {-1}
  /\ r.used = n.used /\ r.order = n.order /\ r.memory = n.memory /\ r.tables = n.tables
  /\ r.taken = n.taken \union ({s} \ {-1})
  /\ \A t \in Slots \ {s} : r.tlb[t] = n.tlb[t]
  /\ n.taken # Slots => s \in Slots \ n.taken /\ r.ipt = n.ipt
  /\ n.taken = Slots =>
       /\ TLBVictim(n) \in Collected(n) /\ s = n.ipt[TLBVictim(n)].slot
       /\ \A g \in Collected(n) : \/ Rank(n, TLBVictim(n)) < Rank(n, g)
                                  \/ /\ Rank(n, TLBVictim(n)) = Rank(n, g)
                                     /\ TLBVictim(n) <= g
       /\ r.ipt = [n.ipt EXCEPT ![TLBVictim(n)] = [@ EXCEPT !.slot = -1]]

(* Something is collected when something is on the TLB.                    *)
LEMMA CollectedSome ==
  ASSUME NEW n, OnTLB(n) # {}
  PROVE  Collected(n) \in SUBSET Nat /\ Collected(n) # {}
<1>1. OnTLB(n) \in SUBSET Nat
  BY Numbers DEF OnTLB
<1>2. PICK x \in OnTLB(n) : \A y \in OnTLB(n) : x <= y
  BY <1>1, LeastNumber
<1>3. {g \in OnTLB(n) : g < x} = {}
  BY <1>1, <1>2
<1>4. Cardinality({g \in OnTLB(n) : g < x}) < NumSlots
  BY <1>3, FS_EmptySet, MemoryAssumption
<1> QED
  BY <1>1, <1>4 DEF Collected

LEMMA FreeEntryFields ==
  ASSUME NEW n \in Unit, n.taken = Slots => OnTLB(n) # {}
  PROVE  EntryFound(n, findFreeTLBEntry(n).mmu, findFreeTLBEntry(n).at)
<1> DEFINE r == findFreeTLBEntry(n).mmu
           s == findFreeTLBEntry(n).at
<1>0. /\ n.taken \subseteq Slots /\ Slots \in SUBSET Nat /\ -1 \notin Slots
      /\ n.ipt \in [Entries -> Entry]
  BY UnitFields, Numbers
<1>1. CASE n.taken # Slots
  <2> DEFINE c == FirstClear(n.taken, Slots)
  <2>1. c \in Slots \ n.taken /\ c # -1
    BY ZenonT(30), <1>0, <1>1, FirstClearIs
  <2>2. r = [n EXCEPT !.taken = @ \union ({c} \ {-1})] /\ s = c
    BY <2>1 DEF findFreeTLBEntry
  <2> HIDE DEF c, r, s
  <2>3. /\ r \in Unit /\ r.used = n.used /\ r.order = n.order /\ r.memory = n.memory
        /\ r.tables = n.tables /\ r.tlb = n.tlb /\ r.ipt = n.ipt
        /\ r.taken = n.taken \union ({c} \ {-1})
    <3>1. n.taken \union ({c} \ {-1}) \in SUBSET Slots
      BY <1>0, <2>1
    <3> QED
      BY <2>2, <3>1 DEF Unit
  <2>4. EntryFound(n, r, s)
    BY <1>1, <2>1, <2>2, <2>3 DEF EntryFound
  <2> QED
    BY <2>4 DEF r, s
<1>2. CASE n.taken = Slots
  <2> DEFINE g0 == TLBVictim(n)
             k == n.ipt[g0].slot
             q == invalidateTLBEntry(n, k)
             room == [q EXCEPT !.ipt[g0].slot = -1]
  <2>1. /\ g0 \in Collected(n)
        /\ \A g \in Collected(n) : \/ Rank(n, g0) < Rank(n, g)
                                   \/ Rank(n, g0) = Rank(n, g) /\ g0 <= g
    <3>1. Collected(n) \in SUBSET Nat /\ Collected(n) # {}
      BY <1>2, CollectedSome
    <3>2. g0 = LeastRecent(n, Collected(n))
      BY DEF TLBVictim, findTLBLeastRecentlyUsed, Collected
    <3> HIDE DEF g0
    <3> QED
      BY <3>1, <3>2, LeastRecentIs
  <2>2. g0 \in Frames /\ g0 \in Entries /\ k \in Slots \union {-1}
    <3>1. g0 \in Frames
      BY <2>1 DEF Collected, OnTLB
    <3> QED
      BY <3>1, UnitFields, Numbers
  <2>3. evictTLBEntry(n) = room
    BY <1>2 DEF evictTLBEntry, TLBVictim
  <2>4. FirstClear(n.taken, Slots) = -1
    BY <1>0, <1>2, FirstClearIs
  <2>5. /\ q \in Unit /\ q.taken = n.taken \ {k}
        /\ \A t \in Slots : q.tlb[t] = IF t = k THEN NoTranslation ELSE n.tlb[t]
        /\ q.ipt = n.ipt /\ q.used = n.used /\ q.order = n.order
        /\ q.memory = n.memory /\ q.tables = n.tables
    BY <2>2, InvalidateTLBFields
  <2> HIDE DEF g0, k, q
  <2>6. /\ room \in Unit /\ room.taken = n.taken \ {k}
        /\ room.tlb = q.tlb /\ room.used = n.used /\ room.order = n.order
        /\ room.memory = n.memory /\ room.tables = n.tables
        /\ room.ipt = [n.ipt EXCEPT ![g0] = [@ EXCEPT !.slot = -1]]
    <3> DEFINE e == [n.ipt EXCEPT ![g0] = [@ EXCEPT !.slot = -1]]
    <3>1. e \in [Entries -> Entry]
      BY <1>0, <2>2 DEF Entry
    <3>2. room = [q EXCEPT !.ipt = e]
      BY <2>5 DEF Unit
    <3> HIDE DEF e, room
    <3>3. /\ room \in Unit /\ room.ipt = e
          /\ room.taken = q.taken /\ room.tlb = q.tlb /\ room.used = q.used
          /\ room.order = q.order /\ room.memory = q.memory /\ room.tables = q.tables
      BY <2>5, <3>1, <3>2 DEF Unit
    <3> QED
      BY <2>5, <3>3 DEF e
  <2> HIDE DEF room
  <2>7. FirstClear(room.taken, Slots) = k
    <3>1. CASE k = -1
      <4>1. room.taken = Slots
        BY <1>0, <1>2, <2>6, <3>1
      <4> QED
        BY <1>0, <3>1, <4>1, FirstClearIs
    <3>2. CASE k \in Slots
      <4>1. FirstClear(room.taken, Slots) \in Slots \ room.taken
        BY <1>0, <1>2, <2>6, <3>2, FirstClearIs
      <4> QED
        BY <1>2, <2>6, <4>1
    <3> QED
      BY <2>2, <3>1, <3>2
  <2>8. r = [room EXCEPT !.taken = @ \union ({k} \ {-1})] /\ s = k
    BY <2>3, <2>4, <2>7 DEF findFreeTLBEntry
  <2> HIDE DEF r, s
  <2>9. /\ r \in Unit /\ r.used = n.used /\ r.order = n.order /\ r.memory = n.memory
        /\ r.tables = n.tables /\ r.tlb = q.tlb /\ r.ipt = room.ipt
        /\ r.taken = n.taken \union ({k} \ {-1})
    <3>1. room.taken \union ({k} \ {-1}) = n.taken \union ({k} \ {-1})
      BY <1>0, <2>6
    <3>2. n.taken \union ({k} \ {-1}) \in SUBSET Slots
      BY <1>0, <2>2
    <3>3. r = [room EXCEPT !.taken = n.taken \union ({k} \ {-1})]
      BY <2>8, <3>1
    <3> QED
      BY <2>6, <3>2, <3>3 DEF Unit
  <2>10. EntryFound(n, r, s)
    <3>1. \A t \in Slots \ {s} : r.tlb[t] = n.tlb[t]
      BY <2>5, <2>8, <2>9
    <3>2. r.ipt = [n.ipt EXCEPT ![g0] = [@ EXCEPT !.slot = -1]]
      BY <2>6, <2>9
    <3>3. s = n.ipt[g0].slot /\ s \in Slots \union {-1}
      BY <2>2, <2>8 DEF k
    <3> QED
      BY <1>2, <2>1, <2>8, <2>9, <3>1, <3>2, <3>3 DEF EntryFound, g0
  <2> QED
    BY <2>10 DEF r, s
<1> QED
  BY <1>1, <1>2

(* It makes no wild write.                                                 *)
LEMMA EntryWild ==
  ASSUME NEW n \in Unit, n.taken = Slots => OnTLB(n) # {}
  PROVE  findFreeTLBEntry(n).mmu.wild = n.wild
<1> DEFINE room == IF FirstClear(n.taken, Slots) = -1 THEN evictTLBEntry(n) ELSE n
           c == FirstClear(room.taken, Slots)
<1>1. room.wild = n.wild
  <2>1. CASE FirstClear(n.taken, Slots) # -1
    BY <2>1
  <2>2. CASE FirstClear(n.taken, Slots) = -1
    <3>1. OnTLB(n) # {}
      <4>1. Slots \in SUBSET Nat /\ -1 \notin Slots /\ n.taken \subseteq Slots
        BY UnitFields, Numbers
      <4>2. Slots \subseteq n.taken
        BY <2>2, <4>1, FirstClearIs
      <4> QED
        BY <4>1, <4>2
    <3> DEFINE g0 == TLBVictim(n)
               k == n.ipt[g0].slot
               q == invalidateTLBEntry(n, k)
    <3>2. room = [q EXCEPT !.ipt[g0].slot = -1]
      BY <2>2, <3>1 DEF evictTLBEntry, TLBVictim
    <3>3. g0 \in Frames /\ k \in Slots \union {-1}
      <4>1. Collected(n) \in SUBSET Nat /\ Collected(n) # {}
        BY <3>1, CollectedSome
      <4>2. g0 = LeastRecent(n, Collected(n))
        BY DEF TLBVictim, findTLBLeastRecentlyUsed, Collected
      <4>3. g0 \in Collected(n)
        BY <4>1, <4>2, LeastRecentIs
      <4> QED
        BY <4>3, UnitFields DEF Collected, OnTLB
    <3>4. q \in Unit /\ q.wild = n.wild
      BY <3>3, InvalidateTLBFields
    <3> HIDE DEF q, room
    <3> QED
      BY <3>2, <3>4 DEF Unit
  <2> QED
    BY <2>1, <2>2
<1>2. findFreeTLBEntry(n).mmu = [room EXCEPT !.taken = @ \union ({c} \ {-1})]
  BY DEF findFreeTLBEntry
<1> HIDE DEF room, c
<1>3. findFreeTLBEntry(n).mmu.wild = room.wild
  BY <1>2
<1> QED
  BY <1>1, <1>3

(* What Install makes of r.                                                *)
Installed(r, w, a, v, f, s) ==
  /\ w \in Unit
  /\ w.used = r.used /\ w.taken = r.taken /\ w.order = r.order /\ w.memory = r.memory
  /\ w.ipt[f].page = v /\ w.ipt[f].space = a /\ w.ipt[f].valid /\ w.ipt[f].slot = s
  /\ \A i \in Entries \ {f} : w.ipt[i] = r.ipt[i]
  /\ \A t \in Slots : w.tlb[t] = IF t = s THEN [page |-> v, frame |-> f, valid |-> TRUE]
                                 ELSE r.tlb[t]
  /\ \A b \in Addresses : w.tables[b] = NULL <=> r.tables[b] = NULL
  /\ \A b \in Addresses, u \in Pages :
       IF b = a /\ u = v THEN w.tables[b][u].frame = f
       ELSE w.tables[b][u] = r.tables[b][u]
  /\ w.ipt[f].dirty = r.ipt[f].dirty
  /\ w.tables[a][v].valid /\ w.tables[a][v].readOnly = r.tables[a][v].readOnly

LEMMA InstallFields ==
  ASSUME NEW r \in Unit, NEW a \in Addresses, r.tables[a] # NULL, NEW v \in Pages,
         NEW f \in Frames, NEW s \in Slots \union {-1}, NEW dirty \in BOOLEAN
  PROVE  /\ Installed(r, Install(r, a, v, f, s, dirty), a, v, f, s)
         /\ Install(r, a, v, f, s, dirty).tables[a][v].dirty = dirty
<1> DEFINE entry == [r.ipt[f] EXCEPT !.page = v, !.valid = TRUE, !.space = a, !.slot = s]
           row == [r.tables[a][v] EXCEPT !.frame = f, !.valid = TRUE, !.dirty = dirty]
           ipt == [r.ipt EXCEPT ![f] = entry]
           tables == [r.tables EXCEPT ![a] = [r.tables[a] EXCEPT ![v] = row]]
           q == [r EXCEPT !.ipt = ipt, !.tables = tables]
           w == Install(r, a, v, f, s, dirty)
<1>0. /\ r.ipt \in [Entries -> Entry] /\ f \in Entries /\ r.tlb \in [Slots -> Translation]
      /\ r.tables \in [Addresses -> {NULL} \union [Pages -> TableEntry]]
      /\ r.tables[a] \in [Pages -> TableEntry] /\ NULL \notin [Pages -> TableEntry]
  BY UnitFields, Numbers
<1>1. w = SetTLB(q, s, v, f)
  <2>1. [r EXCEPT !.ipt[f] = [@ EXCEPT !.page = v, !.valid = TRUE, !.space = a, !.slot = s],
                  !.tables[a][v] = [@ EXCEPT !.frame = f, !.valid = TRUE, !.dirty = dirty]]
          = q
    BY <1>0 DEF Unit
  <2> QED
    BY <2>1 DEF Install
<1>2. /\ entry \in Entry /\ entry.page = v /\ entry.space = a /\ entry.valid
      /\ entry.slot = s /\ entry.dirty = r.ipt[f].dirty
  <2> DEFINE e == r.ipt[f]
  <2>1. e \in Entry
    BY <1>0
  <2>2. entry = [e EXCEPT !.page = v, !.valid = TRUE, !.space = a, !.slot = s]
    OBVIOUS
  <2> HIDE DEF e, entry
  <2>3. /\ entry \in Entry /\ entry.page = v /\ entry.space = a /\ entry.valid
        /\ entry.slot = s /\ entry.dirty = e.dirty
    BY <2>1, <2>2 DEF Entry
  <2> QED
    BY <2>3 DEF e
<1>3. /\ row \in TableEntry /\ row.frame = f /\ row.valid /\ row.dirty = dirty
      /\ row.readOnly = r.tables[a][v].readOnly
  <2> DEFINE t == r.tables[a][v]
  <2>1. t \in TableEntry
    BY <1>0
  <2>2. row = [t EXCEPT !.frame = f, !.valid = TRUE, !.dirty = dirty]
    OBVIOUS
  <2> HIDE DEF t, row
  <2>3. /\ row \in TableEntry /\ row.frame = f /\ row.valid /\ row.dirty = dirty
        /\ row.readOnly = t.readOnly
    BY <2>1, <2>2 DEF TableEntry
  <2> QED
    BY <2>3 DEF t
<1> HIDE DEF entry, row, w
<1>4. ipt \in [Entries -> Entry] /\ ipt[f] = entry /\ \A i \in Entries \ {f} : ipt[i] = r.ipt[i]
  BY <1>0, <1>2
<1>5. /\ tables \in [Addresses -> {NULL} \union [Pages -> TableEntry]]
      /\ \A b \in Addresses : tables[b] = NULL <=> r.tables[b] = NULL
      /\ \A b \in Addresses, u \in Pages :
           IF b = a /\ u = v THEN tables[b][u].frame = f
           ELSE tables[b][u] = r.tables[b][u]
      /\ tables[a][v].valid /\ tables[a][v].dirty = dirty
      /\ tables[a][v].readOnly = r.tables[a][v].readOnly
  <2> DEFINE new == [r.tables[a] EXCEPT ![v] = row]
  <2>1. /\ new \in [Pages -> TableEntry] /\ new[v] = row
        /\ \A u \in Pages \ {v} : new[u] = r.tables[a][u]
    BY <1>0, <1>3
  <2>2. tables = [r.tables EXCEPT ![a] = new]
    OBVIOUS
  <2> HIDE DEF new, tables
  <2>3. /\ tables \in [Addresses -> {NULL} \union [Pages -> TableEntry]]
        /\ tables[a] = new /\ \A b \in Addresses \ {a} : tables[b] = r.tables[b]
    BY <1>0, <2>1, <2>2
  <2>4. new # NULL
    BY <1>0, <2>1
  <2> QED
    BY <1>3, <2>1, <2>3, <2>4
<1> HIDE DEF ipt, tables
<1>6. /\ q \in Unit /\ q.ipt = ipt /\ q.tables = tables /\ q.tlb = r.tlb
      /\ q.used = r.used /\ q.taken = r.taken /\ q.order = r.order /\ q.memory = r.memory
  BY <1>4, <1>5 DEF Unit
<1> HIDE DEF q
<1> DEFINE t0 == [page |-> v, frame |-> f, valid |-> TRUE]
<1>7. /\ w \in Unit /\ w.ipt = ipt /\ w.tables = tables
      /\ w.used = r.used /\ w.taken = r.taken /\ w.order = r.order /\ w.memory = r.memory
      /\ \A t \in Slots : w.tlb[t] = IF t = s THEN t0 ELSE r.tlb[t]
  <2>1. CASE s \in Slots
    <3> DEFINE tlb == [r.tlb EXCEPT ![s] = t0]
    <3>1. w = [q EXCEPT !.tlb[s] = t0]
      BY <1>1, <2>1 DEF SetTLB
    <3>2. t0 \in Translation
      BY DEF Translation
    <3> HIDE DEF t0
    <3>3. tlb \in [Slots -> Translation] /\ \A t \in Slots : tlb[t] = IF t = s THEN t0 ELSE r.tlb[t]
      BY <1>0, <2>1, <3>2
    <3>4. w = [q EXCEPT !.tlb = tlb]
      BY <1>6, <3>1 DEF Unit
    <3> HIDE DEF tlb
    <3>5. /\ w \in Unit /\ w.ipt = q.ipt /\ w.tables = q.tables /\ w.tlb = tlb
          /\ w.used = q.used /\ w.taken = q.taken /\ w.order = q.order
          /\ w.memory = q.memory
      BY <1>6, <3>3, <3>4 DEF Unit
    <3> QED
      BY <1>6, <3>3, <3>5
  <2>2. CASE s \notin Slots
    <3>1. w = q
      BY <1>1, <2>2 DEF SetTLB
    <3> QED
      BY <1>6, <2>2, <3>1
  <2> QED
    BY <2>1, <2>2
<1> QED
  <2>1. w.ipt[f].page = v /\ w.ipt[f].space = a /\ w.ipt[f].valid /\ w.ipt[f].slot = s
    BY <1>2, <1>4, <1>7
  <2>2. \A i \in Entries \ {f} : w.ipt[i] = r.ipt[i]
    BY <1>4, <1>7
  <2>3. /\ \A b \in Addresses : w.tables[b] = NULL <=> r.tables[b] = NULL
        /\ \A b \in Addresses, u \in Pages :
             IF b = a /\ u = v THEN w.tables[b][u].frame = f
             ELSE w.tables[b][u] = r.tables[b][u]
    BY <1>5, <1>7
  <2>4. /\ w.ipt[f].dirty = r.ipt[f].dirty
        /\ w.tables[a][v].valid /\ w.tables[a][v].readOnly = r.tables[a][v].readOnly
    BY <1>2, <1>4, <1>5, <1>7
  <2>5. Installed(r, w, a, v, f, s)
    BY <1>7, <2>1, <2>2, <2>3, <2>4 DEF Installed
  <2>6. w.tables[a][v].dirty = dirty
    BY <1>5, <1>7
  <2> QED
    BY <2>5, <2>6 DEF w

(* A frame has at most NumSlots - 1 frames with TLB entries other than 0   *)
(* before it, so the one just found is among those collected.              *)
LEMMA OpenedCollected ==
  ASSUME NEW n, NEW f \in Frames, NEW a, Opened(n, f, a), n.ipt[f].slot = -1,
         \A g \in n.used \ {f} : n.ipt[g].slot # -1
  PROVE  f \in Collected(n)
<1> DEFINE U == n.used \ {f}
           B == {g \in OnTLB(n) : g < f}
           T == Slots \ {0}
           slot == [g \in B |-> n.ipt[g].slot]
<1>0. n \in Unit /\ Sound(n, U) /\ U \subseteq Frames /\ f \in Nat
  BY UnitFields, Numbers DEF Opened, Sound
<1>1. \A g \in B : g \in U /\ n.ipt[g].slot \in T
  <2> SUFFICES ASSUME NEW g \in B
               PROVE  g \in U /\ n.ipt[g].slot \in T
    OBVIOUS
  <2>1. g \in Frames /\ g < f /\ n.ipt[g].slot # 0
    BY DEF OnTLB
  <2>2. g \in n.used /\ g # f
    <3>1. g \in n.used
      BY <2>1 DEF Opened
    <3>2. g \in Nat
      BY <2>1, Numbers
    <3> QED
      BY <1>0, <2>1, <3>1, <3>2
  <2>3. n.ipt[g].slot \in Slots \union {-1} /\ n.ipt[g].slot # -1
    BY <1>0, <2>1, <2>2, UnitFields
  <2> QED
    BY <2>1, <2>2, <2>3
<1>2. \A g, h \in U : n.ipt[g].slot = n.ipt[h].slot => g = h
  <2> SUFFICES ASSUME NEW g \in U, NEW h \in U, n.ipt[g].slot = n.ipt[h].slot
               PROVE  g = h
    OBVIOUS
  <2>1. /\ n.tlb[n.ipt[g].slot] =
             [page |-> n.ipt[g].page, frame |-> g, valid |-> n.ipt[g].valid]
        /\ n.tlb[n.ipt[h].slot] =
             [page |-> n.ipt[h].page, frame |-> h, valid |-> n.ipt[h].valid]
    BY <1>0 DEF Sound, SlotsSound
  <2>2. /\ n.tlb[n.ipt[g].slot].frame = g
        /\ n.tlb[n.ipt[h].slot].frame = h
    BY <2>1
  <2> QED
    BY <2>2
<1> HIDE DEF B, U
<1>3. slot \in Injection(B, T)
  BY <1>1, <1>2 DEF Injection, IsInjective
<1>4. IsFiniteSet(T) /\ Cardinality(T) = NumSlots - 1
  <2>1. IsFiniteSet(Slots) /\ Cardinality(Slots) = NumSlots
    <3>1. 0 \in Int /\ NumSlots - 1 \in Int /\ NumSlots > 1 /\ NumSlots \in Nat
      BY MemoryAssumption
    <3>2. /\ IsFiniteSet(0..(NumSlots - 1))
          /\ Cardinality(0..(NumSlots - 1)) =
               IF 0 > NumSlots - 1 THEN 0 ELSE (NumSlots - 1) - 0 + 1
      BY <3>1, FS_Interval, Zenon
    <3> QED
      BY <3>1, <3>2 DEF Slots
  <2>2. IsFiniteSet(T) /\ Cardinality(T) = IF 0 \in Slots THEN Cardinality(Slots) - 1
                                           ELSE Cardinality(Slots)
    BY <2>1, FS_RemoveElement
  <2> QED
    BY <2>1, <2>2, Numbers
<1> HIDE DEF T, slot
<1>5. IsFiniteSet(B) /\ Cardinality(B) <= Cardinality(T)
  BY <1>3, <1>4, FS_Injection
<1>6. Cardinality(B) < NumSlots
  <2>1. Cardinality(B) \in Nat /\ NumSlots \in Nat
    BY <1>5, FS_CardinalityType, MemoryAssumption
  <2> QED
    BY <1>4, <1>5, <2>1
<1>7. f \in OnTLB(n)
  BY DEF OnTLB
<1> QED
  BY <1>6, <1>7 DEF Collected, B

(* A page with a frame and perhaps a TLB entry: what Install leaves.       *)
Loaded(n, f, a, v, s, w) ==
  /\ Opened(n, f, a) /\ f \in Frames /\ a \in Addresses /\ v \in Pages
  /\ n.tables[a] # NULL
  /\ \E x, r \in Unit :
       /\ EntryFound(n, x, s)
       /\ r.ipt = x.ipt /\ r.tlb = x.tlb /\ r.used = x.used /\ r.taken = x.taken
       /\ r.order = x.order /\ r.tables = x.tables
       /\ Installed(r, w, a, v, f, s)

(* The entries after that: f has the page, and the frame that had entry s  *)
(* has none.                                                               *)
EntriesAfter(n, f, a, v, s, w) ==
  /\ w \in Unit /\ s \in Slots \union {-1}
  /\ w.used = n.used /\ w.order = n.order /\ w.taken = n.taken \union ({s} \ {-1})
  /\ w.ipt[f].page = v /\ w.ipt[f].space = a /\ w.ipt[f].valid = TRUE /\ w.ipt[f].slot = s
  /\ \A g \in n.used \ {f} :
       /\ w.ipt[g].page = n.ipt[g].page /\ w.ipt[g].space = n.ipt[g].space
       /\ w.ipt[g].valid = n.ipt[g].valid
       /\ w.ipt[g].slot = IF n.ipt[g].slot = s THEN -1 ELSE n.ipt[g].slot
  /\ \A i \in Entries \ n.used : w.ipt[i] = EmptyEntry
  /\ \A t \in Slots : w.tlb[t] = IF t = s THEN [page |-> v, frame |-> f, valid |-> TRUE]
                                 ELSE n.tlb[t]
  /\ \A b \in Addresses : w.tables[b] = NULL <=> n.tables[b] = NULL
  /\ \A b \in Addresses, u \in Pages :
       IF b = a /\ u = v THEN w.tables[b][u].frame = f
       ELSE w.tables[b][u] = n.tables[b][u]

LEMMA LoadedEntries ==
  ASSUME NEW n, NEW f, NEW a, NEW v, NEW s, NEW w, Loaded(n, f, a, v, s, w)
  PROVE  EntriesAfter(n, f, a, v, s, w)
<1> DEFINE U == n.used \ {f}
           g0 == TLBVictim(n)
<1>0. /\ n \in Unit /\ Sound(n, U) /\ f \in Frames /\ f \in n.used /\ f \in Entries
      /\ n.used \subseteq Frames /\ n.used \subseteq Entries /\ U \subseteq Entries
      /\ n.taken \subseteq Slots /\ n.ipt[f].slot \notin n.taken
      /\ n.ipt \in [Entries -> Entry]
  BY UnitFields, Numbers DEF Loaded, Opened, Sound
<1>1. PICK x \in Unit, r \in Unit :
        /\ EntryFound(n, x, s)
        /\ r.ipt = x.ipt /\ r.tlb = x.tlb /\ r.used = x.used /\ r.taken = x.taken
        /\ r.order = x.order /\ r.tables = x.tables
        /\ Installed(r, w, a, v, f, s)
  BY DEF Loaded
<1>2. /\ s \in Slots \union {-1}
      /\ x.used = n.used /\ x.order = n.order /\ x.tables = n.tables
      /\ x.taken = n.taken \union ({s} \ {-1})
      /\ \A t \in Slots \ {s} : x.tlb[t] = n.tlb[t]
  BY <1>1 DEF EntryFound
<1>3. /\ w \in Unit /\ w.used = n.used /\ w.order = n.order
      /\ w.taken = n.taken \union ({s} \ {-1})
      /\ w.ipt[f].page = v /\ w.ipt[f].space = a /\ w.ipt[f].slot = s
      /\ \A i \in Entries \ {f} : w.ipt[i] = x.ipt[i]
      /\ \A b \in Addresses : w.tables[b] = NULL <=> n.tables[b] = NULL
      /\ \A b \in Addresses, u \in Pages :
           IF b = a /\ u = v THEN w.tables[b][u].frame = f
           ELSE w.tables[b][u] = n.tables[b][u]
  <2>1. /\ w \in Unit /\ w.used = r.used /\ w.order = r.order /\ w.taken = r.taken
        /\ w.ipt[f].page = v /\ w.ipt[f].space = a /\ w.ipt[f].slot = s
        /\ \A i \in Entries \ {f} : w.ipt[i] = r.ipt[i]
    BY <1>1 DEF Installed
  <2>2. /\ \A b \in Addresses : w.tables[b] = NULL <=> r.tables[b] = NULL
        /\ \A b \in Addresses, u \in Pages :
             IF b = a /\ u = v THEN w.tables[b][u].frame = f
             ELSE w.tables[b][u] = r.tables[b][u]
    BY <1>1 DEF Installed
  <2> QED
    BY <1>1, <1>2, <2>1, <2>2
<1>4. w.ipt[f].valid = TRUE
  <2>1. w.ipt[f].valid \in BOOLEAN
    BY <1>0, <1>3, UnitFields DEF Entry
  <2> QED
    BY <1>1, <2>1 DEF Installed
<1>5. \A t \in Slots : w.tlb[t] = IF t = s THEN [page |-> v, frame |-> f, valid |-> TRUE]
                                  ELSE n.tlb[t]
  <2>1. \A t \in Slots : w.tlb[t] = IF t = s THEN [page |-> v, frame |-> f, valid |-> TRUE]
                                    ELSE r.tlb[t]
    BY <1>1, Zenon DEF Installed
  <2>2. \A t \in Slots \ {s} : r.tlb[t] = n.tlb[t]
    BY <1>1, <1>2
  <2> QED
    BY <2>1, <2>2
<1>6. \A i \in Entries \ n.used : n.ipt[i] = EmptyEntry
  BY <1>0 DEF Sound, EntriesSound
<1>7. \A g, h \in U : n.ipt[g].slot # -1 /\ n.ipt[g].slot = n.ipt[h].slot => g = h
  <2> SUFFICES ASSUME NEW g \in U, NEW h \in U, n.ipt[g].slot # -1,
                      n.ipt[g].slot = n.ipt[h].slot
               PROVE  g = h
    OBVIOUS
  <2>1. /\ n.tlb[n.ipt[g].slot] =
             [page |-> n.ipt[g].page, frame |-> g, valid |-> n.ipt[g].valid]
        /\ n.tlb[n.ipt[h].slot] =
             [page |-> n.ipt[h].page, frame |-> h, valid |-> n.ipt[h].valid]
    BY <1>0 DEF Sound, SlotsSound
  <2>2. /\ n.tlb[n.ipt[g].slot].frame = g
        /\ n.tlb[n.ipt[h].slot].frame = h
    BY <2>1
  <2> QED
    BY <2>2
<1>8. CASE n.taken # Slots
  <2>1. s \in Slots \ n.taken /\ x.ipt = n.ipt
    BY <1>1, <1>8 DEF EntryFound
  <2>2. ASSUME NEW g \in U
        PROVE  n.ipt[g].slot # s
    <3>1. n.ipt[g].slot # -1 => n.ipt[g].slot \in n.taken
      BY <1>0 DEF Sound, SlotsSound
    <3>2. s # -1
      BY <2>1, Numbers
    <3> QED
      BY <2>1, <3>1, <3>2
  <2>3. \A i \in Entries \ n.used : w.ipt[i] = EmptyEntry
    BY <1>0, <1>3, <1>6, <2>1
  <2>4. \A g \in U : w.ipt[g] = n.ipt[g]
    BY <1>0, <1>3, <2>1
  <2> QED
    BY <1>2, <1>3, <1>4, <1>5, <2>2, <2>3, <2>4 DEF EntriesAfter
<1>9. CASE n.taken = Slots
  <2>1. g0 \in Collected(n) /\ s = n.ipt[g0].slot
    BY <1>1, <1>9 DEF EntryFound
  <2>2. x.ipt = [n.ipt EXCEPT ![g0] = [@ EXCEPT !.slot = -1]]
    BY <1>1, <1>9 DEF EntryFound
  <2>3. g0 \in Frames /\ g0 \in Entries
    BY <2>1, Numbers DEF Collected, OnTLB
  <2> HIDE DEF g0
  <2>4. /\ \A i \in Entries \ {g0} : x.ipt[i] = n.ipt[i]
        /\ x.ipt[g0] = [n.ipt[g0] EXCEPT !.slot = -1]
    BY <1>0, <2>2, <2>3
  <2>5. /\ x.ipt[g0].page = n.ipt[g0].page /\ x.ipt[g0].space = n.ipt[g0].space
        /\ x.ipt[g0].valid = n.ipt[g0].valid /\ x.ipt[g0].slot = -1
    BY <1>0, <2>3, <2>4 DEF Entry
  <2>6. n.ipt[f].slot = -1
    BY <1>0, <1>9, UnitFields
  <2>7. ASSUME NEW g \in U
        PROVE  /\ w.ipt[g].page = n.ipt[g].page /\ w.ipt[g].space = n.ipt[g].space
               /\ w.ipt[g].valid = n.ipt[g].valid
               /\ w.ipt[g].slot = IF n.ipt[g].slot = s THEN -1 ELSE n.ipt[g].slot
    <3>1. w.ipt[g] = x.ipt[g] /\ g \in Entries /\ g # f
      BY <1>0, <1>3
    <3>2. CASE g = g0
      BY <2>1, <2>5, <3>1, <3>2
    <3>3. CASE g # g0
      <4>1. w.ipt[g] = n.ipt[g]
        BY <2>4, <3>1, <3>3
      <4>2. n.ipt[g].slot = s => n.ipt[g].slot = -1
        <5> SUFFICES ASSUME n.ipt[g].slot = s, s # -1 PROVE FALSE
          OBVIOUS
        <5>1. g0 \notin U
          BY <1>7, <2>1, <3>3
        <5>2. g0 # f
          BY <2>1, <2>6
        <5>3. n.ipt[g0] = EmptyEntry
          BY <1>6, <2>3, <5>1, <5>2
        <5> QED
          BY <2>1, <5>3, EmptyFields
      <4> QED
        BY <4>1, <4>2
    <3> QED
      BY <3>2, <3>3
  <2>8. ASSUME NEW i \in Entries \ n.used
        PROVE  w.ipt[i] = EmptyEntry
    <3>1. w.ipt[i] = x.ipt[i] /\ n.ipt[i] = EmptyEntry
      BY <1>0, <1>3, <1>6
    <3>2. CASE i = g0
      <4>1. x.ipt[i] = Emptied(-1)
        BY <2>4, <3>1, <3>2 DEF Emptied
      <4> QED
        BY <3>1, <4>1, EmptiedFields
    <3>3. CASE i # g0
      BY <2>4, <3>1, <3>3
    <3> QED
      BY <3>2, <3>3
  <2> QED
    BY <1>2, <1>3, <1>4, <1>5, <2>7, <2>8 DEF EntriesAfter
<1> QED
  BY <1>8, <1>9

(* The unit is sound again, and the pages valid are those of the space at  *)
(* a still.                                                                *)
LEMMA LoadedSound ==
  ASSUME NEW n, NEW f, NEW a, NEW v, NEW s, NEW w, Loaded(n, f, a, v, s, w)
  PROVE  Sound(w, w.used) /\ OnlyValid(w, w.used, a)
<1> DEFINE U == n.used \ {f}
           T == n.used
<1>0. /\ n \in Unit /\ f \in Frames /\ f \in T /\ f \in Entries
      /\ T \subseteq Frames /\ T \subseteq Entries /\ U \subseteq Entries
      /\ a \in Addresses /\ v \in Pages /\ n.tables[a] # NULL
  BY UnitFields, Numbers DEF Loaded, Opened, Sound
<1>1. EntriesSound(n, U) /\ SlotsSound(n, U) /\ OrderSound(n, U) /\ TablesSound(n, U)
  BY DEF Loaded, Opened, Sound
<1>2. OnlyValid(n, U, a)
  BY DEF Loaded, Opened
<1>3. /\ w \in Unit /\ s \in Slots \union {-1}
      /\ w.used = T /\ w.order = n.order /\ w.taken = n.taken \union ({s} \ {-1})
      /\ w.ipt[f].page = v /\ w.ipt[f].space = a /\ w.ipt[f].valid = TRUE /\ w.ipt[f].slot = s
      /\ \A g \in U :
           /\ w.ipt[g].page = n.ipt[g].page /\ w.ipt[g].space = n.ipt[g].space
           /\ w.ipt[g].valid = n.ipt[g].valid
           /\ w.ipt[g].slot = IF n.ipt[g].slot = s THEN -1 ELSE n.ipt[g].slot
      /\ \A i \in Entries \ T : w.ipt[i] = EmptyEntry
  <2>1. EntriesAfter(n, f, a, v, s, w)
    BY LoadedEntries
  <2> QED
    BY <2>1 DEF EntriesAfter
<1>4. /\ \A t \in Slots : w.tlb[t] = IF t = s THEN [page |-> v, frame |-> f, valid |-> TRUE]
                                     ELSE n.tlb[t]
      /\ \A b \in Addresses : w.tables[b] = NULL <=> n.tables[b] = NULL
      /\ \A b \in Addresses, u \in Pages :
           IF b = a /\ u = v THEN w.tables[b][u].frame = f
           ELSE w.tables[b][u] = n.tables[b][u]
  <2>1. EntriesAfter(n, f, a, v, s, w)
    BY LoadedEntries
  <2> QED
    BY <2>1 DEF EntriesAfter
<1>5. \A g \in T : g \in U \/ g = f
  OBVIOUS
<1>6. U \subseteq T
  OBVIOUS
<1> HIDE DEF T, U
<1>7. EntriesSound(w, T)
  <2>1. \A g \in U : n.ipt[g].space # NULL /\ n.ipt[g].page \in Pages
    BY <1>1 DEF EntriesSound
  <2>2. a # NULL
    BY <1>0, Numbers
  <2>3. \A g \in T : w.ipt[g].space # NULL /\ w.ipt[g].page \in Pages
    BY <1>0, <1>3, <1>5, <2>1, <2>2
  <2> QED
    BY <1>3, <2>3 DEF EntriesSound
<1>8. SlotsSound(w, T)
  <2>1. ASSUME NEW g \in U, w.ipt[g].slot # -1
        PROVE  /\ w.ipt[g].slot \in w.taken
               /\ w.tlb[w.ipt[g].slot] =
                    [page |-> w.ipt[g].page, frame |-> g, valid |-> w.ipt[g].valid]
    <3> DEFINE t == n.ipt[g].slot
    <3>1. w.ipt[g].slot = t /\ t # s /\ t # -1
      BY <1>3, <2>1
    <3>2. /\ t \in n.taken
          /\ n.tlb[t] = [page |-> n.ipt[g].page, frame |-> g, valid |-> n.ipt[g].valid]
      BY <1>1, <3>1 DEF SlotsSound
    <3>3. t \in Slots
      BY <1>0, <3>2, UnitFields
    <3>4. w.tlb[t] = n.tlb[t]
      BY <1>4, <3>1, <3>3
    <3> HIDE DEF t
    <3> QED
      BY <1>3, <3>1, <3>2, <3>4
  <2>2. ASSUME s # -1
        PROVE  /\ s \in w.taken
               /\ w.tlb[s] = [page |-> w.ipt[f].page, frame |-> f, valid |-> w.ipt[f].valid]
    BY <1>3, <1>4, <2>2
  <2>3. ASSUME NEW t \in Slots, w.tlb[t].valid
        PROVE  w.tlb[t].frame \in T /\ w.ipt[w.tlb[t].frame].slot = t
    <3>1. CASE t = s
      <4>1. w.tlb[t] = [page |-> v, frame |-> f, valid |-> TRUE]
        BY <1>4, <3>1
      <4>2. w.tlb[t].frame = f
        BY <4>1
      <4> QED
        BY <1>0, <1>3, <3>1, <4>2
    <3>2. CASE t # s
      <4>1. w.tlb[t] = n.tlb[t]
        BY <1>4, <3>2
      <4>2. n.tlb[t].frame \in U /\ n.ipt[n.tlb[t].frame].slot = t
        BY <1>1, <2>3, <4>1 DEF SlotsSound
      <4> QED
        BY <1>3, <1>6, <3>2, <4>1, <4>2
    <3> QED
      BY <3>1, <3>2
  <2>4. \A g \in T : w.ipt[g].slot # -1 =>
          /\ w.ipt[g].slot \in w.taken
          /\ w.tlb[w.ipt[g].slot] =
               [page |-> w.ipt[g].page, frame |-> g, valid |-> w.ipt[g].valid]
    <3> SUFFICES ASSUME NEW g \in T, w.ipt[g].slot # -1
                 PROVE  /\ w.ipt[g].slot \in w.taken
                        /\ w.tlb[w.ipt[g].slot] =
                             [page |-> w.ipt[g].page, frame |-> g, valid |-> w.ipt[g].valid]
      OBVIOUS
    <3>1. CASE g \in U
      BY <2>1, <3>1
    <3>2. CASE g = f
      <4>1. w.ipt[g].slot = s /\ s # -1
        BY <1>3, <3>2
      <4> QED
        BY <2>2, <3>2, <4>1
    <3> QED
      BY <1>5, <3>1, <3>2
  <2> QED
    BY <2>3, <2>4 DEF SlotsSound
<1>9. OrderSound(w, T)
  BY <1>1, <1>3, <1>6 DEF OrderSound
<1>10. TablesSound(w, T)
  <2> SUFFICES ASSUME NEW b \in Addresses, NEW u \in Pages, w.tables[b] # NULL,
                      w.tables[b][u].valid, ~ w.tables[b][u].readOnly
               PROVE  /\ w.tables[b][u].frame \in T
                      /\ w.ipt[w.tables[b][u].frame].space = b
                      /\ w.ipt[w.tables[b][u].frame].page = u
    BY DEF TablesSound
  <2>1. CASE b = a /\ u = v
    <3>1. w.tables[b][u].frame = f
      BY <1>4, <2>1
    <3> QED
      BY <1>0, <1>3, <2>1, <3>1
  <2>2. CASE ~ (b = a /\ u = v)
    <3>1. w.tables[b][u] = n.tables[b][u] /\ n.tables[b] # NULL
      BY <1>4, <2>2
    <3> DEFINE g == n.tables[b][u].frame
    <3>2. g \in U /\ n.ipt[g].space = b /\ n.ipt[g].page = u
      BY <1>1, <3>1 DEF TablesSound
    <3> QED
      BY <1>3, <1>6, <3>1, <3>2
  <2> QED
    BY <2>1, <2>2
<1>11. OnlyValid(w, T, a)
  <2>1. \A g \in U : w.ipt[g].valid <=> w.ipt[g].space = a
    BY <1>2, <1>3 DEF OnlyValid
  <2>2. w.ipt[f].valid <=> w.ipt[f].space = a
    BY <1>3
  <2> QED
    BY <1>5, <2>1, <2>2 DEF OnlyValid
<1> QED
  BY <1>3, <1>7, <1>8, <1>9, <1>10, <1>11 DEF Sound

(* If a frame has no TLB entry now, it is lost for good.                   *)
LEMMA LoadedLost ==
  ASSUME NEW n, NEW f, NEW a, NEW v, NEW s, NEW w, Loaded(n, f, a, v, s, w)
  PROVE  LostForGood(w)
<1> DEFINE U == n.used \ {f}
           g0 == TLBVictim(n)
<1>0. /\ n \in Unit /\ Sound(n, U) /\ f \in Frames /\ f \in n.used
      /\ n.used \subseteq Frames /\ Frames \subseteq Entries
      /\ n.taken \subseteq Slots /\ n.ipt[f].slot \notin n.taken
      /\ \A g \in Frames : n.ipt[g].slot \in Slots \union {-1}
      /\ 0 \in Slots /\ Slots \subseteq Nat /\ -1 \notin Slots /\ 0 # -1
  BY UnitFields, Numbers DEF Loaded, Opened, Sound
<1>1. (\E g \in U : n.ipt[g].slot = -1) =>
        /\ Slots \ {n.ipt[f].slot} \subseteq n.taken
        /\ n.ipt[f].slot \in {0, -1}
        /\ \E x \in Frames : Victim(n, x)
  BY DEF Loaded, Opened
<1>2. /\ w \in Unit /\ s \in Slots \union {-1}
      /\ w.used = n.used /\ w.order = n.order /\ w.taken = n.taken \union ({s} \ {-1})
      /\ w.ipt[f].slot = s
      /\ \A g \in U : w.ipt[g].slot = IF n.ipt[g].slot = s THEN -1 ELSE n.ipt[g].slot
      /\ \A g \in Frames \ n.used : w.ipt[g] = EmptyEntry
  <2>1. EntriesAfter(n, f, a, v, s, w)
    BY LoadedEntries
  <2> QED
    BY <1>0, <2>1 DEF EntriesAfter
<1>3. \A g \in Frames \ n.used : n.ipt[g].slot = -1 /\ w.ipt[g].slot = -1
  <2>1. \A g \in Frames \ n.used : n.ipt[g] = EmptyEntry
    BY <1>0 DEF Sound, EntriesSound
  <2> QED
    BY <1>2, <2>1, EmptyFields
<1>4. \A g : Rank(w, g) = Rank(n, g) /\ Rank(n, g) \in Nat
  BY <1>0, <1>2, RankIs DEF Rank
<1>5. PICK x : EntryFound(n, x, s)
  BY DEF Loaded
<1>6. \A g \in n.used : g \in U \/ g = f
  OBVIOUS
<1> SUFFICES ASSUME NEW h \in n.used, w.ipt[h].slot = -1
             PROVE  w.taken = Slots /\ \E y \in Frames : Victim(w, y)
  BY <1>2 DEF LostForGood
<1>7. CASE n.taken # Slots
  <2>1. s \in Slots \ n.taken
    BY <1>5, <1>7 DEF EntryFound
  <2>2. \A g \in U : n.ipt[g].slot # s /\ w.ipt[g].slot = n.ipt[g].slot
    <3> SUFFICES ASSUME NEW g \in U
                 PROVE  n.ipt[g].slot # s
      BY <1>2
    <3>1. n.ipt[g].slot # -1 => n.ipt[g].slot \in n.taken
      BY <1>0 DEF Sound, SlotsSound
    <3> QED
      BY <1>0, <2>1, <3>1
  <2>3. h \in U /\ n.ipt[h].slot = -1
    BY <1>0, <1>2, <1>6, <2>1, <2>2
  <2>4. /\ Slots \ {n.ipt[f].slot} \subseteq n.taken
        /\ n.ipt[f].slot \in {0, -1}
        /\ \E y \in Frames : Victim(n, y)
    BY <1>1, <2>3
  <2>5. s = 0 /\ n.ipt[f].slot = 0
    BY <1>0, <2>1, <2>4
  <2>6. \A g \in Frames : w.ipt[g].slot = n.ipt[g].slot
    BY <1>2, <1>3, <1>6, <2>2, <2>5
  <2>7. Collected(w) = Collected(n)
    <3>1. OnTLB(w) = OnTLB(n)
      BY <2>6 DEF OnTLB
    <3> QED
      BY <3>1 DEF Collected
  <2>8. PICK y \in Frames : Victim(n, y)
    BY <2>4
  <2>9. Victim(w, y)
    BY <1>4, <2>6, <2>7, <2>8 DEF Victim
  <2>10. w.taken = Slots
    <3>1. w.taken = n.taken \union {0}
      BY <1>2, <2>5
    <3>2. Slots \ {0} \subseteq n.taken
      BY <2>4, <2>5
    <3> QED
      BY <1>0, <3>1, <3>2
  <2> QED
    BY <2>9, <2>10
<1>8. CASE n.taken = Slots
  <2>1. /\ g0 \in Collected(n) /\ s = n.ipt[g0].slot
        /\ \A g \in Collected(n) : \/ Rank(n, g0) < Rank(n, g)
                                   \/ Rank(n, g0) = Rank(n, g) /\ g0 <= g
    BY <1>5, <1>8 DEF EntryFound
  <2> HIDE DEF g0
  <2>2. g0 \in Frames /\ s # 0
    BY <2>1 DEF Collected, OnTLB
  <2>3. n.ipt[f].slot = -1
    BY <1>0, <1>8
  <2>4. \A g \in Frames : w.ipt[g].slot # 0 <=> n.ipt[g].slot # 0
    BY <1>0, <1>2, <1>3, <1>6, <2>2, <2>3
  <2>5. Collected(w) = Collected(n)
    <3>1. OnTLB(w) = OnTLB(n)
      BY <2>4 DEF OnTLB
    <3> QED
      BY <3>1 DEF Collected
  <2>6. w.ipt[g0].slot = -1
    <3>1. CASE g0 \in U
      BY <1>2, <2>1, <3>1
    <3>2. CASE g0 = f
      BY <1>2, <2>1, <2>3, <3>2
    <3>3. CASE g0 \notin n.used
      BY <1>3, <2>2, <3>3
    <3> QED
      BY <1>6, <3>1, <3>2, <3>3
  <2>7. \E c \in Collected(n) : Rank(n, c) = 0
    <3>1. CASE \E g \in U : n.ipt[g].slot = -1
      BY <1>1, <3>1 DEF Victim
    <3>2. CASE ~ \E g \in U : n.ipt[g].slot = -1
      <4>1. f \in Collected(n)
        <5>1. Opened(n, f, a) /\ \A g \in n.used \ {f} : n.ipt[g].slot # -1
          BY <3>2 DEF Loaded
        <5> QED
          BY <1>0, <2>3, <5>1, OpenedCollected
      <4>2. ~ Lists(n.order, f)
        BY <1>0 DEF Sound, OrderSound, Lists
      <4>3. Rank(n, f) = 0
        BY <1>0, <4>2, RankIs
      <4> QED
        BY <4>1, <4>3
    <3> QED
      BY <3>1, <3>2
  <2>8. Rank(n, g0) = 0
    <3>1. PICK c \in Collected(n) : Rank(n, c) = 0
      BY <2>7
    <3>2. Rank(n, g0) < Rank(n, c) \/ Rank(n, g0) = Rank(n, c)
      BY <2>1
    <3> QED
      BY <1>4, <3>1, <3>2
  <2>9. ASSUME NEW g \in Collected(w), g < g0
        PROVE  Rank(w, g) # 0
    <3>1. g \in Nat /\ g0 \in Nat /\ g \in Collected(n)
      BY <2>2, <2>5, Numbers DEF Collected, OnTLB
    <3>2. Rank(n, g0) < Rank(n, g)
      BY <2>1, <2>9, <3>1
    <3> QED
      BY <1>4, <2>8, <3>2
  <2>10. Victim(w, g0)
    BY <1>4, <2>1, <2>5, <2>6, <2>8, <2>9 DEF Victim
  <2>11. w.taken = Slots
    BY <1>0, <1>2, <1>8
  <2> QED
    BY <2>2, <2>10, <2>11
<1> QED
  BY <1>7, <1>8

-----------------------------------------------------------------------------
(* The page fault handler.                                                 *)

(* The memory that loadPageToMemory fills is all it changes.               *)
LEMMA LoadPageFields ==
  ASSUME NEW m \in Unit, NEW p \in Processes, NEW v \in Pages, NEW f \in Frames
  PROVE  /\ loadPageToMemory(m, p, v, f) \in Unit
         /\ loadPageToMemory(m, p, v, f).ipt = m.ipt
         /\ loadPageToMemory(m, p, v, f).tlb = m.tlb
         /\ loadPageToMemory(m, p, v, f).used = m.used
         /\ loadPageToMemory(m, p, v, f).taken = m.taken
         /\ loadPageToMemory(m, p, v, f).order = m.order
         /\ loadPageToMemory(m, p, v, f).tables = m.tables
<1> DEFINE c == FromFile(p, v)
           memory == [m.memory EXCEPT ![f] = c]
           n == loadPageToMemory(m, p, v, f)
<1>1. CASE v \in Image
  <2>1. c \in Contents
    BY <1>1 DEF FromFile, Contents
  <2>2. memory \in [Frames -> Contents]
    BY <2>1, UnitFields
  <2>3. n = [m EXCEPT !.memory[f] = c]
    BY <1>1 DEF loadPageToMemory
  <2> HIDE DEF c
  <2>4. n = [m EXCEPT !.memory = memory]
    BY <2>3 DEF Unit
  <2> HIDE DEF memory, n
  <2>5. /\ n \in Unit /\ n.ipt = m.ipt /\ n.tlb = m.tlb /\ n.used = m.used
        /\ n.taken = m.taken /\ n.order = m.order /\ n.tables = m.tables
    BY <2>2, <2>4 DEF Unit
  <2> QED
    BY <2>5 DEF n
<1>2. CASE v \notin Image
  BY <1>2 DEF loadPageToMemory
<1> QED
  BY <1>1, <1>2

(* The two ways to bring a page in: a frame, a TLB entry, what the frame   *)
(* is to hold, and the entries that say so.                                *)
Brought(m, w, a) ==
  /\ UnitSound(w) /\ OnlyValid(w, w.used, a)
  /\ \A b \in Addresses : w.tables[b] = NULL <=> m.tables[b] = NULL

LEMMA LoadIs ==
  ASSUME NEW m, UnitSound(m), NEW a \in Addresses, OnlyValid(m, m.used, a),
         m.tables[a] # NULL, NEW v \in Pages, NEW dirty \in BOOLEAN,
         NEW f, f = findFreeFrame(m).at, f # -1,
         NEW n, n = findFreeFrame(m).mmu,
         NEW x, x = findFreeTLBEntry(n).mmu, NEW s, s = findFreeTLBEntry(n).at,
         NEW r \in Unit, r.ipt = x.ipt, r.tlb = x.tlb, r.used = x.used, r.taken = x.taken,
         r.order = x.order, r.tables = x.tables
  PROVE  Brought(m, Install(r, a, v, f, s, dirty), a)
<1> DEFINE w == Install(r, a, v, f, s, dirty)
<1>1. /\ f \in Frames /\ Opened(n, f, a)
      /\ \A b \in Addresses : n.tables[b] = NULL <=> m.tables[b] = NULL
  BY FreeFrameIs
<1>2. n \in Unit /\ n.taken \subseteq Slots /\ n.ipt[f].slot \in Slots \union {-1}
  BY <1>1, UnitFields DEF Opened, Sound
<1>3. n.taken = Slots => OnTLB(n) # {}
  <2> SUFFICES ASSUME n.taken = Slots
               PROVE  f \in OnTLB(n)
    OBVIOUS
  <2>1. n.ipt[f].slot = -1
    BY <1>1, <1>2 DEF Opened
  <2> QED
    BY <1>1, <2>1 DEF OnTLB
<1>4. EntryFound(n, x, s)
  BY <1>2, <1>3, FreeEntryFields
<1>5. x \in Unit /\ r.tables = n.tables /\ s \in Slots \union {-1}
  BY <1>4 DEF EntryFound
<1>6. Installed(r, w, a, v, f, s)
  BY <1>1, <1>5, InstallFields
<1> HIDE DEF w
<1>7. Loaded(n, f, a, v, s, w)
  BY <1>1, <1>4, <1>5, <1>6 DEF Loaded
<1>8. /\ Sound(w, w.used) /\ OnlyValid(w, w.used, a) /\ LostForGood(w)
      /\ EntriesAfter(n, f, a, v, s, w)
  BY <1>7, LoadedSound, LoadedLost, LoadedEntries
<1> QED
  BY <1>1, <1>8 DEF Brought, UnitSound, EntriesAfter, w

(* A page of a valid table entry that is not on the TLB has lost its entry *)
(* for good, so loading the TLB with it changes nothing.                   *)
LEMMA ReloadIs ==
  ASSUME NEW m, UnitSound(m), NEW a \in Addresses, OnlyValid(m, m.used, a),
         NEW v \in Pages, Translate(m, v) = -1
  PROVE  reloadTLBwithValidEntry(m, a, v) = m
<1>0. /\ m \in Unit /\ Sound(m, m.used) /\ LostForGood(m) /\ m.used \subseteq Frames
      /\ \A f \in Frames : m.ipt[f] \in Entry /\ m.ipt[f].slot \in Slots \union {-1}
      /\ Slots \in SUBSET Nat /\ -1 \notin Slots /\ m.ipt \in [Entries -> Entry]
  BY UnitFields, Numbers DEF UnitSound, Sound
<1>1. CASE Holding(m, a, v) = {}
  BY <1>1 DEF reloadTLBwithValidEntry
<1>2. CASE Holding(m, a, v) # {}
  <2>1. PICK f \in Entries : m.ipt[f].page = v /\ m.ipt[f].space = a
    BY <1>2 DEF Holding
  <2>2. f \in m.used
    <3> SUFFICES ASSUME f \notin m.used PROVE FALSE
      OBVIOUS
    <3>1. m.ipt[f] = EmptyEntry
      BY <1>0 DEF Sound, EntriesSound
    <3> QED
      BY <2>1, <3>1, EmptyFields, Numbers
  <2>3. m.ipt[f].valid = TRUE
    BY <1>0, <2>1, <2>2 DEF OnlyValid, Entry
  <2>4. m.ipt[f].slot = -1
    <3> SUFFICES ASSUME m.ipt[f].slot # -1 PROVE FALSE
      OBVIOUS
    <3> DEFINE t == m.ipt[f].slot
               hits == {s \in Slots : m.tlb[s].valid /\ m.tlb[s].page = v}
    <3>1. t \in Slots /\ m.tlb[t] = [page |-> v, frame |-> f, valid |-> TRUE]
      BY <1>0, <2>1, <2>2, <2>3 DEF Sound, SlotsSound
    <3>2. m.tlb[t].valid /\ m.tlb[t].page = v
      BY <3>1
    <3>3. t \in hits
      BY <3>1, <3>2
    <3>4. Translate(m, v) = CHOOSE s \in hits : \A r \in hits : s <= r
      BY <3>3 DEF Translate
    <3>5. \E s \in hits : \A r \in hits : s <= r
      <4>1. hits \in SUBSET Nat /\ hits # {}
        BY <1>0, <3>3
      <4> HIDE DEF hits
      <4> QED
        BY <4>1, LeastNumber
    <3> HIDE DEF hits
    <3>6. Translate(m, v) \in hits
      BY <3>4, <3>5
    <3>7. -1 \in Slots
      BY <3>6 DEF hits
    <3> QED
      BY <1>0, <3>7
  <2>5. m.taken = Slots /\ \E y \in Frames : Victim(m, y)
    BY <1>0, <2>2, <2>4 DEF LostForGood
  <2>6. PICK y \in Frames : Victim(m, y)
    BY <2>5
  <2>7. y \in Collected(m) /\ y \in OnTLB(m) /\ m.ipt[y].slot = -1 /\ Rank(m, y) = 0
    BY <2>6 DEF Victim, Collected
  <2> DEFINE r == findFreeTLBEntry(m).mmu
             s == findFreeTLBEntry(m).at
             g0 == TLBVictim(m)
  <2>8. EntryFound(m, r, s)
    BY <1>0, <2>7, FreeEntryFields
  <2>9. g0 = y
    <3>1. /\ g0 \in Collected(m)
          /\ \A g \in Collected(m) : \/ Rank(m, g0) < Rank(m, g)
                                     \/ Rank(m, g0) = Rank(m, g) /\ g0 <= g
      BY <2>5, <2>8 DEF EntryFound
    <3> HIDE DEF g0
    <3>2. g0 \in Nat /\ y \in Nat /\ Rank(m, g0) \in Nat
      BY <1>0, <3>1, RankIs, Numbers DEF Collected, OnTLB
    <3>3. Rank(m, g0) = 0 /\ g0 <= y
      BY <2>7, <3>1, <3>2
    <3>4. ~ (g0 < y)
      BY <2>6, <3>1, <3>3 DEF Victim
    <3> QED
      BY <3>2, <3>3, <3>4
  <2>10. s = -1 /\ r.ipt = [m.ipt EXCEPT ![y] = [@ EXCEPT !.slot = -1]]
    BY <2>5, <2>7, <2>8, <2>9 DEF EntryFound
  <2>11. r.ipt = m.ipt
    <3>1. y \in Entries /\ m.ipt[y] \in Entry
      BY <1>0, Numbers
    <3>2. [m.ipt[y] EXCEPT !.slot = -1] = m.ipt[y]
      BY <2>7, <3>1 DEF Entry
    <3> QED
      BY <1>0, <2>10, <3>1, <3>2
  <2>12. /\ r \in Unit /\ r.used = m.used /\ r.order = m.order /\ r.memory = m.memory
         /\ r.tables = m.tables /\ r.taken = m.taken /\ r.tlb = m.tlb
    <3>1. /\ r \in Unit /\ r.used = m.used /\ r.order = m.order /\ r.memory = m.memory
          /\ r.tables = m.tables /\ r.taken = m.taken \union ({s} \ {-1})
          /\ \A t \in Slots \ {s} : r.tlb[t] = m.tlb[t]
      BY <2>8 DEF EntryFound
    <3> HIDE DEF r, s
    <3>2. r.taken = m.taken /\ \A t \in Slots : r.tlb[t] = m.tlb[t]
      BY <1>0, <2>10, <3>1
    <3>3. r.tlb \in [Slots -> Translation] /\ m.tlb \in [Slots -> Translation]
      BY <1>0, <3>1, UnitFields
    <3>4. r.tlb = m.tlb
      BY <3>2, <3>3
    <3> QED
      BY <3>1, <3>2, <3>4
  <2>13. r.wild = m.wild
    BY <1>0, <2>5, <2>7, EntryWild
  <2> HIDE DEF r, s
  <2>14. r = m
    BY <1>0, <2>11, <2>12, <2>13 DEF Unit
  <2>15. reloadTLBwithValidEntry(m, a, v) =
           SetTLB(r, s, v, CHOOSE i \in Holding(m, a, v) : \A j \in Holding(m, a, v) : i <= j)
    BY <1>2 DEF reloadTLBwithValidEntry, r, s
  <2>16. s \notin Slots
    BY <1>0, <2>10
  <2> QED
    BY <2>14, <2>15, <2>16 DEF SetTLB
<1> QED
  BY <1>1, <1>2

(* The handler keeps the unit sound for the process it runs for, and every *)
(* page table where it is.                                                 *)
LEMMA PageFaultIs ==
  ASSUME NEW m, UnitSound(m), NEW p \in Processes, NEW a \in Addresses, a = space[p],
         OnlyValid(m, m.used, a), m.tables[a] # NULL, NEW v \in Pages, Translate(m, v) = -1
  PROVE  Brought(m, PageFault(m, p, v), a)
<1> DEFINE t == m.tables[a][v]
           f == findFreeFrame(m).at
           n == findFreeFrame(m).mmu
           x == findFreeTLBEntry(n).mmu
           s == findFreeTLBEntry(n).at
<1>0. m \in Unit /\ t \in TableEntry
  <2>1. m \in Unit
    BY DEF UnitSound, Sound
  <2>2. m.tables[a] \in [Pages -> TableEntry]
    BY <2>1, UnitFields
  <2> QED
    BY <2>1, <2>2
<1>1. t.readOnly \in BOOLEAN /\ t.valid \in BOOLEAN /\ t.dirty \in BOOLEAN
  BY <1>0 DEF TableEntry
<1>2. Brought(m, m, a)
  BY DEF Brought
<1>3. f = -1 => Brought(m, n, a)
  BY FreeFrameIs DEF Brought
<1>4. f # -1 => f \in Frames /\ x \in Unit
  <2> SUFFICES ASSUME f # -1 PROVE f \in Frames /\ x \in Unit
    OBVIOUS
  <2>1. f \in Frames /\ Opened(n, f, a)
    BY FreeFrameIs
  <2> HIDE DEF f, n
  <2>2. n \in Unit /\ n.taken \subseteq Slots /\ n.ipt[f].slot \in Slots \union {-1}
    BY <2>1, UnitFields DEF Opened, Sound
  <2>3. n.taken = Slots => OnTLB(n) # {}
    <3> SUFFICES ASSUME n.taken = Slots
                 PROVE  f \in OnTLB(n)
      OBVIOUS
    <3>1. n.ipt[f].slot = -1
      BY <2>1, <2>2 DEF Opened
    <3> QED
      BY <2>1, <3>1 DEF OnTLB
  <2>4. EntryFound(n, x, s)
    BY <2>2, <2>3, FreeEntryFields
  <2> QED
    BY <2>1, <2>4 DEF EntryFound
<1>5. CASE t.readOnly
  <2>1. PageFault(m, p, v) = m
    BY <1>5 DEF PageFault
  <2> QED
    BY <1>2, <2>1
<1>6. CASE ~ t.readOnly /\ ~ t.valid /\ t.dirty
  <2>1. PageFault(m, p, v) = loadFromSwapToMemory(m, p, v)
    BY <1>6 DEF PageFault
  <2>2. CASE f = -1
    <3>1. PageFault(m, p, v) = n
      BY <2>1, <2>2 DEF loadFromSwapToMemory
    <3> QED
      BY <1>3, <2>2, <3>1
  <2>3. CASE f # -1
    <3>1. PageFault(m, p, v) = Install(x, a, v, f, s, TRUE)
      BY <2>1, <2>3 DEF loadFromSwapToMemory
    <3>2. x.ipt = x.ipt
      OBVIOUS
    <3> DEFINE d == TRUE
    <3>3. d \in BOOLEAN /\ PageFault(m, p, v) = Install(x, a, v, f, s, d)
      BY <3>1
    <3>4. /\ f = findFreeFrame(m).at /\ n = findFreeFrame(m).mmu
          /\ x = findFreeTLBEntry(n).mmu /\ s = findFreeTLBEntry(n).at
      OBVIOUS
    <3> HIDE DEF f, n, x, s, d
    <3>5. Brought(m, Install(x, a, v, f, s, d), a)
      BY <1>4, <2>3, <3>3, <3>4, LoadIs
    <3> QED
      BY <3>3, <3>5
  <2> QED
    BY <2>2, <2>3
<1>7. CASE ~ t.readOnly /\ ~ t.valid /\ ~ t.dirty
  <2>1. PageFault(m, p, v) = loadFromExecutableToMemory(m, p, v)
    BY <1>7 DEF PageFault
  <2>2. CASE f = -1
    <3>1. PageFault(m, p, v) = n
      BY <2>1, <2>2 DEF loadFromExecutableToMemory
    <3> QED
      BY <1>3, <2>2, <3>1
  <2>3. CASE f # -1
    <3> DEFINE r == loadPageToMemory(x, p, v, f)
               d == t.dirty
    <3>1. PageFault(m, p, v) = Install(r, a, v, f, s, d)
      BY <2>1, <2>3 DEF loadFromExecutableToMemory
    <3>2. /\ r \in Unit /\ r.ipt = x.ipt /\ r.tlb = x.tlb /\ r.used = x.used
          /\ r.taken = x.taken /\ r.order = x.order /\ r.tables = x.tables
      <4> HIDE DEF x, f
      <4> QED
        BY <1>4, <2>3, LoadPageFields
    <3>3. d \in BOOLEAN
      BY <1>1
    <3>4. /\ f = findFreeFrame(m).at /\ n = findFreeFrame(m).mmu
          /\ x = findFreeTLBEntry(n).mmu /\ s = findFreeTLBEntry(n).at
      OBVIOUS
    <3> HIDE DEF f, n, x, s, d, r
    <3>5. Brought(m, Install(r, a, v, f, s, d), a)
      BY <1>4, <2>3, <3>2, <3>3, <3>4, LoadIs
    <3> QED
      BY <3>1, <3>5
  <2> QED
    BY <2>2, <2>3
<1>8. CASE ~ t.readOnly /\ t.valid
  <2>1. PageFault(m, p, v) = reloadTLBwithValidEntry(m, a, v)
    BY <1>8 DEF PageFault
  <2>2. PageFault(m, p, v) = m
    BY <2>1, ReloadIs
  <2> QED
    BY <1>2, <2>2
<1> QED
  BY <1>1, <1>5, <1>6, <1>7, <1>8

-----------------------------------------------------------------------------
(* What else the system does to the unit.                                  *)

(* Machine::Translate finds a valid entry for the page.                    *)
LEMMA TranslateIs ==
  ASSUME NEW m, NEW v, Translate(m, v) # -1
  PROVE  /\ Translate(m, v) \in Slots /\ m.tlb[Translate(m, v)].valid
         /\ m.tlb[Translate(m, v)].page = v
<1> DEFINE hits == {s \in Slots : m.tlb[s].valid /\ m.tlb[s].page = v}
<1>1. hits # {} /\ Translate(m, v) = CHOOSE s \in hits : \A r \in hits : s <= r
  BY DEF Translate
<1>2. hits \in SUBSET Nat
  BY Numbers
<1> HIDE DEF hits
<1>3. \E s \in hits : \A r \in hits : s <= r
  BY <1>1, <1>2, LeastNumber
<1>4. Translate(m, v) \in hits
  BY <1>1, <1>3
<1> QED
  BY <1>4 DEF hits

(* A write into memory.                                                    *)
Stored(m, f, c) == [m EXCEPT !.memory[f] = c]

LEMMA MemoryChanged ==
  ASSUME NEW m, UnitSound(m), NEW a, OnlyValid(m, m.used, a),
         NEW f \in Frames, NEW c \in Contents
  PROVE  Brought(m, Stored(m, f, c), a)
<1> DEFINE memory == [m.memory EXCEPT ![f] = c]
           n == Stored(m, f, c)
<1>0. m \in Unit /\ Sound(m, m.used) /\ LostForGood(m)
  BY DEF UnitSound, Sound
<1>1. memory \in [Frames -> Contents]
  BY <1>0, UnitFields
<1>2. n = [m EXCEPT !.memory = memory]
  BY <1>0 DEF Unit, Stored
<1> HIDE DEF memory, n
<1>3. /\ n \in Unit /\ n.ipt = m.ipt /\ n.tlb = m.tlb /\ n.used = m.used
      /\ n.taken = m.taken /\ n.order = m.order /\ n.tables = m.tables
  BY <1>0, <1>1, <1>2 DEF Unit
<1>4. Sound(n, n.used)
  BY <1>0, <1>3, SoundKept
<1>5. LostForGood(n)
  BY <1>0, <1>3, LostSame
<1>6. OnlyValid(n, n.used, a)
  BY <1>3 DEF OnlyValid
<1> QED
  BY <1>3, <1>4, <1>5, <1>6 DEF UnitSound, Brought, n

(* A page table that is made or deleted.                                   *)
Blank(table) == \A v \in Pages : table[v].valid => table[v].readOnly

WithTable(m, b, table) == [m EXCEPT !.tables[b] = table]

TableSet(m, n, a, b, table) ==
  /\ UnitSound(n) /\ OnlyValid(n, n.used, a)
  /\ n.tables[b] = table /\ \A c \in Addresses \ {b} : n.tables[c] = m.tables[c]

LEMMA TableChanged ==
  ASSUME NEW m, UnitSound(m), NEW a, OnlyValid(m, m.used, a), NEW b \in Addresses,
         NEW table \in {NULL} \union [Pages -> TableEntry], table # NULL => Blank(table)
  PROVE  TableSet(m, WithTable(m, b, table), a, b, table)
<1> DEFINE tables == [m.tables EXCEPT ![b] = table]
           n == WithTable(m, b, table)
<1>0. m \in Unit /\ Sound(m, m.used) /\ LostForGood(m)
  BY DEF UnitSound, Sound
<1>1. /\ tables \in [Addresses -> {NULL} \union [Pages -> TableEntry]]
      /\ tables[b] = table /\ \A c \in Addresses \ {b} : tables[c] = m.tables[c]
  BY <1>0, UnitFields
<1>2. n = [m EXCEPT !.tables = tables]
  BY <1>0 DEF Unit, WithTable
<1> HIDE DEF tables, n
<1>3. /\ n \in Unit /\ n.ipt = m.ipt /\ n.tlb = m.tlb /\ n.used = m.used
      /\ n.taken = m.taken /\ n.order = m.order /\ n.tables = tables
  BY <1>0, <1>1, <1>2 DEF Unit
<1>4. Sound(n, n.used)
  <2>1. EntriesSound(n, n.used) /\ SlotsSound(n, n.used) /\ OrderSound(n, n.used)
    BY <1>0, <1>3 DEF Sound, EntriesSound, SlotsSound, OrderSound
  <2>2. TablesSound(n, n.used)
    <3> SUFFICES ASSUME NEW c \in Addresses, NEW u \in Pages, n.tables[c] # NULL,
                        n.tables[c][u].valid, ~ n.tables[c][u].readOnly
                 PROVE  LET f == n.tables[c][u].frame IN
                        f \in n.used /\ n.ipt[f].space = c /\ n.ipt[f].page = u
      BY DEF TablesSound
    <3>1. c # b
      BY <1>1, <1>3 DEF Blank
    <3>2. n.tables[c] = m.tables[c]
      BY <1>1, <1>3, <3>1
    <3> QED
      BY SMTT(30), <1>0, <1>3, <3>2 DEF Sound, TablesSound
  <2> QED
    BY <1>3, <2>1, <2>2 DEF Sound
<1>5. LostForGood(n)
  BY <1>0, <1>3, LostSame
<1>6. OnlyValid(n, n.used, a)
  BY <1>3 DEF OnlyValid
<1> QED
  BY <1>1, <1>3, <1>4, <1>5, <1>6 DEF UnitSound, TableSet, n

(* The tables an AddrSpace starts with.                                    *)
LEMMA NewTables ==
  /\ NewTable \in [Pages -> TableEntry] /\ Blank(NewTable)
  /\ \A table \in [Pages -> TableEntry] :
       ForkedTable(table) \in [Pages -> TableEntry] /\ Blank(ForkedTable(table))
<1>1. NewTable \in [Pages -> TableEntry]
  BY DEF NewTable, TableEntry
<1>2. \A v \in Pages : NewTable[v].valid = FALSE
  BY DEF NewTable
<1>3. ASSUME NEW table \in [Pages -> TableEntry]
      PROVE  ForkedTable(table) \in [Pages -> TableEntry] /\ Blank(ForkedTable(table))
  <2>1. ASSUME NEW v \in Pages
        PROVE  /\ ForkedTable(table)[v] \in TableEntry
               /\ ForkedTable(table)[v].valid => ForkedTable(table)[v].readOnly
    <3>1. CASE v \in Image
      <4>1. ForkedTable(table)[v] = [table[v] EXCEPT !.readOnly = TRUE]
        BY <3>1 DEF ForkedTable
      <4>2. table[v] \in TableEntry
        OBVIOUS
      <4> QED
        BY <4>1, <4>2 DEF TableEntry
    <3>2. CASE v \notin Image
      <4>1. ForkedTable(table)[v] = NewTable[v]
        BY <3>2 DEF ForkedTable
      <4> QED
        BY <1>1, <1>2, <4>1
    <3> QED
      BY <3>1, <3>2
  <2>2. ForkedTable(table) = [v \in Pages |-> ForkedTable(table)[v]]
    BY DEF ForkedTable
  <2> QED
    BY <2>1, <2>2 DEF Blank
<1> QED
  BY <1>1, <1>2, <1>3 DEF Blank

-----------------------------------------------------------------------------
(* The steps.  Those of the process on the processor bring the unit from a *)
(* sound state to a sound one, with the same page tables in place.         *)

(* The current process has an address space, and its page table is there.  *)
LEMMA CurrentSpace ==
  ASSUME VMInv
  PROVE  /\ space[current] \in Addresses /\ mmu.tables[space[current]] # NULL
         /\ current \in Processes /\ UnitSound(mmu)
         /\ OnlyValid(mmu, mmu.used, space[current])
BY DEF VMInv, VMTypeOK, OwnSpaces

LEMMA TouchBrought ==
  ASSUME NEW m, UnitSound(m), NEW a, OnlyValid(m, m.used, a),
         NEW v, Translate(m, v) # -1, NEW writing \in BOOLEAN,
         NEW n, n = Touch(m, Translate(m, v), writing)
  PROVE  /\ UnitSound(n) /\ OnlyValid(n, n.used, a) /\ n.tables = m.tables
         /\ n.tlb = m.tlb /\ m.tlb[Translate(m, v)].frame \in Frames
<1> DEFINE s == Translate(m, v)
<1>1. s \in Slots /\ m.tlb[s].valid
  BY TranslateIs
<1>2. m \in Unit
  BY DEF UnitSound, Sound
<1> HIDE DEF s
<1>3. /\ UnitSound(Touch(m, s, writing))
      /\ OnlyValid(Touch(m, s, writing), Touch(m, s, writing).used, a)
      /\ Touch(m, s, writing).tables = m.tables /\ Touch(m, s, writing).tlb = m.tlb
      /\ m.tlb[s].frame \in m.used
  BY <1>1, TouchSound
<1>4. m.tlb[s].frame \in Frames
  BY <1>2, <1>3, UnitFields
<1> QED
  BY <1>3, <1>4 DEF s

LEMMA FetchFaultKept ==
  ASSUME VMInv, NEW v \in Image, FetchFault(v)
  PROVE  Brought(mmu, mmu', space[current])
<1> DEFINE a == space[current]
<1>1. /\ a \in Addresses /\ mmu.tables[a] # NULL /\ current \in Processes
      /\ UnitSound(mmu) /\ OnlyValid(mmu, mmu.used, a) /\ v \in Pages
  BY CurrentSpace, Numbers
<1>2. Translate(mmu, v) = -1 /\ mmu' = PageFault(mmu, current, v)
  BY DEF FetchFault
<1>3. a = space[current]
  OBVIOUS
<1> HIDE DEF a
<1>4. Brought(mmu, PageFault(mmu, current, v), a)
  BY <1>1, <1>2, <1>3, PageFaultIs
<1> QED
  BY <1>2, <1>3, <1>4

LEMMA ExecuteKept ==
  ASSUME VMInv, NEW v \in Image, Execute(v)
  PROVE  Brought(mmu, mmu', space[current])
<1> DEFINE a == space[current]
<1>1. UnitSound(mmu) /\ OnlyValid(mmu, mmu.used, a)
  BY CurrentSpace
<1>2. Translate(mmu, v) # -1 /\ mmu' = Touch(mmu, Translate(mmu, v), FALSE)
  BY DEF Execute
<1> DEFINE no == FALSE
           n == Touch(mmu, Translate(mmu, v), no)
<1>3. no \in BOOLEAN
  OBVIOUS
<1>4. mmu' = n
  BY <1>2
<1>5. n = Touch(mmu, Translate(mmu, v), no)
  OBVIOUS
<1> HIDE DEF a, n, no
<1>6. UnitSound(n) /\ OnlyValid(n, n.used, a) /\ n.tables = mmu.tables
  BY <1>1, <1>2, <1>3, <1>5, TouchBrought
<1>7. Brought(mmu, n, a)
  BY <1>6 DEF Brought
<1> QED
  BY <1>4, <1>7 DEF a

LEMMA OperandKept ==
  ASSUME VMInv, NEW x \in Image, NEW y \in Pages, NEW writing \in BOOLEAN,
         Operand(x, y, writing)
  PROVE  Brought(mmu, mmu', space[current])
<1> DEFINE a == space[current]
           no == FALSE
           yes == TRUE
           m == Touch(mmu, Translate(mmu, x), no)
           s == Translate(m, y)
<1>1. /\ a \in Addresses /\ mmu.tables[a] # NULL /\ current \in Processes
      /\ UnitSound(mmu) /\ OnlyValid(mmu, mmu.used, a) /\ a = space[current]
  BY CurrentSpace
<1>2. /\ Translate(mmu, x) # -1
      /\ s = -1 => mmu' = PageFault(m, current, y)
      /\ s # -1 /\ writing =>
           mmu' = [Touch(m, s, yes) EXCEPT !.memory[m.tlb[s].frame] = Written(current, y)]
      /\ s # -1 /\ ~ writing => mmu' = Touch(m, s, no)
  BY DEF Operand
<1>3. no \in BOOLEAN /\ yes \in BOOLEAN
  OBVIOUS
<1>4. m = Touch(mmu, Translate(mmu, x), no) /\ s = Translate(m, y)
  OBVIOUS
<1> HIDE DEF a, no, yes, m, s
<1>5. UnitSound(m) /\ OnlyValid(m, m.used, a) /\ m.tables = mmu.tables
  BY <1>1, <1>2, <1>3, <1>4, TouchBrought
<1>6. \A n : Brought(m, n, a) => Brought(mmu, n, a)
  BY <1>5 DEF Brought
<1>7. CASE s = -1
  <2>1. Brought(m, PageFault(m, current, y), a)
    BY <1>1, <1>4, <1>5, <1>7, PageFaultIs
  <2> QED
    BY <1>1, <1>2, <1>6, <1>7, <2>1
<1>8. CASE s # -1 /\ ~ writing
  <2> DEFINE n == Touch(m, s, no)
  <2>1. Translate(m, y) # -1 /\ n = Touch(m, Translate(m, y), no)
    BY <1>4, <1>8
  <2> HIDE DEF n
  <2>2. UnitSound(n) /\ OnlyValid(n, n.used, a) /\ n.tables = m.tables
    BY <1>3, <1>5, <2>1, TouchBrought
  <2>3. Brought(m, n, a)
    BY <2>2 DEF Brought
  <2> QED
    BY <1>1, <1>2, <1>6, <1>8, <2>3 DEF n
<1>9. CASE s # -1 /\ writing
  <2> DEFINE n == Touch(m, s, yes)
             f == m.tlb[s].frame
             c == Written(current, y)
             w == Stored(n, f, c)
  <2>1. Translate(m, y) # -1 /\ n = Touch(m, Translate(m, y), yes)
    BY <1>4, <1>9
  <2>2. c \in Contents
    BY <1>1 DEF Written, Contents
  <2>3. mmu' = w
    BY <1>2, <1>9 DEF Stored
  <2>4. f = m.tlb[Translate(m, y)].frame
    BY <1>4
  <2> HIDE DEF n, f, c
  <2>5. UnitSound(n) /\ OnlyValid(n, n.used, a) /\ n.tables = m.tables /\ f \in Frames
    BY <1>3, <1>5, <2>1, <2>4, TouchBrought
  <2>7. Brought(n, w, a)
    BY <2>2, <2>5, MemoryChanged
  <2> HIDE DEF w
  <2>8. Brought(m, w, a)
    BY <2>5, <2>7 DEF Brought
  <2> QED
    BY <1>1, <1>6, <2>3, <2>8
<1> QED
  BY <1>7, <1>8, <1>9

(* Dispatching: the pages of the process that leaves are protected, those  *)
(* of the next are restored, and no page table moves.                      *)
LEMMA SwitchSound ==
  ASSUME NEW m, UnitSound(m), NEW a \in Addresses
  PROVE  /\ UnitSound(protectProcessPages(m, a)) /\ UnitSound(restoreProcessPages(m, a))
         /\ protectProcessPages(m, a).tables = m.tables
         /\ restoreProcessPages(m, a).tables = m.tables
<1>1. m \in Unit
  BY DEF UnitSound, Sound
<1> DEFINE no == FALSE
           yes == TRUE
<1>2. no \in BOOLEAN /\ yes \in BOOLEAN
  OBVIOUS
<1>3. /\ protectProcessPages(m, a) = SetValid(m, a, no)
      /\ restoreProcessPages(m, a) = SetValid(m, a, yes)
  BY DEF protectProcessPages, restoreProcessPages
<1> HIDE DEF no, yes
<1>4. UnitSound(SetValid(m, a, no)) /\ UnitSound(SetValid(m, a, yes))
  BY <1>2, SetValidSound
<1>5. ASSUME NEW b \in BOOLEAN
      PROVE  SetValid(m, a, b).tables = m.tables
  <2> DEFINE n == SetValid(m, a, b)
  <2>1. n = SetValid(m, a, b)
    OBVIOUS
  <2> HIDE DEF n
  <2>2. n.tables = m.tables
    BY <1>1, <2>1, SetValidFields
  <2> QED
    BY <2>1, <2>2
<1> QED
  BY <1>2, <1>3, <1>4, <1>5

LEMMA SavedIs ==
  ASSUME VMInv
  PROVE  /\ UnitSound(Saved) /\ OnlyValid(Saved, Saved.used, NULL)
         /\ Saved.tables = mmu.tables
<1> DEFINE a == space[current]
<1>1. a \in Addresses /\ UnitSound(mmu) /\ OnlyValid(mmu, mmu.used, a)
  BY CurrentSpace
<1>2. Saved = protectProcessPages(mmu, a)
  BY DEF Saved
<1> HIDE DEF a
<1> QED
  BY <1>1, <1>2, SwitchSound, ProtectIs

(* The states of a process whose address space exists.                     *)
Housed(state) == state \in {"fork", "alive", "finished"}

LEMMA OwnSpacesIs ==
  ASSUME VMInv
  PROVE  /\ life[current] = "alive"
         /\ doomed # NULL => doomed \in Processes /\ life[doomed] = "finished"
         /\ \A p \in Processes : Housed(life[p]) =>
              /\ space[p] \in Addresses /\ mmu.tables[space[p]] # NULL
              /\ \A r \in Processes \ {p} : Housed(life[r]) => space[r] # space[p]
BY DEF VMInv, VMTypeOK, OwnSpaces, Housed

(* What a step must keep, beside the type.                                 *)
StepKept ==
  /\ UnitSound(mmu') /\ OnlyValid(mmu', mmu'.used, space'[current'])
  /\ life'[current'] = "alive"
  /\ doomed' # NULL => life'[doomed'] = "finished"
  /\ \A p \in Processes : Housed(life'[p]) =>
       /\ space'[p] \in Addresses /\ mmu'.tables[space'[p]] # NULL
       /\ \A r \in Processes \ {p} : Housed(life'[r]) => space'[r] # space'[p]

(* A step of the process on the processor.                                 *)
LEMMA OwnStepKept ==
  ASSUME VMInv, Brought(mmu, mmu', space[current]),
         UNCHANGED <<life, space, current, doomed>>
  PROVE  StepKept
BY OwnSpacesIs DEF StepKept, Brought

LEMMA ExecKept ==
  ASSUME VMInv, NEW q \in Processes, ExecProcess(q)
  PROVE  StepKept
<1>1. /\ life[q] = "absent" /\ life' = [life EXCEPT ![q] = "exec"]
      /\ UNCHANGED <<mmu, space, current, doomed>>
  BY DEF ExecProcess
<1>2. life \in [Processes -> {"absent", "exec", "fork", "alive", "finished", "deleted"}]
  BY DEF VMInv, VMTypeOK
<1>3. current \in Processes /\ UnitSound(mmu) /\ OnlyValid(mmu, mmu.used, space[current])
  BY CurrentSpace
<1>4. \A p \in Processes : Housed(life'[p]) => Housed(life[p]) /\ life'[p] = life[p]
  BY <1>1, <1>2 DEF Housed
<1>5. life'[current] = "alive" /\ (doomed # NULL => life'[doomed] = "finished")
  BY <1>1, <1>2, <1>3, OwnSpacesIs
<1> QED
  BY <1>1, <1>3, <1>4, <1>5, OwnSpacesIs DEF StepKept

LEMMA ForkKept ==
  ASSUME VMInv, NEW q \in Processes, NEW a \in Addresses, ForkProcess(q, a)
  PROVE  StepKept
<1> DEFINE b == space[current]
           table == ForkedTable(mmu.tables[b])
<1>1. /\ life[q] = "absent" /\ life' = [life EXCEPT ![q] = "fork"]
      /\ space' = [space EXCEPT ![q] = a] /\ mmu.tables[a] = NULL
      /\ mmu' = WithTable(mmu, a, table)
      /\ current' = current /\ doomed' = doomed
  BY DEF ForkProcess, Free, WithTable
<1>2. /\ life \in [Processes -> {"absent", "exec", "fork", "alive", "finished", "deleted"}]
      /\ space \in [Processes -> Addresses \union {NULL}]
  BY DEF VMInv, VMTypeOK
<1>3. /\ current \in Processes /\ UnitSound(mmu) /\ OnlyValid(mmu, mmu.used, b)
      /\ b \in Addresses /\ mmu.tables[b] # NULL
  BY CurrentSpace
<1>4. mmu.tables[b] \in [Pages -> TableEntry]
  <2>1. mmu \in Unit
    BY <1>3 DEF UnitSound, Sound
  <2> QED
    BY <1>3, <2>1, UnitFields
<1>5. table \in [Pages -> TableEntry] /\ Blank(table) /\ table # NULL
  BY <1>4, NewTables, Numbers
<1>6. current # q /\ doomed # q
  BY <1>1, OwnSpacesIs, Numbers
<1> HIDE DEF table, b
<1>7. TableSet(mmu, mmu', b, a, table)
  BY <1>1, <1>3, <1>5, TableChanged
<1>8. /\ UnitSound(mmu') /\ OnlyValid(mmu', mmu'.used, b)
      /\ mmu'.tables[a] # NULL
      /\ \A c \in Addresses \ {a} : mmu'.tables[c] = mmu.tables[c]
  BY <1>5, <1>7 DEF TableSet
<1>9. \A p \in Processes \ {q} : life'[p] = life[p] /\ space'[p] = space[p]
  BY <1>1, <1>2
<1>10. space'[q] = a
  BY <1>1, <1>2
<1>11. \A p \in Processes \ {q} : Housed(life[p]) => space[p] \in Addresses \ {a}
  BY <1>1, OwnSpacesIs
<1>12. ASSUME NEW p \in Processes, Housed(life'[p])
       PROVE  /\ space'[p] \in Addresses /\ mmu'.tables[space'[p]] # NULL
              /\ \A r \in Processes \ {p} : Housed(life'[r]) => space'[r] # space'[p]
  <2>1. CASE p = q
    BY <1>8, <1>9, <1>10, <1>11, <2>1
  <2>2. CASE p # q
    BY <1>8, <1>9, <1>10, <1>11, <1>12, <2>2, OwnSpacesIs
  <2> QED
    BY <2>1, <2>2
<1>13. /\ life'[current'] = "alive" /\ space'[current'] = b
       /\ doomed' # NULL => life'[doomed'] = "finished"
  BY <1>1, <1>3, <1>6, <1>9, OwnSpacesIs DEF b
<1> QED
  BY <1>8, <1>12, <1>13 DEF StepKept

LEMMA RestoredIs ==
  ASSUME NEW m, UnitSound(m), OnlyValid(m, m.used, NULL), NEW a \in Addresses
  PROVE  Brought(m, restoreProcessPages(m, a), a)
BY SwitchSound, RestoreIs DEF Brought

(* The old process is saved, the thread that finished is deleted with its  *)
(* address space, and the next one finds its pages restored.               *)
LEMMA ResumeKept ==
  ASSUME VMInv, NEW q \in Processes, NEW ends \in BOOLEAN, Resume(q, ends)
  PROVE  StepKept
<1> DEFINE c == IF ends THEN current ELSE doomed
           b == space[c]
           m == Saved
           buried == IF c = NULL THEN m ELSE WithTable(m, b, NULL)
           a == space[q]
<1>1. /\ q # current /\ life[q] = "alive"
      /\ life' = [p \in Processes |-> IF p = c THEN "deleted" ELSE life[p]]
      /\ mmu' = restoreProcessPages(buried, a)
      /\ current' = q /\ doomed' = NULL /\ space' = space
  BY DEF Resume, WithTable
<1>2. UnitSound(m) /\ OnlyValid(m, m.used, NULL) /\ m.tables = mmu.tables
  BY SavedIs
<1>3. /\ c # NULL => c \in Processes /\ c # q /\ Housed(life[c])
      /\ c = NULL => \A p \in Processes : p # c
  BY <1>1, OwnSpacesIs, CurrentSpace, Numbers DEF Housed
<1>4. /\ a \in Addresses
      /\ c # NULL => b \in Addresses
  BY <1>1, <1>3, OwnSpacesIs DEF Housed
<1>5. a = space[q] /\ b = space[c] /\ (c = NULL => buried = m)
      /\ (c # NULL => buried = WithTable(m, b, NULL))
  OBVIOUS
<1> HIDE DEF a, b, c, m, buried
<1>6. /\ UnitSound(buried) /\ OnlyValid(buried, buried.used, NULL)
      /\ c = NULL => buried.tables = mmu.tables
      /\ c # NULL => \A d \in Addresses \ {b} : buried.tables[d] = mmu.tables[d]
  <2>1. CASE c = NULL
    BY <1>2, <1>5, <2>1
  <2>2. CASE c # NULL
    <3> DEFINE table == NULL
    <3>1. /\ table \in {NULL} \union [Pages -> TableEntry]
          /\ table # NULL => Blank(table)
          /\ buried = WithTable(m, b, table)
      BY <1>5, <2>2
    <3>2. b \in Addresses
      BY <1>4, <2>2
    <3> HIDE DEF table
    <3>3. TableSet(m, WithTable(m, b, table), NULL, b, table)
      BY <1>2, <3>1, <3>2, TableChanged
    <3> QED
      BY <1>2, <2>2, <3>1, <3>3 DEF TableSet
  <2> QED
    BY <2>1, <2>2
<1>7. Brought(buried, mmu', a)
  BY <1>1, <1>4, <1>6, RestoredIs
<1>8. UnitSound(mmu') /\ OnlyValid(mmu', mmu'.used, a) /\ mmu'.tables = buried.tables
  <2>1. mmu'.tables = buried.tables
    BY <1>1, <1>4, <1>6, SwitchSound
  <2> QED
    BY <1>7, <2>1 DEF Brought
<1>9. \A p \in Processes : Housed(life'[p]) => p # c /\ Housed(life[p]) /\ life'[p] = life[p]
  BY <1>1 DEF Housed
<1>10. life'[q] = "alive"
  BY <1>1, <1>3
<1>11. ASSUME NEW p \in Processes, Housed(life'[p])
       PROVE  /\ space[p] \in Addresses /\ mmu'.tables[space[p]] # NULL
              /\ \A r \in Processes \ {p} : Housed(life'[r]) => space[r] # space[p]
  <2>1. p # c /\ Housed(life[p])
    BY <1>9, <1>11
  <2>2. space[p] \in Addresses /\ mmu.tables[space[p]] # NULL
    BY <2>1, OwnSpacesIs
  <2>3. c # NULL => space[p] # b
    BY <1>3, <1>5, <2>1, OwnSpacesIs
  <2>4. mmu'.tables[space[p]] # NULL
    BY <1>6, <1>8, <2>2, <2>3
  <2> QED
    BY <1>9, <2>1, <2>2, <2>4, OwnSpacesIs
<1> QED
  BY <1>1, <1>5, <1>8, <1>10, <1>11 DEF StepKept

(* A new process gets the processor: its address space is made now or was  *)
(* made by Fork.  It deletes nobody.                                       *)
LEMMA StartKept ==
  ASSUME VMInv, NEW q \in Processes, NEW a \in Addresses, NEW ends \in BOOLEAN,
         Start(q, a, ends)
  PROVE  StepKept
<1> DEFINE m == Saved
           made == IF life[q] = "exec" THEN WithTable(m, a, NewTable) ELSE m
<1>1. /\ \/ life[q] = "exec" /\ mmu.tables[a] = NULL
         \/ life[q] = "fork" /\ a = space[q]
      /\ life' = [life EXCEPT ![q] = "alive",
                              ![current] = IF ends THEN "finished" ELSE @]
      /\ space' = [space EXCEPT ![q] = a]
      /\ mmu' = restoreProcessPages(made, a)
      /\ current' = q /\ doomed' = IF ends THEN current ELSE doomed
  BY DEF Start, Free, WithTable
<1>2. UnitSound(m) /\ OnlyValid(m, m.used, NULL) /\ m.tables = mmu.tables
  BY SavedIs
<1>3. /\ life \in [Processes -> {"absent", "exec", "fork", "alive", "finished", "deleted"}]
      /\ space \in [Processes -> Addresses \union {NULL}]
  BY DEF VMInv, VMTypeOK
<1>4. current \in Processes /\ current # q /\ doomed # q
  BY <1>1, OwnSpacesIs, CurrentSpace, Numbers
<1>5. /\ life[q] = "exec" => made = WithTable(m, a, NewTable)
      /\ life[q] # "exec" => made = m
  OBVIOUS
<1> HIDE DEF m, made
<1>6. /\ UnitSound(made) /\ OnlyValid(made, made.used, NULL)
      /\ made.tables[a] # NULL
      /\ \A d \in Addresses \ {a} : made.tables[d] = mmu.tables[d]
  <2>1. CASE life[q] = "exec"
    <3> DEFINE table == NewTable
    <3>1. /\ table \in {NULL} \union [Pages -> TableEntry]
          /\ table # NULL /\ Blank(table)
          /\ made = WithTable(m, a, table)
      BY <1>5, <2>1, NewTables, Numbers
    <3> HIDE DEF table
    <3>3. TableSet(m, WithTable(m, a, table), NULL, a, table)
      BY <1>2, <3>1, TableChanged
    <3> QED
      BY <1>2, <3>1, <3>3 DEF TableSet
  <2>2. CASE life[q] = "fork" /\ a = space[q]
    <3>1. mmu.tables[a] # NULL
      BY <2>2, OwnSpacesIs DEF Housed
    <3> QED
      BY <1>2, <1>5, <2>2, <3>1
  <2> QED
    BY <1>1, <2>1, <2>2
<1>7. Brought(made, mmu', a)
  BY <1>1, <1>6, RestoredIs
<1>8. UnitSound(mmu') /\ OnlyValid(mmu', mmu'.used, a) /\ mmu'.tables = made.tables
  <2>1. mmu'.tables = made.tables
    BY <1>1, <1>6, SwitchSound
  <2> QED
    BY <1>7, <2>1 DEF Brought
<1>9. /\ \A p \in Processes \ {q} : space'[p] = space[p]
      /\ space'[q] = a
      /\ \A p \in Processes \ {q, current} : life'[p] = life[p]
      /\ life'[q] = "alive"
      /\ life'[current] = IF ends THEN "finished" ELSE life[current]
  BY <1>1, <1>3, <1>4
<1>10. \A p \in Processes \ {q} : Housed(life'[p]) => Housed(life[p])
  BY <1>4, <1>9, OwnSpacesIs DEF Housed
<1>11. \A p \in Processes \ {q} : Housed(life[p]) => space[p] \in Addresses \ {a}
  BY <1>1, OwnSpacesIs DEF Housed
<1>12. ASSUME NEW p \in Processes, Housed(life'[p])
       PROVE  /\ space'[p] \in Addresses /\ mmu'.tables[space'[p]] # NULL
              /\ \A r \in Processes \ {p} : Housed(life'[r]) => space'[r] # space'[p]
  <2>1. CASE p = q
    BY <1>6, <1>8, <1>9, <1>10, <1>11, <2>1
  <2>2. CASE p # q
    <3>1. Housed(life[p]) /\ space'[p] = space[p] /\ space[p] \in Addresses \ {a}
      BY <1>9, <1>10, <1>11, <1>12, <2>2
    <3>2. mmu.tables[space[p]] # NULL
      BY <3>1, OwnSpacesIs
    <3>3. mmu'.tables[space'[p]] # NULL
      BY <1>6, <1>8, <3>1, <3>2
    <3>4. ASSUME NEW r \in Processes \ {p}, Housed(life'[r])
          PROVE  space'[r] # space'[p]
      <4>1. CASE r = q
        BY <1>9, <3>1, <4>1
      <4>2. CASE r # q
        BY <1>9, <1>10, <3>1, <3>4, <4>2, OwnSpacesIs
      <4> QED
        BY <4>1, <4>2
    <3> QED
      BY <3>1, <3>3, <3>4
  <2> QED
    BY <2>1, <2>2
<1>13. doomed' # NULL => life'[doomed'] = "finished"
  BY <1>1, <1>4, <1>9, OwnSpacesIs
<1> QED
  BY <1>1, <1>8, <1>9, <1>12, <1>13 DEF StepKept

-----------------------------------------------------------------------------
(* The theorems.                                                           *)

(* What is beside the MMU keeps its type.                                  *)
LEMMA TypeKept ==
  ASSUME VMInv, VMNext, mmu' \in Unit
  PROVE  VMTypeOK'
<1> DEFINE States == {"absent", "exec", "fork", "alive", "finished", "deleted"}
<1>1. /\ life \in [Processes -> States]
      /\ space \in [Processes -> Addresses \union {NULL}]
      /\ current \in Processes /\ doomed \in Processes \union {NULL}
      /\ fresh \subseteq Processes
      /\ expected \in [Processes -> [Pages -> Contents]]
      /\ handed \subseteq Addresses /\ reused \in BOOLEAN
  BY DEF VMInv, VMTypeOK
<1>2. ASSUME NEW x \in Image, FetchFault(x)
      PROVE  VMTypeOK'
  BY <1>1, <1>2 DEF FetchFault, VMTypeOK
<1>3. ASSUME NEW x \in Image, Execute(x)
      PROVE  VMTypeOK'
  BY <1>1, <1>3 DEF Execute, VMTypeOK
<1>4. ASSUME NEW x \in Image, NEW y \in Pages, NEW writing \in BOOLEAN,
             Operand(x, y, writing)
      PROVE  VMTypeOK'
  <2>1. /\ UNCHANGED <<life, space, current, doomed, handed, reused>>
        /\ fresh' \in {fresh, fresh \ {current}}
        /\ expected' \in {expected, [expected EXCEPT ![current][y] = Written(current, y)]}
    BY <1>4 DEF Operand
  <2>2. Written(current, y) \in Contents
    BY <1>1 DEF Written, Contents
  <2>3. expected' \in [Processes -> [Pages -> Contents]]
    <3> DEFINE c == Written(current, y)
               row == [expected[current] EXCEPT ![y] = c]
    <3>1. expected[current] \in [Pages -> Contents]
      BY <1>1
    <3>2. row \in [Pages -> Contents]
      BY <2>2, <3>1
    <3>3. [expected EXCEPT ![current][y] = c] = [expected EXCEPT ![current] = row]
      OBVIOUS
    <3>4. expected' = expected \/ expected' = [expected EXCEPT ![current] = row]
      BY <2>1, <3>3
    <3> HIDE DEF row
    <3> QED
      BY <1>1, <3>2, <3>4
  <2> QED
    BY <1>1, <2>1, <2>3 DEF VMTypeOK
<1>5. ASSUME NEW q \in Processes, ExecProcess(q)
      PROVE  VMTypeOK'
  BY <1>1, <1>5 DEF ExecProcess, VMTypeOK
<1>6. ASSUME NEW q \in Processes, NEW a \in Addresses, ForkProcess(q, a)
      PROVE  VMTypeOK'
  <2> DEFINE row == [v \in Pages |-> IF v \in Image THEN expected[current][v] ELSE Zero]
  <2>1. /\ life' = [life EXCEPT ![q] = "fork"] /\ space' = [space EXCEPT ![q] = a]
        /\ expected' = [expected EXCEPT ![q] = row]
        /\ fresh' = fresh \ {q} /\ current' = current /\ doomed' = doomed
        /\ handed' = handed \union {a} /\ reused' = (reused \/ a \in handed)
    BY <1>6 DEF ForkProcess, Hand
  <2>2. row \in [Pages -> Contents]
    <3>1. expected[current] \in [Pages -> Contents] /\ Zero \in Contents
      BY <1>1 DEF Contents
    <3> QED
      BY <3>1
  <2> HIDE DEF row
  <2> QED
    BY <1>1, <2>1, <2>2 DEF VMTypeOK
<1>7. ASSUME NEW q \in Processes, NEW ends \in BOOLEAN, Resume(q, ends)
      PROVE  VMTypeOK'
  <2> DEFINE c == IF ends THEN current ELSE doomed
  <2>1. /\ life' = [p \in Processes |-> IF p = c THEN "deleted" ELSE life[p]]
        /\ current' = q /\ doomed' = NULL
        /\ UNCHANGED <<space, fresh, expected, handed, reused>>
    BY <1>7 DEF Resume
  <2> HIDE DEF c
  <2>2. life' \in [Processes -> States]
    BY <1>1, <2>1
  <2> QED
    BY <1>1, <2>1, <2>2 DEF VMTypeOK
<1>8. ASSUME NEW q \in Processes, NEW a \in Addresses, NEW ends \in BOOLEAN,
             Start(q, a, ends)
      PROVE  VMTypeOK'
  <2>1. /\ life' = [life EXCEPT ![q] = "alive",
                                ![current] = IF ends THEN "finished" ELSE @]
        /\ space' = [space EXCEPT ![q] = a] /\ current' = q
        /\ doomed' = IF ends THEN current ELSE doomed
        /\ fresh' = fresh /\ expected' = expected
        /\ handed' \in {handed, handed \union {a}} /\ reused' \in BOOLEAN
    BY <1>1, <1>8 DEF Start, Hand
  <2>2. life' \in [Processes -> States]
    BY <1>1, <2>1
  <2> QED
    BY <1>1, <2>1, <2>2 DEF VMTypeOK
<1> QED
  BY <1>2, <1>3, <1>4, <1>5, <1>6, <1>7, <1>8 DEF VMNext

LEMMA InvInit ==
  ASSUME VMInit
  PROVE  VMInv
<1>1. PICK a \in Addresses :
        /\ mmu = [ipt |-> [i \in Entries |-> EmptyEntry],
                  tlb |-> [s \in Slots |-> NoTranslation],
                  used |-> {}, taken |-> {}, order |-> <<>>,
                  memory |-> [f \in Frames |-> Zero],
                  tables |-> [b \in Addresses |-> IF b = a THEN NewTable ELSE NULL],
                  wild |-> FALSE]
        /\ space = [p \in Processes |-> IF p = Main THEN a ELSE NULL]
        /\ handed = {a}
  BY DEF VMInit
<1>2. /\ life = [p \in Processes |-> IF p = Main THEN "alive" ELSE "absent"]
      /\ current = Main /\ doomed = NULL /\ fresh = Processes /\ reused = FALSE
      /\ expected = [p \in Processes |-> [v \in Pages |-> FromFile(p, v)]]
  BY DEF VMInit
<1>3. /\ mmu.ipt = [i \in Entries |-> EmptyEntry]
      /\ mmu.tlb = [s \in Slots |-> NoTranslation]
      /\ mmu.used = {} /\ mmu.taken = {} /\ mmu.order = <<>>
      /\ mmu.memory = [f \in Frames |-> Zero] /\ mmu.wild = FALSE
      /\ mmu.tables = [b \in Addresses |-> IF b = a THEN NewTable ELSE NULL]
  BY <1>1
<1>4. mmu \in Unit
  <2>1. EmptyEntry \in Entry
    BY DEF EmptyEntry, Entry
  <2>2. NoTranslation \in Translation /\ NoTranslation.valid = FALSE
    BY DEF NoTranslation, Translation
  <2>3. Zero \in Contents
    BY DEF Contents
  <2>4. NewTable \in [Pages -> TableEntry]
    BY NewTables
  <2>5. /\ mmu.ipt \in [Entries -> Entry] /\ mmu.tlb \in [Slots -> Translation]
        /\ mmu.memory \in [Frames -> Contents] /\ mmu.wild \in BOOLEAN
        /\ mmu.tables \in [Addresses -> {NULL} \union [Pages -> TableEntry]]
        /\ mmu.used \in SUBSET Frames /\ mmu.taken \in SUBSET Slots
        /\ mmu.order \in Seq(Frames)
    <3>1. mmu.ipt \in [Entries -> Entry] /\ mmu.tlb \in [Slots -> Translation]
      BY <1>3, <2>1, <2>2
    <3>2. mmu.memory \in [Frames -> Contents] /\ mmu.wild \in BOOLEAN
      BY <1>3, <2>3
    <3>3. mmu.tables \in [Addresses -> {NULL} \union [Pages -> TableEntry]]
      BY <1>3, <2>4
    <3>4. mmu.order \in Seq(Frames)
      BY <1>3
    <3> QED
      BY <1>3, <3>1, <3>2, <3>3, <3>4
  <2>6. mmu = [ipt |-> mmu.ipt, tlb |-> mmu.tlb, used |-> mmu.used,
               taken |-> mmu.taken, order |-> mmu.order, memory |-> mmu.memory,
               tables |-> mmu.tables, wild |-> mmu.wild]
    BY <1>1, <1>3
  <2> QED
    BY <2>5, <2>6, Zenon DEF Unit
<1>5. EntriesSound(mmu, mmu.used)
  BY <1>3 DEF EntriesSound
<1>6. SlotsSound(mmu, mmu.used)
  BY <1>3 DEF SlotsSound, NoTranslation
<1>7. OrderSound(mmu, mmu.used)
  BY <1>3 DEF OrderSound
<1>8. TablesSound(mmu, mmu.used)
  BY <1>3 DEF TablesSound, NewTable
<1>9. LostForGood(mmu) /\ OnlyValid(mmu, mmu.used, space[current])
  BY <1>3 DEF LostForGood, OnlyValid
<1>10. VMTypeOK
  <2>1. \A p \in Processes, v \in Pages : FromFile(p, v) \in Contents
    BY DEF FromFile, Contents
  <2>2. expected \in [Processes -> [Pages -> Contents]]
    BY <1>2, <2>1
  <2> QED
    BY <1>1, <1>2, <1>4, <2>2, Numbers DEF VMTypeOK
<1>11. OwnSpaces
  <2>1. mmu.tables[a] # NULL
    BY <1>3, NewTables, Numbers
  <2> QED
    BY <1>1, <1>2, <2>1, Numbers DEF OwnSpaces
<1> QED
  BY <1>4, <1>5, <1>6, <1>7, <1>8, <1>9, <1>10, <1>11 DEF VMInv, UnitSound, Sound

LEMMA InvNext ==
  ASSUME VMInv, [VMNext]_vmVars
  PROVE  VMInv'
<1>1. ASSUME VMNext, StepKept
      PROVE  VMInv'
  <2>1. mmu' \in Unit
    BY <1>1 DEF StepKept, UnitSound, Sound
  <2>2. VMTypeOK'
    BY <1>1, <2>1, TypeKept
  <2>3. OwnSpaces'
    BY <1>1 DEF StepKept, OwnSpaces, Housed
  <2> QED
    BY <1>1, <2>2, <2>3 DEF VMInv, StepKept
<1>2. ASSUME NEW x \in Image, FetchFault(x) \/ Execute(x)
      PROVE  VMInv'
  <2>1. Brought(mmu, mmu', space[current])
    BY <1>2, FetchFaultKept, ExecuteKept
  <2>2. UNCHANGED <<life, space, current, doomed>>
    BY <1>2 DEF FetchFault, Execute
  <2>3. VMNext
    BY <1>2 DEF VMNext
  <2> QED
    BY <1>1, <2>1, <2>2, <2>3, OwnStepKept
<1>3. ASSUME NEW x \in Image, NEW y \in Pages, NEW writing \in BOOLEAN,
             Operand(x, y, writing)
      PROVE  VMInv'
  <2>1. Brought(mmu, mmu', space[current])
    BY <1>3, OperandKept
  <2>2. UNCHANGED <<life, space, current, doomed>>
    BY <1>3 DEF Operand
  <2>3. VMNext
    BY <1>3 DEF VMNext
  <2> QED
    BY <1>1, <2>1, <2>2, <2>3, OwnStepKept
<1>4. ASSUME NEW q \in Processes, ExecProcess(q)
      PROVE  VMInv'
  BY <1>1, <1>4, ExecKept DEF VMNext
<1>5. ASSUME NEW q \in Processes, NEW a \in Addresses, ForkProcess(q, a)
      PROVE  VMInv'
  BY <1>1, <1>5, ForkKept DEF VMNext
<1>6. ASSUME NEW q \in Processes, NEW ends \in BOOLEAN, Resume(q, ends)
      PROVE  VMInv'
  BY <1>1, <1>6, ResumeKept DEF VMNext
<1>7. ASSUME NEW q \in Processes, NEW a \in Addresses, NEW ends \in BOOLEAN,
             Start(q, a, ends)
      PROVE  VMInv'
  BY <1>1, <1>7, StartKept DEF VMNext
<1>8. CASE UNCHANGED vmVars
  BY <1>8 DEF vmVars, VMInv, VMTypeOK, OwnSpaces
<1> QED
  BY <1>2, <1>3, <1>4, <1>5, <1>6, <1>7, <1>8 DEF VMNext

LEMMA InvHolds == VMSpec => []VMInv
<1> QED
  BY InvInit, InvNext, PTL DEF VMSpec

(* Every variable keeps its type: no method leaves an index outside the    *)
(* inverted page table, the TLB or a page table, whatever was evicted.     *)
THEOREM VMTypeCorrect == VMSpec => []VMTypeOK
<1>1. VMInv => VMTypeOK
  BY DEF VMInv
<1> QED
  BY <1>1, InvHolds, PTL

(* A page table, the inverted page table and the map of free frames always *)
(* agree: a page marked valid is in the frame its table names, and a frame *)
(* is taken exactly when it has an owner.                                  *)
THEOREM TablesAgreeHolds == VMSpec => []TablesAgree
<1>1. ASSUME VMInv
      PROVE  TablesAgree
  <2>1. /\ mmu \in Unit /\ mmu.used \subseteq Frames
        /\ EntriesSound(mmu, mmu.used) /\ TablesSound(mmu, mmu.used)
    BY <1>1, UnitFields DEF VMInv, UnitSound, Sound
  <2>2. \A f \in Frames : f \in mmu.used <=> mmu.ipt[f].space # NULL
    BY <2>1, Numbers DEF EntriesSound, EmptyEntry
  <2> QED
    BY SMTT(30), <2>1, <2>2 DEF TablesAgree, TablesSound
<1> QED
  BY <1>1, InvHolds, PTL

(* After any switch of processes the TLB translates pages of the process   *)
(* on the processor only, and each to the frame that holds it.             *)
THEOREM OnlyOwnTranslationsHolds == VMSpec => []OnlyOwnTranslations
<1>1. ASSUME VMInv
      PROVE  OnlyOwnTranslations
  <2>1. /\ mmu \in Unit /\ SlotsSound(mmu, mmu.used)
        /\ OnlyValid(mmu, mmu.used, space[current])
    BY <1>1 DEF VMInv, UnitSound, Sound
  <2>2. ASSUME NEW s \in Slots, mmu.tlb[s].valid
        PROVE  LET e == mmu.ipt[mmu.tlb[s].frame] IN
               e.space = space[current] /\ e.page = mmu.tlb[s].page /\ e.valid
    <3> DEFINE f == mmu.tlb[s].frame
    <3>1. f \in mmu.used /\ mmu.ipt[f].slot = s
      BY <2>1, <2>2 DEF SlotsSound
    <3>2. mmu.ipt[f].slot # -1
      BY <3>1, Numbers
    <3>3. mmu.tlb[s] = [page |-> mmu.ipt[f].page, frame |-> f, valid |-> mmu.ipt[f].valid]
      BY <2>1, <3>1, <3>2 DEF SlotsSound
    <3>4. mmu.ipt[f].page = mmu.tlb[s].page /\ mmu.ipt[f].valid
      BY <2>2, <3>3
    <3> QED
      BY <2>1, <3>1, <3>4 DEF OnlyValid
  <2> QED
    BY <2>2 DEF OnlyOwnTranslations
<1> QED
  BY <1>1, InvHolds, PTL

-----------------------------------------------------------------------------
(* What a process finds in its pages.                                      *)
(* The scan for the least recently used entry covers entries past the      *)
(* memory, which nothing accesses: a frame is evicted only if nothing has  *)
(* accessed it either, so what a process wrote is never evicted, and what  *)
(* is evicted is as it came from the executable.                           *)

(* The page table at a was copied for a forked child.                      *)
ForkedAt(m, a) == m.tables[a][0].readOnly

NothingDirty(m) ==
  /\ \A b \in Addresses, v \in Pages : m.tables[b] # NULL => ~ m.tables[b][v].dirty
  /\ \A f \in m.used : Rank(m, f) = 0 => ~ m.ipt[f].dirty

(* Every page in memory is where the page table of its owner says, unless  *)
(* the owner is gone, so it is in one frame.                               *)
OneFrame(m) ==
  \A f \in m.used : m.tables[m.ipt[f].space] # NULL =>
    /\ ~ ForkedAt(m, m.ipt[f].space)
    /\ m.tables[m.ipt[f].space][m.ipt[f].page].valid
    /\ m.tables[m.ipt[f].space][m.ipt[f].page].frame = f

ForkedWhole(m) ==
  \A b \in Addresses, v \in Image :
    m.tables[b] # NULL => (m.tables[b][v].readOnly <=> ForkedAt(m, b))

Cleared(m) == \A f \in Frames \ m.used : m.memory[f] = Zero

(* Each frame holds what its owner expects, of the processes with spaces S *)
(* that expect E.                                                          *)
Held(m, S, E) ==
  \A p \in Processes, f \in m.used :
    m.ipt[f].space = S[p] => m.memory[f] = E[p][m.ipt[f].page]

(* Page v of the space at a is in memory and has been accessed.            *)
InUse(m, a, v) ==
  \E f \in m.used : m.ipt[f].space = a /\ m.ipt[f].page = v /\ Rank(m, f) # 0

(* A process that expects anything but its executable has the page in      *)
(* memory for good; L is the life of the processes.                        *)
Lasting(m, S, L, E) ==
  \A p \in Processes, v \in Pages :
    /\ L[p] # "deleted"
    /\ S[p] # NULL => ~ ForkedAt(m, S[p])
    => E[p][v] = FromFile(p, v) \/ InUse(m, S[p], v)

ContentsSound(m, S, L, E) ==
  /\ NothingDirty(m) /\ OneFrame(m) /\ ForkedWhole(m) /\ Cleared(m)
  /\ Held(m, S, E) /\ Lasting(m, S, L, E)

(* The heap has handed out each address once.                              *)
SpacesOnce ==
  /\ \A f \in mmu.used : mmu.ipt[f].space \in handed
  /\ \A p \in Processes :
       /\ life[p] \in {"absent", "exec"} => space[p] = NULL
       /\ space[p] # NULL => space[p] \in handed
       /\ \A r \in Processes \ {p} : space[p] # NULL => space[r] # space[p]

ContentsInv == ~ reused => SpacesOnce /\ ContentsSound(mmu, space, life, expected)

(* The processes that are not deleted have page tables in m.               *)
Homes(m, S, L) ==
  \A p \in Processes : S[p] # NULL /\ L[p] # "deleted" =>
    S[p] \in Addresses /\ m.tables[S[p]] # NULL

(* n differs from m at most in what is valid and in what was accessed.     *)
Alike(m, n) ==
  /\ n.used = m.used /\ n.memory = m.memory /\ n.tables = m.tables
  /\ \A f \in m.used :
       /\ n.ipt[f].page = m.ipt[f].page /\ n.ipt[f].space = m.ipt[f].space
       /\ Rank(n, f) = 0 => Rank(m, f) = 0 /\ n.ipt[f].dirty = m.ipt[f].dirty

(* What the end of a process does to L.                                    *)
Fewer(L, M) == \A p \in Processes : M[p] # "deleted" => L[p] # "deleted"

LEMMA AlikeKeeps ==
  ASSUME NEW m, NEW n, Alike(m, n), NEW S, NEW L, NEW M, Fewer(L, M), NEW E,
         ContentsSound(m, S, L, E)
  PROVE  ContentsSound(n, S, M, E)
<1>1. NothingDirty(n) /\ Cleared(n)
  BY DEF Alike, ContentsSound, NothingDirty, Cleared
<1>2. OneFrame(n)
  <2> SUFFICES ASSUME NEW f \in n.used, n.tables[n.ipt[f].space] # NULL
               PROVE  /\ ~ ForkedAt(n, n.ipt[f].space)
                      /\ n.tables[n.ipt[f].space][n.ipt[f].page].valid
                      /\ n.tables[n.ipt[f].space][n.ipt[f].page].frame = f
    BY DEF OneFrame
  <2> DEFINE a == m.ipt[f].space
             v == m.ipt[f].page
  <2>1. /\ f \in m.used /\ n.ipt[f].space = a /\ n.ipt[f].page = v
        /\ n.tables = m.tables /\ (ForkedAt(n, a) <=> ForkedAt(m, a))
    BY DEF Alike, ForkedAt
  <2>2. ~ ForkedAt(m, a) /\ m.tables[a][v].valid /\ m.tables[a][v].frame = f
    BY <2>1 DEF ContentsSound, OneFrame
  <2> QED
    BY <2>1, <2>2
<1>w. ForkedWhole(n)
  BY DEF Alike, ContentsSound, ForkedWhole, ForkedAt
<1>3. Held(n, S, E)
  BY DEF Alike, ContentsSound, Held
<1>4. Lasting(n, S, M, E)
  <2>1. \A a, v : InUse(m, a, v) => InUse(n, a, v)
    BY DEF Alike, InUse
  <2>2. \A a : ForkedAt(n, a) <=> ForkedAt(m, a)
    BY DEF Alike, ForkedAt
  <2> QED
    BY <2>1, <2>2 DEF Fewer, ContentsSound, Lasting
<1> QED
  BY <1>1, <1>2, <1>w, <1>3, <1>4 DEF ContentsSound

(* Only frames in use have been accessed.                                  *)
LEMMA RankUsed ==
  ASSUME NEW m, Sound(m, m.used), NEW f, f \notin m.used
  PROVE  Rank(m, f) = 0
<1>1. m \in Unit /\ ~ Lists(m.order, f)
  BY DEF Sound, OrderSound, Lists
<1> QED
  BY <1>1, RankIs

(* What findFreeFrame makes of the contents when it finds frame f, empty   *)
(* or never accessed.                                                      *)
Vacant(m, n, f) ==
  /\ n.used = m.used \union {f}
  /\ \A g \in m.used \ {f} : n.ipt[g] = m.ipt[g]
  /\ n.ipt[f].dirty = FALSE
  /\ Rank(m, f) = 0 /\ \A g : Rank(n, g) = 0 <=> Rank(m, g) = 0
  /\ \A g \in Frames \ {f} : n.memory[g] = m.memory[g]
  /\ n.memory[f] = IF f \in m.used THEN Zero ELSE m.memory[f]
  /\ \A b \in Addresses : n.tables[b] = NULL <=> m.tables[b] = NULL
  /\ \A b \in Addresses, w \in Pages : m.tables[b] # NULL =>
       IF f \in m.used /\ b = m.ipt[f].space /\ w = m.ipt[f].page
       THEN /\ ~ n.tables[b][w].valid
            /\ n.tables[b][w].dirty = m.ipt[f].dirty
            /\ n.tables[b][w].readOnly = m.tables[b][w].readOnly
       ELSE n.tables[b][w] = m.tables[b][w]

LEMMA VacantIs ==
  ASSUME IptLength > NumFrames,
         NEW m, UnitSound(m), NEW a, OnlyValid(m, m.used, a)
  PROVE  /\ findFreeFrame(m).at = -1 => Alike(m, findFreeFrame(m).mmu)
         /\ findFreeFrame(m).at # -1 =>
              Vacant(m, findFreeFrame(m).mmu, findFreeFrame(m).at)
<1>0. m \in Unit /\ Sound(m, m.used) /\ m.used \subseteq Frames
  BY UnitFields DEF UnitSound, Sound
<1>1. CASE ~ (Frames \subseteq m.used)
  <2> DEFINE f == FirstClear(m.used, Frames)
  <2>1. f \in Frames \ m.used /\ f # -1
    <3>1. Frames \in SUBSET Nat
      BY Numbers
    <3> QED
      BY <1>1, <3>1, FirstClearIs, Numbers
  <2>2. findFreeFrame(m) = [mmu |-> [m EXCEPT !.used = @ \union ({f} \ {-1})], at |-> f]
    BY <2>1 DEF findFreeFrame
  <2> HIDE DEF f
  <2>3. findFreeFrame(m).mmu = MarkFrame(m, f) /\ findFreeFrame(m).at = f
    <3>1. {f} \ {-1} = {f}
      BY <2>1
    <3> QED
      BY <2>2, <3>1 DEF MarkFrame
  <2> DEFINE n == MarkFrame(m, f)
  <2>4. /\ n.used = m.used \union {f} /\ n.ipt = m.ipt /\ n.order = m.order
        /\ n.memory = m.memory /\ n.tables = m.tables
    BY <1>0, <2>1, MarkFrameFields
  <2>5. m.ipt[f].dirty = FALSE
    <3>1. m.ipt[f] = EmptyEntry
      BY <1>0, <2>1, Numbers DEF Sound, EntriesSound
    <3> QED
      BY <3>1, EmptyFields
  <2>6. Rank(m, f) = 0
    BY <1>0, <2>1, RankUsed
  <2> HIDE DEF n
  <2>7. \A g : Rank(n, g) = Rank(m, g)
    BY <2>4 DEF Rank
  <2>8. Vacant(m, n, f)
    BY <2>1, <2>4, <2>5, <2>6, <2>7 DEF Vacant
  <2> QED
    BY <2>1, <2>3, <2>8 DEF n
<1>2. CASE Frames \subseteq m.used
  <2> DEFINE e == findLeastRecentlyUsed(m)
  <2>1. m.used = Frames /\ FirstClear(m.used, Frames) = -1
    <3>1. Frames \in SUBSET Nat /\ m.used = Frames
      BY <1>0, <1>2, Numbers
    <3> QED
      BY <1>2, <3>1, FirstClearIs
  <2>2. /\ e \in Entries
        /\ \A g \in Entries : Rank(m, e) < Rank(m, g) \/ (Rank(m, e) = Rank(m, g) /\ e <= g)
    <3>1. Entries \in SUBSET Nat /\ Entries # {}
      BY Numbers
    <3> QED
      BY <1>0, <3>1, LeastRecentIs DEF findLeastRecentlyUsed
  <2>3. Rank(m, e) = 0
    <3>1. NumFrames \in Entries /\ NumFrames \notin Frames
      BY MemoryAssumption DEF Entries, Frames
    <3>2. Rank(m, NumFrames) = 0
      BY <1>0, <2>1, <3>1, RankUsed
    <3>3. Rank(m, e) \in Nat
      BY <1>0, RankIs
    <3> HIDE DEF e
    <3> QED
      BY <2>2, <3>1, <3>2, <3>3
  <2>4. CASE e \notin Frames
    <3> DEFINE n == [m EXCEPT !.wild = TRUE]
    <3>1. evictPage(m) = n
      BY <2>4 DEF evictPage
    <3>2. /\ n \in Unit /\ n.used = m.used /\ n.ipt = m.ipt /\ n.memory = m.memory
          /\ n.order = m.order /\ n.tables = m.tables
      BY <1>0 DEF Unit
    <3> HIDE DEF n, e
    <3>3. FirstClear(n.used, Frames) = -1
      BY <2>1, <3>2
    <3>4. /\ findFreeFrame(m).mmu = [n EXCEPT !.used = n.used]
          /\ findFreeFrame(m).at = -1
      BY <2>1, <3>1, <3>3 DEF findFreeFrame
    <3>5. [n EXCEPT !.used = n.used] = n
      BY <3>2 DEF Unit
    <3>6. \A g : Rank(n, g) = Rank(m, g)
      BY <3>2 DEF Rank
    <3> QED
      BY <3>2, <3>4, <3>5, <3>6 DEF Alike
  <2>5. CASE e \in Frames
    <3> DEFINE k == m.ipt[e].slot
               q == [invalidateInvPageTableEntry(invalidateTLBEntry(m, k), e)
                       EXCEPT !.memory[e] = Zero]
               n == MarkFrame(q, e)
    <3>1. evictPage(m) = q
      BY <2>5 DEF evictPage
    <3>2. Freed(m, q, e)
      <4>1. k = m.ipt[e].slot /\ e \in m.used
        BY <2>1, <2>5
      <4>2. q = [invalidateInvPageTableEntry(invalidateTLBEntry(m, k), e)
                   EXCEPT !.memory[e] = Zero]
        OBVIOUS
      <4> HIDE DEF k, q, e
      <4> QED
        BY <4>1, <4>2, EvictedFields
    <3> HIDE DEF q, e
    <3>3. FirstClear(q.used, Frames) = e /\ e # -1
      <4>1. q.used = Frames \ {e}
        BY <2>1, <3>2 DEF Freed
      <4>2. FirstClear(q.used, Frames) \in Frames \ q.used
        <5> DEFINE bits == q.used
        <5>1. Frames \in SUBSET Nat
          BY Numbers
        <5>2. ~ (Frames \subseteq bits)
          BY <2>5, <4>1
        <5> HIDE DEF bits
        <5>3. FirstClear(bits, Frames) \in Frames \ bits
          BY <5>1, <5>2, FirstClearIs
        <5> QED
          BY <5>3 DEF bits
      <4> QED
        BY <2>5, <4>1, <4>2, Numbers
    <3>4. findFreeFrame(m).mmu = n /\ findFreeFrame(m).at = e
      <4>1. {e} \ {-1} = {e}
        BY <3>3
      <4> QED
        BY <2>1, <3>1, <3>3, <4>1 DEF findFreeFrame, MarkFrame
    <3>5. /\ n.used = q.used \union {e} /\ n.ipt = q.ipt /\ n.order = q.order
          /\ n.memory = q.memory /\ n.tables = q.tables
      BY <2>5, <3>2, MarkFrameFields DEF Freed
    <3>6. \A g : Rank(n, g) = 0 <=> Rank(m, g) = 0
      <4>1. Evicted(m, n, e, a)
        BY <2>1, <2>5, <3>2, EvictedSound
      <4> QED
        BY <2>3, <4>1 DEF Evicted
    <3>7. n.ipt[e].dirty = FALSE
      <4>1. m.ipt[e].slot \in Slots \union {-1} /\ n.ipt[e] = Emptied(m.ipt[e].slot)
        BY <1>0, <2>5, <3>2, <3>5, UnitFields DEF Freed
      <4> QED
        BY ZenonT(30), <4>1, EmptiedFields
    <3>8. /\ \A g \in Frames \ {e} : n.memory[g] = m.memory[g]
          /\ n.memory[e] = Zero
      BY <1>0, <2>5, <3>2, <3>5, UnitFields DEF Freed
    <3>9. \A g \in m.used \ {e} : n.ipt[g] = m.ipt[g]
      BY <1>0, <3>2, <3>5, Numbers DEF Freed
    <3>10. /\ \A b \in Addresses : n.tables[b] = NULL <=> m.tables[b] = NULL
           /\ \A b \in Addresses, w \in Pages : m.tables[b] # NULL =>
                IF b = m.ipt[e].space /\ w = m.ipt[e].page
                THEN /\ ~ n.tables[b][w].valid
                     /\ n.tables[b][w].dirty = m.ipt[e].dirty
                     /\ n.tables[b][w].readOnly = m.tables[b][w].readOnly
                ELSE n.tables[b][w] = m.tables[b][w]
      BY <3>2, <3>5 DEF Freed
    <3>11. n.used = m.used \union {e} /\ e \in m.used
      BY <2>1, <2>5, <3>2, <3>5 DEF Freed
    <3> HIDE DEF n
    <3>12. Vacant(m, n, e)
      BY <2>3, <3>6, <3>7, <3>8, <3>9, <3>10, <3>11 DEF Vacant
    <3> QED
      BY <3>3, <3>4, <3>12
  <2> QED
    BY <2>4, <2>5
<1> QED
  BY <1>1, <1>2

LEMMA LoadPageMemory ==
  ASSUME NEW m \in Unit, NEW p \in Processes, NEW v \in Pages, NEW f \in Frames
  PROVE  /\ \A g \in Frames \ {f} : loadPageToMemory(m, p, v, f).memory[g] = m.memory[g]
         /\ loadPageToMemory(m, p, v, f).memory[f] =
              IF v \in Image THEN FromFile(p, v) ELSE m.memory[f]
<1> DEFINE c == FromFile(p, v)
           n == loadPageToMemory(m, p, v, f)
<1>1. CASE v \in Image
  <2>1. n = [m EXCEPT !.memory[f] = c]
    BY <1>1 DEF loadPageToMemory
  <2>2. m.memory \in [Frames -> Contents]
    BY UnitFields
  <2> HIDE DEF c, n
  <2>3. n.memory = [m.memory EXCEPT ![f] = c]
    BY <2>1 DEF Unit
  <2>4. n.memory[f] = c /\ \A g \in Frames \ {f} : n.memory[g] = m.memory[g]
    BY <2>2, <2>3
  <2> QED
    BY <1>1, <2>4 DEF n, c
<1>2. CASE v \notin Image
  BY <1>2 DEF loadPageToMemory
<1> QED
  BY <1>1, <1>2

(* What a page fault makes of the contents when it brings page v of the    *)
(* space at a into frame f, with contents c.                               *)
PagedIn(m, w, a, v, f, c) ==
  /\ w.used = m.used \union {f} /\ w.memory[f] = c
  /\ \A g \in m.used \ {f} :
       /\ w.ipt[g].page = m.ipt[g].page /\ w.ipt[g].space = m.ipt[g].space
       /\ w.ipt[g].dirty = m.ipt[g].dirty
  /\ w.ipt[f].page = v /\ w.ipt[f].space = a /\ w.ipt[f].dirty = FALSE
  /\ Rank(m, f) = 0 /\ \A g : Rank(w, g) = 0 <=> Rank(m, g) = 0
  /\ \A g \in Frames \ {f} : w.memory[g] = m.memory[g]
  /\ \A b \in Addresses : w.tables[b] = NULL <=> m.tables[b] = NULL
  /\ w.tables[a][v].valid /\ w.tables[a][v].frame = f
  /\ w.tables[a][v].dirty = m.tables[a][v].dirty
  /\ \A b \in Addresses, u \in Pages : m.tables[b] # NULL =>
       w.tables[b][u].readOnly = m.tables[b][u].readOnly
  /\ \A b \in Addresses, u \in Pages : m.tables[b] # NULL /\ ~ (b = a /\ u = v) =>
       IF f \in m.used /\ b = m.ipt[f].space /\ u = m.ipt[f].page
       THEN w.tables[b][u].dirty = m.ipt[f].dirty
       ELSE w.tables[b][u] = m.tables[b][u]

LEMMA LoadedContents ==
  ASSUME IptLength > NumFrames,
         NEW m, UnitSound(m), NEW a \in Addresses, OnlyValid(m, m.used, a),
         m.tables[a] # NULL, Cleared(m),
         NEW p \in Processes, a = space[p], NEW v \in Pages,
         NEW w, w = loadFromExecutableToMemory(m, p, v)
  PROVE  Alike(m, w) \/ \E f \in Frames : PagedIn(m, w, a, v, f, FromFile(p, v))
<1> DEFINE f == findFreeFrame(m).at
           n == findFreeFrame(m).mmu
           x == findFreeTLBEntry(n).mmu
           s == findFreeTLBEntry(n).at
           r == loadPageToMemory(x, p, v, f)
           d == m.tables[a][v].dirty
<1>0. m \in Unit /\ m.used \subseteq Frames /\ d \in BOOLEAN
  <2>1. m \in Unit
    BY DEF UnitSound, Sound
  <2>2. m.tables[a] \in [Pages -> TableEntry]
    BY <2>1, UnitFields
  <2> QED
    BY <2>1, <2>2, UnitFields DEF TableEntry
<1>1. CASE f = -1
  <2>1. w = n
    BY <1>1 DEF loadFromExecutableToMemory
  <2> QED
    BY <1>1, <2>1, VacantIs
<1>2. CASE f # -1
  <2>1. w = Install(r, a, v, f, s, d)
    BY <1>2 DEF loadFromExecutableToMemory
  <2>2. /\ f \in Frames /\ Opened(n, f, a) /\ Vacant(m, n, f)
        /\ \A b \in Addresses : n.tables[b] = NULL <=> m.tables[b] = NULL
    BY <1>2, FreeFrameIs, VacantIs
  <2> HIDE DEF f, n
  <2>3. n \in Unit /\ n.taken \subseteq Slots /\ n.ipt[f].slot \in Slots \union {-1}
    BY <2>2, UnitFields DEF Opened, Sound
  <2>4. n.taken = Slots => OnTLB(n) # {}
    <3> SUFFICES ASSUME n.taken = Slots
                 PROVE  f \in OnTLB(n)
      OBVIOUS
    <3>1. n.ipt[f].slot = -1
      BY <2>2, <2>3 DEF Opened
    <3> QED
      BY <2>2, <3>1 DEF OnTLB
  <2>5. EntryFound(n, x, s)
    BY <2>3, <2>4, FreeEntryFields
  <2> HIDE DEF x, s
  <2>6. /\ x \in Unit /\ s \in Slots \union {-1}
        /\ x.used = n.used /\ x.order = n.order /\ x.memory = n.memory
        /\ x.tables = n.tables
    BY <2>5 DEF EntryFound
  <2>7. \A g \in n.used : /\ x.ipt[g].page = n.ipt[g].page
                          /\ x.ipt[g].space = n.ipt[g].space
                          /\ x.ipt[g].dirty = n.ipt[g].dirty
    <3> SUFFICES ASSUME NEW g \in n.used
                 PROVE  /\ x.ipt[g].page = n.ipt[g].page
                        /\ x.ipt[g].space = n.ipt[g].space
                        /\ x.ipt[g].dirty = n.ipt[g].dirty
      OBVIOUS
    <3>1. CASE n.taken # Slots
      BY <2>5, <3>1 DEF EntryFound
    <3>2. CASE n.taken = Slots
      <4> DEFINE h == TLBVictim(n)
      <4>1. x.ipt = [n.ipt EXCEPT ![h] = [@ EXCEPT !.slot = -1]]
        BY <2>5, <3>2 DEF EntryFound
      <4>2. n.ipt \in [Entries -> Entry] /\ g \in Entries
        BY <2>3, UnitFields, Numbers
      <4> HIDE DEF h
      <4> QED
        BY <4>1, <4>2 DEF Entry
    <3> QED
      BY <3>1, <3>2
  <2>8. /\ r \in Unit /\ r.ipt = x.ipt /\ r.used = x.used
        /\ r.order = x.order /\ r.tables = x.tables
    BY <2>2, <2>6, LoadPageFields
  <2>9. /\ \A g \in Frames \ {f} : r.memory[g] = x.memory[g]
        /\ r.memory[f] = IF v \in Image THEN FromFile(p, v) ELSE x.memory[f]
    BY <2>2, <2>6, LoadPageMemory
  <2> HIDE DEF r, d
  <2>10. Installed(r, w, a, v, f, s) /\ w.tables[a][v].dirty = d
    BY <1>0, <2>1, <2>2, <2>6, <2>8, InstallFields
  <2>11. /\ w.used = n.used /\ w.order = n.order /\ w.memory = r.memory
         /\ w.ipt[f].page = v /\ w.ipt[f].space = a /\ w.ipt[f].dirty = x.ipt[f].dirty
         /\ \A g \in n.used \ {f} : w.ipt[g] = x.ipt[g]
         /\ \A b \in Addresses : w.tables[b] = NULL <=> n.tables[b] = NULL
         /\ w.tables[a][v].valid /\ w.tables[a][v].frame = f
         /\ w.tables[a][v].readOnly = n.tables[a][v].readOnly
         /\ \A b \in Addresses, u \in Pages : ~ (b = a /\ u = v) =>
              w.tables[b][u] = n.tables[b][u]
    <3>1. n.used \subseteq Entries
      BY <2>3, UnitFields, Numbers
    <3> QED
      BY <2>6, <2>8, <2>10, <3>1 DEF Installed
  <2>12. \A g : Rank(w, g) = 0 <=> Rank(m, g) = 0
    <3>1. \A g : Rank(w, g) = Rank(n, g)
      BY <2>11 DEF Rank
    <3> QED
      BY <2>2, <3>1 DEF Vacant
  <2>13. w.memory[f] = FromFile(p, v)
    <3>1. n.memory[f] = Zero
      BY <2>2 DEF Vacant, Cleared
    <3> QED
      BY <2>6, <2>9, <2>11, <3>1 DEF FromFile
  <2>14. \A g \in Frames \ {f} : w.memory[g] = m.memory[g]
    BY <2>2, <2>6, <2>9, <2>11 DEF Vacant
  <2>15. /\ w.used = m.used \union {f} /\ f \in n.used
         /\ \A g \in m.used \ {f} :
              /\ w.ipt[g].page = m.ipt[g].page /\ w.ipt[g].space = m.ipt[g].space
              /\ w.ipt[g].dirty = m.ipt[g].dirty
         /\ w.ipt[f].dirty = FALSE
    BY <2>2, <2>7, <2>11 DEF Vacant
  <2>16. /\ \A b \in Addresses : w.tables[b] = NULL <=> m.tables[b] = NULL
         /\ \A b \in Addresses, u \in Pages : m.tables[b] # NULL =>
              w.tables[b][u].readOnly = m.tables[b][u].readOnly
         /\ \A b \in Addresses, u \in Pages : m.tables[b] # NULL /\ ~ (b = a /\ u = v) =>
              IF f \in m.used /\ b = m.ipt[f].space /\ u = m.ipt[f].page
              THEN w.tables[b][u].dirty = m.ipt[f].dirty
              ELSE w.tables[b][u] = m.tables[b][u]
    BY <2>2, <2>11 DEF Vacant
  <2>17. Rank(m, f) = 0 /\ w.tables[a][v].dirty = m.tables[a][v].dirty
    BY <2>2, <2>10 DEF Vacant, d
  <2> QED
    BY <2>2, <2>11, <2>12, <2>13, <2>14, <2>15, <2>16, <2>17 DEF PagedIn
<1> QED
  BY <1>1, <1>2

(* A page fault brings in what its table says is not there, or does        *)
(* nothing: with no entry dirty there is nothing to come from swap.        *)
LEMMA PageFaultContents ==
  ASSUME IptLength > NumFrames,
         NEW m, UnitSound(m), NEW a \in Addresses, OnlyValid(m, m.used, a),
         m.tables[a] # NULL, Cleared(m), NothingDirty(m),
         NEW p \in Processes, a = space[p], NEW v \in Pages, Translate(m, v) = -1,
         NEW w, w = PageFault(m, p, v)
  PROVE  \/ Alike(m, w)
         \/ /\ ~ m.tables[a][v].readOnly /\ ~ m.tables[a][v].valid
            /\ \E f \in Frames : PagedIn(m, w, a, v, f, FromFile(p, v))
<1> DEFINE t == m.tables[a][v]
<1>1. Alike(m, m)
  BY DEF Alike
<1>2. ~ t.dirty
  BY DEF NothingDirty
<1>3. t.readOnly \in BOOLEAN /\ t.valid \in BOOLEAN
  <2>1. m \in Unit
    BY DEF UnitSound, Sound
  <2>2. m.tables[a] \in [Pages -> TableEntry]
    BY <2>1, UnitFields
  <2> QED
    BY <2>2 DEF TableEntry
<1>4. CASE t.readOnly
  <2>1. w = m
    BY <1>4 DEF PageFault
  <2> QED
    BY <1>1, <2>1
<1>5. CASE ~ t.readOnly /\ t.valid
  <2>1. w = reloadTLBwithValidEntry(m, a, v)
    BY <1>5 DEF PageFault
  <2>2. w = m
    BY <2>1, ReloadIs
  <2> QED
    BY <1>1, <2>2
<1>6. CASE ~ t.readOnly /\ ~ t.valid
  <2>1. w = loadFromExecutableToMemory(m, p, v)
    BY <1>2, <1>6 DEF PageFault
  <2> HIDE DEF t
  <2>2. Alike(m, w) \/ \E f \in Frames : PagedIn(m, w, a, v, f, FromFile(p, v))
    BY <2>1, LoadedContents
  <2> QED
    BY <1>6, <2>2 DEF t
<1> QED
  BY <1>3, <1>4, <1>5, <1>6

(* A page brought in is what its process expects there.                    *)
LEMMA PagedInKeeps ==
  ASSUME NEW m, NEW w, m \in Unit, EntriesSound(m, m.used),
         NEW S, NEW L, NEW E, ContentsSound(m, S, L, E), Homes(m, S, L),
         NEW a \in Addresses, m.tables[a] # NULL, ~ ForkedAt(m, a),
         NEW v \in Pages, ~ m.tables[a][v].valid,
         NEW p \in Processes, S[p] = a, L[p] # "deleted",
         \A r \in Processes \ {p} : S[r] # a,
         NEW f \in Frames, PagedIn(m, w, a, v, f, FromFile(p, v))
  PROVE  ContentsSound(w, S, L, E)
<1>1. \A g \in m.used : ~ (m.ipt[g].space = a /\ m.ipt[g].page = v)
  BY DEF ContentsSound, OneFrame
<1>2. E[p][v] = FromFile(p, v)
  <2>1. a # NULL
    BY Numbers
  <2>2. ~ InUse(m, a, v)
    BY <1>1 DEF InUse
  <2> QED
    BY <2>1, <2>2 DEF ContentsSound, Lasting
<1>3. 0 \in Pages /\ \A b \in Addresses : m.tables[b] # NULL =>
        (ForkedAt(w, b) <=> ForkedAt(m, b))
  <2>1. 0 \in Pages
    BY MemoryAssumption DEF Pages
  <2> QED
    BY <2>1 DEF PagedIn, ForkedAt
<1>4. f \in m.used => m.ipt[f].dirty = FALSE
  <2>1. f \in m.used => m.ipt[f].dirty \in BOOLEAN
    BY UnitFields DEF Entry
  <2> QED
    BY <2>1 DEF PagedIn, ContentsSound, NothingDirty
<1>5. NothingDirty(w)
  <2>1. ASSUME NEW b \in Addresses, NEW u \in Pages, w.tables[b] # NULL
        PROVE  ~ w.tables[b][u].dirty
    <3>1. m.tables[b] # NULL /\ ~ m.tables[b][u].dirty /\ ~ m.tables[a][v].dirty
      BY <2>1 DEF PagedIn, ContentsSound, NothingDirty
    <3>2. CASE b = a /\ u = v
      BY <3>1, <3>2 DEF PagedIn
    <3>3. CASE ~ (b = a /\ u = v)
      BY <1>4, <3>1, <3>3 DEF PagedIn
    <3> QED
      BY <3>2, <3>3
  <2>2. \A g \in w.used : Rank(w, g) = 0 => ~ w.ipt[g].dirty
    BY DEF PagedIn, ContentsSound, NothingDirty
  <2> QED
    BY <2>1, <2>2 DEF NothingDirty
<1>6. OneFrame(w)
  <2> SUFFICES ASSUME NEW g \in w.used, w.tables[w.ipt[g].space] # NULL
               PROVE  /\ ~ ForkedAt(w, w.ipt[g].space)
                      /\ w.tables[w.ipt[g].space][w.ipt[g].page].valid
                      /\ w.tables[w.ipt[g].space][w.ipt[g].page].frame = g
    BY DEF OneFrame
  <2>1. CASE g = f
    BY <1>3, <2>1 DEF PagedIn
  <2>2. CASE g # f
    <3> DEFINE b == m.ipt[g].space
               u == m.ipt[g].page
    <3>1. g \in m.used /\ w.ipt[g].space = b /\ w.ipt[g].page = u
      BY <2>2 DEF PagedIn
    <3>2. b \in Addresses /\ u \in Pages
      <4>1. b # NULL /\ u \in Pages
        BY <3>1 DEF EntriesSound
      <4>2. m.ipt[g] \in Entry
        BY <3>1, UnitFields
      <4> QED
        BY <4>1, <4>2 DEF Entry
    <3>3. m.tables[b] # NULL
      BY <3>1, <3>2 DEF PagedIn
    <3>4. ~ ForkedAt(m, b) /\ m.tables[b][u].valid /\ m.tables[b][u].frame = g
      BY <3>1, <3>3 DEF ContentsSound, OneFrame
    <3>5. ~ (b = a /\ u = v)
      BY <1>1, <3>1
    <3>6. ~ (f \in m.used /\ b = m.ipt[f].space /\ u = m.ipt[f].page)
      <4> SUFFICES ASSUME f \in m.used, b = m.ipt[f].space, u = m.ipt[f].page
                   PROVE  FALSE
        OBVIOUS
      <4> HIDE DEF b, u
      <4>1. m.tables[b][u].frame = f
        BY <3>3 DEF ContentsSound, OneFrame
      <4> QED
        BY <2>2, <3>4, <4>1
    <3> HIDE DEF b, u
    <3>7. w.tables[b][u] = m.tables[b][u]
      BY <3>2, <3>3, <3>5, <3>6 DEF PagedIn, b, u
    <3> QED
      BY <1>3, <3>1, <3>2, <3>3, <3>4, <3>7
  <2> QED
    BY <2>1, <2>2
<1>7. ForkedWhole(w)
  <2> SUFFICES ASSUME NEW b \in Addresses, NEW u \in Image, w.tables[b] # NULL
               PROVE  w.tables[b][u].readOnly <=> ForkedAt(w, b)
    BY DEF ForkedWhole
  <2>1. u \in Pages /\ m.tables[b] # NULL
    BY Numbers DEF PagedIn
  <2>2. m.tables[b][u].readOnly <=> ForkedAt(m, b)
    BY <2>1 DEF ContentsSound, ForkedWhole
  <2>3. w.tables[b][u].readOnly = m.tables[b][u].readOnly
    BY <2>1 DEF PagedIn
  <2> QED
    BY <1>3, <2>1, <2>2, <2>3
<1>8. Cleared(w)
  BY DEF PagedIn, ContentsSound, Cleared
<1>9. Held(w, S, E)
  <2> SUFFICES ASSUME NEW r \in Processes, NEW g \in w.used, w.ipt[g].space = S[r]
               PROVE  w.memory[g] = E[r][w.ipt[g].page]
    BY DEF Held
  <2>1. CASE g = f
    BY <1>2, <2>1 DEF PagedIn
  <2>2. CASE g # f
    <3>1. g \in m.used /\ g \in Frames
      BY <2>2, UnitFields DEF PagedIn
    <3> QED
      BY <2>2, <3>1 DEF PagedIn, ContentsSound, Held
  <2> QED
    BY <2>1, <2>2
<1>10. Lasting(w, S, L, E)
  <2> SUFFICES ASSUME NEW r \in Processes, NEW u \in Pages, L[r] # "deleted",
                      S[r] # NULL => ~ ForkedAt(w, S[r])
               PROVE  E[r][u] = FromFile(r, u) \/ InUse(w, S[r], u)
    BY DEF Lasting
  <2>1. S[r] # NULL => ~ ForkedAt(m, S[r])
    BY <1>3 DEF Homes
  <2>2. InUse(m, S[r], u) => InUse(w, S[r], u)
    BY DEF InUse, PagedIn
  <2> QED
    BY <2>1, <2>2 DEF ContentsSound, Lasting
<1> QED
  BY <1>5, <1>6, <1>7, <1>8, <1>9, <1>10 DEF ContentsSound

(* The spaces whose pages are in memory.                                   *)
Owners(m) == {m.ipt[f].space : f \in m.used}

LEMMA OwnersAlike ==
  ASSUME NEW m, NEW n, Alike(m, n)
  PROVE  Owners(n) = Owners(m)
BY DEF Alike, Owners

LEMMA SwitchAlike ==
  ASSUME NEW m \in Unit, NEW a
  PROVE  Alike(m, protectProcessPages(m, a)) /\ Alike(m, restoreProcessPages(m, a))
<1> DEFINE no == FALSE
           yes == TRUE
<1>1. no \in BOOLEAN /\ yes \in BOOLEAN
  OBVIOUS
<1>2. /\ protectProcessPages(m, a) = SetValid(m, a, no)
      /\ restoreProcessPages(m, a) = SetValid(m, a, yes)
  BY DEF protectProcessPages, restoreProcessPages
<1> HIDE DEF no, yes
<1>3. ASSUME NEW b \in BOOLEAN
      PROVE  Alike(m, SetValid(m, a, b))
  <2> DEFINE n == SetValid(m, a, b)
  <2>1. n = SetValid(m, a, b)
    OBVIOUS
  <2> HIDE DEF n
  <2>2. /\ n.order = m.order /\ n.used = m.used
        /\ n.memory = m.memory /\ n.tables = m.tables
        /\ \A i \in Entries : /\ n.ipt[i].page = m.ipt[i].page
                              /\ n.ipt[i].space = m.ipt[i].space
                              /\ n.ipt[i].dirty = m.ipt[i].dirty
    BY <2>1, SetValidFields
  <2>3. m.used \subseteq Entries
    BY UnitFields, Numbers
  <2>4. \A f : Rank(n, f) = Rank(m, f)
    BY <2>2 DEF Rank
  <2>5. Alike(m, n)
    BY <2>2, <2>3, <2>4 DEF Alike
  <2> QED
    BY <2>1, <2>5
<1> QED
  BY <1>1, <1>2, <1>3

(* An access makes dirty only what has been accessed.                      *)
LEMMA TouchAlike ==
  ASSUME NEW m, UnitSound(m), NEW a, OnlyValid(m, m.used, a),
         NEW v, Translate(m, v) # -1, NEW writing \in BOOLEAN,
         NEW n, n = Touch(m, Translate(m, v), writing),
         NEW f, f = m.tlb[Translate(m, v)].frame
  PROVE  /\ Alike(m, n) /\ f \in m.used /\ f \in Frames /\ Rank(n, f) # 0
         /\ n.ipt[f].space = a /\ n.ipt[f].page = v
<1> DEFINE s == Translate(m, v)
<1>1. s \in Slots /\ m.tlb[s].valid /\ m.tlb[s].page = v
  BY TranslateIs
<1>2. m \in Unit /\ SlotsSound(m, m.used)
  BY DEF UnitSound, Sound
<1>3. n = Touch(m, s, writing) /\ f = m.tlb[s].frame
  OBVIOUS
<1> HIDE DEF s
<1>4. /\ f \in m.used
      /\ \A g \in Frames : Rank(n, g) = 0 <=> g # f /\ Rank(m, g) = 0
      /\ n.tables = m.tables /\ n.memory = m.memory /\ n.used = m.used
      /\ \A i \in Entries : /\ n.ipt[i].page = m.ipt[i].page
                            /\ n.ipt[i].space = m.ipt[i].space
      /\ \A i \in Entries : i # f => n.ipt[i] = m.ipt[i]
  BY <1>1, <1>3, TouchSound
<1>5. m.used \subseteq Frames /\ m.used \subseteq Entries
  BY <1>2, UnitFields, Numbers
<1>6. Alike(m, n)
  BY <1>4, <1>5 DEF Alike
<1>7. m.ipt[f].page = v /\ m.ipt[f].space = a
  <2>1. m.ipt[f].slot = s /\ s # -1
    BY <1>1, <1>2, <1>3, Numbers DEF SlotsSound
  <2>2. m.tlb[s] = [page |-> m.ipt[f].page, frame |-> f, valid |-> m.ipt[f].valid]
    BY <1>2, <1>4, <2>1 DEF SlotsSound
  <2>3. m.ipt[f].page = v /\ m.ipt[f].valid
    BY <1>1, <2>2
  <2> QED
    BY <1>4, <2>3 DEF OnlyValid
<1> QED
  BY <1>4, <1>5, <1>6, <1>7

(* Process p, one of those with spaces S, reaches its page y in frame f.   *)
Reaches(m, S, p, y, f) ==
  /\ m \in Unit /\ EntriesSound(m, m.used) /\ f \in m.used
  /\ m.ipt[f].space = S[p] /\ m.ipt[f].page = y /\ Rank(m, f) # 0
  /\ m.tables[S[p]] # NULL
  /\ \A r \in Processes \ {p} : S[r] # S[p]

(* F is E but for what p expects in its page y.                            *)
Writes(E, F, p, y, c) ==
  /\ F[p][y] = c
  /\ \A r \in Processes, v \in Pages : ~ (r = p /\ v = y) => F[r][v] = E[r][v]

(* A process writes where it reaches.                                      *)
LEMMA StoredKeeps ==
  ASSUME NEW m, NEW S, NEW L, NEW E, ContentsSound(m, S, L, E),
         NEW p \in Processes, NEW y \in Pages, NEW c, NEW f,
         Reaches(m, S, p, y, f),
         NEW F, Writes(E, F, p, y, c),
         NEW n, n = Stored(m, f, c)
  PROVE  ContentsSound(n, S, L, F) /\ Owners(n) = Owners(m)
<1>0. /\ m \in Unit /\ EntriesSound(m, m.used) /\ f \in m.used
      /\ m.ipt[f].space = S[p] /\ m.ipt[f].page = y /\ Rank(m, f) # 0
      /\ m.tables[S[p]] # NULL
      /\ \A r \in Processes \ {p} : S[r] # S[p]
  BY DEF Reaches
<1>1. /\ n.used = m.used /\ n.ipt = m.ipt /\ n.order = m.order /\ n.tables = m.tables
      /\ n.memory = [m.memory EXCEPT ![f] = c]
  BY <1>0 DEF Stored, Unit
<1>2. m.used \subseteq Frames /\ m.memory \in [Frames -> Contents]
  BY <1>0, UnitFields
<1>3. n.memory[f] = c /\ \A g \in Frames \ {f} : n.memory[g] = m.memory[g]
  BY <1>0, <1>1, <1>2
<1>4. /\ F[p][y] = c
      /\ \A r \in Processes, v \in Pages : ~ (r = p /\ v = y) => F[r][v] = E[r][v]
  BY DEF Writes
<1>5. \A g : Rank(n, g) = Rank(m, g)
  BY <1>1 DEF Rank
<1>6. NothingDirty(n) /\ OneFrame(n) /\ ForkedWhole(n)
  <2>1. NothingDirty(n)
    <3>1. NothingDirty(m)
      BY DEF ContentsSound
    <3> QED
      BY <1>1, <1>5, <3>1 DEF NothingDirty
  <2>2. OneFrame(n)
    <3>1. OneFrame(m)
      BY DEF ContentsSound
    <3> SUFFICES ASSUME NEW g \in n.used, n.tables[n.ipt[g].space] # NULL
                 PROVE  /\ ~ ForkedAt(n, n.ipt[g].space)
                        /\ n.tables[n.ipt[g].space][n.ipt[g].page].valid
                        /\ n.tables[n.ipt[g].space][n.ipt[g].page].frame = g
      BY DEF OneFrame
    <3> DEFINE a == m.ipt[g].space
               v == m.ipt[g].page
    <3>2. /\ g \in m.used /\ n.ipt[g].space = a /\ n.ipt[g].page = v
          /\ n.tables = m.tables /\ (ForkedAt(n, a) <=> ForkedAt(m, a))
      BY <1>1 DEF ForkedAt
    <3>3. ~ ForkedAt(m, a) /\ m.tables[a][v].valid /\ m.tables[a][v].frame = g
      BY <3>1, <3>2 DEF OneFrame
    <3> QED
      BY <3>2, <3>3
  <2>3. ForkedWhole(n)
    BY <1>1 DEF ContentsSound, ForkedWhole, ForkedAt
  <2> QED
    BY <2>1, <2>2, <2>3
<1>7. Cleared(n)
  BY <1>0, <1>1, <1>2, <1>3 DEF ContentsSound, Cleared
<1>8. Held(n, S, F)
  <2> SUFFICES ASSUME NEW r \in Processes, NEW g \in m.used, m.ipt[g].space = S[r]
               PROVE  n.memory[g] = F[r][m.ipt[g].page]
    BY <1>1 DEF Held
  <2>1. CASE g = f
    BY <1>0, <1>3, <1>4, <2>1
  <2>2. CASE g # f
    <3>1. n.memory[g] = m.memory[g] /\ m.memory[g] = E[r][m.ipt[g].page]
      BY <1>2, <1>3, <2>2 DEF ContentsSound, Held
    <3>2. ~ (r = p /\ m.ipt[g].page = y)
      <4> SUFFICES ASSUME r = p, m.ipt[g].page = y
                   PROVE  FALSE
        OBVIOUS
      <4> DEFINE a == S[p]
      <4>1. /\ m.ipt[f].space = a /\ m.ipt[f].page = y /\ f \in m.used
            /\ m.ipt[g].space = a /\ m.ipt[g].page = y /\ m.tables[a] # NULL
        BY <1>0
      <4> HIDE DEF a
      <4>2. m.tables[a][y].frame = f
        BY <4>1 DEF ContentsSound, OneFrame
      <4>3. m.tables[a][y].frame = g
        BY <4>1 DEF ContentsSound, OneFrame
      <4> QED
        BY <2>2, <4>2, <4>3
    <3>3. m.ipt[g].page \in Pages
      BY <1>0 DEF EntriesSound
    <3> QED
      BY <1>4, <3>1, <3>2, <3>3
  <2> QED
    BY <2>1, <2>2
<1>9. Lasting(n, S, L, F)
  <2> SUFFICES ASSUME NEW r \in Processes, NEW v \in Pages, L[r] # "deleted",
                      S[r] # NULL => ~ ForkedAt(n, S[r])
               PROVE  F[r][v] = FromFile(r, v) \/ InUse(n, S[r], v)
    BY DEF Lasting
  <2>1. S[r] # NULL => ~ ForkedAt(m, S[r])
    BY <1>1 DEF ForkedAt
  <2>2. InUse(m, S[r], v) => InUse(n, S[r], v)
    BY <1>1, <1>5 DEF InUse
  <2>3. CASE r = p /\ v = y
    BY <1>0, <1>1, <1>5, <2>3 DEF InUse
  <2>4. CASE ~ (r = p /\ v = y)
    BY <1>4, <2>1, <2>2, <2>4 DEF ContentsSound, Lasting
  <2> QED
    BY <2>3, <2>4
<1>10. Owners(n) = Owners(m)
  BY <1>1 DEF Owners
<1> QED
  BY <1>6, <1>7, <1>8, <1>9, <1>10 DEF ContentsSound

(* A page table that is made, for a process that has no page in memory     *)
(* yet, or that is deleted with its process.                               *)
LEMMA WithTableFields ==
  ASSUME NEW m \in Unit, NEW b \in Addresses, NEW table,
         NEW n, n = WithTable(m, b, table)
  PROVE  /\ n.used = m.used /\ n.ipt = m.ipt /\ n.order = m.order /\ n.memory = m.memory
         /\ n.tables[b] = table /\ \A c \in Addresses \ {b} : n.tables[c] = m.tables[c]
<1>1. /\ n.used = m.used /\ n.ipt = m.ipt /\ n.order = m.order /\ n.memory = m.memory
      /\ n.tables = [m.tables EXCEPT ![b] = table]
  BY DEF WithTable, Unit
<1>2. m.tables \in [Addresses -> {NULL} \union [Pages -> TableEntry]]
  BY UnitFields
<1> QED
  BY <1>1, <1>2

(* The page table at b may become table, while the processes with spaces S *)
(* that expect E come to have T and expect F, and their life goes from L   *)
(* to M: the owner of the new one has no page in memory, and expects what  *)
(* its executable has or is a forked child.                                *)
Retabled(m, b, table, S, L, E, T, M, F) ==
  /\ m \in Unit /\ EntriesSound(m, m.used) /\ Homes(m, S, L)
  /\ table # NULL => /\ \A v \in Pages : ~ table[v].dirty
                     /\ \A v \in Image : table[v].readOnly <=> table[0].readOnly
                     /\ b \notin Owners(m)
  /\ \A p \in Processes :
       \/ T[p] = S[p] /\ F[p] = E[p]
       \/ T[p] = b /\ table # NULL
  /\ \A p \in Processes : M[p] # "deleted" =>
       \/ T[p] = S[p] /\ T[p] # b /\ F[p] = E[p] /\ L[p] # "deleted"
       \/ T[p] = b /\ (table[0].readOnly \/ \A v \in Pages : F[p][v] = FromFile(p, v))

LEMMA TableKeeps ==
  ASSUME NEW m, NEW b \in Addresses, NEW table,
         NEW S, NEW L, NEW E, NEW T, NEW M, NEW F,
         ContentsSound(m, S, L, E), Retabled(m, b, table, S, L, E, T, M, F),
         NEW n, n = WithTable(m, b, table)
  PROVE  ContentsSound(n, T, M, F) /\ Owners(n) = Owners(m)
<1>0. /\ m \in Unit /\ EntriesSound(m, m.used) /\ Homes(m, S, L)
      /\ table # NULL => /\ \A v \in Pages : ~ table[v].dirty
                         /\ \A v \in Image : table[v].readOnly <=> table[0].readOnly
                         /\ b \notin Owners(m)
  BY DEF Retabled
<1>1. /\ n.used = m.used /\ n.ipt = m.ipt /\ n.order = m.order /\ n.memory = m.memory
      /\ n.tables[b] = table /\ \A c \in Addresses \ {b} : n.tables[c] = m.tables[c]
  BY <1>0, WithTableFields
<1>2. \A g : Rank(n, g) = Rank(m, g)
  BY <1>1 DEF Rank
<1>3. Owners(n) = Owners(m)
  BY <1>1 DEF Owners
<1>4. \A f \in m.used : m.ipt[f].space \in Addresses
  BY <1>0, UnitFields DEF EntriesSound, Entry
<1>5. NothingDirty(n)
  BY <1>0, <1>1, <1>2 DEF ContentsSound, NothingDirty
<1>6. OneFrame(n)
  <2> SUFFICES ASSUME NEW f \in n.used, n.tables[n.ipt[f].space] # NULL
               PROVE  /\ ~ ForkedAt(n, n.ipt[f].space)
                      /\ n.tables[n.ipt[f].space][n.ipt[f].page].valid
                      /\ n.tables[n.ipt[f].space][n.ipt[f].page].frame = f
    BY DEF OneFrame
  <2> DEFINE a == m.ipt[f].space
             v == m.ipt[f].page
  <2>1. f \in m.used /\ n.ipt[f].space = a /\ n.ipt[f].page = v /\ n.tables[a] # NULL
    BY <1>1
  <2>2. a # b
    BY <1>0, <1>1, <2>1 DEF Owners
  <2>3. n.tables[a] = m.tables[a]
    BY <1>1, <1>4, <2>1, <2>2
  <2>4. ~ ForkedAt(m, a) /\ m.tables[a][v].valid /\ m.tables[a][v].frame = f
    BY <2>1, <2>3 DEF ContentsSound, OneFrame
  <2>5. ~ ForkedAt(n, a)
    BY <2>3, <2>4 DEF ForkedAt
  <2> QED
    BY <2>1, <2>3, <2>4, <2>5
<1>7. ForkedWhole(n)
  <2> SUFFICES ASSUME NEW c \in Addresses, NEW v \in Image, n.tables[c] # NULL
               PROVE  n.tables[c][v].readOnly <=> ForkedAt(n, c)
    BY DEF ForkedWhole
  <2>1. CASE c = b
    BY <1>0, <1>1, <2>1 DEF ForkedAt
  <2>2. CASE c # b
    BY <1>1, <2>2 DEF ContentsSound, ForkedWhole, ForkedAt
  <2> QED
    BY <2>1, <2>2
<1>8. Cleared(n)
  BY <1>1 DEF ContentsSound, Cleared
<1>9. Held(n, T, F)
  <2> SUFFICES ASSUME NEW p \in Processes, NEW f \in m.used, m.ipt[f].space = T[p]
               PROVE  m.memory[f] = F[p][m.ipt[f].page]
    BY <1>1 DEF Held
  <2>1. T[p] = S[p] /\ F[p] = E[p]
    BY <1>0 DEF Owners, Retabled
  <2> QED
    BY <2>1 DEF ContentsSound, Held
<1>10. Lasting(n, T, M, F)
  <2> SUFFICES ASSUME NEW p \in Processes, NEW v \in Pages, M[p] # "deleted",
                      T[p] # NULL => ~ ForkedAt(n, T[p])
               PROVE  F[p][v] = FromFile(p, v) \/ InUse(n, T[p], v)
    BY DEF Lasting
  <2>1. CASE T[p] = S[p] /\ T[p] # b /\ F[p] = E[p] /\ L[p] # "deleted"
    <3>1. S[p] # NULL => n.tables[S[p]] = m.tables[S[p]]
      BY <1>0, <1>1, <2>1 DEF Homes
    <3>2. S[p] # NULL => ~ ForkedAt(m, S[p])
      BY <2>1, <3>1 DEF ForkedAt
    <3>3. InUse(m, S[p], v) => InUse(n, T[p], v)
      BY <1>1, <1>2, <2>1 DEF InUse
    <3> QED
      BY <2>1, <3>2, <3>3 DEF ContentsSound, Lasting
  <2>2. CASE T[p] = b /\ (table[0].readOnly \/ \A u \in Pages : F[p][u] = FromFile(p, u))
    <3>1. b # NULL
      BY Numbers
    <3> QED
      BY <1>1, <2>2, <3>1 DEF ForkedAt
  <2> QED
    BY <2>1, <2>2 DEF Retabled
<1> QED
  BY <1>3, <1>5, <1>6, <1>7, <1>8, <1>9, <1>10 DEF ContentsSound

-----------------------------------------------------------------------------
(* The steps keep the contents.                                            *)
ContentsHere == SpacesOnce /\ ContentsSound(mmu, space, life, expected)

ContentsKept ==
  SpacesOnce' /\ ContentsSound(mmu', space', life', expected')

LEMMA HomesHere ==
  ASSUME VMInv, SpacesOnce
  PROVE  Homes(mmu, space, life)
<1>1. life \in [Processes -> {"absent", "exec", "fork", "alive", "finished", "deleted"}]
  BY DEF VMInv, VMTypeOK
<1>2. \A p \in Processes : space[p] # NULL /\ life[p] # "deleted" => Housed(life[p])
  BY <1>1 DEF SpacesOnce, Housed
<1> QED
  BY <1>2, OwnSpacesIs DEF Homes

LEMMA CurrentOnly ==
  ASSUME VMInv, SpacesOnce
  PROVE  /\ \A r \in Processes \ {current} : space[r] # space[current]
         /\ life[current] # "deleted" /\ space[current] # NULL
         /\ space[current] \in handed
<1>1. space[current] \in Addresses /\ current \in Processes /\ life[current] = "alive"
  BY CurrentSpace, OwnSpacesIs
<1>2. space[current] # NULL
  BY <1>1, Numbers
<1> QED
  BY <1>1, <1>2 DEF SpacesOnce

(* A step of the process on the processor takes frames for nobody else.    *)
LEMMA OnceKept ==
  ASSUME VMInv, SpacesOnce, UNCHANGED <<life, space, handed>>,
         Owners(mmu') \subseteq Owners(mmu) \union {space[current]}
  PROVE  SpacesOnce'
<1>1. \A f \in mmu.used : mmu.ipt[f].space \in handed
  BY DEF SpacesOnce
<1>2. Owners(mmu) \subseteq handed /\ space[current] \in handed
  BY <1>1, CurrentOnly DEF Owners
<1>3. Owners(mmu') \subseteq handed'
  BY <1>2
<1>4. \A f \in mmu'.used : mmu'.ipt[f].space \in handed'
  BY <1>3 DEF Owners
<1> QED
  BY <1>4 DEF SpacesOnce

(* A page fault of the process on the processor, which may have accessed   *)
(* something since: m is the unit it finds.                                *)
LEMMA FaultKeeps ==
  ASSUME IptLength > NumFrames, VMInv, SpacesOnce,
         NEW m, UnitSound(m), OnlyValid(m, m.used, space[current]),
         m.tables = mmu.tables,
         ContentsSound(m, space, life, expected),
         NEW v \in Pages, Translate(m, v) = -1,
         v \in Image \/ ~ ForkedAt(m, space[current]),
         NEW w, w = PageFault(m, current, v)
  PROVE  /\ ContentsSound(w, space, life, expected)
         /\ Owners(w) \subseteq Owners(m) \union {space[current]}
<1> DEFINE a == space[current]
<1>1. /\ a \in Addresses /\ m.tables[a] # NULL /\ current \in Processes
      /\ a = space[current] /\ OnlyValid(m, m.used, a)
  BY CurrentSpace
<1>2. /\ \A r \in Processes \ {current} : space[r] # a
      /\ life[current] # "deleted"
  BY CurrentOnly
<1>3. Homes(m, space, life)
  BY HomesHere DEF Homes
<1>4. m \in Unit /\ EntriesSound(m, m.used)
  BY DEF UnitSound, Sound
<1>5. v \in Image \/ ~ ForkedAt(m, a)
  OBVIOUS
<1> HIDE DEF a
<1>6. Cleared(m) /\ NothingDirty(m) /\ ForkedWhole(m)
  BY DEF ContentsSound
<1>7. \/ Alike(m, w)
      \/ /\ ~ m.tables[a][v].readOnly /\ ~ m.tables[a][v].valid
         /\ \E f \in Frames : PagedIn(m, w, a, v, f, FromFile(current, v))
  BY <1>1, <1>6, PageFaultContents
<1>8. CASE Alike(m, w)
  <2>1. Fewer(life, life)
    BY DEF Fewer
  <2> QED
    BY <1>8, <2>1, AlikeKeeps, OwnersAlike
<1>9. CASE /\ ~ m.tables[a][v].readOnly /\ ~ m.tables[a][v].valid
           /\ \E f \in Frames : PagedIn(m, w, a, v, f, FromFile(current, v))
  <2>1. PICK f \in Frames : PagedIn(m, w, a, v, f, FromFile(current, v))
    BY <1>9
  <2>2. ~ ForkedAt(m, a)
    BY <1>1, <1>5, <1>6, <1>9 DEF ForkedWhole
  <2>3. ContentsSound(w, space, life, expected)
    BY <1>1, <1>2, <1>3, <1>4, <1>9, <2>1, <2>2, PagedInKeeps
  <2>4. Owners(w) \subseteq Owners(m) \union {a}
    BY <2>1 DEF PagedIn, Owners
  <2> QED
    BY <1>1, <2>3, <2>4
<1> QED
  BY <1>7, <1>8, <1>9

LEMMA FetchFaultContents ==
  ASSUME IptLength > NumFrames, VMInv, ContentsHere, NEW x \in Image, FetchFault(x)
  PROVE  ContentsKept
<1>1. /\ Translate(mmu, x) = -1 /\ mmu' = PageFault(mmu, current, x)
      /\ UNCHANGED <<life, space, handed, expected>>
  BY DEF FetchFault
<1>2. /\ UnitSound(mmu) /\ OnlyValid(mmu, mmu.used, space[current]) /\ x \in Pages
      /\ SpacesOnce /\ ContentsSound(mmu, space, life, expected)
  BY CurrentSpace, Numbers DEF ContentsHere
<1>3. /\ ContentsSound(mmu', space, life, expected)
      /\ Owners(mmu') \subseteq Owners(mmu) \union {space[current]}
  BY <1>1, <1>2, FaultKeeps
<1>4. SpacesOnce'
  BY <1>1, <1>2, <1>3, OnceKept
<1> QED
  BY <1>1, <1>3, <1>4 DEF ContentsKept

LEMMA ExecuteContents ==
  ASSUME VMInv, ContentsHere, NEW x \in Image, Execute(x)
  PROVE  ContentsKept
<1> DEFINE no == FALSE
<1>0. no \in BOOLEAN
  OBVIOUS
<1>1. /\ Translate(mmu, x) # -1 /\ mmu' = Touch(mmu, Translate(mmu, x), no)
      /\ UNCHANGED <<life, space, handed, expected>>
  BY DEF Execute
<1> HIDE DEF no
<1>2. /\ UnitSound(mmu) /\ OnlyValid(mmu, mmu.used, space[current])
      /\ SpacesOnce /\ ContentsSound(mmu, space, life, expected)
  BY CurrentSpace DEF ContentsHere
<1>3. Alike(mmu, mmu')
  <2> DEFINE a == space[current]
             n == Touch(mmu, Translate(mmu, x), no)
  <2>1. OnlyValid(mmu, mmu.used, a)
    BY <1>2
  <2>2. n = Touch(mmu, Translate(mmu, x), no)
    OBVIOUS
  <2> HIDE DEF a, n
  <2>3. Alike(mmu, n)
    BY <1>0, <1>1, <1>2, <2>1, <2>2, TouchAlike
  <2> QED
    BY <1>1, <2>2, <2>3
<1>4. Fewer(life, life)
  BY DEF Fewer
<1>5. ContentsSound(mmu', space, life, expected) /\ Owners(mmu') = Owners(mmu)
  BY <1>2, <1>3, <1>4, AlikeKeeps, OwnersAlike
<1>6. SpacesOnce'
  BY <1>1, <1>2, <1>5, OnceKept
<1> QED
  BY <1>1, <1>5, <1>6 DEF ContentsKept

(* The instruction itself was reached, so the process is no forked child   *)
(* and the page of the operand may be brought in.                          *)
LEMMA OperandContents ==
  ASSUME IptLength > NumFrames, VMInv, ContentsHere,
         NEW x \in Image, NEW y \in Pages, NEW writing \in BOOLEAN,
         Operand(x, y, writing)
  PROVE  ContentsKept
<1> DEFINE a == space[current]
           no == FALSE
           yes == TRUE
           m == Touch(mmu, Translate(mmu, x), no)
           s == Translate(m, y)
           f == mmu.tlb[Translate(mmu, x)].frame
           g == m.tlb[s].frame
           c == Written(current, y)
<1>1. /\ Translate(mmu, x) # -1
      /\ s = -1 => mmu' = PageFault(m, current, y) /\ expected' = expected
      /\ s # -1 /\ writing =>
           /\ mmu' = Stored(Touch(m, s, yes), g, c)
           /\ expected' = [expected EXCEPT ![current][y] = c]
      /\ s # -1 /\ ~ writing => mmu' = Touch(m, s, no) /\ expected' = expected
      /\ UNCHANGED <<life, space, handed>>
  BY DEF Operand, Stored
<1>2. no \in BOOLEAN /\ yes \in BOOLEAN
  OBVIOUS
<1>3. /\ a = space[current] /\ m = Touch(mmu, Translate(mmu, x), no)
      /\ s = Translate(m, y) /\ g = m.tlb[s].frame
      /\ f = mmu.tlb[Translate(mmu, x)].frame
  OBVIOUS
<1>4. /\ UnitSound(mmu) /\ OnlyValid(mmu, mmu.used, a) /\ current \in Processes
      /\ SpacesOnce /\ ContentsSound(mmu, space, life, expected)
      /\ mmu.tables[a] # NULL /\ a \in Addresses
  BY CurrentSpace DEF ContentsHere
<1>5. expected \in [Processes -> [Pages -> Contents]]
  BY DEF VMInv, VMTypeOK
<1> HIDE DEF a, no, yes, m, s, f, g, c
<1>6. /\ Alike(mmu, m) /\ f \in m.used /\ m.ipt[f].space = a
  <2>1. Alike(mmu, m) /\ f \in mmu.used /\ m.ipt[f].space = a
    BY <1>1, <1>2, <1>3, <1>4, TouchAlike
  <2> QED
    BY <2>1 DEF Alike
<1>7. UnitSound(m) /\ OnlyValid(m, m.used, a) /\ m.tables = mmu.tables
  BY <1>1, <1>2, <1>3, <1>4, TouchBrought
<1>8. Fewer(life, life)
  BY DEF Fewer
<1>9. ContentsSound(m, space, life, expected) /\ Owners(m) = Owners(mmu)
  BY <1>4, <1>6, <1>8, AlikeKeeps, OwnersAlike
<1>10. ~ ForkedAt(m, a)
  BY <1>4, <1>6, <1>7, <1>9 DEF ContentsSound, OneFrame
<1>11. ASSUME ContentsSound(mmu', space, life, expected'),
              Owners(mmu') \subseteq Owners(mmu) \union {a}
       PROVE  ContentsKept
  <2>1. SpacesOnce'
    BY <1>1, <1>3, <1>4, <1>11, OnceKept
  <2> QED
    BY <1>1, <1>11, <2>1 DEF ContentsKept
<1>12. CASE s = -1
  <2>1. ContentsSound(mmu', space, life, expected) /\ Owners(mmu') \subseteq Owners(m) \union {a}
    BY <1>1, <1>3, <1>4, <1>7, <1>9, <1>10, <1>12, FaultKeeps
  <2> QED
    BY <1>1, <1>9, <1>11, <1>12, <2>1
<1>13. CASE s # -1 /\ ~ writing
  <2> DEFINE n == Touch(m, s, no)
  <2>1. n = Touch(m, Translate(m, y), no) /\ Translate(m, y) # -1
    BY <1>3, <1>13
  <2> HIDE DEF n
  <2>2. Alike(m, n)
    BY <1>2, <1>3, <1>7, <2>1, TouchAlike
  <2>3. ContentsSound(n, space, life, expected) /\ Owners(n) = Owners(m)
    BY <1>8, <1>9, <2>2, AlikeKeeps, OwnersAlike
  <2>4. mmu' = n /\ expected' = expected
    BY <1>1, <1>13 DEF n
  <2> QED
    BY <1>9, <1>11, <2>3, <2>4
<1>14. CASE s # -1 /\ writing
  <2> DEFINE n == Touch(m, s, yes)
  <2>1. n = Touch(m, Translate(m, y), yes) /\ Translate(m, y) # -1
    BY <1>3, <1>14
  <2>2. mmu' = Stored(n, g, c) /\ expected' = [expected EXCEPT ![current][y] = c]
    BY <1>1, <1>14
  <2> HIDE DEF n
  <2>3. /\ Alike(m, n) /\ g \in m.used /\ g \in Frames /\ Rank(n, g) # 0
        /\ n.ipt[g].space = a /\ n.ipt[g].page = y
    BY <1>2, <1>3, <1>7, <2>1, TouchAlike
  <2>4. UnitSound(n) /\ n.tables = m.tables
    BY <1>2, <1>3, <1>7, <2>1, TouchBrought
  <2>5. ContentsSound(n, space, life, expected) /\ Owners(n) = Owners(m)
    BY <1>8, <1>9, <2>3, AlikeKeeps, OwnersAlike
  <2>6. g \in n.used /\ n \in Unit /\ EntriesSound(n, n.used)
    BY <2>3, <2>4 DEF Alike, UnitSound, Sound
  <2>7. \A r \in Processes \ {current} : space[r] # space[current]
    BY <1>4, CurrentOnly
  <2>8. /\ ContentsSound(mmu', space, life, expected')
        /\ Owners(mmu') = Owners(n)
    <3>1. n.tables[space[current]] # NULL /\ n.ipt[g].space = space[current]
      BY <1>3, <1>4, <1>7, <2>3, <2>4
    <3>2. Reaches(n, space, current, y, g)
      BY <2>3, <2>6, <2>7, <3>1 DEF Reaches
    <3>3. Writes(expected, expected', current, y, c)
      BY <1>4, <1>5, <2>2 DEF Writes
    <3> QED
      BY <1>4, <2>2, <2>5, <3>2, <3>3, StoredKeeps
  <2> QED
    BY <1>9, <1>11, <2>5, <2>8
<1> QED
  BY <1>12, <1>13, <1>14

LEMMA ExecContents ==
  ASSUME VMInv, ContentsHere, NEW q \in Processes, ExecProcess(q)
  PROVE  ContentsKept
<1>1. /\ life[q] = "absent" /\ life' = [life EXCEPT ![q] = "exec"]
      /\ UNCHANGED <<mmu, space, expected, handed>>
  BY DEF ExecProcess
<1>2. life \in [Processes -> {"absent", "exec", "fork", "alive", "finished", "deleted"}]
  BY DEF VMInv, VMTypeOK
<1>3. /\ \A p \in Processes \ {q} : life'[p] = life[p]
      /\ life'[q] = "exec"
  BY <1>1, <1>2
<1>4. SpacesOnce /\ ContentsSound(mmu, space, life, expected)
  BY DEF ContentsHere
<1>5. Fewer(life, life')
  BY <1>1, <1>3 DEF Fewer
<1>6. Alike(mmu, mmu)
  BY DEF Alike
<1>7. ContentsSound(mmu, space, life', expected)
  BY <1>4, <1>5, <1>6, AlikeKeeps
<1>8. SpacesOnce'
  BY <1>1, <1>3, <1>4 DEF SpacesOnce
<1> QED
  BY <1>1, <1>7, <1>8 DEF ContentsKept

(* The heap puts the child's space where none was, so none of its pages is *)
(* in memory.                                                              *)
LEMMA ForkContents ==
  ASSUME VMInv, ContentsHere, NEW q \in Processes, NEW a \in Addresses,
         ForkProcess(q, a), ~ reused'
  PROVE  ContentsKept
<1> DEFINE old == mmu.tables[space[current]]
           table == ForkedTable(old)
<1>1. /\ life[q] = "absent" /\ life' = [life EXCEPT ![q] = "fork"]
      /\ space' = [space EXCEPT ![q] = a]
      /\ mmu' = WithTable(mmu, a, table)
      /\ expected' = [expected EXCEPT ![q] =
           [v \in Pages |-> IF v \in Image THEN expected[current][v] ELSE Zero]]
      /\ handed' = handed \union {a} /\ a \notin handed
  BY DEF ForkProcess, Hand, WithTable
<1>2. /\ life \in [Processes -> {"absent", "exec", "fork", "alive", "finished", "deleted"}]
      /\ space \in [Processes -> Addresses \union {NULL}]
      /\ expected \in [Processes -> [Pages -> Contents]]
  BY DEF VMInv, VMTypeOK
<1>3. /\ \A p \in Processes \ {q} :
           life'[p] = life[p] /\ space'[p] = space[p] /\ expected'[p] = expected[p]
      /\ life'[q] = "fork" /\ space'[q] = a
  BY <1>1, <1>2
<1>4. /\ SpacesOnce /\ ContentsSound(mmu, space, life, expected)
      /\ Homes(mmu, space, life) /\ mmu \in Unit /\ EntriesSound(mmu, mmu.used)
  BY HomesHere DEF ContentsHere, VMInv, UnitSound, Sound
<1>5. a \notin Owners(mmu) /\ \A p \in Processes : space[p] # a
  <2>1. a # NULL
    BY Numbers
  <2> QED
    BY <1>1, <1>4, <2>1 DEF SpacesOnce, Owners
<1>6. /\ space[current] \in Addresses /\ old # NULL
      /\ \A v \in Pages : ~ old[v].dirty
  <2>1. space[current] \in Addresses /\ old # NULL
    BY CurrentSpace
  <2> QED
    BY <1>4, <2>1 DEF ContentsSound, NothingDirty
<1>7. old \in [Pages -> TableEntry]
  BY <1>4, <1>6, UnitFields
<1> HIDE DEF old
<1>8. /\ \A v \in Pages : ~ table[v].dirty
      /\ \A v \in Image : table[v].readOnly
      /\ table[0].readOnly
  <2>1. 0 \in Image
    BY MemoryAssumption DEF Image
  <2>2. \A v \in Image : table[v] = [old[v] EXCEPT !.readOnly = TRUE] /\ old[v] \in TableEntry
    BY <1>7, Numbers DEF ForkedTable
  <2>3. \A v \in Image : table[v].readOnly /\ table[v].dirty = old[v].dirty
    <3> SUFFICES ASSUME NEW v \in Image
                 PROVE  table[v].readOnly /\ table[v].dirty = old[v].dirty
      OBVIOUS
    <3> DEFINE e == old[v]
               t == table[v]
    <3>1. t = [e EXCEPT !.readOnly = TRUE] /\ e \in TableEntry
      BY <2>2
    <3> HIDE DEF e, t
    <3>2. t.readOnly /\ t.dirty = e.dirty
      BY <3>1 DEF TableEntry
    <3> QED
      BY <3>2 DEF e, t
  <2>4. \A v \in Pages \ Image : table[v].dirty = FALSE
    BY DEF ForkedTable, NewTable
  <2> QED
    BY <1>6, <2>1, <2>3, <2>4, Numbers
<1> HIDE DEF table
<1>9. table # NULL
  <2>1. ForkedTable(old) \in [Pages -> TableEntry]
    BY <1>7, NewTables
  <2> QED
    BY <2>1, Numbers DEF table
<1>10. \A p \in Processes :
         \/ space'[p] = space[p] /\ expected'[p] = expected[p]
         \/ space'[p] = a /\ table # NULL
  BY <1>3, <1>9
<1>11. \A p \in Processes : life'[p] # "deleted" =>
         \/ /\ space'[p] = space[p] /\ space'[p] # a /\ expected'[p] = expected[p]
            /\ life[p] # "deleted"
         \/ /\ space'[p] = a
            /\ table[0].readOnly \/ \A v \in Pages : expected'[p][v] = FromFile(p, v)
  BY <1>3, <1>5, <1>8
<1>12. ContentsSound(mmu', space', life', expected') /\ Owners(mmu') = Owners(mmu)
  <2>1. Retabled(mmu, a, table, space, life, expected, space', life', expected')
    BY <1>4, <1>5, <1>8, <1>10, <1>11 DEF Retabled
  <2> QED
    BY <1>1, <1>4, <2>1, TableKeeps
<1>13. SpacesOnce'
  <2>1. \A f \in mmu'.used : mmu'.ipt[f].space \in handed'
    <3>1. Owners(mmu) \subseteq handed
      BY <1>4 DEF SpacesOnce, Owners
    <3>2. Owners(mmu') \subseteq handed'
      BY <1>1, <1>12, <3>1
    <3> QED
      BY <3>2 DEF Owners
  <2>2. \A p \in Processes : life'[p] \in {"absent", "exec"} => space'[p] = NULL
    BY <1>3, <1>4 DEF SpacesOnce
  <2>3. \A p \in Processes : space'[p] # NULL => space'[p] \in handed'
    BY <1>1, <1>3, <1>4 DEF SpacesOnce
  <2>4. \A p \in Processes : \A r \in Processes \ {p} :
          space'[p] # NULL => space'[r] # space'[p]
    BY <1>3, <1>4, <1>5 DEF SpacesOnce
  <2> QED
    BY <2>1, <2>2, <2>3, <2>4 DEF SpacesOnce
<1> QED
  BY <1>12, <1>13 DEF ContentsKept

LEMMA SavedAlike ==
  ASSUME VMInv, ContentsHere
  PROVE  /\ Alike(mmu, Saved) /\ ContentsSound(Saved, space, life, expected)
         /\ Homes(Saved, space, life) /\ Owners(Saved) = Owners(mmu)
         /\ Saved \in Unit /\ EntriesSound(Saved, Saved.used)
<1> DEFINE a == space[current]
<1>1. mmu \in Unit
  BY DEF VMInv, VMTypeOK
<1>2. Saved = protectProcessPages(mmu, a)
  BY DEF Saved
<1> HIDE DEF a
<1>3. Alike(mmu, Saved)
  BY <1>1, <1>2, SwitchAlike
<1>4. UnitSound(Saved) /\ Saved.tables = mmu.tables
  BY SavedIs
<1>5. Fewer(life, life)
  BY DEF Fewer
<1>6. ContentsSound(mmu, space, life, expected) /\ Homes(mmu, space, life)
  BY HomesHere DEF ContentsHere
<1>7. ContentsSound(Saved, space, life, expected)
  BY <1>3, <1>5, <1>6, AlikeKeeps
<1> QED
  BY <1>3, <1>4, <1>6, <1>7, OwnersAlike DEF Homes, UnitSound, Sound

(* The thread that finished is deleted with its space; its pages stay in   *)
(* the inverted page table, and nobody else is at that address.            *)
LEMMA ResumeContents ==
  ASSUME VMInv, ContentsHere, NEW q \in Processes, NEW ends \in BOOLEAN,
         Resume(q, ends)
  PROVE  ContentsKept
<1> DEFINE c == IF ends THEN current ELSE doomed
           b == space[c]
           m == Saved
           buried == IF c = NULL THEN m ELSE WithTable(m, b, NULL)
           a == space[q]
<1>1. /\ q # current /\ life[q] = "alive"
      /\ life' = [p \in Processes |-> IF p = c THEN "deleted" ELSE life[p]]
      /\ mmu' = restoreProcessPages(buried, a)
      /\ UNCHANGED <<space, expected, handed>>
  BY DEF Resume, WithTable
<1>2. /\ c # NULL => c \in Processes /\ Housed(life[c])
      /\ c = NULL => \A p \in Processes : p # c
  BY <1>1, OwnSpacesIs, CurrentSpace, Numbers DEF Housed
<1>3. c # NULL => b \in Addresses
  BY <1>2, OwnSpacesIs
<1>4. b = space[c] /\ (c = NULL => buried = m) /\ (c # NULL => buried = WithTable(m, b, NULL))
  OBVIOUS
<1>5. /\ ContentsSound(m, space, life, expected) /\ Homes(m, space, life)
      /\ Owners(m) = Owners(mmu) /\ m \in Unit /\ EntriesSound(m, m.used)
      /\ SpacesOnce /\ UnitSound(m)
  BY SavedAlike, SavedIs DEF ContentsHere
<1> HIDE DEF a, b, c, m, buried
<1>6. ContentsSound(buried, space, life', expected) /\ Owners(buried) = Owners(m)
  <2>1. CASE c = NULL
    <3>1. Fewer(life, life')
      BY <1>1, <1>2, <2>1 DEF Fewer
    <3>2. Alike(m, m)
      BY DEF Alike
    <3> QED
      BY <1>4, <1>5, <2>1, <3>1, <3>2, AlikeKeeps
  <2>2. CASE c # NULL
    <3> DEFINE table == NULL
    <3>1. table = NULL /\ buried = WithTable(m, b, table) /\ b \in Addresses
      BY <1>3, <1>4, <2>2
    <3> HIDE DEF table
    <3>2. \A p \in Processes : p # c => space[p] # b
      <4>1. b # NULL /\ c \in Processes
        BY <1>2, <2>2, <3>1, Numbers
      <4> QED
        BY <1>4, <1>5, <4>1 DEF SpacesOnce
    <3>3. \A p \in Processes : life'[p] # "deleted" => space[p] # b /\ life[p] # "deleted"
      BY <1>1, <3>2
    <3>4. \A p \in Processes : life'[p] # "deleted" =>
            \/ /\ space[p] = space[p] /\ space[p] # b /\ expected[p] = expected[p]
               /\ life[p] # "deleted"
            \/ /\ space[p] = b
               /\ table[0].readOnly \/ \A v \in Pages : expected[p][v] = FromFile(p, v)
      BY <3>3
    <3>5. Retabled(m, b, table, space, life, expected, space, life', expected)
      BY <1>5, <3>1, <3>4 DEF Retabled
    <3> QED
      BY <1>5, <3>1, <3>5, TableKeeps
  <2> QED
    BY <2>1, <2>2
<1>7. buried \in Unit
  <2>1. CASE c = NULL
    BY <1>4, <1>5, <2>1
  <2>2. CASE c # NULL
    <3> DEFINE tables == [m.tables EXCEPT ![b] = NULL]
    <3>1. tables \in [Addresses -> {NULL} \union [Pages -> TableEntry]]
      BY <1>3, <1>5, <2>2, UnitFields
    <3>2. buried = [m EXCEPT !.tables = tables]
      BY <1>4, <1>5, <2>2 DEF WithTable, Unit
    <3> HIDE DEF tables
    <3> QED
      BY <1>5, <3>1, <3>2 DEF Unit
  <2> QED
    BY <2>1, <2>2
<1>8. Alike(buried, mmu')
  BY <1>1, <1>7, SwitchAlike
<1>9. Fewer(life', life')
  BY DEF Fewer
<1>10. ContentsSound(mmu', space, life', expected) /\ Owners(mmu') = Owners(mmu)
  BY <1>5, <1>6, <1>8, <1>9, AlikeKeeps, OwnersAlike
<1>11. SpacesOnce'
  <2>1. \A f \in mmu'.used : mmu'.ipt[f].space \in handed
    <3>1. Owners(mmu) \subseteq handed
      BY <1>5 DEF SpacesOnce, Owners
    <3>2. Owners(mmu') \subseteq handed
      BY <1>10, <3>1
    <3> QED
      BY <3>2 DEF Owners
  <2>2. \A p \in Processes : life'[p] \in {"absent", "exec"} => life[p] \in {"absent", "exec"}
    BY <1>1
  <2> QED
    BY <1>1, <1>5, <2>1, <2>2 DEF SpacesOnce
<1> QED
  BY <1>1, <1>10, <1>11 DEF ContentsKept

(* A process that was Exec'd starts with a space of its own, made now; it  *)
(* expects its executable, and nothing of it is in memory yet.             *)
LEMMA StartContents ==
  ASSUME VMInv, ContentsHere, NEW q \in Processes, NEW a \in Addresses,
         NEW ends \in BOOLEAN, Start(q, a, ends), ~ reused'
  PROVE  ContentsKept
<1> DEFINE m == Saved
           made == IF life[q] = "exec" THEN WithTable(m, a, NewTable) ELSE m
<1>1. /\ \/ /\ life[q] = "exec" /\ a \notin handed
            /\ handed' = handed \union {a}
         \/ life[q] = "fork" /\ a = space[q] /\ handed' = handed
      /\ life' = [life EXCEPT ![q] = "alive",
                              ![current] = IF ends THEN "finished" ELSE @]
      /\ space' = [space EXCEPT ![q] = a] /\ expected' = expected
      /\ mmu' = restoreProcessPages(made, a)
  BY DEF Start, Hand, WithTable
<1>2. /\ life[q] = "exec" => made = WithTable(m, a, NewTable)
      /\ life[q] # "exec" => made = m
  OBVIOUS
<1>3. /\ life \in [Processes -> {"absent", "exec", "fork", "alive", "finished", "deleted"}]
      /\ space \in [Processes -> Addresses \union {NULL}]
  BY DEF VMInv, VMTypeOK
<1>4. current \in Processes /\ life[current] = "alive" /\ current # q
  BY <1>1, OwnSpacesIs, CurrentSpace
<1>5. /\ \A p \in Processes \ {q} : space'[p] = space[p]
      /\ space'[q] = a
      /\ \A p \in Processes \ {q, current} : life'[p] = life[p]
      /\ life'[q] = "alive"
      /\ life'[current] \in {"alive", "finished"}
  BY <1>1, <1>3, <1>4
<1>6. Fewer(life, life')
  <2>1. life[q] # "deleted" /\ life[current] # "deleted"
    BY <1>1, <1>4
  <2> QED
    BY <1>5, <2>1 DEF Fewer
<1>7. /\ ContentsSound(m, space, life, expected) /\ Homes(m, space, life)
      /\ Owners(m) = Owners(mmu) /\ m \in Unit /\ EntriesSound(m, m.used)
      /\ SpacesOnce
  BY SavedAlike DEF ContentsHere
<1> HIDE DEF m, made
<1>8. Owners(mmu) \subseteq handed
  BY <1>7 DEF SpacesOnce, Owners
<1>9. /\ ContentsSound(made, space', life', expected) /\ Owners(made) = Owners(m)
      /\ made \in Unit
  <2>1. CASE life[q] = "exec"
    <3> DEFINE table == NewTable
    <3>1. /\ table # NULL /\ table \in [Pages -> TableEntry]
          /\ \A v \in Pages : ~ table[v].dirty /\ ~ table[v].readOnly
          /\ made = WithTable(m, a, table)
      BY <1>2, <2>1, NewTables, Numbers DEF NewTable
    <3> HIDE DEF table
    <3>2. a \notin Owners(m) /\ \A p \in Processes : space[p] # a
      <4>1. a # NULL /\ a \notin handed
        BY <1>1, <2>1, Numbers
      <4> QED
        BY <1>7, <1>8, <4>1 DEF SpacesOnce
    <3>3. \A v \in Pages : expected[q][v] = FromFile(q, v)
      <4>1. space[q] = NULL /\ life[q] # "deleted"
        BY <1>7, <2>1 DEF SpacesOnce
      <4>2. \A v \in Pages : ~ InUse(m, space[q], v)
        BY <1>7, <4>1 DEF InUse, EntriesSound
      <4> QED
        BY <1>7, <4>1, <4>2 DEF ContentsSound, Lasting
    <3>4. \A p \in Processes :
            \/ space'[p] = space[p] /\ expected[p] = expected[p]
            \/ space'[p] = a /\ table # NULL
      BY <1>5, <3>1
    <3>5. \A p \in Processes : life'[p] # "deleted" =>
            \/ /\ space'[p] = space[p] /\ space'[p] # a /\ expected[p] = expected[p]
               /\ life[p] # "deleted"
            \/ /\ space'[p] = a
               /\ table[0].readOnly \/ \A v \in Pages : expected[p][v] = FromFile(p, v)
      BY <1>5, <1>6, <3>2, <3>3 DEF Fewer
    <3>6. /\ \A v \in Pages : ~ table[v].dirty
          /\ \A v \in Image : table[v].readOnly <=> table[0].readOnly
      <4>1. 0 \in Pages /\ Image \subseteq Pages
        BY MemoryAssumption DEF Pages, Image
      <4> QED
        BY <3>1, <4>1
    <3>7. ContentsSound(made, space', life', expected) /\ Owners(made) = Owners(m)
      <4>1. Retabled(m, a, table, space, life, expected, space', life', expected)
        BY <1>7, <3>1, <3>2, <3>4, <3>5, <3>6 DEF Retabled
      <4> QED
        BY <1>7, <3>1, <4>1, TableKeeps
    <3>8. made \in Unit
      <4> DEFINE tables == [m.tables EXCEPT ![a] = table]
      <4>1. tables \in [Addresses -> {NULL} \union [Pages -> TableEntry]]
        BY <1>7, <3>1, UnitFields
      <4>2. made = [m EXCEPT !.tables = tables]
        BY <1>7, <3>1 DEF WithTable, Unit
      <4> HIDE DEF tables
      <4> QED
        BY <1>7, <4>1, <4>2 DEF Unit
    <3> QED
      BY <3>7, <3>8
  <2>2. CASE life[q] = "fork" /\ a = space[q]
    <3>1. space' = space /\ made = m
      BY <1>1, <1>2, <1>3, <2>2
    <3>2. Alike(m, m)
      BY DEF Alike
    <3> QED
      BY <1>6, <1>7, <3>1, <3>2, AlikeKeeps
  <2> QED
    BY <1>1, <2>1, <2>2
<1>10. Alike(made, mmu')
  BY <1>1, <1>9, SwitchAlike
<1>11. Fewer(life', life')
  BY DEF Fewer
<1>12. ContentsSound(mmu', space', life', expected) /\ Owners(mmu') = Owners(mmu)
  BY <1>7, <1>9, <1>10, <1>11, AlikeKeeps, OwnersAlike
<1>13. SpacesOnce'
  <2>1. \A f \in mmu'.used : mmu'.ipt[f].space \in handed'
    <3>1. Owners(mmu') \subseteq handed'
      BY <1>1, <1>8, <1>12
    <3> QED
      BY <3>1 DEF Owners
  <2>2. \A p \in Processes : life'[p] \in {"absent", "exec"} => space'[p] = NULL
    <3> SUFFICES ASSUME NEW p \in Processes, life'[p] \in {"absent", "exec"}
                 PROVE  space'[p] = NULL
      OBVIOUS
    <3>1. p # q /\ p # current
      BY <1>5
    <3> QED
      BY <1>5, <1>7, <3>1 DEF SpacesOnce
  <2>3. \A p \in Processes : space'[p] # NULL => space'[p] \in handed'
    BY <1>1, <1>5, <1>7 DEF SpacesOnce
  <2>4. \A p \in Processes : \A r \in Processes \ {p} :
          space'[p] # NULL => space'[r] # space'[p]
    <3>1. CASE life[q] = "exec" /\ a \notin handed
      <4>1. \A p \in Processes : space[p] # a
        <5>1. a # NULL
          BY Numbers
        <5> QED
          BY <1>7, <3>1, <5>1 DEF SpacesOnce
      <4> QED
        BY <1>5, <1>7, <4>1 DEF SpacesOnce
    <3>2. CASE a = space[q]
      <4>1. \A p \in Processes : space'[p] = space[p]
        BY <1>5, <3>2
      <4> QED
        BY <1>7, <4>1 DEF SpacesOnce
    <3> QED
      BY <1>1, <3>1, <3>2
  <2> QED
    BY <2>1, <2>2, <2>3, <2>4 DEF SpacesOnce
<1> QED
  BY <1>1, <1>12, <1>13 DEF ContentsKept

LEMMA ContentsInit ==
  ASSUME VMInit
  PROVE  ContentsInv
<1> PICK a \in Addresses :
      /\ mmu = [ipt |-> [i \in Entries |-> EmptyEntry],
                tlb |-> [s \in Slots |-> NoTranslation],
                used |-> {}, taken |-> {}, order |-> <<>>,
                memory |-> [f \in Frames |-> Zero],
                tables |-> [b \in Addresses |-> IF b = a THEN NewTable ELSE NULL],
                wild |-> FALSE]
      /\ space = [p \in Processes |-> IF p = Main THEN a ELSE NULL]
      /\ handed = {a}
  BY DEF VMInit
<1>1. /\ life = [p \in Processes |-> IF p = Main THEN "alive" ELSE "absent"]
      /\ expected = [p \in Processes |-> [v \in Pages |-> FromFile(p, v)]]
  BY DEF VMInit
<1>2. mmu.used = {} /\ mmu.memory = [f \in Frames |-> Zero]
  OBVIOUS
<1>3. \A b \in Addresses : mmu.tables[b] # NULL => mmu.tables[b] = NewTable
  OBVIOUS
<1>4. \A v \in Pages : NewTable[v].dirty = FALSE /\ NewTable[v].readOnly = FALSE
  BY DEF NewTable
<1>5. 0 \in Pages /\ Image \subseteq Pages
  BY MemoryAssumption DEF Pages, Image
<1>6. NothingDirty(mmu) /\ OneFrame(mmu)
  BY <1>2, <1>3, <1>4 DEF NothingDirty, OneFrame
<1>7. ForkedWhole(mmu)
  BY <1>3, <1>4, <1>5 DEF ForkedWhole, ForkedAt
<1>8. Cleared(mmu) /\ Held(mmu, space, expected)
  BY <1>2 DEF Cleared, Held
<1>9. Lasting(mmu, space, life, expected)
  BY <1>1 DEF Lasting
<1>10. SpacesOnce
  BY <1>1, <1>2 DEF SpacesOnce
<1> QED
  BY <1>6, <1>7, <1>8, <1>9, <1>10 DEF ContentsInv, ContentsSound

LEMMA ContentsNext ==
  ASSUME IptLength > NumFrames, VMInv, ContentsInv, [VMNext]_vmVars
  PROVE  ContentsInv'
<1> SUFFICES ASSUME ~ reused'
             PROVE  ContentsKept
  BY DEF ContentsInv, ContentsKept
<1>1. ~ reused
  BY DEF VMNext, vmVars, FetchFault, Execute, Operand, ExecProcess, ForkProcess,
         Resume, Start, Hand
<1>2. ContentsHere
  BY <1>1 DEF ContentsInv, ContentsHere
<1>3. CASE UNCHANGED vmVars
  <2>1. SpacesOnce /\ ContentsSound(mmu, space, life, expected)
    BY <1>2 DEF ContentsHere
  <2>2. SpacesOnce'
    BY <1>3, <2>1 DEF SpacesOnce, vmVars
  <2>3. mmu' = mmu /\ space' = space /\ life' = life /\ expected' = expected
    BY <1>3 DEF vmVars
  <2> QED
    BY <2>1, <2>2, <2>3 DEF ContentsKept
<1>4. CASE \E x \in Image : FetchFault(x) \/ Execute(x)
  BY <1>2, <1>4, FetchFaultContents, ExecuteContents
<1>5. CASE \E x \in Image, y \in Pages, writing \in BOOLEAN : Operand(x, y, writing)
  BY <1>2, <1>5, OperandContents
<1>6. CASE \E q \in Processes : ExecProcess(q)
  BY <1>2, <1>6, ExecContents
<1>7. CASE \E q \in Processes, a \in Addresses : ForkProcess(q, a)
  BY <1>2, <1>7, ForkContents
<1>8. CASE \E q \in Processes, ends \in BOOLEAN : Resume(q, ends)
  BY <1>2, <1>8, ResumeContents
<1>9. CASE \E q \in Processes, a \in Addresses, ends \in BOOLEAN : Start(q, a, ends)
  BY <1>2, <1>9, StartContents
<1> QED
  BY <1>3, <1>4, <1>5, <1>6, <1>7, <1>8, <1>9 DEF VMNext

(* Private and lasting memory: what a process reaches through the TLB is   *)
(* what it last wrote there, or what its executable has there -- as long   *)
(* as the heap has not put an address space where another one was, and     *)
(* with an inverted page table that is longer than the memory, as the      *)
(* array invPageTable is: then what is evicted was never written.          *)
THEOREM OwnContentsHolds ==
  ASSUME IptLength > NumFrames
  PROVE  VMSpec => []OwnContents
<1>1. VMInit => ContentsInv
  BY ContentsInit
<1>2. VMInv /\ ContentsInv /\ [VMNext]_vmVars => ContentsInv'
  BY ContentsNext
<1>3. ASSUME VMInv, ContentsInv
      PROVE  OwnContents
  <2> SUFFICES ASSUME ~ reused, NEW s \in Slots, mmu.tlb[s].valid
               PROVE  mmu.memory[mmu.tlb[s].frame] = expected[current][mmu.tlb[s].page]
    BY DEF OwnContents
  <2> DEFINE f == mmu.tlb[s].frame
  <2>1. /\ SlotsSound(mmu, mmu.used) /\ OnlyValid(mmu, mmu.used, space[current])
        /\ current \in Processes /\ Held(mmu, space, expected)
    BY <1>3 DEF VMInv, VMTypeOK, UnitSound, Sound, ContentsInv, ContentsSound
  <2>2. f \in mmu.used /\ mmu.ipt[f].slot = s /\ s # -1
    BY <2>1, Numbers DEF SlotsSound
  <2>3. mmu.tlb[s] = [page |-> mmu.ipt[f].page, frame |-> f, valid |-> mmu.ipt[f].valid]
    BY <2>1, <2>2 DEF SlotsSound
  <2>4. mmu.tlb[s].page = mmu.ipt[f].page /\ mmu.ipt[f].valid
    BY <2>3
  <2>5. mmu.ipt[f].space = space[current]
    BY <2>1, <2>2, <2>4 DEF OnlyValid
  <2> QED
    BY SMTT(30), <2>1, <2>2, <2>4, <2>5 DEF Held
<1> QED
  BY <1>1, <1>2, <1>3, InvHolds, PTL DEF VMSpec
=============================================================================
