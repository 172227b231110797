------------------------- MODULE DiskAndNetworkProofs -------------------------
(***************************************************************************)
(* Proofs about what stands on two devices: FileSystem, for a disk and a   *)
(* directory of any size, and PostOffice, for any two machines, each with  *)
(* any set of threads beside its main one.                                 *)
(***************************************************************************)
EXTENDS FileSystem, PostOffice, SequenceTheorems, FiniteSetTheorems,
        WellFoundedInduction, TLAPS

-----------------------------------------------------------------------------
(* The inductive invariant of FileSystem.                                  *)

SectorBytes == [1..SectorSize -> Int]
SectorValue == [numBytes : Nat, dataSectors : Seq(Sectors),
                bytes : {<<>>} \union SectorBytes]
EntryValue == [inUse : BOOLEAN, sector : Sectors, name : Name \union {NoName}]

CreatePhases == {"header", "dir1", "dir2", "map"}
RemovePhases == {"unmap", "undir1", "undir2"}
CallValue ==
  [at : CreatePhases \union RemovePhases \union {"none", "write"},
   name : Name \union {NoName}, entry : Int, sector : Int, hdr : SectorValue,
   directory : [Entries -> EntryValue], freeMap : SUBSET Int, next : Int,
   buf : Seq(SectorBytes), span : SUBSET Int]

FsTypes ==
  /\ sector \in [Sectors -> SectorValue]
  /\ freeMap \subseteq Sectors
  /\ directory \in [Entries -> EntryValue]
  /\ call \in CallValue
  /\ hit \subseteq Entries /\ \A i \in hit : directory[i].inUse
  /\ ~ crashed

(* A header of as many different sectors as its file needs.                *)
Formed(h) ==
  /\ h.dataSectors \in [1..NumSectorsOf(h.numBytes) -> Sectors]
  /\ \A i, j \in 1..NumSectorsOf(h.numBytes) :
       h.dataSectors[i] = h.dataSectors[j] => i = j

(* The sectors of the file that an entry of a directory is about.          *)
FileAt(dir, sec, i) ==
  {dir[i].sector} \union Range(sec[dir[i].sector].dataSectors)

(* The entries in L are about files that share nothing with each other or  *)
(* with the system.                                                        *)
SoundFiles(dir, sec, L) ==
  /\ \A i \in L :
       /\ dir[i].inUse /\ dir[i].name \in Name
       /\ Formed(sec[dir[i].sector])
       /\ dir[i].sector \notin Range(sec[dir[i].sector].dataSectors)
       /\ FileAt(dir, sec, i) \intersect System = {}
  /\ \A i, j \in L :
       i # j => FileAt(dir, sec, i) \intersect FileAt(dir, sec, j) = {}

(* An entry in L comes before every other one that holds its name: Add     *)
(* takes the first free entry, so that one left with the name is later.    *)
NamesFirst(dir, L) ==
  \A i \in L, k \in Entries : dir[k].name = dir[i].name => i <= k

Marked(dir, sec, L) == System \union UNION {FileAt(dir, sec, i) : i \in L}

(* The entry that a call is about, from when its sectors are no longer, or *)
(* not yet, marked; the others in use that no crash hit are settled.       *)
Pending ==
  IF call.at \in CreatePhases \union {"undir1", "undir2"} THEN {call.entry} ELSE {}
Settled == {i \in Entries : directory[i].inUse} \ (hit \union Pending)

Creating ==
  call.at \in CreatePhases =>
    /\ call.entry \in Entries \ hit /\ call.name \in Name
    /\ call.sector \in Clear(freeMap) /\ Formed(call.hdr)
    /\ Range(call.hdr.dataSectors) \subseteq Clear(freeMap) \ {call.sector}
    /\ call.freeMap = freeMap \union {call.sector} \union
                      Range(call.hdr.dataSectors)
    /\ call.directory[call.entry] =
         [inUse |-> TRUE, sector |-> call.sector, name |-> call.name]
    /\ \A i \in Entries \ {call.entry} :
         /\ call.directory[i] = directory[i]
         /\ directory[i].name = call.name =>
              ~ directory[i].inUse /\ call.entry <= i
    /\ call.at \in {"header", "dir1"} => ~ directory[call.entry].inUse
    /\ call.at # "header" => sector[call.sector] = call.hdr
    /\ call.at = "dir2" /\ directory[call.entry].inUse =>
         directory[call.entry].sector = call.sector
    /\ call.at = "map" => directory = call.directory

Removing ==
  call.at \in RemovePhases =>
    /\ call.entry \in Entries \ hit
    /\ call.directory = [directory EXCEPT ![call.entry].inUse = FALSE]
    /\ call.at = "unmap" =>
         /\ call.entry \in Settled
         /\ call.freeMap = freeMap \ FileAt(directory, sector, call.entry)

(* What a read of a byte of a sector gives.                                *)
Old(s, j) ==
  IF sector[s].bytes = <<>> THEN Uninitialised ELSE sector[s].bytes[j]

(* Outside the bytes it was given, what WriteAt has still to write is what *)
(* the file holds.                                                         *)
KeepsOld(k, j) ==
  \A p \in 0..(call.hdr.numBytes - 1) :
    /\ p = (call.next + k - 1) * SectorSize + j - 1 /\ p \notin call.span
    => call.buf[k][j] = Old(call.hdr.dataSectors[call.next + k], j)

Writing ==
  call.at = "write" =>
    /\ \E e \in Settled : /\ call.name = directory[e].name
                          /\ call.hdr = sector[directory[e].sector]
    /\ call.next \in Nat /\ call.buf # <<>>
    /\ call.next + Len(call.buf) <= NumSectorsOf(call.hdr.numBytes)
    /\ \A k \in 1..Len(call.buf), j \in 1..SectorSize : KeepsOld(k, j)

FilesInv ==
  /\ FsTypes
  /\ SoundFiles(directory, sector, Settled)
  /\ NamesFirst(directory, Settled)
  /\ freeMap = Marked(directory, sector, Settled)
  /\ Creating /\ Removing /\ Writing

-----------------------------------------------------------------------------
(* Lemmas about the operators of FileSystem.                               *)

LEMMA Constants ==
  /\ SectorSize \in Nat /\ SectorSize > 0
  /\ NumDirect \in Nat /\ NumDirEntries \in Nat /\ NumDirEntries > 0
  /\ NumSectors \in Nat /\ NumSectors > 4
  /\ Sizes \subseteq Nat /\ Byte \subseteq Nat /\ NoName \notin Name
<1>1. 4 \in Sectors
  BY FileSystemAssumption DEF System, DirectoryData
<1> QED
  BY <1>1, FileSystemAssumption DEF Sectors

LEMMA Ranges ==
  /\ Sectors \subseteq Nat /\ System \subseteq Sectors
  /\ Entries \subseteq Nat /\ Entries # {}
  /\ 0 \in Sectors
<1>1. System \subseteq Sectors
  BY FileSystemAssumption
<1>2. Sectors \subseteq Nat /\ 0 \in Sectors
  BY Constants DEF Sectors
<1>3. Entries \subseteq Nat /\ 1 \in Entries
  BY Constants DEF Entries
<1> QED
  BY <1>1, <1>2, <1>3

LEMMA SectorsAreNumbers ==
  ASSUME NEW T \in SUBSET Sectors
  PROVE  T \in SUBSET Int
BY Ranges

(* The least of some entries.                                              *)
LEMMA LeastIs ==
  ASSUME NEW T \in SUBSET Entries, T # {}
  PROVE  Least(T) \in T /\ \A x \in T : Least(T) <= x
<1> DEFINE R == {ss \in Nat \X Nat : ss[1] < ss[2]}
<1>1. IsWellFoundedOn(R, Nat)
  BY NatLessThanWellFounded DEF OpToRel
<1>2. \A y, x \in Nat : <<y, x>> \in R <=> y < x
  OBVIOUS
<1>3. T \in SUBSET Nat
  BY Ranges
<1> HIDE DEF R
<1>4. PICK x \in T : \A y \in T : ~ (<<y, x>> \in R)
  BY <1>1, <1>3, WFMin
<1>5. \A y \in T : y \in Nat /\ x \in Nat /\ ~ (y < x)
  BY <1>2, <1>3, <1>4
<1>6. \E z \in T : \A y \in T : z <= y
  BY <1>5
<1> QED
  BY <1>6, Zenon DEF Least

(* An entry that no other one is before is the least.                      *)
LEMMA LeastOnly ==
  ASSUME NEW T \in SUBSET Entries, NEW x \in T, \A y \in T : x <= y
  PROVE  Least(T) = x
<1>1. Least(T) \in T /\ Least(T) <= x /\ x <= Least(T)
  BY LeastIs
<1>2. Least(T) \in Nat /\ x \in Nat
  BY <1>1, Ranges
<1> QED
  BY <1>1, <1>2

LEMMA SectorsFinite ==
  ASSUME NEW T \in SUBSET Sectors
  PROVE  IsFiniteSet(T) /\ Cardinality(T) \in Nat
<1>1. IsFiniteSet(Sectors)
  BY Constants, FS_Interval DEF Sectors
<1> QED
  BY <1>1, FS_Subset, FS_CardinalityType

(* Every number of clear bits below a bit occurs.                          *)
LEMMA RankReached ==
  ASSUME NEW T \in SUBSET Sectors, NEW r \in Nat, r < Cardinality(T)
  PROVE  \E s \in T : Cardinality({t \in T : t < s}) = r
<1> DEFINE Below(s) == {t \in T : t < s}
           n == Cardinality(T)
           f == [s \in T |-> Cardinality(Below(s))]
<1>1. n \in Nat /\ IsFiniteSet(T)
  BY SectorsFinite
<1>2. \A s \in T : /\ Below(s) \in SUBSET T /\ s \notin Below(s)
                   /\ Below(s) \in SUBSET Sectors
  <2>1. \A s \in T : s \in Int /\ ~ (s < s)
    BY Ranges
  <2> QED
    BY <2>1
<1>3. ASSUME NEW s \in T
      PROVE  Cardinality(Below(s)) \in 0..(n - 1)
  <2>1. Cardinality(Below(s)) \in Nat /\ Cardinality(Below(s)) <= n
    BY <1>1, <1>2, SectorsFinite, FS_Subset
  <2>2. Cardinality(Below(s)) # n
    BY <1>1, <1>2, FS_Subset
  <2> HIDE DEF Below, n
  <2> QED
    BY <2>1, <2>2, <1>1
<1>4. ASSUME NEW s \in T, NEW u \in T, s < u
      PROVE  Cardinality(Below(s)) < Cardinality(Below(u))
  <2>1. Below(s) \in SUBSET Below(u) /\ s \in Below(u)
    <3>1. \A t \in T : t \in Int
      BY Ranges
    <3>2. \A t \in T : t < s => t < u
      BY <1>4, <3>1
    <3> QED
      BY <1>4, <3>2
  <2>2. Below(s) # Below(u)
    BY <2>1, <1>2
  <2>3. IsFiniteSet(Below(u))
    BY <1>2, SectorsFinite
  <2>4. /\ Cardinality(Below(s)) <= Cardinality(Below(u))
        /\ Cardinality(Below(s)) # Cardinality(Below(u))
    BY <2>1, <2>2, <2>3, FS_Subset
  <2>5. Cardinality(Below(s)) \in Nat /\ Cardinality(Below(u)) \in Nat
    BY <1>2, SectorsFinite
  <2> HIDE DEF Below
  <2> QED
    BY <2>4, <2>5
<1>5. \A s \in T, u \in T : f[s] = f[u] => s = u
  <2> SUFFICES ASSUME NEW s \in T, NEW u \in T, f[s] = f[u]
               PROVE  s = u
    OBVIOUS
  <2>1. s \in Int /\ u \in Int
    BY Ranges
  <2>2. Cardinality(Below(s)) = Cardinality(Below(u))
    OBVIOUS
  <2>3. Cardinality(Below(s)) \in Int
    BY <1>3
  <2>4. ~ (s < u) /\ ~ (u < s)
    <3> HIDE DEF Below, f
    <3> QED
      BY <1>4, <2>2, <2>3
  <2> QED
    BY <2>1, <2>4
<1>6. f \in [T -> 0..(n - 1)]
  BY <1>3
<1> HIDE DEF f
<1>7. f \in Injection(T, 0..(n - 1))
  BY <1>5, <1>6 DEF Injection, IsInjective
<1>8. IsFiniteSet(0..(n - 1)) /\ Cardinality(0..(n - 1)) = n
  <2> HIDE DEF n
  <2> QED
    BY <1>1, FS_Interval
<1>9. f \in Surjection(T, 0..(n - 1))
  BY <1>7, <1>8, FS_Injection
<1>10. r \in 0..(n - 1)
  <2>1. r < n
    OBVIOUS
  <2> HIDE DEF n
  <2> QED
    BY <1>1, <2>1
<1>11. PICK s \in T : f[s] = r
  BY <1>9, <1>10 DEF Surjection
<1> QED
  BY <1>11 DEF f

(* BitMap::Find hands out different clear sectors.                         *)
LEMMA FirstClearIs ==
  ASSUME NEW map, NEW k \in Nat, k <= Cardinality(Clear(map))
  PROVE  /\ FirstClear(map, k) \in [1..k -> Clear(map)]
         /\ \A i, j \in 1..k :
              FirstClear(map, k)[i] = FirstClear(map, k)[j] => i = j
<1> DEFINE T == Clear(map)
           Below(s) == Cardinality({t \in T : t < s})
           At(i) == CHOOSE s \in T : Below(s) = i - 1
<1>1. T \in SUBSET Sectors /\ Cardinality(T) \in Nat
  BY SectorsFinite DEF Clear
<1>2. \A i \in 1..k : \E s \in T : Below(s) = i - 1
  <2> SUFFICES ASSUME NEW i \in 1..k
               PROVE  \E s \in T : Below(s) = i - 1
    OBVIOUS
  <2>1. i - 1 \in Nat /\ i - 1 < Cardinality(T)
    BY <1>1
  <2> QED
    BY <1>1, <2>1, RankReached
<1>3. \A i \in 1..k : At(i) \in T /\ Below(At(i)) = i - 1
  <2> HIDE DEF T, Below
  <2> QED
    BY <1>2
<1>4. FirstClear(map, k) = [i \in 1..k |-> At(i)]
  BY DEF FirstClear
<1>5. \A i, j \in 1..k : At(i) = At(j) => i = j
  <2> SUFFICES ASSUME NEW i \in 1..k, NEW j \in 1..k, At(i) = At(j)
               PROVE  i = j
    OBVIOUS
  <2>1. Below(At(i)) = Below(At(j))
    OBVIOUS
  <2>2. i - 1 = j - 1
    <3> HIDE DEF At, Below, T
    <3> QED
      BY <1>3, <2>1
  <2> QED
    BY <2>2
<1> HIDE DEF T, Below, At
<1> QED
  BY <1>3, <1>4, <1>5 DEF T

(* Quotient and remainder by the size of a sector.                         *)
LEMMA Division ==
  ASSUME NEW a \in Nat, NEW q, NEW r,
         q = a \div SectorSize, r = a % SectorSize
  PROVE  q \in Nat /\ r \in 0..(SectorSize - 1) /\ a = q * SectorSize + r
<1>1. SectorSize \in Nat /\ SectorSize > 0
  BY Constants
<1>2. q \in Nat
  BY <1>1
<1>3. r \in 0..(SectorSize - 1)
  BY <1>1
<1>4. a = q * SectorSize + r
  <2>1. q \in Int /\ r \in Int
    BY <1>2, <1>3
  <2> QED
    BY <1>1, <2>1
<1> QED
  BY <1>2, <1>3, <1>4

(* There is one quotient.                                                  *)
LEMMA QuotientUnique ==
  ASSUME NEW q \in Int, NEW p \in Int, NEW r \in Int, NEW s \in Int,
         0 <= r, r < SectorSize, 0 <= s, s < SectorSize,
         q * SectorSize + r <= p * SectorSize + s
  PROVE  q <= p
<1>1. SectorSize \in Nat /\ SectorSize > 0
  BY Constants
<1> SUFFICES ASSUME q >= p + 1 PROVE FALSE
  OBVIOUS
<1>2. (q - p - 1) * SectorSize >= 0
  BY <1>1
<1>3. (q - p - 1) * SectorSize = q * SectorSize - p * SectorSize - SectorSize
  BY <1>1
<1> QED
  BY <1>1, <1>2, <1>3

(* A file has a sector for each of its bytes.                              *)
LEMMA SectorsEnough ==
  ASSUME NEW n \in Nat
  PROVE  /\ NumSectorsOf(n) \in Nat
         /\ \A a \in 0..(n - 1) : a \div SectorSize + 1 <= NumSectorsOf(n)
<1>1. SectorSize \in Nat /\ SectorSize > 0
  BY Constants
<1>2. PICK b : b = n + SectorSize - 1
  OBVIOUS
<1>3. PICK p : p = b \div SectorSize
  OBVIOUS
<1>4. PICK s : s = b % SectorSize
  OBVIOUS
<1>5. b \in Nat /\ NumSectorsOf(n) = p
  BY <1>1, <1>2, <1>3 DEF NumSectorsOf, DivRoundUp
<1>6. p \in Nat /\ s \in 0..(SectorSize - 1) /\ b = p * SectorSize + s
  BY <1>3, <1>4, <1>5, Division
<1>7. ASSUME NEW a \in 0..(n - 1)
      PROVE  a \div SectorSize + 1 <= NumSectorsOf(n)
  <2>1. PICK q : q = a \div SectorSize
    OBVIOUS
  <2>2. PICK r : r = a % SectorSize
    OBVIOUS
  <2>3. q \in Nat /\ r \in 0..(SectorSize - 1) /\ a = q * SectorSize + r
    <3>1. a \in Nat
      OBVIOUS
    <3> QED
      BY <2>1, <2>2, <3>1, Division
  <2>4. a + SectorSize <= b
    BY <1>1, <1>2
  <2>5. (q + 1) * SectorSize = q * SectorSize + SectorSize
    BY <1>1, <2>3
  <2>6. (q + 1) * SectorSize + r <= p * SectorSize + s
    BY <1>1, <1>5, <1>6, <2>3, <2>4, <2>5
  <2>7. /\ q + 1 \in Int /\ r \in Int /\ s \in Int /\ 0 <= r /\ r < SectorSize
        /\ 0 <= s /\ s < SectorSize /\ p \in Int
    BY <1>1, <1>6, <2>3
  <2>8. q + 1 <= p
    BY <2>6, <2>7, QuotientUnique
  <2> QED
    BY <1>5, <2>1, <2>8
<1> QED
  BY <1>5, <1>6, <1>7

(* The sectors of a file are as many as its size says, and its header's.   *)
LEMMA FileCardinality ==
  ASSUME NEW h, h.numBytes \in Nat, Formed(h),
         NEW s \in Sectors, s \notin Range(h.dataSectors)
  PROVE  Cardinality({s} \union Range(h.dataSectors)) = 1 + NumSectorsOf(h.numBytes)
<1> DEFINE k == NumSectorsOf(h.numBytes)
           f == h.dataSectors
<1>1. k \in Nat
  BY SectorsEnough
<1>2. f \in [1..k -> Sectors] /\ \A i, j \in 1..k : f[i] = f[j] => i = j
  BY DEF Formed
<1> HIDE DEF k
<1>3. IsFiniteSet(1..k) /\ Cardinality(1..k) = k
  <2>1. /\ IsFiniteSet(1..k)
        /\ Cardinality(1..k) = IF 1 > k THEN 0 ELSE k - 1 + 1
    BY ONLY <1>1, FS_Interval
  <2> QED
    BY ONLY <1>1, <2>1
<1>4. f \in Surjection(1..k, Range(f))
  <2> HIDE DEF f
  <2> QED
    BY <1>2 DEF Surjection, Range
<1>5. f \in Injection(1..k, Range(f))
  <2> HIDE DEF f
  <2> QED
    BY <1>2, <1>4 DEF Surjection, Injection, IsInjective
<1>6. IsFiniteSet(Range(f)) /\ Cardinality(Range(f)) = k
  <2> HIDE DEF f
  <2> QED
    BY <1>3, <1>4, <1>5, FS_Surjection
<1>7. Cardinality(Range(f) \union {s}) = Cardinality(Range(f)) + 1
  <2>1. s \notin Range(f)
    OBVIOUS
  <2> HIDE DEF f
  <2> QED
    BY <1>6, <2>1, FS_AddElement
<1>8. Range(f) \union {s} = {s} \union Range(f)
  OBVIOUS
<1>9. Cardinality({s} \union Range(f)) = 1 + k
  <2> HIDE DEF f, k
  <2>1. Cardinality({s} \union Range(f)) = Cardinality(Range(f) \union {s})
    BY <1>8, Zenon
  <2> QED
    BY <1>1, <1>6, <1>7, <2>1
<1> QED
  BY <1>9 DEF k

(* What a sound file keeps when neither its entry nor its header changes.  *)
LEMMA SoundStays ==
  ASSUME NEW dir, NEW sec, NEW L, SoundFiles(dir, sec, L),
         NEW dir2, NEW sec2, NEW L2, L2 \subseteq L,
         \A i \in L2 : /\ dir2[i] = dir[i]
                       /\ sec2[dir[i].sector] = sec[dir[i].sector]
  PROVE  /\ SoundFiles(dir2, sec2, L2)
         /\ \A i \in L2 : FileAt(dir2, sec2, i) = FileAt(dir, sec, i)
<1>1. \A i \in L2 : FileAt(dir2, sec2, i) = FileAt(dir, sec, i)
  BY DEF FileAt
<1>2. \A i, j \in L2 :
        i # j => FileAt(dir2, sec2, i) \intersect FileAt(dir2, sec2, j) = {}
  BY <1>1 DEF SoundFiles
<1>3. ASSUME NEW i \in L2
      PROVE  /\ dir2[i].inUse /\ dir2[i].name \in Name
             /\ Formed(sec2[dir2[i].sector])
             /\ dir2[i].sector \notin Range(sec2[dir2[i].sector].dataSectors)
             /\ FileAt(dir2, sec2, i) \intersect System = {}
  <2>1. /\ dir[i].inUse /\ dir[i].name \in Name
        /\ Formed(sec[dir[i].sector])
        /\ dir[i].sector \notin Range(sec[dir[i].sector].dataSectors)
        /\ FileAt(dir, sec, i) \intersect System = {}
    BY DEF SoundFiles
  <2>2. dir2[i] = dir[i] /\ sec2[dir[i].sector] = sec[dir[i].sector]
    OBVIOUS
  <2> QED
    BY <1>1, <2>1, <2>2
<1> QED
  BY <1>1, <1>2, <1>3 DEF SoundFiles

LEMMA HeadersStay ==
  ASSUME NEW dir, NEW sec, NEW L, SoundFiles(dir, sec, L), NEW sec2,
         \A i \in L : sec2[dir[i].sector] = sec[dir[i].sector]
  PROVE  /\ SoundFiles(dir, sec2, L)
         /\ \A i \in L : FileAt(dir, sec2, i) = FileAt(dir, sec, i)
<1>1. \A i \in L : FileAt(dir, sec2, i) = FileAt(dir, sec, i)
  BY DEF FileAt
<1> QED
  BY <1>1 DEF SoundFiles

LEMMA MarkedStays ==
  ASSUME NEW dir, NEW sec, NEW dir2, NEW sec2, NEW L,
         \A i \in L : FileAt(dir2, sec2, i) = FileAt(dir, sec, i)
  PROVE  Marked(dir2, sec2, L) = Marked(dir, sec, L)
BY DEF Marked

LEMMA NamesStay ==
  ASSUME NEW dir, NEW L, NamesFirst(dir, L), NEW dir2, NEW L2, L2 \subseteq L,
         \A i \in L2 : dir2[i] = dir[i],
         \A i \in L2, k \in Entries :
           dir2[k].name = dir[i].name => dir[k].name = dir[i].name
  PROVE  NamesFirst(dir2, L2)
BY DEF NamesFirst

(* A file of its own beside sound ones.                                    *)
LEMMA SoundAdds ==
  ASSUME NEW dir, NEW sec, NEW L, SoundFiles(dir, sec, L), NEW k,
         dir[k].inUse, dir[k].name \in Name, Formed(sec[dir[k].sector]),
         dir[k].sector \notin Range(sec[dir[k].sector].dataSectors),
         FileAt(dir, sec, k) \intersect Marked(dir, sec, L) = {}
  PROVE  SoundFiles(dir, sec, L \union {k})
<1>1. FileAt(dir, sec, k) \intersect System = {}
  BY DEF Marked
<1>2. \A i \in L : FileAt(dir, sec, k) \intersect FileAt(dir, sec, i) = {}
  BY DEF Marked
<1>3. \A i, j \in L : i # j => FileAt(dir, sec, i) \intersect FileAt(dir, sec, j) = {}
  BY DEF SoundFiles
<1>4. ASSUME NEW i \in L \union {k}, NEW j \in L \union {k}, i # j
      PROVE  FileAt(dir, sec, i) \intersect FileAt(dir, sec, j) = {}
  <2>1. CASE i \in L /\ j \in L
    BY <1>3, <1>4, <2>1
  <2>2. CASE i = k
    BY <1>2, <1>4, <2>2
  <2>3. CASE j = k
    <3>1. FileAt(dir, sec, k) \intersect FileAt(dir, sec, i) = {}
      BY <1>2, <1>4, <2>3
    <3> QED
      BY <2>3, <3>1
  <2> QED
    BY <2>1, <2>2, <2>3
<1>5. ASSUME NEW i \in L \union {k}
      PROVE  /\ dir[i].inUse /\ dir[i].name \in Name
             /\ Formed(sec[dir[i].sector])
             /\ dir[i].sector \notin Range(sec[dir[i].sector].dataSectors)
             /\ FileAt(dir, sec, i) \intersect System = {}
  <2>1. CASE i \in L
    BY <2>1 DEF SoundFiles
  <2>2. CASE i = k
    BY <1>1, <2>2
  <2> QED
    BY <2>1, <2>2
<1> QED
  BY <1>4, <1>5 DEF SoundFiles

LEMMA MarkedAdds ==
  ASSUME NEW dir, NEW sec, NEW L, NEW k
  PROVE  Marked(dir, sec, L \union {k}) =
           Marked(dir, sec, L) \union FileAt(dir, sec, k)
BY DEF Marked

(* Without a file, the map is what it was without its sectors.             *)
LEMMA MarkedDrops ==
  ASSUME NEW dir, NEW sec, NEW L, SoundFiles(dir, sec, L), NEW k \in L
  PROVE  Marked(dir, sec, L \ {k}) =
           Marked(dir, sec, L) \ FileAt(dir, sec, k)
<1>1. FileAt(dir, sec, k) \intersect System = {}
  BY DEF SoundFiles
<1>2. \A i \in L \ {k} : FileAt(dir, sec, i) \intersect FileAt(dir, sec, k) = {}
  BY DEF SoundFiles
<1> QED
  BY <1>1, <1>2 DEF Marked

LEMMA NoCallIs == NoCall \in CallValue /\ NoCall.at = "none"
<1>1. NoEntry \in EntryValue
  BY Ranges DEF NoEntry, EntryValue
<1>2. Header(0, <<>>) \in SectorValue
  <2>1. <<>> \in Seq(Sectors)
    OBVIOUS
  <2> QED
    BY <2>1 DEF Header, SectorValue
<1>3. <<>> \in Seq(SectorBytes)
  OBVIOUS
<1> QED
  BY <1>1, <1>2, <1>3 DEF NoCall, CallValue

(* The entry that a directory finds for a name.                            *)
LEMMA FoundIn ==
  ASSUME NEW dir, NEW n, Indexes(dir, n) # {}
  PROVE  \E i \in Entries : /\ i = Least(Indexes(dir, n))
                            /\ dir[i].inUse /\ dir[i].name = n
                            /\ Find(dir, n) = dir[i].sector
<1>1. Indexes(dir, n) \in SUBSET Entries
  BY DEF Indexes
<1>2. Least(Indexes(dir, n)) \in Indexes(dir, n)
  BY <1>1, LeastIs
<1>3. Find(dir, n) = dir[Least(Indexes(dir, n))].sector
  BY DEF Find
<1> QED
  BY <1>2, <1>3 DEF Indexes

LEMMA UsableIs ==
  ASSUME NEW n \in Usable
  PROVE  \E i \in Entries : /\ i = Least(Indexes(directory, n))
                            /\ directory[i].inUse /\ directory[i].name = n
                            /\ i \notin hit
                            /\ Find(directory, n) = directory[i].sector
BY FoundIn DEF Usable

(* A settled entry is found by its name.                                   *)
LEMMA SettledFound ==
  ASSUME NEW L \in SUBSET Entries, NamesFirst(directory, L), NEW i \in L,
         directory[i].inUse
  PROVE  /\ Least(Indexes(directory, directory[i].name)) = i
         /\ Indexes(directory, directory[i].name) # {}
         /\ Find(directory, directory[i].name) = directory[i].sector
<1>1. i \in Indexes(directory, directory[i].name)
  BY DEF Indexes
<1>2. \A k \in Indexes(directory, directory[i].name) : i <= k
  BY DEF Indexes, NamesFirst
<1>3. Indexes(directory, directory[i].name) \in SUBSET Entries
  BY DEF Indexes
<1>4. Least(Indexes(directory, directory[i].name)) = i
  BY <1>1, <1>2, <1>3, LeastOnly
<1> QED
  BY <1>1, <1>4 DEF Find

LEMMA SettledEntries == Settled \in SUBSET Entries
BY DEF Settled

(* Unless a call has an entry of its own, the files that a client still    *)
(* uses are those of the settled entries.                                  *)
LEMMA UsableSettled ==
  ASSUME FilesInv, Pending = {}
  PROVE  /\ \A n \in Usable :
              \E i \in Settled : /\ directory[i].name = n
                                 /\ i = Least(Indexes(directory, n))
                                 /\ Find(directory, n) = directory[i].sector
         /\ \A i \in Settled :
              /\ directory[i].name \in Usable
              /\ Least(Indexes(directory, directory[i].name)) = i
              /\ Find(directory, directory[i].name) = directory[i].sector
         /\ \A i \in Settled :
              SectorsOf(directory[i].name) = FileAt(directory, sector, i)
<1> USE DEF FilesInv
<1>1. ASSUME NEW n \in Usable
      PROVE  \E i \in Settled : /\ directory[i].name = n
                                /\ i = Least(Indexes(directory, n))
                                /\ Find(directory, n) = directory[i].sector
  BY UsableIs DEF Settled
<1>2. ASSUME NEW i \in Settled
      PROVE  /\ directory[i].name \in Usable
             /\ Least(Indexes(directory, directory[i].name)) = i
             /\ Find(directory, directory[i].name) = directory[i].sector
  <2>1. directory[i].inUse /\ i \notin hit /\ directory[i].name \in Name
    BY DEF Settled, SoundFiles
  <2>2. /\ Least(Indexes(directory, directory[i].name)) = i
        /\ Indexes(directory, directory[i].name) # {}
        /\ Find(directory, directory[i].name) = directory[i].sector
    BY <2>1, SettledEntries, SettledFound
  <2> QED
    BY <2>1, <2>2 DEF Usable
<1>3. ASSUME NEW i \in Settled
      PROVE  SectorsOf(directory[i].name) = FileAt(directory, sector, i)
  BY <1>2 DEF SectorsOf, HeaderOf, FileAt
<1> QED
  BY <1>1, <1>2, <1>3

(* What the map marks can hold no more than sectors.                       *)
LEMMA FilesInSectors ==
  ASSUME FsTypes, NEW i \in Entries
  PROVE  /\ directory[i].sector \in Sectors
         /\ sector[directory[i].sector] \in SectorValue
         /\ FileAt(directory, sector, i) \subseteq Sectors
<1>1. directory[i].sector \in Sectors
  BY DEF FsTypes, EntryValue
<1>2. sector[directory[i].sector] \in SectorValue
  BY <1>1 DEF FsTypes
<1>3. sector[directory[i].sector].dataSectors \in Seq(Sectors)
  BY <1>2 DEF SectorValue
<1> QED
  BY <1>1, <1>2, <1>3 DEF FileAt, Range

-----------------------------------------------------------------------------
(* The invariant is inductive.                                             *)

LEMMA FilesInit ==
  ASSUME FsInit
  PROVE  FilesInv
<1>1. Settled = {}
  BY DEF Settled, FsInit, NoEntry
<1>2. FsTypes
  <2>1. NoEntry \in EntryValue
    BY Ranges DEF NoEntry, EntryValue
  <2>2. Data([i \in 1..SectorSize |-> 0]) \in SectorValue
    <3>1. <<>> \in Seq(Sectors) /\ [i \in 1..SectorSize |-> 0] \in SectorBytes
      BY DEF SectorBytes
    <3> QED
      BY <3>1 DEF Data, SectorValue
  <2> QED
    BY <2>1, <2>2, NoCallIs, Ranges DEF FsInit, FsTypes
<1>3. call.at = "none"
  BY NoCallIs DEF FsInit
<1>4. Creating /\ Removing /\ Writing
  BY <1>3 DEF Creating, Removing, Writing, CreatePhases, RemovePhases
<1>5. freeMap = Marked(directory, sector, Settled)
  BY <1>1 DEF FsInit, Marked
<1>6. SoundFiles(directory, sector, Settled) /\ NamesFirst(directory, Settled)
  BY <1>1 DEF SoundFiles, NamesFirst
<1> QED
  BY <1>2, <1>4, <1>5, <1>6 DEF FilesInv

(* A step that begins or ends a call and leaves the disk alone.            *)
LEMMA DiskSame ==
  ASSUME FilesInv, UNCHANGED <<sector, freeMap, directory>>, Settled' = Settled
  PROVE  /\ SoundFiles(directory, sector, Settled)'
         /\ NamesFirst(directory, Settled)'
         /\ (freeMap = Marked(directory, sector, Settled))'
BY DEF FilesInv

(* What Create works out before anything is written.                       *)
LEMMA CreateStep ==
  ASSUME FilesInv, NEW n \in Name, NEW size \in Sizes, Create(n, size)
  PROVE  FilesInv'
<1> USE DEF FilesInv
<1> DEFINE hdrTake == Take(freeMap, 1)
           take == Take(hdrTake.map, NumSectorsOf(size))
           k == Least(FreeEntries(directory))
           s == hdrTake.found[1]
           m == NumSectorsOf(size)
<1>1. /\ call.at = "none"
      /\ Find(directory, n) = -1 /\ Clear(freeMap) # {}
      /\ FreeEntries(directory) # {}
      /\ Cardinality(Clear(hdrTake.map)) >= m
      /\ call' = [NoCall EXCEPT !.at = "header", !.name = n, !.sector = s,
                    !.entry = k, !.hdr = Header(size, take.found),
                    !.directory = Add(directory, n, s), !.freeMap = take.map]
      /\ UNCHANGED <<sector, freeMap, directory, hit, crashed>>
  BY DEF Create
<1>2. k \in Entries /\ ~ directory[k].inUse
      /\ \A i \in Entries : ~ directory[i].inUse => k <= i
  <2>1. FreeEntries(directory) \in SUBSET Entries
    BY DEF FreeEntries
  <2>2. k \in FreeEntries(directory) /\ \A i \in FreeEntries(directory) : k <= i
    BY <1>1, <2>1, LeastIs, Zenon
  <2> HIDE DEF k
  <2> QED
    BY <2>2 DEF FreeEntries
<1>3. k \notin hit
  BY <1>2 DEF FsTypes
<1>4. \A i \in Entries : directory[i].inUse => directory[i].name # n
  <2>1. ASSUME Indexes(directory, n) # {} PROVE FALSE
    <3>1. Indexes(directory, n) \in SUBSET Entries
      BY DEF Indexes
    <3>2. PICK i : i = Least(Indexes(directory, n))
      OBVIOUS
    <3>3. i \in Entries
      BY <2>1, <3>1, <3>2, LeastIs
    <3>4. Find(directory, n) = directory[i].sector
      BY <2>1, <3>2 DEF Find
    <3> QED
      BY <1>1, <3>3, <3>4, FilesInSectors, Ranges
  <2> QED
    BY <2>1 DEF Indexes
<1>5. s \in Clear(freeMap) /\ hdrTake.map = freeMap \union {s}
  <2>1. IsFiniteSet(Clear(freeMap)) /\ Cardinality(Clear(freeMap)) \in Nat
    BY SectorsFinite DEF Clear
  <2>2. Cardinality(Clear(freeMap)) # 0
    BY <1>1, <2>1, FS_EmptySet
  <2>3. 1 <= Cardinality(Clear(freeMap))
    BY <2>1, <2>2
  <2>4. FirstClear(freeMap, 1) \in [1..1 -> Clear(freeMap)]
    BY <2>3, FirstClearIs
  <2>5. /\ FirstClear(freeMap, 1)[1] \in Clear(freeMap)
        /\ Range(FirstClear(freeMap, 1)) = {FirstClear(freeMap, 1)[1]}
    BY <2>4 DEF Range
  <2>6. /\ hdrTake.found = FirstClear(freeMap, 1)
        /\ hdrTake.map = freeMap \union Range(FirstClear(freeMap, 1))
    BY DEF Take
  <2> QED
    BY <2>5, <2>6
<1>6. m \in Nat
  BY Constants, SectorsEnough
<1>7. /\ take.found \in [1..m -> Clear(freeMap) \ {s}]
      /\ \A i, j \in 1..m : take.found[i] = take.found[j] => i = j
      /\ take.map = freeMap \union {s} \union Range(take.found)
  <2>1. take.found = FirstClear(hdrTake.map, m)
    BY DEF Take
  <2>2. take.map = hdrTake.map \union Range(take.found)
    BY DEF Take
  <2>3. Clear(hdrTake.map) = Clear(freeMap) \ {s}
    BY <1>5 DEF Clear
  <2>4. m <= Cardinality(Clear(hdrTake.map))
    <3>1. Cardinality(Clear(hdrTake.map)) \in Nat
      BY SectorsFinite DEF Clear
    <3> HIDE DEF m, hdrTake
    <3> QED
      BY <1>1, <1>6, <3>1
  <2> HIDE DEF m, take, hdrTake, s
  <2>5. /\ take.found \in [1..m -> Clear(hdrTake.map)]
        /\ \A i, j \in 1..m : take.found[i] = take.found[j] => i = j
    BY <1>6, <2>1, <2>4, FirstClearIs
  <2>6. take.found \in [1..m -> Clear(freeMap) \ {s}]
    BY <2>3, <2>5
  <2> QED
    BY <1>5, <2>2, <2>5, <2>6
<1> HIDE DEF hdrTake, take, s, k, m
<1>8. PICK f : f = take.found
  OBVIOUS
<1>9. f \in [1..m -> Sectors] /\ f \in Seq(Sectors)
  BY <1>6, <1>7, <1>8 DEF Clear
<1>10. Range(f) \subseteq Clear(freeMap) \ {s}
  <2>1. f \in [1..m -> Clear(freeMap) \ {s}]
    BY <1>7, <1>8
  <2> QED
    BY ONLY <2>1 DEF Range
<1>11. Header(size, f) \in SectorValue /\ Formed(Header(size, f))
       /\ Header(size, f).dataSectors = f
  <2>1. size \in Nat
    BY Constants
  <2> QED
    BY <1>7, <1>8, <1>9, <2>1 DEF Header, SectorValue, Formed, m
<1>12. /\ Add(directory, n, s) \in [Entries -> EntryValue]
       /\ Add(directory, n, s)[k] = [inUse |-> TRUE, sector |-> s, name |-> n]
       /\ \A i \in Entries \ {k} : Add(directory, n, s)[i] = directory[i]
  <2>1. s \in Sectors
    BY <1>5 DEF Clear
  <2>2. [inUse |-> TRUE, sector |-> s, name |-> n] \in EntryValue
    BY <2>1 DEF EntryValue
  <2> QED
    BY <1>2, <2>2 DEF Add, FsTypes, k
<1>13. /\ call'.at = "header" /\ call'.name = n /\ call'.sector = s
       /\ call'.entry = k /\ call'.hdr = Header(size, f)
       /\ call'.directory = Add(directory, n, s) /\ call'.freeMap = take.map
  BY <1>1, <1>8, NoCallIs DEF CallValue
<1>14. FsTypes'
  <2>1. take.map \in SUBSET Int
    <3>1. freeMap \subseteq Int /\ Clear(freeMap) \subseteq Int
      <4>1. freeMap \in SUBSET Sectors /\ Clear(freeMap) \in SUBSET Sectors
        BY DEF FsTypes, Clear
      <4>2. freeMap \in SUBSET Int /\ Clear(freeMap) \in SUBSET Int
        BY ONLY <4>1, SectorsAreNumbers
      <4> QED
        BY <4>2
    <3>2. take.map = freeMap \union {s} \union Range(f)
      BY <1>7, <1>8
    <3> QED
      BY <1>5, <1>10, <3>1, <3>2
  <2>2. s \in Int /\ k \in Int
    BY <1>2, <1>5, Ranges DEF Clear
  <2>3. call' \in CallValue
    BY <1>1, <1>8, <1>11, <1>12, <2>1, <2>2, NoCallIs DEF CallValue, CreatePhases
  <2> QED
    BY <1>1, <2>3 DEF FsTypes
<1>15. Settled' = Settled
  BY <1>1, <1>2, <1>13 DEF Settled, Pending, CreatePhases
<1>16. Creating'
  <2> SUFFICES /\ k \in Entries \ hit /\ n \in Name /\ s \in Clear(freeMap)
               /\ Formed(Header(size, f))
               /\ Range(f) \subseteq Clear(freeMap) \ {s}
               /\ take.map = freeMap \union {s} \union Range(f)
               /\ Add(directory, n, s)[k] =
                    [inUse |-> TRUE, sector |-> s, name |-> n]
               /\ \A i \in Entries \ {k} :
                    /\ Add(directory, n, s)[i] = directory[i]
                    /\ directory[i].name = n => ~ directory[i].inUse /\ k <= i
               /\ ~ directory[k].inUse
    BY <1>1, <1>11, <1>13 DEF Creating
  <2> QED
    BY <1>2, <1>3, <1>4, <1>5, <1>7, <1>8, <1>10, <1>11, <1>12
<1>17. Removing' /\ Writing'
  BY <1>13 DEF Removing, Writing, RemovePhases
<1> QED
  BY <1>1, <1>14, <1>15, <1>16, <1>17, DiskSame

LEMMA WriteHeaderStep ==
  ASSUME FilesInv, WriteHeader
  PROVE  FilesInv'
<1> USE DEF FilesInv
<1> DEFINE k == call.entry
<1>1. /\ call.at = "header" /\ call' = [call EXCEPT !.at = "dir1"]
      /\ sector' = [sector EXCEPT ![call.sector] = call.hdr]
      /\ UNCHANGED <<freeMap, directory, hit, crashed>>
  BY DEF WriteHeader, To
<1>2. call \in CallValue /\ call.hdr \in SectorValue
  BY DEF FsTypes, CallValue
<1>3. /\ call'.at = "dir1" /\ call'.entry = k /\ call'.name = call.name
      /\ call'.sector = call.sector /\ call'.hdr = call.hdr
      /\ call'.directory = call.directory /\ call'.freeMap = call.freeMap
  BY <1>1, <1>2 DEF CallValue
<1>4. call.sector \in Sectors /\ call.sector \notin freeMap
  BY <1>1 DEF Creating, CreatePhases, Clear
<1>5. sector' \in [Sectors -> SectorValue] /\ sector'[call.sector] = call.hdr
  BY <1>1, <1>2, <1>4 DEF FsTypes
<1>6. FsTypes'
  <2>1. call' \in CallValue
    BY <1>1, <1>2 DEF CallValue, CreatePhases
  <2> QED
    BY <1>1, <1>5, <2>1 DEF FsTypes
<1>7. Settled' = Settled
  BY <1>1, <1>3 DEF Settled, Pending, CreatePhases
<1>8. \A i \in Settled : sector'[directory[i].sector] = sector[directory[i].sector]
  <2> SUFFICES ASSUME NEW i \in Settled
               PROVE  sector'[directory[i].sector] = sector[directory[i].sector]
    OBVIOUS
  <2>1. directory[i].sector \in freeMap
    BY DEF Marked, FileAt
  <2>2. directory[i].sector \in Sectors
    BY <2>1 DEF FsTypes
  <2> QED
    BY <1>1, <1>4, <2>1, <2>2 DEF FsTypes
<1>9. /\ SoundFiles(directory, sector', Settled)
      /\ \A i \in Settled :
           FileAt(directory, sector', i) = FileAt(directory, sector, i)
  BY <1>8, HeadersStay
<1>10. Marked(directory, sector', Settled) = Marked(directory, sector, Settled)
  BY <1>9, MarkedStays
<1>11. Creating'
  <2>1. Creating /\ call.at \in CreatePhases /\ call'.at \in CreatePhases
    BY <1>1, <1>3 DEF CreatePhases
  <2> QED
    BY <1>1, <1>3, <1>5, <2>1 DEF Creating
<1>12. Removing' /\ Writing'
  BY <1>3 DEF Removing, Writing, RemovePhases
<1> QED
  BY <1>1, <1>6, <1>7, <1>9, <1>10, <1>11, <1>12

(* A write of the directory that only touches an entry that is not settled.*)
LEMMA DirectoryStep ==
  ASSUME FilesInv, UNCHANGED <<sector, freeMap>>, Settled' = Settled,
         NEW k, k \notin Settled,
         \A i \in Entries \ {k} : directory'[i] = directory[i],
         \A i \in Settled : directory'[k].name = directory[i].name =>
                            directory[k].name = directory[i].name
  PROVE  /\ SoundFiles(directory, sector, Settled)'
         /\ NamesFirst(directory, Settled)'
         /\ (freeMap = Marked(directory, sector, Settled))'
<1> USE DEF FilesInv
<1>1. \A i \in Settled : directory'[i] = directory[i]
  BY SettledEntries
<1>2. /\ SoundFiles(directory', sector, Settled)
      /\ \A i \in Settled :
           FileAt(directory', sector, i) = FileAt(directory, sector, i)
  BY <1>1, SoundStays
<1>3. Marked(directory', sector, Settled) = Marked(directory, sector, Settled)
  BY <1>2, MarkedStays
<1>4. \A i \in Settled, j \in Entries :
        directory'[j].name = directory[i].name => directory[j].name = directory[i].name
  OBVIOUS
<1>5. NamesFirst(directory', Settled)
  BY <1>1, <1>4, NamesStay
<1> QED
  BY <1>2, <1>3, <1>5

(* What is on disk after the first sector of the directory is written.     *)
LEMMA FirstHalfIs ==
  ASSUME FsTypes, NEW dir \in [Entries -> EntryValue], NEW k \in Entries,
         \A i \in Entries \ {k} : dir[i] = directory[i]
  PROVE  /\ FirstHalf(dir) \in [Entries -> EntryValue]
         /\ \A i \in Entries \ {k} : FirstHalf(dir)[i] = directory[i]
         /\ \/ FirstHalf(dir)[k] = dir[k]
            \/ FirstHalf(dir)[k] = [dir[k] EXCEPT !.name = directory[k].name]
            \/ FirstHalf(dir)[k] = directory[k]
<1>1. \A i \in Entries : directory[i] \in EntryValue /\ dir[i] \in EntryValue
  BY DEF FsTypes
<1>2. \A i \in Entries : [dir[i] EXCEPT !.name = directory[i].name] \in EntryValue
  BY <1>1 DEF EntryValue
<1>3. \A i \in Entries \ {k} :
        [dir[i] EXCEPT !.name = directory[i].name] = directory[i]
  BY <1>1 DEF EntryValue
<1> QED
  BY <1>1, <1>2, <1>3 DEF FirstHalf

(* What a write of a sector of the directory changes: one entry, which is  *)
(* not settled, and never the sector of an entry in use.                   *)
OneEntryWritten ==
  \E k \in Entries \ hit :
    /\ Pending = {k} /\ Settled' = Settled /\ UNCHANGED <<sector, hit>>
    /\ \A i \in Entries \ {k} : directory'[i] = directory[i]
    /\ directory[k].inUse => directory'[k].sector = directory[k].sector

LEMMA CreateDirectoryStep ==
  ASSUME FilesInv, WriteDirectory, call.at \in {"dir1", "dir2"}
  PROVE  FilesInv' /\ OneEntryWritten
<1> USE DEF FilesInv
<1> DEFINE k == call.entry
<1>1. /\ UNCHANGED <<sector, freeMap, hit, crashed>>
      /\ \/ /\ call.at = "dir1" /\ call' = [call EXCEPT !.at = "dir2"]
            /\ directory' = FirstHalf(call.directory)
         \/ /\ call.at = "dir2" /\ call' = [call EXCEPT !.at = "map"]
            /\ directory' = call.directory
  BY DEF WriteDirectory, To
<1>2. call \in CallValue /\ call.directory \in [Entries -> EntryValue]
  BY DEF FsTypes, CallValue
<1>3. /\ call'.at = (IF call.at = "dir1" THEN "dir2" ELSE "map")
      /\ call'.entry = k /\ call'.name = call.name
      /\ call'.sector = call.sector /\ call'.hdr = call.hdr
      /\ call'.directory = call.directory /\ call'.freeMap = call.freeMap
  BY <1>1, <1>2 DEF CallValue
<1>4. Creating /\ call.at \in CreatePhases /\ call'.at \in CreatePhases
  BY <1>1, <1>3 DEF CreatePhases
<1>5. /\ k \in Entries \ hit
      /\ \A i \in Entries \ {k} : call.directory[i] = directory[i]
      /\ call.directory[k] =
           [inUse |-> TRUE, sector |-> call.sector, name |-> call.name]
  BY <1>4 DEF Creating
<1>6. /\ directory' \in [Entries -> EntryValue]
      /\ \A i \in Entries \ {k} : directory'[i] = directory[i]
      /\ \/ directory'[k] = call.directory[k]
         \/ directory'[k] = [call.directory[k] EXCEPT !.name = directory[k].name]
         \/ directory'[k] = directory[k]
  <2>1. CASE directory' = call.directory
    BY <1>2, <1>5, <2>1
  <2>2. CASE directory' = FirstHalf(call.directory)
    BY <1>2, <1>5, <2>2, FirstHalfIs
  <2> QED
    BY <1>1, <2>1, <2>2
<1>7. FsTypes'
  <2>1. call' \in CallValue
    BY <1>1, <1>2 DEF CallValue, CreatePhases
  <2>2. \A i \in hit : directory'[i].inUse
    BY <1>5, <1>6 DEF FsTypes
  <2> QED
    BY <1>1, <1>6, <2>1, <2>2 DEF FsTypes
<1>8. Settled' = Settled /\ k \notin Settled
  BY <1>1, <1>3, <1>4, <1>6 DEF Settled, Pending
<1>9. \A i \in Settled : directory'[k].name = directory[i].name =>
                         directory[k].name = directory[i].name
  <2> SUFFICES ASSUME NEW i \in Settled, directory'[k].name = directory[i].name,
                      directory[k].name # directory[i].name
               PROVE  FALSE
    OBVIOUS
  <2>1. i \in Entries \ {k} /\ directory[i].inUse
    BY <1>8 DEF Settled
  <2>2. directory[i].name # call.name
    BY <1>4, <2>1 DEF Creating
  <2>3. directory'[k].name \in {call.name, directory[k].name}
    <3>1. call.directory[k].name = call.name
      BY <1>5
    <3>2. [call.directory[k] EXCEPT !.name = directory[k].name].name = directory[k].name
      BY <1>5
    <3> QED
      BY <1>6, <3>1, <3>2
  <2> QED
    BY <2>2, <2>3
<1>10. Creating'
  <2>1. \A i \in Entries \ {k} :
          /\ call.directory[i] = directory'[i]
          /\ directory'[i].name = call.name => ~ directory'[i].inUse /\ k <= i
    BY <1>4, <1>6 DEF Creating
  <2>2. call.at = "dir1" => /\ call'.at = "dir2"
                            /\ directory'[k].inUse => directory'[k].sector = call.sector
    <3>1. call.directory[k].sector = call.sector
      BY <1>5
    <3>2. [call.directory[k] EXCEPT !.name = directory[k].name].sector = call.sector
      BY <1>5
    <3>3. call.at = "dir1" => ~ directory[k].inUse
      BY <1>4 DEF Creating
    <3> QED
      BY <1>3, <1>6, <3>1, <3>2, <3>3
  <2>3. call.at = "dir2" => call'.at = "map" /\ directory' = call'.directory
    BY <1>1, <1>3
  <2>4. call'.at \notin {"header", "dir1"} /\ call'.at # "header"
    BY <1>3
  <2>5. sector'[call'.sector] = call'.hdr
    BY <1>1, <1>3, <1>4 DEF Creating
  <2> QED
    BY <1>1, <1>3, <1>4, <2>1, <2>2, <2>3, <2>4, <2>5 DEF Creating
<1>11. Removing' /\ Writing'
  BY <1>3 DEF Removing, Writing, RemovePhases
<1>12. /\ SoundFiles(directory, sector, Settled)'
       /\ NamesFirst(directory, Settled)'
       /\ (freeMap = Marked(directory, sector, Settled))'
  BY <1>1, <1>6, <1>8, <1>9, DirectoryStep
<1>13. FilesInv'
  BY <1>7, <1>10, <1>11, <1>12
<1>14. directory[k].inUse => directory'[k].sector = directory[k].sector
  <2>1. call.at = "dir1" => ~ directory[k].inUse
    BY <1>4 DEF Creating
  <2>2. call.at = "dir2" /\ directory[k].inUse =>
          directory[k].sector = call.sector /\ directory'[k] = call.directory[k]
    BY <1>1, <1>4 DEF Creating
  <2> QED
    BY <1>1, <1>5, <2>1, <2>2
<1>15. Pending = {k}
  BY <1>4 DEF Pending
<1> QED
  BY <1>1, <1>5, <1>6, <1>8, <1>13, <1>14, <1>15 DEF OneEntryWritten

LEMMA RemoveDirectoryStep ==
  ASSUME FilesInv, WriteDirectory, call.at \in {"undir1", "undir2"}
  PROVE  FilesInv' /\ OneEntryWritten
<1> USE DEF FilesInv
<1> DEFINE k == call.entry
<1>1. /\ UNCHANGED <<sector, freeMap, hit, crashed>>
      /\ \/ /\ call.at = "undir1" /\ call' = [call EXCEPT !.at = "undir2"]
            /\ directory' = FirstHalf(call.directory)
         \/ /\ call.at = "undir2" /\ call' = NoCall
            /\ directory' = call.directory
  BY DEF WriteDirectory, To
<1>2. call \in CallValue /\ call.directory \in [Entries -> EntryValue]
  BY DEF FsTypes, CallValue
<1>3. /\ k \in Entries \ hit
      /\ call.directory = [directory EXCEPT ![k].inUse = FALSE]
  BY DEF Removing, RemovePhases
<1>4. /\ \A i \in Entries \ {k} : call.directory[i] = directory[i]
      /\ call.directory[k] = [directory[k] EXCEPT !.inUse = FALSE]
      /\ directory[k] \in EntryValue
  BY <1>3 DEF FsTypes
<1>5. /\ ~ call.directory[k].inUse /\ call.directory[k].name = directory[k].name
      /\ [call.directory[k] EXCEPT !.name = directory[k].name] = call.directory[k]
      /\ [call.directory[k] EXCEPT !.inUse = FALSE] = call.directory[k]
  BY <1>4 DEF EntryValue
<1>6. /\ directory' \in [Entries -> EntryValue]
      /\ \A i \in Entries \ {k} : directory'[i] = directory[i]
      /\ directory'[k] \in {call.directory[k], directory[k]}
      /\ call.at = "undir2" => directory'[k] = call.directory[k]
  <2>1. CASE call.at = "undir2"
    BY <1>1, <1>2, <1>4, <2>1
  <2>2. CASE call.at = "undir1"
    <3>1. directory' = FirstHalf(call.directory)
      BY <1>1, <2>2
    <3>2. /\ FirstHalf(call.directory) \in [Entries -> EntryValue]
          /\ \A i \in Entries \ {k} : FirstHalf(call.directory)[i] = directory[i]
          /\ \/ FirstHalf(call.directory)[k] = call.directory[k]
             \/ FirstHalf(call.directory)[k] =
                  [call.directory[k] EXCEPT !.name = directory[k].name]
             \/ FirstHalf(call.directory)[k] = directory[k]
      <4>1. PICK d, e : d = call.directory /\ e = k
        OBVIOUS
      <4>2. /\ FsTypes /\ d \in [Entries -> EntryValue] /\ e \in Entries
            /\ \A i \in Entries \ {e} : d[i] = directory[i]
        BY <1>2, <1>3, <1>4, <4>1
      <4>3. /\ FirstHalf(d) \in [Entries -> EntryValue]
            /\ \A i \in Entries \ {e} : FirstHalf(d)[i] = directory[i]
            /\ \/ FirstHalf(d)[e] = d[e]
               \/ FirstHalf(d)[e] = [d[e] EXCEPT !.name = directory[e].name]
               \/ FirstHalf(d)[e] = directory[e]
        BY ONLY <4>2, FirstHalfIs
      <4> QED
        BY <4>1, <4>3, Zenon
    <3> QED
      BY <1>5, <2>2, <3>1, <3>2
  <2> QED
    BY <2>1, <2>2
<1>7. /\ call.at = "undir1" => /\ call'.at = "undir2" /\ call'.entry = k
                               /\ call'.directory = call.directory
      /\ call.at = "undir2" => call'.at = "none"
  BY <1>1, <1>2, NoCallIs DEF CallValue
<1>8. FsTypes'
  <2>1. call' \in CallValue
    BY <1>1, <1>2, NoCallIs DEF CallValue, RemovePhases
  <2>2. \A i \in hit : directory'[i].inUse
    BY <1>3, <1>6 DEF FsTypes
  <2> QED
    BY <1>1, <1>6, <2>1, <2>2 DEF FsTypes
<1>9. Pending = {k} /\ k \notin Settled
  BY DEF Settled, Pending
<1>10. Settled' = Settled
  <2>1. CASE call.at = "undir1"
    <3>1. Pending' = {k}
      BY <1>7, <2>1 DEF Pending
    <3> QED
      BY <1>1, <1>6, <1>9, <3>1 DEF Settled
  <2>2. CASE call.at = "undir2"
    <3>1. Pending' = {}
      BY <1>7, <2>2 DEF Pending, CreatePhases
    <3>2. ~ directory'[k].inUse
      BY <1>5, <1>6, <2>2
    <3> QED
      BY <1>1, <1>6, <1>9, <3>1, <3>2 DEF Settled
  <2> QED
    BY <2>1, <2>2
<1>11. directory'[k].name = directory[k].name
  BY <1>5, <1>6
<1>12. Removing'
  <2>1. CASE call.at = "undir2"
    BY <1>7, <2>1 DEF Removing, RemovePhases
  <2>2. CASE call.at = "undir1"
    <3>1. call.directory = [directory' EXCEPT ![k].inUse = FALSE]
      <4>1. [directory'[k] EXCEPT !.inUse = FALSE] = call.directory[k]
        BY <1>4, <1>5, <1>6
      <4> QED
        BY <1>2, <1>3, <1>4, <1>6, <4>1
    <3> QED
      BY <1>1, <1>3, <1>7, <2>2, <3>1 DEF Removing
  <2> QED
    BY <2>1, <2>2
<1>13. Creating' /\ Writing'
  BY <1>7 DEF Creating, Writing, CreatePhases
<1>14. /\ SoundFiles(directory, sector, Settled)'
       /\ NamesFirst(directory, Settled)'
       /\ (freeMap = Marked(directory, sector, Settled))'
  BY <1>1, <1>6, <1>9, <1>10, <1>11, DirectoryStep
<1>15. FilesInv'
  BY <1>8, <1>12, <1>13, <1>14
<1>16. directory'[k].sector = directory[k].sector
  BY <1>4, <1>6 DEF EntryValue
<1> QED
  BY <1>1, <1>3, <1>6, <1>9, <1>10, <1>15, <1>16 DEF OneEntryWritten

(* The map of a new file is written last, of one removed first.            *)
LEMMA CreateMapStep ==
  ASSUME FilesInv, WriteFreeMap, call.at = "map"
  PROVE  FilesInv'
<1> USE DEF FilesInv
<1> DEFINE k == call.entry
<1>1. /\ UNCHANGED <<sector, directory, hit, crashed>>
      /\ call' = NoCall /\ freeMap' = call.freeMap
  BY DEF WriteFreeMap
<1>2. Creating /\ call.at \in CreatePhases
  BY DEF CreatePhases
<1>3. /\ k \in Entries \ hit /\ call.name \in Name
      /\ call.sector \in Clear(freeMap) /\ Formed(call.hdr)
      /\ Range(call.hdr.dataSectors) \subseteq Clear(freeMap) \ {call.sector}
      /\ call.freeMap = freeMap \union {call.sector} \union
                        Range(call.hdr.dataSectors)
      /\ sector[call.sector] = call.hdr
      /\ directory[k] = [inUse |-> TRUE, sector |-> call.sector, name |-> call.name]
      /\ \A i \in Entries \ {k} : directory[i].name = call.name => k <= i
  BY <1>2 DEF Creating
<1>4. call'.at = "none"
  BY <1>1, NoCallIs
<1>5. FsTypes'
  <2>1. freeMap' \subseteq Sectors
    BY <1>1, <1>3 DEF Clear, FsTypes
  <2> QED
    BY <1>1, <2>1, NoCallIs DEF FsTypes
<1>6. Pending = {k} /\ Pending' = {}
  BY <1>2, <1>4 DEF Pending, CreatePhases
<1>7. Settled' = Settled \union {k}
  BY <1>1, <1>3, <1>6 DEF Settled
<1>8. FileAt(directory, sector, k) = {call.sector} \union Range(call.hdr.dataSectors)
  BY <1>3 DEF FileAt
<1>9. FileAt(directory, sector, k) \intersect Marked(directory, sector, Settled) = {}
  BY <1>3, <1>8 DEF Clear
<1>10. SoundFiles(directory, sector, Settled \union {k})
  <2>1. /\ directory[k].inUse /\ directory[k].name \in Name
        /\ Formed(sector[directory[k].sector])
        /\ directory[k].sector \notin Range(sector[directory[k].sector].dataSectors)
    BY <1>3
  <2> QED
    BY <1>9, <2>1, SoundAdds
<1>11. Marked(directory, sector, Settled \union {k}) = call.freeMap
  BY <1>3, <1>8, MarkedAdds
<1>12. NamesFirst(directory, Settled \union {k})
  <2> SUFFICES ASSUME NEW i \in Settled \union {k}, NEW j \in Entries,
                      directory[j].name = directory[i].name
               PROVE  i <= j
    BY DEF NamesFirst
  <2>1. CASE i \in Settled
    BY <2>1 DEF NamesFirst
  <2>2. CASE i = k
    <3>1. directory[j].name = call.name
      BY <1>3, <2>2
    <3>2. k \in Nat
      BY <1>3, Ranges
    <3> QED
      BY <1>3, <2>2, <3>1, <3>2
  <2> QED
    BY <2>1, <2>2
<1>13. Creating' /\ Removing' /\ Writing'
  BY <1>4 DEF Creating, Removing, Writing, CreatePhases, RemovePhases
<1> QED
  BY <1>1, <1>5, <1>7, <1>10, <1>11, <1>12, <1>13

LEMMA RemoveMapStep ==
  ASSUME FilesInv, WriteFreeMap, call.at = "unmap"
  PROVE  FilesInv'
<1> USE DEF FilesInv
<1> DEFINE k == call.entry
<1>1. /\ UNCHANGED <<sector, directory, hit, crashed>>
      /\ call' = [call EXCEPT !.at = "undir1"] /\ freeMap' = call.freeMap
  BY DEF WriteFreeMap, To
<1>2. /\ k \in Settled /\ k \in Entries \ hit
      /\ call.directory = [directory EXCEPT ![k].inUse = FALSE]
      /\ call.freeMap = freeMap \ FileAt(directory, sector, k)
  BY DEF Removing, RemovePhases
<1>3. call \in CallValue
  BY DEF FsTypes
<1>4. call'.at = "undir1" /\ call'.entry = k /\ call'.directory = call.directory
  BY <1>1, <1>3 DEF CallValue
<1>5. FsTypes'
  <2>1. call' \in CallValue
    BY <1>1, <1>3 DEF CallValue, RemovePhases
  <2>2. freeMap' \subseteq Sectors
    BY <1>1, <1>2 DEF FsTypes
  <2> QED
    BY <1>1, <2>1, <2>2 DEF FsTypes
<1>6. Pending = {} /\ Pending' = {k}
  BY <1>4 DEF Pending, CreatePhases
<1>7. Settled' = Settled \ {k}
  BY <1>1, <1>6 DEF Settled
<1>8. SoundFiles(directory, sector, Settled \ {k})
  BY SoundStays
<1>9. Marked(directory, sector, Settled \ {k}) = call.freeMap
  BY <1>2, MarkedDrops
<1>10. NamesFirst(directory, Settled \ {k})
  BY DEF NamesFirst
<1>11. Creating' /\ Removing' /\ Writing'
  BY <1>1, <1>2, <1>4 DEF Creating, Removing, Writing, CreatePhases
<1> QED
  BY <1>1, <1>5, <1>7, <1>8, <1>9, <1>10, <1>11

(* Remove finds the sectors of the file marked: no ASSERT fails.           *)
LEMMA RemoveFileStep ==
  ASSUME FilesInv, NEW n \in Name, RemoveFile(n)
  PROVE  FilesInv'
<1> USE DEF FilesInv
<1>1. call.at = "none" /\ n \in Usable
      /\ UNCHANGED <<sector, freeMap, directory, hit>>
  BY DEF RemoveFile
<1>2. Pending = {}
  BY <1>1 DEF Pending, CreatePhases
<1>3. PICK k \in Settled : /\ directory[k].name = n
                           /\ k = Least(Indexes(directory, n))
                           /\ Find(directory, n) = directory[k].sector
                           /\ SectorsOf(n) = FileAt(directory, sector, k)
  BY <1>1, <1>2, UsableSettled
<1>4. FileAt(directory, sector, k) \subseteq freeMap
  BY DEF Marked
<1>5. Range(HeaderOf(n).dataSectors) \subseteq freeMap
  BY <1>3, <1>4 DEF SectorsOf
<1>6. /\ call' = [NoCall EXCEPT !.at = "unmap", !.name = n, !.entry = k,
                     !.directory = [directory EXCEPT ![k].inUse = FALSE],
                     !.freeMap = freeMap \ FileAt(directory, sector, k)]
      /\ UNCHANGED crashed
  BY <1>3, <1>5 DEF RemoveFile, RemoveName, Deallocate
<1>7. /\ call'.at = "unmap" /\ call'.entry = k
      /\ call'.directory = [directory EXCEPT ![k].inUse = FALSE]
      /\ call'.freeMap = freeMap \ FileAt(directory, sector, k)
  BY <1>6, NoCallIs DEF CallValue
<1>8. k \in Entries \ hit
  BY DEF Settled
<1>9. FsTypes'
  <2>1. [directory EXCEPT ![k].inUse = FALSE] \in [Entries -> EntryValue]
    BY <1>8 DEF FsTypes, EntryValue
  <2>2. freeMap \ FileAt(directory, sector, k) \in SUBSET Int
    <3>1. freeMap \ FileAt(directory, sector, k) \in SUBSET Sectors
      BY DEF FsTypes
    <3> QED
      BY ONLY <3>1, SectorsAreNumbers
  <2>3. k \in Int
    BY <1>8, Ranges
  <2>4. call' \in CallValue
    BY <1>6, <2>1, <2>2, <2>3, NoCallIs DEF CallValue, RemovePhases
  <2> QED
    BY <1>1, <1>6, <2>4 DEF FsTypes
<1>10. Pending' = {}
  BY <1>7 DEF Pending, CreatePhases
<1>11. Settled' = Settled
  BY <1>1, <1>2, <1>10 DEF Settled
<1>12. Removing'
  BY <1>1, <1>7, <1>8, <1>11 DEF Removing
<1>13. Creating' /\ Writing'
  BY <1>7 DEF Creating, Writing, CreatePhases
<1> QED
  BY <1>1, <1>9, <1>11, <1>12, <1>13, DiskSame

(* A position has the quotient and the remainder it is written with.       *)
LEMMA QuotientIs ==
  ASSUME NEW q \in Nat, NEW r \in 0..(SectorSize - 1), NEW a, a = q * SectorSize + r
  PROVE  a \in Nat /\ a \div SectorSize = q /\ a % SectorSize = r
<1>1. SectorSize \in Nat /\ SectorSize > 0
  BY Constants
<1>2. a \in Nat
  <2>1. q * SectorSize \in Nat
    BY <1>1
  <2> QED
    BY <2>1
<1>3. PICK p : p = a \div SectorSize
  OBVIOUS
<1>4. PICK s : s = a % SectorSize
  OBVIOUS
<1>5. p \in Nat /\ s \in 0..(SectorSize - 1) /\ a = p * SectorSize + s
  BY <1>2, <1>3, <1>4, Division
<1>6. /\ q \in Int /\ p \in Int /\ r \in Int /\ s \in Int
      /\ 0 <= r /\ r < SectorSize /\ 0 <= s /\ s < SectorSize
  BY <1>1, <1>5
<1>7. /\ q * SectorSize + r <= p * SectorSize + s
      /\ p * SectorSize + s <= q * SectorSize + r
  <2>1. q * SectorSize + r = p * SectorSize + s
    BY <1>5
  <2>2. a <= a
    BY <1>2
  <2> QED
    BY <1>5, <2>1, <2>2
<1>8. q <= p /\ p <= q
  BY <1>6, <1>7, QuotientUnique
<1>9. q = p
  BY <1>6, <1>8
<1>10. q * SectorSize \in Int
  BY <1>1, <1>6
<1>11. r = s
  <2>1. q * SectorSize + r = q * SectorSize + s
    BY <1>5, <1>9
  <2> QED
    BY <1>6, <1>10, <2>1
<1> QED
  BY <1>2, <1>3, <1>4, <1>9, <1>11

(* The sectors that a write covers in part are read before.                *)
LEMMA ReadBeforeEnough ==
  ASSUME NEW position \in Nat, NEW num \in Nat, num > 0, NEW p \in Nat,
         p \div SectorSize >= position \div SectorSize,
         p \div SectorSize <= (position + num - 1) \div SectorSize,
         p \notin position..(position + num - 1)
  PROVE  p \div SectorSize \in ReadBefore(position, num)
<1>1. SectorSize \in Nat /\ SectorSize > 0
  BY Constants
<1>2. PICK e : e = position + num - 1
  OBVIOUS
<1>3. PICK first, rf : first = position \div SectorSize /\ rf = position % SectorSize
  OBVIOUS
<1>4. PICK last, rl : last = e \div SectorSize /\ rl = e % SectorSize
  OBVIOUS
<1>5. PICK q, r : q = p \div SectorSize /\ r = p % SectorSize
  OBVIOUS
<1>6. PICK c, s : c = (position + num) \div SectorSize /\ s = (position + num) % SectorSize
  OBVIOUS
<1>7. e \in Nat /\ position + num \in Nat /\ position + num = e + 1
  BY <1>2
<1>8. /\ first \in Nat /\ rf \in 0..(SectorSize - 1)
      /\ position = first * SectorSize + rf
  BY <1>3, Division
<1>9. last \in Nat /\ rl \in 0..(SectorSize - 1) /\ e = last * SectorSize + rl
  BY <1>4, <1>7, Division
<1>10. q \in Nat /\ r \in 0..(SectorSize - 1) /\ p = q * SectorSize + r
  BY <1>5, Division
<1>11. /\ c \in Nat /\ s \in 0..(SectorSize - 1)
       /\ position + num = c * SectorSize + s
  BY <1>6, <1>7, Division
<1>12. first <= q /\ q <= last
  BY <1>2, <1>3, <1>4, <1>5
<1>13. p < position \/ e < p
  <2>1. p \notin position..e
    BY <1>2
  <2> QED
    BY <1>7, <2>1
<1>14. ReadBefore(position, num) =
         (IF rf = 0 THEN {} ELSE {first}) \union
         (IF ~ (s = 0) /\ (first # last \/ rf = 0) THEN {last} ELSE {})
  BY <1>2, <1>3, <1>4, <1>6, Zenon DEF ReadBefore
<1>15. CASE p < position
  <2>1. q * SectorSize + r <= first * SectorSize + rf
    <3>1. p <= position
      BY <1>15
    <3> QED
      BY <1>8, <1>10, <3>1
  <2>2. q <= first
    <3>1. /\ q \in Int /\ first \in Int /\ r \in Int /\ rf \in Int
          /\ 0 <= r /\ r < SectorSize /\ 0 <= rf /\ rf < SectorSize
      BY <1>1, <1>8, <1>10
    <3> QED
      BY <2>1, <3>1, QuotientUnique
  <2>3. q = first
    BY <1>8, <1>10, <1>12, <2>2
  <2>4. q * SectorSize \in Int
    BY <1>1, <1>10
  <2>5. rf # 0
    BY <1>1, <1>8, <1>10, <1>15, <2>3, <2>4
  <2> QED
    BY <1>5, <1>14, <2>3, <2>5
<1>16. CASE e < p
  <2>1. last * SectorSize + rl <= q * SectorSize + r
    <3>1. e <= p
      BY <1>7, <1>16
    <3> QED
      BY <1>9, <1>10, <3>1
  <2>2. last <= q
    <3>1. /\ q \in Int /\ last \in Int /\ r \in Int /\ rl \in Int
          /\ 0 <= r /\ r < SectorSize /\ 0 <= rl /\ rl < SectorSize
      BY <1>1, <1>9, <1>10
    <3> QED
      BY <2>1, <3>1, QuotientUnique
  <2>3. q = last
    BY <1>9, <1>10, <1>12, <2>2
  <2>4. q * SectorSize \in Int
    BY <1>1, <1>10
  <2>5. rl + 1 \in 1..(SectorSize - 1)
    BY <1>1, <1>9, <1>10, <1>16, <2>3, <2>4
  <2>6. position + num = last * SectorSize + (rl + 1)
    BY <1>1, <1>7, <1>9, <2>3, <2>4
  <2>7. rl + 1 \in 0..(SectorSize - 1)
    BY <1>1, <1>9, <2>5
  <2>8. (position + num) % SectorSize = rl + 1
    BY <1>9, <2>6, <2>7, QuotientIs
  <2>9. s # 0
    BY <1>6, <2>5, <2>8
  <2>10. CASE first # last \/ rf = 0
    BY <1>5, <1>14, <2>3, <2>9, <2>10
  <2>11. CASE first = last /\ rf # 0
    BY <1>5, <1>14, <2>3, <2>11
  <2> QED
    BY <2>10, <2>11
<1> QED
  BY <1>13, <1>15, <1>16

LEMMA ByteAtOld ==
  ASSUME NEW n, NEW i
  PROVE  ByteAt(n, i) =
           Old(HeaderOf(n).dataSectors[(i \div SectorSize) + 1], (i % SectorSize) + 1)
BY Zenon DEF ByteAt, Old

LEMMA OldIs ==
  ASSUME FsTypes, NEW s \in Sectors, NEW j \in 1..SectorSize
  PROVE  Old(s, j) \in Int
<1>1. sector[s].bytes \in {<<>>} \union SectorBytes
  BY DEF FsTypes, SectorValue
<1>2. sector[s].bytes # <<>> => sector[s].bytes[j] \in Int
  BY <1>1 DEF SectorBytes
<1>3. Uninitialised \in Int
  BY DEF Uninitialised
<1> QED
  BY <1>2, <1>3 DEF Old

(* What a buffer may be that goes to a file from a sector on: outside the  *)
(* span it holds what the file does.                                       *)
Rewrites(buf, first, h, span) ==
  /\ first \in Nat /\ buf \in Seq(SectorBytes) /\ buf # <<>>
  /\ first + Len(buf) <= NumSectorsOf(h.numBytes)
  /\ \A k \in 1..Len(buf), j \in 1..SectorSize : \A p \in 0..(h.numBytes - 1) :
       /\ p = (first + k - 1) * SectorSize + j - 1 /\ p \notin span
       => buf[k][j] = Old(h.dataSectors[first + k], j)

(* WriteAt makes such a buffer.                                            *)
LEMMA BufferIs ==
  ASSUME FsTypes, NEW n, NEW position \in Nat, NEW num \in Nat, num > 0,
         NEW byte \in Byte, Formed(HeaderOf(n)), HeaderOf(n).numBytes \in Nat,
         position + num <= HeaderOf(n).numBytes
  PROVE  Rewrites(Buffer(n, position, num, byte), position \div SectorSize,
                  HeaderOf(n), position..(position + num - 1))
<1> DEFINE h == HeaderOf(n)
<1>a. PICK len : len = h.numBytes
  OBVIOUS
<1>b. PICK first : first = position \div SectorSize
  OBVIOUS
<1>c. len \in Nat /\ position + num <= len
  BY <1>a
<1>1. SectorSize \in Nat /\ SectorSize > 0 /\ byte \in Int
  BY Constants
<1>2. PICK e : e = position + num - 1
  OBVIOUS
<1>3. PICK last : last = e \div SectorSize
  OBVIOUS
<1>4. e \in Nat /\ e \in 0..(len - 1)
  BY <1>2, <1>c
<1>5. first \in Nat /\ last \in Nat
  <2>1. first \in Nat
    <3>1. PICK r : r = position % SectorSize
      OBVIOUS
    <3> QED
      BY <1>b, <3>1, Division
  <2>2. last \in Nat
    <3>1. PICK r : r = e % SectorSize
      OBVIOUS
    <3> QED
      BY <1>3, <1>4, <3>1, Division
  <2> QED
    BY <2>1, <2>2
<1>6. first <= last
  <2>1. PICK r : r = position % SectorSize
    OBVIOUS
  <2>2. PICK s : s = e % SectorSize
    OBVIOUS
  <2>3. r \in 0..(SectorSize - 1) /\ position = first * SectorSize + r
    BY <1>b, <2>1, Division
  <2>4. s \in 0..(SectorSize - 1) /\ e = last * SectorSize + s
    BY <1>3, <1>4, <2>2, Division
  <2>5. first * SectorSize + r <= last * SectorSize + s
    <3>1. position <= e
      BY <1>2
    <3> QED
      BY <2>3, <2>4, <3>1
  <2>6. /\ first \in Int /\ last \in Int /\ r \in Int /\ s \in Int
        /\ 0 <= r /\ r < SectorSize /\ 0 <= s /\ s < SectorSize
    BY <1>1, <1>5, <2>3, <2>4
  <2> QED
    BY <2>5, <2>6, QuotientUnique
<1>7. last + 1 <= NumSectorsOf(len) /\ NumSectorsOf(len) \in Nat
  BY <1>3, <1>4, <1>c, SectorsEnough
<1> DEFINE At(i) == IF i \in position..(position + num - 1) THEN byte
                    ELSE IF /\ i \div SectorSize \in ReadBefore(position, num)
                            /\ i < h.numBytes
                         THEN ByteAt(n, i)
                         ELSE Uninitialised
           buf == Buffer(n, position, num, byte)
           z == last - first + 1
<1>8. buf = [k \in 1..z |-> [j \in 1..SectorSize |-> At((first + k - 1) * SectorSize + j - 1)]]
  BY <1>2, <1>3, <1>b, Zenon DEF Buffer
<1>9. ASSUME NEW k \in 1..z, NEW j \in 1..SectorSize, NEW p,
             p = (first + k - 1) * SectorSize + j - 1
      PROVE  /\ p \in Nat /\ p \div SectorSize = first + k - 1
             /\ p % SectorSize = j - 1
  <2>1. PICK q, r : q = first + k - 1 /\ r = j - 1
    OBVIOUS
  <2>2. q \in Nat /\ r \in 0..(SectorSize - 1)
    BY <1>1, <1>5, <2>1
  <2>3. p = q * SectorSize + r
    <3>1. q * SectorSize \in Int
      BY <1>1, <2>2
    <3>2. p = q * SectorSize + j - 1
      BY <1>9, <2>1
    <3> QED
      BY <2>1, <3>1, <3>2
  <2> QED
    BY <2>1, <2>2, <2>3, QuotientIs
<1>10. ASSUME NEW k \in 1..z, NEW j \in 1..SectorSize, NEW p,
              p = (first + k - 1) * SectorSize + j - 1, p < len
       PROVE  /\ ByteAt(n, p) = Old(h.dataSectors[first + k], j)
              /\ ByteAt(n, p) \in Int
  <2>1. p \in Nat /\ p \div SectorSize = first + k - 1 /\ p % SectorSize = j - 1
    BY <1>9, <1>10
  <2>2. (p \div SectorSize) + 1 = first + k /\ (p % SectorSize) + 1 = j
    BY <1>1, <1>5, <2>1
  <2>3. ByteAt(n, p) = Old(h.dataSectors[first + k], j)
    BY <2>2, ByteAtOld
  <2>4. first + k \in 1..NumSectorsOf(len)
    BY <1>5, <1>6, <1>7
  <2>5. h.dataSectors[first + k] \in Sectors
    BY <1>a, <2>4 DEF Formed
  <2> QED
    BY <2>3, <2>5, OldIs
<1>11. ASSUME NEW k \in 1..z, NEW j \in 1..SectorSize, NEW p,
              p = (first + k - 1) * SectorSize + j - 1
       PROVE  At(p) \in Int
  <2>1. Uninitialised \in Int
    BY DEF Uninitialised
  <2>2. p < len => ByteAt(n, p) \in Int
    BY <1>10, <1>11
  <2> QED
    BY <1>1, <1>a, <2>1, <2>2
<1>12. ASSUME NEW k \in 1..z, NEW j \in 1..SectorSize, NEW p \in 0..(len - 1),
              p = (first + k - 1) * SectorSize + j - 1,
              p \notin position..(position + num - 1)
       PROVE  At(p) = Old(h.dataSectors[first + k], j)
  <2>1. p \in Nat /\ p < len
    BY <1>c
  <2>0. p \div SectorSize = first + k - 1
    BY <1>9, <1>12
  <2>2. p \div SectorSize >= first /\ p \div SectorSize <= last
    BY <1>5, <2>0
  <2>3. p \div SectorSize \in ReadBefore(position, num)
    BY <1>2, <1>3, <1>b, <1>12, <2>1, <2>2, ReadBeforeEnough
  <2>4. At(p) = ByteAt(n, p)
    BY <1>12, <1>a, <2>1, <2>3
  <2> QED
    BY <1>10, <1>12, <2>1, <2>4
<1> HIDE DEF At, h
<1>13. z \in Nat /\ z > 0 /\ first + z <= NumSectorsOf(len)
  BY <1>5, <1>6, <1>7
<1> HIDE DEF z
<1>14. \A k \in 1..z : [j \in 1..SectorSize |-> At((first + k - 1) * SectorSize + j - 1)]
                         \in SectorBytes
  BY <1>11 DEF SectorBytes
<1>15. buf \in [1..z -> SectorBytes]
  <2> HIDE DEF buf
  <2> QED
    BY <1>8, <1>14
<1>16. buf \in Seq(SectorBytes) /\ Len(buf) = z /\ buf # <<>>
  <2> HIDE DEF buf
  <2> QED
    BY <1>13, <1>15
<1>17. \A k \in 1..z, j \in 1..SectorSize :
         buf[k][j] = At((first + k - 1) * SectorSize + j - 1)
  <2> HIDE DEF buf
  <2> QED
    BY <1>8
<1>18. \A k \in 1..z, j \in 1..SectorSize : \A p \in 0..(len - 1) :
         /\ p = (first + k - 1) * SectorSize + j - 1
         /\ p \notin position..(position + num - 1)
         => buf[k][j] = Old(h.dataSectors[first + k], j)
  <2> HIDE DEF buf
  <2> QED
    BY <1>12, <1>17
<1>19. Rewrites(buf, first, h, position..(position + num - 1))
  <2> HIDE DEF buf
  <2> QED
    BY <1>5, <1>13, <1>16, <1>18, <1>a DEF Rewrites
<1> QED
  BY <1>19, <1>b DEF h

LEMMA WriteStep ==
  ASSUME FilesInv, NEW n \in Name, NEW position \in Nat, NEW num \in Nat, num > 0,
         NEW byte \in Byte, Write(n, position, num, byte)
  PROVE  FilesInv'
<1> USE DEF FilesInv
<1> DEFINE length == HeaderOf(n).numBytes
           most == IF position + num > length THEN length - position ELSE num
           buf == Buffer(n, position, most, byte)
           first == position \div SectorSize
<1>1. /\ call.at = "none" /\ n \in Usable /\ position < length
      /\ call' = [NoCall EXCEPT !.at = "write", !.name = n, !.hdr = HeaderOf(n),
                    !.next = first, !.buf = buf, !.span = position..(position + most - 1)]
      /\ UNCHANGED <<sector, freeMap, directory, hit, crashed>>
  BY DEF Write
<1>2. Pending = {}
  BY <1>1 DEF Pending, CreatePhases
<1>3. PICK e \in Settled : /\ directory[e].name = n
                           /\ Find(directory, n) = directory[e].sector
  BY <1>1, <1>2, UsableSettled
<1>4. HeaderOf(n) = sector[directory[e].sector]
  BY <1>3 DEF HeaderOf
<1>5. HeaderOf(n) \in SectorValue /\ Formed(HeaderOf(n))
  <2>1. e \in Entries
    BY SettledEntries
  <2>2. Formed(sector[directory[e].sector])
    BY DEF SoundFiles
  <2> QED
    BY <1>4, <2>1, <2>2, FilesInSectors
<1>6. length \in Nat
  BY <1>5 DEF SectorValue
<1>7. most \in Nat /\ most > 0 /\ position + most <= length
  <2> HIDE DEF length
  <2> QED
    BY <1>1, <1>6
<1> HIDE DEF most
<1>8. PICK len : len = length
  OBVIOUS
<1>9. /\ first \in Nat /\ buf \in Seq(SectorBytes) /\ buf # <<>>
      /\ first + Len(buf) <= NumSectorsOf(len)
      /\ \A k \in 1..Len(buf), j \in 1..SectorSize : \A p \in 0..(len - 1) :
           /\ p = (first + k - 1) * SectorSize + j - 1
           /\ p \notin position..(position + most - 1)
           => buf[k][j] = Old(HeaderOf(n).dataSectors[first + k], j)
  <2>1. /\ FsTypes /\ Formed(HeaderOf(n)) /\ len \in Nat
        /\ len = HeaderOf(n).numBytes /\ position + most <= len
    BY <1>5, <1>6, <1>7, <1>8
  <2>2. Rewrites(buf, first, HeaderOf(n), position..(position + most - 1))
    BY <1>7, <2>1, BufferIs
  <2> HIDE DEF buf, first
  <2> QED
    BY <1>8, <2>2 DEF Rewrites
<1> HIDE DEF buf, first
<1>10. /\ call'.at = "write" /\ call'.name = n /\ call'.hdr = HeaderOf(n)
       /\ call'.next = first /\ call'.buf = buf
       /\ call'.span = position..(position + most - 1)
  BY <1>1, NoCallIs DEF CallValue
<1>11. FsTypes'
  <2>1. position..(position + most - 1) \in SUBSET Int
    BY <1>7
  <2>2. first \in Int /\ buf \in Seq(SectorBytes)
    BY <1>9
  <2>3. call' = [NoCall EXCEPT !.at = "write", !.name = n, !.hdr = HeaderOf(n),
                   !.next = first, !.buf = buf, !.span = position..(position + most - 1)]
    BY <1>1 DEF first, buf
  <2>4. call' \in CallValue
    BY ONLY <1>5, <2>1, <2>2, <2>3, NoCallIs, n \in Name DEF CallValue
  <2> QED
    BY <1>1, <2>4 DEF FsTypes
<1>12. Settled' = Settled
  <2>1. Pending' = {}
    BY <1>10 DEF Pending, CreatePhases
  <2> QED
    BY <1>1, <1>2, <2>1 DEF Settled
<1>13. \A k \in 1..Len(buf), j \in 1..SectorSize : KeepsOld(k, j)'
  <2> SUFFICES ASSUME NEW k \in 1..Len(buf), NEW j \in 1..SectorSize
               PROVE  KeepsOld(k, j)'
    OBVIOUS
  <2>1. call'.hdr.numBytes = len
    BY <1>8, <1>10
  <2>2. \A p \in 0..(len - 1) :
          /\ p = (first + k - 1) * SectorSize + j - 1
          /\ p \notin position..(position + most - 1)
          => buf[k][j] = Old(HeaderOf(n).dataSectors[first + k], j)
    BY <1>9
  <2>3. PICK s : s = HeaderOf(n).dataSectors[first + k]
    OBVIOUS
  <2>4. Old(s, j)' = Old(s, j)
    BY <1>1 DEF Old
  <2>5. Old(call.hdr.dataSectors[call.next + k], j)' = Old(s, j)
    BY <1>1, <1>10, <2>3 DEF Old
  <2> QED
    BY <1>10, <2>1, <2>2, <2>3, <2>5 DEF KeepsOld
<1>14. Writing'
  <2>1. /\ call'.name = directory'[e].name
        /\ call'.hdr = sector'[directory'[e].sector]
    BY <1>1, <1>3, <1>4, <1>10
  <2>2. e \in Settled'
    BY <1>12
  <2>3. NumSectorsOf(call'.hdr.numBytes) = NumSectorsOf(len)
    BY <1>8, <1>10
  <2>4. call'.next + Len(call'.buf) <= NumSectorsOf(call'.hdr.numBytes)
    BY <1>9, <1>10, <2>3
  <2> QED
    BY <1>9, <1>10, <1>13, <2>1, <2>2, <2>4 DEF Writing
<1>15. Creating' /\ Removing'
  BY <1>10 DEF Creating, Removing, CreatePhases, RemovePhases
<1> QED
  BY <1>1, <1>11, <1>12, <1>14, <1>15, DiskSame

(* The sector that a write is to write next belongs to the file, is not    *)
(* its header's and no other file's.                                       *)
LEMMA WrittenSector ==
  ASSUME FilesInv, call.at = "write"
  PROVE  \E e \in Settled, s \in Sectors :
           /\ call.name = directory[e].name
           /\ call.hdr = sector[directory[e].sector]
           /\ s = call.hdr.dataSectors[call.next + 1]
           /\ call.next + 1 \in 1..NumSectorsOf(call.hdr.numBytes)
           /\ s \in Range(call.hdr.dataSectors)
           /\ \A i \in Settled : directory[i].sector # s
           /\ \A i \in Settled : i # e => s \notin FileAt(directory, sector, i)
<1> USE DEF FilesInv
<1>1. PICK e \in Settled : /\ call.name = directory[e].name
                           /\ call.hdr = sector[directory[e].sector]
  BY DEF Writing
<1>2. PICK N : N = NumSectorsOf(call.hdr.numBytes)
  OBVIOUS
<1>3. /\ Formed(call.hdr)
      /\ directory[e].sector \notin Range(call.hdr.dataSectors)
  BY <1>1 DEF SoundFiles
<1>4. N \in Nat /\ call.next + 1 \in 1..N
  <2>1. call.hdr.numBytes \in Nat
    BY DEF FsTypes, CallValue, SectorValue
  <2>2. N \in Nat
    BY <1>2, <2>1, SectorsEnough
  <2>3. call.next \in Nat /\ call.buf \in Seq(SectorBytes) /\ call.buf # <<>>
        /\ call.next + Len(call.buf) <= N
    BY <1>2 DEF Writing, FsTypes, CallValue
  <2>4. Len(call.buf) \in Nat /\ Len(call.buf) > 0
    BY <2>3
  <2> QED
    BY <2>2, <2>3, <2>4
<1>5. PICK s : s = call.hdr.dataSectors[call.next + 1]
  OBVIOUS
<1>6. s \in Sectors /\ s \in Range(call.hdr.dataSectors)
  BY <1>2, <1>3, <1>4, <1>5 DEF Formed, Range
<1>7. s \in FileAt(directory, sector, e)
  BY <1>1, <1>6 DEF FileAt
<1>8. \A i \in Settled : i # e => s \notin FileAt(directory, sector, i)
  BY <1>7 DEF SoundFiles
<1>9. \A i \in Settled : directory[i].sector # s
  BY <1>3, <1>6, <1>8 DEF FileAt
<1> QED
  BY <1>1, <1>2, <1>4, <1>5, <1>6, <1>8, <1>9

LEMMA WriteSectorStep ==
  ASSUME FilesInv, WriteSector
  PROVE  FilesInv'
<1> USE DEF FilesInv
<1>1. /\ call.at = "write"
      /\ call' = IF Len(call.buf) = 1 THEN NoCall
                 ELSE [call EXCEPT !.buf = Tail(@), !.next = @ + 1]
      /\ UNCHANGED <<freeMap, directory, hit, crashed>>
  BY DEF WriteSector
<1>2. PICK e \in Settled, s \in Sectors :
        /\ call.name = directory[e].name
        /\ call.hdr = sector[directory[e].sector]
        /\ s = call.hdr.dataSectors[call.next + 1]
        /\ call.next + 1 \in 1..NumSectorsOf(call.hdr.numBytes)
        /\ s \in Range(call.hdr.dataSectors)
        /\ \A i \in Settled : directory[i].sector # s
        /\ \A i \in Settled : i # e => s \notin FileAt(directory, sector, i)
  BY <1>1, WrittenSector
<1>3. sector' = [sector EXCEPT ![s] = Data(Head(call.buf))]
  BY <1>2 DEF WriteSector
<1>4. /\ call \in CallValue /\ call.buf \in Seq(SectorBytes) /\ call.buf # <<>>
      /\ call.next \in Nat /\ call.hdr.numBytes \in Nat
      /\ call.next + Len(call.buf) <= NumSectorsOf(call.hdr.numBytes)
      /\ \A k \in 1..Len(call.buf), j \in 1..SectorSize : KeepsOld(k, j)
  BY <1>1 DEF FsTypes, CallValue, SectorValue, Writing
<1>5. Data(Head(call.buf)) \in SectorValue
  <2>1. Head(call.buf) \in SectorBytes /\ <<>> \in Seq(Sectors)
    BY <1>4
  <2> QED
    BY <2>1 DEF Data, SectorValue
<1>6. sector' \in [Sectors -> SectorValue]
  BY <1>3, <1>5 DEF FsTypes
<1>7. \A i \in Settled : sector'[directory[i].sector] = sector[directory[i].sector]
  <2>1. \A i \in Settled : directory[i].sector \in Sectors
    BY SettledEntries, FilesInSectors
  <2> QED
    BY <1>2, <1>3, <2>1 DEF FsTypes
<1>8. Pending = {}
  BY <1>1 DEF Pending, CreatePhases
<1>9. /\ SoundFiles(directory, sector', Settled)
      /\ \A i \in Settled :
           FileAt(directory, sector', i) = FileAt(directory, sector, i)
  <2>1. SoundFiles(directory, sector, Settled)
    OBVIOUS
  <2> QED
    BY <1>7, <2>1, HeadersStay
<1>10. Marked(directory, sector', Settled) = Marked(directory, sector, Settled)
  BY <1>9, MarkedStays
<1>11. CASE Len(call.buf) = 1
  <2>1. call' = NoCall /\ call'.at = "none"
    BY <1>1, <1>11, NoCallIs
  <2>2. FsTypes'
    BY <1>1, <1>6, <2>1, NoCallIs DEF FsTypes
  <2>3. Pending' = {}
    BY <2>1 DEF Pending, CreatePhases
  <2>4. Settled' = Settled
    BY <1>1, <1>8, <2>3 DEF Settled
  <2>5. Creating' /\ Removing' /\ Writing'
    BY <2>1 DEF Creating, Removing, Writing, CreatePhases, RemovePhases
  <2> QED
    BY <1>1, <1>9, <1>10, <2>2, <2>4, <2>5
<1>12. CASE Len(call.buf) # 1
  <2>1. call' = [call EXCEPT !.buf = Tail(call.buf), !.next = call.next + 1]
    BY <1>1, <1>12
  <2>2. /\ call'.at = "write" /\ call'.name = call.name /\ call'.hdr = call.hdr
        /\ call'.next = call.next + 1 /\ call'.buf = Tail(call.buf)
        /\ call'.span = call.span
    BY <1>1, <1>4, <2>1 DEF CallValue
  <2>3. /\ Tail(call.buf) \in Seq(SectorBytes) /\ Tail(call.buf) # <<>>
        /\ Len(Tail(call.buf)) = Len(call.buf) - 1 /\ Len(call.buf) \in Nat
        /\ \A k \in 1..(Len(call.buf) - 1) : Tail(call.buf)[k] = call.buf[k + 1]
    <3>1. PICK b : b = call.buf
      OBVIOUS
    <3>2. b \in Seq(SectorBytes) /\ b # <<>> /\ Len(b) # 1
      BY <1>4, <1>12, <3>1
    <3>3. Len(b) \in Nat /\ Len(b) > 1
      <4>1. PICK l : l = Len(b)
        OBVIOUS
      <4>2. l \in Nat /\ l # 0
        BY <3>2, <4>1
      <4>3. l # 1
        BY <3>2, <4>1
      <4>4. l > 1
        BY ONLY <4>2, <4>3
      <4> QED
        BY <4>1, <4>2, <4>4
    <3>4. /\ Tail(b) \in Seq(SectorBytes) /\ Tail(b) # <<>>
          /\ Len(Tail(b)) = Len(b) - 1
          /\ \A k \in 1..(Len(b) - 1) : Tail(b)[k] = b[k + 1]
      BY ONLY <3>2, <3>3
    <3> QED
      BY <3>1, <3>3, <3>4
  <2>4. FsTypes'
    <3>1. call.next + 1 \in Int
      BY <1>4
    <3>2. call' \in CallValue
      BY <1>4, <2>1, <2>3, <3>1 DEF CallValue
    <3> QED
      BY <1>1, <1>6, <3>2 DEF FsTypes
  <2>5. Pending' = {}
    BY <2>2 DEF Pending, CreatePhases
  <2>6. Settled' = Settled
    BY <1>1, <1>8, <2>5 DEF Settled
  <2>7. ASSUME NEW k \in 1..(Len(call.buf) - 1), NEW j \in 1..SectorSize
        PROVE  KeepsOld(k, j)'
    <3>1. PICK u : u = call.hdr.dataSectors[call.next + 1 + k]
      OBVIOUS
    <3>2. u \in Sectors /\ u # s
      <4>1. PICK N : N = NumSectorsOf(call.hdr.numBytes)
        OBVIOUS
      <4>2. N \in Nat
        BY <1>4, <4>1, SectorsEnough
      <4>3. call.next + 1 \in 1..N /\ call.next + 1 + k \in 1..N
            /\ call.next + 1 # call.next + 1 + k
        <5>1. PICK a, b : a = call.next /\ b = Len(call.buf)
          OBVIOUS
        <5>2. a \in Nat /\ b \in Nat /\ a + b <= N /\ k \in 1..(b - 1)
          BY <1>4, <2>3, <4>1, <5>1
        <5>3. a + 1 \in 1..N /\ a + 1 + k \in 1..N /\ a + 1 # a + 1 + k
          BY ONLY <4>2, <5>2
        <5> QED
          BY <5>1, <5>3
      <4>4. Formed(call.hdr)
        BY <1>2 DEF SoundFiles
      <4> QED
        BY <1>2, <3>1, <4>1, <4>3, <4>4 DEF Formed
    <3>3. Old(u, j)' = Old(u, j)
      BY <1>3, <3>2 DEF Old, FsTypes
    <3>4. Old(call.hdr.dataSectors[call.next + k], j)' = Old(u, j)
      BY <2>2, <3>1, <3>3 DEF Old
    <3>5. k + 1 \in 1..Len(call.buf) /\ Tail(call.buf)[k] = call.buf[k + 1]
      BY <2>3
    <3>6. KeepsOld(k + 1, j)
      BY <1>4, <3>5
    <3>7. /\ call.next + (k + 1) - 1 = call.next + 1 + k - 1
          /\ call.next + (k + 1) = call.next + 1 + k
      <4>1. PICK a : a = call.next
        OBVIOUS
      <4>2. a \in Nat
        BY <1>4, <4>1
      <4>3. a + (k + 1) - 1 = a + 1 + k - 1 /\ a + (k + 1) = a + 1 + k
        BY ONLY <4>2, k \in 1..(Len(call.buf) - 1)
      <4> QED
        BY <4>1, <4>3, Zenon
    <3>8. \A p \in 0..(call.hdr.numBytes - 1) :
            /\ p = (call.next + 1 + k - 1) * SectorSize + j - 1
            /\ p \notin call.span
            => call.buf[k + 1][j] = Old(u, j)
      BY <3>1, <3>6, <3>7 DEF KeepsOld
    <3> QED
      BY <2>2, <3>4, <3>5, <3>8 DEF KeepsOld
  <2>8. Writing'
    <3>1. /\ call'.name = directory'[e].name
          /\ call'.hdr = sector'[directory'[e].sector]
      BY <1>1, <1>2, <1>7, <2>2
    <3>2. e \in Settled'
      BY <2>6
    <3>3. call'.next + Len(call'.buf) <= NumSectorsOf(call'.hdr.numBytes)
      <4>1. PICK N : N = NumSectorsOf(call.hdr.numBytes)
        OBVIOUS
      <4>2. N \in Nat
        BY <1>4, <4>1, SectorsEnough
      <4>3. call.next + Len(call.buf) <= N
        BY <1>4, <4>1
      <4>4. call.next + 1 + (Len(call.buf) - 1) <= N
        BY <1>4, <2>3, <4>2, <4>3
      <4> QED
        BY <2>2, <2>3, <4>1, <4>4
    <3>4. call'.next \in Nat /\ call'.buf # <<>>
      BY <1>4, <2>2, <2>3
    <3>5. \A k \in 1..Len(call'.buf), j \in 1..SectorSize : KeepsOld(k, j)'
      BY <2>2, <2>3, <2>7
    <3> QED
      BY <3>1, <3>2, <3>3, <3>4, <3>5 DEF Writing
  <2>9. Creating' /\ Removing'
    BY <2>2 DEF Creating, Removing, CreatePhases, RemovePhases
  <2> QED
    BY <1>1, <1>9, <1>10, <2>4, <2>6, <2>8, <2>9
<1> QED
  BY <1>11, <1>12

(* What a crash leaves half done is an entry of its own.                   *)
LEMMA CrashStep ==
  ASSUME FilesInv, Crash
  PROVE  FilesInv'
<1> USE DEF FilesInv
<1>1. /\ call.at # "none" /\ call' = NoCall
      /\ hit' = IF /\ call.at \in {"dir2", "map", "undir1", "undir2"}
                   /\ directory[call.entry].inUse
                THEN hit \union {call.entry} ELSE hit
      /\ UNCHANGED <<sector, freeMap, directory, crashed>>
  BY DEF Crash
<1>2. call'.at = "none"
  BY <1>1, NoCallIs
<1>3. call.at \in CreatePhases \union RemovePhases => call.entry \in Entries
  BY DEF Creating, Removing
<1>4. FsTypes'
  <2>1. hit' \subseteq Entries /\ \A i \in hit' : directory[i].inUse
    BY <1>1, <1>3 DEF FsTypes, CreatePhases, RemovePhases
  <2> QED
    BY <1>1, <2>1, NoCallIs DEF FsTypes
<1>5. Pending' = {}
  BY <1>2 DEF Pending, CreatePhases
<1>6. Settled' = Settled
  <2>1. CASE call.at \in {"dir2", "map", "undir1", "undir2"}
    <3>1. Pending = {call.entry}
      BY <2>1 DEF Pending, CreatePhases
    <3> QED
      BY <1>1, <1>5, <2>1, <3>1 DEF Settled
  <2>2. CASE call.at \in {"header", "dir1"}
    <3>1. Pending = {call.entry} /\ ~ directory[call.entry].inUse
      BY <2>2 DEF Pending, CreatePhases, Creating
    <3> QED
      BY <1>1, <1>5, <2>2, <3>1 DEF Settled
  <2>3. CASE call.at \in {"write", "unmap"}
    <3>1. Pending = {}
      BY <2>3 DEF Pending, CreatePhases
    <3> QED
      BY <1>1, <1>5, <2>3, <3>1 DEF Settled
  <2>4. call.at \in CreatePhases \union RemovePhases \union {"none", "write"}
    BY DEF FsTypes, CallValue
  <2> QED
    BY <1>1, <2>1, <2>2, <2>3, <2>4 DEF CreatePhases, RemovePhases
<1>7. Creating' /\ Removing' /\ Writing'
  BY <1>2 DEF Creating, Removing, Writing, CreatePhases, RemovePhases
<1> QED
  BY <1>1, <1>4, <1>6, <1>7, DiskSame

LEMMA FilesStutter ==
  ASSUME FilesInv, UNCHANGED fsVars
  PROVE  FilesInv'
<1> USE DEF FilesInv
<1>1. UNCHANGED <<sector, freeMap, directory, call, hit, crashed>>
  BY DEF fsVars
<1>2. Settled' = Settled
  BY <1>1 DEF Settled, Pending
<1>3. FsTypes'
  BY <1>1 DEF FsTypes
<1>4. Creating'
  BY <1>1 DEF Creating
<1>5. Removing'
  BY <1>1, <1>2 DEF Removing
<1>6. Writing'
  BY <1>1, <1>2 DEF Writing, KeepsOld, Old
<1> QED
  BY <1>1, <1>2, <1>3, <1>4, <1>5, <1>6, DiskSame

LEMMA FilesInductive ==
  ASSUME FilesInv, [FsNext]_fsVars
  PROVE  FilesInv'
<1>1. ASSUME NEW n \in Name, NEW size \in Sizes, Create(n, size)
      PROVE  FilesInv'
  BY <1>1, CreateStep
<1>2. ASSUME NEW n \in Name, RemoveFile(n)
      PROVE  FilesInv'
  BY <1>2, RemoveFileStep
<1>3. ASSUME NEW n \in Name, NEW position \in 0..(NumDirect * SectorSize - 1),
             NEW num \in 1..(2 * SectorSize - 1), NEW byte \in Byte,
             Write(n, position, num, byte)
      PROVE  FilesInv'
  <2>1. position \in Nat /\ num \in Nat /\ num > 0
    OBVIOUS
  <2> QED
    BY <1>3, <2>1, WriteStep
<1>4. CASE WriteDirectory
  <2>1. call.at \in {"dir1", "dir2", "undir1", "undir2"}
    BY <1>4 DEF WriteDirectory
  <2> QED
    BY <1>4, <2>1, CreateDirectoryStep, RemoveDirectoryStep
<1>5. CASE WriteFreeMap
  <2>1. call.at \in {"map", "unmap"}
    BY <1>5 DEF WriteFreeMap
  <2> QED
    BY <1>5, <2>1, CreateMapStep, RemoveMapStep
<1>6. CASE WriteHeader
  BY <1>6, WriteHeaderStep
<1>7. CASE WriteSector
  BY <1>7, WriteSectorStep
<1>8. CASE Crash
  BY <1>8, CrashStep
<1>9. CASE UNCHANGED fsVars
  BY <1>9, FilesStutter
<1> QED
  BY <1>1, <1>2, <1>3, <1>4, <1>5, <1>6, <1>7, <1>8, <1>9 DEF FsNext

LEMMA FilesAlways == FsSpec => []FilesInv
<1>1. FsInit => FilesInv
  BY FilesInit
<1>2. FilesInv /\ [FsNext]_fsVars => FilesInv'
  BY FilesInductive
<1> QED
  BY <1>1, <1>2, PTL DEF FsSpec

LEMMA FilesInvSound ==
  ASSUME FilesInv
  PROVE  FilesSound
<1> USE DEF FilesInv
<1>1. ~ crashed
  BY DEF FsTypes
<1>2. ASSUME call.at = "none"
      PROVE  /\ freeMap = System \union UNION {SectorsOf(n) : n \in Usable}
             /\ \A n \in Usable :
                  /\ SectorsOf(n) \intersect System = {}
                  /\ Cardinality(SectorsOf(n)) = 1 + NumSectorsOf(HeaderOf(n).numBytes)
                  /\ \A m \in Usable \ {n} : SectorsOf(m) \intersect SectorsOf(n) = {}
  <2>1. Pending = {}
    BY <1>2 DEF Pending, CreatePhases
  <2>2. \A n \in Usable :
          \E i \in Settled : /\ directory[i].name = n
                             /\ Find(directory, n) = directory[i].sector
                             /\ SectorsOf(n) = FileAt(directory, sector, i)
    BY <2>1, UsableSettled
  <2>3. \A i \in Settled : /\ directory[i].name \in Usable
                           /\ SectorsOf(directory[i].name) = FileAt(directory, sector, i)
    BY <2>1, UsableSettled
  <2>4. UNION {SectorsOf(n) : n \in Usable} =
          UNION {FileAt(directory, sector, i) : i \in Settled}
    <3> HIDE DEF FilesInv
    <3> QED
      BY <2>2, <2>3
  <2>5. freeMap = System \union UNION {SectorsOf(n) : n \in Usable}
    BY <2>4 DEF Marked
  <2>6. ASSUME NEW n \in Usable
        PROVE  /\ SectorsOf(n) \intersect System = {}
               /\ Cardinality(SectorsOf(n)) = 1 + NumSectorsOf(HeaderOf(n).numBytes)
               /\ \A m \in Usable \ {n} : SectorsOf(m) \intersect SectorsOf(n) = {}
    <3>1. PICK i \in Settled : /\ directory[i].name = n
                               /\ Find(directory, n) = directory[i].sector
                               /\ SectorsOf(n) = FileAt(directory, sector, i)
      BY <2>2
    <3>2. SectorsOf(n) \intersect System = {}
      BY <3>1 DEF SoundFiles
    <3>3. ASSUME NEW m \in Usable \ {n}
          PROVE  SectorsOf(m) \intersect SectorsOf(n) = {}
      <4>1. PICK j \in Settled : /\ directory[j].name = m
                                 /\ SectorsOf(m) = FileAt(directory, sector, j)
        BY <2>2
      <4>2. j # i
        BY <3>1, <4>1
      <4>3. FileAt(directory, sector, j) \intersect FileAt(directory, sector, i) = {}
        BY <4>2 DEF SoundFiles
      <4> QED
        BY <3>1, <4>1, <4>3
    <3>4. PICK h : h = HeaderOf(n)
      OBVIOUS
    <3>5. PICK s : s = directory[i].sector
      OBVIOUS
    <3>6. h = sector[s] /\ s \in Sectors /\ h \in SectorValue
      BY <3>1, <3>4, <3>5, SettledEntries, FilesInSectors DEF HeaderOf
    <3>7. Formed(h) /\ s \notin Range(h.dataSectors)
      BY <3>5, <3>6 DEF SoundFiles
    <3>8. SectorsOf(n) = {s} \union Range(h.dataSectors)
      BY <3>1, <3>4, <3>5, Zenon DEF SectorsOf
    <3>9. h.numBytes \in Nat
      BY <3>6 DEF SectorValue
    <3>10. Cardinality({s} \union Range(h.dataSectors)) = 1 + NumSectorsOf(h.numBytes)
      BY <3>6, <3>7, <3>9, FileCardinality
    <3>11. Cardinality(SectorsOf(n)) = 1 + NumSectorsOf(HeaderOf(n).numBytes)
      BY <3>4, <3>8, <3>10, Zenon
    <3> QED
      BY <3>2, <3>3, <3>11
  <2> QED
    BY <2>5, <2>6
<1> QED
  BY <1>1, <1>2 DEF FilesSound

(* Whatever crashes do between the sector writes of Create and Remove, the *)
(* files they did not hit keep well-formed headers and sectors of their    *)
(* own, and the free map marks these and no more (FilesSound), on a disk   *)
(* and directory of any size, for any names and sizes of files.            *)
THEOREM FilesSoundHolds == FsSpec => []FilesSound
<1>1. FilesInv => FilesSound
  BY FilesInvSound
<1> QED
  BY <1>1, FilesAlways, PTL

-----------------------------------------------------------------------------
(* No step changes a byte that it is not about.                            *)

(* The bytes of a file, through the entry that is found for it.            *)
LEMMA ContentIs ==
  ASSUME FilesInv, NEW i \in Settled, NEW n, Find(directory, n) = directory[i].sector,
         NEW h, h = sector[directory[i].sector], NEW p \in 0..(h.numBytes - 1)
  PROVE  /\ HeaderOf(n) = h
         /\ (p \div SectorSize) + 1 \in 1..NumSectorsOf(h.numBytes)
         /\ (p % SectorSize) + 1 \in 1..SectorSize
         /\ h.dataSectors[(p \div SectorSize) + 1] \in Sectors
         /\ h.dataSectors[(p \div SectorSize) + 1] \in FileAt(directory, sector, i)
<1> USE DEF FilesInv
<1>1. HeaderOf(n) = h
  BY DEF HeaderOf
<1>2. h \in SectorValue
  BY SettledEntries, FilesInSectors
<1>3. h.numBytes \in Nat /\ p \in Nat
  BY <1>2 DEF SectorValue
<1>4. PICK q, r : q = p \div SectorSize /\ r = p % SectorSize
  OBVIOUS
<1>5. PICK N : N = NumSectorsOf(h.numBytes)
  OBVIOUS
<1>6. q \in Nat /\ r \in 0..(SectorSize - 1)
  BY <1>3, <1>4, Division
<1>7. N \in Nat /\ q + 1 <= N
  BY <1>3, <1>4, <1>5, SectorsEnough
<1>8. q + 1 \in 1..N /\ r + 1 \in 1..SectorSize
  BY <1>6, <1>7, Constants
<1>9. Formed(h)
  BY DEF SoundFiles
<1>10. h.dataSectors[q + 1] \in Sectors /\ h.dataSectors[q + 1] \in Range(h.dataSectors)
  BY <1>5, <1>8, <1>9 DEF Formed, Range
<1>11. h.dataSectors[q + 1] \in FileAt(directory, sector, i)
  BY <1>10 DEF FileAt
<1> QED
  BY <1>1, <1>4, <1>5, <1>8, <1>10, <1>11

(* A file whose sectors stay is found with the same bytes.                 *)
LEMMA ContentStays ==
  ASSUME FilesInv, NEW i \in Settled, NEW n,
         Find(directory, n) = directory[i].sector,
         Find(directory, n)' = directory[i].sector,
         \A s \in FileAt(directory, sector, i) : sector'[s] = sector[s]
  PROVE  Content(n)' = Content(n)
<1>1. PICK h : h = sector[directory[i].sector]
  OBVIOUS
<1>2. directory[i].sector \in FileAt(directory, sector, i)
  BY DEF FileAt
<1>3. HeaderOf(n) = h /\ HeaderOf(n)' = h
  BY <1>1, <1>2 DEF HeaderOf
<1>4. ASSUME NEW p \in 0..(h.numBytes - 1)
      PROVE  ByteAt(n, p)' = ByteAt(n, p)
  <2>1. PICK s : s = h.dataSectors[(p \div SectorSize) + 1]
    OBVIOUS
  <2>2. s \in FileAt(directory, sector, i)
    BY <1>1, <2>1, ContentIs
  <2>3. sector'[s] = sector[s]
    BY <2>2
  <2> QED
    BY <1>3, <2>1, <2>3 DEF ByteAt
<1> QED
  BY <1>3, <1>4 DEF Content

(* So is one on a disk that stays.                                         *)
LEMMA ContentSame ==
  ASSUME NEW n, Find(directory, n)' = Find(directory, n), sector' = sector
  PROVE  Content(n)' = Content(n)
BY DEF Content, ByteAt, HeaderOf

(* Between the two writes of a directory no name changes its file.         *)
LEMMA FindKept ==
  ASSUME FilesInv, FilesInv', OneEntryWritten, NEW n \in Usable, n \in Usable'
  PROVE  Find(directory, n)' = Find(directory, n)
<1>1. PICK k \in Entries \ hit :
        /\ Pending = {k} /\ Settled' = Settled /\ UNCHANGED <<sector, hit>>
        /\ \A i \in Entries \ {k} : directory'[i] = directory[i]
        /\ directory[k].inUse => directory'[k].sector = directory[k].sector
  BY DEF OneEntryWritten
<1>2. NamesFirst(directory, Settled) /\ NamesFirst(directory', Settled)
  BY <1>1 DEF FilesInv
<1>3. PICK i \in Entries : /\ i = Least(Indexes(directory, n))
                           /\ directory[i].inUse /\ directory[i].name = n
                           /\ i \notin hit
                           /\ Find(directory, n) = directory[i].sector
  BY UsableIs
<1>4. PICK j \in Entries : /\ j = Least(Indexes(directory', n))
                           /\ directory'[j].inUse /\ directory'[j].name = n
                           /\ j \notin hit
                           /\ Find(directory', n) = directory'[j].sector
  <2>1. Indexes(directory', n) # {} /\ Least(Indexes(directory', n)) \notin hit
    BY <1>1 DEF Usable
  <2> QED
    BY <2>1, FoundIn
<1>5. Settled = {m \in Entries : directory[m].inUse} \ (hit \union {k})
  BY <1>1 DEF Settled
<1>6. CASE j # k
  <2>1. j \in Settled /\ directory[j] = directory'[j]
    BY <1>1, <1>4, <1>5, <1>6
  <2>2. /\ directory[j].name = n /\ directory[j].inUse
        /\ Find(directory, n) = directory[j].sector
    BY <1>2, <1>4, <2>1, SettledEntries, SettledFound
  <2> QED
    BY <1>4, <2>1, <2>2
<1>7. CASE j = k /\ i # k
  <2>1. i \in Settled /\ directory'[i] = directory[i]
    BY <1>1, <1>3, <1>5, <1>7
  <2>2. i <= j
    BY <1>2, <1>3, <1>4, <2>1 DEF NamesFirst
  <2>3. i \in Indexes(directory', n)
    BY <1>3, <2>1 DEF Indexes
  <2>4. j <= i
    <3>1. Indexes(directory', n) \in SUBSET Entries
      BY DEF Indexes
    <3> QED
      BY <1>4, <2>3, <3>1, LeastIs
  <2> QED
    BY <1>7, <2>2, <2>4, Ranges
<1>8. CASE j = k /\ i = k
  BY <1>1, <1>3, <1>4, <1>8
<1> QED
  BY <1>6, <1>7, <1>8

(* A write to a file changes it in the span and no other file.             *)
LEMMA WrittenContent ==
  ASSUME FilesInv, FilesInv', WriteSector, NEW n \in Usable
  PROVE  \/ Content(n)' = Content(n)
         \/ /\ n = call.name /\ call.at = "write"
            /\ \A i \in DOMAIN Content(n) : i \notin call.span =>
                 Content(n)'[i] = Content(n)[i]
<1>1. call.at = "write" /\ UNCHANGED directory
  BY DEF WriteSector
<1>2. Pending = {}
  BY <1>1 DEF Pending, CreatePhases
<1>3. PICK i \in Settled : /\ directory[i].name = n
                           /\ Find(directory, n) = directory[i].sector
  BY <1>2, UsableSettled
<1>4. PICK e \in Settled, s \in Sectors :
        /\ call.name = directory[e].name
        /\ call.hdr = sector[directory[e].sector]
        /\ s = call.hdr.dataSectors[call.next + 1]
        /\ call.next + 1 \in 1..NumSectorsOf(call.hdr.numBytes)
        /\ s \in Range(call.hdr.dataSectors)
        /\ \A m \in Settled : directory[m].sector # s
        /\ \A m \in Settled : m # e => s \notin FileAt(directory, sector, m)
  BY <1>1, WrittenSector
<1>5. sector' = [sector EXCEPT ![s] = Data(Head(call.buf))]
  BY <1>4 DEF WriteSector
<1>6. sector \in [Sectors -> SectorValue] /\ call \in CallValue
  BY DEF FilesInv, FsTypes
<1>7. \A u : u # s => sector'[u] = sector[u]
  BY <1>5, <1>6
<1>8. Find(directory, n)' = directory[i].sector
  BY <1>1, <1>3
<1>9. CASE i # e
  <2>1. \A u \in FileAt(directory, sector, i) : sector'[u] = sector[u]
    BY <1>4, <1>7, <1>9
  <2> QED
    BY <1>3, <1>8, <2>1, ContentStays
<1>10. CASE i = e
  <2>1. n = call.name
    BY <1>3, <1>4, <1>10
  <2>2. PICK h : h = call.hdr
    OBVIOUS
  <2>3. HeaderOf(n) = h /\ HeaderOf(n)' = h
    <3>1. directory[i].sector # s
      BY <1>4
    <3> QED
      BY <1>3, <1>4, <1>7, <1>8, <1>10, <2>2, <3>1 DEF HeaderOf
  <2>4. ASSUME NEW p \in 0..(h.numBytes - 1), p \notin call.span
        PROVE  ByteAt(n, p)' = ByteAt(n, p)
    <3>1. PICK q, r : q = p \div SectorSize /\ r = p % SectorSize
      OBVIOUS
    <3>2. PICK u : u = h.dataSectors[q + 1]
      OBVIOUS
    <3>3. /\ q + 1 \in 1..NumSectorsOf(h.numBytes) /\ r + 1 \in 1..SectorSize
          /\ u \in Sectors
      BY <1>3, <1>4, <1>10, <2>2, <3>1, <3>2, ContentIs
    <3>4. ByteAt(n, p) = Old(u, r + 1)
      BY <2>3, <3>1, <3>2, ByteAtOld
    <3>5. ByteAt(n, p)' =
            IF sector'[u].bytes = <<>> THEN Uninitialised ELSE sector'[u].bytes[r + 1]
      BY <2>3, <3>1, <3>2, Zenon DEF ByteAt
    <3>6. CASE u # s
      BY <1>7, <3>4, <3>5, <3>6 DEF Old
    <3>7. CASE u = s
      <4>1. q = call.next
        <5>1. Formed(h)
          BY <1>4, <2>2 DEF FilesInv, SoundFiles
        <5>2. q + 1 = call.next + 1
          BY <1>4, <2>2, <3>2, <3>3, <3>7, <5>1 DEF Formed
        <5>3. q \in Int /\ call.next \in Int
          <6>1. h.numBytes \in Nat
            BY <1>6, <2>2 DEF CallValue, SectorValue
          <6>2. p \in Nat
            BY <6>1
          <6> QED
            BY <1>6, <3>1, <6>2, Division DEF CallValue
        <5> QED
          BY <5>2, <5>3
      <4>2. p = q * SectorSize + r /\ q \in Nat /\ r \in 0..(SectorSize - 1)
        <5>1. p \in Nat
          <6>1. h.numBytes \in Nat
            BY <1>6, <2>2 DEF CallValue, SectorValue
          <6> QED
            BY <6>1
        <5> QED
          BY <3>1, <5>1, Division
      <4>3. PICK j : j = r + 1
        OBVIOUS
      <4>4. call.next + 1 - 1 = q /\ p = (call.next + 1 - 1) * SectorSize + j - 1
        <5>1. call.next + 1 - 1 = q
          BY <4>1, <4>2
        <5>2. q * SectorSize \in Int
          BY <4>2, Constants
        <5>3. p = q * SectorSize + j - 1
          BY <4>2, <4>3, <5>2
        <5> QED
          BY <5>1, <5>3
      <4>5. KeepsOld(1, j) /\ call.buf \in Seq(SectorBytes) /\ call.buf # <<>>
        <5>1. call.buf \in Seq(SectorBytes) /\ call.buf # <<>>
          BY <1>1, <1>6 DEF FilesInv, Writing, CallValue
        <5>2. 1 \in 1..Len(call.buf)
          BY <5>1
        <5>3. j \in 1..SectorSize
          BY <3>3, <4>3
        <5> QED
          BY <1>1, <5>1, <5>2, <5>3 DEF FilesInv, Writing
      <4>6. call.buf[1][j] = Old(s, j)
        BY <1>4, <2>2, <2>4, <4>4, <4>5 DEF KeepsOld
      <4>7. Head(call.buf) = call.buf[1] /\ Head(call.buf) \in SectorBytes
        BY <4>5
      <4>8. Head(call.buf) # <<>>
        BY <4>7, Constants DEF SectorBytes
      <4>9. sector'[s].bytes = Head(call.buf)
        BY <1>5, <1>6 DEF Data
      <4> QED
        BY <3>4, <3>5, <3>7, <4>3, <4>6, <4>7, <4>8, <4>9
    <3> QED
      BY <3>6, <3>7
  <2>5. \A p \in DOMAIN Content(n) : p \notin call.span =>
          Content(n)'[p] = Content(n)[p]
    BY <2>3, <2>4 DEF Content
  <2> QED
    BY <1>1, <2>1, <2>5
<1> QED
  BY <1>9, <1>10

(* A new header goes to a sector that was free.                            *)
LEMMA HeaderContent ==
  ASSUME FilesInv, WriteHeader, NEW n \in Usable
  PROVE  Content(n)' = Content(n)
<1> USE DEF FilesInv
<1>1. /\ call.at = "header" /\ UNCHANGED <<directory, hit>>
      /\ sector' = [sector EXCEPT ![call.sector] = call.hdr]
  BY DEF WriteHeader
<1>2. Creating /\ call.at \in CreatePhases
  BY <1>1 DEF CreatePhases
<1>3. call.sector \notin freeMap /\ ~ directory[call.entry].inUse
  BY <1>1, <1>2 DEF Creating, Clear
<1>4. PICK i \in Entries : /\ directory[i].inUse /\ i \notin hit
                           /\ Find(directory, n) = directory[i].sector
  BY UsableIs
<1>5. i \in Settled
  BY <1>2, <1>3, <1>4 DEF Settled, Pending
<1>6. FileAt(directory, sector, i) \subseteq freeMap
  BY <1>5 DEF Marked
<1>7. \A s \in FileAt(directory, sector, i) : sector'[s] = sector[s]
  BY <1>1, <1>3, <1>6 DEF FsTypes
<1>8. Find(directory, n)' = directory[i].sector
  BY <1>1, <1>4
<1> QED
  BY <1>4, <1>5, <1>7, <1>8, ContentStays

LEMMA OwnBytesStep ==
  ASSUME FilesInv, FilesInv', [FsNext]_fsVars, NEW n \in Usable, n \in Usable'
  PROVE  \/ Content(n)' = Content(n)
         \/ /\ n = call.name /\ call.at = "write"
            /\ \A i \in DOMAIN Content(n) : i \notin call.span =>
                 Content(n)'[i] = Content(n)[i]
<1>1. CASE UNCHANGED <<sector, directory>>
  <2>1. Find(directory, n)' = Find(directory, n)
    BY <1>1
  <2> QED
    BY <1>1, <2>1, ContentSame
<1>2. CASE WriteHeader
  BY <1>2, HeaderContent
<1>3. CASE WriteDirectory
  <2>1. call.at \in {"dir1", "dir2", "undir1", "undir2"} /\ UNCHANGED sector
    BY <1>3 DEF WriteDirectory
  <2>2. OneEntryWritten
    BY <1>3, <2>1, CreateDirectoryStep, RemoveDirectoryStep
  <2>3. Find(directory, n)' = Find(directory, n)
    BY <2>2, FindKept
  <2> QED
    BY <2>1, <2>3, ContentSame
<1>4. CASE WriteSector
  BY <1>4, WrittenContent
<1>5. \/ WriteHeader \/ WriteDirectory \/ WriteSector
      \/ UNCHANGED <<sector, directory>>
  <2>1. ASSUME NEW f \in Name, NEW size \in Sizes, Create(f, size)
        PROVE  UNCHANGED <<sector, directory>>
    BY <2>1 DEF Create
  <2>2. ASSUME NEW f \in Name, RemoveFile(f)
        PROVE  UNCHANGED <<sector, directory>>
    BY <2>2 DEF RemoveFile
  <2>3. ASSUME NEW f \in Name, NEW position \in 0..(NumDirect * SectorSize - 1),
               NEW num \in 1..(2 * SectorSize - 1), NEW byte \in Byte,
               Write(f, position, num, byte)
        PROVE  UNCHANGED <<sector, directory>>
    BY <2>3 DEF Write
  <2>4. WriteFreeMap => UNCHANGED <<sector, directory>>
    BY DEF WriteFreeMap
  <2>5. Crash => UNCHANGED <<sector, directory>>
    BY DEF Crash
  <2>6. UNCHANGED fsVars => UNCHANGED <<sector, directory>>
    BY DEF fsVars
  <2> QED
    BY <2>1, <2>2, <2>3, <2>4, <2>5, <2>6 DEF FsNext
<1> QED
  BY <1>1, <1>2, <1>3, <1>4, <1>5

(* A call, or a crash in the middle of it, changes no byte of a file that  *)
(* it is not about, and WriteAt, which writes whole sectors, none outside  *)
(* the bytes it was given (OnlyOwnBytes).                                  *)
THEOREM OnlyOwnBytesHolds == FsSpec => OnlyOwnBytes
<1>1. /\ FilesInv /\ FilesInv' /\ [FsNext]_fsVars
      => [\A n \in Usable \intersect Usable' :
            \/ Content(n)' = Content(n)
            \/ /\ n = call.name /\ call.at = "write"
               /\ \A i \in DOMAIN Content(n) : i \notin call.span =>
                    Content(n)'[i] = Content(n)[i]]_fsVars
  BY OwnBytesStep
<1> QED
  BY <1>1, FilesAlways, PTL DEF FsSpec, OnlyOwnBytes

-----------------------------------------------------------------------------
(* PostOffice.                                                             *)

USE PostAssumption

-----------------------------------------------------------------------------
(* The inductive invariant.                                                *)

(* Only the holder of a machine's sendLock is inside PostOffice::Send, and *)
(* the network owes the machine one call of PacketSent, made already or    *)
(* not, exactly while the holder waits for it.                             *)
OneSender ==
  /\ \A t \in Threads :
       pc[t] \in {"network", "sent", "unlock"} <=> sendLock[Home(t)] = t
  /\ \A m \in Machine :
       /\ sendLock[m] # NULL => Home(sendLock[m]) = m
       /\ sendDone[m] + messageSent[m] =
            IF sendLock[m] # NULL /\ pc[sendLock[m]] = "sent" THEN 1 ELSE 0

(* The buffer is full from CheckPktAvail to Fetch: exactly while the       *)
(* worker has been told of a packet or has been told and goes to take it.  *)
OnePacket ==
  \A m \in Machine :
    /\ worker[m] = "put" <=> hand[m] # NULL
    /\ inbox[m] # NULL <=> messageAvailable[m] = 1 \/ worker[m] = "fetch"
    /\ ~ (messageAvailable[m] = 1 /\ worker[m] = "fetch")

(* Where a thread is in MailTest tells what it has received, and with it   *)
(* what it sends.                                                          *)
Answer(t) == [to |-> Far(Home(t)), box |-> 1, from |-> 1, by |-> t]

Placed(t) ==
  /\ ~ IsMain(t) => /\ pc[t] \notin {"hello", "ack", "halt"}
                    /\ letter[t] = Hello(t) /\ heard[t] = <<>>
  /\ IsMain(t) =>
       /\ heard[t] = <<>> => letter[t] = Hello(t)
       /\ heard[t] # <<>> => /\ letter[t] = Answer(t)
                             /\ Head(heard[t]).by = Main[Far(Home(t))]
       /\ pc[t] \in {"lock", "network", "sent", "unlock"} => Len(heard[t]) <= 1
       /\ pc[t] = "hello" => heard[t] = <<>>
       /\ pc[t] = "ack" => Len(heard[t]) = 1

InMailTest == \A t \in Threads : Placed(t)

(* What may be on its way to machine m, or be in a mailbox of it: only the *)
(* other machine's main thread writes to box 0, and to box 1 only once it  *)
(* has received something.                                                 *)
Expected(received, m, mail) ==
  /\ mail.to = m
  /\ mail.box \in {0, 1} => mail.by = Main[Far(m)]
  /\ mail.box = 1 => received[mail.by] # <<>>

InTransit ==
  \A m \in Machine :
    /\ \A i \in 1..Len(socket[m]) : Expected(heard, m, socket[m][i])
    /\ inbox[m] # NULL => Expected(heard, m, inbox[m])
    /\ hand[m] # NULL => Expected(heard, m, hand[m])
    /\ \A b \in Box : \A i \in 1..Len(boxes[m][b]) :
         Expected(heard, m, boxes[m][b][i]) /\ boxes[m][b][i].box = b

(* Who has two mails has read box 1, and has had an answer.                *)
Acknowledged ==
  \A t \in Threads :
    Len(heard[t]) = 2 => IsMain(t) /\ heard[Main[Far(Home(t))]] # <<>>

PostInv ==
  PostTypeOK /\ OneSender /\ OnePacket /\ InMailTest /\ InTransit /\ Acknowledged

-----------------------------------------------------------------------------
(* Machines and their threads.                                             *)

(* Of two machines, each is the other's far one.                           *)
LEMMA FarMachine ==
  ASSUME NEW m \in Machine
  PROVE  /\ Far(m) \in Machine /\ Far(m) # m
         /\ \A n \in Machine : n # m => n = Far(m)
<1>1. IsFiniteSet(Machine \ {m}) /\ Cardinality(Machine \ {m}) = 1
  BY FS_RemoveElement
<1>2. PICK x : Machine \ {m} = {x}
  BY <1>1, FS_Singleton
<1>3. x \in Machine /\ x # m /\ \A n \in Machine : n # m => n = x
  BY <1>2
<1>4. QED
  BY <1>3 DEF Far

(* A thread runs on one machine, and the main one of a machine on that.    *)
LEMMA HomeMachine ==
  /\ \A t \in Threads : Home(t) \in Machine
  /\ \A m \in Machine : Main[m] \in Threads /\ Home(Main[m]) = m /\ IsMain(Main[m])
<1>1. ASSUME NEW t \in Threads PROVE Home(t) \in Machine
  <2>1. \E m \in Machine : t = Main[m] \/ t \in Pen[m]
    BY DEF Threads
  <2>2. QED
    BY <2>1 DEF Home
<1>2. ASSUME NEW m \in Machine
      PROVE  Main[m] \in Threads /\ Home(Main[m]) = m /\ IsMain(Main[m])
  <2>1. Main[m] \in Threads
    BY DEF Threads
  <2>2. \A n \in Machine : Main[m] = Main[n] \/ Main[m] \in Pen[n] => n = m
    BY PostAssumption
  <2>3. Home(Main[m]) = m
    BY <2>2 DEF Home
  <2>4. QED
    BY <2>1, <2>3 DEF IsMain
<1>3. QED
  BY <1>1, <1>2

(* A hello and an answer are mails to the other machine.                   *)
LEMMA LetterType ==
  ASSUME NEW t \in Threads
  PROVE  Hello(t) \in Mail /\ Answer(t) \in Mail
BY FarMachine, HomeMachine DEF Hello, Answer, Mail, Box

-----------------------------------------------------------------------------
(* Every step keeps the types.                                             *)

LEMMA PostTypeStep == PostInv /\ [PostNext]_postVars => PostTypeOK'
<1> SUFFICES ASSUME PostInv, [PostNext]_postVars PROVE PostTypeOK'
  OBVIOUS
<1> USE HomeMachine, FarMachine
<1> USE DEF postVars, threadVars, officeVars, netVars
<1>0. PostTypeOK /\ OneSender /\ OnePacket
  BY DEF PostInv
<1>1. ASSUME NEW t \in Threads, LockSend(t) PROVE PostTypeOK'
  BY <1>0, <1>1 DEF LockSend, Step, PostTypeOK
<1>2. ASSUME NEW t \in Threads, NetworkSend(t) PROVE PostTypeOK'
  <2> DEFINE m == Home(t)
  <2>1. letter[t] \in Mail /\ letter[t].to \in Machine
    BY <1>0 DEF PostTypeOK, Mail
  <2>2. sendDone[m] = 0
    <3>1. m \in Machine /\ sendLock[m] = t /\ pc[t] = "network"
      BY <1>0, <1>2 DEF NetworkSend, Step, OneSender
    <3>2. sendDone[m] + messageSent[m] = 0
      BY <1>0, <3>1 DEF OneSender
    <3>3. sendDone[m] \in 0..1 /\ messageSent[m] \in 0..1
      BY <1>0, <3>1 DEF PostTypeOK
    <3>4. QED
      BY <3>2, <3>3
  <2>3. sendDone' \in [Machine -> 0..1]
    BY <1>0, <1>2, <2>2 DEF NetworkSend, PostTypeOK
  <2>4. Append(socket[letter[t].to], letter[t]) \in Seq(Mail)
    BY <1>0, <2>1, AppendProperties DEF PostTypeOK
  <2>5. socket' \in [Machine -> Seq(Mail)] /\ up' \in [Machine -> {"up", "halted", "aborted"}]
    <3>1. \/ socket' = socket
          \/ socket' = [socket EXCEPT ![letter[t].to] = Append(@, letter[t])]
      BY <1>2 DEF NetworkSend
    <3>2. socket' \in [Machine -> Seq(Mail)]
      <4>1. socket \in [Machine -> Seq(Mail)]
        BY <1>0 DEF PostTypeOK
      <4>2. CASE socket' = [socket EXCEPT ![letter[t].to] =
                              Append(socket[letter[t].to], letter[t])]
        BY ONLY <2>1, <2>4, <4>1, <4>2
      <4>3. QED
        BY <3>1, <4>1, <4>2
    <3>3. QED
      BY <1>0, <1>2, <3>2 DEF NetworkSend, PostTypeOK
  <2>6. QED
    BY <1>0, <1>2, <2>3, <2>5 DEF NetworkSend, Step, PostTypeOK
<1>3. ASSUME NEW t \in Threads, AwaitSent(t) PROVE PostTypeOK'
  BY <1>0, <1>3 DEF AwaitSent, Step, PostTypeOK
<1>4. ASSUME NEW t \in Threads, UnlockSend(t) PROVE PostTypeOK'
  BY <1>0, <1>4 DEF UnlockSend, Step, PostTypeOK
<1>5. ASSUME NEW t \in Threads, NEW b \in Box, Get(t, b)
      PROVE  /\ Head(boxes[Home(t)][b]) \in Mail
             /\ heard' \in [Threads -> Seq(Mail)]
             /\ boxes' \in [Machine -> [Box -> Seq(Mail)]]
  <2>1. boxes[Home(t)][b] \in Seq(Mail) /\ boxes[Home(t)][b] # <<>>
    BY <1>0, <1>5 DEF Get, PostTypeOK
  <2>2. /\ Head(boxes[Home(t)][b]) \in Mail
        /\ Tail(boxes[Home(t)][b]) \in Seq(Mail)
    BY <2>1, HeadTailProperties
  <2>3. Append(heard[t], Head(boxes[Home(t)][b])) \in Seq(Mail)
    BY <1>0, <2>2, AppendProperties DEF PostTypeOK
  <2>4. QED
    BY <1>0, <1>5, <2>2, <2>3 DEF Get, PostTypeOK
<1>6. ASSUME NEW t \in Threads, ReceiveHello(t) PROVE PostTypeOK'
  <2>1. 0 \in Box /\ 1 \in Box
    BY DEF Box
  <2>2. Reply(Head(boxes[Home(t)][0]), t) \in Mail
    BY <1>5, <1>6, <2>1 DEF ReceiveHello, Reply, Mail, Box
  <2>3. QED
    BY <1>0, <1>5, <1>6, <2>1, <2>2 DEF ReceiveHello, Step, PostTypeOK
<1>7. ASSUME NEW t \in Threads, ReceiveAck(t) PROVE PostTypeOK'
  <2>1. 1 \in Box
    BY DEF Box
  <2>2. /\ heard' \in [Threads -> Seq(Mail)]
        /\ boxes' \in [Machine -> [Box -> Seq(Mail)]]
    BY <1>5, <1>7, <2>1 DEF ReceiveAck
  <2>3. QED
    BY <1>0, <1>7, <2>2 DEF ReceiveAck, Step, PostTypeOK
<1>8. ASSUME NEW t \in Threads, Halt(t) PROVE PostTypeOK'
  BY <1>0, <1>8 DEF Halt, Step, PostTypeOK
<1>9. ASSUME NEW m \in Machine, SendDone(m) PROVE PostTypeOK'
  <2>1. sendDone[m] \in 0..1 /\ messageSent[m] \in 0..1 /\ sendDone[m] > 0
    BY <1>0, <1>9 DEF SendDone, PostTypeOK
  <2>2. sendDone[m] + messageSent[m] \in {0, 1}
    BY <1>0 DEF OneSender
  <2>3. sendDone[m] - 1 \in 0..1 /\ messageSent[m] + 1 \in 0..1
    BY <2>1, <2>2
  <2>4. QED
    BY <1>0, <1>9, <2>3 DEF SendDone, PostTypeOK
<1>10. ASSUME NEW m \in Machine, CheckPktAvail(m) PROVE PostTypeOK'
  <2>1. Head(socket[m]) \in Mail /\ Tail(socket[m]) \in Seq(Mail)
    BY <1>0, <1>10, HeadTailProperties DEF CheckPktAvail, PostTypeOK
  <2>2. messageAvailable[m] = 0
    BY <1>0, <1>10 DEF CheckPktAvail, BufferFree, PostTypeOK, OnePacket
  <2>3. QED
    BY <1>0, <1>10, <2>1, <2>2 DEF CheckPktAvail, PostTypeOK
<1>11. ASSUME NEW m \in Machine, AwaitPacket(m) PROVE PostTypeOK'
  BY <1>0, <1>11 DEF AwaitPacket, PostTypeOK
<1>12. ASSUME NEW m \in Machine, Fetch(m) PROVE PostTypeOK'
  BY <1>0, <1>12 DEF Fetch, PostTypeOK
<1>13. ASSUME NEW m \in Machine, Put(m) PROVE PostTypeOK'
  <2>1. hand[m] \in Mail /\ hand[m].box \in Box
    BY <1>0, <1>13 DEF Put, PostTypeOK, OnePacket, Mail
  <2>2. Append(boxes[m][hand[m].box], hand[m]) \in Seq(Mail)
    BY <1>0, <2>1, AppendProperties DEF PostTypeOK
  <2>3. boxes' \in [Machine -> [Box -> Seq(Mail)]]
    BY <1>0, <1>13, <2>1, <2>2 DEF Put, PostTypeOK
  <2>4. QED
    BY <1>0, <1>13, <2>3 DEF Put, PostTypeOK
<1>14. CASE UNCHANGED postVars
  BY <1>0, <1>14 DEF PostTypeOK
<1>15. QED
  BY <1>1, <1>2, <1>3, <1>4, <1>6, <1>7, <1>8, <1>9, <1>10, <1>11, <1>12, <1>13,
     <1>14 DEF PostNext, Thread, Interrupts, Worker

-----------------------------------------------------------------------------
(* Every step keeps the clauses of the invariant.                          *)

LEMMA OneSenderStep == PostInv /\ [PostNext]_postVars => OneSender'
<1> SUFFICES ASSUME PostInv, [PostNext]_postVars PROVE OneSender'
  OBVIOUS
<1> USE DEF postVars, threadVars, officeVars, netVars
<1>0. /\ PostTypeOK /\ OneSender /\ InMailTest
      /\ \A t \in Threads : Home(t) \in Machine
  BY HomeMachine DEF PostInv
<1>1. ASSUME NEW t \in Threads, LockSend(t) PROVE OneSender'
  BY <1>0, <1>1 DEF LockSend, Step, PostTypeOK, OneSender
<1>2. ASSUME NEW t \in Threads, NetworkSend(t) PROVE OneSender'
  <2> DEFINE m == Home(t)
  <2>1. /\ pc[t] = "network" /\ pc' = [pc EXCEPT ![t] = "sent"]
        /\ sendDone' = [sendDone EXCEPT ![m] = @ + 1]
        /\ UNCHANGED <<sendLock, messageSent>>
    BY <1>2 DEF NetworkSend, Step
  <2>2. m \in Machine /\ sendLock[m] = t
    BY <1>0, <2>1 DEF OneSender
  <2>3. ASSUME NEW n \in Machine
        PROVE  sendDone'[n] + messageSent'[n] =
                 IF sendLock'[n] # NULL /\ pc'[sendLock'[n]] = "sent" THEN 1 ELSE 0
    <3>1. sendDone[n] + messageSent[n] =
            IF sendLock[n] # NULL /\ pc[sendLock[n]] = "sent" THEN 1 ELSE 0
      BY <1>0 DEF OneSender
    <3>2. sendDone[n] \in 0..1 /\ messageSent[n] \in 0..1
      BY <1>0 DEF PostTypeOK
    <3>3. CASE n = m
      <4>1. t # NULL /\ pc'[t] = "sent"
        BY <1>0, <2>1 DEF PostTypeOK
      <4>2. sendDone[n] + messageSent[n] = 0 /\ sendDone'[n] = sendDone[n] + 1
        BY <1>0, <2>1, <2>2, <3>1, <3>3 DEF PostTypeOK
      <4>3. sendDone'[n] + messageSent'[n] = 1
        BY <2>1, <3>2, <4>2
      <4>4. QED
        BY <2>1, <2>2, <3>3, <4>1, <4>3
    <3>4. CASE n # m
      <4>1. sendLock[n] # t
        BY <1>0, <3>4 DEF OneSender
      <4>2. sendLock[n] # NULL => pc'[sendLock[n]] = pc[sendLock[n]]
        BY <1>0, <2>1, <4>1 DEF PostTypeOK
      <4>3. QED
        BY <1>0, <2>1, <3>1, <3>4, <4>2 DEF PostTypeOK
    <3>5. QED
      BY <3>3, <3>4
  <2>4. \A u \in Threads :
          pc'[u] \in {"network", "sent", "unlock"} <=> sendLock'[Home(u)] = u
    BY <1>0, <2>1 DEF PostTypeOK, OneSender
  <2>5. QED
    BY <1>0, <2>1, <2>3, <2>4 DEF OneSender
<1>3. ASSUME NEW t \in Threads, AwaitSent(t) PROVE OneSender'
  <2> DEFINE m == Home(t)
  <2>1. /\ pc[t] = "sent" /\ pc' = [pc EXCEPT ![t] = "unlock"]
        /\ messageSent[m] > 0
        /\ messageSent' = [messageSent EXCEPT ![m] = @ - 1]
        /\ UNCHANGED <<sendLock, sendDone>>
    BY <1>3 DEF AwaitSent, Step
  <2>2. m \in Machine /\ sendLock[m] = t
    BY <1>0, <2>1 DEF OneSender
  <2>3. ASSUME NEW n \in Machine
        PROVE  sendDone'[n] + messageSent'[n] =
                 IF sendLock'[n] # NULL /\ pc'[sendLock'[n]] = "sent" THEN 1 ELSE 0
    <3>1. sendDone[n] + messageSent[n] =
            IF sendLock[n] # NULL /\ pc[sendLock[n]] = "sent" THEN 1 ELSE 0
      BY <1>0 DEF OneSender
    <3>2. sendDone[n] \in 0..1 /\ messageSent[n] \in 0..1
      BY <1>0 DEF PostTypeOK
    <3>3. CASE n = m
      <4>1. pc'[t] = "unlock"
        BY <1>0, <2>1 DEF PostTypeOK
      <4>2. messageSent'[n] = messageSent[n] - 1
        BY <1>0, <2>1, <2>2, <3>3 DEF PostTypeOK
      <4>3. sendDone'[n] + messageSent'[n] = 0
        BY <2>1, <3>1, <3>2, <3>3, <4>2
      <4>4. QED
        BY <2>1, <2>2, <3>3, <4>1, <4>3
    <3>4. CASE n # m
      <4>1. sendLock[n] # t
        BY <1>0, <3>4 DEF OneSender
      <4>2. sendLock[n] # NULL => pc'[sendLock[n]] = pc[sendLock[n]]
        BY <1>0, <2>1, <4>1 DEF PostTypeOK
      <4>3. QED
        BY <1>0, <2>1, <3>1, <3>4, <4>2 DEF PostTypeOK
    <3>5. QED
      BY <3>3, <3>4
  <2>4. \A u \in Threads :
          pc'[u] \in {"network", "sent", "unlock"} <=> sendLock'[Home(u)] = u
    BY <1>0, <2>1 DEF PostTypeOK, OneSender
  <2>5. QED
    BY <1>0, <2>1, <2>3, <2>4 DEF OneSender
<1>4. ASSUME NEW t \in Threads, UnlockSend(t) PROVE OneSender'
  <2>1. /\ pc[t] = "unlock" /\ \E then \in {"done", "hello", "ack"} : pc' = [pc EXCEPT ![t] = then]
        /\ sendLock' = [sendLock EXCEPT ![Home(t)] = NULL]
        /\ UNCHANGED <<messageSent, sendDone>>
    BY <1>4 DEF UnlockSend, Step
  <2>2. QED
    BY <1>0, <2>1 DEF PostTypeOK, OneSender
<1>5. ASSUME NEW t \in Threads, pc[t] \notin {"network", "sent", "unlock"},
             NEW to, to \notin {"network", "sent", "unlock"},
             pc' = [pc EXCEPT ![t] = to],
             UNCHANGED <<sendLock, messageSent, sendDone>>
      PROVE  OneSender'
  BY <1>0, <1>5 DEF PostTypeOK, OneSender
<1>6. ASSUME NEW t \in Threads, ReceiveHello(t) PROVE OneSender'
  BY <1>5, <1>6 DEF ReceiveHello, Step
<1>7. ASSUME NEW t \in Threads, ReceiveAck(t) PROVE OneSender'
  BY <1>5, <1>7 DEF ReceiveAck, Step
<1>8. ASSUME NEW t \in Threads, Halt(t) PROVE OneSender'
  BY <1>5, <1>8 DEF Halt, Step
<1>9. ASSUME NEW m \in Machine, SendDone(m) PROVE OneSender'
  <2>1. ASSUME NEW n \in Machine
        PROVE  sendDone'[n] + messageSent'[n] = sendDone[n] + messageSent[n]
    <3>1. sendDone[n] \in 0..1 /\ messageSent[n] \in 0..1
      BY <1>0 DEF PostTypeOK
    <3>2. \/ sendDone'[n] = sendDone[n] /\ messageSent'[n] = messageSent[n]
          \/ sendDone'[n] = sendDone[n] - 1 /\ messageSent'[n] = messageSent[n] + 1
      BY <1>0, <1>9 DEF SendDone, PostTypeOK
    <3>3. QED
      BY <3>1, <3>2
  <2>2. UNCHANGED <<pc, sendLock>>
    BY <1>9 DEF SendDone
  <2>3. QED
    BY <1>0, <2>1, <2>2 DEF OneSender
<1>10. ASSUME UNCHANGED <<pc, sendLock, sendDone, messageSent>> PROVE OneSender'
  BY <1>0, <1>10 DEF OneSender
<1>11. ASSUME NEW m \in Machine, CheckPktAvail(m) PROVE OneSender'
  BY <1>10, <1>11 DEF CheckPktAvail
<1>12. ASSUME NEW m \in Machine, Worker(m) PROVE OneSender'
  BY <1>10, <1>12 DEF Worker, AwaitPacket, Fetch, Put
<1>13. CASE UNCHANGED postVars
  BY <1>10, <1>13
<1>14. QED
  BY <1>1, <1>2, <1>3, <1>4, <1>6, <1>7, <1>8, <1>9, <1>11, <1>12, <1>13
     DEF PostNext, Thread, Interrupts

LEMMA OnePacketStep == PostInv /\ [PostNext]_postVars => OnePacket'
<1> SUFFICES ASSUME PostInv, [PostNext]_postVars PROVE OnePacket'
  OBVIOUS
<1> USE DEF postVars, threadVars, officeVars, netVars
<1>0. PostTypeOK /\ OnePacket
  BY DEF PostInv
<1>1. ASSUME UNCHANGED <<worker, hand, inbox, messageAvailable>> PROVE OnePacket'
  BY <1>0, <1>1 DEF OnePacket
<1>2. ASSUME NEW t \in Threads, Thread(t) PROVE OnePacket'
  BY <1>1, <1>2 DEF Thread, LockSend, NetworkSend, AwaitSent, UnlockSend,
                    ReceiveHello, ReceiveAck, Halt, Step, Get
<1>3. ASSUME NEW m \in Machine, SendDone(m) PROVE OnePacket'
  BY <1>1, <1>3 DEF SendDone
<1>4. ASSUME NEW m \in Machine, CheckPktAvail(m) PROVE OnePacket'
  <2>1. socket[m] \in Seq(Mail) /\ socket[m] # <<>>
    BY <1>0, <1>4 DEF CheckPktAvail, PostTypeOK
  <2>2. Head(socket[m]) # NULL
    BY <2>1, HeadTailProperties
  <2>3. QED
    BY <1>0, <1>4, <2>2 DEF CheckPktAvail, BufferFree, PostTypeOK, OnePacket
<1>5. ASSUME NEW m \in Machine, AwaitPacket(m) PROVE OnePacket'
  BY <1>0, <1>5 DEF AwaitPacket, PostTypeOK, OnePacket
<1>6. ASSUME NEW m \in Machine, Fetch(m) PROVE OnePacket'
  BY <1>0, <1>6 DEF Fetch, PostTypeOK, OnePacket
<1>7. ASSUME NEW m \in Machine, Put(m) PROVE OnePacket'
  BY <1>0, <1>7 DEF Put, PostTypeOK, OnePacket
<1>8. CASE UNCHANGED postVars
  BY <1>1, <1>8
<1>9. QED
  BY <1>2, <1>3, <1>4, <1>5, <1>6, <1>7, <1>8 DEF PostNext, Interrupts, Worker

(* The length of a queue of mail.                                          *)
LEMMA MailCount ==
  ASSUME NEW h \in Seq(Mail)
  PROVE  Len(h) \in Nat /\ (h = <<>> <=> Len(h) = 0)
BY EmptySeq, LenProperties

(* The oldest mail of a box, when a thread gets it.                        *)
LEMMA GetsMail ==
  ASSUME PostInv, NEW t \in Threads, NEW b \in Box, Get(t, b)
  PROVE  LET m == Home(t)  mail == Head(boxes[m][b]) IN
         /\ m \in Machine /\ mail \in Mail /\ mail.box = b /\ Expected(heard, m, mail)
         /\ heard[t] \in Seq(Mail) /\ heard' = [heard EXCEPT ![t] = Append(@, mail)]
         /\ heard \in [Threads -> Seq(Mail)] /\ heard' \in [Threads -> Seq(Mail)]
<1> DEFINE m == Home(t)  mail == Head(boxes[m][b])
<1>1. m \in Machine /\ boxes[m][b] \in Seq(Mail) /\ boxes[m][b] # <<>>
  BY HomeMachine DEF Get, PostInv, PostTypeOK
<1>2. mail \in Mail /\ mail = boxes[m][b][1] /\ 1 \in 1..Len(boxes[m][b])
  BY <1>1, HeadTailProperties, EmptySeq
<1>3. mail.box = b /\ Expected(heard, m, mail)
  BY <1>1, <1>2 DEF PostInv, InTransit
<1>4. heard \in [Threads -> Seq(Mail)] /\ Append(heard[t], mail) \in Seq(Mail)
  BY <1>2, AppendProperties DEF PostInv, PostTypeOK
<1>5. heard' = [heard EXCEPT ![t] = Append(@, mail)]
  BY DEF Get
<1>6. QED
  BY <1>1, <1>2, <1>3, <1>4, <1>5

(* A thread forgets no mail it has received, and the first stays first.    *)
LEMMA HeardGrows ==
  ASSUME PostInv, [PostNext]_postVars
  PROVE  \A u \in Threads :
           heard[u] # <<>> => heard'[u] # <<>> /\ Head(heard'[u]) = Head(heard[u])
<1>1. ASSUME NEW t \in Threads, NEW b \in Box, Get(t, b), NEW u \in Threads,
             heard[u] # <<>>
      PROVE  heard'[u] # <<>> /\ Head(heard'[u]) = Head(heard[u])
  <2> DEFINE mail == Head(boxes[Home(t)][b])
  <2>1. /\ mail \in Mail /\ heard[t] \in Seq(Mail)
        /\ heard' = [heard EXCEPT ![t] = Append(@, mail)]
        /\ heard \in [Threads -> Seq(Mail)]
    BY <1>1, GetsMail
  <2>2. Append(heard[t], mail) # <<>>
    BY <2>1, AppendProperties
  <2>3. heard[t] # <<>> => Head(Append(heard[t], mail)) = Head(heard[t])
    BY <2>1, HeadTailAppend
  <2>4. QED
    BY <1>1, <2>1, <2>2, <2>3
<1>2. ASSUME NEW t \in Threads, ReceiveHello(t) \/ ReceiveAck(t)
      PROVE  \E b \in Box : Get(t, b)
  BY <1>2 DEF ReceiveHello, ReceiveAck, Box
<1>3. \/ heard' = heard
      \/ \E t \in Threads : ReceiveHello(t) \/ ReceiveAck(t)
  BY DEF PostNext, Thread, Interrupts, Worker, LockSend, NetworkSend, AwaitSent, UnlockSend,
         Halt, SendDone, CheckPktAvail, AwaitPacket, Fetch, Put, postVars, threadVars
<1>4. QED
  BY <1>1, <1>2, <1>3

LEMMA InMailTestStep == PostInv /\ [PostNext]_postVars => InMailTest'
<1> SUFFICES ASSUME PostInv, [PostNext]_postVars PROVE InMailTest'
  OBVIOUS
<1> USE DEF postVars, threadVars, officeVars, netVars
<1>0. PostTypeOK /\ InMailTest
  BY DEF PostInv
<1>1. ASSUME UNCHANGED <<pc, letter, heard>> PROVE InMailTest'
  BY <1>0, <1>1 DEF InMailTest, Placed, Hello, Answer
<1>2. ASSUME NEW t \in Threads, UNCHANGED <<letter, heard>>,
             NEW to \in {"network", "sent", "unlock"},
             pc[t] \in {"lock", "network", "sent"}, pc' = [pc EXCEPT ![t] = to]
      PROVE  InMailTest'
  BY <1>0, <1>2 DEF PostTypeOK, InMailTest, Placed, Hello, Answer
<1>3. ASSUME NEW t \in Threads, LockSend(t) \/ NetworkSend(t) \/ AwaitSent(t)
      PROVE  InMailTest'
  <2>1. \E to \in {"network", "sent", "unlock"} : pc' = [pc EXCEPT ![t] = to]
    BY <1>3 DEF LockSend, NetworkSend, AwaitSent, Step
  <2>2. pc[t] \in {"lock", "network", "sent"} /\ UNCHANGED <<letter, heard>>
    BY <1>3 DEF LockSend, NetworkSend, AwaitSent, Step
  <2>3. QED
    BY <1>2, <2>1, <2>2
<1>4. ASSUME NEW t \in Threads, UnlockSend(t) PROVE InMailTest'
  <2>1. heard[t] \in Seq(Mail)
    BY <1>0 DEF PostTypeOK
  <2>2. pc[t] = "unlock" /\ UNCHANGED <<letter, heard>>
    BY <1>4 DEF UnlockSend, Step
  <2>3. ASSUME IsMain(t), heard[t] # <<>> PROVE Len(heard[t]) = 1
    <3>1. Len(heard[t]) <= 1
      BY <1>0, <2>2, <2>3 DEF InMailTest, Placed
    <3>2. Len(heard[t]) \in Nat /\ Len(heard[t]) # 0
      BY <2>1, <2>3, MailCount
    <3>3. \A n \in Nat : n <= 1 /\ n # 0 => n = 1
      OBVIOUS
    <3>4. QED
      BY <3>1, <3>2, <3>3, Zenon
  <2>4. pc' = [pc EXCEPT ![t] = IF ~ IsMain(t) THEN "done"
                                ELSE IF heard[t] = <<>> THEN "hello" ELSE "ack"]
    BY <1>4 DEF UnlockSend, Step
  <2>5. QED
    BY <1>0, <2>2, <2>3, <2>4 DEF PostTypeOK, InMailTest, Placed, Hello, Answer
<1>5. ASSUME NEW t \in Threads, ReceiveHello(t) PROVE InMailTest'
  <2> DEFINE m == Home(t)  mail == Head(boxes[m][0])
  <2>1. 0 \in Box /\ Get(t, 0) /\ pc[t] = "hello" /\ pc' = [pc EXCEPT ![t] = "lock"]
        /\ letter' = [letter EXCEPT ![t] = Reply(mail, t)]
    BY <1>5 DEF ReceiveHello, Step, Box
  <2>2. IsMain(t) /\ heard[t] = <<>>
    BY <1>0, <2>1 DEF InMailTest, Placed
  <2>3. /\ m \in Machine /\ mail \in Mail /\ mail.box = 0 /\ Expected(heard, m, mail)
        /\ heard' = [heard EXCEPT ![t] = Append(@, mail)]
        /\ heard' \in [Threads -> Seq(Mail)]
    BY <2>1, GetsMail
  <2>4. mail.by = Main[Far(m)] /\ mail.from = 1
    BY <2>3 DEF Expected, Mail
  <2>5. heard'[t] = <<mail>>
    BY <1>0, <2>2, <2>3 DEF PostTypeOK
  <2>6. heard'[t] # <<>> /\ Head(heard'[t]) = mail /\ Len(heard'[t]) = 1
    BY <2>5
  <2>7. Reply(mail, t) = Answer(t)
    BY <2>3, <2>4, FarMachine, HomeMachine DEF Reply, Answer
  <2>8. letter'[t] = Answer(t) /\ Head(heard'[t]).by = Main[Far(Home(t))]
    BY <1>0, <2>1, <2>4, <2>6, <2>7 DEF PostTypeOK
  <2>9. ASSUME NEW u \in Threads, u # t
        PROVE  letter'[u] = letter[u] /\ heard'[u] = heard[u] /\ pc'[u] = pc[u]
    BY <1>0, <2>1, <2>3, <2>9 DEF PostTypeOK
  <2>10. pc'[t] = "lock"
    BY <1>0, <2>1 DEF PostTypeOK
  <2>11. Placed(t)'
    BY <2>2, <2>6, <2>8, <2>10 DEF Placed, Answer
  <2>12. \A u \in Threads : u # t => Placed(u)'
    BY <1>0, <2>9 DEF InMailTest, Placed, Hello, Answer
  <2>13. QED
    BY <2>11, <2>12 DEF InMailTest
<1>6. ASSUME NEW t \in Threads, ReceiveAck(t) PROVE InMailTest'
  <2>1. 1 \in Box /\ Get(t, 1) /\ pc[t] = "ack" /\ pc' = [pc EXCEPT ![t] = "halt"]
        /\ letter' = letter
    BY <1>6 DEF ReceiveAck, Step, Box
  <2>2. IsMain(t) /\ Len(heard[t]) = 1 /\ heard[t] \in Seq(Mail)
    BY <1>0, <2>1 DEF InMailTest, Placed, PostTypeOK
  <2>3. heard[t] # <<>>
    BY <2>2, MailCount
  <2>4. heard'[t] # <<>> /\ Head(heard'[t]) = Head(heard[t])
    BY <2>3, HeardGrows
  <2>5. heard' = [heard EXCEPT ![t] = Append(@, Head(boxes[Home(t)][1]))]
    BY <2>1, GetsMail
  <2>6. ASSUME NEW u \in Threads, u # t
        PROVE  letter'[u] = letter[u] /\ heard'[u] = heard[u] /\ pc'[u] = pc[u]
    BY <1>0, <2>1, <2>5, <2>6 DEF PostTypeOK
  <2>7. pc'[t] = "halt"
    BY <1>0, <2>1 DEF PostTypeOK
  <2>8. QED
    BY <1>0, <2>1, <2>2, <2>3, <2>4, <2>6, <2>7 DEF InMailTest, Placed, Hello, Answer
<1>7. ASSUME NEW t \in Threads, Halt(t) PROVE InMailTest'
  <2>1. pc[t] = "halt" /\ pc' = [pc EXCEPT ![t] = "done"] /\ UNCHANGED <<letter, heard>>
    BY <1>7 DEF Halt, Step
  <2>2. QED
    BY <1>0, <2>1 DEF PostTypeOK, InMailTest, Placed, Hello, Answer
<1>8. ASSUME NEW m \in Machine, Interrupts(m) \/ Worker(m) PROVE InMailTest'
  BY <1>1, <1>8 DEF Interrupts, Worker, SendDone, CheckPktAvail, AwaitPacket, Fetch, Put
<1>9. CASE UNCHANGED postVars
  BY <1>1, <1>9
<1>10. QED
  BY <1>3, <1>4, <1>5, <1>6, <1>7, <1>8, <1>9 DEF PostNext, Thread

(* What a thread hands to the network may be on its way to where it goes.  *)
LEMMA LetterExpected ==
  ASSUME PostInv, NEW t \in Threads
  PROVE  letter[t].to \in Machine /\ Expected(heard, letter[t].to, letter[t])
<1>1. Placed(t) /\ Home(t) \in Machine
  BY HomeMachine DEF PostInv, InMailTest
<1>2. Far(Home(t)) \in Machine /\ Far(Far(Home(t))) = Home(t)
  BY <1>1, FarMachine
<1>3. CASE letter[t] = Hello(t)
  <2>1. letter[t].to = Far(Home(t)) /\ letter[t].by = t /\ letter[t].box # 1
    BY <1>3 DEF Hello
  <2>2. letter[t].box = 0 => t = Main[Home(t)]
    BY <1>3 DEF Hello, IsMain
  <2>3. QED
    BY <1>2, <2>1, <2>2 DEF Expected
<1>4. CASE letter[t] = Answer(t) /\ heard[t] # <<>> /\ IsMain(t)
  <2>1. letter[t].to = Far(Home(t)) /\ letter[t].by = t /\ t = Main[Home(t)]
    BY <1>4 DEF Answer, IsMain
  <2>2. QED
    BY <1>2, <1>4, <2>1 DEF Expected
<1>5. QED
  BY <1>1, <1>3, <1>4 DEF Placed

LEMMA InTransitStep == PostInv /\ [PostNext]_postVars => InTransit'
<1> SUFFICES ASSUME PostInv, [PostNext]_postVars PROVE InTransit'
  OBVIOUS
<1> USE DEF postVars, threadVars, officeVars, netVars
<1>0. PostTypeOK /\ InTransit
  BY DEF PostInv
<1>1. \A m \in Machine, mail \in Mail : Expected(heard, m, mail) => Expected(heard', m, mail)
  BY HeardGrows, FarMachine, HomeMachine DEF Expected, Mail
<1>2. \A m \in Machine :
        /\ socket[m] \in Seq(Mail) /\ inbox[m] \in Mail \union {NULL}
        /\ hand[m] \in Mail \union {NULL}
        /\ \A b \in Box : boxes[m][b] \in Seq(Mail)
  BY <1>0 DEF PostTypeOK
<1>3. ASSUME NEW m \in Machine, socket'[m] = socket[m]
      PROVE  \A i \in 1..Len(socket'[m]) : Expected(heard', m, socket'[m][i])
  BY <1>0, <1>1, <1>2, <1>3, ElementOfSeq DEF InTransit
<1>4. ASSUME NEW m \in Machine, inbox'[m] = inbox[m]
      PROVE  inbox'[m] # NULL => Expected(heard', m, inbox'[m])
  BY <1>0, <1>1, <1>2, <1>4 DEF InTransit
<1>5. ASSUME NEW m \in Machine, hand'[m] = hand[m]
      PROVE  hand'[m] # NULL => Expected(heard', m, hand'[m])
  BY <1>0, <1>1, <1>2, <1>5 DEF InTransit
<1>6. ASSUME NEW m \in Machine, NEW b \in Box, boxes'[m][b] = boxes[m][b]
      PROVE  \A i \in 1..Len(boxes'[m][b]) :
               Expected(heard', m, boxes'[m][b][i]) /\ boxes'[m][b][i].box = b
  BY <1>0, <1>1, <1>2, <1>6, ElementOfSeq DEF InTransit
<1>7. ASSUME UNCHANGED <<netVars, hand, boxes>> PROVE InTransit'
  BY <1>3, <1>4, <1>5, <1>6, <1>7 DEF InTransit
<1>8. ASSUME NEW t \in Threads, LockSend(t) \/ AwaitSent(t) \/ UnlockSend(t) \/ Halt(t)
      PROVE  InTransit'
  <2>1. UNCHANGED <<socket, inbox, hand, boxes>>
    BY <1>8 DEF LockSend, AwaitSent, UnlockSend, Halt
  <2>2. QED
    BY <1>3, <1>4, <1>5, <1>6, <2>1 DEF InTransit
<1>9. ASSUME NEW t \in Threads, NetworkSend(t) PROVE InTransit'
  <2> DEFINE mail == letter[t]
  <2>1. UNCHANGED <<inbox, hand, boxes, heard>>
    BY <1>9 DEF NetworkSend
  <2>2. mail \in Mail /\ mail.to \in Machine /\ Expected(heard', mail.to, mail)
    BY <1>0, <1>1, LetterExpected DEF PostTypeOK
  <2>3. \/ socket' = socket
        \/ socket' = [socket EXCEPT ![mail.to] = Append(@, mail)]
    BY <1>9 DEF NetworkSend
  <2>4. ASSUME NEW m \in Machine
        PROVE  \A i \in 1..Len(socket'[m]) : Expected(heard', m, socket'[m][i])
    <3>1. CASE socket'[m] = socket[m]
      BY <1>3, <3>1
    <3>2. CASE m = mail.to /\ socket'[m] = Append(socket[m], mail)
      <4>1. \A i \in 1..Len(socket[m]) : Expected(heard', m, socket[m][i])
        BY <1>0, <1>1, <1>2, ElementOfSeq DEF InTransit
      <4>2. QED
        BY <1>2, <2>2, <3>2, <4>1, AppendProperties
    <3>3. QED
      BY <1>0, <2>2, <2>3, <3>1, <3>2 DEF PostTypeOK
  <2>5. QED
    BY <1>4, <1>5, <1>6, <2>1, <2>4 DEF InTransit
<1>10. ASSUME NEW t \in Threads, NEW c \in Box, Get(t, c), UNCHANGED <<netVars, hand>>
       PROVE  InTransit'
  <2> DEFINE n == Home(t)
  <2>1. n \in Machine /\ boxes' = [boxes EXCEPT ![n][c] = Tail(@)] /\ boxes[n][c] # <<>>
    BY <1>10, HomeMachine DEF Get
  <2>2. ASSUME NEW m \in Machine, NEW b \in Box
        PROVE  \A i \in 1..Len(boxes'[m][b]) :
                 Expected(heard', m, boxes'[m][b][i]) /\ boxes'[m][b][i].box = b
    <3>1. CASE m = n /\ b = c
      <4>1. boxes'[m][b] = Tail(boxes[m][b]) /\ boxes[m][b] # <<>>
        BY <1>0, <2>1, <3>1 DEF PostTypeOK
      <4>2. \A i \in 1..Len(boxes[m][b]) :
              Expected(heard', m, boxes[m][b][i]) /\ boxes[m][b][i].box = b
        BY <1>0, <1>1, <1>2, ElementOfSeq DEF InTransit
      <4>3. /\ Len(boxes[m][b]) \in Nat
            /\ Len(Tail(boxes[m][b])) = Len(boxes[m][b]) - 1
            /\ \A i \in 1..Len(Tail(boxes[m][b])) :
                 Tail(boxes[m][b])[i] = boxes[m][b][i + 1]
        BY <1>2, <4>1, HeadTailProperties, LenProperties
      <4>4. \A i \in 1..Len(Tail(boxes[m][b])) : i + 1 \in 1..Len(boxes[m][b])
        BY <4>3
      <4>5. QED
        BY <4>1, <4>2, <4>3, <4>4
    <3>2. CASE ~ (m = n /\ b = c)
      <4>1. boxes'[m][b] = boxes[m][b]
        BY <1>0, <2>1, <3>2 DEF PostTypeOK
      <4>2. QED
        BY <1>6, <4>1
    <3>3. QED
      BY <3>1, <3>2
  <2>3. QED
    BY <1>3, <1>4, <1>5, <1>10, <2>2 DEF InTransit
<1>11. ASSUME NEW t \in Threads, ReceiveHello(t) \/ ReceiveAck(t) PROVE InTransit'
  <2>1. \E b \in Box : Get(t, b)
    BY <1>11 DEF ReceiveHello, ReceiveAck, Box
  <2>2. UNCHANGED <<netVars, hand>>
    BY <1>11 DEF ReceiveHello, ReceiveAck
  <2>3. QED
    BY <1>10, <2>1, <2>2
<1>12. ASSUME NEW n \in Machine, SendDone(n) \/ AwaitPacket(n) PROVE InTransit'
  <2>1. UNCHANGED <<socket, inbox, hand, boxes>>
    BY <1>12 DEF SendDone, AwaitPacket
  <2>2. QED
    BY <1>3, <1>4, <1>5, <1>6, <2>1 DEF InTransit
<1>13. ASSUME NEW n \in Machine, CheckPktAvail(n) PROVE InTransit'
  <2>1. /\ socket[n] # <<>> /\ UNCHANGED <<hand, boxes>>
        /\ inbox' = [inbox EXCEPT ![n] = Head(socket[n])]
        /\ socket' = [socket EXCEPT ![n] = Tail(@)]
    BY <1>13 DEF CheckPktAvail
  <2>2. /\ Len(socket[n]) \in Nat /\ 1 \in 1..Len(socket[n])
        /\ Len(Tail(socket[n])) = Len(socket[n]) - 1
        /\ \A i \in 1..Len(Tail(socket[n])) : Tail(socket[n])[i] = socket[n][i + 1]
    BY <1>2, <2>1, HeadTailProperties, LenProperties, EmptySeq
  <2>3. \A i \in 1..Len(socket[n]) : Expected(heard', n, socket[n][i])
    BY <1>0, <1>1, <1>2, ElementOfSeq DEF InTransit
  <2>4. \A i \in 1..Len(Tail(socket[n])) : i + 1 \in 1..Len(socket[n])
    BY <2>2
  <2>5. socket'[n] = Tail(socket[n]) /\ inbox'[n] = socket[n][1]
    BY <1>0, <1>2, <2>1 DEF PostTypeOK
  <2>6. \A m \in Machine : m # n => socket'[m] = socket[m] /\ inbox'[m] = inbox[m]
    BY <1>0, <2>1 DEF PostTypeOK
  <2>7. \A i \in 1..Len(socket'[n]) : Expected(heard', n, socket'[n][i])
    BY <2>2, <2>3, <2>4, <2>5
  <2>8. Expected(heard', n, inbox'[n])
    BY <2>2, <2>3, <2>5
  <2>9. ASSUME NEW m \in Machine
        PROVE  /\ \A i \in 1..Len(socket'[m]) : Expected(heard', m, socket'[m][i])
               /\ inbox'[m] # NULL => Expected(heard', m, inbox'[m])
    <3>1. CASE m = n
      BY <2>7, <2>8, <3>1
    <3>2. CASE m # n
      BY <1>3, <1>4, <2>6, <3>2
    <3>3. QED
      BY <3>1, <3>2
  <2>10. \A m \in Machine : hand'[m] # NULL => Expected(heard', m, hand'[m])
    BY <1>5, <2>1
  <2>11. \A m \in Machine, b \in Box : \A i \in 1..Len(boxes'[m][b]) :
           Expected(heard', m, boxes'[m][b][i]) /\ boxes'[m][b][i].box = b
    BY <1>6, <2>1
  <2>12. QED
    BY <2>9, <2>10, <2>11 DEF InTransit
<1>14. ASSUME NEW n \in Machine, Fetch(n) PROVE InTransit'
  <2>1. /\ hand' = [hand EXCEPT ![n] = inbox[n]] /\ inbox' = [inbox EXCEPT ![n] = NULL]
        /\ UNCHANGED <<socket, boxes>>
    BY <1>14 DEF Fetch
  <2>2. hand'[n] = inbox[n] /\ inbox'[n] = NULL
    BY <1>0, <2>1 DEF PostTypeOK
  <2>3. \A m \in Machine : m # n => hand'[m] = hand[m] /\ inbox'[m] = inbox[m]
    BY <1>0, <2>1 DEF PostTypeOK
  <2>4. inbox[n] # NULL => Expected(heard', n, inbox[n])
    BY <1>0, <1>1, <1>2 DEF InTransit
  <2>5. ASSUME NEW m \in Machine, hand'[m] # NULL PROVE Expected(heard', m, hand'[m])
    BY <1>5, <2>2, <2>3, <2>4, <2>5
  <2>6. ASSUME NEW m \in Machine, inbox'[m] # NULL PROVE Expected(heard', m, inbox'[m])
    BY <1>4, <2>2, <2>3, <2>6
  <2>7. QED
    BY <1>3, <1>6, <2>1, <2>5, <2>6 DEF InTransit
<1>15. ASSUME NEW n \in Machine, Put(n) PROVE InTransit'
  <2> DEFINE mail == hand[n]
  <2>1. /\ boxes' = [boxes EXCEPT ![n][mail.box] = Append(@, mail)]
        /\ hand' = [hand EXCEPT ![n] = NULL] /\ UNCHANGED <<socket, inbox>>
    BY <1>15 DEF Put
  <2>2. mail \in Mail /\ mail.box \in Box /\ Expected(heard', n, mail)
    BY <1>0, <1>1, <1>15 DEF Put, PostInv, OnePacket, PostTypeOK, InTransit, Mail
  <2>3. ASSUME NEW m \in Machine, NEW b \in Box
        PROVE  \A i \in 1..Len(boxes'[m][b]) :
                 Expected(heard', m, boxes'[m][b][i]) /\ boxes'[m][b][i].box = b
    <3>1. CASE m = n /\ b = mail.box
      <4>1. boxes'[m][b] = Append(boxes[m][b], mail)
        BY <1>0, <2>1, <3>1 DEF PostTypeOK
      <4>2. \A i \in 1..Len(boxes[m][b]) :
              Expected(heard', m, boxes[m][b][i]) /\ boxes[m][b][i].box = b
        BY <1>0, <1>1, <1>2, ElementOfSeq DEF InTransit
      <4>3. boxes[m][b] \in Seq(Mail)
        BY <1>0 DEF PostTypeOK
      <4>4. PICK e : e = mail
        OBVIOUS
      <4>5. e \in Mail /\ e.box = b /\ Expected(heard', m, e)
        BY <2>2, <3>1, <4>4
      <4>6. PICK q : q = boxes'[m][b]
        OBVIOUS
      <4>7. PICK s : s = boxes[m][b]
        OBVIOUS
      <4>8. s \in Seq(Mail) /\ q = Append(s, e)
        BY <4>1, <4>3, <4>4, <4>6, <4>7
      <4>9. \A i \in 1..Len(q) : q[i] = e \/ \E j \in 1..Len(s) : q[i] = s[j]
        BY ONLY <4>5, <4>8, AppendProperties
      <4>10. \A j \in 1..Len(s) : Expected(heard', m, s[j]) /\ s[j].box = b
        BY <4>2, <4>7
      <4>11. \A i \in 1..Len(q) : Expected(heard', m, q[i]) /\ q[i].box = b
        <5>1. TAKE i \in 1..Len(q)
        <5>2. CASE q[i] = e
          BY <4>5, <5>2
        <5>3. CASE \E j \in 1..Len(s) : q[i] = s[j]
          BY <4>10, <5>3
        <5>4. QED
          BY <4>9, <5>2, <5>3
      <4>12. QED
        BY <4>6, <4>11
    <3>2. CASE ~ (m = n /\ b = mail.box)
      <4>1. boxes'[m][b] = boxes[m][b]
        BY <1>0, <2>1, <2>2, <3>2 DEF PostTypeOK
      <4>2. QED
        BY <1>6, <4>1
    <3>3. QED
      BY <3>1, <3>2
  <2>4. \A m \in Machine : hand'[m] # NULL => hand'[m] = hand[m]
    BY <1>0, <2>1 DEF PostTypeOK
  <2>5. QED
    BY <1>3, <1>4, <1>5, <2>1, <2>3, <2>4 DEF InTransit
<1>16. CASE UNCHANGED postVars
  BY <1>7, <1>16
<1>17. QED
  BY <1>8, <1>9, <1>11, <1>12, <1>13, <1>14, <1>15, <1>16
     DEF PostNext, Thread, Interrupts, Worker

LEMMA AcknowledgedStep == PostInv /\ [PostNext]_postVars => Acknowledged'
<1> SUFFICES ASSUME PostInv, [PostNext]_postVars PROVE Acknowledged'
  OBVIOUS
<1>0. PostTypeOK /\ InMailTest /\ Acknowledged
  BY DEF PostInv
<1>1. \A u \in Threads : Far(Home(u)) \in Machine /\ Main[Far(Home(u))] \in Threads
  BY FarMachine, HomeMachine
<1>2. ASSUME NEW u \in Threads, Len(heard'[u]) = 2, heard'[u] = heard[u]
      PROVE  IsMain(u) /\ heard'[Main[Far(Home(u))]] # <<>>
  BY <1>0, <1>1, <1>2, HeardGrows DEF Acknowledged
<1>3. ASSUME NEW t \in Threads, ReceiveHello(t), NEW u \in Threads, Len(heard'[u]) = 2
      PROVE  heard'[u] = heard[u]
  <2>1. 0 \in Box /\ Get(t, 0) /\ pc[t] = "hello"
    BY <1>3 DEF ReceiveHello, Step, Box
  <2>2. heard[t] = <<>>
    BY <1>0, <2>1 DEF InMailTest, Placed
  <2>3. heard' = [heard EXCEPT ![t] = Append(@, Head(boxes[Home(t)][0]))]
    BY <2>1, GetsMail
  <2>4. Len(Append(<<>>, Head(boxes[Home(t)][0]))) = 1
    OBVIOUS
  <2>5. u = t => Len(heard'[u]) = 1
    BY <1>0, <2>2, <2>3, <2>4 DEF PostTypeOK
  <2>6. QED
    BY <1>0, <1>3, <2>3, <2>5 DEF PostTypeOK
<1>4. ASSUME NEW t \in Threads, ReceiveAck(t)
      PROVE  IsMain(t) /\ heard'[Main[Far(Home(t))]] # <<>>
  <2>1. 1 \in Box /\ Get(t, 1) /\ pc[t] = "ack"
    BY <1>4 DEF ReceiveAck, Step, Box
  <2>2. IsMain(t)
    BY <1>0, <2>1 DEF InMailTest, Placed
  <2>3. Expected(heard, Home(t), Head(boxes[Home(t)][1])) /\ Head(boxes[Home(t)][1]).box = 1
    BY <2>1, GetsMail
  <2>4. heard[Main[Far(Home(t))]] # <<>>
    BY <2>3 DEF Expected
  <2>5. QED
    BY <1>1, <2>2, <2>4, HeardGrows
<1>5. ASSUME NEW t \in Threads, ReceiveAck(t), NEW u \in Threads, u # t
      PROVE  heard'[u] = heard[u]
  <2>1. 1 \in Box /\ Get(t, 1)
    BY <1>5 DEF ReceiveAck, Box
  <2>2. QED
    BY <1>0, <1>5, <2>1 DEF Get, PostTypeOK
<1>6. \/ heard' = heard
      \/ \E t \in Threads : ReceiveHello(t) \/ ReceiveAck(t)
  BY DEF PostNext, Thread, Interrupts, Worker, LockSend, NetworkSend, AwaitSent, UnlockSend,
         Halt, SendDone, CheckPktAvail, AwaitPacket, Fetch, Put, postVars, threadVars
<1>7. ASSUME NEW u \in Threads, Len(heard'[u]) = 2
      PROVE  IsMain(u) /\ heard'[Main[Far(Home(u))]] # <<>>
  BY <1>2, <1>3, <1>4, <1>5, <1>6, <1>7
<1>8. QED
  BY <1>7 DEF Acknowledged, IsMain

-----------------------------------------------------------------------------

LEMMA PostInvInit == PostInit => PostInv
<1> SUFFICES ASSUME PostInit PROVE PostInv
  OBVIOUS
<1> USE DEF PostInit
<1>1. PostTypeOK
  <2>1. letter \in [Threads -> Mail]
    BY LetterType
  <2>2. <<>> \in Seq(Mail)
    BY EmptySeq
  <2>3. QED
    BY <2>1, <2>2 DEF PostTypeOK
<1>2. OneSender
  BY HomeMachine DEF OneSender
<1>3. OnePacket
  BY DEF OnePacket
<1>4. \A t \in Threads : heard[t] = <<>> /\ Len(heard[t]) = 0 /\ letter[t] = Hello(t)
                          /\ pc[t] \in {"lock", "done"}
  BY EmptySeq
<1>5. InMailTest /\ Acknowledged
  BY <1>4 DEF InMailTest, Placed, Acknowledged
<1>6. InTransit
  BY EmptySeq DEF InTransit
<1>7. QED
  BY <1>1, <1>2, <1>3, <1>5, <1>6 DEF PostInv

LEMMA PostInvHolds == PostSpec => []PostInv
<1>1. PostInv /\ [PostNext]_postVars => PostInv'
  BY PostTypeStep, OneSenderStep, OnePacketStep, InMailTestStep, InTransitStep,
     AcknowledgedStep DEF PostInv
<1>2. QED
  BY PostInvInit, <1>1, PTL DEF PostSpec

(* Types, in every state: the semaphores of the two offices never count    *)
(* beyond 1, and no more than one NetworkSendInt is pending.               *)
THEOREM PostTypeCorrect == PostSpec => []PostTypeOK
<1>1. PostInv => PostTypeOK
  BY DEF PostInv
<1>2. QED
  BY PostInvHolds, <1>1, PTL

(* MailTest: who has been acknowledged has been heard, whatever the        *)
(* network lost, and by the thread that acknowledges.                      *)
THEOREM AckMeansDeliveredHolds == PostSpec => []AckMeansDelivered
<1>1. ASSUME PostInv PROVE AckMeansDelivered
  <2> SUFFICES ASSUME NEW t \in Threads, IsMain(t), Len(heard[t]) = 2
               PROVE  LET other == heard[Main[Far(Home(t))]] IN
                      other # <<>> /\ Head(other).by = t
    BY DEF AckMeansDelivered
  <2> DEFINE u == Main[Far(Home(t))]
  <2>1. heard[u] # <<>>
    BY <1>1 DEF PostInv, Acknowledged
  <2>2. /\ u \in Threads /\ IsMain(u) /\ Home(u) = Far(Home(t))
        /\ Far(Far(Home(t))) = Home(t)
    BY HomeMachine, FarMachine
  <2>3. Head(heard[u]).by = Main[Far(Home(u))]
    BY <1>1, <2>1, <2>2 DEF PostInv, InMailTest, Placed
  <2>4. QED
    BY <2>1, <2>2, <2>3 DEF IsMain
<1>2. QED
  BY PostInvHolds, <1>1, PTL

-----------------------------------------------------------------------------
(* The post offices implement LossyMail.                                   *)

(* What is on its way to machine m, the worker's mail first.               *)
Wire(m) == Held(hand[m]) \o Held(inbox[m]) \o socket[m]

LEMMA HeldType ==
  ASSUME NEW x \in Mail \union {NULL}
  PROVE  Held(x) \in Seq(Mail) /\ Held(NULL) = <<>> /\ (x # NULL => Held(x) = <<x>>)
BY DEF Held

(* A packet put in the socket is the last on the wire...                   *)
LEMMA WireAppend ==
  ASSUME NEW h \in Seq(Mail), NEW i \in Seq(Mail), NEW q \in Seq(Mail), NEW x \in Mail
  PROVE  h \o i \o Append(q, x) = Append(h \o i \o q, x)
<1>1. PICK one : one = <<x>>
  OBVIOUS
<1>2. PICK first : first = h \o i
  OBVIOUS
<1>3. first \in Seq(Mail) /\ one \in Seq(Mail) /\ q \in Seq(Mail)
  BY <1>1, <1>2, ConcatProperties
<1>4. Append(q, x) = q \o one
  BY <1>1, AppendIsConcat
<1>5. (first \o q) \o one = first \o (q \o one)
  BY ONLY <1>3, ConcatAssociative
<1>6. first \o q \in Seq(Mail)
  BY <1>3, ConcatProperties
<1>7. (first \o q) \o one = Append(first \o q, x)
  BY <1>1, <1>6, AppendIsConcat
<1>8. QED
  BY <1>2, <1>4, <1>5, <1>7

(* ... one taken into the buffer stays where it was...                     *)
LEMMA WireMove ==
  ASSUME NEW h \in Seq(Mail), NEW q \in Seq(Mail), q # <<>>
  PROVE  h \o <<Head(q)>> \o Tail(q) = h \o <<>> \o q
<1> DEFINE x == Head(q)  r == Tail(q)  one == <<x>>
<1>1. x \in Mail /\ r \in Seq(Mail)
  BY HeadTailProperties
<1>2. q = one \o r
  BY <1>1
<1>3. one \in Seq(Mail)
  BY <1>1
<1> HIDE DEF x, r, one
<1>4. (h \o one) \o r = h \o (one \o r)
  BY <1>1, <1>3, ConcatAssociative
<1>5. h \o <<>> = h
  BY ConcatEmptySeq
<1>6. QED
  BY <1>2, <1>4, <1>5, Zenon DEF x, r, one

(* ... and the worker's mail the first.                                    *)
LEMMA WireHead ==
  ASSUME NEW x \in Mail, NEW i \in Seq(Mail), NEW q \in Seq(Mail)
  PROVE  /\ <<x>> \o i \o q # <<>>
         /\ Head(<<x>> \o i \o q) = x
         /\ Tail(<<x>> \o i \o q) = i \o q
<1> DEFINE w == <<x>> \o i \o q
<1>1. <<x>> \in Seq(Mail) /\ i \o q \in Seq(Mail) /\ <<x>> \o i \in Seq(Mail)
  BY ConcatProperties
<1>2. w = <<x>> \o (i \o q)
  BY <1>1, ConcatAssociative
<1>3. /\ w \in Seq(Mail) /\ Len(w) = 1 + Len(i \o q) /\ Len(i \o q) \in Nat
      /\ \A k \in 1..(1 + Len(i \o q)) : w[k] = IF k <= 1 THEN x ELSE (i \o q)[k - 1]
  BY <1>1, <1>2, ConcatProperties, LenProperties
<1>4. w # <<>> /\ Head(w) = x
  BY <1>3, EmptySeq
<1>5. /\ Tail(w) \in Seq(Mail) /\ Len(Tail(w)) = Len(i \o q)
      /\ \A k \in 1..Len(Tail(w)) : Tail(w)[k] = w[k + 1]
  BY <1>3, <1>4, HeadTailProperties
<1>6. \A k \in 1..Len(i \o q) : Tail(w)[k] = (i \o q)[k]
  BY <1>3, <1>5
<1>7. Tail(w) = i \o q
  BY <1>1, <1>5, <1>6, SeqEqual
<1>8. QED
  BY <1>4, <1>7

LEMMA ImplementsInit == PostInit => Post!Init
<1> SUFFICES ASSUME PostInit PROVE Post!Init
  OBVIOUS
<1>1. \A m \in Machine : Held(hand[m]) \o Held(inbox[m]) \o socket[m] = <<>>
  <2>1. <<>> \o <<>> \o <<>> = <<>>
    BY ConcatEmptySeq, EmptySeq
  <2>2. QED
    BY <2>1 DEF PostInit, Held
<1>2. QED
  BY <1>1 DEF PostInit, Post!Init

(* Putting a packet in a socket sends a mail, the worker's Put delivers    *)
(* one, Receive takes one; every other step is none of LossyMail's.        *)
LEMMA ImplementsStep ==
  PostInv /\ [PostNext]_postVars => [Post!Next]_<<[m \in Machine |-> Wire(m)], boxes>>
<1> SUFFICES ASSUME PostInv, [PostNext]_postVars
             PROVE  [Post!Next]_<<[m \in Machine |-> Wire(m)], boxes>>
  OBVIOUS
<1> USE DEF postVars, threadVars, officeVars, netVars
<1> DEFINE wire == [m \in Machine |-> Wire(m)]
<1>0. PostTypeOK /\ OnePacket
  BY DEF PostInv
<1>1. \A m \in Machine :
        /\ socket[m] \in Seq(Mail) /\ Held(inbox[m]) \in Seq(Mail)
        /\ Held(hand[m]) \in Seq(Mail)
  BY <1>0, HeldType DEF PostTypeOK
<1>2. ASSUME UNCHANGED <<hand, inbox, socket, boxes>>
      PROVE  UNCHANGED <<wire, boxes>>
  BY <1>2 DEF Wire
<1>3. ASSUME NEW t \in Threads, LockSend(t) \/ AwaitSent(t) \/ UnlockSend(t) \/ Halt(t)
      PROVE  UNCHANGED <<wire, boxes>>
  BY <1>2, <1>3 DEF LockSend, AwaitSent, UnlockSend, Halt
<1>4. ASSUME NEW t \in Threads, NetworkSend(t)
      PROVE  UNCHANGED <<wire, boxes>> \/ Post!Next
  <2> DEFINE mail == letter[t]
  <2>1. UNCHANGED <<hand, inbox, boxes>>
    BY <1>4 DEF NetworkSend
  <2>2. CASE socket' = socket
    BY <1>2, <2>1, <2>2
  <2>3. CASE socket' = [socket EXCEPT ![mail.to] = Append(@, mail)]
    <3>1. mail \in Mail /\ mail.to \in Machine
      BY <1>0 DEF PostTypeOK, Mail
    <3>2. \A m \in Machine : socket'[m] = IF m = mail.to THEN Append(socket[m], mail)
                                          ELSE socket[m]
      BY <1>0, <2>3, <3>1 DEF PostTypeOK
    <3>3. Held(hand[mail.to]) \o Held(inbox[mail.to]) \o Append(socket[mail.to], mail)
            = Append(Wire(mail.to), mail)
      <4> DEFINE h == Held(hand[mail.to])  i == Held(inbox[mail.to])  q == socket[mail.to]
      <4>1. h \in Seq(Mail) /\ i \in Seq(Mail) /\ q \in Seq(Mail) /\ mail \in Mail
        BY <1>1, <3>1
      <4> HIDE DEF h, i, q, mail
      <4>2. \A x \in Mail : h \o i \o Append(q, x) = Append(h \o i \o q, x)
        BY <4>1, WireAppend
      <4>3. QED
        BY <4>1, <4>2, Zenon DEF Wire, h, i, q
    <3>4. \A m \in Machine : Wire(m)' = IF m = mail.to THEN Append(Wire(m), mail) ELSE Wire(m)
      BY <2>1, <3>2, <3>3 DEF Wire
    <3>5. wire' = [wire EXCEPT ![mail.to] = Append(@, mail)]
      BY <3>1, <3>4
    <3>6. QED
      BY <2>1, <3>1, <3>5 DEF Post!Next, Post!Send, Wire
  <2>4. QED
    BY <1>4, <2>2, <2>3 DEF NetworkSend
<1>5. ASSUME NEW t \in Threads, ReceiveHello(t) \/ ReceiveAck(t)
      PROVE  Post!Next
  <2>1. PICK b \in Box : Get(t, b)
    BY <1>5 DEF ReceiveHello, ReceiveAck, Box
  <2>2. Home(t) \in Machine
    BY HomeMachine
  <2>3. UNCHANGED <<hand, inbox, socket>>
    BY <1>5 DEF ReceiveHello, ReceiveAck
  <2>4. QED
    BY <2>1, <2>2, <2>3 DEF Get, Wire, Post!Next, Post!Receive
<1>6. ASSUME NEW m \in Machine, SendDone(m) \/ AwaitPacket(m)
      PROVE  UNCHANGED <<wire, boxes>>
  BY <1>2, <1>6 DEF SendDone, AwaitPacket
<1>7. ASSUME NEW m \in Machine, CheckPktAvail(m) PROVE UNCHANGED <<wire, boxes>>
  <2>1. /\ inbox[m] = NULL /\ socket[m] # <<>> /\ UNCHANGED <<hand, boxes>>
        /\ inbox' = [inbox EXCEPT ![m] = Head(socket[m])]
        /\ socket' = [socket EXCEPT ![m] = Tail(@)]
    BY <1>7 DEF CheckPktAvail, BufferFree
  <2>2. Head(socket[m]) \in Mail
    BY <1>1, <2>1, HeadTailProperties
  <2>3. /\ Wire(m) = Held(hand[m]) \o <<>> \o socket[m]
        /\ Wire(m)' = Held(hand[m]) \o <<Head(socket[m])>> \o Tail(socket[m])
    BY <1>0, <2>1, <2>2 DEF Wire, Held, PostTypeOK
  <2>4. Wire(m)' = Wire(m)
    <3> DEFINE h == Held(hand[m])  q == socket[m]
    <3>1. h \in Seq(Mail) /\ q \in Seq(Mail) /\ q # <<>>
      BY <1>1, <2>1
    <3> HIDE DEF h, q
    <3>2. h \o <<Head(q)>> \o Tail(q) = h \o <<>> \o q
      BY <3>1, WireMove
    <3>3. QED
      BY <2>3, <3>2, Zenon DEF h, q
  <2>5. \A n \in Machine : n # m => Wire(n)' = Wire(n)
    BY <1>0, <2>1 DEF Wire, PostTypeOK
  <2>6. QED
    BY <2>1, <2>4, <2>5
<1>8. ASSUME NEW m \in Machine, Fetch(m) PROVE UNCHANGED <<wire, boxes>>
  <2>1. /\ worker[m] = "fetch" /\ UNCHANGED <<socket, boxes>>
        /\ hand' = [hand EXCEPT ![m] = inbox[m]]
        /\ inbox' = [inbox EXCEPT ![m] = NULL]
    BY <1>8 DEF Fetch
  <2>2. hand[m] = NULL
    BY <1>0, <2>1 DEF OnePacket
  <2>3. Wire(m) = <<>> \o Held(inbox[m]) \o socket[m]
        /\ Wire(m)' = Held(inbox[m]) \o <<>> \o socket[m]
    BY <1>0, <2>1, <2>2 DEF Wire, Held, PostTypeOK
  <2>4. Wire(m)' = Wire(m)
    BY <1>1, <2>3, ConcatEmptySeq
  <2>5. \A n \in Machine : n # m => Wire(n)' = Wire(n)
    BY <1>0, <2>1 DEF Wire, PostTypeOK
  <2>6. QED
    BY <2>1, <2>4, <2>5
<1>9. ASSUME NEW m \in Machine, Put(m) PROVE Post!Next
  <2> DEFINE mail == hand[m]
  <2>1. /\ worker[m] = "put" /\ UNCHANGED <<inbox, socket>>
        /\ boxes' = [boxes EXCEPT ![m][mail.box] = Append(@, mail)]
        /\ hand' = [hand EXCEPT ![m] = NULL]
    BY <1>9 DEF Put
  <2>2. mail \in Mail /\ mail # NULL
    BY <1>0, <2>1 DEF OnePacket, PostTypeOK
  <2>3. /\ Wire(m) = <<mail>> \o Held(inbox[m]) \o socket[m]
        /\ Wire(m)' = <<>> \o Held(inbox[m]) \o socket[m]
    BY <1>0, <2>1, <2>2 DEF Wire, Held, PostTypeOK
  <2>4. /\ Wire(m) # <<>> /\ Head(Wire(m)) = mail
        /\ Tail(Wire(m)) = Held(inbox[m]) \o socket[m]
    <3>1. Held(inbox[m]) \in Seq(Mail) /\ socket[m] \in Seq(Mail)
      BY <1>1
    <3>2. /\ <<mail>> \o Held(inbox[m]) \o socket[m] # <<>>
          /\ Head(<<mail>> \o Held(inbox[m]) \o socket[m]) = mail
          /\ Tail(<<mail>> \o Held(inbox[m]) \o socket[m]) = Held(inbox[m]) \o socket[m]
      BY <2>2, <3>1, WireHead, Zenon
    <3>3. QED
      BY <2>3, <3>2, Zenon
  <2>5. Wire(m)' = Tail(Wire(m))
    BY <1>1, <2>3, <2>4, ConcatEmptySeq
  <2>6. \A n \in Machine : n # m => Wire(n)' = Wire(n)
    BY <1>0, <2>1 DEF Wire, PostTypeOK
  <2>7. wire' = [wire EXCEPT ![m] = Tail(@)]
    BY <2>5, <2>6
  <2>8. QED
    BY <2>1, <2>4, <2>7 DEF Post!Next, Post!Arrive, Wire
<1>10. CASE UNCHANGED postVars
  BY <1>2, <1>10
<1>11. QED
  BY <1>3, <1>4, <1>5, <1>6, <1>7, <1>8, <1>9, <1>10, Zenon
     DEF PostNext, Thread, Interrupts, Worker

(* network.h and post.h: through the socket, the one-packet buffer and the *)
(* worker, what is not lost when it is sent arrives once, in order, in the *)
(* box it names, and nothing else does.                                    *)
THEOREM ImplementsLossyMail == PostSpec => LossyMailSpec
<1>1. PostInit => Post!Init
  BY ImplementsInit
<1>2. PostInv /\ [PostNext]_postVars => [Post!Next]_<<[m \in Machine |-> Wire(m)], boxes>>
  BY ImplementsStep
<1>3. PostInv /\ [PostNext]_postVars =>
        [Post!Next]_<<[m \in Machine |-> Held(hand[m]) \o Held(inbox[m]) \o socket[m]], boxes>>
  BY <1>2 DEF Wire
<1>4. QED
  BY <1>1, <1>3, PostInvHolds, PTL DEF PostSpec, LossyMailSpec, Post!Spec

=============================================================================
