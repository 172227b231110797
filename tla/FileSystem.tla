------------------------------ MODULE FileSystem ------------------------------
(***************************************************************************)
(* The NachOS file system on disk: filesys/filesys.cc with the directory,  *)
(* file headers, open files and free map it works on.  There is one client *)
(* (filesys.cc says it "assumes there is no concurrent access"), and the   *)
(* machine may crash between any two sector writes and boot again.         *)
(*                                                                         *)
(* A call works on copies in memory, `call`, and then writes sectors back, *)
(* one step each.  The free map fills one sector.  The directory fills     *)
(* two, and entries in Straddling have their name in the second one.       *)
(***************************************************************************)
EXTENDS Integers, Sequences, FiniteSets, SequencesExt

CONSTANTS
  Name,          (* file names                                             *)
  NumSectors, SectorSize, NumDirect,
  NumDirEntries,
  FirstSector, Straddling, (* entries in the first sector of the directory *)
  Sizes,         (* initial sizes of files                                 *)
  Byte,          (* what is written                                        *)
  NoName         (* in an entry that was never used                        *)

FreeMapSector == 0
DirectorySector == 1
MapData == {2}
DirectoryData == {3, 4}
System == {FreeMapSector, DirectorySector} \union MapData \union DirectoryData
Sectors == 0..(NumSectors - 1)
Entries == 1..NumDirEntries
Uninitialised == -1

DivRoundUp(n, d) == (n + d - 1) \div d

(* filehdr.h has MaxFileSize = NumDirect * SectorSize, which nothing tests.*)
ASSUME FileSystemAssumption ==
  /\ {SectorSize, NumDirect, NumDirEntries} \subseteq Nat \ {0}
  /\ NumSectors \in Nat /\ System \subseteq Sectors
  /\ FirstSector \subseteq Entries /\ Straddling \subseteq Entries \ FirstSector
  /\ Sizes \subseteq 0..(NumDirect * SectorSize)
  /\ Byte \subseteq Nat \ {0}
  /\ NoName \notin Name

VARIABLES
  sector,     (* what each sector holds: a file header or data             *)
  freeMap,    (* the sectors that the free map on disk marks               *)
  directory,  (* the directory on disk                                     *)
  call,       (* the call in progress and its copies in memory             *)
  hit,        (* directory entries that a crash left half done             *)
  crashed     (* an ASSERT failed                                          *)

fsVars == <<sector, freeMap, directory, call, hit, crashed>>

Header(numBytes, sectors) ==
  [numBytes |-> numBytes, dataSectors |-> sectors, bytes |-> <<>>]
Data(bytes) == [numBytes |-> 0, dataSectors |-> <<>>, bytes |-> bytes]

NoEntry == [inUse |-> FALSE, sector |-> 0, name |-> NoName]
NoCall == [at |-> "none", name |-> NoName, entry |-> 0, sector |-> 0, hdr |-> Header(0, <<>>),
           directory |-> [i \in Entries |-> NoEntry], freeMap |-> {},
           next |-> 0, buf |-> <<>>, span |-> {}]

FsTypeOK ==
  /\ \A s \in Sectors :
       /\ sector[s].numBytes \in Nat
       /\ sector[s].dataSectors \in BoundedSeq(Sectors, NumDirect)
       /\ sector[s].bytes \in {<<>>} \union
            [1..SectorSize -> Byte \union {0, Uninitialised}]
  /\ freeMap \subseteq Sectors
  /\ directory \in [Entries -> [inUse : BOOLEAN, sector : Sectors,
                                name : Name \union {NoName}]]
  /\ call.at \in {"none", "header", "dir1", "dir2", "map", "write",
                  "unmap", "undir1", "undir2"}
  /\ hit \subseteq Entries /\ crashed \in BOOLEAN

(* FileSystem(format): headers of the map and the directory, the map with  *)
(* what they take, an empty directory.                                     *)
FsInit ==
  /\ sector = [s \in Sectors |-> Data([i \in 1..SectorSize |-> 0])]
  /\ freeMap = System
  /\ directory = [i \in Entries |-> NoEntry]
  /\ call = NoCall /\ hit = {} /\ crashed = FALSE

-----------------------------------------------------------------------------
(* Directory.                                                              *)

Indexes(dir, n) == {i \in Entries : dir[i].inUse /\ dir[i].name = n}

Least(S) == CHOOSE i \in S : \A j \in S : i <= j

(* Directory::Find: the sector of the header, or -1.                       *)
Find(dir, n) ==
  IF Indexes(dir, n) = {} THEN -1 ELSE dir[Least(Indexes(dir, n))].sector

FreeEntries(dir) == {i \in Entries : ~ dir[i].inUse}

(* Directory::Add, when there is room.                                     *)
Add(dir, n, s) ==
  [dir EXCEPT ![Least(FreeEntries(dir))] =
     [inUse |-> TRUE, sector |-> s, name |-> n]]

(* Directory::Remove: the name stays in the entry.                         *)
RemoveName(dir, n) == [dir EXCEPT ![Least(Indexes(dir, n))].inUse = FALSE]

(* Of Directory::WriteBack, the first sector and the second.               *)
FirstHalf(dir) ==
  [i \in Entries |->
     IF i \in FirstSector THEN dir[i]
     ELSE IF i \in Straddling THEN [dir[i] EXCEPT !.name = directory[i].name]
     ELSE directory[i]]

-----------------------------------------------------------------------------
(* Free map and file headers.                                              *)

Clear(map) == Sectors \ map

(* The k first clear bits of a map, in ascending order.                    *)
FirstClear(map, k) ==
  [i \in 1..k |-> CHOOSE s \in Clear(map) :
                    Cardinality({t \in Clear(map) : t < s}) = i - 1]

(* Mutant: sectors are handed out that are not marked afterwards.          *)
TakeUnmarked(map, k) == [found |-> FirstClear(map, k), map |-> map]

(* k calls of BitMap::Find, each marking the first clear bit.              *)
Take(map, k) ==
  [found |-> FirstClear(map, k), map |-> map \union Range(FirstClear(map, k))]

NumSectorsOf(size) == DivRoundUp(size, SectorSize)

-----------------------------------------------------------------------------
(* FileSystem::Create.  Whatever fails, fails before anything is written.  *)
Create(n, size) ==
  LET hdrTake == Take(freeMap, 1)
      take == Take(hdrTake.map, NumSectorsOf(size))
  IN
  /\ call.at = "none" /\ ~ crashed
  /\ Find(directory, n) = -1
  /\ Clear(freeMap) # {}
  /\ FreeEntries(directory) # {}
  /\ Cardinality(Clear(hdrTake.map)) >= NumSectorsOf(size)
  /\ call' = [NoCall EXCEPT !.at = "header", !.name = n,
                !.sector = hdrTake.found[1],
                !.entry = Least(FreeEntries(directory)),
                !.hdr = Header(size, take.found),
                !.directory = Add(directory, n, hdrTake.found[1]),
                !.freeMap = take.map]
  /\ UNCHANGED <<sector, freeMap, directory, hit, crashed>>

To(at) == call' = [call EXCEPT !.at = at]

(* hdr->WriteBack(sector).                                                 *)
WriteHeader ==
  /\ call.at = "header" /\ To("dir1")
  /\ sector' = [sector EXCEPT ![call.sector] = call.hdr]
  /\ UNCHANGED <<freeMap, directory, hit, crashed>>

(* directory->WriteBack(directoryFile), and freeMap->WriteBack after it in *)
(* Create, before it in Remove.                                            *)
WriteDirectory ==
  /\ \/ /\ call.at = "dir1" /\ To("dir2") /\ directory' = FirstHalf(call.directory)
     \/ /\ call.at = "dir2" /\ To("map") /\ directory' = call.directory
     \/ /\ call.at = "undir1" /\ To("undir2")
        /\ directory' = FirstHalf(call.directory)
     \/ /\ call.at = "undir2" /\ call' = NoCall /\ directory' = call.directory
  /\ UNCHANGED <<sector, freeMap, hit, crashed>>

WriteFreeMap ==
  /\ \/ call.at = "map" /\ call' = NoCall
     \/ call.at = "unmap" /\ To("undir1")
  /\ freeMap' = call.freeMap
  /\ UNCHANGED <<sector, directory, hit, crashed>>

(* Files a client still uses: it forgets those that a crash hit.           *)
Usable == {n \in Name : /\ Indexes(directory, n) # {}
                        /\ Least(Indexes(directory, n)) \notin hit}

(* The sectors of file n, its header's first.                              *)
HeaderOf(n) == sector[Find(directory, n)]
SectorsOf(n) == {Find(directory, n)} \union Range(HeaderOf(n).dataSectors)

(* FileHeader::Deallocate, and freeMap->Clear of the header's sector.      *)
Deallocate(n) == freeMap \ SectorsOf(n)

(* FileSystem::Remove of a file that is there and that nobody has open.    *)
RemoveFile(n) ==
  /\ call.at = "none" /\ ~ crashed /\ n \in Usable
  /\ IF Range(HeaderOf(n).dataSectors) \subseteq freeMap
     THEN /\ call' = [NoCall EXCEPT !.at = "unmap", !.name = n,
                         !.entry = Least(Indexes(directory, n)),
                         !.directory = RemoveName(directory, n),
                         !.freeMap = Deallocate(n)]
          /\ UNCHANGED crashed
     ELSE crashed' = TRUE /\ UNCHANGED call
  /\ UNCHANGED <<sector, freeMap, directory, hit>>

-----------------------------------------------------------------------------
(* OpenFile::ReadAt and WriteAt, in bytes.                                 *)

(* Bytes of a file, through its header; position 0 is the first.  A sector *)
(* that was a header until now may hold anything.                          *)
ByteAt(n, i) ==
  LET s == sector[HeaderOf(n).dataSectors[(i \div SectorSize) + 1]]
  IN  IF s.bytes = <<>> THEN Uninitialised ELSE s.bytes[(i % SectorSize) + 1]

Content(n) == [i \in 0..(HeaderOf(n).numBytes - 1) |-> ByteAt(n, i)]

(* Mutant: a last sector that is written in part is not read first.        *)
ReadFirstOnly(position, num) ==
  LET first == position \div SectorSize
  IN  IF position % SectorSize # 0 THEN {first} ELSE {}

(* Sectors that WriteAt reads before it writes part of them.               *)
ReadBefore(position, num) ==
  LET first == position \div SectorSize
      last == (position + num - 1) \div SectorSize
      firstAligned == position % SectorSize = 0
      lastAligned == (position + num) % SectorSize = 0
  IN  (IF firstAligned THEN {} ELSE {first}) \union
      (IF ~ lastAligned /\ (first # last \/ firstAligned) THEN {last} ELSE {})

(* The buffer of WriteAt, sector by sector: old bytes where they were read *)
(* and the file reaches, new ones over them.                               *)
Buffer(n, position, num, byte) ==
  LET first == position \div SectorSize
      last == (position + num - 1) \div SectorSize
      At(i) == IF i \in position..(position + num - 1) THEN byte
               ELSE IF /\ i \div SectorSize \in ReadBefore(position, num)
                       /\ i < HeaderOf(n).numBytes
                    THEN ByteAt(n, i)
                    ELSE Uninitialised
  IN  [k \in 1..(last - first + 1) |->
         [j \in 1..SectorSize |-> At((first + k - 1) * SectorSize + j - 1)]]

(* Open, Seek and Write of num bytes, as many as the file has from there.  *)
Write(n, position, num, byte) ==
  LET length == HeaderOf(n).numBytes
      most == IF position + num > length THEN length - position ELSE num
  IN
  /\ call.at = "none" /\ ~ crashed /\ n \in Usable
  /\ position < length
  /\ call' = [NoCall EXCEPT !.at = "write", !.name = n, !.hdr = HeaderOf(n),
                !.next = position \div SectorSize,
                !.buf = Buffer(n, position, most, byte),
                !.span = position..(position + most - 1)]
  /\ UNCHANGED <<sector, freeMap, directory, hit, crashed>>

(* synchDisk->WriteSector of the next sector of the buffer.                *)
WriteSector ==
  /\ call.at = "write"
  /\ sector' = [sector EXCEPT ![call.hdr.dataSectors[call.next + 1]] =
                  Data(Head(call.buf))]
  /\ call' = IF Len(call.buf) = 1 THEN NoCall
             ELSE [call EXCEPT !.buf = Tail(@), !.next = @ + 1]
  /\ UNCHANGED <<freeMap, directory, hit, crashed>>

-----------------------------------------------------------------------------
(* A crash: the machine comes back with what the disk holds.  An entry in  *)
(* use whose sectors are not marked, perhaps under the name of an earlier  *)
(* file, is left alone from then on.                                       *)
Crash ==
  /\ call.at # "none" /\ call' = NoCall
  /\ hit' = IF /\ call.at \in {"dir2", "map", "undir1", "undir2"}
               /\ directory[call.entry].inUse
            THEN hit \union {call.entry} ELSE hit
  /\ UNCHANGED <<sector, freeMap, directory, crashed>>

FsNext ==
  \/ \E n \in Name :
       \/ \E size \in Sizes : Create(n, size)
       \/ RemoveFile(n)
       \/ \E position \in 0..(NumDirect * SectorSize - 1),
             num \in 1..(2 * SectorSize - 1), byte \in Byte : Write(n, position, num, byte)
  \/ WriteHeader \/ WriteDirectory \/ WriteFreeMap \/ WriteSector
  \/ Crash

FsSpec == FsInit /\ [][FsNext]_fsVars

-----------------------------------------------------------------------------
(* Properties.                                                             *)

(* filesys.cc:38-40 says a crash "may corrupt the disk".  What it leaves   *)
(* half done does not spread while it is left alone: between calls, the    *)
(* other files have well-formed headers and sectors of their own, and the  *)
(* free map marks these and no more, so that no sector is lost either.     *)
FilesSound ==
  /\ ~ crashed
  /\ call.at = "none" =>
       /\ freeMap = System \union UNION {SectorsOf(n) : n \in Usable}
       /\ \A n \in Usable :
            /\ SectorsOf(n) \intersect System = {}
            /\ Cardinality(SectorsOf(n)) = 1 + NumSectorsOf(HeaderOf(n).numBytes)
            /\ \A m \in Usable \ {n} : SectorsOf(m) \intersect SectorsOf(n) = {}

(* No step of a call, nor a crash in it, changes a byte of a file it is    *)
(* not about; a write changes none outside the bytes it was given, for all *)
(* that it writes whole sectors.                                           *)
OnlyOwnBytes ==
  [][\A n \in Usable \intersect Usable' :
       \/ Content(n)' = Content(n)
       \/ /\ n = call.name /\ call.at = "write"
          /\ \A i \in DOMAIN Content(n) : i \notin call.span =>
               Content(n)'[i] = Content(n)[i]]_fsVars

=============================================================================
