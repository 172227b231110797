--------------------------- MODULE VirtualMemory ---------------------------
(***************************************************************************)
(* The memory management unit of vm/VmDataStructures.cc (inverted page     *)
(* table, TLB, replacement), the TLB lookup of machine/translate.cc, the   *)
(* page fault handler of userprog/exception.cc, and the address spaces of  *)
(* userprog/addrspace.cc that Scheduler::Run saves and restores.           *)
(*                                                                         *)
(* The state of the MMU is the record mmu, and each of its methods is an   *)
(* operator from that record to the next one.  An AddrSpace is known to    *)
(* the MMU by its address, and the heap may hand out an address again      *)
(* after the object that was there is deleted.  Writes before the start of *)
(* the TLB array hit the heap's header and change nothing modelled here; a *)
(* frame outside the memory ends the model (mmu.wild).                     *)
(*                                                                         *)
(* lastAccessCount is modelled by the order it gives: mmu.order lists the  *)
(* frames accessed since they were filled, oldest first, and a frame that  *)
(* is not listed has count 0.  The first access of all stores a 0 as well, *)
(* but the next instruction (PC 0, then NextPC 4) is in the same page and  *)
(* overwrites it before anybody looks.  An image fills whole pages: the    *)
(* page a stack could share with the data is left out, and so are the use  *)
(* and dirty bits of the TLB, which nobody reads.                          *)
(***************************************************************************)
EXTENDS Integers, FiniteSets, SequencesExt

CONSTANTS
  Processes,   (* processes that can exist, each a thread with a space     *)
  Main,        (* the one the machine starts with                          *)
  Addresses,   (* where AddrSpace objects can be in the heap               *)
  NumFrames,   (* IPT_SIZE, the number of physical pages: 32               *)
  IptLength,   (* entries of the array invPageTable: 128                   *)
  NumSlots,    (* TLB_SIZE: 4                                              *)
  ImagePages,  (* pages of code and data of each executable                *)
  StackPages,  (* pages of each stack                                      *)
  NULL

Frames == 0..(NumFrames - 1)
Entries == 0..(IptLength - 1)
Slots == 0..(NumSlots - 1)
Image == 0..(ImagePages - 1)
Pages == 0..(ImagePages + StackPages - 1)

Entry == [page : Pages \union {-1}, space : Addresses \union {NULL},
          valid : BOOLEAN, dirty : BOOLEAN, slot : Slots \union {-1}]
Translation == [page : Pages \union {-1}, frame : Frames \union {-1}, valid : BOOLEAN]
TableEntry == [frame : Frames \union {-1}, valid : BOOLEAN,
               dirty : BOOLEAN, readOnly : BOOLEAN]

ASSUME MemoryAssumption ==
  /\ Main \in Processes /\ Addresses # {}
  /\ NULL \notin Processes \union Addresses \union [Pages -> TableEntry]
  /\ NumFrames \in Nat \ {0} /\ IptLength \in Nat /\ IptLength >= NumFrames
  /\ NumSlots \in Nat /\ NumSlots > 1
  /\ ImagePages \in Nat \ {0} /\ StackPages \in Nat

VARIABLES
  mmu,      (* the MemoryManagementUnit, with the TLB and main memory      *)
  life,     (* of each process                                             *)
  space,    (* Thread::space, the address of its AddrSpace                 *)
  current,  (* the process on the processor                                *)
  doomed,   (* threadToBeDestroyed                                         *)
  fresh,    (* those Exec'd whose first instruction, at PC 0, is to come   *)
  expected, (* history: what the process last wrote to a page, or else     *)
            (* what its executable has there                               *)
  handed,   (* history: addresses the heap has handed out                  *)
  reused    (* history: it has handed out one of them twice                *)

vmVars == <<mmu, life, space, current, doomed, fresh, expected, handed, reused>>

Zero == <<>>
FromFile(p, v) == IF v \in Image THEN <<p, v, "file">> ELSE Zero
Written(p, v) == <<p, v, "written">>
Contents == {Zero} \union (Processes \X Pages \X {"file", "written"})

Unit == [ipt : [Entries -> Entry], tlb : [Slots -> Translation],
         used : SUBSET Frames, taken : SUBSET Slots, order : Seq(Frames),
         memory : [Frames -> Contents],
         tables : [Addresses -> {NULL} \union [Pages -> TableEntry]],
         wild : BOOLEAN]

VMTypeOK ==
  /\ mmu \in Unit
  /\ life \in [Processes -> {"absent", "exec", "fork", "alive", "finished", "deleted"}]
  /\ space \in [Processes -> Addresses \union {NULL}]
  /\ current \in Processes /\ doomed \in Processes \union {NULL}
  /\ fresh \subseteq Processes
  /\ expected \in [Processes -> [Pages -> Contents]]
  /\ handed \subseteq Addresses /\ reused \in BOOLEAN

EmptyEntry == [page |-> -1, space |-> NULL, valid |-> FALSE, dirty |-> FALSE, slot |-> -1]
NoTranslation == [page |-> -1, frame |-> -1, valid |-> FALSE]

NewTable == [v \in Pages |->
  [frame |-> -1, valid |-> FALSE, dirty |-> FALSE, readOnly |-> FALSE]]

(* AddrSpace(parent): the image is shared read-only, the stack is new.     *)
ForkedTable(table) == [v \in Pages |->
  IF v \in Image THEN [table[v] EXCEPT !.readOnly = TRUE] ELSE NewTable[v]]

(* The machine has started its first program.                              *)
VMInit ==
  /\ \E a \in Addresses :
       /\ mmu = [ipt |-> [i \in Entries |-> EmptyEntry],
                 tlb |-> [s \in Slots |-> NoTranslation],
                 used |-> {}, taken |-> {}, order |-> <<>>,
                 memory |-> [f \in Frames |-> Zero],
                 tables |-> [b \in Addresses |-> IF b = a THEN NewTable ELSE NULL],
                 wild |-> FALSE]
       /\ space = [p \in Processes |-> IF p = Main THEN a ELSE NULL]
       /\ handed = {a}
  /\ life = [p \in Processes |-> IF p = Main THEN "alive" ELSE "absent"]
  /\ current = Main /\ doomed = NULL /\ fresh = Processes /\ reused = FALSE
  /\ expected = [p \in Processes |-> [v \in Pages |-> FromFile(p, v)]]

-----------------------------------------------------------------------------
(* MemoryManagementUnit.                                                   *)

(* BitMap::Find without the marking: the first clear bit, or -1.           *)
FirstClear(bits, all) ==
  IF all \subseteq bits THEN -1
  ELSE CHOOSE i \in all \ bits : \A j \in all \ bits : i <= j

(* Where x is in a sequence that has it at most once; 0 when it is not.    *)
IndexOf(seq, x) ==
  IF \E i \in 1..Len(seq) : seq[i] = x
  THEN CHOOSE i \in 1..Len(seq) : seq[i] = x ELSE 0

Without(seq, x) ==
  IF IndexOf(seq, x) = 0 THEN seq ELSE RemoveAt(seq, IndexOf(seq, x))

(* lastAccessCount, as a rank.                                             *)
Rank(m, f) == IndexOf(m.order, f)

(* The least recently used of some entries; the first one among equals.    *)
LeastRecent(m, entries) ==
  CHOOSE f \in entries : \A g \in entries :
    Rank(m, f) < Rank(m, g) \/ (Rank(m, f) = Rank(m, g) /\ f <= g)

invalidateTLBEntry(m, s) ==
  IF s \in Slots
  THEN [m EXCEPT !.tlb[s] = NoTranslation, !.taken = @ \ {s}] ELSE m

(* Mutant: the owner's page table is not told.                              *)
invalidateUntold(m, f) ==
  [m EXCEPT !.ipt[f] = [EmptyEntry EXCEPT !.slot = m.ipt[f].slot],
            !.order = Without(@, f), !.used = @ \ {f}]

(* The owner's page table is updated through the address in the entry; if  *)
(* the object was deleted and nobody is there now, that is freed memory.   *)
invalidateInvPageTableEntry(m, f) ==
  LET e == m.ipt[f]
      table == m.tables[e.space]
      gone == [table[e.page] EXCEPT !.frame = -1, !.valid = FALSE, !.dirty = e.dirty]
  IN IF e.space = NULL THEN m
     ELSE [m EXCEPT
       !.tables[e.space] = IF table = NULL THEN NULL
                           ELSE [table EXCEPT ![e.page] = gone],
       !.ipt[f] = [EmptyEntry EXCEPT !.slot = e.slot],
       !.order = Without(@, f),
       !.used = @ \ {f}]

(* The scan covers the whole array, which is longer than the memory.       *)
findLeastRecentlyUsed(m) == LeastRecent(m, Entries)

(* Clearing a frame past the memory is the wild write.                     *)
evictPage(m) ==
  LET f == findLeastRecentlyUsed(m) IN
  IF f \notin Frames THEN [m EXCEPT !.wild = TRUE]
  ELSE [invalidateInvPageTableEntry(invalidateTLBEntry(m, m.ipt[f].slot), f)
          EXCEPT !.memory[f] = Zero]

(* The MMU after the call, and the frame or TLB entry it returned.         *)
findFreeFrame(m) ==
  LET room == IF FirstClear(m.used, Frames) = -1 THEN evictPage(m) ELSE m
      f == FirstClear(room.used, Frames)
  IN  [mmu |-> [room EXCEPT !.used = @ \union ({f} \ {-1})], at |-> f]

(* Mutant: the test that is meant, location 0 included and -1 not.          *)
OnTLBMeant(m) == {f \in Frames : m.ipt[f].slot >= 0}

(* "if (tlbLocation)": true of -1 and false of 0.                          *)
OnTLB(m) == {f \in Frames : m.ipt[f].slot # 0}

(* No more than NumSlots of them are collected.                            *)
findTLBLeastRecentlyUsed(m) ==
  LeastRecent(m, {f \in OnTLB(m) :
                    Cardinality({g \in OnTLB(m) : g < f}) < NumSlots})

(* With nothing collected the victim is an uninitialised pointer.          *)
evictTLBEntry(m) ==
  IF OnTLB(m) = {} THEN [m EXCEPT !.wild = TRUE] ELSE
  LET f == findTLBLeastRecentlyUsed(m) IN
  [invalidateTLBEntry(m, m.ipt[f].slot) EXCEPT !.ipt[f].slot = -1]

findFreeTLBEntry(m) ==
  LET room == IF FirstClear(m.taken, Slots) = -1 THEN evictTLBEntry(m) ELSE m
      s == FirstClear(room.taken, Slots)
  IN  [mmu |-> [room EXCEPT !.taken = @ \union ({s} \ {-1})], at |-> s]

(* TLB[s] with s = -1 is outside the array.                                *)
SetTLB(m, s, v, f) ==
  IF s \in Slots
  THEN [m EXCEPT !.tlb[s] = [page |-> v, frame |-> f, valid |-> TRUE]] ELSE m

(* What loadFromExecutableToMemory and loadFromSwapToMemory share: frame f *)
(* and TLB entry s get page v of the space at a.                           *)
Install(m, a, v, f, s, dirty) ==
  SetTLB([m EXCEPT !.ipt[f] = [@ EXCEPT !.page = v, !.valid = TRUE,
                                        !.space = a, !.slot = s],
                   !.tables[a][v] = [@ EXCEPT !.frame = f, !.valid = TRUE,
                                              !.dirty = dirty]], s, v, f)

(* A stack page is not read: it holds what the frame held.                 *)
loadPageToMemory(m, p, v, f) ==
  IF v \in Image THEN [m EXCEPT !.memory[f] = FromFile(p, v)] ELSE m

loadFromExecutableToMemory(m, p, v) ==
  LET frame == findFreeFrame(m)
      entry == findFreeTLBEntry(frame.mmu)
  IN  IF frame.at = -1 THEN frame.mmu
      ELSE Install(loadPageToMemory(entry.mmu, p, v, frame.at), space[p], v,
                   frame.at, entry.at, m.tables[space[p]][v].dirty)

(* writeToSwapFromMemory has no caller that is ever called, so the swap    *)
(* table holds no page and readFromSwapToMemory returns without reading.   *)
loadFromSwapToMemory(m, p, v) ==
  LET frame == findFreeFrame(m)
      entry == findFreeTLBEntry(frame.mmu)
  IN  IF frame.at = -1 THEN frame.mmu
      ELSE Install(entry.mmu, space[p], v, frame.at, entry.at, TRUE)

Holding(m, a, v) == {i \in Entries : m.ipt[i].page = v /\ m.ipt[i].space = a}

(* findPage takes the first; the entry's tlbLocation is left as it is.     *)
reloadTLBwithValidEntry(m, a, v) ==
  IF Holding(m, a, v) = {} THEN m
  ELSE LET f == CHOOSE i \in Holding(m, a, v) : \A j \in Holding(m, a, v) : i <= j
           entry == findFreeTLBEntry(m)
       IN  SetTLB(entry.mmu, entry.at, v, f)

(* NachOS_PAGE_FAULT_HANDLER and handlePageFault.  Copy on write does      *)
(* nothing.                                                                *)
PageFault(m, p, v) ==
  LET t == m.tables[space[p]][v] IN
  CASE t.readOnly -> m
    [] ~ t.readOnly /\ ~ t.valid /\ t.dirty -> loadFromSwapToMemory(m, p, v)
    [] ~ t.readOnly /\ ~ t.valid /\ ~ t.dirty -> loadFromExecutableToMemory(m, p, v)
    [] ~ t.readOnly /\ t.valid -> reloadTLBwithValidEntry(m, space[p], v)

(* Slots of the pages of a that protect and restore switch.                *)
SlotsOf(m, a, valid) ==
  {m.ipt[f].slot : f \in {f \in Frames : m.ipt[f].space = a /\ m.ipt[f].valid = valid}}

SetValid(m, a, valid) ==
  [m EXCEPT
    !.ipt = [i \in Entries |->
      IF i \in Frames /\ @[i].space = a THEN [@[i] EXCEPT !.valid = valid] ELSE @[i]],
    !.tlb = [s \in Slots |->
      IF s \in SlotsOf(m, a, ~ valid) THEN [@[s] EXCEPT !.valid = valid] ELSE @[s]]]

(* Mutant: only the inverted page table is protected.                       *)
protectOnlyTable(m, a) ==
  [m EXCEPT !.ipt = [i \in Entries |->
      IF i \in Frames /\ @[i].space = a THEN [@[i] EXCEPT !.valid = FALSE] ELSE @[i]]]

protectProcessPages(m, a) == SetValid(m, a, FALSE)

restoreProcessPages(m, a) == SetValid(m, a, TRUE)

-----------------------------------------------------------------------------
(* The machine executing an instruction of the current process.            *)

(* Machine::Translate: the first valid TLB entry for the page, or -1.      *)
Translate(m, v) ==
  LET hits == {s \in Slots : m.tlb[s].valid /\ m.tlb[s].page = v} IN
  IF hits = {} THEN -1 ELSE CHOOSE s \in hits : \A r \in hits : s <= r

(* The access goes through entry s: updatePageAccess and updatePageDirty.  *)
Touch(m, s, writing) ==
  LET f == m.tlb[s].frame IN
  [m EXCEPT !.order = Append(Without(@, f), f),
            !.ipt[f].dirty = @ \/ writing]

Going == ~ mmu.wild

(* A fetch that faults; the instruction is started again later.            *)
FetchFault(x) ==
  /\ Going /\ Translate(mmu, x) = -1
  /\ current \in fresh => x = 0
  /\ mmu' = PageFault(mmu, current, x)
  /\ UNCHANGED <<life, space, current, doomed, fresh, expected, handed, reused>>

(* An instruction in page x without an operand in memory.                  *)
Execute(x) ==
  /\ Going /\ Translate(mmu, x) # -1
  /\ current \in fresh => x = 0
  /\ mmu' = Touch(mmu, Translate(mmu, x), FALSE)
  /\ fresh' = fresh \ {current}
  /\ UNCHANGED <<life, space, current, doomed, expected, handed, reused>>

(* One in page x with an operand in page y.  The instruction has to be     *)
(* started again when the operand faults.                                  *)
Operand(x, y, writing) ==
  /\ Going /\ Translate(mmu, x) # -1
  /\ current \in fresh => x = 0
  /\ LET m == Touch(mmu, Translate(mmu, x), FALSE)
         s == Translate(m, y)
     IN  IF s = -1
         THEN /\ mmu' = PageFault(m, current, y)
              /\ UNCHANGED <<fresh, expected>>
         ELSE /\ mmu' = IF writing
                        THEN [Touch(m, s, TRUE) EXCEPT
                                !.memory[m.tlb[s].frame] = Written(current, y)]
                        ELSE Touch(m, s, FALSE)
              /\ expected' = IF writing
                             THEN [expected EXCEPT ![current][y] = Written(current, y)]
                             ELSE expected
              /\ fresh' = fresh \ {current}
  /\ UNCHANGED <<life, space, current, doomed, handed, reused>>

-----------------------------------------------------------------------------
(* Processes.                                                              *)

Free == {a \in Addresses : mmu.tables[a] = NULL}

Hand(a) == handed' = handed \union {a} /\ reused' = (reused \/ a \in handed)

(* The child makes its address space itself, once it runs.                 *)
ExecProcess(q) ==
  /\ Going /\ life[q] = "absent"
  /\ life' = [life EXCEPT ![q] = "exec"]
  /\ UNCHANGED <<mmu, space, current, doomed, fresh, expected, handed, reused>>

(* The child of Fork gets a copy of the caller's page table; what it       *)
(* should find in the image is what is there now.                          *)
ForkProcess(q, a) ==
  /\ Going /\ life[q] = "absent" /\ a \in Free
  /\ life' = [life EXCEPT ![q] = "fork"]
  /\ space' = [space EXCEPT ![q] = a]
  /\ mmu' = [mmu EXCEPT !.tables[a] = ForkedTable(mmu.tables[space[current]])]
  /\ expected' = [expected EXCEPT ![q] =
       [v \in Pages |-> IF v \in Image THEN expected[current][v] ELSE Zero]]
  /\ fresh' = fresh \ {q}
  /\ Hand(a)
  /\ UNCHANGED <<current, doomed>>

Saved == protectProcessPages(mmu, space[current])

(* A process that has run before is dispatched: back from SWITCH it        *)
(* deletes the thread that finished, and its address space with it.        *)
Resume(q, ends) ==
  LET carcass == IF ends THEN current ELSE doomed
      buried == IF carcass = NULL THEN Saved
                ELSE [Saved EXCEPT !.tables[space[carcass]] = NULL]
  IN  /\ Going /\ q # current /\ life[q] = "alive"
      /\ life' = [p \in Processes |->
                    IF p = carcass THEN "deleted" ELSE life[p]]
      /\ mmu' = restoreProcessPages(buried, space[q])
      /\ current' = q /\ doomed' = NULL
      /\ UNCHANGED <<space, fresh, expected, handed, reused>>

(* A new process is dispatched.  It starts in ThreadRoot and deletes       *)
(* nobody; ExecuteThread makes the space, ForkThread finds it made.        *)
Start(q, a, ends) ==
  /\ Going
  /\ \/ life[q] = "exec" /\ a \in Free /\ Hand(a)
     \/ life[q] = "fork" /\ a = space[q] /\ UNCHANGED <<handed, reused>>
  /\ life' = [life EXCEPT ![q] = "alive",
                          ![current] = IF ends THEN "finished" ELSE @]
  /\ space' = [space EXCEPT ![q] = a]
  /\ mmu' = restoreProcessPages(
              IF life[q] = "exec" THEN [Saved EXCEPT !.tables[a] = NewTable]
              ELSE Saved, a)
  /\ current' = q
  /\ doomed' = IF ends THEN current ELSE doomed
  /\ UNCHANGED <<fresh, expected>>

VMNext ==
  \/ \E x \in Image : FetchFault(x) \/ Execute(x)
  \/ \E x \in Image, y \in Pages, writing \in BOOLEAN : Operand(x, y, writing)
  \/ \E q \in Processes : ExecProcess(q)
  \/ \E q \in Processes, a \in Addresses : ForkProcess(q, a)
  \/ \E q \in Processes, ends \in BOOLEAN : Resume(q, ends)
  \/ \E q \in Processes, a \in Addresses, ends \in BOOLEAN : Start(q, a, ends)

VMSpec == VMInit /\ [][VMNext]_vmVars

-----------------------------------------------------------------------------
(* Every page table, the inverted page table and the map of free frames    *)
(* tell the same story, whatever was evicted, switched out or reused: a    *)
(* page marked valid is in the frame its table names, unless the table is  *)
(* a forked one, and a frame is taken exactly when it has an owner.        *)
TablesAgree ==
  /\ \A a \in Addresses, v \in Pages :
       mmu.tables[a] # NULL =>
         LET t == mmu.tables[a][v] IN
         t.valid /\ ~ t.readOnly =>
           t.frame \in Frames /\ mmu.ipt[t.frame].space = a /\ mmu.ipt[t.frame].page = v
  /\ \A f \in Frames : f \in mmu.used <=> mmu.ipt[f].space # NULL

(* After any switch of processes the TLB translates pages of the process   *)
(* on the processor only (SaveState and RestoreState in Scheduler::Run).   *)
OnlyOwnTranslations ==
  \A s \in Slots : mmu.tlb[s].valid =>
    LET e == mmu.ipt[mmu.tlb[s].frame] IN
    e.space = space[current] /\ e.page = mmu.tlb[s].page /\ e.valid

(* Private and lasting memory: what a process reaches through the TLB is   *)
(* what it last wrote there, or what its executable has there -- as long   *)
(* as the heap has not put an address space where another one was.         *)
OwnContents ==
  ~ reused => \A s \in Slots : mmu.tlb[s].valid =>
    mmu.memory[mmu.tlb[s].frame] = expected[current][mmu.tlb[s].page]

=============================================================================
