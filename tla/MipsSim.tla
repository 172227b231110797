------------------------------ MODULE MipsSim ------------------------------
(***************************************************************************)
(* The simulated processor of machine/mipssim.cc and machine.cc: delayed   *)
(* loads, traps and the restart of an instruction after a page fault, and  *)
(* the registers that a context switch saves and restores.                 *)
(*                                                                         *)
(* Threads run in spaces of their own.  What stands at a thread's PC is    *)
(* chosen when it gets there, among the Program it may contain; it keeps   *)
(* the rules of the architecture's manual: the register of a load is left  *)
(* alone in the instruction behind it (another load may name it), no       *)
(* branch is in a delay slot, and a jump or branch that links does not     *)
(* read the register it links in.  Any access to memory may fault, since   *)
(* any page may be out, and a switch may part any two instructions.        *)
(***************************************************************************)
EXTENDS Words

CONSTANTS
  Threads,
  Reg,         (* the general registers, 0..31                             *)
  JumpRegion,  (* bytes a J can reach, 2^28                                *)
  Program,     (* thread -> the instructions it may contain                *)
  Start,       (* the registers the threads may start with                 *)
  Memory,      (* thread -> the contents of its memory                     *)
  MaxExecuted, (* bound: thread -> instructions it executes                *)
  MaxFaults    (* bound: thread -> page faults it meets                     *)

VARIABLES
  current,     (* the thread on the processor                              *)
  registers,   (* Machine::registers                                       *)
  saved,       (* Thread::userRegisters of each thread                     *)
  mem,         (* of each thread                                           *)
  instr,       (* what stands at each thread's PC                          *)
  answer,      (* what the last step, a system call, wrote to R2, or -1    *)
  executed, faults,
  stopped      (* a trap stopped the machine                               *)

(* Registers, and those between two instructions, when R0 is zero.         *)
RegisterValues ==
  [g : [Reg -> Word], hi : Word, lo : Word, pc : Int, npc : Int,
   loadReg : Reg, loadValue : Word]
RegisterFile == {r \in RegisterValues : r.g[0] = 0}

(* Bytes, from address 0 on.                                               *)
IsMemory(m) ==
  \A a \in DOMAIN m : a \in Nat /\ 0..a \subseteq DOMAIN m /\ m[a] \in 0..(Byte - 1)

(* Opcodes that do not compute what the manual says; programs have none.   *)
WrongOps == {"OR", "SRL", "SRLV", "LWL", "LWR", "SWL", "SWR"}

ASSUME SimAssumption ==
  /\ {0, 2, 31} \subseteq Reg /\ JumpRegion \in Nat \ {0}
  /\ \A t \in Threads : \A i \in Program[t] :
       /\ i.op \notin WrongOps
       /\ i.extra \in -(W \div 2)..(W \div 2 - 1)
       /\ {i.rs, i.rt, i.rd} \subseteq Reg
       /\ i.op \in {"SLL", "SRA"} => i.extra \in 0..(WordBits - 1)
       /\ i.op = "JALR" => i.rs # i.rd
       /\ i.op \in {"BGEZAL", "BLTZAL"} => i.rs # 31
  /\ \A s \in Start : s \in [Threads -> RegisterFile]
  /\ DOMAIN Memory = Threads
  /\ \A t \in Threads : IsMemory(Memory[t])

simVars == <<current, registers, saved, mem, instr, answer, executed, faults,
             stopped>>

-----------------------------------------------------------------------------
(* The registers, with those of no number: hi, lo, pc, npc (NextPCReg),    *)
(* loadReg and loadValue.                                                  *)

G(r, i) == r.g[i]
SetG(r, i, value) == [r EXCEPT !.g[i] = value]

(* A pending load lands, the next one is noted, and R0 stays zero.         *)
Landed(r) == [[r.g EXCEPT ![r.loadReg] = r.loadValue] EXCEPT ![0] = 0]
DelayedLoad(r, nextReg, nextValue) ==
  [r EXCEPT !.g = Landed(r), !.loadReg = nextReg, !.loadValue = nextValue]

(* As if RaiseException left the load under way for later.                 *)
TrapUnfinished(r) == r

(* RaiseException, without the handler.                                    *)
Trap(r) == DelayedLoad(r, 0, 0)

Half(n) == n % Values(2)
Truth(b) == IF b THEN 1 ELSE 0
Sra(a, n) == Wrap(Signed(a) \div 2^n)

(* The loop of Mult: where a has a 1, b shifted so far is added.           *)
Turn(s) ==
  LET sum == Wrap(s.lo + s.bLo)
      add == s.a % 2 = 1
  IN [a |-> Sra(s.a, 1),
      bLo |-> Wrap(2 * s.bLo),
      bHi |-> Wrap(2 * s.bHi) + Truth(SignBit(s.bLo)),
      lo |-> IF add THEN sum ELSE s.lo,
      hi |-> IF add THEN Wrap(s.hi + Truth(sum < s.bLo) + s.bHi) ELSE s.hi]
Turns(a, b) ==
  LET after[i \in 0..WordBits] ==
        IF i = 0 THEN [a |-> a, bLo |-> b, bHi |-> 0, lo |-> 0, hi |-> 0]
        ELSE Turn(after[i - 1])
  IN after

(* Mult: bit by bit, of the numbers without their signs.                   *)
Positive(a, signedArith) ==
  IF signedArith /\ Signed(a) < 0 THEN Wrap(-a) ELSE a
Mult(x, y, signedArith) ==
  LET negative == signedArith /\ ~ (Signed(x) < 0 <=> Signed(y) < 0)
      p == Turns(Positive(x, signedArith), Positive(y, signedArith))[WordBits]
      lo == Wrap(Not(p.lo) + 1)
  IN IF x = 0 \/ y = 0 THEN [hi |-> 0, lo |-> 0]
     ELSE IF negative THEN [hi |-> Wrap(Not(p.hi) + Truth(lo = 0)), lo |-> lo]
     ELSE [hi |-> p.hi, lo |-> p.lo]

(* C division of two positive numbers or of their signs.                   *)
CDiv(a, b) ==
  LET Abs(n) == IF n < 0 THEN -n ELSE n
      q == Abs(a) \div Abs(b)
  IN IF a < 0 <=> b < 0 THEN q ELSE -q

Divide(r, a, b) ==
  IF b = 0 THEN [r EXCEPT !.lo = 0, !.hi = 0]
  ELSE [r EXCEPT !.lo = Wrap(CDiv(a, b)), !.hi = Wrap(a - CDiv(a, b) * b)]

-----------------------------------------------------------------------------
(* OneInstruction.  Each group of opcodes gives what it does, as a record: *)
(* how it ends, the registers before DelayedLoad, the load it notes, what  *)
(* npc becomes after the next instruction, and the memory.                 *)

Outcome(how, r, load, value, after, m) ==
  [how |-> how, r |-> r, load |-> load, value |-> value, after |-> after, mem |-> m]
PcAfter(r) == Wrap(r.npc + 4)
Plain(r, m) == Outcome("done", r, 0, 0, PcAfter(r), m)
Stop(r, m) == Outcome("trap", r, 0, 0, 0, m)

AluOps == {"ADD", "ADDI", "ADDIU", "ADDU", "AND", "ANDI", "LUI", "MFHI", "MFLO",
  "NOR", "OR", "ORI", "SLL", "SLLV", "SLT", "SLTI", "SLTIU", "SLTU", "SRA",
  "SRAV", "SRL", "SRLV", "SUB", "SUBU", "XOR", "XORI"}

(* OR takes rs twice, and SRL and SRLV shift an int, sign and all.         *)
Alu(r, i) ==
  LET a == G(r, i.rs)
      b == G(r, i.rt)
      x == i.extra
  IN CASE i.op \in {"ADD", "ADDU"} -> Wrap(a + b)
       [] i.op \in {"ADDI", "ADDIU"} -> Wrap(a + x)
       [] i.op \in {"SUB", "SUBU"} -> Wrap(a - b)
       [] i.op = "AND" -> And(a, b)
       [] i.op = "ANDI" -> And(a, Half(x))
       [] i.op = "OR" -> Or(a, a)
       [] i.op = "ORI" -> Or(a, Half(x))
       [] i.op = "XOR" -> Xor(a, b)
       [] i.op = "XORI" -> Xor(a, Half(x))
       [] i.op = "NOR" -> Not(Or(a, b))
       [] i.op = "LUI" -> Wrap(x * Values(2))
       [] i.op = "MFHI" -> r.hi
       [] i.op = "MFLO" -> r.lo
       [] i.op = "SLL" -> Wrap(b * 2^x)
       [] i.op = "SLLV" -> Wrap(b * 2^(a % WordBits))
       [] i.op \in {"SRA", "SRL"} -> Sra(b, x)
       [] i.op \in {"SRAV", "SRLV"} -> Sra(b, a % WordBits)
       [] i.op = "SLT" -> Truth(Signed(a) < Signed(b))
       [] i.op = "SLTI" -> Truth(Signed(a) < x)
       [] i.op = "SLTIU" -> Truth(a < Wrap(x))
       [] i.op = "SLTU" -> Truth(a < b)

(* The sign tests of ADD, ADDI and SUB, on the bits of the words.          *)
Overflow(r, i) ==
  LET a == G(r, i.rs)
      b == G(r, i.rt)
      x == Wrap(i.extra)
      Differ(m, n) == ~ (SignBit(m) <=> SignBit(n))
  IN CASE i.op = "ADD" -> ~Differ(a, b) /\ Differ(a, Wrap(a + b))
       [] i.op = "ADDI" -> ~Differ(a, x) /\ Differ(x, Wrap(a + x))
       [] i.op = "SUB" -> Differ(a, b) /\ Differ(a, Wrap(a - b))
       [] OTHER -> FALSE

ToRt == {"ADDI", "ADDIU", "ANDI", "LUI", "ORI", "SLTI", "SLTIU", "XORI"}

DoAlu(r, i, m) ==
  IF Overflow(r, i) THEN Stop(r, m)
  ELSE Plain(SetG(r, IF i.op \in ToRt THEN i.rt ELSE i.rd, Alu(r, i)), m)

HiLoOps == {"MULT", "MULTU", "DIV", "DIVU", "MTHI", "MTLO"}

(* INT_MIN / -1 stops the host.                                            *)
DoHiLo(r, i, m) ==
  LET a == G(r, i.rs)
      b == G(r, i.rt)
      Product(p) == [r EXCEPT !.hi = p.hi, !.lo = p.lo]
  IN CASE i.op = "MULT" -> Plain(Product(Mult(a, b, TRUE)), m)
       [] i.op = "MULTU" -> Plain(Product(Mult(a, b, FALSE)), m)
       [] i.op = "DIV" -> IF a = W \div 2 /\ b = W - 1 THEN Stop(r, m)
                          ELSE Plain(Divide(r, Signed(a), Signed(b)), m)
       [] i.op = "DIVU" -> Plain(Divide(r, a, b), m)
       [] i.op = "MTHI" -> Plain([r EXCEPT !.hi = a], m)
       [] i.op = "MTLO" -> Plain([r EXCEPT !.lo = a], m)

Size(op) ==
  CASE op \in {"LB", "LBU", "SB"} -> 1
    [] op \in {"LH", "LHU", "SH"} -> 2
    [] OTHER -> 4
LoadOps == {"LB", "LBU", "LH", "LHU", "LW", "LWL", "LWR"}
StoreOps == {"SB", "SH", "SW", "SWL", "SWR"}

Address(r, i) == Wrap(G(r, i.rs) + i.extra)
Reaches(m, addr, size) == addr % size = 0 /\ addr + size - 1 \in DOMAIN m

(* LWL and LWR merge with a load of the same register that is under way;   *)
(* they only take an aligned address, and serve it as a big-endian machine *)
(* would.                                                                  *)
DoLoad(r, i, m) ==
  LET size == Size(i.op)
      value == Read(m, Address(r, i), size)
      old == IF r.loadReg = i.rt THEN r.loadValue ELSE G(r, i.rt)
      Load(v) == Outcome("done", r, i.rt, v, PcAfter(r), m)
  IN IF ~Reaches(m, Address(r, i), size) THEN Stop(r, m)
     ELSE CASE i.op \in {"LB", "LH"} -> Load(Extend(value, size))
            [] i.op \in {"LBU", "LHU", "LW", "LWL"} -> Load(value)
            [] i.op = "LWR" -> Load((old - (old % Byte)) + value \div Values(3))

(* SWL and SWR, likewise.                                                  *)
DoStore(r, i, m) ==
  LET addr == Address(r, i)
      size == Size(i.op)
      reg == G(r, i.rt)
      Store(v) == Plain(r, Write(m, addr, size, v))
  IN IF ~Reaches(m, addr, size) THEN Stop(r, m)
     ELSE IF i.op = "SWR"
     THEN Store((Read(m, addr, size) % Values(3)) + (reg % Byte) * Values(3))
     ELSE Store(reg)

Branches == {"BEQ", "BGEZ", "BGEZAL", "BGTZ", "BLEZ", "BLTZ", "BLTZAL", "BNE"}
Jumps == {"J", "JAL", "JR", "JALR"}

(* The link is written first; the test and JALR's target read after it.    *)
DoBranch(r, i, m) ==
  LET link == CASE i.op \in {"BGEZAL", "BLTZAL", "JAL"} -> SetG(r, 31, PcAfter(r))
                [] i.op = "JALR" -> SetG(r, i.rd, PcAfter(r))
                [] OTHER -> r
      a == G(link, i.rs)
      taken == CASE i.op = "BEQ" -> a = G(link, i.rt)
                 [] i.op = "BNE" -> a # G(link, i.rt)
                 [] i.op \in {"BGEZ", "BGEZAL"} -> ~SignBit(a)
                 [] i.op \in {"BLTZ", "BLTZAL"} -> SignBit(a)
                 [] i.op = "BGTZ" -> Signed(a) > 0
                 [] i.op = "BLEZ" -> Signed(a) <= 0
                 [] OTHER -> FALSE
      after == CASE i.op \in {"J", "JAL"} ->
                      (PcAfter(r) \div JumpRegion) * JumpRegion + 4 * i.extra
                 [] i.op \in {"JR", "JALR"} -> a
                 [] taken -> Wrap(r.npc + 4 * i.extra)
                 [] OTHER -> PcAfter(r)
  IN Outcome("done", link, 0, 0, after, m)

OneInstruction(r, i, m) ==
  CASE i.op \in AluOps -> DoAlu(r, i, m)
    [] i.op \in HiLoOps -> DoHiLo(r, i, m)
    [] i.op \in LoadOps -> DoLoad(r, i, m)
    [] i.op \in StoreOps -> DoStore(r, i, m)
    [] i.op \in Branches \union Jumps -> DoBranch(r, i, m)
    [] i.op = "SYSCALL" -> Outcome("syscall", r, 0, 0, 0, m)
    [] OTHER -> Stop(r, m)

(* The end of OneInstruction: the delayed load, then the program counters. *)
Advance(o) ==
  [DelayedLoad(o.r, o.load, o.value) EXCEPT !.pc = o.r.npc, !.npc = o.after]

(* NachOS_IncreasePC.                                                      *)
IncreasePC(r) == [r EXCEPT !.pc = r.npc, !.npc = Wrap(r.npc + 4)]

-----------------------------------------------------------------------------
(* What a program may have at its PC when the registers are r.  A J whose  *)
(* delay slot ends a region is left out: the simulator takes the region    *)
(* from the address behind the slot, the manual from that of the slot.     *)
Touches(i) == {i.rs, i.rt, i.rd} \union
              (IF i.op \in {"BGEZAL", "BLTZAL", "JAL"} THEN {31} ELSE {})
KeepsTheRules(r, i) ==
  /\ r.loadReg # 0 /\ i.op # "SYSCALL" =>
       IF i.op \in LoadOps THEN i.rs # r.loadReg ELSE r.loadReg \notin Touches(i)
  /\ r.npc # Wrap(r.pc + 4) => i.op \notin Branches \union Jumps
  /\ i.op \in {"J", "JAL"} => PcAfter(r) \div JumpRegion = r.npc \div JumpRegion

SimInit ==
  /\ current \in Threads
  /\ saved \in Start
  /\ registers = saved[current]
  /\ mem = Memory /\ answer = -1
  /\ instr \in [Threads -> UNION {Program[t] : t \in Threads}]
  /\ \A t \in Threads :
       instr[t] \in Program[t] /\ KeepsTheRules(saved[t], instr[t])
  /\ executed = [t \in Threads |-> 0] /\ faults = [t \in Threads |-> 0]
  /\ stopped = FALSE

Running(t) == current = t /\ ~stopped /\ executed[t] < MaxExecuted[t]

Choose(t) ==
  /\ executed' = [executed EXCEPT ![t] = @ + 1]
  /\ \E i \in Program[t] :
       /\ IF executed'[t] < MaxExecuted[t] THEN KeepsTheRules(registers', i)
          ELSE i = instr[t]
       /\ instr' = [instr EXCEPT ![t] = i]

(* An instruction that is done, or that calls the kernel: the handler may  *)
(* answer in register 2.                                                   *)
Execute(t) ==
  LET o == OneInstruction(registers, instr[t], mem[t])
      r == Trap(registers)
  IN /\ Running(t)
     /\ CASE o.how = "done" ->
               registers' = Advance(o) /\ answer' = -1 /\ Choose(t) /\ stopped' = FALSE
          [] o.how = "syscall" ->
               /\ answer' \in {-1, W - 1}
               /\ registers' = IncreasePC(IF answer' = -1 THEN r
                                          ELSE SetG(r, 2, answer'))
               /\ Choose(t) /\ stopped' = FALSE
          [] o.how = "trap" ->
               /\ registers' = r /\ answer' = -1 /\ stopped' = TRUE
               /\ UNCHANGED <<instr, executed>>
     /\ mem' = [mem EXCEPT ![t] = o.mem]
     /\ UNCHANGED <<current, saved, faults>>

(* The fetch, or the access of a load or store, finds its page out; the    *)
(* handler brings it in, and the instruction starts again.  Nothing of it  *)
(* had been done.                                                          *)
PageFault(t) ==
  /\ Running(t) /\ faults[t] < MaxFaults[t]
  /\ registers' = Trap(registers)
  /\ faults' = [faults EXCEPT ![t] = @ + 1]
  /\ UNCHANGED <<current, saved, mem, instr, answer, executed, stopped>>

(* CheckIfDue, between two instructions: the load under way lands before   *)
(* the handler of the interrupt runs.                                      *)
Interrupt(t) ==
  /\ Running(t) /\ registers' = Trap(registers)
  /\ UNCHANGED <<current, saved, mem, instr, answer, executed, faults, stopped>>

(* The timer's interrupt, and the yield it asks for: SaveUserState and     *)
(* RestoreUserState copy every register.                                   *)
Switch(t) ==
  /\ ~stopped /\ t # current
  /\ saved' = [saved EXCEPT ![current] = Trap(registers)]
  /\ registers' = saved[t]
  /\ current' = t
  /\ UNCHANGED <<mem, instr, answer, executed, faults, stopped>>

SimNext ==
  \E t \in Threads : Execute(t) \/ PageFault(t) \/ Interrupt(t) \/ Switch(t)
SimSpec == SimInit /\ [][SimNext]_simVars

-----------------------------------------------------------------------------
(* The registers of thread t, as its program may see them: with the load   *)
(* that is under way.                                                      *)
Own(t) == IF t = current THEN registers ELSE saved[t]
Seen(t) == DelayedLoad(Own(t), 0, 0)

Arch(t) == INSTANCE MipsArchitecture WITH
  Instructions <- Program[t], instr <- instr[t],
  g <- Seen(t).g, hi <- Seen(t).hi, lo <- Seen(t).lo,
  pc <- Seen(t).pc, npc <- Seen(t).npc, mem <- mem[t]

(* To a program that keeps the rules the simulator is the processor it     *)
(* simulates: page faults anywhere, even in delay slots and behind a load, *)
(* interrupts, system calls and switches to other threads leave no trace,  *)
(* and every instruction but OR, SRL, SRLV and the unaligned ones computes *)
(* what the manual says.  ("any delayed load must get applied before we    *)
(* trap to the kernel", mipssim.cc, or a system call's answer would be     *)
(* overwritten.)                                                           *)
IsMips ==
  /\ \A t \in Threads : Arch(t)!Init
  /\ [][\A t \in Threads : [Arch(t)!Next]_(Arch(t)!archVars)]_simVars
=============================================================================
