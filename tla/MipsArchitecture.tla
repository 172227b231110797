-------------------------- MODULE MipsArchitecture --------------------------
(***************************************************************************)
(* What the MIPS R2000 promises a program that keeps its rules: the        *)
(* instructions execute one after the other, each at once, with one branch *)
(* delay slot.  There are no page faults, no other threads and no load     *)
(* delay: a program may not look at the register in the delay slot.        *)
(*                                                                         *)
(* An instruction is [op, rs, rt, rd, extra], with extra as it was decoded:*)
(* the sign-extended immediate, the shift amount, or the target.  An       *)
(* instruction that traps changes nothing.                                 *)
(***************************************************************************)
EXTENDS Words

CONSTANTS
  Instructions, (* what a program may contain                              *)
  JumpRegion    (* bytes a J can reach, 2^28                               *)

VARIABLES
  instr,        (* the instruction at pc                                   *)
  answer,       (* what the kernel last answered, or -1                    *)
  g,            (* the general registers                                   *)
  hi, lo, pc, npc, mem

archVars == <<g, hi, lo, pc, npc, mem>>

Addr(i) == Wrap(g[i.rs] + i.extra)
Half(n) == n % Values(2)
Truth(b) == IF b THEN 1 ELSE 0

(* The result of an instruction that only computes one.                    *)
Computed(i) ==
  LET a == g[i.rs]
      b == g[i.rt]
      x == i.extra
  IN CASE i.op \in {"ADD", "ADDU"} -> Wrap(a + b)
       [] i.op \in {"ADDI", "ADDIU"} -> Wrap(a + x)
       [] i.op \in {"SUB", "SUBU"} -> Wrap(a - b)
       [] i.op = "AND" -> And(a, b)
       [] i.op = "OR" -> Or(a, b)
       [] i.op = "XOR" -> Xor(a, b)
       [] i.op = "NOR" -> Not(Or(a, b))
       [] i.op = "ANDI" -> And(a, Half(x))
       [] i.op = "ORI" -> Or(a, Half(x))
       [] i.op = "XORI" -> Xor(a, Half(x))
       [] i.op = "LUI" -> Half(x) * Values(2)
       [] i.op = "SLT" -> Truth(Signed(a) < Signed(b))
       [] i.op = "SLTU" -> Truth(a < b)
       [] i.op = "SLTI" -> Truth(Signed(a) < x)
       [] i.op = "SLTIU" -> Truth(a < Wrap(x))
       [] i.op = "SLL" -> Wrap(b * 2^x)
       [] i.op = "SLLV" -> Wrap(b * 2^(a % WordBits))
       [] i.op = "SRL" -> b \div 2^x
       [] i.op = "SRLV" -> b \div 2^(a % WordBits)
       [] i.op = "SRA" -> Wrap(Signed(b) \div 2^x)
       [] i.op = "SRAV" -> Wrap(Signed(b) \div 2^(a % WordBits))
       [] i.op = "MFHI" -> hi
       [] i.op = "MFLO" -> lo

ThreeRegisters == {"ADD", "ADDU", "SUB", "SUBU", "AND", "OR", "XOR", "NOR",
  "SLT", "SLTU", "SLL", "SLLV", "SRL", "SRLV", "SRA", "SRAV", "MFHI", "MFLO"}
Immediates == {"ADDI", "ADDIU", "ANDI", "ORI", "XORI", "LUI", "SLTI", "SLTIU"}

Overflows(i) ==
  LET exact == CASE i.op = "ADD" -> Signed(g[i.rs]) + Signed(g[i.rt])
                 [] i.op = "ADDI" -> Signed(g[i.rs]) + i.extra
                 [] i.op = "SUB" -> Signed(g[i.rs]) - Signed(g[i.rt])
                 [] OTHER -> 0
  IN exact < -(W \div 2) \/ exact >= W \div 2

Set(r, value) == [g EXCEPT ![r] = IF r = 0 THEN 0 ELSE value]
FallThrough == pc' = npc /\ npc' = Wrap(npc + 4)

Compute ==
  /\ instr.op \in ThreeRegisters \union Immediates /\ ~Overflows(instr)
  /\ g' = Set(IF instr.op \in Immediates THEN instr.rt ELSE instr.rd, Computed(instr))
  /\ FallThrough /\ UNCHANGED <<hi, lo, mem>>

(* The product is a double word; a quotient rounds towards zero, and that  *)
(* of a division by zero is not specified (it is 0 here).                  *)
Quotient(a, b) == CHOOSE q \in -W..W :
  LET r == a - q * b
  IN /\ IF r < 0 THEN -r < (IF b < 0 THEN -b ELSE b) ELSE r < (IF b < 0 THEN -b ELSE b)
     /\ r # 0 => (r < 0 <=> a < 0)

HiLo ==
  LET a == g[instr.rs]
      b == g[instr.rt]
      Divide(x, y) == IF y = 0 THEN hi' = 0 /\ lo' = 0
                      ELSE /\ lo' = Wrap(Quotient(x, y))
                           /\ hi' = Wrap(x - Quotient(x, y) * y)
      Product(n) == lo' = Wrap(n) /\ hi' = Wrap(n \div W)
  IN /\ CASE instr.op = "MULT" -> Product(Signed(a) * Signed(b))
          [] instr.op = "MULTU" -> Product(a * b)
          [] instr.op = "DIV" -> Divide(Signed(a), Signed(b))
          [] instr.op = "DIVU" -> Divide(a, b)
          [] instr.op = "MTHI" -> hi' = a /\ lo' = lo
          [] instr.op = "MTLO" -> lo' = a /\ hi' = hi
          [] OTHER -> FALSE
     /\ FallThrough /\ UNCHANGED <<g, mem>>

Size(op) ==
  CASE op \in {"LB", "LBU", "SB"} -> 1
    [] op \in {"LH", "LHU", "SH"} -> 2
    [] OTHER -> 4
LoadOps == {"LB", "LBU", "LH", "LHU", "LW"}
StoreOps == {"SB", "SH", "SW"}

Transfer ==
  LET addr == Addr(instr)
      size == Size(instr.op)
      value == Read(mem, addr, size)
  IN /\ instr.op \in LoadOps \union StoreOps
     /\ addr % size = 0 /\ addr + size - 1 \in DOMAIN mem
     /\ IF instr.op \in StoreOps
        THEN mem' = Write(mem, addr, size, g[instr.rt]) /\ g' = g
        ELSE /\ g' = Set(instr.rt, IF instr.op \in {"LB", "LH"}
                                   THEN Extend(value, size) ELSE value)
             /\ mem' = mem
     /\ FallThrough /\ UNCHANGED <<hi, lo>>

(* The part of the word around an address that lies below it and at it     *)
(* moves to or from the high end of the register, or the part at it and    *)
(* above to or from the low end (the bytes of a word are little-endian).   *)
Unaligned ==
  LET addr == Addr(instr)
      at == addr % 4
      base == addr - at
      word == Read(mem, base, 4)
      reg == g[instr.rt]
      high == Values(3 - at)
      Load(v) == g' = Set(instr.rt, v) /\ mem' = mem
      Store(from, n, v) == mem' = Write(mem, from, n, v) /\ g' = g
  IN /\ base + 3 \in DOMAIN mem
     /\ CASE instr.op = "LWL" -> Load(Wrap(word * high) + (reg % high))
          [] instr.op = "LWR" ->
               Load((reg \div Values(4 - at)) * Values(4 - at) + (word \div Values(at)))
          [] instr.op = "SWL" -> Store(base, at + 1, reg \div high)
          [] instr.op = "SWR" -> Store(addr, 4 - at, reg % Values(4 - at))
          [] OTHER -> FALSE
     /\ FallThrough /\ UNCHANGED <<hi, lo>>

Taken(i) ==
  CASE i.op = "BEQ" -> g[i.rs] = g[i.rt]
    [] i.op = "BNE" -> g[i.rs] # g[i.rt]
    [] i.op \in {"BGEZ", "BGEZAL"} -> Signed(g[i.rs]) >= 0
    [] i.op \in {"BLTZ", "BLTZAL"} -> Signed(g[i.rs]) < 0
    [] i.op = "BGTZ" -> Signed(g[i.rs]) > 0
    [] i.op = "BLEZ" -> Signed(g[i.rs]) <= 0
Branches == {"BEQ", "BNE", "BGEZ", "BGEZAL", "BLTZ", "BLTZAL", "BGTZ", "BLEZ"}
Jumps == {"J", "JAL", "JR", "JALR"}

(* The branch takes effect after the next instruction, and a link goes     *)
(* behind that one.                                                        *)
Branch ==
  /\ instr.op \in Branches \union Jumps
  /\ pc' = npc
  /\ npc' = CASE instr.op \in Branches ->
                   Wrap(IF Taken(instr) THEN pc + 4 + 4 * instr.extra ELSE npc + 4)
              [] instr.op \in {"J", "JAL"} ->
                   (Wrap(pc + 4) \div JumpRegion) * JumpRegion + 4 * instr.extra
              [] instr.op \in {"JR", "JALR"} -> g[instr.rs]
  /\ g' = CASE instr.op \in {"BGEZAL", "BLTZAL", "JAL"} -> Set(31, Wrap(pc + 8))
            [] instr.op = "JALR" -> Set(instr.rd, Wrap(pc + 8))
            [] OTHER -> g
  /\ UNCHANGED <<hi, lo, mem>>

(* A system call answers in register 2, if at all.                         *)
Syscall ==
  /\ instr.op = "SYSCALL"
  /\ g' = IF answer' = -1 THEN g ELSE [g EXCEPT ![2] = answer']
  /\ FallThrough /\ UNCHANGED <<hi, lo, mem>>

Init == instr \in Instructions
Next == Compute \/ HiLo \/ Transfer \/ Unaligned \/ Branch \/ Syscall
ArchitectureSpec == Init /\ [][Next]_archVars
=============================================================================
