----------------------------- MODULE MCMipsSim -----------------------------
(* Thread p1 may execute every instruction the architecture and the       *)
(* simulator agree on; a load of p2 runs between them.                     *)
EXTENDS MipsSim, TLC

CONSTANTS p1, p2

I(op, rs, rt, rd, extra) ==
  [op |-> op, rs |-> rs, rt |-> rt, rd |-> rd, extra |-> extra]

R == {I(op, 1, 2, 2, 0) : op \in {"ADD", "ADDU", "SUB", "SUBU", "AND", "OR",
       "XOR", "NOR", "SLT", "SLTU", "SLLV", "SRLV", "SRAV"}}
     \union {I(op, 0, 2, 1, 1) : op \in {"SLL", "SRL", "SRA"}}
     \union {I(op, 0, 0, 1, 0) : op \in {"MFHI", "MFLO"}}
M == {I(op, 1, 2, 0, 0) : op \in {"MULT", "MULTU", "DIV", "DIVU", "MTHI", "MTLO"}}
X == {I(op, 1, 2, 0, -1) : op \in {"ADDI", "ADDIU", "ANDI", "ORI", "XORI", "LUI",
       "SLTI", "SLTIU"}}
L == {I(op, 0, 2, 0, 4) : op \in {"LB", "LBU", "LH", "LHU", "LW", "LWL", "LWR",
       "SB", "SH", "SW", "SWL", "SWR"}}
     \union {I("LH", 1, 1, 0, 1), I("LW", 0, 1, 0, -8)}
B == {I(op, 1, 2, 0, 1) : op \in {"BEQ", "BNE"}}
     \union {I(op, 1, 0, 0, 1) : op \in {"BGEZ", "BGEZAL", "BLTZ", "BLTZAL",
                                        "BGTZ", "BLEZ"}}
     \union {I("J", 0, 0, 0, 1), I("JAL", 0, 0, 0, 1), I("JR", 31, 0, 0, 0),
             I("JALR", 1, 0, 31, 0)}
S == {I("SYSCALL", 0, 0, 0, 0), I("RES", 0, 0, 0, 0)}

MCProgram == [t \in {p1, p2} |->
  IF t = p1 THEN {i \in R \union M \union X \union L \union B \union S : i.op \notin WrongOps}
  ELSE {I("LW", 0, 2, 0, 0)}]

(* With and without a load under way, in a branch's delay slot and not.    *)
Regs(a, b, pc, npc, loadReg) ==
  [g |-> (0 :> 0 @@ 1 :> a @@ 2 :> b @@ 31 :> 12), hi |-> 5, lo |-> 9,
   pc |-> pc, npc |-> npc, loadReg |-> loadReg, loadValue |-> 6]
MCStart ==
  {[t \in {p1, p2} |-> IF t = p1 THEN r ELSE Regs(1, 1, 0, 4, 0)] :
     r \in {Regs(a, b, 4, 8, 0) : a, b \in {3, 8, 15}}
         \union {Regs(3, 15, 0, npc, loadReg) : npc \in {4, 12}, loadReg \in {0, 2}}}
MCExecuted == [t \in {p1, p2} |-> IF t = p1 THEN 2 ELSE 1]
MCFaults == [t \in {p1, p2} |-> IF t = p1 THEN 1 ELSE 0]

MCMemory == [t \in {p1, p2} |-> [a \in 0..15 |-> IF a \in {0, 4, 7, 9, 10} THEN 1 ELSE 0]]
=============================================================================
