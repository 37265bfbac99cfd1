-------------------------------- MODULE Mips --------------------------------
(***************************************************************************)
(* The processor Nachos simulates (machine/mipssim.cc, machine/mipssim.h,  *)
(* the register part of machine/machine.cc): decoding, one action that     *)
(* executes an instruction, exceptions and interrupts, delayed loads.  The *)
(* second simulator of the repository (bin/execute.c) serves as reference  *)
(* for what an arithmetic instruction computes.                            *)
(*                                                                         *)
(* A word has W bits instead of 32, and every other width is scaled with   *)
(* it: a halfword has W \div 2 bits and a byte W \div 4.  Words are kept   *)
(* unsigned; Signed gives the value of an int.  A page fault is handled    *)
(* inside ReadMem and WriteMem; what is left of it here is the delayed     *)
(* load it completes.                                                      *)
(***************************************************************************)
EXTENDS Integers, Sequences, Bitwise

CONSTANTS
  W,             \* bits of a word: 4, 8, 16 or 32
  Registers,     \* the numbers of the general registers in use
  MemoryBytes,   \* bytes the page table maps
  JumpRegion,    \* bytes the target field of a jump can reach
  SyscallResult, \* what a system call leaves in r2
  Starts         \* programs and initial contents: [code, gpr, mem]

ASSUME MipsAssumption ==
  /\ W \in {4, 8, 16, 32} /\ {0, 2, 31} \subseteq Registers
  /\ MemoryBytes \in 1 .. 2^W /\ MemoryBytes % 4 = 0

VARIABLES
  m,         \* the registers and the memory
  code,      \* the instruction at each word of the address space
  outcome    \* "running", "halted", "finished", "aborted" by an ASSERT or a host
             \* trap, or "strayed" to memory the page table does not map

mipsVars == <<m, code, outcome>>

Word == 0 .. 2^W - 1
Wrap(x) == x % 2^W
Signed(x) == IF x >= 2^(W - 1) THEN x - 2^W ELSE x
SIGN_BIT(x) == x >= 2^(W - 1)
Complement(x) == 2^W - 1 - x
Half == 2^(W \div 2)
Byte == 2^(W \div 4)
SignExtend(x, range) == Wrap(IF x >= range \div 2 THEN x - range ELSE x)
ShiftLeft(x, n) == Wrap(x * 2^n)
ShiftRight(x, n) == Wrap(Signed(x) \div 2^n)     \* >> of an int
IndexToAddr(x) == Wrap(4 * x)
Bool(b) == IF b THEN 1 ELSE 0

\* --------------------------------- Decode ---------------------------------

opTable ==
  <<"SPECIAL", "BCOND", "J", "JAL", "BEQ", "BNE", "BLEZ", "BGTZ",
    "ADDI", "ADDIU", "SLTI", "SLTIU", "ANDI", "ORI", "XORI", "LUI",
    "UNIMP", "UNIMP", "UNIMP", "UNIMP", "RES", "RES", "RES", "RES",
    "RES", "RES", "RES", "RES", "RES", "RES", "RES", "RES",
    "LB", "LH", "LWL", "LW", "LBU", "LHU", "LWR", "RES",
    "SB", "SH", "SWL", "SW", "RES", "RES", "SWR", "RES",
    "UNIMP", "UNIMP", "UNIMP", "UNIMP", "RES", "RES", "RES", "RES",
    "UNIMP", "UNIMP", "UNIMP", "UNIMP", "RES", "RES", "RES", "RES">>

specialTable ==
  <<"SLL", "RES", "SRL", "SRA", "SLLV", "RES", "SRLV", "SRAV",
    "JR", "JALR", "RES", "RES", "SYSCALL", "UNIMP", "RES", "RES",
    "MFHI", "MTHI", "MFLO", "MTLO", "RES", "RES", "RES", "RES",
    "MULT", "MULTU", "DIV", "DIVU", "RES", "RES", "RES", "RES",
    "ADD", "ADDU", "SUB", "SUBU", "AND", "OR", "XOR", "NOR",
    "RES", "RES", "SLT", "SLTU", "RES", "RES", "RES", "RES",
    "RES", "RES", "RES", "RES", "RES", "RES", "RES", "RES",
    "RES", "RES", "RES", "RES", "RES", "RES", "RES", "RES">>

DecodeBcond(rt) ==
  CASE rt = 0 -> "BLTZ" [] rt = 1 -> "BGEZ" [] rt = 16 -> "BLTZAL"
    [] rt = 17 -> "BGEZAL" [] OTHER -> "UNIMP"

\* Instruction::Decode of a word given by its fields; imm stands for the low
\* half and for the target of a jump.
Decode(w) ==
  LET entry == opTable[w.op + 1]
  IN  [opCode |-> IF entry = "SPECIAL" THEN specialTable[w.funct + 1]
                  ELSE IF entry = "BCOND" THEN DecodeBcond(w.rt) ELSE entry,
       rs |-> w.rs, rt |-> w.rt, rd |-> w.rd,
       extra |-> IF entry = "SPECIAL" THEN w.shamt
                 ELSE IF entry \in {"J", "JAL"} THEN w.imm
                 ELSE SignExtend(w.imm, Half)]

\* ------------------------------- arithmetic -------------------------------

\* rd = rs op rt.  OP_OR uses rs twice; SRLV shifts an int.
ThreeRegister(op, a, b) ==
  CASE op \in {"ADD", "ADDU"} -> Wrap(a + b)
    [] op \in {"SUB", "SUBU"} -> Wrap(a - b)
    [] op = "AND" -> a & b
    [] op = "OR" -> a | a
    [] op = "NOR" -> Complement(a | b)
    [] op = "XOR" -> a ^^ b
    [] op = "SLT" -> Bool(Signed(a) < Signed(b))
    [] op = "SLTU" -> Bool(a < b)
    [] op = "SLLV" -> ShiftLeft(b, a % W)
    [] op \in {"SRAV", "SRLV"} -> ShiftRight(b, a % W)

\* rt = rs op extra.
Immediate(op, a, x) ==
  CASE op \in {"ADDI", "ADDIU"} -> Wrap(a + x)
    [] op = "ANDI" -> a & (x % Half)
    [] op = "ORI" -> a | (x % Half)
    [] op = "XORI" -> a ^^ (x % Half)
    [] op = "SLTI" -> Bool(Signed(a) < Signed(x))
    [] op = "SLTIU" -> Bool(a < x)
    [] op = "LUI" -> Wrap(x * Half)

\* rd = rt op shift amount.
ShiftBy(op, b, n) ==
  CASE op = "SLL" -> ShiftLeft(b, n) [] op \in {"SRA", "SRL"} -> ShiftRight(b, n)

\* The overflow tests of OP_ADD, OP_ADDI and OP_SUB.
Overflows(op, a, b) ==
  CASE op = "ADD" -> ~SIGN_BIT(a ^^ b) /\ SIGN_BIT(a ^^ Wrap(a + b))
    [] op = "ADDI" -> ~SIGN_BIT(a ^^ b) /\ SIGN_BIT(b ^^ Wrap(a + b))
    [] op = "SUB" -> SIGN_BIT(a ^^ b) /\ SIGN_BIT(a ^^ Wrap(a - b))
    [] OTHER -> FALSE

\* The loop of Mult: bits of a, times b shifted left, in two words.
RECURSIVE MultLoop(_, _, _, _, _, _)
MultLoop(i, a, bHi, bLo, h, l) ==
  LET odd == a % 2 = 1
      l2 == IF odd THEN Wrap(l + bLo) ELSE l
      h2 == IF odd THEN Wrap(h + Bool(l2 < bLo) + bHi) ELSE h
  IN  IF i = W \/ a = 1 THEN <<h2, l2>>
      ELSE MultLoop(i + 1, ShiftRight(a, 1), Wrap(2 * bHi) + Bool(SIGN_BIT(bLo)),
                    Wrap(2 * bLo), h2, l2)

MultNoCarry(a, b, signed) == <<0, Wrap(a * b)>>

Mult(a, b, signed) ==
  LET negative == signed /\ (SIGN_BIT(a) # SIGN_BIT(b))
      positive(x) == IF signed /\ SIGN_BIT(x) THEN Wrap(0 - x) ELSE x
      r == MultLoop(1, positive(a), 0, positive(b), 0, 0)
      l == Wrap(Complement(r[2]) + 1)
  IN  IF a = 0 \/ b = 0 THEN <<0, 0>>
      ELSE IF ~negative THEN r
      ELSE <<Wrap(Complement(r[1]) + Bool(l = 0)), l>>

\* C division truncates towards 0.
Quotient(x, y) ==
  IF (x < 0) = (y < 0) THEN (IF x < 0 THEN -x ELSE x) \div (IF y < 0 THEN -y ELSE y)
  ELSE -((IF x < 0 THEN -x ELSE x) \div (IF y < 0 THEN -y ELSE y))

Divide(op, a, b) ==
  IF b = 0 THEN <<0, 0>>
  ELSE IF op = "DIVU" THEN <<a % b, a \div b>>
  ELSE LET q == Quotient(Signed(a), Signed(b))
       IN  <<Wrap(Signed(a) - q * Signed(b)), Wrap(q)>>

\* ------------------------------ instructions ------------------------------

ThreeRegisterOps ==
  {"ADD", "ADDU", "SUB", "SUBU", "AND", "OR", "NOR", "XOR", "SLT", "SLTU",
   "SLLV", "SRAV", "SRLV"}
ImmediateOps == {"ADDI", "ADDIU", "ANDI", "ORI", "XORI", "SLTI", "SLTIU", "LUI"}
ShiftOps == {"SLL", "SRL", "SRA"}
LoadOps == {"LB", "LBU", "LH", "LHU", "LW", "LWL", "LWR"}
StoreOps == {"SB", "SH", "SW", "SWL", "SWR"}
BranchOps == {"BEQ", "BNE", "BGEZ", "BGEZAL", "BGTZ", "BLEZ", "BLTZ", "BLTZAL"}
JumpOps == {"J", "JAL", "JR", "JALR"}

Width(op) ==
  IF op \in {"LB", "LBU", "SB"} THEN 1 ELSE IF op \in {"LH", "LHU", "SH"} THEN 2 ELSE 4

Address(s, i) == Wrap(s.gpr[i.rs] + i.extra)

ReadMem(s, addr, size) ==
  LET byte(k) == IF k < size THEN s.mem[addr + k] * Byte^k ELSE 0
  IN  byte(0) + byte(1) + byte(2) + byte(3)

WriteMem(s, addr, size, value) ==
  [a \in DOMAIN s.mem |-> IF a \in addr .. addr + size - 1
                          THEN (value \div Byte^(a - addr)) % Byte ELSE s.mem[a]]

\* An instruction that ends in RaiseException other than a page fault or a
\* system call: the handler's ASSERT stops Nachos.  LWL, LWR, SWL and SWR
\* assert that the address is aligned; the smallest int divided by -1 traps on
\* the host.  Nothing checks the address against the size of the page table.
Raises(s, i) ==
  LET a == s.gpr[i.rs]  b == s.gpr[i.rt]
  IN  \/ i.opCode \in {"RES", "UNIMP"}
      \/ Overflows(i.opCode, a, IF i.opCode = "ADDI" THEN i.extra ELSE b)
      \/ i.opCode = "DIV" /\ a = 2^(W - 1) /\ b = 2^W - 1
      \/ i.opCode \in LoadOps \union StoreOps /\ Address(s, i) % Width(i.opCode) # 0

OutOfRange(s, i) ==
  i.opCode \in LoadOps \union StoreOps /\ Address(s, i) + Width(i.opCode) > MemoryBytes

\* What the instruction assigns to a general register, <<0, _>> for nothing.
Assigns(s, i) ==
  LET a == s.gpr[i.rs]  b == s.gpr[i.rt]  link == Wrap(s.nextPc + 4)
  IN  CASE i.opCode \in ThreeRegisterOps -> <<i.rd, ThreeRegister(i.opCode, a, b)>>
        [] i.opCode \in ShiftOps -> <<i.rd, ShiftBy(i.opCode, b, i.extra)>>
        [] i.opCode \in ImmediateOps -> <<i.rt, Immediate(i.opCode, a, i.extra)>>
        [] i.opCode = "MFHI" -> <<i.rd, s.hi>>
        [] i.opCode = "MFLO" -> <<i.rd, s.lo>>
        [] i.opCode \in {"JAL", "BGEZAL", "BLTZAL"} -> <<31, link>>
        [] i.opCode = "JALR" -> <<i.rd, link>>
        [] OTHER -> <<0, 0>>

Assigned(s, i) == [s EXCEPT !.gpr[Assigns(s, i)[1]] = Assigns(s, i)[2]]

HiLo(s, i) ==
  LET a == s.gpr[i.rs]  b == s.gpr[i.rt]
  IN  CASE i.opCode \in {"DIV", "DIVU"} -> Divide(i.opCode, a, b)
        [] i.opCode = "MULT" -> Mult(a, b, TRUE)
        [] i.opCode = "MULTU" -> Mult(a, b, FALSE)
        [] i.opCode = "MTHI" -> <<a, s.lo>>
        [] i.opCode = "MTLO" -> <<s.hi, a>>
        [] OTHER -> <<s.hi, s.lo>>

Taken(g, i) ==
  LET a == Signed(g[i.rs])  b == Signed(g[i.rt])
  IN  CASE i.opCode = "BEQ" -> a = b [] i.opCode = "BNE" -> a # b
        [] i.opCode \in {"BGEZ", "BGEZAL"} -> a >= 0
        [] i.opCode = "BGTZ" -> a > 0 [] i.opCode = "BLEZ" -> a <= 0
        [] i.opCode \in {"BLTZ", "BLTZAL"} -> a < 0
        [] OTHER -> FALSE

JumpTo(from, x) == (from - (from % JumpRegion)) + (IndexToAddr(x) % JumpRegion)

\* pcAfter, from the registers the link was already written to.
PcAfter(s, g, i) ==
  CASE i.opCode \in {"J", "JAL"} -> JumpTo(Wrap(s.nextPc + 4), i.extra)
    [] i.opCode \in {"JR", "JALR"} -> g[i.rs]
    [] OTHER -> IF Taken(g, i) THEN Wrap(s.nextPc + IndexToAddr(i.extra))
                ELSE Wrap(s.nextPc + 4)

\* LWR merges into the value that is still on its way to the register.
LoadMerged(s, i, value) ==
  LET old == IF s.LoadReg = i.rt THEN s.LoadValue ELSE s.gpr[i.rt]
  IN  (old - (old % Byte)) + value \div Byte^3

\* nextLoadReg and nextLoadValue.
NextLoad(s, i) ==
  LET value == ReadMem(s, Address(s, i), Width(i.opCode))
  IN  IF i.opCode \notin LoadOps THEN <<0, 0>>
      ELSE <<i.rt, CASE i.opCode = "LB" -> SignExtend(value, Byte)
                     [] i.opCode = "LH" -> SignExtend(value, Half)
                     [] i.opCode = "LWR" -> LoadMerged(s, i, value)
                     [] OTHER -> value>>

Stored(s, i) ==
  LET addr == Address(s, i)  b == s.gpr[i.rt]
  IN  IF i.opCode \notin StoreOps THEN s.mem
      ELSE WriteMem(s, addr, Width(i.opCode),
             IF i.opCode = "SWR" THEN (ReadMem(s, addr, 4) % Byte^3) + (b % Byte) * Byte^3
             ELSE b)

DelayedLoadLost(s, r, v) ==
  [s EXCEPT !.gpr[0] = 0, !.LoadReg = r, !.LoadValue = v]

DelayedLoad(s, r, v) ==
  [s EXCEPT !.gpr = [@ EXCEPT ![s.LoadReg] = s.LoadValue, ![0] = 0],
            !.LoadReg = r, !.LoadValue = v]

\* The switch of OneInstruction and what follows it.
Completed(s, i) ==
  LET g == Assigned(s, i).gpr
      load == NextLoad(s, i)
      done == [s EXCEPT !.gpr = g, !.hi = HiLo(s, i)[1], !.lo = HiLo(s, i)[2],
                        !.mem = Stored(s, i)]
  IN  [DelayedLoad(done, load[1], load[2]) EXCEPT
         !.pc = s.nextPc, !.nextPc = PcAfter(s, g, i)]

\* Machine::IncrementPC adds to both counters; it does not copy one to the other.
IncrementPC(s) == [s EXCEPT !.pc = Wrap(@ + 4), !.nextPc = Wrap(@ + 4)]

\* ExceptionHandler of a system call that returns: Exec, Open, Read and Fork
\* leave a result in r2, the other known calls nothing.  A number without a
\* case leaves the program counters alone, and the call is made again.
SyscallHandler(s) ==
  CASE s.gpr[2] \in {2, 5, 6, 9} -> IncrementPC([s EXCEPT !.gpr[2] = SyscallResult])
    [] s.gpr[2] \in {3, 4, 7, 8} \union 10 .. 17 -> IncrementPC(s)
    [] OTHER -> s

\* --------------------------------- actions --------------------------------

Running == outcome = "running"
Fetchable == m.pc % 4 = 0 /\ m.pc \div 4 \in DOMAIN code
Instr == Decode(code[m.pc \div 4])
Calls == Fetchable /\ Instr.opCode = "SYSCALL"
Raised == m.pc % 4 # 0 \/ (Fetchable /\ Raises(m, Instr))
Strays == Fetchable => OutOfRange(m, Instr)
Ordinary == ~Raised /\ ~Strays /\ ~Calls

StartWith(s) ==
  /\ code = s.code
  /\ m = [gpr |-> s.gpr, hi |-> 0, lo |-> 0, LoadReg |-> 0, LoadValue |-> 0,
          pc |-> 0, nextPc |-> 4, mem |-> s.mem]
  /\ outcome = "running"

MipsInit == \E s \in Starts : StartWith(s)

OneInstruction ==
  /\ Running /\ Ordinary
  /\ m' = Completed(m, Instr)
  /\ UNCHANGED <<code, outcome>>

\* RaiseException for the exceptions the handler asserts on.
Abort ==
  /\ Running /\ Raised
  /\ m' = DelayedLoad(m, 0, 0)
  /\ outcome' = "aborted"
  /\ UNCHANGED code

\* An address outside the code or the page table: LRU_TLB reads past the end of
\* pageTable, and nothing is said of what follows.
Stray ==
  /\ Running /\ ~Raised /\ Strays
  /\ outcome' = "strayed"
  /\ UNCHANGED <<m, code>>

\* SC_Halt stops the machine and SC_Exit the thread.
Syscall ==
  /\ Running /\ Calls
  /\ LET s == DelayedLoad(m, 0, 0)
     IN  \/ s.gpr[2] = 0 /\ outcome' = "halted" /\ m' = s
         \/ s.gpr[2] = 1 /\ outcome' = "finished" /\ m' = IncrementPC(s)
         \/ s.gpr[2] > 1 /\ m' = SyscallHandler(s) /\ UNCHANGED outcome
  /\ UNCHANGED code

\* A page fault on the fetch or the data of the instruction, which is then
\* executed again, or an interrupt after the instruction before it.
Trap ==
  /\ Running /\ m.LoadReg # 0
  /\ m' = DelayedLoad(m, 0, 0)
  /\ UNCHANGED <<code, outcome>>

MipsNext == OneInstruction \/ Abort \/ Stray \/ Syscall \/ Trap

MipsSpec == MipsInit /\ [][MipsNext]_mipsVars

\* --------------------- bin/execute.c: the reference -----------------------

\* What runprogram assigns to rd or rt for an instruction on registers only.
runprogramValue(op, a, b, n, immed) ==
  CASE op \in {"ADD", "ADDU"} -> Wrap(a + b)
    [] op \in {"SUB", "SUBU"} -> Wrap(a - b)
    [] op = "AND" -> a & b [] op = "OR" -> a | b
    [] op = "XOR" -> a ^^ b [] op = "NOR" -> Complement(a | b)
    [] op = "SLT" -> Bool(Signed(a) < Signed(b)) [] op = "SLTU" -> Bool(a < b)
    [] op = "SLL" -> Wrap(b * 2^n) [] op = "SLLV" -> Wrap(b * 2^a)
    [] op = "SRL" -> b \div 2^n [] op = "SRLV" -> b \div 2^a
    [] op = "SRA" -> Wrap(Signed(b) \div 2^n) [] op = "SRAV" -> Wrap(Signed(b) \div 2^a)
    [] op \in {"ADDI", "ADDIU"} -> Wrap(a + immed)
    [] op = "SLTI" -> Bool(Signed(a) < Signed(immed)) [] op = "SLTIU" -> Bool(a < immed)
    [] op = "ANDI" -> a & immed [] op = "ORI" -> a | immed [] op = "XORI" -> a ^^ immed
    [] op = "LUI" -> Wrap(immed * Half)

\* One turn of runprogram's loop: loads take effect at once, HI and LO aside.
runprogram(s, w) ==
  LET op == Decode(w).opCode
      a == s.gpr[w.rs]  b == s.gpr[w.rt]
      immed == SignExtend(w.imm, Half)
      addr == Wrap(a + immed)
      fetch(n) == ReadMem(s, addr, n)
      npc == CASE op \in {"J", "JAL"} -> JumpTo(s.pc, w.imm)
               [] op \in {"JR", "JALR"} -> a
               [] \/ op = "BEQ" /\ a = b
                  \/ op = "BNE" /\ a # b
                  \/ op \in {"BLTZ", "BLTZAL"} /\ Signed(a) < 0
                  \/ op \in {"BGEZ", "BGEZAL"} /\ Signed(a) >= 0
                  \/ op = "BLEZ" /\ Signed(a) <= 0
                  \/ op = "BGTZ" /\ Signed(a) > 0 -> Wrap(s.pc + 4 + 4 * immed)
               [] OTHER -> Wrap(s.nextPc + 4)
      assigned ==
        CASE op \in ThreeRegisterOps \union ShiftOps ->
               <<w.rd, runprogramValue(op, a, b, w.shamt, immed)>>
          [] op \in ImmediateOps -> <<w.rt, runprogramValue(op, a, b, 0, immed)>>
          [] op = "MFHI" -> <<w.rd, s.hi>> [] op = "MFLO" -> <<w.rd, s.lo>>
          [] op \in {"JAL", "BLTZAL", "BGEZAL"} -> <<31, Wrap(s.pc + 8)>>
          [] op = "JALR" -> <<w.rd, Wrap(s.pc + 8)>>
          [] op = "LB" -> <<w.rt, SignExtend(fetch(1), Byte)>>
          [] op = "LBU" -> <<w.rt, fetch(1)>>
          [] op = "LH" -> <<w.rt, SignExtend(fetch(2), Half)>>
          [] op = "LHU" -> <<w.rt, fetch(2)>>
          [] op = "LW" -> <<w.rt, fetch(4)>>
          [] op = "LWL" -> <<w.rt, b | fetch(4)>>     \* the mask -1 >> 0 keeps b
          [] OTHER -> <<0, 0>>
  IN  [s EXCEPT !.gpr = [@ EXCEPT ![assigned[1]] = assigned[2], ![0] = 0],
                !.mem = IF op \in {"SB", "SH", "SW"} THEN WriteMem(s, addr, Width(op), b) ELSE @,
                !.hi = IF op = "MTHI" THEN a ELSE @,
                !.lo = IF op = "MTLO" THEN a ELSE @,
                !.pc = s.nextPc, !.nextPc = npc]

\* Where the two simulators differ: OP_OR, the logical right shifts, the
\* zero-extended immediates, shifts by a whole word, the links and targets of a
\* jump and the return of a system call in a delay slot, LWL of a word that lacks
\* a bit of the register, LWR, SWL and SWR, multiplication and division.
Differ(s, w) ==
  LET op == Decode(w).opCode  b == s.gpr[w.rt]
  IN  \/ op = "OR"
      \/ op \in {"SRL", "SRLV"} /\ SIGN_BIT(b)
      \/ op \in {"ANDI", "ORI", "XORI"} /\ w.imm >= Half \div 2
      \/ op \in {"SLLV", "SRLV", "SRAV"} /\ s.gpr[w.rs] >= W
      \/ op \in JumpOps \union BranchOps \union {"SYSCALL"} /\ s.nextPc # Wrap(s.pc + 4)
      \/ op \in {"J", "JAL"} /\ JumpTo(s.pc, 0) # JumpTo(Wrap(s.pc + 8), 0)
      \/ op = "LWL" /\ (b | ReadMem(s, Address(s, Decode(w)), 4)) # ReadMem(s, Address(s, Decode(w)), 4)
      \/ op \in {"LWR", "SWL", "SWR", "MULT", "MULTU", "DIV", "DIVU"}
      \/ op = "JALR" /\ w.rd = w.rs
      \/ op \in {"BLTZAL", "BGEZAL"} /\ w.rs = 31

\* An instruction in the delay slot of a load that reads or writes its register.
UsesPendingLoad(s, w) ==
  /\ s.LoadReg # 0
  /\ s.LoadReg \in {w.rs, w.rt, w.rd} \/ (s.LoadReg = 31 /\ Assigns(s, Decode(w))[1] = 31)

\* The registers with the load on its way applied: what runprogram shows.
Visible(s) ==
  [s EXCEPT !.gpr = [@ EXCEPT ![s.LoadReg] = s.LoadValue, ![0] = 0],
            !.LoadReg = 0, !.LoadValue = 0]

\* -------------------------------- properties -------------------------------

\* The registers hold words, register 0 holds 0 and a load is never on its way
\* to a register that does not exist (registers[0] = 0 in DelayedLoad).
MipsTypeOK ==
  /\ m.gpr \in [Registers -> Word] /\ m.gpr[0] = 0
  /\ {m.hi, m.lo, m.LoadValue, m.pc, m.nextPc} \subseteq Word
  /\ m.LoadReg \in Registers
  /\ m.mem \in [0 .. MemoryBytes - 1 -> 0 .. Byte - 1]
  /\ outcome \in {"running", "halted", "finished", "aborted", "strayed"}

\* What runprogram leaves behind; a system call may change r2.
Executed ==
  LET s == runprogram(Visible(m), code[m.pc \div 4])
  IN  IF Calls THEN [s EXCEPT !.gpr[2] = m'.gpr[2]] ELSE s

\* OneInstruction computes what runprogram of bin/execute.c computes, although
\* its loads arrive one instruction late and a page fault, an interrupt, a
\* system call or a failing instruction may complete them early: where the two
\* simulators do not differ by design and the program leaves the register of a
\* load alone for one instruction, no sequence of instructions, traps and calls
\* that return can be told apart.
ImplementsExecute ==
  [][\/ m'.pc = m.pc /\ m'.nextPc = m.nextPc /\ Visible(m') = Visible(m)
     \/ outcome' # "running"
     \/ /\ ~Strays
        /\ \/ Differ(Visible(m), code[m.pc \div 4])
           \/ UsesPendingLoad(m, code[m.pc \div 4]) /\ ~Calls
           \/ Visible(m') = Executed]_mipsVars

Value(h, l, signed) ==
  LET double == h * 2^W + l
  IN  IF signed /\ SIGN_BIT(h) THEN double - 2^(2 * W) ELSE double

AsInt(x, signed) == IF signed THEN Signed(x) ELSE x

\* HI and LO hold the whole product after MULT and MULTU, for every pair of
\* words, and a quotient and remainder that divide back after DIV and DIVU; a
\* division by zero leaves zeros (Mult, OP_DIV and OP_DIVU).
ArithmeticExact ==
  [][OneInstruction =>
       LET op == Instr.opCode
           signed == op \in {"MULT", "DIV"}
           a == AsInt(m.gpr[Instr.rs], signed)
           b == AsInt(m.gpr[Instr.rt], signed)
           q == AsInt(m'.lo, signed)
           r == AsInt(m'.hi, signed)
       IN  /\ op \in {"MULT", "MULTU"} => Value(m'.hi, m'.lo, signed) = a * b
           /\ op \in {"DIV", "DIVU"} =>
                IF b = 0 THEN q = 0 /\ r = 0
                ELSE /\ q * b + r = a
                     /\ (r < 0) => (a < 0)
                     /\ (r > 0) => (a > 0)
                     /\ r < (IF b < 0 THEN -b ELSE b) /\ -r < (IF b < 0 THEN -b ELSE b)]_mipsVars

\* ADD, ADDI and SUB stop the program exactly when the true result is no int
\* (the SIGN_BIT tests of OP_ADD, OP_ADDI and OP_SUB).
OverflowExact ==
  Fetchable =>
    LET i == Instr
        a == Signed(m.gpr[i.rs])
        b == Signed(m.gpr[i.rt])
        result == CASE i.opCode = "ADD" -> a + b [] i.opCode = "SUB" -> a - b
                    [] i.opCode = "ADDI" -> a + Signed(i.extra) [] OTHER -> 0
    IN  i.opCode \in {"ADD", "ADDI", "SUB"} =>
          (Raises(m, i) <=> (result \notin -(2^(W - 1)) .. 2^(W - 1) - 1))

\* Arithmetic is exact: products, quotients and the detection of overflow.
ComputesExactly == ArithmeticExact /\ [](MipsTypeOK /\ OverflowExact)
=============================================================================
