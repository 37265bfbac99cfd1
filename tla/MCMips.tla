------------------------------- MODULE MCMips -------------------------------
(***************************************************************************)
(* Every instruction on every pair of words, and short programs in which a *)
(* load, a branch or a system call meets the instruction after it, on      *)
(* words of four bits.                                                     *)
(***************************************************************************)
EXTENDS Mips, TLC

MCRegisters == {0, 1, 2, 31}

Op(op, imm) == [op |-> op, funct |-> 0, rs |-> 1, rt |-> 2, rd |-> 1, shamt |-> 0, imm |-> imm]
Special(funct, rd, shamt) ==
  [op |-> 0, funct |-> funct, rs |-> 1, rt |-> 2, rd |-> rd, shamt |-> shamt, imm |-> 0]
Bcond(rt, imm) == [Op(1, imm) EXCEPT !.rt = rt]

Zeros == [a \in 0 .. MemoryBytes - 1 |-> 0]
Bits == [a \in 0 .. MemoryBytes - 1 |-> IF a \in {1, 4, 7, 8, 9} THEN 1 ELSE 0]
Gpr(a, b) == (0 :> 0) @@ (1 :> a) @@ (2 :> b) @@ (31 :> 3)

Code(w) == 0 :> w
Pair(v, w) == (0 :> v) @@ (1 :> w)

\* Arithmetic, alone, on every pair of words.
ArithmeticFuncts == {4, 6, 7} \union 24 .. 27 \union 32 .. 39 \union {42, 43}
Arithmetic ==
  {[code |-> Code(w), gpr |-> Gpr(a, b), mem |-> Zeros] :
     w \in {Special(f, 1, 0) : f \in ArithmeticFuncts}, a \in Word, b \in Word}

\* Shifts, immediates, branches, jumps, loads and stores on every word.
Single ==
  {[code |-> Code(w), gpr |-> Gpr(a, b), mem |-> Bits] :
     w \in {Special(f, 1, n) : f \in {0, 2, 3}, n \in 0 .. W - 1}
           \union {Op(o, x) : o \in (4 .. 15) \union (32 .. 38) \union (40 .. 46), x \in 0 .. 3}
           \union {Bcond(r, x) : r \in {0, 1}, x \in {0, 3}}
           \union {Special(f, 2, 0) : f \in {1, 8, 9, 13, 16, 18}}
           \union {Special(33, 0, 0), [Op(35, 0) EXCEPT !.rt = 0]}
           \union {Op(o, x) : o \in {2, 3, 16, 20}, x \in {0, 1}},
     a \in Word, b \in {1, 6, 15}}

\* A load, a branch or a write to HI and then anything.
First ==
  {Op(o, 0) : o \in 32 .. 38} \union {[Op(35, 0) EXCEPT !.rt = 31], [Op(35, 0) EXCEPT !.rt = 0], Op(4, 2), Op(5, 2),
   Op(2, 1), Op(43, 0), Special(17, 1, 0), Special(19, 1, 0), Special(8, 1, 0),
   [Special(9, 1, 0) EXCEPT !.rd = 31]}
Second ==
  {Op(o, 0) : o \in {32, 35, 38, 43, 46, 5, 8}}
  \union {[Op(9, 1) EXCEPT !.rs = 31, !.rt = 31], [Op(35, 0) EXCEPT !.rs = 0, !.rt = 31],
          Special(12, 1, 0), Special(16, 1, 0), Special(18, 1, 0), Special(33, 1, 0),
          [Special(9, 31, 0) EXCEPT !.rt = 0], Op(3, 1), Op(63, 0)}
Pairs ==
  {[code |-> Pair(v, w), gpr |-> Gpr(a, b), mem |-> Bits] :
     v \in First, w \in Second, a \in {0, 4, 8}, b \in {0, 5, 10}}

MCStarts == Arithmetic \union Single \union Pairs
=============================================================================
