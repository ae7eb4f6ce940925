------------------------------ MODULE IntUnit -------------------------------
(***************************************************************************)
(* The integer instructions of cpu_one_inst (sc1_cpu.c).  The code holds   *)
(* every register in 64 bits and computes everything in 64 bits: a word    *)
(* instruction masks or sign-extends its operands where its author thought *)
(* it necessary, and sign-extends its result.  W is the half width, 32 in  *)
(* the code, H the width of an immediate, 16; a word is a power of two, so *)
(* that the mask of a shift count is a remainder.                          *)
(*                                                                         *)
(* An instruction reads gpr(rs) = r[1] and gpr(rt) = r[2] or its immediate *)
(* and writes r[i.rd], rt or rd as the code has it; i.sa is its shift.     *)
(***************************************************************************)
EXTENDS Integers, FiniteSets, Bitwise
CONSTANTS W, H
VARIABLES q64,             \* Q_64BOP: 64-bit operations are enabled
          r, mhi, mlo,     \* unsigned 64-bit registers
          ir,              \* the instruction executed last
          trap             \* the trap it raised
vars == <<q64, r, mhi, mlo, ir, trap>>

D == 2 * W
M(n) == 2^n                                   \* one more than the mask of n bits
W_SIGN == M(W - 1)
D_SIGN == M(D - 1)
Sign(x, n) == (x \div M(n - 1)) % 2 = 1
SEXT(x, n) == IF Sign(x, n) THEN (x % M(n)) + M(D) - M(n) ELSE x % M(n)
SEXT_W_D(x) == SEXT(x, W)
SEXT_DISP(x) == SEXT(x, H)
NEG_D(x) == (M(D) - x) % M(D)
ABS_D(x) == IF Sign(x, D) THEN NEG_D(x) ELSE x
Inv(x) == M(D) - 1 - x
Int64(x) == IF Sign(x, D) THEN x - M(D) ELSE x          \* the cast to t_int64
(* The 64-bit pattern of an integer, and C's division, which truncates.    *)
U64(x) == x % M(D)
Mag(x) == IF x < 0 THEN -x ELSE x
CDiv(x, y) == LET q == Mag(x) \div Mag(y) IN IF (x < 0) = (y < 0) THEN q ELSE -q
CMod(x, y) == x - y * CDiv(x, y)
Shl(x, n) == U64(x * M(n))
Shr(x, n) == x \div M(n)

rs == r[1]
rt == r[2]
M32(x) == x % M(W)
T64(i) == SEXT_DISP(i.imm)

(* Sum and difference overflow at bit n: the operands' signs agree, or     *)
(* differ, and the result's is not the first one's.                        *)
ADD_OV(res, s1, s2, n) == Sign(s1, n) = Sign(s2, n) /\ Sign(s1, n) # Sign(res, n)
SUB_OV(res, s1, s2, n) == Sign(s1, n) # Sign(s2, n) /\ Sign(s2, n) = Sign(res, n)

(* Mutant of uemul64: one carry out of the low half is lost.               *)
uemul64_OneCarry(a, b) ==
  LET rmid1 == Shr(a, W) * M32(b)
      rmid2 == M32(a) * Shr(b, W)
      lo2 == U64(M32(a) * M32(b) + Shl(rmid1, W) + Shl(rmid2, W))
      carry == IF lo2 < Shl(rmid2, W) THEN 1 ELSE 0
  IN  [hi |-> U64(Shr(a, W) * Shr(b, W) + Shr(rmid1, W) + Shr(rmid2, W) + carry), lo |-> lo2]
(* 64 by 64 bits, from the products of their halves.                       *)
uemul64(a, b) ==
  LET ahi == Shr(a, W)  alo == M32(a)  bhi == Shr(b, W)  blo == M32(b)
      rmid1 == ahi * blo
      rmid2 == alo * bhi
      rhi == ahi * bhi + Shr(rmid1, W) + Shr(rmid2, W)
      lo1 == U64(alo * blo + Shl(rmid1, W))
      lo2 == U64(lo1 + Shl(rmid2, W))
      carry1 == IF lo1 < Shl(rmid1, W) THEN 1 ELSE 0
      carry2 == IF lo2 < Shl(rmid2, W) THEN 1 ELSE 0
  IN  [hi |-> U64(rhi + carry1 + carry2), lo |-> lo2]

LeadingRun(x, n, v) ==                        \* CLZ, CLO: the loop from the top bit
  LET other == {k \in 0 .. n - 1 : Shr(x, k) % 2 # v}
  IN  IF other = {} THEN n ELSE n - 1 - CHOOSE k \in other : \A j \in other : j <= k
Truth(b) == IF b THEN 1 ELSE 0

-----------------------------------------------------------------------------
DoubleOps == {"DADD", "DADDU", "DSUB", "DSUBU", "DADDI", "DADDIU",
              "DSLL", "DSLL32", "DSLLV", "DSRL", "DSRL32", "DSRLV",
              "DSRA", "DSRA32", "DSRAV", "DMULT", "DMULTU", "DDIV", "DDIVU",
              "DCLZ", "DCLO"}

Put(i, v) == r' = IF i.rd = 0 THEN r ELSE [r EXCEPT ![i.rd] = v]
Traps(t) == trap' = t /\ UNCHANGED <<r, mhi, mlo>>
NoTrap == trap' = "none"

(* A result that traps on overflow; it is written if it does not.          *)
OrOverflow(i, overflow, v) ==
  IF overflow THEN Traps("IOV") ELSE Put(i, v) /\ NoTrap /\ UNCHANGED <<mhi, mlo>>
AddImmediate(i) ==
  LET res == U64(rs + T64(i)) IN
    \/ i.op = "ADDI" /\ OrOverflow(i, ADD_OV(res, rs, T64(i), W), SEXT_W_D(res))
    \/ i.op = "DADDI" /\ OrOverflow(i, ADD_OV(res, rs, T64(i), D), res)
Add(i) ==
  \/ LET res == U64(rs + rt) IN
       \/ i.op = "ADD" /\ OrOverflow(i, ADD_OV(res, rs, rt, W), SEXT_W_D(res))
       \/ i.op = "DADD" /\ OrOverflow(i, ADD_OV(res, rs, rt, D), res)
  \/ LET res == U64(rs - rt) IN
       \/ i.op = "SUB" /\ OrOverflow(i, SUB_OV(res, rs, rt, W), SEXT_W_D(res))
       \/ i.op = "DSUB" /\ OrOverflow(i, SUB_OV(res, rs, rt, D), res)

(* Mutant of ImmediateValue: the sum of a word is not extended.            *)
ImmediateUnextended(i) ==
  CASE i.op = "LUI" -> SEXT_W_D(i.imm * M(W - H))
    [] i.op \in {"ADDIU", "DADDIU"} -> U64(rs + T64(i))
    [] OTHER -> i.imm
ImmediateValue(i) ==
  CASE i.op = "LUI" -> SEXT_W_D(i.imm * M(W - H))
    [] i.op = "ANDI" -> rs & i.imm
    [] i.op = "ORI" -> rs | i.imm
    [] i.op = "XORI" -> rs ^^ i.imm
    [] i.op = "ADDIU" -> SEXT_W_D(U64(rs + T64(i)))
    [] i.op = "DADDIU" -> U64(rs + T64(i))
    [] i.op = "SLTI" -> Truth(Int64(rs) < Int64(T64(i)))
    [] i.op = "SLTIU" -> Truth(rs < T64(i))
ShiftValue(i) ==
  CASE i.op = "SLL" -> SEXT_W_D(Shl(rt, i.sa))
    [] i.op = "SLLV" -> SEXT_W_D(Shl(rt, rs % W))
    [] i.op = "SRL" -> SEXT_W_D(Shr(M32(rt), i.sa))
    [] i.op = "SRLV" -> SEXT_W_D(Shr(M32(rt), rs % W))
    [] i.op = "SRA" -> SEXT_W_D(Shr(SEXT_W_D(rt), i.sa))
    [] i.op = "SRAV" -> SEXT_W_D(Shr(SEXT_W_D(rt), rs % W))
    [] i.op = "DSLL" -> Shl(rt, i.sa)
    [] i.op = "DSLL32" -> Shl(rt, i.sa + W)
    [] i.op = "DSLLV" -> Shl(rt, rs % D)
    [] i.op = "DSRL" -> Shr(rt, i.sa)
    [] i.op = "DSRL32" -> Shr(rt, i.sa + W)
    [] i.op = "DSRLV" -> Shr(rt, rs % D)
    [] i.op = "DSRA" -> U64(Shr(Int64(rt), i.sa))
    [] i.op = "DSRA32" -> U64(Shr(Int64(rt), i.sa + W))
    [] i.op = "DSRAV" -> U64(Shr(Int64(rt), rs % D))
OperateValue(i) ==
  CASE i.op = "ADDU" -> SEXT_W_D(U64(rs + rt))
    [] i.op = "SUBU" -> SEXT_W_D(U64(rs - rt))
    [] i.op = "DADDU" -> U64(rs + rt)
    [] i.op = "DSUBU" -> U64(rs - rt)
    [] i.op = "AND" -> rs & rt
    [] i.op = "OR" -> rs | rt
    [] i.op = "XOR" -> rs ^^ rt
    [] i.op = "NOR" -> Inv(rs | rt)
    [] i.op = "SLT" -> Truth(Int64(rs) < Int64(rt))
    [] i.op = "SLTU" -> Truth(rs < rt)
    [] i.op = "MUL" -> SEXT_W_D(U64(Int64(SEXT_W_D(rs)) * Int64(SEXT_W_D(rt))))
    [] i.op = "CLZ" -> LeadingRun(rs, W, 0)
    [] i.op = "CLO" -> LeadingRun(rs, W, 1)
    [] i.op = "DCLZ" -> LeadingRun(rs, D, 0)
    [] i.op = "DCLO" -> LeadingRun(rs, D, 1)
    [] i.op = "MFHI" -> mhi
    [] i.op = "MFLO" -> mlo
Immediates == {"LUI", "ANDI", "ORI", "XORI", "ADDIU", "DADDIU", "SLTI", "SLTIU"}
Shifts == {"SLL", "SLLV", "SRL", "SRLV", "SRA", "SRAV", "DSLL", "DSLL32", "DSLLV",
           "DSRL", "DSRL32", "DSRLV", "DSRA", "DSRA32", "DSRAV"}
Operates == {"ADDU", "SUBU", "DADDU", "DSUBU", "AND", "OR", "XOR", "NOR", "SLT", "SLTU",
             "MUL", "CLZ", "CLO", "DCLZ", "DCLO", "MFHI", "MFLO"}
Compute(i) ==
  /\ \/ i.op \in Immediates /\ Put(i, ImmediateValue(i))
     \/ i.op \in Shifts /\ Put(i, ShiftValue(i))
     \/ i.op \in Operates /\ Put(i, OperateValue(i))
     \/ i.op = "MOVN" /\ (IF rt # 0 THEN Put(i, rs) ELSE r' = r)
     \/ i.op = "MOVZ" /\ (IF rt = 0 THEN Put(i, rs) ELSE r' = r)
  /\ NoTrap /\ UNCHANGED <<mhi, mlo>>

-----------------------------------------------------------------------------
SetHiLo(h, l) == mhi' = h /\ mlo' = l /\ NoTrap /\ r' = r
(* Both halves of a 64-bit value, each sign-extended.                      *)
SetHalves(x) == SetHiLo(SEXT_W_D(Shr(x, W)), SEXT_W_D(x))
s1 == Int64(SEXT_W_D(rs))
s2 == Int64(SEXT_W_D(rt))
HiLo == M32(mhi) * M(W) + M32(mlo)

Accumulate(i) ==
  \/ i.op = "MADD" /\ SetHalves(U64(HiLo + s1 * s2))
  \/ i.op = "MADDU" /\ SetHalves(U64(HiLo + M32(rs) * M32(rt)))
  \/ i.op = "MSUB" /\ SetHalves(U64(HiLo - s1 * s2))
  \/ i.op = "MSUBU" /\ SetHalves(U64(HiLo - M32(rs) * M32(rt)))
Multiply(i) ==
  \/ i.op = "MTHI" /\ SetHiLo(rs, mlo)
  \/ i.op = "MTLO" /\ SetHiLo(mhi, rs)
  \/ i.op = "MULT" /\ SetHalves(U64(s1 * s2))
  \/ i.op = "MULTU" /\ SetHalves(U64(M32(rs) * M32(rt)))
  \/ i.op = "DMULTU" /\ LET p == uemul64(rs, rt) IN SetHiLo(p.hi, p.lo)
  \/ /\ i.op = "DMULT"
     /\ LET p == uemul64(ABS_D(rs), ABS_D(rt))
        IN  IF Sign(rs, D) # Sign(rt, D)
            THEN SetHiLo(U64(Inv(p.hi) + Truth(NEG_D(p.lo) = 0)), NEG_D(p.lo))
            ELSE SetHiLo(p.hi, p.lo)

Divide(i) ==
  \/ /\ i.op = "DIV"
     /\ IF M32(rt) = 0 THEN SetHiLo(mhi, mlo)
        ELSE SetHiLo(SEXT_W_D(U64(CMod(s1, s2))), SEXT_W_D(U64(CDiv(s1, s2))))
  \/ /\ i.op = "DIVU"
     /\ IF M32(rt) = 0 THEN SetHiLo(mhi, mlo)
        ELSE SetHiLo(SEXT_W_D(M32(rs) % M32(rt)), SEXT_W_D(M32(rs) \div M32(rt)))
  \/ /\ i.op = "DDIV"
     /\ CASE rt = 0 -> SetHiLo(mhi, mlo)
          [] rs = D_SIGN /\ rt = M(D) - 1 -> SetHiLo(0, rs)
          [] OTHER -> SetHiLo(U64(CMod(Int64(rs), Int64(rt))), U64(CDiv(Int64(rs), Int64(rt))))
  \/ /\ i.op = "DDIVU"
     /\ IF rt = 0 THEN SetHiLo(mhi, mlo) ELSE SetHiLo(rs % rt, rs \div rt)

(* TEQ .. TLTU and, against the immediate, TEQI .. TLTIU.                  *)
Compared(i) == IF i.op \in {"TGEI", "TGEIU", "TLTI", "TLTIU", "TEQI", "TNEI"} THEN T64(i) ELSE rt
Tests(i) ==
  LET y == Compared(i) IN
  /\ i.op \in {"TGE", "TGEI", "TGEU", "TGEIU", "TLT", "TLTI", "TLTU", "TLTIU",
               "TEQ", "TEQI", "TNE", "TNEI"}
  /\ IF \/ i.op \in {"TGE", "TGEI"} /\ Int64(rs) >= Int64(y)
        \/ i.op \in {"TGEU", "TGEIU"} /\ rs >= y
        \/ i.op \in {"TLT", "TLTI"} /\ Int64(rs) < Int64(y)
        \/ i.op \in {"TLTU", "TLTIU"} /\ rs < y
        \/ i.op \in {"TEQ", "TEQI"} /\ rs = y
        \/ i.op \in {"TNE", "TNEI"} /\ rs # y
     THEN Traps("TRAP") ELSE NoTrap /\ UNCHANGED <<r, mhi, mlo>>

Execute(i) ==
  /\ ir' = i /\ UNCHANGED q64
  /\ IF i.op \in DoubleOps /\ ~q64 THEN Traps("RSVI")
     ELSE \/ AddImmediate(i)
          \/ Add(i)
          \/ Compute(i)
          \/ Accumulate(i)
          \/ Multiply(i)
          \/ Divide(i)
          \/ Tests(i)

-----------------------------------------------------------------------------
(* In 32-bit mode every register, HI and LO hold a sign-extended word, so  *)
(* that the comparisons, which look at 64 bits, compare words.             *)
Extended == ~q64 => \A x \in {r[k] : k \in 0 .. 2} \cup {mhi, mlo} : SEXT_W_D(x) = x

(* The processor is the machine IntMachine: of doublewords in 64-bit mode, *)
(* of words in 32-bit mode, where the upper halves are not seen.           *)
Low(x) == IF q64 THEN Int64(x) ELSE Int64(SEXT_W_D(x))
Machine == INSTANCE IntMachine WITH Word <- W, Imm <- H,
             width <- IF q64 THEN D ELSE W, r <- [k \in 0 .. 2 |-> Low(r[k])],
             hi <- Low(mhi), lo <- Low(mlo), ran <- ir, raised <- trap
ImplementsIntMachine == Machine!Spec
=============================================================================
