----------------------------- MODULE IntMachine -----------------------------
(***************************************************************************)
(* What the integer instructions of a MIPS processor promise: registers of *)
(* `width` bits that hold signed integers, operations of `width` bits, of  *)
(* a word or of a doubleword, each defined by the integer it computes.  A  *)
(* processor in 32-bit mode has registers of one word and no doubleword    *)
(* instructions; nothing here knows that wider registers lie underneath.   *)
(* An instruction reads register 1 and either register 2 or its immediate. *)
(***************************************************************************)
EXTENDS Integers, FiniteSets
CONSTANTS Word,            \* the bits of a word
          Imm              \* the bits of an immediate
VARIABLES width,           \* the bits of a register
          r, hi, lo,       \* the registers, signed integers; r[0] is 0
          ran,             \* the instruction just executed
          raised           \* the trap it raised, or "none"
ivars == <<width, r, hi, lo, ran, raised>>

Pow(n) == 2^n
Double == 2 * Word
Unsigned(n, x) == x % Pow(n)
Wrap(n, x) == ((x + Pow(n - 1)) % Pow(n)) - Pow(n - 1)
Fits(n, x) == x \in -Pow(n - 1) .. Pow(n - 1) - 1
Abs(x) == IF x < 0 THEN -x ELSE x
Sign(x) == IF x < 0 THEN -1 ELSE 1
Truncated(x, y) == Sign(x) * Sign(y) * (Abs(x) \div Abs(y))

DoubleOps == {"DADD", "DADDU", "DSUB", "DSUBU", "DADDI", "DADDIU",
              "DSLL", "DSLL32", "DSLLV", "DSRL", "DSRL32", "DSRLV",
              "DSRA", "DSRA32", "DSRAV", "DMULT", "DMULTU", "DDIV", "DDIVU",
              "DCLZ", "DCLO"}
ImmOps == {"ADDI", "ADDIU", "DADDI", "DADDIU", "SLTI", "SLTIU", "ANDI",
           "ORI", "XORI", "TGEI", "TGEIU", "TLTI", "TLTIU", "TEQI", "TNEI"}
WidthOps == {"AND", "OR", "XOR", "NOR", "SLT", "SLTU", "MOVN", "MOVZ",
             "MFHI", "MFLO", "SLTI", "SLTIU", "ANDI", "ORI", "XORI", "TGE", "TGEU", "TLT",
             "TLTU", "TEQ", "TNE", "TGEI", "TGEIU", "TLTI", "TLTIU", "TEQI",
             "TNEI"}

(* The number of bits an instruction works on, its operands.               *)
Bits(i) == IF i.op \in WidthOps THEN width
           ELSE IF i.op \in DoubleOps THEN Double ELSE Word
A(i) == Wrap(Bits(i), r[1])
B(i) == Wrap(Bits(i), IF i.op \notin ImmOps THEN r[2]
                      ELSE IF i.op \in {"ANDI", "ORI", "XORI"} THEN i.imm
                      ELSE Wrap(Imm, i.imm))
UA(i) == Unsigned(Bits(i), A(i))
UB(i) == Unsigned(Bits(i), B(i))
BitAt(x, n) == (x \div Pow(n)) % 2
(* The integer whose bits are chosen one by one from those of A and B.     *)
Bitwise2(i, p(_, _)) ==
  LET bit[n \in 0 .. Bits(i)] ==
        IF n = 0 THEN 0
        ELSE bit[n - 1] + IF p(BitAt(UA(i), n - 1), BitAt(UB(i), n - 1)) THEN Pow(n - 1) ELSE 0
  IN  bit[Bits(i)]
Conjunction(a, b) == a = 1 /\ b = 1
Disjunction(a, b) == a = 1 \/ b = 1
Difference(a, b) == a # b
Neither(a, b) == a = 0 /\ b = 0

Truth(b) == IF b THEN 1 ELSE 0
(* How many of the leading bits of an operand are v.                       *)
Leading(i, v) ==
  Cardinality({k \in 0 .. Bits(i) - 1 : \A n \in k .. Bits(i) - 1 : BitAt(UA(i), n) = v})
ShiftAmount(i) ==
  CASE i.op \in {"SLLV", "SRLV", "SRAV", "DSLLV", "DSRLV", "DSRAV"} -> r[1] % Bits(i)
    [] i.op \in {"DSLL32", "DSRL32", "DSRA32"} -> i.sa + Word
    [] OTHER -> i.sa

Sums == {"ADD", "ADDI", "DADD", "DADDI", "ADDU", "ADDIU", "DADDU", "DADDIU"}
Trapping == {"ADD", "ADDI", "SUB", "DADD", "DADDI", "DSUB"}
Differences == {"SUB", "SUBU", "DSUB", "DSUBU"}
(* The integer an instruction with a destination computes.                 *)
Result(i) ==
  CASE i.op \in Sums -> A(i) + B(i)
    [] i.op \in Differences -> A(i) - B(i)
    [] i.op \in {"AND", "ANDI"} -> Bitwise2(i, Conjunction)
    [] i.op \in {"OR", "ORI"} -> Bitwise2(i, Disjunction)
    [] i.op \in {"XOR", "XORI"} -> Bitwise2(i, Difference)
    [] i.op = "NOR" -> Bitwise2(i, Neither)
    [] i.op \in {"SLT", "SLTI"} -> Truth(A(i) < B(i))
    [] i.op \in {"SLTU", "SLTIU"} -> Truth(UA(i) < UB(i))
    [] i.op = "LUI" -> i.imm * Pow(Word - Imm)
    [] i.op \in {"SLL", "SLLV", "DSLL", "DSLL32", "DSLLV"} -> UB(i) * Pow(ShiftAmount(i))
    [] i.op \in {"SRL", "SRLV", "DSRL", "DSRL32", "DSRLV"} -> UB(i) \div Pow(ShiftAmount(i))
    [] i.op \in {"SRA", "SRAV", "DSRA", "DSRA32", "DSRAV"} -> B(i) \div Pow(ShiftAmount(i))
    [] i.op = "MUL" -> A(i) * B(i)
    [] i.op \in {"CLZ", "DCLZ"} -> Leading(i, 0)
    [] i.op \in {"CLO", "DCLO"} -> Leading(i, 1)
    [] i.op = "MFHI" -> hi
    [] i.op = "MFLO" -> lo
    [] i.op \in {"MOVN", "MOVZ"} -> r[1]

Multiplies == {"MULT", "MULTU", "DMULT", "DMULTU"}
Accumulates == {"MADD", "MADDU", "MSUB", "MSUBU"}
Divides == {"DIV", "DIVU", "DDIV", "DDIVU"}
SignedOps == {"MULT", "DMULT", "DIV", "DDIV", "MADD", "MSUB"}
Product(i) == IF i.op \in SignedOps THEN A(i) * B(i) ELSE UA(i) * UB(i)
Accumulator == Wrap(Word, hi) * Pow(Word) + Unsigned(Word, lo)
(* The pair of HI and LO an instruction leaves, as one number of twice     *)
(* their size, and the pair of remainder and quotient a division leaves.   *)
Wide(i) == CASE i.op \in Multiplies -> Product(i)
             [] i.op \in {"MADD", "MADDU"} -> Accumulator + Product(i)
             [] i.op \in {"MSUB", "MSUBU"} -> Accumulator - Product(i)
Quotient(i) == IF i.op \in SignedOps THEN Truncated(A(i), B(i)) ELSE UA(i) \div UB(i)
Remainder(i) == IF i.op \in SignedOps THEN A(i) - B(i) * Quotient(i)
                ELSE UA(i) - UB(i) * Quotient(i)

Conditions == {"TGE", "TGEI", "TGEU", "TGEIU", "TLT", "TLTI", "TLTU", "TLTIU",
               "TEQ", "TEQI", "TNE", "TNEI"}
Holds(i) == CASE i.op \in {"TGE", "TGEI"} -> A(i) >= B(i)
              [] i.op \in {"TGEU", "TGEIU"} -> UA(i) >= UB(i)
              [] i.op \in {"TLT", "TLTI"} -> A(i) < B(i)
              [] i.op \in {"TLTU", "TLTIU"} -> UA(i) < UB(i)
              [] i.op \in {"TEQ", "TEQI"} -> A(i) = B(i)
              [] i.op \in {"TNE", "TNEI"} -> A(i) # B(i)
(* The trap an instruction raises, if any.                                 *)
Trap(i) == CASE i.op \in DoubleOps /\ width = Word -> "RSVI"
             [] i.op \in Trapping /\ ~Fits(Bits(i), Result(i)) -> "IOV"
             [] i.op \in Conditions /\ Holds(i) -> "TRAP"
             [] OTHER -> "none"

Destined(i) == i.op \notin Conditions \cup Multiplies \cup Accumulates \cup Divides \cup {"MTHI", "MTLO"}
Moves(i) == CASE i.op = "MOVN" -> r[2] # 0 [] i.op = "MOVZ" -> r[2] = 0 [] OTHER -> TRUE
Written(i) == i.rd # 0 /\ Moves(i)

Do(i) ==
  /\ width' = width /\ ran' = i /\ raised' = Trap(i)
  /\ IF raised' # "none" THEN UNCHANGED <<r, hi, lo>>
     ELSE CASE Destined(i) ->
                 /\ r' = IF Written(i) THEN [r EXCEPT ![i.rd] = Wrap(Bits(i), Result(i))] ELSE r
                 /\ UNCHANGED <<hi, lo>>
            [] i.op \in Multiplies \cup Accumulates ->
                 /\ lo' = Wrap(Bits(i), Wide(i))
                 /\ hi' = Wrap(Bits(i), Wide(i) \div Pow(Bits(i)))
                 /\ r' = r
            [] i.op \in Divides ->
                 /\ IF B(i) = 0 THEN UNCHANGED <<hi, lo>>
                    ELSE lo' = Wrap(Bits(i), Quotient(i)) /\ hi' = Wrap(Bits(i), Remainder(i))
                 /\ r' = r
            [] i.op = "MTHI" -> hi' = r[1] /\ UNCHANGED <<r, lo>>
            [] i.op = "MTLO" -> lo' = r[1] /\ UNCHANGED <<r, hi>>
            [] i.op \in Conditions -> UNCHANGED <<r, hi, lo>>

Init == /\ width \in {Word, Double} /\ ran.op = "none" /\ raised = "none"
        /\ r \in [0 .. 2 -> -Pow(width - 1) .. Pow(width - 1) - 1] /\ r[0] = 0
        /\ hi \in -Pow(width - 1) .. Pow(width - 1) - 1 /\ lo \in -Pow(width - 1) .. Pow(width - 1) - 1
Next == Do(ran')
Spec == Init /\ [][Next]_ivars
=============================================================================
