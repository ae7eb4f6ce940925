--------------------------- MODULE MCInstructions ---------------------------
(***************************************************************************)
(* The instructions, what they compute and what the console calls them.    *)
(* Both units execute one instruction from each of many states: every word *)
(* and samples of doublewords for the integers, every single and samples   *)
(* of doubles for the floating point numbers.  The console examines and    *)
(* deposits every row of its table with the fields filled in many ways,    *)
(* every choice of opcode and function, and data; and shows the history of *)
(* short programs.                                                         *)
(***************************************************************************)
EXTENDS FpUnit
CONSTANT Table                     \* the console's table, a constant so that TLC computes it once
VARIABLES suite,                   \* which states and instructions
          r, mhi, mlo, ir, itrap,  \* the integer unit
          page, d, addr, sw, said, size, phase,   \* the console, as in Console
          hist, hst_p, hst_lnt, evtHist, debug, simtrc, running, trace, asked, lines, log
ivars == <<r, mhi, mlo, ir, itrap>>
memory == <<page, d, addr, sw, said, size, phase>>
tracing == <<hist, hst_p, hst_lnt, evtHist, debug, simtrc, running, trace, asked, lines, log>>
avars == <<suite, ivars, q64, f64, F, fcr, ran, trap, memory, tracing>>
fvars == <<f64, F, fcr, ran, trap>>
IW == 4                            \* a word of 4 bits, an immediate of 2
IH == 2
I == INSTANCE IntUnit WITH W <- IW, H <- IH, trap <- itrap
Extended == I!Extended
ImplementsIntMachine == I!ImplementsIntMachine

MCExpLim == [W |-> [S |-> SFrac - 1, D |-> SFrac - 1], L |-> [S |-> W - 3, D |-> DFrac - 1]]

Ctl(rm, fs, fn, fo, enb) == [rm |-> rm, fs |-> fs, fn |-> fn, fo |-> fo, enb |-> enb,
                             cause |-> {"INV"}, flags |-> {"OVF"}, cc |-> {1}]
Modes == {"RN", "RZ", "RP", "RM"}
Arith == Exceptions \ {"UNI"}
Singles == 0 .. M(W) - 1
S(s, e, f) == s * M(W - 1) + e * M(SFrac) + f
Dbl(s, e, f) == s * M(U - 1) + e * M(DFrac) + f
SomeS == {S(s, e, f) : s \in {0, 1}, e \in {0, 1, 3, 6, 7}, f \in {0, 3}} \cup {S(0, 7, 1), S(0, 2, 1), S(1, 4, 2)}
FewS == {S(0, e, 0) : e \in {0, 1, 3, 6, 7}} \cup {S(1, e, 3) : e \in {1, 2, 6}} \cup {S(1, 3, 1), S(1, 7, 0), S(0, 0, 1), S(0, 4, 3)}
DFracs == {0, 1, 2, 3, 32, 63, 64, 65, 96, 97, 126, 127}
ManyD == {Dbl(s, e, f) : s \in {0, 1}, e \in 0 .. 15, f \in DFracs}
SomeD == {Dbl(s, e, f) : s \in {0, 1}, e \in {0, 1, 7, 14, 15}, f \in {0, 1, 127}} \cup {Dbl(0, 2, 64), Dbl(1, 8, 65)}
Pair(a, b, c, e) == [k \in 0 .. 3 |-> IF k = 0 THEN a ELSE IF k = 1 THEN b ELSE IF k = 2 THEN c ELSE e]

Ins(op, fmt, fs, ft, fr, fd) == [op |-> op, fmt |-> fmt, fs |-> fs, ft |-> ft, fr |-> fr, fd |-> fd,
                                 cond |-> {}, cc |-> 1, rm |-> "CRR", reg |-> "", v |-> 0]
Start == Ins("none", "none", 0, 0, 0, 0)
IntStart == [op |-> "none", rd |-> 0, sa |-> 0, imm |-> 0]
Words == {I!SEXT_W_D(x) : x \in 0 .. 2^IW - 1}
Samples == {0, 1, 7, 15, 8, 136, 119, 128, 127, 248, 254, 255, 240}

IntSuite ==
  /\ suite = "integers" /\ q64 \in BOOLEAN
  /\ f64 = FALSE /\ F = Pair(0, 0, 0, 0) /\ fcr = Ctl("RN", FALSE, FALSE, FALSE, {})
  /\ IF q64 THEN r \in [0 .. 2 -> Samples] /\ r[0] = 0 /\ mhi = 0 /\ mlo = 0
     ELSE /\ \E a, b \in Words : r = [k \in 0 .. 2 |-> IF k = 0 THEN 0 ELSE IF k = 1 THEN a ELSE b]
          /\ \E p \in {<<0, 1>>, <<248, 7>>, <<255, 255>>} : mhi = p[1] /\ mlo = p[2]
FpSuite ==
  /\ \/ /\ suite = "single" /\ f64 = FALSE
        /\ \E a, b \in Singles : F = Pair(a + b * M(W), 0, 77, 0)
        /\ fcr \in {Ctl(rm, TRUE, FALSE, FALSE, {}) : rm \in Modes} \cup {Ctl("RN", FALSE, FALSE, FALSE, {})}
     \/ /\ suite = "single" /\ f64 = FALSE
        /\ \E a, b \in SomeS : F = Pair(a + b * M(W), 0, 77, 0)
        /\ fcr \in {Ctl("RN", fs, FALSE, FALSE, enb) : fs \in BOOLEAN, enb \in {{x} : x \in Arith} \cup {Arith}}
     \/ /\ suite = "single1" /\ f64 = TRUE
        /\ \E a \in Singles : F = Pair(a + 5 * M(W), 0, 77, 0)
        /\ fcr \in {Ctl(rm, fs, FALSE, FALSE, enb) : rm \in Modes, fs \in BOOLEAN, enb \in {{}, {"INE"}, Arith}}
     \/ /\ suite = "double1" /\ f64 = TRUE
        /\ \E a \in ManyD : F = Pair(a, 0, 77, 0)
        /\ fcr \in {Ctl(rm, fs, fn, FALSE, {}) : rm \in Modes, fs \in {TRUE}, fn \in BOOLEAN}
     \/ /\ suite = "double" /\ f64 = FALSE
        /\ \E a, b \in SomeD : F = Pair(a, 0, b, 0)
        /\ fcr \in {Ctl(rm, fs, fn, FALSE, {}) : rm \in Modes, fs \in BOOLEAN, fn \in BOOLEAN}
     \/ /\ suite = "madds" /\ f64 = FALSE
        /\ \E a, b, c \in FewS : F = Pair(a + b * M(W), 0, c, 0)
        /\ fcr \in {Ctl(rm, TRUE, FALSE, TRUE, {}) : rm \in Modes}
     \/ /\ suite = "maddd" /\ f64 = TRUE
        /\ \E a, b, c \in {Dbl(0, 7, 0), Dbl(1, 8, 127), Dbl(0, 1, 1), Dbl(0, 3, 65), Dbl(1, 0, 0), Dbl(0, 15, 0), Dbl(1, 15, 3)} :
               F = Pair(a, b, 77, c)
        /\ fcr \in {Ctl(rm, fs, FALSE, fo, {}) : rm \in Modes, fs \in BOOLEAN, fo \in BOOLEAN}
     \/ /\ suite = "int" /\ f64 = TRUE
        /\ \E a \in Singles \cup {100, 200, 4095, 4000, 3000, 2048, 2047} : F = Pair(a, 0, 77, 0)
        /\ fcr \in {Ctl(rm, fs, FALSE, FALSE, enb) : rm \in Modes, fs \in BOOLEAN, enb \in {{}, {"INE"}}}
     \/ /\ suite = "narrow" /\ f64 = FALSE
        /\ \E a, b \in {Dbl(0, 7, 0), Dbl(1, 8, 127), Dbl(0, 3, 65), Dbl(0, 0, 1)} : F = Pair(a, 0, b, 0)
        /\ fcr = Ctl("RN", TRUE, FALSE, FALSE, {})
     \/ /\ suite = "control" /\ f64 = TRUE /\ F = Pair(1, 2, 3, 4)
        /\ fcr \in {Ctl(rm, fs, FALSE, FALSE, enb) : rm \in Modes, fs \in BOOLEAN, enb \in {{}, {"INE"}, {"INV"}, Arith}}
  /\ q64 = (suite # "narrow") /\ r = [k \in 0 .. 2 |-> 0] /\ mhi = 0 /\ mlo = 0

Conds == {{"UN", "LT"}, {"EQ"}, {"LT", "TQNAN"}}
Binaries(fmt, fs, ft, fd) ==
  {Ins(op, fmt, fs, ft, 0, fd) : op \in {"ADD", "SUB", "MUL", "DIV"}}
  \cup {[Ins("C", fmt, fs, ft, 0, fd) EXCEPT !.cond = x] : x \in Conds}
Unaries(fmt, fs, fd) ==
  {Ins(op, fmt, fs, 0, 0, fd) : op \in {"RECIP", "SQRT", "RSQRT", "ABS", "NEG", "MOV", "MOVT", "MOVF", "CVT.S", "CVT.D"}}
  \cup {[Ins(op, fmt, fs, 0, 0, fd) EXCEPT !.rm = x] : op \in {"CVT.W", "CVT.L"}, x \in {"CRR", "RZ"}}
GprMoves == {[Ins(op, fmt, 0, 0, 0, 2) EXCEPT !.v = v] : op \in {"MOVZ", "MOVN"}, fmt \in {"S", "D"}, v \in {0, 5}}
  \cup {[Ins(op, "none", fs, 0, 0, 0) EXCEPT !.v = v] : op \in {"MTC1"}, fs \in {0, 1, 2}, v \in {6, 4000}}
  \cup {[Ins(op, "none", fs, 0, 0, 0) EXCEPT !.v = v] : op \in {"DMTC1"}, fs \in {0, 2}, v \in {6, 4000}}
Adds(fmt, fs, ft, fr, fd) == {Ins(op, fmt, fs, ft, fr, fd) : op \in MultiplyAdds}
Written == {[Ctl(rm, fs, fs, ~fs, enb) EXCEPT !.cause = cause, !.flags = {"INE"}, !.cc = {}] :
              rm \in Modes, fs \in BOOLEAN, enb \in {{}, {"OVF", "INV"}}, cause \in {{}, {"OVF"}, {"UNI"}, {"INV", "INE"}}}
Controls == {[Ins("CTC1", "none", 0, 0, 0, 0) EXCEPT !.reg = reg, !.v = v] :
               reg \in {"FCCR", "FEXR", "FENR", "FPCR"}, v \in Written}
InstrsOf ==
  CASE suite = "single" -> Binaries("S", 0, 1, 3)
    [] suite = "single1" -> Unaries("S", 0, 2)
    [] suite = "double1" -> Unaries("D", 0, 2)
    [] suite = "double" -> Binaries("D", 0, 2, 2)
    [] suite = "madds" -> Adds("S", 0, 1, 2, 3)
    [] suite = "maddd" -> Adds("D", 0, 1, 3, 2)
    [] suite = "int" -> {Ins(op, fmt, 0, 0, 0, 2) : op \in {"CVT.S", "CVT.D"}, fmt \in {"W", "L"}}
    [] suite = "narrow" -> {Ins(op, fmt, 0, 2, 0, 2) : fmt \in {"S", "D", "W", "L"},
                              op \in {"ADD", "RECIP", "RSQRT", "CVT.S", "CVT.D", "CVT.W", "CVT.L", "MOV", "MADD"}} \cup GprMoves
    [] suite = "control" -> Controls \cup GprMoves

(* The instructions on which the code keeps FpMachine's promise; it does   *)
(* not, as its comments and IEEE 754 have it, when                         *)
(*   - a NaN made quiet, or narrowed, keeps no bit and becomes an infinity,*)
(*   - ABS or NEG meets a denormal that is not flushed,                    *)
(*   - SQRT or RSQRT meets minus infinity,                                 *)
(*   - FN asks for flush to nearest in single precision,                   *)
(*   - the product of a multiply-add overflows, or is flushed to zero.     *)
BecomesInf(v, fmt, to) ==
  /\ Unpack(Cleared, fmt, v, TRUE).n.t = "NAN"
  /\ Machine!FracOf(to, Machine!Quieted(fmt, v, to)) = 0
RoundedProduct(i) == Rounded(i.fmt, Binary(i, FALSE, UpMul).n, fcr.rm).n.e
Handled(i) ==
  LET to == IF i.op = "CVT.S" THEN "S" ELSE IF i.op = "CVT.D" THEN "D" ELSE i.fmt
      v == Get(i.fmt, i.fs)
  IN  i.fmt \in {"S", "D"} =>
      /\ \A k \in {i.fs, i.ft, i.fr} : ~BecomesInf(Get(i.fmt, k), i.fmt, to)
      /\ i.op \in {"ABS", "NEG"} => fcr.fs \/ ~Machine!Denormal(i.fmt, v)
      /\ i.op \in {"SQRT", "RSQRT"} => v # Machine!Inf(i.fmt, 1)
      /\ fcr.fn /\ fcr.rm = "RN" => to = "D"
      /\ i.op \in MultiplyAdds /\ Binary(i, FALSE, UpMul).n.t = "FIN" =>
           /\ RoundedProduct(i) <= UF_MAX_E(i.fmt)
           /\ fcr.fs /\ ~fcr.fo => RoundedProduct(i) > 0

Dests == {0, 2}
VarShifts == {"SLLV", "SRLV", "SRAV", "DSLLV", "DSRLV", "DSRAV"}
ImmTests == {"TGEI", "TGEIU", "TLTI", "TLTIU", "TEQI", "TNEI"}
IntInstrs ==
  [op : I!Operates \cup VarShifts \cup {"MOVN", "MOVZ", "ADD", "SUB", "DADD", "DSUB"},
   rd : Dests, sa : {0}, imm : {0}]
  \cup [op : I!Shifts \ VarShifts, rd : {2}, sa : 0 .. IW - 1, imm : {0}]
  \cup [op : I!Immediates \cup {"ADDI", "DADDI"}, rd : Dests, sa : {0}, imm : 0 .. 2^IH - 1]
  \cup [op : ImmTests, rd : {0}, sa : {0}, imm : 0 .. 2^IH - 1]
  \cup [op : {"MTHI", "MTLO", "MULT", "MULTU", "MADD", "MADDU", "MSUB", "MSUBU", "DMULT", "DMULTU",
              "DIV", "DIVU", "DDIV", "DDIVU", "TGE", "TGEU", "TLT", "TLTU", "TEQ", "TNE"},
         rd : {0}, sa : {0}, imm : {0}]

-----------------------------------------------------------------------------
Bit(n, width, at) == {k + at : k \in {j \in 0 .. width - 1 : (n \div (2 ^ j)) % 2 = 1}}
Word(op, rs, rt, rest) == Bit(op, 6, 26) \cup Bit(rs, 5, 21) \cup Bit(rt, 5, 16) \cup Bit(rest, 16, 0)

(* ADDU R3,R1,R2; JALR R7; LW R2,-4(R1); and the two that turn the trace   *)
(* on and off.                                                             *)
MCCode ==
  {[pc |-> 0, ir |-> Word(0, 1, 2, 6177)], [pc |-> 4, ir |-> Word(0, 7, 0, 63497)],
   [pc |-> 8, ir |-> Word(11, 0, 0, 44290)], [pc |-> 12, ir |-> Word(11, 0, 0, 44291)],
   [pc |-> 16, ir |-> Word(35, 1, 2, 65532)]}

MCHistMax == 3

InstructionTable == INSTANCE InstrTable
MCRows == InstructionTable!opc

T == INSTANCE Console WITH Code <- MCCode, Rows <- Table, AddrBits <- 30,
  HistMin <- 2, HistMax <- MCHistMax, LogMax <- 4
DepositRestores == T!DepositRestores
NamesDecode == T!NamesDecode
LinesTrue == T!LinesTrue
FirstShown == T!FirstShown

(* The bits that the mask of a row leaves open: none, all, and mixtures.   *)
Scattered(k) == {b \in 0 .. 31 : ((b * b * (2 * k + 1) + 3 * b + k) \div 4) % 2 = 1}
Fill == {{}, 0 .. 31, {b \in 0 .. 31 : b % 2 = 0}, {b \in 0 .. 31 : b % 3 = 0}} \cup {Scattered(k) : k \in 1 .. 3}
RowWords == {Table[n].key \cup (fill \ Table[n].mask) : n \in DOMAIN Table, fill \in Fill}

(* Every value of the fields that choose an instruction, the others zero.  *)
Encodings ==
  {Word(op, 0, 0, fnc) : op \in {0, 16, 17, 19, 28, 31}, fnc \in 0 .. 63}
  \cup {Word(op, rs, 0, fnc) : op \in {16, 17}, rs \in 0 .. 31, fnc \in 0 .. 63}
  \cup {Word(1, rs, rt, disp) : rs \in {0, 5}, rt \in 0 .. 31, disp \in {0, 4}}
  \cup {Word(17, 8, rt, disp) : rt \in 0 .. 31, disp \in {0, 8}}
  \cup {Word(op, rs, 0, 0) : op \in 0 .. 63, rs \in {0, 1}}

(* A word at its address, and some bits in the other word.                 *)
Beside(w, a) ==
  LET other == {1, 6, 8, 31}
      high(s) == {b + 32 : b \in s}
  IN IF a % 8 = 4 THEN other \cup high(w) ELSE w \cup high(other)

Ends == {T!RegionSpan - 4, T!RegionSpan - 8, T!AddrSpan - 4, T!AddrSpan - 8}
Aims(n) == \E k \in DOMAIN Table[n].fields : Table[n].fields[k][2] \in {"JA", "BA"}

ConsoleSuite ==
  /\ said = [kind |-> "none"] /\ size = 0 /\ phase = "new"
  /\ \/ /\ suite = "words" /\ page = "ram" /\ sw = "M"
        /\ \/ addr = 4096 /\ \E w \in Encodings : d = Beside(w, addr)
           \/ \E w \in RowWords :
                LET n == T!RowOf(w)
                IN addr \in {0, 4100} \cup (IF n # 0 /\ Aims(n) THEN Ends ELSE {}) /\ d = Beside(w, addr)
     \/ /\ suite = "data" /\ page \in {"ram", "device", "readonly", "uncached", "nothing", "invalid"}
        /\ sw \in {"A", "B", "H", "W", "C", "none", "M"} /\ addr \in 0 .. 7
        /\ \E lo, hi \in Fill : d = lo \cup {b + 32 : b \in hi}
     \/ /\ suite = "strings" /\ page = "ram" /\ sw \in {"A", "C"} /\ addr \in 0 .. 7
        /\ \E k \in {0, 32, 63} : d = UNION {Bit(((k + 7 * j) % 95) + 32, 8, 8 * j) : j \in 0 .. 7}
     \/ suite = "history" /\ page = "invalid" /\ sw = "none" /\ addr = 0 /\ d = {}
  /\ q64 = TRUE /\ f64 = FALSE /\ F = Pair(0, 0, 0, 0) /\ fcr = Ctl("RN", FALSE, FALSE, FALSE, {})
  /\ r = [k \in 0 .. 2 |-> 0] /\ mhi = 0 /\ mlo = 0
NoConsole ==
  page = "none" /\ d = {} /\ addr = 0 /\ sw = "none" /\ said = [kind |-> "none"] /\ size = 0 /\ phase = "idle"

Init == /\ ran = Start /\ ir = IntStart /\ trap = "none" /\ itrap = "none"
        /\ hist = <<>> /\ hst_p = 0 /\ hst_lnt = 0 /\ log = <<>> /\ trace = <<>> /\ asked = 0 /\ lines = <<>>
        /\ evtHist = FALSE /\ debug = FALSE /\ simtrc = FALSE /\ running = FALSE
        /\ ConsoleSuite \/ ((IntSuite \/ FpSuite) /\ NoConsole)
Units == <<suite, memory, tracing>>
FpStep == /\ phase = "idle" /\ suite # "integers" /\ ran = Start /\ UNCHANGED <<Units, ivars>>
          /\ \E i \in InstrsOf : Handled(i) /\ Execute(i)
IntStep == /\ suite = "integers" /\ ir = IntStart /\ UNCHANGED <<Units, fvars>>
           /\ \E i \in IntInstrs : I!Execute(i)
Others == <<suite, ivars, q64, fvars, memory>>
InMemory == phase # "idle" /\ UNCHANGED <<suite, ivars, q64, fvars, tracing>>
InHistory == suite = "history" /\ UNCHANGED Others
Done == UNCHANGED avars
Next ==
  \/ FpStep \/ IntStep
  \/ InMemory /\ T!Examine
  \/ InMemory /\ T!Deposit
  \/ InHistory /\ \E n \in 0 .. MCHistMax : T!SetHistory(n)
  \/ InHistory /\ T!ClearHistory
  \/ InHistory /\ T!SetDebug
  \/ InHistory /\ T!Start
  \/ InHistory /\ T!Stop
  \/ InHistory /\ \E in \in MCCode : T!Execute(in)
  \/ InHistory /\ \E n \in 1 .. MCHistMax : T!ShowHistory(n)
  \/ Done
Spec == Init /\ [][Next]_avars

HistorySpec == suite = "history" /\ Spec
=============================================================================
