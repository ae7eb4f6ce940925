----------------------------- MODULE InstrTable -----------------------------
(***************************************************************************)
(* Two descriptions of one instruction set: the switches by which the CPU  *)
(* decodes a word, at the end, and the table of sc1_sys.c that gives       *)
(* instructions their names and formats, for the console.  A word is the  *)
(* set of its bits that are ones.  A row has the name, the bits of the     *)
(* value that the mask keeps, and the class of its mask and fields         *)
(* (sc1_sys.h); the first row that matches counts.                         *)
(***************************************************************************)
EXTENDS Integers, Sequences, SequencesExt, FiniteSetsExt

BitsOf(n, width) == {i \in 0 .. width - 1 : (n \div (2 ^ i)) % 2 = 1}
Shifted(bits, n) == {i + n : i \in bits}
Halves(hi, lo) == BitsOf(lo, 16) \cup Shifted(BitsOf(hi, 16), 16)

Number(w, first, width) ==
  MapThenSumSet(LAMBDA i : 2 ^ (i - first), w \cap (first .. first + width - 1))

(* I_GETRS and its like: where a field begins, and its width.  F_FR, F_FT, *)
(* F_FS and F_FD are the same fields as RS, RT, RD and SA; F_Z is none.    *)
(* CO is the bit of RS that tells an operation of coprocessor 0 from moves.*)
Field ==
  [RS |-> <<21, 5>>, RT |-> <<16, 5>>, RD |-> <<11, 5>>, SA |-> <<6, 5>>, FNC |-> <<0, 6>>,
   JT |-> <<0, 26>>, DISP |-> <<0, 16>>, CODE |-> <<6, 20>>, OP |-> <<26, 6>>,
   CO |-> <<25, 1>>]

Get(w, f) == Number(w, Field[f][1], Field[f][2])

(* The formats of a field: an integer or a floating register, a return     *)
(* register left out when it is 31, a shift amount, a condition or a       *)
(* select or a code left out when it is 0, an immediate, the address of a  *)
(* jump, of a branch or of memory, a register and its index, or nothing.   *)
R(f) == <<f, "R">>
FR(f) == <<f, "FR">>
RC(f) == <<f, "RC">>
SA(f) == <<f, "SA">>
CC(f) == <<f, "CC">>
SEL(f) == <<f, "SEL">>
CODE(f) == <<f, "CODE">>
IMM(f) == <<f, "IMM">>
JA(f) == <<f, "JA">>
BA(f) == <<f, "BA">>
MA(f) == <<f, "MA">>
XA(f) == <<f, "XA">>
NOPARSE(f) == <<f, "NOPARSE">>

C(hi, lo, fields) == [mask |-> Halves(hi, lo), fields |-> fields]

Class == [
  NOP |-> C(\hFFFF, \hFFFF, <<>>),
  MCG |-> C(\hFC01, \h003F, <<R("RD"), R("RS"), CC("RT")>>),
  MCF |-> C(\hFFE1, \h003F, <<FR("SA"), FR("RD"), CC("RT")>>),
  MXC |-> C(\hFFE0, \h0000, <<R("RT"), R("RD"), SEL("FNC")>>),
  LFX |-> C(\hFC00, \h003F, <<FR("SA"), XA("RS")>>),
  SFX |-> C(\hFC00, \h003F, <<FR("RD"), XA("RS")>>),
  BRU |-> C(\hFFFF, \h0000, <<BA("DISP")>>),
  BR0 |-> C(\hFFE0, \h0000, <<BA("DISP")>>),
  BR1 |-> C(\hFC1F, \h0000, <<R("RS"), BA("DISP")>>),
  RGI |-> C(\hFC1F, \h0000, <<R("RS"), IMM("DISP")>>),
  SYI |-> C(\hFC1F, \h0000, <<MA("DISP")>>),
  JMP |-> C(\hFC00, \h0000, <<JA("JT")>>),
  BR2 |-> C(\hFC00, \h0000, <<R("RS"), R("RT"), BA("DISP")>>),
  LUI |-> C(\hFC00, \h0000, <<R("RT"), IMM("DISP")>>),
  IMM |-> C(\hFC00, \h0000, <<R("RT"), R("RS"), IMM("DISP")>>),
  LI  |-> C(\hFFE0, \h0000, <<R("RT"), IMM("DISP")>>),
  MRF |-> C(\hFC00, \h0000, <<R("RT"), MA("DISP")>>),
  OR1 |-> C(\hFC00, \h003F, <<R("RS")>>),
  OW1 |-> C(\hFC00, \h003F, <<R("RD")>>),
  MFM |-> C(\hFFC0, \hFFFF, <<R("RT")>>),
  OR2 |-> C(\hFC00, \h003F, <<R("RS"), R("RT")>>),
  OP2 |-> C(\hFFE0, \h003F, <<R("RD"), R("RT")>>),
  OP3 |-> C(\hFC00, \h003F, <<R("RD"), R("RS"), R("RT")>>),
  SH3 |-> C(\hFC20, \h003F, <<R("RD"), R("RT"), SA("SA")>>),
  SV3 |-> C(\hFC00, \h007F, <<R("RD"), R("RT"), R("RS")>>),
  MAC |-> C(\hFC00, \h003F, <<FR("SA"), FR("RS"), FR("RD"), FR("RT")>>),
  SP2 |-> C(\hFC00, \h003F, <<R("RD"), NOPARSE("RT"), R("RS")>>),
  COD |-> C(\hFC00, \h003F, <<CODE("CODE")>>),
  FP2 |-> C(\hFFE0, \h003F, <<FR("SA"), FR("RD")>>),
  FP3 |-> C(\hFFE0, \h003F, <<FR("SA"), FR("RD"), FR("RT")>>),
  FCP |-> C(\hFFE0, \h003F, <<CC("SA"), FR("RD"), FR("RT")>>),
  MFI |-> C(\hFFE0, \h003F, <<FR("SA"), FR("RD"), R("RT")>>),
  BCO |-> C(\hFFE3, \h0000, <<CC("RT"), BA("DISP")>>),
  MVF |-> C(\hFFE0, \h0000, <<R("RT"), FR("RD")>>),
  CJ2 |-> C(\hFC00, \h003F, <<RC("RD"), R("RS")>>),
  FLD |-> C(\hFC00, \h003F, <<R("RT"), R("RS"), SA("SA"), SA("RD")>>),
  ALNV |-> C(\hFC00, \h003F, <<FR("SA"), FR("RD"), FR("RT"), R("RS")>>),
  POP |-> C(\hFC00, \h003F, <<R("RD"), R("RS")>>)]

(* Rows of one class whose values follow each other: the low halves, from  *)
(* lo in steps of one, or the high halves, from hi in steps of step.       *)
Row(class, hi, lo, name) == [name |-> name, class |-> class, val |-> Halves(hi, lo)]
Low(class, hi, lo, names) == [i \in DOMAIN names |-> Row(class, hi, lo + i - 1, names[i])]
High(class, hi, step, lo, names) ==
  [i \in DOMAIN names |-> Row(class, hi + (i - 1) * step, lo, names[i])]

SpecialRows ==
     Low("NOP", \h0000, \h0000, <<"NOP">>) \o Low("NOP", \h0000, \h0040, <<"SSNOP">>)
  \o Low("NOP", \h0000, \h00C0, <<"EHB">>) \o Low("SH3", \h0000, \h0000, <<"SLL">>)
  \o High("MCG", \h0000, \h1, \h0001, <<"MOVF", "MOVT">>)
  \o High("SH3", \h0000, \h20, \h0002, <<"SRL", "ROTR">>) \o Low("SH3", \h0000, \h0003, <<"SRA">>)
  \o Low("SV3", \h0000, \h0004, <<"SLLV">>) \o Low("SV3", \h0000, \h0006, <<"SRLV">>)
  \o Low("SV3", \h0000, \h0046, <<"ROTRV">>) \o Low("SV3", \h0000, \h0007, <<"SRAV">>)
  \o Low("OR1", \h0000, \h0008, <<"JR">>) \o Low("CJ2", \h0000, \h0009, <<"JALR">>)
  \o Low("OP3", \h0000, \h000A, <<"MOVZ", "MOVN">>)
  \o Low("COD", \h0000, \h000C, <<"SYSCALL", "BREAK">>) \o Low("COD", \h0000, \h000F, <<"SYNC">>)
  \o Low("OW1", \h0000, \h0010, <<"MFHI">>) \o Low("OR1", \h0000, \h0011, <<"MTHI">>)
  \o Low("OW1", \h0000, \h0012, <<"MFLO">>) \o Low("OR1", \h0000, \h0013, <<"MTLO">>)
  \o Low("SV3", \h0000, \h0014, <<"DSLLV">>) \o Low("SV3", \h0000, \h0016, <<"DSRLV">>)
  \o Low("SV3", \h0000, \h0056, <<"DROTRV">>) \o Low("SV3", \h0000, \h0017, <<"DSRAV">>)
  \o Low("OR2", \h0000, \h0018, <<"MULT", "MULTU", "DIV", "DIVU", "DMULT", "DMULTU", "DDIV",
           "DDIVU">>) \o Low("OP3", \h0000, \h0020, <<"ADD", "ADDU", "SUB", "SUBU", "AND">>)
  \o Low("OP2", \h0000, \h0025, <<"MOVE">>) \o Low("OP3", \h0000, \h0025, <<"OR", "XOR", "NOR">>)
  \o Low("OP3", \h0000, \h002A, <<"SLT", "SLTU", "DADD", "DADDU", "DSUB", "DSUBU">>)
  \o Low("OR2", \h0000, \h0030, <<"TGE", "TGEU", "TLT", "TLTU", "TEQ">>)
  \o Low("OR2", \h0000, \h0036, <<"TNE">>) \o Low("SH3", \h0000, \h0038, <<"DSLL">>)
  \o High("SH3", \h0000, \h20, \h003A, <<"DSRL", "DROTR">>)
  \o Low("SH3", \h0000, \h003B, <<"DSRA", "DSLL32">>)
  \o High("SH3", \h0000, \h20, \h003E, <<"DSRL32", "DROTR32">>)
  \o Low("SH3", \h0000, \h003F, <<"DSRA32">>)

(* Mutant of RegimmRows: TNEI follows TEQI, where nothing is reserved.      *)
RegimmRowsClosed ==
     High("BR1", \h0400, \h1, \h0000, <<"BLTZ", "BGEZ", "BLTZL", "BGEZL">>)
  \o High("RGI", \h0408, \h1, \h0000, <<"TGEI", "TGEIU", "TLTI", "TLTIU", "TEQI", "TNEI">>)
  \o Low("BR1", \h0400, \h0000, <<"BLTZAL">>) \o Low("BR0", \h0411, \h0000, <<"BAL">>)
  \o High("BR1", \h0411, \h1, \h0000, <<"BGEZAL", "BLTZALL", "BGEZALL">>)
  \o Low("SYI", \h041F, \h0000, <<"SYNCI">>)

RegimmRows ==
     High("BR1", \h0400, \h1, \h0000, <<"BLTZ", "BGEZ", "BLTZL", "BGEZL">>)
  \o High("RGI", \h0408, \h1, \h0000, <<"TGEI", "TGEIU", "TLTI", "TLTIU", "TEQI">>)
  \o Low("RGI", \h040E, \h0000, <<"TNEI">>) \o Low("BR1", \h0400, \h0000, <<"BLTZAL">>)
  \o Low("BR0", \h0411, \h0000, <<"BAL">>)
  \o High("BR1", \h0411, \h1, \h0000, <<"BGEZAL", "BLTZALL", "BGEZALL">>)
  \o Low("SYI", \h041F, \h0000, <<"SYNCI">>)

ImmediateRows ==
     High("JMP", \h0800, \h400, \h0000, <<"J", "JAL">>) \o Low("BRU", \h1000, \h0000, <<"B">>)
  \o High("BR2", \h1000, \h400, \h0000, <<"BEQ", "BNE">>)
  \o High("BR1", \h1800, \h400, \h0000, <<"BLEZ", "BGTZ">>)
  \o Low("IMM", \h2000, \h0000, <<"ADDI">>) \o Low("LI", \h2400, \h0000, <<"LI">>)
  \o High("IMM", \h2400, \h400, \h0000, <<"ADDIU", "SLTI">>)
  \o Low("NOP", \h2C00, \hABC1, <<"TEST_FAIL", "TEST_PASS">>)
  \o Low("NOP", \h2C00, \hAD02, <<"TRACE_ON", "TRACE_OFF">>)
  \o High("IMM", \h2C00, \h400, \h0000, <<"SLTIU", "ANDI", "ORI", "XORI">>)
  \o Low("LUI", \h3C00, \h0000, <<"LUI">>)

Cop0Rows ==
     High("MXC", \h4000, \h20, \h0000, <<"MFC0", "DMFC0">>)
  \o High("MXC", \h4080, \h20, \h0000, <<"MTC0", "DMTC0">>) \o Low("MFM", \h4160, \h6000, <<"DI">>)
  \o Low("MFM", \h4160, \h6020, <<"EI">>) \o Low("NOP", \h4200, \h0001, <<"TLBR", "TLBWI">>)
  \o Low("NOP", \h4200, \h0006, <<"TLBWR">>) \o Low("NOP", \h4200, \h0008, <<"TLBP">>)
  \o Low("NOP", \h4200, \h0018, <<"ERET">>) \o Low("NOP", \h4200, \h001F, <<"DERET", "WAIT">>)

MoveRows ==
     High("MVF", \h4400, \h20, \h0000, <<"MFC1", "DMFC1", "CFC1", "MFHC1", "MTC1", "DMTC1",
           "CTC1", "MTHC1">>)
  \o High("BCO", \h4500, \h1, \h0000, <<"BC1F", "BC1T", "BC1FL", "BC1TL">>)

SingleRows ==
     Low("FP3", \h4600, \h0000, <<"ADD.S", "SUB.S", "MUL.S", "DIV.S">>)
  \o Low("FP2", \h4600, \h0004, <<"SQRT.S", "ABS.S", "MOV.S", "NEG.S", "ROUND.L.S",
           "TRUNC.L.S", "CEIL.L.S", "FLOOR.L.S", "ROUND.W.S", "TRUNC.W.S", "CEIL.W.S",
           "FLOOR.W.S">>) \o High("MCF", \h4600, \h1, \h0011, <<"MOVF.S", "MOVT.S">>)
  \o Low("MFI", \h4600, \h0012, <<"MOVZ.S", "MOVN.S">>)
  \o Low("FP2", \h4600, \h0015, <<"RECIP.S", "RSQRT.S">>)
  \o Low("FP2", \h4600, \h0021, <<"CVT.D.S">>)
  \o Low("FP2", \h4600, \h0024, <<"CVT.W.S", "CVT.L.S">>)
  \o Low("FP3", \h4600, \h0026, <<"CVT.PS.S">>)
  \o Low("FCP", \h4600, \h0030, <<"C.F.S", "C.UN.S", "C.EQ.S", "C.UEQ.S", "C.OLT.S",
           "C.ULT.S", "C.OLE.S", "C.ULE.S", "C.SF.S", "C.NGLE.S", "C.SEQ.S", "C.NGL.S",
           "C.LT.S">>) \o Low("FCP", \h4620, \h003D, <<"C.NGE.S", "C.LE.S", "C.BGT.S">>)

DoubleRows ==
     Low("FP3", \h4620, \h0000, <<"ADD.D", "SUB.D", "MUL.D", "DIV.D">>)
  \o Low("FP2", \h4620, \h0004, <<"SQRT.D", "ABS.D", "MOV.D", "NEG.D", "ROUND.L.D",
           "TRUNC.L.D", "CEIL.L.D", "FLOOR.L.D", "ROUND.W.D", "TRUNC.W.D", "CEIL.W.D",
           "FLOOR.W.D">>) \o High("MCF", \h4620, \h1, \h0011, <<"MOVF.D", "MOVT.D">>)
  \o Low("MFI", \h4620, \h0012, <<"MOVZ.D", "MOVN.D">>)
  \o Low("FP2", \h4620, \h0015, <<"RECIP.D", "RSQRT.D">>)
  \o Low("FP2", \h4620, \h0020, <<"CVT.S.D">>)
  \o Low("FP2", \h4620, \h0024, <<"CVT.W.D", "CVT.L.D">>)
  \o Low("FCP", \h4620, \h0030, <<"C.F.D", "C.UN.D", "C.EQ.D", "C.UEQ.D", "C.OLT.D",
           "C.ULT.D", "C.OLE.D", "C.ULE.D", "C.DF.D", "C.NGLE.D", "C.DEQ.D", "C.NGL.D",
           "C.LT.D", "C.NGE.D", "C.LE.D", "C.BGT.D">>)
  \o Low("FP2", \h4680, \h0020, <<"CVT.S.W", "CVT.D.W">>)
  \o Low("FP2", \h46A0, \h0020, <<"CVT.S.L", "CVT.D.L">>)

PairedRows ==
     Low("FP3", \h46C0, \h0000, <<"ADD.PS", "SUB.PS", "MUL.PS">>)
  \o Low("FP2", \h46C0, \h0005, <<"ABS.PS", "MOV.PS", "NEG.PS">>)
  \o High("MCF", \h46C0, \h1, \h0011, <<"MOVF.PS", "MOVT.PS">>)
  \o Low("MFI", \h46C0, \h0012, <<"MOVZ.PS", "MOVN.PS">>)
  \o Low("FP2", \h46C0, \h0020, <<"CVT.S.PU">>) \o Low("FP2", \h46C0, \h0028, <<"CVT.S.PL">>)
  \o Low("FP3", \h46C0, \h002C, <<"PLL.PS", "PLU.PS", "PUL.PS", "PUU.PS">>)
  \o Low("FCP", \h46C0, \h0030, <<"C.F.PS", "C.UN.PS", "C.EQ.PS", "C.UEQ.PS", "C.OLT.PS",
           "C.ULT.PS", "C.OLE.PS", "C.ULE.PS", "C.DF.PS", "C.NGLE.PS", "C.DEQ.PS", "C.NGL.PS",
           "C.LT.PS", "C.NGE.PS", "C.LE.PS", "C.BGT.PS">>)

Cop1xRows ==
     Low("LFX", \h4C00, \h0000, <<"LWXC1", "LDXC1">>) \o Low("LFX", \h4C00, \h0005, <<"LUXC1">>)
  \o Low("SFX", \h4C00, \h0008, <<"SWXC1", "SDXC1">>) \o Low("SFX", \h4C00, \h000D, <<"SUXC1">>)
  \o Low("LFX", \h4C00, \h000F, <<"PREF">>) \o Low("ALNV", \h4C00, \h001E, <<"ALNV.PS">>)
  \o Low("MAC", \h4C00, \h0020, <<"MADD.S", "MADD.D">>) \o Low("MAC", \h4C00, \h0026, <<"MADD.PS">>)
  \o Low("MAC", \h4C00, \h0028, <<"MSUB.S", "MSUB.D">>) \o Low("MAC", \h4C00, \h002E, <<"MSUB.PS">>)
  \o Low("MAC", \h4C00, \h0030, <<"NMADD.S", "NMADD.D">>)
  \o Low("MAC", \h4C00, \h0036, <<"NMADD.PS">>)
  \o Low("MAC", \h4C00, \h0038, <<"NMSUB.S", "NMSUB.D">>)
  \o Low("MAC", \h4C00, \h003E, <<"NMSUB.PS">>)

LikelyRows ==
     High("BR2", \h5000, \h400, \h0000, <<"BEQL", "BNEL">>)
  \o High("BR1", \h5800, \h400, \h0000, <<"BLEZL", "BGTZL">>)
  \o High("IMM", \h6000, \h400, \h0000, <<"DADDI", "DADDIU">>)
  \o High("MRF", \h6800, \h400, \h0000, <<"LDL", "LDR">>)

Special23Rows ==
     Low("OR2", \h7000, \h0000, <<"MADD", "MADDU">>) \o Low("OP3", \h7000, \h0002, <<"MUL">>)
  \o Low("OR2", \h7000, \h0004, <<"MSUB", "MSUBU">>) \o Low("SP2", \h7000, \h0020, <<"CLZ", "CLO">>)
  \o Low("SP2", \h7000, \h0024, <<"DCLZ", "DCLO">>) \o Low("POP", \h7000, \h002C, <<"POP", "DPOP">>)
  \o Low("COD", \h7000, \h003F, <<"SDBBP">>)
  \o Low("FLD", \h7C00, \h0000, <<"EXT", "DEXTU", "DEXTM", "DEXT", "INS", "DINSU", "DINSM",
           "DINS">>) \o Low("OP2", \h7C00, \h0420, <<"SEB">>)
  \o Low("OP2", \h7C00, \h0620, <<"SEW">>) \o Low("OP2", \h7C00, \h003B, <<"RDHWR">>)
  \o Low("OP2", \h7C00, \h00A0, <<"WSBH">>) \o Low("OP2", \h7C00, \h00A4, <<"DSBH">>)
  \o Low("OP2", \h7C00, \h01A4, <<"DSHD">>)

MemoryRows ==
     High("MRF", \h8000, \h400, \h0000, <<"LB", "LH", "LWL", "LW", "LBU", "LHU", "LWR", "LWU",
           "SB", "SH", "SWL", "SW", "SDL", "SDR", "SWR", "CACHE", "LL", "LWC1", "LWC2", "PREF",
           "LLD", "LDC1", "LDC2", "LD", "SC", "SWC1", "SWC2">>)
  \o High("MRF", \hF000, \h400, \h0000, <<"SCD", "SDC1", "SDC2", "SD">>)

(* The table.  An R2 instruction stands before the one it varies, a common *)
(* use of an instruction before the instruction.                           *)
opc ==
  LET rows ==
        SpecialRows \o RegimmRows \o ImmediateRows \o Cop0Rows \o MoveRows \o SingleRows
          \o DoubleRows \o PairedRows \o Cop1xRows \o LikelyRows \o Special23Rows \o MemoryRows
      classes == Class
  IN [i \in DOMAIN rows |->
        LET c == classes[rows[i].class]
        IN [name |-> rows[i].name, val |-> rows[i].val, mask |-> c.mask,
            key |-> rows[i].val \cap c.mask, fields |-> c.fields]]
-----------------------------------------------------------------------------
(* Which instruction the CPU executes for a word: the switches of          *)
(* cpu_one_inst, op_cop0, op_cop1 and op_cop1x over the enumerations of    *)
(* sc1_defs.h, in the build for ICE9B without R2, paired singles and SCTX, *)
(* with every coprocessor and 64-bit operations enabled.                   *)
RSVI == "reserved"      \* TRAP_RSVI
None(n) == [i \in 1 .. n |-> RSVI]

(* The enumerations, from 0; a number without a name is reserved.          *)
opcodes == <<
  "SPECIAL", "REGIMM", "J", "JAL", "BEQ", "BNE", "BLEZ", "BGTZ",
  "ADDI", "ADDIU", "SLTI", "SLTIU", "ANDI", "ORI", "XORI", "LUI",
  "COP0", "COP1", "COP2", "COP1X", "BEQL", "BNEL", "BLEZL", "BGTZL",
  "DADDI", "DADDIU", "LDL", "LDR", "SPECIAL2", RSVI, RSVI, RSVI,
  "LB", "LH", "LWL", "LW", "LBU", "LHU", "LWR", "LWU",
  "SB", "SH", "SWL", "SW", "SDL", "SDR", "SWR", "CACHE",
  "LL", "LWC1", "LWC2", "PREF", "LLD", "LDC1", "LDC2", "LD",
  "SC", "SWC1", "SWC2", RSVI, "SCD", "SDC1", "SDC2", "SD">>

special == <<
  "SLL", "MOVCI", "SRL", "SRA", "SLLV", RSVI, "SRLV", "SRAV",
  "JR", "JALR", "MOVZ", "MOVN", "SYSCALL", "BREAK", RSVI, "SYNC",
  "MFHI", "MTHI", "MFLO", "MTLO", "DSLLV", RSVI, "DSRLV", "DSRAV",
  "MULT", "MULTU", "DIV", "DIVU", "DMULT", "DMULTU", "DDIV", "DDIVU",
  "ADD", "ADDU", "SUB", "SUBU", "AND", "OR", "XOR", "NOR",
  RSVI, RSVI, "SLT", "SLTU", "DADD", "DADDU", "DSUB", "DSUBU",
  "TGE", "TGEU", "TLT", "TLTU", "TEQ", RSVI, "TNE", RSVI,
  "DSLL", RSVI, "DSRL", "DSRA", "DSLL32", RSVI, "DSRL32", "DSRA32">>

regimm ==
  <<"BLTZ", "BGEZ", "BLTZL", "BGEZL">> \o None(4)
    \o <<"TGEI", "TGEIU", "TLTI", "TLTIU", "TEQI", RSVI, "TNEI", RSVI>>
    \o <<"BLTZAL", "BGEZAL", "BLTZALL", "BGEZALL">> \o None(12)

special2 ==
  <<"MADD", "MADDU", "MUL", RSVI, "MSUB", "MSUBU">> \o None(26)
    \o <<"CLZ", "CLO", RSVI, RSVI, "DCLZ", "DCLO">> \o None(25) \o <<"SDBBP">>

cp0 == <<"MFC0", "DMFC0", RSVI, RSVI, "MTC0", "DMTC0">> \o None(10)

cp0t ==
  <<RSVI, "TLBR", "TLBWI", RSVI, RSVI, RSVI, "TLBWR", RSVI, "TLBP">> \o None(15)
    \o <<"ERET">> \o None(6) \o <<"DERET", "WAIT">> \o None(31)

cp1 == <<"MFC1", "DMFC1", "CFC1", RSVI, "MTC1", "DMTC1", "CTC1", RSVI, "BC1">> \o None(7)

cp1x ==
  <<"LWXC1", "LDXC1", RSVI, RSVI, RSVI, "LUXC1", RSVI, RSVI,
    "SWXC1", "SDXC1", RSVI, RSVI, RSVI, "SUXC1", RSVI, "PREFX">> \o None(16)
    \o <<"MADD.S", "MADD.D">> \o None(6) \o <<"MSUB.S", "MSUB.D">> \o None(6)
    \o <<"NMADD.S", "NMADD.D">> \o None(6) \o <<"NMSUB.S", "NMSUB.D">> \o None(6)

fpop == <<
  "ADD", "SUB", "MUL", "DIV", "SQRT", "ABS", "MOV", "NEG",
  "ROUND.L", "TRUNC.L", "CEIL.L", "FLOOR.L", "ROUND.W", "TRUNC.W", "CEIL.W", "FLOOR.W",
  RSVI, "MOVCF", "MOVZ", "MOVN", RSVI, "RECIP", "RSQRT", RSVI>> \o None(8) \o <<
  "CVT.S", "CVT.D", RSVI, RSVI, "CVT.W", "CVT.L", RSVI, RSVI>> \o None(8) \o <<
  "C.F", "C.UN", "C.EQ", "C.UEQ", "C.OLT", "C.ULT", "C.OLE", "C.ULE",
  "C.SF", "C.NGLE", "C.SEQ", "C.NGL", "C.LT", "C.NGE", "C.LE", "C.NGT">>

formats == <<"S", "D", RSVI, RSVI, "W", "L", RSVI, RSVI>> \o None(8)

(* The functions of each format.                                           *)
fp_valid ==
  LET both == (0 .. 15) \cup {17, 18, 19, 21, 22, 36, 37} \cup (48 .. 63)
  IN [S |-> both \cup {33}, D |-> both \cup {32}, W |-> {32, 33}, L |-> {32, 33}]

op_cop1(w) ==
  LET fmt == formats[(Get(w, "RS") % 16) + 1]
      fnc == Get(w, "FNC")
  IN IF fmt # RSVI /\ fnc \in fp_valid[fmt] THEN fpop[fnc + 1] \o "." \o fmt ELSE RSVI

op_cop0(w) ==
  IF Get(w, "RS") >= 16 THEN cp0t[Get(w, "FNC") + 1] ELSE cp0[Get(w, "RS") + 1]

(* A branch on a condition tests and anticipates by the bits of rt.        *)
Branches == <<"BC1F", "BC1T", "BC1FL", "BC1TL">>

Decoded(w) ==
  LET op == opcodes[Get(w, "OP") + 1]
      fnc == Get(w, "FNC") + 1
      move == cp1[Get(w, "RS") + 1]
  IN CASE op = "SPECIAL"  -> special[fnc]
       [] op = "REGIMM"   -> regimm[Get(w, "RT") + 1]
       [] op = "SPECIAL2" -> special2[fnc]
       [] op = "COP0"     -> op_cop0(w)
       [] op = "COP1"     -> IF Get(w, "RS") >= 16 THEN op_cop1(w)
                             ELSE IF move = "BC1" THEN Branches[(Get(w, "RT") % 4) + 1] ELSE move
       [] op = "COP1X"    -> cp1x[fnc]
       [] OTHER -> op

(* The fields that choose the instruction, and rs of REGIMM: with rs = 0   *)
(* the console takes all of it for BAL.                                    *)
Selectors(w) ==
  LET op == opcodes[Get(w, "OP") + 1]
  IN CASE op \in {"SPECIAL", "SPECIAL2", "COP1X"} -> {"OP", "FNC"}
       [] op = "REGIMM" -> {"OP", "RS", "RT"}
       [] op = "COP0" -> IF Get(w, "CO") = 1 THEN {"OP", "CO", "FNC"} ELSE {"OP", "RS"}
       [] op = "COP1" -> IF Get(w, "RS") >= 16 THEN {"OP", "RS", "FNC"}
                                     ELSE IF Get(w, "RS") = 8 THEN {"OP", "RS", "RT"} ELSE {"OP", "RS"}
       [] OTHER -> {"OP"}

(* A word whose other fields are zero.                                     *)
Bare(w) == \A i \in w : \E f \in Selectors(w) : i \in Field[f][1] .. Field[f][1] + Field[f][2] - 1
=============================================================================
