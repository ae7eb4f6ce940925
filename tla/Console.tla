------------------------------ MODULE Console ------------------------------
(***************************************************************************)
(* The operator at the console: examines a doubleword and deposits in it   *)
(* the text that was shown, lets the CPU execute instructions, traces them *)
(* and looks at their history (sc1_sys.c, sc1_cpu.c).                      *)
(***************************************************************************)
EXTENDS Symbolic

CONSTANTS
  HistMin,      \* HIST_MIN and HIST_MAX, the lengths of the history, positive
  HistMax,
  Code,         \* what is executed: records with the address pc and the word ir
  LogMax        \* bound: so many instructions are executed

VARIABLES
  page,         \* what is at the address: "ram", "device", "readonly", "uncached",
                \*   "nothing" (no device), "invalid" (no translation)
  d, addr, sw,  \* the doubleword, the address and the format that is asked for
  said,         \* the text shown, or that the last command was refused
  size,         \* the bytes it stands for
  phase,        \* "new", "shown", "entered"
  hist, hst_p, hst_lnt,  \* the history of the core
  evtHist,      \* EVT_HIST
  debug, simtrc,\* the device's dctrl and the core's debug, of TRAP_SIMTRC
  running,      \* sim_instr is
  trace,        \* the last line traced
  asked, lines, \* SHOW HISTORY=n, and its lines
  log           \* history: what was executed since the history was set or cleared

memory == <<page, d, addr, sw, said, size, phase>>
tracing == <<hist, hst_p, hst_lnt, evtHist, debug, simtrc, running, trace, asked, lines, log>>
-----------------------------------------------------------------------------
(* cpu_ex and cpu_dep, by way of SIMH's EXAMINE and DEPOSIT, which reads   *)
(* the doubleword before it parses.                                        *)
Readable == page \notin {"invalid", "nothing"}
Writable == page \in {"ram", "device"}

Examine ==
  /\ phase = "new" /\ Readable
  /\ said' = fprint_sym(d, addr, sw) /\ size' = Size(sw)
  /\ phase' = "shown"
  /\ UNCHANGED <<page, d, addr, sw>>

Deposit ==
  /\ phase = "shown"
  /\ LET e == parse_sym(said, d, addr, sw)
     IN IF e.ok /\ Writable THEN d' = e.d /\ size' = e.size
        ELSE size' = 0 /\ UNCHANGED d
  /\ phase' = "entered"
  /\ UNCHANGED <<page, addr, sw, said>>
-----------------------------------------------------------------------------
(* A register stands for its value.                                        *)
gpr(n) == <<"R", n>>
fpr(n) == <<"F", n>>

RegisterFields == {"RS", "RT", "RD", "SA"}

(* Mutant of trace_fetch_reg: the value of a return register is not taken. *)
trace_fetch_reg_NoReturn(fields, w) ==
  LET isReg(f) == f[2] \in {"R", "FR"} /\ f[1] \in RegisterFields
      regs == SelectSeq(fields, isReg)
  IN [k \in 1 .. 4 |->
        IF k \notin DOMAIN regs THEN <<"none", 0>>
        ELSE IF regs[k][2] = "FR" THEN fpr(Get(w, regs[k][1])) ELSE gpr(Get(w, regs[k][1]))]

(* trace_fetch_reg: the values of the registers, in the order of the       *)
(* fields of the instruction; the rest of the four are zero.               *)
trace_fetch_reg(fields, w) ==
  LET isReg(f) == f[2] \in {"R", "RC", "FR"} /\ f[1] \in RegisterFields
      regs == SelectSeq(fields, isReg)
  IN [k \in 1 .. 4 |->
        IF k \notin DOMAIN regs THEN <<"none", 0>>
        ELSE IF regs[k][2] = "FR" THEN fpr(Get(w, regs[k][1])) ELSE gpr(Get(w, regs[k][1]))]

Column(kind, of, is) == [kind |-> kind, of |-> of, is |-> is]

(* trace_fprint_one_inst: a column for each register with the next of the  *)
(* values, and the address of a jump, a branch or a reference.             *)
trace_fprint_one_inst(pc, w) ==
  LET i == RowOf(w)
      fields == IF i = 0 THEN <<>> ELSE Rows[i].fields
      reg == trace_fetch_reg(fields, w)
      Step(acc, f) ==
        CASE f[2] = "FR" -> [j |-> acc.j + 1, line |-> Append(acc.line, Column("reg", fpr(Get(w, f[1])), reg[acc.j]))]
          [] f[2] \in {"R", "RC"} ->
               [j |-> acc.j + 1, line |-> Append(acc.line, Column("reg", gpr(Get(w, f[1])), reg[acc.j]))]
          [] f[2] = "IMM" -> [acc EXCEPT !.line = Append(@, Column("imm", "", Sext(Get(w, "DISP"))))]
          [] f[2] = "JA" -> [acc EXCEPT !.line = Append(@, Column("ea", "", Jump(pc, w)))]
          [] f[2] = "BA" -> [acc EXCEPT !.line = Append(@, Column("ea", "", Branch(pc, w)))]
          [] f[2] = "MA" -> [acc EXCEPT !.line = Append(@, Column("mem", reg[2], Sext(Get(w, "DISP"))))]
          [] OTHER -> acc
  IN FoldLeft(Step, [j |-> 1, line |-> <<>>], fields).line

(* cpu_fprint_one_inst: what an operation has to show, by its opcode.      *)
H_OPR == {"RS", "RT", "RD"}
H_IMM == {"RS", "RT", "L16"}
H_BRA == {"RS", "RT", "BA"}
H_MRF == {"RS", "RT", "MA"}
h_fmt(w) ==
  LET op == Get(w, "OP")
  IN CASE op = 1 -> IF 19 \in w THEN {"RS", "L16"} ELSE {"RS", "BA"}
       [] op \in {2, 3} -> {"JA"}
       [] op \in (4 .. 7) \cup (20 .. 23) -> H_BRA
       [] op \in (8 .. 15) \cup {24, 25} -> H_IMM
       [] op \in {0, 28} \cup (16 .. 19) -> H_OPR
       [] op \in 29 .. 31 -> {}
       [] OTHER -> H_MRF

cpu_fprint_one_inst(pc, w, rs, rt, rd) ==
  LET fmt == h_fmt(w)
      has(x, columns) == IF x \in fmt THEN columns ELSE <<>>
  IN has("RS", <<Column("reg", gpr(Get(w, "RS")), rs)>>)
       \o has("RT", <<Column("reg", gpr(Get(w, "RT")), rt)>>)
       \o has("RD", <<Column("reg", gpr(Get(w, "RD")), rd)>>)
       \o has("L16", <<Column("imm", "", Sext(Get(w, "DISP")))>>)
       \o has("BA", <<Column("ea", "", Branch(pc, w))>>)
       \o has("JA", <<Column("ea", "", Jump(pc, w))>>)
       \o has("MA", <<Column("mem", rs, Sext(Get(w, "DISP")))>>)
-----------------------------------------------------------------------------
Empty == [pc |-> -1]
Fresh(n) == IF n = 0 THEN <<>> ELSE [i \in 0 .. n - 1 |-> Empty]
TraceOn == Halves(\h2C00, \hAD02)
TraceOff == Halves(\h2C00, \hAD03)

(* SET CPU HISTORY=n, or without a number to empty it.                     *)
SetHistory(n) ==
  /\ ~running /\ (n = 0 \/ n \in HistMin .. HistMax)
  /\ hst_p' = 0 /\ hst_lnt' = n
  /\ hist' = Fresh(n)
  /\ log' = <<>> /\ asked' = 0 /\ lines' = <<>>
  /\ UNCHANGED <<evtHist, debug, simtrc, running, trace>>

ClearHistory ==
  /\ ~running
  /\ hist' = Fresh(hst_lnt) /\ hst_p' = 0
  /\ log' = <<>> /\ asked' = 0 /\ lines' = <<>>
  /\ UNCHANGED <<hst_lnt, evtHist, debug, simtrc, running, trace>>

SetDebug ==
  /\ ~running
  /\ debug' = ~debug /\ asked' = 0 /\ lines' = <<>>
  /\ UNCHANGED <<hist, hst_p, hst_lnt, evtHist, simtrc, running, trace, log>>

(* sim_instr begins.                                                       *)
Start ==
  /\ ~running
  /\ running' = TRUE /\ simtrc' = debug
  /\ evtHist' = (hst_lnt > 0 \/ debug)
  /\ asked' = 0 /\ lines' = <<>>
  /\ UNCHANGED <<hist, hst_p, hst_lnt, debug, trace, log>>

Stop ==
  /\ running
  /\ running' = FALSE
  /\ UNCHANGED <<hist, hst_p, hst_lnt, evtHist, debug, simtrc, trace, asked, lines, log>>

NextEntry == IF hst_p + 1 >= hst_lnt THEN 0 ELSE hst_p + 1

(* One instruction: it is traced and recorded before it executes, even     *)
(* when it is nullified.                                                   *)
Execute(in) ==
  /\ running /\ Len(log) < LogMax
  /\ LET h == [pc |-> in.pc, ir |-> in.ir, rs |-> gpr(Get(in.ir, "RS")),
               rt |-> gpr(Get(in.ir, "RT")), rd |-> gpr(Get(in.ir, "RD"))]
     IN /\ trace' = IF evtHist /\ simtrc THEN trace_fprint_one_inst(in.pc, in.ir) ELSE <<>>
        /\ IF evtHist /\ hst_lnt > 0
           THEN hst_p' = NextEntry /\ hist' = [hist EXCEPT ![NextEntry] = h]
           ELSE UNCHANGED <<hist, hst_p>>
  /\ simtrc' = (in.ir = TraceOn \/ (simtrc /\ in.ir # TraceOff))
  /\ evtHist' = (evtHist \/ in.ir = TraceOn)
  /\ log' = Append(log, in)
  /\ UNCHANGED <<hst_lnt, debug, running, asked, lines>>

(* SHOW CPU HISTORY=n, in the order of execution; all of it without n.     *)
ShowHistory(n) ==
  /\ ~running /\ hst_lnt > 0 /\ n \in 1 .. hst_lnt /\ asked' = n
  /\ LET di == IF hst_p < n THEN hst_p - n + hst_lnt ELSE hst_p - n
         entry(k) == hist[(di + k) % hst_lnt]
         shown == SelectSeq([k \in 1 .. n |-> entry(k)], LAMBDA h : h # Empty)
     IN lines' = [k \in DOMAIN shown |->
                    <<[pc |-> shown[k].pc, ir |-> shown[k].ir],
                      cpu_fprint_one_inst(shown[k].pc, shown[k].ir, shown[k].rs, shown[k].rt, shown[k].rd)>>]
  /\ UNCHANGED <<hist, hst_p, hst_lnt, evtHist, debug, simtrc, running, trace, log>>
-----------------------------------------------------------------------------
(* Where parse_sym does not bring back what fprint_sym shows: an indexed   *)
(* reference and every PREF, which stands first in the table as one; BAL,  *)
(* shown for every word of REGIMM with rs = 0 and another rt; a code,      *)
(* which is shifted into its place twice.                                  *)
NotEntered(w) ==
  \/ said.name \in {"LWXC1", "LDXC1", "LUXC1", "SWXC1", "SDXC1", "SUXC1", "PREF"}
  \/ said.name = "BAL" /\ Get(w, "RT") # 17
  \/ said.name \in {"SYSCALL", "BREAK", "SYNC", "SDBBP"} /\ said.fields # <<>>

Printable(c) == c \in 32 .. 126

(* The text that is shown of a byte, a halfword, a word, a doubleword or a *)
(* printable string is the one that enters it: the deposit leaves the      *)
(* doubleword as it was.  The text of an instruction enters one that shows *)
(* the same and executes the same, and leaves the other word alone; and    *)
(* display and input move on by as many bytes.  (fprint_sym and parse_sym, *)
(* two routines over one table.)                                           *)
DepositRestores ==
  [][phase = "shown" /\ phase' = "entered" /\ page = "ram" =>
       LET w == Part(d, addr, 4)
       IN CASE sw \in {"B", "H", "W", "none"} -> d' = d /\ size' = size
            [] sw = "A" -> Printable(Number(Part(d, addr, 1), 0, 8)) => d' = d /\ size' = size
            [] sw = "C" -> (\A k \in 0 .. 7 : Printable(Number(Part(d, k, 1), 0, 8)))
                             => d' = d /\ size' = size
            [] sw = "M" -> said.kind = "instruction" /\ addr % 4 = 0 /\ ~NotEntered(w) =>
                             /\ size' = size
                             /\ Part(d', addr + 4, 4) = Part(d, addr + 4, 4)
                             /\ fprint_sym(d', addr, "M") = said
                             /\ Decoded(Part(d', addr, 4)) = Decoded(w)
    ]_memory

(* Names for one use of an instruction.                                    *)
Uses == [
  SLL |-> {"NOP", "SSNOP", "EHB"}, MOVCI |-> {"MOVF", "MOVT"}, OR |-> {"MOVE"}, BEQ |-> {"B"},
  BGEZAL |-> {"BAL"}, ADDIU |-> {"LI"},
  SLTIU |-> {"TEST_FAIL", "TEST_PASS", "TRACE_ON", "TRACE_OFF"}, PREFX |-> {"PREF"}]
OtherNames == {<<"MOVCF.S", "MOVF.S">>, <<"MOVCF.S", "MOVT.S">>, <<"MOVCF.D", "MOVF.D">>, <<"MOVCF.D", "MOVT.D">>,
               <<"C.SF.D", "C.DF.D">>, <<"C.SEQ.D", "C.DEQ.D">>, <<"C.NGT.D", "C.BGT.D">>}
SameName(op, name) ==
  op = name \/ (op \in DOMAIN Uses /\ name \in Uses[op]) \/ <<op, name>> \in OtherNames

(* The names the code gets wrong: instructions of R2 that this build       *)
(* executes as the ones they vary; BAL for others that link; compares of   *)
(* singles whose values are those of doubles.                              *)
Misnamed(w) ==
  \/ said.name \in {"ROTR", "ROTRV", "DROTR", "DROTRV", "DROTR32"}
  \/ said.name = "BAL" /\ Get(w, "RT") # 17
  \/ said.name \in {"C.NGE.S", "C.LE.S", "C.BGT.S"}

(* What the table calls a word is what the CPU does with it, if it does    *)
(* not trap; and every instruction it executes has a name, at least when   *)
(* its other fields are zero, but those of coprocessor 2, three compares   *)
(* and BLTZAL, whose row repeats the value of BLTZ.  (opc against the      *)
(* switches of the CPU.)                                                   *)
NamesDecode ==
  phase = "shown" /\ sw = "M" /\ addr % 4 = 0 =>
    LET w == Part(d, addr, 4)
    IN IF said.kind = "instruction"
       THEN Misnamed(w) \/ Decoded(w) = RSVI \/ SameName(Decoded(w), said.name)
       ELSE Bare(w) => Decoded(w) \in {RSVI, "COP2", "C.NGE.S", "C.LE.S", "C.NGT.S", "BLTZAL"}

Truthful(line) == \A k \in DOMAIN line : line[k].kind = "reg" => line[k].of = line[k].is

(* The last word of a region jumps in the next one; the trace shows the    *)
(* jump in its own.                                                        *)
AtEnd(pc) == Region(pc) # Region(pc + 4)
SameTarget(text, line, pc) ==
  \A k \in DOMAIN line : line[k].kind = "ea" =>
    AtEnd(pc) \/ (\E f \in DOMAIN text.fields : text.fields[f] = Token("addr", line[k].is, 0))

(* The address of a reference is its base register and its displacement,   *)
(* and an immediate is the one of the text, signed.  The trace leaves the  *)
(* base out (reg[1] at sc1_sys.c:1427 was never fetched): of its addresses *)
(* only the displacement is right.                                         *)
SameDisplacement(text, line) ==
  \A k \in DOMAIN line : line[k].kind = "mem" =>
    \E f \in DOMAIN text.fields : text.fields[f].kind = "mem" /\ text.fields[f].n = line[k].is

SameImmediate(text, line) ==
  \A k \in DOMAIN line, f \in DOMAIN text.fields :
    line[k].kind = "imm" /\ text.fields[f].kind = "hex" => line[k].is % (2 ^ 16) = text.fields[f].n

Based(line, w) == \A k \in DOMAIN line : line[k].kind = "mem" => line[k].of = gpr(Get(w, "RS"))

Agrees(text, line, pc) ==
  Truthful(line) /\ SameTarget(text, line, pc) /\ SameDisplacement(text, line) /\ SameImmediate(text, line)

(* How many entries SHOW HISTORY=n has to show.                            *)
Shows(n) == IF n < Len(log) THEN n ELSE Len(log)

(* The lines of an instruction are true: every register stands next to its *)
(* own value, although values and names are gathered in two passes;        *)
(* targets, displacements and immediates are those of its text; and an     *)
(* address in the history is counted from its base register, also after    *)
(* the ring has wrapped.  SHOW HISTORY=n shows the last n instructions     *)
(* executed, oldest first, which sc1_doc.txt:145 says otherwise: see       *)
(* FirstShown.                                                             *)
LinesTrue ==
  /\ phase = "shown" /\ sw = "M" /\ addr % 4 = 0 /\ said.kind = "instruction" =>
       LET w == Part(d, addr, 4)
           recorded == cpu_fprint_one_inst(addr, w, gpr(Get(w, "RS")), gpr(Get(w, "RT")), gpr(Get(w, "RD")))
       IN /\ Agrees(said, trace_fprint_one_inst(addr, w), addr)
          /\ Agrees(said, recorded, addr) /\ Based(recorded, w)
  /\ Truthful(trace)
  /\ asked > 0 =>
       /\ Len(lines) = Shows(asked)
       /\ \A k \in DOMAIN lines :
            /\ lines[k][1] = log[Len(log) - Shows(asked) + k]
            /\ Truthful(lines[k][2]) /\ Based(lines[k][2], lines[k][1].ir)

(* SHOW CPUn HISTORY=m prints the first m entries of the history           *)
(* (sc1_doc.txt:145): of the instructions it retains, the oldest m.  The   *)
(* code starts m entries before the newest (sc1_cpu.c:2907), so it does    *)
(* not hold.                                                               *)
FirstShown ==
  asked > 0 =>
    LET retained == IF hst_lnt < Len(log) THEN hst_lnt ELSE Len(log)
    IN \A k \in DOMAIN lines : lines[k][1] = log[Len(log) - retained + k]
=============================================================================
