------------------------------ MODULE Symbolic ------------------------------
(***************************************************************************)
(* What the console shows of a doubleword and how it enters one: the       *)
(* symbolic display and input of sc1_sys.c.                                *)
(*                                                                         *)
(* A doubleword is the set of its bits that are ones.  A text is the value *)
(* of its digits, the characters of a string, or the name and the fields   *)
(* of an instruction; digits are hexadecimal, but for registers, shift     *)
(* amounts, conditions and selects.  An address has AddrBits bits.         *)
(***************************************************************************)
EXTENDS InstrTable

CONSTANTS
  Rows,       \* opc, a constant so that TLC computes it once
  AddrBits    \* 64: the bits of an address, of which 28 are not J_REGION;
              \*   29 or 30 here, for TLC's integers

AddrSpan == 2 ^ AddrBits
RegionSpan == 2 ^ 28
Region(a) == a - (a % RegionSpan)

(* SEXT_DISP; below zero rather than with ones above.                      *)
Sext(v) == IF v >= 2 ^ 15 THEN v - (2 ^ 16) ELSE v

Jump(a, w) == Region(a) + (4 * Get(w, "JT"))
Branch(pc, w) == (pc + 4 + (4 * Sext(Get(w, "DISP")))) % AddrSpan

Matches(w, i) == w \cap Rows[i].mask = Rows[i].key

(* The row of a word, and of a name; 0 when there is none.                 *)
First(hits) == IF hits = {} THEN 0 ELSE Min(hits)
RowOf(w) == First({i \in DOMAIN Rows : Matches(w, i)})
RowNamed(name) == First({i \in DOMAIN Rows : Rows[i].name = name})

Token(kind, n, base) == [kind |-> kind, n |-> n, base |-> base]
NoneIf(test, kind, n) == IF test THEN <<>> ELSE <<Token(kind, n, 0)>>

(* Mutant of Shown: the condition code is shown with all bits of its field.*)
ShownWide(w, addr, f) ==
  LET v == Get(w, f[1])
  IN CASE f[2] = "RC"  -> NoneIf(v = 31, "reg", v)
       [] f[2] \in {"R", "FR"} -> NoneIf(FALSE, "reg", v)
       [] f[2] = "SA"  -> NoneIf(FALSE, "dec", v)
       [] f[2] = "CC"  -> NoneIf(v = 0, "dec", v)
       [] f[2] = "SEL" -> NoneIf(v % 8 = 0, "dec", v % 8)
       [] f[2] = "CODE" -> NoneIf(v = 0, "hex", v)
       [] f[2] = "IMM" -> NoneIf(FALSE, "hex", v)
       [] f[2] = "JA"  -> NoneIf(FALSE, "addr", Jump((addr + 4) % AddrSpan, w))
       [] f[2] = "BA"  -> NoneIf(FALSE, "addr", Branch(addr, w))
       [] f[2] = "MA"  -> <<Token("mem", Sext(v), Get(w, "RS"))>>
       [] f[2] = "XA"  -> <<Token("index", v, Get(w, "RT"))>>
       [] f[2] = "NOPARSE" -> <<>>

(* The text of a field.                                                    *)
Shown(w, addr, f) ==
  LET v == Get(w, f[1])
  IN CASE f[2] = "RC"  -> NoneIf(v = 31, "reg", v)
       [] f[2] \in {"R", "FR"} -> NoneIf(FALSE, "reg", v)
       [] f[2] = "SA"  -> NoneIf(FALSE, "dec", v)
       [] f[2] = "CC"  -> LET cc == (v \div 4) % 8 IN NoneIf(cc = 0, "dec", cc)
       [] f[2] = "SEL" -> NoneIf(v % 8 = 0, "dec", v % 8)
       [] f[2] = "CODE" -> NoneIf(v = 0, "hex", v)
       [] f[2] = "IMM" -> NoneIf(FALSE, "hex", v)
       [] f[2] = "JA"  -> NoneIf(FALSE, "addr", Jump((addr + 4) % AddrSpan, w))
       [] f[2] = "BA"  -> NoneIf(FALSE, "addr", Branch(addr, w))
       [] f[2] = "MA"  -> <<Token("mem", Sext(v), Get(w, "RS"))>>
       [] f[2] = "XA"  -> <<Token("index", v, Get(w, "RT"))>>
       [] f[2] = "NOPARSE" -> <<>>

Digits(bits) == [kind |-> "digits", bits |-> bits]

(* sprint_sym_m of a word that a row i matches.                            *)
sprint_sym_m(w, addr, i) ==
  [kind |-> "instruction", name |-> Rows[i].name,
   fields |-> FlattenSeq([k \in DOMAIN Rows[i].fields |-> Shown(w, addr, Rows[i].fields[k])])]

(* The part of a doubleword that an access of so many bytes at an address  *)
(* sees, and the doubleword with this part replaced.  What does not fit is *)
(* or-ed into the bits above.                                              *)
Lane(addr, size) == 8 * ((addr % 8) - (addr % size))
Part(d, addr, size) ==
  {i \in 0 .. (8 * size) - 1 : i + Lane(addr, size) \in d}
Replaced(d, addr, size, bits) ==
  (d \ (Lane(addr, size) .. Lane(addr, size) + (8 * size) - 1))
    \cup (Shifted(bits, Lane(addr, size)) \cap (0 .. 63))

(* A character below a blank is shown as its number between brackets.      *)
Digit(n) == IF n < 10 THEN 48 + n ELSE 55 + n
CharText(c) == IF c < 32 THEN <<60, Digit(c \div 16), Digit(c % 16), 62>> ELSE <<c>>
Char(d, addr) == Number(Part(d, addr, 1), 0, 7)
Chars(chars) == [kind |-> "chars", chars |-> chars]

(* The bytes that a text stands for: the examined address moves on by them.*)
Size(sw) == CASE sw \in {"A", "B"} -> 1 [] sw = "H" -> 2 [] sw \in {"W", "M"} -> 4
              [] sw \in {"C", "none"} -> 8

(* fprint_sym.                                                             *)
fprint_sym(d, addr, sw) ==
  LET w == Part(d, addr, 4)
      i == RowOf(w)
  IN CASE sw = "A" -> Chars(CharText(Char(d, addr)))
       [] sw = "C" -> Chars(FlattenSeq([k \in 1 .. 8 |-> CharText(Char(d, k - 1))]))
       [] sw = "M" /\ i # 0 -> sprint_sym_m(w, addr, i)
       [] OTHER -> Digits(Part(d, addr, Size(sw)))
-----------------------------------------------------------------------------
Refused == -1

Is(token, kinds, most) == token.kind \in kinds /\ token.n \in 0 .. most

(* parse_reg and get_uint of one field, parse_imm of the rest of the text, *)
(* which looks at no more than its number; the field's value.  XA reads    *)
(* where the text of its field has ended, and never finds a register.      *)
ParseField(format, token, addr) ==
  LET next == (addr + 4) % AddrSpan
      ahead(v) == (next + (4 * Sext(v))) % AddrSpan
      dist(from, to) == (((to - from) % AddrSpan) \div 4) % (2 ^ 16)
      ok == CASE format \in {"R", "FR", "RC"} -> Is(token, {"reg", "dec"}, 31)
              [] format = "SA"  -> Is(token, {"dec"}, 31)
              [] format \in {"CC", "SEL"} -> Is(token, {"dec"}, 7)
              [] format = "CODE" -> Is(token, {"hex"}, (2 ^ 20) - 1)
              [] format = "IMM" -> Is(token, {"hex"}, (2 ^ 16) - 1)
              [] format = "JA"  -> token.kind = "addr" /\ token.n % 4 = 0 /\ Region(token.n) = Region(next)
              [] format = "BA"  -> token.kind = "addr" /\ token.n % 4 = 0
                                     /\ token.n \in {ahead(dist(next, token.n)), ahead(dist(token.n, next))}
              [] format = "MA"  -> token.kind = "mem"
              [] format = "XA"  -> FALSE
  IN IF ~ok THEN Refused
     ELSE CASE format = "CC"   -> 4 * token.n
            [] format = "CODE" -> token.n * (2 ^ Field["SA"][1])
            [] format = "JA"   -> (token.n % RegionSpan) \div 4
            [] format = "BA"   -> IF token.n = ahead(dist(next, token.n))
                                  THEN dist(next, token.n) ELSE dist(token.n, next)
            [] format = "MA"   -> (token.n % (2 ^ 16)) + (token.base * (2 ^ Field["RS"][1]))
            [] OTHER -> token.n

(* A field's value in its place, in an int32 that is then made 64 bits.    *)
Placed(v, f) ==
  LET bits == Shifted(BitsOf(v, 30), Field[f][1]) \cap (0 .. 31)
  IN IF 31 \in bits THEN bits \cup (32 .. 63) ELSE bits

(* Without enough fields these take a value and no text.                   *)
Default == [RC |-> 31, CC |-> 0, SEL |-> 0, CODE |-> 0]
Whole == {"CODE", "IMM", "JA", "BA", "MA", "XA"}   \* these take the rest of the text

(* parse_sym_m: the bits of the instruction.  A field that is not parsed   *)
(* gets the value of the field before it.                                  *)
parse_sym_m(text, addr) ==
  LET i == RowNamed(text.name)
      wanted == Rows[i].fields
      short == Len(text.fields) < Len(wanted)
      Step(acc, f) ==
        LET absent == acc.rest = <<>>
            left == IF absent \/ f[2] \in Whole THEN <<>> ELSE Tail(acc.rest)
            value == IF absent \/ (f[2] \in Whole \ {"IMM"} /\ Len(acc.rest) > 1) THEN Refused
                     ELSE ParseField(f[2], Head(acc.rest), addr)
            with(v, rest) == [ok |-> acc.ok /\ v # Refused, rest |-> rest, v |-> v,
                              bits |-> acc.bits \cup IF v = Refused THEN {} ELSE Placed(v, f[1])]
        IN CASE f[2] = "NOPARSE" -> with(acc.v, acc.rest)
             [] short /\ f[2] \in DOMAIN Default -> with(Default[f[2]], acc.rest)
             [] OTHER -> with(value, left)
      end == FoldLeft(Step, [ok |-> TRUE, rest |-> text.fields, v |-> 0, bits |-> Rows[i].val], wanted)
  IN IF i = 0 THEN [ok |-> FALSE, bits |-> {}]
     ELSE [ok |-> end.ok /\ end.rest = <<>>, bits |-> end.bits]

(* parse_sym: whether the text is accepted, the doubleword it makes, and   *)
(* the bytes it stands for.  Without a format an instruction is tried      *)
(* before a number.                                                        *)
Entry(ok, d, size) == [ok |-> ok, d |-> d, size |-> size]

Typed(text, d, addr, size) ==
  IF text.kind = "digits" /\ text.bits \subseteq 0 .. (8 * size) - 1
  THEN Entry(TRUE, Replaced(d, addr, size, text.bits), size)
  ELSE Entry(FALSE, d, size)

parse_sym(text, d, addr, sw) ==
  LET code == parse_sym_m(text, addr)
      lane(k) == IF k \in DOMAIN text.chars THEN BitsOf(text.chars[k], 8) ELSE Part(d, k - 1, 1)
  IN CASE sw = "A" -> Entry(TRUE, Replaced(d, addr, 1, BitsOf(text.chars[1], 8)), 1)
       [] sw = "C" -> Entry(TRUE, UNION {Shifted(lane(k), 8 * (k - 1)) : k \in 1 .. 8}, 8)
       [] sw \in {"B", "H", "W"} -> Typed(text, d, addr, Size(sw))
       [] OTHER ->
            IF text.kind = "instruction" /\ addr % 4 = 0
            THEN Entry(code.ok, Replaced(d, addr, 4, code.bits), 4)
            ELSE Typed(text, d, addr, 8)
=============================================================================
