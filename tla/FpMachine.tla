----------------------------- MODULE FpMachine ------------------------------
(***************************************************************************)
(* What a floating point unit promises: a number is an exact ratio times a *)
(* power of two, an operation computes the exact result, and only then is  *)
(* it rounded to the format, in the current mode.  An instruction raises   *)
(* exceptions in stages, its operands' first; the first stage with an      *)
(* enabled exception stops it, and it stores nothing.                      *)
(***************************************************************************)
EXTENDS Integers, Sequences
CONSTANTS SExp, SFrac, DExp, DFrac, ExpLim
VARIABLES narrow,          \* 64-bit operations are not enabled
          pairs,           \* doubles are held in pairs of single registers
          file,            \* singles, or doubles, as bits
          ctl,             \* modes, enables, causes, flags, conditions
          ran,             \* the instruction just executed
          raised           \* the trap it raised
fvars == <<narrow, pairs, file, ctl, ran, raised>>

Pow(n) == 2^n
EB(fmt) == IF fmt = "D" THEN DExp ELSE SExp
FB(fmt) == IF fmt = "D" THEN DFrac ELSE SFrac
Bias(fmt) == Pow(EB(fmt) - 1) - 1
Size(fmt) == IF fmt \in {"D", "L"} THEN 1 + DExp + DFrac ELSE 1 + SExp + SFrac
Top(fmt) == Pow(EB(fmt)) - 1
SignOf(fmt, v) == v \div Pow(Size(fmt) - 1)
ExpOf(fmt, v) == (v \div Pow(FB(fmt))) % Pow(EB(fmt))
FracOf(fmt, v) == v % Pow(FB(fmt))
Bits(fmt, s, e, f) == s * Pow(Size(fmt) - 1) + e * Pow(FB(fmt)) + f
Inf(fmt, s) == Bits(fmt, s, Top(fmt), 0)
Zero(fmt, s) == Bits(fmt, s, 0, 0)
Largest(fmt, s) == Inf(fmt, s) - 1
Least(fmt, s) == Bits(fmt, s, 1, 0)
QuietBit(fmt) == Pow(FB(fmt) - 1)                 \* set in a signalling NaN
DefaultNan(fmt) == Bits(fmt, 0, Top(fmt), QuietBit(fmt) - 1)
(* A number: a NaN or an infinity, or the value +-m * 2^x.                 *)
Number(fmt, v) ==
  LET e == ExpOf(fmt, v)
      f == FracOf(fmt, v)
  IN  [s |-> SignOf(fmt, v),
       k |-> IF e # Top(fmt) THEN "real" ELSE IF f = 0 THEN "inf" ELSE "nan",
       m |-> IF e = 0 THEN f ELSE Pow(FB(fmt)) + f,
       x |-> (IF e = 0 THEN 1 ELSE e) - Bias(fmt) - FB(fmt)]
IsReal(a) == a.k = "real"
IsZero(a) == a.k = "real" /\ a.m = 0
Real(s, m, x) == [s |-> s, k |-> "real", m |-> m, x |-> x]
(* A signalling NaN made quiet, in a format of its own.                    *)
Quieted(fmt, v, to) ==
  LET f == FracOf(fmt, v) % QuietBit(fmt)
  IN  Bits(to, SignOf(fmt, v), Top(to),
           IF FB(to) >= FB(fmt) THEN f * Pow(FB(to) - FB(fmt)) ELSE f \div Pow(FB(fmt) - FB(to)))

-----------------------------------------------------------------------------
(* The ratio n/d * 2^x, rounded in mode rm to p bits: m * 2^(e - p + 1).   *)
Length(n) == CHOOSE k \in 0 .. 30 : n < Pow(k) /\ (k = 0 \/ n >= Pow(k - 1))
Shift(n, k) == IF k >= 0 THEN n * Pow(k) ELSE n
RoundTo(rm, s, n, d, x, p) ==
  LET guess == Length(n) - Length(d)
      e == IF Shift(n, -guess) >= Shift(d, guess) THEN guess ELSE guess - 1
      num == Shift(n, p - 1 - e)
      den == Shift(d, e + 1 - p)
      m == num \div den
      rest == num % den
      up == CASE rm = "RN" -> 2 * rest > den \/ (2 * rest = den /\ m % 2 = 1)
              [] rm = "RZ" -> FALSE
              [] rm = "RP" -> rest # 0 /\ s = 0
              [] rm = "RM" -> rest # 0 /\ s = 1
      m1 == IF up THEN m + 1 ELSE m
  IN  [m |-> IF m1 = Pow(p) THEN Pow(p - 1) ELSE m1,
       e |-> x + IF m1 = Pow(p) THEN e + 1 ELSE e,
       inexact |-> rest # 0]
Outward(rm, s) == <<rm, s>> \in {<<"RP", 0>>, <<"RM", 1>>}
(* A result: the exceptions it raises and the bits it delivers.            *)
Result(exc, v) == [exc |-> exc, v |-> v]
Deliver(fmt, s, n, d, x) ==
  LET r == RoundTo(ctl.rm, s, n, d, x, FB(fmt) + 1)
      tiny == r.e < 1 - Bias(fmt)
      huge == r.e > Bias(fmt)
  IN  CASE huge -> Result({"OVF", "INE"}, IF ctl.rm = "RN" \/ Outward(ctl.rm, s)
                                          THEN Inf(fmt, s) ELSE Largest(fmt, s))
        [] tiny /\ ~ctl.fs /\ ~ctl.fn -> Result({"UNI"}, 0)
        [] tiny /\ (ctl.fs \/ ctl.fn) ->
             Result({"UNF", "INE"},
                    IF Outward(ctl.rm, s) \/ (ctl.fn /\ ctl.rm = "RN" /\ r.e = -Bias(fmt))
                    THEN Least(fmt, s) ELSE Zero(fmt, s))
        [] ~huge /\ ~tiny -> Result(IF r.inexact THEN {"INE"} ELSE {},
                                    Bits(fmt, s, r.e + Bias(fmt), r.m - Pow(FB(fmt))))

-----------------------------------------------------------------------------
(* The exact operations.  va, vb are the bits of a, b, for NaNs.           *)
NanOf(fmt, a, va, vb) == Result({}, Quieted(fmt, IF a.k = "nan" THEN va ELSE vb, fmt))
Invalid(fmt) == Result({"INV"}, DefaultNan(fmt))
RealSum(fmt, a, b) ==
  LET x == IF a.x < b.x THEN a.x ELSE b.x
      Term(n) == (IF n.s = 1 THEN -1 ELSE 1) * n.m * Pow(n.x - x)
      sum == Term(a) + Term(b)
      s == IF sum < 0 THEN 1 ELSE 0
  IN  IF sum # 0 THEN Deliver(fmt, s, IF sum < 0 THEN -sum ELSE sum, 1, x)
      ELSE Result({}, Zero(fmt, IF IsZero(a) /\ IsZero(b) /\ a.s = b.s THEN a.s
                                ELSE IF ctl.rm = "RM" THEN 1 ELSE 0))
Sum(fmt, a, b, va, vb) ==
  CASE "nan" \in {a.k, b.k} -> NanOf(fmt, a, va, vb)
    [] "nan" \notin {a.k, b.k} /\ "inf" \in {a.k, b.k} ->
         IF a.k = b.k /\ a.s # b.s THEN Invalid(fmt)
         ELSE Result({}, Inf(fmt, IF a.k = "inf" THEN a.s ELSE b.s))
    [] IsReal(a) /\ IsReal(b) -> RealSum(fmt, a, b)
SignXor(a, b) == IF a.s = b.s THEN 0 ELSE 1
Product(fmt, a, b, va, vb) ==
  CASE "nan" \in {a.k, b.k} -> NanOf(fmt, a, va, vb)
    [] "nan" \notin {a.k, b.k} /\ "inf" \in {a.k, b.k} ->
         IF IsZero(a) \/ IsZero(b) THEN Invalid(fmt) ELSE Result({}, Inf(fmt, SignXor(a, b)))
    [] IsReal(a) /\ IsReal(b) ->
         IF IsZero(a) \/ IsZero(b) THEN Result({}, Zero(fmt, SignXor(a, b)))
         ELSE Deliver(fmt, SignXor(a, b), a.m * b.m, 1, a.x + b.x)
Ratio(fmt, a, b, va, vb) ==
  CASE "nan" \in {a.k, b.k} -> NanOf(fmt, a, va, vb)
    [] "nan" \notin {a.k, b.k} /\ "inf" \in {a.k, b.k} ->
         IF a.k = b.k THEN Invalid(fmt)
         ELSE Result({}, IF a.k = "inf" THEN Inf(fmt, SignXor(a, b)) ELSE Zero(fmt, SignXor(a, b)))
    [] IsReal(a) /\ IsReal(b) ->
         CASE IsZero(a) /\ IsZero(b) -> Invalid(fmt)
           [] ~IsZero(a) /\ IsZero(b) -> Result({"DZE"}, Inf(fmt, SignXor(a, b)))
           [] IsZero(a) /\ ~IsZero(b) -> Result({}, Zero(fmt, SignXor(a, b)))
           [] ~IsZero(a) /\ ~IsZero(b) -> Deliver(fmt, SignXor(a, b), a.m, b.m, a.x - b.x)
(* The square root of n, a bit below its last for what is cut off.         *)
RootOf(n) == CHOOSE z \in 0 .. Pow((Length(n) + 1) \div 2) : z * z <= n /\ (z + 1) * (z + 1) > n
Halved(n) == LET z == RootOf(n) IN 2 * z + IF z * z = n THEN 0 ELSE 1
EvenExp(a) == IF a.x % 2 = 0 THEN a ELSE [a EXCEPT !.m = 2 * @, !.x = @ - 1]
SquareRoot(fmt, a, va) ==
  CASE a.k = "nan" -> NanOf(fmt, a, va, va)
    [] IsZero(a) \/ (a.k = "inf" /\ a.s = 0) -> Result({}, va)
    [] a.k # "nan" /\ ~IsZero(a) /\ a.s = 1 -> Invalid(fmt)
    [] IsReal(a) /\ ~IsZero(a) /\ a.s = 0 ->
         LET b == EvenExp(a)
             t == FB(fmt) + 2
         IN  Deliver(fmt, 0, Halved(b.m * Pow(2 * (t - FB(fmt) \div 2))), 1,
                     b.x \div 2 - (t - FB(fmt) \div 2) - 1)

-----------------------------------------------------------------------------
(* The operand of an instruction: denormals are flushed, or refused.       *)
Denormal(fmt, v) == ExpOf(fmt, v) = 0 /\ FracOf(fmt, v) # 0
Signalling(fmt, v) == ExpOf(fmt, v) = Top(fmt) /\ FracOf(fmt, v) >= QuietBit(fmt)
OperandExc(fmt, v, keep) ==
  CASE Denormal(fmt, v) -> IF ctl.fs THEN {"INE"} ELSE IF keep THEN {} ELSE {"UNI"}
    [] Signalling(fmt, v) -> {"INV"}
    [] OTHER -> {}
Operand(fmt, v) == IF Denormal(fmt, v) /\ ctl.fs THEN Zero(fmt, SignOf(fmt, v)) ELSE v

Fetch(fmt, k) ==
  IF fmt \in {"D", "L"} THEN IF pairs THEN file[k + 1] * Pow(Size("S")) + file[k] ELSE file[k]
  ELSE file[k] % Pow(Size("S"))
Store(fmt, k, v) ==
  IF pairs /\ fmt \in {"D", "L"}
  THEN [file EXCEPT ![k] = v % Pow(Size("S")), ![k + 1] = v \div Pow(Size("S"))]
  ELSE [file EXCEPT ![k] = v]

Halts(exc, c) == exc \cap (c.enb \cup {"UNI"}) # {}
Union(stages) == UNION {stages[k] : k \in 1 .. Len(stages)}
(* The stages an instruction goes through, its traps and its result.       *)
Reached(stages) ==
  LET stop == {k \in 1 .. Len(stages) : Halts(stages[k], ctl)}
  IN  IF stop = {} THEN Len(stages) ELSE CHOOSE k \in stop : \A j \in stop : k <= j
Completes(i, fmt, stages, v) ==
  LET n == Reached(stages)
      halts == Halts(stages[n], ctl)
      passed == SubSeq(stages, 1, IF halts THEN n - 1 ELSE n)
  IN  /\ ctl' = [ctl EXCEPT !.cause = Union(SubSeq(stages, 1, n)),
                            !.flags = @ \cup (Union(passed) \ {"UNI"})]
      /\ raised' = IF halts THEN "FPE" ELSE "none"
      /\ file' = IF halts THEN file ELSE Store(fmt, i.fd, v)

VA(i) == Operand(i.fmt, Fetch(i.fmt, i.fs))
VB(i) == Operand(i.fmt, Fetch(i.fmt, i.ft))
NA(i) == Number(i.fmt, VA(i))
NB(i) == Number(i.fmt, VB(i))
ExcA(i) == OperandExc(i.fmt, Fetch(i.fmt, i.fs), FALSE)
ExcB(i) == OperandExc(i.fmt, Fetch(i.fmt, i.ft), FALSE)
Neg(a) == [a EXCEPT !.s = 1 - @]
Flip(fmt, v) == (v + Pow(Size(fmt) - 1)) % Pow(Size(fmt))
One(fmt) == Bits(fmt, 0, Bias(fmt), 0)
Unary(i, r) == Completes(i, i.fmt, <<ExcA(i), r.exc>>, r.v)
Binary(i, r) == Completes(i, i.fmt, <<ExcA(i), ExcB(i), r.exc>>, r.v)

Arithmetic(i) ==
  \/ i.op = "ADD" /\ Binary(i, Sum(i.fmt, NA(i), NB(i), VA(i), VB(i)))
  \/ i.op = "SUB" /\ Binary(i, Sum(i.fmt, NA(i), Neg(NB(i)), VA(i), VB(i)))
  \/ i.op = "MUL" /\ Binary(i, Product(i.fmt, NA(i), NB(i), VA(i), VB(i)))
  \/ i.op = "DIV" /\ Binary(i, Ratio(i.fmt, NA(i), NB(i), VA(i), VB(i)))
  \/ i.op = "RECIP" /\ Unary(i, Ratio(i.fmt, Number(i.fmt, One(i.fmt)), NA(i), One(i.fmt), VA(i)))
  \/ i.op = "SQRT" /\ Unary(i, SquareRoot(i.fmt, NA(i), VA(i)))
  \/ /\ i.op \in {"ABS", "NEG"}
     /\ Completes(i, i.fmt, <<OperandExc(i.fmt, Fetch(i.fmt, i.fs), TRUE)>>,
          CASE NA(i).k = "nan" -> Quieted(i.fmt, VA(i), i.fmt)
            [] i.op = "ABS" /\ NA(i).k # "nan" -> VA(i) % Pow(Size(i.fmt) - 1)
            [] i.op = "NEG" /\ NA(i).k # "nan" -> Flip(i.fmt, VA(i)))

(* RSQRT is not rounded once: its result may be that of another mode.      *)
InverseRoot(m) ==                              \* of m * 2^(-2k), scaled by 2^k
  LET k == (Length(m) + 1) \div 2 + DFrac + 2
      z == RootOf(Pow(2 * k) \div m)
  IN  [n |-> 2 * z + IF z * z * m = Pow(2 * k) THEN 0 ELSE 1, x |-> -k - 1]
EstimateOf(fmt, a, va) ==
  CASE a.k = "nan" -> {NanOf(fmt, a, va, va)}
    [] IsZero(a) -> {Result({"DZE"}, Inf(fmt, a.s))}
    [] a.k # "nan" /\ ~IsZero(a) /\ a.s = 1 -> {Invalid(fmt)}
    [] a.k = "inf" /\ a.s = 0 -> {Result({}, Zero(fmt, 0))}
    [] IsReal(a) /\ ~IsZero(a) /\ a.s = 0 ->
         LET b == EvenExp(a)
             q == InverseRoot(b.m)
             r == Deliver(fmt, 0, q.n, 1, q.x - b.x \div 2)
         IN  {Result(r.exc, v) : v \in {r.v - 1, r.v, r.v + 1}}
Estimate(i) == /\ i.op = "RSQRT"
               /\ \E r \in EstimateOf(i.fmt, NA(i), VA(i)) : Unary(i, r)

(* Multiply, round to the format's precision with any exponent, add fr.    *)
MultiplyAdd(i) ==
  LET a == NA(i)  b == NB(i)
      vc == Operand(i.fmt, Fetch(i.fmt, i.fr))
      c == Number(i.fmt, vc)
      addend == IF i.op \in {"MSUB", "NMSUB"} THEN Neg(c) ELSE c
      special == {a.k, b.k} # {"real"} \/ IsZero(a) \/ IsZero(b)
      r == RoundTo(ctl.rm, SignXor(a, b), a.m * b.m, 1, a.x + b.x, FB(i.fmt) + 1)
      p == Product(i.fmt, a, b, VA(i), VB(i))
      n == IF special THEN Number(i.fmt, p.v) ELSE Real(SignXor(a, b), r.m, r.e - FB(i.fmt))
      first == IF special THEN p.exc
               ELSE IF r.e < 1 - Bias(i.fmt) /\ ~ctl.fo /\ i.fmt = "D" THEN {"UNI"}
               ELSE IF r.inexact THEN {"INE"} ELSE {}
      sum == Sum(i.fmt, n, addend, p.v,
                 IF i.op \in {"MSUB", "NMSUB"} THEN Flip(i.fmt, vc) ELSE vc)
  IN  /\ i.op \in {"MADD", "MSUB", "NMADD", "NMSUB"}
      /\ Completes(i, i.fmt,
           <<ExcA(i), ExcB(i), first, OperandExc(i.fmt, Fetch(i.fmt, i.fr), FALSE), sum.exc>>,
           IF i.op \in {"NMADD", "NMSUB"} THEN Flip(i.fmt, sum.v) ELSE sum.v)

(* Which of "UN", "LT", "EQ" and "GT" holds.                               *)
Relation(a, b) ==
  LET x == IF a.x < b.x THEN a.x ELSE b.x
      Value(n) == (IF n.s = 1 THEN -1 ELSE 1) * n.m * Pow(n.x - x)
      Rank(n) == IF n.k = "real" THEN 0 ELSE IF n.s = 1 THEN -1 ELSE 1
  IN  CASE "nan" \in {a.k, b.k} -> "UN"
        [] "nan" \notin {a.k, b.k} /\ "inf" \in {a.k, b.k} ->
             IF Rank(a) = Rank(b) THEN "EQ" ELSE IF Rank(a) < Rank(b) THEN "LT" ELSE "GT"
        [] IsReal(a) /\ IsReal(b) ->
             IF Value(a) = Value(b) THEN "EQ" ELSE IF Value(a) < Value(b) THEN "LT" ELSE "GT"
Compare(i) ==
  LET rel == Relation(NA(i), NB(i))
      stages == <<OperandExc(i.fmt, Fetch(i.fmt, i.fs), TRUE),
                  OperandExc(i.fmt, Fetch(i.fmt, i.ft), TRUE),
                  IF rel = "UN" /\ "TQNAN" \in i.cond THEN {"INV"} ELSE {}>>
      n == Reached(stages)
      cause == Union(SubSeq(stages, 1, n))
  IN  /\ i.op = "C" /\ file' = file
      /\ raised' = IF Halts(stages[n], ctl) THEN "FPE" ELSE "none"
      /\ ctl' = IF Halts(stages[n], ctl) THEN [ctl EXCEPT !.cause = cause]
                ELSE [ctl EXCEPT !.cause = cause, !.flags = @ \cup cause,
                        !.cc = IF rel \in i.cond THEN @ \cup {i.cc} ELSE @ \ {i.cc}]

-----------------------------------------------------------------------------
(* Conversions.  The unit leaves integers of more bits than it holds, and  *)
(* numbers too large, to software.                                         *)
Signed(fmt, v) == IF v >= Pow(Size(fmt) - 1) THEN v - Pow(Size(fmt)) ELSE v
Convertible(fmt) == IF fmt = "D" THEN Pow(DFrac - 1) ELSE Pow(SFrac)
ToFloat(i) ==
  LET to == IF i.op = "CVT.D" THEN "D" ELSE "S"
      v == Signed(i.fmt, Fetch(i.fmt, i.fs))
      r == CASE v = 0 -> Result({}, Zero(to, 0))
             [] v # 0 /\ v \notin -Convertible(to) .. Convertible(to) - 1 -> Result({"UNI"}, 0)
             [] OTHER -> Deliver(to, IF v < 0 THEN 1 ELSE 0, IF v < 0 THEN -v ELSE v, 1, 0)
  IN  /\ i.op \in {"CVT.S", "CVT.D"} /\ i.fmt \in {"W", "L"}
      /\ Completes(i, to, <<r.exc>>, r.v)
Between(i) ==
  LET to == IF i.op = "CVT.D" THEN "D" ELSE "S"
      a == NA(i)
      r == CASE a.k = "nan" -> Result({}, Quieted(i.fmt, VA(i), to))
             [] a.k = "inf" -> Result({}, Inf(to, a.s))
             [] IsReal(a) -> IF IsZero(a) THEN Result({}, Zero(to, a.s)) ELSE Deliver(to, a.s, a.m, 1, a.x)
  IN  /\ \/ i.op = "CVT.D" /\ i.fmt = "S"
         \/ i.op = "CVT.S" /\ i.fmt = "D"
      /\ Completes(i, to, <<ExcA(i), r.exc>>, r.v)
(* The integer a real rounds to.                                           *)
Nearest(rm, a) ==
  LET whole == IF a.x >= 0 THEN a.m * Pow(a.x) ELSE a.m \div Pow(-a.x)
      rest == IF a.x >= 0 THEN 0 ELSE a.m % Pow(-a.x)
      half == Pow(-a.x - 1)
      up == rest # 0 /\ CASE rm = "RN" -> rest > half \/ (rest = half /\ whole % 2 = 1)
                          [] rm # "RN" -> Outward(rm, a.s)
  IN  [int |-> IF up THEN whole + 1 ELSE whole, exact |-> rest = 0]
ToInteger(i) ==
  LET to == IF i.op = "CVT.L" THEN "L" ELSE "W"
      rm == IF i.rm = "CRR" THEN ctl.rm ELSE i.rm
      a == NA(i)
      n == Nearest(rm, a)
      large == a.m # 0 /\ a.x + Length(a.m) - 1 > ExpLim[to][i.fmt]
      r == CASE ~IsReal(a) -> Result({"INV"}, Pow(Size(to) - 1) - 1)
             [] IsReal(a) /\ large -> Result({"UNI"}, 0)
             [] IsReal(a) /\ ~large ->
                  Result(IF n.exact THEN {} ELSE {"INE"},
                         (IF a.s = 1 THEN -n.int ELSE n.int) % Pow(Size(to)))
  IN  /\ i.op \in {"CVT.W", "CVT.L"}
      /\ Completes(i, to, <<ExcA(i), r.exc>>, r.v)

Move(i) ==
  /\ i.op \in {"MOV", "MOVT", "MOVF", "MOVZ", "MOVN"}
  /\ ctl' = [ctl EXCEPT !.cause = {}] /\ raised' = "none"
  /\ file' = IF CASE i.op = "MOV" -> TRUE
                  [] i.op = "MOVT" -> i.cc \in ctl.cc
                  [] i.op = "MOVF" -> i.cc \notin ctl.cc
                  [] i.op = "MOVZ" -> i.v = 0
                  [] i.op = "MOVN" -> i.v # 0
             THEN Store(i.fmt, i.fd, Fetch(i.fmt, i.fs)) ELSE file
Deposit(i) ==
  /\ i.op \in {"MTC1", "DMTC1"}
  /\ file' = Store(IF i.op = "MTC1" THEN "W" ELSE "L", i.fs,
                   IF i.op = "MTC1" THEN i.v % Pow(Size("W")) ELSE i.v)
  /\ ctl' = ctl /\ raised' = "none"
(* A control register written: causes that are enabled trap at once.       *)
Control(i) ==
  /\ i.op = "CTC1" /\ file' = file
  /\ LET Writes == CASE i.reg = "FCCR" -> {"cc"}
                     [] i.reg = "FEXR" -> {"flags", "cause"}
                     [] i.reg = "FENR" -> {"enb", "rm", "fs"}
                     [] i.reg = "FPCR" -> DOMAIN ctl
     IN  ctl' = [k \in DOMAIN ctl |-> IF k \in Writes THEN i.v[k] ELSE ctl[k]]
  /\ raised' = IF i.reg # "FCCR" /\ Halts(ctl'.cause, ctl') THEN "FPE" ELSE "none"

(* The formats an operation has; those of a 64-bit processor only.         *)
Formats(op) == CASE op = "CVT.S" -> {"D", "W", "L"}
                 [] op = "CVT.D" -> {"S", "W", "L"}
                 [] op \in {"CTC1", "MTC1", "DMTC1"} -> {"none"}
                 [] OTHER -> {"S", "D"}
Wide(i) == \/ i.op \in {"RECIP", "RSQRT", "CVT.L", "DMTC1", "MADD", "MSUB", "NMADD", "NMSUB"}
           \/ i.fmt = "L"
Refused(i) == i.fmt \notin Formats(i.op) \/ (narrow /\ Wide(i))
Refuse(i) == raised' = "RSVI" /\ file' = file /\ ctl' \in {ctl, [ctl EXCEPT !.cause = {}]}
Do(i) ==
  /\ ran' = i /\ UNCHANGED <<narrow, pairs>>
  /\ IF Refused(i) THEN Refuse(i) ELSE
     \/ Arithmetic(i)
     \/ Estimate(i)
     \/ MultiplyAdd(i)
     \/ Compare(i)
     \/ ToFloat(i)
     \/ Between(i)
     \/ ToInteger(i)
     \/ Move(i)
     \/ Deposit(i)
     \/ Control(i)
Spec == [][Do(ran')]_fvars
=============================================================================
