------------------------------- MODULE FpUnit -------------------------------
(***************************************************************************)
(* The floating point unit (sc1_fpi.c) without paired singles, as in the   *)
(* default build.  A number is unpacked into a sign, an exponent with the  *)
(* bias of a double and a fraction of U bits (64 in the code), computed    *)
(* with, rounded and tested, and packed; every step may raise exceptions,  *)
(* of which an enabled one stops the instruction there.  The formats are   *)
(* parameters: (SExp, SFrac, DExp, DFrac) is (8, 23, 11, 52) in the code.  *)
(***************************************************************************)
EXTENDS Integers, FiniteSets
CONSTANTS SExp, SFrac, DExp, DFrac,
          ExpLim           \* exp_lim of fp_upcvtfi: [integer format][format]
W == 1 + SExp + SFrac                         \* bits of a single
U == 1 + DExp + DFrac                         \* bits of a double, of a fraction
ASSUME FormatsFit == /\ {SExp, SFrac, DExp, DFrac} \subseteq Nat \ {0}
                     /\ U = 2 * W /\ DExp > SExp /\ DFrac > SFrac
VARIABLES q64,             \* Q_64BOP: 64-bit operations are enabled
          f64,             \* Status.FR: 32 registers of 64 bits
          F,               \* the registers
          fcr,             \* the fields of fpcr
          ran,             \* the instruction executed last
          trap
vars == <<q64, f64, F, fcr, ran, trap>>

Exceptions == {"INE", "UNF", "OVF", "DZE", "INV", "UNI"}
M(n) == 2^n
UF_NM == M(U - 1)
UF_SNAN == M(U - 2)
GUARD == U - 1 - DFrac
D_BIAS == M(DExp - 1) - 1
S_BIAS == M(SExp - 1) - 1
D_M_EXP == M(DExp) - 1
S_M_EXP == M(SExp) - 1
UF_MAX_E(fmt) == IF fmt = "D" THEN D_M_EXP - 1 ELSE S_M_EXP - 1 - S_BIAS + D_BIAS
UF_MIN_E(fmt) == IF fmt = "D" THEN 1 ELSE 1 - S_BIAS + D_BIAS
UF_MAX_F == M(U) - 1
RoundBits(fmt) == U - 1 - (IF fmt = "D" THEN DFrac ELSE SFrac)

Truth(b) == IF b THEN 1 ELSE 0
Up(rm, s) == <<rm, s>> \in {<<"RP", 0>>, <<"RM", 1>>}   \* away from zero

-----------------------------------------------------------------------------
(* An unpacked number n = [t, s, e, f]; t is its kind, "TRAP" for none.  A *)
(* step returns it with the control register c as [c, n].                  *)
Num(t, s, e, f) == [t |-> t, s |-> s, e |-> e, f |-> f]
NONUM == Num("TRAP", 0, 0, 0)
INF(s) == Num("INF", s, D_M_EXP, 0)
ZERO(s) == Num("ZERO", s, 0, 0)
ONE == Num("FIN", 0, D_BIAS, UF_NM)
CQNAN == Num("NAN", 0, D_M_EXP, M(U) - 1 - UF_SNAN)
Ok(c, n) == [c |-> c, n |-> n]
Finite(n) == n.t \in {"ZERO", "FIN"}
Quiet(n) == IF n.t = "NAN" /\ (n.f \div UF_SNAN) % 2 = 1 THEN [n EXCEPT !.f = @ - UF_SNAN] ELSE n

Taken(c, x) == x \cap (c.enb \cup {"UNI"}) # {}
Signalled(c, x) ==
  [c EXCEPT !.cause = @ \cup x, !.flags = IF Taken(c, x) THEN @ ELSE @ \cup (x \ {"UNI"})]
Raise(c, x, n) == Ok(Signalled(c, x), IF Taken(c, x) THEN NONUM ELSE n)
After(x, Op(_, _)) == IF x.n.t = "TRAP" THEN x ELSE Op(x.c, x.n)

Unpack(c, fmt, v, qdnm) ==
  LET eb == IF fmt = "D" THEN DExp ELSE SExp
      fb == IF fmt = "D" THEN DFrac ELSE SFrac
      s == v \div M(eb + fb)
      e == (v \div M(fb)) % M(eb)
      f == (v % M(fb)) * M(DFrac - fb)
      fin == f * M(GUARD) + UF_NM
  IN  CASE e = 0 /\ f = 0 -> Ok(c, ZERO(s))
        [] e = 0 /\ f # 0 /\ c.fs -> Raise(c, {"INE"}, ZERO(s))
        [] e = 0 /\ f # 0 /\ ~c.fs -> IF qdnm THEN Ok(c, Num("DENORM", s, 0, f))
                                      ELSE Raise(c, {"UNI"}, NONUM)
        [] e = M(eb) - 1 /\ f = 0 -> Ok(c, INF(s))
        [] e = M(eb) - 1 /\ f # 0 ->
             LET nan == Num("NAN", s, D_M_EXP, fin)
             IN  IF Quiet(nan) # nan THEN Raise(c, {"INV"}, nan) ELSE Ok(c, nan)
        [] OTHER -> Ok(c, Num("FIN", s, IF fmt = "D" THEN e ELSE e - S_BIAS + D_BIAS, fin))

Norm(n) ==
  IF n.f = 0 THEN [n EXCEPT !.s = 0, !.e = 0]
  ELSE LET k == CHOOSE j \in 0 .. U - 1 : n.f * M(j) \in UF_NM .. UF_MAX_F
       IN  [n EXCEPT !.f = @ * M(k), !.e = @ - k]

(* Mutant of Rounded: a tie is not brought back to an even last place.      *)
RoundedUp(fmt, n, rm) ==
  LET rb == RoundBits(fmt)
      sum == (n.f + (IF rm = "RN" THEN M(rb - 1) ELSE IF Up(rm, n.s) THEN M(rb) - 1 ELSE 0)) % M(U)
      f1 == IF sum < UF_NM THEN sum \div 2 + UF_NM ELSE sum
  IN  [n |-> [n EXCEPT !.f = f1 - (f1 % M(rb)), !.e = IF sum < UF_NM THEN @ + 1 ELSE @],
       inex |-> n.f % M(rb) # 0]
(* fp_round: add a half, or all but one, of the last place; clear what is  *)
(* below it, and the last place itself if the bits lost were just a half.  *)
Rounded(fmt, n, rm) ==
  LET rb == RoundBits(fmt)
      lost == n.f % M(rb)
      add == IF rm = "RN" THEN M(rb - 1) ELSE IF Up(rm, n.s) THEN M(rb) - 1 ELSE 0
      sum == (n.f + add) % M(U)
      f1 == IF sum < UF_NM THEN sum \div 2 + UF_NM ELSE sum
      f2 == f1 - (f1 % M(rb))
      tie == rm = "RN" /\ lost = M(rb - 1) /\ (f2 \div M(rb)) % 2 = 1
  IN  [n |-> [n EXCEPT !.f = IF tie THEN f2 - M(rb) ELSE f2,
                       !.e = IF sum < UF_NM THEN @ + 1 ELSE @],
       inex |-> lost # 0]

OvfTest(c, fmt, n) ==
  IF n.e > UF_MAX_E(fmt)
  THEN Raise(c, {"OVF", "INE"}, IF c.rm = "RN" \/ Up(c.rm, n.s) THEN INF(n.s)
                                ELSE Num("FIN", n.s, UF_MAX_E(fmt), UF_MAX_F))
  ELSE Ok(c, n)
UnfTest(c, fmt, n) ==
  IF n.e < UF_MIN_E(fmt)
  THEN Raise(c, IF c.fs \/ c.fn THEN {"UNF", "INE"} ELSE {"UNI"},
             IF (c.fn /\ c.rm = "RN" /\ n.e = 0) \/ Up(c.rm, n.s)
             THEN Num("FIN", n.s, UF_MIN_E(fmt), UF_NM) ELSE ZERO(n.s))
  ELSE Ok(c, n)
Inexact(c, n, inex) == IF inex THEN Raise(c, {"INE"}, n) ELSE Ok(c, n)
Tested(c, fmt, rnd) ==
  LET Under(d, m) == UnfTest(d, fmt, m)
      Lost(d, m) == Inexact(d, m, rnd.inex)
  IN  After(After(OvfTest(c, fmt, rnd.n), Under), Lost)
RTest(c, fmt, n) ==
  IF ~Finite(n) \/ n.f = 0 THEN Ok(c, n) ELSE Tested(c, fmt, Rounded(fmt, n, c.rm))

Pack(fmt, n) ==
  IF fmt = "D"
  THEN n.s * M(U - 1) + (n.e % M(DExp)) * M(DFrac) + ((n.f \div M(GUARD)) % M(DFrac))
  ELSE LET e == CASE n.e = D_M_EXP -> S_M_EXP
                  [] n.e = 0 -> 0
                  [] OTHER -> n.e - D_BIAS + S_BIAS
       IN  n.s * M(W - 1) + (e % M(SExp)) * M(SFrac)
             + ((n.f \div M(DFrac - SFrac + GUARD)) % M(SFrac))

-----------------------------------------------------------------------------
(* The operations on unpacked numbers.                                     *)
UpAdd(c, a, b) ==
  CASE a.t = "NAN" -> Ok(c, Quiet(a))
    [] a.t # "NAN" /\ b.t = "NAN" -> Ok(c, Quiet(b))
    [] a.t # "NAN" /\ b.t = "INF" ->
         IF a.t = "INF" /\ a.s # b.s THEN Raise(c, {"INV"}, CQNAN) ELSE Ok(c, INF(b.s))
    [] a.t = "INF" /\ b.t \notin {"NAN", "INF"} -> Ok(c, a)
    [] a.t = "ZERO" /\ b.t \notin {"NAN", "INF"} ->
         Ok(c, IF b.t # "ZERO" THEN b
               ELSE Num("FIN", IF a.s = b.s THEN a.s ELSE Truth(c.rm = "RM"), 0, 0))
    [] a.t = "FIN" /\ b.t = "ZERO" -> Ok(c, a)
    [] a.t = "FIN" /\ b.t = "FIN" ->
         LET less == a.e < b.e \/ (a.e = b.e /\ a.f < b.f)
             x == IF less THEN b ELSE a
             y == IF less THEN a ELSE b
             d == x.e - y.e
             yf == IF d > U - 1 THEN 1
                   ELSE LET kept == y.f \div M(d)                 \* sticky in bit 0
                        IN  IF y.f % M(d) # 0 /\ kept % 2 = 0 THEN kept + 1 ELSE kept
             sum == x.f + yf
         IN  Ok(c, IF x.s # y.s
                   THEN IF x.f = yf THEN Num("FIN", Truth(c.rm = "RM"), 0, 0)
                        ELSE Norm([x EXCEPT !.f = @ - yf])
                   ELSE IF sum < M(U) THEN [x EXCEPT !.f = sum]
                        ELSE LET half == (sum - M(U)) \div 2 + UF_NM
                             IN  [x EXCEPT !.e = @ + 1,
                                    !.f = IF sum % 2 = 1 /\ half % 2 = 0 THEN half + 1 ELSE half])
Sticky(n, lost) == [n EXCEPT !.f = IF lost /\ @ % 2 = 0 THEN @ + 1 ELSE @]

UpMul(c, a, b) ==
  LET s == Truth(a.s # b.s)
      p == a.f * b.f
  IN  CASE a.t = "NAN" -> Ok(c, Quiet(a))
        [] a.t # "NAN" /\ b.t = "NAN" -> Ok(c, Quiet(b))
        [] "NAN" \notin {a.t, b.t} /\ "ZERO" \in {a.t, b.t} ->
             IF "INF" \in {a.t, b.t} THEN Raise(c, {"INV"}, CQNAN) ELSE Ok(c, ZERO(s))
        [] "NAN" \notin {a.t, b.t} /\ "ZERO" \notin {a.t, b.t} ->
             Ok(c, IF "INF" \in {a.t, b.t} THEN INF(s)
                   ELSE Sticky(Norm(Num("FIN", s, a.e + b.e + 1 - D_BIAS, p \div M(U))), p % M(U) # 0))

(* udiv64 stops when the dividend is used up; the quotient is the same.    *)
UpDiv(c, a, b) ==
  LET s == Truth(a.s # b.s)
      prec == DFrac + 3
      n == (a.f \div 2) * M(prec - 1)
      d == b.f \div 2
  IN  CASE a.t = "NAN" -> Ok(c, Quiet(a))
        [] a.t # "NAN" /\ b.t = "NAN" -> Ok(c, Quiet(b))
        [] a.t # "NAN" /\ b.t = "INF" -> IF a.t = "INF" THEN Raise(c, {"INV"}, CQNAN) ELSE Ok(c, ZERO(s))
        [] a.t = "INF" /\ b.t \notin {"NAN", "INF"} -> Ok(c, INF(s))
        [] a.t \notin {"NAN", "INF"} /\ b.t = "ZERO" ->
             IF a.t = "ZERO" THEN Raise(c, {"INV"}, CQNAN) ELSE Raise(c, {"DZE"}, INF(s))
        [] a.t = "ZERO" /\ b.t = "FIN" -> Ok(c, ZERO(s))
        [] a.t = "FIN" /\ b.t = "FIN" ->
             Ok(c, Sticky(Norm(Num("FIN", s, a.e - b.e + D_BIAS, (n \div d) * M(U - prec))), n % d # 0))

(* The estimates and the Newton step of fp_upsqrt, by what they approach.  *)
Root(x) ==
  LET z[k \in 0 .. U] ==
        IF k = 0 THEN 0
        ELSE LET t == z[k - 1] + M(U - k) IN IF t * t <= x THEN t ELSE z[k - 1]
  IN  z[U]
UpSqrt(c, b) ==
  LET asig == b.f \div (IF b.e % 2 = 1 THEN 8 ELSE 4)
      z == Root(asig * M(U))
  IN  CASE ~Finite(b) -> Ok(c, b)
        [] Finite(b) /\ b.s = 1 -> Raise(c, {"INV"}, CQNAN)
        [] OTHER -> Ok(c, Sticky(Num("FIN", 0, ((b.e - D_BIAS) \div 2) + D_BIAS, 2 * z),
                                 z * z # asig * M(U)))

-----------------------------------------------------------------------------
(* The registers: 64 bits each, or pairs of 32 when Status.FR is clear.    *)
Low(v) == v % M(W)
High(v) == v \div M(W)
Even(k) == k - (k % 2)
getspr(k) == IF f64 \/ k % 2 = 0 THEN Low(F[IF f64 THEN k ELSE Even(k)]) ELSE High(F[Even(k)])
putspr(k, v) ==
  IF f64 THEN [F EXCEPT ![k] = Low(v)]
  ELSE [F EXCEPT ![Even(k)] = IF k % 2 = 1 THEN Low(@) + Low(v) * M(W) ELSE High(@) * M(W) + Low(v)]
getdpr(k) == IF f64 \/ k % 2 = 0 THEN F[k] ELSE 0
putdpr(k, v) == IF f64 \/ k % 2 = 0 THEN [F EXCEPT ![k] = v] ELSE F
Get(fmt, k) == IF fmt \in {"D", "L"} THEN getdpr(k) ELSE getspr(k)
Put(fmt, k, v) == IF fmt \in {"D", "L"} THEN putdpr(k, v) ELSE putspr(k, v)
SEXT_W_D(v) == IF Low(v) >= M(W - 1) THEN Low(v) + M(U) - M(W) ELSE Low(v)

(* The end of an instruction: a trap stores nothing, a result is packed.   *)
Completed(x, file) ==
  /\ fcr' = x.c
  /\ IF x.n.t = "TRAP" THEN trap' = "FPE" /\ F' = F ELSE trap' = "none" /\ F' = file
Finish(i, fmt, x) == Completed(x, Put(fmt, i.fd, Pack(fmt, x.n)))
Cleared == [fcr EXCEPT !.cause = {}]
Round(fmt, x) ==
  LET Test(c, n) == RTest(c, fmt, n)
  IN  After(x, Test)
(* The operands of an instruction, unpacked in order; op is not reached if *)
(* one of them traps.                                                      *)
Unary(i, qdnm, Op(_, _)) == After(Unpack(Cleared, i.fmt, Get(i.fmt, i.fs), qdnm), Op)
Binary(i, qdnm, Op(_, _, _)) ==
  LET Second(c, a) ==
        LET Both(d, b) == Op(d, a, b)
        IN  After(Unpack(c, i.fmt, Get(i.fmt, i.ft), qdnm), Both)
  IN  Unary(i, qdnm, Second)
Negated(n) == [n EXCEPT !.s = 1 - @]
UpSub(c, a, b) == UpAdd(c, a, IF b.t = "NAN" THEN b ELSE Negated(b))

Add(i) ==
  \/ i.op = "ADD" /\ Finish(i, i.fmt, Round(i.fmt, Binary(i, FALSE, UpAdd)))
  \/ i.op = "SUB" /\ Finish(i, i.fmt, Round(i.fmt, Binary(i, FALSE, UpSub)))
Mul(i) == i.op = "MUL" /\ Finish(i, i.fmt, Round(i.fmt, Binary(i, FALSE, UpMul)))
Div(i) == i.op = "DIV" /\ Finish(i, i.fmt, Round(i.fmt, Binary(i, FALSE, UpDiv)))
Recip(i) ==
  /\ i.op = "RECIP"
  /\ LET Inverse(c, b) == UpDiv(c, ONE, b)
     IN  Finish(i, i.fmt, Round(i.fmt, Unary(i, FALSE, Inverse)))
Sqrt(i) ==
  /\ i.op = "SQRT"
  /\ LET Easy(n) == n.t \in {"NAN", "ZERO"} \/ n = INF(0)
         Compute(c, b) == IF Easy(b) THEN Ok(c, Quiet(b)) ELSE Round(i.fmt, UpSqrt(c, b))
     IN  Finish(i, i.fmt, Unary(i, FALSE, Compute))
Rsqrt(i) ==
  /\ i.op = "RSQRT"
  /\ LET Inverse(c, b) == UpDiv(c, ONE, b)
         Compute(c, b) ==
           CASE b.t = "NAN" -> Ok(c, Quiet(b))
             [] b.t = "ZERO" -> Raise(c, {"DZE"}, INF(b.s))
             [] OTHER -> Round(i.fmt, After(UpSqrt(c, b), Inverse))
     IN  Finish(i, i.fmt, Unary(i, FALSE, Compute))
Abs(i) == /\ i.op = "ABS"
          /\ LET Positive(c, a) == Ok(c, IF a.t = "NAN" THEN Quiet(a) ELSE [a EXCEPT !.s = 0])
             IN  Finish(i, i.fmt, Unary(i, TRUE, Positive))
Neg(i) == /\ i.op = "NEG"
          /\ LET Opposite(c, a) == Ok(c, IF a.t = "NAN" THEN Quiet(a) ELSE Negated(a))
             IN  Finish(i, i.fmt, Unary(i, TRUE, Opposite))
Arithmetic(i) ==
  \/ Add(i)
  \/ Mul(i)
  \/ Div(i)
  \/ Sqrt(i)
  \/ Abs(i)
  \/ Neg(i)
  \/ Recip(i)
  \/ Rsqrt(i)

(* The product is rounded and tested first, then added to fr.              *)
Kept(c, fmt, rnd) ==
  LET Under(d, n) ==
        CASE n.e > 0 \/ d.fo -> Inexact(d, [n EXCEPT !.t = "FIN"], rnd.inex)
          [] n.e <= 0 /\ ~d.fo /\ d.fs ->
               Raise(d, {"UNF", "INE"}, IF Up(d.rm, n.s) THEN Num("FIN", n.s, UF_MIN_E(fmt), UF_NM)
                                        ELSE Num("FIN", n.s, 0, 0))
          [] n.e <= 0 /\ ~d.fo /\ ~d.fs -> Raise(d, {"UNI"}, NONUM)
  IN  After(OvfTest(c, fmt, rnd.n), Under)
Product(c, fmt, p) == IF p.t # "FIN" THEN Ok(c, p) ELSE Kept(c, fmt, Rounded(fmt, p, c.rm))
MultiplyAdds == {"MADD", "MSUB", "NMADD", "NMSUB"}
MultiplyAdd(i) ==
  /\ i.op \in MultiplyAdds
  /\ LET Tidied(c, p) == Product(c, i.fmt, p)
         Plus(c, q) ==
           LET Addend(d, n) == UpAdd(d, q, IF i.op \in {"MSUB", "NMSUB"} THEN Negated(n) ELSE n)
           IN  Round(i.fmt, After(Unpack(c, i.fmt, Get(i.fmt, i.fr), FALSE), Addend))
         Signed(c, n) == Ok(c, IF i.op \in {"NMADD", "NMSUB"} THEN Negated(n) ELSE n)
     IN  Finish(i, i.fmt, After(After(After(Binary(i, FALSE, UpMul), Tidied), Plus), Signed))

-----------------------------------------------------------------------------
(* C.cond: which of unordered, less and equal hold; a trap leaves flags    *)
(* and conditions as they were.                                            *)
Relation(a, b) ==
  LET s1 == IF a.t = "ZERO" THEN 0 ELSE a.s
      s2 == IF b.t = "ZERO" THEN 0 ELSE b.s
      below == IF a.e # b.e THEN a.e < b.e ELSE a.f < b.f
  IN  CASE "NAN" \in {a.t, b.t} -> "UN"
        [] "NAN" \notin {a.t, b.t} /\ s1 # s2 -> IF s1 = 1 THEN "LT" ELSE "GT"
        [] "NAN" \notin {a.t, b.t} /\ s1 = s2 ->
             IF a.e = b.e /\ a.f = b.f THEN "EQ"
             ELSE IF (s1 = 1) # below THEN "LT" ELSE "GT"
testcc(sense, cc) == sense = (cc \in fcr.cc)
setcc(c, cc, val) == [c EXCEPT !.cc = IF val THEN @ \cup {cc} ELSE @ \ {cc}]
Judged(i, c, b, rel) ==
  LET x == IF rel = "UN" /\ "TQNAN" \in i.cond THEN Raise(c, {"INV"}, b) ELSE Ok(c, b)
  IN  [x EXCEPT !.c = setcc(@, i.cc, rel \in i.cond)]
Compare(i) ==
  /\ i.op = "C"
  /\ LET Judge(c, a, b) == Judged(i, c, b, Relation(a, b))
         x == Binary(i, TRUE, Judge)
     IN  IF x.n.t = "TRAP"
         THEN trap' = "FPE" /\ F' = F /\ fcr' = [Cleared EXCEPT !.cause = x.c.cause]
         ELSE Completed(x, F)

-----------------------------------------------------------------------------
(* Conversions.  W and L are integers of W and U bits.                     *)
Integer(fmt, v) ==
  LET x == IF fmt = "L" THEN v ELSE SEXT_W_D(v) IN IF x >= UF_NM THEN x - M(U) ELSE x
IcvtLim(fmt) == IF fmt = "D" THEN M(DFrac - 1) - 1 ELSE M(SFrac) - 1
ToFloat(i) ==
  /\ i.op \in {"CVT.S", "CVT.D"} /\ i.fmt \in {"W", "L"}
  /\ LET fmt == IF i.op = "CVT.D" THEN "D" ELSE "S"
         v == Integer(i.fmt, Get(i.fmt, i.fs))
         mag == IF v < 0 THEN -v ELSE v
         s == Truth(v < 0)
     IN  Finish(i, fmt,
           CASE v = 0 -> Ok(Cleared, ZERO(0))
             [] v # 0 /\ mag > IcvtLim(fmt) + s -> Raise(Cleared, {"UNI"}, NONUM)
             [] OTHER -> RTest(Cleared, fmt, Norm(Num("FIN", s, U - 1 + D_BIAS, mag))))
Between(i) ==
  /\ \/ i.op = "CVT.D" /\ i.fmt = "S"
     \/ i.op = "CVT.S" /\ i.fmt = "D"
  /\ LET Conv(c, a) == IF i.op = "CVT.D" THEN Ok(c, Quiet(a)) ELSE RTest(c, "S", Quiet(a))
     IN  Finish(i, IF i.op = "CVT.D" THEN "D" ELSE "S", Unary(i, FALSE, Conv))

(* fp_upcvtfi: the integer in the top bits of the fraction, the rest as    *)
(* bits to round by.  Exponents beyond ExpLim are left to software.        *)
UpCvtFi(c, fmt, ifmt, rm, a) ==
  LET max == IF ifmt = "L" THEN UF_NM - 1 ELSE M(W - 1) - 1
      ub == a.e - D_BIAS
      cut == U - 1 - ub
      sticky == IF ub < -1 THEN 1 ELSE IF ub = -1 THEN a.f ELSE (a.f * M(U - cut)) % M(U)
      whole == IF ub < 0 THEN 0 ELSE a.f \div M(cut)
      up == (rm = "RN" /\ sticky >= UF_NM) \/ (Up(rm, a.s) /\ sticky # 0)
      near == IF up THEN whole + 1 ELSE whole
      int == IF up /\ rm = "RN" /\ sticky = UF_NM THEN near - (near % 2) ELSE near
      Whole(f) == Num("FIN", 0, 0, IF a.s = 1 THEN (M(U) - f) % M(U) ELSE f)
  IN  CASE ~Finite(a) -> Raise(c, {"INV"}, Num("FIN", 0, 0, max))
        [] a.t = "ZERO" -> Ok(c, Whole(0))
        [] a.t = "FIN" /\ ub > ExpLim[ifmt][fmt] -> Raise(c, {"UNI"}, NONUM)
        [] a.t = "FIN" /\ ub <= ExpLim[ifmt][fmt] ->
             IF int > max + a.s THEN Raise(c, {"UNI"}, NONUM)
             ELSE IF sticky # 0 THEN Raise(c, {"INE"}, Whole(int)) ELSE Ok(c, Whole(int))
ToInteger(i) ==
  /\ i.op \in {"CVT.W", "CVT.L"}
  /\ LET ifmt == IF i.op = "CVT.L" THEN "L" ELSE "W"
         Conv(c, a) == UpCvtFi(c, i.fmt, ifmt, IF i.rm = "CRR" THEN c.rm ELSE i.rm, a)
         x == Unary(i, FALSE, Conv)
     IN  Completed(x, Put(ifmt, i.fd, x.n.f))

Convert(i) ==
  \/ ToFloat(i)
  \/ Between(i)
  \/ ToInteger(i)

(* Moves, of which some are conditional, and the control registers.        *)
(* i.v is the general register that is tested, moved or written.           *)
Move(i) ==
  /\ i.op \in {"MOV", "MOVT", "MOVF", "MOVZ", "MOVN"}
  /\ fcr' = Cleared /\ trap' = "none"
  /\ F' = IF CASE i.op = "MOV" -> TRUE
               [] i.op \in {"MOVT", "MOVF"} -> testcc(i.op = "MOVT", i.cc)
               [] i.op \in {"MOVZ", "MOVN"} -> (i.op = "MOVZ") = (i.v = 0)
          THEN Put(i.fmt, i.fd, Get(i.fmt, i.fs)) ELSE F
MoveTo(i) ==
  /\ i.op \in {"MTC1", "DMTC1"} /\ fcr' = fcr /\ trap' = "none"
  /\ F' = IF i.op = "MTC1" THEN putspr(i.fs, i.v) ELSE putdpr(i.fs, i.v)
putcr(i) ==
  /\ i.op = "CTC1"
  /\ fcr' = CASE i.reg = "FCCR" -> [fcr EXCEPT !.cc = i.v.cc]
              [] i.reg = "FEXR" -> [fcr EXCEPT !.flags = i.v.flags, !.cause = i.v.cause]
              [] i.reg = "FENR" -> [fcr EXCEPT !.enb = i.v.enb, !.rm = i.v.rm, !.fs = i.v.fs]
              [] i.reg = "FPCR" -> i.v
  /\ trap' = IF i.reg # "FCCR" /\ Taken(fcr', fcr'.cause) THEN "FPE" ELSE "none"
  /\ F' = F

(* fp_valid: the operations of each format.                                *)
Valid(i) ==
  CASE i.fmt = "S" -> i.op # "CVT.S"
    [] i.fmt = "D" -> i.op # "CVT.D"
    [] i.fmt \in {"W", "L"} -> i.op \in {"CVT.S", "CVT.D"}
    [] i.fmt = "none" -> i.op \in {"CTC1", "MTC1", "DMTC1"}
(* What a 32-bit processor refuses, the multiply-adds before the causes    *)
(* are cleared, the others after.                                          *)
Only64(i) == i.op \in {"RECIP", "RSQRT", "CVT.L"} \/ i.fmt = "L"
Execute(i) ==
  /\ ran' = i /\ UNCHANGED <<q64, f64>>
  /\ IF ~Valid(i) \/ (~q64 /\ i.op \in MultiplyAdds \cup {"DMTC1"})
     THEN trap' = "RSVI" /\ UNCHANGED <<F, fcr>>
     ELSE IF ~q64 /\ Only64(i) THEN trap' = "RSVI" /\ fcr' = Cleared /\ F' = F
     ELSE \/ Arithmetic(i)
          \/ MultiplyAdd(i)
          \/ Compare(i)
          \/ Convert(i)
          \/ Move(i)
          \/ MoveTo(i)
          \/ putcr(i)

-----------------------------------------------------------------------------
(* The unit computes what FpMachine promises.                              *)
Machine == INSTANCE FpMachine WITH narrow <- ~q64, pairs <- ~f64, ctl <- fcr, raised <- trap,
             file <- [k \in 0 .. 3 |-> IF f64 THEN F[k] ELSE getspr(k)]
ImplementsFpMachine == Machine!Spec
=============================================================================
