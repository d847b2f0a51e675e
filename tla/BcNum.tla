------------------------------- MODULE BcNum --------------------------------
(***************************************************************************)
(* The number calls of the script interface (bcnumadd ... of cdb.c) with   *)
(* bcnum.c below them, which keeps an error and the three numbers that     *)
(* bc_init_numbers makes, and the calls of number.c that a program may     *)
(* make itself.  A call is one action; the caller then reads the answer.   *)
(***************************************************************************)
EXTENDS Number

CONSTANTS Texts,            (* the numbers callers write                   *)
          Scales,           (* the scales they ask for; -1 is a misuse     *)
          Exponents,        (* the exponents they write                    *)
          Modulus,          (* the modulus of a bc_raisemod                *)
          OutstringSize,    (* BCNUM_OUTSTRING_SIZE                        *)
          NIL               (* a null pointer                              *)

VARIABLES bcnumError,       (* "none" or "too small", never cleared        *)
          bcnum_is_init,    (* _zero_, _one_ and _two_ exist               *)
          arg,              (* the arguments the caller has written        *)
          answer            (* what the call made last is and returned     *)

vars == <<bcnumError, bcnum_is_init, arg, answer>>

None == [op |-> "none", ret |-> NIL]

Init ==
  /\ bcnumError = "none"
  /\ bcnum_is_init = FALSE
  /\ arg = NIL
  /\ answer = None

(* The caller writes two numbers and a scale, for any of the calls.        *)
Write(v1, v2, scale) ==
  /\ arg = NIL
  /\ arg' = [val1 |-> v1, val2 |-> v2, scale |-> scale]
  /\ UNCHANGED <<bcnumError, bcnum_is_init, answer>>

(* It has read the answer.                                                 *)
Continue ==
  /\ answer # None
  /\ arg' = NIL /\ answer' = None
  /\ UNCHANGED <<bcnumError, bcnum_is_init>>

(* The numbers that a call with two arguments parses in the scale given,   *)
(* and the one that a call without a scale parses.                         *)
num1   == bc_str2num(arg.val1, arg.scale)
num2   == bc_str2num(arg.val2, arg.scale)
whole1 == bc_str2num(arg.val1, 0)
whole2 == bc_str2num(arg.val2, 0)

-----------------------------------------------------------------------------
(* bcnum.c                                                                 *)

(* The numbers that the calls print, and what those that print none find.  *)
(* What bc_divide returns is not looked at: a quotient by 0 stays 0.       *)
bcnum_add        == bc_add(num1, num2, arg.scale)
bcnum_sub        == bc_sub(num1, num2, arg.scale)
bcnum_compare    == bc_compare(num1, num2)
bcnum_multiply   == bc_multiply(num1, num2, arg.scale)
bcnum_divide     == IF bc_is_zero(num2) THEN Zero ELSE bc_divide(num1, num2, arg.scale)
bcnum_raise      == bc_raise(num1, num2, arg.scale)
bcnum_iszero     == bc_is_zero(whole1)
bcnum_isnearzero == bc_is_near_zero(num1, arg.scale)
bcnum_isneg      == bc_is_neg(whole1)

TextLength(t) == (IF t.sign = "" THEN 0 ELSE 1) + Len(t.int)
                 + (IF t.frac = <<>> THEN 0 ELSE 1 + Len(t.frac))

(* The text has no room for it: out_char_str sets the error when the last  *)
(* place is written.                                                       *)
TooSmall(t) == TextLength(t) >= OutstringSize

(* Arguments that a call with two numbers and a scale refuses, one with a  *)
(* number and a scale, and one with a number.                              *)
NoNumber   == arg.val1 = NIL
NoScale    == NoNumber \/ arg.scale < 0
Misused    == NoScale \/ arg.val2 = NIL

Ready == arg # NIL /\ answer = None

Return(op, ret) == answer' = [op |-> op, ret |-> ret] /\ UNCHANGED arg

Refuse(op, misused, ret) ==
  /\ Ready /\ misused
  /\ Return(op, ret)
  /\ UNCHANGED <<bcnumError, bcnum_is_init>>

(* A call whose answer is the text of the number n.                        *)
Compute(op, n) ==
  /\ Ready /\ ~Misused
  /\ bcnum_is_init' = TRUE
  /\ \E out \in {bc_out_num(n)} :
       /\ bcnumError' = IF TooSmall(out) THEN "too small" ELSE bcnumError
       /\ Return(op, IF bcnumError' = "none" THEN out ELSE NIL)

(* A call whose answer is an integer, or onError.                          *)
Test(op, misused, status, onError) ==
  /\ Ready /\ ~misused
  /\ bcnum_is_init' = TRUE
  /\ Return(op, IF bcnumError = "none" THEN status ELSE onError)
  /\ UNCHANGED bcnumError

Truth(b) == IF b THEN 1 ELSE 0

-----------------------------------------------------------------------------
(* cdb.c; _ERROR_ is -1, as the answer "smaller" is.                       *)

bcnumadd == Refuse("add", Misused, NIL) \/ Compute("add", bcnum_add)
bcnumsub == Refuse("sub", Misused, NIL) \/ Compute("sub", bcnum_sub)

bcnummultiply == Refuse("multiply", Misused, NIL) \/ Compute("multiply", bcnum_multiply)

bcnumdivide == Refuse("divide", Misused, NIL) \/ Compute("divide", bcnum_divide)

bcnumraise ==
  /\ arg # NIL /\ arg.val2 \in Exponents
  /\ Refuse("raise", Misused, NIL) \/ Compute("raise", bcnum_raise)

bcnumcompare ==
  \/ Refuse("compare", Misused, -1)
  \/ Test("compare", Misused, bcnum_compare, -1)

bcnumiszero ==
  \/ Refuse("iszero", NoNumber, -1)
  \/ Test("iszero", NoNumber, Truth(bcnum_iszero), 0)

bcnumisneg ==
  \/ Refuse("isneg", NoNumber, -1)
  \/ Test("isneg", NoNumber, Truth(bcnum_isneg), 0)

bcnumisnearzero ==
  \/ Refuse("isnearzero", NoScale, -1)
  \/ Test("isnearzero", NoScale, Truth(bcnum_isnearzero), 0)

(* Frees the three numbers; the error stays.                               *)
bcnumuninit ==
  /\ arg = NIL
  /\ bcnum_is_init' = FALSE
  /\ UNCHANGED <<bcnumError, arg, answer>>

-----------------------------------------------------------------------------
(* Calls of number.c by a program, once the three numbers exist.           *)

Direct(op, n) ==
  /\ Ready /\ ~Misused /\ bcnum_is_init
  /\ Return(op, bc_out_num(n))
  /\ UNCHANGED <<bcnumError, bcnum_is_init>>

Sqrt   == ~bc_is_neg(num1)  /\ Direct("sqrt", bc_sqrt(num1, arg.scale))
Modulo == ~bc_is_zero(num2) /\ Direct("modulo", bc_modulo(num1, num2, arg.scale))

RaiseModulo ==
  /\ arg.val2 \in Exponents /\ ~bc_is_neg(whole1) /\ ~bc_is_neg(whole2)
  /\ Direct("raisemod", bc_raisemod(whole1, whole2, bc_str2num(Modulus, 0), 0))

-----------------------------------------------------------------------------

Next ==
  \/ \E v1 \in Texts, v2 \in Texts \cup Exponents, s \in Scales : Write(v1, v2, s)
  \/ bcnumadd \/ bcnumsub \/ bcnummultiply \/ bcnumdivide \/ bcnumraise
  \/ bcnumcompare \/ bcnumiszero \/ bcnumisnearzero \/ bcnumisneg \/ bcnumuninit
  \/ (Ready /\ ~Misused /\ (Sqrt \/ Modulo \/ RaiseModulo))
  \/ Continue

Spec == Init /\ [][Next]_vars

-----------------------------------------------------------------------------
(* What the calls promise, in integers.                                    *)

IntegerOf(ds) == FoldLeft(LAMBDA n, d : n * 10 + d, 0, ds)
Towards0(n, d) == LET q == (IF n < 0 THEN -n ELSE n) \div (IF d < 0 THEN -d ELSE d)
                  IN IF (n < 0) = (d < 0) THEN q ELSE -q

(* The value of a text in units of the last of scale digits after the      *)
(* point; further digits are cut off.                                      *)
Units(t, scale) ==
  LET kept == SubSeq(t.frac, 1, Min({scale, Len(t.frac)}))
      size == IntegerOf(t.int \o kept) * 10 ^ (scale - Len(kept))
  IN CASE t.junk                    -> 0
       [] ~t.junk /\ t.sign = "-"   -> -size
       [] OTHER                     -> size

(* v ^ e in units of scale digits, cut off.                                *)
Power(v, e, scale) ==
  LET k == Min({scale, Len(v.frac)})
      b == Units(v, k)
  IN CASE e < 0 -> IF b = 0 THEN 0 ELSE Towards0(10 ^ (k * (-e) + scale), b ^ (-e))
       [] e = 0 -> 10 ^ scale
       [] e > 0 /\ k * e <= scale -> b ^ e * 10 ^ (scale - k * e)
       [] OTHER -> Towards0(b ^ e, 10 ^ (k * e - scale))

PowerMod(b, e, m) == LET p[n \in 0..e] == IF n = 0 THEN 1 ELSE (b * p[n - 1]) % m IN p[e]

(* A zero that has kept its minus, which bc_compare and bc_is_neg take for *)
(* a negative number.                                                      *)
MinusZero(t, scale) == t.sign = "-" /\ Units(t, scale) = 0

(* Every answer is the exact one, to the digits asked for: sums and        *)
(* differences, products and quotients and powers cut off towards zero,    *)
(* remainders and roots, and the comparisons; digits that are carried,     *)
(* borrowed, guessed and corrected over several places never show.  Left   *)
(* out are comparisons of a MinusZero, a power whose exponent no long      *)
(* holds (the code answers 1), and isnearzero of a number that has fewer   *)
(* digits than scale.  iszero looks at the integer part only.              *)
AnswersExact ==
  LET s == arg.scale   ret == answer.ret   op == answer.op
      a == Units(arg.val1, s)   b == Units(arg.val2, s)
      Is(n) == Len(ret.frac) <= s /\ Units(ret, s) = n
      Holds(p) == ret = Truth(p)
      Unclear(t) == MinusZero(t, s)
  IN answer # None /\ ~Misused /\ bcnumError = "none" =>
     CASE op = "add"      -> Is(a + b)
       [] op = "sub"      -> Is(a - b)
       [] op = "multiply" -> Is(Towards0(a * b, 10 ^ s))
       [] op = "divide"   -> Is(IF b = 0 THEN 0 ELSE Towards0(a * 10 ^ s, b))
       [] op = "raise"    -> LET e == Units(arg.val2, 0)
                             IN e \in -LongMax..LongMax => Is(Power(arg.val1, e, s))
       [] op = "compare"  -> \/ Unclear(arg.val1) \/ Unclear(arg.val2)
                             \/ ret = (CASE a < b -> -1 [] a = b -> 0 [] a > b -> 1)
       [] op = "iszero"   -> Holds(Units(arg.val1, 0) = 0)
       [] op = "isneg"    -> MinusZero(arg.val1, 0) \/ Holds(a < 0)
       [] op = "isnearzero" -> Len(arg.val1.frac) >= s => Holds(a \in -1..1)
       [] op = "sqrt"     -> LET n == a * 10 ^ s   r == Units(ret, s)
                             IN Is(r) /\ r * r <= n /\ (r + 1) * (r + 1) > n
       [] op = "modulo"   -> Units(ret, 2 * s) = a * 10 ^ s - b * Towards0(a * 10 ^ s, b)
       [] op = "raisemod" ->
            Units(ret, 0) = PowerMod(Units(arg.val1, 0), Units(arg.val2, 0), Units(Modulus, 0))
=============================================================================
