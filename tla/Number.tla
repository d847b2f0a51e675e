------------------------------- MODULE Number -------------------------------
(***************************************************************************)
(* number.c: decimal numbers of any length, digit by digit.  The reference *)
(* counts of the numbers are left out: an operator returns what the code   *)
(* leaves in its result.                                                   *)
(***************************************************************************)
EXTENDS Integers, Sequences, SequencesExt

CONSTANTS MulBaseDigits,   (* mul_base_digits: shorter products are made   *)
                           (* digit by digit                               *)
          LongMax          (* LONG_MAX                                     *)

BASE  == 10
Digit == 0..(BASE - 1)

(* n_sign, the n_len digits before the point and the n_scale after it.     *)
bc_struct == [neg : BOOLEAN, int : Seq(Digit), frac : Seq(Digit)]

Num(neg, int, frac) == [neg |-> neg, int |-> int, frac |-> frac]
Digits(n)           == n.int \o n.frac
Zeros(k)            == [i \in 1..k |-> 0]
WithSign(n, neg)    == [n EXCEPT !.neg = neg]

bc_new_num(length, scale) == Num(FALSE, Zeros(length), Zeros(scale))

(* The numbers of bc_init_numbers.                                         *)
Zero == Num(FALSE, <<0>>, <<>>)
One  == Num(FALSE, <<1>>, <<>>)
Two  == Num(FALSE, <<2>>, <<>>)

IsZeros(ds) == \A i \in DOMAIN ds : ds[i] = 0

(* Digits without their leading zeros, but for the last digit.             *)
Strip(ds) ==
  SubSeq(ds, Min({i \in DOMAIN ds : ds[i] # 0} \cup {Len(ds)}), Len(ds))

rm_leading_zeros(n) == [n EXCEPT !.int = Strip(@)]

(* A number from its digits, length of them before the point.              *)
Pointed(ds, length) ==
  rm_leading_zeros(Num(FALSE, SubSeq(ds, 1, length), SubSeq(ds, length + 1, Len(ds))))

-----------------------------------------------------------------------------
(* Comparing.                                                              *)

(* -1, 0 or 1: n1 against n2 without their signs.  Equal lengths are       *)
(* compared along the digits both have; then the longer fraction decides.  *)
Magnitude(n1, n2) ==
  LET a == Digits(n1)  b == Digits(n2)
      differ == {i \in DOMAIN a \cap DOMAIN b : a[i] # b[i]}
      Larger(x, y) == IF x > y THEN 1 ELSE -1
  IN IF Len(n1.int) # Len(n2.int) THEN Larger(Len(n1.int), Len(n2.int))
     ELSE IF differ # {} THEN Larger(a[Min(differ)], b[Min(differ)])
     ELSE IF \E i \in DOMAIN a \ DOMAIN b : a[i] # 0 THEN 1
     ELSE IF \E i \in DOMAIN b \ DOMAIN a : b[i] # 0 THEN -1
     ELSE 0

bc_compare(n1, n2) ==
  CASE n1.neg /\ n2.neg   -> - Magnitude(n1, n2)
    [] n1.neg /\ ~n2.neg  -> -1
    [] ~n1.neg /\ n2.neg  -> 1
    [] OTHER              -> Magnitude(n1, n2)

bc_is_neg(n)  == n.neg
bc_is_zero(n) == IsZeros(Digits(n))

(* All digits up to scale are 0, or the last of them is 1.                 *)
bc_is_near_zero(n, scale) ==
  LET ds == n.int \o SubSeq(n.frac, 1, Min({scale, Len(n.frac)}))
  IN IsZeros(Front(ds)) /\ Last(ds) \in {0, 1}

-----------------------------------------------------------------------------
(* Addition and subtraction.                                               *)

(* The digits of a row of column sums: every column keeps a digit and      *)
(* hands what is above it to the column on its left, or borrows from it.   *)
RECURSIVE Carried(_)
Carried(sums) ==
  IF sums = <<>> THEN [carry |-> 0, digits |-> <<>>]
  ELSE LET right == Carried(Tail(sums))
           value == Head(sums) + right.carry
       IN [carry |-> value \div BASE, digits |-> <<value % BASE>> \o right.digits]

(* Digits aligned at the point, in length places before it and scale after.*)
Aligned(n, length, scale) ==
  Zeros(length - Len(n.int)) \o Digits(n) \o Zeros(scale - Len(n.frac))

MaxScale(n1, n2, scale) == Max({Len(n1.frac), Len(n2.frac), scale})

do_add(n1, n2, scale_min) ==
  LET length == Max({Len(n1.int), Len(n2.int)}) + 1
      scale  == MaxScale(n1, n2, scale_min)
      a == Aligned(n1, length, scale)
      b == Aligned(n2, length, scale)
  IN Pointed(Carried([i \in DOMAIN a |-> a[i] + b[i]]).digits, length)

(* n1 is the larger.                                                       *)
do_sub(n1, n2, scale_min) ==
  LET length == Max({Len(n1.int), Len(n2.int)})
      scale  == MaxScale(n1, n2, scale_min)
      a == Aligned(n1, length, scale)
      b == Aligned(n2, length, scale)
  IN Pointed(Carried([i \in DOMAIN a |-> a[i] - b[i]]).digits, length)

(* The difference of the magnitudes; lessNeg and moreNeg are the signs it  *)
(* gets when n1 is the smaller and when it is the larger.                  *)
Difference(n1, n2, scale_min, lessNeg, moreNeg) ==
  CASE Magnitude(n1, n2) = -1 -> WithSign(do_sub(n2, n1, scale_min), lessNeg)
    [] Magnitude(n1, n2) = 0  -> bc_new_num(1, MaxScale(n1, n2, scale_min))
    [] Magnitude(n1, n2) = 1  -> WithSign(do_sub(n1, n2, scale_min), moreNeg)

bc_sub(n1, n2, scale_min) ==
  IF n1.neg # n2.neg THEN WithSign(do_add(n1, n2, scale_min), n1.neg)
  ELSE Difference(n1, n2, scale_min, ~n2.neg, n1.neg)

bc_add(n1, n2, scale_min) ==
  IF n1.neg = n2.neg THEN WithSign(do_add(n1, n2, scale_min), n1.neg)
  ELSE Difference(n1, n2, scale_min, n2.neg, n1.neg)

-----------------------------------------------------------------------------
(* Multiplication, on digits without a point.                              *)

(* The products of the digits whose places add up to k from the right.     *)
ColumnSum(u, v, k) ==
  FoldLeft(+, 0, [i \in DOMAIN u |->
                    LET j == Len(u) + Len(v) - k - i
                    IN IF j \in DOMAIN v THEN u[i] * v[j] ELSE 0])

simp_mul(u, v) ==
  LET prodlen == Len(u) + Len(v) + 1
  IN Carried([p \in 1..prodlen |-> ColumnSum(u, v, prodlen - p)]).digits

(* val, shifted to the left, is added to accum, or taken from it.          *)
shift_addsub(accum, val, shift, sub) ==
  Carried([i \in DOMAIN accum |->
             LET j == Len(val) - (Len(accum) - i) + shift
                 d == IF j \in DOMAIN val THEN val[j] ELSE 0
             IN accum[i] + (IF sub THEN -d ELSE d)]).digits

(* The number is split n digits from its right; nothing on the left is 0.  *)
Left(u, n)  == IF Len(u) <= n THEN <<0>> ELSE Strip(SubSeq(u, 1, Len(u) - n))
Right(u, n) == Strip(IF Len(u) < n THEN u ELSE SubSeq(u, Len(u) - n + 1, Len(u)))

(* The product from the products of the halves, m2 with a sign of its own. *)
Joined(m1, m2, m3, negative, n, prodlen) ==
  LET p1 == shift_addsub(Zeros(prodlen), m1, 2 * n, FALSE)
      p2 == shift_addsub(p1, m1, n, FALSE)
      p3 == shift_addsub(p2, m3, n, FALSE)
      p4 == shift_addsub(p3, m3, 0, FALSE)
  IN shift_addsub(p4, m2, n, negative)

RECURSIVE rec_mul(_, _)
rec_mul(u, v) ==
  IF \/ Len(u) + Len(v) < MulBaseDigits
     \/ Len(u) < MulBaseDigits \div 4
     \/ Len(v) < MulBaseDigits \div 4
  THEN simp_mul(u, v)
  ELSE LET n  == (Max({Len(u), Len(v)}) + 1) \div 2
           u1 == Left(u, n)   u0 == Right(u, n)
           v1 == Left(v, n)   v0 == Right(v, n)
           Whole(ds) == Num(FALSE, ds, <<>>)
           d1 == bc_sub(Whole(u1), Whole(u0), 0)
           d2 == bc_sub(Whole(v0), Whole(v1), 0)
           Part(x, y) == IF IsZeros(x) \/ IsZeros(y) THEN <<0>> ELSE rec_mul(x, y)
       IN Joined(Part(u1, v1), Part(d1.int, d2.int), Part(u0, v0), d1.neg # d2.neg,
                 n, Len(u) + Len(v) + 1)

(* A zero has no sign.                                                     *)
Signed(n, neg) == WithSign(n, neg /\ ~bc_is_zero(n))

(* ds with length digits before the point, cut off after scale more.       *)
Cut(ds, length, scale) == Pointed(SubSeq(ds, 1, length + scale), length)

bc_multiply(n1, n2, scale) ==
  LET full_scale == Len(n1.frac) + Len(n2.frac)
      prod_scale == Min({full_scale, MaxScale(n1, n2, scale)})
      Point(ds)  == Cut(ds, Len(ds) - full_scale, prod_scale)
  IN Signed(Point(rec_mul(Digits(n1), Digits(n2))), n1.neg # n2.neg)

-----------------------------------------------------------------------------
(* Division.                                                               *)

(* A place is added for the carry.                                         *)
one_mult(ds, digit) == Carried([i \in 1..(Len(ds) + 1) |->
                                  IF i = 1 THEN 0 ELSE ds[i - 1] * digit]).digits

(* The guess of a quotient digit from the two leading digits of d and the  *)
(* three of r, which is the rest with a zero before it; it may be one too  *)
(* large still.  Mutant: the first guess.                                  *)
GuessUncorrected(r, d) ==
  IF d[1] = r[1] THEN BASE - 1 ELSE (r[1] * BASE + r[2]) \div d[1]
Guess(r, d) ==
  LET first == IF d[1] = r[1] THEN BASE - 1 ELSE (r[1] * BASE + r[2]) \div d[1]
      TooLarge(g) == d[2] * g > (r[1] * BASE + r[2] - d[1] * g) * BASE + r[3]
      Less(g) == IF TooLarge(g) THEN g - 1 ELSE g
  IN Less(Less(first))

(* One digit of the quotient of r by d, of length len and a zero: the      *)
(* product is taken from the rest, and d is added back to it if that was   *)
(* too much.                                                               *)
QuotientDigit(r, d, len) ==
  LET guess   == Guess(r, d)
      divisor == SubSeq(d, 1, len)
      mval    == one_mult(divisor, guess)
      less    == Carried([i \in 1..(len + 1) |-> r[i] - mval[i]])
      back    == Carried([i \in 1..(len + 1) |->
                            less.digits[i] + (IF i = 1 THEN 0 ELSE divisor[i - 1])])
      Rest(ds) == ds \o SubSeq(r, len + 2, Len(r))
  IN IF less.carry < 0 THEN [digit |-> guess - 1, rest |-> Rest(back.digits)]
     ELSE [digit |-> guess, rest |-> Rest(less.digits)]

(* count digits of the quotient.                                           *)
RECURSIVE Quotient(_, _, _, _)
Quotient(r, d, len, count) ==
  IF count = 0 THEN <<>>
  ELSE LET q == QuotientDigit(r, d, len)
       IN <<q.digit>> \o Quotient(Tail(q.rest), d, len, count - 1)

(* n1 / n2, which is not zero (the code returns -1 then and no quotient).  *)
bc_divide(n1, n2, scale) ==
  LET scale2 == Max({i \in DOMAIN n2.frac : n2.frac[i] # 0} \cup {0})
      num2   == Strip(n2.int \o SubSeq(n2.frac, 1, scale2))
      len1   == Len(n1.int) + scale2
      len2   == Len(num2)
      extra  == Max({0, scale - (Len(n1.frac) - scale2)})
      norm   == BASE \div (num2[1] + 1)
      r      == one_mult(Digits(n1) \o Zeros(extra), norm) \o <<0>>
      d      == Tail(one_mult(num2, norm)) \o <<0>>
      length == Max({len1 - len2, 0}) + 1
      qs     == Zeros(Max({len2 - len1, 0})) \o Quotient(r, d, len2, len1 + scale - len2 + 1)
  IN IF len2 > len1 + scale THEN bc_new_num(1, scale)
     ELSE Signed(Pointed(qs, length), n1.neg # n2.neg)

bc_divmod(num1, num2, scale) ==
  LET rscale == Max({Len(num1.frac), Len(num2.frac) + scale})
      quot   == bc_divide(num1, num2, scale)
  IN [quot |-> quot, rem |-> bc_sub(num1, bc_multiply(quot, num2, rscale), rscale)]

bc_modulo(num1, num2, scale) == bc_divmod(num1, num2, scale).rem

-----------------------------------------------------------------------------
(* Powers and roots.                                                       *)

(* The integer part as a long, 0 if it is too large for one.               *)
RECURSIVE AsLong(_, _)
AsLong(val, ds) ==
  IF ds = <<>> THEN IF val > LongMax THEN 0 ELSE val
  ELSE IF val > LongMax \div BASE THEN 0
  ELSE AsLong(val * BASE + Head(ds), Tail(ds))

bc_num2long(n) == IF n.neg THEN - AsLong(0, n.int) ELSE AsLong(0, n.int)

Squared(n) == bc_multiply(n, n, 2 * Len(n.frac))

(* The factor left when the exponent has been halved until it is odd, and  *)
(* the product of the factors for the bits above.                          *)
RECURSIVE Odd(_, _), Raised(_, _, _)
Odd(power, e) == IF e % 2 = 0 THEN Odd(Squared(power), e \div 2)
                 ELSE [power |-> power, rest |-> e \div 2]
Raised(temp, power, e) ==
  IF e = 0 THEN temp
  ELSE LET p == Squared(power)
       IN Raised(IF e % 2 = 1 THEN bc_multiply(temp, p, Len(p.frac) + Len(temp.frac))
                 ELSE temp, p, e \div 2)

RaisedFrom(odd) == Raised(odd.power, odd.power, odd.rest)

(* 1 for an exponent too large; 0, the result's old value, for a negative  *)
(* power of 0.                                                             *)
bc_raise(num1, num2, scale) ==
  LET exponent == bc_num2long(num2)
      e        == IF exponent < 0 THEN - exponent ELSE exponent
      rscale   == Min({Len(num1.frac) * e, Max({scale, Len(num1.frac)})})
      Result(temp) ==
        IF exponent > 0 THEN [temp EXCEPT !.frac = SubSeq(@, 1, Min({rscale, Len(@)}))]
        ELSE IF bc_is_zero(temp) THEN Zero ELSE bc_divide(One, temp, scale)
  IN IF exponent = 0 THEN One ELSE Result(RaisedFrom(Odd(num1, e)))

(* base ^ expo modulo mod, bit by bit of the exponent.                     *)
RECURSIVE RaiseMod(_, _, _, _, _, _)
RaiseMod(temp, power, exponent, mod, rscale, scale) ==
  IF bc_is_zero(exponent) THEN temp
  ELSE LET half == bc_divmod(exponent, Two, 0)
           Reduced(n) == bc_modulo(n, mod, scale)
       IN RaiseMod(IF bc_is_zero(half.rem) THEN temp
                   ELSE Reduced(bc_multiply(temp, power, rscale)),
                   Reduced(bc_multiply(power, power, rscale)),
                   half.quot, mod, rscale, scale)

(* mod is not zero and expo not negative (the code returns -1 then).       *)
bc_raisemod(base, expo, mod, scale) ==
  RaiseMod(One, base, IF expo.frac = <<>> THEN expo ELSE bc_divide(expo, One, 0),
           mod, Max({scale, Len(base.frac)}), scale)

(* Newton's method, with cscale digits until two guesses agree, then with  *)
(* more, up to one more than asked for.                                    *)
Point5 == Num(FALSE, <<0>>, <<5>>)

RECURSIVE Newton(_, _, _, _)
Newton(n, guess1, cscale, rscale) ==
  LET Near(guess) == bc_is_near_zero(bc_sub(guess, guess1, cscale + 1), cscale)
      Step(guess) ==
        CASE ~Near(guess) -> Newton(n, guess, cscale, rscale)
          [] Near(guess) /\ cscale < rscale + 1 ->
               Newton(n, guess, Min({cscale * 3, rscale + 1}), rscale)
          [] OTHER -> guess
  IN Step(bc_multiply(bc_add(bc_divide(n, guess1, cscale), guess1, 0), Point5, cscale))

(* n is not negative (the code returns 0 then).                            *)
bc_sqrt(n, scale) ==
  LET rscale == Max({scale, Len(n.frac)})
      start  == Num(FALSE, <<1>> \o Zeros(Len(n.int) \div 2), <<>>)
      guess  == IF bc_compare(n, One) < 0 THEN Newton(n, One, Len(n.frac), rscale)
                ELSE Newton(n, start, 3, rscale)
  IN IF bc_compare(n, Zero) = 0 THEN Zero
     ELSE IF bc_compare(n, One) = 0 THEN One
     ELSE bc_divide(guess, One, rscale)

-----------------------------------------------------------------------------
(* Texts: a sign, digits before and after the point, and whether anything  *)
(* else is in it.                                                          *)

Text(sign, int, frac) == [sign |-> sign, int |-> int, frac |-> frac, junk |-> FALSE]

(* What is no number is 0; leading zeros are skipped and what is after     *)
(* scale digits of the fraction.                                           *)
bc_str2num(t, scale) ==
  LET int == IF IsZeros(t.int) THEN <<>> ELSE Strip(t.int)
  IN IF t.junk \/ int \o t.frac = <<>> THEN Zero
     ELSE Num(t.sign = "-", IF int = <<>> THEN <<0>> ELSE int,
              SubSeq(t.frac, 1, Min({scale, Len(t.frac)})))

(* In base 10; a zero before the point is not written.                     *)
bc_out_num(n) ==
  LET sign == IF n.neg THEN "-" ELSE ""
  IN IF bc_is_zero(n) THEN Text(sign, <<0>>, <<>>)
     ELSE Text(sign, IF n.int = <<0>> THEN <<>> ELSE n.int, n.frac)
=============================================================================
