------------------------------ MODULE MC_BcNum ------------------------------
(* The texts TLC is given for BcNum.                                       *)
EXTENDS BcNum

Written(sign, int, frac) == Text(sign, int, frac)

(* Digits that carry and borrow over several places, guesses of a quotient *)
(* that are too large, and the forms a number may be written in.           *)
MCTexts ==
  {Written("", i, f) : i \in {<<0>>, <<1>>, <<9>>, <<1, 0>>, <<4, 5>>, <<9, 9>>},
                       f \in {<<>>, <<0>>, <<5>>}}
  \cup {Written("", <<d>>, <<9, 1>>) : d \in {0, 5, 9}}
  \cup {Written("-", i, f) : i \in {<<0>>, <<7>>}, f \in {<<>>, <<0, 1>>, <<8>>}}
  \cup {Written("-", <<8, 0>>, f) : f \in {<<>>, <<4>>}}
  \cup {Written("+", <<>>, <<0, 1, 9>>), Written("", <<0, 0, 9>>, <<1>>),
        [Written("", <<1>>, <<>>) EXCEPT !.junk = TRUE], NIL}
MCExponents == {Written(g, <<d>>, <<>>) : g \in {"", "-"}, d \in 0..3}
               \cup {Written("", <<2>>, <<9>>), Written("", <<1, 0, 1>>, <<>>),
                   Written("", <<2, 0, 0>>, <<>>)}
MCModulus == Written("", <<7>>, <<>>)
MCScales == {-1, 0, 2}
=============================================================================
