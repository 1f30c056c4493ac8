-------------------------- MODULE MCExpertParallel --------------------------
EXTENDS ExpertParallel

\* Two experts a token: on both ranks, the second first, or both on the first.
MCRouting(n) ==
  CASE n = 1 -> {<<2, 0>>, <<1, 0>>}
    [] n = 2 -> {<<2, 0, 0, 1>>, <<1, 0, 0, 2>>}
    [] OTHER -> {<<0, 2, 0, 2, 2, 0>>, <<0, 1, 1, 2, 0, 2>>}

\* Peer access in one direction only.
MCLinks == {<<1, 0>>}

Small == [first |-> 1, tokens |-> 1, flat |-> TRUE]
Pair  == [first |-> 2, tokens |-> 2, flat |-> TRUE]
Large == [first |-> 3, tokens |-> 3, flat |-> TRUE]
Deep  == [first |-> 1, tokens |-> 2, flat |-> FALSE]

\* Ranks that agree, ranks one of which has more exchanges than the other,
\* ranks whose exchanges are in different passes, and no exchange at all.
MCLoads ==
  LET both(x, y) == [r \in {0, 1} |-> IF r = 0 THEN x ELSE y] IN
  {both(<<Pair, Small>>, <<Small, Pair>>), both(<<Small>>, <<Large, Small>>),
   both(<<Deep, Pair>>, <<Small>>), both(<<Large>>, <<Small>>),
   both(<<Large, Large>>, <<Large>>), both(<<Deep, Small>>, <<Deep, Pair>>)}

Full == {0, 1, 2}
MCRegistries ==
  {<<Full, Full>>, <<{0, 1}, {2}>>, <<{0, 2}, {1, 2}>>}
MCHeld == {[r \in {0, 1} |-> p[r + 1]] : p \in MCRegistries}

NoFault == [group |-> FALSE, engine |-> {}, export |-> {}, refused |-> {},
            cut |-> {}, import |-> {}]
MCFaults ==
  {NoFault, [NoFault EXCEPT !.group = TRUE],
   [NoFault EXCEPT !.engine = {<<0, 2>>}, !.import = {1}],
   [NoFault EXCEPT !.export = {<<1, 1>>}, !.cut = {<<0, 2>>}],
   [NoFault EXCEPT !.refused = {<<1, 1>>}],
   [NoFault EXCEPT !.refused = {<<0, 2>>, <<1, 1>>}]}
=============================================================================
