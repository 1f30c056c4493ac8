---------------------------- MODULE MCMoEForward ----------------------------
EXTENDS MoEForward

CONSTANTS p1, p2

\* Pairs of experts a router may choose for one token, best first.
MCChoices == {<<0, 1>>, <<1, 2>>, <<2, 0>>}

\* Up to three tokens; the first of three always makes the same choice.
MCRouting ==
  UNION {{[i \in Index(2 * n) |-> r[i \div 2][(i % 2) + 1]] :
            r \in {r \in [Index(n) -> MCChoices] : n = 3 => r[0] = <<0, 1>>}} :
         n \in 0 .. 3}

MCSetup ==
  [dispatch : {"counting_scatter"}, backend : {"pytorch"}, metadata : {TRUE}, limit : {2}]
  \cup [dispatch : {"stable_sort"}, backend : {"pytorch"}, metadata : {FALSE}, limit : {3}]
  \cup [dispatch : {"triton_counting_scatter"}, backend : {"triton"}, metadata : {TRUE}, limit : {2}]
  \cup [dispatch : {"triton_counting_scatter"}, backend : {"triton"}, metadata : {FALSE}, limit : {3}]
=============================================================================
