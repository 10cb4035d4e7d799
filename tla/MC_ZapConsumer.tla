--------------------------- MODULE MC_ZapConsumer ---------------------------
(***************************************************************************)
(* Small instances of ZapConsumer: four ticks of two prices each, the      *)
(* range in the middle two; two zaps out of two positions.                 *)
(***************************************************************************)
EXTENDS ZapConsumer, TLC

CONSTANTS o1, o2

MCOuts  == {o1, o2}
OutsAlike == Permutations(MCOuts)
MCRates == {[x |-> 1, y |-> 1], [x |-> 1, y |-> 3], [x |-> 2, y |-> 1], [x |-> 3, y |-> 2]}

\* Nothing of Y at the lower end of the range, four for each X at the upper.
MCYPerX ==
  [p \in {q \in SqrtPrices : InRange(q)} |->
     CASE p = 2 -> [n |-> 0, d |-> 1] [] p = 3 -> [n |-> 1, d |-> 4]
       [] p = 4 -> [n |-> 1, d |-> 1] [] p = 5 -> [n |-> 4, d |-> 1]]

MCFirstPositions == {<<2, 1>>}
=============================================================================
