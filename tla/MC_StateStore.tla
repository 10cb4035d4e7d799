--------------------------- MODULE MC_StateStore ---------------------------
(***************************************************************************)
(* A small instance of StateStore: two rows of one table, each of which may*)
(* be inserted more than once, and a row of the table without a sequence.  *)
(***************************************************************************)
EXTENDS StateStore, TLC

MCRows == {[table |-> "EvmState", key |-> 1],
           [table |-> "OraichainState", key |-> 1],
           [table |-> "OraichainState", key |-> 2]}

\* Clients differ in nothing but their name.
ClientSymmetry == Permutations(Clients)
=============================================================================
