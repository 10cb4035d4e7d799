--------------------------- MODULE MC_PagedQuery ---------------------------
(***************************************************************************)
(* Small instances of PagedQuery: pages of two, so that four or five       *)
(* entries are three pages.                                                *)
(***************************************************************************)
EXTENDS PagedQuery

MCMethods == UntilShort \cup Counted \cup {"getAllLiquidityTicks"}
=============================================================================
