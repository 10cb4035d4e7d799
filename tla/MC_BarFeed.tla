----------------------------- MODULE MC_BarFeed -----------------------------
(***************************************************************************)
(* Small instances of BarFeed: two pairs, candles of one and of two units  *)
(* of time, gaps in the trades.                                            *)
(***************************************************************************)
EXTENDS BarFeed

MCTickers == {"ORAI/USDT", "ORAIX/USDT"}
MCHistories ==
  {[t \in MCTickers |-> IF t = "ORAI/USDT" THEN {1, 3} ELSE {2}]}

Window(from, to, n) == [from |-> from, to |-> to, countBack |-> n]
MCPeriodParams == {Window(0, 3, 3), Window(1, 3, 1)}
=============================================================================
