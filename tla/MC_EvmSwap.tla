----------------------------- MODULE MC_EvmSwap -----------------------------
(***************************************************************************)
(* Small instances of EvmSwap: ETH, USDT and another token on Ethereum and *)
(* one on Tron, and a request for every way through transferAndSwap.       *)
(***************************************************************************)
EXTENDS EvmSwap

CONSTANTS s1, s2, eth, usdt, erc, trc

MCSwaps  == {s1, s2}
MCAssets == {eth, usdt, erc, trc}
MCNative == {eth}
MCUsdt   == {usdt}
MCTron   == {trc}

\* Assets do not interact: all may start alike.
MCAllowances ==
  {[k \in MCAssets \X Spenders |-> IF k[2] = Gravity THEN g ELSE 0] : g \in 0..2}
MCRouterAllowances ==
  {[k \in MCAssets \X Spenders |-> IF k[2] = Gravity THEN g ELSE r] :
     g \in {0, 1}, r \in 0..2}
MCBalances == {[a \in MCAssets |-> b] : b \in {2, 4}}

Deposit1(a) ==
  [asset |-> a, amount |-> 1, to |-> "token", sameChain |-> FALSE,
   swappable |-> FALSE, twin |-> "none", twinSwappable |-> FALSE,
   noPool |-> FALSE, recipient |-> "none", checks |-> TRUE, address |-> TRUE,
   wallet |-> TRUE]

SwapTo(a, to) ==
  [Deposit1(a) EXCEPT !.to = to, !.sameChain = TRUE, !.swappable = TRUE,
                      !.twin = to, !.twinSwappable = TRUE]

NoPool(a) == [Deposit1(a) EXCEPT !.twin = "token", !.twinSwappable = TRUE,
                                 !.noPool = TRUE]

Twice(r) == {r, [r EXCEPT !.amount = 2]}

\* Gravity deposits, swaps to ETH, swaps bridged to Oraichain, and the requests
\* that are refused or that nobody can sign.
MCRequests ==
  Twice(Deposit1(usdt)) \cup Twice(Deposit1(erc)) \cup Twice(Deposit1(trc))
    \cup Twice(SwapTo(usdt, "native"))
    \cup {NoPool(eth), NoPool(erc), SwapTo(eth, "token")}
    \cup {[Deposit1(usdt) EXCEPT !.wallet = FALSE],
          [Deposit1(usdt) EXCEPT !.checks = FALSE],
          [SwapTo(usdt, "native") EXCEPT !.wallet = FALSE],
          [SwapTo(usdt, "native") EXCEPT !.recipient = "other"],
          [SwapTo(erc, "native") EXCEPT !.recipient = "evm"]}

\* Swaps of a token for a token on one chain.
MCTokenSwaps  == Twice(SwapTo(erc, "token"))
=============================================================================
