----------------------------- MODULE MC_RemoteSwap -----------------------------
(***************************************************************************)
(* Small instances of ClassicSwap and RemoteSwap: a pool that gives two,   *)
(* four or five for one, a slippage of a fifth, affiliates that get a      *)
(* tenth.                                                                  *)
(***************************************************************************)
EXTENDS RemoteSwap

CONSTANTS s1, s2, alice, other

MCSwaps    == {s1, s2}
MCAccounts == {alice, other}

To(chain) ==
  [from |-> "Oraichain", to |-> chain, swap |-> TRUE, routes |-> <<2>>,
   slippage |-> 20, basisPoints |-> 0, legacy |-> FALSE, native |-> FALSE,
   relayerFee |-> 0, toOrai |-> FALSE, recipient |-> "none",
   address |-> TRUE, alpha |-> FALSE, ibcWasm |-> FALSE, skipChecks |-> FALSE]

\* Transfers over both kinds of channels, with affiliates, with two routes, to a
\* recipient, without a swap; swaps that stay on Oraichain.
MCTransfers ==
  {[To("cosmos") EXCEPT !.basisPoints = 1000, !.recipient = "valid"],
   [To("evm") EXCEPT !.basisPoints = 1000, !.routes = <<1, 1>>],
   [To("wasm") EXCEPT !.swap = FALSE, !.skipChecks = TRUE],
   [To("Oraichain") EXCEPT !.recipient = "valid"]}

\* And those that go elsewhere, or nowhere.
MCElsewhere ==
  {[To("cosmos") EXCEPT !.recipient = "invalid"], [To("evm") EXCEPT !.alpha = TRUE],
   [To("evm") EXCEPT !.legacy = TRUE], [To("evm") EXCEPT !.from = "ton"],
   [To("ton") EXCEPT !.skipChecks = TRUE], [To("evm") EXCEPT !.address = FALSE]}

\* From another chain, with a memo.
From(chain, to) == [To(to) EXCEPT !.from = chain, !.ibcWasm = TRUE, !.relayerFee = 1]

MCRemote ==
  {From("cosmos", "cosmos"),
   [From("cosmos", "evm") EXCEPT !.recipient = "valid"],
   [From("cosmos", "Oraichain") EXCEPT !.swap = FALSE, !.relayerFee = 2, !.toOrai = TRUE],
   [From("cosmos", "evm") EXCEPT !.ibcWasm = FALSE],
   [From("noble", "cosmos") EXCEPT !.recipient = "valid"],
   [From("evm", "cosmos") EXCEPT !.recipient = "valid"],
   [From("evm", "Oraichain") EXCEPT !.native = TRUE]}

\* To a recipient on Oraichain.
MCToRecipient ==
  {[From("noble", "Oraichain") EXCEPT !.recipient = "valid", !.ibcWasm = FALSE],
   [From("cosmos", "Oraichain") EXCEPT !.recipient = "valid"],
   [From("noble", "Oraichain") EXCEPT !.recipient = "valid"]}

MCRequests == MCTransfers \cup MCElsewhere \cup MCRemote \cup MCToRecipient

\* A call from another chain meets no other: it has nothing in common with one.
Alone == request[s2] = [To("cosmos") EXCEPT !.recipient = "invalid"]
MCInit == RemoteInit /\ (Remote(s1) => Alone) /\ ~Remote(s2)
MCSpec == MCInit /\ [][RemoteNext]_<<vars, remoteVars>> /\ RemoteFairness
=============================================================================
