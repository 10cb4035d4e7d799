--------------------------- MODULE MC_SwapJourney ---------------------------
(***************************************************************************)
(* Small instances of SwapJourney: connected routes of up to three paths   *)
(* with well-formed action lists from every chain; routes of up to two     *)
(* paths with lists that have to be refused; each missing address in turn; *)
(* a bad recipient and a bad slippage; and routes behind a deposit.        *)
(***************************************************************************)
EXTENDS SwapJourney, SequencesExt

Bridging == {<<"Bridge">>, <<"Swap", "Bridge">>}
Staying  == {<<"Swap">>}
AnyBridging == Bridging \cup {<<"Convert", "Swap", "Bridge">>, <<"Bridge", "Swap">>,
                              <<"Bridge", "Bridge">>}
AnyStaying  == Staying \cup {<<"Swap", "Convert">>, <<>>}

MkPath(p, c, d, shape, port) ==
  [chain |-> c, out |-> d, jetton |-> TRUE,
   actions |-> [k \in DOMAIN shape |->
                  [type |-> shape[k],
                   port |-> IF shape[k] = "Bridge" THEN port ELSE "none",
                   op   |-> <<p, k>>]]]

\* The ports of ibc-info.ts; that of the TON bridge is a fake one in the tests.
PortBetween(c, d) ==
  IF c = Oraichain /\ d \in EvmChains \cup {Noble} THEN "wasm" ELSE "transfer"

Destinations(c) == (IF c = Oraichain THEN Chains ELSE CosmosChains) \ {c}

PathsFrom(p, c, bridging, staying) ==
  {MkPath(p, c, d, s, PortBetween(c, d)) : d \in Destinations(c), s \in bridging}
    \cup {MkPath(p, c, c, s, "none") : s \in staying}

\* The routes of one path, and those of one path more.
Starting(starts, bridging, staying) ==
  UNION {{<<x>> : x \in PathsFrom(1, c, bridging, staying)} : c \in starts}

Longer(routes, bridging, staying) ==
  UNION {{Append(r, x) : x \in PathsFrom(Len(r) + 1, Last(r).out, bridging, staying)}
           : r \in {q \in routes : HasBridge(Last(q)) /\ Last(q).out \in CosmosChains}}

OnePath(starts)    == Starting(starts, Bridging, Staying)
TwoPaths(starts)   == Longer(OnePath(starts), Bridging, Staying)
ThreePaths(starts) == Longer(TwoPaths(starts), Bridging, Staying)
AnyOnePath  == Starting({Oraichain, Osmosis}, AnyBridging, AnyStaying)
NoJetton    == {[r EXCEPT ![Len(r)].jetton = FALSE] :
                  r \in {q \in TwoPaths({Oraichain, Osmosis}) \cup OnePath({Oraichain}) :
                          Last(q).out = Ton}}
AnyTwoPaths == Longer(OnePath({Oraichain, Osmosis}), AnyBridging, AnyStaying)

FullBook == [c \in Chains \cup {OBridge} |-> UserAt(c)]
Books    == {FullBook} \cup {[FullBook EXCEPT ![c] = NoAddress] : c \in DOMAIN FullBook}

\* checkValidateAddressWithNetwork accepts no recipient on other EVM chains.
RequestsFor(routes, books, recipients, slippages, previous) ==
  {r \in [route : routes, book : books, recipient : recipients,
          slippage : slippages, previous : previous] :
     r.recipient = "valid" => Last(r.route).out \notin EvmChains \ PrefixChains}

\* Swaps that the user signs on a cosmos chain, and swaps behind a deposit.
MCRequests ==
  UNION {
    RequestsFor(ThreePaths(CosmosChains), {FullBook}, {"valid"}, {"within"}, {"none"}),
    RequestsFor(TwoPaths(CosmosChains), {FullBook}, {"none", "valid"}, {"within"}, {"none"}),
    RequestsFor(NoJetton, {FullBook}, {"none"}, {"within"}, {"none"}),
    RequestsFor({r \in NoJetton : r[1].chain = Oraichain}, {FullBook}, {"none"}, {"within"}, {Ton}),
    RequestsFor(AnyTwoPaths, Books, {"none"}, {"within"}, {"none"}),
    RequestsFor(AnyOnePath \cup {<<>>}, Books, {"none"}, {"within"}, {"none"}),
    RequestsFor(OnePath(CosmosChains), {FullBook}, {"valid", "invalid"},
                {"within", "outside"}, {"none"}),
    RequestsFor(ThreePaths({Oraichain}), {FullBook}, {"none"}, {"within"}, {Ton} \cup PrefixChains),
    RequestsFor(TwoPaths({Oraichain}), {FullBook}, {"valid"}, {"within"}, {Ton} \cup PrefixChains),
    RequestsFor(OnePath({Oraichain}) \cup {<<>>}, Books, {"none", "invalid"}, {"within"}, {Ton}) }

\* A swap on Oraichain to Tron, for another recipient.
TronRequests ==
  RequestsFor({r \in OnePath({Oraichain}) : r[1].out \in Base58Chains}, {FullBook},
              {"none", "valid"}, {"within"}, {"none"})
=============================================================================
