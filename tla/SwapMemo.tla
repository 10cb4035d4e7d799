------------------------------ MODULE SwapMemo ------------------------------
(***************************************************************************)
(* How universal-swap turns one route of the smart router into messages:   *)
(* packages/universal-swap/src/msg.  A route is a sequence of paths, one   *)
(* per chain; the message for the first path is signed by the user, and    *)
(* each later path becomes a memo nested in the message before it.         *)
(*                                                                         *)
(* A memo is a JSON or protobuf text that contains the memo of the next    *)
(* path, which contains the next.  Here it is the sequence of those        *)
(* instructions, outermost first: nesting is <<instruction>> \o memo.      *)
(*                                                                         *)
(* Every builder is a pair: the condition under which the TypeScript code  *)
(* does not throw, and the value it then returns.                          *)
(***************************************************************************)
EXTENDS Naturals, Sequences

CONSTANTS
  HubChains,     \* cosmos chains served by the default branch of buildMemoSwap
  EvmChains,     \* chain ids that start with "0x"; the chain configuration,
                 \* which is loaded from elsewhere, lists them as EVM chains
  PrefixChains,  \* EVM chains that have an OraiBridge denom prefix
  Base58Chains   \* EVM chains whose users write addresses in base58 (Tron)

Oraichain == "Oraichain"
Osmosis   == "osmosis-1"
Noble     == "noble-1"
Ton       == "ton"
OBridge   == "oraibridge-subnet-2"

ASSUME ChainsAssumption ==
  /\ PrefixChains \subseteq EvmChains
  /\ Base58Chains \subseteq EvmChains
  /\ HubChains \cap EvmChains = {}
  /\ {Oraichain, Osmosis, Noble, Ton, OBridge, "nowhere", "none"}
       \cap (HubChains \cup EvmChains) = {}

CosmosChains == HubChains \cup {Oraichain, Osmosis, Noble}
Chains       == CosmosChains \cup EvmChains \cup {Ton}

-----------------------------------------------------------------------------
(***************************************************************************)
(* Addresses.  Only the chain, the owner and the encoding matter.          *)
(***************************************************************************)
Address == [chain : Chains \cup {OBridge, "nowhere"},
            owner : {"user", "recipient", "entry_point", "ibc_wasm", "nobody"},
            form  : {"hex", "base58", "plain"}]

NoAddress == [chain |-> "nowhere", owner |-> "nobody", form |-> "plain"]

\* The user's own address, as generateAddress lists it: hexadecimal on EVM
\* chains, because the handler converts a Tron address before it puts it there.
UserAt(c) == [chain |-> c, owner |-> "user",
              form  |-> IF c \in EvmChains THEN "hex" ELSE "plain"]

\* A recipient that passes checkValidateAddressWithNetwork for its chain.
RecipientAt(c) == [chain |-> c, owner |-> "recipient",
                   form  |-> CASE c \in Base58Chains -> "base58"
                               [] c \in EvmChains \ Base58Chains -> "hex"
                               [] OTHER -> "plain"]

\* ENTRY_POINT_CONTRACT of OraichainMsg and of OsmosisMsg, IBC_WASM_CONTRACT.
EntryPoint(c) == [chain |-> c, owner |-> "entry_point", form |-> "plain"]
IbcWasm       == [chain |-> Oraichain, owner |-> "ibc_wasm", form |-> "plain"]

IsEthAddress(a) == a.form = "hex"

\* The chains whose transfers reach Oraichain through the ibc-wasm contract.
WasmLinked == {Noble, Ton} \cup EvmChains

-----------------------------------------------------------------------------
(***************************************************************************)
(* Routes.  "op" names an action of the route, <<path, position>>, and     *)
(* "jetton" says whether JETTONS_ADDRESS lists the token the path puts out.*)
(***************************************************************************)
Action == [type : {"Swap", "Convert", "Bridge"},
           port : {"transfer", "wasm", "none"},
           op   : Nat \X Nat]

Path == [chain : Chains, out : Chains, actions : Seq(Action), jetton : BOOLEAN]

IsBridge(a) == a.type = "Bridge"
BridgesOf(path) == {k \in DOMAIN path.actions : IsBridge(path.actions[k])}
HasBridge(path) == BridgesOf(path) # {}

\* The loop keeps the last Bridge it meets.
BridgeOf(path) ==
  path.actions[CHOOSE k \in BridgesOf(path) : \A j \in BridgesOf(path) : j <= k]

\* The other actions: a valid path has its only Bridge last.
SwapOpsOf(path) ==
  IF HasBridge(path) THEN SubSeq(path.actions, 1, Len(path.actions) - 1)
                     ELSE path.actions

\* Mutant: a Bridge is accepted anywhere in the path.
ValidatePathAnyOrder(path) ==
  path.actions # <<>> /\ \A j, k \in BridgesOf(path) : j = k

ValidatePath(path) ==
  /\ path.actions # <<>>
  /\ \A j, k \in BridgesOf(path) : j = k
  /\ HasBridge(path) => IsBridge(path.actions[Len(path.actions)])

\* Mutant: the current address is not looked at.
ValidateReceiverOnly(receiver, current) == receiver # NoAddress

ValidateReceiver(receiver, current) ==
  receiver # NoAddress /\ current # NoAddress

-----------------------------------------------------------------------------
(***************************************************************************)
(* A leg is the transfer that ends the work of a path on its chain.        *)
(*   via      how the tokens leave: a local transfer, ICS20, the ibc-wasm  *)
(*            contract, or the TON bridge adapter                          *)
(*   to       the receiver written in the transfer                         *)
(*   final    who is credited in the end: differs from "to" when OraiBridge*)
(*            hands the tokens over to an EVM chain                        *)
(*   recover  the address the message names for a transfer that fails      *)
(***************************************************************************)
Leg == [via : {"local", "ibc", "wasm", "ton"}, from : Chains, chain : Chains,
        to : Address, final : Address, recover : Address, ops : Seq(Action)]

LocalLeg(path, receiver) ==
  [via |-> "local", from |-> path.chain, chain |-> path.chain,
   to |-> receiver, final |-> receiver, recover |-> NoAddress, ops |-> <<>>]

IbcLeg(path, receiver, recover) ==
  [via |-> "ibc", from |-> path.chain, chain |-> path.out,
   to |-> receiver, final |-> receiver, recover |-> recover,
   ops |-> <<BridgeOf(path)>>]

TonLeg(path, receiver, recover) ==
  [IbcLeg(path, receiver, recover) EXCEPT !.via = "ton"]

\* isBridgeToEvm: the tokens go to the user's OraiBridge address, and the
\* receiver moves into the memo.
WasmLeg(path, receiver, obridge, recover) ==
  [IbcLeg(path, receiver, recover) EXCEPT
     !.via = "wasm",
     !.to  = IF IsEthAddress(receiver) THEN obridge ELSE receiver]

\* Mutant: the ibc-wasm transfer forgets the memo of the next path.
CarriedByIbcOnly(leg, memo) == IF leg.via = "ibc" THEN memo ELSE <<>>

\* Only these transfers take the memo of the next path along.
Carried(leg, memo) ==
  IF leg.via = "ibc" \/ (leg.via = "wasm" /\ leg.to = leg.final)
  THEN memo ELSE <<>>

-----------------------------------------------------------------------------
(***************************************************************************)
(* Oraichain (chains/oraichain.ts).                                        *)
(***************************************************************************)

\* getDestPrefixForBridgeToEvmOnOrai throws for other 0x chains.
PrefixKnown(out) == out \in EvmChains => out \in PrefixChains

\* A receiver on an EVM chain needs a prefix and an OraiBridge address.  The port
\* "wasm" is that prefix and the address of a contract, as in ibc-info.ts: without
\* the address, which no list of the repository leaves out, genBridgeMsg throws.
CanWasmLeg(path, receiver, obridge) ==
  /\ BridgeOf(path).port = "wasm"
  /\ IsEthAddress(receiver) => path.out \in PrefixChains /\ obridge # NoAddress

CanPostAction(path, receiver, obridge) ==
  HasBridge(path) =>
    IF path.out = Ton THEN path.jetton
    ELSE BridgeOf(path).port = "transfer" \/ CanWasmLeg(path, receiver, obridge)

PostAction(path, receiver, current, obridge) ==
  CASE ~HasBridge(path) -> LocalLeg(path, receiver)
    [] HasBridge(path) /\ path.out = Ton -> TonLeg(path, receiver, current)
    [] HasBridge(path) /\ path.out # Ton /\ BridgeOf(path).port = "transfer" ->
         IbcLeg(path, receiver, current)
    [] OTHER -> WasmLeg(path, receiver, obridge, NoAddress)

\* The same four cases, as a protobuf message.
ProtoForPostAction(path, receiver, current, obridge) ==
  PostAction(path, receiver, current, obridge)

(***************************************************************************)
(* An instruction is what one path's memo asks of the chain that reads it. *)
(*   reader    packet-forward middleware, ibc-hooks, or ibc-wasm's memo    *)
(*   contract  the contract that ibc-hooks is to call                      *)
(*   recover   recoveryAddr of the ibc-wasm memo                           *)
(***************************************************************************)
Instruction == [reader : {"forward", "hook", "ibc_wasm"}, contract : Address,
                ops : Seq(Action), leg : Leg, recover : Address]

Response == [receiver : Address, memo : Seq(Instruction)]

\* Mutant: recoveryAddr is the address of the last receiver.
MemoRecoveredByReceiver(path, receiver, memo, current, obridge) ==
  LET leg == ProtoForPostAction(path, receiver, current, obridge) IN
  [receiver |-> current,
   memo     |-> <<[reader |-> "ibc_wasm", contract |-> NoAddress,
                   ops |-> SwapOpsOf(path), leg |-> leg,
                   recover |-> receiver]>> \o Carried(leg, memo)]

MemoForIbcWasm(path, receiver, memo, current, obridge) ==
  LET leg == ProtoForPostAction(path, receiver, current, obridge) IN
  [receiver |-> current,
   memo     |-> <<[reader   |-> "ibc_wasm",
                   contract |-> NoAddress,
                   ops      |-> SwapOpsOf(path),
                   leg      |-> leg,
                   recover  |-> current]>> \o Carried(leg, memo)]

\* A bridge and nothing else: forwarded by the packet-forward middleware.
ForwardMemo(path, receiver, memo, current) ==
  [receiver |-> current,
   memo     |-> <<[reader   |-> "forward",
                   contract |-> NoAddress,
                   ops      |-> <<>>,
                   leg      |-> IbcLeg(path, receiver, NoAddress),
                   recover  |-> NoAddress]>> \o memo]

\* Swaps, then the post action: run by the entry point contract.
EntryPointMemo(path, leg, memo) ==
  [receiver |-> EntryPoint(path.chain),
   memo     |-> <<[reader   |-> "hook",
                   contract |-> EntryPoint(path.chain),
                   ops      |-> SwapOpsOf(path),
                   leg      |-> leg,
                   recover  |-> NoAddress]>> \o Carried(leg, memo)]

\* A bridge to TON and nothing else: ibc-hooks calls the ibc-wasm contract.
TonHookMemo(path, receiver, current) ==
  [receiver |-> IbcWasm,
   memo     |-> <<[reader   |-> "hook",
                   contract |-> IbcWasm,
                   ops      |-> <<>>,
                   leg      |-> TonLeg(path, receiver, current),
                   recover  |-> current]>>]

CanOraichainMiddleware(path, receiver, obridge) ==
  IF SwapOpsOf(path) = <<>>
  THEN IF path.out = Ton THEN path.jetton ELSE BridgeOf(path).port = "transfer"
  ELSE CanPostAction(path, receiver, obridge)

OraichainMiddleware(path, receiver, memo, current, obridge) ==
  CASE SwapOpsOf(path) # <<>> ->
         EntryPointMemo(path, PostAction(path, receiver, current, obridge), memo)
    [] SwapOpsOf(path) = <<>> /\ path.out = Ton ->
         TonHookMemo(path, receiver, current)
    [] OTHER -> ForwardMemo(path, receiver, memo, current)

-----------------------------------------------------------------------------
(***************************************************************************)
(* Osmosis and the other cosmos chains (chains/osmosis.ts, cosmos.ts).     *)
(***************************************************************************)
OsmosisActions(path) ==
  \A k \in DOMAIN path.actions :
    \/ path.actions[k].type = "Swap"
    \/ IsBridge(path.actions[k]) /\ path.actions[k].port = "transfer"

\* Mutant: no recover address in the entry point's transfer.
OsmosisUnrecovered(path, receiver, current) ==
  IF HasBridge(path) THEN IbcLeg(path, receiver, NoAddress)
                     ELSE LocalLeg(path, receiver)

OsmosisPostAction(path, receiver, current) ==
  IF HasBridge(path) THEN IbcLeg(path, receiver, current)
                     ELSE LocalLeg(path, receiver)

OsmosisMiddleware(path, receiver, memo, current) ==
  IF SwapOpsOf(path) = <<>>
  THEN ForwardMemo(path, receiver, memo, current)
  ELSE EntryPointMemo(path, OsmosisPostAction(path, receiver, current), memo)

\* getBridgeInfo: the first action is a Bridge over the transfer port.
CosmosActions(path) ==
  IsBridge(path.actions[1]) /\ path.actions[1].port = "transfer"

CosmosMiddleware(path, receiver, memo, current) ==
  ForwardMemo(path, receiver, memo, current)

-----------------------------------------------------------------------------
(***************************************************************************)
(* buildMemoSwap: the memo that makes the chain of "path" do its part when *)
(* the transfer from the chain "previous" arrives with it.  setMinimum-    *)
(* ReceiveForSwap throws unless the slippage is between 0 and 1.           *)
(***************************************************************************)
SlippageOk(slippage) == slippage = "within"

\* The OraiBridge address is demanded up front only of routes that do NOT
\* leave for an EVM chain; those are checked where the leg is built.
OBridgeKnown(path, book) == book[OBridge] # NoAddress \/ path.out \in EvmChains

\* Mutant: Noble and TON are taken for ordinary ICS20 origins.
IsEvmOrigin(previous) == previous \in EvmChains

IsWasmOrigin(previous) == previous \in {Noble, Ton} \cup EvmChains

CanBuildMemo(path, receiver, book, previous, slippage) ==
  /\ path.chain \in CosmosChains
  /\ ValidatePath(path)
  /\ ValidateReceiver(receiver, book[path.chain])
  /\ SlippageOk(slippage)
  /\ CASE path.chain = Oraichain ->
            /\ PrefixKnown(path.out)
            /\ OBridgeKnown(path, book)
            /\ IF IsWasmOrigin(previous)
               THEN CanPostAction(path, receiver, book[OBridge])
               ELSE CanOraichainMiddleware(path, receiver, book[OBridge])
       [] path.chain = Osmosis -> OsmosisActions(path)
       [] OTHER -> CosmosActions(path)

BuildMemoSwap(path, receiver, memo, book, previous) ==
  LET current == book[path.chain] IN
  CASE path.chain = Oraichain /\ IsWasmOrigin(previous) ->
         MemoForIbcWasm(path, receiver, memo, current, book[OBridge])
    [] path.chain = Oraichain /\ ~IsWasmOrigin(previous) ->
         OraichainMiddleware(path, receiver, memo, current, book[OBridge])
    [] path.chain = Osmosis -> OsmosisMiddleware(path, receiver, memo, current)
    [] OTHER -> CosmosMiddleware(path, receiver, memo, current)

-----------------------------------------------------------------------------
(***************************************************************************)
(* buildExecuteMsg: the message of the first path, signed by the user.     *)
(* "refund" is where the tokens of a failed first leg come back to.        *)
(***************************************************************************)
ExecuteMsg == [contract : Address, ops : Seq(Action), leg : Leg,
               memo : Seq(Instruction)]

\* genBridgeMsg, and the MsgTransfer of the other chains: ICS20 and ibc-wasm
\* give a failed transfer back to the sender of the message.
CanBridgeMsg(path, receiver, obridge) ==
  \/ BridgeOf(path).port = "transfer" /\ path.out \in CosmosChains
  \/ CanWasmLeg(path, receiver, obridge)
  \/ BridgeOf(path).port # "wasm" /\ path.out = Ton /\ path.jetton

BridgeMsg(path, receiver, memo, current, obridge) ==
  LET leg == CASE BridgeOf(path).port = "transfer" /\ path.out \in CosmosChains ->
                    IbcLeg(path, receiver, current)
               [] BridgeOf(path).port = "wasm" ->
                    WasmLeg(path, receiver, obridge, current)
               [] OTHER -> TonLeg(path, receiver, current)
  IN [contract |-> NoAddress, ops |-> <<>>, leg |-> leg,
      memo |-> Carried(leg, memo)]

EntryPointMsg(path, leg, memo) ==
  [contract |-> EntryPoint(path.chain), ops |-> SwapOpsOf(path), leg |-> leg,
   memo |-> Carried(leg, memo)]

CanBuildExecute(path, receiver, book, slippage) ==
  /\ path.chain \in CosmosChains
  /\ ValidatePath(path)
  /\ ValidateReceiver(receiver, book[path.chain])
  /\ SlippageOk(slippage)
  /\ CASE path.chain = Oraichain ->
            /\ PrefixKnown(path.out)
            /\ OBridgeKnown(path, book)
            /\ IF SwapOpsOf(path) = <<>>
               THEN CanBridgeMsg(path, receiver, book[OBridge])
               ELSE CanPostAction(path, receiver, book[OBridge])
       [] path.chain = Osmosis -> OsmosisActions(path)
       [] OTHER -> CosmosActions(path)

BuildExecuteMsg(path, receiver, memo, book) ==
  LET current == book[path.chain] IN
  CASE path.chain = Oraichain /\ SwapOpsOf(path) # <<>> ->
         EntryPointMsg(path, PostAction(path, receiver, current, book[OBridge]), memo)
    [] path.chain = Oraichain /\ SwapOpsOf(path) = <<>> ->
         BridgeMsg(path, receiver, memo, current, book[OBridge])
    [] path.chain = Osmosis /\ SwapOpsOf(path) # <<>> ->
         EntryPointMsg(path, OsmosisPostAction(path, receiver, current), memo)
    [] OTHER ->
         LET leg == IbcLeg(path, receiver, current)
         IN [contract |-> NoAddress, ops |-> <<>>, leg |-> leg,
             memo |-> Carried(leg, memo)]
=============================================================================
