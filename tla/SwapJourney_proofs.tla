------------------------- MODULE SwapJourney_proofs -------------------------
(***************************************************************************)
(* Proofs about one universal swap, for every set of chains, every set of  *)
(* connected routes and every number of retries: the types; what the       *)
(* builders of all chains make of one path; what that makes of the whole   *)
(* route, nested in memos and under way (RouteInv); and what follows from  *)
(* it for the user, FundsCustody last.                                     *)
(***************************************************************************)
EXTENDS SwapJourney, SequenceTheorems, TLAPS

-----------------------------------------------------------------------------
(***************************************************************************)
(* What the message builders of SwapMemo return: values of the right type, *)
(* whenever they do not throw.                                             *)
(***************************************************************************)
Book == [Chains \cup {OBridge} -> Address]

\* The addresses the builders write are addresses (generateAddress,
\* checkValidateAddressWithNetwork, the contracts of the chain messages).
LEMMA AddressTypes ==
  /\ NoAddress \in Address
  /\ IbcWasm \in Address
  /\ \A c \in Chains \cup {OBridge} : UserAt(c) \in Address
  /\ \A c \in Chains : RecipientAt(c) \in Address /\ EntryPoint(c) \in Address
BY DEF NoAddress, IbcWasm, Address, UserAt, RecipientAt, EntryPoint, Chains,
       CosmosChains

\* A path that validatePath accepts has its only bridge last, so bridgeInfo is
\* that bridge, swapOps are actions, and if there are none there is a bridge.
LEMMA ValidPath ==
  ASSUME NEW path \in Path, ValidatePath(path)
  PROVE  /\ HasBridge(path) => BridgeOf(path) \in Action
         /\ SwapOpsOf(path) \in Seq(Action)
         /\ SwapOpsOf(path) = <<>> => HasBridge(path)
<1>1. path.actions \in Seq(Action) /\ path.actions # <<>>
  BY DEF Path, ValidatePath
<1>2. ASSUME HasBridge(path) PROVE BridgeOf(path) \in Action
  <2>1. PICK k \in BridgesOf(path) : TRUE
    BY <1>2 DEF HasBridge
  <2>2. \A j \in BridgesOf(path) : j = k
    BY <2>1 DEF ValidatePath
  <2>3. k \in DOMAIN path.actions /\ k \in Nat
    BY <1>1, <2>1 DEF BridgesOf
  <2>4. \A j \in BridgesOf(path) : j <= k
    BY <2>2, <2>3
  <2>5. (CHOOSE x \in BridgesOf(path) : \A j \in BridgesOf(path) : j <= x) = k
    BY <2>1, <2>2, <2>4
  <2>6. BridgeOf(path) = path.actions[k]
    BY <2>5 DEF BridgeOf
  <2> QED BY <1>1, <2>3, <2>6
<1>3. SwapOpsOf(path) \in Seq(Action)
  BY <1>1 DEF SwapOpsOf
<1>4. ASSUME SwapOpsOf(path) = <<>>, ~HasBridge(path) PROVE FALSE
  BY <1>1, <1>4 DEF SwapOpsOf
<1> QED BY <1>2, <1>3, <1>4

\* The four kinds of transfer are transfers.
LEMMA LegTypes ==
  ASSUME NEW path \in Path, NEW to \in Address, NEW recover \in Address,
         NEW obridge \in Address, ValidatePath(path)
  PROVE  /\ LocalLeg(path, to) \in Leg
         /\ HasBridge(path) =>
              /\ IbcLeg(path, to, recover) \in Leg
              /\ TonLeg(path, to, recover) \in Leg
              /\ WasmLeg(path, to, obridge, recover) \in Leg
<1>1. path.chain \in Chains /\ path.out \in Chains
  BY DEF Path
<1>2. LocalLeg(path, to) \in Leg
  BY <1>1, AddressTypes DEF LocalLeg, Leg
<1>3. ASSUME HasBridge(path)
      PROVE  /\ IbcLeg(path, to, recover) \in Leg
             /\ TonLeg(path, to, recover) \in Leg
             /\ WasmLeg(path, to, obridge, recover) \in Leg
  <2>1. <<BridgeOf(path)>> \in Seq(Action)
    BY <1>3, ValidPath
  <2>2. IbcLeg(path, to, recover) \in Leg
    BY <1>1, <2>1 DEF IbcLeg, Leg
  <2>3. TonLeg(path, to, recover) \in Leg
    BY <2>2 DEF TonLeg, Leg
  <2>4. WasmLeg(path, to, obridge, recover) \in Leg
    BY <2>2 DEF WasmLeg, Leg
  <2> QED BY <2>2, <2>3, <2>4
<1> QED BY <1>2, <1>3

\* Both kinds of post action end in a transfer.
LEMMA PostActionTypes ==
  ASSUME NEW path \in Path, NEW to \in Address, NEW current \in Address,
         NEW obridge \in Address, ValidatePath(path)
  PROVE  /\ PostAction(path, to, current, obridge) \in Leg
         /\ OsmosisPostAction(path, to, current) \in Leg
<1>1. PostAction(path, to, current, obridge) \in Leg
  <2>1. CASE ~HasBridge(path)
    BY <2>1, LegTypes DEF PostAction
  <2>2. CASE HasBridge(path) /\ path.out = Ton
    BY <2>2, LegTypes DEF PostAction
  <2>3. CASE HasBridge(path) /\ path.out # Ton /\ BridgeOf(path).port = "transfer"
    BY <2>3, LegTypes DEF PostAction
  <2>4. CASE HasBridge(path) /\ path.out # Ton /\ BridgeOf(path).port # "transfer"
    BY <2>4, LegTypes, AddressTypes DEF PostAction
  <2> QED BY <2>1, <2>2, <2>3, <2>4
<1>2. OsmosisPostAction(path, to, current) \in Leg
  BY LegTypes DEF OsmosisPostAction
<1> QED BY <1>1, <1>2

\* On the other cosmos chains getBridgeInfo finds a bridge.
LEMMA CosmosBridges ==
  ASSUME NEW path \in Path, ValidatePath(path), CosmosActions(path)
  PROVE  HasBridge(path)
<1>1. path.actions \in Seq(Action) /\ 1 \in DOMAIN path.actions
  BY DEF Path, ValidatePath
<1> QED BY <1>1 DEF CosmosActions, HasBridge, BridgesOf

\* An instruction in front of a memo is a memo, and so is what a transfer
\* carries of one.
LEMMA MemoTypes ==
  ASSUME NEW inner \in Seq(Instruction)
  PROVE  /\ \A h \in Instruction : <<h>> \o inner \in Seq(Instruction)
         /\ \A sent \in Leg : Carried(sent, inner) \in Seq(Instruction)
BY DEF Carried

\* buildMemoSwap returns a receiver and a memo.
LEMMA BuildMemoTypes ==
  ASSUME NEW path \in Path, NEW to \in Address, NEW inner \in Seq(Instruction),
         NEW book \in Book, NEW previous, NEW slippage,
         CanBuildMemo(path, to, book, previous, slippage)
  PROVE  BuildMemoSwap(path, to, inner, book, previous) \in Response
<1> DEFINE current == book[path.chain]
           obridge == book[OBridge]
           wellTyped(h) == /\ h \in Instruction
                           /\ <<h>> \o inner \in Seq(Instruction)
                           /\ <<h>> \in Seq(Instruction)
                           /\ \A sent \in Leg :
                                <<h>> \o Carried(sent, inner) \in Seq(Instruction)
<1>1. path.chain \in CosmosChains /\ path.chain \in Chains /\ ValidatePath(path)
  BY DEF CanBuildMemo, Path
<1>2. current \in Address /\ obridge \in Address
  BY <1>1 DEF Book
<1>3. \A h \in Instruction : wellTyped(h)
  <2> SUFFICES ASSUME NEW h \in Instruction PROVE wellTyped(h)
    OBVIOUS
  <2>1. \A sent \in Leg : Carried(sent, inner) \in Seq(Instruction)
    BY MemoTypes
  <2> QED BY <2>1, MemoTypes
<1>4. SwapOpsOf(path) \in Seq(Action) /\ <<>> \in Seq(Action)
  BY <1>1, ValidPath
<1> HIDE DEF wellTyped
<1>5. MemoForIbcWasm(path, to, inner, current, obridge) \in Response
  <2> DEFINE sent == PostAction(path, to, current, obridge)
             h == [reader |-> "ibc_wasm", contract |-> NoAddress,
                   ops |-> SwapOpsOf(path), leg |-> sent, recover |-> current]
  <2>1. sent \in Leg
    BY <1>1, <1>2, PostActionTypes
  <2> HIDE DEF sent
  <2>2. h \in Instruction
    BY <1>2, <1>4, <2>1, AddressTypes DEF Instruction
  <2>3. MemoForIbcWasm(path, to, inner, current, obridge)
          = [receiver |-> current, memo |-> <<h>> \o Carried(sent, inner)]
    BY DEF MemoForIbcWasm, ProtoForPostAction, sent
  <2> QED BY <1>2, <1>3, <2>1, <2>2, <2>3 DEF Response, wellTyped
<1>6. ASSUME HasBridge(path)
      PROVE  ForwardMemo(path, to, inner, current) \in Response
  <2> DEFINE h == [reader |-> "forward", contract |-> NoAddress, ops |-> <<>>,
                   leg |-> IbcLeg(path, to, NoAddress), recover |-> NoAddress]
  <2>1. h \in Instruction
    BY <1>1, <1>2, <1>4, <1>6, AddressTypes, LegTypes DEF Instruction
  <2> QED BY <1>2, <1>3, <2>1 DEF ForwardMemo, Response, wellTyped
<1>7. ASSUME HasBridge(path)
      PROVE  TonHookMemo(path, to, current) \in Response
  <2> DEFINE h == [reader |-> "hook", contract |-> IbcWasm, ops |-> <<>>,
                   leg |-> TonLeg(path, to, current), recover |-> current]
  <2>1. h \in Instruction
    BY <1>1, <1>2, <1>4, <1>7, AddressTypes, LegTypes DEF Instruction
  <2> QED BY <1>3, <2>1, AddressTypes DEF TonHookMemo, Response, wellTyped
<1>8. ASSUME NEW sent \in Leg
      PROVE  EntryPointMemo(path, sent, inner) \in Response
  <2> DEFINE h == [reader |-> "hook", contract |-> EntryPoint(path.chain),
                   ops |-> SwapOpsOf(path), leg |-> sent, recover |-> NoAddress]
  <2>1. h \in Instruction
    BY <1>1, <1>4, AddressTypes DEF Instruction
  <2> QED BY <1>1, <1>3, <2>1, AddressTypes DEF EntryPointMemo, Response, wellTyped
<1>9. CASE path.chain = Oraichain /\ IsWasmOrigin(previous)
  <2>1. BuildMemoSwap(path, to, inner, book, previous)
          = MemoForIbcWasm(path, to, inner, current, obridge)
    BY <1>9 DEF BuildMemoSwap, IsWasmOrigin, Oraichain, Osmosis
  <2> QED BY <1>5, <2>1
<1>10. CASE path.chain = Oraichain /\ ~IsWasmOrigin(previous)
  <2>1. BuildMemoSwap(path, to, inner, book, previous)
          = OraichainMiddleware(path, to, inner, current, obridge)
    BY <1>10 DEF BuildMemoSwap, IsWasmOrigin, Oraichain, Osmosis
  <2>2. CASE SwapOpsOf(path) # <<>>
    BY <1>1, <1>2, <1>8, <2>1, <2>2, PostActionTypes DEF OraichainMiddleware
  <2>3. CASE SwapOpsOf(path) = <<>>
    BY <1>1, <1>6, <1>7, <2>1, <2>3, ValidPath DEF OraichainMiddleware
  <2> QED BY <2>2, <2>3
<1>11. CASE path.chain = Osmosis
  <2>1. BuildMemoSwap(path, to, inner, book, previous)
          = OsmosisMiddleware(path, to, inner, current)
    BY <1>11 DEF BuildMemoSwap, Oraichain, Osmosis
  <2> QED BY <1>1, <1>2, <1>6, <1>8, <2>1, ValidPath, PostActionTypes, AddressTypes
          DEF OsmosisMiddleware
<1>12. CASE path.chain # Oraichain /\ path.chain # Osmosis
  <2>1. BuildMemoSwap(path, to, inner, book, previous)
          = CosmosMiddleware(path, to, inner, current)
    BY <1>12 DEF BuildMemoSwap
  <2>2. HasBridge(path)
    BY <1>12, CosmosBridges DEF CanBuildMemo
  <2> QED BY <1>6, <2>1, <2>2 DEF CosmosMiddleware
<1> QED BY <1>9, <1>10, <1>11, <1>12

\* buildExecuteMsg returns a message to sign.
LEMMA BuildExecuteTypes ==
  ASSUME NEW path \in Path, NEW to \in Address, NEW inner \in Seq(Instruction),
         NEW book \in Book, NEW slippage,
         CanBuildExecute(path, to, book, slippage)
  PROVE  BuildExecuteMsg(path, to, inner, book) \in ExecuteMsg
<1> DEFINE current == book[path.chain]
           obridge == book[OBridge]
<1>1. path.chain \in CosmosChains /\ path.chain \in Chains /\ ValidatePath(path)
  BY DEF CanBuildExecute, Path
<1>2. current \in Address /\ obridge \in Address
  BY <1>1 DEF Book
<1>3. SwapOpsOf(path) \in Seq(Action) /\ <<>> \in Seq(Action)
  BY <1>1, ValidPath
<1>4. \A sent \in Leg : EntryPointMsg(path, sent, inner) \in ExecuteMsg
  BY <1>1, <1>3, AddressTypes, MemoTypes DEF EntryPointMsg, ExecuteMsg
<1>5. \A sent \in Leg : [contract |-> NoAddress, ops |-> <<>>, leg |-> sent,
                       memo |-> Carried(sent, inner)] \in ExecuteMsg
  BY <1>3, AddressTypes, MemoTypes DEF ExecuteMsg
<1>6. CASE path.chain = Oraichain /\ SwapOpsOf(path) # <<>>
  <2>1. BuildExecuteMsg(path, to, inner, book)
          = EntryPointMsg(path, PostAction(path, to, current, obridge), inner)
    BY <1>6 DEF BuildExecuteMsg, Oraichain, Osmosis
  <2> QED BY <1>1, <1>2, <1>4, <2>1, PostActionTypes
<1>7. CASE path.chain = Oraichain /\ SwapOpsOf(path) = <<>>
  <2>1. BuildExecuteMsg(path, to, inner, book)
          = BridgeMsg(path, to, inner, current, obridge)
    BY <1>7 DEF BuildExecuteMsg, Oraichain, Osmosis
  <2>2. HasBridge(path)
    BY <1>1, <1>7, ValidPath
  <2> DEFINE sent == CASE BridgeOf(path).port = "transfer" /\ path.out \in CosmosChains ->
                           IbcLeg(path, to, current)
                      [] BridgeOf(path).port = "wasm" ->
                           WasmLeg(path, to, obridge, current)
                      [] OTHER -> TonLeg(path, to, current)
  <2>3. sent \in Leg
    BY <1>1, <1>2, <2>2, LegTypes
  <2>4. BridgeMsg(path, to, inner, current, obridge)
          = [contract |-> NoAddress, ops |-> <<>>, leg |-> sent,
             memo |-> Carried(sent, inner)]
    BY DEF BridgeMsg
  <2> HIDE DEF sent
  <2> QED BY <1>5, <2>1, <2>3, <2>4
<1>8. CASE path.chain = Osmosis /\ SwapOpsOf(path) # <<>>
  <2>1. BuildExecuteMsg(path, to, inner, book)
          = EntryPointMsg(path, OsmosisPostAction(path, to, current), inner)
    BY <1>8 DEF BuildExecuteMsg, Oraichain, Osmosis
  <2> QED BY <1>1, <1>2, <1>4, <2>1, PostActionTypes
<1>9. CASE /\ path.chain # Oraichain
           /\ path.chain = Osmosis => SwapOpsOf(path) = <<>>
  <2> DEFINE sent == IbcLeg(path, to, current)
  <2>1. BuildExecuteMsg(path, to, inner, book)
          = [contract |-> NoAddress, ops |-> <<>>, leg |-> sent,
             memo |-> Carried(sent, inner)]
    BY <1>9 DEF BuildExecuteMsg, Oraichain, Osmosis
  <2>2. HasBridge(path)
    <3>1. CASE path.chain = Osmosis
      BY <1>1, <1>9, <3>1, ValidPath
    <3>2. CASE path.chain # Osmosis
      BY <1>1, <1>9, <3>2, CosmosBridges DEF CanBuildExecute
    <3> QED BY <3>1, <3>2
  <2>3. sent \in Leg
    BY <1>1, <1>2, <2>2, LegTypes
  <2> HIDE DEF sent
  <2> QED BY <1>5, <2>1, <2>3
<1> QED BY <1>6, <1>7, <1>8, <1>9

-----------------------------------------------------------------------------
\* The request is one of those the assumption is about: it never changes.
Asked == request \in Requests

TypeInv == Asked /\ TypeOK

-----------------------------------------------------------------------------
(***************************************************************************)
(* Types.                                                                  *)
(***************************************************************************)

\* What a request, one of its paths, and the places named by it are.
LEMMA RequestTypes ==
  ASSUME Asked
  PROVE  /\ request \in Request
         /\ request.book \in Book
         /\ route \in Seq(Path) /\ Final \in Nat
         /\ \A p \in 1 .. Final : route[p] \in Path
         /\ \A c \in Chains \cup {OBridge} : request.book[c] \in {UserAt(c), NoAddress}
         /\ FromMemo => request.previous \in Chains
         /\ FinalReceiver \in Address
         /\ Wallet \in Address
<1>1. request \in Request /\ BookOk(request.book)
  BY RequestsAssumption DEF Asked
<1>2. request.book \in Book /\ route \in Seq(Path)
  BY <1>1 DEF Request, Book, route
<1>3. Final \in Nat /\ \A p \in 1 .. Final : route[p] \in Path
  BY <1>2 DEF Final
<1>4. FromMemo => request.previous \in Chains
  BY <1>1 DEF FromMemo, Request, Chains
<1>5. Oraichain \in Chains
  BY DEF Chains, CosmosChains
<1>6. CASE route = <<>>
  <2>1. FinalReceiver = request.book[Oraichain]
    BY <1>6 DEF FinalReceiver
  <2>2. FinalReceiver \in Address
    BY <1>2, <1>5, <2>1 DEF Book
  <2>3. Wallet \in Address
    BY <1>4, <1>5, <1>6, AddressTypes DEF Wallet
  <2> QED BY <1>1, <1>2, <1>3, <1>4, <2>2, <2>3 DEF BookOk
<1>7. CASE route # <<>>
  <2>1. route[1] \in Path /\ route[Final] \in Path
    BY <1>2, <1>7 DEF Final
  <2>2. route[1].chain \in Chains /\ route[Final].out \in Chains
    BY <2>1 DEF Path
  <2>3. FinalReceiver \in Address
    BY <1>2, <1>7, <2>2, AddressTypes DEF FinalReceiver, Book
  <2>4. Wallet \in Address
    BY <1>4, <1>7, <2>2, AddressTypes DEF Wallet
  <2> QED BY <1>1, <1>2, <1>3, <1>4, <2>3, <2>4 DEF BookOk
<1> QED BY <1>6, <1>7

\* The placeholders of the initial state.
LEMMA NothingTypes ==
  NoLeg \in Leg /\ NoMsg \in ExecuteMsg
<1>1. NoLeg \in Leg
  BY AddressTypes DEF NoLeg, Leg, Oraichain, Chains, CosmosChains
<1> QED BY <1>1, AddressTypes DEF NoMsg, ExecuteMsg

\* A memo that is obeyed is one instruction and a shorter memo.
LEMMA ObeyedTypes ==
  ASSUME TypeOK, Obeyed
  PROVE  /\ Head(memo) \in Instruction /\ Tail(memo) \in Seq(Instruction)
         /\ Head(memo).leg \in Leg /\ Head(memo).recover \in Address
         /\ Head(memo).contract \in Address /\ Head(memo).ops \in Seq(Action)
<1>1. memo \in Seq(Instruction) /\ memo # <<>>
  BY DEF TypeOK, Obeyed
<1>2. Head(memo) \in Instruction /\ Tail(memo) \in Seq(Instruction)
  BY <1>1
<1> QED BY <1>2 DEF Instruction

\* Launching a transfer and settling keep the types.
LEMMA LaunchTypes ==
  ASSUME TypeInv, done' \in Seq(Action),
         NEW l \in Leg, NEW m \in Seq(Instruction), NEW back \in Address,
         NEW again \in Nat, Launch(l, m, back, again)
  PROVE  TypeInv'
<1>1. l.to \in Address
  BY DEF Leg
<1>2. CASE l.via = "local"
  BY <1>1, <1>2 DEF Launch, Settle, TypeInv, TypeOK, Asked, Final, route
<1>3. CASE l.via # "local"
  BY <1>3, AddressTypes DEF Launch, TypeInv, TypeOK, Asked, Final, route
<1> QED BY <1>2, <1>3

\* Coming to rest (Settle) keeps the types.
LEMMA SettleTypes ==
  ASSUME TypeInv, done' \in Seq(Action), NEW who \in Address,
         NEW failed \in BOOLEAN, Settle(who, failed)
  PROVE  TypeInv'
BY DEF Settle, TypeInv, TypeOK, Asked, Final, route

\* Whoever gets the tokens of a failed transfer back (recover_address,
\* recoveryAddr) is an address.
LEMMA BackToTypes ==
  ASSUME NEW l \in Leg, NEW recover \in Address, NEW contract \in Address
  PROVE  BackTo(l, recover, contract) \in Address
BY DEF BackTo, Leg

\* The builder and the packets hold what their types allow, and the loop stays
\* within the route (the loops of generateMsgSwap and generateMemoSwap).
LEMMA TypeInit == Init => TypeInv
<1> SUFFICES ASSUME Init PROVE TypeInv
  OBVIOUS
<1>1. Asked
  BY DEF Init, Asked
<1>2. Final \in Nat /\ request \in Request /\ Wallet \in Address
  BY <1>1, RequestTypes
<1>3. i \in 0 .. Final
  BY <1>2 DEF Init
<1>4. memo \in Seq(Instruction) /\ done \in Seq(Action) /\ retries \in Nat
  BY DEF Init
<1>5. pc = "start" /\ trouble \in BOOLEAN
  BY DEF Init
<1>6. receiver \in Address /\ refund \in Address /\ holder \in Address
  BY <1>2, AddressTypes DEF Init
<1>7. msg \in ExecuteMsg /\ leg \in Leg
  BY NothingTypes DEF Init
<1> QED BY <1>1, <1>2, <1>3, <1>4, <1>5, <1>6, <1>7 DEF TypeInv, TypeOK

\* Every step of the builder, of the user and of the chains keeps the types:
\* one step of the proof for each action.
LEMMA TypeStep == TypeInv /\ [Next]_vars => TypeInv'
<1> SUFFICES ASSUME TypeInv, [Next]_vars PROVE TypeInv'
  OBVIOUS
<1>a. TypeOK /\ Asked
  BY DEF TypeInv
<1>1. ASSUME Throw PROVE TypeInv'
  BY <1>a, <1>1 DEF Throw, TypeInv, TypeOK, Asked, Final, route
<1>2. CASE Start
  <2>1. FinalReceiver \in Address /\ Final \in 0 .. Final
    BY <1>a, RequestTypes
  <2> QED BY <1>a, <1>2, <2>1 DEF Start, TypeInv, TypeOK, Asked, Final, route
<1>3. CASE BuildMemo
  <2>1. i \in 1 .. Final
    BY <1>a, <1>3, RequestTypes DEF BuildMemo, MemoLeft, TypeOK
  <2> DEFINE r == BuildMemoSwap(route[i], receiver, memo, request.book, PreviousChain)
  <2>2. r \in Response
    BY <1>a, <1>3, <2>1, RequestTypes, BuildMemoTypes
       DEF BuildMemo, CanBuildMemoHere, TypeOK
  <2>3. memo' = r.memo /\ receiver' = r.receiver
    BY <1>3 DEF BuildMemo
  <2> HIDE DEF r
  <2>4. memo' \in Seq(Instruction) /\ receiver' \in Address
    BY <2>2, <2>3 DEF Response
  <2>5. i' \in 0 .. Final
    BY <1>a, <1>3, <2>1, RequestTypes DEF BuildMemo
  <2> QED BY <1>a, <1>3, <2>4, <2>5 DEF BuildMemo, TypeInv, TypeOK, Asked, Final, route
<1>4. CASE BuildExecute
  <2>1. route[1] \in Path
    BY <1>a, <1>4, RequestTypes DEF BuildExecute, TypeOK
  <2>2. msg' \in ExecuteMsg
    BY <1>a, <1>4, <2>1, RequestTypes, BuildExecuteTypes
       DEF BuildExecute, CanBuildExecuteHere, TypeOK
  <2> QED BY <1>a, <1>4, <2>2 DEF BuildExecute, TypeInv, TypeOK, Asked, Final, route
<1>5. CASE MemoReady
  <2>1. request.previous \in Chains /\ Oraichain \in Chains
    BY <1>a, <1>5, RequestTypes DEF MemoReady, Chains, CosmosChains
  <2>2. UserAt(request.previous) \in Address /\ request.book[Oraichain] \in Address
    BY <1>a, <2>1, RequestTypes, AddressTypes
  <2>3. msg' \in ExecuteMsg
    BY <1>a, <1>5, <2>1, <2>2, AddressTypes DEF MemoReady, ExecuteMsg, Leg, TypeOK
  <2> QED BY <1>a, <1>5, <2>3 DEF MemoReady, TypeInv, TypeOK, Asked, Final, route
<1>6. CASE Sign
  <2>1. /\ msg.ops \in Seq(Action) /\ msg.leg \in Leg /\ msg.contract \in Address
        /\ msg.memo \in Seq(Instruction)
    BY <1>a DEF TypeOK, ExecuteMsg
  <2>2. BackTo(msg.leg, NoAddress, msg.contract) \in Address
    BY <2>1, BackToTypes, AddressTypes
  <2>3. done' \in Seq(Action)
    <3>1. CASE done' = done
      BY <1>a, <3>1 DEF TypeOK
    <3>2. CASE done' = done \o msg.ops
      BY <1>a, <2>1, <3>2 DEF TypeOK
    <3> QED BY <1>6, <3>1, <3>2 DEF Sign
  <2>4. CASE Launch(msg.leg, msg.memo, BackTo(msg.leg, NoAddress, msg.contract), 0)
    BY <2>1, <2>2, <2>3, <2>4, LaunchTypes
  <2>5. CASE Settle(holder, TRUE)
    BY <1>a, <2>3, <2>5, SettleTypes DEF TypeOK
  <2> QED BY <1>6, <2>4, <2>5 DEF Sign
<1>7. CASE Credit
  <2>1. leg.ops \in Seq(Action) /\ leg.final \in Address
    BY <1>a DEF TypeOK, Leg
  <2>2. done' \in Seq(Action)
    BY <1>a, <1>7, <2>1 DEF Credit, TypeOK
  <2> QED BY <1>a, <1>7, <2>1, <2>2, SettleTypes DEF Credit, TypeOK
<1>8. CASE Forward
  <2>1. done' \in Seq(Action)
    BY <1>a, <1>8 DEF Forward, TypeOK, Leg
  <2> QED BY <1>a, <1>8, <2>1, ObeyedTypes, LaunchTypes, RetriesAssumption
          DEF Forward, TypeOK
<1>9. CASE Execute
  <2>1. Obeyed /\ leg.ops \in Seq(Action)
    BY <1>a, <1>9 DEF Execute, TypeOK, Leg
  <2>2. done' \in Seq(Action)
    BY <1>a, <1>9, <2>1, ObeyedTypes DEF Execute, TypeOK
  <2>3. BackTo(Head(memo).leg, Head(memo).recover, Head(memo).contract) \in Address
    BY <1>a, <2>1, ObeyedTypes, BackToTypes
  <2> QED BY <1>a, <1>9, <2>1, <2>2, <2>3, ObeyedTypes, LaunchTypes DEF Execute
<1>10. CASE ExecuteFails
  <2>1. Obeyed /\ leg.ops \in Seq(Action) /\ refund \in Address
    BY <1>a, <1>10 DEF ExecuteFails, TypeOK, Leg
  <2>2. done' = done \/ done' = done \o leg.ops
    BY <1>10 DEF ExecuteFails
  <2>3. done' \in Seq(Action)
    <3>1. CASE done' = done
      BY <1>a, <3>1 DEF TypeOK
    <3>2. CASE done' = done \o leg.ops
      BY <1>a, <2>1, <3>2 DEF TypeOK
    <3> QED BY <2>2, <3>1, <3>2
  <2> QED BY <1>a, <1>10, <2>1, <2>3, ObeyedTypes, SettleTypes DEF ExecuteFails
<1>11. CASE ErrorAck
  BY <1>a, <1>11, SettleTypes DEF ErrorAck, TypeOK
<1>12. CASE Timeout
  <2>1. CASE retries > 0
    <3>1. retries' \in Nat
      BY <1>a, <1>12, <2>1 DEF Timeout, TypeOK
    <3> QED BY <1>a, <1>12, <2>1, <3>1
            DEF Timeout, TypeInv, TypeOK, Asked, Final, route
  <2>2. CASE ~(retries > 0)
    BY <1>a, <1>12, <2>2, SettleTypes DEF Timeout, TypeOK
  <2> QED BY <2>1, <2>2
<1>13. CASE UNCHANGED vars
  BY <1>a, <1>13 DEF vars, TypeInv, TypeOK, Asked, Final, route
<1> QED
  BY <1>1, <1>2, <1>3, <1>4, <1>5, <1>6, <1>7, <1>8, <1>9, <1>10, <1>11, <1>12,
     <1>13
  DEF Next, Build, Relay, StartThrows, BuildMemoThrows, BuildExecuteThrows

\* TypeOK is an invariant, for every set of routes and every number of retries.
THEOREM TypeCorrect == Spec => []TypeOK
<1>1. TypeInv => TypeOK
  BY DEF TypeInv
<1> QED BY <1>1, TypeInit, TypeStep, PTL DEF Spec

-----------------------------------------------------------------------------
(***************************************************************************)
(* One path.  The builders of all the chains make of a path a transfer     *)
(* that does the last of its actions, with an instruction (or a message to *)
(* sign) around it that does the others.                                   *)
(***************************************************************************)
Known(a) == a.owner # "nobody"

\* A transfer that ends the work of the path and is to pay "to".
LegOf(l, path, to) ==
  /\ l.from = path.chain /\ l.final = to
  /\ Known(l.to) /\ Known(l.final)
  /\ to.form = "plain" => l.to = to
  /\ ~HasBridge(path) => l.via = "local" /\ l.to = to /\ l.ops = <<>>
  /\ HasBridge(path) =>
       /\ l.via \in {"ibc", "wasm", "ton"}
       /\ l.via = "ton" => path.out = Ton
       /\ l.chain = path.out /\ l.ops = <<BridgeOf(path)>>

\* The user gets the tokens of a failed transfer, unless it is the one for which
\* nobody is named: those are left with the entry point contract.
PaidBack(a, path, previous) ==
  a.owner = "user" \/ (Unrecovered(path, previous) /\ a.owner = "entry_point")

\* The instruction makes the chain do its path, and pay "to" with the last action.
Makes(h, path, to, previous) ==
  /\ path.actions # <<>>
  /\ h.ops \o h.leg.ops = path.actions
  /\ LegOf(h.leg, path, to)
  /\ h.reader = "forward" => h.ops = <<>> /\ h.leg.via # "local"
  /\ h.recover = NoAddress \/ h.recover.owner = "user"
  /\ h.reader # "forward" /\ h.leg.via # "local" =>
       PaidBack(BackTo(h.leg, h.recover, h.contract), path, previous)

\* A transfer between these chains that is addressed to r will be understood.
Awaits(h, r, from, chain) ==
  /\ chain \in CosmosChains
  /\ Known(r) /\ r.form = "plain"
  /\ IF chain = Oraichain /\ from \in WasmLinked THEN h.reader = "ibc_wasm"
     ELSE h.reader = "forward" \/ (h.reader = "hook" /\ h.contract = r)

\* Addresses that are neither missing nor, on a cosmos chain, encoded strangely.
LEMMA KnownAddresses ==
  /\ \A c : Known(UserAt(c)) /\ UserAt(c).owner = "user"
  /\ \A c \in CosmosChains : UserAt(c).form = "plain"
  /\ \A c : Known(EntryPoint(c)) /\ EntryPoint(c).form = "plain"
              /\ EntryPoint(c).owner = "entry_point"
  /\ Known(IbcWasm) /\ IbcWasm.form = "plain"
  /\ ~Known(NoAddress)
<1>1. CosmosChains \cap EvmChains = {}
  BY ChainsAssumption DEF CosmosChains, Oraichain, Osmosis, Noble
<1> QED BY <1>1 DEF Known, UserAt, EntryPoint, IbcWasm, NoAddress

\* swapOps and bridgeInfo together are the actions of a path that validatePath
\* accepts.
LEMMA PathActions ==
  ASSUME NEW path \in Path, ValidatePath(path)
  PROVE  /\ path.actions # <<>>
         /\ HasBridge(path) => SwapOpsOf(path) \o <<BridgeOf(path)>> = path.actions
         /\ SwapOpsOf(path) = <<>> => <<BridgeOf(path)>> = path.actions
         /\ ~HasBridge(path) => SwapOpsOf(path) \o <<>> = path.actions
<1> DEFINE s == path.actions
           n == Len(s)
<1>1. s \in Seq(Action) /\ s # <<>> /\ n \in Nat \ {0} /\ n \in DOMAIN s
  BY DEF Path, ValidatePath
<1>2. ASSUME HasBridge(path)
      PROVE  SwapOpsOf(path) \o <<BridgeOf(path)>> = s
  <2>1. n \in BridgesOf(path) /\ \A j \in BridgesOf(path) : j = n
    BY <1>1, <1>2 DEF ValidatePath, BridgesOf
  <2>2. (CHOOSE k \in BridgesOf(path) : \A j \in BridgesOf(path) : j <= k) = n
    BY <1>1, <2>1
  <2>3. BridgeOf(path) = s[n]
    BY <2>2 DEF BridgeOf
  <2>4. SubSeq(s, 1, n) = SubSeq(s, 1, n - 1) \o <<s[n]>>
    BY <1>1, SubSeqRecursiveSecond
  <2>5. SubSeq(s, 1, n) = s
    BY <1>1, SubSeqFull
  <2> QED BY <1>2, <2>3, <2>4, <2>5 DEF SwapOpsOf
<1>3. ASSUME SwapOpsOf(path) = <<>> PROVE <<BridgeOf(path)>> = s
  <2>1. HasBridge(path) /\ BridgeOf(path) \in Action
    BY <1>3, ValidPath
  <2>2. <<BridgeOf(path)>> \in Seq(Action)
    BY <2>1
  <2>3. <<>> \o <<BridgeOf(path)>> = <<BridgeOf(path)>>
    BY <2>2, ConcatEmptySeq
  <2> QED BY <1>2, <1>3, <2>1, <2>3
<1>4. ASSUME ~HasBridge(path) PROVE SwapOpsOf(path) \o <<>> = s
  BY <1>1, <1>4, ConcatEmptySeq DEF SwapOpsOf
<1> QED BY <1>1, <1>2, <1>3, <1>4

\* The four kinds of transfer end the work of the path; one to an EVM chain needs
\* an OraiBridge address.
LEMMA LegShapes ==
  ASSUME NEW path \in Path, NEW to \in Address, NEW recover \in Address,
         NEW obridge \in Address, Known(to)
  PROVE  /\ ~HasBridge(path) => LegOf(LocalLeg(path, to), path, to)
         /\ HasBridge(path) =>
              /\ LegOf(IbcLeg(path, to, recover), path, to)
              /\ (IsEthAddress(to) => Known(obridge)) =>
                   LegOf(WasmLeg(path, to, obridge, recover), path, to)
         /\ HasBridge(path) /\ path.out = Ton =>
              LegOf(TonLeg(path, to, recover), path, to)
<1>1. LegOf(LocalLeg(path, to), path, to) \/ HasBridge(path)
  BY DEF LegOf, LocalLeg
<1>2. HasBridge(path) => LegOf(IbcLeg(path, to, recover), path, to)
  BY DEF LegOf, IbcLeg
<1>3. HasBridge(path) /\ (IsEthAddress(to) => Known(obridge)) =>
        LegOf(WasmLeg(path, to, obridge, recover), path, to)
  BY DEF LegOf, IbcLeg, WasmLeg, IsEthAddress
<1>4. HasBridge(path) /\ path.out = Ton =>
        LegOf(TonLeg(path, to, recover), path, to)
  BY DEF LegOf, IbcLeg, TonLeg
<1> QED BY <1>1, <1>2, <1>3, <1>4

\* The post actions end the work of their path, and unless the path is one that
\* nobody can recover, they name the current address for a transfer that fails.
LEMMA PostActionShapes ==
  ASSUME NEW path \in Path, NEW to \in Address, NEW current \in Address,
         NEW obridge \in Address, Known(to),
         NEW l, \/ l = PostAction(path, to, current, obridge)
                     /\ CanPostAction(path, to, obridge)
                \/ l = OsmosisPostAction(path, to, current),
         obridge = NoAddress \/ Known(obridge)
  PROVE  /\ LegOf(l, path, to)
         /\ l.recover \in {current, NoAddress}
         /\ \/ l.via = "local"
            \/ l.recover = current
            \/ HasBridge(path) /\ path.out # Ton /\ BridgeOf(path).port = "wasm"
<1>1. CASE ~HasBridge(path)
  <2>1. l = LocalLeg(path, to)
    BY <1>1 DEF PostAction, OsmosisPostAction
  <2>2. l.via = "local" /\ l.recover = NoAddress
    BY <2>1 DEF LocalLeg
  <2> QED BY <1>1, <2>1, <2>2, LegShapes
<1>2. CASE HasBridge(path) /\ l = IbcLeg(path, to, current)
  <2>1. l.recover = current
    BY <1>2 DEF IbcLeg
  <2> QED BY <1>2, <2>1, LegShapes
<1>3. CASE HasBridge(path) /\ path.out = Ton /\ l = TonLeg(path, to, current)
  <2>1. l.recover = current
    BY <1>3 DEF IbcLeg, TonLeg
  <2> QED BY <1>3, <2>1, LegShapes
<1>4. CASE /\ HasBridge(path) /\ path.out # Ton /\ CanWasmLeg(path, to, obridge)
           /\ l = WasmLeg(path, to, obridge, NoAddress)
  <2>1. l.recover = NoAddress /\ BridgeOf(path).port = "wasm"
    BY <1>4 DEF WasmLeg, IbcLeg, CanWasmLeg
  <2>2. IsEthAddress(to) => Known(obridge)
    BY <1>4 DEF CanWasmLeg
  <2>3. LegOf(l, path, to)
    BY <1>4, <2>2, LegShapes, AddressTypes
  <2> QED BY <1>4, <2>1, <2>3
<1>5. ~HasBridge(path) \/ l = IbcLeg(path, to, current)
        \/ (path.out = Ton /\ l = TonLeg(path, to, current))
        \/ (/\ path.out # Ton /\ CanWasmLeg(path, to, obridge)
            /\ l = WasmLeg(path, to, obridge, NoAddress))
  BY DEF PostAction, OsmosisPostAction, CanPostAction
<1> QED BY <1>1, <1>2, <1>3, <1>4, <1>5

\* getBridgeInfo of the other cosmos chains wants the first action to be a bridge:
\* in a valid path it is the only action.
LEMMA OnlyBridge ==
  ASSUME NEW path \in Path, ValidatePath(path), CosmosActions(path)
  PROVE  path.actions = <<BridgeOf(path)>>
<1>1. path.actions \in Seq(Action) /\ 1 \in DOMAIN path.actions
      /\ Len(path.actions) \in DOMAIN path.actions
  BY DEF Path, ValidatePath
<1>2. HasBridge(path) /\ 1 \in BridgesOf(path)
  BY <1>1 DEF CosmosActions, HasBridge, BridgesOf
<1>3. Len(path.actions) \in BridgesOf(path)
  BY <1>1, <1>2 DEF ValidatePath, BridgesOf
<1>4. Len(path.actions) = 1
  BY <1>2, <1>3 DEF ValidatePath
<1>5. SwapOpsOf(path) = <<>>
  BY <1>1, <1>2, <1>4 DEF SwapOpsOf
<1> QED BY <1>5, PathActions

\* buildMemoSwap puts one instruction in front of what the path's transfer
\* carries of the memo; it makes the chain do the path, and the transfer that is
\* addressed to the receiver it returns will be understood (genMemoForIbcWasm
\* and genMemoAsMiddleware of the three chain messages).
LEMMA BuildMemoMakes ==
  ASSUME NEW path \in Path, NEW to \in Address, NEW rest \in Seq(Instruction),
         NEW book \in Book, NEW previous, NEW slippage,
         \A c \in Chains \cup {OBridge} : book[c] \in {UserAt(c), NoAddress},
         CanBuildMemo(path, to, book, previous, slippage),
         to = NoAddress \/ Known(to)
  PROVE  LET r == BuildMemoSwap(path, to, rest, book, previous)
         IN  \E h \in Instruction :
               /\ r.memo = <<h>> \o Carried(h.leg, rest)
               /\ Makes(h, path, to, previous)
               /\ Awaits(h, r.receiver, previous, path.chain)
<1> DEFINE current == book[path.chain]
           obridge == book[OBridge]
           r == BuildMemoSwap(path, to, rest, book, previous)
           Good(x) == \E h \in Instruction :
                        /\ x.memo = <<h>> \o Carried(h.leg, rest)
                        /\ Makes(h, path, to, previous)
                        /\ Awaits(h, x.receiver, previous, path.chain)
<1>1. /\ path.chain \in CosmosChains /\ path.chain \in Chains /\ ValidatePath(path)
      /\ path.out \in Chains
      /\ current # NoAddress /\ Known(to)
      /\ path.chain # Oraichain /\ path.chain # Osmosis => CosmosActions(path)
      /\ path.chain = Oraichain /\ ~IsWasmOrigin(previous) =>
           CanOraichainMiddleware(path, to, obridge)
      /\ path.chain = Oraichain /\ IsWasmOrigin(previous) =>
           CanPostAction(path, to, obridge)
  BY DEF CanBuildMemo, Path, ValidateReceiver, Oraichain, Osmosis, IsWasmOrigin
<1>2. /\ current \in Address /\ obridge \in Address
      /\ current.owner = "user" /\ Known(current) /\ current.form = "plain"
      /\ obridge = NoAddress \/ Known(obridge)
  <2>1. current = UserAt(path.chain)
    BY <1>1
  <2>2. current \in Address /\ obridge \in Address
    BY <1>1 DEF Book
  <2> QED BY <1>1, <2>1, <2>2, KnownAddresses
<1>3. SwapOpsOf(path) \in Seq(Action) /\ <<>> \in Seq(Action)
  BY <1>1, ValidPath
<1>a. \A l : l.recover = current => \A x, y : BackTo(l, x, y) = current
  BY <1>1 DEF BackTo
<1>b. ASSUME NEW l, LegOf(l, path, to)
      PROVE  SwapOpsOf(path) \o l.ops = path.actions
  BY <1>1, <1>b, PathActions DEF LegOf
<1>c. ASSUME NEW h \in Instruction, NEW address, NEW carried,
             carried = <<h>> \o Carried(h.leg, rest),
             Makes(h, path, to, previous), Awaits(h, address, previous, path.chain)
      PROVE  Good([receiver |-> address, memo |-> carried])
  BY <1>c
<1> HIDE DEF Good
<1>4. ASSUME path.chain = Oraichain, IsWasmOrigin(previous)
      PROVE  Good(MemoForIbcWasm(path, to, rest, current, obridge))
  <2> DEFINE l == PostAction(path, to, current, obridge)
             h == [reader |-> "ibc_wasm", contract |-> NoAddress,
                   ops |-> SwapOpsOf(path), leg |-> l, recover |-> current]
  <2>1. l \in Leg /\ LegOf(l, path, to) /\ l.recover \in {current, NoAddress}
    BY <1>1, <1>2, <1>4, PostActionTypes, PostActionShapes
  <2>2. MemoForIbcWasm(path, to, rest, current, obridge)
          = [receiver |-> current, memo |-> <<h>> \o Carried(h.leg, rest)]
    BY DEF MemoForIbcWasm, ProtoForPostAction
  <2> HIDE DEF l
  <2>3. h \in Instruction
    BY <1>2, <1>3, <2>1, AddressTypes DEF Instruction
  <2>4. h.leg = l /\ h.recover = current /\ h.reader = "ibc_wasm" /\ h.ops = SwapOpsOf(path)
    OBVIOUS
  <2>5. BackTo(h.leg, h.recover, h.contract) = current
    BY <1>1, <2>1, <2>4 DEF BackTo
  <2> HIDE DEF h
  <2>6. Makes(h, path, to, previous)
    BY <1>1, <1>2, <1>b, <2>1, <2>4, <2>5, PathActions DEF Makes, PaidBack
  <2>7. Awaits(h, current, previous, path.chain)
    BY <1>1, <1>2, <1>4, <2>4 DEF Awaits, WasmLinked, IsWasmOrigin
  <2> QED BY <1>c, <2>2, <2>3, <2>6, <2>7
<1>5. ASSUME HasBridge(path), SwapOpsOf(path) = <<>> \/ path.actions = <<BridgeOf(path)>>,
             path.chain = Oraichain => ~IsWasmOrigin(previous)
      PROVE  Good(ForwardMemo(path, to, rest, current))
  <2> DEFINE l == IbcLeg(path, to, NoAddress)
             h == [reader |-> "forward", contract |-> NoAddress, ops |-> <<>>,
                   leg |-> l, recover |-> NoAddress]
  <2>1. l \in Leg /\ LegOf(l, path, to) /\ l.via = "ibc" /\ l.ops = <<BridgeOf(path)>>
    BY <1>1, <1>5, LegTypes, LegShapes, AddressTypes DEF IbcLeg
  <2>2. ForwardMemo(path, to, rest, current)
          = [receiver |-> current, memo |-> <<h>> \o rest]
    BY DEF ForwardMemo
  <2> HIDE DEF l
  <2>3. h \in Instruction
    BY <1>3, <2>1, AddressTypes DEF Instruction
  <2>4. h.leg = l /\ h.recover = NoAddress /\ h.reader = "forward" /\ h.ops = <<>>
    OBVIOUS
  <2> HIDE DEF h
  <2>5. Carried(h.leg, rest) = rest
    BY <2>1, <2>4 DEF Carried
  <2>6. h.ops \o h.leg.ops = path.actions
    <3>1. l.ops \in Seq(Action)
      BY <2>1 DEF Leg
    <3>2. <<>> \o l.ops = l.ops
      BY <3>1, ConcatEmptySeq
    <3> QED BY <1>1, <1>5, <2>1, <2>4, <3>2, PathActions
  <2>7. Makes(h, path, to, previous)
    BY <1>1, <2>1, <2>4, <2>6, PathActions DEF Makes
  <2>8. Awaits(h, current, previous, path.chain)
    BY <1>1, <1>2, <1>5, <2>4 DEF Awaits, WasmLinked, IsWasmOrigin
  <2> QED BY <1>c, <2>2, <2>3, <2>5, <2>7, <2>8
<1>6. ASSUME NEW l \in Leg, LegOf(l, path, to),
             \/ l.via = "local" \/ l.recover = current
             \/ l.recover = NoAddress /\ Unrecovered(path, previous),
             path.chain = Oraichain => ~IsWasmOrigin(previous)
      PROVE  Good(EntryPointMemo(path, l, rest))
  <2> DEFINE h == [reader |-> "hook", contract |-> EntryPoint(path.chain),
                   ops |-> SwapOpsOf(path), leg |-> l, recover |-> NoAddress]
  <2>1. h \in Instruction
    BY <1>1, <1>3, AddressTypes DEF Instruction
  <2>2. EntryPointMemo(path, l, rest)
          = [receiver |-> EntryPoint(path.chain), memo |-> <<h>> \o Carried(h.leg, rest)]
    BY DEF EntryPointMemo
  <2>3. /\ h.leg = l /\ h.recover = NoAddress /\ h.reader = "hook"
        /\ h.contract = EntryPoint(path.chain) /\ h.ops = SwapOpsOf(path)
    OBVIOUS
  <2> HIDE DEF h
  <2>4. h.leg.via # "local" =>
          PaidBack(BackTo(h.leg, h.recover, h.contract), path, previous)
    <3>1. CASE l.recover = current
      BY <1>2, <1>a, <2>3, <3>1 DEF PaidBack
    <3>2. CASE l.recover = NoAddress /\ Unrecovered(path, previous)
      BY <2>3, <3>2, KnownAddresses DEF PaidBack, BackTo
    <3> QED BY <1>6, <2>3, <3>1, <3>2
  <2>5. Makes(h, path, to, previous)
    BY <1>1, <1>6, <1>b, <2>3, <2>4, PathActions DEF Makes
  <2>6. Awaits(h, EntryPoint(path.chain), previous, path.chain)
    BY <1>1, <1>6, <2>3, KnownAddresses DEF Awaits, WasmLinked, IsWasmOrigin
  <2> QED BY <1>c, <2>1, <2>2, <2>5, <2>6
<1>7. ASSUME path.chain = Oraichain, ~IsWasmOrigin(previous), HasBridge(path),
             path.out = Ton, SwapOpsOf(path) = <<>>
      PROVE  Good(TonHookMemo(path, to, current))
  <2> DEFINE l == TonLeg(path, to, current)
             h == [reader |-> "hook", contract |-> IbcWasm, ops |-> <<>>,
                   leg |-> l, recover |-> current]
  <2>1. /\ l \in Leg /\ LegOf(l, path, to)
        /\ l.via = "ton" /\ l.ops = <<BridgeOf(path)>> /\ l.recover = current
    BY <1>1, <1>2, <1>7, LegTypes, LegShapes DEF TonLeg, IbcLeg
  <2>2. TonHookMemo(path, to, current) = [receiver |-> IbcWasm, memo |-> <<h>>]
    BY DEF TonHookMemo
  <2> HIDE DEF l
  <2>3. h \in Instruction
    BY <1>2, <1>3, <2>1, AddressTypes DEF Instruction
  <2>4. /\ h.leg = l /\ h.recover = current /\ h.reader = "hook"
        /\ h.contract = IbcWasm /\ h.ops = <<>>
    OBVIOUS
  <2> HIDE DEF h
  <2>5. <<h>> \o Carried(h.leg, rest) = <<h>>
    <3>1. Carried(h.leg, rest) = <<>> /\ <<h>> \in Seq(Instruction)
      BY <2>1, <2>3, <2>4 DEF Carried
    <3> QED BY <3>1, ConcatEmptySeq
  <2>6. h.ops \o h.leg.ops = path.actions
    <3>1. l.ops \in Seq(Action)
      BY <2>1 DEF Leg
    <3>2. <<>> \o l.ops = l.ops
      BY <3>1, ConcatEmptySeq
    <3> QED BY <1>1, <1>7, <2>1, <2>4, <3>2, PathActions
  <2>7. PaidBack(BackTo(h.leg, h.recover, h.contract), path, previous)
    BY <1>2, <1>a, <2>1, <2>4 DEF PaidBack
  <2>8. Makes(h, path, to, previous)
    BY <1>1, <1>2, <2>1, <2>4, <2>6, <2>7, PathActions DEF Makes
  <2>9. Awaits(h, IbcWasm, previous, path.chain)
    BY <1>1, <1>7, <2>4, KnownAddresses DEF Awaits, WasmLinked, IsWasmOrigin
  <2> QED BY <1>c, <2>2, <2>3, <2>5, <2>8, <2>9
<1>8. CASE path.chain = Oraichain /\ IsWasmOrigin(previous)
  <2>1. r = MemoForIbcWasm(path, to, rest, current, obridge)
    BY <1>8 DEF BuildMemoSwap, IsWasmOrigin, Oraichain, Osmosis
  <2> QED BY <1>4, <1>8, <2>1 DEF Good
<1>9. CASE path.chain = Oraichain /\ ~IsWasmOrigin(previous)
  <2>1. r = OraichainMiddleware(path, to, rest, current, obridge)
    BY <1>9 DEF BuildMemoSwap, IsWasmOrigin, Oraichain, Osmosis
  <2>2. CASE SwapOpsOf(path) # <<>>
    <3> DEFINE l == PostAction(path, to, current, obridge)
    <3>1. r = EntryPointMemo(path, l, rest)
      BY <2>1, <2>2 DEF OraichainMiddleware
    <3>2. CanPostAction(path, to, obridge)
      BY <1>1, <1>9, <2>2 DEF CanOraichainMiddleware
    <3>3. l \in Leg /\ LegOf(l, path, to)
      BY <1>1, <1>2, <3>2, PostActionTypes, PostActionShapes
    <3>4. \/ l.via = "local" \/ l.recover = current
          \/ l.recover = NoAddress /\ Unrecovered(path, previous)
      BY <1>1, <1>2, <1>9, <2>2, <3>2, PostActionShapes DEF Unrecovered
    <3> HIDE DEF l
    <3>5. Good(EntryPointMemo(path, l, rest))
      BY <1>6, <1>9, <3>3, <3>4
    <3> QED BY <3>1, <3>5 DEF Good
  <2>3. CASE SwapOpsOf(path) = <<>>
    <3>1. HasBridge(path)
      BY <1>1, <2>3, ValidPath
    <3>2. CASE path.out = Ton
      <4>1. r = TonHookMemo(path, to, current)
        BY <2>1, <2>3, <3>2 DEF OraichainMiddleware
      <4> QED BY <1>7, <1>9, <2>3, <3>1, <3>2, <4>1 DEF Good
    <3>3. CASE path.out # Ton
      <4>1. r = ForwardMemo(path, to, rest, current)
        BY <2>1, <2>3, <3>3 DEF OraichainMiddleware
      <4> QED BY <1>5, <1>9, <2>3, <3>1, <4>1 DEF Good
    <3> QED BY <3>2, <3>3
  <2> QED BY <2>2, <2>3
<1>10. CASE path.chain = Osmosis
  <2>1. r = OsmosisMiddleware(path, to, rest, current)
    BY <1>10 DEF BuildMemoSwap, Oraichain, Osmosis
  <2>2. CASE SwapOpsOf(path) = <<>>
    <3>1. r = ForwardMemo(path, to, rest, current) /\ HasBridge(path)
      BY <1>1, <2>1, <2>2, ValidPath DEF OsmosisMiddleware
    <3> QED BY <1>5, <1>10, <2>2, <3>1 DEF Good, Oraichain, Osmosis
  <2>3. CASE SwapOpsOf(path) # <<>>
    <3> DEFINE l == OsmosisPostAction(path, to, current)
    <3>1. r = EntryPointMemo(path, l, rest)
      BY <2>1, <2>3 DEF OsmosisMiddleware
    <3>2. l \in Leg /\ LegOf(l, path, to)
      BY <1>1, <1>2, PostActionTypes, PostActionShapes
    <3>3. l.via = "local" \/ l.recover = current
      BY DEF OsmosisPostAction, LocalLeg, IbcLeg
    <3> HIDE DEF l
    <3>4. Good(EntryPointMemo(path, l, rest))
      BY <1>6, <1>10, <3>2, <3>3 DEF Oraichain, Osmosis
    <3> QED BY <3>1, <3>4 DEF Good
  <2> QED BY <2>2, <2>3
<1>11. CASE path.chain # Oraichain /\ path.chain # Osmosis
  <2>1. r = ForwardMemo(path, to, rest, current)
    BY <1>11 DEF BuildMemoSwap, CosmosMiddleware
  <2>2. HasBridge(path) /\ path.actions = <<BridgeOf(path)>>
    BY <1>1, <1>11, CosmosBridges, OnlyBridge
  <2> QED BY <1>5, <1>11, <2>1, <2>2 DEF Good
<1> QED BY <1>8, <1>9, <1>10, <1>11 DEF Good

\* buildExecuteMsg makes a message that does the path, carries what its transfer
\* can carry of the memo, and that gives the tokens of a failed transfer back
\* (genExecuteMsg and genBridgeMsg of the three chain messages).
LEMMA BuildExecuteMakes ==
  ASSUME NEW path \in Path, NEW to \in Address, NEW rest \in Seq(Instruction),
         NEW book \in Book, NEW slippage,
         \A c \in Chains \cup {OBridge} : book[c] \in {UserAt(c), NoAddress},
         CanBuildExecute(path, to, book, slippage),
         to = NoAddress \/ Known(to)
  PROVE  LET x == BuildExecuteMsg(path, to, rest, book)
         IN  /\ x.leg \in Leg /\ x.memo = Carried(x.leg, rest)
             /\ x.ops \o x.leg.ops = path.actions /\ path.actions # <<>>
             /\ LegOf(x.leg, path, to)
             /\ x.leg.via # "local" =>
                  PaidBack(BackTo(x.leg, NoAddress, x.contract), path, "none")
<1> DEFINE current == book[path.chain]
           obridge == book[OBridge]
           x == BuildExecuteMsg(path, to, rest, book)
           Good(y) == /\ y.leg \in Leg /\ y.memo = Carried(y.leg, rest)
                      /\ y.ops \o y.leg.ops = path.actions /\ path.actions # <<>>
                      /\ LegOf(y.leg, path, to)
                      /\ y.leg.via # "local" =>
                           PaidBack(BackTo(y.leg, NoAddress, y.contract), path, "none")
<1>1. /\ path.chain \in CosmosChains /\ path.chain \in Chains /\ ValidatePath(path)
      /\ current # NoAddress /\ Known(to)
      /\ path.chain # Oraichain /\ path.chain # Osmosis => CosmosActions(path)
      /\ path.chain = Oraichain /\ SwapOpsOf(path) # <<>> =>
           CanPostAction(path, to, obridge)
      /\ path.chain = Oraichain /\ SwapOpsOf(path) = <<>> =>
           CanBridgeMsg(path, to, obridge)
  BY DEF CanBuildExecute, Path, ValidateReceiver, Oraichain, Osmosis
<1>2. /\ current \in Address /\ obridge \in Address /\ current.owner = "user"
      /\ obridge = NoAddress \/ Known(obridge)
  <2>1. current = UserAt(path.chain)
    BY <1>1
  <2>2. current \in Address /\ obridge \in Address
    BY <1>1 DEF Book
  <2> QED BY <2>1, <2>2, KnownAddresses
<1>3. ASSUME NEW l \in Leg, LegOf(l, path, to), NEW ops, ops \o l.ops = path.actions,
             NEW contract,
             \/ l.via = "local" \/ l.recover = current
             \/ /\ l.recover = NoAddress /\ contract.owner = "entry_point"
                /\ Unrecovered(path, "none")
      PROVE  Good([contract |-> contract, ops |-> ops, leg |-> l,
                   memo |-> Carried(l, rest)])
  <2>1. ASSUME l.via # "local"
        PROVE  PaidBack(BackTo(l, NoAddress, contract), path, "none")
    <3>1. CASE l.recover = current
      BY <1>1, <1>2, <3>1 DEF BackTo, PaidBack
    <3>2. CASE l.recover # current
      BY <1>3, <2>1, <3>2 DEF BackTo, PaidBack
    <3> QED BY <3>1, <3>2
  <2> QED BY <1>1, <1>3, <2>1, PathActions
<1>4. ASSUME NEW l \in Leg, LegOf(l, path, to), HasBridge(path)
      PROVE  SwapOpsOf(path) = <<>> => <<>> \o l.ops = path.actions
  <2>1. l.ops \in Seq(Action) /\ l.ops = <<BridgeOf(path)>>
    BY <1>4 DEF Leg, LegOf
  <2> QED BY <1>1, <2>1, ConcatEmptySeq, PathActions
<1>5. ASSUME NEW l \in Leg, LegOf(l, path, to),
             \/ l.via = "local" \/ l.recover = current
             \/ l.recover = NoAddress /\ Unrecovered(path, "none")
      PROVE  Good(EntryPointMsg(path, l, rest))
  <2>1. SwapOpsOf(path) \o l.ops = path.actions
    BY <1>1, <1>5, PathActions DEF LegOf
  <2> QED BY <1>3, <1>5, <2>1, KnownAddresses DEF EntryPointMsg
<1> HIDE DEF Good
<1>6. CASE path.chain = Oraichain /\ SwapOpsOf(path) # <<>>
  <2> DEFINE l == PostAction(path, to, current, obridge)
  <2>1. x = EntryPointMsg(path, l, rest)
    BY <1>6 DEF BuildExecuteMsg, Oraichain, Osmosis
  <2>2. l \in Leg /\ LegOf(l, path, to)
    BY <1>1, <1>2, <1>6, PostActionTypes, PostActionShapes
  <2>3. \/ l.via = "local" \/ l.recover = current
        \/ l.recover = NoAddress /\ Unrecovered(path, "none")
    <3>1. ~IsWasmOrigin("none")
      BY ChainsAssumption DEF IsWasmOrigin, Noble, Ton
    <3> QED BY <1>1, <1>2, <1>6, <3>1, PostActionShapes DEF Unrecovered
  <2> HIDE DEF l
  <2> QED BY <1>5, <2>1, <2>2, <2>3 DEF Good
<1>7. CASE path.chain = Oraichain /\ SwapOpsOf(path) = <<>>
  <2> DEFINE l == CASE BridgeOf(path).port = "transfer" /\ path.out \in CosmosChains ->
                         IbcLeg(path, to, current)
                    [] BridgeOf(path).port = "wasm" ->
                         WasmLeg(path, to, obridge, current)
                    [] OTHER -> TonLeg(path, to, current)
  <2>1. x = [contract |-> NoAddress, ops |-> <<>>, leg |-> l, memo |-> Carried(l, rest)]
    BY <1>7 DEF BuildExecuteMsg, BridgeMsg, Oraichain, Osmosis
  <2>2. HasBridge(path) /\ CanBridgeMsg(path, to, obridge)
    BY <1>1, <1>7, ValidPath
  <2>3. l \in Leg /\ LegOf(l, path, to) /\ l.recover = current
    <3>1. CASE BridgeOf(path).port = "transfer" /\ path.out \in CosmosChains
      <4>1. l = IbcLeg(path, to, current) /\ l.recover = current
        BY <3>1 DEF IbcLeg
      <4> QED BY <1>1, <1>2, <2>2, <4>1, LegTypes, LegShapes
    <3>2. CASE BridgeOf(path).port = "wasm"
      <4>1. l = WasmLeg(path, to, obridge, current) /\ l.recover = current
        BY <3>2 DEF IbcLeg, WasmLeg
      <4>2. IsEthAddress(to) => Known(obridge)
        BY <1>2, <2>2, <3>2 DEF CanBridgeMsg, CanWasmLeg
      <4>3. l \in Leg
        BY <1>1, <1>2, <2>2, <4>1, LegTypes
      <4> QED BY <1>1, <1>2, <2>2, <4>1, <4>2, <4>3, LegShapes
    <3>3. CASE /\ ~(BridgeOf(path).port = "transfer" /\ path.out \in CosmosChains)
               /\ BridgeOf(path).port # "wasm"
      <4>1. l = TonLeg(path, to, current) /\ l.recover = current
        BY <3>3 DEF IbcLeg, TonLeg
      <4>2. path.out = Ton
        BY <2>2, <3>3 DEF CanBridgeMsg, CanWasmLeg
      <4> QED BY <1>1, <1>2, <2>2, <4>1, <4>2, LegTypes, LegShapes
    <3> QED BY <3>1, <3>2, <3>3
  <2> HIDE DEF l
  <2>4. <<>> \o l.ops = path.actions
    BY <1>4, <1>7, <2>2, <2>3
  <2>5. Good([contract |-> NoAddress, ops |-> <<>>, leg |-> l, memo |-> Carried(l, rest)])
    BY <1>3, <2>3, <2>4
  <2> QED BY <2>1, <2>5 DEF Good
<1>8. CASE path.chain = Osmosis /\ SwapOpsOf(path) # <<>>
  <2> DEFINE l == OsmosisPostAction(path, to, current)
  <2>1. x = EntryPointMsg(path, l, rest)
    BY <1>8 DEF BuildExecuteMsg, Oraichain, Osmosis
  <2>2. l \in Leg /\ LegOf(l, path, to)
    BY <1>1, <1>2, PostActionTypes, PostActionShapes
  <2>3. l.via = "local" \/ l.recover = current
    BY DEF OsmosisPostAction, LocalLeg, IbcLeg
  <2> HIDE DEF l
  <2> QED BY <1>5, <2>1, <2>2, <2>3 DEF Good
<1>9. CASE path.chain # Oraichain /\ (path.chain = Osmosis => SwapOpsOf(path) = <<>>)
  <2> DEFINE l == IbcLeg(path, to, current)
  <2>1. x = [contract |-> NoAddress, ops |-> <<>>, leg |-> l, memo |-> Carried(l, rest)]
    BY <1>9 DEF BuildExecuteMsg, Oraichain, Osmosis
  <2>2. HasBridge(path) /\ <<BridgeOf(path)>> = path.actions
    <3>1. CASE path.chain = Osmosis
      BY <1>1, <1>9, <3>1, ValidPath, PathActions
    <3>2. CASE path.chain # Osmosis
      BY <1>1, <1>9, <3>2, CosmosBridges, OnlyBridge
    <3> QED BY <3>1, <3>2
  <2>3. l \in Leg /\ LegOf(l, path, to) /\ l.recover = current
    BY <1>1, <1>2, <2>2, LegTypes, LegShapes DEF IbcLeg
  <2>4. <<>> \o l.ops = path.actions
    <3>1. l.ops \in Seq(Action) /\ l.ops = <<BridgeOf(path)>>
      BY <2>2, <2>3 DEF Leg, LegOf
    <3> QED BY <2>2, <3>1, ConcatEmptySeq
  <2> HIDE DEF l
  <2>5. Good([contract |-> NoAddress, ops |-> <<>>, leg |-> l, memo |-> Carried(l, rest)])
    BY <1>3, <2>3, <2>4
  <2> QED BY <2>1, <2>5 DEF Good
<1> QED BY <1>6, <1>7, <1>8, <1>9

\* A transfer that is addressed to a contract or an account on a cosmos chain
\* takes the whole memo along, and the chain will act on it.
LEMMA CarriedWhole ==
  ASSUME NEW path \in Path, NEW to \in Address, NEW rest \in Seq(Instruction),
         NEW l \in Leg, LegOf(l, path, to),
         \/ rest = <<>>
         \/ HasBridge(path) /\ Awaits(rest[1], to, path.chain, path.out)
  PROVE  /\ Carried(l, rest) = rest
         /\ rest # <<>> => l.via # "local" /\ Reads(rest[1], l)
<1>1. CASE rest = <<>>
  BY <1>1 DEF Carried
<1>2. CASE HasBridge(path) /\ Awaits(rest[1], to, path.chain, path.out)
  <2>1. path.out \in CosmosChains /\ Ton \notin CosmosChains
    BY <1>2, ChainsAssumption DEF Awaits, CosmosChains, Ton, Oraichain, Osmosis, Noble
  <2>2. l.via \in {"ibc", "wasm"} /\ l.to = l.final /\ l.final = to
    BY <1>2, <2>1 DEF LegOf, Awaits
  <2>3. Carried(l, rest) = rest
    BY <2>2 DEF Carried
  <2>4. Reads(rest[1], l)
    BY <1>2, <2>2 DEF Reads, Awaits, LegOf, Arrival
  <2> QED BY <2>2, <2>3, <2>4
<1> QED BY <1>1, <1>2

-----------------------------------------------------------------------------
(***************************************************************************)
(* The whole route.  The invariant looks at the transfer that is built,    *)
(* signed or in flight together with the memo that goes with it: the       *)
(* instructions of the memo perform the rest of the route, the last ones   *)
(* of its paths; each of them will be understood by the chain that the     *)
(* transfer before it goes to; the last transfer pays the final receiver;  *)
(* and somebody gets the tokens of every transfer that fails.              *)
(***************************************************************************)

\* These actions follow one another on the route, from its beginning ...
Ordered(s) ==
  \A k \in DOMAIN s : s[k].op = IF k = 1 THEN <<1, 1>> ELSE NextOp(s[k - 1].op)

\* ... to the end of its path p.
Reached(s, p) ==
  /\ Ordered(s)
  /\ p = 0 => s = <<>>
  /\ p # 0 => s # <<>> /\ s[Len(s)].op = <<p, Len(route[p].actions)>>

GivesBack(a) == a.owner = "user" \/ (~Guarded /\ a.owner = "entry_point")

\* Position k of the memo is next when l arrives.
Leads(l, m, k) ==
  /\ Known(l.to) /\ Known(l.final)
  /\ l.via = "local" => l.to = l.final /\ l.ops = <<>> /\ k \notin DOMAIN m
  /\ k \in DOMAIN m => Reads(m[k], l)
  /\ k \notin DOMAIN m => l.final = FinalReceiver

\* The instruction performs path p of the route.
Performs(h, p) ==
  /\ route[p].actions # <<>>
  /\ h.ops \o h.leg.ops = route[p].actions
  /\ h.reader = "forward" => h.ops = <<>> /\ h.leg.via # "local"
  /\ h.recover = NoAddress \/ h.recover.owner = "user"
  /\ h.reader # "forward" /\ h.leg.via # "local" =>
       GivesBack(BackTo(h.leg, h.recover, h.contract))

RouteMemo(m) ==
  /\ Len(m) <= Final
  /\ \A k \in DOMAIN m :
       Performs(m[k], Final - Len(m) + k) /\ Leads(m[k].leg, m, k + 1)

BuildRoute ==
  /\ RouteMemo(memo) /\ Len(memo) = Final - i
  /\ receiver = NoAddress \/ Known(receiver)
  /\ i = Final => receiver = FinalReceiver
  /\ i # Final => Awaits(memo[1], receiver, PreviousOf(i + 1), route[i + 1].chain)
  /\ FromMemo => Known(request.book[Oraichain])

MsgRoute(x) ==
  /\ RouteMemo(x.memo)
  /\ Leads(x.leg, x.memo, 1)
  /\ Reached(x.ops \o x.leg.ops, Final - Len(x.memo))
  /\ x.leg.via # "local" => GivesBack(BackTo(x.leg, NoAddress, x.contract))

RelayRoute ==
  /\ RouteMemo(memo)
  /\ Leads(leg, memo, 1) /\ leg.via # "local"
  /\ Reached(done \o leg.ops, Final - Len(memo))
  /\ GivesBack(refund)
  /\ holder = NoAddress

\* The tokens arrived, or were given back.
Rested ==
  /\ Ordered(done)
  /\ \/ Known(holder) /\ holder = FinalReceiver /\ AllDone
     \/ trouble /\ GivesBack(holder)

RouteInv ==
  /\ TypeInv
  /\ pc \in {"start", "build", "ready", "thrown"} => holder = Wallet /\ done = <<>>
  /\ pc = "start" => memo = <<>>
  /\ pc = "build" => BuildRoute
  /\ pc = "ready" => MsgRoute(msg)
  /\ pc = "relay" => RelayRoute
  /\ pc = "settled" => Rested

\* What is in order up to an action is in order up to an earlier one.
LEMMA OrderedPrefix ==
  ASSUME NEW s \in Seq(Action), NEW t \in Seq(Action), Ordered(s \o t)
  PROVE  Ordered(s)
<1> DEFINE u == s \o t
<1>1. \A k \in DOMAIN s : k \in DOMAIN u /\ u[k] = s[k] /\ (k # 1 => k - 1 \in DOMAIN s)
  BY ConcatProperties
<1>2. \A k \in DOMAIN s : k # 1 => u[k - 1] = s[k - 1]
  BY <1>1
<1>3. Ordered(u)
  OBVIOUS
<1> HIDE DEF u
<1> QED BY <1>1, <1>2, <1>3 DEF Ordered

\* Behind the end of a path come the actions of the next one, all of them.
LEMMA ReachedNext ==
  ASSUME Asked, NEW s \in Seq(Action), NEW p \in 0 .. Final, p + 1 \in 1 .. Final,
         Reached(s, p), route[p + 1].actions # <<>>
  PROVE  Reached(s \o route[p + 1].actions, p + 1)
<1> DEFINE t == route[p + 1].actions
           u == s \o t
<1>1. /\ t \in Seq(Action) /\ t # <<>> /\ Len(t) \in Nat \ {0}
      /\ p \in Nat /\ Len(s) \in Nat
      /\ \A k \in DOMAIN t : t[k].op = <<p + 1, k>>
  <2>1. route[p + 1] \in Path /\ p + 1 \in DOMAIN route
    BY RequestTypes DEF Final
  <2>2. Connected(route)
    BY RequestsAssumption DEF Asked, route
  <2> QED BY <2>1, <2>2, RequestTypes DEF Path, Connected
<1>2. /\ u \in Seq(Action) /\ Len(u) = Len(s) + Len(t)
      /\ \A k \in 1 .. Len(u) : u[k] = IF k <= Len(s) THEN s[k] ELSE t[k - Len(s)]
  BY <1>1, ConcatProperties
<1> HIDE DEF t, u
<1>3. ASSUME NEW k \in 1 .. Len(u)
      PROVE  u[k].op = IF k = 1 THEN <<1, 1>> ELSE NextOp(u[k - 1].op)
  <2>a. k \in Nat /\ 1 <= k /\ k <= Len(s) + Len(t)
    BY <1>1, <1>2
  <2>1. CASE k <= Len(s)
    <3>1. k \in DOMAIN s /\ u[k] = s[k] /\ (k # 1 => u[k - 1] = s[k - 1])
      BY <1>1, <1>2, <2>1
    <3> QED BY <3>1 DEF Reached, Ordered
  <2>2. CASE k = Len(s) + 1
    <3>1. u[k] = t[1] /\ t[1].op = <<p + 1, 1>>
      <4>1. k \in 1 .. Len(u) /\ ~(k <= Len(s)) /\ k - Len(s) = 1
        BY <1>1, <2>2
      <4>2. u[k] = t[1]
        BY <1>2, <4>1
      <4>3. 1 \in DOMAIN t
        BY <1>1
      <4> QED BY <1>1, <4>2, <4>3
    <3>2. CASE p = 0
      <4>1. k = 1
        BY <2>2, <3>2 DEF Reached
      <4> QED BY <3>1, <3>2, <4>1
    <3>3. CASE p # 0
      <4>1. s # <<>> /\ s[Len(s)].op = <<p, Len(route[p].actions)>>
        BY <3>3 DEF Reached
      <4>2. k # 1 /\ u[k - 1] = s[Len(s)]
        BY <1>1, <1>2, <2>2, <4>1
      <4>3. route[p] \in Path
        BY <1>1, <3>3, RequestTypes
      <4>4. NextOp(<<p, Len(route[p].actions)>>) = <<p + 1, 1>>
        BY <4>3 DEF NextOp, Path
      <4> QED BY <3>1, <4>1, <4>2, <4>4
    <3> QED BY <3>2, <3>3
  <2>3. CASE k > Len(s) + 1
    <3> DEFINE j == k - Len(s)
    <3>a. /\ j \in 1 .. Len(t) /\ j - 1 \in 1 .. Len(t) /\ k # 1
          /\ k - 1 \in 1 .. Len(u) /\ (k - 1) - Len(s) = j - 1
          /\ ~(k <= Len(s)) /\ ~(k - 1 <= Len(s))
      BY <1>1, <2>a, <2>3
    <3>b. u[k] = t[j] /\ u[k - 1] = t[j - 1]
      BY <1>2, <3>a
    <3>1. /\ j \in DOMAIN t /\ j - 1 \in DOMAIN t /\ u[k] = t[j] /\ u[k - 1] = t[j - 1]
          /\ k # 1 /\ j - 1 < Len(t) /\ j \in Nat
      BY <1>1, <3>a, <3>b
    <3> HIDE DEF j
    <3>2. u[k].op = <<p + 1, j>> /\ u[k - 1].op = <<p + 1, j - 1>>
      BY <1>1, <3>1
    <3>3. NextOp(<<p + 1, j - 1>>) = <<p + 1, j>>
      BY <3>1 DEF NextOp, t
    <3> QED BY <3>1, <3>2, <3>3
  <2> QED BY <1>1, <2>a, <2>1, <2>2, <2>3
<1>4. Ordered(u)
  BY <1>2, <1>3 DEF Ordered
<1>5. u # <<>> /\ u[Len(u)].op = <<p + 1, Len(t)>>
  <2>1. Len(u) \in 1 .. Len(u) /\ ~(Len(u) <= Len(s)) /\ Len(u) - Len(s) = Len(t)
    BY <1>1, <1>2
  <2>2. u[Len(u)] = t[Len(t)] /\ Len(t) \in DOMAIN t
    BY <1>1, <1>2, <2>1
  <2> QED BY <1>1, <1>2, <2>1, <2>2
<1> QED BY <1>1, <1>4, <1>5 DEF Reached, t, u

\* At the end of the last path the whole route is done.
LEMMA ReachedAll ==
  ASSUME Asked, request' = request, Reached(done', Final)
  PROVE  AllDone'
<1>1. route' = route /\ Final' = Final
  BY DEF route, Final
<1>2. route \in Seq(Path) /\ (route = <<>> <=> Final = 0)
  BY RequestTypes DEF Final
<1> QED BY <1>1, <1>2 DEF Reached, AllDone

\* The parts of a memo that performs the rest of the route.
LEMMA RouteHead ==
  ASSUME Asked, NEW m \in Seq(Instruction), m # <<>>, RouteMemo(m)
  PROVE  /\ RouteMemo(Tail(m))
         /\ Len(Tail(m)) = Len(m) - 1 /\ Len(m) \in Nat
         /\ Final - Len(m) + 1 \in 1 .. Final
         /\ Performs(Head(m), Final - Len(m) + 1)
         /\ Leads(Head(m).leg, Tail(m), 1)
<1>1. /\ 1 \in DOMAIN m /\ Head(m) = m[1] /\ Tail(m) \in Seq(Instruction)
      /\ Len(Tail(m)) = Len(m) - 1 /\ Len(m) \in Nat \ {0}
      /\ \A k \in DOMAIN Tail(m) : k + 1 \in DOMAIN m /\ Tail(m)[k] = m[k + 1]
      /\ \A k \in Nat \ {0} : k + 1 \in DOMAIN m => k \in DOMAIN Tail(m)
  OBVIOUS
<1>2. Final \in Nat /\ Len(m) <= Final
  BY RequestTypes DEF RouteMemo
<1>3. Performs(m[1], Final - Len(m) + 1) /\ Leads(m[1].leg, m, 2)
  BY <1>1 DEF RouteMemo
<1>4. Leads(Head(m).leg, Tail(m), 1)
  BY <1>1, <1>3 DEF Leads
<1>5. ASSUME NEW k \in DOMAIN Tail(m)
      PROVE  /\ Performs(Tail(m)[k], Final - Len(Tail(m)) + k)
             /\ Leads(Tail(m)[k].leg, Tail(m), k + 1)
  <2>1. /\ Performs(m[k + 1], Final - Len(m) + (k + 1))
        /\ Leads(m[k + 1].leg, m, k + 2)
    BY <1>1 DEF RouteMemo
  <2>2. Final - Len(Tail(m)) + k = Final - Len(m) + (k + 1)
    BY <1>1, <1>2
  <2>3. /\ k + 2 \in DOMAIN m <=> k + 1 \in DOMAIN Tail(m)
        /\ k + 1 \in DOMAIN Tail(m) => Tail(m)[k + 1] = m[k + 2]
    BY <1>1
  <2>4. Leads(m[k + 1].leg, Tail(m), k + 1)
    BY <2>1, <2>3 DEF Leads
  <2> QED BY <1>1, <2>1, <2>2, <2>4
<1> QED BY <1>1, <1>2, <1>3, <1>4, <1>5 DEF RouteMemo

\* How generateMsgSwap nests: the instruction of a path goes in front.
LEMMA RouteCons ==
  ASSUME Asked, NEW h \in Instruction, NEW m \in Seq(Instruction), RouteMemo(m),
         Len(m) < Final, Performs(h, Final - Len(m)), Leads(h.leg, m, 1)
  PROVE  RouteMemo(<<h>> \o m)
<1> DEFINE n == <<h>> \o m
<1>1. /\ n \in Seq(Instruction) /\ Len(n) = Len(m) + 1 /\ n[1] = h /\ Len(m) \in Nat
      /\ \A k \in DOMAIN m : k + 1 \in DOMAIN n /\ n[k + 1] = m[k]
      /\ \A k \in DOMAIN n : k = 1 \/ (k - 1 \in DOMAIN m /\ k \in Nat)
      /\ \A k \in Nat \ {0} : k + 1 \in DOMAIN n => k \in DOMAIN m
  OBVIOUS
<1> HIDE DEF n
<1>2. Final \in Nat
  BY RequestTypes
<1>3. Performs(n[1], Final - Len(n) + 1)
  BY <1>1, <1>2
<1>4. Leads(n[1].leg, n, 2)
  BY <1>1 DEF Leads
<1>5. ASSUME NEW k \in DOMAIN m
      PROVE  Performs(n[k + 1], Final - Len(n) + (k + 1)) /\ Leads(n[k + 1].leg, n, k + 2)
  <2>1. Performs(m[k], Final - Len(m) + k) /\ Leads(m[k].leg, m, k + 1)
    BY DEF RouteMemo
  <2>2. Final - Len(n) + (k + 1) = Final - Len(m) + k
    BY <1>1, <1>2
  <2>3. /\ k + 2 \in DOMAIN n <=> k + 1 \in DOMAIN m
        /\ k + 1 \in DOMAIN m => n[k + 2] = m[k + 1]
    BY <1>1
  <2>4. Leads(m[k].leg, n, k + 2)
    BY <2>1, <2>3 DEF Leads
  <2> QED BY <1>1, <2>1, <2>2, <2>4
<1>6. ASSUME NEW k \in DOMAIN n
      PROVE  Performs(n[k], Final - Len(n) + k) /\ Leads(n[k].leg, n, k + 1)
  <2>1. CASE k = 1
    BY <1>3, <1>4, <2>1
  <2>2. CASE k # 1
    <3>1. k - 1 \in DOMAIN m /\ (k - 1) + 1 = k /\ (k - 1) + 2 = k + 1
      BY <1>1, <2>2
    <3> QED BY <1>5, <3>1
  <2> QED BY <2>1, <2>2
<1>7. Len(n) <= Final
  BY <1>1, <1>2
<1> QED BY <1>6, <1>7 DEF RouteMemo, n

\* A memo without instructions is one with which the last path is under way.
LEMMA RouteNil == ASSUME Asked PROVE RouteMemo(<<>>)
BY RequestTypes DEF RouteMemo

\* The addresses of the request are missing or known.
LEMMA KnownRequest ==
  ASSUME Asked
  PROVE  /\ \A c \in Chains \cup {OBridge} :
              request.book[c] # NoAddress => Known(request.book[c])
         /\ Known(Wallet) /\ Wallet.owner = "user"
         /\ FinalReceiver = NoAddress \/ Known(FinalReceiver)
         /\ Known(FinalReceiver) => FinalReceiver.owner \in Owners
         /\ Oraichain \in Chains
<1>1. \A c \in Chains \cup {OBridge} :
        request.book[c] = NoAddress
          \/ (Known(request.book[c]) /\ request.book[c].owner = "user")
  BY RequestTypes, KnownAddresses
<1>2. \A c : Known(RecipientAt(c)) /\ RecipientAt(c).owner = "recipient"
  BY DEF Known, RecipientAt
<1>3. Oraichain \in Chains
  BY DEF Chains, CosmosChains
<1>4. route # <<>> => route[Final].out \in Chains
  <2>1. route # <<>> => Final \in 1 .. Final
    BY RequestTypes DEF Final
  <2> QED BY <2>1, RequestTypes DEF Path
<1>5. Known(Wallet) /\ Wallet.owner = "user"
  BY KnownAddresses DEF Wallet
<1>6. /\ FinalReceiver = NoAddress \/ Known(FinalReceiver)
      /\ Known(FinalReceiver) => FinalReceiver.owner \in Owners
  BY <1>1, <1>2, <1>3, <1>4, KnownAddresses DEF FinalReceiver, Owners
<1> QED BY <1>1, <1>3, <1>5, <1>6

\* What a request stands for does not change.
LEMMA SameRequest ==
  request' = request =>
    /\ route' = route /\ Final' = Final /\ FinalReceiver' = FinalReceiver
    /\ Wallet' = Wallet /\ (FromMemo' <=> FromMemo) /\ (Guarded' <=> Guarded)
BY DEF route, Final, FinalReceiver, Wallet, FromMemo, Guarded, PreviousOf

\* So what is said of the route stays true of what does not change.
LEMMA SameRoute ==
  ASSUME request' = request
  PROVE  /\ \A m : memo' = m /\ RouteMemo(m) => RouteMemo(memo)'
         /\ \A m, l : memo' = m /\ leg' = l /\ Leads(l, m, 1) => Leads(leg, memo, 1)'
         /\ \A m, l, s : /\ memo' = m /\ leg' = l /\ done' = s
                         /\ Reached(s \o l.ops, Final - Len(m))
                         => Reached(done \o leg.ops, Final - Len(memo))'
         /\ \A x : msg' = x /\ MsgRoute(x) => MsgRoute(msg)'
         /\ \A a : (GivesBack(a) /\ refund' = a => GivesBack(refund)')
                    /\ (GivesBack(a) /\ holder' = a => GivesBack(holder)')
<1> USE SameRequest
<1>1. ASSUME NEW m, memo' = m, RouteMemo(m) PROVE RouteMemo(memo)'
  BY <1>1 DEF RouteMemo, Performs, Leads, GivesBack
<1>2. ASSUME NEW m, NEW l, memo' = m, leg' = l, Leads(l, m, 1) PROVE Leads(leg, memo, 1)'
  BY <1>2 DEF Leads
<1>3. ASSUME NEW m, NEW l, NEW s, memo' = m, leg' = l, done' = s,
             Reached(s \o l.ops, Final - Len(m))
      PROVE  Reached(done \o leg.ops, Final - Len(memo))'
  BY <1>3 DEF Reached, Ordered, NextOp
<1>4. ASSUME NEW x, msg' = x, MsgRoute(x) PROVE MsgRoute(msg)'
  BY <1>4 DEF MsgRoute, RouteMemo, Performs, Leads, GivesBack, Reached, Ordered, NextOp
<1>5. ASSUME NEW a, GivesBack(a)
      PROVE  (refund' = a => GivesBack(refund)') /\ (holder' = a => GivesBack(holder)')
  BY <1>5 DEF GivesBack
<1> QED BY <1>1, <1>2, <1>3, <1>4, <1>5

\* The paths of the route are joined, and what the builder says of a path holds
\* of the path as part of the route.
LEMMA BuildLeads ==
  ASSUME TypeInv, BuildRoute, NEW p \in 1 .. Final, p = i, NEW l \in Leg,
         LegOf(l, route[p], receiver)
  PROVE  Carried(l, memo) = memo /\ Leads(l, memo, 1)
<1>1. /\ memo \in Seq(Instruction) /\ Len(memo) = Final - p /\ Final \in Nat
      /\ route[p] \in Path /\ receiver \in Address /\ p \in DOMAIN route
  BY RequestTypes DEF TypeInv, TypeOK, BuildRoute, Final
<1>2. \/ memo = <<>>
      \/ HasBridge(route[p]) /\ Awaits(memo[1], receiver, route[p].chain, route[p].out)
  <2>1. CASE p = Final
    BY <1>1, <2>1
  <2>2. CASE p # Final
    <3>1. Awaits(memo[1], receiver, PreviousOf(p + 1), route[p + 1].chain)
      BY <2>2 DEF BuildRoute
    <3>2. HasBridge(route[p]) /\ route[p].out = route[p + 1].chain
      BY <1>1, <2>2, RequestsAssumption DEF TypeInv, Asked, Connected, route, Final
    <3>3. PreviousOf(p + 1) = route[p].chain
      BY DEF PreviousOf
    <3> QED BY <3>1, <3>2, <3>3
  <2> QED BY <2>1, <2>2
<1>3. Carried(l, memo) = memo /\ (memo # <<>> => l.via # "local" /\ Reads(memo[1], l))
  BY <1>1, <1>2, CarriedWhole
<1>4. 1 \notin DOMAIN memo => l.final = FinalReceiver
  <2>1. 1 \notin DOMAIN memo => p = Final
    BY <1>1
  <2> QED BY <2>1 DEF BuildRoute, LegOf
<1>5. l.via = "local" => l.to = l.final /\ l.ops = <<>>
  BY DEF LegOf
<1> QED BY <1>1, <1>3, <1>4, <1>5 DEF Leads, LegOf

\* A transfer that somebody launches.
LEMMA LaunchRoute ==
  ASSUME TypeInv, TypeInv', NEW l \in Leg, NEW m \in Seq(Instruction), NEW back,
         NEW again, Launch(l, m, back, again),
         RouteMemo(m), Leads(l, m, 1), Reached(done' \o l.ops, Final - Len(m)),
         l.via # "local" => GivesBack(back)
  PROVE  RouteInv'
<1>1. request' = request
  BY DEF Launch, Settle
<1>2. CASE l.via = "local"
  <2>1. pc' = "settled" /\ holder' = l.to
    BY <1>2 DEF Launch, Settle
  <2>2. l.to = FinalReceiver /\ Known(l.to) /\ l.ops = <<>> /\ 1 \notin DOMAIN m
    BY <1>2 DEF Leads
  <2>3. m = <<>> /\ Final - Len(m) = Final
    BY <2>2, RequestTypes DEF TypeInv
  <2>4. done' \o l.ops = done'
    BY <2>2, ConcatEmptySeq DEF TypeInv, TypeOK
  <2>5. Reached(done', Final)
    BY <2>3, <2>4
  <2>7. AllDone'
    BY <1>1, <2>5, ReachedAll DEF TypeInv
  <2>8. Ordered(done)'
    BY <1>1, <2>5, SameRequest DEF Reached, Ordered, NextOp
  <2>9. Rested'
    BY <1>1, <2>1, <2>2, <2>7, <2>8, SameRequest DEF Rested, Known
  <2> QED BY <2>1, <2>9 DEF RouteInv
<1>3. CASE l.via # "local"
  <2>1. /\ pc' = "relay" /\ leg' = l /\ memo' = m /\ refund' = back
        /\ holder' = NoAddress
    BY <1>3 DEF Launch
  <2>2. RouteMemo(memo)' /\ Leads(leg, memo, 1)' /\ GivesBack(refund)'
    BY <1>1, <1>3, <2>1, SameRoute
  <2>3. Reached(done \o leg.ops, Final - Len(memo))'
    BY <1>1, <2>1, SameRoute
  <2>4. RelayRoute'
    BY <1>3, <2>1, <2>2, <2>3 DEF RelayRoute
  <2> QED BY <2>1, <2>4 DEF RouteInv
<1> QED BY <1>2, <1>3

\* Coming to rest.
LEMMA SettleRoute ==
  ASSUME Asked, TypeInv', NEW who, NEW failed, Settle(who, failed),
         Ordered(done'),
         \/ Known(who) /\ who = FinalReceiver /\ Reached(done', Final)
         \/ failed = TRUE /\ GivesBack(who)
  PROVE  RouteInv'
<1>1. request' = request /\ pc' = "settled" /\ holder' = who /\ trouble' = failed
  BY DEF Settle
<1>2. Ordered(done)'
  BY <1>1, SameRequest DEF Ordered, NextOp
<1>3. CASE Known(who) /\ who = FinalReceiver /\ Reached(done', Final)
  <2>1. AllDone'
    BY <1>1, <1>3, ReachedAll
  <2> QED BY <1>1, <1>2, <1>3, <2>1, SameRequest DEF RouteInv, Rested, Known
<1>4. CASE failed = TRUE /\ GivesBack(who)
  BY <1>1, <1>2, <1>4, SameRequest DEF RouteInv, Rested, GivesBack
<1> QED BY <1>3, <1>4

\* Actions in a row, however they were put together.
LEMMA ActionsAssociate ==
  \A a, b, c \in Seq(Action) : (a \o b) \o c = a \o (b \o c)
<1> SUFFICES ASSUME NEW a \in Seq(Action), NEW b \in Seq(Action), NEW c \in Seq(Action)
             PROVE  (a \o b) \o c = a \o (b \o c)
  OBVIOUS
<1> QED BY ConcatAssociative

\* A request on its way to generateMsgSwap has sent nothing.
LEMMA RouteInit == Init => RouteInv
BY TypeInit DEF Init, RouteInv

\* Every step keeps the transfer and its memo on the route, and the way back
\* open: the builders, the user and the chains, on success, refusal, timeout and
\* failed swaps.
LEMMA RouteStep == RouteInv /\ [Next]_vars => RouteInv'
<1> SUFFICES ASSUME RouteInv, [Next]_vars PROVE RouteInv'
  OBVIOUS
<1>a. TypeInv /\ TypeOK /\ Asked /\ TypeInv'
  BY TypeStep DEF RouteInv, TypeInv
<1>b. Final \in Nat /\ <<>> \in Seq(Action) /\ <<>> \in Seq(Instruction)
  BY <1>a, RequestTypes
<1>1. ASSUME pc \in {"start", "build"}, Throw PROVE RouteInv'
  BY <1>a, <1>1, SameRequest DEF Throw, RouteInv
<1>2. CASE Start
  <2>1. /\ pc = "start" /\ pc' = "build" /\ receiver' = FinalReceiver /\ i' = Final
        /\ memo' = memo /\ holder' = holder /\ done' = done /\ request' = request
    BY <1>2 DEF Start
  <2>2. memo' = <<>> /\ holder' = Wallet /\ done' = <<>>
    BY <2>1 DEF RouteInv
  <2>3. RouteMemo(memo)' /\ Len(memo') = 0
    BY <1>a, <2>1, <2>2, SameRequest, RouteNil DEF RouteMemo
  <2>4. receiver' = NoAddress \/ Known(receiver')
    BY <1>a, <2>1, KnownRequest
  <2>5. FromMemo => Known(request.book[Oraichain])
    BY <1>2, <1>a, KnownRequest DEF Start, CanStart
  <2>6. BuildRoute'
    BY <1>b, <2>1, <2>3, <2>4, <2>5, SameRequest DEF BuildRoute, Known
  <2> QED BY <1>a, <2>1, <2>2, <2>6, SameRequest DEF RouteInv
<1>3. ASSUME pc = "build", NEW p \in 1 .. Final, p = i
      PROVE  /\ BuildRoute /\ memo \in Seq(Instruction) /\ route[p] \in Path
             /\ receiver \in Address /\ request.book \in Book
             /\ \A c \in Chains \cup {OBridge} : request.book[c] \in {UserAt(c), NoAddress}
             /\ receiver = NoAddress \/ Known(receiver)
             /\ Len(memo) = Final - p /\ Len(memo) < Final /\ RouteMemo(memo)
  BY <1>a, <1>b, <1>3, RequestTypes DEF RouteInv, BuildRoute, TypeOK
<1>4. CASE BuildMemo
  <2> DEFINE r == BuildMemoSwap(route[i], receiver, memo, request.book, PreviousOf(i))
  <2>1. /\ pc = "build" /\ pc' = "build" /\ i' = i - 1 /\ i \in 1 .. Final
        /\ holder' = holder /\ request' = request /\ done' = done
        /\ memo' = r.memo /\ receiver' = r.receiver
    BY <1>a, <1>4, RequestTypes DEF BuildMemo, MemoLeft, TypeOK, PreviousChain
  <2>2. PICK h \in Instruction :
          /\ r.memo = <<h>> \o Carried(h.leg, memo)
          /\ Makes(h, route[i], receiver, PreviousOf(i))
          /\ Awaits(h, r.receiver, PreviousOf(i), route[i].chain)
    BY <1>3, <1>4, <2>1, BuildMemoMakes
       DEF BuildMemo, CanBuildMemoHere, PreviousChain
  <2> HIDE DEF r
  <2>3. h.leg \in Leg /\ LegOf(h.leg, route[i], receiver)
    BY <2>2 DEF Makes, Instruction
  <2>4. memo' = <<h>> \o memo /\ Leads(h.leg, memo, 1)
    BY <1>a, <1>3, <2>1, <2>2, <2>3, BuildLeads
  <2>5. Performs(h, i)
    <3>1. ASSUME NEW a, PaidBack(a, route[i], PreviousOf(i)) PROVE GivesBack(a)
      BY <2>1, <3>1 DEF PaidBack, GivesBack, Guarded, Final
    <3> QED BY <2>2, <3>1 DEF Makes, Performs
  <2>6. /\ RouteMemo(memo') /\ Len(memo') = Final - i' /\ memo'[1] = h
        /\ i' + 1 = i /\ i' # Final
    <3>1. /\ Len(memo) = Final - i /\ Final - Len(memo) = i
          /\ memo \in Seq(Instruction) /\ RouteMemo(memo) /\ Len(memo) < Final
      BY <1>b, <1>3, <2>1
    <3>2. RouteMemo(<<h>> \o memo)
      BY <1>a, <2>4, <2>5, <3>1, RouteCons
    <3>3. Len(<<h>> \o memo) = Len(memo) + 1 /\ (<<h>> \o memo)[1] = h
      BY <3>1
    <3> QED BY <1>b, <2>1, <2>4, <3>1, <3>2, <3>3
  <2>7. Awaits(h, receiver', PreviousOf(i' + 1), route[i' + 1].chain) /\ Known(receiver')
    BY <2>1, <2>2, <2>6 DEF Awaits
  <2>8. PreviousOf(i + 1)' = PreviousOf(i' + 1)
    BY <2>1 DEF PreviousOf, route
  <2>9. BuildRoute'
    <3>1. RouteMemo(memo)'
      BY <2>1, <2>6, SameRoute
    <3>2. FromMemo => Known(request.book[Oraichain])
      BY <1>3, <2>1 DEF BuildRoute
    <3>3. Awaits(memo[1], receiver, PreviousOf(i + 1), route[i + 1].chain)'
      BY <2>1, <2>6, <2>7, <2>8, SameRequest DEF Awaits, Known
    <3> QED BY <2>1, <2>6, <2>7, <3>1, <3>2, <3>3, SameRequest DEF BuildRoute, Known
  <2>10. holder' = Wallet' /\ done' = <<>>
    BY <2>1, SameRequest DEF RouteInv
  <2> QED BY <1>a, <2>1, <2>9, <2>10 DEF RouteInv
<1>5. ASSUME pc = "build", pc' = "ready", request' = request, done' = done,
             holder' = holder, MsgRoute(msg')
      PROVE  RouteInv'
  <2>1. MsgRoute(msg)'
    BY <1>5, SameRoute
  <2>2. holder' = Wallet' /\ done' = <<>>
    BY <1>5, SameRequest DEF RouteInv
  <2> QED BY <1>a, <1>5, <2>1, <2>2 DEF RouteInv
<1>6. CASE BuildExecute
  <2> DEFINE x == BuildExecuteMsg(route[1], receiver, memo, request.book)
  <2>1. /\ pc = "build" /\ pc' = "ready" /\ i = 1 /\ 1 \in 1 .. Final /\ ~FromMemo
        /\ holder' = holder /\ request' = request /\ done' = done
        /\ msg' = x
    BY <1>a, <1>6, RequestTypes DEF BuildExecute, TypeOK
  <2>2. /\ x.leg \in Leg /\ x.memo = Carried(x.leg, memo)
        /\ x.ops \o x.leg.ops = route[1].actions /\ route[1].actions # <<>>
        /\ LegOf(x.leg, route[1], receiver)
        /\ x.leg.via # "local" =>
             PaidBack(BackTo(x.leg, NoAddress, x.contract), route[1], "none")
    BY <1>3, <1>6, <2>1, BuildExecuteMakes DEF BuildExecute, CanBuildExecuteHere
  <2> HIDE DEF x
  <2>3. x.memo = memo /\ Leads(x.leg, memo, 1)
    BY <1>a, <1>3, <2>1, <2>2, BuildLeads
  <2>4. Reached(x.ops \o x.leg.ops, Final - Len(x.memo))
    <3>1. Reached(<<>>, 0)
      BY DEF Reached, Ordered
    <3>2. Reached(<<>> \o route[1].actions, 1)
      <4>1. PICK p \in 0 .. Final : p = 0
        BY <1>b
      <4>2. p + 1 = 1
        BY <4>1
      <4>3. Reached(<<>> \o route[p + 1].actions, p + 1)
        BY <1>a, <1>b, <2>1, <2>2, <3>1, <4>1, <4>2, ReachedNext
      <4> QED BY <4>2, <4>3
    <3>3. <<>> \o route[1].actions = route[1].actions
      BY <1>3, <2>1, ConcatEmptySeq DEF Path
    <3>4. Final - Len(x.memo) = 1
      BY <1>b, <1>3, <2>1, <2>3
    <3> QED BY <2>2, <3>2, <3>3, <3>4
  <2>5. ASSUME NEW a, PaidBack(a, route[1], "none") PROVE GivesBack(a)
    <3>1. PreviousOf(1) = "none"
      BY <2>1 DEF PreviousOf, FromMemo
    <3> QED BY <2>1, <2>5, <3>1 DEF PaidBack, GivesBack, Guarded, Final
  <2>6. MsgRoute(x)
    BY <1>3, <2>1, <2>2, <2>3, <2>4, <2>5 DEF MsgRoute
  <2> QED BY <1>5, <2>1, <2>6
<1>7. CASE MemoReady
  <2> DEFINE l == [via |-> "wasm", from |-> request.previous, chain |-> Oraichain,
                   to |-> request.book[Oraichain], final |-> request.book[Oraichain],
                   recover |-> UserAt(request.previous), ops |-> <<>>]
  <2>1. /\ pc = "build" /\ pc' = "ready" /\ i = 0 /\ FromMemo
        /\ holder' = holder /\ request' = request /\ done' = done
        /\ msg' = [contract |-> NoAddress, ops |-> <<>>, memo |-> memo, leg |-> l]
    BY <1>7 DEF MemoReady
  <2>2. /\ BuildRoute /\ RouteMemo(memo) /\ Len(memo) = Final
        /\ Known(request.book[Oraichain]) /\ memo \in Seq(Instruction)
    BY <1>a, <1>b, <2>1 DEF RouteInv, BuildRoute, TypeOK
  <2>3. memo # <<>> => Reads(memo[1], l)
    <3>1. SUFFICES ASSUME memo # <<>> PROVE Reads(memo[1], l)
      OBVIOUS
    <3>2. i # Final /\ route # <<>>
      BY <1>b, <2>1, <2>2, <3>1 DEF Final
    <3>3. Awaits(memo[1], receiver, PreviousOf(1), route[1].chain)
      BY <2>1, <2>2, <3>2 DEF BuildRoute
    <3>4. PreviousOf(1) = request.previous /\ request.previous \in WasmLinked
      BY <1>a, <2>1, RequestTypes DEF PreviousOf, FromMemo, Request, WasmLinked
    <3>5. route[1].chain = Oraichain
      BY <1>a, <2>1, <3>2, RequestsAssumption DEF Asked, FromMemo, route
    <3> QED BY <3>3, <3>4, <3>5 DEF Awaits, Reads, Arrival
  <2>4. memo = <<>> => FinalReceiver = request.book[Oraichain]
    <3>1. memo = <<>> => route = <<>>
      BY <1>a, <2>2, RequestTypes DEF Final
    <3> QED BY <3>1 DEF FinalReceiver
  <2>5. Leads(l, memo, 1)
    <3>1. 1 \in DOMAIN memo <=> memo # <<>>
      BY <2>2
    <3> QED BY <2>2, <2>3, <2>4, <3>1 DEF Leads
  <2>6. Reached(<<>> \o <<>>, Final - Len(memo))
    <3>1. <<>> \o <<>> = <<>> /\ Final - Len(memo) = 0
      BY <1>b, <2>2, ConcatEmptySeq
    <3> QED BY <3>1 DEF Reached, Ordered
  <2>7. GivesBack(BackTo(l, NoAddress, NoAddress))
    <3>1. l.recover = UserAt(request.previous) /\ l.recover # NoAddress
      BY DEF UserAt, NoAddress
    <3> QED BY <3>1, KnownAddresses DEF BackTo, GivesBack
  <2> HIDE DEF l
  <2>8. MsgRoute([contract |-> NoAddress, ops |-> <<>>, memo |-> memo, leg |-> l])
    <3>1. l.ops = <<>>
      BY DEF l
    <3> QED BY <2>2, <2>5, <2>6, <2>7, <3>1 DEF MsgRoute
  <2> QED BY <1>5, <2>1, <2>8
<1>8. CASE Sign
  <2>1. /\ pc = "ready" /\ MsgRoute(msg) /\ holder = Wallet /\ done = <<>>
        /\ msg.ops \in Seq(Action) /\ msg.leg \in Leg /\ msg.memo \in Seq(Instruction)
    BY <1>8, <1>a DEF Sign, RouteInv, TypeOK, ExecuteMsg
  <2>2. CASE /\ done' = done \o msg.ops
             /\ Launch(msg.leg, msg.memo, BackTo(msg.leg, NoAddress, msg.contract), 0)
    <3>1. done' = msg.ops
      BY <2>1, <2>2, ConcatEmptySeq
    <3> QED BY <1>a, <2>1, <2>2, <3>1, LaunchRoute DEF MsgRoute
  <2>3. CASE done' = done /\ Settle(holder, TRUE)
    <3>1. Ordered(done') /\ GivesBack(holder)
      BY <1>a, <2>1, <2>3, KnownRequest DEF Ordered, GivesBack
    <3> QED BY <1>a, <2>3, <3>1, SettleRoute
  <2> QED BY <1>8, <2>2, <2>3 DEF Sign
<1>9. ASSUME pc = "relay"
      PROVE  /\ RelayRoute /\ done \in Seq(Action) /\ leg.ops \in Seq(Action)
             /\ memo \in Seq(Instruction) /\ done \o leg.ops \in Seq(Action)
             /\ Ordered(done) /\ Ordered(done \o leg.ops)
  <2>1. RelayRoute /\ done \in Seq(Action) /\ leg.ops \in Seq(Action)
    BY <1>a, <1>9 DEF RouteInv, TypeOK, Leg
  <2>2. Ordered(done \o leg.ops)
    BY <2>1 DEF RelayRoute, Reached
  <2> QED BY <1>a, <2>1, <2>2, OrderedPrefix DEF TypeOK
<1>10. CASE Credit
  <2>1. pc = "relay" /\ ~Obeyed /\ done' = done \o leg.ops /\ Settle(leg.final, trouble)
    BY <1>10 DEF Credit
  <2>2. memo = <<>>
    <3>1. SUFFICES ASSUME memo # <<>> PROVE FALSE
      OBVIOUS
    <3>2. Head(memo) = memo[1] /\ 1 \in DOMAIN memo
      BY <1>9, <2>1, <3>1
    <3> QED BY <1>9, <2>1, <3>1, <3>2 DEF RelayRoute, Leads, Obeyed
  <2>3. Leads(leg, memo, 1) /\ Reached(done', Final)
    BY <1>b, <1>9, <2>1, <2>2 DEF RelayRoute
  <2>4. Known(leg.final) /\ leg.final = FinalReceiver
    BY <2>2, <2>3 DEF Leads
  <2> QED BY <1>a, <1>9, <2>1, <2>3, <2>4, SettleRoute
<1>11. ASSUME Obeyed, pc = "relay"
       PROVE  LET h == Head(memo)
                  p == Final - Len(memo) + 1
              IN  /\ h.leg \in Leg /\ Tail(memo) \in Seq(Instruction)
                  /\ RouteMemo(Tail(memo)) /\ Leads(h.leg, Tail(memo), 1)
                  /\ Performs(h, p)
                  /\ h.ops \in Seq(Action) /\ h.leg.ops \in Seq(Action)
                  /\ Reached((done \o leg.ops) \o (h.ops \o h.leg.ops),
                             Final - Len(Tail(memo)))
  <2> DEFINE h == Head(memo)
             p == Final - Len(memo) + 1
  <2>1. memo \in Seq(Instruction) /\ memo # <<>> /\ RouteMemo(memo)
    BY <1>9, <1>11 DEF Obeyed, RelayRoute
  <2>2. /\ RouteMemo(Tail(memo)) /\ Leads(h.leg, Tail(memo), 1) /\ Performs(h, p)
        /\ p \in 1 .. Final /\ Final - Len(memo) \in 0 .. Final
        /\ Final - Len(Tail(memo)) = p
    BY <1>a, <1>b, <2>1, RouteHead
  <2>3. /\ h.leg \in Leg /\ Tail(memo) \in Seq(Instruction)
        /\ h.ops \in Seq(Action) /\ h.leg.ops \in Seq(Action)
    BY <1>a, <1>11, ObeyedTypes DEF Leg
  <2>4. Reached((done \o leg.ops) \o route[p].actions, p)
    BY <1>a, <1>9, <1>11, <2>2, ReachedNext DEF RelayRoute, Performs
  <2>5. h.ops \o h.leg.ops = route[p].actions
    BY <2>2 DEF Performs
  <2> QED BY <2>2, <2>3, <2>4, <2>5
<1>12. CASE Forward
  <2> DEFINE h == Head(memo)
  <2>1. /\ pc = "relay" /\ Obeyed /\ h.reader = "forward" /\ done' = done \o leg.ops
        /\ Launch(h.leg, Tail(memo), refund, Retries)
    BY <1>12 DEF Forward
  <2>2. h.ops = <<>> /\ h.ops \o h.leg.ops = h.leg.ops
    BY <1>11, <2>1, ConcatEmptySeq DEF Performs
  <2>3. GivesBack(refund)
    BY <1>9, <2>1 DEF RelayRoute
  <2> QED BY <1>a, <1>11, <2>1, <2>2, <2>3, LaunchRoute
<1>13. CASE Execute
  <2> DEFINE h == Head(memo)
  <2>1. /\ pc = "relay" /\ Obeyed /\ h.reader # "forward"
        /\ done' = done \o leg.ops \o h.ops
        /\ Launch(h.leg, Tail(memo), BackTo(h.leg, h.recover, h.contract), 0)
    BY <1>13 DEF Execute
  <2> DEFINE s == done \o leg.ops
  <2>2. done' \o h.leg.ops = s \o (h.ops \o h.leg.ops)
    <3>1. s \in Seq(Action) /\ h.ops \in Seq(Action) /\ h.leg.ops \in Seq(Action)
      BY <1>9, <1>11, <2>1
    <3>2. done' = s \o h.ops
      BY <2>1
    <3>3. (s \o h.ops) \o h.leg.ops = s \o (h.ops \o h.leg.ops)
      BY <3>1, ActionsAssociate
    <3> QED BY <3>2, <3>3
  <2>3. h.leg.via # "local" => GivesBack(BackTo(h.leg, h.recover, h.contract))
    BY <1>11, <2>1 DEF Performs
  <2> QED BY <1>a, <1>11, <2>1, <2>2, <2>3, LaunchRoute
<1>14. CASE ExecuteFails
  <2>1. pc = "relay" /\ Obeyed
    BY <1>14 DEF ExecuteFails
  <2>2. CASE /\ Head(memo).recover # NoAddress
             /\ done' = done \o leg.ops /\ Settle(Head(memo).recover, TRUE)
    <3>1. GivesBack(Head(memo).recover)
      BY <1>11, <2>1, <2>2 DEF Performs, GivesBack
    <3> QED BY <1>a, <1>9, <2>1, <2>2, <3>1, SettleRoute
  <2>3. CASE done' = done /\ Settle(refund, TRUE)
    BY <1>a, <1>9, <2>1, <2>3, SettleRoute DEF RelayRoute
  <2> QED BY <1>14, <2>2, <2>3 DEF ExecuteFails
<1>15. ASSUME pc = "relay", done' = done, Settle(refund, TRUE) PROVE RouteInv'
  BY <1>a, <1>9, <1>15, SettleRoute DEF RelayRoute
<1>16. CASE Timeout /\ retries > 0
  <2>1. /\ request' = request /\ pc' = pc /\ memo' = memo /\ leg' = leg /\ done' = done
        /\ refund' = refund /\ holder' = holder /\ pc = "relay"
    BY <1>16 DEF Timeout
  <2>2. RelayRoute'
    BY <1>9, <2>1, SameRoute DEF RelayRoute
  <2> QED BY <1>a, <2>1, <2>2 DEF RouteInv
<1>17. CASE UNCHANGED vars
  <2>1. /\ request' = request /\ pc' = pc /\ i' = i /\ receiver' = receiver
        /\ memo' = memo /\ msg' = msg /\ leg' = leg /\ refund' = refund
        /\ holder' = holder /\ done' = done /\ trouble' = trouble
    BY <1>17 DEF vars
  <2>2. pc = "build" => BuildRoute'
    BY <2>1, SameRequest, SameRoute DEF RouteInv, BuildRoute, Awaits, Known, PreviousOf
  <2>3. pc = "ready" => MsgRoute(msg)'
    BY <2>1, SameRoute DEF RouteInv
  <2>4. pc = "relay" => RelayRoute'
    BY <2>1, SameRoute DEF RouteInv, RelayRoute
  <2>5. pc = "settled" => Rested'
    BY <2>1, SameRequest
       DEF RouteInv, Rested, Ordered, NextOp, AllDone, Known, GivesBack
  <2> QED BY <1>a, <2>1, <2>2, <2>3, <2>4, <2>5, SameRequest DEF RouteInv
<1>18. CASE Build
  BY <1>1, <1>2, <1>4, <1>6, <1>7, <1>18
  DEF Build, StartThrows, BuildMemoThrows, BuildExecuteThrows
<1>19. CASE Relay
  BY <1>10, <1>12, <1>13, <1>14, <1>15, <1>16, <1>19 DEF Relay, ErrorAck, Timeout
<1> QED BY <1>8, <1>17, <1>18, <1>19 DEF Next


LEMMA RouteAlways == Spec => []RouteInv
BY RouteInit, RouteStep, PTL DEF Spec

-----------------------------------------------------------------------------
(***************************************************************************)
(* What follows for the user.                                              *)
(***************************************************************************)

\* Where the tokens are, in every state that is reached.
LEMMA HoldersOfRoute ==
  ASSUME RouteInv
  PROVE  /\ Known(Wallet) /\ Wallet.owner = "user"
         /\ pc \in {"start", "build", "ready", "thrown"} => holder = Wallet /\ done = <<>>
         /\ pc = "relay" => holder = NoAddress
         /\ pc = "settled" =>
              \/ holder.owner \in Owners
              \/ ~Guarded /\ trouble /\ holder.owner = "entry_point"
         /\ pc \in {"start", "build", "ready", "thrown", "relay", "settled"}
<1>1. Asked /\ TypeOK
  BY DEF RouteInv, TypeInv
<1>2. pc = "settled" /\ Known(holder) /\ holder = FinalReceiver =>
        holder.owner \in Owners
  BY <1>1, KnownRequest
<1>3. GivesBack(holder) =>
        holder.owner \in Owners \/ (~Guarded /\ holder.owner = "entry_point")
  BY DEF GivesBack, Owners
<1> QED BY <1>1, <1>2, <1>3, KnownRequest DEF RouteInv, RelayRoute, Rested, TypeOK

\* OwnerSafe is an invariant: whatever route is asked for, and whatever fails on
\* the way, the tokens of a swap without an unrecovered transfer are never with
\* a contract (the receivers and recovery addresses of the nested memos).
THEOREM OwnerAlwaysSafe == Spec => []OwnerSafe
<1>1. RouteInv => OwnerSafe
  <2> SUFFICES ASSUME RouteInv, Guarded PROVE holder.owner \in Owners \cup {"nobody"}
    BY DEF OwnerSafe
  <2> QED BY HoldersOfRoute DEF Owners, NoAddress
<1> QED BY <1>1, RouteAlways, PTL

\* NeverToNobody is an invariant: every transfer names somebody to pay and
\* somebody to take the tokens back, the transfers in the memos of the memos too
\* (validateReceiver, the addresses of the user and the post actions' recovery).
THEOREM NeverSentToNobody == Spec => []NeverToNobody
<1>1. RouteInv => NeverToNobody
  <2> SUFFICES ASSUME RouteInv, pc = "relay" PROVE NoAddress \notin {leg.to, leg.final, refund}
    BY DEF NeverToNobody
  <2>1. Known(leg.to) /\ Known(leg.final) /\ GivesBack(refund)
    BY DEF RouteInv, RelayRoute, Leads
  <2> QED BY <2>1 DEF GivesBack, Known, NoAddress
<1> QED BY <1>1, RouteAlways, PTL

\* RouteOrder is an invariant: the chains, each with its own memo, perform the
\* actions of any route in the route's order (the nesting loop of generateMsgSwap
\* and the split of a path into swaps and bridge).
THEOREM RouteAlwaysInOrder == Spec => []RouteOrder
<1>1. RouteInv => RouteOrder
  <2> SUFFICES ASSUME RouteInv PROVE Ordered(done)
    BY DEF RouteOrder, Ordered
  <2>1. CASE pc \in {"start", "build", "ready", "thrown"}
    BY <2>1 DEF RouteInv, Ordered
  <2>2. CASE pc = "relay"
    <3>1. done \in Seq(Action) /\ leg.ops \in Seq(Action)
      BY DEF RouteInv, TypeInv, TypeOK, Leg
    <3>2. Ordered(done \o leg.ops)
      BY <2>2 DEF RouteInv, RelayRoute, Reached
    <3> QED BY <3>1, <3>2, OrderedPrefix
  <2>3. CASE pc = "settled"
    BY <2>3 DEF RouteInv, Rested
  <2> QED BY <2>1, <2>2, <2>3, HoldersOfRoute
<1> QED BY <1>1, RouteAlways, PTL

\* EndToEnd is an invariant: a swap that settles without a failure has done all
\* of its route and paid the final receiver, however many memos were nested and
\* whichever chains read them (the formats that each chain understands).
THEOREM SwapsEndToEnd == Spec => []EndToEnd
<1>1. RouteInv => EndToEnd
  BY DEF RouteInv, Rested, EndToEnd
<1> QED BY <1>1, RouteAlways, PTL

\* RecipientPaidLast is an invariant: no outer receiver and no recovery address
\* of any memo is the recipient's (generateMsgSwap hands the recipient to the
\* last path alone).
THEOREM RecipientAlwaysPaidLast == Spec => []RecipientPaidLast
<1>1. RouteInv => RecipientPaidLast
  <2> SUFFICES ASSUME RouteInv, holder.owner = "recipient" PROVE AllDone
    BY DEF RecipientPaidLast
  <2>1. pc = "settled"
    BY HoldersOfRoute DEF NoAddress
  <2> QED BY <2>1 DEF RouteInv, Rested, GivesBack
<1> QED BY <1>1, RouteAlways, PTL

-----------------------------------------------------------------------------
(***************************************************************************)
(* The journey implements the custody specification.                       *)
(***************************************************************************)

\* The place that the refinement mapping gives the tokens.
Place == CASE holder = Wallet /\ pc # "settled" -> "wallet"
           [] holder = NoAddress -> "transit"
           [] pc = "settled" /\ holder.owner \in Owners -> "owner"
           [] OTHER -> "contract"

LEMMA PlaceOfRoute ==
  RouteInv =>
    /\ pc \in {"start", "build", "ready", "thrown"} => Place = "wallet"
    /\ pc = "relay" => Place = "transit"
    /\ pc = "settled" => Place = IF holder.owner \in Owners THEN "owner" ELSE "contract"
    /\ pc = "settled" /\ holder.owner \notin Owners => ~Guarded
<1> SUFFICES ASSUME RouteInv
             PROVE  /\ pc \in {"start", "build", "ready", "thrown"} => Place = "wallet"
                    /\ pc = "relay" => Place = "transit"
                    /\ pc = "settled" =>
                         Place = IF holder.owner \in Owners THEN "owner" ELSE "contract"
                    /\ pc = "settled" /\ holder.owner \notin Owners => ~Guarded
  OBVIOUS
<1>1. Wallet # NoAddress /\ NoAddress.owner \notin Owners
  BY HoldersOfRoute DEF NoAddress, Owners
<1>2. pc = "settled" => holder # NoAddress
  BY HoldersOfRoute DEF NoAddress, Owners
<1> QED BY <1>1, <1>2, HoldersOfRoute DEF Place

\* KeepsCustody holds: the tokens of any swap leave the wallet once, come to rest
\* once, and stay with a contract only where nobody was named to recover them.
THEOREM JourneyKeepsCustody == Spec => KeepsCustody
<1> DEFINE Moves == /\ Guarded' = Guarded
                    /\ \/ Place = "wallet" /\ Place' \in {"transit", "owner"}
                       \/ Place = "transit" /\ Place' = "owner"
                       \/ ~Guarded /\ Place = "transit" /\ Place' = "contract"
           Stays == Guarded' = Guarded /\ Place' = Place
           Rests ==
             /\ pc \in {"start", "build", "ready", "thrown"} => Place = "wallet"
             /\ pc = "relay" => Place = "transit"
             /\ pc = "settled" =>
                  Place = IF holder.owner \in Owners THEN "owner" ELSE "contract"
             /\ pc = "settled" /\ holder.owner \notin Owners => ~Guarded
<1>p. (RouteInv => Rests)'
  BY PlaceOfRoute, PTL
<1>g. request' = request => Guarded' = Guarded
  BY DEF Guarded, route, PreviousOf
<1>1. Init => Custody!Init
  <2> SUFFICES ASSUME Init PROVE Custody!Init
    OBVIOUS
  <2>1. Place = "wallet"
    BY RouteInit, PlaceOfRoute DEF Init
  <2>2. Guarded \in BOOLEAN
    BY DEF Guarded
  <2> QED BY <2>1, <2>2 DEF Custody!Init, Place
<1>2. RouteInv /\ RouteInv' /\ [Next]_vars => Moves \/ Stays
  <2> SUFFICES ASSUME RouteInv, RouteInv', [Next]_vars PROVE Moves \/ Stays
    OBVIOUS
  <2>1. Rests'
    BY <1>p
  <2>2. CASE UNCHANGED vars
    <3>1. request' = request /\ pc' = pc /\ holder' = holder
      BY <2>2 DEF vars
    <3>2. Place' = Place
      BY <3>1, SameRequest DEF Place
    <3> QED BY <1>g, <3>1, <3>2
  <2>3. CASE Build
    <3>1. /\ request' = request /\ pc \in {"start", "build"}
          /\ pc' \in {"build", "ready", "thrown"}
      BY <2>3 DEF Build, Start, StartThrows, BuildMemo, BuildMemoThrows, BuildExecute,
                  BuildExecuteThrows, MemoReady, Throw
    <3> QED BY <1>g, <2>1, <3>1, PlaceOfRoute, SameRequest
  <2>4. CASE Sign
    <3>1. /\ request' = request /\ pc = "ready" /\ MsgRoute(msg) /\ holder = Wallet
          /\ Wallet.owner \in Owners
      BY <2>4, HoldersOfRoute DEF Sign, Launch, Settle, RouteInv, Owners
    <3>2. \/ pc' = "relay"
          \/ pc' = "settled" /\ msg.leg.via = "local" /\ holder' = msg.leg.to
          \/ pc' = "settled" /\ holder' = holder
      BY <2>4 DEF Sign, Launch, Settle
    <3>3. msg.leg.via = "local" => msg.leg.to.owner \in Owners
      <4>1. msg.leg.via = "local" => 
              /\ Known(msg.leg.to) /\ msg.leg.to = msg.leg.final
              /\ msg.leg.final = FinalReceiver
        BY <3>1 DEF MsgRoute, Leads
      <4> QED BY <4>1, KnownRequest DEF RouteInv, TypeInv
    <3> QED BY <1>g, <2>1, <3>1, <3>2, <3>3, PlaceOfRoute, SameRequest
  <2>5. CASE Relay
    <3>1. request' = request /\ pc = "relay" /\ pc' \in {"relay", "settled"}
      BY <2>5 DEF Relay, Credit, Forward, Execute, ExecuteFails, ErrorAck, Timeout,
                  Launch, Settle
    <3> QED BY <1>g, <2>1, <3>1, PlaceOfRoute, SameRequest
  <2> QED BY <2>2, <2>3, <2>4, <2>5 DEF Next
<1>3. Moves \/ Stays => [Custody!Next]_(Custody!vars)
  <2>1. Stays => UNCHANGED Custody!vars
    BY DEF Custody!vars, Place
  <2>2. Moves => Custody!Next
    BY DEF Custody!Next, Custody!Leave, Custody!Stay, Custody!Arrive, Custody!Strand, Place
  <2> QED BY <2>1, <2>2
<1> QED BY <1>1, <1>2, <1>3, RouteAlways, PTL DEF Spec, KeepsCustody, Custody!Spec

=============================================================================
