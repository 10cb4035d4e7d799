---------------------------- MODULE SwapJourney ----------------------------
(***************************************************************************)
(* One universal swap from the request to the place where the tokens come  *)
(* to rest.  The SDK builds the message from the last path of the route to *)
(* the first (generateMsgSwap, or generateMemoSwap when the tokens start   *)
(* on an EVM chain or on TON), the user signs it, and from then on only    *)
(* the chains act, each on the memo it was handed.                         *)
(*                                                                         *)
(* The chains are not part of this repository.  They are modelled by what  *)
(* the SDK relies on: ICS20 transfers that arrive, time out or are         *)
(* refused; the packet-forward middleware; ibc-hooks; the entry point      *)
(* contract; the ibc-wasm contract and its recovery address.               *)
(***************************************************************************)
EXTENDS SwapMemo

CONSTANTS
  Requests,  \* the swaps that may be asked for
  Retries    \* "retries" of a forward memo

(***************************************************************************)
(* A request: the route of the smart router, the addresses of the user     *)
(* (NoAddress where there is none), whether another recipient is named,    *)
(* the slippage, and the chain whose deposit carries the memo: "none" when *)
(* the user signs the first message itself.                                *)
(***************************************************************************)
Request == [route : Seq(Path), book : [Chains \cup {OBridge} -> Address],
            recipient : {"none", "valid", "invalid"},
            slippage : {"within", "outside"},
            previous : EvmChains \cup {Ton, "none"}]

\* The router's paths hang together: each but the last ends in a bridge to the
\* chain of the next, bridges go over the port of ibc-info.ts, "op" numbers
\* the actions, and a path that does not bridge stays on its chain.
Connected(route) ==
  \A p \in DOMAIN route :
    LET path == route[p] IN
    /\ p < Len(route) => HasBridge(path) /\ path.out = route[p + 1].chain
    /\ HasBridge(path) <=> path.out # path.chain
    /\ path.out \in EvmChains \cup {Ton} => path.chain = Oraichain
    /\ \A k \in DOMAIN path.actions :
         /\ path.actions[k].op = <<p, k>>
         /\ IsBridge(path.actions[k]) /\ path.out \in EvmChains =>
              path.actions[k].port = "wasm"
         /\ IsBridge(path.actions[k]) => path.actions[k].port # "none"

BookOk(book) ==
  \A c \in Chains \cup {OBridge} : book[c] \in {UserAt(c), NoAddress}

ASSUME RequestsAssumption ==
  /\ Requests \subseteq Request
  /\ \A r \in Requests :
       /\ Connected(r.route) /\ BookOk(r.book)
       \* what an EVM chain or TON sends arrives on Oraichain
       /\ r.previous # "none" /\ r.route # <<>> => r.route[1].chain = Oraichain

ASSUME RetriesAssumption == Retries \in Nat

VARIABLES
  request,   \* fixed
  pc,        \* "start", "build", "ready", "thrown", "relay", "settled"
  i,         \* the loop variable: paths i+1.. are in the memo
  receiver,  \* loop: the address that the next outer message names
  memo,      \* loop: the memo so far; in flight: what the packet carries
  msg,       \* the message to sign
  leg,       \* the transfer in flight
  refund,    \* who gets the tokens if that transfer fails
  retries,   \* how often the middleware still resends it
  holder,    \* who has the tokens, NoAddress while they are in flight
  done,      \* the actions of the route that have taken effect, in order
  trouble    \* a swap or a transfer has failed

buildVars == <<i, receiver, msg>>
vars == <<request, pc, i, receiver, memo, msg, leg, refund, retries, holder,
          done, trouble>>

route    == request.route
Final    == Len(route)
FromMemo == request.previous # "none"

NoLeg == [via |-> "local", from |-> Oraichain, chain |-> Oraichain,
          to |-> NoAddress, final |-> NoAddress, recover |-> NoAddress,
          ops |-> <<>>]
NoMsg == [contract |-> NoAddress, ops |-> <<>>, leg |-> NoLeg, memo |-> <<>>]

\* Where the tokens are before the swap.
Wallet == IF FromMemo THEN UserAt(request.previous)
          ELSE IF route = <<>> THEN UserAt(Oraichain) ELSE UserAt(route[1].chain)

\* Who is to have them after it.  With no path behind the deposit they stay
\* with the user's own address on Oraichain.
FinalReceiver ==
  IF route = <<>> THEN request.book[Oraichain]
  ELSE IF request.recipient = "valid" THEN RecipientAt(route[Final].out)
  ELSE request.book[route[Final].out]

Init ==
  /\ request \in Requests
  /\ pc = "start"
  /\ i = 0
  /\ receiver = NoAddress
  /\ memo = <<>>
  /\ msg = NoMsg
  /\ leg = NoLeg
  /\ refund = NoAddress
  /\ retries = 0
  /\ holder = Wallet
  /\ done = <<>>
  /\ trouble = FALSE

-----------------------------------------------------------------------------
(***************************************************************************)
(* The SDK.                                                                *)
(***************************************************************************)
Throw ==
  /\ pc' = "thrown"
  /\ UNCHANGED <<request, i, receiver, memo, msg, leg, refund, retries, holder,
                 done, trouble>>

\* generateMsgSwap needs a path, and a recipient that checkValidateAddressWith-
\* Network accepts; addOraiBridgeRoute needs the user's address on Oraichain.
\* generateMemoSwap has nothing to check in a route without paths.
CanStart ==
  /\ FromMemo => request.book[Oraichain] # NoAddress
  /\ \/ route # <<>> /\ request.recipient # "invalid"
     \/ route = <<>> /\ FromMemo

\* Mutant: the loop starts behind the last path.
StartPastEnd ==
  /\ pc = "start"
  /\ CanStart
  /\ pc' = "build"
  /\ i' = Final + 1
  /\ receiver' = FinalReceiver
  /\ UNCHANGED <<request, memo, msg, leg, refund, retries, holder, done, trouble>>

Start ==
  /\ pc = "start"
  /\ CanStart
  /\ pc' = "build"
  /\ i' = Final
  /\ receiver' = FinalReceiver
  /\ UNCHANGED <<request, memo, msg, leg, refund, retries, holder, done, trouble>>

StartThrows == pc = "start" /\ ~CanStart /\ Throw

\* The chain that the tokens of path p come from.
PreviousOf(p) == IF p > 1 THEN route[p - 1].chain ELSE request.previous

PreviousChain == PreviousOf(i)

\* The paths that become memos: all but the first, which generateMemoSwap adds.
MemoLeft == i > 1 \/ (i = 1 /\ FromMemo)

CanBuildMemoHere ==
  CanBuildMemo(route[i], receiver, request.book, PreviousChain, request.slippage)

BuildMemo ==
  /\ pc = "build"
  /\ MemoLeft
  /\ CanBuildMemoHere
  /\ LET swapInfo == BuildMemoSwap(route[i], receiver, memo, request.book,
                                   PreviousChain)
     IN memo' = swapInfo.memo /\ receiver' = swapInfo.receiver
  /\ i' = i - 1
  /\ UNCHANGED <<request, pc, msg, leg, refund, retries, holder, done, trouble>>

BuildMemoThrows == pc = "build" /\ MemoLeft /\ ~CanBuildMemoHere /\ Throw

CanBuildExecuteHere ==
  CanBuildExecute(route[1], receiver, request.book, request.slippage)

BuildExecute ==
  /\ pc = "build"
  /\ i = 1 /\ ~FromMemo
  /\ CanBuildExecuteHere
  /\ msg' = BuildExecuteMsg(route[1], receiver, memo, request.book)
  /\ pc' = "ready"
  /\ UNCHANGED <<request, i, receiver, memo, leg, refund, retries, holder, done,
                 trouble>>

BuildExecuteThrows ==
  pc = "build" /\ i = 1 /\ ~FromMemo /\ ~CanBuildExecuteHere /\ Throw

\* generateMemoSwap is through, and its memo goes behind the user's address
\* on Oraichain in the deposit on the other chain.
MemoReady ==
  /\ pc = "build"
  /\ i = 0 /\ FromMemo
  /\ msg' = [contract |-> NoAddress, ops |-> <<>>, memo |-> memo,
             leg |-> [via |-> "wasm", from |-> request.previous,
                      chain |-> Oraichain, to |-> request.book[Oraichain],
                      final |-> request.book[Oraichain],
                      recover |-> UserAt(request.previous), ops |-> <<>>]]
  /\ pc' = "ready"
  /\ UNCHANGED <<request, i, receiver, memo, leg, refund, retries, holder, done,
                 trouble>>

-----------------------------------------------------------------------------
(***************************************************************************)
(* The chains.                                                             *)
(***************************************************************************)

\* The tokens come to rest.
Settle(who, failed) ==
  /\ pc' = "settled"
  /\ holder' = who
  /\ trouble' = failed
  /\ UNCHANGED <<request, i, receiver, memo, msg, leg, refund, retries>>

\* A contract or the middleware sends the tokens on.  "back" gets them if the
\* transfer fails; a local transfer is part of the same transaction.
Launch(l, m, back, again) ==
  IF l.via = "local"
  THEN Settle(l.to, trouble)
  ELSE /\ pc' = "relay"
       /\ leg' = l
       /\ memo' = m
       /\ refund' = back
       /\ retries' = again
       /\ holder' = NoAddress
       /\ UNCHANGED <<request, i, receiver, msg, trouble>>

\* The address a contract gets its tokens back to: the one the transfer names,
\* else the one the memo names, else the contract itself.
BackTo(l, recover, contract) ==
  IF l.recover # NoAddress THEN l.recover
  ELSE IF recover # NoAddress THEN recover ELSE contract

\* signAndBroadcast, or the deposit on the EVM chain or on TON.  A swap below
\* min_asset reverts the whole transaction.
Sign ==
  /\ pc = "ready"
  /\ \/ /\ done' = done \o msg.ops
        /\ Launch(msg.leg, msg.memo, BackTo(msg.leg, NoAddress, msg.contract), 0)
     \/ /\ msg.ops # <<>>
        /\ done' = done
        /\ Settle(holder, TRUE)

\* How a packet reaches the application on its chain.
Arrival(l) ==
  IF l.chain = Oraichain /\ l.from \in WasmLinked THEN "ibc_wasm" ELSE "ics20"

\* OraiBridge has to credit the receiver of an ibc-wasm transfer to an EVM
\* chain before it hands the tokens over, so it must be an OraiBridge address.
Creditable(l) == l.via = "wasm" /\ l.chain \in EvmChains => l.to # l.final

Reads(h, l) ==
  \/ h.reader = "forward" /\ Arrival(l) = "ics20"
  \/ h.reader = "hook" /\ Arrival(l) = "ics20" /\ h.contract = l.to
  \/ h.reader = "ibc_wasm" /\ Arrival(l) = "ibc_wasm"

Obeyed == memo # <<>> /\ Reads(Head(memo), leg)

\* No memo, or none that this chain acts on: the receiver is credited.
Credit ==
  /\ pc = "relay"
  /\ Creditable(leg)
  /\ ~Obeyed
  /\ done' = done \o leg.ops
  /\ Settle(leg.final, trouble)

\* The middleware forwards; if that fails the error goes back to the origin.
Forward ==
  /\ pc = "relay"
  /\ Obeyed
  /\ Head(memo).reader = "forward"
  /\ done' = done \o leg.ops
  /\ Launch(Head(memo).leg, Tail(memo), refund, Retries)

\* The contract runs the swaps and its post action.
Execute ==
  /\ pc = "relay"
  /\ Obeyed
  /\ Head(memo).reader # "forward"
  /\ LET h == Head(memo) IN
     /\ done' = done \o leg.ops \o h.ops
     /\ Launch(h.leg, Tail(memo), BackTo(h.leg, h.recover, h.contract), 0)

\* A swap fails: the hook's transaction reverts and with it the transfer, while
\* ibc-wasm keeps the transfer and pays the recovery address.
ExecuteFails ==
  /\ pc = "relay"
  /\ Obeyed
  /\ Head(memo).ops # <<>>
  /\ IF Head(memo).recover # NoAddress
     THEN done' = done \o leg.ops /\ Settle(Head(memo).recover, TRUE)
     ELSE done' = done /\ Settle(refund, TRUE)

\* The other chain refuses the packet.
ErrorAck ==
  /\ pc = "relay"
  /\ done' = done
  /\ Settle(refund, TRUE)

\* Nobody relays the packet in time; the middleware sends it again.
Timeout ==
  /\ pc = "relay"
  /\ done' = done
  /\ IF retries > 0
     THEN /\ retries' = retries - 1
          /\ UNCHANGED <<request, pc, i, receiver, memo, msg, leg, refund, holder,
                         trouble>>
     ELSE Settle(refund, TRUE)

Build == Start \/ StartThrows \/ BuildMemo \/ BuildMemoThrows \/ BuildExecute
           \/ BuildExecuteThrows \/ MemoReady

Relay == Credit \/ Forward \/ Execute \/ ExecuteFails \/ ErrorAck \/ Timeout

Next == Build \/ Sign \/ Relay

\* Safety only: nothing makes the user sign, and when the chains act is not the
\* SDK's to say.
Spec == Init /\ [][Next]_vars

-----------------------------------------------------------------------------
(***************************************************************************)
(* Properties.                                                             *)
(***************************************************************************)

\* The builder and the packets only ever hold what their types allow; the loop
\* of generateMsgSwap stays within the route.
TypeOK ==
  /\ request \in Request
  /\ pc \in {"start", "build", "ready", "thrown", "relay", "settled"}
  /\ i \in 0 .. Final
  /\ receiver \in Address
  /\ memo \in Seq(Instruction)
  /\ msg \in ExecuteMsg
  /\ leg \in Leg
  /\ refund \in Address
  /\ retries \in Nat
  /\ holder \in Address
  /\ done \in Seq(Action)
  /\ trouble \in BOOLEAN

Owners == {"user", "recipient"}

\* The one transfer for which the SDK names nobody to recover the tokens: the
\* entry point contract of Oraichain swaps and then bridges over ibc-wasm.
Unrecovered(path, previous) ==
  /\ path.chain = Oraichain /\ path.out # Ton
  /\ SwapOpsOf(path) # <<>>
  /\ HasBridge(path) /\ BridgeOf(path).port = "wasm"
  /\ ~IsWasmOrigin(previous)

Guarded == \A p \in DOMAIN route : ~Unrecovered(route[p], PreviousOf(p))

\* The tokens never end with a contract: whoever has them is the user, on some
\* chain, or the recipient.  This is what the receivers and recovery addresses
\* of the nested memos are for, on every path of success and failure.
OwnerSafe == Guarded => holder.owner \in Owners \cup {"nobody"}

\* No transfer, first or nested, is sent to a missing address, and none without
\* somebody to take the tokens back: what validateReceiver is for.
NeverToNobody ==
  pc = "relay" => NoAddress \notin {leg.to, leg.final, refund}

NextOp(op) == IF op[2] < Len(route[op[1]].actions) THEN <<op[1], op[2] + 1>>
              ELSE <<op[1] + 1, 1>>

\* The chains perform the actions of the route in its order, none twice and
\* none left out on the way, although every chain sees only its own memo.
RouteOrder ==
  \A k \in DOMAIN done :
    done[k].op = IF k = 1 THEN <<1, 1>> ELSE NextOp(done[k - 1].op)

AllDone ==
  IF route = <<>> THEN done = <<>>
  ELSE /\ done # <<>>
       /\ done[Len(done)].op = <<Final, Len(route[Final].actions)>>

\* If no swap and no transfer fails, the whole route is performed and the final
\* receiver has the tokens: every memo was understood by the chain it reached.
EndToEnd ==
  pc = "settled" /\ ~trouble => holder = FinalReceiver /\ AllDone

\* Another person than the user is paid only when the whole route is done.
RecipientPaidLast == holder.owner = "recipient" => AllDone

\* A transfer to an EVM chain names the receiver in hexadecimal: "the contracts
\* are using the hex form as parameters" (handler.ts:501).
EvmReceiverIsHex ==
  pc = "relay" /\ leg.chain \in EvmChains => leg.final.form = "hex"

-----------------------------------------------------------------------------
\* What the swap promises its user, and how this module keeps it.
Custody == INSTANCE FundsCustody
  WITH guarded <- Guarded,
       place   <- CASE holder = Wallet /\ pc # "settled" -> "wallet"
                    [] holder = NoAddress -> "transit"
                    [] pc = "settled" /\ holder.owner \in Owners -> "owner"
                    [] OTHER -> "contract"

\* The journey implements the custody specification.
KeepsCustody == Custody!Spec
=============================================================================
