---------------------------- MODULE ClassicSwap ----------------------------
(***************************************************************************)
(* Swaps that UniversalSwapHandler.processUniversalSwap starts without the *)
(* alpha router from Oraichain: one transaction with the swap and with a   *)
(* transfer of the result to another chain.  What the user was shown was   *)
(* simulated before; meanwhile the pool moves, other calls of the same     *)
(* user spend the same balance, other users empty the bridge's channel,    *)
(* the user picks another account in the wallet, and time goes by.         *)
(*                                                                         *)
(* The chains are not in this repository: a transaction is executed as a   *)
(* whole or not at all, the router refuses less than minimum_receive, a    *)
(* transfer takes its amount from the sender, and a packet arrives or is   *)
(* given back after its timeout.                                           *)
(***************************************************************************)
EXTENDS Naturals, Sequences, FiniteSetsExt, Functions

CONSTANTS
  Swaps,         \* the calls of processUniversalSwap
  Requests,      \* what they may be asked for
  Accounts, Sender,  \* those in the wallet; the one in swapData.sender
  Rates,         \* what the pool may give for one token
  FirstOwn,      \* what the sender may have of the wanted token
  FirstChannel,  \* what the bridge's channel may hold of it
  MaxChanges,    \* bound on what others do to the pool and to the channel
  MaxSwitches,   \* bound on the changes of account
  MaxTime,       \* bound on the time at which calls begin and sign
  IBC_TRANSFER_TIMEOUT,
  AFFILIATE_DECIMAL   \* 10000

(***************************************************************************)
(* A request: the kinds of the two chains ("wasm" is Noble, which is       *)
(* reached through the bridge contract like EVM chains are); whether the   *)
(* tokens differ; the amounts of the routes, one without smart router; the *)
(* slippage in percent; the basis points of the affiliates; whether the    *)
(* token is KWT or MILKY, or a native coin of an EVM chain; the relayer's  *)
(* fee in ORAI; whether ORAI is the wanted token; the recipient; whether   *)
(* the wallets have an address for the destination; swapOptions.           *)
(***************************************************************************)
Request ==
  [from : {"Oraichain", "cosmos", "noble", "evm", "ton"},
   to : {"Oraichain", "cosmos", "wasm", "evm", "ton"},
   swap : BOOLEAN, routes : Seq(Nat \ {0}), slippage : 0..100,
   basisPoints : 0..AFFILIATE_DECIMAL, legacy : BOOLEAN,
   native : BOOLEAN, relayerFee : Nat, toOrai : BOOLEAN,
   recipient : {"none", "valid", "invalid"}, address : BOOLEAN,
   alpha : BOOLEAN, ibcWasm : BOOLEAN, skipChecks : BOOLEAN]

ASSUME ClassicAssumption ==
  /\ Requests \subseteq Request
  /\ Sender \in Accounts
  /\ Rates \subseteq Nat \ {0}
  /\ FirstOwn \subseteq Nat /\ FirstChannel \subseteq Nat
  /\ MaxChanges \in Nat /\ MaxSwitches \in Nat /\ MaxTime \in Nat
  /\ IBC_TRANSFER_TIMEOUT \in Nat /\ AFFILIATE_DECIMAL \in Nat \ {0}

VARIABLES
  request,   \* fixed
  pc,        \* the step each call is at, or the function it was handed to
  price,     \* simulatePrice
  created,   \* currentTimestamp of each handler
  tx,        \* encodedObjects: what the call is about to sign
  account,   \* picked in the wallet
  rate,      \* of the pool
  own,       \* the sender's balance of the wanted token on Oraichain
  channel,   \* the bridge's balance of it
  packets,   \* transfers under way
  now,
  changes, switches,   \* bounds
  executed,  \* history: what each executed call's swap returned
  initial    \* history: own at the start

callVars == <<request, price, created, tx>>
chainVars == <<rate, own, channel, packets, executed>>
worldVars == <<account, now, changes, switches, initial>>
vars == <<callVars, pc, chainVars, worldVars>>

\* fromAmount, and what the user was shown for it: simulateAmount.
Amount(r) == SumFunction(r.routes)
SimulateAmount(s) == Amount(request[s]) * price[s]

\* What a transaction does: swaps, each with its minimum_receive, then a transfer.
Tx == [mins : Seq(Nat), to : {"own", "recipient"}, transfer : BOOLEAN, amount : Nat,
       receiver : Accounts \cup {"recipient"}, bridge : BOOLEAN, deadline : Nat]
NoTx == [mins |-> <<>>, to |-> "own", transfer |-> FALSE, amount |-> 0,
         receiver |-> Sender, bridge |-> FALSE, deadline |-> 0]

Packet == [swap : Swaps, amount : Nat, receiver : Accounts \cup {"recipient"},
           bridge : BOOLEAN, deadline : Nat]

Init ==
  /\ request \in [Swaps -> Requests]
  /\ pc = [s \in Swaps |-> "idle"]
  /\ price = [s \in Swaps |-> 1]
  /\ created = [s \in Swaps |-> 0]
  /\ tx = [s \in Swaps |-> NoTx]
  /\ account \in Accounts
  /\ rate \in Rates
  /\ own \in FirstOwn
  /\ channel \in FirstChannel
  /\ packets = {}
  /\ now = 0
  /\ changes = 0 /\ switches = 0
  /\ executed = {}
  /\ initial = own

Goto(s, step) == pc' = [pc EXCEPT ![s] = step]

\* The user is shown a price, and the handler is made.
Simulate(s) ==
  /\ pc[s] = "idle" /\ now <= MaxTime
  /\ Goto(s, "start")
  /\ price' = [price EXCEPT ![s] = IF request[s].swap THEN rate ELSE 1]
  /\ created' = [created EXCEPT ![s] = now]
  /\ UNCHANGED <<request, tx>>
  /\ UNCHANGED <<chainVars, worldVars>>

-----------------------------------------------------------------------------
(***************************************************************************)
(* processUniversalSwap.                                                   *)
(***************************************************************************)
\* getRoute.
UniversalSwapType(r) ==
  CASE ~r.address -> "other-networks-to-oraichain"
    [] r.address /\ r.from = "ton" -> "ton-to-others"
    [] r.address /\ r.from = "Oraichain" /\ r.to = "Oraichain" -> "oraichain-to-oraichain"
    [] r.address /\ r.from = "Oraichain" /\ r.to = "ton" -> "oraichain-to-ton"
    [] r.address /\ r.from = "Oraichain" /\ r.to \in {"cosmos", "wasm"} -> "oraichain-to-cosmos"
    [] r.address /\ r.from = "Oraichain" /\ r.to = "evm" -> "oraichain-to-evm"
    [] r.address /\ r.from \in {"cosmos", "noble"} -> "cosmos-to-others"
    [] r.address /\ r.from = "evm" -> "other-networks-to-oraichain"

\* Where the call goes on; a call handed to another function ends here.
Dispatch(r) ==
  IF r.alpha THEN "alphaSmartRouterSwapNewMsg"
  ELSE CASE UniversalSwapType(r) = "oraichain-to-oraichain" -> "swap"
         [] UniversalSwapType(r) \in {"oraichain-to-cosmos", "oraichain-to-evm"} -> "sender"
         [] UniversalSwapType(r) = "cosmos-to-others" -> "swapCosmosToOtherNetwork"
         [] OTHER -> "transferAndSwap"

ProcessUniversalSwap(s) ==
  /\ pc[s] = "start"
  /\ Goto(s, IF request[s].recipient = "invalid" THEN "thrown" ELSE Dispatch(request[s]))
  /\ UNCHANGED <<callVars, chainVars, worldVars>>

\* Mutant: whose account it is does not matter.
AnySender(s) ==
  /\ pc[s] = "sender"
  /\ Goto(s, IF request[s].to = "evm" /\ ~request[s].skipChecks THEN "fee" ELSE "build")
  /\ UNCHANGED <<callVars, chainVars, worldVars>>

\* swapAndTransferToOtherNetworks compares the wallet's account with the sender.
CheckSender(s) ==
  /\ pc[s] = "sender"
  /\ Goto(s, IF account # Sender THEN "thrown"
             ELSE IF request[s].to = "evm" /\ ~request[s].skipChecks THEN "fee" ELSE "build")
  /\ UNCHANGED <<callVars, chainVars, worldVars>>

\* checkFeeRelayer: it may find that the amount does not cover the fee.
CheckFeeRelayer(s) ==
  /\ pc[s] = "fee"
  /\ \E isSufficient \in BOOLEAN : Goto(s, IF isSufficient THEN "build" ELSE "thrown")
  /\ UNCHANGED <<callVars, chainVars, worldVars>>

-----------------------------------------------------------------------------
(***************************************************************************)
(* generateMsgsSwap: the swaps on Oraichain.                               *)
(***************************************************************************)
\* Mutant: the slippage is taken off per thousand instead of per cent.
MinReceivesLoose(s) ==
  [k \in DOMAIN request[s].routes |->
     (request[s].routes[k] * price[s] * (100 - request[s].slippage)) \div 1000]

\* calculateMinReceive, and the same of each route with a smart router.
MinReceives(s) ==
  [k \in DOMAIN request[s].routes |->
     (request[s].routes[k] * price[s] * (100 - request[s].slippage)) \div 100]

\* Only on Oraichain the swap itself pays the recipient.
SwapReceiver(r) ==
  IF r.recipient = "valid" /\ r.to = "Oraichain" THEN "recipient" ELSE "own"

SwapPart(s) ==
  IF request[s].swap \/ request[s].to = "Oraichain"
  THEN [NoTx EXCEPT !.mins = MinReceives(s), !.to = SwapReceiver(request[s])]
  ELSE NoTx

BuildSwap(s) ==
  /\ pc[s] = "swap"
  /\ tx' = [tx EXCEPT ![s] = SwapPart(s)]
  /\ Goto(s, "sign")
  /\ UNCHANGED <<request, price, created>>
  /\ UNCHANGED <<chainVars, worldVars>>

-----------------------------------------------------------------------------
(***************************************************************************)
(* combineSwapMsgOraichain and combineMsgEvm: the transfer after it.       *)
(***************************************************************************)
\* The port of the channel has wasm in it.  KWT and MILKY use an old channel.
UsesBridge(r) == r.to = "wasm" \/ (r.to = "evm" /\ ~r.legacy)

AffiliateFee(r, amount) == (amount * r.basisPoints) \div AFFILIATE_DECIMAL

\* Mutant: basis points are taken for the share.
BridgedTooLittle(s) ==
  LET r == request[s] IN
  IF r.to = "evm" /\ r.legacy THEN Amount(r)
  ELSE IF UsesBridge(r) THEN SimulateAmount(s)
  ELSE SimulateAmount(s) - SimulateAmount(s) * r.basisPoints

\* What is transferred: not what the swap returns, but what was simulated; less
\* the affiliates' share on native channels only; and for KWT and MILKY the
\* number of tokens that are swapped.  (sub(amount * share), truncated.)
Bridged(s) ==
  LET r == request[s] IN
  IF r.to = "evm" /\ r.legacy THEN Amount(r)
  ELSE IF UsesBridge(r) THEN SimulateAmount(s)
  ELSE (SimulateAmount(s) * (AFFILIATE_DECIMAL - r.basisPoints)) \div AFFILIATE_DECIMAL

\* A cosmos recipient is the receiver of the packet; that of an EVM chain is in
\* the memo, and the packet goes to the wallet's account on OraiBridge.
Receiver(r) == IF r.recipient = "valid" /\ r.to # "evm" THEN "recipient" ELSE account

\* Mutant: the timeout in milliseconds.
DeadlineInMs(s) ==
  (IF request[s].to = "cosmos" THEN now ELSE created[s]) + 1000 * IBC_TRANSFER_TIMEOUT

\* calculateTimeoutTimestamp: from the time at which a native transfer is built,
\* otherwise from the time at which the handler was made.
Deadline(s) ==
  (IF request[s].to = "cosmos" THEN now ELSE created[s]) + IBC_TRANSFER_TIMEOUT

BuildTransfer(s) ==
  /\ pc[s] = "build" /\ now <= MaxTime
  /\ tx' = [tx EXCEPT ![s] =
       [SwapPart(s) EXCEPT !.transfer = TRUE, !.amount = Bridged(s),
          !.receiver = Receiver(request[s]), !.bridge = UsesBridge(request[s]),
          !.deadline = Deadline(s)]]
  /\ Goto(s, IF request[s].skipChecks THEN "sign" ELSE "check")
  /\ UNCHANGED <<request, price, created>>
  /\ UNCHANGED <<chainVars, worldVars>>

\* checkBalanceChannelIbc compares the channel with what the pool now gives for
\* the amount: the amount of wanted tokens is simulated as one of from tokens.
Wanted(s) == SimulateAmount(s) * IF request[s].swap THEN rate ELSE 1

CheckBalanceChannelIbc(s) ==
  /\ pc[s] = "check"
  /\ Goto(s, IF tx[s].bridge /\ channel < Wanted(s) THEN "thrown" ELSE "sign")
  /\ UNCHANGED <<callVars, chainVars, worldVars>>

\* The wallet signs for the account that is picked in it.
SignAndBroadcast(s) ==
  /\ pc[s] = "sign"
  /\ Goto(s, IF account = Sender THEN "broadcast" ELSE "thrown")
  /\ UNCHANGED <<callVars, chainVars, worldVars>>

\* A query fails, or the user does not sign.
Throw(s) ==
  /\ pc[s] \in {"sender", "fee", "build", "check", "sign", "swap"}
  /\ Goto(s, "thrown")
  /\ UNCHANGED <<callVars, chainVars, worldVars>>

-----------------------------------------------------------------------------
(***************************************************************************)
(* Oraichain executes the whole transaction, or nothing of it.  The        *)
(* affiliates are paid before or after the minimum is looked at.           *)
(***************************************************************************)
Returned(s, k) == request[s].routes[k] * rate
Fee(s) == SumFunction([k \in DOMAIN tx[s].mins |-> AffiliateFee(request[s], Returned(s, k))])
Received(s) == SumFunction([k \in DOMAIN tx[s].mins |-> Returned(s, k)]) - Fee(s)

Execute(s) ==
  /\ pc[s] = "broadcast"
  /\ \A k \in DOMAIN tx[s].mins : Returned(s, k) >= tx[s].mins[k]
  /\ LET mine == own + IF tx[s].to = "own" THEN Received(s) ELSE 0 IN
     /\ mine >= tx[s].amount
     /\ own' = mine - tx[s].amount
  /\ tx[s].transfer => now < tx[s].deadline
  /\ tx[s].bridge => channel >= tx[s].amount
  /\ channel' = IF tx[s].bridge THEN channel - tx[s].amount ELSE channel
  /\ packets' = packets \cup
       {[swap |-> s, amount |-> tx[s].amount, receiver |-> tx[s].receiver,
         bridge |-> tx[s].bridge, deadline |-> tx[s].deadline] :
          x \in {y \in {s} : tx[y].transfer}}
  /\ executed' = executed \cup {[swap |-> s, received |-> Received(s)]}
  /\ Goto(s, "done")
  /\ UNCHANGED <<callVars, worldVars, rate>>

\* It fails, for these or other reasons.  executeMultiple then throws, and
\* signAndBroadcast resolves.
Fail(s) ==
  /\ pc[s] = "broadcast"
  /\ Goto(s, IF tx[s].transfer THEN "done" ELSE "thrown")
  /\ UNCHANGED <<callVars, chainVars, worldVars>>

Deliver(p) ==
  /\ now < p.deadline
  /\ packets' = packets \ {p}
  /\ UNCHANGED <<callVars, pc, worldVars, rate, own, channel, executed>>

Timeout(p) ==
  /\ now >= p.deadline
  /\ packets' = packets \ {p}
  /\ own' = own + p.amount
  /\ channel' = IF p.bridge THEN channel + p.amount ELSE channel
  /\ UNCHANGED <<callVars, pc, worldVars, rate, executed>>

-----------------------------------------------------------------------------
(***************************************************************************)
(* The world meanwhile.                                                    *)
(***************************************************************************)
Others ==
  /\ changes < MaxChanges
  /\ changes' = changes + 1
  /\ \/ rate' \in Rates \ {rate} /\ UNCHANGED channel
     \/ channel > 0 /\ channel' = 0 /\ UNCHANGED rate
  /\ UNCHANGED <<callVars, pc, own, packets, executed, account, now, switches, initial>>

SwitchAccount ==
  /\ switches < MaxSwitches
  /\ switches' = switches + 1
  /\ account' \in Accounts \ {account}
  /\ UNCHANGED <<callVars, pc, chainVars, now, changes, initial>>

Tick ==
  /\ now <= MaxTime + IBC_TRANSFER_TIMEOUT
  /\ now' = now + 1
  /\ UNCHANGED <<callVars, pc, chainVars, account, changes, switches, initial>>

Call(s) ==
  \/ Simulate(s) \/ ProcessUniversalSwap(s) \/ CheckSender(s) \/ CheckFeeRelayer(s)
  \/ BuildSwap(s) \/ BuildTransfer(s) \/ CheckBalanceChannelIbc(s)
  \/ SignAndBroadcast(s) \/ Throw(s) \/ Execute(s) \/ Fail(s)

Next ==
  \/ \E s \in Swaps : Call(s)
  \/ \E p \in packets : Deliver(p) \/ Timeout(p)
  \/ Others \/ SwitchAccount \/ Tick

\* Time passes, and somebody relays a timeout; nobody has to relay a packet.
Spec == Init /\ [][Next]_vars /\ WF_vars(Tick) /\ WF_vars(\E p \in packets : Timeout(p))

-----------------------------------------------------------------------------
\* Each variable has its type.
TypeOK ==
  /\ request \in [Swaps -> Requests]
  /\ pc \in [Swaps -> {"idle", "start", "swap", "sender", "fee", "build", "check",
                       "sign", "broadcast", "done", "thrown", "transferAndSwap",
                       "swapCosmosToOtherNetwork", "alphaSmartRouterSwapNewMsg"}]
  /\ price \in [Swaps -> Nat] /\ created \in [Swaps -> Nat]
  /\ tx \in [Swaps -> Tx]
  /\ account \in Accounts
  /\ rate \in Rates /\ own \in Nat /\ channel \in Nat
  /\ packets \subseteq Packet
  /\ now \in Nat
  /\ changes \in 0..MaxChanges /\ switches \in 0..MaxSwitches
  /\ executed \subseteq [swap : Swaps, received : Nat]
  /\ initial \in Nat

\* What a swap may cost the user beyond what it returns: the slippage, what is
\* rounded off in each route, and the affiliates' share where it is not taken
\* off the transfer.  Without a swap the tokens are the user's own.
Tolerated(s) ==
  LET r == request[s] IN
  IF ~r.swap THEN SimulateAmount(s)
  ELSE (SimulateAmount(s) * r.slippage) \div 100 + Len(r.routes)
         + IF UsesBridge(r) THEN AffiliateFee(r, SimulateAmount(s)) ELSE 0

\* The transfer takes what was simulated, whatever the swap returned.  Still the
\* user never loses more of the wanted token than the slippage that was agreed
\* to, whatever the pool, the channel and other calls do between the simulation
\* and the execution.  KWT and MILKY are different, see the README.
ShortfallWithinSlippage ==
  (\A s \in Swaps : ~request[s].legacy) =>
    own + MapThenSumSet(LAMBDA e : IF tx[e.swap].transfer THEN Tolerated(e.swap) ELSE 0,
                        executed)
      >= initial

\* The tokens go to the account that pays or to the recipient it named, even if
\* another account is picked in the wallet while the call runs: the sender is
\* compared before the address is asked for, and the wallet signs for the account
\* after it.  (To pick another and the first one again in between is too much.)
PaidToOwnAccount ==
  \A p \in packets :
    \/ p.receiver = Sender
    \/ p.receiver = "recipient" /\ request[p.swap].recipient = "valid"
=============================================================================
