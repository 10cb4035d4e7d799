----------------------------- MODULE RemoteSwap -----------------------------
(***************************************************************************)
(* The swaps of processUniversalSwap that begin on another chain, without  *)
(* the alpha router: one transfer to Oraichain carries a memo, and the     *)
(* bridge's contract there swaps and transfers on.  The module goes on     *)
(* where ClassicSwap ends a call with "swapCosmosToOtherNetwork", or with  *)
(* "transferAndSwap" from an EVM chain; how the deposit is signed there is *)
(* in EvmSwap.                                                             *)
(*                                                                         *)
(* The contract is not in this repository.  It is taken to do what the     *)
(* fields of the memo ask for, or to pay recoveryAddr whatever the reason. *)
(***************************************************************************)
EXTENDS ClassicSwap, Integers

CONSTANTS
  BridgeFee,   \* swapData.bridgeFee in percent
  OraiPrices   \* wanted tokens for one ORAI, as a simulation may return them

ASSUME RemoteAssumption == BridgeFee \in Nat /\ OraiPrices \subseteq Nat

VARIABLES
  step,      \* of each call that begins elsewhere
  dest,      \* toAddress
  home,      \* oraiAddress
  memo,      \* swapRoute
  fee,       \* history: the relayer's, as the last calculateMinimumReceive took it
  msgTransfer,  \* what a cosmos chain is asked to transfer
  inbound,   \* transfers on their way to Oraichain
  outbound,  \* what the contract sent on
  rested     \* history: where the tokens came to rest, and how

remoteVars == <<step, dest, home, memo, fee, msgTransfer, inbound, outbound, rested>>

\* "evm" is swapData.sender.evm.
Holders == Accounts \cup {"recipient", "evm"}

\* Without a memo the tokens rest where they arrive.
NoMemo == [action |-> "none", min |-> 0, receiver |-> Sender, recovery |-> Sender, timeout |-> 0]
Memo == [action : {"none", "transfer", "ibcWasm", "ibc"}, min : Nat,
         receiver : Holders, recovery : Accounts, timeout : Nat]

Inbound == [swap : Swaps, receiver : Accounts \cup {"recipient"}, memo : Memo,
            expires : BOOLEAN, deadline : Nat]
Outbound == [swap : Swaps, amount : Nat, receiver : Holders, recovery : Accounts]
Rested == [swap : Swaps, amount : Nat, who : Holders,
           end : {"paid", "expired", "recovered", "refunded", "unswapped"}]

RemoteInit ==
  /\ Init
  /\ step = [s \in Swaps |-> "none"]
  /\ dest = [s \in Swaps |-> Sender]
  /\ home = [s \in Swaps |-> Sender]
  /\ memo = [s \in Swaps |-> NoMemo]
  /\ fee = [s \in Swaps |-> 0]
  /\ msgTransfer = [s \in Swaps |-> [receiver |-> Sender, deadline |-> 0]]
  /\ inbound = {} /\ outbound = {} /\ rested = {}

\* An invalid recipient is refused before anything else.  What stays on EVM chains
\* is in EvmSwap.
Remote(s) ==
  LET function == Dispatch(request[s]) IN
  /\ request[s].recipient # "invalid"
  /\ \/ function = "swapCosmosToOtherNetwork"
     \/ function = "transferAndSwap" /\ request[s].from = "evm" /\ request[s].to # "evm"

At(s, name) == step' = [step EXCEPT ![s] = name]

-----------------------------------------------------------------------------
(***************************************************************************)
(* calculateMinimumReceive, addOraiBridgeRoute and getRouteV2.             *)
(***************************************************************************)
\* The relayer's fee is a number of ORAI, which a simulation turns into wanted
\* tokens each time; it stays what it is for ORAI, and when nothing is returned.
RelayerFees(s) ==
  LET r == request[s] IN
  IF ~r.ibcWasm THEN {0}
  ELSE {r.relayerFee}
         \cup {r.relayerFee * p : p \in IF r.toOrai THEN {} ELSE OraiPrices}

\* Mutant: the difference is not compared with zero.
MinimumBelowZero(s, f) ==
  (SimulateAmount(s) * (100 - BridgeFee - request[s].slippage) - 100 * f) \div 100

\* What was simulated, less the bridge's fee, the slippage and the relayer's fee.
MinimumReceive(s, f) ==
  LET whole == 100 * SimulateAmount(s)
      less  == SimulateAmount(s) * (BridgeFee + request[s].slippage) + 100 * f
  IN IF whole > less THEN (whole - less) \div 100 ELSE 0

\* getRoute: not for a transfer of a native coin, of KWT or of MILKY to Oraichain.
IsSmartRouter(r) ==
  /\ r.address /\ r.from # "Oraichain"
  /\ r.from = "evm" /\ r.to = "Oraichain" => ~r.native /\ ~r.legacy

PostAction(r) ==
  CASE r.to = "Oraichain" -> "transfer"
    [] r.to \in {"evm", "wasm"} -> "ibcWasm"
    [] OTHER -> "ibc"

\* On Oraichain itself the memo pays the recovery address, whoever is to receive.
MemoOf(s, orai, f) ==
  IF request[s].ibcWasm /\ IsSmartRouter(request[s])
  THEN [action |-> PostAction(request[s]), min |-> MinimumReceive(s, f),
        receiver |-> IF request[s].to = "Oraichain" THEN orai ELSE dest[s],
        recovery |-> orai, timeout |-> now + IBC_TRANSFER_TIMEOUT]
  ELSE NoMemo

-----------------------------------------------------------------------------
(***************************************************************************)
(* processUniversalSwap and swapCosmosToOtherNetwork.                      *)
(***************************************************************************)
\* getUniversalSwapToAddress: a cosmos address is the picked account's.
ToAddress(r) ==
  IF r.recipient = "valid" THEN "recipient" ELSE IF r.to = "evm" THEN "evm" ELSE account

GetToAddress(s) ==
  /\ pc[s] = "start" /\ Remote(s)
  /\ step[s] = "none"
  /\ dest' = [dest EXCEPT ![s] = ToAddress(request[s])]
  /\ At(s, "addressed")
  /\ UNCHANGED <<vars, home, memo, fee, msgTransfer, inbound, outbound, rested>>

\* Then the address on Oraichain is asked for, and a memo made.
ProcessRemote(s) ==
  /\ step[s] = "addressed" /\ now <= MaxTime
  /\ ProcessUniversalSwap(s)
  /\ home' = [home EXCEPT ![s] = account]
  /\ \E f \in RelayerFees(s) :
       /\ fee' = [fee EXCEPT ![s] = f]
       /\ memo' = [memo EXCEPT ![s] = MemoOf(s, account, f)]
  /\ UNCHANGED <<step, dest, msgTransfer, inbound, outbound, rested>>

\* Mutant: the fee is converted anew, but the first memo is sent.
BuildTransferOldMemo(s) ==
  /\ pc[s] = "swapCosmosToOtherNetwork" /\ step[s] = "addressed" /\ now <= MaxTime
  /\ home' = [home EXCEPT ![s] = account]
  /\ \E f \in RelayerFees(s) :
       /\ fee' = [fee EXCEPT ![s] = f]
       /\ memo' = memo
  /\ LET r == request[s]
         named == r.from = "noble" /\ r.recipient = "valid"
     IN /\ msgTransfer' = [msgTransfer EXCEPT ![s] =
             [receiver |-> IF named THEN "recipient" ELSE account,
              deadline |-> now + IBC_TRANSFER_TIMEOUT]]
        /\ At(s, IF named /\ r.to # "Oraichain" THEN "thrown" ELSE "sign")
  /\ UNCHANGED <<vars, dest, inbound, outbound, rested>>

\* swapCosmosToOtherNetwork asks again, for the price of ORAI too, and makes the
\* memo that is sent.  From Noble the tokens go to a plain address, and only to
\* one on Oraichain.
BuildTransferToOraichain(s) ==
  /\ pc[s] = "swapCosmosToOtherNetwork" /\ step[s] = "addressed" /\ now <= MaxTime
  /\ home' = [home EXCEPT ![s] = account]
  /\ \E f \in RelayerFees(s) :
       /\ fee' = [fee EXCEPT ![s] = f]
       /\ memo' = [memo EXCEPT ![s] = MemoOf(s, account, f)]
  /\ LET r == request[s]
         named == r.from = "noble" /\ r.recipient = "valid"
     IN /\ msgTransfer' = [msgTransfer EXCEPT ![s] =
             [receiver |-> IF named THEN "recipient" ELSE account,
              deadline |-> now + IBC_TRANSFER_TIMEOUT]]
        /\ At(s, IF named /\ r.to # "Oraichain" THEN "thrown" ELSE "sign")
  /\ UNCHANGED <<vars, dest, inbound, outbound, rested>>

\* The wallet signs for the account that is picked in it.
SignTransfer(s) ==
  /\ step[s] = "sign"
  /\ account = Sender
  /\ inbound' = inbound \cup {[swap |-> s, receiver |-> msgTransfer[s].receiver, memo |-> memo[s],
                              expires |-> TRUE, deadline |-> msgTransfer[s].deadline]}
  /\ At(s, "sent")
  /\ UNCHANGED <<vars, dest, home, memo, fee, msgTransfer, outbound, rested>>

\* transferAndSwap hands the first memo to the gravity bridge.
DepositOnEvm(s) ==
  /\ pc[s] = "transferAndSwap" /\ step[s] = "addressed"
  /\ inbound' = inbound \cup {[swap |-> s, receiver |-> home[s], memo |-> memo[s],
                              expires |-> FALSE, deadline |-> 0]}
  /\ At(s, "sent")
  /\ UNCHANGED <<vars, dest, home, memo, fee, msgTransfer, outbound, rested>>

\* A query fails, there is not enough in the bridge or for the fee, the wallet
\* has another account, or the user does not sign.
GiveUp(s) ==
  /\ step[s] \in {"addressed", "sign"}
  /\ At(s, "thrown")
  /\ UNCHANGED <<vars, dest, home, memo, fee, msgTransfer, inbound, outbound, rested>>

-----------------------------------------------------------------------------
(***************************************************************************)
(* Oraichain, and the chains behind it.                                    *)
(***************************************************************************)
Rest(s, amount, who, end) ==
  rested' = rested \cup {[swap |-> s, amount |-> amount, who |-> who, end |-> end]}

Arrives(p) ==
  /\ p \in inbound
  /\ p.expires => now < p.deadline
  /\ inbound' = inbound \ {p}
  /\ UNCHANGED <<vars, step, dest, home, memo, fee, msgTransfer>>

Unswapped(p) ==
  /\ Arrives(p)
  /\ p.memo.action = "none"
  /\ Rest(p.swap, Amount(request[p.swap]), p.receiver, "unswapped")
  /\ UNCHANGED outbound

Recovered(p) ==
  /\ Arrives(p)
  /\ p.memo.action # "none"
  /\ Rest(p.swap, Amount(request[p.swap]), p.memo.recovery, "recovered")
  /\ UNCHANGED outbound

\* Fees are taken, but not more than minimumReceive allows.
Swapped(p) ==
  LET returned == Amount(request[p.swap]) * IF request[p.swap].swap THEN rate ELSE 1 IN
  /\ Arrives(p)
  /\ p.memo.action # "none"
  /\ now < p.memo.timeout
  /\ \E amount \in p.memo.min..returned :
       IF p.memo.action = "transfer"
       THEN Rest(p.swap, amount, p.memo.receiver, "paid") /\ UNCHANGED outbound
       ELSE /\ outbound' = outbound \cup
                 {[swap |-> p.swap, amount |-> amount, receiver |-> p.memo.receiver,
                   recovery |-> p.memo.recovery]}
            /\ UNCHANGED rested

\* The sender gets back what has not arrived in time.
Refunded(p) ==
  /\ p.expires /\ now >= p.deadline
  /\ inbound' = inbound \ {p}
  /\ Rest(p.swap, Amount(request[p.swap]), Sender, "refunded")
  /\ UNCHANGED <<vars, step, dest, home, memo, fee, msgTransfer, outbound>>

\* What was sent on arrives, or returns to the recovery address.
Onward(o) ==
  /\ outbound' = outbound \ {o}
  /\ \/ Rest(o.swap, o.amount, o.receiver, "paid")
     \/ Rest(o.swap, o.amount, o.recovery, "expired")
  /\ UNCHANGED <<vars, step, dest, home, memo, fee, msgTransfer, inbound>>

RemoteCall(s) ==
  \/ GetToAddress(s) \/ ProcessRemote(s) \/ BuildTransferToOraichain(s)
  \/ SignTransfer(s) \/ DepositOnEvm(s) \/ GiveUp(s)

Arrive(p) == Unswapped(p) \/ Recovered(p) \/ Swapped(p)

\* ClassicSwap goes on as before, except that ProcessRemote stands for its step.
RemoteNext ==
  \/ \E s \in Swaps : RemoteCall(s)
  \/ \E p \in inbound : Arrive(p) \/ Refunded(p)
  \/ \E o \in outbound : Onward(o)
  \/ /\ Next
     /\ \A s \in Swaps : Remote(s) /\ pc[s] = "start" => pc'[s] = "start"
     /\ UNCHANGED remoteVars

\* And the gravity bridge brings what was deposited, the chains what was sent on.
RemoteFairness ==
  /\ WF_vars(Tick /\ UNCHANGED remoteVars)
  /\ WF_vars((\E p \in packets : Timeout(p)) /\ UNCHANGED remoteVars)
  /\ WF_remoteVars(\E p \in inbound : Refunded(p) \/ (~p.expires /\ Arrive(p)))
  /\ WF_remoteVars(\E o \in outbound : Onward(o))

RemoteSpec == RemoteInit /\ [][RemoteNext]_<<vars, remoteVars>> /\ RemoteFairness

-----------------------------------------------------------------------------
\* Each variable has its type.
RemoteTypeOK ==
  /\ step \in [Swaps -> {"none", "addressed", "sign", "sent", "thrown"}]
  /\ dest \in [Swaps -> Holders] /\ home \in [Swaps -> Accounts]
  /\ memo \in [Swaps -> Memo] /\ fee \in [Swaps -> Nat]
  /\ msgTransfer \in [Swaps -> [receiver : Accounts \cup {"recipient"}, deadline : Nat]]
  /\ inbound \subseteq Inbound /\ outbound \subseteq Outbound /\ rested \subseteq Rested

\* What is taken off what the user was shown: in percent, and the relayer's fee as
\* it was converted for the memo that the call is about to send or has sent.
Agreed(s) ==
  SimulateAmount(s)
    - (SimulateAmount(s) * (BridgeFee + request[s].slippage)) \div 100
    - fee[s]

\* Whatever is under way or at rest is all that there is of its call.
NeitherLostNorDoubled ==
  LET places == inbound \cup outbound \cup rested IN
  /\ \A x, y \in places : x.swap = y.swap => x = y
  /\ \A s \in Swaps : step[s] = "sent" <=> \E x \in places : x.swap = s

\* The tokens of a call are in one place.  When they rest they are either swapped,
\* and then no fewer than the price the user was shown and the relayer's fee come
\* to, or not, and then all of them with an account of the wallet (from Noble, with
\* the recipient if there is no memo): whatever the pool does meanwhile, however
\* late a transfer arrives, whichever of the two memos is the one that is sent, and
\* although ORAI may have another price for each of them.
AgreedOrBack ==
  /\ NeitherLostNorDoubled
  /\ \A e \in rested :
       IF e.end \in {"paid", "expired"} THEN e.amount + 1 >= Agreed(e.swap)
       ELSE /\ e.amount = Amount(request[e.swap])
            /\ e.who \in Accounts \/ (e.end = "unswapped" /\ request[e.swap].from = "noble")

\* What is under way arrives or comes back, also if nobody relays it: a transfer
\* carries a timeout, and the gravity bridge is taken to deliver.
InTransit == packets \cup inbound \cup outbound # {}
Settles == InTransit ~> ~InTransit

\* types.ts: recipientAddress is for a user who wants to send to another address.
\* What is paid is paid to the recipient that was named.
RecipientIsPaid ==
  \A e \in rested :
    e.end = "paid" /\ request[e.swap].recipient = "valid" => e.who = "recipient"
=============================================================================
