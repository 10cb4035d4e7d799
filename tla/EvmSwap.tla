------------------------------ MODULE EvmSwap ------------------------------
(***************************************************************************)
(* Swaps that start on an EVM chain or on Tron: UniversalSwapHandler.      *)
(* transferAndSwap decides how, EvmWallet.checkOrIncreaseAllowance raises  *)
(* an allowance, and evmSwap or transferToGravity submits the transaction  *)
(* that spends it.  Several calls of one user overlap (tabs, double        *)
(* clicks): they share the allowances, the balances and the nonces of one  *)
(* account.  A step lies between two awaits.                               *)
(*                                                                         *)
(* The chains are not in this repository: a transaction of an EVM account  *)
(* is included in the order of the nonces, Tron has no nonces, an ERC20    *)
(* gives what approve and transferFrom say, and USDT on Ethereum refuses   *)
(* to change one allowance that is not zero into another.                  *)
(***************************************************************************)
EXTENDS Naturals

CONSTANTS
  Swaps,          \* the calls of transferAndSwap
  Requests,       \* what they may be asked for
  Assets,         \* the tokens they may start from
  NativeAssets,   \* those without a contract: ETH, BNB
  TronAssets,     \* those on Tron
  UsdtErc20,      \* USDT on Ethereum
  MaxAmount,      \* bound on the amounts of requests
  FirstAllowances, FirstBalances,  \* what the chains may hold at the start
  MaxTime,        \* bound on the clock, in seconds
  UNISWAP_ROUTER_DEADLINE

Gravity == "gravity"
RouterV2 == "routerV2"
Spenders == {Gravity, RouterV2}
Amounts == 0..MaxAmount

(***************************************************************************)
(* The fields of a request: where the tokens come from and how many; the   *)
(* contract of the wanted token; whether it is on the same chain and what  *)
(* isEvmSwappable says of it; the same token on the chain we start from    *)
(* and what isEvmSwappable says of that; whether the pair has no pool on   *)
(* Oraichain; the recipient; whether the checks of the bridge's balance    *)
(* and of the fee succeed; whether a wallet for the chain is there.        *)
(***************************************************************************)
Contract == {"native", "token"}
Request ==
  [asset : Assets, amount : 1..MaxAmount, to : Contract, sameChain : BOOLEAN,
   swappable : BOOLEAN, twin : Contract \cup {"none"}, twinSwappable : BOOLEAN,
   noPool : BOOLEAN, recipient : {"none", "evm", "other"}, checks : BOOLEAN,
   address : BOOLEAN, wallet : BOOLEAN]

\* swapEvmRoutes has routes on Ethereum and BSC only, none from a token to the
\* coin it wraps when that is to be bridged, and none from a coin to itself.
Sensible(r) ==
  /\ r.swappable => r.sameChain
  /\ r.swappable \/ r.twinSwappable => r.asset \notin TronAssets
  /\ r.twinSwappable => r.twin # "none"
  /\ r.sameChain => r.twin = r.to /\ r.twinSwappable = r.swappable
  /\ r.asset \in NativeAssets /\ r.swappable => r.to = "token"
  /\ r.twinSwappable /\ ~r.sameChain => r.twin = "token"

ASSUME EvmAssumption ==
  /\ NativeAssets \subseteq Assets /\ TronAssets \subseteq Assets
  /\ UsdtErc20 \subseteq Assets
  /\ NativeAssets \cap UsdtErc20 = {} /\ TronAssets \cap UsdtErc20 = {}
  /\ NativeAssets \cap TronAssets = {}
  /\ MaxAmount \in Nat /\ MaxTime \in Nat /\ UNISWAP_ROUTER_DEADLINE \in Nat
  /\ FirstAllowances \subseteq [Assets \X Spenders -> Nat]
  /\ FirstBalances \subseteq [Assets -> Nat]
  /\ Requests \subseteq {r \in Request : Sensible(r)}

VARIABLES
  request,    \* fixed
  pc,         \* the step each call is at
  current,    \* currentAllowance, as it was read
  allowance,  \* on chain: of each asset, for each spender
  balance,    \* on chain: of the user
  pending,    \* transactions that are submitted and not yet included
  nonce,      \* of the user's account
  now,        \* seconds
  outcome,    \* what the chain did with the call's deposit
  initial,    \* history: the allowances at the start
  clashed     \* history: calls that overlapped another one of the same asset

chainVars == <<allowance, balance, now, outcome>>
vars == <<request, pc, current, allowance, balance, pending, nonce, now,
          outcome, initial, clashed>>

IsTron(s)   == request[s].asset \in TronAssets
IsNative(s) == request[s].asset \in NativeAssets

-----------------------------------------------------------------------------
(***************************************************************************)
(* transferAndSwap: swap on the EVM chain when the tokens are swappable    *)
(* there, or when the same token on this chain is and there is no pool on  *)
(* Oraichain; otherwise deposit in the gravity contract.                   *)
(***************************************************************************)
SwapsOnEvm(r) == r.swappable \/ (r.twinSwappable /\ r.noPool)

\* toTokenContractAddr and destination, as transferAndSwap passes them on.
ToContract(r)  == IF r.swappable THEN r.to ELSE r.twin
Destination(r) == IF r.sameChain THEN "" ELSE "swapRoute"

\* evmSwap and transferToGravity: the contract function that is called.
Method(r) ==
  IF ~SwapsOnEvm(r) THEN "sendToCosmos"
  ELSE IF r.asset \in NativeAssets THEN "bridgeFromETH"
  ELSE IF ToContract(r) = "native" THEN "swapExactTokensForETH"
  ELSE IF Destination(r) = "" THEN "swapExactTokensForTokens"
  ELSE "bridgeFromERC20"

\* The contract whose function it is: the one that takes the tokens.
Puller(r) ==
  IF Method(r) \in {"swapExactTokensForETH", "swapExactTokensForTokens"}
  THEN RouterV2 ELSE Gravity

\* fromTokenSpender: whom the allowance is raised for.
Spender(r) ==
  IF SwapsOnEvm(r) /\ ToContract(r) = "native" THEN RouterV2 ELSE Gravity

\* evmSwap puts the recipient through getAddress, which takes EVM addresses
\* only; transferAndSwap wants an address; the gravity deposit has two checks,
\* and sendToCosmos needs the contract of a token.
CanTransferAndSwap(r) ==
  /\ r.address
  /\ IF SwapsOnEvm(r) THEN r.recipient # "other"
     ELSE r.checks /\ r.asset \notin NativeAssets

\* The approve steps are there for a wallet that handles the chain.
Approving == {"zero", "zeroWait", "approve", "approveWait"}
Depositing == {"deposit", "depositWait"}
Over == {"done", "thrown"}

Tx == [swap : Swaps, kind : {"approve", "deposit"}, amount : Amounts,
       nonce : Nat, signed : Nat]

\* A call is about to use what it knows of the allowance.
Busy(s) == pc[s] \in {"read"} \cup Approving \cup Depositing
             \/ \E tx \in pending : tx.swap = s

SameAsset(s, t) == request[s].asset = request[t].asset

Init ==
  /\ request \in [Swaps -> Requests]
  /\ pc = [s \in Swaps |-> "start"]
  /\ current = [s \in Swaps |-> 0]
  /\ allowance \in FirstAllowances
  /\ balance \in FirstBalances
  /\ pending = {}
  /\ nonce = 0
  /\ now = 0
  /\ outcome = [s \in Swaps |-> "none"]
  /\ initial = allowance
  /\ clashed = {}

Goto(s, step) == pc' = [pc EXCEPT ![s] = step]

TransferAndSwap(s) ==
  /\ pc[s] = "start"
  /\ Goto(s, IF CanTransferAndSwap(request[s]) THEN "query" ELSE "thrown")
  /\ UNCHANGED <<request, current, pending, nonce, initial, clashed>>
  /\ UNCHANGED chainVars

-----------------------------------------------------------------------------
(***************************************************************************)
(* checkOrIncreaseAllowance.  The allowance is read over a static RPC; the *)
(* answer is used when it arrives.                                         *)
(***************************************************************************)
ReadAllowance(s) ==
  /\ pc[s] = "query"
  /\ current' = [current EXCEPT ![s] =
                   allowance[<<request[s].asset, Spender(request[s])>>]]
  /\ Goto(s, IF IsNative(s) THEN "deposit" ELSE "read")
  /\ LET others == {t \in Swaps \ {s} : SameAsset(s, t) /\ Busy(t)} IN
     clashed' = clashed \cup others \cup {x \in {s} : others # {}}
  /\ UNCHANGED <<request, pending, nonce, initial>>
  /\ UNCHANGED chainVars

\* Mutants: any allowance is enough; USDT like every other token.
NextStepAnyAllowance(s) ==
  IF current[s] > 0 \/ ~request[s].wallet THEN "deposit"
  ELSE IF request[s].asset \in UsdtErc20 THEN "zero" ELSE "approve"
NextStepNoZero(s) ==
  IF current[s] >= request[s].amount \/ ~request[s].wallet THEN "deposit"
  ELSE "approve"

\* Where the answer leads: nothing to raise, no wallet that could, or approve,
\* on USDT with an approval of zero before it.
NextStep(s) ==
  IF current[s] >= request[s].amount \/ ~request[s].wallet THEN "deposit"
  ELSE IF request[s].asset \in UsdtErc20 THEN "zero" ELSE "approve"

CompareAllowance(s) ==
  /\ pc[s] = "read"
  /\ Goto(s, NextStep(s))
  /\ UNCHANGED <<request, current, pending, nonce, initial, clashed>>
  /\ UNCHANGED chainVars

Submit(s, kind, amount) ==
  /\ pending' = pending \cup {[swap |-> s, kind |-> kind, amount |-> amount,
                               nonce |-> nonce, signed |-> now]}
  /\ nonce' = nonce + 1
  /\ UNCHANGED <<request, current, initial, clashed>>
  /\ UNCHANGED chainVars

\* tokenContract.approve(spender, "0"), on USDT only.
ApproveZero(s) ==
  /\ pc[s] = "zero"
  /\ Goto(s, "zeroWait")
  /\ Submit(s, "approve", 0)

\* Mutants: approve twice the amount; approve all that one might ever want.
ApproveTwice(s) ==
  /\ pc[s] = "approve"
  /\ Goto(s, IF IsTron(s) THEN "deposit" ELSE "approveWait")
  /\ Submit(s, "approve", 2 * request[s].amount)

ApproveEverything(s) ==
  /\ pc[s] = "approve"
  /\ Goto(s, IF IsTron(s) THEN "deposit" ELSE "approveWait")
  /\ Submit(s, "approve", MaxAmount)

\* tokenContract.approve(spender, amount).  On Tron submitTronSmartContract
\* returns once the transaction is sent, and the deposit follows at once.
Approve(s) ==
  /\ pc[s] = "approve"
  /\ Goto(s, IF IsTron(s) THEN "deposit" ELSE "approveWait")
  /\ Submit(s, "approve", request[s].amount)

(***************************************************************************)
(* evmSwap and transferToGravity: the deposit.  Without a wallet for the   *)
(* chain transferToGravity returns with nothing done.                      *)
(***************************************************************************)
Deposit(s) ==
  /\ pc[s] = "deposit"
  /\ request[s].wallet
  /\ Goto(s, IF IsTron(s) THEN "done" ELSE "depositWait")
  /\ Submit(s, "deposit", request[s].amount)

NothingToSignWith(s) ==
  /\ pc[s] = "deposit"
  /\ ~request[s].wallet
  /\ Goto(s, IF SwapsOnEvm(request[s]) THEN "thrown" ELSE "done")
  /\ UNCHANGED <<request, current, pending, nonce, initial, clashed>>
  /\ UNCHANGED chainVars

\* The user does not sign: the call throws.
Reject(s) ==
  /\ pc[s] \in {"zero", "approve", "deposit"}
  /\ Goto(s, "thrown")
  /\ UNCHANGED <<request, current, pending, nonce, initial, clashed>>
  /\ UNCHANGED chainVars

-----------------------------------------------------------------------------
(***************************************************************************)
(* The chains.                                                             *)
(***************************************************************************)
Key(tx) == <<request[tx.swap].asset,
             IF tx.kind = "approve" THEN Spender(request[tx.swap])
             ELSE Puller(request[tx.swap])>>

\* Nonces order the transactions of an EVM account.
IsNext(tx) ==
  IsTron(tx.swap) \/ \A other \in pending : ~IsTron(other.swap) => tx.nonce <= other.nonce

Accepted(tx) ==
  request[tx.swap].asset \in UsdtErc20 => tx.amount = 0 \/ allowance[Key(tx)] = 0

\* The router compares its clock, in seconds, with the deadline that evmSwap
\* computed: new Date().getTime() + UNISWAP_ROUTER_DEADLINE.
DeadlineOf(tx) == tx.signed * 1000 + UNISWAP_ROUTER_DEADLINE

Executable(tx) ==
  /\ balance[request[tx.swap].asset] >= tx.amount
  /\ ~IsNative(tx.swap) => allowance[Key(tx)] >= tx.amount
  /\ Puller(request[tx.swap]) = RouterV2 => now <= DeadlineOf(tx)

\* Mutant: the steps wait without looking at the receipt's status.
ResumeAnyway(tx, step) ==
  pc' = IF IsTron(tx.swap) THEN pc
        ELSE [pc EXCEPT ![tx.swap] = IF step = "thrown" THEN "done" ELSE step]

\* result.wait() resolves or throws; on Tron nobody waits.
Resume(tx, step) ==
  pc' = IF IsTron(tx.swap) THEN pc ELSE [pc EXCEPT ![tx.swap] = step]

IncludeApprove(tx) ==
  /\ tx.kind = "approve"
  /\ Accepted(tx)
  /\ allowance' = [allowance EXCEPT ![Key(tx)] = tx.amount]
  /\ Resume(tx, IF pc[tx.swap] = "zeroWait" THEN "approve" ELSE "deposit")
  /\ UNCHANGED <<balance, outcome>>

IncludeDeposit(tx) ==
  /\ tx.kind = "deposit"
  /\ Executable(tx)
  /\ balance' = [balance EXCEPT ![request[tx.swap].asset] = @ - tx.amount]
  /\ allowance' = IF IsNative(tx.swap) THEN allowance
                  ELSE [allowance EXCEPT ![Key(tx)] = @ - tx.amount]
  /\ outcome' = [outcome EXCEPT ![tx.swap] = "ok"]
  /\ Resume(tx, "done")

Revert(tx) ==
  /\ IF tx.kind = "approve" THEN ~Accepted(tx) ELSE ~Executable(tx)
  /\ outcome' = [outcome EXCEPT ![tx.swap] =
                   IF tx.kind = "deposit" THEN "reverted" ELSE @]
  /\ Resume(tx, "thrown")
  /\ UNCHANGED <<allowance, balance>>

Include(tx) ==
  /\ IsNext(tx)
  /\ pending' = pending \ {tx}
  /\ IncludeApprove(tx) \/ IncludeDeposit(tx) \/ Revert(tx)
  /\ UNCHANGED <<request, current, nonce, now, initial, clashed>>

\* Time passes while transactions wait: twenty seconds at a time.
Tick ==
  /\ pending # {}
  /\ now + 20 <= MaxTime
  /\ now' = now + 20
  /\ UNCHANGED <<request, pc, current, allowance, balance, pending, nonce,
                 outcome, initial, clashed>>

Call(s) ==
  \/ TransferAndSwap(s) \/ ReadAllowance(s) \/ CompareAllowance(s)
  \/ ApproveZero(s) \/ Approve(s) \/ Deposit(s) \/ NothingToSignWith(s)
  \/ Reject(s)

Next ==
  \/ \E s \in Swaps : Call(s)
  \/ \E tx \in pending : Include(tx)
  \/ Tick

Spec == Init /\ [][Next]_vars

-----------------------------------------------------------------------------
\* Each variable has its type.
TypeOK ==
  /\ request \in [Swaps -> Requests]
  /\ pc \in [Swaps -> {"start", "query", "read"} \cup Approving \cup Depositing \cup Over]
  /\ current \in [Swaps -> Nat]
  /\ allowance \in [Assets \X Spenders -> Nat]
  /\ balance \in [Assets -> Nat]
  /\ pending \subseteq Tx
  /\ nonce \in Nat /\ now \in Nat
  /\ outcome \in [Swaps -> {"none", "ok", "reverted"}]
  /\ initial \in [Assets \X Spenders -> Nat]
  /\ clashed \subseteq Swaps

\* The allowance is raised for the contract that takes the tokens.
Matched(s) == Spender(request[s]) = Puller(request[s])

Alone(s) == s \notin clashed /\ ~IsTron(s)

\* The steps of checkOrIncreaseAllowance and of the deposit fit together: a
\* deposit that no other call of the same asset overlaps never lacks the
\* allowance, whatever allowance earlier calls left behind, finished or not.
DepositCovered ==
  \A tx \in pending :
    tx.kind = "deposit" /\ Alone(tx.swap) /\ ~IsNative(tx.swap) /\ Matched(tx.swap)
      => allowance[Key(tx)] >= tx.amount

\* USDT on Ethereum never refuses an approval, because the allowance is set to
\* zero and confirmed first (wallet.ts: isUsdtErc20).
UsdtNeverRefuses ==
  \A tx \in pending : tx.kind = "approve" /\ Alone(tx.swap) => Accepted(tx)

\* What a call answers is what the chain did: on an EVM chain it resolves if
\* and only if its deposit was executed, and it throws only with the tokens
\* still in the wallet.  (Without a wallet transferToGravity just returns.)
TellsTheTruth ==
  \A s \in Swaps :
    /\ pc[s] = "done" /\ ~IsTron(s) /\ request[s].wallet => outcome[s] = "ok"
    /\ pc[s] = "thrown" => outcome[s] # "ok" \/ IsTron(s)

\* Calls that all succeed leave no allowance behind that was not there before,
\* even when they overlap: what is raised is what is spent.
NoStandingAllowance ==
  pending = {} /\ (\A s \in Swaps : Matched(s) /\ outcome[s] = "ok")
    => \A k \in Assets \X Spenders : allowance[k] <= initial[k]

\* handler.ts says that the uniswap router is approved first because it uses
\* transfer from: a call of the router that no other overlaps finds the
\* allowance it needs.
RouterApprovedFirst ==
  \A tx \in pending :
    tx.kind = "deposit" /\ Alone(tx.swap) /\ Puller(request[tx.swap]) = RouterV2
      => allowance[Key(tx)] >= tx.amount
=============================================================================
