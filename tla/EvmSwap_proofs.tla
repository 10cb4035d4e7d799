--------------------------- MODULE EvmSwap_proofs ---------------------------
(***************************************************************************)
(* Proofs about EvmSwap, for any number of calls, assets and amounts: the  *)
(* types, that a deposit which no other call overlaps has the allowance it *)
(* needs, that USDT never refuses an approval, that a call on an EVM chain *)
(* tells what became of its deposit, and that calls which succeed leave no *)
(* allowance behind.                                                       *)
(***************************************************************************)
EXTENDS EvmSwap, Integers, WellFoundedInduction, TLAPS

\* A request names an asset, a contract to approve and one to call.
LEMMA RequestTypes ==
  ASSUME TypeOK, NEW s \in Swaps
  PROVE  /\ request[s].asset \in Assets
         /\ request[s].amount \in Nat /\ request[s].amount \in Amounts
         /\ request[s].wallet \in BOOLEAN
         /\ Spender(request[s]) \in Spenders /\ Puller(request[s]) \in Spenders
<1>1. request[s] \in Request
  BY EvmAssumption DEF TypeOK
<1>2. request[s].asset \in Assets /\ request[s].amount \in 1..MaxAmount
        /\ request[s].wallet \in BOOLEAN
  BY <1>1 DEF Request
<1>3. request[s].amount \in Nat /\ request[s].amount \in Amounts
  BY <1>2, EvmAssumption DEF Amounts
<1>4. Spender(request[s]) \in Spenders /\ Puller(request[s]) \in Spenders
  BY DEF Spender, Puller, Spenders
<1> QED BY <1>2, <1>3, <1>4

\* The key of a transaction is an allowance of its call's asset.
LEMMA KeyTypes ==
  ASSUME TypeOK, NEW tx \in pending
  PROVE  /\ tx.swap \in Swaps /\ tx.amount \in Nat
         /\ Key(tx) \in Assets \X Spenders /\ Key(tx)[1] = request[tx.swap].asset
<1>1. tx.swap \in Swaps /\ tx.amount \in Nat
  BY EvmAssumption DEF TypeOK, Tx, Amounts
<1> QED BY <1>1, RequestTypes DEF Key

-----------------------------------------------------------------------------
\* Before the first call nothing is read, submitted or answered.
LEMMA TypeInit == Init => TypeOK
<1> SUFFICES ASSUME Init PROVE TypeOK
  OBVIOUS
<1>1. allowance \in [Assets \X Spenders -> Nat] /\ balance \in [Assets -> Nat]
  BY EvmAssumption DEF Init
<1> QED BY <1>1 DEF Init, TypeOK

\* Every step of a call keeps the types.
LEMMA TypeCall == ASSUME TypeOK, NEW s \in Swaps, Call(s) PROVE TypeOK'
<1>r. /\ request[s].asset \in Assets /\ request[s].amount \in Amounts
      /\ Spender(request[s]) \in Spenders
  BY RequestTypes
<1>s. ASSUME NEW kind \in {"approve", "deposit"}, NEW amount \in Amounts,
             Submit(s, kind, amount)
      PROVE  pending' \subseteq Tx /\ nonce' \in Nat
  BY <1>s DEF Submit, TypeOK, Tx
<1>z. 0 \in Amounts
  BY EvmAssumption DEF Amounts
<1>1. CASE TransferAndSwap(s)
  BY <1>1 DEF TransferAndSwap, TypeOK, Goto, chainVars, Over
<1>2. CASE ReadAllowance(s)
  <2>1. current' \in [Swaps -> Nat]
    BY <1>2, <1>r DEF ReadAllowance, TypeOK
  <2>2. clashed' \subseteq Swaps
    BY <1>2 DEF ReadAllowance, TypeOK
  <2> QED BY <1>2, <2>1, <2>2 DEF ReadAllowance, TypeOK, Goto, chainVars, Depositing
<1>3. CASE CompareAllowance(s)
  BY <1>3 DEF CompareAllowance, NextStep, TypeOK, Goto, chainVars, Approving, Depositing
<1>4. CASE ApproveZero(s)
  <2>1. pending' \subseteq Tx /\ nonce' \in Nat
    BY <1>4, <1>s, <1>z DEF ApproveZero
  <2> QED BY <1>4, <2>1 DEF ApproveZero, Submit, TypeOK, Goto, chainVars, Approving
<1>5. CASE Approve(s)
  <2>1. pending' \subseteq Tx /\ nonce' \in Nat
    BY <1>5, <1>s, <1>r DEF Approve
  <2> QED BY <1>5, <2>1 DEF Approve, Submit, TypeOK, Goto, chainVars, Approving, Depositing
<1>6. CASE Deposit(s)
  <2>1. pending' \subseteq Tx /\ nonce' \in Nat
    BY <1>6, <1>s, <1>r DEF Deposit
  <2> QED BY <1>6, <2>1 DEF Deposit, Submit, TypeOK, Goto, chainVars, Depositing, Over
<1>7. CASE NothingToSignWith(s)
  BY <1>7 DEF NothingToSignWith, TypeOK, Goto, chainVars, Over
<1>8. CASE Reject(s)
  BY <1>8 DEF Reject, TypeOK, Goto, chainVars, Over
<1> QED BY <1>1, <1>2, <1>3, <1>4, <1>5, <1>6, <1>7, <1>8 DEF Call

\* Including a transaction keeps the types: an allowance or a balance that is
\* reduced was at least as large.
LEMMA TypeInclude == ASSUME TypeOK, NEW tx \in pending, Include(tx) PROVE TypeOK'
<1>k. /\ tx.swap \in Swaps /\ tx.amount \in Nat /\ Key(tx) \in Assets \X Spenders
      /\ request[tx.swap].asset \in Assets
  BY KeyTypes, RequestTypes
<1>p. pending' \subseteq Tx
  BY DEF Include, TypeOK
<1>1. CASE IncludeApprove(tx)
  <2>1. allowance' \in [Assets \X Spenders -> Nat]
    BY <1>1, <1>k DEF IncludeApprove, TypeOK
  <2>2. pc' \in [Swaps -> {"start", "query", "read"} \cup Approving \cup Depositing \cup Over]
    BY <1>1 DEF IncludeApprove, Resume, TypeOK, Approving, Depositing
  <2> QED BY <1>1, <1>p, <2>1, <2>2 DEF IncludeApprove, Include, TypeOK
<1>2. CASE IncludeDeposit(tx)
  <2>1. balance' \in [Assets -> Nat]
    <3> DEFINE left == balance[request[tx.swap].asset] - tx.amount
    <3>1. left \in Nat
      BY <1>2, <1>k DEF IncludeDeposit, Executable, TypeOK
    <3> HIDE DEF left
    <3>2. balance' = [balance EXCEPT ![request[tx.swap].asset] = left]
      BY <1>2 DEF IncludeDeposit, left
    <3> QED BY <3>1, <3>2, <1>k DEF TypeOK
  <2>2. allowance' \in [Assets \X Spenders -> Nat]
    <3> DEFINE left == allowance[Key(tx)] - tx.amount
    <3>1. CASE IsNative(tx.swap)
      BY <1>2, <3>1 DEF IncludeDeposit, TypeOK
    <3>2. CASE ~IsNative(tx.swap)
      <4>1. left \in Nat
        BY <1>2, <1>k, <3>2 DEF IncludeDeposit, Executable, TypeOK
      <4> HIDE DEF left
      <4>2. allowance' = [allowance EXCEPT ![Key(tx)] = left]
        BY <1>2, <3>2 DEF IncludeDeposit, left
      <4> QED BY <4>1, <4>2, <1>k DEF TypeOK
    <3> QED BY <3>1, <3>2
  <2>3. pc' \in [Swaps -> {"start", "query", "read"} \cup Approving \cup Depositing \cup Over]
    BY <1>2 DEF IncludeDeposit, Resume, TypeOK, Over
  <2>4. outcome' \in [Swaps -> {"none", "ok", "reverted"}]
    BY <1>2 DEF IncludeDeposit, TypeOK
  <2> QED BY <1>p, <2>1, <2>2, <2>3, <2>4 DEF Include, TypeOK
<1>3. CASE Revert(tx)
  <2>1. pc' \in [Swaps -> {"start", "query", "read"} \cup Approving \cup Depositing \cup Over]
    BY <1>3 DEF Revert, Resume, TypeOK, Over
  <2>2. outcome' \in [Swaps -> {"none", "ok", "reverted"}]
    BY <1>3, <1>k DEF Revert, TypeOK
  <2> QED BY <1>3, <1>p, <2>1, <2>2 DEF Revert, Include, TypeOK
<1> QED BY <1>1, <1>2, <1>3 DEF Include

\* Calls, chains and the clock keep the types.
LEMMA TypeStep == TypeOK /\ [Next]_vars => TypeOK'
<1> SUFFICES ASSUME TypeOK, [Next]_vars PROVE TypeOK'
  OBVIOUS
<1>1. CASE \E s \in Swaps : Call(s)
  BY <1>1, TypeCall
<1>2. CASE \E tx \in pending : Include(tx)
  BY <1>2, TypeInclude
<1>3. CASE Tick
  BY <1>3 DEF Tick, TypeOK
<1>4. CASE UNCHANGED vars
  BY <1>4 DEF vars, TypeOK
<1> QED BY <1>1, <1>2, <1>3, <1>4 DEF Next

-----------------------------------------------------------------------------
\* A transaction of an EVM account is the one its call waits for.
PendInv ==
  \A tx \in pending : ~IsTron(tx.swap) =>
    /\ tx.kind = "approve" =>
         \/ pc[tx.swap] = "zeroWait" /\ tx.amount = 0
         \/ pc[tx.swap] = "approveWait" /\ tx.amount = request[tx.swap].amount
    /\ tx.kind = "deposit" =>
         /\ pc[tx.swap] = "depositWait" /\ tx.amount = request[tx.swap].amount
         /\ request[tx.swap].wallet
    /\ \A other \in pending : other.swap = tx.swap => other = tx

\* Two calls that are busy with one asset know of each other as clashed.
ClashInv ==
  \A s, t \in Swaps : s # t /\ SameAsset(s, t) /\ Busy(s) /\ Busy(t) => s \in clashed

\* What a call that no other overlaps knows of its allowance is still true.
CoverInv ==
  \A s \in Swaps : Alone(s) /\ ~IsNative(s) =>
    LET allowed == allowance[<<request[s].asset, Spender(request[s])>>] IN
    /\ pc[s] = "read" => current[s] = allowed
    /\ pc[s] \in Depositing /\ request[s].wallet => allowed >= request[s].amount
    /\ request[s].asset \in UsdtErc20 /\ pc[s] \in {"approve", "approveWait"}
         => allowed = 0

\* A call whose deposit was executed is done, and the other way round.
TruthInv ==
  \A s \in Swaps : ~IsTron(s) =>
    /\ outcome[s] = "ok" => pc[s] = "done"
    /\ pc[s] = "done" /\ request[s].wallet => outcome[s] = "ok"

\* The strengthening that is inductive.
IInv == TypeOK /\ PendInv /\ ClashInv /\ CoverInv /\ TruthInv

\* A step of a call changes no request, no allowance and no other call.
LEMMA CallFrame ==
  ASSUME TypeOK, NEW s \in Swaps, Call(s)
  PROVE  /\ request' = request /\ allowance' = allowance /\ outcome' = outcome
         /\ \A t \in Swaps \ {s} : pc'[t] = pc[t] /\ current'[t] = current[t]
         /\ clashed \subseteq clashed'
<1>1. request' = request /\ allowance' = allowance /\ outcome' = outcome
  BY DEF Call, TransferAndSwap, ReadAllowance, CompareAllowance, ApproveZero,
         Approve, Deposit, NothingToSignWith, Reject, Submit, chainVars
<1>2. \A t \in Swaps \ {s} : pc'[t] = pc[t]
  BY DEF TypeOK, Call, TransferAndSwap, ReadAllowance, CompareAllowance, ApproveZero,
         Approve, Deposit, NothingToSignWith, Reject, Goto
<1>3. (\A t \in Swaps \ {s} : current'[t] = current[t]) /\ clashed \subseteq clashed'
  BY DEF TypeOK, Call, TransferAndSwap, ReadAllowance, CompareAllowance, ApproveZero,
         Approve, Deposit, NothingToSignWith, Reject, Submit
<1> QED BY <1>1, <1>2, <1>3

\* What a transaction that a call has just submitted is.
Submitted(s, new) ==
  /\ new.swap = s
  /\ ~IsTron(s) =>
       \/ new.kind = "approve" /\ pc'[s] = "zeroWait" /\ new.amount = 0
       \/ new.kind = "approve" /\ pc'[s] = "approveWait" /\ new.amount = request[s].amount
       \/ /\ new.kind = "deposit" /\ pc'[s] = "depositWait"
          /\ new.amount = request[s].amount /\ request[s].wallet

\* A step of a call submits one transaction or none, and a call that submits
\* was busy.
LEMMA CallPending ==
  ASSUME TypeOK, NEW s \in Swaps, Call(s)
  PROVE  \/ pending' = pending
         \/ /\ pc[s] \in {"zero", "approve", "deposit"}
            /\ \E new : pending' = pending \cup {new} /\ Submitted(s, new)
<1> DEFINE tx(kind, amount) == [swap |-> s, kind |-> kind, amount |-> amount,
                                nonce |-> nonce, signed |-> now]
<1>1. CASE ApproveZero(s)
  <2>1. Submitted(s, tx("approve", 0))
    BY <1>1 DEF ApproveZero, Goto, TypeOK, Submitted
  <2> QED BY <1>1, <2>1 DEF ApproveZero, Submit
<1>2. CASE Approve(s)
  <2>1. Submitted(s, tx("approve", request[s].amount))
    BY <1>2 DEF Approve, Goto, TypeOK, Submitted
  <2> QED BY <1>2, <2>1 DEF Approve, Submit
<1>3. CASE Deposit(s)
  <2>1. Submitted(s, tx("deposit", request[s].amount))
    BY <1>3 DEF Deposit, Goto, TypeOK, Submitted
  <2> QED BY <1>3, <2>1 DEF Deposit, Submit
<1> QED
  BY <1>1, <1>2, <1>3 DEF Call, TransferAndSwap, ReadAllowance, CompareAllowance,
     NothingToSignWith, Reject

\* No call that is waiting for a transaction takes a step of its own.
LEMMA CallWaits ==
  ASSUME NEW s \in Swaps, Call(s)
  PROVE  pc[s] \in {"start", "query", "read", "zero", "approve", "deposit"}
BY DEF Call, TransferAndSwap, ReadAllowance, CompareAllowance, ApproveZero,
       Approve, Deposit, NothingToSignWith, Reject

\* A call waits for each transaction it submits before the next.
LEMMA PendCall ==
  ASSUME TypeOK, PendInv, NEW s \in Swaps, Call(s) PROVE PendInv'
<1>f. /\ request' = request
      /\ \A t \in Swaps \ {s} : pc'[t] = pc[t]
  BY CallFrame
<1>w. pc[s] \in {"start", "query", "read", "zero", "approve", "deposit"}
  BY CallWaits
<1>n. ASSUME ~IsTron(s), NEW tx \in pending PROVE tx.swap # s
  BY <1>n, <1>w DEF PendInv, TypeOK, Tx
<1>o. ASSUME NEW tx \in pending, ~IsTron(tx.swap)
      PROVE  pc'[tx.swap] = pc[tx.swap]
  BY <1>o, <1>n, <1>f, KeyTypes
<1>t. \A t : IsTron(t)' <=> IsTron(t)
  BY <1>f DEF IsTron
<1>1. CASE pending' = pending
  BY <1>1, <1>f, <1>o, <1>t DEF PendInv
<1>2. ASSUME NEW new, pending' = pending \cup {new}, Submitted(s, new)
      PROVE  PendInv'
  <2> SUFFICES ASSUME NEW tx \in pending', ~IsTron(tx.swap)
               PROVE
                 /\ tx.kind = "approve" =>
                      \/ pc'[tx.swap] = "zeroWait" /\ tx.amount = 0
                      \/ pc'[tx.swap] = "approveWait" /\ tx.amount = request[tx.swap].amount
                 /\ tx.kind = "deposit" =>
                      /\ pc'[tx.swap] = "depositWait" /\ tx.amount = request[tx.swap].amount
                      /\ request[tx.swap].wallet
                 /\ \A other \in pending' : other.swap = tx.swap => other = tx
    BY <1>f, <1>t DEF PendInv
  <2>1. CASE tx = new
    BY <1>2, <1>n, <2>1 DEF Submitted
  <2>2. CASE tx \in pending
    BY <1>2, <1>n, <1>o, <2>2 DEF PendInv, Submitted
  <2> QED BY <1>2, <2>1, <2>2
<1> QED BY CallPending, <1>1, <1>2

\* A call becomes busy when it reads the allowance, and then it looks around.
LEMMA ClashCall ==
  ASSUME TypeOK, ClashInv, NEW s \in Swaps, Call(s) PROVE ClashInv'
<1>f. /\ request' = request /\ clashed \subseteq clashed'
      /\ \A t \in Swaps \ {s} : pc'[t] = pc[t]
  BY CallFrame
<1>a. \A t, u : SameAsset(t, u)' <=> SameAsset(t, u)
  BY <1>f DEF SameAsset
<1>o. ASSUME NEW t \in Swaps \ {s}, Busy(t)' PROVE Busy(t)
  BY <1>f, <1>o, CallPending DEF Busy, Submitted
<1>1. CASE ReadAllowance(s)
  <2>1. ASSUME NEW t \in Swaps \ {s}, SameAsset(s, t), Busy(t)
        PROVE  s \in clashed' /\ t \in clashed'
    BY <1>1, <2>1 DEF ReadAllowance
  <2>2. \A t, u : SameAsset(t, u) => SameAsset(u, t)
    BY DEF SameAsset
  <2> SUFFICES ASSUME NEW t \in Swaps, NEW u \in Swaps, t # u, SameAsset(t, u),
                      Busy(t)', Busy(u)'
               PROVE  t \in clashed'
    BY <1>a DEF ClashInv
  <2>3. CASE t = s
    BY <1>o, <2>1, <2>3
  <2>4. CASE u = s
    BY <1>o, <2>1, <2>2, <2>4
  <2>5. CASE t # s /\ u # s
    BY <1>o, <1>f, <2>5 DEF ClashInv
  <2> QED BY <2>3, <2>4, <2>5
<1>2. CASE ~ReadAllowance(s)
  <2>1. Busy(s)' => Busy(s)
    <3>1. CASE pc[s] \in {"read", "zero", "approve", "deposit"}
      BY <3>1 DEF Busy, Approving, Depositing
    <3>2. CASE pc[s] \notin {"read", "zero", "approve", "deposit"}
      <4>1. TransferAndSwap(s)
        BY <1>2, <3>2 DEF Call, CompareAllowance, ApproveZero, Approve, Deposit,
           NothingToSignWith, Reject
      <4> QED BY <4>1 DEF TransferAndSwap, Goto, TypeOK, Busy, Approving, Depositing
    <3> QED BY <3>1, <3>2
  <2> QED BY <1>a, <1>o, <1>f, <2>1 DEF ClashInv
<1> QED BY <1>1, <1>2

\* What a call learns, compares and raises stays true while it is alone.
LEMMA CoverCall ==
  ASSUME TypeOK, CoverInv, NEW s \in Swaps, Call(s) PROVE CoverInv'
<1>f. /\ request' = request /\ allowance' = allowance /\ clashed \subseteq clashed'
      /\ \A t \in Swaps \ {s} : pc'[t] = pc[t] /\ current'[t] = current[t]
  BY CallFrame
<1>a. ASSUME NEW t, Alone(t)' PROVE Alone(t)
  BY <1>a, <1>f DEF Alone, IsTron
<1> SUFFICES ASSUME NEW t \in Swaps, Alone(t), ~IsNative(t)
             PROVE
               LET allowed == allowance[<<request[t].asset, Spender(request[t])>>] IN
               /\ pc'[t] = "read" => current'[t] = allowed
               /\ pc'[t] \in Depositing /\ request[t].wallet
                    => allowed >= request[t].amount
               /\ request[t].asset \in UsdtErc20 /\ pc'[t] \in {"approve", "approveWait"}
                    => allowed = 0
  BY <1>f, <1>a DEF CoverInv, IsNative
<1> DEFINE allowed == allowance[<<request[t].asset, Spender(request[t])>>]
<1>c. /\ pc[t] = "read" => current[t] = allowed
      /\ pc[t] \in Depositing /\ request[t].wallet => allowed >= request[t].amount
      /\ request[t].asset \in UsdtErc20 /\ pc[t] \in {"approve", "approveWait"}
           => allowed = 0
  BY DEF CoverInv
<1>1. CASE t # s
  BY <1>1, <1>c, <1>f
<1>2. CASE t = s
  <2>1. CASE TransferAndSwap(s)
    BY <1>2, <2>1 DEF TransferAndSwap, Goto, TypeOK, Depositing
  <2>2. CASE ReadAllowance(s)
    BY <1>2, <2>2 DEF ReadAllowance, Goto, TypeOK, Depositing
  <2>3. CASE CompareAllowance(s)
    BY <1>2, <1>c, <2>3 DEF CompareAllowance, NextStep, Goto, TypeOK, Depositing
  <2>4. CASE ApproveZero(s)
    BY <1>2, <2>4 DEF ApproveZero, Goto, TypeOK, Depositing
  <2>5. CASE Approve(s)
    BY <1>2, <1>c, <2>5 DEF Approve, Goto, TypeOK, Depositing, Alone
  <2>6. CASE Deposit(s)
    BY <1>2, <1>c, <2>6 DEF Deposit, Goto, TypeOK, Depositing
  <2>7. CASE NothingToSignWith(s)
    BY <1>2, <2>7 DEF NothingToSignWith, Goto, TypeOK, Depositing
  <2>8. CASE Reject(s)
    BY <1>2, <2>8 DEF Reject, Goto, TypeOK, Depositing
  <2> QED BY <2>1, <2>2, <2>3, <2>4, <2>5, <2>6, <2>7, <2>8 DEF Call
<1> QED BY <1>1, <1>2

\* No step of a call answers that a deposit was executed.
LEMMA TruthCall ==
  ASSUME TypeOK, TruthInv, NEW s \in Swaps, Call(s) PROVE TruthInv'
<1>f. /\ request' = request /\ outcome' = outcome
      /\ \A t \in Swaps \ {s} : pc'[t] = pc[t]
  BY CallFrame
<1>w. pc[s] \in {"start", "query", "read", "zero", "approve", "deposit"}
  BY CallWaits
<1>t. \A t : IsTron(t)' <=> IsTron(t)
  BY <1>f DEF IsTron
<1>d. ~IsTron(s) /\ request[s].wallet => pc'[s] # "done"
  <2>1. CASE TransferAndSwap(s)
    BY <2>1 DEF TransferAndSwap, Goto, TypeOK
  <2>2. CASE ReadAllowance(s)
    BY <2>2 DEF ReadAllowance, Goto, TypeOK
  <2>3. CASE CompareAllowance(s)
    BY <2>3 DEF CompareAllowance, NextStep, Goto, TypeOK
  <2>4. CASE ApproveZero(s) \/ Approve(s) \/ Deposit(s)
    BY <2>4 DEF ApproveZero, Approve, Deposit, Goto, TypeOK
  <2>5. CASE NothingToSignWith(s)
    BY <2>5 DEF NothingToSignWith
  <2>6. CASE Reject(s)
    BY <2>6 DEF Reject, Goto, TypeOK
  <2> QED BY <2>1, <2>2, <2>3, <2>4, <2>5, <2>6 DEF Call
<1>n. ~IsTron(s) => outcome[s] # "ok"
  BY <1>w DEF TruthInv
<1> QED BY <1>f, <1>t, <1>d, <1>n DEF TruthInv

-----------------------------------------------------------------------------
\* A transaction that is included touches its call and its own allowance.
LEMMA IncludeFrame ==
  ASSUME TypeOK, NEW tx \in pending, Include(tx)
  PROVE  /\ request' = request /\ current' = current /\ clashed' = clashed
         /\ pending' = pending \ {tx}
         /\ \A t \in Swaps \ {tx.swap} : pc'[t] = pc[t] /\ outcome'[t] = outcome[t]
         /\ \A k \in (Assets \X Spenders) \ {Key(tx)} : allowance'[k] = allowance[k]
<1>1. \A t \in Swaps \ {tx.swap} : pc'[t] = pc[t] /\ outcome'[t] = outcome[t]
  BY DEF TypeOK, Include, IncludeApprove, IncludeDeposit, Revert, Resume
<1>2. \A k \in (Assets \X Spenders) \ {Key(tx)} : allowance'[k] = allowance[k]
  BY DEF TypeOK, Include, IncludeApprove, IncludeDeposit, Revert
<1> QED BY <1>1, <1>2 DEF Include

\* The transactions of other calls are what those calls still wait for.
LEMMA PendInclude ==
  ASSUME TypeOK, PendInv, NEW tx \in pending, Include(tx) PROVE PendInv'
<1>f. /\ request' = request /\ pending' = pending \ {tx}
      /\ \A t \in Swaps \ {tx.swap} : pc'[t] = pc[t]
  BY IncludeFrame
<1>t. \A t : IsTron(t)' <=> IsTron(t)
  BY <1>f DEF IsTron
<1>o. ASSUME NEW other \in pending', ~IsTron(other.swap)
      PROVE  other.swap \in Swaps /\ other.swap # tx.swap
  BY <1>f, <1>o, KeyTypes DEF PendInv
<1> QED BY <1>f, <1>t, <1>o DEF PendInv

\* Nobody becomes busy when a transaction is included.
LEMMA ClashInclude ==
  ASSUME TypeOK, ClashInv, NEW tx \in pending, Include(tx) PROVE ClashInv'
<1>f. /\ request' = request /\ pending' = pending \ {tx} /\ clashed' = clashed
      /\ \A t \in Swaps \ {tx.swap} : pc'[t] = pc[t]
  BY IncludeFrame
<1>1. Busy(tx.swap)
  BY DEF Busy
<1>2. \A t \in Swaps : Busy(t)' => Busy(t)
  BY <1>1, <1>f DEF Busy
<1>3. \A t, u : SameAsset(t, u)' <=> SameAsset(t, u)
  BY <1>f DEF SameAsset
<1> QED BY <1>f, <1>2, <1>3 DEF ClashInv

\* Where an inclusion takes its call: past the approval, with the allowance
\* just set, or to an end.
LEMMA IncludeOwn ==
  ASSUME TypeOK, PendInv, NEW tx \in pending, Include(tx), ~IsTron(tx.swap)
  PROVE  \/ /\ pc[tx.swap] = "zeroWait" /\ pc'[tx.swap] = "approve"
            /\ allowance'[Key(tx)] = 0
            /\ tx.kind = "approve"
         \/ /\ pc[tx.swap] = "approveWait" /\ pc'[tx.swap] = "deposit"
            /\ allowance'[Key(tx)] = request[tx.swap].amount
            /\ tx.kind = "approve"
         \/ pc'[tx.swap] = "done" /\ outcome'[tx.swap] = "ok"
         \/ /\ pc'[tx.swap] = "thrown"
            /\ outcome'[tx.swap] \in {"reverted", outcome[tx.swap]}
<1>k. tx.swap \in Swaps /\ Key(tx) \in Assets \X Spenders
  BY KeyTypes
<1>1. CASE IncludeApprove(tx)
  <2>1. allowance'[Key(tx)] = tx.amount
    BY <1>1, <1>k DEF IncludeApprove, TypeOK
  <2>2. pc'[tx.swap] = IF pc[tx.swap] = "zeroWait" THEN "approve" ELSE "deposit"
    BY <1>1, <1>k DEF IncludeApprove, Resume, TypeOK
  <2>3. \/ pc[tx.swap] = "zeroWait" /\ tx.amount = 0
        \/ pc[tx.swap] = "approveWait" /\ tx.amount = request[tx.swap].amount
    BY <1>1 DEF IncludeApprove, PendInv
  <2> QED BY <1>1, <2>1, <2>2, <2>3 DEF IncludeApprove
<1>2. CASE IncludeDeposit(tx)
  BY <1>2, <1>k DEF IncludeDeposit, Resume, TypeOK
<1>3. CASE Revert(tx)
  BY <1>3, <1>k DEF Revert, Resume, TypeOK
<1> QED BY <1>1, <1>2, <1>3 DEF Include

\* A transaction of another call that touches this call's allowance is the
\* clash that Alone excludes.
LEMMA CoverInclude ==
  ASSUME IInv, NEW tx \in pending, Include(tx) PROVE CoverInv'
<1> USE DEF IInv
<1>f. /\ request' = request /\ clashed' = clashed /\ current' = current
      /\ \A t \in Swaps \ {tx.swap} : pc'[t] = pc[t]
      /\ \A k \in (Assets \X Spenders) \ {Key(tx)} : allowance'[k] = allowance[k]
  BY IncludeFrame
<1> SUFFICES ASSUME NEW t \in Swaps, Alone(t), ~IsNative(t)
             PROVE
               LET allowed == allowance'[<<request[t].asset, Spender(request[t])>>] IN
               /\ pc'[t] = "read" => current[t] = allowed
               /\ pc'[t] \in Depositing /\ request[t].wallet
                    => allowed >= request[t].amount
               /\ request[t].asset \in UsdtErc20 /\ pc'[t] \in {"approve", "approveWait"}
                    => allowed = 0
  BY <1>f DEF CoverInv, IsNative, Alone, IsTron
<1> DEFINE key == <<request[t].asset, Spender(request[t])>>
<1>c. /\ pc[t] = "read" => current[t] = allowance[key]
      /\ pc[t] \in Depositing /\ request[t].wallet => allowance[key] >= request[t].amount
      /\ request[t].asset \in UsdtErc20 /\ pc[t] \in {"approve", "approveWait"}
           => allowance[key] = 0
  BY DEF CoverInv
<1>k. key \in Assets \X Spenders /\ key[1] = request[t].asset /\ request[t].amount \in Nat
  BY RequestTypes
<1>1. CASE t # tx.swap
  <2>1. CASE Busy(t) /\ SameAsset(t, tx.swap)
    <3>1. Busy(tx.swap) /\ tx.swap \in Swaps
      BY KeyTypes DEF Busy
    <3>2. t \in clashed
      BY <1>1, <2>1, <3>1 DEF ClashInv
    <3> QED BY <3>2 DEF Alone
  <2>2. CASE ~Busy(t)
    BY <1>1, <1>f, <2>2 DEF Busy, Approving, Depositing
  <2>3. CASE ~SameAsset(t, tx.swap)
    <3>1. key # Key(tx)
      BY <2>3, <1>k, KeyTypes DEF SameAsset
    <3>2. allowance'[key] = allowance[key]
      BY <3>1, <1>k, <1>f
    <3> QED BY <1>1, <1>c, <1>f, <3>2
  <2> QED BY <2>1, <2>2, <2>3
<1>2. CASE t = tx.swap
  <2>1. ~IsTron(tx.swap)
    BY <1>2 DEF Alone
  <2>2. tx.kind = "approve" => Key(tx) = key
    BY <1>2 DEF Key
  <2>3. \/ pc'[t] = "approve" /\ allowance'[key] = 0
        \/ pc'[t] = "deposit" /\ allowance'[key] = request[t].amount
        \/ pc'[t] \in {"done", "thrown"}
    BY <1>2, <2>1, <2>2, IncludeOwn
  <2> QED BY <2>3, <1>k DEF Depositing
<1> QED BY <1>1, <1>2

\* A call ends well exactly when its deposit is executed.
LEMMA TruthInclude ==
  ASSUME TypeOK, PendInv, TruthInv, NEW tx \in pending, Include(tx) PROVE TruthInv'
<1>f. /\ request' = request
      /\ \A t \in Swaps \ {tx.swap} : pc'[t] = pc[t] /\ outcome'[t] = outcome[t]
  BY IncludeFrame
<1>t. \A t : IsTron(t)' <=> IsTron(t)
  BY <1>f DEF IsTron
<1>k. tx.swap \in Swaps
  BY KeyTypes
<1>1. ASSUME ~IsTron(tx.swap) PROVE outcome[tx.swap] # "ok"
  <2>1. pc[tx.swap] # "done"
    BY <1>1 DEF PendInv, TypeOK, Tx
  <2> QED BY <1>1, <1>k, <2>1 DEF TruthInv
<1>2. ASSUME ~IsTron(tx.swap)
      PROVE  /\ outcome'[tx.swap] = "ok" => pc'[tx.swap] = "done"
             /\ pc'[tx.swap] = "done" => outcome'[tx.swap] = "ok"
  <2>1. CASE IncludeApprove(tx)
    <3>1. outcome' = outcome /\ pc'[tx.swap] \in {"approve", "deposit"}
      BY <1>2, <1>k, <2>1 DEF IncludeApprove, Resume, TypeOK
    <3> QED BY <3>1, <1>1, <1>2
  <2>2. CASE ~IncludeApprove(tx)
    <3>1. IncludeDeposit(tx) \/ Revert(tx)
      BY <2>2 DEF Include
    <3>2. CASE IncludeDeposit(tx)
      BY <1>2, <1>k, <3>2 DEF IncludeDeposit, Resume, TypeOK
    <3>3. CASE Revert(tx)
      <4>1. pc'[tx.swap] = "thrown" /\ outcome'[tx.swap] \in {"reverted", outcome[tx.swap]}
        BY <1>2, <1>k, <3>3 DEF Revert, Resume, TypeOK
      <4> QED BY <4>1, <1>1, <1>2
    <3> QED BY <3>1, <3>2, <3>3
  <2> QED BY <2>1, <2>2
<1> QED BY <1>f, <1>t, <1>2 DEF TruthInv

-----------------------------------------------------------------------------
\* The strengthening holds at the start.
LEMMA IInvInit == Init => IInv
<1> SUFFICES ASSUME Init PROVE IInv
  OBVIOUS
<1>1. TypeOK
  BY TypeInit
<1>2. PendInv /\ TruthInv
  BY DEF Init, PendInv, TruthInv
<1>3. ClashInv
  BY DEF Init, ClashInv, Busy, Approving, Depositing
<1>4. CoverInv
  BY DEF Init, CoverInv, Depositing
<1> QED BY <1>1, <1>2, <1>3, <1>4 DEF IInv

\* Every step keeps the strengthening.
LEMMA IInvStep == IInv /\ [Next]_vars => IInv'
<1> SUFFICES ASSUME IInv, [Next]_vars PROVE IInv'
  OBVIOUS
<1>0. TypeOK'
  BY TypeStep DEF IInv
<1>1. CASE \E s \in Swaps : Call(s)
  <2>1. PICK s \in Swaps : Call(s)
    BY <1>1
  <2> QED BY <1>0, <2>1, PendCall, ClashCall, CoverCall, TruthCall DEF IInv
<1>2. CASE \E tx \in pending : Include(tx)
  <2>1. PICK tx \in pending : Include(tx)
    BY <1>2
  <2> QED BY <1>0, <2>1, PendInclude, ClashInclude, CoverInclude, TruthInclude DEF IInv
<1>3. CASE Tick \/ UNCHANGED vars
  <2>1. UNCHANGED <<request, pc, current, allowance, pending, outcome, clashed>>
    BY <1>3 DEF Tick, vars
  <2>2. PendInv' /\ TruthInv'
    BY <2>1 DEF IInv, PendInv, TruthInv, IsTron
  <2>3. ClashInv'
    BY <2>1 DEF IInv, ClashInv, Busy, SameAsset
  <2>4. CoverInv'
    BY <2>1 DEF IInv, CoverInv, Alone, IsTron, IsNative
  <2> QED BY <1>0, <2>2, <2>3, <2>4 DEF IInv
<1> QED BY <1>1, <1>2, <1>3 DEF Next

\* The strengthening is an invariant.
LEMMA IInvariant == Spec => []IInv
<1>1. Init => IInv
  BY IInvInit
<1>2. IInv /\ [Next]_vars => IInv'
  BY IInvStep
<1> QED BY <1>1, <1>2, PTL DEF Spec

\* Every variable has its type, for any number of overlapping calls
\* (transferAndSwap, checkOrIncreaseAllowance, evmSwap, transferToGravity).
THEOREM Types == Spec => []TypeOK
<1>1. IInv => TypeOK
  BY DEF IInv
<1> QED BY <1>1, IInvariant, PTL

\* checkOrIncreaseAllowance leaves an allowance that covers the deposit which
\* follows it, unless another call of the same asset overlaps.
THEOREM DepositsAreCovered == Spec => []DepositCovered
<1>1. IInv => DepositCovered
  <2> SUFFICES ASSUME IInv, NEW tx \in pending, tx.kind = "deposit", Alone(tx.swap),
                      ~IsNative(tx.swap), Matched(tx.swap)
               PROVE  allowance[Key(tx)] >= tx.amount
    BY DEF DepositCovered
  <2>1. tx.swap \in Swaps
    BY KeyTypes DEF IInv
  <2>2. /\ pc[tx.swap] = "depositWait" /\ request[tx.swap].wallet
        /\ tx.amount = request[tx.swap].amount
    BY DEF IInv, PendInv, Alone
  <2>3. Key(tx) = <<request[tx.swap].asset, Spender(request[tx.swap])>>
    BY DEF Key, Matched
  <2> QED BY <2>1, <2>2, <2>3 DEF IInv, CoverInv, Depositing
<1> QED BY <1>1, IInvariant, PTL

\* The approval of zero that checkOrIncreaseAllowance waits for keeps USDT
\* from refusing the next one, unless another call of the same asset overlaps.
THEOREM UsdtIsNeverRefused == Spec => []UsdtNeverRefuses
<1>1. IInv => UsdtNeverRefuses
  <2> SUFFICES ASSUME IInv, NEW tx \in pending, tx.kind = "approve", Alone(tx.swap),
                      request[tx.swap].asset \in UsdtErc20, tx.amount # 0
               PROVE  allowance[Key(tx)] = 0
    BY DEF UsdtNeverRefuses, Accepted
  <2>1. tx.swap \in Swaps /\ ~IsNative(tx.swap)
    BY KeyTypes, EvmAssumption DEF IInv, IsNative
  <2>2. pc[tx.swap] = "approveWait"
    BY DEF IInv, PendInv, Alone
  <2>3. Key(tx) = <<request[tx.swap].asset, Spender(request[tx.swap])>>
    BY DEF Key
  <2> QED BY <2>1, <2>2, <2>3 DEF IInv, CoverInv
<1> QED BY <1>1, IInvariant, PTL

\* On an EVM chain transferAndSwap resolves if and only if the deposit was
\* executed: result.wait() comes before every step that follows.
THEOREM CallsTellTheTruth == Spec => []TellsTheTruth
<1>1. IInv => TellsTheTruth
  BY DEF IInv, TruthInv, TellsTheTruth
<1> QED BY <1>1, IInvariant, PTL

-----------------------------------------------------------------------------
(***************************************************************************)
(* Totals over the calls.  Backed(t, b) says that the numbers t of the     *)
(* calls add up to b or more: some of the calls, put in an order, have     *)
(* running totals p that end at b or above, and no other call has a        *)
(* negative number.                                                        *)
(***************************************************************************)
RunsTo(t, b, n, e, p) ==
  /\ e \in [1 .. n -> Swaps] /\ p \in [0 .. n -> Int]
  /\ \A j, k \in 1 .. n : e[j] = e[k] => j = k
  /\ p[0] = 0 /\ b <= p[n]
  /\ \A j \in 1 .. n : p[j] <= p[j - 1] + t[e[j]]
  /\ \A s \in Swaps : (\A j \in 1 .. n : e[j] # s) => t[s] >= 0

Backed(t, b) == \E n \in Nat : \E e, p : RunsTo(t, b, n, e, p)

\* A set of numbers has a smallest one.
LEMMA Smallest ==
  ASSUME NEW T \in SUBSET Nat, T # {}
  PROVE  \E x \in T : \A y \in T : x <= y
<1> DEFINE R == OpToRel(<, Nat)
<1>1. \A x, y \in Nat : y < x => <<y, x>> \in R
  BY DEF OpToRel
<1>2. IsWellFoundedOn(R, Nat)
  BY NatLessThanWellFounded
<1> HIDE DEF R
<1>3. PICK x \in T : \A y \in T : ~(<<y, x>> \in R)
  BY <1>2, WFMin
<1>4. \A y \in T : ~(y < x)
  BY <1>1, <1>3
<1> QED BY <1>4

\* Nothing backs nothing.
LEMMA BackedNothing ==
  ASSUME NEW t \in [Swaps -> Int], \A s \in Swaps : t[s] >= 0 PROVE Backed(t, 0)
<1> DEFINE e == [j \in 1 .. 0 |-> 0]
           p == [j \in 0 .. 0 |-> 0]
<1>1. RunsTo(t, 0, 0, e, p)
  BY DEF RunsTo
<1> QED BY <1>1 DEF Backed

\* Larger numbers back what is smaller.
LEMMA BackedMore ==
  ASSUME NEW t \in [Swaps -> Int], NEW u \in [Swaps -> Int], NEW b \in Int, NEW c \in Int,
         Backed(t, b), c <= b, \A s \in Swaps : t[s] <= u[s]
  PROVE  Backed(u, c)
<1>1. PICK n \in Nat : \E e, p : RunsTo(t, b, n, e, p)
  BY DEF Backed
<1>2. PICK e, p : RunsTo(t, b, n, e, p)
  BY <1>1
<1>3. \A j \in 1 .. n : p[j] <= p[j - 1] + u[e[j]]
  <2> SUFFICES ASSUME NEW j \in 1 .. n PROVE p[j] <= p[j - 1] + u[e[j]]
    OBVIOUS
  <2>1. /\ p[j] \in Int /\ p[j - 1] \in Int /\ e[j] \in Swaps
        /\ p[j] <= p[j - 1] + t[e[j]]
    BY <1>2 DEF RunsTo
  <2> QED BY <2>1
<1>4. \A s \in Swaps : (\A j \in 1 .. n : e[j] # s) => u[s] >= 0
  BY <1>2 DEF RunsTo
<1>5. c <= p[n]
  BY <1>2 DEF RunsTo
<1>6. RunsTo(u, c, n, e, p)
  BY <1>2, <1>3, <1>4, <1>5 DEF RunsTo
<1> QED BY <1>6 DEF Backed

\* Any call can be one of those in the order.
LEMMA BackedListed ==
  ASSUME NEW t \in [Swaps -> Int], NEW b \in Int, Backed(t, b), NEW s \in Swaps
  PROVE  \E n \in Nat : \E e, p : RunsTo(t, b, n, e, p) /\ \E j \in 1 .. n : e[j] = s
<1>1. PICK n \in Nat : \E e, p : RunsTo(t, b, n, e, p)
  BY DEF Backed
<1>2. PICK e, p : RunsTo(t, b, n, e, p)
  BY <1>1
<1>3. CASE \E j \in 1 .. n : e[j] = s
  BY <1>2, <1>3
<1>4. CASE \A j \in 1 .. n : e[j] # s
  <2> DEFINE f == [j \in 1 .. n + 1 |-> IF j = n + 1 THEN s ELSE e[j]]
             q == [j \in 0 .. n + 1 |-> IF j = n + 1 THEN p[n] ELSE p[j]]
  <2>1. /\ f \in [1 .. n + 1 -> Swaps] /\ q \in [0 .. n + 1 -> Int]
        /\ f[n + 1] = s /\ \A j \in 1 .. n : f[j] = e[j] /\ j # n + 1
        /\ q[n + 1] = p[n] /\ \A j \in 0 .. n : q[j] = p[j]
        /\ \A j \in 1 .. n + 1 : j = n + 1 \/ j \in 1 .. n
        /\ n + 1 \in Nat /\ n + 1 \in 1 .. n + 1
    BY <1>2 DEF RunsTo
  <2> HIDE DEF f, q
  <2>2. \A j, k \in 1 .. n + 1 : f[j] = f[k] => j = k
    BY <1>2, <1>4, <2>1 DEF RunsTo
  <2>3. t[s] >= 0
    BY <1>2, <1>4 DEF RunsTo
  <2>4. \A j \in 1 .. n + 1 : q[j] <= q[j - 1] + t[f[j]]
    <3> SUFFICES ASSUME NEW j \in 1 .. n + 1 PROVE q[j] <= q[j - 1] + t[f[j]]
      OBVIOUS
    <3>1. CASE j = n + 1
      <4>1. q[j] = p[n] /\ q[j - 1] = p[n] /\ f[j] = s /\ p[n] \in Int
        BY <1>2, <2>1, <3>1 DEF RunsTo
      <4> QED BY <2>3, <4>1
    <3>2. CASE j \in 1 .. n
      <4>1. q[j] = p[j] /\ q[j - 1] = p[j - 1] /\ f[j] = e[j]
        BY <2>1, <3>2
      <4> QED BY <1>2, <3>2, <4>1 DEF RunsTo
    <3> QED BY <2>1, <3>1, <3>2
  <2>5. ASSUME NEW r \in Swaps, \A j \in 1 .. n + 1 : f[j] # r PROVE t[r] >= 0
    <3>1. \A j \in 1 .. n : e[j] # r
      <4> SUFFICES ASSUME NEW j \in 1 .. n PROVE e[j] # r
        OBVIOUS
      <4>1. j \in 1 .. n + 1 /\ f[j] = e[j]
        BY <2>1
      <4> QED BY <2>5, <4>1
    <3> QED BY <1>2, <3>1 DEF RunsTo
  <2>6. q[0] = 0 /\ b <= q[n + 1]
    BY <1>2, <2>1 DEF RunsTo
  <2>7. RunsTo(t, b, n + 1, f, q)
    BY <2>1, <2>2, <2>4, <2>5, <2>6 DEF RunsTo
  <2> QED BY <2>1, <2>7
<1> QED BY <1>3, <1>4

\* A call whose number changes by d changes what is backed by d.
LEMMA BackedChange ==
  ASSUME NEW t \in [Swaps -> Int], NEW u \in [Swaps -> Int], NEW b \in Int, NEW d \in Int,
         Backed(t, b), NEW s \in Swaps, t[s] + d <= u[s],
         \A r \in Swaps \ {s} : t[r] <= u[r]
  PROVE  Backed(u, b + d)
<1>1. PICK n \in Nat : \E e, p : RunsTo(t, b, n, e, p) /\ \E j \in 1 .. n : e[j] = s
  BY BackedListed
<1>2. PICK e, p : RunsTo(t, b, n, e, p) /\ \E j \in 1 .. n : e[j] = s
  BY <1>1
<1>3. PICK i \in 1 .. n : e[i] = s
  BY <1>2
<1> DEFINE q == [j \in 0 .. n |-> IF j < i THEN p[j] ELSE p[j] + d]
<1>4. /\ e \in [1 .. n -> Swaps] /\ \A j \in 0 .. n : p[j] \in Int
      /\ \A j, k \in 1 .. n : e[j] = e[k] => j = k
      /\ \A j \in 1 .. n : p[j] <= p[j - 1] + t[e[j]]
      /\ p[0] = 0 /\ b <= p[n]
  BY <1>2 DEF RunsTo
<1>5. /\ q \in [0 .. n -> Int]
      /\ \A j \in 0 .. n : q[j] = IF j < i THEN p[j] ELSE p[j] + d
  BY <1>4
<1> HIDE DEF q
<1>6. q[0] = 0 /\ b + d <= q[n]
  BY <1>4, <1>5
<1>7. ASSUME NEW j \in 1 .. n PROVE q[j] <= q[j - 1] + u[e[j]]
  <2>1. /\ j \in 0 .. n /\ j - 1 \in 0 .. n /\ e[j] \in Swaps /\ p[j] \in Int
        /\ p[j - 1] \in Int /\ p[j] <= p[j - 1] + t[e[j]]
    BY <1>4
  <2>2. CASE j < i
    <3>1. q[j] = p[j] /\ q[j - 1] = p[j - 1] /\ e[j] # s
      BY <1>3, <1>4, <1>5, <2>1, <2>2
    <3> QED BY <2>1, <3>1
  <2>3. CASE j = i
    <3>1. q[j] = p[j] + d /\ q[j - 1] = p[j - 1] /\ e[j] = s
      BY <1>3, <1>5, <2>1, <2>3
    <3> QED BY <2>1, <3>1
  <2>4. CASE j > i
    <3>1. ~(j < i) /\ ~(j - 1 < i) /\ j # i
      BY <2>4
    <3>2. q[j] = p[j] + d /\ q[j - 1] = p[j - 1] + d
      BY <1>5, <2>1, <3>1
    <3>3. e[j] # s
      BY <1>3, <1>4, <3>1
    <3> QED BY <2>1, <3>2, <3>3
  <2> QED BY <2>2, <2>3, <2>4
<1>8. \A r \in Swaps : (\A j \in 1 .. n : e[j] # r) => u[r] >= 0
  <2> SUFFICES ASSUME NEW r \in Swaps, \A j \in 1 .. n : e[j] # r PROVE u[r] >= 0
    OBVIOUS
  <2>1. t[r] >= 0
    BY <1>2 DEF RunsTo
  <2>2. r # s
    BY <1>3
  <2> QED BY <2>1, <2>2
<1>9. RunsTo(u, b + d, n, e, q)
  BY <1>4, <1>5, <1>6, <1>7, <1>8 DEF RunsTo
<1> QED BY <1>9 DEF Backed

\* Where no number is positive, nothing positive is backed.
LEMMA BackedByNone ==
  ASSUME NEW t \in [Swaps -> Int], NEW b \in Int, Backed(t, b), \A s \in Swaps : t[s] <= 0
  PROVE  b <= 0
<1>1. PICK n \in Nat : \E e, p : RunsTo(t, b, n, e, p)
  BY DEF Backed
<1>2. PICK e, p : RunsTo(t, b, n, e, p)
  BY <1>1
<1> DEFINE T == {j \in 0 .. n : p[j] > 0}
<1>3. T = {}
  <2> SUFFICES ASSUME T # {} PROVE FALSE
    OBVIOUS
  <2>0. T \in SUBSET Nat
    OBVIOUS
  <2>1. PICK j \in T : \A k \in T : j <= k
    <3> HIDE DEF T
    <3> QED BY <2>0, Smallest
  <2>2. j \in 0 .. n /\ p[j] > 0 /\ p[0] = 0 /\ p \in [0 .. n -> Int]
    BY <1>2 DEF RunsTo
  <2>3. j \in 1 .. n /\ j - 1 \in 0 .. n /\ ~(j <= j - 1)
    BY <2>2
  <2>4. ~(p[j - 1] > 0)
    BY <2>1, <2>3
  <2>5. p[j] <= p[j - 1] + t[e[j]] /\ e[j] \in Swaps
    BY <1>2, <2>3 DEF RunsTo
  <2>6. t[e[j]] <= 0 /\ t[e[j]] \in Int /\ p[j - 1] \in Int /\ p[j] \in Int
    BY <2>2, <2>3, <2>5
  <2> QED BY <2>2, <2>4, <2>5, <2>6
<1>4. p[n] \in Int /\ ~(p[n] > 0) /\ b <= p[n]
  <2>1. n \in 0 .. n
    OBVIOUS
  <2> QED BY <1>2, <1>3, <2>1 DEF RunsTo
<1> QED BY <1>4

-----------------------------------------------------------------------------
(***************************************************************************)
(* What is raised is what is spent.  A call whose approval is through owes *)
(* a deposit of the same amount until that is executed; a deposit on Tron  *)
(* may come before the approval that was meant for it.  An allowance that  *)
(* is above what it was at the start is owed by the calls together.        *)
(***************************************************************************)

\* An approval, but not the one of zero that USDT needs first.
Raises(tx) == tx.kind = "approve" /\ tx.amount # 0

\* A call has at most one such approval and one deposit on the way, when its
\* steps say so, and none once the deposit is executed.
StageInv ==
  /\ \A tx \in pending :
       /\ Raises(tx) =>
            /\ tx.amount = request[tx.swap].amount
            /\ ~IsNative(tx.swap)
            /\ IF IsTron(tx.swap) THEN pc[tx.swap] \in {"deposit", "done", "thrown"}
               ELSE pc[tx.swap] = "approveWait"
       /\ tx.kind = "deposit" =>
            /\ tx.amount = request[tx.swap].amount
            /\ pc[tx.swap] = IF IsTron(tx.swap) THEN "done" ELSE "depositWait"
            /\ outcome[tx.swap] # "ok"
       /\ \A other \in pending :
            /\ other.swap = tx.swap
            /\ \/ tx.kind = "deposit" /\ other.kind = "deposit"
               \/ Raises(tx) /\ Raises(other)
            => other = tx
  /\ \A s \in Swaps :
       /\ outcome[s] = "ok" => pc[s] = "done"
       /\ IsNative(s) => pc[s] \notin {"read"} \cup Approving

PastApproval == {"deposit", "depositWait", "done", "thrown"}

Raised(s) ==
  pc[s] \in PastApproval /\ ~ \E tx \in pending : tx.swap = s /\ Raises(tx)

Owed(s, k) ==
  IF ~IsNative(s) /\ k = <<request[s].asset, Spender(request[s])>>
  THEN (IF Raised(s) THEN request[s].amount ELSE 0)
         - (IF outcome[s] = "ok" THEN request[s].amount ELSE 0)
  ELSE 0

OwedBy(k) == [s \in Swaps |-> Owed(s, k)]

LedgerInv ==
  (\A s \in Swaps : Matched(s)) =>
    \A k \in Assets \X Spenders : Backed(OwedBy(k), allowance[k] - initial[k])

LInv == IInv /\ StageInv /\ LedgerInv

\* What a call sends, and when.
Sent(s, new) ==
  /\ new.swap = s
  /\ Raises(new) => pc[s] = "approve" /\ new.amount = request[s].amount
                      /\ pc'[s] = IF IsTron(s) THEN "deposit" ELSE "approveWait"
  /\ new.kind = "deposit" => pc[s] = "deposit" /\ new.amount = request[s].amount
                               /\ pc'[s] = IF IsTron(s) THEN "done" ELSE "depositWait"

LEMMA CallSends ==
  ASSUME TypeOK, NEW s \in Swaps, Call(s)
  PROVE  pending' = pending \/ \E new : pending' = pending \cup {new} /\ Sent(s, new)
<1> DEFINE tx(kind, amount) == [swap |-> s, kind |-> kind, amount |-> amount,
                                nonce |-> nonce, signed |-> now]
<1>1. CASE ApproveZero(s)
  <2>1. Sent(s, tx("approve", 0))
    BY <1>1 DEF Sent, Raises
  <2> QED BY <1>1, <2>1 DEF ApproveZero, Submit
<1>2. CASE Approve(s)
  <2>1. Sent(s, tx("approve", request[s].amount))
    BY <1>2 DEF Approve, Goto, TypeOK, Sent, Raises
  <2> QED BY <1>2, <2>1 DEF Approve, Submit
<1>3. CASE Deposit(s)
  <2>1. Sent(s, tx("deposit", request[s].amount))
    BY <1>3 DEF Deposit, Goto, TypeOK, Sent, Raises
  <2> QED BY <1>3, <2>1 DEF Deposit, Submit
<1> QED
  BY <1>1, <1>2, <1>3 DEF Call, TransferAndSwap, ReadAllowance, CompareAllowance,
     NothingToSignWith, Reject

\* A call past its approval does not go back; one for a coin needs none.
LEMMA CallStages ==
  ASSUME TypeOK, NEW s \in Swaps, Call(s)
  PROVE  /\ pc[s] = "deposit" => pc'[s] \in {"depositWait", "done", "thrown"}
         /\ pc[s] = "deposit" /\ IsTron(s) => pc'[s] \in {"done", "thrown"}
         /\ IsNative(s) /\ pc[s] \notin {"read"} \cup Approving
              => pc'[s] \notin {"read"} \cup Approving
<1>1. CASE TransferAndSwap(s)
  BY <1>1 DEF TransferAndSwap, Goto, TypeOK, Approving
<1>2. CASE ReadAllowance(s)
  BY <1>2 DEF ReadAllowance, Goto, TypeOK, Approving
<1>3. CASE CompareAllowance(s)
  BY <1>3 DEF CompareAllowance
<1>4. CASE ApproveZero(s) \/ Approve(s)
  BY <1>4 DEF ApproveZero, Approve, Approving
<1>5. CASE Deposit(s) \/ NothingToSignWith(s) \/ Reject(s)
  BY <1>5 DEF Deposit, NothingToSignWith, Reject, Goto, TypeOK, Approving
<1> QED BY <1>1, <1>2, <1>3, <1>4, <1>5 DEF Call

\* What a call has on the way when it takes a step.
LEMMA CallOwn ==
  ASSUME TypeOK, StageInv, NEW s \in Swaps, Call(s)
  PROVE  /\ outcome[s] # "ok"
         /\ \A tx \in pending : tx.swap = s =>
              tx.kind # "deposit" /\ (Raises(tx) => IsTron(s) /\ pc[s] = "deposit")
         /\ pc[s] \in PastApproval => pc[s] = "deposit"
<1>1. pc[s] \in {"start", "query", "read", "zero", "approve", "deposit"}
  BY CallWaits
<1> QED BY <1>1 DEF StageInv, PastApproval

\* A step of a call keeps what it has on the way in line with its steps.
LEMMA StageCall ==
  ASSUME TypeOK, StageInv, NEW s \in Swaps, Call(s) PROVE StageInv'
<1>f. /\ request' = request /\ outcome' = outcome
      /\ \A t \in Swaps \ {s} : pc'[t] = pc[t]
  BY CallFrame
<1>t. \A t : (IsTron(t)' <=> IsTron(t)) /\ (IsNative(t)' <=> IsNative(t))
  BY <1>f DEF IsTron, IsNative
<1>r. \A tx : Raises(tx)' <=> Raises(tx)
  BY DEF Raises
<1>k. \A tx \in pending : tx.swap \in Swaps
  BY KeyTypes
<1>w. outcome[s] # "ok"
  BY CallOwn
<1>n. IsNative(s) => pc'[s] \notin {"read"} \cup Approving
  BY CallStages DEF StageInv
<1>s. \A t \in Swaps : /\ outcome'[t] = "ok" => pc'[t] = "done"
                       /\ IsNative(t) => pc'[t] \notin {"read"} \cup Approving
  BY <1>f, <1>w, <1>n DEF StageInv
<1>o. ASSUME NEW tx \in pending
      PROVE  /\ Raises(tx) =>
                  /\ tx.amount = request[tx.swap].amount
                  /\ ~IsNative(tx.swap)
                  /\ IF IsTron(tx.swap) THEN pc'[tx.swap] \in {"deposit", "done", "thrown"}
                     ELSE pc'[tx.swap] = "approveWait"
             /\ tx.kind = "deposit" =>
                  /\ tx.amount = request[tx.swap].amount
                  /\ pc'[tx.swap] = IF IsTron(tx.swap) THEN "done" ELSE "depositWait"
                  /\ outcome[tx.swap] # "ok"
  <2>1. CASE tx.swap # s
    <3>1. pc'[tx.swap] = pc[tx.swap]
      BY <1>f, <1>k, <2>1
    <3> QED BY <3>1 DEF StageInv
  <2>2. CASE tx.swap = s
    <3>1. tx.kind # "deposit" /\ (Raises(tx) => IsTron(s) /\ pc[s] = "deposit")
      BY <2>2, CallOwn
    <3>2. Raises(tx) => pc'[s] \in {"done", "thrown"}
      BY <3>1, CallStages
    <3> QED BY <2>2, <3>1, <3>2 DEF StageInv
  <2> QED BY <2>1, <2>2
<1>u. \A tx, other \in pending :
        /\ other.swap = tx.swap
        /\ \/ tx.kind = "deposit" /\ other.kind = "deposit"
           \/ Raises(tx) /\ Raises(other)
        => other = tx
  BY DEF StageInv
<1>1. CASE pending' = pending
  BY <1>1, <1>f, <1>t, <1>r, <1>s, <1>o, <1>u DEF StageInv
<1>2. ASSUME NEW new, pending' = pending \cup {new}, Sent(s, new)
      PROVE  StageInv'
  <2>1. ASSUME NEW other \in pending, other.swap = s
        PROVE  /\ other.kind # "deposit"
               /\ ~(Raises(other) /\ Raises(new))
    BY <1>2, <2>1, CallOwn DEF Sent
  <2>2. /\ Raises(new) =>
             /\ new.amount = request[s].amount
             /\ ~IsNative(s)
             /\ IF IsTron(s) THEN pc'[s] \in {"deposit", "done", "thrown"}
                ELSE pc'[s] = "approveWait"
        /\ new.kind = "deposit" =>
             /\ new.amount = request[s].amount
             /\ pc'[s] = IF IsTron(s) THEN "done" ELSE "depositWait"
             /\ outcome[s] # "ok"
        /\ new.swap = s
    BY <1>2, <1>w DEF Sent, StageInv, Approving
  <2>3. \A tx, other \in pending' :
          /\ other.swap = tx.swap
          /\ \/ tx.kind = "deposit" /\ other.kind = "deposit"
             \/ Raises(tx) /\ Raises(other)
          => other = tx
    BY <1>2, <1>u, <2>1, <2>2
  <2> QED BY <1>2, <1>f, <1>t, <1>r, <1>s, <1>o, <2>2, <2>3 DEF StageInv
<1> QED BY CallSends, <1>1, <1>2

\* Where a call is when one of its transactions is included, and where that
\* takes it: further on, and not back behind its approval.
LEMMA IncludeStages ==
  ASSUME TypeOK, PendInv, StageInv, NEW tx \in pending, Include(tx)
  PROVE  /\ IsTron(tx.swap) => pc' = pc
         /\ ~IsTron(tx.swap) => \A other \in pending' : other.swap # tx.swap
         /\ pc[tx.swap] \in PastApproval => pc'[tx.swap] \in PastApproval
         /\ Raises(tx) => pc'[tx.swap] \in PastApproval
         /\ outcome'[tx.swap] = "ok" => pc'[tx.swap] = "done"
         /\ IsNative(tx.swap) => pc'[tx.swap] \notin {"read"} \cup Approving
<1>k. tx.swap \in Swaps
  BY KeyTypes
<1>1. CASE IsTron(tx.swap)
  <2>1. pc' = pc
    BY <1>1 DEF Include, IncludeApprove, IncludeDeposit, Revert, Resume
  <2>2. Raises(tx) => pc[tx.swap] \in PastApproval
    BY <1>1 DEF StageInv, PastApproval
  <2>3. outcome'[tx.swap] = "ok" => outcome[tx.swap] = "ok" \/ tx.kind = "deposit"
    BY <1>k DEF Include, IncludeApprove, IncludeDeposit, Revert, TypeOK
  <2>4. outcome'[tx.swap] = "ok" => pc[tx.swap] = "done"
    BY <1>1, <1>k, <2>3 DEF StageInv
  <2> QED BY <1>1, <1>k, <2>1, <2>2, <2>4 DEF StageInv
<1>2. CASE ~IsTron(tx.swap)
  <2>1. \A other \in pending' : other.swap # tx.swap
    BY <1>2 DEF Include, PendInv
  <2>2. /\ tx.kind = "approve" =>
             \/ pc[tx.swap] = "zeroWait" /\ tx.amount = 0
             \/ pc[tx.swap] = "approveWait" /\ tx.amount = request[tx.swap].amount
        /\ tx.kind = "deposit" => pc[tx.swap] = "depositWait"
        /\ tx.kind \in {"approve", "deposit"}
    BY <1>2 DEF PendInv, TypeOK, Tx
  <2>3. outcome[tx.swap] # "ok"
    BY <1>k, <2>2 DEF StageInv
  <2>4. IsNative(tx.swap) => tx.kind = "deposit"
    BY <1>k, <2>2 DEF StageInv, Approving
  <2>5. CASE IncludeApprove(tx)
    <3>1. /\ pc'[tx.swap] = IF pc[tx.swap] = "zeroWait" THEN "approve" ELSE "deposit"
          /\ outcome' = outcome /\ tx.kind = "approve"
      BY <1>2, <1>k, <2>5 DEF IncludeApprove, Resume, TypeOK
    <3>2. pc[tx.swap] \notin PastApproval
      BY <2>2, <3>1 DEF PastApproval
    <3>3. Raises(tx) => pc'[tx.swap] \in PastApproval
      BY <2>2, <3>1 DEF Raises, PastApproval
    <3> QED BY <1>2, <2>1, <2>3, <2>4, <3>1, <3>2, <3>3
  <2>6. CASE IncludeDeposit(tx)
    <3>1. pc'[tx.swap] = "done" /\ tx.kind = "deposit"
      BY <1>2, <1>k, <2>6 DEF IncludeDeposit, Resume, TypeOK
    <3> QED BY <1>2, <2>1, <3>1 DEF PastApproval, Approving
  <2>7. CASE Revert(tx)
    <3>1. pc'[tx.swap] = "thrown" /\ outcome'[tx.swap] \in {"reverted", outcome[tx.swap]}
      BY <1>2, <1>k, <2>7 DEF Revert, Resume, TypeOK
    <3> QED BY <1>2, <2>1, <2>3, <3>1 DEF PastApproval, Approving
  <2> QED BY <2>5, <2>6, <2>7 DEF Include
<1> QED BY <1>1, <1>2

\* Including a transaction keeps what is on the way in line with the steps.
LEMMA StageInclude ==
  ASSUME TypeOK, PendInv, StageInv, NEW tx \in pending, Include(tx) PROVE StageInv'
<1>f. /\ request' = request /\ pending' = pending \ {tx}
      /\ \A t \in Swaps \ {tx.swap} : pc'[t] = pc[t] /\ outcome'[t] = outcome[t]
  BY IncludeFrame
<1>t. \A t : (IsTron(t)' <=> IsTron(t)) /\ (IsNative(t)' <=> IsNative(t))
  BY <1>f DEF IsTron, IsNative
<1>r. \A x : Raises(x)' <=> Raises(x)
  BY DEF Raises
<1>k. tx.swap \in Swaps /\ \A other \in pending : other.swap \in Swaps
  BY KeyTypes
<1>s. ASSUME NEW t \in Swaps
      PROVE  /\ outcome'[t] = "ok" => pc'[t] = "done"
             /\ IsNative(t) => pc'[t] \notin {"read"} \cup Approving
  BY <1>f, IncludeStages DEF StageInv
<1>o. ASSUME NEW x \in pending'
      PROVE  /\ x \in pending /\ pc'[x.swap] = pc[x.swap]
             /\ x.kind = "deposit" => outcome'[x.swap] # "ok"
  <2>1. CASE x.swap # tx.swap
    BY <1>f, <1>k, <2>1 DEF StageInv
  <2>2. CASE x.swap = tx.swap
    <3>1. IsTron(tx.swap) /\ pc' = pc
      BY <2>2, IncludeStages
    <3>2. x \in pending /\ x # tx
      BY <1>f
    <3>3. x.kind = "deposit" => tx.kind # "deposit" /\ outcome[x.swap] # "ok"
      BY <2>2, <3>2 DEF StageInv
    <3>4. tx.kind # "deposit" => outcome' = outcome \/ outcome'[tx.swap] = outcome[tx.swap]
      BY <1>k DEF Include, IncludeApprove, IncludeDeposit, Revert, TypeOK
    <3> QED BY <2>2, <3>1, <3>2, <3>3, <3>4
  <2> QED BY <2>1, <2>2
<1> QED BY <1>f, <1>t, <1>r, <1>s, <1>o DEF StageInv

\* What the calls owe is a number for each.
LEMMA OwedTypes ==
  ASSUME TypeOK, NEW k PROVE OwedBy(k) \in [Swaps -> Int]
<1>1. ASSUME NEW s \in Swaps PROVE Owed(s, k) \in Int
  BY RequestTypes DEF Owed
<1> QED BY <1>1 DEF OwedBy

\* A call owes no less when it comes further while its deposit is not executed.
LEMMA OwedFurther ==
  ASSUME TypeOK, NEW s \in Swaps, NEW k, request' = request,
         Raised(s) => Raised(s)', outcome'[s] = "ok" => outcome[s] = "ok"
  PROVE  Owed(s, k) <= Owed(s, k)'
<1>1. request[s].amount \in Nat
  BY RequestTypes
<1>2. IsNative(s)' <=> IsNative(s)
  BY DEF IsNative
<1> QED BY <1>1, <1>2 DEF Owed

\* Nobody rewrites the history.
LEMMA InitialFixed == [Next]_vars => initial' = initial
BY DEF Next, vars, Call, TransferAndSwap, ReadAllowance, CompareAllowance, ApproveZero,
       Approve, Deposit, NothingToSignWith, Reject, Submit, Include, Tick

\* Where no allowance changes and no call goes back, what is owed still covers
\* what was raised.
LEMMA LedgerFurther ==
  ASSUME TypeOK, LedgerInv, request' = request, allowance' = allowance,
         initial' = initial, outcome' = outcome,
         \A s \in Swaps : Raised(s) => Raised(s)'
  PROVE  LedgerInv'
<1>m. \A s : Matched(s)' <=> Matched(s)
  BY DEF Matched
<1> SUFFICES ASSUME \A s \in Swaps : Matched(s), NEW k \in Assets \X Spenders
             PROVE  Backed(OwedBy(k)', allowance[k] - initial[k])
  BY <1>m DEF LedgerInv
<1> DEFINE t == OwedBy(k)
           u == OwedBy(k)'
           b == allowance[k] - initial[k]
<1>1. Backed(t, b) /\ b \in Int /\ t \in [Swaps -> Int] /\ b <= b
  BY OwedTypes DEF LedgerInv, TypeOK
<1>2. u = [s \in Swaps |-> Owed(s, k)']
  BY DEF OwedBy
<1>3. ASSUME NEW s \in Swaps PROVE t[s] <= u[s] /\ u[s] \in Int
  <2>1. Owed(s, k) <= Owed(s, k)'
    BY OwedFurther
  <2>2. request'[s].amount \in Nat
    BY RequestTypes
  <2>3. Owed(s, k)' \in Int
    BY <2>2 DEF Owed
  <2> QED BY <1>2, <2>1, <2>3 DEF OwedBy
<1>4. u \in [Swaps -> Int]
  BY <1>2, <1>3
<1> HIDE DEF t, u, b
<1> QED BY <1>1, <1>3, <1>4, BackedMore DEF b, u

\* A step of a call spends nothing and takes nothing back.
LEMMA LedgerCall ==
  ASSUME LInv, TypeOK', NEW s \in Swaps, Call(s) PROVE LedgerInv'
<1>a. TypeOK /\ StageInv /\ initial' = initial
  BY InitialFixed DEF LInv, IInv, Next
<1>f. /\ request' = request /\ allowance' = allowance /\ outcome' = outcome
      /\ \A t \in Swaps \ {s} : pc'[t] = pc[t]
  BY <1>a, CallFrame
<1>1. ASSUME NEW t \in Swaps, Raised(t) PROVE Raised(t)'
  <2>1. CASE t # s
    <3>1. pc'[t] = pc[t]
      BY <1>f, <2>1
    <3>2. \A tx \in pending' : tx.swap = t => tx \in pending
      BY <1>a, <2>1, CallSends DEF Sent
    <3> QED BY <1>1, <3>1, <3>2 DEF Raised, Raises
  <2>2. CASE t = s
    <3>1. pc[s] = "deposit" /\ pc'[s] \in PastApproval
      BY <1>a, <1>1, <2>2, CallOwn, CallStages DEF Raised, PastApproval
    <3>2. \A tx \in pending' : tx.swap = s /\ Raises(tx) => tx \in pending
      BY <1>a, <3>1, CallSends DEF Sent
    <3> QED BY <1>1, <2>2, <3>1, <3>2 DEF Raised, Raises
  <2> QED BY <2>1, <2>2
<1> QED BY <1>a, <1>f, <1>1, LedgerFurther DEF LInv

\* Including a transaction leaves what the other calls owe.
LEMMA OwedOther ==
  ASSUME TypeOK, NEW tx \in pending, Include(tx), NEW s \in Swaps \ {tx.swap}, NEW k
  PROVE  Owed(s, k)' = Owed(s, k)
<1>f. /\ request' = request /\ pending' = pending \ {tx}
      /\ pc'[s] = pc[s] /\ outcome'[s] = outcome[s]
  BY IncludeFrame
<1>1. Raised(s)' <=> Raised(s)
  BY <1>f DEF Raised, Raises
<1>2. IsNative(s)' <=> IsNative(s)
  BY <1>f DEF IsNative
<1> QED BY <1>f, <1>1, <1>2 DEF Owed

\* An approval that is included raises its allowance by no more than the call
\* then owes; a deposit lowers it by what the call no longer owes.
LEMMA LedgerInclude ==
  ASSUME LInv, TypeOK', NEW tx \in pending, Include(tx) PROVE LedgerInv'
<1>a. TypeOK /\ PendInv /\ StageInv /\ LedgerInv /\ initial' = initial
  BY InitialFixed DEF LInv, IInv, Next
<1>f. request' = request /\ pending' = pending \ {tx}
  BY <1>a, IncludeFrame
<1>m. \A s : Matched(s)' <=> Matched(s)
  BY <1>f DEF Matched
<1> SUFFICES ASSUME \A s \in Swaps : Matched(s), NEW k \in Assets \X Spenders
             PROVE  Backed(OwedBy(k)', allowance'[k] - initial[k])
  BY <1>a, <1>m DEF LedgerInv
<1> DEFINE s == tx.swap
           own == <<request[s].asset, Spender(request[s])>>
           a == allowance[k]
           b == allowance'[k]
           c == initial[k]
           t == OwedBy(k)
           u == OwedBy(k)'
<1>t. /\ s \in Swaps /\ a \in Nat /\ b \in Nat /\ c \in Nat
      /\ t \in [Swaps -> Int] /\ u \in [Swaps -> Int]
      /\ Backed(t, a - c) /\ request[s].amount \in Nat \ {0}
  <2>1. s \in Swaps /\ t \in [Swaps -> Int] /\ a \in Nat /\ c \in Nat
    BY <1>a, KeyTypes, OwedTypes DEF TypeOK
  <2>2. OwedBy(k)' = [r \in Swaps |-> Owed(r, k)'] /\ \A r \in Swaps : Owed(r, k)' \in Int
    <3>1. ASSUME NEW r \in Swaps PROVE Owed(r, k)' \in Int
      <4>1. request'[r].amount \in Nat
        BY <1>a, <1>f, RequestTypes
      <4> QED BY <4>1 DEF Owed
    <3> QED BY <3>1 DEF OwedBy
  <2>3. b \in Nat
    BY DEF TypeOK
  <2>4. request[s] \in Request
    BY <1>a, <2>1, EvmAssumption DEF TypeOK
  <2> QED BY <1>a, <2>1, <2>2, <2>3, <2>4, EvmAssumption DEF LedgerInv, Request
<1>o. \A r \in Swaps \ {s} : t[r] = u[r]
  BY <1>a, OwedOther DEF OwedBy
<1>s. t[s] = Owed(s, k) /\ u[s] = Owed(s, k)'
  BY <1>t DEF OwedBy
<1>n. IsNative(s)' <=> IsNative(s)
  BY <1>f DEF IsNative
<1>r. Raised(s) => Raised(s)'
  BY <1>a, <1>f, IncludeStages DEF Raised, Raises
<1>1. ASSUME Owed(s, k) <= Owed(s, k)', b <= a PROVE Backed(u, b - c)
  <2>1. \A r \in Swaps : t[r] <= u[r]
    <3> SUFFICES ASSUME NEW r \in Swaps PROVE t[r] <= u[r]
      OBVIOUS
    <3>1. t[r] \in Int
      BY <1>t
    <3> HIDE DEF t, u
    <3> QED BY <1>1, <1>o, <1>s, <3>1
  <2>2. a - c \in Int /\ b - c \in Int /\ b - c <= a - c
    BY <1>t, <1>1
  <2> HIDE DEF t, u, a, b, c
  <2> QED BY <1>t, <2>1, <2>2, BackedMore
<1>2. ASSUME NEW d \in Int, Owed(s, k)' = Owed(s, k) + d, b <= a + d
      PROVE  Backed(u, b - c)
  <2>1. \A r \in Swaps \ {s} : t[r] <= u[r]
    <3> SUFFICES ASSUME NEW r \in Swaps \ {s} PROVE t[r] <= u[r]
      OBVIOUS
    <3>1. t[r] \in Int
      BY <1>t
    <3> HIDE DEF t, u
    <3> QED BY <1>o, <3>1
  <2>2. t[s] + d <= u[s] /\ u[s] \in Int
    BY <1>2, <1>s, <1>t
  <2>3. a - c \in Int /\ b - c \in Int /\ (a - c) + d \in Int /\ b - c <= (a - c) + d
    BY <1>t, <1>2
  <2>4. \A r \in Swaps : u[r] <= u[r]
    BY <1>t
  <2> HIDE DEF t, u, a, b, c, s
  <2>5. Backed(u, (a - c) + d)
    BY <1>t, <2>1, <2>2, <2>3, BackedChange
  <2> QED BY <1>t, <2>3, <2>4, <2>5, BackedMore
<1>3. CASE IncludeApprove(tx)
  <2>1. /\ tx.kind = "approve" /\ Key(tx) = own /\ outcome' = outcome
        /\ allowance' = [allowance EXCEPT ![own] = tx.amount]
    BY <1>3 DEF IncludeApprove, Key
  <2>2. k # own => b = a
    BY <2>1, <1>a DEF TypeOK
  <2>3. k = own => b = tx.amount
    BY <2>1, <1>a DEF TypeOK
  <2>4. Owed(s, k) <= Owed(s, k)'
    BY <1>a, <1>f, <1>t, <1>r, <2>1, OwedFurther
  <2>5. CASE k # own \/ tx.amount = 0
    <3>1. b <= a
      BY <1>t, <2>2, <2>3, <2>5
    <3> QED BY <1>1, <2>4, <3>1
  <2>6. CASE k = own /\ tx.amount # 0
    <3>1. Raises(tx) /\ tx.amount = request[s].amount /\ ~IsNative(s)
      BY <1>a, <2>1, <2>6 DEF Raises, StageInv
    <3>2. ~Raised(s) /\ Raised(s)'
      <4>1. pc'[s] \in PastApproval
        BY <1>a, <3>1, IncludeStages
      <4>2. \A other \in pending' : other.swap = s => ~Raises(other)
        BY <1>a, <1>f, <3>1 DEF StageInv
      <4> QED BY <1>f, <3>1, <4>1, <4>2 DEF Raised, Raises
    <3>3. Owed(s, k)' = Owed(s, k) + request[s].amount
      BY <1>f, <1>n, <1>t, <2>1, <2>6, <3>1, <3>2 DEF Owed
    <3>4. b <= a + request[s].amount /\ request[s].amount \in Int
      BY <1>t, <2>3, <2>6, <3>1
    <3> QED BY <1>2, <3>3, <3>4
  <2> QED BY <2>5, <2>6
<1>4. CASE IncludeDeposit(tx)
  <2>1. /\ tx.kind = "deposit" /\ Key(tx) = own /\ outcome[s] # "ok" /\ outcome'[s] = "ok"
        /\ tx.amount = request[s].amount
    BY <1>4, <1>a, <1>t DEF IncludeDeposit, Key, Matched, TypeOK, StageInv
  <2>2. CASE IsNative(s) \/ k # own
    <3>1. b <= a
      BY <1>4, <1>a, <1>t, <2>1, <2>2 DEF IncludeDeposit, TypeOK
    <3>2. Owed(s, k)' = 0 /\ Owed(s, k) = 0
      BY <1>f, <1>n, <2>2 DEF Owed
    <3> QED BY <1>1, <3>1, <3>2
  <2>3. CASE ~IsNative(s) /\ k = own
    <3> DEFINE d == 0 - request[s].amount
    <3>1. d \in Int /\ b = a + d
      <4>1. allowance' = [allowance EXCEPT ![own] = @ - tx.amount]
        BY <1>4, <2>1, <2>3 DEF IncludeDeposit
      <4>2. b = a - tx.amount
        BY <4>1, <2>3, <1>a DEF TypeOK
      <4> QED BY <1>t, <2>1, <4>2
    <3>2. Raised(s)' <=> Raised(s)
      <4>1. Raised(s)' => Raised(s)
        BY <1>a, <1>f, <2>1, IncludeStages DEF Raised, Raises, StageInv, PastApproval
      <4> QED BY <1>r, <4>1
    <3>3. Owed(s, k)' = Owed(s, k) + d
      BY <1>f, <1>n, <1>t, <2>1, <2>3, <3>2 DEF Owed
    <3> HIDE DEF d
    <3> QED BY <1>t, <1>2, <3>1, <3>3
  <2> QED BY <2>2, <2>3
<1>5. CASE Revert(tx)
  <2>1. b = a /\ (outcome'[s] = "ok" => outcome[s] = "ok")
    BY <1>5, <1>a, <1>t DEF Revert, TypeOK
  <2>2. Owed(s, k) <= Owed(s, k)' /\ b <= a
    BY <1>a, <1>f, <1>t, <1>r, <2>1, OwedFurther
  <2> QED BY <1>1, <2>2
<1> QED BY <1>3, <1>4, <1>5 DEF Include

\* The ledger is balanced at the start and after every step.
LEMMA LInvInit == Init => LInv
<1> SUFFICES ASSUME Init PROVE LInv
  OBVIOUS
<1>1. IInv /\ TypeOK
  BY IInvInit DEF IInv
<1>2. StageInv
  BY DEF Init, StageInv, Approving
<1>3. LedgerInv
  <2> SUFFICES ASSUME NEW k \in Assets \X Spenders
               PROVE  Backed(OwedBy(k), allowance[k] - initial[k])
    BY DEF LedgerInv
  <2>1. OwedBy(k) \in [Swaps -> Int]
    BY <1>1, OwedTypes
  <2>2. \A s \in Swaps : OwedBy(k)[s] >= 0
    <3> SUFFICES ASSUME NEW s \in Swaps PROVE OwedBy(k)[s] >= 0
      OBVIOUS
    <3>1. Owed(s, k) = 0
      <4>1. ~Raised(s) /\ outcome[s] # "ok"
        BY DEF Init, Raised, PastApproval
      <4> QED BY <4>1 DEF Owed
    <3> QED BY <3>1 DEF OwedBy
  <2>3. allowance[k] - initial[k] = 0
    BY <1>1 DEF Init, TypeOK
  <2> QED BY <2>1, <2>2, <2>3, BackedNothing
<1> QED BY <1>1, <1>2, <1>3 DEF LInv

LEMMA LInvStep == LInv /\ [Next]_vars => LInv'
<1> SUFFICES ASSUME LInv, [Next]_vars PROVE LInv'
  OBVIOUS
<1>0. IInv' /\ TypeOK' /\ TypeOK /\ PendInv /\ StageInv /\ LedgerInv
  BY IInvStep DEF LInv, IInv
<1>1. CASE \E s \in Swaps : Call(s)
  <2>1. PICK s \in Swaps : Call(s)
    BY <1>1
  <2> QED BY <1>0, <2>1, StageCall, LedgerCall DEF LInv
<1>2. CASE \E tx \in pending : Include(tx)
  <2>1. PICK tx \in pending : Include(tx)
    BY <1>2
  <2> QED BY <1>0, <2>1, StageInclude, LedgerInclude DEF LInv
<1>3. CASE Tick \/ UNCHANGED vars
  <2>1. UNCHANGED <<request, pc, allowance, pending, outcome, initial>>
    BY <1>3 DEF Tick, vars
  <2>2. StageInv'
    BY <1>0, <2>1 DEF StageInv, Raises, IsTron, IsNative
  <2>3. \A s \in Swaps : Raised(s) => Raised(s)'
    BY <2>1 DEF Raised, Raises
  <2> QED BY <1>0, <2>1, <2>2, <2>3, LedgerFurther DEF LInv
<1> QED BY <1>1, <1>2, <1>3 DEF Next

\* Calls that all succeed, of whatever amounts and however they overlap, leave no
\* allowance above the one before them: checkOrIncreaseAllowance approves what
\* evmSwap or transferToGravity then spends.  On Tron too, where nobody waits.
THEOREM NothingIsLeftStanding == Spec => []NoStandingAllowance
<1>1. LInv => NoStandingAllowance
  <2> SUFFICES ASSUME LInv, pending = {}, \A s \in Swaps : Matched(s) /\ outcome[s] = "ok",
                      NEW k \in Assets \X Spenders
               PROVE  allowance[k] <= initial[k]
    BY DEF NoStandingAllowance
  <2>1. TypeOK /\ StageInv /\ Backed(OwedBy(k), allowance[k] - initial[k])
    BY DEF LInv, IInv, LedgerInv
  <2>2. ASSUME NEW s \in Swaps PROVE OwedBy(k)[s] <= 0
    <3>1. Raised(s)
      BY <2>1 DEF StageInv, Raised, PastApproval
    <3>2. Owed(s, k) = 0
      BY <2>1, <3>1, RequestTypes DEF Owed
    <3> QED BY <3>2 DEF OwedBy
  <2>3. allowance[k] \in Nat /\ initial[k] \in Nat /\ OwedBy(k) \in [Swaps -> Int]
    BY <2>1, OwedTypes DEF TypeOK
  <2>4. allowance[k] - initial[k] <= 0
    BY <2>1, <2>2, <2>3, BackedByNone
  <2> QED BY <2>3, <2>4
<1>2. Spec => []LInv
  BY LInvInit, LInvStep, PTL DEF Spec
<1> QED BY <1>1, <1>2, PTL
=============================================================================
