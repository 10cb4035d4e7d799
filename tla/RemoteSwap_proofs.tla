------------------------- MODULE RemoteSwap_proofs -------------------------
(***************************************************************************)
(* Proofs about RemoteSwap, for any number of calls, accounts and          *)
(* requests: it does with the calls of ClassicSwap what ClassicSwap does,  *)
(* so that the theorem about those holds here too; the tokens of a call    *)
(* are never lost or doubled, at rest they are what was agreed whatever    *)
(* ORAI costs, and what can expire does so soon.                           *)
(***************************************************************************)
EXTENDS RemoteSwap, ClassicSwap_proofs

\* A call that begins elsewhere is one more way for the step of ClassicSwap, or
\* does nothing to its variables.
LEMMA RemoteStep == [RemoteNext]_<<vars, remoteVars>> => [Next]_vars
<1> SUFFICES ASSUME [RemoteNext]_<<vars, remoteVars>> PROVE [Next]_vars
  OBVIOUS
<1>1. ASSUME NEW s \in Swaps, RemoteCall(s) PROVE [Next]_vars
  <2>1. CASE ProcessRemote(s)
    BY <2>1 DEF ProcessRemote, Next, Call
  <2>2. CASE ~ProcessRemote(s)
    BY <1>1, <2>2 DEF RemoteCall, GetToAddress, BuildTransferToOraichain, SignTransfer,
       DepositOnEvm, GiveUp
  <2> QED BY <2>1, <2>2
<1>2. ASSUME NEW p \in inbound, Arrive(p) \/ Refunded(p) PROVE UNCHANGED vars
  BY <1>2 DEF Arrive, Unswapped, Recovered, Swapped, Refunded, Arrives
<1>3. ASSUME NEW o \in outbound, Onward(o) PROVE UNCHANGED vars
  BY <1>3 DEF Onward
<1> QED BY <1>1, <1>2, <1>3 DEF RemoteNext

\* Whatever begins on another chain, the calls that begin on Oraichain behave as
\* ClassicSwap says (processUniversalSwap dispatches each call to one function).
THEOREM RemoteKeepsClassic == RemoteSpec => Init /\ [][Next]_vars
<1>1. RemoteInit => Init
  BY DEF RemoteInit
<1> QED BY <1>1, RemoteStep, PTL DEF RemoteSpec

\* A transfer pays the sender's own account or the recipient that the request
\* named, also while calls from other chains are under way (getCosmosAddress,
\* signAndBroadcast), if the user picks another account at most once.
THEOREM RemoteTransfersPayTheSender == MaxSwitches <= 1 => (RemoteSpec => []PaidToOwnAccount)
<1> SUFFICES ASSUME MaxSwitches <= 1 PROVE RemoteSpec => []PaidToOwnAccount
  OBVIOUS
<1>1. PayInv /\ [Next]_vars => PayInv'
  BY PayStep
<1>2. PayInv => PaidToOwnAccount
  BY DEF PayInv, Named, PaidToOwnAccount
<1> QED BY PayInit, <1>1, <1>2, RemoteKeepsClassic, PTL

-----------------------------------------------------------------------------
(***************************************************************************)
(* The tokens of a call are in one place.                                  *)
(***************************************************************************)
Sole(S) == \A x, y \in S : x.swap = y.swap => x = y
Apart(S, T) == \A x \in S : \A y \in T : x.swap # y.swap
Apartness(S, T, U) ==
  /\ Sole(S) /\ Sole(T) /\ Sole(U)
  /\ Apart(S, T) /\ Apart(S, U) /\ Apart(T, U)

Somewhere(s) ==
  \/ \E x \in inbound : x.swap = s
  \/ \E x \in outbound : x.swap = s
  \/ \E x \in rested : x.swap = s

\* Each call has one place or none, and one exactly if it was sent.
PlaceInv ==
  /\ step = [s \in Swaps |-> step[s]]
  /\ Apartness(inbound, outbound, rested)
  /\ \A s \in Swaps : step[s] = "sent" <=> Somewhere(s)

\* Each step of RemoteSwap moves the tokens of one call, or none.
LEMMA PlaceStep == PlaceInv /\ [RemoteNext]_<<vars, remoteVars>> => PlaceInv'
<1> SUFFICES ASSUME PlaceInv, [RemoteNext]_<<vars, remoteVars>> PROVE PlaceInv'
  OBVIOUS
<1>1. ASSUME NEW s \in Swaps, RemoteCall(s) PROVE PlaceInv'
  <2>1. CASE GetToAddress(s) \/ ProcessRemote(s) \/ BuildTransferToOraichain(s) \/ GiveUp(s)
    BY <2>1 DEF GetToAddress, ProcessRemote, BuildTransferToOraichain, GiveUp, At,
       PlaceInv, Somewhere
  <2>2. CASE SignTransfer(s) \/ DepositOnEvm(s)
    <3>1. PICK new : new.swap = s /\ inbound' = inbound \cup {new}
      BY <2>2 DEF SignTransfer, DepositOnEvm
    <3>2. /\ step[s] # "sent" /\ step' = [step EXCEPT ![s] = "sent"]
          /\ UNCHANGED <<outbound, rested>>
      BY <2>2 DEF SignTransfer, DepositOnEvm, At
    <3>3. ~Somewhere(s)
      BY <3>2 DEF PlaceInv
    <3>4. Apartness(inbound', outbound', rested')
      BY <3>1, <3>2, <3>3 DEF PlaceInv, Somewhere, Apartness, Sole, Apart
    <3> QED BY <3>1, <3>2, <3>4 DEF PlaceInv, Somewhere
  <2> QED BY <1>1, <2>1, <2>2 DEF RemoteCall
<1>2. ASSUME NEW p \in inbound, Arrive(p) \/ Refunded(p) PROVE PlaceInv'
  <2>1. inbound' = inbound \ {p} /\ step' = step
    BY <1>2 DEF Arrive, Unswapped, Recovered, Swapped, Refunded, Arrives
  <2>2. PICK e : /\ e.swap = p.swap
                 /\ \/ rested' = rested \cup {e} /\ outbound' = outbound
                    \/ outbound' = outbound \cup {e} /\ rested' = rested
    <3>1. CASE Unswapped(p) \/ Recovered(p) \/ Refunded(p)
      BY <3>1 DEF Unswapped, Recovered, Refunded, Arrives, Rest
    <3>2. CASE Swapped(p)
      BY <3>2 DEF Swapped, Rest
    <3> QED BY <1>2, <3>1, <3>2 DEF Arrive
  <2>3. Apartness(inbound', outbound', rested')
    BY <2>1, <2>2 DEF PlaceInv, Apartness, Sole, Apart
  <2> QED BY <2>1, <2>2, <2>3 DEF PlaceInv, Somewhere, Apartness, Sole
<1>3. ASSUME NEW o \in outbound, Onward(o) PROVE PlaceInv'
  <2>1. /\ outbound' = outbound \ {o} /\ inbound' = inbound /\ step' = step
    BY <1>3 DEF Onward
  <2>2. PICK e : e.swap = o.swap /\ rested' = rested \cup {e}
    BY <1>3 DEF Onward, Rest
  <2>3. Apartness(inbound', outbound', rested')
    BY <2>1, <2>2 DEF PlaceInv, Apartness, Sole, Apart
  <2> QED BY <2>1, <2>2, <2>3 DEF PlaceInv, Somewhere, Apartness, Sole
<1>4. CASE UNCHANGED remoteVars
  BY <1>4 DEF remoteVars, PlaceInv, Somewhere
<1> QED BY <1>1, <1>2, <1>3, <1>4 DEF RemoteNext

LEMMA PlaceInit == RemoteInit => PlaceInv
BY DEF RemoteInit, PlaceInv, Somewhere, Apartness, Sole, Apart

LEMMA PlaceSafe == PlaceInv => NeitherLostNorDoubled
BY DEF PlaceInv, NeitherLostNorDoubled, Somewhere, Apartness, Sole, Apart

-----------------------------------------------------------------------------
(***************************************************************************)
(* At rest they are what was agreed, or all of them.                       *)
(***************************************************************************)
\* A price that was shown stays, and so does what was agreed on it.
Shown(s) == pc[s] # "idle"

Keeps(s, m) == m.min \in Int /\ m.min + 1 >= Agreed(s) /\ m.recovery \in Accounts

FairRest(e) ==
  IF e.end \in {"paid", "expired"} THEN e.amount + 1 >= Agreed(e.swap)
  ELSE /\ e.amount = Amount(request[e.swap])
       /\ e.who \in Accounts \/ (e.end = "unswapped" /\ request[e.swap].from = "noble")

\* A call is shown a price before it has an address; the memo it makes keeps to what
\* was agreed; its transfer goes to an account of the wallet, except from Noble.
CallsInv ==
  /\ request \in [Swaps -> Requests] /\ price \in [Swaps -> Nat] /\ rate \in Rates
  /\ pc = [s \in Swaps |-> pc[s]] /\ step = [s \in Swaps |-> step[s]]
  /\ home \in [Swaps -> Accounts] /\ account \in Accounts
  /\ memo = [s \in Swaps |-> memo[s]] /\ fee \in [Swaps -> Nat]
  /\ msgTransfer = [s \in Swaps |-> msgTransfer[s]]
  /\ \A s \in Swaps :
       /\ step[s] # "none" => Shown(s)
       /\ memo[s].action # "none" => Shown(s) /\ Keeps(s, memo[s])
       /\ msgTransfer[s].receiver \in Accounts \/ request[s].from = "noble"

\* And so does what it sent, wherever that is.
Sent(s) == s \in Swaps /\ step[s] = "sent" /\ Shown(s)

SentInv ==
  /\ \A p \in inbound :
       /\ Sent(p.swap)
       /\ p.memo.action # "none" => Keeps(p.swap, p.memo)
       /\ p.receiver \in Accounts \/ request[p.swap].from = "noble"
  /\ \A o \in outbound : Sent(o.swap) /\ o.amount + 1 >= Agreed(o.swap)
  /\ \A e \in rested : Sent(e.swap) /\ FairRest(e)

AgreedInv == CallsInv /\ SentInv

\* What the minimum is made of.
LEMMA RequestFields == \A r \in Request : r.slippage \in 0..100 /\ r.relayerFee \in Nat
BY DEF Request

\* The request of a call asks for a number of tokens.
LEMMA CallAmount ==
  ASSUME request \in [Swaps -> Requests], NEW s \in Swaps
  PROVE  request[s] \in Request /\ Amount(request[s]) \in Nat
<1>1. request[s] \in Request
  BY ClassicAssumption
<1> QED BY <1>1, AmountIsNumber

\* A fee is a number, converted or not.
LEMMA FeeIsNumber ==
  ASSUME NEW s \in Swaps, request[s] \in Request, NEW f \in RelayerFees(s)
  PROVE  f \in Nat
<1>1. request[s].relayerFee \in Nat
  BY RequestFields
<1>2. \A p \in OraiPrices : request[s].relayerFee * p \in Nat
  BY <1>1, RemoteAssumption
<1> QED BY <1>1, <1>2 DEF RelayerFees

\* What is agreed with a fee.
AgreedWith(s, f) ==
  SimulateAmount(s)
    - (SimulateAmount(s) * (BridgeFee + request[s].slippage)) \div 100
    - f

\* Rounding and the comparison with zero take off at most one token too much.
LEMMA MinimumIsAgreed ==
  ASSUME NEW s \in Swaps, request[s] \in Request, price[s] \in Nat,
         Amount(request[s]) \in Nat, NEW f \in Nat
  PROVE  MinimumReceive(s, f) \in Nat /\ MinimumReceive(s, f) + 1 >= AgreedWith(s, f)
<1> DEFINE sim == SimulateAmount(s)
           taken == sim * (BridgeFee + request[s].slippage)
<1>1. BridgeFee + request[s].slippage \in Nat
  BY RemoteAssumption, RequestFields
<1>2. sim \in Nat
  BY DEF SimulateAmount
<1>3. taken \in Nat
  BY <1>1, <1>2
<1>4. MinimumReceive(s, f) = IF 100 * sim > taken + 100 * f
                             THEN (100 * sim - (taken + 100 * f)) \div 100 ELSE 0
  BY DEF MinimumReceive
<1>5. AgreedWith(s, f) = sim - taken \div 100 - f
  BY DEF AgreedWith
<1> HIDE DEF sim, taken
<1> QED BY <1>1, <1>2, <1>3, <1>4, <1>5

\* What was agreed is a number, if perhaps a negative one.
LEMMA AgreedIsNumber ==
  ASSUME CallsInv, NEW s \in Swaps
  PROVE  Agreed(s) \in Int
<1>1. request[s] \in Request /\ price[s] \in Nat /\ Amount(request[s]) \in Nat
  BY CallAmount DEF CallsInv
<1>2. BridgeFee + request[s].slippage \in Nat /\ fee[s] \in Nat
  BY <1>1, RemoteAssumption, RequestFields DEF CallsInv
<1>3. SimulateAmount(s) \in Nat
  BY <1>1 DEF SimulateAmount
<1>4. SimulateAmount(s) * (BridgeFee + request[s].slippage) \in Nat
  BY <1>2, <1>3
<1> QED BY <1>2, <1>3, <1>4 DEF Agreed

\* Whatever the pool gives and ORAI costs, each memo that is made keeps to what
\* is agreed with its own fee.
LEMMA MemoKeeps ==
  ASSUME CallsInv, NEW s \in Swaps, NEW orai \in Accounts, NEW f \in Nat,
         MemoOf(s, orai, f).action # "none"
  PROVE  /\ MemoOf(s, orai, f).min \in Int
         /\ MemoOf(s, orai, f).min + 1 >= AgreedWith(s, f)
         /\ MemoOf(s, orai, f).recovery \in Accounts
<1>1. request[s] \in Request /\ price[s] \in Nat /\ Amount(request[s]) \in Nat
  BY CallAmount DEF CallsInv
<1>2. MinimumReceive(s, f) \in Nat /\ MinimumReceive(s, f) + 1 >= AgreedWith(s, f)
  BY <1>1, MinimumIsAgreed
<1>3. MemoOf(s, orai, f).min = MinimumReceive(s, f) /\ MemoOf(s, orai, f).recovery = orai
  BY DEF MemoOf, NoMemo
<1> QED BY <1>2, <1>3

\* No step of ClassicSwap changes what a call that has begun was shown.
Unchanging ==
  /\ request' = request /\ account' \in Accounts /\ rate' \in Rates
  /\ pc' = [s \in Swaps |-> pc'[s]] /\ price' \in [Swaps -> Nat]
  /\ \A s \in Swaps : Shown(s) => Shown(s)' /\ price'[s] = price[s]

LEMMA ClassicKeeps == CallsInv /\ [Next]_vars => Unchanging
<1> SUFFICES ASSUME CallsInv, [Next]_vars PROVE Unchanging
  OBVIOUS
<1>1. ASSUME NEW s \in Swaps, Call(s) PROVE Unchanging
  <2>1. CASE Simulate(s)
    <3>1. rate \in Nat
      BY ClassicAssumption DEF CallsInv
    <3> QED BY <2>1, <3>1 DEF Simulate, Goto, CallsInv, Unchanging, Shown, chainVars, worldVars
  <2>2. CASE ProcessUniversalSwap(s)
    <3>1. Dispatch(request[s]) # "idle"
      BY DEF Dispatch
    <3> QED BY <2>2, <3>1 DEF ProcessUniversalSwap, Goto, CallsInv, Unchanging, Shown,
               callVars, chainVars, worldVars
  <2>3. CASE ~Simulate(s) /\ ~ProcessUniversalSwap(s)
    BY <1>1, <2>3 DEF Call, CheckSender, CheckFeeRelayer, BuildSwap, BuildTransfer,
       CheckBalanceChannelIbc, SignAndBroadcast, Throw, Execute, Fail, Goto, CallsInv,
       Unchanging, Shown, callVars, chainVars, worldVars
  <2> QED BY <2>1, <2>2, <2>3
<1>2. CASE \E p \in packets : Deliver(p) \/ Timeout(p)
  BY <1>2 DEF Deliver, Timeout, CallsInv, Unchanging, Shown, callVars, worldVars
<1>3. CASE Others \/ SwitchAccount \/ Tick
  BY <1>3 DEF Others, SwitchAccount, Tick, CallsInv, Unchanging, Shown, callVars, chainVars
<1>4. CASE UNCHANGED vars
  BY <1>4 DEF vars, CallsInv, Unchanging, Shown, callVars, chainVars, worldVars
<1> QED BY <1>1, <1>2, <1>3, <1>4 DEF Next

\* What holds of a call that has begun holds on while its fee is not converted anew.
LEMMA AgreedStays ==
  ASSUME AgreedInv, Unchanging
  PROVE  /\ \A s \in Swaps : Shown(s) => Agreed(s)' = AgreedWith(s, fee'[s])
         /\ \A s \in Swaps : Shown(s) /\ fee'[s] = fee[s] => Agreed(s)' = Agreed(s)
         /\ \A s \in Swaps : \A m :
              Shown(s) /\ fee'[s] = fee[s] /\ Keeps(s, m) => Keeps(s, m)'
         /\ \A e \in rested : fee'[e.swap] = fee[e.swap] => FairRest(e)'
<1>0. \A s \in Swaps : Shown(s) => Agreed(s)' = AgreedWith(s, fee'[s])
  BY DEF Unchanging, Agreed, AgreedWith, SimulateAmount
<1>1. \A s \in Swaps : Shown(s) /\ fee'[s] = fee[s] => Agreed(s)' = Agreed(s)
  BY <1>0 DEF Agreed, AgreedWith
<1>2. \A s \in Swaps : \A m :
        Shown(s) /\ fee'[s] = fee[s] /\ Keeps(s, m) => Keeps(s, m)'
  BY <1>1 DEF Keeps
<1>3. \A e \in rested : fee'[e.swap] = fee[e.swap] => FairRest(e)'
  BY <1>1 DEF FairRest, AgreedInv, SentInv, Sent, Unchanging
<1> QED BY <1>0, <1>1, <1>2, <1>3

\* What a step does not touch stays right: what was sent, or the calls.
LEMMA SentStays ==
  ASSUME AgreedInv, Unchanging, UNCHANGED <<inbound, outbound, rested>>,
         \A s \in Swaps : step[s] = "sent" => step'[s] = "sent" /\ fee'[s] = fee[s]
  PROVE  SentInv'
<1>1. /\ \A t \in Swaps : Shown(t) /\ fee'[t] = fee[t] => Agreed(t)' = Agreed(t)
      /\ \A t \in Swaps : \A m :
           Shown(t) /\ fee'[t] = fee[t] /\ Keeps(t, m) => Keeps(t, m)'
      /\ \A e \in rested : fee'[e.swap] = fee[e.swap] => FairRest(e)'
  BY AgreedStays
<1> QED BY <1>1 DEF AgreedInv, SentInv, Sent, Unchanging

LEMMA CallsStay ==
  ASSUME AgreedInv, Unchanging, UNCHANGED <<step, home, memo, fee, msgTransfer>>
  PROVE  CallsInv'
<1>1. \A t \in Swaps : \A m : Shown(t) /\ Keeps(t, m) => Keeps(t, m)'
  BY AgreedStays
<1> QED BY <1>1 DEF AgreedInv, CallsInv, Unchanging

\* A memo that is made anew, with the fee converted anew, by a call that has sent
\* nothing yet.
LEMMA MemoMade ==
  ASSUME AgreedInv, Unchanging, NEW s \in Swaps, step[s] = "addressed",
         NEW f \in RelayerFees(s),
         fee' = [fee EXCEPT ![s] = f], memo' = [memo EXCEPT ![s] = MemoOf(s, account, f)]
  PROVE  /\ Shown(s) /\ fee' \in [Swaps -> Nat]
         /\ \A t \in Swaps : memo'[t].action # "none" => Shown(t) /\ Keeps(t, memo[t])'
         /\ \A t \in Swaps : step[t] = "sent" => fee'[t] = fee[t]
<1>1. Shown(s) /\ memo = [t \in Swaps |-> memo[t]] /\ fee \in [Swaps -> Nat]
  BY DEF AgreedInv, CallsInv
<1>2. request[s] \in Request
  BY CallAmount DEF AgreedInv, CallsInv
<1>3. f \in Nat
  BY <1>2, FeeIsNumber
<1>4. \A t \in Swaps \ {s} : fee'[t] = fee[t] /\ memo'[t] = memo[t]
  BY <1>1
<1>5. fee'[s] = f /\ memo'[s] = MemoOf(s, account, f) /\ fee' \in [Swaps -> Nat]
  BY <1>1, <1>3
<1>6. ASSUME NEW t \in Swaps \ {s}, memo'[t].action # "none"
      PROVE  Shown(t) /\ Keeps(t, memo[t])'
  <2>1. Shown(t) /\ Keeps(t, memo[t])
    BY <1>4, <1>6 DEF AgreedInv, CallsInv
  <2>2. Agreed(t)' = Agreed(t)
    BY <1>4, <2>1, AgreedStays
  <2> QED BY <1>4, <2>1, <2>2 DEF Keeps
<1>7. ASSUME memo'[s].action # "none" PROVE Keeps(s, memo[s])'
  <2>1. /\ memo'[s].min \in Int /\ memo'[s].min + 1 >= AgreedWith(s, f)
        /\ memo'[s].recovery \in Accounts
    BY <1>3, <1>5, <1>7, MemoKeeps DEF AgreedInv, CallsInv
  <2>2. Agreed(s)' = AgreedWith(s, f)
    BY <1>1, <1>5, AgreedStays
  <2> QED BY <2>1, <2>2 DEF Keeps
<1> QED BY <1>1, <1>4, <1>5, <1>6, <1>7

\* A call makes its memo at the price it was shown, and hands on what it made.
LEMMA AgreedCall ==
  ASSUME AgreedInv, Unchanging, NEW s \in Swaps, RemoteCall(s)
  PROVE  CallsInv' /\ SentInv'
<1>1. ASSUME fee' = fee
      PROVE  /\ \A t \in Swaps : Shown(t) => Agreed(t)' = Agreed(t)
             /\ \A t \in Swaps : \A m : Shown(t) /\ Keeps(t, m) => Keeps(t, m)'
             /\ \A e \in rested : FairRest(e)'
  BY <1>1, AgreedStays
<1>2. CASE GetToAddress(s)
  <2>1. CallsInv'
    BY <1>1, <1>2 DEF GetToAddress, At, AgreedInv, CallsInv, Unchanging, Shown
  <2>2. SentInv'
    BY <1>2, SentStays DEF GetToAddress, At, AgreedInv, CallsInv
  <2> QED BY <2>1, <2>2
<1>3. CASE ProcessRemote(s)
  <2>1. PICK f \in RelayerFees(s) :
          fee' = [fee EXCEPT ![s] = f] /\ memo' = [memo EXCEPT ![s] = MemoOf(s, account, f)]
    BY <1>3 DEF ProcessRemote
  <2>2. /\ step[s] = "addressed" /\ home' = [home EXCEPT ![s] = account]
        /\ UNCHANGED <<step, msgTransfer, inbound, outbound, rested>>
    BY <1>3 DEF ProcessRemote
  <2>3. /\ Shown(s) /\ fee' \in [Swaps -> Nat]
        /\ \A t \in Swaps : memo'[t].action # "none" => Shown(t) /\ Keeps(t, memo[t])'
        /\ \A t \in Swaps : step[t] = "sent" => fee'[t] = fee[t]
    BY <2>1, <2>2, MemoMade
  <2>4. CallsInv'
    BY <2>1, <2>2, <2>3 DEF AgreedInv, CallsInv, Unchanging
  <2>5. SentInv'
    BY <2>2, <2>3, SentStays
  <2> QED BY <2>4, <2>5
<1>4. CASE BuildTransferToOraichain(s)
  <2>1. PICK f \in RelayerFees(s) :
          fee' = [fee EXCEPT ![s] = f] /\ memo' = [memo EXCEPT ![s] = MemoOf(s, account, f)]
    BY <1>4 DEF BuildTransferToOraichain
  <2>2. /\ step[s] = "addressed" /\ home' = [home EXCEPT ![s] = account]
        /\ UNCHANGED <<inbound, outbound, rested>>
    BY <1>4 DEF BuildTransferToOraichain
  <2>3. /\ Shown(s) /\ fee' \in [Swaps -> Nat]
        /\ \A t \in Swaps : memo'[t].action # "none" => Shown(t) /\ Keeps(t, memo[t])'
        /\ \A t \in Swaps : step[t] = "sent" => fee'[t] = fee[t]
    BY <2>1, <2>2, MemoMade
  <2>4. PICK new : /\ msgTransfer' = [msgTransfer EXCEPT ![s] = new]
                   /\ new.receiver \in Accounts \/ request[s].from = "noble"
    <3> DEFINE named == request[s].from = "noble" /\ request[s].recipient = "valid"
               new == [receiver |-> IF named THEN "recipient" ELSE account,
                       deadline |-> now + IBC_TRANSFER_TIMEOUT]
    <3>1. msgTransfer' = [msgTransfer EXCEPT ![s] = new]
      BY <1>4 DEF BuildTransferToOraichain
    <3>2. new.receiver = IF named THEN "recipient" ELSE account
      OBVIOUS
    <3> HIDE DEF new
    <3> QED BY <3>1, <3>2 DEF AgreedInv, CallsInv
  <2>5. PICK name : step' = [step EXCEPT ![s] = name]
    BY <1>4 DEF BuildTransferToOraichain, At
  <2>6. CallsInv'
    BY <2>1, <2>2, <2>3, <2>4, <2>5 DEF AgreedInv, CallsInv, Unchanging
  <2>7. \A t \in Swaps : step[t] = "sent" => step'[t] = "sent"
    BY <2>2, <2>5 DEF AgreedInv, CallsInv
  <2>8. SentInv'
    BY <2>2, <2>3, <2>7, SentStays
  <2> QED BY <2>6, <2>8
<1>5. CASE SignTransfer(s)
  <2>1. PICK p : /\ inbound' = inbound \cup {p}
                 /\ p.swap = s /\ p.receiver = msgTransfer[s].receiver /\ p.memo = memo[s]
    <3> DEFINE p == [swap |-> s, receiver |-> msgTransfer[s].receiver, memo |-> memo[s],
                     expires |-> TRUE, deadline |-> msgTransfer[s].deadline]
    <3>1. inbound' = inbound \cup {p}
      BY <1>5 DEF SignTransfer
    <3>2. p.swap = s /\ p.receiver = msgTransfer[s].receiver /\ p.memo = memo[s]
      OBVIOUS
    <3> HIDE DEF p
    <3> QED BY <3>1, <3>2
  <2>2. Shown(s)
    BY <1>5 DEF SignTransfer, AgreedInv, CallsInv
  <2>3. /\ step' = [step EXCEPT ![s] = "sent"]
        /\ UNCHANGED <<home, memo, fee, msgTransfer, outbound, rested>>
    BY <1>5 DEF SignTransfer, At
  <2>4. CallsInv'
    BY <1>1, <2>2, <2>3 DEF AgreedInv, CallsInv, Unchanging
  <2>5. SentInv'
    BY <1>1, <2>1, <2>2, <2>3 DEF AgreedInv, CallsInv, SentInv, Sent, Unchanging
  <2> QED BY <2>4, <2>5
<1>6. CASE DepositOnEvm(s)
  <2>1. PICK p : /\ inbound' = inbound \cup {p}
                 /\ p.swap = s /\ p.receiver = home[s] /\ p.memo = memo[s]
    <3> DEFINE p == [swap |-> s, receiver |-> home[s], memo |-> memo[s],
                     expires |-> FALSE, deadline |-> 0]
    <3>1. inbound' = inbound \cup {p}
      BY <1>6 DEF DepositOnEvm
    <3>2. p.swap = s /\ p.receiver = home[s] /\ p.memo = memo[s]
      OBVIOUS
    <3> HIDE DEF p
    <3> QED BY <3>1, <3>2
  <2>2. Shown(s)
    BY <1>6 DEF DepositOnEvm, AgreedInv, CallsInv
  <2>3. /\ step' = [step EXCEPT ![s] = "sent"]
        /\ UNCHANGED <<home, memo, fee, msgTransfer, outbound, rested>>
    BY <1>6 DEF DepositOnEvm, At
  <2>4. CallsInv'
    BY <1>1, <2>2, <2>3 DEF AgreedInv, CallsInv, Unchanging
  <2>5. SentInv'
    BY <1>1, <2>1, <2>2, <2>3 DEF AgreedInv, CallsInv, SentInv, Sent, Unchanging
  <2> QED BY <2>4, <2>5
<1>7. CASE GiveUp(s)
  <2>1. CallsInv'
    BY <1>1, <1>7 DEF GiveUp, At, AgreedInv, CallsInv, Unchanging
  <2>2. SentInv'
    BY <1>7, SentStays DEF GiveUp, At, AgreedInv, CallsInv
  <2> QED BY <2>1, <2>2
<1> QED BY <1>2, <1>3, <1>4, <1>5, <1>6, <1>7 DEF RemoteCall

\* The contract pays no less than the memo asks for, or all of it.
LEMMA AgreedArrival ==
  ASSUME AgreedInv, Unchanging, NEW p \in inbound, Arrive(p) \/ Refunded(p)
  PROVE  SentInv'
<1>f. fee' = fee
  BY DEF Arrive, Unswapped, Recovered, Swapped, Refunded, Arrives
<1>1. /\ \A t \in Swaps : Shown(t) => Agreed(t)' = Agreed(t)
      /\ \A t \in Swaps : \A m : Shown(t) /\ Keeps(t, m) => Keeps(t, m)'
      /\ \A e \in rested : FairRest(e)'
  BY <1>f, AgreedStays
<1>2. p.swap \in Swaps /\ Shown(p.swap)
  BY DEF AgreedInv, SentInv, Sent
<1>3. inbound' = inbound \ {p} /\ UNCHANGED <<step, home, memo, fee, msgTransfer>>
  BY DEF Arrive, Unswapped, Recovered, Swapped, Refunded, Arrives
<1>4. ASSUME NEW amount, NEW who, NEW end, Rest(p.swap, amount, who, end),
             UNCHANGED outbound,
             IF end \in {"paid", "expired"} THEN amount + 1 >= Agreed(p.swap)
             ELSE /\ amount = Amount(request[p.swap])
                  /\ who \in Accounts \/ (end = "unswapped" /\ request[p.swap].from = "noble")
      PROVE  SentInv'
  <2> DEFINE e == [swap |-> p.swap, amount |-> amount, who |-> who, end |-> end]
  <2>1. rested' = rested \cup {e}
    BY <1>4 DEF Rest
  <2>2. e.swap = p.swap /\ e.amount = amount /\ e.who = who /\ e.end = end
    OBVIOUS
  <2> HIDE DEF e
  <2>3. FairRest(e)
    BY <1>4, <2>2 DEF FairRest
  <2>4. FairRest(e)'
    BY <1>1, <1>2, <2>2, <2>3 DEF FairRest, Unchanging
  <2> QED BY <1>1, <1>2, <1>3, <1>4, <2>1, <2>2, <2>4 DEF AgreedInv, SentInv, Sent, Unchanging
<1>5. CASE Unswapped(p)
  BY <1>4, <1>5 DEF Unswapped, AgreedInv, SentInv, Sent
<1>6. CASE Recovered(p)
  BY <1>4, <1>6 DEF Recovered, AgreedInv, SentInv, Sent, Keeps
<1>7. CASE Refunded(p)
  BY <1>4, <1>7, ClassicAssumption DEF Refunded
<1>8. CASE Swapped(p)
  <2> DEFINE returned == Amount(request[p.swap]) * IF request[p.swap].swap THEN rate ELSE 1
  <2>1. returned \in Nat
    <3>1. rate \in Nat /\ Amount(request[p.swap]) \in Nat
      BY <1>2, ClassicAssumption, CallAmount DEF AgreedInv, CallsInv
    <3> QED BY <3>1
  <2>2. PICK amount \in p.memo.min..returned :
          IF p.memo.action = "transfer"
          THEN Rest(p.swap, amount, p.memo.receiver, "paid") /\ UNCHANGED outbound
          ELSE /\ outbound' = outbound \cup
                    {[swap |-> p.swap, amount |-> amount, receiver |-> p.memo.receiver,
                      recovery |-> p.memo.recovery]}
               /\ UNCHANGED rested
    BY <1>8 DEF Swapped
  <2>3. Keeps(p.swap, p.memo)
    BY <1>8 DEF Swapped, AgreedInv, SentInv, Sent
  <2>4. amount + 1 >= Agreed(p.swap)
    <3>1. Agreed(p.swap) \in Int
      BY <1>2, AgreedIsNumber DEF AgreedInv
    <3> QED BY <2>1, <2>3, <3>1 DEF Keeps
  <2>5. CASE p.memo.action = "transfer"
    BY <1>4, <2>2, <2>4, <2>5
  <2>6. CASE p.memo.action # "transfer"
    <3> DEFINE o == [swap |-> p.swap, amount |-> amount, receiver |-> p.memo.receiver,
                     recovery |-> p.memo.recovery]
    <3>1. outbound' = outbound \cup {o} /\ rested' = rested
      BY <2>2, <2>6
    <3>2. o.swap = p.swap /\ o.amount = amount
      OBVIOUS
    <3> HIDE DEF o
    <3> QED BY <1>1, <1>2, <1>3, <2>4, <3>1, <3>2 DEF AgreedInv, SentInv, Sent, Unchanging
  <2> QED BY <2>5, <2>6
<1> QED BY <1>5, <1>6, <1>7, <1>8 DEF Arrive

\* What is sent on takes the amount with it.
LEMMA AgreedOnward ==
  ASSUME AgreedInv, Unchanging, NEW o \in outbound, Onward(o)
  PROVE  SentInv'
<1>f. fee' = fee
  BY DEF Onward
<1>1. /\ \A t \in Swaps : Shown(t) => Agreed(t)' = Agreed(t)
      /\ \A t \in Swaps : \A m : Shown(t) /\ Keeps(t, m) => Keeps(t, m)'
      /\ \A e \in rested : FairRest(e)'
  BY <1>f, AgreedStays
<1>2. PICK who, end : Rest(o.swap, o.amount, who, end) /\ end \in {"paid", "expired"}
  BY DEF Onward
<1> DEFINE e == [swap |-> o.swap, amount |-> o.amount, who |-> who, end |-> end]
<1>3. rested' = rested \cup {e}
  BY <1>2 DEF Rest
<1>4. e.swap = o.swap /\ e.amount = o.amount /\ e.end = end
  OBVIOUS
<1> HIDE DEF e
<1>5. FairRest(e)'
  BY <1>1, <1>2, <1>4 DEF FairRest, AgreedInv, SentInv, Sent
<1>6. outbound' = outbound \ {o} /\ UNCHANGED <<step, home, memo, fee, msgTransfer, inbound>>
  BY DEF Onward
<1> QED BY <1>1, <1>3, <1>4, <1>5, <1>6 DEF AgreedInv, SentInv, Sent, Unchanging

LEMMA AgreedStep ==
  AgreedInv /\ [RemoteNext]_<<vars, remoteVars>> => AgreedInv'
<1> SUFFICES ASSUME AgreedInv, [RemoteNext]_<<vars, remoteVars>> PROVE AgreedInv'
  OBVIOUS
<1>1. Unchanging
  BY RemoteStep, ClassicKeeps DEF AgreedInv
<1>2. CASE \E s \in Swaps : RemoteCall(s)
  BY <1>1, <1>2, AgreedCall DEF AgreedInv
<1>3. CASE \E p \in inbound : Arrive(p) \/ Refunded(p)
  <2>1. UNCHANGED <<step, home, memo, fee, msgTransfer>>
    BY <1>3 DEF Arrive, Unswapped, Recovered, Swapped, Refunded, Arrives
  <2> QED BY <1>1, <1>3, <2>1, AgreedArrival, CallsStay DEF AgreedInv
<1>4. CASE \E o \in outbound : Onward(o)
  <2>1. UNCHANGED <<step, home, memo, fee, msgTransfer>>
    BY <1>4 DEF Onward
  <2> QED BY <1>1, <1>4, <2>1, AgreedOnward, CallsStay DEF AgreedInv
<1>5. CASE UNCHANGED remoteVars
  BY <1>1, <1>5, CallsStay, SentStays DEF remoteVars, AgreedInv
<1> QED BY <1>2, <1>3, <1>4, <1>5 DEF RemoteNext

LEMMA AgreedInit == RemoteInit => AgreedInv
<1> SUFFICES ASSUME RemoteInit PROVE AgreedInv
  OBVIOUS
<1>1. /\ request \in [Swaps -> Requests] /\ price = [s \in Swaps |-> 1] /\ rate \in Rates
      /\ pc = [s \in Swaps |-> "idle"] /\ account \in Accounts
  BY DEF RemoteInit, Init
<1>2. NoMemo.action = "none"
  BY DEF NoMemo
<1> QED BY <1>1, <1>2, ClassicAssumption DEF RemoteInit, AgreedInv, CallsInv, SentInv

\* Whatever the pool gives between the simulation and the execution, whatever ORAI
\* costs when each of the two memos is made, however late a transfer arrives and
\* whoever relays it, the tokens of a call that begins on another chain are in one
\* place, and at rest no fewer than the simulated amount less the fees of the memo
\* that was sent if they were swapped, or all of them with the user's own accounts
\* if not (calculateMinimumReceive, addOraiBridgeRoute, swapCosmosToOtherNetwork).
THEOREM AgreedOrAllBack == RemoteSpec => []AgreedOrBack
<1>1. RemoteInit => PlaceInv /\ AgreedInv
  BY PlaceInit, AgreedInit
<1>2. PlaceInv /\ AgreedInv /\ [RemoteNext]_<<vars, remoteVars>> => (PlaceInv /\ AgreedInv)'
  BY PlaceStep, AgreedStep
<1>3. PlaceInv /\ AgreedInv => AgreedOrBack
  BY PlaceSafe DEF AgreedInv, SentInv, FairRest, AgreedOrBack
<1> QED BY <1>1, <1>2, <1>3, PTL DEF RemoteSpec

-----------------------------------------------------------------------------
(***************************************************************************)
(* What ClassicSwap promises, while calls from other chains are under way. *)
(***************************************************************************)
\* The user loses no more of the wanted token on Oraichain than the slippage that
\* was agreed to, whatever begins elsewhere at the same time (calculateMinReceive,
\* combineSwapMsgOraichain, combineMsgEvm).
THEOREM RemoteLossesWithinSlippage == RemoteSpec => []ShortfallWithinSlippage
<1>1. Init => TxInv /\ ShortfallInv
  BY TxInit, ShortfallInit
<1>2. TxInv /\ ShortfallInv /\ [Next]_vars => (TxInv /\ ShortfallInv)'
  BY TxStep, ShortfallStep
<1> QED BY <1>1, <1>2, ShortfallSafe, RemoteKeepsClassic, PTL

-----------------------------------------------------------------------------
(***************************************************************************)
(* Each variable has its type.                                             *)
(***************************************************************************)
LEMMA NoMemoIsMemo == NoMemo \in Memo
BY ClassicAssumption DEF NoMemo, Memo, Holders

\* A memo that is made is one.
LEMMA MemoOfIsMemo ==
  ASSUME TxInv, RemoteTypeOK, NEW s \in Swaps, NEW orai \in Accounts, NEW f \in RelayerFees(s)
  PROVE  MemoOf(s, orai, f) \in Memo /\ f \in Nat
<1> DEFINE action == PostAction(request[s])
           min == MinimumReceive(s, f)
           receiver == IF request[s].to = "Oraichain" THEN orai ELSE dest[s]
           timeout == now + IBC_TRANSFER_TIMEOUT
           made == [action |-> action, min |-> min, receiver |-> receiver,
                    recovery |-> orai, timeout |-> timeout]
<1>1. request[s] \in Request /\ Amount(request[s]) \in Nat /\ price[s] \in Nat
  BY CallAmount DEF TxInv, TypeOK
<1>2. action \in {"transfer", "ibcWasm", "ibc"}
  BY DEF PostAction
<1>3. f \in Nat /\ min \in Nat
  BY <1>1, FeeIsNumber, MinimumIsAgreed
<1>4. receiver \in Holders /\ timeout \in Nat
  BY ClassicAssumption DEF TxInv, TypeOK, RemoteTypeOK, Holders
<1>5. MemoOf(s, orai, f) = made \/ MemoOf(s, orai, f) = NoMemo
  BY DEF MemoOf
<1> HIDE DEF action, min, receiver, timeout
<1>6. made \in Memo
  BY <1>2, <1>3, <1>4 DEF Memo
<1> QED BY <1>3, <1>5, <1>6, NoMemoIsMemo

\* What comes to rest is a number of tokens with somebody.
LEMMA RestType ==
  ASSUME RemoteTypeOK, NEW s \in Swaps, NEW amount \in Nat, NEW who \in Holders,
         NEW end \in {"paid", "expired", "recovered", "refunded", "unswapped"},
         Rest(s, amount, who, end)
  PROVE  rested' \subseteq Rested
<1> DEFINE e == [swap |-> s, amount |-> amount, who |-> who, end |-> end]
<1>1. e \in Rested
  BY DEF Rested
<1>2. rested' = rested \cup {e}
  BY DEF Rest
<1> HIDE DEF e
<1> QED BY <1>1, <1>2 DEF RemoteTypeOK

LEMMA RemoteTypesCall ==
  ASSUME TxInv, RemoteTypeOK, NEW s \in Swaps, RemoteCall(s)
  PROVE  RemoteTypeOK'
<1>0. account \in Accounts /\ now \in Nat /\ IBC_TRANSFER_TIMEOUT \in Nat
  BY ClassicAssumption DEF TxInv, TypeOK
<1>1. CASE GetToAddress(s)
  <2>1. ToAddress(request[s]) \in Holders
    BY <1>0 DEF ToAddress, Holders
  <2> QED BY <1>1, <2>1 DEF GetToAddress, At, RemoteTypeOK
<1>2. CASE ProcessRemote(s)
  BY <1>0, <1>2, MemoOfIsMemo DEF ProcessRemote, RemoteTypeOK
<1>3. CASE BuildTransferToOraichain(s)
  <2> DEFINE named == request[s].from = "noble" /\ request[s].recipient = "valid"
             receiver == IF named THEN "recipient" ELSE account
             deadline == now + IBC_TRANSFER_TIMEOUT
             msg == [receiver |-> receiver, deadline |-> deadline]
             name == IF named /\ request[s].to # "Oraichain" THEN "thrown" ELSE "sign"
  <2>m. PICK f \in RelayerFees(s) :
          fee' = [fee EXCEPT ![s] = f] /\ memo' = [memo EXCEPT ![s] = MemoOf(s, account, f)]
    BY <1>3 DEF BuildTransferToOraichain
  <2>1. /\ home' = [home EXCEPT ![s] = account]
        /\ msgTransfer' = [msgTransfer EXCEPT ![s] = msg]
        /\ step' = [step EXCEPT ![s] = name]
        /\ UNCHANGED <<dest, inbound, outbound, rested>>
    BY <1>3 DEF BuildTransferToOraichain, At
  <2>2. receiver \in Accounts \cup {"recipient"} /\ deadline \in Nat /\ name \in {"thrown", "sign"}
    BY <1>0
  <2> HIDE DEF receiver, deadline, name
  <2>3. msg \in [receiver : Accounts \cup {"recipient"}, deadline : Nat]
    BY <2>2
  <2>4. MemoOf(s, account, f) \in Memo /\ f \in Nat
    BY <1>0, MemoOfIsMemo
  <2> HIDE DEF msg
  <2> QED BY <1>0, <2>m, <2>1, <2>2, <2>3, <2>4 DEF RemoteTypeOK
<1>4. ASSUME NEW receiver \in Accounts \cup {"recipient"}, NEW expires \in BOOLEAN,
             NEW deadline \in Nat,
             inbound' = inbound \cup {[swap |-> s, receiver |-> receiver, memo |-> memo[s],
                                       expires |-> expires, deadline |-> deadline]},
             At(s, "sent"), UNCHANGED <<dest, home, memo, fee, msgTransfer, outbound, rested>>
      PROVE  RemoteTypeOK'
  <2> DEFINE p == [swap |-> s, receiver |-> receiver, memo |-> memo[s],
                   expires |-> expires, deadline |-> deadline]
  <2>1. p \in Inbound
    BY DEF Inbound, RemoteTypeOK
  <2>2. inbound' = inbound \cup {p}
    BY <1>4
  <2> HIDE DEF p
  <2> QED BY <1>4, <2>1, <2>2 DEF At, RemoteTypeOK
<1>5. CASE SignTransfer(s)
  <2>1. msgTransfer[s].receiver \in Accounts \cup {"recipient"} /\ msgTransfer[s].deadline \in Nat
    BY DEF RemoteTypeOK
  <2> QED BY <1>4, <1>5, <2>1 DEF SignTransfer
<1>6. CASE DepositOnEvm(s)
  <2>1. home[s] \in Accounts \cup {"recipient"}
    BY DEF RemoteTypeOK
  <2> QED BY <1>4, <1>6, <2>1 DEF DepositOnEvm
<1>7. CASE GiveUp(s)
  BY <1>7 DEF GiveUp, At, RemoteTypeOK
<1> QED BY <1>1, <1>2, <1>3, <1>5, <1>6, <1>7 DEF RemoteCall

LEMMA RemoteTypesArrival ==
  ASSUME TxInv, RemoteTypeOK, NEW p \in inbound, Arrive(p) \/ Refunded(p)
  PROVE  RemoteTypeOK'
<1>1. /\ p.swap \in Swaps /\ p.receiver \in Holders /\ p.memo \in Memo
  BY DEF RemoteTypeOK, Inbound, Holders
<1>2. p.memo.min \in Nat /\ p.memo.receiver \in Holders /\ p.memo.recovery \in Accounts
  BY <1>1 DEF Memo
<1>3. Amount(request[p.swap]) \in Nat /\ rate \in Nat
  BY <1>1, CallAmount, ClassicAssumption DEF TxInv, TypeOK
<1>4. inbound' = inbound \ {p} /\ UNCHANGED <<step, dest, home, memo, fee, msgTransfer>>
  BY DEF Arrive, Unswapped, Recovered, Swapped, Refunded, Arrives
<1>5. Sender \in Holders /\ p.memo.recovery \in Holders
  BY <1>2, ClassicAssumption DEF Holders
<1>6. CASE Unswapped(p)
  <2>1. rested' \subseteq Rested
    BY <1>1, <1>3, <1>6, RestType DEF Unswapped
  <2> QED BY <1>4, <1>6, <2>1 DEF Unswapped, RemoteTypeOK
<1>7. CASE Recovered(p)
  <2>1. rested' \subseteq Rested
    BY <1>1, <1>3, <1>5, <1>7, RestType DEF Recovered
  <2> QED BY <1>4, <1>7, <2>1 DEF Recovered, RemoteTypeOK
<1>8. CASE Refunded(p)
  <2>1. rested' \subseteq Rested
    BY <1>1, <1>3, <1>5, <1>8, RestType DEF Refunded
  <2> QED BY <1>4, <1>8, <2>1 DEF Refunded, RemoteTypeOK
<1>9. CASE Swapped(p)
  <2> DEFINE returned == Amount(request[p.swap]) * IF request[p.swap].swap THEN rate ELSE 1
  <2>1. returned \in Nat
    BY <1>3
  <2>2. PICK amount \in p.memo.min..returned :
          IF p.memo.action = "transfer"
          THEN Rest(p.swap, amount, p.memo.receiver, "paid") /\ UNCHANGED outbound
          ELSE /\ outbound' = outbound \cup
                    {[swap |-> p.swap, amount |-> amount, receiver |-> p.memo.receiver,
                      recovery |-> p.memo.recovery]}
               /\ UNCHANGED rested
    BY <1>9 DEF Swapped
  <2>3. amount \in Nat
    BY <1>2, <2>1
  <2>4. CASE p.memo.action = "transfer"
    <3>1. rested' \subseteq Rested
      BY <1>1, <1>2, <2>2, <2>3, <2>4, RestType
    <3> QED BY <1>4, <2>2, <2>4, <3>1 DEF RemoteTypeOK
  <2>5. CASE p.memo.action # "transfer"
    <3> DEFINE o == [swap |-> p.swap, amount |-> amount, receiver |-> p.memo.receiver,
                     recovery |-> p.memo.recovery]
    <3>1. outbound' = outbound \cup {o} /\ rested' = rested
      BY <2>2, <2>5
    <3>2. o \in Outbound
      BY <1>1, <1>2, <2>3 DEF Outbound
    <3> HIDE DEF o
    <3> QED BY <1>4, <3>1, <3>2 DEF RemoteTypeOK
  <2> QED BY <2>4, <2>5
<1> QED BY <1>6, <1>7, <1>8, <1>9 DEF Arrive

LEMMA RemoteTypesOnward ==
  ASSUME RemoteTypeOK, NEW o \in outbound, Onward(o)
  PROVE  RemoteTypeOK'
<1>1. o.swap \in Swaps /\ o.amount \in Nat /\ o.receiver \in Holders /\ o.recovery \in Holders
  BY DEF RemoteTypeOK, Outbound, Holders
<1>2. rested' \subseteq Rested
  BY <1>1, RestType DEF Onward
<1>3. /\ outbound' = outbound \ {o}
      /\ UNCHANGED <<step, dest, home, memo, fee, msgTransfer, inbound>>
  BY DEF Onward
<1> QED BY <1>2, <1>3 DEF RemoteTypeOK

LEMMA RemoteTypesStep ==
  TxInv /\ RemoteTypeOK /\ [RemoteNext]_<<vars, remoteVars>> => (TxInv /\ RemoteTypeOK)'
<1> SUFFICES ASSUME TxInv, RemoteTypeOK, [RemoteNext]_<<vars, remoteVars>>
             PROVE  TxInv' /\ RemoteTypeOK'
  OBVIOUS
<1>1. TxInv'
  BY RemoteStep, TxStep
<1>2. ASSUME UNCHANGED remoteVars PROVE RemoteTypeOK'
  BY <1>2 DEF remoteVars, RemoteTypeOK
<1>3. ASSUME NEW s \in Swaps, RemoteCall(s) PROVE RemoteTypeOK'
  BY <1>3, RemoteTypesCall
<1>4. ASSUME NEW p \in inbound, Arrive(p) \/ Refunded(p) PROVE RemoteTypeOK'
  BY <1>4, RemoteTypesArrival
<1>5. ASSUME NEW o \in outbound, Onward(o) PROVE RemoteTypeOK'
  BY <1>5, RemoteTypesOnward
<1> QED BY <1>1, <1>2, <1>3, <1>4, <1>5 DEF RemoteNext

LEMMA RemoteTypesInit == RemoteInit => TxInv /\ RemoteTypeOK
<1> SUFFICES ASSUME RemoteInit PROVE TxInv /\ RemoteTypeOK
  OBVIOUS
<1>1. TxInv
  BY TxInit DEF RemoteInit
<1>2. Sender \in Accounts /\ Sender \in Holders
  BY ClassicAssumption DEF Holders
<1>3. RemoteTypeOK
  BY <1>2, NoMemoIsMemo DEF RemoteInit, RemoteTypeOK
<1> QED BY <1>1, <1>3

\* Each variable has its type: no amount is negative, neither the minimum of a memo
\* (calculateMinimumReceive) nor what the user has on Oraichain while transfers of
\* all kinds are under way.
THEOREM RemoteTypes == RemoteSpec => [](TypeOK /\ RemoteTypeOK)
<1>1. TxInv /\ RemoteTypeOK => TypeOK /\ RemoteTypeOK
  BY DEF TxInv
<1> QED BY RemoteTypesInit, RemoteTypesStep, <1>1, PTL DEF RemoteSpec

-----------------------------------------------------------------------------
(***************************************************************************)
(* How long a transfer to Oraichain may be under way.                      *)
(***************************************************************************)
\* The same as for transfers off Oraichain, except over the gravity bridge, where
\* nothing expires.
NoLongWaitInbound == \A p \in inbound : p.expires => Soon(p.deadline)

RemoteWaitInv ==
  /\ TxInv /\ WaitInv
  /\ msgTransfer = [s \in Swaps |-> msgTransfer[s]]
  /\ \A s \in Swaps : Soon(msgTransfer[s].deadline)
  /\ NoLongWaitInbound

LEMMA RemoteWaitStep ==
  RemoteWaitInv /\ [RemoteNext]_<<vars, remoteVars>> => RemoteWaitInv'
<1> SUFFICES ASSUME RemoteWaitInv, [RemoteNext]_<<vars, remoteVars>> PROVE RemoteWaitInv'
  OBVIOUS
<1>1. TxInv /\ WaitInv /\ [Next]_vars
  BY RemoteStep DEF RemoteWaitInv
<1>2. TxInv' /\ WaitInv'
  BY <1>1, TxStep, WaitStep
<1>3. ASSUME NEW d, Soon(d) PROVE Soon(d)'
  BY <1>1, <1>3, SoonStays
<1>4. ASSUME msgTransfer' = msgTransfer, inbound' \subseteq inbound PROVE RemoteWaitInv'
  <2>1. \A s \in Swaps : Soon(msgTransfer[s].deadline)'
    BY <1>3, <1>4 DEF RemoteWaitInv
  <2>2. \A p \in inbound' : p.expires => Soon(p.deadline)'
    BY <1>3, <1>4 DEF RemoteWaitInv, NoLongWaitInbound
  <2> QED BY <1>2, <1>4, <2>1, <2>2 DEF RemoteWaitInv, NoLongWaitInbound
<1>5. ASSUME NEW s \in Swaps, BuildTransferToOraichain(s) PROVE RemoteWaitInv'
  <2>1. now <= MaxTime /\ now \in Nat /\ MaxTime \in Nat /\ IBC_TRANSFER_TIMEOUT \in Nat
    BY <1>1, <1>5, ClassicAssumption DEF BuildTransferToOraichain, TxInv, TypeOK
  <2>2. Soon(now + IBC_TRANSFER_TIMEOUT)
    BY <2>1 DEF Soon
  <2>3. PICK m : m.deadline = now + IBC_TRANSFER_TIMEOUT
                 /\ msgTransfer' = [msgTransfer EXCEPT ![s] = m]
    <3> DEFINE m == [receiver |-> IF request[s].from = "noble" /\ request[s].recipient = "valid"
                                  THEN "recipient" ELSE account,
                     deadline |-> now + IBC_TRANSFER_TIMEOUT]
    <3>1. m.deadline = now + IBC_TRANSFER_TIMEOUT
      OBVIOUS
    <3>2. msgTransfer' = [msgTransfer EXCEPT ![s] = m]
      BY <1>5 DEF BuildTransferToOraichain
    <3> HIDE DEF m
    <3> QED BY <3>1, <3>2
  <2>4. inbound' = inbound
    BY <1>5 DEF BuildTransferToOraichain
  <2>5. \A t \in Swaps : Soon(msgTransfer'[t].deadline)
    BY <2>2, <2>3 DEF RemoteWaitInv
  <2>6. UNCHANGED now
    BY <1>5 DEF BuildTransferToOraichain, vars, worldVars
  <2>7. \A d : Soon(d) => Soon(d)'
    BY <2>6 DEF Soon
  <2>8. msgTransfer' = [t \in Swaps |-> msgTransfer'[t]]
    <3>1. msgTransfer = [t \in Swaps |-> msgTransfer[t]]
      BY DEF RemoteWaitInv
    <3> QED BY <2>3, <3>1
  <2> QED BY <1>2, <2>4, <2>5, <2>7, <2>8 DEF RemoteWaitInv, NoLongWaitInbound
<1>6. ASSUME NEW s \in Swaps, SignTransfer(s) \/ DepositOnEvm(s) PROVE RemoteWaitInv'
  <2>1. PICK p : /\ inbound' = inbound \cup {p}
                 /\ p.expires => p.deadline = msgTransfer[s].deadline
    <3>1. CASE SignTransfer(s)
      <4> DEFINE p == [swap |-> s, receiver |-> msgTransfer[s].receiver, memo |-> memo[s],
                       expires |-> TRUE, deadline |-> msgTransfer[s].deadline]
      <4>1. p.deadline = msgTransfer[s].deadline /\ inbound' = inbound \cup {p}
        BY <3>1 DEF SignTransfer
      <4> HIDE DEF p
      <4> QED BY <4>1
    <3>2. CASE DepositOnEvm(s)
      <4> DEFINE p == [swap |-> s, receiver |-> home[s], memo |-> memo[s],
                       expires |-> FALSE, deadline |-> 0]
      <4>1. ~p.expires /\ inbound' = inbound \cup {p}
        BY <3>2 DEF DepositOnEvm
      <4> HIDE DEF p
      <4> QED BY <4>1
    <3> QED BY <1>6, <3>1, <3>2
  <2>2. msgTransfer' = msgTransfer /\ UNCHANGED now
    BY <1>6 DEF SignTransfer, DepositOnEvm, vars, worldVars
  <2>3. \A d : Soon(d) => Soon(d)'
    BY <2>2 DEF Soon
  <2> QED BY <1>2, <2>1, <2>2, <2>3 DEF RemoteWaitInv, NoLongWaitInbound
<1>7. ASSUME NEW s \in Swaps, RemoteCall(s) PROVE RemoteWaitInv'
  BY <1>4, <1>5, <1>6, <1>7 DEF RemoteCall, GetToAddress, ProcessRemote, GiveUp
<1>8. ASSUME NEW p \in inbound, Arrive(p) \/ Refunded(p) PROVE RemoteWaitInv'
  BY <1>4, <1>8 DEF Arrive, Unswapped, Recovered, Swapped, Refunded, Arrives
<1>9. ASSUME NEW o \in outbound, Onward(o) PROVE RemoteWaitInv'
  BY <1>4, <1>9 DEF Onward
<1>10. CASE UNCHANGED remoteVars
  BY <1>4, <1>10 DEF remoteVars
<1> QED BY <1>7, <1>8, <1>9, <1>10 DEF RemoteNext

LEMMA RemoteWaitInit == RemoteInit => RemoteWaitInv
<1> SUFFICES ASSUME RemoteInit PROVE RemoteWaitInv
  OBVIOUS
<1>1. TxInv /\ WaitInv
  BY TxInit, WaitInit DEF RemoteInit
<1>2. \A s \in Swaps : msgTransfer[s].deadline = 0
  BY DEF RemoteInit
<1> QED BY <1>1, <1>2, ZeroIsSoon DEF RemoteInit, RemoteWaitInv, NoLongWaitInbound

\* Whichever way the tokens go, a transfer that can expire does so within the timeout
\* from now on (swapCosmosToOtherNetwork, calculateTimeoutTimestamp): what nobody
\* relays comes back as soon as that has passed.
THEOREM RemoteTransfersTimeOutSoon == RemoteSpec => [](NoLongWait /\ NoLongWaitInbound)
<1>1. RemoteWaitInv => NoLongWait /\ NoLongWaitInbound
  BY DEF RemoteWaitInv, WaitInv
<1> QED BY RemoteWaitInit, RemoteWaitStep, <1>1, PTL DEF RemoteSpec
=============================================================================
