------------------------- MODULE ClassicSwap_proofs -------------------------
(***************************************************************************)
(* Proofs about ClassicSwap, for any number of calls, accounts, requests   *)
(* and pools.  As long as the user picks another account at most once,     *)
(* what is transferred goes to the sender's own account or to the          *)
(* recipient it named.  Each variable has its type.  And all the calls     *)
(* together cost the user no more than the slippage that was agreed to:    *)
(* for this, sums are shown to be what one takes them for.                 *)
(***************************************************************************)
EXTENDS ClassicSwap, FiniteSetTheorems, SequenceTheorems, TLAPS

\* The account in the wallet is the sender, or another one for good.
SwitchedAway == account # Sender /\ switches = MaxSwitches

Named(s, receiver) ==
  receiver = Sender \/ (receiver = "recipient" /\ request[s].recipient = "valid")

\* Nobody signs a transaction that pays an account which is not the sender's.
PayInv ==
  /\ pc = [s \in Swaps |-> pc[s]] /\ tx = [s \in Swaps |-> tx[s]]
  /\ account \in Accounts /\ switches \in 0..MaxSwitches
  /\ \A s \in Swaps :
       /\ pc[s] \in {"fee", "build"} => account = Sender \/ SwitchedAway
       /\ pc[s] \in {"check", "sign"} => Named(s, tx[s].receiver) \/ SwitchedAway
       /\ pc[s] = "broadcast" => Named(s, tx[s].receiver)
  /\ \A p \in packets : p.swap \in Swaps /\ Named(p.swap, p.receiver)

\* What BuildSwap and BuildTransfer make.
LEMMA SwapPartReceiver == \A s : SwapPart(s).receiver = Sender
BY DEF SwapPart, NoTx

\* The receiver of a transfer is the one that is put in.
LEMMA TransferReceiver ==
  ASSUME NEW s, NEW amount, NEW receiver, NEW bridge, NEW deadline
  PROVE  [SwapPart(s) EXCEPT !.transfer = TRUE, !.amount = amount, !.receiver = receiver,
            !.bridge = bridge, !.deadline = deadline].receiver = receiver
BY DEF SwapPart, NoTx

\* At the start there is nothing to sign and nothing under way.
LEMMA PayInit == Init => PayInv
BY ClassicAssumption DEF Init, PayInv

\* Every step of a call keeps the receivers.
LEMMA PayCall == ASSUME PayInv, NEW s \in Swaps, Call(s) PROVE PayInv'
<1>1. CASE Simulate(s)
  BY <1>1 DEF Simulate, Goto, PayInv, Named, SwitchedAway, chainVars, worldVars
<1>2. CASE ProcessUniversalSwap(s)
  <2>1. Dispatch(request[s]) \in {"alphaSmartRouterSwapNewMsg", "swap", "sender",
                                  "swapCosmosToOtherNetwork", "transferAndSwap"}
    BY DEF Dispatch
  <2>2. pc'[s] \notin {"fee", "build", "check", "sign", "broadcast"}
    BY <1>2, <2>1 DEF ProcessUniversalSwap, Goto, PayInv
  <2> QED BY <1>2, <2>2 DEF ProcessUniversalSwap, Goto, PayInv, Named, SwitchedAway,
             callVars, chainVars, worldVars
<1>3. CASE CheckSender(s)
  BY <1>3 DEF CheckSender, Goto, PayInv, Named, SwitchedAway, callVars, chainVars, worldVars
<1>4. CASE CheckFeeRelayer(s)
  BY <1>4 DEF CheckFeeRelayer, Goto, PayInv, Named, SwitchedAway, callVars, chainVars,
     worldVars
<1>5. CASE BuildSwap(s)
  <2>1. tx'[s].receiver = Sender
    BY <1>5, SwapPartReceiver DEF BuildSwap, PayInv
  <2> QED BY <1>5, <2>1 DEF BuildSwap, Goto, PayInv, Named, SwitchedAway, chainVars, worldVars
<1>6. CASE BuildTransfer(s)
  <2>1. tx'[s].receiver = Receiver(request[s])
    <3> DEFINE new == [SwapPart(s) EXCEPT !.transfer = TRUE, !.amount = Bridged(s),
                         !.receiver = Receiver(request[s]),
                         !.bridge = UsesBridge(request[s]), !.deadline = Deadline(s)]
    <3>1. tx' = [tx EXCEPT ![s] = new]
      BY <1>6 DEF BuildTransfer
    <3>2. new.receiver = Receiver(request[s])
      BY TransferReceiver
    <3> HIDE DEF new
    <3> QED BY <3>1, <3>2 DEF PayInv
  <2>2. Named(s, tx'[s].receiver) \/ SwitchedAway
    BY <1>6, <2>1 DEF BuildTransfer, Receiver, Named, PayInv
  <2>3. pc'[s] \in {"check", "sign"}
    BY <1>6 DEF BuildTransfer, Goto, PayInv
  <2> QED BY <1>6, <2>2, <2>3 DEF BuildTransfer, Goto, PayInv, Named, SwitchedAway,
             chainVars, worldVars
<1>7. CASE CheckBalanceChannelIbc(s)
  BY <1>7 DEF CheckBalanceChannelIbc, Goto, PayInv, Named, SwitchedAway, callVars,
     chainVars, worldVars
<1>8. CASE SignAndBroadcast(s)
  BY <1>8 DEF SignAndBroadcast, Goto, PayInv, Named, SwitchedAway, callVars, chainVars,
     worldVars
<1>9. CASE Throw(s)
  BY <1>9 DEF Throw, Goto, PayInv, Named, SwitchedAway, callVars, chainVars, worldVars
<1>10. CASE Execute(s)
  <2>1. pc[s] = "broadcast" /\ pc' = [pc EXCEPT ![s] = "done"]
    BY <1>10 DEF Execute, Goto
  <2>2. UNCHANGED <<request, tx, account, switches>>
    BY <1>10 DEF Execute, callVars, worldVars
  <2>3. ASSUME NEW p \in packets' PROVE p.swap \in Swaps /\ Named(p.swap, p.receiver)
    <3>1. CASE p \in packets
      BY <3>1 DEF PayInv
    <3>2. CASE p \notin packets
      <4>1. p = [swap |-> s, amount |-> tx[s].amount, receiver |-> tx[s].receiver,
                 bridge |-> tx[s].bridge, deadline |-> tx[s].deadline]
        BY <1>10, <3>2 DEF Execute
      <4> QED BY <2>1, <4>1 DEF PayInv
    <3> QED BY <3>1, <3>2
  <2> QED BY <2>1, <2>2, <2>3 DEF PayInv, Named, SwitchedAway
<1>11. CASE Fail(s)
  BY <1>11 DEF Fail, Goto, PayInv, Named, SwitchedAway, callVars, chainVars, worldVars
<1> QED BY <1>1, <1>2, <1>3, <1>4, <1>5, <1>6, <1>7, <1>8, <1>9, <1>10, <1>11 DEF Call

\* Other people, the clock and the relayers change no receiver; the wallet's
\* account changes once.
LEMMA PayStep == MaxSwitches <= 1 /\ PayInv /\ [Next]_vars => PayInv'
<1> SUFFICES ASSUME MaxSwitches <= 1, PayInv, [Next]_vars PROVE PayInv'
  OBVIOUS
<1>1. CASE \E s \in Swaps : Call(s)
  BY <1>1, PayCall
<1>2. CASE \E p \in packets : Deliver(p) \/ Timeout(p)
  BY <1>2 DEF Deliver, Timeout, PayInv, Named, SwitchedAway, callVars, worldVars
<1>3. CASE Others
  BY <1>3 DEF Others, PayInv, Named, SwitchedAway, callVars
<1>4. CASE SwitchAccount
  <2>1. /\ switches < MaxSwitches /\ switches' = switches + 1
        /\ account' \in Accounts /\ account' # account
        /\ UNCHANGED <<request, tx, pc, packets>>
    BY <1>4 DEF SwitchAccount, callVars, chainVars
  <2>2. switches' = MaxSwitches /\ switches # MaxSwitches /\ switches' \in 0..MaxSwitches
    BY <2>1, ClassicAssumption DEF PayInv
  <2>3. account = Sender => SwitchedAway'
    BY <2>1, <2>2 DEF SwitchedAway
  <2>4. account' = Sender \/ SwitchedAway'
    BY <2>2 DEF SwitchedAway
  <2> QED BY <2>1, <2>2, <2>3, <2>4 DEF PayInv, Named, SwitchedAway
<1>5. CASE Tick
  BY <1>5 DEF Tick, PayInv, Named, SwitchedAway, callVars, chainVars
<1>6. CASE UNCHANGED vars
  BY <1>6 DEF vars, PayInv, Named, SwitchedAway, callVars, chainVars, worldVars
<1> QED BY <1>1, <1>2, <1>3, <1>4, <1>5, <1>6 DEF Next

\* A transfer pays the sender's own account or the recipient that the request
\* named, if the user picks another account in the wallet at most once
\* (swapAndTransferToOtherNetworks, getCosmosAddress, signAndBroadcast).
THEOREM TransfersPayTheSender == MaxSwitches <= 1 => (Spec => []PaidToOwnAccount)
<1> SUFFICES ASSUME MaxSwitches <= 1 PROVE Spec => []PaidToOwnAccount
  OBVIOUS
<1>1. PayInv /\ [Next]_vars => PayInv'
  BY PayStep
<1>2. PayInv => PaidToOwnAccount
  BY DEF PayInv, Named, PaidToOwnAccount
<1> QED BY PayInit, <1>1, <1>2, PTL DEF Spec

-----------------------------------------------------------------------------
(***************************************************************************)
(* Sums.  SumFunctionOnSet folds over a set in an order that CHOOSE gives; *)
(* here is what it comes to, for every finite set: by the smallest set for *)
(* which it were otherwise.                                                *)
(***************************************************************************)

\* A set of natural numbers has a smallest element.
LEMMA LeastNumber ==
  ASSUME NEW T \in SUBSET Nat, T # {}
  PROVE  \E x \in T : \A y \in T : x <= y
<1> DEFINE R == OpToRel(<, Nat)
<1>1. \A x, y \in Nat : y < x => <<y, x>> \in R
  BY DEF OpToRel
<1>2. IsWellFoundedOn(R, Nat)
  BY NatLessThanWellFounded
<1> HIDE DEF R
<1>3. PICK x \in T : \A y \in T : ~(<<y, x>> \in R)
  BY <1>2, WFMin
<1>4. \A y \in T : ~(y < x)
  BY <1>1, <1>3
<1> QED BY <1>4

\* What passes from the smaller subsets of a finite set to the larger ones is
\* true of all of them.
LEMMA SubsetInduction ==
  ASSUME NEW S, IsFiniteSet(S), NEW Good,
         \A s \in SUBSET S : (\A t \in SUBSET S : t \subseteq s /\ t # s => t \in Good)
                               => s \in Good
  PROVE  \A s \in SUBSET S : s \in Good
<1> SUFFICES ASSUME NEW u \in SUBSET S, u \notin Good PROVE FALSE
  OBVIOUS
<1>0. \A s \in SUBSET S : IsFiniteSet(s) /\ Cardinality(s) \in Nat
  BY FS_Subset, FS_CardinalityType
<1> DEFINE Bad == {s \in SUBSET S : s \notin Good}
           sizes == {Cardinality(s) : s \in Bad}
<1>1. sizes \in SUBSET Nat /\ sizes # {}
  BY <1>0
<1>2. PICK n \in sizes : \A m \in sizes : n <= m
  BY <1>1, LeastNumber
<1>3. PICK s \in Bad : n = Cardinality(s)
  BY <1>2
<1>4. ASSUME NEW t \in SUBSET S, t \subseteq s, t # s PROVE t \in Good
  <2>1. IsFiniteSet(s) /\ t \in SUBSET s
    BY <1>0, <1>4
  <2>2. Cardinality(t) <= Cardinality(s) /\ Cardinality(t) # Cardinality(s)
    BY <1>4, <2>1, FS_Subset
  <2>3. Cardinality(t) < n /\ Cardinality(t) \in Nat /\ n \in Nat
    BY <1>0, <1>3, <2>2
  <2>4. Cardinality(t) \notin sizes
    BY <1>2, <2>3
  <2> QED BY <1>4, <2>4
<1> QED BY <1>3, <1>4

\* One step of the fold, and the fold as the library chooses it.
FoldStep(v, f, s) ==
  IF s = {} THEN 0
  ELSE v[CHOOSE x \in s : TRUE] + f[s \ {CHOOSE x \in s : TRUE}]

Folds(v, S, f) == f = [s \in SUBSET S |-> FoldStep(v, f, s)]

LEMMA SumIsChosen ==
  ASSUME NEW v, NEW S
  PROVE  SumFunctionOnSet(v, S) = (CHOOSE f : Folds(v, S, f))[S]
BY DEF SumFunctionOnSet, FoldFunctionOnSet, MapThenFoldSet, FoldStep, Folds

\* There is such a fold.
LEMMA FoldExists ==
  ASSUME NEW v, NEW S, IsFiniteSet(S)
  PROVE  \E f : Folds(v, S, f)
<1>0. \A s \in SUBSET S : IsFiniteSet(s) /\ Cardinality(s) \in Nat
  BY FS_Subset, FS_CardinalityType
<1> DEFINE Upto(n) == {s \in SUBSET S : Cardinality(s) <= n}
           IsFold(n, f) == f = [s \in Upto(n) |-> FoldStep(v, f, s)]
           Bad == {n \in Nat : ~\E f : IsFold(n, f)}
           rest(s) == s \ {CHOOSE x \in s : TRUE}
<1>r. ASSUME NEW s \in SUBSET S, s # {}
      PROVE  rest(s) \in SUBSET S /\ Cardinality(rest(s)) + 1 = Cardinality(s)
  <2> DEFINE c == CHOOSE x \in s : TRUE
  <2>1. c \in s
    BY <1>r
  <2> HIDE DEF c
  <2>2. IsFiniteSet(s \ {c}) /\ Cardinality(s \ {c}) = Cardinality(s) - 1
    BY <1>0, <2>1, FS_RemoveElement
  <2>3. s \ {c} \in SUBSET S /\ Cardinality(s) \in Nat
    BY <1>0
  <2> QED BY <2>2, <2>3 DEF c
<1>1. \E f : IsFold(0, f)
  <2>1. \A s \in Upto(0) : s = {}
    BY <1>0, FS_EmptySet
  <2> DEFINE f == [s \in Upto(0) |-> 0]
  <2>2. \A s \in Upto(0) : FoldStep(v, f, s) = 0
    BY <2>1 DEF FoldStep
  <2>3. f = [s \in Upto(0) |-> FoldStep(v, f, s)]
    BY <2>2
  <2> QED BY <2>3
<1>2. ASSUME NEW n \in Nat, NEW f, IsFold(n, f) PROVE \E g : IsFold(n + 1, g)
  <2> DEFINE g == [s \in Upto(n + 1) |-> FoldStep(v, f, s)]
  <2>1. ASSUME NEW s \in Upto(n) PROVE g[s] = f[s]
    <3>1. s \in Upto(n + 1)
      BY <1>0
    <3>2. g[s] = FoldStep(v, f, s)
      BY <3>1
    <3>3. f[s] = FoldStep(v, f, s)
      BY <1>2
    <3> QED BY <3>2, <3>3
  <2>2. ASSUME NEW s \in Upto(n + 1) PROVE FoldStep(v, f, s) = FoldStep(v, g, s)
    <3>1. CASE s = {}
      BY <3>1 DEF FoldStep
    <3>2. CASE s # {}
      <4>1. rest(s) \in Upto(n)
        BY <1>0, <1>r, <3>2
      <4>2. g[rest(s)] = f[rest(s)]
        BY <2>1, <4>1
      <4> HIDE DEF g
      <4> QED BY <4>2, <3>2 DEF FoldStep
    <3> QED BY <3>1, <3>2
  <2> DEFINE h == [s \in Upto(n + 1) |-> FoldStep(v, g, s)]
  <2>3. g = h
    BY <2>2
  <2> QED BY <2>3
<1>3. Bad = {}
  <2> SUFFICES ASSUME Bad # {} PROVE FALSE
    OBVIOUS
  <2>1. Bad \in SUBSET Nat
    OBVIOUS
  <2> HIDE DEF IsFold
  <2>2. PICK m \in Bad : \A y \in Bad : m <= y
    BY <2>1, LeastNumber
  <2>3. m # 0 /\ m \in Nat
    BY <1>1
  <2>4. m - 1 \in Nat /\ m - 1 \notin Bad
    BY <2>2, <2>3
  <2>5. PICK f : IsFold(m - 1, f)
    BY <2>4
  <2>6. \E g : IsFold(m - 1 + 1, g)
    BY <1>2, <2>4, <2>5
  <2> QED BY <2>2, <2>3, <2>6
<1>4. PICK f : IsFold(Cardinality(S), f)
  BY <1>0, <1>3
<1>5. Upto(Cardinality(S)) = SUBSET S
  <2>1. \A s \in SUBSET S : Cardinality(s) <= Cardinality(S)
    BY FS_Subset
  <2> QED BY <2>1
<1>6. f = [s \in SUBSET S |-> FoldStep(v, f, s)]
  BY <1>4, <1>5
<1> QED BY <1>6 DEF Folds

\* A fold over a set is one over its subsets too.
LEMMA SumIsFold ==
  ASSUME NEW v, NEW S, IsFiniteSet(S), NEW f, Folds(v, S, f), NEW T \in SUBSET S
  PROVE  SumFunctionOnSet(v, T) = f[T]
<1> DEFINE g == CHOOSE h : Folds(v, T, h)
           Good == {s \in SUBSET T : g[s] = f[s]}
<1>1. IsFiniteSet(T)
  BY FS_Subset
<1>2. Folds(v, T, g)
  BY <1>1, FoldExists
<1> HIDE DEF g
<1>3. \A s \in SUBSET T : g[s] = FoldStep(v, g, s)
  BY <1>2 DEF Folds
<1>4. \A s \in SUBSET T : f[s] = FoldStep(v, f, s)
  BY DEF Folds
<1>5. ASSUME NEW s \in SUBSET T, \A t \in SUBSET T : t \subseteq s /\ t # s => t \in Good
      PROVE  s \in Good
  <2>1. CASE s = {}
    BY <1>3, <1>4, <2>1 DEF FoldStep
  <2>2. CASE s # {}
    <3> DEFINE c == CHOOSE x \in s : TRUE
    <3>1. c \in s
      BY <2>2
    <3>2. g[s] = v[c] + g[s \ {c}] /\ f[s] = v[c] + f[s \ {c}]
      BY <1>3, <1>4, <2>2 DEF FoldStep
    <3> HIDE DEF c
    <3>3. s \ {c} \in Good
      BY <1>5, <3>1
    <3> QED BY <3>2, <3>3
  <2> QED BY <2>1, <2>2
<1> HIDE DEF Good
<1>6. T \in Good
  BY <1>1, <1>5, SubsetInduction
<1> QED BY <1>6, SumIsChosen DEF Good, g

\* A sum over nothing, and over one element more.
LEMMA SumOfNothing == \A v : SumFunctionOnSet(v, {}) = 0
<1> TAKE v
<1>1. IsFiniteSet({})
  BY FS_EmptySet
<1>2. PICK f : Folds(v, {}, f)
  BY <1>1, FoldExists
<1>3. f[{}] = 0
  BY <1>2 DEF Folds, FoldStep
<1> QED BY <1>1, <1>2, <1>3, SumIsFold

LEMMA SumStep ==
  ASSUME NEW v, NEW S, IsFiniteSet(S), S # {}
  PROVE  \E c \in S : SumFunctionOnSet(v, S) = v[c] + SumFunctionOnSet(v, S \ {c})
<1> DEFINE c == CHOOSE x \in S : TRUE
<1>1. c \in S
  OBVIOUS
<1>2. PICK f : Folds(v, S, f)
  BY FoldExists
<1>3. f[S] = v[c] + f[S \ {c}]
  BY <1>2 DEF Folds, FoldStep
<1> HIDE DEF c
<1>4. SumFunctionOnSet(v, S) = f[S] /\ SumFunctionOnSet(v, S \ {c}) = f[S \ {c}]
  BY <1>2, SumIsFold
<1> QED BY <1>1, <1>3, <1>4

\* The sum of natural numbers is one.
LEMMA SumOfNaturals ==
  ASSUME NEW v, NEW S, IsFiniteSet(S), \A x \in S : v[x] \in Nat
  PROVE  SumFunctionOnSet(v, S) \in Nat
<1> DEFINE Good == {s \in SUBSET S : SumFunctionOnSet(v, s) \in Nat}
<1>1. ASSUME NEW s \in SUBSET S, \A t \in SUBSET S : t \subseteq s /\ t # s => t \in Good
      PROVE  s \in Good
  <2>1. CASE s = {}
    BY <2>1, SumOfNothing
  <2>2. CASE s # {}
    <3>1. IsFiniteSet(s)
      BY FS_Subset
    <3>2. PICK c \in s : SumFunctionOnSet(v, s) = v[c] + SumFunctionOnSet(v, s \ {c})
      BY <2>2, <3>1, SumStep
    <3>3. s \ {c} \in Good /\ v[c] \in Nat
      BY <1>1, <3>2
    <3> QED BY <3>2, <3>3
  <2> QED BY <2>1, <2>2
<1> HIDE DEF Good
<1>2. S \in Good
  BY <1>1, SubsetInduction
<1> QED BY <1>2 DEF Good

\* It does not matter which element is taken first.
LEMMA SumWithout ==
  ASSUME NEW v, NEW S, IsFiniteSet(S), \A x \in S : v[x] \in Nat, NEW e \in S
  PROVE  SumFunctionOnSet(v, S) = v[e] + SumFunctionOnSet(v, S \ {e})
<1> DEFINE Sum(s) == SumFunctionOnSet(v, s)
           Good == {s \in SUBSET S : \A x \in s : Sum(s) = v[x] + Sum(s \ {x})}
<1>1. ASSUME NEW s \in SUBSET S, \A t \in SUBSET S : t \subseteq s /\ t # s => t \in Good
      PROVE  s \in Good
  <2> SUFFICES ASSUME NEW x \in s PROVE Sum(s) = v[x] + Sum(s \ {x})
    OBVIOUS
  <2>1. PICK c \in s : Sum(s) = v[c] + Sum(s \ {c})
    BY FS_Subset, SumStep
  <2>2. CASE x = c
    BY <2>1, <2>2
  <2>3. CASE x # c
    <3>1. s \ {c} \in Good /\ s \ {x} \in Good
      BY <1>1
    <3>2. Sum(s \ {c}) = v[x] + Sum((s \ {c}) \ {x}) /\ Sum(s \ {x}) = v[c] + Sum((s \ {x}) \ {c})
      BY <2>3, <3>1
    <3>3. (s \ {c}) \ {x} = (s \ {x}) \ {c}
      OBVIOUS
    <3>4. Sum((s \ {c}) \ {x}) \in Nat /\ v[x] \in Nat /\ v[c] \in Nat
      <4>1. IsFiniteSet((s \ {c}) \ {x})
        BY FS_Subset
      <4> QED BY <4>1, SumOfNaturals
    <3> HIDE DEF Sum
    <3> QED BY <2>1, <3>2, <3>3, <3>4
  <2> QED BY <2>2, <2>3
<1> HIDE DEF Good
<1>2. S \in Good
  BY <1>1, SubsetInduction
<1> QED BY <1>2 DEF Good

\* A linear bound on each term is one on the sums.
LEMMA SumLinear ==
  ASSUME NEW a, NEW b, NEW S, IsFiniteSet(S), NEW p \in Nat, NEW q \in Nat, NEW r \in Nat,
         \A x \in S : a[x] \in Nat /\ b[x] \in Nat /\ p * a[x] <= q * b[x] + r
  PROVE  p * SumFunctionOnSet(a, S) <= q * SumFunctionOnSet(b, S) + r * Cardinality(S)
<1> DEFINE A(s) == SumFunctionOnSet(a, s)
           B(s) == SumFunctionOnSet(b, s)
           Good == {s \in SUBSET S : p * A(s) <= q * B(s) + r * Cardinality(s)}
<1>1. ASSUME NEW s \in SUBSET S, \A t \in SUBSET S : t \subseteq s /\ t # s => t \in Good
      PROVE  s \in Good
  <2>0. IsFiniteSet(s)
    BY FS_Subset
  <2>1. CASE s = {}
    <3>1. A(s) = 0 /\ B(s) = 0 /\ Cardinality(s) = 0
      BY <2>1, SumOfNothing, FS_EmptySet
    <3> HIDE DEF A, B
    <3>2. p * 0 <= q * 0 + r * 0
      OBVIOUS
    <3> QED BY <3>1, <3>2
  <2>2. CASE s # {}
    <3>1. PICK c \in s : TRUE
      BY <2>2
    <3> DEFINE t == s \ {c}
    <3>2. /\ A(s) = a[c] + A(t) /\ B(s) = b[c] + B(t)
      BY <2>0, SumWithout
    <3>3. IsFiniteSet(t) /\ Cardinality(s) = Cardinality(t) + 1 /\ Cardinality(t) \in Nat
      <4>1. IsFiniteSet(t) /\ Cardinality(t) = Cardinality(s) - 1
        BY <2>0, FS_RemoveElement
      <4>2. Cardinality(t) \in Nat /\ Cardinality(s) \in Nat
        BY <2>0, <4>1, FS_CardinalityType
      <4> QED BY <4>1, <4>2
    <3>4. A(t) \in Nat /\ B(t) \in Nat
      BY <3>3, SumOfNaturals
    <3>5. p * A(t) <= q * B(t) + r * Cardinality(t)
      <4>1. t \in Good
        BY <1>1
      <4> QED BY <4>1
    <3>6. a[c] \in Nat /\ b[c] \in Nat /\ p * a[c] <= q * b[c] + r
      OBVIOUS
    <3> HIDE DEF A, B, t
    <3> DEFINE n == Cardinality(t)
               x == a[c]
               y == b[c]
               X == A(t)
               Y == B(t)
    <3>7. x \in Nat /\ y \in Nat /\ X \in Nat /\ Y \in Nat /\ n \in Nat
      BY <3>3, <3>4, <3>6
    <3>8. p * x <= q * y + r /\ p * X <= q * Y + r * n
      BY <3>5, <3>6
    <3>9. A(s) = x + X /\ B(s) = y + Y /\ Cardinality(s) = n + 1
      BY <3>2, <3>3
    <3> HIDE DEF n, x, y, X, Y
    <3>10. p * (x + X) = p * x + p * X /\ q * (y + Y) = q * y + q * Y /\ r * (n + 1) = r * n + r
      BY <3>7
    <3>11. p * x \in Nat /\ p * X \in Nat /\ q * y \in Nat /\ q * Y \in Nat /\ r * n \in Nat
      BY <3>7
    <3>12. p * (x + X) <= q * (y + Y) + r * (n + 1)
      BY <3>8, <3>10, <3>11
    <3> QED BY <3>9, <3>12
  <2> QED BY <2>1, <2>2
<1> HIDE DEF Good
<1>2. S \in Good
  BY <1>1, SubsetInduction
<1> QED BY <1>2 DEF Good

\* Equal terms have equal sums.
LEMMA SumSame ==
  ASSUME NEW a, NEW b, NEW S, IsFiniteSet(S), \A x \in S : a[x] \in Nat /\ a[x] = b[x]
  PROVE  SumFunctionOnSet(a, S) = SumFunctionOnSet(b, S)
<1> DEFINE n == Cardinality(S)
           A == SumFunctionOnSet(a, S)
           B == SumFunctionOnSet(b, S)
<1>0. n \in Nat /\ A \in Nat /\ B \in Nat
  BY FS_CardinalityType, SumOfNaturals
<1>1. 1 * A <= 1 * B + 0 * n
  <2>1. \A x \in S : a[x] \in Nat /\ b[x] \in Nat /\ 1 * a[x] <= 1 * b[x] + 0
    OBVIOUS
  <2> QED BY <2>1, SumLinear
<1>2. 1 * B <= 1 * A + 0 * n
  <2>1. \A x \in S : b[x] \in Nat /\ a[x] \in Nat /\ 1 * b[x] <= 1 * a[x] + 0
    OBVIOUS
  <2> QED BY <2>1, SumLinear
<1> HIDE DEF n, A, B
<1>3. A = B
  BY <1>0, <1>1, <1>2
<1> QED BY <1>3 DEF A, B


-----------------------------------------------------------------------------
(***************************************************************************)
(* Rounding down, and the amounts of a request.                            *)
(***************************************************************************)
LEMMA Division ==
  ASSUME NEW x \in Nat, NEW d \in Nat \ {0}
  PROVE  x \div d \in Nat /\ d * (x \div d) <= x /\ x < d * (x \div d) + d
OBVIOUS

\* A quotient is the largest number that fits.
LEMMA DivisionFits ==
  ASSUME NEW x \in Nat, NEW d \in Nat \ {0}, NEW y \in Int, d * y <= x
  PROVE  y <= x \div d
<1> DEFINE q == x \div d
<1>1. q \in Nat /\ x < d * q + d
  BY Division
<1> HIDE DEF q
<1>2. d * (q + 1) = d * q + d
  BY <1>1
<1>3. d * y < d * (q + 1)
  <2>1. d * y \in Int /\ d * (q + 1) \in Int /\ d * q \in Int
    BY <1>1
  <2> QED BY <1>1, <1>2, <2>1
<1>4. y < q + 1
  BY <1>1, <1>3
<1> QED BY <1>1, <1>4

LEMMA Products == \A a, b \in Nat : a * b \in Nat
OBVIOUS

LEMMA RequestFacts ==
  ASSUME NEW r \in Request
  PROVE  /\ r.slippage \in 0..100 /\ r.basisPoints \in 0..AFFILIATE_DECIMAL
         /\ r.relayerFee \in Nat /\ r.legacy \in BOOLEAN /\ r.routes \in Seq(Nat \ {0})
         /\ r.to \in {"Oraichain", "cosmos", "wasm", "evm", "ton"}
BY DEF Request

\* The routes of a request are numbered from 1, and carry numbers of tokens.
LEMMA RouteFacts ==
  ASSUME NEW r \in Request
  PROVE  /\ DOMAIN r.routes = 1..Len(r.routes) /\ Len(r.routes) \in Nat
         /\ IsFiniteSet(DOMAIN r.routes) /\ Cardinality(DOMAIN r.routes) = Len(r.routes)
         /\ \A k \in DOMAIN r.routes : r.routes[k] \in Nat
<1> DEFINE n == Len(r.routes)
<1>1. r.routes \in Seq(Nat \ {0})
  BY RequestFacts
<1>2. n \in Nat /\ DOMAIN r.routes = 1..n /\ \A k \in 1..n : r.routes[k] \in Nat
  BY <1>1, LenProperties, ElementOfSeq
<1> HIDE DEF n
<1>3. IsFiniteSet(1..n) /\ Cardinality(1..n) = n
  <2>1. IsFiniteSet(1..n) /\ Cardinality(1..n) = IF 1 > n THEN 0 ELSE n - 1 + 1
    BY <1>2, FS_Interval
  <2> QED BY <1>2, <2>1
<1> QED BY <1>2, <1>3 DEF n

\* What is swapped is a number of tokens.
LEMMA AmountIsNumber == \A r \in Request : Amount(r) \in Nat
<1> TAKE r \in Request
<1>1. SumFunctionOnSet(r.routes, DOMAIN r.routes) \in Nat
  BY RouteFacts, SumOfNaturals
<1> QED BY <1>1 DEF Amount, SumFunction

LEMMA SimulateAmountIsNumber ==
  ASSUME NEW s, request[s] \in Request, price[s] \in Nat
  PROVE  SimulateAmount(s) \in Nat
BY AmountIsNumber DEF SimulateAmount

LEMMA MinReceivesAreNumbers ==
  ASSUME NEW s, request[s] \in Request, price[s] \in Nat
  PROVE  /\ MinReceives(s) \in Seq(Nat)
         /\ DOMAIN MinReceives(s) = DOMAIN request[s].routes
         /\ \A k \in DOMAIN request[s].routes :
              MinReceives(s)[k] =
                (request[s].routes[k] * price[s] * (100 - request[s].slippage)) \div 100
<1> DEFINE n == Len(request[s].routes)
<1>1. n \in Nat /\ DOMAIN request[s].routes = 1..n /\ \A k \in 1..n : request[s].routes[k] \in Nat
  BY RouteFacts
<1>2. 100 - request[s].slippage \in Nat
  <2>1. request[s].slippage \in 0..100
    BY RequestFacts
  <2> QED BY <2>1
<1>3. ASSUME NEW k \in 1..n
      PROVE (request[s].routes[k] * price[s] * (100 - request[s].slippage)) \div 100 \in Nat
  <2> DEFINE x == request[s].routes[k] * price[s]
             y == 100 - request[s].slippage
  <2>1. x \in Nat /\ y \in Nat
    BY <1>1, <1>2
  <2> HIDE DEF x, y
  <2>2. x * y \in Nat
    BY <2>1
  <2>3. (x * y) \div 100 \in Nat
    BY <2>2
  <2> QED BY <2>3 DEF x, y
<1> HIDE DEF n
<1>4. MinReceives(s) \in [1..n -> Nat]
  BY <1>1, <1>3 DEF MinReceives
<1>5. MinReceives(s) \in Seq(Nat)
  BY <1>1, <1>4, SeqDef
<1> QED BY <1>5 DEF MinReceives

LEMMA FeeIsPart ==
  ASSUME NEW r \in Request, NEW amount \in Nat
  PROVE  /\ AffiliateFee(r, amount) \in Nat /\ AffiliateFee(r, amount) <= amount
         /\ AFFILIATE_DECIMAL * AffiliateFee(r, amount) <= r.basisPoints * amount
<1> DEFINE b == r.basisPoints
           d == AFFILIATE_DECIMAL
           q == (amount * b) \div d
<1>1. b \in Nat /\ d \in Nat \ {0} /\ b <= d
  BY RequestFacts, ClassicAssumption
<1> HIDE DEF b, d
<1>2. amount * b \in Nat /\ amount * b = b * amount
  BY <1>1
<1>3. q \in Nat /\ d * q <= amount * b
  BY <1>1, <1>2, Division
<1> HIDE DEF q
<1>4. d * q <= d * amount
  <2>1. b * amount <= d * amount /\ d * q \in Nat /\ d * amount \in Nat
    BY <1>1, <1>3
  <2> QED BY <1>2, <1>3, <2>1
<1>5. q <= amount
  BY <1>1, <1>3, <1>4
<1> QED BY <1>2, <1>3, <1>5 DEF AffiliateFee, q, b, d

LEMMA BridgedIsNumber ==
  ASSUME NEW s, request[s] \in Request, price[s] \in Nat
  PROVE  Bridged(s) \in Nat
<1> DEFINE part == AFFILIATE_DECIMAL - request[s].basisPoints
<1>1. part \in Nat
  BY RequestFacts, ClassicAssumption
<1> HIDE DEF part
<1>2. SimulateAmount(s) \in Nat /\ Amount(request[s]) \in Nat
  BY AmountIsNumber, SimulateAmountIsNumber
<1>3. (SimulateAmount(s) * part) \div AFFILIATE_DECIMAL \in Nat
  <2>1. SimulateAmount(s) * part \in Nat
    BY <1>1, <1>2
  <2> QED BY <2>1, Division, ClassicAssumption
<1> QED BY <1>2, <1>3 DEF Bridged, part

-----------------------------------------------------------------------------
(***************************************************************************)
(* What a call is about to sign is what was made for it.                   *)
(***************************************************************************)
Elsewhere(r) == r.to \in {"cosmos", "wasm", "evm"}

\* The swaps of a transaction are those of the request, and its transfer takes what
\* Bridged says; the price and the request do not change any more.
Made(s) ==
  /\ tx[s].mins = <<>> \/ tx[s].mins = MinReceives(s)
  /\ tx[s].transfer =>
       /\ Elsewhere(request[s]) /\ tx[s].to = "own" /\ tx[s].amount = Bridged(s)
       /\ request[s].swap => tx[s].mins = MinReceives(s)
  /\ ~tx[s].transfer => tx[s].amount = 0
  /\ pc[s] = "idle" => tx[s] = NoTx
  /\ pc[s] \in {"sender", "fee", "build"} => Elsewhere(request[s])

TxInv == TypeOK /\ \A s \in Swaps : Made(s)

LEMMA NoTxIsTx == NoTx \in Tx
BY ClassicAssumption DEF NoTx, Tx

LEMMA SwapPartMade ==
  ASSUME TxInv, NEW s \in Swaps
  PROVE  /\ SwapPart(s) \in Tx /\ ~SwapPart(s).transfer /\ SwapPart(s).amount = 0
         /\ SwapPart(s).mins = <<>> \/ SwapPart(s).mins = MinReceives(s)
         /\ request[s].swap => SwapPart(s).mins = MinReceives(s)
         /\ request[s].to # "Oraichain" => SwapPart(s).to = "own"
<1>1. MinReceives(s) \in Seq(Nat)
  BY MinReceivesAreNumbers, ClassicAssumption DEF TxInv, TypeOK
<1>2. SwapReceiver(request[s]) \in {"own", "recipient"}
  BY DEF SwapReceiver
<1>3. request[s].to # "Oraichain" => SwapReceiver(request[s]) = "own"
  BY DEF SwapReceiver
<1>4. ~NoTx.transfer /\ NoTx.amount = 0 /\ NoTx.mins = <<>> /\ NoTx.to = "own"
  BY DEF NoTx
<1>5. CASE request[s].swap \/ request[s].to = "Oraichain"
  <2> DEFINE m == MinReceives(s)
             t == SwapReceiver(request[s])
             new == [NoTx EXCEPT !.mins = m, !.to = t]
  <2>1. SwapPart(s) = new
    BY <1>5 DEF SwapPart
  <2>2. m \in Seq(Nat) /\ t \in {"own", "recipient"} /\ (request[s].to # "Oraichain" => t = "own")
    BY <1>1, <1>2, <1>3
  <2>3. new.mins = m /\ new.to = t /\ ~new.transfer /\ new.amount = 0
    BY DEF NoTx
  <2> HIDE DEF m, t
  <2>4. new \in Tx
    BY <2>2, NoTxIsTx DEF Tx
  <2> HIDE DEF new
  <2> QED BY <2>1, <2>2, <2>3, <2>4 DEF m
<1>6. CASE ~(request[s].swap \/ request[s].to = "Oraichain")
  <2>1. SwapPart(s) = NoTx
    BY <1>6 DEF SwapPart
  <2> QED BY <1>4, <1>6, <2>1, NoTxIsTx
<1> QED BY <1>5, <1>6

\* What is asked for and shown does not change for the calls of a transaction.
LEMMA MadeStays ==
  ASSUME TxInv, UNCHANGED <<request, price, tx>>, NEW s \in Swaps,
         \/ pc'[s] = pc[s]
         \/ pc'[s] # "idle" /\ pc'[s] \notin {"sender", "fee", "build"}
         \/ pc'[s] # "idle" /\ Elsewhere(request[s])
  PROVE  Made(s)'
BY DEF TxInv, Made, MinReceives, Bridged, SimulateAmount

\* What the swaps of a call return, less what the affiliates get of each.
Returns(s) == [k \in DOMAIN tx[s].mins |-> Returned(s, k)]
Fees(s) == [k \in DOMAIN tx[s].mins |-> AffiliateFee(request[s], Returned(s, k))]
ReturnedInAll(s) == SumFunctionOnSet(Returns(s), DOMAIN tx[s].mins)
FeesInAll(s) == SumFunctionOnSet(Fees(s), DOMAIN tx[s].mins)

LEMMA ReceivedFacts ==
  ASSUME TxInv, NEW s \in Swaps
  PROVE  /\ IsFiniteSet(DOMAIN tx[s].mins) /\ DOMAIN tx[s].mins \subseteq DOMAIN request[s].routes
         /\ \A k \in DOMAIN tx[s].mins :
              /\ Returns(s)[k] = request[s].routes[k] * rate
              /\ request[s].routes[k] \in Nat /\ Returns(s)[k] \in Nat /\ Fees(s)[k] \in Nat
         /\ ReturnedInAll(s) \in Nat /\ FeesInAll(s) \in Nat
         /\ FeesInAll(s) <= ReturnedInAll(s)
         /\ AFFILIATE_DECIMAL * FeesInAll(s) <= request[s].basisPoints * ReturnedInAll(s)
         /\ Received(s) = ReturnedInAll(s) - FeesInAll(s)
<1> DEFINE D == DOMAIN tx[s].mins
           r == request[s]
           R == ReturnedInAll(s)
           F == FeesInAll(s)
           n == Cardinality(D)
<1>1. r \in Request /\ price[s] \in Nat /\ rate \in Nat
  BY ClassicAssumption DEF TxInv, TypeOK
<1>2. D \subseteq DOMAIN r.routes
  <2>1. DOMAIN MinReceives(s) = DOMAIN r.routes
    BY <1>1, MinReceivesAreNumbers
  <2>2. D = {} \/ D = DOMAIN r.routes
    BY <2>1 DEF TxInv, Made
  <2> QED BY <2>2
<1>3. IsFiniteSet(D) /\ n \in Nat
  <2>1. IsFiniteSet(DOMAIN r.routes)
    BY <1>1, RouteFacts
  <2>2. IsFiniteSet(D)
    BY <1>2, <2>1, FS_Subset
  <2> QED BY <2>2, FS_CardinalityType
<1>4. \A k \in D : r.routes[k] \in Nat
  BY <1>1, <1>2, RouteFacts
<1>5. \A k \in D : Returns(s)[k] = r.routes[k] * rate /\ Returns(s)[k] \in Nat
  BY <1>1, <1>4, Products DEF Returns, Returned
<1>6. ASSUME NEW k \in D
      PROVE  /\ Fees(s)[k] \in Nat /\ Fees(s)[k] <= Returns(s)[k]
             /\ AFFILIATE_DECIMAL * Fees(s)[k] <= r.basisPoints * Returns(s)[k]
  <2>1. Fees(s)[k] = AffiliateFee(r, Returns(s)[k])
    BY DEF Fees, Returns
  <2>2. Returns(s)[k] \in Nat
    BY <1>5
  <2> QED BY <1>1, <2>1, <2>2, FeeIsPart
<1>7. R \in Nat /\ F \in Nat
  BY <1>3, <1>5, <1>6, SumOfNaturals DEF ReturnedInAll, FeesInAll
<1>8. 1 * F <= 1 * R + 0 * n
  <2>1. \A k \in D : /\ Fees(s)[k] \in Nat /\ Returns(s)[k] \in Nat
                     /\ 1 * Fees(s)[k] <= 1 * Returns(s)[k] + 0
    BY <1>5, <1>6
  <2> QED BY <1>3, <2>1, SumLinear DEF ReturnedInAll, FeesInAll
<1>9. AFFILIATE_DECIMAL * F <= r.basisPoints * R + 0 * n
  <2>1. AFFILIATE_DECIMAL \in Nat /\ r.basisPoints \in Nat
    BY <1>1, RequestFacts, ClassicAssumption
  <2>2. ASSUME NEW k \in D
        PROVE  /\ Fees(s)[k] \in Nat /\ Returns(s)[k] \in Nat
               /\ AFFILIATE_DECIMAL * Fees(s)[k] <= r.basisPoints * Returns(s)[k] + 0
    <3>1. r.basisPoints * Returns(s)[k] \in Nat
      BY <1>5, <2>1, Products
    <3> QED BY <1>5, <1>6, <3>1
  <2> QED BY <1>3, <2>1, <2>2, SumLinear DEF ReturnedInAll, FeesInAll
<1>10. Received(s) = R - F
  BY DEF Received, Fee, SumFunction, ReturnedInAll, FeesInAll, Returns, Fees
<1>11. 0 * n = 0 /\ 1 * F = F /\ 1 * R = R
  BY <1>3, <1>7
<1>12. r.basisPoints * R \in Nat
  BY <1>1, <1>7, RequestFacts, ClassicAssumption, Products
<1>13. F <= R /\ AFFILIATE_DECIMAL * F <= r.basisPoints * R
  BY <1>7, <1>8, <1>9, <1>11, <1>12
<1> QED BY <1>2, <1>3, <1>4, <1>5, <1>6, <1>7, <1>10, <1>13

-----------------------------------------------------------------------------
(***************************************************************************)
(* Each variable has its type, and each transaction is what was made.      *)
(***************************************************************************)
Steps == {"idle", "start", "swap", "sender", "fee", "build", "check", "sign", "broadcast",
          "done", "thrown", "transferAndSwap", "swapCosmosToOtherNetwork",
          "alphaSmartRouterSwapNewMsg"}

\* Where a call is handed to the function that transfers on, it leaves Oraichain.
LEMMA DispatchFacts ==
  ASSUME NEW r \in Request
  PROVE  /\ Dispatch(r) \in {"swap", "sender", "transferAndSwap", "swapCosmosToOtherNetwork",
                             "alphaSmartRouterSwapNewMsg"}
         /\ Dispatch(r) = "sender" => Elsewhere(r)
<1>1. Dispatch(r) \in {"swap", "sender", "transferAndSwap", "swapCosmosToOtherNetwork",
                       "alphaSmartRouterSwapNewMsg"}
  BY DEF Dispatch
<1>2. ASSUME Dispatch(r) = "sender" PROVE Elsewhere(r)
  <2>1. UniversalSwapType(r) \in {"oraichain-to-cosmos", "oraichain-to-evm"}
    BY <1>2 DEF Dispatch
  <2>2. r.from \in {"Oraichain", "cosmos", "noble", "evm", "ton"} /\ r.address \in BOOLEAN
        /\ r.to \in {"Oraichain", "cosmos", "wasm", "evm", "ton"}
    BY DEF Request
  <2>3. SUFFICES ASSUME r.to \in {"Oraichain", "ton"} PROVE FALSE
    BY <2>2 DEF Elsewhere
  <2>4. CASE r.to = "Oraichain"
    BY <2>1, <2>2, <2>4 DEF UniversalSwapType
  <2>5. CASE r.to = "ton"
    BY <2>1, <2>2, <2>5 DEF UniversalSwapType
  <2> QED BY <2>3, <2>4, <2>5
<1> QED BY <1>1, <1>2

LEMMA TxInit == Init => TxInv
<1> SUFFICES ASSUME Init PROVE TxInv
  OBVIOUS
<1>1. TypeOK
  <2>1. account \in Accounts /\ rate \in Rates /\ own \in Nat /\ channel \in Nat /\ initial \in Nat
    BY ClassicAssumption DEF Init
  <2>2. changes \in 0..MaxChanges /\ switches \in 0..MaxSwitches
    BY ClassicAssumption DEF Init
  <2> QED BY <2>1, <2>2, NoTxIsTx DEF Init, TypeOK
<1>2. ASSUME NEW s \in Swaps PROVE Made(s)
  <2>1. tx[s] = NoTx /\ pc[s] = "idle"
    BY DEF Init
  <2> QED BY <2>1 DEF Made, NoTx
<1> QED BY <1>1, <1>2 DEF TxInv

\* A step that only moves on.
LEMMA TxGoto ==
  ASSUME TxInv, NEW s \in Swaps, NEW step \in Steps \ {"idle"}, Goto(s, step),
         step \in {"sender", "fee", "build"} => Elsewhere(request[s]),
         UNCHANGED <<callVars, chainVars, worldVars>>
  PROVE  TxInv'
<1>1. UNCHANGED <<request, price, created, tx, account, rate, own, channel, packets, now,
                  changes, switches, executed, initial>>
  BY DEF callVars, chainVars, worldVars
<1>2. pc' = [pc EXCEPT ![s] = step] /\ pc \in [Swaps -> Steps]
  BY DEF Goto, TxInv, TypeOK, Steps
<1>3. TypeOK'
  BY <1>1, <1>2 DEF TxInv, TypeOK, Steps
<1>4. \A t \in Swaps : Made(t)'
  BY <1>1, <1>2, MadeStays
<1> QED BY <1>3, <1>4 DEF TxInv

\* A price is shown before anything is made.
LEMMA TxSimulate == ASSUME TxInv, NEW s \in Swaps, Simulate(s) PROVE TxInv'
<1>1. /\ pc[s] = "idle" /\ pc' = [pc EXCEPT ![s] = "start"]
      /\ price' = [price EXCEPT ![s] = IF request[s].swap THEN rate ELSE 1]
      /\ created' = [created EXCEPT ![s] = now]
      /\ UNCHANGED <<request, tx, account, rate, own, channel, packets, now,
                     changes, switches, executed, initial>>
  BY DEF Simulate, Goto, chainVars, worldVars
<1>2. rate \in Nat
  BY ClassicAssumption DEF TxInv, TypeOK
<1>3. TypeOK'
  BY <1>1, <1>2 DEF TxInv, TypeOK
<1>4. ASSUME NEW t \in Swaps PROVE Made(t)'
  <2>1. CASE t = s
    <3>1. tx'[t] = NoTx /\ pc'[t] = "start"
      BY <1>1, <2>1 DEF TxInv, Made, TypeOK
    <3> QED BY <3>1 DEF Made, NoTx
  <2>2. CASE t # s
    <3>1. pc'[t] = pc[t] /\ price'[t] = price[t] /\ tx'[t] = tx[t] /\ request' = request
      BY <1>1, <2>2 DEF TxInv, TypeOK
    <3> QED BY <3>1 DEF TxInv, Made, MinReceives, Bridged, SimulateAmount
  <2> QED BY <2>1, <2>2
<1> QED BY <1>3, <1>4 DEF TxInv

\* A new transaction that is made as it should be.
LEMMA TxBuild ==
  ASSUME TxInv, NEW s \in Swaps, NEW new \in Tx, NEW step \in {"sign", "check"},
         tx' = [tx EXCEPT ![s] = new], Goto(s, step),
         UNCHANGED <<request, price, created>>, UNCHANGED <<chainVars, worldVars>>,
         new.mins = <<>> \/ new.mins = MinReceives(s),
         new.transfer =>
           /\ Elsewhere(request[s]) /\ new.to = "own" /\ new.amount = Bridged(s)
           /\ request[s].swap => new.mins = MinReceives(s),
         ~new.transfer => new.amount = 0
  PROVE  TxInv'
<1>1. /\ pc' = [pc EXCEPT ![s] = step]
      /\ UNCHANGED <<request, price, created, account, rate, own, channel, packets, now,
                     changes, switches, executed, initial>>
  BY DEF Goto, chainVars, worldVars
<1>2. TypeOK'
  BY <1>1 DEF TxInv, TypeOK
<1>3. ASSUME NEW t \in Swaps PROVE Made(t)'
  <2>1. MinReceives(t)' = MinReceives(t) /\ Bridged(t)' = Bridged(t)
    BY DEF MinReceives, Bridged, SimulateAmount
  <2>2. CASE t = s
    <3>1. tx'[t] = new /\ pc'[t] = step
      BY <1>1, <2>2 DEF TxInv, TypeOK
    <3> QED BY <2>1, <2>2, <3>1 DEF Made
  <2>3. CASE t # s
    <3>1. tx'[t] = tx[t] /\ pc'[t] = pc[t]
      BY <1>1, <2>3 DEF TxInv, TypeOK
    <3> QED BY <2>1, <3>1 DEF TxInv, Made
  <2> QED BY <2>2, <2>3
<1> QED BY <1>2, <1>3 DEF TxInv

LEMMA TxBuildSwap == ASSUME TxInv, NEW s \in Swaps, BuildSwap(s) PROVE TxInv'
<1>1. /\ tx' = [tx EXCEPT ![s] = SwapPart(s)] /\ Goto(s, "sign")
      /\ UNCHANGED <<request, price, created>> /\ UNCHANGED <<chainVars, worldVars>>
  BY DEF BuildSwap
<1> QED BY <1>1, SwapPartMade, TxBuild

LEMMA TxBuildTransfer == ASSUME TxInv, NEW s \in Swaps, BuildTransfer(s) PROVE TxInv'
<1> DEFINE r == request[s]
           receiver == Receiver(r)
           bridge == UsesBridge(r)
           deadline == Deadline(s)
           amount == Bridged(s)
           old == SwapPart(s)
           new == [old EXCEPT !.transfer = TRUE, !.amount = amount, !.receiver = receiver,
                     !.bridge = bridge, !.deadline = deadline]
           step == IF request[s].skipChecks THEN "sign" ELSE "check"
<1>1. /\ pc[s] = "build" /\ tx' = [tx EXCEPT ![s] = new] /\ Goto(s, step)
      /\ UNCHANGED <<request, price, created>> /\ UNCHANGED <<chainVars, worldVars>>
  BY DEF BuildTransfer
<1>2. Elsewhere(r)
  BY <1>1 DEF TxInv, Made
<1>3. /\ old \in Tx /\ (old.mins = <<>> \/ old.mins = MinReceives(s)) /\ old.to = "own"
      /\ r.swap => old.mins = MinReceives(s)
  BY <1>2, SwapPartMade DEF Elsewhere
<1>4. amount \in Nat /\ bridge \in BOOLEAN
  <2>1. r \in Request /\ price[s] \in Nat
    BY ClassicAssumption DEF TxInv, TypeOK
  <2> QED BY <2>1, BridgedIsNumber DEF UsesBridge
<1>5. receiver \in Accounts \cup {"recipient"}
  BY DEF Receiver, TxInv, TypeOK
<1>6. deadline \in Nat
  <2>1. now \in Nat /\ created[s] \in Nat /\ IBC_TRANSFER_TIMEOUT \in Nat
    BY ClassicAssumption DEF TxInv, TypeOK
  <2> QED BY <2>1 DEF Deadline
<1> HIDE DEF receiver, bridge, deadline, amount, old
<1>7. new = [old EXCEPT !.transfer = TRUE, !.amount = amount, !.receiver = receiver,
               !.bridge = bridge, !.deadline = deadline]
  OBVIOUS
<1>8. step \in {"sign", "check"}
  OBVIOUS
<1> HIDE DEF new, step
<1>9. /\ new \in Tx /\ new.transfer /\ new.amount = amount /\ new.mins = old.mins /\ new.to = old.to
  <2>1. old \in Tx
    BY <1>3
  <2> QED BY <1>4, <1>5, <1>6, <1>7, <2>1 DEF Tx
<1> QED BY <1>1, <1>2, <1>3, <1>8, <1>9, TxBuild DEF amount

\* A packet of what was transferred.
LEMMA TxExecute == ASSUME TxInv, NEW s \in Swaps, Execute(s) PROVE TxInv'
<1> DEFINE t == tx[s]
           mine == own + IF t.to = "own" THEN Received(s) ELSE 0
           packet == [swap |-> s, amount |-> t.amount, receiver |-> t.receiver,
                      bridge |-> t.bridge, deadline |-> t.deadline]
           record == [swap |-> s, received |-> Received(s)]
<1>1. /\ mine >= t.amount /\ own' = mine - t.amount
      /\ t.bridge => channel >= t.amount
      /\ channel' = IF t.bridge THEN channel - t.amount ELSE channel
      /\ packets' = packets \cup {packet : x \in {y \in {s} : tx[y].transfer}}
      /\ executed' = executed \cup {record}
      /\ pc' = [pc EXCEPT ![s] = "done"]
      /\ UNCHANGED <<request, price, created, tx, account, rate, now, changes, switches, initial>>
  BY DEF Execute, Goto, callVars, worldVars
<1>2. t \in Tx /\ own \in Nat /\ channel \in Nat
  BY DEF TxInv, TypeOK
<1>3. /\ t.amount \in Nat /\ t.receiver \in Accounts \cup {"recipient"} /\ t.bridge \in BOOLEAN
      /\ t.deadline \in Nat
  BY <1>2 DEF Tx
<1>4. Received(s) \in Nat
  <2>1. ReturnedInAll(s) \in Nat /\ FeesInAll(s) \in Nat /\ FeesInAll(s) <= ReturnedInAll(s)
        /\ Received(s) = ReturnedInAll(s) - FeesInAll(s)
    BY ReceivedFacts
  <2> QED BY <2>1
<1>5. mine \in Nat
  BY <1>2, <1>4
<1>6. packet \in Packet /\ record \in [swap : Swaps, received : Nat]
  BY <1>3, <1>4 DEF Packet
<1> HIDE DEF t, mine, packet, record
<1>7. own' \in Nat /\ channel' \in Nat
  BY <1>1, <1>2, <1>3, <1>5
<1>8. packets' \subseteq Packet /\ executed' \subseteq [swap : Swaps, received : Nat]
  <2>1. packets' \subseteq packets \cup {packet}
    BY <1>1
  <2>2. packets \subseteq Packet /\ executed \subseteq [swap : Swaps, received : Nat]
    BY DEF TxInv, TypeOK
  <2> QED BY <1>1, <1>6, <2>1, <2>2
<1>9. TypeOK'
  BY <1>1, <1>7, <1>8 DEF TxInv, TypeOK
<1>10. \A u \in Swaps : Made(u)'
  <2>1. pc'[s] = "done" /\ \A u \in Swaps : u # s => pc'[u] = pc[u]
    BY <1>1 DEF TxInv, TypeOK
  <2> QED BY <1>1, <2>1, MadeStays
<1> QED BY <1>9, <1>10 DEF TxInv

LEMMA TxCall == ASSUME TxInv, NEW s \in Swaps, Call(s) PROVE TxInv'
<1>1. request[s] \in Request
  BY ClassicAssumption DEF TxInv, TypeOK
<1>2. CASE ProcessUniversalSwap(s)
  <2> DEFINE step == IF request[s].recipient = "invalid" THEN "thrown" ELSE Dispatch(request[s])
  <2>1. Goto(s, step) /\ UNCHANGED <<callVars, chainVars, worldVars>>
    BY <1>2 DEF ProcessUniversalSwap
  <2>2. step \in Steps \ {"idle"} /\ (step \in {"sender", "fee", "build"} => Elsewhere(request[s]))
    BY <1>1, DispatchFacts DEF Steps
  <2> HIDE DEF step
  <2> QED BY <2>1, <2>2, TxGoto
<1>3. CASE CheckSender(s)
  <2> DEFINE step == IF account # Sender THEN "thrown"
                     ELSE IF request[s].to = "evm" /\ ~request[s].skipChecks THEN "fee" ELSE "build"
  <2>1. pc[s] = "sender" /\ Goto(s, step) /\ UNCHANGED <<callVars, chainVars, worldVars>>
    BY <1>3 DEF CheckSender
  <2>2. step \in Steps \ {"idle"} /\ Elsewhere(request[s])
    BY <2>1 DEF Steps, TxInv, Made
  <2> HIDE DEF step
  <2> QED BY <2>1, <2>2, TxGoto
<1>4. CASE CheckFeeRelayer(s)
  <2>1. PICK isSufficient \in BOOLEAN : Goto(s, IF isSufficient THEN "build" ELSE "thrown")
    BY <1>4 DEF CheckFeeRelayer
  <2> DEFINE step == IF isSufficient THEN "build" ELSE "thrown"
  <2>2. pc[s] = "fee" /\ Goto(s, step) /\ UNCHANGED <<callVars, chainVars, worldVars>>
    BY <1>4, <2>1 DEF CheckFeeRelayer
  <2>3. step \in Steps \ {"idle"} /\ Elsewhere(request[s])
    BY <2>2 DEF Steps, TxInv, Made
  <2> HIDE DEF step
  <2> QED BY <2>2, <2>3, TxGoto
<1>5. CASE CheckBalanceChannelIbc(s)
  <2> DEFINE step == IF tx[s].bridge /\ channel < Wanted(s) THEN "thrown" ELSE "sign"
  <2>1. Goto(s, step) /\ UNCHANGED <<callVars, chainVars, worldVars>>
    BY <1>5 DEF CheckBalanceChannelIbc
  <2>2. step \in Steps \ {"idle"} /\ step \notin {"sender", "fee", "build"}
    BY DEF Steps
  <2> HIDE DEF step
  <2> QED BY <2>1, <2>2, TxGoto
<1>6. CASE SignAndBroadcast(s)
  <2> DEFINE step == IF account = Sender THEN "broadcast" ELSE "thrown"
  <2>1. Goto(s, step) /\ UNCHANGED <<callVars, chainVars, worldVars>>
    BY <1>6 DEF SignAndBroadcast
  <2>2. step \in Steps \ {"idle"} /\ step \notin {"sender", "fee", "build"}
    BY DEF Steps
  <2> HIDE DEF step
  <2> QED BY <2>1, <2>2, TxGoto
<1>7. CASE Throw(s)
  <2>1. Goto(s, "thrown") /\ UNCHANGED <<callVars, chainVars, worldVars>>
    BY <1>7 DEF Throw
  <2> QED BY <2>1, TxGoto DEF Steps
<1>8. CASE Fail(s)
  <2> DEFINE step == IF tx[s].transfer THEN "done" ELSE "thrown"
  <2>1. Goto(s, step) /\ UNCHANGED <<callVars, chainVars, worldVars>>
    BY <1>8 DEF Fail
  <2>2. step \in Steps \ {"idle"} /\ step \notin {"sender", "fee", "build"}
    BY DEF Steps
  <2> HIDE DEF step
  <2> QED BY <2>1, <2>2, TxGoto
<1> QED BY <1>2, <1>3, <1>4, <1>5, <1>6, <1>7, <1>8, TxSimulate, TxBuildSwap, TxBuildTransfer,
         TxExecute DEF Call

LEMMA TxStep == TxInv /\ [Next]_vars => TxInv'
<1> SUFFICES ASSUME TxInv, [Next]_vars PROVE TxInv'
  OBVIOUS
<1>0. ASSUME UNCHANGED <<request, price, tx, pc>>, TypeOK' PROVE TxInv'
  BY <1>0, MadeStays DEF TxInv
<1>1. CASE \E s \in Swaps : Call(s)
  BY <1>1, TxCall
<1>2. ASSUME NEW p \in packets, Deliver(p) \/ Timeout(p) PROVE TxInv'
  <2>1. /\ packets' = packets \ {p} /\ own' \in {own, own + p.amount}
        /\ channel' \in {channel, channel + p.amount}
        /\ UNCHANGED <<callVars, pc, worldVars, rate, executed>>
    BY <1>2 DEF Deliver, Timeout
  <2>2. p.amount \in Nat
    BY DEF TxInv, TypeOK, Packet
  <2>3. own' \in Nat /\ channel' \in Nat
    BY <2>1, <2>2 DEF TxInv, TypeOK
  <2>4. TypeOK'
    BY <2>1, <2>3 DEF TxInv, TypeOK, callVars, worldVars
  <2> QED BY <1>0, <2>1, <2>4 DEF callVars
<1>3. CASE Others
  <2>1. /\ changes' \in 0..MaxChanges /\ rate' \in Rates /\ channel' \in Nat
        /\ UNCHANGED <<callVars, pc, own, packets, executed, account, now, switches, initial>>
    BY <1>3, ClassicAssumption DEF Others, TxInv, TypeOK
  <2>2. TypeOK'
    BY <2>1 DEF TxInv, TypeOK, callVars
  <2> QED BY <1>0, <2>1, <2>2 DEF callVars
<1>4. CASE SwitchAccount
  <2>1. /\ switches' \in 0..MaxSwitches /\ account' \in Accounts
        /\ UNCHANGED <<callVars, pc, chainVars, now, changes, initial>>
    BY <1>4, ClassicAssumption DEF SwitchAccount, TxInv, TypeOK
  <2>2. TypeOK'
    BY <2>1 DEF TxInv, TypeOK, callVars, chainVars
  <2> QED BY <1>0, <2>1, <2>2 DEF callVars
<1>5. CASE Tick
  <2>1. now' \in Nat /\ UNCHANGED <<callVars, pc, chainVars, account, changes, switches, initial>>
    BY <1>5 DEF Tick, TxInv, TypeOK
  <2>2. TypeOK'
    BY <2>1 DEF TxInv, TypeOK, callVars, chainVars
  <2> QED BY <1>0, <2>1, <2>2 DEF callVars
<1>6. CASE UNCHANGED vars
  <2>1. TypeOK'
    BY <1>6 DEF vars, callVars, chainVars, worldVars, TxInv, TypeOK
  <2> QED BY <1>0, <1>6, <2>1 DEF vars, callVars
<1> QED BY <1>1, <1>2, <1>3, <1>4, <1>5, <1>6 DEF Next

\* Each variable has its type; what is sent off Oraichain, and what the user is left
\* with, are never negative (generateMsgsSwap, combineSwapMsgOraichain, combineMsgEvm).
THEOREM ClassicTypes == Spec => []TypeOK
<1>1. TxInv => TypeOK
  BY DEF TxInv
<1> QED BY TxInit, TxStep, <1>1, PTL DEF Spec

-----------------------------------------------------------------------------
(***************************************************************************)
(* What the user may lose.                                                 *)
(***************************************************************************)
\* One swap, in numbers: sim tokens were shown and returned came, less fee for the
\* affiliates; n routes were rounded.  The transfer takes what was shown, or what
\* the affiliates' share leaves of it.
LEMMA WithinSlippage ==
  ASSUME NEW sim \in Nat, NEW returned \in Nat, NEW fee \in Nat, NEW n \in Nat,
         NEW slippage \in 0..100, NEW d \in Nat \ {0}, NEW share \in 0..d,
         (100 - slippage) * sim <= 100 * returned + 99 * n,
         d * fee <= share * returned
  PROVE  /\ sim + fee <= returned + (sim * slippage) \div 100 + n + (sim * share) \div d
         /\ (sim * (d - share)) \div d + fee <= returned + (sim * slippage) \div 100 + n
<1> DEFINE slip == (sim * slippage) \div 100
           part == (sim * share) \div d
           rest == (sim * (d - share)) \div d
           w == d - share
<1>0. slippage \in Nat /\ share \in Nat /\ w \in Nat /\ d \in Nat /\ share <= d
  OBVIOUS
<1> DEFINE z == sim * slippage
           b == sim * share
           c == sim * w
           e == sim * d
<1>1. z \in Nat /\ b \in Nat /\ c \in Nat /\ e \in Nat
  BY <1>0, Products
<1>2. slip \in Nat /\ 100 * slip <= z /\ z < 100 * slip + 100
  <2> HIDE DEF z
  <2> QED BY <1>1, Division DEF z
<1>3. part \in Nat /\ d * part <= b /\ \A y \in Int : d * y <= b => y <= part
  <2> HIDE DEF b
  <2> QED BY <1>1, Division, DivisionFits DEF b
<1>4. rest \in Nat /\ d * rest <= c
  <2> HIDE DEF c
  <2> QED BY <1>1, Division DEF c
<1>5. (100 - slippage) * sim = 100 * sim - z
  BY <1>0
<1>6. c = e - b /\ d * sim = e
  BY <1>0
<1> HIDE DEF slip, part, rest, w, z, b, c, e
\* The pool returned no less than the slippage allows.
<1>7. sim <= returned + slip + n
  BY <1>1, <1>2, <1>5
\* The affiliates have no more than their share of what was shown, or what came
\* beyond that is more than what they have.
<1> DEFINE over == IF returned > sim THEN returned - sim ELSE 0
<1>8. over \in Nat /\ over = (IF returned > sim THEN returned - sim ELSE 0) /\ returned <= sim + over
  OBVIOUS
<1> HIDE DEF over
<1>9. d * (fee - over) <= b
  <2> DEFINE p == share * returned
             q == share * over
             m == d * over
             f == d * fee
  <2>1. p \in Nat /\ q \in Nat /\ m \in Nat /\ f \in Nat
    BY <1>0, <1>8, Products
  <2>2. p <= b + q
    <3>1. share * returned <= share * (sim + over)
      BY <1>0, <1>8
    <3>2. share * (sim + over) = sim * share + share * over
      BY <1>0, <1>8
    <3> QED BY <3>1, <3>2 DEF b
  <2>3. q <= m
    BY <1>0, <1>8
  <2>4. d * (fee - over) = f - m
    BY <1>0, <1>8
  <2>5. f <= p
    OBVIOUS
  <2> HIDE DEF p, q, m, f
  <2> QED BY <1>1, <2>1, <2>2, <2>3, <2>4, <2>5
<1>10. fee - over \in Int
  BY <1>8
<1>11. fee - over <= part
  BY <1>3, <1>9, <1>10
<1>12. rest + (fee - over) <= sim
  <2> DEFINE g == fee - over
             k == d * g
             l == d * rest
  <2>1. d * (rest + g) = l + k /\ l \in Int /\ k \in Int /\ g \in Int
    BY <1>0, <1>4, <1>10
  <2>2. k <= b /\ l <= c
    BY <1>4, <1>9
  <2> HIDE DEF g, k, l
  <2>3. d * (rest + g) <= d * sim
    BY <1>1, <1>6, <2>1, <2>2
  <2>4. rest + g <= sim
    BY <1>0, <1>4, <2>1, <2>3
  <2> QED BY <2>4 DEF g
<1>13. sim + fee <= returned + slip + n + part
  BY <1>2, <1>3, <1>7, <1>8, <1>10, <1>11
<1>14. rest + fee <= returned + slip + n
  BY <1>2, <1>4, <1>7, <1>8, <1>10, <1>12
<1> QED BY <1>13, <1>14 DEF slip, part, rest, w

\* The minimum of each route bounds what all of them return.
LEMMA ReturnsEnough ==
  ASSUME TxInv, NEW s \in Swaps, tx[s].mins = MinReceives(s),
         \A k \in DOMAIN tx[s].mins : Returned(s, k) >= tx[s].mins[k]
  PROVE  (100 - request[s].slippage) * SimulateAmount(s)
           <= 100 * ReturnedInAll(s) + 99 * Len(request[s].routes)
<1> DEFINE r == request[s]
           D == DOMAIN r.routes
           A == SumFunctionOnSet(r.routes, D)
           R == ReturnedInAll(s)
           p == price[s]
           w == 100 - r.slippage
           m == p * w
           n == Len(r.routes)
<1>1. r \in Request /\ price[s] \in Nat /\ rate \in Nat
  BY ClassicAssumption DEF TxInv, TypeOK
<1>2. r.slippage \in 0..100
  BY <1>1, RequestFacts
<1>3. w \in Nat /\ m \in Nat /\ p \in Nat
  BY <1>1, <1>2, Products
<1>4. DOMAIN tx[s].mins = D
  BY <1>1, MinReceivesAreNumbers
<1>5. /\ IsFiniteSet(D) /\ Cardinality(D) = n /\ n \in Nat
      /\ \A k \in D : r.routes[k] \in Nat
  BY <1>1, RouteFacts
<1>6. ASSUME NEW k \in D
      PROVE  /\ r.routes[k] \in Nat /\ Returns(s)[k] \in Nat
             /\ m * r.routes[k] <= 100 * Returns(s)[k] + 99
  <2> DEFINE a == r.routes[k]
             x == a * p * w
             ret == Returns(s)[k]
  <2>1. a \in Nat /\ ret \in Nat
    BY <1>4, ReceivedFacts
  <2>2. tx[s].mins[k] = x \div 100
    BY <1>1, MinReceivesAreNumbers
  <2>3. ret >= x \div 100
    BY <1>4, <2>2 DEF Returns
  <2>4. x \in Nat /\ x = m * a
    <3> HIDE DEF a, p, w
    <3>1. a * p \in Nat
      BY <1>3, <2>1, Products
    <3>2. (a * p) * w \in Nat
      BY <1>3, <3>1, Products
    <3>3. (a * p) * w = (p * w) * a
      BY <1>3, <2>1
    <3> QED BY <3>2, <3>3
  <2> HIDE DEF a, x, ret, m
  <2>5. x <= 100 * ret + 99
    BY <2>1, <2>3, <2>4
  <2> QED BY <2>1, <2>4, <2>5 DEF a, ret
<1>7. R = SumFunctionOnSet(Returns(s), D)
  BY <1>4 DEF ReturnedInAll
<1>8. A \in Nat /\ R \in Nat
  BY <1>5, <1>6, <1>7, SumOfNaturals
<1> HIDE DEF m
<1>9. m * A <= 100 * R + 99 * n
  <2>1. m * SumFunctionOnSet(r.routes, D)
          <= 100 * SumFunctionOnSet(Returns(s), D) + 99 * Cardinality(D)
    BY <1>3, <1>5, <1>6, SumLinear
  <2> QED BY <1>5, <1>7, <2>1
<1>10. SimulateAmount(s) = A * p
  BY DEF SimulateAmount, Amount, SumFunction
<1> HIDE DEF A, p, w
<1>11. w * (A * p) = (p * w) * A
  BY <1>3, <1>8
<1> QED BY <1>9, <1>10, <1>11 DEF m, w

-----------------------------------------------------------------------------
(***************************************************************************)
(* Over all the calls: what the user has is no less than at the start, but *)
(* for what was tolerated of each executed call.                           *)
(***************************************************************************)
Allowed(s) == IF tx[s].transfer THEN Tolerated(s) ELSE 0
Allowances == [e \in executed |-> Allowed(e.swap)]

\* The property sums what each record allows; the proof adds one at a time.
LEMMA SumOfMapped ==
  ASSUME IsFiniteSet(executed)
  PROVE  MapThenSumSet(LAMBDA e : IF tx[e.swap].transfer THEN Tolerated(e.swap) ELSE 0,
                       executed)
           = SumFunctionOnSet(Allowances, executed)
<1> DEFINE Step(f, s) ==
             IF s = {} THEN 0
             ELSE (IF tx[(CHOOSE x \in s : TRUE).swap].transfer
                   THEN Tolerated((CHOOSE x \in s : TRUE).swap) ELSE 0)
                    + f[s \ {CHOOSE x \in s : TRUE}]
           IsFold(f) == f = [s \in SUBSET executed |-> Step(f, s)]
<1>1. MapThenSumSet(LAMBDA e : IF tx[e.swap].transfer THEN Tolerated(e.swap) ELSE 0,
                    executed)
        = (CHOOSE f : IsFold(f))[executed]
  BY DEF MapThenSumSet, MapThenFoldSet
<1>2. ASSUME NEW f, NEW s \in SUBSET executed PROVE Step(f, s) = FoldStep(Allowances, f, s)
  <2>1. CASE s = {}
    BY <2>1 DEF FoldStep
  <2>2. CASE s # {}
    <3> DEFINE c == CHOOSE x \in s : TRUE
    <3>1. c \in executed
      BY <2>2
    <3>2. Step(f, s) = Allowed(c.swap) + f[s \ {c}]
      BY <2>2 DEF Allowed
    <3>3. FoldStep(Allowances, f, s) = Allowances[c] + f[s \ {c}]
      BY <2>2 DEF FoldStep
    <3> HIDE DEF c, Step
    <3>4. Allowances[c] = Allowed(c.swap)
      BY <3>1 DEF Allowances
    <3> QED BY <3>2, <3>3, <3>4
  <2> QED BY <2>1, <2>2
<1> HIDE DEF Step
<1>3. PICK f : Folds(Allowances, executed, f)
  BY FoldExists
<1>4. IsFold(f)
  BY <1>2, <1>3 DEF Folds
<1> DEFINE g == CHOOSE h : IsFold(h)
<1>5. IsFold(g)
  BY <1>4
<1> HIDE DEF g
<1>6. Folds(Allowances, executed, g)
  BY <1>2, <1>5 DEF Folds
<1>7. SumFunctionOnSet(Allowances, executed) = g[executed]
  BY <1>6, SumIsFold
<1> QED BY <1>1, <1>7 DEF g

Balance == own + SumFunctionOnSet(Allowances, executed) >= initial

\* What is executed is done with, once.
ShortfallInv ==
  /\ IsFiniteSet(executed)
  /\ \A e \in executed : pc[e.swap] = "done"
  /\ (\A s \in Swaps : ~request[s].legacy) => Balance

LEMMA AllowedIsNumber ==
  ASSUME TxInv, NEW s \in Swaps
  PROVE  Allowed(s) \in Nat
<1> DEFINE r == request[s]
           sim == SimulateAmount(s)
<1>1. r \in Request /\ price[s] \in Nat
  BY ClassicAssumption DEF TxInv, TypeOK
<1>2. sim \in Nat /\ Len(r.routes) \in Nat /\ r.slippage \in Nat
  <2>1. r.slippage \in 0..100
    BY <1>1, RequestFacts
  <2>2. r.slippage \in Nat
    BY <2>1
  <2> QED BY <1>1, <2>2, SimulateAmountIsNumber, RouteFacts
<1>3. (sim * r.slippage) \div 100 \in Nat
  <2>1. sim * r.slippage \in Nat
    BY <1>2, Products
  <2> QED BY <2>1, Division
<1>4. AffiliateFee(r, sim) \in Nat
  BY <1>1, <1>2, FeeIsPart
<1> HIDE DEF sim
<1> QED BY <1>2, <1>3, <1>4 DEF Allowed, Tolerated, sim

LEMMA AllowancesAreNumbers ==
  ASSUME TxInv, IsFiniteSet(executed)
  PROVE  /\ \A e \in executed : Allowances[e] \in Nat
         /\ SumFunctionOnSet(Allowances, executed) \in Nat
<1>1. \A e \in executed : e.swap \in Swaps
  BY DEF TxInv, TypeOK
<1>2. \A e \in executed : Allowances[e] \in Nat
  BY <1>1, AllowedIsNumber DEF Allowances
<1> QED BY <1>2, SumOfNaturals

\* What is allowed of a call that is done stays.
LEMMA AllowancesStay ==
  ASSUME TxInv, ShortfallInv, UNCHANGED <<request, executed>>,
         \A e \in executed : price'[e.swap] = price[e.swap] /\ tx'[e.swap] = tx[e.swap]
  PROVE  SumFunctionOnSet(Allowances, executed)' = SumFunctionOnSet(Allowances, executed)
<1>1. \A e \in executed : Allowed(e.swap)' = Allowed(e.swap)
  BY DEF Allowed, Tolerated, SimulateAmount
<1>2. Allowances' = Allowances
  BY <1>1 DEF Allowances
<1> QED BY <1>2

LEMMA ShortfallStays ==
  ASSUME TxInv, TxInv', ShortfallInv, UNCHANGED <<request, executed, initial>>, own' >= own,
         \A s \in Swaps : pc[s] = "done" =>
           pc'[s] = "done" /\ price'[s] = price[s] /\ tx'[s] = tx[s]
  PROVE  ShortfallInv'
<1>1. \A e \in executed : e.swap \in Swaps /\ pc[e.swap] = "done"
  BY DEF TxInv, TypeOK, ShortfallInv
<1>2. SumFunctionOnSet(Allowances, executed)' = SumFunctionOnSet(Allowances, executed)
  BY <1>1, AllowancesStay
<1>3. own \in Nat /\ own' \in Nat /\ initial \in Nat /\ SumFunctionOnSet(Allowances, executed) \in Nat
  BY AllowancesAreNumbers DEF TxInv, TypeOK, ShortfallInv
<1>4. Balance => Balance'
  BY <1>2, <1>3 DEF Balance
<1> QED BY <1>1, <1>4 DEF ShortfallInv

\* One call takes no more than is tolerated of it.
LEMMA ExecuteWithin ==
  ASSUME TxInv, NEW s \in Swaps, Execute(s), ~request[s].legacy
  PROVE  own' + Allowed(s) >= own
<1> DEFINE r == request[s]
           t == tx[s]
           R == ReturnedInAll(s)
           F == FeesInAll(s)
           sim == SimulateAmount(s)
           share == r.basisPoints
           d == AFFILIATE_DECIMAL
           mine == own + IF t.to = "own" THEN Received(s) ELSE 0
<1>1. own' = mine - t.amount
  BY DEF Execute
<1>2. /\ R \in Nat /\ F \in Nat /\ F <= R /\ d * F <= share * R /\ Received(s) = R - F
  BY ReceivedFacts
<1>3. r \in Request /\ price[s] \in Nat /\ own \in Nat /\ t \in Tx
  BY ClassicAssumption DEF TxInv, TypeOK
<1>4. t.amount \in Nat /\ Allowed(s) \in Nat
  BY <1>3, AllowedIsNumber DEF Tx
<1>5. CASE ~t.transfer
  <2>1. t.amount = 0
    BY <1>5 DEF TxInv, Made
  <2> QED BY <1>1, <1>2, <1>3, <1>4, <2>1
<1>6. CASE t.transfer
  <2> DEFINE slip == (sim * r.slippage) \div 100
             part == (sim * share) \div d
             rest == (sim * (d - share)) \div d
             n == Len(r.routes)
             slippage == r.slippage
  <2>1. /\ t.to = "own" /\ t.amount = Bridged(s) /\ Elsewhere(r)
        /\ r.swap => t.mins = MinReceives(s)
    BY <1>6 DEF TxInv, Made
  <2>2. sim \in Nat /\ n \in Nat /\ slippage \in 0..100 /\ share \in 0..d /\ d \in Nat \ {0}
    BY <1>3, SimulateAmountIsNumber, RouteFacts, RequestFacts, ClassicAssumption
  <2>3. Bridged(s) = IF UsesBridge(r) THEN sim ELSE rest
    BY DEF Bridged
  <2>4. slip \in Nat /\ part \in Nat /\ rest \in Nat /\ rest <= sim
    <3> HIDE DEF sim, share, d, slippage
    <3>1. /\ sim * slippage \in Nat /\ sim * share \in Nat
          /\ d - share \in Nat /\ sim * (d - share) \in Nat
      <4>1. slippage \in Nat /\ share \in Nat /\ d - share \in Nat
        BY <2>2
      <4> QED BY <2>2, <4>1, Products
    <3>2. rest \in Nat /\ d * rest <= sim * (d - share)
      BY <2>2, <3>1, Division
    <3>3. sim * (d - share) <= d * sim
      BY <2>2, <3>1
    <3>4. rest <= sim
      <4> HIDE DEF rest
      <4>1. d * rest <= d * sim
        <5>1. d * rest \in Nat /\ d * sim \in Nat
          BY <2>2, <3>2
        <5> QED BY <3>1, <3>2, <3>3, <5>1
      <4> QED BY <2>2, <3>2, <4>1
    <3>5. (sim * slippage) \div 100 \in Nat /\ (sim * share) \div d \in Nat
      BY <2>2, <3>1, Division
    <3> QED BY <3>2, <3>4, <3>5 DEF slippage
  <2>5. CASE ~r.swap
    <3>1. Allowed(s) = sim
      BY <1>6, <2>5 DEF Allowed, Tolerated
    <3>2. t.amount <= sim
      BY <2>1, <2>2, <2>3, <2>4
    <3> HIDE DEF t, R, F, sim
    <3> QED BY <1>1, <1>2, <1>3, <1>4, <2>1, <2>2, <3>1, <3>2
  <2>6. CASE r.swap
    <3>1. Allowed(s) = slip + n + IF UsesBridge(r) THEN part ELSE 0
      BY <1>6, <2>6 DEF Allowed, Tolerated, AffiliateFee
    <3>2. \A k \in DOMAIN t.mins : Returned(s, k) >= t.mins[k]
      BY DEF Execute
    <3>3. (100 - slippage) * sim <= 100 * R + 99 * n
      BY <2>1, <2>6, <3>2, ReturnsEnough
    <3>4. /\ sim + F <= R + slip + n + part
          /\ rest + F <= R + slip + n
      <4> HIDE DEF sim, R, F, n, share, d, slippage
      <4>1. /\ sim + F <= R + (sim * slippage) \div 100 + n + part
            /\ rest + F <= R + (sim * slippage) \div 100 + n
        BY <1>2, <2>2, <3>3, WithinSlippage
      <4> QED BY <4>1 DEF slippage
    <3> HIDE DEF t, R, F, sim, slip, part, rest, n
    <3> QED BY <1>1, <1>2, <1>3, <1>4, <2>1, <2>2, <2>3, <2>4, <3>1, <3>4
  <2> QED BY <2>5, <2>6
<1> QED BY <1>5, <1>6

LEMMA ShortfallExecute ==
  ASSUME TxInv, TxInv', ShortfallInv, NEW s \in Swaps, Execute(s)
  PROVE  ShortfallInv'
<1> DEFINE new == [swap |-> s, received |-> Received(s)]
           Sum == SumFunctionOnSet(Allowances, executed)
<1>1. /\ pc[s] = "broadcast" /\ pc' = [pc EXCEPT ![s] = "done"]
      /\ executed' = executed \cup {new}
      /\ UNCHANGED <<request, price, tx, initial>>
  BY DEF Execute, Goto, callVars, worldVars
<1>2. new.swap = s
  OBVIOUS
<1> HIDE DEF new
<1>3. /\ new \notin executed /\ IsFiniteSet(executed)
      /\ \A e \in executed : pc[e.swap] = "done" /\ e.swap \in Swaps
  BY <1>1, <1>2 DEF ShortfallInv, TxInv, TypeOK
<1>4. IsFiniteSet(executed')
  BY <1>1, <1>3, FS_AddElement
<1>5. \A e \in executed' : pc'[e.swap] = "done"
  BY <1>1, <1>2, <1>3 DEF TxInv, TypeOK
<1>6. \A u \in Swaps : Allowed(u)' = Allowed(u)
  BY <1>1 DEF Allowed, Tolerated, SimulateAmount
<1> DEFINE old == Allowances
           now2 == [e \in executed' |-> Allowed(e.swap)]
<1>7. Allowances' = now2
  BY <1>1, <1>2, <1>3, <1>6 DEF Allowances
<1>8. /\ \A e \in executed : now2[e] = old[e] /\ old[e] \in Nat
      /\ now2[new] = Allowed(s) /\ Allowed(s) \in Nat
  BY <1>1, <1>2, <1>3, AllowancesAreNumbers, AllowedIsNumber DEF Allowances
<1> HIDE DEF old, now2
<1>9. SumFunctionOnSet(now2, executed') = now2[new] + SumFunctionOnSet(now2, executed)
  <2>1. \A e \in executed' : now2[e] \in Nat
    BY <1>1, <1>8
  <2>2. executed' \ {new} = executed /\ new \in executed'
    BY <1>1, <1>3
  <2>3. SumFunctionOnSet(now2, executed')
          = now2[new] + SumFunctionOnSet(now2, executed' \ {new})
    BY <1>4, <2>1, <2>2, SumWithout
  <2> QED BY <2>2, <2>3
<1>10. SumFunctionOnSet(old, executed) = SumFunctionOnSet(now2, executed)
  BY <1>3, <1>8, SumSame
<1>11. SumFunctionOnSet(Allowances, executed)' = Allowed(s) + Sum
  BY <1>7, <1>8, <1>9, <1>10 DEF old
<1>12. Sum \in Nat /\ own \in Nat /\ own' \in Nat /\ initial \in Nat
  BY <1>3, AllowancesAreNumbers DEF TxInv, TypeOK
<1>13. ASSUME \A u \in Swaps : ~request[u].legacy PROVE Balance'
  <2>1. own' + Allowed(s) >= own
    BY <1>13, ExecuteWithin
  <2>2. own + Sum >= initial
    BY <1>13 DEF ShortfallInv, Balance
  <2> HIDE DEF Sum
  <2>3. own' + (Allowed(s) + Sum) >= initial
    BY <1>8, <1>12, <2>1, <2>2
  <2> QED BY <1>1, <1>11, <2>3 DEF Balance
<1> QED BY <1>1, <1>4, <1>5, <1>13 DEF ShortfallInv

LEMMA ShortfallStep == TxInv /\ ShortfallInv /\ [Next]_vars => ShortfallInv'
<1> SUFFICES ASSUME TxInv, ShortfallInv, [Next]_vars PROVE ShortfallInv'
  OBVIOUS
<1>0. TxInv'
  BY TxStep
<1>1. own \in Nat /\ own' \in Nat
  BY <1>0 DEF TxInv, TypeOK
<1>2. ASSUME NEW s \in Swaps, Call(s), ~Execute(s) PROVE ShortfallInv'
  <2>1. UNCHANGED <<request, executed, initial, own>>
    BY <1>2 DEF Call, Simulate, ProcessUniversalSwap, CheckSender, CheckFeeRelayer,
       BuildSwap, BuildTransfer, CheckBalanceChannelIbc, SignAndBroadcast, Throw, Fail,
       callVars, chainVars, worldVars
  <2>2. \A u \in Swaps : pc[u] = "done" =>
          pc'[u] = "done" /\ price'[u] = price[u] /\ tx'[u] = tx[u]
    BY <1>2 DEF Call, Simulate, ProcessUniversalSwap, CheckSender, CheckFeeRelayer,
       BuildSwap, BuildTransfer, CheckBalanceChannelIbc, SignAndBroadcast, Throw, Fail,
       Goto, callVars, TxInv, TypeOK
  <2> QED BY <1>0, <1>1, <2>1, <2>2, ShortfallStays
<1>3. ASSUME NEW s \in Swaps, Execute(s) PROVE ShortfallInv'
  BY <1>0, <1>3, ShortfallExecute
<1>4. ASSUME NEW p \in packets, Deliver(p) \/ Timeout(p) PROVE ShortfallInv'
  <2>1. p.amount \in Nat
    BY DEF TxInv, TypeOK, Packet
  <2>2. /\ UNCHANGED <<request, price, tx, pc, executed, initial>> /\ own' >= own
    BY <1>1, <1>4, <2>1 DEF Deliver, Timeout, callVars, worldVars
  <2> QED BY <1>0, <2>2, ShortfallStays
<1>5. CASE Others \/ SwitchAccount \/ Tick \/ UNCHANGED vars
  <2>1. UNCHANGED <<request, price, tx, pc, executed, initial, own>>
    BY <1>5 DEF Others, SwitchAccount, Tick, vars, callVars, chainVars, worldVars
  <2> QED BY <1>0, <1>1, <2>1, ShortfallStays
<1> QED BY <1>2, <1>3, <1>4, <1>5 DEF Next

LEMMA ShortfallInit == Init => ShortfallInv
<1> SUFFICES ASSUME Init PROVE ShortfallInv
  OBVIOUS
<1>1. executed = {} /\ initial = own /\ own \in Nat
  BY ClassicAssumption DEF Init
<1>2. SumFunctionOnSet(Allowances, executed) = 0
  BY <1>1, SumOfNothing
<1>3. IsFiniteSet(executed)
  BY <1>1, FS_EmptySet
<1> QED BY <1>1, <1>2, <1>3 DEF ShortfallInv, Balance

LEMMA ShortfallSafe == ShortfallInv => ShortfallWithinSlippage
BY SumOfMapped DEF ShortfallInv, Balance, ShortfallWithinSlippage

\* The transfer takes what was simulated and not what the swap returned; still the
\* user never loses more of the wanted token than the slippage that was agreed to,
\* with any number of calls and whatever the pool does between the simulation and
\* the execution (calculateMinReceive, combineSwapMsgOraichain, combineMsgEvm).
THEOREM LossesWithinSlippage == Spec => []ShortfallWithinSlippage
<1>1. Init => TxInv /\ ShortfallInv
  BY TxInit, ShortfallInit
<1>2. TxInv /\ ShortfallInv /\ [Next]_vars => (TxInv /\ ShortfallInv)'
  BY TxStep, ShortfallStep
<1> QED BY <1>1, <1>2, ShortfallSafe, PTL DEF Spec

-----------------------------------------------------------------------------
(***************************************************************************)
(* How long a transfer may be under way.                                   *)
(***************************************************************************)
\* A deadline is at most a timeout ahead, and one that the clock reaches.
Soon(d) == d \in Nat /\ d <= now + IBC_TRANSFER_TIMEOUT /\ d <= MaxTime + IBC_TRANSFER_TIMEOUT

NoLongWait == \A p \in packets : Soon(p.deadline)

\* No handler was made in the future, and what is about to be signed is no later.
WaitInv ==
  /\ \A s \in Swaps : created[s] <= now /\ created[s] <= MaxTime /\ Soon(tx[s].deadline)
  /\ NoLongWait

\* The clock goes on only.
LEMMA NowGrows == TxInv /\ [Next]_vars => now \in Nat /\ now' \in Nat /\ now <= now'
<1> SUFFICES ASSUME TxInv, [Next]_vars PROVE now \in Nat /\ now' \in Nat /\ now <= now'
  OBVIOUS
<1>1. now \in Nat /\ now' \in Nat
  BY TxStep DEF TxInv, TypeOK
<1>2. CASE Tick
  BY <1>1, <1>2 DEF Tick
<1>3. ASSUME NEW s \in Swaps, Call(s) PROVE now' = now
  BY <1>3 DEF Call, Simulate, ProcessUniversalSwap, CheckSender, CheckFeeRelayer, BuildSwap,
     BuildTransfer, CheckBalanceChannelIbc, SignAndBroadcast, Throw, Execute, Fail, worldVars
<1>4. ASSUME NEW p \in packets, Deliver(p) \/ Timeout(p) PROVE now' = now
  BY <1>4 DEF Deliver, Timeout, worldVars
<1>5. Others \/ SwitchAccount \/ UNCHANGED vars => now' = now
  BY DEF Others, SwitchAccount, vars, worldVars
<1> QED BY <1>1, <1>2, <1>3, <1>4, <1>5 DEF Next

LEMMA Later == \A a, b, c, d \in Nat : b <= c /\ d <= b + a => d <= c + a
OBVIOUS

LEMMA SoonStays == ASSUME TxInv, [Next]_vars, NEW d, Soon(d)  PROVE Soon(d)'
<1>1. now \in Nat /\ now' \in Nat /\ now <= now' /\ IBC_TRANSFER_TIMEOUT \in Nat
  BY NowGrows, ClassicAssumption
<1>2. d \in Nat /\ d <= now + IBC_TRANSFER_TIMEOUT
  BY DEF Soon
<1>3. d <= now' + IBC_TRANSFER_TIMEOUT
  BY <1>1, <1>2, Later
<1> QED BY <1>3 DEF Soon

\* What a call plans: from now, or from when the handler was made.
LEMMA DeadlineSoon ==
  ASSUME TxInv, WaitInv, NEW s \in Swaps, now <= MaxTime
  PROVE  Soon(Deadline(s))
<1>1. /\ now \in Nat /\ created[s] \in Nat /\ MaxTime \in Nat /\ IBC_TRANSFER_TIMEOUT \in Nat
  BY ClassicAssumption DEF TxInv, TypeOK
<1>2. created[s] <= now /\ created[s] <= MaxTime
  BY DEF WaitInv
<1>3. Deadline(s) \in {now + IBC_TRANSFER_TIMEOUT, created[s] + IBC_TRANSFER_TIMEOUT}
  BY DEF Deadline
<1> QED BY <1>1, <1>2, <1>3 DEF Soon

LEMMA SwapPartDeadline == \A s : SwapPart(s).deadline = 0
BY DEF SwapPart, NoTx

LEMMA ZeroIsSoon == TxInv => Soon(0)
BY ClassicAssumption DEF TxInv, TypeOK, Soon

LEMMA WaitCall == ASSUME TxInv, WaitInv, NEW s \in Swaps, Call(s) PROVE WaitInv'
<1>1. [Next]_vars
  BY DEF Next
<1>2. now' = now
  BY DEF Call, Simulate, ProcessUniversalSwap, CheckSender, CheckFeeRelayer, BuildSwap,
     BuildTransfer, CheckBalanceChannelIbc, SignAndBroadcast, Throw, Execute, Fail, worldVars
<1>3. \A d : Soon(d) => Soon(d)'
  BY <1>2 DEF Soon
<1>4. /\ created \in [Swaps -> Nat] /\ tx \in [Swaps -> Tx] /\ now \in Nat
  BY DEF TxInv, TypeOK
<1>5. CASE Simulate(s)
  <2>1. now <= MaxTime /\ created' = [created EXCEPT ![s] = now] /\ tx' = tx /\ packets' = packets
    BY <1>5 DEF Simulate, chainVars
  <2>2. \A t \in Swaps : created'[t] <= now' /\ created'[t] <= MaxTime
    BY <1>2, <1>4, <2>1 DEF WaitInv
  <2> QED BY <1>3, <2>1, <2>2 DEF WaitInv, NoLongWait
<1>6. CASE BuildSwap(s)
  <2>1. tx' = [tx EXCEPT ![s] = SwapPart(s)] /\ created' = created /\ packets' = packets
    BY <1>6 DEF BuildSwap, chainVars
  <2>2. \A t \in Swaps : Soon(tx'[t].deadline)
    BY <1>4, <2>1, SwapPartDeadline, ZeroIsSoon DEF WaitInv
  <2> QED BY <1>2, <1>3, <2>1, <2>2 DEF WaitInv, NoLongWait
<1>7. CASE BuildTransfer(s)
  <2>1. /\ now <= MaxTime /\ created' = created /\ packets' = packets
        /\ \E x : x.deadline = Deadline(s) /\ tx' = [tx EXCEPT ![s] = x]
    <3> DEFINE x == [SwapPart(s) EXCEPT !.transfer = TRUE, !.amount = Bridged(s),
          !.receiver = Receiver(request[s]), !.bridge = UsesBridge(request[s]),
          !.deadline = Deadline(s)]
    <3>1. x.deadline = Deadline(s)
      BY DEF SwapPart, NoTx
    <3>2. now <= MaxTime /\ created' = created /\ packets' = packets /\ tx' = [tx EXCEPT ![s] = x]
      BY <1>7 DEF BuildTransfer, chainVars
    <3> HIDE DEF x
    <3> QED BY <3>1, <3>2
  <2>2. \A t \in Swaps : Soon(tx'[t].deadline)
    BY <1>4, <2>1, DeadlineSoon DEF WaitInv
  <2> QED BY <1>2, <1>3, <2>1, <2>2 DEF WaitInv, NoLongWait
<1>8. CASE Execute(s)
  <2>1. /\ created' = created /\ tx' = tx
        /\ \A p \in packets' : p \in packets \/ p.deadline = tx[s].deadline
    BY <1>8 DEF Execute, callVars
  <2> QED BY <1>2, <1>3, <2>1 DEF WaitInv, NoLongWait
<1>9. CASE \/ ProcessUniversalSwap(s) \/ CheckSender(s) \/ CheckFeeRelayer(s)
           \/ CheckBalanceChannelIbc(s) \/ SignAndBroadcast(s) \/ Throw(s) \/ Fail(s)
  <2>1. created' = created /\ tx' = tx /\ packets' = packets
    BY <1>9 DEF ProcessUniversalSwap, CheckSender, CheckFeeRelayer, CheckBalanceChannelIbc,
       SignAndBroadcast, Throw, Fail, callVars, chainVars
  <2> QED BY <1>2, <1>3, <2>1 DEF WaitInv, NoLongWait
<1> QED BY <1>5, <1>6, <1>7, <1>8, <1>9 DEF Call

LEMMA WaitStep == TxInv /\ WaitInv /\ [Next]_vars => WaitInv'
<1> SUFFICES ASSUME TxInv, WaitInv, [Next]_vars PROVE WaitInv'
  OBVIOUS
<1>1. ASSUME NEW s \in Swaps, Call(s) PROVE WaitInv'
  BY <1>1, WaitCall
<1>2. ASSUME created' = created, tx' = tx, packets' \subseteq packets PROVE WaitInv'
  <2>1. \A t \in Swaps : created[t] \in Nat /\ created[t] <= now' /\ created[t] <= MaxTime
    BY NowGrows DEF WaitInv, TxInv, TypeOK
  <2>2. \A t \in Swaps : Soon(tx[t].deadline)'
    BY <1>2, SoonStays DEF WaitInv
  <2>3. \A p \in packets' : Soon(p.deadline)'
    BY <1>2, SoonStays DEF WaitInv, NoLongWait
  <2> QED BY <1>2, <2>1, <2>2, <2>3 DEF WaitInv, NoLongWait
<1>3. ASSUME NEW p \in packets, Deliver(p) \/ Timeout(p) PROVE WaitInv'
  BY <1>2, <1>3 DEF Deliver, Timeout, callVars
<1>4. CASE Others \/ SwitchAccount \/ Tick \/ UNCHANGED vars
  BY <1>2, <1>4 DEF Others, SwitchAccount, Tick, vars, callVars, chainVars
<1> QED BY <1>1, <1>3, <1>4 DEF Next

LEMMA WaitInit == Init => WaitInv
BY ClassicAssumption DEF Init, WaitInv, NoLongWait, Soon, NoTx

\* No transfer off Oraichain can hold the tokens for longer than the timeout from
\* now on (calculateTimeoutTimestamp), whenever the handler was made and however
\* long the user took to sign.
THEOREM TransfersTimeOutSoon == Spec => []NoLongWait
<1>1. WaitInv => NoLongWait
  BY DEF WaitInv
<1> QED BY TxInit, TxStep, WaitInit, WaitStep, <1>1, PTL DEF Spec
=============================================================================
