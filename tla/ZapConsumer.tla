---------------------------- MODULE ZapConsumer ----------------------------
(***************************************************************************)
(* ZapConsumer of oraiswap-v3: processZapInPositionLiquidity splits an     *)
(* amount of one token in what buys token X and what buys token Y, and     *)
(* processZapOutPositionLiquidity prepares the removal of a position.      *)
(* Both only return a message; the owner sends it later, and meanwhile     *)
(* other messages of the same owner change the list of positions.          *)
(*                                                                         *)
(* The router, the contract and the simulation in WebAssembly are not in   *)
(* this repository's TypeScript.  The router quotes prices that agree with *)
(* each other and gives at most what they promise, through our pool or     *)
(* not, or fails; a simulated swap ends at any price.  Square roots of     *)
(* prices are small numbers, two to a tick; token amounts are exact and    *)
(* all tokens have the same decimals.                                      *)
(***************************************************************************)
EXTENDS Integers, Sequences, SequencesExt

CONSTANTS
  AmountsIn,     \* what may be zapped in
  Rates,         \* what the router may quote: tokens in for one X and for one Y
  MaxSqrtPrice,
  LowerTick, UpperTick,
  YPerX,         \* of each price in the range: Y for an X, [n |-> .., d |-> ..]
  Deviation,     \* percent
  Shortfall,     \* bound on what the router gives less than promised
  Outs,          \* calls of processZapOutPositionLiquidity
  FirstPositions, ZapFees,   \* a fee in thousandths
  MaxPositions   \* bound on the ids

SqrtPrices == 0..MaxSqrtPrice
TickAt(price) == price \div 2
InRange(price) == LowerTick <= TickAt(price) /\ TickAt(price) < UpperTick

ASSUME ZapAssumption ==
  /\ AmountsIn \subseteq Nat \ {0} /\ Deviation \in Nat /\ Shortfall \in Nat
  /\ MaxSqrtPrice \in Nat /\ LowerTick \in Nat /\ UpperTick \in Nat
  /\ Rates \subseteq [x : Nat \ {0}, y : Nat \ {0}]
  /\ YPerX \in [{p \in SqrtPrices : InRange(p)} -> [n : Nat, d : Nat \ {0}]]
  /\ MaxPositions \in Nat \ {0}
  /\ FirstPositions \subseteq {s \in Seq(1..MaxPositions) : Len(s) < MaxPositions}
  /\ ZapFees \subseteq 0..1000

VARIABLES
  tokenIn, amountIn, rate,  \* fixed
  pc,          \* the await at which processZapInPositionLiquidity is
  poolPrice,   \* pool.sqrt_price as getPool returns it, fixed
  price,       \* the same after the simulations, which change it
  start,       \* startSqrtPrice
  toX, toY,    \* amountInToX, amountInToY
  status,      \* zapInResult.status
  message,     \* zapInResult, once the routes are in it
  positions,   \* of the owner, on chain
  born,        \* bound: the highest id so far
  want, fee,   \* tokenId and zapFee of each zap out, fixed
  outPc,       \* the await at which it is
  index,       \* positionIndex
  removed,     \* history: the position that its message removed
  overtaken    \* history: another position went after this one's list was read

inVars == <<tokenIn, amountIn, rate, pc, poolPrice, price, start, toX, toY, status, message>>
outVars == <<want, fee, outPc, index, removed, overtaken>>
vars == <<inVars, positions, born, outVars>>

Status == {"InRangeNoRouteThroughSelf", "InRangeHasRouteThroughSelf",
           "InRangeHasRouteThroughSelfMayBecomeOutRange",
           "OutRangeNoRouteThroughSelf", "OutRangeHasRouteThroughSelf",
           "OutRangeHasRouteThroughSelfMayBecomeInRange"}
NoMessage == [status |-> "none", price |-> 0, x |-> 0, y |-> 0]

Init ==
  /\ tokenIn \in {"X", "Y", "other"}
  /\ amountIn \in AmountsIn
  /\ rate \in {r \in Rates : (tokenIn = "X" => r.x = 1) /\ (tokenIn = "Y" => r.y = 1)}
  /\ pc = "getPool"
  /\ poolPrice \in SqrtPrices
  /\ price = poolPrice /\ start = poolPrice
  /\ toX = 0 /\ toY = 0
  /\ status = "none" /\ message = NoMessage
  /\ positions \in FirstPositions
  /\ born = MaxPositions - 1
  /\ want \in [Outs -> 1..MaxPositions]
  /\ fee \in [Outs -> ZapFees]
  /\ outPc = [o \in Outs |-> "start"]
  /\ index = [o \in Outs |-> 0]
  /\ removed = [o \in Outs |-> 0]
  /\ overtaken = {}

-----------------------------------------------------------------------------
(***************************************************************************)
(* The router and the simulation.                                          *)
(***************************************************************************)
\* findRoute: nothing is swapped for the token itself or when there is nothing
\* to swap; a route that gives nothing and an amount below zero are errors.
FindRoute(token, amount) ==
  IF token = tokenIn \/ amount = 0
  THEN {[swapAmount |-> amount, returnAmount |-> amount, throughSelf |-> FALSE]}
  ELSE LET promised == amount \div (IF token = "X" THEN rate.x ELSE rate.y) IN
       [swapAmount : {amount}, returnAmount : {a \in promised - Shortfall..promised : a > 0},
        throughSelf : BOOLEAN]

\* Mutant: the sum of the two prices.
SimulatedSum(routes) ==
  IF \E r \in routes : r.throughSelf
  THEN {price + target : target \in SqrtPrices} ELSE {price}

\* simulateSwapOffChainForRoute: half way to the price of the first route that
\* goes through the pool.
Simulated(routes) ==
  IF \E r \in routes : r.throughSelf
  THEN {(price + target) \div 2 : target \in SqrtPrices} ELSE {price}

-----------------------------------------------------------------------------
(***************************************************************************)
(* processZapInPositionLiquidity.                                          *)
(***************************************************************************)
\* Math.round.
Round(a, b) == (2 * a + b) \div (2 * b)

\* xPriceByTokenIn + yPriceByTokenIn * yPerX, with the denominator left out.
PriceOf(p) == rate.x * YPerX[p].d + rate.y * YPerX[p].n

AmountX(p) == Round(amountIn * YPerX[p].d, PriceOf(p))
AmountY(p) == Round(amountIn * YPerX[p].n, PriceOf(p))
AmountInToX(p) == Round(amountIn * YPerX[p].d * rate.x, PriceOf(p))

\* populateMessageZapIn: what is swapped into X and into Y, or kept where
\* nothing needs swapping.
Populated(result, x, y, p) == [status |-> result, price |-> p, x |-> x, y |-> y]

GetPool ==
  /\ pc = "getPool"
  /\ pc' = IF InRange(price) THEN "quote" ELSE "singleSide"
  /\ UNCHANGED <<tokenIn, amountIn, rate, poolPrice, price, start, toX, toY, status, message>>
  /\ UNCHANGED <<positions, born, outVars>>

SingleSideStatus(p) ==
  CASE p = price -> "OutRangeNoRouteThroughSelf"
    [] p # price /\ InRange(p) -> "OutRangeHasRouteThroughSelfMayBecomeInRange"
    [] OTHER -> "OutRangeHasRouteThroughSelf"

\* processZapInWithSingleSide, and on into the range if the simulation does.
SingleSide ==
  /\ pc = "singleSide"
  /\ LET token == IF UpperTick < TickAt(price) THEN "Y" ELSE "X" IN
     \E route \in FindRoute(token, amountIn) : \E p \in Simulated({route}) :
       /\ price' = p
       /\ start' = p
       /\ status' = SingleSideStatus(p)
       /\ IF status' = "OutRangeHasRouteThroughSelfMayBecomeInRange"
          THEN pc' = "quote" /\ UNCHANGED message
          ELSE /\ pc' = "done"
               /\ message' = IF token = "X" THEN Populated(status', route.swapAmount, 0, p)
                             ELSE Populated(status', 0, route.swapAmount, p)
  /\ UNCHANGED <<tokenIn, amountIn, rate, poolPrice, toX, toY>>
  /\ UNCHANGED <<positions, born, outVars>>

\* The prices of X and Y in the token that is zapped in, and the first split.
Calculate1 ==
  /\ pc = "quote"
  /\ toX' = AmountInToX(price)
  /\ toY' = amountIn - toX'
  /\ pc' = "routes"
  /\ UNCHANGED <<tokenIn, amountIn, rate, poolPrice, price, start, status, message>>
  /\ UNCHANGED <<positions, born, outVars>>

\* Mutant: the surplus of Y is not shared out.
RebalanceAll(p, x, y) ==
  LET r == YPerX[p] IN Round((y * r.d - r.n * x) * rate.x, r.d)

\* Calculate 3, where what would be received is too far from what is wanted:
\* deltaX of Y's surplus, in the token that is zapped in.
Rebalance(p, x, y) ==
  LET r == YPerX[p]
      off(received, wanted) ==
        (IF received > wanted THEN received - wanted ELSE wanted - received) * 100
          > Deviation * wanted
  IN IF off(x, AmountX(p)) \/ off(y, AmountY(p))
     THEN Round((y * r.d - r.n * x) * rate.y * rate.x, r.n * rate.y + r.d * rate.x)
     ELSE 0

\* Mutant: the upper tick belongs to the range.
InRangeStatusUpToUpper(p) ==
  CASE p = start -> "InRangeNoRouteThroughSelf"
    [] p # start /\ LowerTick <= TickAt(p) /\ TickAt(p) <= UpperTick -> "InRangeHasRouteThroughSelf"
    [] OTHER -> "InRangeHasRouteThroughSelfMayBecomeOutRange"
\* The status after the simulation, whatever was noted before.
InRangeStatus(p) ==
  CASE p = start -> "InRangeNoRouteThroughSelf"
    [] p # start /\ InRange(p) -> "InRangeHasRouteThroughSelf"
    [] OTHER -> "InRangeHasRouteThroughSelfMayBecomeOutRange"

\* Mutant: the rest is not computed again.
Calculate2OldRest(x, y, p) ==
  IF p # price /\ ~InRange(p)
  THEN /\ pc' = "done"
       /\ message' = Populated(status', x.swapAmount, y.swapAmount, p)
       /\ UNCHANGED <<toX, toY>>
  ELSE /\ pc' = "final"
       /\ toX' = (IF p # start THEN AmountInToX(p) ELSE toX)
                   + Rebalance(p, x.returnAmount, y.returnAmount)
       /\ UNCHANGED <<message, toY>>
\* The routes of the first split are there and the swap through the pool is
\* simulated: that price leaves the range, or it gives a new split, which is
\* then corrected by what the routes of the first one return.
Calculate2(x, y, p) ==
  IF p # price /\ ~InRange(p)
  THEN /\ pc' = "done"
       /\ message' = Populated(status', x.swapAmount, y.swapAmount, p)
       /\ UNCHANGED <<toX, toY>>
  ELSE /\ pc' = "final"
       /\ toX' = (IF p # start THEN AmountInToX(p) ELSE toX)
                   + Rebalance(p, x.returnAmount, y.returnAmount)
       /\ toY' = amountIn - toX'
       /\ UNCHANGED message

FindRoutes ==
  /\ pc = "routes"
  /\ \E x \in FindRoute("X", toX), y \in FindRoute("Y", toY) :
       \E p \in Simulated({x, y}) :
         price' = p /\ status' = InRangeStatus(p) /\ Calculate2(x, y, p)
  /\ UNCHANGED <<tokenIn, amountIn, rate, poolPrice, start>>
  /\ UNCHANGED <<positions, born, outVars>>

FindFinalRoutes ==
  /\ pc = "final"
  /\ \E x \in FindRoute("X", toX), y \in FindRoute("Y", toY) :
       message' = Populated(status, x.swapAmount, y.swapAmount, price)
  /\ pc' = "done"
  /\ UNCHANGED <<tokenIn, amountIn, rate, poolPrice, price, start, toX, toY, status>>
  /\ UNCHANGED <<positions, born, outVars>>

\* A query fails, or the router has no route.
Throw ==
  /\ pc \notin {"done", "sent", "thrown"}
  /\ pc' = "thrown"
  /\ UNCHANGED <<tokenIn, amountIn, rate, poolPrice, price, start, toX, toY, status, message>>
  /\ UNCHANGED <<positions, born, outVars>>

-----------------------------------------------------------------------------
(***************************************************************************)
(* processZapOutPositionLiquidity: the place of the position in the list   *)
(* goes into the message.                                                  *)
(***************************************************************************)
\* calculateRewardAmounts: BigInt(100 - zapFee * 100) takes whole numbers only.
FeeIsWhole(o) == fee[o] % 10 = 0

\* Mutant: the place of the last position that was looked at.
ReadPositionsAll(o) ==
  /\ outPc[o] = "start"
  /\ index' = [index EXCEPT ![o] = Len(positions)]
  /\ outPc' = [outPc EXCEPT ![o] = IF Contains(positions, want[o]) /\ FeeIsWhole(o)
                                   THEN "routes" ELSE "thrown"]
  /\ UNCHANGED <<want, fee, removed, overtaken>>
  /\ UNCHANGED <<inVars, positions, born>>

ReadPositions(o) ==
  /\ outPc[o] = "start"
  /\ IF Contains(positions, want[o]) /\ FeeIsWhole(o)
     THEN /\ \E k \in DOMAIN positions :
               positions[k] = want[o] /\ index' = [index EXCEPT ![o] = k]
          /\ outPc' = [outPc EXCEPT ![o] = "routes"]
     ELSE /\ outPc' = [outPc EXCEPT ![o] = "thrown"]
          /\ UNCHANGED index
  /\ UNCHANGED <<want, fee, removed, overtaken>>
  /\ UNCHANGED <<inVars, positions, born>>

BuildZapOut(o) ==
  /\ outPc[o] = "routes"
  /\ \E found \in BOOLEAN :
       outPc' = [outPc EXCEPT ![o] = IF found THEN "done" ELSE "thrown"]
  /\ UNCHANGED <<want, fee, index, removed, overtaken>>
  /\ UNCHANGED <<inVars, positions, born>>

-----------------------------------------------------------------------------
(***************************************************************************)
(* The contract.  A new position is the last one; where one goes, the      *)
(* later ones move up or the last one takes its place.                     *)
(***************************************************************************)
Without(k) == {RemoveAt(positions, k), Front([positions EXCEPT ![k] = Last(positions)])}

Waiting == {o \in Outs : outPc[o] \in {"routes", "done"}}

ZapIn ==
  /\ pc = "done"
  /\ pc' = "sent"
  /\ born < MaxPositions
  /\ born' = born + 1
  /\ positions' = Append(positions, born')
  /\ UNCHANGED <<tokenIn, amountIn, rate, poolPrice, price, start, toX, toY, status, message>>
  /\ UNCHANGED outVars

ZapOut(o) ==
  /\ outPc[o] = "done"
  /\ index[o] \in DOMAIN positions
  /\ outPc' = [outPc EXCEPT ![o] = "sent"]
  /\ removed' = [removed EXCEPT ![o] = positions[index[o]]]
  /\ positions' \in Without(index[o])
  /\ overtaken' = overtaken \cup (Waiting \ {o})
  /\ UNCHANGED <<want, fee, index>>
  /\ UNCHANGED <<inVars, born>>

\* The owner removes a position in another way.
RemovePosition(k) ==
  /\ positions' \in Without(k)
  /\ overtaken' = overtaken \cup Waiting
  /\ UNCHANGED <<want, fee, outPc, index, removed>>
  /\ UNCHANGED <<inVars, born>>

Next ==
  \/ GetPool \/ SingleSide \/ Calculate1 \/ FindRoutes \/ FindFinalRoutes \/ Throw
  \/ \E o \in Outs : ReadPositions(o) \/ BuildZapOut(o) \/ ZapOut(o)
  \/ ZapIn
  \/ \E k \in DOMAIN positions : RemovePosition(k)

Spec == Init /\ [][Next]_vars

-----------------------------------------------------------------------------
\* Each variable has its type.
TypeOK ==
  /\ tokenIn \in {"X", "Y", "other"} /\ amountIn \in AmountsIn /\ rate \in Rates
  /\ pc \in {"getPool", "singleSide", "quote", "routes", "final", "done", "sent", "thrown"}
  /\ poolPrice \in SqrtPrices /\ price \in SqrtPrices /\ start \in SqrtPrices
  /\ status \in Status \cup {"none"}
  /\ toX \in Int /\ toY \in Int
  /\ message \in [status : Status, price : SqrtPrices, x : Int, y : Int] \cup {NoMessage}
  /\ positions \in Seq(1..MaxPositions) /\ born \in 0..MaxPositions
  /\ want \in [Outs -> 1..MaxPositions] /\ fee \in [Outs -> ZapFees]
  /\ outPc \in [Outs -> {"start", "routes", "done", "sent", "thrown"}]
  /\ index \in [Outs -> 0..MaxPositions]
  /\ removed \in [Outs -> 0..MaxPositions]
  /\ overtaken \subseteq Outs

\* The message swaps, or keeps, two parts of what is zapped in: none is below
\* zero, so that the other would take more than the user gave, and nothing is
\* left with the zapper.  Where the token is one of the pool's, its own part is
\* kept without asking the router; if the price was moved as well, the corrected
\* split may then be 14 and -4 of 10, which is left out here.
SpendsWhatIsGiven ==
  message # NoMessage =>
    /\ message.x + message.y = amountIn
    /\ tokenIn = "other" \/ message.status # "InRangeHasRouteThroughSelf" =>
         message.x >= 0 /\ message.y >= 0

\* A pool out of the range that the simulation of the first route brings into
\* it: what its status says of the pool is overwritten.
BroughtIn == ~InRange(poolPrice) /\ InRange(start)

\* The status says, of the pool that was read: whether its price is in the range
\* and whether a swap of the message moves it; and of the price that the
\* liquidity is computed with, whether that is in the range.
StatusTellsRange ==
  message # NoMessage =>
    LET s == message.status IN
    /\ InRange(message.price) <=>
         s \in {"InRangeNoRouteThroughSelf", "InRangeHasRouteThroughSelf"}
    /\ ~BroughtIn =>
         /\ InRange(poolPrice) <=>
              s \in {"InRangeNoRouteThroughSelf", "InRangeHasRouteThroughSelf",
                     "InRangeHasRouteThroughSelfMayBecomeOutRange"}
         /\ message.price = poolPrice <=>
              s \in {"InRangeNoRouteThroughSelf", "OutRangeNoRouteThroughSelf"}

\* types.ts has a status of low accuracy for a pool out of the range that the
\* swap brings into it: OutRangeHasRouteThroughSelfMayBecomeInRange, which
\* processZapInWithSingleSide sets and processZapInPositionLiquidity overwrites.
OutRangeAsDocumented ==
  message # NoMessage /\ ~InRange(poolPrice) /\ InRange(message.price) =>
    message.status = "OutRangeHasRouteThroughSelfMayBecomeInRange"

\* Neither part is negative, whatever the router gives, as long as no swap goes
\* through the pool itself.
SplitUnlessMoved ==
  pc \in {"routes", "final", "done"} /\ price = start => 0 <= toX /\ toX <= amountIn

\* A zap out removes the position it was asked for, unless another one of the
\* owner went between the reading of the list and the execution; positions that
\* come, zaps in included, do no harm.
ZapsOutItsOwn ==
  \A o \in Outs : removed[o] # 0 /\ o \notin overtaken => removed[o] = want[o]
=============================================================================
