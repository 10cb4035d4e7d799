------------------------- MODULE ZapConsumer_proofs -------------------------
(***************************************************************************)
(* Proofs about ZapConsumer, for all amounts, prices and answers of the    *)
(* router: the parts of a zap in lie between nothing and all of it and no  *)
(* message swaps more than was given, the status is that of the pool and   *)
(* of the price, and a zap out that no other removal overtakes removes its *)
(* own position.                                                           *)
(***************************************************************************)
EXTENDS ZapConsumer, SequenceTheorems, TLAPS

\* Rounding a fraction gives an integer.
LEMMA RoundInt == \A a \in Int, b \in Nat \ {0} : Round(a, b) \in Int
BY DEF Round

\* What the rate has: prices above zero, and one for the token that is zapped in.
GoodRate ==
  /\ rate.x \in Nat \ {0} /\ rate.y \in Nat \ {0}
  /\ (tokenIn = "X" => rate.x = 1) /\ (tokenIn = "Y" => rate.y = 1)

RateOf(token) == IF token = "X" THEN rate.x ELSE rate.y

\* Rounded down, a quotient gives no more than the number divided.
LEMMA QuotientBelow ==
  ASSUME NEW a \in Nat, NEW b \in Nat \ {0} PROVE a \div b \in Nat /\ b * (a \div b) <= a
<1> DEFINE q == a \div b
           r == a % b
<1>1. a = b * q + r /\ 0 <= r /\ q \in Nat /\ r \in Int
  OBVIOUS
<1>2. b * q \in Int
  BY <1>1
<1> HIDE DEF q, r
<1>3. b * q <= a
  BY <1>1, <1>2
<1> QED BY <1>1, <1>3 DEF q

\* Less than nothing is still less than nothing after the division.
LEMMA QuotientBelowZero ==
  ASSUME NEW a \in Int, a < 0, NEW b \in Nat \ {0} PROVE a \div b < 0
<1> DEFINE q == a \div b
           r == a % b
<1>1. a = b * q + r /\ 0 <= r /\ q \in Int /\ r \in Int
  OBVIOUS
<1> HIDE DEF q, r
<1>2. SUFFICES ASSUME q >= 0 PROVE FALSE
  BY <1>1 DEF q
<1>3. b * q >= 0 /\ b * q \in Int
  BY <1>1, <1>2
<1> QED BY <1>1, <1>3

\* What a route swaps, or keeps, is what was asked for; it returns no more than
\* that is worth, and nothing below zero is swapped.
LEMMA RouteTypes ==
  ASSUME NEW token \in {"X", "Y"}, NEW amount \in Int, GoodRate,
         NEW r \in FindRoute(token, amount)
  PROVE  /\ r.swapAmount = amount /\ r.returnAmount \in Int
         /\ amount >= 0 => r.returnAmount >= 0 /\ r.returnAmount * RateOf(token) <= amount
         /\ token # tokenIn => amount >= 0
<1>1. RateOf(token) \in Nat \ {0}
  BY DEF GoodRate, RateOf
<1>2. CASE token = tokenIn \/ amount = 0
  <2>1. r.swapAmount = amount /\ r.returnAmount = amount
    BY <1>2 DEF FindRoute
  <2>2. CASE token = tokenIn
    <3>1. RateOf(token) = 1
      BY <2>2 DEF GoodRate, RateOf
    <3> QED BY <2>1, <2>2, <3>1
  <2>3. CASE amount = 0
    <3>1. 0 * RateOf(token) = 0
      BY <1>1
    <3> QED BY <2>1, <2>3, <3>1
  <2> QED BY <1>2, <2>2, <2>3
<1>3. CASE ~(token = tokenIn \/ amount = 0)
  <2> DEFINE promised == amount \div RateOf(token)
  <2>1. promised \in Int
    BY <1>1
  <2>2. promised - Shortfall \in Int /\ Shortfall \in Nat
    BY <2>1, ZapAssumption
  <2>3. amount >= 0 => promised >= 0 /\ RateOf(token) * promised <= amount
    BY <1>1, QuotientBelow
  <2>p. amount < 0 => promised < 0
    BY <1>1, QuotientBelowZero
  <2> HIDE DEF promised
  <2>4. r \in [swapAmount : {amount},
               returnAmount : {a \in promised - Shortfall..promised : a > 0},
               throughSelf : BOOLEAN]
    BY <1>3 DEF FindRoute, promised, RateOf
  <2>5. /\ r.swapAmount = amount /\ r.returnAmount \in Int
        /\ r.returnAmount > 0 /\ r.returnAmount <= promised
    BY <2>1, <2>2, <2>4
  <2>6. ASSUME amount >= 0 PROVE r.returnAmount * RateOf(token) <= amount
    <3> DEFINE k == RateOf(token)
               x == r.returnAmount
    <3>1. k \in Nat /\ x \in Nat /\ promised \in Nat /\ k * promised <= amount
      BY <1>1, <2>1, <2>3, <2>5, <2>6
    <3> DEFINE e == promised - x
    <3>2. promised = x + e /\ e \in Nat
      BY <2>5, <3>1
    <3> HIDE DEF k, x, e
    <3>3. k * (x + e) = x * k + k * e /\ k * e >= 0 /\ x * k \in Int /\ k * e \in Int
      BY <3>1, <3>2
    <3>4. x * k <= amount
      BY <3>1, <3>2, <3>3
    <3> QED BY <3>4 DEF k, x
  <2>7. amount >= 0
    BY <2>1, <2>p, <2>5
  <2> QED BY <2>5, <2>6, <2>7
<1> QED BY <1>2, <1>3

\* A simulated price is a price.
LEMMA SimulatedPrice ==
  ASSUME price \in SqrtPrices, NEW routes, NEW p \in Simulated(routes)
  PROVE  p \in SqrtPrices
<1>1. ASSUME NEW target \in SqrtPrices PROVE (price + target) \div 2 \in SqrtPrices
  BY <1>1, ZapAssumption DEF SqrtPrices
<1> QED BY <1>1 DEF Simulated

\* In the range the split and its correction are integers.
LEMMA SplitInt ==
  ASSUME GoodRate, amountIn \in Int, NEW p \in SqrtPrices, InRange(p)
  PROVE  /\ AmountInToX(p) \in Int
         /\ \A x, y \in Int : Rebalance(p, x, y) \in Int
<1>1. rate.x \in Nat /\ rate.x > 0 /\ rate.y \in Nat /\ rate.y > 0
  BY DEF GoodRate
<1>2. YPerX[p].n \in Nat /\ YPerX[p].d \in Nat /\ YPerX[p].d > 0
  BY ZapAssumption
<1> DEFINE n == YPerX[p].n
           d == YPerX[p].d
<1>3. \A a, b \in Nat : a > 0 /\ b > 0 => a * b \in Nat /\ a * b > 0
  OBVIOUS
<1>4. \A a, b \in Nat : a * b \in Nat
  OBVIOUS
<1>5. \A a, b \in Int : a * b \in Int
  OBVIOUS
<1>6. PriceOf(p) \in Nat \ {0}
  <2>1. rate.x * d \in Nat /\ rate.x * d > 0 /\ rate.y * n \in Nat
    BY <1>1, <1>2, <1>3, <1>4
  <2> QED BY <2>1 DEF PriceOf
<1>7. AmountInToX(p) \in Int
  <2>1. amountIn * d * rate.x \in Int
    BY <1>1, <1>2, <1>5
  <2> QED BY <2>1, <1>6, RoundInt DEF AmountInToX
<1>8. ASSUME NEW x \in Int, NEW y \in Int PROVE Rebalance(p, x, y) \in Int
  <2>1. (y * d - n * x) * rate.y * rate.x \in Int
    BY <1>1, <1>2, <1>5
  <2>2. n * rate.y + d * rate.x \in Nat \ {0}
    <3>1. n * rate.y \in Nat /\ d * rate.x \in Nat /\ d * rate.x > 0
      BY <1>1, <1>2, <1>3, <1>4
    <3> QED BY <3>1
  <2>3. Round((y * d - n * x) * rate.y * rate.x, n * rate.y + d * rate.x) \in Int
    BY <2>1, <2>2, RoundInt
  <2> QED BY <2>3 DEF Rebalance
<1> QED BY <1>7, <1>8

\* A fraction between whole numbers is rounded to one between them.
LEMMA RoundBetween ==
  ASSUME NEW a \in Int, NEW b \in Nat \ {0}, NEW low \in Int, NEW high \in Int,
         low * b <= a, a <= high * b
  PROVE  low <= Round(a, b) /\ Round(a, b) <= high
<1> DEFINE q == (2 * a + b) \div (2 * b)
           r == (2 * a + b) % (2 * b)
<1>1. 2 * b \in Nat \ {0} /\ 2 * a + b \in Int
  OBVIOUS
<1>2. 2 * a + b = (2 * b) * q + r /\ 0 <= r /\ r < 2 * b /\ q \in Int /\ r \in Int
  BY <1>1
<1> HIDE DEF q, r
<1>3. low <= q
  <2>1. SUFFICES ASSUME q < low PROVE FALSE
    BY <1>2
  <2>2. PICK e \in Nat : low = q + 1 + e
    BY <1>2, <2>1
  <2>3. low * b = q * b + b + e * b /\ e * b >= 0 /\ (2 * b) * q = 2 * (q * b)
    BY <1>2, <2>2
  <2>4. q * b \in Int /\ e * b \in Int /\ low * b \in Int
    BY <1>2, <2>2
  <2> QED BY <1>2, <2>3, <2>4
<1>4. q <= high
  <2>1. SUFFICES ASSUME high < q PROVE FALSE
    BY <1>2
  <2>2. PICK e \in Nat : q = high + 1 + e
    BY <1>2, <2>1
  <2>3. q * b = high * b + b + e * b /\ e * b >= 0 /\ (2 * b) * q = 2 * (q * b)
    BY <1>2, <2>2
  <2>4. q * b \in Int /\ e * b \in Int /\ high * b \in Int
    BY <1>2, <2>2
  <2> QED BY <1>2, <2>3, <2>4
<1> QED BY <1>3, <1>4 DEF q, Round

\* The first split is between nothing and all.
LEMMA FirstSplit ==
  ASSUME GoodRate, amountIn \in Nat, NEW p \in SqrtPrices, InRange(p)
  PROVE  0 <= AmountInToX(p) /\ AmountInToX(p) <= amountIn
<1> DEFINE n == YPerX[p].n
           d == YPerX[p].d
           dx == d * rate.x
           ny == rate.y * n
           num == amountIn * d * rate.x
<1>1. n \in Nat /\ d \in Nat \ {0} /\ rate.x \in Nat \ {0} /\ rate.y \in Nat \ {0}
  BY ZapAssumption DEF GoodRate
<1>2. dx \in Nat /\ dx > 0 /\ ny \in Nat /\ rate.x * d = dx
  <2>1. \A a, b \in Nat : a > 0 /\ b > 0 => a * b \in Nat /\ a * b > 0 /\ b * a = a * b
    OBVIOUS
  <2>2. \A a, b \in Nat : a * b \in Nat
    OBVIOUS
  <2> QED BY <1>1, <2>1, <2>2
<1>3. num = amountIn * dx
  BY <1>1
<1> HIDE DEF n, d, dx, ny, num
<1>4. PriceOf(p) = dx + ny
  <2>1. PriceOf(p) = rate.x * d + ny
    BY DEF PriceOf, d, n, ny
  <2> QED BY <1>2, <2>1
<1>5. amountIn * (dx + ny) = amountIn * dx + amountIn * ny /\ amountIn * ny >= 0
      /\ amountIn * dx >= 0 /\ amountIn * dx \in Int /\ amountIn * ny \in Int
  BY <1>2
<1>6. dx + ny \in Nat \ {0} /\ num \in Int /\ 0 * (dx + ny) <= num
      /\ num <= amountIn * (dx + ny)
  BY <1>2, <1>3, <1>5
<1>7. 0 <= Round(num, dx + ny) /\ Round(num, dx + ny) <= amountIn
  BY <1>6, RoundBetween
<1>8. AmountInToX(p) = Round(num, dx + ny)
  BY <1>4 DEF AmountInToX, num, d
<1> QED BY <1>7, <1>8

\* The correction moves no more than either part has: what a part returns is
\* worth no more than the part.
LEMMA RebalanceBounds ==
  ASSUME GoodRate, NEW p \in SqrtPrices, InRange(p),
         NEW X \in Nat, NEW Y \in Nat, NEW x \in Nat, NEW y \in Nat,
         x * rate.x <= X, y * rate.y <= Y
  PROVE  0 - X <= Rebalance(p, x, y) /\ Rebalance(p, x, y) <= Y
<1> DEFINE n == YPerX[p].n
           d == YPerX[p].d
           rx == rate.x
           ry == rate.y
           num == (y * d - n * x) * ry * rx
           dx == d * rx
           ny == n * ry
<1>1. n \in Nat /\ d \in Nat \ {0} /\ rx \in Nat \ {0} /\ ry \in Nat \ {0}
  BY ZapAssumption DEF GoodRate
<1>2. dx \in Nat /\ dx > 0 /\ ny \in Nat
  <2>1. \A a, b \in Nat : a > 0 /\ b > 0 => a * b \in Nat /\ a * b > 0
    OBVIOUS
  <2>2. \A a, b \in Nat : a * b \in Nat
    OBVIOUS
  <2> QED BY <1>1, <2>1, <2>2
<1>p. x * rx <= X /\ y * ry <= Y
  OBVIOUS
<1> HIDE DEF n, d, rx, ry
<1> DEFINE vx == x * rx
           vy == y * ry
<1>3. num = vy * dx - vx * ny
  <2>1. num = (y * d) * ry * rx - (n * x) * ry * rx
    BY <1>1
  <2>2. (y * d) * ry * rx = vy * dx
    BY <1>1
  <2>3. (n * x) * ry * rx = vx * ny
    BY <1>1
  <2> QED BY <2>1, <2>2, <2>3
<1>4. vx \in Nat /\ vy \in Nat /\ vx <= X /\ vy <= Y
  BY <1>1, <1>p
<1> HIDE DEF num, dx, ny, vx, vy
<1>5. PICK e \in Nat, f \in Nat : X = vx + e /\ Y = vy + f
  <2>1. X - vx \in Nat /\ Y - vy \in Nat
    BY <1>4
  <2> QED BY <1>4, <2>1
<1>6. /\ Y * (ny + dx) = Y * ny + vy * dx + f * dx
      /\ (0 - X) * (ny + dx) = 0 - X * dx - vx * ny - e * ny
  BY <1>2, <1>4, <1>5
<1>7. \A a, b \in Nat : a * b \in Nat
  OBVIOUS
<1>8. Y * ny \in Nat /\ vy * dx \in Nat /\ f * dx \in Nat /\ X * dx \in Nat
      /\ vx * ny \in Nat /\ e * ny \in Nat
  BY <1>2, <1>4, <1>5, <1>7
<1>9. /\ num \in Int /\ ny + dx \in Nat \ {0} /\ 0 - X \in Int
      /\ (0 - X) * (ny + dx) <= num /\ num <= Y * (ny + dx)
  BY <1>2, <1>3, <1>6, <1>8
<1>10. 0 - X <= Round(num, ny + dx) /\ Round(num, ny + dx) <= Y
  BY <1>9, RoundBetween
<1>11. Rebalance(p, x, y) \in {0, Round(num, ny + dx)}
  BY DEF Rebalance, num, ny, dx, n, d, rx, ry
<1> QED BY <1>10, <1>11

-----------------------------------------------------------------------------
(***************************************************************************)
(* The invariant of a zap in: where the price is at each await, what the   *)
(* two parts are, and what a message says.                                 *)
(***************************************************************************)

InTypes ==
  /\ tokenIn \in {"X", "Y", "other"} /\ amountIn \in AmountsIn /\ rate \in Rates /\ GoodRate
  /\ pc \in {"getPool", "singleSide", "quote", "routes", "final", "done", "sent", "thrown"}
  /\ poolPrice \in SqrtPrices /\ price \in SqrtPrices /\ start \in SqrtPrices
  /\ status \in Status \cup {"none"}
  /\ toX \in Int /\ toY \in Int

\* The simulation moves the price where it is noted, or at the end; a pool that
\* was in the range starts from its own price.
InPrices ==
  /\ pc \in {"getPool", "singleSide"} => price = poolPrice
  /\ pc \in {"getPool", "singleSide", "quote", "routes"} => start = price
  /\ pc = "singleSide" => ~InRange(price)
  /\ pc \in {"quote", "routes", "final"} => InRange(price) /\ InRange(start)
  /\ InRange(poolPrice) => start = poolPrice
  /\ pc = "final" => status = InRangeStatus(price)

InParts ==
  /\ pc \in {"getPool", "singleSide", "quote"} => toX = 0 /\ message = NoMessage
  /\ pc \in {"routes", "final"} => toY = amountIn - toX
  /\ SplitUnlessMoved

\* No part of a message is below zero, where SpendsWhatIsGiven says so.
GoodParts(result, x, y) ==
  /\ x \in Int /\ y \in Int /\ x + y = amountIn
  /\ tokenIn = "other" \/ result # "InRangeHasRouteThroughSelf" => x >= 0 /\ y >= 0

\* The status of a message is that of its price and of the pool's.
GoodStatus(result, p) ==
  /\ result \in Status
  /\ InRange(p) <=> result \in {"InRangeNoRouteThroughSelf", "InRangeHasRouteThroughSelf"}
  /\ ~BroughtIn =>
       /\ InRange(poolPrice) <=>
            result \in {"InRangeNoRouteThroughSelf", "InRangeHasRouteThroughSelf",
                        "InRangeHasRouteThroughSelfMayBecomeOutRange"}
       /\ p = poolPrice <=> result \in {"InRangeNoRouteThroughSelf", "OutRangeNoRouteThroughSelf"}

GoodMessage(m) ==
  /\ m \in [status : Status, price : SqrtPrices, x : Int, y : Int]
  /\ GoodParts(m.status, m.x, m.y)
  /\ GoodStatus(m.status, m.price)

SplitInv ==
  /\ InTypes /\ InPrices /\ InParts
  /\ message # NoMessage => GoodMessage(message)

\* At the start nothing is split.
LEMMA SplitInit == Init => SplitInv
<1> SUFFICES ASSUME Init PROVE SplitInv
  OBVIOUS
<1>1. /\ tokenIn \in {"X", "Y", "other"} /\ amountIn \in AmountsIn /\ rate \in Rates
      /\ (tokenIn = "X" => rate.x = 1) /\ (tokenIn = "Y" => rate.y = 1)
      /\ pc = "getPool" /\ poolPrice \in SqrtPrices /\ price = poolPrice /\ start = poolPrice
      /\ toX = 0 /\ toY = 0 /\ status = "none" /\ message = NoMessage
  BY DEF Init
<1>2. GoodRate
  BY <1>1, ZapAssumption DEF GoodRate
<1>3. InTypes
  BY <1>1, <1>2 DEF InTypes
<1>4. InPrices /\ InParts
  BY <1>1 DEF InPrices, InParts, SplitUnlessMoved
<1> QED BY <1>1, <1>3, <1>4 DEF SplitInv

\* A message that is kept stays a good one, while the first simulation's price
\* is kept too.
LEMMA SameMessage ==
  ASSUME SplitInv, UNCHANGED <<tokenIn, amountIn, poolPrice, start, message>>
  PROVE  (message # NoMessage => GoodMessage(message))'
BY DEF SplitInv, GoodMessage, GoodParts, GoodStatus, BroughtIn, InRange, TickAt, NoMessage

\* A step of the zaps out and of the contract keeps what the zap in knows.
LEMMA SplitFrame == SplitInv /\ UNCHANGED inVars => SplitInv'
<1> SUFFICES ASSUME SplitInv, UNCHANGED inVars PROVE SplitInv'
  OBVIOUS
<1>1. UNCHANGED <<tokenIn, amountIn, rate, pc, poolPrice, price, start, toX, toY, status, message>>
  BY DEF inVars
<1>2. InTypes'
  BY <1>1 DEF SplitInv, InTypes, GoodRate
<1>3. InPrices' /\ InParts'
  BY <1>1 DEF SplitInv, InPrices, InParts, SplitUnlessMoved, InRange, TickAt, InRangeStatus
<1>4. (message # NoMessage => GoodMessage(message))'
  BY <1>1, SameMessage
<1> QED BY <1>2, <1>3, <1>4 DEF SplitInv

\* So does one that only moves the zap in on, to where it already could be.
LEMMA SplitMove ==
  ASSUME SplitInv,
         UNCHANGED <<tokenIn, amountIn, rate, poolPrice, price, start, toX, toY, status, message>>,
         \/ pc' \in {"sent", "thrown"}
         \/ pc = "getPool" /\ pc' = IF InRange(price) THEN "quote" ELSE "singleSide"
  PROVE  SplitInv'
<1>1. InTypes'
  BY DEF SplitInv, InTypes, GoodRate
<1>2. InPrices'
  BY DEF SplitInv, InPrices, InRange, TickAt, InRangeStatus
<1>3. InParts'
  BY DEF SplitInv, InParts, SplitUnlessMoved
<1>4. (message # NoMessage => GoodMessage(message))'
  BY SameMessage
<1> QED BY <1>1, <1>2, <1>3, <1>4 DEF SplitInv

\* A step that ends with a message.
LEMMA SplitMessage ==
  ASSUME SplitInv, UNCHANGED <<tokenIn, amountIn, rate, poolPrice>>, pc' = "done",
         price' \in SqrtPrices, start' \in SqrtPrices, status' \in Status, UNCHANGED <<toX, toY>>,
         price' = start' => 0 <= toX /\ toX <= amountIn,
         InRange(poolPrice) => start' = poolPrice,
         NEW x, NEW y, message' = Populated(status', x, y, price'),
         GoodParts(status', x, y), GoodStatus(status, price)'
  PROVE  SplitInv'
<1>1. InTypes'
  BY DEF SplitInv, InTypes, GoodRate
<1>2. InPrices'
  BY DEF SplitInv, InPrices, InRange, TickAt
<1>3. InParts'
  BY DEF InParts, SplitUnlessMoved
<1>4. x \in Int /\ y \in Int
  BY DEF GoodParts
<1>5. /\ message' \in [status : Status, price : SqrtPrices, x : Int, y : Int]
      /\ message'.status = status' /\ message'.price = price'
      /\ message'.x = x /\ message'.y = y
  BY <1>4 DEF Populated
<1>6. GoodParts(message.status, message.x, message.y)'
  BY <1>5 DEF GoodParts
<1>7. GoodStatus(message.status, message.price)'
  BY <1>5 DEF GoodStatus, BroughtIn, InRange, TickAt
<1>8. GoodMessage(message)'
  BY <1>5, <1>6, <1>7 DEF GoodMessage
<1> QED BY <1>1, <1>2, <1>3, <1>8 DEF SplitInv

\* The parts after the routes of the first split are known, unless the price
\* has been moved.
LEMMA CorrectedSplit ==
  ASSUME SplitInv, pc = "routes",
         NEW x \in FindRoute("X", toX), NEW y \in FindRoute("Y", toY)
  PROVE  /\ x.swapAmount = toX /\ y.swapAmount = toY
         /\ toX >= 0 /\ toY >= 0 /\ toX + toY = amountIn
         /\ x.returnAmount \in Int /\ y.returnAmount \in Int
         /\ LET r == toX + Rebalance(price, x.returnAmount, y.returnAmount)
            IN  0 <= r /\ r <= amountIn
<1>1. /\ GoodRate /\ toX \in Int /\ toY \in Int /\ amountIn \in Nat
      /\ price \in SqrtPrices /\ start = price /\ InRange(price) /\ toY = amountIn - toX
      /\ 0 <= toX /\ toX <= amountIn
  BY ZapAssumption DEF SplitInv, InTypes, InPrices, InParts, SplitUnlessMoved
<1>2. toX \in Nat /\ toY \in Nat
  BY <1>1
<1>3. /\ x.swapAmount = toX /\ y.swapAmount = toY
      /\ x.returnAmount \in Nat /\ y.returnAmount \in Nat
      /\ x.returnAmount * rate.x <= toX /\ y.returnAmount * rate.y <= toY
  <2>1. /\ x.swapAmount = toX /\ x.returnAmount \in Int
        /\ x.returnAmount >= 0 /\ x.returnAmount * RateOf("X") <= toX
    BY <1>1, RouteTypes
  <2>2. /\ y.swapAmount = toY /\ y.returnAmount \in Int
        /\ y.returnAmount >= 0 /\ y.returnAmount * RateOf("Y") <= toY
    BY <1>1, <1>2, RouteTypes
  <2> QED BY <2>1, <2>2 DEF RateOf
<1>4. /\ 0 - toX <= Rebalance(price, x.returnAmount, y.returnAmount)
      /\ Rebalance(price, x.returnAmount, y.returnAmount) <= toY
  BY <1>1, <1>2, <1>3, RebalanceBounds
<1>5. Rebalance(price, x.returnAmount, y.returnAmount) \in Int
  BY <1>1, <1>3, SplitInt
<1> QED BY <1>1, <1>2, <1>3, <1>4, <1>5

\* What the statuses of the two branches say.
LEMMA Statuses ==
  /\ \A p : SingleSideStatus(p) =
            IF p = price THEN "OutRangeNoRouteThroughSelf"
            ELSE IF InRange(p) THEN "OutRangeHasRouteThroughSelfMayBecomeInRange"
            ELSE "OutRangeHasRouteThroughSelf"
  /\ \A p : InRangeStatus(p) =
            IF p = start THEN "InRangeNoRouteThroughSelf"
            ELSE IF InRange(p) THEN "InRangeHasRouteThroughSelf"
            ELSE "InRangeHasRouteThroughSelfMayBecomeOutRange"
BY DEF SingleSideStatus, InRangeStatus

\* Every step of processZapInPositionLiquidity keeps the split.
LEMMA SplitStep == SplitInv /\ [Next]_vars => SplitInv'
<1> SUFFICES ASSUME SplitInv, [Next]_vars PROVE SplitInv'
  OBVIOUS
<1>t. /\ amountIn \in Nat /\ GoodRate /\ price \in SqrtPrices /\ start \in SqrtPrices
      /\ poolPrice \in SqrtPrices /\ status \in Status \cup {"none"}
      /\ toX \in Int /\ toY \in Int
  BY ZapAssumption DEF SplitInv, InTypes
<1>1. CASE GetPool
  BY <1>1, SplitMove DEF GetPool
<1>2. CASE SingleSide
  <2> DEFINE token == IF UpperTick < TickAt(price) THEN "Y" ELSE "X"
  <2>x. PICK route \in FindRoute(token, amountIn) : \E p \in Simulated({route}) :
          /\ price' = p /\ start' = p /\ status' = SingleSideStatus(p)
          /\ IF status' = "OutRangeHasRouteThroughSelfMayBecomeInRange"
             THEN pc' = "quote" /\ UNCHANGED message
             ELSE /\ pc' = "done"
                  /\ message' = IF token = "X" THEN Populated(status', route.swapAmount, 0, p)
                                ELSE Populated(status', 0, route.swapAmount, p)
    BY <1>2 DEF SingleSide
  <2>1. PICK p \in Simulated({route}) :
          /\ price' = p /\ start' = p /\ status' = SingleSideStatus(p)
          /\ IF status' = "OutRangeHasRouteThroughSelfMayBecomeInRange"
             THEN pc' = "quote" /\ UNCHANGED message
             ELSE /\ pc' = "done"
                  /\ message' = IF token = "X" THEN Populated(status', route.swapAmount, 0, p)
                                ELSE Populated(status', 0, route.swapAmount, p)
    BY <2>x
  <2>2. route.swapAmount = amountIn
    BY <1>t, RouteTypes
  <2>3. p \in SqrtPrices
    BY <1>t, SimulatedPrice
  <2>4. UNCHANGED <<tokenIn, amountIn, rate, poolPrice, toX, toY>> /\ pc = "singleSide"
    BY <1>2 DEF SingleSide
  <2>5. ~InRange(price) /\ price = poolPrice /\ toX = 0
    BY <2>4 DEF SplitInv, InPrices, InParts
  <2> HIDE DEF token
  <2>6. CASE p # price /\ InRange(p)
    <3>1. /\ status' = "OutRangeHasRouteThroughSelfMayBecomeInRange"
          /\ pc' = "quote" /\ message' = message
      BY <2>1, <2>6, Statuses
    <3>2. status' \in Status
      BY <3>1 DEF Status
    <3>3. InTypes'
      BY <2>1, <2>3, <2>4, <3>1, <3>2 DEF SplitInv, InTypes, GoodRate
    <3>4. InPrices' /\ InParts'
      BY <2>1, <2>4, <2>5, <2>6, <3>1
      DEF SplitInv, InPrices, InParts, SplitUnlessMoved, InRange, TickAt
    <3>5. message = NoMessage
      BY <2>4 DEF SplitInv, InParts
    <3> QED BY <3>1, <3>3, <3>4, <3>5 DEF SplitInv, NoMessage
  <2>7. CASE ~(p # price /\ InRange(p))
    <3>1. /\ ~InRange(p)
          /\ status' = IF p = price THEN "OutRangeNoRouteThroughSelf"
                       ELSE "OutRangeHasRouteThroughSelf"
      BY <2>1, <2>5, <2>7, Statuses
    <3>2. /\ pc' = "done"
          /\ \/ message' = Populated(status', amountIn, 0, price')
             \/ message' = Populated(status', 0, amountIn, price')
      BY <2>1, <2>2, <3>1
    <3>3. GoodParts(status', amountIn, 0) /\ GoodParts(status', 0, amountIn)
      BY <1>t DEF GoodParts
    <3>4. status' \in Status
      BY <3>1 DEF Status
    <3>5. GoodStatus(status, price)'
      BY <2>1, <2>4, <2>5, <3>1, <3>4 DEF GoodStatus, BroughtIn, InRange, TickAt
    <3>6. InRange(poolPrice) => start' = poolPrice
      BY <2>5
    <3> QED BY <1>t, <2>1, <2>3, <2>4, <2>5, <3>2, <3>3, <3>4, <3>5, <3>6, SplitMessage
  <2> QED BY <2>6, <2>7
<1>3. CASE Calculate1
  <2>1. /\ pc = "quote" /\ pc' = "routes" /\ toX' = AmountInToX(price) /\ toY' = amountIn - toX'
        /\ UNCHANGED <<tokenIn, amountIn, rate, poolPrice, price, start, status, message>>
    BY <1>3 DEF Calculate1
  <2>2. InRange(price) /\ start = price
    BY <2>1 DEF SplitInv, InPrices
  <2>3. toX' \in Int /\ 0 <= toX' /\ toX' <= amountIn /\ toY' \in Int
    BY <1>t, <2>1, <2>2, SplitInt, FirstSplit
  <2>4. InTypes'
    BY <2>1, <2>3 DEF SplitInv, InTypes, GoodRate
  <2>5. InPrices' /\ InParts'
    BY <2>1, <2>2, <2>3 DEF SplitInv, InPrices, InParts, SplitUnlessMoved, InRange, TickAt
  <2>6. (message # NoMessage => GoodMessage(message))'
    BY <2>1, SameMessage
  <2> QED BY <2>4, <2>5, <2>6 DEF SplitInv
<1>4. CASE FindRoutes
  <2>0. /\ pc = "routes" /\ InRange(price) /\ start = price
        /\ InRange(poolPrice) => start = poolPrice
        /\ UNCHANGED <<tokenIn, amountIn, rate, poolPrice, start>>
    BY <1>4 DEF FindRoutes, SplitInv, InPrices
  <2>x. PICK x \in FindRoute("X", toX), y \in FindRoute("Y", toY) :
          \E p \in Simulated({x, y}) :
            price' = p /\ status' = InRangeStatus(p) /\ Calculate2(x, y, p)
    BY <1>4 DEF FindRoutes
  <2>1. PICK p \in Simulated({x, y}) :
          price' = p /\ status' = InRangeStatus(p) /\ Calculate2(x, y, p)
    BY <2>x
  <2>2. /\ x.swapAmount = toX /\ y.swapAmount = toY
        /\ toX >= 0 /\ toY >= 0 /\ toX + toY = amountIn
        /\ x.returnAmount \in Int /\ y.returnAmount \in Int
        /\ 0 <= toX + Rebalance(price, x.returnAmount, y.returnAmount)
        /\ toX + Rebalance(price, x.returnAmount, y.returnAmount) <= amountIn
    BY <2>0, CorrectedSplit
  <2>3. p \in SqrtPrices
    BY <1>t, SimulatedPrice
  <2>4. status' \in Status
    BY <2>1, Statuses DEF Status
  <2>5. CASE p # price /\ ~InRange(p)
    <3>1. /\ pc' = "done" /\ UNCHANGED <<toX, toY>>
          /\ message' = Populated(status', toX, toY, price')
      BY <2>1, <2>2, <2>5 DEF Calculate2
    <3>2. status' = "InRangeHasRouteThroughSelfMayBecomeOutRange"
      BY <2>0, <2>1, <2>5, Statuses
    <3>3. price' # start' /\ ~InRange(price')
      BY <2>0, <2>1, <2>5
    <3>4. GoodParts(status', toX, toY)
      BY <1>t, <2>2 DEF GoodParts
    <3>5. GoodStatus(status, price)'
      BY <2>0, <2>1, <2>4, <2>5, <3>2 DEF GoodStatus, BroughtIn, InRange, TickAt
    <3> QED BY <1>t, <2>0, <2>1, <2>3, <2>4, <3>1, <3>3, <3>4, <3>5, SplitMessage
  <2>6. CASE ~(p # price /\ ~InRange(p))
    <3>1. InRange(p)
      BY <2>0, <2>6
    <3>2. /\ pc' = "final" /\ message' = message
          /\ toX' = (IF p # start THEN AmountInToX(p) ELSE toX)
                      + Rebalance(p, x.returnAmount, y.returnAmount)
          /\ toY' = amountIn - toX'
      BY <2>1, <2>6 DEF Calculate2
    <3>3. AmountInToX(p) \in Int /\ Rebalance(p, x.returnAmount, y.returnAmount) \in Int
      BY <1>t, <2>2, <2>3, <3>1, SplitInt
    <3>4. toX' \in Int /\ toY' \in Int
      BY <1>t, <3>2, <3>3
    <3>5. price' = start' => 0 <= toX' /\ toX' <= amountIn
      BY <2>0, <2>1, <2>2, <3>2
    <3>6. InTypes'
      BY <2>0, <2>1, <2>3, <2>4, <3>2, <3>4 DEF SplitInv, InTypes, GoodRate
    <3>7. InPrices' /\ InParts'
      <4>1. InRangeStatus(price)' = InRangeStatus(p)
        BY <2>0, <2>1 DEF InRangeStatus, InRange, TickAt
      <4> QED BY <2>0, <2>1, <3>1, <3>2, <3>5, <4>1
              DEF InPrices, InParts, SplitUnlessMoved, InRange, TickAt
    <3>8. (message # NoMessage => GoodMessage(message))'
      BY <2>0, <3>2, SameMessage
    <3> QED BY <3>6, <3>7, <3>8 DEF SplitInv
  <2> QED BY <2>5, <2>6
<1>5. CASE FindFinalRoutes
  <2>0. /\ pc = "final" /\ pc' = "done"
        /\ UNCHANGED <<tokenIn, amountIn, rate, poolPrice, price, start, toX, toY, status>>
    BY <1>5 DEF FindFinalRoutes
  <2>1. /\ InRange(price) /\ InRange(start) /\ toX + toY = amountIn
        /\ price = start => 0 <= toX /\ toX <= amountIn
        /\ InRange(poolPrice) => start = poolPrice
        /\ status = InRangeStatus(price)
    BY <1>t, <2>0 DEF SplitInv, InPrices, InParts, SplitUnlessMoved
  <2>2. PICK x \in FindRoute("X", toX), y \in FindRoute("Y", toY) :
          message' = Populated(status, x.swapAmount, y.swapAmount, price)
    BY <1>5 DEF FindFinalRoutes
  <2>3. /\ x.swapAmount = toX /\ y.swapAmount = toY
        /\ tokenIn = "other" => toX >= 0 /\ toY >= 0
    BY <1>t, RouteTypes
  <2>4. message' = Populated(status', toX, toY, price')
    BY <2>0, <2>2, <2>3
  <2>5. status = IF price = start THEN "InRangeNoRouteThroughSelf"
                 ELSE "InRangeHasRouteThroughSelf"
    BY <2>1, Statuses
  <2>6. status' \in Status
    BY <2>0, <2>5 DEF Status
  <2>7. GoodParts(status', toX, toY)
    BY <1>t, <2>0, <2>1, <2>3, <2>5 DEF GoodParts
  <2>8. GoodStatus(status, price)'
    BY <2>0, <2>1, <2>5, <2>6 DEF GoodStatus, BroughtIn, InRange, TickAt
  <2>9. price' \in SqrtPrices /\ start' \in SqrtPrices
    BY <1>t, <2>0
  <2> QED BY <2>0, <2>1, <2>4, <2>6, <2>7, <2>8, <2>9, SplitMessage
<1>6. CASE Throw
  BY <1>6, SplitMove DEF Throw
<1>7. CASE ZapIn
  BY <1>7, SplitMove DEF ZapIn
<1>8. CASE \E o \in Outs : ReadPositions(o) \/ BuildZapOut(o) \/ ZapOut(o)
  BY <1>8, SplitFrame DEF ReadPositions, BuildZapOut, ZapOut
<1>9. CASE \E k \in DOMAIN positions : RemovePosition(k)
  BY <1>9, SplitFrame DEF RemovePosition
<1>10. CASE UNCHANGED vars
  BY <1>10, SplitFrame DEF vars
<1> QED BY <1>1, <1>2, <1>3, <1>4, <1>5, <1>6, <1>7, <1>8, <1>9, <1>10 DEF Next

LEMMA SplitAlways == Spec => []SplitInv
BY SplitInit, SplitStep, PTL DEF Spec

\* A message of processZapInPositionLiquidity swaps two parts that make up the
\* amount zapped in and are not below zero, whichever way the calculations went
\* and whatever the router answered, but for a corrected split whose own part the
\* router is not asked for (zap-consumer.ts:475-501).
THEOREM SpendsAll == Spec => []SpendsWhatIsGiven
<1>1. SplitInv => SpendsWhatIsGiven
  BY DEF SplitInv, GoodMessage, GoodParts, SpendsWhatIsGiven
<1> QED BY SplitAlways, <1>1, PTL

\* Its status says truly whether the price that the liquidity is computed with
\* lies in the range, and, unless the pool was brought into the range, whether
\* the pool's did and whether a swap moves it; for any range and wherever the
\* simulations move the price.
THEOREM StatusIsTrue == Spec => []StatusTellsRange
<1>1. SplitInv => StatusTellsRange
  BY DEF SplitInv, GoodMessage, GoodStatus, StatusTellsRange
<1> QED BY SplitAlways, <1>1, PTL

\* While no swap goes through the pool itself, neither part of the split is
\* negative, after both calculations and their rounding, for every amount, price,
\* deviation and shortfall of the router.
THEOREM SplitsBetweenNothingAndAll == Spec => []SplitUnlessMoved
<1>1. SplitInv => SplitUnlessMoved
  BY DEF SplitInv, InParts
<1> QED BY SplitAlways, <1>1, PTL

-----------------------------------------------------------------------------
\* Until another position goes, the place that was read is the position's.
PlaceInv ==
  /\ positions \in Seq(1..MaxPositions) /\ born \in 0..MaxPositions /\ Len(positions) <= born
  /\ want \in [Outs -> 1..MaxPositions] /\ fee \in [Outs -> ZapFees]
  /\ outPc \in [Outs -> {"start", "routes", "done", "sent", "thrown"}]
  /\ index \in [Outs -> 0..MaxPositions] /\ removed \in [Outs -> 0..MaxPositions]
  /\ overtaken \subseteq Outs
  /\ \A o \in Outs :
       /\ outPc[o] \in {"routes", "done"} /\ o \notin overtaken =>
            index[o] \in DOMAIN positions /\ positions[index[o]] = want[o]
       /\ removed[o] # 0 => outPc[o] = "sent"
       /\ removed[o] # 0 /\ o \notin overtaken => removed[o] = want[o]

\* At the start no zap out has looked at the list.
LEMMA PlaceInit == Init => PlaceInv
<1> SUFFICES ASSUME Init PROVE PlaceInv
  OBVIOUS
<1>1. /\ positions \in FirstPositions /\ born = MaxPositions - 1
      /\ want \in [Outs -> 1..MaxPositions] /\ fee \in [Outs -> ZapFees]
      /\ outPc = [o \in Outs |-> "start"] /\ index = [o \in Outs |-> 0]
      /\ removed = [o \in Outs |-> 0] /\ overtaken = {}
  BY DEF Init
<1>2. positions \in Seq(1..MaxPositions) /\ Len(positions) < MaxPositions /\ MaxPositions \in Nat \ {0}
  BY <1>1, ZapAssumption
<1>3. born \in 0..MaxPositions /\ Len(positions) <= born
  <2>1. Len(positions) \in Nat
    BY <1>2, LenProperties
  <2> QED BY <1>1, <1>2, <2>1
<1>4. 0 \in 0..MaxPositions
  BY <1>2
<1> QED BY <1>1, <1>2, <1>3, <1>4 DEF PlaceInv

\* A list without one of its elements is a list.
LEMMA RemoveAtIsSeq ==
  ASSUME NEW S, NEW s \in Seq(S), NEW k \in 1..Len(s)
  PROVE  RemoveAt(s, k) \in Seq(S) /\ Len(RemoveAt(s, k)) <= Len(s)
<1>1. Len(s) \in Nat /\ k \in Int /\ k - 1 \in Int /\ k + 1 \in Int
  BY LenProperties
<1>2. \A i \in 1..Len(s) : s[i] \in S
  BY ElementOfSeq
<1>3. \A i \in 1..k - 1 : s[i] \in S
  BY <1>1, <1>2
<1>4. \A i \in k + 1..Len(s) : s[i] \in S
  BY <1>1, <1>2
<1>5. SubSeq(s, 1, k - 1) \in Seq(S) /\ Len(SubSeq(s, 1, k - 1)) = k - 1
  <2>1. /\ SubSeq(s, 1, k - 1) \in Seq(S)
        /\ Len(SubSeq(s, 1, k - 1)) = IF 1 <= k - 1 THEN k - 1 - 1 + 1 ELSE 0
    BY <1>1, <1>3, SubSeqProperties
  <2> QED BY <1>1, <2>1
<1>6. SubSeq(s, k + 1, Len(s)) \in Seq(S) /\ Len(SubSeq(s, k + 1, Len(s))) = Len(s) - k
  <2>1. /\ SubSeq(s, k + 1, Len(s)) \in Seq(S)
        /\ Len(SubSeq(s, k + 1, Len(s))) = IF k + 1 <= Len(s) THEN Len(s) - (k + 1) + 1 ELSE 0
    BY <1>1, <1>4, SubSeqProperties
  <2> QED BY <1>1, <2>1
<1> DEFINE front == SubSeq(s, 1, k - 1)
           rest == SubSeq(s, k + 1, Len(s))
<1>7. RemoveAt(s, k) = front \o rest
  BY DEF RemoveAt
<1> HIDE DEF front, rest
<1>8. front \o rest \in Seq(S) /\ Len(front \o rest) = k - 1 + (Len(s) - k)
  <2>1. front \in Seq(S) /\ rest \in Seq(S) /\ Len(front) = k - 1 /\ Len(rest) = Len(s) - k
    BY <1>5, <1>6 DEF front, rest
  <2>2. front \o rest \in Seq(S) /\ Len(front \o rest) = Len(front) + Len(rest)
    BY <2>1, ConcatProperties
  <2> QED BY <2>1, <2>2
<1> QED BY <1>1, <1>7, <1>8

\* A list without its last element is a list.
LEMMA FrontIsSeq ==
  ASSUME NEW S, NEW s \in Seq(S) PROVE Front(s) \in Seq(S) /\ Len(Front(s)) <= Len(s)
<1>1. Len(s) \in Nat /\ Len(s) - 1 \in Int
  BY LenProperties
<1>2. \A i \in 1..Len(s) - 1 : s[i] \in S
  BY <1>1, ElementOfSeq
<1>3. /\ SubSeq(s, 1, Len(s) - 1) \in Seq(S)
      /\ Len(SubSeq(s, 1, Len(s) - 1)) = IF 1 <= Len(s) - 1 THEN Len(s) - 1 - 1 + 1 ELSE 0
  BY <1>1, <1>2, SubSeqProperties
<1>4. Len(SubSeq(s, 1, Len(s) - 1)) <= Len(s)
  BY <1>1, <1>3
<1> QED BY <1>3, <1>4 DEF Front

\* However the contract closes the gap, the rest is a list of positions.
LEMMA WithoutIsSeq ==
  ASSUME NEW S, positions \in Seq(S), NEW k \in DOMAIN positions, NEW rest \in Without(k)
  PROVE  rest \in Seq(S) /\ Len(rest) <= Len(positions)
<1>1. Len(positions) \in Nat /\ k \in 1..Len(positions)
  BY LenProperties
<1>2. RemoveAt(positions, k) \in Seq(S) /\ Len(RemoveAt(positions, k)) <= Len(positions)
  BY <1>1, RemoveAtIsSeq
<1> DEFINE moved == [positions EXCEPT ![k] = Last(positions)]
<1>3. Front(moved) \in Seq(S) /\ Len(Front(moved)) <= Len(positions)
  <2>1. Last(positions) \in S
    BY <1>1, ElementOfSeq DEF Last
  <2>2. moved \in Seq(S) /\ Len(moved) = Len(positions)
    BY <1>1, <2>1, ExceptSeq
  <2> HIDE DEF moved
  <2>3. Front(moved) \in Seq(S) /\ Len(Front(moved)) <= Len(moved)
    BY <2>2, FrontIsSeq
  <2> QED BY <2>2, <2>3
<1> QED BY <1>2, <1>3 DEF Without

\* A removal overtakes every other zap out that has read the list.
LEMMA PlaceRemoval ==
  ASSUME PlaceInv, NEW k \in DOMAIN positions, positions' \in Without(k),
         UNCHANGED <<want, fee, index, born>>,
         outPc' \in [Outs -> {"start", "routes", "done", "sent", "thrown"}],
         removed' \in [Outs -> 0..MaxPositions],
         overtaken \subseteq overtaken', overtaken' \subseteq Outs,
         \A o \in Outs :
           \/ /\ outPc'[o] = outPc[o] /\ removed'[o] = removed[o]
              /\ o \in Waiting => o \in overtaken'
           \/ /\ outPc'[o] = "sent"
              /\ o \notin overtaken' => removed'[o] = want[o]
  PROVE  PlaceInv'
<1>1. positions' \in Seq(1..MaxPositions) /\ Len(positions') <= born'
  <2>1. /\ positions \in Seq(1..MaxPositions) /\ Len(positions) <= born /\ born \in Int
    BY DEF PlaceInv
  <2>2. positions' \in Seq(1..MaxPositions) /\ Len(positions') <= Len(positions)
    BY <2>1, WithoutIsSeq
  <2>3. Len(positions') \in Nat /\ Len(positions) \in Nat
    BY <2>1, <2>2, LenProperties
  <2> QED BY <2>1, <2>2, <2>3
<1>2. ASSUME NEW o \in Outs
      PROVE  /\ outPc'[o] \in {"routes", "done"} => o \in overtaken'
             /\ removed'[o] # 0 => outPc'[o] = "sent"
             /\ removed'[o] # 0 /\ o \notin overtaken' => removed'[o] = want[o]
  BY DEF PlaceInv, Waiting
<1> QED BY <1>1, <1>2 DEF PlaceInv

\* Every step keeps the places.
LEMMA PlaceStep == PlaceInv /\ [Next]_vars => PlaceInv'
<1> SUFFICES ASSUME PlaceInv, [Next]_vars PROVE PlaceInv'
  OBVIOUS
<1>1. ASSUME NEW o \in Outs, ReadPositions(o) PROVE PlaceInv'
  <2>1. CASE Contains(positions, want[o]) /\ FeeIsWhole(o)
    <3>1. PICK k \in DOMAIN positions :
            positions[k] = want[o] /\ index' = [index EXCEPT ![o] = k]
      BY <1>1, <2>1 DEF ReadPositions
    <3>2. k \in 0..MaxPositions
      <4>1. /\ Len(positions) \in Nat /\ k \in 1..Len(positions) /\ Len(positions) <= born
            /\ born \in 0..MaxPositions
        BY LenProperties DEF PlaceInv
      <4> QED BY <4>1, ZapAssumption
    <3>3. /\ outPc' = [outPc EXCEPT ![o] = "routes"]
          /\ UNCHANGED <<positions, born, want, fee, removed, overtaken>>
      BY <1>1, <2>1 DEF ReadPositions
    <3> QED BY <1>1, <3>1, <3>2, <3>3 DEF PlaceInv, ReadPositions
  <2>2. CASE ~(Contains(positions, want[o]) /\ FeeIsWhole(o))
    <3>1. /\ outPc' = [outPc EXCEPT ![o] = "thrown"] /\ outPc[o] = "start"
          /\ UNCHANGED <<positions, born, want, fee, index, removed, overtaken>>
      BY <1>1, <2>2 DEF ReadPositions
    <3> QED BY <3>1 DEF PlaceInv
  <2> QED BY <2>1, <2>2
<1>2. ASSUME NEW o \in Outs, BuildZapOut(o) PROVE PlaceInv'
  <2>1. PICK found \in BOOLEAN :
          outPc' = [outPc EXCEPT ![o] = IF found THEN "done" ELSE "thrown"]
    BY <1>2 DEF BuildZapOut
  <2>2. outPc[o] = "routes" /\ UNCHANGED <<positions, born, want, fee, index, removed, overtaken>>
    BY <1>2 DEF BuildZapOut
  <2> QED BY <2>1, <2>2 DEF PlaceInv
<1>3. ASSUME NEW o \in Outs, ZapOut(o) PROVE PlaceInv'
  <2>0. /\ outPc[o] = "done" /\ index[o] \in DOMAIN positions
        /\ outPc' = [outPc EXCEPT ![o] = "sent"]
        /\ removed' = [removed EXCEPT ![o] = positions[index[o]]]
        /\ positions' \in Without(index[o]) /\ UNCHANGED <<want, fee, index, born>>
        /\ overtaken' = overtaken \cup (Waiting \ {o})
    BY <1>3 DEF ZapOut
  <2>1. positions[index[o]] \in 0..MaxPositions
    <3>1. index[o] \in 1..Len(positions)
      BY <2>0, LenProperties DEF PlaceInv
    <3>2. positions[index[o]] \in 1..MaxPositions
      BY <3>1, ElementOfSeq DEF PlaceInv
    <3> QED BY <3>2, ZapAssumption
  <2>2. /\ outPc' \in [Outs -> {"start", "routes", "done", "sent", "thrown"}]
        /\ removed' \in [Outs -> 0..MaxPositions]
        /\ overtaken \subseteq overtaken' /\ overtaken' \subseteq Outs
    BY <2>0, <2>1 DEF PlaceInv, Waiting
  <2>3. ASSUME NEW p \in Outs
        PROVE  \/ /\ outPc'[p] = outPc[p] /\ removed'[p] = removed[p]
                  /\ p \in Waiting => p \in overtaken'
               \/ /\ outPc'[p] = "sent"
                  /\ p \notin overtaken' => removed'[p] = want[p]
    BY <2>0 DEF PlaceInv
  <2> QED BY <2>0, <2>2, <2>3, PlaceRemoval
<1>4. ASSUME NEW k \in DOMAIN positions, RemovePosition(k) PROVE PlaceInv'
  <2>1. /\ positions' \in Without(k) /\ overtaken' = overtaken \cup Waiting
        /\ UNCHANGED <<want, fee, index, born, outPc, removed>>
    BY <1>4 DEF RemovePosition
  <2>2. overtaken' \subseteq Outs
    BY <2>1 DEF PlaceInv, Waiting
  <2> QED BY <2>1, <2>2, PlaceRemoval DEF PlaceInv
<1>5. CASE ZapIn
  <2>1. /\ born' \in 1..MaxPositions /\ born' \in 0..MaxPositions /\ born' = born + 1
        /\ positions' = Append(positions, born') /\ UNCHANGED outVars
    <3>1. born' \in 1..MaxPositions
      BY <1>5, ZapAssumption DEF ZapIn, PlaceInv
    <3> QED BY <1>5, <3>1, ZapAssumption DEF ZapIn
  <2>3. Len(positions') <= born'
    <3>1. Len(positions') = Len(positions) + 1 /\ Len(positions) \in Nat
      BY <2>1, AppendProperties, LenProperties DEF PlaceInv
    <3> QED BY <2>1, <3>1 DEF PlaceInv
  <2>2. /\ positions' \in Seq(1..MaxPositions)
        /\ \A k \in DOMAIN positions : k \in DOMAIN positions' /\ positions'[k] = positions[k]
    BY <2>1 DEF PlaceInv
  <2> QED BY <2>1, <2>2, <2>3 DEF PlaceInv, outVars
<1>6. CASE GetPool \/ SingleSide \/ Calculate1 \/ FindRoutes \/ FindFinalRoutes
             \/ Throw \/ UNCHANGED vars
  <2>1. UNCHANGED <<positions, born, outVars>>
    BY <1>6 DEF GetPool, SingleSide, Calculate1, FindRoutes, FindFinalRoutes, Throw, vars
  <2> QED BY <2>1 DEF PlaceInv, outVars
<1> QED BY <1>1, <1>2, <1>3, <1>4, <1>5, <1>6 DEF Next

\* A zap out removes the position it was asked for, for any number of zaps and
\* positions, unless another one goes between the reading of the list
\* (processZapOutPositionLiquidity) and the execution of its message.
THEOREM ZapOutsAreRight == Spec => []ZapsOutItsOwn
<1>1. PlaceInv => ZapsOutItsOwn
  BY DEF PlaceInv, ZapsOutItsOwn
<1> QED BY PlaceInit, PlaceStep, <1>1, PTL DEF Spec

\* The zap in, the zaps out and the owner's list keep their types; the place
\* that a zap out read is one the list can have.
THEOREM ZapTypes == Spec => []TypeOK
<1>1. SplitInv /\ PlaceInv => TypeOK
  BY DEF SplitInv, InTypes, GoodMessage, PlaceInv, TypeOK
<1> QED BY SplitAlways, PlaceInit, PlaceStep, <1>1, PTL DEF Spec
=============================================================================
