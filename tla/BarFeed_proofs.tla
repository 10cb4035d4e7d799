--------------------------- MODULE BarFeed_proofs ---------------------------
(***************************************************************************)
(* Proofs about BarFeed, for any pairs, periods, trades and interleavings: *)
(* the shared object never mixes two series, the bars that the library     *)
(* is given have no hole, a fetched answer lacks only bars after which as  *)
(* many were returned as were wanted, and no call is forgotten or answered *)
(* twice.                                                                  *)
(***************************************************************************)
EXTENDS BarFeed, FiniteSetTheorems, TLAPS

\* Bars of one series: all that OwnSeries says, and that they are records.
Series(bars, ticker, period) ==
  \A b \in bars :
    /\ b = [ticker |-> ticker, period |-> period, time |-> b.time]

\* The object holds one series, and so does every answer, that of the series
\* asked for unless the server sent what is no list.
SeriesInv ==
  /\ Series(barsInfo.data, barsInfo.ticker, barsInfo.period)
  /\ \A a \in answers :
       /\ \E ticker, period : Series(a.bars, ticker, period)
       /\ a.outcome # "caught" => Series(a.bars, a.call.ticker, a.call.period)

\* The candles of the server are of the series that was asked for.
LEMMA ServedSeries == \A q : Series(Served(q), q.ticker, q.period)
BY DEF Series, Served

\* A bar that fills a gap is of the series of the next one.
LEMMA FilledSeries ==
  ASSUME NEW bars, NEW ticker, NEW period, Series(bars, ticker, period)
  PROVE  Series(FillBarGaps(bars, period), ticker, period)
<1> SUFFICES ASSUME NEW f \in FillBarGaps(bars, period)
             PROVE  f = [ticker |-> ticker, period |-> period, time |-> f.time]
  BY DEF Series
<1>1. CASE f \in bars
  BY <1>1 DEF Series
<1>2. CASE f \notin bars
  <2> DEFINE earlier(b) == {a \in bars : a.time < b.time}
             missing(b) == 1..((b.time - Max(TimesOf(earlier(b)))) \div period - 1)
             fill(b) == IF earlier(b) = {} THEN {}
                        ELSE {[b EXCEPT !.time = b.time - j * period] : j \in missing(b)}
  <2>f. FillBarGaps(bars, period) = bars \cup UNION {fill(b) : b \in bars}
    BY DEF FillBarGaps
  <2> HIDE DEF missing
  <2>1. PICK b \in bars : \E t : f = [b EXCEPT !.time = t]
    BY <1>2, <2>f
  <2>2. PICK t : f = [b EXCEPT !.time = t]
    BY <2>1
  <2>3. b = [ticker |-> ticker, period |-> period, time |-> b.time]
    BY <2>1 DEF Series
  <2>4. f = [ticker |-> ticker, period |-> period, time |-> t]
    BY <2>2, <2>3
  <2> QED BY <2>4
<1> QED BY <1>1, <1>2

\* What is selected is of the same series.
LEMMA SelectedSeries ==
  ASSUME NEW data, NEW ticker, NEW period, NEW q, Series(data, ticker, period)
  PROVE  Series(Select(data, q), ticker, period)
BY DEF Series, Select

\* At the start the object is empty and nothing is answered.
LEMMA SeriesInit == Init => SeriesInv
<1> SUFFICES ASSUME Init PROVE SeriesInv
  OBVIOUS
<1>1. barsInfo.data = {} /\ answers = {}
  BY DEF Init
<1> QED BY <1>1 DEF SeriesInv, Series

\* An answer of one series, the right one if it has to be, keeps the invariant.
LEMMA SeriesAnswer ==
  ASSUME SeriesInv, NEW q, NEW bars, NEW outcome, Answer(q, bars, outcome),
         NEW ticker, NEW period, Series(bars, ticker, period),
         outcome # "caught" => ticker = q.ticker /\ period = q.period
  PROVE  (\A a \in answers :
            /\ \E t, p : Series(a.bars, t, p)
            /\ a.outcome # "caught" => Series(a.bars, a.call.ticker, a.call.period))'
<1> DEFINE new == [call |-> q, bars |-> bars, outcome |-> outcome, had |-> Served(q)]
           Good(a) == /\ \E t, p : Series(a.bars, t, p)
                      /\ a.outcome # "caught" => Series(a.bars, a.call.ticker, a.call.period)
<1>1. answers' = answers \cup {new}
  BY DEF Answer
<1>2. new.call = q /\ new.bars = bars /\ new.outcome = outcome
  OBVIOUS
<1> HIDE DEF new
<1>3. Good(new)
  BY <1>2
<1>4. \A a \in answers : Good(a)
  BY DEF SeriesInv
<1>5. \A a \in answers' : Good(a)
  BY <1>1, <1>3, <1>4
<1> QED BY <1>5

\* getBars answers from the object only what is of the pair and the period.
LEMMA SeriesCall == ASSUME SeriesInv, NEW q, Call(q) PROVE SeriesInv'
<1>1. barsInfo' = barsInfo
  BY DEF Call
<1>2. CASE IsCached(q)
  <2>1. Answer(q, Select(barsInfo.data, q), "cached")
    BY <1>2 DEF Call
  <2>2. Series(Select(barsInfo.data, q), q.ticker, q.period)
    BY <1>2, SelectedSeries DEF SeriesInv, IsCached
  <2> QED BY <1>1, <2>1, <2>2, SeriesAnswer DEF SeriesInv
<1>3. CASE ~IsCached(q)
  BY <1>1, <1>3 DEF Call, SeriesInv
<1> QED BY <1>2, <1>3

\* An answer of the server replaces pair, period and bars together.
LEMMA SeriesReceive == ASSUME SeriesInv, NEW q, NEW ok, Receive(q, ok) PROVE SeriesInv'
<1> DEFINE served == IF ok THEN Served(q) ELSE {}
           bars == FillBarGaps(served, q.period)
<1>1. Series(served, q.ticker, q.period)
  BY ServedSeries DEF Series
<1>2. Series(bars, q.ticker, q.period)
  BY <1>1, FilledSeries
<1> DEFINE outcome == IF ok THEN "fetched" ELSE "failed"
<1>3. /\ barsInfo'.ticker = q.ticker /\ barsInfo'.period = q.period /\ barsInfo'.data = bars
      /\ Answer(q, Select(bars, q), outcome)
  BY DEF Receive
<1>o. outcome # "caught"
  OBVIOUS
<1> HIDE DEF bars, served, outcome
<1>4. Series(Select(bars, q), q.ticker, q.period)
  BY <1>2, SelectedSeries
<1> QED BY <1>2, <1>3, <1>o, <1>4, SeriesAnswer DEF SeriesInv

\* No bars are of any series.
LEMMA NoBarsSeries == \A ticker, period : Series({}, ticker, period)
BY DEF Series

\* An answer without a list leaves the object alone, or empties it.
LEMMA SeriesNoBars == ASSUME SeriesInv, NEW q, ReceiveNoBars(q) PROVE SeriesInv'
<1>1. barsInfo' = barsInfo
  BY DEF ReceiveNoBars
<1>2. CASE barsInfo.isList
  <2>1. Answer(q, Select(barsInfo.data, q), "caught")
    BY <1>2 DEF ReceiveNoBars
  <2>2. Series(Select(barsInfo.data, q), barsInfo.ticker, barsInfo.period)
    BY SelectedSeries DEF SeriesInv
  <2> QED BY <1>1, <2>1, <2>2, SeriesAnswer DEF SeriesInv
<1>3. CASE ~barsInfo.isList
  <2>1. Answer(q, {}, "error")
    BY <1>3 DEF ReceiveNoBars
  <2> QED BY <1>1, <2>1, NoBarsSeries, SeriesAnswer DEF SeriesInv
<1> QED BY <1>2, <1>3

LEMMA SeriesNothing == ASSUME SeriesInv, NEW q, ReceiveNothing(q) PROVE SeriesInv'
<1>1. barsInfo'.data = {} /\ Answer(q, {}, "error")
  BY DEF ReceiveNothing
<1> QED BY <1>1, NoBarsSeries, SeriesAnswer DEF SeriesInv

\* Every step keeps the series apart.
LEMMA SeriesStep == SeriesInv /\ [Next]_vars => SeriesInv'
<1> SUFFICES ASSUME SeriesInv, [Next]_vars PROVE SeriesInv'
  OBVIOUS
<1>1. CASE GetBars
  BY <1>1, SeriesCall DEF GetBars
<1>2. CASE HandleVisibilityChange
  BY <1>2, SeriesCall DEF HandleVisibilityChange
<1>3. CASE Reply
  BY <1>3, SeriesReceive, SeriesNoBars, SeriesNothing DEF Reply
<1>4. CASE Tick
  BY <1>4 DEF Tick, SeriesInv
<1>5. CASE UNCHANGED vars
  BY <1>5 DEF vars, SeriesInv
<1> QED BY <1>1, <1>2, <1>3, <1>4, <1>5 DEF Next

\* However late the server answers and whatever the library asks for meanwhile,
\* getTokenHistoryBars returns bars of one series, the one it was asked for
\* unless it is in the catch.
THEOREM LibraryGetsItsSeries == Spec => []OwnSeries
<1>1. SeriesInv => OwnSeries
  <2> SUFFICES ASSUME SeriesInv, NEW a \in answers, NEW b \in a.bars
               PROVE  /\ \A c \in a.bars : c.ticker = b.ticker /\ c.period = b.period
                      /\ a.outcome # "caught" =>
                           b.ticker = a.call.ticker /\ b.period = a.call.period
    BY DEF OwnSeries
  <2>1. \A c, t, p : c = [ticker |-> t, period |-> p, time |-> c.time]
                     => c.ticker = t /\ c.period = p
    OBVIOUS
  <2>2. PICK t, p : Series(a.bars, t, p)
    BY DEF SeriesInv
  <2>3. \A c \in a.bars : c.ticker = t /\ c.period = p
    BY <2>1, <2>2 DEF Series
  <2>4. ASSUME a.outcome # "caught"
        PROVE  b.ticker = a.call.ticker /\ b.period = a.call.period
    <3>1. Series(a.bars, a.call.ticker, a.call.period)
      BY <2>4 DEF SeriesInv
    <3> QED BY <2>1, <3>1 DEF Series
  <2> QED BY <2>3, <2>4
<1> QED BY SeriesInit, SeriesStep, <1>1, PTL DEF Spec

-----------------------------------------------------------------------------
(***************************************************************************)
(* Candles without a hole.  The times of a series are multiples of its     *)
(* period, and what fillBarGaps adds before a bar reaches back to the bar  *)
(* that comes before it.                                                   *)
(***************************************************************************)

\* Bars at times of the clock that are multiples of the period.
OnGrid(bars, period) ==
  \A b \in bars : b.time \in Times /\ \E k \in Nat : b.time = period * k

\* Whatever follows an earlier bar follows one that is a period older.
Steady(bars, period) ==
  \A a, b \in bars : a.time < b.time => \E c \in bars : c.time = b.time - period

\* The bar a comes right before b.
Previous(bars, a, b) ==
  /\ a \in bars /\ b \in bars /\ a.time < b.time
  /\ \A c \in bars : c.time < b.time => c.time <= a.time

\* A set of natural numbers has a smallest element.
LEMMA Smallest ==
  ASSUME NEW T \in SUBSET Nat, T # {}
  PROVE  \E x \in T : \A y \in T : x <= y
<1> DEFINE R == OpToRel(<, Nat)
<1>1. \A x, y \in Nat : y < x => <<y, x>> \in R
  BY DEF OpToRel
<1>2. IsWellFoundedOn(R, Nat)
  BY NatLessThanWellFounded
<1> HIDE DEF R
<1>3. PICK x \in T : \A y \in T : ~(<<y, x>> \in R)
  BY <1>2, WFMin
<1>4. \A y \in T : ~(y < x)
  BY <1>1, <1>3
<1> QED BY <1>4

\* A set of times has a first and a last one.
LEMMA FirstTime ==
  ASSUME NEW S \in SUBSET Times, S # {}
  PROVE  Min(S) \in S /\ \A y \in S : Min(S) <= y
<1>1. S \in SUBSET Nat
  BY FeedAssumption DEF Times
<1>2. \E x \in S : \A y \in S : x <= y
  BY <1>1, Smallest
<1> QED BY <1>2 DEF Min

LEMMA LastTime ==
  ASSUME NEW S \in SUBSET Times, S # {}
  PROVE  Max(S) \in S /\ \A y \in S : y <= Max(S)
<1> DEFINE T == {MaxTime - s : s \in S}
<1>1. \A s \in S : s \in Nat /\ MaxTime - s \in Nat
  BY FeedAssumption DEF Times
<1>2. T \in SUBSET Nat /\ T # {}
  BY <1>1
<1>3. PICK x \in T : \A y \in T : x <= y
  BY <1>2, Smallest
<1>4. PICK s \in S : x = MaxTime - s
  BY <1>3
<1>5. \A y \in S : MaxTime - s <= MaxTime - y
  BY <1>3, <1>4
<1>6. \A y \in S : s >= y
  BY <1>1, <1>5, FeedAssumption
<1>7. Max(S) \in S /\ \A y \in S : Max(S) >= y
  BY <1>6 DEF Max
<1> QED BY <1>1, <1>7

\* The bar before one that is not the first.
LEMMA PreviousBar ==
  ASSUME NEW bars, \A b \in bars : b.time \in Times, NEW b \in bars,
         NEW e \in bars, e.time < b.time
  PROVE  /\ \E a : Previous(bars, a, b)
         /\ \A a : Previous(bars, a, b) =>
              Max(TimesOf({x \in bars : x.time < b.time})) = a.time
<1> DEFINE early == {x \in bars : x.time < b.time}
           S == TimesOf(early)
<1>1. S \in SUBSET Times /\ S # {}
  BY DEF TimesOf
<1>2. Max(S) \in S /\ \A y \in S : y <= Max(S)
  BY <1>1, LastTime
<1>3. \A y \in S : y \in Nat
  BY <1>1, FeedAssumption DEF Times
<1>4. PICK a \in early : a.time = Max(S)
  BY <1>2 DEF TimesOf
<1>5. \A c \in early : c.time \in S
  BY DEF TimesOf
<1>6. Previous(bars, a, b)
  BY <1>2, <1>4, <1>5 DEF Previous
<1>7. ASSUME NEW d, Previous(bars, d, b) PROVE Max(S) = d.time
  <2>1. d \in early /\ a.time <= d.time
    BY <1>4, <1>7 DEF Previous
  <2>2. d.time <= Max(S)
    BY <1>2, <1>5, <2>1
  <2> QED BY <1>2, <1>3, <1>4, <1>5, <2>1, <2>2
<1> QED BY <1>6, <1>7

\* The distance of two times of the grid is a number of periods.
LEMMA PeriodsBetween ==
  ASSUME NEW p \in Nat \ {0}, NEW k \in Nat, NEW l \in Nat, p * k < p * l
  PROVE  k < l /\ (p * l - p * k) \div p = l - k
<1> DEFINE d == p * l - p * k
           q == d \div p
           r == d % p
<1>1. d = p * (l - k) /\ d \in Int
  OBVIOUS
<1>2. d = p * q + r /\ q \in Int /\ 0 <= r /\ r < p /\ r \in Int
  BY <1>1
<1> HIDE DEF q, r
<1>3. k < l
  <2>1. SUFFICES ASSUME l <= k PROVE FALSE
    OBVIOUS
  <2>2. PICK e \in Nat : k = l + e
    BY <2>1
  <2>3. p * k = p * l + p * e /\ p * e >= 0
    BY <2>2
  <2> QED BY <2>3
<1>4. p * (l - k - q) = r
  BY <1>1, <1>2
<1> DEFINE x == l - k - q
<1>5. x \in Int /\ p * x = r
  BY <1>2, <1>4
<1> HIDE DEF x
<1>6. x = 0
  <2>1. CASE x >= 1
    <3>1. PICK e \in Nat : x = 1 + e
      BY <1>5, <2>1
    <3>2. p * x = p + p * e /\ p * e >= 0
      BY <3>1
    <3> QED BY <1>2, <1>5, <3>2
  <2>2. CASE x <= -1
    <3>1. PICK e \in Nat : x = -1 - e
      BY <1>5, <2>2
    <3>2. p * x = -p - p * e /\ p * e >= 0
      BY <3>1
    <3> QED BY <1>2, <1>5, <3>2
  <2> QED BY <1>5, <2>1, <2>2
<1> QED BY <1>2, <1>3, <1>6 DEF x, q

\* fillBarGaps: what was there, and the candles between a bar and the next one.
LEMMA FilledBars ==
  ASSUME NEW bars, NEW ticker, NEW p \in Nat \ {0}, Series(bars, ticker, p), OnGrid(bars, p)
  PROVE  \A f : f \in FillBarGaps(bars, p) <=>
           \/ f \in bars
           \/ \E a, b : Previous(bars, a, b) /\
                \E j \in Nat \ {0} :
                  /\ a.time < b.time - p * j
                  /\ f = [ticker |-> ticker, period |-> p, time |-> b.time - p * j]
<1> DEFINE earlier(b) == {a \in bars : a.time < b.time}
           missing(b) == 1..((b.time - Max(TimesOf(earlier(b)))) \div p - 1)
           bar(t) == [ticker |-> ticker, period |-> p, time |-> t]
           fill(b) == IF earlier(b) = {} THEN {}
                      ELSE {[b EXCEPT !.time = b.time - j * p] : j \in missing(b)}
<1>1. FillBarGaps(bars, p) = bars \cup UNION {fill(b) : b \in bars}
  BY DEF FillBarGaps
<1>2. \A b \in bars : b.time \in Times
  BY DEF OnGrid
<1>3. ASSUME NEW a, NEW b, Previous(bars, a, b)
      PROVE  /\ Max(TimesOf(earlier(b))) = a.time /\ earlier(b) # {} /\ b \in bars
             /\ \A j \in Int : j \in missing(b) <=>
                  j \in Nat \ {0} /\ a.time < b.time - p * j
  <2>1. a \in bars /\ b \in bars /\ a.time < b.time
    BY <1>3 DEF Previous
  <2>2. Max(TimesOf(earlier(b))) = a.time /\ earlier(b) # {}
    BY <1>2, <1>3, <2>1, PreviousBar
  <2>3. PICK k \in Nat, l \in Nat : a.time = p * k /\ b.time = p * l
    BY <2>1 DEF OnGrid
  <2>4. missing(b) = 1..(l - k - 1) /\ k < l
    <3>1. k < l /\ (p * l - p * k) \div p = l - k
      BY <2>1, <2>3, PeriodsBetween
    <3> QED BY <2>2, <2>3, <3>1
  <2>5. ASSUME NEW j \in Int
        PROVE  j <= l - k - 1 <=> p * k < p * l - p * j
    <3>1. p * l - p * j - p * k = p * (l - j - k)
      OBVIOUS
    <3>2. CASE j <= l - k - 1
      <4>1. PICK e \in Nat : l - j - k = 1 + e
        BY <3>2
      <4>2. p * (l - j - k) = p + p * e /\ p * e >= 0
        BY <4>1
      <4> QED BY <3>1, <3>2, <4>2
    <3>3. CASE j > l - k - 1
      <4>1. PICK e \in Nat : l - j - k = 0 - e
        BY <3>3
      <4>2. p * (l - j - k) = 0 - p * e /\ p * e >= 0
        BY <4>1
      <4> QED BY <3>1, <3>3, <4>2
    <3> QED BY <3>2, <3>3
  <2> HIDE DEF missing, earlier
  <2>6. \A j \in Int : j \in missing(b) <=> 1 <= j /\ j <= l - k - 1
    BY <2>4
  <2>7. \A j \in Int : j \in missing(b) <=> j \in Nat \ {0} /\ a.time < b.time - p * j
    BY <2>3, <2>5, <2>6
  <2> QED BY <2>1, <2>2, <2>7
<1>4. \A b \in bars : earlier(b) # {} => \E a : Previous(bars, a, b)
  BY <1>2, PreviousBar
<1>5. \A b \in bars : b = bar(b.time) /\ b.time \in Nat
  BY <1>2, FeedAssumption DEF Series, Times
<1>6. \A b \in bars, j \in Int : [b EXCEPT !.time = b.time - j * p] = bar(b.time - p * j)
  <2> TAKE b \in bars, j \in Int
  <2>1. j * p = p * j
    OBVIOUS
  <2>2. \A t : [b EXCEPT !.time = t] = bar(t)
    BY <1>5
  <2> QED BY <2>1, <2>2
<1>7. ASSUME NEW f, f \in FillBarGaps(bars, p), f \notin bars
      PROVE  \E a, b : Previous(bars, a, b) /\
               \E j \in Nat \ {0} : a.time < b.time - p * j /\ f = bar(b.time - p * j)
  <2>1. PICK b \in bars : f \in fill(b)
    BY <1>1, <1>7
  <2> HIDE DEF missing, earlier
  <2>2. earlier(b) # {}
    BY <2>1
  <2>3. PICK a : Previous(bars, a, b)
    BY <1>4, <2>2
  <2>4. PICK j \in missing(b) : f = [b EXCEPT !.time = b.time - j * p]
    BY <2>1, <2>2
  <2>5. j \in Int
    BY <2>4 DEF missing
  <2> HIDE DEF bar
  <2>6. f = bar(b.time - p * j)
    BY <1>6, <2>4, <2>5
  <2>7. j \in Nat \ {0} /\ a.time < b.time - p * j
    BY <1>3, <2>3, <2>4, <2>5
  <2> QED BY <2>3, <2>6, <2>7
<1>8. ASSUME NEW a, NEW b, Previous(bars, a, b), NEW j \in Nat \ {0},
             a.time < b.time - p * j
      PROVE  bar(b.time - p * j) \in FillBarGaps(bars, p)
  <2> HIDE DEF missing, earlier, bar
  <2>1. b \in bars /\ earlier(b) # {} /\ j \in missing(b)
    BY <1>3, <1>8
  <2>2. [b EXCEPT !.time = b.time - j * p] \in fill(b)
    BY <2>1
  <2>3. bar(b.time - p * j) \in fill(b)
    BY <1>6, <2>1, <2>2
  <2> QED BY <1>1, <2>1, <2>3
<1>9. ASSUME NEW f, \E a, b : Previous(bars, a, b) /\
               \E j \in Nat \ {0} : a.time < b.time - p * j /\ f = bar(b.time - p * j)
      PROVE  f \in FillBarGaps(bars, p)
  <2> HIDE DEF bar
  <2> QED BY <1>8, <1>9
<1>10. \A f \in bars : f \in FillBarGaps(bars, p)
  BY <1>1
<1> HIDE DEF bar, fill, missing, earlier
<1>11. \A f : f \in FillBarGaps(bars, p) <=>
           \/ f \in bars
           \/ \E a, b : Previous(bars, a, b) /\
                \E j \in Nat \ {0} : a.time < b.time - p * j /\ f = bar(b.time - p * j)
  BY <1>7, <1>9, <1>10
<1> QED BY <1>11 DEF bar

\* What is filled lies on the grid and has no hole.
LEMMA FilledSteady ==
  ASSUME NEW bars, NEW ticker, NEW p \in Nat \ {0}, Series(bars, ticker, p), OnGrid(bars, p)
  PROVE  OnGrid(FillBarGaps(bars, p), p) /\ Steady(FillBarGaps(bars, p), p)
<1> DEFINE bar(t) == [ticker |-> ticker, period |-> p, time |-> t]
           filled == FillBarGaps(bars, p)
           Between(f, a, b, j) ==
             /\ Previous(bars, a, b) /\ j \in Nat \ {0}
             /\ a.time < b.time - p * j /\ f.time = b.time - p * j
<1>1. \A f \in filled : f \in bars \/ \E a, b, j : Between(f, a, b, j)
  <2> SUFFICES ASSUME NEW f \in filled, f \notin bars PROVE \E a, b, j : Between(f, a, b, j)
    OBVIOUS
  <2>1. PICK a, b : Previous(bars, a, b) /\
          \E j \in Nat \ {0} : a.time < b.time - p * j /\ f = bar(b.time - p * j)
    BY FilledBars
  <2>2. PICK j \in Nat \ {0} : a.time < b.time - p * j /\ f = bar(b.time - p * j)
    BY <2>1
  <2>3. f.time = b.time - p * j
    BY <2>2
  <2> HIDE DEF bar
  <2>4. Between(f, a, b, j)
    BY <2>1, <2>2, <2>3
  <2> QED BY <2>4
<1>2. \A f \in bars : f \in filled
  BY FilledBars
<1>3. ASSUME NEW a, NEW b, Previous(bars, a, b), NEW j \in Nat \ {0}, a.time < b.time - p * j
      PROVE  \E f \in filled : f.time = b.time - p * j
  <2>1. bar(b.time - p * j) \in filled
    BY <1>3, FilledBars
  <2> QED BY <2>1
<1> HIDE DEF filled
<1>4. \A b \in bars : b.time \in Nat /\ b.time \in Times
  BY FeedAssumption DEF OnGrid, Times
<1>5. ASSUME NEW f \in filled
      PROVE  f.time \in Times /\ \E k \in Nat : f.time = p * k
  <2>1. CASE f \in bars
    BY <2>1 DEF OnGrid
  <2>2. ASSUME NEW a, NEW b, NEW j, Between(f, a, b, j)
        PROVE  f.time \in Times /\ \E k \in Nat : f.time = p * k
    <3>1. a \in bars /\ b \in bars /\ j \in Nat \ {0}
      BY <2>2 DEF Previous
    <3>2. PICK l \in Nat : b.time = p * l
      BY <3>1 DEF OnGrid
    <3>3. a.time \in Nat /\ p * j \in Nat /\ f.time = p * l - p * j /\ f.time > a.time
      BY <1>4, <2>2, <3>1, <3>2
    <3>4. f.time = p * (l - j) /\ f.time \in Int
      BY <3>1, <3>3
    <3>5. l - j \in Nat
      <4>1. SUFFICES ASSUME j > l PROVE FALSE
        BY <3>1
      <4>2. PICK e \in Nat : j = l + e
        BY <3>1, <4>1
      <4>3. p * j = p * l + p * e /\ p * e >= 0
        BY <4>2
      <4> QED BY <3>3, <4>3
    <3>6. a.time \in Times /\ b.time \in Times /\ f.time < b.time
      <4>1. p * j > 0
        BY <3>1
      <4> QED BY <1>4, <3>1, <3>2, <3>3, <4>1
    <3>7. f.time \in Times
      BY <3>3, <3>4, <3>6, FeedAssumption DEF Times
    <3> QED BY <3>4, <3>5, <3>7
  <2> HIDE DEF Between
  <2> QED BY <1>1, <2>1, <2>2
<1>6. ASSUME NEW f \in filled, NEW g \in filled, g.time < f.time
      PROVE  \E c \in filled : c.time = f.time - p
  <2>0. f.time \in Nat /\ g.time \in Nat
    BY <1>5, FeedAssumption DEF Times
  <2>1. CASE f \in bars
    <3>1. \E a \in bars : a.time < f.time
      <4>1. CASE g \in bars
        BY <1>6, <4>1
      <4>2. ASSUME NEW a, NEW b, NEW j, Between(g, a, b, j)
            PROVE  \E x \in bars : x.time < f.time
        <5>1. a \in bars /\ a.time < g.time
          BY <4>2 DEF Previous
        <5> QED BY <1>4, <1>6, <2>0, <5>1
      <4> HIDE DEF Between
      <4> QED BY <1>1, <4>1, <4>2
    <3>2. PICK a : Previous(bars, a, f)
      <4>1. PICK e \in bars : e.time < f.time
        BY <3>1
      <4> QED BY <1>4, <2>1, <4>1, PreviousBar
    <3>3. a \in bars /\ a.time < f.time
      BY <3>2 DEF Previous
    <3>4. PICK k \in Nat, l \in Nat : a.time = p * k /\ f.time = p * l
      BY <2>1, <3>3 DEF OnGrid
    <3>5. k < l /\ p * l - p >= p * k
      <4>1. k < l
        BY <3>3, <3>4, PeriodsBetween
      <4>2. PICK e \in Nat : l = k + 1 + e
        BY <4>1
      <4>3. p * l = p * k + p + p * e /\ p * e >= 0
        BY <4>2
      <4> QED BY <4>1, <4>3
    <3>6. CASE a.time < f.time - p
      <4>1. \E c \in filled : c.time = f.time - p * 1
        BY <1>3, <3>2, <3>6
      <4> QED BY <4>1
    <3>7. CASE ~(a.time < f.time - p)
      <4>1. a.time = f.time - p
        BY <3>4, <3>5, <3>7
      <4> QED BY <1>2, <3>3, <4>1
    <3> QED BY <3>6, <3>7
  <2>2. ASSUME NEW a, NEW b, NEW j, Between(f, a, b, j)
        PROVE  \E c \in filled : c.time = f.time - p
    <3>1. a \in bars /\ b \in bars /\ a.time < b.time /\ j \in Nat \ {0}
      BY <2>2 DEF Previous
    <3>2. PICK k \in Nat, l \in Nat : a.time = p * k /\ b.time = p * l
      BY <3>1 DEF OnGrid
    <3>3. p * k < p * (l - j) /\ f.time = p * (l - j) /\ p * (j + 1) = p * j + p
      BY <2>2, <3>1, <3>2
    <3>4. p * (l - j) - p >= p * k
      <4>1. SUFFICES ASSUME l - j <= k PROVE FALSE
        <5>1. CASE l - j > k
          <6>1. PICK e \in Nat : l - j = k + 1 + e
            BY <3>1, <5>1
          <6>2. p * (l - j) = p * k + p + p * e /\ p * e >= 0
            BY <6>1
          <6> QED BY <6>2
        <5> QED BY <3>1, <5>1
      <4>2. PICK e \in Nat : k = l - j + e
        BY <3>1, <4>1
      <4>3. p * k = p * (l - j) + p * e /\ p * e >= 0
        BY <3>1, <4>2
      <4> QED BY <3>1, <3>3, <4>3
    <3>5. j + 1 \in Nat \ {0} /\ f.time - p = b.time - p * (j + 1)
      <4>1. p * (l - j) = p * l - p * j
        BY <3>1
      <4> QED BY <3>1, <3>2, <3>3, <4>1
    <3>6. CASE a.time < b.time - p * (j + 1)
      <4>1. \E c \in filled : c.time = b.time - p * (j + 1)
        BY <1>3, <2>2, <3>5, <3>6
      <4> QED BY <3>5, <4>1
    <3>7. CASE ~(a.time < b.time - p * (j + 1))
      <4>1. a.time = f.time - p
        BY <2>0, <3>2, <3>3, <3>4, <3>5, <3>7
      <4> QED BY <1>2, <3>1, <4>1
    <3> QED BY <3>6, <3>7
  <2> HIDE DEF Between
  <2> QED BY <1>1, <2>1, <2>2
<1>7. OnGrid(filled, p)
  BY <1>5 DEF OnGrid
<1>8. Steady(filled, p)
  BY <1>6 DEF Steady
<1> QED BY <1>7, <1>8 DEF filled

-----------------------------------------------------------------------------
(***************************************************************************)
(* The latest bars.  As many bars are later than one that was left out as  *)
(* were wanted, and all that are returned are later than it.               *)
(***************************************************************************)

Later(bars, b) == {a \in bars : a.time > b.time}
Latest(bars, n) == {b \in bars : Cardinality(Later(bars, b)) < n}

\* The bars of one series at times of the clock are finitely many.
LEMMA FiniteSeries ==
  ASSUME NEW bars, NEW ticker, NEW period, Series(bars, ticker, period),
         \A b \in bars : b.time \in Times
  PROVE  IsFiniteSet(bars)
<1> DEFINE f == [c \in Times |-> [ticker |-> ticker, period |-> period, time |-> c]]
           all == {f[c] : c \in Times}
<1>1. IsFiniteSet(Times)
  BY FS_Interval, FeedAssumption DEF Times
<1>2. f \in Surjection(Times, all)
  BY DEF Surjection
<1>3. IsFiniteSet(all)
  <2> HIDE DEF f, all
  <2> QED BY <1>1, <1>2, FS_Surjection
<1>4. bars \in SUBSET all
  <2> SUFFICES ASSUME NEW b \in bars PROVE b \in all
    OBVIOUS
  <2>1. b = f[b.time] /\ b.time \in Times
    BY DEF Series
  <2> QED BY <2>1
<1> QED BY <1>3, <1>4, FS_Subset

\* Of bars at different times, the later ones of the later one are fewer.
LEMMA LaterFewer ==
  ASSUME NEW bars, IsFiniteSet(bars), \A b \in bars : b.time \in Nat,
         NEW a \in bars, NEW b \in bars, a.time < b.time
  PROVE  /\ Cardinality(Later(bars, a)) \in Nat /\ Cardinality(Later(bars, b)) \in Nat
         /\ Cardinality(Later(bars, b)) < Cardinality(Later(bars, a))
<1>1. Later(bars, a) \in SUBSET bars /\ Later(bars, b) \in SUBSET Later(bars, a)
  BY DEF Later
<1>2. IsFiniteSet(Later(bars, a)) /\ IsFiniteSet(Later(bars, b))
  BY <1>1, FS_Subset
<1>3. b \in Later(bars, a) /\ b \notin Later(bars, b)
  BY DEF Later
<1>4. /\ Cardinality(Later(bars, b)) <= Cardinality(Later(bars, a))
      /\ Cardinality(Later(bars, a)) = Cardinality(Later(bars, b)) =>
           Later(bars, a) = Later(bars, b)
  BY <1>1, <1>2, FS_Subset
<1>5. Cardinality(Later(bars, a)) \in Nat /\ Cardinality(Later(bars, b)) \in Nat
  BY <1>2, FS_CardinalityType
<1> QED BY <1>3, <1>4, <1>5

\* Each of the latest n bars adds one, up to as many as there are: by a least
\* number for which it were otherwise.
LEMMA LatestCount ==
  ASSUME NEW bars, IsFiniteSet(bars),
         \A b \in bars : b.time \in Times,
         \A a, b \in bars : a.time = b.time => a = b,
         NEW n \in Nat, n <= Cardinality(bars)
  PROVE  Cardinality(Latest(bars, n)) = n
<1> DEFINE Good(m) == Cardinality(Latest(bars, m)) = m
           Bad == {m \in 0..n : ~Good(m)}
<1>0. \A b \in bars : b.time \in Nat /\ Cardinality(Later(bars, b)) \in Nat
  <2> TAKE b \in bars
  <2>1. Later(bars, b) \in SUBSET bars
    BY DEF Later
  <2>2. Cardinality(Later(bars, b)) \in Nat
    BY <2>1, FS_Subset, FS_CardinalityType
  <2> QED BY <2>2, FeedAssumption DEF Times
<1>1. Good(0)
  <2>1. Latest(bars, 0) = {}
    BY <1>0 DEF Latest
  <2> QED BY <2>1, FS_EmptySet
<1>2. ASSUME NEW m \in 0..(n - 1), Good(m) PROVE Good(m + 1)
  <2> DEFINE rest == bars \ Latest(bars, m)
  <2>1. IsFiniteSet(Latest(bars, m)) /\ Latest(bars, m) \in SUBSET bars
    BY FS_Subset DEF Latest
  <2>2. rest # {}
    <3>1. SUFFICES ASSUME rest = {} PROVE FALSE
      OBVIOUS
    <3>2. Latest(bars, m) = bars
      BY <2>1, <3>1
    <3>3. Cardinality(bars) = m
      BY <1>2, <3>2
    <3> QED BY <3>3
  <2>3. PICK b \in rest : \A a \in rest : a.time <= b.time
    <3> DEFINE S == TimesOf(rest)
    <3>1. S \in SUBSET Times /\ S # {}
      BY <2>2 DEF TimesOf
    <3>2. Max(S) \in S /\ \A y \in S : y <= Max(S)
      BY <3>1, LastTime
    <3>3. \A a \in rest : a.time \in S
      BY DEF TimesOf
    <3>4. \E x \in rest : x.time = Max(S)
      BY <3>2 DEF TimesOf
    <3> HIDE DEF S, rest
    <3> QED BY <3>2, <3>3, <3>4
  <2>4. Later(bars, b) = Latest(bars, m)
    <3>1. \A a \in Later(bars, b) : a \in Latest(bars, m)
      <4> SUFFICES ASSUME NEW a \in bars, a.time > b.time, a \in rest PROVE FALSE
        BY DEF Later
      <4> QED BY <1>0, <2>3
    <3>2. ASSUME NEW a \in Latest(bars, m), ~(a.time > b.time) PROVE FALSE
      <4>1. a \in bars /\ b \in bars /\ b \notin Latest(bars, m)
        BY <2>1
      <4>2. a # b /\ a.time < b.time
        BY <1>0, <3>2, <4>1
      <4>3. Cardinality(Later(bars, b)) < Cardinality(Later(bars, a))
        BY <1>0, <4>1, <4>2, LaterFewer
      <4>4. Cardinality(Later(bars, a)) < m /\ ~(Cardinality(Later(bars, b)) < m)
        BY <4>1 DEF Latest
      <4> QED BY <1>0, <4>1, <4>3, <4>4
    <3>3. \A a \in Latest(bars, m) : a \in Later(bars, b)
      BY <2>1, <3>2 DEF Later
    <3> QED BY <3>1, <3>3
  <2>5. Cardinality(Later(bars, b)) = m
    BY <1>2, <2>4
  <2>6. Latest(bars, m + 1) = Latest(bars, m) \cup {b}
    <3>1. ASSUME NEW a \in Latest(bars, m + 1), a # b PROVE a \in Latest(bars, m)
      <4>1. a \in bars /\ Cardinality(Later(bars, a)) < m + 1
        BY <3>1 DEF Latest
      <4>2. a.time # b.time
        BY <3>1, <4>1
      <4>3. CASE a.time < b.time
        <5>1. Cardinality(Later(bars, b)) < Cardinality(Later(bars, a))
          BY <1>0, <4>1, <4>3, LaterFewer
        <5> QED BY <1>0, <2>5, <4>1, <5>1
      <4>4. CASE a.time > b.time
        <5>1. a \in Later(bars, b)
          BY <4>1, <4>4 DEF Later
        <5> QED BY <2>4, <5>1
      <4> QED BY <1>0, <4>1, <4>2, <4>3, <4>4
    <3>2. b \in Latest(bars, m + 1)
      BY <2>5 DEF Latest
    <3>3. \A a \in Latest(bars, m) : a \in Latest(bars, m + 1)
      BY <1>0 DEF Latest
    <3> QED BY <3>1, <3>2, <3>3
  <2>7. Cardinality(Latest(bars, m) \cup {b}) = Cardinality(Latest(bars, m)) + 1
    BY <2>1, FS_AddElement
  <2> QED BY <1>2, <2>6, <2>7
<1> HIDE DEF Good
<1>3. Bad = {}
  <2> SUFFICES ASSUME Bad # {} PROVE FALSE
    OBVIOUS
  <2>1. Bad \in SUBSET Nat
    OBVIOUS
  <2>2. PICK m \in Bad : \A y \in Bad : m <= y
    BY <2>1, Smallest
  <2>3. m # 0 /\ m \in 0..n /\ ~Good(m)
    BY <1>1
  <2>4. m - 1 \in 0..(n - 1) /\ m - 1 \notin Bad /\ m - 1 \in 0..n
    BY <2>2, <2>3
  <2>5. Good(m - 1)
    BY <2>4
  <2>6. Good(m - 1 + 1) /\ m - 1 + 1 = m
    BY <1>2, <2>3, <2>4, <2>5
  <2> QED BY <2>3, <2>6
<1>4. n \notin Bad /\ n \in 0..n
  BY <1>3
<1> QED BY <1>4 DEF Good

\* The bars of the range that was asked for.
InRange(data, q) == {b \in data : b.time > q.params.from /\ b.time <= q.params.to}

LEMMA SelectIsLatest == \A data, q : Select(data, q) = Latest(InRange(data, q), q.params.countBack)
BY DEF Select, Latest, InRange, Later

\* Bars of one series at times of the clock: finitely many, told apart by time.
LEMMA RangeOfSeries ==
  ASSUME NEW data, NEW q, NEW ticker, NEW p, Series(data, ticker, p), OnGrid(data, p)
  PROVE  /\ IsFiniteSet(InRange(data, q))
         /\ \A b \in InRange(data, q) : b \in data /\ b.time \in Times /\ b.time \in Nat
         /\ \A a, b \in InRange(data, q) : a.time = b.time => a = b
<1>1. \A b \in data : b.time \in Times
  BY DEF OnGrid
<1>2. IsFiniteSet(data)
  BY <1>1, FiniteSeries
<1>3. InRange(data, q) \in SUBSET data
  BY DEF InRange
<1>4. \A a, b \in data : a.time = b.time => a = b
  BY DEF Series
<1> QED BY <1>1, <1>2, <1>3, <1>4, FS_Subset, FeedAssumption DEF Times

\* The latest bars of a range have no hole if the bars had none.
LEMMA SelectedSteady ==
  ASSUME NEW data, NEW q, NEW ticker, NEW p \in Nat \ {0},
         q.params.countBack \in Nat, q.params.from \in Nat, q.params.to \in Nat,
         Series(data, ticker, p), OnGrid(data, p), Steady(data, p)
  PROVE  OnGrid(Select(data, q), p) /\ Steady(Select(data, q), p)
<1> DEFINE R == InRange(data, q)
           n == q.params.countBack
<1>1. Select(data, q) = Latest(R, n)
  BY SelectIsLatest
<1>2. /\ IsFiniteSet(R)
      /\ \A b \in R : b \in data /\ b.time \in Times /\ b.time \in Nat
      /\ \A a, b \in R : a.time = b.time => a = b
  BY RangeOfSeries
<1>3. \A b \in Latest(R, n) : b \in R /\ Cardinality(Later(R, b)) < n
  BY DEF Latest
<1>4. OnGrid(Latest(R, n), p)
  BY <1>2, <1>3 DEF OnGrid
<1>5. ASSUME NEW a \in Latest(R, n), NEW b \in Latest(R, n), a.time < b.time
      PROVE  \E c \in Latest(R, n) : c.time = b.time - p
  <2>1. a \in R /\ b \in R /\ a \in data /\ b \in data
    BY <1>2, <1>3
  <2>2. PICK c \in data : c.time = b.time - p
    BY <1>5, <2>1 DEF Steady
  <2>3. a.time <= c.time /\ c.time < b.time /\ c.time \in Nat
    <3>1. PICK k \in Nat, l \in Nat : a.time = p * k /\ b.time = p * l
      BY <2>1 DEF OnGrid
    <3>2. k < l
      BY <1>5, <3>1, PeriodsBetween
    <3>3. PICK e \in Nat : l = k + 1 + e
      BY <3>2
    <3>4. p * l = p * k + p + p * e /\ p * e >= 0
      BY <3>3
    <3> QED BY <1>2, <2>1, <2>2, <3>1, <3>4
  <2>4. c \in R
    <3>1. a.time > q.params.from /\ b.time <= q.params.to
      BY <2>1 DEF InRange
    <3>2. a.time \in Nat /\ b.time \in Nat
      BY <1>2, <2>1
    <3>3. c.time > q.params.from /\ c.time <= q.params.to
      BY <2>3, <3>1, <3>2
    <3> QED BY <2>2, <3>3 DEF InRange
  <2>5. Cardinality(Later(R, c)) < n
    <3>1. CASE c.time = a.time
      BY <1>2, <1>3, <2>1, <2>4, <3>1
    <3>2. CASE a.time < c.time
      <4> HIDE DEF R
      <4>1. /\ Cardinality(Later(R, a)) \in Nat /\ Cardinality(Later(R, c)) \in Nat
            /\ Cardinality(Later(R, c)) < Cardinality(Later(R, a))
        BY <1>2, <2>1, <2>4, <3>2, LaterFewer
      <4>2. Cardinality(Later(R, a)) < n
        BY <1>3
      <4> QED BY <4>1, <4>2
    <3> QED BY <1>2, <2>1, <2>3, <3>1, <3>2
  <2>6. c \in Latest(R, n)
    BY <2>4, <2>5 DEF Latest
  <2> QED BY <2>2, <2>6
<1>6. Steady(Latest(R, n), p)
  BY <1>5 DEF Steady
<1> QED BY <1>1, <1>4, <1>6

\* A bar of the range that is left out has as many later ones as were wanted.
LEMMA SelectedWanted ==
  ASSUME NEW data, NEW q, NEW ticker, NEW p, q.params.countBack \in Nat,
         Series(data, ticker, p), OnGrid(data, p),
         NEW b \in InRange(data, q), b \notin Select(data, q)
  PROVE  Cardinality({c \in Select(data, q) : c.time > b.time}) = q.params.countBack
<1> DEFINE R == InRange(data, q)
           n == q.params.countBack
<1>1. Select(data, q) = Latest(R, n)
  BY SelectIsLatest
<1>2. /\ IsFiniteSet(R)
      /\ \A x \in R : x.time \in Times /\ x.time \in Nat
      /\ \A x, y \in R : x.time = y.time => x = y
  BY RangeOfSeries
<1> HIDE DEF R
<1>3. b \in R /\ b \notin Latest(R, n)
  BY <1>1 DEF R
<1>4. IsFiniteSet(Later(R, b)) /\ Cardinality(Later(R, b)) <= Cardinality(R)
  <2>1. Later(R, b) \in SUBSET R
    BY DEF Later
  <2> QED BY <1>2, <2>1, FS_Subset
<1>5. Cardinality(Later(R, b)) \in Nat /\ Cardinality(R) \in Nat
  BY <1>2, <1>4, FS_CardinalityType
<1>6. Cardinality(Later(R, b)) >= n
  BY <1>3, <1>5 DEF Latest
<1>7. n <= Cardinality(R)
  BY <1>4, <1>5, <1>6
<1>8. Cardinality(Latest(R, n)) = n
  BY <1>2, <1>7, LatestCount
<1>9. \A c \in Latest(R, n) : c.time > b.time
  <2> SUFFICES ASSUME NEW c \in Latest(R, n), ~(c.time > b.time) PROVE FALSE
    OBVIOUS
  <2>1. c \in R /\ Cardinality(Later(R, c)) < n
    BY DEF Latest
  <2>2. c.time < b.time
    BY <1>2, <1>3, <2>1
  <2>3. /\ Cardinality(Later(R, c)) \in Nat
        /\ Cardinality(Later(R, b)) < Cardinality(Later(R, c))
    BY <1>2, <1>3, <2>1, <2>2, LaterFewer
  <2> QED BY <1>5, <1>6, <2>1, <2>3
<1>10. {c \in Latest(R, n) : c.time > b.time} = Latest(R, n)
  BY <1>9
<1> QED BY <1>1, <1>8, <1>10

-----------------------------------------------------------------------------
(***************************************************************************)
(* The invariant of the feed: the types, one series each, and no hole in   *)
(* the object or in an answer.                                             *)
(***************************************************************************)

Outcomes == {"cached", "fetched", "failed", "caught", "error"}

AnswerType(a) ==
  /\ a.call \in Request
  /\ a.bars \subseteq Bar /\ a.had \subseteq Bar
  /\ a.outcome \in Outcomes

Complete(a) ==
  \A b \in a.had :
    b.time > a.call.params.from =>
      \/ b \in a.bars
      \/ Cardinality({c \in a.bars : c.time > b.time}) = a.call.params.countBack

GoodAnswer(a) ==
  /\ AnswerType(a)
  /\ \E p : /\ \A b \in a.bars : b.period = p
            /\ OnGrid(a.bars, p) /\ Steady(a.bars, p)
  /\ a.outcome = "fetched" => Complete(a)

ObjectInv ==
  /\ barsInfo \in [ticker : Tickers \cup {""}, period : Periods \cup {0},
                  data : SUBSET Bar, isList : BOOLEAN]
  /\ OnGrid(barsInfo.data, barsInfo.period) /\ Steady(barsInfo.data, barsInfo.period)

FeedInv ==
  /\ SeriesInv
  /\ trades \in Histories /\ now \in Times /\ calls \in 0..MaxRequests
  /\ pending \subseteq Request
  /\ ObjectInv
  /\ \A a \in answers : GoodAnswer(a)

\* At the start nothing is there.
LEMMA FeedInit == Init => FeedInv
<1> SUFFICES ASSUME Init PROVE FeedInv
  OBVIOUS
<1>1. barsInfo = [ticker |-> "", period |-> 0, data |-> {}, isList |-> TRUE]
  BY DEF Init
<1>2. barsInfo.data = {}
  BY <1>1
<1>3. ObjectInv
  <2>1. barsInfo \in [ticker : Tickers \cup {""}, period : Periods \cup {0},
                      data : SUBSET Bar, isList : BOOLEAN]
    BY <1>1
  <2>2. \A p : OnGrid({}, p) /\ Steady({}, p)
    BY DEF OnGrid, Steady
  <2> QED BY <1>2, <2>1, <2>2 DEF ObjectInv
<1>4. now \in Times /\ calls \in 0..MaxRequests
  <2>1. now = 1 /\ calls = 0
    BY DEF Init
  <2> QED BY <2>1, FeedAssumption DEF Times
<1>5. trades \in Histories /\ pending = {} /\ answers = {}
  BY DEF Init
<1>6. SeriesInv
  BY SeriesInit
<1> QED BY <1>3, <1>4, <1>5, <1>6 DEF FeedInv

\* The candles of the server are bars at times of the grid.
LEMMA ServedGood ==
  ASSUME NEW q \in Request
  PROVE  /\ OnGrid(Served(q), q.period) /\ Served(q) \subseteq Bar
         /\ \A b \in Served(q) : q.params.from <= b.time /\ b.time <= q.params.to
<1>1. q.ticker \in Tickers /\ q.period \in Periods /\ q.period \in Nat \ {0}
  BY FeedAssumption DEF Request
<1> DEFINE C == Candles(q.ticker, q.period)
<1>2. \A c \in C : c \in Times /\ c \in Nat /\ c % q.period = 0
  BY FeedAssumption DEF Candles, Times
<1> HIDE DEF C
<1>3. \A c \in C : c = q.period * (c \div q.period) /\ c \div q.period \in Nat
  <2> TAKE c \in C
  <2> DEFINE p == q.period
             d == c \div p
             r == c % p
  <2>1. c \in Nat /\ p \in Nat \ {0} /\ r = 0
    BY <1>1, <1>2
  <2> HIDE DEF p
  <2>2. c = p * d + r /\ d \in Int
    BY <2>1
  <2>3. d >= 0
    BY <2>1
  <2> QED BY <2>1, <2>2, <2>3 DEF p
<1>4. ASSUME NEW b \in Served(q)
      PROVE  /\ b \in Bar /\ b.time \in Times
             /\ \E k \in Nat : b.time = q.period * k
             /\ q.params.from <= b.time /\ b.time <= q.params.to
  <2>1. PICK c \in C : /\ q.params.from <= c /\ c <= q.params.to
                       /\ b = [ticker |-> q.ticker, period |-> q.period, time |-> c]
    BY DEF Served, C
  <2>2. b.time = c /\ b \in Bar
    BY <1>1, <1>2, <2>1 DEF Bar
  <2> QED BY <1>2, <1>3, <2>1, <2>2
<1> QED BY <1>4 DEF OnGrid

\* Bars of one series are bars.
LEMMA SeriesIsBars ==
  ASSUME NEW bars, NEW ticker \in Tickers, NEW p \in Periods,
         Series(bars, ticker, p), OnGrid(bars, p)
  PROVE  bars \subseteq Bar
BY DEF Series, OnGrid, Bar

\* What a request asks for.
LEMMA RequestParts ==
  ASSUME NEW q \in Request
  PROVE  /\ q.ticker \in Tickers /\ q.period \in Periods /\ q.period \in Nat \ {0}
         /\ q.params.from \in Nat /\ q.params.to \in Nat /\ q.params.countBack \in Nat
         /\ q.id \in 1..MaxRequests
<1>1. /\ q.ticker \in Tickers /\ q.period \in Periods /\ q.id \in 1..MaxRequests
      /\ q.params \in PeriodParams
  BY DEF Request
<1>2. q.params \in [from : Nat, to : Nat, countBack : Nat]
  BY <1>1, FeedAssumption
<1> QED BY <1>1, <1>2, FeedAssumption

\* One more good answer.
LEMMA FeedAnswer ==
  ASSUME \A a \in answers : GoodAnswer(a), NEW q \in Request, NEW data,
         NEW outcome \in Outcomes, Answer(q, Select(data, q), outcome),
         NEW ticker \in Tickers, NEW p \in Periods,
         Series(data, ticker, p), OnGrid(data, p), Steady(data, p),
         outcome = "fetched" => Served(q) \subseteq data
  PROVE  \A a \in answers' : GoodAnswer(a)
<1> DEFINE bars == Select(data, q)
           new == [call |-> q, bars |-> bars, outcome |-> outcome, had |-> Served(q)]
<1>1. answers' = answers \cup {new}
  BY DEF Answer
<1>2. /\ p \in Nat \ {0}
      /\ q.params.from \in Nat /\ q.params.to \in Nat /\ q.params.countBack \in Nat
  BY RequestParts, FeedAssumption
<1>3. OnGrid(bars, p) /\ Steady(bars, p)
  BY <1>2, SelectedSteady
<1>s. Series(bars, ticker, p)
  BY SelectedSeries
<1>4. bars \subseteq Bar
  BY <1>3, <1>s, SeriesIsBars
<1>p. \A b \in bars : b.period = p
  <2>1. \A b : b = [ticker |-> ticker, period |-> p, time |-> b.time] => b.period = p
    OBVIOUS
  <2> QED BY <1>s, <2>1 DEF Series
<1>5. Served(q) \subseteq Bar
  BY ServedGood
<1>6. ASSUME outcome = "fetched", NEW b \in Served(q), b.time > q.params.from
      PROVE  b \in bars \/ Cardinality({c \in bars : c.time > b.time}) = q.params.countBack
  <2>1. b.time <= q.params.to
    BY ServedGood
  <2>2. b \in InRange(data, q)
    BY <1>6, <2>1 DEF InRange
  <2> QED BY <1>2, <2>2, SelectedWanted
<1> HIDE DEF bars
<1>7. /\ new.call = q /\ new.bars = bars /\ new.outcome = outcome /\ new.had = Served(q)
  OBVIOUS
<1> HIDE DEF new
<1>8. AnswerType(new)
  BY <1>4, <1>5, <1>7 DEF AnswerType
<1>9. outcome = "fetched" => Complete(new)
  BY <1>6, <1>7 DEF Complete
<1>10. GoodAnswer(new)
  BY <1>3, <1>p, <1>7, <1>8, <1>9 DEF GoodAnswer
<1> QED BY <1>1, <1>10

\* getBars: answered from the object, or one more request is under way.
LEMMA FeedCall ==
  ASSUME FeedInv, NEW q \in Request, Call(q)
  PROVE  FeedInv'
<1>1. SeriesInv'
  BY SeriesCall DEF FeedInv
<1>2. calls' \in 0..MaxRequests
  <2>1. q.id \in 1..MaxRequests
    BY RequestParts
  <2> QED BY <2>1, FeedAssumption DEF Call
<1>3. trades' = trades /\ now' = now /\ barsInfo' = barsInfo
  BY DEF Call
<1>4. ObjectInv'
  BY <1>3 DEF FeedInv, ObjectInv
<1>5. CASE IsCached(q)
  <2>1. Answer(q, Select(barsInfo.data, q), "cached") /\ pending' = pending
    BY <1>5 DEF Call
  <2>2. /\ Series(barsInfo.data, q.ticker, q.period)
        /\ OnGrid(barsInfo.data, q.period) /\ Steady(barsInfo.data, q.period)
    BY <1>5 DEF FeedInv, SeriesInv, ObjectInv, IsCached
  <2>3. \A a \in answers : GoodAnswer(a)
    BY DEF FeedInv
  <2>4. \A a \in answers' : GoodAnswer(a)
    BY <2>1, <2>2, <2>3, RequestParts, FeedAnswer DEF Outcomes
  <2> QED BY <1>1, <1>2, <1>3, <1>4, <2>1, <2>4 DEF FeedInv
<1>6. CASE ~IsCached(q)
  <2>1. pending' = pending \cup {q} /\ answers' = answers
    BY <1>6 DEF Call
  <2> QED BY <1>1, <1>2, <1>3, <1>4, <2>1 DEF FeedInv
<1> QED BY <1>5, <1>6

\* The library asks for a pair, a period and a range, for the first time or again.
LEMMA FeedGetBars == ASSUME FeedInv, GetBars PROVE FeedInv'
<1>1. PICK ticker \in Tickers, period \in Periods, params \in PeriodParams :
        Call([id |-> calls + 1, ticker |-> ticker, period |-> period,
              params |-> params, reset |-> FALSE])
  BY DEF GetBars
<1> DEFINE q == [id |-> calls + 1, ticker |-> ticker, period |-> period,
                 params |-> params, reset |-> FALSE]
<1>2. calls + 1 \in 1..MaxRequests
  BY FeedAssumption DEF GetBars, FeedInv
<1>3. q \in Request
  BY <1>2 DEF Request
<1> HIDE DEF q
<1>4. Call(q)
  BY <1>1 DEF q
<1> QED BY <1>3, <1>4, FeedCall

LEMMA FeedReset == ASSUME FeedInv, HandleVisibilityChange PROVE FeedInv'
<1>1. PICK a \in answers, params \in PeriodParams :
        Call([a.call EXCEPT !.id = calls + 1, !.params = params, !.reset = TRUE])
  BY DEF HandleVisibilityChange
<1>2. a.call \in Request
  BY DEF FeedInv, GoodAnswer, AnswerType
<1> DEFINE c == a.call
           q == [c EXCEPT !.id = calls + 1, !.params = params, !.reset = TRUE]
<1>3. calls + 1 \in 1..MaxRequests
  BY FeedAssumption DEF HandleVisibilityChange, FeedInv
<1>4. Call(q) /\ c \in Request
  BY <1>1, <1>2
<1> HIDE DEF c
<1>5. q \in Request
  BY <1>3, <1>4 DEF Request
<1> HIDE DEF q
<1> QED BY <1>4, <1>5, FeedCall

\* The server's bars without their gaps replace what the object held.
LEMMA FeedReceive ==
  ASSUME FeedInv, NEW q \in pending, NEW ok \in BOOLEAN, Receive(q, ok)
  PROVE  FeedInv'
<1> DEFINE served == IF ok THEN Served(q) ELSE {}
           bars == FillBarGaps(served, q.period)
           outcome == IF ok THEN "fetched" ELSE "failed"
<1>1. q \in Request
  BY DEF FeedInv
<1>2. q.ticker \in Tickers /\ q.period \in Periods /\ q.period \in Nat \ {0}
  BY <1>1, RequestParts
<1>3. /\ barsInfo' = [ticker |-> q.ticker, period |-> q.period, data |-> bars,
                      isList |-> TRUE]
      /\ pending' = pending \ {q}
      /\ Answer(q, Select(bars, q), outcome)
      /\ trades' = trades /\ now' = now /\ calls' = calls
  BY DEF Receive
<1>4. SeriesInv'
  BY SeriesReceive DEF FeedInv
<1>5. Series(served, q.ticker, q.period) /\ OnGrid(served, q.period)
  <2>1. Series({}, q.ticker, q.period) /\ OnGrid({}, q.period)
    BY DEF Series, OnGrid
  <2> QED BY <1>1, <2>1, ServedSeries, ServedGood
<1>6. outcome \in Outcomes /\ (outcome = "fetched" => served = Served(q))
  BY DEF Outcomes
<1> HIDE DEF served, outcome
<1>7. Series(bars, q.ticker, q.period) /\ OnGrid(bars, q.period) /\ Steady(bars, q.period)
  BY <1>2, <1>5, FilledSeries, FilledSteady
<1>8. served \subseteq bars
  BY DEF FillBarGaps
<1> HIDE DEF bars
<1>9. \A a \in answers' : GoodAnswer(a)
  <2>1. \A a \in answers : GoodAnswer(a)
    BY DEF FeedInv
  <2> QED BY <1>1, <1>2, <1>3, <1>6, <1>7, <1>8, <2>1, FeedAnswer
<1>10. bars \subseteq Bar
  BY <1>2, <1>7, SeriesIsBars
<1>11. ObjectInv'
  <2>1. /\ barsInfo'.data = bars /\ barsInfo'.period = q.period
        /\ barsInfo' \in [ticker : Tickers \cup {""}, period : Periods \cup {0},
                          data : SUBSET Bar, isList : BOOLEAN]
    BY <1>2, <1>3, <1>10
  <2> QED BY <1>7, <2>1 DEF ObjectInv
<1> QED BY <1>3, <1>4, <1>9, <1>11 DEF FeedInv

\* An error tells the library of no bars.
LEMMA FeedError ==
  ASSUME FeedInv, NEW q \in Request, Answer(q, {}, "error")
  PROVE  \A a \in answers' : GoodAnswer(a)
<1>1. Select({}, q) = {}
  BY DEF Select
<1>2. Answer(q, Select({}, q), "error") /\ "error" \in Outcomes
  BY <1>1 DEF Outcomes
<1>3. Series({}, q.ticker, q.period) /\ OnGrid({}, q.period) /\ Steady({}, q.period)
  BY DEF Series, OnGrid, Steady
<1>4. \A a \in answers : GoodAnswer(a)
  BY DEF FeedInv
<1> QED BY <1>2, <1>3, <1>4, RequestParts, FeedAnswer

\* An answer without a list: what the object holds is of one series without a
\* hole, whichever that is.
LEMMA FeedNoBars ==
  ASSUME FeedInv, NEW q \in pending, ReceiveNoBars(q)
  PROVE  FeedInv'
<1>1. q \in Request
  BY DEF FeedInv
<1>2. /\ pending' = pending \ {q} /\ barsInfo' = barsInfo
      /\ trades' = trades /\ now' = now /\ calls' = calls
  BY DEF ReceiveNoBars
<1>3. SeriesInv'
  BY SeriesNoBars DEF FeedInv
<1>4. \A a \in answers' : GoodAnswer(a)
  <2>1. CASE ~barsInfo.isList
    <3>1. Answer(q, {}, "error")
      BY <2>1 DEF ReceiveNoBars
    <3> QED BY <1>1, <3>1, FeedError
  <2>2. CASE barsInfo.isList
    <3> DEFINE data == barsInfo.data
    <3>1. Answer(q, Select(data, q), "caught") /\ "caught" \in Outcomes
      BY <2>2 DEF ReceiveNoBars, Outcomes
    <3>2. /\ Series(data, barsInfo.ticker, barsInfo.period)
          /\ OnGrid(data, barsInfo.period) /\ Steady(data, barsInfo.period)
          /\ data \subseteq Bar
          /\ \A a \in answers : GoodAnswer(a)
      BY DEF FeedInv, SeriesInv, ObjectInv
    <3>3. \E ticker \in Tickers, p \in Periods :
            Series(data, ticker, p) /\ OnGrid(data, p) /\ Steady(data, p)
      <4>1. CASE data = {}
        <5>1. Series({}, q.ticker, q.period) /\ OnGrid({}, q.period) /\ Steady({}, q.period)
          BY DEF Series, OnGrid, Steady
        <5> QED BY <1>1, <4>1, <5>1, RequestParts
      <4>2. ASSUME NEW b \in data PROVE barsInfo.ticker \in Tickers /\ barsInfo.period \in Periods
        <5>1. b.ticker \in Tickers /\ b.period \in Periods
          BY <3>2, <4>2 DEF Bar
        <5>2. b = [ticker |-> barsInfo.ticker, period |-> barsInfo.period, time |-> b.time]
          BY <3>2, <4>2 DEF Series
        <5> QED BY <5>1, <5>2
      <4> QED BY <3>2, <4>1, <4>2
    <3> HIDE DEF data
    <3> QED BY <1>1, <3>1, <3>2, <3>3, FeedAnswer
  <2> QED BY <2>1, <2>2
<1> QED BY <1>2, <1>3, <1>4 DEF FeedInv, ObjectInv

\* An empty answer: the object has no bars, of the series asked for.
LEMMA FeedNothing ==
  ASSUME FeedInv, NEW q \in pending, ReceiveNothing(q)
  PROVE  FeedInv'
<1>1. q \in Request
  BY DEF FeedInv
<1>2. /\ barsInfo' = [ticker |-> q.ticker, period |-> q.period, data |-> {},
                      isList |-> FALSE]
      /\ pending' = pending \ {q} /\ Answer(q, {}, "error")
      /\ trades' = trades /\ now' = now /\ calls' = calls
  BY DEF ReceiveNothing
<1>3. SeriesInv'
  BY SeriesNothing DEF FeedInv
<1>4. \A a \in answers' : GoodAnswer(a)
  BY <1>1, <1>2, FeedError
<1>5. ObjectInv'
  <2>1. /\ barsInfo'.data = {} /\ barsInfo'.period = q.period
        /\ barsInfo' \in [ticker : Tickers \cup {""}, period : Periods \cup {0},
                          data : SUBSET Bar, isList : BOOLEAN]
    BY <1>1, <1>2, RequestParts
  <2>2. OnGrid({}, q.period) /\ Steady({}, q.period)
    BY DEF OnGrid, Steady
  <2> QED BY <2>1, <2>2 DEF ObjectInv
<1> QED BY <1>2, <1>3, <1>4, <1>5 DEF FeedInv

\* Every step keeps the invariant of the feed.
LEMMA FeedStep == FeedInv /\ [Next]_vars => FeedInv'
<1> SUFFICES ASSUME FeedInv, [Next]_vars PROVE FeedInv'
  OBVIOUS
<1>1. CASE GetBars
  BY <1>1, FeedGetBars
<1>2. CASE HandleVisibilityChange
  BY <1>2, FeedReset
<1>3. CASE Reply
  BY <1>3, FeedReceive, FeedNoBars, FeedNothing DEF Reply
<1>4. CASE Tick
  <2>1. now' \in Times /\ UNCHANGED <<trades, barsInfo, pending, calls, answers>>
    BY <1>4, FeedAssumption DEF Tick, FeedInv, Times
  <2> QED BY <1>4, <2>1, SeriesStep DEF FeedInv, ObjectInv, Next
<1>5. CASE UNCHANGED vars
  BY <1>5, SeriesStep DEF vars, FeedInv, ObjectInv
<1> QED BY <1>1, <1>2, <1>3, <1>4, <1>5 DEF Next

LEMMA FeedAlways == Spec => []FeedInv
BY FeedInit, FeedStep, PTL DEF Spec

\* Whatever the library asks for and however late it is answered, the shared
\* object and the answers hold bars at times of the clock.
THEOREM FeedTypes == Spec => []TypeOK
<1>1. FeedInv => TypeOK
  BY DEF FeedInv, ObjectInv, GoodAnswer, AnswerType, Outcomes, TypeOK
<1> QED BY FeedAlways, <1>1, PTL

\* The bars that getBars returns together leave no candle out, for any history
\* of trades: fillBarGaps and the choice of the latest bars see to it, also when
\* another request has put the bars into the shared object.
THEOREM ChartHasNoGaps == Spec => []NoGaps
<1>1. FeedInv => NoGaps
  <2> SUFFICES ASSUME FeedInv, NEW a \in answers, NEW b \in a.bars
               PROVE  b.time = Min(TimesOf(a.bars)) \/ b.time - b.period \in TimesOf(a.bars)
    BY DEF NoGaps
  <2> DEFINE S == TimesOf(a.bars)
  <2>1. OnGrid(a.bars, b.period) /\ Steady(a.bars, b.period)
    BY DEF FeedInv, GoodAnswer
  <2>2. S \in SUBSET Times /\ b.time \in S
    BY <2>1 DEF TimesOf, OnGrid
  <2>3. Min(S) \in S /\ Min(S) <= b.time
    BY <2>2, FirstTime
  <2>4. PICK e \in a.bars : e.time = Min(S)
    BY <2>3 DEF TimesOf
  <2>5. CASE e.time < b.time
    <3>1. PICK c \in a.bars : c.time = b.time - b.period
      BY <2>1, <2>5 DEF Steady
    <3> QED BY <3>1 DEF TimesOf
  <2>6. CASE ~(e.time < b.time)
    <3>1. Min(S) \in Nat /\ b.time \in Nat
      BY <2>2, <2>3, FeedAssumption DEF Times
    <3>2. b.time = Min(S)
      BY <2>3, <2>4, <2>6, <3>1
    <3> QED BY <3>2
  <2> QED BY <2>5, <2>6
<1> QED BY FeedAlways, <1>1, PTL

\* Of what the server had in the range, a fetched answer leaves out only bars
\* after which as many were returned as the library wanted.
THEOREM FetchedIsComplete == Spec => []AllThatIsWanted
<1>1. FeedInv => AllThatIsWanted
  BY DEF FeedInv, GoodAnswer, Complete, AllThatIsWanted
<1> QED BY FeedAlways, <1>1, PTL

-----------------------------------------------------------------------------
(***************************************************************************)
(* The safety half of Answered: a call has one outcome or will have one.   *)
(***************************************************************************)
Waits(n) == \E q \in pending : q.id = n
IsAnswered(n) == \E a \in answers : a.call.id = n

\* A call of getBars waits for the server or has been answered.
NoCallForgotten == \A n \in 1..calls : Waits(n) \/ IsAnswered(n)

\* No call is answered twice.
NoSecondAnswer == \A a, b \in answers : a.call.id = b.call.id => a = b

\* Calls are numbered, and what waits has not been answered.
NumberInv ==
  /\ \A q \in pending : q.id \in 1..calls /\ ~IsAnswered(q.id)
  /\ \A q, r \in pending : q.id = r.id => q = r
  /\ \A a \in answers : a.call.id \in 1..calls

CallInv == NoCallForgotten /\ NoSecondAnswer /\ NumberInv

\* Answering is to add one answer, to the call.
LEMMA OneMoreAnswer ==
  ASSUME NEW q, NEW bars, NEW outcome, Answer(q, bars, outcome)
  PROVE  \E a : a.call = q /\ answers' = answers \cup {a}
<1> DEFINE a == [call |-> q, bars |-> bars, outcome |-> outcome, had |-> Served(q)]
<1>1. a.call = q
  OBVIOUS
<1>2. answers' = answers \cup {a}
  BY DEF Answer
<1> HIDE DEF a
<1> QED BY <1>1, <1>2

LEMMA CallRemembers ==
  ASSUME calls \in Nat, CallInv, NEW q, q.id = calls + 1, Call(q)
  PROVE  CallInv'
<1>1. calls' = calls + 1 /\ \A n : n \in 1..calls' <=> n \in 1..calls \/ n = q.id
  BY DEF Call
<1>2. ~Waits(q.id) /\ ~IsAnswered(q.id)
  BY DEF CallInv, NumberInv, Waits, IsAnswered
<1>3. CASE IsCached(q)
  <2>1. pending' = pending /\ \E a : a.call = q /\ answers' = answers \cup {a}
    BY <1>3, OneMoreAnswer DEF Call
  <2> QED BY <1>1, <1>2, <2>1
          DEF CallInv, NoCallForgotten, NoSecondAnswer, NumberInv, Waits, IsAnswered
<1>4. CASE ~IsCached(q)
  <2>1. pending' = pending \cup {q} /\ answers' = answers
    BY <1>4 DEF Call
  <2> QED BY <1>1, <1>2, <2>1
          DEF CallInv, NoCallForgotten, NoSecondAnswer, NumberInv, Waits, IsAnswered
<1> QED BY <1>3, <1>4

\* The server's answer, whatever it is, is told to the call that waited for it.
LEMMA ReplyAnswers ==
  ASSUME Reply
  PROVE  \E q \in pending : /\ calls' = calls /\ pending' = pending \ {q}
                            /\ \E bars, outcome : Answer(q, bars, outcome)
<1>1. PICK q \in pending :
        (\E ok \in BOOLEAN : Receive(q, ok)) \/ ReceiveNoBars(q) \/ ReceiveNothing(q)
  BY DEF Reply
<1>2. calls' = calls /\ pending' = pending \ {q}
  BY <1>1 DEF Receive, ReceiveNoBars, ReceiveNothing
<1>3. ASSUME NEW ok, Receive(q, ok) PROVE \E bars, outcome : Answer(q, bars, outcome)
  BY <1>3 DEF Receive
<1>4. ReceiveNoBars(q) \/ ReceiveNothing(q) => \E bars, outcome : Answer(q, bars, outcome)
  BY DEF ReceiveNoBars, ReceiveNothing
<1> QED BY <1>1, <1>2, <1>3, <1>4

LEMMA ReceiveRemembers ==
  ASSUME CallInv, Reply
  PROVE  CallInv'
<1>0. PICK q \in pending : /\ calls' = calls /\ pending' = pending \ {q}
                            /\ \E bars, outcome : Answer(q, bars, outcome)
  BY ReplyAnswers
<1>1. calls' = calls /\ pending' = pending \ {q}
  BY <1>0
<1>2. PICK a : a.call = q /\ answers' = answers \cup {a}
  BY <1>0, OneMoreAnswer
<1>3. NoCallForgotten'
  BY <1>1, <1>2 DEF CallInv, NoCallForgotten, Waits, IsAnswered
<1>4. NoSecondAnswer'
  BY <1>1, <1>2 DEF CallInv, NoSecondAnswer, NumberInv, IsAnswered
<1>5. NumberInv'
  BY <1>1, <1>2 DEF CallInv, NumberInv, IsAnswered
<1> QED BY <1>3, <1>4, <1>5 DEF CallInv

LEMMA StepRemembers == FeedInv /\ CallInv /\ [Next]_vars => CallInv'
<1> SUFFICES ASSUME FeedInv, CallInv, [Next]_vars PROVE CallInv'
  OBVIOUS
<1>0. calls \in Nat
  BY FeedAssumption DEF FeedInv
<1>1. CASE GetBars
  <2>1. PICK ticker \in Tickers, period \in Periods, params \in PeriodParams :
          Call([id |-> calls + 1, ticker |-> ticker, period |-> period,
                params |-> params, reset |-> FALSE])
    BY <1>1 DEF GetBars
  <2> QED BY <1>0, <2>1, CallRemembers
<1>2. CASE HandleVisibilityChange
  <2>1. PICK a \in answers, params \in PeriodParams :
          Call([a.call EXCEPT !.id = calls + 1, !.params = params, !.reset = TRUE])
    BY <1>2 DEF HandleVisibilityChange
  <2>2. a.call \in Request
    BY DEF FeedInv, GoodAnswer, AnswerType
  <2>3. [a.call EXCEPT !.id = calls + 1, !.params = params, !.reset = TRUE].id = calls + 1
    BY <2>2 DEF Request
  <2> DEFINE q == [a.call EXCEPT !.id = calls + 1, !.params = params, !.reset = TRUE]
  <2>4. q.id = calls + 1 /\ Call(q)
    BY <2>1, <2>3
  <2> HIDE DEF q
  <2> QED BY <1>0, <2>4, CallRemembers
<1>3. CASE Reply
  BY <1>3, ReceiveRemembers
<1>4. CASE UNCHANGED <<pending, calls, answers>>
  BY <1>4 DEF CallInv, NoCallForgotten, NoSecondAnswer, NumberInv, Waits, IsAnswered
<1> QED BY <1>1, <1>2, <1>3, <1>4 DEF Next, Tick, vars

LEMMA CallsAlways == Spec => []CallInv
<1>1. Init => CallInv
  <2> SUFFICES ASSUME pending = {}, answers = {}, calls = 0  PROVE CallInv
    BY DEF Init
  <2>1. ~ \E n : n \in 1..calls
    OBVIOUS
  <2> QED BY <2>1 DEF CallInv, NoCallForgotten, NoSecondAnswer, NumberInv
<1> QED BY <1>1, StepRemembers, FeedAlways, PTL DEF Spec

\* However calls and answers interleave, and also when the server fails, getBars
\* has told the library the outcome of a call, or a request is under way that
\* will: none is lost in between, and the server only has to come to an end.
THEOREM CallsAreNotForgotten == Spec => []NoCallForgotten
<1>1. CallInv => NoCallForgotten
  BY DEF CallInv
<1> QED BY <1>1, CallsAlways, PTL

\* The library is told the outcome of a call of getBars once: calls that overlap
\* do not answer for each other, nor does the one of resetData for an older one.
THEOREM CallsAreAnsweredOnce == Spec => []NoSecondAnswer
<1>1. CallInv => NoSecondAnswer
  BY DEF CallInv
<1> QED BY <1>1, CallsAlways, PTL
=============================================================================
