------------------------------ MODULE BarFeed ------------------------------
(***************************************************************************)
(* The data feed of the TradingView chart: useTVDatafeed and               *)
(* TVDataProvider.  The charting library calls getBars whenever it wants   *)
(* bars, also while earlier calls wait for the server; the server answers  *)
(* in any order.  All providers share one object, initialHistoryBarsInfo,  *)
(* which holds the bars of the last answer.                                *)
(*                                                                         *)
(* The library and the server are not in this repository: the library asks *)
(* for any pair, period and range; the server returns the candles in which *)
(* there was a trade, or fails, or answers without a list of candles.      *)
(***************************************************************************)
EXTENDS Integers, FiniteSets, FiniteSetsExt

CONSTANTS
  Tickers,      \* the pairs of the chart
  Periods,      \* lengths of a candle: CHART_PERIODS
  Histories,    \* when there may have been trades: sets of times per ticker
  PeriodParams, \* what may be asked for: records of from, to and countBack
  MaxTime,      \* bound on the clock
  MaxRequests   \* bound on the calls of getBars

Times == 1..MaxTime
Bar == [ticker : Tickers, period : Periods, time : Times]
Request == [id : 1..MaxRequests, ticker : Tickers, period : Periods,
            params : PeriodParams, reset : BOOLEAN]

ASSUME FeedAssumption ==
  /\ MaxTime \in Nat \ {0} /\ MaxRequests \in Nat
  /\ Periods \subseteq Nat \ {0}
  /\ Histories \subseteq [Tickers -> SUBSET Times]
  /\ PeriodParams \subseteq [from : Nat, to : Nat, countBack : Nat]

VARIABLES
  trades,    \* when there are trades, fixed
  now,
  barsInfo,  \* the object that all providers share; isList: data has a filter
  pending,   \* requests that wait for the server
  calls,     \* how many there have been
  answers    \* history: what the library has been given

vars == <<trades, now, barsInfo, pending, calls, answers>>

Init ==
  /\ trades \in Histories
  /\ now = 1
  /\ barsInfo = [ticker |-> "", period |-> 0, data |-> {}, isList |-> TRUE]
  /\ pending = {}
  /\ calls = 0
  /\ answers = {}

-----------------------------------------------------------------------------
\* The candles that the server has: those of the trades so far.
Candles(ticker, period) ==
  {c \in Times : c % period = 0
                 /\ \E t \in trades[ticker] : t <= now /\ (t \div period) * period = c}

Served(q) ==
  {[ticker |-> q.ticker, period |-> q.period, time |-> c] :
     c \in {c \in Candles(q.ticker, q.period) : q.params.from <= c /\ c <= q.params.to}}

TimesOf(bars) == {b.time : b \in bars}

\* Mutants: counted onwards; the candle before the next trade is left out.
FillBarGapsOnwards(bars, period) ==
  bars \cup UNION {LET earlier == {a \in bars : a.time < b.time} IN
                   IF earlier = {} THEN {}
                   ELSE {[b EXCEPT !.time = b.time + j * period] :
                           j \in 1..((b.time - Max(TimesOf(earlier))) \div period - 1)} :
                   b \in bars}
FillBarGapsShort(bars, period) ==
  bars \cup UNION {LET earlier == {a \in bars : a.time < b.time} IN
                   IF earlier = {} THEN {}
                   ELSE {[b EXCEPT !.time = b.time - j * period] :
                           j \in 2..((b.time - Max(TimesOf(earlier))) \div period - 1)} :
                   b \in bars}

\* fillBarGaps: candles without a trade, counted back from the next one.
FillBarGaps(bars, period) ==
  bars \cup UNION {LET earlier == {a \in bars : a.time < b.time} IN
                   IF earlier = {} THEN {}
                   ELSE {[b EXCEPT !.time = b.time - j * period] :
                           j \in 1..((b.time - Max(TimesOf(earlier))) \div period - 1)} :
                   b \in bars}

\* Mutant: the first bars instead of the latest.
SelectFirst(data, q) ==
  LET bars == {b \in data : b.time > q.params.from /\ b.time <= q.params.to} IN
  {b \in bars : Cardinality({a \in bars : a.time < b.time}) < q.params.countBack}

\* The end of getTokenHistoryBars: the latest countBack bars of the range.
Select(data, q) ==
  LET bars == {b \in data : b.time > q.params.from /\ b.time <= q.params.to} IN
  {b \in bars : Cardinality({a \in bars : a.time > b.time}) < q.params.countBack}

\* Mutant: the period is not looked at.
IsCachedAnyPeriod(q) == barsInfo.data # {} /\ barsInfo.ticker = q.ticker

\* The condition of getTokenHistoryBars under which nothing is fetched.
\* shouldRefetchBars does not count: resetCache sets it and clears it again
\* before anybody asks for bars.
IsCached(q) ==
  barsInfo.data # {} /\ barsInfo.ticker = q.ticker /\ barsInfo.period = q.period

Answer(q, bars, outcome) ==
  answers' = answers \cup
    {[call |-> q, bars |-> bars, outcome |-> outcome, had |-> Served(q)]}

(***************************************************************************)
(* getBars up to its await: answered from the shared object, or fetched.   *)
(***************************************************************************)
Call(q) ==
  /\ calls' = q.id
  /\ IF IsCached(q)
     THEN Answer(q, Select(barsInfo.data, q), "cached") /\ UNCHANGED pending
     ELSE pending' = pending \cup {q} /\ UNCHANGED answers
  /\ UNCHANGED <<trades, now, barsInfo>>

GetBars ==
  /\ calls < MaxRequests
  /\ \E ticker \in Tickers, period \in Periods, params \in PeriodParams :
       Call([id |-> calls + 1, ticker |-> ticker, period |-> period,
             params |-> params, reset |-> FALSE])

(***************************************************************************)
(* The tab is shown again after a long time: resetCache, which leaves all  *)
(* as it was, and then resetData, on which the library asks once more for  *)
(* what it has, up to the present.                                         *)
(***************************************************************************)
HandleVisibilityChange ==
  /\ calls < MaxRequests
  /\ \E a \in answers, params \in PeriodParams :
       /\ a.call.id = calls
       /\ params.from = a.call.params.from /\ params.to >= now
       /\ Call([a.call EXCEPT !.id = calls + 1, !.params = params, !.reset = TRUE])

(***************************************************************************)
(* getBars after its await: the bars are put in the object and taken out   *)
(* of it again in one go.  getTokenChartPrice makes [] of an error.        *)
(***************************************************************************)
\* Mutant: an error is thrown to nobody.
ReceiveSilently(q, ok) ==
  LET bars == FillBarGaps(IF ok THEN Served(q) ELSE {}, q.period) IN
  /\ barsInfo' = [ticker |-> q.ticker, period |-> q.period, data |-> bars,
                  isList |-> TRUE]
  /\ pending' = pending \ {q}
  /\ IF ok THEN Answer(q, Select(bars, q), "fetched") ELSE UNCHANGED answers
  /\ UNCHANGED <<trades, now, calls>>

Receive(q, ok) ==
  LET bars == FillBarGaps(IF ok THEN Served(q) ELSE {}, q.period) IN
  /\ barsInfo' = [ticker |-> q.ticker, period |-> q.period, data |-> bars,
                  isList |-> TRUE]
  /\ pending' = pending \ {q}
  /\ Answer(q, Select(bars, q), IF ok THEN "fetched" ELSE "failed")
  /\ UNCHANGED <<trades, now, calls>>

\* The server answers with null or an object, on which fillBarGaps throws.  What
\* the catch restores is the shared object itself, as the last answer left it:
\* the call is given what that has in its range.
ReceiveNoBars(q) ==
  /\ pending' = pending \ {q}
  /\ IF barsInfo.isList THEN Answer(q, Select(barsInfo.data, q), "caught")
     ELSE Answer(q, {}, "error")
  /\ UNCHANGED <<trades, now, calls, barsInfo>>

\* The server answers with an empty body, a string: it has no bars to fill and
\* is stored, but has no filter either.  That is thrown through to getBars,
\* which calls onErrorCallback.
ReceiveNothing(q) ==
  /\ barsInfo' = [ticker |-> q.ticker, period |-> q.period, data |-> {},
                  isList |-> FALSE]
  /\ pending' = pending \ {q}
  /\ Answer(q, {}, "error")
  /\ UNCHANGED <<trades, now, calls>>

Reply == \E q \in pending :
           (\E ok \in BOOLEAN : Receive(q, ok)) \/ ReceiveNoBars(q) \/ ReceiveNothing(q)

Tick ==
  /\ now < MaxTime
  /\ now' = now + 1
  /\ UNCHANGED <<trades, barsInfo, pending, calls, answers>>

Next == GetBars \/ HandleVisibilityChange \/ Reply \/ Tick

\* axios gives every request up after AXIOS_TIMEOUT and three retries.
Spec == Init /\ [][Next]_vars /\ WF_vars(Reply)

-----------------------------------------------------------------------------
\* Each variable has its type.
TypeOK ==
  /\ trades \in Histories
  /\ now \in Times
  /\ barsInfo \in [ticker : Tickers \cup {""}, period : Periods \cup {0},
                  data : SUBSET Bar, isList : BOOLEAN]
  /\ pending \subseteq Request
  /\ calls \in 0..MaxRequests
  /\ \A a \in answers :
       /\ a.call \in Request
       /\ a.bars \subseteq Bar /\ a.had \subseteq Bar
       /\ a.outcome \in {"cached", "fetched", "failed", "caught", "error"}

\* Whatever is answered late or in between, the library is never given bars of
\* two series mixed, and never those of another pair or period than it asked
\* for, with one exception that the code makes: when the server's answer is no
\* list, the call is given what the shared object has, of whichever series that
\* is (TVDataProvider.ts:60-63).
OwnSeries ==
  \A a \in answers : \A b \in a.bars :
    /\ \A c \in a.bars : c.ticker = b.ticker /\ c.period = b.period
    /\ a.outcome # "caught" => b.ticker = a.call.ticker /\ b.period = a.call.period

\* Bars that are returned together leave no candle out: each but the first
\* follows one that is a period older.
NoGaps ==
  \A a \in answers : \A b \in a.bars :
    \/ b.time = Min(TimesOf(a.bars))
    \/ b.time - b.period \in TimesOf(a.bars)

\* An answer that was fetched has every candle of the range that the server
\* has, except where as many later ones were returned as were wanted.
AllThatIsWanted ==
  \A a \in answers : a.outcome = "fetched" =>
    \A b \in a.had :
      b.time > a.call.params.from =>
        \/ b \in a.bars
        \/ Cardinality({c \in a.bars : c.time > b.time}) = a.call.params.countBack

\* Every call of getBars is answered, through one callback or the other, also
\* when the server fails or sends what is no list.
Answered ==
  \A n \in 1..MaxRequests :
    calls >= n ~> \E a \in answers : a.call.id = n

\* TVChartContainer resets the data when the tab was inactive for long, because
\* it is outdated: the library is then given what the server has, if that
\* answers at all.
FreshAfterReset ==
  \A a \in answers :
    a.call.reset /\ a.outcome \in {"cached", "fetched"} =>
      \A b \in a.had :
        b.time > a.call.params.from =>
          \/ b \in a.bars
          \/ Cardinality({c \in a.bars : c.time > b.time}) = a.call.params.countBack
=============================================================================
