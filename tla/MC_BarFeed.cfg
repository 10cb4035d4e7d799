SPECIFICATION Spec
CONSTANTS
  Tickers <- MCTickers
  Periods = {1, 2}
  Histories <- MCHistories
  PeriodParams <- MCPeriodParams
  MaxTime = 3
  MaxRequests = 3
INVARIANTS TypeOK OwnSeries NoGaps AllThatIsWanted
PROPERTIES Answered
CHECK_DEADLOCK FALSE
