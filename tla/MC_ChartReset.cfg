SPECIFICATION Spec
CONSTANTS
  Tickers <- MCTickers
  Periods = {1}
  Histories <- MCHistories
  PeriodParams <- MCPeriodParams
  MaxTime = 3
  MaxRequests = 2
INVARIANTS FreshAfterReset
CHECK_DEADLOCK FALSE
