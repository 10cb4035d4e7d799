SPECIFICATION Spec
CONSTANTS
  o1 = o1  o2 = o2
  AmountsIn = {10}
  Rates <- MCRates
  MaxSqrtPrice = 7
  LowerTick = 1
  UpperTick = 3
  YPerX <- MCYPerX
  Deviation = 1
  Shortfall = 2
  Outs <- MCOuts
  FirstPositions <- MCFirstPositions
  ZapFees = {10, 15}
  MaxPositions = 3
INVARIANTS TypeOK SpendsWhatIsGiven StatusTellsRange SplitUnlessMoved ZapsOutItsOwn
SYMMETRY OutsAlike
CHECK_DEADLOCK FALSE
