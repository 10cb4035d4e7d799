SPECIFICATION Spec
CONSTANTS
  s1 = s1  s2 = s2  eth = eth  usdt = usdt  erc = erc  trc = trc
  Swaps <- MCSwaps
  Assets <- MCAssets
  NativeAssets <- MCNative
  UsdtErc20 <- MCUsdt
  TronAssets <- MCTron
  Requests <- MCRequests
  FirstAllowances <- MCRouterAllowances
  FirstBalances <- MCBalances
  MaxAmount = 2
  MaxTime = 20
  UNISWAP_ROUTER_DEADLINE = 15000
INVARIANTS TypeOK DepositCovered UsdtNeverRefuses TellsTheTruth NoStandingAllowance
CHECK_DEADLOCK FALSE
