SPECIFICATION MCSpec
CONSTANTS
  s1 = s1  s2 = s2  alice = alice  other = other
  Swaps <- MCSwaps
  Requests <- MCRequests
  Accounts <- MCAccounts
  Sender = alice
  Rates = {2, 4, 5}
  FirstOwn = {10}
  FirstChannel = {50}
  MaxChanges = 1
  MaxSwitches = 1
  MaxTime = 0
  IBC_TRANSFER_TIMEOUT = 1
  AFFILIATE_DECIMAL = 10000
  BridgeFee = 10
  OraiPrices = {3}
INVARIANTS TypeOK RemoteTypeOK AgreedOrBack ShortfallWithinSlippage PaidToOwnAccount
PROPERTIES Settles
CHECK_DEADLOCK FALSE
