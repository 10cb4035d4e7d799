SPECIFICATION RemoteSpec
CONSTANTS
  s1 = s1  s2 = s2  alice = alice  other = other
  Swaps = {s1}
  Requests <- MCToRecipient
  Accounts = {alice}
  Sender = alice
  Rates = {5}
  FirstOwn = {10}
  FirstChannel = {50}
  MaxChanges = 0
  MaxSwitches = 0
  MaxTime = 0
  IBC_TRANSFER_TIMEOUT = 1
  AFFILIATE_DECIMAL = 10000
  BridgeFee = 10
  OraiPrices = {3}
INVARIANT RecipientIsPaid
CHECK_DEADLOCK FALSE
