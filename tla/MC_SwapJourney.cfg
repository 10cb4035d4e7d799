SPECIFICATION Spec
CONSTANTS
  HubChains = {"cosmoshub-4"}
  EvmChains = {"0x38", "0x2b6653dc", "0x1ae6"}
  PrefixChains = {"0x38", "0x2b6653dc"}
  Base58Chains = {"0x2b6653dc"}
  Retries = 2
  Requests <- MCRequests
INVARIANTS
  TypeOK
  OwnerSafe
  NeverToNobody
  RouteOrder
  EndToEnd
  RecipientPaidLast
PROPERTIES
  KeepsCustody
CHECK_DEADLOCK FALSE
