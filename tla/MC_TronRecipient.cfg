SPECIFICATION Spec
CONSTANTS
  HubChains = {}
  EvmChains = {"0x2b6653dc"}
  PrefixChains = {"0x2b6653dc"}
  Base58Chains = {"0x2b6653dc"}
  Retries = 2
  Requests <- TronRequests
INVARIANTS
  EvmReceiverIsHex
CHECK_DEADLOCK FALSE
