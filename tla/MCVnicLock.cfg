\* nic.ko initialises its lock after registering the interface.
CONSTANTS
  Skb = {s1, s2}
  NULL = NULL
  NUM_TX_DESC = 2
  NUM_RX_DESC = 2
  NIC_NAPI_WEIGHT = 2
  PND_NAPI_WEIGHT = 1
  CPUS = 1
  StatMax = 0
  TodoFilled = TRUE
  WithTODO = FALSE
SPECIFICATION VnicSpec
PROPERTY LockProtects
