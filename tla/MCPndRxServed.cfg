CONSTANTS
  Skb = {s1, s2}
  NULL = NULL
  NUM_TX_DESC = 2
  NUM_RX_DESC = 3
  NIC_NAPI_WEIGHT = 2
  PND_NAPI_WEIGHT = 2
  CPUS = 1
  StatMax = 0
  TodoFilled = TRUE
  WithTODO = FALSE
SPECIFICATION FairSpec
PROPERTY RxServed
