\* Loading, using and unloading nic.ko and pnd.ko, again and again.
CONSTANTS
  Skb = {s1, s2, s3}
  NULL = NULL
  NUM_TX_DESC = 3
  NUM_RX_DESC = 2
  NIC_NAPI_WEIGHT = 2
  PND_NAPI_WEIGHT = 1
  CPUS = 2
  StatMax = 1
  TodoFilled = TRUE
  WithTODO = TRUE
SPECIFICATION VnicSpec
SYMMETRY VnicSymmetry
INVARIANTS VnicTypeOK CardReleased DriverGone StatsClearedWhenDown NoEmptyPoll PacketIsNoticed
