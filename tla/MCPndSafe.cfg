\* The card with its TODO slots filled in: safety and refinement.
CONSTANTS
  Skb = {s1, s2, s3}
  NULL = NULL
  NUM_TX_DESC = 3
  NUM_RX_DESC = 3
  NIC_NAPI_WEIGHT = 2
  PND_NAPI_WEIGHT = 2
  CPUS = 2
  StatMax = 0
  TodoFilled = TRUE
  WithTODO = FALSE
SPECIFICATION Spec
SYMMETRY SkbSymmetry
INVARIANTS TypeOK SkbOwnedOnce RingsFilled Handshake QuiescentWhenDown InterruptIsHeard NoDeafDriver
PROPERTY ImplementsLink
