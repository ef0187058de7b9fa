CONSTANTS
  Skb = {s1, s2, s3}
  NULL = NULL
  MaxSent = 6
  TodoFilled = TRUE
SPECIFICATION FairSpec
INVARIANTS TypeOK PacketHeldOnce StoredPacketIsPolled NothingLeftBehind PacketsCounted EmptyPollsPaid
PROPERTIES PacketsSettle CallsReturn
