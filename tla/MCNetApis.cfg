\* Three net_ops on two interfaces, two of them in a call at once.
CONSTANTS
  Proc = {p1, p2, p3}
  If = {i1, i2}
  Name = {eth0, eth1, eth2}
  Asked = {UP}
  Other = {NOARP}
  UP = UP
  Cfg = {c1, c2}
  NONE = NONE
SPECIFICATION Spec
SYMMETRY Symmetric
CONSTRAINT TwoAtOnce
INVARIANTS TypeOK DescriptorsReturned
PROPERTIES PairTornByRace OnlyOthersDisturb OnlyAskedFlags
