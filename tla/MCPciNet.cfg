CONSTANTS
  Dev = {d1, d2, d3}
SPECIFICATION FairSpec
INVARIANTS TypeOK NothingHeldUnbound ResourcesNested UpOnlyOnDevice DrvdataFits
PROPERTY ExitReturns
