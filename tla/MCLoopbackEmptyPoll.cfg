CONSTANTS
  Skb = {s1, s2, s3}
  NULL = NULL
  MaxSent = 3
  TodoFilled = TRUE
SPECIFICATION Spec
SYMMETRY SkbSymmetry
INVARIANT NoEmptyPoll
