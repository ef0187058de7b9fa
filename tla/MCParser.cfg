CONSTANT MTU = 60
SPECIFICATION Spec
INVARIANTS TypeOK ReadsInside VerdictRight
