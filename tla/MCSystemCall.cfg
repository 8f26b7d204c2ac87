SPECIFICATION GateSpec
CONSTANTS
  p1 = p1
  p2 = p2
  Callers <- MCCallers
  ZERO = ZERO
SYMMETRY MCSymmetry
INVARIANTS
  ResultIsOwn
