SPECIFICATION Spec
CONSTANTS
  Workers = {w1, w2}
  Poses = {p1, p2}
  None = None
  MaxStep = 1
  MaxSession = 2
SYMMETRY Symmetry
INVARIANTS TypeOK ProcessedIsPredicted NoLateSteal
