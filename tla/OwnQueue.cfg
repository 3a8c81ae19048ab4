SPECIFICATION Spec
CONSTANTS
  Files = {f, g}
  max_size = 7
  MaxNumber = 4
SYMMETRY Symmetry
INVARIANTS
  TypeOK
  TreatedInOrder
  DisplacedByOtherFile
  NothingRefused
CHECK_DEADLOCK FALSE
