SPECIFICATION Spec
CONSTANTS
  Files = {f, g}
  max_size = 7
  MaxNumber = 2
SYMMETRY Symmetry
INVARIANTS
  PopsWhatItRead
CHECK_DEADLOCK FALSE
