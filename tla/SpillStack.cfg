SPECIFICATION Spec
CONSTANTS
  Locals = {x}
  Temps = {t1, t2, t3, t4}
  ARGS = ARGS
  FRAGMENT = FRAGMENT
  MaxAlloca = 2
  MaxArgs = 2
  MaxReused = 1
INVARIANTS
  NoTrailingFragment
  AddressesStable
PROPERTY ImplementsFrame
SYMMETRY Symmetry
