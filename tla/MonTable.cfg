\* Six objects over blocks of two: up to three blocks, holes in each of them.
CONSTANTS
  Objects = {a, b, c, d, e, f}
  NoObject = NoObject
  BlockSize = 2
  MaxBlocks = 3
  MaxUse = 1
SPECIFICATION Spec
INVARIANTS
  TypeOK
  BlocksAreFull
  OneMonitorEach
PROPERTIES
  TableIsMap
SYMMETRY LockSymmetry
