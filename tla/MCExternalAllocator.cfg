SPECIFICATION Spec
CONSTANTS
  Base = 1
  Size = 7
  Sizes = {1, 2, 3}
  Aligns = {2, 4}
INVARIANT TypeOK
INVARIANT Tiled
INVARIANT SizeMapExact
INVARIANT Coalesced
PROPERTY ImplementsPool
