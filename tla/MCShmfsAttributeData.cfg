SPECIFICATION Spec
CONSTANTS
  Null = Null
  Free = Free
  Idle = Idle
  Zero = Zero
  Junk = Junk
  Addr = {a1, a2}
  Thread = {t1, t2}
  WordMod = 16
  OffMod = 32
  Position = {0, 2}
  Length = {0, 2}
  Size = {1, 11}
  Datum = {x}
SYMMETRY Symmetry
INVARIANTS TypeOK BuffersOwned
PROPERTY ImplementsByteArray
