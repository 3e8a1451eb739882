SPECIFICATION Spec
CONSTANTS
  Null = Null
  Free = Free
  Idle = Idle
  Zero = Zero
  Junk = Junk
  Addr = {a1, a2, a3}
  Thread = {t1}
  WordMod = 8
  OffMod = 64
  Position = {0, 5}
  Length = {1, 2}
  Size = {0, 1}
  Datum = {x}
INVARIANT MemorySafe
