SPECIFICATION Spec
CONSTANTS
  PageSize = 1
  MaxSize = 2
  OffMod = 16
  Position = {0, 1}
  Length = {1, 2}
  Datum = {x}
  Zero = Zero
  Junk = Junk
  NotRead = NotRead
  Absent = Absent
  Cookie = {c}
  MaxFaults = 0
  MayFail = FALSE
  FaultsInWrites = FALSE
  BufferMapped = TRUE
PROPERTY CallsEnd
CHECK_DEADLOCK FALSE
