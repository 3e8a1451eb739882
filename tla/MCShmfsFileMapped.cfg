SPECIFICATION Spec
CONSTANTS
  PageSize = 2
  MaxSize = 3
  OffMod = 16
  Position = {0, 1, 2, 3}
  Length = {0, 1, 2, 3}
  Datum = {x}
  Zero = Zero
  Junk = Junk
  NotRead = NotRead
  Absent = Absent
  Cookie = {c}
  MaxFaults = 2
  MayFail = FALSE
  FaultsInWrites = TRUE
  BufferMapped = FALSE
PROPERTY InsertsIntoHoles
