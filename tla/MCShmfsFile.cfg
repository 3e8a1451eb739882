SPECIFICATION Spec
CONSTANTS
  PageSize = 2
  MaxSize = 3
  OffMod = 16
  Position = {0, 1, 2}
  Length = {0, 2}
  Datum = {x, y}
  Zero = Zero
  Junk = Junk
  NotRead = NotRead
  Absent = Absent
  Cookie = {c}
  MaxFaults = 1
  MayFail = TRUE
  FaultsInWrites = FALSE
  BufferMapped = FALSE
INVARIANTS TypeOK WrittenSurvives PagesAccounted
PROPERTIES BusyExclusive CallsEnd
