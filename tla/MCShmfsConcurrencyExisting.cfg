SPECIFICATION Spec
CONSTANTS
  Thread = {t1}
  Vnode = {v1}
  Root = Root
  Id = {i1}
  Name = {n1}
  Null = Null
  Nobody = Nobody
  Absent = Absent
  MaxVfsRef = 2
  VfsGivesUp = TRUE
  CreateInRemoved = FALSE
  SetupFails = FALSE
INVARIANT CallersCounted
