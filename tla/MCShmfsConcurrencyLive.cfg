SPECIFICATION Spec
CONSTANTS
  Thread = {t1, t2}
  Vnode = {v1, v2}
  Root = Root
  Id = {i1, i2}
  Name = {n1}
  Null = Null
  Nobody = Nobody
  Absent = Absent
  MaxVfsRef = 1
  VfsGivesUp = TRUE
  CreateInRemoved = FALSE
  SetupFails = TRUE
PROPERTIES HooksReturn NoResurrection ImplementsNamespace
CHECK_DEADLOCK FALSE
