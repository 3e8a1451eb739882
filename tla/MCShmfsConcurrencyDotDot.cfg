SPECIFICATION Spec
CONSTANTS
  Thread = {t1, t2}
  Vnode = {v1, v2}
  Root = Root
  Id = {i1, i2}
  Name = {n1}
  Null = Null
  Nobody = Nobody
  Absent = Absent
  MaxVfsRef = 2
  VfsGivesUp = TRUE
  CreateInRemoved = FALSE
  SetupFails = FALSE
INVARIANT DotsDoNotWait
