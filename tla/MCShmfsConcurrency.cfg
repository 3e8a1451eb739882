SPECIFICATION Spec
CONSTANTS
  Thread = {t1, t2}
  Vnode = {v1, v2, v3}
  Root = Root
  Id = {i1, i2, i3}
  Name = {n1}
  Null = Null
  Nobody = Nobody
  Absent = Absent
  MaxVfsRef = 2
  VfsGivesUp = TRUE
  CreateInRemoved = TRUE
  SetupFails = FALSE
SYMMETRY Symmetry
VIEW WithoutHistory
INVARIANTS TypeOK CountsExact NumbersLive NoWaitForDestructor
CONSTRAINTS NobodyResurrected FewReferences
