SPECIFICATION Spec
CONSTANTS
  Vnode = {v1, v2, v3, v4}
  Id = {i1, i2, i3, i4}
  Name = {a, b}
  NoVnode = NoVnode
  NoId = NoId
  NoName = NoName
  MaxVfsRef = 1
  MemoryMayFail = TRUE
SYMMETRY Symmetry
CONSTRAINT Shape
CHECK_DEADLOCK FALSE
INVARIANT UnmountFreesAll
PROPERTY DirsLeaveEmpty
PROPERTY AbortOnlyInMount
