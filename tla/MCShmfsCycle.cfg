SPECIFICATION Spec
CONSTANTS
  Vnode = {v1, v2, v3}
  Id = {i1, i2, i3}
  Name = {a, b}
  NoVnode = NoVnode
  NoId = NoId
  NoName = NoName
  MaxVfsRef = 1
  MemoryMayFail = FALSE
SYMMETRY Symmetry
CHECK_DEADLOCK FALSE
INVARIANT UnmountLeavesNothing
