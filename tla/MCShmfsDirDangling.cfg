SPECIFICATION Spec
CONSTANTS
  Vnode = {v1, v2, v3}
  Name = {2, 3, 4}
  Iter = {i1, i2}
  NoVnode = NoVnode
  NoIter = NoIter
SYMMETRY Symmetry
INVARIANT NoDangling
