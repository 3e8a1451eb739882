SPECIFICATION Spec
CONSTANTS
  File = {f1, f2}
  Attr = {a1, a2, a3}
  Name = {1, 2}
  Handle = {h1, h2}
  Iter = {i1, i2}
  NoAttr = NoAttr
  MemoryMayFail = TRUE
  SelfRename = FALSE
SYMMETRY Symmetry
INVARIANTS TypeOK AttrRefsExact AttrsOneTree AttrItersLive
PROPERTY NoAttrLost
