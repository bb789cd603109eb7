SPECIFICATION Spec
CONSTANTS
  None = None
  Stores = {s1}
  Adverts = {a1}
  Items = {m1}
  ImageIds = {i1, i2}
  Paths = {p1, p2}
  Reqs = {r1, r2}
SYMMETRY Symmetry
INVARIANTS
  TypeOK
  EveryImageHasFile
  EveryFileHasImage
