SPECIFICATION Spec
CONSTANTS
  Handlers = {h1, h2, h3}
  Ids = {i1, i2}
  MaxCopies = 1
SYMMETRY Symmetry
INVARIANTS Durable NoResurrection DanglingOnlyFromDelete ListComplete ListFresh NoPhantomEvent
