SPECIFICATION Spec
CONSTANTS
  Name = {f, g}
  Fd = {d1}
  Data = {x}
  Zero = x
  Junk = Junk
  Hnd = {h1, h2, h3}
  Space = 4
  Chunk = 2
  Sizes = {0, 1, 3}
  MaxFails = 1
  None = None
  Null = Null
INVARIANTS TypeOK HandlesReturned
PROPERTIES IsFiles
SYMMETRY Symmetric
