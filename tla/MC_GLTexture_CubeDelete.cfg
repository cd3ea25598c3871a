\* A cube of 2 x 2 faces from GLTextureCube(size, ...) has m_NumMips = 2.
CONSTANTS
  Objects = {o1, o2}
  Kinds = {"2D", "Cube"}
  MaxNames = 3
  Sizes = {1}
  CubeSizes = {2}
  CubeMips = {1}
  Slots = {0, 1}
SPECIFICATION Spec
INVARIANT GLNamesOwned
