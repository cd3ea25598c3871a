\* Cubes of 2 x 2 faces from one vertical-cross file per mip, one mip.
CONSTANTS
  Objects = {o1, o2}
  Kinds = {"Cube"}
  MaxNames = 3
  Sizes = {1}
  CubeSizes = {2}
  CubeMips = {1}
  Slots = {0, 1}
SPECIFICATION Spec
INVARIANT MipmapComplete
