\* 2D textures only, from files that may fail to load, and resized.
CONSTANTS
  Objects = {o1, o2}
  Kinds = {"2D"}
  MaxNames = 3
  Sizes = {1, 2}
  CubeSizes = {1}
  CubeMips = {1}
  Slots = {0, 1}
SPECIFICATION Spec
INVARIANT MipLevelsMatchSize
