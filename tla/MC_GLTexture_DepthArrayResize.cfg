\* Depth-array textures only, resized while another one is bound.
CONSTANTS
  Objects = {o1, o2}
  Kinds = {"DepthArray"}
  MaxNames = 3
  Sizes = {1, 2}
  CubeSizes = {1}
  CubeMips = {1}
  Slots = {0, 1}
SPECIFICATION Spec
INVARIANT StorageMatches
