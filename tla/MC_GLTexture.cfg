\* Two texture objects of every class, three GL names, sizes 1 and 2 (a
\* one- and a two-level chain), two texture units.  Cubes have 1 x 1
\* faces and one mip, the one case in which the cube destructor deletes
\* exactly its own name (see MC_GLTexture_CubeDelete.cfg for the others).
CONSTANTS
  Objects = {o1, o2}
  Kinds = {"2D", "Cube", "Depth", "DepthArray"}
  MaxNames = 3
  Sizes = {1, 2}
  CubeSizes = {1}
  CubeMips = {1}
  Slots = {0, 1}
SPECIFICATION Spec
INVARIANT GLNamesOwned
