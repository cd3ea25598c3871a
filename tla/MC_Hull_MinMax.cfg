\* The support-vertex query over every placement of up to four vertices on
\* a 3 x 3 grid, for both axes and both diagonals.
\* Construction stops once the bounds are reached, so deadlock is not checked.
CONSTANTS
  MaxVertices = 4
  MaxFaces = 0
  FaceSizes = {3}
  FltMax = 100
  Positions <- Grid
  Axes <- TestAxes
SPECIFICATION Spec
INVARIANTS
  MinMaxExtremal
CHECK_DEADLOCK FALSE
