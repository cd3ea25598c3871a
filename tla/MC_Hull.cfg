\* Hull topology: up to four vertices and three triangular faces,
\* added in every order.
\* Construction stops once the bounds are reached, so deadlock is not checked.
CONSTANTS
  MaxVertices = 4
  MaxFaces = 3
  FaceSizes = {3}
  FltMax = 100
  Positions <- OriginOnly
  Axes <- TestAxes
SPECIFICATION Spec
INVARIANTS
  TypeOK
  EdgesUnique
  AdjacencyExact
  IncidenceConsistent
CHECK_DEADLOCK FALSE
