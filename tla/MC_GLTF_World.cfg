\* Every forest of three nodes, each node's local matrix the identity, a
\* rotation or a reflection of the permutation group S3, and each with or
\* without a two-primitive mesh.  One texture sourcing one image.  The
\* file parses.  Loading stops once LoadGLTF returns, so deadlock is not
\* checked.
CONSTANTS
  Nodes = {0, 1, 2}
  Locals <- GroupElements
  MeshPrims <- TwoPrimitives
  TexIds = {0}
  ImageIds = {0}
  SourceChoices = {0}
  ParseResults = {TRUE}
SPECIFICATION Spec
INVARIANT MeshWorldMatrix
CHECK_DEADLOCK FALSE
