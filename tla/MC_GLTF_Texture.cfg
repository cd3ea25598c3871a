\* Two textures, each sourcing no image or one of two images, and one
\* material whose baseColorTexture is either texture or none.
CONSTANTS
  Nodes = {0}
  Locals <- GroupElements
  MeshPrims <- TwoPrimitives
  TexIds = {0, 1}
  ImageIds = {0, 1}
  SourceChoices <- SourcesWithNone
  ParseResults = {TRUE}
SPECIFICATION Spec
INVARIANT MaterialTextureMatches
CHECK_DEADLOCK FALSE
