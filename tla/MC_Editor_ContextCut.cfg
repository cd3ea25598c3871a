\* Cut from a node's context menu.
CONSTANTS
  MaxEntities = 3
  KeysDuringDrag = FALSE
SPECIFICATION Spec
CONSTRAINT SeqBound
PROPERTY
  ContextCutTakesSelection
