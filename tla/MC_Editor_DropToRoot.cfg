\* Dropping an entity with children on the empty area.
CONSTANTS
  MaxEntities = 3
  KeysDuringDrag = FALSE
SPECIFICATION Spec
CONSTRAINT SeqBound
PROPERTY
  DropToRootKeepsChildren
