\* Ctrl+V while an entity is being dragged, then the drop.
CONSTANTS
  MaxEntities = 3
  KeysDuringDrag = TRUE
SPECIFICATION Spec
CONSTRAINT SeqBound
INVARIANT
  HierarchyWellFormed
