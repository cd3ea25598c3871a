\* Structure of the entity forest under every interleaving of the panel's
\* and the Edit menu's handlers, three identifiers, no shortcut mid-drag.
CONSTANTS
  MaxEntities = 3
  KeysDuringDrag = FALSE
SPECIFICATION Spec
CONSTRAINT SeqBound
INVARIANTS
  HierarchyWellFormed
  Acyclic
PROPERTY
  DeleteRemovesSubtree
