\* A destroyed entity stays in the selection.
CONSTANTS
  MaxEntities = 3
  KeysDuringDrag = FALSE
SPECIFICATION Spec
CONSTRAINT SeqBound
INVARIANT
  SelectionValid
