\* Selection clicks in the scene view among the panel's handlers.
CONSTANTS
  MaxEntities = 3
  KeysDuringDrag = FALSE
SPECIFICATION Spec
CONSTRAINT SeqBound
PROPERTY CtrlClickDeselects
