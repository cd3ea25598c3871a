\* Every kind of paste, after a Cut or a Copy, from every reachable scene.
CONSTANTS
  MaxEntities = 3
  KeysDuringDrag = FALSE
SPECIFICATION Spec
CONSTRAINT SeqBound
PROPERTY
  PasteMovesCutOnly
