\* Two entities (a parent and a child, two roots), translations mod 3,
\* every choice of live, rigid and selected entities, paused or not, and
\* two contact listeners.
CONSTANTS
  Entities = {1, 2}
  K = 3
  Listeners = {l1, l2}
SPECIFICATION Spec
PROPERTY MultiDragMovesByDelta
