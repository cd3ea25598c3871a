\* Three scene contents: the edited scene, what play made of it, and an
\* older content left in a file.
CONSTANT Contents = {s1, s2, s3}
SPECIFICATION Spec
PROPERTY StopRestoresEdit
CHECK_DEADLOCK FALSE
