\* Editor.ini across three runs of the editor, three project paths (1 is
\* the example project), autosave on.  Every run may end by quitting or by
\* a crash; after the last run the editor stays closed, so deadlock is not
\* checked.
CONSTANTS
  Projects = {1, 2, 3}
  Example = 1
  AutoSaveEnabled = TRUE
  MaxStarts = 3
  SaveAfter = 2
  None = None
SPECIFICATION Spec
INVARIANT
  TypeOK
PROPERTIES
  RestartRestoresRecents
  RecentEventuallySaved
CHECK_DEADLOCK FALSE
