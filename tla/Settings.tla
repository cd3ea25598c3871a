------------------------------ MODULE Settings ------------------------------
(***************************************************************************)
(* The editor's settings file, Editor.ini, as src/Editor/Source/Editor.cpp *)
(* writes and reads it: the list of recent projects (m_RecentProjects) and *)
(* the current project (ProjectRoot and ProjectName), across runs of the   *)
(* editor.  Editor::Init loads the file, or writes a default one when none *)
(* exists; SaveEditorSettings rewrites it from memory, on quit and from    *)
(* the autosave timer of OnUpdate.  A crash ends a run without saving.     *)
(*                                                                         *)
(* A project is identified by its .lmproj path, abstracted to a member of  *)
(* the ordered set Projects; exists is the set of those paths that         *)
(* FileSystem::FileExists finds, which the user may change between steps.  *)
(* The other settings (grid, gizmos, theme, camera) are written and read   *)
(* back alike and are left out.                                            *)
(***************************************************************************)
EXTENDS Naturals, SequencesExt

CONSTANTS
  Projects,         \* .lmproj paths, a finite set of naturals (ordered like std::sort)
  Example,          \* "../../ExampleProject/Example.lmproj", the default project
  AutoSaveEnabled,  \* m_AutoSaveSettingsTime > 0 (declared in Editor.h)
  MaxStarts,        \* bound on the number of runs of the editor
  SaveAfter,        \* m_AutoSaveSettingsTime, in frames
  None              \* no file; no project while the editor is not running

ASSUME Example \in Projects /\ None \notin Projects

VARIABLES
  running,  \* the editor process is alive
  recent,   \* m_Settings.m_RecentProjects
  current,  \* the project m_ProjectSettings names
  file,     \* Editor.ini on disk: None, or what the last Rewrite wrote
  exists,   \* the .lmproj paths FileSystem::FileExists finds
  starts,   \* runs of the editor so far
  timer,    \* the static autoSaveTimer of OnUpdate, in frames, capped at SaveAfter + 1
  playing   \* m_EditorState = EditorState::Play

vars == <<running, recent, current, file, exists, starts, timer, playing>>

Files == [recent : Seq(Projects), project : Projects]

\* A push_back without the std::find that guards it.
AddIfExistsNoFind(r, p, ex) == IF p \in ex THEN Append(r, p) ELSE r

\* The find-then-push_back both loaders and ProjectOpenCallback use.
AddIfExists(r, p, ex) == IF p \in ex /\ p \notin ToSet(r) THEN Append(r, p) ELSE r

\* std::sort followed by erase(std::unique(...)).
SortUnique(r) == SetToSortSeq(ToSet(r), <)

\* A loader whose loop stops one entry early (i < count - 1).
LoadEditorSettingsShort(f, ex) ==
  LET withCurrent == AddIfExists(<<>>, f.project, ex)
      read == SubSeq(f.recent, 1, Len(f.recent) - 1)
  IN SortUnique(FoldLeft(LAMBDA r, p : AddIfExists(r, p, ex), withCurrent, read))

\* LoadEditorSettings on a fresh process: the project named by ProjectRoot
\* and ProjectName first, then RecentProject0 .. RecentProject<count - 1>,
\* each kept if the file exists and is not listed yet; sort and unique.
LoadEditorSettings(f, ex) ==
  LET withCurrent == AddIfExists(<<>>, f.project, ex)
  IN SortUnique(FoldLeft(LAMBDA r, p : AddIfExists(r, p, ex), withCurrent, f.recent))

\* SaveEditorSettings: sort and unique the recent projects in memory, then
\* RemoveAll, write every key and Rewrite the file.
Written(r, c) == [recent |-> SortUnique(r), project |-> c]

\* A save that writes RecentProjectCount = 0 and no RecentProject keys.
SaveWithoutRecents ==
  /\ recent' = SortUnique(recent)
  /\ file' = [recent |-> <<>>, project |-> current]

SaveEditorSettings ==
  /\ recent' = SortUnique(recent)
  /\ file' = Written(recent, current)

\* The files an earlier run may have left: a sorted list without repeats.
SavedFiles ==
  {[recent |-> SetToSortSeq(S, <), project |-> c] : S \in SUBSET Projects, c \in Projects}
-----------------------------------------------------------------------------
Init ==
  /\ running = FALSE
  /\ recent = <<>>
  /\ current = None
  /\ file \in SavedFiles \cup {None}
  /\ exists \in SUBSET Projects
  /\ starts = 0
  /\ timer = 0
  /\ playing = FALSE

\* AddDefaultEditorSettings: the example project and no recent projects.
AddDefaultEditorSettings == [recent |-> <<>>, project |-> Example]

\* Editor::Init: load Editor.ini if it exists; otherwise create it with
\* AddDefaultEditorSettings, which names the example project and writes
\* RecentProjectCount = 0.
Start ==
  /\ ~running /\ starts < MaxStarts
  /\ running' = TRUE
  /\ starts' = starts + 1
  /\ IF file # None
       THEN /\ current' = file.project
            /\ recent' = LoadEditorSettings(file, exists)
            /\ UNCHANGED file
       ELSE /\ current' = Example
            /\ recent' = <<>>
            /\ file' = AddDefaultEditorSettings
  /\ timer' = 0 /\ playing' = FALSE
  /\ UNCHANGED exists

\* ProjectOpenCallback: list the chosen path if it exists, then
\* Application::OpenProject makes it the current project.
ProjectOpenCallback(p) ==
  /\ running
  /\ recent' = AddIfExists(recent, p, exists)
  /\ current' = p
  /\ UNCHANGED <<running, file, exists, starts, timer, playing>>

\* NewProjectOpenCallback: Application::OpenNewProject creates the project
\* and makes it current; the recent list is not touched.
NewProjectOpenCallback(p) ==
  /\ running
  /\ current' = p
  /\ exists' = exists \cup {p}
  /\ UNCHANGED <<running, recent, file, starts, timer, playing>>

\* File > Open Recent Project: open one of the listed projects.
OpenRecentProject(p) ==
  /\ running /\ p \in ToSet(recent)
  /\ current' = p
  /\ UNCHANGED <<running, recent, file, exists, starts, timer, playing>>

\* Editor::OnUpdate, one frame: when autosave is on and the timer has
\* passed m_AutoSaveSettingsTime, save and reset it; then advance it by
\* the frame time; in Play the timer is reset to 0 after all of this.
OnUpdate ==
  /\ running
  /\ LET saves   == AutoSaveEnabled /\ timer > SaveAfter
          reset   == IF saves THEN 0 ELSE timer
          advance == IF AutoSaveEnabled THEN Min({reset + 1, SaveAfter + 1}) ELSE reset
     IN /\ IF saves THEN SaveEditorSettings ELSE UNCHANGED <<recent, file>>
        /\ timer' = IF playing THEN 0 ELSE advance
  /\ UNCHANGED <<running, current, exists, starts, playing>>

\* The Play button of the toolbar: SetEditorState(Play).
EnterPlay ==
  /\ running /\ ~playing
  /\ playing' = TRUE
  /\ UNCHANGED <<running, recent, current, file, exists, starts, timer>>

\* The Play button again, Escape or Pause: SetEditorState(Preview or Paused).
LeavePlay ==
  /\ running /\ playing
  /\ playing' = FALSE
  /\ UNCHANGED <<running, recent, current, file, exists, starts, timer>>

\* Editor::OnQuit saves the settings before the application ends.
OnQuit ==
  /\ running
  /\ file' = Written(recent, current)
  /\ running' = FALSE /\ recent' = <<>> /\ current' = None
  /\ UNCHANGED <<exists, starts, timer, playing>>

\* The process dies without OnQuit; its memory is lost, the file stays.
Crash ==
  /\ running
  /\ running' = FALSE /\ recent' = <<>> /\ current' = None
  /\ UNCHANGED <<file, exists, starts, timer, playing>>

\* A project file is deleted outside the editor.
DeleteProject(p) ==
  /\ p \in exists
  /\ exists' = exists \ {p}
  /\ UNCHANGED <<running, recent, current, file, starts, timer, playing>>

Next ==
  \/ Start \/ OnUpdate \/ EnterPlay \/ LeavePlay \/ OnQuit \/ Crash
  \/ \E p \in Projects :
       \/ ProjectOpenCallback(p) \/ NewProjectOpenCallback(p)
       \/ OpenRecentProject(p) \/ DeleteProject(p)

\* The frame loop of Application::Run calls OnUpdate every frame as long
\* as the editor runs; whether the user ever leaves Play is not assumed.
Spec == Init /\ [][Next]_vars /\ WF_vars(OnUpdate)
-----------------------------------------------------------------------------
TypeOK ==
  /\ running \in BOOLEAN
  /\ recent \in Seq(Projects) /\ IsInjective(recent)
  /\ current \in Projects \cup {None}
  /\ file \in Files \cup {None}
  /\ exists \subseteq Projects
  /\ starts \in 0..MaxStarts
  /\ timer \in 0..SaveAfter + 1
  /\ playing \in BOOLEAN

\* A restart restores exactly the saved recent projects and the saved
\* current project whose files still exist: the count and the numbered
\* keys SaveEditorSettings writes are the ones LoadEditorSettings reads.
RestartRestoresRecents ==
  [][~running /\ running' /\ file # None =>
       ToSet(recent') = {p \in ToSet(file.recent) \cup {file.project} : p \in exists}]_vars

\* A project listed in the recent projects of a running editor reaches
\* Editor.ini, through the autosave timer of OnUpdate or OnQuit, unless
\* the editor crashes first, provided the user eventually stays out of
\* Play: OnUpdate resets the timer every frame in Play, so a session that
\* keeps returning to Play may never autosave.
RecentEventuallySaved ==
  <>[](~playing) =>
    \A p \in Projects :
      (running /\ p \in ToSet(recent)) ~>
        (~running \/ (file # None /\ p \in ToSet(file.recent)))
=============================================================================
