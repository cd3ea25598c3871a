------------------------------ MODULE PlayMode ------------------------------
(***************************************************************************)
(* The editor's play controls (the Play, Pause and Step buttons of        *)
(* Editor::DrawMenuBar and the Escape key of Editor::OnUpdate, in         *)
(* src/Editor/Source/Editor.cpp), the scene cache they save and restore   *)
(* (Editor::CacheScene, Editor::LoadCachedScene) and the pause flag of    *)
(* B2PhysicsEngine they drive.  Pressing Play in edit mode (Preview)      *)
(* serialises the scene to a temporary file; stopping deserialises it, so *)
(* that what the game did to the scene is undone.                          *)
(*                                                                         *)
(* The content of the scene is abstracted to a member of the small set    *)
(* Contents; an edit by the user, or a physics step, replaces it by        *)
(* another.  A file is the content serialised into it, or None when it    *)
(* does not exist.                                                        *)
(***************************************************************************)
EXTENDS Naturals

CONSTANT Contents   \* what a scene may hold

VARIABLES
  editorState,  \* Application's EditorState: Preview, Play, Paused or Next
  m_Paused,     \* B2PhysicsEngine::m_Paused (LumosPhysicsEngine is set alike)
  scene,        \* the content of the current scene
  tempFile,     \* <m_TempSceneSaveFilePath><scene name>.lsn
  sceneFile,    \* the project's //Scenes/<scene name>.lsn
  closing,      \* m_CurrentState = AppState::Closing
  editScene     \* the scene as it was when the editor last left Preview

vars == <<editorState, m_Paused, scene, tempFile, sceneFile, closing, editScene>>

None   == "none"
States == {"Preview", "Play", "Paused", "Next"}

Init ==
  /\ editorState = "Preview"       \* Editor::Init
  /\ m_Paused = FALSE              \* the B2PhysicsEngine constructor
  /\ scene \in Contents
  /\ tempFile \in Contents \cup {None}   \* the temporary folder outlives a session
  /\ sceneFile \in Contents \cup {None}
  /\ closing = FALSE
  /\ editScene = scene
-----------------------------------------------------------------------------
\* LoadCachedScene: deserialise the temporary file if it exists, else the
\* project's scene file if the VFS resolves it, else leave the scene.
LoadCachedScene ==
  scene' = IF tempFile # None THEN tempFile
           ELSE IF sceneFile # None THEN sceneFile ELSE scene

\* CacheScene: serialise the current scene to the temporary file.
CacheScene == tempFile' = scene

\* DrawMenuBar first turns a finished single step (Next) into Paused; the
\* buttons drawn after it see that state.
Shown == IF editorState = "Next" THEN "Paused" ELSE editorState

\* The Play button: in Play it stops (pause physics, back to Preview,
\* reload the cache); in any other state it starts (unpause physics,
\* Play, cache the scene).  Either way it clears the selection, which
\* no property here reads.
PlayButton ==
  LET selected == Shown = "Play" IN
  /\ ~closing
  /\ m_Paused' = selected
  /\ editorState' = IF selected THEN "Preview" ELSE "Play"
  /\ IF selected THEN LoadCachedScene /\ UNCHANGED tempFile
                 ELSE CacheScene /\ UNCHANGED scene
  /\ UNCHANGED <<sceneFile, closing>>

\* The Pause button toggles between Paused and Play; it touches neither
\* the physics pause flag nor the cache.
PauseButton ==
  /\ ~closing
  /\ editorState' = IF Shown = "Paused" THEN "Play" ELSE "Paused"
  /\ UNCHANGED <<m_Paused, scene, tempFile, sceneFile, closing>>

\* The Step button: Next, which the next frame's DrawMenuBar makes Paused.
StepButton ==
  /\ ~closing
  /\ editorState' = "Next"
  /\ UNCHANGED <<m_Paused, scene, tempFile, sceneFile, closing>>

\* A frame whose menu bar has no click still turns Next into Paused.
MenuBarFrame ==
  /\ ~closing /\ editorState = "Next"
  /\ editorState' = "Paused"
  /\ UNCHANGED <<m_Paused, scene, tempFile, sceneFile, closing>>

\* Escape in OnUpdate: in Preview it closes the application; otherwise
\* it pauses physics, returns to Preview, clears the selection and
\* reloads the cached scene.
Escape ==
  /\ ~closing
  /\ IF editorState = "Preview"
       THEN /\ closing' = TRUE
            /\ UNCHANGED <<editorState, m_Paused, scene>>
       ELSE /\ m_Paused' = TRUE
            /\ editorState' = "Preview"
            /\ LoadCachedScene
            /\ UNCHANGED closing
  /\ UNCHANGED <<tempFile, sceneFile>>

\* Ctrl+S serialises the current scene to the project's scene folder.
SaveScene ==
  /\ ~closing
  /\ sceneFile' = scene
  /\ UNCHANGED <<editorState, m_Paused, scene, tempFile, closing>>

\* Ctrl+O deserialises the scene from the project's scene folder.
OpenScene ==
  /\ ~closing
  /\ scene' = IF sceneFile # None THEN sceneFile ELSE scene
  /\ UNCHANGED <<editorState, m_Paused, tempFile, sceneFile, closing>>

\* The Paused checkbox of B2PhysicsEngine::OnImGui.
TogglePhysics ==
  /\ ~closing
  /\ m_Paused' = ~m_Paused
  /\ UNCHANGED <<editorState, scene, tempFile, sceneFile, closing>>

\* B2PhysicsEngine::OnUpdate steps the world unless paused, and
\* SyncTransforms writes the bodies into the scene's transforms.
PhysicsStep ==
  /\ ~closing /\ ~m_Paused
  /\ scene' \in Contents \ {scene}
  /\ UNCHANGED <<editorState, m_Paused, tempFile, sceneFile, closing>>

\* Any editing handler of the Hierarchy panel or the gizmo (modules Editor
\* and Gizmo) changes the scene; they are enabled in every state.
EditScene ==
  /\ ~closing
  /\ scene' \in Contents \ {scene}
  /\ UNCHANGED <<editorState, m_Paused, tempFile, sceneFile, closing>>

\* editScene follows the scene while the editor is in Preview and keeps
\* it once the editor leaves Preview.
TrackEditScene ==
  editScene' = IF editorState = "Preview" /\ editorState' # "Preview"
                 THEN scene ELSE editScene

Next ==
  /\ \/ PlayButton \/ PauseButton \/ StepButton \/ MenuBarFrame \/ Escape
     \/ SaveScene \/ OpenScene \/ TogglePhysics \/ PhysicsStep \/ EditScene
  /\ TrackEditScene

\* The application closes after Escape in Preview.
Spec == Init /\ [][Next]_vars
-----------------------------------------------------------------------------
TypeOK ==
  /\ editorState \in States
  /\ m_Paused \in BOOLEAN
  /\ {scene, editScene} \subseteq Contents
  /\ {tempFile, sceneFile} \subseteq Contents \cup {None}

\* Returning to Preview, by the Play button or by Escape, restores the
\* scene the editor had when it left Preview, whatever play did to it.
StopRestoresEdit ==
  [][editorState # "Preview" /\ editorState' = "Preview" => scene' = editScene]_vars

=============================================================================
