# TLA+ models of the Lumos editor and engine glue

These modules model the parts of Lumos under `src/` that have state worth
model checking:

- the editor's structural editing of a scene: the Hierarchy panel
  (`src/Editor/Source/HierarchyPanel.cpp`), the Edit menu, shortcuts and
  viewport picking (`src/Editor/Source/Editor.cpp`);
- the editor's transform gizmo, together with the Box2D wrapper that
  writes rigid bodies back into transforms;
- the loaders and GPU resource code: environment maps, OpenGL textures,
  the glTF loader and the Vulkan deletion queue;
- the convex hull topology of the physics engine;
- the editor's play controls (Play, Pause, Step, Escape) and the scene
  cache they save and restore;
- the editor's settings file, `Editor.ini`, across runs of the editor
  that end by quitting or by a crash.

The editor acts on the scene graph core, whose code is not under `src/`,
so that core is modelled from `spec.md`.

## The system and how its parts interact

| Part | Source | State | Module |
|---|---|---|---|
| Scene graph core | not under `src/` (spec.md §3, §4) | the registry's valid entities, their components and the intrusive `Hierarchy` links | `Scene` |
| Hierarchy panel | HierarchyPanel.cpp | none of its own: it writes the registry, the selection and the clipboard | `Editor` |
| Editor | Editor.cpp | `m_SelectedEntities`, `m_CopiedEntities`, `m_CutCopyEntity` | `Editor`, `Gizmo` |
| Editor play controls | Editor.cpp, B2PhysicsEngine.cpp | the editor state, the physics pause flag, the temporary scene file | `PlayMode` |
| Editor settings | Editor.cpp | `m_RecentProjects`, the current project, `Editor.ini` on disk | `Settings` |
| Box2D wrapper | B2PhysicsEngine.cpp | `m_Paused`, `m_Listener`, the bodies | `Gizmo` |
| Hull | Hull.cpp | vertices, edges, faces with adjacency | `Hull` |
| Environment | Environment.cpp | the two cube maps, the file-name arrays | `Environment` |
| OpenGL textures | GLTexture.cpp | GL names, storage, mip levels, bindings | `GLTexture` |
| glTF loader | GLTFLoader.cpp | the model's meshes and materials | `GLTF` |
| Vulkan deletion queue | VKContext.h | a deque of deleters | `DeletionQueue`, refining `DeferredDestruction` |
| Scene manager | SceneManager.h | declarations only; `SceneManager.cpp` is not in the repository | none |

All editor handlers run on the main thread, each inside one immediate-mode
frame (spec §5). An action of the model is therefore one whole handler.
What interleaves is the order in which the user fires handlers, a drag
that spans frames, and the per-frame engine steps (physics step, transform
sync, scene-graph recompute) between two handlers.

## Modules

- **`Scene.tla`** holds the scene graph core as pure operators on a scene
  record (`live`, `nextId`, `comps`, `hier`, `parent`, `first`, `next`,
  `prev`). Every operator follows spec.md and is `spec_modelled`:
  `Reparent` splices the entity in as the parent's first child (§4.2);
  `RemoveHierarchy` and `DestroyOne` detach children (§3);
  `DuplicateEntity` copies a subtree under fresh identifiers (§4.3); a
  stale handle is a no-op. Identifiers are never reused.
- **`Editor.tla`** (EXTENDS Scene) has the variables `scene`, `selected`,
  `clipboard` (`m_CopiedEntities` and `m_CutCopyEntity`) and `drag`. Each
  action is one handler: the icon and name clicks, the six node context
  menu entries, the add menu, drag start and the three drops, the window
  paste, the Edit menu and Ctrl+X/C/V/D, and `SelectObject` (viewport
  picking: the entity hit by the ray is any entity with a Transform, or
  none; Ctrl and the one-second double click are inputs). A handler that
  loops over the clipboard is a `FoldLeft` with the scene, the clipboard
  and DrawNode's `deleteEntity` flag as accumulator. `DestroyEntity` and
  `DestroyChildren` are mutually recursive, as in the code. `Next` offers
  a node handler only for a node DrawNode draws (`Drawn`).
  `MC_Editor.tla` bounds the lengths of the selection and clipboard.
- **`Gizmo.tla`** composes the translate mode of `Editor::OnImGuizmo` with
  `B2PhysicsEngine`. A transform is a translation in the cyclic group
  0..K-1: products add, the inverse negates, so a factor missing or
  applied twice changes the result. Variables: the fixed document
  (`parent`, `valid`, `rigid`, `selected`, `paused`), `local`, the cached
  `world`, `body`, `m_Listener` and the set of `deleted` listeners.
  Actions: `GizmoSingle` (inverse of the parent's cached world matrix
  times the dragged matrix, stored as local and as body position),
  `GizmoMulti` (delta times local, and delta times cached world as body
  position), `PhysicsStep`, `SyncTransforms`, `SetContactListener`, and
  `Recompute`, the scene graph's per-frame update (spec §3).
- **`Hull.tla`** models `Hull.cpp` with `m_Vertices`, `m_Edges` and
  `m_Faces` (0-based indices) and the actions `AddVertex` and `AddFace`.
  `AddFace` folds `ConstructNewEdge` over the polygon's vertex pairs, then
  records face adjacency and each vertex's faces.
  `GetMinMaxVerticesInAxis` is an operator checked against the definition
  of least and greatest projection. `MC_Hull.tla` supplies positions and
  axes.
- **`Environment.tla`** models both `Load` overloads: the `.hdr` path, the
  generated path and the two mip search loops feeding `CreateFromVCross`.
  A file name is abstracted to its mip index; which files exist is an
  input of each call. `leaked` records the `new[]` arrays not deleted.
- **`GLTexture.tla`** models every constructor, destructor, `Load`,
  `Resize`, `SetData`, `GenerateMipMaps` and `Bind` of the four OpenGL
  texture classes, over the GL names each object owns, its storage (size,
  defined levels, minification filter), `m_MipLevels`, the active unit and
  bindings. `MipLevelsOf` models `log2` of the size, including the
  undefined conversion of `log2(0)` as a nondeterministic choice.
- **`GLTF.tla`** models `LoadGLTF`: parse, `LoadMaterials`, then
  `LoadNode` over the default scene. The recursion is an explicit stack
  of pending calls, one call per step. Local matrices are permutations of
  1..3, a non-commutative group, so a product in the wrong order or with
  a factor missing is a different element. `World` is the reference
  definition of a node's world matrix. `MC_GLTF.tla` supplies the
  tuple-valued constants. A material with the `KHR_materials_pbrSpecularGlossiness`
  extension takes its albedo from `SpecGlossDiffuse`, which indexes the
  loaded textures by `index + 1` and checks the bound.
- **`DeletionQueue.tla`** models `PushFunction` and `Flush`; a deleter is
  abstracted to the resource it destroys. It is shown to implement
  **`DeferredDestruction.tla`**, the abstract promise: a handed-over
  object is destroyed once, in the next batch, with every object handed
  over since the previous batch. The refinement mapping takes `queued` to
  the set of resources in the deque and `destroyed` to the freed sequence;
  `ImplementsDeferredDestruction` (`DD!Spec`) is a property of the run.
- **`Settings.tla`** models what `Editor.ini` keeps between runs: the
  recent projects and the current project. Actions: `Start`
  (`Editor::Init`: `LoadEditorSettings`, or `AddDefaultEditorSettings`
  when no file exists), `ProjectOpenCallback`, `NewProjectOpenCallback`,
  `OpenRecentProject`, `OnUpdate` (one frame: the autosave check, the
  timer increment and the reset to 0 in Play), `EnterPlay` and `LeavePlay`
  (the toolbar's Play and Pause buttons), `OnQuit`
  (which saves), `Crash` (the process ends without saving) and
  `DeleteProject` (a `.lmproj` file removed outside the editor, which
  `FileSystem::FileExists` then misses). A project path is a natural
  number, so `std::sort` is `SetToSortSeq`. The other keys are written
  and read back the same way and are left out.
- **`PlayMode.tla`** models the Play, Pause and Step buttons of
  `Editor::DrawMenuBar`, Escape in `Editor::OnUpdate`, Ctrl+S and Ctrl+O,
  `CacheScene` and `LoadCachedScene`, and the `m_Paused` flag of
  `B2PhysicsEngine` (its checkbox and its step). The scene's content is a
  member of a small set `Contents`; the temporary file and the project
  file hold a content or `None`. `EditScene` stands for any editing
  handler of the other modules. `editScene` is a history variable: the
  scene when the editor last left Preview.

`Editor.h`, which declares `SetCopiedEntity`, is not under `src/`; the
model appends unless present and sets the cut flag when appending.

## Runs

| Run | Config | Expect | What it shows |
|---|---|---|---|
| `editor_safety` | `MC_Editor.cfg` | pass | Every handler sequence over 3 identifiers keeps the child lists well formed and the forest acyclic, and Delete destroys exactly the selected entity and its descendants (`DeleteRemovesSubtree`: `DestroyEntity` reads a child's `Next()` before destroying it). About 317,000 states, 60 s. |
| `copy_paste_deletes` | `MC_Editor_CopyPaste.cfg` | violation | `PasteMovesCutOnly`: a paste is meant to destroy exactly the cut entities' subtrees, and nothing after a Copy. Edit > Paste and Ctrl+V destroy the originals even after a Copy, and, restricted to the node menu's Paste, the property fails again: after a Cut it destroys the node pasted onto and keeps the originals. |
| `play_stop_restores` | `MC_PlayMode_Stop.cfg` | violation | Pause (or Step) in edit mode enters play without caching the scene, so Stop or Escape reloads a stale temporary file; Play pressed while Paused caches the half-played scene, which Stop then restores. |
| `hull_topology` | `MC_Hull.cfg` | pass | Any order of up to 4 vertices and 3 triangles leaves one edge per vertex pair, exact adjacency and agreeing incidence lists. |
| `hull_minmax` | `MC_Hull_MinMax.cfg` | pass | The support query returns the true extreme vertices for every placement of up to 4 vertices on a 3 x 3 grid. |
| `deletion_queue` | `MC_DeletionQueue.cfg` | pass | The deque implements `DeferredDestruction`: each flush destroys exactly the objects queued since the last one, and flushing is never postponed for ever. |
| `env_irradiance` | `MC_Environment.cfg` | pass | The irradiance loop hands `CreateFromVCross` only files that exist. |
| `gl_names` | `MC_GLTexture.cfg` | pass | With single-mip cubes, no GL name is deleted while an object still owns it. About 144,000 states, 80 s. |
| `settings_restart` | `MC_Settings.cfg` | pass | Over three runs, each ended by quit or crash, and with project files deleted at any point, a restart restores exactly the saved recent projects (and the saved current project) whose files still exist. With autosave on and the user eventually staying out of Play, every listed project reaches `Editor.ini` unless the editor crashes first. About 226,000 states, 60 s. |
| `gltf_load` | `MC_GLTF.cfg` | pass | Every primitive of every node of the scene becomes exactly one mesh. |
| `gltf_world_matrix` | `MC_GLTF_World.cfg` | violation | A mesh two levels below a root is placed without its grandparent's transform. |
| `gizmo_single_drag` | `MC_Gizmo.cfg` | pass | A single-entity drag from up-to-date world matrices lands at the dragged world position, interleaved with physics steps, syncs and recomputes. About 191,000 states, 10 s. |

Each property of a passing run has a mutant in `PROJECT.json`: a mapped
definition replaced by a plausible bug, under which TLC finds the property
violated. Examples: `DestroyEntity` reading a child's `Next()` after destroying it, the drop test without
`IsParentOfEntity`, `FindEdge` matching one orientation only, `Flush`
running one deleter per call, `Resize2D` without `glDeleteTextures`,
`if(node.mesh > 0)`, and the gizmo
without the parent's inverse.

### Known violations

These configurations check a property the spec, a comment or the code's
own sibling path states, and TLC finds it violated. They are kept beside
the modules and run with `tlc -config <cfg> <module>`; they are not among
the project runs, which are limited to the questions above.

| Config | Property | What the code does |
|---|---|---|
| `MC_Editor_StaleDrop.cfg` | `HierarchyWellFormed` | With keys live during a drag (`KeysDuringDrag`), Ctrl+V destroys the dragged entity and the drop emplaces a Hierarchy on it. |
| `MC_GLTexture_CubeDelete.cfg` | `GLNamesOwned` | `~GLTextureCube` calls `glDeleteTextures(m_NumMips, &m_Handle)`, so a cube with 2 mips deletes a name it does not own (`gl_names` checks the same property with single-mip cubes and passes). |
| `MC_Editor_SelectionValid.cfg` | `SelectionValid` | The node menu's Delete leaves the destroyed entity selected (its UnSelect is commented out). |
| `MC_Editor_ContextCut.cfg` | `ContextCutTakesSelection` | The node menu's Cut cuts only the node, and nothing when the selection is empty. |
| `MC_Editor_DropToRoot.cfg` | `DropToRootKeepsChildren` | A drop on the empty area removes the Hierarchy, detaching the entity's children. |
| `MC_Editor_CtrlClick.cfg` | `CtrlClickDeselects` | A Ctrl-click in the viewport on a selected entity unselects it and selects it again. |
| `MC_Environment_EnvFilesExist.cfg` | `EnvFilesExist` | The environment loop never checks the smallest mip and passes empty names past the chain. |
| `MC_Environment_NoLeak.cfg` | `NoLeak` | The `.hdr` and mode-1 paths leak the `new[]` file-name arrays. |
| `MC_GLTexture_Reload2D.cfg` | `MipmapComplete` | A reload picks the filter from the previous `m_Flags`, so a mipmap filter meets missing mipmaps. |
| `MC_GLTexture_VCross.cfg` | `MipmapComplete` | `LoadFromVCross` sets a mipmap filter but uploads fewer levels than the chain. |
| `MC_GLTexture_MipLevels.cfg` | `MipLevelsMatchSize` | `Resize` keeps the old `m_MipLevels`; a 0 x 0 load converts `log2(0)`. |
| `MC_GLTexture_DepthArrayResize.cfg` | `StorageMatches` | `GLTextureDepthArray::Resize` leaves storage of the old size. |
| `MC_GLTF_Texture.cfg` | `MaterialTextureMatches` | A texture index is used as an index into the loaded textures, which skip textures without a source. |
| `MC_GLTF_Parse.cfg` | `SceneRead` | After a failed parse, `LoadGLTF` still reads `scenes[0]`. |
| `MC_Gizmo_MultiDragMovesByDelta.cfg` | `MultiDragMovesByDelta` | With a parent and its child both selected, the child moves by twice the delta. |
| `MC_Gizmo_SyncKeepsDrag.cfg` | `SyncKeepsDrag` | A multi drag stores the world position in a child's body; the next sync writes it back as local. |
| `MC_Gizmo_ListenerAlive.cfg` | `ListenerAlive` | Setting the same contact listener twice deletes it and keeps it installed. No caller under `src/` does this yet. |

### Bounds

- **Editor:** three identifiers. That gives a grandparent-parent-child
  chain (cycles through a drop onto a descendant), a parent with two
  children (splices with both siblings), and a cut, paste and duplicate.
  Four identifiers exceed 30 minutes. A loop that would create more
  identifiers stops (`full`); this is a limit of the model.
- **Hull:** 4 vertices and 3 triangles, a tetrahedron's faces, which
  walk shared edges both ways. Quads exceed 5 minutes.
- **Gizmo:** two entities (a parent-child pair or two roots), every live,
  rigid and selected subset, and translations mod 3, so that a missing or
  doubled parent offset is visible.
- **GL textures:** two objects, three GL names, sizes 1 and 2, cube size
  1 for the passing run (cube size 2 is the violation).
- **glTF:** three nodes, so a node has a grandparent; two primitives, one
  without a material; three group elements that do not commute.
- **Deletion queue:** four resources, so a batch has several orders.
- **Settings:** three project paths (one is the example project) and
  three runs. That allows a project saved in one run, deleted in the next
  and looked for in the third.
- **Play mode:** three contents, enough for the scene, a stale cache
  and a third edit to be pairwise different.

### Fairness

Two properties have a liveness part. The refinement carries `WF_vars(DestroyBatch)` of
`DeferredDestruction`; it follows from weak fairness of `Flush`, which
the renderer calls every frame. `RecentEventuallySaved` assumes weak
fairness of `OnUpdate`, which the frame loop calls every frame while the
editor runs. It does not assume the user ever leaves Play: `OnUpdate`
resets the timer to 0 every frame in Play (Editor.cpp:1860-1861), so the
property is stated under the hypothesis `<>[](~playing)`. The timer
counts frames and is capped at `SaveAfter + 1` (`SaveAfter = 2`).
A crash disables it, which weak fairness allows. Otherwise the editor and the gizmo act only
when the user acts, so no fairness is assumed for them.

The settings run is the project's fault model. A crash may end any run
of the editor; what survives it is `Editor.ini` as the last
`Rewrite` left it. A crash in the middle of `IniFile::Rewrite` is not
modelled, because `IniFile` is not under `src/`.

## Not modelled, and why

- **Presentation.** Rename, search filter, icons, tree lines, camera
  focus and the gizmo's drawing do not change structural state.
- **The gizmo's rotate and scale modes, and the median's division by
  zero.** The translation abstraction has no scale or rotation; the NaN
  median only positions the drawn gizmo.
- **Iterator invalidation** while a paste loop appends to
  `m_CopiedEntities`, and **pointer stability** of component pools: below
  the abstraction; listed as hazards.
- **Scene manager and scene switch.** `SceneManager.cpp` is not in the
  repository and spec.md says only that a switch destroys the old scene;
  `PlayMode` models `LoadCachedScene` on the current scene only.
- **Application's per-state update.** `Application.cpp` is not under
  `src/`; the editor state is modelled by what the editor's buttons do.
- **Three gizmo entities** exceed five minutes; two entities cover the
  parent-child and two-root cases.
- **`OnNewScene` and the clipboard.** A scene switch replaces the
  registry, and whether an old handle names an entity of the new one
  depends on entt's identifier reuse across registries and on the
  scene manager, neither of which is under `src/`.
- **File drops and `FileOpenCallback`.** Each branch creates one entity
  with a component (model, sound, sprite) or switches the scene. Neither
  touches the structure the `Editor` model checks.
- **Pixel data, vertex decoding, Box2D's solver, ozz animation import:**
  data conversion or third-party code.
- **An abstract forest specification** that `Editor` refines is not yet
  written.
