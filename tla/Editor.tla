------------------------------ MODULE Editor ------------------------------
(***************************************************************************)
(* The editor's structural operations on one scene: the Hierarchy panel   *)
(* (src/Editor/Source/HierarchyPanel.cpp) and the Edit menu and keyboard  *)
(* shortcuts of the editor (src/Editor/Source/Editor.cpp), with the       *)
(* selection set and the entity clipboard they share.  Every UI handler   *)
(* runs to completion inside one immediate-mode frame on the main thread  *)
(* (spec 5), so each is one atomic action here; what interleaves is the   *)
(* order in which the user fires them, and a drag that spans frames.     *)
(***************************************************************************)
EXTENDS Scene, SequencesExt

CONSTANT
  KeysDuringDrag  \* may keyboard shortcuts fire while a drag is in flight?

ASSUME KeysDuringDrag \in BOOLEAN

VARIABLES
  scene,      \* the current scene's registry and Hierarchy components
  selected,   \* Editor::m_SelectedEntities, in selection order
  clipboard,  \* [list |-> m_CopiedEntities, cut |-> m_CutCopyEntity]
  drag        \* entity carried by the "Drag_Entity" payload, or Null

vars == <<scene, selected, clipboard, drag>>


-----------------------------------------------------------------------------
(* Selection and clipboard (Editor.cpp, Editor.h).                        *)

\* Editor::SetSelected: only a valid entity not already selected is added.
SetSelected(S, sel, e) ==
  IF ~Valid(S, e) \/ Contains(sel, e) THEN sel ELSE Append(sel, e)

\* Editor::UnSelect: erase the first occurrence.
UnSelect(sel, e) == RemoveFirst(sel, e)

\* Editor::SetCopiedEntity(e, cut) (Editor.h): append e unless already on
\* the clipboard, and record whether the clipboard was filled by a cut.
SetCopiedEntity(clip, e, isCut) ==
  IF Contains(clip.list, e) THEN clip ELSE [list |-> Append(clip.list, e), cut |-> isCut]

\* SetCopiedEntity applied to each entity of a sequence, in order.
CopyAll(clip, es, isCut) ==
  FoldLeft(LAMBDA c, e : SetCopiedEntity(c, e, isCut), clip, es)

-----------------------------------------------------------------------------
(* Hierarchy panel traversal and helpers (HierarchyPanel.cpp).            *)

\* DrawNode's child loop: from First(), while the child is valid, step to
\* its Next() (Null when it has no Hierarchy); at most MaxEntities steps.
ChildWalk(S, p) ==
  LET RECURSIVE Walk(_, _)
      Walk(c, k) == IF c = Null \/ ~Valid(S, c) \/ k = 0 THEN {}
                    ELSE {c} \cup Walk(IF c \in S.hier THEN S.next[c] ELSE Null, k - 1)
  IN IF p \in S.hier THEN Walk(S.first[p], MaxEntities) ELSE {}

\* OnImGui draws every valid entity without a parent, and DrawNode draws
\* the children of each drawn node (any node may be expanded).
Drawn(S) ==
  LET Roots == {e \in S.live : ParentOf(S, e) = Null}
      RECURSIVE Reach(_, _)
      Reach(X, k) == IF k = 0 THEN X
                     ELSE Reach(X \cup UNION {ChildWalk(S, x) : x \in X}, k - 1)
  IN Reach(Roots, MaxEntities)

\* HierarchyPanel::IsParentOfEntity(entity, child): is entity met walking
\* up the Parent() chain of child?
IsParentOfEntity(S, entity, child) ==
  LET RECURSIVE Up(_, _)
      Up(x, k) == IF x = Null \/ k = 0 THEN FALSE
                  ELSE x = entity \/ Up(ParentOf(S, x), k - 1)
  IN Up(ParentOf(S, child), MaxEntities)

\* HierarchyPanel::DestroyEntity: destroy the children depth first, reading
\* each child's Next() before destroying it, then the entity itself.
RECURSIVE DestroyEntity(_, _), DestroyChildren(_, _, _), DestroyChildrenNextAfter(_, _, _)
DestroyEntity(S, e) ==
  DestroyOne(IF e \in S.hier THEN DestroyChildren(S, S.first[e], MaxEntities) ELSE S, e)

\* Mutant: the loop reads the child's Next() after destroying it.
DestroyChildrenNextAfter(S, c, k) ==
  IF c = Null \/ k = 0 THEN S
  ELSE LET T == DestroyEntity(S, c)
       IN DestroyChildrenNextAfter(T, IF c \in T.hier THEN T.next[c] ELSE Null, k - 1)

DestroyChildren(S, c, k) ==
  IF c = Null \/ k = 0 THEN S
  ELSE DestroyChildren(DestroyEntity(S, c), IF c \in S.hier THEN S.next[c] ELSE Null, k - 1)

\* Mutant: the acceptance test without the IsParentOfEntity check.
AcceptableDropNoAncestorCheck(S, entity, node) ==
  IF entity \in S.hier THEN entity # node /\ S.parent[entity] # node
  ELSE entity # node

\* The drag-drop acceptance test of DrawNode for dropping entity on node.
AcceptableDrop(S, entity, node) ==
  IF entity \in S.hier
  THEN entity # node /\ ~IsParentOfEntity(S, entity, node) /\ S.parent[entity] # node
  ELSE entity # node

-----------------------------------------------------------------------------
(* A loop over a clipboard snapshot carries the scene, the clipboard, and *)
(* whether a duplicate no longer fits the identifier bound (the step is   *)
(* then not taken: a limit of the model, not of the editor).              *)

Acc(S, clip) == [s |-> S, clip |-> clip, del |-> FALSE, full |-> FALSE]

\* Scene::DuplicateEntity inside a loop, refusing what would overflow Ids.
DupStep(a, e, target) ==
  IF CanCreate(a.s, DuplicateCount(a.s, e))
  THEN [a EXCEPT !.s = DuplicateEntity(a.s, e, target)]
  ELSE [a EXCEPT !.full = TRUE]

-----------------------------------------------------------------------------
(* Hierarchy panel handlers (HierarchyPanel.cpp).  Clicks and context     *)
(* menus need the mouse, so they wait while a drag is in flight.  Next    *)
(* takes n from the drawn nodes (Drawn); DrawNode itself first returns   *)
(* unless the node is valid.                                             *)

KeysAllowed == drag = Null \/ KeysDuringDrag

\* Clicking a node's icon: without Ctrl the selection is cleared first;
\* then the node is toggled.
ClickIcon(n, ctrl) ==
  /\ drag = Null /\ Valid(scene, n)
  /\ LET sel == IF ctrl THEN selected ELSE <<>>
     IN selected' = IF Contains(sel, n) THEN UnSelect(sel, n) ELSE SetSelected(scene, sel, n)
  /\ UNCHANGED <<scene, clipboard, drag>>

\* Clicking a node's name selects it.
ClickName(n) ==
  /\ drag = Null /\ Valid(scene, n)
  /\ selected' = SetSelected(scene, selected, n)
  /\ UNCHANGED <<scene, clipboard, drag>>

\* Context menu "Copy": the node unless it is selected, then the selection.
ContextCopy(n) ==
  /\ drag = Null /\ Valid(scene, n)
  /\ clipboard' = CopyAll(IF Contains(selected, n) THEN clipboard
                          ELSE SetCopiedEntity(clipboard, n, FALSE), selected, FALSE)
  /\ UNCHANGED <<scene, selected, drag>>

\* Context menu "Cut": once per selected entity, SetCopiedEntity(node, true).
ContextCut(n) ==
  /\ drag = Null /\ Valid(scene, n)
  /\ clipboard' = CopyAll(clipboard, [i \in DOMAIN selected |-> n], TRUE)
  /\ UNCHANGED <<scene, selected, drag>>

\* Context menu "Paste" on node n, offered when the first clipboard entry
\* is valid: each valid entry is duplicated under n, a stale one makes the
\* loop call SetCopiedEntity(entt::null); if the clipboard is a cut at that
\* moment, deleteEntity is raised and DrawNode ends by destroying n.
ContextPaste(n) ==
  /\ drag = Null /\ Valid(scene, n)
  /\ clipboard.list # <<>> /\ Valid(scene, Head(clipboard.list))
  /\ LET Step(a, e) ==
           IF ~Valid(a.s, e) THEN [a EXCEPT !.clip = SetCopiedEntity(@, Null, FALSE)]
           ELSE LET b == DupStep(a, e, n) IN [b EXCEPT !.del = @ \/ b.clip.cut]
         r == FoldLeft(Step, Acc(scene, clipboard), clipboard.list)
     IN /\ ~r.full
        /\ scene' = IF r.del THEN DestroyEntity(r.s, n) ELSE r.s
        /\ clipboard' = r.clip
  /\ UNCHANGED <<selected, drag>>

\* Context menu "Duplicate": a copy of n beside it.
ContextDuplicate(n) ==
  /\ drag = Null /\ Valid(scene, n)
  /\ LET r == DupStep(Acc(scene, clipboard), n, Null)
     IN ~r.full /\ scene' = r.s
  /\ UNCHANGED <<selected, clipboard, drag>>

\* Context menu "Delete": DestroyEntity(n) at the end of DrawNode.
ContextDelete(n) ==
  /\ drag = Null /\ Valid(scene, n)
  /\ scene' = DestroyEntity(scene, n)
  /\ UNCHANGED <<selected, clipboard, drag>>

\* Context menu "Add Child": CreateEntity() then child.SetParent(n).
ContextAddChild(n) ==
  /\ drag = Null /\ Valid(scene, n) /\ CanCreate(scene, 1)
  /\ scene' = Reparent(CreateEntity(scene, {}), scene.nextId, n)
  /\ UNCHANGED <<selected, clipboard, drag>>

\* The "Add ..." menu: an empty or Lua-script entity has no Transform; a
\* light, rigid body, camera or sprite gets one.
AddEntity(cs) ==
  /\ drag = Null /\ CanCreate(scene, 1)
  /\ scene' = CreateEntity(scene, cs)
  /\ UNCHANGED <<selected, clipboard, drag>>

\* Starting to drag node n; every DrawNode that sees the payload then
\* unselects the dragged entity.
DragStart(n) ==
  /\ drag = Null /\ Valid(scene, n)
  /\ drag' = n /\ selected' = UnSelect(selected, n)
  /\ UNCHANGED <<scene, clipboard>>

\* Mutant: always emplace a Hierarchy, even on an entity that has one.
DropOnNodeAlwaysEmplace(n) ==
  /\ drag # Null /\ Valid(scene, n)
  /\ scene' = IF ~AcceptableDrop(scene, drag, n) THEN scene
              ELSE EmplaceHierarchy(scene, drag, n)
  /\ drag' = Null /\ selected' = UnSelect(selected, drag)
  /\ UNCHANGED clipboard

\* Dropping on node n: if acceptable, Hierarchy::Reparent when the dragged
\* entity has a Hierarchy, registry.emplace<Hierarchy>(entity, n) if not.
DropOnNode(n) ==
  /\ drag # Null /\ Valid(scene, n)
  /\ scene' = IF ~AcceptableDrop(scene, drag, n) THEN scene
              ELSE IF drag \in scene.hier THEN Reparent(scene, drag, n)
              ELSE EmplaceHierarchy(scene, drag, n)
  /\ drag' = Null /\ selected' = UnSelect(selected, drag)
  /\ UNCHANGED clipboard

\* Dropping on the panel's child window: reparent to no parent.
DropOnWindow ==
  /\ drag # Null
  /\ scene' = IF drag \in scene.hier THEN Reparent(scene, drag, Null) ELSE scene
  /\ drag' = Null
  /\ UNCHANGED <<selected, clipboard>>

\* Dropping on the empty area below the tree, accepted only for an entity
\* with a parent: reparent to no parent, then remove its Hierarchy.
DropOnEmptyArea ==
  /\ drag # Null /\ drag \in scene.hier /\ scene.parent[drag] # Null
  /\ scene' = RemoveHierarchy(Reparent(scene, drag, Null), drag)
  /\ drag' = Null
  /\ UNCHANGED <<selected, clipboard>>

\* Releasing the mouse over no target ends the drag (ImGui).
DragCancel ==
  /\ drag # Null /\ drag' = Null
  /\ UNCHANGED <<scene, selected, clipboard>>
-----------------------------------------------------------------------------
(* The panel's window context menu "Paste" (HierarchyPanel::OnImGui):     *)
(* each valid entry is duplicated beside itself and, if the clipboard is  *)
(* a cut at that moment, destroyed with DestroyEntity; a stale entry      *)
(* calls SetCopiedEntity(entt::null).                                     *)
WindowPaste ==
  /\ drag = Null
  /\ clipboard.list # <<>> /\ Valid(scene, Head(clipboard.list))
  /\ LET Step(a, e) ==
           IF ~Valid(a.s, e) THEN [a EXCEPT !.clip = SetCopiedEntity(@, Null, FALSE)]
           ELSE LET b == DupStep(a, e, Null)
                IN IF b.clip.cut THEN [b EXCEPT !.s = DestroyEntity(@, e)] ELSE b
         r == FoldLeft(Step, Acc(scene, clipboard), clipboard.list)
     IN /\ ~r.full /\ scene' = r.s /\ clipboard' = r.clip
  /\ UNCHANGED <<selected, drag>>

-----------------------------------------------------------------------------
(* Edit menu and shortcuts (Editor::DrawMenuBar, Editor::OnUpdate).  The  *)
(* menu item and the Ctrl-key shortcut run the same loop.                 *)

\* Cut / Ctrl+X: SetCopiedEntity(e, true) for each selected entity.
CutSelected ==
  /\ KeysAllowed
  /\ clipboard' = CopyAll(clipboard, selected, TRUE)
  /\ UNCHANGED <<scene, selected, drag>>

\* Copy / Ctrl+C: SetCopiedEntity(e, false) for each selected entity.
CopySelected ==
  /\ KeysAllowed
  /\ clipboard' = CopyAll(clipboard, selected, FALSE)
  /\ UNCHANGED <<scene, selected, drag>>

\* Paste / Ctrl+V: each entry is duplicated, then, if not null, destroyed
\* with Entity::Destroy, whatever the cut flag says.
PasteCopied ==
  /\ KeysAllowed /\ clipboard.list # <<>>
  /\ LET Step(a, e) ==
           LET b == DupStep(a, e, Null)
           IN IF e # Null THEN [b EXCEPT !.s = DestroyOne(@, e)] ELSE b
         r == FoldLeft(Step, Acc(scene, clipboard), clipboard.list)
     IN ~r.full /\ scene' = r.s
  /\ UNCHANGED <<selected, clipboard, drag>>

\* Ctrl+D, with a non-empty selection: duplicate every clipboard entry.
KeyDuplicate ==
  /\ KeysAllowed /\ selected # <<>>
  /\ LET r == FoldLeft(LAMBDA a, e : DupStep(a, e, Null), Acc(scene, clipboard), clipboard.list)
     IN ~r.full /\ scene' = r.s
  /\ UNCHANGED <<selected, clipboard, drag>>

\* Editor::SelectObject(ray), a click in the scene view.  hit is the
\* closest entity whose bounding box the ray meets, or Null: any live
\* entity with a Transform may carry the model or sprite it meets (the
\* geometry is left out).  quick is a second click within one second,
\* which focuses the camera instead of unselecting.  With a non-empty
\* selection: a selected hit is unselected (unless quick), the selection
\* is cleared unless Ctrl is held, and SetSelected(hit).  With an empty
\* one the sprite groups are searched too and SetSelected(hit).
SelectObject(hit, ctrl, quick) ==
  /\ drag = Null
  /\ hit \in {e \in scene.live : "Transform" \in scene.comps[e]} \cup {Null}
  /\ selected' =
       IF selected = <<>> THEN SetSelected(scene, selected, hit)
       ELSE LET s1 == IF Valid(scene, hit) /\ Contains(selected, hit) /\ ~quick
                        THEN UnSelect(selected, hit) ELSE selected
                s2 == IF ctrl THEN s1 ELSE <<>>
            IN SetSelected(scene, s2, hit)
  /\ UNCHANGED <<scene, clipboard, drag>>

-----------------------------------------------------------------------------
\* The editor opens on a new, empty scene with nothing selected or copied.
Init ==
  /\ scene = EmptyScene
  /\ selected = <<>>
  /\ clipboard = [list |-> <<>>, cut |-> FALSE]
  /\ drag = Null

\* The panel's node handlers are offered for the nodes it draws.
Next ==
  \/ \E n \in Drawn(scene), ctrl \in BOOLEAN : ClickIcon(n, ctrl)
  \/ \E n \in Drawn(scene) :
       \/ ClickName(n) \/ ContextCopy(n) \/ ContextCut(n) \/ ContextPaste(n)
       \/ ContextDuplicate(n) \/ ContextDelete(n) \/ ContextAddChild(n)
       \/ DragStart(n) \/ DropOnNode(n)
  \/ \E cs \in {{}, Comps} : AddEntity(cs)
  \/ DropOnWindow \/ DropOnEmptyArea \/ DragCancel \/ WindowPaste
  \/ CutSelected \/ CopySelected \/ PasteCopied \/ KeyDuplicate
  \/ \E hit \in Ids \cup {Null}, ctrl, quick \in BOOLEAN : SelectObject(hit, ctrl, quick)

Spec == Init /\ [][Next]_vars

-----------------------------------------------------------------------------
(* Properties.                                                            *)

\* The child list of p read by following Next() from First(), cut off one
\* step past the number of identifiers so that a loop shows as a repeat.
ChildSeq(S, p) ==
  LET RECURSIVE Chain(_, _)
      Chain(c, k) == IF c = Null \/ k = 0 THEN <<>> ELSE <<c>> \o Chain(S.next[c], k - 1)
  IN Chain(S.first[p], MaxEntities + 1)

\* Spec 3: for every valid entity, walking Next() from First() visits each
\* of its children exactly once and ends at null, every Prev() points back
\* to the previous sibling (null for the first); no link of a valid
\* entity names a destroyed one, and a root has no siblings.  Reparenting,
\* emplacing a Hierarchy, duplicating and the recursive destroy all patch
\* these links, so one wrong patch in any handler sequence breaks it.
HierarchyWellFormed ==
  /\ \A p \in scene.live :
       LET s == ChildSeq(scene, p) IN
       /\ Len(s) = Cardinality(ToSet(s))
       /\ ToSet(s) = ChildrenOf(scene, p)
       /\ \A i \in 1..Len(s) : scene.prev[s[i]] = IF i = 1 THEN Null ELSE s[i - 1]
  /\ \A e \in scene.live : ParentOf(scene, e) \in scene.live \cup {Null}
  /\ \A e \in scene.live :
       ParentOf(scene, e) = Null => scene.next[e] = Null /\ scene.prev[e] = Null
  /\ \A e \in Ids \ scene.live :
       scene.parent[e] = Null /\ scene.first[e] = Null /\ scene.next[e] = Null

\* Spec 3 and 8: no entity is its own ancestor.  Drag-and-drop may move any
\* drawn entity onto any other; only DrawNode's acceptance test keeps a
\* node from being dropped into its own subtree.
Acyclic == \A e \in scene.live : e \notin Ancestors(scene, e)

\* The entities of S in X or below a member of X.
Subtrees(S, X) == {e \in S.live : e \in X \/ Ancestors(S, e) \cap X # {}}

\* Spec 3 (DestroySubtree): the node menu's Delete removes the node and
\* every transitive descendant, and nothing else.  HierarchyPanel::
\* DestroyEntity walks the children itself, reading each child's Next()
\* before the child is destroyed and its links rewritten; a walk that
\* read it afterwards would stop after the first child and leave its
\* siblings alive as roots, a forest HierarchyWellFormed still accepts.
DeleteRemovesSubtree ==
  [][\A n \in Ids : ContextDelete(n) => scene.live \ scene'.live = Subtrees(scene, {n})]_vars

-----------------------------------------------------------------------------
(* What the code is expected to do, checked in the violation runs.        *)

\* Spec 3 (Selection Set): the selection drops an entry whose entity is
\* destroyed.  The panel's Delete and the pastes destroy entities without
\* calling Editor::UnSelect.
SelectionValid == \A i \in DOMAIN selected : Valid(scene, selected[i])

\* Every paste (the Edit menu's Paste and Ctrl+V, the window's Paste, a
\* node's Paste) moves a cut and copies a copy: it destroys exactly the
\* clipboard's entities and their subtrees when the clipboard holds a
\* cut, and nothing when it holds a copy.  Broken by PasteCopied's
\* unconditional Destroy and by DrawNode destroying the node pasted onto.
PasteMovesCutOnly ==
  [][(PasteCopied \/ WindowPaste \/ \E n \in Ids : ContextPaste(n)) =>
       scene.live \ scene'.live =
         IF clipboard.cut THEN Subtrees(scene, ToSet(clipboard.list)) ELSE {}]_vars

\* The node context menu's Cut puts the node and, like its Copy, every
\* selected entity on the clipboard.
ContextCutTakesSelection ==
  [][\A n \in Ids : ContextCut(n) =>
       \A e \in {n} \cup ToSet(selected) : Contains(clipboard'.list, e)]_vars

\* A Ctrl-click in the scene view on a selected entity removes it from
\* the selection, as a Ctrl-click on its icon in the hierarchy panel does.
CtrlClickDeselects ==
  [][\A e \in Ids, quick \in BOOLEAN :
       SelectObject(e, TRUE, quick) /\ ~quick /\ Contains(selected, e) =>
         ~Contains(selected', e)]_vars

\* Dropping an entity on the panel's empty area makes it a root and keeps
\* its children under it (spec 4.2: reparenting moves a subtree).
DropToRootKeepsChildren ==
  [][DropOnEmptyArea => ChildrenOf(scene', drag) = ChildrenOf(scene, drag)]_vars

=============================================================================
