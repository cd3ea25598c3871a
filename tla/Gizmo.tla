------------------------------- MODULE Gizmo -------------------------------
(***************************************************************************)
(* The editor's transform gizmo (Editor::OnImGuizmo, src/Editor/Source/    *)
(* Editor.cpp) and the Box2D engine it writes rigid bodies of             *)
(* (B2PhysicsEngine, src/Lumos/Source/Lumos/Physics/B2PhysicsEngine/      *)
(* B2PhysicsEngine.cpp): a drag moves the selected entities' local        *)
(* transforms and their bodies; a physics step moves bodies; a sync       *)
(* writes the bodies back into the local transforms.  The scene graph's   *)
(* per-frame recompute of cached world matrices (spec 3) interleaves.     *)
(*                                                                         *)
(* A transform is abstracted to a translation in the cyclic group         *)
(* Positions = 0 .. K-1 under addition mod K: composing transforms adds   *)
(* translations and inverse negates, so a missing factor, a factor        *)
(* applied twice or a world position taken for a local one gives another *)
(* value.  Rotation and scale, and the gizmo's scale and rotate modes,    *)
(* are left out.  The document of entities (their parents, which are      *)
(* alive, which have a RigidBody2D, and the selection) is chosen in Init. *)
(***************************************************************************)
EXTENDS Integers, SequencesExt

CONSTANTS
  Entities,    \* entity handles
  K,           \* translations are taken mod K
  Listeners    \* b2ContactListener objects a caller may pass

VARIABLES
  parent,      \* [Entities -> parent or None], a forest
  valid,       \* the entities registry.valid accepts
  rigid,       \* entities with a RigidBody2DComponent
  selected,    \* Editor::m_SelectedEntities
  paused,      \* B2PhysicsEngine::m_Paused
  local,       \* [Entities -> local translation]
  world,       \* [Entities -> cached world translation]
  body,        \* [Entities -> rigid body position]
  m_Listener,  \* B2PhysicsEngine::m_Listener, or NoListener
  deleted      \* the listeners deleted so far

vars == <<parent, valid, rigid, selected, paused, local, world, body, m_Listener, deleted>>

Positions  == 0 .. K - 1
None       == 0      \* no parent; entity handles are positive
NoListener == "nullptr"

Add(a, b) == (a + b) % K
Neg(a)    == (K - a) % K

RECURSIVE Reaches(_, _, _)
Reaches(p, e, n) == p[e] = None \/ (n > 0 /\ Reaches(p, p[e], n - 1))
Forests ==
  {p \in [Entities -> Entities \cup {None}] :
     \A e \in Entities : p[e] # e /\ Reaches(p, e, Cardinality(Entities))}

\* The scene graph's recompute (spec 3): the world matrix of e is its
\* parent's world matrix times its local one.
RECURSIVE WorldOf(_, _, _)
WorldOf(p, l, e) == IF p[e] = None THEN l[e] ELSE Add(WorldOf(p, l, p[e]), l[e])

Fresh(l) == [e \in Entities |-> WorldOf(parent, l, e)]

Init ==
  /\ parent \in Forests
  /\ valid \in {V \in SUBSET Entities : \A e \in V : parent[e] \in V \cup {None}}
  /\ rigid \in SUBSET Entities
  /\ selected \in {SetToSortSeq(S, <) : S \in SUBSET Entities \ {{}}}
  /\ paused \in BOOLEAN
  /\ local \in [Entities -> Positions]
  /\ world = Fresh(local)
  /\ body = local
  /\ m_Listener = NoListener
  /\ deleted = {}
-----------------------------------------------------------------------------
(***************************************************************************)
(* The editor's gizmo                                                     *)
(***************************************************************************)

Fixed == <<parent, valid, rigid, selected, paused>>

\* Mutant: the dragged matrix stored as the local one, without the
\* parent's inverse.
GizmoSingleNoInverse(M) ==
  LET e == selected[1] IN
  /\ Len(selected) = 1 /\ e \in valid
  /\ local' = [local EXCEPT ![e] = M]
  /\ body' = IF e \in rigid THEN [body EXCEPT ![e] = M] ELSE body
  /\ UNCHANGED <<Fixed, world, m_Listener, deleted>>

\* One selected entity dragged to world matrix M: with a parent that has
\* a Transform, model = inverse(parent world) * M; SetLocalTransform(model)
\* and, for a RigidBody2D, SetPosition(model[3]).  The cached world matrix
\* is read, not updated.
GizmoSingle(M) ==
  LET e     == selected[1]
      model == IF parent[e] # None THEN Add(Neg(world[parent[e]]), M) ELSE M
  IN /\ Len(selected) = 1 /\ e \in valid
     /\ local' = [local EXCEPT ![e] = model]
     /\ body' = IF e \in rigid THEN [body EXCEPT ![e] = model] ELSE body
     /\ UNCHANGED <<Fixed, world, m_Listener, deleted>>

\* Several selected entities dragged by deltaMatrix D: each valid one
\* gets SetLocalTransform(D * local) and, for a RigidBody2D, SetPosition
\* of D * its cached world matrix.
GizmoMulti(D) ==
  LET moved == ToSet(selected) \cap valid IN
  /\ Len(selected) > 1
  /\ local' = [e \in Entities |-> IF e \in moved THEN Add(D, local[e]) ELSE local[e]]
  /\ body' = [e \in Entities |-> IF e \in moved \cap rigid THEN Add(D, world[e]) ELSE body[e]]
  /\ UNCHANGED <<Fixed, world, m_Listener, deleted>>
-----------------------------------------------------------------------------
(***************************************************************************)
(* B2PhysicsEngine and the scene's recompute                              *)
(***************************************************************************)

\* OnUpdate: unless paused, m_B2DWorld->Step moves bodies; one body moves
\* to any position per step.
PhysicsStep(e, q) ==
  /\ ~paused /\ e \in rigid \cap valid
  /\ body' = [body EXCEPT ![e] = q]
  /\ UNCHANGED <<Fixed, local, world, m_Listener, deleted>>

\* SyncTransforms: unless paused, every entity of the RigidBody2D group
\* takes its body's position as local position and SetWorldMatrix(I),
\* which caches the local matrix as the world one.
SyncTransforms ==
  LET G == rigid \cap valid IN
  /\ ~paused
  /\ local' = [e \in Entities |-> IF e \in G THEN body[e] ELSE local[e]]
  /\ world' = [e \in Entities |-> IF e \in G THEN body[e] ELSE world[e]]
  /\ UNCHANGED <<Fixed, body, m_Listener, deleted>>

\* The scene graph's per-frame recompute of every cached world matrix.
Recompute ==
  /\ world' = Fresh(local)
  /\ UNCHANGED <<Fixed, local, body, m_Listener, deleted>>

\* SetContactListener(listener): delete the previous listener, if any,
\* then keep and install the new one.
SetContactListener(l) ==
  /\ deleted' = IF m_Listener # NoListener THEN deleted \cup {m_Listener} ELSE deleted
  /\ m_Listener' = l
  /\ UNCHANGED <<Fixed, local, world, body>>

Next ==
  \/ \E M \in Positions : GizmoSingle(M) \/ GizmoMulti(M)
  \/ \E e \in Entities, q \in Positions : PhysicsStep(e, q)
  \/ SyncTransforms \/ Recompute
  \/ \E l \in Listeners : SetContactListener(l)

Spec == Init /\ [][Next]_vars
-----------------------------------------------------------------------------
(***************************************************************************)
(* Properties                                                             *)
(***************************************************************************)

\* A single-entity drag, from up-to-date world matrices, leaves the entity
\* at the world position the user dragged it to once the scene graph is
\* recomputed: the parent's inverse cancels the parent's transform.
SingleDragLands ==
  [][\A M \in Positions :
       GizmoSingle(M) /\ world = Fresh(local) => Fresh(local')[selected[1]] = M]_vars

\* A multi-entity drag by D, from up-to-date world matrices, moves every
\* selected entity's world position by D.
MultiDragMovesByDelta ==
  [][\A D \in Positions :
       GizmoMulti(D) /\ world = Fresh(local) =>
         \A e \in ToSet(selected) \cap valid : Fresh(local')[e] = Add(D, world[e])]_vars

\* A sync right after a drag, with no physics step between, leaves every
\* entity where the drag put it: the drag stored in each body the
\* position SyncTransforms writes back as local.
SyncKeepsDrag ==
  [][\A D \in Positions : GizmoMulti(D) \/ GizmoSingle(D) =>
       \A e \in rigid \cap valid :
         body'[e] # body[e] \/ local'[e] # local[e] => body'[e] = local'[e]]_vars

\* No listener is used after SetContactListener deleted it.
ListenerAlive == m_Listener \notin deleted
=============================================================================
