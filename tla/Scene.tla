------------------------------- MODULE Scene -------------------------------
(***************************************************************************)
(* The scene's entity registry and its intrusive Hierarchy component, as  *)
(* pure operators on a scene value.  The engine code that implements them *)
(* (Scene, Entity, Hierarchy, the entt registry) is not part of the       *)
(* sources under study, so every operator here follows spec.md sections   *)
(* 3, 4.2, 4.3 and 4.4; the editor module (Editor.tla) applies them the   *)
(* way HierarchyPanel.cpp and Editor.cpp call them.                       *)
(*                                                                         *)
(* A scene value is a record:                                             *)
(*   live    the valid entities (registry.valid)                          *)
(*   nextId  the next identifier to hand out; identifiers are never       *)
(*           reused, which is what entt's versioned handles guarantee     *)
(*           until the version wraps                                      *)
(*   comps   the component kinds attached to each entity                  *)
(*   hier    the entities that carry a Hierarchy component                *)
(*   parent, first, next, prev   the Hierarchy links, Null when unset     *)
(***************************************************************************)
EXTENDS Integers, FiniteSets, Sequences

CONSTANT
  MaxEntities   \* identifiers the model may hand out: bounds creation

ASSUME MaxEntities \in Nat \ {0}

Ids  == 1..MaxEntities
Null == 0      \* entt::null

\* The only component kind a property tells apart: Maths::Transform.
Comps == {"Transform"}

SceneType ==
  [live: SUBSET Ids, nextId: 1..MaxEntities + 1, comps: [Ids -> SUBSET Comps],
   hier: SUBSET Ids, parent: [Ids -> Ids \cup {Null}], first: [Ids -> Ids \cup {Null}],
   next: [Ids -> Ids \cup {Null}], prev: [Ids -> Ids \cup {Null}]]

NoLinks == [i \in Ids |-> Null]

\* A new scene owns no entity (spec 3, Scene lifecycle).
EmptyScene ==
  [live |-> {}, nextId |-> 1, comps |-> [i \in Ids |-> {}], hier |-> {},
   parent |-> NoLinks, first |-> NoLinks, next |-> NoLinks, prev |-> NoLinks]

Valid(S, e) == e \in S.live

\* registry.try_get<Hierarchy>(e) ? ->Parent() : entt::null
ParentOf(S, e) == IF e \in S.hier THEN S.parent[e] ELSE Null

\* Hierarchy children of p, read from the parent links.
ChildrenOf(S, p) == {c \in S.live \cap S.hier : S.parent[c] = p}

\* p and everything below it (spec glossary: Subtree).
Subtree(S, p) ==
  LET RECURSIVE Below(_)
      Below(X) == IF X = {} THEN {}
                  ELSE LET C == UNION {ChildrenOf(S, x) : x \in X}
                       IN C \cup Below(C \ X)
  IN {p} \cup Below({p})

\* The entities met walking up from e (at most MaxEntities steps, which
\* reach every ancestor, and e itself when the chain loops back to it).
Ancestors(S, e) ==
  LET RECURSIVE Up(_, _, _)
      Up(x, seen, k) ==
        IF k = 0 \/ ParentOf(S, x) = Null THEN seen
        ELSE Up(ParentOf(S, x), seen \cup {ParentOf(S, x)}, k - 1)
  IN Up(e, {}, MaxEntities)

CanCreate(S, k) == S.nextId + k - 1 <= MaxEntities

\* CreateEntity(): a fresh identifier with the given components (spec 4.4).
CreateEntity(S, cs) ==
  [S EXCEPT !.live = @ \cup {S.nextId}, !.nextId = @ + 1,
            !.comps[S.nextId] = cs]

\* Mutant: unlink without fixing the next sibling's back-pointer.
UnlinkNoPrevFix(S, e) ==
  LET p == S.parent[e]
      n == S.next[e]
      v == S.prev[e]
  IN [S EXCEPT
        !.parent[e] = Null,
        !.first = IF p # Null /\ v = Null THEN [@ EXCEPT ![p] = n] ELSE @,
        !.next  = IF v # Null THEN [@ EXCEPT ![v] = n, ![e] = Null]
                              ELSE [@ EXCEPT ![e] = Null],
        !.prev  = [@ EXCEPT ![e] = Null]]

\* Unlink e from its parent's child list (spec 4.2 step 1).
Unlink(S, e) ==
  LET p == S.parent[e]
      n == S.next[e]
      v == S.prev[e]
  IN [S EXCEPT
        !.parent[e] = Null,
        !.first = IF p # Null /\ v = Null THEN [@ EXCEPT ![p] = n] ELSE @,
        !.next  = IF v # Null THEN [@ EXCEPT ![v] = n, ![e] = Null]
                              ELSE [@ EXCEPT ![e] = Null],
        !.prev  = IF n # Null THEN [@ EXCEPT ![n] = v, ![e] = Null]
                              ELSE [@ EXCEPT ![e] = Null]]

\* Splice an unlinked e in as the new first child of p (spec 4.2 step 3);
\* a null p leaves e a root (step 2).  p gains a Hierarchy if it had none.
LinkFirst(S, e, p) ==
  IF p = Null THEN S
  ELSE LET f == S.first[p]
       IN [S EXCEPT
             !.hier      = @ \cup {e, p},
             !.parent[e] = p,
             !.first[p]  = e,
             !.next[e]   = f,
             !.prev      = IF f # Null THEN [@ EXCEPT ![f] = e] ELSE @]

\* Hierarchy::Reparent(e, p): unlink, then splice under p (spec 4.2).
Reparent(S, e, p) == LinkFirst(Unlink(S, e), e, p)

\* registry.emplace<Hierarchy>(e, p): attach a Hierarchy naming p as the
\* parent; the construction hook links e into p's child list (spec 4.1).
EmplaceHierarchy(S, e, p) ==
  LinkFirst([S EXCEPT !.hier = @ \cup {e}], e, p)

\* Removing e's Hierarchy (or destroying e) unlinks it from its siblings
\* and detaches its children, which become roots (spec 3).
RemoveHierarchy(S, e) ==
  IF e \notin S.hier THEN S
  ELSE LET T == Unlink(S, e)
           C == ChildrenOf(T, e)
       IN [T EXCEPT
             !.hier     = @ \ {e},
             !.first[e] = Null,
             !.parent   = [c \in Ids |-> IF c \in C THEN Null ELSE @[c]],
             !.next     = [c \in Ids |-> IF c \in C THEN Null ELSE @[c]],
             !.prev     = [c \in Ids |-> IF c \in C THEN Null ELSE @[c]]]

\* registry.destroy(e) / Entity::Destroy(): a stale handle is a no-op
\* (spec 4.3, 7); otherwise its Hierarchy goes first, then the entity.
DestroyOne(S, e) ==
  IF ~Valid(S, e) THEN S
  ELSE [RemoveHierarchy(S, e) EXCEPT !.live = @ \ {e}, !.comps[e] = {}]

\* Scene::DuplicateEntity(src, target): a deep copy of src's subtree with
\* fresh identifiers and the same relative structure and sibling order,
\* its root spliced under target, or under src's own parent when target is
\* null (the copied Hierarchy keeps the parent).  Stale src: no-op (spec 7).
DuplicateCount(S, src) == IF Valid(S, src) THEN Cardinality(Subtree(S, src)) ELSE 0

DuplicateEntity(S, src, target) ==
  IF ~Valid(S, src) THEN S
  ELSE
  LET Sub  == Subtree(S, src)
      F    == [m \in Sub |-> S.nextId + Cardinality({x \in Sub : x < m})]
      New  == {F[m] : m \in Sub}
      Orig(d) == CHOOSE m \in Sub : F[m] = d
      Img(x)  == IF x = Null THEN Null ELSE F[x]
      root == F[src]
      dest == IF target # Null THEN target ELSE ParentOf(S, src)
      Copy(old, val(_)) == [d \in Ids |-> IF d \in New THEN val(Orig(d)) ELSE old[d]]
      Below(m) == IF m = src THEN Null ELSE Img(S.parent[m])
      Side(m, f) == IF m = src THEN Null ELSE Img(f[m])
      T == [S EXCEPT
              !.live   = @ \cup New,
              !.nextId = @ + Cardinality(Sub),
              !.comps  = Copy(@, LAMBDA m : S.comps[m]),
              !.hier   = @ \cup {F[m] : m \in Sub \cap S.hier},
              !.parent = Copy(@, Below),
              !.first  = Copy(@, LAMBDA m : Img(S.first[m])),
              !.next   = Copy(@, LAMBDA m : Side(m, S.next)),
              !.prev   = Copy(@, LAMBDA m : Side(m, S.prev))]
  IN LinkFirst(T, root, dest)
=============================================================================
