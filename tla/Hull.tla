-------------------------------- MODULE Hull --------------------------------
(***************************************************************************)
(* The convex hull collision shape's topology builder                      *)
(* (src/Lumos/Source/Lumos/Physics/LumosPhysicsEngine/CollisionShapes/     *)
(* Hull.cpp): vertices, edges and faces with their adjacency and incidence *)
(* lists, built by AddVertex and AddFace, and the support-vertex query     *)
(* GetMinMaxVerticesInAxis.                                                *)
(*                                                                         *)
(* Identifiers are the code's 0-based indices; element i of a sequence is  *)
(* stored at position i + 1.  A position is a small integer vector and an  *)
(* axis one of a few directions, so glm::dot is exact integer arithmetic.  *)
(* Face normals are normalised and never read by the topology; they are    *)
(* left out.                                                               *)
(***************************************************************************)
EXTENDS Integers, SequencesExt

CONSTANTS
  MaxVertices,   \* bound on AddVertex calls
  MaxFaces,      \* bound on AddFace calls
  FaceSizes,     \* the nVerts values a face may have
  Positions,     \* the vertex positions a caller may pass (2-vectors)
  Axes,          \* the axes GetMinMaxVerticesInAxis is asked about
  FltMax         \* FLT_MAX: above the magnitude of every dot product

VARIABLES
  m_Vertices,    \* [pos, enclosing_edges, enclosing_faces]
  m_Edges,       \* [vStart, vEnd, adjoining_edge_ids, enclosing_faces]
  m_Faces        \* [vert_ids, edge_ids, adjoining_face_ids]

vars == <<m_Vertices, m_Edges, m_Faces>>

At(s, i) == s[i + 1]
Ids(s)   == 0 .. Len(s) - 1

\* The indices below n that lie in S, in increasing order: the order in
\* which an index loop pushes them.
InOrder(S, n) == SelectSeq([k \in 1..n |-> k - 1], LAMBDA i : i \in S)

Dot(a, b) == a[1] * b[1] + a[2] * b[2]

\* Every index held in a list names an existing element.
TypeOK ==
  /\ m_Vertices \in Seq([pos: Positions, enclosing_edges: Seq(Ids(m_Edges)),
                         enclosing_faces: Seq(Ids(m_Faces))])
  /\ m_Edges \in Seq([vStart: Ids(m_Vertices), vEnd: Ids(m_Vertices),
                      adjoining_edge_ids: Seq(Ids(m_Edges)), enclosing_faces: Seq(Ids(m_Faces))])
  /\ m_Faces \in Seq([vert_ids: Seq(Ids(m_Vertices)), edge_ids: Seq(Ids(m_Edges)),
                      adjoining_face_ids: Seq(Ids(m_Faces))])

-----------------------------------------------------------------------------
\* Hull::AddVertex: a vertex with empty incidence lists, index = size.
AddVertex(v) ==
  /\ Len(m_Vertices) < MaxVertices
  /\ m_Vertices' = Append(m_Vertices, [pos |-> v, enclosing_edges |-> <<>>, enclosing_faces |-> <<>>])
  /\ UNCHANGED <<m_Edges, m_Faces>>

\* Mutant: an edge matches only in the orientation it was created in.
FindEdgeDirected(E, v0, v1) ==
  LET hits == {i \in Ids(E) : At(E, i).vStart = v0 /\ At(E, i).vEnd = v1}
  IN IF hits = {} THEN -1 ELSE Min(hits)

\* Hull::FindEdge: the first edge joining v0 and v1 in either direction.
FindEdge(E, v0, v1) ==
  LET hits == {i \in Ids(E) : {At(E, i).vStart, At(E, i).vEnd} = {v0, v1}}
  IN IF hits = {} THEN -1 ELSE Min(hits)

\* Append x to the list in field fld of element i (0-based) of s.
Push(s, i, fld, x) == [s EXCEPT ![i + 1][fld] = Append(@, x)]

\* Mutant: a new edge is recorded at its start vertex only.
ConstructNewEdgeStartOnly(h, face, a, b) ==
  LET found == FindEdge(h.E, a, b)
      n     == Len(h.E)
      Adj(i) == {At(h.E, i).vStart, At(h.E, i).vEnd} \cap {a, b} # {}
      adj   == InOrder({i \in Ids(h.E) : Adj(i)}, n)
      newE  == [vStart |-> a, vEnd |-> b, adjoining_edge_ids |-> adj, enclosing_faces |-> <<>>]
      E1    == IF found # -1 THEN h.E
               ELSE Append([i \in 1..n |-> IF Adj(i - 1)
                                         THEN [h.E[i] EXCEPT !.adjoining_edge_ids = Append(@, n)]
                                         ELSE h.E[i]], newE)
      V1    == IF found # -1 THEN h.V ELSE Push(h.V, a, "enclosing_edges", n)
      idx   == IF found # -1 THEN found ELSE n
  IN [V |-> V1, E |-> Push(E1, idx, "enclosing_faces", face), idx |-> idx]

\* Mutant: the edge records the face count after the push, not its index.
ConstructNewEdgeFaceCount(h, face, a, b) ==
  LET found == FindEdge(h.E, a, b)
      n     == Len(h.E)
      Adj(i) == {At(h.E, i).vStart, At(h.E, i).vEnd} \cap {a, b} # {}
      adj   == InOrder({i \in Ids(h.E) : Adj(i)}, n)
      newE  == [vStart |-> a, vEnd |-> b, adjoining_edge_ids |-> adj, enclosing_faces |-> <<>>]
      E1    == IF found # -1 THEN h.E
               ELSE Append([i \in 1..n |-> IF Adj(i - 1)
                                         THEN [h.E[i] EXCEPT !.adjoining_edge_ids = Append(@, n)]
                                         ELSE h.E[i]], newE)
      V1    == IF found # -1 THEN h.V
               ELSE Push(Push(h.V, a, "enclosing_edges", n), b, "enclosing_edges", n)
      idx   == IF found # -1 THEN found ELSE n
  IN [V |-> V1, E |-> Push(E1, idx, "enclosing_faces", face + 1), idx |-> idx]

\* Hull::ConstructNewEdge on the hull h = [V, E]: find or create the edge
\* from a to b; a new edge is adjoined to every earlier edge sharing an
\* endpoint (both lists, in index order) and recorded at both endpoints;
\* either way the face is appended to the edge's enclosing faces.
ConstructNewEdge(h, face, a, b) ==
  LET found == FindEdge(h.E, a, b)
      n     == Len(h.E)
      Adj(i) == {At(h.E, i).vStart, At(h.E, i).vEnd} \cap {a, b} # {}
      adj   == InOrder({i \in Ids(h.E) : Adj(i)}, n)
      newE  == [vStart |-> a, vEnd |-> b, adjoining_edge_ids |-> adj, enclosing_faces |-> <<>>]
      E1    == IF found # -1 THEN h.E
               ELSE Append([i \in 1..n |-> IF Adj(i - 1)
                                         THEN [h.E[i] EXCEPT !.adjoining_edge_ids = Append(@, n)]
                                         ELSE h.E[i]], newE)
      V1    == IF found # -1 THEN h.V
               ELSE Push(Push(h.V, a, "enclosing_edges", n), b, "enclosing_edges", n)
      idx   == IF found # -1 THEN found ELSE n
  IN [V |-> V1, E |-> Push(E1, idx, "enclosing_faces", face), idx |-> idx]

\* Mutant: the face-adjacency loop also visits the new face itself.
AdjoiningFacesInclusive(F, f, eids) ==
  {i \in 0 .. f : \E k \in 1..Len(eids) : eids[k] \in ToSet(At(F, i).edge_ids)}

\* The earlier faces found by AddFace's adjacency loop: those whose edge
\* list holds one of the new face's edges.
AdjoiningFaces(F, f, eids) ==
  {i \in 0 .. f - 1 : \E k \in 1..Len(eids) : eids[k] \in ToSet(At(F, i).edge_ids)}

\* Hull::AddFace(normal, nVerts, verts): push the face, build its edges
\* from the polygon's consecutive vertex pairs (the closing pair first),
\* record the adjacency with every earlier face sharing an edge in both
\* faces, and add the face to each of its vertices once.
AddFace(verts) ==
  /\ Len(m_Faces) < MaxFaces
  /\ LET n  == Len(verts)
         f  == Len(m_Faces)
         F0 == Append(m_Faces, [vert_ids |-> verts, edge_ids |-> <<>>, adjoining_face_ids |-> <<>>])
         Step(h, k) ==
           LET r == ConstructNewEdge(h, f, verts[IF k = 1 THEN n ELSE k - 1], verts[k])
           IN [V |-> r.V, E |-> r.E, ids |-> Append(h.ids, r.idx)]
         h  == FoldLeft(Step, [V |-> m_Vertices, E |-> m_Edges, ids |-> <<>>], [k \in 1..n |-> k])
         F1 == [F0 EXCEPT ![f + 1].edge_ids = h.ids]
         adj == AdjoiningFaces(F1, f, h.ids)
         ends == UNION {{At(h.E, e).vStart, At(h.E, e).vEnd} : e \in ToSet(h.ids)}
     IN /\ m_Faces' = [i \in DOMAIN F1 |->
                          IF i = f + 1 THEN [F1[i] EXCEPT !.adjoining_face_ids = InOrder(adj, Len(F1))]
                          ELSE IF i - 1 \in adj THEN [F1[i] EXCEPT !.adjoining_face_ids = Append(@, f)]
                          ELSE F1[i]]
        /\ m_Edges' = h.E
        /\ m_Vertices' = [i \in DOMAIN h.V |->
                            IF i - 1 \in ends /\ ~Contains(h.V[i].enclosing_faces, f)
                            THEN [h.V[i] EXCEPT !.enclosing_faces = Append(@, f)]
                            ELSE h.V[i]]

\* The polygons a caller may pass: nVerts distinct indices of existing
\* vertices, as the engine's hull builders pass them.
FaceInputs ==
  UNION {{vs \in [1..k -> Ids(m_Vertices)] : IsInjective(vs)} : k \in FaceSizes}

-----------------------------------------------------------------------------
\* Mutant: the minimum search starts from 0 instead of FLT_MAX.
GetMinMaxVerticesFromZero(V, axis) ==
  LET Step(a, i) ==
        LET c == Dot(axis, At(V, i).pos)
            b == IF c > a.maxC THEN [a EXCEPT !.maxC = c, !.max = i] ELSE a
        IN IF c <= b.minC THEN [b EXCEPT !.minC = c, !.min = i] ELSE b
  IN FoldLeft(Step, [min |-> 0, max |-> 0, minC |-> 0, maxC |-> -FltMax],
              [k \in 1..Len(V) |-> k - 1])

\* Hull::GetMinMaxVerticesInAxis: one pass over the vertices; a strictly
\* greater correlation moves the maximum (the first maximum wins), a
\* correlation at or below the minimum moves it (the last minimum wins).
\* With no vertices both results stay 0.
GetMinMaxVerticesInAxis(V, axis) ==
  LET Step(a, i) ==
        LET c == Dot(axis, At(V, i).pos)
            b == IF c > a.maxC THEN [a EXCEPT !.maxC = c, !.max = i] ELSE a
        IN IF c <= b.minC THEN [b EXCEPT !.minC = c, !.min = i] ELSE b
  IN FoldLeft(Step, [min |-> 0, max |-> 0, minC |-> FltMax, maxC |-> -FltMax],
              [k \in 1..Len(V) |-> k - 1])

-----------------------------------------------------------------------------
\* Hull::Hull(): all three lists empty.
Init == m_Vertices = <<>> /\ m_Edges = <<>> /\ m_Faces = <<>>

Next ==
  \/ \E v \in Positions : AddVertex(v)
  \/ \E vs \in FaceInputs : AddFace(vs)

Spec == Init /\ [][Next]_vars

-----------------------------------------------------------------------------
(* Properties.                                                            *)

Ends(e) == {At(m_Edges, e).vStart, At(m_Edges, e).vEnd}

\* FindEdge is meant to make an edge shared by two faces one edge, in
\* whichever direction the second face walks it: no two edges join the
\* same pair of vertices.
EdgesUnique == \A i, j \in Ids(m_Edges) : i # j => Ends(i) # Ends(j)

\* The adjacency lists built incrementally by ConstructNewEdge and AddFace
\* name exactly the other edges sharing a vertex and the other faces
\* sharing an edge, each once, whatever order faces and vertices come in.
AdjacencyExact ==
  /\ \A i \in Ids(m_Edges) :
       LET adj == At(m_Edges, i).adjoining_edge_ids IN
       /\ IsInjective(adj)
       /\ ToSet(adj) = {j \in Ids(m_Edges) \ {i} : Ends(i) \cap Ends(j) # {}}
  /\ \A f \in Ids(m_Faces) :
       LET adj == At(m_Faces, f).adjoining_face_ids IN
       /\ IsInjective(adj)
       /\ ToSet(adj) = {g \in Ids(m_Faces) \ {f} :
                          ToSet(At(m_Faces, f).edge_ids) \cap ToSet(At(m_Faces, g).edge_ids) # {}}

\* The incidence lists agree with each other: a vertex lists exactly the
\* edges ending at it and the faces through it, an edge exactly the faces
\* using it, each once; and a face's k-th edge joins its (k-1)-th and k-th
\* vertices, the first edge closing the polygon.
IncidenceConsistent ==
  /\ \A v \in Ids(m_Vertices) :
       /\ IsInjective(At(m_Vertices, v).enclosing_edges)
       /\ ToSet(At(m_Vertices, v).enclosing_edges) = {e \in Ids(m_Edges) : v \in Ends(e)}
       /\ IsInjective(At(m_Vertices, v).enclosing_faces)
       /\ ToSet(At(m_Vertices, v).enclosing_faces)
            = {f \in Ids(m_Faces) : v \in ToSet(At(m_Faces, f).vert_ids)}
  /\ \A e \in Ids(m_Edges) :
       /\ IsInjective(At(m_Edges, e).enclosing_faces)
       /\ ToSet(At(m_Edges, e).enclosing_faces)
            = {f \in Ids(m_Faces) : e \in ToSet(At(m_Faces, f).edge_ids)}
  /\ \A f \in Ids(m_Faces) :
       LET vs == At(m_Faces, f).vert_ids
           es == At(m_Faces, f).edge_ids
       IN Len(es) = Len(vs)
          /\ \A k \in 1..Len(vs) : Ends(es[k]) = {vs[IF k = 1 THEN Len(vs) ELSE k - 1], vs[k]}

\* The support query returns, for every axis, a vertex of least and one of
\* greatest projection, so the separating-axis clipping starts from a true
\* extreme point.
MinMaxExtremal ==
  m_Vertices # <<>> =>
    \A ax \in Axes :
      LET r == GetMinMaxVerticesInAxis(m_Vertices, ax)
          P(i) == Dot(ax, At(m_Vertices, i).pos)
      IN \A i \in Ids(m_Vertices) : P(r.min) <= P(i) /\ P(i) <= P(r.max)
=============================================================================
