-------------------------------- MODULE GLTF --------------------------------
(***************************************************************************)
(* Model::LoadGLTF (src/Lumos/Source/Lumos/Graphics/ModelLoader/           *)
(* GLTFLoader.cpp): parse the file, LoadMaterials, then LoadNode on every *)
(* node of the default scene, which recurses into the node's children and *)
(* adds one mesh per primitive of the node's mesh, its vertices moved by  *)
(* the node's world matrix.                                               *)
(*                                                                         *)
(* A glTF document is chosen in Init and never changes.  Its nodes form a *)
(* forest given by a parent function; a node's children and the scene's   *)
(* root nodes are listed in increasing index order.  A node's local       *)
(* matrix (its TRS or its matrix property) is abstracted to an element of *)
(* a small non-commutative group, the permutations of 1..3, so that a     *)
(* product taken in the wrong order or with a factor missing is a         *)
(* different element.  Vertex data, buffers and accessors are left out;  *)
(* a loaded mesh records the node and primitive it came from, its         *)
(* material and the matrix applied to its vertices.  The recursion of     *)
(* LoadNode is an explicit stack of pending calls, one call per step.     *)
(***************************************************************************)
EXTENDS Integers, SequencesExt

CONSTANTS
  Nodes,          \* node indices 0 .. N-1
  Locals,         \* the local matrices a node may have (permutations of 1..3)
  MeshPrims,      \* material index (or -1) of each primitive of mesh 0
  TexIds,         \* texture indices
  ImageIds,       \* image indices
  SourceChoices,  \* values of a texture's source: -1 or an image index
  ParseResults    \* the values TinyGLTF's loader may return

VARIABLES
  doc,       \* the parsed tinygltf::Model
  phase,     \* "parse", "nodes" (LoadNode calls pending or done) or "crashed"
  stack,     \* pending LoadNode(node, parentTransform) calls, next first
  meshes,    \* the meshes added to the Model, in order
  materials  \* albedo texture of each loaded material

vars == <<doc, phase, stack, meshes, materials>>

NoNode    == -1
NoTexture == -1   \* an empty SharedPtr<Texture2D>
Identity  == <<1, 2, 3>>

\* The matrix product A * B: B is applied to a vertex first.
Mul(A, B) == [i \in 1 .. 3 |-> A[B[i]]]

\* Parent functions of forests over Nodes: following parents from any
\* node reaches a root.
RECURSIVE Reaches(_, _, _)
Reaches(p, n, k) == p[n] = NoNode \/ (k > 0 /\ Reaches(p, p[n], k - 1))
Forests ==
  {p \in [Nodes -> Nodes \cup {NoNode}] :
     \A n \in Nodes : p[n] # n /\ Reaches(p, n, Cardinality(Nodes))}

ChildrenOf(d, n) == SetToSortSeq({c \in Nodes : d.parent[c] = n}, <)

\* tinygltf::Model after a successful parse: one scene listing the root
\* nodes, node meshes (0 or none), textures and one material, whose
\* baseColorTexture index and KHR_materials_pbrSpecularGlossiness
\* diffuseTexture index are -1 when absent.
Parsed ==
  [ok: {TRUE}, scenes: {1}, parent: Forests, local: [Nodes -> Locals],
   mesh: [Nodes -> {NoNode, 0}], source: [TexIds -> SourceChoices],
   albedo: TexIds \cup {-1}, diffuse: TexIds \cup {-1}]

\* After a failed parse the model is left default-constructed: no scenes,
\* nodes, textures or materials.
Unparsed ==
  [ok |-> FALSE, scenes |-> 0, parent |-> [n \in {} |-> NoNode], local |-> <<>>,
   mesh |-> <<>>, source |-> [t \in {} |-> -1], albedo |-> NoNode,
   diffuse |-> NoNode]

Documents == (IF TRUE \in ParseResults THEN Parsed ELSE {})
               \cup (IF FALSE \in ParseResults THEN {Unparsed} ELSE {})

Init ==
  /\ doc \in Documents
  /\ phase = "parse"
  /\ stack = <<>>
  /\ meshes = <<>>
  /\ materials = <<>>
-----------------------------------------------------------------------------
(***************************************************************************)
(* LoadMaterials                                                          *)
(***************************************************************************)

\* The textures created from images: one per texture whose source is an
\* image, pushed in texture order.  An entry is the texture it came from.
LoadedTextures(d) ==
  SelectSeq(SetToSortSeq(DOMAIN d.source, <), LAMBDA t : d.source[t] # -1)

\* The TextureName lambda: textures[index].source indexes loadedTextures.
TextureName(d, index) ==
  LET lt == LoadedTextures(d) IN
  IF index >= 0 /\ d.source[index] >= 0 /\ d.source[index] < Len(lt)
    THEN lt[d.source[index] + 1]
    ELSE NoTexture

Undefined == -2   \* what an out-of-range std::vector read yields

\* The extension's diffuseTexture: loadedTextures[textures[index].source],
\* read without a bounds check.
SpecGlossDiffuse(d, index) ==
  LET lt == LoadedTextures(d) IN
  IF d.source[index] >= 0 /\ d.source[index] < Len(lt)
    THEN lt[d.source[index] + 1]
    ELSE Undefined

\* The material's albedo: TextureName(baseColorTexture.index), replaced
\* by the extension's diffuseTexture when the material has one.
LoadMaterials(d) ==
  IF d.ok THEN <<IF d.diffuse >= 0 THEN SpecGlossDiffuse(d, d.diffuse)
                 ELSE TextureName(d, d.albedo)>>
  ELSE <<>>
-----------------------------------------------------------------------------
(***************************************************************************)
(* LoadGLTF and LoadNode                                                  *)
(***************************************************************************)

Roots(d) == SetToSortSeq({n \in Nodes : d.parent[n] = NoNode}, <)

\* LoadGLTF: whatever the parse returned, load the materials and call
\* LoadNode(root, identity) for each node of scenes[max(0, defaultScene)];
\* with no scene that read is past the end of the vector.
LoadGLTF ==
  /\ phase = "parse"
  /\ materials' = LoadMaterials(doc)
  /\ IF doc.scenes = 0
       THEN phase' = "crashed" /\ UNCHANGED stack
       ELSE /\ phase' = "nodes"
            /\ stack' = [i \in 1 .. Len(Roots(doc)) |-> <<Roots(doc)[i], Identity>>]
  /\ UNCHANGED <<doc, meshes>>

\* Transform::SetWorldMatrix(parent) after SetLocalTransform(local): the
\* world matrix is parent * local.
WorldMatrix(parent, local) == Mul(parent, local)

\* LoadMesh(model, mesh, materials, transform): one Mesh per primitive,
\* its positions, normals and tangents moved by transform's world matrix.
LoadMesh(W) == [k \in 1 .. Len(MeshPrims) |-> [prim |-> k, world |-> W]]

\* Mutant: "if(node.mesh > 0)", which skips mesh 0.
NodeMeshesPositive(d, n, W) ==
  IF d.mesh[n] <= 0 THEN <<>>
  ELSE [k \in 1 .. Len(MeshPrims) |->
          LET m == LoadMesh(W)[k] IN
          [node |-> n, prim |-> m.prim, world |-> m.world,
           material |-> IF MeshPrims[k] >= 0 THEN MeshPrims[k] ELSE NoNode]]

\* LoadNode's "if(node.mesh >= 0)" block: the meshes of LoadMesh, each
\* named and given materials[material] when the primitive's index is >= 0,
\* added to the Model in order.
NodeMeshes(d, n, W) ==
  IF d.mesh[n] = NoNode THEN <<>>
  ELSE [k \in 1 .. Len(MeshPrims) |->
          LET m == LoadMesh(W)[k] IN
          [node |-> n, prim |-> m.prim, world |-> m.world,
           material |-> IF MeshPrims[k] >= 0 THEN MeshPrims[k] ELSE NoNode]]

\* LoadNode(mainModel, n, parentTransform): the local matrix, the world
\* matrix from parentTransform, AddMesh for each mesh of LoadMesh, then
\* LoadNode on each child with transform.GetLocalMatrix().  The calls for
\* the children run before the caller's remaining ones.
LoadNode ==
  LET n == Head(stack)[1]
      P == Head(stack)[2]
  IN /\ phase = "nodes" /\ stack # <<>>
     /\ meshes' = meshes \o NodeMeshes(doc, n, WorldMatrix(P, doc.local[n]))
     /\ stack' = [c \in 1 .. Len(ChildrenOf(doc, n)) |->
                    <<ChildrenOf(doc, n)[c], doc.local[n]>>] \o Tail(stack)
     /\ UNCHANGED <<doc, phase, materials>>

Next == LoadGLTF \/ LoadNode

Spec == Init /\ [][Next]_vars

Loaded == phase = "nodes" /\ stack = <<>>

-----------------------------------------------------------------------------
(***************************************************************************)
(* Properties                                                             *)
(***************************************************************************)

TypeOK ==
  /\ phase \in {"parse", "nodes", "crashed"}
  /\ stack \in Seq(Nodes \X Locals)
  /\ \A i \in 1 .. Len(meshes) : meshes[i].node \in Nodes

\* Every primitive of the mesh of every node of the scene's trees
\* (reached through the children lists of LoadNode's recursion) becomes
\* exactly one mesh of the Model once loading returns.
EveryPrimitiveLoadedOnce ==
  LET expected == {<<n, k>> \in Nodes \X (1 .. Len(MeshPrims)) : doc.mesh[n] # NoNode}
  IN Loaded =>
       /\ {<<meshes[i].node, meshes[i].prim>> : i \in 1 .. Len(meshes)} = expected
       /\ Len(meshes) = Cardinality(expected)

\* The world matrix of a node: the product of the local matrices on its
\* path from the scene root, the root's leftmost (glTF 2.0, 3.7.3).
RECURSIVE World(_, _)
World(d, n) ==
  IF d.parent[n] = NoNode THEN d.local[n] ELSE Mul(World(d, d.parent[n]), d.local[n])

\* The vertices of every mesh are moved by its node's world matrix.
MeshWorldMatrix ==
  \A i \in 1 .. Len(meshes) : meshes[i].world = World(doc, meshes[i].node)

\* A material's albedo texture is the one created for the texture its
\* diffuseTexture, or else its baseColorTexture, index names, or none when
\* that texture has no image.
MaterialTextureMatches ==
  LET index == IF doc.diffuse >= 0 THEN doc.diffuse ELSE doc.albedo IN
  phase # "parse" /\ doc.ok =>
    materials[1] = IF index >= 0 /\ doc.source[index] # -1 THEN index ELSE NoTexture

\* LoadGLTF only reads a scene the parsed model has.
SceneRead == phase # "crashed"
=============================================================================
