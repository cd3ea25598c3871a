------------------------------- MODULE MC_GLTF -------------------------------
(***************************************************************************)
(* Constants of GLTF that the configuration files cannot write: elements  *)
(* of the permutation group S3 and the primitives of the one mesh.        *)
(***************************************************************************)
EXTENDS GLTF

\* The identity, a rotation (order 3) and a reflection (order 2), which
\* generate S3 and do not commute.
GroupElements == {<<1, 2, 3>>, <<2, 3, 1>>, <<2, 1, 3>>}

\* A mesh of two primitives, the first with material 0, the second with
\* none.
TwoPrimitives == <<0, -1>>
\* Texture sources: no image, or one of the two images.
SourcesWithNone == {-1, 0, 1}
=============================================================================
