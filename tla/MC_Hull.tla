------------------------------ MODULE MC_Hull ------------------------------
(***************************************************************************)
(* Model-checking instance of Hull: the position and axis sets, which a   *)
(* .cfg cannot write as tuples.                                           *)
(***************************************************************************)
EXTENDS Hull

\* Topology only: every vertex at the origin.
OriginOnly == {<<0, 0>>}

\* Positions on a 3 x 3 grid: ties and strict extremes in every axis.
Grid == {-1, 0, 1} \X {-1, 0, 1}

\* The coordinate axes and both diagonals.
TestAxes == {<<1, 0>>, <<0, 1>>, <<1, 1>>, <<1, -1>>}
=============================================================================
