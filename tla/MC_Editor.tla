----------------------------- MODULE MC_Editor -----------------------------
(***************************************************************************)
(* Model-checking instance of Editor: the constants are set in the .cfg   *)
(* files (MC_Editor*.cfg); this module adds the state constraint that     *)
(* keeps the selection and the clipboard within the identifier bound.     *)
(***************************************************************************)
EXTENDS Editor

\* Both lists hold distinct handles (plus at most one null), so they can
\* never outgrow the identifiers; the constraint documents that bound.
SeqBound == Len(selected) <= MaxEntities /\ Len(clipboard.list) <= MaxEntities + 1
=============================================================================
