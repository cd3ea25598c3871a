------------------------- MODULE DeferredDestruction -------------------------
(***************************************************************************)
(* What VKContext::DeletionQueue promises the renderer that queues GPU    *)
(* objects on it, stated without the deque: an object handed over is     *)
(* destroyed exactly once, at a flush, together with every other object   *)
(* handed over since the previous flush; nothing else is destroyed.  The  *)
(* order inside a batch is left open.  Flushes are not left undone for    *)
(* ever while objects wait.                                               *)
(***************************************************************************)
EXTENDS SequencesExt

CONSTANT Resources

VARIABLES
  queued,     \* objects handed over and not destroyed yet
  destroyed   \* the objects destroyed so far, in order

vars == <<queued, destroyed>>

Init ==
  /\ queued = {}
  /\ destroyed = <<>>

\* An object still alive is handed over once.
Queue(r) ==
  /\ r \notin queued \cup ToSet(destroyed)
  /\ queued' = queued \cup {r}
  /\ UNCHANGED destroyed

\* The whole batch is destroyed, in some order, and the queue is empty.
DestroyBatch ==
  /\ queued # {}
  /\ \E batch \in SetToSeqs(queued) : destroyed' = destroyed \o batch
  /\ queued' = {}

Next == (\E r \in Resources : Queue(r)) \/ DestroyBatch

Spec == Init /\ [][Next]_vars /\ WF_vars(DestroyBatch)
=============================================================================
