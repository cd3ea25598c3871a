--------------------------- MODULE DeletionQueue ---------------------------
(***************************************************************************)
(* VKContext::DeletionQueue (VKContext.h): deleters of Vulkan objects are  *)
(* queued with PushFunction and all run by Flush, newest first, after     *)
(* which the queue is cleared.  A deleter is abstracted to the resource   *)
(* it destroys; running it moves that resource to the freed log.          *)
(***************************************************************************)
EXTENDS Sequences, SequencesExt

CONSTANT Resources    \* the GPU objects whose deleters may be queued

VARIABLES
  m_Deletors,   \* the std::deque of pending deleters, oldest first
  freed         \* every resource destroyed so far, in destruction order

vars == <<m_Deletors, freed>>

Pending == ToSet(m_Deletors)

TypeOK ==
  /\ m_Deletors \in Seq(Resources)
  /\ freed \in Seq(Resources)

Init ==
  /\ m_Deletors = <<>>
  /\ freed = <<>>

\* PushFunction(f): append the deleter.  A resource's deleter is queued
\* once, by the code that created it, while the resource is alive.
PushFunction(r) ==
  /\ r \notin Pending \cup ToSet(freed)
  /\ m_Deletors' = Append(m_Deletors, r)
  /\ UNCHANGED freed

\* Mutant: one deleter, the newest, runs per Flush and is popped.
FlushOne ==
  /\ m_Deletors # <<>>
  /\ freed' = Append(freed, Last(m_Deletors))
  /\ m_Deletors' = Front(m_Deletors)

\* Flush(): call every deleter from rbegin() to rend(), then clear().
\* Flushing an empty queue changes nothing, so it is offered only when
\* the queue holds a deleter.
Flush ==
  /\ m_Deletors # <<>>
  /\ freed' = freed \o Reverse(m_Deletors)
  /\ m_Deletors' = <<>>

Next ==
  \/ \E r \in Resources : PushFunction(r)
  \/ Flush

\* The renderer flushes its queue every frame, so a non-empty queue is
\* not left unflushed forever.
Fairness == WF_vars(Flush)

Spec == Init /\ [][Next]_vars /\ Fairness

(***************************************************************************)
(* Properties                                                             *)
(***************************************************************************)

\* The deque, run newest first and cleared by Flush, implements the
\* promise of DeferredDestruction: every queued Vulkan object is
\* destroyed once, in the batch of the next flush, and flushes happen
\* while objects wait.  The abstract queue is the set of pending
\* deleters; the abstract log is the order in which deleters ran.
DD == INSTANCE DeferredDestruction WITH queued <- Pending, destroyed <- freed

ImplementsDeferredDestruction == DD!Spec
=============================================================================
