--------------------------- MODULE ExclusiveJobs ---------------------------
(***************************************************************************)
(* What the dashboard's TaskManager (src/src/pfui/tasks.py) promises to    *)
(* its callers, without event loop, callbacks, finalizers or shutdown:     *)
(*                                                                         *)
(*   - a job that names an exclusive key begins only when no job with that *)
(*     key is still executing;                                             *)
(*   - a job that has begun executes until it is over by itself;           *)
(*   - a job is forgotten only after it is over, and it never comes back.  *)
(*                                                                         *)
(* TaskManager.tla implements this specification (THEOREM Implements in    *)
(* TaskManager_proofs.tla, PROPERTY JobsSpec of MCTaskManager.cfg).        *)
(***************************************************************************)
EXTENDS Naturals

CONSTANTS
  Jobs,    \* the identities jobs can get
  Keys,    \* the exclusive keys
  NoKey    \* a job that excludes nobody

VARIABLES
  phase,   \* where each job is in its life
  keyOf    \* the key each job was begun with

jobVars == <<phase, keyOf>>

Phases == {"new", "executing", "over", "forgotten"}

Init ==
  /\ phase = [j \in Jobs |-> "new"]
  /\ keyOf = [j \in Jobs |-> NoKey]

Begin(j, k) ==
  /\ phase[j] = "new"
  /\ k # NoKey => \A other \in Jobs : ~(phase[other] = "executing" /\ keyOf[other] = k)
  /\ phase' = [phase EXCEPT ![j] = "executing"]
  /\ keyOf' = [keyOf EXCEPT ![j] = k]

End(j) ==
  /\ phase[j] = "executing"
  /\ phase' = [phase EXCEPT ![j] = "over"]
  /\ UNCHANGED keyOf

Forget(j) ==
  /\ phase[j] = "over"
  /\ phase' = [phase EXCEPT ![j] = "forgotten"]
  /\ UNCHANGED keyOf

Next ==
  \E j \in Jobs :
    \/ \E k \in Keys \cup {NoKey} : Begin(j, k)
    \/ End(j)
    \/ Forget(j)

Spec == Init /\ [][Next]_jobVars
=============================================================================
