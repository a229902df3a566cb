------------------------- MODULE TaskManager_proofs -------------------------
(***************************************************************************)
(* TLAPS proofs about TaskManager, for every set of keys and requests and  *)
(* for every number of tasks.                                              *)
(***************************************************************************)
EXTENDS TaskManager, TLAPS

-----------------------------------------------------------------------------
(***************************************************************************)
(* Type correctness                                                        *)
(***************************************************************************)

LEMMA TypeOKInit == Init => TypeOK
<1> SUFFICES ASSUME Init PROVE TypeOK
  OBVIOUS
<1>1. job \in [TaskIds -> [key : Keys \cup {NoKey}, threadBacked : BOOLEAN]]
  BY DEF Init
<1>2. announce \in BOOLEAN
  BY DEF Init
<1>3. QED
  BY <1>1, <1>2, BoundsAssumption
  DEF Init, TypeOK, Started, TaskIds, Statuses, Executing, Endings, Answers

\* Every step of the registry keeps the types.
LEMMA TypeOKStep == TypeOK /\ [Next]_vars => TypeOK'
<1> SUFFICES ASSUME TypeOK, [Next]_vars PROVE TypeOK'
  OBVIOUS
<1> USE BoundsAssumption, RequestsAssumption
    DEF TypeOK, TaskIds, Started, Statuses, Executing, Endings, Answers
<1>1. ASSUME NEW req \in Requests, Start(req) PROVE TypeOK'
  BY <1>1 DEF Start, Register
<1>2. ASSUME NEW i \in TaskIds, SetProgress(i) PROVE TypeOK'
  BY <1>2 DEF SetProgress
<1>3. ASSUME NEW i \in TaskIds, Stop(i) PROVE TypeOK'
  BY <1>3 DEF Stop
<1>4. ASSUME NEW i \in TaskIds, NEW ending \in Endings, Finish(i, ending) PROVE TypeOK'
  BY <1>4 DEF Finish
<1>5. ASSUME NEW i \in TaskIds, OnDone(i) PROVE TypeOK'
  BY <1>5 DEF OnDone, StatusOf
<1>6. ASSUME NEW i \in TaskIds, WaiterWakes(i) PROVE TypeOK'
  BY <1>6 DEF WaiterWakes, AnswerOf
<1>7. ASSUME NEW W \in SUBSET TaskIds, WaitersLeave(W) PROVE TypeOK'
  BY <1>7 DEF WaitersLeave
<1>8. ASSUME NEW i \in TaskIds, FinalizeStart(i) PROVE TypeOK'
  BY <1>8 DEF FinalizeStart
<1>9. ASSUME NEW i \in TaskIds, FinalizeExpire(i) PROVE TypeOK'
  BY <1>9 DEF FinalizeExpire
<1>10. CASE RunBroadcast
  BY <1>10 DEF RunBroadcast
<1>11. CASE Close
  <2>1. Cancellable \subseteq TaskIds
    <3>1. Cancellable \subseteq tasks
      BY DEF Cancellable
    <3>2. tasks \subseteq TaskIds
      OBVIOUS
    <3>3. QED
      BY ONLY <3>1, <3>2
  <2>2. aio' \in [TaskIds -> {"none"} \cup Executing \cup Endings]
    BY <1>11 DEF Close
  <2>3. QED
    BY <1>11, <2>1, <2>2 DEF Close
<1>12. CASE CloseReaped
  BY <1>12 DEF CloseReaped
<1>13. CASE UNCHANGED vars
  BY <1>13 DEF vars
<1>14. QED
  BY <1>1, <1>2, <1>3, <1>4, <1>5, <1>6, <1>7, <1>8, <1>9, <1>10, <1>11, <1>12, <1>13
  DEF Next, TaskStep

\* Every reachable state is well typed.
THEOREM TypeCorrect == Spec => []TypeOK
BY TypeOKInit, TypeOKStep, PTL DEF Spec

-----------------------------------------------------------------------------
(***************************************************************************)
(* The life of a task                                                      *)
(***************************************************************************)

\* Ids that were handed out, and only those, have an asyncio task; a task leaves
\* the list, or has a finalizer, only after its done callback has run.
Lifecycle ==
  /\ \A i \in TaskIds : i \in Started <=> aio[i] # "none"
  /\ finished \subseteq Started
  /\ Started \ tasks \subseteq finished
  /\ \A i \in TaskIds : finalizer[i] # "none" => i \in finished
  /\ \A i \in TaskIds \ finished : status[i] = "running"
  /\ StatusTellsOutcome

LEMMA LifecycleInit == Init => Lifecycle
BY BoundsAssumption DEF Init, Lifecycle, StatusTellsOutcome, Started, TaskIds

\* Every step of the registry keeps the life of its tasks.
LEMMA LifecycleStep == TypeOK /\ Lifecycle /\ [Next]_vars => Lifecycle'
<1> SUFFICES ASSUME TypeOK, Lifecycle, [Next]_vars PROVE Lifecycle'
  OBVIOUS
<1> USE BoundsAssumption, RequestsAssumption
    DEF TypeOK, Lifecycle, StatusTellsOutcome, TaskIds, Started, Executing, Endings
<1>1. ASSUME NEW req \in Requests, Start(req) PROVE Lifecycle'
  <2> DEFINE n == counter + 1
  <2>1. n \in TaskIds /\ n \notin Started /\ Started' = Started \cup {n}
    BY <1>1 DEF Start, Register
  <2>2. aio' = [aio EXCEPT ![n] = "live"] /\ tasks' = tasks \cup {n}
    BY <1>1 DEF Start, Register
  <2>3. UNCHANGED <<status, finished, finalizer>>
    BY <1>1 DEF Start, Register
  <2>4. \A i \in TaskIds : i \in Started' <=> aio'[i] # "none"
    BY <2>1, <2>2
  <2>5. QED
    BY <2>1, <2>2, <2>3, <2>4
<1>2. ASSUME NEW i \in TaskIds, SetProgress(i) PROVE Lifecycle'
  BY <1>2 DEF SetProgress
<1>3. ASSUME NEW i \in TaskIds, Stop(i) PROVE Lifecycle'
  BY <1>3 DEF Stop
<1>4. ASSUME NEW i \in TaskIds, NEW ending \in Endings, Finish(i, ending) PROVE Lifecycle'
  BY <1>4 DEF Finish
<1>5. ASSUME NEW i \in TaskIds, OnDone(i) PROVE Lifecycle'
  BY <1>5 DEF OnDone, StatusOf
<1>6. ASSUME NEW i \in TaskIds, WaiterWakes(i) PROVE Lifecycle'
  BY <1>6 DEF WaiterWakes
<1>7. ASSUME NEW W \in SUBSET TaskIds, WaitersLeave(W) PROVE Lifecycle'
  BY <1>7 DEF WaitersLeave
<1>8. ASSUME NEW i \in TaskIds, FinalizeStart(i) PROVE Lifecycle'
  BY <1>8 DEF FinalizeStart
<1>9. ASSUME NEW i \in TaskIds, FinalizeExpire(i) PROVE Lifecycle'
  BY <1>9 DEF FinalizeExpire
<1>10. CASE RunBroadcast
  BY <1>10 DEF RunBroadcast
<1>11. CASE Close
  BY <1>11 DEF Close, Cancellable
<1>12. CASE CloseReaped
  BY <1>12 DEF CloseReaped
<1>13. CASE UNCHANGED vars
  BY <1>13 DEF vars
<1>14. QED
  BY <1>1, <1>2, <1>3, <1>4, <1>5, <1>6, <1>7, <1>8, <1>9, <1>10, <1>11, <1>12, <1>13
  DEF Next, TaskStep

\* Lifecycle is inductive relative to TypeOK: the strengthening of StatusTellsOutcome
\* the other theorems rest on.
THEOREM LifecycleInvariant == Spec => []Lifecycle
BY LifecycleInit, LifecycleStep, TypeCorrect, PTL DEF Spec

-----------------------------------------------------------------------------
(***************************************************************************)
(* Exclusive keys                                                          *)
(***************************************************************************)

\* Among the statuses that start() compares, a key occurs once.
KeyHeldOnce ==
  \A i, j \in tasks :
    i # j /\ status[i] = "running" /\ status[j] = "running" /\ job[i].key # NoKey
      => job[i].key # job[j].key

\* Whatever executes is listed and its status is still "running".
LEMMA ExecutingIsRunning ==
  TypeOK /\ Lifecycle =>
    \A i \in TaskIds : aio[i] \in Executing => i \in tasks \ finished /\ status[i] = "running"
BY DEF TypeOK, Lifecycle, StatusTellsOutcome, Executing, Endings, Started

LEMMA KeyHeldOnceStep == TypeOK /\ Lifecycle /\ KeyHeldOnce /\ [Next]_vars => KeyHeldOnce'
<1> SUFFICES ASSUME TypeOK, Lifecycle, KeyHeldOnce, [Next]_vars PROVE KeyHeldOnce'
  OBVIOUS
<1> USE DEF KeyHeldOnce
<1>1. ASSUME NEW req \in Requests, Start(req) PROVE KeyHeldOnce'
  <2> DEFINE n == counter + 1
  <2>1. n \in TaskIds /\ n \notin tasks /\ tasks' = tasks \cup {n}
    BY <1>1, BoundsAssumption DEF Start, Register, TypeOK, Started, TaskIds
  <2>2. job'[n].key = req.key /\ \A i \in tasks : job'[i] = job[i]
    BY <1>1, <2>1 DEF Start, Register, TypeOK
  <2>3. req.key # NoKey => \A i \in tasks : status[i] = "running" => job[i].key # req.key
    BY <1>1 DEF Start, KeyBusy
  <2>4. UNCHANGED status
    BY <1>1 DEF Start, Register
  <2>5. QED
    BY <2>1, <2>2, <2>3, <2>4
<1>2. ASSUME UNCHANGED <<tasks, job, status>> PROVE KeyHeldOnce'
  BY <1>2
<1>3. ASSUME NEW i \in TaskIds, OnDone(i) PROVE KeyHeldOnce'
  <2>1. \A k \in tasks : status'[k] = "running" => status[k] = "running"
    BY <1>3 DEF OnDone, StatusOf, TypeOK, TaskIds, Started
  <2>2. UNCHANGED <<tasks, job>>
    BY <1>3 DEF OnDone
  <2>3. QED
    BY <2>1, <2>2
<1>4. ASSUME NEW i \in TaskIds, FinalizeExpire(i) PROVE KeyHeldOnce'
  BY <1>4 DEF FinalizeExpire
<1>5. QED
  BY <1>1, <1>2, <1>3, <1>4
  DEF Next, TaskStep, vars, SetProgress, Stop, Finish, WaiterWakes, WaitersLeave,
      FinalizeStart, RunBroadcast, Close, CloseReaped

\* For every set of keys and every number of tasks: no two executing coroutines
\* share an exclusive key, even while one of them is still unwinding from stop().
THEOREM Exclusion == Spec => []KeyExclusive
<1>1. Init => KeyHeldOnce
  BY DEF Init, KeyHeldOnce
<1>2. TypeOK /\ Lifecycle /\ KeyHeldOnce => KeyExclusive
  BY ExecutingIsRunning DEF KeyHeldOnce, KeyExclusive
<1>3. QED
  BY <1>1, <1>2, KeyHeldOnceStep, TypeCorrect, LifecycleInvariant, PTL DEF Spec

-----------------------------------------------------------------------------
(***************************************************************************)
(* What is shown, what is told, what is never cancelled                    *)
(***************************************************************************)

\* The recorded status is how the coroutine ended, and nothing else.
THEOREM Outcome == Spec => []StatusTellsOutcome
<1>1. Lifecycle => StatusTellsOutcome
  BY DEF Lifecycle
<1>2. QED
  BY <1>1, LifecycleInvariant, PTL

\* Whatever executes can be found in the registry.
THEOREM Listing == Spec => []ExecutingIsListed
<1>1. TypeOK /\ Lifecycle => ExecutingIsListed
  BY ExecutingIsRunning DEF ExecutingIsListed
<1>2. QED
  BY <1>1, TypeCorrect, LifecycleInvariant, PTL

\* run_tracked() tells its caller what the registry recorded.
THEOREM Telling == Spec => []WaiterToldTruth
<1>1. Init => WaiterToldTruth
  BY DEF Init, WaiterToldTruth, Answers
<1>2. TypeOK /\ Lifecycle /\ WaiterToldTruth /\ [Next]_vars => WaiterToldTruth'
  <2> SUFFICES ASSUME TypeOK, Lifecycle, WaiterToldTruth, [Next]_vars PROVE WaiterToldTruth'
    OBVIOUS
  <2> USE DEF WaiterToldTruth, Answers
  <2>1. ASSUME NEW req \in Requests, Start(req) PROVE WaiterToldTruth'
    BY <2>1 DEF Start, Register, TypeOK
  <2>2. ASSUME NEW i \in TaskIds, OnDone(i) PROVE WaiterToldTruth'
    BY <2>2 DEF OnDone, TypeOK
  <2>3. ASSUME NEW i \in TaskIds, WaiterWakes(i) PROVE WaiterToldTruth'
    BY <2>3 DEF WaiterWakes, AnswerOf, StatusOf, TypeOK, Lifecycle, StatusTellsOutcome, Endings
  <2>4. ASSUME NEW W \in SUBSET TaskIds, WaitersLeave(W) PROVE WaiterToldTruth'
    BY <2>4 DEF WaitersLeave
  <2>5. ASSUME UNCHANGED <<waiter, finished, status>> PROVE WaiterToldTruth'
    BY <2>5
  <2>6. QED
    BY <2>1, <2>2, <2>3, <2>4, <2>5
    DEF Next, TaskStep, vars, SetProgress, Stop, Finish, FinalizeStart, FinalizeExpire,
        RunBroadcast, Close, CloseReaped
<1>3. QED
  BY <1>1, <1>2, TypeCorrect, LifecycleInvariant, PTL DEF Spec

\* Work that runs in a thread is never cancelled.
THEOREM ThreadSafety == Spec => []ThreadsRunOut
<1>1. Init => ThreadsRunOut
  BY DEF Init, ThreadsRunOut
<1>2. TypeOK /\ Lifecycle /\ ThreadsRunOut /\ [Next]_vars => ThreadsRunOut'
  <2> SUFFICES ASSUME TypeOK, Lifecycle, ThreadsRunOut, [Next]_vars PROVE ThreadsRunOut'
    OBVIOUS
  <2> USE DEF ThreadsRunOut
  <2>1. ASSUME NEW req \in Requests, Start(req) PROVE ThreadsRunOut'
    BY <2>1 DEF Start, Register, TypeOK
  <2>2. ASSUME NEW i \in TaskIds, Stop(i) PROVE ThreadsRunOut'
    BY <2>2 DEF Stop, Stoppable, TypeOK
  <2>3. ASSUME NEW i \in TaskIds, NEW ending \in Endings, Finish(i, ending) PROVE ThreadsRunOut'
    BY <2>3 DEF Finish, TypeOK, Endings
  <2>4. CASE Close
    BY <2>4 DEF Close, Cancellable
  <2>5. ASSUME UNCHANGED <<job, aio>> PROVE ThreadsRunOut'
    BY <2>5
  <2>6. QED
    BY <2>1, <2>2, <2>3, <2>4, <2>5
    DEF Next, TaskStep, vars, SetProgress, OnDone, WaiterWakes, WaitersLeave, FinalizeStart,
        FinalizeExpire, RunBroadcast, CloseReaped
<1>3. QED
  BY <1>1, <1>2, TypeCorrect, LifecycleInvariant, PTL DEF Spec

-----------------------------------------------------------------------------
(***************************************************************************)
(* Shutdown                                                                *)
(***************************************************************************)

\* From the first step of close() on, what executes in the event loop is what
\* close() waits for; it returns only when that is over.
Reaping ==
  /\ closing # "open" =>
       \A i \in TaskIds : aio[i] \in Executing => job[i].threadBacked \/ i \in reap
  /\ closing = "closed" => reap \subseteq finished

LEMMA ReapingStep == TypeOK /\ Lifecycle /\ Reaping /\ [Next]_vars => Reaping'
<1> SUFFICES ASSUME TypeOK, Lifecycle, Reaping, [Next]_vars PROVE Reaping'
  OBVIOUS
<1> USE DEF Reaping, Executing
<1>1. ASSUME NEW req \in Requests, Start(req) PROVE Reaping'
  BY <1>1 DEF Start, Register
<1>2. ASSUME NEW i \in TaskIds, Stop(i) PROVE Reaping'
  BY <1>2 DEF Stop, TypeOK
<1>3. ASSUME NEW i \in TaskIds, NEW ending \in Endings, Finish(i, ending) PROVE Reaping'
  BY <1>3 DEF Finish, TypeOK, Endings
<1>4. ASSUME NEW i \in TaskIds, OnDone(i) PROVE Reaping'
  BY <1>4 DEF OnDone
<1>5. CASE Close
  <2>1. \A i \in TaskIds : aio'[i] \in Executing => job[i].threadBacked \/ i \in Cancellable
    <3>1. \A i \in TaskIds : aio'[i] \in Executing => aio[i] \in Executing
      BY <1>5 DEF Close, Cancellable
    <3>2. QED
      BY <3>1, ExecutingIsRunning DEF Cancellable
  <2>2. QED
    BY <1>5, <2>1 DEF Close
<1>6. CASE CloseReaped
  BY <1>6 DEF CloseReaped
<1>7. ASSUME UNCHANGED <<closing, aio, job, reap, finished>> PROVE Reaping'
  BY <1>7
<1>8. QED
  BY <1>1, <1>2, <1>3, <1>4, <1>5, <1>6, <1>7
  DEF Next, TaskStep, vars, SetProgress, WaiterWakes, WaitersLeave, FinalizeStart,
      FinalizeExpire, RunBroadcast

\* When close() has returned, only threads are still at work.
THEOREM CleanShutdown == Spec => []ClosedMeansReaped
<1>1. Init => Reaping
  BY DEF Init, Reaping
<1>2. TypeOK /\ Lifecycle /\ Reaping => ClosedMeansReaped
  BY ExecutingIsRunning DEF Reaping, ClosedMeansReaped
<1>3. QED
  BY <1>1, <1>2, ReapingStep, TypeCorrect, LifecycleInvariant, PTL DEF Spec

-----------------------------------------------------------------------------
(***************************************************************************)
(* What a step may not do                                                  *)
(***************************************************************************)

\* A late progress report, a stop() or a shutdown changes nothing a client is
\* shown of a finished task.
THEOREM Frozen == Spec => FinishedIsFrozen
<1>1. TypeOK /\ Lifecycle /\ [Next]_vars => [\A i \in finished : Payload(i)' = Payload(i)]_vars
  <2> SUFFICES ASSUME TypeOK, Lifecycle, [Next]_vars, NEW i \in finished
               PROVE  Payload(i)' = Payload(i)
    OBVIOUS
  <2>1. i \in TaskIds /\ status[i] # "running" /\ i # counter + 1
    BY DEF TypeOK, Lifecycle, StatusTellsOutcome, StatusOf, Started
  <2>2. finished \subseteq finished'
    BY DEF Next, TaskStep, vars, Start, Register, SetProgress, Stop, Finish, OnDone, WaiterWakes,
           WaitersLeave, FinalizeStart, FinalizeExpire, RunBroadcast, Close, CloseReaped
  <2>3. status'[i] = status[i]
    BY <2>1
    DEF Next, TaskStep, vars, Start, Register, SetProgress, Stop, Finish, OnDone, WaiterWakes,
        WaitersLeave, FinalizeStart, FinalizeExpire, RunBroadcast, Close, CloseReaped, TypeOK
  <2>4. progress'[i] = progress[i]
    BY <2>1
    DEF Next, TaskStep, vars, Start, Register, SetProgress, Stop, Finish, OnDone, WaiterWakes,
        WaitersLeave, FinalizeStart, FinalizeExpire, RunBroadcast, Close, CloseReaped, TypeOK
  <2>5. QED
    BY <2>1, <2>2, <2>3, <2>4 DEF Payload, Stoppable
<1>2. QED
  BY <1>1, TypeCorrect, LifecycleInvariant, PTL DEF Spec, FinishedIsFrozen

-----------------------------------------------------------------------------
(***************************************************************************)
(* TaskManager implements ExclusiveJobs                                    *)
(***************************************************************************)

\* The steps that leave asyncio tasks as executing as they were, and the list and
\* the keys alone, are not seen by the abstract specification.
LEMMA PhaseUnchanged ==
  ASSUME UNCHANGED <<tasks, job>>,
         \A i \in TaskIds : aio'[i] = aio[i] \/ (aio[i] \in Executing /\ aio'[i] \in Executing)
  PROVE  UNCHANGED Abstract!jobVars
<1>1. \A i \in TaskIds : PhaseOf(i)' = PhaseOf(i)
  BY DEF PhaseOf, Executing, Endings
<1>2. QED
  BY <1>1 DEF Abstract!jobVars

LEMMA ImplementsStep ==
  TypeOK /\ Lifecycle /\ [Next]_vars => [Abstract!Next]_(Abstract!jobVars)
<1> SUFFICES ASSUME TypeOK, Lifecycle, [Next]_vars PROVE [Abstract!Next]_(Abstract!jobVars)
  OBVIOUS
<1> DEFINE phase == [i \in TaskIds |-> PhaseOf(i)]
           keyOf == [i \in TaskIds |-> job[i].key]
<1>1. ASSUME NEW req \in Requests, Start(req) PROVE Abstract!Next
  <2> PICK n \in TaskIds : n = counter + 1
    BY <1>1, BoundsAssumption DEF Start, TypeOK, TaskIds
  <2>1. n \in TaskIds /\ n \notin Started /\ aio[n] = "none"
    BY <1>1, BoundsAssumption DEF Start, Register, TypeOK, Lifecycle, Started, TaskIds
  <2>2. /\ aio' = [aio EXCEPT ![n] = "live"]
        /\ tasks' = tasks \cup {n}
        /\ job' = [job EXCEPT ![n] = [key |-> req.key, threadBacked |-> req.threadBacked]]
    BY <1>1 DEF Start, Register
  <2>3. phase[n] = "new"
    BY <2>1 DEF PhaseOf
  <2>4. ASSUME NEW i \in TaskIds, req.key # NoKey
        PROVE  ~(phase[i] = "executing" /\ keyOf[i] = req.key)
    <3>1. SUFFICES ASSUME phase[i] = "executing" PROVE job[i].key # req.key
      OBVIOUS
    <3>2. aio[i] \in Executing
      BY <3>1 DEF PhaseOf, Executing
    <3>3. i \in tasks /\ status[i] = "running"
      BY <3>2, ExecutingIsRunning
    <3>4. QED
      BY <1>1, <2>4, <3>3 DEF Start, KeyBusy
  <2>5. [i \in TaskIds |-> PhaseOf(i)'] = [phase EXCEPT ![n] = "executing"]
    <3>1. PhaseOf(n)' = "executing"
      BY <2>1, <2>2 DEF PhaseOf, Executing, TypeOK
    <3>2. \A i \in TaskIds \ {n} : PhaseOf(i)' = PhaseOf(i)
      BY <2>1, <2>2 DEF PhaseOf, TypeOK
    <3>3. QED
      BY <2>1, <3>1, <3>2
  <2>6. [i \in TaskIds |-> job'[i].key] = [keyOf EXCEPT ![n] = req.key]
    BY <2>1, <2>2 DEF TypeOK
  <2>7. req.key \in Keys \cup {NoKey}
    BY RequestsAssumption
  <2>8. Abstract!Begin(n, req.key)
    BY <2>3, <2>4, <2>5, <2>6 DEF Abstract!Begin
  <2>9. QED
    BY <2>1, <2>7, <2>8 DEF Abstract!Next
<1>2. ASSUME NEW i \in TaskIds, NEW ending \in Endings, Finish(i, ending) PROVE Abstract!Next
  <2>1. phase[i] = "executing"
    BY <1>2 DEF Finish, PhaseOf, Executing
  <2>2. i \in tasks
    BY <1>2, ExecutingIsRunning DEF Finish
  <2>3. aio' = [aio EXCEPT ![i] = ending] /\ UNCHANGED <<tasks, job>>
    BY <1>2 DEF Finish
  <2>4. PhaseOf(i)' = "over"
    BY <2>2, <2>3 DEF PhaseOf, Executing, Endings, TypeOK
  <2>5. \A k \in TaskIds \ {i} : PhaseOf(k)' = PhaseOf(k)
    BY <2>3 DEF PhaseOf, TypeOK
  <2>6. [k \in TaskIds |-> PhaseOf(k)'] = [phase EXCEPT ![i] = "over"]
    BY <2>4, <2>5
  <2>7. Abstract!End(i)
    BY <2>1, <2>3, <2>6 DEF Abstract!End
  <2>8. QED
    BY <2>7 DEF Abstract!Next
<1>3. ASSUME NEW i \in TaskIds, FinalizeExpire(i) PROVE [Abstract!Next]_(Abstract!jobVars)
  <2>1. aio[i] \in Endings
    BY <1>3 DEF FinalizeExpire, Lifecycle, StatusTellsOutcome
  <2>2. tasks' = tasks \ {i} /\ UNCHANGED <<aio, job>>
    BY <1>3 DEF FinalizeExpire
  <2>3. \A k \in TaskIds \ {i} : PhaseOf(k)' = PhaseOf(k)
    BY <2>2 DEF PhaseOf
  <2>4. CASE i \in tasks
    <3>1. phase[i] = "over" /\ PhaseOf(i)' = "forgotten"
      BY <2>1, <2>2, <2>4 DEF PhaseOf, Executing, Endings
    <3>2. [k \in TaskIds |-> PhaseOf(k)'] = [phase EXCEPT ![i] = "forgotten"]
      BY <2>3, <3>1
    <3>3. Abstract!Forget(i)
      BY <2>2, <3>1, <3>2 DEF Abstract!Forget
    <3>4. QED
      BY <3>3 DEF Abstract!Next
  <2>5. CASE i \notin tasks
    <3>1. UNCHANGED <<tasks, job>>
      BY <2>2, <2>5
    <3>2. QED
      BY <2>2, <3>1, PhaseUnchanged
  <2>6. QED
    BY <2>4, <2>5
<1>4. ASSUME NEW i \in TaskIds, Stop(i) PROVE UNCHANGED Abstract!jobVars
  <2>1. UNCHANGED <<tasks, job>>
    BY <1>4 DEF Stop
  <2>2. \A k \in TaskIds : aio'[k] = aio[k] \/ (aio[k] \in Executing /\ aio'[k] \in Executing)
    BY <1>4 DEF Stop, Executing, TypeOK
  <2>3. QED
    BY <2>1, <2>2, PhaseUnchanged
<1>5. CASE Close
  <2>1. UNCHANGED <<tasks, job>>
    BY <1>5 DEF Close
  <2>2. \A k \in TaskIds : aio'[k] = aio[k] \/ (aio[k] \in Executing /\ aio'[k] \in Executing)
    BY <1>5 DEF Close, Cancellable, Executing
  <2>3. QED
    BY <2>1, <2>2, PhaseUnchanged
<1>6. ASSUME UNCHANGED <<tasks, job, aio>> PROVE UNCHANGED Abstract!jobVars
  BY <1>6, PhaseUnchanged
<1>7. QED
  BY <1>1, <1>2, <1>3, <1>4, <1>5, <1>6
  DEF Next, TaskStep, vars, SetProgress, OnDone, WaiterWakes, WaitersLeave, FinalizeStart,
      RunBroadcast, CloseReaped

\* Event loop, callbacks, finalizers and shutdown included, the registry is the
\* simple job board of ExclusiveJobs.
THEOREM Implements == Spec => JobsSpec
<1>1. Init => Abstract!Init
  BY DEF Init, Abstract!Init, PhaseOf
<1>2. QED
  BY <1>1, ImplementsStep, TypeCorrect, LifecycleInvariant, PTL DEF Spec, JobsSpec, Abstract!Spec
=============================================================================
