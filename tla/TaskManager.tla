---------------------------- MODULE TaskManager ----------------------------
(***************************************************************************)
(* The registry of long-running work behind the PFUI dashboard             *)
(* (src/src/pfui/tasks.py): TaskManager, the asyncio tasks it starts, the  *)
(* done callbacks and finalizers that retire them, the requests that wait  *)
(* for them and the shutdown that reaps them.                              *)
(*                                                                         *)
(* Everything runs on one asyncio event loop: an action is what the code   *)
(* does between two points where it can be suspended.  The coroutine given *)
(* to start() is opaque: it executes, may be cancelled and ends in one of  *)
(* three ways.  The time between the end of an asyncio task and the run of *)
(* its done callback (loop.call_soon) is visible: Finish and OnDone are    *)
(* two actions.                                                            *)
(*                                                                         *)
(* A broadcast computes the snapshot when it runs, not when it is          *)
(* scheduled, so two that are waiting would send the same list twice: one  *)
(* flag stands for all the broadcasts that are scheduled and have not run. *)
(***************************************************************************)
EXTENDS Naturals, FiniteSets

CONSTANTS
  Keys,       \* exclusive keys, such as "fuzz:<project>"
  NoKey,      \* exclusive_key = None
  Requests,   \* what the handlers ask for: exclusive_key, thread_backed, and whether
              \* they wait in run_tracked() or leave the task in the background
  MaxTasks,   \* bound: ids the counter can hand out
  MaxEmits    \* bound: progress reports accepted for one task

ASSUME NoKeyAssumption == NoKey \notin Keys
ASSUME RequestsAssumption ==
  Requests \subseteq [key : Keys \cup {NoKey}, threadBacked : BOOLEAN, tracked : BOOLEAN]
ASSUME BoundsAssumption == MaxTasks \in Nat /\ MaxEmits \in Nat

TaskIds == 1 .. MaxTasks

VARIABLES
  counter,     \* self._counter
  tasks,       \* the ids in self._tasks
  job,         \* exclusive_key and thread_backed of each TrackedTask
  status,      \* TrackedTask.status
  finished,    \* the tasks whose finished_at is set: their done callback has run
  progress,    \* how many progress reports the TrackedTask has taken
  aio,         \* the asyncio task: executing, asked to cancel, or how it ended
  waiter,      \* the request suspended in run_tracked(), and what it was told
  finalizer,   \* the _finalize() coroutine of the task
  announce,    \* whether a broadcast() scheduled by start() or set_progress() is to run
  closing,     \* progress of close()
  reap         \* the asyncio tasks close() is waiting for

vars == <<counter, tasks, job, status, finished, progress, aio, waiter,
          finalizer, announce, closing, reap>>

Statuses == {"running", "done", "error", "cancelled"}
Executing == {"live", "cancelling"}
Endings == {"returned", "raised", "unwound"}
Answers == {"result", "failed", "stopped"}

Started == 1 .. counter

\* The terminal status _on_done() derives from the end of the asyncio task.
StatusOf(ending) ==
  IF ending = "unwound" THEN "cancelled" ELSE IF ending = "raised" THEN "error" ELSE "done"

\* What run_tracked() tells its caller for each end of the asyncio task.
AnswerOf(ending) ==
  IF ending = "unwound" THEN "stopped" ELSE IF ending = "raised" THEN "failed" ELSE "result"

Stoppable(i) == status[i] = "running" /\ ~job[i].threadBacked

\* TrackedTask.payload(): the part of it that changes.
Payload(i) ==
  [status |-> status[i], finished |-> i \in finished,
   stoppable |-> Stoppable(i), progress |-> progress[i]]

\* snapshot(): what is sent to every client.
Snapshot == [i \in tasks |-> Payload(i)]

\* The test of start() if it took a task that was asked to stop for one that has.
KeyBusyUnlessStopped(key) ==
  \E i \in tasks : status[i] = "running" /\ aio[i] # "cancelling" /\ job[i].key = key

\* start(): some running task holds the key.
KeyBusy(key) == \E i \in tasks : status[i] = "running" /\ job[i].key = key

-----------------------------------------------------------------------------
Init ==
  /\ counter = 0
  /\ tasks = {}
  /\ job = [i \in TaskIds |-> [key |-> NoKey, threadBacked |-> FALSE]]
  /\ status = [i \in TaskIds |-> "running"]
  /\ finished = {}
  /\ progress = [i \in TaskIds |-> 0]
  /\ aio = [i \in TaskIds |-> "none"]
  /\ waiter = [i \in TaskIds |-> "none"]
  /\ finalizer = [i \in TaskIds |-> "none"]
  /\ announce = FALSE
  /\ closing = "open"
  /\ reap = {}

-----------------------------------------------------------------------------
(***************************************************************************)
(* Callers: start(), run_tracked(), set_progress(), stop()                 *)
(***************************************************************************)

\* What start() does once it has accepted a request.
Register(req) ==
  LET i == counter + 1 IN
  /\ counter' = i
  /\ tasks' = tasks \cup {i}
  /\ job' = [job EXCEPT ![i] = [key |-> req.key, threadBacked |-> req.threadBacked]]
  /\ aio' = [aio EXCEPT ![i] = "live"]
  /\ waiter' = IF req.tracked THEN [waiter EXCEPT ![i] = "waiting"] ELSE waiter
  /\ announce' = TRUE
  /\ UNCHANGED <<status, finished, progress, finalizer, closing, reap>>

\* start() that forgets to look at _closing.
StartWhileClosing(req) ==
  /\ counter < MaxTasks
  /\ req.key # NoKey => ~KeyBusy(req.key)
  /\ Register(req)

\* start(): refused while closing and while a running task holds the key.
Start(req) ==
  /\ closing = "open"
  /\ counter < MaxTasks
  /\ req.key # NoKey => ~KeyBusy(req.key)
  /\ Register(req)

\* set_progress() without the test of tracked.status.
SetProgressUnchecked(i) ==
  /\ i \in tasks
  /\ progress[i] < MaxEmits
  /\ progress' = [progress EXCEPT ![i] = @ + 1]
  /\ announce' = TRUE
  /\ UNCHANGED <<counter, tasks, job, status, finished, aio, waiter, finalizer, closing, reap>>

\* set_progress(), reached through ProgressReporter.emit(): a report for a task
\* that is unknown or no longer running is dropped.  The coroutines a task has
\* spawned may report after the task itself has ended.
SetProgress(i) ==
  /\ i \in tasks
  /\ status[i] = "running"
  /\ progress[i] < MaxEmits
  /\ progress' = [progress EXCEPT ![i] = @ + 1]
  /\ announce' = TRUE
  /\ UNCHANGED <<counter, tasks, job, status, finished, aio, waiter, finalizer, closing, reap>>

\* stop() that reports the task as cancelled at once: the status is free before
\* the coroutine has unwound.
StopMarksCancelled(i) ==
  /\ i \in tasks
  /\ Stoppable(i)
  /\ aio' = IF aio[i] = "live" THEN [aio EXCEPT ![i] = "cancelling"] ELSE aio
  /\ status' = [status EXCEPT ![i] = "cancelled"]
  /\ UNCHANGED <<counter, tasks, job, finished, progress, waiter, finalizer,
                 announce, closing, reap>>

\* stop() that takes the task off the list.
StopForgets(i) ==
  /\ i \in tasks
  /\ Stoppable(i)
  /\ aio' = IF aio[i] = "live" THEN [aio EXCEPT ![i] = "cancelling"] ELSE aio
  /\ tasks' = tasks \ {i}
  /\ UNCHANGED <<counter, job, status, finished, progress, waiter, finalizer,
                 announce, closing, reap>>

\* stop(): only asks the asyncio task to cancel.  cancel() does nothing to an
\* asyncio task that has ended and whose callback is still to come.
Stop(i) ==
  /\ i \in tasks
  /\ Stoppable(i)
  /\ aio' = IF aio[i] = "live" THEN [aio EXCEPT ![i] = "cancelling"] ELSE aio
  /\ UNCHANGED <<counter, tasks, job, status, finished, progress, waiter, finalizer,
                 announce, closing, reap>>

-----------------------------------------------------------------------------
(***************************************************************************)
(* The event loop: the coroutine, its callbacks, scheduled broadcasts      *)
(***************************************************************************)

\* The coroutine ends.  After a cancellation it may still return or raise.
Finish(i, ending) ==
  /\ aio[i] \in Executing
  /\ ending = "unwound" => aio[i] = "cancelling"
  /\ aio' = [aio EXCEPT ![i] = ending]
  /\ UNCHANGED <<counter, tasks, job, status, finished, progress, waiter, finalizer,
                 announce, closing, reap>>

\* _on_done() that calls every end that is not an exception a success.
OnDoneIgnoresCancel(i) ==
  /\ aio[i] \in Endings
  /\ i \notin finished
  /\ status' = [status EXCEPT ![i] = IF aio[i] = "raised" THEN "error" ELSE "done"]
  /\ finished' = finished \cup {i}
  /\ finalizer' = IF closing = "open" THEN [finalizer EXCEPT ![i] = "created"] ELSE finalizer
  /\ UNCHANGED <<counter, tasks, job, progress, aio, waiter, announce, closing, reap>>

\* _on_done() that creates a finalizer for a failed task only.
OnDoneNoFinalizer(i) ==
  /\ aio[i] \in Endings
  /\ i \notin finished
  /\ status' = [status EXCEPT ![i] = IF @ = "running" THEN StatusOf(aio[i]) ELSE @]
  /\ finished' = finished \cup {i}
  /\ finalizer' = IF closing = "open" /\ aio[i] # "unwound"
                  THEN [finalizer EXCEPT ![i] = "created"] ELSE finalizer
  /\ UNCHANGED <<counter, tasks, job, progress, aio, waiter, announce, closing, reap>>

\* _on_done(), the done callback of the asyncio task.
OnDone(i) ==
  /\ aio[i] \in Endings
  /\ i \notin finished
  /\ status' = [status EXCEPT ![i] = IF @ = "running" THEN StatusOf(aio[i]) ELSE @]
  /\ finished' = finished \cup {i}
  /\ finalizer' = IF closing = "open" THEN [finalizer EXCEPT ![i] = "created"] ELSE finalizer
  /\ UNCHANGED <<counter, tasks, job, progress, aio, waiter, announce, closing, reap>>

\* The scheduled broadcast() runs.  What it sends is in PfuiServer.
RunBroadcast ==
  /\ announce
  /\ announce' = FALSE
  /\ UNCHANGED <<counter, tasks, job, status, finished, progress, aio, waiter,
                 finalizer, closing, reap>>

\* run_tracked() that looks at the asyncio task as soon as it was asked to cancel.
WaiterWakesEarly(i) ==
  /\ waiter[i] = "waiting"
  /\ i \in finished \/ aio[i] = "cancelling"
  /\ waiter' = [waiter EXCEPT ![i] = IF aio[i] \in Endings THEN AnswerOf(aio[i]) ELSE "stopped"]
  /\ UNCHANGED <<counter, tasks, job, status, finished, progress, aio, finalizer,
                 announce, closing, reap>>

\* run_tracked() resumes: asyncio.wait() added its callback after _on_done().
WaiterWakes(i) ==
  /\ waiter[i] = "waiting"
  /\ i \in finished
  /\ waiter' = [waiter EXCEPT ![i] = AnswerOf(aio[i])]
  /\ UNCHANGED <<counter, tasks, job, status, finished, progress, aio, finalizer,
                 announce, closing, reap>>

\* The requests that wait for the tasks in W are cancelled: their socket closed.
\* asyncio.wait() does not cancel what it waits for.
WaitersLeave(W) ==
  /\ waiter' = [i \in TaskIds |->
                  IF i \in W /\ waiter[i] = "waiting" THEN "none" ELSE waiter[i]]
  /\ UNCHANGED <<counter, tasks, job, status, finished, progress, aio, finalizer,
                 announce, closing, reap>>

-----------------------------------------------------------------------------
(***************************************************************************)
(* Retiring a task, and shutting down                                      *)
(***************************************************************************)

\* _finalize() up to its sleep: it announces the end of the task.
FinalizeStart(i) ==
  /\ finalizer[i] = "created"
  /\ finalizer' = [finalizer EXCEPT ![i] = "sleeping"]
  /\ UNCHANGED <<counter, tasks, job, status, finished, progress, aio, waiter,
                 announce, closing, reap>>

\* FINISHED_TASK_TTL has passed: _finalize() forgets the task.
FinalizeExpire(i) ==
  /\ finalizer[i] = "sleeping"
  /\ finalizer' = [finalizer EXCEPT ![i] = "over"]
  /\ tasks' = tasks \ {i}
  /\ UNCHANGED <<counter, job, status, finished, progress, aio, waiter,
                 announce, closing, reap>>

\* close() that waits for the work in threads too, which it cannot cancel.
CloseWaitsForThreads ==
  LET pending == {i \in tasks : aio[i] \in Executing} IN
  /\ closing = "open"
  /\ closing' = "reaping"
  /\ reap' = pending
  /\ aio' = [i \in TaskIds |->
              IF i \in pending /\ ~job[i].threadBacked THEN "cancelling" ELSE aio[i]]
  /\ UNCHANGED <<counter, tasks, job, status, finished, progress, waiter, finalizer, announce>>

\* The asyncio tasks close() cancels and waits for.
Cancellable == {i \in tasks : aio[i] \in Executing /\ ~job[i].threadBacked}

\* close() up to its first await: cancel what can be cancelled.
Close ==
  /\ closing = "open"
  /\ closing' = "reaping"
  /\ reap' = Cancellable
  /\ aio' = [i \in TaskIds |-> IF i \in Cancellable THEN "cancelling" ELSE aio[i]]
  /\ UNCHANGED <<counter, tasks, job, status, finished, progress, waiter, finalizer, announce>>

\* The gather over the cancelled tasks is complete (their _on_done() ran first);
\* close() cancels the finalizers and returns.
CloseReaped ==
  /\ closing = "reaping"
  /\ reap \subseteq finished
  /\ closing' = "closed"
  /\ finalizer' = [i \in TaskIds |-> IF finalizer[i] = "none" THEN "none" ELSE "over"]
  /\ UNCHANGED <<counter, tasks, job, status, finished, progress, aio, waiter, announce, reap>>

-----------------------------------------------------------------------------
TaskStep(i) ==
  \/ SetProgress(i)
  \/ Stop(i)
  \/ \E ending \in Endings : Finish(i, ending)
  \/ OnDone(i)
  \/ WaiterWakes(i)
  \/ FinalizeStart(i)
  \/ FinalizeExpire(i)

Next ==
  \/ \E req \in Requests : Start(req)
  \/ \E i \in TaskIds : TaskStep(i)
  \/ \E W \in SUBSET TaskIds : WaitersLeave(W)
  \/ RunBroadcast
  \/ Close
  \/ CloseReaped

\* The event loop runs every callback and every scheduled coroutine, timers
\* expire, a coroutine that was asked to cancel unwinds (it reaps its children
\* within a timeout, FuzzSession.tla), and gather() resumes.  Nothing forces a
\* coroutine that nobody stopped to end, a client to ask or the server to stop.
LoopFairness ==
  /\ \A i \in TaskIds :
       /\ WF_vars(aio[i] = "cancelling" /\ \E ending \in Endings : Finish(i, ending))
       /\ WF_vars(OnDone(i))
       /\ WF_vars(WaiterWakes(i))
       /\ WF_vars(FinalizeStart(i))
       /\ WF_vars(FinalizeExpire(i))
  /\ WF_vars(RunBroadcast)
  /\ WF_vars(CloseReaped)

Spec == Init /\ [][Next]_vars

FairSpec == Spec /\ LoopFairness

-----------------------------------------------------------------------------
(***************************************************************************)
(* Properties                                                              *)
(***************************************************************************)

\* Type correctness of the registry and of what surrounds it.
TypeOK ==
  /\ counter \in 0 .. MaxTasks
  /\ tasks \subseteq Started
  /\ job \in [TaskIds -> [key : Keys \cup {NoKey}, threadBacked : BOOLEAN]]
  /\ status \in [TaskIds -> Statuses]
  /\ finished \subseteq TaskIds
  /\ progress \in [TaskIds -> 0 .. MaxEmits]
  /\ aio \in [TaskIds -> {"none"} \cup Executing \cup Endings]
  /\ waiter \in [TaskIds -> {"none", "waiting"} \cup Answers]
  /\ finalizer \in [TaskIds -> {"none", "created", "sleeping", "over"}]
  /\ announce \in BOOLEAN
  /\ closing \in {"open", "reaping", "closed"}
  /\ reap \subseteq TaskIds

\* An exclusive key is exclusive over executing coroutines, not merely over the
\* statuses that start() compares: a stopped task that is still unwinding (a
\* fuzzing campaign that is still killing its VMs) keeps its key until it is over.
KeyExclusive ==
  \A i, j \in TaskIds :
    /\ i # j
    /\ aio[i] \in Executing
    /\ aio[j] \in Executing
    /\ job[i].key # NoKey
    => job[i].key # job[j].key

\* The status a client is shown is how the coroutine really ended, whatever was
\* asked of it meanwhile: a stop() that came too late does not turn a result
\* into "cancelled", and nothing is terminal while it executes.
StatusTellsOutcome ==
  \A i \in Started :
    IF i \in finished
    THEN aio[i] \in Endings /\ status[i] = StatusOf(aio[i])
    ELSE status[i] = "running"

\* Whatever executes is listed: it can be found by running(), by the guards that
\* refuse a build or a clean, and by stop().
ExecutingIsListed ==
  \A i \in TaskIds : aio[i] \in Executing => i \in tasks

\* A request that waited for a task is told what the registry recorded for it.
WaiterToldTruth ==
  \A i \in TaskIds :
    waiter[i] \in Answers =>
      /\ i \in finished
      /\ (waiter[i] = "stopped") <=> (status[i] = "cancelled")
      /\ (waiter[i] = "failed") <=> (status[i] = "error")

\* Once close() has returned, nothing that could have been cancelled executes.
ClosedMeansReaped ==
  closing = "closed" =>
    \A i \in TaskIds : aio[i] \in Executing => job[i].threadBacked

\* Work in a thread is never cancelled: the thread would go on unobserved.
ThreadsRunOut ==
  \A i \in TaskIds :
    job[i].threadBacked => aio[i] \notin {"cancelling", "unwound"}

\* The payload of a finished task does not change any more, though coroutines
\* it has left behind may still report progress for it.
FinishedIsFrozen ==
  [][\A i \in finished : Payload(i)' = Payload(i)]_vars

\* A finished task leaves the list, unless the server shuts down first.
FinishedIsForgotten ==
  \A i \in TaskIds : (i \in finished) ~> (i \notin tasks \/ closing # "open")

\* close() returns: it waits for nothing that is not bound to end.
CloseReturns == (closing = "reaping") ~> (closing = "closed")

\* The abstract job life each task goes through.
PhaseOf(i) ==
  IF aio[i] = "none" THEN "new"
  ELSE IF aio[i] \in Executing THEN "executing"
  ELSE IF i \in tasks THEN "over" ELSE "forgotten"

Abstract == INSTANCE ExclusiveJobs WITH
  Jobs <- TaskIds,
  phase <- [i \in TaskIds |-> PhaseOf(i)],
  keyOf <- [i \in TaskIds |-> job[i].key]

\* The registry implements the promise stated in ExclusiveJobs.
JobsSpec == Abstract!Spec
=============================================================================
