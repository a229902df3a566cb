---------------------------- MODULE FuzzSession ----------------------------
(***************************************************************************)
(* The fuzzing campaigns of one project: the coroutine behind a "fuzz"     *)
(* task (_fuzz_action, src/src/pfui/handlers.py), the worker tasks it      *)
(* gathers (run_fuzz, src/src/pyfuzz/fuzz.py) and the pfrun VM each worker *)
(* supervises and, when cancelled, reaps (src/src/pyfuzz/env.py); the      *)
(* guards that keep a build or a clean away from a campaign; and the end   *)
(* of the process, where asyncio.run() cancels what is left.               *)
(*                                                                         *)
(* TaskManager is represented by its promise (ExclusiveJobs): one campaign *)
(* executes at a time, and its task is "running" until its coroutine is    *)
(* over.  That _on_done() runs a little later only delays a start.         *)
(***************************************************************************)
EXTENDS Naturals

CONSTANTS
  MaxCampaigns,  \* bound: "fuzz" tasks started one after the other
  Slots,         \* the instances of a campaign (-j)
  Monitor        \* whether campaigns run with monitor_loop()

ASSUME FuzzAssumption == MaxCampaigns \in Nat /\ Monitor \in BOOLEAN

Campaigns == 1 .. MaxCampaigns
Workers == Campaigns \X Slots
Crew(c) == {c} \X Slots

VARIABLES
  campaign,  \* where _fuzz_action() is suspended, for each campaign
  verdict,   \* the result of its gather(), which becomes the end of the task
  worker,    \* where run_fuzz() is suspended, or how it ended
  vm,        \* the pfrun process of each worker
  upkeep,    \* the "build" and "clean" tasks that are running
  loop       \* the server: running, in TaskManager.close(), in asyncio.run()'s
             \* final cancellation, exited

fuzzVars == <<campaign, verdict, worker, vm, upkeep, loop>>

Upkeep == {"build", "clean"}
WorkerEndings == {"returned", "raised", "cancelled"}
Ended(w) == worker[w] \in WorkerEndings

\* A VM that can still write to the project: no signal that ends it for sure was sent.
Alive(w) == vm[w] \in {"booting", "up", "asked"}

\* The fuzz task is "running": KeyBusy("fuzz:<project>") and running("fuzz", project).
FuzzRunning == \E c \in Campaigns : campaign[c] \notin {"none", "over"}

FuzzInit ==
  /\ campaign = [c \in Campaigns |-> "none"]
  /\ verdict = [c \in Campaigns |-> "none"]
  /\ worker = [w \in Workers |-> "none"]
  /\ vm = [w \in Workers |-> "none"]
  /\ upkeep = {}
  /\ loop = "running"

-----------------------------------------------------------------------------
(***************************************************************************)
(* Cancelling workers                                                      *)
(***************************************************************************)

\* cancel() that only interrupts the grace period of reap_process().
TellAbandons(W) ==
  /\ worker' = [w \in Workers |->
       IF w \notin W THEN worker[w]
       ELSE IF worker[w] \in {"created", "booting", "fuzzing"} THEN "told"
       ELSE IF worker[w] \in {"terminating", "killing"} THEN "dropped"
       ELSE worker[w]]
  /\ UNCHANGED vm

\* task.cancel() on each worker in W.  A worker that has not unwound yet is told
\* once; one that waits for its VM to exit after SIGTERM is thrown out of
\* wait_for() and sends SIGKILL (reap_process's except clause); one that waits
\* after SIGKILL abandons the wait.
Tell(W) ==
  /\ worker' = [w \in Workers |->
       IF w \notin W THEN worker[w]
       ELSE IF worker[w] \in {"created", "booting", "fuzzing"} THEN "told"
       ELSE IF worker[w] = "terminating" THEN "killing"
       ELSE IF worker[w] = "killing" THEN "dropped"
       ELSE worker[w]]
  /\ vm' = [w \in Workers |->
       IF w \in W /\ worker[w] = "terminating" /\ vm[w] = "asked" THEN "killed" ELSE vm[w]]

-----------------------------------------------------------------------------
(***************************************************************************)
(* Requests: task.start and task.stop                                      *)
(***************************************************************************)

\* A "fuzz" request without an exclusive key.
StartFuzzUnguarded(c) ==
  /\ loop = "running"
  /\ campaign[c] = "none"
  /\ \A d \in 1 .. c - 1 : campaign[d] # "none"
  /\ campaign' = [campaign EXCEPT ![c] = "created"]
  /\ UNCHANGED <<verdict, worker, vm, upkeep, loop>>

\* action "fuzz": only its own key is looked at, not a running build or clean.
StartFuzz(c) ==
  /\ loop = "running"
  /\ ~FuzzRunning
  /\ campaign[c] = "none"
  /\ \A d \in 1 .. c - 1 : campaign[d] # "none"
  /\ campaign' = [campaign EXCEPT ![c] = "created"]
  /\ UNCHANGED <<verdict, worker, vm, upkeep, loop>>

\* actions "build" and "clean".  The code lets several of one kind run: they are
\* one here, as nothing below depends on how many there are.
StartUpkeep(kind) ==
  /\ loop = "running"
  /\ ~FuzzRunning
  /\ kind \notin upkeep
  /\ upkeep' = upkeep \cup {kind}
  /\ UNCHANGED <<campaign, verdict, worker, vm, loop>>

\* A build is over, or stopped; a clean is over.
EndUpkeep(kind) ==
  /\ kind \in upkeep
  /\ upkeep' = upkeep \ {kind}
  /\ UNCHANGED <<campaign, verdict, worker, vm, loop>>

\* task.cancel() on _fuzz_action(), wherever it is suspended:
\*   - it has not begun: nothing of it will run;
\*   - in a gather() that has no result yet: gather cancels every worker;
\*   - in a gather() that has one, or in the `finally`: the cancellation replaces
\*     the result.
CancelCampaign(c) ==
  \/ /\ campaign[c] = "created"
     /\ campaign' = [campaign EXCEPT ![c] = "over"]
     /\ verdict' = [verdict EXCEPT ![c] = "cancelled"]
     /\ UNCHANGED <<worker, vm>>
  \/ /\ \/ campaign[c] = "gathering" /\ verdict[c] = "none"
        \/ campaign[c] = "draining"
     /\ Tell(Crew(c))
     /\ UNCHANGED <<campaign, verdict>>
  \/ /\ \/ campaign[c] = "gathering" /\ verdict[c] # "none"
        \/ campaign[c] = "leaving"
     /\ verdict' = [verdict EXCEPT ![c] = "cancelled"]
     /\ UNCHANGED <<campaign, worker, vm>>

StopFuzz(c) ==
  /\ loop = "running"
  /\ CancelCampaign(c)
  /\ UNCHANGED <<upkeep, loop>>

-----------------------------------------------------------------------------
(***************************************************************************)
(* _fuzz_action()                                                          *)
(***************************************************************************)

\* Its first step creates the workers and gathers them.
BeginCampaign(c) ==
  /\ campaign[c] = "created"
  /\ campaign' = [campaign EXCEPT ![c] = "gathering"]
  /\ worker' = [w \in Workers |-> IF w \in Crew(c) THEN "created" ELSE worker[w]]
  /\ UNCHANGED <<verdict, vm, upkeep, loop>>

\* The `finally` waits for the monitor it cancels; without a monitor the
\* coroutine ends at once.
Leaving == IF Monitor THEN "leaving" ELSE "over"

\* _fuzz_action() that re-raises a cancellation without gathering the workers again.
ResumeWithoutDraining(c) ==
  /\ campaign[c] = "gathering"
  /\ verdict[c] # "none"
  /\ campaign' = [campaign EXCEPT ![c] = Leaving]
  /\ IF verdict[c] = "cancelled" THEN Tell(Crew(c)) ELSE UNCHANGED <<worker, vm>>
  /\ UNCHANGED <<verdict, upkeep, loop>>

\* gather() has a result: a cancellation makes the handler cancel every worker, for
\* the second time when a stop began it, and wait for them all; the exception of
\* one worker ends the handler and leaves the other workers as they are.
Resume(c) ==
  /\ campaign[c] = "gathering"
  /\ verdict[c] # "none"
  /\ \/ /\ verdict[c] = "cancelled"
        /\ campaign' = [campaign EXCEPT ![c] = "draining"]
        /\ Tell(Crew(c))
     \/ /\ verdict[c] \in {"done", "error"}
        /\ campaign' = [campaign EXCEPT ![c] = Leaving]
        /\ UNCHANGED <<worker, vm>>
  /\ UNCHANGED <<verdict, upkeep, loop>>

\* The second gather(), with return_exceptions=True, is complete.
Drained(c) ==
  /\ campaign[c] = "draining"
  /\ \A w \in Crew(c) : Ended(w)
  /\ campaign' = [campaign EXCEPT ![c] = Leaving]
  /\ UNCHANGED <<verdict, worker, vm, upkeep, loop>>

\* The monitor has unwound.
MonitorGone(c) ==
  /\ campaign[c] = "leaving"
  /\ campaign' = [campaign EXCEPT ![c] = "over"]
  /\ UNCHANGED <<verdict, worker, vm, upkeep, loop>>

-----------------------------------------------------------------------------
(***************************************************************************)
(* run_fuzz() and its VM                                                   *)
(***************************************************************************)

\* A worker ends.  The first that does not return decides the result of a gather()
\* without return_exceptions; otherwise the last one to return does.
EndWorker(w, ending) ==
  LET c == w[1] IN
  /\ worker' = [worker EXCEPT ![w] = ending]
  /\ verdict' =
       IF campaign[c] # "gathering" \/ verdict[c] # "none" THEN verdict
       ELSE IF ending = "raised" THEN [verdict EXCEPT ![c] = "error"]
       ELSE IF ending = "cancelled" THEN [verdict EXCEPT ![c] = "cancelled"]
       ELSE IF \A x \in Crew(c) \ {w} : Ended(x) THEN [verdict EXCEPT ![c] = "done"]
       ELSE verdict

\* create_subprocess_exec() up to its first await: pfrun is forked, or something
\* before that fails.
Boot(w) ==
  /\ worker[w] = "created"
  /\ \/ /\ worker' = [worker EXCEPT ![w] = "booting"]
        /\ vm' = [vm EXCEPT ![w] = "booting"]
        /\ UNCHANGED verdict
     \/ /\ EndWorker(w, "raised")
        /\ UNCHANGED vm
  /\ UNCHANGED <<campaign, upkeep, loop>>

\* The pipes are connected: run_fuzz() enters terminate_on_cancel() and gathers the
\* two log streams and proc.wait().
Connect(w) ==
  /\ worker[w] = "booting"
  /\ worker' = [worker EXCEPT ![w] = "fuzzing"]
  /\ vm' = [vm EXCEPT ![w] = IF @ = "booting" THEN "up" ELSE @]
  /\ UNCHANGED <<campaign, verdict, upkeep, loop>>

\* The VM exits: by itself, or after a signal.
VMExits(w) ==
  /\ vm[w] \notin {"none", "gone"}
  /\ vm' = [vm EXCEPT ![w] = "gone"]
  /\ UNCHANGED <<campaign, verdict, worker, upkeep, loop>>

\* run_fuzz() sees the exit: exit code 0 returns, any other raises RuntimeError.
SeeExit(w) ==
  /\ worker[w] = "fuzzing"
  /\ vm[w] = "gone"
  /\ \E ending \in {"returned", "raised"} : EndWorker(w, ending)
  /\ UNCHANGED <<campaign, vm, upkeep, loop>>

\* Writing a log fails (a full disk): terminate_on_cancel() reaps on CancelledError
\* only, so the VM goes on with nobody waiting for it.
LogFails(w) ==
  /\ worker[w] = "fuzzing"
  /\ EndWorker(w, "raised")
  /\ UNCHANGED <<campaign, vm, upkeep, loop>>

\* The worker takes the cancellation: before its first step it just ends, during
\* create_subprocess_exec() asyncio kills the child, later reap_process() sends
\* SIGTERM.
Unwind(w) ==
  /\ worker[w] = "told"
  /\ \/ /\ vm[w] = "none"
        /\ EndWorker(w, "cancelled")
        /\ UNCHANGED vm
     \/ /\ vm[w] = "booting"
        /\ worker' = [worker EXCEPT ![w] = "killing"]
        /\ vm' = [vm EXCEPT ![w] = "killed"]
        /\ UNCHANGED verdict
     \/ /\ vm[w] \in {"up", "gone"}
        /\ worker' = [worker EXCEPT ![w] = "terminating"]
        /\ vm' = [vm EXCEPT ![w] = IF @ = "up" THEN "asked" ELSE @]
        /\ UNCHANGED verdict
  /\ UNCHANGED <<campaign, upkeep, loop>>

\* reap_process() whose timeout does not escalate.
GraceOverWaits(w) ==
  /\ worker[w] = "terminating"
  /\ vm[w] = "asked"
  /\ worker' = [worker EXCEPT ![w] = "killing"]
  /\ UNCHANGED <<campaign, verdict, vm, upkeep, loop>>

\* reap_process(): the VM has not exited within its timeout.
GraceOver(w) ==
  /\ worker[w] = "terminating"
  /\ vm[w] = "asked"
  /\ worker' = [worker EXCEPT ![w] = "killing"]
  /\ vm' = [vm EXCEPT ![w] = "killed"]
  /\ UNCHANGED <<campaign, verdict, upkeep, loop>>

\* proc.wait() returns, or was abandoned: CancelledError leaves run_fuzz().
Reaped(w) ==
  /\ \/ worker[w] \in {"terminating", "killing"} /\ vm[w] = "gone"
     \/ worker[w] = "dropped"
  /\ EndWorker(w, "cancelled")
  /\ UNCHANGED <<campaign, vm, upkeep, loop>>

-----------------------------------------------------------------------------
(***************************************************************************)
(* The end of the process                                                  *)
(***************************************************************************)

\* TaskManager.close(): the fuzz task is cancelled like by a stop; so is a build.
Shutdown ==
  /\ loop = "running"
  /\ loop' = "closing"
  /\ \/ \E c \in Campaigns : CancelCampaign(c)
     \/ ~FuzzRunning /\ UNCHANGED <<campaign, verdict, worker, vm>>
  /\ UNCHANGED upkeep

\* A main() that leaves once serve() has returned, without asyncio.run()'s last round.
CancelRestNot ==
  /\ loop = "closing"
  /\ ~FuzzRunning
  /\ "build" \notin upkeep
  /\ loop' = "exited"
  /\ UNCHANGED <<campaign, verdict, worker, vm, upkeep>>

\* close() has returned; asyncio.run() cancels every task that is left.
CancelRest ==
  /\ loop = "closing"
  /\ ~FuzzRunning
  /\ "build" \notin upkeep
  /\ loop' = "cancelling"
  /\ Tell(Workers)
  /\ UNCHANGED <<campaign, verdict, upkeep>>

\* asyncio.run() has gathered them and joined its threads.
Exit ==
  /\ loop = "cancelling"
  /\ \A w \in Workers : Ended(w) \/ worker[w] = "none"
  /\ upkeep = {}
  /\ loop' = "exited"
  /\ UNCHANGED <<campaign, verdict, worker, vm, upkeep>>

-----------------------------------------------------------------------------
FuzzNext ==
  \/ \E c \in Campaigns :
       \/ StartFuzz(c)
       \/ StopFuzz(c)
       \/ BeginCampaign(c)
       \/ Resume(c)
       \/ Drained(c)
       \/ MonitorGone(c)
  \/ \E w \in Workers :
       \/ Boot(w)
       \/ Connect(w)
       \/ VMExits(w)
       \/ SeeExit(w)
       \/ LogFails(w)
       \/ Unwind(w)
       \/ GraceOver(w)
       \/ Reaped(w)
  \/ \E kind \in Upkeep : StartUpkeep(kind) \/ EndUpkeep(kind)
  \/ Shutdown
  \/ CancelRest
  \/ Exit

\* The event loop runs what is ready, timers expire, and SIGKILL works.  Nothing
\* makes a VM exit by itself or on SIGTERM, or a user stop a campaign.
FuzzFairness ==
  /\ \A c \in Campaigns :
       /\ WF_fuzzVars(BeginCampaign(c))
       /\ WF_fuzzVars(Resume(c))
       /\ WF_fuzzVars(Drained(c))
       /\ WF_fuzzVars(MonitorGone(c))
  /\ \A w \in Workers :
       /\ WF_fuzzVars(Boot(w))
       /\ WF_fuzzVars(Connect(w))
       /\ WF_fuzzVars(vm[w] = "killed" /\ VMExits(w))
       /\ WF_fuzzVars(SeeExit(w))
       /\ WF_fuzzVars(Unwind(w))
       /\ WF_fuzzVars(GraceOver(w))
       /\ WF_fuzzVars(Reaped(w))

FuzzSpec == FuzzInit /\ [][FuzzNext]_fuzzVars

FairFuzzSpec == FuzzSpec /\ FuzzFairness

-----------------------------------------------------------------------------
(***************************************************************************)
(* Properties                                                              *)
(***************************************************************************)

\* Type correctness, and which VM states go with which point of run_fuzz().
FuzzTypeOK ==
  /\ campaign \in [Campaigns ->
                    {"none", "created", "gathering", "draining", "leaving", "over"}]
  /\ verdict \in [Campaigns -> {"none", "done", "error", "cancelled"}]
  /\ worker \in [Workers -> {"none", "created", "booting", "fuzzing", "told", "terminating",
                             "killing", "dropped"} \cup WorkerEndings]
  /\ vm \in [Workers -> {"none", "booting", "up", "asked", "killed", "gone"}]
  /\ upkeep \subseteq Upkeep
  /\ loop \in {"running", "closing", "cancelling", "exited"}
  /\ \A w \in Workers :
       /\ worker[w] \in {"none", "created"} => vm[w] = "none"
       /\ worker[w] = "booting" => vm[w] \in {"booting", "gone"}
       /\ worker[w] = "fuzzing" => vm[w] \in {"up", "gone"}
       /\ worker[w] \in {"killing", "dropped", "cancelled"} => vm[w] \in {"none", "killed", "gone"}
       /\ worker[w] = "returned" => vm[w] = "gone"

\* Some worker of the campaign ended with an exception of its own.
Failed(c) == \E w \in Crew(c) : worker[w] = "raised"

\* When the fuzz task of a campaign is over - all VMs exited, or it was stopped,
\* once or several times, at whatever point - none of its VMs can still write to
\* the project, unless a worker has failed: then the others are left alone.
OverMeansQuiet ==
  \A c \in Campaigns :
    campaign[c] = "over" /\ ~Failed(c) => \A w \in Crew(c) : ~Alive(w)

\* Two campaigns share the project's outputs, logs and cores (worker "main" of one
\* and of the other): their VMs overlap only after a worker of the earlier failed.
CampaignsDoNotOverlap ==
  \A w, x \in Workers : w[1] < x[1] /\ Alive(w) /\ Alive(x) => Failed(w[1])

\* What the refusal in task_start() says: "Cannot build while fuzzing is running on
\* this project", "Cannot clean while fuzzing is running on this project".
CannotBuildOrCleanWhileFuzzing ==
  [][upkeep' \ upkeep # {} =>
       \A w \in Workers : ~(worker[w] = "fuzzing" /\ vm[w] = "up")]_fuzzVars

\* What the dashboard's action menu says: "build/fuzz/clean are mutually exclusive per
\* project: only one may run at a time for a given project".
OneActionAtATime == ~(FuzzRunning /\ upkeep # {}) /\ upkeep # Upkeep

\* When the server process has exited, no VM survives it, those of workers that a
\* failed campaign left behind included; only one whose own log could not be written.
ExitLeavesNoVM ==
  loop = "exited" => \A w \in Workers : Alive(w) => worker[w] = "raised"

\* A stopped campaign comes to an end, even if its VMs ignore SIGTERM.
StopEndsCampaign ==
  \A w \in Workers : (worker[w] = "told") ~> (campaign[w[1]] = "over")

\* The VM of a worker that was cancelled comes to an end, whatever happens to the
\* campaign and however often it is cancelled again.
CancelEndsVM ==
  \A w \in Workers : (worker[w] = "told") ~> (vm[w] \in {"none", "gone"})
=============================================================================
