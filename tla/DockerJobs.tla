------------------------------ MODULE DockerJobs ------------------------------
(***************************************************************************)
(* The two commands that run in a container: run-dist, which builds a      *)
(* stock CPython once into a cache shared by all projects and runs a       *)
(* script with it (src/docker/dist/run_dist.py, src/src/pyfuzz/dist.py),   *)
(* and bisect, which looks for the commit that brought a crash             *)
(* (src/docker/bisect/run_bisect.py).                                      *)
(***************************************************************************)
EXTENDS Naturals, FiniteSets

CONSTANTS
  Jobs,       \* bound: run-dist commands
  Specs,      \* build specifications: ref, commit, configure arguments
  Files,      \* bound: steps of make install
  MaxStops,   \* bound: containers that stop or fail in the middle
  Commits,    \* length of the history that is bisected, oldest first
  NoSpec

ASSUME DockerAssumption ==
  /\ Files \in Nat \ {0} /\ MaxStops \in Nat /\ Commits \in Nat \ {0, 1}
  /\ NoSpec \notin Specs

VARIABLES
  job,       \* where each run-dist is, for which specification
  build,     \* the cache: for each specification the installed files and the stamp
  crowded,   \* history: specifications that two jobs have built at once
  stops,     \* containers stopped so far
  history,   \* the commits: does the script crash, does the build fail?
  bisect     \* where the bisect is, and what git knows

dockerVars == <<job, build, crowded, stops, history, bisect>>
dist == <<job, build, crowded, stops>>

-----------------------------------------------------------------------------
(***************************************************************************)
(* run-dist: one job is one container, with a source tree of its own.      *)
(***************************************************************************)

Installed == 1 .. Files
NotThere == [files |-> {}, manifest |-> FALSE, stamp |-> FALSE]
Building == {"remove", "make", "install", "manifest", "stamp"}
JobAt(j, pc) == job[j].pc = pc
JobGoes(j, pc) == job' = [job EXCEPT ![j].pc = pc]

DistInit ==
  /\ job = [j \in Jobs |-> [pc |-> "idle", spec |-> NoSpec, next |-> 1]]
  /\ build = [s \in Specs |-> NotThere]
  /\ crowded = {} /\ stops = 0

\* run_dist() copies the script and passes the options on.
RunDist(j) ==
  /\ JobAt(j, "idle") /\ JobGoes(j, "image")
  /\ UNCHANGED <<build, crowded, stops>>

\* docker_run(): no container without its image.
StartContainer(j) ==
  /\ JobAt(j, "image")
  /\ \/ JobGoes(j, "resolve")
     \/ JobGoes(j, "failed")
  /\ UNCHANGED <<build, crowded, stops>>

\* The refs are fetched, for the commit that the ref is now: it and the options are the
\* specification.
ResolveRef(j) ==
  /\ JobAt(j, "resolve")
  /\ \/ \E s \in Specs : job' = [job EXCEPT ![j] = [pc |-> "look", spec |-> s, next |-> 1]]
     \/ JobGoes(j, "failed")
  /\ UNCHANGED <<build, crowded, stops>>

\* build_is_complete(): stamp, interpreter (the first file) and manifest.
IsComplete(s) == build[s].stamp /\ 1 \in build[s].files /\ build[s].manifest

EnsureBuild(j) ==
  /\ JobAt(j, "look")
  /\ LET s == job[j].spec IN
       IF IsComplete(s)
       THEN JobGoes(j, "run") /\ UNCHANGED crowded
       ELSE /\ JobGoes(j, "remove")
            /\ crowded' = crowded \cup
                 {t \in {s} : \E k \in Jobs \ {j} : job[k].spec = s /\ job[k].pc \in Building}
  /\ UNCHANGED <<build, stops>>

RemoveOld(j) ==
  /\ JobAt(j, "remove")
  /\ build' = [build EXCEPT ![job[j].spec] = NotThere]
  /\ JobGoes(j, "make")
  /\ UNCHANGED <<crowded, stops>>

\* The build is marked when it is made, not when it is installed.
MakeAndStamp(j) ==
  /\ JobAt(j, "make") /\ JobGoes(j, "install")
  /\ build' = [build EXCEPT ![job[j].spec].stamp = TRUE]
  /\ UNCHANGED <<crowded, stops>>

Make(j) ==
  /\ JobAt(j, "make") /\ JobGoes(j, "install")
  /\ UNCHANGED <<build, crowded, stops>>

\* make install writes one file after the other; it makes the directories it needs.
Install(j) ==
  /\ JobAt(j, "install")
  /\ build' = [build EXCEPT ![job[j].spec].files = @ \cup {job[j].next}]
  /\ job' = [job EXCEPT ![j] = [pc |-> IF @.next = Files THEN "manifest" ELSE "install",
                                 spec |-> @.spec, next |-> @.next + 1]]
  /\ UNCHANGED <<crowded, stops>>

WriteManifest(j) ==
  /\ JobAt(j, "manifest")
  /\ build' = [build EXCEPT ![job[j].spec].manifest = TRUE]
  /\ JobGoes(j, "stamp")
  /\ UNCHANGED <<crowded, stops>>

WriteStamp(j) ==
  /\ JobAt(j, "stamp")
  /\ build' = [build EXCEPT ![job[j].spec].stamp = TRUE]
  /\ JobGoes(j, "run")
  /\ UNCHANGED <<crowded, stops>>

\* find_python(), then the script.
RunScript(j) ==
  /\ JobAt(j, "run")
  /\ JobGoes(j, IF 1 \in build[job[j].spec].files THEN "ran" ELSE "failed")
  /\ UNCHANGED <<build, crowded, stops>>

\* A command fails, or the container is stopped: the cache stays as it is.
StopJob(j) ==
  /\ job[j].pc \in Building \cup {"look", "run"} /\ stops < MaxStops
  /\ JobGoes(j, "failed")
  /\ stops' = stops + 1
  /\ UNCHANGED <<build, crowded>>

AgainDist(j) ==
  /\ job[j].pc \in {"ran", "failed"} /\ stops < MaxStops
  /\ job' = [job EXCEPT ![j] = [pc |-> "idle", spec |-> NoSpec, next |-> 1]]
  /\ stops' = stops + 1
  /\ UNCHANGED <<build, crowded>>

Dist(j) == \/ RunDist(j) \/ StartContainer(j) \/ ResolveRef(j) \/ EnsureBuild(j) \/ RemoveOld(j) \/ Make(j)
           \/ Install(j) \/ WriteManifest(j) \/ WriteStamp(j) \/ RunScript(j) \/ StopJob(j) \/ AgainDist(j)

DistSpec == DistInit /\ [][\E j \in Jobs : Dist(j)]_dist

-----------------------------------------------------------------------------
(***************************************************************************)
(* bisect: refs are commits of a linear history.                           *)
(***************************************************************************)

History == 1 .. Commits

\* A build that fails is taken for one that does not crash.
VerdictOfRun(c) == IF history[c].crashes /\ ~history[c].broken THEN "bad" ELSE "good"

\* What bisect.sh says of a commit: 125, 1 or 0.
Verdict(c) == IF history[c].broken THEN "skip" ELSE IF history[c].crashes THEN "bad" ELSE "good"

Asking == [pc |-> "bad", bad |-> 0, good |-> 0, skipped |-> {}, first |-> {},
           told |-> [bad |-> 0, good |-> 0]]  \* history: the refs that bisecting began with

BisectInit ==
  /\ history \in [History -> [crashes : BOOLEAN, broken : BOOLEAN]]
  /\ bisect = Asking

\* The bad ref is taken whatever the confirmation run says: it only warns.
AskBad ==
  /\ bisect.pc = "bad"
  /\ \E c \in History : bisect' = [bisect EXCEPT !.pc = "good", !.bad = c, !.told.bad = c]

\* A good ref the user knows is taken as it is; a guessed one only if its run is clean.
AskGood ==
  /\ bisect.pc = "good"
  /\ \E c \in History : \E known \in BOOLEAN :
       bisect' = IF known \/ Verdict(c) = "good"
                 THEN [bisect EXCEPT !.pc = "start", !.good = c, !.told.good = c] ELSE bisect

\* git bisect start, bad, good: nothing to bisect if the good ref does not precede the bad
\* one.  What git says is not looked at.
StartBisect ==
  /\ bisect.pc = "start"
  /\ bisect' = [bisect EXCEPT !.pc = IF bisect.good < bisect.bad THEN "run" ELSE "done"]

Between == {c \in History : bisect.good < c /\ c < bisect.bad}

\* git bisect run: any commit in between that is not skipped yet.  When only skipped ones
\* are left git's log names the bad commit as the first of those possible, and
\* show_result() shows it like a certain one.
Bisect ==
  /\ bisect.pc = "run"
  /\ \/ \E c \in Between \ bisect.skipped :
          bisect' = CASE Verdict(c) = "bad" -> [bisect EXCEPT !.bad = c]
                      [] Verdict(c) = "good" -> [bisect EXCEPT !.good = c]
                      [] OTHER -> [bisect EXCEPT !.skipped = @ \cup {c}]
     \/ /\ Between \subseteq bisect.skipped
        /\ bisect' = [bisect EXCEPT !.pc = "done", !.first = {bisect.bad}]

BisectJob == (AskBad \/ AskGood \/ StartBisect \/ Bisect) /\ UNCHANGED history

BisectSpec == BisectInit /\ [][BisectJob]_<<history, bisect>>

-----------------------------------------------------------------------------
(***************************************************************************)
(* Properties                                                              *)
(***************************************************************************)

DockerTypeOK ==
  /\ \A j \in Jobs : job[j].spec \in Specs \cup {NoSpec} /\ job[j].next \in 1 .. Files + 1
  /\ \A s \in Specs : build[s].files \subseteq Installed
  /\ crowded \subseteq Specs /\ stops \in 0 .. MaxStops
  /\ bisect.bad \in 0 .. Commits /\ bisect.good \in 0 .. Commits
  /\ bisect.first \subseteq History

\* A build that is marked complete is whole, wherever builds before it stopped; two jobs
\* that build one specification at once take each other's files away.
CachedBuildIsWhole ==
  \A s \in Specs \ crowded : build[s].stamp => build[s].files = Installed /\ build[s].manifest

\* The commit that bisect reports is the first that crashes of those that can be built, when
\* crashes do not go away and the refs are what the user says (show_result()): a commit
\* that cannot be built is never taken for a good one.
ReportsTheFirstBadCommit ==
  \A c \in bisect.first :
    LET steady == \A a, b \in History : a <= b /\ history[a].crashes => history[b].crashes
    IN  steady /\ history[bisect.told.bad].crashes /\ ~history[bisect.told.good].crashes =>
          /\ history[c].crashes
          /\ \A b \in History : history[b].crashes /\ b < c => history[b].broken
=============================================================================
