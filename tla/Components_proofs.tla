--------------------------- MODULE Components_proofs ---------------------------
(***************************************************************************)
(* TLAPS proofs about the programs that share nothing but files, one by    *)
(* one: the wheel builds and bisections in containers, for any number of   *)
(* jobs, specifications and installed files, and any history; the answers  *)
(* kept with the artifacts, which are only ever replaced by whole answers  *)
(* of the requests that may write them; the files of a project, which      *)
(* commands and requests of the dashboard change side by side; what is     *)
(* told of a campaign; the two programs that learn from a queue of events  *)
(* what has become of another: pfrun, whose exit code tells the truth in   *)
(* whatever order the guest's stop, its status and the timeout arrive, and *)
(* the LLDB driver, which diagnoses the crash and nothing else; and the    *)
(* former dashboard, which never fuzzes a project twice at a time.  The    *)
(* last section puts them together with the builds and the reproducers.    *)
(***************************************************************************)
EXTENDS Components, BuildPipeline_proofs, Reproducers_proofs

-----------------------------------------------------------------------------
(***************************************************************************)
(* The build cache                                                         *)
(***************************************************************************)

Jobbing == {"idle", "image", "resolve", "look", "run", "ran", "failed"} \cup Building

DistTyped ==
  /\ job \in [Jobs -> [pc : Jobbing, spec : Specs \cup {NoSpec}, next : Nat]]
  /\ build \in [Specs -> [files : SUBSET Nat, manifest : BOOLEAN, stamp : BOOLEAN]]
  /\ \A j \in Jobs : job[j].pc \in Building \cup {"look", "run"} => job[j].spec \in Specs

\* Every reachable state of the jobs and their cache is well typed.
THEOREM DistTypeCorrect == DistSpec => []DistTyped
<1>1. DistInit => DistTyped
  BY DockerAssumption DEF DistInit, DistTyped, Jobbing, Building, NotThere
<1>2. DistTyped /\ [\E j \in Jobs : Dist(j)]_dist => DistTyped'
  <2> SUFFICES ASSUME DistTyped, [\E j \in Jobs : Dist(j)]_dist PROVE DistTyped'
    OBVIOUS
  <2> USE DockerAssumption DEF DistTyped, Jobbing, Building, JobAt, JobGoes
  <2>0. ASSUME NEW j \in Jobs, NEW pc \in Jobbing, JobGoes(j, pc), job[j].spec \in Specs,
               build' \in [Specs -> [files : SUBSET Nat, manifest : BOOLEAN, stamp : BOOLEAN]]
        PROVE  DistTyped'
    <3> HIDE DEF Jobbing, Building
    <3>1. job' = [job EXCEPT ![j] = [job[j] EXCEPT !.pc = pc]]
      BY <2>0
    <3>2. job' \in [Jobs -> [pc : Jobbing, spec : Specs \cup {NoSpec}, next : Nat]]
      BY <2>0, <3>1
    <3>3. \A k \in Jobs : job'[k].spec = job[k].spec /\ (k # j => job'[k].pc = job[k].pc)
      BY <3>1
    <3>4. QED
      BY <2>0, <3>2, <3>3
  <2>1. CASE UNCHANGED dist
    BY <2>1 DEF dist
  <2>2. ASSUME NEW j \in Jobs, RunDist(j) \/ StartContainer(j) PROVE DistTyped'
    BY <2>2 DEF RunDist, StartContainer
  <2>3. ASSUME NEW j \in Jobs, ResolveRef(j) PROVE DistTyped'
    <3>1. CASE JobGoes(j, "failed")
      BY <2>3, <3>1 DEF ResolveRef
    <3>2. ASSUME NEW s \in Specs, job' = [job EXCEPT ![j] = [pc |-> "look", spec |-> s, next |-> 1]]
          PROVE DistTyped'
      BY <2>3, <3>2 DEF ResolveRef
    <3>3. QED
      BY <2>3, <3>1, <3>2 DEF ResolveRef
  <2>4. ASSUME NEW j \in Jobs, EnsureBuild(j) PROVE DistTyped'
    BY <2>4 DEF EnsureBuild
  <2>5. ASSUME NEW j \in Jobs, RemoveOld(j) PROVE DistTyped'
    BY <2>5 DEF RemoveOld, NotThere
  <2>6. ASSUME NEW j \in Jobs, Make(j) PROVE DistTyped'
    BY <2>6 DEF Make
  <2>7. ASSUME NEW j \in Jobs, Install(j) PROVE DistTyped'
    <3>1. job[j].spec \in Specs /\ job[j].pc = "install"
      BY <2>7 DEF Install
    <3>2. build' \in [Specs -> [files : SUBSET Nat, manifest : BOOLEAN, stamp : BOOLEAN]]
      BY <2>7, <3>1, SMTT(30) DEF Install
    <3>3. PICK pc \in {"install", "manifest"} :
             job' = [job EXCEPT ![j] = [pc |-> pc, spec |-> job[j].spec, next |-> job[j].next + 1]]
      BY <2>7 DEF Install
    <3>4. job' \in [Jobs -> [pc : Jobbing, spec : Specs \cup {NoSpec}, next : Nat]]
      BY <3>1, <3>3
    <3> HIDE DEF Jobbing, Building
    <3>5. ASSUME NEW k \in Jobs, job'[k].pc \in Building \cup {"look", "run"} PROVE job'[k].spec \in Specs
      <4>1. CASE k = j
        BY <3>1, <3>3, <4>1
      <4>2. CASE k # j
        BY <3>3, <3>5, <4>2
      <4>3. QED
        BY <4>1, <4>2
    <3>6. QED
      BY <3>2, <3>4, <3>5
  <2>8. ASSUME NEW j \in Jobs, WriteManifest(j) \/ WriteStamp(j) PROVE DistTyped'
    <3>1. job[j].spec \in Specs
      BY <2>8 DEF WriteManifest, WriteStamp
    <3>2. CASE WriteManifest(j)
      <4>1. build' = [build EXCEPT ![job[j].spec] = [build[job[j].spec] EXCEPT !.manifest = TRUE]]
        BY <3>2 DEF WriteManifest
      <4>2. build' \in [Specs -> [files : SUBSET Nat, manifest : BOOLEAN, stamp : BOOLEAN]]
        BY <3>1, <4>1
      <4>3. QED
        BY <2>0, <3>1, <3>2, <4>2 DEF WriteManifest
    <3>3. CASE WriteStamp(j)
      <4>1. build' = [build EXCEPT ![job[j].spec] = [build[job[j].spec] EXCEPT !.stamp = TRUE]]
        BY <3>3 DEF WriteStamp
      <4>2. build' \in [Specs -> [files : SUBSET Nat, manifest : BOOLEAN, stamp : BOOLEAN]]
        BY <3>1, <4>1
      <4>3. QED
        BY <2>0, <3>1, <3>3, <4>2 DEF WriteStamp
    <3>4. QED
      BY <2>8, <3>2, <3>3
  <2>9. ASSUME NEW j \in Jobs, RunScript(j) \/ StopJob(j) \/ AgainDist(j) PROVE DistTyped'
    <3>1. CASE RunScript(j)
      <4>1. \E pc \in {"ran", "failed"} : JobGoes(j, pc)
        BY <3>1 DEF RunScript
      <4>2. QED
        BY <3>1, <4>1 DEF RunScript
    <3>2. CASE StopJob(j)
      BY <3>2 DEF StopJob
    <3>3. CASE AgainDist(j)
      BY <3>3 DEF AgainDist
    <3>4. QED
      BY <2>9, <3>1, <3>2, <3>3
  <2>10. QED
    BY <2>1, <2>2, <2>3, <2>4, <2>5, <2>6, <2>7, <2>8, <2>9 DEF Dist
<1>3. QED
  BY <1>1, <1>2, PTL DEF DistSpec

-----------------------------------------------------------------------------
\* Two jobs that build one specification at a time are noticed; a build that is
\* alone knows what it has installed so far.
Alone ==
  \A j, k \in Jobs : j # k /\ job[j].pc \in Building /\ job[k].pc \in Building
                       /\ job[j].spec = job[k].spec => job[j].spec \in crowded

ProgressOf(j, s) ==
  /\ job[j].pc \in {"remove", "make"} => job[j].next = 1
  /\ job[j].pc = "make" => build[s] = NotThere
  /\ job[j].pc = "install" => /\ job[j].next \in 1 .. Files
                             /\ build[s].files = 1 .. (job[j].next - 1)
                             /\ ~build[s].manifest /\ ~build[s].stamp
  /\ job[j].pc \in {"manifest", "stamp"} => build[s].files = Installed /\ ~build[s].stamp
  /\ job[j].pc = "stamp" => build[s].manifest

Progress == \A j \in Jobs : job[j].spec \notin crowded => ProgressOf(j, job[j].spec)

Fresh == \A j \in Jobs : job[j].pc = "look" => job[j].next = 1

CacheInv == Alone /\ Progress /\ Fresh /\ CachedBuildIsWhole

\* A step of the job that builds a specification alone concerns nobody else.
LEMMA BuildingStep ==
  ASSUME DistTyped, CacheInv, NEW j \in Jobs, NEW s \in Specs,
         job[j].pc \in Building, job[j].spec = s,
         job'[j].spec = s, job'[j].pc \in Building \cup {"run"},
         \A k \in Jobs \ {j} : job'[k] = job[k],
         \A t \in Specs \ {s} : build'[t] = build[t],
         crowded' = crowded,
         s \notin crowded => ProgressOf(j, s)' /\ (build'[s].stamp => build'[s].files = Installed /\ build'[s].manifest)
  PROVE  CacheInv'
<1> USE DEF CacheInv
<1>1. Alone'
  BY DEF Alone, Building
<1>2. Progress'
  <2> SUFFICES ASSUME NEW k \in Jobs, job'[k].spec \notin crowded PROVE ProgressOf(k, job[k].spec)'
    BY DEF Progress
  <2>1. CASE k = j
    BY <2>1 DEF ProgressOf
  <2>2. CASE k # j /\ job[k].spec # s
    <3>1. job'[k] = job[k] /\ ProgressOf(k, job[k].spec)
      BY <2>2 DEF Progress
    <3>2. CASE job[k].pc \in Building
      <4>1. build'[job[k].spec] = build[job[k].spec]
        BY <2>2, <3>2 DEF DistTyped
      <4>2. QED
        BY <3>1, <4>1 DEF ProgressOf
    <3>3. CASE job[k].pc \notin Building
      BY <3>1, <3>3 DEF ProgressOf, Building
    <3>4. QED
      BY <3>2, <3>3
  <2>3. CASE k # j /\ job[k].spec = s
    <3>1. job'[k] = job[k] /\ job[k].pc \notin Building
      BY <2>3 DEF Alone
    <3>2. QED
      BY <3>1 DEF ProgressOf, Building
  <2>4. QED
    BY <2>1, <2>2, <2>3
<1>3. Fresh'
  BY DEF Fresh, Building
<1>4. CachedBuildIsWhole'
  <2> SUFFICES ASSUME NEW t \in Specs \ crowded, build'[t].stamp
               PROVE  build'[t].files = Installed /\ build'[t].manifest
    BY DEF CachedBuildIsWhole
  <2>1. CASE t = s
    BY <2>1
  <2>2. CASE t # s
    BY <2>2 DEF CachedBuildIsWhole
  <2>3. QED
    BY <2>1, <2>2
<1>5. QED
  BY <1>1, <1>2, <1>3, <1>4

\* For any number of jobs, specifications, files and stops: a build in the cache that is
\* marked complete is whole, unless two jobs have built it at once.
THEOREM CacheIsWhole == DistSpec => []CachedBuildIsWhole
<1>1. DistInit => CacheInv
  BY DEF DistInit, CacheInv, Alone, Progress, ProgressOf, Fresh, CachedBuildIsWhole, Building, NotThere
<1>2. DistTyped /\ CacheInv /\ [\E j \in Jobs : Dist(j)]_dist => CacheInv'
  <2> SUFFICES ASSUME DistTyped, CacheInv, [\E j \in Jobs : Dist(j)]_dist PROVE CacheInv'
    OBVIOUS
  <2> USE DockerAssumption DEF JobAt, JobGoes
  <2> DEFINE Whole(s) == build[s].stamp => build[s].files = Installed /\ build[s].manifest
  <2>1. CASE UNCHANGED dist
    BY <2>1 DEF dist, CacheInv, Alone, Progress, ProgressOf, Fresh, CachedBuildIsWhole
  <2>2. ASSUME NEW j \in Jobs, UNCHANGED <<build, crowded>>, \A k \in Jobs \ {j} : job'[k] = job[k],
               job'[j].pc \notin Building, job'[j].pc = "look" => job'[j].next = 1
        PROVE CacheInv'
    BY <2>2 DEF CacheInv, Alone, Progress, ProgressOf, Fresh, CachedBuildIsWhole, Building
  <2>3. ASSUME NEW j \in Jobs, RunDist(j) \/ StartContainer(j) \/ ResolveRef(j) PROVE CacheInv'
    <3>1. /\ UNCHANGED <<build, crowded>> /\ \A k \in Jobs \ {j} : job'[k] = job[k]
          /\ job'[j].pc \notin Building /\ (job'[j].pc = "look" => job'[j].next = 1)
      BY <2>3 DEF RunDist, StartContainer, ResolveRef, DistTyped, Building
    <3>2. QED
      BY <2>2, <3>1
  <2>4. ASSUME NEW j \in Jobs, EnsureBuild(j) PROVE CacheInv'
    <3> DEFINE s == job[j].spec
    <3>1. s \in Specs /\ job[j].pc = "look" /\ job[j].next = 1
      BY <2>4 DEF EnsureBuild, DistTyped, CacheInv, Fresh
    <3>2. CASE IsComplete(s)
      <4>1. /\ UNCHANGED <<build, crowded>> /\ \A k \in Jobs \ {j} : job'[k] = job[k]
            /\ job'[j].pc \notin Building /\ (job'[j].pc = "look" => job'[j].next = 1)
        BY <2>4, <3>2 DEF EnsureBuild, DistTyped, Building
      <4>2. QED
        BY <2>2, <4>1
    <3>3. CASE ~IsComplete(s)
      <4>1. job'[j].pc = "remove" /\ job'[j].spec = s /\ job'[j].next = 1
        BY <2>4, <3>1, <3>3 DEF EnsureBuild, DistTyped
      <4>2. \A k \in Jobs \ {j} : job'[k] = job[k]
        BY <2>4, <3>3 DEF EnsureBuild, DistTyped
      <4>3. build' = build /\ crowded \subseteq crowded'
        BY <2>4, <3>3 DEF EnsureBuild
      <4>4. (\E k \in Jobs \ {j} : job[k].spec = s /\ job[k].pc \in Building) => s \in crowded'
        BY <2>4, <3>3 DEF EnsureBuild
      <4>5. Alone'
        BY <4>1, <4>2, <4>3, <4>4 DEF CacheInv, Alone
      <4>6. Progress'
        BY <4>1, <4>2, <4>3 DEF CacheInv, Progress, ProgressOf
      <4>7. Fresh' /\ CachedBuildIsWhole'
        BY <4>1, <4>2, <4>3 DEF CacheInv, Fresh, CachedBuildIsWhole
      <4>8. QED
        BY <4>5, <4>6, <4>7 DEF CacheInv
    <3>4. QED
      BY <3>2, <3>3
  <2>5. ASSUME NEW j \in Jobs, NEW s \in Specs, job[j].spec = s,
               RemoveOld(j) \/ Make(j) \/ Install(j) \/ WriteManifest(j) \/ WriteStamp(j)
        PROVE CacheInv'
    <3>1. job[j].pc \in Building /\ crowded' = crowded
      BY <2>5 DEF RemoveOld, Make, Install, WriteManifest, WriteStamp, Building
    <3>2. job'[j].spec = s /\ job'[j].pc \in Building \cup {"run"}
      BY <2>5 DEF RemoveOld, Make, Install, WriteManifest, WriteStamp, Building, DistTyped
    <3>3. \A k \in Jobs \ {j} : job'[k] = job[k]
      BY <2>5 DEF RemoveOld, Make, Install, WriteManifest, WriteStamp, DistTyped
    <3>4. \A t \in Specs \ {s} : build'[t] = build[t]
      BY <2>5 DEF RemoveOld, Make, Install, WriteManifest, WriteStamp, DistTyped
    <3>5. ASSUME s \notin crowded PROVE ProgressOf(j, s)' /\ Whole(s)'
      <4>1. ProgressOf(j, s) /\ Whole(s)
        BY <2>5, <3>5 DEF CacheInv, Progress, CachedBuildIsWhole
      <4>2. CASE RemoveOld(j)
        BY <2>5, <4>1, <4>2 DEF RemoveOld, ProgressOf, NotThere, DistTyped
      <4>3. CASE Make(j)
        <5>1. /\ job[j].pc = "make" /\ job'[j].pc = "install" /\ job'[j].next = job[j].next
              /\ build' = build
          BY <4>3 DEF Make, DistTyped
        <5>2. job[j].next = 1 /\ build[s] = NotThere
          BY <4>1, <5>1 DEF ProgressOf
        <5>3. QED
          BY <5>1, <5>2 DEF ProgressOf, NotThere
      <4>4. CASE Install(j)
        <5>1. job[j].pc = "install" /\ job[j].next \in 1 .. Files
          BY <4>1, <4>4 DEF Install, ProgressOf
        <5>2. build'[s] = [build[s] EXCEPT !.files = @ \cup {job[j].next}]
          BY <2>5, <4>4 DEF Install, DistTyped
        <5>3. job'[j].next = job[j].next + 1 /\ job'[j].pc = IF job[j].next = Files THEN "manifest" ELSE "install"
          BY <4>4 DEF Install, DistTyped
        <5>4. build'[s].files = 1 .. job[j].next /\ ~build'[s].manifest /\ ~build'[s].stamp
          BY <4>1, <5>1, <5>2 DEF ProgressOf, DistTyped
        <5>5. QED
          BY <5>1, <5>3, <5>4 DEF ProgressOf, Installed
      <4>5. CASE WriteManifest(j)
        BY <2>5, <4>1, <4>5 DEF WriteManifest, ProgressOf, DistTyped
      <4>6. CASE WriteStamp(j)
        <5>1. job[j].pc = "stamp" /\ job'[j].pc = "run"
          BY <4>6 DEF WriteStamp, DistTyped
        <5>2. build'[s] = [build[s] EXCEPT !.stamp = TRUE]
          BY <2>5, <4>6 DEF WriteStamp, DistTyped
        <5>3. build'[s].files = Installed /\ build'[s].manifest
          BY <4>1, <5>1, <5>2 DEF ProgressOf, DistTyped
        <5>4. QED
          BY <5>1, <5>3 DEF ProgressOf
      <4>7. QED
        BY <2>5, <4>2, <4>3, <4>4, <4>5, <4>6
    <3>6. QED
      BY <2>5, <3>1, <3>2, <3>3, <3>4, <3>5, BuildingStep
  <2>6. ASSUME NEW j \in Jobs, RunScript(j) \/ StopJob(j) \/ AgainDist(j) PROVE CacheInv'
    <3>1. /\ UNCHANGED <<build, crowded>> /\ \A k \in Jobs \ {j} : job'[k] = job[k]
          /\ job'[j].pc \notin Building \cup {"look"}
      BY <2>6 DEF RunScript, StopJob, AgainDist, DistTyped, Building
    <3>2. QED
      BY <2>2, <3>1
  <2>7. \A j \in Jobs : RemoveOld(j) \/ Make(j) \/ Install(j) \/ WriteManifest(j) \/ WriteStamp(j) => job[j].spec \in Specs
    BY DEF RemoveOld, Make, Install, WriteManifest, WriteStamp, DistTyped, Building
  <2>8. QED
    BY <2>1, <2>3, <2>4, <2>5, <2>6, <2>7 DEF Dist
<1>3. CacheInv => CachedBuildIsWhole
  BY DEF CacheInv
<1>4. QED
  BY <1>1, <1>2, <1>3, DistTypeCorrect, PTL DEF DistSpec

-----------------------------------------------------------------------------
(***************************************************************************)
(* Bisect: whatever the order in which git tries the commits, the good and *)
(* the bad one enclose those that are in question, and what lies between   *)
(* them when git is done cannot be built.                                  *)
(***************************************************************************)

BisectTyped ==
  /\ history \in [History -> [crashes : BOOLEAN, broken : BOOLEAN]]
  /\ bisect \in [pc : {"bad", "good", "start", "run", "done"}, bad : 0 .. Commits, good : 0 .. Commits,
                 skipped : SUBSET History, first : SUBSET History,
                 told : [bad : 0 .. Commits, good : 0 .. Commits]]

IsBad(c) == c = bisect.told.bad \/ history[c].crashes
IsGood(c) == c = bisect.told.good \/ ~history[c].crashes

Enclosed ==
  /\ bisect.pc # "bad" => bisect.bad \in History /\ IsBad(bisect.bad)
  /\ bisect.pc \in {"start", "run"} => bisect.good \in History /\ IsGood(bisect.good)
  /\ bisect.pc \in {"bad", "good", "start"} => bisect.told.bad = bisect.bad /\ bisect.told.good = bisect.good
  /\ \A c \in bisect.skipped : history[c].broken
  /\ bisect.pc # "done" => bisect.first = {}

BisectInv == BisectTyped /\ Enclosed /\ ReportsTheFirstBadCommit

\* What git has been told encloses the commit that is searched, whatever was run before.
LEMMA BisectInvHolds == BisectSpec => []BisectInv
<1>1. BisectInit => BisectInv
  BY DockerAssumption DEF BisectInit, BisectInv, BisectTyped, Enclosed, ReportsTheFirstBadCommit, Asking
<1>2. BisectInv /\ [BisectJob]_<<history, bisect>> => BisectInv'
  <2> SUFFICES ASSUME BisectInv, [BisectJob]_<<history, bisect>> PROVE BisectInv'
    OBVIOUS
  <2> USE DockerAssumption
  <2>1. CASE UNCHANGED <<history, bisect>>
    BY <2>1 DEF BisectInv, BisectTyped, Enclosed, IsBad, IsGood, ReportsTheFirstBadCommit
  <2>2. CASE AskBad /\ UNCHANGED history
    <3>1. PICK c \in History : bisect' = [bisect EXCEPT !.pc = "good", !.bad = c, !.told.bad = c]
      BY <2>2 DEF AskBad
    <3>2. bisect.pc = "bad"
      BY <2>2 DEF AskBad
    <3>3. /\ bisect'.bad = c /\ bisect'.good = bisect.good /\ bisect'.skipped = bisect.skipped
          /\ bisect'.first = {} /\ bisect'.pc = "good"
          /\ bisect'.told.bad = c /\ bisect'.told.good = bisect.told.good
      BY <3>1, <3>2 DEF BisectInv, BisectTyped, Enclosed
    <3>4. BisectTyped'
      <4>1. c \in 0 .. Commits
        BY DEF History
      <4>2. QED
        BY <2>2, <3>1, <4>1 DEF BisectInv, BisectTyped
    <3>5. Enclosed'
      BY <2>2, <3>2, <3>3 DEF BisectInv, Enclosed, IsBad, IsGood
    <3>6. QED
      BY <3>3, <3>4, <3>5 DEF BisectInv, ReportsTheFirstBadCommit
  <2>3. CASE AskGood /\ UNCHANGED history
    <3>1. CASE bisect' = bisect
      BY <2>3, <3>1 DEF BisectInv, BisectTyped, Enclosed, IsBad, IsGood, ReportsTheFirstBadCommit
    <3>2. ASSUME NEW c \in History, bisect' = [bisect EXCEPT !.pc = "start", !.good = c, !.told.good = c]
          PROVE  BisectInv'
      <4>1. bisect.pc = "good"
        BY <2>3 DEF AskGood
      <4>2. QED
        <5>1. /\ bisect'.bad = bisect.bad /\ bisect'.good = c /\ bisect'.skipped = bisect.skipped
              /\ bisect'.first = {} /\ bisect'.pc = "start"
              /\ bisect'.told.bad = bisect.told.bad /\ bisect'.told.good = c
          BY <3>2, <4>1 DEF BisectInv, BisectTyped, Enclosed
        <5>2. BisectTyped'
          <6>1. c \in 0 .. Commits
            BY DEF History
          <6>2. QED
            BY <2>3, <3>2, <6>1 DEF BisectInv, BisectTyped
        <5>3. Enclosed'
          BY <2>3, <4>1, <5>1 DEF BisectInv, Enclosed, IsBad, IsGood
        <5>4. QED
          BY <5>1, <5>2, <5>3 DEF BisectInv, ReportsTheFirstBadCommit
    <3>3. \/ bisect' = bisect
          \/ \E c \in History : bisect' = [bisect EXCEPT !.pc = "start", !.good = c, !.told.good = c]
      BY <2>3 DEF AskGood
    <3>4. QED
      BY <3>1, <3>2, <3>3
  <2>4. CASE StartBisect /\ UNCHANGED history
    <3>1. bisect.pc = "start" /\ \E pc \in {"run", "done"} : bisect' = [bisect EXCEPT !.pc = pc]
      BY <2>4 DEF StartBisect
    <3>2. /\ bisect'.bad = bisect.bad /\ bisect'.good = bisect.good /\ bisect'.skipped = bisect.skipped
          /\ bisect'.first = {} /\ bisect'.told = bisect.told /\ bisect'.pc \in {"run", "done"}
      BY <3>1 DEF BisectInv, BisectTyped, Enclosed
    <3>3. BisectTyped'
      BY <2>4, <3>1 DEF BisectInv, BisectTyped
    <3>4. Enclosed'
      BY <2>4, <3>1, <3>2 DEF BisectInv, Enclosed, IsBad, IsGood
    <3>5. QED
      BY <3>2, <3>3, <3>4 DEF BisectInv, ReportsTheFirstBadCommit
  <2>5. ASSUME NEW c \in Between \ bisect.skipped, bisect.pc = "run", UNCHANGED history,
               bisect' = CASE Verdict(c) = "bad" -> [bisect EXCEPT !.bad = c]
                           [] Verdict(c) = "good" -> [bisect EXCEPT !.good = c]
                           [] OTHER -> [bisect EXCEPT !.skipped = @ \cup {c}]
        PROVE  BisectInv'
    <3>1. c \in History /\ bisect.first = {}
      BY <2>5 DEF Between, BisectInv, Enclosed
    <3>2. CASE history[c].broken
      <4>1. bisect' = [bisect EXCEPT !.skipped = @ \cup {c}]
        BY <2>5, <3>2 DEF Verdict
      <4>2. QED
        BY <2>5, <3>1, <3>2, <4>1
        DEF BisectInv, BisectTyped, Enclosed, IsBad, IsGood, ReportsTheFirstBadCommit
    <3>3. CASE ~history[c].broken /\ history[c].crashes
      <4>1. bisect' = [bisect EXCEPT !.bad = c]
        BY <2>5, <3>3 DEF Verdict
      <4>2. QED
        <5>1. /\ bisect'.bad = c /\ bisect'.good = bisect.good /\ bisect'.skipped = bisect.skipped
              /\ bisect'.first = {} /\ bisect'.pc = "run" /\ bisect'.told = bisect.told
          BY <2>5, <3>1, <4>1 DEF BisectInv, BisectTyped
        <5>2. BisectTyped'
          <6>1. c \in 0 .. Commits
            BY <3>1 DEF History
          <6>2. QED
            BY <2>5, <4>1, <6>1 DEF BisectInv, BisectTyped
        <5>3. Enclosed'
          BY <2>5, <3>1, <3>3, <5>1 DEF BisectInv, Enclosed, IsBad, IsGood
        <5>4. QED
          BY <5>1, <5>2, <5>3 DEF BisectInv, ReportsTheFirstBadCommit
    <3>4. CASE ~history[c].broken /\ ~history[c].crashes
      <4>1. bisect' = [bisect EXCEPT !.good = c]
        BY <2>5, <3>4 DEF Verdict
      <4>2. QED
        <5>1. /\ bisect'.good = c /\ bisect'.bad = bisect.bad /\ bisect'.skipped = bisect.skipped
              /\ bisect'.first = {} /\ bisect'.pc = "run" /\ bisect'.told = bisect.told
          BY <2>5, <3>1, <4>1 DEF BisectInv, BisectTyped
        <5>2. BisectTyped'
          <6>1. c \in 0 .. Commits
            BY <3>1 DEF History
          <6>2. QED
            BY <2>5, <4>1, <6>1 DEF BisectInv, BisectTyped
        <5>3. Enclosed'
          BY <2>5, <3>1, <3>4, <5>1 DEF BisectInv, Enclosed, IsBad, IsGood
        <5>4. QED
          BY <5>1, <5>2, <5>3 DEF BisectInv, ReportsTheFirstBadCommit
    <3>5. QED
      BY <3>2, <3>3, <3>4
  <2>6. ASSUME Between \subseteq bisect.skipped, bisect.pc = "run", UNCHANGED history,
               bisect' = [bisect EXCEPT !.pc = "done", !.first = {bisect.bad}]
        PROVE  BisectInv'
    <3>1. BisectTyped' /\ Enclosed'
      BY <2>6 DEF BisectInv, BisectTyped, Enclosed, IsBad, IsGood
    <3>2. ASSUME \A a, b \in History : a <= b /\ history[a].crashes => history[b].crashes,
                 history[bisect.told.bad].crashes, ~history[bisect.told.good].crashes
          PROVE  /\ history[bisect.bad].crashes
                 /\ \A b \in History : history[b].crashes /\ b < bisect.bad => history[b].broken
      <4>1. bisect.bad \in History /\ history[bisect.bad].crashes
        BY <2>6, <3>2 DEF BisectInv, Enclosed, IsBad
      <4>2. bisect.good \in History /\ ~history[bisect.good].crashes
        BY <2>6, <3>2 DEF BisectInv, Enclosed, IsGood
      <4>3. ASSUME NEW b \in History, history[b].crashes, b < bisect.bad PROVE history[b].broken
        <5>1. bisect.good < b
          BY <3>2, <4>2, <4>3 DEF History
        <5>2. b \in bisect.skipped
          BY <2>6, <4>3, <5>1 DEF Between
        <5>3. QED
          BY <5>2 DEF BisectInv, Enclosed
      <4>4. QED
        BY <4>1, <4>3
    <3>3. bisect'.first = {bisect.bad} /\ bisect'.told = bisect.told
      BY <2>6 DEF BisectInv, BisectTyped
    <3>4. ReportsTheFirstBadCommit'
      BY <2>6, <3>2, <3>3 DEF ReportsTheFirstBadCommit
    <3>5. QED
      BY <3>1, <3>4 DEF BisectInv
  <2>7. QED
    BY <2>1, <2>2, <2>3, <2>4, <2>5, <2>6 DEF BisectJob, Bisect
<1>3. QED
  BY <1>1, <1>2, PTL DEF BisectSpec

\* For every history and every order of the runs: the commit that is reported is the first
\* bad one among those that can be built.
THEOREM BisectIsRight == BisectSpec => []ReportsTheFirstBadCommit
<1>1. BisectInv => ReportsTheFirstBadCommit
  BY DEF BisectInv
<1>2. QED
  BY <1>1, BisectInvHolds, PTL
-----------------------------------------------------------------------------
(***************************************************************************)
(* Answers kept with the artifacts                                         *)
(***************************************************************************)

Drafts == {"none", "half", "whole"}
Requesting == Ended \cup {"waiting", "asking", "open", "filled"}
Contents == {Nothing, Original} \cup (Requests \X Drafts)

ReportTyped ==
  /\ asked \in [Commands -> [name : Names, force : BOOLEAN]]
  /\ request \in [Requests -> Requesting]
  /\ report \in [Artifacts -> [Names -> Contents]]
  /\ draft \in [Requests -> Drafts]
  /\ looked \in [Requests -> Contents]

\* What a request that goes on has seen, and what its temporary file holds.
MayWrite(q) ==
  /\ request[q] \notin Ended => Name(q) \notin Reserved
  /\ request[q] \in {"asking", "open", "filled"} => asked[q[1]].force \/ looked[q] = Nothing
  /\ request[q] = "filled" => draft[q] = "whole"

ReportInv == ReportTyped /\ \A q \in Requests : MayWrite(q)

\* Requests of other commands, and other requests of this one, stay as they are.
LEMMA OtherRequests ==
  ASSUME ReportInv, ReportTyped', NEW q \in Requests, asked' = asked, MayWrite(q)',
         \A r \in Requests \ {q} : request'[r] = request[r] /\ draft'[r] = draft[r] /\ looked'[r] = looked[r]
  PROVE  ReportInv'
<1>1. ASSUME NEW r \in Requests PROVE MayWrite(r)'
  <2>1. CASE r = q
    BY <2>1
  <2>2. CASE r # q
    BY <2>2 DEF ReportInv, MayWrite, Name
  <2>3. QED
    BY <2>1, <2>2
<1>2. QED
  BY <1>1 DEF ReportInv

\* Every step of the commands keeps that, and changes a result file only as allowed.
LEMMA ReportStep ==
  ASSUME ReportInv, [Reports]_reportVars
  PROVE  /\ ReportInv'
         /\ \A a \in Artifacts : \A n \in Names : report'[a][n] # report[a][n] =>
              \E c \in Commands :
                /\ request[c, a] = "filled" /\ request'[c, a] = "written" /\ asked[c].name = n
                /\ report'[a][n] = <<<<c, a>>, "whole">>
                /\ n \notin Reserved
                /\ asked[c].force \/ looked[c, a] = Nothing
<1> USE ReportAssumption
<1>1. CASE UNCHANGED reportVars
  BY <1>1 DEF reportVars, ReportInv, ReportTyped, MayWrite, Name
<1>2. ASSUME NEW c \in Commands, Ask(c) PROVE ReportInv' /\ report' = report
  <2>1. PICK name \in Names \ Reserved, force \in BOOLEAN :
          asked' = [asked EXCEPT ![c] = [name |-> name, force |-> force]]
    BY <1>2 DEF Ask
  <2>2. ReportTyped'
    BY <1>2, <2>1 DEF Ask, ReportInv, ReportTyped, Requesting
  <2>3. ASSUME NEW q \in Requests PROVE MayWrite(q)'
    <3>1. q[1] \in Commands
      BY DEF Requests
    <3>2. CASE q[1] = c
      BY <1>2, <2>1, <3>1, <3>2 DEF Ask, ReportInv, ReportTyped, MayWrite, Name, Ended
    <3>3. CASE q[1] # c
      BY <1>2, <2>1, <3>1, <3>3 DEF Ask, ReportInv, ReportTyped, MayWrite, Name, Ended
    <3>4. QED
      BY <3>2, <3>3
  <2>4. QED
    BY <1>2, <2>2, <2>3 DEF Ask, ReportInv
<1>3. ASSUME NEW c \in Commands, InterruptRequests(c) PROVE ReportInv' /\ report' = report
  BY <1>3 DEF InterruptRequests, ReportInv, ReportTyped, MayWrite, Name, Requesting, Ended
<1>4. ASSUME NEW q \in Requests, LoadArtifact(q) PROVE ReportInv' /\ report' = report
  <2>1. There(q) \in Contents
    BY DEF There, Name, ReportInv, ReportTyped, Requests
  <2>2. PICK next \in {"skipped", "asking", "failed"} :
          /\ request' = [request EXCEPT ![q] = next]
          /\ next = "asking" => There(q) = Nothing \/ asked[q[1]].force
    BY <1>4 DEF LoadArtifact
  <2>3. request[q] = "waiting" /\ looked' = [looked EXCEPT ![q] = There(q)] /\ UNCHANGED <<asked, report, draft>>
    BY <1>4 DEF LoadArtifact
  <2>4. ReportTyped'
    BY <2>1, <2>2, <2>3 DEF ReportInv, ReportTyped, Requesting, Ended
  <2>5. MayWrite(q)'
    BY <2>2, <2>3 DEF ReportInv, ReportTyped, MayWrite, Name, Ended
  <2>6. QED
    BY <2>2, <2>3, <2>4, <2>5, OtherRequests DEF ReportInv, ReportTyped
<1>5. ASSUME NEW q \in Requests, Answered(q) PROVE ReportInv' /\ report' = report
  <2>1. request[q] = "asking" /\ UNCHANGED <<asked, report, looked>>
    BY <1>5 DEF Answered
  <2>2. PICK next \in {"open", "failed"}, now \in Drafts :
          request' = [request EXCEPT ![q] = next] /\ draft' = [draft EXCEPT ![q] = now]
    BY <1>5 DEF Answered, Draft, Drafts, ReportInv, ReportTyped
  <2>3. ReportTyped'
    BY <2>1, <2>2 DEF ReportInv, ReportTyped, Requesting, Ended
  <2>4. MayWrite(q)'
    BY <2>1, <2>2 DEF ReportInv, ReportTyped, MayWrite, Name, Ended
  <2>5. QED
    BY <2>1, <2>2, <2>3, <2>4, OtherRequests DEF ReportInv, ReportTyped
<1>6. ASSUME NEW q \in Requests, FillDraft(q) PROVE ReportInv' /\ report' = report
  <2>1. /\ request[q] = "open" /\ UNCHANGED <<asked, report, looked>>
        /\ request' = [request EXCEPT ![q] = "filled"] /\ draft' = [draft EXCEPT ![q] = "whole"]
    BY <1>6 DEF FillDraft, Draft
  <2>2. ReportTyped'
    BY <2>1 DEF ReportInv, ReportTyped, Requesting, Drafts
  <2>3. MayWrite(q)'
    BY <2>1 DEF ReportInv, ReportTyped, MayWrite, Name, Ended
  <2>4. QED
    BY <2>1, <2>2, <2>3, OtherRequests DEF ReportInv, ReportTyped
<1>7. ASSUME NEW q \in Requests, ReplaceReport(q)
      PROVE  /\ ReportInv'
             /\ \A a \in Artifacts : \A n \in Names :
                  report'[a][n] # report[a][n] => a = q[2] /\ n = Name(q)
             /\ request[q] = "filled" /\ request'[q] = "written" /\ report'[q[2]][Name(q)] = <<q, "whole">>
  <2>1. request[q] = "filled" /\ draft[q] = "whole" /\ UNCHANGED <<asked, looked>>
    BY <1>7 DEF ReplaceReport, ReportInv, MayWrite
  <2>2. q[1] \in Commands /\ q[2] \in Artifacts /\ Name(q) \in Names
    BY DEF Requests, Name, ReportInv, ReportTyped
  <2>3. /\ request' = [request EXCEPT ![q] = "written"] /\ draft' = [draft EXCEPT ![q] = "none"]
        /\ report' = [report EXCEPT ![q[2]] = [report[q[2]] EXCEPT ![Name(q)] = <<q, "whole">>]]
    BY <1>7, <2>1 DEF ReplaceReport, Draft
  <2>4. ReportTyped'
    <3>1. <<q, "whole">> \in Contents
      BY DEF Contents, Drafts
    <3>2. QED
      BY <2>1, <2>2, <2>3, <3>1 DEF ReportInv, ReportTyped, Requesting, Ended, Drafts
  <2>5. MayWrite(q)'
    BY <2>1, <2>3 DEF ReportInv, ReportTyped, MayWrite, Name, Ended
  <2>6. ReportInv'
    BY <2>1, <2>3, <2>4, <2>5, OtherRequests DEF ReportInv, ReportTyped
  <2>7. QED
    BY <2>1, <2>2, <2>3, <2>6 DEF ReportInv, ReportTyped
<1>8. ASSUME NEW q \in Requests, ReplaceReport(q), NEW a \in Artifacts, NEW n \in Names,
             report'[a][n] # report[a][n]
      PROVE  \E c \in Commands :
               /\ request[c, a] = "filled" /\ request'[c, a] = "written" /\ asked[c].name = n
               /\ report'[a][n] = <<<<c, a>>, "whole">>
               /\ n \notin Reserved
               /\ asked[c].force \/ looked[c, a] = Nothing
  <2>1. a = q[2] /\ n = Name(q) /\ request[q] = "filled" /\ request'[q] = "written"
        /\ report'[a][n] = <<q, "whole">>
    BY <1>7, <1>8
  <2>2. q[1] \in Commands /\ q = <<q[1], a>>
    BY <2>1 DEF Requests
  <2>3. n \notin Reserved /\ (asked[q[1]].force \/ looked[q] = Nothing)
    BY <2>1 DEF ReportInv, MayWrite, Ended
  <2>4. asked[q[1]].name = n
    BY <2>1 DEF Name
  <2>5. QED
    BY <2>1, <2>2, <2>3, <2>4
<1>9. QED
  BY <1>1, <1>2, <1>3, <1>4, <1>5, <1>6, <1>7, <1>8 DEF Reports, reportVars

\* When no command has asked yet, no request has looked.
LEMMA ReportBegin == ReportInit => ReportInv
<1> SUFFICES ASSUME ReportInit PROVE ReportInv
  OBVIOUS
<1>1. (CHOOSE n \in Names : TRUE) \in Names
  BY ReportAssumption
<1>2. QED
  BY <1>1 DEF ReportInit, ReportInv, ReportTyped, MayWrite, Requesting, Contents, Drafts, Ended, Name

\* For any number of commands, artifacts and requests, whatever is interrupted: a result
\* file becomes a whole answer of the request that was to write it, reserved files stay,
\* and an answer is only lost to a request that may overwrite it or looked before it came.
THEOREM AnswersKept == ReportSpec => AnswersAreKept
<1>1. ReportInv /\ [Reports]_reportVars => ReportInv'
  BY ReportStep
<1>2. ReportInv /\ [Reports]_reportVars =>
        [\A a \in Artifacts : \A n \in Names : report'[a][n] # report[a][n] =>
           \E c \in Commands :
             /\ request[c, a] = "filled" /\ request'[c, a] = "written" /\ asked[c].name = n
             /\ report'[a][n] = <<<<c, a>>, "whole">>
             /\ n \notin Reserved
             /\ asked[c].force \/ looked[c, a] = Nothing]_report
  BY ReportStep
<1>3. QED
  BY <1>1, <1>2, ReportBegin, PTL DEF ReportSpec, AnswersAreKept

-----------------------------------------------------------------------------
(***************************************************************************)
(* The files of a project: what commands and requests have in hand         *)
(***************************************************************************)

Writable == SUBSET (Settings \cup {Unknown})

\* The phases of a command: what it is to write, if anything, and what follows.
Shelling ==
  {Idle, <<"skeleton">>} \cup {<<"editor", s>> : s \in Writable}
  \cup {<<pc, s, next>> : pc \in {"truncate", "fill"}, s \in Writable, next \in {"idle", "skeleton"}}
  \cup {<<pc, left>> : pc \in {"copy", "remove"}, left \in SUBSET Seeds}

\* What a request writes has known keys only.
TabHolds ==
  {Idle, <<"reload">>} \cup {<<"replace", s>> : s \in SUBSET Settings} \cup {<<"input", f>> : f \in Seeds}

Configs == {Missing, Empty} \cup {Json(s) : s \in SUBSET (Settings \cup {Unknown, "fuzz_peg"})}

FilesOfProject ==
  /\ root \in BOOLEAN /\ skeleton \in BOOLEAN /\ seedDir \in BOOLEAN
  /\ config \in Configs
  /\ seed \in [Seeds -> {"none", "half", "added", "saved"}]
  /\ shown \in [Tabs -> SUBSET Settings]
  /\ root \/ (config = Missing /\ ~skeleton)

\* A command that creates the project has still to write what a new project says.
HandsOfShells ==
  /\ shell \in [Shells -> Shelling]
  /\ \A p \in Shells : shell[p][1] \in {"truncate", "fill"} /\ shell[p][3] = "skeleton" => shell[p][2] = {}
  /\ \A p \in Shells : shell[p] # Idle => root

HandsOfTabs ==
  /\ tabRequest \in [Tabs -> TabHolds]
  /\ \A t \in Tabs : tabRequest[t] # Idle => root

\* Unless a command was killed, somebody is at work on whatever a project lacks.
SomebodyCompletes ==
  root /\ killed = {} =>
    /\ config[1] # "json" => \E p \in Shells : shell[p][1] \in {"truncate", "fill"}
    /\ ~skeleton => \E p \in Shells : \/ shell[p][1] = "skeleton"
                                      \/ shell[p][1] \in {"truncate", "fill"} /\ shell[p][3] = "skeleton"

ProjectInv == FilesOfProject /\ HandsOfShells /\ HandsOfTabs /\ SomebodyCompletes

\* What a loaded configuration says are settings.
LEMMA LoadedFacts ==
  ASSUME FilesOfProject, Loadable
  PROVE  Loaded \in SUBSET Settings
BY ProjectAssumption DEF FilesOfProject, Loadable, Loaded

\* Configurations told apart.
LEMMA ConfigFacts ==
  /\ \A s : Json(s)[1] = "json" /\ Json(s)[2] = s
  /\ Missing[1] = "missing" /\ Empty[1] = "empty" /\ Idle[1] = "idle"
  /\ \A s \in Writable : Json(s) \in Configs
BY DEF Json, Missing, Empty, Idle, Writable, Configs

\* The phases told apart.
LEMMA ShellFacts ==
  ASSUME NEW c \in Shelling
  PROVE  /\ c[1] \in {"idle", "skeleton", "editor", "truncate", "fill", "copy", "remove"}
         /\ c[1] = "idle" <=> c = Idle
         /\ c[1] \in {"truncate", "fill"} => /\ c = <<c[1], c[2], c[3]>>
                                             /\ c[2] \in Writable /\ c[3] \in {"idle", "skeleton"}
         /\ c[1] = "editor" => c[2] \in Writable
         /\ c[1] \in {"copy", "remove"} => c[2] \in SUBSET Seeds
BY DEF Shelling, Idle

\* A step of one command.
LEMMA ShellMoves ==
  ASSUME ProjectInv, NEW p \in Shells, NEW c \in Shelling, Moves(p, c), root' \in BOOLEAN,
         root => root', c # Idle => root',
         c[1] \in {"truncate", "fill"} /\ c[3] = "skeleton" => c[2] = {}
  PROVE  /\ HandsOfShells'
         /\ shell'[p] = c /\ \A q \in Shells \ {p} : shell'[q] = shell[q]
<1>1. /\ shell' \in [Shells -> Shelling] /\ shell'[p] = c
      /\ \A q \in Shells \ {p} : shell'[q] = shell[q]
  BY DEF ProjectInv, HandsOfShells, Moves
<1>2. ASSUME NEW q \in Shells
      PROVE  /\ shell'[q][1] \in {"truncate", "fill"} /\ shell'[q][3] = "skeleton" => shell'[q][2] = {}
             /\ shell'[q] # Idle => root'
  <2>1. CASE q = p
    BY <1>1, <2>1
  <2>2. CASE q # p
    BY <1>1, <2>2 DEF ProjectInv, HandsOfShells
  <2>3. QED
    BY <2>1, <2>2
<1>3. QED
  BY <1>1, <1>2 DEF HandsOfShells

\* A step of one request, and what it leaves alone.
LEMMA TabMoves ==
  ASSUME ProjectInv, NEW t \in Tabs, NEW c \in TabHolds, Replies(t, c), root, UNCHANGED root
  PROVE  HandsOfTabs'
BY DEF ProjectInv, HandsOfTabs, Replies

\* The commands that other steps leave alone, and what they hold.
LEMMA OthersKeep ==
  ASSUME ProjectInv, UNCHANGED <<root, shell, tabRequest>>
  PROVE  HandsOfShells' /\ HandsOfTabs'
BY DEF ProjectInv, HandsOfShells, HandsOfTabs

\* Who completes a project goes on when another steps, or when only the inputs are concerned.
LEMMA CompletingGoesOn ==
  ASSUME ProjectInv, NEW p \in Shells, UNCHANGED <<root, config, skeleton>>, killed' = {} => killed = {},
         \A q \in Shells \ {p} : shell'[q] = shell[q],
         shell[p][1] \notin {"truncate", "fill", "skeleton"}
  PROVE  SomebodyCompletes'
BY DEF ProjectInv, SomebodyCompletes

\* create: the directory is made, and the command has both files still to write.
LEMMA CreateProjectStep ==
  ASSUME ProjectInv, NEW p \in Shells, CreateProject(p)
  PROVE  ProjectInv'
<1>1. /\ shell[p] = Idle /\ root' = TRUE
      /\ Moves(p, <<"truncate", {}, "skeleton">>)
      /\ UNCHANGED <<config, skeleton, seedDir, seed, tabRequest, shown, killed>>
  BY DEF CreateProject, seedVars
<1>2. <<"truncate", {}, "skeleton">> \in Shelling
  <2>1. {} \in Writable
    BY DEF Writable
  <2>2. QED
    BY <2>1 DEF Shelling
<1>3. HandsOfShells' /\ shell'[p] = <<"truncate", {}, "skeleton">>
  BY <1>1, <1>2, ShellMoves
<1>4. HandsOfTabs'
  BY <1>1 DEF ProjectInv, HandsOfTabs
<1>5. FilesOfProject'
  BY <1>1 DEF ProjectInv, FilesOfProject
<1>6. SomebodyCompletes'
  BY <1>3 DEF SomebodyCompletes
<1>7. QED
  BY <1>3, <1>4, <1>5, <1>6 DEF ProjectInv

\* create: the last of the files is written.
LEMMA CreateSkeletonStep ==
  ASSUME ProjectInv, NEW p \in Shells, CreateSkeleton(p)
  PROVE  ProjectInv'
<1>1. /\ shell[p][1] = "skeleton" /\ skeleton' = TRUE /\ Moves(p, Idle)
      /\ UNCHANGED <<root, config, seedDir, seed, tabRequest, shown, killed>>
  BY DEF CreateSkeleton, seedVars
<1>2. root
  BY <1>1, ShellFacts DEF ProjectInv, HandsOfShells
<1>3. HandsOfShells' /\ \A q \in Shells \ {p} : shell'[q] = shell[q]
  BY <1>1, <1>2, ShellMoves DEF Shelling, Idle
<1>4. HandsOfTabs' /\ FilesOfProject'
  BY <1>1, <1>2 DEF ProjectInv, HandsOfTabs, FilesOfProject
<1>5. SomebodyCompletes'
  BY <1>1, <1>3 DEF ProjectInv, SomebodyCompletes
<1>6. QED
  BY <1>3, <1>4, <1>5 DEF ProjectInv

\* An editor opens the configuration as it is.
LEMMA OpenEditorStep ==
  ASSUME ProjectInv, NEW p \in Shells, OpenEditor(p)
  PROVE  ProjectInv'
<1>1. /\ shell[p] = Idle /\ Loadable /\ Moves(p, <<"editor", Loaded>>)
      /\ UNCHANGED <<root, config, skeleton, seedDir, seed, tabRequest, shown, killed>>
  BY DEF OpenEditor, configVars, seedVars
<1>2. root /\ <<"editor", Loaded>> \in Shelling
  BY <1>1, LoadedFacts DEF ProjectInv, Loadable, Shelling, Writable
<1>3. HandsOfShells' /\ \A q \in Shells \ {p} : shell'[q] = shell[q]
  BY <1>1, <1>2, ShellMoves DEF ProjectInv, FilesOfProject
<1>4. HandsOfTabs' /\ FilesOfProject'
  BY <1>1 DEF ProjectInv, HandsOfTabs, FilesOfProject
<1>5. SomebodyCompletes'
  BY <1>1, <1>3, ConfigFacts, CompletingGoesOn
<1>6. QED
  BY <1>3, <1>4, <1>5 DEF ProjectInv

\* An editor hands over what its user left, or ends in vain.
LEMMA CloseEditorStep ==
  ASSUME ProjectInv, NEW p \in Shells, CloseEditor(p)
  PROVE  ProjectInv'
<1>1. /\ shell[p][1] = "editor"
      /\ \/ \E s \in Writable : Moves(p, <<"truncate", s, "idle">>)
         \/ Moves(p, Idle)
      /\ UNCHANGED <<root, config, skeleton, seedDir, seed, tabRequest, shown, killed>>
  BY DEF CloseEditor, configVars, seedVars, Writable
<1>2. root
  BY <1>1, ShellFacts DEF ProjectInv, HandsOfShells
<1>3. HandsOfShells' /\ \A q \in Shells \ {p} : shell'[q] = shell[q]
  <2>1. CASE Moves(p, Idle)
    BY <1>1, <1>2, <2>1, ShellMoves DEF Shelling, Idle
  <2>2. CASE \E s \in Writable : Moves(p, <<"truncate", s, "idle">>)
    <3>1. PICK s \in Writable : Moves(p, <<"truncate", s, "idle">>)
      BY <2>2
    <3>2. <<"truncate", s, "idle">> \in Shelling
      BY DEF Shelling
    <3>3. QED
      BY <1>1, <1>2, <3>1, <3>2, ShellMoves
  <2>3. QED
    BY <1>1, <2>1, <2>2
<1>4. HandsOfTabs' /\ FilesOfProject'
  BY <1>1 DEF ProjectInv, HandsOfTabs, FilesOfProject
<1>5. SomebodyCompletes'
  BY <1>1, <1>3, CompletingGoesOn
<1>6. QED
  BY <1>3, <1>4, <1>5 DEF ProjectInv

\* Writing begins by emptying the file.
LEMMA TruncateStep ==
  ASSUME ProjectInv, NEW p \in Shells, TruncateConfig(p)
  PROVE  ProjectInv'
<1>1. /\ shell[p][1] = "truncate" /\ config' = Empty
      /\ Moves(p, <<"fill", shell[p][2], shell[p][3]>>)
      /\ UNCHANGED <<root, skeleton, seedDir, seed, tabRequest, shown, killed>>
  BY DEF TruncateConfig, seedVars
<1>2. /\ root /\ shell[p][2] \in Writable /\ shell[p][3] \in {"idle", "skeleton"}
      /\ shell[p][3] = "skeleton" => shell[p][2] = {}
  BY <1>1, ShellFacts DEF ProjectInv, HandsOfShells
<1>3. <<"fill", shell[p][2], shell[p][3]>> \in Shelling
  BY <1>2 DEF Shelling
<1>4. /\ HandsOfShells' /\ shell'[p] = <<"fill", shell[p][2], shell[p][3]>>
      /\ \A q \in Shells \ {p} : shell'[q] = shell[q]
  BY <1>1, <1>2, <1>3, ShellMoves
<1>5. HandsOfTabs' /\ FilesOfProject'
  BY <1>1, <1>2 DEF ProjectInv, HandsOfTabs, FilesOfProject, Configs
<1>6. SomebodyCompletes'
  BY <1>1, <1>4 DEF ProjectInv, SomebodyCompletes
<1>7. QED
  BY <1>4, <1>5, <1>6 DEF ProjectInv

\* Writing ends with what was in hand.
LEMMA FillStep ==
  ASSUME ProjectInv, NEW p \in Shells, FillConfig(p)
  PROVE  ProjectInv'
<1>1. /\ shell[p][1] = "fill" /\ config' = Json(shell[p][2])
      /\ Moves(p, <<shell[p][3]>>)
      /\ UNCHANGED <<root, skeleton, seedDir, seed, tabRequest, shown, killed>>
  BY DEF FillConfig, seedVars
<1>2. root /\ shell[p][2] \in Writable /\ shell[p][3] \in {"idle", "skeleton"}
  BY <1>1, ShellFacts DEF ProjectInv, HandsOfShells
<1>3. <<shell[p][3]>> \in Shelling /\ <<shell[p][3]>>[1] = shell[p][3]
  BY <1>2 DEF Shelling, Idle
<1>4. /\ HandsOfShells' /\ shell'[p] = <<shell[p][3]>>
      /\ \A q \in Shells \ {p} : shell'[q] = shell[q]
  BY <1>1, <1>2, <1>3, ShellMoves
<1>5. HandsOfTabs' /\ FilesOfProject'
  BY <1>1, <1>2, ConfigFacts DEF ProjectInv, HandsOfTabs, FilesOfProject
<1>6. SomebodyCompletes'
  <2>1. config'[1] = "json"
    BY <1>1, ConfigFacts
  <2>2. ASSUME killed = {}, ~skeleton
        PROVE  \E q \in Shells : \/ shell'[q][1] = "skeleton"
                                 \/ shell'[q][1] \in {"truncate", "fill"} /\ shell'[q][3] = "skeleton"
    BY <1>1, <1>2, <1>3, <1>4, <2>2 DEF ProjectInv, SomebodyCompletes
  <2>3. QED
    BY <1>1, <2>1, <2>2 DEF SomebodyCompletes
<1>7. QED
  BY <1>4, <1>5, <1>6 DEF ProjectInv

\* A command on the inputs.
LEMMA InputCommandKeeps ==
  ASSUME ProjectInv, NEW p \in Shells, NEW c \in Shelling, Moves(p, c), root,
         shell[p][1] \notin {"truncate", "fill", "skeleton"}, c[1] \in {"idle", "copy", "remove"},
         seedDir' \in BOOLEAN, seed' \in [Seeds -> {"none", "half", "added", "saved"}],
         UNCHANGED <<root, config, skeleton, tabRequest, shown, killed>>
  PROVE  ProjectInv'
<1>1. HandsOfShells' /\ \A q \in Shells \ {p} : shell'[q] = shell[q]
  BY ShellMoves DEF ProjectInv, FilesOfProject
<1>2. HandsOfTabs' /\ FilesOfProject'
  BY DEF ProjectInv, HandsOfTabs, FilesOfProject
<1>3. SomebodyCompletes'
  BY <1>1, CompletingGoesOn
<1>4. QED
  BY <1>1, <1>2, <1>3 DEF ProjectInv

\* The commands that change the seeds leave the configuration alone.
LEMMA InputStep ==
  ASSUME ProjectInv, NEW p \in Shells,
         AddInputs(p) \/ CopyInput(p) \/ RemoveInputs(p) \/ RemoveInput(p)
  PROVE  ProjectInv'
<1>1. /\ seed \in [Seeds -> {"none", "half", "added", "saved"}] /\ seedDir \in BOOLEAN
      /\ shell[p] \in Shelling
  BY DEF ProjectInv, FilesOfProject, HandsOfShells
<1>2. \A pc \in {"copy", "remove"} : \A left \in SUBSET Seeds :
        <<pc, left>> \in Shelling /\ <<pc, left>>[1] = pc
  BY DEF Shelling
<1>3. Idle \in Shelling /\ Idle[1] = "idle"
  BY DEF Shelling, Idle
<1>4. CASE AddInputs(p)
  <2>1. /\ shell[p] = Idle /\ root /\ Moves(p, <<"copy", Seeds>>) /\ seedDir' = TRUE
        /\ UNCHANGED <<root, config, skeleton, seed, tabRequest, shown, killed>>
    BY <1>4 DEF AddInputs, Loadable, configVars
  <2>2. QED
    BY <1>1, <1>2, <1>3, <2>1, InputCommandKeeps
<1>5. CASE RemoveInputs(p)
  <2>1. /\ shell[p] = Idle /\ root /\ Moves(p, <<"remove", {f \in Seeds : seed[f] # "none"}>>)
        /\ UNCHANGED <<root, config, skeleton, seedDir, seed, tabRequest, shown, killed>>
    BY <1>5 DEF RemoveInputs, Loadable, configVars, seedVars
  <2>2. {f \in Seeds : seed[f] # "none"} \in SUBSET Seeds
    OBVIOUS
  <2>3. QED
    BY <1>1, <1>2, <1>3, <2>1, <2>2, InputCommandKeeps
<1>6. CASE CopyInput(p)
  <2>1. /\ shell[p][1] = "copy"
        /\ UNCHANGED <<root, config, skeleton, seedDir, tabRequest, shown, killed>>
        /\ \/ Moves(p, Idle) /\ UNCHANGED seed
           \/ \E f \in Seeds :
                \/ seed' = [seed EXCEPT ![f] = "added"] /\ Moves(p, <<"copy", shell[p][2] \ {f}>>)
                \/ seed' = [seed EXCEPT ![f] = "half"] /\ UNCHANGED shell
    <3>1. shell[p][1] = "copy" /\ shell[p][2] \in SUBSET Seeds
      BY <1>1, <1>6, ShellFacts DEF CopyInput
    <3>2. shell[p][2] # {} => (CHOOSE f \in shell[p][2] : TRUE) \in Seeds
      BY <3>1
    <3>3. QED
      BY <1>6, <3>1, <3>2 DEF CopyInput, configVars
  <2>2. root /\ shell[p][2] \in SUBSET Seeds /\ shell[p] # Idle
    BY <1>1, <1>3, <2>1, ShellFacts DEF ProjectInv, HandsOfShells
  <2>3. CASE Moves(p, Idle) /\ UNCHANGED seed
    BY <1>1, <1>3, <2>1, <2>2, <2>3, InputCommandKeeps
  <2>4. CASE \E f \in Seeds : seed' = [seed EXCEPT ![f] = "added"] /\ Moves(p, <<"copy", shell[p][2] \ {f}>>)
    <3>1. PICK f \in Seeds : seed' = [seed EXCEPT ![f] = "added"] /\ Moves(p, <<"copy", shell[p][2] \ {f}>>)
      BY <2>4
    <3>2. shell[p][2] \ {f} \in SUBSET Seeds /\ seed' \in [Seeds -> {"none", "half", "added", "saved"}]
      BY <1>1, <2>2, <3>1
    <3>3. QED
      BY <1>1, <1>2, <2>1, <2>2, <3>1, <3>2, InputCommandKeeps
  <2>5. CASE \E f \in Seeds : seed' = [seed EXCEPT ![f] = "half"] /\ UNCHANGED shell
    <3>1. seed' \in [Seeds -> {"none", "half", "added", "saved"}] /\ UNCHANGED shell
      BY <1>1, <2>5
    <3>2. HandsOfShells' /\ HandsOfTabs' /\ FilesOfProject'
      BY <2>1, <3>1, OthersKeep DEF ProjectInv, FilesOfProject
    <3>3. SomebodyCompletes'
      BY <2>1, <3>1, CompletingGoesOn
    <3>4. QED
      BY <3>2, <3>3 DEF ProjectInv
  <2>6. QED
    BY <2>1, <2>3, <2>4, <2>5
<1>7. CASE RemoveInput(p)
  <2>1. /\ shell[p][1] = "remove" /\ shell[p][2] \in SUBSET Seeds
        /\ UNCHANGED <<root, config, skeleton, tabRequest, shown, killed>>
    BY <1>1, <1>7, ShellFacts DEF RemoveInput, configVars
  <2>2. root
    BY <1>3, <2>1 DEF ProjectInv, HandsOfShells
  <2>3. CASE shell[p][2] = {}
    <3>1. Moves(p, Idle) /\ seedDir' \in BOOLEAN /\ UNCHANGED seed
      BY <1>7, <2>3 DEF RemoveInput
    <3>2. QED
      BY <1>1, <1>3, <2>1, <2>2, <3>1, InputCommandKeeps
  <2>4. CASE shell[p][2] # {}
    <3>1. PICK f \in Seeds : /\ Moves(p, IF seed[f] = "none" THEN Idle ELSE <<"remove", shell[p][2] \ {f}>>)
                             /\ seed' = [seed EXCEPT ![f] = "none"]
                             /\ UNCHANGED seedDir
      <4>1. (CHOOSE f \in shell[p][2] : TRUE) \in Seeds
        BY <2>1, <2>4
      <4>2. QED
        BY <1>7, <2>4, <4>1 DEF RemoveInput
    <3>2. shell[p][2] \ {f} \in SUBSET Seeds /\ seed' \in [Seeds -> {"none", "half", "added", "saved"}]
      BY <1>1, <2>1, <3>1
    <3>3. CASE seed[f] = "none"
      BY <1>1, <1>3, <2>1, <2>2, <3>1, <3>2, <3>3, InputCommandKeeps
    <3>4. CASE seed[f] # "none"
      BY <1>1, <1>2, <2>1, <2>2, <3>1, <3>2, <3>4, InputCommandKeeps
    <3>5. QED
      BY <3>3, <3>4
  <2>5. QED
    BY <2>3, <2>4
<1>8. QED
  BY <1>4, <1>5, <1>6, <1>7

\* A killed command stops where it is.
LEMMA KillStep ==
  ASSUME ProjectInv, NEW p \in Shells, KillShell(p)
  PROVE  ProjectInv'
<1>1. /\ Moves(p, Idle) /\ killed' # {} /\ shell[p][1] # "idle"
      /\ UNCHANGED <<root, config, skeleton, seedDir, seed, tabRequest, shown>>
  BY DEF KillShell, configVars, seedVars
<1>2. HandsOfShells'
  <2>1. root \in BOOLEAN /\ Idle \in Shelling /\ Idle[1] = "idle"
    BY DEF ProjectInv, FilesOfProject, Shelling, Idle
  <2>2. QED
    BY <1>1, <2>1, ShellMoves
<1>3. HandsOfTabs' /\ FilesOfProject'
  BY <1>1 DEF ProjectInv, HandsOfTabs, FilesOfProject
<1>4. QED
  BY <1>1, <1>2, <1>3 DEF ProjectInv, SomebodyCompletes

\* A request that leaves the project's directory as it is.
LEMMA TabKeeps ==
  ASSUME ProjectInv, NEW t \in Tabs, NEW c \in TabHolds, Replies(t, c), root,
         shown' \in [Tabs -> SUBSET Settings], seed' \in [Seeds -> {"none", "half", "added", "saved"}],
         UNCHANGED <<root, config, skeleton, seedDir, shell, killed>>
  PROVE  ProjectInv'
<1>1. HandsOfTabs'
  BY TabMoves
<1>2. HandsOfShells' /\ FilesOfProject'
  BY DEF ProjectInv, HandsOfShells, FilesOfProject
<1>3. SomebodyCompletes'
  BY DEF ProjectInv, SomebodyCompletes
<1>4. QED
  BY <1>1, <1>2, <1>3 DEF ProjectInv

\* What a tab sends has known keys, or is refused.
LEMMA TabRequestFacts ==
  ASSUME ProjectInv, NEW t \in Tabs
  PROVE  /\ tabRequest[t] # Idle => root
         /\ tabRequest[t][1] = "replace" => tabRequest[t][2] \in SUBSET Settings
         /\ tabRequest[t][1] = "input" => tabRequest[t][2] \in Seeds
         /\ tabRequest[t][1] \in {"replace", "input", "reload"} => root
BY DEF ProjectInv, HandsOfTabs, TabHolds, Idle

\* A request of the dashboard replaces files as a whole, or changes none.
LEMMA TabStepKeeps ==
  ASSUME ProjectInv, NEW t \in Tabs, TabStep(t)
  PROVE  ProjectInv'
<1>1. /\ seed \in [Seeds -> {"none", "half", "added", "saved"}]
      /\ shown \in [Tabs -> SUBSET Settings]
  BY DEF ProjectInv, FilesOfProject
<1>2. /\ Idle \in TabHolds /\ <<"reload">> \in TabHolds
      /\ \A s \in SUBSET Settings : <<"replace", s>> \in TabHolds
      /\ \A f \in Seeds : <<"input", f>> \in TabHolds
  BY DEF TabHolds
<1>3. CASE ShowProject(t)
  <2>1. /\ Loadable /\ shown' = [shown EXCEPT ![t] = Loaded]
        /\ UNCHANGED <<root, config, skeleton, seedDir, seed, shell, tabRequest, killed>>
    BY <1>3 DEF ShowProject, configVars, seedVars
  <2>2. shown' \in [Tabs -> SUBSET Settings]
    BY <1>1, <2>1, LoadedFacts DEF ProjectInv
  <2>3. QED
    BY <2>1, <2>2 DEF ProjectInv, FilesOfProject, HandsOfShells, HandsOfTabs, SomebodyCompletes
<1>4. CASE SaveSettings(t)
  <2>1. /\ root
        /\ \E c \in TabHolds : Replies(t, c)
        /\ UNCHANGED <<root, config, skeleton, seedDir, seed, shell, shown, killed>>
    BY <1>2, <1>4 DEF SaveSettings, Loadable, configVars, seedVars
  <2>2. QED
    BY <1>1, <2>1, TabKeeps
<1>5. CASE ReplaceConfig(t)
  <2>1. /\ tabRequest[t][1] = "replace" /\ config' = Json(tabRequest[t][2]) /\ Replies(t, <<"reload">>)
        /\ UNCHANGED <<root, skeleton, seedDir, seed, shell, shown, killed>>
    BY <1>5 DEF ReplaceConfig, seedVars
  <2>2. root /\ tabRequest[t][2] \in SUBSET Settings
    BY <2>1, TabRequestFacts
  <2>3. HandsOfTabs'
    BY <1>2, <2>1, <2>2, TabMoves
  <2>4. config' \in Configs /\ config'[1] = "json"
    BY <2>1, <2>2, ConfigFacts DEF Writable
  <2>5. HandsOfShells' /\ FilesOfProject'
    BY <2>1, <2>2, <2>4 DEF ProjectInv, HandsOfShells, FilesOfProject
  <2>6. SomebodyCompletes'
    BY <2>1, <2>4 DEF ProjectInv, SomebodyCompletes
  <2>7. QED
    BY <2>3, <2>5, <2>6 DEF ProjectInv
<1>6. CASE ReloadConfig(t)
  <2>1. /\ root /\ Replies(t, Idle)
        /\ shown' = [shown EXCEPT ![t] = IF Loadable THEN Loaded ELSE @]
        /\ UNCHANGED <<root, config, skeleton, seedDir, seed, shell, killed>>
    BY <1>6, TabRequestFacts DEF ReloadConfig, configVars, seedVars
  <2>2. shown' \in [Tabs -> SUBSET Settings]
    BY <1>1, <2>1, LoadedFacts DEF ProjectInv
  <2>3. QED
    BY <1>1, <1>2, <2>1, <2>2, TabKeeps
<1>7. CASE ReplaceInput(t)
  <2>1. /\ tabRequest[t][1] = "input" /\ Replies(t, Idle)
        /\ seed' = IF seedDir THEN [seed EXCEPT ![tabRequest[t][2]] = "saved"] ELSE seed
        /\ UNCHANGED <<root, config, skeleton, seedDir, shell, shown, killed>>
    BY <1>7 DEF ReplaceInput, configVars
  <2>2. root /\ seed' \in [Seeds -> {"none", "half", "added", "saved"}]
    BY <1>1, <2>1, TabRequestFacts
  <2>3. QED
    BY <1>1, <1>2, <2>1, <2>2, TabKeeps
<1>8. ASSUME NEW f \in Seeds, UpdateInput(t, f)
      PROVE  ProjectInv'
  <2>1. /\ root /\ Replies(t, <<"input", f>>)
        /\ UNCHANGED <<root, config, skeleton, seedDir, seed, shell, shown, killed>>
    BY <1>8 DEF UpdateInput, Loadable, configVars, seedVars
  <2>2. QED
    BY <1>1, <1>2, <2>1, TabKeeps
<1>9. ASSUME NEW f \in Seeds, DeleteInput(t, f)
      PROVE  ProjectInv'
  <2>1. /\ seed' = [seed EXCEPT ![f] = "none"]
        /\ UNCHANGED <<root, config, skeleton, seedDir, shell, tabRequest, shown, killed>>
    BY <1>9 DEF DeleteInput, configVars
  <2>2. seed' \in [Seeds -> {"none", "half", "added", "saved"}]
    BY <1>1, <2>1
  <2>3. QED
    BY <2>1, <2>2 DEF ProjectInv, FilesOfProject, HandsOfShells, HandsOfTabs, SomebodyCompletes
<1>10. QED
  BY <1>3, <1>4, <1>5, <1>6, <1>7, <1>8, <1>9 DEF TabStep

\* Nobody has anything in hand at first; a project that is there can be loaded.
LEMMA ProjectBegins ==
  ASSUME ProjectInit
  PROVE  ProjectInv
<1>1. Idle \in Shelling /\ Idle \in TabHolds /\ Idle[1] = "idle"
  BY DEF Shelling, TabHolds, Idle
<1>2. config \in Configs /\ (root => config[1] = "json")
  BY DEF ProjectInit, Configs, Json
<1>3. FilesOfProject
  BY <1>2 DEF ProjectInit, FilesOfProject
<1>4. HandsOfShells
  BY <1>1 DEF ProjectInit, HandsOfShells
<1>5. HandsOfTabs
  BY <1>1 DEF ProjectInit, HandsOfTabs
<1>6. SomebodyCompletes
  BY <1>2 DEF ProjectInit, SomebodyCompletes
<1>7. QED
  BY <1>3, <1>4, <1>5, <1>6 DEF ProjectInv

\* Every step of the commands, the requests and kill keeps what they have in hand.
LEMMA ProjectGoesOn ==
  ASSUME ProjectInv, [ProjectStep]_projectVars
  PROVE  ProjectInv'
<1>1. CASE UNCHANGED projectVars
  BY <1>1 DEF projectVars, ProjectInv, FilesOfProject, HandsOfShells, HandsOfTabs, SomebodyCompletes
<1>2. ASSUME NEW p \in Shells, ShellStep(p)
      PROVE  ProjectInv'
  BY <1>2, CreateProjectStep, CreateSkeletonStep, OpenEditorStep, CloseEditorStep, TruncateStep, FillStep,
     InputStep, KillStep DEF ShellStep
<1>3. QED
  BY <1>1, <1>2, TabStepKeeps DEF ProjectStep

\* The files and whoever writes them have their types in every reachable state.
THEOREM ProjectTypeCorrect == ProjectSpec => []ProjectTypeOK
<1>1. ProjectInv => ProjectTypeOK
  BY DEF ProjectInv, FilesOfProject, Configs, ProjectTypeOK
<1>2. QED
  BY <1>1, ProjectBegins, ProjectGoesOn, PTL DEF ProjectSpec

\* A project that was created is complete, or somebody completes it, or was killed at it:
\* Project.create() makes the directory, project.json and the skeleton in three steps.
THEOREM CreationCompletes == ProjectSpec => []CreatedIsComplete
<1>1. ProjectInv => CreatedIsComplete
  BY DEF ProjectInv, SomebodyCompletes, CreatedIsComplete
<1>2. QED
  BY <1>1, ProjectBegins, ProjectGoesOn, PTL DEF ProjectSpec

\* Only the editor of the command line can make a project that loads one that does not,
\* however many tabs save at once.
THEOREM TabsBreakNothing == ProjectSpec => OnlyEditorsBreakConfig
<1> DEFINE Broken ==
      Loadable /\ ~Loadable' =>
        \E p \in Shells : \/ shell[p][1] = "truncate" /\ shell'[p][1] = "fill"
                          \/ shell[p][1] = "fill" /\ Unknown \in shell[p][2] /\ shell'[p] = Idle
<1>1. ASSUME ProjectInv, [ProjectStep]_projectVars
      PROVE  Broken
  <2> SUFFICES ASSUME Loadable, ~Loadable'
               PROVE  \E p \in Shells : \/ shell[p][1] = "truncate" /\ shell'[p][1] = "fill"
                                        \/ shell[p][1] = "fill" /\ Unknown \in shell[p][2] /\ shell'[p] = Idle
    OBVIOUS
  <2>1. root /\ ~UNCHANGED <<root, config>>
    BY DEF Loadable
  <2>2. CASE \E p \in Shells : TruncateConfig(p)
    <3>1. PICK p \in Shells : TruncateConfig(p)
      BY <2>2
    <3>2. shell[p][1] = "truncate" /\ shell' = [shell EXCEPT ![p] = <<"fill", shell[p][2], shell[p][3]>>]
      BY <3>1 DEF TruncateConfig, Moves
    <3>3. shell'[p][1] = "fill"
      BY <1>1, <3>2 DEF ProjectInv, HandsOfShells
    <3>4. QED
      BY <3>2, <3>3
  <2>3. CASE \E p \in Shells : FillConfig(p)
    <3>1. PICK p \in Shells : FillConfig(p)
      BY <2>3
    <3>2. /\ shell[p][1] = "fill" /\ config' = Json(shell[p][2]) /\ root' = root
          /\ shell' = [shell EXCEPT ![p] = <<shell[p][3]>>]
      BY <3>1 DEF FillConfig, Moves
    <3>3. /\ shell[p][2] \in Writable /\ shell[p][3] \in {"idle", "skeleton"}
          /\ shell[p][3] = "skeleton" => shell[p][2] = {}
          /\ shell'[p] = <<shell[p][3]>>
      BY <1>1, <3>2, ShellFacts DEF ProjectInv, HandsOfShells
    <3>4. ~(shell[p][2] \subseteq Settings \cup {"fuzz_peg"})
      BY <2>1, <3>2, ConfigFacts DEF Loadable
    <3>5. Unknown \in shell[p][2] /\ shell[p][3] = "idle"
      BY <3>3, <3>4 DEF Writable
    <3>6. QED
      BY <3>2, <3>3, <3>5 DEF Idle
  <2>4. CASE \E t \in Tabs : ReplaceConfig(t)
    <3>1. PICK t \in Tabs : ReplaceConfig(t)
      BY <2>4
    <3>2. root' = root /\ config' = Json(tabRequest[t][2]) /\ tabRequest[t][2] \in SUBSET Settings
      BY <1>1, <3>1, TabRequestFacts DEF ReplaceConfig
    <3>3. Loadable'
      BY <2>1, <3>2, ConfigFacts DEF Loadable
    <3>4. QED
      BY <3>3
  <2>5. QED
    BY <1>1, <2>1, <2>2, <2>3, <2>4 DEF ProjectStep, ShellStep, TabStep, projectVars, configVars,
       CreateProject, CreateSkeleton, OpenEditor, CloseEditor, KillShell, AddInputs, CopyInput,
       RemoveInputs, RemoveInput, ShowProject, SaveSettings, ReloadConfig, ReplaceInput, UpdateInput, DeleteInput
<1>2. QED
  BY <1>1, ProjectBegins, ProjectGoesOn, PTL DEF ProjectSpec, OnlyEditorsBreakConfig

-----------------------------------------------------------------------------
(***************************************************************************)
(* What is told of a campaign: any number of workers, any magnitudes       *)
(***************************************************************************)

StatsTyped == running \subseteq Workers /\ crashes \in Nat

\* What a campaign does keeps its types.
LEMMA StatsStep ==
  ASSUME StatsTyped, [Statistics]_statsVars
  PROVE  StatsTyped'
<1>1. ASSUME NEW w \in Workers, WorkerStarts(w) \/ WorkerReports(w) \/ WorkerDies(w)
      PROVE  StatsTyped'
  BY <1>1 DEF StatsTyped, WorkerStarts, WorkerReports, WorkerDies
<1>2. CASE CleanOutputs
  BY <1>2 DEF StatsTyped, CleanOutputs, Quiet
<1>3. CASE Round
  BY <1>3 DEF StatsTyped, Round
<1>4. CASE UNCHANGED statsVars
  BY <1>4 DEF StatsTyped, statsVars
<1>5. QED
  BY <1>1, <1>2, <1>3, <1>4 DEF Statistics

\* A campaign begins with all its workers and without crashes.
LEMMA StatsBegin ==
  ASSUME StatsInit
  PROVE  StatsTyped
BY DEF StatsInit, StatsTyped, Quiet

\* The monitor knows at least the tier it announced last, and announced none before its
\* first round.
Announced ==
  /\ told \in Seq(Int) /\ monitor.tier \in Int /\ monitor.started \in BOOLEAN
  /\ \A i \in 1 .. Len(told) : told[i] <= monitor.tier
  /\ \A i, j \in 1 .. Len(told) : i < j => told[i] < told[j]
  /\ ~monitor.started => told = <<>>

MonitorTyped ==
  monitor \in [tier : Int, started : BOOLEAN, once : BOOLEAN, notify : BOOLEAN, over : BOOLEAN]

\* A round announces a magnitude above all it announced before, or nothing.
LEMMA RoundAnnounces ==
  ASSUME StatsTyped, MonitorTyped, Announced, Round
  PROVE  MonitorTyped' /\ Announced'
<1>1. PICK tier \in {Magnitude(TRUE), Magnitude(~cleaning)} :
        LET news == monitor.notify /\ monitor.started /\ tier > monitor.tier IN
          /\ told' = IF news THEN Append(told, tier) ELSE told
          /\ monitor' = [monitor EXCEPT !.started = TRUE, !.over = monitor.once,
                                        !.tier = IF news \/ ~monitor.started THEN tier ELSE monitor.tier]
  BY DEF Round
<1>2. tier \in Int
  BY DEF Magnitude, None, Quiet, StatsTyped
<1>3. CASE monitor.notify /\ monitor.started /\ tier > monitor.tier
  <2>1. /\ told' = Append(told, tier)
        /\ monitor' = [monitor EXCEPT !.started = TRUE, !.over = monitor.once, !.tier = tier]
    BY <1>1, <1>3
  <2>2. MonitorTyped' /\ monitor'.tier = tier /\ monitor'.started
    BY <1>2, <2>1 DEF MonitorTyped
  <2>3. /\ told' \in Seq(Int) /\ Len(told') = Len(told) + 1 /\ Len(told) \in Nat
        /\ \A i \in 1 .. Len(told) : told'[i] = told[i]
        /\ told'[Len(told) + 1] = tier
    BY <1>2, <2>1 DEF Announced
  <2>4. \A i \in 1 .. Len(told) : told[i] \in Int /\ told[i] < tier
    BY <1>2, <1>3 DEF Announced
  <2>5. \A i \in 1 .. Len(told') : told'[i] <= tier
    <3>1. \A i \in 1 .. Len(told') : i \in 1 .. Len(told) \/ i = Len(told) + 1
      BY <2>3
    <3>2. QED
      BY <1>2, <2>3, <2>4, <3>1
  <2>6. ASSUME NEW i \in 1 .. Len(told'), NEW j \in 1 .. Len(told'), i < j
        PROVE  told'[i] < told'[j]
    <3>1. i \in 1 .. Len(told) /\ (j \in 1 .. Len(told) \/ j = Len(told) + 1)
      BY <2>3, <2>6
    <3>2. CASE j \in 1 .. Len(told)
      BY <2>3, <2>6, <3>1, <3>2 DEF Announced
    <3>3. CASE j = Len(told) + 1
      BY <2>3, <2>4, <3>1, <3>3
    <3>4. QED
      BY <3>1, <3>2, <3>3
  <2>7. QED
    BY <1>2, <2>2, <2>3, <2>5, <2>6 DEF Announced
<1>4. CASE ~(monitor.notify /\ monitor.started /\ tier > monitor.tier)
  <2>1. told' = told
    BY <1>1, <1>4
  <2>2. CASE monitor.started
    <3>1. monitor' = [monitor EXCEPT !.started = TRUE, !.over = monitor.once, !.tier = monitor.tier]
      BY <1>1, <1>4, <2>2
    <3>2. MonitorTyped' /\ monitor'.tier = monitor.tier /\ monitor'.started
      BY <3>1 DEF MonitorTyped
    <3>3. QED
      BY <2>1, <3>2 DEF Announced, MonitorTyped
  <2>3. CASE ~monitor.started
    <3>1. monitor' = [monitor EXCEPT !.started = TRUE, !.over = monitor.once, !.tier = tier]
      BY <1>1, <1>4, <2>3
    <3>2. MonitorTyped' /\ monitor'.tier = tier /\ monitor'.started
      BY <1>2, <3>1 DEF MonitorTyped
    <3>3. told = <<>>
      BY <2>3 DEF Announced
    <3>4. QED
      BY <1>2, <2>1, <3>2, <3>3 DEF Announced
  <2>4. QED
    BY <2>2, <2>3
<1>5. QED
  BY <1>3, <1>4

\* What the monitor knows and has announced agree, in every reachable state.
LEMMA MonitorInvHolds == StatsSpec => [](StatsTyped /\ MonitorTyped /\ Announced)
<1>1. StatsInit => MonitorTyped /\ Announced
  <2> SUFFICES ASSUME StatsInit
               PROVE  MonitorTyped /\ Announced
    OBVIOUS
  <2>1. PICK once \in BOOLEAN, notify \in BOOLEAN :
          monitor = [tier |-> None, started |-> FALSE, once |-> once, notify |-> notify, over |-> FALSE]
    BY DEF StatsInit
  <2>2. told = <<>>
    BY DEF StatsInit
  <2>3. QED
    BY <2>1, <2>2 DEF MonitorTyped, Announced, None
<1>2. StatsTyped /\ MonitorTyped /\ Announced /\ [Statistics]_statsVars => MonitorTyped' /\ Announced'
  <2> SUFFICES ASSUME StatsTyped, MonitorTyped, Announced, [Statistics]_statsVars
               PROVE  MonitorTyped' /\ Announced'
    OBVIOUS
  <2>1. CASE Round
    BY <2>1, RoundAnnounces
  <2>2. CASE UNCHANGED <<monitor, told>>
    BY <2>2 DEF MonitorTyped, Announced
  <2>3. QED
    BY <2>1, <2>2 DEF Statistics, statsVars, WorkerStarts, WorkerReports, WorkerDies, CleanOutputs
<1>3. QED
  BY <1>1, <1>2, StatsBegin, StatsStep, PTL DEF StatsSpec

\* No magnitude is announced twice, though the outputs may be cleaned and grow again, or be
\* unreadable for a while (monitor_loop() of monitor.py).
THEOREM NewsOnlyOnce == StatsSpec => []AnnouncedOnce
<1>1. Announced => AnnouncedOnce
  BY DEF Announced, AnnouncedOnce
<1>2. QED
  BY <1>1, MonitorInvHolds, PTL

-----------------------------------------------------------------------------
(***************************************************************************)
(* What is in a queue after something was appended, or its head was taken  *)
(***************************************************************************)

In(x, q) == \E i \in 1 .. Len(q) : q[i] = x

\* What is appended is the only thing that is new in the queue.
LEMMA InAppend ==
  ASSUME NEW S, NEW q \in Seq(S), NEW e \in S
  PROVE  /\ Append(q, e) \in Seq(S)
         /\ \A x \in S : In(x, Append(q, e)) <=> x = e \/ In(x, q)
<1> DEFINE r == Append(q, e)
<1>1. r \in Seq(S) /\ Len(r) = Len(q) + 1 /\ Len(q) \in Nat
  OBVIOUS
<1>2. \A i \in 1 .. Len(r) : r[i] = IF i = Len(q) + 1 THEN e ELSE q[i]
  OBVIOUS
<1> HIDE DEF r
<1>3. ASSUME NEW x \in S PROVE In(x, r) <=> x = e \/ In(x, q)
  <2>1. ASSUME In(x, r) PROVE x = e \/ In(x, q)
    <3>1. PICK i \in 1 .. Len(r) : r[i] = x
      BY <2>1 DEF In
    <3>2. CASE i = Len(q) + 1
      BY <1>2, <3>1, <3>2
    <3>3. CASE i # Len(q) + 1
      <4>1. i \in 1 .. Len(q) /\ q[i] = x
        BY <1>1, <1>2, <3>1, <3>3
      <4>2. QED
        BY <4>1 DEF In
    <3>4. QED
      BY <3>2, <3>3
  <2>2. CASE x = e
    <3>1. Len(q) + 1 \in 1 .. Len(r) /\ r[Len(q) + 1] = x
      BY <1>1, <1>2, <2>2
    <3>2. QED
      BY <2>2, <3>1 DEF In
  <2>3. ASSUME In(x, q) PROVE In(x, r)
    <3>1. PICK i \in 1 .. Len(q) : q[i] = x
      BY <2>3 DEF In
    <3>2. i \in 1 .. Len(r) /\ r[i] = x
      BY <1>1, <1>2, <3>1
    <3>3. QED
      BY <3>2 DEF In
  <2>4. QED
    BY <2>1, <2>2, <2>3
<1>4. QED
  BY <1>1, <1>3 DEF r

\* What is taken was in the queue, and the rest stays in its order.
LEMMA InTail ==
  ASSUME NEW S, NEW q \in Seq(S), q # <<>>
  PROVE  /\ Tail(q) \in Seq(S) /\ Head(q) \in S /\ In(Head(q), q)
         /\ \A i \in 1 .. Len(Tail(q)) : i + 1 \in 1 .. Len(q) /\ Tail(q)[i] = q[i + 1]
         /\ \A x \in S : In(x, Tail(q)) => In(x, q)
         /\ \A x \in S : In(x, q) => x = Head(q) \/ In(x, Tail(q))
<1> DEFINE r == Tail(q)
<1>1. /\ r \in Seq(S) /\ Len(q) \in Nat \ {0} /\ Len(r) = Len(q) - 1
      /\ Head(q) = q[1] /\ Head(q) \in S
  OBVIOUS
<1>2. \A i \in 1 .. Len(r) : r[i] = q[i + 1]
  OBVIOUS
<1> HIDE DEF r
<1>3. In(Head(q), q)
  BY <1>1 DEF In
<1>4. \A i \in 1 .. Len(r) : i + 1 \in 1 .. Len(q)
  BY <1>1
<1>5. ASSUME NEW x \in S, In(x, r) PROVE In(x, q)
  <2>1. PICK i \in 1 .. Len(r) : r[i] = x
    BY <1>5 DEF In
  <2>2. i + 1 \in 1 .. Len(q) /\ q[i + 1] = x
    BY <1>2, <1>4, <2>1
  <2>3. QED
    BY <2>2 DEF In
<1>6. ASSUME NEW x \in S, In(x, q), x # Head(q) PROVE In(x, r)
  <2>1. PICK i \in 1 .. Len(q) : q[i] = x
    BY <1>6 DEF In
  <2>2. i - 1 \in 1 .. Len(r) /\ (i - 1) + 1 = i
    BY <1>1, <1>6, <2>1
  <2>3. r[i - 1] = q[i]
    BY <1>2, <2>2
  <2>4. QED
    BY <2>1, <2>2, <2>3 DEF In
<1>7. QED
  BY <1>1, <1>2, <1>3, <1>4, <1>5, <1>6 DEF r

-----------------------------------------------------------------------------
(***************************************************************************)
(* pfrun                                                                   *)
(***************************************************************************)

Blocks == {"status", "timeout", "guestDidStop", "finish124"}
TimeIsUp == timer \in {"stopping", "expired"}

\* What the exit code on stop may be, and what the blocks that are still waiting stand for.
CodeIsKnown == (exitCodeOnStop = reported /\ relay # "none") \/ (exitCodeOnStop = 124 /\ TimeIsUp)

\* What the guest has printed.
Printed ==
  relay # "none" => reported = command \/ (reported = 1 /\ strict) \/ (reported = 0 /\ interactive)

Waiting ==
  /\ queue \in Seq(Blocks)
  /\ In("timeout", queue) \/ In("finish124", queue) => TimeIsUp
  /\ In("guestDidStop", queue) => guest = "off"
  /\ In("status", queue) => relay = "posted"
  /\ guest \in {"booting", "running"} => relay = "none"

PfrunInv ==
  /\ Waiting /\ Printed
  /\ exitCodeOnStop = 0 \/ CodeIsKnown
  /\ relay = "posted" /\ ~In("status", queue) => CodeIsKnown
  /\ ExitCodeTellsTruth

-----------------------------------------------------------------------------
\* A block that is posted is the only one that is new in the queue.
LEMMA Posted ==
  ASSUME queue \in Seq(Blocks), NEW b \in Blocks, Post(b)
  PROVE  queue' \in Seq(Blocks) /\ \A x \in Blocks : In(x, queue') <=> x = b \/ In(x, queue)
<1>1. QED
  BY InAppend DEF Post

\* A block that is run was in the queue, and the others stay in it.
LEMMA Taken ==
  ASSUME queue \in Seq(Blocks), queue # <<>>, queue' = Tail(queue)
  PROVE  /\ queue' \in Seq(Blocks) /\ Head(queue) \in Blocks /\ In(Head(queue), queue)
         /\ \A x \in Blocks : (In(x, queue') => In(x, queue)) /\ (In(x, queue) => x = Head(queue) \/ In(x, queue'))
<1>1. QED
  BY InTail

-----------------------------------------------------------------------------
\* What waits in the queue is what has happened, in every reachable state.
LEMMA PfrunInvHolds == PfrunSpec => []PfrunInv
<1>1. PfrunInit => PfrunInv
  BY DEF PfrunInit, PfrunInv, Waiting, In, ExitCodeTellsTruth, CodeIsKnown, Printed, requested
<1>2. PfrunInv /\ [Pfrun]_pfrunVars => PfrunInv'
  <2> SUFFICES ASSUME PfrunInv, [Pfrun]_pfrunVars PROVE PfrunInv'
    OBVIOUS
  <2>1. CASE UNCHANGED pfrunVars
    BY <2>1 DEF pfrunVars, requested, PfrunInv, Waiting, ExitCodeTellsTruth, CodeIsKnown, Printed, requested, TimeIsUp, In
  <2>2. CASE GuestStarts /\ exited = NotExited
    BY <2>2 DEF GuestStarts, PfrunInv, Waiting, ExitCodeTellsTruth, CodeIsKnown, Printed, requested, TimeIsUp, In
  <2>3. CASE GuestPrints /\ exited = NotExited
    BY <2>3 DEF GuestPrints, PfrunInv, Waiting, ExitCodeTellsTruth, CodeIsKnown, Printed, requested, TimeIsUp, In
  <2>4. CASE GuestStops /\ exited = NotExited
    BY <2>4, Posted DEF GuestStops, PfrunInv, Waiting, ExitCodeTellsTruth, CodeIsKnown, Printed, requested, TimeIsUp, Blocks
  <2>5. CASE Relay /\ exited = NotExited
    BY <2>5, Posted DEF Relay, PfrunInv, Waiting, ExitCodeTellsTruth, CodeIsKnown, Printed, requested, TimeIsUp, Blocks
  <2>6. CASE TimerExpires /\ exited = NotExited
    BY <2>6, Posted DEF TimerExpires, PfrunInv, Waiting, ExitCodeTellsTruth, CodeIsKnown, Printed, requested, TimeIsUp, Blocks
  <2>7. CASE StopCompletes /\ exited = NotExited
    BY <2>7, Posted DEF StopCompletes, PfrunInv, Waiting, ExitCodeTellsTruth, CodeIsKnown, Printed, requested, TimeIsUp, Blocks
  <2>8. CASE Block /\ exited = NotExited
    <3> DEFINE b == Head(queue)
    <3>1. /\ queue' \in Seq(Blocks) /\ b \in Blocks /\ In(b, queue)
          /\ \A x \in Blocks : (In(x, queue') => In(x, queue)) /\ (In(x, queue) => x = b \/ In(x, queue'))
      BY <2>8, Taken DEF Block, PfrunInv, Waiting
    <3>2. UNCHANGED <<guest, command, interactive, strict, reported, relay>>
      BY <2>8 DEF Block, requested
    <3> HIDE DEF b
    <3>3. CASE b = "status"
      <4>1. exitCodeOnStop' = reported /\ exited' = NotExited /\ timer' = timer
        BY <2>8, <3>3 DEF Block, b
      <4>2. relay = "posted"
        BY <3>1, <3>3 DEF PfrunInv, Waiting
      <4>3. CodeIsKnown'
        BY <3>2, <4>1, <4>2 DEF CodeIsKnown
      <4>4. Waiting' /\ Printed'
        BY <3>1, <3>2, <4>1, <4>2 DEF PfrunInv, Waiting, Printed, TimeIsUp, Blocks
      <4>5. QED
        BY <4>1, <4>3, <4>4 DEF PfrunInv, ExitCodeTellsTruth
    <3>4. CASE b = "timeout"
      <4>1. TimeIsUp /\ exitCodeOnStop' = 124 /\ exited' \in {124, NotExited} /\ timer' \in {"stopping", timer}
        BY <2>8, <3>1, <3>4 DEF Block, b, PfrunInv, Waiting
      <4>2. TimeIsUp'
        BY <4>1 DEF TimeIsUp
      <4>3. QED
        BY <3>1, <3>2, <4>1, <4>2 DEF PfrunInv, Waiting, ExitCodeTellsTruth, CodeIsKnown, Printed, requested, TimeIsUp, Blocks
    <3>5. CASE b = "guestDidStop"
      <4>1. exitCodeOnStop' = exitCodeOnStop /\ exited' = exitCodeOnStop /\ timer' = timer /\ guest = "off"
        BY <2>8, <3>1, <3>5 DEF Block, b, PfrunInv, Waiting
      <4>2. relay = "posted" /\ ~In("status", queue') => CodeIsKnown
        BY <3>1, <3>5 DEF PfrunInv, Blocks
      <4>3. Waiting' /\ (exitCodeOnStop = 0 \/ CodeIsKnown)' /\ Printed' /\ (relay = "posted" /\ ~In("status", queue) => CodeIsKnown)'
        BY <3>1, <3>2, <4>1, <4>2 DEF PfrunInv, Waiting, CodeIsKnown, Printed, TimeIsUp, Blocks
      <4>4. ExitCodeTellsTruth'
        BY <3>2, <4>1, <4>2 DEF PfrunInv, ExitCodeTellsTruth, CodeIsKnown, Printed, requested, TimeIsUp, In
      <4>5. QED
        BY <4>3, <4>4 DEF PfrunInv
    <3>6. CASE b = "finish124"
      <4>1. TimeIsUp /\ exitCodeOnStop' = exitCodeOnStop /\ exited' = 124 /\ timer' = timer
        BY <2>8, <3>1, <3>6 DEF Block, b, PfrunInv, Waiting
      <4>2. QED
        BY <3>1, <3>2, <3>6, <4>1 DEF PfrunInv, Waiting, ExitCodeTellsTruth, CodeIsKnown, Printed, requested, TimeIsUp, Blocks
    <3>7. QED
      BY <3>1, <3>3, <3>4, <3>5, <3>6 DEF Blocks
  <2>9. QED
    BY <2>1, <2>2, <2>3, <2>4, <2>5, <2>6, <2>7, <2>8 DEF Pfrun
<1>3. QED
  BY <1>1, <1>2, PTL DEF PfrunSpec

\* For every set of statuses: the exit code of pfrun is the command's, or tells of a guest
\* that did not start, of a script that ended before it knew the status or of the timeout,
\* or is the success of an interactive run or of a VM whose stop was handled before the
\* status.
THEOREM ExitCodeIsTrue == PfrunSpec => []ExitCodeTellsTruth
<1>1. PfrunInv => ExitCodeTellsTruth
  BY DEF PfrunInv
<1>2. QED
  BY <1>1, PfrunInvHolds, PTL

-----------------------------------------------------------------------------
(***************************************************************************)
(* The LLDB driver: any deadline, number of events and kinds of session    *)
(***************************************************************************)

EventKinds == {"stopped", "exited", "other"}

\* What the events that wait say of the process: a stop is unique, and the process is
\* still where it stopped.
Pending ==
  /\ \A i, j \in 1 .. Len(events) : events[i] = "stopped" /\ events[j] = "stopped" => i = j
  /\ In("stopped", events) => process \in {"atexec", "stopped"}
  /\ In("exited", events) => process = "exited"

DriverInv ==
  /\ events \in Seq(EventKinds)
  /\ driver = "create" => process = "none" /\ events = <<>>
  /\ driver \in {"create", "waiting"} => output = "unwritten"
  /\ driver = "waiting" => Pending
  /\ DiagnosesTheCrash

\* One more event of a process that has not stopped.
LEMMA CauseStep ==
  ASSUME DriverInv, NEW e \in EventKinds, NEW now, Cause(e, now), process \in {"limiter", "running"},
         e = "stopped" => now \in {"atexec", "stopped"},
         e = "exited" => now = "exited"
  PROVE  DriverInv'
<1>1. /\ events' = Append(events, e) /\ process' = now /\ driver' = driver /\ output' = output
      /\ events \in Seq(EventKinds) /\ driver # "create"
  BY DEF Cause, DriverInv
<1>2. events' \in Seq(EventKinds) /\ \A x \in EventKinds : In(x, events') <=> x = e \/ In(x, events)
  BY <1>1, InAppend
<1>3. CASE driver = "waiting"
  <2>1. ~In("stopped", events) /\ ~In("exited", events)
    BY <1>3 DEF DriverInv, Pending
  <2>2. In("stopped", events') => process' \in {"atexec", "stopped"}
    BY <1>1, <1>2, <2>1 DEF EventKinds
  <2>3. In("exited", events') => process' = "exited"
    BY <1>1, <1>2, <2>1 DEF EventKinds
  <2>4. ASSUME NEW i \in 1 .. Len(events'), NEW j \in 1 .. Len(events'),
               events'[i] = "stopped", events'[j] = "stopped"
        PROVE  i = j
    <3>1. \A k \in 1 .. Len(events') : k = Len(events) + 1 \/ (k \in 1 .. Len(events) /\ events'[k] = events[k])
      BY <1>1
    <3>2. QED
      BY <2>1, <2>4, <3>1 DEF In
  <2>5. Pending'
    BY <2>2, <2>3, <2>4 DEF Pending
  <2>6. QED
    BY <1>1, <1>2, <1>3, <2>5 DEF DriverInv, DiagnosesTheCrash
<1>4. CASE driver # "waiting"
  BY <1>1, <1>2, <1>4 DEF DriverInv, DiagnosesTheCrash
<1>5. QED
  BY <1>3, <1>4

\* Whatever the process does and whenever: diagnostics are of a core or of a process that
\* has stopped for good, and a clean exit is one.
THEOREM DiagnosesRightly == LldbSpec => []DiagnosesTheCrash
<1>1. LldbInit => DriverInv
  BY DEF LldbInit, DriverInv, DiagnosesTheCrash
<1>2. DriverInv /\ [Lldb]_lldbVars => DriverInv'
  <2> SUFFICES ASSUME DriverInv, [Lldb]_lldbVars PROVE DriverInv'
    OBVIOUS
  <2>1. CASE UNCHANGED lldbVars
    BY <2>1 DEF lldbVars, DriverInv, Pending, DiagnosesTheCrash
  <2>2. CASE NoTarget
    BY <2>2 DEF NoTarget, Writes, DriverInv, DiagnosesTheCrash
  <2>3. CASE LoadCore
    BY <2>3 DEF LoadCore, Writes, DriverInv, DiagnosesTheCrash
  <2>4. CASE Launch
    BY <2>4 DEF Launch, Writes, DriverInv, Pending, DiagnosesTheCrash, In
  <2>5. CASE HandleEvent
    <3>1. /\ driver = "waiting" /\ events # <<>> /\ events' = Tail(events)
          /\ events \in Seq(EventKinds) /\ Pending /\ output = "unwritten"
      BY <2>5 DEF HandleEvent, DriverInv
    <3>2. /\ events' \in Seq(EventKinds) /\ Head(events) \in EventKinds /\ In(Head(events), events)
          /\ \A i \in 1 .. Len(events') : i + 1 \in 1 .. Len(events) /\ events'[i] = events[i + 1]
          /\ \A x \in EventKinds : In(x, events') => In(x, events)
      BY <3>1, InTail
    <3>3. \A i, j \in 1 .. Len(events') : events'[i] = "stopped" /\ events'[j] = "stopped" => i = j
      <4> SUFFICES ASSUME NEW i \in 1 .. Len(events'), NEW j \in 1 .. Len(events'),
                          events'[i] = "stopped", events'[j] = "stopped"
                   PROVE  i = j
        OBVIOUS
      <4>1. i + 1 = j + 1
        BY <3>1, <3>2 DEF Pending
      <4>2. QED
        BY <4>1
    <3>4. Head(events) = "stopped" => ~In("stopped", events')
      <4> SUFFICES ASSUME Head(events) = "stopped", NEW i \in 1 .. Len(events'), events'[i] = "stopped" PROVE FALSE
        BY DEF In
      <4>1. events[i + 1] = "stopped" /\ i + 1 \in 1 .. Len(events) /\ events[1] = "stopped" /\ 1 \in 1 .. Len(events)
        BY <3>1, <3>2
      <4>2. i + 1 = 1
        BY <3>1, <4>1 DEF Pending
      <4>3. QED
        BY <4>2
    <3>5. CASE Head(events) = "stopped" /\ process = "atexec" /\ process' = "running" /\ UNCHANGED <<driver, output>>
      <4>1. ~In("stopped", events') /\ ~In("exited", events')
        BY <3>1, <3>2, <3>4, <3>5 DEF Pending, EventKinds
      <4>2. QED
        BY <3>1, <3>2, <3>3, <3>5, <4>1 DEF DriverInv, Pending, DiagnosesTheCrash
    <3>6. CASE Head(events) = "stopped" /\ process # "atexec" /\ driver' = "ended" /\ Writes("diagnostics")
                 /\ UNCHANGED process
      <4>1. process = "stopped"
        BY <3>1, <3>2, <3>6 DEF Pending
      <4>2. QED
        BY <3>1, <3>2, <3>6, <4>1 DEF DriverInv, DiagnosesTheCrash, Writes
    <3>7. CASE Head(events) = "exited" /\ driver' = "ended" /\ Writes("clean") /\ UNCHANGED process
      <4>1. process = "exited"
        BY <3>1, <3>2, <3>7 DEF Pending
      <4>2. QED
        BY <3>1, <3>2, <3>7, <4>1 DEF DriverInv, DiagnosesTheCrash, Writes
    <3>8. CASE UNCHANGED <<driver, output, process>>
      <4>1. Pending'
        BY <3>1, <3>2, <3>3, <3>8 DEF Pending, EventKinds
      <4>2. QED
        BY <3>1, <3>2, <3>8, <4>1 DEF DriverInv, DiagnosesTheCrash
    <3>9. QED
      BY <2>5, <3>5, <3>6, <3>7, <3>8 DEF HandleEvent
  <2>6. CASE Wait
    BY <2>6 DEF Wait, DriverInv, Pending, DiagnosesTheCrash
  <2>7. CASE TimeOut
    BY <2>7 DEF TimeOut, Writes, DriverInv, DiagnosesTheCrash
  <2>8. CASE ProcessMoves
    BY <2>8, CauseStep DEF ProcessMoves, EventKinds
  <2>9. QED
    BY <2>1, <2>2, <2>3, <2>4, <2>5, <2>6, <2>7, <2>8 DEF Lldb, Drive
<1>3. DriverInv => DiagnosesTheCrash
  BY DEF DriverInv
<1>4. QED
  BY <1>1, <1>2, <1>3, PTL DEF LldbSpec

-----------------------------------------------------------------------------
(***************************************************************************)
(* The former dashboard                                                    *)
(***************************************************************************)

EntryRuns == {"none", "new"} \cup Working \cup Ends
EntryStats == {"none", "running", "done", "error", "cancelled"}

EntryType == [kind : Kinds \cup {"none"}, project : LegacyProjects \cup {"none"},
              status : EntryStats, run : EntryRuns, told : BOOLEAN]
Lists == SUBSET (Entries \X EntryStats)
WindowType == [at : {"closed", "ready", "open"}, project : LegacyProjects \cup {"none"},
               shows : Lists, last : Nat, missed : BOOLEAN]
CastType == [shows : Lists, left : SUBSET Windows, of : Nat,
             by : Windows \cup {"server"}]

EntriesTyped ==
  /\ entry \in [Entries -> EntryType]
  /\ worker \in [Entries -> [Instances -> {"none"} \cup Working \cup Ends]]
  /\ window \in [Windows -> WindowType]
  /\ cast \in [Casts -> CastType]
  /\ due \in [Entries -> {"none", "start", "done"}]

\* A worker belongs to a campaign that has not ended, a campaign that has not ended holds its
\* project's key, and a key is held once.
Held ==
  /\ \A e \in Entries : \A i \in Instances :
       worker[e][i] \in Working => entry[e].kind = "fuzz" /\ entry[e].run \in Working
  /\ \A e \in Entries : entry[e].kind = "fuzz" /\ entry[e].run \in Working \cup {"new"} => entry[e].status = "running"
  /\ \A d, e \in Entries :
       /\ entry[d].kind = "fuzz" /\ entry[d].status = "running"
       /\ entry[e].kind = "fuzz" /\ entry[e].status = "running"
       /\ entry[d].project = entry[e].project
       => d = e

LegacyInv == EntriesTyped /\ Held

\* A campaign's key says which one fuzzes a project.
LEMMA HeldIsOne == LegacyInv => FuzzedByOne
<1> SUFFICES ASSUME LegacyInv, NEW p \in LegacyProjects
             PROVE  Cardinality({e \in Entries : entry[e].project = p
                                   /\ \E i \in Instances : worker[e][i] \in Working}) <= 1
  BY DEF FuzzedByOne
<1> DEFINE S == {e \in Entries : entry[e].project = p /\ \E i \in Instances : worker[e][i] \in Working}
<1>1. \A d, e \in S : d = e
  <2>1. \A e \in S : entry[e].kind = "fuzz" /\ entry[e].status = "running" /\ entry[e].project = p
    BY DEF LegacyInv, Held
  <2>2. QED
    BY <2>1 DEF LegacyInv, Held
<1>2. CASE S = {}
  BY <1>2, FS_EmptySet
<1>3. CASE S # {}
  <2>1. PICK e : S = {e}
    BY <1>1, <1>3
  <2>2. Cardinality(S) = 1
    BY <2>1, FS_Singleton
  <2>3. QED
    BY <2>2
<1>4. QED
  BY <1>2, <1>3

-----------------------------------------------------------------------------
\* What a broadcast sends is a list of the registry.
LEMMA StatusesTyped ==
  ASSUME NEW es \in [Entries -> EntryType]
  PROVE  Statuses(es) \in Lists
BY DEF Statuses, EntryType, Lists

\* A broadcast that begins leaves the windows where they are.
LEMMA BroadcastTyped ==
  ASSUME window \in [Windows -> WindowType], cast \in [Casts -> CastType],
         NEW es \in [Entries -> EntryType], NEW e \in Nat, NEW w \in Windows \cup {"server"},
         Broadcast(es, e, w)
  PROVE  window' \in [Windows -> WindowType] /\ cast' \in [Casts -> CastType]
<1>1. window' \in [Windows -> WindowType]
  <2>1. window' = [v \in Windows |->
          [window[v] EXCEPT !.last = IF UnderWay = {} THEN 0 ELSE window[v].last,
                            !.missed = IF window[v].at = "ready" THEN window[v].shows # Statuses(es)
                                       ELSE window[v].missed]]
    BY DEF Broadcast
  <2>2. ASSUME NEW v \in Windows, NEW last \in Nat, NEW missed \in BOOLEAN
        PROVE  [window[v] EXCEPT !.last = last, !.missed = missed] \in WindowType
    BY DEF WindowType
  <2>3. \A v \in Windows :
          /\ (IF UnderWay = {} THEN 0 ELSE window[v].last) \in Nat
          /\ (IF window[v].at = "ready" THEN window[v].shows # Statuses(es) ELSE window[v].missed) \in BOOLEAN
    BY DEF WindowType
  <2>4. QED
    BY <2>1, <2>2, <2>3, Zenon
<1>2. cast' \in [Casts -> CastType]
  <2>1. CASE Registered = {}
    BY <2>1 DEF Broadcast
  <2>2. CASE Registered # {}
    <3>1. PICK r \in Casts :
            cast' = [cast EXCEPT ![r] = [shows |-> Statuses(es), left |-> Registered, of |-> e, by |-> w]]
      BY <2>2 DEF Broadcast
    <3>2. [shows |-> Statuses(es), left |-> Registered, of |-> e, by |-> w] \in CastType
      BY StatusesTyped DEF CastType, Registered
    <3>3. QED
      BY <3>1, <3>2
  <2>3. QED
    BY <2>1, <2>2
<1>3. QED
  BY <1>1, <1>2

\* A list that is sent, or that will not be, is one of the registry.
LEMMA SendTyped ==
  ASSUME EntriesTyped, NEW r \in Casts, Abandon(r) \/ \E w \in Windows : Send(w, r)
  PROVE  EntriesTyped'
<1> USE DEF EntriesTyped
<1>1. UNCHANGED <<entry, worker, due>>
  BY DEF Abandon, Send
<1>0. r \in Nat
  BY LegacyAssumption DEF Casts
<1>2. cast[r] \in CastType /\ NoCast \in CastType
  BY DEF CastType, NoCast, Lists
<1>5. \A w \in Windows : window[w] \in WindowType
  BY DEF EntriesTyped
<1>3. CASE Abandon(r)
  <2>1. cast' \in [Casts -> CastType]
    BY <1>2, <1>3 DEF Abandon
  <2>2. ASSUME NEW w \in Windows PROVE [window[w] EXCEPT !.missed = TRUE, !.last = r] \in WindowType
    BY <1>0, <1>5 DEF WindowType
  <2>3. window' \in [Windows -> WindowType]
    BY <1>3, <2>2 DEF Abandon
  <2>4. QED
    BY <1>1, <2>1, <2>3
<1>4. ASSUME NEW w \in Windows, Send(w, r) PROVE EntriesTyped'
  <2>1. cast' \in [Casts -> CastType]
    <3> DEFINE left == cast[r].left \ {w}
    <3>1. cast' = [cast EXCEPT ![r] = NoCast] \/ cast' = [cast EXCEPT ![r] = [cast[r] EXCEPT !.left = left]]
      BY <1>4 DEF Send
    <3>2. [cast[r] EXCEPT !.left = left] \in CastType
      BY <1>2 DEF CastType
    <3>3. QED
      BY <1>2, <3>1, <3>2
  <2>2. window' \in [Windows -> WindowType]
    <3> DEFINE late == r < window[w].last
               latest == IF r < window[w].last THEN window[w].last ELSE r
    <3>1. \/ window' = window
          \/ window' = [window EXCEPT ![w] = [window[w] EXCEPT !.shows = cast[r].shows, !.missed = late,
                                                             !.last = latest]]
      BY <1>4, ZenonT(40) DEF Send
    <3>2. ASSUME NEW missed \in BOOLEAN, NEW last \in {r, window[w].last}
          PROVE  [window[w] EXCEPT !.shows = cast[r].shows, !.missed = missed, !.last = last] \in WindowType
      BY <1>0, <1>2, <1>5 DEF WindowType, CastType
    <3>3. late \in BOOLEAN /\ latest \in {r, window[w].last}
      OBVIOUS
    <3> HIDE DEF late, latest
    <3>4. QED
      BY <3>1, <3>2, <3>3
  <2>3. QED
    BY <1>1, <2>1, <2>2
<1>6. QED
  BY <1>3, <1>4

\* What every step of the server keeps: an entry that changes keeps its kind and project and
\* never runs again, and its workers end before it does.
LEMMA EntryStep ==
  ASSUME LegacyInv, EntriesTyped', NEW e \in Entries,
         \A d \in Entries \ {e} : entry'[d] = entry[d] /\ worker'[d] = worker[d],
         entry'[e].kind = entry[e].kind, entry'[e].project = entry[e].project,
         entry'[e].status = "running" => entry[e].status = "running",
         entry[e].kind = "fuzz" /\ entry'[e].run \in Working \cup {"new"} => entry'[e].status = "running",
         \A i \in Instances : worker'[e][i] \in Working => entry[e].kind = "fuzz" /\ entry'[e].run \in Working
  PROVE  LegacyInv'
<1>1. ASSUME NEW d \in Entries, NEW i \in Instances, worker'[d][i] \in Working
      PROVE  entry'[d].kind = "fuzz" /\ entry'[d].run \in Working
  BY <1>1 DEF LegacyInv, Held
<1>2. ASSUME NEW d \in Entries, entry'[d].kind = "fuzz", entry'[d].run \in Working \cup {"new"}
      PROVE  entry'[d].status = "running"
  BY <1>2 DEF LegacyInv, Held
<1>3. \A d \in Entries : /\ entry'[d].kind = entry[d].kind /\ entry'[d].project = entry[d].project
                         /\ entry'[d].status = "running" => entry[d].status = "running"
  OBVIOUS
<1>4. QED
  BY <1>1, <1>2, <1>3 DEF LegacyInv, Held

\* Keys are held, and the state is well typed, in every reachable state.
THEOREM LegacyInvariant == LegacySpec => []LegacyInv
<1>1. LegacyInit => LegacyInv
  BY DEF LegacyInit, LegacyInv, EntriesTyped, EntryType, WindowType, Held, NoEntry, EntryStats, EntryRuns, Working, Ends,
     Unconnected, NoCast, CastType, Lists
<1>2. LegacyInv /\ [Legacy]_serverVars => LegacyInv'
  <2> SUFFICES ASSUME LegacyInv, [Legacy]_serverVars PROVE LegacyInv'
    OBVIOUS
  <2> USE DEF EntryType
  <2>1. CASE UNCHANGED serverVars
    BY <2>1 DEF LegacyInv, EntriesTyped, Held, serverVars
  <2>2. ASSUME UNCHANGED <<entry, worker, cast, due>>, window' \in [Windows -> WindowType] PROVE LegacyInv'
    BY <2>2 DEF LegacyInv, EntriesTyped, Held
  <2>3. ASSUME NEW w \in Windows, Handshake(w) \/ Register(w) \/ Hangup(w) \/ ProjectSelect(w) \/ AnswerEntry(w)
        PROVE  LegacyInv'
    <3>1. CASE Handshake(w)
      <4>1. PICK p \in LegacyProjects \cup {"none"} :
              window' = [window EXCEPT ![w] = [Unconnected EXCEPT !.at = "ready", !.project = p, !.shows = Statuses(entry)]]
        BY <3>1 DEF Handshake
      <4>2. Statuses(entry) \in Lists
        BY StatusesTyped DEF LegacyInv, EntriesTyped
      <4>3. [Unconnected EXCEPT !.at = "ready", !.project = p, !.shows = Statuses(entry)] \in WindowType
        BY <4>2 DEF WindowType, Unconnected
      <4>4. window' \in [Windows -> WindowType]
        BY <2>3, <4>1, <4>3 DEF LegacyInv, EntriesTyped
      <4>5. QED
        BY <2>2, <3>1, <4>4 DEF Handshake, sending
    <3>2. CASE Register(w)
      <4>1. window' = [window EXCEPT ![w] = [window[w] EXCEPT !.at = "open"]] /\ UNCHANGED <<entry, worker, cast, due>>
        BY <3>2 DEF Register, sending
      <4>2. window' \in [Windows -> WindowType]
        BY <2>3, <4>1, ZenonT(40) DEF LegacyInv, EntriesTyped, WindowType
      <4>3. QED
        BY <2>2, <4>1, <4>2
    <3>3. CASE Hangup(w)
      <4>1. Unconnected \in WindowType
        BY DEF WindowType, Unconnected, Lists
      <4>2. QED
        BY <3>3, <2>2, <4>1 DEF Hangup, LegacyInv, EntriesTyped, sending
    <3>4. CASE ProjectSelect(w)
      <4>1. PICK p \in LegacyProjects : window' = [window EXCEPT ![w] = [window[w] EXCEPT !.project = p]]
        BY <3>4 DEF ProjectSelect
      <4>2. UNCHANGED <<entry, worker, cast, due>>
        BY <3>4 DEF ProjectSelect, sending
      <4>3. window' \in [Windows -> WindowType]
        BY <4>1 DEF LegacyInv, EntriesTyped, WindowType
      <4>4. QED
        BY <2>2, <4>2, <4>3
    <3>5. CASE AnswerEntry(w)
      BY <3>5, <2>2 DEF AnswerEntry, LegacyInv, EntriesTyped, sending
    <3>6. QED
      BY <2>3, <3>1, <3>2, <3>3, <3>4, <3>5
  <2>4. ASSUME entry' \in [Entries -> EntryType], NEW d \in Nat, NEW v \in Windows \cup {"server"},
               Broadcast(entry', d, v)
        PROVE  window' \in [Windows -> WindowType] /\ cast' \in [Casts -> CastType]
    BY <2>4, BroadcastTyped DEF LegacyInv, EntriesTyped
  <2>5. ASSUME NEW w \in Windows, NEW kind \in Kinds, StartEntry(w, kind) PROVE LegacyInv'
    <3>1. PICK e \in Entries :
            /\ ~Known(e)
            /\ entry' = [entry EXCEPT ![e] = [kind |-> kind, project |-> window[w].project,
                                              status |-> "running", run |-> "new", told |-> FALSE]]
            /\ due' = [due EXCEPT ![e] = "start"]
      BY <2>5 DEF StartEntry
    <3>2. /\ UNCHANGED <<worker, window, cast>>
          /\ window[w].project \in LegacyProjects \cup {"none"} /\ ~Refused(kind, window[w].project)
      BY <2>5 DEF StartEntry, LegacyInv, EntriesTyped, WindowType
    <3>3. EntriesTyped'
      BY <3>1, <3>2 DEF LegacyInv, EntriesTyped, EntryStats, EntryRuns
    <3>4. \A i \in Instances : worker[e][i] \notin Working
      BY <3>1 DEF LegacyInv, Held, Known
    <3>5. \A d \in Entries : kind = "fuzz" /\ entry[d].kind = "fuzz" /\ entry[d].status = "running"
                               => entry[d].project # window[w].project
      BY <3>2 DEF Refused, RunningTasks
    <3>6. \A d \in Entries \ {e} : entry'[d] = entry[d]
      BY <3>1
    <3>7. /\ entry'[e].kind = kind /\ entry'[e].project = window[w].project
          /\ entry'[e].status = "running" /\ entry'[e].run = "new"
      BY <3>1 DEF LegacyInv, EntriesTyped
    <3>8. Held'
      BY <3>2, <3>4, <3>5, <3>6, <3>7 DEF LegacyInv, Held
    <3>9. QED
      BY <3>3, <3>8 DEF LegacyInv
  <2>6. ASSUME NEW e \in Entries, EntryBegins(e) PROVE LegacyInv'
    <3>1. entry[e].run = "new" /\ entry' = [entry EXCEPT ![e].run = "live"] /\ UNCHANGED <<window, cast, due>>
      BY <2>6 DEF EntryBegins, sending
    <3>2. worker' = IF entry[e].kind = "fuzz" THEN [worker EXCEPT ![e] = [i \in Instances |-> "live"]] ELSE worker
      BY <2>6 DEF EntryBegins
    <3>3. EntriesTyped'
      BY <3>1, <3>2, ZenonT(30) DEF LegacyInv, EntriesTyped, EntryRuns, Working
    <3>4. \A i \in Instances : worker'[e][i] \in Working => entry[e].kind = "fuzz"
      BY <3>2 DEF LegacyInv, Held
    <3>5. QED
      BY <3>1, <3>2, <3>3, <3>4, EntryStep DEF LegacyInv, EntriesTyped, Held, Working
  <2>7. ASSUME NEW w \in Windows, NEW e \in Entries, StopEntry(w, e) PROVE LegacyInv'
    <3>1. CASE entry[e].kind = "clean"
      <4>1. entry' = [entry EXCEPT ![e].status = "cancelled"] /\ Broadcast(entry', 0, w) /\ UNCHANGED <<worker, due>>
        BY <2>7, <3>1 DEF StopEntry
      <4>2. EntriesTyped'
        <5>1. entry' \in [Entries -> EntryType]
          BY <4>1, ZenonT(30) DEF LegacyInv, EntriesTyped, EntryStats
        <5>2. 0 \in Nat
          OBVIOUS
        <5>3. QED
          BY <2>4, <4>1, <5>1, <5>2 DEF LegacyInv, EntriesTyped
      <4>3. QED
        <5>1. /\ entry'[e].kind = entry[e].kind /\ entry'[e].project = entry[e].project
              /\ entry'[e].status = "cancelled" /\ entry[e].kind # "fuzz"
              /\ \A d \in Entries \ {e} : entry'[d] = entry[d] /\ worker'[d] = worker[d]
          BY <3>1, <4>1 DEF LegacyInv, EntriesTyped
        <5>2. \A i \in Instances : worker'[e][i] \notin Working
          BY <4>1, <5>1 DEF LegacyInv, Held
        <5>3. QED
          BY <4>2, <5>1, <5>2, EntryStep
    <3>2. CASE entry[e].kind # "clean"
      <4>1. /\ entry[e].status = "running" /\ UNCHANGED <<window, cast, due>>
            /\ entry[e].run \in Working \cup {"new"}
            /\ entry' = [entry EXCEPT ![e].run = IF entry[e].run = "new" THEN "unwound" ELSE "cancelling"]
            /\ worker' = [worker EXCEPT ![e] =
                 [i \in Instances |-> IF worker[e][i] = "live" THEN "cancelling" ELSE worker[e][i]]]
        BY <2>7, <3>2 DEF StopEntry, sending
      <4>2. EntriesTyped'
        <5>1. entry' \in [Entries -> EntryType]
          <6>1. PICK run \in EntryRuns : entry' = [entry EXCEPT ![e] = [entry[e] EXCEPT !.run = run]]
            BY <4>1 DEF EntryRuns, Working, Ends
          <6>2. QED
            BY <6>1, ZenonT(40) DEF LegacyInv, EntriesTyped
        <5>2. worker' \in [Entries -> [Instances -> {"none"} \cup Working \cup Ends]]
          BY <4>1 DEF LegacyInv, EntriesTyped, Working
        <5>3. QED
          BY <4>1, <5>1, <5>2 DEF LegacyInv, EntriesTyped
      <4>3. /\ entry'[e].kind = entry[e].kind /\ entry'[e].project = entry[e].project
            /\ entry'[e].status = "running"
            /\ entry'[e].run = IF entry[e].run = "new" THEN "unwound" ELSE "cancelling"
        BY <4>1 DEF LegacyInv, EntriesTyped
      <4>4. ASSUME NEW i \in Instances, worker'[e][i] \in Working
            PROVE  entry[e].kind = "fuzz" /\ entry'[e].run \in Working
        <5>1. worker[e][i] \in Working
          BY <4>1, <4>4 DEF LegacyInv, EntriesTyped, Working
        <5>2. entry[e].kind = "fuzz" /\ entry[e].run \in Working
          BY <5>1 DEF LegacyInv, Held
        <5>3. QED
          BY <4>3, <5>2 DEF Working
      <4>5. \A d \in Entries \ {e} : entry'[d] = entry[d] /\ worker'[d] = worker[d]
        BY <4>1 DEF LegacyInv, EntriesTyped
      <4>6. QED
        BY <4>1, <4>2, <4>3, <4>4, <4>5, EntryStep
    <3>3. QED
      BY <3>1, <3>2
  <2>8. ASSUME NEW e \in Entries, NEW i \in Instances, WorkerEnds(e, i) PROVE LegacyInv'
    <3>1. PICK end \in Ends : worker' = [worker EXCEPT ![e] = [worker[e] EXCEPT ![i] = end]]
      BY <2>8 DEF WorkerEnds, Ends
    <3>2. UNCHANGED <<entry, window, cast, due>>
      BY <2>8 DEF WorkerEnds, sending
    <3>3. EntriesTyped'
      BY <3>1, <3>2 DEF LegacyInv, EntriesTyped
    <3>4. \A d \in Entries : \A j \in Instances : worker'[d][j] \in Working => worker[d][j] \in Working
      BY <3>1 DEF LegacyInv, EntriesTyped, Working, Ends
    <3>5. QED
      BY <3>2, <3>3, <3>4 DEF LegacyInv, Held
  <2>9. ASSUME NEW e \in Entries, EntryEnds(e) PROVE LegacyInv'
    <3>1. PICK end \in Outcomes(e) : entry' = [entry EXCEPT ![e].run = end]
      BY <2>9 DEF EntryEnds
    <3>2. /\ UNCHANGED <<window, cast, due>>
          /\ worker' = [worker EXCEPT ![e] =
               [i \in Instances |-> IF worker[e][i] \in Working THEN worker[e][i] ELSE "none"]]
      BY <2>9 DEF EntryEnds, sending
    <3>3. end \in Ends /\ (entry[e].kind = "fuzz" => Gathered(e))
      BY <3>1 DEF Outcomes, Ends
    <3>4. EntriesTyped'
      <4>1. entry' \in [Entries -> EntryType]
        BY <3>1, <3>3, ZenonT(30) DEF LegacyInv, EntriesTyped, EntryRuns
      <4>2. worker' \in [Entries -> [Instances -> {"none"} \cup Working \cup Ends]]
        BY <3>2 DEF LegacyInv, EntriesTyped
      <4>3. QED
        BY <3>2, <4>1, <4>2 DEF LegacyInv, EntriesTyped
    <3>5. \A i \in Instances : worker'[e][i] \notin Working
      <4>1. \A i \in Instances : worker[e][i] \notin Working
        BY <3>3 DEF Gathered, LegacyInv, Held
      <4>2. "none" \notin Working
        BY DEF Working
      <4>3. QED
        BY <3>2, <4>1, <4>2 DEF LegacyInv, EntriesTyped
    <3>6. QED
      <4>1. /\ entry'[e].kind = entry[e].kind /\ entry'[e].project = entry[e].project
            /\ entry'[e].status = entry[e].status /\ entry'[e].run \notin Working \cup {"new"}
            /\ \A d \in Entries \ {e} : entry'[d] = entry[d] /\ worker'[d] = worker[d]
        BY <3>1, <3>2, <3>3 DEF LegacyInv, EntriesTyped, Ends, Working
      <4>2. QED
        BY <3>4, <3>5, <4>1, EntryStep
  <2>10. ASSUME NEW e \in Entries, EntryDone(e) PROVE LegacyInv'
    <3> DEFINE status == IF entry[e].status = "running" THEN StatusOf(entry[e].run) ELSE entry[e].status
    <3>1. /\ entry' = [entry EXCEPT ![e] = [entry[e] EXCEPT !.told = TRUE, !.status = status]]
          /\ status \in EntryStats /\ (status = "running" => entry[e].status = "running")
      <4>1. entry' = [entry EXCEPT ![e].told = TRUE, ![e].status = status]
        BY <2>10 DEF EntryDone
      <4>2. entry[e].run \in Ends /\ entry[e].status \in EntryStats
        BY <2>10 DEF EntryDone, LegacyInv, EntriesTyped
      <4>3. status \in EntryStats /\ (status = "running" => entry[e].status = "running")
        BY <4>2 DEF StatusOf, Ends, EntryStats
      <4> HIDE DEF status
      <4>4. QED
        BY <4>1, <4>3 DEF LegacyInv, EntriesTyped
    <3> HIDE DEF status
    <3>2. /\ entry[e].run \in Ends /\ UNCHANGED <<worker, window, cast>>
          /\ due' = [due EXCEPT ![e] = "done"]
      BY <2>10 DEF EntryDone
    <3>3. EntriesTyped'
      BY <3>1, <3>2, ZenonT(40) DEF LegacyInv, EntriesTyped
    <3>4. QED
      <4>1. /\ entry'[e].kind = entry[e].kind /\ entry'[e].project = entry[e].project
            /\ entry'[e].status = status /\ entry'[e].run = entry[e].run
            /\ \A d \in Entries \ {e} : entry'[d] = entry[d] /\ worker'[d] = worker[d]
        BY <3>1, <3>2 DEF LegacyInv, EntriesTyped
      <4>2. entry'[e].run \notin Working \cup {"new"}
        BY <3>2, <4>1 DEF Ends, Working
      <4>3. \A i \in Instances : worker'[e][i] \notin Working
        BY <3>2, <4>1, <4>2 DEF LegacyInv, Held
      <4>4. QED
        BY <3>1, <3>3, <4>1, <4>2, <4>3, EntryStep
  <2>11. ASSUME NEW e \in Entries, Forget(e) PROVE LegacyInv'
    <3>1. /\ entry' = [entry EXCEPT ![e] = NoEntry]
          /\ worker' = [worker EXCEPT ![e] = [i \in Instances |-> "none"]]
          /\ Broadcast(entry', 0, "server") /\ due' = due
      BY <2>11 DEF Forget
    <3>2. EntriesTyped'
      <4>1. entry' \in [Entries -> EntryType]
        BY <3>1 DEF LegacyInv, EntriesTyped, NoEntry, EntryStats, EntryRuns
      <4>2. worker' \in [Entries -> [Instances -> {"none"} \cup Working \cup Ends]]
        BY <3>1 DEF LegacyInv, EntriesTyped
      <4>3. 0 \in Nat
        OBVIOUS
      <4>4. QED
        BY <2>4, <3>1, <4>1, <4>2, <4>3 DEF LegacyInv, EntriesTyped
    <3>3. /\ \A d \in Entries \ {e} : entry'[d] = entry[d] /\ worker'[d] = worker[d]
          /\ entry'[e].kind = "none" /\ \A i \in Instances : worker'[e][i] = "none"
      BY <3>1 DEF LegacyInv, EntriesTyped, NoEntry
    <3>4. Held'
      BY <3>3 DEF LegacyInv, Held, Working
    <3>5. QED
      BY <3>2, <3>4 DEF LegacyInv
  <2>12. ASSUME NEW e \in Entries, Announce(e) PROVE LegacyInv'
    <3>1. /\ UNCHANGED <<entry, worker>> /\ due' = [due EXCEPT ![e] = "none"]
          /\ \E d \in {0, e} : Broadcast(entry, d, "server")
      BY <2>12 DEF Announce
    <3>2. 0 \in Nat /\ e \in Nat
      BY DEF Entries
    <3>3. window' \in [Windows -> WindowType] /\ cast' \in [Casts -> CastType]
      BY <3>1, <3>2, BroadcastTyped DEF LegacyInv, EntriesTyped
    <3>4. QED
      BY <3>1, <3>3 DEF LegacyInv, EntriesTyped, Held
  <2>13. ASSUME NEW r \in Casts, Abandon(r) \/ \E w \in Windows : Send(w, r) PROVE LegacyInv'
    <3>1. UNCHANGED <<entry, worker>>
      BY <2>13 DEF Abandon, Send
    <3>2. EntriesTyped'
      BY <2>13, SendTyped DEF LegacyInv
    <3>3. QED
      BY <3>1, <3>2 DEF LegacyInv, Held
  <2>14. QED
    BY <2>1, <2>3, <2>5, <2>6, <2>7, <2>8, <2>9, <2>10, <2>11, <2>12, <2>13 DEF Legacy
<1>3. QED
  BY <1>1, <1>2, PTL DEF LegacySpec

\* For any number of windows, projects, tasks and workers: a project is fuzzed by the
\* workers of one campaign at a time.
THEOREM OneCampaign == LegacySpec => []FuzzedByOne
BY LegacyInvariant, HeldIsOne, PTL

-----------------------------------------------------------------------------
(***************************************************************************)
(* What the windows show                                                   *)
(***************************************************************************)

AllTold == \A e \in Entries : due[e] = "none"
ToGet(w) == {r \in Casts : w \in cast[r].left}

\* A window whose snapshot was sent knows the list, unless a change passed it by.
KnowsTheList(w) ==
  window[w].at = "ready" => /\ ToGet(w) = {}
                            /\ AllTold /\ ~window[w].missed => window[w].shows = Statuses(entry)

\* The newest list that is on its way to a registered window is that of the registry, once
\* the last change has been told; if there is none newer than what it had, it shows it.
GetsTheList(w) ==
  window[w].at = "open" =>
    /\ window[w].last \notin ToGet(w)
    /\ AllTold => \A r \in ToGet(w) : window[w].last < r /\ (\A s \in ToGet(w) : s <= r)
                                        => cast[r].shows = Statuses(entry)
    /\ AllTold /\ ~window[w].missed /\ (\A s \in ToGet(w) : s < window[w].last)
         => window[w].shows = Statuses(entry)

ShowsTheList(w) == KnowsTheList(w) /\ GetsTheList(w)

\* What is not told or shown does not matter.
LEMMA NothingShown ==
  ASSUME LegacyInv, NEW w \in Windows, ShowsTheList(w), Statuses(entry') = Statuses(entry),
         UNCHANGED <<window, cast, due>>
  PROVE  ShowsTheList(w)'
BY DEF ShowsTheList, KnowsTheList, GetsTheList, AllTold, ToGet

\* Before a change is told the windows owe it nothing.
LEMMA ChangeIsDue ==
  ASSUME LegacyInv, NEW w \in Windows, ShowsTheList(w), UNCHANGED <<window, cast>>, ~AllTold'
  PROVE  ShowsTheList(w)'
BY DEF ShowsTheList, KnowsTheList, GetsTheList, ToGet

\* A coroutine that goes on changes nothing that is shown.
LEMMA RunIsNotShown ==
  ASSUME LegacyInv, NEW e \in Entries, NEW run, entry' = [entry EXCEPT ![e].run = run]
  PROVE  Statuses(entry') = Statuses(entry)
<1>1. \A d \in Entries : entry'[d].kind = entry[d].kind /\ entry'[d].status = entry[d].status
  BY DEF LegacyInv, EntriesTyped, EntryType
<1>2. QED
  BY <1>1 DEF Statuses

\* A broadcast that begins is the newest, and it is for every registered window.
LEMMA BroadcastShows ==
  ASSUME LegacyInv, NEW w \in Windows, ShowsTheList(w), NEW e, NEW v, Broadcast(entry', e, v)
  PROVE  ShowsTheList(w)'
<1>1. window[w] \in WindowType /\ \A r \in Casts : cast[r] \in CastType
  BY DEF LegacyInv, EntriesTyped
<1>2. /\ window'[w].at = window[w].at /\ window'[w].shows = window[w].shows
      /\ window'[w].last = (IF UnderWay = {} THEN 0 ELSE window[w].last)
      /\ window[w].at = "ready" => window'[w].missed = (window[w].shows # Statuses(entry'))
  BY <1>1 DEF Broadcast, WindowType
<1>3. CASE window[w].at = "closed"
  BY <1>2, <1>3 DEF ShowsTheList, KnowsTheList, GetsTheList
<1>4. CASE window[w].at = "ready"
  <2>1. \A r \in Casts : w \in cast'[r].left => w \in cast[r].left \/ w \in Registered
    <3>1. CASE cast' = cast
      BY <3>1
    <3>2. CASE cast' # cast
      <4>1. PICK r \in Casts :
              cast' = [cast EXCEPT ![r] = [shows |-> Statuses(entry'), left |-> Registered, of |-> e, by |-> v]]
        BY <3>2 DEF Broadcast
      <4>2. QED
        BY <4>1 DEF LegacyInv, EntriesTyped
    <3>3. QED
      BY <3>1, <3>2
  <2>2. w \notin Registered
    BY <1>4 DEF Registered
  <2>3. ToGet(w)' = {}
    BY <1>4, <2>1, <2>2 DEF ShowsTheList, KnowsTheList, ToGet
  <2>4. QED
    BY <1>2, <1>4, <2>3 DEF ShowsTheList, KnowsTheList, GetsTheList
<1>5. CASE window[w].at = "open"
  <2>1. w \in Registered
    BY <1>5 DEF Registered
  <2>2. PICK r \in Casts :
          Newer(r) /\ cast' = [cast EXCEPT ![r] = [shows |-> Statuses(entry'), left |-> Registered, of |-> e, by |-> v]]
    BY <2>1 DEF Broadcast, Following
  <2>3. ToGet(w) \subseteq UnderWay
    BY DEF ToGet, UnderWay
  <2>4. cast'[r].shows = Statuses(entry') /\ w \in cast'[r].left /\ \A s \in Casts \ {r} : cast'[s] = cast[s]
    BY <2>1, <2>2 DEF LegacyInv, EntriesTyped
  <2>5. ToGet(w)' = ToGet(w) \cup {r}
    BY <2>4 DEF ToGet
  <2>6. r \in Nat /\ r > 0 /\ (\A s \in Casts : s \in Nat) /\ window'[w].last \in Nat
    BY <1>1, <1>2, LegacyAssumption DEF Casts, WindowType
  <2>7. (\A s \in ToGet(w) : s < r) /\ window'[w].last < r
    BY <1>2, <2>2, <2>3, <2>6 DEF Newer
  <2>8. window'[w].last \notin ToGet(w)'
    <3>1. CASE UnderWay = {}
      BY <1>2, <2>3, <2>5, <2>6, <3>1
    <3>2. CASE UnderWay # {}
      <4>1. window'[w].last = window[w].last /\ window[w].last \notin ToGet(w)
        BY <1>2, <1>5, <3>2 DEF ShowsTheList, GetsTheList
      <4>2. QED
        BY <2>5, <2>6, <2>7, <4>1
    <3>3. QED
      BY <3>1, <3>2
  <2>9. ASSUME NEW t \in ToGet(w)', \A s \in ToGet(w)' : s <= t PROVE cast'[t].shows = Statuses(entry')
    <3>1. r <= t /\ (t = r \/ t < r) /\ t \in Nat
      BY <2>5, <2>6, <2>7, <2>9 DEF ToGet
    <3>2. t = r
      BY <2>6, <3>1
    <3>3. QED
      BY <2>4, <3>2
  <2>10. ~\A s \in ToGet(w)' : s < window'[w].last
    BY <2>5, <2>6, <2>7
  <2>11. GetsTheList(w)'
    BY <2>8, <2>9, <2>10 DEF GetsTheList
  <2>12. KnowsTheList(w)'
    BY <1>2, <1>5 DEF KnowsTheList
  <2>13. QED
    BY <2>11, <2>12 DEF ShowsTheList
<1>6. QED
  BY <1>1, <1>3, <1>4, <1>5 DEF WindowType

\* A list that is sent is the newest, or a newer one is on its way, or it is late.
LEMMA SendShows ==
  ASSUME LegacyInv, NEW w \in Windows, ShowsTheList(w), NEW v \in Windows, NEW r \in Casts, Send(v, r)
  PROVE  ShowsTheList(w)'
<1>1. window[w] \in WindowType /\ cast[r] \in CastType /\ cast \in [Casts -> CastType]
  BY DEF LegacyInv, EntriesTyped
<1>2. UNCHANGED <<entry, due>> /\ v \in cast[r].left
  BY DEF Send
<1>3. /\ \A s \in Casts \ {r} : cast'[s] = cast[s]
      /\ cast'[r].left = cast[r].left \ {v}
      /\ cast'[r].left = {} \/ cast'[r].shows = cast[r].shows
  <2>1. \/ cast[r].left \ {v} = {} /\ cast' = [cast EXCEPT ![r] = NoCast]
        \/ cast' = [cast EXCEPT ![r] = [cast[r] EXCEPT !.left = cast[r].left \ {v}]]
    BY DEF Send
  <2>2. QED
    BY <1>1, <2>1 DEF NoCast, CastType
<1>4. r \in Nat /\ (\A s \in Casts : s \in Nat) /\ window[w].last \in Nat
  BY <1>1, LegacyAssumption DEF Casts, WindowType
<1>5. CASE w # v \/ window[w].at # "open"
  <2>1. window'[w] = window[w]
    <3>1. CASE window[v].at # "open"
      BY <3>1 DEF Send
    <3>2. CASE window[v].at = "open"
      <4>1. window' = [window EXCEPT ![v].shows = cast[r].shows, ![v].missed = r < window[v].last,
                                     ![v].last = IF r < window[v].last THEN window[v].last ELSE r]
        BY <3>2 DEF Send
      <4>2. QED
        BY <1>5, <3>2, <4>1 DEF LegacyInv, EntriesTyped
    <3>3. QED
      BY <3>1, <3>2
  <2>2. CASE window[w].at = "open"
    <3>1. w # v
      BY <1>5, <2>2
    <3>2. \A s \in Casts : (w \in cast'[s].left <=> w \in cast[s].left)
      BY <1>3, <3>1
    <3>3. ToGet(w)' = ToGet(w) /\ \A s \in ToGet(w) : cast'[s].shows = cast[s].shows
      BY <1>3, <3>2 DEF ToGet
    <3>4. QED
      BY <1>2, <2>1, <2>2, <3>3 DEF ShowsTheList, KnowsTheList, GetsTheList, AllTold
  <2>3. CASE window[w].at # "open"
    <3>1. ToGet(w)' \subseteq ToGet(w)
      BY <1>3 DEF ToGet
    <3>2. QED
      BY <1>2, <2>1, <2>3, <3>1 DEF ShowsTheList, KnowsTheList, GetsTheList, AllTold
  <2>4. QED
    BY <2>2, <2>3
<1>6. CASE w = v /\ window[w].at = "open"
  <2>1. /\ window'[w].at = "open" /\ window'[w].shows = cast[r].shows
        /\ window'[w].missed = (r < window[w].last)
        /\ window'[w].last = IF r < window[w].last THEN window[w].last ELSE r
    <3>1. window' = [window EXCEPT ![w].shows = cast[r].shows, ![w].missed = r < window[w].last,
                                   ![w].last = IF r < window[w].last THEN window[w].last ELSE r]
      BY <1>6 DEF Send
    <3>2. QED
      BY <1>1, <1>6, <3>1 DEF WindowType, LegacyInv, EntriesTyped
  <2>2. r \in ToGet(w) /\ ToGet(w)' = ToGet(w) \ {r} /\ \A s \in ToGet(w)' : cast'[s].shows = cast[s].shows
    BY <1>2, <1>3, <1>6 DEF ToGet
  <2>3. /\ window[w].last \notin ToGet(w)
        /\ AllTold => \A t \in ToGet(w) : window[w].last < t /\ (\A s \in ToGet(w) : s <= t)
                                            => cast[t].shows = Statuses(entry)
    BY <1>6 DEF ShowsTheList, GetsTheList
  <2>4. \A s \in ToGet(w) : s \in Nat
    BY <1>4 DEF ToGet
  <2>5. AllTold' = AllTold /\ Statuses(entry') = Statuses(entry)
    BY <1>2 DEF AllTold
  <2>6. CASE r < window[w].last
    <3>1. window'[w].last = window[w].last /\ window'[w].missed
      BY <2>1, <2>6
    <3>2. ASSUME AllTold, NEW t \in ToGet(w)', window[w].last < t, \A s \in ToGet(w)' : s <= t
          PROVE  cast'[t].shows = Statuses(entry)
      <4>1. t \in ToGet(w) /\ \A s \in ToGet(w) : s = r \/ s \in ToGet(w)'
        BY <2>2, <3>2
      <4>2. t \in Nat /\ r <= t
        BY <1>4, <2>4, <2>6, <3>2, <4>1
      <4>3. \A s \in ToGet(w) : s <= t
        BY <3>2, <4>1, <4>2
      <4>4. QED
        BY <2>2, <2>3, <3>2, <4>3
    <3>3. QED
      BY <2>1, <2>2, <2>3, <2>5, <3>1, <3>2 DEF ShowsTheList, KnowsTheList, GetsTheList
  <2>7. CASE ~(r < window[w].last)
    <3>1. window[w].last < r /\ window'[w].last = r
      BY <1>4, <2>1, <2>2, <2>3, <2>7
    <3>2. ASSUME AllTold, NEW t \in ToGet(w)', r < t, \A s \in ToGet(w)' : s <= t
          PROVE  cast'[t].shows = Statuses(entry)
      <4>1. t \in ToGet(w) /\ \A s \in ToGet(w) : s = r \/ s \in ToGet(w)'
        BY <2>2, <3>2
      <4>2. t \in Nat /\ r <= t
        BY <1>4, <2>4, <3>2, <4>1
      <4>3. window[w].last < t /\ \A s \in ToGet(w) : s <= t
        BY <1>4, <3>1, <3>2, <4>1, <4>2
      <4>4. QED
        BY <2>2, <2>3, <3>2, <4>3
    <3>3. ASSUME AllTold, \A s \in ToGet(w)' : s < r PROVE cast[r].shows = Statuses(entry)
      <4>1. \A s \in ToGet(w) : s <= r
        BY <1>4, <2>2, <2>4, <3>3
      <4>2. QED
        BY <2>2, <2>3, <3>1, <3>3, <4>1
    <3>4. QED
      BY <2>1, <2>2, <2>5, <3>1, <3>2, <3>3 DEF ShowsTheList, KnowsTheList, GetsTheList
  <2>8. QED
    BY <2>6, <2>7
<1>7. QED
  BY <1>5, <1>6

\* Who was to have a list that is given up has missed it, until it gets a newer one.
LEMMA AbandonShows ==
  ASSUME LegacyInv, NEW w \in Windows, ShowsTheList(w), NEW r \in Casts, Abandon(r)
  PROVE  ShowsTheList(w)'
<1>1. window[w] \in WindowType /\ cast \in [Casts -> CastType]
  BY DEF LegacyInv, EntriesTyped
<1>2. /\ UNCHANGED <<entry, due>>
      /\ cast' = [cast EXCEPT ![r] = NoCast]
      /\ window'[w] = IF w \in Registered \cap cast[r].left /\ window[w].last < r
                      THEN [window[w] EXCEPT !.missed = TRUE, !.last = r] ELSE window[w]
  BY DEF Abandon
<1>3. ToGet(w)' = ToGet(w) \ {r} /\ \A s \in ToGet(w)' : cast'[s] = cast[s]
  BY <1>1, <1>2 DEF ToGet, NoCast
<1>4. r \in Nat /\ (\A s \in ToGet(w) : s \in Nat) /\ window[w].last \in Nat
  BY <1>1, LegacyAssumption DEF Casts, WindowType, ToGet
<1>5. window'[w].at = window[w].at /\ AllTold' = AllTold /\ Statuses(entry') = Statuses(entry)
  BY <1>1, <1>2 DEF WindowType, AllTold
<1>6. CASE window[w].at # "open"
  <2>1. window'[w] = window[w]
    BY <1>2, <1>6 DEF Registered
  <2>2. QED
    BY <1>3, <1>5, <1>6, <2>1 DEF ShowsTheList, KnowsTheList, GetsTheList
<1>7. CASE window[w].at = "open"
  <2>1. /\ window[w].last \notin ToGet(w)
        /\ AllTold => \A t \in ToGet(w) : window[w].last < t /\ (\A s \in ToGet(w) : s <= t)
                                            => cast[t].shows = Statuses(entry)
    BY <1>7 DEF ShowsTheList, GetsTheList
  <2>2. CASE r \in ToGet(w) /\ window[w].last < r
    <3>1. window'[w].missed /\ window'[w].last = r
      BY <1>1, <1>2, <1>7, <2>2 DEF WindowType, Registered, ToGet
    <3>2. ASSUME AllTold, NEW t \in ToGet(w)', r < t, \A s \in ToGet(w)' : s <= t
          PROVE  cast'[t].shows = Statuses(entry)
      <4>1. t \in ToGet(w) /\ \A s \in ToGet(w) : s = r \/ s \in ToGet(w)'
        BY <1>3, <3>2
      <4>2. t \in Nat /\ r <= t
        BY <1>4, <3>2, <4>1
      <4>3. window[w].last < t /\ \A s \in ToGet(w) : s <= t
        BY <1>4, <2>2, <3>2, <4>1, <4>2
      <4>4. QED
        BY <1>3, <2>1, <3>2, <4>3
    <3>3. QED
      BY <1>3, <1>5, <1>7, <3>1, <3>2 DEF ShowsTheList, KnowsTheList, GetsTheList
  <2>3. CASE r \notin ToGet(w) \/ ~(window[w].last < r)
    <3>1. window'[w] = window[w]
      BY <1>2, <2>3 DEF ToGet
    <3>2. r \in ToGet(w) => r < window[w].last
      BY <1>4, <2>1, <2>3
    <3>3. ASSUME AllTold, NEW t \in ToGet(w)', window[w].last < t, \A s \in ToGet(w)' : s <= t
          PROVE  cast'[t].shows = Statuses(entry)
      <4>1. \A s \in ToGet(w) : s <= t
        BY <1>3, <1>4, <3>2, <3>3
      <4>2. QED
        BY <1>3, <2>1, <3>3, <4>1
    <3>4. (\A s \in ToGet(w)' : s < window[w].last) => \A s \in ToGet(w) : s < window[w].last
      BY <1>3, <3>2
    <3>5. QED
      BY <1>3, <1>5, <1>7, <2>1, <3>1, <3>3, <3>4 DEF ShowsTheList, KnowsTheList, GetsTheList
  <2>4. QED
    BY <2>2, <2>3
<1>8. QED
  BY <1>6, <1>7

\* When the last change has been told, an open window shows the list of tasks as it is,
\* however many broadcasts are under way and whichever window holds one up, unless it missed
\* a list: by connecting (server.py sends the snapshot before it registers), because an older
\* one was held up elsewhere, or because the request that broadcast was cancelled.
THEOREM WindowsShowTheList == LegacySpec => []WindowsAreCurrent
<1> DEFINE Shown == \A w \in Windows : ShowsTheList(w)
<1>1. LegacyInit => Shown
  BY DEF LegacyInit, ShowsTheList, KnowsTheList, GetsTheList, Unconnected
<1>2. LegacyInv /\ Shown /\ [Legacy]_serverVars => Shown'
  <2> SUFFICES ASSUME LegacyInv, Shown, [Legacy]_serverVars, NEW w \in Windows
               PROVE  ShowsTheList(w)'
    OBVIOUS
  <2>1. ShowsTheList(w) /\ window \in [Windows -> WindowType] /\ due \in [Entries -> {"none", "start", "done"}]
    BY DEF LegacyInv, EntriesTyped
  <2>2. ASSUME Statuses(entry') = Statuses(entry), UNCHANGED <<window, cast, due>>
        PROVE ShowsTheList(w)'
    BY <2>1, <2>2, NothingShown
  <2>3. CASE UNCHANGED serverVars
    BY <2>2, <2>3 DEF serverVars
  <2>4. ASSUME NEW v \in Windows, Handshake(v) \/ Register(v) \/ Hangup(v) \/ ProjectSelect(v) \/ AnswerEntry(v)
        PROVE  ShowsTheList(w)'
    <3>1. UNCHANGED <<entry, cast, due>>
      BY <2>4 DEF Handshake, Register, Hangup, ProjectSelect, AnswerEntry, sending
    <3>2. ToGet(w)' = ToGet(w) /\ AllTold' = AllTold /\ Statuses(entry') = Statuses(entry)
      BY <3>1 DEF ToGet, AllTold
    <3>3. CASE window'[w] = window[w]
      BY <2>1, <3>1, <3>2, <3>3 DEF ShowsTheList, KnowsTheList, GetsTheList
    <3>4. CASE Handshake(v) /\ w = v
      <4>1. PICK p : window' = [window EXCEPT ![w] = [Unconnected EXCEPT !.at = "ready", !.project = p, !.shows = Statuses(entry)]]
        BY <3>4 DEF Handshake
      <4>2. window'[w].at = "ready" /\ window'[w].shows = Statuses(entry)
        BY <2>1, <4>1 DEF Unconnected
      <4>3. ToGet(w) = {}
        BY <3>4 DEF Handshake, ToGet, UnderWay
      <4>4. QED
        BY <3>2, <4>2, <4>3 DEF ShowsTheList, KnowsTheList, GetsTheList
    <3>5. CASE Register(v) /\ w = v
      <4>1. window[w].at = "ready" /\ window'[w] = [window[w] EXCEPT !.at = "open"]
        BY <2>1, <3>5 DEF Register
      <4>2. /\ window'[w].at = "open" /\ window'[w].shows = window[w].shows
            /\ window'[w].missed = window[w].missed
        BY <2>1, <4>1 DEF WindowType
      <4>3. QED
        BY <2>1, <3>2, <4>1, <4>2 DEF ShowsTheList, KnowsTheList, GetsTheList
    <3>6. CASE Hangup(v) /\ w = v
      BY <2>1, <3>6 DEF Hangup, Unconnected, ShowsTheList, KnowsTheList, GetsTheList
    <3>7. CASE ProjectSelect(v) /\ w = v
      <4>1. /\ window'[w].at = window[w].at /\ window'[w].shows = window[w].shows
            /\ window'[w].missed = window[w].missed /\ window'[w].last = window[w].last
        BY <2>1, <3>7 DEF ProjectSelect, WindowType
      <4>2. QED
        BY <2>1, <3>1, <3>2, <4>1 DEF ShowsTheList, KnowsTheList, GetsTheList
    <3>8. CASE AnswerEntry(v) \/ w # v
      <4>1. window'[w] = window[w]
        BY <2>1, <2>4, <3>8 DEF Handshake, Register, Hangup, ProjectSelect, AnswerEntry
      <4>2. QED
        BY <3>3, <4>1
    <3>9. QED
      BY <2>4, <3>4, <3>5, <3>6, <3>7, <3>8
  <2>5. ASSUME NEW v \in Windows, NEW kind \in Kinds, StartEntry(v, kind)
        PROVE  ShowsTheList(w)'
    <3>1. UNCHANGED <<window, cast>> /\ \E e \in Entries : due' = [due EXCEPT ![e] = "start"]
      BY <2>5 DEF StartEntry
    <3>2. ~AllTold'
      BY <2>1, <3>1 DEF AllTold
    <3>3. QED
      BY <2>1, <3>1, <3>2, ChangeIsDue
  <2>6. ASSUME NEW e \in Entries, EntryBegins(e) \/ EntryEnds(e)
        PROVE  ShowsTheList(w)'
    <3>1. UNCHANGED <<window, cast, due>> /\ \E run : entry' = [entry EXCEPT ![e].run = run]
      BY <2>6 DEF EntryBegins, EntryEnds, sending
    <3>2. QED
      BY <2>2, <3>1, RunIsNotShown
  <2>7. ASSUME NEW v \in Windows, NEW e \in Entries, StopEntry(v, e)
        PROVE  ShowsTheList(w)'
    <3>1. CASE entry[e].kind = "clean"
      BY <2>1, <2>7, <3>1, BroadcastShows DEF StopEntry
    <3>2. CASE entry[e].kind # "clean"
      <4>1. UNCHANGED <<window, cast, due>> /\ \E run : entry' = [entry EXCEPT ![e].run = run]
        BY <2>7, <3>2 DEF StopEntry, sending
      <4>2. QED
        BY <2>2, <4>1, RunIsNotShown
    <3>3. QED
      BY <3>1, <3>2
  <2>8. ASSUME NEW e \in Entries, EntryDone(e)
        PROVE  ShowsTheList(w)'
    <3>1. UNCHANGED <<window, cast>> /\ due' = [due EXCEPT ![e] = "done"]
      BY <2>8 DEF EntryDone
    <3>2. ~AllTold'
      BY <2>1, <3>1 DEF AllTold
    <3>3. QED
      BY <2>1, <3>1, <3>2, ChangeIsDue
  <2>9. ASSUME NEW e \in Entries, Forget(e) \/ Announce(e)
        PROVE  ShowsTheList(w)'
    <3>1. \E d : Broadcast(entry', d, "server")
      BY <2>9 DEF Forget, Announce
    <3>2. QED
      BY <2>1, <3>1, BroadcastShows
  <2>10. ASSUME NEW e \in Entries, NEW i \in Instances, WorkerEnds(e, i)
        PROVE  ShowsTheList(w)'
    BY <2>2, <2>10 DEF WorkerEnds, sending
  <2>11. ASSUME NEW r \in Casts, Abandon(r) \/ \E v \in Windows : Send(v, r) PROVE ShowsTheList(w)'
    BY <2>1, <2>11, AbandonShows, SendShows
  <2>12. QED
    BY <2>3, <2>4, <2>5, <2>6, <2>7, <2>8, <2>9, <2>10, <2>11 DEF Legacy
<1>3. Shown => WindowsAreCurrent
  <2> SUFFICES ASSUME Shown, NEW w \in Windows, window[w].at = "open", ~window[w].missed, AllTold,
                      \A r \in UnderWay : w \notin cast[r].left
               PROVE  window[w].shows = Statuses(entry)
    BY DEF WindowsAreCurrent, AllTold
  <2>1. ToGet(w) = {}
    BY DEF ToGet, UnderWay
  <2>2. QED
    BY <2>1 DEF ShowsTheList, GetsTheList
<1>4. QED
  BY <1>1, <1>2, <1>3, LegacyInvariant, PTL DEF LegacySpec

-----------------------------------------------------------------------------
(***************************************************************************)
(* The launcher                                                            *)
(***************************************************************************)

Children == {"none", "up", "ended"}

LaunchPhases == {"backend", "vite", "watch", "stop vite", "stop backend", "over"}

LaunchTyped ==
  launch \in [pc : LaunchPhases, backend : Children, vite : Children, interrupts : Nat, lost : BOOLEAN]

\* What an interrupt changes.
LEMMA Interrupted ==
  ASSUME LaunchTyped, NEW n \in Nat, NEW b \in BOOLEAN, NEW pc \in LaunchPhases,
         launch' = [launch EXCEPT !.interrupts = n, !.pc = pc, !.lost = b]
  PROVE  LaunchTyped' /\ launch'.lost = b /\ launch'.pc = pc
BY DEF LaunchTyped

\* Which of the two processes may still be up at each step, unless the launcher was left
\* outside of its watch.
NobodyLost ==
  ~launch.lost =>
    /\ launch.pc \in {"backend", "over"} => launch.backend # "up"
    /\ launch.pc \in {"backend", "vite", "stop backend", "over"} => launch.vite # "up"

\* An interrupt outside of the watch is noticed, one within it terminates both processes.
LEMMA InterruptKeeps ==
  ASSUME LaunchTyped, NobodyLost, InterruptLauncher
  PROVE  LaunchTyped' /\ NobodyLost'
<1>1. /\ launch.interrupts + 1 \in Nat
      /\ launch' = [launch EXCEPT !.interrupts = launch.interrupts + 1,
           !.pc = IF launch.pc = "watch" THEN "stop vite" ELSE "over",
           !.lost = launch.pc # "watch"]
  BY DEF InterruptLauncher, LaunchTyped
<1>2. CASE launch.pc = "watch"
  <2>1. launch' = [launch EXCEPT !.interrupts = launch.interrupts + 1, !.pc = "stop vite", !.lost = FALSE]
    BY <1>1, <1>2
  <2>2. LaunchTyped' /\ launch'.pc = "stop vite"
    BY <1>1, <2>1, Interrupted DEF LaunchPhases
  <2>3. QED
    BY <2>2 DEF NobodyLost
<1>3. CASE launch.pc # "watch"
  <2>1. launch' = [launch EXCEPT !.interrupts = launch.interrupts + 1, !.pc = "over", !.lost = TRUE]
    BY <1>1, <1>3
  <2>2. LaunchTyped' /\ launch'.lost
    BY <1>1, <2>1, Interrupted DEF LaunchPhases
  <2>3. QED
    BY <2>2 DEF NobodyLost
<1>4. QED
  BY <1>2, <1>3

\* run_ui() of launcher.py terminates both processes, the second after the first, in a
\* finally, unless pnpm could not be started or it is interrupted outside of its watch.
THEOREM LauncherCleansUp == LaunchSpec => []LauncherLeavesNobody
<1>1. LaunchInit => LaunchTyped /\ NobodyLost
  BY DEF LaunchInit, LaunchTyped, NobodyLost, Children, LaunchPhases
<1>2. LaunchTyped /\ NobodyLost /\ [Launcher]_launch => LaunchTyped' /\ NobodyLost'
  <2> SUFFICES ASSUME LaunchTyped, NobodyLost, [Launcher]_launch
               PROVE  LaunchTyped' /\ NobodyLost'
    OBVIOUS
  <2> USE DEF LaunchTyped, NobodyLost, Children, LaunchPhases
  <2>1. CASE UNCHANGED launch
    BY <2>1
  <2>2. CASE Spawn
    BY <2>2 DEF Spawn
  <2>3. CASE ProcessEnds("backend") \/ ProcessEnds("vite")
    BY <2>3 DEF ProcessEnds
  <2>4. CASE Leave
    BY <2>4 DEF Leave
  <2>5. ASSUME InterruptLauncher
        PROVE  LaunchTyped' /\ NobodyLost'
    BY <2>5, InterruptKeeps
  <2>6. CASE Terminate("vite", "stop vite", "stop backend")
    BY <2>6 DEF Terminate
  <2>7. CASE Terminate("backend", "stop backend", "over")
    BY <2>7 DEF Terminate
  <2>8. QED
    BY <2>1, <2>2, <2>3, <2>4, <2>5, <2>6, <2>7 DEF Launcher
<1>3. NobodyLost => LauncherLeavesNobody
  BY DEF NobodyLost, LauncherLeavesNobody
<1>4. QED
  BY <1>1, <1>2, <1>3, PTL DEF LaunchSpec
-----------------------------------------------------------------------------
(***************************************************************************)
(* What the variables of the components hold                               *)
(***************************************************************************)

\* The jobs install one file after the other, none beyond the last.
DistBounded ==
  /\ \A j \in Jobs : job[j].next \in 1 .. Files + 1
  /\ \A j \in Jobs : job[j].pc \in {"look", "remove", "make", "install"} => job[j].next \in 1 .. Files
  /\ \A s \in Specs : build[s].files \subseteq Installed
  /\ crowded \subseteq Specs /\ stops \in 0 .. MaxStops

\* A step of one job that leaves its counter alone, and the files as they are or removed.
LEMMA BoundKeeps ==
  ASSUME DistTyped, DistBounded, NEW j \in Jobs, NEW pc, JobGoes(j, pc),
         pc \in {"look", "remove", "make", "install"} => JobAt(j, "look") \/ JobAt(j, "remove") \/ JobAt(j, "make"),
         \A s \in Specs : build'[s].files \subseteq build[s].files,
         crowded' \subseteq Specs, stops' \in 0 .. MaxStops
  PROVE  DistBounded'
<1>1. \A k \in Jobs : job'[k].next = job[k].next /\ (k # j => job'[k].pc = job[k].pc) /\ job'[j].pc = pc
  BY DEF JobGoes, DistTyped
<1>2. \A k \in Jobs : job'[k].next \in 1 .. Files + 1
  BY <1>1 DEF DistBounded
<1>3. ASSUME NEW k \in Jobs, job'[k].pc \in {"look", "remove", "make", "install"} PROVE job'[k].next \in 1 .. Files
  BY <1>1, <1>3 DEF DistBounded, JobAt
<1>4. \A s \in Specs : build'[s].files \subseteq Installed
  BY DEF DistBounded
<1>5. QED
  BY <1>2, <1>3, <1>4 DEF DistBounded

\* No job installs more files than there are.
LEMMA DistBoundHolds == DistSpec => []DistBounded
<1>1. DistInit => DistBounded
  BY DockerAssumption DEF DistInit, DistBounded, NotThere, Installed
<1>2. DistTyped /\ DistBounded /\ [\E j \in Jobs : Dist(j)]_dist => DistBounded'
  <2> SUFFICES ASSUME DistTyped, DistBounded, [\E j \in Jobs : Dist(j)]_dist PROVE DistBounded'
    OBVIOUS
  <2> USE DockerAssumption
  <2>1. CASE UNCHANGED dist
    BY <2>1 DEF dist, DistBounded
  <2>2. ASSUME NEW j \in Jobs, RunDist(j) \/ StartContainer(j) \/ RunScript(j) PROVE DistBounded'
    <3>1. \E pc \in {"image", "resolve", "failed", "ran"} : JobGoes(j, pc)
      BY <2>2 DEF RunDist, StartContainer, RunScript
    <3>2. QED
      BY <2>2, <3>1, BoundKeeps DEF RunDist, StartContainer, RunScript, DistBounded
  <2>3. ASSUME NEW j \in Jobs, ResolveRef(j) PROVE DistBounded'
    <3>1. UNCHANGED <<build, crowded, stops>>
      BY <2>3 DEF ResolveRef
    <3>2. CASE JobGoes(j, "failed")
      BY <3>1, <3>2, BoundKeeps DEF DistBounded
    <3>3. ASSUME NEW s \in Specs, job' = [job EXCEPT ![j] = [pc |-> "look", spec |-> s, next |-> 1]]
          PROVE  DistBounded'
      BY <3>1, <3>3 DEF DistBounded, DistTyped
    <3>4. QED
      BY <2>3, <3>2, <3>3 DEF ResolveRef
  <2>4. ASSUME NEW j \in Jobs, EnsureBuild(j) PROVE DistBounded'
    <3>1. job[j].spec \in Specs /\ JobAt(j, "look")
      BY <2>4 DEF EnsureBuild, JobAt, DistTyped
    <3>2. crowded' \subseteq Specs /\ UNCHANGED <<build, stops>> /\ \E pc \in {"run", "remove"} : JobGoes(j, pc)
      BY <2>4, <3>1 DEF EnsureBuild, DistBounded
    <3>3. QED
      BY <3>1, <3>2, BoundKeeps DEF DistBounded
  <2>5. ASSUME NEW j \in Jobs, RemoveOld(j) PROVE DistBounded'
    <3>1. \A s \in Specs : build'[s].files \subseteq build[s].files
      BY <2>5 DEF RemoveOld, NotThere, DistTyped
    <3>2. QED
      BY <2>5, <3>1, BoundKeeps DEF RemoveOld, DistBounded
  <2>6. ASSUME NEW j \in Jobs, Make(j) PROVE DistBounded'
    BY <2>6, BoundKeeps DEF Make, DistBounded
  <2>7. ASSUME NEW j \in Jobs, Install(j) PROVE DistBounded'
    <3>1. job[j].pc = "install" /\ job[j].spec \in Specs /\ job[j].next \in 1 .. Files /\ UNCHANGED <<crowded, stops>>
      BY <2>7 DEF Install, JobAt, DistTyped, DistBounded, Building
    <3>2. job' = [job EXCEPT ![j] = [pc |-> IF job[j].next = Files THEN "manifest" ELSE "install",
                                     spec |-> job[j].spec, next |-> job[j].next + 1]]
      BY <2>7 DEF Install
    <3>3. build' = [build EXCEPT ![job[j].spec] = [build[job[j].spec] EXCEPT !.files =
                                                     build[job[j].spec].files \cup {job[j].next}]]
      BY <2>7 DEF Install
    <3>4. \A s \in Specs : build'[s].files \subseteq Installed
      <4>1. \A s \in Specs : build'[s].files \subseteq build[s].files \cup {job[j].next}
        BY <3>1, <3>3 DEF DistTyped
      <4>2. QED
        BY <3>1, <4>1 DEF DistBounded, Installed
    <3>5. job'[j].next \in 1 .. Files + 1 /\ (job'[j].pc = "install" => job'[j].next \in 1 .. Files)
          /\ job'[j].pc \in {"manifest", "install"}
      <4>1. job'[j] = [pc |-> IF job[j].next = Files THEN "manifest" ELSE "install",
                       spec |-> job[j].spec, next |-> job[j].next + 1]
        BY <3>2 DEF DistTyped
      <4>2. Files \in Nat
        BY DockerAssumption
      <4>3. QED
        BY <3>1, <4>1, <4>2
    <3>6. \A k \in Jobs \ {j} : job'[k] = job[k]
      BY <3>2 DEF DistTyped
    <3>7. \A k \in Jobs : job'[k].next \in 1 .. Files + 1
      BY <3>5, <3>6 DEF DistBounded
    <3>8. \A k \in Jobs : job'[k].pc \in {"look", "remove", "make", "install"} => job'[k].next \in 1 .. Files
      BY <3>5, <3>6 DEF DistBounded
    <3>9. crowded' \subseteq Specs /\ stops' \in 0 .. MaxStops
      BY <3>1 DEF DistBounded
    <3>10. QED
      BY <3>4, <3>7, <3>8, <3>9 DEF DistBounded
  <2>8. ASSUME NEW j \in Jobs, WriteManifest(j) \/ WriteStamp(j) PROVE DistBounded'
    <3>1. \A s \in Specs : build'[s].files = build[s].files
      BY <2>8, SMTT(30) DEF WriteManifest, WriteStamp, DistTyped
    <3>2. UNCHANGED <<crowded, stops>> /\ \E pc \in {"stamp", "run"} : JobGoes(j, pc)
      BY <2>8 DEF WriteManifest, WriteStamp
    <3>3. QED
      BY <3>1, <3>2, BoundKeeps DEF DistBounded
  <2>9. ASSUME NEW j \in Jobs, StopJob(j) PROVE DistBounded'
    <3>1. stops' \in 0 .. MaxStops
      BY <2>9 DEF StopJob, DistBounded
    <3>2. QED
      BY <2>9, <3>1, BoundKeeps DEF StopJob, DistBounded
  <2>10. ASSUME NEW j \in Jobs, AgainDist(j) PROVE DistBounded'
    <3>1. stops' \in 0 .. MaxStops
      BY <2>10 DEF AgainDist, DistBounded
    <3>2. job' = [job EXCEPT ![j] = [pc |-> "idle", spec |-> NoSpec, next |-> 1]] /\ UNCHANGED <<build, crowded>>
      BY <2>10 DEF AgainDist
    <3>3. QED
      BY <3>1, <3>2 DEF DistBounded, DistTyped
  <2>11. QED
    BY <2>1, <2>2, <2>3, <2>4, <2>5, <2>6, <2>7, <2>8, <2>9, <2>10 DEF Dist
<1>3. QED
  BY <1>1, <1>2, DistTypeCorrect, PTL DEF DistSpec

-----------------------------------------------------------------------------
\* The driver waits no longer than its deadline and writes one of its outputs.
LEMMA LldbTypeHolds == LldbSpec => []LldbTypeOK
<1>1. LldbInit => LldbTypeOK
  BY LldbAssumption DEF LldbInit, LldbTypeOK
<1>2. LldbTypeOK /\ [Lldb]_lldbVars => LldbTypeOK'
  <2> SUFFICES ASSUME LldbTypeOK, [Lldb]_lldbVars PROVE LldbTypeOK'
    OBVIOUS
  <2> USE LldbAssumption DEF LldbTypeOK
  <2>1. CASE UNCHANGED lldbVars
    BY <2>1 DEF lldbVars
  <2>2. CASE NoTarget \/ LoadCore \/ Launch
    BY <2>2 DEF NoTarget, LoadCore, Launch, Writes
  <2>3. CASE HandleEvent
    BY <2>3 DEF HandleEvent, Writes
  <2>4. CASE Wait \/ TimeOut
    BY <2>4 DEF Wait, TimeOut, Writes
  <2>5. CASE ProcessMoves
    BY <2>5 DEF ProcessMoves, Cause
  <2>6. QED
    BY <2>1, <2>2, <2>3, <2>4, <2>5 DEF Lldb, Drive
<1>3. QED
  BY <1>1, <1>2, PTL DEF LldbSpec

-----------------------------------------------------------------------------
\* What a campaign's counters can be.
StatsBounded == crashes \in 0 .. MaxCrashes /\ monitor.tier \in None .. MaxCrashes

\* A tier is a magnitude that was seen.
LEMMA StatsBoundStep ==
  ASSUME StatsTyped, MonitorTyped, StatsBounded, [Statistics]_statsVars
  PROVE  StatsBounded'
<1> USE StatsAssumption
<1>1. CASE UNCHANGED statsVars
  BY <1>1 DEF StatsBounded, statsVars
<1>2. ASSUME NEW w \in Workers, WorkerStarts(w) \/ WorkerReports(w) \/ WorkerDies(w) PROVE StatsBounded'
  BY <1>2 DEF StatsBounded, WorkerStarts, WorkerReports, WorkerDies
<1>4. CASE CleanOutputs
  BY <1>4 DEF CleanOutputs, Quiet, StatsBounded
<1>5. CASE Round
  <2>1. PICK tier \in {Magnitude(TRUE), Magnitude(~cleaning)} :
          \E t \in {tier, monitor.tier} :
             monitor' = [monitor EXCEPT !.started = TRUE, !.over = monitor.once, !.tier = t]
    BY <1>5 DEF Round
  <2>2. tier \in None .. MaxCrashes
    BY DEF Magnitude, None, Quiet, StatsBounded
  <2>3. monitor'.tier \in None .. MaxCrashes
    BY <2>1, <2>2 DEF MonitorTyped, StatsBounded
  <2>4. QED
    BY <1>5, <2>3 DEF Round, StatsBounded
<1>6. QED
  BY <1>1, <1>2, <1>4, <1>5 DEF Statistics

\* Nothing is known at the start.
LEMMA StatsBoundBegin == ASSUME StatsInit PROVE StatsBounded
<1>1. PICK once \in BOOLEAN, notify \in BOOLEAN :
        monitor = [tier |-> None, started |-> FALSE, once |-> once, notify |-> notify, over |-> FALSE]
  BY DEF StatsInit
<1>2. monitor.tier = None
  BY <1>1
<1>3. QED
  BY <1>2, StatsAssumption DEF StatsInit, StatsBounded, Quiet, None

\* What is told of a campaign stays within its bounds.
LEMMA StatsTypeHolds == StatsSpec => []StatsTypeOK
<1>1. StatsTyped /\ StatsBounded => StatsTypeOK
  BY DEF StatsTyped, StatsBounded, StatsTypeOK
<1>2. QED
  BY <1>1, StatsBoundBegin, StatsBoundStep, MonitorInvHolds, PTL DEF StatsSpec

-----------------------------------------------------------------------------
\* The semaphore of a command is held by its requests that are out.
OutBounded == \A c \in Commands : IsFiniteSet(Out(c)) /\ Cardinality(Out(c)) <= Concurrency

\* A step of a request that is out, or of a command that ends, gives the semaphore back or
\* keeps it.
LEMMA FewerOut ==
  ASSUME OutBounded, \A c \in Commands : Out(c)' \subseteq Out(c)
  PROVE  OutBounded'
<1>1. ASSUME NEW c \in Commands PROVE IsFiniteSet(Out(c)') /\ Cardinality(Out(c)') <= Concurrency
  <2>1. IsFiniteSet(Out(c)) /\ Out(c)' \subseteq Out(c) /\ Cardinality(Out(c)) <= Concurrency
    BY DEF OutBounded
  <2> DEFINE S == Out(c)
             T == Out(c)'
  <2>2. IsFiniteSet(S) /\ T \subseteq S /\ Cardinality(S) <= Concurrency
    BY <2>1
  <2> HIDE DEF S, T
  <2>3. IsFiniteSet(T) /\ Cardinality(T) <= Cardinality(S) /\ Cardinality(S) \in Nat /\ Cardinality(T) \in Nat
    BY <2>2, FS_Subset, FS_CardinalityType
  <2>4. QED
    BY <2>2, <2>3, ReportAssumption DEF T
<1>2. QED
  BY <1>1 DEF OutBounded

\* Only a request that gets the semaphore goes out, and it gets it when one is free.
LEMMA OutStep ==
  ASSUME ReportInv, OutBounded, [Reports]_reportVars
  PROVE  OutBounded'
<1> DEFINE Out2(r, c) == {a \in Artifacts : r[<<c, a>>] \in {"asking", "open", "filled"}}
<1>0. \A c \in Commands : Out(c) = Out2(request, c) /\ Out(c)' = Out2(request', c)
  BY Zenon DEF Out
<1>1. CASE UNCHANGED request
  BY <1>0, <1>1, FewerOut
<1>2. ASSUME NEW c \in Commands, Ask(c) PROVE OutBounded'
  <2>1. request' = [q \in Requests |-> IF q[1] = c THEN "waiting" ELSE request[q]]
    BY <1>2 DEF Ask
  <2>2. \A d \in Commands : Out2(request', d) \subseteq Out2(request, d)
    BY <2>1 DEF Requests
  <2>3. QED
    BY <1>0, <2>2, FewerOut
<1>3. ASSUME NEW c \in Commands, InterruptRequests(c) PROVE OutBounded'
  <2>1. request' = [q \in Requests |-> IF q[1] = c /\ request[q] \notin Ended THEN "failed" ELSE request[q]]
    BY <1>3 DEF InterruptRequests
  <2>2. \A d \in Commands : Out2(request', d) \subseteq Out2(request, d)
    BY <2>1 DEF Requests
  <2>3. QED
    BY <1>0, <2>2, FewerOut
<1>4. ASSUME NEW q \in Requests, Answered(q) \/ FillDraft(q) \/ ReplaceReport(q) PROVE OutBounded'
  <2>1. request[q] \in {"asking", "open", "filled"}
        /\ \E s \in {"open", "filled", "failed", "written"} : request' = [request EXCEPT ![q] = s]
    BY <1>4 DEF Answered, FillDraft, ReplaceReport
  <2>2. \A d \in Commands : Out2(request', d) \subseteq Out2(request, d)
    BY <2>1 DEF ReportInv, ReportTyped, Requests
  <2>3. QED
    BY <1>0, <2>2, FewerOut
<1>5. ASSUME NEW q \in Requests, LoadArtifact(q) PROVE OutBounded'
  <2>1. PICK c \in Commands, b \in Artifacts : q = <<c, b>>
    BY DEF Requests
  <2>2. Cardinality(Out2(request, c)) < Concurrency /\ \E s \in {"skipped", "asking", "failed"} : request' = [request EXCEPT ![q] = s]
    BY <1>0, <1>5, <2>1 DEF LoadArtifact
  <2>3. \A d \in Commands \ {c} : Out2(request', d) = Out2(request, d)
    BY <2>1, <2>2 DEF ReportInv, ReportTyped, Requests
  <2>4. Out2(request', c) \subseteq Out2(request, c) \cup {b}
    BY <2>1, <2>2 DEF ReportInv, ReportTyped, Requests
  <2> DEFINE S == Out2(request, c)
             T == Out2(request', c)
  <2>5. IsFiniteSet(S) /\ Cardinality(S) < Concurrency /\ T \subseteq S \cup {b}
    BY <1>0, <2>2, <2>4 DEF OutBounded
  <2> HIDE DEF S, T
  <2>6. IsFiniteSet(S \cup {b}) /\ Cardinality(S \cup {b}) <= Cardinality(S) + 1 /\ Cardinality(S) \in Nat
    <3>1. Cardinality(S) \in Nat
      BY <2>5, FS_CardinalityType
    <3>2. CASE b \in S
      <4>1. S \cup {b} = S
        BY <3>2
      <4>2. QED
        BY <2>5, <3>1, <4>1
    <3>3. CASE b \notin S
      <4>1. IsFiniteSet(S)
        BY <2>5
      <4>2. IsFiniteSet(S \cup {b}) /\ Cardinality(S \cup {b}) = Cardinality(S) + 1
        BY <3>3, <4>1, FS_AddElement, Zenon
      <4>3. QED
        BY <3>1, <4>2
    <3>4. QED
      BY <3>1, <3>2, <3>3
  <2>7. IsFiniteSet(T) /\ Cardinality(T) <= Cardinality(S \cup {b})
    BY <2>5, <2>6, FS_Subset
  <2>8. Cardinality(T) \in Nat /\ Cardinality(S \cup {b}) \in Nat
    BY <2>6, <2>7, FS_CardinalityType
  <2>9. Cardinality(T) <= Concurrency
    BY <2>5, <2>6, <2>7, <2>8, ReportAssumption
  <2>10. IsFiniteSet(Out(c)') /\ Cardinality(Out(c)') <= Concurrency
    BY <1>0, <2>7, <2>9 DEF T
  <2>11. ASSUME NEW d \in Commands, d # c PROVE IsFiniteSet(Out(d)') /\ Cardinality(Out(d)') <= Concurrency
    BY <1>0, <2>3, <2>11 DEF OutBounded
  <2>12. QED
    BY <2>10, <2>11 DEF OutBounded
<1>6. QED
  BY <1>1, <1>2, <1>3, <1>4, <1>5 DEF Reports, reportVars

\* A command has no more requests out than CLASSIFY_CONCURRENCY.
LEMMA ReportTypeHolds == ReportSpec => []ReportTypeOK
<1>1. ReportInit => OutBounded
  <2> SUFFICES ASSUME ReportInit, NEW c \in Commands PROVE IsFiniteSet(Out(c)) /\ Cardinality(Out(c)) <= Concurrency
    BY DEF OutBounded
  <2>1. request = [q \in Requests |-> "none"]
    BY DEF ReportInit
  <2>2. \A a \in Artifacts : request[<<c, a>>] = "none"
    BY <2>1 DEF Requests
  <2>3. Out(c) = {}
    BY <2>2, Zenon DEF Out
  <2>4. QED
    BY <2>3, FS_EmptySet, ReportAssumption
<1>2. ReportInv /\ OutBounded => ReportTypeOK
  BY DEF ReportInv, ReportTyped, OutBounded, ReportTypeOK, Requesting, Drafts
<1>3. ReportInv /\ [Reports]_reportVars => ReportInv'
  BY ReportStep
<1>4. QED
  BY <1>1, <1>2, <1>3, ReportBegin, OutStep, PTL DEF ReportSpec
-----------------------------------------------------------------------------
\* A block is not posted twice, but for the end of stop(); the relay posts the status.
OnlyOnce(q) == \A i, j \in 1 .. Len(q) : q[i] = q[j] /\ i # j => q[i] = "finish124"

\* A block that is not in the queue yet can be posted.
LEMMA OnlyOnceAppend ==
  ASSUME NEW q \in Seq(Blocks), OnlyOnce(q), NEW b \in Blocks, b = "finish124" \/ ~In(b, q)
  PROVE  OnlyOnce(Append(q, b))
<1> DEFINE r == Append(q, b)
<1>1. Len(r) = Len(q) + 1 /\ Len(q) \in Nat
  OBVIOUS
<1>2. \A i \in 1 .. Len(r) : r[i] = IF i = Len(q) + 1 THEN b ELSE q[i]
  OBVIOUS
<1> HIDE DEF r
<1>3. ASSUME NEW i \in 1 .. Len(r), NEW j \in 1 .. Len(r), r[i] = r[j], i # j PROVE r[i] = "finish124"
  <2>1. CASE i = Len(q) + 1
    <3>1. j \in 1 .. Len(q) /\ r[j] = q[j] /\ r[i] = b
      BY <1>1, <1>2, <1>3, <2>1
    <3>2. QED
      BY <1>3, <3>1 DEF In
  <2>2. CASE j = Len(q) + 1
    <3>1. i \in 1 .. Len(q) /\ r[i] = q[i] /\ r[j] = b
      BY <1>1, <1>2, <1>3, <2>2
    <3>2. QED
      BY <1>3, <3>1 DEF In
  <2>3. CASE i # Len(q) + 1 /\ j # Len(q) + 1
    <3>1. i \in 1 .. Len(q) /\ j \in 1 .. Len(q) /\ r[i] = q[i] /\ r[j] = q[j]
      BY <1>1, <1>2, <1>3, <2>3
    <3>2. QED
      BY <1>3, <3>1 DEF OnlyOnce
  <2>4. QED
    BY <2>1, <2>2, <2>3
<1>4. OnlyOnce(r)
  BY <1>3 DEF OnlyOnce
<1>5. QED
  BY <1>4 DEF r

\* A block that is taken from the queue is not in it any more.
LEMMA OnlyOnceTail ==
  ASSUME NEW q \in Seq(Blocks), OnlyOnce(q), q # <<>>
  PROVE  OnlyOnce(Tail(q)) /\ (Head(q) # "finish124" => ~In(Head(q), Tail(q)))
<1>1. \A i \in 1 .. Len(Tail(q)) : i + 1 \in 1 .. Len(q) /\ Tail(q)[i] = q[i + 1]
  BY InTail
<1>2. Head(q) = q[1] /\ 1 \in 1 .. Len(q)
  OBVIOUS
<1>3. ASSUME NEW i \in 1 .. Len(Tail(q)), NEW j \in 1 .. Len(Tail(q)), Tail(q)[i] = Tail(q)[j], i # j
      PROVE  Tail(q)[i] = "finish124"
  <2>1. i + 1 # j + 1
    BY <1>3
  <2>2. QED
    BY <1>1, <1>3, <2>1 DEF OnlyOnce
<1>4. ASSUME NEW i \in 1 .. Len(Tail(q)), Tail(q)[i] = Head(q) PROVE Head(q) = "finish124"
  <2>1. i + 1 # 1
    BY <1>4
  <2>2. QED
    BY <1>1, <1>2, <1>4, <2>1 DEF OnlyOnce
<1>5. QED
  BY <1>3, <1>4 DEF OnlyOnce, In

\* Each block is posted at most once, but for the end of stop(), and the exit code is known.
LEMMA PfrunTypeHolds == PfrunSpec => []PfrunTypeOK
<1> USE DEF PfrunTypeOK
<1>1. PfrunInit => PfrunTypeOK
  BY DEF PfrunInit, In, Timers
<1>2. PfrunInv /\ PfrunTypeOK /\ [Pfrun]_pfrunVars => PfrunTypeOK'
  <2> SUFFICES ASSUME PfrunInv, PfrunTypeOK, [Pfrun]_pfrunVars PROVE PfrunTypeOK'
    OBVIOUS
  <2>0. queue \in Seq(Blocks) /\ OnlyOnce(queue)
    BY DEF PfrunInv, Waiting, OnlyOnce
  <2>1. CASE UNCHANGED pfrunVars
    BY <2>1 DEF pfrunVars, requested
  <2>2. CASE GuestStarts /\ exited = NotExited
    BY <2>2 DEF GuestStarts, Timers, requested
  <2>3. CASE GuestPrints /\ exited = NotExited
    BY <2>3 DEF GuestPrints, requested
  <2>4. ASSUME NEW b \in Blocks, Post(b), b = "finish124" \/ ~In(b, queue) PROVE OnlyOnce(queue')
    BY <2>0, <2>4, OnlyOnceAppend DEF Post
  <2>5. CASE GuestStops /\ exited = NotExited
    <3>1. ~In("guestDidStop", queue)
      BY <2>5 DEF GuestStops, PfrunInv, Waiting
    <3>2. OnlyOnce(queue') /\ (In("status", queue') => In("status", queue))
      BY <2>0, <2>4, <2>5, <3>1, Posted DEF GuestStops, Blocks
    <3>3. QED
      BY <2>5, <3>2 DEF GuestStops, OnlyOnce, requested
  <2>6. CASE Relay /\ exited = NotExited
    <3>1. ~In("status", queue)
      BY <2>6 DEF Relay, PfrunInv, Waiting
    <3>2. OnlyOnce(queue')
      BY <2>4, <2>6, <3>1 DEF Relay, Blocks
    <3>3. QED
      BY <2>6, <3>2 DEF Relay, OnlyOnce, requested
  <2>7. CASE TimerExpires /\ exited = NotExited
    <3>1. ~In("timeout", queue)
      BY <2>7 DEF TimerExpires, PfrunInv, Waiting, TimeIsUp
    <3>2. OnlyOnce(queue') /\ (In("status", queue') => In("status", queue))
      BY <2>0, <2>4, <2>7, <3>1, Posted DEF TimerExpires, Blocks
    <3>3. QED
      BY <2>7, <3>2 DEF TimerExpires, OnlyOnce, requested, Timers
  <2>8. CASE StopCompletes /\ exited = NotExited
    <3>1. OnlyOnce(queue') /\ (In("status", queue') => In("status", queue))
      BY <2>0, <2>4, <2>8, Posted DEF StopCompletes, Blocks
    <3>2. QED
      BY <2>8, <3>1 DEF StopCompletes, OnlyOnce, requested, Timers
  <2>9. CASE Block /\ exited = NotExited
    <3> DEFINE b == Head(queue)
    <3>1. /\ queue # <<>> /\ queue' = Tail(queue) /\ b \in Blocks /\ UNCHANGED <<guest, requested, reported, relay>>
          /\ In(b, queue) /\ OnlyOnce(queue')
      BY <2>0, <2>9, Taken, OnlyOnceTail DEF Block, Blocks
    <3>2. /\ exitCodeOnStop' = CASE b = "status" -> reported [] b = "timeout" -> 124 [] OTHER -> exitCodeOnStop
          /\ exited' = CASE b = "guestDidStop" -> exitCodeOnStop
                    [] b = "finish124" -> 124
                    [] b = "timeout" /\ guest = "off" -> 124
                    [] OTHER -> NotExited
          /\ timer' = IF b = "timeout" /\ guest # "off" THEN "stopping" ELSE timer
      BY <2>9 DEF Block
    <3> HIDE DEF b
    <3>3. exitCodeOnStop' \in Codes \cup {0, 1, 124} /\ timer' \in Timers
      BY <3>1, <3>2 DEF Blocks, Timers, PfrunInv, Waiting, Printed
    <3>4. exited' \in Codes \cup {NotExited, 0, 1, 124}
      BY <3>1, <3>2 DEF Blocks
    <3>5. QED
      BY <3>1, <3>3, <3>4 DEF OnlyOnce, requested
  <2>10. QED
    BY <2>1, <2>2, <2>3, <2>5, <2>6, <2>7, <2>8, <2>9 DEF Pfrun
<1>3. QED
  BY <1>1, <1>2, PfrunInvHolds, PTL DEF PfrunSpec

-----------------------------------------------------------------------------
\* Only an open window waits for an answer, and connections are counted.
LegacyBounded ==
  /\ \A w \in Windows : waiting[w] = 0 \/ window[w].at = "open"
  /\ changes \in 0 .. MaxChanges
  /\ waiting \in [Windows -> 0 .. MaxEntries]

\* A broadcast opens and closes no window.
LEMMA BroadcastKeepsOpen ==
  ASSUME window \in [Windows -> WindowType],
         \/ \E es, d, v : Broadcast(es, d, v)
         \/ \E r \in Casts : Abandon(r) \/ \E v \in Windows : Send(v, r)
  PROVE  \A w \in Windows : window'[w].at = window[w].at
<1>1. ASSUME NEW es, NEW d, NEW v, Broadcast(es, d, v) PROVE \A w \in Windows : window'[w].at = window[w].at
  <2>1. window' = [u \in Windows |->
          [window[u] EXCEPT !.last = IF UnderWay = {} THEN 0 ELSE window[u].last,
                            !.missed = IF window[u].at = "ready" THEN window[u].shows # Statuses(es)
                                       ELSE window[u].missed]]
    BY <1>1 DEF Broadcast
  <2>2. QED
    BY <2>1 DEF WindowType
<1>2. ASSUME NEW r \in Casts, Abandon(r) PROVE \A w \in Windows : window'[w].at = window[w].at
  BY <1>2 DEF Abandon, WindowType
<1>3. ASSUME NEW r \in Casts, NEW v \in Windows, Send(v, r) PROVE \A w \in Windows : window'[w].at = window[w].at
  <2>1. CASE window' = window
    BY <2>1
  <2>2. CASE window' = [window EXCEPT ![v].shows = cast[r].shows, ![v].missed = r < window[v].last,
                                      ![v].last = IF r < window[v].last THEN window[v].last ELSE r]
    BY <2>2 DEF WindowType
  <2>3. QED
    BY <1>3, <2>1, <2>2 DEF Send
<1>4. QED
  BY <1>1, <1>2, <1>3

\* A window that hangs up waits for nothing.
LEMMA LegacyTypeHolds == LegacySpec => []LegacyTypeOK
<1>1. LegacyInit => LegacyBounded
  BY LegacyAssumption DEF LegacyInit, LegacyBounded
<1>2. LegacyInv /\ LegacyInv' /\ LegacyBounded /\ [Legacy]_serverVars => LegacyBounded'
  <2> SUFFICES ASSUME LegacyInv, LegacyInv', LegacyBounded, [Legacy]_serverVars
               PROVE  LegacyBounded'
    OBVIOUS
  <2> USE LegacyAssumption
  <2>0. /\ window \in [Windows -> WindowType] /\ window' \in [Windows -> WindowType]
        /\ entry' \in [Entries -> EntryType]
    BY DEF LegacyInv, EntriesTyped
  <2>1. CASE UNCHANGED serverVars
    BY <2>1 DEF LegacyBounded, serverVars
  <2>2. ASSUME NEW w \in Windows, Handshake(w) \/ Register(w) \/ ProjectSelect(w) PROVE LegacyBounded'
    <3>1. changes' \in 0 .. MaxChanges /\ waiting' = waiting
      <4>1. waiting' = waiting /\ (changes' = changes \/ (changes < MaxChanges /\ changes' = changes + 1))
        BY <2>2 DEF Handshake, Register, ProjectSelect
      <4>2. QED
        BY <4>1 DEF LegacyBounded
    <3>2. \A x \in Windows : window[x].at = "open" => window'[x].at = "open"
      <4>1. CASE Handshake(w)
        BY <2>0, <4>1 DEF Handshake
      <4>2. CASE Register(w)
        BY <2>0, <4>2 DEF Register, WindowType
      <4>3. CASE ProjectSelect(w)
        BY <2>0, <4>3 DEF ProjectSelect, WindowType
      <4>4. QED
        BY <2>2, <4>1, <4>2, <4>3
    <3>3. QED
      BY <3>1, <3>2 DEF LegacyBounded
  <2>3. ASSUME NEW w \in Windows, Hangup(w) \/ AnswerEntry(w) PROVE LegacyBounded'
    BY <2>0, <2>3 DEF Hangup, AnswerEntry, LegacyBounded
  <2>4. ASSUME NEW w \in Windows, NEW kind \in Kinds, StartEntry(w, kind) PROVE LegacyBounded'
    <3>1. /\ window[w].at = "open" /\ changes < MaxChanges /\ changes' = changes + 1 /\ window' = window
          /\ \E e \in Entries : waiting' \in {waiting, [waiting EXCEPT ![w] = e]}
      BY <2>4 DEF StartEntry
    <3>2. waiting' \in [Windows -> 0 .. MaxEntries] /\ \A x \in Windows : waiting'[x] # waiting[x] => x = w
      BY <3>1 DEF LegacyBounded, Entries
    <3>3. QED
      BY <3>1, <3>2 DEF LegacyBounded
  <2>5. ASSUME UNCHANGED <<waiting, changes>>, \A w \in Windows : window'[w].at = window[w].at
        PROVE  LegacyBounded'
    BY <2>5 DEF LegacyBounded
  <2>6. ASSUME NEW e \in Entries,
               EntryBegins(e) \/ EntryEnds(e) \/ EntryDone(e) \/ \E i \in Instances : WorkerEnds(e, i)
        PROVE  LegacyBounded'
    BY <2>5, <2>6 DEF EntryBegins, EntryEnds, EntryDone, WorkerEnds
  <2>7. ASSUME NEW e \in Entries, Announce(e) \/ Forget(e) \/ \E w \in Windows : StopEntry(w, e)
        PROVE  LegacyBounded'
    <3>1. UNCHANGED <<waiting, changes>> /\ (window' = window \/ \E es, d, v : Broadcast(es, d, v))
      BY <2>7 DEF Announce, Forget, StopEntry
    <3>2. QED
      BY <2>0, <2>5, <3>1, BroadcastKeepsOpen
  <2>8. ASSUME NEW r \in Casts, Abandon(r) \/ \E w \in Windows : Send(w, r) PROVE LegacyBounded'
    <3>1. UNCHANGED <<waiting, changes>>
      BY <2>8 DEF Abandon, Send
    <3>2. QED
      BY <2>0, <2>5, <2>8, <3>1, BroadcastKeepsOpen
  <2>9. QED
    BY <2>1, <2>2, <2>3, <2>4, <2>6, <2>7, <2>8 DEF Legacy
<1>3. LegacyInv /\ LegacyBounded => LegacyTypeOK
  BY DEF LegacyInv, EntriesTyped, EntryType, EntryRuns, CastType, LegacyBounded, LegacyTypeOK
<1>4. QED
  BY <1>1, <1>2, <1>3, LegacyInvariant, PTL DEF LegacySpec
-----------------------------------------------------------------------------
(***************************************************************************)
(* All of them: a behaviour of one scenario is a behaviour of every        *)
(* component's own specification, one step at a time or at rest.           *)
(***************************************************************************)

\* A step of the scenario that runs is a step of its component, and of no other.
LEMMA ComponentSteps ==
  ASSUME [ComponentsNext]_componentsVars
  PROVE  /\ [Minimize]_minimizerVars /\ [Harness \/ TrackReader \/ Reproducers]_trackVars
         /\ [\E j \in Jobs : Dist(j)]_dist /\ [BisectJob]_<<history, bisect>>
         /\ [Lldb]_lldbVars /\ [Builds \/ Estimate]_<<buildVars, estimator>>
         /\ [Reports]_reportVars /\ [ProjectStep]_projectVars /\ [Statistics]_statsVars
         /\ [Legacy]_serverVars /\ [Launcher]_launch
         /\ [Pfrun]_pfrunVars
<1>1. CASE UNCHANGED componentsVars
  BY <1>1 DEF componentsVars, dockerVars, dist, legacyVars
<1>2. CASE ComponentsNext
  <2>1. [Minimize]_minimizerVars /\ [\E j \in Jobs : Dist(j)]_dist /\ [BisectJob]_<<history, bisect>>
    BY <1>2 DEF ComponentsNext
  <2>2. [Lldb]_lldbVars /\ [Reports]_reportVars /\ [ProjectStep]_projectVars
    BY <1>2 DEF ComponentsNext
  <2>3. [Statistics]_statsVars /\ [Pfrun]_pfrunVars
    BY <1>2 DEF ComponentsNext
  <2>4. [Harness \/ TrackReader \/ Reproducers]_trackVars
    BY <1>2 DEF ComponentsNext
  <2>5. [Builds \/ Estimate]_<<buildVars, estimator>>
    BY <1>2 DEF ComponentsNext
  <2>6. [Legacy]_serverVars /\ [Launcher]_launch
    BY <1>2 DEF ComponentsNext, legacyVars, Launcher
  <2>7. QED
    BY <2>1, <2>2, <2>3, <2>4, <2>5, <2>6
<1>3. QED
  BY <1>1, <1>2

\* Every behaviour of the components together is one of each of them.
LEMMA ComponentsRun ==
  ComponentsSpec => /\ MinimizerSpec /\ TrackSpec /\ DistSpec /\ BisectSpec /\ LldbSpec /\ BuildSpec
                    /\ ReportSpec /\ ProjectSpec /\ StatsSpec /\ LegacySpec /\ LaunchSpec /\ PfrunSpec
<1>1. ComponentsInit =>
        /\ MinimizerInit /\ TrackInit /\ DistInit /\ BisectInit /\ LldbInit /\ BuildInit /\ EstimatorInit
        /\ ReportInit /\ ProjectInit /\ StatsInit /\ LegacyInit /\ LaunchInit /\ PfrunInit
  BY DEF ComponentsInit
<1>2. [ComponentsNext]_componentsVars =>
        /\ [Minimize]_minimizerVars /\ [Harness \/ TrackReader \/ Reproducers]_trackVars
        /\ [\E j \in Jobs : Dist(j)]_dist /\ [BisectJob]_<<history, bisect>>
        /\ [Lldb]_lldbVars /\ [Builds \/ Estimate]_<<buildVars, estimator>>
        /\ [Reports]_reportVars /\ [ProjectStep]_projectVars /\ [Statistics]_statsVars
        /\ [Legacy]_serverVars /\ [Launcher]_launch
        /\ [Pfrun]_pfrunVars
  BY ComponentSteps
<1>3. QED
  BY <1>1, <1>2, PTL DEF ComponentsSpec, MinimizerSpec, TrackSpec, DistSpec, BisectSpec, LldbSpec, BuildSpec,
     ReportSpec, ProjectSpec, StatsSpec, LegacySpec, LaunchSpec, PfrunSpec

\* The variables of every component have, in every reachable state of any of them and for
\* every value of the constants, the values that its code can give them.
THEOREM ComponentsTypeCorrect == ComponentsSpec => []ComponentsTypeOK
<1>1. DistTyped /\ DistBounded /\ BisectInv => DockerTypeOK
  <2> SUFFICES ASSUME DistTyped, DistBounded, BisectInv PROVE DockerTypeOK
    OBVIOUS
  <2>1. \A j \in Jobs : job[j].spec \in Specs \cup {NoSpec} /\ job[j].next \in 1 .. Files + 1
    BY DEF DistTyped, DistBounded
  <2>2. bisect.bad \in 0 .. Commits /\ bisect.good \in 0 .. Commits /\ bisect.first \subseteq History
    BY DEF BisectInv, BisectTyped
  <2>3. QED
    BY <2>1, <2>2 DEF DistBounded, DockerTypeOK
<1>2. QED
  BY <1>1, ComponentsRun, MinimizerTypeCorrect, TrackTypeCorrect, DistTypeCorrect, DistBoundHolds, BisectInvHolds,
     LldbTypeHolds, BuildTypeCorrect, ReportTypeHolds, ProjectTypeCorrect, StatsTypeHolds, LegacyTypeHolds,
     PfrunTypeHolds, PTL DEF ComponentsTypeOK

\* What the components promise of their states they keep, for every value of the constants:
\* a minimal script that is written, a diagnosis of the crash, packages with what they need,
\* a whole project unless its command was killed, news told once, windows that show the
\* list once nothing is due, under way or lost for them, and no
\* server left behind.
THEOREM PromisesKept == ComponentsSpec => []ComponentsKeepPromises
<1>1. QED
  BY ComponentsRun, MinimizedIsMinimal, MinimizedIsWritten, DiagnosesRightly, NeededPackages, CreationCompletes,
     NewsOnlyOnce, WindowsShowTheList, LauncherCleansUp, PTL DEF ComponentsKeepPromises

\* What is read from a file that grows - a process' inputs and output, the numbers of the
\* reproducers, a build's progress - is true and not taken back, for every value of the
\* constants.
THEOREM ReadersAreRight == ComponentsSpec => ReadersTellTruth
<1>1. QED
  BY ComponentsRun, SummariesCount, OutputIsTheLast, NumbersAreKept, ProgressIsHonest, PTL DEF ReadersTellTruth
=============================================================================
