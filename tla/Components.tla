------------------------------ MODULE Components ------------------------------
(***************************************************************************)
(* The programs that share nothing with the dashboard's server but files   *)
(* that come and go whole: one behaviour runs one of them, chosen at the   *)
(* start, while the others rest in an initial state.                       *)
(***************************************************************************)
EXTENDS Minimizer, TrackLog, DockerJobs, LldbDriver, BuildPipeline, ArtifactReports,
        ProjectFiles, FuzzStats, LegacyDashboard, PfrunRunner

VARIABLE scenario

componentsVars == <<scenario, minimizerVars, trackVars, dockerVars, lldbVars, buildVars,
                    estimator, reportVars, projectVars, statsVars, legacyVars, pfrunVars>>

-----------------------------------------------------------------------------
ComponentsInit ==
  /\ scenario \in {"minimizer", "tracks", "reproducers", "dist", "bisect", "lldb", "builds", "estimator",
                   "reports", "project", "statistics", "legacy", "launcher", "pfrun"}
  /\ MinimizerInit
  /\ scenario # "minimizer" =>
       /\ target = CHOOSE t \in Targets : TRUE
       /\ option = CHOOSE o \in Options : TRUE
       /\ script.wraps = CHOOSE wraps \in Wrappings : TRUE
  /\ TrackInit
  /\ DistInit
  /\ BisectInit
  /\ scenario # "bisect" => \A c \in History : ~history[c].crashes /\ ~history[c].broken
  /\ LldbInit
  /\ scenario # "lldb" => session = CHOOSE s \in Sessions : TRUE
  /\ BuildInit
  /\ EstimatorInit
  /\ scenario # "estimator" => estimator.total = 1 /\ \A i \in 1 .. Grid : estimator.curve[i] = 0
  /\ ReportInit
  /\ ProjectInit
  /\ scenario # "project" => ~root
  /\ StatsInit
  /\ scenario # "statistics" => ~monitor.once /\ ~monitor.notify
  /\ LegacyInit /\ LaunchInit
  /\ PfrunInit
  /\ scenario # "pfrun" => command = 0 /\ ~interactive /\ ~strict /\ timer = "never"

ComponentsNext ==
  /\ UNCHANGED scenario
  /\ IF scenario = "minimizer" THEN Minimize ELSE UNCHANGED minimizerVars
  /\ CASE scenario = "tracks" -> Harness \/ TrackReader
       [] scenario = "reproducers" -> Reproducers
       [] OTHER -> UNCHANGED trackVars
  /\ IF scenario = "dist" THEN \E j \in Jobs : Dist(j) ELSE UNCHANGED dist
  /\ IF scenario = "bisect" THEN BisectJob ELSE UNCHANGED <<history, bisect>>
  /\ IF scenario = "lldb" THEN Lldb ELSE UNCHANGED lldbVars
  /\ CASE scenario = "builds" -> Builds
       [] scenario = "estimator" -> Estimate
       [] OTHER -> UNCHANGED <<buildVars, estimator>>
  /\ IF scenario = "reports" THEN Reports ELSE UNCHANGED reportVars
  /\ IF scenario = "project" THEN ProjectStep ELSE UNCHANGED projectVars
  /\ IF scenario = "statistics" THEN Statistics ELSE UNCHANGED statsVars
  /\ CASE scenario = "legacy" -> Legacy /\ UNCHANGED launch
       [] scenario = "launcher" -> Launcher
       [] OTHER -> UNCHANGED legacyVars
  /\ IF scenario = "pfrun" THEN Pfrun ELSE UNCHANGED pfrunVars

\* The driver of LLDB does not stop in the middle: it has the container for itself.
DriverRuns == scenario = "lldb" /\ Drive /\ ComponentsNext

\* pfrun's timer and its main queue go on; the guest owes nothing.
PfrunRuns == scenario = "pfrun" /\ (TimerExpires \/ StopCompletes \/ Block) /\ ComponentsNext

ComponentsSpec ==
  /\ ComponentsInit /\ [][ComponentsNext]_componentsVars
  /\ WF_componentsVars(DriverRuns \/ PfrunRuns)  \* of different scenarios

-----------------------------------------------------------------------------
\* The variables of every component have the values that its code can give them.
ComponentsTypeOK ==
  /\ MinimizerTypeOK /\ TrackTypeOK /\ DockerTypeOK /\ LldbTypeOK /\ BuildTypeOK
  /\ ReportTypeOK /\ ProjectTypeOK /\ StatsTypeOK /\ LegacyTypeOK /\ PfrunTypeOK

\* What the components promise of their states besides: see their modules.
ComponentsKeepPromises ==
  /\ NothingMoreToDrop /\ ResultIsWritten
  /\ DiagnosesTheCrash
  /\ PackagesHaveWhatTheyNeed
  /\ CreatedIsComplete
  /\ AnnouncedOnce
  /\ WindowsAreCurrent /\ LauncherLeavesNobody

\* What is read from files that grow is true when it is read, and is not taken back later:
\* the inputs and the output of a process, the numbered reproducers, a build's progress.
ReadersTellTruth ==
  SummaryCountsThePid /\ OutputOfTheLastProcess /\ ReproducersStay /\ ReadingsMoveForward

\* Nobody waits for ever: the driver of a target that hangs, and a run of pfrun that has
\* a timeout, end.  (Only the component of the scenario moves: the driver's wait cannot lead
\* to the end of a run, nor the other way round.)
WaitsEnd == DriverWaits \/ TimeoutWaits ~> DriverOver \/ RunOver
=============================================================================
