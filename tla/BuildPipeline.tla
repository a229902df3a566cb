----------------------------- MODULE BuildPipeline -----------------------------
(***************************************************************************)
(* Building a project: the interpreter, its packages, the harness and the  *)
(* dictionary (src/src/pyfuzz/build.py, packages.py, fuzzdict.py, and the  *)
(* build command of cli.py), and what is learned of how long it takes      *)
(* (build_progress.py).  A builder is a process of its own; two may build  *)
(* the project, or two projects, at once.                                  *)
(*                                                                         *)
(* The steps of the guest are its build scripts, as far as the host relies *)
(* on what they leave behind.                                              *)
(***************************************************************************)
EXTENDS Naturals, Sequences, FiniteSets

CONSTANTS
  Builders,
  Packages, Deps,  \* the registry: what each package needs, without cycles
  Configured,      \* packages named in the project's configuration
  MaxBuilds,       \* bound: builds started
  MaxTroubles,     \* bound: failures and cancellations
  MaxRuns,         \* MAX_RUNS
  Grid, Full,      \* GRID_N; the end of the curve: a run's whole duration
  MaxLines         \* bound: lines of output

ASSUME BuildAssumption ==
  /\ Deps \in [Packages -> SUBSET Packages] /\ Configured \subseteq Packages
  /\ MaxBuilds \in Nat /\ MaxTroubles \in Nat /\ MaxRuns \in Nat \ {0}
  /\ Grid \in Nat \ {0} /\ Full \in Nat \ {0} /\ MaxLines \in Nat

VARIABLES
  cpython,    \* the checkout: none, cloned (there is a .git), whole
  orphans,    \* git commands whose build was cancelled
  sources,    \* packages whose source is checked out
  wheels,     \* parts of the tool wheelhouse that were downloaded
  py,         \* the installed interpreter and packages, the names to mutate towards
  harness,    \* none, or linked: with all that py has now, or with less
  dict,       \* combined.dict
  builder,    \* where each build is
  timings,    \* build-timing.json and the .tmp beside it
  ended,      \* history: VM runs recorded, in order
  overlap,    \* history: have two builders built, or recorded their timings, at once?
  builds, troubles,
  estimator   \* one build's progress

buildVars == <<cpython, orphans, sources, wheels, py, harness, dict, builder, timings, ended,
               overlap, builds, troubles>>
filesIn == <<cpython, orphans, sources, wheels, py, harness, dict>>

-----------------------------------------------------------------------------
(***************************************************************************)
(* The plan                                                                *)
(***************************************************************************)

Parts == {"tools", "sdists", "platform"}

Closed(set) == \A p \in set : Deps[p] \subseteq set

\* resolve_packages(): what is configured and what that needs.
Planned == CHOOSE set \in SUBSET Packages :
             /\ Configured \subseteq set /\ Closed(set)
             /\ \A other \in SUBSET set : Configured \subseteq other /\ Closed(other) => other = set

\* Each package comes after those it needs.
Ready(p, before) == Deps[p] \subseteq before

-----------------------------------------------------------------------------
At(b, pc) == builder[b].pc = pc
Goes(b, pc) == builder' = [builder EXCEPT ![b].pc = pc]

Active == {b \in Builders : builder[b].pc \notin {"idle", "done", "failed"}}
Appending == {b \in Builders : builder[b].pc \in {"write", "replace"}}

BuildTargets == {"py", "packages", "helpers"}
NoRuns == [t \in BuildTargets |-> <<>>]

Resting == [pc |-> "idle", asked |-> {}, todo |-> {}, target |-> "py", data |-> NoRuns]

BuildInit ==
  /\ cpython = "none" /\ orphans = 0 /\ sources = {} /\ wheels = {}
  /\ py = [python |-> FALSE, packages |-> {}, names |-> {}]
  /\ harness = "none" /\ dict = {}
  /\ builder = [b \in Builders |-> Resting]
  /\ timings = [runs |-> NoRuns, tmp |-> {}]
  /\ ended = NoRuns /\ overlap = {}
  /\ builds = 0 /\ troubles = 0

\* Building Python builds its packages too; no flag builds all.
Begin(b) ==
  /\ builder[b].pc \in {"idle", "done", "failed"} /\ builds < MaxBuilds
  /\ builds' = builds + 1
  /\ \E todo \in {set \in SUBSET BuildTargets : set # {} /\ ("py" \in set => "packages" \in set)} :
       builder' = [builder EXCEPT ![b] = [Resting EXCEPT !.pc = "next", !.asked = todo, !.todo = todo]]
  /\ overlap' = IF Active # {} THEN overlap \cup {"building"} ELSE overlap
  /\ UNCHANGED <<filesIn, timings, ended, troubles>>

\* The interpreter first, then the packages, then the harness, and last the dictionary.
NextPart(b) ==
  /\ At(b, "next")
  /\ LET start(part, pc) == builder' = [builder EXCEPT ![b].todo = @ \ {part}, ![b].target = part, ![b].pc = pc]
         todo == builder[b].todo
     IN  CASE "py" \in todo -> start("py", "checkout")
           [] "py" \notin todo /\ "packages" \in todo ->
                start("packages", IF Planned = {} THEN "next" ELSE "fetch")
           [] todo = {"helpers"} -> start("helpers", "vm")
           [] OTHER -> Goes(b, "dict")
  /\ UNCHANGED <<filesIn, timings, ended, overlap, builds, troubles>>

Fails(b) == Goes(b, "failed") /\ troubles < MaxTroubles /\ troubles' = troubles + 1

-----------------------------------------------------------------------------
(***************************************************************************)
(* Fetching                                                                *)
(***************************************************************************)

\* ensure_cpython_checkout(): a .git is taken for a whole checkout.
Checkout(b) ==
  /\ At(b, "checkout")
  /\ IF cpython # "none"
     THEN Goes(b, "vm") /\ UNCHANGED cpython
     ELSE Goes(b, "cloning") /\ cpython' = "cloned"
  /\ UNCHANGED <<orphans, sources, wheels, py, harness, dict, timings, ended, overlap, builds, troubles>>

\* A failed clone removes what it made; a failed fetch or checkout leaves the .git.
Cloned(b) ==
  /\ At(b, "cloning")
  /\ \/ cpython' = "whole" /\ Goes(b, "vm") /\ UNCHANGED troubles
     \/ cpython' \in {"none", "cloned"} /\ Fails(b)
  /\ UNCHANGED <<orphans, sources, wheels, py, harness, dict, timings, ended, overlap, builds>>

\* _git() does not end git when it is cancelled.
OrphanEnds ==
  /\ orphans > 0
  /\ orphans' = orphans - 1 /\ cpython' \in {cpython, "whole"}
  /\ UNCHANGED <<sources, wheels, py, harness, dict, builder, timings, ended, overlap, builds, troubles>>

\* ensure_package_checkout() for one package after the other; a failure, also of Arrow's own
\* downloads, leaves those before it.
FetchSource(b) ==
  /\ At(b, "fetch")
  /\ IF Planned \subseteq sources
     THEN Goes(b, "wheels") /\ UNCHANGED <<sources, troubles>>
     ELSE \/ \E p \in Planned \ sources : Ready(p, sources) /\ sources' = sources \cup {p}
             /\ UNCHANGED <<builder, troubles>>
          \/ Fails(b) /\ UNCHANGED sources
  /\ UNCHANGED <<cpython, orphans, wheels, py, harness, dict, timings, ended, overlap, builds>>

\* ensure_package_tooling(): any wheel is taken for all of them.
FetchWheels(b) ==
  /\ At(b, "wheels")
  /\ IF wheels \cap {"tools", "platform"} # {}
     THEN Goes(b, "vm") /\ UNCHANGED <<wheels, troubles>>
     ELSE \/ wheels' = Parts /\ Goes(b, "vm") /\ UNCHANGED troubles
          \/ wheels' \in {{}, {"tools"}, {"tools", "sdists"}} /\ Fails(b)
  /\ UNCHANGED <<cpython, orphans, sources, py, harness, dict, timings, ended, overlap, builds>>

-----------------------------------------------------------------------------
(***************************************************************************)
(* _build_run(): a script in the virtual machine                           *)
(***************************************************************************)

\* What a script needs to succeed.
Possible(target) ==
  CASE target = "py" -> cpython = "whole"
    [] target = "packages" -> py.python /\ wheels = Parts /\ Planned \subseteq sources
    [] target = "helpers" -> py.python

\* A harness that is there is not linked again.
Obsolete == IF harness = "none" THEN "none" ELSE "old"

\* build.sh installs over what is there and writes the names and the dictionary anew;
\* build_packages.sh installs the plan in order; build_helpers.sh links what is missing.
\* `far` is how far a script comes that fails.
GuestRuns(target, ok, far) ==
  CASE target = "py" /\ (ok \/ far # {}) ->
         /\ py' = [py EXCEPT !.python = TRUE, !.names = IF ok THEN {"stdlib"} ELSE @]
         /\ harness' = Obsolete
         /\ dict' = IF ok THEN {"stdlib"} ELSE dict
    [] target = "packages" /\ (ok \/ far # {}) ->
         /\ py' = [py EXCEPT !.packages = @ \cup (IF ok THEN Planned ELSE far)]
         /\ harness' = Obsolete
         /\ UNCHANGED dict
    [] target = "helpers" /\ ok ->
         /\ harness' = IF harness = "none" THEN "fresh" ELSE harness
         /\ UNCHANGED <<py, dict>>
    [] OTHER -> UNCHANGED <<py, harness, dict>>

\* Where a failing script may stop: after some packages, each with those it needs.
HowFar(target) == CASE target = "py" /\ Possible("py") -> {{}, {"installed"}}
                    [] target = "packages" /\ Possible("packages") -> {set \in SUBSET Planned : Closed(set)}
                    [] OTHER -> {{}}

\* pfrun's exit code is that of the script, or 0 when the machine stops before the code has
\* reached it.  Only what is seen to succeed is recorded.
RunVm(b) ==
  /\ At(b, "vm")
  /\ LET target == builder[b].target IN
       \/ /\ Possible(target)
          /\ GuestRuns(target, TRUE, {})
          /\ Goes(b, "append")
          /\ UNCHANGED troubles
       \/ \E far \in HowFar(target) :
          /\ troubles < MaxTroubles \/ ~Possible(target)
          /\ GuestRuns(target, FALSE, far)
          /\ troubles' = IF Possible(target) THEN troubles + 1 ELSE troubles
          /\ \E seen \in BOOLEAN : Goes(b, IF seen THEN "failed" ELSE "append")
  /\ UNCHANGED <<cpython, orphans, sources, wheels, timings, ended, overlap, builds>>

Larger(a, b) == IF a >= b THEN a ELSE b

\* The first runs of a target are kept, not the last.
ReadFirstTimings(b) ==
  /\ At(b, "append")
  /\ LET target == builder[b].target
         runs == Append(timings.runs[target], builds)
     IN  /\ builder' = [builder EXCEPT ![b].pc = "write",
                          ![b].data = [timings.runs EXCEPT ![target] = SubSeq(runs, 1, Larger(1, Len(runs) - 1))]]
         /\ ended' = [ended EXCEPT ![target] = Append(@, builds)]
  /\ overlap' = IF Appending # {} THEN overlap \cup {"recording"} ELSE overlap
  /\ UNCHANGED <<filesIn, timings, builds, troubles>>

\* _append_run(), in the steps that another process can come between.  Only the last runs
\* of a target are kept; a file that is not JSON counts as empty.
ReadTimings(b) ==
  /\ At(b, "append")
  /\ LET target == builder[b].target
         runs == Append(timings.runs[target], builds)
         kept == IF Len(runs) <= MaxRuns THEN runs ELSE Tail(runs)
     IN  /\ builder' = [builder EXCEPT ![b].pc = "write", ![b].data = [timings.runs EXCEPT ![target] = kept]]
         /\ ended' = [ended EXCEPT ![target] = Append(@, builds)]
  /\ overlap' = IF Appending # {} THEN overlap \cup {"recording"} ELSE overlap
  /\ UNCHANGED <<filesIn, timings, builds, troubles>>

WriteTimings(b) ==
  /\ At(b, "write")
  /\ timings' = [timings EXCEPT !.tmp = {builder[b].data}]
  /\ Goes(b, "replace")
  /\ UNCHANGED <<filesIn, ended, overlap, builds, troubles>>

\* Whoever wrote the .tmp last is moved; when another has moved it, the build fails.
ReplaceTimings(b) ==
  /\ At(b, "replace")
  /\ IF timings.tmp = {}
     THEN Goes(b, "failed") /\ UNCHANGED timings
     ELSE /\ timings' = [runs |-> CHOOSE data \in timings.tmp : TRUE, tmp |-> {}]
          /\ Goes(b, "verify")
  /\ UNCHANGED <<filesIn, ended, overlap, builds, troubles>>

\* The exit code of the machine is believed.
VerifyNothing(b) ==
  /\ At(b, "verify") /\ Goes(b, "next")
  /\ py' = IF builder[b].target = "packages" THEN [py EXCEPT !.names = @ \cup Planned] ELSE py
  /\ UNCHANGED <<cpython, orphans, sources, wheels, harness, dict, timings, ended, overlap, builds, troubles>>

\* What is there now may also have been left by an earlier build.  After the packages,
\* their names are added to the interpreter's.
VerifyBuild(b) ==
  /\ At(b, "verify")
  /\ LET target == builder[b].target
         there == CASE target = "py" -> py.python
                    [] target = "packages" -> Planned \subseteq py.packages
                    [] target = "helpers" -> harness # "none"
     IN  /\ Goes(b, IF there THEN "next" ELSE "failed")
         /\ py' = IF there /\ target = "packages" THEN [py EXCEPT !.names = @ \cup Planned] ELSE py
  /\ UNCHANGED <<cpython, orphans, sources, wheels, harness, dict, timings, ended, overlap, builds, troubles>>

\* make_dict(): replaces what the scripts wrote.
MakeDict(b) ==
  /\ At(b, "dict")
  /\ dict' = {"common"} \cup py.names
  /\ Goes(b, "done")
  /\ UNCHANGED <<cpython, orphans, sources, wheels, py, harness, timings, ended, overlap, builds, troubles>>

\* The machine of a cancelled build is ended, a git command is not.
CancelBuild(b) ==
  /\ builder[b].pc \in {"cloning", "fetch", "wheels", "vm"} /\ Fails(b)
  /\ orphans' = IF At(b, "cloning") THEN orphans + 1 ELSE orphans
  /\ UNCHANGED <<cpython, sources, wheels, py, harness, dict, timings, ended, overlap, builds>>

\* clean build: everything but the packages' sources and tools.
CleanBuild ==
  /\ Active = {} /\ orphans = 0 /\ troubles < MaxTroubles
  /\ troubles' = troubles + 1
  /\ cpython' = "none" /\ py' = [python |-> FALSE, packages |-> {}, names |-> {}]
  /\ harness' = "none" /\ dict' = {}
  /\ UNCHANGED <<orphans, sources, wheels, builder, timings, ended, overlap, builds>>

Build(b) == \/ Begin(b) \/ NextPart(b) \/ Checkout(b) \/ Cloned(b) \/ FetchSource(b) \/ FetchWheels(b)
            \/ RunVm(b) \/ ReadTimings(b) \/ WriteTimings(b) \/ ReplaceTimings(b)
            \/ VerifyBuild(b) \/ MakeDict(b) \/ CancelBuild(b)

Builds == ((\E b \in Builders : Build(b)) \/ OrphanEnds \/ CleanBuild) /\ UNCHANGED estimator

-----------------------------------------------------------------------------
(***************************************************************************)
(* BuildProgressEstimator: progress is the place of the current line on    *)
(* the curve of earlier builds, the median of which is as steady as they   *)
(* are.                                                                    *)
(***************************************************************************)

\* One more than the rank in _PHASES: 0 is none yet.
Phases == 1 .. 5

\* Curves of runs: how much of the time had gone at each part of the lines.
Curves == {c \in [0 .. Grid -> 0 .. Full] : c[0] = 0 /\ \A i \in 1 .. Grid : c[i - 1] <= c[i]}

EstimatorInit ==
  \E curve \in Curves : \E total \in 1 .. MaxLines :
    estimator = [curve |-> curve, total |-> total, line |-> 0, phase |-> 0, progress |-> 0]

\* _curve_at(), times the number of lines expected; there may come more than these.
CurveAt(curve, line, total) ==
  LET at == (IF line > total THEN total ELSE line) * Grid
      low == at \div total
  IN  IF low >= Grid THEN total * curve[Grid]
      ELSE total * curve[low] + (at - low * total) * (curve[low + 1] - curve[low])

\* A line of output, which may be a mark of a phase.
Feed(mark) ==
  /\ estimator.line < 2 * MaxLines
  /\ LET here == CurveAt(estimator.curve, estimator.line + 1, estimator.total) IN
       estimator' = [estimator EXCEPT
         !.line = @ + 1,
         !.phase = IF mark > @ THEN mark ELSE @,
         !.progress = Larger(@, here)]

Estimate == (\E mark \in Phases \cup {0} : Feed(mark)) /\ UNCHANGED buildVars

BuildSpec == BuildInit /\ EstimatorInit /\ [][Builds \/ Estimate]_<<buildVars, estimator>>

-----------------------------------------------------------------------------
(***************************************************************************)
(* Properties                                                              *)
(***************************************************************************)

BuildTypeOK ==
  /\ cpython \in {"none", "cloned", "whole"} /\ orphans \in 0 .. MaxTroubles
  /\ sources \subseteq Packages /\ wheels \subseteq Parts
  /\ py.packages \subseteq Packages /\ harness \in {"none", "fresh", "old"}
  /\ overlap \subseteq {"building", "recording"}
  /\ \A b \in Builders : builder[b].target \in BuildTargets
  /\ \A t \in BuildTargets : Len(timings.runs[t]) <= MaxRuns

\* A build that ends well, no other having run beside it, leaves an interpreter if it was to
\* build one, every package of the plan with what it needs, a harness, and a dictionary
\* that has the packages' names, whatever failed, was cancelled or went unseen before.
SuccessMeansInstalled ==
  [][\A b \in Builders :
       At(b, "dict") /\ builder'[b].pc = "done" /\ "building" \notin overlap =>
         LET asked == builder[b].asked IN
           /\ "py" \in asked => py'.python
           /\ "packages" \in asked => Planned \subseteq py'.packages /\ Planned \subseteq dict'
           /\ "helpers" \in asked => harness' # "none"
           /\ "common" \in dict']_builder

\* A package is never installed without those it needs.
PackagesHaveWhatTheyNeed == Closed(py.packages) /\ Closed(sources)

\* Unless two processes recorded at once, the last runs of each target are all there.
TimingsAreKept ==
  (\A b \in Builders : ~At(b, "write") /\ ~At(b, "replace")) /\ "recording" \notin overlap =>
    \A t \in BuildTargets :
      timings.runs[t] = SubSeq(ended[t], Larger(1, Len(ended[t]) + 1 - MaxRuns), Len(ended[t]))

\* Progress shown for a build never falls, never passes the whole, and the phase shown with
\* it never goes back to an earlier one.
ReadingsMoveForward ==
  [][/\ estimator.progress <= estimator'.progress
     /\ estimator'.progress <= estimator.total * Full
     /\ estimator.phase <= estimator'.phase
    ]_estimator

=============================================================================
