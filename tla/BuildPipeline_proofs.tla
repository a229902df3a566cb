------------------------- MODULE BuildPipeline_proofs -------------------------
(***************************************************************************)
(* TLAPS proofs about building a project, for any number of builders and   *)
(* packages, any dependencies among them, and any number of failures and   *)
(* cancellations: a build that ends well has installed what it was asked   *)
(* for, the timings of the last builds are kept, and the progress shown    *)
(* never falls nor passes the whole.                                       *)
(*                                                                         *)
(* The inductive invariant is BuildInv; that of the progress shown is      *)
(* EstimatorTyped.                                                         *)
(***************************************************************************)
EXTENDS BuildPipeline, SequenceTheorems, TLAPS

-----------------------------------------------------------------------------
(***************************************************************************)
(* Builds: types, the plan, and what is kept of the timings                *)
(***************************************************************************)

PartStages == {"checkout", "cloning", "fetch", "wheels", "vm", "append", "write", "replace", "verify"}
BuildStages == PartStages \cup {"idle", "next", "dict", "done", "failed"}

Logs == [BuildTargets -> Seq(Nat)]
Short(log) == \A t \in BuildTargets : Len(log[t]) <= MaxRuns

FilesTyped ==
  /\ cpython \in {"none", "cloned", "whole"}
  /\ orphans \in Nat /\ troubles \in Nat /\ orphans <= troubles /\ troubles <= MaxTroubles
  /\ sources \subseteq Packages /\ wheels \subseteq Parts
  /\ py \in [python : BOOLEAN, packages : SUBSET Packages, names : SUBSET (Packages \cup {"stdlib"})]
  /\ harness \in {"none", "fresh", "old"}
  /\ overlap \subseteq {"building", "recording"}

BuildersTyped ==
  builder \in [Builders -> [pc : BuildStages, asked : SUBSET BuildTargets, todo : SUBSET BuildTargets,
                            target : BuildTargets, data : Logs]]

LogsTyped ==
  /\ timings \in [runs : Logs, tmp : SUBSET Logs]
  /\ ended \in Logs
  /\ builds \in Nat
  /\ Short(timings.runs)
  /\ \A log \in timings.tmp : Short(log)
  /\ \A b \in Builders : Short(builder[b].data)

\* The last runs of a history, and whether a file holds them for each target.
LastRuns(s) == SubSeq(s, Larger(1, Len(s) + 1 - MaxRuns), Len(s))
HasLast(log, history) == \A t \in BuildTargets : log[t] = LastRuns(history[t])

\* Unless two have recorded at once: whoever records has all that is to be kept in its
\* hands, and then in the temporary file; if nobody does, it is in the file.
LogsRecorded ==
  "recording" \notin overlap =>
    /\ \A b, c \in Appending : b = c
    /\ Appending = {} => HasLast(timings.runs, ended)
    /\ \A b \in Appending : /\ HasLast(builder[b].data, ended)
                            /\ At(b, "replace") => timings.tmp = {builder[b].data}

\* What a build has still to do, the part that it is at included.
Remaining(b) ==
  builder[b].todo \cup (IF builder[b].pc \in PartStages THEN {builder[b].target} ELSE {})

\* The parts of a build are built in the order in which one undoes nothing of another.
Orderly(b) ==
  /\ "py" \in builder[b].todo => "packages" \in builder[b].todo
  /\ builder[b].pc \in PartStages =>
       /\ builder[b].target = "py" => "packages" \in builder[b].todo
       /\ builder[b].target = "packages" => "py" \notin builder[b].todo
       /\ builder[b].target = "helpers" => builder[b].todo = {}
  /\ builder[b].pc = "dict" => builder[b].todo = {}

\* A part is there.
InPlace(t) ==
  /\ t = "py" => py.python
  /\ t = "packages" => Planned \subseteq py.packages /\ Planned \subseteq py.names
  /\ t = "helpers" => harness # "none"

\* Unless two have built at once, what a build is done with stays installed.
OneBuilds ==
  "building" \notin overlap =>
    /\ \A b, c \in Active : b = c
    /\ \A b \in Active : \A t \in builder[b].asked \ Remaining(b) : InPlace(t)

BuildInv ==
  /\ FilesTyped
  /\ BuildersTyped
  /\ LogsTyped
  /\ PackagesHaveWhatTheyNeed
  /\ LogsRecorded
  /\ \A b \in Active : Orderly(b)
  /\ OneBuilds

\* There is a least set of packages that has the configured ones and all they need.
LEMMA PlannedFacts ==
  /\ Planned \subseteq Packages
  /\ Configured \subseteq Planned
  /\ Closed(Planned)
<1> DEFINE Enough(set) == Configured \subseteq set /\ Closed(set)
           least == {p \in Packages : \A set \in SUBSET Packages : Enough(set) => p \in set}
<1>1. Closed(least)
  BY BuildAssumption DEF Closed
<1>2. least \in SUBSET Packages /\ Configured \subseteq least
  BY BuildAssumption
<1>3. \A other \in SUBSET least : Enough(other) => other = least
  OBVIOUS
<1>4. \E set \in SUBSET Packages :
        /\ Configured \subseteq set /\ Closed(set)
        /\ \A other \in SUBSET set : Configured \subseteq other /\ Closed(other) => other = set
  BY <1>1, <1>2, <1>3
<1>5. QED
  BY <1>4 DEF Planned

\* The runs kept are at most MaxRuns, and recording one more keeps the last runs.
LEMMA KeptRuns ==
  ASSUME NEW s \in Seq(Nat), NEW e \in Nat, Len(s) <= MaxRuns
  PROVE  LET runs == Append(s, e)
             kept == IF Len(runs) <= MaxRuns THEN runs ELSE Tail(runs)
         IN  kept \in Seq(Nat) /\ Len(kept) <= MaxRuns
BY BuildAssumption

\* The end of a sequence, from a place on.
LEMMA EndOf ==
  ASSUME NEW s \in Seq(Nat), NEW m \in Nat, m >= 1, m <= Len(s) + 1
  PROVE  /\ SubSeq(s, m, Len(s)) \in Seq(Nat)
         /\ Len(SubSeq(s, m, Len(s))) = Len(s) - m + 1
         /\ \A i \in 1 .. Len(s) - m + 1 : SubSeq(s, m, Len(s))[i] = s[m + i - 1]
<1>1. Len(s) \in Nat
  OBVIOUS
<1>2. QED
  BY <1>1

LEMMA LastRunsKept ==
  ASSUME NEW s \in Seq(Nat), NEW e \in Nat
  PROVE  LET runs == Append(LastRuns(s), e)
             kept == IF Len(runs) <= MaxRuns THEN runs ELSE Tail(runs)
         IN  kept = LastRuns(Append(s, e))
<1> DEFINE from == Larger(1, Len(s) + 1 - MaxRuns)
           all == Append(s, e)
           first == Larger(1, Len(all) + 1 - MaxRuns)
           old == LastRuns(s)
           runs == Append(old, e)
           kept == IF Len(runs) <= MaxRuns THEN runs ELSE Tail(runs)
           new == LastRuns(all)
<1>1. Len(s) \in Nat /\ MaxRuns \in Nat /\ MaxRuns >= 1
  BY BuildAssumption
<1>2. /\ from \in Nat /\ from >= 1 /\ from <= Len(s) + 1
      /\ from = 1 \/ from = Len(s) + 1 - MaxRuns
      /\ Len(s) < MaxRuns => from = 1
      /\ Len(s) >= MaxRuns => from = Len(s) + 1 - MaxRuns
  BY <1>1 DEF Larger
<1>3. /\ all \in Seq(Nat) /\ Len(all) = Len(s) + 1
      /\ \A i \in 1 .. Len(all) : all[i] = IF i = Len(s) + 1 THEN e ELSE s[i]
  OBVIOUS
<1>4. /\ first \in Nat /\ first >= 1 /\ first <= Len(s) + 1
      /\ Len(s) < MaxRuns => first = 1
      /\ Len(s) >= MaxRuns => first = from + 1
  BY <1>1, <1>2, <1>3 DEF Larger
<1> HIDE DEF from, first, all
<1>5. /\ old \in Seq(Nat) /\ Len(old) = Len(s) - from + 1
      /\ \A i \in 1 .. Len(s) - from + 1 : old[i] = s[from + i - 1]
  <2>1. old = SubSeq(s, from, Len(s))
    BY DEF LastRuns, from
  <2>2. QED
    BY <1>2, <2>1, EndOf, SMTT(30)
<1>6. /\ new \in Seq(Nat) /\ Len(new) = Len(s) + 1 - first + 1
      /\ \A i \in 1 .. Len(s) + 1 - first + 1 : new[i] = all[first + i - 1]
  <2>1. new = SubSeq(all, first, Len(all))
    BY DEF LastRuns, first
  <2>2. first <= Len(all) + 1
    BY <1>1, <1>3, <1>4
  <2>3. /\ new \in Seq(Nat) /\ Len(new) = Len(all) - first + 1
        /\ \A i \in 1 .. Len(all) - first + 1 : new[i] = all[first + i - 1]
    <3>1. all \in Seq(Nat) /\ first \in Nat /\ first >= 1
      BY <1>3, <1>4
    <3>2. QED
      BY <2>1, <2>2, <3>1, EndOf
  <2>4. Len(all) - first + 1 = Len(s) + 1 - first + 1
    BY <1>1, <1>3, <1>4
  <2>5. QED
    BY <2>3, <2>4
<1> HIDE DEF old, new
<1>7. /\ runs \in Seq(Nat) /\ Len(runs) = Len(old) + 1
      /\ \A i \in 1 .. Len(old) + 1 : runs[i] = IF i = Len(old) + 1 THEN e ELSE old[i]
  BY <1>5
<1> HIDE DEF runs
<1>8. CASE Len(s) < MaxRuns
  <2>1. from = 1 /\ first = 1
    BY <1>2, <1>4, <1>8
  <2>2. Len(old) = Len(s) /\ Len(new) = Len(s) + 1
    BY <1>1, <1>5, <1>6, <2>1
  <2>3. Len(runs) = Len(s) + 1
    BY <1>7, <2>2
  <2>4. kept = runs
    BY <1>1, <1>8, <2>3
  <2>5. ASSUME NEW i \in 1 .. Len(s) + 1
        PROVE  runs[i] = new[i]
    <3>1. new[i] = all[i] /\ runs[i] = IF i = Len(s) + 1 THEN e ELSE old[i]
      BY <1>1, <1>6, <1>7, <2>1, <2>2
    <3>2. i # Len(s) + 1 => old[i] = s[i]
      BY <1>1, <1>5, <2>1
    <3>3. QED
      BY <1>3, <3>1, <3>2
  <2>6. runs = new
    <3>1. /\ runs \in Seq(Nat) /\ new \in Seq(Nat) /\ Len(runs) = Len(new)
          /\ \A i \in 1 .. Len(runs) : runs[i] = new[i]
      BY <1>6, <1>7, <2>2, <2>3, <2>5
    <3>2. QED
      BY <3>1, SeqEqual
  <2>7. QED
    BY <2>4, <2>6 DEF kept, runs, new, old, all
<1>9. CASE Len(s) >= MaxRuns
  <2>1. from = Len(s) + 1 - MaxRuns /\ first = from + 1
    BY <1>2, <1>4, <1>9
  <2>2. Len(old) = MaxRuns /\ Len(new) = MaxRuns
    BY <1>1, <1>5, <1>6, <2>1
  <2>3. Len(runs) = MaxRuns + 1
    BY <1>7, <2>2
  <2>4. kept = Tail(runs)
    BY <1>1, <2>3
  <2>5. /\ Tail(runs) \in Seq(Nat) /\ Len(Tail(runs)) = MaxRuns
        /\ \A i \in 1 .. MaxRuns : Tail(runs)[i] = runs[i + 1]
    BY <1>1, <1>7, <2>3
  <2>6. ASSUME NEW i \in 1 .. MaxRuns
        PROVE  runs[i + 1] = new[i]
    <3>1. i \in 1 .. Len(s) + 1 - first + 1 /\ first + i - 1 = from + i
      BY <1>1, <1>2, <2>1
    <3>2. new[i] = all[from + i]
      BY <1>6, <3>1
    <3>3. runs[i + 1] = IF i + 1 = MaxRuns + 1 THEN e ELSE old[i + 1]
      BY <1>1, <1>7, <2>2
    <3>4. CASE i = MaxRuns
      <4>1. from + i = Len(s) + 1
        BY <1>1, <2>1, <3>4
      <4>2. QED
        BY <1>1, <1>3, <3>2, <3>3, <3>4, <4>1
    <3>5. CASE i # MaxRuns
      <4>1. i + 1 \in 1 .. Len(s) - from + 1 /\ from + (i + 1) - 1 = from + i
        BY <1>1, <1>2, <2>1, <3>5
      <4>2. old[i + 1] = s[from + i]
        BY <1>5, <4>1
      <4>3. from + i \in 1 .. Len(s)
        BY <1>1, <1>2, <2>1, <3>5
      <4>4. QED
        BY <1>1, <1>3, <3>2, <3>3, <3>5, <4>2, <4>3
    <3>6. QED
      BY <3>4, <3>5
  <2>7. Tail(runs) = new
    <3>1. /\ new \in Seq(Nat) /\ Len(Tail(runs)) = Len(new)
          /\ \A i \in 1 .. Len(Tail(runs)) : Tail(runs)[i] = new[i]
      BY <1>6, <2>2, <2>5, <2>6
    <3>2. QED
      BY <2>5, <3>1, SeqEqual
  <2>8. QED
    BY <2>4, <2>7 DEF kept, runs, new, old, all
<1>10. QED
  BY <1>1, <1>8, <1>9

-----------------------------------------------------------------------------
(***************************************************************************)
(* Builds: steps of one builder                                            *)
(***************************************************************************)

\* A builder's step that keeps its plan.
Stepped(b) ==
  /\ builder'[b].asked = builder[b].asked
  /\ builder'[b].todo = builder[b].todo
  /\ builder'[b].target = builder[b].target
  /\ \A c \in Builders \ {b} : builder'[c] = builder[c]

LEMMA GoesFacts ==
  ASSUME BuildersTyped, NEW b \in Builders, NEW pc \in BuildStages, Goes(b, pc)
  PROVE  /\ BuildersTyped' /\ Stepped(b)
         /\ builder'[b].pc = pc /\ builder'[b].data = builder[b].data
BY DEF BuildersTyped, Goes, Stepped

\* A step that has nothing to do with the timings.
LEMMA QuietKeeps ==
  ASSUME BuildInv, NEW b \in Builders, NEW pc \in BuildStages \ {"write", "replace"}, Goes(b, pc),
         ~At(b, "write"), ~At(b, "replace"), UNCHANGED <<timings, ended, builds, overlap>>
  PROVE  BuildersTyped' /\ LogsTyped' /\ LogsRecorded'
<1>1. /\ BuildersTyped' /\ builder'[b].pc = pc /\ builder'[b].data = builder[b].data
      /\ \A c \in Builders \ {b} : builder'[c] = builder[c]
  BY GoesFacts DEF BuildInv, Stepped
<1>2. \A c \in Builders : builder'[c].data = builder[c].data
  BY <1>1
<1>3. LogsTyped'
  BY <1>2 DEF BuildInv, LogsTyped, Short
<1>4. Appending' = Appending /\ \A c \in Appending : builder'[c] = builder[c]
  BY <1>1 DEF Appending, At
<1>5. LogsRecorded'
  BY <1>2, <1>4 DEF BuildInv, LogsRecorded, At
<1>6. QED
  BY <1>1, <1>3, <1>5

\* A step on the way to a part that is built, or of a build that fails, which leaves what
\* other parts have installed.
LEMMA OnwardKeeps ==
  ASSUME BuildInv, NEW b \in Builders, Stepped(b),
         builder[b].pc \in PartStages, builder'[b].pc \in PartStages \cup {"failed"},
         "building" \in overlap' <=> "building" \in overlap,
         \A t \in BuildTargets \ {builder[b].target} :
            (t = "packages" => builder[b].target # "py") /\ InPlace(t) => InPlace(t)'
  PROVE  (\A c \in Active : Orderly(c))' /\ OneBuilds'
<1>1. b \in Active /\ Active' \subseteq Active /\ (builder'[b].pc = "failed" => b \notin Active')
  BY DEF Stepped, Active, PartStages
<1>2. \A c \in Active' : Orderly(c)'
  <2> SUFFICES ASSUME NEW c \in Active'
               PROVE  Orderly(c)'
    OBVIOUS
  <2>1. Orderly(c) /\ c \in Builders
    BY <1>1 DEF BuildInv, Active
  <2>2. CASE c = b
    BY <1>1, <2>1, <2>2 DEF Stepped, Orderly, PartStages
  <2>3. CASE c # b
    BY <2>1, <2>3 DEF Stepped, Orderly
  <2>4. QED
    BY <2>2, <2>3
<1>3. ASSUME "building" \notin overlap'
      PROVE  /\ \A c, d \in Active' : c = d
             /\ \A c \in Active' : \A t \in builder'[c].asked \ Remaining(c)' : InPlace(t)'
  <2>1. /\ \A c, d \in Active : c = d
        /\ \A t \in builder[b].asked \ Remaining(b) : InPlace(t)
    BY <1>1, <1>3 DEF BuildInv, OneBuilds
  <2>2. ASSUME b \in Active', NEW t \in builder'[b].asked \ Remaining(b)'
        PROVE  InPlace(t)'
    <3>1. Remaining(b)' = Remaining(b)
      BY <1>1, <2>2 DEF Stepped, Remaining
    <3>2. t \in builder[b].asked \ Remaining(b) /\ InPlace(t)
      BY <2>1, <2>2, <3>1 DEF Stepped
    <3>3. t \in BuildTargets /\ t # builder[b].target /\ t \notin builder[b].todo
      BY <3>2 DEF BuildInv, BuildersTyped, Remaining
    <3>4. t = "packages" => builder[b].target # "py"
      BY <1>1, <3>3 DEF BuildInv, Orderly
    <3>5. QED
      BY <3>2, <3>3, <3>4
  <2>3. QED
    BY <1>1, <2>1, <2>2
<1>4. QED
  BY <1>2, <1>3 DEF OneBuilds

\* What a script of the guest leaves.
LEMMA GuestFacts ==
  ASSUME FilesTyped, Closed(py.packages), NEW target \in BuildTargets, NEW ok \in BOOLEAN, NEW far,
         target = "packages" => far \subseteq Planned /\ Closed(far),
         GuestRuns(target, ok, far)
  PROVE  /\ py' \in [python : BOOLEAN, packages : SUBSET Packages, names : SUBSET (Packages \cup {"stdlib"})]
         /\ harness' \in {"none", "fresh", "old"}
         /\ Closed(py'.packages)
         /\ \A t \in BuildTargets \ {target} :
              (t = "packages" => target # "py") /\ InPlace(t) => InPlace(t)'
<1>1. CASE target = "py" /\ (ok \/ far # {})
  <2>1. /\ py' = [py EXCEPT !.python = TRUE, !.names = IF ok THEN {"stdlib"} ELSE @]
        /\ harness' = Obsolete
    BY <1>1 DEF GuestRuns
  <2>2. py'.packages = py.packages /\ harness' \in {"none", "old"} /\ (harness' = "none" <=> harness = "none")
    BY <2>1 DEF FilesTyped, Obsolete
  <2>3. QED
    BY <1>1, <2>1, <2>2 DEF FilesTyped, InPlace, Closed, BuildTargets
<1>2. CASE target = "packages" /\ (ok \/ far # {})
  <2>1. /\ py' = [py EXCEPT !.packages = @ \cup (IF ok THEN Planned ELSE far)]
        /\ harness' = Obsolete
    BY <1>2 DEF GuestRuns
  <2>2. /\ py'.packages = py.packages \cup (IF ok THEN Planned ELSE far)
        /\ py'.python = py.python /\ py'.names = py.names
        /\ harness' \in {"none", "old"} /\ (harness' = "none" <=> harness = "none")
    BY <2>1 DEF FilesTyped, Obsolete
  <2>3. Closed(py'.packages) /\ py'.packages \subseteq Packages
    BY <1>2, <2>2, PlannedFacts DEF FilesTyped, Closed
  <2>4. py' \in [python : BOOLEAN, packages : SUBSET Packages, names : SUBSET (Packages \cup {"stdlib"})]
    BY <2>1, <2>2, <2>3 DEF FilesTyped
  <2>5. QED
    BY <1>2, <2>2, <2>3, <2>4 DEF InPlace, BuildTargets
<1>3. CASE target = "helpers" /\ ok
  <2>1. harness' = (IF harness = "none" THEN "fresh" ELSE harness) /\ UNCHANGED py
    BY <1>3 DEF GuestRuns
  <2>2. QED
    BY <1>3, <2>1 DEF FilesTyped, InPlace, Closed
<1>4. CASE ~(target = "py" /\ (ok \/ far # {})) /\ ~(target = "packages" /\ (ok \/ far # {}))
           /\ ~(target = "helpers" /\ ok)
  <2>1. UNCHANGED <<py, harness>>
    BY <1>4 DEF GuestRuns
  <2>2. QED
    BY <2>1 DEF FilesTyped, InPlace, Closed
<1>5. QED
  BY <1>1, <1>2, <1>3, <1>4

\* A step of no builder.
LEMMA RestsKeeps ==
  ASSUME BuildInv, UNCHANGED <<builder, timings, ended, builds, overlap, py, harness>>
  PROVE  BuildersTyped' /\ LogsTyped' /\ LogsRecorded' /\ (\A c \in Active : Orderly(c))' /\ OneBuilds'
<1>1. UNCHANGED <<Active, Appending>>
  BY DEF Active, Appending
<1>2. BuildersTyped' /\ LogsTyped'
  BY DEF BuildInv, BuildersTyped, LogsTyped, Short
<1>3. LogsRecorded'
  BY <1>1 DEF BuildInv, LogsRecorded, At
<1>4. (\A c \in Active : Orderly(c))'
  BY <1>1 DEF BuildInv, Orderly
<1>5. OneBuilds'
  BY <1>1 DEF BuildInv, OneBuilds, Remaining, InPlace
<1>6. QED
  BY <1>2, <1>3, <1>4, <1>5

\* A step of a builder on its way, outside the timings, that leaves what is installed.
LEMMA OnWayKeeps ==
  ASSUME BuildInv, NEW b \in Builders, NEW pc \in (PartStages \cup {"failed"}) \ {"write", "replace"},
         Goes(b, pc), builder[b].pc \in PartStages \ {"write", "replace"},
         UNCHANGED <<timings, ended, builds, overlap, py, harness>>
  PROVE  BuildersTyped' /\ LogsTyped' /\ LogsRecorded' /\ (\A c \in Active : Orderly(c))' /\ OneBuilds'
<1>1. pc \in BuildStages \ {"write", "replace"} /\ ~At(b, "write") /\ ~At(b, "replace")
  BY DEF BuildStages, At
<1>2. BuildersTyped' /\ LogsTyped' /\ LogsRecorded' /\ Stepped(b) /\ builder'[b].pc = pc
  BY <1>1, QuietKeeps, GoesFacts DEF BuildInv
<1>3. \A t \in BuildTargets : InPlace(t) => InPlace(t)'
  BY DEF InPlace
<1>4. QED
  BY <1>2, <1>3, OnwardKeeps

LEMMA CheckoutStep ==
  ASSUME BuildInv, NEW b \in Builders, Checkout(b)
  PROVE  BuildInv'
<1>1. /\ At(b, "checkout")
      /\ \/ Goes(b, "vm") /\ UNCHANGED cpython
         \/ Goes(b, "cloning") /\ cpython' = "cloned"
      /\ UNCHANGED <<orphans, sources, wheels, py, harness, timings, ended, overlap, builds, troubles>>
  BY DEF Checkout
<1>2. BuildersTyped' /\ LogsTyped' /\ LogsRecorded' /\ (\A c \in Active : Orderly(c))' /\ OneBuilds'
  BY <1>1, OnWayKeeps DEF At, PartStages
<1>3. FilesTyped' /\ PackagesHaveWhatTheyNeed'
  BY <1>1 DEF BuildInv, FilesTyped, PackagesHaveWhatTheyNeed, Closed
<1>4. QED
  BY <1>2, <1>3 DEF BuildInv

LEMMA ClonedStep ==
  ASSUME BuildInv, NEW b \in Builders, Cloned(b)
  PROVE  BuildInv'
<1>1. /\ At(b, "cloning")
      /\ \/ cpython' = "whole" /\ Goes(b, "vm") /\ UNCHANGED troubles
         \/ /\ cpython' \in {"none", "cloned"} /\ Goes(b, "failed")
            /\ troubles < MaxTroubles /\ troubles' = troubles + 1
      /\ UNCHANGED <<orphans, sources, wheels, py, harness, timings, ended, overlap, builds>>
  BY DEF Cloned, Fails
<1>2. BuildersTyped' /\ LogsTyped' /\ LogsRecorded' /\ (\A c \in Active : Orderly(c))' /\ OneBuilds'
  BY <1>1, OnWayKeeps DEF At, PartStages
<1>3. FilesTyped' /\ PackagesHaveWhatTheyNeed'
  BY <1>1, BuildAssumption DEF BuildInv, FilesTyped, PackagesHaveWhatTheyNeed, Closed
<1>4. QED
  BY <1>2, <1>3 DEF BuildInv

LEMMA FetchSourceStep ==
  ASSUME BuildInv, NEW b \in Builders, FetchSource(b)
  PROVE  BuildInv'
<1>1. /\ At(b, "fetch")
      /\ \/ Goes(b, "wheels") /\ UNCHANGED <<sources, troubles>>
         \/ /\ \E p \in Planned \ sources : Ready(p, sources) /\ sources' = sources \cup {p}
            /\ UNCHANGED <<builder, troubles>>
         \/ /\ Goes(b, "failed") /\ UNCHANGED sources
            /\ troubles < MaxTroubles /\ troubles' = troubles + 1
      /\ UNCHANGED <<cpython, orphans, wheels, py, harness, timings, ended, overlap, builds>>
  BY DEF FetchSource, Fails
<1>2. BuildersTyped' /\ LogsTyped' /\ LogsRecorded' /\ (\A c \in Active : Orderly(c))' /\ OneBuilds'
  BY <1>1, OnWayKeeps, RestsKeeps DEF At, PartStages
<1>3. sources' \subseteq Packages /\ Closed(sources')
  BY <1>1, PlannedFacts DEF BuildInv, FilesTyped, PackagesHaveWhatTheyNeed, Closed, Ready
<1>4. FilesTyped' /\ PackagesHaveWhatTheyNeed'
  BY <1>1, <1>3, BuildAssumption DEF BuildInv, FilesTyped, PackagesHaveWhatTheyNeed, Closed
<1>5. QED
  BY <1>2, <1>4 DEF BuildInv

LEMMA FetchWheelsStep ==
  ASSUME BuildInv, NEW b \in Builders, FetchWheels(b)
  PROVE  BuildInv'
<1>1. /\ At(b, "wheels") /\ wheels' \in {wheels, Parts, {}, {"tools"}, {"tools", "sdists"}}
      /\ \/ Goes(b, "vm") /\ UNCHANGED troubles
         \/ Goes(b, "failed") /\ troubles < MaxTroubles /\ troubles' = troubles + 1
      /\ UNCHANGED <<cpython, orphans, sources, py, harness, timings, ended, overlap, builds>>
  BY DEF FetchWheels, Fails
<1>2. BuildersTyped' /\ LogsTyped' /\ LogsRecorded' /\ (\A c \in Active : Orderly(c))' /\ OneBuilds'
  BY <1>1, OnWayKeeps DEF At, PartStages
<1>3. wheels' \subseteq Parts
  BY <1>1 DEF BuildInv, FilesTyped, Parts
<1>4. FilesTyped' /\ PackagesHaveWhatTheyNeed'
  BY <1>1, <1>3, BuildAssumption DEF BuildInv, FilesTyped, PackagesHaveWhatTheyNeed, Closed
<1>5. QED
  BY <1>2, <1>4 DEF BuildInv

LEMMA CancelStep ==
  ASSUME BuildInv, NEW b \in Builders, CancelBuild(b)
  PROVE  BuildInv'
<1>1. /\ builder[b].pc \in {"cloning", "fetch", "wheels", "vm"} /\ Goes(b, "failed")
      /\ troubles < MaxTroubles /\ troubles' = troubles + 1
      /\ orphans' = orphans + 1 \/ UNCHANGED orphans
      /\ UNCHANGED <<cpython, sources, wheels, py, harness, timings, ended, overlap, builds>>
  BY DEF CancelBuild, Fails
<1>2. BuildersTyped' /\ LogsTyped' /\ LogsRecorded' /\ (\A c \in Active : Orderly(c))' /\ OneBuilds'
  BY <1>1, OnWayKeeps DEF PartStages
<1>3. FilesTyped' /\ PackagesHaveWhatTheyNeed'
  BY <1>1, BuildAssumption DEF BuildInv, FilesTyped, PackagesHaveWhatTheyNeed, Closed
<1>4. QED
  BY <1>2, <1>3 DEF BuildInv

LEMMA RunVmStep ==
  ASSUME BuildInv, NEW b \in Builders, RunVm(b)
  PROVE  BuildInv'
<1> DEFINE target == builder[b].target
<1>1. /\ At(b, "vm")
      /\ UNCHANGED <<cpython, orphans, sources, wheels, timings, ended, overlap, builds>>
      /\ target \in BuildTargets
  BY DEF RunVm, BuildInv, BuildersTyped
<1>2. /\ Goes(b, "append") \/ Goes(b, "failed")
      /\ \/ troubles' = troubles
         \/ troubles < MaxTroubles /\ troubles' = troubles + 1
      /\ \/ GuestRuns(target, TRUE, {})
         \/ \E far \in HowFar(target) : GuestRuns(target, FALSE, far)
  <2>1. CASE GuestRuns(target, TRUE, {}) /\ Goes(b, "append") /\ UNCHANGED troubles
    BY <2>1
  <2>2. CASE \E far \in HowFar(target) :
               /\ troubles < MaxTroubles \/ ~Possible(target)
               /\ GuestRuns(target, FALSE, far)
               /\ troubles' = IF Possible(target) THEN troubles + 1 ELSE troubles
               /\ \E seen \in BOOLEAN : Goes(b, IF seen THEN "failed" ELSE "append")
    <3>1. PICK far \in HowFar(target) :
               /\ troubles < MaxTroubles \/ ~Possible(target)
               /\ GuestRuns(target, FALSE, far)
               /\ troubles' = IF Possible(target) THEN troubles + 1 ELSE troubles
               /\ \E seen \in BOOLEAN : Goes(b, IF seen THEN "failed" ELSE "append")
      BY <2>2
    <3>2. Goes(b, "append") \/ Goes(b, "failed")
      BY <3>1
    <3>3. QED
      BY <3>1, <3>2
  <2>3. QED
    BY <2>1, <2>2 DEF RunVm
<1>3. \A far \in HowFar(target) : target = "packages" => far \subseteq Planned /\ Closed(far)
  <2>1. CASE target = "packages" /\ Possible("packages")
    BY <2>1 DEF HowFar
  <2>2. CASE target = "packages" /\ ~Possible("packages")
    BY <2>2 DEF HowFar, Closed
  <2>3. QED
    BY <2>1, <2>2
<1> HIDE DEF target
<1>4. /\ py' \in [python : BOOLEAN, packages : SUBSET Packages, names : SUBSET (Packages \cup {"stdlib"})]
      /\ harness' \in {"none", "fresh", "old"}
      /\ Closed(py'.packages)
      /\ \A t \in BuildTargets \ {target} :
           (t = "packages" => target # "py") /\ InPlace(t) => InPlace(t)'
  <2>1. FilesTyped /\ Closed(py.packages)
    BY DEF BuildInv, PackagesHaveWhatTheyNeed
  <2>2. CASE GuestRuns(target, TRUE, {})
    BY <1>1, <2>1, <2>2, GuestFacts DEF Closed
  <2>3. CASE \E far \in HowFar(target) : GuestRuns(target, FALSE, far)
    BY <1>1, <1>3, <2>1, <2>3, GuestFacts
  <2>4. QED
    BY <1>2, <2>2, <2>3
<1>5. PICK pc \in {"append", "failed"} : Goes(b, pc)
  BY <1>2
<1>6. BuildersTyped' /\ LogsTyped' /\ LogsRecorded' /\ Stepped(b) /\ builder'[b].pc = pc
  BY <1>1, <1>5, QuietKeeps, GoesFacts DEF BuildInv, BuildStages, PartStages, At
<1>7. (\A c \in Active : Orderly(c))' /\ OneBuilds'
  BY <1>1, <1>4, <1>6, OnwardKeeps DEF At, PartStages, target
<1>8. FilesTyped' /\ PackagesHaveWhatTheyNeed'
  BY <1>1, <1>2, <1>4, BuildAssumption DEF BuildInv, FilesTyped, PackagesHaveWhatTheyNeed, Closed
<1>9. QED
  BY <1>6, <1>7, <1>8 DEF BuildInv

-----------------------------------------------------------------------------
(***************************************************************************)
(* Builds: recording how long a run took                                   *)
(***************************************************************************)

LEMMA ReadTimingsStep ==
  ASSUME BuildInv, NEW b \in Builders, ReadTimings(b)
  PROVE  BuildInv'
<1> DEFINE target == builder[b].target
           runs == Append(timings.runs[target], builds)
           kept == IF Len(runs) <= MaxRuns THEN runs ELSE Tail(runs)
           data == [timings.runs EXCEPT ![target] = kept]
<1>1. /\ At(b, "append") /\ b \notin Appending
      /\ builder' = [builder EXCEPT ![b].pc = "write", ![b].data = data]
      /\ ended' = [ended EXCEPT ![target] = Append(ended[target], builds)]
      /\ overlap' = IF Appending # {} THEN overlap \cup {"recording"} ELSE overlap
      /\ UNCHANGED <<cpython, orphans, sources, wheels, py, harness, timings, builds, troubles>>
  BY DEF ReadTimings, filesIn, At, Appending
<1>2. /\ target \in BuildTargets /\ builds \in Nat
      /\ timings.runs \in Logs /\ ended \in Logs /\ Short(timings.runs)
  BY DEF BuildInv, BuildersTyped, LogsTyped
<1>3. kept \in Seq(Nat) /\ Len(kept) <= MaxRuns
  <2>1. timings.runs[target] \in Seq(Nat) /\ Len(timings.runs[target]) <= MaxRuns
    BY <1>2 DEF Logs, Short
  <2>2. QED
    BY <1>2, <2>1, KeptRuns
<1>4. timings.runs[target] = LastRuns(ended[target]) => kept = LastRuns(Append(ended[target], builds))
  <2>1. ended[target] \in Seq(Nat)
    BY <1>2 DEF Logs
  <2>2. QED
    BY <1>2, <2>1, LastRunsKept
<1> HIDE DEF kept, runs
<1>5. /\ data \in Logs /\ data[target] = kept
      /\ \A t \in BuildTargets \ {target} : data[t] = timings.runs[t]
  BY <1>2, <1>3 DEF Logs
<1>6. Short(data)
  BY <1>2, <1>3, <1>5 DEF Short
<1>7. /\ ended' \in Logs /\ ended'[target] = Append(ended[target], builds)
      /\ \A t \in BuildTargets \ {target} : ended'[t] = ended[t]
  BY <1>1, <1>2 DEF Logs
<1> HIDE DEF data
<1>8. /\ BuildersTyped' /\ Stepped(b)
      /\ builder'[b].pc = "write" /\ builder'[b].data = data
      /\ \A c \in Builders \ {b} : builder'[c] = builder[c]
  BY <1>1, <1>5 DEF BuildInv, BuildersTyped, Stepped, BuildStages, PartStages
<1> HIDE DEF target
<1>9. LogsTyped'
  BY <1>1, <1>6, <1>7, <1>8 DEF BuildInv, LogsTyped, Short
<1>10. LogsRecorded'
  <2>1. Appending' = Appending \cup {b}
    BY <1>8 DEF Appending
  <2>2. ASSUME "recording" \notin overlap'
        PROVE  Appending = {} /\ Appending' = {b} /\ HasLast(data, ended')
    <3>1. Appending = {} /\ "recording" \notin overlap
      BY <1>1, <2>2
    <3>2. HasLast(timings.runs, ended)
      BY <3>1 DEF BuildInv, LogsRecorded
    <3>3. \A t \in BuildTargets : data[t] = LastRuns(ended'[t])
      <4>1. ASSUME NEW t \in BuildTargets, t = target
            PROVE  data[t] = LastRuns(ended'[t])
        BY <1>4, <1>5, <1>7, <3>2, <4>1 DEF HasLast
      <4>2. ASSUME NEW t \in BuildTargets, t # target
            PROVE  data[t] = LastRuns(ended'[t])
        BY <1>5, <1>7, <3>2, <4>2 DEF HasLast
      <4>3. QED
        BY <4>1, <4>2
    <3>4. QED
      BY <2>1, <3>1, <3>3 DEF HasLast
  <2>3. QED
    BY <1>8, <2>2 DEF LogsRecorded, At
<1>11. (\A c \in Active : Orderly(c))' /\ OneBuilds'
  <2>1. \A t \in BuildTargets : InPlace(t) => InPlace(t)'
    BY <1>1 DEF InPlace
  <2>2. "building" \in overlap' <=> "building" \in overlap
    BY <1>1
  <2>3. QED
    BY <1>1, <1>8, <2>1, <2>2, OnwardKeeps DEF At, PartStages
<1>12. FilesTyped' /\ PackagesHaveWhatTheyNeed'
  BY <1>1 DEF BuildInv, FilesTyped, PackagesHaveWhatTheyNeed, Closed
<1>13. QED
  BY <1>8, <1>9, <1>10, <1>11, <1>12 DEF BuildInv

LEMMA WriteTimingsStep ==
  ASSUME BuildInv, NEW b \in Builders, WriteTimings(b)
  PROVE  BuildInv'
<1>1. /\ At(b, "write") /\ Goes(b, "replace")
      /\ timings' = [timings EXCEPT !.tmp = {builder[b].data}]
      /\ UNCHANGED <<cpython, orphans, sources, wheels, py, harness, ended, overlap, builds, troubles>>
  BY DEF WriteTimings, filesIn
<1>2. /\ BuildersTyped' /\ Stepped(b)
      /\ builder'[b].pc = "replace" /\ builder'[b].data = builder[b].data
      /\ \A c \in Builders \ {b} : builder'[c] = builder[c]
  BY <1>1, GoesFacts DEF BuildInv, BuildStages, PartStages, Stepped
<1>3. /\ builder[b].data \in Logs /\ Short(builder[b].data)
      /\ timings'.tmp = {builder[b].data} /\ timings'.runs = timings.runs
      /\ timings' \in [runs : Logs, tmp : SUBSET Logs]
  BY <1>1 DEF BuildInv, BuildersTyped, LogsTyped
<1>4. \A c \in Builders : builder'[c].data = builder[c].data
  BY <1>2
<1>5. LogsTyped'
  BY <1>1, <1>3, <1>4 DEF BuildInv, LogsTyped, Short
<1>6. LogsRecorded'
  <2>1. Appending' = Appending /\ b \in Appending
    BY <1>1, <1>2 DEF Appending, At
  <2>2. ended' = ended
    BY <1>1
  <2>3. ASSUME "recording" \notin overlap'
        PROVE  Appending' = {b} /\ HasLast(builder[b].data, ended)
    BY <1>1, <2>1, <2>3 DEF BuildInv, LogsRecorded
  <2>4. ASSUME "recording" \notin overlap'
        PROVE  HasLast(builder'[b].data, ended')
    BY <1>4, <2>2, <2>3, <2>4
  <2>5. QED
    BY <1>2, <1>3, <2>3, <2>4 DEF LogsRecorded, At
<1>7. (\A c \in Active : Orderly(c))' /\ OneBuilds'
  <2>1. \A t \in BuildTargets : InPlace(t) => InPlace(t)'
    BY <1>1 DEF InPlace
  <2>2. QED
    BY <1>1, <1>2, <2>1, OnwardKeeps DEF At, PartStages
<1>8. FilesTyped' /\ PackagesHaveWhatTheyNeed'
  BY <1>1 DEF BuildInv, FilesTyped, PackagesHaveWhatTheyNeed, Closed
<1>9. QED
  BY <1>2, <1>5, <1>6, <1>7, <1>8 DEF BuildInv

LEMMA ReplaceTimingsStep ==
  ASSUME BuildInv, NEW b \in Builders, ReplaceTimings(b)
  PROVE  BuildInv'
<1>1. /\ At(b, "replace")
      /\ \/ timings.tmp = {} /\ Goes(b, "failed") /\ UNCHANGED timings
         \/ /\ timings.tmp # {} /\ Goes(b, "verify")
            /\ timings' = [runs |-> CHOOSE data \in timings.tmp : TRUE, tmp |-> {}]
      /\ UNCHANGED <<cpython, orphans, sources, wheels, py, harness, ended, overlap, builds, troubles>>
  BY DEF ReplaceTimings, filesIn
<1>2. PICK pc \in {"failed", "verify"} : Goes(b, pc)
  BY <1>1
<1>3. /\ BuildersTyped' /\ Stepped(b)
      /\ builder'[b].pc = pc /\ builder'[b].data = builder[b].data
      /\ \A c \in Builders \ {b} : builder'[c] = builder[c]
  BY <1>2, GoesFacts DEF BuildInv, BuildStages, PartStages, Stepped
<1>4. \A c \in Builders : builder'[c].data = builder[c].data
  BY <1>3
<1>5. timings.tmp # {} => timings'.runs \in timings.tmp /\ timings'.tmp = {}
  BY <1>1, <1>2, <1>3
<1>6. LogsTyped'
  <2>1. CASE timings.tmp = {}
    BY <1>1, <1>4, <2>1 DEF BuildInv, LogsTyped, Short
  <2>2. CASE timings.tmp # {}
    <3>1. timings' \in [runs : Logs, tmp : SUBSET Logs] /\ Short(timings'.runs)
      BY <1>1, <1>5, <2>2 DEF BuildInv, LogsTyped
    <3>2. QED
      BY <1>1, <1>4, <1>5, <2>2, <3>1 DEF BuildInv, LogsTyped, Short
  <2>3. QED
    BY <2>1, <2>2
<1>7. LogsRecorded'
  <2>1. Appending' = Appending \ {b} /\ b \in Appending
    BY <1>1, <1>3 DEF Appending, At
  <2>2. ended' = ended
    BY <1>1
  <2>3. ASSUME "recording" \notin overlap'
        PROVE  Appending' = {} /\ HasLast(timings'.runs, ended')
    <3>1. /\ Appending = {b} /\ HasLast(builder[b].data, ended) /\ timings.tmp = {builder[b].data}
      BY <1>1, <2>1, <2>3 DEF BuildInv, LogsRecorded
    <3>2. timings'.runs = builder[b].data
      BY <1>5, <3>1
    <3>3. QED
      BY <2>1, <2>2, <3>1, <3>2
  <2>4. QED
    BY <2>3 DEF LogsRecorded
<1>8. (\A c \in Active : Orderly(c))' /\ OneBuilds'
  <2>1. \A t \in BuildTargets : InPlace(t) => InPlace(t)'
    BY <1>1 DEF InPlace
  <2>2. QED
    BY <1>1, <1>3, <2>1, OnwardKeeps DEF At, PartStages
<1>9. FilesTyped' /\ PackagesHaveWhatTheyNeed'
  BY <1>1 DEF BuildInv, FilesTyped, PackagesHaveWhatTheyNeed, Closed
<1>10. QED
  BY <1>3, <1>6, <1>7, <1>8, <1>9 DEF BuildInv


-----------------------------------------------------------------------------
(***************************************************************************)
(* Builds: beginning, going from part to part, and the end                 *)
(***************************************************************************)

LEMMA BeginStep ==
  ASSUME BuildInv, NEW b \in Builders, Begin(b)
  PROVE  BuildInv'
<1>1. PICK todo \in SUBSET BuildTargets :
        /\ "py" \in todo => "packages" \in todo
        /\ builder' = [builder EXCEPT ![b] = [Resting EXCEPT !.pc = "next", !.asked = todo, !.todo = todo]]
  BY DEF Begin
<1>2. /\ builder[b].pc \in {"idle", "done", "failed"} /\ builds' = builds + 1
      /\ overlap' = IF Active # {} THEN overlap \cup {"building"} ELSE overlap
      /\ UNCHANGED <<cpython, orphans, sources, wheels, py, harness, timings, ended, troubles>>
  BY DEF Begin, filesIn
<1>3. /\ BuildersTyped'
      /\ builder'[b].pc = "next" /\ builder'[b].asked = todo /\ builder'[b].todo = todo
      /\ Short(builder'[b].data)
      /\ \A c \in Builders \ {b} : builder'[c] = builder[c]
  <2>1. NoRuns \in Logs /\ Short(NoRuns)
    BY BuildAssumption DEF NoRuns, Logs, Short
  <2>2. /\ [Resting EXCEPT !.pc = "next", !.asked = todo, !.todo = todo]
             \in [pc : BuildStages, asked : SUBSET BuildTargets, todo : SUBSET BuildTargets,
                  target : BuildTargets, data : Logs]
        /\ [Resting EXCEPT !.pc = "next", !.asked = todo, !.todo = todo].data = NoRuns
    BY <2>1 DEF Resting, BuildStages, BuildTargets
  <2>3. builder'[b] = [Resting EXCEPT !.pc = "next", !.asked = todo, !.todo = todo]
    BY <1>1 DEF BuildInv, BuildersTyped
  <2>4. BuildersTyped'
    BY <1>1, <2>2 DEF BuildInv, BuildersTyped
  <2>5. /\ builder'[b].pc = "next" /\ builder'[b].asked = todo /\ builder'[b].todo = todo
        /\ \A c \in Builders \ {b} : builder'[c] = builder[c]
    BY <1>1, <2>3 DEF BuildInv, BuildersTyped, Resting
  <2>6. QED
    BY <2>1, <2>2, <2>3, <2>4, <2>5
<1>4. LogsTyped'
  BY <1>2, <1>3 DEF BuildInv, LogsTyped, Short
<1>5. LogsRecorded'
  <2>1. Appending' = Appending /\ b \notin Appending
    BY <1>2, <1>3 DEF Appending
  <2>2. \A c \in Appending : builder'[c] = builder[c]
    BY <1>3, <2>1 DEF Appending
  <2>3. "recording" \in overlap' <=> "recording" \in overlap
    BY <1>2
  <2>4. QED
    BY <1>2, <2>1, <2>2, <2>3 DEF BuildInv, LogsRecorded, At
<1>6. Active' = Active \cup {b} /\ b \notin Active
  BY <1>2, <1>3 DEF Active
<1>7. (\A c \in Active : Orderly(c))'
  BY <1>1, <1>3, <1>6 DEF BuildInv, Orderly, PartStages, Active
<1>8. OneBuilds'
  <2>1. ASSUME "building" \notin overlap'
        PROVE  Active' = {b}
    BY <1>2, <1>6, <2>1
  <2>2. Remaining(b)' = todo
    BY <1>3 DEF Remaining, PartStages
  <2>3. QED
    BY <1>3, <2>1, <2>2 DEF OneBuilds
<1>9. FilesTyped' /\ PackagesHaveWhatTheyNeed'
  BY <1>2 DEF BuildInv, FilesTyped, PackagesHaveWhatTheyNeed, Closed
<1>10. QED
  BY <1>3, <1>4, <1>5, <1>7, <1>8, <1>9 DEF BuildInv

\* A step of a builder that goes on or ends, outside the timings.
LEMMA PassesKeeps ==
  ASSUME BuildInv, NEW b \in Active, b \in Builders, BuildersTyped',
         builder'[b].asked = builder[b].asked, builder'[b].data = builder[b].data,
         b \notin Appending, builder'[b].pc \in {"next", "dict", "done", "failed"} \cup PartStages,
         builder'[b].pc \notin {"write", "replace"},
         \A c \in Builders \ {b} : builder'[c] = builder[c],
         UNCHANGED <<timings, ended, builds, overlap>>,
         b \in Active' => Orderly(b)',
         b \in Active' /\ "building" \notin overlap =>
           \A t \in builder[b].asked \ Remaining(b)' : t \in Remaining(b) \/ InPlace(t) => InPlace(t)'
  PROVE  LogsTyped' /\ LogsRecorded' /\ (\A c \in Active : Orderly(c))' /\ OneBuilds'
<1>1. \A c \in Builders : builder'[c].data = builder[c].data
  OBVIOUS
<1>2. LogsTyped'
  BY <1>1 DEF BuildInv, LogsTyped, Short
<1>3. Appending' = Appending /\ \A c \in Appending : builder'[c] = builder[c]
  BY DEF Appending
<1>4. LogsRecorded'
  BY <1>1, <1>3 DEF BuildInv, LogsRecorded, At
<1>5. Active' \subseteq Active
  BY DEF Active
<1>6. (\A c \in Active : Orderly(c))'
  <2> SUFFICES ASSUME NEW c \in Active'
               PROVE  Orderly(c)'
    OBVIOUS
  <2>1. c \in Builders /\ Orderly(c)
    BY <1>5 DEF BuildInv, Active
  <2>2. CASE c = b
    BY <2>2
  <2>3. CASE c # b
    BY <2>1, <2>3 DEF Orderly
  <2>4. QED
    BY <2>2, <2>3
<1>7. ASSUME "building" \notin overlap'
      PROVE  /\ \A c, d \in Active' : c = d
             /\ \A c \in Active' : \A t \in builder'[c].asked \ Remaining(c)' : InPlace(t)'
  <2>1. /\ \A c, d \in Active : c = d
        /\ \A t \in builder[b].asked \ Remaining(b) : InPlace(t)
    BY <1>7 DEF BuildInv, OneBuilds
  <2>2. QED
    BY <1>5, <1>7, <2>1
<1>8. QED
  BY <1>2, <1>4, <1>6, <1>7 DEF OneBuilds

\* A builder that takes up its next part.
LEMMA StartsFacts ==
  ASSUME BuildInv, NEW b \in Builders, NEW part \in BuildTargets, NEW pc \in BuildStages,
         builder' = [builder EXCEPT ![b].todo = builder[b].todo \ {part}, ![b].target = part, ![b].pc = pc]
  PROVE  /\ BuildersTyped'
         /\ builder'[b].pc = pc /\ builder'[b].target = part /\ builder'[b].todo = builder[b].todo \ {part}
         /\ builder'[b].asked = builder[b].asked /\ builder'[b].data = builder[b].data
         /\ \A c \in Builders \ {b} : builder'[c] = builder[c]
BY DEF BuildInv, BuildersTyped

\* The one part that needs no virtual machine: no package to build.
LEMMA NoPackages ==
  ASSUME Planned = {}
  PROVE  InPlace("packages")'
BY DEF InPlace

LEMMA NextPartStep ==
  ASSUME BuildInv, NEW b \in Builders, NextPart(b)
  PROVE  BuildInv'
<1> DEFINE todo == builder[b].todo
           Start(part, pc) ==
             builder' = [builder EXCEPT ![b].todo = builder[b].todo \ {part}, ![b].target = part, ![b].pc = pc]
<1>1. /\ At(b, "next") /\ b \in Active /\ b \notin Appending
      /\ UNCHANGED <<cpython, orphans, sources, wheels, py, harness, timings, ended, overlap, builds, troubles>>
  BY DEF NextPart, filesIn, At, Active, Appending
<1>2. \/ "py" \in todo /\ Start("py", "checkout")
      \/ "py" \notin todo /\ "packages" \in todo /\ Planned # {} /\ Start("packages", "fetch")
      \/ "py" \notin todo /\ "packages" \in todo /\ Planned = {} /\ Start("packages", "next")
      \/ todo = {"helpers"} /\ Start("helpers", "vm")
      \/ todo = {} /\ Goes(b, "dict")
  <2>1. todo \subseteq {"py", "packages", "helpers"}
    BY DEF BuildInv, BuildersTyped, BuildTargets
  <2>2. CASE "py" \in todo
    BY <2>2 DEF NextPart
  <2>3. CASE "py" \notin todo /\ "packages" \in todo
    BY <2>3 DEF NextPart
  <2>4. CASE todo = {"helpers"}
    BY <2>4 DEF NextPart
  <2>5. CASE todo = {}
    BY <2>5 DEF NextPart
  <2>6. QED
    BY <2>1, <2>2, <2>3, <2>4, <2>5
<1>3. Orderly(b) /\ Remaining(b) = todo /\ todo \subseteq BuildTargets
  BY <1>1 DEF BuildInv, Remaining, PartStages, At, BuildersTyped
<1>4. FilesTyped' /\ PackagesHaveWhatTheyNeed'
  BY <1>1 DEF BuildInv, FilesTyped, PackagesHaveWhatTheyNeed, Closed
<1>5. \A t \in BuildTargets : InPlace(t)' <=> InPlace(t)
  BY <1>1 DEF InPlace
<1>6. CASE \/ "py" \in todo /\ Start("py", "checkout")
           \/ "py" \notin todo /\ "packages" \in todo /\ Start("packages", "fetch")
           \/ todo = {"helpers"} /\ Start("helpers", "vm")
  <2>1. PICK part \in BuildTargets, pc \in PartStages \ {"write", "replace"} :
          /\ Start(part, pc) /\ part \in todo
          /\ part = "packages" => "py" \notin todo
          /\ part = "helpers" => todo = {"helpers"}
    <3>1. /\ {"py", "packages", "helpers"} \subseteq BuildTargets
          /\ {"checkout", "fetch", "vm"} \subseteq PartStages \ {"write", "replace"}
      BY DEF BuildTargets, PartStages
    <3> HIDE DEF Start, todo
    <3>2. CASE "py" \in todo /\ Start("py", "checkout")
      BY <3>1, <3>2
    <3>3. CASE "py" \notin todo /\ "packages" \in todo /\ Start("packages", "fetch")
      BY <3>1, <3>3
    <3>4. CASE todo = {"helpers"} /\ Start("helpers", "vm")
      BY <3>1, <3>4
    <3>5. QED
      BY <1>6, <3>2, <3>3, <3>4
  <2>2. /\ BuildersTyped'
        /\ builder'[b].pc = pc /\ builder'[b].target = part /\ builder'[b].todo = todo \ {part}
        /\ builder'[b].asked = builder[b].asked /\ builder'[b].data = builder[b].data
        /\ \A c \in Builders \ {b} : builder'[c] = builder[c]
    BY <2>1, StartsFacts DEF BuildStages
  <2>3. Orderly(b)'
    BY <1>3, <2>1, <2>2 DEF Orderly, PartStages
  <2>4. Remaining(b)' = todo
    BY <2>1, <2>2 DEF Remaining
  <2>5. \A t \in builder[b].asked \ Remaining(b)' : t \in Remaining(b) \/ InPlace(t) => InPlace(t)'
    BY <1>3, <1>5, <2>4 DEF BuildInv, BuildersTyped
  <2>6. LogsTyped' /\ LogsRecorded' /\ (\A c \in Active : Orderly(c))' /\ OneBuilds'
    BY <1>1, <2>1, <2>2, <2>3, <2>5, PassesKeeps
  <2>7. QED
    BY <1>4, <2>2, <2>6 DEF BuildInv
<1>7. CASE "py" \notin todo /\ "packages" \in todo /\ Planned = {} /\ Start("packages", "next")
  <2>1. /\ BuildersTyped'
        /\ builder'[b].pc = "next" /\ builder'[b].todo = todo \ {"packages"}
        /\ builder'[b].asked = builder[b].asked /\ builder'[b].data = builder[b].data
        /\ \A c \in Builders \ {b} : builder'[c] = builder[c]
    BY <1>7, StartsFacts DEF BuildStages, BuildTargets
  <2>2. Orderly(b)'
    BY <1>7, <2>1 DEF Orderly, PartStages
  <2>3. Remaining(b)' = todo \ {"packages"}
    BY <2>1 DEF Remaining, PartStages
  <2>4. \A t \in builder[b].asked \ Remaining(b)' : t \in Remaining(b) \/ InPlace(t) => InPlace(t)'
    BY <1>3, <1>5, <1>7, <2>3, NoPackages DEF BuildInv, BuildersTyped
  <2>5. LogsTyped' /\ LogsRecorded' /\ (\A c \in Active : Orderly(c))' /\ OneBuilds'
    BY <1>1, <2>1, <2>2, <2>4, PassesKeeps
  <2>6. QED
    BY <1>4, <2>1, <2>5 DEF BuildInv
<1>8. CASE todo = {} /\ Goes(b, "dict")
  <2>1. /\ BuildersTyped'
        /\ builder'[b].pc = "dict" /\ builder'[b].todo = {}
        /\ builder'[b].asked = builder[b].asked /\ builder'[b].data = builder[b].data
        /\ \A c \in Builders \ {b} : builder'[c] = builder[c]
    BY <1>8, GoesFacts DEF BuildInv, BuildStages, Stepped
  <2>2. Orderly(b)'
    BY <2>1 DEF Orderly, PartStages
  <2>3. Remaining(b)' = {}
    BY <2>1 DEF Remaining, PartStages
  <2>4. \A t \in builder[b].asked \ Remaining(b)' : t \in Remaining(b) \/ InPlace(t) => InPlace(t)'
    BY <1>3, <1>5, <1>8, <2>3 DEF BuildInv, BuildersTyped
  <2>5. LogsTyped' /\ LogsRecorded' /\ (\A c \in Active : Orderly(c))' /\ OneBuilds'
    BY <1>1, <2>1, <2>2, <2>4, PassesKeeps
  <2>6. QED
    BY <1>4, <2>1, <2>5 DEF BuildInv
<1>9. QED
  BY <1>2, <1>6, <1>7, <1>8

LEMMA VerifyStep ==
  ASSUME BuildInv, NEW b \in Builders, VerifyBuild(b)
  PROVE  BuildInv'
<1> DEFINE target == builder[b].target
           there == CASE target = "py" -> py.python
                      [] target = "packages" -> Planned \subseteq py.packages
                      [] target = "helpers" -> harness # "none"
<1>1. /\ At(b, "verify") /\ b \in Active /\ b \notin Appending
      /\ Goes(b, IF there THEN "next" ELSE "failed")
      /\ py' = IF there /\ target = "packages" THEN [py EXCEPT !.names = @ \cup Planned] ELSE py
      /\ UNCHANGED <<cpython, orphans, sources, wheels, harness, timings, ended, overlap, builds, troubles>>
  BY DEF VerifyBuild, At, Active, Appending
<1>2. /\ target = "py" => (there <=> py.python)
      /\ target = "packages" => (there <=> Planned \subseteq py.packages)
      /\ target = "helpers" => (there <=> harness # "none")
  OBVIOUS
<1>3. target \in BuildTargets /\ b \in Builders /\ Orderly(b)
  BY <1>1 DEF BuildInv, BuildersTyped
<1> HIDE DEF there
<1>4. PICK pc \in {"next", "failed"} : Goes(b, pc) /\ (there <=> pc = "next")
  BY <1>1
<1>5. /\ BuildersTyped'
      /\ builder'[b].pc = pc /\ builder'[b].todo = builder[b].todo /\ builder'[b].target = target
      /\ builder'[b].asked = builder[b].asked /\ builder'[b].data = builder[b].data
      /\ \A c \in Builders \ {b} : builder'[c] = builder[c]
  BY <1>4, GoesFacts DEF BuildInv, BuildStages, Stepped
<1>6. /\ py' \in [python : BOOLEAN, packages : SUBSET Packages, names : SUBSET (Packages \cup {"stdlib"})]
      /\ py'.python = py.python /\ py'.packages = py.packages /\ py.names \subseteq py'.names
      /\ there /\ target = "packages" => Planned \subseteq py'.names
  BY <1>1, PlannedFacts DEF BuildInv, FilesTyped
<1>7. /\ \A t \in BuildTargets : InPlace(t) => InPlace(t)'
      /\ \A t \in BuildTargets : there /\ t = target => InPlace(t)'
  BY <1>1, <1>2, <1>3, <1>6 DEF InPlace
<1> HIDE DEF target
<1>8. b \in Active' => Orderly(b)'
  BY <1>3, <1>4, <1>5 DEF Orderly, PartStages
<1>9. b \in Active' => Remaining(b)' = builder[b].todo /\ Remaining(b) = builder[b].todo \cup {target} /\ there
  BY <1>1, <1>4, <1>5 DEF Remaining, PartStages, Active, At, target
<1>10. b \in Active' /\ "building" \notin overlap =>
         \A t \in builder[b].asked \ Remaining(b)' : t \in Remaining(b) \/ InPlace(t) => InPlace(t)'
  BY <1>7, <1>9 DEF BuildInv, BuildersTyped
<1>11. LogsTyped' /\ LogsRecorded' /\ (\A c \in Active : Orderly(c))' /\ OneBuilds'
  BY <1>1, <1>3, <1>5, <1>8, <1>10, PassesKeeps
<1>12. FilesTyped' /\ PackagesHaveWhatTheyNeed'
  BY <1>1, <1>6 DEF BuildInv, FilesTyped, PackagesHaveWhatTheyNeed, Closed
<1>13. QED
  BY <1>5, <1>11, <1>12 DEF BuildInv

LEMMA MakeDictStep ==
  ASSUME BuildInv, NEW b \in Builders, MakeDict(b)
  PROVE  BuildInv'
<1>1. /\ At(b, "dict") /\ b \in Active /\ b \notin Appending /\ Goes(b, "done")
      /\ UNCHANGED <<cpython, orphans, sources, wheels, py, harness, timings, ended, overlap, builds, troubles>>
  BY DEF MakeDict, At, Active, Appending
<1>2. /\ BuildersTyped'
      /\ builder'[b].pc = "done"
      /\ builder'[b].asked = builder[b].asked /\ builder'[b].data = builder[b].data
      /\ \A c \in Builders \ {b} : builder'[c] = builder[c]
  BY <1>1, GoesFacts DEF BuildInv, BuildStages, Stepped
<1>3. b \notin Active'
  BY <1>2 DEF Active
<1>4. LogsTyped' /\ LogsRecorded' /\ (\A c \in Active : Orderly(c))' /\ OneBuilds'
  BY <1>1, <1>2, <1>3, PassesKeeps
<1>5. FilesTyped' /\ PackagesHaveWhatTheyNeed'
  BY <1>1 DEF BuildInv, FilesTyped, PackagesHaveWhatTheyNeed, Closed
<1>6. QED
  BY <1>2, <1>4, <1>5 DEF BuildInv

LEMMA OrphanStep ==
  ASSUME BuildInv, OrphanEnds
  PROVE  BuildInv'
<1>1. /\ orphans > 0 /\ orphans' = orphans - 1 /\ cpython' \in {cpython, "whole"}
      /\ UNCHANGED <<sources, wheels, py, harness, builder, timings, ended, overlap, builds, troubles>>
  BY DEF OrphanEnds
<1>2. FilesTyped' /\ PackagesHaveWhatTheyNeed'
  BY <1>1, BuildAssumption DEF BuildInv, FilesTyped, PackagesHaveWhatTheyNeed, Closed
<1>3. QED
  BY <1>1, <1>2, RestsKeeps DEF BuildInv

LEMMA CleanStep ==
  ASSUME BuildInv, CleanBuild
  PROVE  BuildInv'
<1>1. /\ Active = {} /\ orphans = 0
      /\ troubles < MaxTroubles /\ troubles' = troubles + 1
      /\ cpython' = "none" /\ py' = [python |-> FALSE, packages |-> {}, names |-> {}]
      /\ harness' = "none"
      /\ UNCHANGED <<orphans, sources, wheels, builder, timings, ended, overlap, builds>>
  BY DEF CleanBuild
<1>2. FilesTyped' /\ PackagesHaveWhatTheyNeed'
  BY <1>1, BuildAssumption DEF BuildInv, FilesTyped, PackagesHaveWhatTheyNeed, Closed
<1>3. UNCHANGED <<Active, Appending>>
  BY <1>1 DEF Active, Appending
<1>4. BuildersTyped' /\ LogsTyped'
  BY <1>1 DEF BuildInv, BuildersTyped, LogsTyped, Short
<1>5. LogsRecorded'
  BY <1>1, <1>3 DEF BuildInv, LogsRecorded, At
<1>6. (\A c \in Active : Orderly(c))' /\ OneBuilds'
  BY <1>1, <1>3 DEF OneBuilds
<1>7. QED
  BY <1>2, <1>4, <1>5, <1>6 DEF BuildInv

-----------------------------------------------------------------------------
(***************************************************************************)
(* Builds: the invariant, and the theorems                                 *)
(***************************************************************************)

LEMMA BuildsBegin ==
  ASSUME BuildInit
  PROVE  BuildInv
<1>1. NoRuns \in Logs /\ Short(NoRuns)
  BY BuildAssumption DEF NoRuns, Logs, Short
<1>2. /\ cpython = "none" /\ orphans = 0 /\ sources = {} /\ wheels = {}
      /\ py = [python |-> FALSE, packages |-> {}, names |-> {}]
      /\ harness = "none"
      /\ builder = [b \in Builders |-> Resting]
      /\ timings = [runs |-> NoRuns, tmp |-> {}]
      /\ ended = NoRuns /\ overlap = {}
      /\ builds = 0 /\ troubles = 0
  BY DEF BuildInit
<1>3. FilesTyped /\ PackagesHaveWhatTheyNeed
  BY <1>2, BuildAssumption DEF FilesTyped, PackagesHaveWhatTheyNeed, Closed
<1>4. Resting \in [pc : BuildStages, asked : SUBSET BuildTargets, todo : SUBSET BuildTargets,
                   target : BuildTargets, data : Logs]
  BY <1>1 DEF Resting, BuildStages, BuildTargets
<1>5. BuildersTyped
  BY <1>2, <1>4 DEF BuildersTyped
<1>6. LogsTyped
  BY <1>1, <1>2 DEF LogsTyped, Resting
<1>7. Active = {} /\ Appending = {}
  BY <1>2 DEF Active, Appending, Resting
<1>8. HasLast(timings.runs, ended)
  <2>1. ASSUME NEW t \in BuildTargets
        PROVE  NoRuns[t] = LastRuns(NoRuns[t])
    <3>1. NoRuns[t] = <<>>
      BY DEF NoRuns
    <3>2. Larger(1, Len(<<>>) + 1 - MaxRuns) = 1
      BY BuildAssumption DEF Larger
    <3>3. SubSeq(<<>>, 1, 0) = <<>>
      OBVIOUS
    <3>4. QED
      BY <3>1, <3>2, <3>3 DEF LastRuns
  <2>2. QED
    BY <1>2, <2>1 DEF HasLast
<1>9. LogsRecorded
  BY <1>7, <1>8 DEF LogsRecorded
<1>10. OneBuilds
  BY <1>7 DEF OneBuilds
<1>11. QED
  BY <1>3, <1>5, <1>6, <1>7, <1>9, <1>10 DEF BuildInv

LEMMA BuildsGoOn ==
  ASSUME BuildInv, [Builds \/ Estimate]_<<buildVars, estimator>>
  PROVE  BuildInv'
<1>1. CASE UNCHANGED buildVars
  <2>1. /\ UNCHANGED <<builder, timings, ended, builds, overlap, py, harness>>
        /\ UNCHANGED <<cpython, orphans, sources, wheels, troubles>>
    BY <1>1 DEF buildVars
  <2>2. FilesTyped' /\ PackagesHaveWhatTheyNeed'
    BY <2>1 DEF BuildInv, FilesTyped, PackagesHaveWhatTheyNeed, Closed
  <2>3. QED
    BY <2>1, <2>2, RestsKeeps DEF BuildInv
<1>2. CASE \E b \in Builders : Build(b)
  BY <1>2, BeginStep, NextPartStep, CheckoutStep, ClonedStep, FetchSourceStep, FetchWheelsStep, RunVmStep,
     ReadTimingsStep, WriteTimingsStep, ReplaceTimingsStep, VerifyStep, MakeDictStep, CancelStep DEF Build
<1>3. CASE OrphanEnds
  BY <1>3, OrphanStep
<1>4. CASE CleanBuild
  BY <1>4, CleanStep
<1>5. QED
  BY <1>1, <1>2, <1>3, <1>4 DEF Builds, Estimate

\* The files, the builders and the timings have their types in every reachable state.
THEOREM BuildTypeCorrect == BuildSpec => []BuildTypeOK
<1>1. BuildInv => BuildTypeOK
  <2> SUFFICES ASSUME BuildInv PROVE BuildTypeOK
    OBVIOUS
  <2>1. orphans \in 0 .. MaxTroubles
    BY BuildAssumption DEF BuildInv, FilesTyped
  <2>2. QED
    BY <2>1 DEF BuildInv, FilesTyped, BuildersTyped, LogsTyped, Short, BuildTypeOK
<1>2. QED
  BY <1>1, BuildsBegin, BuildsGoOn, PTL DEF BuildSpec

\* build-timing.json has the last runs of each target, unless two processes have recorded
\* at once: _append_run() of build_progress.py reads, writes a .tmp and moves it.
THEOREM TimingsKept == BuildSpec => []TimingsAreKept
<1>1. BuildInv => TimingsAreKept
  <2> SUFFICES ASSUME BuildInv, \A b \in Builders : ~At(b, "write") /\ ~At(b, "replace"),
                      "recording" \notin overlap
               PROVE  \A t \in BuildTargets : timings.runs[t] = LastRuns(ended[t])
    BY DEF TimingsAreKept, LastRuns
  <2>1. Appending = {}
    BY DEF Appending, At
  <2>2. QED
    BY <2>1 DEF BuildInv, LogsRecorded, HasLast
<1>2. QED
  BY <1>1, BuildsBegin, BuildsGoOn, PTL DEF BuildSpec

\* A package and its sources are never there without those it needs.
THEOREM NeededPackages == BuildSpec => []PackagesHaveWhatTheyNeed
<1>1. BuildInv => PackagesHaveWhatTheyNeed
  BY DEF BuildInv
<1>2. QED
  BY <1>1, BuildsBegin, BuildsGoOn, PTL DEF BuildSpec

\* A build that ends well has installed all it was asked for, unless two have built at once.
THEOREM InstalledOnSuccess == BuildSpec => SuccessMeansInstalled
<1> DEFINE Promise ==
      \A b \in Builders :
        At(b, "dict") /\ builder'[b].pc = "done" /\ "building" \notin overlap =>
          LET asked == builder[b].asked IN
            /\ "py" \in asked => py'.python
            /\ "packages" \in asked => Planned \subseteq py'.packages /\ Planned \subseteq dict'
            /\ "helpers" \in asked => harness' # "none"
            /\ "common" \in dict'
<1>1. ASSUME BuildInv, [Builds \/ Estimate]_<<buildVars, estimator>>
      PROVE  Promise
  <2> SUFFICES ASSUME NEW b \in Builders, At(b, "dict"), builder'[b].pc = "done", "building" \notin overlap
               PROVE  LET asked == builder[b].asked IN
                        /\ "py" \in asked => py'.python
                        /\ "packages" \in asked => Planned \subseteq py'.packages /\ Planned \subseteq dict'
                        /\ "helpers" \in asked => harness' # "none"
                        /\ "common" \in dict'
    OBVIOUS
  <2>1. b \in Active /\ Remaining(b) = {} /\ \A t \in builder[b].asked : InPlace(t)
    <3>1. b \in Active
      BY DEF Active, At
    <3>2. Orderly(b)
      BY <1>1, <3>1 DEF BuildInv
    <3>3. Remaining(b) = {}
      BY <3>2 DEF Remaining, Orderly, At, PartStages
    <3>4. \A t \in builder[b].asked \ Remaining(b) : InPlace(t)
      <4>1. OneBuilds
        BY <1>1 DEF BuildInv
      <4>2. QED
        BY <3>1, <4>1 DEF OneBuilds
    <3>5. QED
      BY <3>1, <3>3, <3>4
  <2>2. MakeDict(b)
    <3>1. builder' # builder
      BY DEF At
    <3>2. PICK c \in Builders : Build(c)
      BY <1>1, <3>1 DEF Builds, Estimate, buildVars, OrphanEnds, CleanBuild
    <3>3. c = b
      <4>1. ASSUME c # b
            PROVE  builder'[b] = builder[b]
        BY <1>1, <3>2, <4>1 DEF Build, Begin, NextPart, Checkout, Cloned, FetchSource, FetchWheels, RunVm,
             ReadTimings, WriteTimings, ReplaceTimings, VerifyBuild, MakeDict, CancelBuild, Goes, Fails,
             BuildInv, BuildersTyped
      <4>2. QED
        BY <4>1 DEF At
    <3>4. ~Begin(b) /\ ~NextPart(b) /\ ~Checkout(b) /\ ~Cloned(b) /\ ~FetchSource(b) /\ ~FetchWheels(b)
          /\ ~RunVm(b) /\ ~ReadTimings(b) /\ ~WriteTimings(b) /\ ~ReplaceTimings(b)
          /\ ~VerifyBuild(b) /\ ~CancelBuild(b)
      BY DEF Begin, NextPart, Checkout, Cloned, FetchSource, FetchWheels, RunVm,
           ReadTimings, WriteTimings, ReplaceTimings, VerifyBuild, CancelBuild, At
    <3>5. QED
      BY <3>2, <3>3, <3>4 DEF Build
  <2>3. dict' = {"common"} \cup py.names /\ UNCHANGED <<py, harness>>
    BY <2>2 DEF MakeDict
  <2>4. QED
    BY <2>1, <2>3 DEF InPlace
<1>2. QED
  BY <1>1, BuildsBegin, BuildsGoOn, PTL DEF BuildSpec, SuccessMeansInstalled

-----------------------------------------------------------------------------
(***************************************************************************)
(* Builds: the progress shown                                              *)
(***************************************************************************)

\* Progress stays within the whole, which is the lines expected times the end of the curve.
EstimatorTyped ==
  /\ estimator \in [curve : Curves, total : Nat \ {0}, line : Nat, phase : Phases \cup {0}, progress : Nat]
  /\ estimator.progress <= estimator.total * Full

\* A place n between two marks that are `step` apart: what is left of the way is not passed.
LEMMA BetweenMarks ==
  ASSUME NEW a \in Nat, NEW b \in Nat, a <= b, NEW step \in Nat, NEW n \in Nat, n <= step
  PROVE  /\ step * a + n * (b - a) \in Nat
         /\ step * a + n * (b - a) <= step * b
<1>1. PICK d \in Nat : b = a + d
  <2>1. b - a \in Nat /\ b = a + (b - a)
    OBVIOUS
  <2>2. QED
    BY <2>1
<1>2. PICK rest \in Nat : step = n + rest
  <2>1. step - n \in Nat /\ step = n + (step - n)
    OBVIOUS
  <2>2. QED
    BY <2>1
<1>3. b - a = d
  BY <1>1
<1>4. n * d \in Nat /\ rest * d \in Nat /\ step * a \in Nat /\ step * d \in Nat
  BY <1>2
<1>5. step * d = n * d + rest * d
  BY <1>2
<1>6. step * b = step * a + step * d
  BY <1>1
<1>7. QED
  BY <1>3, <1>4, <1>5, <1>6

\* Where a line lies between the points of the curve.
LEMMA PlaceOnCurve ==
  ASSUME NEW line \in Nat, NEW total \in Nat \ {0}
  PROVE  LET at == (IF line > total THEN total ELSE line) * Grid
             low == at \div total
         IN  /\ at \in Nat /\ low \in Nat
             /\ at - low * total \in Nat /\ at - low * total <= total
<1> DEFINE least == IF line > total THEN total ELSE line
           at == least * Grid
           low == at \div total
<1>1. at \in Nat
  <2>1. least \in Nat /\ Grid \in Nat
    BY BuildAssumption
  <2> HIDE DEF least
  <2>2. QED
    BY <2>1
<1> HIDE DEF at
<1>2. low \in Nat /\ low * total <= at /\ at < (low + 1) * total
  BY <1>1
<1> HIDE DEF low
<1>3. low * total \in Nat /\ (low + 1) * total = low * total + total
  BY <1>2
<1>4. at - low * total \in Nat /\ at - low * total <= total
  BY <1>1, <1>2, <1>3
<1>5. QED
  BY <1>1, <1>2, <1>4 DEF at, low

\* Progress on a curve of earlier builds is at most the whole, also when more lines come
\* than were expected.
LEMMA CurveStaysBelow ==
  ASSUME NEW curve \in Curves, NEW line \in Nat, NEW total \in Nat \ {0}
  PROVE  CurveAt(curve, line, total) \in Nat /\ CurveAt(curve, line, total) <= total * Full
<1> DEFINE at == (IF line > total THEN total ELSE line) * Grid
           low == at \div total
<1>1. /\ at \in Nat /\ low \in Nat
      /\ at - low * total \in Nat /\ at - low * total <= total
  BY PlaceOnCurve
<1>2. Grid \in Nat \ {0} /\ Full \in Nat
  BY BuildAssumption
<1>3. \A i \in 0 .. Grid : curve[i] \in Nat /\ curve[i] <= Full
  BY <1>2 DEF Curves
<1>4. ASSUME NEW k \in Nat, k <= Full
      PROVE  total * k \in Nat /\ total * k <= total * Full
  BY <1>2, <1>4, BetweenMarks
<1>5. CASE low >= Grid
  <2>1. CurveAt(curve, line, total) = total * curve[Grid]
    BY <1>5 DEF CurveAt
  <2>2. QED
    BY <1>2, <1>3, <1>4, <2>1
<1>6. CASE ~(low >= Grid)
  <2>1. CurveAt(curve, line, total)
          = total * curve[low] + (at - low * total) * (curve[low + 1] - curve[low])
    BY <1>6 DEF CurveAt
  <2> HIDE DEF at, low
  <2>2. low \in 0 .. Grid /\ low + 1 \in 1 .. Grid
    BY <1>1, <1>2, <1>6
  <2>3. /\ curve[low] \in Nat /\ curve[low + 1] \in Nat /\ curve[low + 1] <= Full
        /\ curve[low] <= curve[low + 1]
    <3>1. curve[(low + 1) - 1] <= curve[low + 1] /\ (low + 1) - 1 = low
      BY <1>1, <2>2 DEF Curves
    <3>2. QED
      BY <1>2, <1>3, <2>2, <3>1
  <2>4. /\ total * curve[low] + (at - low * total) * (curve[low + 1] - curve[low]) \in Nat
        /\ total * curve[low] + (at - low * total) * (curve[low + 1] - curve[low]) <= total * curve[low + 1]
    BY <1>1, <2>3, BetweenMarks
  <2>5. total * curve[low + 1] <= total * Full /\ total * curve[low + 1] \in Nat
    BY <1>4, <2>3
  <2> HIDE DEF low, at
  <2>6. QED
    BY <1>2, <2>1, <2>4, <2>5
<1>7. QED
  BY <1>5, <1>6

\* A line moves both the progress and the phase on.
LEMMA FeedFacts ==
  ASSUME EstimatorTyped, NEW mark \in Phases \cup {0}, Feed(mark)
  PROVE  /\ EstimatorTyped'
         /\ estimator.progress <= estimator'.progress
         /\ estimator.phase <= estimator'.phase
<1> DEFINE here == CurveAt(estimator.curve, estimator.line + 1, estimator.total)
<1>1. /\ estimator.curve \in Curves /\ estimator.total \in Nat \ {0} /\ estimator.line \in Nat
      /\ estimator.phase \in Nat /\ estimator.progress \in Nat
      /\ estimator.progress <= estimator.total * Full
  BY DEF EstimatorTyped, Phases
<1>2. here \in Nat /\ here <= estimator.total * Full
  <2>1. estimator.line + 1 \in Nat
    BY <1>1
  <2>2. QED
    BY <1>1, <2>1, CurveStaysBelow
<1>3. estimator' = [estimator EXCEPT !.line = @ + 1, !.phase = IF mark > @ THEN mark ELSE @,
                                     !.progress = Larger(@, here)]
  BY DEF Feed
<1> HIDE DEF here
<1>4. /\ estimator'.curve = estimator.curve /\ estimator'.total = estimator.total
      /\ estimator'.line = estimator.line + 1
      /\ estimator'.phase = (IF mark > estimator.phase THEN mark ELSE estimator.phase)
      /\ estimator'.progress = Larger(estimator.progress, here)
  BY <1>3 DEF EstimatorTyped
<1>5. /\ estimator'.progress \in Nat /\ estimator'.progress <= estimator.total * Full
      /\ estimator.progress <= estimator'.progress
  BY <1>1, <1>2, <1>4 DEF Larger
<1>6. estimator'.phase \in Phases \cup {0} /\ estimator.phase <= estimator'.phase
  BY <1>1, <1>4 DEF EstimatorTyped, Phases
<1>7. estimator' \in [curve : Curves, total : Nat \ {0}, line : Nat, phase : Phases \cup {0}, progress : Nat]
  <2>1. estimator'.line \in Nat
    BY <1>1, <1>4
  <2>2. QED
    BY <1>1, <1>3, <1>4, <1>5, <1>6, <2>1 DEF EstimatorTyped
<1>8. QED
  BY <1>4, <1>5, <1>6, <1>7 DEF EstimatorTyped

LEMMA EstimatorGoesOn ==
  ASSUME EstimatorTyped, [Builds \/ Estimate]_<<buildVars, estimator>>
  PROVE  /\ EstimatorTyped'
         /\ estimator.progress <= estimator'.progress
         /\ estimator'.progress <= estimator.total * Full
         /\ estimator.phase <= estimator'.phase
<1>1. CASE UNCHANGED estimator
  BY <1>1 DEF EstimatorTyped, Phases
<1>2. CASE Estimate
  <2>1. PICK mark \in Phases \cup {0} : Feed(mark)
    BY <1>2 DEF Estimate
  <2>2. estimator'.total = estimator.total
    BY <2>1 DEF Feed, EstimatorTyped
  <2>3. QED
    BY <2>1, <2>2, FeedFacts DEF EstimatorTyped
<1>3. QED
  BY <1>1, <1>2 DEF Builds

LEMMA EstimatorBegins ==
  ASSUME EstimatorInit
  PROVE  EstimatorTyped
<1>1. PICK curve \in Curves, total \in 1 .. MaxLines :
        estimator = [curve |-> curve, total |-> total, line |-> 0, phase |-> 0, progress |-> 0]
  BY DEF EstimatorInit
<1>2. total \in Nat \ {0} /\ Full \in Nat /\ total * Full \in Nat
  BY BuildAssumption
<1>3. QED
  BY <1>1, <1>2 DEF EstimatorTyped

\* Progress never falls nor passes the whole, and no phase comes back: feed() of
\* BuildProgressEstimator, for a curve and a grid of any size.
THEOREM ProgressIsHonest == BuildSpec => ReadingsMoveForward
<1>1. EstimatorTyped /\ [Builds \/ Estimate]_<<buildVars, estimator>> =>
        /\ EstimatorTyped'
        /\ [/\ estimator.progress <= estimator'.progress
            /\ estimator'.progress <= estimator.total * Full
            /\ estimator.phase <= estimator'.phase]_estimator
  BY EstimatorGoesOn
<1>2. QED
  BY <1>1, EstimatorBegins, PTL DEF BuildSpec, ReadingsMoveForward
=============================================================================
