----------------------------- MODULE ArtifactReports -----------------------------
(***************************************************************************)
(* What is written about artifacts once they are analyzed: answers of a    *)
(* language model (src/src/pyfuzz/llm.py), the guess that a crash is the   *)
(* stack running out (stackfault.py), and the choice of artifacts by       *)
(* clauses (analysis_query.py).                                            *)
(*                                                                         *)
(* A request is one artifact of one command; the commands are processes,   *)
(* and the dashboard is one of them.  A file's content is the request that *)
(* wrote it.                                                               *)
(***************************************************************************)
EXTENDS Naturals, FiniteSets

CONSTANTS
  Commands,     \* processes that ask
  Artifacts,    \* artifacts asked about
  Analyzed,     \* those with an lldb.txt
  Names,        \* result files asked for
  Reserved,     \* RESERVED_ARTIFACT_FILENAMES
  Concurrency,  \* CLASSIFY_CONCURRENCY
  MaxAsked,     \* bound: commands started
  Original      \* content of the files that were there

ASSUME ReportAssumption ==
  /\ Analyzed \subseteq Artifacts /\ Reserved \subseteq Names /\ Names # {}
  /\ Concurrency \in Nat \ {0} /\ MaxAsked \in Nat

VARIABLES
  asked,     \* where each command is: what it writes, does it overwrite?
  request,   \* where the request of a command for an artifact is
  report,    \* the result files
  draft,     \* the temporary files: nothing, half or whole
  looked,    \* history: what was there when the request looked
  starts

reportVars == <<asked, request, report, draft, looked, starts>>

Requests == Commands \X Artifacts

\* Result files that are not there hold Nothing.
Nothing == <<>>

ReportInit ==
  /\ asked = [c \in Commands |-> [name |-> CHOOSE n \in Names : TRUE, force |-> FALSE]]
  /\ request = [q \in Requests |-> "none"]
  /\ report = [a \in Artifacts |-> [n \in Names |-> IF n \in Reserved THEN Original ELSE Nothing]]
  /\ draft = [q \in Requests |-> "none"]
  /\ looked = [q \in Requests |-> Nothing]
  /\ starts = 0

Ended == {"none", "skipped", "failed", "written"}
Over(c) == \A a \in Artifacts : request[c, a] \in Ended
Out(c) == {a \in Artifacts : request[c, a] \in {"asking", "open", "filled"}}
Name(q) == asked[q[1]].name
There(q) == report[q[2]][Name(q)]

\* classify_artifacts(), describe_artifacts(): a reserved name ends the command.
Ask(c) ==
  /\ Over(c) /\ starts < MaxAsked
  /\ starts' = starts + 1
  /\ \E name \in Names \ Reserved : \E force \in BOOLEAN :
       asked' = [asked EXCEPT ![c] = [name |-> name, force |-> force]]
  /\ request' = [q \in Requests |-> IF q[1] = c THEN "waiting" ELSE request[q]]
  /\ UNCHANGED <<report, draft, looked>>

\* Without the semaphore.
LoadAtOnce(q) ==
  /\ request[q] = "waiting"
  /\ request' = [request EXCEPT ![q] =
       IF There(q) # Nothing /\ ~asked[q[1]].force THEN "skipped"
       ELSE IF q[2] \in Analyzed THEN "asking" ELSE "failed"]
  /\ looked' = [looked EXCEPT ![q] = There(q)]
  /\ UNCHANGED <<asked, report, draft, starts>>

\* The semaphore is got; a result that is there is kept unless it is to be overwritten, and
\* an artifact that was not analyzed fails alone.
LoadArtifact(q) ==
  /\ request[q] = "waiting" /\ Cardinality(Out(q[1])) < Concurrency
  /\ request' = [request EXCEPT ![q] =
       IF There(q) # Nothing /\ ~asked[q[1]].force THEN "skipped"
       ELSE IF q[2] \in Analyzed THEN "asking" ELSE "failed"]
  /\ looked' = [looked EXCEPT ![q] = There(q)]
  /\ UNCHANGED <<asked, report, draft, starts>>

\* One temporary file for each artifact.
DraftOfArtifact(q) == <<CHOOSE c \in Commands : TRUE, q[2]>>

\* The name of the temporary file has the process id in it.
Draft(q) == q

Answered(q) ==
  /\ request[q] = "asking"
  /\ \/ request' = [request EXCEPT ![q] = "open"] /\ draft' = [draft EXCEPT ![Draft(q)] = "half"]
     \/ request' = [request EXCEPT ![q] = "failed"] /\ UNCHANGED draft
  /\ UNCHANGED <<asked, report, looked, starts>>

FillDraft(q) ==
  /\ request[q] = "open"
  /\ request' = [request EXCEPT ![q] = "filled"]
  /\ draft' = [draft EXCEPT ![Draft(q)] = "whole"]
  /\ UNCHANGED <<asked, report, looked, starts>>

ReplaceReport(q) ==
  /\ request[q] = "filled"
  /\ IF draft[Draft(q)] = "none"
     THEN request' = [request EXCEPT ![q] = "failed"] /\ UNCHANGED <<report, draft>>
     ELSE /\ request' = [request EXCEPT ![q] = "written"]
          /\ report' = [report EXCEPT ![q[2]][Name(q)] = <<q, draft[Draft(q)]>>]
          /\ draft' = [draft EXCEPT ![Draft(q)] = "none"]
  /\ UNCHANGED <<asked, looked, starts>>

\* The command is interrupted; a temporary file may stay.
InterruptRequests(c) ==
  /\ ~Over(c)
  /\ request' = [q \in Requests |->
       IF q[1] = c /\ request[q] \notin Ended THEN "failed" ELSE request[q]]
  /\ UNCHANGED <<asked, report, draft, looked, starts>>

Reports ==
  \/ \E c \in Commands : Ask(c) \/ InterruptRequests(c)
  \/ \E q \in Requests : LoadArtifact(q) \/ Answered(q) \/ FillDraft(q) \/ ReplaceReport(q)

ReportSpec == ReportInit /\ [][Reports]_reportVars

-----------------------------------------------------------------------------
(***************************************************************************)
(* classify_lldb_stack_fault(): what the text says of the fault, and its   *)
(* score.  Distances and depths are ranks: 2 within the first bound, 1     *)
(* within the second, 0 beyond; a region is at the start of memory, holds  *)
(* the address, lies just below the stack, or is unknown.                  *)
(***************************************************************************)

Rank == 0 .. 2
Texts == [segfault : BOOLEAN, nearNull : BOOLEAN, distance : Rank,
          region : {"none", "zero", "belowStack"},
          stackUnmapped : {"no", "pointer", "both"},
          evaluator : BOOLEAN, depth : Rank, frames : Rank, imports : BOOLEAN, pressure : BOOLEAN]

Points(b, n) == IF b THEN n ELSE 0

Score(t) ==
  Points(t.segfault, 1) + (CASE t.distance = 2 -> 3 [] t.distance = 1 -> 1 [] OTHER -> 0)
  + Points(t.region = "belowStack", 4)
  + (CASE t.stackUnmapped = "both" -> 6 [] t.stackUnmapped = "pointer" -> 4 [] OTHER -> 0)
  + Points(t.evaluator, 2) + t.depth + t.frames + Points(t.imports, 2) + Points(t.pressure, 1)

\* A small address that is not near the stack pointer, or the region that starts at 0.
Vetoed(t) == (t.nearNull /\ t.distance = 0) \/ t.region = "zero"

Classification(t) ==
  IF Vetoed(t) THEN "unlikely" ELSE IF Score(t) >= 6 THEN "likely" ELSE IF Score(t) >= 3 THEN "possible" ELSE "unlikely"

-----------------------------------------------------------------------------
(***************************************************************************)
(* analysis_query.py: a clause and how often it is negated; all must hold. *)
(* An artifact is its type, its files, its metadata and what their texts   *)
(* match.                                                                  *)
(***************************************************************************)

Holds(artifact, clause) ==
  CASE clause.key = "file" -> clause.name \in artifact.files
    [] clause.key = "meta" -> IF clause.name \in DOMAIN artifact.meta
                              THEN clause.value \in {Nothing, artifact.meta[clause.name]}
                              ELSE clause.value = "None"  \* str() of what is not there
    [] clause.key = "re" -> clause.name \in artifact.files /\ clause.value \in artifact.matches[clause.name]
    [] clause.key = "type" -> clause.value = artifact.type

Query(artifacts, clauses) ==
  {a \in artifacts : \A clause \in clauses : Holds(a, clause) <=> clause.negations % 2 = 0}

-----------------------------------------------------------------------------
(***************************************************************************)
(* Properties                                                              *)
(***************************************************************************)

ReportTypeOK ==
  /\ \A c \in Commands : asked[c].name \in Names
  /\ request \in [Requests -> Ended \cup {"waiting", "asking", "open", "filled"}]
  /\ draft \in [Requests -> {"none", "half", "whole"}]
  /\ \A c \in Commands : Cardinality(Out(c)) <= Concurrency

\* A result file only ever becomes a whole answer of the request that was to write it, the
\* files an artifact is made of stay as they are, and an answer that is there is replaced
\* only by a request that may overwrite it, or looked before it came.
AnswersAreKept ==
  [][\A a \in Artifacts : \A n \in Names : report'[a][n] # report[a][n] =>
       \E c \in Commands :
         /\ request[c, a] = "filled" /\ request'[c, a] = "written" /\ asked[c].name = n
         /\ report'[a][n] = <<<<c, a>>, "whole">>
         /\ n \notin Reserved
         /\ asked[c].force \/ looked[c, a] = Nothing]_report
=============================================================================
