------------------------------ MODULE Minimizer ------------------------------
(***************************************************************************)
(* src/helpers/minimize_crash.py: makes a reproducer smaller as long as it *)
(* still crashes.  Sections are dropped first, one at a time or by halves, *)
(* then the try and exec wrappers of the sections left are taken off, then *)
(* single statements, then the comments.  After each stage the script is   *)
(* written over the one of the stage before.                               *)
(*                                                                         *)
(* A script is the sections it keeps, the wrappers around each (outermost  *)
(* first), the number of statements and what is known of its text; what a  *)
(* run of it does depends on the target of the behaviour.                  *)
(***************************************************************************)
EXTENDS Naturals, Sequences, FiniteSets, SequencesExt, SortedSets

CONSTANTS
  N,          \* sections of the reproducer
  Targets,    \* what may crash: see Crashes
  Wrappings,  \* the wrappers around the sections of a reproducer
  Statements, \* bound: statements of the script when its wrappers are gone
  Literals,   \* sections with a string literal in which a blank line, spaces at the end
              \* of a line or a separator of another kind matter
  Options     \* command lines, and what the run meets: see Option

Sections == 1 .. N

\* Sections crash together when they include one of `needs` and are not one of `masked`.
Target == [needs : SUBSET SUBSET Sections, masked : SUBSET SUBSET Sections]

\* --no-bisect, --no-initial-run, --bisect-factor; does the artifact that the script
\* names exist, can a crash fail to come, can a write fail?
Option == [bisect : BOOLEAN, verify : BOOLEAN, factor : Nat \ {0, 1},
           artifact : BOOLEAN, flaky : BOOLEAN, faulty : BOOLEAN]

ASSUME MinimizerAssumption ==
  /\ N \in Nat \ {0} /\ Statements \in Nat /\ Literals \subseteq Sections
  /\ Targets \subseteq Target
  /\ \A wraps \in Wrappings : wraps \in [Sections -> Seq({"exec", "try"})]
  /\ Options \subseteq Option

VARIABLES
  target, option, \* chosen at the start
  stage,          \* what minimize() is doing
  script,         \* the sections, wrappers and statements left
  work,           \* reduce(): candidate sets still to be reduced, and those required
  at,             \* the next section, trial or statement to try
  changed,        \* something was accepted in this pass
  accepted,       \* accepted_counts: the kinds of wrapper taken off
  seen,           \* history: sets of sections seen crashing, until they are settled
  files           \* the whole script in reproducer.py and <script>.min.py, if any

minimizerVars == <<target, option, stage, script, work, at, changed, accepted, seen, files>>

-----------------------------------------------------------------------------
(***************************************************************************)
(* Running a candidate                                                     *)
(***************************************************************************)

Crashes(kept) == kept \notin target.masked /\ \E need \in target.needs : need \subseteq kept

\* A run dies of a signal, exits, or is stopped by the time limit.
Runs(kept) ==
  IF Crashes(kept) THEN {"signal"} \cup (IF option.flaky THEN {"exit", "timeout"} ELSE {})
                   ELSE {"exit", "timeout"}

\* Anything but a clean exit.
IsNoCleanExit(run) == run # "exit"

IsCrash(run) == run = "signal"

\* A run of the sections `kept` ends so.
Try(kept, crash) ==
  \E run \in Runs(kept) : /\ crash = IsCrash(run)
                          /\ seen' = IF run = "signal" THEN seen \cup {kept} ELSE seen

-----------------------------------------------------------------------------
(***************************************************************************)
(* Writing the script of a stage                                           *)
(***************************************************************************)

\* write_text(): done, or an OSError, with or without the old content lost.
Attempts(fs, place, s) ==
  {[ok |-> TRUE, files |-> [fs EXCEPT ![place] = {s}]]} \cup
  (IF option.faulty
   THEN {[ok |-> FALSE, files |-> fs], [ok |-> FALSE, files |-> [fs EXCEPT ![place] = {}]]}
   ELSE {})

\* Next to the artifact if there is one, next to the script if that fails.
Persist(s) ==
  \E first \in Attempts(files, IF option.artifact THEN "reproducer" ELSE "min", s) :
    IF first.ok \/ ~option.artifact
    THEN files' = first.files
    ELSE \E second \in Attempts(first.files, "min", s) : files' = second.files

-----------------------------------------------------------------------------
MinimizerInit ==
  /\ target \in Targets
  /\ option \in Options
  /\ stage = "verify"
  /\ \E wraps \in Wrappings :
       script = [kept |-> Sections, wraps |-> wraps, cut |-> 0, bare |-> FALSE, text |-> "unrun"]
  /\ work = [required |-> {}, todo |-> <<>>]
  /\ at = 1 /\ changed = FALSE /\ accepted = {}
  /\ seen = {}
  /\ files = [reproducer |-> {}, min |-> {}]

Chosen == <<target, option>>

\* The first run of the whole script, and the way on.
Verify ==
  /\ stage = "verify"
  /\ IF option.verify
     THEN \E crash \in BOOLEAN : Try(Sections, crash) /\ stage' = IF crash THEN "reduce" ELSE "refused"
     ELSE stage' = "reduce" /\ UNCHANGED seen
  /\ work' = [required |-> {N}, todo |-> IF N > 1 THEN <<Sections \ {N}>> ELSE <<>>]
  /\ UNCHANGED <<Chosen, script, at, changed, accepted, files>>

-----------------------------------------------------------------------------
(***************************************************************************)
(* Sections, one at a time                                                 *)
(***************************************************************************)

Kept == Sorted(script.kept)

RemoveOne ==
  /\ stage = "reduce" /\ ~option.bisect /\ at <= Len(Kept)
  /\ \E crash \in BOOLEAN :
       /\ Try(script.kept \ {Kept[at]}, crash)
       /\ IF crash THEN /\ script' = [script EXCEPT !.kept = @ \ {Kept[at]}]
                        /\ changed' = TRUE
                        /\ UNCHANGED at
                   ELSE at' = at + 1 /\ UNCHANGED <<script, changed>>
  /\ UNCHANGED <<Chosen, stage, work, accepted, files>>

\* A pass that removed something is followed by another.
PassAgain ==
  /\ stage = "reduce" /\ ~option.bisect /\ at > Len(Kept) /\ changed
  /\ at' = 1 /\ changed' = FALSE
  /\ UNCHANGED <<Chosen, stage, script, work, accepted, seen, files>>

-----------------------------------------------------------------------------
(***************************************************************************)
(* Sections, by bisection.  The recursion of reduce() is a list of the     *)
(* candidate sets left to reduce: each call's result is the required set   *)
(* of the next.                                                            *)
(***************************************************************************)

\* n near-equal, contiguous groups of a set.
Chunkify(items, n) ==
  LET sorted == Sorted(items)
      count == IF n < Len(sorted) THEN n ELSE Len(sorted)
      size == Len(sorted) \div count
      over == Len(sorted) % count
      start(i) == (i - 1) * size + (IF i - 1 < over THEN i - 1 ELSE over)
  IN  [i \in 1 .. count |-> {sorted[k] : k \in start(i) + 1 .. start(i + 1)}]

\* What is kept beside the required sections: nothing, one chunk from the last on, all
\* but one chunk.
Trials(candidates) ==
  LET chunks == Chunkify(candidates, option.factor)
  IN  IF Cardinality(candidates) = 1 THEN <<{}>>
      ELSE <<{}>> \o Reverse(chunks) \o
           (IF Len(chunks) > 2 THEN [i \in DOMAIN chunks |-> candidates \ chunks[i]] ELSE <<>>)

Bisecting == stage = "reduce" /\ option.bisect /\ work.todo # <<>>

TryKeeping ==
  /\ Bisecting
  /\ LET trials == Trials(Head(work.todo)) IN
       /\ at <= Len(trials)
       /\ \E crash \in BOOLEAN :
            /\ Try(work.required \cup trials[at], crash)
            /\ IF crash
               THEN /\ work' = [work EXCEPT !.todo = (IF trials[at] = {} THEN <<>> ELSE <<trials[at]>>)
                                                     \o Tail(work.todo)]
                    /\ at' = 1
               ELSE at' = at + 1 /\ UNCHANGED work
  /\ UNCHANGED <<Chosen, stage, script, changed, accepted, files>>

\* No trial crashed: a single section is required, more are reduced chunk by chunk.
Recurse ==
  /\ Bisecting
  /\ LET candidates == Head(work.todo) IN
       /\ at > Len(Trials(candidates))
       /\ work' = IF Cardinality(candidates) = 1
                  THEN [required |-> work.required \cup candidates, todo |-> Tail(work.todo)]
                  ELSE [work EXCEPT !.todo = Chunkify(candidates, option.factor) \o Tail(work.todo)]
  /\ at' = 1
  /\ UNCHANGED <<Chosen, stage, script, changed, accepted, seen, files>>

-----------------------------------------------------------------------------
\* The sections are settled: the script is written and unwrapping begins.
SectionsDone ==
  /\ stage = "reduce"
  /\ IF option.bisect THEN work.todo = <<>> ELSE at > Len(Kept) /\ ~changed
  /\ LET kept == IF option.bisect THEN work.required ELSE script.kept
         settled == [script EXCEPT !.kept = kept, !.text = IF kept \in seen THEN "crashed" ELSE "unrun"]
     IN  script' = settled /\ Persist(settled)
  /\ stage' = "unwrap" /\ at' = 1 /\ changed' = FALSE
  /\ work' = [required |-> {}, todo |-> <<>>] /\ seen' = {}
  /\ UNCHANGED <<Chosen, accepted>>

-----------------------------------------------------------------------------
(***************************************************************************)
(* Wrappers                                                                *)
(***************************************************************************)

\* unwrap_compile_exec_section(): the call goes, a try around it stays.
WithoutExec(wraps) ==
  CASE wraps # <<>> /\ Head(wraps) = "exec" -> {Tail(wraps)}
    [] Len(wraps) > 1 /\ wraps[1] = "try" /\ wraps[2] = "exec" -> {<<"try">> \o SubSeq(wraps, 3, Len(wraps))}
    [] OTHER -> {}

WithoutTry(wraps) == IF wraps # <<>> /\ Head(wraps) = "try" THEN {Tail(wraps)} ELSE {}

\* The changed text is run: exec first, the try only if that was not accepted.
Unwrap ==
  /\ stage = "unwrap" /\ at <= Len(Kept)
  /\ LET section == Kept[at]
         accept(label, w) == /\ script' = [script EXCEPT !.wraps[section] = w, !.text = "crashed"]
                             /\ accepted' = accepted \cup {label}
                             /\ changed' = TRUE /\ UNCHANGED at
     IN  \/ \E w \in WithoutExec(script.wraps[section]) : accept("exec", w)
         \/ \E w \in WithoutTry(script.wraps[section]) : accept("try", w)
         \/ at' = at + 1 /\ UNCHANGED <<script, changed, accepted>>
  /\ UNCHANGED <<Chosen, stage, work, seen, files>>

UnwrapAgain ==
  /\ stage = "unwrap" /\ at > Len(Kept) /\ changed
  /\ at' = 1 /\ changed' = FALSE
  /\ UNCHANGED <<Chosen, stage, script, work, accepted, seen, files>>

Wrapped == \E section \in script.kept : WithoutExec(script.wraps[section]) # {}

\* Statements are tried only when exec wrappers were there and all are gone.
UnwrapDone ==
  /\ stage = "unwrap" /\ at > Len(Kept) /\ ~changed
  /\ IF accepted # {} THEN Persist(script) ELSE UNCHANGED files
  /\ stage' = IF "exec" \in accepted /\ ~Wrapped THEN "statements" ELSE "strip"
  /\ at' = 1
  /\ UNCHANGED <<Chosen, script, work, changed, accepted, seen>>

-----------------------------------------------------------------------------
(***************************************************************************)
(* Statements and comments                                                 *)
(***************************************************************************)

\* Removing a statement removes those in it; after each removal all are tried again.  A
\* candidate that does not compile is passed over, as one that does not crash.
CutStatement ==
  /\ stage = "statements" /\ at <= Statements - script.cut
  /\ \/ \E cut \in script.cut + 1 .. Statements :
          LET shorter == [script EXCEPT !.cut = cut, !.text = "crashed"]
          IN  script' = shorter /\ Persist(shorter) /\ at' = 1
     \/ at' = at + 1 /\ UNCHANGED <<script, files>>
  /\ UNCHANGED <<Chosen, stage, work, changed, accepted, seen>>

StatementsDone ==
  /\ stage = "statements" /\ at > Statements - script.cut
  /\ stage' = "strip"
  /\ IF script.cut = 0 THEN Persist(script) ELSE UNCHANGED files
  /\ UNCHANGED <<Chosen, script, work, at, changed, accepted, seen>>

\* What is known of a text when it has lost its comments and, in a string literal too, its
\* blank lines and the spaces at the ends of its lines: it is not run again.
Stripped(s) ==
  IF s.text # "crashed" THEN {s.text}
  ELSE {"stripped"} \cup (IF s.kept \cap Literals = {} THEN {} ELSE {"altered"})

\* Written under the artifact that the script named before its comments went.
StripComments ==
  /\ stage = "strip"
  /\ \E text \in Stripped(script) :
       LET stripped == [script EXCEPT !.bare = TRUE, !.text = text]
       IN  script' = stripped /\ Persist(stripped)
  /\ stage' = "done"
  /\ UNCHANGED <<Chosen, work, at, changed, accepted, seen>>

-----------------------------------------------------------------------------
Minimize ==
  \/ Verify \/ RemoveOne \/ PassAgain \/ TryKeeping \/ Recurse \/ SectionsDone
  \/ Unwrap \/ UnwrapAgain \/ UnwrapDone
  \/ CutStatement \/ StatementsDone \/ StripComments

Minimized == stage \in {"done", "refused"}

MinimizerSpec == MinimizerInit /\ [][Minimize]_minimizerVars

-----------------------------------------------------------------------------
(***************************************************************************)
(* Properties                                                              *)
(***************************************************************************)

Stages == {"verify", "reduce", "unwrap", "statements", "strip", "done", "refused"}

MinimizerTypeOK ==
  /\ target \in Targets /\ option \in Options
  /\ stage \in Stages
  /\ script.kept \subseteq Sections /\ script.cut \in 0 .. Statements
  /\ script.text \in {"unrun", "crashed", "stripped", "altered"}
  /\ work.required \subseteq Sections
  /\ \A i \in DOMAIN work.todo : work.todo[i] \subseteq Sections \ work.required
  /\ at \in Nat \ {0} /\ changed \in BOOLEAN
  /\ accepted \subseteq {"exec", "try"}
  /\ seen \subseteq SUBSET Sections

Scripts == UNION {files[place] : place \in DOMAIN files}

\* The text was seen crashing; or it is the last, which nobody has run: the tokens of one
\* that was seen crashing, and if a section has such literals perhaps not even these.
SeenCrashing(s) ==
  \/ s.text = "crashed"
  \/ /\ s.bare
     /\ s.text = "stripped" \/ (s.text = "altered" /\ s.kept \cap Literals # {})

\* What is written over the last reproducer still crashes.  One at a time, each text that
\* is written was seen crashing, but for the last one, which lost its comments after that;
\* by halves its sections may never have been run together, but they include sections that
\* crash, unless the others prevent it.
ReproducerCrashes ==
  \A s \in Scripts :
    /\ option.verify /\ ~option.bisect => SeenCrashing(s)
    /\ option.verify /\ option.bisect => \E need \in target.needs : need \subseteq s.kept

\* One at a time, a steady crash is reduced until no section can go.
NothingMoreToDrop ==
  ~option.bisect /\ ~option.flaky /\ stage \notin {"verify", "reduce", "refused"} =>
    \A section \in script.kept : ~Crashes(script.kept \ {section})

\* The final script is where a reader looks for it: in the artifact if there is one, and
\* no earlier stage is left beside it.
ResultIsWritten ==
  stage = "done" /\ ~option.faulty =>
    files = IF option.artifact THEN [reproducer |-> {script}, min |-> {}]
                               ELSE [reproducer |-> {}, min |-> {script}]
=============================================================================
