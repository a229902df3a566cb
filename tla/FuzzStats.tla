------------------------------- MODULE FuzzStats -------------------------------
(***************************************************************************)
(* What is told of a campaign: the monitor that announces the magnitude of *)
(* its crashes (src/src/pyfuzz/monitor.py, with the summary it reads,      *)
(* summary.py), and the trend of a plot (pfui/trend_service.py, ui/        *)
(* backend/handlers/plot.py).                                              *)
(*                                                                         *)
(* Counts are magnitudes: 0 for no crash, then one more for every factor   *)
(* of ten.                                                                 *)
(***************************************************************************)
EXTENDS Naturals, Integers, Sequences, FiniteSets, FiniteSetsExt

CONSTANTS
  Workers,
  MaxCrashes   \* bound: magnitude of the crashes

ASSUME StatsAssumption == MaxCrashes \in Nat

VARIABLES
  running,  \* the workers that run
  crashes,  \* magnitude of the files under crashes/
  cleaning, \* clean is at work
  monitor,  \* tiers known to the monitor
  told      \* history: the tiers announced, in order

statsVars == <<running, crashes, cleaning, monitor, told>>

None == -1
Quiet == 0

StatsInit ==
  /\ running = Workers /\ crashes = Quiet /\ cleaning = FALSE
  /\ \E once, notify \in BOOLEAN :
       monitor = [tier |-> None, started |-> FALSE, once |-> once, notify |-> notify, over |-> FALSE]
  /\ told = <<>>

WorkerStarts(w) ==
  /\ w \notin running /\ ~cleaning
  /\ running' = running \cup {w}
  /\ UNCHANGED <<crashes, cleaning, monitor, told>>

\* Ten times as many files as before are under crashes/.
WorkerReports(w) ==
  /\ w \in running
  /\ crashes < MaxCrashes /\ crashes' = crashes + 1
  /\ UNCHANGED <<running, cleaning, monitor, told>>

WorkerDies(w) ==
  /\ w \in running
  /\ running' = running \ {w}
  /\ UNCHANGED <<crashes, cleaning, monitor, told>>

\* clean removes the outputs one by one.
CleanOutputs ==
  /\ running = {}
  /\ cleaning' = ~cleaning
  /\ crashes' = IF cleaning THEN Quiet ELSE crashes
  /\ UNCHANGED <<running, monitor, told>>

(***************************************************************************)
(* summarize_fuzzing(): a file that goes while it is read fails the whole. *)
(***************************************************************************)
Magnitude(readable) == IF readable /\ crashes > Quiet THEN crashes - 1 ELSE None

\* One round of monitor_loop(): the first only notes the magnitude.
Round ==
  /\ ~monitor.over
  /\ \E tier \in {Magnitude(TRUE), Magnitude(~cleaning)} :
     LET news == monitor.notify /\ monitor.started /\ tier > monitor.tier IN
     /\ told' = IF news THEN Append(told, tier) ELSE told
     /\ monitor' = [monitor EXCEPT !.started = TRUE, !.over = monitor.once,
                                   !.tier = IF news \/ ~monitor.started THEN tier ELSE @]
  /\ UNCHANGED <<running, crashes, cleaning>>

Statistics == (\E w \in Workers : WorkerStarts(w) \/ WorkerReports(w) \/ WorkerDies(w)) \/ CleanOutputs \/ Round

StatsSpec == StatsInit /\ [][Statistics]_statsVars

-----------------------------------------------------------------------------
(***************************************************************************)
(* load_trend(): rows[w] are the <<time, corpus, edges>> of a worker, in   *)
(* the order of their times; a point adds up what each worker had by then, *)
(* and has the most edges of any.                                          *)
(***************************************************************************)
Latest(rows, t) == {r \in rows : r[1] <= t /\ \A s \in rows : s[1] <= t => s[1] <= r[1]}

Trend(rows, buckets) ==
  LET end == Max({r[1] : r \in UNION {rows[w] : w \in DOMAIN rows}})
      n == IF end < buckets THEN end ELSE buckets
      at(i) == (i * end) \div n
      then(i) == [w \in DOMAIN rows |-> Latest(rows[w], at(i))]
  IN IF n = 0 THEN <<>>
     ELSE [i \in 0 .. n |->
            [time |-> at(i),
             corpus |-> MapThenSumSet(LAMBDA w : MapThenSumSet(LAMBDA r : r[2], then(i)[w]), DOMAIN rows),
             edges |-> Max({0} \cup {r[3] : r \in UNION {then(i)[w] : w \in DOMAIN rows}})]]

-----------------------------------------------------------------------------
(***************************************************************************)
(* Properties                                                              *)
(***************************************************************************)

StatsTypeOK ==
  /\ running \subseteq Workers /\ crashes \in 0 .. MaxCrashes
  /\ monitor.tier \in None .. MaxCrashes

\* No magnitude is announced twice in a session, though the outputs may be cleaned and grow
\* again, or be unreadable for a while; and none that the first round saw.
AnnouncedOnce == \A i, j \in 1 .. Len(told) : i < j => told[i] < told[j]
=============================================================================
