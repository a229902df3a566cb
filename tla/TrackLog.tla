------------------------------- MODULE TrackLog -------------------------------
(***************************************************************************)
(* The input track and the captured output of one worker: written by the   *)
(* children of the harness (src/helpers/fuzz_python.c), read by process id *)
(* (src/src/pyfuzz/trackscript.py), and the reproducers made from it.      *)
(*                                                                         *)
(* A child appends its index records when it starts and an input record    *)
(* before it runs each input.  Files are kept from campaign to campaign,   *)
(* and each campaign's virtual machine counts its pids from the start:     *)
(* a pid may come again.  A file is the sequence of its records.           *)
(***************************************************************************)
EXTENDS Naturals, Sequences, FiniteSets, SequencesExt, SortedSets

CONSTANTS
  Pids,
  MaxChildren,  \* bound: children of the worker
  MaxRecords,   \* bound: input records
  MaxPrints,    \* bound: pieces of output
  CrashNumbers, \* artifacts: numbers, in the order of generate_all_track_scripts()
  Tracked,      \* artifacts whose worker has an input track
  InTrack       \* artifacts whose process has inputs in it

ASSUME TrackAssumption ==
  /\ MaxChildren \in Nat /\ MaxRecords \in Nat /\ MaxPrints \in Nat
  /\ CrashNumbers \subseteq Nat /\ IsFiniteSet(CrashNumbers)
  /\ InTrack \subseteq Tracked /\ Tracked \subseteq CrashNumbers

VARIABLES
  children,  \* history: the pid of each child, in the order they started
  alive,     \* the child that runs, if one does
  log,       \* <worker>.log: the child that wrote the record, is the record whole?
  idx,       \* <worker>.idx: child, length of the log when it started
  out,       \* child-stdout.log: the child that wrote each piece
  cap,       \* child.idx: child, length of the output when it started
  reader,    \* the analysis of a process
  artifacts, \* those in artifacts/
  scripts,   \* the artifact each numbered reproducer was made for
  settled    \* history: reproducers are made for all the artifacts there are

trackVars == <<children, alive, log, idx, out, cap, reader, artifacts, scripts, settled>>

written == <<children, alive, log, idx, out, cap>>
made == <<artifacts, scripts, settled>>

ReaderIdle == [pc |-> "idle", pid |-> 0, start |-> 0, from |-> 0, to |-> 0, count |-> 0, last |-> 0,
               output |-> <<>>, had |-> 0, started |-> 0]  \* history: the pid's inputs, and the children, when it began

TrackInit ==
  /\ children = <<>> /\ alive = {}
  /\ log = <<>> /\ idx = <<>> /\ out = <<>> /\ cap = <<>>
  /\ reader = ReaderIdle
  /\ artifacts = {} /\ scripts = <<>> /\ settled = TRUE

-----------------------------------------------------------------------------
(***************************************************************************)
(* The harness                                                             *)
(***************************************************************************)

\* The fork server starts the next child; its pid is free but may have been used.
StartChild ==
  /\ alive = {} /\ Len(children) < MaxChildren
  /\ \E pid \in Pids : children' = Append(children, pid)
  /\ LET child == Len(children) + 1 IN
       /\ alive' = {child}
       /\ idx' = Append(idx, [child |-> child, at |-> Len(log)])
       /\ cap' = Append(cap, [child |-> child, at |-> Len(out)])
  /\ UNCHANGED <<log, out, reader, made>>

RecordInput(child) ==
  /\ child \in alive /\ Len(log) < MaxRecords
  /\ log' = Append(log, [child |-> child, whole |-> TRUE])
  /\ UNCHANGED <<children, alive, idx, out, cap, reader, made>>

\* What the input prints; a process it has left behind may print later, until the virtual
\* machine goes.
PrintOutput(child) ==
  /\ child \in DOMAIN children /\ Len(out) < MaxPrints
  /\ \A i \in DOMAIN log : log[i].child >= child => log[i].whole
  /\ out' = Append(out, child)
  /\ UNCHANGED <<children, alive, log, idx, cap, reader, made>>

ChildEnds ==
  /\ alive # {}
  /\ alive' = {}
  /\ UNCHANGED <<children, log, idx, out, cap, reader, made>>

\* The virtual machine goes while the child writes an input record.
MachineStops(child) ==
  /\ child \in alive /\ Len(log) < MaxRecords
  /\ log' = Append(log, [child |-> child, whole |-> FALSE])
  /\ alive' = {}
  /\ UNCHANGED <<children, idx, out, cap, reader, made>>

-----------------------------------------------------------------------------
(***************************************************************************)
(* Reading by pid                                                          *)
(***************************************************************************)

Pid(record) == children[record.child]

\* The pid's last entry instead of its first.
StartOffsetOfLast(pid) ==
  IF \E i \in DOMAIN idx : Pid(idx[i]) = pid
  THEN idx[SelectLastInSeq(idx, LAMBDA e : Pid(e) = pid)].at
  ELSE 0

\* _idx_start_offset(): the first entry of the pid, the start of the log if it has none.
StartOffset(pid) ==
  IF \E i \in DOMAIN idx : Pid(idx[i]) = pid
  THEN idx[SelectInSeq(idx, LAMBDA e : Pid(e) = pid)].at
  ELSE 0

\* Records up to the first that is cut short: its length leads past the end of the file,
\* or into what was appended later, and then no magic number follows.
Readable(start) ==
  LET cut == {i \in start + 1 .. Len(log) : ~log[i].whole}
  IN  start + 1 .. (IF cut = {} THEN Len(log) ELSE (CHOOSE i \in cut : \A j \in cut : i <= j) - 1)

InputsOf(pid, start) == {i \in Readable(start) : Pid(log[i]) = pid}

\* A record cut short is taken for a whole one if enough was appended behind it.
Garbled(pid, start) ==
  LET next == start + Cardinality(Readable(start)) + 1
  IN  next < Len(log) /\ Pid(log[next]) = pid

\* get_pid_track_summary() reads the index, get_pid_output() the last record of the pid in
\* the capture index, each before its data file.  `to` is MaxPrints for the end of the file.
OpenTrack(pid) ==
  /\ reader.pc = "idle"
  /\ LET last == SelectLastInSeq(cap, LAMBDA e : Pid(e) = pid) IN
       reader' = [ReaderIdle EXCEPT
         !.pc = "indexed", !.pid = pid,
         !.start = StartOffset(pid),
         !.from = IF last = 0 THEN MaxPrints ELSE cap[last].at,
         !.to = IF last = 0 THEN 0 ELSE IF last < Len(cap) THEN cap[last + 1].at ELSE MaxPrints,
         !.started = Len(children),
         !.had = Cardinality({i \in DOMAIN log : Pid(log[i]) = pid})]
  /\ UNCHANGED <<written, made>>

ReadTrack ==
  /\ reader.pc = "indexed"
  /\ LET own == InputsOf(reader.pid, reader.start)
         end == IF reader.to < Len(out) THEN reader.to ELSE Len(out)
     IN  \E extra \in IF Garbled(reader.pid, reader.start) THEN {0, 1} ELSE {0} :
           reader' = [reader EXCEPT
             !.pc = "done",
             !.count = Cardinality(own) + extra,
             !.last = IF own = {} THEN 0 ELSE CHOOSE i \in own : \A j \in own : j <= i,
             !.output = SubSeq(out, reader.from + 1, end)]
  /\ UNCHANGED <<written, made>>

CloseTrack ==
  /\ reader.pc = "done"
  /\ reader' = ReaderIdle
  /\ UNCHANGED <<written, made>>

-----------------------------------------------------------------------------
(***************************************************************************)
(* generate_all_track_scripts(): reproducers numbered by the place of      *)
(* their artifact among those with a track; cores, which have no time of   *)
(* their own, come before every crash.                                     *)
(***************************************************************************)

NewArtifact(a) ==
  /\ a \notin artifacts
  /\ artifacts' = artifacts \cup {a} /\ settled' = FALSE
  /\ UNCHANGED <<written, reader, scripts>>

Numbered == Sorted(artifacts \cap Tracked)

\* A number that has a file is passed over; an artifact without inputs ends the command.
GenerateScripts ==
  /\ LET order == Numbered
         fails == {i \in DOMAIN order : i > Len(scripts) /\ order[i] \notin InTrack}
         end == IF fails = {} THEN Len(order) ELSE (CHOOSE i \in fails : \A j \in fails : i <= j) - 1
     IN  /\ scripts' = scripts \o SubSeq(order, Len(scripts) + 1, end)
         /\ settled' = (fails = {})
  /\ UNCHANGED <<written, reader, artifacts>>

\* The sections of build_track_script(): inputs with a NUL (hasNul[n]) are left out, and with
\* them the reset or collection that their number calls for.
TrackScript(hasNul) ==
  LET section(n) == IF hasNul[n] THEN <<>>
                    ELSE <<<<"input", n>>>>
                         \o (IF n % 16 = 0 THEN <<<<"reset", n>>>> ELSE <<>>)
                         \o (IF n % 64 = 0 THEN <<<<"gc", n>>>> ELSE <<>>)
  IN  FlattenSeq([n \in DOMAIN hasNul |-> section(n)])

-----------------------------------------------------------------------------
Harness == \/ StartChild \/ ChildEnds
           \/ \E child \in 1 .. MaxChildren :
                RecordInput(child) \/ PrintOutput(child) \/ MachineStops(child)

TrackReader == (\E pid \in Pids : OpenTrack(pid)) \/ ReadTrack \/ CloseTrack

Reproducers == (\E a \in CrashNumbers : NewArtifact(a)) \/ GenerateScripts

TrackSpec == TrackInit /\ [][Harness \/ TrackReader \/ Reproducers]_trackVars

-----------------------------------------------------------------------------
(***************************************************************************)
(* Properties                                                              *)
(***************************************************************************)

TrackTypeOK ==
  /\ children \in Seq(Pids) /\ alive \subseteq DOMAIN children
  /\ \A i \in DOMAIN log : log[i].child \in DOMAIN children
  /\ \A i \in DOMAIN idx : idx[i].at \in 0 .. Len(log)
  /\ \A i \in DOMAIN cap : cap[i].at \in 0 .. Len(out)
  /\ reader.pc \in {"idle", "indexed", "done"}
  /\ artifacts \subseteq CrashNumbers /\ scripts \in Seq(Tracked)

WholeLog == \A i \in DOMAIN log : log[i].whole

Reads == reader.pc = "indexed" /\ reader'.pc = "done"

\* The summary of a pid counts every input that any process of that pid had recorded when
\* it was asked for, and none of another, and the last input it shows is one of that pid;
\* a record cut short may hide what follows, and adds one at most.
SummaryCountsThePid ==
  [][Reads => LET now == {i \in DOMAIN log : Pid(log[i]) = reader.pid} IN
                /\ WholeLog => reader.had <= reader'.count
                /\ reader'.count <= Cardinality(now)
                /\ reader'.last # 0 => reader'.last \in now /\ log[reader'.last].whole
                /\ WholeLog => (reader'.count > 0 <=> reader'.last # 0)]_reader

\* The output shown for a pid is that of the last process that had it when it was asked
\* for: all that was printed until the next process started, and nothing from before it.
OutputOfTheLastProcess ==
  [][Reads => LET mine == {c \in 1 .. reader.started : children[c] = reader.pid}
                  last == CHOOSE c \in mine : \A d \in mine : d <= c
                  shown == Len(reader'.output)
              IN  IF mine = {} THEN shown = 0
                  ELSE /\ reader'.output = SubSeq(out, cap[last].at + 1, cap[last].at + shown)
                       /\ cap[last].at + shown >= IF last < Len(cap) THEN cap[last + 1].at ELSE Len(out)
    ]_reader

\* A numbered reproducer is never made for another artifact later.
ReproducersStay == [][IsPrefix(scripts, scripts')]_scripts

\* generate_all_track_scripts(), "Generate track scripts for all core and crash artifacts
\* with matching input tracks.": when it has run without an error, each has one.
EveryArtifactHasScript ==
  settled => \A a \in artifacts \cap Tracked : \E i \in DOMAIN scripts : scripts[i] = a
=============================================================================
