--------------------------- MODULE ArtifactStore ---------------------------
(***************************************************************************)
(* The artifacts/ directory of one project (src/src/pyfuzz/analysis.py): a *)
(* directory for each core and each crashing input, with a meta.json that  *)
(* sync_artifacts() creates and completes from the logs in threads of the  *)
(* server, and that analyze_artifact() changes on the event loop.  Nothing *)
(* locks a file.                                                           *)
(*                                                                         *)
(* The unit of interleaving is the system call, for threads and for the    *)
(* event loop's coroutine alike: a file is read, emptied when write_text() *)
(* opens it and filled when it closes it, in three steps, and any other    *)
(* thread may go on in between.  Two coroutines alternate at an await      *)
(* only.  Cleaning the directory and the command line's own processes are  *)
(* left out.                                                               *)
(***************************************************************************)
EXTENDS Naturals, FiniteSets

CONSTANTS
  Cores, Crashes,  \* the sources, files in cores/ and in outputs/*/crashes/: all there
                   \* from the start, a sync may reach each at any time
  PidOf,           \* the process (worker and pid) each source comes from
  Tracked,         \* sources whose process is in its worker's input track
  OomKilled,       \* sources whose process is in its worker's kernel log
  Syncs,           \* bound: artifacts.sync requests at a time
  Analyses,        \* bound: analyze_artifact() coroutines at a time
  MaxLoad,         \* bound: syncs and analyses at a time, taken together
  MaxFailures,     \* bound: artifacts whose files meet an I/O error
  NoArtifact

Artifacts == Cores \cup Crashes

ASSUME StoreAssumption ==
  /\ Cores \cap Crashes = {}
  /\ PidOf \in [Artifacts -> Nat]
  /\ Tracked \subseteq Artifacts
  /\ OomKilled \subseteq Artifacts
  /\ NoArtifact \notin Artifacts
  /\ MaxLoad \in Nat /\ MaxFailures \in Nat

VARIABLES
  logged,     \* crashes with a [RECORD] line in their worker's stdout.log
  dir,        \* artifacts whose directory exists
  meta,       \* what their meta.json holds
  lldb,       \* artifacts with an lldb.txt
  marker,     \* artifacts with the analyze marker
  creator,    \* the _create_artifact() thread of each sync and source
  sync,       \* where each sync_artifacts() is suspended
  enrich,     \* the _enrich_from_logs() thread of each sync
  analysis,   \* where each analyze_artifact() is, with the meta it has cached
  rewrite,    \* the rewriting of a meta.json that a coroutine is in the middle of
  failed,     \* history: artifacts whose creation or rewriting has met an I/O error
  overlapped, \* history: two syncs, or what a cancelled one left, have run at once
  raced,      \* history: crashes classified while a thread was at their meta.json
  crowded     \* history: artifacts that were analyzed by two coroutines at once

files == <<dir, meta, lldb, marker>>
history == <<failed, overlapped, raced, crowded>>
storeVars == <<logged, files, creator, sync, enrich, analysis, rewrite, history>>

-----------------------------------------------------------------------------
(***************************************************************************)
(* meta.json                                                               *)
(***************************************************************************)

\* "absent", just opened for writing, the remains of two writes, or JSON.
MetaStates == {"absent", "empty", "garbled", "json"}

\* Of the keys, those that something is decided on: the process, the inputs it ran and
\* the counterpart.  The score of the stack and the OOM kill are rewritings like these.
MetaFile == [state : MetaStates, pid : BOOLEAN, inputs : BOOLEAN,
             link : Artifacts \cup {NoArtifact}]

Blank(state) == [state |-> state, pid |-> FALSE, inputs |-> FALSE, link |-> NoArtifact]

\* What _create_artifact() writes: a core's pid is in its name, a crash's in the logs.
Created(a) == [Blank("json") EXCEPT !.pid = a \in Cores]

Readable(a) == meta[a].state = "json"

\* The file after `new` was written through a handle that was opened earlier: what others
\* wrote since sticks out behind it if it is longer.
Written(old, new) == IF old.state = "empty" THEN {new} ELSE {new, Blank("garbled")}

NotEnriching == [todo |-> {}, phase |-> "none", at |-> NoArtifact, copy |-> Blank("absent")]
NotAnalyzing == [pc |-> "none", at |-> NoArtifact, copy |-> Blank("absent")]
NoRewrite == [phase |-> "none", at |-> NoArtifact, text |-> Blank("absent")]

StoreInit ==
  /\ logged = {}
  /\ dir = {}
  /\ meta = [a \in Artifacts |-> Blank("absent")]
  /\ lldb = {}
  /\ marker = {}
  /\ creator = [i \in Syncs |-> [a \in Artifacts |-> "none"]]
  /\ sync = [i \in Syncs |-> "none"]
  /\ enrich = [i \in Syncs |-> NotEnriching]
  /\ analysis = [j \in Analyses |-> NotAnalyzing]
  /\ rewrite = NoRewrite
  /\ failed = {}
  /\ overlapped = FALSE
  /\ raced = {}
  /\ crowded = {}

-----------------------------------------------------------------------------
(***************************************************************************)
(* The fuzzer                                                              *)
(***************************************************************************)

\* The record of a crash reaches the log.
Log(a) ==
  /\ a \in Crashes \ logged
  /\ logged' = logged \cup {a}
  /\ UNCHANGED <<files, creator, sync, enrich, analysis, rewrite, history>>

-----------------------------------------------------------------------------
(***************************************************************************)
(* sync_artifacts()                                                        *)
(***************************************************************************)

\* Where an analyze_artifact() keeps the event loop: what it does next needs no await.
Running == {"classified", "reload", "linked", "back", "counted", "flagged"}
Awaiting == {"lldb", "linking", "tracking", "kernel"}

\* Any other coroutine goes on only if none is running.
LoopFree == \A j \in Analyses : analysis[j].pc \notin Running

\* The enrichment thread of a sync is queued or at work.
Enriching(i) == enrich[i].phase # "none" \/ enrich[i].todo # {}

\* Threads go on after the sync that started them has been cancelled or has failed.
Busy(i) == sync[i] # "none" \/ Enriching(i) \/ \E a \in Artifacts : creator[i][a] # "none"

Rewriting(i, a) == enrich[i].phase \in {"open", "write"} /\ enrich[i].at = a

Active(S, busy(_)) == Cardinality({x \in S : busy(x)})
Analyzing(j) == analysis[j].pc # "none"

Load == Active(Syncs, Busy) + Active(Analyses, Analyzing)

\* process() of every source runs up to its first await: which directories are
\* missing is decided here, before any is made.
StartSync(i) ==
  /\ LoopFree
  /\ ~Busy(i)
  /\ Load < MaxLoad
  /\ sync' = [sync EXCEPT ![i] = "creating"]
  /\ creator' = [creator EXCEPT ![i] =
       [a \in Artifacts |-> IF a \notin dir THEN "mkdir" ELSE "none"]]
  /\ overlapped' = (overlapped \/ \E k \in Syncs \ {i} : Busy(k))
  /\ UNCHANGED <<logged, files, enrich, analysis, rewrite, failed, raced, crowded>>

MakeDir(i, a) ==
  /\ creator[i][a] = "mkdir"
  /\ dir' = dir \cup {a}
  /\ creator' = [creator EXCEPT ![i][a] = "fill"]
  /\ UNCHANGED <<logged, meta, lldb, marker, sync, enrich, analysis, rewrite, history>>

\* The thread ends with an exception, which ends the gather; the other threads go on.
CreatorRaises(i, a) ==
  /\ creator' = [creator EXCEPT ![i][a] = "none"]
  /\ sync' = [sync EXCEPT ![i] = IF @ = "creating" THEN "none" ELSE @]

\* meta.json is opened before the link to the core is made.
FillMetaFirst(i, a) ==
  /\ creator[i][a] = "fill"
  /\ meta' = [meta EXCEPT ![a] = Blank("empty")]
  /\ \/ /\ a \in Cores
        /\ meta[a].state # "absent"
        /\ CreatorRaises(i, a)
     \/ /\ a \in Crashes \/ meta[a].state = "absent"
        /\ creator' = [creator EXCEPT ![i][a] = "write"]
        /\ UNCHANGED sync
  /\ UNCHANGED <<logged, dir, lldb, marker, enrich, analysis, rewrite, history>>

\* A core's link is made (symlink_to() raises if it exists) or a crash's input is
\* copied, then meta.json is opened.
Fill(i, a) ==
  /\ creator[i][a] = "fill"
  /\ \/ /\ a \in Cores
        /\ meta[a].state # "absent"
        /\ CreatorRaises(i, a)
        /\ UNCHANGED meta
     \/ /\ a \in Crashes \/ meta[a].state = "absent"
        /\ meta' = [meta EXCEPT ![a] = Blank("empty")]
        /\ creator' = [creator EXCEPT ![i][a] = "write"]
        /\ UNCHANGED sync
  /\ UNCHANGED <<logged, dir, lldb, marker, enrich, analysis, rewrite, history>>

WriteMeta(i, a) ==
  /\ creator[i][a] = "write"
  /\ \E new \in Written(meta[a], Created(a)) : meta' = [meta EXCEPT ![a] = new]
  /\ creator' = [creator EXCEPT ![i][a] = "none"]
  /\ UNCHANGED <<logged, dir, lldb, marker, sync, enrich, analysis, rewrite, history>>

\* A full disk, or a source that is gone when it is read.
CreationFails(i, a) ==
  /\ creator[i][a] # "none"
  /\ Cardinality(failed) < MaxFailures
  /\ CreatorRaises(i, a)
  /\ failed' = failed \cup {a}
  /\ UNCHANGED <<logged, files, enrich, analysis, rewrite, overlapped, raced, crowded>>

\* The gather is complete: a thread is to read the logs.
StartEnrich(i) ==
  /\ LoopFree
  /\ sync[i] = "creating"
  /\ \A a \in Artifacts : creator[i][a] = "none"
  /\ sync' = [sync EXCEPT ![i] = "enriching"]
  /\ enrich' = [enrich EXCEPT ![i].phase = "queued"]
  /\ UNCHANGED <<logged, files, creator, analysis, rewrite, history>>

\* The thread reads the logs.
EnrichBegins(i) ==
  /\ enrich[i].phase = "queued"
  /\ enrich' = [enrich EXCEPT ![i] = [NotEnriching EXCEPT !.todo = logged]]
  /\ UNCHANGED <<logged, files, creator, sync, analysis, rewrite, history>>

\* The event loop is writing what the stack of `a` has shown into its file.
Classifying(a) == \E j \in Analyses : analysis[j].pc = "classified" /\ analysis[j].at = a

\* A record that rewrites meta.json even if it changes nothing.
EnrichAlways(i, a) ==
  /\ a \in enrich[i].todo
  /\ enrich[i].phase = "none"
  /\ enrich' = [enrich EXCEPT ![i] =
       IF Readable(a)
       THEN [@ EXCEPT !.phase = "open", !.at = a, !.copy = [meta[a] EXCEPT !.pid = TRUE]]
       ELSE [@ EXCEPT !.todo = enrich[i].todo \ {a}]]
  /\ UNCHANGED <<logged, files, creator, sync, analysis, rewrite, history>>

\* The next record: a file that cannot be read, or that has these values, is skipped.
EnrichRead(i, a) ==
  /\ a \in enrich[i].todo
  /\ enrich[i].phase = "none"
  /\ LET changed == Readable(a) /\ ~meta[a].pid IN
       /\ enrich' = [enrich EXCEPT ![i] =
            IF changed
            THEN [@ EXCEPT !.phase = "open", !.at = a, !.copy = [meta[a] EXCEPT !.pid = TRUE]]
            ELSE [@ EXCEPT !.todo = enrich[i].todo \ {a}]]
       /\ raced' = IF changed /\ Classifying(a) THEN raced \cup {a} ELSE raced
  /\ UNCHANGED <<logged, files, creator, sync, analysis, rewrite, failed, overlapped, crowded>>

EnrichOpen(i) ==
  /\ enrich[i].phase = "open"
  /\ meta' = [meta EXCEPT ![enrich[i].at] = Blank("empty")]
  /\ enrich' = [enrich EXCEPT ![i].phase = "write"]
  /\ UNCHANGED <<logged, dir, lldb, marker, creator, sync, analysis, rewrite, history>>

EnrichWrite(i) ==
  /\ enrich[i].phase = "write"
  /\ LET a == enrich[i].at IN
       /\ \E new \in Written(meta[a], enrich[i].copy) : meta' = [meta EXCEPT ![a] = new]
       /\ enrich' = [enrich EXCEPT ![i] = [NotEnriching EXCEPT !.todo = enrich[i].todo \ {a}]]
  /\ UNCHANGED <<logged, dir, lldb, marker, creator, sync, analysis, rewrite, history>>

\* The thread raises, which ends a sync that still waits for it.
EnrichFails(i) ==
  /\ enrich[i].phase \in {"open", "write"}
  /\ Cardinality(failed) < MaxFailures
  /\ failed' = failed \cup {enrich[i].at}
  /\ enrich' = [enrich EXCEPT ![i] = NotEnriching]
  /\ sync' = [sync EXCEPT ![i] = "none"]
  /\ UNCHANGED <<logged, files, creator, analysis, rewrite, overlapped, raced, crowded>>

EndSync(i) ==
  /\ LoopFree
  /\ sync[i] = "enriching"
  /\ ~Enriching(i)
  /\ sync' = [sync EXCEPT ![i] = "none"]
  /\ UNCHANGED <<logged, files, creator, enrich, analysis, rewrite, history>>

\* The request is cancelled: what no thread has begun is dropped, the rest goes on.
CancelSync(i) ==
  /\ LoopFree
  /\ sync[i] # "none"
  /\ sync' = [sync EXCEPT ![i] = "none"]
  /\ \E dropped \in SUBSET {a \in Artifacts : creator[i][a] = "mkdir"} :
       creator' = [creator EXCEPT ![i] =
         [a \in Artifacts |-> IF a \in dropped THEN "none" ELSE creator[i][a]]]
  /\ \/ UNCHANGED enrich
     \/ /\ enrich[i].phase = "queued"
        /\ enrich' = [enrich EXCEPT ![i] = NotEnriching]
  /\ UNCHANGED <<logged, files, analysis, rewrite, history>>

-----------------------------------------------------------------------------
(***************************************************************************)
(* analyze_artifact()                                                      *)
(***************************************************************************)

\* It goes on to `pc`: an await, or the next thing it does.
Goto(j, a, pc, copy) ==
  analysis' = [analysis EXCEPT ![j] = [pc |-> pc, at |-> a, copy |-> copy]]

Return(j) == analysis' = [analysis EXCEPT ![j] = NotAnalyzing]

\* write_text() is called for the meta.json of `a`.
Rewrite(a, text) == rewrite' = [phase |-> "open", at |-> a, text |-> text]

\* From the return of lldb on: what its output shows goes into a copy of the file.
Classify(j, a, shown) ==
  \/ /\ shown
     /\ Readable(a)
     /\ Goto(j, a, "classified", Blank("absent"))
     /\ Rewrite(a, meta[a])
     /\ raced' = IF \E i \in Syncs : Rewriting(i, a) THEN raced \cup {a} ELSE raced
  \/ /\ shown
     /\ ~Readable(a)
     /\ Return(j)
     /\ UNCHANGED <<rewrite, raced>>
  \/ /\ ~shown
     /\ Goto(j, a, "reload", Blank("absent"))
     /\ UNCHANGED <<rewrite, raced>>

StartAnalysis(j, a) ==
  /\ LoopFree
  /\ ~Analyzing(j)
  /\ Load < MaxLoad
  /\ a \in dir \ marker
  /\ crowded' = IF \E k \in Analyses : analysis[k].at = a THEN crowded \cup {a} ELSE crowded
  /\ \/ /\ a \in lldb
        /\ Classify(j, a, TRUE)
     \/ /\ a \notin lldb
        /\ Readable(a)
        /\ Goto(j, a, "lldb", Blank("absent"))
        /\ UNCHANGED <<rewrite, raced>>
  /\ UNCHANGED <<logged, files, creator, sync, enrich, failed, overlapped>>

\* The LLDB VM exits, with or without having written lldb.txt: its exit code is not
\* looked at.
LldbEnds(j) ==
  /\ LoopFree
  /\ analysis[j].pc = "lldb"
  /\ \/ lldb' = lldb \cup {analysis[j].at}
     \/ UNCHANGED lldb
  /\ Classify(j, analysis[j].at, analysis[j].at \in lldb')
  /\ UNCHANGED <<logged, dir, meta, marker, creator, sync, enrich, failed, overlapped, crowded>>

\* The marker is written, the last thing an analysis does.
Mark(j) ==
  /\ marker' = marker \cup {analysis[j].at}
  /\ Return(j)

\* The marker is written as soon as the file has been read again.
ReloadAndMark(j) ==
  /\ analysis[j].pc = "reload"
  /\ marker' = marker \cup {analysis[j].at}
  /\ LET a == analysis[j].at IN
       IF Readable(a) /\ meta[a].pid
       THEN Goto(j, a, IF meta[a].link = NoArtifact THEN "linking" ELSE "tracking", meta[a])
       ELSE Return(j)
  /\ UNCHANGED <<logged, dir, meta, lldb, creator, sync, enrich, rewrite, history>>

\* The file is read again: an artifact whose process is known goes on to be linked, unless
\* it is, and tracked; the others are done.
Reload(j) ==
  /\ analysis[j].pc = "reload"
  /\ LET a == analysis[j].at IN
       \/ /\ ~Readable(a)
          /\ Return(j)
          /\ UNCHANGED marker
       \/ /\ Readable(a)
          /\ ~meta[a].pid
          /\ Mark(j)
       \/ /\ Readable(a)
          /\ meta[a].pid
          /\ IF meta[a].link = NoArtifact
             THEN Goto(j, a, "linking", meta[a])
             ELSE Goto(j, a, "tracking", Blank("absent"))
          /\ UNCHANGED marker
  /\ UNCHANGED <<logged, dir, meta, lldb, creator, sync, enrich, rewrite, history>>

Listed(a) == a \in dir /\ meta[a].state # "absent"

\* A counterpart that is known without its process being in its file.
CounterpartsUnread(a) ==
  {b \in Artifacts : /\ (b \in Cores) # (a \in Cores)
                     /\ Listed(b) /\ Readable(b)
                     /\ PidOf[b] = PidOf[a]}

Counterparts(a) ==
  {b \in Artifacts : /\ (b \in Cores) # (a \in Cores)
                     /\ Listed(b) /\ Readable(b) /\ meta[b].pid
                     /\ PidOf[b] = PidOf[a]}

\* The artifacts are listed and searched for a counterpart; a file that cannot be read
\* may come first.  Its own meta is the one that was read before the await, and the
\* counterpart's the one that was just read: both are written back from these copies.
Link(j) ==
  /\ LoopFree
  /\ analysis[j].pc = "linking"
  /\ LET a == analysis[j].at IN
       \/ /\ \E b \in Artifacts : Listed(b) /\ ~Readable(b)
          /\ Return(j)
          /\ UNCHANGED rewrite
       \/ \E b \in Counterparts(a) :
            /\ Rewrite(a, [analysis[j].copy EXCEPT !.link = b])
            /\ Goto(j, a, "linked", [meta[b] EXCEPT !.link = a])
       \/ /\ Counterparts(a) = {}
          /\ \A b \in Artifacts : Listed(b) => Readable(b)
          /\ Goto(j, a, "tracking", Blank("absent"))
          /\ UNCHANGED rewrite
  /\ UNCHANGED <<logged, files, creator, sync, enrich, history>>

\* The inputs of the process have been counted; reading meta.json again may fail.
Track(j) ==
  /\ LoopFree
  /\ analysis[j].pc = "tracking"
  /\ LET a == analysis[j].at IN
       \/ /\ a \in Tracked
          /\ ~Readable(a)
          /\ Return(j)
          /\ UNCHANGED rewrite
       \/ /\ a \in Tracked
          /\ Readable(a)
          /\ Rewrite(a, [meta[a] EXCEPT !.inputs = TRUE])
          /\ Goto(j, a, "counted", Blank("absent"))
       \/ /\ a \notin Tracked
          /\ Goto(j, a, "kernel", Blank("absent"))
          /\ UNCHANGED rewrite
  /\ UNCHANGED <<logged, files, creator, sync, enrich, history>>

\* The harness output is copied and the kernel log read.
Finish(j) ==
  /\ LoopFree
  /\ analysis[j].pc = "kernel"
  /\ LET a == analysis[j].at IN
       \/ /\ a \in OomKilled
          /\ ~Readable(a)
          /\ Return(j)
          /\ UNCHANGED <<rewrite, marker>>
       \/ /\ a \in OomKilled
          /\ Readable(a)
          /\ Rewrite(a, meta[a])
          /\ Goto(j, a, "flagged", Blank("absent"))
          /\ UNCHANGED marker
       \/ /\ a \notin OomKilled
          /\ Mark(j)
          /\ UNCHANGED rewrite
  /\ UNCHANGED <<logged, dir, meta, lldb, creator, sync, enrich, history>>

OpenFile ==
  /\ rewrite.phase = "open"
  /\ meta' = [meta EXCEPT ![rewrite.at] = Blank("empty")]
  /\ rewrite' = [rewrite EXCEPT !.phase = "write"]
  /\ UNCHANGED <<logged, dir, lldb, marker, creator, sync, enrich, analysis, history>>

\* The text is written, and the coroutine goes on.
WriteFile(j) ==
  /\ rewrite.phase = "write"
  /\ \E new \in Written(meta[rewrite.at], rewrite.text) :
       meta' = [meta EXCEPT ![rewrite.at] = new]
  /\ LET a == analysis[j].at IN
       \/ /\ analysis[j].pc = "classified"
          /\ Goto(j, a, "reload", Blank("absent"))
          /\ rewrite' = NoRewrite
          /\ UNCHANGED marker
       \/ /\ analysis[j].pc = "linked"
          /\ Goto(j, a, "back", Blank("absent"))
          /\ Rewrite(rewrite.text.link, analysis[j].copy)
          /\ UNCHANGED marker
       \/ /\ analysis[j].pc = "back"
          /\ Goto(j, a, "tracking", Blank("absent"))
          /\ rewrite' = NoRewrite
          /\ UNCHANGED marker
       \/ /\ analysis[j].pc = "counted"
          /\ Goto(j, a, "kernel", Blank("absent"))
          /\ rewrite' = NoRewrite
          /\ UNCHANGED marker
       \/ /\ analysis[j].pc = "flagged"
          /\ Mark(j)
          /\ rewrite' = NoRewrite
  /\ UNCHANGED <<logged, dir, lldb, creator, sync, enrich, history>>

\* A full disk when the file is opened or written: analyze_artifact() raises.
RewriteFails(j) ==
  /\ rewrite.phase # "none"
  /\ analysis[j].pc \in Running
  /\ Cardinality(failed) < MaxFailures
  /\ failed' = failed \cup {rewrite.at}
  /\ rewrite' = NoRewrite
  /\ Return(j)
  /\ UNCHANGED <<logged, files, creator, sync, enrich, overlapped, raced, crowded>>

\* The task is stopped while it awaits.
CancelAnalysis(j) ==
  /\ LoopFree
  /\ analysis[j].pc \in Awaiting
  /\ Return(j)
  /\ UNCHANGED <<logged, files, creator, sync, enrich, rewrite, history>>

-----------------------------------------------------------------------------
StoreNext ==
  \/ \E a \in Artifacts : Log(a)
  \/ \E i \in Syncs :
       \/ StartSync(i)
       \/ \E a \in Artifacts :
            \/ MakeDir(i, a)
            \/ Fill(i, a)
            \/ WriteMeta(i, a)
            \/ CreationFails(i, a)
            \/ EnrichRead(i, a)
       \/ StartEnrich(i)
       \/ EnrichBegins(i)
       \/ EnrichOpen(i)
       \/ EnrichWrite(i)
       \/ EnrichFails(i)
       \/ EndSync(i)
       \/ CancelSync(i)
  \/ \E j \in Analyses :
       \/ \E a \in Artifacts : StartAnalysis(j, a)
       \/ LldbEnds(j)
       \/ Reload(j)
       \/ Link(j)
       \/ Track(j)
       \/ Finish(j)
       \/ WriteFile(j)
       \/ RewriteFails(j)
       \/ CancelAnalysis(j)
  \/ OpenFile

StoreSpec == StoreInit /\ [][StoreNext]_storeVars

-----------------------------------------------------------------------------
(***************************************************************************)
(* Properties                                                              *)
(***************************************************************************)

\* Type correctness; an artifact that is marked or was run in lldb has its directory, the
\* enrichment thread works on one of its records, and one coroutine at most is running.
StoreTypeOK ==
  /\ logged \subseteq Crashes
  /\ dir \subseteq Artifacts
  /\ meta \in [Artifacts -> MetaFile]
  /\ lldb \subseteq dir
  /\ marker \subseteq dir
  /\ creator \in [Syncs -> [Artifacts -> {"none", "mkdir", "fill", "write"}]]
  /\ sync \in [Syncs -> {"none", "creating", "enriching"}]
  /\ \A i \in Syncs :
       /\ enrich[i].phase \in {"none", "queued", "open", "write"}
       /\ enrich[i].phase \in {"open", "write"} => enrich[i].at \in enrich[i].todo
       /\ enrich[i].phase = "queued" => sync[i] # "creating"
  /\ \A j \in Analyses :
       /\ analysis[j].pc \in {"none"} \cup Awaiting \cup Running
       /\ analysis[j].pc = "linking" => analysis[j].copy.pid
  /\ \A j, k \in Analyses : analysis[j].pc \in Running /\ analysis[k].pc \in Running => j = k
  /\ rewrite.phase # "none" => ~LoopFree /\ rewrite.at \in dir
  /\ failed \subseteq Artifacts /\ overlapped \in BOOLEAN
  /\ raced \subseteq Crashes /\ crowded \subseteq Artifacts

Writing(a) ==
  \/ \E i \in Syncs : \/ creator[i][a] \in {"fill", "write"}
                      \/ enrich[i].at = a /\ enrich[i].phase = "write"
  \/ rewrite.at = a /\ rewrite.phase = "write"

\* A directory without a usable meta.json, which later syncs skip and listings omit or
\* stumble on, is one that somebody is still filling: two syncs that create the same
\* artifact, a sync that is cancelled and any mixture of rewritings do not leave it half
\* made.  An I/O error does.
HalfMadeOnlyAfterFailure ==
  \A a \in dir \ failed : meta[a].state \in {"absent", "empty"} => Writing(a)

\* Which of the unlocked rewritings of meta.json can mix two versions in one file, and
\* break every later listing of the project: none of a core's; of a crash's, as long as
\* syncs come one at a time and leave no thread behind, only the classification of its
\* stack (analysis.py:379-382) while the enrichment thread has the file (:185-194).  The
\* links, the inputs and the OOM kill are written into the same files, and never are.
MixedOnlyWhenClassified ==
  \A a \in Artifacts : meta[a].state = "garbled" => a \in Crashes /\ (overlapped \/ a \in raced)

\* Sources of the same kind from one process: pids start over with each VM.
Twin(a) == \E b \in Artifacts \ {a} : (b \in Cores) = (a \in Cores) /\ PidOf[b] = PidOf[a]

\* As long as syncs come one at a time, a core and the crash it belongs to point at each
\* other whenever a coroutine may look, although each analysis writes both files from
\* copies of its own, one after the other; unless the second write has failed.
LinksAgree ==
  LoopFree /\ ~overlapped =>
    \A a \in Artifacts :
      LET b == meta[a].link IN
      b # NoArtifact /\ b \notin failed /\ ~Twin(a) /\ Readable(b) => meta[b].link = a

\* A core that counts as analyzed, and will be skipped from now on, has what its analysis
\* found, whatever the analyses of other artifacts, which write its meta.json too, and
\* the syncs do in the meantime; unless two coroutines analyzed it at once.
MarkedCoresAreComplete ==
  \A a \in (marker \cap Cores \cap Tracked) \ crowded : Readable(a) => meta[a].inputs

\* What sync_artifacts() promises: "Create artifact dirs for any new sources".  When a
\* sync has returned and none is under way, every source that has a directory is listed.
SyncedSourcesAreListed ==
  [][(\E i \in Syncs : EndSync(i)) /\ (\A i \in Syncs : sync'[i] = "none")
        => \A a \in dir : (\A i \in Syncs : creator[i][a] = "none") => Listed(a)]_storeVars
=============================================================================
