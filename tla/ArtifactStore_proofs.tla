------------------------ MODULE ArtifactStore_proofs ------------------------
(***************************************************************************)
(* TLAPS proofs about the artifacts/ directory, for any sources, tracks    *)
(* and logs, and any number of syncs and analyses at a time.               *)
(*                                                                         *)
(* Nothing locks a meta.json, so each proof says who may write it when.    *)
(* The parts of the invariant: what threads and coroutines hold while they *)
(* are suspended; what the running coroutine is rewriting; that a missing  *)
(* file is nobody's; that a file which is empty, or not there yet, has     *)
(* someone who will write it; that a core's file is made once and carries  *)
(* what the core's only analysis found; and, as long as syncs come one at  *)
(* a time, who else may have a file that a thread or the loop is writing,  *)
(* and that a link has its counterpart written or about to be.             *)
(***************************************************************************)
EXTENDS ArtifactStore, TLAPS

EnrichType == [todo : SUBSET Crashes, phase : {"none", "queued", "open", "write"},
               at : Artifacts \cup {NoArtifact}, copy : MetaFile]
AnalysisType == [pc : {"none"} \cup Awaiting \cup Running,
                 at : Artifacts \cup {NoArtifact}, copy : MetaFile]
RewriteType == [phase : {"none", "open", "write"}, at : Artifacts \cup {NoArtifact},
                text : MetaFile]
CreatorPhases == {"none", "mkdir", "fill", "write"}
SyncPhases == {"none", "creating", "enriching"}

StoreTyped ==
  /\ logged \subseteq Crashes
  /\ dir \subseteq Artifacts
  /\ meta \in [Artifacts -> MetaFile]
  /\ lldb \subseteq Artifacts
  /\ marker \subseteq Artifacts
  /\ creator \in [Syncs -> [Artifacts -> CreatorPhases]]
  /\ sync \in [Syncs -> SyncPhases]
  /\ enrich \in [Syncs -> EnrichType]
  /\ analysis \in [Analyses -> AnalysisType]
  /\ rewrite \in RewriteType
  /\ failed \subseteq Artifacts
  /\ overlapped \in BOOLEAN
  /\ raced \subseteq Crashes
  /\ crowded \subseteq Artifacts

\* What a thread holds between its steps, and in which order a sync goes on.
Threads ==
  \A i \in Syncs :
    /\ enrich[i].phase \in {"open", "write"} =>
         /\ enrich[i].at \in enrich[i].todo
         /\ enrich[i].copy.pid /\ enrich[i].copy.state = "json"
    /\ sync[i] = "creating" => ~Enriching(i)
    /\ sync[i] = "enriching" \/ Enriching(i) => \A a \in Artifacts : creator[i][a] = "none"

\* Two artifacts that may be linked.
Opposite(a, b) == b \in Artifacts /\ (b \in Cores) # (a \in Cores) /\ PidOf[b] = PidOf[a]

\* `b` is the counterpart whose file an analysis will write next.
Pending(j, b) == analysis[j].pc = "linked" /\ rewrite.text.link = b

\* What a coroutine holds, and what the one that is running is rewriting.
Turns ==
  /\ \A j \in Analyses :
       /\ analysis[j].pc = "none" <=> analysis[j].at = NoArtifact
       /\ analysis[j].pc = "linking" => analysis[j].copy.pid /\ analysis[j].copy.state = "json"
       /\ analysis[j].pc \in {"classified", "linked", "counted", "flagged"} =>
            rewrite.at = analysis[j].at
       /\ analysis[j].pc = "linked" =>
            /\ rewrite.text.pid
            /\ Opposite(analysis[j].at, rewrite.text.link)
            /\ analysis[j].copy.pid /\ analysis[j].copy.state = "json"
            /\ analysis[j].copy.link = analysis[j].at
       /\ analysis[j].pc = "back" =>
            /\ rewrite.text.pid
            /\ Opposite(rewrite.at, analysis[j].at) /\ rewrite.text.link = analysis[j].at
       /\ analysis[j].pc = "counted" => rewrite.text.inputs
  /\ \A j, k \in Analyses : analysis[j].pc \in Running /\ analysis[k].pc \in Running => j = k
  /\ IF rewrite.phase = "none"
     THEN /\ rewrite.at = NoArtifact
          /\ \A j \in Analyses : analysis[j].pc \notin Running \ {"reload"}
     ELSE /\ rewrite.at \in Artifacts /\ rewrite.text.state = "json"
          /\ \E j \in Analyses : analysis[j].pc \in Running \ {"reload"}

\* No coroutine works on it or is about to write it.
Free(a) ==
  /\ a \notin lldb \cup marker
  /\ rewrite.at # a
  /\ \A j \in Analyses : analysis[j].at # a /\ ~Pending(j, a)

\* A file that is not there yet has a creator at most.
AbsentIsFree ==
  \A a \in Artifacts :
    /\ a \notin dir => meta[a].state = "absent" /\ \A i \in Syncs : creator[i][a] \notin {"fill", "write"}
    /\ meta[a].state = "absent" =>
         /\ Free(a)
         /\ \A i \in Syncs : creator[i][a] # "write" /\ enrich[i].at # a

\* A directory whose file is not there yet, or is empty, has someone who will fill it.
SomeoneFills ==
  \A a \in dir \ failed :
    /\ meta[a].state = "absent" => \E i \in Syncs : creator[i][a] = "fill"
    /\ meta[a].state = "empty" =>
         \/ \E i \in Syncs : creator[i][a] = "write" \/ (enrich[i].at = a /\ enrich[i].phase = "write")
         \/ rewrite.at = a /\ rewrite.phase = "write"

\* A core's file is made once, before anybody can read it, names its process, and is
\* written by nobody but the event loop then.
CoreFiles ==
  \A a \in Cores :
    /\ meta[a].state # "garbled"
    /\ Readable(a) => meta[a].pid
    /\ rewrite.at = a => rewrite.text.pid /\ (rewrite.phase = "write" => meta[a].state = "empty")
    /\ \A i \in Syncs :
         creator[i][a] = "write" =>
           /\ meta[a].state = "empty" /\ Free(a)
           /\ \A k \in Syncs \ {i} : creator[k][a] # "write"

\* A core whose only analysis has counted its inputs, or is over.
Settled(a) ==
  /\ a \in (Cores \cap Tracked) \ crowded
  /\ a \in marker \/ \E j \in Analyses : analysis[j].pc \in {"kernel", "flagged"} /\ analysis[j].at = a

\* An artifact is analyzed by one coroutine, and by none once it is marked, unless it is
\* crowded; and the inputs that a core's analysis has found are in its file and in what
\* will be written into it.
AnalyzedOnce ==
  /\ \A j, k \in Analyses :
       j # k /\ analysis[j].at = analysis[k].at /\ analysis[j].at # NoArtifact => analysis[j].at \in crowded
  /\ \A a \in marker \ crowded : \A j \in Analyses : analysis[j].at # a
  /\ \A a \in Artifacts :
       Settled(a) => /\ Readable(a) => meta[a].inputs
                     /\ rewrite.at = a => rewrite.text.inputs
                     /\ \A j \in Analyses : Pending(j, a) => analysis[j].copy.inputs

\* The process of `a` is known to someone who works on it or will write its file.
Known(a) ==
  \/ rewrite.at = a /\ rewrite.text.pid
  \/ \E j \in Analyses :
       \/ Pending(j, a)
       \/ /\ analysis[j].at = a
          /\ analysis[j].pc \in {"linking", "linked", "back", "tracking", "counted", "kernel", "flagged"}

\* One sync at a time: what its threads write, nobody else writes or refers to, except
\* for the classification of a crash whose process is not known yet.
OneWriter ==
  /\ \A i, k \in Syncs : Busy(i) /\ Busy(k) => i = k
  /\ \A a \in Artifacts :
       /\ meta[a].state = "garbled" => a \in raced
       /\ Known(a) /\ Readable(a) => meta[a].pid
       /\ rewrite.at = a /\ ~rewrite.text.pid => ~Known(a)
  /\ \A i \in Syncs : \A a \in Artifacts :
       /\ creator[i][a] \in {"mkdir", "fill"} => meta[a].state = "absent"
       /\ creator[i][a] = "write" => meta[a].state = "empty" /\ Free(a)
       /\ Rewriting(i, a) =>
            /\ ~meta[a].pid /\ ~Known(a) /\ enrich[i].copy.link = NoArtifact
            /\ enrich[i].phase = "write" => meta[a].state = "empty" \/ a \in raced
            /\ rewrite.at = a => a \in raced
  /\ rewrite.phase = "write" =>
       \/ meta[rewrite.at].state = "empty"
       \/ rewrite.at \in raced /\ ~rewrite.text.pid

\* The file of `b` has a link, or is about to get one, or could not be written.
HasLink(b) ==
  b \in failed \/ meta[b].link # NoArtifact \/ (rewrite.at = b /\ rewrite.text.link # NoArtifact)

\* A link that `a` has, in its file or in a copy.
Sound(a, copy) ==
  copy.link # NoArtifact => Opposite(a, copy.link) /\ copy.state = "json" /\ copy.pid

\* What is linked has its process known, and its counterpart is linked too or about to be.
LinksHold ==
  /\ \A a \in Artifacts :
       /\ Sound(a, meta[a])
       /\ meta[a].link # NoArtifact => HasLink(meta[a].link)
       /\ rewrite.at = a =>
            /\ Sound(a, rewrite.text)
            /\ meta[a].link # NoArtifact => rewrite.phase = "open" /\ rewrite.text.link # NoArtifact
            /\ rewrite.text.link # NoArtifact =>
                 HasLink(rewrite.text.link) \/ \E j \in Analyses : analysis[j].pc = "linked"

StoreInv ==
  /\ StoreTyped
  /\ Threads
  /\ Turns
  /\ AbsentIsFree
  /\ SomeoneFills
  /\ CoreFiles
  /\ AnalyzedOnce
  /\ ~overlapped => OneWriter /\ LinksHold

-----------------------------------------------------------------------------
(***************************************************************************)
(* The model's records and updates                                         *)
(***************************************************************************)

LEMMA BlankFacts ==
  ASSUME NEW s \in MetaStates
  PROVE  /\ Blank(s) \in MetaFile
         /\ Blank(s).state = s
         /\ ~Blank(s).pid /\ ~Blank(s).inputs
         /\ Blank(s).link = NoArtifact
BY DEF Blank, MetaFile

\* A file that is closed holds what was written, or a mixture if it was not empty.
LEMMA WrittenFacts ==
  ASSUME NEW old \in MetaFile, NEW new \in MetaFile, NEW v \in Written(old, new)
  PROVE  /\ v \in MetaFile
         /\ v = new \/ (v.state = "garbled" /\ ~v.pid /\ v.link = NoArtifact)
         /\ old.state = "empty" => v = new
<1>1. "garbled" \in MetaStates
  BY DEF MetaStates
<1>2. /\ Blank("garbled") \in MetaFile
      /\ Blank("garbled").state = "garbled"
      /\ ~Blank("garbled").pid
      /\ Blank("garbled").link = NoArtifact
  BY <1>1, BlankFacts
<1>3. QED
  BY <1>2 DEF Written

LEMMA CreatedFacts ==
  ASSUME NEW a \in Artifacts
  PROVE  /\ Created(a) \in MetaFile
         /\ Created(a).state = "json"
         /\ Created(a).pid = (a \in Cores)
         /\ Created(a).link = NoArtifact
<1>1. "json" \in MetaStates
  BY DEF MetaStates
<1>2. Blank("json") \in MetaFile /\ Blank("json").state = "json" /\ Blank("json").link = NoArtifact
  BY <1>1, BlankFacts
<1>3. ASSUME NEW p \in BOOLEAN, Created(a) = [Blank("json") EXCEPT !.pid = p]
      PROVE  /\ Created(a) \in MetaFile
             /\ Created(a).state = "json" /\ Created(a).pid = p /\ Created(a).link = NoArtifact
  BY <1>2, <1>3 DEF MetaFile
<1>4. (a \in Cores) \in BOOLEAN
  OBVIOUS
<1>5. Created(a) = [Blank("json") EXCEPT !.pid = a \in Cores]
  BY Zenon DEF Created
<1>6. QED
  BY <1>3, <1>4, <1>5, Zenon

LEMMA MetaUpdate ==
  ASSUME meta \in [Artifacts -> MetaFile], NEW a \in Artifacts, NEW v \in MetaFile,
         meta' = [meta EXCEPT ![a] = v]
  PROVE  /\ meta' \in [Artifacts -> MetaFile]
         /\ meta'[a] = v
         /\ \A b \in Artifacts \ {a} : meta'[b] = meta[b]
OBVIOUS

LEMMA CreatorUpdate ==
  ASSUME creator \in [Syncs -> [Artifacts -> CreatorPhases]],
         NEW i \in Syncs, NEW a \in Artifacts, NEW v \in CreatorPhases,
         creator' = [creator EXCEPT ![i][a] = v]
  PROVE  /\ creator' \in [Syncs -> [Artifacts -> CreatorPhases]]
         /\ creator'[i][a] = v
         /\ \A k \in Syncs : \A b \in Artifacts : k # i \/ b # a => creator'[k][b] = creator[k][b]
OBVIOUS

LEMMA SyncUpdate ==
  ASSUME sync \in [Syncs -> SyncPhases], NEW i \in Syncs, NEW v \in SyncPhases,
         sync' = [sync EXCEPT ![i] = v]
  PROVE  /\ sync' \in [Syncs -> SyncPhases]
         /\ sync'[i] = v
         /\ \A k \in Syncs \ {i} : sync'[k] = sync[k]
OBVIOUS

LEMMA EnrichUpdate ==
  ASSUME enrich \in [Syncs -> EnrichType], NEW i \in Syncs, NEW v \in EnrichType,
         enrich' = [enrich EXCEPT ![i] = v]
  PROVE  /\ enrich' \in [Syncs -> EnrichType]
         /\ enrich'[i] = v
         /\ \A k \in Syncs \ {i} : enrich'[k] = enrich[k]
OBVIOUS

LEMMA NotEnrichingFacts ==
  /\ NotEnriching \in EnrichType
  /\ NotEnriching.phase = "none" /\ NotEnriching.todo = {} /\ NotEnriching.at = NoArtifact
  /\ \A S \in SUBSET Crashes :
       LET e == [NotEnriching EXCEPT !.todo = S] IN
       e \in EnrichType /\ e.phase = "none" /\ e.todo = S /\ e.at = NoArtifact
<1>1. Blank("absent") \in MetaFile
  BY BlankFacts DEF MetaStates
<1>2. QED
  BY <1>1 DEF NotEnriching, EnrichType

LEMMA AnalysisUpdate ==
  ASSUME analysis \in [Analyses -> AnalysisType], NEW j \in Analyses, NEW v \in AnalysisType,
         analysis' = [analysis EXCEPT ![j] = v]
  PROVE  /\ analysis' \in [Analyses -> AnalysisType]
         /\ analysis'[j] = v
         /\ \A k \in Analyses \ {j} : analysis'[k] = analysis[k]
OBVIOUS

\* A coroutine that goes on, and one that is done.
LEMMA GotoFacts ==
  ASSUME analysis \in [Analyses -> AnalysisType], NEW j \in Analyses, NEW a \in Artifacts,
         NEW pc \in Awaiting \cup Running, NEW copy \in MetaFile,
         Goto(j, a, pc, copy)
  PROVE  /\ analysis' \in [Analyses -> AnalysisType]
         /\ analysis'[j].pc = pc /\ analysis'[j].at = a /\ analysis'[j].copy = copy
         /\ \A k \in Analyses \ {j} : analysis'[k] = analysis[k]
<1> DEFINE v == [pc |-> pc, at |-> a, copy |-> copy]
<1>1. v \in AnalysisType
  BY DEF AnalysisType
<1>2. analysis' = [analysis EXCEPT ![j] = v]
  BY DEF Goto
<1>3. QED
  BY <1>1, <1>2, AnalysisUpdate

LEMMA ReturnFacts ==
  ASSUME analysis \in [Analyses -> AnalysisType], NEW j \in Analyses, Return(j)
  PROVE  /\ analysis' \in [Analyses -> AnalysisType]
         /\ analysis'[j].pc = "none" /\ analysis'[j].at = NoArtifact
         /\ \A k \in Analyses \ {j} : analysis'[k] = analysis[k]
<1>1. Blank("absent") \in MetaFile
  BY BlankFacts DEF MetaStates
<1>2. NotAnalyzing \in AnalysisType /\ NotAnalyzing.pc = "none" /\ NotAnalyzing.at = NoArtifact
  BY <1>1 DEF NotAnalyzing, AnalysisType
<1>3. QED
  BY <1>2, AnalysisUpdate DEF Return

LEMMA NoRewriteFacts ==
  NoRewrite \in RewriteType /\ NoRewrite.phase = "none" /\ NoRewrite.at = NoArtifact
<1>1. Blank("absent") \in MetaFile
  BY BlankFacts DEF MetaStates
<1>2. QED
  BY <1>1 DEF NoRewrite, RewriteType

LEMMA RewriteFacts ==
  ASSUME NEW a \in Artifacts, NEW text \in MetaFile, Rewrite(a, text)
  PROVE  rewrite' \in RewriteType /\ rewrite'.phase = "open" /\ rewrite'.at = a /\ rewrite'.text = text
BY DEF Rewrite, RewriteType

-----------------------------------------------------------------------------
(***************************************************************************)
(* The threads of a sync                                                   *)
(***************************************************************************)

\* The parts of the invariant that speak of the event loop and of the files only.
LEMMA LoopUntouched ==
  ASSUME StoreInv, UNCHANGED <<meta, lldb, marker, analysis, rewrite, crowded>>,
         failed \subseteq failed'
  PROVE  /\ Turns' /\ AnalyzedOnce'
         /\ \A a \in Artifacts : (Free(a)' <=> Free(a)) /\ (Known(a)' <=> Known(a))
         /\ LinksHold => LinksHold'
<1>1. Turns'
  BY DEF StoreInv, Turns, Opposite
<1>2. AnalyzedOnce'
  BY DEF StoreInv, AnalyzedOnce, Settled, Readable, Pending
<1>3. \A a \in Artifacts : (Free(a)' <=> Free(a)) /\ (Known(a)' <=> Known(a))
  BY DEF Free, Known, Pending
<1>4. LinksHold => LinksHold'
  BY DEF LinksHold, Sound, HasLink, Opposite
<1>5. QED
  BY <1>1, <1>2, <1>3, <1>4

\* While syncs come one at a time, only the busy one has threads.
LEMMA OnlyOneSync ==
  ASSUME StoreTyped, OneWriter, NEW i \in Syncs, Busy(i), NEW k \in Syncs \ {i}
  PROVE  /\ sync[k] = "none"
         /\ \A a \in Artifacts : creator[k][a] = "none"
         /\ enrich[k].phase = "none" /\ enrich[k].todo = {}
<1>1. ~Busy(k)
  BY DEF OneWriter
<1>2. QED
  BY <1>1 DEF Busy, Enriching

LEMMA LogKeeps ==
  ASSUME StoreInv, NEW a \in Artifacts, Log(a)
  PROVE  StoreInv'
<1> USE DEF StoreInv
<1>1. /\ logged' = logged \cup {a} /\ a \in Crashes
      /\ UNCHANGED <<dir, meta, lldb, marker, creator, sync, enrich, analysis, rewrite,
                     failed, overlapped, raced, crowded>>
  BY DEF Log, files, history
<1>2. StoreTyped' /\ Threads' /\ SomeoneFills'
  BY <1>1 DEF StoreTyped, Threads, Enriching, SomeoneFills
<1>3. /\ Turns' /\ AnalyzedOnce' /\ (LinksHold => LinksHold')
      /\ \A b \in Artifacts : (Free(b)' <=> Free(b)) /\ (Known(b)' <=> Known(b))
  BY <1>1, LoopUntouched
<1>4. AbsentIsFree' /\ CoreFiles'
  BY <1>1, <1>3 DEF AbsentIsFree, CoreFiles, Readable, Artifacts
<1>5. OneWriter => OneWriter'
  BY <1>1, <1>3 DEF OneWriter, Busy, Enriching, Readable, Rewriting
<1>6. QED
  BY <1>1, <1>2, <1>3, <1>4, <1>5

LEMMA StartSyncKeeps ==
  ASSUME StoreInv, NEW i \in Syncs, StartSync(i)
  PROVE  StoreInv'
<1> USE DEF StoreInv
<1>1. /\ ~Busy(i)
      /\ sync' = [sync EXCEPT ![i] = "creating"]
      /\ overlapped' = (overlapped \/ \E k \in Syncs \ {i} : Busy(k))
      /\ UNCHANGED <<logged, dir, meta, lldb, marker, enrich, analysis, rewrite, failed, raced, crowded>>
  BY DEF StartSync, files
<1>2. /\ creator' \in [Syncs -> [Artifacts -> CreatorPhases]]
      /\ \A a \in Artifacts : \/ creator'[i][a] = "mkdir" /\ a \notin dir
                              \/ creator'[i][a] = "none"
      /\ \A k \in Syncs \ {i} : creator'[k] = creator[k]
  BY DEF StartSync, StoreTyped, CreatorPhases
<1>3. /\ sync' \in [Syncs -> SyncPhases] /\ sync'[i] = "creating"
      /\ \A k \in Syncs \ {i} : sync'[k] = sync[k]
  BY <1>1, SyncUpdate DEF StoreTyped, SyncPhases
<1>4. overlapped' \in BOOLEAN
  BY <1>1 DEF StoreTyped
<1>5. StoreTyped'
  BY <1>1, <1>2, <1>3, <1>4 DEF StoreTyped
<1>6. /\ ~Enriching(i) /\ sync[i] = "none"
      /\ \A a \in Artifacts : creator[i][a] = "none"
  BY <1>1 DEF Busy
<1>7. Threads'
  BY <1>1, <1>2, <1>3, <1>6 DEF Threads, Enriching
<1>8. /\ Turns' /\ AnalyzedOnce' /\ (LinksHold => LinksHold')
      /\ \A b \in Artifacts : (Free(b)' <=> Free(b)) /\ (Known(b)' <=> Known(b))
  BY <1>1, LoopUntouched
<1>9. AbsentIsFree'
  BY <1>1, <1>2, <1>8 DEF AbsentIsFree
<1>10. \A k \in Syncs : \A a \in Artifacts :
         /\ creator'[k][a] \in {"fill", "write"} => creator[k][a] = creator'[k][a]
         /\ creator[k][a] \in {"fill", "write"} => creator[k][a] = creator'[k][a]
  BY <1>2, <1>6
<1>11. SomeoneFills'
  <2>1. dir \subseteq Artifacts
    BY DEF StoreTyped
  <2>2. QED
    BY <1>1, <1>10, <2>1 DEF SomeoneFills
<1>12. CoreFiles'
  BY <1>1, <1>8, <1>10 DEF CoreFiles, Readable, Artifacts
<1>13. ASSUME ~overlapped'
       PROVE  OneWriter' /\ LinksHold'
  <2>1. ~overlapped /\ OneWriter /\ \A k \in Syncs \ {i} : ~Busy(k)
    BY <1>1, <1>13
  <2>2. \A k \in Syncs \ {i} : ~Busy(k)'
    BY <1>1, <1>2, <1>3, <2>1 DEF Busy, Enriching
  <2>3. \A a \in Artifacts : a \notin dir => meta[a].state = "absent"
    BY DEF AbsentIsFree
  <2>4. \A k \in Syncs : \A a \in Artifacts :
          /\ creator'[k][a] \in {"mkdir", "fill"} => meta[a].state = "absent"
          /\ creator'[k][a] = "write" => meta[a].state = "empty" /\ Free(a)
    <3>1. \A k \in Syncs \ {i} : \A a \in Artifacts : creator[k][a] = "none"
      BY <2>1 DEF Busy
    <3>2. QED
      BY <1>2, <2>3, <3>1
  <2>5. \A k \in Syncs : \A a \in Artifacts : Rewriting(k, a)' <=> Rewriting(k, a)
    BY <1>1 DEF Rewriting
  <2>6. OneWriter'
    BY <1>1, <1>8, <2>1, <2>2, <2>4, <2>5 DEF OneWriter, Readable
  <2>7. QED
    BY <1>8, <2>1, <2>6
<1>14. QED
  BY <1>5, <1>7, <1>8, <1>9, <1>11, <1>12, <1>13

\* Steps of syncs and threads that touch no file: nobody's claims on the files change.
LEMMA ThreadStep ==
  ASSUME StoreInv, NEW i \in Syncs,
         UNCHANGED <<dir, meta, lldb, marker, analysis, rewrite, overlapped, raced, crowded>>,
         StoreTyped', Threads', failed \subseteq failed',
         Busy(i)' => Busy(i),
         \A k \in Syncs \ {i} : /\ sync'[k] = sync[k] /\ enrich'[k] = enrich[k]
                                /\ \A a \in Artifacts : creator'[k][a] = creator[k][a],
         \A a \in Artifacts : creator'[i][a] \in {creator[i][a], "none"},
         \A a \in Artifacts :
           creator'[i][a] # creator[i][a] =>
             a \in failed' \/ creator[i][a] = "mkdir" \/ (creator[i][a] = "fill" /\ meta[a].state # "absent"),
         enrich'[i].at \in {enrich[i].at, NoArtifact},
         enrich'[i].phase \in {"open", "write"} => enrich'[i] = enrich[i],
         enrich[i].phase = "write" => enrich'[i] = enrich[i] \/ enrich[i].at \in failed'
  PROVE  StoreInv'
<1> USE DEF StoreInv
<1>1. /\ Turns' /\ AnalyzedOnce' /\ (LinksHold => LinksHold')
      /\ \A b \in Artifacts : (Free(b)' <=> Free(b)) /\ (Known(b)' <=> Known(b))
  BY LoopUntouched
<1>2. \A k \in Syncs : \A a \in Artifacts :
        /\ creator'[k][a] \in {creator[k][a], "none"}
        /\ enrich'[k].at = a => enrich[k].at = a
  BY StoreAssumption
<1>3. AbsentIsFree'
  BY <1>1, <1>2 DEF AbsentIsFree
<1>4. SomeoneFills'
  <2>1. ASSUME NEW a \in dir \ failed'
        PROVE  /\ meta[a].state = "absent" => \E k \in Syncs : creator'[k][a] = "fill"
               /\ meta[a].state = "empty" =>
                    \/ \E k \in Syncs : \/ creator'[k][a] = "write"
                                        \/ enrich'[k].at = a /\ enrich'[k].phase = "write"
                    \/ rewrite.at = a /\ rewrite.phase = "write"
    <3>1. a \in dir \ failed /\ a \in Artifacts
      BY <2>1 DEF StoreTyped
    <3>2. \A k \in Syncs : creator[k][a] = "fill" /\ meta[a].state = "absent" => creator'[k][a] = "fill"
      BY <2>1, <3>1
    <3>3. \A k \in Syncs : creator[k][a] = "write" => creator'[k][a] = "write"
      BY <2>1, <3>1
    <3>4. \A k \in Syncs : enrich[k].at = a /\ enrich[k].phase = "write" => enrich'[k] = enrich[k]
      BY <2>1
    <3>5. QED
      BY <3>1, <3>2, <3>3, <3>4 DEF SomeoneFills
  <2>2. QED
    BY <2>1 DEF SomeoneFills
<1>5. CoreFiles'
  BY <1>1, <1>2 DEF CoreFiles, Readable, Artifacts
<1>6. ASSUME ~overlapped
      PROVE  OneWriter'
  <2>1. OneWriter
    BY <1>6
  <2>2. \A k \in Syncs : Busy(k)' => Busy(k)
    BY DEF Busy, Enriching
  <2>3. \A k \in Syncs : \A a \in Artifacts : Rewriting(k, a)' => Rewriting(k, a) /\ enrich'[k] = enrich[k]
    BY DEF Rewriting
  <2>4. \A k \in Syncs : \A a \in Artifacts : creator'[k][a] \in {"mkdir", "fill", "write"} => creator'[k][a] = creator[k][a]
    BY <1>2
  <2>5. QED
    BY <1>1, <2>1, <2>2, <2>3, <2>4 DEF OneWriter, Readable
<1>7. QED
  BY <1>1, <1>3, <1>4, <1>5, <1>6

\* What a thread that ends with an exception leaves behind.
LEMMA RaiseFacts ==
  ASSUME StoreTyped, NEW i \in Syncs, NEW a \in Artifacts, CreatorRaises(i, a)
  PROVE  /\ creator' \in [Syncs -> [Artifacts -> CreatorPhases]]
         /\ creator'[i][a] = "none"
         /\ \A k \in Syncs : \A b \in Artifacts : k # i \/ b # a => creator'[k][b] = creator[k][b]
         /\ sync' \in [Syncs -> SyncPhases]
         /\ sync'[i] = IF sync[i] = "creating" THEN "none" ELSE sync[i]
         /\ \A k \in Syncs \ {i} : sync'[k] = sync[k]
<1>1. creator' = [creator EXCEPT ![i][a] = "none"] /\ "none" \in CreatorPhases
  BY DEF CreatorRaises, CreatorPhases
<1>2. /\ creator' \in [Syncs -> [Artifacts -> CreatorPhases]]
      /\ creator'[i][a] = "none"
      /\ \A k \in Syncs : \A b \in Artifacts : k # i \/ b # a => creator'[k][b] = creator[k][b]
  BY <1>1, CreatorUpdate DEF StoreTyped
<1>3. /\ sync' \in [Syncs -> SyncPhases]
      /\ sync'[i] = IF sync[i] = "creating" THEN "none" ELSE sync[i]
      /\ \A k \in Syncs \ {i} : sync'[k] = sync[k]
  BY DEF CreatorRaises, StoreTyped, SyncPhases
<1>4. QED
  BY <1>2, <1>3

\* A thread that raises, whether or not that counts as a failure: nobody waits for it.
LEMMA RaiseKeeps ==
  ASSUME StoreInv, NEW i \in Syncs, NEW a \in Artifacts, CreatorRaises(i, a),
         creator[i][a] # "none",
         failed' = failed \cup {a} \/ (failed' = failed /\ creator[i][a] = "fill" /\ meta[a].state # "absent"),
         UNCHANGED <<logged, files, enrich, analysis, rewrite, overlapped, raced, crowded>>
  PROVE  StoreInv'
<1> USE DEF StoreInv
<1>1. UNCHANGED <<logged, dir, meta, lldb, marker, enrich, analysis, rewrite, overlapped, raced, crowded>>
  BY DEF files
<1>2. /\ creator' \in [Syncs -> [Artifacts -> CreatorPhases]]
      /\ creator'[i][a] = "none"
      /\ \A k \in Syncs : \A b \in Artifacts : k # i \/ b # a => creator'[k][b] = creator[k][b]
      /\ sync' \in [Syncs -> SyncPhases]
      /\ sync'[i] = IF sync[i] = "creating" THEN "none" ELSE sync[i]
      /\ \A k \in Syncs \ {i} : sync'[k] = sync[k]
  BY RaiseFacts
<1>3. failed' \subseteq Artifacts /\ failed \subseteq failed'
  BY DEF StoreTyped
<1>4. StoreTyped'
  BY <1>1, <1>2, <1>3 DEF StoreTyped
<1>5. Threads'
  BY <1>1, <1>2 DEF Threads, Enriching
<1>6. Busy(i)' => Busy(i)
  BY DEF Busy
<1>7. \A b \in Artifacts : creator'[i][b] \in {creator[i][b], "none"} /\ (creator'[i][b] # creator[i][b] => b = a)
  BY <1>2
<1>8. QED
  BY <1>1, <1>2, <1>3, <1>4, <1>5, <1>6, <1>7, ThreadStep

LEMMA CreationFailsKeeps ==
  ASSUME StoreInv, NEW i \in Syncs, NEW a \in Artifacts, CreationFails(i, a)
  PROVE  StoreInv'
BY RaiseKeeps DEF CreationFails

LEMMA EnrichFailsKeeps ==
  ASSUME StoreInv, NEW i \in Syncs, EnrichFails(i)
  PROVE  StoreInv'
<1> USE DEF StoreInv
<1>1. /\ enrich[i].phase \in {"open", "write"}
      /\ failed' = failed \cup {enrich[i].at}
      /\ UNCHANGED <<logged, dir, meta, lldb, marker, creator, analysis, rewrite, overlapped, raced, crowded>>
  BY DEF EnrichFails, files
<1>2. /\ enrich' \in [Syncs -> EnrichType] /\ enrich'[i] = NotEnriching
      /\ \A k \in Syncs \ {i} : enrich'[k] = enrich[k]
  BY NotEnrichingFacts, EnrichUpdate DEF EnrichFails, StoreTyped
<1>3. /\ sync' \in [Syncs -> SyncPhases] /\ sync'[i] = "none"
      /\ \A k \in Syncs \ {i} : sync'[k] = sync[k]
  BY SyncUpdate DEF EnrichFails, StoreTyped, SyncPhases
<1>4. enrich[i].at \in Artifacts
  BY <1>1 DEF Threads, StoreTyped, EnrichType, Artifacts
<1>5. StoreTyped'
  BY <1>1, <1>2, <1>3, <1>4 DEF StoreTyped
<1>6. Threads'
  BY <1>1, <1>2, <1>3, NotEnrichingFacts DEF Threads, Enriching
<1>7. Busy(i)
  BY <1>1 DEF Busy, Enriching
<1>8. QED
  BY <1>1, <1>2, <1>3, <1>5, <1>6, <1>7, NotEnrichingFacts, ThreadStep

LEMMA CancelSyncKeeps ==
  ASSUME StoreInv, NEW i \in Syncs, CancelSync(i)
  PROVE  StoreInv'
<1> USE DEF StoreInv
<1>1. /\ sync[i] # "none" /\ sync' = [sync EXCEPT ![i] = "none"]
      /\ UNCHANGED <<logged, dir, meta, lldb, marker, analysis, rewrite, failed, overlapped, raced, crowded>>
  BY DEF CancelSync, files, history
<1>2. PICK dropped \in SUBSET {a \in Artifacts : creator[i][a] = "mkdir"} :
        creator' = [creator EXCEPT ![i] = [a \in Artifacts |-> IF a \in dropped THEN "none" ELSE creator[i][a]]]
  BY DEF CancelSync
<1>3. /\ creator' \in [Syncs -> [Artifacts -> CreatorPhases]]
      /\ \A a \in Artifacts : /\ creator'[i][a] \in {creator[i][a], "none"}
                              /\ creator'[i][a] # creator[i][a] => creator[i][a] = "mkdir"
      /\ \A k \in Syncs \ {i} : creator'[k] = creator[k]
  BY <1>2 DEF StoreTyped, CreatorPhases
<1>4. /\ sync' \in [Syncs -> SyncPhases] /\ sync'[i] = "none"
      /\ \A k \in Syncs \ {i} : sync'[k] = sync[k]
  BY <1>1, SyncUpdate DEF StoreTyped, SyncPhases
<1>5. /\ enrich' \in [Syncs -> EnrichType]
      /\ \/ enrich'[i] = enrich[i]
         \/ enrich[i].phase = "queued" /\ enrich'[i] = NotEnriching
      /\ \A k \in Syncs \ {i} : enrich'[k] = enrich[k]
  BY NotEnrichingFacts, EnrichUpdate DEF CancelSync, StoreTyped
<1>6. StoreTyped'
  BY <1>1, <1>3, <1>4, <1>5 DEF StoreTyped
<1>7. Threads'
  BY <1>1, <1>3, <1>4, <1>5, NotEnrichingFacts DEF Threads, Enriching
<1>8. Busy(i)
  BY <1>1 DEF Busy
<1>9. QED
  BY <1>1, <1>3, <1>4, <1>5, <1>6, <1>7, <1>8, NotEnrichingFacts, ThreadStep

LEMMA EndSyncKeeps ==
  ASSUME StoreInv, NEW i \in Syncs, EndSync(i)
  PROVE  StoreInv'
<1> USE DEF StoreInv
<1>1. /\ sync[i] = "enriching" /\ sync' = [sync EXCEPT ![i] = "none"]
      /\ UNCHANGED <<logged, dir, meta, lldb, marker, creator, enrich, analysis, rewrite,
                     failed, overlapped, raced, crowded>>
  BY DEF EndSync, files, history
<1>2. /\ sync' \in [Syncs -> SyncPhases] /\ sync'[i] = "none"
      /\ \A k \in Syncs \ {i} : sync'[k] = sync[k]
  BY <1>1, SyncUpdate DEF StoreTyped, SyncPhases
<1>3. StoreTyped'
  BY <1>1, <1>2 DEF StoreTyped
<1>4. Threads'
  BY <1>1, <1>2 DEF Threads, Enriching
<1>5. Busy(i)
  BY <1>1 DEF Busy
<1>6. QED
  BY <1>1, <1>2, <1>3, <1>4, <1>5, ThreadStep

LEMMA StartEnrichKeeps ==
  ASSUME StoreInv, NEW i \in Syncs, StartEnrich(i)
  PROVE  StoreInv'
<1> USE DEF StoreInv
<1>1. /\ sync[i] = "creating" /\ \A a \in Artifacts : creator[i][a] = "none"
      /\ sync' = [sync EXCEPT ![i] = "enriching"]
      /\ UNCHANGED <<logged, dir, meta, lldb, marker, creator, analysis, rewrite,
                     failed, overlapped, raced, crowded>>
  BY DEF StartEnrich, files, history
<1>2. /\ sync' \in [Syncs -> SyncPhases] /\ sync'[i] = "enriching"
      /\ \A k \in Syncs \ {i} : sync'[k] = sync[k]
  BY <1>1, SyncUpdate DEF StoreTyped, SyncPhases
<1> DEFINE e == [enrich[i] EXCEPT !.phase = "queued"]
<1>3. enrich[i] \in EnrichType /\ enrich[i].todo = {} /\ enrich[i].phase = "none"
  BY <1>1 DEF Threads, Enriching, StoreTyped
<1>4. e \in EnrichType /\ e.phase = "queued" /\ e.at = enrich[i].at
  BY <1>3 DEF EnrichType
<1>5. /\ enrich' \in [Syncs -> EnrichType]
      /\ enrich'[i] = e
      /\ \A k \in Syncs \ {i} : enrich'[k] = enrich[k]
  <2>1. enrich' = [enrich EXCEPT ![i] = e]
    BY DEF StartEnrich
  <2> HIDE DEF e
  <2>2. QED
    BY <1>4, <2>1, EnrichUpdate DEF StoreTyped
<1> HIDE DEF e
<1>6. StoreTyped'
  BY <1>1, <1>2, <1>5 DEF StoreTyped
<1>7. Threads'
  BY <1>1, <1>2, <1>4, <1>5 DEF Threads, Enriching
<1>8. Busy(i)
  BY <1>1 DEF Busy
<1>9. QED
  BY <1>1, <1>2, <1>3, <1>4, <1>5, <1>6, <1>7, <1>8, ThreadStep

LEMMA EnrichBeginsKeeps ==
  ASSUME StoreInv, NEW i \in Syncs, EnrichBegins(i)
  PROVE  StoreInv'
<1> USE DEF StoreInv
<1>1. /\ enrich[i].phase = "queued"
      /\ UNCHANGED <<logged, dir, meta, lldb, marker, creator, sync, analysis, rewrite,
                     failed, overlapped, raced, crowded>>
  BY DEF EnrichBegins, files, history
<1> DEFINE e == [NotEnriching EXCEPT !.todo = logged]
<1>2. e \in EnrichType /\ e.phase = "none" /\ e.at = NoArtifact
  BY NotEnrichingFacts DEF StoreTyped
<1>3. /\ enrich' \in [Syncs -> EnrichType]
      /\ enrich'[i] = e
      /\ \A k \in Syncs \ {i} : enrich'[k] = enrich[k]
  <2>1. enrich' = [enrich EXCEPT ![i] = e]
    BY DEF EnrichBegins
  <2> HIDE DEF e
  <2>2. QED
    BY <1>2, <2>1, EnrichUpdate DEF StoreTyped
<1> HIDE DEF e
<1>4. Busy(i) /\ Enriching(i)
  BY <1>1 DEF Busy, Enriching
<1>5. StoreTyped'
  BY <1>1, <1>3 DEF StoreTyped
<1>6. Threads'
  BY <1>1, <1>2, <1>3, <1>4 DEF Threads, Enriching
<1>7. QED
  BY <1>1, <1>2, <1>3, <1>4, <1>5, <1>6, ThreadStep

LEMMA MakeDirKeeps ==
  ASSUME StoreInv, NEW i \in Syncs, NEW a \in Artifacts, MakeDir(i, a)
  PROVE  StoreInv'
<1> USE DEF StoreInv
<1>1. /\ creator[i][a] = "mkdir"
      /\ dir' = dir \cup {a}
      /\ UNCHANGED <<logged, meta, lldb, marker, sync, enrich, analysis, rewrite,
                     failed, overlapped, raced, crowded>>
  BY DEF MakeDir, history
<1>2. /\ creator' \in [Syncs -> [Artifacts -> CreatorPhases]]
      /\ creator'[i][a] = "fill"
      /\ \A k \in Syncs : \A b \in Artifacts : k # i \/ b # a => creator'[k][b] = creator[k][b]
  BY CreatorUpdate DEF MakeDir, StoreTyped, CreatorPhases
<1>3. StoreTyped' /\ Threads'
  BY <1>1, <1>2 DEF StoreTyped, Threads, Enriching
<1>4. /\ Turns' /\ AnalyzedOnce' /\ (LinksHold => LinksHold')
      /\ \A b \in Artifacts : (Free(b)' <=> Free(b)) /\ (Known(b)' <=> Known(b))
  BY <1>1, LoopUntouched
<1>5. AbsentIsFree'
  BY <1>1, <1>2, <1>4 DEF AbsentIsFree
<1>6. SomeoneFills'
  <2>1. ASSUME NEW b \in dir' \ failed'
        PROVE  /\ meta[b].state = "absent" => \E k \in Syncs : creator'[k][b] = "fill"
               /\ meta[b].state = "empty" =>
                    \/ \E k \in Syncs : creator'[k][b] = "write" \/ (enrich[k].at = b /\ enrich[k].phase = "write")
                    \/ rewrite.at = b /\ rewrite.phase = "write"
    <3>1. CASE b \in dir
      <4>1. \A k \in Syncs : creator[k][b] \in {"fill", "write"} => creator'[k][b] = creator[k][b]
        BY <1>1, <1>2, <3>1 DEF StoreTyped
      <4>2. QED
        BY <1>1, <2>1, <3>1, <4>1 DEF SomeoneFills
    <3>2. CASE b \notin dir
      BY <1>1, <1>2, <2>1, <3>2 DEF AbsentIsFree
    <3>3. QED
      BY <3>1, <3>2
  <2>2. QED
    BY <1>1, <2>1 DEF SomeoneFills
<1>7. \A k \in Syncs : \A b \in Artifacts : creator'[k][b] = "write" => creator[k][b] = "write"
  BY <1>2
<1>8. CoreFiles'
  BY <1>1, <1>4, <1>7 DEF CoreFiles, Readable, Artifacts
<1>9. OneWriter => OneWriter'
  <2>1. \A k \in Syncs : Busy(k)' => Busy(k)
    BY <1>1, <1>2 DEF Busy, Enriching
  <2>2. \A k \in Syncs : \A b \in Artifacts : Rewriting(k, b)' <=> Rewriting(k, b)
    BY <1>1 DEF Rewriting
  <2>3. QED
    BY <1>1, <1>2, <1>4, <1>7, <2>1, <2>2 DEF OneWriter, Readable
<1>10. QED
  BY <1>1, <1>3, <1>4, <1>5, <1>6, <1>8, <1>9

\* A thread empties or writes a file.
LEMMA ThreadWrites ==
  ASSUME StoreInv, NEW a \in Artifacts, NEW v \in MetaFile,
         meta' = [meta EXCEPT ![a] = v], v.link = NoArtifact,
         UNCHANGED <<lldb, marker, analysis, rewrite, failed, crowded>>,
         a \in Cores => Free(a)
  PROVE  /\ meta' \in [Artifacts -> MetaFile]
         /\ meta'[a] = v /\ \A b \in Artifacts \ {a} : meta'[b] = meta[b]
         /\ Turns' /\ AnalyzedOnce'
         /\ \A b \in Artifacts : (Free(b)' <=> Free(b)) /\ (Known(b)' <=> Known(b))
         /\ LinksHold /\ (meta[a].state # "json" \/ ~meta[a].pid) => LinksHold'
<1> USE DEF StoreInv
<1>1. /\ meta' \in [Artifacts -> MetaFile]
      /\ meta'[a] = v /\ \A b \in Artifacts \ {a} : meta'[b] = meta[b]
  BY MetaUpdate DEF StoreTyped
<1>2. Turns'
  BY DEF Turns, Opposite
<1>3. \A b \in Artifacts : (Free(b)' <=> Free(b)) /\ (Known(b)' <=> Known(b))
  BY DEF Free, Known, Pending
<1>4. AnalyzedOnce'
  <2>1. ~Settled(a)
    BY DEF Settled, Free
  <2>2. \A b \in Artifacts : Settled(b)' => Settled(b)
    BY DEF Settled
  <2>3. \A b \in Artifacts : Settled(b)' =>
          /\ Readable(b)' => meta'[b].inputs
          /\ rewrite.at = b => rewrite.text.inputs
          /\ \A j \in Analyses : Pending(j, b)' => analysis[j].copy.inputs
    BY <1>1, <2>1, <2>2 DEF AnalyzedOnce, Readable, Pending
  <2>4. QED
    BY <2>3 DEF AnalyzedOnce
<1>5. ASSUME LinksHold, meta[a].state # "json" \/ ~meta[a].pid
      PROVE  LinksHold'
  <2>1. meta[a].link = NoArtifact
    BY <1>5 DEF LinksHold, Sound
  <2>2. \A b \in Artifacts : HasLink(b) => HasLink(b)'
    BY <1>1, <1>5, <2>1 DEF HasLink
  <2>3. \A b \in Artifacts : Sound(b, meta[b])' /\ (meta'[b].link # NoArtifact => meta'[b] = meta[b])
    BY <1>1, <1>5 DEF LinksHold, Sound, Opposite
  <2>4. \A b \in Artifacts : meta[b].link \in Artifacts \cup {NoArtifact}
    BY DEF StoreTyped, MetaFile
  <2>5. rewrite.text.link \in Artifacts \cup {NoArtifact}
    BY DEF StoreTyped, MetaFile, RewriteType
  <2>6. \A b \in Artifacts : Sound(b, rewrite.text)' <=> Sound(b, rewrite.text)
    BY DEF Sound, Opposite
  <2>7. QED
    BY <1>5, <2>2, <2>3, <2>4, <2>5, <2>6 DEF LinksHold
<1>6. QED
  BY <1>1, <1>2, <1>3, <1>4, <1>5

LEMMA FillKeeps ==
  ASSUME StoreInv, NEW i \in Syncs, NEW a \in Artifacts, Fill(i, a)
  PROVE  StoreInv'
<1> USE DEF StoreInv
<1>1. /\ creator[i][a] = "fill"
      /\ UNCHANGED <<logged, dir, lldb, marker, enrich, analysis, rewrite, failed, overlapped, raced, crowded>>
  BY DEF Fill, history
<1>2. CASE a \in Cores /\ meta[a].state # "absent" /\ CreatorRaises(i, a) /\ UNCHANGED meta
  BY <1>1, <1>2, RaiseKeeps DEF files
<1>3. CASE /\ a \in Crashes \/ meta[a].state = "absent"
           /\ meta' = [meta EXCEPT ![a] = Blank("empty")]
           /\ creator' = [creator EXCEPT ![i][a] = "write"]
           /\ UNCHANGED sync
  <2>1. /\ Blank("empty") \in MetaFile
        /\ Blank("empty").state = "empty" /\ ~Blank("empty").pid /\ Blank("empty").link = NoArtifact
    BY BlankFacts DEF MetaStates
  <2>2. a \in Cores => /\ meta[a].state = "absent" /\ Free(a)
                       /\ \A k \in Syncs : creator[k][a] # "write"
    BY <1>3, StoreAssumption DEF AbsentIsFree
  <2>3. /\ meta' \in [Artifacts -> MetaFile]
        /\ meta'[a].state = "empty" /\ ~meta'[a].pid /\ meta'[a].link = NoArtifact
        /\ \A b \in Artifacts \ {a} : meta'[b] = meta[b]
        /\ Turns' /\ AnalyzedOnce'
        /\ \A b \in Artifacts : (Free(b)' <=> Free(b)) /\ (Known(b)' <=> Known(b))
        /\ LinksHold /\ meta[a].state # "json" => LinksHold'
    BY <1>1, <1>3, <2>1, <2>2, ThreadWrites
  <2>4. /\ creator' \in [Syncs -> [Artifacts -> CreatorPhases]]
        /\ creator'[i][a] = "write"
        /\ \A k \in Syncs : \A b \in Artifacts : k # i \/ b # a => creator'[k][b] = creator[k][b]
    BY <1>3, CreatorUpdate DEF StoreTyped, CreatorPhases
  <2>5. a \in dir
    BY <1>1 DEF AbsentIsFree
  <2>6. StoreTyped' /\ Threads'
    BY <1>1, <1>3, <2>3, <2>4 DEF StoreTyped, Threads, Enriching
  <2>7. AbsentIsFree'
    BY <1>1, <2>3, <2>4, <2>5, SMTT(30) DEF AbsentIsFree
  <2>8. \A b \in Artifacts \ {a} : \A k \in Syncs : creator'[k][b] = creator[k][b]
    BY <2>4
  <2>9. SomeoneFills'
    <3>1. dir \subseteq Artifacts
      BY DEF StoreTyped
    <3>2. QED
      BY <1>1, <2>3, <2>4, <2>8, <3>1 DEF SomeoneFills
  <2>10. CoreFiles'
    <3>1. \A b \in Cores : b # a => meta'[b] = meta[b] /\ \A k \in Syncs : creator'[k][b] = creator[k][b]
      BY <2>3, <2>8 DEF Artifacts
    <3>2. a \in Cores => rewrite.at # a /\ \A k \in Syncs \ {i} : creator'[k][a] # "write"
      BY <2>2, <2>4 DEF Free
    <3>3. QED
      BY <1>1, <2>2, <2>3, <3>1, <3>2 DEF CoreFiles, Readable, Artifacts
  <2>11. ASSUME ~overlapped'
         PROVE  OneWriter' /\ LinksHold'
    <3>1. OneWriter /\ LinksHold /\ meta[a].state = "absent" /\ Busy(i)
      BY <1>1, <2>11 DEF OneWriter, Busy
    <3>2. Free(a) /\ \A k \in Syncs : enrich[k].at # a
      BY <3>1 DEF AbsentIsFree
    <3>3. \A k \in Syncs : Busy(k)' => Busy(k)
      BY <1>1, <1>3, <2>8, <3>1 DEF Busy, Enriching
    <3>4. \A k \in Syncs \ {i} : \A b \in Artifacts : creator'[k][b] = "none"
      BY <2>4, <3>1, OnlyOneSync
    <3>5. \A k \in Syncs : \A b \in Artifacts : (Rewriting(k, b)' <=> Rewriting(k, b)) /\ (Rewriting(k, b) => b # a)
      BY <1>1, <3>2 DEF Rewriting
    <3>6. rewrite.at # a
      BY <3>2 DEF Free
    <3>7. rewrite.phase = "write" => rewrite.at \in Artifacts
      BY DEF Turns
    <3>8. \A k \in Syncs : \A b \in Artifacts :
            /\ creator'[k][b] \in {"mkdir", "fill"} => meta'[b].state = "absent"
            /\ creator'[k][b] = "write" => meta'[b].state = "empty" /\ Free(b)
      BY <2>3, <2>4, <2>8, <3>1, <3>2, <3>4 DEF OneWriter
    <3>9. OneWriter'
      BY <1>1, <2>3, <3>1, <3>3, <3>5, <3>6, <3>7, <3>8 DEF OneWriter, Readable
    <3>10. QED
      BY <2>3, <3>1, <3>2, <3>9
  <2>12. QED
    BY <2>3, <2>6, <2>7, <2>9, <2>10, <2>11
<1>4. QED
  BY <1>2, <1>3 DEF Fill

LEMMA WriteMetaKeeps ==
  ASSUME StoreInv, NEW i \in Syncs, NEW a \in Artifacts, WriteMeta(i, a)
  PROVE  StoreInv'
<1> USE DEF StoreInv
<1>1. /\ creator[i][a] = "write"
      /\ UNCHANGED <<logged, dir, lldb, marker, sync, enrich, analysis, rewrite,
                     failed, overlapped, raced, crowded>>
  BY DEF WriteMeta, history
<1>2. PICK new \in Written(meta[a], Created(a)) : meta' = [meta EXCEPT ![a] = new]
  BY DEF WriteMeta
<1>3. /\ Created(a) \in MetaFile
      /\ Created(a).state = "json"
      /\ Created(a).pid = (a \in Cores)
      /\ Created(a).link = NoArtifact
  BY CreatedFacts
<1>4. meta[a] \in MetaFile
  BY DEF StoreTyped
<1>5. /\ new \in MetaFile
      /\ new = Created(a) \/ (new.state = "garbled" /\ ~new.pid /\ new.link = NoArtifact)
      /\ meta[a].state = "empty" => new = Created(a)
  BY <1>2, <1>3, <1>4, WrittenFacts
<1>6. a \in Cores => /\ meta[a].state = "empty" /\ Free(a)
                     /\ \A k \in Syncs \ {i} : creator[k][a] # "write"
  BY <1>1 DEF CoreFiles
<1>7. /\ meta' \in [Artifacts -> MetaFile]
      /\ meta'[a] = new /\ meta'[a].state \in {"json", "garbled"} /\ meta'[a].link = NoArtifact
      /\ \A b \in Artifacts \ {a} : meta'[b] = meta[b]
      /\ Turns' /\ AnalyzedOnce'
      /\ \A b \in Artifacts : (Free(b)' <=> Free(b)) /\ (Known(b)' <=> Known(b))
      /\ LinksHold /\ meta[a].state # "json" => LinksHold'
  BY <1>1, <1>2, <1>3, <1>5, <1>6, ThreadWrites
<1>8. /\ creator' \in [Syncs -> [Artifacts -> CreatorPhases]]
      /\ creator'[i][a] = "none"
      /\ \A k \in Syncs : \A b \in Artifacts : k # i \/ b # a => creator'[k][b] = creator[k][b]
  BY CreatorUpdate DEF WriteMeta, StoreTyped, CreatorPhases
<1>9. \A b \in Artifacts \ {a} : \A k \in Syncs : creator'[k][b] = creator[k][b]
  BY <1>8
<1>10. StoreTyped' /\ Threads'
  BY <1>1, <1>7, <1>8 DEF StoreTyped, Threads, Enriching
<1>11. AbsentIsFree'
  <2>1. a \in dir
    BY <1>1 DEF AbsentIsFree
  <2>2. QED
    BY <1>1, <1>7, <1>9, <2>1 DEF AbsentIsFree
<1>12. SomeoneFills'
  <2>1. dir \subseteq Artifacts
    BY DEF StoreTyped
  <2>2. QED
    BY <1>1, <1>7, <1>9, <2>1 DEF SomeoneFills
<1>13. CoreFiles'
  <2>1. \A b \in Cores : b # a => meta'[b] = meta[b] /\ \A k \in Syncs : creator'[k][b] = creator[k][b]
    BY <1>7, <1>9 DEF Artifacts
  <2>2. a \in Cores => /\ meta'[a].pid /\ meta'[a].state = "json" /\ rewrite.at # a
                       /\ \A k \in Syncs : creator'[k][a] # "write"
    BY <1>3, <1>5, <1>6, <1>7, <1>8 DEF Free
  <2>3. QED
    BY <1>1, <1>7, <2>1, <2>2 DEF CoreFiles, Readable, Artifacts
<1>14. ASSUME ~overlapped'
       PROVE  OneWriter' /\ LinksHold'
  <2>1. OneWriter /\ LinksHold /\ Busy(i) /\ Free(a) /\ meta[a].state = "empty"
    BY <1>1, <1>14 DEF Busy, OneWriter
  <2>2. \A k \in Syncs : Busy(k)' => Busy(k)
    BY <1>1, <1>8 DEF Busy, Enriching
  <2>3. \A k \in Syncs \ {i} : /\ \A b \in Artifacts : creator'[k][b] = "none"
                               /\ enrich[k].phase = "none"
    BY <1>8, <2>1, OnlyOneSync
  <2>4. ~Rewriting(i, a)
    BY <1>1 DEF Threads, Rewriting, Enriching
  <2>5. \A k \in Syncs : \A b \in Artifacts : (Rewriting(k, b)' <=> Rewriting(k, b)) /\ (Rewriting(k, b) => b # a)
    BY <1>1, <2>3, <2>4 DEF Rewriting
  <2>6. rewrite.at # a /\ (rewrite.phase = "write" => rewrite.at \in Artifacts)
    BY <2>1 DEF Free, Turns
  <2>7. \A k \in Syncs : \A b \in Artifacts :
          /\ creator'[k][b] \in {"mkdir", "fill"} => meta'[b].state = "absent"
          /\ creator'[k][b] = "write" => meta'[b].state = "empty" /\ Free(b)
    BY <1>7, <1>8, <2>1, <2>3 DEF OneWriter
  <2>8. ~Known(a) /\ meta'[a].state = "json"
    BY <1>3, <1>5, <1>7, <2>1, StoreAssumption DEF Free, Known, Pending
  <2>9. OneWriter'
    BY <1>1, <1>7, <2>1, <2>2, <2>5, <2>6, <2>7, <2>8 DEF OneWriter, Readable
  <2>10. QED
    BY <1>7, <2>1, <2>9
<1>15. QED
  BY <1>7, <1>10, <1>11, <1>12, <1>13, <1>14

LEMMA EnrichReadKeeps ==
  ASSUME StoreInv, NEW i \in Syncs, NEW a \in Artifacts, EnrichRead(i, a)
  PROVE  StoreInv'
<1> USE DEF StoreInv
<1> DEFINE changed == Readable(a) /\ ~meta[a].pid
           copy == [meta[a] EXCEPT !.pid = TRUE]
           e == IF changed
                THEN [enrich[i] EXCEPT !.phase = "open", !.at = a, !.copy = copy]
                ELSE [enrich[i] EXCEPT !.todo = enrich[i].todo \ {a}]
<1>1. /\ a \in enrich[i].todo /\ enrich[i].phase = "none"
      /\ UNCHANGED <<logged, dir, meta, lldb, marker, creator, sync, analysis, rewrite,
                     failed, overlapped, crowded>>
  BY DEF EnrichRead, files
<1>2. raced' = IF changed /\ Classifying(a) THEN raced \cup {a} ELSE raced
  BY DEF EnrichRead
<1>3. enrich[i] \in EnrichType /\ meta[a] \in MetaFile /\ a \in Crashes
  BY <1>1 DEF StoreTyped, EnrichType
<1>4. copy \in MetaFile /\ copy.pid /\ copy.state = meta[a].state /\ copy.link = meta[a].link
  BY <1>3 DEF MetaFile
<1>5. /\ e \in EnrichType
      /\ changed => e.phase = "open" /\ e.at = a /\ e.copy = copy /\ e.todo = enrich[i].todo
      /\ ~changed => e.phase = "none" /\ e.at = enrich[i].at
  <2> HIDE DEF copy, changed
  <2>1. QED
    BY <1>1, <1>3, <1>4 DEF EnrichType
<1>6. /\ enrich' \in [Syncs -> EnrichType] /\ enrich'[i] = e
      /\ \A k \in Syncs \ {i} : enrich'[k] = enrich[k]
  <2>1. enrich' = [enrich EXCEPT ![i] = e]
    BY DEF EnrichRead
  <2> HIDE DEF e
  <2>2. QED
    BY <1>5, <2>1, EnrichUpdate DEF StoreTyped
<1> HIDE DEF e, copy
<1>7. Enriching(i) /\ Busy(i)
  BY <1>1 DEF Enriching, Busy
<1>8. StoreTyped'
  BY <1>1, <1>2, <1>3, <1>6 DEF StoreTyped
<1>9. Threads'
  BY <1>1, <1>4, <1>5, <1>6, <1>7 DEF Threads, Enriching, Readable
<1>10. /\ Turns' /\ AnalyzedOnce' /\ (LinksHold => LinksHold')
       /\ \A b \in Artifacts : (Free(b)' <=> Free(b)) /\ (Known(b)' <=> Known(b))
  BY <1>1, LoopUntouched
<1>11. AbsentIsFree'
  BY <1>1, <1>5, <1>6, <1>10 DEF AbsentIsFree, Readable
<1>12. SomeoneFills'
  BY <1>1, <1>6 DEF SomeoneFills
<1>13. CoreFiles'
  BY <1>1, <1>10 DEF CoreFiles, Readable, Artifacts
<1>14. ASSUME ~overlapped'
       PROVE  OneWriter'
  <2>1. OneWriter /\ LinksHold
    BY <1>1, <1>14
  <2>2. \A k \in Syncs : Busy(k)' => Busy(k)
    BY <1>1, <1>6, <1>7 DEF Busy, Enriching
  <2>3. raced \subseteq raced'
    BY <1>2
  <2>4. \A k \in Syncs : \A b \in Artifacts :
          Rewriting(k, b)' => \/ Rewriting(k, b) /\ enrich'[k] = enrich[k]
                              \/ k = i /\ b = a /\ changed
    BY <1>1, <1>5, <1>6 DEF Rewriting
  <2>5. ASSUME changed
        PROVE  /\ ~Known(a) /\ enrich'[i].copy.link = NoArtifact /\ enrich'[i].phase = "open"
               /\ rewrite.at = a => a \in raced'
    <3>1. ~Known(a)
      BY <2>1, <2>5 DEF OneWriter
    <3>2. meta[a].link = NoArtifact
      BY <2>1, <2>5 DEF LinksHold, Sound
    <3>3. rewrite.at = a => Classifying(a)
      <4> SUFFICES ASSUME rewrite.at = a
                   PROVE  Classifying(a)
        OBVIOUS
      <4>1. rewrite.phase # "none"
        BY StoreAssumption DEF Turns
      <4>2. PICK j \in Analyses : analysis[j].pc \in Running \ {"reload"}
        BY <4>1 DEF Turns
      <4>3. QED
        BY <3>1, <4>2 DEF Turns, Known, Running, Classifying
    <3>4. QED
      BY <1>2, <1>4, <1>5, <1>6, <2>5, <3>1, <3>2, <3>3
  <2>6. QED
    BY <1>1, <1>10, <2>1, <2>2, <2>3, <2>4, <2>5 DEF OneWriter, Readable
<1>15. QED
  BY <1>1, <1>8, <1>9, <1>10, <1>11, <1>12, <1>13, <1>14

\* What the enrichment thread is writing is a crash's file, whose process nobody knew
\* when it was read.
LEMMA EnrichesCrash ==
  ASSUME StoreInv, NEW i \in Syncs, enrich[i].phase \in {"open", "write"}
  PROVE  LET a == enrich[i].at IN
         /\ a \in Crashes /\ a \in Artifacts /\ a \notin Cores
         /\ meta[a].state # "absent" /\ a \in dir
         /\ Busy(i)
         /\ ~overlapped => Rewriting(i, a) /\ ~meta[a].pid /\ ~Known(a)
<1> USE DEF StoreInv
<1> DEFINE a == enrich[i].at
<1>1. a \in Crashes /\ a \in Artifacts /\ a \notin Cores
  BY StoreAssumption DEF Threads, StoreTyped, EnrichType, Artifacts
<1>2. meta[a].state # "absent" /\ a \in dir
  BY <1>1 DEF AbsentIsFree
<1>3. Busy(i) /\ Rewriting(i, a)
  BY DEF Busy, Enriching, Rewriting
<1>4. QED
  BY <1>1, <1>2, <1>3 DEF OneWriter

LEMMA EnrichOpenKeeps ==
  ASSUME StoreInv, NEW i \in Syncs, EnrichOpen(i)
  PROVE  StoreInv'
<1> USE DEF StoreInv
<1> DEFINE a == enrich[i].at
           e == [enrich[i] EXCEPT !.phase = "write"]
<1>1. /\ enrich[i].phase = "open"
      /\ meta' = [meta EXCEPT ![a] = Blank("empty")]
      /\ UNCHANGED <<logged, dir, lldb, marker, creator, sync, analysis, rewrite,
                     failed, overlapped, raced, crowded>>
  BY DEF EnrichOpen, history
<1>2. /\ a \in Crashes /\ a \in Artifacts /\ a \notin Cores
      /\ meta[a].state # "absent" /\ a \in dir
      /\ Busy(i)
      /\ ~overlapped => Rewriting(i, a) /\ ~meta[a].pid /\ ~Known(a)
  BY <1>1, EnrichesCrash
<1>3. enrich[i] \in EnrichType
  BY DEF StoreTyped
<1>4. /\ e \in EnrichType /\ e.phase = "write" /\ e.at = a
      /\ e.copy = enrich[i].copy /\ e.todo = enrich[i].todo
  BY <1>3 DEF EnrichType
<1>5. /\ enrich' \in [Syncs -> EnrichType] /\ enrich'[i] = e
      /\ \A k \in Syncs \ {i} : enrich'[k] = enrich[k]
  <2>1. enrich' = [enrich EXCEPT ![i] = e]
    BY DEF EnrichOpen
  <2> HIDE DEF e
  <2>2. QED
    BY <1>4, <2>1, EnrichUpdate DEF StoreTyped
<1> HIDE DEF e
<1>6. /\ Blank("empty") \in MetaFile
      /\ Blank("empty").state = "empty" /\ ~Blank("empty").pid /\ Blank("empty").link = NoArtifact
  BY BlankFacts DEF MetaStates
<1>7. /\ meta' \in [Artifacts -> MetaFile]
      /\ meta'[a].state = "empty" /\ ~meta'[a].pid /\ meta'[a].link = NoArtifact
      /\ \A b \in Artifacts \ {a} : meta'[b] = meta[b]
      /\ Turns' /\ AnalyzedOnce'
      /\ \A b \in Artifacts : (Free(b)' <=> Free(b)) /\ (Known(b)' <=> Known(b))
      /\ LinksHold /\ ~meta[a].pid => LinksHold'
  BY <1>1, <1>2, <1>6, ThreadWrites
<1>8. \A k \in Syncs : enrich'[k].at = enrich[k].at /\ (enrich[k].phase = "write" => enrich'[k].phase = "write")
  BY <1>1, <1>4, <1>5
<1>9. StoreTyped'
  BY <1>1, <1>5, <1>7 DEF StoreTyped
<1>10. Threads'
  BY <1>1, <1>4, <1>5 DEF Threads, Enriching
<1>11. AbsentIsFree'
  BY <1>1, <1>2, <1>7, <1>8 DEF AbsentIsFree
<1>12. SomeoneFills'
  <2>1. ASSUME NEW b \in dir \ failed, b # a
        PROVE  meta'[b] = meta[b] /\ b \in Artifacts
    BY <1>7, <2>1 DEF StoreTyped
  <2>2. QED
    BY <1>1, <1>2, <1>4, <1>5, <1>7, <1>8, <2>1 DEF SomeoneFills
<1>13. CoreFiles'
  <2>1. \A b \in Cores : meta'[b] = meta[b]
    BY <1>2, <1>7 DEF Artifacts
  <2>2. QED
    BY <1>1, <1>7, <2>1 DEF CoreFiles, Readable, Artifacts
<1>14. ASSUME ~overlapped'
       PROVE  OneWriter' /\ LinksHold'
  <2>1. OneWriter /\ LinksHold /\ ~meta[a].pid /\ ~Known(a)
    BY <1>1, <1>2, <1>14
  <2>2. \A k \in Syncs : Busy(k)' => Busy(k)
    BY <1>1, <1>2, <1>5 DEF Busy, Enriching
  <2>3. \A k \in Syncs : \A b \in Artifacts : Rewriting(k, b)' <=> Rewriting(k, b)
    BY <1>1, <1>4, <1>5 DEF Rewriting
  <2>4. \A k \in Syncs : \A b \in Artifacts :
          Rewriting(k, b) => /\ enrich'[k].copy = enrich[k].copy
                             /\ enrich'[k].phase = "write" => enrich[k].phase = "write" \/ b = a
    BY <1>4, <1>5 DEF Rewriting
  <2>5. \A k \in Syncs : \A b \in Artifacts : creator[k][b] = "write" => meta'[b].state = "empty"
    BY <1>7, <2>1 DEF OneWriter
  <2>6. \A k \in Syncs : \A b \in Artifacts : creator[k][b] \in {"mkdir", "fill"} => b # a
    BY <1>2, <2>1 DEF OneWriter
  <2>7. rewrite.phase = "write" => rewrite.at \in Artifacts
    BY DEF Turns
  <2>8. OneWriter'
    BY <1>1, <1>7, <2>1, <2>2, <2>3, <2>4, <2>5, <2>6, <2>7 DEF OneWriter, Readable
  <2>9. QED
    BY <1>7, <2>1, <2>8
<1>15. QED
  BY <1>7, <1>9, <1>10, <1>11, <1>12, <1>13, <1>14

LEMMA EnrichWriteKeeps ==
  ASSUME StoreInv, NEW i \in Syncs, EnrichWrite(i)
  PROVE  StoreInv'
<1> USE DEF StoreInv
<1> DEFINE a == enrich[i].at
           e == [NotEnriching EXCEPT !.todo = enrich[i].todo \ {a}]
<1>1. /\ enrich[i].phase = "write"
      /\ UNCHANGED <<logged, dir, lldb, marker, creator, sync, analysis, rewrite,
                     failed, overlapped, raced, crowded>>
  BY DEF EnrichWrite, history
<1>2. PICK new \in Written(meta[a], enrich[i].copy) : meta' = [meta EXCEPT ![a] = new]
  BY DEF EnrichWrite
<1>3. /\ a \in Crashes /\ a \in Artifacts /\ a \notin Cores
      /\ meta[a].state # "absent" /\ a \in dir
      /\ Busy(i)
      /\ ~overlapped => Rewriting(i, a) /\ ~meta[a].pid /\ ~Known(a)
  BY <1>1, EnrichesCrash
<1>4. /\ enrich[i] \in EnrichType /\ enrich[i].copy \in MetaFile /\ meta[a] \in MetaFile
      /\ enrich[i].copy.pid /\ enrich[i].copy.state = "json"
  BY <1>1, <1>3 DEF StoreTyped, EnrichType, Threads
<1>5. /\ e \in EnrichType /\ e.phase = "none" /\ e.at = NoArtifact
  <2>1. enrich[i].todo \ {a} \in SUBSET Crashes
    BY <1>4 DEF EnrichType
  <2>2. QED
    BY <2>1, NotEnrichingFacts
<1>6. /\ enrich' \in [Syncs -> EnrichType] /\ enrich'[i] = e
      /\ \A k \in Syncs \ {i} : enrich'[k] = enrich[k]
  <2>1. enrich' = [enrich EXCEPT ![i] = e]
    BY DEF EnrichWrite
  <2> HIDE DEF e
  <2>2. QED
    BY <1>5, <2>1, EnrichUpdate DEF StoreTyped
<1> HIDE DEF e
<1>7. /\ new \in MetaFile
      /\ new = enrich[i].copy \/ (new.state = "garbled" /\ ~new.pid /\ new.link = NoArtifact)
      /\ meta[a].state = "empty" => new = enrich[i].copy
      /\ new.state \in {"json", "garbled"}
  BY <1>2, <1>4, WrittenFacts
<1>8. meta' \in [Artifacts -> MetaFile] /\ meta'[a] = new /\ \A b \in Artifacts \ {a} : meta'[b] = meta[b]
  BY <1>2, <1>3, <1>7, MetaUpdate DEF StoreTyped
<1>9. Turns' /\ \A b \in Artifacts : (Free(b)' <=> Free(b)) /\ (Known(b)' <=> Known(b))
  BY <1>1 DEF Turns, Opposite, Free, Known, Pending
<1>10. AnalyzedOnce'
  BY <1>1, <1>3, <1>8 DEF AnalyzedOnce, Settled, Readable, Pending
<1>11. StoreTyped'
  BY <1>1, <1>6, <1>8 DEF StoreTyped
<1>12. Threads'
  BY <1>1, <1>4, <1>5, <1>6 DEF Threads, Enriching
<1>13. AbsentIsFree'
  BY <1>1, <1>3, <1>5, <1>6, <1>7, <1>8, <1>9, StoreAssumption DEF AbsentIsFree
<1>14. SomeoneFills'
  <2>1. ASSUME NEW b \in dir \ failed, b # a
        PROVE  meta'[b] = meta[b] /\ \A k \in Syncs : enrich[k].at = b => enrich'[k] = enrich[k]
    BY <1>6, <1>8, <2>1 DEF StoreTyped
  <2>2. QED
    BY <1>1, <1>7, <1>8, <2>1 DEF SomeoneFills
<1>15. CoreFiles'
  <2>1. \A b \in Cores : meta'[b] = meta[b]
    BY <1>3, <1>8 DEF Artifacts
  <2>2. QED
    BY <1>1, <1>9, <2>1 DEF CoreFiles, Readable, Artifacts
<1>16. ASSUME ~overlapped'
       PROVE  OneWriter' /\ LinksHold'
  <2>1. OneWriter /\ LinksHold /\ ~meta[a].pid /\ ~Known(a) /\ Rewriting(i, a)
    BY <1>1, <1>3, <1>16
  <2>2. /\ enrich[i].copy.link = NoArtifact
        /\ meta[a].state = "empty" \/ a \in raced
        /\ rewrite.at = a => a \in raced /\ ~rewrite.text.pid
    BY <1>1, <1>3, <2>1 DEF OneWriter, Known
  <2>3. \A k \in Syncs : Busy(k)' => Busy(k)
    BY <1>1, <1>3, <1>6 DEF Busy, Enriching
  <2>4. \A k \in Syncs : \A b \in Artifacts :
          Rewriting(k, b)' => Rewriting(k, b) /\ enrich'[k] = enrich[k] /\ k # i
    BY <1>5, <1>6 DEF Rewriting
  <2>5. \A k \in Syncs : \A b \in Artifacts : Rewriting(k, b)' => b # a
    BY <1>3, <2>1, <2>4 DEF OneWriter, Rewriting, Busy, Enriching
  <2>6. \A k \in Syncs : \A b \in Artifacts : creator[k][b] # "none" => b # a
    <3>1. \A b \in Artifacts : creator[i][b] = "none"
      BY <1>1 DEF Threads, Enriching
    <3>2. \A k \in Syncs \ {i} : \A b \in Artifacts : creator[k][b] = "none"
      BY <1>3, <2>1, OnlyOneSync
    <3>3. QED
      BY <3>1, <3>2
  <2>7. rewrite.phase = "write" => rewrite.at \in Artifacts
    BY DEF Turns
  <2>8. OneWriter'
    <3>1. \A b \in Artifacts :
            /\ meta'[b].state = "garbled" => b \in raced
            /\ Known(b)' /\ Readable(b)' => meta'[b].pid
            /\ rewrite.at = b /\ ~rewrite.text.pid => ~Known(b)'
      BY <1>4, <1>7, <1>8, <1>9, <2>1, <2>2 DEF OneWriter, Readable
    <3>2. \A k \in Syncs : \A b \in Artifacts :
            /\ creator[k][b] \in {"mkdir", "fill"} => meta'[b].state = "absent"
            /\ creator[k][b] = "write" => meta'[b].state = "empty" /\ Free(b)'
      BY <1>8, <1>9, <2>1, <2>6 DEF OneWriter
    <3>3. \A k \in Syncs : \A b \in Artifacts :
            Rewriting(k, b)' =>
              /\ ~meta'[b].pid /\ ~Known(b)' /\ enrich'[k].copy.link = NoArtifact
              /\ enrich'[k].phase = "write" => meta'[b].state = "empty" \/ b \in raced
              /\ rewrite.at = b => b \in raced
      BY <1>8, <1>9, <2>1, <2>4, <2>5 DEF OneWriter
    <3>4. rewrite.phase = "write" =>
            meta'[rewrite.at].state = "empty" \/ (rewrite.at \in raced /\ ~rewrite.text.pid)
      BY <1>8, <2>1, <2>2, <2>7 DEF OneWriter
    <3>5. QED
      BY <1>1, <2>1, <2>3, <3>1, <3>2, <3>3, <3>4 DEF OneWriter
  <2>9. LinksHold'
    <3>1. new.link = NoArtifact
      BY <1>7, <2>2
    <3>2. meta' = [meta EXCEPT ![a] = new]
      BY <1>2
    <3>3. QED
      BY <1>1, <1>3, <1>7, <2>1, <3>1, <3>2, ThreadWrites
  <2>10. QED
    BY <2>8, <2>9
<1>17. QED
  BY <1>9, <1>10, <1>11, <1>12, <1>13, <1>14, <1>15, <1>16

-----------------------------------------------------------------------------
(***************************************************************************)
(* The coroutines                                                          *)
(***************************************************************************)

\* What the coroutines leave alone: the files and the threads.
ThreadsUntouched ==
  UNCHANGED <<logged, dir, meta, creator, sync, enrich, failed, overlapped>>

\* A coroutine that takes the event loop finds no rewriting under way.
LEMMA QuietLoop ==
  ASSUME StoreInv, NEW j \in Analyses, LoopFree \/ analysis[j].pc = "reload"
  PROVE  /\ rewrite.phase = "none" /\ rewrite.at = NoArtifact
         /\ \A k \in Analyses \ {j} : analysis[k].pc \notin Running
         /\ \A k \in Analyses : \A b : ~Pending(k, b)
         /\ \A b \in Artifacts : rewrite.at # b
         /\ analysis[j].pc \in {"none", "reload"} \cup Awaiting
<1> USE DEF StoreInv
<1>1. \A k \in Analyses \ {j} : analysis[k].pc \notin Running
  BY DEF LoopFree, Turns, Running
<1>2. analysis[j].pc \in {"none", "reload"} \cup Awaiting
  BY DEF LoopFree, StoreTyped, AnalysisType, Running, Awaiting
<1>3. rewrite.phase = "none"
  BY <1>1, <1>2 DEF Turns, Running, Awaiting
<1>4. rewrite.at = NoArtifact
  BY <1>3 DEF Turns
<1>5. \A k \in Analyses : \A b : ~Pending(k, b)
  BY <1>1, <1>2 DEF Pending, Running, Awaiting
<1>6. QED
  BY <1>1, <1>2, <1>3, <1>4, <1>5, StoreAssumption

\* The files that a coroutine works on are there.
LEMMA WorkedOn ==
  ASSUME StoreInv, NEW j \in Analyses, analysis[j].pc # "none"
  PROVE  /\ analysis[j].at \in Artifacts
         /\ meta[analysis[j].at].state # "absent" /\ ~Free(analysis[j].at)
         /\ \A i \in Syncs : analysis[j].at \in Cores => creator[i][analysis[j].at] # "write"
<1> USE DEF StoreInv
<1>1. analysis[j].at \in Artifacts
  BY DEF Turns, StoreTyped, AnalysisType
<1>2. ~Free(analysis[j].at)
  BY DEF Free
<1>3. QED
  BY <1>1, <1>2 DEF AbsentIsFree, CoreFiles

\* A step of a coroutine that finds the loop free and is done, or waits or goes on
\* without a rewriting: the parts of the invariant that speak of the files.
LEMMA QuietStep ==
  ASSUME StoreInv, NEW j \in Analyses, LoopFree \/ analysis[j].pc = "reload",
         ThreadsUntouched, UNCHANGED rewrite, StoreTyped',
         raced \subseteq raced',
         \A k \in Analyses \ {j} : analysis'[k] = analysis[k],
         analysis'[j].pc \in {"none", "reload"} \cup Awaiting,
         NEW a \in Artifacts,
         analysis'[j].at \in {a, NoArtifact},
         lldb' \subseteq lldb \cup {a}, marker' \subseteq marker \cup {a},
         Readable(a) \/ analysis[j].at = a,
         analysis[j].at \in {a, NoArtifact},
         analysis'[j].pc \in {"linking", "tracking", "kernel"} =>
           (Readable(a) /\ meta[a].pid) \/ analysis[j].pc \in {"linking", "tracking", "kernel"}
  PROVE  /\ Threads' /\ AbsentIsFree' /\ SomeoneFills' /\ CoreFiles'
         /\ ~overlapped' => OneWriter' /\ LinksHold'
         /\ \A k \in Analyses : \A b : ~Pending(k, b)'
<1> USE DEF StoreInv, ThreadsUntouched
<1>1. /\ rewrite.phase = "none" /\ rewrite.at = NoArtifact
      /\ \A k \in Analyses \ {j} : analysis[k].pc \notin Running
      /\ \A k \in Analyses : \A b : ~Pending(k, b)
      /\ \A b \in Artifacts : rewrite.at # b
      /\ analysis[j].pc \in {"none", "reload"} \cup Awaiting
  BY QuietLoop
<1>2. \A k \in Analyses : \A b : ~Pending(k, b)'
  BY <1>1 DEF Pending, Awaiting
<1>3. Threads' /\ SomeoneFills'
  BY DEF Threads, Enriching, SomeoneFills
<1>4. \A b \in Artifacts \ {a} : Free(b) => Free(b)'
  BY <1>1, <1>2, StoreAssumption DEF Free
<1>5. /\ meta[a].state # "absent"
      /\ \A i \in Syncs : a \in Cores => creator[i][a] # "write"
  BY WorkedOn, StoreAssumption DEF Readable, CoreFiles, Turns
<1>6. AbsentIsFree'
  BY <1>4, <1>5 DEF AbsentIsFree
<1>7. CoreFiles'
  BY <1>4, <1>5 DEF CoreFiles, Readable, Artifacts
<1>8. ASSUME ~overlapped'
      PROVE  OneWriter' /\ LinksHold'
  <2>1. OneWriter /\ LinksHold
    BY <1>8
  <2>2. \A k \in Syncs : (Busy(k)' <=> Busy(k)) /\ \A b \in Artifacts : Rewriting(k, b)' <=> Rewriting(k, b)
    BY DEF Busy, Enriching, Rewriting
  <2>3. \A b \in Artifacts : Known(b)' => Known(b) \/ (b = a /\ Readable(a) /\ meta[a].pid)
    <3>1. analysis[j].pc \in {"linking", "tracking", "kernel"} => analysis[j].at = a
      BY DEF Turns
    <3>2. \A b \in Artifacts : analysis'[j].at = b => b = a
      BY StoreAssumption
    <3>3. analysis'[j].pc \notin {"linked", "back", "counted", "flagged"}
      BY DEF Awaiting
    <3>4. ASSUME NEW b \in Artifacts, NEW k \in Analyses, analysis'[k].at = b,
                 analysis'[k].pc \in {"linking", "linked", "back", "tracking", "counted", "kernel", "flagged"}
          PROVE  Known(b) \/ (b = a /\ Readable(a) /\ meta[a].pid)
      <4>1. CASE k = j
        BY <3>1, <3>2, <3>3, <3>4, <4>1 DEF Known
      <4>2. CASE k # j
        BY <3>4, <4>2 DEF Known
      <4>3. QED
        BY <4>1, <4>2
    <3>5. QED
      BY <1>1, <1>2, <3>4 DEF Known
  <2>4. \A i \in Syncs : creator[i][a] # "write"
    BY <1>5, <2>1, WorkedOn, StoreAssumption DEF Readable, OneWriter, Turns
  <2>5. \A b \in Artifacts : /\ Known(b)' /\ Readable(b) => meta[b].pid
                             /\ \A i \in Syncs : Rewriting(i, b) => ~Known(b)'
    BY <2>1, <2>3 DEF OneWriter
  <2>6. OneWriter'
    BY <1>1, <1>4, <2>1, <2>2, <2>4, <2>5 DEF OneWriter, Readable
  <2>7. LinksHold'
    BY <1>1, <2>1 DEF LinksHold, Sound, HasLink, Opposite
  <2>8. QED
    BY <2>6, <2>7
<1>9. QED
  BY <1>2, <1>3, <1>6, <1>7, <1>8

\* A coroutine that is done; it may have marked its artifact, a core's only if it has
\* looked at the kernel log.
LEMMA DoneKeeps ==
  ASSUME StoreInv, NEW j \in Analyses, LoopFree \/ analysis[j].pc = "reload",
         Return(j), analysis[j].pc # "none",
         ThreadsUntouched, UNCHANGED <<rewrite, raced, crowded>>,
         lldb' \subseteq lldb \cup {analysis[j].at},
         \/ marker' = marker
         \/ /\ marker' = marker \cup {analysis[j].at}
            /\ analysis[j].at \in Cores => analysis[j].pc = "kernel"
  PROVE  StoreInv'
<1> USE DEF StoreInv
<1> DEFINE a == analysis[j].at
<1>1. a \in Artifacts
  BY WorkedOn
<1>2. /\ analysis' \in [Analyses -> AnalysisType]
      /\ analysis'[j].pc = "none" /\ analysis'[j].at = NoArtifact
      /\ \A k \in Analyses \ {j} : analysis'[k] = analysis[k]
  BY ReturnFacts DEF StoreTyped
<1> HIDE DEF a
<1>3. StoreTyped'
  BY <1>1, <1>2 DEF StoreTyped, ThreadsUntouched, a
<1>4. /\ rewrite.phase = "none"
      /\ \A k \in Analyses \ {j} : analysis[k].pc \notin Running
      /\ \A b \in Artifacts : rewrite.at # b
  BY QuietLoop
<1>5. /\ Threads' /\ AbsentIsFree' /\ SomeoneFills' /\ CoreFiles'
      /\ ~overlapped' => OneWriter' /\ LinksHold'
      /\ \A k \in Analyses : \A b : ~Pending(k, b)'
  BY <1>1, <1>2, <1>3, QuietStep DEF a
<1>6. Turns'
  BY <1>2, <1>4 DEF Turns, Opposite, Running
<1>7. AnalyzedOnce'
  <2>1. \A k \in Analyses \ {j} : analysis[k].at = a => a \in crowded
    BY <1>1, StoreAssumption DEF AnalyzedOnce, a
  <2>2. \A k, l \in Analyses : k # l /\ analysis'[k].at = analysis'[l].at /\ analysis'[k].at # NoArtifact
          => analysis'[k].at \in crowded
    BY <1>2 DEF AnalyzedOnce
  <2>3. \A b \in marker' \ crowded : \A k \in Analyses : analysis'[k].at # b
    <3>1. marker' \subseteq Artifacts /\ (marker' \subseteq marker \cup {a})
      BY <1>3 DEF StoreTyped, a
    <3>2. QED
      BY <1>2, <2>1, <3>1, StoreAssumption DEF AnalyzedOnce
  <2>4. \A b \in Artifacts : Settled(b)' => Settled(b)
    BY <1>2 DEF Settled, a, StoreTyped
  <2>5. QED
    BY <1>4, <1>5, <2>2, <2>3, <2>4 DEF AnalyzedOnce, Readable, ThreadsUntouched
<1>8. QED
  BY <1>3, <1>5, <1>6, <1>7

\* A coroutine that waits, or reads the file again, next.
LEMMA GoesOnKeeps ==
  ASSUME StoreInv, NEW j \in Analyses, LoopFree \/ analysis[j].pc = "reload",
         NEW a \in Artifacts, NEW pc \in {"reload"} \cup Awaiting, NEW copy \in MetaFile,
         Goto(j, a, pc, copy),
         ThreadsUntouched, UNCHANGED <<rewrite, raced, marker>>,
         lldb' \subseteq lldb \cup {a},
         \/ analysis[j].at = a /\ crowded' = crowded
         \/ /\ analysis[j].pc = "none" /\ Readable(a) /\ a \notin marker
            /\ crowded' = IF \E k \in Analyses : analysis[k].at = a THEN crowded \cup {a} ELSE crowded,
         pc = "linking" => copy.pid /\ copy.state = "json",
         pc \in {"linking", "tracking", "kernel"} =>
           \/ Readable(a) /\ meta[a].pid
           \/ analysis[j].at = a /\ analysis[j].pc \in {"linking", "tracking", "kernel"},
         pc = "kernel" => a \notin Tracked
  PROVE  StoreInv'
<1> USE DEF StoreInv
<1>1. /\ analysis' \in [Analyses -> AnalysisType]
      /\ analysis'[j].pc = pc /\ analysis'[j].at = a /\ analysis'[j].copy = copy
      /\ \A k \in Analyses \ {j} : analysis'[k] = analysis[k]
  <2>1. pc \in Awaiting \cup Running
    BY DEF Running
  <2>2. QED
    BY <2>1, GotoFacts DEF StoreTyped
<1>2. crowded' \subseteq Artifacts /\ crowded \subseteq crowded'
  BY DEF StoreTyped
<1>3. StoreTyped'
  BY <1>1, <1>2 DEF StoreTyped, ThreadsUntouched
<1>4. /\ rewrite.phase = "none" /\ rewrite.at = NoArtifact
      /\ \A k \in Analyses \ {j} : analysis[k].pc \notin Running
      /\ \A b \in Artifacts : rewrite.at # b
  BY QuietLoop
<1>5. analysis[j].at \in {a, NoArtifact} /\ (Readable(a) \/ analysis[j].at = a)
  BY DEF Turns
<1>6. /\ Threads' /\ AbsentIsFree' /\ SomeoneFills' /\ CoreFiles'
      /\ ~overlapped' => OneWriter' /\ LinksHold'
      /\ \A k \in Analyses : \A b : ~Pending(k, b)'
  BY <1>1, <1>3, <1>5, QuietStep
<1>7. Turns'
  <2>1. pc # "none" /\ a # NoArtifact
    BY StoreAssumption DEF Awaiting
  <2>2. \A k \in Analyses : analysis'[k].pc \notin Running \ {"reload"}
    BY <1>1, <1>4 DEF Running, Awaiting
  <2>3. \A k, l \in Analyses : analysis'[k].pc \in Running /\ analysis'[l].pc \in Running => k = l
    BY <1>1, <1>4
  <2>4. \A k \in Analyses :
          /\ analysis'[k].pc = "none" <=> analysis'[k].at = NoArtifact
          /\ analysis'[k].pc = "linking" => analysis'[k].copy.pid /\ analysis'[k].copy.state = "json"
    BY <1>1, <2>1 DEF Turns
  <2>5. QED
    BY <1>4, <2>2, <2>3, <2>4 DEF Turns, Running
<1>8. AnalyzedOnce'
  <2>1. \A k \in Analyses \ {j} : analysis[k].at = a => a \in crowded'
    BY <1>5, StoreAssumption DEF AnalyzedOnce
  <2>2. a \in marker => a \in crowded'
    BY <1>2 DEF AnalyzedOnce
  <2>3. /\ \A k, l \in Analyses : k # l /\ analysis'[k].at = analysis'[l].at /\ analysis'[k].at # NoArtifact
             => analysis'[k].at \in crowded'
        /\ \A b \in marker' \ crowded' : \A k \in Analyses : analysis'[k].at # b
    BY <1>1, <1>2, <2>1, <2>2 DEF AnalyzedOnce
  <2>4. \A b \in Artifacts : Settled(b)' => Settled(b)
    BY <1>1, <1>2 DEF Settled, Awaiting
  <2>5. QED
    BY <1>4, <1>6, <2>3, <2>4 DEF AnalyzedOnce, Readable, ThreadsUntouched
<1>9. QED
  BY <1>3, <1>6, <1>7, <1>8

\* A coroutine that is about to write a file: a text it has from that file as it is, or
\* that names the process.
LEMMA BeginsKeeps ==
  ASSUME StoreInv, NEW j \in Analyses, LoopFree \/ analysis[j].pc = "reload",
         NEW a \in Artifacts, NEW pc \in {"classified", "linked", "counted", "flagged"},
         NEW copy \in MetaFile, NEW text \in MetaFile,
         Goto(j, a, pc, copy), Rewrite(a, text),
         ThreadsUntouched, UNCHANGED marker,
         lldb' \subseteq lldb \cup {a},
         \/ analysis[j].at = a /\ crowded' = crowded
         \/ /\ analysis[j].pc = "none" /\ a \notin marker
            /\ crowded' = IF \E k \in Analyses : analysis[k].at = a THEN crowded \cup {a} ELSE crowded,
         text.state = "json",
         a \in Cores => text.pid,
         pc = "classified" =>
           /\ Readable(a) /\ text = meta[a]
           /\ raced' = IF \E i \in Syncs : Rewriting(i, a) THEN raced \cup {a} ELSE raced,
         pc # "classified" =>
           /\ raced' = raced
           /\ analysis[j].at = a /\ analysis[j].pc \in {"linking", "tracking", "kernel"}
           /\ ~overlapped => text.pid,
         pc = "linked" =>
           /\ text.pid /\ Opposite(a, text.link)
           /\ copy.pid /\ copy.state = "json" /\ copy.link = a
           /\ Readable(text.link) /\ meta[text.link].pid
           /\ copy.inputs = meta[text.link].inputs,
         pc # "linked" => text.link = meta[a].link /\ Readable(a),
         ~overlapped => Sound(a, text),
         pc = "counted" => text.inputs,
         pc = "flagged" => analysis[j].pc = "kernel" /\ text.inputs = meta[a].inputs
  PROVE  StoreInv'
<1> USE DEF StoreInv
<1>1. /\ analysis' \in [Analyses -> AnalysisType]
      /\ analysis'[j].pc = pc /\ analysis'[j].at = a /\ analysis'[j].copy = copy
      /\ \A k \in Analyses \ {j} : analysis'[k] = analysis[k]
  <2>1. pc \in Awaiting \cup Running
    BY DEF Running
  <2>2. QED
    BY <2>1, GotoFacts DEF StoreTyped
<1>2. rewrite' \in RewriteType /\ rewrite'.phase = "open" /\ rewrite'.at = a /\ rewrite'.text = text
  BY RewriteFacts
<1>3. /\ rewrite.phase = "none" /\ rewrite.at = NoArtifact
      /\ \A k \in Analyses \ {j} : analysis[k].pc \notin Running
      /\ \A k \in Analyses : \A b : ~Pending(k, b)
      /\ \A b \in Artifacts : rewrite.at # b
  BY QuietLoop
<1>4. crowded' \subseteq Artifacts /\ crowded \subseteq crowded'
  BY DEF StoreTyped
<1>5. \A i \in Syncs : Rewriting(i, a) => a \in Crashes
  BY EnrichesCrash DEF Rewriting
<1>6. raced' \subseteq Crashes /\ raced \subseteq raced'
  BY <1>5 DEF StoreTyped
<1>7. StoreTyped'
  BY <1>1, <1>2, <1>4, <1>6 DEF StoreTyped, ThreadsUntouched
<1>8. Threads'
  BY DEF Threads, Enriching, ThreadsUntouched
<1>9. Readable(a) \/ analysis[j].at = a
  OBVIOUS
<1>10. \/ meta[a].state # "absent" /\ Readable(a)
       \/ ~Free(a)
  BY <1>9, WorkedOn, StoreAssumption DEF Readable, Turns
<1>11. \A k \in Analyses : \A b : Pending(k, b)' => k = j /\ pc = "linked" /\ b = text.link
  BY <1>1, <1>2, <1>3 DEF Pending, Running
<1>12. \A b \in Artifacts : Free(b) => Free(b)' \/ b = a \/ (pc = "linked" /\ b = text.link)
  BY <1>1, <1>2, <1>3, <1>11, StoreAssumption DEF Free
<1>13. Turns'
  <2>1. a # NoArtifact
    BY StoreAssumption
  <2>2. \A k \in Analyses : analysis'[k].pc \in Running => k = j
    BY <1>1, <1>3
  <2>3. pc \in Running \ {"reload"}
    BY DEF Running
  <2>4. \A k \in Analyses :
          /\ analysis'[k].pc = "none" <=> analysis'[k].at = NoArtifact
          /\ analysis'[k].pc = "linking" => analysis'[k].copy.pid /\ analysis'[k].copy.state = "json"
    BY <1>1, <2>1 DEF Turns
  <2>5. \A k \in Analyses : analysis'[k].pc \in {"classified", "linked", "back", "counted", "flagged"} => k = j
    BY <2>2 DEF Running
  <2>6. QED
    BY <1>1, <1>2, <2>2, <2>3, <2>4, <2>5 DEF Turns, Opposite
<1>14. AbsentIsFree'
  BY <1>10, <1>12 DEF AbsentIsFree, Readable, ThreadsUntouched
<1>15. SomeoneFills'
  BY <1>3 DEF SomeoneFills, ThreadsUntouched
<1>16. CoreFiles'
  <2>1. \A b \in Cores : \A i \in Syncs : creator[i][b] = "write" => Free(b) /\ b # a /\ ~(pc = "linked" /\ b = text.link)
    BY <1>10 DEF CoreFiles, Readable
  <2>2. QED
    BY <1>2, <1>12, <2>1 DEF CoreFiles, Readable, ThreadsUntouched, Artifacts
<1>17. AnalyzedOnce'
  <2>1. \A k \in Analyses \ {j} : analysis[k].at = a => a \in crowded'
    BY StoreAssumption DEF AnalyzedOnce
  <2>2. a \in marker => a \in crowded'
    BY <1>4 DEF AnalyzedOnce
  <2>3. /\ \A k, l \in Analyses : k # l /\ analysis'[k].at = analysis'[l].at /\ analysis'[k].at # NoArtifact
             => analysis'[k].at \in crowded'
        /\ \A b \in marker' \ crowded' : \A k \in Analyses : analysis'[k].at # b
    BY <1>1, <1>4, <2>1, <2>2 DEF AnalyzedOnce
  <2>4. \A b \in Artifacts : Settled(b)' => Settled(b)
    BY <1>1, <1>4 DEF Settled
  <2>5. Settled(a)' => pc = "flagged"
    BY <1>1, <2>1, <2>2 DEF Settled
  <2>6. Settled(a)' => text.inputs
    BY <2>4, <2>5 DEF AnalyzedOnce
  <2>7. \A b \in Artifacts : Settled(b) /\ pc = "linked" /\ b = text.link => copy.inputs
    BY DEF AnalyzedOnce
  <2>8. \A b \in Artifacts : Settled(b)' =>
          /\ Readable(b)' => meta'[b].inputs
          /\ rewrite'.at = b => rewrite'.text.inputs
          /\ \A k \in Analyses : Pending(k, b)' => analysis'[k].copy.inputs
    BY <1>1, <1>2, <1>11, <2>4, <2>6, <2>7 DEF AnalyzedOnce, Readable, ThreadsUntouched
  <2>9. QED
    BY <2>3, <2>8 DEF AnalyzedOnce
<1>18. ASSUME ~overlapped'
       PROVE  OneWriter' /\ LinksHold'
  <2>1. OneWriter /\ LinksHold /\ ~overlapped
    BY <1>18 DEF ThreadsUntouched
  <2>2. \A k \in Syncs : (Busy(k)' <=> Busy(k)) /\ \A b \in Artifacts : Rewriting(k, b)' <=> Rewriting(k, b)
    BY DEF Busy, Enriching, Rewriting, ThreadsUntouched
  <2>3. pc # "classified" => Known(a) /\ text.pid
    BY <2>1 DEF Known
  <2>4. \A b \in Artifacts : Known(b)' => \/ Known(b)
                                          \/ b = a /\ pc = "classified" /\ meta[a].pid
                                          \/ pc = "linked" /\ b = text.link
    <3>1. ASSUME NEW b \in Artifacts, NEW k \in Analyses, analysis'[k].at = b,
                 analysis'[k].pc \in {"linking", "linked", "back", "tracking", "counted", "kernel", "flagged"}
          PROVE  Known(b)
      <4>1. CASE k = j
        BY <1>1, <2>3, <3>1, <4>1
      <4>2. CASE k # j
        BY <1>1, <3>1, <4>2 DEF Known
      <4>3. QED
        BY <4>1, <4>2
    <3>2. QED
      BY <1>2, <1>11, <2>3, <3>1 DEF Known
  <2>5. \A b \in Artifacts : /\ Known(b)' /\ Readable(b) => meta[b].pid
                             /\ \A i \in Syncs : Rewriting(i, b) => ~Known(b)'
    BY <2>1, <2>4 DEF OneWriter
  <2>6. \A i \in Syncs : Rewriting(i, a) => a \in raced'
    BY <2>1, <2>3 DEF OneWriter
  <2>7. ~text.pid => ~Known(a)'
    BY <2>3, <2>5
  <2>8. \A b \in Artifacts : \A i \in Syncs : creator[i][b] = "write" => meta[b].state = "empty" /\ Free(b)'
    BY <1>10, <1>12, <2>1 DEF OneWriter, Readable
  <2>9. OneWriter'
    BY <1>2, <1>6, <2>1, <2>2, <2>5, <2>6, <2>7, <2>8 DEF OneWriter, Readable, ThreadsUntouched
  <2>10. \A b \in Artifacts : HasLink(b) => HasLink(b)'
    BY <1>3 DEF HasLink, ThreadsUntouched
  <2>11. pc # "linked" /\ text.link # NoArtifact => HasLink(text.link)'
    BY <2>1, <2>10 DEF LinksHold, Sound, Opposite
  <2>12. pc = "linked" => text.link # NoArtifact
    BY StoreAssumption DEF Opposite
  <2>13. \A b \in Artifacts : meta[b].link # NoArtifact => meta[b].link \in Artifacts
    BY DEF StoreTyped, MetaFile
  <2>14. Sound(a, text)' /\ \A b \in Artifacts : Sound(b, meta[b])'
    BY <2>1 DEF Sound, Opposite, LinksHold, ThreadsUntouched
  <2>15. LinksHold'
    BY <1>1, <1>2, <2>1, <2>10, <2>11, <2>12, <2>13, <2>14 DEF LinksHold, ThreadsUntouched, Sound, Opposite
  <2>16. QED
    BY <2>9, <2>15
<1>19. QED
  BY <1>7, <1>8, <1>13, <1>14, <1>15, <1>16, <1>17, <1>18

\* A coroutine that ends as it begins: another one at the same artifact may be recorded.
LEMMA NeverBegunKeeps ==
  ASSUME StoreInv, NEW j \in Analyses, analysis[j].pc = "none", Return(j), NEW a \in Artifacts,
         ThreadsUntouched, UNCHANGED <<lldb, marker, rewrite, raced>>,
         crowded' \in {crowded, crowded \cup {a}}
  PROVE  StoreInv'
<1> USE DEF StoreInv, ThreadsUntouched
<1>1. /\ analysis' \in [Analyses -> AnalysisType]
      /\ analysis'[j].pc = "none" /\ analysis'[j].at = NoArtifact
      /\ \A k \in Analyses \ {j} : analysis'[k] = analysis[k]
  BY ReturnFacts DEF StoreTyped
<1>2. crowded \subseteq crowded' /\ crowded' \subseteq Artifacts
  BY DEF StoreTyped
<1>3. \A k \in Analyses : /\ analysis'[k].pc = analysis[k].pc /\ analysis'[k].at = analysis[k].at
                          /\ analysis[k].pc # "none" => analysis'[k] = analysis[k]
  BY <1>1 DEF Turns
<1>4. StoreTyped'
  BY <1>1, <1>2 DEF StoreTyped
<1>5. \A b \in Artifacts : (Free(b)' <=> Free(b)) /\ (Known(b)' <=> Known(b))
  BY <1>3 DEF Free, Known, Pending
<1>6. Threads' /\ SomeoneFills'
  BY DEF Threads, Enriching, SomeoneFills
<1>7. Turns'
  BY <1>3 DEF Turns, Opposite
<1>8. AbsentIsFree' /\ CoreFiles'
  BY <1>5 DEF AbsentIsFree, CoreFiles, Readable, Artifacts
<1>9. AnalyzedOnce'
  <2>1. \A b \in Artifacts : Settled(b)' => Settled(b)
    BY <1>2, <1>3 DEF Settled
  <2>2. \A k \in Analyses : \A b : Pending(k, b)' => Pending(k, b) /\ analysis'[k] = analysis[k]
    BY <1>3 DEF Pending
  <2>3. \A b \in Artifacts : Settled(b)' =>
          /\ Readable(b)' => meta'[b].inputs
          /\ rewrite'.at = b => rewrite'.text.inputs
          /\ \A k \in Analyses : Pending(k, b)' => analysis'[k].copy.inputs
    BY <2>1, <2>2 DEF AnalyzedOnce, Readable
  <2>4. /\ \A k, l \in Analyses : k # l /\ analysis'[k].at = analysis'[l].at /\ analysis'[k].at # NoArtifact
             => analysis'[k].at \in crowded'
        /\ \A b \in marker' \ crowded' : \A k \in Analyses : analysis'[k].at # b
    BY <1>2, <1>3 DEF AnalyzedOnce
  <2>5. QED
    BY <2>3, <2>4 DEF AnalyzedOnce
<1>10. ASSUME ~overlapped'
       PROVE  OneWriter' /\ LinksHold'
  BY <1>3, <1>5, <1>10 DEF OneWriter, Busy, Enriching, Rewriting, Readable, LinksHold, Sound, HasLink, Opposite
<1>11. QED
  BY <1>4, <1>6, <1>7, <1>8, <1>9, <1>10

\* What a coroutine makes of lldb's output.
LEMMA ClassifyKeeps ==
  ASSUME StoreInv, NEW j \in Analyses, LoopFree, NEW a \in Artifacts, NEW shown \in BOOLEAN,
         Classify(j, a, shown),
         ThreadsUntouched, UNCHANGED marker,
         lldb' \subseteq lldb \cup {a},
         \/ analysis[j].pc = "lldb" /\ analysis[j].at = a /\ crowded' = crowded
         \/ /\ analysis[j].pc = "none" /\ a \notin marker /\ shown /\ lldb' = lldb
            /\ crowded' = IF \E k \in Analyses : analysis[k].at = a THEN crowded \cup {a} ELSE crowded
  PROVE  StoreInv'
<1> USE DEF StoreInv
<1>1. meta[a] \in MetaFile /\ Blank("absent") \in MetaFile
  BY BlankFacts DEF StoreTyped, MetaStates
<1>2. CASE /\ shown /\ Readable(a)
           /\ Goto(j, a, "classified", Blank("absent"))
           /\ Rewrite(a, meta[a])
           /\ raced' = IF \E i \in Syncs : Rewriting(i, a) THEN raced \cup {a} ELSE raced
  <2>1. a \in Cores => meta[a].pid
    BY <1>2 DEF CoreFiles
  <2>2. ~overlapped => Sound(a, meta[a])
    BY DEF LinksHold
  <2>3. QED
    BY <1>1, <1>2, <2>1, <2>2, BeginsKeeps DEF Readable
<1>3. CASE shown /\ ~Readable(a) /\ Return(j) /\ UNCHANGED <<rewrite, raced>>
  <2>1. CASE analysis[j].pc = "lldb"
    BY <1>3, <2>1, DoneKeeps
  <2>2. CASE analysis[j].pc = "none"
    BY <1>3, <2>2, NeverBegunKeeps
  <2>3. QED
    BY <2>1, <2>2
<1>4. CASE ~shown /\ Goto(j, a, "reload", Blank("absent")) /\ UNCHANGED <<rewrite, raced>>
  BY <1>1, <1>4, GoesOnKeeps
<1>5. QED
  BY <1>2, <1>3, <1>4 DEF Classify

LEMMA StartAnalysisKeeps ==
  ASSUME StoreInv, NEW j \in Analyses, NEW a \in Artifacts, StartAnalysis(j, a)
  PROVE  StoreInv'
<1> USE DEF StoreInv
<1>1. /\ LoopFree /\ analysis[j].pc = "none" /\ a \notin marker
      /\ crowded' = IF \E k \in Analyses : analysis[k].at = a THEN crowded \cup {a} ELSE crowded
      /\ ThreadsUntouched /\ UNCHANGED <<lldb, marker>>
  BY DEF StartAnalysis, Analyzing, files, ThreadsUntouched
<1>2. CASE a \in lldb /\ Classify(j, a, TRUE)
  BY <1>1, <1>2, ClassifyKeeps
<1>3. CASE a \notin lldb /\ Readable(a) /\ Goto(j, a, "lldb", Blank("absent")) /\ UNCHANGED <<rewrite, raced>>
  <2>1. Blank("absent") \in MetaFile /\ "lldb" \in {"reload"} \cup Awaiting
    BY BlankFacts DEF MetaStates, Awaiting
  <2>2. QED
    BY <1>1, <1>3, <2>1, GoesOnKeeps
<1>4. QED
  BY <1>2, <1>3 DEF StartAnalysis

LEMMA LldbEndsKeeps ==
  ASSUME StoreInv, NEW j \in Analyses, LldbEnds(j)
  PROVE  StoreInv'
<1> DEFINE shown == analysis[j].at \in lldb'
<1>1. /\ LoopFree /\ analysis[j].pc = "lldb"
      /\ ThreadsUntouched /\ UNCHANGED <<marker, crowded>>
      /\ lldb' \subseteq lldb \cup {analysis[j].at}
  BY DEF LldbEnds, ThreadsUntouched
<1>2. analysis[j].at \in Artifacts
  BY <1>1, WorkedOn
<1>3. shown \in BOOLEAN /\ Classify(j, analysis[j].at, shown)
  BY DEF LldbEnds
<1> HIDE DEF shown
<1>4. QED
  BY <1>1, <1>2, <1>3, ClassifyKeeps

LEMMA ReloadKeeps ==
  ASSUME StoreInv, NEW j \in Analyses, Reload(j)
  PROVE  StoreInv'
<1> USE DEF StoreInv
<1> DEFINE a == analysis[j].at
<1>1. /\ analysis[j].pc = "reload"
      /\ ThreadsUntouched /\ UNCHANGED <<lldb, rewrite, raced, crowded>>
  BY DEF Reload, history, ThreadsUntouched
<1>2. a \in Artifacts /\ meta[a] \in MetaFile /\ Blank("absent") \in MetaFile
  BY <1>1, WorkedOn, BlankFacts DEF StoreTyped, MetaStates
<1>3. CASE Return(j) /\ UNCHANGED marker
  BY <1>1, <1>3, DoneKeeps
<1>4. CASE Readable(a) /\ ~meta[a].pid /\ Mark(j)
  <2>1. a \notin Cores
    BY <1>4 DEF CoreFiles
  <2>2. QED
    BY <1>1, <1>4, <2>1, DoneKeeps DEF Mark
<1>5. CASE Readable(a) /\ meta[a].pid /\ Goto(j, a, "linking", meta[a]) /\ UNCHANGED marker
  <2>1. "linking" \in {"reload"} \cup Awaiting
    BY DEF Awaiting
  <2>2. QED
    BY <1>1, <1>2, <1>5, <2>1, GoesOnKeeps DEF Readable
<1>6. CASE Readable(a) /\ meta[a].pid /\ Goto(j, a, "tracking", Blank("absent")) /\ UNCHANGED marker
  <2>1. "tracking" \in {"reload"} \cup Awaiting
    BY DEF Awaiting
  <2>2. QED
    BY <1>1, <1>2, <1>6, <2>1, GoesOnKeeps
<1>7. QED
  BY <1>3, <1>4, <1>5, <1>6 DEF Reload

LEMMA LinkKeeps ==
  ASSUME StoreInv, NEW j \in Analyses, Link(j)
  PROVE  StoreInv'
<1> USE DEF StoreInv
<1> DEFINE a == analysis[j].at
<1>1. /\ LoopFree /\ analysis[j].pc = "linking"
      /\ ThreadsUntouched /\ UNCHANGED <<lldb, marker, raced, crowded>>
  BY DEF Link, history, files, ThreadsUntouched
<1>2. a \in Artifacts /\ Blank("absent") \in MetaFile
  BY <1>1, WorkedOn, BlankFacts DEF MetaStates
<1>3. CASE Return(j) /\ UNCHANGED rewrite
  BY <1>1, <1>3, DoneKeeps
<1>4. ASSUME NEW b \in Counterparts(a),
             Rewrite(a, [analysis[j].copy EXCEPT !.link = b]),
             Goto(j, a, "linked", [meta[b] EXCEPT !.link = a])
      PROVE  StoreInv'
  <2> DEFINE text == [analysis[j].copy EXCEPT !.link = b]
             copy == [meta[b] EXCEPT !.link = a]
  <2>1. b \in Artifacts /\ Readable(b) /\ meta[b].pid /\ Opposite(a, b)
    BY <1>4 DEF Counterparts, Opposite
  <2>2. analysis[j].copy \in MetaFile /\ analysis[j].copy.pid /\ analysis[j].copy.state = "json"
    BY <1>1 DEF StoreTyped, AnalysisType, Turns
  <2>3. text \in MetaFile /\ text.pid /\ text.state = "json" /\ text.link = b
    BY <2>1, <2>2 DEF MetaFile
  <2>4. meta[b] \in MetaFile
    BY <2>1 DEF StoreTyped
  <2>5. /\ copy \in MetaFile /\ copy.pid /\ copy.state = "json" /\ copy.link = a
        /\ copy.inputs = meta[b].inputs
    BY <1>2, <2>1, <2>4 DEF MetaFile, Readable
  <2>6. Rewrite(a, text) /\ Goto(j, a, "linked", copy)
    BY <1>4
  <2> HIDE DEF text, copy
  <2>7. Sound(a, text)
    BY <2>1, <2>3 DEF Sound
  <2>8. QED
    BY <1>1, <1>2, <2>1, <2>3, <2>5, <2>6, <2>7, BeginsKeeps
<1>5. CASE Goto(j, a, "tracking", Blank("absent")) /\ UNCHANGED rewrite
  <2>1. "tracking" \in {"reload"} \cup Awaiting
    BY DEF Awaiting
  <2>2. QED
    BY <1>1, <1>2, <1>5, <2>1, GoesOnKeeps
<1>6. QED
  BY <1>3, <1>4, <1>5 DEF Link

LEMMA TrackKeeps ==
  ASSUME StoreInv, NEW j \in Analyses, Track(j)
  PROVE  StoreInv'
<1> USE DEF StoreInv
<1> DEFINE a == analysis[j].at
<1>1. /\ LoopFree /\ analysis[j].pc = "tracking"
      /\ ThreadsUntouched /\ UNCHANGED <<lldb, marker, raced, crowded>>
  BY DEF Track, history, files, ThreadsUntouched
<1>2. a \in Artifacts /\ meta[a] \in MetaFile /\ Blank("absent") \in MetaFile
  BY <1>1, WorkedOn, BlankFacts DEF StoreTyped, MetaStates
<1>3. CASE Return(j) /\ UNCHANGED rewrite
  BY <1>1, <1>3, DoneKeeps
<1>4. CASE /\ Readable(a)
           /\ Rewrite(a, [meta[a] EXCEPT !.inputs = TRUE])
           /\ Goto(j, a, "counted", Blank("absent"))
  <2> DEFINE text == [meta[a] EXCEPT !.inputs = TRUE]
  <2>1. /\ text \in MetaFile /\ text.inputs /\ text.state = "json"
        /\ text.pid = meta[a].pid /\ text.link = meta[a].link
    BY <1>2, <1>4 DEF MetaFile, Readable
  <2>2. Rewrite(a, text)
    BY <1>4
  <2> HIDE DEF text
  <2>3. a \in Cores => text.pid
    BY <1>4, <2>1 DEF CoreFiles
  <2>4. ~overlapped => text.pid
    BY <1>1, <1>2, <1>4, <2>1 DEF OneWriter, Known
  <2>5. ~overlapped => Sound(a, text)
    BY <1>2, <2>1, <2>4 DEF LinksHold, Sound
  <2>6. QED
    BY <1>1, <1>2, <1>4, <2>1, <2>2, <2>3, <2>4, <2>5, BeginsKeeps
<1>5. CASE a \notin Tracked /\ Goto(j, a, "kernel", Blank("absent")) /\ UNCHANGED rewrite
  <2>1. "kernel" \in {"reload"} \cup Awaiting
    BY DEF Awaiting
  <2>2. QED
    BY <1>1, <1>2, <1>5, <2>1, GoesOnKeeps
<1>6. QED
  BY <1>3, <1>4, <1>5 DEF Track

LEMMA FinishKeeps ==
  ASSUME StoreInv, NEW j \in Analyses, Finish(j)
  PROVE  StoreInv'
<1> USE DEF StoreInv
<1> DEFINE a == analysis[j].at
<1>1. /\ LoopFree /\ analysis[j].pc = "kernel"
      /\ ThreadsUntouched /\ UNCHANGED <<lldb, raced, crowded>>
  BY DEF Finish, history, ThreadsUntouched
<1>2. a \in Artifacts /\ meta[a] \in MetaFile /\ Blank("absent") \in MetaFile
  BY <1>1, WorkedOn, BlankFacts DEF StoreTyped, MetaStates
<1>3. CASE Return(j) /\ UNCHANGED <<rewrite, marker>>
  BY <1>1, <1>3, DoneKeeps
<1>4. CASE /\ Readable(a)
           /\ Rewrite(a, meta[a])
           /\ Goto(j, a, "flagged", Blank("absent"))
           /\ UNCHANGED marker
  <2>1. meta[a].state = "json" /\ (a \in Cores => meta[a].pid)
    BY <1>4 DEF CoreFiles, Readable
  <2>2. ~overlapped => meta[a].pid
    BY <1>1, <1>2, <1>4 DEF OneWriter, Known
  <2>3. ~overlapped => Sound(a, meta[a])
    BY <1>2 DEF LinksHold
  <2>4. QED
    BY <1>1, <1>2, <1>4, <2>1, <2>2, <2>3, BeginsKeeps
<1>5. CASE Mark(j) /\ UNCHANGED rewrite
  BY <1>1, <1>5, DoneKeeps DEF Mark
<1>6. QED
  BY <1>3, <1>4, <1>5 DEF Finish

LEMMA CancelAnalysisKeeps ==
  ASSUME StoreInv, NEW j \in Analyses, CancelAnalysis(j)
  PROVE  StoreInv'
BY DoneKeeps DEF CancelAnalysis, Awaiting, ThreadsUntouched, history, files

\* While a file is being rewritten, one coroutine is running, and the file is there.
LEMMA RewritingFacts ==
  ASSUME StoreInv, rewrite.phase # "none"
  PROVE  /\ rewrite.at \in Artifacts /\ rewrite.at \in dir
         /\ meta[rewrite.at].state # "absent" /\ ~Free(rewrite.at)
         /\ rewrite.text \in MetaFile /\ rewrite.text.state = "json"
         /\ \A i \in Syncs : creator[i][rewrite.at] = "write" => rewrite.at \notin Cores /\ overlapped
         /\ \E j \in Analyses :
              /\ analysis[j].pc \in Running \ {"reload"}
              /\ \A k \in Analyses \ {j} : analysis[k].pc \notin Running
<1> USE DEF StoreInv
<1>1. rewrite.at \in Artifacts /\ rewrite.text.state = "json" /\ ~Free(rewrite.at)
  BY DEF Turns, Free
<1>2. rewrite.text \in MetaFile
  BY DEF StoreTyped, RewriteType
<1>3. meta[rewrite.at].state # "absent" /\ rewrite.at \in dir
  BY <1>1 DEF AbsentIsFree
<1>4. \A i \in Syncs : creator[i][rewrite.at] = "write" => rewrite.at \notin Cores /\ overlapped
  BY <1>1 DEF CoreFiles, OneWriter
<1>5. PICK j \in Analyses : analysis[j].pc \in Running \ {"reload"}
  BY DEF Turns
<1>6. \A k \in Analyses \ {j} : analysis[k].pc \notin Running
  BY <1>5 DEF Turns
<1>7. QED
  BY <1>1, <1>2, <1>3, <1>4, <1>5, <1>6

LEMMA OpenFileKeeps ==
  ASSUME StoreInv, OpenFile
  PROVE  StoreInv'
<1> USE DEF StoreInv
<1> DEFINE a == rewrite.at
<1>1. /\ rewrite.phase = "open"
      /\ meta' = [meta EXCEPT ![a] = Blank("empty")]
      /\ UNCHANGED <<logged, dir, lldb, marker, creator, sync, enrich, analysis,
                     failed, overlapped, raced, crowded>>
  BY DEF OpenFile, history
<1>2. /\ a \in Artifacts /\ a \in dir
      /\ meta[a].state # "absent" /\ ~Free(a)
      /\ \A i \in Syncs : creator[i][a] = "write" => a \notin Cores /\ overlapped
  BY <1>1, RewritingFacts
<1>3. /\ Blank("empty") \in MetaFile
      /\ Blank("empty").state = "empty" /\ ~Blank("empty").pid /\ Blank("empty").link = NoArtifact
  BY BlankFacts DEF MetaStates
<1>4. /\ meta' \in [Artifacts -> MetaFile]
      /\ meta'[a].state = "empty" /\ ~meta'[a].pid /\ meta'[a].link = NoArtifact
      /\ \A b \in Artifacts \ {a} : meta'[b] = meta[b]
  BY <1>1, <1>2, <1>3, MetaUpdate DEF StoreTyped
<1>5. /\ rewrite' \in RewriteType
      /\ rewrite'.phase = "write" /\ rewrite'.at = a /\ rewrite'.text = rewrite.text
  BY DEF OpenFile, StoreTyped, RewriteType
<1> HIDE DEF a
<1>6. StoreTyped'
  BY <1>1, <1>4, <1>5 DEF StoreTyped
<1>7. Threads'
  BY <1>1 DEF Threads, Enriching
<1>8. Turns'
  BY <1>1, <1>5 DEF Turns, Opposite, a
<1>9. \A b \in Artifacts : (Free(b)' <=> Free(b)) /\ (Known(b)' <=> Known(b))
  BY <1>1, <1>5 DEF Free, Known, Pending, a
<1>10. AbsentIsFree'
  BY <1>1, <1>2, <1>4, <1>9 DEF AbsentIsFree
<1>11. SomeoneFills'
  <2>1. ASSUME NEW b \in dir \ failed, b # a
        PROVE  meta'[b] = meta[b] /\ ~(rewrite.at = b)
    BY <1>4, <2>1 DEF StoreTyped, a
  <2>2. QED
    BY <1>1, <1>4, <1>5, <2>1 DEF SomeoneFills
<1>12. CoreFiles'
  <2>1. \A b \in Cores : b # a => meta'[b] = meta[b]
    BY <1>4 DEF Artifacts
  <2>2. QED
    BY <1>1, <1>2, <1>4, <1>5, <1>9, <2>1 DEF CoreFiles, Readable, Artifacts, a
<1>13. AnalyzedOnce'
  <2>1. \A b \in Artifacts : Settled(b)' => Settled(b)
    BY <1>1 DEF Settled
  <2>2. \A b \in Artifacts : Settled(b)' =>
          /\ Readable(b)' => meta'[b].inputs
          /\ rewrite'.at = b => rewrite'.text.inputs
          /\ \A k \in Analyses : Pending(k, b)' => analysis'[k].copy.inputs
    BY <1>1, <1>4, <1>5, <2>1 DEF AnalyzedOnce, Readable, Pending, a
  <2>3. QED
    BY <1>1, <2>2 DEF AnalyzedOnce
<1>14. ASSUME ~overlapped'
       PROVE  OneWriter' /\ LinksHold'
  <2>1. OneWriter /\ LinksHold /\ ~overlapped
    BY <1>1, <1>14
  <2>2. \A k \in Syncs : (Busy(k)' <=> Busy(k)) /\ \A b \in Artifacts : Rewriting(k, b)' <=> Rewriting(k, b)
    BY <1>1 DEF Busy, Enriching, Rewriting
  <2>3. \A i \in Syncs : creator[i][a] = "none"
    <3>1. \A i \in Syncs : creator[i][a] \notin {"mkdir", "fill", "write"}
      BY <1>2, <2>1 DEF OneWriter
    <3>2. QED
      BY <1>2, <3>1 DEF StoreTyped, CreatorPhases
  <2>4. OneWriter'
    BY <1>1, <1>2, <1>4, <1>5, <1>9, <2>1, <2>2, <2>3 DEF OneWriter, Readable, a
  <2>5. \A b \in Artifacts : HasLink(b) => HasLink(b)'
    <3>1. meta[a].link # NoArtifact => rewrite.text.link # NoArtifact
      BY <1>2, <2>1 DEF LinksHold, a
    <3>2. QED
      BY <1>1, <1>4, <1>5, <3>1 DEF HasLink, a
  <2>6. /\ \A b \in Artifacts : meta[b].link \in Artifacts \cup {NoArtifact}
        /\ rewrite.text.link \in Artifacts \cup {NoArtifact}
    BY DEF StoreTyped, MetaFile, RewriteType
  <2>7. LinksHold'
    BY <1>1, <1>2, <1>4, <1>5, <2>1, <2>5, <2>6 DEF LinksHold, Sound, Opposite, a
  <2>8. QED
    BY <2>4, <2>7
<1>15. QED
  BY <1>6, <1>7, <1>8, <1>10, <1>11, <1>12, <1>13, <1>14

LEMMA RewriteFailsKeeps ==
  ASSUME StoreInv, NEW j \in Analyses, RewriteFails(j)
  PROVE  StoreInv'
<1> USE DEF StoreInv
<1>1. /\ rewrite.phase # "none" /\ analysis[j].pc \in Running
      /\ failed' = failed \cup {rewrite.at}
      /\ rewrite' = NoRewrite /\ Return(j)
      /\ UNCHANGED <<logged, dir, meta, lldb, marker, creator, sync, enrich, overlapped, raced, crowded>>
  BY DEF RewriteFails, files
<1>2. rewrite.at \in Artifacts /\ \A k \in Analyses \ {j} : analysis[k].pc \notin Running
  BY <1>1, RewritingFacts
<1>3. /\ analysis' \in [Analyses -> AnalysisType]
      /\ analysis'[j].pc = "none" /\ analysis'[j].at = NoArtifact
      /\ \A k \in Analyses \ {j} : analysis'[k] = analysis[k]
  BY <1>1, ReturnFacts DEF StoreTyped
<1>4. /\ rewrite' \in RewriteType /\ rewrite'.phase = "none" /\ rewrite'.at = NoArtifact
      /\ \A b \in Artifacts : rewrite'.at # b
  BY <1>1, NoRewriteFacts, StoreAssumption
<1>5. \A k \in Analyses : \A b : ~Pending(k, b)'
  BY <1>2, <1>3 DEF Pending, Running
<1>6. StoreTyped' /\ Threads'
  BY <1>1, <1>2, <1>3, <1>4 DEF StoreTyped, Threads, Enriching
<1>7. \A b \in Artifacts : (Free(b) => Free(b)') /\ (Known(b)' => Known(b))
  BY <1>1, <1>3, <1>4, <1>5, StoreAssumption DEF Free, Known
<1>8. Turns'
  BY <1>2, <1>3, <1>4 DEF Turns, Opposite, Running
<1>9. AbsentIsFree'
  BY <1>1, <1>7 DEF AbsentIsFree
<1>10. SomeoneFills'
  BY <1>1 DEF SomeoneFills
<1>11. CoreFiles'
  BY <1>1, <1>4, <1>7 DEF CoreFiles, Readable, Artifacts
<1>12. AnalyzedOnce'
  <2>1. \A b \in Artifacts : Settled(b)' => Settled(b)
    BY <1>1, <1>3 DEF Settled
  <2>2. \A k \in Analyses : analysis'[k].at \in {analysis[k].at, NoArtifact}
    BY <1>3
  <2>3. \A k, l \in Analyses : k # l /\ analysis'[k].at = analysis'[l].at /\ analysis'[k].at # NoArtifact
          => analysis'[k].at \in crowded
    BY <2>2 DEF AnalyzedOnce
  <2>4. \A b \in marker \ crowded : \A k \in Analyses : analysis'[k].at # b
    <3>1. marker \subseteq Artifacts
      BY DEF StoreTyped
    <3>2. QED
      BY <2>2, <3>1, StoreAssumption DEF AnalyzedOnce
  <2>5. QED
    BY <1>1, <1>4, <1>5, <2>1, <2>3, <2>4 DEF AnalyzedOnce, Readable
<1>13. ASSUME ~overlapped'
       PROVE  OneWriter' /\ LinksHold'
  <2>1. OneWriter /\ LinksHold
    BY <1>1, <1>13
  <2>2. \A k \in Syncs : (Busy(k)' <=> Busy(k)) /\ \A b \in Artifacts : Rewriting(k, b)' <=> Rewriting(k, b)
    BY <1>1 DEF Busy, Enriching, Rewriting
  <2>3. OneWriter'
    BY <1>1, <1>4, <1>7, <2>1, <2>2 DEF OneWriter, Readable
  <2>4. \A b \in Artifacts : HasLink(b) => HasLink(b)'
    BY <1>1 DEF HasLink
  <2>5. \A b \in Artifacts : meta[b].link \in Artifacts \cup {NoArtifact}
    BY DEF StoreTyped, MetaFile
  <2>6. LinksHold'
    BY <1>1, <1>4, <2>1, <2>4, <2>5 DEF LinksHold, Sound, Opposite
  <2>7. QED
    BY <2>3, <2>6
<1>14. QED
  BY <1>6, <1>8, <1>9, <1>10, <1>11, <1>12, <1>13

\* The file is written and the coroutine goes on: it has nothing left to write, or it
\* turns to the counterpart.
LEMMA WriteFileKeeps ==
  ASSUME StoreInv, NEW j \in Analyses, WriteFile(j)
  PROVE  StoreInv'
<1> USE DEF StoreInv
<1>a. PICK a : a = rewrite.at
  OBVIOUS
<1>b. PICK b : b = rewrite.text.link
  OBVIOUS
<1>p. PICK p : p = analysis[j].pc
  OBVIOUS
<1> USE <1>a, <1>b, <1>p
<1>1. /\ rewrite.phase = "write"
      /\ UNCHANGED <<logged, dir, lldb, creator, sync, enrich, failed, overlapped, raced, crowded>>
  BY DEF WriteFile, history
<1>2. PICK new \in Written(meta[a], rewrite.text) : meta' = [meta EXCEPT ![a] = new]
  BY DEF WriteFile
<1>3. /\ a \in Artifacts /\ a \in dir
      /\ meta[a].state # "absent" /\ ~Free(a)
      /\ rewrite.text \in MetaFile /\ rewrite.text.state = "json"
      /\ \A i \in Syncs : creator[i][a] = "write" => a \notin Cores /\ overlapped
  BY <1>1, RewritingFacts
<1>4. p \in {"classified", "linked", "back", "counted", "flagged"}
  BY DEF WriteFile
<1>5. \A k \in Analyses \ {j} : analysis[k].pc \notin Running
  BY <1>4 DEF Turns, Running
<1>6. analysis[j].at \in Artifacts /\ ~Free(analysis[j].at)
  BY <1>4, WorkedOn
<1>7. p \in {"classified", "linked", "counted", "flagged"} => analysis[j].at = a
  BY DEF Turns
<1>8. meta[a] \in MetaFile
  BY <1>3 DEF StoreTyped
<1>9. /\ new \in MetaFile /\ new.state \in {"json", "garbled"}
      /\ new = rewrite.text \/ (new.state = "garbled" /\ ~new.pid /\ new.link = NoArtifact)
      /\ meta[a].state = "empty" => new = rewrite.text
  BY <1>2, <1>3, <1>8, WrittenFacts
<1>10. /\ meta' \in [Artifacts -> MetaFile] /\ meta'[a] = new
       /\ \A c \in Artifacts \ {a} : meta'[c] = meta[c]
  BY <1>2, <1>3, <1>9, MetaUpdate DEF StoreTyped
<1>11. analysis[j] \in AnalysisType /\ analysis[j].copy \in MetaFile
  BY DEF StoreTyped, AnalysisType
<1>12. Blank("absent") \in MetaFile
  BY BlankFacts DEF MetaStates
<1>13. p = "linked" => /\ Opposite(a, b) /\ b \in Artifacts /\ rewrite.text.pid
                       /\ analysis[j].copy.pid /\ analysis[j].copy.state = "json"
                       /\ analysis[j].copy.link = a /\ Pending(j, b)
  BY <1>7 DEF Turns, Opposite, Pending
\* What the coroutine turns to.
<1>14. /\ analysis' \in [Analyses -> AnalysisType]
       /\ \A k \in Analyses \ {j} : analysis'[k] = analysis[k]
       /\ rewrite' \in RewriteType
       /\ \/ /\ p = "linked"
             /\ analysis'[j].pc = "back" /\ analysis'[j].at = a
             /\ rewrite'.phase = "open" /\ rewrite'.at = b /\ rewrite'.text = analysis[j].copy
             /\ marker' = marker
          \/ /\ p # "linked"
             /\ rewrite'.phase = "none" /\ rewrite'.at = NoArtifact
             /\ \/ /\ analysis'[j].at = analysis[j].at
                   /\ \/ p = "classified" /\ analysis'[j].pc = "reload"
                      \/ p = "back" /\ analysis'[j].pc = "tracking"
                      \/ p = "counted" /\ analysis'[j].pc = "kernel"
                   /\ marker' = marker
                \/ /\ p = "flagged" /\ analysis'[j].pc = "none" /\ analysis'[j].at = NoArtifact
                   /\ marker' = marker \cup {a}
  <2>1. CASE p = "linked"
    <3>1. Goto(j, a, "back", Blank("absent")) /\ Rewrite(b, analysis[j].copy) /\ marker' = marker
      BY <1>7, <2>1 DEF WriteFile
    <3>2. "back" \in Awaiting \cup Running
      BY DEF Running
    <3>3. /\ analysis' \in [Analyses -> AnalysisType]
          /\ \A k \in Analyses \ {j} : analysis'[k] = analysis[k]
          /\ analysis'[j].pc = "back" /\ analysis'[j].at = a
      BY <1>3, <1>12, <3>1, <3>2, GotoFacts DEF StoreTyped
    <3>4. /\ rewrite' \in RewriteType
          /\ rewrite'.phase = "open" /\ rewrite'.at = b /\ rewrite'.text = analysis[j].copy
      BY <1>11, <1>13, <2>1, <3>1, RewriteFacts
    <3>5. QED
      BY <2>1, <3>1, <3>3, <3>4
  <2>2. ASSUME NEW pc \in {"reload", "tracking", "kernel"},
               Goto(j, analysis[j].at, pc, Blank("absent")), rewrite' = NoRewrite
        PROVE  /\ analysis' \in [Analyses -> AnalysisType]
               /\ \A k \in Analyses \ {j} : analysis'[k] = analysis[k]
               /\ analysis'[j].pc = pc /\ analysis'[j].at = analysis[j].at
               /\ rewrite' \in RewriteType /\ rewrite'.phase = "none" /\ rewrite'.at = NoArtifact
    <3>1. pc \in Awaiting \cup Running
      BY DEF Running, Awaiting
    <3>2. QED
      BY <1>6, <1>12, <2>2, <3>1, GotoFacts, NoRewriteFacts DEF StoreTyped
  <2>3. CASE p = "classified"
    BY <2>2, <2>3 DEF WriteFile
  <2>4. CASE p = "back"
    BY <2>2, <2>4 DEF WriteFile
  <2>5. CASE p = "counted"
    BY <2>2, <2>5 DEF WriteFile
  <2>6. CASE p = "flagged"
    <3>1. Mark(j) /\ rewrite' = NoRewrite
      BY <2>6 DEF WriteFile
    <3>2. QED
      BY <1>7, <2>6, <3>1, ReturnFacts, NoRewriteFacts DEF Mark, StoreTyped
  <2>7. QED
    BY <1>4, <2>1, <2>3, <2>4, <2>5, <2>6
<1>15. StoreTyped'
  BY <1>1, <1>3, <1>10, <1>14 DEF StoreTyped
<1>16. Threads'
  BY <1>1 DEF Threads, Enriching
<1>17. \A k \in Analyses : \A c : ~Pending(k, c)'
  BY <1>5, <1>14 DEF Pending, Running
<1>18. \A c \in Artifacts : Free(c) => Free(c)'
  <2>1. analysis'[j].at \in {analysis[j].at, NoArtifact}
    BY <1>7, <1>14
  <2>2. marker' \subseteq marker \cup {a}
    BY <1>14
  <2>3. ASSUME NEW c \in Artifacts, Free(c)
        PROVE  rewrite'.at # c
    BY <1>13, <1>14, <2>3, StoreAssumption DEF Free
  <2>4. QED
    BY <1>1, <1>3, <1>6, <1>14, <1>17, <2>1, <2>2, <2>3, StoreAssumption DEF Free
<1>19. Turns'
  <2>1. analysis'[j].pc = "none" <=> analysis'[j].at = NoArtifact
    BY <1>3, <1>6, <1>14, StoreAssumption
  <2>2. \A k, l \in Analyses : analysis'[k].pc \in Running /\ analysis'[l].pc \in Running => k = l
    BY <1>5, <1>14
  <2>3. CASE p = "linked"
    <3>1. Opposite(b, a)
      BY <1>3, <1>13, <2>3 DEF Opposite
    <3>2. "back" \in Running \ {"reload"}
      BY DEF Running
    <3>3. QED
      BY <1>5, <1>13, <1>14, <2>1, <2>2, <2>3, <3>1, <3>2 DEF Turns, Opposite, Running
  <2>4. CASE p # "linked"
    BY <1>5, <1>14, <2>1, <2>2, <2>4 DEF Turns, Opposite, Running
  <2>5. QED
    BY <2>3, <2>4
<1>20. AbsentIsFree'
  BY <1>1, <1>3, <1>9, <1>10, <1>18 DEF AbsentIsFree
<1>21. SomeoneFills'
  <2>1. ASSUME NEW c \in dir \ failed, c # a
        PROVE  meta'[c] = meta[c] /\ rewrite.at # c
    BY <1>10, <2>1 DEF StoreTyped
  <2>2. QED
    BY <1>1, <1>9, <1>10, <2>1 DEF SomeoneFills
<1>22. CoreFiles'
  <2>1. \A c \in Cores : c # a => meta'[c] = meta[c]
    BY <1>10 DEF Artifacts
  <2>2. a \in Cores => new = rewrite.text /\ rewrite.text.pid
    BY <1>1, <1>9 DEF CoreFiles
  <2>3. \A c \in Cores : rewrite'.at = c => rewrite'.text.pid /\ rewrite'.phase # "write"
    BY <1>13, <1>14, StoreAssumption DEF Artifacts
  <2>4. \A c \in Cores : \A i \in Syncs : creator[i][c] = "write" => c # a
    BY <1>3
  <2>5. QED
    BY <1>1, <1>3, <1>10, <1>18, <2>1, <2>2, <2>3, <2>4 DEF CoreFiles, Readable, Artifacts
<1>23. AnalyzedOnce'
  <2>1. \A k \in Analyses \ {j} : analysis[k].at = analysis[j].at => analysis[j].at \in crowded
    BY <1>6, StoreAssumption DEF AnalyzedOnce
  <2>2. analysis'[j].at \in {analysis[j].at, NoArtifact}
    BY <1>7, <1>14
  <2>3. \A k, l \in Analyses : k # l /\ analysis'[k].at = analysis'[l].at /\ analysis'[k].at # NoArtifact
          => analysis'[k].at \in crowded
    BY <1>14, <2>2 DEF AnalyzedOnce
  <2>4. \A c \in marker' \ crowded : \A k \in Analyses : analysis'[k].at # c
    <3>1. \A c \in marker \ crowded : \A k \in Analyses : analysis'[k].at # c
      <4>1. marker \subseteq Artifacts
        BY DEF StoreTyped
      <4>2. QED
        BY <1>14, <2>2, <4>1, StoreAssumption DEF AnalyzedOnce
    <3>2. CASE p = "flagged" /\ analysis'[j].at = NoArtifact /\ marker' = marker \cup {a}
      BY <1>3, <1>7, <1>14, <2>1, <3>1, <3>2, StoreAssumption
    <3>3. CASE marker' = marker
      BY <3>1, <3>3
    <3>4. QED
      BY <1>14, <3>2, <3>3
  <2>5. \A c \in Artifacts : Settled(c)' => Settled(c) \/ (p = "counted" /\ c = a)
    BY <1>1, <1>7, <1>14, StoreAssumption DEF Settled
  <2>6. p = "counted" => rewrite.text.inputs
    BY DEF Turns
  <2>7. Settled(a)' => rewrite.text.inputs
    BY <1>3, <2>5, <2>6 DEF AnalyzedOnce
  <2>8. ASSUME NEW c \in Artifacts, Settled(c)', rewrite'.at = c
        PROVE  rewrite'.text.inputs
    <3>1. p = "linked" /\ c = b /\ Settled(c)
      BY <1>14, <2>5, <2>8, StoreAssumption
    <3>2. QED
      BY <1>13, <1>14, <3>1 DEF AnalyzedOnce
  <2>9. \A c \in Artifacts : Settled(c)' /\ Readable(c)' => meta'[c].inputs
    BY <1>9, <1>10, <2>5, <2>7 DEF AnalyzedOnce, Readable
  <2>10. QED
    BY <1>1, <1>17, <2>3, <2>4, <2>8, <2>9 DEF AnalyzedOnce
<1>24. ASSUME ~overlapped'
       PROVE  OneWriter' /\ LinksHold'
  <2>1. OneWriter /\ LinksHold /\ ~overlapped
    BY <1>1, <1>24
  <2>2. \A k \in Syncs : (Busy(k)' <=> Busy(k)) /\ \A c \in Artifacts : Rewriting(k, c)' <=> Rewriting(k, c)
    BY <1>1 DEF Busy, Enriching, Rewriting
  <2>3. \/ new = rewrite.text
        \/ new.state = "garbled" /\ ~new.pid /\ new.link = NoArtifact /\ a \in raced /\ ~rewrite.text.pid
    BY <1>1, <1>9, <2>1 DEF OneWriter
  <2>4. \A c \in Artifacts : Known(c)' => Known(c)
    <3>1. ASSUME NEW c \in Artifacts, NEW k \in Analyses, analysis'[k].at = c,
                 analysis'[k].pc \in {"linking", "linked", "back", "tracking", "counted", "kernel", "flagged"}
          PROVE  Known(c)
      <4>1. CASE k = j
        BY <1>7, <1>14, <3>1, <4>1, StoreAssumption DEF Known
      <4>2. CASE k # j
        BY <1>14, <3>1, <4>2 DEF Known
      <4>3. QED
        BY <4>1, <4>2
    <3>2. ASSUME NEW c \in Artifacts, rewrite'.at = c
          PROVE  Known(c)
      BY <1>13, <1>14, <3>2, StoreAssumption DEF Known
    <3>3. QED
      BY <1>17, <3>1, <3>2 DEF Known
  <2>5. Known(a) => rewrite.text.pid
    BY <1>3, <2>1 DEF OneWriter
  <2>6. ~Known(a) => ~rewrite.text.pid
    BY DEF Known
  <2>7. \A c \in Artifacts :
          /\ meta'[c].state = "garbled" => c \in raced
          /\ Known(c)' /\ Readable(c)' => meta'[c].pid
          /\ rewrite'.at = c => rewrite'.text.pid
    <3>1. new.state = "garbled" => a \in raced
      BY <1>3, <2>3
    <3>2. Known(a) /\ new.state = "json" => new.pid
      BY <2>3, <2>5
    <3>3. \A c \in Artifacts : rewrite'.at = c => rewrite'.text.pid
      BY <1>13, <1>14, StoreAssumption
    <3>4. QED
      BY <1>10, <2>1, <2>4, <3>1, <3>2, <3>3 DEF OneWriter, Readable
  <2>8. \A i \in Syncs : \A c \in Artifacts : creator[i][c] # "none" => c # a
    <3>1. \A i \in Syncs : creator[i][a] \notin {"mkdir", "fill", "write"}
      BY <1>3, <2>1 DEF OneWriter
    <3>2. QED
      BY <1>3, <3>1 DEF StoreTyped, CreatorPhases
  <2>9. ASSUME NEW i \in Syncs, NEW c \in Artifacts, Rewriting(i, c)
        PROVE  /\ ~meta'[c].pid /\ ~Known(c)' /\ enrich[i].copy.link = NoArtifact
               /\ enrich[i].phase = "write" => meta'[c].state = "empty" \/ c \in raced
               /\ rewrite'.at = c => c \in raced
    <3>1. /\ ~meta[c].pid /\ ~Known(c) /\ enrich[i].copy.link = NoArtifact
          /\ enrich[i].phase = "write" => meta[c].state = "empty" \/ c \in raced
          /\ rewrite.at = c => c \in raced
      BY <2>1, <2>9 DEF OneWriter
    <3>2. rewrite'.at # c
      BY <1>13, <1>14, <3>1, StoreAssumption DEF Known
    <3>3. CASE c = a
      BY <1>10, <2>3, <2>4, <2>6, <3>1, <3>2, <3>3
    <3>4. CASE c # a
      BY <1>10, <2>4, <3>1, <3>2, <3>4
    <3>5. QED
      BY <3>3, <3>4
  <2>10. rewrite'.phase # "write"
    BY <1>14
  <2>11. \A i \in Syncs : \A c \in Artifacts :
           /\ creator[i][c] \in {"mkdir", "fill"} => meta'[c].state = "absent"
           /\ creator[i][c] = "write" => meta'[c].state = "empty" /\ Free(c)'
    BY <1>10, <1>18, <2>1, <2>8 DEF OneWriter
  <2>12. OneWriter'
    BY <1>1, <2>1, <2>2, <2>7, <2>9, <2>10, <2>11 DEF OneWriter
  <2>13. Sound(a, rewrite.text) /\ meta[a].link = NoArtifact
    BY <1>1, <1>3, <2>1 DEF LinksHold
  <2>14. new.link = rewrite.text.link
    BY <2>3, <2>13 DEF Sound
  <2>15. \A c \in Artifacts : HasLink(c) => HasLink(c)'
    BY <1>1, <1>10, <2>13, <2>14 DEF HasLink
  <2>16. b # NoArtifact => b \in Artifacts /\ HasLink(b)'
    <3>1. CASE p = "linked"
      BY <1>3, <1>13, <1>14, <3>1, StoreAssumption DEF HasLink
    <3>2. CASE p # "linked"
      <4>1. \A k \in Analyses : analysis[k].pc # "linked"
        BY <1>5, <3>2 DEF Running
      <4>2. b # NoArtifact => HasLink(b)
        BY <1>3, <2>1, <4>1 DEF LinksHold
      <4>3. QED
        BY <2>13, <2>15, <4>2 DEF Sound, Opposite
    <3>3. QED
      BY <3>1, <3>2
  <2>17. \A c \in Artifacts : meta[c].link # NoArtifact => meta[c].link \in Artifacts
    BY DEF StoreTyped, MetaFile
  <2>18. \A c \in Artifacts : Sound(c, meta[c])' /\ (meta[c].link # NoArtifact => HasLink(meta[c].link))'
    <3>1. ASSUME NEW c \in Artifacts, c # a
          PROVE  Sound(c, meta[c])' /\ (meta[c].link # NoArtifact => HasLink(meta[c].link))'
      BY <1>10, <2>1, <2>15, <2>17, <3>1 DEF LinksHold, Sound, Opposite
    <3>2. Sound(a, meta[a])' /\ (meta[a].link # NoArtifact => HasLink(meta[a].link))'
      BY <1>10, <2>3, <2>13, <2>14, <2>16 DEF Sound, Opposite
    <3>3. QED
      BY <3>1, <3>2
  <2>19. ASSUME NEW c \in Artifacts, rewrite'.at = c
         PROVE  /\ Sound(c, rewrite.text)'
                /\ rewrite'.phase = "open" /\ rewrite'.text.link # NoArtifact
                /\ HasLink(rewrite.text.link)'
    <3>1. p = "linked" /\ c = b /\ rewrite'.phase = "open" /\ rewrite'.text = analysis[j].copy
      BY <1>14, <2>19, StoreAssumption
    <3>2. Opposite(c, a)
      BY <1>3, <1>13, <3>1 DEF Opposite
    <3>3. rewrite'.text.link = a /\ a # NoArtifact
      BY <1>3, <1>13, <3>1, StoreAssumption
    <3>4. meta'[a].link = b /\ b # NoArtifact
      BY <1>10, <1>13, <2>14, <3>1, StoreAssumption DEF Opposite
    <3>5. Sound(c, rewrite.text)'
      BY <1>13, <3>1, <3>2 DEF Sound, Opposite
    <3>6. HasLink(a)'
      BY <3>4 DEF HasLink
    <3>7. QED
      BY <3>1, <3>3, <3>5, <3>6
  <2>20. LinksHold'
    BY <2>18, <2>19 DEF LinksHold
  <2>21. QED
    BY <2>12, <2>20
<1>25. QED
  BY <1>15, <1>16, <1>19, <1>20, <1>21, <1>22, <1>23, <1>24

-----------------------------------------------------------------------------
(***************************************************************************)
(* The invariant                                                           *)
(***************************************************************************)

LEMMA StoreInvInit == StoreInit => StoreInv
<1> SUFFICES ASSUME StoreInit PROVE StoreInv
  OBVIOUS
<1>1. /\ logged = {} /\ dir = {} /\ lldb = {} /\ marker = {}
      /\ meta = [a \in Artifacts |-> Blank("absent")]
      /\ creator = [i \in Syncs |-> [a \in Artifacts |-> "none"]]
      /\ sync = [i \in Syncs |-> "none"]
      /\ enrich = [i \in Syncs |-> NotEnriching]
      /\ analysis = [j \in Analyses |-> NotAnalyzing]
      /\ rewrite = NoRewrite
      /\ failed = {} /\ overlapped = FALSE /\ raced = {} /\ crowded = {}
  BY DEF StoreInit
<1>2. /\ Blank("absent") \in MetaFile /\ Blank("absent").state = "absent"
      /\ ~Blank("absent").pid /\ Blank("absent").link = NoArtifact
  BY BlankFacts DEF MetaStates
<1>3. NotAnalyzing \in AnalysisType /\ NotAnalyzing.pc = "none" /\ NotAnalyzing.at = NoArtifact
  BY <1>2 DEF NotAnalyzing, AnalysisType
<1>4. rewrite \in RewriteType /\ rewrite.phase = "none" /\ rewrite.at = NoArtifact
  BY <1>1, NoRewriteFacts
<1>5. \A i \in Syncs : /\ enrich[i] = NotEnriching /\ enrich[i].phase = "none"
                       /\ enrich[i].todo = {} /\ enrich[i].at = NoArtifact
                       /\ sync[i] = "none"
                       /\ \A a \in Artifacts : creator[i][a] = "none"
  BY <1>1, NotEnrichingFacts
<1>6. \A j \in Analyses : analysis[j].pc = "none" /\ analysis[j].at = NoArtifact
  BY <1>1, <1>3
<1>7. \A a \in Artifacts : meta[a].state = "absent" /\ meta[a].link = NoArtifact /\ ~meta[a].pid
  BY <1>1, <1>2
<1>8. StoreTyped
  BY <1>1, <1>2, <1>3, <1>4, NotEnrichingFacts DEF StoreTyped, CreatorPhases, SyncPhases
<1>9. Threads /\ Turns
  BY <1>4, <1>5, <1>6 DEF Threads, Enriching, Turns, Running
<1>10. \A a \in Artifacts : Free(a)
  BY <1>1, <1>4, <1>6, StoreAssumption DEF Free, Pending
<1>11. AbsentIsFree /\ SomeoneFills
  BY <1>1, <1>5, <1>7, <1>10, StoreAssumption DEF AbsentIsFree, SomeoneFills
<1>12. CoreFiles
  BY <1>4, <1>5, <1>7, StoreAssumption DEF CoreFiles, Readable, Artifacts
<1>13. AnalyzedOnce
  BY <1>1, <1>6 DEF AnalyzedOnce, Settled
<1>14. OneWriter
  BY <1>4, <1>5, <1>6, <1>7, StoreAssumption DEF OneWriter, Busy, Enriching, Readable, Rewriting
<1>15. LinksHold
  BY <1>4, <1>7, StoreAssumption DEF LinksHold, Sound
<1>16. QED
  BY <1>8, <1>9, <1>11, <1>12, <1>13, <1>14, <1>15 DEF StoreInv

LEMMA StoreInvNext == StoreInv /\ [StoreNext]_storeVars => StoreInv'
<1> SUFFICES ASSUME StoreInv, [StoreNext]_storeVars PROVE StoreInv'
  OBVIOUS
<1>1. CASE UNCHANGED storeVars
  <2>1. /\ UNCHANGED <<logged, dir, meta, lldb, marker, creator, sync, enrich, analysis, rewrite,
                       failed, overlapped, raced, crowded>>
    BY <1>1 DEF storeVars, files, history
  <2>2. /\ Turns' /\ AnalyzedOnce' /\ (LinksHold => LinksHold')
        /\ \A b \in Artifacts : (Free(b)' <=> Free(b)) /\ (Known(b)' <=> Known(b))
    BY <2>1, LoopUntouched
  <2>3. StoreTyped' /\ Threads' /\ SomeoneFills'
    BY <2>1 DEF StoreInv, StoreTyped, Threads, Enriching, SomeoneFills
  <2>4. AbsentIsFree' /\ CoreFiles'
    BY <2>1, <2>2 DEF StoreInv, AbsentIsFree, CoreFiles, Readable, Artifacts
  <2>5. OneWriter => OneWriter'
    BY <2>1, <2>2 DEF OneWriter, Busy, Enriching, Readable, Rewriting
  <2>6. QED
    BY <2>1, <2>2, <2>3, <2>4, <2>5 DEF StoreInv
<1>2. CASE \E a \in Artifacts : Log(a)
  BY <1>2, LogKeeps
<1>3. ASSUME NEW i \in Syncs, NEW a \in Artifacts,
             \/ MakeDir(i, a)
             \/ Fill(i, a)
             \/ WriteMeta(i, a)
             \/ CreationFails(i, a)
             \/ EnrichRead(i, a)
      PROVE  StoreInv'
  BY <1>3, MakeDirKeeps, FillKeeps, WriteMetaKeeps, CreationFailsKeeps, EnrichReadKeeps
<1>4. ASSUME NEW i \in Syncs,
             \/ StartSync(i)
             \/ StartEnrich(i)
             \/ EnrichBegins(i)
             \/ EnrichOpen(i)
             \/ EnrichWrite(i)
             \/ EnrichFails(i)
             \/ EndSync(i)
             \/ CancelSync(i)
      PROVE  StoreInv'
  BY <1>4, StartSyncKeeps, StartEnrichKeeps, EnrichBeginsKeeps, EnrichOpenKeeps, EnrichWriteKeeps,
     EnrichFailsKeeps, EndSyncKeeps, CancelSyncKeeps
<1>5. ASSUME NEW j \in Analyses, NEW a \in Artifacts, StartAnalysis(j, a)
      PROVE  StoreInv'
  BY <1>5, StartAnalysisKeeps
<1>6. ASSUME NEW j \in Analyses,
             \/ LldbEnds(j)
             \/ Reload(j)
             \/ Link(j)
             \/ Track(j)
             \/ Finish(j)
             \/ WriteFile(j)
             \/ RewriteFails(j)
             \/ CancelAnalysis(j)
      PROVE  StoreInv'
  BY <1>6, LldbEndsKeeps, ReloadKeeps, LinkKeeps, TrackKeeps, FinishKeeps, WriteFileKeeps,
     RewriteFailsKeeps, CancelAnalysisKeeps
<1>7. CASE OpenFile
  BY <1>7, OpenFileKeeps
<1>8. QED
  BY <1>1, <1>2, <1>3, <1>4, <1>5, <1>6, <1>7 DEF StoreNext

-----------------------------------------------------------------------------
(***************************************************************************)
(* Theorems                                                                *)
(***************************************************************************)

\* Type correctness: an artifact that is marked or was run in lldb has its directory, the
\* enrichment thread works on one of its records, and no two coroutines run at once.
THEOREM StoreTypeCorrect == StoreSpec => []StoreTypeOK
<1>1. StoreInv => StoreTypeOK
  <2> SUFFICES ASSUME StoreInv PROVE StoreTypeOK
    OBVIOUS
  <2>1. lldb \subseteq dir /\ marker \subseteq dir
    BY DEF StoreInv, StoreTyped, AbsentIsFree, Free
  <2>2. \A i \in Syncs : /\ enrich[i].phase \in {"none", "queued", "open", "write"}
                         /\ enrich[i].phase \in {"open", "write"} => enrich[i].at \in enrich[i].todo
                         /\ enrich[i].phase = "queued" => sync[i] # "creating"
    BY DEF StoreInv, StoreTyped, EnrichType, Threads, Enriching
  <2>3. /\ \A j \in Analyses : /\ analysis[j].pc \in {"none"} \cup Awaiting \cup Running
                               /\ analysis[j].pc = "linking" => analysis[j].copy.pid
        /\ \A j, k \in Analyses : analysis[j].pc \in Running /\ analysis[k].pc \in Running => j = k
    BY DEF StoreInv, StoreTyped, AnalysisType, Turns
  <2>4. rewrite.phase # "none" => ~LoopFree /\ rewrite.at \in dir
    BY RewritingFacts DEF LoopFree
  <2>5. QED
    BY <2>1, <2>2, <2>3, <2>4 DEF StoreInv, StoreTyped, StoreTypeOK, CreatorPhases, SyncPhases
<1>2. QED
  BY <1>1, StoreInvInit, StoreInvNext, PTL DEF StoreSpec

\* However many syncs create the same artifacts at once, are cancelled or leave threads
\* behind, and whatever else writes their files, a directory without a usable meta.json is
\* one that somebody is still filling, unless an I/O error has met it.
THEOREM HalfMadeIsBeingMade == StoreSpec => []HalfMadeOnlyAfterFailure
<1>1. StoreInv => HalfMadeOnlyAfterFailure
  BY DEF StoreInv, SomeoneFills, HalfMadeOnlyAfterFailure, Writing, StoreTyped
<1>2. QED
  BY <1>1, StoreInvInit, StoreInvNext, PTL DEF StoreSpec

\* A core's meta.json is never two versions mixed; a crash's is, where syncs come one at a
\* time, only if the stack was classified while the enrichment thread had the file.
THEOREM MixedByClassifyingOnly == StoreSpec => []MixedOnlyWhenClassified
<1>1. StoreInv => MixedOnlyWhenClassified
  BY DEF StoreInv, OneWriter, CoreFiles, MixedOnlyWhenClassified, Artifacts
<1>2. QED
  BY <1>1, StoreInvInit, StoreInvNext, PTL DEF StoreSpec

\* Where syncs come one at a time, a core and the crash of the same process point at each
\* other whenever a coroutine may look, unless the process has another source of the same
\* kind or the second of the two writings has failed.
THEOREM LinksAreMutual == StoreSpec => []LinksAgree
<1>1. StoreInv => LinksAgree
  <2> SUFFICES ASSUME StoreInv, LoopFree, ~overlapped, NEW a \in Artifacts, NEW b, b = meta[a].link,
                      b # NoArtifact, b \notin failed, ~Twin(a), Readable(b)
               PROVE  meta[b].link = a
    BY DEF LinksAgree
  <2>1. /\ b \in Artifacts /\ (b \in Cores) # (a \in Cores) /\ PidOf[b] = PidOf[a]
        /\ HasLink(b)
    BY DEF StoreInv, LinksHold, Sound, Opposite
  <2>2. rewrite.at # b
    BY <2>1, RewritingFacts, StoreAssumption DEF LoopFree, StoreInv, Turns
  <2>3. meta[b].link # NoArtifact
    BY <2>1, <2>2 DEF HasLink
  <2>4. PICK c \in Artifacts : c = meta[b].link /\ (c \in Cores) # (b \in Cores) /\ PidOf[c] = PidOf[b]
    BY <2>1, <2>3 DEF StoreInv, LinksHold, Sound, Opposite
  <2>5. QED
    BY <2>1, <2>4 DEF Twin
<1>2. QED
  BY <1>1, StoreInvInit, StoreInvNext, PTL DEF StoreSpec

\* A core that is marked, and will never be analyzed again, has the inputs its analysis
\* counted, whatever other analyses and syncs wrote into its file, unless two coroutines
\* analyzed it at once.
THEOREM MarkedIsComplete == StoreSpec => []MarkedCoresAreComplete
<1>1. StoreInv => MarkedCoresAreComplete
  BY DEF StoreInv, AnalyzedOnce, MarkedCoresAreComplete, Settled, Artifacts
<1>2. QED
  BY <1>1, StoreInvInit, StoreInvNext, PTL DEF StoreSpec
=============================================================================
