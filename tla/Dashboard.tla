----------------------------- MODULE Dashboard -----------------------------
(***************************************************************************)
(* The browser tab (src/src/pfui/web/src/app/App.tsx): the project that is *)
(* selected, what was loaded for it, the artifact in the detail panel, and *)
(* how the tab follows the server's tasks.                                 *)
(*                                                                         *)
(* A handler, or the continuation of a request, is one step: JavaScript    *)
(* runs it to its end.  What React does afterwards, rendering and running  *)
(* the effects whose dependencies changed, is the step Render.  It follows *)
(* a user's action at once; messages may arrive before the one that other  *)
(* messages made due.  The user acts on what is rendered.                  *)
(*                                                                         *)
(* A generation number is represented by what it is for: a request is      *)
(* `fresh` as long as the number it took is the current one.               *)
(***************************************************************************)
EXTENDS ProtocolClient

CONSTANTS
  Projects,
  Hashes,      \* artifacts, by hash
  NoProject, NoDetail,
  TaskKeys,    \* the tasks that may end: <<kind, project>>
  MaxPending,  \* bound: requests in flight
  MaxActions,  \* bound, by number of mounts: what the user does, and polls
  MaxFaults    \* bound, likewise: ends of the server, and of connections it had accepted

ASSUME TaskKeysAssumption == TaskKeys \subseteq {"classify-all", "clean"} \X Projects

ASSUME ProjectsAssumption ==
  Projects # {} /\ NoProject \notin Projects /\ NoDetail \notin Projects \X Hashes

VARIABLES
  url,          \* the ?project= of the location
  projectName,
  ready,        \* session.ready has arrived
  shown,        \* whose project snapshot, summary (with trend) and artifacts are shown
  active,       \* selectedHash and activeSelection
  detail,       \* the artifact whose detail is shown
  busy,         \* the spinners: loading, artifactLoading, detailLoading, action,
                \* classifyingAll
  pendingGroup, \* pendingClassifyGroup: a grouping to add when a classification is over
  grouped,      \* groupSpecs: whether that grouping is applied
  saved,        \* localStorage: the same, for each project
  finished,     \* tasks that are finished in the list and were running in previousTasks
  seen,         \* what the load effect last depended on
  refresh,      \* refreshVersion has changed since
  urgent,       \* the user's action is rendered before anything else happens
  default,      \* the server's default project
  actions,      \* what is left of MaxActions
  faults,       \* what is left of MaxFaults
  edited,       \* history: projects for which the user changed, or asked to add to, the grouping
  astray        \* history: what an answer for a former project may have replaced

viewVars == <<url, projectName, ready, shown, active, detail>>
groupVars == <<pendingGroup, grouped, saved, edited>>
followVars == <<finished, seen, refresh, urgent>>
outsideVars == <<default, actions, faults>>
dashVars == <<clientVars, viewVars, busy, groupVars, followVars, outsideVars, astray>>

Items == {"project", "summary", "artifacts"}
Nothing == [x \in Items |-> NoProject]
Selections == Projects \X Hashes

Deps == [connection |-> connection, grouped |-> grouped, project |-> projectName, ready |-> ready]

\* Counting against the bounds.
Acts == actions > 0 /\ actions' = actions - 1
Faults == faults > 0 /\ faults' = faults - 1

\* React has nothing left to render or run.
Rendered == Deps = seen /\ finished = {} /\ ~refresh

DashInit ==
  /\ ClientInit
  /\ url \in Projects \cup {NoProject}
  /\ projectName = url
  /\ ready = FALSE
  /\ shown = Nothing
  /\ active = NoDetail
  /\ detail = NoDetail
  /\ busy = {}
  /\ pendingGroup = FALSE
  /\ grouped = FALSE
  /\ saved = [p \in Projects |-> FALSE]
  /\ finished = {}
  /\ seen = Deps
  /\ refresh = FALSE
  /\ urgent = FALSE
  /\ default = CHOOSE p \in Projects : TRUE
  /\ edited = {}
  /\ astray = {}
  /\ actions = MaxActions[mounts]
  /\ faults = MaxFaults[mounts]

-----------------------------------------------------------------------------
(***************************************************************************)
(* Requests                                                                *)
(***************************************************************************)

\* What is asked: `arg` is the artifact, the step of loadArtifacts() or the form's
\* "apply grouping"; `fresh` as above.
Call(kind, p, arg) == [on |-> current, kind |-> kind, project |-> p, arg |-> arg, fresh |-> TRUE]
Listing(p, step) == Call("list", p, step)

\* The spinner a request turns on, and turns off when it ends: not if it is stale.
Spinner(r) ==
  CASE r.kind = "load" -> IF r.fresh THEN {"loading"} ELSE {}
    [] r.kind = "detail" -> IF r.fresh THEN {"detailLoading"} ELSE {}
    [] r.kind = "list" -> {"artifactLoading"}
    [] r.kind = "action" -> {"action"}
    [] r.kind = "classify" -> {"classifyingAll"}
    [] OTHER -> {}

Spinners(R) == UNION {Spinner(r) : r \in R}

\* Making the requests in R while those in `asked` are in flight and the spinners
\* `spin` turn.  Without a connection each is rejected at once.
Ask(asked, spin, R) ==
  IF CanAsk
  THEN /\ pending' = asked (+) SetToBag(R)
       /\ BagCardinality(pending') <= MaxPending
       /\ busy' = spin \cup Spinners(R)
  ELSE /\ pending' = asked
       /\ busy' = spin \ Spinners(R)

\* ++generation: what was asked before is stale.
Outdated(asked, kinds) ==
  LET Age(r) == IF r.kind \in kinds THEN [r EXCEPT !.fresh = FALSE] ELSE r
  IN BagOfAll(Age, asked)

\* A request ends with an error: the server's, or a timeout.
Rejected(r) ==
  /\ ~urgent
  /\ pending' = Without(pending, r)
  /\ busy' = busy \ Spinner(r)
  /\ UNCHANGED <<mounts, sock, current, timers, connection, up,
                 viewVars, groupVars, followVars, outsideVars, astray>>

-----------------------------------------------------------------------------
(***************************************************************************)
(* Answers                                                                 *)
(***************************************************************************)

\* The client's state but for its pending requests.
Line == <<mounts, sock, current, timers, connection, up>>

\* The load effect's Promise.all(): four answers that count as one.  Without artifacts
\* it goes on to loadArtifacts().
LoadAnswered(r, empty) ==
  /\ r.kind = "load"
  /\ IF r.fresh
     THEN /\ shown' = [x \in Items |-> IF x = "artifacts" /\ empty THEN NoProject ELSE r.project]
          /\ Ask(Without(pending, r), busy \ {"loading"},
                 IF empty THEN {Listing(r.project, "list")} ELSE {})
     ELSE /\ pending' = Without(pending, r)
          /\ UNCHANGED <<shown, busy>>
  /\ UNCHANGED <<Line, url, projectName, ready, active, detail,
                 groupVars, followVars, outsideVars, astray>>

\* loadArtifacts(): list, and if there is nothing (or first, on request) sync and list
\* again.  Its test `name === projectName` compares two values of one closure, so it
\* does not keep the answer for a former project away.
ListAnswered(r, empty) ==
  /\ r.kind = "list"
  /\ LET goesOn == CanAsk /\ (r.arg = "sync" \/ (r.arg = "list" /\ empty))
         ends == r.arg = "relist" \/ (r.arg = "list" /\ ~empty)
         next == Listing(r.project, IF r.arg = "sync" THEN "relist" ELSE "sync")
     IN /\ pending' = IF goesOn THEN Without(pending, r) (+) SetToBag({next}) ELSE Without(pending, r)
        /\ busy' = IF goesOn THEN busy ELSE busy \ {"artifactLoading"}
        /\ shown' = IF ends THEN [shown EXCEPT !["artifacts"] = IF empty THEN NoProject ELSE r.project]
                    ELSE shown
  /\ UNCHANGED <<Line, url, projectName, ready, active, detail,
                 groupVars, followVars, outsideVars, astray>>

\* An answer that is shown whatever was selected since.
DetailAlwaysShown(r) ==
  /\ r.kind \in {"detail", "action"}
  /\ detail' = <<r.project, r.arg>>
  /\ pending' = Without(pending, r)
  /\ busy' = busy \ Spinner(r)
  /\ UNCHANGED <<Line, url, projectName, ready, shown, active,
                 groupVars, followVars, outsideVars, astray>>

\* selectArtifact() resumes, if its generation is the current one; or an action on an
\* artifact (LLDB, analyze, ask-llm), if that is still the selected one.
DetailAnswered(r) ==
  /\ r.kind \in {"detail", "action"}
  /\ detail' = IF (r.kind = "detail" /\ r.fresh) \/ (r.kind = "action" /\ active = <<r.project, r.arg>>)
               THEN <<r.project, r.arg>> ELSE detail
  /\ pending' = Without(pending, r)
  /\ busy' = busy \ Spinner(r)
  /\ UNCHANGED <<Line, url, projectName, ready, shown, active,
                 groupVars, followVars, outsideVars, astray>>

\* The minute's summary.get and trend.get: the same vacuous test as in loadArtifacts().
PollAnswered(r) ==
  /\ r.kind = "poll"
  /\ shown' = [shown EXCEPT !["summary"] = r.project]
  /\ pending' = Without(pending, r)
  /\ UNCHANGED <<Line, url, projectName, ready, active, detail, busy,
                 groupVars, followVars, outsideVars, astray>>

\* onSave of the configuration dialog: no test at all.
SaveAnswered(r) ==
  /\ r.kind = "save"
  /\ shown' = [shown EXCEPT !["project"] = r.project]
  /\ refresh' = TRUE
  /\ pending' = Without(pending, r)
  /\ UNCHANGED <<Line, url, projectName, ready, active, detail, busy,
                 groupVars, finished, seen, urgent, outsideVars, astray>>

\* onSubmit of the classification dialog: the server has started the task.
ClassifyAnswered(r) ==
  /\ r.kind = "classify"
  /\ pendingGroup' = r.arg
  /\ pending' = Without(pending, r)
  /\ UNCHANGED <<Line, viewVars, busy, grouped, saved, edited, followVars, outsideVars, astray>>

-----------------------------------------------------------------------------
(***************************************************************************)
(* Events of the connection                                                *)
(***************************************************************************)

SocketOpens(s) ==
  /\ ~urgent
  /\ Opens(s)
  /\ UNCHANGED <<viewVars, busy, groupVars, followVars, outsideVars, astray>>

\* rejectPending() that forgets the requests without rejecting them.
SocketClosesSilently(s, failed) ==
  /\ ~urgent
  /\ IF sock[s] \in Live THEN Faults ELSE UNCHANGED faults
  /\ Closes(s, failed)
  /\ UNCHANGED <<viewVars, busy, groupVars, followVars, default, actions, astray>>

\* Every request in flight is rejected, with the continuations that has.
SocketCloses(s, failed) ==
  /\ ~urgent
  /\ IF sock[s] \in Live THEN Faults ELSE UNCHANGED faults
  /\ Closes(s, failed)
  /\ busy' = busy \ Spinners(BagToSet(pending))
  /\ UNCHANGED <<viewVars, groupVars, followVars, default, actions, astray>>

ReconnectTimer(s) ==
  /\ ~urgent
  /\ Reconnects(s)
  /\ UNCHANGED <<viewVars, busy, groupVars, followVars, outsideVars, astray>>

\* session.ready: the project of the location, or else the server's default.  Unlike
\* applyProject() it clears nothing and makes nothing stale.
SessionReady(s) ==
  /\ ~urgent
  /\ up
  /\ sock[s] = "opened"
  /\ sock' = [sock EXCEPT ![s] = "ready"]
  /\ ready' = TRUE
  /\ projectName' = IF url # NoProject THEN url ELSE default
  /\ astray' = IF projectName \in {NoProject, projectName'} THEN astray ELSE Items \cup {"detail"}
  /\ UNCHANGED <<mounts, current, timers, connection, pending, up, url, shown, active, detail,
                 busy, groupVars, followVars, outsideVars>>

\* A list arrives (tasks.changed, or in session.ready) in which a task that the effect
\* has seen running is finished.  Lists in which none is change nothing else.  Bound: one
\* such task between two renderings.
TasksChanged(k) ==
  /\ ~urgent
  /\ up
  /\ \E s \in Sockets : sock[s] \in Live
  /\ finished = {}
  /\ finished' = {k}
  /\ UNCHANGED <<clientVars, viewVars, busy, groupVars, seen, refresh, urgent, outsideVars, astray>>

-----------------------------------------------------------------------------
(***************************************************************************)
(* The user                                                                *)
(***************************************************************************)

\* What requests for a project that is left will replace although it is left.
Unguarded(p) ==
  {x \in Items : \E r \in BagToSet(pending) :
     /\ r.project # p
     /\ <<r.kind, x>> \in {<<"list", "artifacts">>, <<"poll", "summary">>, <<"save", "project">>}}

\* applyProject() that leaves the requests in flight fresh.
ApplyKeepsGeneration(p) ==
  /\ projectName' = p
  /\ shown' = Nothing
  /\ active' = NoDetail
  /\ detail' = NoDetail
  /\ astray' = Unguarded(p)
  /\ UNCHANGED pending

\* applyProject().
ApplyProject(p) ==
  /\ projectName' = p
  /\ pending' = Outdated(pending, {"load", "detail"})
  /\ shown' = Nothing
  /\ active' = NoDetail
  /\ detail' = NoDetail
  /\ astray' = Unguarded(p)

\* selectProject(): the selector is there with a project's snapshot, or without project.
SelectProject(p) ==
  /\ Acts /\ Rendered /\ ready
  /\ shown["project"] # NoProject \/ projectName = NoProject
  /\ p # projectName
  /\ url' = p
  /\ ApplyProject(p)
  /\ urgent' = TRUE
  /\ UNCHANGED <<Line, ready, busy, groupVars, finished, seen, refresh, default, faults>>

\* handlePopState(): back or forward to another location.
PopState(p) ==
  /\ Acts /\ Rendered /\ ready
  /\ p # url
  /\ url' = p
  /\ IF p # projectName
     THEN ApplyProject(p) /\ urgent' = TRUE
     ELSE UNCHANGED <<projectName, pending, shown, active, detail, urgent, astray>>
  /\ UNCHANGED <<Line, ready, busy, groupVars, finished, seen, refresh, default, faults>>

\* selectArtifact(), from the list or from a link in the detail panel.
SelectArtifact(h) ==
  /\ Acts /\ Rendered /\ ready /\ projectName # NoProject
  /\ shown["artifacts"] # NoProject \/ detail # NoDetail
  /\ active' = <<projectName, h>>
  /\ Ask(Outdated(pending, {"detail"}), busy, {Call("detail", projectName, h)})
  /\ UNCHANGED <<Line, url, projectName, ready, shown, detail,
                 groupVars, followVars, default, faults, astray>>

\* runArtifactAction(): the request names projectName and selectedHash.
RunArtifactAction ==
  /\ Acts /\ Rendered /\ projectName # NoProject
  /\ active # NoDetail /\ detail # NoDetail
  /\ busy \cap {"action", "detailLoading"} = {}
  /\ Ask(pending, busy, {Call("action", projectName, active[2])})
  /\ UNCHANGED <<Line, viewVars, groupVars, followVars, default, faults, astray>>

\* onRefresh: loadArtifacts(name, true).
RefreshArtifacts ==
  /\ Acts /\ Rendered /\ ready /\ projectName # NoProject
  /\ "artifactLoading" \notin busy
  /\ Ask(pending, busy, {Listing(projectName, "sync")})
  /\ UNCHANGED <<Line, viewVars, groupVars, followVars, default, faults, astray>>

\* onSave of the configuration dialog.
SaveConfig ==
  /\ Acts /\ Rendered /\ projectName # NoProject /\ shown["project"] # NoProject
  /\ Ask(pending, busy, {Call("save", projectName, FALSE)})
  /\ UNCHANGED <<Line, viewVars, groupVars, followVars, default, faults, astray>>

\* onSubmit of the classification dialog.
Classify(apply) ==
  /\ Acts /\ Rendered /\ ready
  /\ <<"classify-all", projectName>> \in TaskKeys
  /\ "classifyingAll" \notin busy
  /\ Ask(pending, busy, {Call("classify", projectName, apply)})
  /\ edited' = IF apply THEN edited \cup {projectName} ELSE edited
  /\ UNCHANGED <<Line, viewVars, pendingGroup, grouped, saved, followVars, default, faults, astray>>

\* changeGroupSpecs(), from the grouping editor.
ChangeGrouping ==
  /\ Acts /\ Rendered /\ ready /\ projectName # NoProject
  /\ grouped' = ~grouped
  /\ saved' = [saved EXCEPT ![projectName] = ~grouped]
  /\ edited' = edited \cup {projectName}
  /\ urgent' = TRUE
  /\ UNCHANGED <<clientVars, viewVars, busy, pendingGroup, finished, seen, refresh,
                 default, faults, astray>>

\* The minute's timer, which the effect arms for a project and a connection.
Poll ==
  /\ Acts /\ Rendered /\ projectName # NoProject /\ connection = "connected"
  /\ Ask(pending, busy, {Call("poll", projectName, FALSE)})
  /\ UNCHANGED <<Line, viewVars, groupVars, followVars, default, faults, astray>>

-----------------------------------------------------------------------------
(***************************************************************************)
(* React: rendering, and the effects whose dependencies changed            *)
(***************************************************************************)

\* A task of the selected project is over; of another project it is not looked at.
Over(kind) == <<kind, projectName>> \in finished

\* The effect on projectName: the grouping saved for it.
Restored ==
  IF projectName # seen.project /\ projectName # NoProject THEN saved[projectName] ELSE grouped

\* The load effect is due, and has a project and a connection.
Reloads ==
  /\ Deps # seen \/ refresh
  /\ ready /\ projectName # NoProject /\ connection = "connected"

\* The effects in the order of the code: restore the grouping; follow the tasks (after a
\* classification add its grouping, save it and list again; after a clean empty the
\* view and ask for another load); load.
Render ==
  /\ ~Rendered
  /\ LET adds == Over("classify-all") /\ pendingGroup /\ ~Restored
         aged == (IF Reloads THEN {"load"} ELSE {}) \cup (IF Over("clean") THEN {"detail"} ELSE {})
         calls == (IF Reloads THEN {Call("load", projectName, FALSE)} ELSE {})
                    \cup (IF Over("classify-all") THEN {Listing(projectName, "list")} ELSE {})
     IN /\ grouped' = (Restored \/ adds)
        /\ saved' = IF adds THEN [saved EXCEPT ![projectName] = TRUE] ELSE saved
        /\ pendingGroup' = (pendingGroup /\ ~Over("classify-all"))
        /\ Ask(Outdated(pending, aged),
               IF Over("classify-all") THEN busy \ {"classifyingAll"} ELSE busy, calls)
  /\ IF Over("clean")
     THEN /\ shown' = [shown EXCEPT !["artifacts"] = NoProject]
          /\ active' = NoDetail
          /\ detail' = NoDetail
     ELSE UNCHANGED <<shown, active, detail>>
  /\ refresh' = Over("clean")
  /\ seen' = Deps
  /\ finished' = {}
  /\ urgent' = FALSE
  /\ UNCHANGED <<Line, url, projectName, ready, edited, outsideVars, astray>>

-----------------------------------------------------------------------------
(***************************************************************************)
(* The server, as far as this tab depends on it                            *)
(***************************************************************************)

\* The server ends; it is started, for any default project.
ServerStops ==
  /\ ~urgent
  /\ Faults
  /\ up
  /\ up' = FALSE
  /\ UNCHANGED <<mounts, sock, current, timers, connection, pending,
                 viewVars, busy, groupVars, followVars, default, actions, astray>>

ServerStarts ==
  /\ ~urgent
  /\ ~up
  /\ up' = TRUE
  /\ default' \in Projects
  /\ UNCHANGED <<mounts, sock, current, timers, connection, pending,
                 viewVars, busy, groupVars, followVars, actions, faults, astray>>

-----------------------------------------------------------------------------
\* The requests of which an answer may arrive now.
Arriving == IF urgent THEN {} ELSE Answerable(pending)

DashNext ==
  \/ Render
  \/ \E r \in Arriving :
       \/ \E empty \in BOOLEAN : LoadAnswered(r, empty) \/ ListAnswered(r, empty)
       \/ DetailAnswered(r)
       \/ PollAnswered(r)
       \/ SaveAnswered(r)
       \/ ClassifyAnswered(r)
  \/ \E r \in BagToSet(pending) : Rejected(r)
  \/ \E s \in Sockets :
       \/ SocketOpens(s)
       \/ \E failed \in BOOLEAN : SocketCloses(s, failed)
       \/ ReconnectTimer(s)
       \/ SessionReady(s)
  \/ \E p \in Projects : SelectProject(p)
  \/ \E p \in Projects \cup {NoProject} : PopState(p)
  \/ \E h \in Hashes : SelectArtifact(h)
  \/ RunArtifactAction
  \/ RefreshArtifacts
  \/ SaveConfig
  \/ \E apply \in BOOLEAN : Classify(apply)
  \/ ChangeGrouping
  \/ Poll
  \/ \E k \in TaskKeys : TasksChanged(k)
  \/ ServerStops
  \/ ServerStarts

\* React renders, armed timers fire, events of sockets that are closed arrive, and a server
\* that accepts connections does so.
DashFairness ==
  /\ WF_dashVars(Render)
  /\ \A s \in Sockets :
       /\ WF_dashVars(SocketOpens(s))
       /\ WF_dashVars(sock[s] \notin Live /\ \E failed \in BOOLEAN : SocketCloses(s, failed))
  /\ WF_dashVars(\E s \in Sockets : ReconnectTimer(s))

DashSpec == DashInit /\ [][DashNext]_dashVars /\ DashFairness

-----------------------------------------------------------------------------
(***************************************************************************)
(* Properties                                                              *)
(***************************************************************************)

\* Type correctness of the tab's state.
DashTypeOK ==
  /\ ClientTypeOK
  /\ \A r \in BagToSet(pending) : r.project \in Projects /\ r.fresh \in BOOLEAN
  /\ url \in Projects \cup {NoProject}
  /\ projectName \in Projects \cup {NoProject}
  /\ shown \in [Items -> Projects \cup {NoProject}]
  /\ active \in Selections \cup {NoDetail}
  /\ detail \in Selections \cup {NoDetail}
  /\ busy \subseteq {"loading", "artifactLoading", "detailLoading", "action", "classifyingAll"}
  /\ astray \subseteq Items \cup {"detail"}

\* Whatever order answers come in, and whatever was selected meanwhile, the detail panel
\* only ever changes to the artifact that is selected at that moment, or to nothing.
DetailFollowsSelection ==
  [][detail' # detail => detail' \in {active', NoDetail}]_dashVars

\* What is shown belongs to the selected project: the snapshot, summary, artifacts and
\* detail of a project that was left never come back, except through the requests that
\* are not guarded (list, poll, save), if one was in flight when the project was left,
\* and a session.ready that moves the tab to another project.
ShownIsSelected ==
  /\ \A x \in Items \ astray : shown[x] \in {projectName, NoProject}
  /\ "detail" \notin astray => detail = NoDetail \/ detail[1] = projectName

\* No spinner turns for ever: one that turns (and can be seen) stands for a request in
\* flight, which an answer, a timeout or the end of the connection settles.  "loading"
\* may also wait for the effect, or for the connection, that will load again.
SpinnersMeanWork ==
  /\ "loading" \in busy =>
       \/ projectName = NoProject \/ ~Rendered \/ connection # "connected"
       \/ \E r \in BagToSet(pending) : Spinner(r) = {"loading"}
  /\ "detailLoading" \in busy =>
       \/ active = NoDetail
       \/ \E r \in BagToSet(pending) : Spinner(r) = {"detailLoading"}
  /\ \A b \in {"artifactLoading", "action"} :
       b \in busy => \E r \in BagToSet(pending) : Spinner(r) = {b}

\* The tab finds its way back to a server that is there, however often and in whichever
\* order its sockets fail.
TabReconnects == []<>(connection = "connected" \/ ~up)

\* "Persisting only on explicit changes (not on project-load) keeps switching projects
\* from clobbering the newly selected project's saved grouping" (App.tsx:179): the
\* grouping saved for a project changes only if the user changed it for that project, or
\* asked for a classification of that project that adds to it.
GroupingSavedOnlyOnRequest == \A p \in Projects : saved[p] => p \in edited
=============================================================================
