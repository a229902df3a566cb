---------------------------- MODULE LegacyDashboard ----------------------------
(***************************************************************************)
(* The former dashboard's server (src/src/ui/backend): its registry of     *)
(* tasks, its websockets, the requests that start work and the launcher    *)
(* that runs it next to a development server.  It resembles pfui (see      *)
(* TaskManager and PfuiServer); what differs is modelled here: fuzzing     *)
(* gathers its workers to the last, a thread is marked cancelled and let   *)
(* go, and a window is registered after its snapshot was sent.  Each       *)
(* window has its project on the server; requests that waited look it up   *)
(* again.                                                                  *)
(***************************************************************************)
EXTENDS Naturals, FiniteSets, Sequences

CONSTANTS
  Windows,       \* browser windows
  LegacyProjects,
  Instances,     \* workers of a campaign
  MaxEntries,    \* bound: tasks
  MaxChanges,    \* bound: projects selected, connections opened, tasks started
  MaxCasts       \* bound: broadcasts under way

ASSUME LegacyAssumption == MaxEntries \in Nat /\ MaxChanges \in Nat /\ MaxCasts \in Nat

VARIABLES
  entry,      \* TaskManager.tasks: kind, project, status and how the coroutine is
  worker,     \* the fuzzing workers of each task
  window,     \* each connection: where it is, the project selected, the list it shows, and
              \* (history) the newest broadcast it was to have and whether it missed a list
  due,        \* the broadcast of each task that is scheduled: start()'s, or _finalize()'s first
  cast,       \* the broadcasts under way, in the order they began: their list, who has still
              \* to get it, the task whose _finalize() and the request that waits for its end
  line,       \* who waits for each connection's _send_lock, which is first come first served
  waiting,    \* the task for which a request of a window is suspended in run_tracked()
  changes,
  launch      \* the launcher and its two processes

serverVars == <<entry, worker, window, due, cast, line, waiting, changes>>
sending == <<due, cast, line>>
legacyVars == <<serverVars, launch>>

Entries == 1 .. MaxEntries
Casts == 1 .. MaxCasts
NoEntry == [kind |-> "none", project |-> "none", status |-> "none", run |-> "none", told |-> FALSE]
Kinds == {"fuzz", "build", "clean", "analyze"}
Ends == {"returned", "raised", "unwound"}
Working == {"live", "cancelling"}
Unconnected == [at |-> "closed", project |-> "none", shows |-> {}, last |-> 0, missed |-> FALSE]
NoCast == [shows |-> {}, left |-> {}, of |-> 0, by |-> "server"]

Known(e) == entry[e].kind # "none"
RunningTasks(kind, p) == {e \in Entries : entry[e].kind = kind /\ entry[e].project = p /\ entry[e].status = "running"}
Statuses(es) == {<<e, es[e].status>> : e \in {d \in Entries : es[d].kind # "none"}}

LegacyInit ==
  /\ entry = [e \in Entries |-> NoEntry]
  /\ worker = [e \in Entries |-> [i \in Instances |-> "none"]]
  /\ window = [w \in Windows |-> Unconnected]
  /\ due = [e \in Entries |-> "none"]
  /\ cast = [r \in Casts |-> NoCast]
  /\ line = [w \in Windows |-> <<>>]
  /\ waiting = [w \in Windows |-> 0]
  /\ changes = 0

(***************************************************************************)
(* broadcast(): the list is made and the registered windows are taken at   *)
(* once; then it is sent to one after the other, each time behind those    *)
(* who wait for that window already.                                       *)
(***************************************************************************)
Registered == {w \in Windows : window[w].at = "open"}
UnderWay == {r \in Casts : cast[r].left # {}}

\* The number of the next broadcast: after all that are under way and that a window has had.
Newer(r) == (\A s \in UnderWay : s < r) /\ (UnderWay # {} => \A w \in Windows : window[w].last < r)
Following(r) == Newer(r) /\ \A s \in 1 .. r - 1 : ~Newer(s)

\* A broadcast of the list of es begins, for e's _finalize() or for a request of window w; a
\* window whose snapshot was made before and that is not registered yet does not get it.
Broadcast(es, e, w) ==
  /\ IF Registered = {} THEN UNCHANGED <<cast, line>>
     ELSE \E r \in Casts, first \in Registered :
            /\ Following(r)
            /\ cast' = [cast EXCEPT ![r] = [shows |-> Statuses(es), left |-> Registered, of |-> e, by |-> w]]
            /\ line' = [line EXCEPT ![first] = Append(@, r)]
  /\ window' = [v \in Windows |->
       [window[v] EXCEPT !.last = IF UnderWay = {} THEN 0 ELSE @,
                         !.missed = IF window[v].at = "ready" THEN window[v].shows # Statuses(es) ELSE @]]

\* A broadcast that was scheduled begins.
Announce(e) ==
  /\ due[e] # "none"
  /\ due' = [due EXCEPT ![e] = "none"]
  /\ Broadcast(entry, IF due[e] = "done" THEN e ELSE 0, "server")
  /\ UNCHANGED <<entry, worker, waiting, changes, launch>>

\* The request that broadcasts was cancelled: its window has gone.
Abandoned(r) == cast[r].by \in Windows /\ window[cast[r].by].at = "closed"

\* A list is sent to a window, late if a newer one was there first, and its broadcast goes
\* on to the next window; one that has gone is passed over.
Send(w, r) ==
  /\ line[w] # <<>> /\ r = Head(line[w]) /\ w \in cast[r].left /\ ~Abandoned(r)
  /\ LET left == cast[r].left \ {w} IN
       \/ left = {} /\ cast' = [cast EXCEPT ![r] = NoCast] /\ line' = [line EXCEPT ![w] = Tail(@)]
       \/ \E next \in left :
            /\ cast' = [cast EXCEPT ![r].left = left]
            /\ line' = [line EXCEPT ![w] = Tail(@), ![next] = Append(@, r)]
  /\ window' = IF window[w].at # "open" THEN window
               ELSE [window EXCEPT ![w].shows = cast[r].shows,
                                   ![w].missed = r < window[w].last,
                                   ![w].last = IF r < @ THEN @ ELSE r]
  /\ UNCHANGED <<entry, worker, due, waiting, changes, launch>>

\* CancelledError is no Exception: whoever has not had the list will not get it.
Abandon(r) ==
  /\ r \in UnderWay /\ Abandoned(r)
  /\ cast' = [cast EXCEPT ![r] = NoCast]
  /\ line' = [w \in Windows |-> SelectSeq(line[w], LAMBDA s : s # r)]
  /\ window' = [w \in Windows |->
       IF w \in Registered \cap cast[r].left /\ window[w].last < r THEN [window[w] EXCEPT !.missed = TRUE, !.last = r]
       ELSE window[w]]
  /\ UNCHANGED <<entry, worker, due, waiting, changes, launch>>

(***************************************************************************)
(* A window connects: its snapshot is sent before it is registered, and a  *)
(* broadcast in between passes it by.  (A connection's name is given again *)
(* when no broadcast has it any more.)                                     *)
(***************************************************************************)
Handshake(w) ==
  /\ window[w].at = "closed" /\ \A r \in UnderWay : w \notin cast[r].left /\ cast[r].by # w
  /\ changes < MaxChanges /\ changes' = changes + 1
  /\ \E p \in LegacyProjects \cup {"none"} :
       window' = [window EXCEPT ![w] = [Unconnected EXCEPT !.at = "ready", !.project = p, !.shows = Statuses(entry)]]
  /\ UNCHANGED <<entry, worker, sending, waiting, launch>>

Register(w) ==
  /\ window[w].at = "ready"
  /\ window' = [window EXCEPT ![w].at = "open"]
  /\ UNCHANGED <<entry, worker, sending, waiting, changes, launch>>

\* A close frame, the end of the stream, or a message that is no JSON; requests in flight
\* are cancelled, the tasks they wait for are not.
Hangup(w) ==
  /\ window[w].at # "closed"
  /\ window' = [window EXCEPT ![w] = Unconnected]
  /\ waiting' = [waiting EXCEPT ![w] = 0]
  /\ UNCHANGED <<entry, worker, sending, changes, launch>>

ProjectSelect(w) ==
  /\ window[w].at = "open" /\ changes < MaxChanges /\ changes' = changes + 1
  /\ \E p \in LegacyProjects \ {window[w].project} : window' = [window EXCEPT ![w].project = p]
  /\ UNCHANGED <<entry, worker, sending, waiting, launch>>

(***************************************************************************)
(* start(): fuzz has a key; build and clean are refused while it runs.     *)
(***************************************************************************)
\* What a request waits for in run_tracked(): run-lldb, analyze-cores, ask-llm and the like.
Awaited == {"analyze"}

Refused(kind, p) == kind \in {"fuzz", "build", "clean"} /\ RunningTasks("fuzz", p) # {}

StartEntry(w, kind) ==
  LET p == window[w].project
      new == {e \in Entries : ~Known(e)} IN
  /\ window[w].at = "open" /\ p # "none" /\ new # {} /\ waiting[w] = 0
  /\ ~Refused(kind, p) /\ changes < MaxChanges /\ changes' = changes + 1
  /\ \E e \in new :
     /\ \A d \in new : e <= d
     /\ entry' = [entry EXCEPT ![e] = [kind |-> kind, project |-> p, status |-> "running", run |-> "new", told |-> FALSE]]
     /\ waiting' = IF kind \in Awaited THEN [waiting EXCEPT ![w] = e] ELSE waiting
     /\ due' = [due EXCEPT ![e] = "start"]
  /\ UNCHANGED <<worker, window, cast, line, launch>>

\* The coroutine runs for the first time; fuzz_action() creates its workers.
EntryBegins(e) ==
  /\ entry[e].run = "new"
  /\ entry' = [entry EXCEPT ![e].run = "live"]
  /\ worker' = IF entry[e].kind = "fuzz" THEN [worker EXCEPT ![e] = [i \in Instances |-> "live"]] ELSE worker
  /\ UNCHANGED <<window, sending, waiting, changes, launch>>

\* A coroutine is asked to end, and its workers with it, as often as it is stopped; a thread
\* is only marked, and the request that does it tells the windows.
StopEntry(w, e) ==
  /\ window[w].at = "open" /\ Known(e) /\ entry[e].status = "running"
  /\ IF entry[e].kind = "clean"
     THEN /\ entry' = [entry EXCEPT ![e].status = "cancelled"]
          /\ Broadcast(entry', 0, w)
          /\ UNCHANGED <<worker, due>>
     ELSE /\ entry[e].run \in Working \cup {"new"}
          /\ entry' = [entry EXCEPT ![e].run = IF @ = "new" THEN "unwound" ELSE "cancelling"]
          /\ worker' = [worker EXCEPT ![e] = [i \in Instances |-> IF @[i] = "live" THEN "cancelling" ELSE @[i]]]
          /\ UNCHANGED <<window, sending>>
  /\ UNCHANGED <<waiting, changes, launch>>

\* A worker's VM ends, with or without an error, or is reaped.
WorkerEnds(e, i) ==
  /\ worker[e][i] \in Working
  /\ \E end \in {"returned", "raised"} : worker' = [worker EXCEPT ![e][i] = end]
  /\ UNCHANGED <<entry, window, sending, waiting, changes, launch>>

\* gather() without return_exceptions.
GatheredToFirst(e) ==
  \/ \A i \in Instances : worker[e][i] \notin Working
  \/ \E i \in Instances : worker[e][i] = "raised"

\* asyncio.gather(return_exceptions=True): all of them have ended, cancelled or not.
Gathered(e) == \A i \in Instances : worker[e][i] \notin Working

\* How a coroutine may end: fuzz_action() by what its workers raised, the others as they like.
Outcomes(e) ==
  CASE entry[e].kind = "fuzz" -> IF ~Gathered(e) THEN {}
                                 ELSE IF entry[e].run = "cancelling" THEN {"unwound"}
                                 ELSE IF \E i \in Instances : worker[e][i] = "raised" THEN {"raised"} ELSE {"returned"}
    [] entry[e].kind = "clean" -> {"returned", "raised"}
    [] OTHER -> IF entry[e].run = "cancelling" THEN Ends ELSE {"returned", "raised"}

\* What its workers came to is not asked again.
EntryEnds(e) ==
  /\ entry[e].run \in Working
  /\ \E end \in Outcomes(e) : entry' = [entry EXCEPT ![e].run = end]
  /\ worker' = [worker EXCEPT ![e] = [i \in Instances |-> IF @[i] \in Working THEN @[i] ELSE "none"]]
  /\ UNCHANGED <<window, sending, waiting, changes, launch>>

\* _on_done(), which schedules _finalize(); a status that stop() has set stays.
\* start()'s broadcast has begun by then, it was scheduled with the coroutine.
StatusOf(end) == CASE end = "returned" -> "done" [] end = "raised" -> "error" [] end = "unwound" -> "cancelled"

EntryDone(e) ==
  /\ entry[e].run \in Ends /\ ~entry[e].told
  /\ entry' = [entry EXCEPT ![e].told = TRUE,
                            ![e].status = IF @ = "running" THEN StatusOf(entry[e].run) ELSE @]
  /\ due[e] = "none" /\ due' = [due EXCEPT ![e] = "done"]
  /\ UNCHANGED <<worker, window, cast, line, waiting, changes, launch>>

\* The windows are told before the task is removed.
ForgetTooLate(e) ==
  /\ entry[e].told /\ due[e] = "none" /\ \A r \in UnderWay : cast[r].of # e
  /\ \A w \in Windows : waiting[w] # e
  /\ entry' = [entry EXCEPT ![e] = NoEntry]
  /\ worker' = [worker EXCEPT ![e] = [i \in Instances |-> "none"]]
  /\ Broadcast(entry, 0, "server")
  /\ UNCHANGED <<due, waiting, changes, launch>>

\* _finalize(): FINISHED_TASK_TTL after its first broadcast has reached every window.
Forget(e) ==
  /\ entry[e].told /\ due[e] = "none" /\ \A r \in UnderWay : cast[r].of # e
  /\ \A w \in Windows : waiting[w] # e
  /\ entry' = [entry EXCEPT ![e] = NoEntry]
  /\ worker' = [worker EXCEPT ![e] = [i \in Instances |-> "none"]]
  /\ Broadcast(entry', 0, "server")
  /\ UNCHANGED <<due, waiting, changes, launch>>

\* The request that waited answers.
AnswerEntry(w) ==
  /\ waiting[w] # 0 /\ entry[waiting[w]].run \in Ends
  /\ waiting' = [waiting EXCEPT ![w] = 0]
  /\ UNCHANGED <<entry, worker, window, sending, changes, launch>>

(***************************************************************************)
(* run_ui(): the server and pnpm's, until one of them ends, time is up or  *)
(* the user interrupts it; then both are terminated, the second after the  *)
(* first.  A process may ignore SIGTERM.                                   *)
(***************************************************************************)
LaunchInit ==
  launch = [pc |-> "backend", backend |-> "none", vite |-> "none", interrupts |-> 0, lost |-> FALSE]

Spawn ==
  \/ /\ launch.pc = "backend"
     /\ launch' \in {[launch EXCEPT !.pc = "vite", !.backend = "up"], [launch EXCEPT !.pc = "over"]}
  \/ /\ launch.pc = "vite"  \* outside of the try: pnpm may be missing
     /\ launch' \in {[launch EXCEPT !.pc = "watch", !.vite = "up"], [launch EXCEPT !.pc = "over", !.lost = TRUE]}

ProcessEnds(child) == launch[child] = "up" /\ launch' = [launch EXCEPT ![child] = "ended"]

\* wait_for_http() gives up, or a process has ended.
Leave ==
  /\ launch.pc = "watch"
  /\ launch' = [launch EXCEPT !.pc = "stop vite"]

InterruptLauncher ==
  /\ launch.interrupts < 2 /\ launch.pc # "over"
  /\ launch' = [launch EXCEPT !.interrupts = @ + 1,
       !.pc = IF @ = "watch" THEN "stop vite" ELSE "over",
       !.lost = launch.pc # "watch"]

\* terminate(): SIGTERM, five seconds, SIGKILL; the wait may be over at once.
Terminate(child, pc, next) ==
  /\ launch.pc = pc
  /\ launch' = [launch EXCEPT !.pc = next, ![child] = "ended"]

Launcher ==
  /\ \/ Spawn \/ Leave \/ InterruptLauncher
     \/ ProcessEnds("backend") \/ ProcessEnds("vite")
     \/ Terminate("vite", "stop vite", "stop backend") \/ Terminate("backend", "stop backend", "over")
  /\ UNCHANGED serverVars

Legacy ==
  \/ \E w \in Windows :
       \/ Handshake(w) \/ Register(w) \/ Hangup(w) \/ ProjectSelect(w) \/ AnswerEntry(w)
       \/ \E kind \in Kinds : StartEntry(w, kind)
       \/ \E e \in Entries : StopEntry(w, e)
       \/ \E r \in Casts : Send(w, r)
  \/ \E r \in Casts : Abandon(r)
  \/ \E e \in Entries :
       \/ Announce(e) \/ EntryBegins(e) \/ EntryEnds(e) \/ EntryDone(e) \/ Forget(e)
       \/ \E i \in Instances : WorkerEnds(e, i)

LegacySpec == LegacyInit /\ [][Legacy]_serverVars

LaunchSpec == LaunchInit /\ [][Launcher]_launch

-----------------------------------------------------------------------------
(***************************************************************************)
(* Properties                                                              *)
(***************************************************************************)

LegacyTypeOK ==
  /\ \A e \in Entries : entry[e].kind \in Kinds \cup {"none"} /\ entry[e].run \in Ends \cup Working \cup {"new", "none"}
  /\ worker \in [Entries -> [Instances -> {"none"} \cup Working \cup Ends]]
  /\ \A w \in Windows : waiting[w] = 0 \/ window[w].at = "open"
  /\ changes \in 0 .. MaxChanges
  /\ \A r \in Casts : cast[r].left \subseteq Windows /\ cast[r].by \in Windows \cup {"server"}
  /\ due \in [Entries -> {"none", "start", "done"}]

\* A project is fuzzed by the workers of one campaign at a time: whichever of them fail, and
\* however often it is stopped, a campaign's key is not free before its last worker ended
\* (fuzz_action() gathers with return_exceptions, stop() leaves the status alone).
FuzzedByOne ==
  \A p \in LegacyProjects :
    Cardinality({e \in Entries : entry[e].project = p /\ \E i \in Instances : worker[e][i] \in Working}) <= 1

\* When the last change has been told, an open window shows the list as it is: however many
\* broadcasts are under way, and whichever window holds one up.  But for a window that a
\* list passed by between its snapshot and its registration, one that an older list has
\* reached after a newer one (its broadcast was held up by another window), and one that
\* did not get the list of a stop whose request was cancelled: until the next broadcast.
WindowsAreCurrent ==
  \A w \in Windows :
    /\ window[w].at = "open" /\ ~window[w].missed
    /\ \A e \in Entries : due[e] = "none"
    /\ \A r \in UnderWay : w \notin cast[r].left
    => window[w].shows = Statuses(entry)

\* The launcher leaves no server behind, unless pnpm could not be started or it was
\* interrupted outside of its watch.
LauncherLeavesNobody == launch.pc = "over" /\ ~launch.lost => launch.backend # "up" /\ launch.vite # "up"
=============================================================================
