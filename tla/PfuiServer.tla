----------------------------- MODULE PfuiServer -----------------------------
(***************************************************************************)
(* The dashboard's server (src/src/pfui/app.py) around its TaskManager:    *)
(* the websocket sessions, what each is sent and in which order, and the   *)
(* shutdown of both.  Every TaskManager action is a step of the server;    *)
(* those that end in TaskManager.broadcast() also put the snapshot of that *)
(* moment on every open connection.                                        *)
(*                                                                         *)
(* A connection is a FIFO queue: ClientConnection.send() writes under      *)
(* asyncio.Lock, whose waiters are served in order, on one TCP stream.     *)
(***************************************************************************)
EXTENDS TaskManager, Sequences

CONSTANTS
  Clients,     \* browser tabs
  MaxBacklog,  \* bound: lists on their way to one client
  NoView       \* what a tab shows before session.ready has arrived

\* What snapshot() can return.
Lists ==
  UNION {[T -> [status : Statuses, finished : BOOLEAN, stoppable : BOOLEAN, progress : 0 .. MaxEmits]] :
           T \in SUBSET TaskIds}

ASSUME BacklogAssumption == MaxBacklog \in Nat \ {0}
ASSUME NoViewAssumption == NoView \notin Lists

VARIABLES
  conn,      \* the websocket handler of each client
  queue,     \* snapshots sent to the client and not yet delivered
  view,      \* the task list the client shows
  asked,     \* the tasks an open request of the client is waiting for
  server     \* progress of serve() and of the cleanup callback

serverVars == <<conn, queue, view, asked, server>>
allVars == <<vars, serverVars>>

Open == {c \in Clients : conn[c] = "open"}

\* Everything a client was sent, the list it shows included.
Sent(c) == IF view[c] = NoView THEN queue[c] ELSE <<view[c]>> \o queue[c]

\* The last list sent to a client.
Newest(c) == Sent(c)[Len(Sent(c))]

ServerInit ==
  /\ Init
  /\ conn = [c \in Clients |-> "none"]
  /\ queue = [c \in Clients |-> <<>>]
  /\ view = [c \in Clients |-> NoView]
  /\ asked = [c \in Clients |-> {}]
  /\ server = "serving"

-----------------------------------------------------------------------------
(***************************************************************************)
(* Sending                                                                 *)
(***************************************************************************)

\* The bound on what is under way: where it bites, the broadcast waits.
Room == \A c \in Open : Len(queue[c]) < MaxBacklog

\* Broadcasting the list as it was before the step.
SendBefore(snapshot) ==
  /\ Room
  /\ queue' = [c \in Clients |->
                IF c \in Open /\ closing = "open" THEN Append(queue[c], Snapshot) ELSE queue[c]]

\* TaskManager.broadcast() and create_app()'s broadcast(): to every connection in
\* CLIENTS, and to none once close() has begun.
SendToAll(snapshot) ==
  /\ Room
  /\ queue' = [c \in Clients |->
                IF c \in Open /\ closing = "open" THEN Append(queue[c], snapshot) ELSE queue[c]]

Broadcast ==
  /\ RunBroadcast
  /\ SendToAll(Snapshot)
  /\ UNCHANGED <<conn, view, asked, server>>

AnnounceEnd(i) ==
  /\ FinalizeStart(i)
  /\ SendToAll(Snapshot)
  /\ UNCHANGED <<conn, view, asked, server>>

\* _finalize() after its sleep: the deletion and the broadcast are one step.
AnnounceRemoval(i) ==
  /\ FinalizeExpire(i)
  /\ SendToAll(Snapshot')
  /\ UNCHANGED <<conn, view, asked, server>>

\* Sends on one connection that are not serialised by its lock.
DeliverUnordered(c) ==
  \E n \in 1 .. Len(queue[c]) :
    /\ view' = [view EXCEPT ![c] = queue[c][n]]
    /\ queue' = [queue EXCEPT ![c] = SubSeq(@, 1, n - 1) \o SubSeq(@, n + 1, Len(@))]
    /\ UNCHANGED <<vars, conn, asked, server>>

\* The client receives the next event and shows the list in it.
Deliver(c) ==
  /\ queue[c] # <<>>
  /\ view' = [view EXCEPT ![c] = Head(queue[c])]
  /\ queue' = [queue EXCEPT ![c] = Tail(@)]
  /\ UNCHANGED <<vars, conn, asked, server>>

-----------------------------------------------------------------------------
(***************************************************************************)
(* Sessions: the websocket handler                                         *)
(***************************************************************************)

\* websocket() up to `await ws.prepare(request)`: refused once SHUTTING_DOWN.
Handshake(c) ==
  /\ conn[c] = "none"
  /\ server = "serving"
  /\ conn' = [conn EXCEPT ![c] = "handshake"]
  /\ UNCHANGED <<vars, queue, view, asked, server>>

\* websocket() that sends session.ready first and joins CLIENTS when it is sent.
AdmitAfterReady(c) ==
  /\ conn[c] = "handshake"
  /\ \/ /\ Sent(c) = <<>>
        /\ queue' = [queue EXCEPT ![c] = <<Snapshot>>]
        /\ UNCHANGED conn
     \/ /\ Sent(c) # <<>>
        /\ conn' = [conn EXCEPT ![c] = "open"]
        /\ UNCHANGED queue
  /\ UNCHANGED <<vars, view, asked, server>>

\* websocket() after prepare(): join CLIENTS and send session.ready, in one step.
\* SHUTTING_DOWN is not looked at again.
Admit(c) ==
  /\ conn[c] = "handshake"
  /\ conn' = [conn EXCEPT ![c] = "open"]
  /\ queue' = [queue EXCEPT ![c] = <<Snapshot>>]
  /\ UNCHANGED <<vars, view, asked, server>>

\* A session that ends without its requests being cancelled.
DisconnectKeepsRequests(C) ==
  /\ conn' = [c \in Clients |-> IF c \in C THEN "none" ELSE conn[c]]
  /\ queue' = [c \in Clients |-> IF c \in C THEN <<>> ELSE queue[c]]
  /\ view' = [c \in Clients |-> IF c \in C THEN NoView ELSE view[c]]
  /\ UNCHANGED asked

\* The handlers of the clients in C end: they leave CLIENTS, nothing more is
\* delivered, and the requests they have open are cancelled.
Disconnect(C) ==
  /\ conn' = [c \in Clients |-> IF c \in C THEN "none" ELSE conn[c]]
  /\ queue' = [c \in Clients |-> IF c \in C THEN <<>> ELSE queue[c]]
  /\ view' = [c \in Clients |-> IF c \in C THEN NoView ELSE view[c]]
  /\ asked' = [c \in Clients |-> IF c \in C THEN {} ELSE asked[c]]

AskedBy(C) == UNION {asked[c] : c \in C}

\* A socket closes or fails.
Leave(c) ==
  /\ conn[c] # "none"
  /\ WaitersLeave(AskedBy({c}))
  /\ Disconnect({c})
  /\ UNCHANGED server

-----------------------------------------------------------------------------
(***************************************************************************)
(* Requests                                                                *)
(***************************************************************************)

\* A request that starts a task; a tracked one stays open until the task is over.
AskStart(c, req) ==
  /\ conn[c] = "open"
  /\ Start(req)
  /\ asked' = IF req.tracked THEN [asked EXCEPT ![c] = @ \cup {counter + 1}] ELSE asked
  /\ UNCHANGED <<conn, queue, view, server>>

\* task.stop.
AskStop(c, i) ==
  /\ conn[c] = "open"
  /\ Stop(i)
  /\ UNCHANGED serverVars

\* run_tracked() resumes and the request is answered.
Answer(c, i) ==
  /\ i \in asked[c]
  /\ WaiterWakes(i)
  /\ asked' = [asked EXCEPT ![c] = @ \ {i}]
  /\ UNCHANGED <<conn, queue, view, server>>

-----------------------------------------------------------------------------
(***************************************************************************)
(* Shutdown: serve() after its stop_event, then AppRunner.cleanup()        *)
(***************************************************************************)

\* close_clients(): refuse new sockets, close those in CLIENTS.  A handler that
\* has passed the test and is still in prepare() is not among them.
CloseClients ==
  /\ server = "serving"
  /\ server' = "stopping"
  /\ WaitersLeave(AskedBy(Open))
  /\ Disconnect(Open)

\* aiohttp ends the handlers that remain, then on_cleanup: close_clients() again
\* and TaskManager.close().
Cleanup ==
  /\ server = "stopping"
  /\ \A c \in Clients : conn[c] = "none"
  /\ server' = "cleaning"
  /\ Close
  /\ UNCHANGED <<conn, queue, view, asked>>

ServerNext ==
  \/ \E c \in Clients :
       \/ Handshake(c)
       \/ Admit(c)
       \/ Leave(c)
       \/ Deliver(c)
       \/ \E req \in Requests : AskStart(c, req)
       \/ \E i \in TaskIds : AskStop(c, i) \/ Answer(c, i)
  \/ \E i \in TaskIds :
       \/ /\ \/ SetProgress(i)
             \/ \E ending \in Endings : Finish(i, ending)
             \/ OnDone(i)
          /\ UNCHANGED serverVars
       \/ AnnounceEnd(i)
       \/ AnnounceRemoval(i)
  \/ Broadcast
  \/ CloseClients
  \/ Cleanup
  \/ CloseReaped /\ UNCHANGED serverVars

\* The event loop runs what is scheduled, timers expire, TCP delivers.
ServerFairness ==
  /\ \A c \in Clients : WF_allVars(Deliver(c))
  /\ \A i \in TaskIds :
       /\ WF_allVars(OnDone(i) /\ UNCHANGED serverVars)
       /\ WF_allVars(AnnounceEnd(i))
       /\ WF_allVars(AnnounceRemoval(i))
  /\ WF_allVars(Broadcast)

ServerSpec == ServerInit /\ [][ServerNext]_allVars /\ ServerFairness

-----------------------------------------------------------------------------
(***************************************************************************)
(* Properties                                                              *)
(***************************************************************************)

\* Type correctness of the session state.
ServerTypeOK ==
  /\ conn \in [Clients -> {"none", "handshake", "open"}]
  /\ \A c \in Clients :
       /\ asked[c] \subseteq {i \in TaskIds : waiter[i] = "waiting"}
       /\ conn[c] # "open" => Sent(c) = <<>>
       /\ conn[c] = "open" => Sent(c) # <<>>
  /\ server \in {"serving", "stopping", "cleaning"}

\* A change of the registry that is still to be broadcast.
Announcing == announce \/ \E i \in TaskIds : finalizer[i] = "created"

\* No tab misses an update: as soon as nothing is left to announce, the last list
\* each open connection was sent is the registry's.  A tab that connects between
\* a change and its broadcast is covered too.
NobodyIsBehind ==
  closing = "open" /\ ~Announcing => \A c \in Open : Newest(c) = Snapshot

\* Whether list b may follow list a on a tab: finished tasks stay as they are,
\* progress does not go back, a task leaves the list only after it was shown as
\* finished, and the ids that are new are later ones.
Follows(a, b) ==
  /\ \A i \in DOMAIN a :
       IF i \in DOMAIN b
       THEN /\ a[i].finished => b[i] = a[i]
            /\ a[i].progress <= b[i].progress
       ELSE a[i].finished
  /\ \A i \in DOMAIN b \ DOMAIN a : \A j \in DOMAIN a : j < i

\* A tab never goes back in time, and never sees a running task just disappear.
ViewsMoveForward ==
  [][\A c \in Clients :
       view[c] # NoView /\ view'[c] # NoView => Follows(view[c], view'[c])]_allVars

\* A tab that stays connected shows the registry as it is, again and again.
TabsCatchUp ==
  \A c \in Clients :
    []<>(conn[c] = "open" /\ server = "serving" => view[c] = Snapshot)
=============================================================================
