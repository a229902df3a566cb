-------------------------- MODULE PfuiServer_proofs --------------------------
(***************************************************************************)
(* TLAPS proofs about the server's sessions, for any number of clients and *)
(* tasks, any requests and any backlog: that the server drives its         *)
(* TaskManager as TaskManager.tla says it may, that no tab misses an       *)
(* update and that no tab goes back in time.                               *)
(*                                                                         *)
(* All three rest on what the newest list sent on a connection may differ  *)
(* in from the registry: not at all once nothing is left to announce, and  *)
(* otherwise only in ways a later list may mend.  A removal is the hard    *)
(* case: it is announced in the step that makes it, and only after a list  *)
(* that shows the task as finished was put on every connection.            *)
(***************************************************************************)
EXTENDS PfuiServer, TaskManager_proofs

\* The newest list sent to a client that was sent one.
Latest(c) == IF queue[c] = <<>> THEN view[c] ELSE queue[c][Len(queue[c])]

SessionsTyped ==
  /\ conn \in [Clients -> {"none", "handshake", "open"}]
  /\ queue \in [Clients -> Seq(Lists)]
  /\ view \in [Clients -> Lists \cup {NoView}]
  /\ asked \in [Clients -> SUBSET TaskIds]
  /\ server \in {"serving", "stopping", "cleaning"}

\* A request is open while run_tracked() is suspended in it; a task has one at most.
AskedWait ==
  /\ \A c \in Clients : \A i \in asked[c] : i \in Started /\ waiter[i] = "waiting"
  /\ \A c, d \in Clients : c # d => asked[c] \cap asked[d] = {}

\* A client is sent lists from session.ready on, until its handler ends.
SessionsBegin ==
  \A c \in Clients :
    IF conn[c] = "open" THEN view[c] # NoView \/ queue[c] # <<>>
    ELSE view[c] = NoView /\ queue[c] = <<>>

\* TaskManager.close() begins when every handler has ended and no other can begin.
ClosedLast ==
  /\ closing # "open" => server = "cleaning"
  /\ server = "cleaning" => \A c \in Clients : conn[c] = "none"

\* The lists on their way to a client follow each other, and the one it shows.
QueuesInOrder ==
  \A c \in Clients :
    /\ \A n \in 1 .. Len(queue[c]) - 1 : Follows(queue[c][n], queue[c][n + 1])
    /\ view[c] # NoView /\ queue[c] # <<>> => Follows(view[c], queue[c][1])

\* What the registry, or any later list, may have over a list that was sent: tasks
\* that are newer, that have got further or that have ended.
Behind(a) ==
  /\ DOMAIN a \subseteq tasks
  /\ \A i \in DOMAIN a : /\ a[i].finished => a[i] = Payload(i)
                         /\ a[i].progress <= progress[i]
  /\ \A i \in tasks \ DOMAIN a : \A j \in DOMAIN a : j < i
  /\ \A i \in tasks : finalizer[i] = "sleeping" => i \in DOMAIN a /\ a[i].finished

NewestKnown ==
  \A c \in Open :
    /\ Behind(Latest(c))
    /\ ~Announcing => Latest(c) = Snapshot

SessionsInv ==
  /\ SessionsTyped
  /\ AskedWait
  /\ SessionsBegin
  /\ ClosedLast
  /\ QueuesInOrder
  /\ NewestKnown

-----------------------------------------------------------------------------
(***************************************************************************)
(* The server drives its TaskManager                                       *)
(***************************************************************************)

LEMMA AskedAreTasks == SessionsTyped => \A C \in SUBSET Clients : AskedBy(C) \in SUBSET TaskIds
BY DEF SessionsTyped, AskedBy

\* Every step of the server is one of the registry, or none.
LEMMA ServerStep == SessionsTyped /\ [ServerNext]_allVars => [Next]_vars
<1> SUFFICES ASSUME SessionsTyped, [ServerNext]_allVars PROVE [Next]_vars
  OBVIOUS
<1>1. ASSUME NEW c \in Clients, Leave(c) PROVE Next
  <2>1. AskedBy({c}) \in SUBSET TaskIds
    BY AskedAreTasks
  <2>2. QED
    BY <1>1, <2>1 DEF Leave, Next
<1>2. CASE CloseClients
  <2>1. AskedBy(Open) \in SUBSET TaskIds
    BY AskedAreTasks DEF Open
  <2>2. QED
    BY <1>2, <2>1 DEF CloseClients, Next
<1>3. ASSUME NEW c \in Clients, NEW req \in Requests, AskStart(c, req) PROVE Next
  BY <1>3 DEF AskStart, Next
<1>4. ASSUME NEW c \in Clients, NEW i \in TaskIds, AskStop(c, i) \/ Answer(c, i) PROVE Next
  BY <1>4 DEF AskStop, Answer, Next, TaskStep
<1>5. ASSUME NEW c \in Clients, Handshake(c) \/ Admit(c) \/ Deliver(c) PROVE UNCHANGED vars
  BY <1>5 DEF Handshake, Admit, Deliver
<1>6. ASSUME NEW i \in TaskIds,
             \/ SetProgress(i)
             \/ \E ending \in Endings : Finish(i, ending)
             \/ OnDone(i)
             \/ AnnounceEnd(i)
             \/ AnnounceRemoval(i)
      PROVE  Next
  BY <1>6 DEF AnnounceEnd, AnnounceRemoval, Next, TaskStep
<1>7. CASE Broadcast \/ Cleanup \/ CloseReaped
  BY <1>7 DEF Broadcast, Cleanup, Next
<1>8. CASE UNCHANGED allVars
  BY <1>8 DEF allVars
<1>9. QED
  BY <1>1, <1>2, <1>3, <1>4, <1>5, <1>6, <1>7, <1>8 DEF ServerNext

-----------------------------------------------------------------------------
(***************************************************************************)
(* Lists                                                                   *)
(***************************************************************************)

\* snapshot() lists the registry's tasks.
LEMMA SnapshotIsList ==
  TypeOK =>
    /\ Snapshot \in Lists
    /\ DOMAIN Snapshot = tasks
    /\ \A i \in tasks : Snapshot[i] = Payload(i)
<1> SUFFICES ASSUME TypeOK
             PROVE  /\ Snapshot \in Lists
                    /\ DOMAIN Snapshot = tasks
                    /\ \A i \in tasks : Snapshot[i] = Payload(i)
  OBVIOUS
<1>1. tasks \in SUBSET TaskIds
  BY BoundsAssumption DEF TypeOK, Started, TaskIds
<1>2. \A i \in tasks : Payload(i) \in [status : Statuses, finished : BOOLEAN, stoppable : BOOLEAN, progress : 0 .. MaxEmits]
  BY <1>1 DEF TypeOK, Payload, Stoppable
<1>3. Snapshot \in [tasks -> [status : Statuses, finished : BOOLEAN, stoppable : BOOLEAN, progress : 0 .. MaxEmits]]
  BY <1>2 DEF Snapshot
<1>4. QED
  BY <1>1, <1>3 DEF Snapshot, Lists

LEMMA ListTyped ==
  ASSUME NEW a \in Lists, NEW i \in DOMAIN a
  PROVE  i \in TaskIds /\ a[i].progress \in Nat /\ a[i].finished \in BOOLEAN
BY BoundsAssumption DEF Lists

\* A list taken now is up to date: an expiring task is in it, as finished.
LEMMA SnapshotIsBehind == TypeOK /\ Lifecycle => Behind(Snapshot)
<1> SUFFICES ASSUME TypeOK, Lifecycle PROVE Behind(Snapshot)
  OBVIOUS
<1>1. \A i \in tasks : i \in TaskIds /\ Payload(i).progress = progress[i] /\ progress[i] \in Nat
                       /\ Payload(i).finished = (i \in finished)
  BY BoundsAssumption DEF TypeOK, Payload, Started, TaskIds
<1>2. \A i \in tasks : finalizer[i] = "sleeping" => i \in finished
  BY <1>1 DEF Lifecycle
<1>3. DOMAIN Snapshot = tasks /\ \A i \in tasks : Snapshot[i] = Payload(i)
  BY SnapshotIsList
<1>4. \A i \in tasks : Snapshot[i].progress <= progress[i]
  BY <1>1, <1>3
<1>5. \A i \in tasks : finalizer[i] = "sleeping" => Snapshot[i].finished
  BY <1>1, <1>2, <1>3
<1>6. QED
  BY <1>3, <1>4, <1>5 DEF Behind

\* A list may follow itself.
LEMMA FollowsItself == ASSUME NEW a \in Lists PROVE Follows(a, a)
BY ListTyped DEF Follows

\* Everything a client was sent ends with the newest list.
LEMMA SentIs ==
  ASSUME SessionsTyped, NEW c \in Clients
  PROVE  /\ Sent(c) = <<>> <=> view[c] = NoView /\ queue[c] = <<>>
         /\ view[c] # NoView \/ queue[c] # <<>> => Newest(c) = Latest(c)
<1>1. queue[c] \in Seq(Lists) /\ view[c] \in Lists \cup {NoView}
  BY DEF SessionsTyped
<1>2. CASE view[c] = NoView
  BY <1>1, <1>2 DEF Sent, Newest, Latest
<1>3. CASE view[c] # NoView
  <2>1. <<view[c]>> \in Seq(Lists) /\ Len(<<view[c]>>) = 1 /\ <<view[c]>>[1] = view[c]
    BY <1>1, <1>3
  <2>2. /\ Len(Sent(c)) = 1 + Len(queue[c]) /\ Sent(c)[1] = view[c]
        /\ queue[c] # <<>> => Sent(c)[1 + Len(queue[c])] = queue[c][Len(queue[c])]
    BY <1>1, <1>3, <2>1 DEF Sent
  <2>3. queue[c] = <<>> => Len(queue[c]) = 0
    OBVIOUS
  <2>4. Sent(c) # <<>>
    BY <1>1, <2>2
  <2>5. QED
    BY <1>3, <2>2, <2>3, <2>4 DEF Newest, Latest
<1>4. QED
  BY <1>2, <1>3

\* A list taken now may follow any that is behind.
LEMMA SnapshotFollows ==
  ASSUME TypeOK, NEW a, Behind(a)
  PROVE  Follows(a, Snapshot)
<1>1. DOMAIN a \subseteq tasks /\ DOMAIN Snapshot = tasks
  BY SnapshotIsList DEF Behind
<1>2. \A i \in DOMAIN a : Snapshot[i] = Payload(i) /\ Payload(i).progress = progress[i]
  BY <1>1, SnapshotIsList DEF Payload
<1>3. QED
  BY <1>1, <1>2 DEF Behind, Follows

\* One that was taken before a task is removed, too, if it shows that task as finished.
LEMMA RemovalFollows ==
  ASSUME TypeOK, NEW a, Behind(a), NEW i \in TaskIds, FinalizeExpire(i)
  PROVE  Follows(a, Snapshot')
<1>1. DOMAIN a \subseteq tasks /\ DOMAIN Snapshot' = tasks \ {i}
  BY DEF Behind, Snapshot, FinalizeExpire
<1>2. \A j \in tasks \ {i} : Snapshot'[j] = Payload(j)
  BY DEF Snapshot, FinalizeExpire, Payload, Stoppable
<1>3. \A j \in tasks : Payload(j).progress = progress[j]
  BY DEF Payload
<1>4. i \in DOMAIN a => a[i].finished
  BY <1>1 DEF Behind, FinalizeExpire
<1>5. QED
  BY <1>1, <1>2, <1>3, <1>4 DEF Behind, Follows

\* What is behind stays behind while tasks start, get on and end.
LEMMA StaysBehind ==
  ASSUME TypeOK, Lifecycle, NEW a \in Lists, Behind(a),
         \/ \E req \in Requests : Start(req)
         \/ \E i \in TaskIds : SetProgress(i) \/ OnDone(i)
         \/ /\ UNCHANGED <<tasks, status, job, finished, progress>>
            /\ \A i \in TaskIds : finalizer'[i] = "sleeping" => finalizer[i] = "sleeping"
  PROVE  Behind(a)'
<1>0. tasks \subseteq TaskIds /\ tasks \subseteq Started /\ counter \in Nat
  BY BoundsAssumption DEF TypeOK, Started, TaskIds
<1>1. ASSUME NEW req \in Requests, Start(req) PROVE Behind(a)'
  <2> DEFINE n == counter + 1
  <2>1. n \in TaskIds /\ n \notin tasks /\ tasks' = tasks \cup {n} /\ \A i \in tasks : i < n
    BY <1>1, <1>0, BoundsAssumption DEF Start, Register, Started, TaskIds, TypeOK
  <2>2. UNCHANGED <<status, finished, progress, finalizer>> /\ \A i \in tasks : job'[i] = job[i]
    BY <1>1, <1>0 DEF Start, Register, TypeOK, Started
  <2>3. \A i \in tasks : Payload(i)' = Payload(i)
    BY <2>2 DEF Payload, Stoppable
  <2>4. finalizer[n] # "sleeping"
    BY <2>1, <1>0 DEF Lifecycle, Started
  <2>5. QED
    BY <2>1, <2>2, <2>3, <2>4 DEF Behind
<1>2. ASSUME NEW i \in TaskIds, SetProgress(i) PROVE Behind(a)'
  <2>1. i \notin finished
    BY <1>2 DEF SetProgress, Lifecycle, StatusTellsOutcome, StatusOf
  <2>2. /\ UNCHANGED <<tasks, status, job, finished, finalizer>>
        /\ \A k \in TaskIds \ {i} : progress'[k] = progress[k]
        /\ progress'[i] = progress[i] + 1 /\ progress[i] \in Nat
    BY <1>2 DEF SetProgress, TypeOK
  <2>3. \A k \in TaskIds \ {i} : Payload(k)' = Payload(k)
    BY <2>2 DEF Payload, Stoppable
  <2>4. i \in DOMAIN a => ~a[i].finished
    <3>1. ASSUME i \in DOMAIN a, a[i].finished PROVE FALSE
      <4>1. a[i] = Payload(i)
        BY <3>1 DEF Behind
      <4>2. Payload(i).finished = (i \in finished)
        BY DEF Payload
      <4>3. QED
        BY <2>1, <3>1, <4>1, <4>2
    <3>2. QED
      BY <3>1
  <2>5. \A k \in DOMAIN a : k \in TaskIds /\ progress'[k] \in Nat
    BY <1>0, <1>2, <2>2 DEF Behind, TypeOK
  <2>7. i \in DOMAIN a => a[i].progress \in Nat
    BY ListTyped
  <2>6. QED
    BY <2>2, <2>3, <2>4, <2>5, <2>7, <1>0 DEF Behind
<1>3. ASSUME NEW i \in TaskIds, OnDone(i) PROVE Behind(a)'
  <2>1. /\ i \notin finished
        /\ UNCHANGED <<tasks, job, progress>>
        /\ \A k \in TaskIds \ {i} : status'[k] = status[k] /\ (k \in finished' <=> k \in finished)
        /\ \A k \in TaskIds : finalizer'[k] = "sleeping" => finalizer[k] = "sleeping"
    BY <1>3 DEF OnDone, TypeOK
  <2>2. \A k \in TaskIds \ {i} : Payload(k)' = Payload(k)
    BY <2>1 DEF Payload, Stoppable
  <2>3. i \in DOMAIN a => ~a[i].finished
    <3>1. ASSUME i \in DOMAIN a, a[i].finished PROVE FALSE
      <4>1. a[i] = Payload(i)
        BY <3>1 DEF Behind
      <4>2. Payload(i).finished = (i \in finished)
        BY DEF Payload
      <4>3. QED
        BY <2>1, <3>1, <4>1, <4>2
    <3>2. QED
      BY <3>1
  <2>4. QED
    BY <2>1, <2>2, <2>3, <1>0 DEF Behind
<1>4. CASE /\ UNCHANGED <<tasks, status, job, finished, progress>>
           /\ \A i \in TaskIds : finalizer'[i] = "sleeping" => finalizer[i] = "sleeping"
  <2>1. \A i \in tasks : Payload(i)' = Payload(i)
    BY <1>4 DEF Payload, Stoppable
  <2>2. QED
    BY <1>0, <1>4, <2>1 DEF Behind
<1>5. QED
  BY <1>1, <1>2, <1>3, <1>4
-----------------------------------------------------------------------------
(***************************************************************************)
(* What connections carry                                                  *)
(***************************************************************************)

\* A broadcast of a list that may follow the newest on every open connection.
LEMMA SendKeeps ==
  ASSUME SessionsTyped, SessionsBegin, QueuesInOrder, NEW a \in Lists, SendToAll(a),
         closing = "open", UNCHANGED <<conn, view, asked, server>>,
         \A c \in Open : Follows(Latest(c), a)
  PROVE  /\ SessionsTyped' /\ SessionsBegin' /\ QueuesInOrder'
         /\ \A c \in Open : Latest(c)' = a
<1>1. /\ \A c \in Open : queue'[c] = Append(queue[c], a)
      /\ \A c \in Clients \ Open : queue'[c] = queue[c]
      /\ queue' \in [Clients -> Seq(Lists)]
  BY DEF SendToAll, SessionsTyped, Open
<1>2. SessionsTyped' /\ SessionsBegin'
  BY <1>1 DEF SessionsTyped, SessionsBegin, Open
<1>3. \A c \in Open : Latest(c)' = a
  BY <1>1 DEF Latest, SessionsTyped, Open
<1>4. ASSUME NEW c \in Open
      PROVE  /\ \A n \in 1 .. Len(queue'[c]) - 1 : Follows(queue'[c][n], queue'[c][n + 1])
             /\ view[c] # NoView => Follows(view[c], queue'[c][1])
  <2> DEFINE q == queue[c]
  <2>1. q \in Seq(Lists) /\ queue'[c] = Append(q, a) /\ c \in Clients
    BY <1>1 DEF SessionsTyped, Open
  <2>2. ASSUME NEW n \in 1 .. Len(q) PROVE Follows(Append(q, a)[n], Append(q, a)[n + 1])
    <3>1. CASE n = Len(q)
      <4>1. Latest(c) = q[n]
        BY <2>1, <3>1 DEF Latest
      <4>2. Append(q, a)[n] = q[n] /\ Append(q, a)[n + 1] = a
        BY <2>1, <3>1
      <4>3. QED
        BY <4>1, <4>2
    <3>2. CASE n # Len(q)
      <4>1. n \in 1 .. Len(q) - 1
        BY <2>1, <3>2
      <4>2. Append(q, a)[n] = q[n] /\ Append(q, a)[n + 1] = q[n + 1]
        BY <2>1, <4>1
      <4>3. QED
        BY <2>1, <4>1, <4>2 DEF QueuesInOrder
    <3>3. QED
      BY <3>1, <3>2
  <2>3. view[c] # NoView => Follows(view[c], Append(q, a)[1])
    <3>1. CASE q = <<>>
      <4>1. Latest(c) = view[c] /\ Append(q, a)[1] = a
        BY <2>1, <3>1 DEF Latest
      <4>2. QED
        BY <4>1
    <3>2. CASE q # <<>>
      <4>1. Append(q, a)[1] = q[1]
        BY <2>1, <3>2
      <4>2. QED
        BY <2>1, <3>2, <4>1 DEF QueuesInOrder
    <3>3. QED
      BY <3>1, <3>2
  <2>4. QED
    BY <2>1, <2>2, <2>3
<1>5. QueuesInOrder'
  BY <1>1, <1>4 DEF QueuesInOrder, Open
<1>6. QED
  BY <1>2, <1>3, <1>5

\* A client takes the first list on its way.
LEMMA DeliverKeeps ==
  ASSUME SessionsTyped, SessionsBegin, QueuesInOrder, NEW c \in Clients, Deliver(c)
  PROVE  /\ SessionsTyped' /\ SessionsBegin' /\ QueuesInOrder'
         /\ \A d \in Clients : Latest(d)' = Latest(d)
         /\ view[c] # NoView => Follows(view[c], view'[c])
<1> DEFINE q == queue[c]
<1>1. /\ q \in Seq(Lists) /\ q # <<>> /\ Len(q) \in Nat \ {0}
      /\ view'[c] = q[1] /\ queue'[c] = Tail(q) /\ q[1] \in Lists
      /\ \A d \in Clients \ {c} : view'[d] = view[d] /\ queue'[d] = queue[d]
      /\ queue' \in [Clients -> Seq(Lists)] /\ view' \in [Clients -> Lists \cup {NoView}]
  BY DEF Deliver, SessionsTyped
<1>2. /\ Tail(q) \in Seq(Lists) /\ Len(Tail(q)) = Len(q) - 1
      /\ \A n \in 1 .. Len(q) - 1 : Tail(q)[n] = q[n + 1]
      /\ Tail(q) = <<>> <=> Len(q) = 1
  <2>1. Tail(q) \in Seq(Lists) /\ Len(Tail(q)) = Len(q) - 1
    BY <1>1
  <2>2. \A n \in 1 .. Len(q) - 1 : Tail(q)[n] = q[n + 1]
    BY <1>1
  <2>3. \A r \in Seq(Lists) : r = <<>> <=> Len(r) = 0
    OBVIOUS
  <2>4. Tail(q) = <<>> <=> Len(Tail(q)) = 0
    BY <2>1, <2>3
  <2>5. Len(Tail(q)) = 0 <=> Len(q) = 1
    BY <1>1, <2>1
  <2>6. QED
    BY <2>1, <2>2, <2>4, <2>5
<1>3. SessionsTyped'
  BY <1>1 DEF Deliver, SessionsTyped
<1>4. conn[c] = "open" /\ view'[c] # NoView
  BY <1>1, NoViewAssumption DEF SessionsBegin
<1>5. SessionsBegin'
  BY <1>1, <1>4 DEF SessionsBegin, Deliver
<1>6. \A n \in 1 .. Len(Tail(q)) - 1 : Follows(Tail(q)[n], Tail(q)[n + 1])
  <2>1. ASSUME NEW n \in 1 .. Len(Tail(q)) - 1 PROVE Follows(Tail(q)[n], Tail(q)[n + 1])
    <3>1. n + 1 \in 1 .. Len(q) - 1 /\ n \in 1 .. Len(q) - 1
      BY <1>1, <1>2
    <3>2. Follows(q[n + 1], q[(n + 1) + 1])
      BY <3>1 DEF QueuesInOrder
    <3>3. Tail(q)[n] = q[n + 1] /\ Tail(q)[n + 1] = q[(n + 1) + 1]
      BY <3>1, <1>2
    <3>4. QED
      BY <3>2, <3>3
  <2>2. QED
    BY <2>1
<1>7. Tail(q) # <<>> => Follows(view'[c], Tail(q)[1])
  <2>1. SUFFICES ASSUME Tail(q) # <<>> PROVE Follows(q[1], Tail(q)[1])
    BY <1>1
  <2>2. 1 \in 1 .. Len(q) - 1
    BY <2>1, <1>1, <1>2
  <2>3. Follows(q[1], q[1 + 1])
    BY <2>2 DEF QueuesInOrder
  <2>4. QED
    BY <2>2, <2>3, <1>2
<1>8. QueuesInOrder'
  BY <1>1, <1>6, <1>7 DEF QueuesInOrder
<1>9. Latest(c)' = Latest(c)
  <2>1. CASE Len(q) = 1
    <3>1. Tail(q) = <<>> /\ q[Len(q)] = q[1]
      BY <1>2, <2>1
    <3>2. QED
      BY <1>1, <3>1 DEF Latest
  <2>2. CASE Len(q) # 1
    <3>1. Tail(q)[Len(Tail(q))] = q[Len(q)] /\ Tail(q) # <<>>
      BY <1>1, <1>2, <2>2
    <3>2. QED
      BY <1>1, <3>1 DEF Latest
  <2>3. QED
    BY <2>1, <2>2
<1>10. \A d \in Clients \ {c} : Latest(d)' = Latest(d)
  BY <1>1 DEF Latest
<1>11. view[c] # NoView => Follows(view[c], view'[c])
  BY <1>1 DEF QueuesInOrder
<1>12. QED
  BY <1>3, <1>5, <1>8, <1>9, <1>10, <1>11

\* Handlers that end: their clients start again from nothing, the others go on.
LEMMA DisconnectKeeps ==
  ASSUME SessionsInv, NEW C \in SUBSET Clients, Disconnect(C),
         WaitersLeave(AskedBy(C)), server' \in {server, "stopping"},
         server = "cleaning" => server' = server
  PROVE  SessionsInv'
<1>1. /\ \A c \in C : conn'[c] = "none" /\ queue'[c] = <<>> /\ view'[c] = NoView /\ asked'[c] = {}
      /\ \A c \in Clients \ C : /\ conn'[c] = conn[c] /\ queue'[c] = queue[c]
                                /\ view'[c] = view[c] /\ asked'[c] = asked[c]
  BY DEF Disconnect
<1>2. <<>> \in Seq(Lists)
  OBVIOUS
<1>3. SessionsTyped'
  BY <1>2 DEF SessionsInv, SessionsTyped, Disconnect
<1>4. AskedWait'
  <2>1. \A c \in Clients \ C : asked[c] \cap AskedBy(C) = {}
    BY DEF SessionsInv, AskedWait, AskedBy
  <2>2. \A c \in Clients \ C : \A i \in asked[c] : waiter'[i] = "waiting"
    BY <2>1 DEF SessionsInv, AskedWait, WaitersLeave, SessionsTyped
  <2>3. counter' = counter
    BY DEF WaitersLeave
  <2>4. QED
    BY <1>1, <2>2, <2>3 DEF SessionsInv, AskedWait, Started
<1>5. SessionsBegin' /\ ClosedLast'
  BY <1>1 DEF SessionsInv, SessionsBegin, ClosedLast, WaitersLeave
<1>6. QueuesInOrder'
  BY <1>1 DEF SessionsInv, QueuesInOrder
<1>7. NewestKnown'
  <2>1. \A c \in Open' : c \in Open /\ Latest(c)' = Latest(c)
    BY <1>1 DEF Open, Latest
  <2>2. \A a : Behind(a)' = Behind(a)
    BY DEF WaitersLeave, Behind, Payload, Stoppable
  <2>3. Announcing' = Announcing /\ Snapshot' = Snapshot
    BY DEF WaitersLeave, Announcing, Snapshot, Payload, Stoppable
  <2>4. QED
    BY <2>1, <2>2, <2>3 DEF SessionsInv, NewestKnown
<1>8. QED
  BY <1>3, <1>4, <1>5, <1>6, <1>7 DEF SessionsInv
-----------------------------------------------------------------------------
(***************************************************************************)
(* The invariant                                                           *)
(***************************************************************************)

LEMMA LatestTyped ==
  ASSUME SessionsTyped, SessionsBegin, NEW c \in Open
  PROVE  Latest(c) \in Lists
<1>1. queue[c] \in Seq(Lists) /\ view[c] \in Lists \cup {NoView} /\ (view[c] # NoView \/ queue[c] # <<>>)
  BY DEF Open, SessionsTyped, SessionsBegin
<1>2. queue[c] # <<>> => Len(queue[c]) \in 1 .. Len(queue[c])
  BY <1>1
<1>3. QED
  BY <1>1, <1>2 DEF Latest

\* While an open connection exists, the registry is open.
LEMMA OpenMeansOpen == SessionsInv /\ Open # {} => closing = "open"
BY DEF SessionsInv, ClosedLast, Open

\* A step of the registry that sends nothing, and that leaves something to announce if it
\* changes the list.
LEMMA SilentStep ==
  ASSUME TypeOK, Lifecycle, SessionsInv, UNCHANGED <<conn, queue, view, server>>,
         SessionsTyped', AskedWait', closing' = closing \/ closing # "open",
         \/ \E req \in Requests : Start(req)
         \/ \E i \in TaskIds : SetProgress(i) \/ OnDone(i)
         \/ /\ UNCHANGED <<tasks, status, job, finished, progress, announce>>
            /\ finalizer' = finalizer \/ closing # "open"
  PROVE  SessionsInv'
<1>1. SessionsBegin' /\ QueuesInOrder'
  BY DEF SessionsInv, SessionsBegin, QueuesInOrder
<1>2. ClosedLast'
  BY DEF SessionsInv, ClosedLast
<1>3. ASSUME NEW c \in Open PROVE Behind(Latest(c))' /\ (~Announcing' => Latest(c)' = Snapshot')
  <2>1. Latest(c)' = Latest(c) /\ Latest(c) \in Lists /\ Behind(Latest(c))
        /\ (~Announcing => Latest(c) = Snapshot)
    BY LatestTyped DEF Latest, SessionsInv, NewestKnown
  <2>2. closing = "open"
    BY OpenMeansOpen
  <2>3. Behind(Latest(c))'
    <3>1. PICK a \in Lists : a = Latest(c)
      BY <2>1
    <3>2. Behind(a)
      BY <2>1, <3>1
    <3>3. Behind(a)'
      BY <2>2, <3>2, StaysBehind
    <3>4. QED
      BY <2>1, <3>1, <3>3 DEF Behind
  <2>4. ~Announcing' => Latest(c)' = Snapshot'
    <3>1. CASE \E req \in Requests : Start(req)
      BY <3>1 DEF Start, Register, Announcing
    <3>2. CASE \E i \in TaskIds : SetProgress(i) \/ OnDone(i)
      BY <3>2, <2>2 DEF SetProgress, OnDone, Announcing, TypeOK
    <3>3. CASE /\ UNCHANGED <<tasks, status, job, finished, progress, announce>>
               /\ finalizer' = finalizer
      BY <2>1, <3>3 DEF Announcing, Snapshot, Payload, Stoppable
    <3>4. QED
      BY <2>2, <3>1, <3>2, <3>3
  <2>5. QED
    BY <2>3, <2>4
<1>4. NewestKnown'
  BY <1>3 DEF NewestKnown, Open
<1>5. QED
  BY <1>1, <1>2, <1>4 DEF SessionsInv

\* A step that puts the list of that moment on every open connection.
LEMMA LoudStep ==
  ASSUME TypeOK, Lifecycle, SessionsInv, TypeOK', Lifecycle', NEW a, a = Snapshot', SendToAll(a),
         UNCHANGED <<conn, view, asked, server, waiter, counter, closing>>,
         Open # {} => \A c \in Open : Follows(Latest(c), a)
  PROVE  SessionsInv'
<1>1. AskedWait' /\ ClosedLast'
  BY DEF SessionsInv, AskedWait, Started, ClosedLast
<1>2. CASE Open = {}
  <2>1. queue' = queue
    BY <1>2 DEF SendToAll, SessionsInv, SessionsTyped
  <2>2. SessionsTyped' /\ SessionsBegin' /\ QueuesInOrder' /\ NewestKnown'
    BY <1>2, <2>1 DEF SessionsInv, SessionsTyped, SessionsBegin, QueuesInOrder, NewestKnown, Open
  <2>3. QED
    BY <1>1, <2>2 DEF SessionsInv
<1>3. CASE Open # {}
  <2>1. a \in Lists /\ Behind(a)'
    <3>1. (TypeOK => Snapshot \in Lists)'
      BY SnapshotIsList, PTL
    <3>2. (TypeOK /\ Lifecycle => Behind(Snapshot))'
      BY SnapshotIsBehind, PTL
    <3>3. QED
      BY <3>1, <3>2 DEF Behind
  <2>2. /\ SessionsTyped' /\ SessionsBegin' /\ QueuesInOrder'
        /\ \A c \in Open : Latest(c)' = a
    BY <1>3, <2>1, SendKeeps, OpenMeansOpen DEF SessionsInv
  <2>3. NewestKnown'
    BY <2>1, <2>2 DEF NewestKnown, Open, Behind
  <2>4. QED
    BY <1>1, <2>2, <2>3 DEF SessionsInv
<1>4. QED
  BY <1>2, <1>3
LEMMA SessionsInvInit == ServerInit => SessionsInv
<1> SUFFICES ASSUME ServerInit PROVE SessionsInv
  OBVIOUS
<1>1. SessionsTyped /\ AskedWait /\ SessionsBegin /\ ClosedLast
  BY DEF ServerInit, Init, SessionsTyped, AskedWait, SessionsBegin, ClosedLast
<1>2. QueuesInOrder /\ NewestKnown
  BY DEF ServerInit, QueuesInOrder, NewestKnown, Open
<1>3. QED
  BY <1>1, <1>2 DEF SessionsInv

\* The handshake, session.ready and the delivery of a list.
LEMMA SessionSteps ==
  ASSUME TypeOK, Lifecycle, SessionsInv, NEW c \in Clients, Handshake(c) \/ Admit(c) \/ Deliver(c)
  PROVE  SessionsInv'
<1>1. UNCHANGED vars /\ UNCHANGED <<asked, server>>
  BY DEF Handshake, Admit, Deliver
<1>2. AskedWait'
  BY <1>1 DEF SessionsInv, AskedWait, Started, vars
<1>3. /\ \A a : Behind(a)' = Behind(a)
      /\ Announcing' = Announcing /\ Snapshot' = Snapshot
  BY <1>1 DEF vars, Behind, Payload, Stoppable, Announcing, Snapshot
<1>4. CASE Handshake(c)
  <2>1. SessionsTyped' /\ SessionsBegin' /\ QueuesInOrder'
    BY <1>4 DEF Handshake, SessionsInv, SessionsTyped, SessionsBegin, QueuesInOrder
  <2>2. ClosedLast'
    BY <1>1, <1>4 DEF Handshake, SessionsInv, ClosedLast, vars
  <2>3. Open' = Open /\ \A d \in Clients : Latest(d)' = Latest(d)
    BY <1>4 DEF Handshake, Open, SessionsInv, SessionsTyped, Latest
  <2>4. NewestKnown'
    BY <1>3, <2>3 DEF SessionsInv, NewestKnown, Open
  <2>5. QED
    BY <1>2, <2>1, <2>2, <2>4 DEF SessionsInv
<1>5. CASE Admit(c)
  <2>1. /\ conn[c] = "handshake" /\ view[c] = NoView
        /\ conn'[c] = "open" /\ queue'[c] = <<Snapshot>> /\ view' = view
        /\ \A d \in Clients \ {c} : conn'[d] = conn[d] /\ queue'[d] = queue[d]
    BY <1>5 DEF Admit, SessionsInv, SessionsTyped, SessionsBegin
  <2>2. Snapshot \in Lists /\ Behind(Snapshot)
    BY SnapshotIsList, SnapshotIsBehind
  <2>3. <<Snapshot>> \in Seq(Lists) /\ <<Snapshot>> # <<>> /\ Len(<<Snapshot>>) = 1 /\ <<Snapshot>>[1] = Snapshot
    BY <2>2
  <2>4. SessionsTyped'
    BY <1>5, <2>3 DEF Admit, SessionsInv, SessionsTyped
  <2>5. SessionsBegin'
    BY <2>1, <2>3 DEF SessionsInv, SessionsBegin
  <2>6. ClosedLast'
    BY <1>1, <2>1 DEF SessionsInv, ClosedLast, vars
  <2>7. QueuesInOrder'
    BY <2>1, <2>3 DEF SessionsInv, QueuesInOrder
  <2>8. Latest(c)' = Snapshot /\ \A d \in Clients \ {c} : Latest(d)' = Latest(d)
    BY <2>1, <2>3 DEF Latest
  <2>9. Open' = Open \cup {c}
    BY <2>1 DEF Open
  <2>10. NewestKnown'
    BY <1>3, <2>2, <2>8, <2>9 DEF SessionsInv, NewestKnown, Open
  <2>11. QED
    BY <1>2, <2>4, <2>5, <2>6, <2>7, <2>10 DEF SessionsInv
<1>6. CASE Deliver(c)
  <2>1. /\ SessionsTyped' /\ SessionsBegin' /\ QueuesInOrder'
        /\ \A d \in Clients : Latest(d)' = Latest(d)
    BY <1>6, DeliverKeeps DEF SessionsInv
  <2>2. ClosedLast' /\ Open' = Open
    BY <1>1, <1>6 DEF Deliver, SessionsInv, ClosedLast, vars, Open
  <2>3. NewestKnown'
    BY <1>3, <2>1, <2>2 DEF SessionsInv, NewestKnown, Open
  <2>4. QED
    BY <1>2, <2>1, <2>2, <2>3 DEF SessionsInv
<1>7. QED
  BY <1>4, <1>5, <1>6

\* Requests, and the answers to those that wait.
LEMMA RequestSteps ==
  ASSUME TypeOK, Lifecycle, SessionsInv, NEW c \in Clients,
         \/ \E req \in Requests : AskStart(c, req)
         \/ \E i \in TaskIds : AskStop(c, i) \/ Answer(c, i)
  PROVE  SessionsInv'
<1>1. ASSUME NEW req \in Requests, AskStart(c, req) PROVE SessionsInv'
  <2> DEFINE n == counter + 1
  <2>1. /\ n \in TaskIds /\ n \notin Started /\ Started' = Started \cup {n}
        /\ UNCHANGED <<conn, queue, view, server, closing>>
    BY <1>1, BoundsAssumption DEF AskStart, Start, Register, TypeOK, Started, TaskIds
  <2>2. /\ \A i \in TaskIds \ {n} : waiter'[i] = waiter[i]
        /\ req.tracked => waiter'[n] = "waiting"
    BY <1>1, <2>1 DEF AskStart, Start, Register, TypeOK
  <2>3. /\ \A d \in Clients \ {c} : asked'[d] = asked[d]
        /\ asked'[c] = IF req.tracked THEN asked[c] \cup {n} ELSE asked[c]
        /\ asked' \in [Clients -> SUBSET TaskIds]
    BY <1>1, <2>1 DEF AskStart, SessionsInv, SessionsTyped
  <2>4. \A d \in Clients : n \notin asked[d] /\ asked[d] \subseteq TaskIds
    BY <2>1 DEF SessionsInv, AskedWait, SessionsTyped
  <2>5. AskedWait'
    <3>1. ASSUME NEW d \in Clients, NEW i \in asked'[d] PROVE i \in Started' /\ waiter'[i] = "waiting"
      <4>1. CASE i \in asked[d]
        BY <4>1, <2>1, <2>2, <2>4 DEF SessionsInv, AskedWait
      <4>2. CASE i \notin asked[d]
        BY <3>1, <4>2, <2>1, <2>2, <2>3
      <4>3. QED
        BY <4>1, <4>2
    <3>2. ASSUME NEW d \in Clients, NEW e \in Clients, d # e PROVE asked'[d] \cap asked'[e] = {}
      BY <3>2, <2>3, <2>4 DEF SessionsInv, AskedWait
    <3>3. QED
      BY <3>1, <3>2 DEF AskedWait
  <2>6. SessionsTyped'
    BY <2>1, <2>3 DEF SessionsInv, SessionsTyped
  <2>7. Start(req)
    BY <1>1 DEF AskStart
  <2>8. QED
    BY <2>1, <2>5, <2>6, <2>7, SilentStep
<1>2. ASSUME NEW i \in TaskIds, AskStop(c, i) PROVE SessionsInv'
  <2>1. /\ UNCHANGED serverVars /\ UNCHANGED <<closing, waiter, counter>>
        /\ UNCHANGED <<tasks, status, job, finished, progress, announce, finalizer>>
    BY <1>2 DEF AskStop, Stop
  <2>2. SessionsTyped' /\ AskedWait'
    BY <2>1 DEF SessionsInv, SessionsTyped, AskedWait, Started, serverVars
  <2>3. QED
    BY <2>1, <2>2, SilentStep DEF serverVars
<1>3. ASSUME NEW i \in TaskIds, Answer(c, i) PROVE SessionsInv'
  <2>1. /\ UNCHANGED <<conn, queue, view, server, closing, counter>>
        /\ UNCHANGED <<tasks, status, job, finished, progress, announce, finalizer>>
        /\ i \in asked[c]
    BY <1>3 DEF Answer, WaiterWakes
  <2>2. /\ asked'[c] = asked[c] \ {i} /\ \A d \in Clients \ {c} : asked'[d] = asked[d]
        /\ asked' \in [Clients -> SUBSET TaskIds]
    BY <1>3 DEF Answer, SessionsInv, SessionsTyped
  <2>3. \A k \in TaskIds \ {i} : waiter'[k] = waiter[k]
    BY <1>3 DEF Answer, WaiterWakes, TypeOK
  <2>4. \A d \in Clients : i \notin asked'[d] /\ asked'[d] \subseteq asked[d] /\ asked[d] \subseteq TaskIds
    BY <2>1, <2>2 DEF SessionsInv, AskedWait, SessionsTyped
  <2>5. AskedWait'
    BY <2>1, <2>3, <2>4 DEF SessionsInv, AskedWait, Started
  <2>6. SessionsTyped'
    BY <2>1, <2>2 DEF SessionsInv, SessionsTyped
  <2>7. QED
    BY <2>1, <2>5, <2>6, SilentStep
<1>4. QED
  BY <1>1, <1>2, <1>3

\* Every step of the server keeps what connections carry and requests wait for.
LEMMA SessionsInvNext ==
  TypeOK /\ Lifecycle /\ TypeOK' /\ Lifecycle' /\ SessionsInv /\ [ServerNext]_allVars => SessionsInv'
<1> SUFFICES ASSUME TypeOK, Lifecycle, TypeOK', Lifecycle', SessionsInv, [ServerNext]_allVars PROVE SessionsInv'
  OBVIOUS
<1>1. ASSUME NEW c \in Clients,
             \/ Handshake(c)
             \/ Admit(c)
             \/ Deliver(c)
             \/ \E req \in Requests : AskStart(c, req)
             \/ \E i \in TaskIds : AskStop(c, i) \/ Answer(c, i)
      PROVE  SessionsInv'
  BY <1>1, SessionSteps, RequestSteps
<1>2. ASSUME NEW c \in Clients, Leave(c) PROVE SessionsInv'
  BY <1>2, DisconnectKeeps DEF Leave
<1>3. CASE CloseClients
  BY <1>3, DisconnectKeeps DEF CloseClients, Open
<1>4. ASSUME UNCHANGED serverVars, UNCHANGED <<waiter, counter>>
      PROVE  SessionsTyped' /\ AskedWait'
  BY <1>4 DEF SessionsInv, SessionsTyped, AskedWait, Started, serverVars
<1>5. ASSUME NEW i \in TaskIds, UNCHANGED serverVars,
             SetProgress(i) \/ OnDone(i) \/ \E ending \in Endings : Finish(i, ending)
      PROVE  SessionsInv'
  <2>1. UNCHANGED <<waiter, counter, closing>>
    BY <1>5 DEF SetProgress, OnDone, Finish
  <2>2. SessionsTyped' /\ AskedWait'
    BY <1>4, <1>5, <2>1
  <2>3. CASE SetProgress(i) \/ OnDone(i)
    BY <1>5, <2>1, <2>2, <2>3, SilentStep DEF serverVars
  <2>4. CASE \E ending \in Endings : Finish(i, ending)
    <3>1. UNCHANGED <<tasks, status, job, finished, progress, announce, finalizer>>
      BY <2>4 DEF Finish
    <3>2. QED
      BY <1>5, <2>1, <2>2, <3>1, SilentStep DEF serverVars
  <2>5. QED
    BY <1>5, <2>3, <2>4
<1>6. ASSUME NEW i \in TaskIds, AnnounceEnd(i) PROVE SessionsInv'
  <2>1. /\ UNCHANGED <<conn, view, asked, server, waiter, counter, closing>>
        /\ UNCHANGED <<tasks, status, job, finished, progress>>
        /\ SendToAll(Snapshot)
    BY <1>6 DEF AnnounceEnd, FinalizeStart
  <2>2. Snapshot' = Snapshot
    BY <2>1 DEF Snapshot, Payload, Stoppable
  <2>3. \A c \in Open : Follows(Latest(c), Snapshot)
    BY SnapshotFollows DEF SessionsInv, NewestKnown
  <2>4. QED
    BY <2>1, <2>2, <2>3, LoudStep
<1>7. CASE Broadcast
  <2>1. /\ UNCHANGED <<conn, view, asked, server, waiter, counter, closing>>
        /\ UNCHANGED <<tasks, status, job, finished, progress>>
        /\ SendToAll(Snapshot)
    BY <1>7 DEF Broadcast, RunBroadcast
  <2>2. Snapshot' = Snapshot
    BY <2>1 DEF Snapshot, Payload, Stoppable
  <2>3. \A c \in Open : Follows(Latest(c), Snapshot)
    BY SnapshotFollows DEF SessionsInv, NewestKnown
  <2>4. QED
    BY <2>1, <2>2, <2>3, LoudStep
<1>8. ASSUME NEW i \in TaskIds, AnnounceRemoval(i) PROVE SessionsInv'
  <2>1. /\ UNCHANGED <<conn, view, asked, server, waiter, counter, closing>>
        /\ FinalizeExpire(i) /\ SendToAll(Snapshot')
    BY <1>8 DEF AnnounceRemoval, FinalizeExpire
  <2>2. \A c \in Open : Follows(Latest(c), Snapshot')
    BY <2>1, RemovalFollows DEF SessionsInv, NewestKnown
  <2>3. QED
    BY <2>1, <2>2, LoudStep
<1>9. CASE Cleanup
  <2>1. /\ server' = "cleaning" /\ Open = {} /\ UNCHANGED <<conn, queue, view, asked, waiter, counter>>
        /\ \A c \in Clients : conn[c] = "none"
    BY <1>9 DEF Cleanup, Close, Open
  <2>2. SessionsTyped' /\ AskedWait' /\ SessionsBegin' /\ QueuesInOrder' /\ ClosedLast'
    BY <2>1 DEF SessionsInv, SessionsTyped, AskedWait, SessionsBegin, QueuesInOrder, ClosedLast, Started
  <2>3. NewestKnown'
    BY <2>1 DEF NewestKnown, Open
  <2>4. QED
    BY <2>2, <2>3 DEF SessionsInv
<1>10. CASE CloseReaped /\ UNCHANGED serverVars
  <2>1. /\ UNCHANGED <<waiter, counter, tasks, status, job, finished, progress, announce>>
        /\ closing = "reaping"
    BY <1>10 DEF CloseReaped
  <2>2. SessionsTyped' /\ AskedWait'
    BY <1>4, <1>10, <2>1
  <2>3. QED
    BY <1>10, <2>1, <2>2, SilentStep DEF serverVars
<1>11. CASE UNCHANGED allVars
  <2>1. /\ UNCHANGED serverVars
        /\ UNCHANGED <<waiter, counter, tasks, status, job, finished, progress, announce, finalizer, closing>>
    BY <1>11 DEF allVars, vars
  <2>2. SessionsTyped' /\ AskedWait'
    BY <1>4, <2>1
  <2>3. QED
    BY <2>1, <2>2, SilentStep DEF serverVars
<1>12. QED
  BY <1>1, <1>2, <1>3, <1>5, <1>6, <1>7, <1>8, <1>9, <1>10, <1>11 DEF ServerNext

-----------------------------------------------------------------------------
(***************************************************************************)
(* What follows for the server                                             *)
(***************************************************************************)

\* The invariant of the server, with its TaskManager's.
LEMMA ServerInvariant == ServerSpec => [](TypeOK /\ Lifecycle /\ SessionsInv)
<1>1. ServerInit => TypeOK /\ Lifecycle /\ SessionsInv
  BY TypeOKInit, LifecycleInit, SessionsInvInit DEF ServerInit
<1>2. TypeOK /\ Lifecycle /\ SessionsInv /\ [ServerNext]_allVars => (TypeOK /\ Lifecycle /\ SessionsInv)'
  <2> SUFFICES ASSUME TypeOK, Lifecycle, SessionsInv, [ServerNext]_allVars
               PROVE  TypeOK' /\ Lifecycle' /\ SessionsInv'
    OBVIOUS
  <2>1. TypeOK' /\ Lifecycle'
    BY ServerStep, TypeOKStep, LifecycleStep DEF SessionsInv
  <2>2. QED
    BY <2>1, SessionsInvNext
<1>3. QED
  BY <1>1, <1>2, PTL DEF ServerSpec

\* For any clients, tasks and requests: whatever the server and its sessions do to the
\* registry is a behaviour of TaskManager, so that every theorem of TaskManager_proofs is
\* one about the server.
THEOREM ServerRunsTaskManager == ServerSpec => Spec
<1>1. ServerInit => Init
  BY DEF ServerInit
<1>2. SessionsInv /\ [ServerNext]_allVars => [Next]_vars
  BY ServerStep DEF SessionsInv
<1>3. QED
  BY <1>1, <1>2, ServerInvariant, PTL DEF ServerSpec, Spec

\* Every reachable state of the server's sessions is well typed; an open connection has been
\* sent a list, a closed one has none, and the requests that wait are for tasks that have one.
THEOREM ServerTypeCorrect == ServerSpec => []ServerTypeOK
<1>1. TypeOK /\ SessionsInv => ServerTypeOK
  <2> SUFFICES ASSUME TypeOK, SessionsInv PROVE ServerTypeOK
    OBVIOUS
  <2>1. \A c \in Clients : asked[c] \subseteq {i \in TaskIds : waiter[i] = "waiting"}
    BY DEF SessionsInv, AskedWait, SessionsTyped
  <2>2. \A c \in Clients : Sent(c) = <<>> <=> view[c] = NoView /\ queue[c] = <<>>
    BY SentIs DEF SessionsInv
  <2>3. QED
    BY <2>1, <2>2 DEF ServerTypeOK, SessionsInv, SessionsTyped, SessionsBegin
<1>2. QED
  BY <1>1, ServerInvariant, PTL

\* For any number of clients and tasks: as soon as nothing is left to announce, the last list
\* that each open connection was sent is the registry's.
THEOREM NobodyLeftBehind == ServerSpec => []NobodyIsBehind
<1>1. SessionsInv => NobodyIsBehind
  BY SentIs DEF NobodyIsBehind, SessionsInv, NewestKnown, SessionsTyped, SessionsBegin, Open
<1>2. QED
  BY <1>1, ServerInvariant, PTL

\* For any number of clients and tasks: a tab never goes back in time, and never sees a task
\* that runs just disappear.
THEOREM ViewsGoForward == ServerSpec => ViewsMoveForward
<1>1. SessionsInv /\ [ServerNext]_allVars =>
        [\A c \in Clients : view[c] # NoView /\ view'[c] # NoView => Follows(view[c], view'[c])]_allVars
  <2> SUFFICES ASSUME SessionsInv, ServerNext, NEW c \in Clients, view[c] # NoView, view'[c] # NoView
               PROVE  Follows(view[c], view'[c])
    OBVIOUS
  <2>1. CASE view'[c] = view[c]
    BY <2>1, FollowsItself DEF SessionsInv, SessionsTyped
  <2>2. CASE view'[c] # view[c]
    <3>1. PICK d \in Clients : Deliver(d)
      BY <2>2 DEF ServerNext, Handshake, Admit, Leave, Disconnect, AskStart, AskStop, Answer, AnnounceEnd,
                  AnnounceRemoval, Broadcast, CloseClients, Cleanup, serverVars
    <3>2. d = c
      BY <2>2, <3>1 DEF Deliver, SessionsInv, SessionsTyped
    <3>3. QED
      BY <3>1, <3>2, DeliverKeeps DEF SessionsInv
  <2>3. QED
    BY <2>1, <2>2
<1>2. QED
  BY <1>1, ServerInvariant, PTL DEF ServerSpec, ViewsMoveForward

=============================================================================
