--------------------------- MODULE ProtocolClient ---------------------------
(***************************************************************************)
(* The websocket client of a browser tab (src/src/pfui/web/src/protocol/   *)
(* client.ts): its sockets, its reconnect timers and the requests that     *)
(* wait for an answer.                                                     *)
(*                                                                         *)
(* App mounts the client once.  Under <StrictMode> React's development     *)
(* build mounts it twice: connect(), close(), connect() in one go, before  *)
(* any event; both are initial states here.  The delays of reconnects and  *)
(* of request timeouts are left out: a timer that is armed may fire.       *)
(* Requests are in a bag, which stands for the Map from unique ids.        *)
(***************************************************************************)
EXTENDS Naturals, FiniteSets, Functions, Bags

CONSTANTS
  MaxSockets,  \* bound: sockets that exist at the same time
  NoSocket     \* the `null` of this.socket

ASSUME SocketsAssumption ==
  /\ MaxSockets \in Nat \ {0, 1}
  /\ NoSocket \notin 1 .. MaxSockets

Sockets == 1 .. MaxSockets

VARIABLES
  mounts,      \* how often connect() was called at the start
  sock,        \* state of each socket, "none" once its close event was handled
  current,     \* this.socket; NoSocket also when that one has closed
  timers,      \* reconnect timers that are armed
  connection,  \* the state last emitted
  pending,     \* requests in flight: [on: socket, and what was asked]
  up           \* whether the server accepts connections

clientVars == <<mounts, sock, current, timers, connection, pending, up>>

\* "opened": session.ready has not arrived yet.  "failing" and "closing": close() was
\* called, before and after the connection was made, and the event is still to come.
SocketStates == {"none", "connecting", "opened", "ready", "failing", "closing"}
Live == {"opened", "ready"}

\* connect() once, or connect(), close(), connect().
ClientInit ==
  /\ \/ mounts = 1 /\ sock = [s \in Sockets |-> IF s = 1 THEN "connecting" ELSE "none"]
     \/ mounts = 2 /\ sock = [s \in Sockets |-> CASE s = 1 -> "failing"
                                                  [] s = 2 -> "connecting"
                                                  [] OTHER -> "none"]
  /\ current = mounts
  /\ timers = 0
  /\ connection = "connecting"
  /\ pending = EmptyBag
  /\ up = TRUE

\* request(): whether it sends, or rejects at once.
CanAsk == current # NoSocket /\ sock[current] \in Live

\* The effect of WebSocket.close() on a socket.
AfterClose(state) ==
  CASE state = "connecting" -> "failing"
    [] state \in Live -> "closing"
    [] OTHER -> state

-----------------------------------------------------------------------------
\* The "open" event.
Opens(s) ==
  /\ up
  /\ sock[s] = "connecting"
  /\ sock' = [sock EXCEPT ![s] = "opened"]
  /\ connection' = "connected"
  /\ UNCHANGED <<mounts, current, timers, pending, up>>

\* Whether a socket may close, with an "error" event before the "close" event or without.
\* A connection attempt fails if close() was called or the server does not accept.
MayClose(s, failed) ==
  \/ sock[s] \in Live \cup {"closing"}
  \/ failed /\ (sock[s] = "failing" \/ (sock[s] = "connecting" /\ ~up))

\* A close handler that does not retry.
ClosesForGood(s, failed) ==
  /\ MayClose(s, failed)
  /\ sock' = [sock EXCEPT ![s] = "none"]
  /\ current' = IF s = current THEN NoSocket ELSE current
  /\ connection' = "disconnected"
  /\ pending' = EmptyBag
  /\ UNCHANGED <<mounts, timers, up>>

\* Error and close handlers that both schedule a reconnect.
ClosesTwice(s, failed) ==
  /\ MayClose(s, failed)
  /\ sock' = [t \in Sockets |-> CASE t = s -> "none"
                                  [] t # s /\ t = current /\ failed -> AfterClose(sock[t])
                                  [] OTHER -> sock[t]]
  /\ current' = IF s = current THEN NoSocket ELSE current
  /\ connection' = "disconnected"
  /\ pending' = EmptyBag
  /\ timers' = timers + IF failed THEN 2 ELSE 1
  /\ UNCHANGED <<mounts, up>>

\* The "error" event, if the socket failed, and the "close" event: one task of the
\* browser.  The error handler closes this.socket, whichever that is by now; the close
\* handler rejects *all* that is pending and schedules a reconnect.
Closes(s, failed) ==
  /\ MayClose(s, failed)
  /\ sock' = [t \in Sockets |-> CASE t = s -> "none"
                                  [] t # s /\ t = current /\ failed -> AfterClose(sock[t])
                                  [] OTHER -> sock[t]]
  /\ current' = IF s = current THEN NoSocket ELSE current
  /\ connection' = "disconnected"
  /\ pending' = EmptyBag
  /\ timers' = timers + 1
  /\ UNCHANGED <<mounts, up>>

\* scheduleReconnect()'s timer fires: open().  Whatever this.socket was is forgotten,
\* not closed.  The timer takes half a second at least; the event of an attempt that
\* close() has ended is in the browser's queue at once, and comes first.
Reconnects(s) ==
  /\ timers > 0
  /\ \A t \in Sockets : sock[t] # "failing"
  /\ sock[s] = "none"
  /\ \A t \in Sockets : t < s => sock[t] # "none"
  /\ timers' = timers - 1
  /\ sock' = [sock EXCEPT ![s] = "connecting"]
  /\ current' = s
  /\ connection' = "connecting"
  /\ UNCHANGED <<mounts, pending, up>>

\* The requests of the bag `asked` but one, which ends.
Without(asked, r) ==
  IF asked[r] = 1 THEN Restrict(asked, DOMAIN asked \ {r}) ELSE [asked EXCEPT ![r] = @ - 1]

\* A request of the bag `asked` that can be answered: its socket still delivers.
Answerable(asked) == {r \in BagToSet(asked) : sock[r.on] \in Live}

-----------------------------------------------------------------------------
ClientTypeOK ==
  /\ mounts \in {1, 2}
  /\ sock \in [Sockets -> SocketStates]
  /\ current \in Sockets \cup {NoSocket}
  /\ timers \in 0 .. MaxSockets
  /\ connection \in {"connecting", "connected", "disconnected"}
  /\ \A r \in BagToSet(pending) : r.on \in Sockets /\ sock[r.on] \in Live \cup {"closing"}
  /\ up \in BOOLEAN

\* The tab neither multiplies its connections nor gives up: the sockets that exist and
\* the timers that will open one are as many as the mounts, one in production.  Every
\* path through error, close and timer has to keep this, whichever socket is current.
ConnectionsConserved ==
  Cardinality({s \in Sockets : sock[s] # "none"}) + timers = mounts
=============================================================================
