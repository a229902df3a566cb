--------------------------- MODULE Dashboard_proofs ---------------------------
(***************************************************************************)
(* TLAPS proofs about the browser tab, for any projects, artifacts and     *)
(* sockets, and any number of requests, actions and faults: its websocket  *)
(* client keeps as many connections as it was mounted times; what it shows *)
(* is the selected project's and artifact's, in whatever order the answers *)
(* come; and no spinner turns for nothing.                                 *)
(*                                                                         *)
(* The argument is about the set of requests in flight: each knows what it *)
(* was asked for, and what the tab shows changes by their answers only.    *)
(***************************************************************************)
EXTENDS Dashboard, FiniteSetTheorems, TLAPS

\* The requests in flight, and what each may ask.
Flying == BagToSet(pending)

Kinds == {"load", "detail", "list", "action", "classify", "poll", "save"}
RequestType == [on : Sockets, kind : Kinds, project : Projects,
                arg : Hashes \cup {"list", "sync", "relist"} \cup BOOLEAN, fresh : BOOLEAN]

Spinning == {"loading", "artifactLoading", "detailLoading", "action", "classifyingAll"}

\* What the client keeps.
LineTyped ==
  /\ mounts \in {1, 2}
  /\ sock \in [Sockets -> SocketStates]
  /\ current \in Sockets \cup {NoSocket}
  /\ timers \in Nat
  /\ connection \in {"connecting", "connected", "disconnected"}
  /\ up \in BOOLEAN

\* What the tab keeps.
TabTyped ==
  /\ Flying \subseteq RequestType
  /\ \A r \in Flying : r.kind \in {"detail", "action"} => r.arg \in Hashes
  /\ url \in Projects \cup {NoProject}
  /\ projectName \in Projects \cup {NoProject}
  /\ ready \in BOOLEAN
  /\ shown \in [Items -> Projects \cup {NoProject}]
  /\ active \in Selections \cup {NoDetail}
  /\ detail \in Selections \cup {NoDetail}
  /\ busy \subseteq Spinning
  /\ grouped \in BOOLEAN
  /\ finished \subseteq TaskKeys
  /\ default \in Projects
  /\ astray \subseteq Items \cup {"detail"}

\* A request is in flight on a socket that is, or was, connected.
OnSockets == \A r \in Flying : sock[r.on] \in Live \cup {"closing"}

\* Where an answer will be shown, it is the selected project's; a request for a detail
\* that will be shown is for the selected artifact.
Own(r) ==
  /\ r.kind = "load" /\ r.fresh => r.project = projectName \/ Items \subseteq astray
  /\ r.kind = "list" => r.project = projectName \/ "artifacts" \in astray
  /\ r.kind = "poll" => r.project = projectName \/ "summary" \in astray
  /\ r.kind = "save" => r.project = projectName \/ "project" \in astray
  /\ r.kind = "detail" /\ r.fresh => active = <<r.project, r.arg>>

OwnAnswers ==
  /\ \A r \in Flying : Own(r)
  /\ active # NoDetail => active[1] = projectName \/ "detail" \in astray
  /\ ShownIsSelected

\* A request for which the spinner turns.
Working(spinner) == \E r \in Flying : Spinner(r) = {spinner}

\* The user's action is rendered next; and a spinner for which no request is in flight
\* was left by a project that is no longer selected, or by a connection that is lost,
\* and the effect that the tab owes will load again.
Owed ==
  /\ urgent => Deps # seen
  /\ "loading" \in busy =>
       /\ ready
       /\ urgent \/ seen.project = NoProject \/ seen.connection # "connected" \/ Working("loading")
  /\ "detailLoading" \in busy => active = NoDetail \/ Working("detailLoading")
  /\ "artifactLoading" \in busy => Working("artifactLoading")
  /\ "action" \in busy => Working("action")

DashInv ==
  /\ LineTyped
  /\ ConnectionsConserved
  /\ TabTyped
  /\ OnSockets
  /\ OwnAnswers
  /\ Owed

-----------------------------------------------------------------------------
(***************************************************************************)
(* Requests and the bag they are in                                        *)
(***************************************************************************)

LEMMA WithoutSet ==
  ASSUME NEW B, NEW r
  PROVE  /\ BagToSet(Without(B, r)) \subseteq BagToSet(B)
         /\ BagToSet(B) \ {r} \subseteq BagToSet(Without(B, r))
BY DEF BagToSet, Without, Restrict

LEMMA BagCupSet ==
  ASSUME NEW B, NEW R
  PROVE  BagToSet(B (+) SetToBag(R)) = BagToSet(B) \cup R
BY DEF BagToSet, SetToBag, (+)

LEMMA EmptyBagSet == BagToSet(EmptyBag) = {}
BY DEF BagToSet, EmptyBag, SetToBag

\* A request made stale is the same request, and only the kinds named are made stale.
LEMMA OutdatedSet ==
  ASSUME NEW B, BagToSet(B) \subseteq RequestType, NEW kinds
  PROVE  /\ BagToSet(Outdated(B, kinds)) \subseteq RequestType
         /\ \A r \in BagToSet(Outdated(B, kinds)) : \E q \in BagToSet(B) :
              /\ r.on = q.on /\ r.kind = q.kind /\ r.project = q.project /\ r.arg = q.arg
              /\ IF q.kind \in kinds THEN ~r.fresh ELSE r = q
         /\ \A q \in BagToSet(B) : q.kind \notin kinds => q \in BagToSet(Outdated(B, kinds))
<1> DEFINE Aged(r) == IF r.kind \in kinds THEN [r EXCEPT !.fresh = FALSE] ELSE r
<1>1. BagToSet(Outdated(B, kinds)) = {Aged(r) : r \in BagToSet(B)}
  BY DEF BagToSet, Outdated, BagOfAll
<1>2. \A r \in RequestType : /\ Aged(r) \in RequestType
                             /\ Aged(r).on = r.on /\ Aged(r).kind = r.kind
                             /\ Aged(r).project = r.project /\ Aged(r).arg = r.arg
                             /\ IF r.kind \in kinds THEN ~Aged(r).fresh ELSE Aged(r) = r
  BY DEF RequestType
<1> HIDE DEF Aged
<1>3. BagToSet(Outdated(B, kinds)) \subseteq RequestType
  BY <1>1, <1>2
<1>4. ASSUME NEW r \in BagToSet(Outdated(B, kinds))
      PROVE  \E q \in BagToSet(B) :
               /\ r.on = q.on /\ r.kind = q.kind /\ r.project = q.project /\ r.arg = q.arg
               /\ IF q.kind \in kinds THEN ~r.fresh ELSE r = q
  BY <1>1, <1>2, <1>4
<1>5. ASSUME NEW q \in BagToSet(B), q.kind \notin kinds
      PROVE  q \in BagToSet(Outdated(B, kinds))
  BY <1>1, <1>2, <1>5
<1>6. QED
  BY <1>3, <1>4, <1>5

\* What is sent is sent on the current socket, which is connected.
LEMMA CallFacts ==
  ASSUME LineTyped, CanAsk, NEW kind \in Kinds, NEW p \in Projects,
         NEW arg \in Hashes \cup {"list", "sync", "relist"} \cup BOOLEAN
  PROVE  /\ Call(kind, p, arg) \in RequestType
         /\ sock[Call(kind, p, arg).on] \in Live
BY DEF Call, RequestType, CanAsk, LineTyped

LEMMA AskFacts ==
  ASSUME NEW asked, NEW spin, NEW R, Ask(asked, spin, R)
  PROVE  \/ CanAsk /\ Flying' = BagToSet(asked) \cup R /\ busy' = spin \cup Spinners(R)
         \/ ~CanAsk /\ Flying' = BagToSet(asked) /\ busy' = spin \ Spinners(R)
BY BagCupSet DEF Ask, Flying

-----------------------------------------------------------------------------
(***************************************************************************)
(* Spinners                                                                *)
(***************************************************************************)

LEMMA SpinnerFacts ==
  ASSUME NEW r
  PROVE  /\ Spinner(r) \subseteq Spinning
         /\ \A b \in Spinner(r) : Spinner(r) = {b}
BY DEF Spinner, Spinning


-----------------------------------------------------------------------------
(***************************************************************************)
(* The websocket client                                                    *)
(***************************************************************************)

Existing == {s \in Sockets : sock[s] # "none"}

LEMMA ExistingFacts ==
  /\ IsFiniteSet(Existing) /\ Cardinality(Existing) \in Nat
  /\ \A s \in Sockets :
       /\ s \notin Existing => Cardinality(Existing \cup {s}) = Cardinality(Existing) + 1
       /\ s \in Existing => Cardinality(Existing \ {s}) = Cardinality(Existing) - 1
<1>1. IsFiniteSet(Sockets)
  BY FS_Interval, SocketsAssumption DEF Sockets
<1>2. IsFiniteSet(Existing) /\ Cardinality(Existing) \in Nat
  BY <1>1, FS_Subset, FS_CardinalityType DEF Existing
<1>3. QED
  BY <1>2, FS_AddElement, FS_RemoveElement

LEMMA AfterCloseFacts ==
  ASSUME NEW state \in SocketStates
  PROVE  AfterClose(state) \in SocketStates /\ (AfterClose(state) = "none" <=> state = "none")
BY DEF AfterClose, SocketStates, Live

\* A socket that closes is replaced by a timer, whatever the error handler does to the
\* current one.
LEMMA ClosesKeeps ==
  ASSUME LineTyped, ConnectionsConserved, NEW s \in Sockets, NEW failed \in BOOLEAN,
         Closes(s, failed)
  PROVE  /\ LineTyped' /\ ConnectionsConserved'
         /\ Flying' = {} /\ connection' = "disconnected"
<1>1. sock[s] # "none"
  BY DEF Closes, MayClose, Live
<1>2. /\ sock' \in [Sockets -> SocketStates]
      /\ sock'[s] = "none"
      /\ \A t \in Sockets \ {s} : sock'[t] = "none" <=> sock[t] = "none"
  <2>1. /\ sock \in [Sockets -> SocketStates]
        /\ sock' = [t \in Sockets |-> CASE t = s -> "none"
                                        [] t # s /\ t = current /\ failed -> AfterClose(sock[t])
                                        [] OTHER -> sock[t]]
    BY DEF Closes, LineTyped
  <2>2. \A t \in Sockets :
          /\ sock'[t] \in SocketStates
          /\ t = s => sock'[t] = "none"
          /\ t # s => (sock'[t] = "none" <=> sock[t] = "none")
    <3> SUFFICES ASSUME NEW t \in Sockets
                 PROVE  /\ sock'[t] \in SocketStates
                        /\ t = s => sock'[t] = "none"
                        /\ t # s => (sock'[t] = "none" <=> sock[t] = "none")
      OBVIOUS
    <3>1. sock'[t] = CASE t = s -> "none"
                       [] t # s /\ t = current /\ failed -> AfterClose(sock[t])
                       [] OTHER -> sock[t]
      BY <2>1
    <3>2. CASE t = s
      BY <3>1, <3>2 DEF SocketStates
    <3>3. CASE t # s /\ t = current /\ failed
      <4>1. sock'[t] = AfterClose(sock[t]) /\ sock[t] \in SocketStates
        BY <2>1, <3>1, <3>3
      <4>2. QED
        BY <3>3, <4>1, AfterCloseFacts
    <3>4. CASE t # s /\ ~(t = current /\ failed)
      <4>1. sock'[t] = sock[t]
        BY <3>1, <3>4
      <4>2. QED
        BY <2>1, <3>4, <4>1
    <3>5. QED
      BY <3>2, <3>3, <3>4
  <2>3. sock' \in [Sockets -> SocketStates]
    BY <2>1, <2>2
  <2>4. QED
    BY <2>2, <2>3
<1>3. Existing' = Existing \ {s} /\ s \in Existing
  BY <1>1, <1>2 DEF Existing
<1>4. timers' = timers + 1
  BY DEF Closes
<1>5. LineTyped'
  BY <1>2, <1>4 DEF Closes, LineTyped
<1>6. ConnectionsConserved'
  <2>1. Cardinality(Existing) + timers = mounts /\ mounts' = mounts /\ timers \in Nat
    BY DEF ConnectionsConserved, Existing, Closes, LineTyped
  <2>2. Cardinality(Existing') = Cardinality(Existing) - 1 /\ Cardinality(Existing) \in Nat
    BY <1>3, ExistingFacts
  <2>3. Cardinality(Existing') + timers' = mounts'
    BY <1>4, <2>1, <2>2
  <2>4. QED
    BY <2>3 DEF ConnectionsConserved, Existing
<1>7. QED
  BY <1>5, <1>6, EmptyBagSet DEF Closes, Flying

\* A timer that fires becomes a socket.
LEMMA ReconnectsKeeps ==
  ASSUME LineTyped, ConnectionsConserved, NEW s \in Sockets, Reconnects(s)
  PROVE  LineTyped' /\ ConnectionsConserved'
<1>1. /\ sock' \in [Sockets -> SocketStates]
      /\ sock[s] = "none" /\ sock'[s] = "connecting"
      /\ \A t \in Sockets \ {s} : sock'[t] = sock[t]
  BY DEF Reconnects, LineTyped, SocketStates
<1>2. Existing' = Existing \cup {s} /\ s \notin Existing
  BY <1>1 DEF Existing
<1>3. timers' = timers - 1 /\ timers' \in Nat
  BY DEF Reconnects, LineTyped
<1>4. LineTyped'
  BY <1>1, <1>3 DEF Reconnects, LineTyped
<1>5. ConnectionsConserved'
  <2>1. Cardinality(Existing) + timers = mounts /\ mounts' = mounts /\ timers \in Nat
    BY DEF ConnectionsConserved, Existing, Reconnects, LineTyped
  <2>2. Cardinality(Existing') = Cardinality(Existing) + 1 /\ Cardinality(Existing) \in Nat
    BY <1>2, ExistingFacts
  <2>3. Cardinality(Existing') + timers' = mounts'
    BY <1>3, <2>1, <2>2
  <2>4. QED
    BY <2>3 DEF ConnectionsConserved, Existing
<1>6. QED
  BY <1>4, <1>5

\* An event that leaves the socket in being.
LEMMA SocketLives ==
  ASSUME LineTyped, ConnectionsConserved, NEW s \in Sockets, NEW state \in Live,
         sock[s] # "none", sock' = [sock EXCEPT ![s] = state],
         UNCHANGED <<mounts, current, timers>>,
         connection' \in {"connecting", "connected", "disconnected"}, up' \in BOOLEAN
  PROVE  /\ LineTyped' /\ ConnectionsConserved'
         /\ sock'[s] = state /\ \A t \in Sockets \ {s} : sock'[t] = sock[t]
<1>1. /\ sock' \in [Sockets -> SocketStates]
      /\ sock'[s] = state /\ state # "none"
      /\ \A t \in Sockets \ {s} : sock'[t] = sock[t]
  BY DEF LineTyped, SocketStates, Live
<1>2. Existing' = Existing
  BY <1>1 DEF Existing
<1>3. LineTyped'
  BY <1>1 DEF LineTyped
<1>4. ConnectionsConserved'
  BY <1>2 DEF ConnectionsConserved, Existing
<1>5. QED
  BY <1>1, <1>3, <1>4

\* What does not concern the client.
LEMMA LineKeeps ==
  ASSUME LineTyped, ConnectionsConserved, OnSockets, UNCHANGED Line,
         \A r \in Flying' : sock[r.on] \in Live \cup {"closing"}
  PROVE  LineTyped' /\ ConnectionsConserved' /\ OnSockets'
<1>1. UNCHANGED <<mounts, sock, current, timers, connection, up>>
  BY DEF Line
<1>2. QED
  BY <1>1 DEF LineTyped, ConnectionsConserved, OnSockets

-----------------------------------------------------------------------------
(***************************************************************************)
(* Steps that keep the project and the selection                           *)
(***************************************************************************)

\* A request that may be sent now.
Sendable(r) ==
  /\ r \in RequestType
  /\ r.kind \in {"detail", "action"} => r.arg \in Hashes
  /\ sock[r.on] \in Live
  /\ Own(r)

\* The spinners that the invariant is about.
Owing == {"loading", "detailLoading", "artifactLoading", "action"}

\* Neither the project nor the selection changes, nor what the tab owes.
Stays ==
  UNCHANGED <<Line, url, projectName, ready, active, grouped, finished, seen, urgent, default, astray>>

\* Requests may end and be sent, and what they were asked for may be shown; a spinner
\* goes on turning for a request that is still there, or starts for a new one.
LEMMA StaysKeeps ==
  ASSUME DashInv, Stays,
         \A r \in Flying' \ Flying : Sendable(r),
         shown' \in [Items -> Projects \cup {NoProject}],
         detail' \in Selections \cup {NoDetail},
         ShownIsSelected',
         busy' \subseteq Spinning,
         \A b \in busy' \cap Owing :
            \/ b \in busy /\ (Working(b) => Working(b)')
            \/ b # "loading" /\ Working(b)'
  PROVE  DashInv'
<1>1. /\ UNCHANGED <<mounts, sock, current, timers, connection, up>>
      /\ UNCHANGED <<url, projectName, ready, active, grouped, finished, seen, urgent, default, astray>>
  BY DEF Stays, Line
<1>2. LineTyped' /\ ConnectionsConserved' /\ OnSockets'
  <2>1. \A r \in Flying' : sock[r.on] \in Live \cup {"closing"}
    BY DEF DashInv, OnSockets, Sendable
  <2>2. UNCHANGED Line
    BY DEF Stays
  <2>3. QED
    BY <2>1, <2>2, LineKeeps DEF DashInv
<1>3. TabTyped'
  BY <1>1 DEF DashInv, TabTyped, Sendable
<1>4. OwnAnswers'
  <2>1. \A r : Own(r)' = Own(r)
    BY <1>1 DEF Own
  <2>2. \A r \in Flying' : Own(r)'
    BY <2>1 DEF DashInv, OwnAnswers, Sendable
  <2>3. QED
    BY <1>1, <2>2 DEF DashInv, OwnAnswers
<1>5. Owed'
  <2>1. UNCHANGED <<Deps, seen, urgent>>
    BY <1>1 DEF Deps
  <2>2. "loading" \in busy' =>
          /\ ready'
          /\ urgent' \/ seen'.project = NoProject \/ seen'.connection # "connected" \/ Working("loading")'
    BY <1>1 DEF DashInv, Owed, Owing
  <2>3. "detailLoading" \in busy' => active' = NoDetail \/ Working("detailLoading")'
    BY <1>1 DEF DashInv, Owed, Owing
  <2>4. "artifactLoading" \in busy' => Working("artifactLoading")'
    BY DEF DashInv, Owed, Owing
  <2>5. "action" \in busy' => Working("action")'
    BY DEF DashInv, Owed, Owing
  <2>6. QED
    BY <2>1, <2>2, <2>3, <2>4, <2>5 DEF DashInv, Owed
<1>6. QED
  BY <1>2, <1>3, <1>4, <1>5 DEF DashInv

\* A spinner that still turns after a request has ended turns for another one.
LEMMA EndsTurning ==
  ASSUME NEW r \in RequestType, Flying \ {r} \subseteq Flying',
         busy' \subseteq busy, busy' \cap Spinner(r) \cap Owing = {}
  PROVE  \A b \in busy' \cap Owing : b \in busy /\ (Working(b) => Working(b)')
BY DEF Working

\* What a request asks for its project, if its answers are still shown.
LEMMA FlyingFacts ==
  ASSUME DashInv, NEW r \in Flying
  PROVE  /\ r \in RequestType
         /\ r.project \in Projects /\ r.project # NoProject
         /\ Own(r)
         /\ r.kind \in {"detail", "action"} => r.arg \in Hashes
BY ProjectsAssumption DEF DashInv, TabTyped, OwnAnswers, RequestType

\* What is asked now for the selected project, or for one whose answers may be astray.
LEMMA ListingSendable ==
  ASSUME LineTyped, CanAsk, NEW p \in Projects, NEW step \in {"list", "sync", "relist"},
         p = projectName \/ "artifacts" \in astray
  PROVE  Sendable(Listing(p, step))
<1>1. /\ Listing(p, step) \in RequestType
      /\ sock[Listing(p, step).on] \in Live
  BY CallFacts DEF Listing, Kinds
<1>2. Listing(p, step).kind = "list" /\ Listing(p, step).project = p
  BY DEF Listing, Call
<1>3. QED
  BY <1>1, <1>2 DEF Sendable, Own

\* The spinner of a request depends on its kind only.
LEMMA ListingSpinner ==
  ASSUME NEW p, NEW step
  PROVE  Spinners({Listing(p, step)}) = {"artifactLoading"}
BY DEF Spinners, Spinner, Listing, Call

-----------------------------------------------------------------------------
(***************************************************************************)
(* Answers                                                                 *)
(***************************************************************************)

LEMMA LoadStep ==
  ASSUME DashInv, NEW r \in Flying, NEW empty \in BOOLEAN, LoadAnswered(r, empty)
  PROVE  DashInv' /\ UNCHANGED detail
<1>1. /\ r \in RequestType /\ r.project \in Projects /\ r.project # NoProject /\ Own(r)
      /\ r.kind = "load"
  BY FlyingFacts DEF LoadAnswered
<1>2. Stays /\ UNCHANGED detail
  BY DEF LoadAnswered, viewVars, groupVars, followVars, outsideVars, Stays
<1>3. detail' \in Selections \cup {NoDetail} /\ busy \subseteq Spinning
  BY <1>2 DEF DashInv, TabTyped
<1>4. CASE r.fresh
  <2> DEFINE R == IF empty THEN {Listing(r.project, "list")} ELSE {}
  <2>1. /\ shown' = [x \in Items |-> IF x = "artifacts" /\ empty THEN NoProject ELSE r.project]
        /\ Ask(Without(pending, r), busy \ {"loading"}, R)
    BY <1>4 DEF LoadAnswered
  <2>2. Spinner(r) = {"loading"}
    BY <1>1, <1>4 DEF Spinner
  <2>3. r.project = projectName \/ Items \subseteq astray
    BY <1>1, <1>4 DEF Own
  <2>4. /\ shown' \in [Items -> Projects \cup {NoProject}]
        /\ \A x \in Items : shown'[x] \in {r.project, NoProject}
    BY <1>1, <2>1 DEF Items
  <2>5. ShownIsSelected'
    BY <1>2, <2>3, <2>4 DEF ShownIsSelected, Stays, DashInv, OwnAnswers
  <2>6. Spinners(R) \subseteq {"artifactLoading"}
    BY ListingSpinner DEF R, Spinners
  <2>7. CanAsk => \A q \in R : Sendable(q)
    BY <1>1, <2>3, ListingSendable DEF R, DashInv, Items
  <2> HIDE DEF R
  <2>8. \/ CanAsk /\ Flying' = BagToSet(Without(pending, r)) \cup R
           /\ busy' = (busy \ {"loading"}) \cup Spinners(R)
        \/ ~CanAsk /\ Flying' = BagToSet(Without(pending, r))
           /\ busy' = (busy \ {"loading"}) \ Spinners(R)
    BY <2>1, AskFacts
  <2>9. BagToSet(Without(pending, r)) \subseteq Flying /\ Flying \ {r} \subseteq BagToSet(Without(pending, r))
    BY WithoutSet DEF Flying
  <2>10. busy' \subseteq Spinning /\ "loading" \notin busy'
    BY <1>3, <2>6, <2>8 DEF Spinning
  <2>11. ASSUME NEW b \in busy' \cap Owing
         PROVE  \/ b \in busy /\ (Working(b) => Working(b)')
                \/ b # "loading" /\ Working(b)'
    <3>1. b # "loading"
      BY <2>10, <2>11
    <3>2. (b \in busy /\ Working(b)) => Working(b)'
      BY <2>2, <2>8, <2>9, <3>1 DEF Working
    <3>3. CASE b \in busy
      BY <3>2, <3>3
    <3>4. CASE b \notin busy
      <4>1. CanAsk /\ Flying' = BagToSet(Without(pending, r)) \cup R /\ b \in Spinners(R)
        BY <2>8, <2>11, <3>4
      <4>2. PICK q \in R : b \in Spinner(q)
        BY <4>1 DEF Spinners
      <4>3. Spinner(q) = {b} /\ q \in Flying'
        BY <4>1, <4>2, SpinnerFacts
      <4>4. QED
        BY <3>1, <4>3 DEF Working
    <3>5. QED
      BY <3>3, <3>4
  <2>12. \A q \in Flying' \ Flying : Sendable(q)
    BY <2>7, <2>8, <2>9
  <2>13. QED
    BY <1>2, <1>3, <2>4, <2>5, <2>10, <2>11, <2>12, StaysKeeps
<1>5. CASE ~r.fresh
  <2>1. pending' = Without(pending, r) /\ UNCHANGED <<shown, busy>>
    BY <1>5 DEF LoadAnswered
  <2>2. Spinner(r) = {}
    BY <1>1, <1>5 DEF Spinner
  <2>3. Flying \ {r} \subseteq Flying' /\ Flying' \subseteq Flying
    BY <2>1, WithoutSet DEF Flying
  <2>4. \A b \in busy' \cap Owing : b \in busy /\ (Working(b) => Working(b)')
    BY <1>1, <2>1, <2>2, <2>3, EndsTurning
  <2>5. /\ shown' \in [Items -> Projects \cup {NoProject}]
        /\ busy' \subseteq Spinning
    BY <2>1 DEF DashInv, TabTyped
  <2>6. ShownIsSelected'
    BY <1>2, <2>1 DEF DashInv, OwnAnswers, ShownIsSelected, Stays
  <2>7. QED
    BY <1>2, <1>3, <2>3, <2>4, <2>5, <2>6, StaysKeeps
<1>6. QED
  BY <1>4, <1>5

LEMMA ListStep ==
  ASSUME DashInv, NEW r \in Flying, NEW empty \in BOOLEAN, ListAnswered(r, empty)
  PROVE  DashInv' /\ UNCHANGED detail
<1> DEFINE goesOn == CanAsk /\ (r.arg = "sync" \/ (r.arg = "list" /\ empty))
           ends == r.arg = "relist" \/ (r.arg = "list" /\ ~empty)
           next == Listing(r.project, IF r.arg = "sync" THEN "relist" ELSE "sync")
<1>1. /\ r \in RequestType /\ r.project \in Projects /\ Own(r) /\ r.kind = "list"
      /\ Spinner(r) = {"artifactLoading"}
  BY FlyingFacts DEF ListAnswered, Spinner
<1>2. /\ Stays /\ UNCHANGED detail
      /\ pending' = IF goesOn THEN Without(pending, r) (+) SetToBag({next}) ELSE Without(pending, r)
      /\ busy' = IF goesOn THEN busy ELSE busy \ {"artifactLoading"}
      /\ shown' = IF ends THEN [shown EXCEPT !["artifacts"] = IF empty THEN NoProject ELSE r.project]
                  ELSE shown
  BY DEF ListAnswered, viewVars, groupVars, followVars, outsideVars, Stays
<1>3. detail' \in Selections \cup {NoDetail} /\ busy' \subseteq Spinning
  BY <1>2 DEF DashInv, TabTyped
<1>4. r.project = projectName \/ "artifacts" \in astray
  BY <1>1 DEF Own
<1>5. /\ shown' \in [Items -> Projects \cup {NoProject}]
      /\ \A x \in Items : shown'[x] = shown[x] \/ (x = "artifacts" /\ shown'[x] \in {r.project, NoProject})
  BY <1>1, <1>2 DEF DashInv, TabTyped, Items
<1>6. ShownIsSelected'
  BY <1>2, <1>4, <1>5 DEF ShownIsSelected, Stays, DashInv, OwnAnswers
<1>7. goesOn => Sendable(next) /\ Spinner(next) = {"artifactLoading"}
  <2>1. goesOn => Sendable(next)
    BY <1>1, <1>4, ListingSendable DEF DashInv
  <2>2. Spinner(next) = {"artifactLoading"}
    BY DEF Spinner, Listing, Call
  <2>3. QED
    BY <2>1, <2>2
<1> HIDE DEF next, goesOn
<1>8. /\ Flying \ {r} \subseteq Flying'
      /\ Flying' \subseteq Flying \cup {next}
      /\ goesOn => next \in Flying'
      /\ ~goesOn => Flying' \subseteq Flying
  BY <1>2, WithoutSet, BagCupSet DEF Flying
<1>9. ASSUME NEW b \in busy' \cap Owing
      PROVE  \/ b \in busy /\ (Working(b) => Working(b)')
             \/ b # "loading" /\ Working(b)'
  <2>1. b \in busy
    BY <1>2, <1>9
  <2>2. CASE b = "artifactLoading"
    <3>1. goesOn
      BY <1>2, <1>9, <2>2
    <3>2. Working(b)'
      BY <1>7, <1>8, <2>2, <3>1 DEF Working
    <3>3. QED
      BY <2>1, <3>2
  <2>3. CASE b # "artifactLoading"
    <3>1. Working(b) => Working(b)'
      BY <1>1, <1>8, <2>3 DEF Working
    <3>2. QED
      BY <2>1, <3>1
  <2>4. QED
    BY <2>2, <2>3
<1>10. \A q \in Flying' \ Flying : Sendable(q)
  BY <1>7, <1>8
<1>11. QED
  BY <1>2, <1>3, <1>5, <1>6, <1>9, <1>10, StaysKeeps

\* A request that ends without another one being made.
LEMMA EndKeeps ==
  ASSUME DashInv, NEW r \in Flying, Stays,
         pending' = Without(pending, r),
         busy' \subseteq busy, busy' \cap Spinner(r) \cap Owing = {},
         shown' \in [Items -> Projects \cup {NoProject}],
         detail' \in Selections \cup {NoDetail},
         ShownIsSelected'
  PROVE  DashInv'
<1>1. Flying \ {r} \subseteq Flying' /\ \A q \in Flying' \ Flying : Sendable(q)
  BY WithoutSet DEF Flying
<1>2. \A b \in busy' \cap Owing : b \in busy /\ (Working(b) => Working(b)')
  BY <1>1, FlyingFacts, EndsTurning
<1>3. busy' \subseteq Spinning
  BY DEF DashInv, TabTyped
<1>4. QED
  BY <1>1, <1>2, <1>3, StaysKeeps

\* A detail is shown if it is the selected artifact's.
LEMMA DetailStep ==
  ASSUME DashInv, NEW r \in Flying, DetailAnswered(r)
  PROVE  DashInv' /\ detail' \in {detail, active'}
<1>1. r \in RequestType /\ Own(r)
  BY FlyingFacts
<1>2. /\ Stays /\ UNCHANGED shown
      /\ pending' = Without(pending, r) /\ busy' = busy \ Spinner(r)
      /\ active' = active
  BY DEF DetailAnswered, viewVars, groupVars, followVars, outsideVars, Stays
<1>3. detail' \in {detail, active}
  BY <1>1 DEF DetailAnswered, Own
<1>4. /\ shown' \in [Items -> Projects \cup {NoProject}]
      /\ detail' \in Selections \cup {NoDetail}
  BY <1>2, <1>3 DEF DashInv, TabTyped
<1>5. ShownIsSelected'
  BY <1>2, <1>3 DEF ShownIsSelected, Stays, DashInv, OwnAnswers
<1>6. DashInv'
  BY <1>2, <1>4, <1>5, EndKeeps
<1>7. QED
  BY <1>2, <1>3, <1>6

LEMMA PollStep ==
  ASSUME DashInv, NEW r \in Flying, PollAnswered(r)
  PROVE  DashInv' /\ UNCHANGED detail
<1>1. /\ r \in RequestType /\ r.project \in Projects /\ Own(r)
      /\ r.kind = "poll" /\ Spinner(r) = {}
  BY FlyingFacts DEF PollAnswered, Spinner
<1>2. /\ Stays /\ UNCHANGED <<detail, busy>>
      /\ pending' = Without(pending, r)
      /\ shown' = [shown EXCEPT !["summary"] = r.project]
  BY DEF PollAnswered, viewVars, groupVars, followVars, outsideVars, Stays
<1>3. /\ shown' \in [Items -> Projects \cup {NoProject}]
      /\ \A x \in Items : shown'[x] = shown[x] \/ (x = "summary" /\ shown'[x] = r.project)
      /\ detail' \in Selections \cup {NoDetail}
  BY <1>1, <1>2 DEF DashInv, TabTyped, Items
<1>4. r.project = projectName \/ "summary" \in astray
  BY <1>1 DEF Own
<1>5. ShownIsSelected'
  BY <1>2, <1>3, <1>4 DEF ShownIsSelected, Stays, DashInv, OwnAnswers
<1>6. QED
  BY <1>1, <1>2, <1>3, <1>5, EndKeeps

LEMMA SaveStep ==
  ASSUME DashInv, NEW r \in Flying, SaveAnswered(r)
  PROVE  DashInv' /\ UNCHANGED detail
<1>1. /\ r \in RequestType /\ r.project \in Projects /\ Own(r)
      /\ r.kind = "save" /\ Spinner(r) = {}
  BY FlyingFacts DEF SaveAnswered, Spinner
<1>2. /\ Stays /\ UNCHANGED <<detail, busy>>
      /\ pending' = Without(pending, r)
      /\ shown' = [shown EXCEPT !["project"] = r.project]
  BY DEF SaveAnswered, groupVars, outsideVars, Stays
<1>3. /\ shown' \in [Items -> Projects \cup {NoProject}]
      /\ \A x \in Items : shown'[x] = shown[x] \/ (x = "project" /\ shown'[x] = r.project)
      /\ detail' \in Selections \cup {NoDetail}
  BY <1>1, <1>2 DEF DashInv, TabTyped, Items
<1>4. r.project = projectName \/ "project" \in astray
  BY <1>1 DEF Own
<1>5. ShownIsSelected'
  BY <1>2, <1>3, <1>4 DEF ShownIsSelected, Stays, DashInv, OwnAnswers
<1>6. QED
  BY <1>1, <1>2, <1>3, <1>5, EndKeeps

LEMMA ClassifyStep ==
  ASSUME DashInv, NEW r \in Flying, ClassifyAnswered(r)
  PROVE  DashInv' /\ UNCHANGED detail
<1>1. Spinner(r) \cap Owing = {}
  BY DEF ClassifyAnswered, Spinner, Owing
<1>2. /\ Stays /\ UNCHANGED <<shown, detail, busy>>
      /\ pending' = Without(pending, r)
  BY DEF ClassifyAnswered, viewVars, followVars, outsideVars, Stays
<1>3. /\ shown' \in [Items -> Projects \cup {NoProject}]
      /\ detail' \in Selections \cup {NoDetail}
  BY <1>2 DEF DashInv, TabTyped
<1>4. ShownIsSelected'
  BY <1>2 DEF ShownIsSelected, Stays, DashInv, OwnAnswers
<1>5. QED
  BY <1>1, <1>2, <1>3, <1>4, EndKeeps

LEMMA RejectedStep ==
  ASSUME DashInv, NEW r \in Flying, Rejected(r)
  PROVE  DashInv' /\ UNCHANGED detail
<1>1. /\ Stays /\ UNCHANGED <<shown, detail>>
      /\ pending' = Without(pending, r) /\ busy' = busy \ Spinner(r)
  BY DEF Rejected, viewVars, groupVars, followVars, outsideVars, Stays, Line
<1>2. /\ shown' \in [Items -> Projects \cup {NoProject}]
      /\ detail' \in Selections \cup {NoDetail}
  BY <1>1 DEF DashInv, TabTyped
<1>3. ShownIsSelected'
  BY <1>1 DEF ShownIsSelected, Stays, DashInv, OwnAnswers
<1>4. QED
  BY <1>1, <1>2, <1>3, EndKeeps

-----------------------------------------------------------------------------
(***************************************************************************)
(* The user asks                                                           *)
(***************************************************************************)

\* A request for the selected project, by a handler that changes nothing else.
LEMMA AskKeeps ==
  ASSUME DashInv, Stays, UNCHANGED <<shown, detail>>,
         NEW kind \in Kinds \ {"load", "detail"},
         NEW arg \in Hashes \cup {"list", "sync", "relist"} \cup BOOLEAN,
         kind = "action" => arg \in Hashes,
         projectName # NoProject,
         Ask(pending, busy, {Call(kind, projectName, arg)})
  PROVE  DashInv' /\ UNCHANGED detail
<1> DEFINE q == Call(kind, projectName, arg)
<1>1. projectName \in Projects
  BY DEF DashInv, TabTyped
<1>2. CanAsk => Sendable(q)
  <2>1. CanAsk => q \in RequestType /\ sock[q.on] \in Live
    BY <1>1, CallFacts DEF DashInv
  <2>2. q.kind = kind /\ q.project = projectName /\ q.arg = arg
    BY DEF Call
  <2>3. QED
    BY <2>1, <2>2 DEF Sendable, Own
<1>3. Spinner(q) \cap {"loading"} = {} /\ Spinner(q) \subseteq Spinning
  BY SpinnerFacts DEF Spinner, Call
<1>4. \/ CanAsk /\ Flying' = Flying \cup {q} /\ busy' = busy \cup Spinner(q)
      \/ ~CanAsk /\ Flying' = Flying /\ busy' = busy \ Spinner(q)
  BY AskFacts DEF Flying, Spinners
<1> HIDE DEF q
<1>5. ASSUME NEW b \in busy' \cap Owing
      PROVE  \/ b \in busy /\ (Working(b) => Working(b)')
             \/ b # "loading" /\ Working(b)'
  <2>1. CASE b \in busy
    BY <1>4, <2>1 DEF Working
  <2>2. CASE b \notin busy
    <3>1. b \in Spinner(q) /\ q \in Flying'
      BY <1>4, <1>5, <2>2
    <3>2. Spinner(q) = {b}
      BY <3>1, SpinnerFacts
    <3>3. QED
      BY <1>3, <3>1, <3>2 DEF Working
  <2>3. QED
    BY <2>1, <2>2
<1>6. /\ shown' \in [Items -> Projects \cup {NoProject}]
      /\ detail' \in Selections \cup {NoDetail}
      /\ busy' \subseteq Spinning
  BY <1>3, <1>4 DEF DashInv, TabTyped
<1>7. ShownIsSelected'
  BY DEF Stays, ShownIsSelected, DashInv, OwnAnswers
<1>8. \A r \in Flying' \ Flying : Sendable(r)
  BY <1>2, <1>4
<1>9. QED
  BY <1>5, <1>6, <1>7, <1>8, StaysKeeps

LEMMA ActionStep ==
  ASSUME DashInv, RunArtifactAction
  PROVE  DashInv' /\ UNCHANGED detail
<1>1. /\ Stays /\ UNCHANGED <<shown, detail>>
      /\ projectName # NoProject /\ active # NoDetail
      /\ Ask(pending, busy, {Call("action", projectName, active[2])})
  BY DEF RunArtifactAction, viewVars, groupVars, followVars, Stays
<1>2. active[2] \in Hashes
  BY <1>1 DEF DashInv, TabTyped, Selections
<1>3. QED
  BY <1>1, <1>2, AskKeeps DEF Kinds

LEMMA RefreshStep ==
  ASSUME DashInv, RefreshArtifacts
  PROVE  DashInv' /\ UNCHANGED detail
<1>1. /\ Stays /\ UNCHANGED <<shown, detail>>
      /\ projectName # NoProject
      /\ Ask(pending, busy, {Call("list", projectName, "sync")})
  BY DEF RefreshArtifacts, viewVars, groupVars, followVars, Stays, Listing
<1>2. QED
  BY <1>1, AskKeeps DEF Kinds

LEMMA SaveConfigStep ==
  ASSUME DashInv, SaveConfig
  PROVE  DashInv' /\ UNCHANGED detail
<1>1. /\ Stays /\ UNCHANGED <<shown, detail>>
      /\ projectName # NoProject
      /\ Ask(pending, busy, {Call("save", projectName, FALSE)})
  BY DEF SaveConfig, viewVars, groupVars, followVars, Stays
<1>2. QED
  BY <1>1, AskKeeps DEF Kinds

LEMMA ClassifyAsks ==
  ASSUME DashInv, NEW apply \in BOOLEAN, Classify(apply)
  PROVE  DashInv' /\ UNCHANGED detail
<1>1. /\ Stays /\ UNCHANGED <<shown, detail>>
      /\ <<"classify-all", projectName>> \in TaskKeys
      /\ Ask(pending, busy, {Call("classify", projectName, apply)})
  BY DEF Classify, viewVars, followVars, Stays
<1>2. projectName # NoProject
  BY <1>1, TaskKeysAssumption, ProjectsAssumption
<1>3. QED
  BY <1>1, <1>2, AskKeeps DEF Kinds

LEMMA PollAsks ==
  ASSUME DashInv, Poll
  PROVE  DashInv' /\ UNCHANGED detail
<1>1. /\ Stays /\ UNCHANGED <<shown, detail>>
      /\ projectName # NoProject
      /\ Ask(pending, busy, {Call("poll", projectName, FALSE)})
  BY DEF Poll, viewVars, groupVars, followVars, Stays
<1>2. QED
  BY <1>1, AskKeeps DEF Kinds

\* Selecting an artifact makes what was asked for another one stale, and asks for its
\* own detail.
LEMMA SelectArtifactStep ==
  ASSUME DashInv, NEW h \in Hashes, SelectArtifact(h)
  PROVE  DashInv' /\ UNCHANGED detail
<1> DEFINE old == BagToSet(Outdated(pending, {"detail"}))
           q == Call("detail", projectName, h)
<1>1. /\ UNCHANGED <<Line, url, projectName, ready, shown, detail>>
      /\ UNCHANGED <<grouped, finished, seen, urgent, default, astray>>
      /\ projectName # NoProject /\ active' = <<projectName, h>>
      /\ Ask(Outdated(pending, {"detail"}), busy, {q})
  BY DEF SelectArtifact, groupVars, followVars
<1>2. /\ UNCHANGED <<mounts, sock, current, timers, connection, up, Deps>>
      /\ projectName \in Projects
  BY <1>1 DEF DashInv, TabTyped, Line, Deps
<1>3. /\ old \subseteq RequestType
      /\ \A r \in old : \E o \in Flying :
           /\ r.on = o.on /\ r.kind = o.kind /\ r.project = o.project /\ r.arg = o.arg
           /\ IF o.kind = "detail" THEN ~r.fresh ELSE r = o
      /\ \A o \in Flying : o.kind # "detail" => o \in old
  BY OutdatedSet DEF Flying, DashInv, TabTyped
<1>4. CanAsk => q \in RequestType /\ sock[q.on] \in Live
  BY <1>2, CallFacts DEF DashInv, Kinds
<1>5. /\ q.kind = "detail" /\ q.project = projectName /\ q.arg = h
      /\ Spinner(q) = {"detailLoading"}
  BY DEF Call, Spinner
<1>6. \/ CanAsk /\ Flying' = old \cup {q} /\ busy' = busy \cup {"detailLoading"}
      \/ ~CanAsk /\ Flying' = old /\ busy' = busy \ {"detailLoading"}
  BY <1>1, <1>5, AskFacts DEF Spinners
<1> HIDE DEF old, q
<1>7. LineTyped' /\ ConnectionsConserved' /\ OnSockets'
  <2>1. \A r \in Flying' : sock[r.on] \in Live \cup {"closing"}
    BY <1>3, <1>4, <1>6 DEF DashInv, OnSockets
  <2>2. QED
    BY <1>1, <2>1, LineKeeps DEF DashInv
<1>8. TabTyped'
  <2>1. Flying' \subseteq RequestType
    BY <1>3, <1>4, <1>6
  <2>2. \A r \in Flying' : r.kind \in {"detail", "action"} => r.arg \in Hashes
    BY <1>3, <1>5, <1>6 DEF DashInv, TabTyped
  <2>3. busy' \subseteq Spinning /\ active' \in Selections
    BY <1>1, <1>2, <1>6 DEF DashInv, TabTyped, Spinning, Selections
  <2>4. QED
    BY <1>1, <2>1, <2>2, <2>3 DEF DashInv, TabTyped
<1>9. OwnAnswers'
  <2>1. \A r \in Flying' : Own(r)'
    <3>1. ASSUME NEW r \in old
          PROVE  Own(r)'
      BY <1>1, <1>3 DEF DashInv, OwnAnswers, Own
    <3>2. ASSUME NEW r, r = q
          PROVE  Own(r)'
      BY <1>1, <1>5, <3>2 DEF Own
    <3>3. QED
      BY <1>6, <3>1, <3>2
  <2>2. ShownIsSelected'
    BY <1>1 DEF ShownIsSelected, DashInv, OwnAnswers
  <2>3. QED
    BY <1>1, <2>1, <2>2 DEF OwnAnswers
<1>10. Owed'
  <2>1. \A b \in {"loading", "artifactLoading", "action"} : Working(b) => Working(b)'
    <3>1. ASSUME NEW b \in {"loading", "artifactLoading", "action"}, NEW o \in Flying, Spinner(o) = {b}
          PROVE  o \in Flying'
      <4>1. o.kind # "detail"
        BY <3>1 DEF Spinner
      <4>2. QED
        BY <1>3, <1>6, <4>1
    <3>2. QED
      BY <3>1 DEF Working
  <2>2. "detailLoading" \in busy' => Working("detailLoading")'
    BY <1>5, <1>6 DEF Working
  <2>3. \A b \in {"loading", "artifactLoading", "action"} : b \in busy' => b \in busy
    BY <1>6
  <2>4. QED
    BY <1>1, <1>2, <2>1, <2>2, <2>3 DEF DashInv, Owed
<1>11. QED
  BY <1>1, <1>7, <1>8, <1>9, <1>10 DEF DashInv

-----------------------------------------------------------------------------
(***************************************************************************)
(* Events of the connection, the tasks and the server                      *)
(***************************************************************************)

\* Neither what is shown nor what was asked changes.
Untouched == UNCHANGED <<url, projectName, ready, shown, active, detail, grouped, seen, default, astray>>

\* A step that only concerns the connection, while nothing is urgent.
LEMMA UntouchedKeeps ==
  ASSUME DashInv, Untouched, ~urgent, UNCHANGED <<urgent, busy, pending>>,
         finished' \subseteq TaskKeys,
         LineTyped', ConnectionsConserved', OnSockets'
  PROVE  DashInv' /\ UNCHANGED detail
<1>1. /\ UNCHANGED <<url, projectName, ready, shown, active, detail, grouped, seen, default, astray>>
      /\ UNCHANGED Flying
  BY DEF Untouched, Flying
<1>2. TabTyped'
  BY <1>1 DEF DashInv, TabTyped
<1>3. OwnAnswers'
  BY <1>1 DEF DashInv, OwnAnswers, Own, ShownIsSelected
<1>4. Owed'
  BY <1>1 DEF DashInv, Owed, Working
<1>5. QED
  BY <1>1, <1>2, <1>3, <1>4 DEF DashInv

LEMMA OpensStep ==
  ASSUME DashInv, NEW s \in Sockets, SocketOpens(s)
  PROVE  DashInv' /\ UNCHANGED detail
<1>1. /\ Untouched /\ ~urgent /\ UNCHANGED <<urgent, busy, finished, pending>>
      /\ sock[s] = "connecting" /\ sock' = [sock EXCEPT ![s] = "opened"]
      /\ connection' = "connected" /\ UNCHANGED <<mounts, current, timers, up>>
  BY DEF SocketOpens, Opens, viewVars, groupVars, followVars, outsideVars, Untouched
<1>2. /\ LineTyped' /\ ConnectionsConserved'
      /\ sock'[s] = "opened" /\ \A t \in Sockets \ {s} : sock'[t] = sock[t]
  BY <1>1, SocketLives DEF DashInv, Live, LineTyped
<1>3. OnSockets'
  BY <1>1, <1>2 DEF DashInv, OnSockets, TabTyped, RequestType, Flying, Live
<1>4. finished' \subseteq TaskKeys
  BY <1>1 DEF DashInv, TabTyped
<1>5. QED
  BY <1>1, <1>2, <1>3, <1>4, UntouchedKeeps

LEMMA ReconnectStep ==
  ASSUME DashInv, NEW s \in Sockets, ReconnectTimer(s)
  PROVE  DashInv' /\ UNCHANGED detail
<1>1. /\ Untouched /\ ~urgent /\ UNCHANGED <<urgent, busy, finished, pending>>
      /\ Reconnects(s)
  BY DEF ReconnectTimer, Reconnects, viewVars, groupVars, followVars, outsideVars, Untouched
<1>2. LineTyped' /\ ConnectionsConserved'
  BY <1>1, ReconnectsKeeps DEF DashInv
<1>3. /\ sock[s] = "none" /\ \A t \in Sockets \ {s} : sock'[t] = sock[t]
  BY <1>1 DEF Reconnects, DashInv, LineTyped
<1>4. OnSockets'
  BY <1>1, <1>3 DEF DashInv, OnSockets, TabTyped, RequestType, Flying, Live
<1>5. finished' \subseteq TaskKeys
  BY <1>1 DEF DashInv, TabTyped
<1>6. QED
  BY <1>1, <1>2, <1>4, <1>5, UntouchedKeeps

\* Whatever turned for a request turns no more.
LEMMA ClosesStep ==
  ASSUME DashInv, NEW s \in Sockets, NEW failed \in BOOLEAN, SocketCloses(s, failed)
  PROVE  DashInv' /\ UNCHANGED detail
<1>1. /\ Untouched /\ ~urgent /\ UNCHANGED <<urgent, finished>>
      /\ Closes(s, failed)
      /\ busy' = busy \ Spinners(Flying)
  BY DEF SocketCloses, viewVars, groupVars, followVars, Untouched, Flying
<1>2. LineTyped' /\ ConnectionsConserved' /\ Flying' = {}
  BY <1>1, ClosesKeeps DEF DashInv
<1>3. UNCHANGED <<url, projectName, ready, shown, active, detail, grouped, seen, default, astray>>
  BY <1>1 DEF Untouched
<1>4. OnSockets'
  BY <1>2 DEF OnSockets
<1>5. TabTyped'
  BY <1>1, <1>2, <1>3 DEF DashInv, TabTyped
<1>6. OwnAnswers'
  BY <1>2, <1>3 DEF DashInv, OwnAnswers, ShownIsSelected
<1>7. Owed'
  <2>1. \A b \in busy' : b \in busy /\ ~Working(b)
    BY <1>1 DEF Working, Spinners
  <2>2. QED
    BY <1>1, <1>3, <2>1 DEF DashInv, Owed
<1>8. QED
  BY <1>2, <1>3, <1>4, <1>5, <1>6, <1>7 DEF DashInv

\* If session.ready moves the tab to another project, everything may be astray.
LEMMA ReadyStep ==
  ASSUME DashInv, NEW s \in Sockets, SessionReady(s)
  PROVE  DashInv' /\ UNCHANGED detail
<1>1. /\ ~urgent /\ sock[s] = "opened" /\ sock' = [sock EXCEPT ![s] = "ready"] /\ ready' = TRUE
      /\ projectName' = IF url # NoProject THEN url ELSE default
      /\ astray' = IF projectName \in {NoProject, projectName'} THEN astray ELSE Items \cup {"detail"}
      /\ UNCHANGED <<mounts, current, timers, connection, pending, up, url, shown, active, detail,
                     busy, grouped, finished, seen, urgent, default>>
  BY DEF SessionReady, groupVars, followVars, outsideVars
<1>2. UNCHANGED Flying
  BY <1>1 DEF Flying
<1>3. /\ LineTyped' /\ ConnectionsConserved'
      /\ sock'[s] = "ready" /\ \A t \in Sockets \ {s} : sock'[t] = sock[t]
  BY <1>1, SocketLives DEF DashInv, Live, LineTyped
<1>4. OnSockets'
  BY <1>2, <1>3 DEF DashInv, OnSockets, TabTyped, RequestType, Live
<1>5. TabTyped'
  BY <1>1, <1>2 DEF DashInv, TabTyped
<1>6. OwnAnswers'
  <2>1. CASE projectName' = projectName
    BY <1>1, <1>2, <2>1 DEF DashInv, OwnAnswers, Own, ShownIsSelected
  <2>2. CASE projectName = NoProject
    <3>1. astray' = astray
      BY <1>1, <2>2
    <3>2. \A r \in Flying : r.project # projectName
      BY <2>2, FlyingFacts
    <3>3. \A r \in Flying' : Own(r)'
      <4> SUFFICES ASSUME NEW r \in Flying
                   PROVE  Own(r)'
        BY <1>2
      <4>1. Own(r) /\ r.project # projectName
        BY <3>2 DEF DashInv, OwnAnswers
      <4>2. QED
        BY <1>1, <3>1, <4>1 DEF Own
    <3>4. /\ active # NoDetail => active[1] # projectName
          /\ detail # NoDetail => detail[1] # projectName
      BY <2>2, ProjectsAssumption DEF DashInv, TabTyped, Selections
    <3>5. ShownIsSelected'
      BY <1>1, <2>2, <3>1, <3>4 DEF DashInv, OwnAnswers, ShownIsSelected
    <3>6. QED
      BY <1>1, <3>1, <3>3, <3>4, <3>5 DEF DashInv, OwnAnswers
  <2>3. CASE projectName' # projectName /\ projectName # NoProject
    <3>1. astray' = Items \cup {"detail"}
      BY <1>1, <2>3
    <3>2. \A r \in Flying' : Own(r)'
      BY <1>1, <1>2, <3>1 DEF DashInv, OwnAnswers, Own, Items
    <3>3. ShownIsSelected'
      BY <3>1 DEF ShownIsSelected
    <3>4. QED
      BY <3>1, <3>2, <3>3 DEF OwnAnswers
  <2>4. QED
    BY <2>1, <2>2, <2>3
<1>7. Owed'
  BY <1>1, <1>2 DEF DashInv, Owed, Working
<1>8. QED
  BY <1>1, <1>3, <1>4, <1>5, <1>6, <1>7 DEF DashInv

LEMMA TasksStep ==
  ASSUME DashInv, NEW k \in TaskKeys, TasksChanged(k)
  PROVE  DashInv' /\ UNCHANGED detail
<1>1. /\ Untouched /\ ~urgent /\ UNCHANGED <<urgent, busy, pending, Line>>
      /\ finished' = {k}
  BY DEF TasksChanged, clientVars, viewVars, groupVars, outsideVars, Untouched, Line
<1>2. \A r \in Flying' : sock[r.on] \in Live \cup {"closing"}
  BY <1>1 DEF DashInv, OnSockets, Flying
<1>3. LineTyped' /\ ConnectionsConserved' /\ OnSockets'
  BY <1>1, <1>2, LineKeeps DEF DashInv
<1>4. finished' \subseteq TaskKeys
  BY <1>1
<1>5. QED
  BY <1>1, <1>3, <1>4, UntouchedKeeps

LEMMA StopsStep ==
  ASSUME DashInv, ServerStops
  PROVE  DashInv' /\ UNCHANGED detail
<1>1. /\ Untouched /\ ~urgent /\ UNCHANGED <<urgent, busy, finished, pending>>
      /\ UNCHANGED <<mounts, sock, current, timers, connection>> /\ up' = FALSE
  BY DEF ServerStops, viewVars, groupVars, followVars, Untouched
<1>2. LineTyped' /\ ConnectionsConserved' /\ OnSockets'
  BY <1>1 DEF DashInv, LineTyped, ConnectionsConserved, OnSockets, Flying
<1>3. finished' \subseteq TaskKeys
  BY <1>1 DEF DashInv, TabTyped
<1>4. QED
  BY <1>1, <1>2, <1>3, UntouchedKeeps

LEMMA StartsStep ==
  ASSUME DashInv, ServerStarts
  PROVE  DashInv' /\ UNCHANGED detail
<1>1. /\ UNCHANGED <<url, projectName, ready, shown, active, detail, grouped, seen, astray>>
      /\ ~urgent /\ UNCHANGED <<urgent, busy, finished, pending>>
      /\ UNCHANGED <<mounts, sock, current, timers, connection>>
      /\ up' = TRUE /\ default' \in Projects
  BY DEF ServerStarts, viewVars, groupVars, followVars
<1>2. UNCHANGED Flying
  BY <1>1 DEF Flying
<1>3. LineTyped' /\ ConnectionsConserved' /\ OnSockets'
  BY <1>1, <1>2 DEF DashInv, LineTyped, ConnectionsConserved, OnSockets
<1>4. TabTyped'
  BY <1>1, <1>2 DEF DashInv, TabTyped
<1>5. OwnAnswers'
  BY <1>1, <1>2 DEF DashInv, OwnAnswers, Own, ShownIsSelected
<1>6. Owed'
  BY <1>1, <1>2 DEF DashInv, Owed, Working
<1>7. QED
  BY <1>1, <1>3, <1>4, <1>5, <1>6 DEF DashInv

-----------------------------------------------------------------------------
(***************************************************************************)
(* Leaving a project, and rendering                                        *)
(***************************************************************************)

\* Leaving a project empties the view and makes stale what would be shown unasked; what
\* no test keeps away is what `astray` names.
LEMMA ApplyKeeps ==
  ASSUME DashInv, NEW p \in Projects \cup {NoProject}, p # projectName, ready, Rendered,
         url' = p, ApplyProject(p), urgent',
         UNCHANGED <<Line, ready, busy, grouped, finished, seen, default>>
  PROVE  DashInv' /\ detail' = NoDetail
<1>1. /\ projectName' = p /\ shown' = Nothing /\ active' = NoDetail /\ detail' = NoDetail
      /\ pending' = Outdated(pending, {"load", "detail"})
      /\ astray' = Unguarded(p)
      /\ UNCHANGED <<mounts, sock, current, timers, connection, up>>
  BY DEF ApplyProject, Line
<1>2. /\ Flying' \subseteq RequestType
      /\ \A r \in Flying' : \E o \in Flying :
           /\ r.on = o.on /\ r.kind = o.kind /\ r.project = o.project /\ r.arg = o.arg
           /\ IF o.kind \in {"load", "detail"} THEN ~r.fresh ELSE r = o
      /\ \A o \in Flying : o.kind \notin {"load", "detail"} => o \in Flying'
  BY <1>1, OutdatedSet DEF Flying, DashInv, TabTyped
<1>3. LineTyped' /\ ConnectionsConserved' /\ OnSockets'
  <2>1. \A r \in Flying' : sock[r.on] \in Live \cup {"closing"}
    BY <1>2 DEF DashInv, OnSockets
  <2>2. QED
    BY <2>1, LineKeeps DEF DashInv
<1>4. TabTyped'
  <2>1. \A r \in Flying' : r.kind \in {"detail", "action"} => r.arg \in Hashes
    BY <1>2 DEF DashInv, TabTyped
  <2>2. shown' \in [Items -> Projects \cup {NoProject}]
    BY <1>1 DEF Nothing
  <2>3. astray' \subseteq Items
    BY <1>1 DEF Unguarded
  <2>4. QED
    BY <1>1, <1>2, <2>1, <2>2, <2>3 DEF DashInv, TabTyped
<1>5. OwnAnswers'
  <2>1. \A r \in Flying' : Own(r)'
    <3> SUFFICES ASSUME NEW r \in Flying'
                 PROVE  Own(r)'
      OBVIOUS
    <3>1. PICK o \in Flying :
            /\ r.on = o.on /\ r.kind = o.kind /\ r.project = o.project /\ r.arg = o.arg
            /\ IF o.kind \in {"load", "detail"} THEN ~r.fresh ELSE r = o
      BY <1>2
    <3>2. /\ r.kind = "list" => r.project = p \/ "artifacts" \in astray'
          /\ r.kind = "poll" => r.project = p \/ "summary" \in astray'
          /\ r.kind = "save" => r.project = p \/ "project" \in astray'
      BY <1>1, <3>1 DEF Unguarded, Items, Flying
    <3>3. QED
      BY <1>1, <3>1, <3>2 DEF Own
  <2>2. ShownIsSelected'
    BY <1>1 DEF ShownIsSelected, Nothing
  <2>3. QED
    BY <1>1, <2>1, <2>2 DEF OwnAnswers
<1>6. Owed'
  <2>1. Deps' # seen'
    BY <1>1 DEF Rendered, Deps
  <2>2. \A b \in {"artifactLoading", "action"} : Working(b) => Working(b)'
    <3>1. ASSUME NEW b \in {"artifactLoading", "action"}, NEW o \in Flying, Spinner(o) = {b}
          PROVE  o \in Flying'
      <4>1. o.kind \notin {"load", "detail"}
        BY <3>1 DEF Spinner
      <4>2. QED
        BY <1>2, <4>1
    <3>2. QED
      BY <3>1 DEF Working
  <2>3. QED
    BY <1>1, <2>1, <2>2 DEF DashInv, Owed
<1>7. QED
  BY <1>1, <1>3, <1>4, <1>5, <1>6 DEF DashInv

LEMMA SelectProjectStep ==
  ASSUME DashInv, NEW p \in Projects, SelectProject(p)
  PROVE  DashInv' /\ detail' \in {detail, NoDetail}
BY ApplyKeeps DEF SelectProject, groupVars

LEMMA PopStateStep ==
  ASSUME DashInv, NEW p \in Projects \cup {NoProject}, PopState(p)
  PROVE  DashInv' /\ detail' \in {detail, NoDetail}
<1>1. CASE p # projectName
  BY <1>1, ApplyKeeps DEF PopState, groupVars
<1>2. CASE p = projectName
  <2>1. /\ Rendered /\ url' = p
        /\ UNCHANGED <<Line, ready, busy, grouped, finished, seen, default>>
        /\ UNCHANGED <<projectName, pending, shown, active, detail, urgent, astray>>
    BY <1>2 DEF PopState, groupVars
  <2>2. UNCHANGED <<mounts, sock, current, timers, connection, up, Flying, Deps>>
    BY <2>1 DEF Line, Flying, Deps
  <2>3. LineTyped' /\ ConnectionsConserved' /\ OnSockets'
    BY <2>2 DEF DashInv, LineTyped, ConnectionsConserved, OnSockets
  <2>4. TabTyped'
    BY <2>1, <2>2 DEF DashInv, TabTyped
  <2>5. OwnAnswers'
    BY <2>1, <2>2 DEF DashInv, OwnAnswers, Own, ShownIsSelected
  <2>6. Owed'
    BY <2>1, <2>2 DEF DashInv, Owed, Working
  <2>7. QED
    BY <2>1, <2>3, <2>4, <2>5, <2>6 DEF DashInv
<1>3. QED
  BY <1>1, <1>2

LEMMA ChangeGroupingStep ==
  ASSUME DashInv, ChangeGrouping
  PROVE  DashInv' /\ UNCHANGED detail
<1>1. /\ Rendered /\ ready /\ grouped' = ~grouped /\ urgent' = TRUE
      /\ UNCHANGED <<Line, pending, url, projectName, ready, shown, active, detail>>
      /\ UNCHANGED <<busy, finished, seen, default, astray>>
  BY DEF ChangeGrouping, clientVars, viewVars, Line
<1>2. UNCHANGED <<mounts, sock, current, timers, connection, up, Flying>>
  BY <1>1 DEF Line, Flying
<1>3. LineTyped' /\ ConnectionsConserved' /\ OnSockets'
  BY <1>2 DEF DashInv, LineTyped, ConnectionsConserved, OnSockets
<1>4. grouped' \in BOOLEAN /\ grouped' # grouped
  BY <1>1 DEF DashInv, TabTyped
<1>5. TabTyped'
  BY <1>1, <1>2, <1>4 DEF DashInv, TabTyped
<1>6. OwnAnswers'
  BY <1>1, <1>2 DEF DashInv, OwnAnswers, Own, ShownIsSelected
<1>7. Deps' # seen'
  BY <1>1, <1>4 DEF Rendered, Deps
<1>8. Owed'
  BY <1>1, <1>2, <1>7 DEF DashInv, Owed, Working
<1>9. QED
  BY <1>1, <1>3, <1>5, <1>6, <1>8 DEF DashInv

\* The effects run.  A spinner that waited for the load effect turns for its request, or
\* goes on waiting for a project or for a connection.
LEMMA RenderStep ==
  ASSUME DashInv, Render
  PROVE  DashInv' /\ detail' \in {detail, NoDetail}
<1> DEFINE aged == (IF Reloads THEN {"load"} ELSE {}) \cup (IF Over("clean") THEN {"detail"} ELSE {})
           load == Call("load", projectName, FALSE)
           listing == Listing(projectName, "list")
           calls == (IF Reloads THEN {load} ELSE {}) \cup (IF Over("classify-all") THEN {listing} ELSE {})
           old == BagToSet(Outdated(pending, aged))
           spin == IF Over("classify-all") THEN busy \ {"classifyingAll"} ELSE busy
<1>1. /\ Ask(Outdated(pending, aged), spin, calls)
      /\ IF Over("clean")
         THEN /\ shown' = [shown EXCEPT !["artifacts"] = NoProject]
              /\ active' = NoDetail
              /\ detail' = NoDetail
         ELSE UNCHANGED <<shown, active, detail>>
      /\ seen' = Deps /\ finished' = {} /\ urgent' = FALSE
      /\ UNCHANGED <<Line, url, projectName, ready, default, astray>>
  BY DEF Render, outsideVars
<1>2. grouped' \in BOOLEAN
  BY DEF Render
<1>3. UNCHANGED <<mounts, sock, current, timers, connection, up>>
  BY <1>1 DEF Line
<1>4. /\ old \subseteq RequestType
      /\ \A r \in old : \E o \in Flying :
           /\ r.on = o.on /\ r.kind = o.kind /\ r.project = o.project /\ r.arg = o.arg
           /\ IF o.kind \in aged THEN ~r.fresh ELSE r = o
      /\ \A o \in Flying : o.kind \notin aged => o \in old
  BY OutdatedSet DEF Flying, DashInv, TabTyped
<1>5. /\ "load" \in aged <=> Reloads
      /\ "detail" \in aged <=> Over("clean")
      /\ "list" \notin aged /\ "action" \notin aged
  OBVIOUS
<1>6. Reloads \/ Over("classify-all") => projectName \in Projects
  BY TaskKeysAssumption DEF Reloads, Over, DashInv, TabTyped
<1>7. /\ load.kind = "load" /\ load.project = projectName /\ Spinner(load) = {"loading"}
      /\ listing.kind = "list" /\ listing.project = projectName
      /\ Spinner(listing) = {"artifactLoading"}
  BY DEF Call, Listing, Spinner
<1>8. CanAsk => \A q \in calls : q \in RequestType /\ sock[q.on] \in Live
  BY <1>6, CallFacts DEF DashInv, Kinds, Listing
<1>9. calls \subseteq {load, listing} /\ (load \in calls <=> Reloads)
  BY <1>7
<1>10. /\ "loading" \in Spinners(calls) <=> Reloads
       /\ Spinners(calls) \subseteq {"loading", "artifactLoading"}
  BY <1>7, <1>9 DEF Spinners
<1>11. spin \subseteq busy
  OBVIOUS
<1> HIDE DEF aged, load, listing, calls, spin
<1>12. \/ CanAsk /\ Flying' = old \cup calls /\ busy' = spin \cup Spinners(calls)
       \/ ~CanAsk /\ Flying' = old /\ busy' = spin \ Spinners(calls)
  BY <1>1, AskFacts
<1> HIDE DEF old
<1>13. LineTyped' /\ ConnectionsConserved' /\ OnSockets'
  <2>1. \A r \in Flying' : sock[r.on] \in Live \cup {"closing"}
    BY <1>4, <1>8, <1>12 DEF DashInv, OnSockets
  <2>2. QED
    BY <1>1, <2>1, LineKeeps DEF DashInv
<1>14. TabTyped'
  <2>1. Flying' \subseteq RequestType
    BY <1>4, <1>8, <1>12
  <2>2. \A r \in Flying' : r.kind \in {"detail", "action"} => r.arg \in Hashes
    BY <1>4, <1>7, <1>9, <1>12 DEF DashInv, TabTyped
  <2>3. busy' \subseteq Spinning
    BY <1>10, <1>12, <1>11 DEF DashInv, TabTyped, Spinning
  <2>4. /\ shown' \in [Items -> Projects \cup {NoProject}]
        /\ active' \in Selections \cup {NoDetail}
        /\ detail' \in Selections \cup {NoDetail}
    BY <1>1 DEF DashInv, TabTyped, Items
  <2>5. QED
    BY <1>1, <1>2, <2>1, <2>2, <2>3, <2>4 DEF DashInv, TabTyped
<1>15. OwnAnswers'
  <2>1. \/ active' = NoDetail /\ Over("clean")
        \/ active' = active /\ ~Over("clean")
    BY <1>1
  <2>2. \A r \in Flying' : Own(r)'
    <3>1. ASSUME NEW r \in old
          PROVE  Own(r)'
      <4>1. PICK o \in Flying :
              /\ r.on = o.on /\ r.kind = o.kind /\ r.project = o.project /\ r.arg = o.arg
              /\ IF o.kind \in aged THEN ~r.fresh ELSE r = o
        BY <1>4
      <4>2. Own(o)
        BY DEF DashInv, OwnAnswers
      <4>3. QED
        BY <1>1, <1>5, <2>1, <4>1, <4>2 DEF Own
    <3>2. ASSUME NEW r \in calls
          PROVE  Own(r)'
      <4>1. r.kind \in {"load", "list"} /\ r.project = projectName
        BY <1>7, <1>9
      <4>2. QED
        BY <1>1, <4>1 DEF Own
    <3>3. QED
      BY <1>12, <3>1, <3>2
  <2>3. \A x \in Items : shown'[x] \in {shown[x], NoProject}
    BY <1>1 DEF DashInv, TabTyped
  <2>4. detail' \in {detail, NoDetail}
    BY <1>1
  <2>5. ShownIsSelected'
    BY <1>1, <2>3, <2>4 DEF DashInv, OwnAnswers, ShownIsSelected
  <2>6. QED
    BY <1>1, <2>1, <2>2, <2>5 DEF DashInv, OwnAnswers
<1>16. Owed'
  <2>1. ASSUME NEW b, NEW o \in Flying, Spinner(o) = {b},
               b = "loading" => ~Reloads, b = "detailLoading" => ~Over("clean"),
               b \in {"loading", "detailLoading", "artifactLoading", "action"}
        PROVE  Working(b)'
    <3>1. o.kind \notin aged
      BY <1>5, <2>1 DEF Spinner, aged
    <3>2. o \in Flying'
      BY <1>4, <1>12, <3>1
    <3>3. QED
      BY <2>1, <3>2 DEF Working
  <2>2. ASSUME NEW b, b \in Spinners(calls), b \in busy'
        PROVE  Working(b)'
    <3>1. CanAsk /\ calls \subseteq Flying'
      BY <1>12, <2>2
    <3>2. PICK q \in calls : b \in Spinner(q)
      BY <2>2 DEF Spinners
    <3>3. Spinner(q) = {b}
      BY <3>2, SpinnerFacts
    <3>4. QED
      BY <3>1, <3>2, <3>3 DEF Working
  <2>3. \A b \in busy' : b \in Spinners(calls) \/ b \in busy
    BY <1>12, <1>11
  <2>4. ASSUME "loading" \in busy'
        PROVE  /\ ready'
               /\ seen'.project = NoProject \/ seen'.connection # "connected" \/ Working("loading")'
    <3>1. CASE Reloads
      <4>1. ready' /\ "loading" \in Spinners(calls)
        BY <1>1, <1>10, <3>1 DEF Reloads
      <4>2. QED
        BY <2>2, <2>4, <4>1
    <3>2. CASE ~Reloads
      <4>1. "loading" \in busy
        BY <1>10, <2>3, <2>4, <3>2
      <4>2. /\ ready
            /\ urgent \/ seen.project = NoProject \/ seen.connection # "connected" \/ Working("loading")
            /\ urgent => Deps # seen
        BY <4>1 DEF DashInv, Owed
      <4>3. CASE Deps # seen
        <5>1. projectName = NoProject \/ connection # "connected"
          BY <3>2, <4>2, <4>3 DEF Reloads
        <5>2. seen'.project = projectName /\ seen'.connection = connection
          BY <1>1 DEF Deps
        <5>3. QED
          BY <1>1, <4>2, <5>1, <5>2
      <4>4. CASE Deps = seen
        <5>1. seen' = seen
          BY <1>1, <4>4
        <5>2. Working("loading") => Working("loading")'
          BY <2>1, <3>2 DEF Working
        <5>3. QED
          BY <1>1, <4>2, <4>4, <5>1, <5>2
      <4>5. QED
        BY <4>3, <4>4
    <3>3. QED
      BY <3>1, <3>2
  <2>5. ASSUME "detailLoading" \in busy'
        PROVE  active' = NoDetail \/ Working("detailLoading")'
    <3>1. "detailLoading" \in busy
      BY <1>10, <2>3, <2>5
    <3>2. CASE Over("clean")
      BY <1>1, <3>2
    <3>3. CASE ~Over("clean")
      <4>1. Working("detailLoading") => Working("detailLoading")'
        BY <2>1, <3>3 DEF Working
      <4>2. QED
        BY <1>1, <3>1, <3>3, <4>1 DEF DashInv, Owed
    <3>4. QED
      BY <3>2, <3>3
  <2>6. ASSUME NEW b \in {"artifactLoading", "action"}, b \in busy'
        PROVE  Working(b)'
    <3>1. CASE b \in Spinners(calls)
      BY <2>2, <2>6, <3>1
    <3>2. CASE b \in busy
      <4>1. Working(b)
        BY <3>2 DEF DashInv, Owed
      <4>2. QED
        BY <2>1, <4>1 DEF Working
    <3>3. QED
      BY <2>3, <2>6, <3>1, <3>2
  <2>7. QED
    BY <1>1, <2>4, <2>5, <2>6 DEF Owed
<1>17. detail' \in {detail, NoDetail}
  BY <1>1
<1>18. QED
  BY <1>13, <1>14, <1>15, <1>16, <1>17 DEF DashInv

-----------------------------------------------------------------------------
(***************************************************************************)
(* Theorems                                                                *)
(***************************************************************************)

LEMMA DashInitInv == DashInit => DashInv
<1> SUFFICES ASSUME DashInit
             PROVE  DashInv
  OBVIOUS
<1>1. /\ pending = EmptyBag /\ Flying = {} /\ busy = {} /\ timers = 0 /\ current = mounts
      /\ connection = "connecting" /\ up = TRUE
  BY EmptyBagSet DEF DashInit, ClientInit, Flying
<1>2. /\ mounts \in {1, 2} /\ sock \in [Sockets -> SocketStates]
      /\ Existing = 1 .. mounts /\ 1 .. mounts \subseteq Sockets
  <2>1. {1, 2} \subseteq Sockets
    BY SocketsAssumption DEF Sockets
  <2>2. CASE mounts = 1 /\ sock = [s \in Sockets |-> IF s = 1 THEN "connecting" ELSE "none"]
    <3>1. \A s \in Sockets : sock[s] # "none" <=> s = 1
      BY <2>2
    <3>2. Existing = 1 .. 1
      BY <2>1, <3>1 DEF Existing
    <3>3. QED
      BY <2>1, <2>2, <3>2 DEF SocketStates
  <2>3. CASE mounts = 2 /\ sock = [s \in Sockets |-> CASE s = 1 -> "failing"
                                                       [] s = 2 -> "connecting"
                                                       [] OTHER -> "none"]
    <3>1. \A s \in Sockets : /\ sock[s] \in SocketStates
                             /\ sock[s] # "none" <=> s \in {1, 2}
      BY <2>3 DEF SocketStates
    <3>2. Existing = 1 .. 2
      BY <2>1, <3>1 DEF Existing
    <3>3. QED
      BY <2>1, <2>3, <3>1, <3>2
  <2>4. QED
    BY <2>2, <2>3 DEF DashInit, ClientInit
<1>3. LineTyped
  BY <1>1, <1>2 DEF LineTyped
<1>4. ConnectionsConserved
  <2>1. ASSUME NEW n \in {1, 2}
        PROVE  Cardinality(1 .. n) = n
    <3>1. Cardinality(1 .. n) = IF 1 > n THEN 0 ELSE n - 1 + 1
      BY FS_Interval
    <3>2. QED
      BY <3>1
  <2>2. Cardinality(Existing) = mounts
    BY <1>2, <2>1
  <2>3. QED
    BY <1>1, <1>2, <2>2 DEF ConnectionsConserved, Existing
<1>5. TabTyped
  <2>1. default \in Projects
    BY ProjectsAssumption DEF DashInit
  <2>2. QED
    BY <1>1, <2>1 DEF DashInit, TabTyped, Nothing
<1>6. OnSockets
  BY <1>1 DEF OnSockets
<1>7. OwnAnswers
  BY <1>1 DEF DashInit, OwnAnswers, ShownIsSelected, Nothing
<1>8. Owed
  BY <1>1 DEF DashInit, Owed
<1>9. QED
  BY <1>3, <1>4, <1>5, <1>6, <1>7, <1>8 DEF DashInv

LEMMA DashStep ==
  ASSUME DashInv, DashNext
  PROVE  DashInv' /\ (detail' = detail \/ detail' \in {active', NoDetail})
<1>1. \A r \in Arriving : r \in Flying
  BY DEF Arriving, Answerable, Flying
<1>2. CASE Render
  BY <1>2, RenderStep
<1>3. ASSUME NEW r \in Arriving, NEW empty \in BOOLEAN, LoadAnswered(r, empty) \/ ListAnswered(r, empty)
      PROVE  DashInv' /\ UNCHANGED detail
  BY <1>1, <1>3, LoadStep, ListStep
<1>4. ASSUME NEW r \in Arriving, DetailAnswered(r)
      PROVE  DashInv' /\ detail' \in {detail, active'}
  BY <1>1, <1>4, DetailStep
<1>5. ASSUME NEW r \in Arriving, PollAnswered(r) \/ SaveAnswered(r) \/ ClassifyAnswered(r)
      PROVE  DashInv' /\ UNCHANGED detail
  BY <1>1, <1>5, PollStep, SaveStep, ClassifyStep
<1>6. ASSUME NEW r \in BagToSet(pending), Rejected(r)
      PROVE  DashInv' /\ UNCHANGED detail
  BY <1>6, RejectedStep DEF Flying
<1>7. ASSUME NEW s \in Sockets, SocketOpens(s) \/ ReconnectTimer(s) \/ SessionReady(s)
      PROVE  DashInv' /\ UNCHANGED detail
  BY <1>7, OpensStep, ReconnectStep, ReadyStep
<1>8. ASSUME NEW s \in Sockets, NEW failed \in BOOLEAN, SocketCloses(s, failed)
      PROVE  DashInv' /\ UNCHANGED detail
  BY <1>8, ClosesStep
<1>9. ASSUME NEW p \in Projects, SelectProject(p)
      PROVE  DashInv' /\ detail' \in {detail, NoDetail}
  BY <1>9, SelectProjectStep
<1>10. ASSUME NEW p \in Projects \cup {NoProject}, PopState(p)
       PROVE  DashInv' /\ detail' \in {detail, NoDetail}
  BY <1>10, PopStateStep
<1>11. ASSUME NEW h \in Hashes, SelectArtifact(h)
       PROVE  DashInv' /\ UNCHANGED detail
  BY <1>11, SelectArtifactStep
<1>12. CASE RunArtifactAction \/ RefreshArtifacts \/ SaveConfig \/ Poll \/ ChangeGrouping
  BY <1>12, ActionStep, RefreshStep, SaveConfigStep, PollAsks, ChangeGroupingStep
<1>13. ASSUME NEW apply \in BOOLEAN, Classify(apply)
       PROVE  DashInv' /\ UNCHANGED detail
  BY <1>13, ClassifyAsks
<1>14. ASSUME NEW k \in TaskKeys, TasksChanged(k)
       PROVE  DashInv' /\ UNCHANGED detail
  BY <1>14, TasksStep
<1>15. CASE ServerStops \/ ServerStarts
  BY <1>15, StopsStep, StartsStep
<1>16. QED
  BY <1>2, <1>3, <1>4, <1>5, <1>6, <1>7, <1>8, <1>9, <1>10, <1>11, <1>12, <1>13, <1>14, <1>15
     DEF DashNext

LEMMA DashStutter ==
  ASSUME DashInv, UNCHANGED dashVars
  PROVE  DashInv'
<1>1. /\ UNCHANGED <<mounts, sock, current, timers, connection, pending, up>>
      /\ UNCHANGED <<url, projectName, ready, shown, active, detail, busy>>
      /\ UNCHANGED <<grouped, finished, seen, urgent, default, astray>>
  BY DEF dashVars, clientVars, viewVars, groupVars, followVars, outsideVars
<1>2. UNCHANGED <<Flying, Deps>>
  BY <1>1 DEF Flying, Deps
<1>3. LineTyped' /\ ConnectionsConserved' /\ OnSockets'
  BY <1>1, <1>2 DEF DashInv, LineTyped, ConnectionsConserved, OnSockets
<1>4. TabTyped'
  BY <1>1, <1>2 DEF DashInv, TabTyped
<1>5. OwnAnswers'
  BY <1>1, <1>2 DEF DashInv, OwnAnswers, Own, ShownIsSelected
<1>6. Owed'
  BY <1>1, <1>2 DEF DashInv, Owed, Working
<1>7. QED
  BY <1>3, <1>4, <1>5, <1>6 DEF DashInv

LEMMA DashInvariant == DashSpec => []DashInv
<1>1. DashInv /\ [DashNext]_dashVars => DashInv'
  BY DashStep, DashStutter
<1>2. QED
  BY <1>1, DashInitInv, PTL DEF DashSpec

\* The tab's state is of its types: every request in flight is on a socket of the client
\* that was connected, and there are never more timers than sockets may exist.
THEOREM TabTypeCorrect == DashSpec => []DashTypeOK
<1>1. DashInv => DashTypeOK
  <2> SUFFICES ASSUME DashInv
               PROVE  DashTypeOK
    OBVIOUS
  <2>1. timers \in 0 .. MaxSockets
    <3>1. Cardinality(Existing) + timers = mounts /\ mounts \in {1, 2} /\ timers \in Nat
      BY DEF DashInv, LineTyped, ConnectionsConserved, Existing
    <3>2. Cardinality(Existing) \in Nat
      BY ExistingFacts
    <3>3. QED
      BY <3>1, <3>2, SocketsAssumption
  <2>2. \A r \in Flying : /\ r.on \in Sockets /\ sock[r.on] \in Live \cup {"closing"}
                          /\ r.project \in Projects /\ r.fresh \in BOOLEAN
    BY DEF DashInv, TabTyped, OnSockets, RequestType
  <2>3. ClientTypeOK
    BY <2>1, <2>2 DEF DashInv, LineTyped, ClientTypeOK, Flying
  <2>4. QED
    BY <2>2, <2>3 DEF DashInv, TabTyped, DashTypeOK, Spinning, Flying
<1>2. QED
  BY <1>1, DashInvariant, PTL

\* The websocket client of the tab keeps as many sockets and reconnect timers, together,
\* as it was mounted times: whichever of its sockets open, fail and close, in whatever
\* order, no path through the error and close handlers adds or loses one.
THEOREM ClientKeepsConnections == DashSpec => []ConnectionsConserved
<1>1. DashInv => ConnectionsConserved
  BY DEF DashInv
<1>2. QED
  BY <1>1, DashInvariant, PTL

\* What is shown is the selected project's, but for what a request without a test, in
\* flight when the project was left, or a session.ready for another project may replace.
THEOREM TabShowsSelected == DashSpec => []ShownIsSelected
<1>1. DashInv => ShownIsSelected
  BY DEF DashInv, OwnAnswers
<1>2. QED
  BY <1>1, DashInvariant, PTL

\* A spinner that turns, and can be seen, turns for a request in flight, or waits for the
\* effect or the connection that will load again.
THEOREM SpinnersTurnForWork == DashSpec => []SpinnersMeanWork
<1>1. DashInv => SpinnersMeanWork
  <2> SUFFICES ASSUME DashInv
               PROVE  SpinnersMeanWork
    OBVIOUS
  <2>1. ASSUME "loading" \in busy
        PROVE  \/ projectName = NoProject \/ ~Rendered \/ connection # "connected"
               \/ Working("loading")
    <3>1. /\ urgent => Deps # seen
          /\ urgent \/ seen.project = NoProject \/ seen.connection # "connected" \/ Working("loading")
      BY <2>1 DEF DashInv, Owed
    <3>2. Deps = seen => seen.project = projectName /\ seen.connection = connection
      BY DEF Deps
    <3>3. QED
      BY <3>1, <3>2 DEF Rendered
  <2>2. QED
    BY <2>1 DEF DashInv, Owed, SpinnersMeanWork, Working, Flying
<1>2. QED
  BY <1>1, DashInvariant, PTL

\* The detail panel changes only to the artifact that is selected at that moment, or to
\* nothing, in whatever order the answers for artifacts come.
THEOREM DetailIsSelected == DashSpec => DetailFollowsSelection
<1>1. DashInv /\ [DashNext]_dashVars => [detail' # detail => detail' \in {active', NoDetail}]_dashVars
  BY DashStep
<1>2. QED
  BY <1>1, DashInvariant, PTL DEF DashSpec, DetailFollowsSelection
=============================================================================
