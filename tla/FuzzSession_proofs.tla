------------------------- MODULE FuzzSession_proofs -------------------------
(***************************************************************************)
(* TLAPS proofs about the campaigns of a project, for any number of        *)
(* campaigns and instances, with and without a monitor.                    *)
(*                                                                         *)
(* The three safety properties all say of a worker's VM what only the      *)
(* worker's end and the campaign's place can tell.  The inductive          *)
(* invariant has a part for each: which VM states go with which point of   *)
(* run_fuzz(), which workers a campaign has at each point, that campaigns  *)
(* take turns, what a gather()'s result says of the workers, and that a    *)
(* coroutine that is past its gathers has seen all its workers end, or one *)
(* of them fail.                                                           *)
(***************************************************************************)
EXTENDS FuzzSession, TLAPS

Places == {"none", "created", "gathering", "draining", "leaving", "over"}
WorkerStates == {"none", "created", "booting", "fuzzing", "told", "terminating",
                 "killing", "dropped"} \cup WorkerEndings
VMStates == {"none", "booting", "up", "asked", "killed", "gone"}

CampaignsTyped ==
  /\ campaign \in [Campaigns -> Places]
  /\ verdict \in [Campaigns -> {"none", "done", "error", "cancelled"}]
  /\ upkeep \subseteq Upkeep
  /\ loop \in {"running", "closing", "cancelling", "exited"}

WorkersTyped ==
  /\ worker \in [Workers -> WorkerStates]
  /\ vm \in [Workers -> VMStates]

\* The VM states that go with a point of run_fuzz().
VMFollows ==
  \A w \in Workers :
    /\ worker[w] \in {"none", "created"} => vm[w] = "none"
    /\ worker[w] = "booting" => vm[w] \in {"booting", "gone"}
    /\ worker[w] = "fuzzing" => vm[w] \in {"up", "gone"}
    /\ worker[w] = "told" => vm[w] \in {"none", "booting", "up", "gone"}
    /\ worker[w] = "terminating" => vm[w] \in {"asked", "gone"}
    /\ worker[w] \in {"killing", "dropped"} => vm[w] \in {"killed", "gone"}
    /\ worker[w] = "cancelled" => vm[w] \in {"none", "killed", "gone"}
    /\ worker[w] = "returned" => vm[w] = "gone"

\* A campaign has workers once its coroutine has begun.
CrewsBegin ==
  \A w \in Workers :
    campaign[w[1]] \in {"none", "created"} => worker[w] = "none"

\* A campaign starts when the ones before it are over.
InTurn ==
  \A c, d \in Campaigns : c < d /\ campaign[d] # "none" => campaign[c] = "over"

\* What the result of a gather() says of the workers.
VerdictsTell ==
  \A c \in Campaigns :
    /\ verdict[c] = "done" => \A w \in Crew(c) : Ended(w)
    /\ verdict[c] = "error" => Failed(c)

\* A coroutine that is past its gathers has none of its workers left, unless one failed.
Settled ==
  \A c \in Campaigns :
    campaign[c] \in {"leaving", "over"} =>
      Failed(c) \/ \A w \in Crew(c) : Ended(w) \/ worker[w] = "none"

\* The process leaves when no campaign is under way and every worker has ended.
LoopEnds ==
  /\ loop \in {"cancelling", "exited"} => ~FuzzRunning
  /\ loop = "exited" => \A w \in Workers : Ended(w) \/ worker[w] = "none"

FuzzInv ==
  /\ CampaignsTyped
  /\ WorkersTyped
  /\ VMFollows
  /\ CrewsBegin
  /\ InTurn
  /\ VerdictsTell
  /\ Settled
  /\ LoopEnds

-----------------------------------------------------------------------------
\* The workers' part of a step: a worker that has ended stays as it is, and none is
\* created.
WorkersGoOn ==
  \A w \in Workers :
    /\ Ended(w) => worker'[w] = worker[w]
    /\ worker'[w] = "none" <=> worker[w] = "none"

\* A worker of a campaign is one of its crew.
LEMMA Crews ==
  /\ \A w \in Workers : w[1] \in Campaigns /\ w \in Crew(w[1])
  /\ \A c \in Campaigns : Crew(c) \subseteq Workers
  /\ \A c \in Campaigns : \A w \in Crew(c) : w[1] = c
BY DEF Workers, Crew

\* Workers that go on keep what was known of those that have ended.
LEMMA EndsStay ==
  ASSUME WorkersGoOn
  PROVE  /\ \A w \in Workers : Ended(w) => Ended(w)'
         /\ \A c \in Campaigns : Failed(c) => Failed(c)'
<1>1. \A w \in Workers : Ended(w) => Ended(w)'
  BY DEF WorkersGoOn, Ended
<1>2. \A w \in Workers : worker[w] = "raised" => worker'[w] = "raised"
  BY DEF WorkersGoOn, Ended, WorkerEndings
<1>3. QED
  BY <1>1, <1>2, Crews DEF Failed

\* A step of the workers and of the process keeps the invariant, if it keeps the types,
\* the VMs in place, the verdicts and the order in which the process ends.
LEMMA LoopMoves ==
  ASSUME FuzzInv, WorkersGoOn, CampaignsTyped', WorkersTyped', VMFollows', VerdictsTell',
         LoopEnds', UNCHANGED campaign
  PROVE  FuzzInv'
<1>1. CrewsBegin' /\ InTurn'
  BY Crews DEF FuzzInv, WorkersGoOn, CrewsBegin, InTurn
<1>2. Settled'
  <2>1. ASSUME NEW c \in Campaigns, campaign'[c] \in {"leaving", "over"}
        PROVE  Failed(c)' \/ \A w \in Crew(c) : Ended(w)' \/ worker'[w] = "none"
    <3>1. Failed(c) \/ \A w \in Crew(c) : Ended(w) \/ worker[w] = "none"
      BY <2>1 DEF FuzzInv, Settled
    <3>2. QED
      BY <3>1, EndsStay, Crews DEF WorkersGoOn
  <2>2. QED
    BY <2>1 DEF Settled
<1>3. QED
  BY <1>1, <1>2 DEF FuzzInv

\* A step of the workers alone keeps that order.
LEMMA WorkersStep ==
  ASSUME FuzzInv, WorkersGoOn, CampaignsTyped', WorkersTyped', VMFollows', VerdictsTell',
         UNCHANGED <<campaign, loop>>
  PROVE  FuzzInv'
<1>1. LoopEnds'
  BY EndsStay DEF FuzzInv, LoopEnds, FuzzRunning, WorkersGoOn
<1>2. QED
  BY <1>1, LoopMoves

\* Workers that go on leave what their campaigns' verdicts say true.
LEMMA VerdictsStay ==
  ASSUME VerdictsTell, WorkersGoOn,
         \A c \in Campaigns : verdict'[c] \in {verdict[c], "cancelled"}
  PROVE  VerdictsTell'
<1>1. ASSUME NEW c \in Campaigns, verdict'[c] = "done" PROVE \A w \in Crew(c) : Ended(w)'
  BY <1>1, EndsStay, Crews DEF VerdictsTell
<1>2. ASSUME NEW c \in Campaigns, verdict'[c] = "error" PROVE Failed(c)'
  BY <1>2, EndsStay, Crews DEF VerdictsTell
<1>3. QED
  BY <1>1, <1>2 DEF VerdictsTell

\* Cancelling workers, once or again, leaves those alone that have ended, and never
\* leaves one without a signal that its VM needs.
LEMMA TellKeeps ==
  ASSUME NEW W, Tell(W), WorkersTyped, VMFollows
  PROVE  WorkersTyped' /\ VMFollows' /\ WorkersGoOn
<1>1. WorkersTyped'
  BY DEF Tell, WorkersTyped, WorkerStates, VMStates
<1>2. WorkersGoOn
  BY DEF Tell, WorkersTyped, WorkerStates, WorkerEndings, WorkersGoOn, Ended
<1>3. VMFollows'
  BY DEF Tell, WorkersTyped, WorkerStates, WorkerEndings, VMFollows
<1>4. QED
  BY <1>1, <1>2, <1>3

\* A worker that ends is one that had not, and its campaign's verdict says how it ended
\* or nothing.
LEMMA EndKeeps ==
  ASSUME FuzzInv, NEW w \in Workers, NEW ending \in WorkerEndings, EndWorker(w, ending),
         UNCHANGED <<campaign, upkeep, loop, vm>>,
         worker[w] \notin WorkerEndings \cup {"none"},
         ending = "returned" => vm[w] = "gone",
         ending = "cancelled" => vm[w] \in {"none", "killed", "gone"}
  PROVE  FuzzInv'
<1>1. worker' = [worker EXCEPT ![w] = ending]
  BY DEF EndWorker
<1>2. WorkersTyped' /\ VMFollows' /\ WorkersGoOn
  BY <1>1 DEF FuzzInv, WorkersTyped, WorkerStates, WorkerEndings, VMFollows, WorkersGoOn, Ended
<1>3. CampaignsTyped'
  BY DEF FuzzInv, CampaignsTyped, EndWorker
<1>4. VerdictsTell'
  <2> DEFINE c == w[1]
  <2>1. c \in Campaigns /\ w \in Crew(c)
    BY Crews
  <2>2. CASE verdict' = verdict \/ verdict' = [verdict EXCEPT ![c] = "cancelled"]
    BY <2>2, <1>2, VerdictsStay DEF FuzzInv, CampaignsTyped
  <2>3. CASE ending = "raised" /\ verdict' = [verdict EXCEPT ![c] = "error"]
    <3>1. Failed(c)'
      BY <2>1, <2>3, <1>1 DEF Failed, FuzzInv, WorkersTyped
    <3>2. ASSUME NEW d \in Campaigns \ {c} PROVE verdict'[d] = verdict[d]
      BY <2>3 DEF FuzzInv, CampaignsTyped
    <3>3. verdict'[c] = "error"
      BY <2>1, <2>3 DEF FuzzInv, CampaignsTyped
    <3>4. QED
      BY <3>1, <3>2, <3>3, <1>2, EndsStay, Crews DEF VerdictsTell, FuzzInv
  <2>4. CASE /\ \A x \in Crew(c) \ {w} : Ended(x)
             /\ verdict' = [verdict EXCEPT ![c] = "done"]
    <3>1. \A x \in Crew(c) : Ended(x)'
      <4>1. Ended(w)'
        BY <1>1 DEF Ended, FuzzInv, WorkersTyped
      <4>2. QED
        BY <4>1, <2>4, <2>1, <1>2, EndsStay, Crews
    <3>2. ASSUME NEW d \in Campaigns \ {c} PROVE verdict'[d] = verdict[d]
      BY <2>4 DEF FuzzInv, CampaignsTyped
    <3>3. verdict'[c] = "done"
      BY <2>1, <2>4 DEF FuzzInv, CampaignsTyped
    <3>4. QED
      BY <3>1, <3>2, <3>3, <1>2, EndsStay, Crews DEF VerdictsTell, FuzzInv
  <2>5. QED
    BY <2>2, <2>3, <2>4 DEF EndWorker
<1>5. QED
  BY <1>2, <1>3, <1>4, WorkersStep

\* One worker, and its VM, move on to where they may be.
LEMMA MoveKeeps ==
  ASSUME FuzzInv, NEW w \in Workers, NEW a \in WorkerStates \ (WorkerEndings \cup {"none", "created"}),
         NEW v \in VMStates,
         worker[w] \notin WorkerEndings \cup {"none"},
         worker' = [worker EXCEPT ![w] = a], vm' = [vm EXCEPT ![w] = v],
         UNCHANGED <<campaign, verdict, upkeep, loop>>,
         a = "booting" => v \in {"booting", "gone"},
         a = "fuzzing" => v \in {"up", "gone"},
         a = "told" => v \in {"none", "booting", "up", "gone"},
         a = "terminating" => v \in {"asked", "gone"},
         a \in {"killing", "dropped"} => v \in {"killed", "gone"}
  PROVE  FuzzInv'
<1>1. WorkersTyped' /\ WorkersGoOn
  BY DEF FuzzInv, WorkersTyped, WorkersGoOn, Ended
<1>2. VMFollows'
  <2>1. ASSUME NEW x \in Workers, x # w PROVE worker'[x] = worker[x] /\ vm'[x] = vm[x]
    BY <2>1 DEF FuzzInv, WorkersTyped
  <2>2. worker'[w] = a /\ vm'[w] = v
    BY DEF FuzzInv, WorkersTyped
  <2>3. QED
    BY <2>1, <2>2 DEF FuzzInv, VMFollows, WorkerStates, WorkerEndings
<1>3. CampaignsTyped' /\ VerdictsTell'
  BY <1>1, VerdictsStay DEF FuzzInv, CampaignsTyped
<1>4. QED
  BY <1>1, <1>2, <1>3, WorkersStep
-----------------------------------------------------------------------------
\* The cancellation of a campaign, wherever it is suspended.
LEMMA CancelKeeps ==
  ASSUME FuzzInv, NEW c \in Campaigns, CancelCampaign(c),
         upkeep' \subseteq Upkeep, loop' \in {"running", "closing"}
  PROVE  FuzzInv'
<1>1. CASE campaign[c] = "created" /\ campaign' = [campaign EXCEPT ![c] = "over"]
           /\ verdict' = [verdict EXCEPT ![c] = "cancelled"] /\ UNCHANGED <<worker, vm>>
  <2>1. CampaignsTyped' /\ WorkersTyped' /\ VMFollows'
    BY <1>1 DEF FuzzInv, CampaignsTyped, WorkersTyped, VMFollows, Places
  <2>2. /\ campaign'[c] = "over"
        /\ \A d \in Campaigns \ {c} : campaign'[d] = campaign[d]
    BY <1>1 DEF FuzzInv, CampaignsTyped
  <2>3. VerdictsTell' /\ WorkersGoOn
    BY <1>1, VerdictsStay DEF FuzzInv, CampaignsTyped, WorkersGoOn
  <2>4. CrewsBegin' /\ InTurn'
    BY <1>1, <2>2, Crews DEF FuzzInv, CrewsBegin, InTurn
  <2>5. Settled'
    <3>1. \A w \in Crew(c) : worker'[w] = "none"
      BY <1>1, Crews DEF FuzzInv, CrewsBegin
    <3>2. ASSUME NEW d \in Campaigns \ {c}, campaign'[d] \in {"leaving", "over"}
          PROVE  (Failed(d) \/ \A w \in Crew(d) : Ended(w) \/ worker[w] = "none")'
      BY <1>1, <2>2, <3>2 DEF FuzzInv, Settled, Failed, Ended
    <3>3. QED
      BY <3>1, <3>2 DEF Settled
  <2>6. QED
    BY <2>1, <2>3, <2>4, <2>5 DEF FuzzInv, LoopEnds
<1>2. CASE Tell(Crew(c)) /\ UNCHANGED <<campaign, verdict>>
  <2>1. WorkersTyped' /\ VMFollows' /\ WorkersGoOn
    BY <1>2, TellKeeps DEF FuzzInv
  <2>2. CampaignsTyped' /\ VerdictsTell'
    BY <1>2, <2>1, VerdictsStay DEF FuzzInv, CampaignsTyped
  <2>3. QED
    BY <1>2, <2>1, <2>2, LoopMoves DEF LoopEnds
<1>3. CASE verdict' = [verdict EXCEPT ![c] = "cancelled"] /\ UNCHANGED <<campaign, worker, vm>>
  <2>1. WorkersTyped' /\ VMFollows' /\ WorkersGoOn
    BY <1>3 DEF FuzzInv, WorkersTyped, VMFollows, WorkersGoOn
  <2>2. CampaignsTyped' /\ VerdictsTell'
    BY <1>3, <2>1, VerdictsStay DEF FuzzInv, CampaignsTyped
  <2>3. QED
    BY <1>3, <2>1, <2>2, LoopMoves DEF LoopEnds
<1>4. QED
  BY <1>1, <1>2, <1>3 DEF CancelCampaign

\* A coroutine goes on to where it may be, its workers going on as they may.
LEMMA CampaignMoves ==
  ASSUME FuzzInv, NEW c \in Campaigns, NEW place \in {"gathering", "draining", "leaving", "over"},
         campaign[c] \notin {"none", "created", "over"},
         campaign' = [campaign EXCEPT ![c] = place],
         UNCHANGED <<verdict, upkeep, loop>>,
         WorkersTyped', VMFollows', WorkersGoOn,
         place \in {"leaving", "over"} => Failed(c) \/ \A w \in Crew(c) : Ended(w) \/ worker[w] = "none"
  PROVE  FuzzInv'
<1>1. CampaignsTyped' /\ VerdictsTell'
  BY VerdictsStay DEF FuzzInv, CampaignsTyped, Places
<1>2. /\ campaign'[c] = place
      /\ \A d \in Campaigns \ {c} : campaign'[d] = campaign[d]
  BY DEF FuzzInv, CampaignsTyped
<1>3. CrewsBegin' /\ InTurn'
  BY <1>2, Crews DEF FuzzInv, CrewsBegin, InTurn, WorkersGoOn
<1>4. Settled'
  <2>1. ASSUME NEW d \in Campaigns, campaign'[d] \in {"leaving", "over"}
        PROVE  (Failed(d) \/ \A w \in Crew(d) : Ended(w) \/ worker[w] = "none")'
    <3>1. Failed(d) \/ \A w \in Crew(d) : Ended(w) \/ worker[w] = "none"
      BY <1>2, <2>1 DEF FuzzInv, Settled
    <3>2. QED
      BY <3>1, EndsStay, Crews DEF WorkersGoOn
  <2>2. QED
    BY <2>1 DEF Settled
<1>5. LoopEnds'
  BY EndsStay DEF FuzzInv, LoopEnds, FuzzRunning, WorkersGoOn
<1>6. QED
  BY <1>1, <1>3, <1>4, <1>5 DEF FuzzInv

-----------------------------------------------------------------------------
LEMMA FuzzInvInit == FuzzInit => FuzzInv
BY Crews DEF FuzzInit, FuzzInv, CampaignsTyped, WorkersTyped, VMFollows, CrewsBegin, InTurn, VerdictsTell,
   Settled, LoopEnds, Places, WorkerStates, VMStates, WorkerEndings, Upkeep

\* Every step of the campaigns, their workers, the upkeep and the process keeps the
\* invariant.
LEMMA FuzzInvNext == FuzzInv /\ [FuzzNext]_fuzzVars => FuzzInv'
<1> SUFFICES ASSUME FuzzInv, [FuzzNext]_fuzzVars PROVE FuzzInv'
  OBVIOUS
<1>1. ASSUME UNCHANGED <<campaign, verdict, worker, vm>>,
             upkeep' \subseteq Upkeep,
             loop' = loop \/ loop' = "closing"
      PROVE  FuzzInv'
  <2>1. CampaignsTyped' /\ WorkersTyped' /\ VMFollows' /\ CrewsBegin' /\ InTurn'
    BY <1>1 DEF FuzzInv, CampaignsTyped, WorkersTyped, VMFollows, CrewsBegin, InTurn
  <2>2. VerdictsTell' /\ Settled' /\ LoopEnds'
    BY <1>1 DEF FuzzInv, VerdictsTell, Settled, LoopEnds, Failed, Ended, FuzzRunning
  <2>3. QED
    BY <2>1, <2>2 DEF FuzzInv
<1>2. CASE UNCHANGED fuzzVars
  BY <1>1, <1>2 DEF fuzzVars, FuzzInv, CampaignsTyped
<1>3. ASSUME NEW c \in Campaigns, StartFuzz(c) PROVE FuzzInv'
  <2>1. /\ campaign'[c] = "created"
        /\ \A d \in Campaigns \ {c} : campaign'[d] = campaign[d]
        /\ UNCHANGED <<verdict, worker, vm, upkeep, loop>>
    BY <1>3 DEF StartFuzz, FuzzInv, CampaignsTyped
  <2>2. CampaignsTyped' /\ WorkersTyped' /\ VMFollows'
    BY <1>3, <2>1 DEF StartFuzz, FuzzInv, CampaignsTyped, WorkersTyped, VMFollows, Places
  <2>3. CrewsBegin'
    BY <1>3, <2>1, Crews DEF StartFuzz, FuzzInv, CrewsBegin
  <2>4. InTurn'
    <3>1. ASSUME NEW b \in Campaigns, NEW d \in Campaigns, b < d, campaign'[d] # "none"
          PROVE  campaign'[b] = "over"
      <4>1. CASE d = c
        BY <3>1, <4>1, <1>3, <2>1 DEF StartFuzz, FuzzRunning, Campaigns
      <4>2. CASE d # c
        BY <3>1, <4>2, <1>3, <2>1 DEF StartFuzz, FuzzInv, InTurn
      <4>3. QED
        BY <4>1, <4>2
    <3>2. QED
      BY <3>1 DEF InTurn
  <2>5. VerdictsTell' /\ Settled'
    BY <2>1 DEF FuzzInv, VerdictsTell, Settled, Failed, Ended
  <2>6. LoopEnds'
    BY <1>3 DEF StartFuzz, LoopEnds
  <2>7. QED
    BY <2>2, <2>3, <2>4, <2>5, <2>6 DEF FuzzInv
<1>4. ASSUME NEW c \in Campaigns, StopFuzz(c) PROVE FuzzInv'
  BY <1>4, CancelKeeps DEF StopFuzz, FuzzInv, CampaignsTyped
<1>5. ASSUME NEW c \in Campaigns, BeginCampaign(c) PROVE FuzzInv'
  <2>1. /\ campaign'[c] = "gathering"
        /\ \A d \in Campaigns \ {c} : campaign'[d] = campaign[d]
        /\ UNCHANGED <<verdict, vm, upkeep, loop>>
    BY <1>5 DEF BeginCampaign, FuzzInv, CampaignsTyped
  <2>2. /\ \A w \in Workers : w[1] = c => worker[w] = "none" /\ worker'[w] = "created"
        /\ \A w \in Workers : w[1] # c => worker'[w] = worker[w]
    BY <1>5, Crews DEF BeginCampaign, FuzzInv, CrewsBegin
  <2>3. CampaignsTyped' /\ WorkersTyped'
    BY <1>5 DEF BeginCampaign, FuzzInv, CampaignsTyped, WorkersTyped, Places, WorkerStates
  <2>4. VMFollows'
    BY <2>1, <2>2, <2>3 DEF FuzzInv, VMFollows, WorkersTyped, WorkerStates, WorkerEndings
  <2>5. CrewsBegin' /\ InTurn'
    BY <1>5, <2>1, <2>2, Crews DEF BeginCampaign, FuzzInv, CrewsBegin, InTurn
  <2>6. VerdictsTell'
    <3>1. \A w \in Workers : Ended(w) => Ended(w)'
      BY <2>2 DEF Ended, WorkerEndings
    <3>2. \A d \in Campaigns : Failed(d) => Failed(d)'
      BY <2>2, Crews DEF Failed
    <3>3. QED
      BY <2>1, <3>1, <3>2, Crews DEF VerdictsTell, FuzzInv
  <2>7. Settled'
    <3>1. ASSUME NEW d \in Campaigns, campaign'[d] \in {"leaving", "over"}
          PROVE  (Failed(d) \/ \A w \in Crew(d) : Ended(w) \/ worker[w] = "none")'
      <4>1. d # c /\ (Failed(d) \/ \A w \in Crew(d) : Ended(w) \/ worker[w] = "none")
        BY <2>1, <3>1 DEF FuzzInv, Settled
      <4>2. \A w \in Crew(d) : worker'[w] = worker[w]
        BY <4>1, <2>2, Crews
      <4>3. QED
        BY <4>1, <4>2 DEF Failed, Ended
    <3>2. QED
      BY <3>1 DEF Settled
  <2>8. LoopEnds'
    BY <1>5, <2>1 DEF BeginCampaign, FuzzInv, LoopEnds, FuzzRunning, CampaignsTyped
  <2>9. QED
    BY <2>3, <2>4, <2>5, <2>6, <2>7, <2>8 DEF FuzzInv
<1>6. ASSUME NEW c \in Campaigns, Resume(c) PROVE FuzzInv'
  <2>1. CASE campaign' = [campaign EXCEPT ![c] = "draining"] /\ Tell(Crew(c))
    BY <1>6, <2>1, TellKeeps, CampaignMoves DEF Resume, FuzzInv
  <2>2. CASE verdict[c] \in {"done", "error"} /\ campaign' = [campaign EXCEPT ![c] = Leaving]
             /\ UNCHANGED <<worker, vm>>
    <3>1. WorkersTyped' /\ VMFollows' /\ WorkersGoOn
      BY <2>2 DEF FuzzInv, WorkersTyped, VMFollows, WorkersGoOn
    <3>2. Failed(c) \/ \A w \in Crew(c) : Ended(w)
      BY <2>2 DEF FuzzInv, VerdictsTell
    <3>3. QED
      BY <1>6, <2>2, <3>1, <3>2, CampaignMoves DEF Resume, Leaving
  <2>3. QED
    BY <1>6, <2>1, <2>2 DEF Resume
<1>7. ASSUME NEW c \in Campaigns, Drained(c) \/ MonitorGone(c) PROVE FuzzInv'
  <2>1. WorkersTyped' /\ VMFollows' /\ WorkersGoOn
    BY <1>7 DEF Drained, MonitorGone, FuzzInv, WorkersTyped, VMFollows, WorkersGoOn
  <2>2. CASE Drained(c)
    BY <2>1, <2>2, CampaignMoves DEF Drained, Leaving
  <2>3. CASE MonitorGone(c)
    BY <2>1, <2>3, CampaignMoves DEF MonitorGone, FuzzInv, Settled
  <2>4. QED
    BY <1>7, <2>2, <2>3
<1>8. ASSUME NEW w \in Workers,
             Boot(w) \/ Connect(w) \/ VMExits(w) \/ SeeExit(w) \/ LogFails(w)
             \/ Unwind(w) \/ GraceOver(w) \/ Reaped(w)
      PROVE  FuzzInv'
  <2>0. /\ worker[w] \in WorkerStates /\ vm[w] \in VMStates
        /\ worker = [worker EXCEPT ![w] = worker[w]] /\ vm = [vm EXCEPT ![w] = vm[w]]
    BY DEF FuzzInv, WorkersTyped
  <2>1. CASE Boot(w)
    BY <1>8, <2>1, MoveKeeps, EndKeeps DEF Boot, WorkerStates, WorkerEndings, VMStates
  <2>2. CASE Connect(w)
    <3>1. vm[w] \in {"booting", "gone"}
      BY <2>2 DEF Connect, FuzzInv, VMFollows
    <3>2. PICK v \in {"up", "gone"} : vm' = [vm EXCEPT ![w] = v]
      BY <2>2, <3>1 DEF Connect
    <3>3. QED
      BY <2>2, <3>2, MoveKeeps DEF Connect, WorkerStates, WorkerEndings, VMStates
  <2>3. CASE VMExits(w)
    <3>1. /\ vm'[w] = "gone" /\ \A x \in Workers \ {w} : vm'[x] = vm[x]
          /\ vm' \in [Workers -> VMStates]
      BY <2>3 DEF VMExits, FuzzInv, WorkersTyped, VMStates
    <3>2. WorkersTyped' /\ WorkersGoOn /\ VMFollows'
      BY <2>3, <3>1 DEF VMExits, FuzzInv, WorkersTyped, VMFollows, WorkersGoOn
    <3>3. CampaignsTyped' /\ VerdictsTell'
      BY <2>3, <3>2, VerdictsStay DEF VMExits, FuzzInv, CampaignsTyped
    <3>4. QED
      BY <2>3, <3>2, <3>3, WorkersStep DEF VMExits
  <2>4. CASE SeeExit(w)
    BY <2>4, EndKeeps DEF SeeExit, WorkerEndings
  <2>5. CASE LogFails(w)
    BY <2>5, EndKeeps DEF LogFails, WorkerEndings
  <2>6. CASE Unwind(w)
    <3>1. CASE vm[w] = "none" /\ EndWorker(w, "cancelled") /\ UNCHANGED vm
      BY <2>6, <3>1, EndKeeps DEF Unwind, WorkerEndings
    <3>2. CASE worker' = [worker EXCEPT ![w] = "killing"] /\ vm' = [vm EXCEPT ![w] = "killed"]
               /\ UNCHANGED verdict
      BY <2>6, <3>2, MoveKeeps DEF Unwind, WorkerStates, WorkerEndings, VMStates
    <3>3. CASE /\ vm[w] \in {"up", "gone"} /\ UNCHANGED verdict
               /\ worker' = [worker EXCEPT ![w] = "terminating"]
               /\ vm' = [vm EXCEPT ![w] = IF @ = "up" THEN "asked" ELSE @]
      <4>1. PICK v \in {"asked", "gone"} : vm' = [vm EXCEPT ![w] = v]
        BY <3>3
      <4>2. QED
        BY <2>6, <3>3, <4>1, MoveKeeps DEF Unwind, WorkerStates, WorkerEndings, VMStates
    <3>4. QED
      BY <2>6, <3>1, <3>2, <3>3 DEF Unwind
  <2>7. CASE GraceOver(w)
    BY <2>7, MoveKeeps DEF GraceOver, WorkerStates, WorkerEndings, VMStates
  <2>8. CASE Reaped(w)
    <3>1. vm[w] \in {"killed", "gone"}
      BY <2>8 DEF Reaped, FuzzInv, VMFollows
    <3>2. QED
      BY <2>8, <3>1, EndKeeps DEF Reaped, WorkerEndings
  <2>9. QED
    BY <1>8, <2>1, <2>2, <2>3, <2>4, <2>5, <2>6, <2>7, <2>8
<1>9. ASSUME NEW kind \in Upkeep, StartUpkeep(kind) \/ EndUpkeep(kind) PROVE FuzzInv'
  BY <1>1, <1>9 DEF StartUpkeep, EndUpkeep, FuzzInv, CampaignsTyped
<1>10. CASE Shutdown
  BY <1>1, <1>10, CancelKeeps DEF Shutdown, FuzzInv, CampaignsTyped
<1>11. CASE CancelRest
  <2>1. WorkersTyped' /\ VMFollows' /\ WorkersGoOn
    BY <1>11, TellKeeps DEF CancelRest, FuzzInv
  <2>2. CampaignsTyped' /\ VerdictsTell'
    BY <1>11, <2>1, VerdictsStay DEF CancelRest, FuzzInv, CampaignsTyped
  <2>3. ~FuzzRunning'
    BY <1>11 DEF CancelRest, FuzzRunning
  <2>4. QED
    BY <1>11, <2>1, <2>2, <2>3, LoopMoves DEF CancelRest, LoopEnds
<1>12. CASE Exit
  <2>1. WorkersTyped' /\ VMFollows' /\ WorkersGoOn
    BY <1>12 DEF Exit, FuzzInv, WorkersTyped, VMFollows, WorkersGoOn
  <2>2. CampaignsTyped' /\ VerdictsTell'
    BY <1>12, <2>1, VerdictsStay DEF Exit, FuzzInv, CampaignsTyped
  <2>3. LoopEnds'
    BY <1>12 DEF Exit, FuzzInv, LoopEnds, FuzzRunning, Ended
  <2>4. QED
    BY <1>12, <2>1, <2>2, <2>3, LoopMoves DEF Exit
<1>13. QED
  BY <1>2, <1>3, <1>4, <1>5, <1>6, <1>7, <1>8, <1>9, <1>10, <1>11, <1>12 DEF FuzzNext

-----------------------------------------------------------------------------
\* A VM whose worker has ended, and not with an exception of its own, cannot write.
LEMMA EndedIsQuiet ==
  ASSUME FuzzInv, NEW w \in Workers, Ended(w) \/ worker[w] = "none", worker[w] # "raised"
  PROVE  ~Alive(w)
BY DEF FuzzInv, VMFollows, Ended, WorkerEndings, Alive

\* For any number of campaigns and instances: every reachable state of the campaigns,
\* workers, VMs and upkeep tasks is well typed, and each VM is where the point that its
\* worker has reached in run_fuzz() lets it be.
THEOREM FuzzTypeCorrect == FuzzSpec => []FuzzTypeOK
<1>1. FuzzInv => FuzzTypeOK
  BY DEF FuzzInv, CampaignsTyped, WorkersTyped, VMFollows, FuzzTypeOK, Places, WorkerStates, VMStates
<1>2. QED
  BY <1>1, FuzzInvInit, FuzzInvNext, PTL DEF FuzzSpec

\* For any number of campaigns and instances, stopped at any points: when the fuzz task of a
\* campaign is over and none of its workers has failed, none of its VMs can still write.
THEOREM OverIsQuiet == FuzzSpec => []OverMeansQuiet
<1>1. FuzzInv => OverMeansQuiet
  <2> SUFFICES ASSUME FuzzInv, NEW c \in Campaigns, campaign[c] = "over", ~Failed(c), NEW w \in Crew(c)
               PROVE  ~Alive(w)
    BY DEF OverMeansQuiet
  <2>1. Ended(w) \/ worker[w] = "none"
    BY DEF FuzzInv, Settled
  <2>2. QED
    BY <2>1, Crews, EndedIsQuiet DEF Failed
<1>2. QED
  BY <1>1, FuzzInvInit, FuzzInvNext, PTL DEF FuzzSpec

\* For any number of campaigns and instances: the VMs of two campaigns, which share the
\* project's outputs, overlap only after a worker of the earlier campaign has failed.
THEOREM CampaignsKeepApart == FuzzSpec => []CampaignsDoNotOverlap
<1>1. FuzzInv => CampaignsDoNotOverlap
  <2> SUFFICES ASSUME FuzzInv, NEW w \in Workers, NEW x \in Workers, w[1] < x[1],
                      Alive(w), Alive(x), ~Failed(w[1])
               PROVE  FALSE
    BY DEF CampaignsDoNotOverlap
  <2>1. worker[x] # "none"
    BY DEF FuzzInv, VMFollows, Alive
  <2>2. campaign[x[1]] # "none"
    BY <2>1, Crews DEF FuzzInv, CrewsBegin
  <2>3. campaign[w[1]] = "over"
    BY <2>2, Crews DEF FuzzInv, InTurn
  <2>4. Ended(w) \/ worker[w] = "none"
    BY <2>3, Crews DEF FuzzInv, Settled
  <2>5. QED
    BY <2>4, Crews, EndedIsQuiet DEF Failed
<1>2. QED
  BY <1>1, FuzzInvInit, FuzzInvNext, PTL DEF FuzzSpec

\* For any number of campaigns and instances, wherever they are when the server is stopped:
\* once its process has exited no VM survives it but one whose worker failed.
THEOREM NoVMLeftBehind == FuzzSpec => []ExitLeavesNoVM
<1>1. FuzzInv => ExitLeavesNoVM
  BY EndedIsQuiet DEF ExitLeavesNoVM, FuzzInv, LoopEnds
<1>2. QED
  BY <1>1, FuzzInvInit, FuzzInvNext, PTL DEF FuzzSpec

=============================================================================
