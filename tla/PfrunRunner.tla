------------------------------ MODULE PfrunRunner ------------------------------
(***************************************************************************)
(* How a run of pfrun ends (src/pfrun/runner/main.swift).  The guest       *)
(* (images/base/build/pfm-run) prints a status on the console and powers   *)
(* off; a relay thread takes that line out of the output and hands the     *)
(* status to the main queue, on which the VM's stop, the timeout and what  *)
(* follows it arrive too.  Blocks of the main queue run one at a time, in  *)
(* their order.  The status printed is not always the command's.           *)
(***************************************************************************)
EXTENDS Naturals, Sequences, FiniteSets

CONSTANTS
  Codes      \* statuses of the command, 0 among them

ASSUME CodesAssumption == Codes \subseteq 0 .. 255

VARIABLES
  guest,     \* the VM: booting, running, printed its status, off, failed
  command,   \* the status of the command
  interactive,  \* pfrun --interactive
  strict,    \* whether the setup file that the guest sources says "set -e"
  reported,  \* the status the guest has printed, NoStatus until then
  relay,     \* the status line: nowhere, in the pipe, posted
  queue,     \* the main queue
  timer,     \* whether a timeout was asked for, and where it is
  exitCodeOnStop,
  exited     \* the process' exit code, NotExited until then

requested == <<command, interactive, strict>>
pfrunVars == <<guest, requested, reported, relay, queue, timer, exitCodeOnStop, exited>>

NotExited == 999
NoStatus == 999
Timers == {"never", "unarmed", "armed", "stopping", "expired"}

PfrunInit ==
  /\ guest = "booting" /\ command \in Codes /\ relay = "none" /\ queue = <<>>
  /\ interactive \in BOOLEAN /\ strict \in BOOLEAN /\ reported = NoStatus
  /\ timer \in {"never", "unarmed"}
  /\ exitCodeOnStop = 0 /\ exited = NotExited

Post(block) == queue' = Append(queue, block)

\* vm.start(): on failure the process exits at once.
GuestStarts ==
  /\ guest = "booting"
  /\ \/ /\ guest' = "running" /\ UNCHANGED exited
        /\ timer' = IF timer = "unarmed" THEN "armed" ELSE timer
     \/ guest' = "failed" /\ exited' = 1 /\ UNCHANGED timer
  /\ UNCHANGED <<requested, reported, relay, queue, exitCodeOnStop>>

\* do_poweroff(), on the script's exit.  cmd_status is 1 until it is assigned: a setup step
\* or a command that fails under "set -e" ends the script before.  Of an interactive command
\* it is the status of `kill ... || true` that is assigned.
GuestPrints ==
  /\ guest = "running"
  /\ guest' = "printed" /\ relay' = "pipe"
  /\ \/ strict /\ reported' = 1
     \/ (strict => command = 0) /\ reported' = IF interactive THEN 0 ELSE command
  /\ UNCHANGED <<requested, queue, timer, exitCodeOnStop, exited>>

\* It may also go down before the line is printed.
GuestStops ==
  /\ guest \in {"running", "printed"}
  /\ guest' = "off" /\ Post("guestDidStop")
  /\ UNCHANGED <<requested, reported, relay, timer, exitCodeOnStop, exited>>

\* startHvc0Relay(): a thread of its own.
Relay ==
  /\ relay = "pipe"
  /\ relay' = "posted" /\ Post("status")
  /\ UNCHANGED <<guest, requested, reported, timer, exitCodeOnStop, exited>>

TimerExpires ==
  /\ timer = "armed"
  /\ timer' = "expired" /\ Post("timeout")
  /\ UNCHANGED <<guest, requested, reported, relay, exitCodeOnStop, exited>>

\* stop() has completed, or two seconds are over.
StopCompletes ==
  /\ timer = "stopping"
  /\ \/ guest # "off" /\ guest' = "off" /\ UNCHANGED timer
     \/ UNCHANGED guest /\ timer' = "expired"
  /\ Post("finish124")
  /\ UNCHANGED <<requested, reported, relay, exitCodeOnStop, exited>>

\* The relay's status is dropped.
BlockWithoutStatus ==
  /\ queue # <<>>
  /\ queue' = Tail(queue)
  /\ LET b == Head(queue) IN
     /\ exitCodeOnStop' = IF b = "timeout" THEN 124 ELSE exitCodeOnStop
     /\ exited' = CASE b = "guestDidStop" -> exitCodeOnStop
                    [] b = "finish124" -> 124
                    [] b = "timeout" /\ guest = "off" -> 124
                    [] OTHER -> NotExited
     /\ timer' = IF b = "timeout" /\ guest # "off" THEN "stopping" ELSE timer
  /\ UNCHANGED <<guest, requested, reported, relay>>

\* finish(): nothing of the queue runs after it.
Block ==
  /\ queue # <<>>
  /\ queue' = Tail(queue)
  /\ LET b == Head(queue) IN
     /\ exitCodeOnStop' = CASE b = "status" -> reported [] b = "timeout" -> 124 [] OTHER -> exitCodeOnStop
     /\ exited' = CASE b = "guestDidStop" -> exitCodeOnStop
                    [] b = "finish124" -> 124
                    [] b = "timeout" /\ guest = "off" -> 124
                    [] OTHER -> NotExited
     /\ timer' = IF b = "timeout" /\ guest # "off" THEN "stopping" ELSE timer
  /\ UNCHANGED <<guest, requested, reported, relay>>

Pfrun ==
  /\ exited = NotExited
  /\ \/ GuestStarts \/ GuestPrints \/ GuestStops \/ Relay
     \/ TimerExpires \/ StopCompletes \/ Block

PfrunSpec == PfrunInit /\ [][Pfrun]_pfrunVars

-----------------------------------------------------------------------------
PfrunTypeOK ==
  /\ guest \in {"booting", "running", "printed", "off", "failed"}
  /\ command \in Codes /\ interactive \in BOOLEAN /\ strict \in BOOLEAN /\ timer \in Timers
  /\ reported \in Codes \cup {0, 1, NoStatus}
  /\ relay \in {"none", "pipe", "posted"}
  /\ \A i, j \in 1 .. Len(queue) : queue[i] = queue[j] /\ i # j => queue[i] = "finish124"
  /\ exitCodeOnStop \in Codes \cup {0, 1, 124}
  /\ exited \in Codes \cup {NotExited, 0, 1, 124}

\* The exit code is the command's, or says that the VM did not start, that the guest's
\* script ended before it knew the status, or that time was up.  A failed command is taken
\* for a success when the VM's stop was handled before the relay's status, for nothing
\* orders the two, and when it was interactive, for then its status is not kept.
ExitCodeTellsTruth ==
  exited # NotExited =>
    \/ exited = command
    \/ exited = 1 /\ guest = "failed"
    \/ exited = 1 /\ strict /\ reported = 1
    \/ exited = 124 /\ timer \in {"stopping", "expired"}
    \/ exited = 0 /\ interactive /\ reported = 0
    \/ exited = 0 /\ guest = "off" /\ (relay # "posted" \/ \E i \in 1 .. Len(queue) : queue[i] = "status")

\* What a run whose timeout is armed must come to: finish(), by the guest's end, by stop() or
\* after the time that stop() may take.
TimeoutWaits == timer = "armed"
RunOver == exited # NotExited
=============================================================================
