------------------------------ MODULE LldbDriver ------------------------------
(***************************************************************************)
(* src/helpers/lldb_analyze.py, the program that the analysis of an        *)
(* artifact runs in the LLDB image: it loads a core, or launches the       *)
(* harness on an input or Python on a script and waits for it to stop, and *)
(* writes what it found, or what went wrong, to the output file.           *)
(***************************************************************************)
EXTENDS Naturals, Sequences

CONSTANTS Timeout,    \* RUN_TIMEOUT_S
          MaxEvents,  \* bound: events that the process causes
          Sessions    \* what is analyzed, and how: see Session

\* A core, an input or a script; on a terminal; through mem_limit_exec, which execs the
\* program and so stops at an exec first.
Session == [core : BOOLEAN, interactive : BOOLEAN, limited : BOOLEAN]

ASSUME LldbAssumption == Timeout \in Nat /\ MaxEvents \in Nat /\ Sessions \subseteq Session

VARIABLES session, driver, process, events, caused, clock, output

lldbVars == <<session, driver, process, events, caused, clock, output>>

LldbInit ==
  /\ session \in Sessions
  /\ driver = "create"
  /\ process = "none"
  /\ events = <<>> /\ caused = 0 /\ clock = 0
  /\ output = "unwritten"

\* main() writes whatever run() returned or raised; a terminal session writes nothing.
Writes(what) == output' = IF session.interactive THEN output ELSE what

\* CreateTarget() fails: an error text; import or another call raises: a traceback.
NoTarget ==
  /\ driver = "create"
  /\ driver' = "ended"
  /\ \E what \in {"error", "traceback"} : Writes(what)
  /\ UNCHANGED <<session, process, events, caused, clock>>

LoadCore ==
  /\ driver = "create" /\ session.core
  /\ driver' = "ended"
  /\ \/ process' = "core" /\ Writes("diagnostics")
     \/ process' = "none" /\ Writes("error")
  /\ UNCHANGED <<session, events, caused, clock>>

Launch ==
  /\ driver = "create" /\ ~session.core
  /\ \/ /\ process' = IF session.limited THEN "limiter" ELSE "running"
        /\ driver' = "waiting"
        /\ UNCHANGED output
     \/ /\ driver' = "ended" /\ Writes("error")
        /\ UNCHANGED process
  /\ UNCHANGED <<session, events, caused, clock>>

\* The process stops at its exec, for a signal, or exits.
Cause(event, now) ==
  /\ caused < MaxEvents
  /\ caused' = caused + 1
  /\ events' = Append(events, event) /\ process' = now
  /\ UNCHANGED <<session, driver, clock, output>>

ProcessMoves ==
  \/ process = "limiter" /\ Cause("stopped", "atexec")
  \/ process = "running" /\ (Cause("stopped", "stopped") \/ Cause("exited", "exited"))
  \/ process \in {"running", "limiter"} /\ Cause("other", process)

\* One turn of the wait: an event, or none for as long as WaitForEvent() waits.
HandleEvent ==
  /\ driver = "waiting" /\ events # <<>> /\ clock < Timeout
  /\ events' = Tail(events)
  /\ \/ /\ Head(events) = "stopped" /\ process = "atexec"  \* continued
        /\ process' = "running" /\ UNCHANGED <<driver, output>>
     \/ /\ Head(events) = "stopped" /\ process # "atexec"
        /\ driver' = "ended" /\ Writes("diagnostics") /\ UNCHANGED process
     \/ /\ Head(events) = "exited"
        /\ driver' = "ended" /\ Writes("clean") /\ UNCHANGED process
     \/ /\ Head(events) = "other" /\ UNCHANGED <<driver, output, process>>
  /\ UNCHANGED <<session, caused, clock>>

Wait ==
  /\ driver = "waiting" /\ events = <<>> /\ clock < Timeout
  /\ clock' = clock + 1
  /\ UNCHANGED <<session, driver, process, events, caused, output>>

\* The deadline ends the process and writes nothing.
TimeOutSilently ==
  /\ driver = "waiting" /\ clock >= Timeout
  /\ process' = IF process = "exited" THEN process ELSE "killed"
  /\ driver' = "ended"
  /\ UNCHANGED <<session, events, caused, clock, output>>

\* The deadline is looked at before the events that are waiting.
TimeOut ==
  /\ driver = "waiting" /\ clock >= Timeout
  /\ process' = IF process = "exited" THEN process ELSE "killed"
  /\ driver' = "ended" /\ Writes("error")
  /\ UNCHANGED <<session, events, caused, clock>>

Drive == NoTarget \/ LoadCore \/ Launch \/ HandleEvent \/ Wait \/ TimeOut

Lldb == Drive \/ ProcessMoves

LldbSpec == LldbInit /\ [][Lldb]_lldbVars

-----------------------------------------------------------------------------
LldbTypeOK ==
  /\ session \in Sessions /\ driver \in {"create", "waiting", "ended"}
  /\ process \in {"none", "core", "limiter", "atexec", "running", "stopped", "exited", "killed"}
  /\ clock \in 0 .. Timeout /\ caused \in 0 .. MaxEvents
  /\ output \in {"unwritten", "error", "traceback", "clean", "diagnostics"}

\* Registers and stacks are only shown of a process that has stopped for good, never of the
\* program that sets the memory limit, and a process that exited is not called a crash.
DiagnosesTheCrash ==
  /\ output = "diagnostics" => process \in {"core", "stopped"}
  /\ output = "clean" => process = "exited"

\* What a driver that waits for the process must come to (the deadline of run()): its end,
\* with the output file of an analysis.
DriverWaits == driver = "waiting"
DriverOver == driver = "ended" /\ (output = "unwritten" <=> session.interactive)
=============================================================================
