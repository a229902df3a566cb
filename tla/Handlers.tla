------------------------------ MODULE Handlers ------------------------------
(***************************************************************************)
(* The work the dashboard's request handlers hand to TaskManager for one   *)
(* project (src/src/pfui/handlers.py): which exclusive key it holds,       *)
(* whether it is a thread, and whether the request stays open until it is  *)
(* over (run_tracked) or is answered at once (start).  Validation of the   *)
(* parameters, and the guards that look at a running fuzz task             *)
(* (FuzzSession), come before and start nothing.                           *)
(***************************************************************************)
CONSTANT NoKey

Background(key) == [key |-> key, threadBacked |-> FALSE, tracked |-> FALSE]
WaitedFor(key) == [key |-> key, threadBacked |-> FALSE, tracked |-> TRUE]

Fuzz == Background("fuzz")
Build == Background(NoKey)
Clean == [key |-> NoKey, threadBacked |-> TRUE, tracked |-> FALSE]
AnalyzeAll == Background("analyze-all")
ClassifyAll == Background("classify-all")
Lldb == WaitedFor(NoKey)
Analyze == WaitedFor(NoKey)
AskLlm == WaitedFor("ask-llm")

HandlerKeys == {"fuzz", "analyze-all", "classify-all", "ask-llm"}
HandlerRequests ==
  {Fuzz, Build, Clean, AnalyzeAll, ClassifyAll, Lldb, Analyze, AskLlm}
=============================================================================
