--------------------------- MODULE MCTaskManager ---------------------------
(***************************************************************************)
(* TLC instance of TaskManager: see MCTaskManager.cfg for the bounds.  The *)
(* requests are those of Handlers; analyze-all and classify-all differ     *)
(* from fuzz in their key alone and are left out.                          *)
(***************************************************************************)
EXTENDS TaskManager

H == INSTANCE Handlers

ModelRequests == H!HandlerRequests \ {H!AnalyzeAll, H!ClassifyAll}
ModelKeys == {req.key : req \in ModelRequests} \ {NoKey}
=============================================================================
