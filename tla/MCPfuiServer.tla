---------------------------- MODULE MCPfuiServer ----------------------------
(***************************************************************************)
(* TLC instance of PfuiServer: see MCPfuiServer.cfg for the bounds.  Keys  *)
(* and threads make no difference to what is sent, so one kind of request  *)
(* is enough: artifact.runLldb, which has no key and stays open.           *)
(***************************************************************************)
EXTENDS PfuiServer

H == INSTANCE Handlers

LldbRequests == {H!Lldb}
=============================================================================
