----------------------------- MODULE MCLspWorker -----------------------------
(* Model checking of LspWorker with a server that only has its diagnostics *)
(* pulled, one that publishes them and answers positions, and one that     *)
(* documents cannot be synchronized with.                                  *)
EXTENDS LspWorker, TLC

PullServer == [supports |-> {"diagnostics"}, sync |-> TRUE, pull |-> TRUE]
PushServer == [supports |-> Operations, sync |-> TRUE, pull |-> FALSE]
PoorServer == [supports |-> {"position"}, sync |-> FALSE, pull |-> FALSE]

MCCapabilities == {PullServer, PushServer, PoorServer}
=============================================================================
