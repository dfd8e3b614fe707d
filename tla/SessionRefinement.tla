-------------------------- MODULE SessionRefinement --------------------------
(***************************************************************************)
(* SessionRuntime implements TerminalControl.  The line is clientOrder     *)
(* while there are live clients: after waitLoop took the map, clientOrder  *)
(* and controllerClientId keep values that nobody reads any more, and a    *)
(* controller reserved by an attach is private until it is published.      *)
(***************************************************************************)
EXTENDS SessionProperties

lineOf   == IF clients = {} THEN <<>> ELSE order
holderOf == IF clients = {} THEN NoClient ELSE controller

Control == INSTANCE TerminalControl
             WITH Nobody <- NoClient, line <- lineOf, holder <- holderOf, up <- ~closed

\* Every step of the runtime is a step of the abstract session, or changes nothing of
\* it: control and arrival order survive the reservation of an attach in progress, the
\* second check of closed, promotions and the end of the process.
ImplementsControl == Control!Spec
=============================================================================
