--------------------------- MODULE MCSessionStreams ---------------------------
(* What the clients of a session are sent, in two scenes that differ in what *)
(* users and the child do: output that overflows queues and truncates the    *)
(* replay, with connections that drain; or little output, connections that   *)
(* do not drain, and the end of the process or a close at any point.         *)
EXTENDS MCSessionRuntime

OutputScene == alive /\ \A k \in Closers : closer[k] = "idle"
EndScene    == produced <= 1 /\ \A c \in Clients : sent[c] = 0

InScene == OutputScene \/ EndScene
=============================================================================
