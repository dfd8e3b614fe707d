--------------------------- MODULE SessionLifecycle ---------------------------
(***************************************************************************)
(* What the registry promises of the sessions (spec 20260623-session-rerun *)
(* and claimSessionStart): a session is being launched by one request, or  *)
(* has one live process, or neither; a process is the live process of one  *)
(* session, once.  Requests, records, the maps and the order of the writes *)
(* are left to SessionRegistry.                                            *)
(***************************************************************************)
CONSTANTS Sessions, Processes, None

VARIABLES
  starting,  \* the sessions being launched
  live,      \* the live process of each session
  ran        \* the processes each session has had

lifecycle == <<starting, live, ran>>

Init ==
  /\ starting = {}
  /\ live = [s \in Sessions |-> None]
  /\ ran = [s \in Sessions |-> {}]

\* A session at rest is launched.
Launch(s) ==
  /\ s \notin starting /\ live[s] = None
  /\ starting' = starting \cup {s}
  /\ UNCHANGED <<live, ran>>

\* The launch brings a process that no session has had.
Run(s, p) ==
  /\ s \in starting /\ \A t \in Sessions : p \notin ran[t]
  /\ starting' = starting \ {s}
  /\ live' = [live EXCEPT ![s] = p]
  /\ ran' = [ran EXCEPT ![s] = @ \cup {p}]

\* The launch fails.
Abandon(s) ==
  /\ s \in starting
  /\ starting' = starting \ {s}
  /\ UNCHANGED <<live, ran>>

\* The process has ended.
End(s) ==
  /\ live[s] # None
  /\ live' = [live EXCEPT ![s] = None]
  /\ UNCHANGED <<starting, ran>>

\* The Agent starts again, and knows of no process and of no launch.
Restart ==
  /\ starting' = {}
  /\ live' = [s \in Sessions |-> None]
  /\ UNCHANGED ran

Next ==
  \/ \E s \in Sessions : Launch(s) \/ Abandon(s) \/ End(s) \/ \E p \in Processes : Run(s, p)
  \/ Restart

Spec == Init /\ [][Next]_lifecycle
=============================================================================
