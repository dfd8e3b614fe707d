-------------------------- MODULE RegistryProperties --------------------------
(***************************************************************************)
(* What must hold of the registry of sessions and of their records         *)
(* (SessionRegistry): one launch and one runtime at a time, records that   *)
(* say what the processes do, no process that nobody can end.              *)
(***************************************************************************)
EXTENDS SessionRegistry

RequestPlaces == {"idle", "done",
  "claiming", "claimed", "launching", "started", "saved", "releasing", "failing", "failed",
  "closing", "waiting", "missing", "settling", "renaming", "editing", "checking",
  "listing", "loading", "probing", "reading", "exited", "stale"}
RequestKinds  == {"none", "create", "rerun", "close", "update", "delete", "list"}

MaybeSession == Sessions \cup {None}
MaybeProcess == Processes \cup {None}
MaybeMeta    == Metas \cup {None}

Runs     == [process : MaybeProcess, exit : MaybeProcess, state : Terminals \cup {"running"}]
Requests == [at : RequestPlaces, kind : RequestKinds, on : MaybeSession, copy : MaybeMeta,
             pid : MaybeProcess, todo : SUBSET Sessions]

StoreTypes ==
  /\ workspace \in BOOLEAN
  /\ row \in [Sessions -> {"absent", "present", "deleted"}]
  /\ runs \in [Sessions -> Seq(Runs)]
  /\ \A s \in Sessions : Present(s) => runs[s] # <<>>
  /\ meta \in [Sessions -> MaybeMeta]
MapTypes  == runtimes \in [Sessions -> MaybeProcess] /\ launching \subseteq Sessions
CallTypes == call \in [Calls -> Requests]
ProcessTypes ==
  /\ alive \subseteq Processes /\ hung \subseteq Processes
  /\ home \in [Processes -> MaybeSession] /\ held \in [Processes -> MaybeMeta]
  /\ waiter \in [Processes -> {"none", "waiting", "saved", "done", "lost"}]

\* Every variable has its type; a session that is there has a run.
TypeOK == StoreTypes /\ MapTypes /\ CallTypes /\ ProcessTypes /\ faults \in 0..MaxFaults

-----------------------------------------------------------------------------
(* Launches and runtimes *)

\* The calls between claimSessionStart and releaseSessionStart.
Unstarted == {k \in Calls : call[k].at \in {"claimed", "launching", "started", "saved", "failing"}}
Launchers == Unstarted \cup {k \in Calls : call[k].at = "releasing"}

\* A session is launched by one call at a time, and until that call has registered its
\* runtime the session has none: no process is started for a session that has one
\* (requirement 20260623; claimSessionStart).
OneLaunch ==
  /\ launching = {call[k].on : k \in Launchers}
  /\ \A j, k \in Launchers : call[j].on = call[k].on => j = k
  /\ \A k \in Unstarted : runtimes[call[k].on] = None

\* A registered runtime is that of the process its session's current run was begun for,
\* and stays registered until that process has ended and its exit was written: another
\* process's removeRuntime, which goes by the session, never takes it away.
RuntimeOwnsRun ==
  \A p \in Processes :
    waiter[p] \in {"waiting", "saved"} =>
      /\ runtimes[home[p]] = p
      /\ Present(home[p]) => Current(home[p]).process = p

\* Every process belongs to one run of one session; a run that is not the current one is
\* over; an exit is written to the run of the process that ended.
RunsAreApart ==
  \A s, t \in Sessions : \A i \in DOMAIN runs[s], j \in DOMAIN runs[t] :
    /\ runs[s][i].process # None /\ runs[s][i].process = runs[t][j].process => s = t /\ i = j
    /\ i < Len(runs[s]) => runs[s][i].state \in Terminals
    /\ runs[s][i].exit \in {None, runs[s][i].process}

\* The exit of a process whose runtime was registered is on record when the runtime goes.
ExitIsRecorded ==
  \A p \in Processes :
    waiter[p] \in {"saved", "done"} /\ faults = 0 /\ Present(home[p]) =>
      \E i \in DOMAIN runs[home[p]] : runs[home[p]][i].exit = p

\* While no transaction failed and the Agent did not restart, a session recorded as
\* running has a runtime, a launch, or a call that is about to record the failure of one.
RunningIsBacked ==
  \A s \in Listed :
    ~Terminal(s) /\ faults = 0 =>
      \/ runtimes[s] # None \/ s \in launching
      \/ \E k \in Calls : call[k].on = s /\ call[k].at \in {"claiming", "failed"}

\* No process is left alone with an open PTY: it is registered, so that a close finds it,
\* or its launch goes on, or its PTY was closed (startClaimedSessionRuntime's error paths).
NoLeak ==
  \A p \in alive \ hung :
    \/ runtimes[home[p]] = p
    \/ \E k \in Unstarted : call[k].pid = p

\* A terminal session becomes running again by a launch only; a list, a refresh, a close
\* or a deletion revives none (spec 20260623, design decision 1).
RevivalStep ==
  \A s \in Sessions :
    row[s] # "absent" /\ Terminal(s) /\ ~Terminal(s)' =>
      \E k \in Unstarted : call[k].on = s

NoRevival == [][RevivalStep]_vars

-----------------------------------------------------------------------------
(* The registry implements the life cycle *)

\* The sessions that a call is launching, and the processes each session has had.
Starting == {call[k].on : k \in Unstarted}
Ran      == [s \in Sessions |-> {p \in Processes : home[p] = s /\ waiter[p] # "none"}]

Lifecycle == INSTANCE SessionLifecycle WITH starting <- Starting, live <- runtimes, ran <- Ran

\* Under that mapping every behaviour of the registry is one of SessionLifecycle.
ImplementsLifecycle == Lifecycle!Spec

-----------------------------------------------------------------------------
(* What the documents say and the code does not keep *)

\* A session that its user deleted has no live runtime: the deletion is refused when there
\* is one (spec 20260619-workspace-session-terminal-api, on DELETE of a session).  While the
\* workspace exists, DeleteSession alone deletes sessions; it looks at the maps before the
\* transaction, and not at the launches under way.
DeletedHasNoRuntime ==
  workspace => \A s \in Sessions : row[s] = "deleted" => runtimes[s] = None
=============================================================================
