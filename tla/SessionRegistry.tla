---------------------------- MODULE SessionRegistry ----------------------------
(***************************************************************************)
(* The registry of the Agent's sessions                                    *)
(* (internal/agent/application/task/terminal/registry.go) over the records *)
(* in SQL (repository/task/state/db_store.go), with the recovery of        *)
(* records whose process is gone (model/task/session/recovery.go).         *)
(*                                                                         *)
(* Requests run concurrently and hold no lock from one access of the maps  *)
(* or of the store to the next: a section under Registry.mu, a transaction *)
(* and a call of the operating system are one action each.  What a runtime *)
(* does while its process lives is SessionRuntime; here it is its waitLoop.*)
(***************************************************************************)
EXTENDS Integers, Sequences, FiniteSets

CONSTANTS
  Sessions,     \* session ids; each is created once
  Calls,        \* requests to the Agent; each is made once
  Processes,    \* processes behind a PTY; each is started once
  Metas,        \* values of what an update changes: the name, the command
  None,         \* no session, no process, nothing
  MaxFaults     \* bound: failing transactions and crashes of the Agent

ASSUME RegistryAssumption ==
  /\ None \notin Sessions \cup Processes \cup Metas
  /\ MaxFaults \in Nat

VARIABLES
  workspace,    \* the workspace of the sessions is not deleted
  row,          \* the row of each session: absent, present, deleted
  runs,         \* its rows in session_runs, the current one last
  meta,         \* its name and command
  runtimes,     \* r.runtimes: the process of each registered runtime
  launching,    \* r.launching
  call,         \* each request: where it is and what it holds
  alive,        \* the processes that run
  hung,         \* the processes whose PTY was closed
  home,         \* the session each process was started for
  held,         \* the session's meta as its launch read it (runtime.session)
  waiter,       \* where the waitLoop of each process is
  faults        \* bound

store    == <<workspace, row, runs, meta>>
registry == <<runtimes, launching>>
procs    == <<alive, hung, home, held, waiter>>
vars     == <<store, registry, call, procs, faults>>

-----------------------------------------------------------------------------
(* The store: a session's state is that of its current run, in both tables *)

Terminals == {"stopped", "failed"}
StartingRun == [process |-> None, exit |-> None, state |-> "starting"]  \* mutant: a retired state
NewRun    == [process |-> None, exit |-> None, state |-> "running"]

Present(s)  == row[s] = "present"
Listed      == {s \in Sessions : Present(s)}
Current(s)  == runs[s][Len(runs[s])]
Terminal(s) == Current(s).state \in Terminals

EnsureAlways(s) == Append(runs[s], NewRun)  \* mutant: a run is begun in any state
KeepRun(s)      == runs[s]                  \* mutant: a run is never begun

\* ensureCurrentRunTx with appendIfTerminal: the runs with the one to write to last.
EnsureRun(s) == IF Terminal(s) THEN Append(runs[s], NewRun) ELSE runs[s]

Amend(log, run) == [log EXCEPT ![Len(log)] = run]

\* A transaction on the current run of a session that is not deleted.
Write(s, log) ==
  /\ Present(s)
  /\ runs' = [runs EXCEPT ![s] = log]
  /\ UNCHANGED <<workspace, row, faults>>

Fault == faults < MaxFaults /\ faults' = faults + 1

\* The row is gone, or the transaction fails.
WriteFails(s) == UNCHANGED store /\ (Fault \/ (~Present(s) /\ UNCHANGED faults))

SaveState(s, state) ==
  \/ Write(s, Amend(runs[s], [Current(s) EXCEPT !.state = state])) /\ UNCHANGED meta
  \/ WriteFails(s)

-----------------------------------------------------------------------------
(* Requests.  One that is refused by what it reads, and changes nothing, is left out. *)

\* at: where it is; kind: the request; on: its session; copy: the meta it read;
\* pid: the process it holds; todo: the sessions of its list not yet looked at.
NotMade  == [at |-> "idle", kind |-> "none", on |-> None, copy |-> None, pid |-> None, todo |-> {}]
Answered == [NotMade EXCEPT !.at = "done"]

Ask(k, request) == call[k] = NotMade /\ call' = [call EXCEPT ![k] = request]

At(k, here)  == call[k].at = here
Go(k, there) == call' = [call EXCEPT ![k].at = there]
Answer(k)    == call' = [call EXCEPT ![k] = Answered]

\* What a call does to the store only, or to the maps only.
InStore == UNCHANGED <<registry, procs>>
InMaps  == UNCHANGED <<store, procs, faults>>

-----------------------------------------------------------------------------
(* Launch: CreateSession, RerunSession *)

Create(k) ==
  /\ workspace
  /\ \E s \in Sessions, m \in Metas :
       /\ row[s] = "absent"
       /\ Ask(k, [NotMade EXCEPT !.at = "claiming", !.kind = "create", !.on = s, !.copy = m])
       /\ row' = [row EXCEPT ![s] = "present"]
       /\ runs' = [runs EXCEPT ![s] = <<NewRun>>]
       /\ meta' = [meta EXCEPT ![s] = m]
  /\ InStore /\ UNCHANGED <<workspace, faults>>

\* Only a terminal session is run again; a launch directory that is gone fails it.
RerunView(k) ==
  /\ \E s \in Listed, there \in {"claiming", "failed"} :
       /\ Terminal(s)
       /\ Ask(k, [NotMade EXCEPT !.at = there, !.kind = "rerun", !.on = s, !.copy = meta[s]])
  /\ InStore /\ UNCHANGED <<store, faults>>

NotLaunching(s)  == s \notin launching    \* mutant: the claim ignores the runtimes
NotRegistered(s) == runtimes[s] = None    \* mutant: the claim ignores other launches

\* claimSessionStart grants the session to one launch.
Claimable(s) == runtimes[s] = None /\ s \notin launching

Claim(k) ==
  /\ At(k, "claiming") /\ Claimable(call[k].on)
  /\ launching' = launching \cup {call[k].on}
  /\ Go(k, IF call[k].kind = "create" THEN "launching" ELSE "claimed")
  /\ InMaps /\ UNCHANGED runtimes

ClaimRefused(k) ==
  /\ At(k, "claiming") /\ ~Claimable(call[k].on)
  /\ IF call[k].kind = "create" THEN Go(k, "failed") ELSE Answer(k)
  /\ InMaps /\ UNCHANGED registry

\* A rerun archives the history, then begins its run; each of the two may fail.
BeginRun(k) ==
  LET s == call[k].on IN
  /\ At(k, "claimed")
  /\ \/ Write(s, EnsureRun(s)) /\ UNCHANGED meta /\ Go(k, "launching")
     \/ WriteFails(s) /\ Go(k, "failing")
     \/ UNCHANGED <<store, faults>> /\ Go(k, "failing")
  /\ InStore

StartProcess(k) ==
  /\ At(k, "launching")
  /\ \E p \in Processes :
       /\ home[p] = None
       /\ home' = [home EXCEPT ![p] = call[k].on]
       /\ held' = [held EXCEPT ![p] = call[k].copy]
       /\ alive' = alive \cup {p}
       /\ call' = [call EXCEPT ![k].at = "started", ![k].pid = p]
  /\ UNCHANGED <<store, registry, hung, waiter, faults>>

\* The history writer, the process spec or pty.Start fails.
StartFails(k) ==
  /\ At(k, "launching") /\ Go(k, "failing")
  /\ InMaps /\ UNCHANGED registry

SaveProcess(k) ==
  LET s   == call[k].on
      log == EnsureRun(s)
  IN
  /\ At(k, "started")
  /\ Write(s, Amend(log, [log[Len(log)] EXCEPT !.process = call[k].pid, !.state = "running"]))
  /\ Go(k, "saved")
  /\ InStore /\ UNCHANGED meta

LeftRunning(k) == UNCHANGED hung  \* mutant: the PTY stays open
HangUp(k) == hung' = hung \cup {call[k].pid}

SaveProcessFails(k) ==
  /\ At(k, "started") /\ WriteFails(call[k].on)
  /\ HangUp(k)
  /\ Go(k, "failing")
  /\ UNCHANGED <<registry, alive, home, held, waiter>>

\* The runtime enters the map and its goroutines start.
Register(k) ==
  /\ At(k, "saved")
  /\ runtimes' = [runtimes EXCEPT ![call[k].on] = call[k].pid]
  /\ waiter' = [waiter EXCEPT ![call[k].pid] = "waiting"]
  /\ Go(k, "releasing")
  /\ UNCHANGED <<store, launching, alive, hung, home, held, faults>>

\* The deferred releaseSessionStart: a create whose start failed has its record
\* saved after it, a rerun before it.
Release(k) ==
  /\ \/ At(k, "releasing") /\ Answer(k)
     \/ At(k, "failing") /\ call[k].kind = "create" /\ Go(k, "failed")
  /\ launching' = launching \ {call[k].on}
  /\ InMaps /\ UNCHANGED runtimes

SaveNothing(k) ==  \* mutant: a failed launch leaves the record as it is
  /\ \/ At(k, "failed") /\ Answer(k)
     \/ At(k, "failing") /\ call[k].kind = "rerun" /\ Go(k, "releasing")
  /\ InStore /\ UNCHANGED <<store, faults>>

SaveFailed(k) ==
  /\ \/ At(k, "failed") /\ Answer(k)
     \/ At(k, "failing") /\ call[k].kind = "rerun" /\ Go(k, "releasing")
  /\ SaveState(call[k].on, "failed")
  /\ InStore

-----------------------------------------------------------------------------
(* CloseSession *)

\* The map is asked first: it may hold a session whose row is gone.
CloseLookup(k) ==
  /\ \E s \in Sessions :
       /\ Present(s) \/ runtimes[s] # None
       /\ Ask(k, [NotMade EXCEPT !.at = IF runtimes[s] = None THEN "missing" ELSE "closing",
                                 !.kind = "close", !.on = s, !.pid = runtimes[s]])
  /\ InMaps /\ UNCHANGED registry

\* closeSession of the runtime found: it hangs up the PTY and waits for waitLoop.  That
\* pty.Close may fail is in SessionRuntime.
CloseLive(k) ==
  /\ At(k, "closing")
  /\ hung' = hung \cup {call[k].pid}
  /\ Go(k, "waiting")
  /\ UNCHANGED <<store, registry, alive, home, held, waiter, faults>>

CloseWaited(k) ==
  /\ At(k, "waiting") /\ waiter[call[k].pid] = "done"
  /\ Answer(k)
  /\ InMaps /\ UNCHANGED registry

\* closeMissingRuntimeSession: a session with no runtime that is not terminal is
\* recorded as stopped.
CloseView(k) ==
  /\ At(k, "missing")
  /\ IF Present(call[k].on) /\ ~Terminal(call[k].on) THEN Go(k, "settling") ELSE Answer(k)
  /\ InMaps /\ UNCHANGED registry

CloseSave(k) ==
  /\ At(k, "settling") /\ Answer(k)
  /\ SaveState(call[k].on, "stopped")
  /\ InStore

-----------------------------------------------------------------------------
(* UpdateSession *)

\* A rename is taken in any state, a change of the command in a terminal one only.
UpdateView(k) ==
  /\ \E s \in Listed, what \in {"renaming", "editing"} :
       /\ what = "editing" => Terminal(s)
       /\ Ask(k, [NotMade EXCEPT !.at = what, !.kind = "update", !.on = s])
  /\ InMaps /\ UNCHANGED registry

\* The transaction reads the row again, and that of a command asks again for the state; it
\* is refused then, by a change of the row since its read, or because it fails.
UpdateSave(k) ==
  LET s == call[k].on IN
  /\ call[k].at \in {"renaming", "editing"} /\ Answer(k)
  /\ \/ /\ Present(s) /\ (At(k, "editing") => Terminal(s))
        /\ \E m \in Metas : meta' = [meta EXCEPT ![s] = m]
     \/ UNCHANGED meta
  /\ InStore /\ UNCHANGED <<workspace, row, runs, faults>>

-----------------------------------------------------------------------------
(* DeleteSession, DeleteWorkspace *)

DeleteView(k) ==
  /\ \/ \E s \in Listed :
          /\ Terminal(s)
          /\ Ask(k, [NotMade EXCEPT !.at = "checking", !.kind = "delete", !.on = s, !.todo = {s}])
     \/ /\ workspace
        /\ \A s \in Listed : Terminal(s)
        /\ Ask(k, [NotMade EXCEPT !.at = "checking", !.kind = "delete", !.todo = Listed])
  /\ InMaps /\ UNCHANGED registry

\* hasRuntime, session by session.
DeleteCheck(k) ==
  /\ At(k, "checking")
  /\ \E s \in call[k].todo :
       IF runtimes[s] # None THEN Answer(k)
       ELSE call' = [call EXCEPT ![k].todo = @ \ {s}]
  /\ InMaps /\ UNCHANGED registry

\* Rows and runs are marked deleted; a workspace takes all that is in it by then.  The
\* transaction may fail.
DeleteStore(k) ==
  /\ At(k, "checking") /\ call[k].todo = {} /\ Answer(k)
  /\ \/ /\ call[k].on = None
        /\ workspace' = FALSE
        /\ row' = [s \in Sessions |-> IF Present(s) THEN "deleted" ELSE row[s]]
     \/ /\ call[k].on # None
        /\ row' = [row EXCEPT ![call[k].on] = "deleted"]
        /\ UNCHANGED workspace
     \/ UNCHANGED <<workspace, row>>
  /\ InStore /\ UNCHANGED <<runs, meta, faults>>

-----------------------------------------------------------------------------
(* Lists, which refresh what is recorded as running and has no runtime *)

List(k) ==
  /\ Ask(k, [NotMade EXCEPT !.at = "listing", !.kind = "list",
                            !.todo = {s \in Listed : ~Terminal(s)}])
  /\ InMaps /\ UNCHANGED registry

ListCheck(k) ==
  /\ At(k, "listing")
  /\ \E s \in call[k].todo :
       call' = [call EXCEPT ![k].todo = @ \ {s},
                            ![k].on = IF runtimes[s] = None THEN s ELSE None,
                            ![k].at = IF runtimes[s] = None THEN "loading" ELSE "listing"]
  /\ InMaps /\ UNCHANGED registry

Listing(k) == call' = [call EXCEPT ![k].at = "listing", ![k].on = None, ![k].pid = None]

\* Refresh: LoadProcess finds no row, no process, or one to look for.
RefreshLoad(k) ==
  LET s == call[k].on IN
  /\ At(k, "loading")
  /\ IF ~Present(s) THEN Listing(k)
     ELSE IF Current(s).process = None THEN Go(k, "stale")
     ELSE call' = [call EXCEPT ![k].at = "probing", ![k].pid = Current(s).process]
  /\ InMaps /\ UNCHANGED registry

RefreshRevives(k) ==  \* mutant: a process that seems alive makes the record running
  /\ At(k, "probing")
  /\ \/ Listing(k) /\ SaveState(call[k].on, "running")
     \/ /\ \/ call[k].pid \notin alive /\ Go(k, "reading")
           \/ Go(k, "stale")
        /\ UNCHANGED <<store, faults>>
  /\ InStore

\* Check: any process with that pid will do, so that a dead one may seem alive; on Windows
\* it may be left unverified, dead or alive.
RefreshCheck(k) ==
  /\ At(k, "probing")
  /\ \/ Listing(k)
     \/ call[k].pid \notin alive /\ Go(k, "reading")
     \/ Go(k, "stale")
  /\ InMaps /\ UNCHANGED registry

RefreshExit(k) ==
  LET s == call[k].on IN
  /\ At(k, "reading")
  /\ Go(k, IF Present(s) /\ Current(s).exit # None THEN "exited" ELSE "stale")
  /\ InMaps /\ UNCHANGED registry

MarkState(k) ==
  /\ call[k].at \in {"exited", "stale"}
  /\ SaveState(call[k].on, IF At(k, "exited") THEN "stopped" ELSE "failed")
  /\ Listing(k)
  /\ InStore

ListDone(k) ==
  /\ At(k, "listing") /\ call[k].todo = {} /\ Answer(k)
  /\ InMaps /\ UNCHANGED registry

-----------------------------------------------------------------------------
(* waitLoop of a runtime, and what happens outside *)

\* The exit is written to the current run; when the history was truncated, the
\* session as it was at the launch is written over the row in the same transaction.
SaveExit(p) ==
  LET s == home[p] IN
  /\ waiter[p] = "waiting" /\ p \notin alive
  /\ \/ /\ \E state \in Terminals :
             Write(s, Amend(runs[s], [Current(s) EXCEPT !.exit = p, !.state = state]))
        /\ \/ UNCHANGED meta
           \/ meta' = [meta EXCEPT ![s] = held[p]]
     \/ WriteFails(s)
  /\ waiter' = [waiter EXCEPT ![p] = "saved"]
  /\ UNCHANGED <<registry, call, alive, hung, home, held>>

\* removeRuntime goes by the id of the session.
RemoveRuntime(p) ==
  /\ waiter[p] = "saved"
  /\ runtimes' = [runtimes EXCEPT ![home[p]] = None]
  /\ waiter' = [waiter EXCEPT ![p] = "done"]
  /\ UNCHANGED <<store, launching, call, alive, hung, home, held, faults>>

\* A process ends, by itself or because it was hung up.
Die(p) ==
  /\ p \in alive /\ alive' = alive \ {p}
  /\ UNCHANGED <<store, registry, call, hung, home, held, waiter, faults>>

\* The Agent ends and starts again: its memory is lost, every PTY is closed, and a
\* process that ignores the hang-up lives on.
Crash ==
  /\ Fault
  /\ runtimes' = [s \in Sessions |-> None]
  /\ launching' = {}
  /\ call' = [k \in Calls |-> IF call[k] = NotMade THEN NotMade ELSE Answered]
  /\ hung' = {p \in Processes : home[p] # None}
  /\ waiter' = [p \in Processes |-> IF waiter[p] \in {"waiting", "saved"} THEN "lost" ELSE waiter[p]]
  /\ UNCHANGED <<store, alive, home, held>>

-----------------------------------------------------------------------------
Init ==
  /\ workspace = TRUE
  /\ row = [s \in Sessions |-> "absent"]
  /\ runs = [s \in Sessions |-> <<>>]
  /\ meta = [s \in Sessions |-> None]
  /\ runtimes = [s \in Sessions |-> None] /\ launching = {}
  /\ call = [k \in Calls |-> NotMade]
  /\ alive = {} /\ hung = {}
  /\ home = [p \in Processes |-> None] /\ held = [p \in Processes |-> None]
  /\ waiter = [p \in Processes |-> "none"]
  /\ faults = 0

CreateSession(k) == Create(k)
RerunSession(k)  == RerunView(k) \/ BeginRun(k)
Launch(k) ==
  \/ Claim(k) \/ ClaimRefused(k) \/ StartProcess(k) \/ StartFails(k)
  \/ SaveProcess(k) \/ SaveProcessFails(k) \/ Register(k) \/ Release(k) \/ SaveFailed(k)
CloseSession(k)  == CloseLookup(k) \/ CloseLive(k) \/ CloseWaited(k) \/ CloseView(k) \/ CloseSave(k)
UpdateSession(k) == UpdateView(k) \/ UpdateSave(k)
Delete(k)        == DeleteView(k) \/ DeleteCheck(k) \/ DeleteStore(k)
ListSessions(k)  ==
  \/ List(k) \/ ListCheck(k) \/ ListDone(k)
  \/ RefreshLoad(k) \/ RefreshCheck(k) \/ RefreshExit(k) \/ MarkState(k)

Request(k) ==
  \/ CreateSession(k) \/ RerunSession(k) \/ Launch(k) \/ CloseSession(k)
  \/ UpdateSession(k) \/ Delete(k) \/ ListSessions(k)

WaitLoop(p) == SaveExit(p) \/ RemoveRuntime(p)

Next ==
  \/ \E k \in Calls : Request(k)
  \/ \E p \in Processes : WaitLoop(p) \/ Die(p)
  \/ Crash

Spec == Init /\ [][Next]_vars
=============================================================================
