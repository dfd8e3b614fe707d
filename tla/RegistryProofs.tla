---------------------------- MODULE RegistryProofs ----------------------------
(***************************************************************************)
(* The registry of sessions, for every number of sessions, requests,       *)
(* processes, failures and restarts: types, one launch and one runtime per *)
(* session, records that belong to the process that runs, no leaked        *)
(* process, no revival, the life cycle of SessionLifecycle, and what the   *)
(* records say: runs apart, exits kept, a launch or a runtime behind every *)
(* session that is recorded as running.                                    *)
(*                                                                         *)
(* None of OneLaunch, RuntimeOwnsRun and NoLeak is inductive.  That a      *)
(* launch may put its runtime into the map needs that the map has none     *)
(* there since the claim, which needs that only waitLoop, which only takes *)
(* away, and other launches of the same session, of which there are none,  *)
(* write to it.  That removeRuntime takes away the right runtime needs     *)
(* that process, map and waitLoop agree (Tied), from the start of the      *)
(* process on.  RegistryInv says all of it, one named part per relation.   *)
(***************************************************************************)
EXTENDS RegistryProperties, TLAPS, SequenceTheorems

\* Places in which a request holds a session's claim.
LaunchPlaces == {"claimed", "launching", "started", "saved", "failing", "releasing"}
\* Places in which a request need not have a session.
Sessionless  == {"idle", "done", "checking", "listing"}
\* The waitLoop of a registered runtime.
Waiting      == {"waiting", "saved"}

\* What a request holds where it is.
Shape(c) ==
  /\ c.at \notin Sessionless => c.on \in Sessions
  /\ c.at \in {"started", "saved", "closing"} => c.pid \in Processes
Shapes == \A k \in Calls : Shape(call[k])

\* A process, the launch that started it, its runtime and its waitLoop agree.
Tied ==
  /\ \A k \in Calls : call[k].at \in {"started", "saved"} =>
       home[call[k].pid] = call[k].on /\ waiter[call[k].pid] = "none"
  /\ \A p \in Processes : waiter[p] # "none" => home[p] \in Sessions
  /\ \A s \in Sessions : runtimes[s] # None =>
       home[runtimes[s]] = s /\ waiter[runtimes[s]] \in Waiting
  /\ \A p \in Processes : waiter[p] \in Waiting => runtimes[home[p]] = p

\* A process that runs was started, its exit is not saved, and it is registered, about to
\* be, or hung up.
Kept ==
  /\ \A p \in alive : home[p] \in Sessions /\ waiter[p] \notin {"saved", "done"}
  /\ \A p \in alive \ hung :
       \/ runtimes[home[p]] = p
       \/ \E k \in Calls : call[k].at \in {"started", "saved"} /\ call[k].pid = p

\* The current run of a session is that of its registered process, and of the process
\* about to be registered.
Recorded ==
  /\ \A p \in Processes : waiter[p] \in Waiting /\ Present(home[p]) =>
       Current(home[p]).process = p
  /\ \A k \in Calls : call[k].at = "saved" /\ Present(call[k].on) =>
       Current(call[k].on).process = call[k].pid

\* The sessions that are launched and those of the processes were created.
Known ==
  /\ \A k \in Calls : call[k].at \in LaunchPlaces \cup {"claiming"} => row[call[k].on] # "absent"
  /\ \A p \in Processes : home[p] \in Sessions => row[home[p]] # "absent"

\* The inductive invariant.
RegistryInv == TypeOK /\ Shapes /\ OneLaunch /\ Tied /\ Kept /\ Recorded /\ Known

-----------------------------------------------------------------------------
(* Steps of a request that holds no claim *)

\* One request goes from a place without a claim to another, and nothing in memory
\* changes but what it holds.
QuietStep(k) ==
  /\ call[k].at \notin LaunchPlaces
  /\ call' \in [Calls -> Requests] /\ \A j \in Calls : j # k => call'[j] = call[j]
  /\ Shape(call'[k]) /\ call'[k].at \notin LaunchPlaces
  /\ call'[k].at = "claiming" => row'[call'[k].on] # "absent"
  /\ UNCHANGED <<registry, procs>>

\* A quiet step keeps all that is said of the memory of the Agent.
LEMMA QuietKeeps ==
  ASSUME RegistryInv, NEW k \in Calls, QuietStep(k)
  PROVE  MapTypes' /\ CallTypes' /\ ProcessTypes' /\ Shapes' /\ OneLaunch' /\ Tied' /\ Kept'
<1> USE DEF RegistryInv, TypeOK, QuietStep, registry, procs
<1>1. MapTypes' /\ ProcessTypes'
  BY DEF MapTypes, ProcessTypes
<1>2. CallTypes' /\ Shapes'
  BY DEF CallTypes, Shapes
<1>3. Unstarted' = Unstarted /\ Launchers' = Launchers /\ \A j \in Launchers : call'[j] = call[j]
  BY DEF Unstarted, Launchers, LaunchPlaces
<1>4. OneLaunch'
  BY <1>3 DEF OneLaunch, Launchers
<1>5. Tied'
  BY DEF Tied, LaunchPlaces
<1>6. Kept'
  BY DEF Kept, LaunchPlaces
<1> QED
  BY <1>1, <1>2, <1>4, <1>5, <1>6

\* A step that leaves the store and the processes alone, and no request that is about to
\* register, keeps the records.
LEMMA StoreKeepsRecorded ==
  ASSUME RegistryInv, NEW k \in Calls, QuietStep(k), UNCHANGED store
  PROVE  StoreTypes' /\ Recorded' /\ Known'
<1>1. StoreTypes' /\ Recorded'
  BY DEF RegistryInv, TypeOK, QuietStep, store, procs, StoreTypes, Recorded, Present, Current, LaunchPlaces
<1>2. Known'
  BY DEF RegistryInv, QuietStep, store, procs, Known, LaunchPlaces
<1> QED
  BY <1>1, <1>2

\* A session that is there has a current run.
LEMMA CurrentIsRun ==
  ASSUME StoreTypes, NEW s \in Sessions, Present(s)
  PROVE  Current(s) \in Runs /\ Len(runs[s]) \in 1..Len(runs[s])
<1>1. runs[s] \in Seq(Runs) /\ runs[s] # <<>>
  BY DEF StoreTypes
<1> QED
  BY <1>1 DEF Current

\* What a transaction writes last is the current run of its session, and the only change.
LEMMA WriteKeeps ==
  ASSUME StoreTypes, NEW s \in Sessions, NEW log \in Seq(Runs), log # <<>>, Write(s, log),
         meta' \in [Sessions -> MaybeMeta]
  PROVE  /\ StoreTypes' /\ row' = row /\ faults' = faults
         /\ \A t \in Sessions : Current(t)' = IF t = s THEN log[Len(log)] ELSE Current(t)
<1>1. StoreTypes' /\ row' = row /\ faults' = faults
  BY DEF StoreTypes, Present, Write
<1>2. ASSUME NEW t \in Sessions
      PROVE  Current(t)' = IF t = s THEN log[Len(log)] ELSE Current(t)
  BY DEF StoreTypes, Write, Current
<1> QED
  BY <1>1, <1>2

\* One that fails changes nothing.
LEMMA WriteFailsKeeps ==
  ASSUME StoreTypes, faults \in 0..MaxFaults, NEW s \in Sessions, WriteFails(s)
  PROVE  StoreTypes' /\ UNCHANGED store /\ faults' \in 0..MaxFaults
  BY RegistryAssumption DEF WriteFails, Fault, store, StoreTypes, Present

\* Amend replaces the last run.
LEMMA AmendLast ==
  ASSUME NEW log \in Seq(Runs), log # <<>>, NEW run \in Runs
  PROVE  Amend(log, run) \in Seq(Runs) /\ Amend(log, run) # <<>> /\ Amend(log, run)[Len(Amend(log, run))] = run
  BY ExceptSeq DEF Amend

\* The log a launch writes to has a last run.
LEMMA EnsureRunIsLog ==
  ASSUME StoreTypes, NEW s \in Sessions, Present(s)
  PROVE  /\ EnsureRun(s) \in Seq(Runs) /\ EnsureRun(s) # <<>>
         /\ EnsureRun(s)[Len(EnsureRun(s))] \in Runs
         /\ runs[s] \in Seq(Runs) /\ runs[s] # <<>>
<1>1. runs[s] \in Seq(Runs) /\ runs[s] # <<>>
  BY DEF StoreTypes
<1>2. NewRun \in Runs
  BY DEF NewRun, Runs, MaybeProcess
<1>3. EnsureRun(s) \in Seq(Runs) /\ EnsureRun(s) # <<>>
  BY <1>1, <1>2 DEF EnsureRun
<1> QED
  BY <1>1, <1>3

\* A transaction that saves a state changes the state of the current run, if anything.
LEMMA SaveStateKeeps ==
  ASSUME StoreTypes, faults \in 0..MaxFaults,
         NEW s \in Sessions, NEW state \in Terminals \cup {"running"}, SaveState(s, state)
  PROVE  /\ StoreTypes' /\ faults' \in 0..MaxFaults /\ row' = row
         /\ \A t \in Sessions : Present(t) => Current(t)'.process = Current(t).process
         /\ state \in Terminals => \A t \in Sessions : row[t] # "absent" /\ Terminal(t) => Terminal(t)'
<1>1. CASE WriteFails(s)
  BY <1>1, WriteFailsKeeps DEF store, Current, Terminal
<1>2. CASE Write(s, Amend(runs[s], [Current(s) EXCEPT !.state = state])) /\ UNCHANGED meta
  <2> DEFINE run == [Current(s) EXCEPT !.state = state]
             log == Amend(runs[s], run)
  <2>1. Present(s)
    BY <1>2 DEF Write
  <2>2. run \in Runs /\ run.process = Current(s).process /\ run.state = state
    BY <2>1, CurrentIsRun DEF Runs
  <2>3. log \in Seq(Runs) /\ log # <<>> /\ log[Len(log)] = run
    BY <2>1, <2>2, AmendLast, EnsureRunIsLog
  <2>4. Write(s, log) /\ meta' \in [Sessions -> MaybeMeta]
    BY <1>2 DEF StoreTypes
  <2> HIDE DEF log, run
  <2>5. /\ StoreTypes' /\ row' = row /\ faults' = faults
        /\ \A t \in Sessions : Current(t)' = IF t = s THEN run ELSE Current(t)
    BY <2>3, <2>4, WriteKeeps
  <2> QED
    BY <2>2, <2>5 DEF Terminal
<1> QED
  BY <1>1, <1>2 DEF SaveState

\* A quiet step that saves a state keeps the records.
LEMMA SaveKeepsRecorded ==
  ASSUME RegistryInv, NEW k \in Calls, QuietStep(k), NEW s \in Sessions,
         NEW state \in Terminals \cup {"running"}, SaveState(s, state)
  PROVE  StoreTypes' /\ Recorded' /\ Known' /\ faults' \in 0..MaxFaults
<1>1. StoreTypes /\ faults \in 0..MaxFaults
  BY DEF RegistryInv, TypeOK
<1>2. /\ StoreTypes' /\ faults' \in 0..MaxFaults /\ row' = row
      /\ \A t \in Sessions : Present(t) => Current(t)'.process = Current(t).process
  BY <1>1, SaveStateKeeps
<1>3. Recorded'
  BY <1>2 DEF RegistryInv, QuietStep, Recorded, Present, Tied, Shapes, Shape, Sessionless, procs, Waiting, LaunchPlaces
<1>4. Known'
  BY <1>2 DEF RegistryInv, QuietStep, Known, procs, LaunchPlaces
<1> QED
  BY <1>2, <1>3, <1>4

-----------------------------------------------------------------------------
(* The actions of a request that holds no claim *)

\* A request that moves from a place without a claim to another is a quiet step, when
\* what it then holds is in shape.
LEMMA MoveIsQuiet ==
  ASSUME RegistryInv, NEW k \in Calls, call[k].at \notin LaunchPlaces,
         NEW request \in Requests, call' = [call EXCEPT ![k] = request],
         request.at \notin LaunchPlaces,
         request.at \in Sessionless \/ request.on \in Sessions,
         request.at = "closing" => request.pid \in Processes,
         request.at = "claiming" => row'[request.on] # "absent",
         UNCHANGED <<registry, procs>>
  PROVE  QuietStep(k)
<1>1. call \in [Calls -> Requests]
  BY DEF RegistryInv, TypeOK, CallTypes
<1>2. Shape(request)
  BY DEF Shape, LaunchPlaces
<1> QED
  BY <1>1, <1>2 DEF QuietStep

\* What a request holds has its type, and there is a session where it needs one.
LEMMA Fields ==
  ASSUME RegistryInv, NEW k \in Calls
  PROVE  /\ call[k] \in Requests
         /\ call[k].at \notin Sessionless => call[k].on \in Sessions
         /\ call[k].at \in {"started", "saved", "closing"} => call[k].pid \in Processes
  BY DEF RegistryInv, TypeOK, CallTypes, Shapes, Shape

\* To make a request is quiet.
LEMMA AskIsQuiet ==
  ASSUME RegistryInv, NEW k \in Calls, NEW request \in Requests, Ask(k, request),
         request.at \notin LaunchPlaces,
         request.at \in Sessionless \/ request.on \in Sessions,
         request.at = "closing" => request.pid \in Processes,
         request.at = "claiming" => row'[request.on] # "absent",
         UNCHANGED <<registry, procs>>
  PROVE  QuietStep(k)
<1>1. call[k].at \notin LaunchPlaces
  BY DEF Ask, NotMade, LaunchPlaces
<1> QED
  BY <1>1, MoveIsQuiet DEF Ask

\* To go on to another place without a claim is quiet.
LEMMA GoIsQuiet ==
  ASSUME RegistryInv, NEW k \in Calls, call[k].at \notin LaunchPlaces \cup Sessionless,
         NEW there \in RequestPlaces \ (LaunchPlaces \cup {"closing", "claiming"}), Go(k, there),
         UNCHANGED <<registry, procs>>
  PROVE  QuietStep(k)
<1> DEFINE request == [call[k] EXCEPT !.at = there]
<1>1. request \in Requests /\ request.at = there /\ request.on = call[k].on
  BY Fields DEF Requests
<1>2. call' = [call EXCEPT ![k] = request]
  BY DEF Go
<1> HIDE DEF request
<1> QED
  BY <1>1, <1>2, Fields, MoveIsQuiet

\* To answer is quiet.
LEMMA AnswerIsQuiet ==
  ASSUME RegistryInv, NEW k \in Calls, call[k].at \notin LaunchPlaces, Answer(k),
         UNCHANGED <<registry, procs>>
  PROVE  QuietStep(k)
<1>1. Answered \in Requests /\ Answered.at = "done"
  BY DEF Answered, NotMade, Requests, RequestPlaces, RequestKinds, MaybeSession, MaybeMeta, MaybeProcess
<1> QED
  BY <1>1, MoveIsQuiet DEF Answer, LaunchPlaces, Sessionless

\* To go back to the list is quiet.
LEMMA ListingIsQuiet ==
  ASSUME RegistryInv, NEW k \in Calls, call[k].at \notin LaunchPlaces, Listing(k),
         UNCHANGED <<registry, procs>>
  PROVE  QuietStep(k)
<1> DEFINE request == [call[k] EXCEPT !.at = "listing", !.on = None, !.pid = None]
<1>1. request \in Requests /\ request.at = "listing"
  BY Fields DEF Requests, RequestPlaces, MaybeSession, MaybeProcess
<1>2. call' = [call EXCEPT ![k] = request]
  BY DEF Listing
<1> HIDE DEF request
<1> QED
  BY <1>1, <1>2, MoveIsQuiet DEF LaunchPlaces, Sessionless

\* The actions that read: only the place of the request changes.
Reading(k) ==
  \/ RerunView(k) \/ ClaimRefused(k) \/ CloseLookup(k) \/ CloseWaited(k) \/ CloseView(k)
  \/ UpdateView(k) \/ DeleteView(k) \/ DeleteCheck(k)
  \/ List(k) \/ ListCheck(k) \/ ListDone(k) \/ RefreshLoad(k) \/ RefreshCheck(k) \/ RefreshExit(k)

\* The requests they make or go on with.
LEMMA RerunIsQuiet ==
  ASSUME RegistryInv, NEW k \in Calls, RerunView(k)
  PROVE  QuietStep(k)
<1>1. PICK s \in Listed, there \in {"claiming", "failed"} :
        Ask(k, [NotMade EXCEPT !.at = there, !.kind = "rerun", !.on = s, !.copy = meta[s]])
  BY DEF RerunView
<1> DEFINE request == [NotMade EXCEPT !.at = there, !.kind = "rerun", !.on = s, !.copy = meta[s]]
<1>2. s \in Sessions /\ meta[s] \in MaybeMeta /\ row[s] # "absent"
  BY DEF Listed, Present, RegistryInv, TypeOK, StoreTypes
<1>3. request \in Requests /\ request.at = there /\ request.on = s
  BY <1>2 DEF NotMade, Requests, RequestPlaces, RequestKinds, MaybeSession, MaybeProcess, MaybeMeta
<1>4. Ask(k, request) /\ UNCHANGED <<registry, procs>> /\ row' = row
  BY <1>1 DEF RerunView, InStore, store
<1> HIDE DEF request
<1> QED
  BY <1>2, <1>3, <1>4, AskIsQuiet DEF LaunchPlaces

LEMMA CloseLookupIsQuiet ==
  ASSUME RegistryInv, NEW k \in Calls, CloseLookup(k)
  PROVE  QuietStep(k)
<1>1. PICK s \in Sessions :
        Ask(k, [NotMade EXCEPT !.at = IF runtimes[s] = None THEN "missing" ELSE "closing",
                               !.kind = "close", !.on = s, !.pid = runtimes[s]])
  BY DEF CloseLookup
<1> DEFINE request == [NotMade EXCEPT !.at = IF runtimes[s] = None THEN "missing" ELSE "closing",
                                      !.kind = "close", !.on = s, !.pid = runtimes[s]]
<1>2. runtimes[s] \in MaybeProcess
  BY DEF RegistryInv, TypeOK, MapTypes
<1>3. /\ request \in Requests /\ request.at \in {"missing", "closing"} /\ request.on = s
      /\ request.at = "closing" => request.pid \in Processes
  BY <1>2 DEF NotMade, Requests, RequestPlaces, RequestKinds, MaybeSession, MaybeProcess, MaybeMeta
<1>4. Ask(k, request) /\ UNCHANGED <<registry, procs>>
  BY <1>1 DEF CloseLookup, InMaps
<1> HIDE DEF request
<1> QED
  BY <1>3, <1>4, AskIsQuiet DEF LaunchPlaces

LEMMA UpdateViewIsQuiet ==
  ASSUME RegistryInv, NEW k \in Calls, UpdateView(k)
  PROVE  QuietStep(k)
<1>1. PICK s \in Listed, what \in {"renaming", "editing"} :
        Ask(k, [NotMade EXCEPT !.at = what, !.kind = "update", !.on = s])
  BY DEF UpdateView
<1> DEFINE request == [NotMade EXCEPT !.at = what, !.kind = "update", !.on = s]
<1>2. s \in Sessions /\ request \in Requests /\ request.at = what /\ request.on = s
  BY DEF Listed, NotMade, Requests, RequestPlaces, RequestKinds, MaybeSession, MaybeProcess, MaybeMeta
<1>3. Ask(k, request) /\ UNCHANGED <<registry, procs>>
  BY <1>1 DEF UpdateView, InMaps
<1> HIDE DEF request
<1> QED
  BY <1>2, <1>3, AskIsQuiet DEF LaunchPlaces

LEMMA DeleteIsQuiet ==
  ASSUME RegistryInv, NEW k \in Calls, DeleteView(k) \/ DeleteCheck(k)
  PROVE  QuietStep(k)
<1>0. UNCHANGED <<registry, procs>>
  BY DEF DeleteView, DeleteCheck, InMaps
<1>2. CASE \E s \in Listed :
             Ask(k, [NotMade EXCEPT !.at = "checking", !.kind = "delete", !.on = s, !.todo = {s}])
  <2>1. PICK s \in Listed :
          Ask(k, [NotMade EXCEPT !.at = "checking", !.kind = "delete", !.on = s, !.todo = {s}])
    BY <1>2
  <2> DEFINE request == [NotMade EXCEPT !.at = "checking", !.kind = "delete", !.on = s, !.todo = {s}]
  <2>2. request \in Requests /\ request.at = "checking"
    BY DEF Listed, NotMade, Requests, RequestPlaces, RequestKinds, MaybeSession, MaybeProcess, MaybeMeta
  <2>3. Ask(k, request)
    BY <2>1
  <2> HIDE DEF request
  <2> QED
    BY <1>0, <2>2, <2>3, AskIsQuiet DEF LaunchPlaces, Sessionless
<1>3. CASE Ask(k, [NotMade EXCEPT !.at = "checking", !.kind = "delete", !.todo = Listed])
  <2> DEFINE request == [NotMade EXCEPT !.at = "checking", !.kind = "delete", !.todo = Listed]
  <2>1. request \in Requests /\ request.at = "checking"
    BY DEF Listed, NotMade, Requests, RequestPlaces, RequestKinds, MaybeSession, MaybeProcess, MaybeMeta
  <2>2. Ask(k, request)
    BY <1>3
  <2> HIDE DEF request
  <2> QED
    BY <1>0, <2>1, <2>2, AskIsQuiet DEF LaunchPlaces, Sessionless
<1>4. ASSUME DeleteCheck(k)
      PROVE  QuietStep(k)
  <2>1. PICK s \in call[k].todo :
          IF runtimes[s] # None THEN Answer(k) ELSE call' = [call EXCEPT ![k].todo = @ \ {s}]
    BY <1>4 DEF DeleteCheck
  <2> DEFINE request == [call[k] EXCEPT !.todo = @ \ {s}]
  <2>2. call[k].at = "checking"
    BY <1>4 DEF DeleteCheck, At
  <2>3. request \in Requests /\ request.at = "checking"
    BY <2>2, Fields DEF Requests
  <2>4. Answer(k) \/ call' = [call EXCEPT ![k] = request]
    BY <2>1
  <2> HIDE DEF request
  <2> QED
    BY <1>0, <2>2, <2>3, <2>4, AnswerIsQuiet, MoveIsQuiet DEF LaunchPlaces, Sessionless
<1> QED
  BY <1>2, <1>3, <1>4 DEF DeleteView

LEMMA ListIsQuiet ==
  ASSUME RegistryInv, NEW k \in Calls, List(k) \/ ListCheck(k)
  PROVE  QuietStep(k)
<1>0. UNCHANGED <<registry, procs>>
  BY DEF List, ListCheck, InMaps
<1>1. ASSUME List(k)
      PROVE  QuietStep(k)
  <2> DEFINE request == [NotMade EXCEPT !.at = "listing", !.kind = "list", !.todo = {s \in Listed : ~Terminal(s)}]
  <2>1. request \in Requests /\ request.at = "listing"
    BY DEF Listed, NotMade, Requests, RequestPlaces, RequestKinds, MaybeSession, MaybeProcess, MaybeMeta
  <2>2. Ask(k, request)
    BY <1>1 DEF List
  <2> HIDE DEF request
  <2> QED
    BY <1>0, <2>1, <2>2, AskIsQuiet DEF LaunchPlaces, Sessionless
<1>2. ASSUME ListCheck(k)
      PROVE  QuietStep(k)
  <2>1. PICK s \in call[k].todo :
          call' = [call EXCEPT ![k].todo = @ \ {s},
                               ![k].on = IF runtimes[s] = None THEN s ELSE None,
                               ![k].at = IF runtimes[s] = None THEN "loading" ELSE "listing"]
    BY <1>2 DEF ListCheck
  <2> DEFINE request == [call[k] EXCEPT !.todo = @ \ {s},
                                        !.on = IF runtimes[s] = None THEN s ELSE None,
                                        !.at = IF runtimes[s] = None THEN "loading" ELSE "listing"]
  <2>2. s \in Sessions /\ call[k].at = "listing"
    BY <1>2, Fields DEF Requests, ListCheck, At
  <2>3. request \in Requests /\ request.at \in {"loading", "listing"} /\ (request.at = "loading" => request.on = s)
    BY <2>2, Fields DEF Requests, RequestPlaces, MaybeSession
  <2>4. call' = [call EXCEPT ![k] = request]
    BY <2>1, Fields DEF RegistryInv, TypeOK, CallTypes
  <2> HIDE DEF request
  <2> QED
    BY <1>0, <2>2, <2>3, <2>4, MoveIsQuiet DEF LaunchPlaces, Sessionless
<1> QED
  BY <1>1, <1>2

LEMMA RefreshLoadIsQuiet ==
  ASSUME RegistryInv, NEW k \in Calls, RefreshLoad(k)
  PROVE  QuietStep(k)
<1> DEFINE s == call[k].on
           request == [call[k] EXCEPT !.at = "probing", !.pid = Current(s).process]
<1>1. call[k].at = "loading" /\ s \in Sessions /\ UNCHANGED <<registry, procs>>
  BY Fields DEF RefreshLoad, At, Sessionless, InMaps
<1>2. CASE Present(s) /\ call' = [call EXCEPT ![k] = request]
  <2>1. Current(s).process \in MaybeProcess
    BY <1>1, <1>2, CurrentIsRun DEF Present, Runs, RegistryInv, TypeOK
  <2>2. request \in Requests /\ request.at = "probing" /\ request.on = s
    BY <1>1, <2>1, Fields DEF Requests, RequestPlaces
  <2> HIDE DEF request
  <2> QED
    BY <1>1, <1>2, <2>2, MoveIsQuiet DEF LaunchPlaces
<1>3. Listing(k) \/ Go(k, "stale") \/ (Present(s) /\ call' = [call EXCEPT ![k] = request])
  BY DEF RefreshLoad
<1> QED
  BY <1>1, <1>2, <1>3, GoIsQuiet, ListingIsQuiet DEF RequestPlaces, LaunchPlaces, Sessionless

\* They are quiet, and write nothing.
LEMMA ReadingIsQuiet ==
  ASSUME RegistryInv, NEW k \in Calls, Reading(k)
  PROVE  QuietStep(k) /\ UNCHANGED <<store, faults>>
<1>1. UNCHANGED <<store, faults>> /\ UNCHANGED <<registry, procs>>
  BY DEF Reading, RerunView, ClaimRefused, CloseLookup, CloseWaited, CloseView, UpdateView, DeleteView,
         DeleteCheck, List, ListCheck, ListDone, RefreshLoad, RefreshCheck, RefreshExit, InStore, InMaps
<1>2. CASE ClaimRefused(k)
  BY <1>1, <1>2, GoIsQuiet, AnswerIsQuiet DEF ClaimRefused, At, RequestPlaces, LaunchPlaces, Sessionless
<1>3. CASE CloseWaited(k) \/ ListDone(k)
  BY <1>1, <1>3, AnswerIsQuiet DEF CloseWaited, ListDone, At, LaunchPlaces
<1>4. CASE CloseView(k)
  BY <1>1, <1>4, GoIsQuiet, AnswerIsQuiet DEF CloseView, At, RequestPlaces, LaunchPlaces, Sessionless
<1>5. CASE RefreshCheck(k)
  BY <1>1, <1>5, GoIsQuiet, ListingIsQuiet DEF RefreshCheck, At, RequestPlaces, LaunchPlaces, Sessionless
<1>6. CASE RefreshExit(k)
  BY <1>1, <1>6, GoIsQuiet DEF RefreshExit, At, RequestPlaces, LaunchPlaces, Sessionless
<1> QED
  BY <1>1, <1>2, <1>3, <1>4, <1>5, <1>6, RerunIsQuiet, CloseLookupIsQuiet, UpdateViewIsQuiet,
     DeleteIsQuiet, ListIsQuiet, RefreshLoadIsQuiet DEF Reading

-----------------------------------------------------------------------------
(* The actions of such a request that write *)

\* A quiet step that saves a terminal state keeps the invariant.
LEMMA SavingKeeps ==
  ASSUME RegistryInv, NEW k \in Calls, QuietStep(k), NEW s \in Sessions,
         NEW state \in Terminals \cup {"running"}, SaveState(s, state)
  PROVE  RegistryInv'
<1>1. StoreTypes' /\ Recorded' /\ Known' /\ faults' \in 0..MaxFaults
  BY SaveKeepsRecorded
<1> QED
  BY <1>1, QuietKeeps DEF RegistryInv, TypeOK

\* What a request without a claim reads or saves keeps the invariant.
LEMMA ReadingKeeps ==
  ASSUME RegistryInv, NEW k \in Calls, Reading(k)
  PROVE  RegistryInv'
<1>1. QuietStep(k) /\ UNCHANGED <<store, faults>>
  BY ReadingIsQuiet
<1>2. StoreTypes' /\ Recorded' /\ Known'
  BY <1>1, StoreKeepsRecorded
<1> QED
  BY <1>1, <1>2, QuietKeeps DEF RegistryInv, TypeOK

LEMMA SettlingKeeps ==
  ASSUME RegistryInv, NEW k \in Calls,
         CloseSave(k) \/ MarkState(k) \/ (SaveFailed(k) /\ At(k, "failed"))
  PROVE  RegistryInv'
<1>1. call[k].at \in {"settling", "exited", "stale", "failed"} /\ UNCHANGED <<registry, procs>>
  BY DEF CloseSave, MarkState, SaveFailed, At, InStore
<1>2. call[k].at \notin LaunchPlaces /\ call[k].on \in Sessions
  BY <1>1, Fields DEF LaunchPlaces, Sessionless
<1>3. QuietStep(k)
  BY <1>1, <1>2, AnswerIsQuiet, ListingIsQuiet DEF CloseSave, MarkState, SaveFailed, At
<1>4. PICK state \in Terminals : SaveState(call[k].on, state)
  BY DEF CloseSave, MarkState, SaveFailed, Terminals
<1> QED
  BY <1>2, <1>3, <1>4, SavingKeeps

LEMMA CreateKeeps ==
  ASSUME RegistryInv, NEW k \in Calls, Create(k)
  PROVE  RegistryInv'
<1>1. PICK s \in Sessions, m \in Metas :
        /\ row[s] = "absent"
        /\ Ask(k, [NotMade EXCEPT !.at = "claiming", !.kind = "create", !.on = s, !.copy = m])
        /\ row' = [row EXCEPT ![s] = "present"]
        /\ runs' = [runs EXCEPT ![s] = <<NewRun>>]
        /\ meta' = [meta EXCEPT ![s] = m]
  BY DEF Create
<1> DEFINE request == [NotMade EXCEPT !.at = "claiming", !.kind = "create", !.on = s, !.copy = m]
<1>2. request \in Requests /\ request.at = "claiming" /\ request.on = s
  BY DEF NotMade, Requests, RequestPlaces, RequestKinds, MaybeSession, MaybeProcess, MaybeMeta
<1>3. Ask(k, request) /\ UNCHANGED <<registry, procs>> /\ UNCHANGED <<workspace, faults>>
  BY <1>1 DEF Create, InStore
<1> HIDE DEF request
<1>4. QuietStep(k) /\ \A t \in Sessions : row[t] # "absent" => row'[t] = row[t]
  <2>1. row'[s] = "present"
    BY <1>1 DEF RegistryInv, TypeOK, StoreTypes
  <2> QED
    BY <1>1, <1>2, <1>3, <2>1, AskIsQuiet DEF LaunchPlaces
<1>5. <<NewRun>> \in Seq(Runs) /\ <<NewRun>> # <<>>
  BY DEF NewRun, Runs, MaybeProcess
<1>6. StoreTypes' /\ faults' \in 0..MaxFaults
  BY <1>1, <1>3, <1>5 DEF RegistryInv, TypeOK, StoreTypes, MaybeMeta, Present
<1>7. Known'
  BY <1>3, <1>4 DEF RegistryInv, TypeOK, QuietStep, Known, Shapes, Shape, Sessionless, procs, LaunchPlaces
<1>8. ASSUME NEW t \in Sessions, row[t] # "absent"
      PROVE  Current(t)' = Current(t) /\ Present(t)' = Present(t)
  BY <1>1, <1>4, <1>8 DEF Current, Present
<1>9. \A p \in Processes : waiter[p] \in Waiting => home[p] \in Sessions /\ row[home[p]] # "absent"
  BY DEF RegistryInv, Tied, Known, Waiting
<1>10. \A j \in Calls : call[j].at = "saved" => call[j].on \in Sessions /\ row[call[j].on] # "absent"
  BY Fields DEF RegistryInv, Known, LaunchPlaces, Sessionless
<1>11. Recorded'
  BY <1>4, <1>8, <1>9, <1>10 DEF RegistryInv, Recorded, QuietStep, procs, LaunchPlaces
<1> QED
  BY <1>4, <1>6, <1>7, <1>11, QuietKeeps DEF RegistryInv, TypeOK

LEMMA UpdateKeeps ==
  ASSUME RegistryInv, NEW k \in Calls, UpdateSave(k)
  PROVE  RegistryInv'
<1>1. /\ call[k].at \in {"renaming", "editing"} /\ Answer(k)
      /\ UNCHANGED <<registry, procs>> /\ UNCHANGED <<workspace, row, runs, faults>>
  BY DEF UpdateSave, InStore
<1>2. QuietStep(k)
  BY <1>1, AnswerIsQuiet DEF LaunchPlaces
<1>3. meta' \in [Sessions -> MaybeMeta]
  BY DEF UpdateSave, RegistryInv, TypeOK, StoreTypes, MaybeMeta
<1>4. StoreTypes' /\ faults' \in 0..MaxFaults
  BY <1>1, <1>3 DEF RegistryInv, TypeOK, StoreTypes, Present
<1>5. Recorded' /\ Known'
  BY <1>1, <1>2 DEF RegistryInv, QuietStep, Recorded, Known, Present, Current, procs, LaunchPlaces
<1> QED
  BY <1>2, <1>4, <1>5, QuietKeeps DEF RegistryInv, TypeOK

LEMMA DeleteKeeps ==
  ASSUME RegistryInv, NEW k \in Calls, DeleteStore(k)
  PROVE  RegistryInv'
<1>1. /\ call[k].at = "checking" /\ Answer(k)
      /\ UNCHANGED <<registry, procs>> /\ UNCHANGED <<runs, meta, faults>>
  BY DEF DeleteStore, InStore, At
<1>2. QuietStep(k)
  BY <1>1, AnswerIsQuiet DEF LaunchPlaces
<1>3. /\ workspace' \in BOOLEAN /\ row' \in [Sessions -> {"absent", "present", "deleted"}]
      /\ \A s \in Sessions : row[s] # "absent" => row'[s] # "absent"
      /\ \A s \in Sessions : Present(s)' => Present(s)
  <2>1. CASE call[k].on = None
    BY <2>1 DEF DeleteStore, Present, RegistryInv, TypeOK, StoreTypes
  <2>2. CASE call[k].on # None
    <3>1. call[k].on \in Sessions
      BY <2>2, Fields DEF Requests, MaybeSession
    <3>2. UNCHANGED workspace /\ (row' = [row EXCEPT ![call[k].on] = "deleted"] \/ row' = row)
      BY <2>2 DEF DeleteStore
    <3> QED
      BY <3>1, <3>2 DEF Present, RegistryInv, TypeOK, StoreTypes
  <2> QED
    BY <2>1, <2>2
<1>4. StoreTypes' /\ faults' \in 0..MaxFaults
  BY <1>1, <1>3 DEF RegistryInv, TypeOK, StoreTypes
<1>5. Recorded' /\ Known'
  BY <1>1, <1>2, <1>3, Fields DEF RegistryInv, Tied, QuietStep, Recorded, Known, Current, procs, LaunchPlaces, Sessionless, Waiting
<1> QED
  BY <1>2, <1>4, <1>5, QuietKeeps DEF RegistryInv, TypeOK

-----------------------------------------------------------------------------
(* The actions of a launch *)

\* Where a request has claimed its session and has not registered a runtime.
UnstartedPlaces == LaunchPlaces \ {"releasing"}

\* Such a request is alone with its session, which has no runtime.
LEMMA LaunchAlone ==
  ASSUME RegistryInv, NEW k \in Calls, call[k].at \in UnstartedPlaces
  PROVE  /\ call[k].on \in Sessions /\ row[call[k].on] # "absent" /\ runtimes[call[k].on] = None
         /\ \A j \in Calls : j # k /\ call[j].at \in LaunchPlaces => call[j].on # call[k].on
         /\ \A p \in Processes : waiter[p] \in Waiting => home[p] # call[k].on
<1>1. call[k].on \in Sessions /\ row[call[k].on] # "absent"
  BY Fields DEF UnstartedPlaces, LaunchPlaces, Sessionless, RegistryInv, Known
<1>2. k \in Unstarted
  BY DEF UnstartedPlaces, LaunchPlaces, Unstarted
<1>3. \A j \in Calls : call[j].at \in LaunchPlaces => j \in Launchers
  BY DEF Launchers, Unstarted, LaunchPlaces
<1>4. runtimes[call[k].on] = None /\ \A j \in Calls : j # k /\ call[j].at \in LaunchPlaces => call[j].on # call[k].on
  BY <1>2, <1>3 DEF RegistryInv, OneLaunch, Launchers
<1>5. \A p \in Processes : waiter[p] \in Waiting => home[p] # call[k].on
  BY <1>4, RegistryAssumption DEF RegistryInv, Tied
<1> QED
  BY <1>1, <1>4, <1>5

\* A launch that goes on with its claim, and leaves the maps alone, keeps what is said of
\* requests and claims.
LEMMA LaunchGoesOn ==
  ASSUME RegistryInv, NEW k \in Calls, call[k].at \in UnstartedPlaces,
         NEW request \in Requests, call' = [call EXCEPT ![k] = request],
         request.on = call[k].on, request.at \in LaunchPlaces,
         request.at \in {"started", "saved"} => request.pid \in Processes,
         UNCHANGED registry
  PROVE  /\ MapTypes' /\ CallTypes' /\ Shapes' /\ OneLaunch'
         /\ call'[k] = request /\ \A j \in Calls : j # k => call'[j] = call[j]
<1>1. call' \in [Calls -> Requests] /\ call'[k] = request /\ \A j \in Calls : j # k => call'[j] = call[j]
  BY DEF RegistryInv, TypeOK, CallTypes
<1>2. CallTypes' /\ MapTypes'
  BY <1>1 DEF RegistryInv, TypeOK, CallTypes, MapTypes, registry
<1>3. Shapes'
  BY <1>1, LaunchAlone DEF RegistryInv, Shapes, Shape, LaunchPlaces
<1>4. /\ Unstarted' \subseteq Unstarted /\ Launchers' = Launchers
      /\ \A j \in Calls : call'[j].on = call[j].on
  BY <1>1 DEF Unstarted, Launchers, UnstartedPlaces, LaunchPlaces
<1>5. OneLaunch'
  BY <1>4 DEF RegistryInv, OneLaunch, Launchers, Unstarted, registry
<1> QED
  BY <1>1, <1>2, <1>3, <1>5

\* The same for a launch that only changes its place.
LEMMA LaunchGoes ==
  ASSUME RegistryInv, NEW k \in Calls, call[k].at \in UnstartedPlaces,
         NEW there \in LaunchPlaces, Go(k, there),
         there \in {"started", "saved"} => call[k].pid \in Processes,
         UNCHANGED registry
  PROVE  /\ MapTypes' /\ CallTypes' /\ Shapes' /\ OneLaunch'
         /\ call'[k].at = there /\ call'[k].on = call[k].on /\ call'[k].pid = call[k].pid
         /\ \A j \in Calls : j # k => call'[j] = call[j]
<1> DEFINE request == [call[k] EXCEPT !.at = there]
<1>1. request \in Requests /\ request.at = there /\ request.on = call[k].on /\ request.pid = call[k].pid
  BY Fields DEF Requests, RequestPlaces, LaunchPlaces
<1>2. call' = [call EXCEPT ![k] = request]
  BY DEF Go
<1> HIDE DEF request
<1> QED
  BY <1>1, <1>2, LaunchGoesOn

LEMMA BeginRunKeeps ==
  ASSUME RegistryInv, NEW k \in Calls, BeginRun(k)
  PROVE  RegistryInv'
<1> DEFINE s == call[k].on
<1>1. call[k].at = "claimed" /\ UNCHANGED <<registry, procs>>
  BY DEF BeginRun, At, InStore
<1>2. call[k].at \in UnstartedPlaces
  BY <1>1 DEF UnstartedPlaces, LaunchPlaces
<1>3. /\ MapTypes' /\ CallTypes' /\ Shapes' /\ OneLaunch'
      /\ call'[k].at \in {"launching", "failing"} /\ call'[k].on = s
      /\ \A j \in Calls : j # k => call'[j] = call[j]
  BY <1>1, <1>2, LaunchGoes DEF BeginRun, LaunchPlaces
<1>4. /\ StoreTypes' /\ row' = row /\ faults' \in 0..MaxFaults
      /\ \A t \in Sessions : t # s => Current(t)' = Current(t)
  <2>0. s \in Sessions /\ StoreTypes /\ faults \in 0..MaxFaults
    BY <1>2, LaunchAlone DEF RegistryInv, TypeOK
  <2>1. CASE Write(s, EnsureRun(s)) /\ UNCHANGED meta
    <3>1. Present(s) /\ meta' \in [Sessions -> MaybeMeta]
      BY <2>0, <2>1 DEF Write, StoreTypes
    <3> QED
      BY <2>0, <2>1, <3>1, EnsureRunIsLog, WriteKeeps
  <2>2. CASE WriteFails(s)
    BY <2>0, <2>2, WriteFailsKeeps DEF store, Current
  <2>3. CASE UNCHANGED <<store, faults>>
    BY <2>0, <2>3 DEF store, Current, StoreTypes, Present
  <2> QED
    BY <2>1, <2>2, <2>3 DEF BeginRun
<1>5. Tied' /\ Kept' /\ ProcessTypes'
  BY <1>1, <1>3 DEF RegistryInv, TypeOK, ProcessTypes, Tied, Kept, registry, procs
<1>6. Recorded'
  <2>1. \A p \in Processes : waiter[p] \in Waiting => home[p] # s /\ home[p] \in Sessions
    BY <1>2, LaunchAlone DEF RegistryInv, Tied, Waiting
  <2>2. \A j \in Calls : j # k /\ call[j].at = "saved" => call[j].on # s /\ call[j].on \in Sessions
    BY <1>2, LaunchAlone, Fields DEF LaunchPlaces, Sessionless
  <2> QED
    BY <1>1, <1>3, <1>4, <2>1, <2>2 DEF RegistryInv, Recorded, Present, procs
<1>7. Known'
  BY <1>1, <1>2, <1>3, <1>4, LaunchAlone DEF RegistryInv, Known, procs, LaunchPlaces
<1> QED
  BY <1>3, <1>4, <1>5, <1>6, <1>7 DEF RegistryInv, TypeOK

LEMMA StartFailsKeeps ==
  ASSUME RegistryInv, NEW k \in Calls, StartFails(k)
  PROVE  RegistryInv'
<1>1. call[k].at = "launching" /\ Go(k, "failing") /\ UNCHANGED <<store, registry, procs, faults>>
  BY DEF StartFails, At, InMaps
<1>2. call[k].at \in UnstartedPlaces
  BY <1>1 DEF UnstartedPlaces, LaunchPlaces
<1>3. /\ MapTypes' /\ CallTypes' /\ Shapes' /\ OneLaunch'
      /\ call'[k].at = "failing" /\ call'[k].on = call[k].on
      /\ \A j \in Calls : j # k => call'[j] = call[j]
  BY <1>1, <1>2, LaunchGoes DEF LaunchPlaces
<1>4. Tied' /\ Kept' /\ ProcessTypes'
  BY <1>1, <1>3 DEF RegistryInv, TypeOK, ProcessTypes, Tied, Kept, registry, procs
<1>5. StoreTypes' /\ Recorded' /\ faults' \in 0..MaxFaults
  BY <1>1, <1>3 DEF RegistryInv, TypeOK, StoreTypes, Recorded, Present, Current, store, procs
<1>6. Known'
  BY <1>1, <1>2, <1>3, LaunchAlone DEF RegistryInv, Known, store, procs, LaunchPlaces
<1> QED
  BY <1>3, <1>4, <1>5, <1>6 DEF RegistryInv, TypeOK

LEMMA StartProcessKeeps ==
  ASSUME RegistryInv, NEW k \in Calls, StartProcess(k)
  PROVE  RegistryInv'
<1> DEFINE s == call[k].on
<1>1. call[k].at = "launching" /\ UNCHANGED <<store, registry, hung, waiter, faults>>
  BY DEF StartProcess, At
<1>2. call[k].at \in UnstartedPlaces
  BY <1>1 DEF UnstartedPlaces, LaunchPlaces
<1>3. PICK p \in Processes :
        /\ home[p] = None
        /\ home' = [home EXCEPT ![p] = s]
        /\ held' = [held EXCEPT ![p] = call[k].copy]
        /\ alive' = alive \cup {p}
        /\ call' = [call EXCEPT ![k].at = "started", ![k].pid = p]
  BY DEF StartProcess
<1> DEFINE request == [call[k] EXCEPT !.at = "started", !.pid = p]
<1>4. request \in Requests /\ request.at = "started" /\ request.on = s /\ request.pid = p
  BY Fields DEF Requests, RequestPlaces, MaybeProcess
<1>5. call' = [call EXCEPT ![k] = request]
  BY <1>3 DEF RegistryInv, TypeOK, CallTypes
<1> HIDE DEF request
<1>6. /\ MapTypes' /\ CallTypes' /\ Shapes' /\ OneLaunch'
      /\ call'[k] = request /\ \A j \in Calls : j # k => call'[j] = call[j]
  BY <1>1, <1>2, <1>4, <1>5, LaunchGoesOn DEF LaunchPlaces
<1>7. s \in Sessions /\ row[s] # "absent" /\ s # None /\ p # None
  BY <1>2, LaunchAlone, RegistryAssumption
<1>8. ProcessTypes' /\ home'[p] = s /\ \A q \in Processes : q # p => home'[q] = home[q]
  BY <1>1, <1>3, <1>7, Fields DEF RegistryInv, TypeOK, ProcessTypes, MaybeSession, Requests
<1>9. p \notin alive /\ waiter[p] = "none"
  <2>1. None \notin Sessions
    BY RegistryAssumption
  <2> QED
    BY <1>3, <2>1 DEF RegistryInv, Kept, Tied
<1>10. \A t \in Sessions : runtimes[t] # p
  BY <1>7, <1>9 DEF RegistryInv, Tied, Waiting
<1>11. Tied'
  <2>1. \A j \in Calls : call[j].at \in {"started", "saved"} => call[j].pid # p
    BY <1>3, RegistryAssumption, Fields DEF RegistryInv, Tied, Sessionless
  <2>2. \A j \in Calls : call'[j].at \in {"started", "saved"} => home'[call'[j].pid] = call'[j].on /\ waiter'[call'[j].pid] = "none"
    BY <1>1, <1>4, <1>6, <1>8, <1>9, <2>1, Fields DEF RegistryInv, Tied
  <2>3. \A t \in Sessions : runtimes'[t] # None =>
          home'[runtimes'[t]] = t /\ waiter'[runtimes'[t]] \in Waiting
    BY <1>1, <1>8, <1>10 DEF RegistryInv, TypeOK, MapTypes, MaybeProcess, Tied, registry
  <2> QED
    BY <1>1, <1>8, <1>9, <2>2, <2>3 DEF RegistryInv, Tied, Waiting, registry
<1>12. Kept'
  <2>1. \A q \in alive' : home'[q] \in Sessions /\ waiter'[q] \notin {"saved", "done"}
    BY <1>1, <1>3, <1>7, <1>8, <1>9 DEF RegistryInv, TypeOK, ProcessTypes, Kept
  <2>2. ASSUME NEW q \in alive' \ hung'
        PROVE  runtimes'[home'[q]] = q \/ \E j \in Calls : call'[j].at \in {"started", "saved"} /\ call'[j].pid = q
    <3>1. CASE q = p
      BY <1>4, <1>6, <3>1
    <3>2. CASE q # p
      <4>1. q \in alive \ hung /\ q \in Processes /\ home'[q] = home[q]
        BY <1>1, <1>3, <1>8, <3>2 DEF RegistryInv, TypeOK, ProcessTypes
      <4>2. runtimes[home[q]] = q \/ \E j \in Calls : j # k /\ call[j].at \in {"started", "saved"} /\ call[j].pid = q
        BY <1>1, <4>1 DEF RegistryInv, Kept
      <4> QED
        BY <1>1, <1>6, <4>1, <4>2 DEF registry
    <3> QED
      BY <3>1, <3>2
  <2> QED
    BY <2>1, <2>2 DEF Kept
<1>13. StoreTypes' /\ faults' \in 0..MaxFaults
  BY <1>1 DEF RegistryInv, TypeOK, StoreTypes, Present, store
<1>15. Recorded'
  <2>1. /\ \A q \in Processes : waiter'[q] \in Waiting => waiter[q] \in Waiting /\ home'[q] = home[q]
        /\ \A j \in Calls : call'[j].at = "saved" => call'[j] = call[j]
    BY <1>1, <1>4, <1>6, <1>8, <1>9 DEF Waiting
  <2> QED
    BY <1>1, <2>1 DEF RegistryInv, Recorded, Present, Current, store
<1>14. Known'
  BY <1>1, <1>4, <1>6, <1>7, <1>8 DEF RegistryInv, Known, store
<1> QED
  BY <1>6, <1>8, <1>11, <1>12, <1>13, <1>14, <1>15 DEF RegistryInv, TypeOK

LEMMA SaveProcessKeeps ==
  ASSUME RegistryInv, NEW k \in Calls, SaveProcess(k)
  PROVE  RegistryInv'
<1> DEFINE s == call[k].on
           log == EnsureRun(s)
           run == [log[Len(log)] EXCEPT !.process = call[k].pid, !.state = "running"]
<1>1. /\ call[k].at = "started" /\ Go(k, "saved") /\ UNCHANGED <<registry, procs>>
      /\ Write(s, Amend(log, run)) /\ UNCHANGED meta
  BY DEF SaveProcess, At, InStore
<1>2. call[k].at \in UnstartedPlaces /\ call[k].pid \in Processes
  BY <1>1, Fields DEF UnstartedPlaces, LaunchPlaces
<1>3. /\ MapTypes' /\ CallTypes' /\ Shapes' /\ OneLaunch'
      /\ call'[k].at = "saved" /\ call'[k].on = s /\ call'[k].pid = call[k].pid
      /\ \A j \in Calls : j # k => call'[j] = call[j]
  BY <1>1, <1>2, LaunchGoes DEF LaunchPlaces
<1>4. /\ StoreTypes' /\ row' = row /\ faults' = faults
      /\ \A t \in Sessions : t # s => Current(t)' = Current(t)
      /\ \A t \in Sessions : t = s => Current(t)'.process = call[k].pid
  <2>1. s \in Sessions /\ Present(s) /\ StoreTypes /\ meta' \in [Sessions -> MaybeMeta]
    BY <1>1, <1>2, LaunchAlone DEF Write, RegistryInv, TypeOK, StoreTypes
  <2>2. run \in Runs /\ run.process = call[k].pid
    BY <1>2, <2>1, EnsureRunIsLog DEF Runs, MaybeProcess
  <2>3. Amend(log, run) \in Seq(Runs) /\ Amend(log, run) # <<>> /\ Amend(log, run)[Len(Amend(log, run))] = run
    BY <2>1, <2>2, EnsureRunIsLog, AmendLast
  <2> DEFINE final == Amend(log, run)
  <2>4. Write(s, final) /\ final \in Seq(Runs) /\ final # <<>> /\ final[Len(final)].process = call[k].pid
    BY <1>1, <2>2, <2>3
  <2> HIDE DEF final
  <2> QED
    BY <2>1, <2>4, WriteKeeps
<1>5. Tied' /\ Kept' /\ ProcessTypes'
  BY <1>1, <1>3 DEF RegistryInv, TypeOK, ProcessTypes, Tied, Kept, registry, procs
<1>6. Recorded'
  <2>1. \A p \in Processes : waiter[p] \in Waiting => home[p] # s /\ home[p] \in Sessions
    BY <1>2, LaunchAlone DEF RegistryInv, Tied, Waiting
  <2>2. \A j \in Calls : j # k /\ call[j].at = "saved" => call[j].on # s /\ call[j].on \in Sessions
    BY <1>2, LaunchAlone, Fields DEF LaunchPlaces, Sessionless
  <2>3. ASSUME NEW p \in Processes, waiter'[p] \in Waiting, Present(home[p])'
        PROVE  Current(home[p])'.process = p
    BY <1>1, <1>4, <2>1, <2>3 DEF RegistryInv, Recorded, Present, procs
  <2>4. ASSUME NEW j \in Calls, call'[j].at = "saved", Present(call[j].on)'
        PROVE  Current(call[j].on)'.process = call'[j].pid
    <3>1. CASE j = k
      <4>1. s \in Sessions
        BY <1>2, LaunchAlone
      <4> QED
        BY <1>3, <1>4, <3>1, <4>1 DEF Current
    <3>2. CASE j # k
      BY <1>1, <1>3, <1>4, <2>2, <2>4, <3>2 DEF RegistryInv, Recorded, Present, procs
    <3> QED
      BY <3>1, <3>2
  <2> QED
    BY <2>3, <2>4 DEF Recorded
<1>7. Known'
  BY <1>1, <1>2, <1>3, <1>4, LaunchAlone DEF RegistryInv, Known, procs, LaunchPlaces
<1>8. faults' \in 0..MaxFaults
  BY <1>4 DEF RegistryInv, TypeOK
<1> QED
  BY <1>3, <1>4, <1>5, <1>6, <1>7, <1>8 DEF RegistryInv, TypeOK

LEMMA SaveProcessFailsKeeps ==
  ASSUME RegistryInv, NEW k \in Calls, SaveProcessFails(k)
  PROVE  RegistryInv'
<1>1. /\ call[k].at = "started" /\ Go(k, "failing") /\ UNCHANGED <<registry, alive, home, held, waiter>>
      /\ WriteFails(call[k].on) /\ hung' = hung \cup {call[k].pid}
  BY DEF SaveProcessFails, At, HangUp
<1>2. call[k].at \in UnstartedPlaces /\ call[k].pid \in Processes
  BY <1>1, Fields DEF UnstartedPlaces, LaunchPlaces
<1>3. /\ MapTypes' /\ CallTypes' /\ Shapes' /\ OneLaunch'
      /\ call'[k].at = "failing" /\ call'[k].on = call[k].on
      /\ \A j \in Calls : j # k => call'[j] = call[j]
  BY <1>1, <1>2, LaunchGoes DEF LaunchPlaces
<1>4. StoreTypes' /\ UNCHANGED store /\ faults' \in 0..MaxFaults
  BY <1>1, <1>2, LaunchAlone, WriteFailsKeeps DEF RegistryInv, TypeOK
<1>5. Tied' /\ ProcessTypes'
  BY <1>1, <1>2, <1>3 DEF RegistryInv, TypeOK, ProcessTypes, Tied, registry
<1>6. Kept'
  BY <1>1, <1>2, <1>3 DEF RegistryInv, Kept, registry
<1>7. Recorded'
  BY <1>1, <1>3, <1>4 DEF RegistryInv, Recorded, Present, Current, store
<1>8. Known'
  BY <1>1, <1>2, <1>3, <1>4, LaunchAlone DEF RegistryInv, Known, store, LaunchPlaces
<1> QED
  BY <1>3, <1>4, <1>5, <1>6, <1>7, <1>8 DEF RegistryInv, TypeOK

LEMMA RegisterKeeps ==
  ASSUME RegistryInv, NEW k \in Calls, Register(k)
  PROVE  RegistryInv'
<1> DEFINE s == call[k].on
           p == call[k].pid
<1>1. /\ call[k].at = "saved" /\ Go(k, "releasing")
      /\ runtimes' = [runtimes EXCEPT ![s] = p] /\ waiter' = [waiter EXCEPT ![p] = "waiting"]
      /\ UNCHANGED <<store, launching, alive, hung, home, held, faults>>
  BY DEF Register, At
<1>2. call[k].at \in UnstartedPlaces /\ p \in Processes /\ p # None
  BY <1>1, Fields, RegistryAssumption DEF UnstartedPlaces, LaunchPlaces
<1>3. /\ s \in Sessions /\ row[s] # "absent" /\ runtimes[s] = None
      /\ \A j \in Calls : j # k /\ call[j].at \in LaunchPlaces => call[j].on # s
      /\ home[p] = s /\ waiter[p] = "none"
  BY <1>1, <1>2, LaunchAlone DEF RegistryInv, Tied
<1>4. /\ call'[k].at = "releasing" /\ call'[k].on = s /\ call' \in [Calls -> Requests]
      /\ \A j \in Calls : j # k => call'[j] = call[j]
  <2> DEFINE request == [call[k] EXCEPT !.at = "releasing"]
  <2>1. request \in Requests /\ request.at = "releasing" /\ request.on = s
    BY Fields DEF Requests, RequestPlaces
  <2>2. call' = [call EXCEPT ![k] = request]
    BY <1>1 DEF Go
  <2> HIDE DEF request
  <2> QED
    BY <2>1, <2>2 DEF RegistryInv, TypeOK, CallTypes
<1>5. /\ runtimes' \in [Sessions -> MaybeProcess] /\ runtimes'[s] = p
      /\ \A t \in Sessions : t # s => runtimes'[t] = runtimes[t]
      /\ waiter' \in [Processes -> {"none", "waiting", "saved", "done", "lost"}] /\ waiter'[p] = "waiting"
      /\ \A q \in Processes : q # p => waiter'[q] = waiter[q]
  BY <1>1, <1>2, <1>3 DEF RegistryInv, TypeOK, MapTypes, ProcessTypes, MaybeProcess
<1>6. MapTypes' /\ CallTypes' /\ ProcessTypes' /\ StoreTypes' /\ faults' \in 0..MaxFaults
  BY <1>1, <1>4, <1>5 DEF RegistryInv, TypeOK, MapTypes, CallTypes, ProcessTypes, StoreTypes, Present, store
<1>7. Shapes'
  BY <1>3, <1>4 DEF RegistryInv, Shapes, Shape
<1>8. OneLaunch'
  <2>1. /\ Launchers' = Launchers /\ Unstarted' = Unstarted \ {k} /\ k \in Launchers
        /\ \A j \in Calls : call'[j].on = call[j].on
    BY <1>1, <1>4 DEF Launchers, Unstarted
  <2>2. \A j \in Unstarted' : call[j].on \in Sessions /\ call[j].on # s /\ j \in Calls
    BY <1>3, <2>1, Fields DEF Unstarted, LaunchPlaces, Sessionless
  <2> QED
    BY <1>1, <1>5, <2>1, <2>2 DEF RegistryInv, OneLaunch, Launchers
<1>9. Tied'
  <2>1. \A j \in Calls : j # k /\ call[j].at \in {"started", "saved"} => call[j].pid # p /\ call[j].pid \in Processes
    BY <1>3, Fields DEF RegistryInv, Tied, LaunchPlaces
  <2>2. \A j \in Calls : call'[j].at \in {"started", "saved"} => home'[call'[j].pid] = call'[j].on /\ waiter'[call'[j].pid] = "none"
    BY <1>1, <1>4, <1>5, <2>1 DEF RegistryInv, Tied
  <2>3. \A t \in Sessions : runtimes'[t] # None => home'[runtimes'[t]] = t /\ waiter'[runtimes'[t]] \in Waiting
    <3>1. ASSUME NEW t \in Sessions, runtimes'[t] # None
          PROVE  home'[runtimes'[t]] = t /\ waiter'[runtimes'[t]] \in Waiting
      <4>1. CASE t = s
        BY <1>1, <1>3, <1>5, <4>1 DEF Waiting
      <4>2. CASE t # s
        <5>1. runtimes[t] \in Processes /\ home[runtimes[t]] = t /\ runtimes[t] # p /\ runtimes'[t] = runtimes[t]
          BY <1>3, <1>5, <3>1, <4>2 DEF RegistryInv, TypeOK, MapTypes, MaybeProcess, Tied
        <5> QED
          BY <1>1, <1>5, <3>1, <5>1 DEF RegistryInv, Tied
      <4> QED
        BY <4>1, <4>2
    <3> QED
      BY <3>1
  <2>4. \A q \in Processes : waiter'[q] # "none" => home'[q] \in Sessions
    BY <1>1, <1>3, <1>5 DEF RegistryInv, Tied
  <2>5. \A q \in Processes : waiter'[q] \in Waiting => runtimes'[home'[q]] = q
    BY <1>1, <1>2, <1>3, <1>5, LaunchAlone DEF RegistryInv, Tied, Waiting
  <2> QED
    BY <2>2, <2>3, <2>4, <2>5 DEF Tied
<1>10. Kept'
  <2>1. \A q \in alive : q \in Processes /\ home[q] \in Sessions /\ waiter[q] \notin {"saved", "done"}
    BY DEF RegistryInv, TypeOK, ProcessTypes, Kept
  <2>2. \A q \in alive' : home'[q] \in Sessions /\ waiter'[q] \notin {"saved", "done"}
    BY <1>1, <1>5, <2>1
  <2>3. ASSUME NEW q \in alive' \ hung'
        PROVE  runtimes'[home'[q]] = q \/ \E j \in Calls : call'[j].at \in {"started", "saved"} /\ call'[j].pid = q
    <3>1. CASE q = p
      BY <1>1, <1>3, <1>5, <3>1
    <3>2. CASE q # p /\ runtimes[home[q]] = q
      BY <1>1, <1>3, <1>5, <2>1, <3>2, RegistryAssumption
    <3>3. CASE q # p /\ \E j \in Calls : call[j].at \in {"started", "saved"} /\ call[j].pid = q
      BY <1>4, <3>3
    <3> QED
      BY <1>1, <3>1, <3>2, <3>3 DEF RegistryInv, Kept
  <2> QED
    BY <2>2, <2>3 DEF Kept
<1>11. Recorded'
  BY <1>1, <1>3, <1>4, <1>5 DEF RegistryInv, Recorded, Present, Current, store
<1>12. Known'
  BY <1>1, <1>3, <1>4 DEF RegistryInv, Known, store
<1> QED
  BY <1>6, <1>7, <1>8, <1>9, <1>10, <1>11, <1>12 DEF RegistryInv, TypeOK

LEMMA ClaimKeeps ==
  ASSUME RegistryInv, NEW k \in Calls, Claim(k)
  PROVE  RegistryInv'
<1> DEFINE s == call[k].on
<1>1. /\ call[k].at = "claiming" /\ runtimes[s] = None /\ s \notin launching
      /\ launching' = launching \cup {s}
      /\ UNCHANGED <<store, procs, faults, runtimes>>
  BY DEF Claim, At, Claimable, InMaps
<1>2. s \in Sessions /\ row[s] # "absent"
  BY <1>1, Fields DEF RegistryInv, Known, Sessionless
<1>3. /\ call'[k].at \in {"launching", "claimed"} /\ call'[k].on = s /\ call' \in [Calls -> Requests]
      /\ \A j \in Calls : j # k => call'[j] = call[j]
  <2>1. PICK there \in {"launching", "claimed"} : Go(k, there)
    BY DEF Claim
  <2> DEFINE request == [call[k] EXCEPT !.at = there]
  <2>2. request \in Requests /\ request.at = there /\ request.on = s
    BY Fields DEF Requests, RequestPlaces
  <2>3. call' = [call EXCEPT ![k] = request]
    BY <2>1 DEF Go
  <2> HIDE DEF request
  <2> QED
    BY <2>2, <2>3 DEF RegistryInv, TypeOK, CallTypes
<1>4. MapTypes' /\ CallTypes' /\ ProcessTypes' /\ StoreTypes' /\ faults' \in 0..MaxFaults
  BY <1>1, <1>2, <1>3 DEF RegistryInv, TypeOK, MapTypes, CallTypes, ProcessTypes, StoreTypes, Present, store, procs
<1>5. Shapes'
  BY <1>2, <1>3 DEF RegistryInv, Shapes, Shape
<1>6. OneLaunch'
  <2>1. /\ Launchers' = Launchers \cup {k} /\ Unstarted' = Unstarted \cup {k} /\ k \notin Launchers
        /\ \A j \in Calls : call'[j].on = call[j].on
    BY <1>1, <1>3 DEF Launchers, Unstarted
  <2>2. \A j \in Launchers : call[j].on # s /\ j \in Calls
    BY <1>1 DEF RegistryInv, OneLaunch, Launchers, Unstarted
  <2>3. Unstarted \subseteq Calls
    BY DEF Unstarted
  <2> QED
    BY <1>1, <2>1, <2>2, <2>3 DEF RegistryInv, OneLaunch
<1>7. Tied' /\ Kept' /\ Recorded' /\ Known'
  <2>1. Tied' /\ Kept'
    BY <1>1, <1>3 DEF RegistryInv, Tied, Kept, procs
  <2>2. Recorded'
    BY <1>1, <1>3 DEF RegistryInv, Recorded, Present, Current, store, procs
  <2>3. Known'
    BY <1>1, <1>2, <1>3 DEF RegistryInv, Known, store, procs
  <2> QED
    BY <2>1, <2>2, <2>3
<1> QED
  BY <1>4, <1>5, <1>6, <1>7 DEF RegistryInv, TypeOK

LEMMA ReleaseKeeps ==
  ASSUME RegistryInv, NEW k \in Calls, Release(k)
  PROVE  RegistryInv'
<1> DEFINE s == call[k].on
<1>1. /\ call[k].at \in {"releasing", "failing"}
      /\ launching' = launching \ {s}
      /\ UNCHANGED <<store, procs, faults, runtimes>>
  BY DEF Release, At, InMaps
<1>2. s \in Sessions
  BY <1>1, Fields DEF Sessionless
<1>3. /\ call' \in [Calls -> Requests] /\ \A j \in Calls : j # k => call'[j] = call[j]
      /\ call'[k].at = "done" \/ (call'[k].at = "failed" /\ call'[k].on = s)
  <2>1. CASE Answer(k)
    <3>1. Answered \in Requests /\ Answered.at = "done"
      BY DEF Answered, NotMade, Requests, RequestPlaces, RequestKinds, MaybeSession, MaybeMeta, MaybeProcess
    <3> QED
      BY <2>1, <3>1 DEF Answer, RegistryInv, TypeOK, CallTypes
  <2>2. CASE Go(k, "failed")
    <3> DEFINE request == [call[k] EXCEPT !.at = "failed"]
    <3>1. request \in Requests /\ request.at = "failed" /\ request.on = s
      BY Fields DEF Requests, RequestPlaces
    <3>2. call' = [call EXCEPT ![k] = request]
      BY <2>2 DEF Go
    <3> HIDE DEF request
    <3> QED
      BY <3>1, <3>2 DEF RegistryInv, TypeOK, CallTypes
  <2> QED
    BY <2>1, <2>2 DEF Release
<1>4. MapTypes' /\ CallTypes' /\ ProcessTypes' /\ StoreTypes' /\ faults' \in 0..MaxFaults
  BY <1>1, <1>3 DEF RegistryInv, TypeOK, MapTypes, CallTypes, ProcessTypes, StoreTypes, Present, store, procs
<1>5. Shapes'
  BY <1>2, <1>3 DEF RegistryInv, Shapes, Shape, Sessionless, LaunchPlaces
<1>6. OneLaunch'
  <2>1. /\ Launchers' = Launchers \ {k} /\ Unstarted' = Unstarted \ {k} /\ k \in Launchers
        /\ \A j \in Calls : j # k => call'[j].on = call[j].on
    BY <1>1, <1>3 DEF Launchers, Unstarted
  <2>2. Launchers \subseteq Calls /\ Unstarted \subseteq Calls
    BY DEF Launchers, Unstarted
  <2>3. \A j \in Launchers' : j # k /\ j \in Launchers /\ call'[j].on = call[j].on /\ call[j].on # s
    BY <2>1, <2>2 DEF RegistryInv, OneLaunch
  <2>4. launching' = {call'[j].on : j \in Launchers'}
    BY <1>1, <2>1, <2>3 DEF RegistryInv, OneLaunch
  <2>5. \A i, j \in Launchers' : call'[i].on = call'[j].on => i = j
    BY <2>3 DEF RegistryInv, OneLaunch
  <2>6. \A j \in Unstarted' : runtimes'[call'[j].on] = None
    BY <1>1, <2>1, <2>2 DEF RegistryInv, OneLaunch
  <2> QED
    BY <2>4, <2>5, <2>6 DEF OneLaunch
<1>7. Tied' /\ Kept' /\ Recorded' /\ Known'
  <2>1. Tied' /\ Kept'
    BY <1>1, <1>3 DEF RegistryInv, Tied, Kept, procs
  <2>2. Recorded'
    BY <1>1, <1>3 DEF RegistryInv, Recorded, Present, Current, store, procs
  <2>3. Known'
    BY <1>1, <1>3 DEF RegistryInv, Known, store, procs, LaunchPlaces
  <2> QED
    BY <2>1, <2>2, <2>3
<1> QED
  BY <1>4, <1>5, <1>6, <1>7 DEF RegistryInv, TypeOK

LEMMA SaveFailedKeeps ==
  ASSUME RegistryInv, NEW k \in Calls, SaveFailed(k), At(k, "failing")
  PROVE  RegistryInv'
<1> DEFINE s == call[k].on
<1>1. call[k].at = "failing" /\ Go(k, "releasing") /\ SaveState(s, "failed") /\ UNCHANGED <<registry, procs>>
  BY DEF SaveFailed, At, InStore
<1>2. call[k].at \in UnstartedPlaces
  BY <1>1 DEF UnstartedPlaces, LaunchPlaces
<1>3. /\ MapTypes' /\ CallTypes' /\ Shapes' /\ OneLaunch'
      /\ call'[k].at = "releasing" /\ call'[k].on = s
      /\ \A j \in Calls : j # k => call'[j] = call[j]
  BY <1>1, <1>2, LaunchGoes DEF LaunchPlaces
<1>4. s \in Sessions /\ StoreTypes /\ faults \in 0..MaxFaults
  BY <1>2, LaunchAlone DEF RegistryInv, TypeOK
<1>5. /\ StoreTypes' /\ faults' \in 0..MaxFaults /\ row' = row
      /\ \A t \in Sessions : Present(t) => Current(t)'.process = Current(t).process
  BY <1>1, <1>4, SaveStateKeeps DEF Terminals
<1>6. Tied' /\ Kept' /\ ProcessTypes'
  BY <1>1, <1>3 DEF RegistryInv, TypeOK, ProcessTypes, Tied, Kept, registry, procs
<1>7. Recorded'
  <2>1. \A p \in Processes : waiter[p] \in Waiting => home[p] \in Sessions
    BY DEF RegistryInv, Tied, Waiting
  <2>2. \A j \in Calls : call[j].at = "saved" => call[j].on \in Sessions
    BY Fields DEF Sessionless
  <2> QED
    BY <1>1, <1>3, <1>5, <2>1, <2>2 DEF RegistryInv, Recorded, Present, procs
<1>8. Known'
  BY <1>1, <1>2, <1>3, <1>5, LaunchAlone DEF RegistryInv, Known, procs, LaunchPlaces
<1> QED
  BY <1>3, <1>5, <1>6, <1>7, <1>8 DEF RegistryInv, TypeOK

-----------------------------------------------------------------------------
(* The other actions *)

LEMMA CloseLiveKeeps ==
  ASSUME RegistryInv, NEW k \in Calls, CloseLive(k)
  PROVE  RegistryInv'
<1>1. /\ call[k].at = "closing" /\ Go(k, "waiting") /\ hung' = hung \cup {call[k].pid}
      /\ UNCHANGED <<store, registry, alive, home, held, waiter, faults>>
  BY DEF CloseLive, At
<1>2. call[k].pid \in Processes /\ call[k].on \in Sessions
  BY <1>1, Fields DEF Sessionless
<1>3. /\ call' \in [Calls -> Requests] /\ \A j \in Calls : j # k => call'[j] = call[j]
      /\ call'[k].at = "waiting" /\ call'[k].on = call[k].on
  <2> DEFINE request == [call[k] EXCEPT !.at = "waiting"]
  <2>1. request \in Requests /\ request.at = "waiting" /\ request.on = call[k].on
    BY Fields DEF Requests, RequestPlaces
  <2>2. call' = [call EXCEPT ![k] = request]
    BY <1>1 DEF Go
  <2> HIDE DEF request
  <2> QED
    BY <2>1, <2>2 DEF RegistryInv, TypeOK, CallTypes
<1>4. MapTypes' /\ CallTypes' /\ ProcessTypes' /\ StoreTypes' /\ faults' \in 0..MaxFaults
  BY <1>1, <1>2, <1>3 DEF RegistryInv, TypeOK, MapTypes, CallTypes, ProcessTypes, StoreTypes, Present, store, registry
<1>5. Shapes'
  BY <1>2, <1>3 DEF RegistryInv, Shapes, Shape, LaunchPlaces
<1>6. OneLaunch'
  <2>1. Launchers' = Launchers /\ Unstarted' = Unstarted /\ \A j \in Calls : call'[j].on = call[j].on
    BY <1>1, <1>3 DEF Launchers, Unstarted
  <2> QED
    BY <1>1, <2>1 DEF RegistryInv, OneLaunch, Launchers, Unstarted, registry
<1>7. Tied' /\ Kept'
  BY <1>1, <1>3 DEF RegistryInv, Tied, Kept, registry
<1>8. Recorded' /\ Known'
  BY <1>1, <1>3 DEF RegistryInv, Recorded, Known, Present, Current, store, LaunchPlaces
<1> QED
  BY <1>4, <1>5, <1>6, <1>7, <1>8 DEF RegistryInv, TypeOK

LEMMA DieKeeps ==
  ASSUME RegistryInv, NEW p \in Processes, Die(p)
  PROVE  RegistryInv'
<1>1. alive' \subseteq alive /\ UNCHANGED <<store, registry, call, hung, home, held, waiter, faults>>
  BY DEF Die
<1>2. TypeOK' /\ Shapes'
  BY <1>1 DEF RegistryInv, TypeOK, StoreTypes, MapTypes, CallTypes, ProcessTypes, Shapes, Shape, Present, store, registry
<1>3. OneLaunch' /\ Tied' /\ Kept'
  BY <1>1 DEF RegistryInv, OneLaunch, Launchers, Unstarted, Tied, Kept, registry
<1>4. Recorded' /\ Known'
  BY <1>1 DEF RegistryInv, Recorded, Known, Present, Current, store
<1> QED
  BY <1>2, <1>3, <1>4 DEF RegistryInv

\* The exit is written to the current run, whose process stays.
LEMMA SaveExitKeeps ==
  ASSUME RegistryInv, NEW p \in Processes, SaveExit(p)
  PROVE  RegistryInv' /\ \A t \in Sessions : row[t] # "absent" /\ Terminal(t) => Terminal(t)'
<1> DEFINE s == home[p]
<1>1. /\ waiter[p] = "waiting" /\ p \notin alive /\ waiter' = [waiter EXCEPT ![p] = "saved"]
      /\ UNCHANGED <<registry, call, alive, hung, home, held>>
  BY DEF SaveExit
<1>2. s \in Sessions /\ StoreTypes /\ faults \in 0..MaxFaults
  BY <1>1 DEF RegistryInv, Tied, TypeOK
<1>3. /\ StoreTypes' /\ faults' \in 0..MaxFaults /\ row' = row
      /\ \A t \in Sessions : Present(t) => Current(t)'.process = Current(t).process
      /\ \A t \in Sessions : row[t] # "absent" /\ Terminal(t) => Terminal(t)'
  <2>1. CASE WriteFails(s)
    BY <1>2, <2>1, WriteFailsKeeps DEF store, Current, Terminal
  <2>2. CASE \E state \in Terminals :
               Write(s, Amend(runs[s], [Current(s) EXCEPT !.exit = p, !.state = state]))
    <3>1. PICK state \in Terminals :
            Write(s, Amend(runs[s], [Current(s) EXCEPT !.exit = p, !.state = state]))
      BY <2>2
    <3> DEFINE run == [Current(s) EXCEPT !.exit = p, !.state = state]
               log == Amend(runs[s], run)
    <3>2. Present(s)
      BY <3>1 DEF Write
    <3>3. run \in Runs /\ run.process = Current(s).process /\ run.state \in Terminals
      BY <1>2, <3>2, CurrentIsRun DEF Runs, MaybeProcess
    <3>4. Write(s, log) /\ log \in Seq(Runs) /\ log # <<>> /\ log[Len(log)] = run
      BY <1>2, <3>1, <3>2, <3>3, AmendLast, EnsureRunIsLog
    <3>5. meta' \in [Sessions -> MaybeMeta]
      <4>1. meta' = meta \/ meta' = [meta EXCEPT ![s] = held[p]] \/ UNCHANGED store
        BY DEF SaveExit, WriteFails
      <4> QED
        BY <4>1 DEF RegistryInv, TypeOK, StoreTypes, ProcessTypes, store
    <3> HIDE DEF log, run
    <3>6. /\ StoreTypes' /\ row' = row /\ faults' = faults
          /\ \A t \in Sessions : Current(t)' = IF t = s THEN run ELSE Current(t)
      BY <1>2, <3>4, <3>5, WriteKeeps
    <3> QED
      BY <1>2, <3>3, <3>6 DEF Terminal
  <2> QED
    BY <2>1, <2>2 DEF SaveExit
<1>4. /\ waiter' \in [Processes -> {"none", "waiting", "saved", "done", "lost"}] /\ waiter'[p] = "saved"
      /\ \A q \in Processes : q # p => waiter'[q] = waiter[q]
  BY <1>1 DEF RegistryInv, TypeOK, ProcessTypes
<1>5. MapTypes' /\ CallTypes' /\ ProcessTypes' /\ Shapes' /\ OneLaunch'
  BY <1>1, <1>4 DEF RegistryInv, TypeOK, MapTypes, CallTypes, ProcessTypes, Shapes, Shape, OneLaunch,
                    Launchers, Unstarted, registry
<1>6. Tied'
  <2>1. \A j \in Calls : call[j].at \in {"started", "saved"} => call[j].pid \in Processes
    BY Fields
  <2>2. \A t \in Sessions : runtimes[t] # None => runtimes[t] \in Processes
    BY DEF RegistryInv, TypeOK, MapTypes, MaybeProcess
  <2> QED
    BY <1>1, <1>2, <1>4, <2>1, <2>2 DEF RegistryInv, Tied, Waiting, registry
<1>7. Kept'
  BY <1>1, <1>4 DEF RegistryInv, TypeOK, ProcessTypes, Kept, registry
<1>8. Recorded'
  <2>1. \A q \in Processes : waiter'[q] \in Waiting => waiter[q] \in Waiting /\ home[q] \in Sessions
    BY <1>1, <1>4 DEF RegistryInv, Tied, Waiting
  <2>2. \A j \in Calls : call[j].at = "saved" => call[j].on \in Sessions
    BY Fields DEF Sessionless
  <2> QED
    BY <1>1, <1>3, <2>1, <2>2 DEF RegistryInv, Recorded, Present
<1>9. Known'
  BY <1>1, <1>3 DEF RegistryInv, Known
<1> QED
  BY <1>3, <1>5, <1>6, <1>7, <1>8, <1>9 DEF RegistryInv, TypeOK

\* removeRuntime takes away the runtime of the process that ended: the map holds no other.
LEMMA RemoveRuntimeKeeps ==
  ASSUME RegistryInv, NEW p \in Processes, RemoveRuntime(p)
  PROVE  RegistryInv' /\ runtimes[home[p]] = p
<1> DEFINE s == home[p]
<1>1. /\ waiter[p] = "saved" /\ waiter' = [waiter EXCEPT ![p] = "done"]
      /\ runtimes' = [runtimes EXCEPT ![s] = None]
      /\ UNCHANGED <<store, launching, call, alive, hung, home, held, faults>>
  BY DEF RemoveRuntime
<1>2. s \in Sessions /\ runtimes[s] = p
  BY <1>1 DEF RegistryInv, Tied, Waiting
<1>3. /\ waiter' \in [Processes -> {"none", "waiting", "saved", "done", "lost"}] /\ waiter'[p] = "done"
      /\ \A q \in Processes : q # p => waiter'[q] = waiter[q]
      /\ runtimes' \in [Sessions -> MaybeProcess] /\ runtimes'[s] = None
      /\ \A t \in Sessions : t # s => runtimes'[t] = runtimes[t]
  BY <1>1, <1>2 DEF RegistryInv, TypeOK, MapTypes, MaybeProcess, ProcessTypes
<1>4. TypeOK' /\ Shapes'
  BY <1>1, <1>3 DEF RegistryInv, TypeOK, StoreTypes, MapTypes, CallTypes, ProcessTypes, Shapes, Shape, Present, store
<1>5. OneLaunch'
  <2>1. \A j \in Unstarted : call[j].on \in Sessions
    BY Fields DEF Unstarted, Sessionless
  <2> QED
    BY <1>1, <1>3, <2>1 DEF RegistryInv, OneLaunch, Launchers, Unstarted
<1>6. Tied'
  <2>1. \A j \in Calls : call[j].at \in {"started", "saved"} => call[j].pid \in Processes
    BY Fields
  <2>2. \A t \in Sessions : t # s /\ runtimes[t] # None => runtimes[t] \in Processes /\ runtimes[t] # p
    BY <1>2 DEF RegistryInv, TypeOK, MapTypes, MaybeProcess, Tied
  <2>3. \A q \in Processes : q # p /\ waiter[q] \in Waiting => home[q] # s /\ home[q] \in Sessions
    BY <1>2 DEF RegistryInv, Tied, Waiting
  <2> QED
    BY <1>1, <1>2, <1>3, <2>1, <2>2, <2>3 DEF RegistryInv, Tied, Waiting
<1>7. Kept'
  <2>1. p \notin alive
    BY <1>1 DEF RegistryInv, Kept
  <2>2. ASSUME NEW q \in alive
        PROVE  q \in Processes /\ q # p /\ home[q] \in Sessions /\ waiter[q] \notin {"saved", "done"}
    BY <2>1, <2>2 DEF RegistryInv, TypeOK, ProcessTypes, Kept
  <2>3. ASSUME NEW q \in alive, runtimes[home[q]] = q
        PROVE  runtimes'[home[q]] = q
    BY <1>2, <1>3, <2>2, <2>3
  <2> QED
    BY <1>1, <1>3, <2>2, <2>3 DEF RegistryInv, Kept
<1>8. Recorded'
  <2>1. \A q \in Processes : waiter'[q] \in Waiting => waiter[q] \in Waiting
    BY <1>1, <1>3 DEF Waiting
  <2> QED
    BY <1>1, <2>1 DEF RegistryInv, Recorded, Present, Current, store
<1>9. Known'
  BY <1>1 DEF RegistryInv, Known, store
<1> QED
  BY <1>2, <1>4, <1>5, <1>6, <1>7, <1>8, <1>9 DEF RegistryInv, TypeOK

LEMMA CrashKeeps ==
  ASSUME RegistryInv, Crash
  PROVE  RegistryInv'
<1>1. /\ faults' \in 0..MaxFaults /\ launching' = {} /\ runtimes' = [s \in Sessions |-> None]
      /\ call' = [k \in Calls |-> IF call[k] = NotMade THEN NotMade ELSE Answered]
      /\ hung' = {p \in Processes : home[p] # None}
      /\ waiter' = [p \in Processes |-> IF waiter[p] \in {"waiting", "saved"} THEN "lost" ELSE waiter[p]]
      /\ UNCHANGED <<store, alive, home, held>>
  BY RegistryAssumption DEF Crash, Fault, RegistryInv, TypeOK
<1>2. NotMade \in Requests /\ NotMade.at = "idle" /\ Answered \in Requests /\ Answered.at = "done"
  BY DEF Answered, NotMade, Requests, RequestPlaces, RequestKinds, MaybeSession, MaybeMeta, MaybeProcess
<1>3. call' \in [Calls -> Requests] /\ \A k \in Calls : call'[k].at \in {"idle", "done"}
  BY <1>1, <1>2
<1>4. /\ waiter' \in [Processes -> {"none", "waiting", "saved", "done", "lost"}]
      /\ \A p \in Processes : waiter'[p] \notin Waiting
      /\ \A p \in Processes : waiter'[p] # "none" => waiter[p] # "none"
      /\ \A p \in Processes : waiter'[p] \in {"saved", "done"} => waiter[p] \in {"saved", "done"}
  BY <1>1 DEF RegistryInv, TypeOK, ProcessTypes, Waiting
<1>5. MapTypes' /\ CallTypes' /\ ProcessTypes'
  BY <1>1, <1>3, <1>4 DEF RegistryInv, TypeOK, MapTypes, CallTypes, ProcessTypes, MaybeProcess
<1>6. StoreTypes'
  BY <1>1 DEF RegistryInv, TypeOK, StoreTypes, Present, store
<1>7. Shapes'
  BY <1>3 DEF Shapes, Shape, Sessionless, LaunchPlaces
<1>8. OneLaunch'
  <2>1. Launchers' = {} /\ Unstarted' = {}
    BY <1>3 DEF Launchers, Unstarted
  <2> QED
    BY <1>1, <2>1 DEF OneLaunch
<1>9. Tied'
  BY <1>1, <1>3, <1>4 DEF RegistryInv, Tied
<1>10. Kept'
  BY <1>1, <1>4, RegistryAssumption DEF RegistryInv, TypeOK, ProcessTypes, Kept
<1>11. Recorded' /\ Known'
  BY <1>1, <1>3, <1>4 DEF RegistryInv, Recorded, Known, store, LaunchPlaces
<1> QED
  BY <1>1, <1>5, <1>6, <1>7, <1>8, <1>9, <1>10, <1>11 DEF RegistryInv, TypeOK

-----------------------------------------------------------------------------
(* The invariant and the theorems *)

LEMMA InitHolds == Init => RegistryInv
<1> SUFFICES ASSUME Init
             PROVE  RegistryInv
  OBVIOUS
<1>1. NotMade \in Requests /\ NotMade.at = "idle"
  BY DEF NotMade, Requests, RequestPlaces, RequestKinds, MaybeSession, MaybeMeta, MaybeProcess
<1>2. StoreTypes
  BY DEF Init, StoreTypes, Present, MaybeMeta
<1>3. MapTypes /\ CallTypes /\ ProcessTypes /\ faults \in 0..MaxFaults
  BY <1>1, RegistryAssumption DEF Init, MapTypes, CallTypes, ProcessTypes, MaybeProcess, MaybeSession, MaybeMeta
<1>4. Shapes /\ Known
  BY <1>1, RegistryAssumption DEF Init, Shapes, Shape, Sessionless, LaunchPlaces, Known
<1>5. OneLaunch
  <2>1. Launchers = {} /\ Unstarted = {}
    BY <1>1 DEF Init, Launchers, Unstarted
  <2> QED
    BY <2>1 DEF Init, OneLaunch
<1>6. Tied /\ Kept /\ Recorded
  BY <1>1 DEF Init, Tied, Kept, Recorded, Waiting
<1> QED
  BY <1>2, <1>3, <1>4, <1>5, <1>6 DEF RegistryInv, TypeOK

\* A step is of a request without a claim, of a launch, of a waitLoop, or from outside.
Settling(k) == CloseSave(k) \/ MarkState(k) \/ (SaveFailed(k) /\ At(k, "failed"))
Launching(k) ==
  \/ Claim(k) \/ BeginRun(k) \/ StartProcess(k) \/ StartFails(k) \/ SaveProcess(k)
  \/ SaveProcessFails(k) \/ Register(k) \/ Release(k) \/ (SaveFailed(k) /\ At(k, "failing"))

LEMMA StepKinds ==
  ASSUME NEW k \in Calls, Request(k)
  PROVE  \/ Reading(k) \/ Settling(k) \/ Create(k) \/ UpdateSave(k) \/ DeleteStore(k)
         \/ Launching(k) \/ CloseLive(k)
<1>1. SaveFailed(k) => At(k, "failed") \/ At(k, "failing")
  BY DEF SaveFailed
<1> QED
  BY <1>1 DEF Request, CreateSession, RerunSession, Launch, CloseSession, UpdateSession, Delete, ListSessions,
              Reading, Settling, Launching

LEMMA LaunchingKeeps ==
  ASSUME RegistryInv, NEW k \in Calls, Launching(k)
  PROVE  RegistryInv'
  BY ClaimKeeps, BeginRunKeeps, StartProcessKeeps, StartFailsKeeps, SaveProcessKeeps, SaveProcessFailsKeeps,
     RegisterKeeps, ReleaseKeeps, SaveFailedKeeps DEF Launching

LEMMA StepHolds == RegistryInv /\ [Next]_vars => RegistryInv'
<1> SUFFICES ASSUME RegistryInv, [Next]_vars
             PROVE  RegistryInv'
  OBVIOUS
<1>1. ASSUME NEW k \in Calls, Request(k)
      PROVE  RegistryInv'
  BY <1>1, StepKinds, ReadingKeeps, SettlingKeeps, CreateKeeps, UpdateKeeps, DeleteKeeps, LaunchingKeeps,
     CloseLiveKeeps DEF Settling
<1>2. ASSUME NEW p \in Processes, WaitLoop(p) \/ Die(p)
      PROVE  RegistryInv'
  BY <1>2, SaveExitKeeps, RemoveRuntimeKeeps, DieKeeps DEF WaitLoop
<1>3. CASE Crash
  BY <1>3, CrashKeeps
<1>4. CASE UNCHANGED vars
  <2>1. TypeOK' /\ Shapes'
    BY <1>4 DEF RegistryInv, TypeOK, StoreTypes, MapTypes, CallTypes, ProcessTypes, Shapes, Shape, Present,
                vars, store, registry, procs
  <2>2. OneLaunch' /\ Tied' /\ Kept'
    BY <1>4 DEF RegistryInv, OneLaunch, Launchers, Unstarted, Tied, Kept, vars, registry, procs
  <2>3. Recorded' /\ Known'
    BY <1>4 DEF RegistryInv, Recorded, Known, Present, Current, vars, store, procs
  <2> QED
    BY <2>1, <2>2, <2>3 DEF RegistryInv
<1> QED
  BY <1>1, <1>2, <1>3, <1>4 DEF Next

\* Every behaviour of the registry keeps the inductive invariant.
THEOREM RegistryInvHolds == Spec => []RegistryInv
  BY InitHolds, StepHolds, PTL DEF Spec

\* The variables of the registry have their types, and a session that is there has a run.
THEOREM RegistryTypesHold == Spec => []TypeOK
<1>1. RegistryInv => TypeOK
  BY DEF RegistryInv
<1> QED
  BY <1>1, RegistryInvHolds, PTL

\* A session is launched by one call at a time, while it has no runtime.
THEOREM OneLaunchHolds == Spec => []OneLaunch
<1>1. RegistryInv => OneLaunch
  BY DEF RegistryInv
<1> QED
  BY <1>1, RegistryInvHolds, PTL

\* A runtime is registered under its session until its exit is written, and is that of
\* the session's current run.
THEOREM RuntimeOwnsRunHolds == Spec => []RuntimeOwnsRun
<1>1. RegistryInv => RuntimeOwnsRun
  BY DEF RegistryInv, Tied, Recorded, RuntimeOwnsRun, Waiting
<1> QED
  BY <1>1, RegistryInvHolds, PTL

\* No process is left with an open PTY and nobody to close it.
THEOREM NoLeakHolds == Spec => []NoLeak
<1>1. RegistryInv => NoLeak
  BY DEF RegistryInv, Kept, NoLeak, Unstarted
<1> QED
  BY <1>1, RegistryInvHolds, PTL

\* Only a launch makes a terminal session run again.
LEMMA RevivalHolds == RegistryInv /\ [Next]_vars => RevivalStep
<1> SUFFICES ASSUME RegistryInv, [Next]_vars
             PROVE  RevivalStep
  OBVIOUS
<1>1. ASSUME UNCHANGED runs
      PROVE  RevivalStep
  BY <1>1 DEF RevivalStep, Terminal, Current
<1>2. ASSUME NEW k \in Calls, Request(k)
      PROVE  RevivalStep
  <2>1. CASE Reading(k)
    BY <1>1, <2>1, ReadingIsQuiet DEF store
  <2>2. ASSUME NEW s \in Sessions, NEW state \in Terminals, SaveState(s, state)
        PROVE  RevivalStep
    <3>1. StoreTypes /\ faults \in 0..MaxFaults
      BY DEF RegistryInv, TypeOK
    <3> QED
      BY <2>2, <3>1, SaveStateKeeps DEF RevivalStep
  <2>3. CASE Settling(k) \/ (SaveFailed(k) /\ At(k, "failing"))
    <3>1. call[k].on \in Sessions
      BY <2>3, Fields DEF Settling, CloseSave, MarkState, At, Sessionless
    <3>2. PICK state \in Terminals : SaveState(call[k].on, state)
      BY <2>3 DEF Settling, CloseSave, MarkState, SaveFailed, Terminals
    <3> QED
      BY <2>2, <3>1, <3>2
  <2>4. CASE Create(k)
    BY <2>4 DEF Create, RevivalStep, Terminal, Current, RegistryInv, TypeOK, StoreTypes
  <2>5. CASE UpdateSave(k) \/ DeleteStore(k) \/ CloseLive(k)
    BY <1>1, <2>5 DEF UpdateSave, DeleteStore, CloseLive, store
  <2>6. CASE Claim(k) \/ StartProcess(k) \/ StartFails(k) \/ Register(k) \/ Release(k)
    BY <1>1, <2>6 DEF Claim, StartProcess, StartFails, Register, Release, InMaps, store
  <2>7. CASE SaveProcessFails(k)
    BY <1>1, <2>7 DEF SaveProcessFails, WriteFails, store
  <2>8. CASE BeginRun(k) \/ SaveProcess(k)
    <3>1. k \in Unstarted
      BY <2>8 DEF BeginRun, SaveProcess, At, Unstarted
    <3>2. \A s \in Sessions : s # call[k].on => runs'[s] = runs[s]
      BY <2>8 DEF BeginRun, SaveProcess, Write, WriteFails, store, RegistryInv, TypeOK, StoreTypes
    <3> QED
      BY <3>1, <3>2 DEF RevivalStep, Terminal, Current
  <2> QED
    BY <1>2, <2>1, <2>3, <2>4, <2>5, <2>6, <2>7, <2>8, StepKinds DEF Launching
<1>3. ASSUME NEW p \in Processes, WaitLoop(p) \/ Die(p)
      PROVE  RevivalStep
  <2>1. CASE SaveExit(p)
    BY <2>1, SaveExitKeeps DEF RevivalStep
  <2>2. CASE RemoveRuntime(p) \/ Die(p)
    BY <1>1, <2>2 DEF RemoveRuntime, Die, store
  <2> QED
    BY <1>3, <2>1, <2>2 DEF WaitLoop
<1>4. CASE Crash \/ UNCHANGED vars
  BY <1>1, <1>4 DEF Crash, vars, store
<1> QED
  BY <1>2, <1>3, <1>4 DEF Next

\* NoRevival: only a launch makes a terminal session run again.
THEOREM NoRevivalHolds == Spec => NoRevival
  BY RegistryInvHolds, RevivalHolds, PTL DEF Spec, NoRevival

-----------------------------------------------------------------------------
(* The registry implements SessionLifecycle *)

\* What a step of request k does to the sessions that are being launched.
LEMMA StartingStays ==
  ASSUME RegistryInv, NEW k \in Calls, \A j \in Calls : j # k => call'[j] = call[j],
         \/ call[k].at \notin UnstartedPlaces /\ call'[k].at \notin UnstartedPlaces
         \/ /\ call[k].at \in UnstartedPlaces /\ call'[k].at \in UnstartedPlaces
            /\ call'[k].on = call[k].on
  PROVE  Starting' = Starting
<1>1. Unstarted' = Unstarted /\ \A j \in Unstarted : call'[j].on = call[j].on
  BY DEF Unstarted, UnstartedPlaces, LaunchPlaces
<1> QED
  BY <1>1 DEF Starting

LEMMA StartingLeaves ==
  ASSUME RegistryInv, NEW k \in Calls, \A j \in Calls : j # k => call'[j] = call[j],
         call[k].at \in UnstartedPlaces, call'[k].at \notin UnstartedPlaces
  PROVE  call[k].on \in Starting /\ Starting' = Starting \ {call[k].on}
<1>1. k \in Unstarted /\ Unstarted' = Unstarted \ {k}
  BY DEF Unstarted, UnstartedPlaces, LaunchPlaces
<1>2. \A j \in Unstarted : j # k => call'[j].on = call[j].on /\ call[j].on # call[k].on
  BY LaunchAlone DEF Unstarted, LaunchPlaces
<1> QED
  BY <1>1, <1>2 DEF Starting

\* Where a request that goes on, or answers, then is.
LEMMA Moved ==
  ASSUME RegistryInv, NEW k \in Calls
  PROVE  /\ \A there \in RequestPlaces : Go(k, there) =>
              /\ call'[k].at = there /\ call'[k].on = call[k].on /\ call'[k].pid = call[k].pid
              /\ \A j \in Calls : j # k => call'[j] = call[j]
         /\ Answer(k) => call'[k].at = "done" /\ \A j \in Calls : j # k => call'[j] = call[j]
<1>1. ASSUME NEW there \in RequestPlaces, Go(k, there)
      PROVE  /\ call'[k].at = there /\ call'[k].on = call[k].on /\ call'[k].pid = call[k].pid
             /\ \A j \in Calls : j # k => call'[j] = call[j]
  <2> DEFINE request == [call[k] EXCEPT !.at = there]
  <2>1. request.at = there /\ request.on = call[k].on /\ request.pid = call[k].pid
    BY Fields DEF Requests
  <2>2. call' = [call EXCEPT ![k] = request]
    BY <1>1 DEF Go
  <2> HIDE DEF request
  <2> QED
    BY <2>1, <2>2 DEF RegistryInv, TypeOK, CallTypes
<1>2. ASSUME Answer(k)
      PROVE  call'[k].at = "done" /\ \A j \in Calls : j # k => call'[j] = call[j]
  <2>1. Answered.at = "done"
    BY DEF Answered, NotMade
  <2> QED
    BY <1>2, <2>1 DEF Answer, RegistryInv, TypeOK, CallTypes
<1> QED
  BY <1>1, <1>2

\* The steps that the life cycle does not see.
Unseen == UNCHANGED <<Starting, runtimes, Ran>>

LEMMA QuietUnseen ==
  ASSUME RegistryInv, NEW k \in Calls, QuietStep(k)
  PROVE  Unseen
<1>1. Starting' = Starting
  BY StartingStays DEF QuietStep, UnstartedPlaces
<1> QED
  BY <1>1 DEF QuietStep, Unseen, Ran, registry, procs

\* A launch that goes on before its runtime is registered.
LEMMA LaunchUnseen ==
  ASSUME RegistryInv, NEW k \in Calls,
         BeginRun(k) \/ StartProcess(k) \/ StartFails(k) \/ SaveProcess(k) \/ SaveProcessFails(k)
  PROVE  Unseen
<1>1. call[k].at \in UnstartedPlaces /\ UNCHANGED <<registry, waiter>>
  BY DEF BeginRun, StartProcess, StartFails, SaveProcess, SaveProcessFails, At, UnstartedPlaces, LaunchPlaces,
         InStore, InMaps, procs
<1>2. CASE BeginRun(k) \/ StartFails(k) \/ SaveProcess(k) \/ SaveProcessFails(k)
  <2>1. PICK there \in UnstartedPlaces : Go(k, there)
    BY <1>2 DEF BeginRun, StartFails, SaveProcess, SaveProcessFails, UnstartedPlaces, LaunchPlaces
  <2>2. there \in RequestPlaces
    BY DEF UnstartedPlaces, LaunchPlaces, RequestPlaces
  <2>3. Starting' = Starting
    BY <1>1, <2>1, <2>2, Moved, StartingStays
  <2>4. home' = home
    BY <1>2 DEF BeginRun, StartFails, SaveProcess, SaveProcessFails, InStore, InMaps, procs
  <2> QED
    BY <1>1, <2>3, <2>4 DEF Unseen, Ran, registry
<1>3. CASE StartProcess(k)
  <2>1. PICK p \in Processes :
          /\ home[p] = None /\ home' = [home EXCEPT ![p] = call[k].on]
          /\ call' = [call EXCEPT ![k].at = "started", ![k].pid = p]
    BY <1>3 DEF StartProcess
  <2> DEFINE request == [call[k] EXCEPT !.at = "started", !.pid = p]
  <2>2. request.at = "started" /\ request.on = call[k].on
    BY Fields DEF Requests
  <2>3. call' = [call EXCEPT ![k] = request]
    BY <2>1 DEF RegistryInv, TypeOK, CallTypes
  <2> HIDE DEF request
  <2>4. /\ call'[k].at \in UnstartedPlaces /\ call'[k].on = call[k].on
        /\ \A j \in Calls : j # k => call'[j] = call[j]
    BY <2>2, <2>3 DEF RegistryInv, TypeOK, CallTypes, UnstartedPlaces, LaunchPlaces
  <2>5. Starting' = Starting
    BY <1>1, <2>4, StartingStays
  <2>6. waiter[p] = "none"
    BY <2>1, RegistryAssumption DEF RegistryInv, Tied
  <2>7. \A q \in Processes : q # p => home'[q] = home[q]
    BY <2>1 DEF RegistryInv, TypeOK, ProcessTypes
  <2>8. \A s \in Sessions : {q \in Processes : home[q] = s /\ waiter[q] # "none"}
                           = {q \in Processes : home'[q] = s /\ waiter'[q] # "none"}
    BY <1>1, <2>6, <2>7
  <2>9. Ran' = Ran
    BY <2>8 DEF Ran
  <2> QED
    BY <1>1, <2>5, <2>9 DEF Unseen, registry
<1> QED
  BY <1>2, <1>3

LEMMA ClaimLaunches ==
  ASSUME RegistryInv, NEW k \in Calls, Claim(k)
  PROVE  Lifecycle!Launch(call[k].on)
<1> DEFINE s == call[k].on
<1>1. /\ call[k].at = "claiming" /\ runtimes[s] = None /\ s \notin launching
      /\ UNCHANGED <<procs, runtimes>>
  BY DEF Claim, At, Claimable, InMaps
<1>2. PICK there \in {"launching", "claimed"} : Go(k, there)
  BY DEF Claim
<1>3. /\ call'[k].at \in {"launching", "claimed"} /\ call'[k].on = s
      /\ \A j \in Calls : j # k => call'[j] = call[j]
  BY <1>2, Moved DEF RequestPlaces
<1>4. Unstarted' = Unstarted \cup {k} /\ \A j \in Unstarted : call'[j].on = call[j].on
  BY <1>1, <1>3 DEF Unstarted
<1>5. Starting' = Starting \cup {s}
  BY <1>3, <1>4 DEF Starting
<1>6. s \notin Starting
  BY <1>1 DEF RegistryInv, OneLaunch, Launchers, Starting
<1>7. Ran' = Ran
  BY <1>1 DEF Ran, procs
<1> QED
  BY <1>1, <1>5, <1>6, <1>7 DEF Lifecycle!Launch

LEMMA RegisterRuns ==
  ASSUME RegistryInv, NEW k \in Calls, Register(k)
  PROVE  Lifecycle!Run(call[k].on, call[k].pid) /\ call[k].on \in Sessions /\ call[k].pid \in Processes
<1> DEFINE s == call[k].on
           p == call[k].pid
<1>1. /\ call[k].at = "saved" /\ Go(k, "releasing") /\ s \in Sessions /\ p \in Processes
      /\ runtimes' = [runtimes EXCEPT ![s] = p] /\ waiter' = [waiter EXCEPT ![p] = "waiting"]
      /\ UNCHANGED home
  BY Fields DEF Register, At, Sessionless
<1>2. home[p] = s /\ waiter[p] = "none"
  BY <1>1 DEF RegistryInv, Tied
<1>3. s \in Starting /\ Starting' = Starting \ {s}
  BY <1>1, Moved, StartingLeaves DEF RequestPlaces, UnstartedPlaces, LaunchPlaces
<1>4. waiter'[p] = "waiting" /\ \A q \in Processes : q # p => waiter'[q] = waiter[q]
  BY <1>1 DEF RegistryInv, TypeOK, ProcessTypes
<1>5. \A t \in Sessions : {q \in Processes : home[q] = t /\ waiter'[q] # "none"}
                         = IF t = s THEN {q \in Processes : home[q] = t /\ waiter[q] # "none"} \cup {p}
                                    ELSE {q \in Processes : home[q] = t /\ waiter[q] # "none"}
  BY <1>1, <1>2, <1>4
<1>6. Ran' = [Ran EXCEPT ![s] = @ \cup {p}] /\ \A t \in Sessions : p \notin Ran[t]
  BY <1>1, <1>2, <1>5 DEF Ran
<1> QED
  BY <1>1, <1>3, <1>6 DEF Lifecycle!Run

\* A claim is given up: by a create that releases it, or by a rerun that then records the
\* failure.
LEMMA FailingAbandons ==
  ASSUME RegistryInv, NEW k \in Calls, Release(k) \/ (SaveFailed(k) /\ At(k, "failing"))
  PROVE  Unseen \/ (call[k].on \in Sessions /\ Lifecycle!Abandon(call[k].on))
<1>1. UNCHANGED <<procs, runtimes>> /\ call[k].at \in {"releasing", "failing"}
  BY DEF Release, SaveFailed, At, InMaps, InStore, registry
<1>2. Ran' = Ran
  BY <1>1 DEF Ran, procs
<1>3. \/ Answer(k) /\ call[k].at = "releasing"
      \/ call[k].at = "failing" /\ \E there \in {"failed", "releasing"} : Go(k, there)
  BY DEF Release, SaveFailed, At
<1>4. CASE Answer(k) /\ call[k].at = "releasing"
  <2>1. Starting' = Starting
    BY <1>4, Moved, StartingStays DEF UnstartedPlaces, LaunchPlaces
  <2> QED
    BY <1>1, <1>2, <2>1 DEF Unseen
<1>5. CASE call[k].at = "failing" /\ \E there \in {"failed", "releasing"} : Go(k, there)
  <2>1. call[k].on \in Starting /\ Starting' = Starting \ {call[k].on}
    BY <1>5, Moved, StartingLeaves DEF RequestPlaces, UnstartedPlaces, LaunchPlaces
  <2>2. call[k].on \in Sessions
    BY <1>5, Fields DEF Sessionless
  <2> QED
    BY <1>1, <1>2, <2>1, <2>2 DEF Lifecycle!Abandon
<1> QED
  BY <1>3, <1>4, <1>5

\* Every request maps to a step of the life cycle or to none.
LEMMA RequestImplements ==
  ASSUME RegistryInv, NEW k \in Calls, Request(k)
  PROVE  Lifecycle!Next \/ Unseen
<1>1. CASE Reading(k)
  BY <1>1, ReadingIsQuiet, QuietUnseen
<1>2. CASE Settling(k) \/ UpdateSave(k) \/ DeleteStore(k)
  <2>1. /\ call[k].at \in {"settling", "exited", "stale", "failed", "renaming", "editing", "checking"}
        /\ UNCHANGED <<registry, procs>>
    BY <1>2 DEF Settling, CloseSave, MarkState, SaveFailed, UpdateSave, DeleteStore, At, InStore
  <2>2. Answer(k) \/ Listing(k)
    BY <1>2, <2>1 DEF Settling, CloseSave, MarkState, SaveFailed, UpdateSave, DeleteStore, At
  <2>3. QuietStep(k)
    BY <2>1, <2>2, AnswerIsQuiet, ListingIsQuiet DEF LaunchPlaces
  <2> QED
    BY <2>3, QuietUnseen
<1>3. CASE Create(k)
  <2>1. PICK s \in Sessions, m \in Metas :
          Ask(k, [NotMade EXCEPT !.at = "claiming", !.kind = "create", !.on = s, !.copy = m])
    BY <1>3 DEF Create
  <2> DEFINE request == [NotMade EXCEPT !.at = "claiming", !.kind = "create", !.on = s, !.copy = m]
  <2>2. request.at = "claiming" /\ NotMade.at = "idle" /\ Ask(k, request)
    BY <2>1 DEF NotMade
  <2> HIDE DEF request
  <2>3. call[k].at = "idle" /\ call'[k].at = "claiming" /\ \A j \in Calls : j # k => call'[j] = call[j]
    BY <2>2 DEF Ask, RegistryInv, TypeOK, CallTypes
  <2>4. Starting' = Starting
    BY <2>3, StartingStays DEF UnstartedPlaces, LaunchPlaces
  <2> QED
    BY <1>3, <2>4 DEF Create, InStore, Unseen, Ran, registry, procs
<1>4. CASE CloseLive(k)
  <2>1. Starting' = Starting
    BY <1>4, Moved, StartingStays DEF CloseLive, At, RequestPlaces, UnstartedPlaces, LaunchPlaces
  <2> QED
    BY <1>4, <2>1 DEF CloseLive, Unseen, Ran, registry
<1>5. CASE Claim(k)
  <2>1. call[k].on \in Sessions
    BY <1>5, Fields DEF Claim, At, Sessionless
  <2> QED
    BY <1>5, <2>1, ClaimLaunches DEF Lifecycle!Next
<1>6. CASE Register(k)
  BY <1>6, RegisterRuns DEF Lifecycle!Next
<1>7. CASE Release(k) \/ (SaveFailed(k) /\ At(k, "failing"))
  BY <1>7, FailingAbandons DEF Lifecycle!Next
<1>8. CASE BeginRun(k) \/ StartProcess(k) \/ StartFails(k) \/ SaveProcess(k) \/ SaveProcessFails(k)
  BY <1>8, LaunchUnseen
<1> QED
  BY <1>1, <1>2, <1>3, <1>4, <1>5, <1>6, <1>7, <1>8, StepKinds DEF Launching

\* So does what the waitLoops and the world outside do.
LEMMA WorldImplements ==
  ASSUME RegistryInv, (\E p \in Processes : WaitLoop(p) \/ Die(p)) \/ Crash
  PROVE  Lifecycle!Next \/ Unseen
<1>1. ASSUME NEW p \in Processes, SaveExit(p)
      PROVE  Unseen
  <2>1. /\ waiter[p] = "waiting" /\ waiter' = [waiter EXCEPT ![p] = "saved"]
        /\ UNCHANGED <<registry, call, home>>
    BY <1>1 DEF SaveExit
  <2>2. \A q \in Processes : waiter'[q] # "none" <=> waiter[q] # "none"
    BY <2>1 DEF RegistryInv, TypeOK, ProcessTypes
  <2> QED
    BY <2>1, <2>2 DEF Unseen, Starting, Unstarted, Ran, registry
<1>2. ASSUME NEW p \in Processes, RemoveRuntime(p)
      PROVE  Lifecycle!Next
  <2>1. /\ waiter[p] = "saved" /\ waiter' = [waiter EXCEPT ![p] = "done"]
        /\ runtimes' = [runtimes EXCEPT ![home[p]] = None] /\ UNCHANGED <<call, home>>
    BY <1>2 DEF RemoveRuntime
  <2>2. \A q \in Processes : waiter'[q] # "none" <=> waiter[q] # "none"
    BY <2>1 DEF RegistryInv, TypeOK, ProcessTypes
  <2>3. home[p] \in Sessions /\ runtimes[home[p]] # None
    BY <1>2, <2>1, RemoveRuntimeKeeps, RegistryAssumption DEF RegistryInv, Tied
  <2>4. Starting' = Starting /\ Ran' = Ran
    BY <2>1, <2>2 DEF Starting, Unstarted, Ran
  <2> QED
    BY <2>1, <2>3, <2>4 DEF Lifecycle!Next, Lifecycle!End
<1>3. ASSUME NEW p \in Processes, Die(p)
      PROVE  Unseen
  BY <1>3 DEF Die, Unseen, Starting, Unstarted, Ran, registry
<1>4. CASE Crash
  <2>1. /\ runtimes' = [s \in Sessions |-> None] /\ home' = home
        /\ call' = [k \in Calls |-> IF call[k] = NotMade THEN NotMade ELSE Answered]
        /\ waiter' = [p \in Processes |-> IF waiter[p] \in {"waiting", "saved"} THEN "lost" ELSE waiter[p]]
    BY <1>4 DEF Crash
  <2>2. NotMade.at = "idle" /\ Answered.at = "done"
    BY DEF NotMade, Answered
  <2>3. Starting' = {}
    BY <2>1, <2>2 DEF Starting, Unstarted
  <2>4. \A q \in Processes : waiter'[q] # "none" <=> waiter[q] # "none"
    BY <2>1
  <2>5. Ran' = Ran
    BY <2>1, <2>4 DEF Ran
  <2> QED
    BY <2>1, <2>3, <2>5 DEF Lifecycle!Next, Lifecycle!Restart
<1> QED
  BY <1>1, <1>2, <1>3, <1>4 DEF WaitLoop

\* Every behaviour of the registry, under the mapping, is one of the life cycle: a session
\* has one launch or one live process, and no process is the live one of two sessions.
THEOREM RegistryImplementsLifecycle == Spec => ImplementsLifecycle
<1>1. Init => Lifecycle!Init
  <2> SUFFICES ASSUME Init
               PROVE  Lifecycle!Init
    OBVIOUS
  <2>1. NotMade.at = "idle"
    BY DEF NotMade
  <2>2. Starting = {} /\ Ran = [s \in Sessions |-> {}]
    BY <2>1 DEF Init, Starting, Unstarted, Ran
  <2> QED
    BY <2>2 DEF Init, Lifecycle!Init
<1>2. RegistryInv /\ [Next]_vars => [Lifecycle!Next]_Lifecycle!lifecycle
  <2> SUFFICES ASSUME RegistryInv, [Next]_vars
               PROVE  Lifecycle!Next \/ Unseen
    BY DEF Unseen, Lifecycle!lifecycle
  <2>1. CASE UNCHANGED vars
    BY <2>1 DEF vars, Unseen, Starting, Unstarted, Ran, registry, procs
  <2> QED
    BY <2>1, RequestImplements, WorldImplements DEF Next
<1> QED
  BY <1>1, <1>2, RegistryInvHolds, PTL DEF Spec, ImplementsLifecycle, Lifecycle!Spec

-----------------------------------------------------------------------------
(* The runs of a session *)

\* The runs in a log of session s: each process is one that was started for s and has one
\* run, a run that is not the last is over, and so is one with an exit, which is that of
\* its process.
OwnRuns(s, log) ==
  /\ \A i \in DOMAIN log : log[i].process # None => home[log[i].process] = s
  /\ \A i, j \in DOMAIN log : log[i].process # None /\ log[i].process = log[j].process => i = j
  /\ \A i \in DOMAIN log :
       /\ i < Len(log) => log[i].state \in Terminals
       /\ log[i].exit # None => log[i].exit = log[i].process /\ log[i].state \in Terminals

\* The process of no run.
Unused(p, log) == \A i \in DOMAIN log : log[i].process # p

\* The exits of a log are in the other.
ExitsKept(old, new) ==
  \A i \in DOMAIN old : old[i].exit # None => i \in DOMAIN new /\ new[i].exit = old[i].exit

\* The runs of every session are its own, and a process that was just started has none yet.
Apart ==
  /\ \A s \in Sessions : OwnRuns(s, runs[s])
  /\ \A k \in Calls : call[k].at = "started" => Unused(call[k].pid, runs[call[k].on])

\* What a launch appends keeps a log whose last run is over.
LEMMA EnsureRunOwn ==
  ASSUME StoreTypes, NEW s \in Sessions, Present(s), OwnRuns(s, runs[s])
  PROVE  /\ OwnRuns(s, EnsureRun(s)) /\ ExitsKept(runs[s], EnsureRun(s))
         /\ EnsureRun(s)[Len(EnsureRun(s))].exit = None
         /\ \A p : p # None /\ Unused(p, runs[s]) => Unused(p, EnsureRun(s))
<1> DEFINE old == runs[s]
           new == Append(old, NewRun)
<1>1. old \in Seq(Runs) /\ old # <<>> /\ NewRun \in Runs
  BY EnsureRunIsLog DEF NewRun, Runs, MaybeProcess
<1>2. NewRun.process = None /\ NewRun.exit = None
  BY DEF NewRun
<1>3. CASE Terminal(s)
  <2>1. EnsureRun(s) = new /\ old[Len(old)].state \in Terminals
    BY <1>3 DEF EnsureRun, Terminal, Current
  <2>2. /\ Len(new) = Len(old) + 1 /\ DOMAIN new = 1..Len(new) /\ DOMAIN old = 1..Len(old) /\ Len(old) \in Nat
        /\ new[Len(new)] = NewRun /\ \A i \in DOMAIN old : new[i] = old[i]
    BY <1>1
  <2> HIDE DEF old, new
  <2>3. \A i \in DOMAIN new : (i \in DOMAIN old /\ new[i] = old[i]) \/ (i = Len(new) /\ new[i] = NewRun)
    BY <2>2
  <2>4. ExitsKept(old, new) /\ \A p : p # None /\ Unused(p, old) => Unused(p, new)
    BY <1>2, <2>2, <2>3 DEF ExitsKept, Unused
  <2>5. OwnRuns(s, old)
    BY DEF old
  <2>6. \A i \in DOMAIN old : old[i].state \in Terminals
    BY <2>1, <2>2, <2>5 DEF OwnRuns
  <2>7. OwnRuns(s, new)
    BY <1>2, <2>2, <2>3, <2>5, <2>6 DEF OwnRuns
  <2> QED
    BY <1>2, <2>1, <2>2, <2>4, <2>7 DEF old
<1>4. CASE ~Terminal(s)
  <2>1. EnsureRun(s) = old /\ old[Len(old)].state \notin Terminals /\ Len(old) \in DOMAIN old
    BY <1>1, <1>4 DEF EnsureRun, Terminal, Current
  <2>2. old[Len(old)].exit = None
    BY <2>1 DEF OwnRuns
  <2> QED
    BY <2>1, <2>2 DEF ExitsKept
<1> QED
  BY <1>3, <1>4

\* What is written to the last run keeps a log, when its process is that of the run or new
\* to the log, and its exit that of its process.
LEMMA AmendOwn ==
  ASSUME NEW s \in Sessions, NEW log \in Seq(Runs), log # <<>>, OwnRuns(s, log), NEW run \in Runs,
         \/ run.process = log[Len(log)].process
         \/ (run.process # None /\ home[run.process] = s /\ Unused(run.process, log)),
         run.exit # None => run.exit = run.process /\ run.state \in Terminals,
         log[Len(log)].exit \in {None, run.exit}
  PROVE  /\ OwnRuns(s, Amend(log, run)) /\ ExitsKept(log, Amend(log, run))
         /\ \A p : Unused(p, log) /\ p # run.process => Unused(p, Amend(log, run))
<1> DEFINE new == Amend(log, run)
<1>1. /\ Len(log) \in DOMAIN log /\ DOMAIN new = DOMAIN log /\ Len(new) = Len(log)
      /\ new[Len(log)] = run /\ \A i \in DOMAIN log : i # Len(log) => new[i] = log[i]
  BY ExceptSeq DEF Amend
<1> HIDE DEF new
<1>2. ExitsKept(log, new) /\ \A p : p # run.process /\ Unused(p, log) => Unused(p, new)
  BY <1>1 DEF ExitsKept, Unused
<1>3. \A i \in DOMAIN new : new[i].process # None => home[new[i].process] = s
  BY <1>1 DEF OwnRuns
<1>4. \A i, j \in DOMAIN new : new[i].process # None /\ new[i].process = new[j].process => i = j
  BY <1>1 DEF OwnRuns, Unused
<1>5. \A i \in DOMAIN new :
        /\ i < Len(new) => new[i].state \in Terminals
        /\ new[i].exit # None => new[i].exit = new[i].process /\ new[i].state \in Terminals
  BY <1>1 DEF OwnRuns
<1>6. OwnRuns(s, new)
  BY <1>1, <1>3, <1>4, <1>5 DEF OwnRuns
<1> QED
  BY <1>2, <1>6 DEF new

\* No process starts in the step.
Startless == \A k \in Calls : call'[k].at = "started" => call'[k] = call[k]

\* The step replaces the log of a session.
Replaces(s, log) == runs' = [runs EXCEPT ![s] = log]

\* No exit is lost in it.
ExitsGrow == \A s \in Sessions : row[s] # "absent" => ExitsKept(runs[s], runs'[s])

\* A request that goes on elsewhere starts none.
LEMMA MoveStartsNone ==
  ASSUME RegistryInv, NEW k \in Calls,
         Answer(k) \/ \E there \in RequestPlaces \ {"started"} : Go(k, there)
  PROVE  Startless
  BY Moved DEF Startless

LEMMA QuietStartsNone ==
  ASSUME NEW k \in Calls, QuietStep(k)
  PROVE  Startless
  BY DEF QuietStep, Startless, LaunchPlaces

\* A step that writes no run keeps them apart.
LEMMA StillKeeps ==
  ASSUME Apart, UNCHANGED <<runs, home>>, Startless
  PROVE  Apart' /\ ExitsGrow
<1>1. \A s \in Sessions : OwnRuns(s, runs[s])'
  BY DEF Apart, OwnRuns
<1>2. \A k \in Calls : call'[k].at = "started" => Unused(call'[k].pid, runs'[call'[k].on])
  BY DEF Apart, Unused, Startless
<1> QED
  BY <1>1, <1>2 DEF Apart, ExitsGrow, ExitsKept, Unused

\* So does one that replaces the log of one session by a log of its own, without the
\* process that another call has just started.
LEMMA LogKeeps ==
  ASSUME RegistryInv, Apart, NEW s \in Sessions, NEW log \in Seq(Runs), Replaces(s, log),
         OwnRuns(s, log), row[s] # "absent" => ExitsKept(runs[s], log), home' = home, Startless,
         \A k \in Calls : call[k].at = "started" /\ call'[k].at = "started" /\ call[k].on = s =>
           Unused(call[k].pid, log)
  PROVE  Apart' /\ ExitsGrow
<1>1. runs'[s] = log /\ \A t \in Sessions : t # s => runs'[t] = runs[t]
  BY DEF RegistryInv, TypeOK, StoreTypes, Replaces
<1>2. \A t \in Sessions : OwnRuns(t, runs'[t])
  BY <1>1 DEF Apart
<1>3. \A t \in Sessions : OwnRuns(t, runs[t])'
  BY <1>2 DEF OwnRuns
<1>4. ASSUME NEW k \in Calls, call'[k].at = "started"
      PROVE  Unused(call'[k].pid, runs'[call'[k].on])
  <2>1. call'[k] = call[k] /\ call[k].on \in Sessions
    BY <1>4, Fields DEF Startless, Sessionless
  <2> QED
    BY <1>1, <1>4, <2>1 DEF Apart
<1>5. ExitsGrow
  BY <1>1 DEF ExitsGrow, ExitsKept
<1> QED
  BY <1>3, <1>4, <1>5 DEF Apart, Unused

LEMMA SaveStateApart ==
  ASSUME RegistryInv, Apart, NEW s \in Sessions, NEW state \in Terminals, SaveState(s, state),
         home' = home, Startless
  PROVE  Apart' /\ ExitsGrow
<1>1. CASE WriteFails(s)
  BY <1>1, StillKeeps DEF WriteFails, store
<1>2. CASE Write(s, Amend(runs[s], [Current(s) EXCEPT !.state = state]))
  <2> DEFINE old == runs[s]
             run == [Current(s) EXCEPT !.state = state]
             log == Amend(old, run)
  <2>1. Present(s) /\ Replaces(s, log)
    BY <1>2 DEF Write, Replaces
  <2>2. /\ old \in Seq(Runs) /\ old # <<>> /\ Len(old) \in DOMAIN old
        /\ Current(s) \in Runs /\ Current(s) = old[Len(old)]
    BY <2>1, CurrentIsRun, EnsureRunIsLog DEF RegistryInv, TypeOK, Current
  <2>3. run \in Runs /\ run.process = Current(s).process /\ run.exit = Current(s).exit /\ run.state = state
    BY <2>2 DEF Runs
  <2>4. OwnRuns(s, old)
    BY DEF Apart
  <2> HIDE DEF run, old
  <2>5. run.exit # None => run.exit = run.process
    BY <2>2, <2>3, <2>4 DEF OwnRuns
  <2>6. /\ OwnRuns(s, log) /\ ExitsKept(old, log) /\ log \in Seq(Runs)
        /\ \A p : Unused(p, old) /\ p # run.process => Unused(p, log)
    BY <2>2, <2>3, <2>4, <2>5, AmendOwn, AmendLast
  <2> HIDE DEF log
  <2>7. \A k \in Calls : call[k].at = "started" /\ call[k].on = s => Unused(call[k].pid, log)
    <3>1. \A p : Unused(p, old) => p # run.process
      BY <2>2, <2>3 DEF Unused
    <3> QED
      BY <2>6, <3>1 DEF Apart, old
  <2>8. ExitsKept(runs[s], log)
    BY <2>6 DEF old
  <2> QED
    BY <2>1, <2>6, <2>7, <2>8, LogKeeps
<1> QED
  BY <1>1, <1>2 DEF SaveState

LEMMA CreateApart ==
  ASSUME RegistryInv, Apart, NEW k \in Calls, Create(k)
  PROVE  Apart' /\ ExitsGrow
<1>1. PICK s \in Sessions, m \in Metas :
        /\ row[s] = "absent"
        /\ Ask(k, [NotMade EXCEPT !.at = "claiming", !.kind = "create", !.on = s, !.copy = m])
        /\ Replaces(s, <<NewRun>>)
  BY DEF Create, Replaces
<1>2. Startless /\ home' = home
  BY <1>1 DEF Create, Ask, NotMade, Startless, InStore, procs, RegistryInv, TypeOK, CallTypes
<1>3. OwnRuns(s, <<NewRun>>) /\ <<NewRun>> \in Seq(Runs)
  BY DEF OwnRuns, NewRun, Runs, MaybeProcess
<1>4. \A j \in Calls : call[j].at = "started" => call[j].on # s
  BY <1>1 DEF RegistryInv, Known, LaunchPlaces
<1> QED
  BY <1>1, <1>2, <1>3, <1>4, LogKeeps

LEMMA BeginRunApart ==
  ASSUME RegistryInv, Apart, NEW k \in Calls, BeginRun(k)
  PROVE  Apart' /\ ExitsGrow
<1> DEFINE s == call[k].on
<1>1. s \in Sessions /\ home' = home
  BY Fields DEF BeginRun, At, Sessionless, InStore, procs
<1>2. Startless
  BY MoveStartsNone DEF BeginRun, RequestPlaces
<1>3. CASE UNCHANGED runs
  BY <1>1, <1>2, <1>3, StillKeeps
<1>4. CASE Write(s, EnsureRun(s))
  <2>1. Present(s) /\ Replaces(s, EnsureRun(s))
    BY <1>4 DEF Write, Replaces
  <2>2. OwnRuns(s, runs[s]) /\ StoreTypes
    BY <1>1 DEF Apart, RegistryInv, TypeOK
  <2>3. /\ OwnRuns(s, EnsureRun(s)) /\ ExitsKept(runs[s], EnsureRun(s)) /\ EnsureRun(s) \in Seq(Runs)
        /\ \A p : p # None /\ Unused(p, runs[s]) => Unused(p, EnsureRun(s))
    BY <1>1, <2>1, <2>2, EnsureRunOwn, EnsureRunIsLog
  <2>4. \A j \in Calls : call[j].at = "started" /\ call[j].on = s => Unused(call[j].pid, EnsureRun(s))
    BY <2>3, Fields, RegistryAssumption DEF Apart
  <2> QED
    BY <1>1, <1>2, <2>1, <2>3, <2>4, LogKeeps
<1> QED
  BY <1>3, <1>4 DEF BeginRun, WriteFails, store

LEMMA StartProcessApart ==
  ASSUME RegistryInv, Apart, NEW k \in Calls, StartProcess(k)
  PROVE  Apart' /\ ExitsGrow
<1> DEFINE s == call[k].on
<1>1. PICK p \in Processes :
        /\ home[p] = None /\ home' = [home EXCEPT ![p] = s]
        /\ call' = [call EXCEPT ![k].at = "started", ![k].pid = p]
  BY DEF StartProcess
<1> DEFINE request == [call[k] EXCEPT !.at = "started", !.pid = p]
<1>2. request.at = "started" /\ request.on = s /\ request.pid = p
  BY Fields DEF Requests
<1>3. call' = [call EXCEPT ![k] = request]
  BY <1>1 DEF RegistryInv, TypeOK, CallTypes
<1> HIDE DEF request
<1>4. /\ call'[k].on = s /\ call'[k].pid = p /\ \A j \in Calls : j # k => call'[j] = call[j]
      /\ s \in Sessions /\ runs' = runs /\ None \notin Sessions
  BY <1>2, <1>3, Fields, RegistryAssumption DEF RegistryInv, TypeOK, CallTypes, StartProcess, At, Sessionless, store
<1>5. \A q \in Processes : q # p => home'[q] = home[q]
  BY <1>1 DEF RegistryInv, TypeOK, ProcessTypes
<1>6. ASSUME NEW t \in Sessions
      PROVE  OwnRuns(t, runs[t])' /\ Unused(p, runs[t])
  <2>1. OwnRuns(t, runs[t]) /\ \A i \in DOMAIN runs[t] : runs[t][i].process \in Processes \cup {None}
    <3>1. runs[t] \in Seq(Runs)
      BY DEF RegistryInv, TypeOK, StoreTypes
    <3>2. \A i \in DOMAIN runs[t] : runs[t][i] \in Runs
      BY <3>1
    <3> QED
      BY <3>2 DEF Apart, Runs, MaybeProcess
  <2>2. Unused(p, runs[t])
    BY <1>1, <1>4, <2>1, RegistryAssumption DEF OwnRuns, Unused
  <2>3. \A i \in DOMAIN runs[t] : runs[t][i].process # None => home'[runs[t][i].process] = t
    BY <1>5, <2>1, <2>2 DEF OwnRuns, Unused
  <2> QED
    BY <1>4, <2>1, <2>2, <2>3 DEF OwnRuns
<1>7. \A j \in Calls : call'[j].at = "started" => Unused(call'[j].pid, runs[call'[j].on])
  BY <1>4, <1>6 DEF Apart
<1> QED
  BY <1>4, <1>6, <1>7 DEF Apart, Unused, ExitsGrow, ExitsKept

\* The run that the launch writes to has no exit, and its process is new to the log.
LEMMA SaveProcessApart ==
  ASSUME RegistryInv, Apart, NEW k \in Calls, SaveProcess(k)
  PROVE  Apart' /\ ExitsGrow
<1> DEFINE s == call[k].on
           p == call[k].pid
           base == EnsureRun(s)
           run == [base[Len(base)] EXCEPT !.process = p, !.state = "running"]
           log == Amend(base, run)
<1>1. /\ call[k].at = "started" /\ Go(k, "saved") /\ home' = home
      /\ Present(s) /\ Replaces(s, log)
  BY DEF SaveProcess, At, InStore, procs, Write, Replaces
<1>2. s \in Sessions /\ p \in Processes /\ p # None /\ home[p] = s /\ StoreTypes
  BY <1>1, Fields, RegistryAssumption DEF Sessionless, RegistryInv, Tied, TypeOK
<1>3. OwnRuns(s, runs[s]) /\ Unused(p, runs[s])
  BY <1>1, <1>2 DEF Apart
<1>4. /\ base \in Seq(Runs) /\ base # <<>> /\ base[Len(base)] \in Runs
      /\ OwnRuns(s, base) /\ ExitsKept(runs[s], base) /\ base[Len(base)].exit = None
      /\ \A q : q # None /\ Unused(q, runs[s]) => Unused(q, base)
  BY <1>1, <1>2, <1>3, EnsureRunIsLog, EnsureRunOwn
<1> HIDE DEF base
<1>5. run \in Runs /\ run.process = p /\ run.exit = None
  BY <1>2, <1>4 DEF Runs, MaybeProcess
<1> HIDE DEF run
<1>6. OwnRuns(s, log) /\ ExitsKept(base, log) /\ log \in Seq(Runs)
  BY <1>2, <1>3, <1>4, <1>5, AmendOwn, AmendLast
<1> HIDE DEF log
<1>7. Startless /\ call'[k].at # "started" /\ \A j \in Calls : j # k => call'[j] = call[j]
  BY <1>1, Moved, MoveStartsNone DEF RequestPlaces
<1>8. ExitsKept(runs[s], log)
  BY <1>4, <1>6 DEF ExitsKept
<1>9. \A j \in Calls : call'[j].at = "started" => call[j].on # s
  BY <1>1, <1>7, LaunchAlone DEF UnstartedPlaces, LaunchPlaces
<1> QED
  BY <1>1, <1>2, <1>6, <1>7, <1>8, <1>9, LogKeeps

\* The exit is written to the run of the process that ended.
LEMMA SaveExitApart ==
  ASSUME RegistryInv, Apart, NEW p \in Processes, SaveExit(p)
  PROVE  /\ Apart' /\ ExitsGrow
         /\ \/ WriteFails(home[p])
            \/ Terminal(home[p])' /\ \E i \in DOMAIN runs'[home[p]] : runs'[home[p]][i].exit = p
<1> DEFINE s == home[p]
           old == runs[s]
<1>1. waiter[p] = "waiting" /\ home' = home /\ Startless /\ s \in Sessions /\ StoreTypes
  BY DEF SaveExit, Startless, RegistryInv, Tied, TypeOK
<1>2. CASE WriteFails(s)
  BY <1>1, <1>2, StillKeeps DEF WriteFails, store
<1>3. ASSUME NEW state \in Terminals, Write(s, Amend(runs[s], [Current(s) EXCEPT !.exit = p, !.state = state]))
      PROVE  Apart' /\ ExitsGrow /\ Terminal(s)' /\ \E i \in DOMAIN runs'[s] : runs'[s][i].exit = p
  <2> DEFINE run == [Current(s) EXCEPT !.exit = p, !.state = state]
             log == Amend(old, run)
  <2>1. Present(s) /\ Replaces(s, log)
    BY <1>3 DEF Write, Replaces
  <2>2. /\ old \in Seq(Runs) /\ old # <<>> /\ Len(old) \in DOMAIN old
        /\ Current(s) \in Runs /\ Current(s) = old[Len(old)] /\ Current(s).process = p
    BY <1>1, <2>1, CurrentIsRun, EnsureRunIsLog DEF RegistryInv, Recorded, Waiting, Current
  <2>3. run \in Runs /\ run.process = p /\ run.exit = p /\ run.state = state
    BY <2>2 DEF Runs, MaybeProcess
  <2>4. OwnRuns(s, old)
    BY <1>1 DEF Apart
  <2> HIDE DEF run, old
  <2>5. old[Len(old)].exit \in {None, p}
    BY <2>2, <2>4 DEF OwnRuns
  <2>6. /\ OwnRuns(s, log) /\ ExitsKept(old, log) /\ log \in Seq(Runs)
        /\ \A q : Unused(q, old) /\ q # p => Unused(q, log)
    BY <1>1, <2>2, <2>3, <2>4, <2>5, AmendOwn, AmendLast
  <2>8. log # <<>> /\ log[Len(log)].exit = p /\ log[Len(log)].state \in Terminals
    BY <2>2, <2>3, AmendLast
  <2> HIDE DEF log
  <2>7. \A k \in Calls : call[k].at = "started" /\ call[k].on = s => Unused(call[k].pid, log)
    <3>1. \A q : Unused(q, old) => q # p
      BY <2>2 DEF Unused
    <3> QED
      BY <2>6, <3>1 DEF Apart, old
  <2>9. ExitsKept(runs[s], log) /\ Len(log) \in DOMAIN log
    BY <2>6, <2>8 DEF old
  <2>10. runs'[s] = log /\ Terminal(s)'
    BY <1>1, <2>1, <2>8 DEF StoreTypes, Replaces, Terminal, Current
  <2> QED
    BY <1>1, <2>1, <2>6, <2>7, <2>8, <2>9, <2>10, LogKeeps
<1> QED
  BY <1>2, <1>3 DEF SaveExit, WriteFails

\* Every step keeps the runs apart, and their exits.
LEMMA ApartStep == RegistryInv /\ Apart /\ [Next]_vars => Apart' /\ ExitsGrow
<1> SUFFICES ASSUME RegistryInv, Apart, [Next]_vars
             PROVE  Apart' /\ ExitsGrow
  OBVIOUS
<1>1. ASSUME NEW k \in Calls, Request(k)
      PROVE  Apart' /\ ExitsGrow
  <2>1. CASE Reading(k)
    BY <2>1, ReadingIsQuiet, QuietStartsNone, StillKeeps DEF QuietStep, store, procs
  <2>2. CASE UpdateSave(k) \/ DeleteStore(k)
    BY <2>2, MoveStartsNone, StillKeeps DEF UpdateSave, DeleteStore, InStore, procs
  <2>3. CASE Settling(k) \/ (SaveFailed(k) /\ At(k, "failing"))
    <3>1. call[k].on \in Sessions /\ home' = home
      BY <2>3, Fields DEF Settling, CloseSave, MarkState, SaveFailed, At, InStore, procs, Sessionless
    <3>2. PICK state \in Terminals : SaveState(call[k].on, state)
      BY <2>3 DEF Settling, CloseSave, MarkState, SaveFailed, Terminals
    <3>3. Startless
      <4>1. CASE Listing(k)
        BY <4>1 DEF Listing, Startless, RegistryInv, TypeOK, CallTypes, Requests
      <4> QED
        BY <2>3, <4>1, MoveStartsNone DEF Settling, CloseSave, MarkState, SaveFailed, RequestPlaces
    <3> QED
      BY <3>1, <3>2, <3>3, SaveStateApart
  <2>4. CASE Claim(k) \/ StartFails(k) \/ SaveProcessFails(k) \/ Register(k) \/ Release(k) \/ CloseLive(k)
    <3>1. UNCHANGED <<runs, home>>
      BY <2>4 DEF Claim, StartFails, SaveProcessFails, Register, Release, CloseLive, InMaps, WriteFails, store, procs
    <3>2. Startless
      BY <2>4, MoveStartsNone DEF Claim, StartFails, SaveProcessFails, Register, Release, CloseLive, RequestPlaces
    <3> QED
      BY <3>1, <3>2, StillKeeps
  <2> QED
    BY <1>1, <2>1, <2>2, <2>3, <2>4, CreateApart, BeginRunApart, StartProcessApart, SaveProcessApart, StepKinds
       DEF Launching
<1>2. ASSUME NEW p \in Processes, WaitLoop(p) \/ Die(p)
      PROVE  Apart' /\ ExitsGrow
  <2>1. CASE RemoveRuntime(p) \/ Die(p)
    BY <2>1, StillKeeps DEF RemoveRuntime, Die, Startless, store
  <2> QED
    BY <1>2, <2>1, SaveExitApart DEF WaitLoop
<1>3. CASE Crash
  <2>1. Startless
    BY <1>3 DEF Crash, Startless, NotMade, Answered
  <2> QED
    BY <1>3, <2>1, StillKeeps DEF Crash, store
<1>4. CASE UNCHANGED vars
  BY <1>4, StillKeeps DEF Startless, vars, store, procs
<1> QED
  BY <1>1, <1>2, <1>3, <1>4 DEF Next

\* The runs of every session are its own, in every reachable state.
LEMMA ApartHolds == Spec => []Apart
<1>1. Init => Apart
  BY DEF Init, Apart, OwnRuns, NotMade
<1> QED
  BY <1>1, ApartStep, RegistryInvHolds, PTL DEF Spec

\* RunsAreApart: each process has one run, of one session; what is not current is over.
THEOREM RunsAreApartHolds == Spec => []RunsAreApart
<1>1. Apart => RunsAreApart
  BY DEF Apart, OwnRuns, RunsAreApart
<1> QED
  BY <1>1, ApartHolds, PTL

-----------------------------------------------------------------------------
(* The exits *)

\* A request writes no other row than that of the session it creates, and no process is
\* moved to another session; a failure is counted.
Steady ==
  /\ faults' \in {faults, faults + 1}
  /\ \A s \in Sessions : row[s] # "absent" /\ Present(s)' => Present(s)
  /\ \A p \in Processes : home[p] \in Sessions => home'[p] = home[p]

LEMMA StepIsSteady == RegistryInv /\ [Next]_vars => Steady
<1> SUFFICES ASSUME RegistryInv, [Next]_vars
             PROVE  Steady
  OBVIOUS
<1>1. ASSUME faults' \in {faults, faults + 1}, UNCHANGED <<row, home>>
      PROVE  Steady
  BY <1>1 DEF Steady, Present
<1>2. ASSUME NEW k \in Calls, Request(k)
      PROVE  Steady
  <2>1. CASE Reading(k)
    BY <1>1, <2>1, ReadingIsQuiet DEF QuietStep, store, procs
  <2>2. CASE Settling(k) \/ (SaveFailed(k) /\ At(k, "failing")) \/ BeginRun(k) \/ SaveProcess(k) \/ SaveProcessFails(k)
    <3>1. home' = home
      BY <2>2 DEF Settling, CloseSave, MarkState, SaveFailed, BeginRun, SaveProcess, SaveProcessFails, InStore, procs
    <3>2. faults' \in {faults, faults + 1} /\ row' = row
      BY <2>2 DEF Settling, CloseSave, MarkState, SaveFailed, BeginRun, SaveProcess, SaveProcessFails,
                  SaveState, Write, WriteFails, Fault, store
    <3> QED
      BY <1>1, <3>1, <3>2
  <2>3. CASE Claim(k) \/ StartFails(k) \/ Register(k) \/ Release(k) \/ CloseLive(k) \/ UpdateSave(k)
    BY <1>1, <2>3 DEF Claim, StartFails, Register, Release, CloseLive, UpdateSave, InMaps, InStore, store, procs
  <2>4. CASE Create(k)
    BY <2>4 DEF Create, InStore, procs, Steady, Present, RegistryInv, TypeOK, StoreTypes
  <2>5. CASE DeleteStore(k)
    <3>1. faults' = faults /\ home' = home
      BY <2>5 DEF DeleteStore, InStore, procs
    <3>2. \A s \in Sessions : Present(s)' => Present(s)
      <4>1. CASE call[k].on = None
        BY <2>5, <4>1 DEF DeleteStore, Present
      <4>2. CASE call[k].on # None
        BY <2>5, <4>2 DEF DeleteStore, Present, RegistryInv, TypeOK, StoreTypes
      <4> QED
        BY <4>1, <4>2
    <3> QED
      BY <3>1, <3>2 DEF Steady
  <2>6. CASE StartProcess(k)
    BY <2>6, RegistryAssumption DEF StartProcess, store, Steady, Present, RegistryInv, TypeOK, ProcessTypes
  <2> QED
    BY <1>2, <2>1, <2>2, <2>3, <2>4, <2>5, <2>6, StepKinds DEF Launching
<1>3. ASSUME NEW p \in Processes, WaitLoop(p) \/ Die(p)
      PROVE  Steady
  BY <1>1, <1>3 DEF WaitLoop, SaveExit, RemoveRuntime, Die, Write, WriteFails, Fault, store
<1>4. CASE Crash \/ UNCHANGED vars
  BY <1>1, <1>4 DEF Crash, Fault, vars, store, procs
<1> QED
  BY <1>2, <1>3, <1>4 DEF Next

\* The waitLoop of a process saves its exit, then removes its runtime; no other step does.
LEMMA WaitersStay ==
  ASSUME RegistryInv, [Next]_vars, NEW p \in Processes, waiter'[p] \in {"saved", "done"}
  PROVE  waiter[p] = waiter'[p] \/ waiter[p] = "saved" \/ (SaveExit(p) /\ waiter'[p] = "saved")
<1>1. waiter \in [Processes -> {"none", "waiting", "saved", "done", "lost"}]
  BY DEF RegistryInv, TypeOK, ProcessTypes
<1>2. ASSUME NEW k \in Calls, Request(k)
      PROVE  waiter'[p] = waiter[p] \/ waiter'[p] = "waiting"
  <2>1. CASE Register(k)
    BY <1>1, <2>1 DEF Register
  <2>2. CASE Reading(k)
    BY <2>2, ReadingIsQuiet DEF QuietStep, procs
  <2> QED
    BY <1>2, <2>1, <2>2, StepKinds DEF Launching, Settling, CloseSave, MarkState, SaveFailed, Create, UpdateSave,
       DeleteStore, CloseLive, Claim, BeginRun, StartProcess, StartFails, SaveProcess, SaveProcessFails, Release,
       InMaps, InStore, procs
<1>3. ASSUME NEW q \in Processes, WaitLoop(q) \/ Die(q)
      PROVE  waiter'[p] = waiter[p] \/ (q = p /\ SaveExit(p) /\ waiter'[p] = "saved") \/ waiter[p] = "saved"
  BY <1>1, <1>3 DEF WaitLoop, SaveExit, RemoveRuntime, Die
<1>4. CASE Crash
  BY <1>1, <1>4 DEF Crash
<1> QED
  BY <1>2, <1>3, <1>4 DEF Next, vars, procs

\* A transaction of a session that is there then writes what it has to, when none failed.
LEMMA NoFault ==
  ASSUME RegistryInv, Steady, faults' = 0
  PROVE  faults = 0 /\ \A s \in Sessions : WriteFails(s) => ~Present(s)'
  BY RegistryAssumption DEF RegistryInv, TypeOK, Steady, WriteFails, Fault, store, Present

LEMMA ExitStep == RegistryInv /\ Apart /\ ExitIsRecorded /\ [Next]_vars => ExitIsRecorded'
<1> SUFFICES ASSUME RegistryInv, Apart, ExitIsRecorded, [Next]_vars,
                    NEW p \in Processes, waiter'[p] \in {"saved", "done"}, faults' = 0, Present(home[p])'
             PROVE  \E i \in DOMAIN runs'[home'[p]] : runs'[home'[p]][i].exit = p
  BY DEF ExitIsRecorded
<1> DEFINE s == home[p]
<1>1. Steady /\ ExitsGrow
  BY StepIsSteady, ApartStep
<1>2. waiter[p] # "none"
  BY WaitersStay DEF SaveExit
<1>3. s \in Sessions /\ row[s] # "absent" /\ home'[p] = s
  BY <1>1, <1>2 DEF RegistryInv, Tied, Known, Steady
<1>4. faults = 0 /\ Present(s)' /\ Present(s) /\ (WriteFails(s) => ~Present(s)')
  BY <1>1, <1>3, NoFault DEF Steady, Present
<1>5. CASE waiter[p] \in {"saved", "done"}
  <2>1. PICK i \in DOMAIN runs[s] : runs[s][i].exit = p
    BY <1>4, <1>5 DEF ExitIsRecorded
  <2> QED
    BY <1>1, <1>3, <2>1, RegistryAssumption DEF ExitsGrow, ExitsKept
<1>6. CASE SaveExit(p)
  BY <1>3, <1>4, <1>6, SaveExitApart
<1> QED
  BY <1>5, <1>6, WaitersStay

\* ExitIsRecorded: the exit of a process is in its session's runs when its runtime goes.
THEOREM ExitIsRecordedHolds == Spec => []ExitIsRecorded
<1>1. Init => ExitIsRecorded
  BY DEF Init, ExitIsRecorded
<1> QED
  BY <1>1, ExitStep, RegistryInvHolds, ApartHolds, PTL DEF Spec

-----------------------------------------------------------------------------
(* What is recorded as running *)

\* Without a failure: the session of a runtime whose exit is saved is terminal, and so is
\* that of a launch about to release its claim, unless it has a runtime.
Over ==
  faults = 0 =>
    /\ \A p \in Processes : waiter[p] = "saved" /\ Present(home[p]) => Terminal(home[p])
    /\ \A k \in Calls : call[k].at = "releasing" /\ Present(call[k].on) /\ ~Terminal(call[k].on) =>
         runtimes[call[k].on] # None

\* A request changes no other.
LEMMA OthersStay ==
  ASSUME RegistryInv, NEW k \in Calls, Request(k), NEW j \in Calls, j # k
  PROVE  call'[j] = call[j]
<1>1. CASE Reading(k)
  BY <1>1, ReadingIsQuiet DEF QuietStep
<1>2. CASE \/ Settling(k) \/ UpdateSave(k) \/ DeleteStore(k) \/ Claim(k) \/ BeginRun(k) \/ StartFails(k)
           \/ SaveProcess(k) \/ SaveProcessFails(k) \/ Register(k) \/ Release(k) \/ SaveFailed(k) \/ CloseLive(k)
  <2>1. Answer(k) \/ Listing(k) \/ \E there \in RequestPlaces : Go(k, there)
    BY <1>2 DEF Settling, CloseSave, MarkState, UpdateSave, DeleteStore, Claim, BeginRun, StartFails,
       SaveProcess, SaveProcessFails, Register, Release, SaveFailed, CloseLive, RequestPlaces
  <2>2. CASE Listing(k)
    BY <2>2 DEF Listing, RegistryInv, TypeOK, CallTypes
  <2> QED
    BY <2>1, <2>2, Moved
<1>3. CASE Create(k) \/ StartProcess(k)
  BY <1>3 DEF Create, Ask, StartProcess, RegistryInv, TypeOK, CallTypes
<1> QED
  BY <1>1, <1>2, <1>3, StepKinds DEF Launching

\* What a request waiting for its claim, or about to record a failure, does next.
LEMMA NextOfCall ==
  ASSUME NEW k \in Calls, Request(k)
  PROVE  /\ call[k].at = "claiming" => Claim(k) \/ ClaimRefused(k)
         /\ call[k].at = "failed" => SaveFailed(k)
<1>1. \A request : Ask(k, request) => call[k].at = "idle"
  BY DEF Ask, NotMade
<1>2. Create(k) \/ RerunView(k) \/ CloseLookup(k) \/ UpdateView(k) \/ DeleteView(k) \/ List(k) => call[k].at = "idle"
  BY <1>1, Zenon DEF Create, RerunView, CloseLookup, UpdateView, DeleteView, List
<1>3. CASE BeginRun(k) \/ StartProcess(k) \/ StartFails(k) \/ SaveProcess(k) \/ SaveProcessFails(k) \/ Register(k) \/ Release(k)
  BY <1>3 DEF BeginRun, StartProcess, StartFails, SaveProcess, SaveProcessFails, Register, Release, At
<1>4. CASE CloseLive(k) \/ CloseWaited(k) \/ CloseView(k) \/ CloseSave(k) \/ UpdateSave(k) \/ DeleteCheck(k) \/ DeleteStore(k)
  BY <1>4 DEF CloseLive, CloseWaited, CloseView, CloseSave, UpdateSave, DeleteCheck, DeleteStore, At
<1>5. CASE ListCheck(k) \/ ListDone(k) \/ RefreshLoad(k) \/ RefreshCheck(k) \/ RefreshExit(k) \/ MarkState(k)
  BY <1>5 DEF ListCheck, ListDone, RefreshLoad, RefreshCheck, RefreshExit, MarkState, At
<1>6. CASE Claim(k) \/ ClaimRefused(k) \/ SaveFailed(k)
  BY <1>6 DEF Claim, ClaimRefused, SaveFailed, At
<1> QED
  BY <1>2, <1>3, <1>4, <1>5, <1>6 DEF Request, CreateSession, RerunSession, Launch, CloseSession, UpdateSession,
     Delete, ListSessions

\* What brings a request to the release of its claim.
LEMMA ReleasingBy ==
  ASSUME RegistryInv, NEW k \in Calls, Request(k), call'[k].at = "releasing"
  PROVE  (Register(k) \/ (SaveFailed(k) /\ At(k, "failing"))) /\ call'[k].on = call[k].on
<1>1. CASE Reading(k)
  BY <1>1, ReadingIsQuiet DEF QuietStep, LaunchPlaces
<1>2. CASE Settling(k) \/ UpdateSave(k) \/ DeleteStore(k)
  <2>1. Answer(k) \/ Listing(k)
    BY <1>2 DEF Settling, CloseSave, MarkState, UpdateSave, DeleteStore, SaveFailed, At
  <2>2. CASE Listing(k)
    BY <2>2, Fields DEF Listing, RegistryInv, TypeOK, CallTypes, Requests
  <2> QED
    BY <2>1, <2>2, Moved
<1>3. CASE Claim(k) \/ BeginRun(k) \/ StartFails(k) \/ SaveProcess(k) \/ SaveProcessFails(k) \/ Release(k) \/ CloseLive(k)
  <2>1. Answer(k) \/ \E there \in RequestPlaces \ {"releasing"} : Go(k, there)
    BY <1>3 DEF Claim, BeginRun, StartFails, SaveProcess, SaveProcessFails, Release, CloseLive, RequestPlaces
  <2> QED
    BY <2>1, Moved
<1>4. CASE Create(k)
  BY <1>4 DEF Create, Ask, NotMade, RegistryInv, TypeOK, CallTypes
<1>5. CASE StartProcess(k)
  BY <1>5, Fields DEF StartProcess, RegistryInv, TypeOK, CallTypes, Requests
<1>6. CASE Register(k) \/ (SaveFailed(k) /\ At(k, "failing"))
  <2>1. Go(k, "releasing")
    BY <1>6 DEF Register, SaveFailed, At
  <2> QED
    BY <1>6, <2>1, Moved DEF RequestPlaces
<1> QED
  BY <1>1, <1>2, <1>3, <1>4, <1>5, <1>6, StepKinds DEF Launching

\* Who takes a runtime, or a claim, away.
LEMMA MapsStay ==
  ASSUME RegistryInv, [Next]_vars, NEW s \in Sessions
  PROVE  /\ runtimes[s] # None /\ runtimes'[s] = None =>
              Crash \/ \E p \in Processes : waiter[p] = "saved" /\ home[p] = s
         /\ s \in launching /\ s \notin launching' => Crash \/ \E k \in Calls : Release(k) /\ call[k].on = s
<1>1. ASSUME NEW k \in Calls, Request(k)
      PROVE  /\ runtimes'[s] = None => runtimes[s] = None
             /\ s \in launching => s \in launching' \/ (Release(k) /\ call[k].on = s)
  <2>1. CASE Reading(k)
    BY <2>1, ReadingIsQuiet DEF QuietStep, registry
  <2>2. CASE Register(k)
    BY <2>2, Fields, RegistryAssumption DEF Register, At, RegistryInv, TypeOK, MapTypes, Sessionless
  <2>3. CASE Claim(k) \/ Release(k)
    BY <2>3 DEF Claim, Release, InMaps
  <2> QED
    BY <1>1, <2>1, <2>2, <2>3, StepKinds DEF Launching, Settling, CloseSave, MarkState, SaveFailed, Create, UpdateSave,
       DeleteStore, CloseLive, BeginRun, StartProcess, StartFails, SaveProcess, SaveProcessFails,
       InMaps, InStore, registry
<1>2. ASSUME NEW p \in Processes, WaitLoop(p) \/ Die(p)
      PROVE  launching' = launching /\ (runtimes' = runtimes \/ (waiter[p] = "saved" /\ runtimes' = [runtimes EXCEPT ![home[p]] = None]))
  BY <1>2 DEF WaitLoop, SaveExit, RemoveRuntime, Die, registry
<1>3. ASSUME NEW p \in Processes, WaitLoop(p) \/ Die(p), runtimes[s] # None, runtimes'[s] = None
      PROVE  waiter[p] = "saved" /\ home[p] = s
  BY <1>2, <1>3 DEF RegistryInv, TypeOK, MapTypes
<1> QED
  BY <1>1, <1>2, <1>3 DEF Next, vars, registry

\* A session that is terminal, and whose launch is not running, stays so.
LEMMA TerminalStays ==
  ASSUME RegistryInv, [Next]_vars, NEW s \in Sessions, row[s] # "absent", Terminal(s), ~Terminal(s)'
  PROVE  s \in launching /\ runtimes[s] = None /\ \E k \in Unstarted : call[k].on = s
<1>1. PICK k \in Unstarted : call[k].on = s
  BY RevivalHolds DEF RevivalStep
<1> QED
  BY <1>1 DEF RegistryInv, OneLaunch, Launchers

\* A failure that is recorded makes the session terminal.
LEMMA SavedIsTerminal ==
  ASSUME RegistryInv, Steady, faults' = 0, NEW s \in Sessions, NEW state \in Terminals, SaveState(s, state), Present(s)'
  PROVE  Terminal(s)'
<1>1. Write(s, Amend(runs[s], [Current(s) EXCEPT !.state = state]))
  BY NoFault DEF SaveState
<1> DEFINE run == [Current(s) EXCEPT !.state = state]
           log == Amend(runs[s], run)
<1>2. Present(s) /\ runs' = [runs EXCEPT ![s] = log] /\ StoreTypes
  BY <1>1 DEF Write, RegistryInv, TypeOK
<1>3. run \in Runs /\ run.state = state
  BY <1>2, CurrentIsRun DEF Runs
<1>4. log[Len(log)] = run
  BY <1>2, <1>3, EnsureRunIsLog, AmendLast
<1> HIDE DEF run, log
<1>5. runs'[s] = log
  BY <1>2 DEF StoreTypes
<1> QED
  BY <1>3, <1>4, <1>5 DEF Terminal, Current

LEMMA OverStep == RegistryInv /\ Apart /\ Over /\ [Next]_vars => Over'
<1> SUFFICES ASSUME RegistryInv, Apart, Over, [Next]_vars, faults' = 0
             PROVE  /\ \A p \in Processes : waiter'[p] = "saved" /\ Present(home[p])' => Terminal(home[p])'
                    /\ \A k \in Calls : call'[k].at = "releasing" /\ Present(call[k].on)' /\ ~Terminal(call[k].on)' =>
                         runtimes'[call'[k].on] # None
  BY DEF Over
<1>1. Steady /\ faults = 0 /\ ~Crash
  BY StepIsSteady, NoFault, RegistryAssumption DEF Crash, Fault, RegistryInv, TypeOK
<1>2. ASSUME NEW p \in Processes, waiter'[p] = "saved", Present(home[p])'
      PROVE  Terminal(home[p])'
  <2> DEFINE s == home[p]
  <2>1. waiter[p] # "none"
    BY <1>2, WaitersStay DEF SaveExit
  <2>2. s \in Sessions /\ row[s] # "absent" /\ home'[p] = s
    BY <1>1, <2>1 DEF RegistryInv, Tied, Known, Steady
  <2>3. Present(s) /\ row'[s] = "present"
    BY <1>1, <1>2, <2>2 DEF Steady, Present
  <2>4. CASE waiter[p] = "saved"
    BY <1>1, <2>2, <2>3, <2>4, TerminalStays, RegistryAssumption DEF Over, RegistryInv, Tied, Waiting, Terminal, Current
  <2>5. CASE SaveExit(p)
    <3>1. ~WriteFails(s)
      BY <1>1, <1>2, <2>2, <2>3, NoFault DEF Present
    <3> QED
      BY <2>2, <2>5, <3>1, SaveExitApart DEF Terminal, Current
  <2> QED
    BY <1>2, <2>4, <2>5, WaitersStay
<1>3. ASSUME NEW k \in Calls, call'[k].at = "releasing", Present(call[k].on)', ~Terminal(call[k].on)'
      PROVE  runtimes'[call'[k].on] # None
  <2> DEFINE s == call'[k].on
  <2>1. CASE call'[k] = call[k]
    <3>1. s \in Sessions /\ row[s] # "absent" /\ k \in Launchers /\ s = call[k].on
      BY <1>3, <2>1, Fields DEF RegistryInv, Known, LaunchPlaces, Sessionless, Launchers
    <3>2. row'[s] = "present" /\ ~(runs'[s][Len(runs'[s])].state \in Terminals)
      BY <1>3 DEF Present, Terminal, Current
    <3>3. Present(s)
      BY <1>1, <3>1, <3>2 DEF Steady, Present
    <3>4. ~Terminal(s)
      <4>1. SUFFICES ASSUME Terminal(s)
                     PROVE  FALSE
        OBVIOUS
      <4>2. PICK j \in Unstarted : call[j].on = s
        BY <3>1, <3>2, <4>1, TerminalStays DEF Terminal, Current
      <4>3. j = k
        BY <3>1, <4>2 DEF RegistryInv, OneLaunch, Launchers
      <4> QED
        BY <1>3, <2>1, <4>2, <4>3 DEF Unstarted
    <3>5. runtimes[s] # None
      BY <1>1, <1>3, <2>1, <3>1, <3>3, <3>4 DEF Over
    <3> QED
      BY <1>1, <3>1, <3>3, <3>4, <3>5, MapsStay DEF Over
  <2>2. ASSUME Request(k)
        PROVE  runtimes'[s] # None
    <3>1. (Register(k) \/ (SaveFailed(k) /\ At(k, "failing"))) /\ s = call[k].on
      BY <1>3, <2>2, ReleasingBy
    <3>2. CASE Register(k)
      BY <3>1, <3>2, Fields, RegistryAssumption DEF Register, At, RegistryInv, TypeOK, MapTypes, Sessionless
    <3>3. CASE SaveFailed(k) /\ At(k, "failing")
      <4>1. SaveState(call[k].on, "failed") /\ call[k].on \in Sessions
        BY <3>3, Fields DEF SaveFailed, At, Sessionless
      <4>2. row'[s] = "present" /\ ~(runs'[s][Len(runs'[s])].state \in Terminals)
        BY <1>3 DEF Present, Terminal, Current
      <4> QED
        BY <1>1, <3>1, <4>1, <4>2, SavedIsTerminal DEF Present, Terminal, Current, Terminals
    <3> QED
      BY <3>1, <3>2, <3>3
  <2> QED
    BY <1>1, <2>1, <2>2, OthersStay DEF Next, WaitLoop, SaveExit, RemoveRuntime, Die, vars
<1> QED
  BY <1>2, <1>3

\* A session that appears has been created by a request that asks for its claim.
LEMMA AppearsClaimed ==
  ASSUME RegistryInv, [Next]_vars, NEW s \in Sessions, row[s] = "absent", row'[s] = "present"
  PROVE  \E k \in Calls : call'[k].on = s /\ call'[k].at = "claiming"
<1>1. row \in [Sessions -> {"absent", "present", "deleted"}] /\ call \in [Calls -> Requests]
  BY DEF RegistryInv, TypeOK, StoreTypes, CallTypes
<1>2. ASSUME NEW k \in Calls, Request(k)
      PROVE  Create(k)
  <2>1. ~Reading(k)
    BY ReadingIsQuiet DEF store
  <2>2. ~DeleteStore(k)
    BY <1>1 DEF DeleteStore, Present
  <2>3. CASE Settling(k) \/ SaveFailed(k) \/ BeginRun(k) \/ SaveProcess(k) \/ SaveProcessFails(k)
    BY <2>3 DEF Settling, CloseSave, MarkState, SaveFailed, SaveState, BeginRun, SaveProcess, SaveProcessFails,
                Write, WriteFails, store
  <2>4. CASE UpdateSave(k) \/ CloseLive(k) \/ Claim(k) \/ StartProcess(k) \/ StartFails(k) \/ Register(k) \/ Release(k)
    BY <2>4 DEF UpdateSave, CloseLive, Claim, StartProcess, StartFails, Register, Release, InMaps, store
  <2> QED
    BY <1>2, <2>1, <2>2, <2>3, <2>4, StepKinds DEF Launching
<1>3. PICK k \in Calls : Create(k)
  BY <1>2 DEF Next, WaitLoop, SaveExit, Write, WriteFails, RemoveRuntime, Die, Crash, vars, store
<1>4. PICK t \in Sessions, m \in Metas :
        /\ Ask(k, [NotMade EXCEPT !.at = "claiming", !.kind = "create", !.on = t, !.copy = m])
        /\ row' = [row EXCEPT ![t] = "present"]
  BY <1>3 DEF Create
<1>5. t = s
  BY <1>1, <1>4
<1> QED
  BY <1>1, <1>4, <1>5 DEF Ask, NotMade

LEMMA BackedStep == RegistryInv /\ Over /\ RunningIsBacked /\ [Next]_vars => RunningIsBacked'
<1> SUFFICES ASSUME RegistryInv, Over, RunningIsBacked, [Next]_vars, faults' = 0,
                    NEW s \in Sessions, row'[s] = "present", ~Terminal(s)'
             PROVE  \/ runtimes'[s] # None \/ s \in launching'
                    \/ \E k \in Calls : call'[k].on = s /\ call'[k].at \in {"claiming", "failed"}
  BY DEF RunningIsBacked, Listed, Present
<1>1. Steady /\ faults = 0 /\ ~Crash
  BY StepIsSteady, NoFault, RegistryAssumption DEF Crash, Fault, RegistryInv, TypeOK
<1>2. CASE row[s] = "absent"
  BY <1>2, AppearsClaimed
<1>3. CASE row[s] # "absent"
  <2>1. Present(s)
    BY <1>1, <1>3 DEF Steady, Present
  <2>2. ASSUME s \in launching
        PROVE  \/ runtimes'[s] # None \/ s \in launching'
               \/ \E k \in Calls : call'[k].on = s /\ call'[k].at \in {"claiming", "failed"}
    <3>1. CASE s \in launching'
      BY <3>1
    <3>2. CASE s \notin launching'
      <4>1. PICK k \in Calls : Release(k) /\ call[k].on = s
        BY <1>1, <2>2, <3>2, MapsStay
      <4>2. UNCHANGED <<runs, runtimes>>
        BY <4>1 DEF Release, InMaps, store
      <4>3. CASE call[k].at = "releasing"
        BY <1>1, <2>1, <4>1, <4>2, <4>3 DEF Over, Terminal, Current
      <4>4. CASE call[k].at = "failing"
        BY <4>1, <4>4, Moved DEF Release, At, RequestPlaces
      <4> QED
        BY <4>1, <4>3, <4>4 DEF Release, At
    <3> QED
      BY <3>1, <3>2
  <2>3. CASE Terminal(s)
    BY <1>3, <2>2, <2>3, TerminalStays
  <2>4. CASE runtimes[s] # None /\ ~Terminal(s)
    BY <1>1, <2>1, <2>4, MapsStay DEF Over
  <2>5. ASSUME NEW k \in Calls, call[k].on = s, call[k].at \in {"claiming", "failed"}, ~Terminal(s), runtimes[s] = None, s \notin launching
        PROVE  s \in launching' \/ (call'[k].on = s /\ call'[k].at \in {"claiming", "failed"})
    <3>1. CASE call'[k] = call[k]
      BY <2>5, <3>1
    <3>2. CASE Claim(k)
      BY <2>5, <3>2 DEF Claim
    <3>3. CASE ClaimRefused(k)
      BY <2>5, <3>3 DEF ClaimRefused, Claimable
    <3>4. CASE SaveFailed(k) /\ call[k].at = "failed"
      <4>1. SaveState(s, "failed")
        BY <2>5, <3>4 DEF SaveFailed
      <4> QED
        BY <1>1, <4>1, SavedIsTerminal DEF Terminals, Present
    <3>5. CASE Request(k)
      BY <2>5, <3>2, <3>3, <3>4, <3>5, NextOfCall
    <3> QED
      BY <1>1, <3>1, <3>5, OthersStay DEF Next, WaitLoop, SaveExit, RemoveRuntime, Die, vars
  <2> QED
    BY <1>1, <2>1, <2>2, <2>3, <2>4, <2>5 DEF RunningIsBacked, Listed
<1> QED
  BY <1>2, <1>3

\* RunningIsBacked: without a failure, what is recorded as running has a runtime, a launch,
\* or a call that is about to record the failure of one.
THEOREM RunningIsBackedHolds == Spec => []RunningIsBacked
<1>1. Init => Over /\ RunningIsBacked
  BY DEF Init, Over, RunningIsBacked, Listed, Present, NotMade
<1> QED
  BY <1>1, OverStep, BackedStep, RegistryInvHolds, ApartHolds, PTL DEF Spec
=============================================================================
