--------------------------- MODULE WorkspaceWatch ---------------------------
(* agent/infrastructure/workspacewatch/manager.go: the feeds of changes of   *)
(* one workspace.  The manager keeps one root watcher per workspace and      *)
(* starts another when the last one has closed: an incarnation of the root   *)
(* is a number.  m.mu guards the table and r.mu an incarnation; a section of *)
(* either is one step.  A change is its sequence number, Rescan marks the    *)
(* event after which a feed closes.                                          *)
EXTENDS Naturals, Sequences, FiniteSets

CONSTANTS
  Subscribers,  \* calls of Subscribe, with what their callers do later
  QueueSize,    \* SubscriberQueueSize
  MaxRoots,     \* bound: incarnations started
  MaxChanges,   \* bound: sequence numbers of an incarnation
  NoRoot

Roots == 1 .. MaxRoots

ASSUME WatchAssumption ==
  /\ QueueSize \in Nat \ {0}      \* Config.Validate
  /\ MaxRoots \in Nat /\ MaxChanges \in Nat
  /\ NoRoot \notin Roots

VARIABLES
  table,     \* Manager.roots[workspace]
  stopped,   \* Manager.closed
  doomed,    \* incarnations Manager.Close is to close
  root,      \* incarnation -> "unborn", "open", "closed" (rootWatcher.closed)
  loop,      \* incarnation -> place of run
  watcher,   \* incarnations whose fsnotify watcher is open
  hangups,   \* incarnations somebody is about to close the watcher of,
  removals,  \*   and to take out of the table
  members,   \* incarnation -> rootWatcher.subscribers
  sequence,  \* incarnation -> rootWatcher.sequence
  call,      \* subscriber -> place
  at,        \* subscriber -> the incarnation it found
  queue,     \* subscriber -> its channel
  seen,      \* subscriber -> the last number it received, or, before, the
             \*   number of the root when it joined (auxiliary)
  told,      \* subscribers that received a rescan (auxiliary)
  finished   \* subscribers whose channel is closed

managerVars == <<table, stopped, doomed>>
rootVars    == <<root, loop, watcher, hangups, removals, members, sequence>>
feedVars    == <<call, at, queue, seen, told, finished>>
watchVars == <<managerVars, rootVars, feedVars>>

Event(n, last) == [number |-> n, rescan |-> last]

WatchInit ==
  /\ table = NoRoot /\ stopped = FALSE /\ doomed = {}
  /\ root = [r \in Roots |-> "unborn"]
  /\ loop = [r \in Roots |-> "none"]
  /\ watcher = {} /\ hangups = {} /\ removals = {}
  /\ members = [r \in Roots |-> {}]
  /\ sequence = [r \in Roots |-> 0]
  /\ call = [s \in Subscribers |-> "out"]
  /\ at = [s \in Subscribers |-> NoRoot]
  /\ queue = [s \in Subscribers |-> <<>>]
  /\ seen = [s \in Subscribers |-> 0]
  /\ told = {}
  /\ finished = {}

------------------------------------------------------------------------------
(* Subscribe: under m.mu find the root or start one, under r.mu join it; a   *)
(* root that closed in between sends the caller back to the table.           *)

Refuse(s) ==
  /\ call' = [call EXCEPT ![s] = "refused"]
  /\ at' = [at EXCEPT ![s] = NoRoot]
  /\ UNCHANGED <<managerVars, rootVars, queue, seen, told, finished>>

Find(s) ==
  /\ call[s] \in {"out", "looking"}
  /\ ~stopped
  /\ table # NoRoot
  /\ at' = [at EXCEPT ![s] = table]
  /\ call' = [call EXCEPT ![s] = "found"]
  /\ UNCHANGED <<managerVars, rootVars, queue, seen, told, finished>>

\* startRootLocked: the watcher, the directories, the entry, the loop
Start(s) ==
  /\ call[s] \in {"out", "looking"}
  /\ ~stopped
  /\ table = NoRoot
  /\ \E r \in Roots :
        /\ root[r] = "unborn"
        /\ \A q \in Roots : q < r => root[q] # "unborn"
        /\ root' = [root EXCEPT ![r] = "open"]
        /\ loop' = [loop EXCEPT ![r] = "select"]
        /\ watcher' = watcher \cup {r}
        /\ table' = r
        /\ at' = [at EXCEPT ![s] = r]
  /\ call' = [call EXCEPT ![s] = "found"]
  /\ UNCHANGED <<stopped, doomed, hangups, removals, members, sequence, queue, seen,
                 told, finished>>

\* the manager is closed, or the watcher cannot be created
SubscribeFails(s) ==
  /\ call[s] \in {"out", "looking"}
  /\ stopped \/ table = NoRoot
  /\ Refuse(s)

Join(s) ==
  /\ call[s] = "found"
  /\ LET r == at[s] IN
     IF root[r] = "open"
     THEN /\ members' = [members EXCEPT ![r] = @ \cup {s}]
          /\ seen' = [seen EXCEPT ![s] = sequence[r]]
          /\ call' = [call EXCEPT ![s] = "joined"]
     ELSE /\ call' = [call EXCEPT ![s] = "looking"]
          /\ UNCHANGED <<members, seen>>
  /\ UNCHANGED <<managerVars, root, loop, watcher, hangups, removals, sequence, at,
                 queue, told, finished>>

\* the caller's context ended before it joined
JoinCancelled(s) ==
  /\ call[s] = "looking"
  /\ Refuse(s)

------------------------------------------------------------------------------
(* The loop of an incarnation: publish, or a rescan that closes every feed.  *)

TableOnly(r) ==  \* mutant: the watcher is left open
  removals' = removals \cup {r} /\ UNCHANGED hangups

\* whoever closes an incarnation closes its watcher and takes it out of the table
TearDown(r) == hangups' = hangups \cup {r} /\ removals' = removals \cup {r}

RescanIfRoom(r, n) ==  \* mutant: the queues are not emptied for the rescan
  /\ sequence' = [sequence EXCEPT ![r] = n]
  /\ queue' = [s \in Subscribers |->
       IF s \in members[r] /\ Len(queue[s]) < QueueSize
       THEN Append(queue[s], Event(n, TRUE)) ELSE queue[s]]
  /\ finished' = finished \cup members[r]
  /\ members' = [members EXCEPT ![r] = {}]
  /\ root' = [root EXCEPT ![r] = "closed"]
  /\ TearDown(r)

\* publishRescanAndCloseLocked: the queues are emptied for one last event
RescanAndClose(r, n) ==
  /\ sequence' = [sequence EXCEPT ![r] = n]
  /\ queue' = [s \in Subscribers |-> IF s \in members[r] THEN <<Event(n, TRUE)>>
                                     ELSE queue[s]]
  /\ finished' = finished \cup members[r]
  /\ members' = [members EXCEPT ![r] = {}]
  /\ root' = [root EXCEPT ![r] = "closed"]
  /\ TearDown(r)

\* publish's select: a send that does not wait
RoomForOneMore(s) == Len(queue[s]) <= QueueSize  \* mutant: one too many
HasRoom(s) == Len(queue[s]) < QueueSize

Skipped(s) == TRUE  \* mutant: a full channel misses the change, its feed goes on
Skips(s) == FALSE

\* publish: every channel takes the change
Publish(r) ==
  /\ loop[r] = "select" /\ r \in watcher /\ root[r] = "open"
  /\ sequence[r] < MaxChanges
  /\ \A s \in members[r] : Skips(s) \/ HasRoom(s)
  /\ sequence' = [sequence EXCEPT ![r] = @ + 1]
  /\ queue' = [s \in Subscribers |->
       IF s \in members[r] /\ HasRoom(s)
       THEN Append(queue[s], Event(sequence[r] + 1, FALSE)) ELSE queue[s]]
  /\ UNCHANGED <<managerVars, root, loop, watcher, hangups, removals, members, call,
                 at, seen, told, finished>>

\* publish: some channel is full.  Subscribers the change was sent to before
\* may have received it, and all that was queued, before the queues are emptied.
Overflow(r) ==
  /\ loop[r] = "select" /\ r \in watcher /\ root[r] = "open"
  /\ sequence[r] < MaxChanges
  /\ \E s \in members[r] : ~Skips(s) /\ ~HasRoom(s)
  /\ \E early \in SUBSET {s \in members[r] : HasRoom(s)} :
        seen' = [s \in Subscribers |-> IF s \in early THEN sequence[r] + 1
                                       ELSE seen[s]]
  /\ RescanAndClose(r, sequence[r] + 2)
  /\ UNCHANGED <<managerVars, loop, watcher, call, at, told>>

\* handleEvent for a rename, a path out of the root, a directory that cannot
\* be watched: a rescan; the loop goes on until the watcher is closed
Rescan(r) ==
  /\ loop[r] = "select" /\ r \in watcher /\ root[r] = "open"
  /\ RescanAndClose(r, sequence[r] + 1)
  /\ UNCHANGED <<managerVars, loop, watcher, call, at, seen, told>>

\* an error of the watcher, or its channels closed: a rescan and return
WatcherEnds(r) ==
  /\ loop[r] = "select"
  /\ loop' = [loop EXCEPT ![r] = "returning"]
  /\ IF root[r] = "open" THEN RescanAndClose(r, sequence[r] + 1)
     ELSE UNCHANGED <<root, members, sequence, queue, finished, hangups, removals>>
  /\ UNCHANGED <<managerVars, watcher, call, at, seen, told>>

CloseRootOnly(r) ==  \* mutant: the channels of its subscribers stay open
  /\ members' = [members EXCEPT ![r] = {}]
  /\ root' = [root EXCEPT ![r] = "closed"]
  /\ hangups' = hangups \cup ({r} \cap watcher)
  /\ UNCHANGED <<removals, sequence, queue, finished>>

\* rootWatcher.close of a stopped manager, whose table is empty already: the
\* feeds end without an event.  closeOnce: a second call changes nothing.
CloseRoot(r) ==
  /\ finished' = finished \cup members[r]
  /\ members' = [members EXCEPT ![r] = {}]
  /\ root' = [root EXCEPT ![r] = "closed"]
  /\ hangups' = hangups \cup ({r} \cap watcher)
  /\ UNCHANGED <<removals, sequence, queue>>

\* the manager's context is done: run returns through its deferred close
LoopCancelled(r) ==
  /\ loop[r] = "select"
  /\ stopped
  /\ loop' = [loop EXCEPT ![r] = "returned"]
  /\ CloseRoot(r)
  /\ UNCHANGED <<managerVars, watcher, call, at, seen, told>>

HangUp(r) ==
  /\ r \in hangups
  /\ hangups' = hangups \ {r}
  /\ watcher' = watcher \ {r}
  /\ UNCHANGED <<managerVars, root, loop, removals, members, sequence, feedVars>>

NoEntry(r) == FALSE  \* mutant: a root is never taken out
AnyEntry(r) == TRUE  \* mutant: whatever the table holds is taken out

\* removeRootLocked's comparison
OwnEntry(r) == table = r

\* run's deferred close of a root already closed: the watcher and the table
\* once more, however late
LoopReturns(r) ==
  /\ loop[r] = "returning"
  /\ loop' = [loop EXCEPT ![r] = "returned"]
  /\ watcher' = watcher \ {r}
  /\ table' = IF OwnEntry(r) THEN NoRoot ELSE table
  /\ UNCHANGED <<stopped, doomed, root, hangups, removals, members, sequence,
                 feedVars>>

RemoveRoot(r) ==
  /\ r \in removals
  /\ removals' = removals \ {r}
  /\ table' = IF OwnEntry(r) THEN NoRoot ELSE table
  /\ UNCHANGED <<stopped, doomed, root, loop, watcher, hangups, members, sequence,
                 feedVars>>

------------------------------------------------------------------------------
\* the subscriber's end: its events, and Close, called or by its context

Receive(s) ==
  /\ call[s] = "joined"
  /\ queue[s] # <<>>
  /\ seen' = [seen EXCEPT ![s] = Head(queue[s]).number]
  /\ told' = IF Head(queue[s]).rescan THEN told \cup {s} ELSE told
  /\ queue' = [queue EXCEPT ![s] = Tail(@)]
  /\ UNCHANGED <<managerVars, rootVars, call, at, finished>>

\* removeSubscriber: the last to leave closes the incarnation.  What the caller
\* may still read from the closed channel is left out.
Leave(s) ==
  /\ call[s] = "joined"
  /\ call' = [call EXCEPT ![s] = "left"]
  /\ queue' = [queue EXCEPT ![s] = <<>>]
  /\ at' = [at EXCEPT ![s] = NoRoot]
  /\ seen' = [seen EXCEPT ![s] = 0]
  /\ told' = told \ {s}
  /\ LET r == at[s] IN
     IF s \in members[r]
     THEN /\ members' = [members EXCEPT ![r] = @ \ {s}]
          /\ finished' = finished \cup {s}
          /\ IF members[r] = {s}
             THEN /\ root' = [root EXCEPT ![r] = "closed"]
                  /\ TearDown(r)
             ELSE UNCHANGED <<root, hangups, removals>>
     ELSE UNCHANGED <<members, finished, root, hangups, removals>>
  /\ UNCHANGED <<managerVars, loop, watcher, sequence>>

------------------------------------------------------------------------------
\* Manager.Close: the table is emptied, then every root it held is closed

Stop ==
  /\ ~stopped
  /\ stopped' = TRUE
  /\ doomed' = IF table = NoRoot THEN {} ELSE {table}
  /\ table' = NoRoot
  /\ UNCHANGED <<rootVars, feedVars>>

StopRoot(r) ==
  /\ r \in doomed
  /\ doomed' = doomed \ {r}
  /\ CloseRoot(r)
  /\ UNCHANGED <<table, stopped, loop, watcher, call, at, seen, told>>

------------------------------------------------------------------------------
SubscribeSteps(s) ==
  Find(s) \/ Start(s) \/ SubscribeFails(s) \/ Join(s) \/ JoinCancelled(s)

LoopSteps(r) ==
  Publish(r) \/ Overflow(r) \/ Rescan(r) \/ WatcherEnds(r) \/ LoopCancelled(r)
  \/ LoopReturns(r)

WatchNext ==
  \/ \E s \in Subscribers : SubscribeSteps(s) \/ Receive(s) \/ Leave(s)
  \/ \E r \in Roots : LoopSteps(r) \/ HangUp(r) \/ RemoveRoot(r) \/ StopRoot(r)
  \/ Stop

WatchSpec == WatchInit /\ [][WatchNext]_watchVars

(* The goroutines that tear a root down are scheduled, the loop sees that    *)
(* its watcher closed, and a caller of Subscribe goes on.  Changes,          *)
(* receives, leaving and stopping are up to the environment.                 *)
WatchFairness ==
  /\ \A s \in Subscribers : WF_watchVars(call[s] # "out" /\ (Find(s) \/ Start(s)))
                            /\ WF_watchVars(call[s] # "out" /\ stopped /\ SubscribeFails(s))
                            /\ WF_watchVars(Join(s))
  /\ \A r \in Roots : /\ WF_watchVars(r \notin watcher /\ WatcherEnds(r))
                      /\ WF_watchVars(LoopReturns(r))
                      /\ WF_watchVars(HangUp(r)) /\ WF_watchVars(RemoveRoot(r))
                      /\ WF_watchVars(StopRoot(r))

FairWatchSpec == WatchSpec /\ WatchFairness
==============================================================================
