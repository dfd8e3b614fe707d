# TermBridge in TLA+

TermBridge keeps terminal sessions on the machine where the work is done and
lets browsers come and go: a browser reaches the **Agent** directly on the local
network or through the **Cloud**, which relays streams over a tunnel that the
Agent keeps open; the Agent runs each session in a pseudo-terminal (PTY),
records what it prints, replays it to whoever attaches, and lets one of the
attached clients at a time control it.

This directory holds TLA+ models of that program, the TLC configurations that
check them, and theorems about them that TLAPS checks. `PROJECT.json` lists the
components, the runs, the hazards of the code with the properties aimed at
them, a mutant for every checked property, and, for every definition that
models code, the lines it stands for.

    tlc -workers 2 -config SessionControl.cfg MCSessionRuntime.tla
    tlc -workers 2 -config SessionRegistry.cfg MCSessionRegistry.tla
    tlc -workers 2 -config Cloud.cfg MCCloud.tla
    tlc -workers 2 -config Workspace.cfg MCWorkspace.tla
    tlapm SessionControlProofs.tla
    tlapm SessionStreamProofs.tla
    tlapm RegistryProofs.tla
    tlapm TunnelProofs.tla
    tlapm WatchProofs.tla
    tlapm AccountProofs.tla
    tlapm FilesProofs.tla

## 1. Inventory

Paths are relative to `src/`.

| Component | State | Operations | Correct means |
|---|---|---|---|
| **Terminal session runtime** `internal/agent/application/task/terminal/runtime.go`, `Client` in `registry.go` | live clients, their order, the controller, attachment, closed; two mutexes held across blocking calls; one bounded queue per client | attach (reserve, replay, publish), detach, takeControl, input, resize, readLoop, waitLoop, closeSession | one controller; output without a hole; an exit that everybody learns of; nobody waits for ever |
| **Session registry** `terminal/registry.go` | runtimes by session, sessions being launched | create, rerun, attach, close, update, delete, delete workspace, list, history | at most one runtime per session; no runtime without a record; no record that says running without a runtime |
| **Session store and recovery** `repository/task/state/`, `model/task/session/` | session, run, process, and workspace records in SQL | saves of one row in a transaction, begin run, exit record, refresh after a restart, orders | a terminal state is final until a rerun; runs are numbered without gaps; recovery never overwrites a live session |
| **PTY and process** `infrastructure/pty/gopty`, `model/task/process` | the PTY, the child | start, read, write, resize, hang up, wait; interpretation of the exit status | |
| **Terminal history** `infrastructure/storage/history` | the file of a run, its line and byte limits | write, flush, close, archive | the tail is kept within the limits |
| **Local terminal endpoint** `internal/agent/api/handler` | two goroutines per WebSocket, attach quota | bridge frames between a WebSocket and a Client | every attached client is detached |
| **Agent tunnel client** `application/user/cloud_client.go`, `application/bootstrap/server.go` | streams and watches by id, one writer, heartbeat; the connector's generation | connect, retry, dispatch, terminal and watch streams | a closed stream is detached; a full stream blocks nobody |
| **Cloud tunnel routes** `internal/cloud/api/handler` | routes by device, pending requests, relays, attach quota, device presence | register, replace, clear a route; request with a timeout; relay a terminal or a watch | an answer reaches its request only; a replaced tunnel does not mark the device offline; quota balanced |
| **Cloud accounts and devices** `internal/cloud/application/user`, `internal/cloud/repository/user` | codes, sessions, OAuth states, device bindings in SQL | request and verify a code, log in, OAuth, bind, unbind | a code or a state is used once; a code that works is the latest, and was mailed |
| **Workspace watch** `infrastructure/workspacewatch` | watched roots, subscriptions with a sequence number | subscribe, publish, rescan, remove, close | a subscriber sees consecutive numbers, or a rescan |
| **Command runner** `application/task/runner` | the interrupt escalation of `exec` | run, interrupt, escalate | an interrupt ends, at the latest, in a kill |
| **Workspaces, shortcuts, files, git** | lists with an order; files with a revision | file operations under a lock per root; git commands | a save never replaces a save its editor has not seen |
| **Web client** `web/src` | caches of the file provider and the epochs that guard them; the change subscription; terminal panes and their sockets | stat, read, save, delete, invalidate, reconnect; keep-alive of panes | no cached bytes are old without an event on its way |

The remaining parts — configuration, logging, migrations, generated protocol
code, layout and presentation — keep no state that more than one actor changes.

**How they interact.** A WebSocket handler (local) or a tunnel stream (through
the Cloud) owns one `Client`: it calls `Registry.Attach`, then `WriteInput`,
`Resize` and `TakeControl` on the Client's behalf and `Detach` at the end, and
drains the Client's queue. The registry owns the runtimes; a runtime runs two
goroutines, `readLoop` (PTY to history and queues) and `waitLoop` (end of the
process). Runtime and registry write session records to the store. The Cloud
only relays: it sees streams, requests and presence, never sessions.

**What is hard here.** Two mutexes with blocking calls inside; a bounded queue
per client whose overflow detaches that client *from the goroutine that
publishes*; an attach that must hand over from history to live output without a
hole; the end of a process, a close and a detach racing each other; a
store of separate transactions under a registry that decides by two maps and
one record, read at different times;
frames dropped and streams half registered in the tunnel; requests that time
out, relays that register, and marks of presence that are set while a tunnel is
replaced; watched roots that close while somebody joins them; caches that are
filled by answers older than the event that emptied them. `PROJECT.json` lists each hazard at its line.

## 2. Modules

| Module | Models | Extends / uses |
|---|---|---|
| `SessionRuntime` | one live session, its clients, the goroutines and the PTY | |
| `SessionProperties` | what must hold of it, and the fairness of the code | `SessionRuntime` |
| `TerminalControl` | the promise: a line of clients and a holder of the control | |
| `SessionRefinement` | the mapping from the first to the third | `SessionProperties`, `TerminalControl` |
| `MCSessionRuntime` | small sets and the symmetry for TLC | `SessionRefinement` |
| `MCSessionStreams` | the two scenes of the run on what clients are sent | `MCSessionRuntime` |
| `MCSessionProgress` | the two scenes of the run on progress | `MCSessionRuntime` |
| `SessionRuntimeProofs` | types, proved | `SessionRuntime` |
| `SessionControlProofs` | control and the refinement, proved | `SessionRuntimeProofs`, `SessionRefinement` |
| `SessionStreamProofs` | what clients are sent and who waits for whom, proved | `SessionControlProofs` |
| `SessionRegistry` | the sessions of an Agent: requests, maps, records, processes, crashes | |
| `RegistryProperties` | what must hold of them, and the mapping to the next module | `SessionRegistry`, `SessionLifecycle` (INSTANCE) |
| `SessionLifecycle` | the promise: a session is launched, live, or at rest | |
| `MCSessionRegistry` | small sets and the symmetry for TLC | `RegistryProperties` |
| `RegistryProofs` | types, invariants and the refinement, proved | `RegistryProperties` |
| `CloudTunnel` | the tunnel of one device, the Cloud's and the Agent's end of it composed over a connection that fails | |
| `TunnelProperties` | what must hold of it | `CloudTunnel` |
| `CloudAccounts` | the accounts of one address: codes, passwords, OAuth states | |
| `AccountProperties` | what must hold of them | `CloudAccounts` |
| `MCCloudTunnel`, `MCCloud` | small sets; tunnel and accounts as one run | `TunnelProperties`, `AccountProperties` |
| `WorkspaceWatch` | the feeds of changes of one workspace | |
| `ChangeFeed` | the promise: a feed without a gap that ends with a rescan | |
| `WatchProperties` | what must hold of the first, and the mapping to the second | `WorkspaceWatch`, `ChangeFeed` (INSTANCE) |
| `WorkbenchFiles` | one file: the Store, the caches of the browsers, their feeds, programs outside | |
| `FilesProperties` | what must hold of it | `WorkbenchFiles` |
| `MCWorkbenchFiles`, `MCWorkspace` | small sets; feeds and files as one run | `FilesProperties`, `WatchProperties` |
| `TunnelProofs` | types, route, presence, quota and connector, proved | `TunnelProperties` |
| `AccountProofs` | types, codes and states, proved | `AccountProperties` |
| `WatchProofs` | types, invariants and the refinement, proved | `WatchProperties` |
| `FilesProofs` | types, saves and caches, proved | `FilesProperties` |

### SessionRuntime

*State.* Each field of `SessionRuntime` (the Go struct) that decides anything
is a variable of the same name: `clients`, `order` (clientOrder), `controller`
(controllerClientId), `attachment`, `closed`, `size` (current). `outputMu` and
`controlMu` are variables because the code keeps them across calls that block;
`r.mu` and `Client.mu` are held for one critical section only, so a critical
section is one action. `resizeMu` is only ever taken under `controlMu`. The
positions of the goroutines are variables too: `conn` and `op` (a connection and
the operation its reader goroutine is in), `detach` (`Client.once`), `reader`,
`waiter`, `closer`. A publishing goroutine keeps its snapshot in `todo` and the
client whose `Detach` it is waiting for in `stuck`.

*Queues.* `stream[c]` is everything ever put in the queue of a client and
`sent[c]` how much of it has left, so the queue is the rest and what the client
is sent over its life can be stated directly. Both limits of a queue, slots and
bytes, are modelled (`Fits`), and so is the reserve that `enqueueReplayChunks`
keeps. Taking a frame from the channel and `MarkSent` are one step.

*Output* is a number per chunk; the history is how many chunks were written to
it. Chunk contents, trimming and rotation are left out.

*Actions.* One per critical section or blocking call, in the order of the code:

- attach: `AttachLock` (outputMu), `AttachRefuse` / `AttachReserve`
  (controlMu, the closed check, the reservation), `AttachReplay` / `AttachFail`
  (enqueueReplay), `AttachPublish` / `AttachTooLate` (the second closed check);
- detach: `Disconnect` or a publisher that found the queue full begins it,
  `DetachUnlink` is the section under `controlMu`, then `DetachClose`,
  `DetachPromote` or `DetachTell` + `Fanout` + `DetachTold`, then `Gone`;
- operations: `TakeControl` + `SendGrant`, `WriteBegin` + `WriteEnd`,
  `ResizeBegin` + `ResizeEnd`, `Drain`;
- readLoop: `ReadChunk`, `WriteHistory`, `Fanout`, `ReadNext`, `ReadEOF`;
- waitLoop: `WaitReturns`, `CloseHistory`, `BroadcastExit`, `Fanout`,
  `ReapClients`, `ReapOne`, `Finish`;
- closeSession: `CloseCall`, `CloseNotify`, `ClosePty` / `ClosePtyFails`,
  `CloseReturn`.

*Environment.* The child and the PTY's two buffers are external: the child may
write, read its input and exit; a write blocks while the input buffer is full;
a read fails at any time once the child is gone or the PTY hung up. With
`EchoChild` the child writes before it reads on, as a line discipline in echo
mode or any interactive program does.

*Failures.* `AttachErrors` lets the identifier, the flush or the read of the
history fail in an attach; `CloseErrors` lets `pty.Close` fail.

### TerminalControl

Three variables — the line of clients, the holder, whether the session is up —
and five actions. It says what `docs/spec/20260720-multi-device-terminal-control.md`
promises (D2 to D4) and nothing about mutexes, reservations or queues. The
mapping takes the line to be `clientOrder` while there are clients: after
`waitLoop` took the map, `clientOrder` and `controllerClientId` keep values
nobody reads, and a controller reserved by an attach is private until it is
published.

### SessionRegistry

`SessionRuntime` is one runtime from the inside; `SessionRegistry` is all of
them from the outside. The two meet in `waitLoop` and `closeSession`: here a
runtime is the process it holds and the position of its `waitLoop`
(`waiting`, then `SaveExit`, then `RemoveRuntime`, which includes
`close(done)`), and everything about clients and output is left out.

*State.* `row`, `runs` and `meta` are the rows of a session in `sessions` and
`session_runs` (a session's state is kept in both and written to both in one
transaction, so the state of the last run stands for it); `runtimes` and
`launching` are the maps under `Registry.mu`; `alive`, `hung`, `home`, `held`
are the processes, their PTYs, the session each was started for and the copy of
the record its runtime keeps. A request is a record in `call`: where it is and
what it has read and still holds. What it holds may be stale, and that is what
the module is about.

*Actions.* One per section under `Registry.mu`, per transaction and per call of
the operating system; nothing is held from one to the next but the claim.

- create: `Create`, then the launch; rerun: `RerunView`, `Claim`, `BeginRun`,
  then the launch;
- launch: `Claim` / `ClaimRefused`, `StartProcess` / `StartFails`,
  `SaveProcess` / `SaveProcessFails` (which hangs up the PTY), `Register`,
  `Release`, `SaveFailed` (before the release in a rerun, after it in a create);
- close: `CloseLookup`, then `CloseLive` and `CloseWaited`, or `CloseView` and
  `CloseSave` when there is no runtime;
- update: `UpdateView`, `UpdateSave`; delete, of a session or of the workspace:
  `DeleteView`, `DeleteCheck` per session, `DeleteStore`;
- list: `List`, then per session `ListCheck` and, without a runtime,
  `RefreshLoad`, `RefreshCheck`, `RefreshExit`, `MarkState`;
- waitLoop: `SaveExit`, `RemoveRuntime`; environment: `Die`, `Crash`.

`Crash` ends the Agent at any point: the maps and the requests are lost, the
rows stay, every PTY is closed, a process may live on. What the Agent does when
it starts again is the refresh of a list.

*Left out.* Requests that are refused by their first read and change nothing;
the order of sessions and workspaces, shortcuts, and the archive of the
history of an earlier run (only that it may fail); pids that are used twice are
in `RefreshCheck`, where a dead process may seem alive; other workspaces.

### SessionLifecycle

Three variables — the sessions being launched, the live process of each
session, the processes each has had — and five actions. The mapping takes
the first from the requests, not from `launching`: a session is being launched
while a request between claim and registration says so.

### CloudTunnel

Both ends of the tunnel of one device, with the connection between them: the
Cloud's `handleAgentTunnel`, `setRoute`, `clearRoute`, `disconnectDevice` and
relay handlers (`server.go`, `route.go`), and the Agent's `Client.Run`,
`readLoop` and stream handlers (`cloud_client.go`), with the connector that
starts and stops `Run` (`bootstrap/server.go`).

*State.* `owner` is the entry of the route table, `online` the mark of the
device registry, `cloud[t]` and `remover` the positions of the goroutines that
change them. `wire` is the connection, `down` and `up` the frames under way.
For a stream, `relay` is the position of the Cloud's handler, `via` the route it
picked, `known` whether it stands in a map of that route, `browser`, `reader`,
`done`, `answered` its socket, reading goroutine and channels; `handler`,
`terms`, `watching`, `inbox`, `shut`, `sub` are the Agent's side. `generation`
and `cancel` are the fields of the connector, `running` the starts whose
goroutine has not returned, `stopped` those whose context is cancelled, and
`dialler[t]` the start that dialled a tunnel: each has a client, and with it
`terms` and `watches`, of its own (`OfClient`). A stream is one browser
connection or request, and its id is fresh (the code takes the clock in
nanoseconds). Three callers close the relays of a route: `setRoute` and the end
of `handleAgentTunnel`, which are of a tunnel, and the deletion (`Closers`,
`Closes`). For each, `stage` says which of `closeTerminals` and
`closeWorkspaceWatches` it is in, `taken` the relays it took out of the map and
has yet to tell, `turn` the one whose browser it is waiting for. Two calls may
block without a bound, and for them there are two states of the world outside:
`stalled`, the browsers whose buffers are full, and `stuck`, the terminals in
whose session a write to the PTY does not return.

*Actions.* One per mutex section, per write of a frame and per step of a
goroutine: `Register`, `SetRoute`, `CloseReplacedConn`, `Acknowledge`,
`CloudReads`, `CloudNotices`, `ClearRoute`, `MarkOffline`, `LeaveSuperseded` for
a tunnel; `TakeTerminals`, `TakeWatches`, `WaitForBrowser`, `TellRelay` for each
closer, one relay at a time; `Start`, `Stop`, `RunReturns` and `Dial` for the
connector; `DeleteDevice` to `MarkRemovedOffline` for a
deletion; `Open`, `Refuse`, `Add`, `Send`, `BrowserTypes`, `ReaderEnds`,
`Leave`, `RequestReturns` for a relay; `AgentReadsAck`, `AgentReads`,
`AgentNotices`, `CloseTerminals`, `CloseWatches`, `CancelConn` for the client,
and one action per step of its handlers. A call of a terminal's handler into its
session (`Attach` and the first resize, `WriteInput`, `Resize`, `TakeControl`,
`Detach`) is a place of the handler: it begins in one step, the handler sees
neither its context nor its channel while it lasts, and it returns in another
(`Attach`, `AddTerminal`, `CallReturns`, `Detached`), unless the session is
`stuck`.

*Failures.* `LoseWire` may come between any two steps. What is under way is
lost; a write on a connection that is lost, but not yet known to be, succeeds
or fails; a heartbeat or a read notices in the end. A terminal's channel that is
full drops a frame (`InboxCap`), and so does a stream that is not registered
yet. A browser may be gone or too slow for the relay's write timeout
(`browserRelayWriteTimeout`, on the frames the tunnel relays). A terminal's
browser may stop reading (`BrowserStalls`): then `closeTerminals`, which writes
it an error under no deadline (`route.go:174`), waits for it, until it reads
again, its socket goes, or for ever; the relays after it in `taken` have left
the map and wait as well, and so does the caller, that is the acknowledgement of
the next tunnel or the mark of presence. A session's PTY may take no input
(`SessionStalls`): the child does not read, or it is finding 1.

*Abstractions.* Of the deferred calls of a handler those that do not block are
one step; what it takes to fill a browser's buffers is not counted, and the
error that `Refuse` writes goes to a socket just opened, whose buffers are
empty; closing a watch's browser is bounded by the library's close timeout and
does not block; a websocket whose read or write returned an error is
not written to again; a first frame that is not the acknowledgement ends
`Run`. Left out: signatures and bindings (a deleted device dials no more), the
contents of frames, the delay between two dials.

### CloudAccounts

One email address: the account with a password and the account of an external
provider. A transaction is one step, as on the single connection that the
SQLite database is opened with (`infrastructure/database/db.go`; MySQL, which
would run transactions at once, is not modelled). What a request reads outside
of its transaction — the cooldown of `sendCode`, the user of `Register`, the
password of `ChangePassword`, the identity of `ExternalCallback` — is read in a
step of its own and may be stale when it is used. A code is the number of the
request that made it; the mail may fail and arrive all the same. Logins and
tokens change none of this state and are left out. The count of failed attempts
is left out too: what a wrong code adds to it is rolled back by the error that
it causes.

### WorkspaceWatch and ChangeFeed

`manager.go`, one workspace. The manager closes a root when its last subscriber
leaves, when it must send a rescan or when its watcher fails, and starts another
for the next subscriber; an *incarnation* is a number. `table` is the manager's
map, `root`, `members`, `sequence` an incarnation, `loop` the position of `run`,
`hangups` and `removals` the calls that somebody has still to make after he let
go of `r.mu`, which is where the races are: `Find` and `Join` are two sections,
and `RemoveRoot` comes whenever it comes. `Overflow` models a publish that finds
a full channel, with the subscribers served before, who may have received all
of it by then. `ChangeFeed` is the promise: a feed is out, live with some events
pending, ended by a rescan, or over; `statusOf` and `pendingOf` map to it.
Left out: directories and the names of events; a parent context that is
cancelled without `Close`; what a caller reads from its channel after it left.

### WorkbenchFiles

One file and everything that changes or caches it. A version is a number that
stands for content and revision (a revision hashes the content, the times and
the path). `saving` and `fetch` are the request of each browser under way,
position by position through `FsWriteFile`, the Store under its lock, and back;
`base`, `stat`, `content` are the maps of `platformFileSystemProvider.ts` for
the path; of an epoch only matters whether it moved since a request began, the
field `fresh`. `link` and `news` are the subscription: both the local endpoint
and the tunnel's begin with a rescan. `known`, `own`, `blind` are auxiliary:
what an editor was given, which versions are saves, which versions a save
replaced unseen. Left out: directories, renames and moves, two requests of the
same kind of one browser (the second joins the first), that a created file is
empty for a moment.

## 3. Runs

| Run | Instance | Properties | Shows |
|---|---|---|---|
| `SessionControl` | 3 clients, 2 sizes, a takeControl, a write | `OneController` `GateHeld` `ImplementsControl` | who controls the session, under every order of attach, detach, takeControl, write, resize |
| `SessionStreams` | 2 clients, a queue of 5 frames or 8 bytes, failing attaches; 3 chunks and 2 drains while the session lives, or a chunk, a closer and the end of the process, `pty.Close` may fail | `TypeOK` `AttachmentSummary` `NoGap` `ReplayMeetsLive` `ExitReachesKeptClients` | what a client is sent, with overflow, truncated replays, and the end of the session at any point |
| `SessionProgress` | 2 clients that never drain, a chunk; or 1 client, 2 closers, a write, a chunk | `ExitCompletes` `CloseReturns` `DetachReturns` | the exit is reported and the runtime removed; both callers of closeSession get an answer; every Detach returns, also of a client that `closeClients` closed |
| `SessionRegistry` | 1 session, 4 requests, 2 processes, one fault | `TypeOK` `RuntimeOwnsRun` `RunsAreApart` `ExitIsRecorded` `RunningIsBacked` `NoLeak` `NoRevival` `ImplementsLifecycle` | launches, runtimes, records and processes under every order of four requests of any kind, with a failing transaction or a crash anywhere |
| `Cloud` | 2 tunnels, and a terminal whose browser may stall; a terminal whose browser may stall and whose session may be stuck, with a disconnect; a watch; a watch with a disconnect; or a request with a deletion; or 4 requests on the accounts | `TunnelTypeOK` `RouteIsServed` `OfflineAtRest` `SlotsAreHeld` `ReplacementKeepsRoute` `RelaysEndWithTunnel` `StreamsEndWithTunnel` `DisconnectEnds` `AccountTypeOK` `LiveCodeIsLatest` `CodesWorkOnce` | routes, presence, relays, requests and quota while tunnels are lost, replaced and removed; codes and states under concurrent requests |
| `Workspace` | 2 subscribers, 2 incarnations, channels of 1 event, 2 changes; or 2 browsers, 3 requests, 4 versions | `WatchTypeOK` `OpenRootIsKnown` `FeedIsServed` `NoSilentGap` `ClosedRootsGo` `SubscribeReturns` `ImplementsFeed` `FilesTypeOK` `NoSaveIsLost` `CacheIsTold` | feeds without a silent gap and roots without a leak; saves that are not lost and caches that are told |
| `SessionEcho` | *violation* | `ReaderReturns` | finding 1 |
| `SessionForgotten` | *violation* | `ExitReachesEveryClient` | finding 2 |
| `RegistryDelete` | *violation*, 3 requests, no fault | `DeletedHasNoRuntime` | finding 3 |
| `TunnelFeed` | *violation*, 1 tunnel, a watch | `FeedEndIsTold` | finding 4 |
| `TunnelStall` | *violation*, 2 tunnels, a terminal | `StalledTabBlocksNoTunnel` | finding 5 |
| `FilesStale` | *violation*, 1 browser, 3 versions | `QuietCacheIsCurrent` | finding 6 |

`Cloud` and `Workspace` each check two modules that share no state; a behaviour
is one of the first or one of the second, chosen at the start (`part`).
`SessionStreams` restricts `SessionRuntime` to two scenes with a state
constraint (`InScene`): output and drains while the session lives, or the end
of the session with little output. It checks invariants only, for which a
constraint is sound.

`SessionProgress` has two scenes in its next-state relation, and they keep back
only what would be *begun* (`KeptBack`): no write and no closer with two clients,
no second connection with the closers. No step that the code owes is withheld,
so progress is not made easier than it is. Likewise a part of `Cloud` leaves out
some of what comes from outside (`LeftOut`): inputs and outputs, a second start
and a browser that leaves are each in another part. The network loses the second
tunnel in the part of the watch only, and only while no stream is on it.

`CHECK_DEADLOCK FALSE` everywhere: a session whose process has ended and whose
connections are gone has nothing left to do, and a client id is never used
twice; likewise a request to the registry is made once, and processes are as
many as `Processes`; tunnels, streams, requests, incarnations and versions are
bounded in the same way.

**Bounds, and why they are enough.** Three clients are the fewest with which
the election has a choice (the leaver, the oldest that stays, another); two
suffice for what a client is sent, since a client's stream depends on others
only through locks and the map. Three chunks let a chunk be replayed, written
during an attach, and published live, and exceed `ReplayMax` = 2, so that tails
are truncated; a queue of 5 slots and 8 bytes overflows by slots and by bytes;
it takes an attach with one chunk and one more frame, so that either the exit,
the state or live output is the frame that does not fit. One
takeControl suffices, since it is enabled at every point of every other
operation; `MaxWrites` 1 with `InCap` 1 lets a write run and `InCap` 0 lets one
block (the environment may also refuse to read for ever). Counters (`takes`,
`writes`, `sent` by `MaxDrains`, `produced` by `MaxChunks`) are bounded in the
guards. The runs on progress are smaller and use no symmetry, and they assume less
fairness than the code has, in fewer formulas (below). `ReplayMeetsLive` is
checked with a queue that takes the whole tail and three text frames:
`enqueueReplayChunks` keeps the *oldest* part of the tail when the bytes of the
queue bind, and the default settings (`replay_max` well below the queue) avoid
it.

In the registry one session is enough because sessions share nothing but the
maps, which are indexed by session, and the workspace, whose deletion loops
over the sessions one by one; the proofs cover any number. Four requests are a
create, a second launch, and two more that race it: a rerun and whatever reads
the record or the maps at the wrong time. Two processes are a first run and a
rerun. One fault (`MaxFaults`) is one failing transaction or one crash, at any
point; `ExitIsRecorded` and `RunningIsBacked` say what holds until then, since
a record that could not be written is corrected only by the refresh of a later
list. The violation runs have no fault: the code does it by itself.

The tunnel needs two dials: the old end and the new end of a replacement are
the actors of its hazards. A terminal, a watch and a request come one at a time
(`EachAlone`), since streams meet only in the frames they queue and in the sets
they are closed with; one terminal with a stalled browser is enough for its
closer to hang with the map already emptied. The terminal comes twice: with a
lossy network, and with a disconnect while its session is stuck, so that a
handler is inside `WriteInput`, a resize or `Detach` when its connection is
cancelled. Two starts of the connector
(`MaxStarts`) and one disconnect let a run that was stopped return before or
after the next one began, and its tunnel register before or after the next
one's (with the watch; with the terminal the connector starts once); a
connection then goes down by the disconnect and not by the network, with which
the state space would grow tenfold.
The quota is `Limit` = 1, and the
proofs cover any. `InboxCap` 1, one input and one output are the fewest with
which a frame is dropped and a stream ends with frames under way. On the
accounts four requests are the fewest with two codes of one purpose, one of
them resent, and a call that uses each.

In the watch two incarnations let a late removal meet the next root, and a
channel of one event with two changes overflows after an event was delivered.
In the files a save needs four versions to be lost (read, another's save, one's
own, and the file at the start); the scenes say which browser listens and how
many requests each makes, since with two listening browsers the state space
holds nothing new: they meet only in the file.

**Fairness** (`SessionProperties!Fairness`). A goroutine that can step does:
weak fairness for each goroutine's next step. A goroutine that waits for
`outputMu` or `controlMu` gets it in the end although others keep taking it —
strong fairness — because Go's `sync.Mutex` hands the lock to a waiter after
1 ms of starvation. Nothing is assumed of users, of connections draining their
queues, or of the child's output. The child is assumed to read input it can
read, and to end when its terminal hangs up. Two consequences are worth
knowing: `DetachReturns` and `CloseReturns` rest on the child reading its input
(a write into a full PTY holds `controlMu`), and `CloseReturns` on a
`pty.Close` that succeeds — when it fails, `closed` stays set and later callers
wait until the process ends by itself.

`CloudTunnel!Fairness` is weak fairness of each goroutine of both programs: the
loop of a tunnel, a deletion once it began, the client, each relay, reader and
handler. That `CloudNotices` and `AgentNotices` happen on a dead connection is
what `HeartbeatIdleTimeout` and the heartbeats guarantee, and that
`RequestReturns` does is `requestTimeout`. A call into a session returns unless
the session is `stuck`, and a write to a browser under no deadline unless the
browser is `stalled`; that either goes on again is *not* assumed, nor anything
of the network, the users and the watched files. The properties of progress
therefore name what may wait:

- `RelaysEndWithTunnel` excepts a relay that somebody else is closing while that
  closer waits for a stalled browser (`HeldUp`): when `setRoute` or a deletion
  has taken the relays out of the map and hangs, the old tunnel's own end finds
  the map empty and the relay waits on.
- `StreamsEndWithTunnel` excepts a handler that is inside a call into its session
  while the PTY takes no input (`SessionHolds`). It sees neither its cancelled
  context nor its closed channel there, and its client stays attached.
- `DisconnectEnds` excepts the same handlers, and the mark of presence while a
  closer is held up, as `MarkOffline` comes after `closeTerminals`.

That the second wait has no other cause is `DetachReturns` and `WaitsEnd` of the
session. `TunnelFeed` and `TunnelStall` find their counterexamples under
`FairSpec`; the run `Cloud` assumes less, `NeverStops`: infinitely often no
goroutine of the two programs can go on, or steps are taken for ever. With every
stream and every tunnel ending in bounded steps this is enough, and a scheduler
that favours one goroutine breaks nothing. In the same
way `SessionProgress` assumes `SF_vars(Owed)`, that the code does not stop while
it owes a step, for all steps of `Fairness` but the end of a resize: resizes
alone are not bounded, and they have weak fairness of their own.
`WatchFairness` is weak fairness
of the goroutines that tear a root down, of `run` once its watcher is closed,
and of a call of `Subscribe` that began. Changes, receives and leaving are not
fair: nobody has to drain a feed.

**Findings.** Each is a run that TLC ends with a counterexample.

1. `SessionEcho` — *a slow client can stop the session for everybody.*
   `writeInputFrom` holds `controlMu` across `pty.Write`; `publishBinary` calls
   `Client.Detach` of a client with a full queue while `readLoop` holds
   `outputMu`, and `detachClient` needs `controlMu`. If the child echoes, its
   own write waits for `readLoop`: the write waits for the child, the Detach for
   the write, `readLoop` for the Detach. Requirement 20260708 and spec 20260720
   say that a slow client must not block the read loop or the controller.
2. `SessionForgotten` — *a client can be left waiting for ever.* When a Detach
   begun by another goroutine reaches its critical section after `closeClients`
   emptied the map, neither closes the queue.
3. `RegistryDelete` — *a session is deleted under its live runtime.*
   `DeleteSession` reads the state, then the runtimes, then deletes; none of it
   excludes a launch, and it does not look at `launching`. In the run a create has
   started its process and saved it, but not registered the runtime; a close
   finds no runtime and records the session as stopped; the deletion finds it
   stopped and without a runtime; the create registers the runtime; the deletion
   marks the session deleted. The process stays, in no list, until it ends or is
   closed by its id. A rerun goes the same way. Spec 20260619 says that the
   deletion is refused. (`DeleteWorkspace` has the same reads and the same hole,
   with two requests: a create overtakes the deletion of an empty workspace. The
   property is about `DeleteSession` alone.)
4. `TunnelFeed` — *a feed that ends on the Agent is not told to the browser.*
   When the manager ends a subscription, `handleWorkspaceWatch` returns without
   a frame. The browser has had the rescan, but its socket stays open and
   silent while the tunnel lives, and the client subscribes again only when the
   socket closes. Locally the endpoint closes it.
5. `TunnelStall` — *a stalled browser tab keeps the device from coming back.*
   `setRoute` closes the terminals of the route it replaces before the new tunnel
   is acknowledged and read. `closeTerminals` writes each an error under
   `context.Background()` (`route.go:174`, `server.go:1231`); while one tab does
   not read, the loop stays there, with the map already emptied. The Agent that
   dialled again waits for its acknowledgement. The comment at `route.go:23`
   says that a stalled tab cannot block the demux of the tunnel; the timeout it
   speaks of is on the other path only.
6. `FilesStale` — *the answer of a save fills the caches with old bytes.*
   `writeFile` remembers what it saved when the answer comes, without the check
   of the epochs that `stat` and `readFile` make. A change outside that is heard
   between the save and its answer has emptied the caches already, and no other
   event will. The write base then holds the revision of the answer's stat: if
   that stat was taken after the change, the next save replaces the change
   unseen. Requirement 20260717 asks that no answer in flight fills the caches
   again.

**Remarks.** Met while modelling, and not checked by a run:

- *A history of the wrong length refuses every attach.* `enqueueReplayChunks`
  keeps bytes but no slot for `replay_finished` (`runtime.go:207`): a tail of as
  many chunks as slots are left fills the queue, and `enqueueReplay` fails.
  `SessionStreams` uses settings under which it does not happen.
- *The end of a session undoes its rename* when the history was truncated:
  `waitLoop` writes the copy of the record made at the launch over the row
  (`runtime.go:458`). The record's name is not in the model.
- *A dropped Close keeps an attachment* as long as the tunnel lives
  (`cloud_client.go:777`): `StreamsEndWithTunnel` is the bound that holds, and a
  session whose PTY takes no input stretches it further.
- *The session on record and the connector may disagree*: `handleCloudConnect`
  and `handleCloudDisconnect` (`agent/api/handler/server.go:161`, `:215`) set
  the session under its mutex and start or stop the connector after it, so that
  of two calls at once one may win the session and the other the connector.
  `CloudTunnel` has the connector and not that record.
- *A change outside between the second check of a save and its rename is
  replaced* (`store.go:550`): `NoSaveIsLost` is about saves of browsers, which
  the lock of the Store orders; against other programs the file system offers
  no such order.
- *What an editor knows* is, in `NoSaveIsLost`, any version that `readFile` of
  the provider returned in that browser. Whether the editor's model took it over
  is the editor's, and not in the model.
- *Caches compare times and sizes* (`platformFileSystemProvider.ts`): two
  versions with the same modification time and size are one to the code and two
  to the model.
- *A create that fails while it writes* may leave a partial file behind its
  `O_EXCL` open; the model's failing create leaves none.

## 4. Proofs

**The runtime of a session.** Proved for every value of the constants that satisfies
`SessionAssumption` (numbers are numbers, `NoClient` is not a client, there is a
size, the names that stand for the two loops, nobody and everybody are not clients): any number of clients and
closers, any queue, any bounds.

- `TypesHold`: `Spec => []TypeOK`. `TypeOK` is not inductive: that a frame
  carries a chunk in `1..MaxChunks` needs `hist <= readN <= produced <=
  MaxChunks`, and that the reader's chunk exists needs where the reader is.
  `TypesInv` adds both.
- `ControlInvHolds`: `Spec => []ControlInv`, the inductive invariant behind all
  results on control, a conjunction of five named parts. `LocksHeld` says who
  holds each mutex by where the goroutines are (mutual exclusion); `Admitted`
  says which connections have a client in the map; `Reservation` says that a
  controller without a live client is an attach between reserve and publish,
  that no other attach is then past `AttachLock`, and that a client is never
  published with nobody in control; `Ending` ties `closed`, the dead process and the emptied
  map to the position of `waitLoop`; `Admission` keeps the order duplicate free.
  None of `OneController`, `GateHeld`, `OrderIsRoster` is inductive alone: that
  `AttachPublish` preserves `OneController` needs that nobody moved the
  reservation since `AttachReserve`, which is `LocksHeld`; that `DetachUnlink`
  preserves it needs that the heir, the head of the order, is in the map, which
  is `OrderIsRoster`, which in turn fails once `waitLoop` took the map, unless
  `Ending` says that the session is closed by then.
- `OneControllerHolds`, `GateHolds`, `RosterHolds`: from it.
- `ControlMovesHolds`: `Spec => ControlMoves`, an action property: which steps
  may move the control, and to whom.
- `RuntimeImplementsControl`: `Spec => ImplementsControl`, one case per action:
  `AttachPublish` is `Arrive`, `TakeControl` is `Take`, `DetachUnlink` of a
  client in the map is `Leave` (or a stutter), `CloseCall` and `WaitReturns` are
  `Close`, `ReapClients` is `End`; everything else stutters.
- `HolderStandsInLine`: the abstract invariant, under the mapping.
- `SummaryHolds`: `Spec => []AttachmentSummary`, from `ControlInv`: the steps that
  write the summary are those that fill or empty the map.
- `NoGapHolds` and `ReplayMeetsLiveHolds`. The two are stated by the places of the
  frames in a stream, not by filtered sequences, whose theory would be an
  induction over data. `StreamsHold` is the inductive invariant. `Addressees`:
  whoever a goroutine is about to send to has been published, so that a stream
  begins with its replay (`Begun`). `Shaped(c, e)`: the replay of `c` ends at
  place `e`, and whatever was appended since left it alone; `ReplayIs` says what
  `enqueueReplay` queues, and `TailFits` that with `RoomForReplay` it is all of
  the tail. `Flows(c, e)`: a client in the map has every chunk of the history,
  unless `readLoop` has just written one and owes it (`Owed`), then all but that
  one; a client that left the map has a beginning. An attach in progress holds
  `outputMu`, so the history stands still between replay and publication.
  Neither property is inductive alone: that a delivered chunk is the next one
  needs that it is owed, and that nobody is owed one when the next is read needs
  `Unlinked`, since a publisher goes on from a full queue only after the Detach
  has taken that client out of the map.
- `RoomForReplay` is a hypothesis inside `ReplayMeetsLive`, not of the theorem,
  and the case in which the bytes of the queue bind is thereby outside it:
  without room the newest chunks of the tail are dropped and the replay says
  truncated, which `NoGap` covers. With the defaults a replay of 64 KiB is one
  frame in a queue of 64 frames and 4 MiB (`registry.go:39`), and
  `validateTerminal` asks for a replay smaller than the queue (`config.go:986`).
- `ExitReachesKeptClientsHolds`, with `ExitInv`. `Addressed`: only `waitLoop`
  tells, and when it is done nobody is left in its map and `readLoop` has nobody
  to publish to. `Awaited`: a live client that nobody detaches is in the map, or
  in the map that `closeClients` took. `Informed`: such a client was told, or is
  still in the snapshot of the broadcast; `ReapClients` comes when the snapshot
  is empty. That no output follows is `outputMu`, which `waitLoop` keeps from
  the broadcast until the map is empty.
- `WaitsEndHolds`, with `WaitInv`: that the cycle of finding 1 is the only one.
  `HeldInside`: a mutex that is held is held by somebody inside a section that
  unlocks it. `NoCircle`: of every set of Detaches, one has nobody of the set to
  tell or to wait for. It is inductive because only `DetachTell` gives a Detach
  somebody to tell, and those are clients of the map, whose own Detach has
  nobody yet (`Telling`, `Unlinked`). Hence along every chain of Detaches that
  wait for each other there is one that goes on, and while a loop publishes with
  `outputMu` only a write or a resize inside the PTY can keep `controlMu` from
  it. The theorem is a safety property: it says what a wait depends on;
  that the goroutine there does take its step is fairness, and TLC's.

The proofs go one step per action and, under it, one per part of the invariant
that the action disturbs; `WithoutRange` (what is left of the order) and the
`Keep*` lemmas (parts untouched by an action that leaves their variables alone)
are stated once.

**The registry.** Proved for every number of sessions, requests, processes,
failing transactions and crashes, from `RegistryAssumption` (`None` is none of
them, `MaxFaults` is a number):

- `RegistryInvHolds`: `Spec => []RegistryInv`, the inductive invariant. Beside
  `TypeOK` and `OneLaunch` it has five parts. `Shapes`: what a request holds
  where it is. `Tied`: a process, the launch that started it, the entry of the
  map and the `waitLoop` agree on the session. `Kept`: a process that runs was
  started, its exit is not saved, and it is registered, about to be, or hung
  up. `Recorded`: the current run of a session is that of its registered
  process. `Known`: the sessions that are launched exist.
- `RegistryTypesHold`, `OneLaunchHolds`, `RuntimeOwnsRunHolds`, `NoLeakHolds`
  and `NoRevivalHolds` follow. None of the invariants is inductive alone: that
  `Register` does not overwrite a runtime needs that there has been none since
  the claim, hence that no other launch of the session exists; that
  `RemoveRuntime`, which goes by the session, takes away its own runtime needs
  `Tied` from `StartProcess` on.
- `RegistryImplementsLifecycle`: `Spec => ImplementsLifecycle`. `Claim` is
  `Launch`, `Register` is `Run`, the two ways out of a failed launch are
  `Abandon`, `RemoveRuntime` is `End`, `Crash` is `Restart`; every other step
  stutters, most of them by one lemma (`QuietStep`: a request without a claim
  changes nothing in memory but what it holds).
- `RunsAreApartHolds`, from `Apart`, which is about all runs of a session and
  the process of a launch that has not been saved. A launch writes its process
  to a run that has no exit, since a run with one is over and `EnsureRun`
  appends then; so no exit meets a process that is not its own.
- `ExitIsRecordedHolds`: no transaction loses an exit (`ExitsGrow`), and the one
  of `waitLoop` writes to the run of its process (`Recorded`).
- `RunningIsBackedHolds`, with `Over`: the session of a runtime whose exit is
  saved is terminal, and so is one whose claim is about to be released without a
  runtime. Neither can be revived meanwhile: that takes a launch (`NoRevival`),
  which the claim or the runtime excludes (`OneLaunch`).

**The tunnel.** Proved for every number of terminals, watches, requests and
tunnels, every `Limit` and every capacity, from `BoundsAssumption`:

- `TunnelInvariant`: `Spec => []TunnelInv`. That the types hold needs to know
  what is on the connection: a handler takes the kind of its stream from the
  first frame, so `Framed` (a frame matches its stream) and `Kinds` (a handler
  serves what it was started for) come with them. `RouteIsServed` needs
  `Dialled`: the tunnel that `SetRoute` puts into the table is not one that has
  ended. `OfflineAtRest` is not inductive, since it says nothing while anything
  is under way; `Presence` does: while the device is online there is a route, or
  a handler or a deletion that has still to look and to mark. `Slots` adds that
  the holders are finitely many, without which a cardinality counts nothing.
  `Connected` says that what `cancel` would cancel is the latest start and goes
  on, so a run that returns late, being cancelled, finds another generation.
- `TunnelTypes`, `RoutesAreServed`, `OfflineInTheEnd`, `SlotsAreKept`,
  `OneConnectorRuns` follow;
  `RoutesAreKept` is the action property `ReplacementKeepsRoute`, from the same
  invariant. Steps of streams leave the route alone and steps of routes the
  slots (`Routed*`, `Typed*`; the steps of a closer do neither), which cuts the cases to a few.

**The feeds of a workspace.** Proved for every number of subscribers,
incarnations of the root and changes, and every size of a channel:

- `WatchInvariant`: `WatchSpec => []WatchInv`. `Incarnations` says who may still
  close an open incarnation, and that only closed ones are removed;
  `Membership` that members, open channels and subscribers that joined agree;
  `Gapless` is `NoSilentGap` with what makes it inductive: a rescan is alone in
  its channel, as `RescanAndClose` empties the queues first, and while a feed
  lives what was seen and what is queued add up to the incarnation's sequence.
- `OpenRootsAreKnown`, `FeedsAreServed`, `NoGapIsSilent` follow.
- `FeedsAsPromised`: `WatchSpec => ImplementsFeed`. A change that every channel
  has room for is `Change`; one that overflows a channel, a rename and an error
  of the watcher are `LoseTrack`, of all live feeds: they are those of the
  incarnation that closes, as one is open at most (`LiveMembers`). Whatever goes
  on between subscribers, table and loops before and after stutters.

**The accounts.** Proved for every number of requests and passwords, from
`AccountsAssumption`:

- `AccountInvariant`: `AccountsSpec => []AccountInv`. `CodesWorkOnce` is not
  inductive: that a code which is spent was not spent before needs `Counts`
  (`wins` is exactly what codes and states say), and that one counter serves
  codes and states needs `Owners` (a number is of one code or of one state, of a
  request that was answered). `LiveCodeIsLatest` needs that a code is stored as
  live only when its mail went out (`Places`); that an account which exists has
  a password through a verification needs that codes are of an account
  (`Verified`).
- `AccountTypes`, `LiveCodesAreLatest`, `CodesWorkOnceOnly` follow.

**The files.** Proved for every number of browsers, requests and versions, from
`FilesAssumption`:

- `FilesInvariant`: `FilesSpec => []FilesInv`. `NoSaveIsLost` rests on
  `Knowing`: an etag that is cached as the base of a write, or was sent or
  answered, is behind the disk, or its editor was given what the disk has; and
  a save that is inside the lock was given the last save, since no other can be
  inside. That a read fills the base with such an etag is `Fetched`: the entry
  is taken before the bytes, so an etag that is still current goes with the
  bytes that are. `Told` is `CacheIsTold` with the same for the answer that is
  about to fill the cache, unless it is marked stale.
- `FilesTypes`, `SavesAreKept`, `CachesAreTold` follow.

**Only model-checked.** Progress (`ExitCompletes`, `DetachReturns`,
`CloseReturns`, `RelaysEndWithTunnel`, `StreamsEndWithTunnel`, `DisconnectEnds`,
`ClosedRootsGo`, `SubscribeReturns`): liveness under fairness, which is out of
the prover's reach. Every invariant, every action property and every refinement
that a passing run checks is a theorem.

## 5. Not modelled

- *Registry*: the order of sessions and workspaces, shortcuts, the files of the
  history in the archive of a rerun: lists and files that one transaction or one
  request writes.
- *Tunnel*: signatures, the contents of requests, the delays of retries.
- *Accounts*: logins and tokens, the binding of devices, MySQL.
- *Files and git*: directories, renames, moves with overwrite; the git commands
  are calls of another program.
- *Terminal history*: limits of lines and bytes are a sequential function of
  what is written. *Command runner*: what happens depends on how long an
  interrupt takes, and the models have no durations.
- *Terminal panes of the web client* (hot set, dispose timers): a component of
  its own that shares nothing with the rest.
- *Migrations* run once, alone; *configuration and logging* keep no shared
  state; *protocol messages* are generated code; the rest of the web client is
  presentation.

What would come next, in this order: the terminal panes, renames and moves of
the Store.
