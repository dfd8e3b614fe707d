---------------------------- MODULE CloudTunnel ----------------------------
(* The tunnel between an Agent and the Cloud, both ends of it, for one      *)
(* device.  cloud/api/handler/server.go accepts a tunnel, makes it the      *)
(* device's route and undoes this when the tunnel ends; route.go relays     *)
(* browsers (terminals, workspace watches, JSON requests) as streams over   *)
(* the route; agent/application/user/cloud_client.go reads the frames and   *)
(* runs one handler per stream; bootstrap/server.go starts and stops it as  *)
(* the user connects and disconnects the Agent.  A mutex section is one     *)
(* step, a write of a frame is one step, and everything between them        *)
(* interleaves.                                                             *)
(*                                                                          *)
(* A stream is one browser connection or request: its id is fresh (the code *)
(* takes the clock in nanoseconds).  A frame is <<stream, kind>>.           *)
EXTENDS Naturals, Sequences, FiniteSets

CONSTANTS
    Terminals, Watches, Requests,  \* the streams, by kind
    Deletion,     \* stands for the user deleting the device
    SignOut,      \* stands for the user disconnecting the Agent
    Loss,         \* stands for the network losing connections
    Stall,        \* stands for a browser that stops reading its socket
    Busy,         \* stands for a session's child that stops reading its input
    Loads,        \* what may come in one behaviour: sets of streams and of these
    MaxStarts,    \* bound: starts of the Agent's connector
    MaxTunnels,   \* bound: tunnels the Agent dials, one after the other
    Limit,        \* concurrent attaches the user is allowed
    InboxCap,     \* capacity of a terminal's channel on the Agent (16)
    MaxInputs,    \* bound: inputs a browser types
    MaxOutputs,   \* bound: outputs and change events a handler sends
    NoTunnel

Streams == Terminals \cup Watches \cup Requests
Tunnels == 1 .. MaxTunnels
Control == 0      \* tunnel.ControlStreamID
Events  == {Deletion, SignOut, Loss, Stall, Busy}
Closers == Tunnels \cup {Deletion}  \* who may close the relays of a route

ASSUME StreamsAssumption ==
    /\ Control \notin Streams
    /\ Terminals \cap Watches = {}
    /\ Terminals \cap Requests = {}
    /\ Watches \cap Requests = {}
    /\ Streams \cap Events = {}
    /\ Cardinality(Events) = 5
    /\ Loads \subseteq SUBSET (Streams \cup Events)
ASSUME BoundsAssumption ==
    /\ MaxTunnels \in Nat /\ MaxStarts \in Nat /\ Limit \in Nat /\ InboxCap \in Nat
    /\ MaxInputs \in Nat /\ MaxOutputs \in Nat
    /\ NoTunnel \notin Tunnels /\ Deletion \notin Tunnels

VARIABLES
    (* the Cloud's tunnels *)
    owner,    \* Handler.routes[device]
    online,   \* DeviceRegistry: the device's Online
    cloud,    \* tunnel -> place of handleAgentTunnel
    old,      \* tunnel -> the route setRoute took the place of
    remover,  \* place of handleDeleteDevice's disconnectDevice, and
    removed,  \*   the route it took out of the table
    (* closeTerminals and closeWorkspaceWatches, by their callers *)
    stage,    \* closer -> which of the two it is in
    taken,    \* closer -> relays it took out of the maps and has yet to tell
    turn,     \* closer -> the relay whose browser it waits for: none or one
    (* the wire *)
    wire,     \* tunnel -> "none", "up", "lost", "closed" by the Cloud
    down,     \* tunnel -> frames under way to the Agent
    up,       \* tunnel -> frames under way to the Cloud
    (* the Cloud's relays *)
    relay,    \* stream -> place of its HTTP handler
    via,      \* stream -> the route it picked
    known,    \* streams in terms, watches or pending of their route
    browser,  \* streams whose browser socket is open
    reader,   \* streams whose goroutine reading the browser runs
    done,     \* streams whose done channel is closed
    answered, \* requests whose channel holds a frame
    used,     \* attachQuota of the user
    typed,    \* stream -> inputs relayed
    (* the Agent's connector, cloudConnectorLifecycle *)
    generation, \* the number of starts
    cancel,     \* the start whose context cancel would cancel, 0 when it is nil
    running,    \* starts whose goroutine run has not returned
    stopped,    \* starts whose context is cancelled
    dialler,    \* tunnel -> the start, and its Client, that dialled it
    (* the outside *)
    coming,   \* bound: of SignOut, Loss, Stall and Busy, what may still come
    stalled,  \* streams whose browser does not read: its buffers are full
    stuck,    \* streams in whose session a write to the PTY does not return
    (* the Agent *)
    agent,    \* tunnel -> place of Client.Run
    handler,  \* stream -> place of its handler
    terms,    \* Client.terms: registered terminal streams
    watching, \* Client.watches: registered watch streams
    inbox,    \* stream -> frames in the terminal's channel
    shut,     \* streams whose channel is closed
    sub,      \* streams whose workspace subscription is open
    sent      \* stream -> outputs sent

closeVars == <<stage, taken, turn>>
routeVars == <<owner, online, cloud, old, remover, removed, closeVars>>
wireVars  == <<wire, down, up>>
relayVars == <<relay, via, known, browser, reader, done, answered, used, typed>>
outside   == <<coming, stalled, stuck>>
runVars   == <<generation, cancel, running, stopped, dialler, outside>>
agentVars == <<agent, handler, terms, watching, inbox, shut, sub, sent, runVars>>
vars == <<routeVars, wireVars, relayVars, agentVars>>

Init ==
    /\ owner = NoTunnel /\ online = FALSE
    /\ cloud = [t \in Tunnels |-> "idle"]
    /\ old = [t \in Tunnels |-> NoTunnel]
    /\ removed = NoTunnel
    /\ wire = [t \in Tunnels |-> "none"]
    /\ down = [t \in Tunnels |-> << >>]
    /\ up = [t \in Tunnels |-> << >>]
    /\ \E load \in Loads :
          /\ relay = [s \in Streams |-> IF s \in load THEN "none" ELSE "absent"]
          /\ remover = IF Deletion \in load THEN "idle" ELSE "absent"
          /\ coming = load \cap {SignOut, Loss, Stall, Busy}
    /\ stage = [c \in Closers |-> "rest"]
    /\ taken = [c \in Closers |-> {}] /\ turn = [c \in Closers |-> {}]
    /\ stalled = {} /\ stuck = {}
    /\ via = [s \in Streams |-> NoTunnel]
    /\ known = {} /\ browser = {} /\ reader = {} /\ done = {}
    /\ answered = {} /\ used = 0
    /\ typed = [s \in Streams |-> 0]
    /\ generation = 0 /\ cancel = 0 /\ running = {} /\ stopped = {}
    /\ dialler = [t \in Tunnels |-> 0]
    /\ agent = [t \in Tunnels |-> "idle"]
    /\ handler = [s \in Streams |-> "none"]
    /\ terms = {} /\ watching = {} /\ shut = {} /\ sub = {}
    /\ inbox = [s \in Streams |-> << >>]
    /\ sent = [s \in Streams |-> 0]

------------------------------------------------------------------------------
(* Writes.  A frame written on a wire that is lost, not yet known to be, is *)
(* lost without an error or with one.  A connection whose read or write     *)
(* returned an error is not written to any more: every write on a wire      *)
(* "closed" fails.                                                          *)

\* agentRoute.writeFrame
CloudWrites(t, f) ==
    down' = IF wire[t] = "up" THEN [down EXCEPT ![t] = Append(@, f)] ELSE down
CloudWriteOK(t)    == wire[t] # "closed"
CloudWriteFails(t) == wire[t] # "up"

\* the context under which the Agent dialled t is cancelled
Stopped(t) == dialler[t] \in stopped

\* writeTunnelFrame of the client, under the context of the connection
AgentWrites(t, f) ==
    up' = IF wire[t] = "up" /\ agent[t] # "over"
          THEN [up EXCEPT ![t] = Append(@, f)] ELSE up
AgentWriteOK(t)    == agent[t] # "over"
AgentWriteFails(t) == wire[t] # "up" \/ agent[t] = "over" \/ Stopped(t)

------------------------------------------------------------------------------
(* closeTerminals and then closeWorkspaceWatches of a route: the relays go   *)
(* out of the map in one section, and then each is told in its turn, its     *)
(* browser first.  A terminal's browser is written an error under no         *)
(* deadline: while its buffers are full the loop stays there, and with it    *)
(* the caller.  A watch's browser is only closed, which takes bounded time.  *)

\* closer c is closing the relays of the route of tunnel t: setRoute, the end
\* of handleAgentTunnel, disconnectDevice
Closes(c, t) ==
    \/ c \in Tunnels /\ cloud[c] = "replacing" /\ t = old[c]
    \/ c \in Tunnels /\ cloud[c] \in {"clearing", "superseded"} /\ t = c
    \/ c = Deletion /\ remover = "closing" /\ t = removed

NoWatches(t) == {}  \* mutant: the workspace watches are left out

TerminalsOf(t) == {s \in known \cap Terminals : via[s] = t}
WatchesOf(t)   == {s \in known \cap Watches : via[s] = t}

\* whoever writes to the browser of s waits for it
Stalls(s) == s \in Terminals \cap browser \cap stalled

\* the section of Route.mu
Take(c, relays, there) ==
    /\ taken' = [taken EXCEPT ![c] = relays]
    /\ known' = known \ relays
    /\ stage' = [stage EXCEPT ![c] = there]
    /\ UNCHANGED <<owner, online, cloud, old, remover, removed, turn, wireVars,
                   relay, via, browser, reader, done, answered, used, typed,
                   agentVars>>

TakeTerminals(c) ==
    /\ stage[c] = "rest"
    /\ \E t \in Tunnels : Closes(c, t) /\ Take(c, TerminalsOf(t), "terminals")

AllTold(c) == taken[c] = {} /\ turn[c] = {}

TakeWatches(c) ==
    /\ stage[c] = "terminals" /\ AllTold(c)
    /\ \E t \in Tunnels : Closes(c, t) /\ Take(c, WatchesOf(t), "watches")

\* the loop has come to a browser that does not read
WaitForBrowser(c) ==
    /\ turn[c] = {}
    /\ \E s \in taken[c] :
          /\ Stalls(s)
          /\ taken' = [taken EXCEPT ![c] = @ \ {s}]
          /\ turn' = [turn EXCEPT ![c] = {s}]
    /\ UNCHANGED <<owner, online, cloud, old, remover, removed, stage, wireVars,
                   relayVars, agentVars>>

\* the browser's socket is closed, and closeOnce tells the handler
TellRelay(c) ==
    /\ \E s \in IF turn[c] = {} THEN taken[c] ELSE turn[c] :
          /\ ~Stalls(s)
          /\ taken' = [taken EXCEPT ![c] = @ \ {s}]
          /\ browser' = browser \ {s}
          /\ done' = done \cup {s}
    /\ turn' = [turn EXCEPT ![c] = {}]
    /\ UNCHANGED <<owner, online, cloud, old, remover, removed, stage, wireVars,
                   relay, via, known, reader, answered, used, typed, agentVars>>

CloserSteps(c) == TakeTerminals(c) \/ TakeWatches(c) \/ WaitForBrowser(c) \/ TellRelay(c)

\* both calls have returned
RelaysClosed(c) ==
    /\ stage[c] = "watches" /\ AllTold(c)
    /\ stage' = [stage EXCEPT ![c] = "rest"]
    /\ UNCHANGED <<taken, turn>>

------------------------------------------------------------------------------
(* cloudConnectorLifecycle: every start has a Client of its own, a context   *)
(* and a goroutine that calls Client.Run until the context is cancelled.     *)

\* the user connects the Agent
Start ==
    /\ cancel = 0
    /\ generation < MaxStarts
    /\ generation' = generation + 1
    /\ cancel' = generation + 1
    /\ running' = running \cup {generation + 1}
    /\ UNCHANGED <<routeVars, wireVars, relayVars, agent, handler, terms, watching,
                   inbox, shut, sub, sent, stopped, dialler, outside>>

\* the user disconnects it; what runs is cancelled and returns in its own time
Stop ==
    /\ cancel # 0
    /\ SignOut \in coming
    /\ coming' = coming \ {SignOut}
    /\ stopped' = stopped \cup {cancel}
    /\ cancel' = 0
    /\ UNCHANGED <<routeVars, wireVars, relayVars, agent, handler, terms, watching,
                   inbox, shut, sub, sent, generation, running, dialler, stalled, stuck>>

AnyGeneration(g) == TRUE  \* mutant: a run that returns clears cancel

\* the comparison in run's deferred function
OwnGeneration(g) == generation = g

\* run returns, between two tunnels or after its last
RunReturns(g) ==
    /\ g \in running \cap stopped
    /\ \A t \in Tunnels : dialler[t] = g => agent[t] = "over"
    /\ running' = running \ {g}
    /\ cancel' = IF OwnGeneration(g) THEN 0 ELSE cancel
    /\ UNCHANGED <<routeVars, wireVars, relayVars, agent, handler, terms, watching,
                   inbox, shut, sub, sent, generation, stopped, dialler, outside>>

------------------------------------------------------------------------------
(* handleAgentTunnel: one place per step.                                   *)

\* A run dials after its tunnel before has ended; the Cloud has verified the
\* signature and read the hello.  Tunnels are numbered as they are dialled.
Dial(t) ==
    /\ agent[t] = "idle"
    /\ \A u \in Tunnels : u < t => agent[u] # "idle"
    /\ \E g \in running \ stopped :
          /\ \A u \in Tunnels : dialler[u] = g => agent[u] = "over"
          /\ dialler' = [dialler EXCEPT ![t] = g]
    /\ remover \in {"idle", "absent"}
    /\ agent' = [agent EXCEPT ![t] = "hello"]
    /\ cloud' = [cloud EXCEPT ![t] = "verified"]
    /\ wire' = [wire EXCEPT ![t] = "up"]
    /\ UNCHANGED <<owner, online, old, remover, removed, closeVars, down, up, relayVars,
                   handler, terms, watching, inbox, shut, sub, sent, generation,
                   cancel, running, stopped, outside>>

Register(t) ==
    /\ cloud[t] = "verified"
    /\ online' = TRUE
    /\ cloud' = [cloud EXCEPT ![t] = "registered"]
    /\ UNCHANGED <<owner, old, remover, removed, closeVars, wireVars, relayVars, agentVars>>

SetRoute(t) ==
    /\ cloud[t] = "registered"
    /\ owner' = t
    /\ old' = [old EXCEPT ![t] = owner]
    /\ cloud' = [cloud EXCEPT ![t] = IF owner = NoTunnel THEN "routed"
                                     ELSE "replacing"]
    /\ UNCHANGED <<online, remover, removed, closeVars, wireVars, relayVars, agentVars>>

\* setRoute after the mutex, once the old route's relays are closed
CloseReplacedConn(t) ==
    /\ cloud[t] = "replacing"
    /\ RelaysClosed(t)
    /\ wire' = [wire EXCEPT ![old[t]] = "closed"]
    /\ cloud' = [cloud EXCEPT ![t] = "routed"]
    /\ UNCHANGED <<owner, online, old, remover, removed, down, up, relayVars, agentVars>>

Acknowledge(t) ==
    /\ cloud[t] = "routed"
    /\ \/ /\ CloudWriteOK(t)
          /\ CloudWrites(t, <<Control, "ack">>)
          /\ cloud' = [cloud EXCEPT ![t] = "serving"]
          /\ UNCHANGED wire
       \/ /\ CloudWriteFails(t)
          /\ wire' = [wire EXCEPT ![t] = "closed"]
          /\ cloud' = [cloud EXCEPT ![t] = "ending"]
          /\ UNCHANGED down
    /\ UNCHANGED <<owner, online, old, remover, removed, closeVars, up, relayVars,
                   agentVars>>

\* The read fails: the peer is gone, the connection was closed, or nothing
\* came for HeartbeatIdleTimeout.
CloudNotices(t) ==
    /\ cloud[t] = "serving"
    /\ wire[t] # "up"
    /\ wire' = [wire EXCEPT ![t] = "closed"]
    /\ up' = [up EXCEPT ![t] = << >>]
    /\ cloud' = [cloud EXCEPT ![t] = "ending"]
    /\ UNCHANGED <<owner, online, old, remover, removed, closeVars, down, relayVars,
                   agentVars>>

AnyRoute(t) == owner # NoTunnel  \* mutant: whatever route is there
NoRoute(t) == FALSE              \* mutant: the route is never taken out

\* clearRoute's comparison
OwnsRoute(t) == owner = t

ClearRoute(t) ==
    /\ cloud[t] = "ending"
    /\ IF OwnsRoute(t)
       THEN owner' = NoTunnel /\ cloud' = [cloud EXCEPT ![t] = "clearing"]
       ELSE cloud' = [cloud EXCEPT ![t] = "superseded"] /\ UNCHANGED owner
    /\ UNCHANGED <<online, old, remover, removed, closeVars, wireVars, relayVars, agentVars>>

\* the relays are closed, and the handler returns
HandlerReturns(t, place) ==
    /\ cloud[t] = place
    /\ RelaysClosed(t)
    /\ cloud' = [cloud EXCEPT ![t] = "gone"]
    /\ wire' = [wire EXCEPT ![t] = "closed"]
    /\ UNCHANGED <<owner, old, remover, removed, down, up, relayVars, agentVars>>

LeaveOnline(t) ==  \* mutant: the mark is left to the next registration
    HandlerReturns(t, "clearing") /\ UNCHANGED online

MarkOffline(t) == HandlerReturns(t, "clearing") /\ online' = FALSE

\* of a route that is not its own any more
LeaveSuperseded(t) == HandlerReturns(t, "superseded") /\ UNCHANGED online

------------------------------------------------------------------------------
(* handleDeleteDevice: the binding is deleted (no later dial is verified),  *)
(* then disconnectDevice takes the route out, closes its relays and its     *)
(* connection and marks the device offline.                                 *)

DeleteDevice ==
    /\ remover = "idle"
    /\ remover' = "deleted"
    /\ UNCHANGED <<owner, online, cloud, old, removed, closeVars, wireVars, relayVars,
                   agentVars>>

TakeOutRoute ==
    /\ remover = "deleted"
    /\ owner' = NoTunnel
    /\ removed' = owner
    /\ remover' = IF owner = NoTunnel THEN "marking" ELSE "closing"
    /\ UNCHANGED <<online, cloud, old, closeVars, wireVars, relayVars, agentVars>>

CloseRemovedConn ==
    /\ remover = "closing"
    /\ RelaysClosed(Deletion)
    /\ wire' = [wire EXCEPT ![removed] = "closed"]
    /\ remover' = "marking"
    /\ UNCHANGED <<owner, online, cloud, old, removed, down, up, relayVars, agentVars>>

MarkRemovedOffline ==
    /\ remover = "marking"
    /\ online' = FALSE
    /\ remover' = "done"
    /\ UNCHANGED <<owner, cloud, old, removed, closeVars, wireVars, relayVars, agentVars>>

------------------------------------------------------------------------------
(* The Cloud's handlers of browsers and requests.  The route is read once,  *)
(* before the upgrade; it may be replaced or gone when it is used.          *)

\* handleDevice reads the route; a terminal takes a slot of the quota
Open(s) ==
    /\ relay[s] = "none"
    /\ owner # NoTunnel
    /\ s \in Terminals => used < Limit
    /\ used' = IF s \in Terminals THEN used + 1 ELSE used
    /\ via' = [via EXCEPT ![s] = owner]
    /\ relay' = [relay EXCEPT ![s] = "opening"]
    /\ UNCHANGED <<routeVars, wireVars, agentVars, known, browser, reader, done,
                   answered, typed>>

NotReleased(s) == used  \* mutant: the slot is not given back

\* the deferred Release of the quota
Released(s) == IF s \in Terminals THEN used - 1 ELSE used

\* the upgrade fails, or the size of the attach is not valid: an early
\* return, past TryAcquire
Refuse(s) ==
    /\ relay[s] = "opening"
    /\ s \notin Requests
    /\ relay' = [relay EXCEPT ![s] = "ended"]
    /\ used' = Released(s)
    /\ UNCHANGED <<routeVars, wireVars, agentVars, via, known, browser, reader,
                   done, answered, typed>>

\* addTerminal, addWorkspaceWatch, or the entry of pending
Add(s) ==
    /\ relay[s] = "opening"
    /\ known' = known \cup {s}
    /\ browser' = IF s \in Requests THEN browser ELSE browser \cup {s}
    /\ relay' = [relay EXCEPT ![s] = "added"]
    /\ UNCHANGED <<routeVars, wireVars, agentVars, via, reader, done, answered,
                   used, typed>>

Opening(s) == IF s \in Terminals THEN "attach"
              ELSE IF s \in Watches THEN "watch" ELSE "request"

\* the first frame of the stream, and then the goroutine reading the browser
Send(s) ==
    /\ relay[s] = "added"
    /\ \/ /\ CloudWriteOK(via[s])
          /\ CloudWrites(via[s], <<s, Opening(s)>>)
          /\ relay' = [relay EXCEPT ![s] = "waiting"]
          /\ reader' = IF s \in Requests THEN reader ELSE reader \cup {s}
       \/ /\ CloudWriteFails(via[s])
          /\ relay' = [relay EXCEPT ![s] = "leaving"]
          /\ UNCHANGED <<down, reader>>
    /\ UNCHANGED <<routeVars, wire, up, agentVars, via, known, browser, done,
                   answered, used, typed>>

\* the reading goroutine relays input; an error of the write is ignored
BrowserTypes(s) ==
    /\ s \in Terminals \cap reader \cap browser
    /\ typed[s] < MaxInputs
    /\ typed' = [typed EXCEPT ![s] = @ + 1]
    /\ CloudWrites(via[s], <<s, "input">>)
    /\ UNCHANGED <<routeVars, wire, up, agentVars, relay, via, known, browser,
                   reader, done, answered, used>>

BrowserLeaves(s) ==
    /\ s \in browser
    /\ browser' = browser \ {s}
    /\ UNCHANGED <<routeVars, wireVars, agentVars, relay, via, known, reader,
                   done, answered, used, typed>>

\* the goroutine's read fails: a terminal's sends Close; both tell the handler
ReaderEnds(s) ==
    /\ s \in reader \ browser
    /\ reader' = reader \ {s}
    /\ done' = done \cup {s}
    /\ IF s \in Terminals THEN CloudWrites(via[s], <<s, "close">>)
       ELSE UNCHANGED down
    /\ UNCHANGED <<routeVars, wire, up, agentVars, relay, via, known, browser,
                   answered, used, typed>>

\* the handler returns and its deferred calls run; a watch sends Close
Leave(s) ==
    /\ s \notin Requests
    /\ relay[s] = "leaving" \/ (relay[s] = "waiting" /\ s \in done)
    /\ relay' = [relay EXCEPT ![s] = "ended"]
    /\ known' = known \ {s}
    /\ browser' = browser \ {s}
    /\ used' = Released(s)
    /\ IF s \in Watches
       THEN CloudWrites(via[s], <<s, "close">>) /\ done' = done \cup {s}
       ELSE UNCHANGED <<down, done>>
    /\ UNCHANGED <<routeVars, wire, up, agentVars, via, reader, answered, typed>>

\* agentRoute.request returns: an answer, requestTimeout, or a failed write
RequestReturns(s) ==
    /\ s \in Requests
    /\ relay[s] \in {"waiting", "leaving"}
    /\ relay' = [relay EXCEPT ![s] = IF relay[s] = "waiting" /\ s \in answered
                                     THEN "answered" ELSE "failed"]
    /\ known' = known \ {s}
    /\ UNCHANGED <<routeVars, wireVars, agentVars, via, browser, reader, done,
                   answered, used, typed>>

\* agentRoute.dispatch, and the relays' own: the browser may be gone or too
\* slow for browserRelayWriteTimeout
CloudReads(t) ==
    /\ cloud[t] = "serving"
    /\ wire[t] # "closed"
    /\ up[t] # << >>
    /\ up' = [up EXCEPT ![t] = Tail(@)]
    /\ LET s == Head(up[t])[1]
           k == Head(up[t])[2]
       IN  \/ /\ s \notin known \/ (s \in browser \ stalled /\ k \in {"output", "event"})
              /\ UNCHANGED <<browser, done, answered>>
           \/ /\ s \in known \cap Requests
              /\ answered' = answered \cup {s}
              /\ UNCHANGED <<browser, done>>
           \/ /\ s \in known \ Requests
              /\ browser' = browser \ {s}
              /\ done' = done \cup {s}
              /\ UNCHANGED answered
    /\ UNCHANGED <<routeVars, wire, down, agentVars, relay, via, known, reader,
                   used, typed>>

\* a browser stops reading, and its buffers fill up: the outputs that fill
\* them are not counted
BrowserStalls(s) ==
    /\ Stall \in coming /\ s \in browser /\ relay[s] = "waiting"
    /\ coming' = coming \ {Stall}
    /\ stalled' = stalled \cup {s}
    /\ UNCHANGED <<routeVars, wireVars, relayVars, agent, handler, terms, watching,
                   inbox, shut, sub, sent, generation, cancel, running, stopped,
                   dialler, stuck>>

BrowserGoesOn(s) ==
    /\ s \in stalled
    /\ stalled' = stalled \ {s}
    /\ UNCHANGED <<routeVars, wireVars, relayVars, agent, handler, terms, watching,
                   inbox, shut, sub, sent, generation, cancel, running, stopped,
                   dialler, coming, stuck>>

------------------------------------------------------------------------------
(* The Agent's end: Client.Run and readLoop.                                *)

LoseWire(t) ==
    /\ Loss \in coming
    /\ wire[t] = "up"
    /\ wire' = [wire EXCEPT ![t] = "lost"]
    /\ UNCHANGED <<routeVars, down, up, relayVars, agentVars>>

HangUp(t) == wire' = [wire EXCEPT ![t] = IF @ = "up" THEN "lost" ELSE @]

\* Run takes the first frame it reads for the acknowledgement.
AgentReadsAck(t) ==
    /\ agent[t] = "hello"
    /\ down[t] # << >>
    /\ IF Head(down[t])[2] = "ack"
       THEN /\ agent' = [agent EXCEPT ![t] = "serving"]
            /\ down' = [down EXCEPT ![t] = Tail(@)]
            /\ UNCHANGED wire
       ELSE /\ agent' = [agent EXCEPT ![t] = "over"]
            /\ down' = [down EXCEPT ![t] = << >>]
            /\ HangUp(t)
    /\ UNCHANGED <<routeVars, up, relayVars, runVars, handler, terms, watching, inbox, shut,
                   sub, sent>>

\* readLoop: dispatchTerminal first, then by the kind of the frame
AgentReads(t) ==
    /\ agent[t] = "serving"
    /\ down[t] # << >>
    /\ down' = [down EXCEPT ![t] = Tail(@)]
    /\ LET s == Head(down[t])[1]
           k == Head(down[t])[2]
           Begins(place) == handler' = [handler EXCEPT ![s] = place]
       IN  \/ /\ s \in terms
              /\ inbox' = IF Len(inbox[s]) < InboxCap
                          THEN [inbox EXCEPT ![s] = Append(@, k)] ELSE inbox
              /\ UNCHANGED <<handler, watching, sub>>
           \/ /\ s \notin terms
              /\ \/ k = "attach"  /\ Begins("attaching")
                 \/ k = "watch"   /\ Begins("subscribing")
                 \/ k = "request" /\ Begins("working")
              /\ UNCHANGED <<inbox, watching, sub>>
           \/ /\ s \notin terms
              /\ k = "close"
              /\ watching' = watching \ {s}
              /\ sub' = sub \ (watching \cap {s})
              /\ UNCHANGED <<inbox, handler>>
           \/ /\ s \notin terms
              /\ k = "input"
              /\ UNCHANGED <<inbox, handler, watching, sub>>
    /\ UNCHANGED <<routeVars, wire, up, relayVars, runVars, agent, terms, shut, sent>>

\* the read or a heartbeat fails, or the context was cancelled; what was not
\* read is lost
AgentNotices(t) ==
    /\ wire[t] # "up" \/ Stopped(t)
    /\ down' = [down EXCEPT ![t] = << >>]
    /\ \/ /\ agent[t] = "hello"
          /\ agent' = [agent EXCEPT ![t] = "over"]
          /\ HangUp(t)
       \/ /\ agent[t] = "serving"
          /\ agent' = [agent EXCEPT ![t] = "closing"]
          /\ UNCHANGED wire
    /\ UNCHANGED <<routeVars, up, relayVars, runVars, handler, terms, watching, inbox,
                   shut, sub, sent>>

\* the streams whose handlers are of the Client that dialled t: those of its
\* earlier tunnels too
OfClient(t) == {s \in Streams : via[s] # NoTunnel /\ dialler[via[s]] = dialler[t]}

\* readLoop's deferred calls: closeTerminals, closeWatches, connCancel
CloseTerminals(t) ==
    /\ agent[t] = "closing"
    /\ shut' = shut \cup (terms \cap OfClient(t))
    /\ terms' = terms \ OfClient(t)
    /\ agent' = [agent EXCEPT ![t] = "closingWatches"]
    /\ UNCHANGED <<routeVars, wireVars, relayVars, runVars, handler, watching, inbox, sub,
                   sent>>

CloseWatches(t) ==
    /\ agent[t] = "closingWatches"
    /\ sub' = sub \ (watching \cap OfClient(t))
    /\ watching' = watching \ OfClient(t)
    /\ agent' = [agent EXCEPT ![t] = "cancelling"]
    /\ UNCHANGED <<routeVars, wireVars, relayVars, runVars, handler, terms, inbox, shut,
                   sent>>

CancelConn(t) ==
    /\ agent[t] = "cancelling"
    /\ agent' = [agent EXCEPT ![t] = "over"]
    /\ HangUp(t)
    /\ UNCHANGED <<routeVars, down, up, relayVars, runVars, handler, terms, watching, inbox,
                   shut, sub, sent>>

------------------------------------------------------------------------------
(* handleTerminal, handleWorkspaceWatch and handleRequest, one goroutine    *)
(* per stream.                                                              *)

Goes(s, place) == handler' = [handler EXCEPT ![s] = place]

\* places of a terminal's handler inside a call into the session
InSession == {"attaching", "attached", "writing", "detaching"}
Cancelled(s) == agent[via[s]] = "over" \/ Stopped(via[s])

\* A write to the PTY does not return: the child does not read its input, or
\* waits for a readLoop that waits for the write (SessionRuntime).  It holds
\* controlMu, which every other call into the session needs.
SessionStalls(s) ==
    /\ Busy \in coming /\ handler[s] \in InSession \cup {"serving"}
    /\ coming' = coming \ {Busy}
    /\ stuck' = stuck \cup {s}
    /\ UNCHANGED <<routeVars, wireVars, relayVars, agent, handler, terms, watching,
                   inbox, shut, sub, sent, generation, cancel, running, stopped,
                   dialler, stalled>>

\* the child reads, or the process ends and the write fails
SessionGoesOn(s) ==
    /\ s \in stuck
    /\ stuck' = stuck \ {s}
    /\ UNCHANGED <<routeVars, wireVars, relayVars, agent, handler, terms, watching,
                   inbox, shut, sub, sent, generation, cancel, running, stopped,
                   dialler, coming, stalled>>

Returns(s) == s \notin stuck

\* Runtime.Attach: the client is attached to the session before the stream
\* is registered
Attach(s) ==
    /\ handler[s] = "attaching" /\ Returns(s)
    /\ Goes(s, "attached")
    /\ UNCHANGED <<routeVars, wireVars, relayVars, runVars, agent, terms, watching, inbox,
                   shut, sub, sent>>

\* the attach, its first resize, the subscription or the request fails: an
\* Error frame, and what was attached is detached
HandlerFails(s) ==
    /\ \/ handler[s] \in {"attaching", "subscribing", "working"} /\ Goes(s, "ended")
       \/ handler[s] = "attached" /\ Goes(s, "detaching")
    /\ AgentWrites(via[s], <<s, "error">>)
    /\ UNCHANGED <<routeVars, wire, down, relayVars, runVars, agent, terms, watching, inbox,
                   shut, sub, sent>>

AddToWatches(s) ==  \* mutant: the wrong map
    /\ handler[s] = "attached" /\ Returns(s)
    /\ watching' = watching \cup {s}
    /\ Goes(s, "serving")
    /\ UNCHANGED <<routeVars, wireVars, relayVars, runVars, agent, terms, inbox, shut, sub,
                   sent>>

\* after the first resize
AddTerminal(s) ==
    /\ handler[s] = "attached" /\ Returns(s)
    /\ terms' = terms \cup {s}
    /\ Goes(s, "serving")
    /\ UNCHANGED <<routeVars, wireVars, relayVars, runVars, agent, watching, inbox, shut,
                   sub, sent>>

\* removeTerminal and then stream.Detach, when the loop returns
Detach(s) ==
    /\ Goes(s, "detaching")
    /\ terms' = terms \ {s}
    /\ inbox' = [inbox EXCEPT ![s] = << >>]

Detached(s) ==
    /\ handler[s] = "detaching" /\ Returns(s)
    /\ Goes(s, "ended")
    /\ UNCHANGED <<routeVars, wireVars, relayVars, runVars, agent, terms, watching, inbox,
                   shut, sub, sent>>

\* a Close, or a call into the session: WriteInput, Resize, TakeControl
TerminalReads(s) ==
    /\ handler[s] = "serving"
    /\ inbox[s] # << >>
    /\ IF Head(inbox[s]) = "close" THEN Detach(s)
       ELSE /\ inbox' = [inbox EXCEPT ![s] = Tail(@)]
            /\ Goes(s, "writing")
            /\ UNCHANGED terms
    /\ UNCHANGED <<routeVars, wireVars, relayVars, runVars, agent, watching, shut, sub, sent>>

\* it returns; a client that is not in control is sent an error
CallReturns(s) ==
    /\ handler[s] = "writing" /\ Returns(s)
    /\ Goes(s, "serving")
    /\ UNCHANGED up \/ AgentWrites(via[s], <<s, "output">>)
    /\ UNCHANGED <<routeVars, wire, down, relayVars, runVars, agent, terms, watching, inbox,
                   shut, sub, sent>>

TerminalEndsWhenShut(s) ==  \* mutant: the loop does not wait for its context
    /\ handler[s] = "serving"
    /\ s \in shut /\ inbox[s] = << >>
    /\ Detach(s)
    /\ UNCHANGED <<routeVars, wireVars, relayVars, runVars, agent, watching, shut, sub,
                   sent>>

TerminalEnds(s) ==
    /\ handler[s] = "serving"
    /\ Cancelled(s) \/ (s \in shut /\ inbox[s] = << >>)
    /\ Detach(s)
    /\ UNCHANGED <<routeVars, wireVars, relayVars, runVars, agent, watching, shut, sub,
                   sent>>

TerminalWrites(s) ==
    /\ handler[s] = "serving"
    /\ sent[s] < MaxOutputs
    /\ sent' = [sent EXCEPT ![s] = @ + 1]
    /\ \/ /\ AgentWriteOK(via[s])
          /\ AgentWrites(via[s], <<s, "output">>)
          /\ UNCHANGED <<handler, terms, inbox>>
       \/ /\ AgentWriteFails(via[s])
          /\ Detach(s)
          /\ UNCHANGED up
    /\ UNCHANGED <<routeVars, wire, down, relayVars, runVars, agent, watching, shut, sub>>

\* the session ended or dropped this client: its Outbound channel is closed
SessionEnds(s) ==
    /\ handler[s] = "serving"
    /\ AgentWrites(via[s], <<s, "closed">>)
    /\ Detach(s)
    /\ UNCHANGED <<routeVars, wire, down, relayVars, runVars, agent, watching, shut, sub,
                   sent>>

Subscribe(s) ==
    /\ handler[s] = "subscribing"
    /\ sub' = sub \cup {s}
    /\ Goes(s, "subscribed")
    /\ UNCHANGED <<routeVars, wireVars, relayVars, runVars, agent, terms, watching, inbox,
                   shut, sent>>

AddWatch(s) ==
    /\ handler[s] = "subscribed"
    /\ watching' = watching \cup {s}
    /\ Goes(s, "added")
    /\ UNCHANGED <<routeVars, wireVars, relayVars, runVars, agent, terms, inbox, shut, sub,
                   sent>>

\* removeWatch, when the handler returns
Unwatch(s) ==
    /\ Goes(s, "ended")
    /\ watching' = watching \ {s}
    /\ sub' = sub \ {s}

\* one frame; when the write fails the handler returns
WatchSends(s) ==
    \/ /\ AgentWriteOK(via[s])
       /\ AgentWrites(via[s], <<s, "event">>)
       /\ Goes(s, "feeding")
       /\ UNCHANGED <<watching, sub>>
    \/ /\ AgentWriteFails(via[s])
       /\ Unwatch(s)
       /\ UNCHANGED up

\* the confirmation and the initial rescan
Announce(s) ==
    /\ handler[s] = "added"
    /\ WatchSends(s)
    /\ UNCHANGED <<routeVars, wire, down, relayVars, runVars, agent, terms, inbox, shut, sent>>

\* a change of the workspace
WatchWrites(s) ==
    /\ handler[s] = "feeding"
    /\ s \in sub
    /\ sent[s] < MaxOutputs
    /\ sent' = [sent EXCEPT ![s] = @ + 1]
    /\ WatchSends(s)
    /\ UNCHANGED <<routeVars, wire, down, relayVars, runVars, agent, terms, inbox, shut>>

\* the manager closes the subscription after its last rescan: a full queue,
\* a renamed directory, an error of the watcher
FeedEnds(s) ==
    /\ s \in sub
    /\ sub' = sub \ {s}
    /\ UNCHANGED <<routeVars, wireVars, relayVars, runVars, agent, handler, terms, watching,
                   inbox, shut, sent>>

\* the handler returns, without a frame
WatchEnds(s) ==
    /\ handler[s] = "feeding"
    /\ Cancelled(s) \/ s \notin sub
    /\ Unwatch(s)
    /\ UNCHANGED <<routeVars, wireVars, relayVars, runVars, agent, terms, inbox, shut, sent>>

Answer(s) ==
    /\ handler[s] = "working"
    /\ Goes(s, "ended")
    /\ AgentWrites(via[s], <<s, "answer">>)
    /\ UNCHANGED <<routeVars, wire, down, relayVars, runVars, agent, terms, watching, inbox,
                   shut, sub, sent>>

------------------------------------------------------------------------------
CloudSteps(t) ==
    \/ Register(t) \/ SetRoute(t) \/ CloseReplacedConn(t) \/ Acknowledge(t)
    \/ CloudReads(t) \/ CloudNotices(t) \/ ClearRoute(t) \/ MarkOffline(t)
    \/ LeaveSuperseded(t) \/ CloserSteps(t)

RemoverSteps ==
    \/ TakeOutRoute \/ CloserSteps(Deletion) \/ CloseRemovedConn
    \/ MarkRemovedOffline

AgentSteps(t) ==
    \/ AgentReadsAck(t) \/ AgentReads(t) \/ AgentNotices(t)
    \/ CloseTerminals(t) \/ CloseWatches(t) \/ CancelConn(t)

RelaySteps(s) == Refuse(s) \/ Add(s) \/ Send(s) \/ Leave(s) \/ RequestReturns(s)

HandlerSteps(s) ==
    \/ Attach(s) \/ AddTerminal(s) \/ TerminalReads(s) \/ CallReturns(s)
    \/ TerminalEnds(s) \/ Detached(s)
    \/ Subscribe(s) \/ AddWatch(s) \/ Announce(s) \/ WatchEnds(s) \/ Answer(s)

\* what the users, the network, the sessions and the files do
Environment ==
    \/ DeleteDevice \/ Start \/ Stop
    \/ \E t \in Tunnels : Dial(t) \/ LoseWire(t)
    \/ \E s \in Streams :
          \/ Open(s) \/ BrowserTypes(s) \/ BrowserLeaves(s)
          \/ HandlerFails(s) \/ TerminalWrites(s) \/ SessionEnds(s)
          \/ WatchWrites(s) \/ FeedEnds(s)
          \/ BrowserStalls(s) \/ BrowserGoesOn(s) \/ SessionStalls(s) \/ SessionGoesOn(s)

\* the goroutines of the two programs
ProgramSteps ==
    \/ RemoverSteps
    \/ \E g \in 1 .. MaxStarts : RunReturns(g)
    \/ \E t \in Tunnels : CloudSteps(t) \/ AgentSteps(t)
    \/ \E s \in Streams : RelaySteps(s) \/ ReaderEnds(s) \/ HandlerSteps(s)

Next == Environment \/ ProgramSteps

Spec == Init /\ [][Next]_vars

(* The goroutines of both programs go on: every one is scheduled, every read *)
(* of a dead wire fails in the end (heartbeats, HeartbeatIdleTimeout), and   *)
(* requestTimeout runs out.  A call into a session returns unless it is      *)
(* stuck, a write to a browser without a deadline unless it is stalled.      *)
(* That either goes on again is not assumed, nor anything of the network,    *)
(* the users and the files.                                                  *)
Fairness ==
    /\ WF_vars(RemoverSteps)
    /\ \A g \in 1 .. MaxStarts : WF_vars(RunReturns(g))
    /\ \A t \in Tunnels : WF_vars(CloudSteps(t)) /\ WF_vars(AgentSteps(t))
    /\ \A s \in Streams : /\ WF_vars(RelaySteps(s)) /\ WF_vars(ReaderEnds(s))
                          /\ WF_vars(HandlerSteps(s))

FairSpec == Spec /\ Fairness
==============================================================================
