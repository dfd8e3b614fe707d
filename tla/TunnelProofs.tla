---------------------------- MODULE TunnelProofs ----------------------------
(***************************************************************************)
(* The tunnel, for any number of streams and tunnels, any limit of the     *)
(* quota and any capacity: types, the device's route, its presence and the *)
(* slots of the attach quota.                                              *)
(*                                                                         *)
(* What a handler puts into terms, watches and subscriptions depends on    *)
(* the kind of its stream, which it knows from the first frame: so the     *)
(* types need that frames under way match their streams (Framed) and that  *)
(* handlers do (Kinds).  That a route is served needs that a tunnel that   *)
(* is dialled was never seen by the Cloud (Dialled).  OfflineAtRest is not *)
(* inductive: Presence names who still has to mark the device offline.     *)
(* Nor is OneConnector: that a run that returns late leaves cancel alone   *)
(* needs that what cancel would cancel goes on (Connected).                *)
(***************************************************************************)
EXTENDS TunnelProperties, TLAPS, SequenceTheorems, FiniteSetTheorems

\* The frames that the Cloud writes.
DownFrames ==
  ({Control} \X {"ack"}) \cup (Terminals \X {"attach", "input", "close"})
  \cup (Watches \X {"watch", "close"}) \cup (Requests \X {"request"})

Framed == down \in [Tunnels -> Seq(DownFrames)]

\* A handler serves the kind of stream that it was started for.
Kinds ==
  \A s \in Streams :
    /\ handler[s] \in InSession \cup {"serving"} => s \in Terminals
    /\ handler[s] \in {"subscribing", "subscribed", "added", "feeding"} => s \in Watches
    /\ handler[s] = "working" => s \in Requests

\* The Cloud knows a tunnel from the moment that the Agent dials it.
Dialled == \A t \in Tunnels : cloud[t] = "idle" <=> agent[t] = "idle"

\* Somebody will still mark a device offline that is online.
Presence ==
  online =>
    \/ owner # NoTunnel
    \/ \E t \in Tunnels : cloud[t] \in {"registered", "clearing"}
    \/ remover \in {"closing", "marking"}

\* The terminals between TryAcquire and Release.
Held == {s \in Terminals : relay[s] \in {"opening", "added", "waiting", "leaving"}}

Slots == IsFiniteSet(Held) /\ SlotsAreHeld

\* What cancel would cancel is the latest start, and that goes on.
Connected == cancel \in {0, generation} /\ cancel \notin stopped /\ OneConnector

\* The inductive invariant.
TunnelInv ==
  /\ TunnelTypeOK /\ Framed /\ Kinds /\ Dialled
  /\ RouteIsServed /\ Presence /\ Slots /\ Connected

starts == <<generation, cancel, running, stopped>>

-----------------------------------------------------------------------------
(* Writes and reads of frames *)

\* A frame that matches its stream may be written.
LEMMA CloudWritesTyped ==
  ASSUME Framed, NEW t, NEW f \in DownFrames, CloudWrites(t, f)
  PROVE  Framed'
<1>1. CASE wire[t] = "up" /\ t \in Tunnels
  <2>1. Append(down[t], f) \in Seq(DownFrames)
    BY <1>1, AppendProperties DEF Framed
  <2>. QED BY <1>1, <2>1 DEF CloudWrites, Framed
<1>2. CASE ~(wire[t] = "up" /\ t \in Tunnels)
  BY <1>2 DEF CloudWrites, Framed
<1>. QED BY <1>1, <1>2

\* What is left of the frames is frames.
LEMMA ReadsTyped ==
  ASSUME Framed, NEW t \in Tunnels, down[t] # << >>
  PROVE  /\ Head(down[t]) \in DownFrames
         /\ [down EXCEPT ![t] = Tail(@)] \in [Tunnels -> Seq(DownFrames)]
BY HeadTailProperties DEF Framed

\* So are none.
LEMMA ClearedTyped ==
  ASSUME Framed, NEW t \in Tunnels
  PROVE  [down EXCEPT ![t] = << >>] \in [Tunnels -> Seq(DownFrames)]
BY EmptySeq DEF Framed

-----------------------------------------------------------------------------
(* Types *)

Typed == TunnelTypeOK /\ Framed /\ Kinds

LEMMA TypedInit == Init => Typed
<1>. SUFFICES ASSUME Init PROVE Typed
  OBVIOUS
<1>1. TunnelTypeOK
  <2>1. coming \subseteq Events /\ remover \in {"absent", "idle"}
        /\ relay \in [Streams -> {"absent", "none"}]
    BY DEF Init, Events
  <2>. QED BY <2>1, BoundsAssumption DEF Init, TunnelTypeOK, Ended
<1>2. Framed
  BY EmptySeq DEF Init, Framed
<1>3. Kinds
  BY DEF Init, Kinds, InSession
<1>. QED BY <1>1, <1>2, <1>3 DEF Typed

\* The steps that close the relays of a route.
LEMMA TypedCloser ==
  ASSUME Typed, NEW c \in Closers, CloserSteps(c)
  PROVE  Typed' /\ UNCHANGED <<owner, online, cloud, remover, relay, used, agentVars>>
<1>. USE DEF Typed, TunnelTypeOK, Framed, Kinds, routeVars, wireVars, relayVars, closeVars,
             outside, runVars, agentVars
<1>1. CASE TakeTerminals(c)
  BY <1>1 DEF TakeTerminals, Take, TerminalsOf
<1>2. CASE TakeWatches(c)
  BY <1>2 DEF TakeWatches, Take, WatchesOf
<1>3. CASE WaitForBrowser(c)
  BY <1>3 DEF WaitForBrowser
<1>4. CASE TellRelay(c)
  BY <1>4 DEF TellRelay
<1>. QED BY <1>1, <1>2, <1>3, <1>4 DEF CloserSteps

\* The steps of the Cloud's handler of a tunnel.
LEMMA TypedCloud ==
  ASSUME Typed, NEW t \in Tunnels, CloudSteps(t) \/ Dial(t) \/ LoseWire(t)
  PROVE  Typed'
<1>. USE DEF Typed, routeVars, wireVars, relayVars, closeVars, outside, runVars, agentVars
<1>. SUFFICES ASSUME TRUE PROVE TunnelTypeOK' /\ Framed' /\ Kinds'
  OBVIOUS
<1>1. CASE Dial(t)
  BY <1>1 DEF Dial, TunnelTypeOK, Framed, Kinds
<1>2. CASE LoseWire(t)
  BY <1>2 DEF LoseWire, TunnelTypeOK, Framed, Kinds
<1>3. CASE Register(t)
  BY <1>3 DEF Register, TunnelTypeOK, Framed, Kinds
<1>4. CASE SetRoute(t)
  BY <1>4 DEF SetRoute, TunnelTypeOK, Framed, Kinds
<1>5. CASE CloserSteps(t)
  BY <1>5, TypedCloser DEF Closers
<1>6. CASE CloseReplacedConn(t)
  BY <1>6 DEF CloseReplacedConn, RelaysClosed, TunnelTypeOK, Framed, Kinds
<1>7. CASE Acknowledge(t)
  <2>1. <<Control, "ack">> \in DownFrames
    BY DEF DownFrames
  <2>2. Framed'
    BY <1>7, <2>1, CloudWritesTyped DEF Acknowledge, Framed
  <2>. QED BY <1>7, <2>2 DEF Acknowledge, TunnelTypeOK, Kinds
<1>8. CASE CloudReads(t)
  BY <1>8 DEF CloudReads, TunnelTypeOK, Framed, Kinds
<1>9. CASE CloudNotices(t)
  BY <1>9 DEF CloudNotices, TunnelTypeOK, Framed, Kinds
<1>10. CASE ClearRoute(t)
  BY <1>10 DEF ClearRoute, TunnelTypeOK, Framed, Kinds
<1>11. CASE LeaveSuperseded(t)
  BY <1>11 DEF LeaveSuperseded, HandlerReturns, RelaysClosed, TunnelTypeOK, Framed, Kinds
<1>12. CASE MarkOffline(t)
  BY <1>12 DEF MarkOffline, HandlerReturns, RelaysClosed, TunnelTypeOK, Framed, Kinds
<1>. QED
  BY <1>1, <1>2, <1>3, <1>4, <1>5, <1>6, <1>7, <1>8, <1>9, <1>10, <1>11, <1>12
     DEF CloudSteps

\* The steps of the connector.
LEMMA TypedConnector ==
  ASSUME Typed, Connected, Start \/ Stop \/ (\E g \in 1 .. MaxStarts : RunReturns(g))
  PROVE  Typed' /\ UNCHANGED <<routeVars, relayVars, agent>>
<1>. USE DEF Typed, routeVars, closeVars, outside, wireVars, relayVars, TunnelTypeOK, Framed, Kinds
<1>1. CASE Start
  BY <1>1 DEF Start
<1>2. CASE Stop
  <2>1. stopped' \subseteq 1 .. generation
    BY <1>2 DEF Stop, Connected
  <2>. QED BY <1>2, <2>1 DEF Stop
<1>3. ASSUME NEW g \in 1 .. MaxStarts, RunReturns(g)
      PROVE  Typed' /\ UNCHANGED <<routeVars, relayVars, agent>>
  BY <1>3 DEF RunReturns
<1>. QED BY <1>1, <1>2, <1>3

\* The steps of a deletion of the device.
LEMMA TypedRemover ==
  ASSUME Typed, RemoverSteps \/ DeleteDevice
  PROVE  Typed'
<1>. USE DEF Typed, routeVars, closeVars, outside, wireVars, relayVars, runVars, agentVars,
             TunnelTypeOK, Framed, Kinds
<1>1. CASE DeleteDevice
  BY <1>1 DEF DeleteDevice
<1>2. CASE TakeOutRoute
  BY <1>2 DEF TakeOutRoute
<1>3. CASE CloserSteps(Deletion)
  BY <1>3, TypedCloser DEF Closers
<1>4. CASE CloseRemovedConn
  BY <1>4 DEF CloseRemovedConn, RelaysClosed
<1>5. CASE MarkRemovedOffline
  BY <1>5 DEF MarkRemovedOffline
<1>. QED BY <1>1, <1>2, <1>3, <1>4, <1>5 DEF RemoverSteps

\* The steps of the Agent's connection.
LEMMA TypedAgent ==
  ASSUME Typed, NEW t \in Tunnels, AgentSteps(t)
  PROVE  Typed'
<1>. USE DEF Typed, routeVars, closeVars, outside, wireVars, relayVars, runVars, agentVars
<1>1. CASE AgentReadsAck(t)
  <2>1. Framed'
    <3>1. CASE down' = [down EXCEPT ![t] = Tail(@)]
      BY <1>1, <3>1, ReadsTyped DEF AgentReadsAck, Framed
    <3>2. CASE down' = [down EXCEPT ![t] = << >>]
      BY <3>2, ClearedTyped DEF Framed
    <3>. QED BY <1>1, <3>1, <3>2 DEF AgentReadsAck
  <2>2. TunnelTypeOK'
    <3>1. UNCHANGED <<routeVars, relayVars, runVars, handler, terms, watching, shut, sub>>
      BY <1>1 DEF AgentReadsAck
    <3>2. agent' \in {[agent EXCEPT ![t] = "serving"], [agent EXCEPT ![t] = "over"]}
      BY <1>1 DEF AgentReadsAck
    <3>3. wire' = wire \/ HangUp(t)
      BY <1>1 DEF AgentReadsAck
    <3>. QED BY <3>1, <3>2, <3>3 DEF HangUp, TunnelTypeOK
  <2>. QED BY <1>1, <2>1, <2>2 DEF AgentReadsAck, Kinds
<1>2. CASE AgentReads(t)
  <2>1. Head(down[t]) \in DownFrames /\ Framed'
    BY <1>2, ReadsTyped DEF AgentReads, Framed
  <2>2. /\ Head(down[t])[2] = "attach" => Head(down[t])[1] \in Terminals
        /\ Head(down[t])[2] = "watch" => Head(down[t])[1] \in Watches
        /\ Head(down[t])[2] = "request" => Head(down[t])[1] \in Requests
    BY <2>1 DEF DownFrames
  <2>. DEFINE s == Head(down[t])[1]
  <2>3. \/ handler' = handler
        \/ s \in Terminals /\ handler' = [handler EXCEPT ![s] = "attaching"]
        \/ s \in Watches /\ handler' = [handler EXCEPT ![s] = "subscribing"]
        \/ s \in Requests /\ handler' = [handler EXCEPT ![s] = "working"]
    BY <1>2, <2>2 DEF AgentReads
  <2>4. watching' \subseteq watching /\ sub' \subseteq sub
    BY <1>2 DEF AgentReads
  <2>5. UNCHANGED <<routeVars, wire, relayVars, runVars, agent, terms, shut>>
    BY <1>2 DEF AgentReads
  <2>. HIDE DEF s
  <2>6. TunnelTypeOK'
    BY <2>3, <2>4, <2>5 DEF TunnelTypeOK
  <2>7. Kinds'
    BY <2>3 DEF Kinds, TunnelTypeOK, Streams, InSession
  <2>. QED BY <2>1, <2>6, <2>7
<1>3. CASE AgentNotices(t)
  <2>1. Framed'
    BY <1>3, ClearedTyped DEF AgentNotices, Framed
  <2>. QED BY <1>3, <2>1 DEF AgentNotices, HangUp, TunnelTypeOK, Kinds
<1>4. CASE CloseTerminals(t)
  BY <1>4 DEF CloseTerminals, TunnelTypeOK, Framed, Kinds
<1>5. CASE CloseWatches(t)
  BY <1>5 DEF CloseWatches, TunnelTypeOK, Framed, Kinds
<1>6. CASE CancelConn(t)
  BY <1>6 DEF CancelConn, HangUp, TunnelTypeOK, Framed, Kinds
<1>. QED BY <1>1, <1>2, <1>3, <1>4, <1>5, <1>6 DEF AgentSteps
\* A relay's frame that matches its stream keeps the frames typed.
LEMMA RelayFrames ==
  ASSUME Framed, NEW s \in Streams, NEW k,
         \/ s \in Terminals /\ k \in {"attach", "input", "close"}
         \/ s \in Watches /\ k \in {"watch", "close"}
         \/ s \in Requests /\ k = "request",
         CloudWrites(via[s], <<s, k>>)
  PROVE  Framed'
<1>1. <<s, k>> \in DownFrames
  BY DEF DownFrames
<1>. QED BY <1>1, CloudWritesTyped

\* The steps of a relay and of its browser.
LEMMA TypedRelay ==
  ASSUME Typed, NEW s \in Streams,
         \/ RelaySteps(s) \/ ReaderEnds(s) \/ Open(s)
         \/ BrowserTypes(s) \/ BrowserLeaves(s),
         used' \in Nat
  PROVE  Typed'
<1>. USE DEF Typed, routeVars, closeVars, outside, wireVars, relayVars, runVars, agentVars, Ended
<1>1. CASE Refuse(s)
  BY <1>1 DEF Refuse, TunnelTypeOK, Framed, Kinds
<1>2. CASE Add(s)
  BY <1>2 DEF Add, TunnelTypeOK, Framed, Kinds
<1>3. CASE Send(s)
  <2>1. Framed'
    <3>1. CASE UNCHANGED down
      BY <3>1 DEF Framed
    <3>2. CASE CloudWrites(via[s], <<s, Opening(s)>>)
      BY <3>2, RelayFrames, StreamsAssumption DEF Opening, Streams
    <3>. QED BY <1>3, <3>1, <3>2 DEF Send
  <2>. QED BY <1>3, <2>1 DEF Send, TunnelTypeOK, Kinds
<1>4. CASE Leave(s)
  <2>1. Framed'
    BY <1>4, RelayFrames DEF Leave, Framed
  <2>. QED BY <1>4, <2>1 DEF Leave, TunnelTypeOK, Kinds
<1>5. CASE RequestReturns(s)
  BY <1>5 DEF RequestReturns, TunnelTypeOK, Framed, Kinds
<1>6. CASE ReaderEnds(s)
  <2>1. Framed'
    BY <1>6, RelayFrames DEF ReaderEnds, Framed
  <2>. QED BY <1>6, <2>1 DEF ReaderEnds, TunnelTypeOK, Kinds
<1>7. CASE Open(s)
  BY <1>7 DEF Open, TunnelTypeOK, Framed, Kinds
<1>8. CASE BrowserTypes(s)
  <2>1. Framed'
    BY <1>8, RelayFrames DEF BrowserTypes
  <2>. QED BY <1>8, <2>1 DEF BrowserTypes, TunnelTypeOK, Kinds
<1>9. CASE BrowserLeaves(s)
  BY <1>9 DEF BrowserLeaves, TunnelTypeOK, Framed, Kinds
<1>. QED
  BY <1>1, <1>2, <1>3, <1>4, <1>5, <1>6, <1>7, <1>8, <1>9 DEF RelaySteps

\* A browser or a session stops reading, or goes on.
Stalling(s) == BrowserStalls(s) \/ BrowserGoesOn(s) \/ SessionStalls(s) \/ SessionGoesOn(s)

\* The steps of a handler on the Agent, of its session and of its subscription.
LEMMA TypedHandler ==
  ASSUME Typed, NEW s \in Streams,
         \/ HandlerSteps(s) \/ HandlerFails(s) \/ TerminalWrites(s)
         \/ SessionEnds(s) \/ WatchWrites(s) \/ FeedEnds(s) \/ Stalling(s)
  PROVE  Typed' /\ UNCHANGED <<routeVars, relayVars, agent, starts>>
<1>. USE DEF Typed, routeVars, closeVars, outside, wireVars, relayVars, runVars, agentVars, starts,
             TunnelTypeOK, Framed, Kinds, Goes, InSession
<1>1. CASE Attach(s)
  BY <1>1 DEF Attach
<1>2. CASE AddTerminal(s)
  BY <1>2 DEF AddTerminal
<1>3. CASE TerminalReads(s)
  <2>1. s \in Terminals
    BY <1>3 DEF TerminalReads
  <2>2. handler' \in {[handler EXCEPT ![s] = "writing"], [handler EXCEPT ![s] = "detaching"]}
    BY <1>3 DEF TerminalReads, Detach
  <2>3. terms' \subseteq terms
    BY <1>3 DEF TerminalReads, Detach
  <2>4. UNCHANGED <<routeVars, wireVars, relayVars, runVars, agent, watching, shut, sub>>
    BY <1>3 DEF TerminalReads
  <2>5. Framed' /\ UNCHANGED <<routeVars, relayVars, agent, starts>>
    BY <2>4
  <2>6. Kinds'
    BY <2>1, <2>2
  <2>7. TunnelTypeOK'
    BY <2>2, <2>3, <2>4
  <2>. QED BY <2>5, <2>6, <2>7
<1>4. CASE TerminalEnds(s)
  BY <1>4 DEF TerminalEnds, Detach
<1>5. CASE Subscribe(s)
  BY <1>5 DEF Subscribe
<1>6. CASE AddWatch(s)
  BY <1>6 DEF AddWatch
<1>7. CASE Announce(s)
  <2>1. s \in Watches
    BY <1>7 DEF Announce
  <2>2. CASE handler' = [handler EXCEPT ![s] = "feeding"] /\ UNCHANGED <<watching, sub>>
    BY <1>7, <2>1, <2>2 DEF Announce
  <2>3. CASE Unwatch(s)
    BY <1>7, <2>3 DEF Announce, Unwatch
  <2>. QED BY <1>7, <2>2, <2>3 DEF Announce, WatchSends
<1>8. CASE WatchEnds(s)
  BY <1>8 DEF WatchEnds, Unwatch
<1>9. CASE Answer(s)
  BY <1>9 DEF Answer
<1>10. CASE HandlerFails(s)
  <2>1. UNCHANGED <<routeVars, down, wire, relayVars, runVars, agent, terms, watching,
                    shut, sub>>
    BY <1>10 DEF HandlerFails
  <2>2. CASE handler' = [handler EXCEPT ![s] = "ended"]
    BY <2>1, <2>2
  <2>3. CASE handler[s] = "attached" /\ handler' = [handler EXCEPT ![s] = "detaching"]
    BY <2>1, <2>3
  <2>. QED BY <1>10, <2>2, <2>3 DEF HandlerFails
<1>11. CASE TerminalWrites(s)
  BY <1>11 DEF TerminalWrites, Detach
<1>12. CASE SessionEnds(s)
  BY <1>12 DEF SessionEnds, Detach
<1>13. CASE WatchWrites(s)
  <2>1. s \in Watches
    BY <1>13 DEF WatchWrites
  <2>2. CASE handler' = [handler EXCEPT ![s] = "feeding"] /\ UNCHANGED <<watching, sub>>
    BY <1>13, <2>1, <2>2 DEF WatchWrites
  <2>3. CASE Unwatch(s)
    BY <1>13, <2>3 DEF WatchWrites, Unwatch
  <2>. QED BY <1>13, <2>2, <2>3 DEF WatchWrites, WatchSends
<1>14. CASE FeedEnds(s)
  BY <1>14 DEF FeedEnds
<1>15. CASE CallReturns(s)
  BY <1>15 DEF CallReturns
<1>16. CASE Detached(s)
  BY <1>16 DEF Detached
<1>17. CASE Stalling(s)
  BY <1>17 DEF Stalling, BrowserStalls, BrowserGoesOn, SessionStalls, SessionGoesOn
<1>. QED
  BY <1>1, <1>2, <1>3, <1>4, <1>5, <1>6, <1>7, <1>8, <1>9, <1>10, <1>11, <1>12, <1>13,
     <1>14, <1>15, <1>16, <1>17 DEF HandlerSteps

-----------------------------------------------------------------------------
(* The slots of the quota *)

\* A step that changes no relay and no slot keeps them.
LEMMA SlotsRest ==
  ASSUME Slots, UNCHANGED <<relay, used>>
  PROVE  Slots'
BY DEF Slots, Held, SlotsAreHeld

\* Terminals come and go one by one, each with its slot.
LEMMA SlotsStep ==
  ASSUME TunnelTypeOK, Slots, NEW s \in Streams,
         \/ RelaySteps(s) \/ ReaderEnds(s) \/ Open(s)
         \/ BrowserTypes(s) \/ BrowserLeaves(s)
  PROVE  Slots' /\ used' \in Nat
<1>. USE DEF relayVars, TunnelTypeOK
<1>1. IsFiniteSet(Held) /\ used = Cardinality(Held) /\ used <= Limit
  BY DEF Slots, SlotsAreHeld, Held
<1>2. SUFFICES IsFiniteSet(Held') /\ used' = Cardinality(Held') /\ used' <= Limit
  BY <1>1, FS_CardinalityType DEF Slots, SlotsAreHeld, Held
<1>3. ASSUME Held' = Held, used' = used
      PROVE  IsFiniteSet(Held') /\ used' = Cardinality(Held') /\ used' <= Limit
  BY <1>1, <1>3
<1>4. ASSUME relay[s] \in {"opening", "leaving", "waiting"}, s \notin Requests,
             relay' = [relay EXCEPT ![s] = "ended"], used' = Released(s)
      PROVE  IsFiniteSet(Held') /\ used' = Cardinality(Held') /\ used' <= Limit
  <2>1. CASE s \in Terminals
    <3>1. s \in Held /\ Held' = Held \ {s}
      BY <1>4, <2>1 DEF Held
    <3>2. used' = used - 1
      BY <1>4, <2>1 DEF Released
    <3>. QED BY <1>1, <3>1, <3>2, FS_RemoveElement, BoundsAssumption
  <2>2. CASE s \notin Terminals
    BY <1>3, <1>4, <2>2 DEF Held, Released
  <2>. QED BY <2>1, <2>2
<1>5. CASE Refuse(s)
  BY <1>4, <1>5 DEF Refuse
<1>6. CASE Add(s)
  BY <1>3, <1>6 DEF Add, Held
<1>7. CASE Send(s)
  <2>1. PICK place \in {"waiting", "leaving"} : relay' = [relay EXCEPT ![s] = place]
    BY <1>7 DEF Send
  <2>2. Held' = Held
    BY <1>7, <2>1 DEF Send, Held
  <2>. QED BY <1>3, <1>7, <2>2 DEF Send
<1>8. CASE Leave(s)
  BY <1>4, <1>8 DEF Leave
<1>9. CASE RequestReturns(s)
  BY <1>3, <1>9, StreamsAssumption DEF RequestReturns, Held
<1>10. CASE Open(s)
  <2>1. CASE s \in Terminals
    <3>1. s \notin Held /\ Held' = Held \cup {s}
      BY <1>10, <2>1 DEF Open, Held
    <3>2. used' = used + 1 /\ used < Limit
      BY <1>10, <2>1 DEF Open
    <3>. QED BY <1>1, <3>1, <3>2, FS_AddElement, BoundsAssumption
  <2>2. CASE s \notin Terminals
    BY <1>3, <1>10, <2>2 DEF Open, Held
  <2>. QED BY <2>1, <2>2
<1>11. CASE ReaderEnds(s) \/ BrowserTypes(s) \/ BrowserLeaves(s)
  BY <1>3, <1>11 DEF ReaderEnds, BrowserTypes, BrowserLeaves, Held
<1>. QED
  BY <1>5, <1>6, <1>7, <1>8, <1>9, <1>10, <1>11 DEF RelaySteps
-----------------------------------------------------------------------------
(* The route and the presence of the device *)

Routed == Dialled /\ RouteIsServed /\ Presence

\* Steps that are none of the Cloud's tunnels, of a deletion or of a dial leave the route
\* alone.
LEMMA RoutedRest ==
  ASSUME Routed, UNCHANGED <<owner, online, cloud, remover>>,
         \A t \in Tunnels : agent'[t] = "idle" <=> agent[t] = "idle"
  PROVE  Routed'
BY DEF Routed, Dialled, RouteIsServed, Presence

\* The Agent's connection does not go back to the start.
LEMMA RoutedAgent ==
  ASSUME TunnelTypeOK, Routed, NEW t \in Tunnels, AgentSteps(t)
  PROVE  Routed' /\ UNCHANGED <<routeVars, relayVars, starts>>
<1>. USE DEF TunnelTypeOK
<1>1. UNCHANGED <<routeVars, relayVars, starts>>
  BY DEF runVars, starts, AgentSteps, AgentReadsAck, AgentReads, AgentNotices,
         CloseTerminals, CloseWatches, CancelConn
<1>2. \A u \in Tunnels : agent'[u] = "idle" <=> agent[u] = "idle"
  BY DEF AgentSteps, AgentReadsAck, AgentReads, AgentNotices, CloseTerminals, CloseWatches,
         CancelConn
<1>. QED BY <1>1, <1>2, RoutedRest DEF routeVars

\* So do the steps that close relays.
LEMMA RoutedCloser ==
  ASSUME Typed, Routed, NEW c \in Closers, CloserSteps(c)
  PROVE  Routed' /\ UNCHANGED <<relay, used, starts>>
<1>1. UNCHANGED <<owner, online, cloud, remover, relay, used, agentVars>>
  BY TypedCloser
<1>. QED BY <1>1, RoutedRest DEF agentVars, runVars, starts

\* The steps of the Cloud's handler of a tunnel, and a dial.
LEMMA RoutedCloud ==
  ASSUME Typed, TunnelTypeOK, Routed, NEW t \in Tunnels, CloudSteps(t) \/ Dial(t) \/ LoseWire(t)
  PROVE  Routed' /\ UNCHANGED <<relay, used, starts>>
<1>. USE DEF TunnelTypeOK, Routed, Dialled, RouteIsServed, Presence,
             routeVars, closeVars, relayVars, outside, runVars, agentVars, starts
<1>1. CASE Dial(t)
  BY <1>1 DEF Dial
<1>2. CASE LoseWire(t)
  BY <1>2 DEF LoseWire
<1>3. CASE Register(t)
  BY <1>3 DEF Register
<1>4. CASE SetRoute(t)
  BY <1>4, BoundsAssumption DEF SetRoute
<1>5. CASE CloserSteps(t)
  BY <1>5, RoutedCloser DEF Closers
<1>6. CASE CloseReplacedConn(t)
  BY <1>6 DEF CloseReplacedConn
<1>7. CASE Acknowledge(t)
  BY <1>7 DEF Acknowledge
<1>8. CASE CloudReads(t)
  BY <1>8 DEF CloudReads
<1>9. CASE CloudNotices(t)
  BY <1>9 DEF CloudNotices
<1>10. CASE ClearRoute(t)
  BY <1>10 DEF ClearRoute, OwnsRoute
<1>11. CASE LeaveSuperseded(t)
  BY <1>11 DEF LeaveSuperseded, HandlerReturns
<1>12. CASE MarkOffline(t)
  BY <1>12 DEF MarkOffline, HandlerReturns
<1>. QED
  BY <1>1, <1>2, <1>3, <1>4, <1>5, <1>6, <1>7, <1>8, <1>9, <1>10, <1>11, <1>12
     DEF CloudSteps

\* The steps of a deletion.
LEMMA RoutedRemover ==
  ASSUME Typed, TunnelTypeOK, Routed, RemoverSteps \/ DeleteDevice
  PROVE  Routed' /\ UNCHANGED <<relay, used, starts>>
<1>. USE DEF TunnelTypeOK, Routed, Dialled, RouteIsServed, Presence,
             routeVars, closeVars, relayVars, outside, runVars, agentVars, starts
<1>1. CASE DeleteDevice
  BY <1>1 DEF DeleteDevice
<1>2. CASE TakeOutRoute
  BY <1>2 DEF TakeOutRoute
<1>3. CASE CloserSteps(Deletion)
  BY <1>3, RoutedCloser DEF Closers
<1>4. CASE CloseRemovedConn
  BY <1>4 DEF CloseRemovedConn
<1>5. CASE MarkRemovedOffline
  BY <1>5 DEF MarkRemovedOffline
<1>. QED BY <1>1, <1>2, <1>3, <1>4, <1>5 DEF RemoverSteps

\* The relays do not touch the route.
LEMMA RoutedRelay ==
  ASSUME Routed, NEW s \in Streams,
         \/ RelaySteps(s) \/ ReaderEnds(s) \/ Open(s)
         \/ BrowserTypes(s) \/ BrowserLeaves(s)
  PROVE  Routed' /\ UNCHANGED <<routeVars, starts>>
<1>1. UNCHANGED <<routeVars, agentVars>>
  BY DEF RelaySteps, Refuse, Add, Send, Leave, RequestReturns, ReaderEnds, Open,
         BrowserTypes, BrowserLeaves
<1>. QED BY <1>1, RoutedRest DEF routeVars, agentVars, runVars, starts

-----------------------------------------------------------------------------
(* The connector *)

\* Steps that are not the connector's leave it alone.
LEMMA ConnectedRest ==
  ASSUME Connected, UNCHANGED starts
  PROVE  Connected'
BY DEF Connected, OneConnector, starts

\* A start comes when all that ran before is cancelled; a run that returns clears cancel
\* only when nothing goes on.
LEMMA ConnectedStep ==
  ASSUME TunnelTypeOK, Connected,
         Start \/ Stop \/ (\E g \in 1 .. MaxStarts : RunReturns(g))
  PROVE  Connected'
<1>. USE DEF TunnelTypeOK, Connected, OneConnector
<1>1. CASE Start
  BY <1>1 DEF Start
<1>2. CASE Stop
  BY <1>2 DEF Stop
<1>3. ASSUME NEW g \in 1 .. MaxStarts, RunReturns(g)
      PROVE  Connected'
  <2>1. cancel' = cancel
    BY <1>3 DEF RunReturns, OwnGeneration
  <2>. QED BY <1>3, <2>1 DEF RunReturns
<1>. QED BY <1>1, <1>2, <1>3

-----------------------------------------------------------------------------
(* The invariant *)

LEMMA TunnelInvInit == Init => TunnelInv
<1>. SUFFICES ASSUME Init PROVE TunnelInv
  OBVIOUS
<1>1. Typed
  BY TypedInit
<1>2. Dialled /\ RouteIsServed /\ Presence
  BY DEF Init, Dialled, RouteIsServed, Presence
<1>3. Held = {} /\ used = 0
  BY DEF Init, Held, Streams
<1>4. Slots
  BY <1>3, FS_EmptySet, BoundsAssumption DEF Slots, SlotsAreHeld, Held
<1>5. Connected
  BY DEF Init, Connected, OneConnector
<1>. QED BY <1>1, <1>2, <1>4, <1>5 DEF TunnelInv, Typed

LEMMA TunnelInvStep == TunnelInv /\ [Next]_vars => TunnelInv'
<1>. SUFFICES ASSUME TunnelInv, [Next]_vars PROVE TunnelInv'
  OBVIOUS
<1>1. Typed /\ TunnelTypeOK /\ Routed /\ Slots /\ Connected
  BY DEF TunnelInv, Typed, Routed
<1>2. SUFFICES Typed' /\ Routed' /\ Slots' /\ Connected'
  BY DEF TunnelInv, Typed, Routed
<1>3. ASSUME NEW t \in Tunnels, CloudSteps(t) \/ Dial(t) \/ LoseWire(t)
      PROVE  Typed' /\ Routed' /\ Slots' /\ Connected'
  BY <1>1, <1>3, TypedCloud, RoutedCloud, SlotsRest, ConnectedRest
<1>4. CASE RemoverSteps \/ DeleteDevice
  BY <1>1, <1>4, TypedRemover, RoutedRemover, SlotsRest, ConnectedRest
<1>5. ASSUME NEW t \in Tunnels, AgentSteps(t)
      PROVE  Typed' /\ Routed' /\ Slots' /\ Connected'
  BY <1>1, <1>5, TypedAgent, RoutedAgent, SlotsRest, ConnectedRest DEF relayVars
<1>6. ASSUME NEW s \in Streams,
             \/ RelaySteps(s) \/ ReaderEnds(s) \/ Open(s)
             \/ BrowserTypes(s) \/ BrowserLeaves(s)
      PROVE  Typed' /\ Routed' /\ Slots' /\ Connected'
  BY <1>1, <1>6, TypedRelay, RoutedRelay, SlotsStep, ConnectedRest
<1>7. ASSUME NEW s \in Streams,
             \/ HandlerSteps(s) \/ HandlerFails(s) \/ TerminalWrites(s)
             \/ SessionEnds(s) \/ WatchWrites(s) \/ FeedEnds(s) \/ Stalling(s)
      PROVE  Typed' /\ Routed' /\ Slots' /\ Connected'
  BY <1>1, <1>7, TypedHandler, RoutedRest, SlotsRest, ConnectedRest
     DEF routeVars, relayVars
<1>8. CASE Start \/ Stop \/ (\E g \in 1 .. MaxStarts : RunReturns(g))
  BY <1>1, <1>8, TypedConnector, RoutedRest, SlotsRest, ConnectedStep
     DEF routeVars, relayVars
<1>9. CASE UNCHANGED vars
  <2>1. Typed'
    BY <1>1, <1>9 DEF Typed, TunnelTypeOK, Framed, Kinds, vars, routeVars, wireVars,
                      relayVars, closeVars, outside, runVars, agentVars
  <2>2. Routed' /\ Slots' /\ Connected'
    BY <1>1, <1>9, RoutedRest, SlotsRest, ConnectedRest
       DEF vars, routeVars, closeVars, relayVars, outside, runVars, agentVars, starts
  <2>. QED BY <2>1, <2>2
<1>. QED
  BY <1>3, <1>4, <1>5, <1>6, <1>7, <1>8, <1>9 DEF Next, Environment, ProgramSteps, Stalling

THEOREM TunnelInvariant == Spec => []TunnelInv
<1>. QED BY TunnelInvInit, TunnelInvStep, PTL DEF Spec

-----------------------------------------------------------------------------
(* The results *)

(* Every variable of the tunnel keeps its type, whatever frames are lost.   *)
THEOREM TunnelTypes == Spec => []TunnelTypeOK
<1>1. TunnelInv => TunnelTypeOK
  BY DEF TunnelInv
<1>. QED BY <1>1, TunnelInvariant, PTL

(* The route of the device is a tunnel that is served, for any number of    *)
(* tunnels, registrations and deletions (setRoute, clearRoute).             *)
THEOREM RoutesAreServed == Spec => []RouteIsServed
<1>1. TunnelInv => RouteIsServed
  BY DEF TunnelInv
<1>. QED BY <1>1, TunnelInvariant, PTL

(* A device without tunnels ends up offline: Presence says who of the       *)
(* tunnels and of the deletion still marks it.                              *)
THEOREM OfflineInTheEnd == Spec => []OfflineAtRest
<1>1. TunnelInv => OfflineAtRest
  BY DEF TunnelInv, Presence, RouteIsServed, TunnelTypeOK, OfflineAtRest
<1>. QED BY <1>1, TunnelInvariant, PTL

(* The slots of the attach quota are those of the relays that hold one, for *)
(* every limit and every number of terminals (attachQuota).                 *)
THEOREM SlotsAreKept == Spec => []SlotsAreHeld
<1>1. TunnelInv => SlotsAreHeld
  BY DEF TunnelInv, Slots
<1>. QED BY <1>1, TunnelInvariant, PTL

(* Only the latest start of the connector goes on, for any number of starts  *)
(* and stops: a run that was stopped and returns late neither takes cancel   *)
(* from the next one nor lets a third start beside it (cloudConnectorLifecycle). *)
THEOREM OneConnectorRuns == Spec => []OneConnector
<1>1. TunnelInv => OneConnector
  BY DEF TunnelInv, Connected
<1>. QED BY <1>1, TunnelInvariant, PTL

(* A route goes only with its own tunnel, a deletion or a registration: the *)
(* end of a tunnel that was replaced leaves its successor's route.          *)
THEOREM RoutesAreKept == Spec => ReplacementKeepsRoute
<1>. DEFINE Keeps ==
       owner' # owner /\ owner # NoTunnel =>
          \/ cloud[owner] = "ending" /\ cloud'[owner] = "clearing"
          \/ remover = "deleted" /\ remover' # remover
          \/ owner' # NoTunnel /\ cloud[owner'] = "registered"
<1>1. ASSUME TunnelInv, [Next]_vars PROVE Keeps
  <2>. USE <1>1 DEF TunnelInv, routeVars, TunnelTypeOK
  <2>1. ASSUME NEW t \in Tunnels, CloudSteps(t) \/ Dial(t) \/ LoseWire(t) PROVE Keeps
    <3>1. CASE SetRoute(t)
      BY <3>1, BoundsAssumption DEF SetRoute
    <3>2. CASE ClearRoute(t)
      BY <3>2 DEF ClearRoute, OwnsRoute
    <3>3. CASE CloserSteps(t)
      BY <3>3, TypedCloser DEF Closers, Typed
    <3>4. CASE ~SetRoute(t) /\ ~ClearRoute(t) /\ ~CloserSteps(t)
      BY <2>1, <3>4 DEF CloudSteps, Dial, LoseWire, Register, CloseReplacedConn,
           Acknowledge, CloudReads, CloudNotices, HandlerReturns, LeaveSuperseded,
           MarkOffline
    <3>. QED BY <3>1, <3>2, <3>3, <3>4
  <2>2. CASE RemoverSteps \/ DeleteDevice
    <3>1. CASE CloserSteps(Deletion)
      BY <3>1, TypedCloser DEF Closers, Typed
    <3>. QED
      BY <2>2, <3>1 DEF RemoverSteps, DeleteDevice, TakeOutRoute, CloseRemovedConn,
           MarkRemovedOffline
  <2>3. ASSUME UNCHANGED routeVars PROVE Keeps
    BY <2>3
  <2>4. ASSUME NEW t \in Tunnels, AgentSteps(t) PROVE Keeps
    BY <2>3, <2>4, RoutedAgent DEF Routed
  <2>5. ASSUME NEW s \in Streams,
               \/ RelaySteps(s) \/ ReaderEnds(s) \/ Open(s)
               \/ BrowserTypes(s) \/ BrowserLeaves(s)
        PROVE  Keeps
    BY <2>3, <2>5, RoutedRelay DEF Routed
  <2>6. ASSUME NEW s \in Streams,
               \/ HandlerSteps(s) \/ HandlerFails(s) \/ TerminalWrites(s)
               \/ SessionEnds(s) \/ WatchWrites(s) \/ FeedEnds(s) \/ Stalling(s)
        PROVE  Keeps
    BY <2>3, <2>6, TypedHandler DEF Typed
  <2>7. CASE Start \/ Stop \/ (\E g \in 1 .. MaxStarts : RunReturns(g))
    BY <2>3, <2>7, TypedConnector DEF Typed
  <2>8. CASE UNCHANGED vars
    BY <2>3, <2>8 DEF vars
  <2>. QED
    BY <1>1, <2>1, <2>2, <2>4, <2>5, <2>6, <2>7, <2>8
       DEF Next, Environment, ProgramSteps, Stalling
<1>2. TunnelInv /\ [Next]_vars => [Keeps]_vars
  BY <1>1
<1>3. Spec => [][Keeps]_vars
  BY <1>2, TunnelInvariant, PTL DEF Spec
<1>. QED BY <1>3 DEF ReplacementKeepsRoute
==============================================================================
