-------------------------- MODULE TunnelProperties --------------------------
(* What the two ends of the tunnel promise each other, the browsers and the  *)
(* sessions.                                                                 *)
EXTENDS CloudTunnel

Ended == {"ended", "answered", "failed"}

(* Every variable keeps its type.                                            *)
TunnelTypeOK ==
    /\ owner \in Tunnels \cup {NoTunnel} /\ removed \in Tunnels \cup {NoTunnel}
    /\ online \in BOOLEAN
    /\ cloud \in [Tunnels -> {"idle", "verified", "registered", "replacing",
                              "routed", "serving", "ending", "clearing",
                              "superseded", "gone"}]
    /\ old \in [Tunnels -> Tunnels \cup {NoTunnel}]
    /\ remover \in {"absent", "idle", "deleted", "closing", "marking", "done"}
    /\ wire \in [Tunnels -> {"none", "up", "lost", "closed"}]
    /\ agent \in [Tunnels -> {"idle", "hello", "serving", "closing",
                              "closingWatches", "cancelling", "over"}]
    /\ stage \in [Closers -> {"rest", "terminals", "watches"}]
    /\ taken \in [Closers -> SUBSET Streams] /\ turn \in [Closers -> SUBSET Streams]
    /\ coming \subseteq Events /\ stalled \subseteq Streams /\ stuck \subseteq Streams
    /\ generation \in Nat /\ cancel \in Nat
    /\ running \subseteq 1 .. generation /\ stopped \subseteq 1 .. generation
    /\ dialler \in [Tunnels -> Nat]
    /\ relay \in [Streams -> {"absent", "none", "opening", "added", "waiting",
                              "leaving"} \cup Ended]
    /\ via \in [Streams -> Tunnels \cup {NoTunnel}]
    /\ handler \in [Streams -> {"none", "attaching", "attached", "serving",
                                "writing", "detaching", "subscribing", "subscribed", "added", "feeding",
                                "working", "ended"}]
    /\ known \subseteq Streams /\ browser \subseteq Streams
    /\ reader \subseteq Streams /\ done \subseteq Streams
    /\ answered \subseteq Requests
    /\ terms \subseteq Terminals /\ shut \subseteq Terminals
    /\ watching \subseteq Watches /\ sub \subseteq Watches
    /\ used \in Nat

(* The device's route is a tunnel whose handler still serves it: however     *)
(* registrations, replacements, deletions and ends of tunnels interleave, no *)
(* browser is sent to a tunnel that has taken itself down, and nobody else   *)
(* would ever take it out (setRoute, clearRoute, disconnectDevice).          *)
RouteIsServed ==
    owner # NoTunnel =>
        cloud[owner] \in {"replacing", "routed", "serving", "ending"}

(* When every tunnel of the device has ended and no deletion is under way,   *)
(* the registry says offline: the marks of concurrent connections and        *)
(* removals never leave the device online for good.                          *)
OfflineAtRest ==
    /\ \A t \in Tunnels : cloud[t] \in {"idle", "gone"}
    /\ remover \in {"absent", "idle", "done"}
    => ~online

(* The slots of the attach quota are those of the terminals between          *)
(* TryAcquire and Release, on every path that returns, and never more than   *)
(* the limit.                                                                *)
SlotsAreHeld ==
    /\ used = Cardinality({s \in Terminals :
                 relay[s] \in {"opening", "added", "waiting", "leaving"}})
    /\ used <= Limit

(* The end of a tunnel that was replaced leaves the new route alone: a route *)
(* goes away only through its own handler or a deletion, and is replaced     *)
(* only by a tunnel that registers.                                          *)
ReplacementKeepsRoute ==
    [][owner' # owner /\ owner # NoTunnel =>
          \/ cloud[owner] = "ending" /\ cloud'[owner] = "clearing"
          \/ remover = "deleted" /\ remover' # remover
          \/ owner' # NoTunnel /\ cloud[owner'] = "registered"]_vars

\* closer c waits for a browser that does not read
HeldUp(c) == \E s \in turn[c] : Stalls(s)

\* a call of the handler of s into its session waits for the PTY
SessionHolds(s) == s \in stuck /\ handler[s] \in InSession

(* The Cloud tells every browser and every caller of a tunnel that has       *)
(* ended: a relay that took the route before it was replaced, removed or     *)
(* lost does not stay, not even one that registers on the route only         *)
(* afterwards, nor a request whose answer was under way.  Only one that      *)
(* somebody else took out of the route's map may wait: while that closer     *)
(* writes to a browser that does not read (closeTerminals, no deadline).     *)
RelaysEndWithTunnel ==
    []<>(\A s \in Streams :
            via[s] # NoTunnel /\ cloud[via[s]] = "gone"
            => \/ relay[s] \in Ended
               \/ \E c \in Closers : Closes(c, via[s]) /\ HeldUp(c))

(* The Agent lets go of every session and subscription of a tunnel that has  *)
(* ended, also of one whose handler was still attaching when the connection  *)
(* closed its streams, and whatever frames were lost.  Only a handler that   *)
(* is inside a call into its session stays, while the PTY takes no input.    *)
StreamsEndWithTunnel ==
    []<>(\A s \in Streams :
            via[s] # NoTunnel /\ agent[via[s]] = "over"
            => (handler[s] \in {"none", "ended"} \/ SessionHolds(s)) /\ s \notin sub)

(* Only the latest start of the connector can go on: what was started before *)
(* is cancelled, and so is everything once the user has disconnected, also   *)
(* when the run that was stopped returns after the next one was started.     *)
OneConnector == running \ stopped \subseteq {cancel}

(* A user who disconnects the Agent, and leaves it at that, sees the device  *)
(* offline in the end, and no session or subscription of it is held for a    *)
(* browser: whatever the Agent and the Cloud were doing with its tunnels,    *)
(* and however soon before it had been connected again.  A browser that does *)
(* not read may hold up the former, a PTY that takes no input the latter.    *)
DisconnectEnds ==
    []<>(\/ cancel # 0
         \/ /\ (~online /\ owner = NoTunnel) \/ \E c \in Closers : HeldUp(c)
            /\ \A s \in Streams :
                  (handler[s] \in {"none", "ended"} \/ SessionHolds(s)) /\ s \notin sub)

(* route.go, browserRelayWriteTimeout: "a stalled browser tab cannot block   *)
(* the single-threaded agent tunnel demux".  setRoute closes the terminals   *)
(* of the route it replaces with writes that have no deadline, before the    *)
(* new tunnel is acknowledged and read.                                      *)
StalledTabBlocksNoTunnel ==
    \A t \in Tunnels : cloud[t] = "replacing" ~> cloud[t] # "replacing"

(* docs/design/cloud-client-communication.md: file events of the Agent are   *)
(* passed on along the stream, and the browser resubscribes when the stream  *)
(* ends.  A subscription the manager ended (full queue, renamed directory)   *)
(* ends on the Agent without a frame: the browser's socket stays open and    *)
(* silent.                                                                   *)
FeedEndIsTold ==
    \A s \in Watches : handler[s] = "ended" ~> relay[s] \in Ended
==============================================================================
