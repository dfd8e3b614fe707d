-------------------------- MODULE WatchProperties --------------------------
(* What the feeds of workspace changes promise.                              *)
EXTENDS WorkspaceWatch

(* Every variable keeps its type, and no channel holds more than its size.   *)
WatchTypeOK ==
  /\ table \in Roots \cup {NoRoot} /\ stopped \in BOOLEAN
  /\ doomed \subseteq Roots /\ watcher \subseteq Roots
  /\ hangups \subseteq Roots /\ removals \subseteq Roots
  /\ root \in [Roots -> {"unborn", "open", "closed"}]
  /\ loop \in [Roots -> {"none", "select", "returning", "returned"}]
  /\ members \in [Roots -> SUBSET Subscribers]
  /\ sequence \in [Roots -> Nat]
  /\ call \in [Subscribers -> {"out", "looking", "found", "joined", "left",
                               "refused"}]
  /\ at \in [Subscribers -> Roots \cup {NoRoot}]
  /\ queue \in [Subscribers -> Seq([number : Nat, rescan : BOOLEAN])]
  /\ \A s \in Subscribers : Len(queue[s]) <= QueueSize
  /\ seen \in [Subscribers -> Nat] /\ told \subseteq Subscribers
  /\ finished \subseteq Subscribers

(* An incarnation that is open is the one of the table, or is about to be    *)
(* closed by Manager.Close: there are never two watchers feeding subscribers *)
(* of one workspace, and none that Close would not find, whichever of the    *)
(* last subscriber, the loop and a new Subscribe comes first.                *)
OpenRootIsKnown ==
  \A r \in Roots : root[r] = "open" => table = r \/ r \in doomed

(* A subscriber holds a feed of an incarnation that is open, or its channel  *)
(* is closed: nobody waits on a channel that nobody closes.                  *)
FeedIsServed ==
  \A s \in Subscribers : call[s] \in {"joined", "left"} /\ s \notin finished =>
     call[s] = "joined" /\ root[at[s]] = "open" /\ s \in members[at[s]]

(* The queued events follow what was received, and a rescan is the last.     *)
InSequence(s) ==
  \A i \in 1 .. Len(queue[s]) :
     IF queue[s][i].rescan THEN i = Len(queue[s])
     ELSE queue[s][i].number = seen[s] + i

RescanQueued(s) == queue[s] # <<>> /\ queue[s][Len(queue[s])].rescan

(* What a subscriber receives and has queued are the changes since it        *)
(* joined, in sequence without a gap; if one was left out, the last event is *)
(* the rescan and the feed ends with it.  Only Manager.Close and the         *)
(* subscriber itself end a feed without one.                                 *)
NoSilentGap ==
  \A s \in Subscribers : call[s] = "joined" =>
    /\ InSequence(s)
    /\ s \notin finished =>
          /\ seen[s] + Len(queue[s]) = sequence[at[s]]
          /\ s \notin told /\ ~RescanQueued(s)
    /\ s \in finished /\ ~stopped => s \in told \/ RescanQueued(s)
    /\ s \in told => queue[s] = <<>>

(* An incarnation that closed lets go of its watcher and of the table: no    *)
(* watcher of the operating system is left behind.                           *)
ClosedRootsGo ==
  []<>(\A r \in Roots : root[r] = "closed" => r \notin watcher /\ table # r)

(* Subscribe returns: it does not go round the table for ever with a root    *)
(* that is on its way out (unless the bound of incarnations is reached).     *)
SubscribeReturns ==
  []<>(\A s \in Subscribers :
         call[s] \in {"looking", "found"} => \A r \in Roots : root[r] # "unborn")

(* The feeds as ChangeFeed promises them.                                    *)
statusOf == [s \in Subscribers |->
   IF call[s] \notin {"joined", "left"} THEN "out"
   ELSE IF s \notin finished THEN "live"
   ELSE IF RescanQueued(s) THEN "rescan" ELSE "over"]
pendingOf == [s \in Subscribers |-> IF RescanQueued(s) THEN 0 ELSE Len(queue[s])]

Promise == INSTANCE ChangeFeed WITH status <- statusOf, pending <- pendingOf

(* The manager implements ChangeFeed: joins, changes, overflows, receives    *)
(* and leaves map to its actions, everything of tables and watchers is       *)
(* invisible.                                                                *)
ImplementsFeed == Promise!FeedSpec
==============================================================================
