----------------------------- MODULE WatchProofs -----------------------------
(***************************************************************************)
(* The feeds of a workspace, for any number of subscribers, incarnations   *)
(* and changes and any size of a channel: types, one open incarnation, no  *)
(* feed that nobody closes, no silent gap, and the promise of ChangeFeed.  *)
(*                                                                         *)
(* Incarnations says who may close one and that it is known until then;    *)
(* Membership that members, channels and subscribers agree; Gapless is     *)
(* NoSilentGap with what makes it inductive: a rescan is alone in its      *)
(* channel, since RescanAndClose empties the queues first.                 *)
(***************************************************************************)
EXTENDS WatchProperties, TLAPS, SequenceTheorems

Events == [number : Nat, rescan : BOOLEAN]

\* An incarnation that is open is known to the table, or to Manager.Close, which knows
\* one at most; what takes one out of the table acts on a closed one.
Incarnations ==
  /\ \A r \in Roots :
        /\ root[r] = "unborn" => loop[r] = "none"
        /\ loop[r] = "returning" \/ r \in removals => root[r] = "closed"
        /\ table = r \/ r \in doomed => root[r] # "unborn"
        /\ root[r] = "open" => table = r \/ r \in doomed
  /\ \A s \in Subscribers : call[s] = "found" => at[s] \in Roots /\ root[at[s]] # "unborn"
  /\ stopped => table = NoRoot
  /\ ~stopped => doomed = {}
  /\ \A q, r \in doomed : q = r

\* The members of an incarnation are those that joined it and have an open channel.
Membership ==
  /\ \A r \in Roots : \A s \in Subscribers :
        s \in members[r] <=> call[s] = "joined" /\ at[s] = r /\ s \notin finished
  /\ \A r \in Roots : members[r] # {} => root[r] = "open"
  /\ \A s \in Subscribers :
        /\ call[s] = "joined" => at[s] \in Roots
        /\ call[s] = "left" => s \in finished
        /\ s \in finished => call[s] \in {"joined", "left"}
        /\ call[s] # "joined" => queue[s] = <<>> /\ s \notin told

\* What NoSilentGap says of a subscriber that joined.
Follows(s) ==
  /\ InSequence(s)
  /\ s \notin finished =>
        /\ seen[s] + Len(queue[s]) = sequence[at[s]]
        /\ s \notin told /\ ~RescanQueued(s)
  /\ s \in finished /\ ~stopped => s \in told \/ RescanQueued(s)
  /\ s \in told => queue[s] = <<>>

Gapless ==
  \A s \in Subscribers : call[s] = "joined" =>
     Follows(s) /\ (RescanQueued(s) => Len(queue[s]) = 1)

\* The inductive invariant.
WatchInv == WatchTypeOK /\ Incarnations /\ Membership /\ Gapless

-----------------------------------------------------------------------------
(* Channels *)

\* A channel with one rescan.
LEMMA RescanAlone ==
  ASSUME NEW n \in Nat
  PROVE  /\ <<Event(n, TRUE)>> \in Seq(Events)
         /\ Len(<<Event(n, TRUE)>>) = 1
         /\ <<Event(n, TRUE)>>[1].rescan
BY DEF Event, Events

\* A change at the end of a channel.
LEMMA ChangeQueued ==
  ASSUME NEW q \in Seq(Events), NEW n \in Nat
  PROVE  /\ Append(q, Event(n, FALSE)) \in Seq(Events)
         /\ Len(Append(q, Event(n, FALSE))) = Len(q) + 1
         /\ \A i \in 1 .. Len(q) : Append(q, Event(n, FALSE))[i] = q[i]
         /\ Append(q, Event(n, FALSE))[Len(q) + 1].number = n
         /\ ~Append(q, Event(n, FALSE))[Len(q) + 1].rescan
<1>1. Event(n, FALSE) \in Events /\ Event(n, FALSE).number = n /\ ~Event(n, FALSE).rescan
  BY DEF Event, Events
<1>2. \A e \in Events :
        /\ Append(q, e) \in Seq(Events) /\ Len(Append(q, e)) = Len(q) + 1
        /\ \A i \in 1 .. Len(q) : Append(q, e)[i] = q[i]
        /\ Append(q, e)[Len(q) + 1] = e
  BY AppendProperties
<1>. QED BY <1>1, <1>2, Zenon

-----------------------------------------------------------------------------
(* Types *)

LEMMA TypesInit == WatchInit => WatchTypeOK
<1>. SUFFICES ASSUME WatchInit PROVE WatchTypeOK
  OBVIOUS
<1>1. \A s \in Subscribers : queue[s] = <<>> /\ Len(queue[s]) <= QueueSize
  BY WatchAssumption, EmptySeq DEF WatchInit
<1>2. queue \in [Subscribers -> Seq([number : Nat, rescan : BOOLEAN])]
  BY EmptySeq DEF WatchInit
<1>. QED BY <1>1, <1>2 DEF WatchInit, WatchTypeOK

LEMMA TypesSubscribe ==
  ASSUME WatchTypeOK, Incarnations, NEW s \in Subscribers, SubscribeSteps(s)
  PROVE  WatchTypeOK'
<1>. USE DEF WatchTypeOK, managerVars, rootVars, feedVars
<1>1. CASE Find(s)
  BY <1>1 DEF Find
<1>2. CASE Start(s)
  BY <1>2 DEF Start
<1>3. CASE SubscribeFails(s) \/ JoinCancelled(s)
  BY <1>3 DEF SubscribeFails, JoinCancelled, Refuse
<1>4. CASE Join(s)
  <2>1. at[s] \in Roots
    BY <1>4 DEF Join, Incarnations
  <2>2. CASE root[at[s]] = "open"
    <3>1. members[at[s]] \cup {s} \in SUBSET Subscribers
      BY <2>1
    <3>2. members' = [members EXCEPT ![at[s]] = members[at[s]] \cup {s}]
      BY <1>4, <2>2 DEF Join
    <3>3. members' \in [Roots -> SUBSET Subscribers]
      BY <3>1, <3>2
    <3>4. seen' = [seen EXCEPT ![s] = sequence[at[s]]] /\ sequence[at[s]] \in Nat
      BY <1>4, <2>1, <2>2 DEF Join
    <3>5. seen' \in [Subscribers -> Nat]
      BY <3>4
    <3>. QED BY <1>4, <2>2, <3>3, <3>5 DEF Join
  <2>3. CASE root[at[s]] # "open"
    BY <1>4, <2>3 DEF Join
  <2>. QED BY <2>2, <2>3
<1>. QED BY <1>1, <1>2, <1>3, <1>4 DEF SubscribeSteps

\* Every feed ends with a rescan.
LEMMA TypesRescan ==
  ASSUME WatchTypeOK, NEW r \in Roots, NEW n \in Nat, RescanAndClose(r, n)
  PROVE  /\ sequence' \in [Roots -> Nat]
         /\ queue' \in [Subscribers -> Seq(Events)]
         /\ \A s \in Subscribers : Len(queue'[s]) <= QueueSize
         /\ finished' \subseteq Subscribers /\ members' \in [Roots -> SUBSET Subscribers]
         /\ root' \in [Roots -> {"unborn", "open", "closed"}]
         /\ hangups' \subseteq Roots /\ removals' \subseteq Roots
<1>. USE DEF WatchTypeOK, Events
<1>1. \A s \in Subscribers : queue'[s] \in Seq(Events) /\ Len(queue'[s]) <= QueueSize
  <2>. SUFFICES ASSUME NEW s \in Subscribers
                PROVE  queue'[s] \in Seq(Events) /\ Len(queue'[s]) <= QueueSize
    OBVIOUS
  <2>1. CASE s \in members[r]
    <3>1. queue'[s] = <<Event(n, TRUE)>>
      BY <2>1 DEF RescanAndClose
    <3>2. queue'[s] \in Seq(Events) /\ Len(queue'[s]) = 1
      BY <3>1, RescanAlone, Zenon
    <3>. QED BY <3>2, WatchAssumption
  <2>2. CASE s \notin members[r]
    BY <2>2 DEF RescanAndClose
  <2>. QED BY <2>1, <2>2
<1>2. queue' \in [Subscribers -> Seq(Events)]
  BY <1>1 DEF RescanAndClose
<1>. QED BY <1>1, <1>2 DEF RescanAndClose, TearDown

LEMMA TypesLoop ==
  ASSUME WatchTypeOK, NEW r \in Roots, LoopSteps(r)
  PROVE  WatchTypeOK'
<1>. USE DEF WatchTypeOK, managerVars, rootVars, feedVars
<1>1. CASE Publish(r)
  <2>1. \A s \in Subscribers : queue'[s] \in Seq(Events) /\ Len(queue'[s]) <= QueueSize
    <3>. SUFFICES ASSUME NEW s \in Subscribers
                  PROVE  queue'[s] \in Seq(Events) /\ Len(queue'[s]) <= QueueSize
      OBVIOUS
    <3>1. CASE s \in members[r] /\ HasRoom(s)
      <4>1. queue'[s] = Append(queue[s], Event(sequence[r] + 1, FALSE))
        BY <1>1, <3>1 DEF Publish
      <4>2. queue[s] \in Seq(Events) /\ sequence[r] + 1 \in Nat /\ Len(queue[s]) \in Nat
        BY LenProperties DEF Events
      <4>3. /\ Append(queue[s], Event(sequence[r] + 1, FALSE)) \in Seq(Events)
            /\ Len(Append(queue[s], Event(sequence[r] + 1, FALSE))) = Len(queue[s]) + 1
        <5>. HIDE DEF WatchTypeOK
        <5>. QED BY <4>2, ChangeQueued
      <4>4. queue'[s] \in Seq(Events) /\ Len(queue'[s]) = Len(queue[s]) + 1
        BY <4>1, <4>3, Zenon
      <4>. QED BY <3>1, <4>2, <4>4, WatchAssumption DEF HasRoom
    <3>2. CASE ~(s \in members[r] /\ HasRoom(s))
      BY <1>1, <3>2 DEF Publish, Events
    <3>. QED BY <3>1, <3>2
  <2>2. queue' \in [Subscribers -> Seq(Events)]
    BY <1>1, <2>1 DEF Publish
  <2>3. sequence' \in [Roots -> Nat]
    BY <1>1 DEF Publish
  <2>. QED BY <1>1, <2>1, <2>2, <2>3 DEF Publish, Events
<1>2. CASE Overflow(r)
  <2>1. seen' \in [Subscribers -> Nat]
    BY <1>2 DEF Overflow
  <2>2. sequence[r] + 2 \in Nat
    OBVIOUS
  <2>. QED BY <1>2, <2>1, <2>2, TypesRescan DEF Overflow, Events
<1>3. CASE Rescan(r)
  <2>1. sequence[r] + 1 \in Nat
    OBVIOUS
  <2>. QED BY <1>3, <2>1, TypesRescan DEF Rescan, Events
<1>4. CASE WatcherEnds(r)
  <2>1. sequence[r] + 1 \in Nat
    OBVIOUS
  <2>2. CASE root[r] = "open"
    BY <1>4, <2>1, <2>2, TypesRescan DEF WatcherEnds, Events
  <2>3. CASE root[r] # "open"
    BY <1>4, <2>3 DEF WatcherEnds
  <2>. QED BY <2>2, <2>3
<1>5. CASE LoopCancelled(r)
  BY <1>5 DEF LoopCancelled, CloseRoot
<1>6. CASE LoopReturns(r)
  BY <1>6 DEF LoopReturns
<1>. QED BY <1>1, <1>2, <1>3, <1>4, <1>5, <1>6 DEF LoopSteps

LEMMA TypesFeed ==
  ASSUME WatchTypeOK, Membership, NEW s \in Subscribers, Receive(s) \/ Leave(s)
  PROVE  WatchTypeOK'
<1>. USE DEF WatchTypeOK, managerVars, rootVars, feedVars
<1>1. CASE Receive(s)
  <2>1. /\ Head(queue[s]) \in Events /\ Tail(queue[s]) \in Seq(Events)
        /\ Len(Tail(queue[s])) = Len(queue[s]) - 1
    BY <1>1, HeadTailProperties DEF Receive, Events
  <2>. QED BY <1>1, <2>1, WatchAssumption DEF Receive, Events
<1>2. CASE Leave(s)
  <2>1. queue' \in [Subscribers -> Seq(Events)]
        /\ \A u \in Subscribers : Len(queue'[u]) <= QueueSize
    BY <1>2, EmptySeq, WatchAssumption DEF Leave, Events
  <2>2. /\ members' \in [Roots -> SUBSET Subscribers] /\ finished' \subseteq Subscribers
        /\ root' \in [Roots -> {"unborn", "open", "closed"}]
    <3>1. at[s] \in Roots
      BY <1>2 DEF Leave, Membership
    <3>2. CASE s \in members[at[s]]
      <4>1. members[at[s]] \ {s} \in SUBSET Subscribers
        BY <3>1
      <4>2. members' = [members EXCEPT ![at[s]] = members[at[s]] \ {s}]
        BY <1>2, <3>2 DEF Leave
      <4>3. members' \in [Roots -> SUBSET Subscribers]
        BY <4>1, <4>2
      <4>4. finished' \subseteq Subscribers
        BY <1>2 DEF Leave
      <4>5. root' \in [Roots -> {"unborn", "open", "closed"}]
        BY <1>2 DEF Leave
      <4>. QED BY <4>3, <4>4, <4>5
    <3>3. CASE s \notin members[at[s]]
      BY <1>2, <3>3 DEF Leave
    <3>. QED BY <3>2, <3>3
  <2>3. hangups' \subseteq Roots /\ removals' \subseteq Roots
    BY <1>2 DEF Leave, TearDown, Membership
  <2>4. /\ call' \in [Subscribers -> {"out", "looking", "found", "joined", "left", "refused"}]
        /\ at' \in [Subscribers -> Roots \cup {NoRoot}]
        /\ seen' \in [Subscribers -> Nat] /\ told' \subseteq Subscribers
    BY <1>2 DEF Leave
  <2>. QED BY <1>2, <2>1, <2>2, <2>3, <2>4 DEF Leave, Events
<1>. QED BY <1>1, <1>2

LEMMA TypesTeardown ==
  ASSUME WatchTypeOK,
         Stop \/ \E r \in Roots : HangUp(r) \/ RemoveRoot(r) \/ StopRoot(r)
  PROVE  WatchTypeOK'
<1>. USE DEF WatchTypeOK, managerVars, rootVars, feedVars
<1>1. CASE Stop
  BY <1>1 DEF Stop
<1>2. ASSUME NEW r \in Roots, HangUp(r) PROVE WatchTypeOK'
  BY <1>2 DEF HangUp
<1>3. ASSUME NEW r \in Roots, RemoveRoot(r) PROVE WatchTypeOK'
  BY <1>3 DEF RemoveRoot
<1>4. ASSUME NEW r \in Roots, StopRoot(r) PROVE WatchTypeOK'
  BY <1>4 DEF StopRoot, CloseRoot
<1>. QED BY <1>1, <1>2, <1>3, <1>4

LEMMA TypesStep == WatchInv /\ [WatchNext]_watchVars => WatchTypeOK'
<1>. SUFFICES ASSUME WatchInv, [WatchNext]_watchVars PROVE WatchTypeOK'
  OBVIOUS
<1>. USE DEF WatchInv
<1>1. CASE UNCHANGED watchVars
  BY <1>1 DEF WatchTypeOK, watchVars, managerVars, rootVars, feedVars
<1>. QED
  BY <1>1, TypesSubscribe, TypesLoop, TypesFeed, TypesTeardown DEF WatchNext

-----------------------------------------------------------------------------
(* Incarnations *)

\* Who closes an incarnation that is known, before or after taking it out of the table.
LEMMA IncarnationCloses ==
  ASSUME WatchTypeOK, Incarnations, NEW r \in Roots, root[r] = "open",
         root' = [root EXCEPT ![r] = "closed"], TearDown(r),
         UNCHANGED <<table, stopped, doomed, at>>,
         \A q \in Roots : loop'[q] = loop[q] \/ (q = r /\ loop'[q] = "returning"),
         \A s \in Subscribers : call'[s] = "found" => call[s] = "found"
  PROVE  Incarnations'
BY DEF Incarnations, WatchTypeOK, TearDown

LEMMA IncarnationsSubscribe ==
  ASSUME WatchTypeOK, Incarnations, NEW s \in Subscribers, SubscribeSteps(s)
  PROVE  Incarnations'
<1>. USE DEF WatchTypeOK, Incarnations, managerVars, rootVars, feedVars
<1>1. CASE Find(s)
  BY <1>1 DEF Find
<1>2. CASE Start(s)
  BY <1>2, WatchAssumption DEF Start
<1>3. CASE SubscribeFails(s) \/ JoinCancelled(s)
  <2>1. Refuse(s)
    BY <1>3 DEF SubscribeFails, JoinCancelled
  <2>2. \A u \in Subscribers : call'[u] = "found" => call[u] = "found" /\ at'[u] = at[u]
    BY <2>1 DEF Refuse
  <2>. QED BY <2>1, <2>2 DEF Refuse
<1>4. CASE Join(s)
  BY <1>4 DEF Join
<1>. QED BY <1>1, <1>2, <1>3, <1>4 DEF SubscribeSteps

LEMMA IncarnationsLoop ==
  ASSUME WatchTypeOK, Incarnations, NEW r \in Roots, LoopSteps(r)
  PROVE  Incarnations'
<1>. USE DEF WatchTypeOK, managerVars, rootVars, feedVars
<1>1. CASE Publish(r)
  BY <1>1 DEF Publish, Incarnations
<1>2. CASE Overflow(r)
  BY <1>2, IncarnationCloses DEF Overflow, RescanAndClose
<1>3. CASE Rescan(r)
  BY <1>3, IncarnationCloses DEF Rescan, RescanAndClose
<1>4. CASE WatcherEnds(r)
  <2>1. CASE root[r] = "open"
    BY <1>4, <2>1, IncarnationCloses DEF WatcherEnds, RescanAndClose
  <2>2. CASE root[r] # "open"
    BY <1>4, <2>2 DEF WatcherEnds, Incarnations
  <2>. QED BY <2>1, <2>2
<1>5. CASE LoopCancelled(r)
  BY <1>5 DEF LoopCancelled, CloseRoot, Incarnations
<1>6. CASE LoopReturns(r)
  BY <1>6, WatchAssumption DEF LoopReturns, OwnEntry, Incarnations
<1>. QED BY <1>1, <1>2, <1>3, <1>4, <1>5, <1>6 DEF LoopSteps

LEMMA IncarnationsFeed ==
  ASSUME WatchTypeOK, Incarnations, Membership, NEW s \in Subscribers,
         Receive(s) \/ Leave(s)
  PROVE  Incarnations'
<1>. USE DEF WatchTypeOK, managerVars, rootVars, feedVars
<1>1. CASE Receive(s)
  BY <1>1 DEF Receive, Incarnations
<1>2. CASE Leave(s)
  <2>1. at[s] \in Roots /\ (s \in members[at[s]] => root[at[s]] = "open")
    BY <1>2 DEF Leave, Membership
  <2>2. CASE members[at[s]] = {s}
    <3>1. root' = [root EXCEPT ![at[s]] = "closed"] /\ TearDown(at[s])
      BY <1>2, <2>2 DEF Leave
    <3>2. \A u \in Subscribers : call'[u] = "found" => call[u] = "found" /\ at'[u] = at[u]
      BY <1>2 DEF Leave
    <3>. QED BY <1>2, <2>1, <2>2, <3>1, <3>2 DEF Leave, TearDown, Incarnations
  <2>3. CASE members[at[s]] # {s}
    <3>1. UNCHANGED <<root, removals>>
      BY <1>2, <2>3 DEF Leave
    <3>. QED BY <1>2, <3>1 DEF Leave, Incarnations
  <2>. QED BY <2>2, <2>3
<1>. QED BY <1>1, <1>2

LEMMA IncarnationsTeardown ==
  ASSUME WatchTypeOK, Incarnations,
         Stop \/ \E r \in Roots : HangUp(r) \/ RemoveRoot(r) \/ StopRoot(r)
  PROVE  Incarnations'
<1>. USE DEF WatchTypeOK, Incarnations, managerVars, rootVars, feedVars
<1>1. CASE Stop
  BY <1>1, WatchAssumption DEF Stop
<1>2. ASSUME NEW r \in Roots, HangUp(r) PROVE Incarnations'
  BY <1>2 DEF HangUp
<1>3. ASSUME NEW r \in Roots, RemoveRoot(r) PROVE Incarnations'
  BY <1>3, WatchAssumption DEF RemoveRoot, OwnEntry
<1>4. ASSUME NEW r \in Roots, StopRoot(r) PROVE Incarnations'
  BY <1>4 DEF StopRoot, CloseRoot
<1>. QED BY <1>1, <1>2, <1>3, <1>4

-----------------------------------------------------------------------------
(* Members, channels and subscribers *)

\* Whoever closes an incarnation closes the channels of its members.
LEMMA MembersEnd ==
  ASSUME WatchTypeOK, Membership, NEW r \in Roots,
         finished' = finished \cup members[r],
         members' = [members EXCEPT ![r] = {}], root' = [root EXCEPT ![r] = "closed"],
         \A s \in Subscribers : s \notin members[r] => queue'[s] = queue[s],
         UNCHANGED <<call, at, told>>
  PROVE  Membership'
BY DEF Membership, WatchTypeOK

LEMMA MembershipSubscribe ==
  ASSUME WatchTypeOK, Incarnations, Membership, NEW s \in Subscribers, SubscribeSteps(s)
  PROVE  Membership'
<1>. USE DEF WatchTypeOK, managerVars, rootVars, feedVars
<1>1. CASE Find(s)
  BY <1>1 DEF Find, Membership
<1>2. CASE Start(s)
  BY <1>2 DEF Start, Membership
<1>3. CASE SubscribeFails(s) \/ JoinCancelled(s)
  <2>1. Refuse(s) /\ call[s] \in {"out", "looking"}
    BY <1>3 DEF SubscribeFails, JoinCancelled
  <2>. QED BY <2>1 DEF Refuse, Membership
<1>4. CASE Join(s)
  <2>1. CASE root[at[s]] = "open"
    <3>1. at[s] \in Roots /\ call[s] = "found" /\ s \notin finished
      BY <1>4 DEF Join, Incarnations, Membership
    <3>2. \A r \in Roots : members'[r] = IF r = at[s] THEN members[r] \cup {s} ELSE members[r]
      BY <1>4, <2>1, <3>1 DEF Join
    <3>3. \A u \in Subscribers : call'[u] = IF u = s THEN "joined" ELSE call[u]
      BY <1>4, <2>1 DEF Join
    <3>4. UNCHANGED <<at, finished, root, queue, told>>
      BY <1>4 DEF Join
    <3>5. \A r \in Roots, u \in Subscribers :
             u \in members'[r] <=> call'[u] = "joined" /\ at'[u] = r /\ u \notin finished'
      <4>. TAKE r \in Roots, u \in Subscribers
      <4>1. u \in members[r] <=> call[u] = "joined" /\ at[u] = r /\ u \notin finished
        BY DEF Membership
      <4>2. CASE u = s
        BY <3>1, <3>2, <3>3, <3>4, <4>1, <4>2
      <4>3. CASE u # s
        <5>1. call'[u] = call[u] /\ (u \in members'[r] <=> u \in members[r])
          <6>1. call'[u] = call[u]
            BY <3>3, <4>3
          <6>2. CASE r = at[s]
            <7>1. members'[r] = members[r] \cup {s}
              BY <3>2, <6>2
            <7>. QED BY <4>3, <6>1, <7>1
          <6>3. CASE r # at[s]
            <7>1. members'[r] = members[r]
              BY <3>2, <6>3
            <7>. QED BY <6>1, <7>1
          <6>. QED BY <6>2, <6>3
        <5>. QED BY <3>4, <4>1, <5>1
      <4>. QED BY <4>2, <4>3
    <3>6. \A r \in Roots : members'[r] # {} => root'[r] = "open"
      BY <2>1, <3>2, <3>4 DEF Membership
    <3>. QED BY <3>1, <3>3, <3>4, <3>5, <3>6 DEF Membership
  <2>2. CASE root[at[s]] # "open"
    BY <1>4, <2>2 DEF Join, Membership
  <2>. QED BY <2>1, <2>2
<1>. QED BY <1>1, <1>2, <1>3, <1>4 DEF SubscribeSteps

LEMMA MembershipLoop ==
  ASSUME WatchTypeOK, Membership, NEW r \in Roots, LoopSteps(r)
  PROVE  Membership'
<1>. USE DEF WatchTypeOK, managerVars, rootVars, feedVars
<1>1. CASE Publish(r)
  <2>1. \A s \in Subscribers : s \notin members[r] => queue'[s] = queue[s]
    BY <1>1 DEF Publish
  <2>. QED BY <1>1, <2>1 DEF Publish, Membership
<1>2. CASE Overflow(r)
  BY <1>2, MembersEnd DEF Overflow, RescanAndClose
<1>3. CASE Rescan(r)
  BY <1>3, MembersEnd DEF Rescan, RescanAndClose
<1>4. CASE WatcherEnds(r)
  <2>1. CASE root[r] = "open"
    <3>1. RescanAndClose(r, sequence[r] + 1) /\ UNCHANGED <<call, at, told>>
      BY <1>4, <2>1 DEF WatcherEnds
    <3>. QED BY <3>1, MembersEnd DEF RescanAndClose
  <2>2. CASE root[r] # "open"
    BY <1>4, <2>2 DEF WatcherEnds, Membership
  <2>. QED BY <2>1, <2>2
<1>5. CASE LoopCancelled(r)
  BY <1>5, MembersEnd DEF LoopCancelled, CloseRoot
<1>6. CASE LoopReturns(r)
  BY <1>6 DEF LoopReturns, Membership
<1>. QED BY <1>1, <1>2, <1>3, <1>4, <1>5, <1>6 DEF LoopSteps

LEMMA MembershipFeed ==
  ASSUME WatchTypeOK, Membership, NEW s \in Subscribers, Receive(s) \/ Leave(s)
  PROVE  Membership'
<1>. USE DEF WatchTypeOK, managerVars, rootVars, feedVars
<1>1. CASE Receive(s)
  BY <1>1 DEF Receive, Membership
<1>2. CASE Leave(s)
  <2>1. at[s] \in Roots
    BY <1>2 DEF Leave, Membership
  <2>2. CASE s \in members[at[s]]
    <3>1. /\ members' = [members EXCEPT ![at[s]] = @ \ {s}]
          /\ finished' = finished \cup {s}
          /\ root' = root \/ (members[at[s]] = {s} /\ root' = [root EXCEPT ![at[s]] = "closed"])
      BY <1>2, <2>2 DEF Leave
    <3>. QED BY <1>2, <2>1, <2>2, <3>1 DEF Leave, Membership
  <2>3. CASE s \notin members[at[s]]
    <3>1. UNCHANGED <<members, finished, root>> /\ s \in finished
      BY <1>2, <2>1, <2>3 DEF Leave, Membership
    <3>. QED BY <1>2, <2>1, <2>3, <3>1 DEF Leave, Membership
  <2>. QED BY <2>2, <2>3
<1>. QED BY <1>1, <1>2

LEMMA MembershipTeardown ==
  ASSUME WatchTypeOK, Membership,
         Stop \/ \E r \in Roots : HangUp(r) \/ RemoveRoot(r) \/ StopRoot(r)
  PROVE  Membership'
<1>. USE DEF WatchTypeOK, managerVars, rootVars, feedVars
<1>1. CASE Stop
  BY <1>1 DEF Stop, Membership
<1>2. ASSUME NEW r \in Roots, HangUp(r) PROVE Membership'
  BY <1>2 DEF HangUp, Membership
<1>3. ASSUME NEW r \in Roots, RemoveRoot(r) PROVE Membership'
  BY <1>3 DEF RemoveRoot, Membership
<1>4. ASSUME NEW r \in Roots, StopRoot(r) PROVE Membership'
  BY <1>4, MembersEnd DEF StopRoot, CloseRoot
<1>. QED BY <1>1, <1>2, <1>3, <1>4

-----------------------------------------------------------------------------
(* No silent gap *)

\* Says of s all that Gapless says of it.
Gap(s) ==
  call[s] = "joined" => Follows(s) /\ (RescanQueued(s) => Len(queue[s]) = 1)

\* A subscriber that nothing happens to; the Agent may stop when its feed ended.
LEMMA GapRests ==
  ASSUME WatchTypeOK, NEW s \in Subscribers, Gap(s),
         call'[s] = call[s], queue'[s] = queue[s], seen'[s] = seen[s],
         s \in told' <=> s \in told, s \in finished' <=> s \in finished,
         at'[s] = at[s],
         call[s] = "joined" /\ s \notin finished => sequence'[at[s]] = sequence[at[s]],
         stopped => stopped'
  PROVE  Gap(s)'
BY DEF Gap, Follows, InSequence, RescanQueued, WatchTypeOK

\* A subscriber whose feed ends with a rescan.
LEMMA GapRescan ==
  ASSUME NEW s \in Subscribers, NEW n \in Nat,
         Gap(s), call[s] = "joined", s \notin finished,
         queue'[s] = <<Event(n, TRUE)>>, s \in finished', s \notin told'
  PROVE  Gap(s)'
BY DEF Gap, Follows, InSequence, RescanQueued, Event

\* A subscriber whose channel the stopping manager closes.
LEMMA GapStops ==
  ASSUME NEW s \in Subscribers, Gap(s), call[s] = "joined", s \notin finished,
         stopped', s \in finished', call'[s] = call[s],
         UNCHANGED <<queue, seen, told>>
  PROVE  Gap(s)'
BY DEF Gap, Follows, InSequence, RescanQueued

LEMMA GapSubscribe ==
  ASSUME WatchInv, NEW s \in Subscribers, SubscribeSteps(s)
  PROVE  Gapless'
<1>. USE DEF WatchInv, managerVars, rootVars, feedVars
<1>. SUFFICES ASSUME NEW u \in Subscribers PROVE Gap(u)'
  BY DEF Gapless, Gap
<1>1. Gap(u)
  BY DEF Gapless, Gap
<1>2. /\ UNCHANGED <<queue, told, finished, sequence>> /\ stopped' = stopped
      /\ u # s => call'[u] = call[u] /\ at'[u] = at[u] /\ seen'[u] = seen[u]
  <2>. USE DEF WatchTypeOK
  <2>1. CASE Find(s)
    BY <2>1 DEF Find
  <2>2. CASE Start(s)
    BY <2>2 DEF Start
  <2>3. CASE SubscribeFails(s) \/ JoinCancelled(s)
    BY <2>3 DEF SubscribeFails, JoinCancelled, Refuse
  <2>4. CASE Join(s)
    BY <2>4 DEF Join
  <2>. QED BY <2>1, <2>2, <2>3, <2>4 DEF SubscribeSteps
<1>3. CASE u # s
  BY <1>1, <1>2, <1>3, GapRests
<1>4. CASE u = s /\ ~Join(s)
  <2>1. call'[s] # "joined"
    BY <1>4 DEF SubscribeSteps, Find, Start, SubscribeFails, JoinCancelled, Refuse, WatchTypeOK
  <2>. QED BY <1>4, <2>1 DEF Gap
<1>5. CASE u = s /\ Join(s)
  <2>1. /\ call[s] = "found" /\ at[s] \in Roots /\ queue[s] = <<>> /\ s \notin told
        /\ s \notin finished /\ at' = at
    BY <1>5 DEF Join, Incarnations, Membership
  <2>2. call'[s] = "joined" => seen'[s] = sequence[at[s]]
    BY <1>5 DEF Join, WatchTypeOK
  <2>3. Len(queue'[s]) = 0 /\ queue'[s] = <<>>
    BY <1>2, <2>1, EmptySeq
  <2>4. sequence[at[s]] \in Nat
    BY <2>1 DEF WatchTypeOK
  <2>. QED
    BY <1>2, <1>5, <2>1, <2>2, <2>3, <2>4 DEF Gap, Follows, InSequence, RescanQueued
<1>. QED BY <1>3, <1>4, <1>5

\* A change at the end of a channel whose feed is live follows what is there.
LEMMA GapChange ==
  ASSUME WatchTypeOK, NEW s \in Subscribers, Gap(s),
         call[s] = "joined", s \notin finished, at[s] \in Roots,
         queue' = [u \in Subscribers |->
            IF u \in members[at[s]] /\ HasRoom(u)
            THEN Append(queue[u], Event(sequence[at[s]] + 1, FALSE)) ELSE queue[u]],
         s \in members[at[s]], HasRoom(s),
         sequence'[at[s]] = sequence[at[s]] + 1,
         UNCHANGED <<call, at, seen, told, finished, stopped>>
  PROVE  Gap(s)'
<1>. DEFINE q == queue[s]
            n == sequence[at[s]] + 1
<1>1. /\ q \in Seq(Events) /\ Len(q) \in Nat /\ n \in Nat /\ seen[s] \in Nat
      /\ sequence[at[s]] \in Nat
  BY LenProperties DEF WatchTypeOK, Events
<1>2. queue'[s] = Append(q, Event(n, FALSE))
  OBVIOUS
<1>3. /\ Len(queue'[s]) = Len(q) + 1
      /\ \A i \in 1 .. Len(q) : queue'[s][i] = q[i]
      /\ queue'[s][Len(q) + 1].number = n
      /\ ~queue'[s][Len(q) + 1].rescan
  <2>1. /\ Len(Append(q, Event(n, FALSE))) = Len(q) + 1
        /\ \A i \in 1 .. Len(q) : Append(q, Event(n, FALSE))[i] = q[i]
        /\ Append(q, Event(n, FALSE))[Len(q) + 1].number = n
        /\ ~Append(q, Event(n, FALSE))[Len(q) + 1].rescan
    <3>. HIDE DEF n, q
    <3>. QED BY <1>1, ChangeQueued
  <2>. QED BY <1>2, <2>1, Zenon
<1>4. \A i \in 1 .. Len(q) : ~q[i].rescan /\ q[i].number = seen[s] + i
  BY <1>1, EmptySeq DEF Gap, Follows, InSequence, RescanQueued
<1>5. seen[s] + Len(q) = sequence[at[s]] /\ s \notin told
  BY DEF Gap, Follows
<1>6. \A i \in 1 .. Len(queue'[s]) : ~queue'[s][i].rescan /\ queue'[s][i].number = seen[s] + i
  <2>. HIDE DEF q
  <2>. TAKE i \in 1 .. Len(queue'[s])
  <2>1. CASE i = Len(q) + 1
    <3>1. seen[s] + i = n
      <4>1. /\ Len(q) \in Nat /\ seen[s] \in Nat /\ sequence[at[s]] \in Nat
            /\ seen[s] + Len(q) = sequence[at[s]]
        BY <1>1, <1>5
      <4>. QED BY <2>1, <4>1
    <3>2. queue'[s][i].number = n /\ ~queue'[s][i].rescan
      BY <1>3, <2>1
    <3>. QED BY <3>1, <3>2
  <2>2. CASE i # Len(q) + 1
    <3>1. i \in 1 .. Len(q)
      BY <1>1, <1>3, <2>2
    <3>. QED BY <1>3, <1>4, <3>1
  <2>. QED BY <2>1, <2>2
<1>7. ~RescanQueued(s)'
  <2>1. Len(queue'[s]) \in 1 .. Len(queue'[s])
    BY <1>1, <1>3
  <2>. QED BY <1>6, <2>1 DEF RescanQueued
<1>8. InSequence(s)'
  BY <1>6 DEF InSequence
<1>9. Follows(s)'
  <2>1. seen'[s] + Len(queue'[s]) = sequence'[at'[s]]
    BY <1>1, <1>3, <1>5
  <2>. QED BY <1>5, <1>7, <1>8, <2>1 DEF Follows
<1>. QED BY <1>7, <1>9 DEF Gap

LEMMA GapLoop ==
  ASSUME WatchInv, NEW r \in Roots, LoopSteps(r)
  PROVE  Gapless'
<1>. USE DEF WatchInv, managerVars, rootVars, feedVars
<1>. SUFFICES ASSUME NEW s \in Subscribers PROVE Gap(s)'
  BY DEF Gapless, Gap
<1>1. /\ Gap(s)
      /\ s \in members[r] <=> call[s] = "joined" /\ at[s] = r /\ s \notin finished
  BY DEF Gapless, Gap, Membership
<1>2. sequence[r] \in Nat /\ sequence[r] + 1 \in Nat /\ sequence[r] + 2 \in Nat
  BY DEF WatchTypeOK
<1>3. ASSUME NEW n \in Nat, RescanAndClose(r, n), UNCHANGED <<stopped, call, at, told>>,
             s \notin members[r] => seen'[s] = seen[s]
      PROVE  Gap(s)'
  <2>1. CASE s \in members[r]
    <3>1. queue'[s] = <<Event(n, TRUE)>> /\ s \in finished'
      BY <1>3, <2>1 DEF RescanAndClose
    <3>2. s \notin told
      BY <1>1, <2>1 DEF Gap, Follows
    <3>. QED BY <1>1, <1>3, <2>1, <3>1, <3>2, GapRescan
  <2>2. CASE s \notin members[r]
    <3>1. /\ queue'[s] = queue[s] /\ (s \in finished' <=> s \in finished)
          /\ \A q \in Roots : q # r => sequence'[q] = sequence[q]
      BY <1>3, <2>2 DEF RescanAndClose, WatchTypeOK
    <3>2. call[s] = "joined" /\ s \notin finished => at[s] \in Roots /\ at[s] # r
      BY <1>1, <2>2 DEF Membership
    <3>. QED BY <1>1, <1>3, <2>2, <3>1, <3>2, GapRests
  <2>. QED BY <2>1, <2>2
<1>4. CASE Publish(r)
  <2>1. CASE s \in members[r]
    <3>1. HasRoom(s) /\ sequence'[r] = sequence[r] + 1
      BY <1>4, <2>1 DEF Publish, Skips, WatchTypeOK
    <3>. QED BY <1>1, <1>4, <2>1, <3>1, GapChange DEF Publish
  <2>2. CASE s \notin members[r]
    <3>1. queue'[s] = queue[s] /\ \A q \in Roots : q # r => sequence'[q] = sequence[q]
      BY <1>4, <2>2 DEF Publish, WatchTypeOK
    <3>2. call[s] = "joined" /\ s \notin finished => at[s] \in Roots /\ at[s] # r
      BY <1>1, <2>2 DEF Membership
    <3>. QED BY <1>1, <1>4, <3>1, <3>2, GapRests DEF Publish
  <2>. QED BY <2>1, <2>2
<1>5. CASE Overflow(r)
  <2>1. s \notin members[r] => seen'[s] = seen[s]
    BY <1>5 DEF Overflow, WatchTypeOK
  <2>. QED BY <1>2, <1>3, <1>5, <2>1 DEF Overflow
<1>6. CASE Rescan(r)
  BY <1>2, <1>3, <1>6 DEF Rescan
<1>7. CASE WatcherEnds(r)
  <2>1. CASE root[r] = "open"
    BY <1>2, <1>3, <1>7, <2>1 DEF WatcherEnds
  <2>2. CASE root[r] # "open"
    BY <1>1, <1>7, <2>2, GapRests DEF WatcherEnds
  <2>. QED BY <2>1, <2>2
<1>8. CASE LoopCancelled(r)
  BY <1>1, <1>8, GapStops, GapRests DEF LoopCancelled, CloseRoot
<1>9. CASE LoopReturns(r)
  BY <1>1, <1>9, GapRests DEF LoopReturns
<1>. QED BY <1>4, <1>5, <1>6, <1>7, <1>8, <1>9 DEF LoopSteps

\* A receipt takes the first event, which is the next change or the only rescan.
LEMMA GapReceive ==
  ASSUME WatchInv, NEW s \in Subscribers, Receive(s)
  PROVE  Gap(s)'
<1>. DEFINE q == queue[s]
<1>. USE DEF feedVars, rootVars, managerVars
<1>1. /\ q \in Seq(Events) /\ q # <<>> /\ Len(q) \in Nat \ {0} /\ seen[s] \in Nat
      /\ seen \in [Subscribers -> Nat] /\ queue \in [Subscribers -> Seq(Events)]
  <2>1. q \in Seq(Events) /\ q # <<>>
    BY DEF Receive, WatchInv, WatchTypeOK, Events
  <2>2. Len(q) \in Nat \ {0}
    <3>. HIDE DEF q
    <3>. QED BY <2>1, EmptySeq
  <2>. QED BY <2>1, <2>2 DEF WatchInv, WatchTypeOK, Events
<1>2. /\ Head(q) = q[1] /\ Tail(q) \in Seq(Events) /\ Len(Tail(q)) = Len(q) - 1
      /\ \A i \in 1 .. Len(q) - 1 : Tail(q)[i] = q[i + 1]
  <2>. HIDE DEF q
  <2>. QED BY <1>1, HeadTailProperties
<1>3. /\ queue'[s] = Tail(q) /\ seen'[s] = q[1].number
      /\ (s \in told' <=> s \in told \/ q[1].rescan)
      /\ UNCHANGED <<call, at, finished, sequence, stopped>>
  BY <1>1, <1>2 DEF Receive
<1>4. call[s] = "joined" /\ Follows(s) /\ (RescanQueued(s) => Len(q) = 1) /\ s \notin told
  BY <1>1 DEF Receive, WatchInv, Gapless, Follows
<1>7. Len(q) = 1 => Tail(q) = <<>>
  <2>. HIDE DEF q
  <2>. SUFFICES ASSUME Len(q) = 1 PROVE Tail(q) = <<>>
    OBVIOUS
  <2>1. Len(Tail(q)) = 0 /\ Tail(q) \in Seq(Events)
    BY <1>2
  <2>. QED BY <2>1, EmptySeq
<1>5. CASE q[1].rescan
  <2>1. Len(q) = 1 /\ RescanQueued(s)
    BY <1>1, <1>4, <1>5 DEF Follows, InSequence, RescanQueued
  <2>2. Len(queue'[s]) = 0 /\ queue'[s] = <<>>
    BY <1>3, <1>7, <2>1, EmptySeq
  <2>3. s \in finished
    BY <1>4, <2>1 DEF Follows
  <2>. QED
    <3>1. InSequence(s)' /\ ~RescanQueued(s)'
      BY <2>2 DEF InSequence, RescanQueued
    <3>. QED BY <1>3, <1>5, <2>2, <2>3, <3>1 DEF Gap, Follows
<1>6. CASE ~q[1].rescan
  <2>1. q[1].number = seen[s] + 1
    BY <1>1, <1>4, <1>6 DEF Follows, InSequence
  <2>2. RescanQueued(s)' <=> RescanQueued(s)
    <3>1. CASE Len(q) = 1
      <4>1. queue'[s] = <<>>
        BY <1>3, <1>7, <3>1
      <4>. QED BY <1>6, <3>1, <4>1 DEF RescanQueued
    <3>2. CASE Len(q) # 1
      <4>1. Len(queue'[s]) \in 1 .. Len(q) - 1 /\ queue'[s][Len(queue'[s])] = q[Len(q)]
        BY <1>1, <1>2, <1>3, <3>2
      <4>2. queue'[s] # <<>>
        BY <4>1, EmptySeq
      <4>. QED BY <1>1, <4>1, <4>2 DEF RescanQueued
    <3>. QED BY <3>1, <3>2
  <2>3. InSequence(s)'
    <3>. SUFFICES ASSUME NEW i \in 1 .. Len(queue'[s])
                  PROVE  IF queue'[s][i].rescan THEN i = Len(queue'[s])
                         ELSE queue'[s][i].number = seen'[s] + i
      BY DEF InSequence
    <3>1. /\ i + 1 \in 1 .. Len(q) /\ queue'[s][i] = q[i + 1] /\ i \in Nat
          /\ Len(queue'[s]) = Len(q) - 1
      BY <1>1, <1>2, <1>3
    <3>2. IF q[i + 1].rescan THEN i + 1 = Len(q) ELSE q[i + 1].number = seen[s] + (i + 1)
      BY <1>4, <3>1 DEF Follows, InSequence
    <3>3. seen'[s] + i = seen[s] + (i + 1)
      BY <1>1, <1>3, <2>1, <3>1
    <3>. QED BY <1>1, <3>1, <3>2, <3>3
  <2>4. s \notin finished => seen'[s] + Len(queue'[s]) = sequence'[at'[s]]
    BY <1>1, <1>2, <1>3, <1>4, <2>1 DEF Follows
  <2>5. Follows(s)' /\ ~RescanQueued(s)'
    <3>1. ~RescanQueued(s)
      BY <1>4, <1>6 DEF RescanQueued
    <3>. QED BY <1>3, <1>4, <1>6, <2>2, <2>3, <2>4, <3>1 DEF Follows
  <2>. QED BY <2>5 DEF Gap
<1>. QED BY <1>5, <1>6

LEMMA GapFeed ==
  ASSUME WatchInv, NEW s \in Subscribers, Receive(s) \/ Leave(s)
  PROVE  Gapless'
<1>. USE DEF feedVars, rootVars, managerVars
<1>. SUFFICES ASSUME NEW u \in Subscribers PROVE Gap(u)'
  BY DEF Gapless, Gap
<1>1. Gap(u) /\ WatchTypeOK
  BY DEF WatchInv, Gapless, Gap
<1>2. CASE u = s
  BY <1>2, GapReceive DEF Leave, Gap, WatchInv, WatchTypeOK
<1>3. CASE u # s
  <2>1. CASE Receive(s)
    BY <1>1, <1>3, <2>1, GapRests DEF Receive, WatchTypeOK
  <2>2. CASE Leave(s)
    <3>1. /\ call'[u] = call[u] /\ queue'[u] = queue[u] /\ seen'[u] = seen[u]
          /\ at'[u] = at[u] /\ (u \in told' <=> u \in told)
          /\ UNCHANGED <<sequence, stopped>>
      BY <1>1, <1>3, <2>2 DEF Leave, WatchTypeOK
    <3>2. u \in finished' <=> u \in finished
      BY <1>3, <2>2 DEF Leave
    <3>. QED BY <1>1, <3>1, <3>2, GapRests
  <2>. QED BY <2>1, <2>2
<1>. QED BY <1>2, <1>3

LEMMA GapTeardown ==
  ASSUME WatchInv, Stop \/ \E r \in Roots : HangUp(r) \/ RemoveRoot(r) \/ StopRoot(r)
  PROVE  Gapless'
<1>. USE DEF feedVars, rootVars, managerVars
<1>. SUFFICES ASSUME NEW s \in Subscribers PROVE Gap(s)'
  BY DEF Gapless, Gap
<1>1. Gap(s) /\ WatchTypeOK
  BY DEF WatchInv, Gapless, Gap
<1>2. CASE Stop
  BY <1>1, <1>2, GapRests DEF Stop
<1>3. ASSUME NEW r \in Roots, HangUp(r) \/ RemoveRoot(r) PROVE Gap(s)'
  BY <1>1, <1>3, GapRests DEF HangUp, RemoveRoot
<1>4. ASSUME NEW r \in Roots, StopRoot(r) PROVE Gap(s)'
  <2>1. stopped /\ UNCHANGED <<call, at, queue, seen, told, sequence, stopped>>
        /\ finished' = finished \cup members[r]
    BY <1>4 DEF StopRoot, CloseRoot, WatchInv, Incarnations
  <2>2. s \in members[r] => call[s] = "joined" /\ s \notin finished
    BY DEF WatchInv, Membership
  <2>3. CASE s \in members[r]
    BY <1>1, <2>1, <2>2, <2>3, GapStops
  <2>4. CASE s \notin members[r]
    BY <1>1, <2>1, <2>4, GapRests
  <2>. QED BY <2>3, <2>4
<1>. QED BY <1>2, <1>3, <1>4

-----------------------------------------------------------------------------
(* The invariant and the results *)

LEMMA WatchInvInit == WatchInit => WatchInv
<1>. SUFFICES ASSUME WatchInit PROVE WatchInv
  OBVIOUS
<1>1. Incarnations /\ Gapless
  BY WatchAssumption DEF WatchInit, Incarnations, Gapless
<1>2. Membership
  BY WatchAssumption DEF WatchInit, Membership
<1>. QED BY <1>1, <1>2, TypesInit DEF WatchInv

LEMMA WatchInvStep == WatchInv /\ [WatchNext]_watchVars => WatchInv'
<1>. SUFFICES ASSUME WatchInv, [WatchNext]_watchVars PROVE WatchInv'
  OBVIOUS
<1>1. WatchTypeOK'
  BY TypesStep
<1>2. CASE UNCHANGED watchVars
  BY <1>1, <1>2 DEF WatchInv, Incarnations, Membership, Gapless, Follows, InSequence,
     RescanQueued, watchVars, managerVars, rootVars, feedVars
<1>3. ASSUME NEW s \in Subscribers, SubscribeSteps(s) PROVE WatchInv'
  BY <1>1, <1>3, IncarnationsSubscribe, MembershipSubscribe, GapSubscribe DEF WatchInv
<1>4. ASSUME NEW r \in Roots, LoopSteps(r) PROVE WatchInv'
  BY <1>1, <1>4, IncarnationsLoop, MembershipLoop, GapLoop DEF WatchInv
<1>5. ASSUME NEW s \in Subscribers, Receive(s) \/ Leave(s) PROVE WatchInv'
  BY <1>1, <1>5, IncarnationsFeed, MembershipFeed, GapFeed DEF WatchInv
<1>6. ASSUME Stop \/ \E r \in Roots : HangUp(r) \/ RemoveRoot(r) \/ StopRoot(r)
      PROVE  WatchInv'
  BY <1>1, <1>6, IncarnationsTeardown, MembershipTeardown, GapTeardown DEF WatchInv
<1>. QED BY <1>2, <1>3, <1>4, <1>5, <1>6 DEF WatchNext

THEOREM WatchInvariant == WatchSpec => []WatchInv
<1>. QED BY WatchInvInit, WatchInvStep, PTL DEF WatchSpec

(* Every variable of the feeds keeps its type, and no channel holds more    *)
(* than its size.                                                           *)
THEOREM WatchTypes == WatchSpec => []WatchTypeOK
<1>1. WatchInv => WatchTypeOK
  BY DEF WatchInv
<1>. QED BY <1>1, WatchInvariant, PTL

(* An incarnation that is open is in the table or about to be closed by     *)
(* Manager.Close, whatever the order in which it is left and joined.        *)
THEOREM OpenRootsAreKnown == WatchSpec => []OpenRootIsKnown
<1>1. WatchInv => OpenRootIsKnown
  BY DEF WatchInv, Incarnations, OpenRootIsKnown
<1>. QED BY <1>1, WatchInvariant, PTL

(* Nobody waits on a channel that nobody will close (Subscribe, Close,      *)
(* removeSubscriber).                                                       *)
THEOREM FeedsAreServed == WatchSpec => []FeedIsServed
<1>1. WatchInv => FeedIsServed
  BY DEF WatchInv, Membership, FeedIsServed, WatchTypeOK
<1>. QED BY <1>1, WatchInvariant, PTL

(* The changes a subscriber receives have no gap that no rescan tells of,   *)
(* for every size of a channel and every number of subscribers (publish,    *)
(* publishRescanAndCloseLocked).                                            *)
THEOREM NoGapIsSilent == WatchSpec => []NoSilentGap
<1>1. WatchInv => NoSilentGap
  BY DEF WatchInv, Gapless, Follows, NoSilentGap
<1>. QED BY <1>1, WatchInvariant, PTL

-----------------------------------------------------------------------------
(* The promise of ChangeFeed *)

\* What ChangeFeed sees of one subscriber.
LEMMA Mapped ==
  ASSUME NEW s \in Subscribers
  PROVE  /\ statusOf[s] = IF call[s] \notin {"joined", "left"} THEN "out"
                         ELSE IF s \notin finished THEN "live"
                         ELSE IF RescanQueued(s) THEN "rescan" ELSE "over"
         /\ pendingOf[s] = IF RescanQueued(s) THEN 0 ELSE Len(queue[s])
BY DEF statusOf, pendingOf

LEMMA MappedNext ==
  ASSUME NEW s \in Subscribers
  PROVE  /\ statusOf'[s] = IF call'[s] \notin {"joined", "left"} THEN "out"
                          ELSE IF s \notin finished' THEN "live"
                          ELSE IF RescanQueued(s)' THEN "rescan" ELSE "over"
         /\ pendingOf'[s] = IF RescanQueued(s)' THEN 0 ELSE Len(queue'[s])
BY DEF statusOf, pendingOf

\* A subscriber whose place, channel and events stay.
Rests(s) ==
  call'[s] = call[s] /\ queue'[s] = queue[s] /\ (s \in finished' <=> s \in finished)

LEMMA RestsMapped ==
  ASSUME NEW s \in Subscribers, Rests(s)
  PROVE  statusOf'[s] = statusOf[s] /\ pendingOf'[s] = pendingOf[s]
<1>1. RescanQueued(s)' <=> RescanQueued(s)
  BY DEF Rests, RescanQueued
<1>. QED BY <1>1, Mapped, MappedNext DEF Rests

\* So does one on the way to its feed, wherever it goes.
LEMMA OutMapped ==
  ASSUME WatchInv, NEW s \in Subscribers,
         call[s] \notin {"joined", "left"}, call'[s] \notin {"joined", "left"},
         UNCHANGED queue
  PROVE  statusOf'[s] = statusOf[s] /\ pendingOf'[s] = pendingOf[s]
<1>1. RescanQueued(s)' <=> RescanQueued(s)
  BY DEF RescanQueued
<1>. QED BY <1>1, Mapped, MappedNext

\* The mapped functions change where their values do.
LEMMA MappedStutter ==
  ASSUME \A s \in Subscribers : statusOf'[s] = statusOf[s] /\ pendingOf'[s] = pendingOf[s]
  PROVE  UNCHANGED <<statusOf, pendingOf>>
BY DEF statusOf, pendingOf

LEMMA MappedFunctions ==
  /\ statusOf = [s \in Subscribers |-> statusOf[s]]
  /\ pendingOf = [s \in Subscribers |-> pendingOf[s]]
  /\ statusOf' = [s \in Subscribers |-> statusOf'[s]]
  /\ pendingOf' = [s \in Subscribers |-> pendingOf'[s]]
BY DEF statusOf, pendingOf

\* The live feeds are those of the open incarnation, of which there is one at most.
LEMMA LiveMembers ==
  ASSUME WatchInv, NEW r \in Roots, root[r] = "open", NEW s \in Subscribers
  PROVE  statusOf[s] = "live" <=> s \in members[r]
<1>. USE DEF WatchInv
<1>1. statusOf[s] = "live" <=> call[s] = "joined" /\ s \notin finished
  BY Mapped DEF Membership
<1>2. ASSUME NEW q \in Roots, root[q] = "open" PROVE q = r
  BY <1>2, WatchAssumption DEF Incarnations
<1>3. call[s] = "joined" /\ s \notin finished => at[s] = r
  BY <1>2 DEF Membership
<1>. QED BY <1>1, <1>3 DEF Membership

\* A live feed has no rescan in its channel, and another one's is alone there.
LEMMA LiveQueue ==
  ASSUME WatchInv, NEW s \in Subscribers
  PROVE  /\ statusOf[s] = "live" => ~RescanQueued(s) /\ pendingOf[s] = Len(queue[s])
         /\ RescanQueued(s) => Len(queue[s]) = 1
<1>. USE DEF WatchInv
<1>1. call[s] # "joined" => ~RescanQueued(s)
  BY DEF Membership, RescanQueued
<1>. QED BY <1>1, Mapped DEF Membership, Gapless, Follows

LEMMA PromiseInit == WatchInit => Promise!FeedInit
<1>. SUFFICES ASSUME WatchInit PROVE Promise!FeedInit
  OBVIOUS
<1>1. \A s \in Subscribers : queue[s] = <<>> /\ Len(queue[s]) = 0 /\ call[s] = "out"
  BY EmptySeq DEF WatchInit
<1>2. \A s \in Subscribers : statusOf[s] = "out" /\ pendingOf[s] = 0
  BY <1>1, Mapped DEF RescanQueued
<1>. QED BY <1>2, MappedFunctions DEF Promise!FeedInit

\* An incarnation that closes with a rescan loses track.
LEMMA PromiseRescan ==
  ASSUME WatchInv, NEW r \in Roots, NEW n \in Nat, root[r] = "open",
         RescanAndClose(r, n), UNCHANGED call
  PROVE  Promise!LoseTrack
<1>1. ASSUME NEW s \in Subscribers, s \in members[r]
      PROVE  statusOf'[s] = "rescan" /\ pendingOf'[s] = 0
  <2>1. queue'[s] = <<Event(n, TRUE)>> /\ s \in finished'
    BY <1>1 DEF RescanAndClose
  <2>2. RescanQueued(s)'
    BY <2>1 DEF RescanQueued, Event
  <2>3. call'[s] = "joined"
    BY <1>1 DEF WatchInv, Membership
  <2>. QED BY <2>1, <2>2, <2>3, MappedNext
<1>2. ASSUME NEW s \in Subscribers, s \notin members[r]
      PROVE  statusOf'[s] = statusOf[s] /\ pendingOf'[s] = pendingOf[s]
  <2>1. Rests(s)
    BY <1>2 DEF RescanAndClose, Rests
  <2>. QED BY <2>1, RestsMapped
<1>3. \A s \in Subscribers : statusOf[s] = "live" <=> s \in members[r]
  BY LiveMembers
<1>4. /\ statusOf' = [s \in Subscribers |-> IF statusOf[s] = "live" THEN "rescan" ELSE statusOf[s]]
      /\ pendingOf' = [s \in Subscribers |-> IF statusOf[s] = "live" THEN 0 ELSE pendingOf[s]]
  BY <1>1, <1>2, <1>3, MappedFunctions
<1>. QED BY <1>4 DEF Promise!LoseTrack, Promise!Live

\* An incarnation that a stopping manager closes shuts down.
LEMMA PromiseClose ==
  ASSUME WatchInv, NEW r \in Roots, CloseRoot(r), UNCHANGED call
  PROVE  Promise!Shutdown \/ UNCHANGED <<statusOf, pendingOf>>
<1>1. ASSUME NEW s \in Subscribers, s \notin members[r]
      PROVE  statusOf'[s] = statusOf[s] /\ pendingOf'[s] = pendingOf[s]
  <2>1. Rests(s)
    BY <1>1 DEF CloseRoot, Rests
  <2>. QED BY <2>1, RestsMapped
<1>2. CASE root[r] = "open"
  <2>1. ASSUME NEW s \in Subscribers, s \in members[r]
        PROVE  statusOf'[s] = "over" /\ pendingOf'[s] = pendingOf[s]
    <3>1. statusOf[s] = "live" /\ ~RescanQueued(s)
      BY <1>2, <2>1, LiveMembers, LiveQueue
    <3>2. ~RescanQueued(s)' /\ queue'[s] = queue[s] /\ s \in finished' /\ call'[s] = "joined"
      BY <2>1, <3>1 DEF CloseRoot, RescanQueued, WatchInv, Membership
    <3>. QED BY <3>1, <3>2, Mapped, MappedNext
  <2>2. \A s \in Subscribers : statusOf[s] = "live" <=> s \in members[r]
    BY <1>2, LiveMembers
  <2>3. /\ statusOf' = [s \in Subscribers |-> IF statusOf[s] = "live" THEN "over" ELSE statusOf[s]]
        /\ pendingOf' = pendingOf
    BY <1>1, <2>1, <2>2, MappedFunctions
  <2>. QED BY <2>3 DEF Promise!Shutdown, Promise!Live
<1>3. CASE root[r] # "open"
  <2>1. members[r] = {}
    BY <1>3 DEF WatchInv, Membership
  <2>. QED BY <1>1, <2>1, MappedStutter
<1>. QED BY <1>2, <1>3

\* A change is one for every live feed.
LEMMA PromiseChange ==
  ASSUME WatchInv, NEW r \in Roots, Publish(r)
  PROVE  Promise!Change
<1>. USE DEF feedVars, managerVars
<1>1. ASSUME NEW s \in Subscribers, s \in members[r]
      PROVE  statusOf'[s] = statusOf[s] /\ pendingOf'[s] = pendingOf[s] + 1
  <2>. DEFINE q == queue[s]
              e == Event(sequence[r] + 1, FALSE)
  <2>1. queue'[s] = Append(q, e)
    BY <1>1 DEF Publish, Skips
  <2>2. q \in Seq(Events) /\ sequence[r] + 1 \in Nat
    BY DEF WatchInv, WatchTypeOK, Events
  <2>3. Len(Append(q, e)) = Len(q) + 1 /\ ~Append(q, e)[Len(q) + 1].rescan
    <3>. HIDE DEF q
    <3>. QED BY <2>2, ChangeQueued
  <2>4. ~RescanQueued(s)'
    BY <2>1, <2>3 DEF RescanQueued
  <2>5. statusOf[s] = "live" /\ ~RescanQueued(s) /\ pendingOf[s] = Len(q)
    BY <1>1, LiveMembers, LiveQueue DEF Publish
  <2>6. Len(queue'[s]) = Len(q) + 1
    BY <2>1, <2>3, Zenon
  <2>7. call'[s] = call[s] /\ (s \in finished' <=> s \in finished)
    BY DEF Publish
  <2>. QED BY <2>4, <2>5, <2>6, <2>7, Mapped, MappedNext
<1>2. ASSUME NEW s \in Subscribers, s \notin members[r]
      PROVE  statusOf'[s] = statusOf[s] /\ pendingOf'[s] = pendingOf[s]
  <2>1. Rests(s)
    BY <1>2 DEF Publish, Rests
  <2>. QED BY <2>1, RestsMapped
<1>3. \A s \in Subscribers : statusOf[s] = "live" <=> s \in members[r]
  BY LiveMembers DEF Publish
<1>4. /\ statusOf' = statusOf
      /\ pendingOf' = [s \in Subscribers |-> IF statusOf[s] = "live" THEN pendingOf[s] + 1
                                                                    ELSE pendingOf[s]]
  BY <1>1, <1>2, <1>3, MappedFunctions
<1>. QED BY <1>4 DEF Promise!Change, Promise!Live

\* A call of Subscribe is invisible until it joins.
LEMMA PromiseSubscribe ==
  ASSUME WatchInv, NEW s \in Subscribers, SubscribeSteps(s)
  PROVE  Promise!Open(s) \/ UNCHANGED <<statusOf, pendingOf>>
<1>. USE DEF feedVars
<1>1. /\ UNCHANGED <<queue, finished>> /\ call[s] \notin {"joined", "left"}
      /\ \A u \in Subscribers : u # s => call'[u] = call[u]
  BY DEF SubscribeSteps, Find, Start, SubscribeFails, Join, JoinCancelled, Refuse, WatchInv,
         WatchTypeOK
<1>2. \A u \in Subscribers : u # s =>
         statusOf'[u] = statusOf[u] /\ pendingOf'[u] = pendingOf[u]
  BY <1>1, RestsMapped DEF Rests
<1>3. CASE call'[s] \in {"joined", "left"}
  <2>1. call'[s] = "joined"
    BY <1>3 DEF SubscribeSteps, Find, Start, SubscribeFails, Join, JoinCancelled, Refuse,
                WatchInv, WatchTypeOK
  <2>2. s \notin finished'
    BY <1>1 DEF WatchInv, Membership
  <2>3. statusOf[s] = "out" /\ statusOf'[s] = "live" /\ pendingOf'[s] = pendingOf[s]
    BY <1>1, <2>1, <2>2, Mapped, MappedNext DEF RescanQueued
  <2>4. pendingOf' = pendingOf /\ statusOf' = [statusOf EXCEPT ![s] = "live"]
    BY <1>2, <2>3, MappedFunctions
  <2>. QED BY <2>3, <2>4 DEF Promise!Open
<1>4. CASE call'[s] \notin {"joined", "left"}
  BY <1>1, <1>2, <1>4, OutMapped, MappedStutter
<1>. QED BY <1>3, <1>4

\* A receipt tells of one change, or of the rescan.
LEMMA PromiseReceive ==
  ASSUME WatchInv, NEW s \in Subscribers, Receive(s)
  PROVE  Promise!Tell(s)
<1>. DEFINE q == queue[s]
<1>. USE DEF feedVars
<1>1. /\ q \in Seq(Events) /\ q # <<>> /\ queue'[s] = Tail(q) /\ call[s] = "joined"
      /\ UNCHANGED <<call, finished>>
      /\ \A u \in Subscribers : u # s => queue'[u] = queue[u]
  BY DEF Receive, WatchInv, WatchTypeOK, Events
<1>2. /\ Len(q) \in Nat \ {0} /\ Tail(q) \in Seq(Events) /\ Len(Tail(q)) = Len(q) - 1
      /\ \A i \in 1 .. Len(q) - 1 : Tail(q)[i] = q[i + 1]
  <2>. HIDE DEF q
  <2>. QED BY <1>1, EmptySeq, HeadTailProperties
<1>3. \A u \in Subscribers : u # s =>
         statusOf'[u] = statusOf[u] /\ pendingOf'[u] = pendingOf[u]
  BY <1>1, RestsMapped DEF Rests
<1>4. Len(Tail(q)) = 0 => Tail(q) = <<>>
  <2>. HIDE DEF q
  <2>. QED BY <1>2, EmptySeq
<1>5. CASE RescanQueued(s)
  <2>1. s \in finished /\ Len(q) = 1
    BY <1>1, <1>5 DEF WatchInv, Gapless, Follows
  <2>2. ~RescanQueued(s)' /\ Len(queue'[s]) = 0
    BY <1>1, <1>2, <1>4, <2>1 DEF RescanQueued
  <2>3. statusOf[s] = "rescan" /\ pendingOf[s] = 0 /\ statusOf'[s] = "over" /\ pendingOf'[s] = 0
    BY <1>1, <1>5, <2>1, <2>2, Mapped, MappedNext
  <2>4. pendingOf' = pendingOf /\ statusOf' = [statusOf EXCEPT ![s] = "over"]
    BY <1>3, <2>3, MappedFunctions
  <2>. QED BY <2>3, <2>4 DEF Promise!Tell
<1>6. CASE ~RescanQueued(s)
  <2>1. ~RescanQueued(s)'
    <3>1. CASE Len(q) = 1
      BY <1>1, <1>2, <1>4, <3>1 DEF RescanQueued
    <3>2. CASE Len(q) # 1
      <4>1. Len(queue'[s]) \in 1 .. Len(q) - 1 /\ queue'[s][Len(queue'[s])] = q[Len(q)]
        <5>1. Len(q) - 1 \in 1 .. Len(q) - 1 /\ Tail(q)[Len(q) - 1] = q[Len(q)]
          <6>. HIDE DEF q
          <6>. QED BY <1>2, <3>2
        <5>. QED BY <1>1, <1>2, <5>1
      <4>. QED BY <1>1, <1>6, <4>1 DEF RescanQueued
    <3>. QED BY <3>1, <3>2
  <2>2. /\ pendingOf[s] = Len(q) /\ pendingOf'[s] = Len(q) - 1
        /\ statusOf'[s] = statusOf[s]
    BY <1>1, <1>2, <1>6, <2>1, Mapped, MappedNext
  <2>3. statusOf' = statusOf /\ pendingOf' = [pendingOf EXCEPT ![s] = @ - 1]
    BY <1>3, <2>2, MappedFunctions
  <2>4. pendingOf[s] > 0
    BY <1>2, <2>2
  <2>. QED BY <2>3, <2>4 DEF Promise!Tell
<1>. QED BY <1>5, <1>6

LEMMA PromiseLeave ==
  ASSUME WatchInv, NEW s \in Subscribers, Leave(s)
  PROVE  Promise!Leave(s)
<1>. USE DEF feedVars
<1>1. /\ call[s] = "joined" /\ call'[s] = "left" /\ queue'[s] = <<>> /\ Len(queue'[s]) = 0
      /\ at[s] \in Roots
  BY EmptySeq DEF Leave, WatchInv, WatchTypeOK, Membership
<1>2. s \in finished' /\ \A u \in Subscribers : u # s => Rests(u)
  <2>1. CASE s \in members[at[s]]
    BY <2>1 DEF Leave, Rests, WatchInv, WatchTypeOK
  <2>2. CASE s \notin members[at[s]]
    BY <1>1, <2>2 DEF Leave, Rests, WatchInv, WatchTypeOK, Membership
  <2>. QED BY <2>1, <2>2
<1>3. statusOf[s] # "out" /\ statusOf'[s] = "over" /\ pendingOf'[s] = 0
  BY <1>1, <1>2, Mapped, MappedNext DEF RescanQueued
<1>4. \A u \in Subscribers : u # s =>
         statusOf'[u] = statusOf[u] /\ pendingOf'[u] = pendingOf[u]
  BY <1>2, RestsMapped
<1>5. statusOf' = [statusOf EXCEPT ![s] = "over"] /\ pendingOf' = [pendingOf EXCEPT ![s] = 0]
  BY <1>3, <1>4, MappedFunctions
<1>. QED BY <1>3, <1>5 DEF Promise!Leave

LEMMA PromiseStep ==
  ASSUME WatchInv, [WatchNext]_watchVars
  PROVE  Promise!FeedNext \/ UNCHANGED <<statusOf, pendingOf>>
<1>. DEFINE Kept == Promise!FeedNext \/ UNCHANGED <<statusOf, pendingOf>>
<1>. USE DEF managerVars, rootVars, feedVars
<1>1. ASSUME UNCHANGED <<call, queue, finished>> PROVE Kept
  BY <1>1, RestsMapped, MappedStutter DEF Rests
<1>2. ASSUME NEW s \in Subscribers, SubscribeSteps(s) \/ Receive(s) \/ Leave(s) PROVE Kept
  BY <1>2, PromiseSubscribe, PromiseReceive, PromiseLeave DEF Promise!FeedNext
<1>3. ASSUME NEW r \in Roots, LoopSteps(r) PROVE Kept
  <2>1. sequence[r] + 1 \in Nat /\ sequence[r] + 2 \in Nat
    BY DEF WatchInv, WatchTypeOK
  <2>2. CASE Publish(r)
    BY <2>2, PromiseChange DEF Promise!FeedNext
  <2>3. CASE Overflow(r) \/ Rescan(r)
    BY <2>1, <2>3, PromiseRescan DEF Promise!FeedNext, Overflow, Rescan
  <2>4. CASE WatcherEnds(r)
    <3>1. CASE root[r] = "open"
      BY <2>1, <2>4, <3>1, PromiseRescan DEF Promise!FeedNext, WatcherEnds
    <3>2. CASE root[r] # "open"
      BY <1>1, <2>4, <3>2 DEF WatcherEnds
    <3>. QED BY <3>1, <3>2
  <2>5. CASE LoopCancelled(r)
    BY <2>5, PromiseClose DEF Promise!FeedNext, LoopCancelled
  <2>6. CASE LoopReturns(r)
    BY <1>1, <2>6 DEF LoopReturns
  <2>. QED BY <1>3, <2>2, <2>3, <2>4, <2>5, <2>6 DEF LoopSteps
<1>4. ASSUME NEW r \in Roots, HangUp(r) \/ RemoveRoot(r) PROVE Kept
  BY <1>1, <1>4 DEF HangUp, RemoveRoot
<1>5. ASSUME NEW r \in Roots, StopRoot(r) PROVE Kept
  BY <1>5, PromiseClose DEF Promise!FeedNext, StopRoot
<1>6. CASE Stop \/ UNCHANGED watchVars
  BY <1>1, <1>6 DEF Stop, watchVars
<1>. QED BY <1>2, <1>3, <1>4, <1>5, <1>6 DEF WatchNext

(* The manager implements ChangeFeed for every number of subscribers and    *)
(* every size of a channel: what a subscriber is told is every change, in   *)
(* order, or one rescan after which it is told nothing.                     *)
THEOREM FeedsAsPromised == WatchSpec => ImplementsFeed
<1>1. WatchInit => Promise!FeedInit
  BY PromiseInit
<1>2. WatchInv /\ [WatchNext]_watchVars => [Promise!FeedNext]_<<statusOf, pendingOf>>
  BY PromiseStep
<1>3. WatchSpec => Promise!FeedInit /\ [][Promise!FeedNext]_<<statusOf, pendingOf>>
  BY <1>1, <1>2, WatchInvariant, PTL DEF WatchSpec
<1>. QED BY <1>3 DEF ImplementsFeed, Promise!FeedSpec, Promise!feed
==============================================================================
