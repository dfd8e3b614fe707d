------------------------- MODULE SessionRuntimeProofs -------------------------
(***************************************************************************)
(* Type correctness of SessionRuntime, for every number of clients and     *)
(* closers, every queue and every bound.                                   *)
(*                                                                         *)
(* TypeOK is not inductive.  A published chunk is a frame only if its      *)
(* number is between 1 and MaxChunks, which needs the counters of the PTY  *)
(* and of the history to keep their order (Counting); SendGrant takes the  *)
(* head of a list that must not be empty (GrantsPending).  TypesInv adds   *)
(* the two.  TypeOK is made of one conjunct per group of variables, and    *)
(* the first lemmas say that a step which leaves a group alone leaves its  *)
(* types alone, so that a proof about an action speaks only of the groups  *)
(* the action writes.                                                      *)
(***************************************************************************)
EXTENDS SessionProperties, TLAPS, SequenceTheorems, FiniteSetTheorems

\* readLoop never reads more than the child wrote, and the history holds what was
\* read, but for the chunk between Read and history.Write.
Counting ==
  /\ readN <= produced /\ produced <= MaxChunks
  /\ hist = IF reader = "read" THEN readN - 1 ELSE readN
  /\ reader \in {"read", "publishing"} => readN >= 1
\* A takeControl that has not returned has still a role frame to send.
GrantsPending == \A c \in Clients : op[c] = "granting" => grants[c] # <<>>
\* The inductive invariant.
TypesInv == TypeOK /\ Counting /\ GrantsPending

-----------------------------------------------------------------------------
\* A step that leaves the roster, size and mutexes alone keeps their types.
LEMMA KeepSessionTypes == SessionTypes /\ UNCHANGED session => SessionTypes'
  BY DEF SessionTypes, session, roster, locks
\* A step that leaves the connections and their operations alone keeps their types.
LEMMA KeepUserTypes == UserTypes /\ UNCHANGED users => UserTypes'
  BY DEF UserTypes, users, detaches
\* A step that leaves the goroutines and their loops alone keeps their types.
LEMMA KeepLoopTypes == LoopTypes /\ UNCHANGED <<loops, fanout>> => LoopTypes'
  BY DEF LoopTypes, loops, closing, fanout
\* A step that leaves the client queues alone keeps their types.
LEMMA KeepQueueTypes == QueueTypes /\ UNCHANGED queues => QueueTypes'
  BY DEF QueueTypes, queues
\* A step that leaves the PTY, the history and the bounds alone keeps their types.
LEMMA KeepPtyTypes == PtyTypes /\ UNCHANGED <<pty, bounds>> => PtyTypes'
  BY DEF PtyTypes, pty, bounds
\* A step that leaves the counters and readLoop alone keeps their order.
LEMMA KeepCounting == Counting /\ UNCHANGED <<hist, readN, produced, reader>> => Counting'
  BY DEF Counting
\* A step that leaves the operations and the grants alone keeps GrantsPending.
LEMMA KeepGrants == GrantsPending /\ UNCHANGED <<op, grants>> => GrantsPending'
  BY DEF GrantsPending

\* removeClientOrder returns a list of clients.
LEMMA WithoutType ==
  ASSUME SessionTypes, NEW c \in Clients
  PROVE  Without(c) \in Seq(Clients)
<1>1. order \in Seq(Clients)
  BY DEF SessionTypes
<1>2. CASE ~ \E i \in DOMAIN order : order[i] = c
  BY <1>1, <1>2 DEF Without
<1>3. CASE \E i \in DOMAIN order : order[i] = c
  <2> DEFINE i == CHOOSE i \in DOMAIN order : order[i] = c
             cut == [j \in 1 .. Len(order) - 1 |-> IF j < i THEN order[j] ELSE order[j + 1]]
  <2>1. i \in DOMAIN order /\ order[i] = c
    BY <1>3
  <2>2. DOMAIN order = 1..Len(order) /\ Len(order) \in Nat /\ \A j \in 1..Len(order) : order[j] \in Clients
    BY <1>1
  <2>3. \A j \in 1 .. Len(order) - 1 : cut[j] \in Clients
    BY <2>1, <2>2
  <2>4. Len(order) - 1 \in Nat
    BY <2>1, <2>2
  <2>5. cut \in [1 .. Len(order) - 1 -> Clients]
    BY <2>3
  <2>6. cut \in Seq(Clients)
    BY <2>4, <2>5, SeqDef
  <2> QED
    BY <1>3, <2>6 DEF Without
<1> QED
  BY <1>2, <1>3

\* Who inherits the control is a client or nobody.
LEMMA HeirType ==
  ASSUME SessionTypes, NEW c \in Clients
  PROVE  Heir(c) \in Clients \cup {NoClient}
<1>1. Without(c) \in Seq(Clients)
  BY WithoutType
<1> QED
  BY <1>1, HeadTailProperties DEF Heir

\* Offering a frame to a client keeps every queue a sequence of frames.
LEMMA OfferType ==
  ASSUME QueueTypes, NEW c \in Clients, NEW frame \in Frames, Offer(c, frame)
  PROVE  stream' \in [Clients -> Seq(Frames)]
<1>1. Append(stream[c], frame) \in Seq(Frames)
  BY AppendProperties DEF QueueTypes
<1> QED
  BY <1>1 DEF Offer, QueueTypes

\* What readLoop, waitLoop and detachClient publish is a frame: a chunk the child wrote,
\* the exit or the state.
LEMMA FrameOfType ==
  ASSUME NEW p \in Publishers, Publishing(p), Counting, PtyTypes
  PROVE  FrameOf(p) \in Frames
<1>1. CASE p = "reader"
  BY <1>1, SessionAssumption DEF FrameOf, Publishing, Frames, Output, Counting, PtyTypes
<1>2. CASE p # "reader"
  BY <1>2 DEF FrameOf, Frames, Exited, State
<1> QED
  BY <1>1, <1>2

\* The tail of the history that attach replays is made of chunks, no more than replayMaxBytes
\* admits.
LEMMA TailType ==
  ASSUME Counting, PtyTypes
  PROVE  /\ hist \in 0..MaxChunks /\ Shown \in 0..hist
         /\ ReplayTail \in Seq(Frames \ {Exited}) /\ Len(ReplayTail) = Shown
         /\ \A i \in 1..Shown : ReplayTail[i] = Output(i + hist - Shown)
<1>1. hist \in 0..MaxChunks /\ Shown \in 0..hist
  BY SessionAssumption DEF Counting, PtyTypes, Shown
<1>2. \A i \in 1..Shown : Output(i + hist - Shown) \in Frames \ {Exited}
  BY <1>1, SessionAssumption DEF Output, Frames, Exited
<1>3. ReplayTail \in [1..Shown -> Frames \ {Exited}] /\ Shown \in Nat
  BY <1>1, <1>2 DEF ReplayTail
<1>4. ReplayTail \in Seq(Frames \ {Exited}) /\ Len(ReplayTail) = Shown
  BY <1>3, SeqDef, LenProperties DEF ReplayTail
<1> QED
  BY <1>1, <1>4 DEF ReplayTail

\* enqueueReplayChunks queues as many chunks as there are, or less.
LEMMA FittingType ==
  ASSUME NEW header, NEW tail \in Seq(Frames)
  PROVE  FittingChunks(header, tail) \in 0 .. Len(tail)
<1> DEFINE ok == {n \in 1..Len(tail) :
                    \A i \in 1..n : Fits(header \o SubSeq(tail, 1, i - 1), TextBytes + ChunkBytes)}
<1>1. Len(tail) \in Nat
  OBVIOUS
<1>2. IsFiniteSet(1..Len(tail)) /\ Cardinality(1..Len(tail)) = Len(tail)
  <2>1. 1 \in Int /\ Len(tail) \in Int /\ Len(tail) - 1 + 1 = Len(tail)
    BY <1>1
  <2>2. 1 > Len(tail) => Len(tail) = 0
    BY <1>1
  <2> QED
    BY <2>1, <2>2, FS_Interval
<1>3. IsFiniteSet(ok) /\ Cardinality(ok) <= Len(tail) /\ Cardinality(ok) \in Nat
  <2>1. ok \subseteq 1..Len(tail)
    OBVIOUS
  <2> HIDE DEF ok
  <2> QED
    BY <1>2, <2>1, FS_Subset, FS_CardinalityType
<1>4. FittingChunks(header, tail) = Cardinality(ok)
  BY DEF FittingChunks
<1> QED
  BY <1>1, <1>3, <1>4

\* enqueueReplay queues frames only, the chunks of the tail being chunks of the history, and
\* no exit among them.
LEMMA ReplayFrames ==
  ASSUME Counting, PtyTypes, NEW c \in Clients
  PROVE  Replay(c).frames \in Seq(Frames \ {Exited})
<1> DEFINE header == << Started(IF controller = c THEN "controller" ELSE "observer"), ReplayStarted >>
           queued == FittingChunks(header, ReplayTail)
           body   == header \o SubSeq(ReplayTail, 1, queued)
           truncated == hist > ReplayMax \/ queued < Len(ReplayTail)
<1>1. ReplayTail \in Seq(Frames \ {Exited}) /\ ReplayTail \in Seq(Frames)
  BY TailType
<1>2. header \in Seq(Frames \ {Exited})
  BY DEF Started, ReplayStarted, Frames, Roles, Exited
<1>3. queued \in 0 .. Len(ReplayTail)
  <2> HIDE DEF header
  <2> QED
    BY <1>1, FittingType
<1>4. SubSeq(ReplayTail, 1, queued) \in Seq(Frames \ {Exited})
  <2> HIDE DEF queued
  <2> QED
    BY <1>1, <1>3, SubSeqProperties
<1>5. body \in Seq(Frames \ {Exited})
  <2> HIDE DEF queued, header
  <2> QED
    BY <1>2, <1>4, ConcatProperties
<1>6. ReplayFinished(truncated) \in Frames \ {Exited}
  <2>1. truncated \in BOOLEAN
    BY DEF truncated
  <2> HIDE DEF truncated
  <2> QED
    BY <2>1 DEF ReplayFinished, Frames, Exited
<1>7. Replay(c).frames = Append(body, ReplayFinished(truncated))
  BY DEF Replay
<1> HIDE DEF body, truncated
<1> QED
  BY <1>5, <1>6, <1>7, AppendProperties

\* In particular they are frames.
LEMMA ReplayType ==
  ASSUME Counting, PtyTypes, NEW c \in Clients
  PROVE  Replay(c).frames \in Seq(Frames)
<1>1. Seq(Frames \ {Exited}) \subseteq Seq(Frames)
  OBVIOUS
<1> QED
  BY <1>1, ReplayFrames

\* Every step of attach keeps the types.
LEMMA AttachKeepsTypes ==
  ASSUME TypesInv, NEW c \in Clients, Attach(c)
  PROVE  TypesInv'
<1>0. SessionTypes /\ UserTypes /\ LoopTypes /\ QueueTypes /\ PtyTypes /\ Counting /\ GrantsPending
  BY DEF TypesInv, TypeOK
<1>1. CASE AttachLock(c)
  <2>1. SessionTypes'
    BY <1>0, <1>1 DEF AttachLock, SessionTypes, roster
  <2>2. UserTypes'
    BY <1>0, <1>1 DEF AttachLock, UserTypes, Conns, detaches
  <2> QED
    BY <1>0, <1>1, <2>1, <2>2, KeepLoopTypes, KeepQueueTypes, KeepPtyTypes, KeepCounting,
       KeepGrants DEF AttachLock, TypesInv, TypeOK, roster, detaches, outside, loops, closing,
       fanout, queues, pty, bounds
<1>2. CASE AttachReserve(c)
  <2>1. SessionTypes'
    BY <1>0, <1>2 DEF AttachReserve, SessionTypes
  <2>2. UserTypes'
    BY <1>0, <1>2 DEF AttachReserve, UserTypes, Conns, detaches
  <2> QED
    BY <1>0, <1>2, <2>1, <2>2, KeepLoopTypes, KeepQueueTypes, KeepPtyTypes, KeepCounting,
       KeepGrants DEF AttachReserve, TypesInv, TypeOK, detaches, outside, loops, closing, fanout,
       queues, pty, bounds
<1>3. CASE AttachReplay(c)
  <2>1. UserTypes'
    BY <1>0, <1>3 DEF AttachReplay, UserTypes, Conns, detaches
  <2>2. QueueTypes'
    BY <1>0, <1>3, ReplayType DEF AttachReplay, QueueTypes, PtyTypes
  <2> QED
    BY <1>0, <1>3, <2>1, <2>2, KeepSessionTypes, KeepLoopTypes, KeepPtyTypes, KeepCounting,
       KeepGrants DEF AttachReplay, TypesInv, TypeOK, session, roster, locks, detaches, loops,
       closing, fanout, pty, bounds
<1>4. CASE AttachFail(c)
  <2>1. SessionTypes'
    BY <1>0, <1>4 DEF AttachFail, Withdraw, SessionTypes
  <2>2. UserTypes'
    BY <1>0, <1>4 DEF AttachFail, Withdraw, UserTypes, Conns, detaches
  <2>3. QueueTypes'
    BY <1>0, <1>4 DEF AttachFail, Withdraw, QueueTypes
  <2> QED
    BY <1>0, <1>4, <2>1, <2>2, <2>3, KeepLoopTypes, KeepPtyTypes, KeepCounting, KeepGrants DEF
       AttachFail, Withdraw, TypesInv, TypeOK, detaches, loops, closing, fanout, pty, bounds
<1>5. CASE AttachPublish(c)
  <2>1. SessionTypes'
    BY <1>0, <1>5 DEF AttachPublish, SessionTypes
  <2>2. UserTypes'
    BY <1>0, <1>5 DEF AttachPublish, UserTypes, Conns, detaches
  <2> QED
    BY <1>0, <1>5, <2>1, <2>2, KeepLoopTypes, KeepQueueTypes, KeepPtyTypes, KeepCounting,
       KeepGrants DEF AttachPublish, TypesInv, TypeOK, detaches, outside, loops, closing, fanout,
       queues, pty, bounds
<1>6. CASE AttachTooLate(c)
  <2>1. SessionTypes'
    BY <1>0, <1>6 DEF AttachTooLate, Withdraw, SessionTypes
  <2>2. UserTypes'
    BY <1>0, <1>6 DEF AttachTooLate, Withdraw, UserTypes, Conns, detaches
  <2>3. QueueTypes'
    BY <1>0, <1>6 DEF AttachTooLate, Withdraw, QueueTypes
  <2> QED
    BY <1>0, <1>6, <2>1, <2>2, <2>3, KeepLoopTypes, KeepPtyTypes, KeepCounting, KeepGrants DEF
       AttachTooLate, Withdraw, TypesInv, TypeOK, detaches, loops, closing, fanout, pty, bounds
<1>7. CASE AttachRefuse(c)
  <2>1. SessionTypes'
    BY <1>0, <1>7 DEF AttachRefuse, SessionTypes, roster
  <2>2. UserTypes'
    BY <1>0, <1>7 DEF AttachRefuse, UserTypes, Conns, detaches
  <2> QED
    BY <1>0, <1>7, <2>1, <2>2, KeepLoopTypes, KeepQueueTypes, KeepPtyTypes, KeepCounting,
       KeepGrants DEF AttachRefuse, TypesInv, TypeOK, detaches, outside, loops, closing, fanout,
       queues, pty, bounds
<1> QED
  BY <1>1, <1>2, <1>3, <1>4, <1>5, <1>6, <1>7 DEF Attach

\* Every step of detachClient keeps the types.
LEMMA DetachKeepsTypes ==
  ASSUME TypesInv, NEW c \in Clients, Detach(c)
  PROVE  TypesInv'
<1>0. SessionTypes /\ UserTypes /\ LoopTypes /\ QueueTypes /\ PtyTypes /\ Counting /\ GrantsPending
  BY DEF TypesInv, TypeOK
<1>1. CASE DetachUnlink(c)
  <2>1. SessionTypes'
    BY <1>0, <1>1, WithoutType, HeirType DEF DetachUnlink, SessionTypes, locks
  <2>2. UserTypes'
    BY <1>0, <1>1, HeirType DEF DetachUnlink, UserTypes, SessionTypes
  <2> QED
    BY <1>0, <1>1, <2>1, <2>2, KeepLoopTypes, KeepQueueTypes, KeepPtyTypes, KeepCounting,
       KeepGrants DEF DetachUnlink, TypesInv, TypeOK, locks, outside, loops, closing, fanout,
       queues, pty, bounds
<1>2. CASE DetachClose(c)
  <2>1. UserTypes'
    BY <1>0, <1>2 DEF DetachClose, UserTypes
  <2>2. QueueTypes'
    BY <1>0, <1>2 DEF DetachClose, QueueTypes
  <2> QED
    BY <1>0, <1>2, <2>1, <2>2, KeepSessionTypes, KeepLoopTypes, KeepPtyTypes, KeepCounting,
       KeepGrants DEF DetachClose, TypesInv, TypeOK, session, roster, locks, loops, closing,
       fanout, pty, bounds
<1>3. CASE DetachPromote(c)
  <2>1. UserTypes'
    BY <1>0, <1>3 DEF DetachPromote, UserTypes
  <2>2. QueueTypes'
    BY <1>0, <1>3, OfferType DEF DetachPromote, QueueTypes, UserTypes, Frames, Role, Roles
  <2> QED
    BY <1>0, <1>3, <2>1, <2>2, KeepSessionTypes, KeepLoopTypes, KeepPtyTypes, KeepCounting,
       KeepGrants DEF DetachPromote, TypesInv, TypeOK, session, roster, locks, loops, closing,
       fanout, pty, bounds
<1>4. CASE DetachTell(c)
  <2>1. UserTypes'
    BY <1>0, <1>4 DEF DetachTell, UserTypes
  <2>2. LoopTypes'
    BY <1>0, <1>4 DEF DetachTell, LoopTypes, loops, closing, Publishers, SessionTypes
  <2> QED
    BY <1>0, <1>4, <2>1, <2>2, KeepSessionTypes, KeepQueueTypes, KeepPtyTypes, KeepCounting,
       KeepGrants DEF DetachTell, TypesInv, TypeOK, session, roster, locks, loops, closing,
       queues, pty, bounds
<1>5. CASE DetachTold(c)
  <2>1. UserTypes'
    BY <1>0, <1>5 DEF DetachTold, UserTypes
  <2> QED
    BY <1>0, <1>5, <2>1, KeepSessionTypes, KeepLoopTypes, KeepQueueTypes, KeepPtyTypes,
       KeepCounting, KeepGrants DEF DetachTold, TypesInv, TypeOK, session, roster, locks, outside,
       loops, closing, fanout, queues, pty, bounds
<1> QED
  BY <1>1, <1>2, <1>3, <1>4, <1>5 DEF Detach

\* Every other step of a connection keeps the types.
LEMMA ConnectionKeepsTypes ==
  ASSUME TypesInv, NEW c \in Clients, Connection(c), ~Attach(c)
  PROVE  TypesInv'
<1>0. SessionTypes /\ UserTypes /\ LoopTypes /\ QueueTypes /\ PtyTypes /\ Counting /\ GrantsPending
  BY DEF TypesInv, TypeOK
<1>1. CASE Disconnect(c)
  <2>1. UserTypes'
    BY <1>0, <1>1 DEF Disconnect, UserTypes, Conns
  <2> QED
    BY <1>0, <1>1, <2>1, KeepSessionTypes, KeepLoopTypes, KeepQueueTypes, KeepPtyTypes,
       KeepCounting, KeepGrants DEF Disconnect, TypesInv, TypeOK, session, roster, locks, outside,
       loops, closing, fanout, queues, pty, bounds
<1>2. CASE Gone(c)
  <2>1. UserTypes'
    BY <1>0, <1>2 DEF Gone, OnceDone, UserTypes, Conns, detaches
  <2> QED
    BY <1>0, <1>2, <2>1, KeepSessionTypes, KeepLoopTypes, KeepQueueTypes, KeepPtyTypes,
       KeepCounting, KeepGrants DEF Gone, OnceDone, TypesInv, TypeOK, session, roster, locks,
       detaches, outside, loops, closing, fanout, queues, pty, bounds
<1>3. CASE Drain(c)
  <2>1. QueueTypes'
    BY <1>0, <1>3 DEF Drain, QueueTypes
  <2> QED
    BY <1>0, <1>3, <2>1, KeepSessionTypes, KeepUserTypes, KeepLoopTypes, KeepPtyTypes,
       KeepCounting, KeepGrants DEF Drain, TypesInv, TypeOK, session, roster, locks, users,
       detaches, loops, closing, fanout, pty, bounds
<1>4. CASE TakeControl(c)
  <2>1. SessionTypes'
    BY <1>0, <1>4 DEF TakeControl, MayOperate, SessionTypes, locks
  <2>2. UserTypes'
    <3>1. controller \in clients \ {c} => <<c, controller>> \in Seq(Clients)
      BY <1>0 DEF SessionTypes
    <3>2. <<c>> \in Seq(Clients)
      OBVIOUS
    <3> QED
      BY <1>0, <1>4, <3>1, <3>2 DEF TakeControl, UserTypes, Ops, detaches
  <2>3. PtyTypes'
    BY <1>0, <1>4 DEF TakeControl, MayOperate, PtyTypes, pty
  <2>4. GrantsPending'
    <3>1. <<c>> # <<>> /\ <<c, controller>> # <<>>
      OBVIOUS
    <3> QED
      BY <1>0, <1>4, <3>1 DEF TakeControl, GrantsPending, UserTypes
  <2> QED
    BY <1>0, <1>4, <2>1, <2>2, <2>3, <2>4, KeepLoopTypes, KeepQueueTypes, KeepCounting DEF
       TakeControl, MayOperate, TypesInv, TypeOK, locks, detaches, loops, closing, fanout, queues,
       pty
<1>5. CASE SendGrant(c)
  <2>1. UserTypes'
    <3>1. Tail(grants[c]) \in Seq(Clients)
      BY <1>0, <1>5, HeadTailProperties DEF SendGrant, GrantsPending, UserTypes
    <3> QED
      BY <1>0, <1>5, <3>1 DEF SendGrant, UserTypes, Ops, detaches
  <2>2. QueueTypes'
    <3>1. Head(grants[c]) \in Clients
      BY <1>0, <1>5, HeadTailProperties DEF SendGrant, GrantsPending, UserTypes
    <3>2. Role(IF Head(grants[c]) = c THEN "controller" ELSE "observer") \in Frames
      BY DEF Role, Roles, Frames
    <3>3. stream' \in [Clients -> Seq(Frames)]
      BY <1>0, <1>5, <3>1, <3>2, OfferType DEF SendGrant
    <3> QED
      BY <1>0, <1>5, <3>3 DEF SendGrant, QueueTypes
  <2>3. GrantsPending'
    <3>1. grants[c] # <<>> /\ grants[c] \in Seq(Clients)
      BY <1>0, <1>5 DEF SendGrant, GrantsPending, UserTypes
    <3>2. Len(Tail(grants[c])) = Len(grants[c]) - 1 /\ Len(grants[c]) \in Nat
      BY <3>1, HeadTailProperties
    <3>3. Len(grants[c]) # 1 => Tail(grants[c]) # <<>>
      <4>1. Len(<<>>) = 0
        BY EmptySeq
      <4>2. Tail(grants[c]) = <<>> => Len(Tail(grants[c])) = 0
        BY <4>1, Zenon
      <4> QED
        BY <3>2, <4>2
    <3> QED
      BY <1>0, <1>5, <3>3 DEF SendGrant, GrantsPending, UserTypes
  <2> QED
    BY <1>0, <1>5, <2>1, <2>2, <2>3, KeepSessionTypes, KeepLoopTypes, KeepPtyTypes,
       KeepCounting DEF SendGrant, TypesInv, TypeOK, session, roster, locks, detaches, loops,
       closing, fanout, pty, bounds
<1>6. CASE WriteBegin(c)
  <2>1. SessionTypes'
    BY <1>0, <1>6 DEF WriteBegin, MayOperate, SessionTypes, roster
  <2>2. UserTypes'
    BY <1>0, <1>6 DEF WriteBegin, MayOperate, UserTypes, Ops, detaches
  <2>3. PtyTypes'
    BY <1>0, <1>6 DEF WriteBegin, MayOperate, PtyTypes, pty
  <2>4. GrantsPending'
    BY <1>0, <1>6 DEF WriteBegin, MayOperate, GrantsPending, UserTypes
  <2> QED
    BY <1>0, <1>6, <2>1, <2>2, <2>3, <2>4, KeepLoopTypes, KeepQueueTypes, KeepCounting DEF
       WriteBegin, MayOperate, TypesInv, TypeOK, roster, detaches, loops, closing, fanout, queues,
       pty
<1>7. CASE WriteEnd(c)
  <2>1. SessionTypes'
    BY <1>0, <1>7 DEF WriteEnd, SessionTypes, roster
  <2>2. UserTypes'
    BY <1>0, <1>7 DEF WriteEnd, UserTypes, Ops, detaches
  <2>3. PtyTypes'
    BY <1>0, <1>7 DEF WriteEnd, PtyTypes, bounds
  <2>4. GrantsPending'
    BY <1>0, <1>7 DEF WriteEnd, GrantsPending, UserTypes
  <2> QED
    BY <1>0, <1>7, <2>1, <2>2, <2>3, <2>4, KeepLoopTypes, KeepQueueTypes, KeepCounting DEF
       WriteEnd, TypesInv, TypeOK, roster, detaches, loops, closing, fanout, queues, bounds
<1>8. CASE ResizeBegin(c)
  <2>1. SessionTypes'
    BY <1>0, <1>8 DEF ResizeBegin, MayOperate, SessionTypes, roster
  <2>2. UserTypes'
    BY <1>0, <1>8 DEF ResizeBegin, MayOperate, UserTypes, Ops, detaches
  <2>3. GrantsPending'
    BY <1>0, <1>8 DEF ResizeBegin, MayOperate, GrantsPending, UserTypes
  <2> QED
    BY <1>0, <1>8, <2>1, <2>2, <2>3, KeepLoopTypes, KeepQueueTypes, KeepPtyTypes, KeepCounting
       DEF ResizeBegin, MayOperate, TypesInv, TypeOK, roster, detaches, outside, loops, closing,
       fanout, queues, pty, bounds
<1>9. CASE ResizeEnd(c)
  <2>1. SessionTypes'
    BY <1>0, <1>9 DEF ResizeEnd, SessionTypes, roster
  <2>2. UserTypes'
    BY <1>0, <1>9 DEF ResizeEnd, UserTypes, Ops, detaches
  <2>3. GrantsPending'
    BY <1>0, <1>9 DEF ResizeEnd, GrantsPending, UserTypes
  <2> QED
    BY <1>0, <1>9, <2>1, <2>2, <2>3, KeepLoopTypes, KeepQueueTypes, KeepPtyTypes, KeepCounting
       DEF ResizeEnd, TypesInv, TypeOK, roster, detaches, outside, loops, closing, fanout, queues,
       pty, bounds
<1> QED
  BY <1>1, <1>2, <1>3, <1>4, <1>5, <1>6, <1>7, <1>8, <1>9 DEF Connection

\* The loops of publishBinary and broadcastText keep the types.
LEMMA FanoutKeepsTypes ==
  ASSUME TypesInv, NEW p \in Publishers, Fanout(p)
  PROVE  TypesInv'
<1>0. SessionTypes /\ UserTypes /\ LoopTypes /\ QueueTypes /\ PtyTypes /\ Counting /\ GrantsPending
  BY DEF TypesInv, TypeOK
<1>1. CASE Deliver(p)
  <2>1. UserTypes'
    BY <1>0, <1>1 DEF Deliver, UserTypes, LoopTypes
  <2>2. LoopTypes'
    BY <1>0, <1>1 DEF Deliver, LoopTypes, loops, closing
  <2>3. QueueTypes'
    <3>1. FrameOf(p) \in Frames
      BY <1>0, <1>1, FrameOfType DEF Deliver
    <3>2. \A c \in Clients : Append(stream[c], FrameOf(p)) \in Seq(Frames)
      BY <1>0, <3>1, AppendProperties DEF QueueTypes
    <3>3. todo[p] \subseteq Clients
      BY <1>0 DEF LoopTypes
    <3> QED
      BY <1>0, <1>1, <3>2, <3>3 DEF Deliver, QueueTypes
  <2> QED
    BY <1>0, <1>1, <2>1, <2>2, <2>3, KeepSessionTypes, KeepPtyTypes, KeepCounting, KeepGrants
       DEF Deliver, TypesInv, TypeOK, session, roster, locks, loops, closing, pty, bounds
<1>2. CASE Detached(p)
  <2>1. LoopTypes'
    BY <1>0, <1>2 DEF Detached, OnceDone, LoopTypes, loops, closing
  <2> QED
    BY <1>0, <1>2, <2>1, KeepSessionTypes, KeepUserTypes, KeepQueueTypes, KeepPtyTypes,
       KeepCounting, KeepGrants DEF Detached, OnceDone, TypesInv, TypeOK, session, roster, locks,
       users, detaches, loops, closing, queues, pty, bounds
<1> QED
  BY <1>1, <1>2 DEF Fanout

\* Every step of readLoop keeps the types.
LEMMA ReadLoopKeepsTypes ==
  ASSUME TypesInv, ReadLoop
  PROVE  TypesInv'
<1>0. SessionTypes /\ UserTypes /\ LoopTypes /\ QueueTypes /\ PtyTypes /\ Counting /\ GrantsPending
  BY DEF TypesInv, TypeOK
<1>1. CASE ReadChunk
  <2>1. LoopTypes'
    BY <1>0, <1>1 DEF ReadChunk, LoopTypes, closing, fanout
  <2>2. PtyTypes'
    BY <1>0, <1>1 DEF ReadChunk, PtyTypes, bounds
  <2>3. Counting'
    BY <1>0, <1>1 DEF ReadChunk, Counting, PtyTypes, bounds
  <2> QED
    BY <1>0, <1>1, <2>1, <2>2, <2>3, KeepSessionTypes, KeepUserTypes, KeepQueueTypes,
       KeepGrants DEF ReadChunk, TypesInv, TypeOK, session, roster, locks, users, detaches,
       closing, fanout, queues, bounds
<1>2. CASE WriteHistory
  <2>1. SessionTypes'
    BY <1>0, <1>2 DEF WriteHistory, SessionTypes, roster
  <2>2. LoopTypes'
    BY <1>0, <1>2 DEF WriteHistory, LoopTypes, closing, Publishers, SessionTypes
  <2>3. PtyTypes'
    BY <1>0, <1>2 DEF WriteHistory, PtyTypes, bounds
  <2>4. Counting'
    BY <1>0, <1>2 DEF WriteHistory, Counting, PtyTypes, bounds
  <2> QED
    BY <1>0, <1>2, <2>1, <2>2, <2>3, <2>4, KeepUserTypes, KeepQueueTypes, KeepGrants DEF
       WriteHistory, TypesInv, TypeOK, roster, users, detaches, closing, queues, bounds
<1>3. CASE ReadNext
  <2>1. SessionTypes'
    BY <1>0, <1>3 DEF ReadNext, Published, SessionTypes, roster
  <2>2. LoopTypes'
    BY <1>0, <1>3 DEF ReadNext, Published, LoopTypes, closing, fanout
  <2>3. Counting'
    BY <1>0, <1>3 DEF ReadNext, Published, Counting, PtyTypes, pty, bounds
  <2> QED
    BY <1>0, <1>3, <2>1, <2>2, <2>3, KeepUserTypes, KeepQueueTypes, KeepPtyTypes, KeepGrants
       DEF ReadNext, Published, TypesInv, TypeOK, roster, users, detaches, closing, fanout, queues,
       pty, bounds
<1>4. CASE ReadEOF
  <2>1. LoopTypes'
    BY <1>0, <1>4 DEF ReadEOF, LoopTypes, closing, fanout
  <2>2. Counting'
    BY <1>0, <1>4 DEF ReadEOF, Counting, PtyTypes, pty, bounds
  <2> QED
    BY <1>0, <1>4, <2>1, <2>2, KeepSessionTypes, KeepUserTypes, KeepQueueTypes, KeepPtyTypes,
       KeepGrants DEF ReadEOF, TypesInv, TypeOK, session, roster, locks, users, detaches, closing,
       fanout, queues, pty, bounds
<1> QED
  BY <1>1, <1>2, <1>3, <1>4 DEF ReadLoop

\* Every step of waitLoop keeps the types.
LEMMA WaitLoopKeepsTypes ==
  ASSUME TypesInv, WaitLoop
  PROVE  TypesInv'
<1>0. SessionTypes /\ UserTypes /\ LoopTypes /\ QueueTypes /\ PtyTypes /\ Counting /\ GrantsPending
  BY DEF TypesInv, TypeOK
<1>1. CASE WaitReturns
  <2>1. SessionTypes'
    BY <1>0, <1>1 DEF WaitReturns, SessionTypes, locks
  <2>2. LoopTypes'
    BY <1>0, <1>1 DEF WaitReturns, LoopTypes, closing, fanout
  <2> QED
    BY <1>0, <1>1, <2>1, <2>2, KeepUserTypes, KeepQueueTypes, KeepPtyTypes, KeepCounting,
       KeepGrants DEF WaitReturns, TypesInv, TypeOK, locks, users, detaches, closing, fanout,
       queues, pty, bounds
<1>2. CASE CloseHistory
  <2>1. LoopTypes'
    BY <1>0, <1>2 DEF CloseHistory, LoopTypes, closing, fanout
  <2> QED
    BY <1>0, <1>2, <2>1, KeepSessionTypes, KeepUserTypes, KeepQueueTypes, KeepPtyTypes,
       KeepCounting, KeepGrants DEF CloseHistory, TypesInv, TypeOK, session, roster, locks, users,
       detaches, closing, fanout, queues, pty, bounds
<1>3. CASE BroadcastExit
  <2>1. SessionTypes'
    BY <1>0, <1>3 DEF BroadcastExit, SessionTypes, roster
  <2>2. LoopTypes'
    BY <1>0, <1>3 DEF BroadcastExit, LoopTypes, closing, Publishers, SessionTypes
  <2> QED
    BY <1>0, <1>3, <2>1, <2>2, KeepUserTypes, KeepQueueTypes, KeepPtyTypes, KeepCounting,
       KeepGrants DEF BroadcastExit, TypesInv, TypeOK, roster, users, detaches, closing, queues,
       pty, bounds
<1>4. CASE ReapClients
  <2>1. SessionTypes'
    BY <1>0, <1>4 DEF ReapClients, Published, SessionTypes, locks
  <2>2. LoopTypes'
    BY <1>0, <1>4 DEF ReapClients, Published, LoopTypes, closing, Publishers, SessionTypes
  <2> QED
    BY <1>0, <1>4, <2>1, <2>2, KeepUserTypes, KeepQueueTypes, KeepPtyTypes, KeepCounting,
       KeepGrants DEF ReapClients, Published, TypesInv, TypeOK, locks, users, detaches, closing,
       queues, pty, bounds
<1>5. CASE ReapOne
  <2>1. UserTypes'
    BY <1>0, <1>5 DEF ReapOne, UserTypes, LoopTypes, Publishers
  <2>2. LoopTypes'
    <3>1. "waiter" \in Publishers /\ todo["waiter"] \subseteq Clients
      BY <1>0 DEF LoopTypes, Publishers
    <3> QED
      BY <1>0, <1>5, <3>1 DEF ReapOne, LoopTypes, loops, closing
  <2>3. QueueTypes'
    BY <1>0, <1>5 DEF ReapOne, QueueTypes, LoopTypes, Publishers
  <2> QED
    BY <1>0, <1>5, <2>1, <2>2, <2>3, KeepSessionTypes, KeepPtyTypes, KeepCounting, KeepGrants
       DEF ReapOne, TypesInv, TypeOK, session, roster, locks, loops, closing, pty, bounds
<1>6. CASE Finish
  <2>1. SessionTypes'
    BY <1>0, <1>6 DEF Finish, Published, SessionTypes, roster
  <2>2. LoopTypes'
    BY <1>0, <1>6 DEF Finish, Published, LoopTypes, closing, fanout
  <2> QED
    BY <1>0, <1>6, <2>1, <2>2, KeepUserTypes, KeepQueueTypes, KeepPtyTypes, KeepCounting,
       KeepGrants DEF Finish, Published, TypesInv, TypeOK, roster, users, detaches, closing,
       fanout, queues, pty, bounds
<1> QED
  BY <1>1, <1>2, <1>3, <1>4, <1>5, <1>6 DEF WaitLoop

\* Every step of closeSession keeps the types.
LEMMA CloseKeepsTypes ==
  ASSUME TypesInv, NEW k \in Closers, Close(k)
  PROVE  TypesInv'
<1>0. SessionTypes /\ UserTypes /\ LoopTypes /\ QueueTypes /\ PtyTypes /\ Counting /\ GrantsPending
  BY DEF TypesInv, TypeOK
<1>1. CASE CloseCall(k)
  <2>1. SessionTypes'
    BY <1>0, <1>1 DEF CloseCall, SessionTypes, locks
  <2>2. LoopTypes'
    BY <1>0, <1>1 DEF CloseCall, LoopTypes, fanout, SessionTypes
  <2> QED
    BY <1>0, <1>1, <2>1, <2>2, KeepUserTypes, KeepQueueTypes, KeepPtyTypes, KeepCounting,
       KeepGrants DEF CloseCall, TypesInv, TypeOK, locks, users, detaches, fanout, queues, pty,
       bounds
<1>2. CASE CloseNotify(k)
  <2>1. LoopTypes'
    BY <1>0, <1>2 DEF CloseNotify, LoopTypes, fanout
  <2>2. QueueTypes'
    BY <1>0, <1>2, OfferType DEF CloseNotify, QueueTypes, LoopTypes, Frames, State
  <2> QED
    BY <1>0, <1>2, <2>1, <2>2, KeepSessionTypes, KeepUserTypes, KeepPtyTypes, KeepCounting,
       KeepGrants DEF CloseNotify, TypesInv, TypeOK, session, roster, locks, users, detaches,
       fanout, pty, bounds
<1>3. CASE ClosePty(k)
  <2>1. LoopTypes'
    BY <1>0, <1>3 DEF ClosePty, LoopTypes, fanout
  <2>2. PtyTypes'
    BY <1>0, <1>3 DEF ClosePty, PtyTypes, bounds
  <2> QED
    BY <1>0, <1>3, <2>1, <2>2, KeepSessionTypes, KeepUserTypes, KeepQueueTypes, KeepCounting,
       KeepGrants DEF ClosePty, TypesInv, TypeOK, session, roster, locks, users, detaches, fanout,
       queues, bounds
<1>4. CASE ClosePtyFails(k)
  <2>1. LoopTypes'
    BY <1>0, <1>4 DEF ClosePtyFails, LoopTypes, fanout
  <2> QED
    BY <1>0, <1>4, <2>1, KeepSessionTypes, KeepUserTypes, KeepQueueTypes, KeepPtyTypes,
       KeepCounting, KeepGrants DEF ClosePtyFails, TypesInv, TypeOK, session, roster, locks, users,
       detaches, fanout, queues, pty, bounds
<1>5. CASE CloseReturn(k)
  <2>1. LoopTypes'
    BY <1>0, <1>5 DEF CloseReturn, LoopTypes, fanout
  <2> QED
    BY <1>0, <1>5, <2>1, KeepSessionTypes, KeepUserTypes, KeepQueueTypes, KeepPtyTypes,
       KeepCounting, KeepGrants DEF CloseReturn, TypesInv, TypeOK, session, roster, locks, users,
       detaches, fanout, queues, pty, bounds
<1> QED
  BY <1>1, <1>2, <1>3, <1>4, <1>5 DEF Close

\* Every step of the child keeps the types.
LEMMA ChildKeepsTypes ==
  ASSUME TypesInv, Child
  PROVE  TypesInv'
<1>0. SessionTypes /\ UserTypes /\ LoopTypes /\ QueueTypes /\ PtyTypes /\ Counting /\ GrantsPending
  BY DEF TypesInv, TypeOK
<1>1. CASE ChildOutput
  <2>1. PtyTypes'
    BY <1>0, <1>1 DEF ChildOutput, Room, PtyTypes, bounds
  <2>2. Counting'
    BY <1>0, <1>1, SessionAssumption DEF ChildOutput, Room, Counting, PtyTypes, loops, bounds
  <2> QED
    BY <1>0, <1>1, <2>1, <2>2, KeepSessionTypes, KeepUserTypes, KeepLoopTypes, KeepQueueTypes,
       KeepGrants DEF ChildOutput, Room, TypesInv, TypeOK, session, roster, locks, users, detaches,
       loops, closing, fanout, queues, bounds
<1>2. CASE ChildInput
  <2>1. PtyTypes'
    BY <1>0, <1>2 DEF ChildInput, Room, PtyTypes, bounds
  <2>2. Counting'
    BY <1>0, <1>2, SessionAssumption DEF ChildInput, Room, Counting, PtyTypes, loops, bounds
  <2> QED
    BY <1>0, <1>2, <2>1, <2>2, KeepSessionTypes, KeepUserTypes, KeepLoopTypes, KeepQueueTypes,
       KeepGrants DEF ChildInput, Room, TypesInv, TypeOK, session, roster, locks, users, detaches,
       loops, closing, fanout, queues, bounds
<1>3. CASE ChildExit
  <2>1. PtyTypes'
    BY <1>0, <1>3 DEF ChildExit, PtyTypes, bounds
  <2> QED
    BY <1>0, <1>3, <2>1, KeepSessionTypes, KeepUserTypes, KeepLoopTypes, KeepQueueTypes,
       KeepCounting, KeepGrants DEF ChildExit, TypesInv, TypeOK, session, roster, locks, users,
       detaches, loops, closing, fanout, queues, bounds
<1> QED
  BY <1>1, <1>2, <1>3 DEF Child

\* TypesInv is inductive.
LEMMA StepKeepsTypes == TypesInv /\ [Next]_vars => TypesInv'
<1> SUFFICES ASSUME TypesInv, [Next]_vars PROVE TypesInv'
  OBVIOUS
<1>1. CASE UNCHANGED vars
  BY <1>1, KeepSessionTypes, KeepUserTypes, KeepLoopTypes, KeepQueueTypes, KeepPtyTypes,
     KeepCounting, KeepGrants
     DEF vars, outside, users, loops, pty, TypesInv, TypeOK
<1>2. ASSUME NEW c \in Clients, Connection(c) PROVE TypesInv'
  BY <1>2, AttachKeepsTypes, ConnectionKeepsTypes
<1>3. ASSUME NEW c \in Clients, Detach(c) PROVE TypesInv'
  BY <1>3, DetachKeepsTypes
<1>4. ASSUME NEW p \in Publishers, Fanout(p) PROVE TypesInv'
  BY <1>4, FanoutKeepsTypes
<1>5. ASSUME NEW k \in Closers, Close(k) PROVE TypesInv'
  BY <1>5, CloseKeepsTypes
<1>6. CASE ReadLoop \/ WaitLoop \/ Child
  BY <1>6, ReadLoopKeepsTypes, WaitLoopKeepsTypes, ChildKeepsTypes
<1> QED
  BY <1>1, <1>2, <1>3, <1>4, <1>5, <1>6 DEF Next

\* TypesInv holds of a new runtime.
LEMMA InitTypes == Init => TypesInv
<1> SUFFICES ASSUME Init PROVE TypesInv
  OBVIOUS
<1>1. SessionTypes
  <2>1. <<>> \in Seq(Clients)
    OBVIOUS
  <2> QED
    BY <2>1 DEF Init, SessionTypes
<1>2. UserTypes
  BY DEF Init, UserTypes, Conns, Ops
<1>3. LoopTypes
  BY DEF Init, LoopTypes
<1>4. QueueTypes
  BY DEF Init, QueueTypes
<1>5. PtyTypes
  <2>1. {hist, readN, produced, inBuf, takes, writes} = {0}
    BY DEF Init
  <2>2. alive = TRUE /\ hungUp = FALSE
    BY DEF Init
  <2>3. alive \in BOOLEAN /\ hungUp \in BOOLEAN
    BY <2>2
  <2>4. {hist, readN, produced, inBuf, takes, writes} \subseteq Nat
    BY <2>1
  <2> QED
    BY <2>3, <2>4 DEF PtyTypes
<1>6. Counting
  BY SessionAssumption DEF Init, Counting
<1>7. GrantsPending
  BY DEF Init, GrantsPending
<1> QED
  BY <1>1, <1>2, <1>3, <1>4, <1>5, <1>6, <1>7 DEF TypesInv, TypeOK

\* Type correctness: every variable of the runtime keeps its type, and every frame ever
\* queued for a client is a frame of the protocol that carries a chunk the child wrote.
THEOREM TypesHold == Spec => []TypeOK
<1>1. TypesInv => TypeOK
  BY DEF TypesInv
<1> QED
  BY <1>1, InitTypes, StepKeepsTypes, PTL DEF Spec
=============================================================================
