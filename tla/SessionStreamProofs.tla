-------------------------- MODULE SessionStreamProofs --------------------------
(***************************************************************************)
(* What the clients of a terminal session are sent, for every number of    *)
(* clients, every queue and every history: a replay that comes first and   *)
(* meets the live output (ReplayMeetsLive), one uninterrupted stream of    *)
(* chunks (NoGap), and the exit, which reaches the clients that stay and   *)
(* which no output follows (ExitReachesKeptClients).                       *)
(*                                                                         *)
(* The streams only ever grow at their end, so that what a replay put      *)
(* there stays (Shaped); what is live follows from who is owed the chunk   *)
(* that readLoop has just written to the history (Flows).  Both need that  *)
(* frames are sent to published clients only (Addressees), and that a      *)
(* client whose Detach has run is out of the map (Unlinked).  The exit     *)
(* needs besides that waitLoop knows whom it has still to tell (Informed). *)
(*                                                                         *)
(* And who waits for whom when a client is slow: no mutex is lost and no   *)
(* Detaches wait for each other in a circle (WaitInv), so that nothing but *)
(* a child that does not read its input keeps a publisher (WaitsEnd).      *)
(***************************************************************************)
EXTENDS SessionControlProofs

-----------------------------------------------------------------------------
(* Who is sent frames.                                                      *)

\* Whoever a goroutine is about to send a frame to has been published, and so has whoever
\* is being detached.
Addressees ==
  /\ \A p \in Publishers : \A c \in todo[p] : conn[c] \in Admitted
  /\ \A c \in Clients : notice[c] \in Clients => conn[notice[c]] \in Admitted
  /\ \A c \in Clients : \A i \in DOMAIN grants[c] : conn[grants[c][i]] \in Admitted
  /\ \A c \in Clients : detach[c] # "none" => conn[c] \in Admitted
  /\ \A c \in closeTodo : conn[c] \in Admitted

\* Past its critical section, a Detach has its client out of the map for good.
Unlinked ==
  \A c \in Clients :
    /\ detach[c] \in {"closing", "closed", "telling", "done"} => c \notin clients
    /\ detach[c] = "reaped" => waiter \in {"reaping", "done"}

\* Between two chunks readLoop owes nobody a frame.
Reading == reader # "publishing" => todo["reader"] = {} /\ stuck["reader"] = NoClient

AddressInv == Addressees /\ Unlinked /\ Reading

\* What a step of attach does not touch.
LEMMA AttachFrame ==
  ASSUME NEW c \in Clients, Attach(c)
  PROVE  /\ UNCHANGED <<todo, stuck, detach, notice, grants, op, closeTodo, reader, waiter,
                        hist, readN, produced, sent>>
         /\ UNCHANGED <<stream, base>> \/ AttachReplay(c)
         /\ UNCHANGED clients \/ AttachPublish(c)
         /\ \A d \in Clients \ {c} : conn \in [Clients -> Conns] => conn'[d] = conn[d]
BY DEF Attach, AttachLock, AttachRefuse, AttachReserve, AttachReplay, AttachFail, Withdraw,
   AttachPublish, AttachTooLate, session, roster, locks, users, detaches, outside, loops,
   fanout, queues, pty, closing, bounds

\* What a step of detachClient does not touch.
LEMMA DetachFrame ==
  ASSUME NEW c \in Clients, Detach(c)
  PROVE  /\ UNCHANGED <<stuck, conn, grants, op, closeTodo, reader, waiter, hist, readN,
                        produced, sent, base>>
         /\ UNCHANGED stream \/ DetachPromote(c)
         /\ UNCHANGED clients \/ DetachUnlink(c)
         /\ UNCHANGED todo \/ DetachTell(c)
         /\ UNCHANGED notice \/ DetachUnlink(c)
BY DEF Detach, DetachUnlink, DetachClose, DetachPromote, DetachTell, DetachTold, session,
   roster, locks, users, detaches, outside, loops, fanout, queues, pty, closing, bounds

\* What any other step of a connection does not touch.
LEMMA ConnectionFrame ==
  ASSUME NEW c \in Clients, Connection(c), ~Attach(c)
  PROVE  /\ UNCHANGED <<todo, stuck, notice, closeTodo, reader, waiter, hist, readN, produced,
                        base, clients, open>>
         /\ UNCHANGED stream \/ SendGrant(c)
         /\ UNCHANGED grants \/ SendGrant(c) \/ TakeControl(c)
         /\ UNCHANGED <<conn, detach>> \/ Disconnect(c) \/ (Gone(c) /\ UNCHANGED detach)
BY DEF Connection, Disconnect, Gone, Drain, TakeControl, SendGrant, WriteBegin, WriteEnd,
   ResizeBegin, ResizeEnd, session, roster, locks, users, detaches, outside, loops, fanout,
   queues, pty, closing, bounds

\* What a step of readLoop does not touch.
LEMMA ReadFrame ==
  ASSUME ReadLoop
  PROVE  /\ UNCHANGED <<stuck, conn, detach, notice, grants, op, closeTodo, waiter, produced,
                        sent, base, clients, stream, open>>
         /\ UNCHANGED <<todo, hist>> \/ WriteHistory
BY DEF ReadLoop, ReadChunk, WriteHistory, ReadNext, ReadEOF, session, roster, locks, users,
   detaches, outside, loops, fanout, queues, pty, closing, bounds

\* What a step of waitLoop does not touch.
LEMMA WaitFrame ==
  ASSUME WaitLoop
  PROVE  /\ UNCHANGED <<conn, notice, grants, op, closeTodo, reader, hist, readN, produced,
                        sent, base, stream>>
         /\ UNCHANGED clients \/ ReapClients
         /\ UNCHANGED <<detach, stuck>> \/ ReapOne
         /\ UNCHANGED todo \/ BroadcastExit \/ ReapClients \/ ReapOne
BY DEF WaitLoop, WaitReturns, CloseHistory, BroadcastExit, ReapClients, ReapOne, Finish,
   session, roster, locks, users, detaches, outside, loops, fanout, queues, pty, closing, bounds

\* What a step of closeSession or of the child does not touch.
LEMMA CloseFrame ==
  ASSUME Child \/ \E k \in Closers : Close(k)
  PROVE  /\ UNCHANGED <<todo, stuck, conn, detach, notice, grants, op, reader, waiter, hist,
                        readN, sent, base, clients, open>>
         /\ UNCHANGED stream \/ \E k \in Closers : CloseNotify(k)
         /\ UNCHANGED closeTodo \/ \E k \in Closers : CloseNotify(k) \/ CloseCall(k)
BY DEF Child, ChildOutput, ChildInput, ChildExit, Close, CloseCall, CloseNotify, ClosePty,
   ClosePtyFails, CloseReturn, session, roster, locks, users, detaches, outside, loops, fanout,
   queues, pty, closing, bounds

\* A published connection stays published.
LEMMA StaysAdmitted ==
  ASSUME TypesInv, [Next]_vars
  PROVE  \A c \in Clients : conn[c] \in Admitted => conn'[c] \in Admitted
<1>0. conn \in [Clients -> Conns]
  BY DEF TypesInv, TypeOK, UserTypes
<1>1. CASE UNCHANGED conn
  BY <1>1
<1>2. ASSUME NEW c \in Clients, Attach(c)
      PROVE  \A d \in Clients : conn[d] \in Admitted => conn'[d] \in Admitted
  <2>1. conn[c] \notin Admitted
    BY <1>2 DEF Attach, AttachLock, AttachRefuse, AttachReserve, AttachReplay, AttachFail,
       AttachPublish, AttachTooLate, Admitted
  <2> QED
    BY <1>0, <1>2, <2>1, AttachFrame
<1>3. ASSUME NEW c \in Clients, Disconnect(c) \/ Gone(c)
      PROVE  \A d \in Clients : conn[d] \in Admitted => conn'[d] \in Admitted
  BY <1>0, <1>3 DEF Disconnect, Gone, Admitted
<1>4. ASSUME NEW p \in Publishers, Fanout(p) PROVE UNCHANGED conn
  BY <1>4 DEF Fanout, Deliver, Detached, users
<1>5. UNCHANGED vars => UNCHANGED conn
  BY DEF vars, users
<1> QED
  BY <1>1, <1>2, <1>3, <1>4, <1>5, ConnectionFrame, DetachFrame, ReadFrame, WaitFrame,
     CloseFrame DEF Next


\* Every step keeps Addressees: whom it will send to next is in the map, or was an
\* addressee already.
LEMMA StepKeepsAddressees ==
  ASSUME TypesInv, ControlInv, Addressees, [Next]_vars
  PROVE  Addressees'
<1>0. /\ SessionTypes /\ UserTypes /\ LoopTypes /\ GrantsPending /\ Admission
      /\ clients \subseteq Clients /\ controller \in Clients \cup {NoClient}
  BY DEF TypesInv, TypeOK, ControlInv, SessionTypes
<1>1. /\ \A c \in Clients : conn[c] \in Admitted => conn'[c] \in Admitted
      /\ \A c \in clients : conn'[c] \in Admitted
  BY <1>0, StaysAdmitted DEF Admission
<1> DEFINE Todo   == \A p \in Publishers : \A c \in todo[p] : conn[c] \in Admitted
           Notice == \A c \in Clients : notice[c] \in Clients => conn[notice[c]] \in Admitted
           Grants == \A c \in Clients : \A i \in DOMAIN grants[c] : conn[grants[c][i]] \in Admitted
           Detach1 == \A c \in Clients : detach[c] # "none" => conn[c] \in Admitted
           Closing == \A c \in closeTodo : conn[c] \in Admitted
<1>2. Todo /\ Notice /\ Grants /\ Detach1 /\ Closing
  BY DEF Addressees
<1>3. ASSUME \A p \in Publishers : todo'[p] \subseteq todo[p] \cup clients PROVE Todo'
  BY <1>0, <1>1, <1>2, <1>3 DEF LoopTypes
<1>4. ASSUME \A c \in Clients : notice'[c] = notice[c] \/ notice'[c] \in clients
                                  \/ notice'[c] \notin Clients
      PROVE  Notice'
  BY <1>0, <1>1, <1>2, <1>4
<1>5. ASSUME UNCHANGED grants PROVE Grants'
  <2>1. \A c \in Clients : \A i \in DOMAIN grants[c] : grants[c][i] \in Clients
    BY <1>0 DEF UserTypes
  <2> QED
    BY <1>1, <1>2, <1>5, <2>1
<1>6. ASSUME \A c \in Clients : detach'[c] # "none" => detach[c] # "none" \/ conn[c] \in Admitted
      PROVE  Detach1'
  BY <1>1, <1>2, <1>6
<1>7. ASSUME closeTodo' \subseteq closeTodo \cup clients PROVE Closing'
  BY <1>0, <1>1, <1>2, <1>7 DEF LoopTypes
<1>8. ASSUME Todo', Notice', Grants', Detach1', Closing' PROVE Addressees'
  BY <1>8 DEF Addressees
<1> HIDE DEF Todo, Notice, Grants, Detach1, Closing
<1>9. CASE UNCHANGED <<todo, notice, grants, detach, closeTodo>>
  BY <1>3, <1>4, <1>5, <1>6, <1>7, <1>8, <1>9
<1>10. ASSUME NEW c \in Clients, DetachUnlink(c) PROVE Addressees'
  <2>1. UNCHANGED <<todo, grants, closeTodo>>
    BY <1>10, DetachFrame DEF Detach, DetachUnlink, outside, fanout
  <2>2. \A d \in Clients : notice'[d] = notice[d] \/ notice'[d] \in clients
                             \/ notice'[d] \notin Clients
    BY <1>0, <1>10, SessionAssumption DEF DetachUnlink, UserTypes
  <2>3. \A d \in Clients : detach'[d] # "none" => detach[d] # "none"
    BY <1>0, <1>10 DEF DetachUnlink, UserTypes
  <2> QED
    BY <1>3, <1>4, <1>5, <1>6, <1>7, <1>8, <2>1, <2>2, <2>3
<1>11. ASSUME NEW c \in Clients, Detach(c), ~DetachUnlink(c) PROVE Addressees'
  <2>1. UNCHANGED <<notice, grants, closeTodo>>
    BY <1>11, DetachFrame
  <2>2. \A p \in Publishers : todo'[p] \subseteq todo[p] \cup clients
    BY <1>0, <1>11, DetachFrame DEF DetachTell, LoopTypes
  <2>3. \A d \in Clients : detach'[d] # "none" => detach[d] # "none"
    BY <1>0, <1>11 DEF Detach, DetachClose, DetachPromote, DetachTell, DetachTold, UserTypes
  <2> QED
    BY <1>3, <1>4, <1>5, <1>6, <1>7, <1>8, <2>1, <2>2, <2>3
<1>12. ASSUME NEW c \in Clients, Connection(c), ~Attach(c) PROVE Addressees'
  <2>1. UNCHANGED <<todo, notice, closeTodo>>
    BY <1>12, ConnectionFrame
  <2>2. \A d \in Clients : detach'[d] # "none" => detach[d] # "none" \/ conn[d] \in Admitted
    BY <1>0, <1>12, ConnectionFrame DEF Disconnect, UserTypes, Admitted
  <2>3. Grants'
    <3>1. CASE SendGrant(c)
      <4>1. grants[c] \in Seq(Clients) /\ grants[c] # <<>>
        BY <1>0, <3>1 DEF SendGrant, GrantsPending, UserTypes
      <4>2. /\ Len(Tail(grants[c])) = Len(grants[c]) - 1 /\ Len(grants[c]) \in Nat
            /\ Tail(grants[c]) \in Seq(Clients)
            /\ \A i \in 1 .. Len(Tail(grants[c])) : Tail(grants[c])[i] = grants[c][i + 1]
        BY <4>1, HeadTailProperties, LenProperties
      <4>3. /\ grants'[c] = Tail(grants[c])
            /\ \A d \in Clients \ {c} : grants'[d] = grants[d]
        BY <1>0, <3>1 DEF SendGrant, UserTypes
      <4>4. \A d \in Clients : \A i \in DOMAIN grants[d] : grants[d][i] \in Clients
        BY <1>0 DEF UserTypes
      <4>5. \A i \in DOMAIN Tail(grants[c]) : i + 1 \in DOMAIN grants[c]
        BY <4>1, <4>2
      <4>6. \A i \in DOMAIN grants'[c] : conn'[grants'[c][i]] \in Admitted
        BY <1>1, <1>2, <4>2, <4>3, <4>4, <4>5 DEF Grants
      <4>7. \A d \in Clients \ {c} : \A i \in DOMAIN grants'[d] : conn'[grants'[d][i]] \in Admitted
        BY <1>1, <1>2, <4>3, <4>4 DEF Grants
      <4> QED
        BY <4>6, <4>7 DEF Grants
    <3>2. CASE TakeControl(c)
      <4>1. conn[c] \in Admitted
        BY <3>2 DEF TakeControl, MayOperate, Admitted
      <4>2. \/ UNCHANGED grants
            \/ /\ grants'[c] = <<c, controller>> /\ controller \in clients
               /\ \A d \in Clients \ {c} : grants'[d] = grants[d]
            \/ /\ grants'[c] = <<c>>
               /\ \A d \in Clients \ {c} : grants'[d] = grants[d]
        BY <1>0, <3>2 DEF TakeControl, UserTypes
      <4>3. CASE \/ grants'[c] = <<c, controller>> /\ controller \in clients
                 \/ grants'[c] = <<c>>
        <5>1. \A i \in DOMAIN grants'[c] : grants'[c][i] \in clients \cup {c}
          BY <4>3
        <5>2. \A i \in DOMAIN grants'[c] : conn'[grants'[c][i]] \in Admitted
          BY <1>0, <1>1, <4>1, <5>1
        <5>3. \A d \in Clients \ {c} : grants'[d] = grants[d]
          BY <4>2
        <5>4. \A d \in Clients : \A i \in DOMAIN grants[d] : grants[d][i] \in Clients
          BY <1>0 DEF UserTypes
        <5>5. \A d \in Clients \ {c} : \A i \in DOMAIN grants'[d] : conn'[grants'[d][i]] \in Admitted
          BY <1>1, <1>2, <5>3, <5>4 DEF Grants
        <5> QED
          BY <5>2, <5>5 DEF Grants
      <4> QED
        BY <1>5, <4>2, <4>3
    <3> QED
      BY <1>5, <1>12, <3>1, <3>2, ConnectionFrame
  <2> QED
    BY <1>3, <1>4, <1>6, <1>7, <1>8, <2>1, <2>2, <2>3
<1>13. ASSUME NEW p \in Publishers, Fanout(p) PROVE Addressees'
  <2>1. UNCHANGED <<notice, grants, closeTodo>>
    BY <1>13 DEF Fanout, Deliver, Detached, users, detaches, loops, closing
  <2>2. \A q \in Publishers : todo'[q] \subseteq todo[q]
    BY <1>0, <1>13 DEF Fanout, Deliver, Detached, LoopTypes
  <2>3. \A d \in Clients : detach'[d] # "none" => detach[d] # "none" \/ conn[d] \in Admitted
    BY <1>0, <1>2, <1>13 DEF Fanout, Deliver, Detached, UserTypes, users, detaches, Todo
  <2> QED
    BY <1>3, <1>4, <1>5, <1>6, <1>7, <1>8, <2>1, <2>2, <2>3
<1>14. CASE ReadLoop
  <2>1. \A q \in Publishers : todo'[q] \subseteq todo[q] \cup clients
    BY <1>0, <1>14, ReadFrame DEF WriteHistory, LoopTypes
  <2> QED
    BY <1>3, <1>4, <1>5, <1>6, <1>7, <1>8, <1>14, <2>1, ReadFrame
<1>15. CASE WaitLoop
  <2>1. \A q \in Publishers : todo'[q] \subseteq todo[q] \cup clients
    BY <1>0, <1>15, WaitFrame DEF BroadcastExit, ReapClients, ReapOne, LoopTypes
  <2>2. \A d \in Clients : detach'[d] # "none" => detach[d] # "none" \/ conn[d] \in Admitted
    <3>1. "waiter" \in Publishers
      BY DEF Publishers
    <3> QED
      BY <1>0, <1>2, <1>15, <3>1, WaitFrame DEF ReapOne, UserTypes, Todo
  <2> QED
    BY <1>3, <1>4, <1>5, <1>6, <1>7, <1>8, <1>15, <2>1, <2>2, WaitFrame
<1>16. CASE Child \/ \E k \in Closers : Close(k)
  <2>1. closeTodo' \subseteq closeTodo \cup clients
    BY <1>0, <1>16, CloseFrame DEF CloseNotify, CloseCall, LoopTypes
  <2> QED
    BY <1>3, <1>4, <1>5, <1>6, <1>7, <1>8, <1>16, <2>1, CloseFrame
<1>17. ASSUME NEW c \in Clients, Attach(c) PROVE Addressees'
  BY <1>9, <1>17, AttachFrame
<1>18. UNCHANGED vars => UNCHANGED <<todo, notice, grants, detach, closeTodo>>
  BY DEF vars, users, detaches, outside, fanout, loops, closing
<1> QED
  BY <1>9, <1>10, <1>11, <1>12, <1>13, <1>14, <1>15, <1>16, <1>17, <1>18 DEF Next

\* Every step keeps Unlinked: only an attach puts a client into the map, and one that was
\* never detached.
LEMMA StepKeepsUnlinked ==
  ASSUME TypesInv, ControlInv, Addressees, Unlinked, [Next]_vars
  PROVE  Unlinked'
<1>0. SessionTypes /\ UserTypes /\ LoopTypes /\ Addressees
  BY DEF TypesInv, TypeOK
<1>1. CASE UNCHANGED <<detach, clients, waiter>>
  BY <1>1 DEF Unlinked
<1>2. ASSUME NEW c \in Clients, Attach(c) PROVE Unlinked'
  <2>1. UNCHANGED <<detach, waiter>> /\ (UNCHANGED clients \/ AttachPublish(c))
    BY <1>2, AttachFrame
  <2>2. CASE AttachPublish(c)
    <3>1. detach[c] = "none" /\ clients' = clients \cup {c}
      BY <1>0, <2>2 DEF AttachPublish, Addressees, Admitted
    <3> QED
      BY <2>1, <3>1 DEF Unlinked
  <2> QED
    BY <1>1, <2>1, <2>2
<1>3. ASSUME NEW c \in Clients, Detach(c) PROVE Unlinked'
  <2>1. CASE DetachUnlink(c)
    BY <1>0, <2>1 DEF DetachUnlink, Unlinked, UserTypes, outside, loops
  <2>2. CASE DetachClose(c) \/ DetachPromote(c) \/ DetachTell(c) \/ DetachTold(c)
    <3>1. UNCHANGED <<clients, waiter>> /\ detach[c] \in {"closing", "closed", "telling"}
      BY <2>2 DEF DetachClose, DetachPromote, DetachTell, DetachTold, session, roster,
         outside, loops
    <3>2. detach'[c] \in {"closed", "telling", "done"} /\ \A d \in Clients \ {c} : detach'[d] = detach[d]
      BY <1>0, <2>2 DEF DetachClose, DetachPromote, DetachTell, DetachTold, UserTypes
    <3> QED
      BY <3>1, <3>2 DEF Unlinked
  <2> QED
    BY <1>3, <2>1, <2>2 DEF Detach
<1>4. ASSUME NEW c \in Clients, Connection(c), ~Attach(c) PROVE Unlinked'
  <2>1. UNCHANGED <<clients, waiter>>
    BY <1>4, ConnectionFrame
  <2>2. \A d \in Clients : detach'[d] = detach[d] \/ detach'[d] = "locking"
    BY <1>0, <1>4, ConnectionFrame DEF Disconnect, UserTypes
  <2> QED
    BY <2>1, <2>2 DEF Unlinked
<1>5. ASSUME NEW p \in Publishers, Fanout(p) PROVE Unlinked'
  <2>1. UNCHANGED <<clients, waiter>>
    BY <1>5 DEF Fanout, Deliver, Detached, session, roster, loops
  <2>2. \A d \in Clients : detach'[d] = detach[d] \/ detach'[d] = "locking"
    BY <1>0, <1>5 DEF Fanout, Deliver, Detached, UserTypes, LoopTypes, users, detaches
  <2> QED
    BY <2>1, <2>2 DEF Unlinked
<1>6. CASE WaitLoop
  <2>1. clients' \subseteq clients
    BY <1>6, WaitFrame DEF ReapClients
  <2>2. waiter \in {"reaping", "done"} => waiter' \in {"reaping", "done"}
    BY <1>6 DEF WaitLoop, WaitReturns, CloseHistory, BroadcastExit, ReapClients, ReapOne, Finish,
       loops
  <2>3. \A d \in Clients : detach'[d] = detach[d] \/ (detach'[d] = "reaped" /\ waiter = "reaping")
    BY <1>0, <1>6, WaitFrame DEF ReapOne, UserTypes, LoopTypes
  <2> QED
    BY <2>1, <2>2, <2>3 DEF Unlinked
<1>7. CASE ReadLoop \/ Child \/ \E k \in Closers : Close(k)
  BY <1>1, <1>7, ReadFrame, CloseFrame
<1>8. UNCHANGED vars => UNCHANGED <<detach, clients, waiter>>
  BY DEF vars, users, detaches, outside, loops, session, roster
<1> QED
  BY <1>1, <1>2, <1>3, <1>4, <1>5, <1>6, <1>7, <1>8 DEF Next

\* Every step keeps Reading: what readLoop owes grows only when it begins to publish, and
\* it goes on only when nothing is left of it.
LEMMA StepKeepsReading ==
  ASSUME TypesInv, Reading, [Next]_vars
  PROVE  Reading'
<1>0. LoopTypes /\ "reader" \in Publishers /\ "reader" \notin Clients /\ "reader" # "waiter"
  BY SessionAssumption DEF TypesInv, TypeOK, Publishers
<1>1. CASE UNCHANGED <<reader, todo, stuck>>
  BY <1>1 DEF Reading
<1>2. ASSUME UNCHANGED reader,
             todo'["reader"] = todo["reader"], stuck'["reader"] = stuck["reader"]
      PROVE  Reading'
  BY <1>2 DEF Reading
<1>3. ASSUME NEW c \in Clients, Detach(c) PROVE Reading'
  <2>1. c # "reader"
    BY <1>0
  <2>2. UNCHANGED <<reader, stuck>> /\ todo'["reader"] = todo["reader"]
    BY <1>0, <1>3, <2>1, DetachFrame DEF DetachTell, LoopTypes
  <2> QED
    BY <1>2, <2>2
<1>4. ASSUME NEW p \in Publishers, Fanout(p) PROVE Reading'
  <2>1. UNCHANGED reader
    BY <1>4 DEF Fanout, Deliver, Detached, loops
  <2>2. CASE p = "reader" /\ Deliver(p)
    BY <2>1, <2>2 DEF Deliver, Publishing, Reading
  <2>3. CASE p = "reader" /\ Detached(p)
    BY <1>0, <2>1, <2>3 DEF Detached, Reading, LoopTypes
  <2>4. CASE p # "reader"
    <3>1. todo'["reader"] = todo["reader"] /\ stuck'["reader"] = stuck["reader"]
      BY <1>0, <1>4, <2>4 DEF Fanout, Deliver, Detached, LoopTypes
    <3> QED
      BY <1>2, <2>1, <3>1
  <2> QED
    BY <1>4, <2>2, <2>3, <2>4 DEF Fanout
<1>5. CASE ReadLoop
  <2>1. CASE WriteHistory
    BY <2>1 DEF WriteHistory, Reading
  <2>2. CASE ReadChunk \/ ReadEOF
    BY <2>2 DEF ReadChunk, ReadEOF, Reading, fanout
  <2>3. CASE ReadNext
    BY <2>3 DEF ReadNext, Published, Reading, fanout
  <2> QED
    BY <1>5, <2>1, <2>2, <2>3 DEF ReadLoop
<1>6. CASE WaitLoop
  <2>1. UNCHANGED reader /\ todo'["reader"] = todo["reader"] /\ stuck'["reader"] = stuck["reader"]
    BY <1>0, <1>6, WaitFrame DEF BroadcastExit, ReapClients, ReapOne, LoopTypes
  <2> QED
    BY <1>2, <2>1
<1>7. ASSUME NEW c \in Clients, Connection(c) PROVE Reading'
  BY <1>1, <1>7, AttachFrame, ConnectionFrame
<1>8. CASE Child \/ \E k \in Closers : Close(k)
  BY <1>1, <1>8, CloseFrame
<1>9. UNCHANGED vars => UNCHANGED <<reader, todo, stuck>>
  BY DEF vars, outside, fanout, loops
<1> QED
  BY <1>1, <1>3, <1>4, <1>5, <1>6, <1>7, <1>8, <1>9 DEF Next

\* AddressInv is inductive, relative to the types and to ControlInv.
LEMMA AddressInvHolds == Spec => [](TypesInv /\ ControlInv /\ AddressInv)
<1>1. Init => AddressInv
  <2> SUFFICES ASSUME Init PROVE AddressInv
    OBVIOUS
  <2>1. Addressees
    <3>1. \A c \in Clients : notice[c] = "nobody" /\ "nobody" \notin Clients
      BY SessionAssumption DEF Init
    <3>2. \A c \in Clients : DOMAIN grants[c] = {}
      BY DEF Init
    <3> QED
      BY <3>1, <3>2 DEF Init, Addressees
  <2>2. Unlinked
    BY DEF Init, Unlinked
  <2>3. Reading
    BY DEF Init, Reading, Publishers
  <2> QED
    BY <2>1, <2>2, <2>3 DEF AddressInv
<1>2. TypesInv /\ ControlInv /\ AddressInv /\ [Next]_vars => AddressInv'
  BY StepKeepsAddressees, StepKeepsUnlinked, StepKeepsReading DEF AddressInv
<1> QED
  BY <1>1, <1>2, ControlInvHolds, PTL DEF Spec

-----------------------------------------------------------------------------
(* What a step appends to the streams.                                      *)

\* readLoop puts the chunk it is publishing in the queue of a client.
Delivered(c) ==
  /\ reader = "publishing" /\ stuck["reader"] = NoClient /\ c \in todo["reader"]
  /\ todo' = [todo EXCEPT !["reader"] = @ \ {c}]
  /\ stream' = [stream EXCEPT ![c] = Append(@, Output(readN))]
  /\ UNCHANGED <<session, loops, conn, stuck, pty>>

\* A frame is put in the queue of a published client: a role, a state, the exit, or the
\* chunk readLoop is publishing.
Sent(c, frame) ==
  /\ conn[c] \in Admitted
  /\ UNCHANGED base
  /\ stream' = [stream EXCEPT ![c] = Append(@, frame)]
  /\ \/ frame.type \in {"role", "state"}
     \/ frame = Exited /\ waiter = "broadcasting"
     \/ frame = Output(readN) /\ Delivered(c)

\* A best effort frame is sent or dropped.
LEMMA OfferSends ==
  ASSUME NEW c \in Clients, NEW frame, Offer(c, frame), conn[c] \in Admitted, UNCHANGED base,
         frame.type \in {"role", "state"}
  PROVE  UNCHANGED <<stream, base>> \/ Sent(c, frame)
BY DEF Offer, Sent

\* A step leaves the streams alone, queues a replay or sends one frame.
LEMMA StreamSteps ==
  ASSUME TypesInv, ControlInv, Addressees, [Next]_vars
  PROVE  \/ UNCHANGED <<stream, base>>
         \/ \E c \in Clients : AttachReplay(c)
         \/ \E c \in Clients, frame \in Frames : Sent(c, frame)
<1>0. SessionTypes /\ UserTypes /\ LoopTypes /\ PtyTypes /\ Counting /\ GrantsPending
  BY DEF TypesInv, TypeOK
<1>1. ASSUME NEW c \in Clients, Attach(c)
      PROVE  UNCHANGED <<stream, base>> \/ AttachReplay(c)
  BY <1>1, AttachFrame
<1>2. ASSUME NEW c \in Clients, Detach(c)
      PROVE  UNCHANGED <<stream, base>> \/ \E d \in Clients, frame \in Frames : Sent(d, frame)
  <2>1. UNCHANGED base /\ (UNCHANGED stream \/ DetachPromote(c))
    BY <1>2, DetachFrame
  <2>2. CASE DetachPromote(c)
    <3>1. notice[c] \in Clients /\ conn[notice[c]] \in Admitted /\ Offer(notice[c], Role("controller"))
      BY <2>2 DEF DetachPromote, Addressees
    <3>2. Role("controller") \in Frames /\ Role("controller").type = "role"
      BY DEF Role, Frames, Roles
    <3> QED
      BY <2>1, <3>1, <3>2, OfferSends
  <2> QED
    BY <2>1, <2>2
<1>3. ASSUME NEW c \in Clients, Connection(c), ~Attach(c)
      PROVE  UNCHANGED <<stream, base>> \/ \E d \in Clients, frame \in Frames : Sent(d, frame)
  <2>1. UNCHANGED base /\ (UNCHANGED stream \/ SendGrant(c))
    BY <1>3, ConnectionFrame
  <2>2. CASE SendGrant(c)
    <3> DEFINE frame == Role(IF Head(grants[c]) = c THEN "controller" ELSE "observer")
    <3>1. grants[c] \in Seq(Clients) /\ grants[c] # <<>>
      BY <1>0, <2>2 DEF SendGrant, GrantsPending, UserTypes
    <3>2. Head(grants[c]) = grants[c][1] /\ 1 \in DOMAIN grants[c] /\ Head(grants[c]) \in Clients
      BY <3>1
    <3>3. conn[Head(grants[c])] \in Admitted
      BY <3>2 DEF Addressees
    <3>4. frame \in Frames /\ frame.type = "role"
      BY DEF Role, Frames, Roles
    <3>5. Offer(Head(grants[c]), frame)
      BY <2>2 DEF SendGrant
    <3> HIDE DEF frame
    <3> QED
      BY <2>1, <3>2, <3>3, <3>4, <3>5, OfferSends
  <2> QED
    BY <2>1, <2>2
<1>4. ASSUME NEW p \in Publishers, Fanout(p)
      PROVE  UNCHANGED <<stream, base>> \/ \E d \in Clients, frame \in Frames : Sent(d, frame)
  <2>1. CASE Detached(p)
    BY <2>1 DEF Detached, queues
  <2>2. CASE Deliver(p)
    <3>1. PICK c \in todo[p] :
            \/ /\ stream' = [stream EXCEPT ![c] = Append(@, FrameOf(p))]
               /\ todo' = [todo EXCEPT ![p] = @ \ {c}]
               /\ UNCHANGED stuck
            \/ UNCHANGED stream
      BY <2>2 DEF Deliver
    <3>2. c \in Clients /\ conn[c] \in Admitted /\ UNCHANGED base /\ Publishing(p)
      BY <1>0, <2>2, <3>1 DEF Deliver, Addressees, LoopTypes
    <3>3. FrameOf(p) \in Frames
      BY <1>0, <3>2, FrameOfType
    <3>4. CASE p = "reader"
      <4>1. UNCHANGED <<session, loops, conn, pty>> /\ reader = "publishing" /\ stuck["reader"] = NoClient
        BY <2>2, <3>4 DEF Deliver, Publishing
      <4>2. FrameOf(p) = Output(readN)
        BY <3>4 DEF FrameOf
      <4> QED
        BY <3>1, <3>2, <3>3, <3>4, <4>1, <4>2 DEF Sent, Delivered
    <3>5. CASE p = "waiter"
      BY <3>1, <3>2, <3>3, <3>5 DEF FrameOf, Publishing, Sent
    <3>6. CASE p \notin {"reader", "waiter"}
      <4>1. FrameOf(p) = State /\ FrameOf(p).type = "state"
        BY <3>6 DEF FrameOf, State
      <4> QED
        BY <3>1, <3>2, <3>3, <4>1 DEF Sent
    <3> QED
      BY <3>4, <3>5, <3>6
  <2> QED
    BY <1>4, <2>1, <2>2 DEF Fanout
<1>5. CASE Child \/ \E k \in Closers : Close(k)
  <2>1. UNCHANGED base /\ (UNCHANGED stream \/ \E k \in Closers : CloseNotify(k))
    BY <1>5, CloseFrame
  <2>2. ASSUME NEW k \in Closers, CloseNotify(k)
        PROVE  UNCHANGED <<stream, base>> \/ \E d \in Clients, frame \in Frames : Sent(d, frame)
    <3>1. PICK c \in closeTodo : Offer(c, State)
      BY <2>2 DEF CloseNotify
    <3>2. c \in Clients /\ conn[c] \in Admitted
      BY <1>0, <3>1 DEF Addressees, LoopTypes
    <3>3. State \in Frames /\ State.type = "state"
      BY DEF State, Frames
    <3> QED
      BY <2>1, <3>1, <3>2, <3>3, OfferSends
  <2> QED
    BY <2>1, <2>2
<1>6. CASE ReadLoop \/ WaitLoop
  BY <1>6, ReadFrame, WaitFrame
<1>7. UNCHANGED vars => UNCHANGED <<stream, base>>
  BY DEF vars, outside, queues
<1> QED
  BY <1>1, <1>2, <1>3, <1>4, <1>5, <1>6, <1>7 DEF Next

\* A frame that is put in a queue comes after everything there, and nowhere else.
LEMMA Appends ==
  ASSUME stream \in [Clients -> Seq(Frames)], NEW c \in Clients, NEW frame \in Frames,
         stream' = [stream EXCEPT ![c] = Append(@, frame)]
  PROVE  /\ Len(stream[c]) \in Nat
         /\ DOMAIN stream[c] = 1..Len(stream[c]) /\ DOMAIN stream'[c] = 1 .. Len(stream[c]) + 1
         /\ \A i \in 1..Len(stream[c]) : stream'[c][i] = stream[c][i]
         /\ stream'[c][Len(stream[c]) + 1] = frame
         /\ \A d \in Clients \ {c} : stream'[d] = stream[d]
<1>1. stream[c] \in Seq(Frames) /\ stream'[c] = Append(stream[c], frame)
  OBVIOUS
<1> QED
  BY <1>1, AppendProperties, LenProperties

-----------------------------------------------------------------------------
(* The replay.                                                              *)

\* Fewer chunks are not more bytes.
LEMMA Monotony ==
  ASSUME NEW a \in Nat, NEW b \in Nat, NEW c \in Nat, a <= b
  PROVE  a * c <= b * c
<1>1. b * c - a * c = (b - a) * c
  OBVIOUS
<1>2. (b - a) * c >= 0
  OBVIOUS
<1> QED
  BY <1>1, <1>2

\* A queue that holds the two text frames of a replay and m chunks.
LEMMA BytesQueued ==
  ASSUME NEW m \in Nat, NEW q \in Seq(Frames), Len(q) = m + 2,
         q[1].type # "output", q[2].type # "output",
         \A i \in 3 .. m + 2 : q[i].type = "output"
  PROVE  BytesOf(q) = m * ChunkBytes + 2 * TextBytes
<1>1. DOMAIN q = 1 .. m + 2
  BY LenProperties
<1>2. {i \in DOMAIN q : q[i].type = "output"} = 3 .. m + 2
  <2>1. \A i \in 1 .. m + 2 : i = 1 \/ i = 2 \/ i \in 3 .. m + 2
    OBVIOUS
  <2>2. 3 .. m + 2 \subseteq 1 .. m + 2
    OBVIOUS
  <2> QED
    BY <1>1, <2>1, <2>2
<1>3. Cardinality(3 .. m + 2) = m
  <2>1. 3 \in Int /\ m + 2 \in Int /\ (m + 2) - 3 + 1 = m /\ (3 > m + 2 => m = 0)
    OBVIOUS
  <2> QED
    BY <2>1, FS_Interval
<1>4. BytesOf(q) = m * ChunkBytes + ((m + 2) - m) * TextBytes
  BY <1>2, <1>3 DEF BytesOf
<1>5. (m + 2) - m = 2
  OBVIOUS
<1> QED
  BY <1>4, <1>5

\* With room for the replay no chunk of the tail is left out.
LEMMA TailFits ==
  ASSUME NEW header \in Seq(Frames), Len(header) = 2,
         header[1].type # "output", header[2].type # "output",
         NEW tail \in Seq(Frames), \A i \in 1..Len(tail) : tail[i].type = "output",
         Len(tail) <= ReplayMax, RoomForReplay
  PROVE  FittingChunks(header, tail) = Len(tail)
<1>1. Len(tail) \in Nat /\ ReplayMax \in Nat
      /\ QueueSize \in Nat /\ QueueBytes \in Nat /\ TextBytes \in Nat /\ ChunkBytes \in Nat
  BY SessionAssumption, LenProperties
<1>2. ASSUME NEW i \in 1..Len(tail)
      PROVE  Fits(header \o SubSeq(tail, 1, i - 1), TextBytes + ChunkBytes)
  <2> DEFINE q == header \o SubSeq(tail, 1, i - 1)
  <2>1. /\ SubSeq(tail, 1, i - 1) \in Seq(Frames) /\ Len(SubSeq(tail, 1, i - 1)) = i - 1
        /\ \A j \in 1 .. i - 1 : SubSeq(tail, 1, i - 1)[j] = tail[j]
    <3>1. i - 1 \in Int /\ \A j \in 1 .. i - 1 : tail[j] \in Frames /\ 1 + j - 1 = j
      BY <1>1
    <3>2. (i - 1) - 1 + 1 = i - 1 /\ (1 <= i - 1 \/ i - 1 = 0)
      BY <1>1
    <3> QED
      BY <3>1, <3>2, SubSeqProperties
  <2>2. /\ q \in Seq(Frames) /\ Len(q) = (i - 1) + 2
        /\ q[1] = header[1] /\ q[2] = header[2]
        /\ \A j \in 3 .. (i - 1) + 2 : q[j] = tail[j - 2]
    <3> DEFINE piece == SubSeq(tail, 1, i - 1)
    <3>1. piece \in Seq(Frames) /\ Len(piece) = i - 1
      BY <2>1
    <3> HIDE DEF piece
    <3>2. /\ header \o piece \in Seq(Frames)
          /\ Len(header \o piece) = Len(header) + Len(piece)
          /\ \A j \in 1 .. Len(header) + Len(piece) :
               (header \o piece)[j] = IF j <= Len(header) THEN header[j] ELSE piece[j - Len(header)]
      BY <3>1, ConcatProperties
    <3>3. \A j \in 3 .. (i - 1) + 2 : (header \o piece)[j] = piece[j - 2] /\ j - 2 \in 1 .. i - 1
      BY <1>1, <3>1, <3>2
    <3>4. (header \o piece)[1] = header[1] /\ (header \o piece)[2] = header[2]
      BY <1>1, <3>1, <3>2
    <3>5. \A j \in 1 .. i - 1 : piece[j] = tail[j]
      BY <2>1 DEF piece
    <3>6. Len(header \o piece) = (i - 1) + 2
      BY <1>1, <3>1, <3>2
    <3> QED
      BY <3>2, <3>3, <3>4, <3>5, <3>6 DEF piece
  <2> HIDE DEF q
  <2>3. \A j \in 3 .. (i - 1) + 2 : q[j].type = "output"
    BY <1>1, <2>2
  <2>4. BytesOf(q) = (i - 1) * ChunkBytes + 2 * TextBytes
    <3>1. i - 1 \in Nat
      BY <1>1
    <3> QED
      BY <2>2, <2>3, <3>1, BytesQueued
  <2>5. i * ChunkBytes <= ReplayMax * ChunkBytes /\ (i - 1) * ChunkBytes + ChunkBytes = i * ChunkBytes
    <3>1. i \in Nat /\ i <= ReplayMax
      BY <1>1
    <3> QED
      BY <1>1, <3>1, Monotony
  <2>6. Len(q) < QueueSize
    BY <1>1, <2>2 DEF RoomForReplay
  <2>7. BytesOf(q) + (TextBytes + ChunkBytes) <= QueueBytes
    <3> DEFINE a == (i - 1) * ChunkBytes
               b == i * ChunkBytes
               d == ReplayMax * ChunkBytes
    <3>1. a \in Int /\ b \in Int /\ d \in Int
      BY <1>1
    <3>2. b <= d /\ a + ChunkBytes = b /\ d + 3 * TextBytes <= QueueBytes
      BY <2>5 DEF RoomForReplay
    <3>3. BytesOf(q) = a + 2 * TextBytes
      BY <2>4
    <3> HIDE DEF a, b, d
    <3>4. a + 2 * TextBytes + (TextBytes + ChunkBytes) <= QueueBytes
      BY <1>1, <3>1, <3>2
    <3> QED
      BY <3>3, <3>4
  <2> QED
    BY <2>6, <2>7 DEF Fits, q
<1>3. {n \in 1..Len(tail) :
         \A i \in 1..n : Fits(header \o SubSeq(tail, 1, i - 1), TextBytes + ChunkBytes)}
        = 1..Len(tail)
  <2>1. \A n \in 1..Len(tail) : \A i \in 1..n : i \in 1..Len(tail)
    BY <1>1
  <2> QED
    BY <1>2, <2>1, Zenon
<1>4. Cardinality(1..Len(tail)) = Len(tail)
  <2>1. 1 \in Int /\ Len(tail) \in Int /\ Len(tail) - 1 + 1 = Len(tail) /\ (1 > Len(tail) => Len(tail) = 0)
    BY <1>1
  <2> QED
    BY <2>1, FS_Interval
<1> QED
  BY <1>3, <1>4 DEF FittingChunks

\* What enqueueReplay queues: started and replay_started, the oldest n chunks of the tail,
\* and replay_finished, which says truncated if that is not the whole history.
LEMMA ReplayIs ==
  ASSUME Counting, PtyTypes, NEW c \in Clients
  PROVE  \E n \in 0..Shown :
           /\ Len(Replay(c).frames) = n + 3
           /\ Replay(c).frames[1].type = "started" /\ Replay(c).frames[2].type = "replay_started"
           /\ \A i \in 3 .. n + 2 : Replay(c).frames[i] = Output(hist - Shown + (i - 2))
           /\ Replay(c).frames[n + 3].type = "replay_finished"
           /\ ~Replay(c).frames[n + 3].truncated => hist <= ReplayMax /\ n = Shown
           /\ RoomForReplay => n = Shown
<1> DEFINE header == << Started(IF controller = c THEN "controller" ELSE "observer"), ReplayStarted >>
           n == FittingChunks(header, ReplayTail)
           piece == SubSeq(ReplayTail, 1, n)
           truncated == hist > ReplayMax \/ n < Len(ReplayTail)
<1>1. /\ hist \in 0..MaxChunks /\ Shown \in 0..hist /\ MaxChunks \in Nat
      /\ ReplayTail \in Seq(Frames) /\ Len(ReplayTail) = Shown
      /\ \A i \in 1..Shown : ReplayTail[i] = Output(i + hist - Shown)
  <2>1. Seq(Frames \ {Exited}) \subseteq Seq(Frames)
    OBVIOUS
  <2> QED
    BY <2>1, TailType, SessionAssumption
<1>2. /\ header \in Seq(Frames) /\ Len(header) = 2
      /\ header[1].type = "started" /\ header[2].type = "replay_started"
  BY DEF Started, ReplayStarted, Frames, Roles
<1>3. Replay(c).frames = Append(header \o piece, ReplayFinished(truncated))
  BY DEF Replay
<1> HIDE DEF header
<1>4. n \in 0..Shown
  BY <1>1, <1>2, FittingType
<1>5. RoomForReplay => n = Shown
  <2>1. \A i \in 1..Len(ReplayTail) : ReplayTail[i].type = "output"
    BY <1>1 DEF Output
  <2>2. Len(ReplayTail) <= ReplayMax
    BY <1>1, SessionAssumption DEF Shown
  <2> QED
    BY <1>1, <1>2, <2>1, <2>2, TailFits
<1> HIDE DEF n
<1>6. n \in Nat /\ n <= Shown /\ Shown \in Nat /\ hist \in Nat
  BY <1>1, <1>4
<1>7. /\ piece \in Seq(Frames) /\ Len(piece) = n
      /\ \A j \in 1..n : piece[j] = ReplayTail[j]
  <2>1. n \in Int /\ (\A j \in 1..n : ReplayTail[j] \in Frames /\ 1 + j - 1 = j)
    BY <1>1, <1>6
  <2>2. n - 1 + 1 = n /\ (1 <= n \/ n = 0)
    BY <1>6
  <2> QED
    BY <2>1, <2>2, SubSeqProperties
<1> HIDE DEF piece
<1>8. /\ header \o piece \in Seq(Frames) /\ Len(header \o piece) = n + 2
      /\ \A j \in 1 .. n + 2 : (header \o piece)[j] = IF j <= 2 THEN header[j] ELSE piece[j - 2]
  <2>1. /\ header \o piece \in Seq(Frames)
        /\ Len(header \o piece) = Len(header) + Len(piece)
        /\ \A j \in 1 .. Len(header) + Len(piece) :
             (header \o piece)[j] = IF j <= Len(header) THEN header[j] ELSE piece[j - Len(header)]
    BY <1>2, <1>7, ConcatProperties
  <2>2. Len(header) + Len(piece) = n + 2
    BY <1>2, <1>6, <1>7
  <2> QED
    BY <1>2, <2>1, <2>2
<1> DEFINE body == header \o piece
<1>9. body \in Seq(Frames) /\ Len(body) = n + 2
      /\ \A j \in 1 .. n + 2 : body[j] = IF j <= 2 THEN header[j] ELSE piece[j - 2]
  BY <1>8
<1>10. Replay(c).frames = Append(body, ReplayFinished(truncated))
  BY <1>3
<1> HIDE DEF body
<1>11. ReplayFinished(truncated) \in Frames /\ ReplayFinished(truncated).type = "replay_finished"
       /\ ReplayFinished(truncated).truncated = truncated
  <2>1. truncated \in BOOLEAN
    BY DEF truncated
  <2> HIDE DEF truncated
  <2> QED
    BY <2>1 DEF ReplayFinished, Frames
<1> DEFINE last == ReplayFinished(truncated)
<1>12. last \in Frames /\ last.type = "replay_finished" /\ last.truncated = truncated
       /\ Replay(c).frames = Append(body, last)
  BY <1>10, <1>11
<1> HIDE DEF last
<1>13. /\ Len(Append(body, last)) = (n + 2) + 1
       /\ \A i \in 1 .. n + 2 : Append(body, last)[i] = body[i]
       /\ Append(body, last)[(n + 2) + 1] = last
  BY <1>9, <1>12, AppendProperties
<1>14. (n + 2) + 1 = n + 3
  BY <1>6
<1>15. Append(body, last)[1] = header[1] /\ Append(body, last)[2] = header[2]
  BY <1>6, <1>9, <1>13
<1>16. \A i \in 3 .. n + 2 : Append(body, last)[i] = Output(hist - Shown + (i - 2))
  <2>1. \A i \in 3 .. n + 2 : /\ i \in 1 .. n + 2 /\ ~(i <= 2) /\ i - 2 \in 1..n /\ i - 2 \in 1..Shown
                              /\ i - 2 + hist - Shown = hist - Shown + (i - 2)
    BY <1>6
  <2> QED
    BY <1>1, <1>7, <1>9, <1>13, <2>1
<1>17. ~truncated => hist <= ReplayMax /\ n = Shown
  <2>1. ReplayMax \in Nat
    BY SessionAssumption
  <2> QED
    BY <1>1, <1>6, <2>1
<1> HIDE DEF truncated
<1> QED
  BY <1>2, <1>4, <1>5, <1>12, <1>13, <1>14, <1>15, <1>16, <1>17

-----------------------------------------------------------------------------
(* The stream of a client.                                                  *)

\* The chunks of the history that the replay of c leaves out in front.
Skipped(c) == IF base[c] > ReplayMax THEN base[c] - ReplayMax ELSE 0

\* The replay of c ends at place e.
Shaped(c, e) ==
  /\ e \in DOMAIN stream[c] /\ e >= 3 /\ e <= base[c] - Skipped(c) + 3
  /\ stream[c][1].type = "started" /\ stream[c][2].type = "replay_started"
  /\ \A i \in 3 .. e - 1 : stream[c][i] = Output(Skipped(c) + (i - 2))
  /\ \A i \in DOMAIN stream[c] : i >= e => (stream[c][i].type = "replay_finished" <=> i = e)
  /\ ~stream[c][e].truncated => base[c] <= ReplayMax /\ e = base[c] + 3
  /\ RoomForReplay => e = base[c] - Skipped(c) + 3

\* The chunks after place e are those after base[c] up to to.
Follows(c, e, to) ==
  /\ \A i \in DOMAIN stream[c] : i > e /\ stream[c][i].type = "output" =>
       stream[c][i].chunk \in base[c] + 1 .. to
  /\ \A i, j \in DOMAIN stream[c] :
       i > e /\ i < j /\ stream[c][i].type = "output" /\ stream[c][j].type = "output" =>
         stream[c][i].chunk < stream[c][j].chunk
  /\ \A n \in base[c] + 1 .. to : \E i \in DOMAIN stream[c] :
       i > e /\ stream[c][i].type = "output" /\ stream[c][i].chunk = n

\* Whom readLoop owes the chunk it is publishing, or waits for because the queue is full.
Owed == IF reader = "publishing" THEN todo["reader"] \cup {stuck["reader"]} ELSE {}

\* How far the live output of c has come, the replay ending at place e.
Flows(c, e) ==
  \E now \in Nat :
    /\ now = hist
    /\ \E to \in base[c] .. now : Follows(c, e, to)
    /\ conn[c] = "publishing" => base[c] = now
    /\ conn[c] = "publishing" \/ c \in clients \ Owed => Follows(c, e, now)
    /\ c \in Owed => base[c] < now /\ Follows(c, e, now - 1)

\* A stream begins with the replay.
Begun ==
  \A c \in Clients :
    /\ conn[c] \in {"idle", "attaching", "replaying"} => stream[c] = <<>>
    /\ conn[c] \in Admitted \cup {"publishing"} => stream[c] # <<>>

\* And flows on from there.
Streams == \A c \in Clients : stream[c] # <<>> => \E e \in Nat : Shaped(c, e) /\ Flows(c, e)

\* How a connection gets to the replay and past it.
LEMMA ConnSteps ==
  ASSUME TypesInv, [Next]_vars, NEW c \in Clients
  PROVE  /\ conn'[c] \in {"idle", "attaching", "replaying"} =>
              conn[c] \in {"idle", "attaching", "replaying"}
         /\ conn'[c] \in Admitted \cup {"publishing"} =>
              conn[c] \in Admitted \cup {"publishing"} \/ AttachReplay(c)
         /\ conn'[c] = "publishing" => conn[c] = "publishing" \/ AttachReplay(c)
<1>0. conn \in [Clients -> Conns]
  BY DEF TypesInv, TypeOK, UserTypes
<1>1. CASE conn'[c] = conn[c]
  BY <1>1
<1>2. ASSUME NEW d \in Clients, Attach(d), d # c PROVE conn'[c] = conn[c]
  BY <1>0, <1>2, AttachFrame
<1>3. CASE Attach(c)
  BY <1>0, <1>3 DEF Attach, AttachLock, AttachRefuse, AttachReserve, AttachReplay, AttachFail,
     AttachPublish, AttachTooLate, Withdraw, Admitted
<1>4. ASSUME NEW d \in Clients, Disconnect(d) \/ Gone(d)
      PROVE  conn'[c] = conn[c] \/ (conn[c] \in Admitted /\ conn'[c] \in {"leaving", "gone"})
  BY <1>0, <1>4 DEF Disconnect, Gone, Admitted
<1>5. ASSUME NEW p \in Publishers, Fanout(p) PROVE UNCHANGED conn
  BY <1>5 DEF Fanout, Deliver, Detached, users
<1>6. UNCHANGED vars => UNCHANGED conn
  BY DEF vars, users
<1>7. CASE \E d \in Clients : Disconnect(d) \/ Gone(d)
  BY <1>1, <1>4, <1>7 DEF Admitted
<1> QED
  BY <1>1, <1>2, <1>3, <1>5, <1>6, <1>7, ConnectionFrame, DetachFrame, ReadFrame, WaitFrame,
     CloseFrame DEF Next

\* Whom readLoop owes: while it publishes, a client leaves the debt by a delivery, or out of
\* the map; the clients that join the map are those an attach publishes.
LEMMA OwedSteps ==
  ASSUME TypesInv, ControlInv, AddressInv, [Next]_vars, ~WriteHistory, NEW c \in Clients
  PROVE  /\ hist' = hist
         /\ c \in Owed' => c \in Owed
         /\ c \in clients' \ Owed' => c \in clients \ Owed \/ conn[c] = "publishing" \/ Delivered(c)
<1>0. /\ LoopTypes /\ "reader" \in Publishers /\ "reader" \notin Clients /\ "reader" # "waiter"
      /\ c # NoClient /\ Unlinked /\ Reading /\ Ending
  BY SessionAssumption DEF TypesInv, TypeOK, Publishers, AddressInv, ControlInv
<1>1. ASSUME UNCHANGED <<reader, clients>>, todo'["reader"] = todo["reader"],
             stuck'["reader"] = stuck["reader"]
      PROVE  (c \in Owed' => c \in Owed) /\ (c \in clients' \ Owed' => c \in clients \ Owed)
  BY <1>1 DEF Owed
<1>2. ASSUME NEW d \in Clients, Attach(d)
      PROVE  /\ hist' = hist /\ Owed' = Owed
             /\ c \in clients' => c \in clients \/ conn[c] = "publishing"
  BY <1>2, AttachFrame DEF AttachPublish, Owed
<1>3. ASSUME NEW d \in Clients, Connection(d), ~Attach(d)
      PROVE  hist' = hist /\ UNCHANGED <<reader, clients, todo, stuck>>
  BY <1>3, ConnectionFrame
<1>4. ASSUME NEW d \in Clients, Detach(d)
      PROVE  hist' = hist /\ Owed' = Owed /\ clients' \subseteq clients
  <2>1. UNCHANGED <<reader, stuck, hist>> /\ todo'["reader"] = todo["reader"]
    BY <1>0, <1>4, DetachFrame DEF DetachTell, LoopTypes
  <2>2. clients' \subseteq clients
    BY <1>4, DetachFrame DEF DetachUnlink
  <2> QED
    BY <2>1, <2>2 DEF Owed
<1>5. ASSUME NEW p \in Publishers, Fanout(p)
      PROVE  /\ hist' = hist
             /\ c \in Owed' => c \in Owed
             /\ c \in clients' \ Owed' => c \in clients \ Owed \/ Delivered(c)
  <2>1. UNCHANGED <<hist, reader, clients>>
    BY <1>5 DEF Fanout, Deliver, Detached, session, roster, loops, pty
  <2>2. CASE p # "reader"
    <3>1. todo'["reader"] = todo["reader"] /\ stuck'["reader"] = stuck["reader"]
      BY <1>0, <1>5, <2>2 DEF Fanout, Deliver, Detached, LoopTypes
    <3> QED
      BY <1>1, <2>1, <3>1
  <2>3. CASE p = "reader" /\ Detached("reader")
    <3>1. /\ todo' = todo /\ stuck'["reader"] = NoClient
          /\ stuck["reader"] # NoClient /\ OnceDone(stuck["reader"])
      BY <1>0, <2>3 DEF Detached, LoopTypes
    <3>2. reader = "publishing"
      BY <1>0, <3>1 DEF Reading
    <3>3. stuck["reader"] = c => c \notin clients
      BY <1>0, <3>1 DEF OnceDone, Unlinked, Ending
    <3> QED
      BY <1>0, <2>1, <3>1, <3>2, <3>3 DEF Owed
  <2>4. CASE p = "reader" /\ Deliver("reader")
    <3>1. reader = "publishing" /\ stuck["reader"] = NoClient
      BY <2>4 DEF Deliver, Publishing
    <3>2. PICK d \in todo["reader"] :
            /\ todo' = [todo EXCEPT !["reader"] = @ \ {d}]
            /\ \/ /\ stream' = [stream EXCEPT ![d] = Append(@, Output(readN))]
                  /\ UNCHANGED stuck
               \/ stuck' = [stuck EXCEPT !["reader"] = d]
      BY <2>4 DEF Deliver, FrameOf
    <3>3. UNCHANGED <<session, loops, conn, pty>>
      BY <2>4 DEF Deliver
    <3>4. todo'["reader"] = todo["reader"] \ {d}
      BY <1>0, <3>2 DEF LoopTypes
    <3>5. CASE UNCHANGED stuck /\ stream' = [stream EXCEPT ![d] = Append(@, Output(readN))]
      <4>1. Delivered(d)
        BY <3>1, <3>2, <3>3, <3>5 DEF Delivered
      <4> QED
        BY <1>0, <2>1, <3>1, <3>4, <3>5, <4>1 DEF Owed
    <3>6. CASE stuck' = [stuck EXCEPT !["reader"] = d]
      <4>1. stuck'["reader"] = d
        BY <1>0, <3>6 DEF LoopTypes
      <4> QED
        BY <1>0, <2>1, <3>1, <3>2, <3>4, <4>1 DEF Owed
    <3> QED
      BY <3>2, <3>5, <3>6
  <2> QED
    BY <1>5, <2>2, <2>3, <2>4 DEF Fanout
<1>6. CASE ReadLoop
  <2>1. UNCHANGED <<hist, clients, todo, stuck>>
    BY <1>6, ReadFrame
  <2>2. CASE ReadChunk \/ ReadEOF
    <3>1. reader # "publishing" /\ reader' # "publishing"
      BY <2>2 DEF ReadChunk, ReadEOF
    <3> QED
      BY <2>1, <3>1 DEF Owed
  <2>3. CASE ReadNext
    <3>1. reader = "publishing" /\ reader' # "publishing" /\ todo["reader"] = {}
          /\ stuck["reader"] = NoClient
      BY <2>3 DEF ReadNext, Published
    <3> QED
      BY <1>0, <2>1, <3>1 DEF Owed
  <2> QED
    BY <1>6, <2>2, <2>3 DEF ReadLoop
<1>7. CASE WaitLoop
  <2>1. UNCHANGED <<hist, reader>> /\ todo'["reader"] = todo["reader"] /\ stuck'["reader"] = stuck["reader"]
    BY <1>0, <1>7, WaitFrame DEF BroadcastExit, ReapClients, ReapOne, LoopTypes
  <2>2. clients' \subseteq clients
    BY <1>7, WaitFrame DEF ReapClients
  <2> QED
    BY <2>1, <2>2 DEF Owed
<1>8. CASE Child \/ \E k \in Closers : Close(k)
  <2>1. UNCHANGED <<hist, reader, clients, todo, stuck>>
    BY <1>8, CloseFrame
  <2> QED
    BY <1>1, <2>1
<1>9. CASE UNCHANGED vars
  <2>1. UNCHANGED <<hist, reader, clients, todo, stuck>>
    BY <1>9 DEF vars, outside, fanout, loops, pty, session, roster
  <2> QED
    BY <1>1, <2>1
<1>10. ASSUME NEW d \in Clients, Connection(d), ~Attach(d)
       PROVE  /\ hist' = hist
              /\ (c \in Owed' => c \in Owed) /\ (c \in clients' \ Owed' => c \in clients \ Owed)
  BY <1>1, <1>3, <1>10
<1> QED
  BY <1>2, <1>4, <1>5, <1>6, <1>7, <1>8, <1>9, <1>10 DEF Next

\* A stream that stays as it is keeps its shape and what follows the replay.
LEMMA KeepShape ==
  ASSUME NEW c \in Clients, stream'[c] = stream[c], base'[c] = base[c], NEW e, NEW to
  PROVE  Shaped(c, e)' = Shaped(c, e) /\ Follows(c, e, to)' = Follows(c, e, to)
BY DEF Shaped, Follows, Skipped, RoomForReplay

\* A frame sent to c after the replay keeps the shape of the stream.
LEMMA SentShape ==
  ASSUME QueueTypes, NEW c \in Clients, NEW frame \in Frames, NEW e \in Nat, Shaped(c, e),
         UNCHANGED base, stream' = [stream EXCEPT ![c] = Append(@, frame)],
         frame.type # "replay_finished"
  PROVE  Shaped(c, e)'
<1> DEFINE n == Len(stream[c])
<1>1. /\ n \in Nat /\ DOMAIN stream[c] = 1..n /\ DOMAIN stream'[c] = 1 .. n + 1
      /\ (\A i \in 1..n : stream'[c][i] = stream[c][i]) /\ stream'[c][n + 1] = frame
  BY Appends DEF QueueTypes
<1> HIDE DEF n
<1>2. e \in 1..n /\ e >= 3 /\ 1 \in 1..n /\ 2 \in 1..n /\ \A i \in 3 .. e - 1 : i \in 1..n
  BY <1>1 DEF Shaped
<1>3. Skipped(c)' = Skipped(c) /\ base'[c] = base[c]
  BY DEF Skipped
<1>4. \A i \in DOMAIN stream'[c] :
        i >= e => (stream'[c][i].type = "replay_finished" <=> i = e)
  <2>1. \A i \in 1 .. n + 1 : i \in 1..n \/ (i = n + 1 /\ i # e)
    BY <1>1, <1>2
  <2>2. \A i \in 1..n : i >= e => (stream[c][i].type = "replay_finished" <=> i = e)
    BY <1>1 DEF Shaped
  <2> QED
    BY <1>1, <2>1, <2>2
<1>5. e \in DOMAIN stream'[c]
  BY <1>1, <1>2
<1>6. \A i \in 3 .. e - 1 : stream'[c][i] = Output(Skipped(c) + (i - 2))
  BY <1>1, <1>2 DEF Shaped
<1>7. stream'[c][1] = stream[c][1] /\ stream'[c][2] = stream[c][2] /\ stream'[c][e] = stream[c][e]
  BY <1>1, <1>2
<1> QED
  BY <1>3, <1>4, <1>5, <1>6, <1>7 DEF Shaped, RoomForReplay

\* A frame that is no output keeps what follows the replay; the next chunk continues it.
LEMMA SentFollows ==
  ASSUME QueueTypes, NEW c \in Clients, NEW frame \in Frames, NEW e \in Nat, Shaped(c, e),
         UNCHANGED base, stream' = [stream EXCEPT ![c] = Append(@, frame)],
         NEW to \in Nat, Follows(c, e, to)
  PROVE  /\ frame.type # "output" => Follows(c, e, to)'
         /\ frame = Output(to + 1) /\ base[c] <= to => Follows(c, e, to + 1)'
<1> DEFINE n == Len(stream[c])
<1>1. /\ n \in Nat /\ DOMAIN stream[c] = 1..n /\ DOMAIN stream'[c] = 1 .. n + 1
      /\ (\A i \in 1..n : stream'[c][i] = stream[c][i]) /\ stream'[c][n + 1] = frame
  BY Appends DEF QueueTypes
<1> HIDE DEF n
<1>2. base[c] \in Nat /\ base'[c] = base[c] /\ e \in 1..n
  BY <1>1 DEF QueueTypes, Shaped
<1>3. /\ \A i \in 1 .. n + 1 : i \in 1..n \/ i = n + 1
      /\ 1..n \subseteq 1 .. n + 1 /\ n + 1 \in 1 .. n + 1
      /\ \A i \in 1..n : i < n + 1 /\ ~(n + 1 < i)
      /\ n + 1 > e /\ ~(n + 1 < n + 1)
  BY <1>1, <1>2
<1>4. /\ \A i \in 1..n : i > e /\ stream[c][i].type = "output" => stream[c][i].chunk \in base[c] + 1 .. to
      /\ \A i, j \in 1..n :
           i > e /\ i < j /\ stream[c][i].type = "output" /\ stream[c][j].type = "output" =>
             stream[c][i].chunk < stream[c][j].chunk
      /\ \A m \in base[c] + 1 .. to : \E i \in 1..n :
           i > e /\ stream[c][i].type = "output" /\ stream[c][i].chunk = m
  BY <1>1 DEF Follows
<1>5. ASSUME frame.type # "output" PROVE Follows(c, e, to)'
  <2>1. \A i \in 1 .. n + 1 : stream'[c][i].type = "output" => i \in 1..n
    BY <1>1, <1>3, <1>5
  <2>2. \A i \in 1 .. n + 1 : i > e /\ stream'[c][i].type = "output" =>
          stream'[c][i].chunk \in base[c] + 1 .. to
    BY <1>1, <1>4, <2>1
  <2>3. \A i, j \in 1 .. n + 1 :
          i > e /\ i < j /\ stream'[c][i].type = "output" /\ stream'[c][j].type = "output" =>
            stream'[c][i].chunk < stream'[c][j].chunk
    BY <1>1, <1>4, <2>1
  <2>4. \A m \in base[c] + 1 .. to : \E i \in 1 .. n + 1 :
          i > e /\ stream'[c][i].type = "output" /\ stream'[c][i].chunk = m
    BY <1>1, <1>3, <1>4
  <2> QED
    BY <1>1, <1>2, <2>2, <2>3, <2>4 DEF Follows
<1>6. ASSUME frame = Output(to + 1), base[c] <= to PROVE Follows(c, e, to + 1)'
  <2>1. /\ stream'[c][n + 1].type = "output" /\ stream'[c][n + 1].chunk = to + 1
        /\ to + 1 \in base[c] + 1 .. to + 1
        /\ \A m \in base[c] + 1 .. to : m \in base[c] + 1 .. to + 1 /\ m < to + 1
        /\ \A m \in base[c] + 1 .. to + 1 : m \in base[c] + 1 .. to \/ m = to + 1
    <3>1. stream'[c][n + 1].type = "output" /\ stream'[c][n + 1].chunk = to + 1
      BY <1>1, <1>6 DEF Output
    <3>2. /\ to + 1 \in base[c] + 1 .. to + 1
          /\ \A m \in base[c] + 1 .. to : m \in base[c] + 1 .. to + 1 /\ m < to + 1
          /\ \A m \in base[c] + 1 .. to + 1 : m \in base[c] + 1 .. to \/ m = to + 1
      BY <1>2, <1>6
    <3> QED
      BY <3>1, <3>2
  <2>2. \A i \in 1 .. n + 1 : i > e /\ stream'[c][i].type = "output" =>
          stream'[c][i].chunk \in base[c] + 1 .. to + 1
    BY <1>1, <1>3, <1>4, <2>1
  <2>3. ASSUME NEW i \in 1 .. n + 1, NEW j \in 1 .. n + 1, i > e, i < j,
               stream'[c][i].type = "output", stream'[c][j].type = "output"
        PROVE  stream'[c][i].chunk < stream'[c][j].chunk
    <3>1. i \in 1..n /\ stream[c][i].chunk \in base[c] + 1 .. to /\ stream'[c][i] = stream[c][i]
      BY <1>1, <1>3, <1>4, <2>3
    <3>2. CASE j = n + 1
      BY <2>1, <3>1, <3>2
    <3>3. CASE j \in 1..n
      BY <1>1, <1>4, <2>3, <3>1, <3>3
    <3> QED
      BY <1>3, <3>2, <3>3
  <2>4. \A m \in base[c] + 1 .. to + 1 : \E i \in 1 .. n + 1 :
          i > e /\ stream'[c][i].type = "output" /\ stream'[c][i].chunk = m
    BY <1>1, <1>3, <1>4, <2>1
  <2> QED
    BY <1>1, <1>2, <2>2, <2>3, <2>4 DEF Follows
<1> QED
  BY <1>5, <1>6

\* The chunk that readLoop is publishing is a frame.
LEMMA DeliveredIsFrame ==
  ASSUME TypesInv, NEW c \in Clients, Delivered(c)
  PROVE  Output(readN) \in Frames
<1>1. readN \in 1..MaxChunks
  BY SessionAssumption DEF TypesInv, TypeOK, PtyTypes, Counting, Delivered
<1> QED
  BY <1>1 DEF Output, Frames

\* A frame put in a queue changes the stream.
LEMMA AppendChanges ==
  ASSUME stream \in [Clients -> Seq(Frames)], NEW c \in Clients, NEW frame \in Frames,
         stream' = [stream EXCEPT ![c] = Append(@, frame)]
  PROVE  stream'[c] # stream[c]
BY Appends

\* Every step keeps Begun: a replay is queued in an empty queue, any other frame in one that
\* has its replay.
LEMMA StepKeepsBegun ==
  ASSUME TypesInv, ControlInv, Addressees, Begun, [Next]_vars
  PROVE  Begun'
<1>0. QueueTypes /\ PtyTypes /\ UserTypes /\ Counting
  BY DEF TypesInv, TypeOK
<1> SUFFICES ASSUME NEW c \in Clients
             PROVE  /\ conn'[c] \in {"idle", "attaching", "replaying"} => stream'[c] = <<>>
                    /\ conn'[c] \in Admitted \cup {"publishing"} => stream'[c] # <<>>
  BY DEF Begun, Admitted
<1>1. CASE AttachReplay(c)
  <2>1. stream[c] = <<>> /\ conn'[c] = "publishing" /\ stream'[c] = stream[c] \o Replay(c).frames
    BY <1>0, <1>1 DEF AttachReplay, Begun, UserTypes, QueueTypes
  <2>2. stream'[c] # <<>>
    <3>1. PICK n \in 0..Shown : Len(Replay(c).frames) = n + 3
      BY <1>0, ReplayIs
    <3>2. Replay(c).frames \in Seq(Frames)
      BY <1>0, ReplayType
    <3>3. stream'[c] = Replay(c).frames
      BY <2>1, <3>2, ConcatEmptySeq
    <3>4. n + 3 # 0
      BY <1>0, SessionAssumption DEF PtyTypes, Shown
    <3> QED
      BY <3>1, <3>3, <3>4
  <2> QED
    BY <2>1, <2>2
<1>2. CASE ~AttachReplay(c)
  <2>1. stream[c] = <<>> /\ conn[c] \notin Admitted => stream'[c] = stream[c]
    BY <1>0, <1>2, StreamSteps DEF AttachReplay, Sent, QueueTypes
  <2>2. stream[c] # <<>> => stream'[c] # <<>>
    <3>1. ASSUME NEW frame \in Frames, Sent(c, frame) PROVE stream'[c] # <<>>
      <4>1. 1 \in DOMAIN stream'[c]
        BY <1>0, <3>1, Appends DEF Sent, QueueTypes
      <4> QED
        BY <4>1
    <3>2. ASSUME NEW d \in Clients, d # c, AttachReplay(d) \/ \E frame \in Frames : Sent(d, frame)
          PROVE  stream'[c] = stream[c]
      BY <1>0, <3>2 DEF AttachReplay, Sent, QueueTypes
    <3> QED
      BY <1>2, <3>1, <3>2, StreamSteps
  <2> QED
    BY <1>2, <2>1, <2>2, ConnSteps DEF Begun, Admitted
<1> QED
  BY <1>1, <1>2

\* What a step other than an attach's replay and readLoop's next chunk leaves to show of
\* Flows: how far c has come.
LEMMA FlowsOn ==
  ASSUME TypesInv, ControlInv, AddressInv, [Next]_vars, ~WriteHistory, NEW c \in Clients,
         ~AttachReplay(c), NEW e \in Nat, Flows(c, e),
         base'[c] = base[c], ~Delivered(c),
         \A to \in Nat : Follows(c, e, to) => Follows(c, e, to)'
  PROVE  Flows(c, e)'
<1>0. base[c] \in Nat /\ hist \in Nat
  BY DEF TypesInv, TypeOK, QueueTypes, PtyTypes
<1>1. /\ hist' = hist
      /\ c \in Owed' => c \in Owed
      /\ c \in clients' \ Owed' => c \in clients \ Owed \/ conn[c] = "publishing"
      /\ conn'[c] = "publishing" => conn[c] = "publishing"
  BY OwedSteps, ConnSteps
<1>2. PICK now \in Nat :
        /\ now = hist
        /\ \E to \in base[c] .. now : Follows(c, e, to)
        /\ conn[c] = "publishing" => base[c] = now
        /\ conn[c] = "publishing" \/ c \in clients \ Owed => Follows(c, e, now)
        /\ c \in Owed => base[c] < now /\ Follows(c, e, now - 1)
  BY DEF Flows
<1>3. \E to \in base'[c] .. now : Follows(c, e, to)'
  BY <1>0, <1>2
<1>4. conn'[c] = "publishing" => base'[c] = now
  BY <1>1, <1>2
<1>5. conn'[c] = "publishing" \/ c \in clients' \ Owed' => Follows(c, e, now)'
  BY <1>1, <1>2
<1>6. c \in Owed' => base'[c] < now /\ Follows(c, e, now - 1)'
  <2>1. base[c] < now => now - 1 \in Nat
    BY <1>0
  <2> QED
    BY <1>1, <1>2, <2>1
<1> QED
  BY <1>1, <1>2, <1>3, <1>4, <1>5, <1>6 DEF Flows

\* The replay that an attach queues has the shape, and nothing follows it yet.
LEMMA ReplayStreams ==
  ASSUME TypesInv, ControlInv, Begun, NEW c \in Clients, AttachReplay(c)
  PROVE  \E e \in Nat : Shaped(c, e)' /\ Flows(c, e)'
<1>0. QueueTypes /\ PtyTypes /\ UserTypes /\ Counting /\ LocksHeld
  BY DEF TypesInv, TypeOK, ControlInv
<1>1. /\ hist \in Nat /\ ReplayMax \in Nat /\ Shown \in 0..hist
      /\ Shown = IF hist > ReplayMax THEN ReplayMax ELSE hist
  BY <1>0, SessionAssumption DEF PtyTypes, Shown
<1>2. PICK n \in 0..Shown :
        /\ Len(Replay(c).frames) = n + 3
        /\ Replay(c).frames[1].type = "started" /\ Replay(c).frames[2].type = "replay_started"
        /\ \A i \in 3 .. n + 2 : Replay(c).frames[i] = Output(hist - Shown + (i - 2))
        /\ Replay(c).frames[n + 3].type = "replay_finished"
        /\ ~Replay(c).frames[n + 3].truncated => hist <= ReplayMax /\ n = Shown
        /\ RoomForReplay => n = Shown
  BY <1>0, ReplayIs
<1>3. n \in Nat /\ n <= Shown /\ n + 3 \in Nat
  BY <1>1
<1>4. stream'[c] = Replay(c).frames /\ DOMAIN stream'[c] = 1 .. n + 3
  <2>1. Replay(c).frames \in Seq(Frames)
    BY <1>0, ReplayType
  <2>2. stream[c] = <<>> /\ stream'[c] = stream[c] \o Replay(c).frames
    BY <1>0 DEF AttachReplay, Begun, QueueTypes
  <2>3. stream'[c] = Replay(c).frames
    BY <2>1, <2>2, ConcatEmptySeq
  <2> QED
    BY <1>2, <2>1, <2>3, LenProperties
<1>5. /\ base'[c] = hist /\ hist' = hist /\ conn'[c] = "publishing"
      /\ reader' = reader /\ reader # "publishing"
  <2>1. outputMu = c /\ c # "reader"
    BY <1>0, SessionAssumption DEF AttachReplay, LocksHeld
  <2> QED
    BY <1>0, <2>1 DEF AttachReplay, LocksHeld, QueueTypes, pty, loops, UserTypes
<1>6. Skipped(c)' = hist - Shown
  BY <1>1, <1>5 DEF Skipped
<1>7. Shaped(c, n + 3)'
  <2>1. n + 3 \in 1 .. n + 3 /\ n + 3 >= 3 /\ n + 3 <= hist - (hist - Shown) + 3 /\ (n + 3) - 1 = n + 2
    BY <1>1, <1>3
  <2>2. \A i \in 1 .. n + 3 : i >= n + 3 => i = n + 3
    BY <1>3
  <2>3. n = Shown => n + 3 = hist - (hist - Shown) + 3
    BY <1>1
  <2>4. n = Shown /\ hist <= ReplayMax => n + 3 = hist + 3
    BY <1>1
  <2> QED
    BY <1>2, <1>4, <1>5, <1>6, <2>1, <2>2, <2>3, <2>4 DEF Shaped, RoomForReplay
<1> PICK now \in Nat : now = hist
  BY <1>1
<1>8. Follows(c, n + 3, now)'
  <2>1. \A i \in 1 .. n + 3 : ~(i > n + 3)
    BY <1>3
  <2>2. \A m \in base'[c] + 1 .. now : FALSE
    BY <1>5
  <2> QED
    BY <1>4, <2>1, <2>2 DEF Follows
<1>9. Owed' = {} /\ now \in base'[c] .. now
  BY <1>5 DEF Owed
<1>10. Flows(c, n + 3)'
  BY <1>5, <1>8, <1>9 DEF Flows
<1> QED
  BY <1>3, <1>7, <1>10

\* A frame sent to c, the chunk that readLoop is publishing or another, goes on with the
\* stream.
LEMMA SentStreams ==
  ASSUME TypesInv, ControlInv, AddressInv, Begun, Streams, [Next]_vars,
         NEW c \in Clients, NEW frame \in Frames, Sent(c, frame)
  PROVE  \E e \in Nat : Shaped(c, e)' /\ Flows(c, e)'
<1>0. QueueTypes /\ PtyTypes /\ LoopTypes /\ Counting
  BY DEF TypesInv, TypeOK
<1>1. PICK e \in Nat : Shaped(c, e) /\ Flows(c, e)
  BY DEF Sent, Begun, Streams
<1>2. stream' = [stream EXCEPT ![c] = Append(@, frame)] /\ UNCHANGED base /\ conn[c] \in Admitted
  BY DEF Sent
<1>3. frame.type # "replay_finished"
  BY DEF Sent, Exited, Output
<1>4. Shaped(c, e)'
  BY <1>0, <1>1, <1>2, <1>3, SentShape
<1>5. ~AttachReplay(c) /\ conn[c] # "publishing"
  BY <1>2 DEF AttachReplay, Admitted
<1>6. ~WriteHistory
  <2>1. stream'[c] # stream[c]
    BY <1>0, <1>2, AppendChanges DEF QueueTypes
  <2> QED
    BY <2>1 DEF WriteHistory, queues
<1>7. CASE frame.type # "output"
  <2>1. ~Delivered(c)
    <3>1. ASSUME Delivered(c) PROVE frame = Output(readN)
      <4>1. stream'[c][Len(stream[c]) + 1] = frame
        BY <1>0, <1>2, Appends DEF QueueTypes
      <4>2. stream'[c][Len(stream[c]) + 1] = Output(readN)
        BY <1>0, <3>1, DeliveredIsFrame, Appends DEF QueueTypes, Delivered
      <4> QED
        BY <4>1, <4>2
    <3> QED
      BY <1>7, <3>1 DEF Output
  <2>2. \A to \in Nat : Follows(c, e, to) => Follows(c, e, to)'
    BY <1>0, <1>1, <1>2, <1>7, SentFollows
  <2>3. Flows(c, e)'
    BY <1>1, <1>2, <1>5, <1>6, <2>1, <2>2, FlowsOn
  <2> QED
    BY <1>4, <2>3
<1>8. CASE frame = Output(readN) /\ Delivered(c)
  <2>1. /\ reader = "publishing" /\ hist = readN /\ UNCHANGED <<hist, reader, clients, conn, stuck>>
        /\ stuck["reader"] = NoClient /\ c \in Owed /\ c # NoClient
    BY <1>0, <1>8, SessionAssumption DEF Delivered, Counting, pty, loops, session, roster, Owed
  <2>2. c \notin Owed'
    <3>1. "reader" \in Publishers
      BY DEF Publishers
    <3>2. todo'["reader"] = todo["reader"] \ {c}
      BY <1>0, <1>8, <3>1 DEF Delivered, LoopTypes
    <3> QED
      BY <2>1, <3>2 DEF Owed
  <2>3. PICK now \in Nat : now = hist /\ base[c] < now /\ Follows(c, e, now - 1)
    BY <1>1, <2>1 DEF Flows
  <2>4. base[c] \in Nat /\ now - 1 \in Nat /\ base[c] <= now - 1 /\ (now - 1) + 1 = now
    BY <1>0, <2>3 DEF QueueTypes
  <2>5. Follows(c, e, (now - 1) + 1)'
    <3>1. frame = Output((now - 1) + 1)
      BY <1>8, <2>1, <2>3, <2>4
    <3> QED
      BY <1>0, <1>1, <1>2, <2>3, <2>4, <3>1, SentFollows
  <2>6. Follows(c, e, now)'
    BY <2>4, <2>5
  <2>7. now \in base'[c] .. now /\ now = hist'
    BY <1>2, <2>1, <2>3, <2>4
  <2>8. Flows(c, e)'
    BY <1>5, <2>1, <2>2, <2>6, <2>7 DEF Flows
  <2> QED
    BY <1>4, <2>8
<1> QED
  BY <1>7, <1>8 DEF Sent, Exited

\* Every step keeps Streams.
LEMMA StepKeepsStreams ==
  ASSUME TypesInv, ControlInv, AddressInv, Begun, Streams, [Next]_vars
  PROVE  Streams'
<1>0. QueueTypes /\ PtyTypes /\ UserTypes /\ LoopTypes /\ LocksHeld /\ Reading
      /\ "reader" \in Publishers
  BY DEF TypesInv, TypeOK, ControlInv, AddressInv, Publishers
<1> SUFFICES ASSUME NEW c \in Clients, stream'[c] # <<>>
             PROVE  \E e \in Nat : Shaped(c, e)' /\ Flows(c, e)'
  BY DEF Streams
<1>1. CASE AttachReplay(c)
  BY <1>1, ReplayStreams
<1>2. CASE \E frame \in Frames : Sent(c, frame)
  BY <1>2, SentStreams
<1>3. CASE ~AttachReplay(c) /\ ~\E frame \in Frames : Sent(c, frame)
  <2>1. stream'[c] = stream[c] /\ base'[c] = base[c]
    <3>1. Addressees
      BY DEF AddressInv
    <3>2. ASSUME NEW d \in Clients, d # c, AttachReplay(d) \/ \E frame \in Frames : Sent(d, frame)
          PROVE  stream'[c] = stream[c] /\ base'[c] = base[c]
      BY <1>0, <3>2 DEF AttachReplay, Sent, QueueTypes
    <3> QED
      BY <1>3, <3>1, <3>2, StreamSteps
  <2>2. PICK e \in Nat : Shaped(c, e) /\ Flows(c, e)
    BY <2>1 DEF Streams
  <2>3. Shaped(c, e)' /\ \A to \in Nat : Follows(c, e, to) => Follows(c, e, to)'
    BY <2>1, <2>2, KeepShape
  <2>4. CASE ~WriteHistory
    <3>1. ~Delivered(c)
      <4>1. ASSUME Delivered(c) PROVE stream'[c] # stream[c]
        BY <1>0, <4>1, DeliveredIsFrame, AppendChanges DEF Delivered, QueueTypes
      <4> QED
        BY <2>1, <4>1
    <3> QED
      BY <1>3, <2>1, <2>2, <2>3, <2>4, <3>1, FlowsOn
  <2>5. CASE WriteHistory
    <3>1. /\ conn' = conn /\ clients' = clients /\ hist' = hist + 1
          /\ conn[c] # "publishing" /\ reader = "read" /\ reader' = "publishing"
          /\ todo'["reader"] = clients /\ stuck' = stuck /\ stuck["reader"] = NoClient
          /\ c # NoClient
      BY <1>0, <2>5, SessionAssumption DEF WriteHistory, LocksHeld, Reading, LoopTypes, users, roster
    <3>2. c \notin Owed /\ (c \in Owed' <=> c \in clients)
      BY <3>1 DEF Owed
    <3>3. PICK now \in Nat : /\ now = hist /\ (c \in clients => Follows(c, e, now))
                            /\ \E to \in base[c] .. now : Follows(c, e, to)
      BY <2>2, <3>2 DEF Flows
    <3>4. PICK to \in base[c] .. now : Follows(c, e, to)
      BY <3>3
    <3>5. /\ base[c] \in Nat /\ to \in Nat /\ base[c] < now + 1
          /\ to \in base'[c] .. now + 1 /\ now + 1 \in Nat /\ (now + 1) - 1 = now
      BY <1>0, <2>1 DEF QueueTypes
    <3>6. Follows(c, e, to)' /\ (c \in clients => Follows(c, e, now)')
      BY <2>3, <3>3, <3>4, <3>5
    <3>7. c \in clients => base'[c] < now + 1 /\ Follows(c, e, (now + 1) - 1)'
      BY <2>1, <3>5, <3>6
    <3>8. Flows(c, e)'
      <4>1. now + 1 = hist'
        BY <3>1, <3>3
      <4> QED
        BY <3>1, <3>2, <3>5, <3>6, <3>7, <4>1 DEF Flows
    <3> QED
      BY <2>3, <3>8
  <2> QED
    BY <2>4, <2>5
<1> QED
  BY <1>1, <1>2, <1>3

\* Shape and flow hold in every state.
LEMMA StreamsHold == Spec => [](TypesInv /\ ControlInv /\ AddressInv /\ Begun /\ Streams)
<1>1. Init => Begun /\ Streams
  BY DEF Init, Begun, Streams, Admitted
<1>2. TypesInv /\ ControlInv /\ AddressInv /\ Begun /\ Streams /\ [Next]_vars => Begun' /\ Streams'
  BY StepKeepsBegun, StepKeepsStreams DEF AddressInv
<1> QED
  BY <1>1, <1>2, AddressInvHolds, PTL DEF Spec

\* A chunk frame carries its chunk.
LEMMA OutputFields == ASSUME NEW m PROVE Output(m).type = "output" /\ Output(m).chunk = m
  BY DEF Output

\* What the shape says of the places: one end of the replay, the chunks before it and after.
LEMMA ShapedPlaces ==
  ASSUME QueueTypes, NEW c \in Clients, NEW e \in Nat, Shaped(c, e)
  PROVE  /\ Finishes(c) = {e} /\ ReplayEnd(c) = e
         /\ Replayed(c) = 3 .. e - 1
         /\ Live(c) = {i \in DOMAIN stream[c] : i > e /\ stream[c][i].type = "output"}
<1> DEFINE n == Len(stream[c])
<1>1. n \in Nat /\ DOMAIN stream[c] = 1..n
  BY DEF QueueTypes
<1> HIDE DEF n
<1>2. e \in 1..n /\ e >= 3 /\ stream[c][e].type = "replay_finished"
  BY <1>1 DEF Shaped
<1>3. \A i \in 3 .. e - 1 : stream[c][i].type = "output"
  BY OutputFields DEF Shaped
<1>4. \A i \in 1..n : i = 1 \/ i = 2 \/ i \in 3 .. e - 1 \/ i >= e
  BY <1>2
<1>5. \A i \in 1..n : stream[c][i].type = "replay_finished" <=> i = e
  <2>1. \A i \in 1..n : i >= e => (stream[c][i].type = "replay_finished" <=> i = e)
    BY <1>1 DEF Shaped
  <2>2. stream[c][1].type = "started" /\ stream[c][2].type = "replay_started"
    BY DEF Shaped
  <2> QED
    BY <1>2, <1>3, <1>4, <2>1, <2>2
<1>6. Finishes(c) = {e}
  BY <1>1, <1>2, <1>5 DEF Finishes
<1>7. ReplayEnd(c) = e
  BY <1>6 DEF ReplayEnd
<1>8. Replayed(c) = 3 .. e - 1
  <2>1. \A i \in 3 .. e - 1 : i \in 1..n /\ i < e
    BY <1>1, <1>2
  <2>2. \A i \in 1..n : i < e /\ stream[c][i].type = "output" => i \in 3 .. e - 1
    <3>1. stream[c][1].type = "started" /\ stream[c][2].type = "replay_started"
      BY DEF Shaped
    <3>2. \A i \in 1..n : i < e => ~(i >= e)
      BY <1>2
    <3> QED
      BY <1>4, <3>1, <3>2
  <2> QED
    BY <1>1, <1>3, <1>7, <2>1, <2>2 DEF Replayed, Outputs
<1>9. Live(c) = {i \in DOMAIN stream[c] : i > e /\ stream[c][i].type = "output"}
  BY <1>7 DEF Live, Outputs
<1> QED
  BY <1>6, <1>7, <1>8, <1>9

\* The replay carries the chunks after those it skips.
LEMMA ReplayCarries ==
  ASSUME QueueTypes, NEW c \in Clients, NEW e \in Nat, Shaped(c, e)
  PROVE  /\ Skipped(c) \in 0 .. base[c] /\ Skipped(c) + (e - 3) \in 0 .. base[c]
         /\ Carry(c, Replayed(c), Skipped(c), Skipped(c) + (e - 3))
<1>1. base[c] \in Nat /\ ReplayMax \in Nat
  BY SessionAssumption DEF QueueTypes
<1>2. e >= 3 /\ e <= base[c] - Skipped(c) + 3 /\ Skipped(c) \in 0 .. base[c]
  BY <1>1 DEF Shaped, Skipped
<1>3. /\ Replayed(c) = 3 .. e - 1
      /\ \A i \in 3 .. e - 1 : stream[c][i].chunk = Skipped(c) + (i - 2)
  <2>1. \A i \in 3 .. e - 1 : stream[c][i] = Output(Skipped(c) + (i - 2))
    BY DEF Shaped
  <2> QED
    BY <2>1, ShapedPlaces, OutputFields
<1> DEFINE from == Skipped(c)
           to == Skipped(c) + (e - 3)
<1>4. from \in Nat /\ to \in 0 .. base[c]
  BY <1>1, <1>2
<1>5. \A i, j \in 3 .. e - 1 : i < j => stream[c][i].chunk < stream[c][j].chunk
  BY <1>3, <1>4
<1>6. \A i \in 3 .. e - 1 : stream[c][i].chunk \in from + 1 .. to
  <2>1. \A i \in 3 .. e - 1 : from + (i - 2) \in from + 1 .. from + (e - 3)
    BY <1>2, <1>4
  <2> QED
    BY <1>3, <2>1
<1>7. \A m \in from + 1 .. to : \E i \in 3 .. e - 1 : stream[c][i].chunk = m
  <2> SUFFICES ASSUME NEW m \in from + 1 .. to PROVE \E i \in 3 .. e - 1 : stream[c][i].chunk = m
    OBVIOUS
  <2>1. m - from + 2 \in 3 .. e - 1 /\ from + ((m - from + 2) - 2) = m
    BY <1>2, <1>4
  <2> QED
    BY <1>3, <2>1
<1>8. {stream[c][i].chunk : i \in 3 .. e - 1} = from + 1 .. to
  BY <1>6, <1>7
<1> QED
  BY <1>2, <1>3, <1>4, <1>5, <1>8 DEF Carry

\* What follows the replay carries the chunks after base[c].
LEMMA LiveCarries ==
  ASSUME QueueTypes, NEW c \in Clients, NEW e \in Nat, Shaped(c, e), NEW to, Follows(c, e, to)
  PROVE  Carry(c, Live(c), base[c], to)
<1>1. Live(c) = {i \in DOMAIN stream[c] : i > e /\ stream[c][i].type = "output"}
  BY ShapedPlaces
<1>2. \A i, j \in Live(c) : i < j => stream[c][i].chunk < stream[c][j].chunk
  BY <1>1 DEF Follows
<1>3. {stream[c][i].chunk : i \in Live(c)} = base[c] + 1 .. to
  BY <1>1 DEF Follows
<1> QED
  BY <1>2, <1>3 DEF Carry

\* What a client is sent is one uninterrupted stream (NoGap): the replay, cut out of the
\* history under outputMu, and every chunk that readLoop publishes after it.
THEOREM NoGapHolds == Spec => []NoGap
<1>1. TypesInv /\ ControlInv /\ AddressInv /\ Begun /\ Streams => NoGap
  <2> SUFFICES ASSUME TypesInv, ControlInv, Streams, NEW c \in Clients, Finishes(c) # {}
               PROVE  /\ \E from, to \in 0 .. base[c] : Carry(c, Replayed(c), from, to)
                      /\ ~Truncated(c) => Carry(c, Replayed(c), 0, base[c])
                      /\ \E to \in base[c] .. hist : Carry(c, Live(c), base[c], to)
                      /\ c \in clients /\ outputMu # "reader" => Carry(c, Live(c), base[c], hist)
    BY DEF NoGap
  <2>1. QueueTypes /\ LocksHeld
    BY DEF TypesInv, TypeOK, ControlInv
  <2>2. stream[c] # <<>>
    <3>1. PICK i \in DOMAIN stream[c] : TRUE
      BY DEF Finishes
    <3> QED
      BY <3>1
  <2>3. PICK e \in Nat : Shaped(c, e) /\ Flows(c, e)
    BY <2>2 DEF Streams
  <2>4. \E from, to \in 0 .. base[c] : Carry(c, Replayed(c), from, to)
    BY <2>1, <2>3, ReplayCarries
  <2>5. ~Truncated(c) => Carry(c, Replayed(c), 0, base[c])
    <3>1. ASSUME ~Truncated(c) PROVE Skipped(c) = 0 /\ Skipped(c) + (e - 3) = base[c]
      <4>1. base[c] <= ReplayMax /\ e = base[c] + 3 /\ base[c] \in Nat /\ ReplayMax \in Nat
        BY <2>1, <2>3, <3>1, ShapedPlaces, SessionAssumption DEF Truncated, Shaped, QueueTypes
      <4>2. Skipped(c) = 0
        BY <4>1 DEF Skipped
      <4>3. 0 + (e - 3) = base[c]
        BY <4>1
      <4> QED
        BY <4>2, <4>3
    <3>2. Carry(c, Replayed(c), Skipped(c), Skipped(c) + (e - 3))
      BY <2>1, <2>3, ReplayCarries
    <3> QED
      BY <3>1, <3>2
  <2>6. \E to \in base[c] .. hist : Carry(c, Live(c), base[c], to)
    BY <2>1, <2>3, LiveCarries DEF Flows
  <2>7. ASSUME c \in clients, outputMu # "reader" PROVE Carry(c, Live(c), base[c], hist)
    <3>1. c \notin Owed
      BY <2>1, <2>7 DEF LocksHeld, Owed
    <3>2. Follows(c, e, hist)
      BY <2>3, <2>7, <3>1 DEF Flows
    <3> QED
      BY <2>1, <2>3, <3>2, LiveCarries
  <2> QED
    BY <2>4, <2>5, <2>6, <2>7
<1> QED
  BY <1>1, StreamsHold, PTL

\* The replay comes first and meets the live output (ReplayMeetsLive): what attach queues
\* before it publishes the client stays the beginning of the stream.
THEOREM ReplayMeetsLiveHolds == Spec => []ReplayMeetsLive
<1>1. TypesInv /\ ControlInv /\ AddressInv /\ Begun /\ Streams => ReplayMeetsLive
  <2> SUFFICES ASSUME TypesInv, ControlInv, Begun, Streams, NEW c \in clients
               PROVE  /\ Cardinality(Finishes(c)) = 1
                      /\ \A i \in 1 .. ReplayEnd(c) - 1 :
                           stream[c][i].type = (CASE i = 1 -> "started" [] i = 2 -> "replay_started"
                                                  [] OTHER -> "output")
                      /\ RoomForReplay /\ base[c] > 0 =>
                           stream[c][ReplayEnd(c) - 1] = Output(base[c])
    BY DEF ReplayMeetsLive
  <2>1. QueueTypes /\ Admission /\ c \in Clients
    BY DEF TypesInv, TypeOK, SessionTypes, ControlInv
  <2>2. PICK e \in Nat : Shaped(c, e)
    BY <2>1 DEF Admission, Begun, Streams
  <2>3. Finishes(c) = {e} /\ ReplayEnd(c) = e /\ e >= 3
    BY <2>1, <2>2, ShapedPlaces DEF Shaped
  <2>4. Cardinality(Finishes(c)) = 1
    BY <2>3, FS_Singleton
  <2>5. ASSUME NEW i \in 1 .. e - 1
        PROVE  stream[c][i].type = (CASE i = 1 -> "started" [] i = 2 -> "replay_started"
                                      [] OTHER -> "output")
    <3>1. stream[c][1].type = "started" /\ stream[c][2].type = "replay_started"
      BY <2>2 DEF Shaped
    <3>2. i \in 3 .. e - 1 => stream[c][i].type = "output"
      BY <2>2, OutputFields DEF Shaped
    <3>3. i = 1 \/ i = 2 \/ (i \in 3 .. e - 1 /\ i # 1 /\ i # 2)
      OBVIOUS
    <3> QED
      BY <3>1, <3>2, <3>3
  <2>6. ASSUME RoomForReplay, base[c] > 0 PROVE stream[c][e - 1] = Output(base[c])
    <3>1. /\ e = base[c] - Skipped(c) + 3 /\ base[c] \in Nat /\ ReplayMax \in Nat \ {0}
      BY <2>1, <2>2, <2>6, SessionAssumption DEF Shaped, QueueTypes
    <3>2. Skipped(c) \in Nat /\ Skipped(c) < base[c]
      BY <2>6, <3>1 DEF Skipped
    <3>3. e - 1 \in 3 .. e - 1 /\ Skipped(c) + ((e - 1) - 2) = base[c]
      BY <3>1, <3>2
    <3>4. stream[c][e - 1] = Output(Skipped(c) + ((e - 1) - 2))
      BY <2>2, <3>3 DEF Shaped
    <3> QED
      BY <3>3, <3>4
  <2> QED
    BY <2>3, <2>4, <2>5, <2>6
<1> QED
  BY <1>1, StreamsHold, PTL

-----------------------------------------------------------------------------
(* The exit reaches the clients that stay.                                  *)

\* The clients whose queue was given the exit frame.
Told == {c \in Clients : \E i \in DOMAIN stream[c] : stream[c][i] = Exited}

\* Only waitLoop tells, and it never starts again; when it is done nothing of its map is
\* left, and readLoop has nobody to publish to.
Addressed ==
  /\ \A c \in Told : conn[c] \in Admitted /\ waiter \in {"broadcasting", "reaping", "done"}
  /\ waiter = "done" => todo["waiter"] = {} /\ (reader = "publishing" => todo["reader"] = {})

\* A live client that nobody detaches is in the map, or in the map closeClients took.
Awaited ==
  \A c \in Clients : conn[c] = "live" /\ detach[c] = "none" =>
    /\ waiter \in {"reaping", "done"} => c \in todo["waiter"]
    /\ waiter \notin {"reaping", "done"} => c \in clients

\* Such a client is told before closeClients comes to it, and not forgotten then.
Informed ==
  \A c \in Clients :
    /\ waiter = "broadcasting" /\ detach[c] = "none" /\ c \in clients =>
         c \in Told \cup todo["waiter"]
    /\ waiter = "reaping" /\ detach[c] = "none" /\ c \in todo["waiter"] => c \in Told
    /\ detach[c] = "reaped" => ~open[c] /\ c \in Told

\* No output follows the exit.
ExitLast ==
  \A c \in Clients : \A i, j \in DOMAIN stream[c] :
    stream[c][i] = Exited /\ i < j => stream[c][j].type # "output"

\* The inductive invariant, relative to those above.
ExitInv == Addressed /\ Awaited /\ Informed /\ ExitLast

\* Told and ExitLast read the streams only.
LEMMA KeepStreams == UNCHANGED stream => Told' = Told /\ (ExitLast => ExitLast')
  BY DEF Told, ExitLast

\* A frame put in the queue of c tells nobody but c, and c only if it is the exit; what
\* follows an exit must not be output.
LEMMA AppendTells ==
  ASSUME stream \in [Clients -> Seq(Frames)], NEW c \in Clients, NEW frame \in Frames,
         stream' = [stream EXCEPT ![c] = Append(@, frame)]
  PROVE  /\ Told' = IF frame = Exited THEN Told \cup {c} ELSE Told
         /\ ExitLast /\ (c \in Told => frame.type # "output") => ExitLast'
<1> DEFINE n == Len(stream[c])
<1>1. /\ stream[c] \in Seq(Frames) /\ stream'[c] = Append(stream[c], frame)
      /\ \A d \in Clients \ {c} : stream'[d] = stream[d]
  OBVIOUS
<1>2. n \in Nat /\ DOMAIN stream[c] = 1..n /\ DOMAIN stream'[c] = 1 .. n + 1
  BY <1>1, AppendProperties
<1>3. (\A i \in 1..n : stream'[c][i] = stream[c][i]) /\ stream'[c][n + 1] = frame
  BY <1>1, AppendProperties
<1>4. \A i \in 1 .. n + 1 : i \in 1..n \/ i = n + 1
  BY <1>2
<1>5. n + 1 \in 1 .. n + 1 /\ 1..n \subseteq 1 .. n + 1
  BY <1>2
<1> HIDE DEF n
<1>6. c \in Told' <=> c \in Told \/ frame = Exited
  BY <1>2, <1>3, <1>4, <1>5 DEF Told
<1>7. \A d \in Clients \ {c} : d \in Told' <=> d \in Told
  BY <1>1 DEF Told
<1>8. ASSUME ExitLast, c \in Told => frame.type # "output",
             NEW i \in 1 .. n + 1, NEW j \in 1 .. n + 1, stream'[c][i] = Exited, i < j
      PROVE  stream'[c][j].type # "output"
  <2>1. i \in 1..n
    BY <1>2, <1>8
  <2>2. stream[c][i] = Exited
    BY <1>3, <1>8, <2>1
  <2>3. c \in Told
    BY <1>2, <2>1, <2>2 DEF Told
  <2>4. CASE j = n + 1
    BY <1>3, <1>8, <2>3, <2>4
  <2>5. CASE j \in 1..n
    BY <1>2, <1>3, <1>8, <2>1, <2>2, <2>5 DEF ExitLast
  <2> QED
    BY <1>4, <2>4, <2>5
<1>9. ASSUME ExitLast, c \in Told => frame.type # "output" PROVE ExitLast'
  <2>1. \A i, j \in DOMAIN stream'[c] :
          stream'[c][i] = Exited /\ i < j => stream'[c][j].type # "output"
    BY <1>2, <1>8, <1>9
  <2>2. \A d \in Clients : \A i, j \in DOMAIN stream'[d] :
          stream'[d][i] = Exited /\ i < j => stream'[d][j].type # "output"
    BY <1>1, <1>9, <2>1, ZenonT(30) DEF ExitLast
  <2> QED
    BY <2>2 DEF ExitLast
<1>10. Told \subseteq Clients /\ Told' \subseteq Clients
  BY DEF Told
<1>11. ASSUME NEW d PROVE d \in Told' <=> d \in Told \/ (d = c /\ frame = Exited)
  BY <1>6, <1>7, <1>10
<1>12. Told' = IF frame = Exited THEN Told \cup {c} ELSE Told
  <2>1. CASE frame = Exited
    <3>1. Told' = Told \cup {c}
      BY <1>11, <2>1
    <3> QED
      BY <2>1, <3>1
  <2>2. CASE frame # Exited
    <3>1. Told' = Told
      BY <1>11, <2>2
    <3> QED
      BY <2>2, <3>1
  <2> QED
    BY <2>1, <2>2
<1> QED
  BY <1>9, <1>12

\* A step tells nobody, or waitLoop tells one client; and after an exit comes no output,
\* because waitLoop holds outputMu from the broadcast until the map is empty.
LEMMA ToldSteps ==
  ASSUME TypesInv, ControlInv, AddressInv, Begun, Addressed, ExitLast, [Next]_vars
  PROVE  /\ ExitLast'
         /\ \/ Told' = Told
            \/ \E c \in Clients : Told' = Told \cup {c} /\ conn[c] \in Admitted /\ waiter = "broadcasting"
<1>0. QueueTypes /\ PtyTypes /\ Counting /\ LocksHeld /\ Addressees
  BY DEF TypesInv, TypeOK, ControlInv, AddressInv
<1>1. CASE UNCHANGED <<stream, base>>
  BY <1>1, KeepStreams
<1>2. ASSUME NEW c \in Clients, AttachReplay(c) PROVE Told' = Told /\ ExitLast'
  <2>1. Replay(c).frames \in Seq(Frames \ {Exited}) /\ Replay(c).frames \in Seq(Frames)
    BY <1>0, ReplayFrames, ReplayType
  <2>2. stream[c] = <<>> /\ stream'[c] = stream[c] \o Replay(c).frames
    BY <1>0, <1>2 DEF AttachReplay, Begun, QueueTypes
  <2>3. stream'[c] \in Seq(Frames \ {Exited})
    BY <2>1, <2>2, ConcatEmptySeq
  <2>4. \A i \in DOMAIN stream'[c] : stream'[c][i] # Exited
    BY <2>3
  <2>5. \A i \in DOMAIN stream[c] : stream[c][i] # Exited
    BY <2>2
  <2>6. \A d \in Clients \ {c} : stream'[d] = stream[d]
    BY <1>0, <1>2 DEF AttachReplay, QueueTypes
  <2>7. \A d \in Clients : d \in Told' <=> d \in Told
    BY <2>4, <2>5, <2>6 DEF Told
  <2>8. Told' = Told
    BY <2>7 DEF Told
  <2>9. \A d \in Clients \ {c} : \A i, j \in DOMAIN stream'[d] :
          stream'[d][i] = Exited /\ i < j => stream'[d][j].type # "output"
    BY <2>6 DEF ExitLast
  <2>10. ExitLast'
    BY <2>4, <2>9 DEF ExitLast
  <2> QED
    BY <2>8, <2>10
<1>3. ASSUME NEW c \in Clients, NEW frame \in Frames, Sent(c, frame)
      PROVE  /\ ExitLast'
             /\ \/ Told' = Told
                \/ Told' = Told \cup {c} /\ conn[c] \in Admitted /\ waiter = "broadcasting"
  <2>1. stream' = [stream EXCEPT ![c] = Append(@, frame)] /\ conn[c] \in Admitted
    BY <1>3 DEF Sent
  <2>2. c \in Told => frame.type # "output"
    <3>1. ASSUME c \in Told, Delivered(c) PROVE FALSE
      <4>1. reader = "publishing" /\ outputMu = "reader" /\ c \in todo["reader"]
        BY <1>0, <3>1 DEF Delivered, LocksHeld
      <4>2. waiter = "done"
        BY <1>0, <3>1, <4>1 DEF Addressed, LocksHeld
      <4> QED
        BY <4>1, <4>2 DEF Addressed
    <3>2. Exited.type # "output"
      BY DEF Exited
    <3> QED
      BY <1>3, <3>1, <3>2 DEF Sent
  <2>3. ExitLast' /\ Told' = IF frame = Exited THEN Told \cup {c} ELSE Told
    BY <1>0, <2>1, <2>2, AppendTells DEF QueueTypes
  <2>4. frame = Exited => waiter = "broadcasting"
    BY <1>3 DEF Sent, Exited, Output
  <2> QED
    BY <2>1, <2>3, <2>4
<1> QED
  BY <1>0, <1>1, <1>2, <1>3, StreamSteps

\* What every step but those of waitLoop leaves alone of what closeClients depends on.
LEMMA StepsBesides ==
  ASSUME TypesInv, ControlInv, AddressInv, [Next]_vars, ~WaitLoop, ~Deliver("waiter"),
         NEW c \in Clients
  PROVE  /\ waiter' = waiter /\ todo'["waiter"] = todo["waiter"]
         /\ detach'[c] = "none" => detach[c] = "none"
         /\ detach'[c] = "reaped" => detach[c] = "reaped"
         /\ open'[c] => open[c]
         /\ conn'[c] = "live" => conn[c] = "live" \/ AttachPublish(c)
         /\ c \in clients' => c \in clients \/ AttachPublish(c)
         /\ AttachPublish(c) => c \in clients' /\ waiter = "waiting"
         /\ c \in clients /\ detach[c] = "none" => c \in clients'
<1>0. /\ SessionTypes /\ UserTypes /\ LoopTypes /\ QueueTypes /\ Ending
      /\ "waiter" \in Publishers /\ "waiter" \notin Clients
  BY SessionAssumption DEF TypesInv, TypeOK, ControlInv, Publishers
<1>1. AttachPublish(c) => c \in clients' /\ waiter = "waiting"
  BY <1>0 DEF AttachPublish, Ending
<1>2. CASE UNCHANGED <<waiter, todo, detach, open, conn, clients>>
  BY <1>1, <1>2
<1>3. ASSUME NEW d \in Clients, Attach(d)
      PROVE  /\ UNCHANGED <<waiter, todo, detach>>
             /\ open'[c] => open[c]
             /\ conn'[c] = "live" => conn[c] = "live" \/ AttachPublish(c)
             /\ c \in clients' => c \in clients \/ AttachPublish(c)
             /\ clients \subseteq clients'
  <2>1. UNCHANGED <<waiter, todo, detach>> /\ (UNCHANGED clients \/ AttachPublish(d))
    BY <1>3, AttachFrame
  <2>2. AttachPublish(d) => clients' = clients \cup {d}
    BY DEF AttachPublish
  <2>3. open'[c] => open[c]
    BY <1>0, <1>3 DEF Attach, AttachLock, AttachRefuse, AttachReserve, AttachReplay, AttachFail,
       AttachPublish, AttachTooLate, Withdraw, outside, queues, QueueTypes
  <2>4. CASE d = c
    <3>1. conn'[c] = "live" => AttachPublish(c)
      BY <1>0, <1>3, <2>4 DEF Attach, AttachLock, AttachRefuse, AttachReserve, AttachReplay,
         AttachFail, AttachTooLate, Withdraw, UserTypes
    <3> QED
      BY <2>1, <2>2, <2>3, <2>4, <3>1
  <2>5. CASE d # c
    <3>1. conn'[c] = conn[c]
      BY <1>0, <1>3, <2>5, AttachFrame DEF UserTypes
    <3> QED
      BY <2>1, <2>2, <2>3, <2>5, <3>1
  <2> QED
    BY <2>4, <2>5
<1>4. ASSUME NEW d \in Clients, Detach(d)
      PROVE  /\ UNCHANGED <<waiter, conn>> /\ todo'["waiter"] = todo["waiter"]
             /\ detach'[c] = "none" => detach[c] = "none"
             /\ detach'[c] = "reaped" => detach[c] = "reaped"
             /\ open'[c] => open[c]
             /\ clients' \subseteq clients
             /\ c \in clients /\ detach[c] = "none" => c \in clients'
  <2>1. UNCHANGED <<waiter, conn>> /\ todo'["waiter"] = todo["waiter"]
    BY <1>0, <1>4, DetachFrame DEF DetachTell, LoopTypes
  <2>2. (detach'[c] = "none" => detach[c] = "none") /\ (detach'[c] = "reaped" => detach[c] = "reaped")
    BY <1>0, <1>4 DEF Detach, DetachUnlink, DetachClose, DetachPromote, DetachTell, DetachTold,
       UserTypes
  <2>3. open'[c] => open[c]
    BY <1>0, <1>4 DEF Detach, DetachUnlink, DetachClose, DetachPromote, DetachTell, DetachTold,
       QueueTypes, outside, queues
  <2>4. clients' \subseteq clients /\ (c \in clients /\ detach[c] = "none" => c \in clients')
    BY <1>4, DetachFrame DEF DetachUnlink
  <2> QED
    BY <2>1, <2>2, <2>3, <2>4
<1>5. ASSUME NEW d \in Clients, Connection(d), ~Attach(d)
      PROVE  /\ UNCHANGED <<waiter, todo, clients, open>>
             /\ conn'[c] = "live" => conn[c] = "live"
             /\ detach'[c] = "none" => detach[c] = "none"
             /\ detach'[c] = "reaped" => detach[c] = "reaped"
  BY <1>0, <1>5, ConnectionFrame DEF Disconnect, Gone, UserTypes
<1>6. ASSUME NEW p \in Publishers, Fanout(p)
      PROVE  /\ UNCHANGED <<waiter, clients, open, conn>> /\ todo'["waiter"] = todo["waiter"]
             /\ detach'[c] = "none" => detach[c] = "none"
             /\ detach'[c] = "reaped" => detach[c] = "reaped"
  <2>1. CASE Detached(p)
    BY <2>1 DEF Detached, session, roster, users, detaches, loops, queues
  <2>2. CASE Deliver(p)
    <3>1. p # "waiter"
      BY <2>2
    <3>2. UNCHANGED <<waiter, clients, open, conn>>
      BY <2>2 DEF Deliver, session, roster, loops
    <3>3. todo'["waiter"] = todo["waiter"]
      BY <1>0, <2>2, <3>1 DEF Deliver, LoopTypes
    <3>4. (detach'[c] = "none" => detach[c] = "none") /\ (detach'[c] = "reaped" => detach[c] = "reaped")
      BY <1>0, <2>2 DEF Deliver, UserTypes
    <3> QED
      BY <3>2, <3>3, <3>4
  <2> QED
    BY <1>6, <2>1, <2>2 DEF Fanout
<1>7. CASE ReadLoop
  <2>1. UNCHANGED <<waiter, detach, open, conn, clients>>
    BY <1>7, ReadFrame
  <2>2. todo'["waiter"] = todo["waiter"]
    BY <1>0, <1>7, ReadFrame DEF WriteHistory, LoopTypes
  <2> QED
    BY <1>1, <2>1, <2>2
<1>8. CASE Child \/ \E k \in Closers : Close(k)
  BY <1>2, <1>8, CloseFrame
<1>9. UNCHANGED vars => UNCHANGED <<waiter, todo, detach, open, conn, clients>>
  BY DEF vars, users, detaches, outside, fanout, loops, queues, session, roster
<1>10. CASE \E d \in Clients : Connection(d) /\ ~Attach(d)
  BY <1>1, <1>5, <1>10
<1>11. CASE \E d \in Clients : Attach(d)
  BY <1>1, <1>3, <1>11
<1>12. CASE \E d \in Clients : Detach(d)
  BY <1>1, <1>4, <1>12
<1>13. CASE \E p \in Publishers : Fanout(p)
  BY <1>1, <1>6, <1>13
<1> QED
  BY <1>2, <1>7, <1>8, <1>9, <1>10, <1>11, <1>12, <1>13 DEF Next

\* readLoop's debt only shrinks, unless it has just written a chunk to the history.
LEMMA ReaderTodo ==
  ASSUME TypesInv, [Next]_vars, ~WriteHistory
  PROVE  /\ reader' = "publishing" => reader = "publishing"
         /\ todo'["reader"] \subseteq todo["reader"]
<1>0. LoopTypes /\ "reader" \in Publishers /\ "reader" \notin Clients
  BY SessionAssumption DEF TypesInv, TypeOK, Publishers
<1>1. ASSUME NEW c \in Clients, Detach(c)
      PROVE  reader' = reader /\ todo'["reader"] = todo["reader"]
  BY <1>0, <1>1, DetachFrame DEF DetachTell, LoopTypes
<1>2. ASSUME NEW p \in Publishers, Fanout(p)
      PROVE  reader' = reader /\ todo'["reader"] \subseteq todo["reader"]
  BY <1>0, <1>2 DEF Fanout, Deliver, Detached, loops, LoopTypes
<1>3. CASE ReadLoop
  <2>1. todo' = todo
    BY <1>3, ReadFrame
  <2>2. reader' # "publishing"
    BY <1>3 DEF ReadLoop, ReadChunk, ReadNext, ReadEOF
  <2> QED
    BY <2>1, <2>2
<1>4. CASE WaitLoop
  BY <1>0, <1>4, WaitFrame DEF BroadcastExit, ReapClients, ReapOne, LoopTypes
<1>5. UNCHANGED vars => UNCHANGED <<reader, todo>>
  BY DEF vars, outside, loops, fanout
<1> QED
  BY <1>1, <1>2, <1>3, <1>4, <1>5, AttachFrame, ConnectionFrame, CloseFrame DEF Next

\* ExitInv is inductive.
LEMMA StepKeepsExit ==
  ASSUME TypesInv, ControlInv, AddressInv, Begun, ExitInv, [Next]_vars
  PROVE  ExitInv'
<1>0. /\ SessionTypes /\ UserTypes /\ LoopTypes /\ QueueTypes /\ LocksHeld /\ Ending
      /\ Addressed /\ Awaited /\ Informed /\ ExitLast
      /\ "waiter" \in Publishers /\ "waiter" \notin Clients
  BY SessionAssumption DEF TypesInv, TypeOK, ControlInv, ExitInv, Publishers
<1>1. ExitLast'
  BY <1>0, ToldSteps
<1>2. Told \subseteq Told'
  BY <1>0, ToldSteps
<1>3. ASSUME waiter \in {"broadcasting", "reaping", "done"} PROVE waiter' \in {"broadcasting", "reaping", "done"}
  <2>1. CASE WaitLoop
    BY <1>3, <2>1 DEF WaitLoop, WaitReturns, CloseHistory, BroadcastExit, ReapClients, ReapOne,
       Finish, loops
  <2>2. CASE Deliver("waiter")
    BY <1>3, <2>2 DEF Deliver, loops
  <2>3. CASE ~WaitLoop /\ ~Deliver("waiter")
    <3>1. CASE Clients # {}
      BY <1>3, <2>3, <3>1, StepsBesides
    <3>2. CASE Clients = {}
      BY <1>3, <2>3, <3>2, ReadFrame, CloseFrame DEF Next, Fanout, Deliver, Detached, loops, vars,
         outside
    <3> QED
      BY <3>1, <3>2
  <2> QED
    BY <2>1, <2>2, <2>3
<1>4. Addressed'
  <2>1. \A c \in Told' : conn'[c] \in Admitted /\ waiter' \in {"broadcasting", "reaping", "done"}
    <3> SUFFICES ASSUME NEW c \in Told'
                 PROVE  conn'[c] \in Admitted /\ waiter' \in {"broadcasting", "reaping", "done"}
      OBVIOUS
    <3>1. c \in Clients /\ conn[c] \in Admitted /\ waiter \in {"broadcasting", "reaping", "done"}
      <4>1. CASE c \in Told
        BY <1>0, <4>1 DEF Addressed, Told
      <4>2. CASE c \notin Told
        BY <1>0, <4>2, ToldSteps
      <4> QED
        BY <4>1, <4>2
    <3> QED
      BY <1>3, <3>1, StaysAdmitted
  <2>2. ASSUME waiter' = "done" PROVE todo'["waiter"] = {} /\ (reader' = "publishing" => todo'["reader"] = {})
    <3>1. CASE WaitLoop
      <4>1. Finish
        BY <2>2, <3>1 DEF WaitLoop, WaitReturns, CloseHistory, BroadcastExit, ReapClients, ReapOne,
           Finish, loops
      <4>2. reader # "publishing" /\ reader' = reader /\ todo' = todo /\ todo["waiter"] = {}
        BY <1>0, <4>1 DEF Finish, LocksHeld, Published, fanout
      <4> QED
        BY <4>2
    <3>2. CASE ~WaitLoop
      <4>1. ~Deliver("waiter")
        BY <2>2 DEF Deliver, Publishing, loops
      <4>2. waiter = "done" /\ todo'["waiter"] = todo["waiter"]
        <5>1. CASE Clients # {}
          BY <2>2, <3>2, <4>1, <5>1, StepsBesides
        <5>2. CASE Clients = {}
          <6>1. todo'["waiter"] = {} /\ todo["waiter"] = {}
            <7>1. TypesInv'
              BY StepKeepsTypes
            <7> QED
              BY <1>0, <5>2, <7>1 DEF LoopTypes, TypesInv, TypeOK
          <6>2. waiter' = waiter
            BY <3>2, <5>2, ReadFrame, CloseFrame DEF Next, Fanout, Deliver, Detached, loops, vars,
               outside
          <6> QED
            BY <2>2, <6>1, <6>2
        <5> QED
          BY <5>1, <5>2
      <4>3. todo["waiter"] = {} /\ (reader = "publishing" => todo["reader"] = {}) /\ clients = {}
        BY <1>0, <4>2 DEF Addressed, Ending
      <4>4. CASE WriteHistory
        <5>1. todo'["reader"] = clients
          BY <1>0, <4>4 DEF WriteHistory, LoopTypes, Publishers
        <5> QED
          BY <4>2, <4>3, <5>1
      <4>5. CASE ~WriteHistory
        BY <4>2, <4>3, <4>5, ReaderTodo
      <4> QED
        BY <4>4, <4>5
    <3> QED
      BY <3>1, <3>2
  <2> QED
    BY <2>1, <2>2 DEF Addressed, Admitted
<1>5. Awaited' /\ Informed'
  <2> SUFFICES ASSUME NEW c \in Clients
               PROVE  /\ conn'[c] = "live" /\ detach'[c] = "none" =>
                           /\ waiter' \in {"reaping", "done"} => c \in todo'["waiter"]
                           /\ waiter' \notin {"reaping", "done"} => c \in clients'
                      /\ waiter' = "broadcasting" /\ detach'[c] = "none" /\ c \in clients' =>
                           c \in Told' \cup todo'["waiter"]
                      /\ waiter' = "reaping" /\ detach'[c] = "none" /\ c \in todo'["waiter"] => c \in Told'
                      /\ detach'[c] = "reaped" => ~open'[c] /\ c \in Told'
    BY DEF Awaited, Informed
  <2>0. /\ conn[c] = "live" /\ detach[c] = "none" =>
             /\ waiter \in {"reaping", "done"} => c \in todo["waiter"]
             /\ waiter \notin {"reaping", "done"} => c \in clients
        /\ waiter = "broadcasting" /\ detach[c] = "none" /\ c \in clients => c \in Told \cup todo["waiter"]
        /\ waiter = "reaping" /\ detach[c] = "none" /\ c \in todo["waiter"] => c \in Told
        /\ detach[c] = "reaped" => ~open[c] /\ c \in Told
    BY <1>0 DEF Awaited, Informed
  <2>1. CASE ~WaitLoop /\ ~Deliver("waiter")
    <3>1. CASE AttachPublish(c)
      <4>1. detach[c] = "none"
        BY <1>0, <3>1 DEF AttachPublish, AddressInv, Addressees, Admitted
      <4>2. waiter' = "waiting" /\ c \in clients' /\ detach' = detach
        BY <2>1, <3>1, StepsBesides DEF AttachPublish, outside, detaches
      <4> QED
        BY <4>1, <4>2
    <3>2. CASE ~AttachPublish(c)
      BY <1>2, <2>0, <2>1, <3>2, StepsBesides
    <3> QED
      BY <3>1, <3>2
  <2>2. CASE Deliver("waiter")
    <3>1. waiter = "broadcasting" /\ UNCHANGED <<waiter, clients, conn, open>>
      BY <1>0, <2>2 DEF Deliver, Publishing, loops, session, roster
    <3>2. PICK d \in todo["waiter"] :
            /\ todo' = [todo EXCEPT !["waiter"] = @ \ {d}]
            /\ \/ stream' = [stream EXCEPT ![d] = Append(@, Exited)] /\ UNCHANGED detach
               \/ detach' = [detach EXCEPT ![d] = IF @ = "none" THEN "locking" ELSE @]
      BY <2>2 DEF Deliver, FrameOf
    <3>3. todo'["waiter"] = todo["waiter"] \ {d} /\ d \in Clients
      BY <1>0, <3>2 DEF LoopTypes
    <3>4. (detach'[c] = "none" => detach[c] = "none") /\ (detach'[c] = "reaped" => detach[c] = "reaped")
      BY <1>0, <3>2 DEF UserTypes
    <3>5. detach'[d] = "none" => d \in Told'
      <4>1. CASE stream' = [stream EXCEPT ![d] = Append(@, Exited)]
        <5>1. Exited \in Frames
          BY DEF Exited, Frames
        <5> QED
          BY <1>0, <3>3, <4>1, <5>1, AppendTells DEF QueueTypes
      <4>2. CASE detach' = [detach EXCEPT ![d] = IF @ = "none" THEN "locking" ELSE @]
        BY <1>0, <3>3, <4>2 DEF UserTypes
      <4> QED
        BY <3>2, <4>1, <4>2
    <3> QED
      BY <1>2, <2>0, <3>1, <3>3, <3>4, <3>5
  <2>3. CASE WaitReturns \/ CloseHistory
    <3>1. /\ UNCHANGED <<clients, conn, open, detach, todo>>
          /\ waiter \in {"waiting", "exited"} /\ waiter' \in {"exited", "saving"}
      BY <2>3 DEF WaitReturns, CloseHistory, session, roster, users, detaches, fanout, queues
    <3> QED
      BY <1>2, <2>0, <3>1
  <2>4. CASE BroadcastExit
    <3>1. /\ UNCHANGED <<clients, conn, open, detach>> /\ todo'["waiter"] = clients
          /\ waiter = "saving" /\ waiter' = "broadcasting"
      BY <1>0, <2>4 DEF BroadcastExit, roster, users, detaches, queues, LoopTypes
    <3> QED
      BY <1>2, <2>0, <3>1
  <2>5. CASE ReapClients
    <3>1. /\ UNCHANGED <<conn, open, detach>> /\ todo'["waiter"] = clients /\ todo["waiter"] = {}
          /\ waiter = "broadcasting" /\ waiter' = "reaping"
      BY <1>0, <2>5 DEF ReapClients, Published, users, detaches, queues, LoopTypes
    <3> QED
      BY <1>2, <2>0, <3>1
  <2>6. CASE ReapOne
    <3>1. waiter = "reaping" /\ UNCHANGED <<waiter, conn, clients>>
      BY <2>6 DEF ReapOne, loops, session, roster
    <3>2. PICK d \in todo["waiter"] :
            /\ todo' = [todo EXCEPT !["waiter"] = @ \ {d}]
            /\ \/ /\ detach[d] = "none" /\ detach' = [detach EXCEPT ![d] = "reaped"]
                  /\ open' = [open EXCEPT ![d] = FALSE]
               \/ detach[d] # "none" /\ UNCHANGED <<detach, open>>
      BY <2>6 DEF ReapOne
    <3>3. d \in Clients /\ todo'["waiter"] = todo["waiter"] \ {d}
      BY <1>0, <3>2 DEF LoopTypes
    <3>4. CASE c = d
      <4>1. detach'[c] # "none"
        BY <1>0, <3>2, <3>4 DEF UserTypes
      <4>2. detach'[c] = "reaped" => ~open'[c] /\ c \in Told
        BY <1>0, <2>0, <3>1, <3>2, <3>3, <3>4 DEF UserTypes, QueueTypes
      <4> QED
        BY <1>2, <4>1, <4>2
    <3>5. CASE c # d
      <4>1. detach'[c] = detach[c] /\ open'[c] = open[c]
        BY <1>0, <3>2, <3>5 DEF UserTypes, QueueTypes
      <4> QED
        BY <1>2, <2>0, <3>1, <3>3, <3>5, <4>1
    <3> QED
      BY <3>4, <3>5
  <2>7. CASE Finish
    <3>1. /\ UNCHANGED <<conn, open, detach, todo>> /\ todo["waiter"] = {}
          /\ waiter = "reaping" /\ waiter' = "done"
      BY <2>7 DEF Finish, Published, users, detaches, queues, fanout
    <3> QED
      BY <1>2, <2>0, <3>1
  <2> QED
    BY <2>1, <2>2, <2>3, <2>4, <2>5, <2>6, <2>7 DEF WaitLoop
<1> QED
  BY <1>1, <1>4, <1>5 DEF ExitInv

\* The exit reaches the clients that stay, and no output follows it
\* (ExitReachesKeptClients): waitLoop broadcasts it and takes the map in one section of
\* outputMu, and a client is out of its snapshot only if it was told or given up.
THEOREM ExitReachesKeptClientsHolds == Spec => []ExitReachesKeptClients
<1>1. Init => ExitInv
  <2> SUFFICES ASSUME Init PROVE ExitInv
    OBVIOUS
  <2>1. \A c \in Clients : stream[c] = <<>> /\ detach[c] = "none" /\ conn[c] = "idle"
    BY DEF Init
  <2>2. \A c \in Clients : DOMAIN stream[c] = {}
    BY <2>1
  <2>3. Told = {}
    BY <2>2 DEF Told
  <2>4. ExitLast
    BY <2>2 DEF ExitLast
  <2>5. waiter = "waiting"
    BY DEF Init
  <2> QED
    BY <2>1, <2>3, <2>4, <2>5 DEF ExitInv, Addressed, Awaited, Informed
<1>2. TypesInv /\ ControlInv /\ AddressInv /\ Begun /\ ExitInv /\ [Next]_vars => ExitInv'
  BY StepKeepsExit
<1>3. ExitInv => ExitReachesKeptClients
  <2> SUFFICES ASSUME ExitInv PROVE ExitReachesKeptClients
    OBVIOUS
  <2>1. Addressed /\ Awaited /\ Informed /\ ExitLast
    BY DEF ExitInv
  <2>2. ASSUME waiter = "done", NEW c \in Clients
        PROVE  /\ conn[c] = "live" => detach[c] # "none"
               /\ detach[c] = "reaped" =>
                    ~open[c] /\ \E i \in DOMAIN stream[c] : stream[c][i] = Exited
    <3>1. conn[c] = "live" => detach[c] # "none"
      BY <2>1, <2>2 DEF Addressed, Awaited
    <3>2. detach[c] = "reaped" => ~open[c] /\ c \in Told
      BY <2>1 DEF Informed
    <3> QED
      BY <3>1, <3>2 DEF Told
  <2> QED
    BY <2>1, <2>2 DEF ExitReachesKeptClients, ExitLast
<1> QED
  BY <1>1, <1>2, <1>3, StreamsHold, PTL DEF Spec

-----------------------------------------------------------------------------
(* Who waits for whom.                                                      *)

\* A mutex that is held is held by somebody inside a section of it: every way out of attach,
\* of a write, a resize and of the two loops unlocks what it locked.
HeldInside ==
  /\ \A c \in Clients : outputMu = c => conn[c] \in {"attaching", "replaying", "publishing"}
  /\ outputMu = "reader" => reader = "publishing"
  /\ outputMu = "waiter" => waiter \in {"broadcasting", "reaping"}
  /\ \A c \in Clients : controlMu = c =>
       conn[c] \in {"replaying", "publishing"} \/ op[c] \in {"writing", "resizing"}

\* A Detach has somebody to tell, or waits for another Detach, only while it is telling.
Telling == \A c \in Clients : detach[c] # "telling" => todo[c] = {} /\ stuck[c] = NoClient

\* A Detach that somebody waits for has begun.
WaitedFor == \A p \in Publishers : stuck[p] # NoClient => detach[stuck[p]] # "none"

\* The Detaches that may come to wait for each other are in no circle: of every set of them
\* one has nobody of the set to tell or to wait for.
NoCircle ==
  \A S \in SUBSET Clients : S # {} => \E c \in S : (todo[c] \cup {stuck[c]}) \cap S = {}

WaitInv == HeldInside /\ Telling /\ WaitedFor /\ NoCircle

\* The Detach of c waits for that of another client.
Waits(c) == stuck[c] # NoClient /\ ~OnceDone(stuck[c])

\* The Detach of c is under way and waits for nothing but controlMu: that is free, or held by
\* an attach that waits for nothing, or by a write or a resize that is inside the PTY.
GoesOn(c) ==
  /\ detach[c] \notin {"none", "done", "reaped"} /\ ~Waits(c)
  /\ detach[c] = "locking" /\ controlMu # NoClient =>
       conn[controlMu] \in {"replaying", "publishing"} \/ op[controlMu] \in {"writing", "resizing"}

\* Whoever publishes and waits for the Detach of a slow client waits for one that goes on:
\* along the Detaches that wait for each other there is always one.  While readLoop or
\* waitLoop publishes, controlMu is held by nobody who attaches: only the PTY may hold up
\* the Detach (publishBinary, broadcastText, detachClient, writeInputFrom).
WaitsEnd ==
  /\ \A p \in Publishers : \A chain \in SUBSET Clients :
       /\ stuck[p] \in chain /\ ~OnceDone(stuck[p])
       /\ \A c \in chain : Waits(c) => stuck[c] \in chain
       => \E c \in chain : GoesOn(c)
  /\ outputMu \in {"reader", "waiter"} /\ controlMu # NoClient =>
       op[controlMu] \in {"writing", "resizing"}

\* HeldInside reads nothing else.
LEMMA KeepHeld ==
  HeldInside /\ UNCHANGED <<outputMu, controlMu, conn, op, reader, waiter>> => HeldInside'
  BY DEF HeldInside
\* The other parts read nothing else.
LEMMA KeepWaits ==
  UNCHANGED <<todo, stuck, detach>> =>
    (Telling => Telling') /\ (WaitedFor => WaitedFor') /\ (NoCircle => NoCircle')
  BY DEF Telling, WaitedFor, NoCircle
\* Who has fewer to wait for closes no circle.
LEMMA FewerWaits ==
  ASSUME NoCircle,
         \A c \in Clients : todo'[c] \cup {stuck'[c]} \subseteq todo[c] \cup {stuck[c], NoClient}
  PROVE  NoCircle'
<1> SUFFICES ASSUME NEW S \in SUBSET Clients, S # {}
             PROVE  \E c \in S : (todo'[c] \cup {stuck'[c]}) \cap S = {}
  BY DEF NoCircle
<1>1. PICK c \in S : (todo[c] \cup {stuck[c]}) \cap S = {}
  BY DEF NoCircle
<1>2. NoClient \notin S
  BY SessionAssumption
<1> QED
  BY <1>1, <1>2

\* Every step keeps HeldInside.
LEMMA StepKeepsHeld ==
  ASSUME TypesInv, ControlInv, HeldInside, [Next]_vars
  PROVE  HeldInside'
<1>0. /\ SessionTypes /\ UserTypes /\ LoopTypes /\ LocksHeld
      /\ \A c \in Clients : c # "reader" /\ c # "waiter" /\ c # NoClient
      /\ NoClient # "reader" /\ NoClient # "waiter"
  BY SessionAssumption DEF TypesInv, TypeOK, ControlInv
<1>1. ASSUME NEW c \in Clients, Attach(c) PROVE HeldInside'
  <2>1. UNCHANGED <<op, reader, waiter>> /\ \A d \in Clients \ {c} : conn'[d] = conn[d]
    BY <1>0, <1>1, AttachFrame DEF UserTypes
  <2>2. CASE AttachLock(c)
    BY <1>0, <2>1, <2>2 DEF AttachLock, HeldInside, UserTypes
  <2>3. CASE AttachRefuse(c)
    BY <1>0, <2>1, <2>3 DEF AttachRefuse, HeldInside
  <2>4. CASE AttachReserve(c) \/ AttachReplay(c)
    <3>1. outputMu = c /\ outputMu' = c /\ conn'[c] \in {"replaying", "publishing"} /\ controlMu' = c
      BY <1>0, <2>4 DEF AttachReserve, AttachReplay, LocksHeld, UserTypes, session, locks
    <3> QED
      BY <1>0, <2>1, <3>1 DEF HeldInside
  <2>5. CASE AttachFail(c) \/ AttachPublish(c) \/ AttachTooLate(c)
    <3>1. outputMu' = NoClient /\ controlMu' = NoClient
      BY <2>5 DEF AttachFail, AttachPublish, AttachTooLate, Withdraw
    <3> QED
      BY <1>0, <3>1 DEF HeldInside
  <2> QED
    BY <1>1, <2>2, <2>3, <2>4, <2>5 DEF Attach
<1>2. ASSUME NEW c \in Clients, Connection(c), ~Attach(c) PROVE HeldInside'
  <2>1. CASE Disconnect(c) \/ Gone(c)
    <3>1. /\ UNCHANGED <<outputMu, controlMu, op, reader, waiter>> /\ conn[c] \in {"live", "leaving"}
          /\ \A d \in Clients \ {c} : conn'[d] = conn[d]
      BY <1>0, <2>1 DEF Disconnect, Gone, UserTypes, session, locks, outside, loops
    <3> QED
      BY <3>1 DEF HeldInside
  <2>2. CASE Drain(c)
    BY <2>2, KeepHeld DEF Drain, session, locks, users, loops
  <2>3. CASE TakeControl(c) \/ SendGrant(c)
    <3>1. /\ UNCHANGED <<outputMu, controlMu, conn, reader, waiter>>
          /\ op[c] \in {"none", "granting"} /\ \A d \in Clients \ {c} : op'[d] = op[d]
      BY <1>0, <2>3 DEF TakeControl, SendGrant, MayOperate, UserTypes, session, locks, loops
    <3> QED
      BY <3>1 DEF HeldInside
  <2>4. CASE WriteBegin(c) \/ ResizeBegin(c)
    <3>1. /\ UNCHANGED <<outputMu, conn, reader, waiter>> /\ controlMu' = c
          /\ op'[c] \in {"writing", "resizing"}
      BY <1>0, <2>4 DEF WriteBegin, ResizeBegin, UserTypes, outside, loops
    <3> QED
      BY <1>0, <3>1 DEF HeldInside
  <2>5. CASE WriteEnd(c) \/ ResizeEnd(c)
    <3>1. UNCHANGED <<outputMu, conn, reader, waiter>> /\ controlMu' = NoClient
      BY <2>5 DEF WriteEnd, ResizeEnd, outside, loops
    <3> QED
      BY <1>0, <3>1 DEF HeldInside
  <2> QED
    BY <1>2, <2>1, <2>2, <2>3, <2>4, <2>5 DEF Connection
<1>3. ASSUME NEW c \in Clients, Detach(c) PROVE HeldInside'
  <2>1. UNCHANGED <<outputMu, controlMu, conn, op, reader, waiter>>
    BY <1>3 DEF Detach, DetachUnlink, DetachClose, DetachPromote, DetachTell, DetachTold, session,
       locks, outside, loops
  <2> QED
    BY <2>1, KeepHeld
<1>4. ASSUME NEW p \in Publishers, Fanout(p) PROVE HeldInside'
  <2>1. UNCHANGED <<outputMu, controlMu, conn, op, reader, waiter>>
    BY <1>4 DEF Fanout, Deliver, Detached, session, locks, users, loops
  <2> QED
    BY <2>1, KeepHeld
<1>5. CASE ReadLoop
  <2>1. UNCHANGED <<controlMu, conn, op, waiter>>
    BY <1>5 DEF ReadLoop, ReadChunk, WriteHistory, ReadNext, ReadEOF, session, locks, users
  <2>2. \/ WriteHistory \/ ReadNext
        \/ UNCHANGED outputMu /\ reader # "publishing"
    BY <1>5 DEF ReadLoop, ReadChunk, ReadEOF, session, locks
  <2> QED
    BY <1>0, <2>1, <2>2 DEF WriteHistory, ReadNext, HeldInside
<1>6. CASE WaitLoop
  <2>1. UNCHANGED <<controlMu, conn, op, reader>>
    BY <1>6 DEF WaitLoop, WaitReturns, CloseHistory, BroadcastExit, ReapClients, ReapOne, Finish,
       session, locks, users, loops
  <2>2. \/ BroadcastExit \/ Finish
        \/ UNCHANGED outputMu /\ (waiter' \in {"broadcasting", "reaping"} \/ waiter \notin {"broadcasting", "reaping"})
    BY <1>6 DEF WaitLoop, WaitReturns, CloseHistory, ReapClients, ReapOne, session, locks, loops
  <2> QED
    BY <1>0, <2>1, <2>2 DEF BroadcastExit, Finish, HeldInside
<1>7. CASE Child \/ \E k \in Closers : Close(k)
  <2>1. UNCHANGED <<outputMu, controlMu, conn, op, reader, waiter>>
    BY <1>7 DEF Child, ChildOutput, ChildInput, ChildExit, Close, CloseCall, CloseNotify,
       ClosePty, ClosePtyFails, CloseReturn, session, locks, users, loops
  <2> QED
    BY <2>1, KeepHeld
<1>8. CASE UNCHANGED vars
  BY <1>8, KeepHeld DEF vars, session, locks, users, outside, loops
<1> QED
  BY <1>1, <1>2, <1>3, <1>4, <1>5, <1>6, <1>7, <1>8 DEF Next

\* Every step keeps Telling, WaitedFor and NoCircle: only DetachTell gives a Detach somebody
\* to wait for, and only clients of the map, whose Detach has nobody.
LEMMA StepKeepsWaits ==
  ASSUME TypesInv, ControlInv, AddressInv, Telling, WaitedFor, NoCircle, [Next]_vars
  PROVE  Telling' /\ WaitedFor' /\ NoCircle'
<1>0. /\ SessionTypes /\ UserTypes /\ LoopTypes /\ Unlinked
      /\ NoClient \notin Clients /\ "reader" \notin Clients /\ "waiter" \notin Clients
      /\ Clients \subseteq Publishers /\ "waiter" \in Publishers /\ "reader" \in Publishers
  BY SessionAssumption DEF TypesInv, TypeOK, AddressInv, Publishers
<1>1. CASE UNCHANGED <<todo, stuck, detach>>
  BY <1>1, KeepWaits
<1>2. ASSUME \A c \in Clients : todo'[c] = todo[c] /\ stuck'[c] = stuck[c] PROVE NoCircle'
  BY <1>2, FewerWaits
<1>3. ASSUME UNCHANGED stuck, \A c \in Clients : detach[c] # "none" => detach'[c] # "none"
      PROVE  WaitedFor'
  BY <1>0, <1>3 DEF WaitedFor, LoopTypes
<1>4. ASSUME NEW c \in Clients, Disconnect(c) PROVE Telling' /\ WaitedFor' /\ NoCircle'
  <2>1. UNCHANGED <<todo, stuck>>
    BY <1>4 DEF Disconnect, outside, fanout
  <2>2. \A d \in Clients : detach'[d] = detach[d] \/ (detach[d] = "none" /\ detach'[d] = "locking")
    BY <1>0, <1>4 DEF Disconnect, UserTypes
  <2>3. Telling'
    BY <2>1, <2>2 DEF Telling
  <2> QED
    BY <1>2, <1>3, <2>1, <2>2, <2>3
<1>5. ASSUME NEW c \in Clients, Detach(c), ~DetachTell(c) PROVE Telling' /\ WaitedFor' /\ NoCircle'
  <2>1. UNCHANGED <<todo, stuck>>
    BY <1>5, DetachFrame
  <2>2. /\ detach'[c] # "none" /\ detach'[c] # "telling"
        /\ detach[c] = "telling" => todo[c] = {} /\ stuck[c] = NoClient
        /\ \A d \in Clients \ {c} : detach'[d] = detach[d]
    BY <1>0, <1>5 DEF Detach, DetachUnlink, DetachClose, DetachPromote, DetachTold, UserTypes
  <2>3. Telling'
    BY <2>1, <2>2 DEF Telling
  <2> QED
    BY <1>2, <1>3, <2>1, <2>2, <2>3
<1>6. ASSUME NEW c \in Clients, DetachTell(c) PROVE Telling' /\ WaitedFor' /\ NoCircle'
  <2>1. /\ UNCHANGED stuck /\ todo'[c] = clients /\ detach[c] = "closed" /\ detach'[c] = "telling"
        /\ \A d \in Clients \ {c} : detach'[d] = detach[d] /\ todo'[d] = todo[d]
    BY <1>0, <1>6 DEF DetachTell, UserTypes, LoopTypes
  <2>2. Telling' /\ WaitedFor'
    BY <1>3, <2>1 DEF Telling
  <2>3. c \notin clients /\ stuck[c] = NoClient
    BY <1>0, <2>1 DEF Unlinked, Telling
  <2>4. \A d \in clients : d \in Clients /\ todo[d] = {} /\ stuck[d] = NoClient
    BY <1>0 DEF Unlinked, Telling, SessionTypes
  <2>5. ASSUME NEW S \in SUBSET Clients, S # {}
        PROVE  \E d \in S : (todo'[d] \cup {stuck'[d]}) \cap S = {}
    <3>1. CASE S \cap clients # {}
      <4>1. PICK d \in S : d \in clients
        BY <3>1
      <4>2. todo'[d] = {} /\ stuck'[d] = NoClient /\ NoClient \notin S
        BY <1>0, <2>1, <2>3, <2>4, <4>1
      <4> QED
        BY <4>1, <4>2
    <3>2. CASE S \cap clients = {}
      <4>1. PICK d \in S : (todo[d] \cup {stuck[d]}) \cap S = {}
        BY <2>5 DEF NoCircle
      <4>2. CASE d = c
        BY <1>0, <2>1, <2>3, <3>2, <4>1, <4>2
      <4>3. CASE d # c
        BY <2>1, <4>1, <4>3
      <4> QED
        BY <4>1, <4>2, <4>3
    <3> QED
      BY <3>1, <3>2
  <2>6. NoCircle'
    BY <2>5 DEF NoCircle
  <2> QED
    BY <2>2, <2>6
<1>7. ASSUME NEW p \in Publishers, Deliver(p) PROVE Telling' /\ WaitedFor' /\ NoCircle'
  <2>1. PICK c \in todo[p] :
          /\ todo' = [todo EXCEPT ![p] = @ \ {c}]
          /\ \/ UNCHANGED <<detach, stuck>>
             \/ /\ stuck' = [stuck EXCEPT ![p] = c]
                /\ detach' = [detach EXCEPT ![c] = IF @ = "none" THEN "locking" ELSE @]
    BY <1>7 DEF Deliver
  <2>2. /\ todo'[p] = todo[p] \ {c} /\ c \in Clients /\ (stuck'[p] = stuck[p] \/ stuck'[p] = c)
        /\ \A q \in Publishers \ {p} : todo'[q] = todo[q] /\ stuck'[q] = stuck[q]
        /\ stuck' = stuck \/ (stuck'[p] = c /\ detach'[c] # "none")
        /\ \A d \in Clients : detach'[d] = detach[d] \/ (detach[d] = "none" /\ detach'[d] = "locking")
    BY <1>0, <2>1 DEF LoopTypes, UserTypes
  <2>3. p \in Clients => detach[p] = "telling"
    BY <1>0, <1>7 DEF Deliver, Publishing
  <2>4. Telling'
    BY <1>0, <2>2, <2>3 DEF Telling
  <2>5. WaitedFor'
    <3>1. \A d \in Clients : detach[d] # "none" => detach'[d] # "none"
      BY <2>2
    <3>2. \A q \in Publishers : stuck'[q] # NoClient => detach'[stuck'[q]] # "none"
      BY <1>0, <2>2, <3>1 DEF WaitedFor, LoopTypes
    <3> QED
      BY <3>2 DEF WaitedFor
  <2>6. NoCircle'
    <3>1. \A d \in Clients : todo'[d] \cup {stuck'[d]} \subseteq todo[d] \cup {stuck[d], NoClient}
      BY <1>0, <2>1, <2>2
    <3> QED
      BY <3>1, FewerWaits
  <2> QED
    BY <2>4, <2>5, <2>6
<1>8. ASSUME NEW p \in Publishers, Detached(p) PROVE Telling' /\ WaitedFor' /\ NoCircle'
  <2>1. /\ UNCHANGED <<todo, detach>> /\ stuck'[p] = NoClient
        /\ \A q \in Publishers \ {p} : stuck'[q] = stuck[q]
    BY <1>0, <1>8 DEF Detached, users, detaches, LoopTypes
  <2>2. Telling' /\ WaitedFor'
    BY <1>0, <2>1 DEF Telling, WaitedFor
  <2>3. NoCircle'
    <3>1. \A d \in Clients : todo'[d] \cup {stuck'[d]} \subseteq todo[d] \cup {stuck[d], NoClient}
      BY <1>0, <2>1
    <3> QED
      BY <3>1, FewerWaits
  <2> QED
    BY <2>2, <2>3
<1>9. CASE WriteHistory \/ BroadcastExit \/ ReapClients
  <2>1. UNCHANGED <<stuck, detach>> /\ \A d \in Clients : todo'[d] = todo[d]
    BY <1>0, <1>9 DEF WriteHistory, BroadcastExit, ReapClients, users, detaches, LoopTypes
  <2>2. Telling'
    BY <2>1 DEF Telling
  <2> QED
    BY <1>2, <1>3, <2>1, <2>2
<1>10. CASE ReapOne
  <2>1. PICK c \in todo["waiter"] :
          /\ todo' = [todo EXCEPT !["waiter"] = @ \ {c}]
          /\ \/ detach[c] = "none" /\ detach' = [detach EXCEPT ![c] = "reaped"] /\ UNCHANGED stuck
             \/ detach[c] # "none" /\ stuck' = [stuck EXCEPT !["waiter"] = c] /\ UNCHANGED detach
    BY <1>10 DEF ReapOne
  <2>2. /\ c \in Clients /\ \A d \in Clients : todo'[d] = todo[d] /\ stuck'[d] = stuck[d]
        /\ stuck' = stuck \/ (stuck'["waiter"] = c /\ detach'[c] # "none")
        /\ \A q \in Publishers \ {"waiter"} : stuck'[q] = stuck[q]
        /\ \A d \in Clients : detach'[d] = detach[d] \/ (detach[d] = "none" /\ detach'[d] = "reaped")
    BY <1>0, <2>1 DEF LoopTypes, UserTypes
  <2>3. Telling'
    BY <2>2 DEF Telling
  <2>4. WaitedFor'
    <3>1. \A d \in Clients : detach[d] # "none" => detach'[d] # "none"
      BY <2>2
    <3>2. \A q \in Publishers : stuck'[q] # NoClient => detach'[stuck'[q]] # "none"
      BY <1>0, <2>2, <3>1 DEF WaitedFor, LoopTypes
    <3> QED
      BY <3>2 DEF WaitedFor
  <2> QED
    BY <1>2, <2>2, <2>3, <2>4
<1>11. ASSUME NEW c \in Clients, Attach(c) PROVE UNCHANGED <<todo, stuck, detach>>
  BY <1>11, AttachFrame
<1>12. ASSUME NEW c \in Clients, Connection(c), ~Attach(c), ~Disconnect(c)
       PROVE  UNCHANGED <<todo, stuck, detach>>
  BY <1>12, ConnectionFrame DEF Gone, detaches
<1>13. ASSUME ReadLoop, ~WriteHistory PROVE UNCHANGED <<todo, stuck, detach>>
  BY <1>13, ReadFrame
<1>14. ASSUME WaitLoop, ~BroadcastExit, ~ReapClients, ~ReapOne PROVE UNCHANGED <<todo, stuck, detach>>
  BY <1>14, WaitFrame
<1>15. CASE Child \/ \E k \in Closers : Close(k)
  BY <1>1, <1>15, CloseFrame
<1>16. UNCHANGED vars => UNCHANGED <<todo, stuck, detach>>
  BY DEF vars, users, detaches, outside, fanout
<1> QED
  BY <1>1, <1>4, <1>5, <1>6, <1>7, <1>8, <1>9, <1>10, <1>11, <1>12, <1>13, <1>14, <1>15, <1>16
  DEF Next, Fanout

\* No mutex is lost and no Detaches wait for each other in a circle.
THEOREM WaitInvHolds == Spec => [](TypesInv /\ ControlInv /\ AddressInv /\ WaitInv)
<1>1. Init => WaitInv
  <2> SUFFICES ASSUME Init PROVE WaitInv
    OBVIOUS
  <2>1. HeldInside
    BY SessionAssumption DEF Init, HeldInside
  <2>2. \A c \in Clients : todo[c] = {} /\ stuck[c] = NoClient
    BY DEF Init, Publishers
  <2>3. NoClient \notin Clients
    BY SessionAssumption
  <2>4. Telling /\ NoCircle
    BY <2>2, <2>3 DEF Telling, NoCircle
  <2>5. WaitedFor
    BY DEF Init, WaitedFor
  <2> QED
    BY <2>1, <2>4, <2>5 DEF WaitInv
<1>2. TypesInv /\ ControlInv /\ AddressInv /\ WaitInv /\ [Next]_vars => WaitInv'
  BY StepKeepsHeld, StepKeepsWaits DEF WaitInv
<1> QED
  BY <1>1, <1>2, AddressInvHolds, PTL DEF Spec

\* Every wait for a slow client ends, unless the child does not read its input (WaitsEnd).
THEOREM WaitsEndHolds == Spec => []WaitsEnd
<1>1. TypesInv /\ ControlInv /\ WaitInv => WaitsEnd
  <2> SUFFICES ASSUME TypesInv, ControlInv, WaitInv PROVE WaitsEnd
    OBVIOUS
  <2>0. /\ SessionTypes /\ LoopTypes /\ LocksHeld /\ HeldInside /\ Telling /\ WaitedFor /\ NoCircle
        /\ NoClient \notin Clients /\ "reader" \notin Clients /\ "waiter" \notin Clients
        /\ Clients \subseteq Publishers
    BY SessionAssumption DEF TypesInv, TypeOK, ControlInv, WaitInv, Publishers
  <2>1. ASSUME NEW q \in Publishers, stuck[q] # NoClient, ~OnceDone(stuck[q]), ~Waits(stuck[q])
        PROVE  GoesOn(stuck[q])
    <3>1. detach[stuck[q]] \notin {"none", "done", "reaped"}
      BY <2>0, <2>1 DEF WaitedFor, OnceDone
    <3>2. controlMu # NoClient =>
            conn[controlMu] \in {"replaying", "publishing"} \/ op[controlMu] \in {"writing", "resizing"}
      BY <2>0 DEF HeldInside, SessionTypes
    <3> QED
      BY <2>1, <3>1, <3>2 DEF GoesOn
  <2>2. ASSUME NEW p \in Publishers, NEW chain \in SUBSET Clients, stuck[p] \in chain,
               ~OnceDone(stuck[p]), \A c \in chain : Waits(c) => stuck[c] \in chain
        PROVE  \E c \in chain : GoesOn(c)
    <3> DEFINE S == {c \in chain : Waits(c)}
    <3>1. CASE stuck[p] \notin S
      BY <2>0, <2>1, <2>2, <3>1
    <3>2. CASE stuck[p] \in S
      <4>1. PICK c \in S : (todo[c] \cup {stuck[c]}) \cap S = {}
        BY <2>0, <3>2 DEF NoCircle
      <4>2. c \in chain /\ c \in Publishers /\ Waits(c) /\ stuck[c] \in chain
        BY <2>0, <2>2, <4>1
      <4>3. ~Waits(stuck[c])
        BY <4>1, <4>2
      <4> QED
        BY <2>1, <4>2, <4>3 DEF Waits
    <3> QED
      BY <3>1, <3>2
  <2>3. ASSUME outputMu \in {"reader", "waiter"}, controlMu # NoClient
        PROVE  op[controlMu] \in {"writing", "resizing"}
    <3>1. controlMu \in Clients /\ ~(conn[controlMu] \in {"replaying", "publishing"})
      BY <2>0, <2>3 DEF SessionTypes, LocksHeld
    <3> QED
      BY <2>0, <3>1 DEF HeldInside
  <2> QED
    BY <2>2, <2>3 DEF WaitsEnd
<1> QED
  BY <1>1, WaitInvHolds, PTL
=============================================================================
