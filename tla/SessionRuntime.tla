---------------------------- MODULE SessionRuntime ----------------------------
(***************************************************************************)
(* One live terminal session of the Agent                                  *)
(* (internal/agent/application/task/terminal/runtime.go and the Client of  *)
(* registry.go): a PTY, the goroutines readLoop and waitLoop, callers of   *)
(* closeSession, and one connection per Client that attaches, takes        *)
(* control, writes input, resizes and detaches.                            *)
(*                                                                         *)
(* outputMu and controlMu are variables, because they are held across      *)
(* blocking calls.  r.mu and Client.mu are held only for the length of one *)
(* critical section, so a critical section is one action.  resizeMu is     *)
(* only ever taken under controlMu and adds no behaviour.                  *)
(***************************************************************************)
EXTENDS Integers, Sequences, FiniteSets

CONSTANTS
  Clients,        \* connection attempts; a Client id is never used twice
  Closers,        \* callers of closeSession
  NoClient,       \* the empty controllerClientId; also an unlocked mutex
  Sizes,          \* terminal sizes
  QueueSize,      \* cap(c.queue): outbound frames
  QueueBytes,     \* registry.clientQueueBytes
  TextBytes,      \* outboundSize of a text frame
  ChunkBytes,     \* outboundSize of a PTY chunk
  ReplayMax,      \* replayMaxBytes, in chunks
  OutCap,         \* PTY output the child may produce ahead of readLoop, in chunks
  InCap,          \* PTY input the child may leave unread, in writes
  MaxChunks,      \* bound: chunks the child produces
  MaxTakes,       \* bound: takeControl calls
  MaxWrites,      \* bound: input writes
  MaxDrains,      \* bound: frames a connection takes from its queue
  ChildExits,     \* bound: the child may end by itself or when hung up
  EchoChild,      \* the child writes a chunk for each input before it reads on
  AttachErrors,   \* idgen.New, history.Flush or the read of the history may fail
  CloseErrors     \* pty.Close may fail

ASSUME SessionAssumption ==
  /\ NoClient \notin Clients
  /\ {QueueSize, QueueBytes, TextBytes, ChunkBytes} \subseteq Nat
  /\ ReplayMax \in Nat \ {0}
  /\ {OutCap, InCap, MaxChunks, MaxTakes, MaxWrites, MaxDrains} \subseteq Nat
  /\ {ChildExits, EchoChild, AttachErrors, CloseErrors} \subseteq BOOLEAN
  /\ Sizes # {}
  /\ {"reader", "waiter", "nobody", "everybody"} \cap (Clients \cup {NoClient}) = {}

VARIABLES
  clients,      \* r.clients: the live clients
  order,        \* r.clientOrder
  controller,   \* r.controllerClientId
  attachment,   \* r.attachment
  closed,       \* r.closed
  size,         \* r.current
  outputMu,     \* holder of outputMu
  controlMu,    \* holder of controlMu
  conn,         \* where each connection is
  op,           \* the operation its reader is in
  grants,       \* role frames a takeControl still has to send
  detach,       \* how far Client.once, and so detachClient, got
  notice,       \* whom detachClient tells after unlocking
  reader,       \* where readLoop is
  waiter,       \* where waitLoop is
  closer,       \* where each caller of closeSession is
  closeTodo,    \* clients the closing caller has still to notify
  todo,         \* clients a publishing goroutine has still to send to
  stuck,        \* the client whose Detach a publishing goroutine waits for
  stream,       \* every frame ever put in the queue of a client
  sent,         \* how many of them left the queue
  open,         \* the queue of the client is not closed
  base,         \* history: chunks written when the client's replay was queued
  hist,         \* chunks written to the history
  readN,        \* chunks taken from the PTY by readLoop
  produced,     \* chunks written to the PTY by the child
  inBuf,        \* inputs in the PTY that the child has not read
  alive,        \* the child runs
  hungUp,       \* pty.Close succeeded
  takes, writes \* bounds

locks    == <<outputMu, controlMu>>
roster   == <<clients, order, controller, attachment, closed>>
queues   == <<stream, sent, open, base>>
fanout   == <<todo, stuck>>
pty      == <<hist, readN, produced, inBuf, alive, hungUp>>
closing  == <<closer, closeTodo>>
detaches == <<detach, notice>>
bounds   == <<takes, writes>>
session  == <<roster, size, locks>>
users    == <<conn, op, grants, detaches>>
loops    == <<reader, waiter, closing>>
outside  == <<loops, fanout, queues, pty, bounds>>
vars     == <<session, users, outside>>

Publishers == {"reader", "waiter"} \cup Clients

-----------------------------------------------------------------------------
(* Outbound frames                                                         *)

Started(role)   == [type |-> "started", role |-> role]
ReplayStarted   == [type |-> "replay_started"]
Output(n)       == [type |-> "output", chunk |-> n]
ReplayFinished(truncated) == [type |-> "replay_finished", truncated |-> truncated]
Role(role)      == [type |-> "role", role |-> role]
State           == [type |-> "state"]
Exited          == [type |-> "exited"]

Roles  == {"controller", "observer"}
Frames == [type : {"started", "role"}, role : Roles]
            \cup [type : {"output"}, chunk : 1..MaxChunks]
            \cup [type : {"replay_finished"}, truncated : BOOLEAN]
            \cup [type : {"replay_started", "state", "exited"}]

Bytes(frame) == IF frame.type = "output" THEN ChunkBytes ELSE TextBytes

BytesOf(frames) ==
  LET chunks == Cardinality({i \in DOMAIN frames : frames[i].type = "output"})
  IN  chunks * ChunkBytes + (Len(frames) - chunks) * TextBytes

Queued(c) == SubSeq(stream[c], sent[c] + 1, Len(stream[c]))

\* Would the queue, holding the frames q, take a frame of this size?
Fits(q, bytes) == Len(q) < QueueSize /\ BytesOf(q) + bytes <= QueueBytes

CanEnqueue(c, frame) == open[c] /\ Fits(Queued(c), Bytes(frame))

\* Best effort: a role frame, or closeSession's frame, that finds the queue
\* full or closed is dropped.
Offer(c, frame) ==
  stream' = IF CanEnqueue(c, frame)
            THEN [stream EXCEPT ![c] = Append(@, frame)] ELSE stream

\* removeClientOrder; an id occurs at most once (OrderIsRoster).
Without(c) ==
  IF \E i \in DOMAIN order : order[i] = c
  THEN LET i == CHOOSE i \in DOMAIN order : order[i] = c
       IN  [j \in 1 .. Len(order) - 1 |-> IF j < i THEN order[j] ELSE order[j + 1]]
  ELSE order

NoHeir(c) == NoClient  \* mutant: nobody is elected

HeirLast(c) ==  \* mutant: the youngest is elected
  LET rest == Without(c) IN IF rest = <<>> THEN NoClient ELSE rest[Len(rest)]

\* Who takes over when c leaves the order: the oldest that stays.
Heir(c) == LET rest == Without(c) IN IF rest = <<>> THEN NoClient ELSE Head(rest)

OnceDoneUnlessReaped(c) == detach[c] = "done"  \* mutant: a reaped client is not done

\* Client.once has run.
OnceDone(c) == detach[c] \in {"done", "reaped"}

-----------------------------------------------------------------------------
Init ==
  /\ clients = {} /\ order = <<>> /\ controller = NoClient
  /\ attachment = "unattached" /\ closed = FALSE
  /\ size \in Sizes
  /\ outputMu = NoClient /\ controlMu = NoClient
  /\ conn = [c \in Clients |-> "idle"] /\ op = [c \in Clients |-> "none"]
  /\ grants = [c \in Clients |-> <<>>]
  /\ detach = [c \in Clients |-> "none"]
  /\ notice = [c \in Clients |-> "nobody"]
  /\ reader = "reading" /\ waiter = "waiting"
  /\ closer = [k \in Closers |-> "idle"] /\ closeTodo = {}
  /\ todo = [p \in Publishers |-> {}]
  /\ stuck = [p \in Publishers |-> NoClient]
  /\ stream = [c \in Clients |-> <<>>]
  /\ sent = [c \in Clients |-> 0]
  /\ open = [c \in Clients |-> TRUE]
  /\ base = [c \in Clients |-> 0]
  /\ hist = 0 /\ readN = 0 /\ produced = 0 /\ inBuf = 0
  /\ alive = TRUE /\ hungUp = FALSE
  /\ takes = 0 /\ writes = 0

-----------------------------------------------------------------------------
(* attach                                                                  *)

\* outputMu.Lock()
AttachLock(c) ==
  /\ conn[c] = "idle" /\ outputMu = NoClient
  /\ outputMu' = c
  /\ conn' = [conn EXCEPT ![c] = "attaching"]
  /\ UNCHANGED <<roster, size, controlMu, op, grants, detaches, outside>>

\* controlMu.Lock(); a closed session is refused, and so is a client without an id.
AttachRefuse(c) ==
  /\ conn[c] = "attaching" /\ controlMu = NoClient
  /\ closed \/ AttachErrors
  /\ conn' = [conn EXCEPT ![c] = "refused"]
  /\ outputMu' = NoClient
  /\ UNCHANGED <<roster, size, controlMu, op, grants, detaches, outside>>

\* controlMu.Lock(); the client reserves the control if it is free.
AttachReserve(c) ==
  /\ conn[c] = "attaching" /\ controlMu = NoClient /\ ~closed
  /\ conn' = [conn EXCEPT ![c] = "replaying"]
  /\ controlMu' = c
  /\ controller' = IF controller = NoClient THEN c ELSE controller
  /\ UNCHANGED <<clients, order, attachment, closed, size, outputMu, op, grants, detaches, outside>>

Shown == IF hist > ReplayMax THEN ReplayMax ELSE hist

ReplayTailShifted == [i \in 1..Shown |-> Output(i + hist - Shown - 1)]  \* mutant: off by one
ReplayHead        == [i \in 1..Shown |-> Output(i)]                     \* mutant: no Seek

\* The tail of the history that replayMaxBytes admits (readReplayTail).
ReplayTail == [i \in 1..Shown |-> Output(i + hist - Shown)]

\* enqueueReplayChunks stops at the first chunk that does not fit while the
\* bytes of the closing frame stay reserved: how many chunks are queued.
FittingChunks(header, tail) ==
  Cardinality({n \in 1..Len(tail) :
                 \A i \in 1..n :
                   Fits(header \o SubSeq(tail, 1, i - 1), TextBytes + ChunkBytes)})

\* enqueueReplay: all frames of the replay, and whether every enqueue that must
\* succeed did.
Replay(c) ==
  LET header    == << Started(IF controller = c THEN "controller" ELSE "observer"),
                      ReplayStarted >>
      queued    == FittingChunks(header, ReplayTail)
      truncated == hist > ReplayMax \/ queued < Len(ReplayTail)
      body      == header \o SubSeq(ReplayTail, 1, queued)
  IN  [frames |-> Append(body, ReplayFinished(truncated)),
       fits   |-> /\ Fits(<<>>, TextBytes) /\ Fits(SubSeq(header, 1, 1), TextBytes)
                  /\ Fits(body, TextBytes)]

\* enqueueReplay succeeded.  The client stays private.
AttachReplay(c) ==
  /\ conn[c] = "replaying" /\ Replay(c).fits
  /\ conn' = [conn EXCEPT ![c] = "publishing"]
  /\ stream' = [stream EXCEPT ![c] = @ \o Replay(c).frames]
  /\ base' = [base EXCEPT ![c] = hist]
  /\ UNCHANGED <<session, op, grants, detaches, loops, fanout, sent, open, pty, bounds>>

\* attach fails: give the reservation back and close the private queue.
Withdraw(c) ==
  /\ conn' = [conn EXCEPT ![c] = "refused"]
  /\ controller' = IF controller = c THEN NoClient ELSE controller
  /\ open' = [open EXCEPT ![c] = FALSE]
  /\ outputMu' = NoClient /\ controlMu' = NoClient
  /\ UNCHANGED <<clients, order, closed, size, op, grants, detaches, loops, fanout, stream,
                 sent, base, pty, bounds>>

\* mutant: the summary forgets the other clients
AttachFailDetaches(c) ==
  /\ conn[c] = "replaying" /\ (AttachErrors \/ ~Replay(c).fits)
  /\ attachment' = "detached"
  /\ Withdraw(c)

AttachFail(c) ==
  /\ conn[c] = "replaying" /\ (AttachErrors \/ ~Replay(c).fits)
  /\ attachment' = IF clients = {} /\ ~closed THEN "detached" ELSE attachment
  /\ Withdraw(c)

\* closed is checked again in the critical section that publishes the client.
AttachPublish(c) ==
  /\ conn[c] = "publishing" /\ ~closed
  /\ clients' = clients \cup {c}
  /\ order' = Append(order, c)
  /\ attachment' = "attached"
  /\ conn' = [conn EXCEPT ![c] = "live"]
  /\ outputMu' = NoClient /\ controlMu' = NoClient
  /\ UNCHANGED <<controller, closed, size, op, grants, detaches, outside>>

AttachTooLate(c) ==
  /\ conn[c] = "publishing" /\ closed
  /\ UNCHANGED attachment
  /\ Withdraw(c)

-----------------------------------------------------------------------------
(* Client.Detach, once per client, by its connection or by a goroutine that *)
(* found its queue full                                                     *)

\* The connection ends; it calls Client.Detach and waits for it.
Disconnect(c) ==
  /\ conn[c] = "live"
  /\ conn' = [conn EXCEPT ![c] = "leaving"]
  /\ detach' = [detach EXCEPT ![c] = IF @ = "none" THEN "locking" ELSE @]
  /\ UNCHANGED <<session, op, grants, notice, outside>>

Gone(c) ==
  /\ conn[c] = "leaving" /\ OnceDone(c)
  /\ conn' = [conn EXCEPT ![c] = "gone"]
  /\ UNCHANGED <<session, op, grants, detaches, outside>>

\* The section of detachClient under controlMu and mu: unlink the client, hand
\* the control to the oldest remaining client.  A client that closeClients took out
\* of the map is not closed, and there is nobody left to tell.
DetachUnlink(c) ==
  /\ detach[c] = "locking" /\ controlMu = NoClient
  /\ LET empty == clients \ {c} = {} /\ ~closed
         next  == IF empty THEN NoClient
                  ELSE IF controller = c THEN Heir(c) ELSE controller
     IN  /\ clients' = clients \ {c}
         /\ order' = Without(c)
         /\ controller' = next
         /\ attachment' = IF empty THEN "detached" ELSE attachment
         /\ notice' = [notice EXCEPT ![c] =
                         IF controller = c /\ Heir(c) \in clients \ {c} THEN Heir(c)
                         ELSE IF next = NoClient THEN "everybody" ELSE "nobody"]
  /\ detach' = [detach EXCEPT ![c] = IF c \in clients THEN "closing" ELSE "done"]
  /\ UNCHANGED <<closed, size, locks, conn, op, grants, outside>>

DetachClose(c) ==
  /\ detach[c] = "closing"
  /\ open' = [open EXCEPT ![c] = FALSE]
  /\ detach' = [detach EXCEPT ![c] = IF notice[c] = "nobody" THEN "done" ELSE "closed"]
  /\ UNCHANGED <<session, conn, op, grants, notice, loops, fanout, stream, sent, base, pty,
                 bounds>>

\* The role frame of the promoted client.
DetachPromote(c) ==
  /\ detach[c] = "closed" /\ notice[c] \in Clients
  /\ Offer(notice[c], Role("controller"))
  /\ detach' = [detach EXCEPT ![c] = "done"]
  /\ UNCHANGED <<session, conn, op, grants, notice, loops, fanout, sent, open, base, pty,
                 bounds>>

\* Nobody controls: the snapshot of the clients that broadcastText sends the state to.
DetachTell(c) ==
  /\ detach[c] = "closed" /\ notice[c] = "everybody"
  /\ todo' = [todo EXCEPT ![c] = clients]
  /\ detach' = [detach EXCEPT ![c] = "telling"]
  /\ UNCHANGED <<session, conn, op, grants, notice, loops, stuck, queues, pty, bounds>>

DetachTold(c) ==
  /\ detach[c] = "telling" /\ todo[c] = {} /\ stuck[c] = NoClient
  /\ detach' = [detach EXCEPT ![c] = "done"]
  /\ UNCHANGED <<session, conn, op, grants, notice, outside>>

-----------------------------------------------------------------------------
(* publishBinary and broadcastText: the loop over a snapshot of the clients *)

FrameOf(p) == CASE p = "reader" -> Output(readN)
                [] p = "waiter" -> Exited
                [] OTHER        -> State

Publishing(p) ==
  CASE p = "reader" -> reader = "publishing"
    [] p = "waiter" -> waiter = "broadcasting"
    [] OTHER        -> p \in Clients /\ detach[p] = "telling"

\* mutant: the send waits for room instead of giving the client up
DeliverBlocking(p) ==
  /\ Publishing(p) /\ stuck[p] = NoClient
  /\ \E c \in todo[p] :
       /\ CanEnqueue(c, FrameOf(p))
       /\ todo' = [todo EXCEPT ![p] = @ \ {c}]
       /\ stream' = [stream EXCEPT ![c] = Append(@, FrameOf(p))]
  /\ UNCHANGED <<session, users, loops, stuck, sent, open, base, pty, bounds>>

\* One client of the snapshot; a full queue costs the client its place.
Deliver(p) ==
  /\ Publishing(p) /\ stuck[p] = NoClient
  /\ \E c \in todo[p] :
       /\ todo' = [todo EXCEPT ![p] = @ \ {c}]
       /\ IF CanEnqueue(c, FrameOf(p))
          THEN /\ stream' = [stream EXCEPT ![c] = Append(@, FrameOf(p))]
               /\ UNCHANGED <<detach, stuck>>
          ELSE /\ stuck' = [stuck EXCEPT ![p] = c]
               /\ detach' = [detach EXCEPT ![c] = IF @ = "none" THEN "locking" ELSE @]
               /\ UNCHANGED stream
  /\ UNCHANGED <<session, conn, op, grants, notice, loops, sent, open, base, pty, bounds>>

\* client.Detach returned to the loop.
Detached(p) ==
  /\ stuck[p] # NoClient /\ OnceDone(stuck[p])
  /\ stuck' = [stuck EXCEPT ![p] = NoClient]
  /\ UNCHANGED <<session, users, loops, todo, queues, pty, bounds>>

Published(p) == todo[p] = {} /\ stuck[p] = NoClient

-----------------------------------------------------------------------------
(* takeControl, WriteInput, Resize                                          *)

\* The reader of a connection runs one operation at a time; on the local path it may
\* still begin one while the other goroutine of the connection detaches.
MayOperate(c) == conn[c] \in {"live", "leaving"} /\ op[c] = "none"

\* The control moves under controlMu; the role frames follow after unlocking.
TakeControl(c) ==
  /\ MayOperate(c) /\ controlMu = NoClient /\ takes < MaxTakes
  /\ takes' = takes + 1
  /\ IF c \notin clients \/ closed
     THEN UNCHANGED <<controller, op, grants>>
     ELSE /\ controller' = c
          /\ op' = [op EXCEPT ![c] = "granting"]
          /\ grants' = [grants EXCEPT ![c] =
               IF controller \in clients \ {c} THEN <<c, controller>> ELSE <<c>>]
  /\ UNCHANGED <<clients, order, attachment, closed, size, locks, conn, detaches, loops, fanout,
                 queues, pty, writes>>

SendGrant(c) ==
  /\ op[c] = "granting"
  /\ Offer(Head(grants[c]), Role(IF Head(grants[c]) = c THEN "controller" ELSE "observer"))
  /\ grants' = [grants EXCEPT ![c] = Tail(@)]
  /\ op' = [op EXCEPT ![c] = IF Len(grants[c]) = 1 THEN "none" ELSE @]
  /\ UNCHANGED <<session, conn, detaches, loops, fanout, sent, open, base, pty, bounds>>

\* mutant: the role is not checked
WriteBeginUnchecked(c) ==
  /\ MayOperate(c) /\ controlMu = NoClient /\ writes < MaxWrites
  /\ controlMu' = c
  /\ op' = [op EXCEPT ![c] = "writing"]
  /\ writes' = writes + 1
  /\ UNCHANGED <<roster, size, outputMu, conn, grants, detaches, loops, fanout, queues, pty,
                 takes>>

\* writeInputFrom up to pty.Write: controlMu stays held during the write.  A
\* caller that is not the controller gets errNotController and changes nothing.
WriteBegin(c) ==
  /\ MayOperate(c) /\ controlMu = NoClient /\ controller = c /\ writes < MaxWrites
  /\ controlMu' = c
  /\ op' = [op EXCEPT ![c] = "writing"]
  /\ writes' = writes + 1
  /\ UNCHANGED <<roster, size, outputMu, conn, grants, detaches, loops, fanout, queues, pty,
                 takes>>

\* pty.Write returns once there is room, or with an error when the PTY is gone.
WriteEnd(c) ==
  /\ op[c] = "writing"
  /\ \/ alive /\ ~hungUp /\ inBuf < InCap /\ inBuf' = inBuf + 1
     \/ (~alive \/ hungUp) /\ UNCHANGED inBuf
  /\ controlMu' = NoClient
  /\ op' = [op EXCEPT ![c] = "none"]
  /\ UNCHANGED <<roster, size, outputMu, conn, grants, detaches, loops, fanout, queues, hist,
                 readN, produced, alive, hungUp, bounds>>

ResizeBegin(c) ==
  /\ MayOperate(c) /\ controlMu = NoClient /\ controller = c
  /\ controlMu' = c
  /\ op' = [op EXCEPT ![c] = "resizing"]
  /\ UNCHANGED <<roster, size, outputMu, conn, grants, detaches, outside>>

\* An equal size is not applied; pty.Resize may fail and then changes nothing.
ResizeEnd(c) ==
  /\ op[c] = "resizing"
  /\ size' \in Sizes
  /\ controlMu' = NoClient
  /\ op' = [op EXCEPT ![c] = "none"]
  /\ UNCHANGED <<roster, outputMu, conn, grants, detaches, outside>>

\* The connection takes a frame from the queue, writes it and calls MarkSent.
Drain(c) ==
  /\ conn[c] = "live"
  /\ sent[c] < Len(stream[c]) /\ sent[c] < MaxDrains
  /\ sent' = [sent EXCEPT ![c] = @ + 1]
  /\ UNCHANGED <<session, users, loops, fanout, stream, open, base, pty, bounds>>

-----------------------------------------------------------------------------
(* readLoop                                                                 *)

ReadChunk ==
  /\ reader = "reading" /\ readN < produced
  /\ readN' = readN + 1
  /\ reader' = "read"
  /\ UNCHANGED <<session, users, waiter, closing, fanout, queues, hist, produced, inBuf,
                 alive, hungUp, bounds>>

\* mutant: outputMu is not waited for
WriteHistoryUnlocked ==
  /\ reader = "read"
  /\ outputMu' = "reader"
  /\ hist' = hist + 1
  /\ todo' = [todo EXCEPT !["reader"] = clients]
  /\ reader' = "publishing"
  /\ UNCHANGED <<roster, size, controlMu, users, waiter, closing, stuck, queues, readN,
                 produced, inBuf, alive, hungUp, bounds>>

\* outputMu.Lock(); history.Write; the snapshot of publishBinary.
WriteHistory ==
  /\ reader = "read" /\ outputMu = NoClient
  /\ outputMu' = "reader"
  /\ hist' = hist + 1
  /\ todo' = [todo EXCEPT !["reader"] = clients]
  /\ reader' = "publishing"
  /\ UNCHANGED <<roster, size, controlMu, users, waiter, closing, stuck, queues, readN,
                 produced, inBuf, alive, hungUp, bounds>>

ReadNext ==
  /\ reader = "publishing" /\ Published("reader")
  /\ outputMu' = NoClient
  /\ reader' = "reading"
  /\ UNCHANGED <<roster, size, controlMu, users, waiter, closing, fanout, queues, pty,
                 bounds>>

\* Read fails once the child is gone or the PTY is closed, with or without the
\* output the PTY still holds.
ReadEOF ==
  /\ reader = "reading" /\ (~alive \/ hungUp)
  /\ reader' = "eof"
  /\ UNCHANGED <<session, users, waiter, closing, fanout, queues, pty, bounds>>

-----------------------------------------------------------------------------
(* waitLoop                                                                 *)

\* pty.Wait returned: the section under mu.
WaitReturns ==
  /\ waiter = "waiting" /\ ~alive
  /\ closed' = TRUE
  /\ attachment' = "detached"
  /\ waiter' = "exited"
  /\ UNCHANGED <<clients, order, controller, size, locks, users, reader, closing, fanout,
                 queues, pty, bounds>>

\* outputMu for history.Close.
CloseHistory ==
  /\ waiter = "exited" /\ outputMu = NoClient
  /\ waiter' = "saving"
  /\ UNCHANGED <<session, users, reader, closing, fanout, queues, pty, bounds>>

\* mutant: the exit is broadcast without outputMu
BroadcastExitUnlocked ==
  /\ waiter = "saving"
  /\ todo' = [todo EXCEPT !["waiter"] = clients]
  /\ waiter' = "broadcasting"
  /\ UNCHANGED <<session, users, reader, closing, stuck, queues, pty, bounds>>

\* The exit record is saved; outputMu again, and the snapshot of broadcastText.
BroadcastExit ==
  /\ waiter = "saving" /\ outputMu = NoClient
  /\ outputMu' = "waiter"
  /\ todo' = [todo EXCEPT !["waiter"] = clients]
  /\ waiter' = "broadcasting"
  /\ UNCHANGED <<roster, size, controlMu, users, reader, closing, stuck, queues, pty,
                 bounds>>

\* closeClients takes the map; clientOrder and controllerClientId keep their values.
ReapClients ==
  /\ waiter = "broadcasting" /\ Published("waiter")
  /\ todo' = [todo EXCEPT !["waiter"] = clients]
  /\ clients' = {}
  /\ waiter' = "reaping"
  /\ UNCHANGED <<order, controller, attachment, closed, size, locks, users, reader, closing,
                 stuck, queues, pty, bounds>>

\* client.once.Do(closeQueue): nothing if once ran, waits while it runs.
ReapOne ==
  /\ waiter = "reaping" /\ stuck["waiter"] = NoClient
  /\ \E c \in todo["waiter"] :
       /\ todo' = [todo EXCEPT !["waiter"] = @ \ {c}]
       /\ IF detach[c] = "none"
          THEN /\ detach' = [detach EXCEPT ![c] = "reaped"]
               /\ open' = [open EXCEPT ![c] = FALSE]
               /\ UNCHANGED stuck
          ELSE /\ stuck' = [stuck EXCEPT !["waiter"] = c]
               /\ UNCHANGED <<detach, open>>
  /\ UNCHANGED <<session, conn, op, grants, notice, loops, stream, sent, base, pty, bounds>>

\* Unlock outputMu, removeRuntime, close(done).
Finish ==
  /\ waiter = "reaping" /\ Published("waiter")
  /\ outputMu' = NoClient
  /\ waiter' = "done"
  /\ UNCHANGED <<roster, size, controlMu, users, reader, closing, fanout, queues, pty,
                 bounds>>

-----------------------------------------------------------------------------
(* closeSession                                                             *)

CloseCall(k) ==
  /\ closer[k] = "idle"
  /\ IF closed
     THEN /\ closer' = [closer EXCEPT ![k] = "waiting"]
          /\ UNCHANGED <<closed, closeTodo>>
     ELSE /\ closed' = TRUE
          /\ closeTodo' = clients
          /\ closer' = [closer EXCEPT ![k] = "notifying"]
  /\ UNCHANGED <<clients, order, controller, attachment, size, locks, users, reader, waiter,
                 fanout, queues, pty, bounds>>

CloseNotify(k) ==
  /\ closer[k] = "notifying"
  /\ \E c \in closeTodo : closeTodo' = closeTodo \ {c} /\ Offer(c, State)
  /\ UNCHANGED <<session, users, reader, waiter, closer, fanout, sent, open, base, pty,
                 bounds>>

\* mutant: the PTY stays open
ClosePtyNot(k) ==
  /\ closer[k] = "notifying" /\ closeTodo = {}
  /\ closer' = [closer EXCEPT ![k] = "waiting"]
  /\ UNCHANGED <<session, users, reader, waiter, closeTodo, fanout, queues, pty, bounds>>

\* pty.Close
ClosePty(k) ==
  /\ closer[k] = "notifying" /\ closeTodo = {}
  /\ closer' = [closer EXCEPT ![k] = "waiting"]
  /\ hungUp' = TRUE
  /\ UNCHANGED <<session, users, reader, waiter, closeTodo, fanout, queues, hist, readN,
                 produced, inBuf, alive, bounds>>

\* closeSession returns the error; closed stays set.
ClosePtyFails(k) ==
  /\ CloseErrors
  /\ closer[k] = "notifying" /\ closeTodo = {}
  /\ closer' = [closer EXCEPT ![k] = "failed"]
  /\ UNCHANGED <<session, users, reader, waiter, closeTodo, fanout, queues, pty, bounds>>

\* <-done
CloseReturn(k) ==
  /\ closer[k] = "waiting" /\ waiter = "done"
  /\ closer' = [closer EXCEPT ![k] = "returned"]
  /\ UNCHANGED <<session, users, reader, waiter, closeTodo, fanout, queues, pty, bounds>>

-----------------------------------------------------------------------------
(* The child behind the PTY                                                 *)

Room == produced < MaxChunks /\ produced - readN < OutCap

ChildOutput ==
  /\ alive /\ Room
  /\ produced' = produced + 1
  /\ UNCHANGED <<session, users, loops, fanout, queues, hist, readN, inBuf, alive, hungUp,
                 bounds>>

\* With EchoChild the child blocks in its own write before it reads more input.
ChildInput ==
  /\ alive /\ inBuf > 0 /\ (EchoChild => produced - readN < OutCap)
  /\ inBuf' = inBuf - 1
  /\ produced' = IF EchoChild /\ Room THEN produced + 1 ELSE produced
  /\ UNCHANGED <<session, users, loops, fanout, queues, hist, readN, alive, hungUp, bounds>>

ChildExit ==
  /\ alive /\ ChildExits
  /\ alive' = FALSE
  /\ UNCHANGED <<session, users, loops, fanout, queues, hist, readN, produced, inBuf,
                 hungUp, bounds>>

-----------------------------------------------------------------------------
Attach(c) == \/ AttachLock(c) \/ AttachRefuse(c) \/ AttachReserve(c) \/ AttachReplay(c)
             \/ AttachFail(c) \/ AttachPublish(c) \/ AttachTooLate(c)
Detach(c) == \/ DetachUnlink(c) \/ DetachClose(c)
             \/ DetachPromote(c) \/ DetachTell(c) \/ DetachTold(c)
Connection(c) == \/ Attach(c) \/ Disconnect(c) \/ Gone(c) \/ Drain(c)
                 \/ TakeControl(c) \/ SendGrant(c)
                 \/ WriteBegin(c) \/ WriteEnd(c) \/ ResizeBegin(c) \/ ResizeEnd(c)
Fanout(p) == Deliver(p) \/ Detached(p)
ReadLoop  == ReadChunk \/ WriteHistory \/ ReadNext \/ ReadEOF
WaitLoop  == WaitReturns \/ CloseHistory \/ BroadcastExit \/ ReapClients \/ ReapOne \/ Finish
Close(k)  == CloseCall(k) \/ CloseNotify(k) \/ ClosePty(k) \/ ClosePtyFails(k) \/ CloseReturn(k)
Child     == ChildOutput \/ ChildInput \/ ChildExit

Next ==
  \/ \E c \in Clients : Connection(c) \/ Detach(c)
  \/ \E p \in Publishers : Fanout(p)
  \/ ReadLoop \/ WaitLoop \/ Child
  \/ \E k \in Closers : Close(k)

Spec == Init /\ [][Next]_vars
-----------------------------------------------------------------------------
(* Types                                                                    *)

Conns   == {"idle", "attaching", "replaying", "publishing", "refused", "live", "leaving",
            "gone"}
Ops     == {"none", "granting", "writing", "resizing"}

SessionTypes ==
  /\ clients \subseteq Clients
  /\ order \in Seq(Clients)
  /\ controller \in Clients \cup {NoClient}
  /\ attachment \in {"unattached", "attached", "detached"}
  /\ closed \in BOOLEAN
  /\ size \in Sizes
  /\ outputMu \in Clients \cup {NoClient, "reader", "waiter"}
  /\ controlMu \in Clients \cup {NoClient}

UserTypes ==
  /\ conn \in [Clients -> Conns]
  /\ op \in [Clients -> Ops]
  /\ grants \in [Clients -> Seq(Clients)]
  /\ detach \in [Clients -> {"none", "locking", "closing", "closed", "telling", "done",
                         "reaped"}]
  /\ notice \in [Clients -> Clients \cup {"nobody", "everybody"}]

LoopTypes ==
  /\ reader \in {"reading", "read", "publishing", "eof"}
  /\ waiter \in {"waiting", "exited", "saving", "broadcasting", "reaping", "done"}
  /\ closer \in [Closers -> {"idle", "notifying", "waiting", "returned", "failed"}]
  /\ closeTodo \subseteq Clients
  /\ todo \in [Publishers -> SUBSET Clients]
  /\ stuck \in [Publishers -> Clients \cup {NoClient}]

QueueTypes ==
  /\ stream \in [Clients -> Seq(Frames)]
  /\ sent \in [Clients -> Nat]
  /\ open \in [Clients -> BOOLEAN]
  /\ base \in [Clients -> Nat]

PtyTypes ==
  /\ {hist, readN, produced, inBuf, takes, writes} \subseteq Nat
  /\ alive \in BOOLEAN /\ hungUp \in BOOLEAN

TypeOK == SessionTypes /\ UserTypes /\ LoopTypes /\ QueueTypes /\ PtyTypes
=============================================================================
