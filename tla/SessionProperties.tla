--------------------------- MODULE SessionProperties ---------------------------
(***************************************************************************)
(* What must hold of a live terminal session (SessionRuntime): who         *)
(* controls it, what its clients are sent, and that its goroutines get on. *)
(***************************************************************************)
EXTENDS SessionRuntime

-----------------------------------------------------------------------------
(* Control                                                                  *)

\* As long as a client is live, exactly one live client controls the session;
\* with none live, the control is free or reserved by an attach that is queueing
\* its replay (spec 20260720 D2 and D4; attach, detachClient, takeControl).
OneController ==
  /\ clients # {} => controller \in clients
  /\ clients = {} /\ ~closed =>
       controller = NoClient \/ conn[controller] \in {"replaying", "publishing"}

\* While a write or a resize of a client is inside the PTY, the client is still
\* the controller: nobody moves the control under an operation that passed the
\* check (writeInputFrom and resizeFrom against takeControl, detachClient, attach).
GateHeld ==
  \A c \in Clients : op[c] \in {"writing", "resizing"} =>
                       controlMu = c /\ controller = c

\* clientOrder lists the live clients, each once, until waitLoop takes the map.
OrderIsRoster ==
  /\ waiter \notin {"reaping", "done"} => {order[i] : i \in DOMAIN order} = clients
  /\ \A i, j \in DOMAIN order : order[i] = order[j] => i = j

\* The session is summarised as attached exactly while somebody is (until it is
\* closed: then the last detach leaves the summary to waitLoop).
AttachmentSummary == ~closed => (attachment = "attached" <=> clients # {})

\* When the controller leaves and others stay, the oldest of them takes over; no
\* other step than its leaving or a takeControl moves the control away from a live
\* client: an attach never does.
ControlStep ==
  controller \in clients /\ controller' # controller =>
    IF controller \in clients'
    THEN clients' = clients /\ takes' # takes /\ controller' \in clients
    ELSE clients' # {} => controller' = Head(Without(controller))

ControlMoves == [][ControlStep]_vars

-----------------------------------------------------------------------------
(* Output                                                                   *)

Finishes(c)   == {i \in DOMAIN stream[c] : stream[c][i].type = "replay_finished"}
Outputs(c)    == {i \in DOMAIN stream[c] : stream[c][i].type = "output"}
ReplayEnd(c)  == CHOOSE i \in Finishes(c) : TRUE
Replayed(c)   == {i \in Outputs(c) : i < ReplayEnd(c)}
Live(c)       == {i \in Outputs(c) : i > ReplayEnd(c)}
Truncated(c)  == stream[c][ReplayEnd(c)].truncated

\* The frames of c at these places carry the chunks after from up to to, each of them
\* once and in order.
Carry(c, places, from, to) ==
  /\ \A i, j \in places : i < j => stream[c][i].chunk < stream[c][j].chunk
  /\ {stream[c][i].chunk : i \in places} = from + 1 .. to

\* What a client is sent is one uninterrupted stream: a replay is a piece of the history
\* at the time of the attach, and all of it unless it says truncated; the live output goes
\* on with the very next chunk, without a gap, a repetition or a reordering; and a client
\* that is still live has every chunk of the history (requirement 20260819 acceptance 4).
NoGap ==
  \A c \in Clients : Finishes(c) # {} =>
    /\ \E from, to \in 0 .. base[c] : Carry(c, Replayed(c), from, to)
    /\ ~Truncated(c) => Carry(c, Replayed(c), 0, base[c])
    /\ \E to \in base[c] .. hist : Carry(c, Live(c), base[c], to)
    /\ c \in clients /\ outputMu # "reader" => Carry(c, Live(c), base[c], hist)

\* The queue takes the longest replay and its three text frames: registry.go sets 64 frames
\* and 4 MiB against a replay of 64 KiB, sent as one frame.
RoomForReplay ==
  /\ ReplayMax + 3 <= QueueSize
  /\ ReplayMax * ChunkBytes + 3 * TextBytes <= QueueBytes

\* The replay comes first and meets the live output: started, replay_started, replay and
\* replay_finished are queued once and ahead of any role, state or live frame, and every
\* chunk of the history is in the replay or comes live, the replay ending with the last
\* chunk written before it (requirement 20260819 acceptance 4; enqueueReplayChunks).  In a
\* queue without room the replay keeps the oldest part of the tail.
ReplayMeetsLive ==
  \A c \in clients :
    /\ Cardinality(Finishes(c)) = 1
    /\ \A i \in 1 .. ReplayEnd(c) - 1 :
         stream[c][i].type = (CASE i = 1 -> "started" [] i = 2 -> "replay_started"
                                [] OTHER -> "output")
    /\ RoomForReplay /\ base[c] > 0 => stream[c][ReplayEnd(c) - 1] = Output(base[c])

\* No client is forgotten: when the runtime is done, every connection that still waits
\* for frames has its queue closed, or about to be by the Detach that has unlinked it, so
\* that it ends (spec 20260619, close broadcasts the exit and closes the clients).
ExitReachesEveryClient ==
  waiter = "done" => \A c \in Clients : conn[c] = "live" => ~open[c] \/ detach[c] = "closing"

\* The part of it that holds: a client no goroutine had begun to detach was told of the
\* exit before its queue was closed, and none such is left out; and no terminal output
\* follows the exit, whatever readLoop still finds in the PTY (waitLoop broadcasts the
\* exit and takes the clients away in one section of outputMu; closeClients).
ExitReachesKeptClients ==
  /\ waiter = "done" =>
       \A c \in Clients :
         /\ conn[c] = "live" => detach[c] # "none"
         /\ detach[c] = "reaped" =>
              ~open[c] /\ \E i \in DOMAIN stream[c] : stream[c][i] = Exited
  /\ \A c \in Clients : \A i, j \in DOMAIN stream[c] :
       stream[c][i] = Exited /\ i < j => stream[c][j].type # "output"

-----------------------------------------------------------------------------
(* Progress                                                                 *)

\* What the code owes: a goroutine that can step does.  The waits for a mutex are
\* strongly fair, because sync.Mutex hands over to a waiter after 1 ms.  Users, drains
\* and the child's output owe nothing; a child reads its input when it can, and ends
\* when its terminal hangs up.
Fairness ==
  /\ WF_vars(ReadLoop \/ Fanout("reader")) /\ SF_vars(WriteHistory)
  /\ WF_vars(WaitLoop \/ Fanout("waiter")) /\ SF_vars(CloseHistory \/ BroadcastExit)
  /\ \A c \in Clients :
       /\ SF_vars(AttachRefuse(c) \/ AttachReserve(c)) /\ SF_vars(DetachUnlink(c))
       /\ WF_vars(AttachReplay(c) \/ AttachFail(c) \/ AttachPublish(c) \/ AttachTooLate(c))
       /\ WF_vars(SendGrant(c) \/ WriteEnd(c) \/ ResizeEnd(c)) /\ WF_vars(Gone(c))
       /\ WF_vars(DetachClose(c) \/ DetachPromote(c) \/ DetachTell(c) \/ DetachTold(c) \/ Fanout(c))
  /\ \A k \in Closers :
       WF_vars(CloseNotify(k) \/ ClosePty(k) \/ ClosePtyFails(k) \/ CloseReturn(k))
  /\ WF_vars(ChildInput) /\ WF_vars(hungUp /\ ChildExit)

FairSpec == Spec /\ Fairness

\* A slow client, whose queue is full, does not hold up the read loop: after every
\* chunk it goes back to the PTY (requirement 20260708 acceptance 5).
ReaderReturns == reader \in {"read", "publishing"} ~> reader \in {"reading", "eof"}

\* Once the process is gone its exit is reported and the runtime removed, however
\* slow the clients are and whatever the connections do (waitLoop).
ExitCompletes == ~alive ~> waiter = "done"

\* Client.Detach returns to the connection that calls it.
DetachReturns == \A c \in Clients : conn[c] = "leaving" ~> conn[c] = "gone"

\* A caller of closeSession gets its answer (spec 20260623, close waits for the exit).
CloseReturns ==
  \A k \in Closers : closer[k] \in {"notifying", "waiting"} ~> closer[k] \in {"returned", "failed"}
=============================================================================
