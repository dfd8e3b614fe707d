-------------------------- MODULE MCSessionProgress --------------------------
(* The progress of a session in two scenes that differ in what users do: two *)
(* clients on one fan-out, or one client that writes while the session is    *)
(* closed twice.  The scene keeps back what would be begun; it withholds no  *)
(* step that the code owes.  Of the fairness less is assumed than the code   *)
(* has: only that it does not stop, nor resize for ever, while it owes a     *)
(* step.                                                                     *)
EXTENDS MCSessionRuntime

VARIABLE scene

KeptBack ==
  \/ scene = "clients" /\ (writes' # writes \/ closer' # closer)
  \/ scene = "closers" /\ \E c \in Clients \ OneClient : conn'[c] # conn[c]

\* the actions of Fairness but for ResizeEnd, which alone can recur
Owed ==
  \/ ReadLoop \/ Fanout("reader") \/ WaitLoop \/ Fanout("waiter")
  \/ \E c \in Clients :
       \/ AttachRefuse(c) \/ AttachReserve(c) \/ AttachReplay(c) \/ AttachFail(c)
       \/ AttachPublish(c) \/ AttachTooLate(c) \/ SendGrant(c) \/ WriteEnd(c)
       \/ Gone(c) \/ DetachUnlink(c) \/ DetachClose(c) \/ DetachPromote(c)
       \/ DetachTell(c) \/ DetachTold(c) \/ Fanout(c)
  \/ \E k \in Closers : CloseNotify(k) \/ ClosePty(k) \/ ClosePtyFails(k) \/ CloseReturn(k)
  \/ ChildInput \/ (hungUp /\ ChildExit)

SceneSpec ==
  /\ Init /\ scene \in {"clients", "closers"}
  /\ [][Next /\ ~KeptBack /\ UNCHANGED scene]_<<vars, scene>>
  /\ SF_vars(Owed) /\ WF_vars(\E c \in Clients : ResizeEnd(c))
==============================================================================
