------------------------- MODULE SessionControlProofs -------------------------
(***************************************************************************)
(* Who controls a terminal session, for every number of clients: one live  *)
(* client while there is any (OneController), never another than the one   *)
(* whose input is inside the PTY (GateHeld), an order that lists the live  *)
(* clients (OrderIsRoster), and a control that moves only by a takeControl *)
(* or to the oldest heir (ControlMoves).                                   *)
(*                                                                         *)
(* None of them is inductive.  What they lean on is what the two mutexes   *)
(* protect: an attach keeps both from its reservation to its publication,  *)
(* so that the controller it reserved cannot be given away in between      *)
(* (LocksHeld, Reservation), and waitLoop empties the map only once closed *)
(* keeps every attach out (Ending).                                        *)
(*                                                                         *)
(* From the same invariant follow the summary of the session               *)
(* (AttachmentSummary) and, at the end, that the runtime implements        *)
(* TerminalControl: the steps that write the roster map to the steps of    *)
(* the abstract session (a publication is an arrival, the section of       *)
(* detachClient a leaving, the map taken by waitLoop the end), all others  *)
(* to stuttering.                                                          *)
(***************************************************************************)
EXTENDS SessionRuntimeProofs, SessionRefinement

\* The connections attach has published.
Admitted == {"live", "leaving", "gone"}

\* Who is inside a section of outputMu or controlMu holds it.
LocksHeld ==
  /\ \A c \in Clients :
       /\ conn[c] = "attaching" => outputMu = c
       /\ conn[c] \in {"replaying", "publishing"} => outputMu = c /\ controlMu = c
       /\ op[c] \in {"writing", "resizing"} => controlMu = c
       /\ op[c] # "none" => conn[c] \in Admitted
  /\ reader = "publishing" => outputMu = "reader"
  /\ waiter \in {"broadcasting", "reaping"} => outputMu = "waiter"

\* waitLoop closes the session before anything else, and takes the map for good.
Ending ==
  /\ waiter # "waiting" => closed
  /\ waiter \in {"reaping", "done"} => clients = {}

\* Only a published client is in the map.
Admission == \A c \in clients : conn[c] \in Admitted

\* While an attach is between reservation and publication somebody has the control.
Reservation ==
  \A c \in Clients : conn[c] \in {"replaying", "publishing"} /\ ~closed => controller # NoClient

\* The inductive invariant.
ControlInv ==
  /\ LocksHeld /\ Ending /\ Admission /\ Reservation
  /\ OneController /\ GateHeld /\ OrderIsRoster

-----------------------------------------------------------------------------
\* removeClientOrder takes c out of the list, keeps everybody else, and still lists
\* nobody twice.
LEMMA WithoutRange ==
  ASSUME order \in Seq(Clients), NEW c \in Clients,
         \A i, j \in DOMAIN order : order[i] = order[j] => i = j
  PROVE  /\ {Without(c)[i] : i \in DOMAIN Without(c)} = {order[i] : i \in DOMAIN order} \ {c}
         /\ \A i, j \in DOMAIN Without(c) : Without(c)[i] = Without(c)[j] => i = j
<1>1. CASE ~ \E i \in DOMAIN order : order[i] = c
  <2>1. Without(c) = order
    BY <1>1 DEF Without
  <2> QED
    BY <1>1, <2>1
<1>2. CASE \E i \in DOMAIN order : order[i] = c
  <2> DEFINE i == CHOOSE i \in DOMAIN order : order[i] = c
             n == Len(order)
             cut == [j \in 1 .. n - 1 |-> IF j < i THEN order[j] ELSE order[j + 1]]
  <2>1. i \in DOMAIN order /\ order[i] = c
    BY <1>2
  <2>2. DOMAIN order = 1..n /\ n \in Nat /\ i \in 1..n
    BY <2>1
  <2>3. Without(c) = cut
    BY <1>2 DEF Without
  <2>4. DOMAIN cut = 1 .. n - 1
    OBVIOUS
  <2> HIDE DEF i
  <2>5. ASSUME NEW j \in 1 .. n - 1 PROVE cut[j] \in {order[k] : k \in DOMAIN order} \ {c}
    <3> DEFINE k == IF j < i THEN j ELSE j + 1
    <3>1. k \in 1..n /\ k # i
      BY <2>2
    <3>2. cut[j] = order[k]
      OBVIOUS
    <3> HIDE DEF k, cut
    <3> QED
      BY <2>1, <2>2, <3>1, <3>2
  <2>6. ASSUME NEW k \in 1..n, order[k] # c PROVE \E j \in 1 .. n - 1 : cut[j] = order[k]
    <3>1. k # i
      BY <2>1, <2>6
    <3>2. CASE k < i
      <4>1. k \in 1 .. n - 1
        BY <2>2, <3>2
      <4>2. cut[k] = order[k]
        BY <3>2, <4>1
      <4> QED
        BY <4>1, <4>2
    <3>3. CASE k > i
      <4>1. k - 1 \in 1 .. n - 1 /\ ~(k - 1 < i) /\ k - 1 + 1 = k
        BY <2>2, <3>3
      <4>2. cut[k - 1] = order[k]
        BY <4>1
      <4> QED
        BY <4>1, <4>2
    <3> QED
      BY <2>2, <3>1, <3>2, <3>3
  <2>7. {cut[j] : j \in DOMAIN cut} = {order[k] : k \in DOMAIN order} \ {c}
    <3> HIDE DEF cut
    <3>1. \A j \in DOMAIN cut : cut[j] \in {order[k] : k \in DOMAIN order} \ {c}
      BY <2>4, <2>5
    <3>2. \A k \in DOMAIN order : order[k] # c => \E j \in DOMAIN cut : cut[j] = order[k]
      BY <2>2, <2>4, <2>6
    <3> QED
      BY <3>1, <3>2
  <2>8. ASSUME NEW j \in 1 .. n - 1, NEW k \in 1 .. n - 1, cut[j] = cut[k] PROVE j = k
    <3> DEFINE at(m) == IF m < i THEN m ELSE m + 1
    <3>1. at(j) \in DOMAIN order /\ at(k) \in DOMAIN order
      BY <2>2
    <3>2. order[at(j)] = order[at(k)]
      BY <2>8
    <3>3. at(j) = at(k)
      <4> HIDE DEF at
      <4> QED
        BY <3>1, <3>2
    <3> QED
      BY <2>2, <3>3
  <2> HIDE DEF cut, n
  <2>9. \A j, k \in DOMAIN cut : cut[j] = cut[k] => j = k
    BY <2>4, <2>8
  <2>10. {Without(c)[j] : j \in DOMAIN Without(c)} = {order[k] : k \in DOMAIN order} \ {c}
    BY <2>3, <2>7
  <2>11. \A j, k \in DOMAIN Without(c) : Without(c)[j] = Without(c)[k] => j = k
    BY <2>3, <2>9
  <2> QED
    BY <2>10, <2>11
<1> QED
  BY <1>1, <1>2

-----------------------------------------------------------------------------
\* LocksHeld reads nothing else.
LEMMA KeepLocks == LocksHeld /\ UNCHANGED <<outputMu, controlMu, conn, op, reader, waiter>> => LocksHeld'
  BY DEF LocksHeld, Admitted
\* Ending reads nothing else.
LEMMA KeepEnding == Ending /\ UNCHANGED <<clients, closed, waiter>> => Ending'
  BY DEF Ending
\* Admission reads nothing else.
LEMMA KeepAdmission == Admission /\ UNCHANGED <<clients, conn>> => Admission'
  BY DEF Admission, Admitted
\* Reservation reads nothing else.
LEMMA KeepReservation == Reservation /\ UNCHANGED <<controller, closed, conn>> => Reservation'
  BY DEF Reservation
\* OneController reads nothing else.
LEMMA KeepController == OneController /\ UNCHANGED <<clients, controller, closed, conn>> => OneController'
  BY DEF OneController
\* GateHeld reads nothing else.
LEMMA KeepGate == GateHeld /\ UNCHANGED <<controller, controlMu, op>> => GateHeld'
  BY DEF GateHeld
\* OrderIsRoster reads nothing else.
LEMMA KeepRoster == OrderIsRoster /\ UNCHANGED <<clients, order, waiter>> => OrderIsRoster'
  BY DEF OrderIsRoster

\* A mutex that is free, or held by a goroutine of the runtime, is held by no connection.
LEMMA Names ==
  NoClient \notin Clients /\ {"reader", "waiter"} \cap (Clients \cup {NoClient}) = {}
  BY SessionAssumption

\* Every step of attach keeps ControlInv.
LEMMA AttachKeepsControl ==
  ASSUME TypesInv, ControlInv, NEW c \in Clients, Attach(c)
  PROVE  ControlInv'
<1>0. /\ LocksHeld /\ Ending /\ Admission /\ Reservation /\ OneController /\ GateHeld
      /\ OrderIsRoster /\ SessionTypes /\ UserTypes
  BY DEF ControlInv, TypesInv, TypeOK
<1>1. CASE AttachLock(c)
  <2>1. LocksHeld'
    BY <1>0, <1>1, Names DEF AttachLock, LocksHeld, Admitted, UserTypes, SessionTypes,
       roster, outside, loops
  <2>2. Admission'
    BY <1>0, <1>1 DEF AttachLock, Admission, Admitted, UserTypes, SessionTypes, roster,
       outside, loops
  <2>3. Reservation'
    BY <1>0, <1>1, Names DEF AttachLock, Reservation, LocksHeld, UserTypes, SessionTypes,
       roster, outside, loops
  <2>4. OneController'
    BY <1>0, <1>1, Names DEF AttachLock, OneController, LocksHeld, Admission, Admitted,
       Reservation, Ending, UserTypes, SessionTypes, roster, outside, loops
  <2> QED
    BY <1>0, <1>1, <2>1, <2>2, <2>3, <2>4, KeepEnding, KeepGate, KeepRoster DEF AttachLock,
       ControlInv, roster, outside, loops
<1>2. CASE AttachReserve(c)
  <2>1. LocksHeld'
    BY <1>0, <1>2, Names DEF AttachReserve, LocksHeld, Admitted, UserTypes, SessionTypes,
       outside, loops
  <2>2. Admission'
    BY <1>0, <1>2 DEF AttachReserve, Admission, Admitted, UserTypes, SessionTypes, outside,
       loops
  <2>3. Reservation'
    BY <1>0, <1>2, Names DEF AttachReserve, Reservation, LocksHeld, UserTypes, SessionTypes,
       outside, loops
  <2>4. OneController'
    BY <1>0, <1>2, Names DEF AttachReserve, OneController, LocksHeld, Admission, Admitted,
       Reservation, Ending, UserTypes, SessionTypes, outside, loops
  <2>5. GateHeld'
    BY <1>0, <1>2, Names DEF AttachReserve, GateHeld, LocksHeld, Admitted, UserTypes,
       SessionTypes, outside, loops
  <2> QED
    BY <1>0, <1>2, <2>1, <2>2, <2>3, <2>4, <2>5, KeepEnding, KeepRoster DEF AttachReserve,
       ControlInv, outside, loops
<1>3. CASE AttachReplay(c)
  <2>1. LocksHeld'
    BY <1>0, <1>3, Names DEF AttachReplay, LocksHeld, Admitted, UserTypes, SessionTypes,
       session, roster, locks, loops
  <2>2. Admission'
    BY <1>0, <1>3 DEF AttachReplay, Admission, Admitted, UserTypes, SessionTypes, session,
       roster, locks, loops
  <2>3. Reservation'
    BY <1>0, <1>3, Names DEF AttachReplay, Reservation, LocksHeld, UserTypes, SessionTypes,
       session, roster, locks, loops
  <2>4. OneController'
    BY <1>0, <1>3, Names DEF AttachReplay, OneController, LocksHeld, Admission, Admitted,
       Reservation, Ending, UserTypes, SessionTypes, session, roster, locks, loops
  <2> QED
    BY <1>0, <1>3, <2>1, <2>2, <2>3, <2>4, KeepEnding, KeepGate, KeepRoster DEF
       AttachReplay, ControlInv, session, roster, locks, loops
<1>4. CASE AttachFail(c)
  <2>1. LocksHeld'
    BY <1>0, <1>4, Names DEF AttachFail, Withdraw, LocksHeld, Admitted, UserTypes,
       SessionTypes, loops
  <2>2. Admission'
    BY <1>0, <1>4 DEF AttachFail, Withdraw, Admission, Admitted, UserTypes, SessionTypes,
       loops
  <2>3. Reservation'
    BY <1>0, <1>4, Names DEF AttachFail, Withdraw, Reservation, LocksHeld, UserTypes,
       SessionTypes, loops
  <2>4. OneController'
    BY <1>0, <1>4, Names DEF AttachFail, Withdraw, OneController, LocksHeld, Admission,
       Admitted, Reservation, Ending, UserTypes, SessionTypes, loops
  <2>5. GateHeld'
    BY <1>0, <1>4, Names DEF AttachFail, Withdraw, GateHeld, LocksHeld, Admitted, UserTypes,
       SessionTypes, loops
  <2> QED
    BY <1>0, <1>4, <2>1, <2>2, <2>3, <2>4, <2>5, KeepEnding, KeepRoster DEF AttachFail,
       Withdraw, ControlInv, loops
<1>5. CASE AttachPublish(c)
  <2>1. LocksHeld'
    BY <1>0, <1>5, Names DEF AttachPublish, LocksHeld, Admitted, UserTypes, SessionTypes,
       outside, loops
  <2>2. Ending'
    BY <1>0, <1>5 DEF AttachPublish, Ending, UserTypes, SessionTypes, outside, loops
  <2>3. Admission'
    BY <1>0, <1>5 DEF AttachPublish, Admission, Admitted, UserTypes, SessionTypes, outside,
       loops
  <2>4. Reservation'
    BY <1>0, <1>5, Names DEF AttachPublish, Reservation, LocksHeld, UserTypes, SessionTypes,
       outside, loops
  <2>5. OneController'
    BY <1>0, <1>5, Names DEF AttachPublish, OneController, LocksHeld, Admission, Admitted,
       Reservation, Ending, UserTypes, SessionTypes, outside, loops
  <2>6. GateHeld'
    BY <1>0, <1>5, Names DEF AttachPublish, GateHeld, LocksHeld, Admitted, UserTypes,
       SessionTypes, outside, loops
  <2>7. OrderIsRoster'
    <3>1. order \in Seq(Clients) /\ order' = Append(order, c) /\ clients' = clients \cup {c}
      BY <1>0, <1>5 DEF AttachPublish, SessionTypes
    <3>2. DOMAIN order = 1..Len(order) /\ DOMAIN order' = 1 .. Len(order) + 1 /\ Len(order) \in Nat
      BY <3>1, AppendProperties
    <3>3. /\ \A i \in DOMAIN order : order'[i] = order[i]
          /\ order'[Len(order) + 1] = c
      BY <3>1, <3>2, AppendProperties
    <3>4. {order[i] : i \in DOMAIN order} = clients /\ waiter' = "waiting"
      BY <1>0, <1>5 DEF AttachPublish, Ending, OrderIsRoster, outside, loops
    <3>5. c \notin clients
      BY <1>0, <1>5 DEF AttachPublish, Admission, Admitted
    <3>6. {order'[i] : i \in DOMAIN order'} = clients'
      <4>1. \A i \in DOMAIN order' : i \in DOMAIN order \/ i = Len(order) + 1
        BY <3>2
      <4>2. Len(order) + 1 \in DOMAIN order' /\ DOMAIN order \subseteq DOMAIN order'
        BY <3>2
      <4> QED
        BY <3>1, <3>3, <3>4, <4>1, <4>2
    <3>7. \A i, j \in DOMAIN order' : order'[i] = order'[j] => i = j
      <4>1. \A i \in DOMAIN order : order'[i] # c
        BY <3>3, <3>4, <3>5
      <4>2. \A i, j \in DOMAIN order : order[i] = order[j] => i = j
        BY <1>0 DEF OrderIsRoster
      <4> QED
        BY <3>2, <3>3, <4>1, <4>2
    <3> QED
      BY <3>6, <3>7 DEF OrderIsRoster
  <2> QED
    BY <1>0, <1>5, <2>1, <2>2, <2>3, <2>4, <2>5, <2>6, <2>7 DEF AttachPublish, ControlInv,
       outside, loops
<1>6. CASE AttachTooLate(c)
  <2>1. LocksHeld'
    BY <1>0, <1>6, Names DEF AttachTooLate, Withdraw, LocksHeld, Admitted, UserTypes,
       SessionTypes, loops
  <2>2. Admission'
    BY <1>0, <1>6 DEF AttachTooLate, Withdraw, Admission, Admitted, UserTypes, SessionTypes,
       loops
  <2>3. Reservation'
    BY <1>0, <1>6, Names DEF AttachTooLate, Withdraw, Reservation, LocksHeld, UserTypes,
       SessionTypes, loops
  <2>4. OneController'
    BY <1>0, <1>6, Names DEF AttachTooLate, Withdraw, OneController, LocksHeld, Admission,
       Admitted, Reservation, Ending, UserTypes, SessionTypes, loops
  <2>5. GateHeld'
    BY <1>0, <1>6, Names DEF AttachTooLate, Withdraw, GateHeld, LocksHeld, Admitted,
       UserTypes, SessionTypes, loops
  <2> QED
    BY <1>0, <1>6, <2>1, <2>2, <2>3, <2>4, <2>5, KeepEnding, KeepRoster DEF AttachTooLate,
       Withdraw, ControlInv, loops
<1>7. CASE AttachRefuse(c)
  <2>1. LocksHeld'
    BY <1>0, <1>7, Names DEF AttachRefuse, LocksHeld, Admitted, UserTypes, SessionTypes,
       roster, outside, loops
  <2>2. Admission'
    BY <1>0, <1>7 DEF AttachRefuse, Admission, Admitted, UserTypes, SessionTypes, roster,
       outside, loops
  <2>3. Reservation'
    BY <1>0, <1>7, Names DEF AttachRefuse, Reservation, LocksHeld, UserTypes, SessionTypes,
       roster, outside, loops
  <2>4. OneController'
    BY <1>0, <1>7, Names DEF AttachRefuse, OneController, LocksHeld, Admission, Admitted,
       Reservation, Ending, UserTypes, SessionTypes, roster, outside, loops
  <2> QED
    BY <1>0, <1>7, <2>1, <2>2, <2>3, <2>4, KeepEnding, KeepGate, KeepRoster DEF AttachRefuse,
       ControlInv, roster, outside, loops
<1> QED
  BY <1>1, <1>2, <1>3, <1>4, <1>5, <1>6, <1>7 DEF Attach

\* Every step of detachClient keeps ControlInv.
LEMMA DetachKeepsControl ==
  ASSUME TypesInv, ControlInv, NEW c \in Clients, Detach(c)
  PROVE  ControlInv'
<1>0. /\ LocksHeld /\ Ending /\ Admission /\ Reservation /\ OneController /\ GateHeld
      /\ OrderIsRoster /\ SessionTypes /\ UserTypes
  BY DEF ControlInv, TypesInv, TypeOK
<1>1. CASE DetachUnlink(c)
  <2>0. /\ {Without(c)[i] : i \in DOMAIN Without(c)} = {order[i] : i \in DOMAIN order} \ {c}
        /\ \A i, j \in DOMAIN Without(c) : Without(c)[i] = Without(c)[j] => i = j
        /\ Without(c) \in Seq(Clients)
    BY <1>0, WithoutRange, WithoutType DEF OrderIsRoster, SessionTypes
  <2>1. Ending'
    BY <1>0, <1>1 DEF DetachUnlink, Ending, UserTypes, SessionTypes, locks, outside, loops
  <2>2. Admission'
    BY <1>0, <1>1 DEF DetachUnlink, Admission, Admitted, UserTypes, SessionTypes, locks,
       outside, loops
  <2>3. Reservation'
    BY <1>0, <1>1, Names DEF DetachUnlink, Reservation, LocksHeld, UserTypes, SessionTypes,
       locks, outside, loops
  <2>4. OneController'
    <3>1. CASE clients \ {c} = {}
      BY <1>0, <1>1, <3>1 DEF DetachUnlink, OneController
    <3>2. CASE clients \ {c} # {}
      <4>1. {order[i] : i \in DOMAIN order} = clients
        BY <1>0, <3>2 DEF Ending, OrderIsRoster
      <4>2. Without(c) # <<>>
        BY <2>0, <3>2, <4>1
      <4>3. Heir(c) \in clients \ {c}
        <5>1. Heir(c) = Without(c)[1] /\ 1 \in DOMAIN Without(c)
          BY <2>0, <4>2, HeadTailProperties DEF Heir
        <5> QED
          BY <2>0, <4>1, <5>1
      <4>4. controller \in clients
        BY <1>0, <3>2 DEF OneController
      <4> QED
        BY <1>1, <3>2, <4>3, <4>4 DEF DetachUnlink, OneController
    <3> QED
      BY <3>1, <3>2
  <2>5. GateHeld'
    BY <1>0, <1>1, Names DEF DetachUnlink, GateHeld, LocksHeld, Admitted, UserTypes,
       SessionTypes, locks, outside, loops
  <2>6. OrderIsRoster'
    <3>1. order' = Without(c) /\ clients' = clients \ {c} /\ waiter' = waiter
      BY <1>1 DEF DetachUnlink, outside, loops
    <3>2. waiter \notin {"reaping", "done"} =>
            {Without(c)[i] : i \in DOMAIN Without(c)} = clients \ {c}
      BY <1>0, <2>0 DEF OrderIsRoster
    <3>3. waiter' \notin {"reaping", "done"} => {order'[i] : i \in DOMAIN order'} = clients'
      BY <3>1, <3>2
    <3>4. \A i, j \in DOMAIN order' : order'[i] = order'[j] => i = j
      BY <2>0, <3>1
    <3> QED
      BY <3>3, <3>4 DEF OrderIsRoster
  <2> QED
    BY <1>0, <1>1, <2>1, <2>2, <2>3, <2>4, <2>5, <2>6, KeepLocks DEF DetachUnlink,
       ControlInv, locks, outside, loops
<1>2. CASE DetachClose(c)
  BY <1>0, <1>2, KeepLocks, KeepEnding, KeepAdmission, KeepReservation, KeepController,
     KeepGate, KeepRoster DEF DetachClose, ControlInv, session, roster, locks, loops
<1>3. CASE DetachPromote(c)
  BY <1>0, <1>3, KeepLocks, KeepEnding, KeepAdmission, KeepReservation, KeepController,
     KeepGate, KeepRoster DEF DetachPromote, ControlInv, session, roster, locks, loops
<1>4. CASE DetachTell(c)
  BY <1>0, <1>4, KeepLocks, KeepEnding, KeepAdmission, KeepReservation, KeepController,
     KeepGate, KeepRoster DEF DetachTell, ControlInv, session, roster, locks, loops
<1>5. CASE DetachTold(c)
  BY <1>0, <1>5, KeepLocks, KeepEnding, KeepAdmission, KeepReservation, KeepController,
     KeepGate, KeepRoster DEF DetachTold, ControlInv, session, roster, locks, outside, loops
<1> QED
  BY <1>1, <1>2, <1>3, <1>4, <1>5 DEF Detach

\* Every other step of a connection keeps ControlInv.
LEMMA ConnectionKeepsControl ==
  ASSUME TypesInv, ControlInv, NEW c \in Clients, Connection(c), ~Attach(c)
  PROVE  ControlInv'
<1>0. /\ LocksHeld /\ Ending /\ Admission /\ Reservation /\ OneController /\ GateHeld
      /\ OrderIsRoster /\ SessionTypes /\ UserTypes
  BY DEF ControlInv, TypesInv, TypeOK
<1>1. CASE Disconnect(c)
  <2>1. LocksHeld'
    BY <1>0, <1>1, Names DEF Disconnect, LocksHeld, Admitted, UserTypes, SessionTypes,
       session, roster, locks, outside, loops
  <2>2. Admission'
    BY <1>0, <1>1 DEF Disconnect, Admission, Admitted, UserTypes, SessionTypes, session,
       roster, locks, outside, loops
  <2>3. Reservation'
    BY <1>0, <1>1, Names DEF Disconnect, Reservation, LocksHeld, UserTypes, SessionTypes,
       session, roster, locks, outside, loops
  <2>4. OneController'
    BY <1>0, <1>1, Names DEF Disconnect, OneController, LocksHeld, Admission, Admitted,
       Reservation, Ending, UserTypes, SessionTypes, session, roster, locks, outside, loops
  <2> QED
    BY <1>0, <1>1, <2>1, <2>2, <2>3, <2>4, KeepEnding, KeepGate, KeepRoster DEF Disconnect,
       ControlInv, session, roster, locks, outside, loops
<1>2. CASE Gone(c)
  <2>1. LocksHeld'
    BY <1>0, <1>2, Names DEF Gone, LocksHeld, Admitted, UserTypes, SessionTypes, session,
       roster, locks, outside, loops
  <2>2. Admission'
    BY <1>0, <1>2 DEF Gone, Admission, Admitted, UserTypes, SessionTypes, session, roster,
       locks, outside, loops
  <2>3. Reservation'
    BY <1>0, <1>2, Names DEF Gone, Reservation, LocksHeld, UserTypes, SessionTypes, session,
       roster, locks, outside, loops
  <2>4. OneController'
    BY <1>0, <1>2, Names DEF Gone, OneController, LocksHeld, Admission, Admitted,
       Reservation, Ending, UserTypes, SessionTypes, session, roster, locks, outside, loops
  <2> QED
    BY <1>0, <1>2, <2>1, <2>2, <2>3, <2>4, KeepEnding, KeepGate, KeepRoster DEF Gone,
       ControlInv, session, roster, locks, outside, loops
<1>3. CASE Drain(c)
  BY <1>0, <1>3, KeepLocks, KeepEnding, KeepAdmission, KeepReservation, KeepController,
     KeepGate, KeepRoster DEF Drain, ControlInv, session, roster, locks, users, loops
<1>4. CASE TakeControl(c)
  <2>1. LocksHeld'
    BY <1>0, <1>4, Names DEF TakeControl, MayOperate, LocksHeld, Admitted, UserTypes,
       SessionTypes, locks, loops
  <2>2. Reservation'
    BY <1>0, <1>4, Names DEF TakeControl, MayOperate, Reservation, LocksHeld, UserTypes,
       SessionTypes, locks, loops
  <2>3. OneController'
    BY <1>0, <1>4, Names DEF TakeControl, MayOperate, OneController, LocksHeld, Admission,
       Admitted, Reservation, Ending, UserTypes, SessionTypes, locks, loops
  <2>4. GateHeld'
    BY <1>0, <1>4, Names DEF TakeControl, MayOperate, GateHeld, LocksHeld, Admitted,
       UserTypes, SessionTypes, locks, loops
  <2> QED
    BY <1>0, <1>4, <2>1, <2>2, <2>3, <2>4, KeepEnding, KeepAdmission, KeepRoster DEF
       TakeControl, MayOperate, ControlInv, locks, loops
<1>5. CASE SendGrant(c)
  <2>1. LocksHeld'
    BY <1>0, <1>5, Names DEF SendGrant, LocksHeld, Admitted, UserTypes, SessionTypes,
       session, roster, locks, loops
  <2>2. GateHeld'
    BY <1>0, <1>5, Names DEF SendGrant, GateHeld, LocksHeld, Admitted, UserTypes,
       SessionTypes, session, roster, locks, loops
  <2> QED
    BY <1>0, <1>5, <2>1, <2>2, KeepEnding, KeepAdmission, KeepReservation, KeepController,
       KeepRoster DEF SendGrant, ControlInv, session, roster, locks, loops
<1>6. CASE WriteBegin(c)
  <2>1. LocksHeld'
    BY <1>0, <1>6, Names DEF WriteBegin, MayOperate, LocksHeld, Admitted, UserTypes,
       SessionTypes, roster, loops
  <2>2. GateHeld'
    BY <1>0, <1>6, Names DEF WriteBegin, MayOperate, GateHeld, LocksHeld, Admitted,
       UserTypes, SessionTypes, roster, loops
  <2> QED
    BY <1>0, <1>6, <2>1, <2>2, KeepEnding, KeepAdmission, KeepReservation, KeepController,
       KeepRoster DEF WriteBegin, MayOperate, ControlInv, roster, loops
<1>7. CASE WriteEnd(c)
  <2>1. LocksHeld'
    BY <1>0, <1>7, Names DEF WriteEnd, LocksHeld, Admitted, UserTypes, SessionTypes, roster,
       loops
  <2>2. GateHeld'
    BY <1>0, <1>7, Names DEF WriteEnd, GateHeld, LocksHeld, Admitted, UserTypes,
       SessionTypes, roster, loops
  <2> QED
    BY <1>0, <1>7, <2>1, <2>2, KeepEnding, KeepAdmission, KeepReservation, KeepController,
       KeepRoster DEF WriteEnd, ControlInv, roster, loops
<1>8. CASE ResizeBegin(c)
  <2>1. LocksHeld'
    BY <1>0, <1>8, Names DEF ResizeBegin, MayOperate, LocksHeld, Admitted, UserTypes,
       SessionTypes, roster, outside, loops
  <2>2. GateHeld'
    BY <1>0, <1>8, Names DEF ResizeBegin, MayOperate, GateHeld, LocksHeld, Admitted,
       UserTypes, SessionTypes, roster, outside, loops
  <2> QED
    BY <1>0, <1>8, <2>1, <2>2, KeepEnding, KeepAdmission, KeepReservation, KeepController,
       KeepRoster DEF ResizeBegin, MayOperate, ControlInv, roster, outside, loops
<1>9. CASE ResizeEnd(c)
  <2>1. LocksHeld'
    BY <1>0, <1>9, Names DEF ResizeEnd, LocksHeld, Admitted, UserTypes, SessionTypes,
       roster, outside, loops
  <2>2. GateHeld'
    BY <1>0, <1>9, Names DEF ResizeEnd, GateHeld, LocksHeld, Admitted, UserTypes,
       SessionTypes, roster, outside, loops
  <2> QED
    BY <1>0, <1>9, <2>1, <2>2, KeepEnding, KeepAdmission, KeepReservation, KeepController,
       KeepRoster DEF ResizeEnd, ControlInv, roster, outside, loops
<1> QED
  BY <1>1, <1>2, <1>3, <1>4, <1>5, <1>6, <1>7, <1>8, <1>9 DEF Connection

\* The loops of publishBinary and broadcastText keep ControlInv.
LEMMA FanoutKeepsControl ==
  ASSUME TypesInv, ControlInv, NEW p \in Publishers, Fanout(p)
  PROVE  ControlInv'
<1>0. /\ LocksHeld /\ Ending /\ Admission /\ Reservation /\ OneController /\ GateHeld
      /\ OrderIsRoster /\ SessionTypes /\ UserTypes
  BY DEF ControlInv, TypesInv, TypeOK
<1>1. CASE Deliver(p)
  BY <1>0, <1>1, KeepLocks, KeepEnding, KeepAdmission, KeepReservation, KeepController,
     KeepGate, KeepRoster DEF Deliver, ControlInv, session, roster, locks, loops
<1>2. CASE Detached(p)
  BY <1>0, <1>2, KeepLocks, KeepEnding, KeepAdmission, KeepReservation, KeepController,
     KeepGate, KeepRoster DEF Detached, ControlInv, session, roster, locks, users, loops
<1> QED
  BY <1>1, <1>2 DEF Fanout

\* Every step of readLoop keeps ControlInv.
LEMMA ReadLoopKeepsControl ==
  ASSUME TypesInv, ControlInv, ReadLoop
  PROVE  ControlInv'
<1>0. /\ LocksHeld /\ Ending /\ Admission /\ Reservation /\ OneController /\ GateHeld
      /\ OrderIsRoster /\ SessionTypes /\ UserTypes
  BY DEF ControlInv, TypesInv, TypeOK
<1>1. CASE ReadChunk
  <2>1. LocksHeld'
    BY <1>0, <1>1, Names DEF ReadChunk, LocksHeld, Admitted, UserTypes, SessionTypes,
       session, roster, locks, users
  <2> QED
    BY <1>0, <1>1, <2>1, KeepEnding, KeepAdmission, KeepReservation, KeepController,
       KeepGate, KeepRoster DEF ReadChunk, ControlInv, session, roster, locks, users
<1>2. CASE WriteHistory
  <2>1. LocksHeld'
    BY <1>0, <1>2, Names DEF WriteHistory, LocksHeld, Admitted, UserTypes, SessionTypes,
       roster, users
  <2> QED
    BY <1>0, <1>2, <2>1, KeepEnding, KeepAdmission, KeepReservation, KeepController,
       KeepGate, KeepRoster DEF WriteHistory, ControlInv, roster, users
<1>3. CASE ReadNext
  <2>1. LocksHeld'
    BY <1>0, <1>3, Names DEF ReadNext, LocksHeld, Admitted, UserTypes, SessionTypes, roster,
       users
  <2> QED
    BY <1>0, <1>3, <2>1, KeepEnding, KeepAdmission, KeepReservation, KeepController,
       KeepGate, KeepRoster DEF ReadNext, ControlInv, roster, users
<1>4. CASE ReadEOF
  <2>1. LocksHeld'
    BY <1>0, <1>4, Names DEF ReadEOF, LocksHeld, Admitted, UserTypes, SessionTypes, session,
       roster, locks, users
  <2> QED
    BY <1>0, <1>4, <2>1, KeepEnding, KeepAdmission, KeepReservation, KeepController,
       KeepGate, KeepRoster DEF ReadEOF, ControlInv, session, roster, locks, users
<1> QED
  BY <1>1, <1>2, <1>3, <1>4 DEF ReadLoop

\* Every step of waitLoop keeps ControlInv.
LEMMA WaitLoopKeepsControl ==
  ASSUME TypesInv, ControlInv, WaitLoop
  PROVE  ControlInv'
<1>0. /\ LocksHeld /\ Ending /\ Admission /\ Reservation /\ OneController /\ GateHeld
      /\ OrderIsRoster /\ SessionTypes /\ UserTypes
  BY DEF ControlInv, TypesInv, TypeOK
<1>1. CASE WaitReturns
  <2>1. LocksHeld'
    BY <1>0, <1>1, Names DEF WaitReturns, LocksHeld, Admitted, UserTypes, SessionTypes,
       locks, users
  <2>2. Ending'
    BY <1>0, <1>1 DEF WaitReturns, Ending, UserTypes, SessionTypes, locks, users
  <2>3. Reservation'
    BY <1>0, <1>1, Names DEF WaitReturns, Reservation, LocksHeld, UserTypes, SessionTypes,
       locks, users
  <2>4. OneController'
    BY <1>0, <1>1, Names DEF WaitReturns, OneController, LocksHeld, Admission, Admitted,
       Reservation, Ending, UserTypes, SessionTypes, locks, users
  <2>5. OrderIsRoster'
    BY <1>0, <1>1 DEF WaitReturns, OrderIsRoster, Ending, Admission, Admitted, UserTypes,
       SessionTypes, locks, users
  <2> QED
    BY <1>0, <1>1, <2>1, <2>2, <2>3, <2>4, <2>5, KeepAdmission, KeepGate DEF WaitReturns,
       ControlInv, locks, users
<1>2. CASE CloseHistory
  <2>1. LocksHeld'
    BY <1>0, <1>2, Names DEF CloseHistory, LocksHeld, Admitted, UserTypes, SessionTypes,
       session, roster, locks, users
  <2>2. Ending'
    BY <1>0, <1>2 DEF CloseHistory, Ending, UserTypes, SessionTypes, session, roster, locks,
       users
  <2>3. OrderIsRoster'
    BY <1>0, <1>2 DEF CloseHistory, OrderIsRoster, Ending, Admission, Admitted, UserTypes,
       SessionTypes, session, roster, locks, users
  <2> QED
    BY <1>0, <1>2, <2>1, <2>2, <2>3, KeepAdmission, KeepReservation, KeepController,
       KeepGate DEF CloseHistory, ControlInv, session, roster, locks, users
<1>3. CASE BroadcastExit
  <2>1. LocksHeld'
    BY <1>0, <1>3, Names DEF BroadcastExit, LocksHeld, Admitted, UserTypes, SessionTypes,
       roster, users
  <2>2. Ending'
    BY <1>0, <1>3 DEF BroadcastExit, Ending, UserTypes, SessionTypes, roster, users
  <2>3. OrderIsRoster'
    BY <1>0, <1>3 DEF BroadcastExit, OrderIsRoster, Ending, Admission, Admitted, UserTypes,
       SessionTypes, roster, users
  <2> QED
    BY <1>0, <1>3, <2>1, <2>2, <2>3, KeepAdmission, KeepReservation, KeepController,
       KeepGate DEF BroadcastExit, ControlInv, roster, users
<1>4. CASE ReapClients
  <2>1. LocksHeld'
    BY <1>0, <1>4, Names DEF ReapClients, LocksHeld, Admitted, UserTypes, SessionTypes,
       locks, users
  <2>2. Ending'
    BY <1>0, <1>4 DEF ReapClients, Ending, UserTypes, SessionTypes, locks, users
  <2>3. Admission'
    BY <1>0, <1>4 DEF ReapClients, Admission, Admitted, UserTypes, SessionTypes, locks,
       users
  <2>4. OneController'
    BY <1>0, <1>4, Names DEF ReapClients, OneController, LocksHeld, Admission, Admitted,
       Reservation, Ending, UserTypes, SessionTypes, locks, users
  <2>5. OrderIsRoster'
    BY <1>0, <1>4 DEF ReapClients, OrderIsRoster, Ending, Admission, Admitted, UserTypes,
       SessionTypes, locks, users
  <2> QED
    BY <1>0, <1>4, <2>1, <2>2, <2>3, <2>4, <2>5, KeepReservation, KeepGate DEF ReapClients,
       ControlInv, locks, users
<1>5. CASE ReapOne
  BY <1>0, <1>5, KeepLocks, KeepEnding, KeepAdmission, KeepReservation, KeepController,
     KeepGate, KeepRoster DEF ReapOne, ControlInv, session, roster, locks, loops
<1>6. CASE Finish
  <2>1. LocksHeld'
    BY <1>0, <1>6, Names DEF Finish, LocksHeld, Admitted, UserTypes, SessionTypes, roster,
       users
  <2>2. Ending'
    BY <1>0, <1>6 DEF Finish, Ending, UserTypes, SessionTypes, roster, users
  <2>3. OrderIsRoster'
    BY <1>0, <1>6 DEF Finish, OrderIsRoster, Ending, Admission, Admitted, UserTypes,
       SessionTypes, roster, users
  <2> QED
    BY <1>0, <1>6, <2>1, <2>2, <2>3, KeepAdmission, KeepReservation, KeepController,
       KeepGate DEF Finish, ControlInv, roster, users
<1> QED
  BY <1>1, <1>2, <1>3, <1>4, <1>5, <1>6 DEF WaitLoop

\* Every step of closeSession keeps ControlInv.
LEMMA CloseKeepsControl ==
  ASSUME TypesInv, ControlInv, NEW k \in Closers, Close(k)
  PROVE  ControlInv'
<1>0. /\ LocksHeld /\ Ending /\ Admission /\ Reservation /\ OneController /\ GateHeld
      /\ OrderIsRoster /\ SessionTypes /\ UserTypes
  BY DEF ControlInv, TypesInv, TypeOK
<1>1. CASE CloseCall(k)
  <2>1. Ending'
    BY <1>0, <1>1 DEF CloseCall, Ending, UserTypes, SessionTypes, locks, users
  <2>2. Reservation'
    BY <1>0, <1>1, Names DEF CloseCall, Reservation, LocksHeld, UserTypes, SessionTypes,
       locks, users
  <2>3. OneController'
    BY <1>0, <1>1, Names DEF CloseCall, OneController, LocksHeld, Admission, Admitted,
       Reservation, Ending, UserTypes, SessionTypes, locks, users
  <2> QED
    BY <1>0, <1>1, <2>1, <2>2, <2>3, KeepLocks, KeepAdmission, KeepGate, KeepRoster DEF
       CloseCall, ControlInv, locks, users
<1>2. CASE CloseNotify(k)
  BY <1>0, <1>2, KeepLocks, KeepEnding, KeepAdmission, KeepReservation, KeepController,
     KeepGate, KeepRoster DEF CloseNotify, ControlInv, session, roster, locks, users
<1>3. CASE ClosePty(k)
  BY <1>0, <1>3, KeepLocks, KeepEnding, KeepAdmission, KeepReservation, KeepController,
     KeepGate, KeepRoster DEF ClosePty, ControlInv, session, roster, locks, users
<1>4. CASE ClosePtyFails(k)
  BY <1>0, <1>4, KeepLocks, KeepEnding, KeepAdmission, KeepReservation, KeepController,
     KeepGate, KeepRoster DEF ClosePtyFails, ControlInv, session, roster, locks, users
<1>5. CASE CloseReturn(k)
  BY <1>0, <1>5, KeepLocks, KeepEnding, KeepAdmission, KeepReservation, KeepController,
     KeepGate, KeepRoster DEF CloseReturn, ControlInv, session, roster, locks, users
<1> QED
  BY <1>1, <1>2, <1>3, <1>4, <1>5 DEF Close

\* Every step of the child keeps ControlInv.
LEMMA ChildKeepsControl ==
  ASSUME TypesInv, ControlInv, Child
  PROVE  ControlInv'
<1>0. /\ LocksHeld /\ Ending /\ Admission /\ Reservation /\ OneController /\ GateHeld
      /\ OrderIsRoster /\ SessionTypes /\ UserTypes
  BY DEF ControlInv, TypesInv, TypeOK
<1>1. CASE ChildOutput
  BY <1>0, <1>1, KeepLocks, KeepEnding, KeepAdmission, KeepReservation, KeepController,
     KeepGate, KeepRoster DEF ChildOutput, ControlInv, session, roster, locks, users, loops
<1>2. CASE ChildInput
  BY <1>0, <1>2, KeepLocks, KeepEnding, KeepAdmission, KeepReservation, KeepController,
     KeepGate, KeepRoster DEF ChildInput, ControlInv, session, roster, locks, users, loops
<1>3. CASE ChildExit
  BY <1>0, <1>3, KeepLocks, KeepEnding, KeepAdmission, KeepReservation, KeepController,
     KeepGate, KeepRoster DEF ChildExit, ControlInv, session, roster, locks, users, loops
<1> QED
  BY <1>1, <1>2, <1>3 DEF Child

\* ControlInv is inductive, relative to the types.
LEMMA StepKeepsControl == TypesInv /\ ControlInv /\ [Next]_vars => ControlInv'
<1> SUFFICES ASSUME TypesInv, ControlInv, [Next]_vars PROVE ControlInv'
  OBVIOUS
<1>1. CASE UNCHANGED vars
  BY <1>1, KeepLocks, KeepEnding, KeepAdmission, KeepReservation, KeepController, KeepGate,
     KeepRoster DEF vars, session, roster, locks, users, outside, loops, ControlInv
<1>2. ASSUME NEW c \in Clients, Connection(c) PROVE ControlInv'
  BY <1>2, AttachKeepsControl, ConnectionKeepsControl
<1>3. ASSUME NEW c \in Clients, Detach(c) PROVE ControlInv'
  BY <1>3, DetachKeepsControl
<1>4. ASSUME NEW p \in Publishers, Fanout(p) PROVE ControlInv'
  BY <1>4, FanoutKeepsControl
<1>5. ASSUME NEW k \in Closers, Close(k) PROVE ControlInv'
  BY <1>5, CloseKeepsControl
<1>6. CASE ReadLoop \/ WaitLoop \/ Child
  BY <1>6, ReadLoopKeepsControl, WaitLoopKeepsControl, ChildKeepsControl
<1> QED
  BY <1>1, <1>2, <1>3, <1>4, <1>5, <1>6 DEF Next

\* ControlInv holds of a new runtime: nobody is connected.
LEMMA InitControl == Init => ControlInv
<1> SUFFICES ASSUME Init PROVE ControlInv
  OBVIOUS
<1>1. LocksHeld /\ Ending /\ Admission /\ Reservation
  BY DEF Init, LocksHeld, Ending, Admission, Reservation
<1>2. OneController /\ GateHeld
  BY DEF Init, OneController, GateHeld
<1>3. OrderIsRoster
  <2>1. order = <<>> /\ clients = {}
    BY DEF Init
  <2>2. DOMAIN order = {}
    BY <2>1
  <2> QED
    BY <2>1, <2>2 DEF OrderIsRoster
<1> QED
  BY <1>1, <1>2, <1>3 DEF ControlInv

\* Both invariants together hold of every state of the runtime.
THEOREM ControlInvHolds == Spec => [](TypesInv /\ ControlInv)
<1>1. Init => TypesInv /\ ControlInv
  BY InitTypes, InitControl
<1>2. (TypesInv /\ ControlInv) /\ [Next]_vars => (TypesInv /\ ControlInv)'
  BY StepKeepsTypes, StepKeepsControl
<1> QED
  BY <1>1, <1>2, PTL DEF Spec

\* At all times one live client controls the session while there is any, and with none the
\* control is free or reserved by an attach: no interleaving of attaches, detaches, failed
\* replays, takeControls and the exit leaves two controllers, a dead one, or none.
THEOREM OneControllerHolds == Spec => []OneController
<1>1. ControlInv => OneController
  BY DEF ControlInv
<1> QED
  BY <1>1, ControlInvHolds, PTL

\* A write or a resize inside the PTY is that of the controller.
THEOREM GateHolds == Spec => []GateHeld
<1>1. ControlInv => GateHeld
  BY DEF ControlInv
<1> QED
  BY <1>1, ControlInvHolds, PTL

\* clientOrder lists the live clients, each once.
THEOREM RosterHolds == Spec => []OrderIsRoster
<1>1. ControlInv => OrderIsRoster
  BY DEF ControlInv
<1> QED
  BY <1>1, ControlInvHolds, PTL
-----------------------------------------------------------------------------
\* The steps that write the roster; every other step leaves clients, clientOrder,
\* controllerClientId, the attachment and closed alone.
RosterStep ==
  \/ \E c \in Clients : \/ AttachReserve(c) \/ AttachFail(c) \/ AttachPublish(c)
                        \/ AttachTooLate(c) \/ DetachUnlink(c) \/ TakeControl(c)
  \/ WaitReturns \/ ReapClients
  \/ \E k \in Closers : CloseCall(k)

\* A step either is one of them or leaves the roster alone.
LEMMA OtherSteps == [Next]_vars => RosterStep \/ UNCHANGED roster
<1> SUFFICES ASSUME [Next]_vars, ~RosterStep
             PROVE  UNCHANGED roster
  OBVIOUS
<1>1. CASE UNCHANGED vars
  BY <1>1 DEF vars, session, roster
<1>2. ASSUME NEW c \in Clients, Connection(c) \/ Detach(c)
      PROVE  UNCHANGED roster
  <2>1. CASE AttachLock(c) \/ AttachRefuse(c) \/ AttachReplay(c)
    BY <2>1 DEF AttachLock, AttachRefuse, AttachReplay, session, roster
  <2>2. CASE DetachClose(c) \/ DetachPromote(c) \/ DetachTell(c) \/ DetachTold(c)
    BY <2>2 DEF DetachClose, DetachPromote, DetachTell, DetachTold, session, roster
  <2>3. CASE Disconnect(c) \/ Gone(c) \/ Drain(c) \/ SendGrant(c)
    BY <2>3 DEF Disconnect, Gone, Drain, SendGrant, session, roster
  <2>4. CASE WriteBegin(c) \/ WriteEnd(c) \/ ResizeBegin(c) \/ ResizeEnd(c)
    BY <2>4 DEF WriteBegin, WriteEnd, ResizeBegin, ResizeEnd, roster
  <2> QED
    BY <1>2, <2>1, <2>2, <2>3, <2>4 DEF Connection, Attach, Detach, RosterStep
<1>3. ASSUME NEW p \in Publishers, Fanout(p)
      PROVE  UNCHANGED roster
  BY <1>3 DEF Fanout, Deliver, Detached, session, roster
<1>4. CASE ReadLoop
  BY <1>4 DEF ReadLoop, ReadChunk, WriteHistory, ReadNext, ReadEOF, session, roster
<1>5. CASE WaitLoop
  BY <1>5 DEF WaitLoop, CloseHistory, BroadcastExit, ReapOne, Finish, RosterStep, session, roster
<1>6. CASE Child
  BY <1>6 DEF Child, ChildOutput, ChildInput, ChildExit, session, roster
<1>7. ASSUME NEW k \in Closers, Close(k)
      PROVE  UNCHANGED roster
  BY <1>7 DEF Close, CloseNotify, ClosePty, ClosePtyFails, CloseReturn, RosterStep, session, roster
<1> QED
  BY <1>1, <1>2, <1>3, <1>4, <1>5, <1>6, <1>7 DEF Next

\* Every step moves the control the way ControlStep allows.
LEMMA StepMovesControl ==
  ASSUME TypesInv, ControlInv, RosterStep
  PROVE  ControlStep
<1>0. /\ LocksHeld /\ Ending /\ Admission /\ OneController /\ OrderIsRoster
      /\ SessionTypes /\ UserTypes
  BY DEF ControlInv, TypesInv, TypeOK
<1>1. controller \in clients => controller # NoClient /\ conn[controller] \in Admitted
  BY <1>0, Names DEF SessionTypes, Admission
<1>2. ASSUME NEW c \in Clients, AttachReserve(c) \/ AttachFail(c) \/ AttachTooLate(c)
      PROVE  ControlStep
  BY <1>1, <1>2 DEF AttachReserve, AttachFail, AttachTooLate, Withdraw, ControlStep, Admitted
<1>3. ASSUME NEW c \in Clients, AttachPublish(c) PROVE ControlStep
  BY <1>3 DEF AttachPublish, ControlStep
<1>4. ASSUME NEW c \in Clients, DetachUnlink(c), controller = c, clients' # {}
      PROVE  controller' = Head(Without(c))
  <2>1. controller' = Heir(c) /\ clients \ {c} # {}
    BY <1>4 DEF DetachUnlink
  <2>2. {Without(c)[i] : i \in DOMAIN Without(c)} = clients \ {c}
    BY <1>0, <2>1, WithoutRange DEF Ending, OrderIsRoster, SessionTypes
  <2>3. Without(c) # <<>>
    BY <2>1, <2>2
  <2> QED
    BY <2>1, <2>3 DEF Heir
<1>5. ASSUME NEW c \in Clients, DetachUnlink(c) PROVE ControlStep
  <2> SUFFICES ASSUME controller \in clients, controller' # controller
               PROVE  controller \notin clients' /\ (clients' # {} => controller' = Head(Without(controller)))
    BY DEF ControlStep
  <2>1. controller = c /\ clients' = clients \ {c}
    BY <1>5 DEF DetachUnlink
  <2> QED
    BY <1>4, <1>5, <2>1
<1>6. ASSUME NEW c \in Clients, TakeControl(c) PROVE ControlStep
  <2>1. takes' # takes
    BY <1>6 DEF TakeControl, TypesInv, TypeOK, PtyTypes
  <2> QED
    BY <1>6, <2>1 DEF TakeControl, ControlStep
<1>7. CASE WaitReturns \/ ReapClients
  BY <1>7 DEF WaitReturns, ReapClients, ControlStep
<1>8. ASSUME NEW k \in Closers, CloseCall(k) PROVE ControlStep
  BY <1>8 DEF CloseCall, ControlStep
<1> QED
  BY <1>2, <1>3, <1>5, <1>6, <1>7, <1>8 DEF RosterStep

\* When the controller leaves, the oldest of those who stay takes over; otherwise only a
\* takeControl moves the control away from a live client, and no attach ever does.
THEOREM ControlMovesHolds == Spec => ControlMoves
<1>1. TypesInv /\ ControlInv /\ [Next]_vars => [ControlStep]_vars
  <2> SUFFICES ASSUME TypesInv, ControlInv, [Next]_vars PROVE ControlStep
    OBVIOUS
  <2>1. CASE RosterStep
    BY <2>1, StepMovesControl
  <2>2. CASE UNCHANGED roster
    BY <2>2 DEF ControlStep, roster
  <2> QED
    BY <2>1, <2>2, OtherSteps
<1> QED
  BY <1>1, ControlInvHolds, PTL DEF Spec, ControlMoves
-----------------------------------------------------------------------------
\* Until the session is closed it is summarised as attached exactly while somebody is.
THEOREM SummaryHolds == Spec => []AttachmentSummary
<1>1. Init => AttachmentSummary
  BY DEF Init, AttachmentSummary
<1>2. TypesInv /\ ControlInv /\ AttachmentSummary /\ [Next]_vars => AttachmentSummary'
  <2> SUFFICES ASSUME TypesInv, ControlInv, AttachmentSummary, [Next]_vars
               PROVE  AttachmentSummary'
    OBVIOUS
  <2>0. Ending
    BY DEF ControlInv
  <2>1. CASE UNCHANGED roster
    BY <2>1 DEF AttachmentSummary, roster
  <2>2. ASSUME NEW c \in Clients, AttachReserve(c) \/ AttachTooLate(c) \/ TakeControl(c)
        PROVE  AttachmentSummary'
    BY <2>2 DEF AttachReserve, AttachTooLate, Withdraw, TakeControl, AttachmentSummary
  <2>3. ASSUME NEW c \in Clients, AttachFail(c) \/ AttachPublish(c) PROVE AttachmentSummary'
    BY <2>3 DEF AttachFail, AttachPublish, Withdraw, AttachmentSummary
  <2>4. ASSUME NEW c \in Clients, DetachUnlink(c) PROVE AttachmentSummary'
    BY <2>4 DEF DetachUnlink, AttachmentSummary
  <2>5. CASE WaitReturns \/ ReapClients
    BY <2>0, <2>5 DEF WaitReturns, ReapClients, Ending, AttachmentSummary
  <2>6. ASSUME NEW k \in Closers, CloseCall(k) PROVE AttachmentSummary'
    BY <2>6 DEF CloseCall, AttachmentSummary
  <2> QED
    BY <2>1, <2>2, <2>3, <2>4, <2>5, <2>6, OtherSteps DEF RosterStep
<1> QED
  BY <1>1, <1>2, ControlInvHolds, PTL DEF Spec

-----------------------------------------------------------------------------
(* The refinement.                                                          *)

\* An empty map has an empty order, until waitLoop takes the map.
LEMMA EmptyOrder ==
  ASSUME TypesInv, ControlInv, ~closed, clients = {}
  PROVE  order = <<>>
<1>1. order \in Seq(Clients) /\ waiter = "waiting"
  BY DEF TypesInv, TypeOK, SessionTypes, ControlInv, Ending
<1>2. {order[i] : i \in DOMAIN order} = {}
  BY <1>1 DEF ControlInv, OrderIsRoster
<1>3. order # <<>> => order[1] \in {order[i] : i \in DOMAIN order}
  BY <1>1
<1> QED
  BY <1>2, <1>3

\* The publication of a client is its arrival: it stands last, and controls the terminal
\* if nobody else is there.
LEMMA PublishArrives ==
  ASSUME TypesInv, ControlInv, NEW c \in Clients, AttachPublish(c)
  PROVE  Control!Arrive(c)
<1>0. /\ LocksHeld /\ Ending /\ Admission /\ Reservation /\ OneController /\ OrderIsRoster
      /\ SessionTypes /\ UserTypes
  BY DEF ControlInv, TypesInv, TypeOK
<1>1. /\ ~closed /\ ~closed' /\ conn[c] = "publishing" /\ controller' = controller
      /\ clients' = clients \cup {c} /\ order' = Append(order, c)
  BY DEF AttachPublish
<1>2. c \notin clients
  BY <1>0, <1>1 DEF Admission, Admitted
<1>3. CASE clients = {}
  <2>1. order = <<>>
    BY <1>1, <1>3, EmptyOrder
  <2>2. controller = c
    BY <1>0, <1>1, <1>3, Names DEF Reservation, OneController, LocksHeld, SessionTypes
  <2>3. lineOf = <<>> /\ lineOf' = Append(lineOf, c) /\ holderOf' = c
    BY <1>1, <1>3, <2>1, <2>2 DEF lineOf, holderOf
  <2>4. ~Control!InLine(c)
    BY <2>3 DEF Control!InLine
  <2> QED
    BY <1>1, <2>3, <2>4 DEF Control!Arrive
<1>4. CASE clients # {}
  <2>1. {order[i] : i \in DOMAIN order} = clients
    BY <1>0, <1>4 DEF Ending, OrderIsRoster
  <2>2. order # <<>>
    BY <1>4, <2>1
  <2>3. lineOf = order /\ lineOf' = Append(lineOf, c) /\ holderOf' = holderOf
    BY <1>1, <1>4 DEF lineOf, holderOf
  <2>4. ~Control!InLine(c)
    BY <1>2, <2>1, <2>3 DEF Control!InLine
  <2> QED
    BY <1>1, <2>2, <2>3, <2>4 DEF Control!Arrive
<1> QED
  BY <1>3, <1>4

\* The section of detachClient is a leaving of a client that is in the map, and nothing
\* otherwise.
LEMMA UnlinkLeaves ==
  ASSUME TypesInv, ControlInv, NEW c \in Clients, DetachUnlink(c)
  PROVE  Control!Leave(c) \/ UNCHANGED Control!vars
<1>0. /\ Ending /\ OneController /\ OrderIsRoster /\ SessionTypes
  BY DEF ControlInv, TypesInv, TypeOK
<1>1. clients' = clients \ {c} /\ order' = Without(c) /\ closed' = closed
  BY DEF DetachUnlink
<1>2. CASE clients = {}
  BY <1>1, <1>2 DEF Control!vars, lineOf, holderOf
<1>3. CASE clients # {}
  <2>1. {order[i] : i \in DOMAIN order} = clients /\ controller \in clients
    BY <1>0, <1>3 DEF Ending, OrderIsRoster, OneController
  <2>2. {Without(c)[i] : i \in DOMAIN Without(c)} = clients \ {c} /\ Without(c) \in Seq(Clients)
    BY <1>0, <2>1, WithoutRange, WithoutType DEF OrderIsRoster, SessionTypes
  <2>3. CASE c \notin clients
    <3>1. Without(c) = order
      BY <2>1, <2>3 DEF Without
    <3>2. controller' = controller
      BY <2>1, <2>3 DEF DetachUnlink
    <3> QED
      BY <1>1, <2>3, <3>1, <3>2 DEF Control!vars, lineOf, holderOf
  <2>4. CASE c \in clients
    <3> DEFINE i == CHOOSE i \in DOMAIN order : order[i] = c
    <3>1. i \in DOMAIN order /\ order[i] = c
      BY <2>1, <2>4
    <3>2. Without(c) = [j \in 1 .. Len(order) - 1 |-> IF j < i THEN order[j] ELSE order[j + 1]]
      BY <3>1 DEF Without
    <3> HIDE DEF i
    <3>3. lineOf = order /\ holderOf = controller
      BY <1>3 DEF lineOf, holderOf
    <3>4. lineOf' = Without(c)
      <4>1. clients \ {c} = {} => Without(c) = <<>>
        BY <2>2
      <4> QED
        BY <1>1, <4>1 DEF lineOf
    <3>5. holderOf' = IF lineOf' = <<>> THEN NoClient
                      ELSE IF holderOf = c THEN lineOf'[1] ELSE holderOf
      <4>1. CASE clients \ {c} = {}
        BY <1>1, <4>1 DEF holderOf, lineOf
      <4>2. CASE clients \ {c} # {}
        <5>1. Without(c) # <<>>
          BY <2>2, <4>2
        <5>2. Heir(c) = Without(c)[1]
          BY <2>2, <5>1, HeadTailProperties DEF Heir
        <5>3. controller' = IF controller = c THEN Heir(c) ELSE controller
          BY <4>2 DEF DetachUnlink
        <5> QED
          BY <1>1, <3>3, <3>4, <4>2, <5>1, <5>2, <5>3 DEF holderOf
      <4> QED
        BY <4>1, <4>2
    <3> QED
      BY <1>1, <3>1, <3>2, <3>3, <3>4, <3>5 DEF Control!Leave
  <2> QED
    BY <2>3, <2>4
<1> QED
  BY <1>2, <1>3

\* A takeControl of a live client is a taking, any other changes nothing.
LEMMA TakeTakes ==
  ASSUME TypesInv, ControlInv, NEW c \in Clients, TakeControl(c)
  PROVE  Control!Take(c) \/ UNCHANGED Control!vars
<1>1. clients' = clients /\ order' = order /\ closed' = closed
  BY DEF TakeControl
<1>2. CASE c \notin clients \/ closed
  BY <1>1, <1>2 DEF TakeControl, Control!vars, lineOf, holderOf
<1>3. CASE c \in clients /\ ~closed
  <2>1. {order[i] : i \in DOMAIN order} = clients
    BY <1>3 DEF ControlInv, Ending, OrderIsRoster
  <2>2. lineOf = order /\ Control!InLine(c)
    BY <1>3, <2>1 DEF lineOf, Control!InLine
  <2>3. lineOf' = lineOf /\ holderOf' = c
    BY <1>1, <1>3 DEF TakeControl, lineOf, holderOf
  <2> QED
    BY <1>1, <1>3, <2>2, <2>3 DEF Control!Take
<1> QED
  BY <1>2, <1>3

\* Every step of the runtime is a step of the abstract session or changes nothing of it.
LEMMA StepRefines ==
  ASSUME TypesInv, ControlInv, [Next]_vars
  PROVE  [Control!Next]_(Control!vars)
<1>0. Ending /\ Admission /\ OneController /\ SessionTypes
  BY DEF ControlInv, TypesInv, TypeOK
<1>1. CASE UNCHANGED roster
  BY <1>1 DEF roster, Control!vars, lineOf, holderOf
<1>2. ASSUME NEW c \in Clients, AttachReserve(c) \/ AttachFail(c) \/ AttachTooLate(c)
      PROVE  UNCHANGED Control!vars
  <2>1. clients' = clients /\ order' = order /\ closed' = closed
    BY <1>2 DEF AttachReserve, AttachFail, AttachTooLate, Withdraw
  <2>2. clients # {} => controller' = controller
    <3>1. clients # {} => controller # NoClient /\ conn[controller] \in Admitted
      BY <1>0, Names DEF OneController, Admission, SessionTypes
    <3> QED
      BY <1>2, <3>1 DEF AttachReserve, AttachFail, AttachTooLate, Withdraw, Admitted
  <2> QED
    BY <2>1, <2>2 DEF Control!vars, lineOf, holderOf
<1>3. ASSUME NEW c \in Clients, AttachPublish(c) PROVE Control!Next
  BY <1>3, PublishArrives DEF Control!Next
<1>4. ASSUME NEW c \in Clients, DetachUnlink(c) PROVE [Control!Next]_(Control!vars)
  BY <1>4, UnlinkLeaves DEF Control!Next
<1>5. ASSUME NEW c \in Clients, TakeControl(c) PROVE [Control!Next]_(Control!vars)
  BY <1>5, TakeTakes DEF Control!Next
<1>6. CASE WaitReturns
  <2>1. Control!Close
    BY <1>6 DEF WaitReturns, Control!Close, lineOf, holderOf
  <2> QED
    BY <2>1 DEF Control!Next
<1>7. CASE ReapClients
  <2>1. closed /\ closed' /\ clients' = {}
    BY <1>0, <1>7 DEF ReapClients, Ending
  <2>2. Control!End
    BY <2>1 DEF Control!End, lineOf, holderOf
  <2> QED
    BY <2>2 DEF Control!Next
<1>8. ASSUME NEW k \in Closers, CloseCall(k) PROVE [Control!Next]_(Control!vars)
  <2>1. Control!Close \/ UNCHANGED Control!vars
    BY <1>8 DEF CloseCall, Control!Close, Control!vars, lineOf, holderOf
  <2> QED
    BY <2>1 DEF Control!Next
<1> QED
  BY <1>1, <1>2, <1>3, <1>4, <1>5, <1>6, <1>7, <1>8, OtherSteps DEF RosterStep

\* The runtime implements the abstract session for every number of clients and closers:
\* whatever attaches, detaches and exits interleave, an observer who sees only the line,
\* the holder of the control and whether the session is up sees one step at a time of
\* TerminalControl.
THEOREM RuntimeImplementsControl == Spec => ImplementsControl
<1>1. Init => Control!Init
  BY DEF Init, Control!Init, lineOf, holderOf
<1>2. TypesInv /\ ControlInv /\ [Next]_vars => [Control!Next]_(Control!vars)
  BY StepRefines
<1> QED
  BY <1>1, <1>2, ControlInvHolds, PTL DEF Spec, Control!Spec, ImplementsControl

\* What the abstract session stands for holds of the runtime: the holder of the control is
\* somebody in line, and there is one as long as anybody is.
THEOREM HolderStandsInLine == Spec => []Control!HolderInLine
<1>1. ASSUME TypesInv, ControlInv PROVE Control!HolderInLine
  <2>1. CASE clients = {}
    BY <2>1 DEF Control!HolderInLine, lineOf, holderOf
  <2>2. CASE clients # {}
    <3>1. {order[i] : i \in DOMAIN order} = clients /\ controller \in clients
      BY <1>1, <2>2 DEF ControlInv, Ending, OrderIsRoster, OneController
    <3>2. lineOf = order /\ holderOf = controller /\ order # <<>>
      BY <2>2, <3>1 DEF lineOf, holderOf
    <3>3. Control!InLine(holderOf)
      BY <3>1, <3>2 DEF Control!InLine
    <3> QED
      BY <3>2, <3>3 DEF Control!HolderInLine
  <2> QED
    BY <2>1, <2>2
<1> QED
  BY <1>1, ControlInvHolds, PTL
=============================================================================
