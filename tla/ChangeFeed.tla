----------------------------- MODULE ChangeFeed -----------------------------
(* What a subscriber of a workspace's changes is promised, without roots,    *)
(* tables and channels: it is told of every change in order, or told once    *)
(* that it has to look at everything again, after which it is told nothing.  *)
EXTENDS Naturals

CONSTANT Subscribers

VARIABLES
  status,   \* "out", "live", "rescan" (still to be told), "over"
  pending   \* changes it has not been told of yet

feed == <<status, pending>>

Live == {s \in Subscribers : status[s] = "live"}

FeedInit ==
  /\ status = [s \in Subscribers |-> "out"]
  /\ pending = [s \in Subscribers |-> 0]

Open(s) ==
  /\ status[s] = "out"
  /\ status' = [status EXCEPT ![s] = "live"]
  /\ UNCHANGED pending

Change ==
  /\ pending' = [s \in Subscribers |-> IF s \in Live THEN pending[s] + 1
                                       ELSE pending[s]]
  /\ UNCHANGED status

\* a change that cannot be passed on to all ends every feed
LoseTrack ==
  /\ status' = [s \in Subscribers |-> IF s \in Live THEN "rescan" ELSE status[s]]
  /\ pending' = [s \in Subscribers |-> IF s \in Live THEN 0 ELSE pending[s]]

Tell(s) ==
  \/ /\ pending[s] > 0
     /\ pending' = [pending EXCEPT ![s] = @ - 1]
     /\ UNCHANGED status
  \/ /\ status[s] = "rescan"
     /\ status' = [status EXCEPT ![s] = "over"]
     /\ UNCHANGED pending

Leave(s) ==
  /\ status[s] # "out"
  /\ status' = [status EXCEPT ![s] = "over"]
  /\ pending' = [pending EXCEPT ![s] = 0]

\* the Agent stops
Shutdown ==
  /\ status' = [s \in Subscribers |-> IF s \in Live THEN "over" ELSE status[s]]
  /\ UNCHANGED pending

FeedNext ==
  \/ Change \/ LoseTrack \/ Shutdown
  \/ \E s \in Subscribers : Open(s) \/ Tell(s) \/ Leave(s)

FeedSpec == FeedInit /\ [][FeedNext]_feed
==============================================================================
