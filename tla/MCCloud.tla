------------------------------- MODULE MCCloud -------------------------------
(* The tunnel and the accounts of the Cloud on small instances: they share   *)
(* no state, so a behaviour is one of the tunnel or one of the accounts.     *)
(* Not everything comes from outside in one behaviour: the loads say what    *)
(* may, and a part leaves out a little more of it.                           *)
(* Of the fairness of the tunnel less is assumed than it has (NeverStops).   *)
EXTENDS MCCloudTunnel, AccountProperties

CONSTANTS p1, p2

TwoPasswords == {p1, p2}

VARIABLE part

\* the part a load is for
PartOf ==
  CASE Busy \in coming    -> "stuck session"
    [] Stall \in coming   -> "stalled tab"
    [] remover = "idle"   -> "deletion"
    [] SignOut \in coming -> "sign-out"
    [] OTHER              -> "loss"

PartsInit ==
  /\ Init /\ AccountsInit
  /\ part \in {PartOf, "accounts"}
  /\ part = "accounts" => remover = "idle"

SecondTunnelLost == wire[2] = "up" /\ wire'[2] = "lost" /\ agent'[2] # "over"

LeftOut ==
  \/ part = "stuck session" /\ generation' > 1
  \/ part = "stalled tab" /\ (typed' # typed \/ sent' # sent \/ SecondTunnelLost)
  \/ part = "deletion" /\ SecondTunnelLost
  \/ part = "loss" /\ SecondTunnelLost /\ (\E s \in Streams : via[s] = 2)
  \/ part = "sign-out" /\ (sent' # sent \/ \E s \in Streams : BrowserLeaves(s))

PartsNext ==
  \/ part # "accounts" /\ Next /\ ~LeftOut /\ UNCHANGED <<accountsVars, part>>
  \/ part = "accounts" /\ AccountsNext /\ UNCHANGED <<vars, part>>

\* the two programs do not stop while some goroutine of theirs could go on:
\* weaker than weak fairness of ProgramSteps
NeverStops ==
  \/ []<>(part = "accounts" \/ ~ENABLED <<ProgramSteps>>_vars)
  \/ []<><<TRUE>>_vars

PartsSpec ==
  /\ PartsInit /\ [][PartsNext]_<<vars, accountsVars, part>>
  /\ NeverStops
==============================================================================
