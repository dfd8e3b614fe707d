------------------------- MODULE AccountProperties -------------------------
(* What the accounts of the Cloud promise.                                   *)
EXTENDS CloudAccounts

(* Every variable keeps its type; an account that exists has a password.     *)
AccountTypeOK ==
  /\ status \in {"absent", "pending", "enabled"}
  /\ password \in Passwords \cup {NoPassword}
  /\ status # "absent" => password # NoPassword
  /\ codes \in Seq([of : Asks, purpose : Purposes, age : {"new", "old", "expired"},
                    state : {"live", "used", "void"}])
  /\ mailbox \subseteq Asks
  /\ states \in [Asks -> {"none", "open", "used", "expired"}]
  /\ external \in BOOLEAN
  /\ ask \in [Asks -> [at : {"idle", "creating", "asking", "sending", "mailed",
                             "unmailed", "changing", "exchanging", "joining", "answered"},
                       purpose : Purposes \cup {"none"},
                       given : Passwords \cup {NoPassword}]]
  /\ ages \in Nat /\ wins \in [Asks -> Nat]

(* A code that can be used is the latest of its purpose, so there is one at  *)
(* most, and it was mailed: requests that pass the cooldown together, or a   *)
(* mail that fails, leave neither two live codes nor one that nobody has and *)
(* that holds up the next by its cooldown (sendCode, createCode).            *)
LiveCodeIsLatest ==
  \A i \in DOMAIN codes : codes[i].state = "live" =>
     i \in Latest(codes[i].purpose) /\ codes[i].of \in mailbox

(* A code or a state lets one call through, however many come with it at     *)
(* once; and who has an account that is enabled had a verification code that *)
(* was mailed (verifyCodeWithRepo and markCodeUsed, UseOAuthState).          *)
CodesWorkOnce ==
  /\ \A k \in Asks : wins[k] <= 1
  /\ \A i \in DOMAIN codes : codes[i].state = "used" <=> wins[codes[i].of] = 1
  /\ status = "enabled" =>
       \E i \in DOMAIN codes : /\ codes[i].purpose = "email_verification"
                               /\ codes[i].state = "used" /\ codes[i].of \in mailbox
==============================================================================
