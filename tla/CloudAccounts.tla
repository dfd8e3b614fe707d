---------------------------- MODULE CloudAccounts ----------------------------
(* The accounts of one email address in the Cloud                            *)
(* (cloud/application/user/auth/service.go over repository/user/auth): the   *)
(* one that registers with a password and confirms by mailed codes, and the  *)
(* one an external provider signs in.  Requests run concurrently; a          *)
(* transaction is one step, as on the single connection that the SQLite      *)
(* database is opened with.  What a request reads outside of a transaction   *)
(* may be stale when it acts on it.                                          *)
(*                                                                           *)
(* Requests are numbered as they come.  One makes one code, or one OAuth     *)
(* state, at most, which has its number.                                     *)
EXTENDS Naturals, Sequences, FiniteSets

CONSTANTS
  Passwords,
  NoPassword,
  MaxAsks,    \* bound: requests
  MaxAges     \* bound: steps of the clock that a request could notice

ASSUME AccountsAssumption ==
  /\ NoPassword \notin Passwords
  /\ MaxAsks \in Nat /\ MaxAges \in Nat

Asks == 1 .. MaxAsks

VARIABLES
  status,    \* users.status of the account with a password
  password,  \* its identity's password_hash
  codes,     \* auth_codes in the order of created_at
  mailbox,   \* codes that reached the address
  states,    \* oauth_states
  external,  \* the account of the provider exists
  ask,       \* request -> where it is, and what of it is still needed
  ages,      \* bound
  wins       \* code or state -> calls that it let through (auxiliary)

accountsVars == <<status, password, codes, mailbox, states, external, ask, ages, wins>>
account == <<status, password>>
oauth   == <<states, external>>

Purposes == {"email_verification", "password_reset"}

Nothing == [at |-> "idle", purpose |-> "none", given |-> NoPassword]

AccountsInit ==
  /\ status = "absent" /\ password = NoPassword
  /\ codes = <<>> /\ mailbox = {}
  /\ states = [k \in Asks |-> "none"] /\ external = FALSE
  /\ ask = [k \in Asks |-> Nothing]
  /\ ages = 0
  /\ wins = [k \in Asks |-> 0]

Moves(k, place) == ask' = [ask EXCEPT ![k].at = place]
Answered(k)    == ask' = [ask EXCEPT ![k] = [Nothing EXCEPT !.at = "answered"]]
Idle(k)        == ask[k].at = "idle" /\ \A j \in 1 .. k - 1 : ask[j].at # "idle"

------------------------------------------------------------------------------
(* Codes                                                                     *)

\* latestCode: the last row of the address and the purpose
Latest(purpose) ==
  {i \in DOMAIN codes : /\ codes[i].purpose = purpose
                        /\ \A j \in DOMAIN codes : codes[j].purpose = purpose => j <= i}

\* a code that was made within the cooldown, neither used nor void
Cooling(purpose) ==
  \E i \in Latest(purpose) : codes[i].state = "live" /\ codes[i].age = "new"

\* a call of sendCode begins
Wants(k, purpose) == ask' = [ask EXCEPT ![k].at = "asking", ![k].purpose = purpose]

\* the cooldown is read outside of the transaction that makes the code
SendBegin(k) ==
  /\ ask[k].at = "asking"
  /\ IF Cooling(ask[k].purpose) THEN Answered(k) ELSE Moves(k, "sending")
  /\ UNCHANGED <<account, codes, mailbox, oauth, ages, wins>>

\* sender.Send; an error says nothing of whether the mail arrives
SendMail(k) ==
  /\ ask[k].at = "sending"
  /\ \/ Moves(k, "mailed") /\ mailbox' = mailbox \cup {k}
     \/ Moves(k, "unmailed") /\ mailbox' \in {mailbox, mailbox \cup {k}}
  /\ UNCHANGED <<account, codes, oauth, ages, wins>>

VoidNothing(purpose) == codes  \* mutant: earlier codes stay live

\* createCode voids the live codes of the address and the purpose
VoidEarlier(purpose) ==
  [i \in DOMAIN codes |-> IF codes[i].purpose = purpose /\ codes[i].state = "live"
                          THEN [codes[i] EXCEPT !.state = "void"] ELSE codes[i]]

\* the transaction of sendCode: a code whose mail failed is void at once
StoreCode(k) ==
  /\ ask[k].at \in {"mailed", "unmailed"}
  /\ codes' = Append(VoidEarlier(ask[k].purpose),
                [of |-> k, purpose |-> ask[k].purpose, age |-> "new",
                 state |-> IF ask[k].at = "mailed" THEN "live" ELSE "void"])
  /\ Answered(k)
  /\ UNCHANGED <<account, mailbox, oauth, ages, wins>>

\* it fails: nothing is stored of a code that may have been mailed
StoreFails(k) ==
  /\ ask[k].at \in {"mailed", "unmailed"}
  /\ Answered(k)
  /\ UNCHANGED <<account, codes, mailbox, oauth, ages, wins>>

\* verifyCodeWithRepo: the latest row, if it can still be used.  The number of
\* its failed attempts is not kept: what a wrong code adds is rolled back with
\* the transaction that it makes fail.
Accepted(purpose, code) ==
  {i \in Latest(purpose) : codes[i].of = code /\ codes[i].state = "live"
                             /\ codes[i].age # "expired"}

NotSpent(i, code) ==  \* mutant: MarkCodeUsed is left out
  /\ UNCHANGED codes
  /\ wins' = [wins EXCEPT ![code] = @ + 1]

\* markCodeUsed, in the transaction that accepted the code
Spend(i, code) ==
  /\ codes' = [codes EXCEPT ![i].state = "used"]
  /\ wins' = [wins EXCEPT ![code] = @ + 1]

------------------------------------------------------------------------------
(* The account with a password                                               *)

RegisterEmail(k) ==
  /\ Idle(k)
  /\ status = "absent"
  /\ \E p \in Passwords :
       ask' = [ask EXCEPT ![k] = [at |-> "creating", purpose |-> "email_verification",
                                  given |-> p]]
  /\ UNCHANGED <<account, codes, mailbox, oauth, ages, wins>>

WithoutIdentity(k) ==  \* mutant: the user is committed before the identity
  status' = "pending" /\ UNCHANGED password

\* users and user_identities in one transaction
UserAndIdentity(k) == status' = "pending" /\ password' = ask[k].given

\* CreateEmailUser: a second user of the address hits the unique index
CreateUser(k) ==
  /\ ask[k].at = "creating"
  /\ \/ status = "absent" /\ UserAndIdentity(k) /\ Moves(k, "asking")
     \/ Answered(k) /\ UNCHANGED account
  /\ UNCHANGED <<codes, mailbox, oauth, ages, wins>>

ResendVerification(k) ==
  /\ Idle(k)
  /\ status = "pending"
  /\ Wants(k, "email_verification")
  /\ UNCHANGED <<account, codes, mailbox, oauth, ages, wins>>

RequestPasswordReset(k) ==
  /\ Idle(k)
  /\ status = "enabled"
  /\ Wants(k, "password_reset")
  /\ UNCHANGED <<account, codes, mailbox, oauth, ages, wins>>

\* the code and the account in one transaction
VerifyEmail(k) ==
  /\ Idle(k)
  /\ \E code \in mailbox : \E i \in Accepted("email_verification", code) : Spend(i, code)
  /\ status' = "enabled"
  /\ Answered(k)
  /\ UNCHANGED <<password, mailbox, oauth, ages>>

ConfirmPasswordReset(k) ==
  /\ Idle(k)
  /\ \E code \in mailbox : \E i \in Accepted("password_reset", code) : Spend(i, code)
  /\ password' \in Passwords
  /\ Answered(k)
  /\ UNCHANGED <<status, mailbox, oauth, ages>>

\* the current password was right, the new one is stored later
ChangePassword(k) ==
  /\ Idle(k)
  /\ status = "enabled"
  /\ \E p \in Passwords \ {password} :
       ask' = [ask EXCEPT ![k].at = "changing", ![k].given = p]
  /\ UNCHANGED <<account, codes, mailbox, oauth, ages, wins>>

StorePassword(k) ==
  /\ ask[k].at = "changing"
  /\ password' = ask[k].given
  /\ Answered(k)
  /\ UNCHANGED <<status, codes, mailbox, oauth, ages, wins>>

------------------------------------------------------------------------------
(* The account of a provider                                                 *)

ExternalAuthURL(k) ==
  /\ Idle(k)
  /\ states' = [states EXCEPT ![k] = "open"]
  /\ Answered(k)
  /\ UNCHANGED <<account, codes, mailbox, external, ages, wins>>

\* UseOAuthState: one UPDATE of a row that is neither used nor expired
ExternalCallback(k) ==
  /\ Idle(k)
  /\ \E state \in Asks :
       /\ states[state] = "open"
       /\ states' = [states EXCEPT ![state] = "used"]
       /\ wins' = [wins EXCEPT ![state] = @ + 1]
  /\ Moves(k, "exchanging")
  /\ UNCHANGED <<account, codes, mailbox, external, ages>>

\* the provider answers with an identity, which is known or not, or it fails
ExchangeIdentity(k) ==
  /\ ask[k].at = "exchanging"
  /\ \/ ~external /\ Moves(k, "joining")
     \/ Answered(k)
  /\ UNCHANGED <<account, codes, mailbox, oauth, ages, wins>>

\* CreateExternalUser; a second one hits the unique index
CreateExternalUser(k) ==
  /\ ask[k].at = "joining"
  /\ external' = TRUE
  /\ Answered(k)
  /\ UNCHANGED <<account, codes, mailbox, states, ages, wins>>

------------------------------------------------------------------------------
\* the cooldown of a code ends, then its lifetime; a state expires.  The age of
\* a code that is used or void is never asked for.
TimePasses ==
  /\ ages < MaxAges
  /\ ages' = ages + 1
  /\ \/ \E i \in DOMAIN codes :
          /\ codes[i].state = "live" /\ codes[i].age # "expired"
          /\ codes' = [codes EXCEPT ![i].age = IF @ = "new" THEN "old" ELSE "expired"]
          /\ UNCHANGED states
     \/ \E k \in Asks : /\ states[k] = "open"
                        /\ states' = [states EXCEPT ![k] = "expired"]
                        /\ UNCHANGED codes
  /\ UNCHANGED <<account, mailbox, external, ask, wins>>

Sends(k) == SendBegin(k) \/ SendMail(k) \/ StoreCode(k) \/ StoreFails(k)

WithPassword(k) ==
  \/ RegisterEmail(k) \/ CreateUser(k) \/ ResendVerification(k) \/ RequestPasswordReset(k)
  \/ VerifyEmail(k) \/ ConfirmPasswordReset(k) \/ ChangePassword(k) \/ StorePassword(k)

WithProvider(k) ==
  \/ ExternalAuthURL(k) \/ ExternalCallback(k) \/ ExchangeIdentity(k)
  \/ CreateExternalUser(k)

AccountsNext == TimePasses \/ \E k \in Asks : Sends(k) \/ WithPassword(k) \/ WithProvider(k)

AccountsSpec == AccountsInit /\ [][AccountsNext]_accountsVars
==============================================================================
