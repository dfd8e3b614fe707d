---------------------------- MODULE AccountProofs ----------------------------
(***************************************************************************)
(* The accounts of the Cloud, for any number of requests and passwords:    *)
(* types, one live code of a purpose, and codes and states that let one    *)
(* call through.                                                           *)
(*                                                                         *)
(* CodesWorkOnce is not inductive: that a code which is spent was not      *)
(* spent before needs that wins counts exactly what codes and states say   *)
(* (Counts), and this that a number belongs to one code or to one state,   *)
(* of a request that is over (Owners).                                     *)
(***************************************************************************)
EXTENDS AccountProperties, TLAPS, SequenceTheorems

Code == [of : Asks, purpose : Purposes, age : {"new", "old", "expired"},
         state : {"live", "used", "void"}]
Ask == [at : {"idle", "creating", "asking", "sending", "mailed", "unmailed", "changing",
              "exchanging", "joining", "answered"},
        purpose : Purposes \cup {"none"}, given : Passwords \cup {NoPassword}]

\* What a request knows where it is.
Place(k) ==
  /\ ask[k].at \in {"creating", "changing"} => ask[k].given \in Passwords
  /\ ask[k].at \in {"creating", "asking", "sending", "mailed", "unmailed"} =>
        ask[k].purpose \in Purposes
  /\ ask[k].at \in {"asking", "sending", "mailed", "unmailed"} => status # "absent"
  /\ ask[k].at = "mailed" => k \in mailbox
Places == \A k \in Asks : Place(k)

\* A number belongs to one code or to one state, of a request that was answered.
Owners ==
  /\ \A i \in DOMAIN codes :
        ask[codes[i].of].at = "answered" /\ states[codes[i].of] = "none"
  /\ \A i, j \in DOMAIN codes : codes[i].of = codes[j].of => i = j
  /\ \A k \in Asks : states[k] # "none" => ask[k].at = "answered"

\* The calls let through are those that used the code or the state.
Counts ==
  /\ \A i \in DOMAIN codes : wins[codes[i].of] = IF codes[i].state = "used" THEN 1 ELSE 0
  /\ \A k \in Asks : states[k] # "none" => wins[k] = IF states[k] = "used" THEN 1 ELSE 0
  /\ \A k \in Asks : states[k] = "none" /\ (\A i \in DOMAIN codes : codes[i].of # k) =>
        wins[k] = 0

\* Codes are of an account, and who is enabled was verified.
Verified ==
  /\ status = "absent" => DOMAIN codes = {}
  /\ status = "enabled" =>
       \E i \in DOMAIN codes : /\ codes[i].purpose = "email_verification"
                               /\ codes[i].state = "used" /\ codes[i].of \in mailbox

\* The inductive invariant.
AccountInv ==
  AccountTypeOK /\ Places /\ Owners /\ Counts /\ LiveCodeIsLatest /\ Verified

LEMMA CodesTyped ==
  ASSUME AccountTypeOK
  PROVE  /\ codes \in Seq(Code) /\ Len(codes) \in Nat /\ DOMAIN codes = 1 .. Len(codes)
         /\ \A i \in DOMAIN codes : codes[i] \in Code
<1>1. codes \in Seq(Code)
  BY DEF AccountTypeOK, Code
<1>2. Len(codes) \in Nat /\ DOMAIN codes = 1 .. Len(codes)
  BY <1>1, LenProperties
<1>. QED BY <1>1, <1>2, ElementOfSeq

-----------------------------------------------------------------------------
(* Steps that leave codes, states and their uses alone *)

\* One request goes on from a place before its end.
LEMMA RequestGoesOn ==
  ASSUME AccountInv, NEW k \in Asks, ask[k].at # "answered",
         ask' \in [Asks -> Ask], \A j \in Asks : j # k => ask'[j] = ask[j],
         Place(k)',
         status' \in {"absent", "pending", "enabled"},
         password' \in Passwords \cup {NoPassword},
         status' # "absent" => password' # NoPassword,
         status' = "enabled" => status = "enabled",
         status' = "absent" => status = "absent",
         external' \in BOOLEAN, mailbox \subseteq mailbox', mailbox' \subseteq Asks,
         UNCHANGED <<codes, states, wins, ages>>
  PROVE  AccountInv'
<1>. USE DEF AccountInv
<1>1. AccountTypeOK'
  BY DEF AccountTypeOK, Ask
<1>2. Places'
  <2>. SUFFICES ASSUME NEW j \in Asks PROVE Place(j)'
    BY DEF Places
  <2>1. CASE j = k
    BY <2>1
  <2>2. CASE j # k
    <3>1. ask'[j] = ask[j] /\ Place(j)
      BY <2>2 DEF Places
    <3>. QED BY <3>1 DEF Place
  <2>. QED BY <2>1, <2>2
<1>3. \A j \in Asks : ask[j].at = "answered" => ask'[j].at = "answered"
  OBVIOUS
<1>4. \A i \in DOMAIN codes : codes[i] \in Code
  BY CodesTyped
<1>5. Owners'
  BY <1>3, <1>4 DEF Owners, Code
<1>6. Counts'
  BY DEF Counts
<1>7. LiveCodeIsLatest'
  BY DEF LiveCodeIsLatest, Latest
<1>8. Verified'
  BY DEF Verified
<1>. QED BY <1>1, <1>2, <1>5, <1>6, <1>7, <1>8

\* Where a request may go.
LEMMA AskTyped ==
  ASSUME AccountTypeOK, NEW k \in Asks
  PROVE  /\ \A p \in {"asking", "sending", "mailed", "unmailed", "changing", "exchanging",
                      "joining"} :
              Moves(k, p) => /\ ask' \in [Asks -> Ask] /\ ask'[k] = [ask[k] EXCEPT !.at = p]
                             /\ \A j \in Asks : j # k => ask'[j] = ask[j]
         /\ Answered(k) => /\ ask' \in [Asks -> Ask] /\ ask'[k].at = "answered"
                           /\ \A j \in Asks : j # k => ask'[j] = ask[j]
         /\ \A p \in Purposes :
              Wants(k, p) => /\ ask' \in [Asks -> Ask]
                             /\ ask'[k] = [ask[k] EXCEPT !.at = "asking", !.purpose = p]
                             /\ \A j \in Asks : j # k => ask'[j] = ask[j]
<1>. USE DEF AccountTypeOK, Ask
<1>1. ASSUME NEW p \in {"asking", "sending", "mailed", "unmailed", "changing", "exchanging",
                        "joining"}, Moves(k, p)
      PROVE  /\ ask' \in [Asks -> Ask] /\ ask'[k] = [ask[k] EXCEPT !.at = p]
             /\ \A j \in Asks : j # k => ask'[j] = ask[j]
  BY <1>1 DEF Moves
<1>2. ASSUME Answered(k)
      PROVE  /\ ask' \in [Asks -> Ask] /\ ask'[k].at = "answered"
             /\ \A j \in Asks : j # k => ask'[j] = ask[j]
  BY <1>2 DEF Answered, Nothing
<1>3. ASSUME NEW p \in Purposes, Wants(k, p)
      PROVE  /\ ask' \in [Asks -> Ask]
             /\ ask'[k] = [ask[k] EXCEPT !.at = "asking", !.purpose = p]
             /\ \A j \in Asks : j # k => ask'[j] = ask[j]
  <2>. DEFINE a == [ask[k] EXCEPT !.at = "asking", !.purpose = p]
  <2>1. ask \in [Asks -> Ask] /\ ask[k] \in Ask
    OBVIOUS
  <2>2. a \in Ask
    BY <2>1
  <2>3. ask' = [ask EXCEPT ![k] = a]
    BY <1>3 DEF Wants
  <2>. HIDE DEF a, Ask, AccountTypeOK
  <2>4. /\ ask' \in [Asks -> Ask] /\ ask'[k] = a
        /\ \A j \in Asks : j # k => ask'[j] = ask[j]
    BY <2>1, <2>2, <2>3
  <2>. QED BY <2>4 DEF a
<1>. QED BY <1>1, <1>2, <1>3

LEMMA PasswordRequests ==
  ASSUME AccountInv, NEW k \in Asks,
         \/ RegisterEmail(k) \/ CreateUser(k) \/ ResendVerification(k)
         \/ RequestPasswordReset(k) \/ ChangePassword(k) \/ StorePassword(k)
  PROVE  AccountInv'
<1>. USE DEF account, oauth, Place
<1>1. /\ AccountTypeOK /\ Place(k) /\ Passwords \subseteq Passwords \cup {NoPassword}
      /\ NoPassword \notin Passwords
  BY AccountsAssumption DEF AccountInv, Places
<1>2. CASE RegisterEmail(k)
  <2>1. /\ ask[k].at # "answered" /\ ask' \in [Asks -> Ask] /\ Place(k)'
        /\ \A j \in Asks : j # k => ask'[j] = ask[j]
    BY <1>1, <1>2 DEF RegisterEmail, Idle, AccountTypeOK, Ask, Purposes
  <2>. QED BY <1>1, <1>2, <2>1, RequestGoesOn DEF RegisterEmail, AccountTypeOK
<1>3. CASE CreateUser(k)
  <2>1. CASE status = "absent" /\ UserAndIdentity(k) /\ Moves(k, "asking")
    <3>1. /\ ask' \in [Asks -> Ask] /\ ask'[k] = [ask[k] EXCEPT !.at = "asking"]
          /\ \A j \in Asks : j # k => ask'[j] = ask[j]
      BY <1>1, <2>1, AskTyped
    <3>2. ask[k].at = "creating" /\ Place(k)' /\ password' \in Passwords
      BY <1>1, <1>3, <2>1, <3>1 DEF CreateUser, UserAndIdentity, AccountTypeOK
    <3>. QED
      BY <1>1, <1>3, <2>1, <3>1, <3>2, RequestGoesOn
         DEF CreateUser, UserAndIdentity, AccountTypeOK
  <2>2. CASE Answered(k) /\ UNCHANGED account
    BY <1>1, <1>3, <2>2, AskTyped, RequestGoesOn DEF CreateUser, AccountTypeOK
  <2>. QED BY <1>3, <2>1, <2>2 DEF CreateUser
<1>4. ASSUME NEW p \in Purposes, Idle(k), Wants(k, p), status # "absent",
             UNCHANGED <<account, codes, mailbox, oauth, ages, wins>>
      PROVE  AccountInv'
  <2>1. /\ ask' \in [Asks -> Ask]
        /\ ask'[k] = [ask[k] EXCEPT !.at = "asking", !.purpose = p]
        /\ \A j \in Asks : j # k => ask'[j] = ask[j]
    BY <1>1, <1>4, AskTyped
  <2>2. Place(k)' /\ ask[k].at = "idle"
    BY <1>1, <1>4, <2>1 DEF Idle, AccountTypeOK
  <2>. QED BY <1>1, <1>4, <2>1, <2>2, RequestGoesOn DEF AccountTypeOK
<1>5. CASE ResendVerification(k) \/ RequestPasswordReset(k)
  BY <1>4, <1>5 DEF ResendVerification, RequestPasswordReset, Purposes
<1>6. CASE ChangePassword(k)
  <2>1. PICK p \in Passwords : ask' = [ask EXCEPT ![k].at = "changing", ![k].given = p]
    BY <1>6 DEF ChangePassword
  <2>. DEFINE a == [ask[k] EXCEPT !.at = "changing", !.given = p]
  <2>2. ask[k].at = "idle" /\ ask \in [Asks -> Ask] /\ a \in Ask
    <3>1. ask[k].at = "idle" /\ ask \in [Asks -> Ask]
      BY <1>1, <1>6 DEF ChangePassword, Idle, AccountTypeOK, Ask
    <3>. QED BY <3>1 DEF Ask
  <2>3. ask'[k] = a /\ ask' \in [Asks -> Ask] /\ \A j \in Asks : j # k => ask'[j] = ask[j]
    <3>1. ask' = [ask EXCEPT ![k] = a]
      BY <2>1
    <3>. HIDE DEF a
    <3>. QED BY <2>2, <3>1
  <2>4. Place(k)'
    <3>1. a.at = "changing" /\ a.given \in Passwords
      BY <2>2 DEF Ask
    <3>. QED BY <2>3, <3>1
  <2>. QED BY <1>1, <1>6, <2>2, <2>3, <2>4, RequestGoesOn DEF ChangePassword, AccountTypeOK
<1>7. CASE StorePassword(k)
  <2>1. ask[k].at = "changing" /\ password' \in Passwords
    BY <1>1, <1>7 DEF StorePassword
  <2>. QED BY <1>1, <1>7, <2>1, AskTyped, RequestGoesOn DEF StorePassword, AccountTypeOK
<1>. QED BY <1>2, <1>3, <1>5, <1>6, <1>7

LEMMA SendingRequests ==
  ASSUME AccountInv, NEW k \in Asks,
         \/ SendBegin(k) \/ SendMail(k) \/ StoreFails(k)
         \/ ExchangeIdentity(k) \/ CreateExternalUser(k)
  PROVE  AccountInv'
<1>. USE DEF account, oauth, Place
<1>1. AccountTypeOK /\ Place(k)
  BY DEF AccountInv, Places
<1>2. ASSUME NEW p \in {"sending", "mailed", "unmailed", "joining"}, Moves(k, p),
             ask[k].at \in {"asking", "sending", "exchanging"},
             p # "joining" => ask[k].at # "exchanging",
             p = "mailed" => k \in mailbox',
             mailbox' \in {mailbox, mailbox \cup {k}},
             UNCHANGED <<account, codes, oauth, ages, wins>>
      PROVE  AccountInv'
  <2>1. /\ ask' \in [Asks -> Ask] /\ ask'[k] = [ask[k] EXCEPT !.at = p]
        /\ \A j \in Asks : j # k => ask'[j] = ask[j]
    BY <1>1, <1>2, AskTyped
  <2>2. Place(k)' /\ mailbox \subseteq mailbox' /\ mailbox' \subseteq Asks
    <3>1. p # "joining" => ask[k].purpose \in Purposes /\ status # "absent"
      BY <1>1, <1>2
    <3>2. /\ ask'[k].at = p /\ ask'[k].given = ask[k].given
          /\ ask'[k].purpose = ask[k].purpose
      BY <1>1, <2>1 DEF AccountTypeOK
    <3>. QED BY <1>1, <1>2, <3>1, <3>2 DEF AccountTypeOK
  <2>. QED BY <1>1, <1>2, <2>1, <2>2, RequestGoesOn DEF AccountTypeOK
<1>3. ASSUME Answered(k), ask[k].at # "answered", external' \in BOOLEAN,
             UNCHANGED <<account, codes, mailbox, states, ages, wins>>
      PROVE  AccountInv'
  BY <1>1, <1>3, AskTyped, RequestGoesOn DEF AccountTypeOK
<1>4. CASE SendBegin(k)
  BY <1>1, <1>2, <1>3, <1>4 DEF SendBegin, AccountTypeOK
<1>5. CASE SendMail(k)
  BY <1>1, <1>2, <1>5 DEF SendMail
<1>6. CASE StoreFails(k)
  BY <1>1, <1>3, <1>6 DEF StoreFails, AccountTypeOK
<1>7. CASE ExchangeIdentity(k)
  BY <1>1, <1>2, <1>3, <1>7 DEF ExchangeIdentity, AccountTypeOK
<1>8. CASE CreateExternalUser(k)
  BY <1>1, <1>3, <1>8 DEF CreateExternalUser
<1>. QED BY <1>4, <1>5, <1>6, <1>7, <1>8

-----------------------------------------------------------------------------
(* Codes *)

\* The codes after those of a purpose were voided.
LEMMA Voided ==
  ASSUME AccountTypeOK, NEW p \in Purposes
  PROVE  /\ VoidEarlier(p) \in Seq(Code) /\ Len(VoidEarlier(p)) = Len(codes)
         /\ \A i \in DOMAIN codes :
              /\ VoidEarlier(p)[i].of = codes[i].of
              /\ VoidEarlier(p)[i].purpose = codes[i].purpose
              /\ VoidEarlier(p)[i].state =
                   IF codes[i].purpose = p /\ codes[i].state = "live" THEN "void"
                   ELSE codes[i].state
<1>. DEFINE v == VoidEarlier(p)
<1>1. \A i \in DOMAIN codes : codes[i] \in Code
  BY CodesTyped
<1>2. \A i \in DOMAIN codes :
        /\ v[i] \in Code /\ v[i].of = codes[i].of /\ v[i].purpose = codes[i].purpose
        /\ v[i].state = IF codes[i].purpose = p /\ codes[i].state = "live" THEN "void"
                        ELSE codes[i].state
  BY <1>1 DEF VoidEarlier, Code
<1>3. v \in [1 .. Len(codes) -> Code] /\ Len(codes) \in Nat
  <2>1. v = [i \in 1 .. Len(codes) |-> v[i]]
    BY CodesTyped DEF VoidEarlier
  <2>. HIDE DEF v
  <2>. QED BY <1>2, <2>1, CodesTyped
<1>4. v \in Seq(Code) /\ Len(v) = Len(codes)
  <2>. HIDE DEF v
  <2>1. v \in Seq(Code)
    BY <1>3
  <2>. QED BY <1>3, <2>1, LenProperties
<1>. QED BY <1>2, <1>4

LEMMA CodeStored ==
  ASSUME AccountInv, NEW k \in Asks, StoreCode(k)
  PROVE  AccountInv'
<1>. USE DEF AccountInv, account, oauth
<1>. DEFINE p == ask[k].purpose
            v == VoidEarlier(p)
            n == Len(codes)
            c == [of |-> k, purpose |-> p, age |-> "new",
                  state |-> IF ask[k].at = "mailed" THEN "live" ELSE "void"]
<1>1. p \in Purposes /\ c \in Code /\ (ask[k].at = "mailed" => k \in mailbox)
  BY DEF StoreCode, Places, Place, Code
<1>2. /\ v \in Seq(Code) /\ Len(v) = n /\ n \in Nat /\ DOMAIN codes = 1 .. n
      /\ \A i \in 1 .. n :
           /\ v[i].of = codes[i].of /\ v[i].purpose = codes[i].purpose
           /\ v[i].state = IF codes[i].purpose = p /\ codes[i].state = "live" THEN "void"
                           ELSE codes[i].state
  <2>. HIDE DEF p
  <2>. QED BY <1>1, Voided, CodesTyped
<1>3. /\ codes' \in Seq(Code) /\ Len(codes') = n + 1
      /\ DOMAIN codes' = 1 .. n + 1 /\ codes'[n + 1] = c
      /\ \A i \in 1 .. n : codes'[i] = v[i]
  <2>1. codes' = Append(v, c)
    BY DEF StoreCode
  <2>. HIDE DEF v, c, n
  <2>2. /\ Append(v, c) \in Seq(Code) /\ Len(Append(v, c)) = n + 1
        /\ Append(v, c)[n + 1] = c /\ \A i \in 1 .. n : Append(v, c)[i] = v[i]
    BY <1>1, <1>2, AppendProperties
  <2>. QED BY <2>1, <2>2, LenProperties
<1>4. /\ Answered(k) /\ ask' \in [Asks -> Ask] /\ ask'[k].at = "answered"
      /\ \A j \in Asks : j # k => ask'[j] = ask[j]
  BY AskTyped DEF StoreCode
<1>5. ask[k].at \in {"mailed", "unmailed"} /\ states[k] = "none" /\ wins[k] = 0
      /\ \A i \in 1 .. n : codes[i].of # k
  BY <1>2 DEF StoreCode, Owners, Counts
<1>6. \A i \in 1 .. n : codes'[i].of = codes[i].of /\ codes[i].of \in Asks
  BY <1>2, <1>3, CodesTyped DEF Code
<1>7. AccountTypeOK'
  BY <1>3, <1>4 DEF StoreCode, AccountTypeOK, Code, Ask
<1>8. Places'
  BY <1>4 DEF StoreCode, Places, Place
<1>9. Owners'
  <2>. HIDE DEF v, n
  <2>1. \A i \in DOMAIN codes' : ask'[codes'[i].of].at = "answered" /\ states[codes'[i].of] = "none"
    BY <1>2, <1>3, <1>4, <1>5, <1>6 DEF Owners
  <2>2. \A i, j \in DOMAIN codes' : codes'[i].of = codes'[j].of => i = j
    BY <1>2, <1>3, <1>5, <1>6 DEF Owners
  <2>. QED BY <1>4, <2>1, <2>2 DEF StoreCode, Owners
<1>10. Counts'
  <2>. HIDE DEF v, n
  <2>1. \A i \in DOMAIN codes' : wins[codes'[i].of] = IF codes'[i].state = "used" THEN 1 ELSE 0
    BY <1>2, <1>3, <1>5, <1>6 DEF Counts
  <2>2. \A j \in Asks : (\A i \in DOMAIN codes' : codes'[i].of # j) =>
                          \A i \in DOMAIN codes : codes[i].of # j
    BY <1>2, <1>3, <1>6
  <2>. QED BY <2>1, <2>2 DEF StoreCode, Counts
<1>11. LiveCodeIsLatest'
  <2>. HIDE DEF v, n
  <2>. SUFFICES ASSUME NEW i \in 1 .. n + 1, codes'[i].state = "live"
                PROVE  /\ \A j \in 1 .. n + 1 : codes'[j].purpose = codes'[i].purpose => j <= i
                       /\ codes'[i].of \in mailbox'
    BY <1>3 DEF LiveCodeIsLatest, Latest
  <2>1. CASE i = n + 1
    BY <1>1, <1>2, <1>3, <2>1 DEF StoreCode
  <2>2. CASE i # n + 1
    <3>1. i \in 1 .. n /\ codes[i].state = "live" /\ codes[i].purpose # p
      BY <1>2, <1>3, <2>2
    <3>2. /\ \A j \in 1 .. n : codes[j].purpose = codes[i].purpose => j <= i
          /\ codes[i].of \in mailbox
      BY <1>2, <3>1 DEF LiveCodeIsLatest, Latest
    <3>3. codes'[i].purpose = codes[i].purpose /\ codes'[i].of = codes[i].of
      BY <1>2, <1>3, <3>1
    <3>4. ASSUME NEW j \in 1 .. n + 1, codes'[j].purpose = codes'[i].purpose PROVE j <= i
      <4>1. j # n + 1
        BY <1>3, <3>1, <3>3, <3>4
      <4>2. j \in 1 .. n /\ codes[j].purpose = codes[i].purpose
        BY <1>2, <1>3, <3>3, <3>4, <4>1
      <4>. QED BY <3>2, <4>2
    <3>. QED BY <3>2, <3>3, <3>4 DEF StoreCode
  <2>. QED BY <2>1, <2>2
<1>12. Verified'
  <2>. HIDE DEF v, n
  <2>. SUFFICES ASSUME status = "enabled"
                PROVE  \E i \in DOMAIN codes' : /\ codes'[i].purpose = "email_verification"
                                                /\ codes'[i].state = "used"
                                                /\ codes'[i].of \in mailbox'
    BY DEF StoreCode, Verified, Places, Place
  <2>1. PICK i \in 1 .. n : /\ codes[i].purpose = "email_verification"
                            /\ codes[i].state = "used" /\ codes[i].of \in mailbox
    BY <1>2 DEF Verified
  <2>2. /\ codes'[i].purpose = "email_verification" /\ codes'[i].state = "used"
        /\ codes'[i].of \in mailbox' /\ i \in DOMAIN codes'
    <3>1. codes'[i] = v[i] /\ i \in DOMAIN codes' /\ mailbox' = mailbox
      BY <1>2, <1>3 DEF StoreCode
    <3>2. v[i].purpose = codes[i].purpose /\ v[i].of = codes[i].of /\ v[i].state = "used"
      BY <1>2, <2>1
    <3>. QED BY <2>1, <3>1, <3>2
  <2>. QED BY <2>2
<1>. QED BY <1>7, <1>8, <1>9, <1>10, <1>11, <1>12

\* A code that is spent in a transaction was not spent before.
LEMMA CodeSpent ==
  ASSUME AccountInv, NEW k \in Asks, Idle(k), Answered(k),
         NEW purpose \in Purposes, NEW code \in mailbox, NEW i \in Accepted(purpose, code),
         Spend(i, code),
         status' \in {"absent", "pending", "enabled"},
         status' = "enabled" => status = "enabled" \/ purpose = "email_verification",
         status' = "absent" => status = "absent",
         password' \in Passwords \cup {password},
         UNCHANGED <<mailbox, oauth, ages>>
  PROVE  AccountInv'
<1>. USE DEF AccountInv, oauth
<1>. DEFINE n == Len(codes)
            c == [codes[i] EXCEPT !.state = "used"]
<1>1. /\ codes \in Seq(Code) /\ n \in Nat /\ DOMAIN codes = 1 .. n /\ i \in 1 .. n
      /\ \A j \in 1 .. n : codes[j] \in Code
      /\ codes[i].of = code /\ codes[i].state = "live" /\ codes[i].purpose = purpose
  BY CodesTyped DEF Accepted, Latest
<1>2. c \in Code /\ c.of = code /\ c.purpose = purpose /\ c.state = "used"
  BY <1>1 DEF Code
<1>3. /\ codes' \in Seq(Code) /\ Len(codes') = n /\ DOMAIN codes' = 1 .. n
      /\ \A j \in 1 .. n : codes'[j] = IF j = i THEN c ELSE codes[j]
  <2>1. codes' = [codes EXCEPT ![i] = c]
    BY DEF Spend
  <2>. HIDE DEF c, n
  <2>2. /\ [codes EXCEPT ![i] = c] \in Seq(Code) /\ Len([codes EXCEPT ![i] = c]) = n
        /\ \A j \in 1 .. n : [codes EXCEPT ![i] = c][j] = IF j = i THEN c ELSE codes[j]
    BY <1>1, <1>2, ExceptSeq DEF n
  <2>. QED BY <2>1, <2>2, LenProperties
<1>4. /\ ask' \in [Asks -> Ask] /\ ask'[k].at = "answered" /\ ask[k].at = "idle"
      /\ \A j \in Asks : j # k => ask'[j] = ask[j]
  BY AskTyped DEF Idle
<1>5. code \in Asks /\ wins[code] = 0 /\ states[code] = "none"
  BY <1>1 DEF AccountTypeOK, Counts, Owners
<1>6. wins' \in [Asks -> Nat] /\ wins'[code] = 1 /\ \A j \in Asks : j # code => wins'[j] = wins[j]
  BY <1>5 DEF Spend, AccountTypeOK
<1>7. AccountTypeOK'
  <2>1. status # "absent"
    BY <1>1 DEF Verified
  <2>2. password' \in Passwords \cup {NoPassword} /\ password' # NoPassword
    BY <2>1, AccountsAssumption DEF AccountTypeOK
  <2>. QED BY <1>3, <1>4, <1>6, <2>2 DEF AccountTypeOK, Code, Ask
<1>8. Places'
  <2>. SUFFICES ASSUME NEW j \in Asks PROVE Place(j)'
    BY DEF Places
  <2>1. CASE j = k
    BY <1>4, <2>1 DEF Place
  <2>2. CASE j # k
    <3>1. ask'[j] = ask[j] /\ Place(j)
      BY <1>4, <2>2 DEF Places
    <3>. QED BY <3>1 DEF Place
  <2>. QED BY <2>1, <2>2
<1>. HIDE DEF c, n
<1>9. \A j \in 1 .. n : codes'[j].of = codes[j].of /\ codes'[j].purpose = codes[j].purpose
                         /\ codes[j].of \in Asks
  BY <1>1, <1>2, <1>3 DEF Code
<1>10. Owners'
  <2>1. \A j \in Asks : ask[j].at = "answered" => ask'[j].at = "answered"
    BY <1>4
  <2>. QED BY <1>1, <1>3, <1>9, <2>1 DEF Owners
<1>11. Counts'
  <2>1. \A j \in 1 .. n : j # i => codes[j].of # code
    BY <1>1 DEF Owners
  <2>2. ASSUME NEW j \in 1 .. n
        PROVE  wins'[codes'[j].of] = IF codes'[j].state = "used" THEN 1 ELSE 0
    <3>1. CASE j = i
      BY <1>2, <1>3, <1>6, <3>1
    <3>2. CASE j # i
      <4>1. codes'[j] = codes[j] /\ wins'[codes[j].of] = wins[codes[j].of]
        BY <1>3, <1>6, <1>9, <2>1, <3>2
      <4>2. wins[codes[j].of] = IF codes[j].state = "used" THEN 1 ELSE 0
        BY <1>1 DEF Counts
      <4>. QED BY <4>1, <4>2
    <3>. QED BY <3>1, <3>2
  <2>3. \A j \in Asks : states[j] # "none" => j # code
    BY <1>5
  <2>4. \A j \in Asks : states'[j] # "none" =>
                          wins'[j] = IF states'[j] = "used" THEN 1 ELSE 0
    BY <1>6, <2>3 DEF Counts
  <2>5. ASSUME NEW j \in Asks, states'[j] = "none", \A m \in 1 .. n : codes'[m].of # j
        PROVE  wins'[j] = 0
    <3>1. j # code /\ \A m \in 1 .. n : codes[m].of # j
      BY <1>1, <1>9, <2>5
    <3>. QED BY <1>1, <1>6, <2>5, <3>1 DEF Counts
  <2>. QED BY <1>3, <2>2, <2>4, <2>5 DEF Counts
<1>12. LiveCodeIsLatest'
  <2>. SUFFICES ASSUME NEW j \in 1 .. n, codes'[j].state = "live"
                PROVE  /\ \A m \in 1 .. n : codes'[m].purpose = codes'[j].purpose => m <= j
                       /\ codes'[j].of \in mailbox'
    BY <1>3 DEF LiveCodeIsLatest, Latest
  <2>1. codes[j].state = "live"
    BY <1>2, <1>3
  <2>2. /\ \A m \in 1 .. n : codes[m].purpose = codes[j].purpose => m <= j
        /\ codes[j].of \in mailbox
    BY <1>1, <2>1 DEF LiveCodeIsLatest, Latest
  <2>. QED BY <1>9, <2>2
<1>13. Verified'
  <2>. SUFFICES ASSUME status' = "enabled"
                PROVE  \E j \in 1 .. n : /\ codes'[j].purpose = "email_verification"
                                         /\ codes'[j].state = "used"
                                         /\ codes'[j].of \in mailbox
    BY <1>1, <1>3 DEF Verified
  <2>1. CASE purpose = "email_verification"
    BY <1>1, <1>2, <1>3, <2>1
  <2>2. CASE status = "enabled"
    <3>1. PICK j \in 1 .. n : /\ codes[j].purpose = "email_verification"
                              /\ codes[j].state = "used" /\ codes[j].of \in mailbox
      BY <1>1, <2>2 DEF Verified
    <3>2. j # i
      BY <1>1, <3>1
    <3>. QED BY <1>3, <3>1, <3>2
  <2>. QED BY <2>1, <2>2
<1>. QED BY <1>7, <1>8, <1>10, <1>11, <1>12, <1>13

LEMMA CodeRequests ==
  ASSUME AccountInv, NEW k \in Asks, VerifyEmail(k) \/ ConfirmPasswordReset(k)
  PROVE  AccountInv'
<1>1. AccountTypeOK
  BY DEF AccountInv
<1>2. CASE VerifyEmail(k)
  <2>1. PICK code \in mailbox : \E i \in Accepted("email_verification", code) : Spend(i, code)
    BY <1>2 DEF VerifyEmail
  <2>2. PICK i \in Accepted("email_verification", code) : Spend(i, code)
    BY <2>1
  <2>3. "email_verification" \in Purposes /\ status' = "enabled" /\ password' = password
    BY <1>2 DEF VerifyEmail, Purposes
  <2>. QED BY <1>2, <2>2, <2>3, CodeSpent DEF VerifyEmail
<1>3. CASE ConfirmPasswordReset(k)
  <2>1. PICK code \in mailbox : \E i \in Accepted("password_reset", code) : Spend(i, code)
    BY <1>3 DEF ConfirmPasswordReset
  <2>2. PICK i \in Accepted("password_reset", code) : Spend(i, code)
    BY <2>1
  <2>3. "password_reset" \in Purposes /\ status' = status /\ password' \in Passwords
    BY <1>3 DEF ConfirmPasswordReset, Purposes
  <2>. QED BY <1>1, <1>3, <2>2, <2>3, CodeSpent DEF ConfirmPasswordReset, AccountTypeOK
<1>. QED BY <1>2, <1>3

-----------------------------------------------------------------------------
(* States, and the clock *)

LEMMA StateOpened ==
  ASSUME AccountInv, NEW k \in Asks, ExternalAuthURL(k)
  PROVE  AccountInv'
<1>. USE DEF AccountInv, account
<1>1. /\ ask' \in [Asks -> Ask] /\ ask'[k].at = "answered" /\ ask[k].at = "idle"
      /\ \A j \in Asks : j # k => ask'[j] = ask[j]
  BY AskTyped DEF ExternalAuthURL, Idle
<1>2. /\ states' \in [Asks -> {"none", "open", "used", "expired"}] /\ states'[k] = "open"
      /\ \A j \in Asks : j # k => states'[j] = states[j]
  BY DEF ExternalAuthURL, AccountTypeOK
<1>3. /\ \A i \in DOMAIN codes : codes[i].of # k /\ codes[i].of \in Asks
      /\ states[k] = "none" /\ wins[k] = 0
  BY <1>1, CodesTyped DEF Owners, Counts, Code
<1>4. AccountTypeOK'
  BY <1>1, <1>2 DEF ExternalAuthURL, AccountTypeOK, Ask
<1>5. Places'
  <2>. SUFFICES ASSUME NEW j \in Asks PROVE Place(j)'
    BY DEF Places
  <2>1. CASE j = k
    BY <1>1, <2>1 DEF Place
  <2>2. CASE j # k
    <3>1. ask'[j] = ask[j] /\ Place(j)
      BY <1>1, <2>2 DEF Places
    <3>. QED BY <3>1 DEF Place, ExternalAuthURL
  <2>. QED BY <2>1, <2>2
<1>6. Owners'
  BY <1>1, <1>2, <1>3 DEF Owners, ExternalAuthURL
<1>7. Counts'
  BY <1>2, <1>3 DEF Counts, ExternalAuthURL
<1>8. LiveCodeIsLatest' /\ Verified'
  BY DEF ExternalAuthURL, LiveCodeIsLatest, Latest, Verified
<1>. QED BY <1>4, <1>5, <1>6, <1>7, <1>8

\* A state that a callback uses was not used before.
LEMMA StateUsed ==
  ASSUME AccountInv, NEW k \in Asks, ExternalCallback(k)
  PROVE  AccountInv'
<1>. USE DEF AccountInv, account
<1>1. PICK s \in Asks : /\ states[s] = "open" /\ states' = [states EXCEPT ![s] = "used"]
                        /\ wins' = [wins EXCEPT ![s] = @ + 1]
  BY DEF ExternalCallback
<1>2. /\ ask' \in [Asks -> Ask] /\ ask'[k] = [ask[k] EXCEPT !.at = "exchanging"]
      /\ ask[k].at = "idle" /\ \A j \in Asks : j # k => ask'[j] = ask[j]
  BY AskTyped DEF ExternalCallback, Idle
<1>3. /\ states' \in [Asks -> {"none", "open", "used", "expired"}] /\ states'[s] = "used"
      /\ \A j \in Asks : j # s => states'[j] = states[j]
  BY <1>1 DEF AccountTypeOK
<1>4. wins[s] = 0 /\ s # k /\ \A i \in DOMAIN codes : codes[i].of # s /\ codes[i].of \in Asks
  BY <1>1, <1>2, CodesTyped DEF Owners, Counts, Code
<1>5. wins' \in [Asks -> Nat] /\ wins'[s] = 1 /\ \A j \in Asks : j # s => wins'[j] = wins[j]
  BY <1>1, <1>4 DEF AccountTypeOK
<1>6. ask'[k].at = "exchanging"
  BY <1>2 DEF AccountTypeOK
<1>7. AccountTypeOK'
  BY <1>2, <1>3, <1>5 DEF ExternalCallback, AccountTypeOK, Ask
<1>8. Places'
  <2>. SUFFICES ASSUME NEW j \in Asks PROVE Place(j)'
    BY DEF Places
  <2>1. CASE j = k
    BY <1>6, <2>1 DEF Place
  <2>2. CASE j # k
    <3>1. ask'[j] = ask[j] /\ Place(j)
      BY <1>2, <2>2 DEF Places
    <3>. QED BY <3>1 DEF Place, ExternalCallback
  <2>. QED BY <2>1, <2>2
<1>9. Owners'
  <2>1. \A j \in Asks : ask[j].at = "answered" => ask'[j].at = "answered"
    BY <1>2
  <2>2. \A j \in Asks : states'[j] # "none" => states[j] # "none"
    BY <1>1, <1>3
  <2>. QED BY <1>3, <1>4, <2>1, <2>2 DEF Owners, ExternalCallback
<1>10. Counts'
  BY <1>3, <1>4, <1>5 DEF Counts, ExternalCallback
<1>11. LiveCodeIsLatest' /\ Verified'
  BY DEF ExternalCallback, LiveCodeIsLatest, Latest, Verified
<1>. QED BY <1>7, <1>8, <1>9, <1>10, <1>11

LEMMA TimePassed ==
  ASSUME AccountInv, TimePasses
  PROVE  AccountInv'
<1>. USE DEF AccountInv, account
<1>1. Places'
  <2>. SUFFICES ASSUME NEW j \in Asks PROVE Place(j)'
    BY DEF Places
  <2>1. ask'[j] = ask[j] /\ Place(j)
    BY DEF Places, TimePasses
  <2>. QED BY <2>1 DEF Place, TimePasses
<1>2. ASSUME NEW k \in Asks, states[k] = "open", states' = [states EXCEPT ![k] = "expired"],
             UNCHANGED codes
      PROVE  AccountInv'
  <2>1. /\ states' \in [Asks -> {"none", "open", "used", "expired"}] /\ states'[k] = "expired"
        /\ \A j \in Asks : j # k => states'[j] = states[j]
    BY <1>2 DEF AccountTypeOK
  <2>2. AccountTypeOK'
    BY <1>2, <2>1 DEF TimePasses, AccountTypeOK
  <2>3. \A i \in DOMAIN codes : codes[i].of # k /\ codes[i].of \in Asks
    BY <1>2, CodesTyped DEF Owners, Code
  <2>4. Owners' /\ Counts'
    BY <1>2, <2>1, <2>3 DEF TimePasses, Owners, Counts
  <2>5. LiveCodeIsLatest' /\ Verified'
    BY <1>2 DEF TimePasses, LiveCodeIsLatest, Latest, Verified
  <2>. QED BY <1>1, <2>2, <2>4, <2>5
<1>3. ASSUME NEW i \in DOMAIN codes, codes[i].state = "live", UNCHANGED states,
             codes' = [codes EXCEPT ![i].age = IF @ = "new" THEN "old" ELSE "expired"]
      PROVE  AccountInv'
  <2>. DEFINE n == Len(codes)
              c == [codes[i] EXCEPT !.age = IF @ = "new" THEN "old" ELSE "expired"]
  <2>1. /\ codes \in Seq(Code) /\ n \in Nat /\ DOMAIN codes = 1 .. n /\ i \in 1 .. n
        /\ \A j \in 1 .. n : codes[j] \in Code
    BY CodesTyped, <1>3
  <2>2. /\ c \in Code /\ c.of = codes[i].of /\ c.purpose = codes[i].purpose
        /\ c.state = codes[i].state
    BY <2>1 DEF Code
  <2>3. /\ codes' \in Seq(Code) /\ Len(codes') = n /\ DOMAIN codes' = 1 .. n
        /\ \A j \in 1 .. n : codes'[j] = IF j = i THEN c ELSE codes[j]
    <3>1. codes' = [codes EXCEPT ![i] = c]
      BY <1>3
    <3>. HIDE DEF c, n
    <3>2. /\ [codes EXCEPT ![i] = c] \in Seq(Code) /\ Len([codes EXCEPT ![i] = c]) = n
          /\ \A j \in 1 .. n : [codes EXCEPT ![i] = c][j] = IF j = i THEN c ELSE codes[j]
      BY <2>1, <2>2, ExceptSeq DEF n
    <3>. QED BY <3>1, <3>2, LenProperties
  <2>. HIDE DEF c, n
  <2>4. /\ DOMAIN codes' = DOMAIN codes
        /\ \A j \in DOMAIN codes : /\ codes'[j].of = codes[j].of
                                   /\ codes'[j].purpose = codes[j].purpose
                                   /\ codes'[j].state = codes[j].state
    BY <2>1, <2>2, <2>3
  <2>5. AccountTypeOK'
    BY <1>3, <2>3 DEF TimePasses, AccountTypeOK, Code
  <2>6. Owners'
    BY <1>3, <2>4 DEF TimePasses, Owners
  <2>7. Counts'
    BY <1>3, <2>4 DEF TimePasses, Counts
  <2>8. LiveCodeIsLatest'
    BY <2>4 DEF TimePasses, LiveCodeIsLatest, Latest
  <2>9. Verified'
    BY <2>4 DEF TimePasses, Verified
  <2>. QED BY <1>1, <2>5, <2>6, <2>7, <2>8, <2>9
<1>. QED BY <1>2, <1>3 DEF TimePasses

-----------------------------------------------------------------------------

LEMMA AccountInvInit == AccountsInit => AccountInv
<1>. SUFFICES ASSUME AccountsInit PROVE AccountInv
  OBVIOUS
<1>1. codes = <<>> /\ DOMAIN codes = {} /\ codes \in Seq(Code)
  BY EmptySeq DEF AccountsInit
<1>2. AccountTypeOK
  BY <1>1 DEF AccountsInit, AccountTypeOK, Code, Ask, Nothing
<1>3. Places /\ Owners /\ Counts /\ LiveCodeIsLatest /\ Verified
  BY <1>1 DEF AccountsInit, Places, Place, Owners, Counts, LiveCodeIsLatest, Verified, Nothing
<1>. QED BY <1>2, <1>3 DEF AccountInv

LEMMA AccountInvStep == AccountInv /\ [AccountsNext]_accountsVars => AccountInv'
<1>. SUFFICES ASSUME AccountInv, [AccountsNext]_accountsVars PROVE AccountInv'
  OBVIOUS
<1>1. CASE TimePasses
  BY <1>1, TimePassed
<1>2. ASSUME NEW k \in Asks, Sends(k) PROVE AccountInv'
  BY <1>2, SendingRequests, CodeStored DEF Sends
<1>3. ASSUME NEW k \in Asks, WithPassword(k) PROVE AccountInv'
  BY <1>3, PasswordRequests, CodeRequests DEF WithPassword
<1>4. ASSUME NEW k \in Asks, WithProvider(k) PROVE AccountInv'
  BY <1>4, SendingRequests, StateOpened, StateUsed DEF WithProvider
<1>5. CASE UNCHANGED accountsVars
  <2>. USE <1>5 DEF accountsVars, AccountInv
  <2>1. AccountTypeOK'
    BY DEF AccountTypeOK
  <2>2. Places' /\ Owners' /\ Counts'
    BY DEF Places, Place, Owners, Counts
  <2>3. LiveCodeIsLatest' /\ Verified'
    BY DEF LiveCodeIsLatest, Latest, Verified
  <2>. QED BY <2>1, <2>2, <2>3
<1>. QED BY <1>1, <1>2, <1>3, <1>4, <1>5 DEF AccountsNext

(* The inductive invariant holds of every state the accounts can be in.      *)
THEOREM AccountInvariant == AccountsSpec => []AccountInv
  BY AccountInvInit, AccountInvStep, PTL DEF AccountsSpec

(* Every variable keeps its type, and an account that exists has a password  *)
(* (CreateEmailUser stores the user and its identity in one transaction).    *)
THEOREM AccountTypes == AccountsSpec => []AccountTypeOK
<1>1. AccountInv => AccountTypeOK
  BY DEF AccountInv
<1>. QED BY <1>1, AccountInvariant, PTL

(* Of a purpose one code at most can be used, the latest, and it was mailed, *)
(* however many requests pass the cooldown together (sendCode, createCode).  *)
THEOREM LiveCodesAreLatest == AccountsSpec => []LiveCodeIsLatest
<1>1. AccountInv => LiveCodeIsLatest
  BY DEF AccountInv
<1>. QED BY <1>1, AccountInvariant, PTL

(* A code and a state let one call through at most, and who is enabled had   *)
(* a code that was mailed (markCodeUsed, UseOAuthState).                     *)
THEOREM CodesWorkOnceOnly == AccountsSpec => []CodesWorkOnce
<1>1. ASSUME AccountInv PROVE CodesWorkOnce
  <2>. USE <1>1 DEF AccountInv
  <2>1. \A k \in Asks : wins[k] <= 1
    BY DEF Counts
  <2>2. \A i \in DOMAIN codes : codes[i].state = "used" <=> wins[codes[i].of] = 1
    BY DEF Counts
  <2>. QED BY <2>1, <2>2 DEF CodesWorkOnce, Verified
<1>. QED BY <1>1, AccountInvariant, PTL
==============================================================================
