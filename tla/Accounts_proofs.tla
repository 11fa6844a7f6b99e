--------------------------- MODULE Accounts_proofs --------------------------
(***************************************************************************)
(* The account of a user: the signup by a code, the password and its       *)
(* links, and the phone numbers.                                           *)
(***************************************************************************)
EXTENDS SignupOtp, PasswordAccess, PhoneLink, FiniteSetTheorems, TLAPS

-----------------------------------------------------------------------------
(* The signup: a consumed challenge is final, and so is the account it      *)
(* confirmed; what a row says of its mails is true.                         *)

\* A row id that is not handed out has no row.
FreshChallenges == \A c \in Challenges : c > rows => challenge[c].status = "none"

\* A challenge is consumed with the confirmation of the account.
ConsumedConfirms ==
    \A c \in Challenges : challenge[c].status = "consumed" => account = ConfirmedAccount

\* The inductive invariant of the consumed challenges.
SignupIInv == SignupTypeOK /\ FreshChallenges /\ ConsumedConfirms

\* What a step does to consumed challenges and to a confirmed account.
KeepsConsumed ==
    /\ \A c \in Challenges :
          challenge[c].status = "consumed" =>
              /\ challenge'[c].status = "consumed" \/ challenge'[c] = NoRow
              /\ account' = ConfirmedAccount
    /\ account = ConfirmedAccount => account' = account

-----------------------------------------------------------------------------
\* The limits of the support module are natural numbers.
LEMMA LimitsAreNat ==
    /\ Cooldown \in Nat /\ OtpLifetime \in Nat /\ FlowTokenLifetime \in Nat
    /\ SendBudgetWindow \in Nat /\ Lockout \in Nat
    /\ MaxChallenges \in Nat /\ MaxCodes \in Nat
  BY SignupOtpAssumption DEF SignupOtpAssumption

\* The idle request and the absent row are none of the others.
LEMMA RecordTypes ==
    /\ NoRow \in Row /\ NoRow.status = "none"
    /\ NoAccount \in Account /\ NoAccount # ConfirmedAccount
    /\ ConfirmedAccount \in Account
    /\ Idle.step = "idle"
  BY DEF NoRow, Row, Null, ChallengeStatuses, NoAccount, ConfirmedAccount, Account, Idle

\* The invariant holds before the first signup.
LEMMA SignupInitHolds == SignupInit => SignupIInv
<1> SUFFICES ASSUME SignupInit
             PROVE  SignupIInv
  OBVIOUS
<1>1. \A c \in Challenges : challenge[c] = NoRow
  BY DEF SignupInit
<1>2. SignupTypeOK
  <2>1. now \in Nat /\ rows \in Nat /\ codes \in Nat
    BY DEF SignupInit, ClockInit
  <2>2. /\ challenge \in [Challenges -> Row]
        /\ account \in Account
        /\ wrong \in [Challenges -> Nat]
    BY RecordTypes DEF SignupInit
  <2>3. request \in [Requests -> InFlight \cup {Idle}]
    BY DEF SignupInit
  <2>4. /\ inbox \subseteq Mail /\ browser \subseteq Token
        /\ unsure \subseteq Codes /\ forgiven \subseteq Codes
    BY DEF SignupInit
  <2> QED
    BY <2>1, <2>2, <2>3, <2>4 DEF SignupTypeOK
<1>3. FreshChallenges /\ ConsumedConfirms
  BY <1>1, RecordTypes DEF FreshChallenges, ConsumedConfirms
<1> QED
  BY <1>2, <1>3 DEF SignupIInv

\* A request between its transactions knows its token, its code and the row it read.
LEMMA BusyIsInFlight ==
  ASSUME SignupTypeOK, NEW r \in Requests, Busy(r)
  PROVE  request[r] \in InFlight
  BY RecordTypes DEF SignupTypeOK, Busy

\* Signing up gives an account its rows; a confirmed one is left as it is.
LEMMA SigningUpKeepsConfirmed ==
  ASSUME account \in Account, SignsUp
  PROVE  account' \in Account /\ (account = ConfirmedAccount => account' = account)
<1>1. account' \in Account
  BY DEF SignsUp, IdentityUpserted, UserAndMethod, Account
<1>2. ASSUME account = ConfirmedAccount
      PROVE  account' = account
  <2>1. account.method = "verified" /\ account.identity = "confirmed"
    BY <1>2 DEF ConfirmedAccount
  <2>2. UserAndMethod(account) = account
    BY <2>1 DEF UserAndMethod
  <2>3. account' = [account EXCEPT !.identity = "confirmed"]
    BY <2>1, <2>2 DEF SignsUp, IdentityUpserted
  <2> QED
    BY <1>2, <2>3 DEF ConfirmedAccount
<1> QED
  BY <1>1, <1>2

\* A code is issued for a row that is not consumed; the row is pending afterwards.
LEMMA IssueKeepsSignupIInv ==
  ASSUME SignupIInv, NEW r \in Requests, NEW c \in Challenges,
         NEW recovery \in {"delete_new_challenge", "restore_existing_challenge_state"},
         Issue(r, c, recovery), challenge[c].status # "consumed",
         account' \in Account, account = ConfirmedAccount => account' = account,
         rows' \in Nat, rows' >= rows, c <= rows'
  PROVE  SignupIInv' /\ KeepsConsumed
<1> DEFINE row == IssuedRow(challenge[c])
           flight == [step |-> "sending", code |-> codes + 1, recovery |-> recovery,
                      token |-> [challenge |-> c, expires |-> now + FlowTokenLifetime],
                      prior |-> challenge[c], since |-> now]
<1>1. /\ now \in Nat /\ codes \in Nat /\ codes + 1 \in Codes /\ rows \in Nat
      /\ challenge \in [Challenges -> Row] /\ challenge[c] \in Row
      /\ request \in [Requests -> InFlight \cup {Idle}]
  BY LimitsAreNat DEF SignupIInv, SignupTypeOK, Issue, Codes
<1>2. /\ challenge' = [challenge EXCEPT ![c] = row]
      /\ request' = [request EXCEPT ![r] = flight]
      /\ codes' = codes + 1
      /\ wrong' = [wrong EXCEPT ![c] = 0]
      /\ UNCHANGED <<now, inbox, browser, unsure, forgiven>>
  BY DEF Issue
<1>3. NextWindowStart(challenge[c]) \in Nat /\ NextWindowCount(challenge[c]) \in Nat
  BY <1>1 DEF NextWindowStart, NextWindowCount, Row
<1>4. row \in Row /\ row.status = "pending"
  BY <1>1, <1>3, LimitsAreNat DEF IssuedRow, Row, ChallengeStatuses, Null
<1>5. flight \in InFlight
  <2>1. [challenge |-> c, expires |-> now + FlowTokenLifetime] \in Token
    BY <1>1, LimitsAreNat DEF Token
  <2> QED
    BY <1>1, <2>1 DEF InFlight
<1> HIDE DEF row, flight
<1>6. /\ challenge' \in [Challenges -> Row]
      /\ challenge'[c] = row
      /\ \A d \in Challenges : d # c => challenge'[d] = challenge[d]
  BY <1>1, <1>2, <1>4
<1>7. request' \in [Requests -> InFlight \cup {Idle}]
  BY <1>1, <1>2, <1>5
<1>8. SignupTypeOK'
  <2>1. codes' \in Nat /\ wrong' \in [Challenges -> Nat]
    BY <1>1, <1>2 DEF SignupIInv, SignupTypeOK
  <2> QED
    BY <1>1, <1>2, <1>6, <1>7, <2>1 DEF SignupIInv, SignupTypeOK
<1>9. FreshChallenges'
  BY <1>1, <1>6 DEF SignupIInv, FreshChallenges, Challenges
<1>10. ConsumedConfirms'
  BY <1>4, <1>6 DEF SignupIInv, ConsumedConfirms
<1>11. KeepsConsumed
  BY <1>6 DEF SignupIInv, ConsumedConfirms, KeepsConsumed
<1> QED
  BY <1>8, <1>9, <1>10, <1>11 DEF SignupIInv

\* A step that writes no challenge: what it writes is typed, and a confirmed
\* account is left alone.
LEMMA ChallengesUntouched ==
  ASSUME SignupIInv, UNCHANGED <<challenge, rows>>,
         account' \in Account, account = ConfirmedAccount => account' = account,
         now' \in Nat, codes' \in Nat, request' \in [Requests -> InFlight \cup {Idle}],
         inbox' \subseteq Mail, browser' \subseteq Token, wrong' \in [Challenges -> Nat],
         unsure' \subseteq Codes, forgiven' \subseteq Codes
  PROVE  SignupIInv' /\ KeepsConsumed
<1>1. SignupTypeOK'
  BY DEF SignupIInv, SignupTypeOK
<1>2. FreshChallenges' /\ ConsumedConfirms'
  BY DEF SignupIInv, FreshChallenges, ConsumedConfirms
<1>3. KeepsConsumed
  BY DEF SignupIInv, ConsumedConfirms, KeepsConsumed
<1> QED
  BY <1>1, <1>2, <1>3 DEF SignupIInv

\* The recovery takes the row away, or writes everything back but its status.
LEMMA RecoverKeepsSignupIInv ==
  ASSUME SignupIInv, NEW r \in Requests, Recover(r)
  PROVE  SignupIInv' /\ KeepsConsumed
<1>1. /\ request[r] \in InFlight
      /\ challenge \in [Challenges -> Row]
      /\ request \in [Requests -> InFlight \cup {Idle}]
  BY BusyIsInFlight DEF SignupIInv, SignupTypeOK, Recover, Busy
<1>2. PICK c \in Challenges : c = request[r].token.challenge
  BY <1>1 DEF InFlight, Token
<1>3. /\ request' = [request EXCEPT ![r] = Idle]
      /\ forgiven' = forgiven \cup {request[r].code}
      /\ UNCHANGED <<now, rows, account, codes, inbox, browser, wrong, unsure>>
  BY DEF Recover
<1>4. PICK row \in Row :
          /\ challenge' = [challenge EXCEPT ![c] = row]
          /\ row = NoRow \/ row.status = challenge[c].status
  <2>1. /\ RestoredRow(challenge[c], request[r].prior) \in Row
        /\ RestoredRow(challenge[c], request[r].prior).status = challenge[c].status
    BY <1>1, <1>2 DEF RestoredRow, InFlight, Row
  <2> DEFINE row == IF request[r].recovery = "delete_new_challenge" THEN NoRow
                    ELSE IF challenge[c] = NoRow THEN NoRow
                    ELSE RestoredRow(challenge[c], request[r].prior)
  <2>2. challenge' = [challenge EXCEPT ![c] = row]
    BY <1>2 DEF Recover
  <2>3. row \in Row /\ (row = NoRow \/ row.status = challenge[c].status)
    BY <2>1, RecordTypes
  <2> QED
    BY <2>2, <2>3
<1>5. /\ challenge' \in [Challenges -> Row]
      /\ challenge'[c] = row
      /\ \A d \in Challenges : d # c => challenge'[d] = challenge[d]
  BY <1>1, <1>4
<1>6. SignupTypeOK'
  <2>1. request' \in [Requests -> InFlight \cup {Idle}] /\ request[r].code \in Codes
    BY <1>1, <1>3 DEF InFlight
  <2>2. forgiven' \subseteq Codes
    BY <1>3, <2>1 DEF SignupIInv, SignupTypeOK
  <2> QED
    BY <1>3, <1>5, <2>1, <2>2 DEF SignupIInv, SignupTypeOK
<1>7. FreshChallenges'
  BY <1>3, <1>4, <1>5, RecordTypes DEF SignupIInv, FreshChallenges
<1>8. ConsumedConfirms'
  BY <1>3, <1>4, <1>5, RecordTypes DEF SignupIInv, ConsumedConfirms
<1>9. KeepsConsumed
  BY <1>3, <1>4, <1>5 DEF SignupIInv, ConsumedConfirms, KeepsConsumed
<1> QED
  BY <1>6, <1>7, <1>8, <1>9 DEF SignupIInv

\* The right code consumes a pending challenge and confirms the account.
LEMMA VerifyRightKeepsSignupIInv ==
  ASSUME SignupIInv, NEW token, NEW code, VerifyRight(token, code)
  PROVE  SignupIInv' /\ KeepsConsumed
<1>1. PICK c \in Challenges :
          /\ challenge[c].status = "pending"
          /\ challenge' = [challenge EXCEPT ![c].status = "consumed"]
          /\ account' = ConfirmedAccount
          /\ UNCHANGED <<now, rows, request, codes, inbox, browser, wrong, unsure, forgiven>>
  BY DEF VerifyRight, Finds, Pending
<1> DEFINE row == [challenge[c] EXCEPT !.status = "consumed"]
<1>2. challenge \in [Challenges -> Row] /\ challenge[c] \in Row
  BY DEF SignupIInv, SignupTypeOK
<1>3. row \in Row /\ row.status = "consumed"
  BY <1>2 DEF Row, ChallengeStatuses
<1>4. challenge' = [challenge EXCEPT ![c] = row]
  BY <1>1
<1> HIDE DEF row
<1>5. /\ challenge' \in [Challenges -> Row]
      /\ challenge'[c] = row
      /\ \A d \in Challenges : d # c => challenge'[d] = challenge[d]
  BY <1>2, <1>3, <1>4
<1>6. SignupTypeOK'
  BY <1>1, <1>5, RecordTypes DEF SignupIInv, SignupTypeOK
<1>7. FreshChallenges'
  BY <1>1, <1>5 DEF SignupIInv, FreshChallenges
<1>8. ConsumedConfirms'
  BY <1>1 DEF ConsumedConfirms
<1>9. KeepsConsumed
  BY <1>1, <1>3, <1>5 DEF KeepsConsumed
<1> QED
  BY <1>6, <1>7, <1>8, <1>9 DEF SignupIInv

-----------------------------------------------------------------------------
\* Signups and resends issue codes for pending rows and new ones.
LEMMA RouteStepKeepsSignupIInv ==
  ASSUME SignupIInv, NEW r \in Requests, RouteStep(r)
  PROVE  SignupIInv' /\ KeepsConsumed
<1>1. account \in Account /\ rows \in Nat
  BY DEF SignupIInv, SignupTypeOK
<1>2. ASSUME NEW c \in Challenges, SignupCreates(r, c)
      PROVE  SignupIInv' /\ KeepsConsumed
  <2>1. /\ c = rows + 1 /\ rows' = c
        /\ SignsUp /\ Issue(r, c, "delete_new_challenge")
    BY <1>2 DEF SignupCreates
  <2>2. challenge[c].status # "consumed"
    BY <1>1, <2>1 DEF SignupIInv, FreshChallenges
  <2>3. rows' \in Nat /\ rows' >= rows /\ c <= rows'
    BY <1>1, <2>1
  <2> QED
    BY <1>1, <2>1, <2>2, <2>3, SigningUpKeepsConfirmed, IssueKeepsSignupIInv
<1>3. ASSUME NEW c \in Challenges, Pending(c)
      PROVE  c <= rows /\ challenge[c].status # "consumed"
  BY <1>1, <1>3 DEF Pending, SignupIInv, FreshChallenges, Challenges
<1>4. ASSUME NEW c \in Challenges, SignupRefreshes(r, c)
      PROVE  SignupIInv' /\ KeepsConsumed
  <2>1. /\ Pending(c) /\ rows' = rows
        /\ SignsUp /\ Issue(r, c, "restore_existing_challenge_state")
    BY <1>4 DEF SignupRefreshes
  <2>2. rows' \in Nat /\ rows' >= rows /\ c <= rows'
    BY <1>1, <1>3, <2>1
  <2> QED
    BY <1>1, <1>3, <2>1, <2>2, SigningUpKeepsConfirmed, IssueKeepsSignupIInv
<1>5. ASSUME NEW token, Resend(r, token)
      PROVE  SignupIInv' /\ KeepsConsumed
  <2>1. PICK c \in Finds(token) :
            /\ Issue(r, c, "restore_existing_challenge_state")
            /\ UNCHANGED <<rows, account>>
    BY <1>5 DEF Resend
  <2>2. c \in Challenges /\ Pending(c)
    BY DEF Finds
  <2>3. rows' \in Nat /\ rows' >= rows /\ c <= rows'
    BY <1>1, <1>3, <2>1, <2>2
  <2> QED
    BY <1>1, <1>3, <2>1, <2>2, <2>3, IssueKeepsSignupIInv
<1> QED
  BY <1>2, <1>4, <1>5 DEF RouteStep

\* What follows a provider call leaves a consumed row consumed, or deletes it.
LEMMA ProviderStepKeepsSignupIInv ==
  ASSUME SignupIInv, NEW r \in Requests, ProviderStep(r)
  PROVE  SignupIInv' /\ KeepsConsumed
<1>1. /\ request \in [Requests -> InFlight \cup {Idle}]
      /\ inbox \subseteq Mail /\ browser \subseteq Token
      /\ unsure \subseteq Codes /\ forgiven \subseteq Codes
      /\ account \in Account /\ now \in Nat /\ codes \in Nat /\ wrong \in [Challenges -> Nat]
  BY DEF SignupIInv, SignupTypeOK
<1>2. CASE Recover(r)
  BY <1>2, RecoverKeepsSignupIInv
<1>3. CASE MailAccepted(r) \/ MailFails(r) \/ RequestDies(r)
  <2>1. request[r] \in InFlight
    BY <1>1, <1>3, BusyIsInFlight DEF SignupIInv, MailAccepted, MailFails, RequestDies, Busy
  <2>2. /\ MailOf(r, TRUE) \in Mail /\ MailOf(r, FALSE) \in Mail
        /\ request[r].token \in Token /\ request[r].code \in Codes
    BY <2>1 DEF InFlight, MailOf, Mail
  <2>3. /\ inbox' \subseteq inbox \cup {MailOf(r, TRUE), MailOf(r, FALSE)}
        /\ browser' \subseteq browser \cup {request[r].token}
        /\ unsure' \subseteq unsure \cup {request[r].code}
        /\ UNCHANGED <<now, rows, challenge, account, codes, wrong, forgiven>>
    BY <1>3 DEF MailAccepted, MailFails, RequestDies
  <2>4. request' \in [Requests -> InFlight \cup {Idle}]
    <3>1. CASE MailFails(r)
      <4> DEFINE flight == [request[r] EXCEPT !.step = "recovering"]
      <4>1. flight \in InFlight
        BY <2>1 DEF InFlight
      <4>2. request' = [request EXCEPT ![r] = flight]
        BY <3>1 DEF MailFails
      <4> QED
        BY <1>1, <4>1, <4>2
    <3>2. CASE MailAccepted(r) \/ RequestDies(r)
      BY <1>1, <3>2 DEF MailAccepted, RequestDies
    <3> QED
      BY <1>3, <3>1, <3>2
  <2>5. inbox' \subseteq Mail /\ browser' \subseteq Token /\ unsure' \subseteq Codes
    BY <1>1, <2>2, <2>3
  <2> QED
    BY <1>1, <2>3, <2>4, <2>5, ChallengesUntouched
<1> QED
  BY <1>2, <1>3 DEF ProviderStep

\* A verification consumes a row and confirms the account in one transaction.
LEMMA UserStepKeepsSignupIInv ==
  ASSUME SignupIInv, SignupUserStep
  PROVE  SignupIInv' /\ KeepsConsumed
<1>1. /\ request \in [Requests -> InFlight \cup {Idle}]
      /\ inbox \subseteq Mail /\ browser \subseteq Token
      /\ unsure \subseteq Codes /\ forgiven \subseteq Codes
      /\ account \in Account /\ now \in Nat /\ codes \in Nat /\ wrong \in [Challenges -> Nat]
      /\ challenge \in [Challenges -> Row]
  BY DEF SignupIInv, SignupTypeOK
<1>2. ASSUME NEW c \in Challenges, SignupReuses(c)
      PROVE  SignupIInv' /\ KeepsConsumed
  <2>1. TokenOf(c) \in Token
    BY <1>1 DEF TokenOf, Token, Row
  <2>2. account' \in Account /\ (account = ConfirmedAccount => account' = account)
    BY <1>1, <1>2, SigningUpKeepsConfirmed DEF SignupReuses
  <2>3. /\ browser' = browser \cup {TokenOf(c)}
        /\ UNCHANGED <<now, rows, challenge, request, codes, inbox, wrong, unsure, forgiven>>
    BY <1>2 DEF SignupReuses
  <2>4. browser' \subseteq Token
    BY <1>1, <2>1, <2>3
  <2> QED
    BY <1>1, <2>2, <2>3, <2>4, ChallengesUntouched
<1>3. ASSUME NEW token,
             \/ ResendTooLate(token) \/ VerifyTooLate(token)
             \/ \E code \in HeldCodes \cup {WrongCode} : VerifyWrong(token, code)
      PROVE  SignupIInv' /\ KeepsConsumed
  <2>1. UNCHANGED <<now, rows, challenge, account, request, codes, inbox, browser, unsure,
                    forgiven>>
    BY <1>3 DEF ResendTooLate, VerifyTooLate, VerifyWrong, RaiseWith, AfterRaise
  <2>2. wrong' \in [Challenges -> Nat]
    <3>1. CASE ResendTooLate(token) \/ VerifyTooLate(token)
      BY <1>1, <3>1 DEF ResendTooLate, VerifyTooLate
    <3>2. ASSUME NEW code, VerifyWrong(token, code)
          PROVE  wrong' \in [Challenges -> Nat]
      BY <1>1, <3>2 DEF VerifyWrong, Finds
    <3> QED
      BY <1>3, <3>1, <3>2
  <2> QED
    BY <1>1, <2>1, <2>2, ChallengesUntouched
<1>4. ASSUME NEW token, NEW code, VerifyRight(token, code)
      PROVE  SignupIInv' /\ KeepsConsumed
  BY <1>4, VerifyRightKeepsSignupIInv
<1> QED
  BY <1>2, <1>3, <1>4 DEF SignupUserStep

\* Every step of the signup keeps the invariant and what is consumed.
LEMMA SignupNextKeepsIInv == SignupIInv /\ SignupNext => SignupIInv' /\ KeepsConsumed
<1> SUFFICES ASSUME SignupIInv, SignupNext
             PROVE  SignupIInv' /\ KeepsConsumed
  OBVIOUS
<1>1. CASE SignupTick
  <2>1. UNCHANGED signup
    BY <1>1 DEF SignupTick
  <2>2. now' \in Nat
    BY <1>1 DEF SignupTick, Tick, SignupIInv, SignupTypeOK
  <2> QED
    BY <2>1, <2>2, ChallengesUntouched DEF signup, SignupIInv, SignupTypeOK
<1>2. CASE SignupUserStep
  BY <1>2, UserStepKeepsSignupIInv
<1>3. CASE \E r \in Requests : RouteStep(r) \/ ProviderStep(r)
  BY <1>3, RouteStepKeepsSignupIInv, ProviderStepKeepsSignupIInv
<1> QED
  BY <1>1, <1>2, <1>3 DEF SignupNext

\* So does a step that changes nothing here.
LEMMA SignupStutterKeepsIInv == SignupIInv /\ UNCHANGED signupVars => SignupIInv'
  BY DEF signupVars, signup, SignupIInv, SignupTypeOK, FreshChallenges, ConsumedConfirms

\* The facts the theorems rest on hold in every reachable state.
LEMMA SignupInductive == SignupSpec => []SignupIInv
  BY SignupInitHolds, SignupNextKeepsIInv, SignupStutterKeepsIInv, PTL DEF SignupSpec

\* Every reachable state of the signup of an address is well typed.
THEOREM SignupTypeCorrect == SignupSpec => []SignupTypeOK
<1>1. SignupIInv => SignupTypeOK
  BY DEF SignupIInv
<1> QED
  BY SignupInductive, <1>1, PTL

\* A used code is used up: no recovery that comes late, no resend and no second
\* verification opens a consumed challenge again, and the account it confirmed
\* stays confirmed through every signup that follows.
THEOREM UsedCodesStayUsed == SignupSpec => ConsumedIsFinal
<1>1. SignupIInv /\ [SignupNext]_signupVars => KeepsConsumed \/ UNCHANGED signupVars
  BY SignupNextKeepsIInv
<1>2. KeepsConsumed \/ UNCHANGED signupVars =>
      [/\ \A c \in Challenges :
             challenge[c].status = "consumed" =>
                 /\ challenge'[c].status = "consumed" \/ challenge'[c] = NoRow
                 /\ account' = ConfirmedAccount
       /\ account = ConfirmedAccount => account' = account]_signupVars
  BY DEF KeepsConsumed
<1> QED
  BY SignupInductive, <1>1, <1>2, PTL DEF SignupSpec, ConsumedIsFinal

-----------------------------------------------------------------------------
\* The mails of a challenge that were not forgiven, but for the one with a given
\* code, and those of them that the budget window of a row counts.
Weighed(c, code) == {m \in inbox : m.token.challenge = c /\ m.code \notin forgiven /\ m.code # code}
Counted(c, row, code) == {m \in Weighed(c, code) : SentAt(m) >= row.windowStart}

\* A row tells of the mails of its challenge, but for the one with a given code:
\* it names the newest that was acknowledged, or the code of a request that died,
\* and its counter counts those of its window.
RowTells(c, row, code) ==
    /\ row.nextSend # Null /\ row.nextSend + FlowTokenLifetime = row.tokenExpires + Cooldown
    /\ row.windowCount <= MaxSendsPerWindow
    /\ \A m \in Weighed(c, code) : m.token.expires <= row.tokenExpires
    /\ Cardinality(Counted(c, row, code)) <= row.windowCount
    /\ \/ row.otp \in unsure
       \/ \E m \in Acknowledged(c) :
             /\ m.code = row.otp /\ m.token.expires = row.tokenExpires
             /\ \A n \in Acknowledged(c) : n.code <= m.code

\* The mail of a request that is not over: one at most, of a call that failed.
OwnMail(q) ==
    \A m \in inbox : m.code = q.code =>
        /\ q.step = "recovering"
        /\ m = [token |-> q.token, code |-> q.code, acknowledged |-> FALSE]

\* While a mail is under way the row is ahead of it, by its code and by one in
\* its counter, and the row that a recovery would write back tells of the mails.
FlightTells(c, row, q) ==
    /\ row.status # "none"
    /\ row.otp = q.code /\ row.tokenExpires = q.token.expires
    /\ row.tokenExpires = q.since + FlowTokenLifetime /\ row.nextSend = q.since + Cooldown
    /\ row.windowCount <= MaxSendsPerWindow
    /\ OwnMail(q)
    /\ \A m \in Acknowledged(c) : m.code <= q.code
    /\ \A m \in Weighed(c, q.code) : m.token.expires <= row.tokenExpires
    /\ Cardinality(Counted(c, row, q.code)) + 1 <= row.windowCount
    /\ q.recovery = "restore_existing_challenge_state" => RowTells(c, q.prior, q.code)

\* A request that is under way began before now and is not yet given up.
InTime(q) == q.since <= now /\ now <= q.since + ProviderTimeout

\* Mails are finitely many, with codes that were generated for rows that were
\* handed out.
MailsAreOfRows ==
    /\ IsFiniteSet(inbox)
    /\ \A m \in inbox : m.code <= codes /\ m.token.challenge <= rows

\* A challenge has one request under way at most: the next one would have to
\* come after the cooldown, and by then the provider call has ended.  No two
\* requests send one code.
OneFlight ==
    \A r \in Requests : Busy(r) =>
        /\ request[r].token.challenge <= rows /\ request[r].code <= codes
        /\ InTime(request[r])
        /\ \A q \in Requests :
              /\ Busy(q)
              /\ \/ request[q].token.challenge = request[r].token.challenge
                 \/ request[q].code = request[r].code
              => q = r

\* Every request under way tells of the mails of its challenge.
FlightsTell ==
    \A r \in Requests : Busy(r) =>
        FlightTells(request[r].token.challenge, challenge[request[r].token.challenge], request[r])

\* So does every row that no request is under way with.
RowsTell ==
    \A c \in Challenges :
        challenge[c].status # "none" /\ Flying(c) = {} => RowTells(c, challenge[c], 0)

\* The inductive invariant of the mails.  NewestMailWorks alone is not
\* inductive: it says nothing of the rows that a recovery will write back, and
\* it needs that a challenge has one request under way at most.
MailIInv == SignupIInv /\ MailsAreOfRows /\ OneFlight /\ FlightsTell /\ RowsTell

-----------------------------------------------------------------------------
\* The lifetimes and limits that the proof reads: the mail client gives up
\* before the cooldown ends.
LEMMA MailLimits ==
  /\ Cooldown \in Nat \ {0} /\ FlowTokenLifetime \in Nat \ {0} /\ ProviderTimeout \in Nat
  /\ ProviderTimeout < Cooldown /\ MaxSendsPerWindow \in Nat \ {0} /\ SendBudgetWindow \in Nat
BY SignupOtpAssumption, ProviderAssumption DEF SignupOtpAssumption, ProviderAssumption

\* The fields of mails, rows and requests.
LEMMA MailTypes ==
  ASSUME SignupTypeOK
  PROVE  /\ \A m \in inbox : m.code \in Nat /\ m.token.expires \in Nat
                             /\ m.token.challenge \in Challenges /\ m.token \in Token
         /\ \A c \in Challenges : challenge[c] \in Row
         /\ \A r \in Requests : Busy(r) =>
               /\ request[r] \in InFlight
               /\ request[r].token.challenge \in Challenges /\ request[r].token.expires \in Nat
               /\ request[r].code \in Nat /\ request[r].since \in Nat /\ request[r].prior \in Row
         /\ codes \in Nat /\ rows \in Nat /\ now \in Nat
<1>1. \A m \in inbox : m.code \in Nat /\ m.token.expires \in Nat
                       /\ m.token.challenge \in Challenges /\ m.token \in Token
  BY DEF SignupTypeOK, Mail, Token, Codes
<1>2. \A r \in Requests : Busy(r) => request[r] \in InFlight
  BY BusyIsInFlight
<1>3. \A q \in InFlight : /\ q.token.challenge \in Challenges /\ q.token.expires \in Nat
                          /\ q.code \in Nat /\ q.since \in Nat /\ q.prior \in Row
  BY DEF InFlight, Token, Codes
<1> QED
  BY <1>1, <1>2, <1>3 DEF SignupTypeOK

\* The mails of a challenge are finitely many.
LEMMA CountedIsFinite ==
  ASSUME MailsAreOfRows, NEW c, NEW row, NEW code
  PROVE  /\ IsFiniteSet(Counted(c, row, code))
         /\ Cardinality(Counted(c, row, code)) \in Nat
<1>1. Counted(c, row, code) \subseteq inbox
  BY DEF Counted, Weighed
<1> QED
  BY <1>1, FS_Subset, FS_CardinalityType DEF MailsAreOfRows

\* A set that has one mail more at most.
LEMMA OneMailMore ==
  ASSUME NEW S, IsFiniteSet(S), NEW m, NEW T, T \subseteq S \cup {m},
         NEW k \in Nat, Cardinality(S) + 1 <= k
  PROVE  Cardinality(T) <= k
<1>1. Cardinality(S) \in Nat
  BY FS_CardinalityType
<1>2. /\ IsFiniteSet(S \cup {m})
      /\ Cardinality(S \cup {m}) <= Cardinality(S) + 1
  <2>1. CASE m \in S
    <3>1. S \cup {m} = S
      BY <2>1
    <3>2. Cardinality(S) <= Cardinality(S) + 1
      BY <1>1
    <3> QED
      BY <3>1, <3>2, Zenon
  <2>2. CASE m \notin S
    <3>1. IsFiniteSet(S \cup {m})
      BY FS_AddElement
    <3>2. Cardinality(S \cup {m}) = Cardinality(S) + 1
      BY <2>2, FS_AddElement
    <3>3. Cardinality(S \cup {m}) <= Cardinality(S) + 1
      BY <1>1, <3>2
    <3> QED
      BY <3>1, <3>3
  <2> QED
    BY <2>1, <2>2
<1>3. /\ Cardinality(T) <= Cardinality(S \cup {m})
      /\ Cardinality(T) \in Nat /\ Cardinality(S \cup {m}) \in Nat
  BY <1>2, FS_Subset, FS_CardinalityType
<1> QED
  BY <1>1, <1>2, <1>3

\* A step that neither adds nor forgives a mail of a challenge.
SameMails(c) ==
    /\ Acknowledged(c)' = Acknowledged(c)
    /\ \A code : Weighed(c, code)' = Weighed(c, code)
    /\ unsure \subseteq unsure'

\* What a row tells is of the mails alone.
LEMMA RowTellsOfTheSameMails ==
  ASSUME NEW c, NEW row, NEW code, SameMails(c), RowTells(c, row, code)
  PROVE  RowTells(c, row, code)'
<1>1. Weighed(c, code)' = Weighed(c, code) /\ Acknowledged(c)' = Acknowledged(c) /\ unsure \subseteq unsure'
  BY DEF SameMails
<1>2. Counted(c, row, code)' = Counted(c, row, code)
  BY <1>1 DEF Counted, SentAt
<1> QED
  BY <1>1, <1>2 DEF RowTells

\* So is what a request under way tells.
LEMMA FlightTellsOfTheSameMails ==
  ASSUME NEW c, NEW row, NEW q, SameMails(c), FlightTells(c, row, q),
         \A m \in inbox' : m.code = q.code => m \in inbox
  PROVE  FlightTells(c, row, q)'
<1>1. PICK code : code = q.code
  OBVIOUS
<1>2. Weighed(c, code)' = Weighed(c, code) /\ Acknowledged(c)' = Acknowledged(c)
  BY DEF SameMails
<1>3. Counted(c, row, code)' = Counted(c, row, code)
  BY <1>2 DEF Counted, SentAt
<1>4. RowTells(c, q.prior, code) => RowTells(c, q.prior, code)'
  BY RowTellsOfTheSameMails
<1>5. OwnMail(q)'
  BY DEF OwnMail, FlightTells
<1> QED
  BY <1>1, <1>2, <1>3, <1>4, <1>5 DEF FlightTells

\* Before the first signup there are no mails and no rows.
LEMMA MailInitHolds == SignupInit => MailIInv
<1> SUFFICES ASSUME SignupInit
             PROVE  MailIInv
  OBVIOUS
<1>1. /\ inbox = {} /\ \A r \in Requests : ~Busy(r)
      /\ \A c \in Challenges : challenge[c].status = "none"
  BY RecordTypes DEF SignupInit, Busy
<1>2. IsFiniteSet({})
  BY FS_EmptySet
<1>3. MailsAreOfRows /\ OneFlight /\ FlightsTell /\ RowsTell
  BY <1>1, <1>2 DEF MailsAreOfRows, OneFlight, FlightsTell, RowsTell
<1> QED
  BY <1>3, SignupInitHolds DEF MailIInv

\* Steps that send nothing and write no challenge but to consume it.
LEMMA QuietStepKeepsMailIInv ==
  ASSUME MailIInv, SignupIInv', UNCHANGED <<rows, request, codes, inbox, unsure, forgiven>>,
         now' = now \/ SignupTick, DOMAIN challenge' = DOMAIN challenge,
         \A c \in Challenges : /\ challenge'[c] \in {challenge[c], [challenge[c] EXCEPT !.status = "consumed"]}
                               /\ challenge[c].status = "none" => challenge'[c] = challenge[c]
  PROVE  MailIInv'
<1> USE DEF MailIInv
<1>1. SignupTypeOK
  BY DEF SignupIInv
<1>2. /\ \A r : Busy(r)' <=> Busy(r)
      /\ \A c : Flying(c)' = Flying(c)
      /\ \A c : SameMails(c)
  BY DEF Busy, Flying, Acknowledged, Weighed, SameMails
<1>3. MailsAreOfRows'
  BY DEF MailsAreOfRows
<1>4. ASSUME NEW r \in Requests, Busy(r)
      PROVE  InTime(request[r])'
  <2>1. InTime(request[r]) /\ request[r].since \in Nat /\ now \in Nat /\ ProviderTimeout \in Nat
    BY <1>1, <1>4, MailTypes, MailLimits DEF OneFlight
  <2>2. CASE now' = now
    BY <2>1, <2>2 DEF InTime
  <2>3. CASE SignupTick
    <3>1. now' = now + 1 /\ now < request[r].since + ProviderTimeout
      BY <1>4, <2>3 DEF SignupTick, Tick
    <3> QED
      BY <2>1, <3>1 DEF InTime
  <2> QED
    BY <2>2, <2>3
<1>5. OneFlight'
  BY <1>2, <1>4 DEF OneFlight, Busy
<1>6. ASSUME NEW c \in Challenges
      PROVE  /\ challenge'[c].otp = challenge[c].otp
             /\ challenge'[c].tokenExpires = challenge[c].tokenExpires
             /\ challenge'[c].nextSend = challenge[c].nextSend
             /\ challenge'[c].windowStart = challenge[c].windowStart
             /\ challenge'[c].windowCount = challenge[c].windowCount
             /\ challenge'[c].status = "none" <=> challenge[c].status = "none"
  <2>1. challenge[c] \in Row
    BY <1>1, MailTypes
  <2> QED
    BY <2>1 DEF Row
<1>7. \A c \in Challenges : \A code :
          /\ Counted(c, challenge[c], code)' = Counted(c, challenge[c], code)
          /\ Weighed(c, code)' = Weighed(c, code)
          /\ Acknowledged(c)' = Acknowledged(c)
  BY <1>2, <1>6 DEF Counted, SentAt, SameMails
<1>8. FlightsTell'
  <2> SUFFICES ASSUME NEW r \in Requests, Busy(r)
               PROVE  FlightTells(request[r].token.challenge, challenge[request[r].token.challenge], request[r])'
    BY <1>2 DEF FlightsTell
  <2>1. PICK c \in Challenges : c = request[r].token.challenge
    BY <1>1, MailTypes
  <2>2. FlightTells(c, challenge[c], request[r])
    BY <2>1 DEF FlightsTell
  <2>3. PICK prior, code : prior = request[r].prior /\ code = request[r].code
    OBVIOUS
  <2>4. RowTells(c, prior, code) => RowTells(c, prior, code)'
    BY <1>2, RowTellsOfTheSameMails
  <2>5. OwnMail(request[r]) <=> OwnMail(request[r])'
    BY DEF OwnMail
  <2>6. FlightTells(c, challenge[c], request[r])'
    BY <1>6, <1>7, <2>2, <2>3, <2>4, <2>5 DEF FlightTells
  <2> QED
    BY <2>1, <2>6
<1>9. RowsTell'
  <2> SUFFICES ASSUME NEW c \in Challenges, challenge'[c].status # "none", Flying(c)' = {}
               PROVE  RowTells(c, challenge[c], 0)'
    BY DEF RowsTell
  <2>1. RowTells(c, challenge[c], 0)
    BY <1>2, <1>6 DEF RowsTell
  <2> QED
    BY <1>2, <1>6, <1>7, <2>1 DEF RowTells
<1> QED
  BY <1>3, <1>5, <1>8, <1>9

\* A row that is not cooling down has no mail under way.
LEMMA NothingFliesAfterTheCooldown ==
  ASSUME MailIInv, NEW c \in Challenges, ~CoolingDown(challenge[c])
  PROVE  Flying(c) = {}
<1> SUFFICES ASSUME NEW r \in Requests, Busy(r), request[r].token.challenge = c
             PROVE  FALSE
  BY DEF Flying
<1>1. FlightTells(c, challenge[c], request[r]) /\ InTime(request[r])
  BY DEF MailIInv, FlightsTell, OneFlight
<1>2. request[r].since \in Nat /\ now \in Nat
  BY MailTypes DEF MailIInv, SignupIInv
<1>3. challenge[c].nextSend = request[r].since + Cooldown
  BY <1>1 DEF FlightTells
<1> QED
  BY <1>1, <1>2, <1>3, MailLimits DEF InTime, CoolingDown, Null

\* A code is issued for a new row, or for one whose cooldown is over.
LEMMA IssueKeepsMailIInv ==
  ASSUME MailIInv, SignupIInv', NEW r \in Requests, ~Busy(r), NEW c \in Challenges,
         NEW recovery, Issue(r, c, recovery),
         Flying(c) = {}, rows' \in Nat, rows' >= rows, c <= rows',
         \/ recovery = "delete_new_challenge" /\ \A m \in inbox : m.token.challenge # c
         \/ challenge[c].status # "none" /\ ~CoolingDown(challenge[c])
  PROVE  MailIInv'
<1> USE DEF MailIInv
<1> DEFINE old == challenge[c]
           row == IssuedRow(old)
           q == [step |-> "sending", code |-> codes + 1, recovery |-> recovery,
                 token |-> [challenge |-> c, expires |-> now + FlowTokenLifetime],
                 prior |-> old, since |-> now]
<1>1. /\ challenge' = [challenge EXCEPT ![c] = row]
      /\ request' = [request EXCEPT ![r] = q]
      /\ codes' = codes + 1
      /\ NextWindowCount(old) <= MaxSendsPerWindow
      /\ UNCHANGED <<now, inbox, browser, unsure, forgiven>>
  BY DEF Issue
<1>2. /\ SignupTypeOK
      /\ now \in Nat /\ codes \in Nat /\ rows \in Nat /\ old \in Row
      /\ DOMAIN challenge = Challenges /\ DOMAIN request = Requests
  BY MailTypes DEF SignupIInv, SignupTypeOK
<1>3. /\ row.status = "pending" /\ row.otp = codes + 1 /\ row.nextSend = now + Cooldown
      /\ row.tokenExpires = now + FlowTokenLifetime
      /\ row.windowStart = NextWindowStart(old) /\ row.windowCount = NextWindowCount(old)
  BY DEF IssuedRow
<1>4. /\ q.step = "sending" /\ q.code = codes + 1 /\ q.recovery = recovery /\ q.prior = old
      /\ q.since = now /\ q.token.challenge = c /\ q.token.expires = now + FlowTokenLifetime
  OBVIOUS
<1>5. old \in Row /\ old.windowCount \in Nat /\ old.windowStart \in Nat /\ old.nextSend \in Nat
      /\ old.tokenExpires \in Nat
  BY <1>2 DEF Row
<1> HIDE DEF old, row, q
<1>6. /\ request'[r] = q /\ challenge'[c] = row
      /\ \A s \in Requests : s # r => request'[s] = request[s]
      /\ \A d \in Challenges : d # c => challenge'[d] = challenge[d]
  BY <1>1, <1>2
<1>7. /\ \A d : SameMails(d)
      /\ \A s \in Requests : s # r => (Busy(s)' <=> Busy(s))
      /\ Busy(r)'
  BY <1>1, <1>4, <1>6 DEF Acknowledged, Weighed, SameMails, Busy
<1>8. \A s \in Requests : s # r /\ Busy(s) => request[s].token.challenge # c
  BY DEF Flying
<1>9. \A d \in Challenges : d # c => Flying(d)' = Flying(d)
  BY <1>4, <1>6, <1>7, <1>8 DEF Flying
<1>10. \A s : InTime(s)' <=> InTime(s)
  BY <1>1 DEF InTime
<1>11. MailsAreOfRows'
  <2>1. \A m \in inbox : m.code \in Nat /\ m.token.challenge \in Nat
    BY <1>2, MailTypes DEF Challenges
  <2> QED
    BY <1>1, <1>2, <2>1 DEF MailsAreOfRows
<1>12. OneFlight'
  <2>1. InTime(q)
    BY <1>2, <1>4, MailLimits DEF InTime
  <2>2. \A s \in Requests : Busy(s) => request[s].code \in Nat /\ request[s].token.challenge \in Nat
    BY <1>2, MailTypes DEF Challenges
  <2>a. \A s \in Requests : s # r /\ Busy(s) => request[s].code # codes + 1
    BY <1>2, <2>2 DEF OneFlight
  <2> SUFFICES ASSUME NEW s \in Requests, Busy(s)'
               PROVE  /\ request'[s].token.challenge <= rows' /\ request'[s].code <= codes'
                      /\ InTime(request'[s])
                      /\ \A t \in Requests :
                            /\ Busy(t)'
                            /\ \/ request'[t].token.challenge = request'[s].token.challenge
                               \/ request'[t].code = request'[s].code
                            => t = s
    BY <1>10 DEF OneFlight, InTime
  <2>3. CASE s = r
    BY <1>1, <1>2, <1>4, <1>6, <1>7, <1>8, <2>1, <2>3, <2>a
  <2>4. CASE s # r
    <3>1. /\ request[s].token.challenge <= rows /\ request[s].code <= codes /\ InTime(request[s])
          /\ request[s].token.challenge # c /\ request[s].code # codes + 1
      BY <1>7, <1>8, <2>4, <2>a DEF OneFlight
    <3>2. \A t \in Requests :
             /\ Busy(t)'
             /\ \/ request'[t].token.challenge = request'[s].token.challenge
                \/ request'[t].code = request'[s].code
             => t = s
      BY <1>4, <1>6, <1>7, <2>4, <3>1 DEF OneFlight
    <3> QED
      BY <1>1, <1>2, <1>6, <1>7, <2>2, <2>4, <3>1, <3>2
  <2> QED
    BY <2>3, <2>4
\* What the row told until now, the recovery would write back.
<1>13. challenge[c].status # "none" => RowTells(c, old, 0)
  BY DEF RowsTell, old
\* Nobody has the new code yet.
<1>a. /\ \A m \in inbox : m.code # codes + 1
      /\ Weighed(c, codes + 1) = Weighed(c, 0)
  <2>1. \A m \in inbox : m.code # codes + 1 /\ m.code # 0
    BY <1>2, MailTypes DEF MailsAreOfRows, SignupTypeOK, Mail, Codes
  <2> QED
    BY <2>1 DEF Weighed
<1>b. PICK code : code = codes + 1
  OBVIOUS
<1>c. \A m \in Weighed(c, code) : m.token.expires \in Nat /\ m.token.expires - FlowTokenLifetime < now
  <2> SUFFICES ASSUME NEW m \in Weighed(c, 0)
               PROVE  m.token.expires \in Nat /\ m.token.expires - FlowTokenLifetime < now
    BY <1>a, <1>b
  <2>1. RowTells(c, old, 0) /\ ~CoolingDown(old)
    BY <1>13 DEF old, Weighed
  <2>2. m.token.expires \in Nat /\ m.token.expires <= old.tokenExpires
    BY <1>2, <2>1, MailTypes DEF RowTells, Weighed
  <2>3. old.nextSend <= now /\ old.nextSend + FlowTokenLifetime = old.tokenExpires + Cooldown
    BY <1>2, <1>5, <2>1 DEF CoolingDown, RowTells
  <2> QED
    BY <1>2, <1>5, <2>2, <2>3, MailLimits
<1>14. Cardinality(Counted(c, row, code)) + 1 <= row.windowCount
  <2>1. CASE old.windowStart = Null \/ now - old.windowStart >= SendBudgetWindow
    <3>1. row.windowStart = now /\ row.windowCount = 1
      BY <1>3, <2>1 DEF NextWindowStart, NextWindowCount
    <3>2. Counted(c, row, code) = {}
      <4> SUFFICES ASSUME NEW m \in Weighed(c, code), SentAt(m) >= now
                   PROVE  FALSE
        BY <3>1 DEF Counted
      <4> QED
        BY <1>2, <1>c, MailLimits DEF SentAt
    <3>3. Cardinality({}) = 0
      BY FS_EmptySet
    <3> QED
      BY <3>1, <3>2, <3>3
  <2>2. CASE ~(old.windowStart = Null \/ now - old.windowStart >= SendBudgetWindow)
    <3>1. row.windowStart = old.windowStart /\ row.windowCount = old.windowCount + 1
      BY <1>3, <2>2 DEF NextWindowStart, NextWindowCount
    <3>2. Counted(c, row, code) = Counted(c, old, 0)
      BY <1>a, <1>b, <3>1 DEF Counted
    <3>3. Cardinality(Counted(c, old, 0)) \in Nat
      BY CountedIsFinite
    <3>4. Cardinality(Counted(c, old, 0)) <= old.windowCount
      <4>1. CASE \A m \in inbox : m.token.challenge # c
        <5>1. Counted(c, old, 0) = {} /\ Cardinality({}) = 0
          BY <4>1, FS_EmptySet DEF Counted, Weighed
        <5> QED
          BY <1>5, <5>1
      <4>2. CASE challenge[c].status # "none"
        BY <1>13, <4>2 DEF RowTells
      <4> QED
        BY <4>1, <4>2
    <3> QED
      BY <1>5, <3>1, <3>2, <3>3, <3>4
  <2> QED
    BY <2>1, <2>2
<1>15. FlightTells(c, row, q)
  <2>1. /\ \A m \in Weighed(c, q.code) : m.token.expires <= row.tokenExpires
        /\ \A m \in Acknowledged(c) : m.code <= q.code
    <3>1. \A m \in Weighed(c, code) : m.token.expires <= now + FlowTokenLifetime
      BY <1>2, <1>c, MailLimits
    <3>2. \A m \in inbox : m.code \in Nat /\ m.code <= codes
      BY <1>2, MailTypes DEF MailsAreOfRows
    <3> QED
      BY <1>2, <1>3, <1>4, <1>b, <3>1, <3>2 DEF Acknowledged
  <2>2. recovery = "restore_existing_challenge_state" => RowTells(c, old, code)
    <3>1. Counted(c, old, code) = Counted(c, old, 0) /\ Weighed(c, code) = Weighed(c, 0)
      BY <1>a, <1>b DEF Counted
    <3> QED
      BY <1>13, <3>1 DEF RowTells
  <2>3. row.windowCount <= MaxSendsPerWindow
    BY <1>1, <1>3
  <2>4. OwnMail(q)
    BY <1>4, <1>a DEF OwnMail
  <2> QED
    BY <1>3, <1>4, <1>14, <1>b, <2>1, <2>2, <2>3, <2>4 DEF FlightTells
<1>16. FlightsTell'
  <2> SUFFICES ASSUME NEW s \in Requests, Busy(s)'
               PROVE  FlightTells(request[s].token.challenge, challenge[request[s].token.challenge], request[s])'
    BY DEF FlightsTell
  <2>1. CASE s = r
    <3>1. PICK x, p : x = row /\ p = q
      OBVIOUS
    <3>2. FlightTells(c, x, p)
      BY <1>15, <3>1
    <3>3. FlightTells(c, x, p)'
      BY <1>1, <1>7, <3>2, FlightTellsOfTheSameMails
    <3> QED
      BY <1>4, <1>6, <2>1, <3>1, <3>3
  <2>2. CASE s # r
    <3>1. PICK d, x, p : d \in Challenges /\ d = request[s].token.challenge /\ x = challenge[d] /\ p = request[s]
      BY <1>2, <1>7, <2>2, MailTypes
    <3>2. FlightTells(d, x, p) /\ d # c
      BY <1>7, <1>8, <2>2, <3>1 DEF FlightsTell
    <3>3. FlightTells(d, x, p)'
      BY <1>1, <1>7, <3>2, FlightTellsOfTheSameMails
    <3> QED
      BY <1>6, <2>2, <3>1, <3>2, <3>3
  <2> QED
    BY <2>1, <2>2
<1>17. RowsTell'
  <2> SUFFICES ASSUME NEW d \in Challenges, challenge'[d].status # "none", Flying(d)' = {}
               PROVE  RowTells(d, challenge[d], 0)'
    BY DEF RowsTell
  <2>1. d # c
    BY <1>4, <1>6, <1>7 DEF Flying
  <2>2. PICK x : x = challenge[d]
    OBVIOUS
  <2>3. RowTells(d, x, 0)
    BY <1>6, <1>9, <2>1, <2>2 DEF RowsTell
  <2>4. RowTells(d, x, 0)'
    BY <1>1, <1>7, <2>3, RowTellsOfTheSameMails
  <2> QED
    BY <1>6, <2>1, <2>2, <2>4
<1> QED
  BY <1>11, <1>12, <1>16, <1>17

\* A request ends, with or without a mail, and leaves a row that tells of the
\* mails, or none.
Lands(r, c, row) ==
    /\ challenge' = [challenge EXCEPT ![c] = row]
    /\ request' = [request EXCEPT ![r] = Idle]
    /\ UNCHANGED <<now, rows, codes>>
    /\ unsure \subseteq unsure'
    /\ \E acknowledged \in BOOLEAN : inbox' \in {inbox, inbox \cup {MailOf(r, acknowledged)}}
    /\ forgiven' \in {forgiven, forgiven \cup {request[r].code}}
    /\ row.status # "none" => RowTells(c, row, 0)'

\* Nobody else is under way with the challenge of a request that ends.
LEMMA LandingKeepsMailIInv ==
  ASSUME MailIInv, SignupIInv', NEW r \in Requests, Busy(r),
         NEW c \in Challenges, c = request[r].token.challenge,
         NEW row, Lands(r, c, row)
  PROVE  MailIInv'
<1> USE DEF MailIInv
<1>a. /\ challenge' = [challenge EXCEPT ![c] = row]
      /\ request' = [request EXCEPT ![r] = Idle]
      /\ UNCHANGED <<now, rows, codes>>
      /\ unsure \subseteq unsure'
      /\ forgiven' \in {forgiven, forgiven \cup {request[r].code}}
      /\ row.status # "none" => RowTells(c, row, 0)'
  BY DEF Lands
<1>b. PICK acknowledged : inbox' \in {inbox, inbox \cup {MailOf(r, acknowledged)}}
  BY DEF Lands
<1> USE <1>a, <1>b
<1>1. /\ SignupTypeOK
      /\ DOMAIN challenge = Challenges /\ DOMAIN request = Requests
      /\ request[r].code <= codes /\ c <= rows
  BY DEF SignupIInv, SignupTypeOK, OneFlight
<1>2. /\ request'[r] = Idle /\ challenge'[c] = row
      /\ \A s \in Requests : s # r => request'[s] = request[s]
      /\ \A d \in Challenges : d # c => challenge'[d] = challenge[d]
  BY <1>1
<1>3. /\ MailOf(r, acknowledged).token = request[r].token
      /\ MailOf(r, acknowledged).code = request[r].code
  BY DEF MailOf
<1>4. \A d : d # c => SameMails(d)
  <2>1. OwnMail(request[r]) /\ request[r].token.challenge = c
    BY DEF FlightsTell, FlightTells
  <2>2. \A m \in inbox' : m.code = request[r].code => m.token.challenge = c
    <3>1. \A m \in inbox : m.code = request[r].code => m.token.challenge = c
      BY <2>1 DEF OwnMail
    <3> QED
      BY <1>3, <2>1, <3>1
  <2>3. \A m \in inbox' : m.token.challenge # c => m \in inbox
    BY <1>3, <2>1
  <2>4. inbox \subseteq inbox'
    OBVIOUS
  <2>5. ASSUME NEW d, d # c
        PROVE  Acknowledged(d)' = Acknowledged(d)
    BY <2>3, <2>4, <2>5 DEF Acknowledged
  <2>6. ASSUME NEW d, d # c, NEW code
        PROVE  Weighed(d, code)' = Weighed(d, code)
    <3>1. \A m \in inbox' : m.token.challenge = d => (m.code \in forgiven' <=> m.code \in forgiven)
      BY <2>2, <2>6
    <3> QED
      BY <2>3, <2>4, <2>6, <3>1 DEF Weighed
  <2> QED
    BY <2>5, <2>6 DEF SameMails
<1>5. /\ ~Busy(r)'
      /\ \A s \in Requests : s # r => (Busy(s)' <=> Busy(s))
      /\ \A s \in Requests : s # r /\ Busy(s) => /\ request[s].token.challenge # c
                                                 /\ request[s].code # request[r].code
  BY <1>2, RecordTypes DEF Busy, OneFlight
<1>6. \A d \in Challenges : d # c => Flying(d)' = Flying(d)
  BY <1>2, <1>5 DEF Flying
<1>7. MailsAreOfRows'
  <2>1. IsFiniteSet(inbox')
    BY FS_AddElement DEF MailsAreOfRows
  <2> QED
    BY <1>1, <1>3, <2>1 DEF MailsAreOfRows
<1>8. OneFlight'
  <2>1. \A q : InTime(q)' <=> InTime(q)
    BY DEF InTime
  <2> SUFFICES ASSUME NEW s \in Requests, Busy(s)'
               PROVE  /\ request'[s].token.challenge <= rows' /\ request'[s].code <= codes'
                      /\ InTime(request'[s])
                      /\ \A t \in Requests :
                            /\ Busy(t)'
                            /\ \/ request'[t].token.challenge = request'[s].token.challenge
                               \/ request'[t].code = request'[s].code
                            => t = s
    BY <2>1 DEF OneFlight, InTime
  <2> QED
    BY <1>2, <1>5 DEF OneFlight
<1>9. FlightsTell'
  <2> SUFFICES ASSUME NEW s \in Requests, Busy(s)'
               PROVE  FlightTells(request[s].token.challenge, challenge[request[s].token.challenge], request[s])'
    BY DEF FlightsTell
  <2>1. s # r /\ Busy(s)
    BY <1>5
  <2>2. PICK d, x, p : d \in Challenges /\ d = request[s].token.challenge /\ x = challenge[d] /\ p = request[s]
    BY <1>1, <2>1, MailTypes
  <2>3. FlightTells(d, x, p) /\ d # c
    BY <1>5, <2>1, <2>2 DEF FlightsTell
  <2>a. \A m \in inbox' : m.code = p.code => m \in inbox
    BY <1>3, <1>5, <2>1, <2>2
  <2>4. FlightTells(d, x, p)'
    BY <1>4, <2>3, <2>a, FlightTellsOfTheSameMails
  <2> QED
    BY <1>2, <2>1, <2>2, <2>3, <2>4
<1>10. RowsTell'
  <2> SUFFICES ASSUME NEW d \in Challenges, challenge'[d].status # "none", Flying(d)' = {}
               PROVE  RowTells(d, challenge[d], 0)'
    BY DEF RowsTell
  <2>1. CASE d = c
    BY <1>2, <2>1
  <2>2. CASE d # c
    <3>1. PICK x : x = challenge[d]
      OBVIOUS
    <3>2. RowTells(d, x, 0)
      BY <1>2, <1>6, <2>2, <3>1 DEF RowsTell
    <3>3. RowTells(d, x, 0)'
      BY <1>4, <2>2, <3>2, RowTellsOfTheSameMails
    <3> QED
      BY <1>2, <2>2, <3>1, <3>3
  <2> QED
    BY <2>1, <2>2
<1> QED
  BY <1>7, <1>8, <1>9, <1>10

\* An acknowledged mail is the newest of its row; a failed one changes none
\* that is acknowledged, and the row written back tells of them as it did
\* before.
LEMMA ProviderStepKeepsMailIInv ==
  ASSUME MailIInv, SignupIInv', NEW r \in Requests, ProviderStep(r)
  PROVE  MailIInv'
<1> USE DEF MailIInv
<1>1. Busy(r)
  BY DEF ProviderStep, MailAccepted, MailFails, Recover, RequestDies, Busy
<1>2. PICK c \in Challenges : c = request[r].token.challenge
  BY <1>1, MailTypes DEF SignupIInv
<1>3. PICK old, q : old = challenge[c] /\ q = request[r]
  OBVIOUS
<1>4. FlightTells(c, old, q)
  BY <1>1, <1>2, <1>3 DEF FlightsTell
<1>5. /\ SignupTypeOK /\ old \in Row /\ q \in InFlight /\ challenge \in [Challenges -> Row]
      /\ q.token = request[r].token /\ q.code \in Nat /\ q.prior \in Row
      /\ request \in [Requests -> InFlight \cup {Idle}]
  BY <1>1, <1>3, MailTypes DEF SignupIInv, SignupTypeOK
<1>6. challenge = [challenge EXCEPT ![c] = old]
  BY <1>3, <1>5
<1>7. \A acknowledged : /\ MailOf(r, acknowledged).token = q.token
                        /\ MailOf(r, acknowledged).code = q.code
                        /\ MailOf(r, acknowledged).acknowledged = acknowledged
  BY <1>3 DEF MailOf
\* A mail that is not acknowledged is no answer to anything.
<1>8. ASSUME inbox' \in {inbox, inbox \cup {MailOf(r, FALSE)}}
      PROVE  \A d : Acknowledged(d)' = Acknowledged(d)
  BY <1>7, <1>8 DEF Acknowledged
<1>9. /\ Cardinality(Counted(c, old, q.code)) \in Nat /\ old.windowCount \in Nat
      /\ old.windowStart \in Nat /\ old.tokenExpires \in Nat
      /\ IsFiniteSet(Counted(c, old, q.code))
  BY <1>5, CountedIsFinite DEF Row
\* Whatever becomes of the call, the row has counted one mail of this request.
<1>a. ASSUME NEW m, \A n \in inbox' : (n \in inbox /\ n.code # q.code) \/ n = m,
             m.token = q.token, forgiven' = forgiven
      PROVE  /\ Cardinality(Counted(c, old, 0))' <= old.windowCount
             /\ \A n \in Weighed(c, 0)' : n.token.expires <= old.tokenExpires
  <2>1. Counted(c, old, 0)' \subseteq Counted(c, old, q.code) \cup {m}
    BY <1>a DEF Counted, Weighed, SentAt
  <2>2. PICK S, T : S = Counted(c, old, q.code) /\ T = Counted(c, old, 0)'
    OBVIOUS
  <2>3. /\ IsFiniteSet(S) /\ Cardinality(S) + 1 <= old.windowCount
        /\ T \subseteq S \cup {m}
    BY <1>4, <1>9, <2>1, <2>2 DEF FlightTells
  <2>6. Cardinality(T) <= old.windowCount
    BY <1>9, <2>3, OneMailMore
  <2>7. \A n \in Weighed(c, 0)' : n \in Weighed(c, q.code) \/ n = m
    BY <1>a DEF Weighed
  <2>8. q.token.expires <= old.tokenExpires
    BY <1>4, <1>9 DEF FlightTells
  <2>9. \A n \in Weighed(c, q.code) : n.token.expires <= old.tokenExpires
    BY <1>4 DEF FlightTells
  <2>10. \A n \in Weighed(c, 0)' : n.token.expires <= old.tokenExpires
    BY <1>a, <2>7, <2>8, <2>9
  <2> QED
    BY <2>2, <2>6, <2>10
<1>b. OwnMail(q)
  BY <1>4 DEF FlightTells
<1>10. old.nextSend # Null /\ old.nextSend + FlowTokenLifetime = old.tokenExpires + Cooldown
  <2>1. q.since \in Nat
    BY <1>1, <1>3, <1>5, MailTypes
  <2> QED
    BY <1>4, <2>1, MailLimits DEF FlightTells, Null
<1>11. CASE MailAccepted(r)
  <2>1. /\ inbox' = inbox \cup {MailOf(r, TRUE)} /\ request' = [request EXCEPT ![r] = Idle]
        /\ q.step = "sending"
        /\ UNCHANGED <<now, rows, codes, challenge, unsure, forgiven>>
    BY <1>3, <1>11 DEF MailAccepted
  <2>2. PICK m : m = MailOf(r, TRUE)
    OBVIOUS
  <2>3. /\ m.token = q.token /\ m.code = q.code /\ m.acknowledged
        /\ m.token.challenge = c
    BY <1>2, <1>3, <1>7, <2>2
  <2>4. Acknowledged(c)' = Acknowledged(c) \cup {m}
    BY <2>1, <2>2, <2>3 DEF Acknowledged
  <2>5. \A n \in inbox' : (n \in inbox /\ n.code # q.code) \/ n = m
    BY <1>b, <2>1, <2>2 DEF OwnMail
  <2>6. \A n \in Acknowledged(c)' : n.code <= m.code
    BY <1>4, <1>5, <2>3, <2>4 DEF FlightTells
  <2>7. m.code = old.otp /\ m.token.expires = old.tokenExpires /\ m \in Acknowledged(c)'
    BY <1>4, <2>3, <2>4 DEF FlightTells
  <2>8. RowTells(c, old, 0)'
    <3>1. /\ Cardinality(Counted(c, old, 0))' <= old.windowCount
          /\ \A n \in Weighed(c, 0)' : n.token.expires <= old.tokenExpires
      BY <1>a, <2>1, <2>3, <2>5
    <3> QED
      BY <1>4, <1>10, <2>6, <2>7, <3>1 DEF RowTells, FlightTells
  <2>9. challenge' = [challenge EXCEPT ![c] = old]
    BY <1>6, <2>1
  <2>10. inbox' \in {inbox, inbox \cup {MailOf(r, TRUE)}} /\ unsure \subseteq unsure'
    BY <2>1
  <2>11. UNCHANGED <<now, rows, codes, forgiven>> /\ request' = [request EXCEPT ![r] = Idle]
    BY <2>1
  <2>12. old.status # "none" => RowTells(c, old, 0)'
    BY <2>8
  <2>13. Lands(r, c, old)
    BY <2>9, <2>10, <2>11, <2>12 DEF Lands
  <2> QED
    BY <1>1, <1>2, <2>13, LandingKeepsMailIInv
<1>12. CASE RequestDies(r)
  <2>1. /\ inbox' \in {inbox, inbox \cup {MailOf(r, FALSE)}} /\ request' = [request EXCEPT ![r] = Idle]
        /\ UNCHANGED <<now, rows, codes, challenge, forgiven>>
        /\ unsure' = unsure \cup {q.code}
    BY <1>3, <1>12 DEF RequestDies
  <2>2. PICK m : m = MailOf(r, FALSE)
    OBVIOUS
  <2>3. m.token = q.token
    BY <1>7, <2>2
  <2>a. \A n \in inbox' : (n \in inbox /\ n.code # q.code) \/ n = m
    <3>1. m = [token |-> q.token, code |-> q.code, acknowledged |-> FALSE]
      BY <1>3, <2>2 DEF MailOf
    <3> QED
      BY <1>b, <2>1, <2>2, <3>1 DEF OwnMail
  <2>b. RowTells(c, old, 0)'
    <3>1. /\ Cardinality(Counted(c, old, 0))' <= old.windowCount
          /\ \A n \in Weighed(c, 0)' : n.token.expires <= old.tokenExpires
      BY <1>a, <2>1, <2>3, <2>a
    <3>2. old.otp \in unsure'
      BY <1>4, <2>1 DEF FlightTells
    <3>3. old.windowCount <= MaxSendsPerWindow
      BY <1>4 DEF FlightTells
    <3> QED
      BY <1>10, <3>1, <3>2, <3>3 DEF RowTells
  <2>4. challenge' = [challenge EXCEPT ![c] = old] /\ unsure \subseteq unsure'
    BY <1>6, <2>1
  <2>5. UNCHANGED <<now, rows, codes, forgiven>> /\ request' = [request EXCEPT ![r] = Idle]
    BY <2>1
  <2>6. inbox' \in {inbox, inbox \cup {MailOf(r, FALSE)}}
    BY <2>1
  <2>7. old.status # "none" => RowTells(c, old, 0)'
    BY <2>b
  <2>8. Lands(r, c, old)
    BY <2>4, <2>5, <2>6, <2>7 DEF Lands
  <2> QED
    BY <1>1, <1>2, <2>8, LandingKeepsMailIInv
\* The mail of this request is forgiven together with its count.
<1>13. CASE Recover(r)
  <2> DEFINE row == IF q.recovery = "delete_new_challenge" THEN NoRow
                    ELSE IF old = NoRow THEN NoRow ELSE RestoredRow(old, q.prior)
  <2>1. /\ challenge' = [challenge EXCEPT ![c] = row]
        /\ request' = [request EXCEPT ![r] = Idle]
        /\ forgiven' = forgiven \cup {q.code}
        /\ UNCHANGED <<now, rows, codes, inbox, unsure>>
    BY <1>2, <1>3, <1>13 DEF Recover
  <2>2. PICK x : x = row
    OBVIOUS
  <2>a. /\ Weighed(c, 0)' = Weighed(c, q.code)
        /\ Acknowledged(c)' = Acknowledged(c)
    <3>1. \A m \in inbox : m.code # 0
      BY <1>5 DEF SignupTypeOK, Mail, Codes
    <3> QED
      BY <2>1, <3>1 DEF Weighed, Acknowledged
  <2>3. x.status # "none" => RowTells(c, x, 0)'
    <3> SUFFICES ASSUME x.status # "none"
                 PROVE  RowTells(c, x, 0)'
      OBVIOUS
    <3>1. q.recovery = "restore_existing_challenge_state" /\ x = RestoredRow(old, q.prior)
      <4>1. q.recovery \in {"delete_new_challenge", "restore_existing_challenge_state"}
        BY <1>5 DEF InFlight
      <4> QED
        BY <2>2, <4>1, RecordTypes
    <3>2. RowTells(c, q.prior, q.code)
      BY <1>4, <3>1 DEF FlightTells
    <3>3. /\ x.nextSend = q.prior.nextSend /\ x.tokenExpires = q.prior.tokenExpires
          /\ x.windowCount = q.prior.windowCount /\ x.windowStart = q.prior.windowStart
          /\ x.otp = q.prior.otp
      BY <1>5, <3>1 DEF RestoredRow, Row
    <3>4. Counted(c, x, 0)' = Counted(c, q.prior, q.code)
      BY <2>a, <3>3 DEF Counted, SentAt
    <3> QED
      BY <2>1, <2>a, <3>2, <3>3, <3>4 DEF RowTells
  <2>4. challenge' = [challenge EXCEPT ![c] = x] /\ unsure \subseteq unsure'
        /\ inbox' \in {inbox, inbox \cup {MailOf(r, FALSE)}}
    BY <2>1, <2>2
  <2>5. Lands(r, c, x)
    BY <1>3, <2>1, <2>3, <2>4 DEF Lands
  <2> QED
    BY <1>1, <1>2, <2>5, LandingKeepsMailIInv
\* The request goes on to its recovery; nothing it knows changes.
<1>14. CASE MailFails(r)
  <2>1. /\ inbox' \in {inbox, inbox \cup {MailOf(r, FALSE)}}
        /\ request' = [request EXCEPT ![r].step = "recovering"]
        /\ q.step = "sending"
        /\ UNCHANGED <<now, rows, challenge, codes, unsure, forgiven>>
    BY <1>3, <1>14 DEF MailFails
  <2>2. /\ request'[r].step = "recovering" /\ request'[r].token = q.token /\ request'[r].code = q.code
        /\ request'[r].since = q.since /\ request'[r].recovery = q.recovery
        /\ request'[r].prior = q.prior
    BY <1>3, <1>5, <2>1 DEF InFlight
  <2>3. \A s \in Requests : s # r => request'[s] = request[s]
    BY <1>5, <2>1
  <2>4. \A s \in Requests : Busy(s)' <=> Busy(s)
    BY <1>1, <2>2, <2>3 DEF Busy
  <2>5. \A d \in Challenges : Flying(d)' = Flying(d)
    BY <1>3, <2>2, <2>3, <2>4 DEF Flying
  <2>6. \A d : Acknowledged(d)' = Acknowledged(d)
    BY <1>8, <2>1
  <2>a. \A d \in Challenges : d # c => SameMails(d)
    <3>1. \A n \in inbox' : n.token.challenge # c => n \in inbox
      BY <1>2, <1>3, <1>7, <2>1
    <3> QED
      BY <2>1, <2>6, <3>1 DEF SameMails, Weighed
  <2>b. Weighed(c, q.code)' = Weighed(c, q.code)
    BY <1>7, <2>1 DEF Weighed
  <2>7. MailsAreOfRows'
    <3>1. IsFiniteSet(inbox')
      BY <2>1, FS_AddElement DEF MailsAreOfRows
    <3>2. q.code <= codes /\ q.token.challenge <= rows
      BY <1>1, <1>3 DEF OneFlight
    <3> QED
      BY <1>7, <2>1, <3>1, <3>2 DEF MailsAreOfRows
  <2>8. OneFlight'
    <3>1. \A s \in Requests : /\ request'[s].token = request[s].token
                              /\ request'[s].code = request[s].code
                              /\ request'[s].since = request[s].since
      BY <1>3, <2>2, <2>3
    <3> QED
      BY <2>1, <2>4, <3>1 DEF OneFlight, InTime
  <2>9. FlightsTell'
    <3> SUFFICES ASSUME NEW s \in Requests, Busy(s)'
                 PROVE  FlightTells(request[s].token.challenge, challenge[request[s].token.challenge], request[s])'
      BY DEF FlightsTell
    <3>1. CASE s = r
      <4>1. PICK p, code : p = request'[r] /\ code = q.code
        OBVIOUS
      <4>2. Counted(c, old, code)' = Counted(c, old, code)
        BY <2>b, <4>1 DEF Counted, SentAt
      <4>3. RowTells(c, q.prior, code) => RowTells(c, q.prior, code)'
        <5>1. PICK prior : prior = q.prior
          OBVIOUS
        <5>2. Counted(c, prior, code)' = Counted(c, prior, code)
          BY <2>b, <4>1 DEF Counted, SentAt
        <5>3. RowTells(c, prior, code) => RowTells(c, prior, code)'
          BY <2>1, <2>6, <2>b, <4>1, <5>2 DEF RowTells
        <5> QED
          BY <5>1, <5>3
      <4>4. OwnMail(p)'
        <5>1. MailOf(r, FALSE) = [token |-> q.token, code |-> q.code, acknowledged |-> FALSE]
          BY <1>3 DEF MailOf
        <5>2. p.step = "recovering" /\ p.token = q.token /\ p.code = q.code
          BY <2>2, <4>1
        <5>3. \A n \in inbox : n.code # q.code
          BY <1>b, <2>1 DEF OwnMail
        <5> QED
          BY <2>1, <5>1, <5>2, <5>3 DEF OwnMail
      <4>5. FlightTells(c, old, p)'
        BY <1>4, <2>2, <2>6, <2>b, <4>1, <4>2, <4>3, <4>4 DEF FlightTells
      <4> QED
        BY <1>2, <1>3, <2>1, <2>2, <3>1, <4>1, <4>5
    <3>2. CASE s # r
      <4>1. PICK d, x, p : d \in Challenges /\ d = request[s].token.challenge /\ x = challenge[d] /\ p = request[s]
        BY <1>5, <2>4, MailTypes
      <4>2. FlightTells(d, x, p)
        BY <2>4, <4>1 DEF FlightsTell
      <4>3. d # c /\ p.code # q.code
        BY <1>1, <1>2, <1>3, <2>4, <3>2, <4>1 DEF OneFlight
      <4>4. \A m \in inbox' : m.code = p.code => m \in inbox
        BY <1>7, <2>1, <4>3
      <4>5. FlightTells(d, x, p)'
        BY <2>a, <4>1, <4>2, <4>3, <4>4, FlightTellsOfTheSameMails
      <4> QED
        BY <2>1, <2>3, <3>2, <4>1, <4>5
    <3> QED
      BY <3>1, <3>2
  <2>10. RowsTell'
    <3> SUFFICES ASSUME NEW d \in Challenges, challenge'[d].status # "none", Flying(d)' = {}
                 PROVE  RowTells(d, challenge[d], 0)'
      BY DEF RowsTell
    <3>1. PICK x : x = challenge[d]
      OBVIOUS
    <3>2. RowTells(d, x, 0) /\ d # c
      <4>1. r \in Flying(c)
        BY <1>1, <1>2 DEF Flying
      <4> QED
        BY <2>1, <2>5, <3>1, <4>1 DEF RowsTell
    <3>3. RowTells(d, x, 0)'
      BY <2>a, <3>2, RowTellsOfTheSameMails
    <3> QED
      BY <2>1, <3>1, <3>3
  <2> QED
    BY <2>7, <2>8, <2>9, <2>10
<1> QED
  BY <1>11, <1>12, <1>13, <1>14 DEF ProviderStep

\* A new code is issued for a row that nothing is under way with.
LEMMA RouteStepKeepsMailIInv ==
  ASSUME MailIInv, SignupIInv', NEW r \in Requests, RouteStep(r)
  PROVE  MailIInv'
<1> USE DEF MailIInv
<1>1. SignupTypeOK /\ rows \in Nat
  BY DEF SignupIInv, SignupTypeOK
<1>2. ASSUME NEW c \in Challenges, SignupCreates(r, c)
      PROVE  MailIInv'
  <2>1. /\ c = rows + 1 /\ rows' = c /\ ~Busy(r) /\ Issue(r, c, "delete_new_challenge")
    BY <1>2 DEF SignupCreates
  <2>2. Flying(c) = {}
    BY <1>1, <2>1 DEF Flying, OneFlight
  <2>3. \A m \in inbox : m.token.challenge # c
    BY <1>1, <2>1, MailTypes DEF MailsAreOfRows, Challenges
  <2>4. rows' \in Nat /\ rows' >= rows /\ c <= rows'
    BY <1>1, <2>1
  <2> QED
    BY <2>1, <2>2, <2>3, <2>4, IssueKeepsMailIInv
<1>3. ASSUME NEW c \in Challenges, Pending(c), ~Busy(r), ~CoolingDown(challenge[c]), rows' = rows,
             Issue(r, c, "restore_existing_challenge_state")
      PROVE  MailIInv'
  <2>1. challenge[c].status # "none" /\ c <= rows
    BY <1>1, <1>3 DEF Pending, SignupIInv, FreshChallenges, Challenges
  <2>2. Flying(c) = {}
    BY <1>3, NothingFliesAfterTheCooldown
  <2>3. rows' \in Nat /\ rows' >= rows /\ c <= rows'
    BY <1>1, <1>3, <2>1
  <2> QED
    BY <1>3, <2>1, <2>2, <2>3, IssueKeepsMailIInv
<1>4. ASSUME NEW c \in Challenges, SignupRefreshes(r, c)
      PROVE  MailIInv'
  BY <1>3, <1>4 DEF SignupRefreshes
<1>5. ASSUME NEW token, Resend(r, token)
      PROVE  MailIInv'
  BY <1>3, <1>5 DEF Resend, Finds
<1> QED
  BY <1>2, <1>4, <1>5 DEF RouteStep

\* Reused tokens, verifications and rejections send nothing.
LEMMA UserStepKeepsMailIInv ==
  ASSUME MailIInv, SignupIInv', SignupUserStep
  PROVE  MailIInv'
<1>1. challenge \in [Challenges -> Row]
  BY DEF MailIInv, SignupIInv, SignupTypeOK
<1>2. ASSUME UNCHANGED <<now, rows, challenge, request, codes, inbox, unsure, forgiven>>
      PROVE  MailIInv'
  BY <1>2, QuietStepKeepsMailIInv
<1>3. ASSUME NEW token, NEW code, VerifyRight(token, code)
      PROVE  MailIInv'
  <2>1. PICK c \in Challenges :
            /\ challenge[c].status = "pending"
            /\ challenge' = [challenge EXCEPT ![c].status = "consumed"]
            /\ UNCHANGED <<now, rows, request, codes, inbox, unsure, forgiven>>
    BY <1>3 DEF VerifyRight, Finds, Pending
  <2>2. \A d \in Challenges : challenge'[d] = IF d = c THEN [challenge[c] EXCEPT !.status = "consumed"]
                                              ELSE challenge[d]
    BY <1>1, <2>1
  <2> QED
    BY <2>1, <2>2, QuietStepKeepsMailIInv
<1>4. \A c \in Challenges : SignupReuses(c) => MailIInv'
  BY <1>2 DEF SignupReuses
<1>5. \A token : ResendTooLate(token) \/ VerifyTooLate(token) => MailIInv'
  BY <1>2 DEF ResendTooLate, VerifyTooLate, RaiseWith, AfterRaise
<1>6. \A token, code : VerifyWrong(token, code) => MailIInv'
  BY <1>2 DEF VerifyWrong, RaiseWith, AfterRaise
<1> QED
  BY <1>3, <1>4, <1>5, <1>6 DEF SignupUserStep

\* Every step of the signup keeps the invariant of the mails.
LEMMA SignupNextKeepsMailIInv ==
  ASSUME MailIInv, [SignupNext]_signupVars
  PROVE  MailIInv'
<1>1. SignupIInv'
  BY SignupNextKeepsIInv, SignupStutterKeepsIInv DEF MailIInv
<1>2. CASE UNCHANGED signupVars
  BY <1>1, <1>2, QuietStepKeepsMailIInv DEF signupVars, signup
<1>3. CASE SignupTick
  BY <1>1, <1>3, QuietStepKeepsMailIInv DEF SignupTick, signup
<1>4. CASE SignupUserStep
  BY <1>1, <1>4, UserStepKeepsMailIInv
<1>5. CASE \E r \in Requests : RouteStep(r) \/ ProviderStep(r)
  BY <1>1, <1>5, RouteStepKeepsMailIInv, ProviderStepKeepsMailIInv
<1> QED
  BY <1>2, <1>3, <1>4, <1>5 DEF SignupNext

\* The invariant of the mails holds in every state.
LEMMA MailsInductive == SignupSpec => []MailIInv
BY MailInitHolds, SignupNextKeepsMailIInv, PTL DEF SignupSpec

\* Whatever signups, resends, failures of the provider, recoveries and deaths
\* of requests interleave, for any number of requests, codes and rows: a
\* settled flow answers to the newest mail the provider acknowledged
\* (src/users/signup_email/).
THEOREM TheNewestMailWorks == SignupSpec => []NewestMailWorks
<1>1. MailIInv => NewestMailWorks
  <2> SUFFICES ASSUME MailIInv, NEW c \in Challenges, Pending(c), Flying(c) = {},
                      challenge[c].otp \notin unsure
               PROVE  \E m \in Acknowledged(c) :
                         /\ m.code = challenge[c].otp
                         /\ m.token = TokenOf(c)
                         /\ \A n \in Acknowledged(c) : n.code <= m.code
    BY DEF NewestMailWorks
  <2>1. RowTells(c, challenge[c], 0)
    BY DEF MailIInv, RowsTell, Pending
  <2>2. PICK m \in Acknowledged(c) : /\ m.code = challenge[c].otp
                                     /\ m.token.expires = challenge[c].tokenExpires
                                     /\ \A n \in Acknowledged(c) : n.code <= m.code
    BY <2>1 DEF RowTells
  <2>3. m.token \in Token /\ m.token.challenge = c
    BY MailTypes DEF MailIInv, SignupIInv, Acknowledged
  <2>4. m.token = TokenOf(c)
    BY <2>2, <2>3 DEF Token, TokenOf
  <2> QED
    BY <2>2, <2>4
<1> QED
  BY <1>1, MailsInductive, PTL

\* A cooldown that runs belongs to a mail that was acknowledged, is under way or
\* was lost with its request.  The budget counts every mail that reached the
\* address in its window, acknowledged or not, but for those the recovery of a
\* failed call has forgiven, and never more than its limit.
THEOREM LimitsTellOfMails == SignupSpec => []CooldownAndBudgetTellOfMails
<1>1. MailIInv => CooldownAndBudgetTellOfMails
  <2> SUFFICES ASSUME MailIInv, NEW c \in Challenges, challenge[c].status # "none"
               PROVE  LET row == challenge[c] IN
                      /\ CoolingDown(row) =>
                            \/ \E m \in Acknowledged(c) : SentAt(m) + Cooldown = row.nextSend
                            \/ \E r \in Flying(c) : request[r].since + Cooldown = row.nextSend
                            \/ row.otp \in unsure
                      /\ Cardinality({m \in Unforgiven(c) : SentAt(m) >= row.windowStart})
                            <= row.windowCount
                      /\ row.windowCount <= MaxSendsPerWindow
    BY DEF CooldownAndBudgetTellOfMails, Pending
  <2>1. Counted(c, challenge[c], 0) = {m \in Unforgiven(c) : SentAt(m) >= challenge[c].windowStart}
    <3>1. \A m \in inbox : m.code # 0
      BY DEF MailIInv, SignupIInv, SignupTypeOK, Mail, Codes
    <3> QED
      BY <3>1 DEF Counted, Weighed, Unforgiven
  <2>2. CASE Flying(c) = {}
    <3>1. RowTells(c, challenge[c], 0)
      BY <2>2 DEF MailIInv, RowsTell
    <3>2. challenge[c].otp \notin unsure =>
              \E m \in Acknowledged(c) : SentAt(m) + Cooldown = challenge[c].nextSend
      <4> SUFFICES ASSUME challenge[c].otp \notin unsure
                   PROVE  \E m \in Acknowledged(c) : SentAt(m) + Cooldown = challenge[c].nextSend
        OBVIOUS
      <4>1. PICK m \in Acknowledged(c) : m.token.expires = challenge[c].tokenExpires
        BY <3>1 DEF RowTells
      <4>2. challenge[c].nextSend \in Nat /\ m.token.expires \in Nat
        BY MailTypes DEF MailIInv, SignupIInv, Acknowledged, Row
      <4> QED
        BY <3>1, <4>1, <4>2, MailLimits DEF RowTells, SentAt
    <3> QED
      BY <2>1, <3>1, <3>2 DEF RowTells
  <2>3. CASE Flying(c) # {}
    <3>1. PICK r \in Flying(c) : TRUE
      BY <2>3
    <3>2. FlightTells(c, challenge[c], request[r])
      BY <3>1 DEF MailIInv, FlightsTell, Flying
    <3>3. challenge[c].windowCount \in Nat
      BY MailTypes DEF MailIInv, SignupIInv, Row
    <3>4. Cardinality(Counted(c, challenge[c], 0)) <= challenge[c].windowCount
      <4>1. PICK m, code, S : /\ m = [token |-> request[r].token, code |-> code, acknowledged |-> FALSE]
                              /\ code = request[r].code /\ S = Counted(c, challenge[c], code)
        OBVIOUS
      <4>2. Counted(c, challenge[c], 0) \subseteq S \cup {m}
        BY <3>2, <4>1 DEF FlightTells, OwnMail, Counted, Weighed
      <4>3. IsFiniteSet(S) /\ Cardinality(S) + 1 <= challenge[c].windowCount
        BY <3>2, <4>1, CountedIsFinite DEF MailIInv, FlightTells
      <4> QED
        BY <3>3, <4>2, <4>3, OneMailMore
    <3> QED
      BY <2>1, <3>1, <3>2, <3>4 DEF FlightTells
  <2> QED
    BY <2>2, <2>3
<1> QED
  BY <1>1, MailsInductive, PTL

-----------------------------------------------------------------------------
(* The password: links set one password each, and a new password ends the   *)
(* open sessions.                                                           *)

\* A token that is not generated yet has no history and no row.
FreshTokens ==
    /\ links \in 0..MaxLinks
    /\ \A p \in Purposes : link[p].token <= links
    /\ \A t \in Links : t > links => uses[t] = 0
    /\ outbox \cup held \subseteq 1..links

\* A row without a token is the empty one, and no two rows share a token.
TokensAreOfOneLink ==
    /\ \A p \in Purposes : link[p].token = 0 => link[p] = NoLink
    /\ \A p, q \in Purposes : link[p].token = link[q].token /\ link[p].token # 0 => p = q

AccessIInv ==
    /\ AccessTypeOK
    /\ sets \in Nat /\ opened \in 0..MaxSessions
    /\ FreshTokens
    /\ TokensAreOfOneLink
    /\ LinksWorkOnce
    /\ SessionsEndWithTheirPassword

\* The conjuncts that speak of links, and those that speak of sessions.
LinkInv == FreshTokens /\ TokensAreOfOneLink /\ LinksWorkOnce
SessionInv == opened \in 0..MaxSessions /\ SessionsEndWithTheirPassword

-----------------------------------------------------------------------------
LEMMA ParamsAreNat ==
    /\ LinkLifetime \in Nat /\ SessionLifetime \in Nat /\ TouchInterval \in Nat
    /\ MaxLinks \in Nat /\ MaxSessions \in Nat
  BY PasswordAccessAssumption DEF PasswordAccessAssumption

LEMMA AccessInitHolds == AccessInit => AccessIInv
<1> SUFFICES ASSUME AccessInit
             PROVE  AccessIInv
  OBVIOUS
<1>1. AccessTypeOK
  <2>1. NoLink \in [token : 0..MaxLinks, expires : Nat]
    BY ParamsAreNat DEF NoLink
  <2>2. NoSession \in [status : {"none", "active", "revoked"}, sets : Nat,
                       expires : Nat, lastSeen : Nat]
    BY DEF NoSession
  <2>3. /\ link \in [Purposes -> [token : 0..MaxLinks, expires : Nat]]
        /\ session \in [Sessions -> [status : {"none", "active", "revoked"}, sets : Nat,
                                     expires : Nat, lastSeen : Nat]]
    BY <2>1, <2>2 DEF AccessInit
  <2>4. uses \in [Links -> Nat] /\ counted \in [Routes -> Nat]
    BY DEF AccessInit
  <2>5. {now, links, sets, opened} \subseteq Nat
    BY DEF AccessInit, ClockInit
  <2>6. /\ signedUp \in BOOLEAN
        /\ outbox \subseteq Links /\ held \subseteq Links
        /\ verified \subseteq Logins
        /\ password \in Passwords \cup {NoPassword}
    BY DEF AccessInit
  <2> QED
    BY <2>3, <2>4, <2>5, <2>6 DEF AccessTypeOK
<1>2. sets \in Nat /\ opened \in 0..MaxSessions
  BY ParamsAreNat DEF AccessInit
<1>3. FreshTokens /\ TokensAreOfOneLink /\ LinksWorkOnce
  BY ParamsAreNat
     DEF AccessInit, FreshTokens, TokensAreOfOneLink, LinksWorkOnce, Links, NoLink
<1>4. SessionsEndWithTheirPassword
  BY DEF AccessInit, SessionsEndWithTheirPassword, Sessions, NoSession
<1> QED
  BY <1>1, <1>2, <1>3, <1>4 DEF AccessIInv

\* What leaves the links and their history alone keeps LinkInv; a token that
\* moves from the outbox to its reader, or is lost, is one generated before.
LEMMA LinksUntouched ==
  ASSUME LinkInv, link' = link, links' = links, uses' = uses,
         outbox' \cup held' \subseteq outbox \cup held
  PROVE  LinkInv'
  BY DEF LinkInv, FreshTokens, TokensAreOfOneLink, LinksWorkOnce

LEMMA SessionsUntouched ==
  ASSUME SessionInv, session' = session, opened' = opened, sets' = sets
  PROVE  SessionInv'
  BY DEF SessionInv, SessionsEndWithTheirPassword

\* A request counts in the window of its route.
LEMMA CountRequestTypes ==
  ASSUME AccessTypeOK, NEW route \in Routes, CountRequest(route)
  PROVE  counted' \in [Routes -> Nat]
  BY DEF AccessTypeOK, CountRequest

\* A new token is greater than every one before it; it replaces the token of its
\* purpose, and is the newest one from then on.
LEMMA NewLink ==
  ASSUME AccessTypeOK, LinkInv, NEW purpose \in Purposes, CreateOrRefreshLink(purpose)
  PROVE  /\ LinkInv'
         /\ links' \in Nat
         /\ link' \in [Purposes -> [token : 0..MaxLinks, expires : Nat]]
         /\ outbox' \subseteq Links /\ held' \subseteq Links
         /\ uses' \in [Links -> Nat]
<1> DEFINE new == links + 1
           row == [token |-> new, expires |-> now + LinkLifetime]
<1>1. /\ links \in Nat /\ now \in Nat
      /\ new \in Links
      /\ row \in [token : 0..MaxLinks, expires : Nat]
  BY ParamsAreNat DEF AccessTypeOK, CreateOrRefreshLink, Links
<1>2. /\ links' = new
      /\ link' = [link EXCEPT ![purpose] = row]
      /\ outbox' = outbox \cup {new}
      /\ held' = held /\ uses' = uses
  BY DEF CreateOrRefreshLink, RefreshedLink
<1>3. /\ link' \in [Purposes -> [token : 0..MaxLinks, expires : Nat]]
      /\ link'[purpose] = row
      /\ \A p \in Purposes : p # purpose => link'[p] = link[p]
  BY <1>1, <1>2 DEF AccessTypeOK
<1>4. row.token = new /\ new > links /\ new # 0
  BY <1>1
<1> HIDE DEF row
<1>5. FreshTokens'
  BY <1>1, <1>2, <1>3, <1>4 DEF LinkInv, FreshTokens, Links, AccessTypeOK
<1>6. TokensAreOfOneLink'
  BY <1>1, <1>2, <1>3, <1>4 DEF LinkInv, FreshTokens, TokensAreOfOneLink, AccessTypeOK
<1>7. LinksWorkOnce'
  <2>1. \A t \in Links : uses'[t] <= 1
    BY <1>2 DEF LinkInv, LinksWorkOnce
  <2>2. \A p \in Purposes : link'[p] # NoLink => uses'[link'[p].token] = 0
    BY <1>1, <1>2, <1>3, <1>4 DEF LinkInv, LinksWorkOnce, FreshTokens
  <2>3. \E p \in Purposes : link'[p].token = links'
    BY <1>2, <1>3, <1>4
  <2> QED
    BY <2>1, <2>2, <2>3 DEF LinksWorkOnce
<1> QED
  BY <1>1, <1>2, <1>3, <1>5, <1>6, <1>7 DEF LinkInv, AccessTypeOK, Links

\* The link that sets a password goes with it: what is left pending is unused.
LEMMA SetKeepsLinkInv ==
  ASSUME AccessTypeOK, LinkInv, NEW p \in Purposes, NEW token \in held,
         link[p].token = token,
         link' = WithoutLink(p), uses' = [uses EXCEPT ![token] = @ + 1],
         UNCHANGED <<links, outbox, held>>
  PROVE  /\ LinkInv'
         /\ link' \in [Purposes -> [token : 0..MaxLinks, expires : Nat]]
         /\ uses' \in [Links -> Nat]
<1>1. token \in Links /\ token # 0 /\ token <= links /\ links \in Nat
  BY DEF AccessTypeOK, LinkInv, FreshTokens, Links
<1>2. NoLink \in [token : 0..MaxLinks, expires : Nat] /\ NoLink.token = 0
  BY ParamsAreNat DEF NoLink
<1>3. /\ link' \in [Purposes -> [token : 0..MaxLinks, expires : Nat]]
      /\ link'[p] = NoLink
      /\ \A q \in Purposes : q # p => link'[q] = link[q]
  BY <1>2 DEF AccessTypeOK, WithoutLink
<1>4. /\ uses' \in [Links -> Nat]
      /\ uses'[token] = uses[token] + 1
      /\ \A t \in Links : t # token => uses'[t] = uses[t]
  BY <1>1 DEF AccessTypeOK
<1>5. uses[token] = 0
  BY <1>1, <1>2 DEF LinkInv, LinksWorkOnce
<1>6. FreshTokens'
  BY <1>1, <1>2, <1>3, <1>4 DEF LinkInv, FreshTokens
<1>7. TokensAreOfOneLink'
  BY <1>2, <1>3 DEF LinkInv, TokensAreOfOneLink
<1>8. LinksWorkOnce'
  <2>1. \A t \in Links : uses'[t] <= 1
    BY <1>4, <1>5 DEF LinkInv, LinksWorkOnce
  <2>2. ASSUME NEW q \in Purposes, link'[q] # NoLink
        PROVE  uses'[link'[q].token] = 0
    <3>1. q # p /\ link'[q] = link[q]
      BY <1>3, <2>2
    <3>2. link[q].token # 0 /\ link[q].token # token
      BY <1>1, <2>2, <3>1 DEF LinkInv, TokensAreOfOneLink
    <3>3. link[q].token \in Links
      BY <3>2 DEF AccessTypeOK, Links
    <3> QED
      BY <1>4, <2>2, <3>1, <3>2, <3>3 DEF LinkInv, LinksWorkOnce
  <2>3. ASSUME links > 0, uses'[links] = 0
        PROVE  \E q \in Purposes : link'[q].token = links
    <3>1. links # token /\ links \in Links
      BY <1>1, <1>4, <1>5, <2>3 DEF LinkInv, FreshTokens, Links
    <3>2. PICK q \in Purposes : link[q].token = links
      BY <1>4, <2>3, <3>1 DEF LinkInv, LinksWorkOnce
    <3> QED
      BY <1>3, <3>1, <3>2
  <2> QED
    BY <2>1, <2>2, <2>3 DEF LinksWorkOnce
<1> QED
  BY <1>3, <1>4, <1>6, <1>7, <1>8 DEF LinkInv

-----------------------------------------------------------------------------
(* Sessions                                                                 *)

\* A session's row is written as a whole; ended rows never become active again.
SessionRows ==
    [status : {"none", "active", "revoked"}, sets : Nat, expires : Nat, lastSeen : Nat]

\* Every session that was open is revoked, whatever number its password had.
LEMMA SetEndsSessions ==
  ASSUME AccessTypeOK, SessionInv,
         session' = [s \in Sessions |-> EndedSession(s)], opened' = opened
  PROVE  SessionInv' /\ session' \in [Sessions -> SessionRows]
<1>1. \A s \in Sessions : session[s] \in SessionRows
  BY DEF AccessTypeOK, SessionRows
<1>2. \A s \in Sessions : /\ EndedSession(s) \in SessionRows
                         /\ EndedSession(s).status # "active"
  BY <1>1 DEF EndedSession, SessionRows
<1>3. session' \in [Sessions -> SessionRows]
      /\ \A s \in Sessions : session'[s].status # "active"
  BY <1>2
<1> QED
  BY <1>3 DEF SessionInv, SessionsEndWithTheirPassword

\* A session is inserted with the number of the password that holds then.
LEMMA CreateSessionKeepsSessionInv ==
  ASSUME AccessTypeOK, sets \in Nat, SessionInv, NEW l \in Logins, CreateSession(l)
  PROVE  SessionInv' /\ session' \in [Sessions -> SessionRows] /\ opened' \in Nat
<1> DEFINE row == [status |-> "active", sets |-> sets, expires |-> now + SessionLifetime,
                   lastSeen |-> now]
<1>1. opened \in Nat /\ now \in Nat /\ opened + 1 \in Sessions /\ opened + 1 \in 0..MaxSessions
  BY ParamsAreNat DEF AccessTypeOK, CreateSession, Sessions
<1>2. row \in SessionRows /\ row.sets = sets
  BY <1>1, ParamsAreNat DEF SessionRows
<1>3. session' = [session EXCEPT ![opened + 1] = row] /\ opened' = opened + 1 /\ sets' = sets
  BY DEF CreateSession
<1> HIDE DEF row
<1>4. /\ session' \in [Sessions -> SessionRows]
      /\ session'[opened + 1] = row
      /\ \A s \in Sessions : s # opened + 1 => session'[s] = session[s]
  BY <1>1, <1>2, <1>3 DEF AccessTypeOK, SessionRows
<1> QED
  BY <1>1, <1>2, <1>3, <1>4 DEF SessionInv, SessionsEndWithTheirPassword

\* Reading or ending a session changes neither its password's number nor makes
\* it active.
LEMMA TouchKeepsSessionInv ==
  ASSUME AccessTypeOK, SessionInv, NEW s \in Sessions, NEW row \in SessionRows,
         row.sets = session[s].sets, row.status = "active" => session[s].status = "active",
         session' = [session EXCEPT ![s] = row], opened' = opened, sets' = sets
  PROVE  SessionInv' /\ session' \in [Sessions -> SessionRows]
<1>1. /\ session' \in [Sessions -> SessionRows]
      /\ session'[s] = row
      /\ \A q \in Sessions : q # s => session'[q] = session[q]
  BY DEF AccessTypeOK, SessionRows
<1> QED
  BY <1>1 DEF SessionInv, SessionsEndWithTheirPassword

-----------------------------------------------------------------------------
(* Every step                                                               *)

LEMMA LinkStepKeepsIInv == AccessIInv /\ LinkStep => AccessIInv'
<1> SUFFICES ASSUME AccessTypeOK, sets \in Nat, LinkInv, SessionInv, LinkStep
             PROVE  AccessTypeOK' /\ sets' \in Nat /\ LinkInv' /\ SessionInv'
  BY DEF AccessIInv, LinkInv, SessionInv
<1>1. CASE ConfirmAccount
  <2>1. LinkInv' /\ SessionInv'
    BY <1>1, LinksUntouched, SessionsUntouched DEF ConfirmAccount, linkVars, sessionVars
  <2>2. AccessTypeOK' /\ sets' \in Nat
    BY <1>1 DEF ConfirmAccount, linkVars, sessionVars, AccessTypeOK
  <2> QED
    BY <2>1, <2>2
<1>2. CASE RequestReset
  <2>1. SessionInv' /\ counted' \in [Routes -> Nat] /\ sets' \in Nat
    BY <1>2, SessionsUntouched, CountRequestTypes DEF RequestReset, sessionVars, Routes
  <2>2. CASE CreateOrRefreshLink("password_reset")
    <3>1. "password_reset" \in Purposes
      BY DEF Purposes
    <3> QED
      BY <1>2, <2>1, <2>2, <3>1, NewLink DEF RequestReset, sessionVars, AccessTypeOK
  <2>3. CASE UNCHANGED linkVars
    <3>1. LinkInv'
      BY <2>3, LinksUntouched DEF linkVars
    <3> QED
      BY <1>2, <2>1, <2>3, <3>1 DEF RequestReset, linkVars, sessionVars, AccessTypeOK
  <2> QED
    BY <1>2, <2>2, <2>3 DEF RequestReset
<1>3. CASE CreateSetupLink
  <2>1. "password_setup" \in Purposes
    BY DEF Purposes
  <2>2. SessionInv' /\ sets' \in Nat
    BY <1>3, SessionsUntouched DEF CreateSetupLink, sessionVars
  <2> QED
    BY <1>3, <2>1, <2>2, NewLink DEF CreateSetupLink, sessionVars, AccessTypeOK
<1>4. ASSUME NEW t \in Links, LinkArrives(t) \/ LinkIsLost(t)
      PROVE  AccessTypeOK' /\ sets' \in Nat /\ LinkInv' /\ SessionInv'
  <2>1. /\ outbox' \cup held' \subseteq outbox \cup held
        /\ UNCHANGED <<now, signedUp, link, links, uses, password, sets, sessionVars, counted>>
    BY <1>4 DEF LinkArrives, LinkIsLost
  <2>2. LinkInv' /\ SessionInv'
    BY <2>1, LinksUntouched, SessionsUntouched DEF sessionVars
  <2>3. AccessTypeOK' /\ sets' \in Nat
    BY <2>1 DEF sessionVars, AccessTypeOK
  <2> QED
    BY <2>2, <2>3
<1>5. ASSUME NEW t \in held, NEW candidate \in Passwords, CompletePasswordSet(t, candidate)
      PROVE  AccessTypeOK' /\ sets' \in Nat /\ LinkInv' /\ SessionInv'
  <2>1. PICK p \in PurposesOf(t) :
            /\ password' = candidate
            /\ sets' = sets + 1
            /\ link' = WithoutLink(p)
            /\ uses' = [uses EXCEPT ![t] = @ + 1]
            /\ session' = [s \in Sessions |-> EndedSession(s)]
            /\ UNCHANGED <<now, signedUp, links, outbox, held, opened, verified, counted>>
    BY <1>5 DEF CompletePasswordSet
  <2>2. p \in Purposes /\ link[p].token = t
    BY DEF PurposesOf
  <2>3. /\ LinkInv'
        /\ link' \in [Purposes -> [token : 0..MaxLinks, expires : Nat]]
        /\ uses' \in [Links -> Nat]
    BY <2>1, <2>2, SetKeepsLinkInv
  <2>4. SessionInv' /\ session' \in [Sessions -> SessionRows]
    BY <2>1, SetEndsSessions
  <2>5. sets' \in Nat
    BY <2>1
  <2>6. AccessTypeOK'
    BY <2>1, <2>3, <2>4, <2>5 DEF AccessTypeOK, SessionRows
  <2> QED
    BY <2>3, <2>4, <2>5, <2>6
<1>6. ASSUME NEW t \in held, CompletePasswordSetTooLate(t)
      PROVE  AccessTypeOK' /\ sets' \in Nat /\ LinkInv' /\ SessionInv'
  <2>1. /\ link' = link
        /\ UNCHANGED <<now, signedUp, links, outbox, held, uses, password, sets,
                       sessionVars, counted>>
    BY <1>6 DEF CompletePasswordSetTooLate, LinkAfterRaise
  <2>2. LinkInv' /\ SessionInv'
    BY <2>1, LinksUntouched, SessionsUntouched DEF sessionVars
  <2>3. AccessTypeOK' /\ sets' \in Nat
    BY <2>1 DEF sessionVars, AccessTypeOK
  <2> QED
    BY <2>2, <2>3
<1> QED
  BY <1>1, <1>2, <1>3, <1>4, <1>5, <1>6 DEF LinkStep

LEMMA SessionStepKeepsIInv == AccessIInv /\ SessionStep => AccessIInv'
<1> SUFFICES ASSUME AccessTypeOK, sets \in Nat, LinkInv, SessionInv, SessionStep
             PROVE  AccessTypeOK' /\ sets' \in Nat /\ LinkInv' /\ SessionInv'
  BY DEF AccessIInv, LinkInv, SessionInv
<1>1. UNCHANGED <<now, signedUp, linkVars, password, sets>>
  BY DEF SessionStep, VerifyPassword, CreateSession, LoginDies, ReadSession, Logout
<1>2. LinkInv' /\ sets' \in Nat
  BY <1>1, LinksUntouched DEF linkVars
<1>3. ASSUME NEW l \in Logins, NEW candidate \in Passwords, VerifyPassword(l, candidate)
      PROVE  AccessTypeOK' /\ SessionInv'
  <2>1. SessionInv'
    BY <1>1, <1>3, SessionsUntouched DEF VerifyPassword
  <2>2. counted' \in [Routes -> Nat]
    BY <1>3, CountRequestTypes DEF VerifyPassword, Routes
  <2>3. verified' \subseteq Logins
    BY <1>3 DEF VerifyPassword, AccessTypeOK
  <2> QED
    BY <1>1, <1>3, <2>1, <2>2, <2>3 DEF VerifyPassword, AccessTypeOK, linkVars
<1>4. ASSUME NEW l \in Logins, CreateSession(l)
      PROVE  AccessTypeOK' /\ SessionInv'
  <2>1. SessionInv' /\ session' \in [Sessions -> SessionRows] /\ opened' \in Nat
    BY <1>4, CreateSessionKeepsSessionInv
  <2>2. verified' \subseteq Logins /\ counted' = counted
    BY <1>4 DEF CreateSession, AccessTypeOK
  <2> QED
    BY <1>1, <2>1, <2>2 DEF AccessTypeOK, SessionRows, linkVars
<1>5. ASSUME NEW l \in Logins, LoginDies(l)
      PROVE  AccessTypeOK' /\ SessionInv'
  <2>1. SessionInv'
    BY <1>5, SessionsUntouched DEF LoginDies
  <2> QED
    BY <1>1, <1>5, <2>1 DEF LoginDies, AccessTypeOK, linkVars
<1>6. ASSUME NEW s \in Sessions, ReadSession(s) \/ Logout(s)
      PROVE  AccessTypeOK' /\ SessionInv'
  <2>1. session[s] \in SessionRows /\ now \in Nat
    BY DEF AccessTypeOK, SessionRows
  <2>2. PICK row \in SessionRows :
            /\ row.sets = session[s].sets
            /\ row.status = "active" => session[s].status = "active"
            /\ session' = [session EXCEPT ![s] = row]
    <3>1. CASE ReadSession(s)
      <4> DEFINE row == [session[s] EXCEPT !.lastSeen = now]
      <4>1. row \in SessionRows /\ row.sets = session[s].sets /\ row.status = session[s].status
        BY <2>1 DEF SessionRows
      <4>2. session' = [session EXCEPT ![s] = row]
        BY <3>1 DEF ReadSession
      <4> QED
        BY <4>1, <4>2
    <3>2. CASE Logout(s)
      <4> DEFINE row == [session[s] EXCEPT !.status = "revoked"]
      <4>1. row \in SessionRows /\ row.sets = session[s].sets /\ row.status # "active"
        BY <2>1 DEF SessionRows
      <4>2. session' = [session EXCEPT ![s] = row]
        BY <3>2 DEF Logout, EndSession
      <4> QED
        BY <4>1, <4>2
    <3> QED
      BY <1>6, <3>1, <3>2
  <2>3. UNCHANGED <<opened, verified, counted>>
    BY <1>6 DEF ReadSession, Logout
  <2>4. SessionInv' /\ session' \in [Sessions -> SessionRows]
    BY <1>1, <2>2, <2>3, TouchKeepsSessionInv
  <2> QED
    BY <1>1, <2>3, <2>4 DEF AccessTypeOK, SessionRows, linkVars
<1> QED
  BY <1>2, <1>3, <1>4, <1>5, <1>6 DEF SessionStep

LEMMA AccessNextKeepsIInv == AccessIInv /\ AccessNext => AccessIInv'
<1> SUFFICES ASSUME AccessTypeOK, sets \in Nat, LinkInv, SessionInv, AccessIInv, AccessNext
             PROVE  AccessIInv'
  BY DEF AccessIInv, LinkInv, SessionInv
<1>1. CASE AccessTick
  <2>1. LinkInv' /\ SessionInv' /\ sets' \in Nat
    BY <1>1, LinksUntouched, SessionsUntouched DEF AccessTick, linkVars, sessionVars
  <2>2. now' \in Nat /\ counted' \in [Routes -> Nat]
    BY <1>1 DEF AccessTick, Tick, AccessTypeOK
  <2>3. AccessTypeOK'
    BY <1>1, <2>2 DEF AccessTick, AccessTypeOK, linkVars, sessionVars
  <2> QED
    BY <2>1, <2>3 DEF AccessIInv, LinkInv, SessionInv
<1>2. ASSUME NEW r \in Routes, RefuseRequest(r)
      PROVE  AccessIInv'
  <2>1. LinkInv' /\ SessionInv' /\ sets' \in Nat
    BY <1>2, LinksUntouched, SessionsUntouched DEF RefuseRequest, linkVars, sessionVars
  <2>2. counted' \in [Routes -> Nat]
    BY <1>2, CountRequestTypes DEF RefuseRequest
  <2>3. AccessTypeOK'
    BY <1>2, <2>2 DEF RefuseRequest, AccessTypeOK, linkVars, sessionVars
  <2> QED
    BY <2>1, <2>3 DEF AccessIInv, LinkInv, SessionInv
<1> QED
  BY <1>1, <1>2, LinkStepKeepsIInv, SessionStepKeepsIInv DEF AccessNext

\* The facts the theorems rest on hold in every reachable state.
LEMMA AccessInductive == AccessSpec => []AccessIInv
<1>1. AccessIInv /\ UNCHANGED accessVars => AccessIInv'
  BY DEF accessVars, access, linkVars, sessionVars, AccessIInv, AccessTypeOK, FreshTokens,
         TokensAreOfOneLink, LinksWorkOnce, SessionsEndWithTheirPassword
<1> QED
  BY AccessInitHolds, AccessNextKeepsIInv, <1>1, PTL DEF AccessSpec

\* Every reachable state of links, password, sessions and counters is well typed.
THEOREM AccessTypeCorrect == AccessSpec => []AccessTypeOK
<1>1. AccessIInv => AccessTypeOK
  BY DEF AccessIInv
<1> QED
  BY AccessInductive, <1>1, PTL

\* A password link sets one password, and the newest link stays usable until it
\* has: a used or replaced link never comes back, however requests, lost mails,
\* late clicks and second clicks interleave.
THEOREM LinksSetOnePassword == AccessSpec => []LinksWorkOnce
<1>1. AccessIInv => LinksWorkOnce
  BY DEF AccessIInv
<1> QED
  BY AccessInductive, <1>1, PTL

\* No session that was open when a password was set is active afterwards.
THEOREM NewPasswordEndsSessions == AccessSpec => []SessionsEndWithTheirPassword
<1>1. AccessIInv => SessionsEndWithTheirPassword
  BY DEF AccessIInv
<1> QED
  BY AccessInductive, <1>1, PTL

-----------------------------------------------------------------------------
(* The phone numbers: a verified number has one owner, to whom a link to it *)
(* came.                                                                    *)

\* A pending challenge, or none.
PendingStates ==
    [number : Numbers \cup {NoNumber}, token : 0..MaxTokens, expires : Nat, sentAt : Nat,
     nextSend : Nat, windowStart : Nat, windowCount : Nat]

\* A token that is not handed out names nobody, one that is names a user and a number.
TokensAreFresh ==
    /\ tokens \in 0..MaxTokens
    /\ \A t \in Tokens : t <= tokens => sent[t] \in Users \X Numbers
    /\ reached \subseteq 1..tokens
    /\ \A o \in outgoing : o.token <= tokens

\* The challenge is about a listed number, and its token was made for that number.
PendingAgrees(u) ==
    LET c == pending[u]
    IN  /\ c.number = NoNumber => c = NoChallenge
        /\ c.number # NoNumber =>
              /\ contact[u][c.number] # "none"
              /\ c.token \in 1..tokens /\ sent[c.token] = <<u, c.number>>

\* What is said of a user's numbers is said of the verified ones.
NumbersAgree(u) ==
    /\ \A n \in Numbers : n \in originOk[u] <=> contact[u][n] = "verified"
    /\ \A n \in primary[u] : contact[u][n] = "verified"
    /\ (\E n \in Numbers : contact[u][n] = "verified") => primary[u] # {}
    /\ identity[u] # NoNumber => contact[u][identity[u]] = "verified"

\* A verified number has one owner, to whom a link to it was sent and came.
VerifiedByLink ==
    \A u \in Users, n \in Numbers :
        contact[u][n] = "verified" =>
            /\ \A v \in Users : contact[v][n] = "verified" => v = u
            /\ \E t \in reached : sent[t] = <<u, n>>

\* The inductive invariant.  VerifiedPhonesAgree alone is not inductive: a
\* verification believes the pending challenge, so that its token must have
\* been made for that user and number.
PhoneIInv ==
    /\ PhoneTypeOK
    /\ TokensAreFresh
    /\ \A u \in Users : PendingAgrees(u) /\ NumbersAgree(u)
    /\ VerifiedByLink

\* The limits are numbers, and the absence of a number is not a number.
LEMMA PhoneParams ==
    /\ PhoneLinkLifetime \in Nat /\ PhoneCooldown \in Nat /\ MaxTokens \in Nat
    /\ NoNumber \notin Numbers
  BY PhoneLinkAssumption

\* No challenge is a pending state.
LEMMA NoChallengeType == NoChallenge \in PendingStates /\ NoChallenge.sentAt = 0 /\ NoChallenge.number = NoNumber
  BY PhoneParams DEF NoChallenge, PendingStates, Null

\* What is shown of the phones follows from the inductive invariant.
LEMMA PhoneIInvImplies == PhoneIInv => VerifiedPhonesAgree
<1> SUFFICES ASSUME PhoneIInv, NEW u \in Users
             PROVE  /\ \A v \in Users \ {u}, n \in Numbers :
                          ~(contact[u][n] = "verified" /\ contact[v][n] = "verified")
                    /\ identity[u] # NoNumber => \E phone \in ListedPhones(u) : phone.linked
                    /\ PendingPhones(u) \subseteq {phone.number : phone \in ListedPhones(u)}
                    /\ \A phone \in ListedPhones(u) :
                          /\ phone.verified <=> phone.confirmed
                          /\ phone.linked \/ phone.primary => phone.verified
                          /\ phone.verified => PrimaryPhones(u) # {}
                    /\ \A n \in Numbers :
                          contact[u][n] = "verified" => \E t \in reached : sent[t] = <<u, n>>
  BY DEF VerifiedPhonesAgree
<1> DEFINE Entry(n) == [number |-> n, verified |-> contact[u][n] = "verified",
                        primary |-> n \in primary[u], linked |-> identity[u] = n,
                        confirmed |-> n \in originOk[u]]
<1>1. \A n \in Numbers : contact[u][n] # "none" => Entry(n) \in ListedPhones(u)
  BY DEF ListedPhones
<1>2. \A phone \in ListedPhones(u) : \E n \in Numbers : phone = Entry(n) /\ contact[u][n] # "none"
  BY DEF ListedPhones
<1>3. /\ NumbersAgree(u) /\ PendingAgrees(u)
      /\ identity[u] \in Numbers \cup {NoNumber} /\ pending[u] \in PendingStates
      /\ primary[u] \subseteq Numbers
  BY DEF PhoneIInv, PhoneTypeOK, PendingStates
<1>4. identity[u] # NoNumber => \E phone \in ListedPhones(u) : phone.linked
  BY <1>1, <1>3 DEF NumbersAgree
<1>5. PendingPhones(u) \subseteq {phone.number : phone \in ListedPhones(u)}
  <2> SUFFICES ASSUME pending[u].sentAt # Null
               PROVE  \E phone \in ListedPhones(u) : phone.number = pending[u].number
    BY DEF PendingPhones
  <2>1. pending[u].number \in Numbers /\ contact[u][pending[u].number] # "none"
    BY <1>3, NoChallengeType DEF PendingAgrees, PendingStates, Null
  <2> QED
    BY <1>1, <2>1
<1>6. ASSUME NEW phone \in ListedPhones(u)
      PROVE  /\ phone.verified <=> phone.confirmed
             /\ phone.linked \/ phone.primary => phone.verified
             /\ phone.verified => PrimaryPhones(u) # {}
  <2>1. PICK n \in Numbers : phone = Entry(n) /\ contact[u][n] # "none"
    BY <1>2
  <2>2. /\ phone.verified <=> contact[u][n] = "verified"
        /\ phone.primary <=> n \in primary[u]
        /\ phone.linked <=> identity[u] = n
        /\ phone.confirmed <=> n \in originOk[u]
    BY <2>1
  <2>3. ASSUME phone.verified PROVE PrimaryPhones(u) # {}
    <3>1. PICK m \in primary[u] : contact[u][m] = "verified"
      BY <1>3, <2>2, <2>3 DEF NumbersAgree
    <3>2. Entry(m) \in ListedPhones(u) /\ Entry(m).primary
      BY <1>1, <1>3, <3>1
    <3> QED
      BY <3>2 DEF PrimaryPhones
  <2>4. /\ phone.verified <=> phone.confirmed
        /\ phone.linked \/ phone.primary => phone.verified
    BY <1>3, <2>2, PhoneParams DEF NumbersAgree
  <2> QED
    BY <2>3, <2>4
<1>7. /\ \A v \in Users \ {u}, n \in Numbers :
            ~(contact[u][n] = "verified" /\ contact[v][n] = "verified")
      /\ \A n \in Numbers : contact[u][n] = "verified" => \E t \in reached : sent[t] = <<u, n>>
  BY DEF PhoneIInv, VerifiedByLink
<1> QED
  BY <1>4, <1>5, <1>6, <1>7

\* The invariant holds before the first number is listed.
LEMMA PhoneInitHolds == PhoneInit => PhoneIInv
<1> SUFFICES ASSUME PhoneInit
             PROVE  PhoneIInv
  OBVIOUS
<1>1. \A u \in Users : pending[u] = NoChallenge /\ \A n \in Numbers : contact[u][n] = "none"
  BY DEF PhoneInit
<1>2. PhoneTypeOK
  <2>1. pending \in [Users -> PendingStates]
    BY NoChallengeType DEF PhoneInit
  <2>2. now \in Nat /\ tokens \in Nat
    BY DEF PhoneInit, ClockInit
  <2> QED
    BY <2>1, <2>2 DEF PhoneInit, PhoneTypeOK, PendingStates
<1>3. TokensAreFresh
  BY PhoneParams DEF PhoneInit, TokensAreFresh, Tokens
<1>4. \A u \in Users : PendingAgrees(u) /\ NumbersAgree(u)
  BY <1>1, NoChallengeType DEF PhoneInit, PendingAgrees, NumbersAgree
<1>5. VerifiedByLink
  BY <1>1 DEF VerifiedByLink
<1> QED
  BY <1>2, <1>3, <1>4, <1>5 DEF PhoneIInv

\* Steps that change no number, challenge or token.
LEMMA NumbersUntouched ==
  ASSUME PhoneIInv, PhoneTypeOK', UNCHANGED <<contact, primary, identity, originOk, pending, tokens, sent>>,
         reached \subseteq reached', reached' \subseteq 1..tokens,
         \A o \in outgoing' : o.token <= tokens
  PROVE  PhoneIInv'
  BY DEF PhoneIInv, TokensAreFresh, PendingAgrees, NumbersAgree, VerifiedByLink

\* Looking a number up, and failing to, changes no row.
LEMMA PreparationStepKeepsPhoneIInv ==
  ASSUME PhoneIInv, NEW u \in Users,
         (\E n \in Numbers : CheckPhone(u, n)) \/ PreparationRaises(u)
  PROVE  PhoneIInv'
<1>1. preparing' \in [Users -> Numbers \cup {NoNumber}]
  BY DEF CheckPhone, PreparationRaises, PhoneIInv, PhoneTypeOK
<1>2. UNCHANGED <<now, contact, primary, identity, originOk, pending, tokens, sent, outgoing, reached>>
  BY DEF CheckPhone, PreparationRaises
<1>3. PhoneTypeOK'
  BY <1>1, <1>2 DEF PhoneIInv, PhoneTypeOK
<1> QED
  BY <1>2, <1>3, NumbersUntouched DEF PhoneIInv, TokensAreFresh

\* A prepared challenge has a new token, made for the number it is about.
LEMMA PrepareKeepsPhoneIInv ==
  ASSUME PhoneIInv, NEW u \in Users, PreparePhoneLink(u)
  PROVE  PhoneIInv'
<1> DEFINE n == preparing[u]
           c == PreparedChallenge(u, n)
<1>1. /\ n \in Numbers /\ tokens + 1 \in Tokens /\ tokens \in Nat /\ now \in Nat
      /\ pending[u] \in PendingStates /\ MaxTokens \in Nat
  BY PhoneParams DEF PhoneIInv, PhoneTypeOK, TokensAreFresh, PreparePhoneLink, Tokens, PendingStates
<1>2. BudgetStart(pending[u]) \in Nat /\ BudgetCount(pending[u]) \in Nat
  BY <1>1 DEF BudgetStart, BudgetCount, PendingStates
<1>3. c \in PendingStates /\ c.number = n /\ c.token = tokens + 1
  BY <1>1, <1>2, PhoneParams DEF PreparedChallenge, PendingStates, Null, Tokens
<1>4. /\ tokens' = tokens + 1
      /\ sent' = [sent EXCEPT ![tokens + 1] = <<u, n>>]
      /\ contact' = [contact EXCEPT ![u][n] = IF @ = "none" THEN "unverified" ELSE @]
      /\ pending' = [pending EXCEPT ![u] = c]
      /\ outgoing' = outgoing \cup {[token |-> tokens + 1, step |-> "calling"]}
      /\ preparing' = [preparing EXCEPT ![u] = NoNumber]
      /\ UNCHANGED <<now, primary, identity, originOk, reached>>
  BY DEF PreparePhoneLink
<1> HIDE DEF c
<1>5. ASSUME NEW v \in Users, NEW m \in Numbers
      PROVE  /\ contact'[v][m] = "verified" <=> contact[v][m] = "verified"
             /\ contact[v][m] # "none" => contact'[v][m] # "none"
             /\ contact'[u][n] # "none"
             /\ contact'[v][m] \in {"none", "unverified", "verified"}
  BY <1>1, <1>4 DEF PhoneIInv, PhoneTypeOK
<1>6. contact' \in [Users -> [Numbers -> {"none", "unverified", "verified"}]]
  BY <1>1, <1>4 DEF PhoneIInv, PhoneTypeOK
<1>7. \A t \in Tokens : t <= tokens => sent'[t] = sent[t]
  BY <1>1, <1>4 DEF PhoneIInv, PhoneTypeOK
<1>8. sent'[tokens + 1] = <<u, n>> /\ sent' \in [Tokens -> (Users \X Numbers) \cup {<<>>}]
  BY <1>1, <1>4 DEF PhoneIInv, PhoneTypeOK
<1>9. PhoneTypeOK'
  <2>1. pending' \in [Users -> PendingStates]
    BY <1>3, <1>4 DEF PhoneIInv, PhoneTypeOK, PendingStates
  <2>2. outgoing' \subseteq [token : Tokens, step : {"calling", "marking"}]
    BY <1>1, <1>4 DEF PhoneIInv, PhoneTypeOK
  <2>3. now' \in Nat /\ tokens' \in Nat
    BY <1>1, <1>4
  <2>4. preparing' \in [Users -> Numbers \cup {NoNumber}]
    BY <1>4 DEF PhoneIInv, PhoneTypeOK
  <2>5. /\ primary' \in [Users -> SUBSET Numbers]
        /\ identity' \in [Users -> Numbers \cup {NoNumber}]
        /\ originOk' \in [Users -> SUBSET Numbers]
        /\ reached' \subseteq Tokens
    BY <1>4 DEF PhoneIInv, PhoneTypeOK
  <2> QED
    BY <1>6, <1>8, <2>1, <2>2, <2>3, <2>4, <2>5 DEF PhoneTypeOK, PendingStates
<1>10. TokensAreFresh'
  <2>1. tokens' \in 0..MaxTokens
    BY <1>1, <1>4 DEF Tokens
  <2>2. ASSUME NEW t \in Tokens, t <= tokens' PROVE sent'[t] \in Users \X Numbers
    <3>1. CASE t <= tokens
      BY <3>1, <1>7 DEF PhoneIInv, TokensAreFresh
    <3>2. CASE t = tokens + 1
      BY <3>2, <1>1, <1>8
    <3> QED
      BY <1>1, <1>4, <2>2, <3>1, <3>2 DEF Tokens
  <2>3. reached' \subseteq 1..tokens' /\ \A o \in outgoing' : o.token <= tokens'
    BY <1>1, <1>4 DEF PhoneIInv, TokensAreFresh, PhoneTypeOK, Tokens
  <2> QED
    BY <2>1, <2>2, <2>3 DEF TokensAreFresh
<1>11. ASSUME NEW v \in Users PROVE PendingAgrees(v)' /\ NumbersAgree(v)'
  <2>1. NumbersAgree(v)'
    BY <1>4, <1>5 DEF PhoneIInv, PhoneTypeOK, NumbersAgree
  <2>2. CASE v = u
    <3>1. pending'[v] = c /\ c.number # NoNumber /\ n # NoNumber
      BY <2>2, <1>1, <1>3, <1>4, PhoneParams DEF PhoneIInv, PhoneTypeOK
    <3> QED
      BY <2>1, <2>2, <3>1, <1>1, <1>3, <1>4, <1>5, <1>8 DEF PendingAgrees, Tokens
  <2>3. CASE v # u
    <3>1. pending'[v] = pending[v] /\ PendingAgrees(v) /\ pending[v] \in PendingStates
      BY <2>3, <1>4 DEF PhoneIInv, PhoneTypeOK, PendingStates
    <3>2. CASE pending[v].number = NoNumber
      BY <2>1, <3>1, <3>2 DEF PendingAgrees, NoChallenge
    <3>3. CASE pending[v].number # NoNumber
      <4>1. /\ pending[v].number \in Numbers /\ contact[v][pending[v].number] # "none"
            /\ pending[v].token \in 1..tokens /\ sent[pending[v].token] = <<v, pending[v].number>>
        BY <3>1, <3>3 DEF PendingAgrees, PendingStates
      <4>2. sent'[pending[v].token] = <<v, pending[v].number>> /\ pending[v].token \in 1..tokens'
        BY <4>1, <1>1, <1>4, <1>7 DEF Tokens
      <4> QED
        BY <2>1, <3>1, <3>3, <4>1, <4>2, <1>5 DEF PendingAgrees
    <3> QED
      BY <2>1, <3>2, <3>3
  <2> QED
    BY <2>1, <2>2, <2>3
<1>12. VerifiedByLink'
  <2> SUFFICES ASSUME NEW v \in Users, NEW m \in Numbers, contact'[v][m] = "verified"
               PROVE  /\ \A w \in Users : contact'[w][m] = "verified" => w = v
                      /\ \E t \in reached' : sent'[t] = <<v, m>>
    BY DEF VerifiedByLink
  <2>1. contact[v][m] = "verified" /\ \A w \in Users : contact'[w][m] = "verified" => w = v
    BY <1>5 DEF PhoneIInv, VerifiedByLink
  <2>2. PICK t \in reached : sent[t] = <<v, m>>
    BY <2>1 DEF PhoneIInv, VerifiedByLink
  <2>3. t \in Tokens /\ t <= tokens
    BY <1>1 DEF PhoneIInv, PhoneTypeOK, TokensAreFresh
  <2> QED
    BY <2>1, <2>2, <2>3, <1>4, <1>7
<1> QED
  BY <1>9, <1>10, <1>11, <1>12 DEF PhoneIInv

\* Sending, losing and receiving a link changes no number.
LEMMA DeliveryKeepsPhoneIInv ==
  ASSUME PhoneIInv, NEW t \in Tokens,
         ProviderAccepts(t) \/ ProviderFails(t) \/ DeliveryNotMarked(t)
  PROVE  PhoneIInv'
<1>1. UNCHANGED <<now, contact, primary, identity, originOk, pending, preparing, tokens, sent>>
  BY DEF ProviderAccepts, ProviderFails, DeliveryNotMarked
<1>2. t <= tokens
  BY DEF ProviderAccepts, ProviderFails, DeliveryNotMarked, Calling, Marking, PhoneIInv, TokensAreFresh
<1>3. outgoing' \subseteq outgoing \cup {Marking(t)}
  BY DEF ProviderAccepts, ProviderFails, DeliveryNotMarked
<1>4. reached \subseteq reached' /\ reached' \subseteq reached \cup {t}
  BY DEF ProviderAccepts, ProviderFails, DeliveryNotMarked
<1>5. outgoing' \subseteq [token : Tokens, step : {"calling", "marking"}]
  BY <1>3 DEF Marking, PhoneIInv, PhoneTypeOK
<1>6. \A o \in outgoing' : o.token <= tokens
  BY <1>2, <1>3 DEF Marking, PhoneIInv, TokensAreFresh
<1>7. reached' \subseteq 1..tokens /\ reached' \subseteq Tokens
  BY <1>2, <1>4 DEF PhoneIInv, PhoneTypeOK, TokensAreFresh, Tokens
<1>8. PhoneTypeOK'
  BY <1>1, <1>5, <1>7 DEF PhoneIInv, PhoneTypeOK
<1> QED
  BY <1>1, <1>4, <1>6, <1>7, <1>8, NumbersUntouched

\* The challenge of one user is replaced by one for the same number, or dropped.
LEMMA MarkKeepsPhoneIInv ==
  ASSUME PhoneIInv, NEW t \in Tokens, MarkDeliverySent(t)
  PROVE  PhoneIInv'
<1> DEFINE u == sent[t][1]
<1>1. UNCHANGED <<now, contact, primary, identity, originOk, preparing, tokens, sent, reached>>
      /\ outgoing' \subseteq outgoing /\ Marking(t) \in outgoing
  BY DEF MarkDeliverySent
<1>2. u \in Users
  BY <1>1 DEF Marking, PhoneIInv, TokensAreFresh
<1>3. /\ pending \in [Users -> PendingStates] /\ now \in Nat
  BY DEF PhoneIInv, PhoneTypeOK, PendingStates
<1>4. pending' = IF pending[u] = NoChallenge THEN pending
                 ELSE [pending EXCEPT ![u].sentAt = now, ![u].nextSend = now + PhoneCooldown]
  BY DEF MarkDeliverySent
<1> HIDE DEF u
<1>5. /\ pending' \in [Users -> PendingStates]
      /\ \A v \in Users : \/ pending'[v] = pending[v]
                          \/ /\ pending[v] # NoChallenge
                             /\ pending'[v].number = pending[v].number
                             /\ pending'[v].token = pending[v].token
  <2>1. CASE pending[u] = NoChallenge
    BY <2>1, <1>3, <1>4
  <2>2. CASE pending[u] # NoChallenge
    <3>1. pending' = [pending EXCEPT ![u] = [pending[u] EXCEPT !.sentAt = now, !.nextSend = now + PhoneCooldown]]
      BY <2>2, <1>4
    <3>2. [pending[u] EXCEPT !.sentAt = now, !.nextSend = now + PhoneCooldown] \in PendingStates
      <4>1. pending[u] \in PendingStates /\ now + PhoneCooldown \in Nat
        BY <1>2, <1>3, PhoneParams
      <4> QED
        BY <4>1, <1>3 DEF PendingStates
    <3> QED
      BY <2>2, <3>1, <3>2, <1>2, <1>3 DEF PendingStates
  <2> QED
    BY <2>1, <2>2
<1>6. PhoneTypeOK'
  BY <1>1, <1>5 DEF PhoneIInv, PhoneTypeOK, PendingStates
<1>7. TokensAreFresh' /\ VerifiedByLink'
  BY <1>1 DEF PhoneIInv, TokensAreFresh, VerifiedByLink
<1>8. ASSUME NEW v \in Users PROVE PendingAgrees(v)' /\ NumbersAgree(v)'
  <2>1. NumbersAgree(v)'
    BY <1>1 DEF PhoneIInv, NumbersAgree
  <2>2. PendingAgrees(v)
    BY DEF PhoneIInv
  <2>3. PendingAgrees(v)'
    BY <2>2, <1>1, <1>5 DEF PendingAgrees
  <2> QED
    BY <2>1, <2>3
<1> QED
  BY <1>6, <1>7, <1>8 DEF PhoneIInv

\* A link that came verifies its number for the user who asked, when nobody
\* else has verified it.
LEMMA VerifiedKeepsPhoneIInv ==
  ASSUME PhoneIInv, NEW u \in Users, NEW t \in reached, NEW P \in SUBSET Numbers,
         Verifiable(u, t), Verified(u, pending[u].number),
         primary' = [primary EXCEPT ![u] = P], P # {},
         \A m \in P : m = pending[u].number \/ contact[u][m] = "verified"
  PROVE  PhoneIInv'
<1> DEFINE n == pending[u].number
<1>1. /\ n \in Numbers /\ sent[t] = <<u, n>>
  <2>1. pending[u] \in PendingStates /\ PendingAgrees(u)
    BY DEF PhoneIInv, PhoneTypeOK, PendingStates
  <2>2. pending[u].number # NoNumber
    BY <2>1, NoChallengeType DEF PendingAgrees, Verifiable, Null
  <2> QED
    BY <2>1, <2>2 DEF PendingAgrees, PendingStates, Verifiable
<1>2. \A v \in Users : v # u => contact[v][n] = "none"
  BY DEF Verifiable, InUseElsewhere
<1>3. /\ contact' = [contact EXCEPT ![u][n] = "verified"]
      /\ identity' = [identity EXCEPT ![u] = n]
      /\ originOk' = [originOk EXCEPT ![u] = @ \cup {n}]
      /\ pending' = [pending EXCEPT ![u] = NoChallenge]
      /\ UNCHANGED <<now, preparing, tokens, sent, outgoing, reached>>
  BY DEF Verified
<1> HIDE DEF n
<1>4. /\ contact \in [Users -> [Numbers -> {"none", "unverified", "verified"}]]
      /\ primary \in [Users -> SUBSET Numbers]
      /\ identity \in [Users -> Numbers \cup {NoNumber}]
      /\ originOk \in [Users -> SUBSET Numbers]
      /\ pending \in [Users -> PendingStates]
  BY DEF PhoneIInv, PhoneTypeOK, PendingStates
<1>5. \A v \in Users, m \in Numbers :
          contact'[v][m] = IF v = u /\ m = n THEN "verified" ELSE contact[v][m]
  BY <1>1, <1>3, <1>4
<1>6. /\ identity'[u] = n /\ originOk'[u] = originOk[u] \cup {n}
      /\ pending'[u] = NoChallenge /\ primary'[u] = P
  BY <1>3, <1>4
<1>11. \A v \in Users : v # u => /\ identity'[v] = identity[v] /\ originOk'[v] = originOk[v]
                                /\ pending'[v] = pending[v] /\ primary'[v] = primary[v]
  BY <1>3, <1>4
<1>7. PhoneTypeOK'
  <2>1. contact' \in [Users -> [Numbers -> {"none", "unverified", "verified"}]]
    BY <1>1, <1>3, <1>4
  <2>2. /\ primary' \in [Users -> SUBSET Numbers]
        /\ identity' \in [Users -> Numbers \cup {NoNumber}]
        /\ originOk' \in [Users -> SUBSET Numbers]
    BY <1>1, <1>3, <1>4
  <2>3. pending' \in [Users -> PendingStates]
    BY <1>3, <1>4, NoChallengeType
  <2> QED
    BY <1>3, <2>1, <2>2, <2>3 DEF PhoneIInv, PhoneTypeOK, PendingStates
<1>8. TokensAreFresh'
  BY <1>3 DEF PhoneIInv, TokensAreFresh
<1>9. ASSUME NEW v \in Users PROVE PendingAgrees(v)' /\ NumbersAgree(v)'
  <2>1. CASE v = u
    <3>1. PendingAgrees(v)'
      BY <2>1, <1>6, NoChallengeType DEF PendingAgrees
    <3>2. NumbersAgree(v)'
      <4>1. \A m \in Numbers : m \in originOk'[v] <=> contact'[v][m] = "verified"
        BY <2>1, <1>5, <1>6 DEF PhoneIInv, NumbersAgree
      <4>2. \A m \in primary'[v] : contact'[v][m] = "verified"
        BY <2>1, <1>5, <1>6 DEF n
      <4>3. primary'[v] # {} /\ contact'[v][identity'[v]] = "verified"
        BY <2>1, <1>1, <1>5, <1>6
      <4> QED
        BY <4>1, <4>2, <4>3 DEF NumbersAgree
    <3> QED
      BY <3>1, <3>2
  <2>2. CASE v # u
    <3>1. /\ pending'[v] = pending[v] /\ primary'[v] = primary[v] /\ identity'[v] = identity[v]
          /\ originOk'[v] = originOk[v] /\ \A m \in Numbers : contact'[v][m] = contact[v][m]
      BY <2>2, <1>5, <1>11
    <3>2. /\ pending[v] \in PendingStates /\ primary[v] \subseteq Numbers
          /\ identity[v] \in Numbers \cup {NoNumber}
      BY <1>4
    <3>3. PendingAgrees(v) /\ NumbersAgree(v)
      BY DEF PhoneIInv
    <3>4. PendingAgrees(v)'
      BY <3>1, <3>2, <3>3, <1>3 DEF PendingAgrees, PendingStates
    <3>5. NumbersAgree(v)'
      BY <3>1, <3>2, <3>3 DEF NumbersAgree
    <3> QED
      BY <3>4, <3>5
  <2> QED
    BY <2>1, <2>2
<1>10. VerifiedByLink'
  <2> SUFFICES ASSUME NEW v \in Users, NEW m \in Numbers, contact'[v][m] = "verified"
               PROVE  /\ \A w \in Users : contact'[w][m] = "verified" => w = v
                      /\ \E s \in reached' : sent'[s] = <<v, m>>
    BY DEF VerifiedByLink
  <2>1. CASE v = u /\ m = n
    BY <2>1, <1>1, <1>2, <1>3, <1>5
  <2>2. CASE v = u /\ m # n
    <3>1. contact[v][m] = "verified" /\ \A w \in Users : contact'[w][m] = contact[w][m]
      BY <2>2, <1>5
    <3> QED
      BY <3>1, <1>3 DEF PhoneIInv, VerifiedByLink
  <2>3. CASE v # u
    <3>1. m # n /\ contact[v][m] = "verified"
      BY <2>3, <1>2, <1>5
    <3>2. \A w \in Users : contact'[w][m] = contact[w][m]
      BY <3>1, <1>5
    <3> QED
      BY <3>1, <3>2, <1>3 DEF PhoneIInv, VerifiedByLink
  <2> QED
    BY <2>1, <2>2, <2>3
<1> QED
  BY <1>7, <1>8, <1>9, <1>10 DEF PhoneIInv

\* A link that is opened verifies a number, or nothing.
LEMMA VerifyKeepsPhoneIInv ==
  ASSUME PhoneIInv, NEW u \in Users, NEW t \in reached,
         \/ VerifyPhoneLink(u, t)
         \/ \E n \in Numbers : VerifyDuringSetPrimary(u, t, n)
  PROVE  PhoneIInv'
<1> DEFINE m == pending[u].number
<1>1. Verifiable(u, t) /\ Verified(u, m)
  BY DEF VerifyPhoneLink, VerifyDuringSetPrimary
<1>2. m \in Numbers
  <2>1. pending[u] \in PendingStates /\ PendingAgrees(u)
    BY DEF PhoneIInv, PhoneTypeOK, PendingStates
  <2> QED
    BY <1>1, <2>1, NoChallengeType DEF PendingAgrees, PendingStates, Verifiable, Null
<1>3. primary[u] \subseteq Numbers /\ NumbersAgree(u)
  BY DEF PhoneIInv, PhoneTypeOK
<1>4. CASE VerifyPhoneLink(u, t)
  <2> DEFINE P == PrimaryAfterVerify(u, m, primary[u])
  <2>1. P \in SUBSET Numbers /\ P # {} /\ \A k \in P : k = m \/ contact[u][k] = "verified"
    BY <1>2, <1>3 DEF PrimaryAfterVerify, NumbersAgree
  <2>2. primary' = [primary EXCEPT ![u] = P]
    BY <1>4 DEF VerifyPhoneLink
  <2> QED
    BY <1>1, <2>1, <2>2, VerifiedKeepsPhoneIInv
<1>5. ASSUME NEW n \in Numbers, VerifyDuringSetPrimary(u, t, n)
      PROVE  PhoneIInv'
  <2>1. /\ {n, m} \in SUBSET Numbers /\ {n, m} # {}
        /\ \A k \in {n, m} : k = m \/ contact[u][k] = "verified"
    BY <1>2, <1>5 DEF VerifyDuringSetPrimary, MayBecomePrimary
  <2>2. primary' = [primary EXCEPT ![u] = {n, m}]
    BY <1>5 DEF VerifyDuringSetPrimary
  <2> QED
    BY <1>1, <2>1, <2>2, VerifiedKeepsPhoneIInv
<1> QED
  BY <1>4, <1>5

\* The primary number is a verified one.
LEMMA SetPrimaryKeepsPhoneIInv ==
  ASSUME PhoneIInv, NEW u \in Users, NEW n \in Numbers, SetPrimaryPhone(u, n)
  PROVE  PhoneIInv'
<1>1. /\ primary' = [primary EXCEPT ![u] = {n}] /\ contact[u][n] = "verified"
      /\ UNCHANGED <<now, contact, identity, originOk, pending, preparing, tokens, sent, outgoing, reached>>
  BY DEF SetPrimaryPhone, MayBecomePrimary
<1>2. PhoneTypeOK'
  BY <1>1 DEF PhoneIInv, PhoneTypeOK
<1>3. TokensAreFresh' /\ VerifiedByLink'
  BY <1>1 DEF PhoneIInv, TokensAreFresh, VerifiedByLink
<1>4. ASSUME NEW v \in Users PROVE PendingAgrees(v)' /\ NumbersAgree(v)'
  <2>1. primary'[v] = IF v = u THEN {n} ELSE primary[v]
    BY <1>1 DEF PhoneIInv, PhoneTypeOK
  <2>2. PendingAgrees(v) /\ NumbersAgree(v)
    BY DEF PhoneIInv
  <2>3. PendingAgrees(v)'
    BY <2>2, <1>1 DEF PendingAgrees
  <2>4. NumbersAgree(v)'
    <3>1. CASE v = u
      BY <2>1, <2>2, <3>1, <1>1 DEF NumbersAgree
    <3>2. CASE v # u
      BY <2>1, <2>2, <3>2, <1>1 DEF NumbersAgree
    <3> QED
      BY <3>1, <3>2
  <2> QED
    BY <2>3, <2>4
<1> QED
  BY <1>2, <1>3, <1>4 DEF PhoneIInv

\* A removed number leaves another one as the primary and the identity, if
\* there is any.
LEMMA RemoveKeepsPhoneIInv ==
  ASSUME PhoneIInv, NEW u \in Users, NEW n \in Numbers, RemovePhone(u, n)
  PROVE  PhoneIInv'
<1>1. /\ contact' = [contact EXCEPT ![u][n] = "none"]
      /\ pending' = IF pending[u].number = n THEN [pending EXCEPT ![u] = NoChallenge] ELSE pending
      /\ UNCHANGED <<now, primary, identity, originOk, preparing, tokens, sent, outgoing, reached>>
  BY DEF RemovePhone
<1>2. contact[u][n] # "verified" /\ identity[u] # n
  BY DEF RemovePhone, RemovalBlocked, PhoneIInv, NumbersAgree
<1>3. /\ contact \in [Users -> [Numbers -> {"none", "unverified", "verified"}]]
      /\ pending \in [Users -> PendingStates]
  BY DEF PhoneIInv, PhoneTypeOK, PendingStates
<1>4. \A v \in Users, m \in Numbers : contact'[v][m] = IF v = u /\ m = n THEN "none" ELSE contact[v][m]
  BY <1>1, <1>3
<1>5. \A v \in Users, m \in Numbers : contact'[v][m] = "verified" <=> contact[v][m] = "verified"
  BY <1>2, <1>4
<1>6. \A v \in Users : pending'[v] = IF v = u /\ pending[v].number = n THEN NoChallenge ELSE pending[v]
  BY <1>1, <1>3
<1>7. PhoneTypeOK'
  <2>1. contact' \in [Users -> [Numbers -> {"none", "unverified", "verified"}]]
    BY <1>1, <1>3
  <2>2. pending' \in [Users -> PendingStates]
    BY <1>1, <1>3, NoChallengeType
  <2> QED
    BY <1>1, <2>1, <2>2 DEF PhoneIInv, PhoneTypeOK, PendingStates
<1>8. TokensAreFresh'
  BY <1>1 DEF PhoneIInv, TokensAreFresh
<1>9. ASSUME NEW v \in Users PROVE PendingAgrees(v)' /\ NumbersAgree(v)'
  <2>1. NumbersAgree(v)'
    BY <1>1, <1>5 DEF PhoneIInv, PhoneTypeOK, NumbersAgree
  <2>2. CASE v = u /\ pending[v].number = n
    <3>1. pending'[v] = NoChallenge
      BY <2>2, <1>6
    <3> QED
      BY <2>1, <3>1, NoChallengeType DEF PendingAgrees
  <2>3. CASE ~(v = u /\ pending[v].number = n)
    <3>1. pending'[v] = pending[v] /\ PendingAgrees(v) /\ pending[v] \in PendingStates
      BY <2>3, <1>3, <1>6 DEF PhoneIInv
    <3>2. pending[v].number \in Numbers => contact'[v][pending[v].number] = contact[v][pending[v].number]
      BY <2>3, <1>4
    <3>3. PendingAgrees(v)'
      BY <3>1, <3>2, <1>1 DEF PendingAgrees, PendingStates
    <3> QED
      BY <2>1, <3>3
  <2> QED
    BY <2>2, <2>3
<1>10. VerifiedByLink'
  BY <1>1, <1>5 DEF PhoneIInv, VerifiedByLink
<1> QED
  BY <1>7, <1>8, <1>9, <1>10 DEF PhoneIInv

\* Time changes no row.
LEMMA TickKeepsPhoneIInv ==
  ASSUME PhoneIInv, Tick, UNCHANGED phones
  PROVE  PhoneIInv'
<1>1. now' \in Nat /\ UNCHANGED <<contact, primary, identity, originOk, pending, preparing,
                                    tokens, sent, outgoing, reached>>
  BY DEF Tick, phones, PhoneIInv, PhoneTypeOK
<1>2. PhoneTypeOK'
  BY <1>1 DEF PhoneIInv, PhoneTypeOK
<1> QED
  BY <1>1, <1>2, NumbersUntouched DEF PhoneIInv, TokensAreFresh

\* The invariant holds in every state of the phones of an account.
THEOREM PhoneInductive == PhoneSpec => []PhoneIInv
<1>1. PhoneInit => PhoneIInv
  BY PhoneInitHolds
<1>2. PhoneIInv /\ [PhoneNext]_phoneVars => PhoneIInv'
  <2> SUFFICES ASSUME PhoneIInv, [PhoneNext]_phoneVars
               PROVE  PhoneIInv'
    OBVIOUS
  <2>1. CASE Tick /\ UNCHANGED phones
    BY <2>1, TickKeepsPhoneIInv
  <2>2. CASE DeliveryStep
    BY <2>2, DeliveryKeepsPhoneIInv, MarkKeepsPhoneIInv DEF DeliveryStep
  <2>3. ASSUME NEW u \in Users, PhoneUserStep(u)
        PROVE  PhoneIInv'
    BY <2>3, PrepareKeepsPhoneIInv, PreparationStepKeepsPhoneIInv, VerifyKeepsPhoneIInv,
       SetPrimaryKeepsPhoneIInv, RemoveKeepsPhoneIInv DEF PhoneUserStep
  <2>4. CASE UNCHANGED phoneVars
    <3>1. UNCHANGED <<now, contact, primary, identity, originOk, pending, preparing,
                      tokens, sent, outgoing, reached>>
      BY <2>4 DEF phoneVars, phones
    <3>2. PhoneTypeOK'
      BY <3>1 DEF PhoneIInv, PhoneTypeOK
    <3> QED
      BY <3>1, <3>2, NumbersUntouched DEF PhoneIInv, TokensAreFresh
  <2> QED
    BY <2>1, <2>2, <2>3, <2>4 DEF PhoneNext
<1> QED
  BY <1>1, <1>2, PTL DEF PhoneSpec

\* The contact rows, the challenges and the tokens keep their types
\* (src/users/account_phone/).
THEOREM PhoneTypeCorrect == PhoneSpec => []PhoneTypeOK
<1>1. PhoneIInv => PhoneTypeOK
  BY DEF PhoneIInv
<1> QED
  BY <1>1, PhoneInductive, PTL

\* Whatever users, numbers and tokens there are and however links are lost,
\* delayed and opened twice: a verified number has one owner, the identity, the
\* primary number and the verified origins name verified numbers, and a number
\* is verified only for a user to whom a link for it was delivered.
THEOREM PhonesAgree == PhoneSpec => []VerifiedPhonesAgree
  BY PhoneInductive, PhoneIInvImplies, PTL

=============================================================================
