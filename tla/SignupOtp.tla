----------------------------- MODULE SignupOtp -----------------------------
(***************************************************************************)
(* The public e-mail signup of one address: the routes that create, resend  *)
(* and verify a one-time code, and the recovery after a failed delivery.    *)
(*                                                                         *)
(* A signup or resend request is a transaction that rewrites the challenge *)
(* row, a call of the mail provider outside of it, and, when that call     *)
(* fails, a second transaction that writes back what the first one read.   *)
(* A verification is one transaction; what it writes before it raises is   *)
(* rolled back with it.                                                    *)
(***************************************************************************)
EXTENDS ApiClock, FiniteSets

CONSTANTS
    Requests,           \* requests the API serves at a time
    Cooldown,           \* the lifetimes and limits of the support module
    OtpLifetime,
    FlowTokenLifetime,
    SendBudgetWindow,
    MaxSendsPerWindow,
    MaxVerifyAttempts,
    Lockout,
    ProviderTimeout,    \* the longest a provider call and its recovery take
    MaxChallenges,      \* bound: rows of the challenges table
    MaxCodes,           \* bound: codes generated
    MaxWrongGuesses     \* bound: wrong guesses at one code

Challenges == 1..MaxChallenges
Codes == 1..MaxCodes
WrongCode == 0          \* a guess that is no code of this address

ASSUME SignupOtpAssumption ==
    /\ {Cooldown, OtpLifetime, FlowTokenLifetime, SendBudgetWindow, MaxSendsPerWindow,
        MaxVerifyAttempts, Lockout, ProviderTimeout} \subseteq Nat \ {0}
    /\ {MaxChallenges, MaxCodes, MaxWrongGuesses} \subseteq Nat

\* The mail client gives up after half a minute, the cooldown lasts a whole one.
ASSUME ProviderAssumption == ProviderTimeout < Cooldown

VARIABLES
    rows,        \* row ids handed out
    challenge,   \* rows of stephen_dcx_user_auth_challenges
    account,     \* the user, the contact method and the identity of the address
    request,     \* signup and resend requests between their transactions
    codes,       \* codes generated so far; a new one equals none before it
    inbox,       \* mails the provider accepted
    browser,     \* flow tokens the routes have returned
    wrong,       \* wrong guesses compared with the code of a row (history)
    unsure,      \* codes whose request died before it knew the outcome (history)
    forgiven     \* codes whose failed delivery was taken off the counter (history)

signup == <<rows, challenge, account, request, codes, inbox, browser, wrong, unsure,
            forgiven>>
signupVars == <<now, signup>>

ChallengeStatuses == {"none", "pending", "consumed", "locked", "expired", "invalidated"}

\* A flow token is a function of the row id and of its expiry.
Token == [challenge : Challenges, expires : Nat]
Row == [status : ChallengeStatuses, otp : Nat, otpExpires : Nat, attempts : Nat,
        lockedUntil : Nat, nextSend : Nat, tokenExpires : Nat,
        windowStart : Nat, windowCount : Nat]
NoRow == [status |-> "none", otp |-> 0, otpExpires |-> 0, attempts |-> 0,
          lockedUntil |-> Null, nextSend |-> Null, tokenExpires |-> Null,
          windowStart |-> Null, windowCount |-> 0]
Account == [status : {"none", "pending_email_verification", "confirmed"},
            method : {"none", "unverified", "verified"},
            identity : {"none", "unconfirmed", "confirmed"}]
NoAccount == [status |-> "none", method |-> "none", identity |-> "none"]
Mail == [token : Token, code : Codes, acknowledged : BOOLEAN]

Idle == [step |-> "idle"]
InFlight == [step : {"sending", "recovering"}, token : Token, code : Codes,
             recovery : {"delete_new_challenge", "restore_existing_challenge_state"},
             prior : Row, since : Nat]

SignupTypeOK ==
    /\ {now, rows} \subseteq Nat
    /\ challenge \in [Challenges -> Row]
    /\ account \in Account
    /\ request \in [Requests -> InFlight \cup {Idle}]
    /\ codes \in Nat
    /\ inbox \subseteq Mail
    /\ browser \subseteq Token
    /\ wrong \in [Challenges -> Nat]
    /\ unsure \subseteq Codes
    /\ forgiven \subseteq Codes

SignupInit ==
    /\ ClockInit
    /\ rows = 0
    /\ challenge = [c \in Challenges |-> NoRow]
    /\ account = NoAccount
    /\ request = [r \in Requests |-> Idle]
    /\ codes = 0
    /\ inbox = {}
    /\ browser = {}
    /\ wrong = [c \in Challenges |-> 0]
    /\ unsure = {}
    /\ forgiven = {}

Busy(r) == request[r].step # "idle"

\* Provider calls end within ProviderTimeout.
SignupTick ==
    /\ \A r \in Requests : Busy(r) => now < request[r].since + ProviderTimeout
    /\ Tick
    /\ UNCHANGED signup

-----------------------------------------------------------------------------
(* Issuing a code                                                           *)

Pending(c) == challenge[c].status = "pending"

TokenOf(c) == [challenge |-> c, expires |-> challenge[c].tokenExpires]

NextWindowStart(row) ==
    IF row.windowStart = Null \/ now - row.windowStart >= SendBudgetWindow
    THEN now ELSE row.windowStart

NextWindowCount(row) ==
    IF row.windowStart = Null \/ now - row.windowStart >= SendBudgetWindow
    THEN 1 ELSE row.windowCount + 1

\* Variants named Bug_* are the slips the properties have to catch.
Bug_NoCooldown(row) == FALSE

CoolingDown(row) == row.nextSend # Null /\ now < row.nextSend

IssuedRow(row) ==
    [status |-> "pending", otp |-> codes + 1, otpExpires |-> now + OtpLifetime,
     attempts |-> 0, lockedUntil |-> Null, nextSend |-> now + Cooldown,
     tokenExpires |-> now + FlowTokenLifetime,
     windowStart |-> NextWindowStart(row), windowCount |-> NextWindowCount(row)]

\* The row is rewritten and committed; the provider is called afterwards.
Issue(r, c, recovery) ==
    /\ codes < MaxCodes
    /\ NextWindowCount(challenge[c]) <= MaxSendsPerWindow
    /\ challenge' = [challenge EXCEPT ![c] = IssuedRow(@)]
    /\ request' = [request EXCEPT ![r] =
          [step |-> "sending", code |-> codes + 1, recovery |-> recovery,
           token |-> [challenge |-> c, expires |-> now + FlowTokenLifetime],
           prior |-> challenge[c], since |-> now]]
    /\ codes' = codes + 1
    /\ wrong' = [wrong EXCEPT ![c] = 0]
    /\ UNCHANGED <<now, inbox, browser, unsure, forgiven>>

\* The first signup makes the user and the contact method of the address.
UserAndMethod(a) ==
    IF a.method # "none" THEN a
    ELSE [a EXCEPT !.status = "pending_email_verification", !.method = "unverified"]

\* Every signup upserts the identity, which stays confirmed once it is.
IdentityUpserted(a) ==
    [a EXCEPT !.identity = IF @ = "confirmed" \/ a.method = "verified" THEN "confirmed"
                           ELSE "unconfirmed"]

SignsUp == account' = IdentityUpserted(UserAndMethod(account))

\* The advisory lock on the address makes the whole signup one step.
SignupCreates(r, c) ==
    /\ ~Busy(r)
    /\ \A d \in Challenges : ~Pending(d)
    /\ c = rows + 1
    /\ rows' = c
    /\ SignsUp
    /\ Issue(r, c, "delete_new_challenge")

SignupRefreshes(r, c) ==
    /\ ~Busy(r)
    /\ Pending(c)
    /\ ~CoolingDown(challenge[c])
    /\ SignsUp
    /\ Issue(r, c, "restore_existing_challenge_state")
    /\ UNCHANGED rows

\* Within the cooldown the route answers with the token of the running flow.
SignupReuses(c) ==
    /\ Pending(c)
    /\ CoolingDown(challenge[c])
    /\ browser' = browser \cup {TokenOf(c)}
    /\ SignsUp
    /\ UNCHANGED <<now, rows, challenge, request, codes, inbox, wrong, unsure, forgiven>>

\* What a transaction has written when its handler raises: psycopg2 rolls the
\* transaction back on the way out of the connection block.
AfterRaise(written) == challenge

RaiseWith(written) ==
    /\ challenge' = AfterRaise(written)
    /\ UNCHANGED <<now, rows, account, request, codes, inbox, browser, unsure, forgiven>>

FlowExpired(c) == challenge[c].tokenExpires # Null /\ challenge[c].tokenExpires < now
Finds(token) == {c \in Challenges : Pending(c) /\ TokenOf(c) = token}

Resend(r, token) ==
    \E c \in Finds(token) :
        /\ ~Busy(r)
        /\ ~FlowExpired(c)
        /\ ~CoolingDown(challenge[c])
        /\ Issue(r, c, "restore_existing_challenge_state")
        /\ UNCHANGED <<rows, account>>

ResendTooLate(token) ==
    \E c \in Finds(token) :
        /\ FlowExpired(c)
        /\ RaiseWith([challenge EXCEPT ![c].status = "invalidated"])
        /\ UNCHANGED wrong

-----------------------------------------------------------------------------
(* The mail provider and the recovery                                       *)

MailOf(r, acknowledged) ==
    [token |-> request[r].token, code |-> request[r].code, acknowledged |-> acknowledged]

MailAccepted(r) ==
    /\ request[r].step = "sending"
    /\ inbox' = inbox \cup {MailOf(r, TRUE)}
    /\ browser' = browser \cup {request[r].token}
    /\ request' = [request EXCEPT ![r] = Idle]
    /\ UNCHANGED <<now, rows, challenge, account, codes, wrong, unsure, forgiven>>

\* The call raises; the mail may have been accepted all the same.
MailFails(r) ==
    /\ request[r].step = "sending"
    /\ inbox' \in {inbox, inbox \cup {MailOf(r, FALSE)}}
    /\ request' = [request EXCEPT ![r].step = "recovering"]
    /\ UNCHANGED <<now, rows, challenge, account, codes, browser, wrong, unsure, forgiven>>

Bug_BudgetCleared(row, prior) == [prior EXCEPT !.status = row.status, !.windowCount = 0]
Bug_ReopensRow(row, prior) == prior

\* The columns the UPDATE writes back; challenge_status is not among them.
RestoredRow(row, prior) == [prior EXCEPT !.status = row.status]

Recover(r) ==
    LET c == request[r].token.challenge IN
    /\ request[r].step = "recovering"
    /\ challenge' = [challenge EXCEPT ![c] =
          IF request[r].recovery = "delete_new_challenge" THEN NoRow
          ELSE IF @ = NoRow THEN NoRow ELSE RestoredRow(@, request[r].prior)]
    /\ request' = [request EXCEPT ![r] = Idle]
    /\ forgiven' = forgiven \cup {request[r].code}
    /\ UNCHANGED <<now, rows, account, codes, inbox, browser, wrong, unsure>>

\* The process dies before or after the call, or the recovery cannot reach the
\* database and is only logged.
RequestDies(r) ==
    /\ Busy(r)
    /\ inbox' \in {inbox} \cup
          (IF request[r].step = "sending" THEN {inbox \cup {MailOf(r, FALSE)}} ELSE {})
    /\ request' = [request EXCEPT ![r] = Idle]
    /\ unsure' = unsure \cup {request[r].code}
    /\ UNCHANGED <<now, rows, challenge, account, codes, browser, wrong, forgiven>>

-----------------------------------------------------------------------------
(* Verification                                                             *)

Locked(c) == challenge[c].lockedUntil > now
OtpExpired(c) == challenge[c].otpExpires < now

VerifyTooLate(token) ==
    \E c \in Finds(token) :
        /\ \/ /\ FlowExpired(c)
              /\ RaiseWith([challenge EXCEPT ![c].status = "invalidated"])
           \/ /\ ~FlowExpired(c) /\ ~Locked(c) /\ OtpExpired(c)
              /\ RaiseWith([challenge EXCEPT ![c].status = "expired"])
        /\ UNCHANGED wrong

Comparable(c) == ~FlowExpired(c) /\ ~Locked(c) /\ ~OtpExpired(c)

CountedAttempt(row) ==
    LET last == row.attempts + 1 >= MaxVerifyAttempts IN
    [row EXCEPT !.attempts = @ + 1,
                !.lockedUntil = IF last THEN now + Lockout ELSE Null,
                !.status = IF last THEN "locked" ELSE "pending"]

VerifyWrong(token, code) ==
    \E c \in Finds(token) :
        /\ Comparable(c)
        /\ code # challenge[c].otp
        /\ wrong[c] < MaxWrongGuesses
        /\ wrong' = [wrong EXCEPT ![c] = @ + 1]
        /\ RaiseWith([challenge EXCEPT ![c] = CountedAttempt(@)])

ConfirmedAccount == [status |-> "confirmed", method |-> "verified", identity |-> "confirmed"]

VerifyRight(token, code) ==
    \E c \in Finds(token) :
        /\ Comparable(c)
        /\ code = challenge[c].otp
        /\ challenge' = [challenge EXCEPT ![c].status = "consumed"]
        /\ account' = ConfirmedAccount
        /\ UNCHANGED <<now, rows, request, codes, inbox, browser, wrong, unsure, forgiven>>

-----------------------------------------------------------------------------
HeldTokens == browser \cup {m.token : m \in inbox}
HeldCodes == {m.code : m \in inbox}

RouteStep(r) ==
    \/ \E c \in Challenges : SignupCreates(r, c) \/ SignupRefreshes(r, c)
    \/ \E token \in HeldTokens : Resend(r, token)

ProviderStep(r) == MailAccepted(r) \/ MailFails(r) \/ Recover(r) \/ RequestDies(r)

SignupUserStep ==
    \/ \E c \in Challenges : SignupReuses(c)
    \/ \E token \in HeldTokens :
          \/ ResendTooLate(token)
          \/ VerifyTooLate(token)
          \/ \E code \in HeldCodes \cup {WrongCode} : VerifyWrong(token, code)
          \/ \E code \in HeldCodes : VerifyRight(token, code)

SignupNext ==
    SignupTick \/ SignupUserStep \/ \E r \in Requests : RouteStep(r) \/ ProviderStep(r)

SignupSpec == SignupInit /\ [][SignupNext]_signupVars

-----------------------------------------------------------------------------
(* Safety                                                                   *)

Flying(c) == {r \in Requests : Busy(r) /\ request[r].token.challenge = c}
Acknowledged(c) == {m \in inbox : m.acknowledged /\ m.token.challenge = c}
Unforgiven(c) == {m \in inbox : m.token.challenge = c /\ m.code \notin forgiven}
SentAt(m) == m.token.expires - FlowTokenLifetime

\* Whatever signup, resend, failure and recovery interleave, a settled flow
\* answers to the newest mail the provider acknowledged: its code and its link
\* are those of the row.
NewestMailWorks ==
    \A c \in Challenges :
        Pending(c) /\ Flying(c) = {} /\ challenge[c].otp \notin unsure =>
            \E m \in Acknowledged(c) :
                /\ m.code = challenge[c].otp
                /\ m.token = TokenOf(c)
                /\ \A n \in Acknowledged(c) : n.code <= m.code

\* The cooldown and the budget of a row tell of the mails that reached the
\* address, acknowledged or not.  A running cooldown belongs to a mail that was
\* acknowledged, is under way, or whose request died.  Every mail sent since the
\* window began is counted, those of dead requests and of recoveries still to
\* come included, and the count stays within the limit; only a mail whose call
\* failed although it arrived is forgiven, once the recovery has put the counter
\* back.
CooldownAndBudgetTellOfMails ==
    \A c \in Challenges :
        LET row == challenge[c] IN
        /\ Pending(c) /\ CoolingDown(row) =>
              \/ \E m \in Acknowledged(c) : SentAt(m) + Cooldown = row.nextSend
              \/ \E r \in Flying(c) : request[r].since + Cooldown = row.nextSend
              \/ row.otp \in unsure
        /\ row.status # "none" =>
              /\ Cardinality({m \in Unforgiven(c) : SentAt(m) >= row.windowStart})
                    <= row.windowCount
              /\ row.windowCount <= MaxSendsPerWindow

\* A used code is used up: no late recovery, resend or second verification
\* opens a consumed challenge again, and the address stays confirmed whatever
\* signups of it follow.
ConsumedIsFinal ==
    [][/\ \A c \in Challenges :
             challenge[c].status = "consumed" =>
                 /\ challenge'[c].status = "consumed" \/ challenge'[c] = NoRow
                 /\ account' = ConfirmedAccount
       /\ account = ConfirmedAccount => account' = account]_signupVars

-----------------------------------------------------------------------------
(* What the contracts say                                                   *)

\* Wrong guesses at one code are counted, and the challenge locks at the limit.
WrongGuessesLockTheChallenge ==
    \A c \in Challenges : Pending(c) => wrong[c] < MaxVerifyAttempts
=============================================================================
