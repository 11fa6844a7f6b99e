------------------------------ MODULE PhoneLink ------------------------------
(***************************************************************************)
(* Linking WhatsApp numbers to accounts: the route that prepares a link,    *)
(* calls the provider and marks the delivery, the link that verifies the    *)
(* number, the choice of the primary number and the removal of one.         *)
(*                                                                         *)
(* The users row serialises the preparations of one user, never those of   *)
(* two users for one number: what a preparation reads about others may be  *)
(* out of date when it commits.  A handler that raises writes nothing.      *)
(***************************************************************************)
EXTENDS ApiClock, FiniteSets

CONSTANTS
    Users,
    Numbers,
    PhoneLinkLifetime, \* 10 minutes
    PhoneCooldown,          \* 30 seconds
    PhoneBudgetWindow,  \* 15 minutes
    MaxPhoneSends, \* 3
    MaxTokens          \* bound: links prepared

Tokens == 1..MaxTokens
NoNumber == "no_number"

ASSUME PhoneLinkAssumption ==
    /\ {PhoneLinkLifetime, PhoneCooldown, PhoneBudgetWindow, MaxPhoneSends} \subseteq Nat \ {0}
    /\ MaxTokens \in Nat
    /\ NoNumber \notin Numbers

VARIABLES
    contact,     \* the active phone row of a user and a number
    primary,     \* the rows with is_primary
    identity,    \* the number of the user's whatsapp identity
    originOk,    \* numbers whose confirmation for the current sender is confirmed
    pending,   \* the user's whatsapp link challenge that is not used or invalidated
    preparing,   \* preparations that have read about other users
    tokens,      \* tokens generated so far; a new one equals none before it
    sent,        \* who and which number a token was made for (history)
    outgoing,    \* delivery requests between the commit and the mark
    reached        \* tokens whose message reached its number

phones == <<contact, primary, identity, originOk, pending, preparing, tokens, sent,
            outgoing, reached>>
phoneVars == <<now, phones>>

NoChallenge == [number |-> NoNumber, token |-> 0, expires |-> Null, sentAt |-> Null,
                nextSend |-> Null, windowStart |-> Null, windowCount |-> 0]

PhoneTypeOK ==
    /\ now \in Nat /\ tokens \in Nat
    /\ contact \in [Users -> [Numbers -> {"none", "unverified", "verified"}]]
    /\ primary \in [Users -> SUBSET Numbers]
    /\ identity \in [Users -> Numbers \cup {NoNumber}]
    /\ originOk \in [Users -> SUBSET Numbers]
    /\ pending \in [Users -> [number : Numbers \cup {NoNumber}, token : 0..MaxTokens,
                                expires : Nat, sentAt : Nat, nextSend : Nat,
                                windowStart : Nat, windowCount : Nat]]
    /\ preparing \in [Users -> Numbers \cup {NoNumber}]
    /\ sent \in [Tokens -> (Users \X Numbers) \cup {<<>>}]
    /\ outgoing \subseteq [token : Tokens, step : {"calling", "marking"}]
    /\ reached \subseteq Tokens

PhoneInit ==
    /\ ClockInit
    /\ contact = [u \in Users |-> [n \in Numbers |-> "none"]]
    /\ primary = [u \in Users |-> {}]
    /\ identity = [u \in Users |-> NoNumber]
    /\ originOk = [u \in Users |-> {}]
    /\ pending = [u \in Users |-> NoChallenge]
    /\ preparing = [u \in Users |-> NoNumber]
    /\ tokens = 0
    /\ sent = [t \in Tokens |-> <<>>]
    /\ outgoing = {}
    /\ reached = {}

-----------------------------------------------------------------------------
(* Preparing a link                                                         *)

\* An active row of another user counts, verified or not.
InUseElsewhere(u, n) ==
    \E v \in Users \ {u} : contact[v][n] # "none" \/ identity[v] = n

\* The reads of the transaction, under the locks of the user.  A request may
\* force a new preparation of a number that is confirmed already.
CheckPhone(u, n) ==
    /\ preparing[u] = NoNumber
    /\ ~InUseElsewhere(u, n)
    /\ preparing' = [preparing EXCEPT ![u] = n]
    /\ UNCHANGED <<now, contact, primary, identity, originOk, pending, tokens, sent,
                   outgoing, reached>>

WindowOver(c) == c.windowStart = Null \/ now - c.windowStart >= PhoneBudgetWindow
BudgetStart(c) == IF WindowOver(c) THEN now ELSE c.windowStart
BudgetCount(c) == IF WindowOver(c) THEN 1 ELSE c.windowCount + 1

LinkIsFresh(c) == c.sentAt # Null /\ c.nextSend # Null /\ now < c.nextSend

MayPrepare(c) == ~LinkIsFresh(c) /\ BudgetCount(c) <= MaxPhoneSends

\* Variants named Bug_* are the slips the properties have to catch.
Bug_TokenKept(u, n) ==
    [number |-> n, token |-> IF pending[u].token = 0 THEN tokens + 1 ELSE pending[u].token,
     expires |-> now + PhoneLinkLifetime, sentAt |-> Null, nextSend |-> Null,
     windowStart |-> BudgetStart(pending[u]),
     windowCount |-> BudgetCount(pending[u])]

\* One row serves every number of the user: it is pointed at the new number.
PreparedChallenge(u, n) ==
    [number |-> n, token |-> tokens + 1,
     expires |-> now + PhoneLinkLifetime, sentAt |-> Null, nextSend |-> Null,
     windowStart |-> BudgetStart(pending[u]),
     windowCount |-> BudgetCount(pending[u])]

PreparePhoneLink(u) ==
    LET n == preparing[u] IN
    /\ n # NoNumber
    /\ MayPrepare(pending[u])
    /\ tokens < MaxTokens
    /\ tokens' = tokens + 1
    /\ sent' = [sent EXCEPT ![tokens + 1] = <<u, n>>]
    /\ contact' = [contact EXCEPT ![u][n] = IF @ = "none" THEN "unverified" ELSE @]
    /\ pending' = [pending EXCEPT ![u] = PreparedChallenge(u, n)]
    /\ outgoing' = outgoing \cup {[token |-> tokens + 1, step |-> "calling"]}
    /\ preparing' = [preparing EXCEPT ![u] = NoNumber]
    /\ UNCHANGED <<now, primary, identity, originOk, reached>>

\* The cooldown, the budget or the database: the transaction is rolled back.
PreparationRaises(u) ==
    /\ preparing[u] # NoNumber
    /\ preparing' = [preparing EXCEPT ![u] = NoNumber]
    /\ UNCHANGED <<now, contact, primary, identity, originOk, pending, tokens, sent,
                   outgoing, reached>>

-----------------------------------------------------------------------------
(* Delivering it                                                            *)

Calling(t) == [token |-> t, step |-> "calling"]
Marking(t) == [token |-> t, step |-> "marking"]

ProviderAccepts(t) ==
    /\ Calling(t) \in outgoing
    /\ outgoing' = (outgoing \ {Calling(t)}) \cup {Marking(t)}
    /\ reached' = reached \cup {t}
    /\ UNCHANGED <<now, contact, primary, identity, originOk, pending, preparing,
                   tokens, sent>>

\* The call raises, whether the message went out or not.  The challenge keeps
\* the token, its budget and an empty sent_at.
ProviderFails(t) ==
    /\ Calling(t) \in outgoing
    /\ outgoing' = outgoing \ {Calling(t)}
    /\ reached' \in {reached, reached \cup {t}}
    /\ UNCHANGED <<now, contact, primary, identity, originOk, pending, preparing,
                   tokens, sent>>

\* The mark raises, or the process dies before it.
DeliveryNotMarked(t) ==
    /\ Marking(t) \in outgoing
    /\ outgoing' = outgoing \ {Marking(t)}
    /\ UNCHANGED <<now, contact, primary, identity, originOk, pending, preparing,
                   tokens, sent, reached>>

\* The mark names the challenge row and the user, not the token: it may mark
\* the delivery of a later token.  Without an active row the route fails.
MarkDeliverySent(t) ==
    LET u == sent[t][1] IN
    /\ Marking(t) \in outgoing
    /\ outgoing' = outgoing \ {Marking(t)}
    /\ pending' = IF pending[u] = NoChallenge THEN pending
                    ELSE [pending EXCEPT ![u].sentAt = now,
                                           ![u].nextSend = now + PhoneCooldown]
    /\ UNCHANGED <<now, contact, primary, identity, originOk, preparing, tokens, sent, reached>>

-----------------------------------------------------------------------------
(* Verifying, choosing the primary number, removing                         *)

Verifiable(u, t) ==
    /\ pending[u].token = t
    /\ pending[u].sentAt # Null
    /\ pending[u].expires >= now
    /\ ~InUseElsewhere(u, pending[u].number)
    /\ preparing[u] # pending[u].number   \* both hold a row the other waits for

\* The number becomes the primary one when the transaction has seen no other.
PrimaryAfterVerify(u, n, seen) == IF seen = {} THEN primary[u] \cup {n} ELSE primary[u]

Verified(u, n) ==
    /\ contact' = [contact EXCEPT ![u][n] = "verified"]
    /\ identity' = [identity EXCEPT ![u] = n]
    /\ originOk' = [originOk EXCEPT ![u] = @ \cup {n}]
    /\ pending' = [pending EXCEPT ![u] = NoChallenge]
    /\ UNCHANGED <<now, preparing, tokens, sent, outgoing, reached>>

VerifyPhoneLink(u, t) ==
    LET n == pending[u].number IN
    /\ Verifiable(u, t)
    /\ primary' = [primary EXCEPT ![u] = PrimaryAfterVerify(u, n, primary[u])]
    /\ Verified(u, n)

MayBecomePrimary(u, n) ==
    /\ preparing[u] = NoNumber               \* the users row is locked
    /\ contact[u][n] = "verified"
    /\ n \notin primary[u]

SetPrimaryPhone(u, n) ==
    /\ MayBecomePrimary(u, n)
    /\ primary' = [primary EXCEPT ![u] = {n}]
    /\ UNCHANGED <<now, contact, identity, originOk, pending, preparing, tokens, sent,
                   outgoing, reached>>

\* A verification that waits for the primary row while another number becomes
\* primary reads the row again, finds it demoted, and does not see the new one.
VerifyDuringSetPrimary(u, t, n) ==
    LET m == pending[u].number IN
    /\ MayBecomePrimary(u, n)
    /\ primary[u] # {}
    /\ m # n
    /\ Verifiable(u, t)
    /\ primary' = [primary EXCEPT ![u] = {n, m}]
    /\ Verified(u, m)

RemovalBlocked(u, n) == n \in primary[u] \/ identity[u] = n \/ n \in originOk[u]

RemovePhone(u, n) ==
    /\ contact[u][n] # "none"
    /\ preparing[u] # n                      \* the row is locked
    /\ ~RemovalBlocked(u, n)
    /\ contact' = [contact EXCEPT ![u][n] = "none"]
    /\ pending' = IF pending[u].number = n THEN [pending EXCEPT ![u] = NoChallenge]
                    ELSE pending
    /\ UNCHANGED <<now, primary, identity, originOk, preparing, tokens, sent, outgoing, reached>>

\* What the account page lists, and the number it shows on top: of several
\* primary rows the query takes any.
ListedPhones(u) ==
    {[number |-> n, verified |-> contact[u][n] = "verified", primary |-> n \in primary[u],
      linked |-> identity[u] = n, confirmed |-> n \in originOk[u]] :
        n \in {m \in Numbers : contact[u][m] # "none"}}

\* The link it tells the user to look for.
PendingPhones(u) ==
    IF pending[u].sentAt # Null /\ pending[u].expires >= now THEN {pending[u].number} ELSE {}

PrimaryPhones(u) == {phone \in ListedPhones(u) : phone.primary}

-----------------------------------------------------------------------------
DeliveryStep ==
    \E t \in Tokens :
        ProviderAccepts(t) \/ ProviderFails(t) \/ MarkDeliverySent(t) \/ DeliveryNotMarked(t)

PhoneUserStep(u) ==
    \/ PreparePhoneLink(u)
    \/ PreparationRaises(u)
    \/ \E t \in reached : VerifyPhoneLink(u, t)
    \/ \E n \in Numbers :
          \/ CheckPhone(u, n)
          \/ SetPrimaryPhone(u, n)
          \/ RemovePhone(u, n)
          \/ \E t \in reached : VerifyDuringSetPrimary(u, t, n)

PhoneNext ==
    \/ Tick /\ UNCHANGED phones
    \/ DeliveryStep
    \/ \E u \in Users : PhoneUserStep(u)

PhoneSpec == PhoneInit /\ [][PhoneNext]_phoneVars

-----------------------------------------------------------------------------
(* Safety                                                                   *)

\* A verified number has one owner, although two preparations may both find it
\* free, and was verified by a link that reached it, whatever older links of the
\* row, late marks and changes of the number come between.  The account page is
\* never at odds with itself: what it calls linked, confirmed or primary is
\* verified, it shows a primary number to whoever has a verified one, and the
\* number it waits for is one it lists.
VerifiedPhonesAgree ==
    \A u \in Users :
        /\ \A v \in Users \ {u}, n \in Numbers :
              ~(contact[u][n] = "verified" /\ contact[v][n] = "verified")
        /\ identity[u] # NoNumber => \E phone \in ListedPhones(u) : phone.linked
        /\ PendingPhones(u) \subseteq {phone.number : phone \in ListedPhones(u)}
        /\ \A phone \in ListedPhones(u) :
              /\ phone.verified <=> phone.confirmed
              /\ phone.linked \/ phone.primary => phone.verified
              /\ phone.verified => PrimaryPhones(u) # {}
        /\ \A n \in Numbers :
              contact[u][n] = "verified" => \E t \in reached : sent[t] = <<u, n>>

=============================================================================
