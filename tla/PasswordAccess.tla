--------------------------- MODULE PasswordAccess ---------------------------
(***************************************************************************)
(* The password links, the password and the sessions of one account.        *)
(*                                                                         *)
(* A link is one committed row per purpose, rewritten by every new request; *)
(* the mail or the response that carries it leaves afterwards and may be    *)
(* lost.  A login verifies the password in one transaction and inserts the *)
(* session in a second one.  Setting a password is one transaction that     *)
(* also consumes the link and revokes every active session.                 *)
(***************************************************************************)
EXTENDS ApiClock

CONSTANTS
    Passwords,        \* passwords people choose
    Logins,           \* login requests the API serves at a time
    LinkLifetime,     \* 60 minutes
    SessionLifetime,  \* the max-age of the session cookie
    TouchInterval,    \* 5 minutes between two writes of last_seen_at
    Window,           \* the fixed window of the public route rate limits
    MaxLogins,        \* login attempts per e-mail and window
    MaxResets,        \* reset requests per client and window
    MaxLinks,         \* bound: links issued
    MaxSessions       \* bound: sessions opened

Purposes == {"password_setup", "password_reset"}
Routes == {"login", "reset"}     \* the rate-limited routes of this account
Links == 1..MaxLinks
Sessions == 1..MaxSessions
NoPassword == "no_password"

ASSUME PasswordAccessAssumption ==
    /\ {LinkLifetime, SessionLifetime, TouchInterval, Window, MaxLogins, MaxResets}
          \subseteq Nat \ {0}
    /\ {MaxLinks, MaxSessions} \subseteq Nat
    /\ NoPassword \notin Passwords

VARIABLES
    signedUp,   \* the signup of the account has been verified
    link,        \* the pending password_link challenge of each purpose
    links,       \* tokens generated so far; a new one equals none before it
    outbox,      \* tokens committed whose mail or response has not left yet
    held,        \* tokens people hold
    uses,        \* how often a token has set a password (history)
    password,    \* stephen_dcx_user_password_credentials
    sets,        \* passwords set so far (history)
    session,     \* stephen_dcx_user_auth_sessions
    opened,      \* sessions opened so far
    verified,    \* logins between their two transactions
    counted      \* requests of each route in the current window

linkVars == <<link, links, outbox, held, uses>>
sessionVars == <<session, opened, verified>>
access == <<signedUp, linkVars, password, sets, sessionVars, counted>>
accessVars == <<now, access>>

NoLink == [token |-> 0, expires |-> 0]
NoSession == [status |-> "none", sets |-> 0, expires |-> 0, lastSeen |-> 0]

AccessTypeOK ==
    /\ {now, links, sets, opened} \subseteq Nat
    /\ signedUp \in BOOLEAN
    /\ link \in [Purposes -> [token : 0..MaxLinks, expires : Nat]]
    /\ outbox \subseteq Links /\ held \subseteq Links
    /\ uses \in [Links -> Nat]
    /\ password \in Passwords \cup {NoPassword}
    /\ session \in [Sessions -> [status : {"none", "active", "revoked"}, sets : Nat,
                                 expires : Nat, lastSeen : Nat]]
    /\ verified \subseteq Logins
    /\ counted \in [Routes -> Nat]

AccessInit ==
    /\ ClockInit
    /\ signedUp = FALSE
    /\ link = [p \in Purposes |-> NoLink]
    /\ links = 0
    /\ outbox = {}
    /\ held = {}
    /\ uses = [t \in Links |-> 0]
    /\ password = NoPassword
    /\ sets = 0
    /\ session = [s \in Sessions |-> NoSession]
    /\ opened = 0
    /\ verified = {}
    /\ counted = [r \in Routes |-> 0]

\* A new window is a new row of the limits table: it starts from nothing.
AccessTick ==
    /\ Tick
    /\ counted' = IF (now + 1) % Window = 0 THEN [r \in Routes |-> 0] ELSE counted
    /\ UNCHANGED <<signedUp, linkVars, password, sets, sessionVars>>

-----------------------------------------------------------------------------
(* Rate limits                                                              *)

Limit(route) == IF route = "login" THEN MaxLogins ELSE MaxResets

\* The counter is committed before it is compared: a refused request counts.
\* Counts past the limit are one: nothing reads how far past it they are.
CountRequest(route) ==
    counted' = [counted EXCEPT ![route] = IF @ > Limit(route) THEN @ ELSE @ + 1]

Admits(route) == counted[route] + 1 <= Limit(route)

RefuseRequest(route) ==
    /\ ~Admits(route)
    /\ CountRequest(route)
    /\ UNCHANGED <<now, signedUp, linkVars, password, sets, sessionVars>>

-----------------------------------------------------------------------------
(* Password links                                                           *)

\* The signup's verification has been committed.
ConfirmAccount ==
    /\ ~signedUp
    /\ signedUp' = TRUE
    /\ UNCHANGED <<now, linkVars, password, sets, sessionVars, counted>>

\* A pending row keeps its id and gets the new token; without one, a row is inserted.
RefreshedLink(purpose) == [token |-> links + 1, expires |-> now + LinkLifetime]

CreateOrRefreshLink(purpose) ==
    /\ links < MaxLinks
    /\ link' = [link EXCEPT ![purpose] = RefreshedLink(purpose)]
    /\ links' = links + 1
    /\ outbox' = outbox \cup {links + 1}
    /\ UNCHANGED <<held, uses>>

HasPasswordTarget == signedUp

\* Only a confirmed account has a link made; for others the answer is the same.
RequestReset ==
    /\ Admits("reset")
    /\ CountRequest("reset")
    /\ IF HasPasswordTarget THEN CreateOrRefreshLink("password_reset")
       ELSE UNCHANGED linkVars
    /\ UNCHANGED <<now, signedUp, password, sets, sessionVars>>

\* The verification route makes the link after the verification's commit.
CreateSetupLink ==
    /\ HasPasswordTarget
    /\ CreateOrRefreshLink("password_setup")
    /\ UNCHANGED <<now, signedUp, password, sets, sessionVars, counted>>

LinkArrives(token) ==
    /\ token \in outbox
    /\ outbox' = outbox \ {token}
    /\ held' = held \cup {token}
    /\ UNCHANGED <<now, signedUp, link, links, uses, password, sets, sessionVars, counted>>

\* A mail that fails is only logged, and the row is left with its token.
LinkIsLost(token) ==
    /\ token \in outbox
    /\ outbox' = outbox \ {token}
    /\ UNCHANGED <<now, signedUp, link, links, held, uses, password, sets,
                   sessionVars, counted>>

PurposesOf(token) == {p \in Purposes : link[p].token = token}
Expired(purpose) == link[purpose].expires < now

\* Variants named Bug_* are the slips the properties have to catch.
Bug_KeepsLink(purpose) == link

WithoutLink(purpose) == [link EXCEPT ![purpose] = NoLink]

Bug_KeepsSessions(s) == session[s]

EndedSession(s) ==
    IF session[s].status = "active" THEN [session[s] EXCEPT !.status = "revoked"]
    ELSE session[s]

CompletePasswordSet(token, candidate) ==
    \E p \in PurposesOf(token) :
        /\ ~Expired(p)
        /\ password' = candidate
        /\ sets' = sets + 1
        /\ link' = WithoutLink(p)
        /\ uses' = [uses EXCEPT ![token] = @ + 1]
        /\ session' = [s \in Sessions |-> EndedSession(s)]
        /\ UNCHANGED <<now, signedUp, links, outbox, held, opened, verified, counted>>

\* The row is marked expired and the handler raises: the mark is rolled back.
LinkAfterRaise(purpose) == link

CompletePasswordSetTooLate(token) ==
    \E p \in PurposesOf(token) :
        /\ Expired(p)
        /\ link' = LinkAfterRaise(p)
        /\ UNCHANGED <<now, signedUp, links, outbox, held, uses, password, sets,
                       sessionVars, counted>>

-----------------------------------------------------------------------------
(* Login, logout and authenticated requests                                 *)

\* The first transaction of a login reads the account and its password hash.
VerifyPassword(l, candidate) ==
    /\ l \notin verified
    /\ Admits("login")
    /\ CountRequest("login")
    /\ verified' = IF signedUp /\ candidate = password THEN verified \cup {l}
                   ELSE verified
    /\ UNCHANGED <<now, signedUp, linkVars, password, sets, session, opened>>

\* The second one inserts the session.
CreateSession(l) ==
    /\ l \in verified
    /\ opened < MaxSessions
    /\ opened' = opened + 1
    /\ session' = [session EXCEPT ![opened + 1] =
          [status |-> "active", sets |-> sets, expires |-> now + SessionLifetime,
           lastSeen |-> now]]
    /\ verified' = verified \ {l}
    /\ UNCHANGED <<now, signedUp, linkVars, password, sets, counted>>

LoginDies(l) ==
    /\ l \in verified
    /\ verified' = verified \ {l}
    /\ UNCHANGED <<now, signedUp, linkVars, password, sets, session, opened, counted>>

Live(s) == session[s].status = "active" /\ session[s].expires > now

\* The gate of every authenticated route.
ReadSession(s) ==
    /\ Live(s)
    /\ session[s].lastSeen < now - TouchInterval
    /\ session' = [session EXCEPT ![s].lastSeen = now]
    /\ UNCHANGED <<now, signedUp, linkVars, password, sets, opened, verified, counted>>

\* The cookie names the row; an expired row is revoked as well.
EndSession(s) ==
    /\ session[s].status = "active"
    /\ session' = [session EXCEPT ![s].status = "revoked"]

Logout(s) ==
    /\ EndSession(s)
    /\ UNCHANGED <<now, signedUp, linkVars, password, sets, opened, verified, counted>>

-----------------------------------------------------------------------------
LinkStep ==
    \/ ConfirmAccount
    \/ RequestReset
    \/ CreateSetupLink
    \/ \E t \in Links : LinkArrives(t) \/ LinkIsLost(t)
    \/ \E t \in held :
          \/ \E p \in Passwords : CompletePasswordSet(t, p)
          \/ CompletePasswordSetTooLate(t)

SessionStep ==
    \/ \E l \in Logins :
          \/ \E p \in Passwords : VerifyPassword(l, p)
          \/ CreateSession(l)
          \/ LoginDies(l)
    \/ \E s \in Sessions : ReadSession(s) \/ Logout(s)

AccessNext ==
    \/ AccessTick
    \/ \E r \in Routes : RefuseRequest(r)
    \/ LinkStep
    \/ SessionStep

AccessSpec == AccessInit /\ [][AccessNext]_accessVars

-----------------------------------------------------------------------------
(* Safety                                                                   *)

\* A link sets one password, and the newest one stays pending until it has:
\* requests, lost mails, clicks that come too late and a second click never
\* bring a used or a replaced link back, nor cost the newest one its use.
LinksWorkOnce ==
    /\ \A t \in Links : uses[t] <= 1
    /\ \A p \in Purposes : link[p] # NoLink => uses[link[p].token] = 0
    /\ links > 0 /\ uses[links] = 0 => \E p \in Purposes : link[p].token = links

\* Setting a password ends every session that was open: an active session was
\* inserted after the last set, whatever logins, resets and logouts interleave.
\* (A login that verified the old password just before may insert just after.)
SessionsEndWithTheirPassword ==
    \A s \in Sessions : session[s].status = "active" => session[s].sets = sets
=============================================================================
