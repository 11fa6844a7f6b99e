----------------------------- MODULE EmailSends -----------------------------
(***************************************************************************)
(* Newsletter and sequence deliveries: preparation by an administrator,     *)
(* cancellation, the dispatch workers, the Resend webhook, and the user's   *)
(* preference changes, all over one Postgres database.                      *)
(*                                                                         *)
(* A dispatch is ONE database transaction that spans every provider call.  *)
(* Its writes are kept in the worker's draft until it commits; a crash or   *)
(* an error outside the per-chunk handler rolls them back, while the mail   *)
(* the provider accepted in the meantime stays accepted.                    *)
(***************************************************************************)
EXTENDS Naturals, FiniteSets

CONSTANTS
    Users,            \* user ids; recipient rows are created in this order
    Workers,          \* processes of the dispatch loop or of the cron job
    MaxSends,         \* bound: rows of the sends table
    MaxTime,          \* bound: the last instant of the clock
    MaxAborts,        \* bound: rolled back dispatches of one send
    ChunkSize,        \* drafts in one provider call
    EventTypes,       \* bound: the webhook events the provider posts
    ActiveUsers,      \* bound: the users who change their preferences
    InitialAccounts   \* the populations of accounts to start from

Sends == 1..MaxSends
Nobody == 0           \* a worker that holds no send

EmailStates == {"none", "unverified", "verified"}
Preferences == {"all_email", "newsletters", "no_email"}
Roles == {"user", "admin", "dev", "shareholder"}
AudienceScopes == {"all", "admins", "devs", "shareholders"}

Account == [email : EmailStates, confirmed : BOOLEAN, role : Roles,
            translated : BOOLEAN, preference : Preferences]

SendStatuses == {"absent", "scheduled", "sent", "failed", "cancelled", "sending"}
RowStatuses == {"none", "skipped", "pending", "sending", "sent", "failed",
                "delivered", "bounced", "complained"}
OpenRowStatuses == {"pending", "sending"}
ProviderEventTypes == {"delivered", "failed", "bounced", "complained"}

ASSUME EmailSendsAssumption ==
    /\ Users \subseteq Nat
    /\ MaxSends \in Nat
    /\ MaxTime \in Nat
    /\ MaxAborts \in Nat
    /\ ChunkSize \in Nat \ {0}
    /\ EventTypes \subseteq {"delivered", "failed", "bounced", "complained"}
    /\ ActiveUsers \subseteq Users
    /\ InitialAccounts \subseteq [Users -> Account]

VARIABLES
    now,          \* the clock the workers read
    account,      \* users, with their primary e-mail contact
    suppressed,   \* scopes of the active suppressions of a user's address
    send,         \* committed rows of stephen_dcx_emails_sends
    recipient,    \* committed rows of stephen_dcx_emails_sends_recipients
    claimed,      \* the send row whose lock a worker's transaction holds
    draft,        \* the recipient rows as that transaction has written them
    todo,         \* recipients whose provider call is still to be made
    copies,       \* messages the provider accepted, per send and user
    emitted,      \* webhook events the provider has to post, or posts again
    handled,      \* events answered with success, with the answer (history)
    aborts        \* rolled back dispatches (history)

userVars == <<account, suppressed>>
rowVars == <<send, recipient>>
workerVars == <<claimed, draft, todo>>
providerVars == <<copies, emitted, handled>>
vars == <<now, userVars, rowVars, workerVars, providerVars, aborts>>

\* message is the number of the accepted copy whose provider id the row holds
Row == [send : BOOLEAN, status : RowStatuses, message : Nat]
SendRow == [status : SendStatuses, kind : {"newsletter", "sequence"}, scheduledAt : Nat]
NoRow == [send |-> FALSE, status |-> "none", message |-> 0]
NoSend == [status |-> "absent", kind |-> "newsletter", scheduledAt |-> 0]

Message == [send : Sends, user : Users, copy : Nat]
Event == [message : Message, type : ProviderEventTypes]
Answer == [event : Event, status : {"applied", "ignored"}]

TypeOK ==
    /\ now \in Nat
    /\ account \in [Users -> Account]
    /\ suppressed \in [Users -> SUBSET {"newsletters", "all_email"}]
    /\ send \in [Sends -> SendRow]
    /\ recipient \in [Sends -> [Users -> Row]]
    /\ claimed \in [Workers -> Sends \cup {Nobody}]
    /\ draft \in [Workers -> [Users -> Row]]
    /\ todo \in [Workers -> SUBSET Users]
    /\ copies \in [Sends -> [Users -> Nat]]
    /\ emitted \subseteq Event
    /\ handled \subseteq Answer
    /\ aborts \in [Sends -> Nat]

Init ==
    /\ now = 0
    /\ account \in InitialAccounts
    /\ suppressed = [u \in Users |-> {}]
    /\ send = [s \in Sends |-> NoSend]
    /\ recipient = [s \in Sends |-> [u \in Users |-> NoRow]]
    /\ claimed = [w \in Workers |-> Nobody]
    /\ draft = [w \in Workers |-> [u \in Users |-> NoRow]]
    /\ todo = [w \in Workers |-> {}]
    /\ copies = [s \in Sends |-> [u \in Users |-> 0]]
    /\ emitted = {}
    /\ handled = {}
    /\ aborts = [s \in Sends |-> 0]

Tick ==
    /\ now < MaxTime
    /\ now' = now + 1
    /\ UNCHANGED <<userVars, rowVars, workerVars, providerVars, aborts>>

-----------------------------------------------------------------------------
(* The administrator: prepare and cancel                                    *)

InScope(scope, u) ==
    \/ scope = "all"
    \/ scope = "admins" /\ account[u].role = "admin"
    \/ scope = "devs" /\ account[u].role = "dev"
    \/ scope = "shareholders" /\ account[u].role = "shareholder"

\* The reasons to skip differ only in the label they leave on the row.
\* Variants named Bug_* are the slips the properties have to catch.
Bug_SuppressionNotRead(u) ==
    /\ account[u].email = "verified"
    /\ account[u].confirmed
    /\ account[u].preference \in {"newsletters", "all_email"}
    /\ account[u].translated

DecidesSend(u) ==
    /\ account[u].email = "verified"
    /\ account[u].confirmed
    /\ suppressed[u] = {}
    /\ account[u].preference \in {"newsletters", "all_email"}
    /\ account[u].translated

PreparedRow(scope, u) ==
    CASE ~InScope(scope, u) -> NoRow
      [] InScope(scope, u) /\ DecidesSend(u) ->
             [send |-> TRUE, status |-> "pending", message |-> 0]
      [] OTHER -> [send |-> FALSE, status |-> "skipped", message |-> 0]

\* Row ids are handed out in order.
NextId(s) ==
    /\ send[s].status = "absent"
    /\ \A t \in Sends : t < s => send[t].status # "absent"

(* recipient_email_snapshot is NOT NULL: one account in the audience with no  *)
(* primary address makes the whole transaction fail, and nothing is written. *)
PrepareNewsletterSend(s, scope, at) ==
    /\ NextId(s)
    /\ \A u \in Users : InScope(scope, u) => account[u].email # "none"
    /\ send' = [send EXCEPT ![s] = [status |-> "scheduled", kind |-> "newsletter",
                                    scheduledAt |-> at]]
    /\ recipient' = [recipient EXCEPT ![s] = [u \in Users |-> PreparedRow(scope, u)]]
    /\ UNCHANGED <<now, userVars, workerVars, providerVars, aborts>>

Locked(s) == \E w \in Workers : claimed[w] = s

Bug_CancelIgnoresTheLock(s) ==
    /\ send[s].status = "scheduled"
    /\ send' = [send EXCEPT ![s].status = "cancelled"]
    /\ UNCHANGED <<now, userVars, recipient, workerVars, providerVars, aborts>>

(* The UPDATE waits for the row lock of a dispatch in progress and then       *)
(* evaluates send_status = 'scheduled' again on the committed row.           *)
CancelSend(s) ==
    /\ ~Locked(s)
    /\ send[s].status = "scheduled"
    /\ send' = [send EXCEPT ![s].status = "cancelled"]
    /\ UNCHANGED <<now, userVars, recipient, workerVars, providerVars, aborts>>

-----------------------------------------------------------------------------
(* The dispatch workers                                                     *)

Bug_NoSkipLocked(s) ==
    /\ send[s].status = "scheduled"
    /\ send[s].scheduledAt <= now

Claimable(s) ==
    /\ send[s].status = "scheduled"
    /\ send[s].scheduledAt <= now
    /\ ~Locked(s)

DispatchedBefore(s, t) ==
    \/ send[s].scheduledAt < send[t].scheduledAt
    \/ send[s].scheduledAt = send[t].scheduledAt /\ s < t

Bug_DecisionNotRead(s) ==
    {u \in Users : recipient[s][u].status \in {"pending", "skipped"}}

Pending(s) == {u \in Users : recipient[s][u].send /\ recipient[s][u].status = "pending"}

(* SELECT ... FOR UPDATE SKIP LOCKED, and the rows marked 'sending' in the    *)
(* transaction that nobody else sees before it commits.                     *)
ClaimDueSend(w, s) ==
    /\ claimed[w] = Nobody
    /\ Claimable(s)
    /\ \A t \in Sends : Claimable(t) /\ t # s => DispatchedBefore(s, t)
    /\ claimed' = [claimed EXCEPT ![w] = s]
    /\ todo' = [todo EXCEPT ![w] = Pending(s)]
    /\ draft' = [draft EXCEPT ![w] =
                   [u \in Users |-> IF u \in Pending(s)
                                    THEN [recipient[s][u] EXCEPT !.status = "sending"]
                                    ELSE recipient[s][u]]]
    /\ UNCHANGED <<now, userVars, rowVars, providerVars, aborts>>

\* The first ChunkSize drafts in the order of the recipient rows.
IsNextChunk(chunk, queue) ==
    /\ chunk \subseteq queue
    /\ \A u \in chunk, v \in queue \ chunk : u < v
    /\ \/ Cardinality(chunk) = ChunkSize
       \/ chunk = queue /\ Cardinality(chunk) < ChunkSize

ProviderAccepts(s, chunk) ==
    copies' = [copies EXCEPT ![s] = [u \in Users |->
                  IF u \in chunk THEN copies[s][u] + 1 ELSE copies[s][u]]]

Bug_FailureRecordedAsSent(w, chunk) ==
    draft' = [draft EXCEPT ![w] = [u \in Users |->
                 IF u \in chunk THEN [draft[w][u] EXCEPT !.status = "sent"]
                                ELSE draft[w][u]]]

RecordFailed(w, chunk) ==
    draft' = [draft EXCEPT ![w] = [u \in Users |->
                 IF u \in chunk THEN [draft[w][u] EXCEPT !.status = "failed"]
                                ELSE draft[w][u]]]

SendChunk(w, chunk) ==
    /\ claimed[w] # Nobody
    /\ todo[w] # {}
    /\ IsNextChunk(chunk, todo[w])
    /\ todo' = [todo EXCEPT ![w] = @ \ chunk]

ChunkAccepted(w, chunk) ==
    /\ SendChunk(w, chunk)
    /\ ProviderAccepts(claimed[w], chunk)
    /\ draft' = [draft EXCEPT ![w] = [u \in Users |->
                    IF u \in chunk
                    THEN [draft[w][u] EXCEPT !.status = "sent",
                                             !.message = copies[claimed[w]][u] + 1]
                    ELSE draft[w][u]]]
    /\ UNCHANGED <<now, userVars, rowVars, claimed, emitted, handled, aborts>>

ChunkRejected(w, chunk) ==
    /\ SendChunk(w, chunk)
    /\ RecordFailed(w, chunk)
    /\ UNCHANGED <<now, userVars, rowVars, claimed, providerVars, aborts>>

\* Accepted, but the answer is lost or unreadable: the adapter raises, and the
\* chunk is recorded as failed like a rejected one.
ChunkAnswerLost(w, chunk) ==
    /\ SendChunk(w, chunk)
    /\ ProviderAccepts(claimed[w], chunk)
    /\ RecordFailed(w, chunk)
    /\ UNCHANGED <<now, userVars, rowVars, claimed, emitted, handled, aborts>>

DraftHas(w, statuses) == \E u \in Users : draft[w][u].status \in statuses

Bug_FailuresNotCounted(w) ==
    IF DraftHas(w, OpenRowStatuses) THEN "sending" ELSE "sent"

Bug_FailuresLeaveSending(w) ==
    IF DraftHas(w, OpenRowStatuses \cup {"failed"}) THEN "sending" ELSE "sent"

FinalStatus(w) ==
    CASE DraftHas(w, OpenRowStatuses) -> "sending"
      [] ~DraftHas(w, OpenRowStatuses) /\ DraftHas(w, {"failed"}) -> "failed"
      [] OTHER -> "sent"

Release(w) ==
    /\ claimed' = [claimed EXCEPT ![w] = Nobody]
    /\ todo' = [todo EXCEPT ![w] = {}]
    /\ draft' = [draft EXCEPT ![w] = [u \in Users |-> NoRow]]

CommitDispatch(w) ==
    /\ claimed[w] # Nobody
    /\ todo[w] = {}
    /\ recipient' = [recipient EXCEPT ![claimed[w]] = draft[w]]
    /\ send' = [send EXCEPT ![claimed[w]].status = FinalStatus(w)]
    /\ Release(w)
    /\ UNCHANGED <<now, userVars, providerVars, aborts>>

\* A crash, a lost connection or an error outside the chunk handler: Postgres
\* rolls the transaction back; the loop, or the next cron run, goes on.
AbortDispatch(w) ==
    /\ claimed[w] # Nobody
    /\ aborts[claimed[w]] < MaxAborts
    /\ aborts' = [aborts EXCEPT ![claimed[w]] = @ + 1]
    /\ Release(w)
    /\ UNCHANGED <<now, userVars, rowVars, providerVars>>

-----------------------------------------------------------------------------
(* The provider and its webhook                                             *)

Settles == {"delivered", "failed", "bounced"}
EmittedTypes(m) == {e.type : e \in {f \in emitted : f.message = m}}

\* An accepted message is delivered, fails or bounces, once; a complaint can
\* only follow the delivery.
ProviderEmits(m, type) ==
    /\ m.copy \in 1..copies[m.send][m.user]
    /\ \/ type \in Settles /\ EmittedTypes(m) = {}
       \/ type = "complained" /\ EmittedTypes(m) = {"delivered"}
    /\ emitted' = emitted \cup {[message |-> m, type |-> type]}
    /\ UNCHANGED <<now, userVars, rowVars, workerVars, copies, handled, aborts>>

\* The committed row that holds the provider's id of this message.
Matches(m) == recipient[m.send][m.user].message = m.copy

Bug_ComplaintsDoNotSuppress(type) == type = "bounced"

Suppresses(type) == type \in {"bounced", "complained"}

\* The events arrive in any order and any number of times.
ApplyResendEmailEvent(e) ==
    /\ e \in emitted
    /\ Matches(e.message)
    /\ recipient' = [recipient EXCEPT ![e.message.send][e.message.user].status = e.type]
    /\ suppressed' = IF Suppresses(e.type)
                     THEN [suppressed EXCEPT ![e.message.user] = @ \cup {"all_email"}]
                     ELSE suppressed
    /\ handled' = handled \cup {[event |-> e, status |-> "applied"]}
    /\ UNCHANGED <<now, account, send, workerVars, copies, emitted, aborts>>

\* "recipient_not_found" is answered with 200: the provider does not retry.
IgnoreResendEmailEvent(e) ==
    /\ e \in emitted
    /\ ~Matches(e.message)
    /\ handled' = handled \cup {[event |-> e, status |-> "ignored"]}
    /\ UNCHANGED <<now, userVars, rowVars, workerVars, copies, emitted, aborts>>

-----------------------------------------------------------------------------
(* The user                                                                 *)

SaveEmailPreference(u, preference) ==
    /\ account' = [account EXCEPT ![u].preference = preference]
    /\ UNCHANGED <<now, suppressed, rowVars, workerVars, providerVars, aborts>>

\* The token names the primary address the message went to. The handler reads
\* the user FOR UPDATE through an outer join, a statement Postgres refuses: the
\* three actions are what it writes with a database that accepts the statement.
UnsubscribeAll(u) ==
    /\ account[u].email # "none"
    /\ SaveEmailPreference(u, "no_email")

UnsubscribePromotional(u) ==
    /\ account[u].email # "none"
    /\ SaveEmailPreference(u, IF account[u].preference = "all_email" THEN "newsletters"
                              ELSE account[u].preference)

UnsubscribeNewsletters(u) ==
    /\ account[u].email # "none"
    /\ account' = [account EXCEPT ![u].preference = IF @ = "newsletters" THEN "no_email" ELSE @]
    /\ suppressed' = IF account[u].preference = "all_email"
                     THEN [suppressed EXCEPT ![u] = @ \cup {"newsletters"}]
                     ELSE suppressed
    /\ UNCHANGED <<now, rowVars, workerVars, providerVars, aborts>>

-----------------------------------------------------------------------------
AdminStep ==
    \/ \E s \in Sends, scope \in AudienceScopes, at \in 0..MaxTime :
            PrepareNewsletterSend(s, scope, at)
    \/ \E s \in Sends : CancelSend(s)

DispatchStep(w) ==
    \/ \E s \in Sends : ClaimDueSend(w, s)
    \/ \E chunk \in SUBSET todo[w] :
            \/ ChunkAccepted(w, chunk)
            \/ ChunkRejected(w, chunk)
            \/ ChunkAnswerLost(w, chunk)
    \/ CommitDispatch(w)

ProviderStep ==
    \/ \E s \in Sends, u \in Users, type \in EventTypes :
          \E n \in 1..copies[s][u] :
             ProviderEmits([send |-> s, user |-> u, copy |-> n], type)
    \/ \E e \in emitted : ApplyResendEmailEvent(e) \/ IgnoreResendEmailEvent(e)

UserStep ==
    \E u \in ActiveUsers :
        \/ \E preference \in Preferences : SaveEmailPreference(u, preference)
        \/ UnsubscribeAll(u)
        \/ UnsubscribePromotional(u)
        \/ UnsubscribeNewsletters(u)

Next ==
    \/ Tick
    \/ AdminStep
    \/ \E w \in Workers : DispatchStep(w) \/ AbortDispatch(w)
    \/ ProviderStep
    \/ UserStep

Spec == Init /\ [][Next]_vars

(* The loop of every worker runs for ever and time passes; the number of      *)
(* rollbacks is bounded, so that a dispatch is not rolled back for ever.     *)
FairSpec == Spec /\ WF_vars(Tick) /\ \A w \in Workers : WF_vars(DispatchStep(w))

-----------------------------------------------------------------------------
(* Safety                                                                   *)

\* A recipient gets at most one copy of a send, plus one for every dispatch of
\* it that was rolled back after the provider call; a send that is scheduled or
\* cancelled has reached nobody unless such a rollback happened.
CopiesPerAttempt ==
    \A s \in Sends, u \in Users :
        copies[s][u] <= aborts[s]
            + IF send[s].status \in {"sent", "failed"} \/ Locked(s) THEN 1 ELSE 0

\* A user whom the preparation skipped, or who is outside the audience, gets
\* no copy, and no step turns the row into one that is sent.
SkippedRowsReachNobody ==
    \A s \in Sends, u \in Users :
        ~recipient[s][u].send =>
            /\ copies[s][u] = 0
            /\ recipient[s][u].status \in {"none", "skipped"}

\* A row that reports an accepted or later status names a copy the provider
\* really accepted for that send and user.
ReportedSentWasAccepted ==
    \A s \in Sends, u \in Users :
        recipient[s][u].status \in {"sent", "delivered", "bounced", "complained"} =>
            recipient[s][u].message \in 1..copies[s][u]

SendAgrees(s) ==
    /\ send[s].status # "sending"
    /\ send[s].status \in {"scheduled", "cancelled"} =>
           \A u \in Users : recipient[s][u].status \in {"none", "skipped", "pending"}
    /\ send[s].status \in {"sent", "failed"} =>
           \A u \in Users : recipient[s][u].status \notin OpenRowStatuses
    /\ send[s].status = "sent" =>
           \A u \in Users : recipient[s][u].send => recipient[s][u].message # 0
    /\ send[s].status = "failed" =>
           \E u \in Users : recipient[s][u].send /\ recipient[s][u].message = 0

\* The status of a send and the rows of its recipients tell one story: open
\* rows only before the dispatch, 'sent' only when every candidate was
\* accepted, 'failed' only when one was not, and nobody ever reads 'sending'.
SendAgreesWithRows == \A s \in Sends : SendAgrees(s)

\* A row that shows a bounce or a complaint comes with the suppression of its
\* address: the webhook writes both in one transaction.
BounceOrComplaintSuppresses ==
    \A s \in Sends, u \in Users :
        recipient[s][u].status \in {"bounced", "complained"} => "all_email" \in suppressed[u]

\* An address suppressed before a newsletter is prepared never gets it, in
\* whatever order preparation, webhook, dispatch and unsubscription interleave.
SuppressedAddressGetsNoLaterNewsletter ==
    \A s \in Sends, u \in Users :
        [](suppressed[u] # {} /\ send[s].status = "absent"
              => [](send[s].kind = "newsletter" => copies[s][u] = 0))

-----------------------------------------------------------------------------
(* The promise of a send, implemented                                       *)

Holder(s) == CHOOSE w \in Workers : claimed[w] = s

PhaseOf(s) ==
    CASE Locked(s) -> "attempted"
      [] ~Locked(s) /\ send[s].status \in {"sent", "failed"} -> "settled"
      [] OTHER -> send[s].status

TriedIn(s) == IF Locked(s) THEN Users \ todo[Holder(s)] ELSE {}

Promise == INSTANCE DeliveryPromise WITH
    phase <- [s \in Sends |-> PhaseOf(s)],
    tried <- [s \in Sends |-> TriedIn(s)]

\* The row locks, the drafts and the rollbacks implement the promise: one
\* attempt at a time, one try per recipient and attempt, none after a
\* cancellation and none after a settlement.
KeepsDeliveryPromise == Promise!Spec

-----------------------------------------------------------------------------
(* Liveness                                                                 *)

\* A send that is due is dispatched or cancelled in the end.
DueSendsSettle ==
    \A s \in Sends :
        send[s].status = "scheduled" /\ send[s].scheduledAt <= now
            ~> send[s].status \in {"sent", "failed", "cancelled"}

-----------------------------------------------------------------------------
(* What the contracts say                                                   *)

\* A bounce or a complaint the webhook route answered with success has put the
\* address on the suppression list.
HandledComplaintSuppresses ==
    \A a \in handled :
        a.event.type \in {"bounced", "complained"} =>
            "all_email" \in suppressed[a.event.message.user]
=============================================================================
