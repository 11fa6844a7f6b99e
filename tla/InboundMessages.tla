--------------------------- MODULE InboundMessages ---------------------------
(***************************************************************************)
(* One message that a trader sends by e-mail or WhatsApp, and its          *)
(* deliveries by the provider.                                             *)
(*                                                                         *)
(* A delivery resolves the sender's address, stores the message, and       *)
(* appends it to the conversation its reference code names: an AI chat, a  *)
(* trade chat, a direct message thread or a feed post; a message without a *)
(* code is analysed (MessageTrades).  Each of these steps is a transaction *)
(* of its own.  Resend is answered when they are all done, Meta before     *)
(* they start.                                                             *)
(***************************************************************************)
EXTENDS Naturals

CONSTANTS
    Senders,         \* users who have, or may add, the address of the message
    Handlers,        \* deliveries handled at a time
    MaxFailures,     \* bound: handlers that raise or die
    MaxDuplicates    \* bound: deliveries the provider repeats without a reason

NoUser == "no_user"

ASSUME InboundMessagesAssumption ==
    /\ NoUser \notin Senders
    /\ {MaxFailures, MaxDuplicates} \subseteq Nat

MessageKinds == {"ai_chat", "trade_chat", "trade", "dm", "feed_post", "plain"}
TradeKinds == {"trade_chat", "trade"}
LockedKinds == {"dm", "feed_post"}

VARIABLES
    channel,      \* "email" or "whatsapp"
    kind,         \* the kind of the reference code in the text
    target,       \* "open", "gone", "own": a trade of the sender's, or "refuses":
                  \* appending to it raises
    contact,      \* each sender's active row for the address
    row,          \* the row of stephen_dcx_contact_messages
    copies,       \* rows of the conversation with this message as their source
    notices,      \* notifications sent to the other side
    delivered,    \* the provider has posted the message
    answered,     \* the provider has had its 2xx
    handler,      \* what each delivery in progress does next, and has resolved
    failures,     \* history
    duplicates,   \* history
    overlaps,     \* history: deliveries that found no copy while another one was
                  \* between its own look for a copy and its append
    slipped       \* history: a sender left between resolving and storing

inbound == <<channel, kind, target, contact, row, copies, notices, delivered, answered,
             handler, failures, duplicates, overlaps, slipped>>

Idle == [step |-> "idle", user |-> NoUser, verified |-> FALSE]

HandlerSteps == {"idle", "resolve", "store", "look_up", "start_thread", "check", "generate",
          "append", "review", "append_once", "notify", "mark", "unroute", "analyse"}

InboundTypeOK ==
    /\ channel \in {"email", "whatsapp"} /\ kind \in MessageKinds
    /\ target \in {"open", "gone", "own", "refuses"}
    /\ contact \in [Senders -> {"none", "unverified", "verified"}]
    /\ row \in [status : {"none", "queued", "routed", "unroutable", "analysed"},
                author : Senders \cup {NoUser}, verified : BOOLEAN]
    /\ {copies, notices, failures, duplicates, overlaps} \subseteq Nat
    /\ {delivered, answered, slipped} \subseteq BOOLEAN
    /\ handler \in [Handlers -> [step : HandlerSteps, user : Senders \cup {NoUser},
                                 verified : BOOLEAN]]

\* A feed post refuses an author without a nickname, an AI chat a text that
\* does not fit its context.
InboundInit ==
    /\ channel \in {"email", "whatsapp"}
    /\ kind \in MessageKinds
    /\ target \in {"open", "gone", "own", "refuses"}
    /\ target = "refuses" => kind \in {"feed_post", "ai_chat"}
    /\ target = "own" => kind = "trade"
    /\ contact \in [Senders -> {"none", "unverified", "verified"}]
    /\ \A u, v \in Senders : u # v => contact[u] = "none" \/ contact[v] = "none"
    /\ row = [status |-> "none", author |-> NoUser, verified |-> FALSE]
    /\ copies = 0 /\ notices = 0
    /\ delivered = FALSE /\ answered = FALSE
    /\ handler = [h \in Handlers |-> Idle]
    /\ failures = 0 /\ duplicates = 0 /\ overlaps = 0
    /\ slipped = FALSE

-----------------------------------------------------------------------------
(* The sender's address, and the conversation                              *)

contactRest == <<channel, kind, row, copies, notices, delivered, answered, handler,
                 failures, duplicates, overlaps>>

\* Two users who add a number at the same time both have it, unverified
\* (PhoneLink); a second signup with an e-mail finds the first one's row.
AddAddress(u) ==
    /\ \A v \in Senders :
          contact[v] = "none" \/ (channel = "whatsapp" /\ contact[v] = "unverified")
    /\ contact[u] = "none"
    /\ contact' = [contact EXCEPT ![u] = "unverified"]
    /\ UNCHANGED <<target, slipped, contactRest>>

VerifyAddress(u) ==
    /\ contact[u] = "unverified"
    /\ \A v \in Senders \ {u} : contact[v] = "none"
    /\ contact' = [contact EXCEPT ![u] = "verified"]
    /\ UNCHANGED <<target, slipped, contactRest>>

\* Variants named Bug_* are the slips the properties have to catch.
Bug_MessagesIgnored(u) == contact[u] = "verified"

\* A confirmed number stays, and one that a stored message names.
RemovalBlocked(u) == contact[u] = "verified" \/ row.author = u

Resolved(u) == \E h \in Handlers : handler[h].step = "store" /\ handler[h].user = u

\* Only phones can be removed.
RemoveAddress(u) ==
    /\ channel = "whatsapp"
    /\ contact[u] # "none"
    /\ ~RemovalBlocked(u)
    /\ contact' = [contact EXCEPT ![u] = "none"]
    /\ slipped' = (slipped \/ Resolved(u))
    /\ UNCHANGED <<target, contactRest>>

\* The owner of a trade hides and shows it; no other conversation ever closes.
ChangeTradeVisibility ==
    /\ kind = "trade" /\ target # "own"
    /\ target' = IF target = "open" THEN "gone" ELSE "open"
    /\ UNCHANGED <<contact, slipped, contactRest>>

-----------------------------------------------------------------------------
(* Deliveries                                                              *)

Bug_AnswersFirst == TRUE

\* The WhatsApp route answers and leaves the work to a background task.
AnswersFirst == channel = "whatsapp"

Begin(h) ==
    /\ handler[h].step = "idle"
    /\ handler' = [handler EXCEPT ![h].step = "resolve"]
    /\ delivered' = TRUE
    /\ answered' = (answered \/ AnswersFirst)

InProgress == \E h \in Handlers : handler[h].step # "idle"

\* The provider posts a message until it has its 2xx.
Deliver(h) ==
    /\ ~answered
    /\ ~InProgress
    /\ Begin(h)
    /\ UNCHANGED <<channel, kind, target, contact, row, copies, notices, failures,
                   duplicates, overlaps, slipped>>

\* It may post it again while the first delivery runs, or afterwards.
DeliverAgain(h) ==
    /\ delivered
    /\ duplicates < MaxDuplicates
    /\ duplicates' = duplicates + 1
    /\ Begin(h)
    /\ UNCHANGED <<channel, kind, target, contact, row, copies, notices, failures,
                   overlaps, slipped>>

deliveryRest == <<channel, kind, target, contact, delivered, duplicates, slipped>>

Goto(h, step) == handler' = [handler EXCEPT ![h].step = step]

\* The handler is done and a waiting provider is answered.
EndDelivery(h) ==
    /\ handler' = [handler EXCEPT ![h] = Idle]
    /\ answered' = TRUE

\* A handler raises or its process ends: 503, or nothing at all.
Fails(h) ==
    /\ handler[h].step # "idle"
    /\ failures < MaxFailures
    /\ failures' = failures + 1
    /\ handler' = [handler EXCEPT ![h] = Idle]
    /\ UNCHANGED <<deliveryRest, row, copies, notices, answered, overlaps>>

-----------------------------------------------------------------------------
(* Storing the message                                                     *)

\* A verified row of the address comes first.
MayBeResolvedTo(u) ==
    /\ contact[u] # "none"
    /\ contact[u] = "unverified" => \A v \in Senders : contact[v] # "verified"

ResolveSender(h) ==
    /\ handler[h].step = "resolve"
    /\ \/ \E u \in Senders :
             /\ MayBeResolvedTo(u)
             /\ handler' = [handler EXCEPT ![h] = [step |-> "store", user |-> u,
                                                  verified |-> contact[u] = "verified"]]
       \/ /\ \A u \in Senders : contact[u] = "none"
          /\ handler' = [handler EXCEPT ![h] = [Idle EXCEPT !.step = "store"]]
    /\ UNCHANGED <<deliveryRest, row, copies, notices, answered, failures, overlaps>>

\* Of a repeated delivery the row takes the verified mark and never the author.
Upserted(h) ==
    IF row.status = "none"
    THEN [status |-> "queued", author |-> handler[h].user, verified |-> handler[h].verified]
    ELSE [row EXCEPT !.verified = handler[h].verified]

StoreMessage(h) ==
    /\ handler[h].step = "store"
    /\ row' = Upserted(h)
    /\ Goto(h, IF kind = "plain" THEN "analyse" ELSE "look_up")
    /\ UNCHANGED <<deliveryRest, copies, notices, answered, failures, overlaps>>

AnalyseText(h) ==
    /\ handler[h].step = "analyse"
    /\ row' = [row EXCEPT !.status = "analysed"]
    /\ EndDelivery(h)
    /\ UNCHANGED <<deliveryRest, copies, notices, failures, overlaps>>

-----------------------------------------------------------------------------
(* Routing it by its reference code                                        *)

\* The message may be routed: it has an author, whose address was verified.
HasVerifiedAuthor == row.author # NoUser /\ row.verified

FirstStep == IF kind \in LockedKinds THEN "review" ELSE "check"

\* The thread of a direct message and the feed post are looked up by the
\* append, the other conversations here.
LookUp(h) ==
    /\ kind # "trade"
    /\ handler[h].step = "look_up"
    /\ IF HasVerifiedAuthor /\ (target # "gone" \/ kind \in LockedKinds)
       THEN Goto(h, FirstStep) ELSE Goto(h, "unroute")
    /\ UNCHANGED <<deliveryRest, row, copies, notices, answered, failures, overlaps>>

\* A published trade that is somebody else's.
LookUpTrade(h) ==
    /\ kind = "trade"
    /\ handler[h].step = "look_up"
    /\ IF HasVerifiedAuthor /\ target = "open" THEN Goto(h, "start_thread") ELSE Goto(h, "unroute")
    /\ UNCHANGED <<deliveryRest, row, copies, notices, answered, failures, overlaps>>

\* The publication is read again by the transaction that finds or opens the thread.
StartTradeThread(h) ==
    /\ handler[h].step = "start_thread"
    /\ Goto(h, IF target = "open" THEN "check" ELSE "unroute")
    /\ UNCHANGED <<deliveryRest, row, copies, notices, answered, failures, overlaps>>

Bug_MarkTrusted == row.status = "routed"

\* A copy that names the message as its source.
HasCopy == copies > 0

\* A delivery that has looked for a copy and is going to append one.
Copying(h) == handler[h].step \in {"generate", "append"}

\* This look does not lock the conversation.
CheckForCopy(h) ==
    /\ handler[h].step = "check"
    /\ IF HasCopy THEN Goto(h, "mark")
       ELSE Goto(h, IF kind = "ai_chat" THEN "generate" ELSE "append")
    /\ overlaps' = IF ~HasCopy /\ \E g \in Handlers : Copying(g) THEN overlaps + 1 ELSE overlaps
    /\ UNCHANGED <<deliveryRest, row, copies, notices, answered, failures>>

\* The policy check and the model's answer to an AI chat turn.
GenerateAnswer(h) ==
    /\ handler[h].step = "generate"
    /\ target # "refuses"
    /\ Goto(h, "append")
    /\ UNCHANGED <<deliveryRest, row, copies, notices, answered, failures, overlaps>>

\* A prohibited or too long turn, or one without an answer, raises every time.
RefuseTurn(h) ==
    /\ handler[h].step = "generate"
    /\ handler' = [handler EXCEPT ![h] = Idle]
    /\ UNCHANGED <<deliveryRest, row, copies, notices, answered, failures, overlaps>>

\* The thread or the topic is locked, and not searched for a copy again.
AppendTurn(h) ==
    /\ handler[h].step = "append"
    /\ copies' = copies + 1
    /\ Goto(h, "notify")
    /\ UNCHANGED <<deliveryRest, row, notices, answered, failures, overlaps>>

\* The other participant is told, or the author gets the answer; a failure of
\* the provider is caught, and some people have no route.
Notify(h) ==
    /\ handler[h].step = "notify"
    /\ notices' \in {notices, notices + 1}
    /\ Goto(h, "mark")
    /\ UNCHANGED <<deliveryRest, row, copies, answered, failures, overlaps>>

\* The policy check comes before the thread is locked; without the model the
\* text goes through unreviewed.
Review(h) ==
    /\ handler[h].step = "review"
    /\ \/ Goto(h, "append_once")
       \/ Goto(h, "unroute")
    /\ UNCHANGED <<deliveryRest, row, copies, notices, answered, failures, overlaps>>

\* Under the lock of the thread or the post a copy is looked for first.
CopiesAfterLock == IF copies > 0 THEN copies ELSE copies + 1

AppendOnce(h) ==
    /\ handler[h].step = "append_once"
    /\ target # "refuses"
    /\ IF target = "open"
       THEN copies' = CopiesAfterLock /\ Goto(h, "mark")
       ELSE copies' = copies /\ Goto(h, "unroute")
    /\ UNCHANGED <<deliveryRest, row, notices, answered, failures, overlaps>>

\* An author without a nickname: the route raises, whatever the delivery.
RefuseReply(h) ==
    /\ handler[h].step = "append_once"
    /\ target = "refuses"
    /\ handler' = [handler EXCEPT ![h] = Idle]
    /\ UNCHANGED <<deliveryRest, row, copies, notices, answered, failures, overlaps>>

MarkRouted(h) ==
    /\ handler[h].step = "mark"
    /\ row' = [row EXCEPT !.status = "routed"]
    /\ EndDelivery(h)
    /\ UNCHANGED <<deliveryRest, copies, notices, failures, overlaps>>

MarkUnroutable(h) ==
    /\ handler[h].step = "unroute"
    /\ row' = [row EXCEPT !.status = "unroutable"]
    /\ EndDelivery(h)
    /\ UNCHANGED <<deliveryRest, copies, notices, failures, overlaps>>

-----------------------------------------------------------------------------
AddressStep ==
    \/ \E u \in Senders : AddAddress(u) \/ VerifyAddress(u) \/ RemoveAddress(u)
    \/ ChangeTradeVisibility

RouteStep(h) ==
    \/ LookUp(h) \/ LookUpTrade(h) \/ StartTradeThread(h) \/ CheckForCopy(h)
    \/ GenerateAnswer(h) \/ RefuseTurn(h) \/ AppendTurn(h) \/ Notify(h)
    \/ Review(h) \/ AppendOnce(h) \/ RefuseReply(h)
    \/ MarkRouted(h) \/ MarkUnroutable(h)

HandlerStep(h) == ResolveSender(h) \/ StoreMessage(h) \/ AnalyseText(h) \/ RouteStep(h)

InboundNext ==
    \/ AddressStep
    \/ \E h \in Handlers : Deliver(h) \/ DeliverAgain(h) \/ HandlerStep(h) \/ Fails(h)

InboundSpec == InboundInit /\ [][InboundNext]_inbound

\* A handler ends in an answer, an exception or a timeout; a provider posts the
\* message again for as long as it has not been answered.
InboundFairness ==
    /\ \A h \in Handlers : WF_inbound(HandlerStep(h))
    /\ WF_inbound(\E h \in Handlers : Deliver(h))

-----------------------------------------------------------------------------
(* Safety                                                                   *)

\* A direct message thread and a feed post take a message once, however its
\* deliveries overlap, fail and repeat. A trade chat or an AI chat takes it once
\* more only for a delivery that looked for a copy while another one was between
\* its own look and its append, each time once: a delivery that comes after a
\* failed one, also one that failed after the append, finds the copy and tells
\* nobody again. That they take it twice at all contradicts what the code says of
\* itself; DuplicatesConverge states that.
ConversationsTakeItOnce ==
    /\ copies <= IF kind \in LockedKinds THEN 1 ELSE 1 + overlaps
    /\ notices <= copies

\* Whoever a copy is attributed to has verified the address it came from,
\* although the author and the mark are of different deliveries (unless the
\* author gave the number up between the resolving and the storing).
AuthorsAreVerified ==
    copies > 0 => slipped \/ (row.author # NoUser /\ contact[row.author] = "verified")

-----------------------------------------------------------------------------
(* Liveness                                                                 *)

SettledMessage == row.status \in {"routed", "unroutable", "analysed"}

\* Nothing accepts these, and Resend posts them again and again.
MayRaiseForEver == kind = "ai_chat" \/ target = "refuses"

\* A message sent by e-mail is routed, marked as unroutable or analysed in the
\* end, whatever fails on the way; one sent by WhatsApp may be lost.
EmailsSettle == (channel = "email" /\ ~MayRaiseForEver) ~> SettledMessage

-----------------------------------------------------------------------------
(* What the comments in the code say                                        *)

\* A trade chat and an AI chat take a message once too: duplicate deliveries
\* converge, because a copy is looked for before the append.
DuplicatesConverge == kind \notin LockedKinds => copies <= 1
=============================================================================
