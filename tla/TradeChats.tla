----------------------------- MODULE TradeChats -----------------------------
(***************************************************************************)
(* The private chats about one trade: its owner with each trader who opens *)
(* one from the market. A message is stamped, translated for the other     *)
(* participant, appended under the lock of the thread, and then announced  *)
(* over the channel by which that participant answered last. Rows are read *)
(* back by (created_at_ts_ms, id).                                         *)
(***************************************************************************)
EXTENDS Naturals, FiniteSets, SequencesExt

CONSTANTS
    Owner,             \* the owner of the trade
    Counterparties,    \* the other users
    WithPhone,         \* users with a verified phone; all have a verified e-mail
    ByEmail,           \* users whose default interaction channel is e-mail
    ByWhatsApp,        \* ... is WhatsApp; the others are told in the app only
    Calls,             \* requests and inbound replies in progress
    MaxSaid,           \* bound: messages
    MaxStamp           \* bound: milliseconds

People == Counterparties \cup {Owner}
ExternalChannels == {"email", "whatsapp"}

ASSUME TradeChatsAssumption ==
    /\ Owner \notin Counterparties
    /\ WithPhone \subseteq People
    /\ ByEmail \cup ByWhatsApp \subseteq People
    /\ ByEmail \cap ByWhatsApp = {}
    /\ {MaxSaid, MaxStamp} \subseteq Nat

VARIABLES
    clock,      \* the clock
    offer,      \* the trade's publication: "hidden", "market", or the trade is "rebuilt"
    chats,      \* counterparties of the rows of stephen_dcx_trade_threads
    said,       \* rows of stephen_dcx_trade_thread_messages
    bumped,     \* updated_at_ts_ms of each thread
    routes,     \* rows of stephen_dcx_trade_thread_participant_routes
    calls,      \* what each call has read, and does next
    told,       \* notices the providers took
    wasOffered, \* history: the trade has been on the market
    repliedBy   \* history: <<chat, user, channel>> of the replies from outside the app

tradeChats == <<clock, offer, chats, said, bumped, routes, calls, told, wasOffered, repliedBy>>

NoCall == [step |-> "idle", user |-> Owner, chat |-> Owner, stamp |-> 0, nr |-> 0]
NoRoutes == [t \in Counterparties |-> [u \in People |-> "none"]]

ChatsTypeOK ==
    /\ clock \in 0..MaxStamp /\ offer \in {"hidden", "market", "rebuilt"}
    /\ chats \subseteq Counterparties
    /\ bumped \in [Counterparties -> 0..MaxStamp]
    /\ routes \in [Counterparties -> [People -> ExternalChannels \cup {"none"}]]
    /\ \A c \in Calls : calls[c].step \in {"idle", "start", "routed", "append", "notify"}
    /\ \A m \in said : m.chat \in chats /\ m.stamp \in 0..MaxStamp

ChatsInit ==
    /\ clock = 0 /\ offer \in {"hidden", "market"}
    /\ chats = {} /\ said = {} /\ told = {} /\ repliedBy = {}
    /\ bumped = [t \in Counterparties |-> 0]
    /\ routes = NoRoutes
    /\ calls = [c \in Calls |-> NoCall]
    /\ wasOffered = (offer = "market")

Participating(t) == {Owner, t}
OtherOf(u, t) == IF u = Owner THEN t ELSE Owner
\* Everybody else is told that there is no such chat.
Sees(u, t) == t \in chats /\ u \in Participating(t)
OnCall(c, step) == calls[c].step = step
EndCall(c) == calls' = [calls EXCEPT ![c] = NoCall]

ChatTick ==
    /\ clock < MaxStamp
    /\ clock' = clock + 1
    /\ UNCHANGED <<offer, chats, said, bumped, routes, calls, told, wasOffered, repliedBy>>

-----------------------------------------------------------------------------
(* The trade                                                                *)

ChangeOffer ==
    /\ offer # "rebuilt"
    /\ offer' = IF offer = "market" THEN "hidden" ELSE "market"
    /\ wasOffered' = TRUE
    /\ UNCHANGED <<clock, chats, said, bumped, routes, calls, told, repliedBy>>

\* A second analysis of the message deletes its trades; chats, messages and
\* routes go with them, and the new trade is another one.
RebuildTrade ==
    /\ offer # "rebuilt"
    /\ offer' = "rebuilt"
    /\ chats' = {} /\ said' = {} /\ routes' = NoRoutes
    /\ UNCHANGED <<clock, bumped, calls, told, wasOffered, repliedBy>>

-----------------------------------------------------------------------------
(* Opening a chat                                                           *)

\* An open chat of the user about this trade is returned as it is.
BeginStart(c, u) ==
    /\ OnCall(c, "idle")
    /\ offer = "market"
    /\ u # Owner /\ u \notin chats
    /\ calls' = [calls EXCEPT ![c] = [NoCall EXCEPT !.step = "start", !.user = u, !.chat = u,
                                                    !.stamp = clock]]
    /\ UNCHANGED <<clock, offer, chats, said, bumped, routes, told, wasOffered, repliedBy>>

\* The unique index on trade and counterparty refuses a second row, the foreign
\* key a trade that is gone.
OpenChat(c) ==
    /\ OnCall(c, "start")
    /\ IF calls[c].chat \in chats \/ offer = "rebuilt"
       THEN UNCHANGED <<chats, bumped>>
       ELSE /\ chats' = chats \cup {calls[c].chat}
            /\ bumped' = [bumped EXCEPT ![calls[c].chat] = calls[c].stamp]
    /\ EndCall(c)
    /\ UNCHANGED <<clock, offer, said, routes, told, wasOffered, repliedBy>>

-----------------------------------------------------------------------------
(* Sending a message                                                        *)

\* The stamp is taken here, before the translation and the lock.
ReadAppendContext(c, u, t) ==
    calls' = [calls EXCEPT ![c] = [step |-> "append", user |-> u, chat |-> t, stamp |-> clock,
                                   nr |-> 0]]

SendFromApp(c, u, t) ==
    /\ OnCall(c, "idle")
    /\ Sees(u, t)
    /\ Cardinality(said) < MaxSaid
    /\ ReadAppendContext(c, u, t)
    /\ UNCHANGED <<clock, offer, chats, said, bumped, routes, told, wasOffered, repliedBy>>

Bug_RouteOfTheUser(t, u, channel) ==
    [chat \in Counterparties |-> [routes[chat] EXCEPT ![u] = channel]]

RouteTaken(t, u, channel) == [routes EXCEPT ![t][u] = channel]

Reaches(u, channel) == channel = "email" \/ (channel = "whatsapp" /\ u \in WithPhone)

\* A reply by e-mail or WhatsApp that names the chat moves the user's route there.
ReplyFromOutside(c, u, t, channel) ==
    /\ OnCall(c, "idle")
    /\ Sees(u, t) /\ Reaches(u, channel)
    /\ Cardinality(said) < MaxSaid
    /\ routes' = RouteTaken(t, u, channel)
    /\ repliedBy' = repliedBy \cup {<<t, u, channel>>}
    /\ calls' = [calls EXCEPT ![c] = [NoCall EXCEPT !.step = "routed", !.user = u, !.chat = t]]
    /\ UNCHANGED <<clock, offer, chats, said, bumped, told, wasOffered>>

ContinueReply(c) ==
    /\ OnCall(c, "routed")
    /\ IF calls[c].chat \in chats
       THEN ReadAppendContext(c, calls[c].user, calls[c].chat)
       ELSE EndCall(c)
    /\ UNCHANGED <<clock, offer, chats, said, bumped, routes, told, wasOffered, repliedBy>>

\* There is a translation, unless both speak one language or the provider fails.
TranslationOutcomes == BOOLEAN

\* The row of the thread is locked, read again, and the message inserted.
AppendToChat(c) ==
    LET call == calls[c]
        nr == Cardinality(said) + 1
    IN  /\ OnCall(c, "append")
        /\ IF call.chat \in chats
           THEN /\ \E translated \in TranslationOutcomes :
                      said' = said \cup {[chat |-> call.chat, nr |-> nr, sender |-> call.user,
                                          stamp |-> call.stamp, translated |-> translated]}
                /\ bumped' = [bumped EXCEPT ![call.chat] = call.stamp]
                /\ calls' = [calls EXCEPT ![c].step = "notify", ![c].nr = nr]
           ELSE EndCall(c) /\ UNCHANGED <<said, bumped>>
        /\ UNCHANGED <<clock, offer, chats, routes, told, wasOffered, repliedBy>>

DefaultChannel(u) ==
    CASE u \in ByEmail -> "email" [] u \in ByWhatsApp -> "whatsapp" [] OTHER -> "app_only"

\* The route taken in this chat, or else the default; only over a verified address.
NoticeChannel(u, t) ==
    LET channel == IF routes[t][u] = "none" THEN DefaultChannel(u) ELSE routes[t][u]
    IN  IF Reaches(u, channel) THEN channel ELSE "app_only"

\* A failed notice is logged, and not sent again.
NotifyOther(c) ==
    LET t == calls[c].chat
        other == OtherOf(calls[c].user, t)
    IN  /\ OnCall(c, "notify")
        /\ \/ /\ t \in chats /\ NoticeChannel(other, t) # "app_only"
              /\ told' = told \cup {[call |-> c, chat |-> t, nr |-> calls[c].nr, to |-> other,
                                     channel |-> NoticeChannel(other, t)]}
           \/ told' = told
        /\ EndCall(c)
        /\ UNCHANGED <<clock, offer, chats, said, bumped, routes, wasOffered, repliedBy>>

CallDies(c) ==
    /\ ~OnCall(c, "idle")
    /\ EndCall(c)
    /\ UNCHANGED <<clock, offer, chats, said, bumped, routes, told, wasOffered, repliedBy>>

-----------------------------------------------------------------------------
(* Reading                                                                  *)

MessagesOf(t) == {m \in said : m.chat = t}
ReadBefore(m, n) == m.stamp < n.stamp \/ (m.stamp = n.stamp /\ m.nr < n.nr)

\* The messages of a chat in the order both participants read them.
ChatInOrder(t) == SetToSortSeq(MessagesOf(t), ReadBefore)

\* A translation is shown to the one it was made for.
ShownText(u, m) == IF m.sender # u /\ m.translated THEN "translated" ELSE "as sent"

\* What a user reads when he opens a chat; nothing if it is not his.
ChatDetail(u, t) ==
    IF Sees(u, t)
    THEN [i \in DOMAIN ChatInOrder(t) |->
             [nr |-> ChatInOrder(t)[i].nr, text |-> ShownText(u, ChatInOrder(t)[i])]]
    ELSE <<>>

\* A user's list of chats: how many messages, the last one, and the last change.
ChatCatalog(u) ==
    [t \in {chat \in chats : u \in Participating(chat)} |->
        [count |-> Cardinality(MessagesOf(t)),
         latest |-> IF MessagesOf(t) = {} THEN <<>> ELSE <<ShownText(u, Last(ChatInOrder(t)))>>,
         changed |-> bumped[t]]]

-----------------------------------------------------------------------------
CallStep(c) == OpenChat(c) \/ ContinueReply(c) \/ AppendToChat(c) \/ NotifyOther(c)

ChatsNext ==
    \/ ChatTick \/ ChangeOffer \/ RebuildTrade
    \/ \E c \in Calls :
          \/ \E u \in People : BeginStart(c, u)
          \/ \E u \in People, t \in Counterparties :
                \/ SendFromApp(c, u, t)
                \/ \E channel \in ExternalChannels : ReplyFromOutside(c, u, t, channel)
          \/ CallStep(c) \/ CallDies(c)

ChatsSpec == ChatsInit /\ [][ChatsNext]_tradeChats
\* A call ends, by itself or by a timeout.
FairChatsSpec == ChatsSpec /\ \A c \in Calls : WF_tradeChats(CallStep(c))

-----------------------------------------------------------------------------
(* Safety                                                                   *)

\* A chat is opened by another trader, and only about a trade that was on the
\* market; the two of them write, read and hear of it, and nobody else. Of each
\* message the other one is told at most once, over an address of his: the
\* default, or one by which he has answered in this very chat, whatever he does
\* in his other ones.
ChatsStayBetweenTwo ==
    /\ chats # {} => wasOffered /\ Owner \notin chats
    /\ \A m \in said : m.sender \in Participating(m.chat)
    /\ \A u \in People, t \in Counterparties : ChatDetail(u, t) # <<>> => u \in Participating(t)
    /\ \A n \in told :
          /\ n.to \in Participating(n.chat) /\ Reaches(n.to, n.channel)
          /\ n.channel = DefaultChannel(n.to) \/ <<n.chat, n.to, n.channel>> \in repliedBy
          /\ \A other \in told : other.nr = n.nr => other = n
          /\ \A m \in said : m.nr = n.nr => m.chat = n.chat /\ m.sender # n.to

-----------------------------------------------------------------------------
(* What the contracts say                                                   *)

\* A message goes to the end of its chat: what was read before is still there,
\* in the same places.
ChatsGrowAtTheirEnd ==
    [][\A t \in chats \cap chats' : IsPrefix(ChatInOrder(t), ChatInOrder(t)')]_tradeChats
=============================================================================
