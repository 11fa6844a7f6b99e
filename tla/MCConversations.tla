--------------------------- MODULE MCConversations ---------------------------
(***************************************************************************)
(* How traders talk: a message of a provider, the files of attachments,    *)
(* app messages and posts, the analyses of a stored message with the       *)
(* trades they leave, the private chats about a trade, and the AI chats    *)
(* with their forum posts.  They share no row that one changes under       *)
(* another, so a behaviour is a scene of one of them.                      *)
(***************************************************************************)
EXTENDS InboundMessages, FileObjects, MCMessageTrades, MarketTopics, TradeChats

VARIABLE scene

analyses == <<tradeVars, messageVars>>

\* The other scenes do not depend on the message, so one message will do for them.
AnyMessage == channel = "whatsapp" /\ kind = "plain" /\ target = "open"
              /\ \A u \in Senders : contact[u] = "none"

MCInit ==
    /\ scene \in {"inbound", "files", "analysis", "trade_chats", "chats", "forum"}
    /\ InboundInit /\ FilesInit /\ MessageInit /\ TopicsInit /\ ChatsInit
    /\ scene # "inbound" => AnyMessage
    /\ scene # "trade_chats" => offer = "hidden"

\* Bound: comments and questions change no row in common, and have a scene each.
ChatsOnly == scene = "chats" /\ UNCHANGED commenting
ForumOnly == scene = "forum" /\ \A c \in Chatters : asking'[c].step \in {"idle", "new"}

\* Bounds: the owner of a trade answers from outside the app, the others write in
\* it; two calls at a time are about one chat, both opening it or one of each
\* participant; and time passes between calls (TradeChats_order.cfg: during them).
Busy(c) == calls'[c].step # "idle"

WritersAndReplier ==
    \A c \in Calls :
        /\ calls'[c].step = "routed" => calls'[c].user = Owner
        /\ calls[c].step = "idle" /\ calls'[c].step = "append" => calls'[c].user # Owner

OneChatAtATime ==
    /\ \A c, d \in Calls : c # d /\ Busy(c) /\ Busy(d) =>
          /\ calls'[c].chat = calls'[d].chat
          /\ \/ calls'[c].step = "start" /\ calls'[d].step = "start"
             \/ calls'[c].user # calls'[d].user
    /\ (\E c \in Calls : Busy(c)) => clock' = clock

MCNext ==
    \/ scene = "inbound" /\ InboundNext /\ UNCHANGED <<scene, files, analyses, topicVars, tradeChats>>
    \/ scene = "files" /\ FilesNext /\ UNCHANGED <<scene, inbound, analyses, topicVars, tradeChats>>
    \/ scene = "analysis" /\ MessageNext /\ UNCHANGED <<scene, inbound, files, topicVars, tradeChats>>
    \/ TopicsNext /\ (ChatsOnly \/ ForumOnly)
       /\ UNCHANGED <<scene, inbound, files, analyses, tradeChats>>
    \/ scene = "trade_chats" /\ ChatsNext /\ WritersAndReplier /\ OneChatAtATime
       /\ UNCHANGED <<scene, inbound, files, analyses, topicVars>>

\* InboundFairness and the fairness of FairMessageSpec, each in its scene.
MCFairness ==
    /\ \A h \in Handlers : WF_inbound(scene = "inbound" /\ HandlerStep(h))
    /\ WF_inbound(scene = "inbound" /\ \E h \in Handlers : Deliver(h))
    /\ \A a \in Attempts : WF_analyses(scene = "analysis" /\ AttemptStep(a))

MCSpec == MCInit /\ [][MCNext]_<<scene, inbound, files, analyses, topicVars, tradeChats>>
          /\ MCFairness
=============================================================================
