---------------------------- MODULE MarketTopics ----------------------------
(***************************************************************************)
(* The AI chats of one user and the forum posts that show them to others.  *)
(* A chat is a market topic with its turns: a question and its answer are  *)
(* stamped before, and inserted in, one transaction that holds the topic's *)
(* row; the model answers before that. The analysis of a message leaves    *)
(* topics too, and deletes the ones of its last run with all that hangs on *)
(* them. Rows are read back by (created_at_ts_ms, id).                     *)
(***************************************************************************)
EXTENDS Naturals, FiniteSets

CONSTANTS
    Chatters,      \* requests of the user in flight: questions and new chats
    Commenters,    \* comments of other users in flight
    MaxTopics,     \* bound: topics ever inserted
    MaxTurns,      \* bound: turns ever inserted
    MaxClock       \* bound: milliseconds

ASSUME MarketTopicsAssumption == {MaxTopics, MaxTurns, MaxClock} \subseteq Nat

TopicVisibilities == {"private", "shareable", "public"}

VARIABLES
    now,           \* the clock
    topics,        \* rows of stephen_dcx_market_topics
    turns,         \* rows of stephen_dcx_market_topic_turns
    posts,         \* rows of stephen_dcx_forum_posts
    comments,      \* rows of stephen_dcx_forum_comments
    topicIds,      \* topics inserted so far; an id is not used again
    turnIds,       \* turns inserted so far, also in transactions that failed
    asking,        \* what each question or new chat has read and done
    commenting     \* the topic whose post each comment has found open

topicVars == <<now, topics, turns, posts, comments, topicIds, turnIds, asking, commenting>>

NoTopic == 0
Topic == [id : 1..MaxTopics, origin : {"chat", "analysis"}, visibility : TopicVisibilities]
\* asked tells the questions apart; the code does not store it.
Turn == [id : 1..MaxTurns, topic : 1..MaxTopics, role : {"user", "assistant"},
         stamp : 0..MaxClock, asked : 1..MaxTurns]
\* A post has the reference "Q<topic>", which is unique: one row for each topic.
Post == [topic : 1..MaxTopics, visibility : TopicVisibilities \ {"private"},
         status : {"open", "withdrawn"}]
Question == [step : {"idle", "answer", "new", "stamped", "insert"}, topic : 0..MaxTopics,
             stamp : 0..MaxClock, user : 0..MaxTurns]
NoQuestion == [step |-> "idle", topic |-> NoTopic, stamp |-> 0, user |-> 0]

TopicsTypeOK ==
    /\ now \in 0..MaxClock
    /\ topics \subseteq Topic /\ turns \subseteq Turn /\ posts \subseteq Post
    /\ topicIds \in 0..MaxTopics /\ turnIds \in 0..MaxTurns
    /\ asking \in [Chatters -> Question]
    /\ commenting \in [Commenters -> 0..MaxTopics]
    /\ \A rowsOf \in {turns, posts} : \A r \in rowsOf : \E t \in topics : t.id = r.topic
    /\ \A c \in comments : \E p \in posts : p.topic = c

TopicsInit ==
    /\ now = 0
    /\ topics = {} /\ turns = {} /\ posts = {} /\ comments = {}
    /\ topicIds = 0 /\ turnIds = 0
    /\ asking = [c \in Chatters |-> NoQuestion]
    /\ commenting = [c \in Commenters |-> NoTopic]

TopicTick == /\ now < MaxClock
             /\ now' = now + 1
             /\ UNCHANGED <<topics, turns, posts, comments, topicIds, turnIds, asking, commenting>>

Exists(t) == \E row \in topics : row.id = t
Bug_TopicNotLocked(t) == FALSE
\* A question holds the topic's row from its first insert to its commit.
TopicLocked(t) == \E c \in Chatters : asking[c].step = "insert" /\ asking[c].topic = t

\* The rows of one question and its answer, inserted one after the other.
Pair(t, user, assistant, stamp) ==
    LET turn(id, role) == [id |-> id, topic |-> t, role |-> role, stamp |-> stamp, asked |-> user]
    IN  {turn(user, "user"), turn(assistant, "assistant")}

-----------------------------------------------------------------------------
(* Questions                                                                *)

\* The topic of the user with its turns. A question that is empty, too long, a
\* second delivery of one answered, or over the limit goes no further.
ReadTopic(c, t) ==
    /\ asking[c].step = "idle"
    /\ Exists(t)
    /\ asking' = [asking EXCEPT ![c] = [NoQuestion EXCEPT !.step = "answer", !.topic = t]]
    /\ UNCHANGED <<now, topics, turns, posts, comments, topicIds, turnIds, commenting>>

\* The policy check allows it, the model answers, and only then the stamp is taken.
AnswerQuestion(c) ==
    /\ asking[c].step = "answer"
    /\ asking' = [asking EXCEPT ![c].step = "stamped", ![c].stamp = now]
    /\ UNCHANGED <<now, topics, turns, posts, comments, topicIds, turnIds, commenting>>

\* A new chat takes its stamp before the policy check and the model.
StartChat(c) ==
    /\ asking[c].step = "idle"
    /\ topicIds < MaxTopics
    /\ asking' = [asking EXCEPT ![c] = [NoQuestion EXCEPT !.step = "new", !.stamp = now]]
    /\ UNCHANGED <<now, topics, turns, posts, comments, topicIds, turnIds, commenting>>

\* The policy check prohibits the text, a call fails, or the process ends: what
\* the transaction did is undone, the ids it took stay taken.
QuestionFails(c) ==
    /\ asking[c].step # "idle"
    /\ asking' = [asking EXCEPT ![c] = NoQuestion]
    /\ UNCHANGED <<now, topics, turns, posts, comments, topicIds, turnIds, commenting>>

InsertChat(c) ==
    /\ asking[c].step = "new"
    /\ topicIds < MaxTopics /\ turnIds + 2 <= MaxTurns
    /\ topicIds' = topicIds + 1
    /\ topics' = topics \cup {[id |-> topicIds', origin |-> "chat", visibility |-> "private"]}
    /\ turns' = turns \cup Pair(topicIds', turnIds + 1, turnIds + 2, asking[c].stamp)
    /\ turnIds' = turnIds + 2
    /\ asking' = [asking EXCEPT ![c] = NoQuestion]
    /\ UNCHANGED <<now, posts, comments, commenting>>

\* The topic FOR UPDATE, which may be gone by now, and the question.
InsertUserTurn(c) ==
    /\ asking[c].step = "stamped"
    /\ ~TopicLocked(asking[c].topic)
    /\ IF Exists(asking[c].topic)
       THEN /\ turnIds < MaxTurns
            /\ turnIds' = turnIds + 1
            /\ asking' = [asking EXCEPT ![c].step = "insert", ![c].user = turnIds']
       ELSE asking' = [asking EXCEPT ![c] = NoQuestion] /\ UNCHANGED turnIds
    /\ UNCHANGED <<now, topics, turns, posts, comments, topicIds, commenting>>

\* The answer, the topic's time, and the commit.
InsertAssistantTurn(c) ==
    LET q == asking[c] IN
    /\ q.step = "insert"
    /\ turnIds < MaxTurns
    /\ turnIds' = turnIds + 1
    /\ turns' = turns \cup Pair(q.topic, q.user, turnIds', q.stamp)
    /\ asking' = [asking EXCEPT ![c] = NoQuestion]
    /\ UNCHANGED <<now, topics, posts, comments, topicIds, commenting>>

-----------------------------------------------------------------------------
(* The analysis of the message                                              *)

TopicsOfTheMessage == {t.id : t \in {r \in topics : r.origin = "analysis"}}

\* Its topics go, whoever wrote in them, with their turns, posts and comments;
\* a new one with its two first turns may come. Its stamp is older than the calls
\* to the model.
RebuildTopics(seeded, stamp) ==
    LET gone == TopicsOfTheMessage
        kept(rowsOf) == {r \in rowsOf : r.topic \notin gone}
    IN
    /\ \A t \in gone : ~TopicLocked(t)
    /\ stamp \in 0..now
    /\ seeded => topicIds < MaxTopics /\ turnIds + 2 <= MaxTurns
    /\ topicIds' = IF seeded THEN topicIds + 1 ELSE topicIds
    /\ turnIds' = IF seeded THEN turnIds + 2 ELSE turnIds
    /\ topics' = {t \in topics : t.id \notin gone} \cup
          (IF seeded THEN {[id |-> topicIds', origin |-> "analysis", visibility |-> "private"]} ELSE {})
    /\ turns' = kept(turns) \cup
          (IF seeded THEN Pair(topicIds', turnIds + 1, turnIds', stamp) ELSE {})
    /\ posts' = kept(posts)
    /\ comments' = comments \ gone
    /\ UNCHANGED <<now, asking, commenting>>

-----------------------------------------------------------------------------
(* The forum                                                                *)

\* The post that a visibility leaves, where there was post (or none).
Bug_WithdrawnStaysWithdrawn(t, post, visibility) ==
    IF visibility = "private"
    THEN {[p EXCEPT !.status = "withdrawn"] : p \in post}
    ELSE IF post # {} THEN {[p EXCEPT !.visibility = visibility] : p \in post}
         ELSE {[topic |-> t, visibility |-> visibility, status |-> "open"]}

\* Withdrawn where the topic is private, else reopened or inserted.
PostAfter(t, post, visibility) ==
    IF visibility = "private"
    THEN {[p EXCEPT !.status = "withdrawn"] : p \in post}
    ELSE {[topic |-> t, visibility |-> visibility, status |-> "open"]}

\* One transaction under the topic's row.
SetTopicVisibility(t, visibility) ==
    LET post == {p \in posts : p.topic = t.id} IN
    /\ ~TopicLocked(t.id)
    /\ topics' = (topics \ {t}) \cup {[t EXCEPT !.visibility = visibility]}
    /\ posts' = (posts \ post) \cup PostAfter(t.id, post, visibility)
    /\ UNCHANGED <<now, turns, comments, topicIds, turnIds, asking, commenting>>

\* What others may open, and what the catalog lists.
ReadablePosts == {p \in posts : p.status = "open"}
CatalogPosts == {p \in ReadablePosts : p.visibility = "public"}

\* Found without a lock.
FindOpenPost(k, p) ==
    /\ commenting[k] = NoTopic
    /\ p \in ReadablePosts
    /\ commenting' = [commenting EXCEPT ![k] = p.topic]
    /\ UNCHANGED <<now, topics, turns, posts, comments, topicIds, turnIds, asking>>

\* The foreign key lets no comment in after its post has gone; one that was only
\* withdrawn takes it.
InsertComment(k) ==
    /\ commenting[k] # NoTopic
    /\ comments' = IF \E p \in posts : p.topic = commenting[k]
                   THEN comments \cup {commenting[k]}
                   ELSE comments
    /\ commenting' = [commenting EXCEPT ![k] = NoTopic]
    /\ UNCHANGED <<now, topics, turns, posts, topicIds, turnIds, asking>>

TopicsNext ==
    \/ TopicTick
    \/ \E c \in Chatters :
          \/ \E t \in topics : ReadTopic(c, t.id)
          \/ AnswerQuestion(c) \/ StartChat(c) \/ InsertChat(c) \/ QuestionFails(c)
          \/ InsertUserTurn(c) \/ InsertAssistantTurn(c)
    \/ \E seeded \in BOOLEAN, stamp \in 0..now : RebuildTopics(seeded, stamp)
    \/ \E t \in topics, visibility \in TopicVisibilities : SetTopicVisibility(t, visibility)
    \/ \E k \in Commenters : InsertComment(k) \/ \E p \in posts : FindOpenPost(k, p)

TopicsSpec == TopicsInit /\ [][TopicsNext]_topicVars

-----------------------------------------------------------------------------
(* Properties                                                               *)

\* ORDER BY created_at_ts_ms ASC, id ASC: the i-th turn of a topic is the one that
\* i - 1 others come before.
TurnBefore(x, y) == x.stamp < y.stamp \/ (x.stamp = y.stamp /\ x.id < y.id)
TurnsOf(t) == {x \in turns : x.topic = t}
ReadingOrder(t) ==
    [i \in 1..Cardinality(TurnsOf(t)) |->
        CHOOSE x \in TurnsOf(t) : Cardinality({y \in TurnsOf(t) : TurnBefore(y, x)}) = i - 1]

\* Read back, a chat is its questions, each followed by its own answer, the first
\* pair the one that made the topic, though stamps are taken before the row is
\* locked and so commit out of order, and several may fall in one millisecond
\* (append_authenticated_dcx_user_market_topic_ai_chat_turn.py: "turn order is
\* preserved by created_at_ts_ms and id").
AnswersFollowTheirQuestion ==
    \A t \in topics :
        LET read == ReadingOrder(t.id) IN
        \A i \in DOMAIN read :
            /\ read[i].role = "user" <=> i % 2 = 1
            /\ read[i].role = "assistant" => read[i].asked = read[i - 1].asked
            /\ i > 1 => read[1].id < read[i].id

\* "private topics have no active/open forum projection; shareable/public topics
\* have one open forum post projection", whatever changes of visibility, questions
\* and analyses come in between (set_authenticated_dcx_user_market_topic_visibility.py).
ForumShowsWhatIsShared ==
    \A t \in topics :
        /\ t.visibility # "private" <=> \E p \in ReadablePosts : p.topic = t.id
        /\ t.visibility = "public" <=> \E p \in CatalogPosts : p.topic = t.id
        /\ Cardinality({p \in posts : p.topic = t.id}) <= 1
=============================================================================
