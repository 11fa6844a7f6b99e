------------------------- MODULE MarketTopics_proofs ------------------------
(***************************************************************************)
(* Market topics: what the forum shows is what is shared, and a chat reads *)
(* as it was held.                                                         *)
(***************************************************************************)
EXTENDS MarketTopics, FiniteOrders

-----------------------------------------------------------------------------
(* The rows of the topics, and the forum.                                   *)

\* A topic has one row, and one post when it was ever shared; the two agree.
PostsAgree ==
    /\ \A s, t \in topics : s.id = t.id => s = t
    /\ \A t \in topics : t.id <= topicIds
    /\ \A p, q \in posts : p.topic = q.topic => p = q
    /\ \A t \in topics, p \in posts :
          p.topic = t.id => IF t.visibility = "private" THEN p.status = "withdrawn"
                            ELSE p.status = "open" /\ p.visibility = t.visibility
    /\ \A t \in topics : t.visibility # "private" => \E p \in posts : p.topic = t.id

\* A question that is being inserted holds a topic that is there, and an id that
\* no turn of the topic comes after.
QuestionsAgree ==
    /\ \A c, d \in Chatters :
          asking[c].step = "insert" /\ asking[d].step = "insert" /\ asking[c].topic = asking[d].topic
              => c = d
    /\ \A c \in Chatters : asking[c].step = "insert" =>
          /\ Exists(asking[c].topic)
          /\ asking[c].user \in 1..turnIds
          /\ \A x \in turns : x.topic = asking[c].topic => x.id < asking[c].user
    /\ \A c, d \in Chatters :
          asking[c].step = "insert" /\ asking[d].step = "insert" /\ c # d => asking[c].user # asking[d].user
    /\ \A c \in Chatters, x \in turns : asking[c].step = "insert" => x.id # asking[c].user

\* A turn is one of a pair, with nothing of the topic between the two.
Partners(x, y) ==
    /\ y \in turns /\ x.topic = y.topic /\ x.stamp = y.stamp /\ x.asked = y.asked
    /\ x.role = "user" /\ y.role = "assistant" /\ x.id < y.id
    /\ \A z \in turns : z.topic = x.topic => z.id <= x.id \/ z.id >= y.id

\* Turns come in pairs of a question and its answer, under ids of their own.
TurnsArePaired ==
    /\ \A x \in turns : x.id <= turnIds
    /\ \A x, y \in turns : x.id = y.id => x = y
    /\ \A x \in turns : x.role = "user" => \E y \in turns : Partners(x, y)
    /\ \A y \in turns : y.role = "assistant" => \E x \in turns : Partners(x, y)

\* The inductive invariant.  ForumShowsWhatIsShared alone is not inductive, as
\* a topic without a post would let a second one be inserted.
TopicsIInv == TopicsTypeOK /\ PostsAgree /\ QuestionsAgree /\ TurnsArePaired

\* The bounds are numbers.
LEMMA TopicParams == MaxTopics \in Nat /\ MaxTurns \in Nat /\ MaxClock \in Nat
  BY MarketTopicsAssumption

\* What the forum shows follows from the inductive invariant.
LEMMA TopicsImply == TopicsIInv => ForumShowsWhatIsShared
<1> SUFFICES ASSUME TopicsIInv, NEW t \in topics
             PROVE  /\ t.visibility # "private" <=> \E p \in ReadablePosts : p.topic = t.id
                    /\ t.visibility = "public" <=> \E p \in CatalogPosts : p.topic = t.id
                    /\ Cardinality({p \in posts : p.topic = t.id}) <= 1
  BY DEF ForumShowsWhatIsShared
<1>1. t.visibility \in TopicVisibilities
  BY DEF TopicsIInv, TopicsTypeOK, Topic
<1>2. Cardinality({p \in posts : p.topic = t.id}) <= 1
  <2>1. CASE {p \in posts : p.topic = t.id} = {}
    BY <2>1, FS_EmptySet
  <2>2. ASSUME NEW p \in posts, p.topic = t.id
        PROVE  Cardinality({q \in posts : q.topic = t.id}) <= 1
    <3>1. {q \in posts : q.topic = t.id} = {p}
      BY <2>2 DEF TopicsIInv, PostsAgree
    <3> QED
      BY <3>1, FS_Singleton
  <2> QED
    BY <2>1, <2>2
<1>3. ASSUME NEW p \in posts, p.topic = t.id
      PROVE  IF t.visibility = "private" THEN p.status = "withdrawn"
             ELSE p.status = "open" /\ p.visibility = t.visibility
  BY <1>3 DEF TopicsIInv, PostsAgree
<1>4. t.visibility # "private" => \E p \in posts : p.topic = t.id
  BY DEF TopicsIInv, PostsAgree
<1> QED
  BY <1>1, <1>2, <1>3, <1>4 DEF ReadablePosts, CatalogPosts, TopicVisibilities

\* The invariant holds before the first topic.
LEMMA TopicsInitHolds == TopicsInit => TopicsIInv
<1> SUFFICES ASSUME TopicsInit
             PROVE  TopicsIInv
  OBVIOUS
<1>1. NoQuestion \in Question /\ NoQuestion.step = "idle"
  BY TopicParams DEF NoQuestion, Question, NoTopic
<1>2. \A c \in Chatters : asking[c].step = "idle"
  BY <1>1 DEF TopicsInit
<1>3. TopicsTypeOK
  BY <1>1, TopicParams DEF TopicsInit, TopicsTypeOK, NoTopic
<1>4. PostsAgree
  BY DEF TopicsInit, PostsAgree
<1>5. QuestionsAgree
  BY <1>2 DEF TopicsInit, QuestionsAgree
<1>6. TurnsArePaired
  BY DEF TopicsInit, TurnsArePaired
<1> QED
  BY <1>3, <1>4, <1>5, <1>6 DEF TopicsIInv

\* Two new turns at the end, with the ids that were taken for them.
LEMMA PairIsTyped ==
  ASSUME NEW t \in 1..MaxTopics, NEW user \in 1..MaxTurns, NEW assistant \in 1..MaxTurns,
         NEW stamp \in 0..MaxClock
  PROVE  /\ Pair(t, user, assistant, stamp) \subseteq Turn
         /\ \E x, y \in Pair(t, user, assistant, stamp) :
               /\ Pair(t, user, assistant, stamp) = {x, y}
               /\ x.id = user /\ y.id = assistant /\ x.topic = t /\ y.topic = t
               /\ x.stamp = stamp /\ y.stamp = stamp /\ x.asked = user /\ y.asked = user
               /\ x.role = "user" /\ y.role = "assistant"
  BY DEF Pair, Turn

\* A new pair of turns leaves the others paired: it comes after the turns of
\* its topic, and no turn comes between.
LEMMA PairsGrow ==
  ASSUME TopicsIInv, NEW t \in 1..MaxTopics, NEW user \in 1..MaxTurns, NEW assistant \in 1..MaxTurns,
         NEW stamp \in 0..MaxClock, NEW kept \in SUBSET turns,
         \A x \in turns, y \in kept : x.topic = y.topic => x \in kept,
         user < assistant, assistant > turnIds, turnIds' = assistant,
         \A x \in kept : x.id # user /\ (x.topic = t => x.id < user),
         turns' = kept \cup Pair(t, user, assistant, stamp)
  PROVE  TurnsArePaired'
<1>1. PICK a \in turns', b \in turns' :
          /\ turns' = kept \cup {a, b}
          /\ a.id = user /\ b.id = assistant /\ a.topic = t /\ b.topic = t
          /\ a.stamp = stamp /\ b.stamp = stamp /\ a.asked = user /\ b.asked = user
          /\ a.role = "user" /\ b.role = "assistant"
  BY PairIsTyped
<1>2. turnIds \in Nat /\ \A x \in turns : x.id \in Nat /\ x.id <= turnIds
  BY TopicParams DEF TopicsIInv, TopicsTypeOK, Turn, TurnsArePaired
<1>3. user \in Nat /\ assistant \in Nat
  BY TopicParams
<1>4. \A x \in turns' : x.id <= turnIds'
  BY <1>1, <1>2, <1>3
<1>5. \A x, y \in turns' : x.id = y.id => x = y
  BY <1>1, <1>2, <1>3 DEF TopicsIInv, TurnsArePaired
<1>6. Partners(a, b)'
  BY <1>1, <1>2, <1>3 DEF Partners
<1>7. ASSUME NEW x \in kept, NEW y \in kept, Partners(x, y)
      PROVE  Partners(x, y)'
  <2>1. \A z \in turns' : z.topic = x.topic => z.id <= x.id \/ z.id >= y.id
    <3> SUFFICES ASSUME NEW z \in {a, b}, z.topic = x.topic
                 PROVE  z.id >= y.id
      BY <1>1, <1>7 DEF Partners
    <3>1. y.topic = t /\ y.id < user
      BY <1>1, <1>7 DEF Partners
    <3> QED
      BY <1>1, <1>2, <1>3, <3>1
  <2> QED
    BY <1>1, <1>7, <2>1 DEF Partners
<1>8. ASSUME NEW x \in turns', x.role = "user"
      PROVE  \E y \in turns' : Partners(x, y)'
  <2>1. CASE x \in kept
    <3>1. PICK y \in turns : Partners(x, y)
      BY <1>8, <2>1 DEF TopicsIInv, TurnsArePaired
    <3>2. y \in kept
      BY <2>1, <3>1 DEF Partners
    <3> QED
      BY <1>1, <1>7, <2>1, <3>1, <3>2
  <2>2. CASE x \notin kept
    BY <1>1, <1>6, <1>8, <2>2
  <2> QED
    BY <2>1, <2>2
<1>9. ASSUME NEW y \in turns', y.role = "assistant"
      PROVE  \E x \in turns' : Partners(x, y)'
  <2>1. CASE y \in kept
    <3>1. PICK x \in turns : Partners(x, y)
      BY <1>9, <2>1 DEF TopicsIInv, TurnsArePaired
    <3>2. x \in kept
      BY <2>1, <3>1 DEF Partners
    <3> QED
      BY <1>1, <1>7, <2>1, <3>1, <3>2
  <2>2. CASE y \notin kept
    BY <1>1, <1>6, <1>9, <2>2
  <2> QED
    BY <2>1, <2>2
<1> QED
  BY <1>4, <1>5, <1>8, <1>9 DEF TurnsArePaired

\* The turns of some topics go, all of each.
LEMMA PairsShrink ==
  ASSUME TopicsIInv, NEW kept \in SUBSET turns,
         \A x \in turns, y \in kept : x.topic = y.topic => x \in kept,
         turnIds' = turnIds, turns' = kept
  PROVE  TurnsArePaired'
<1>1. \A x \in kept, y \in turns : Partners(x, y) => y \in kept /\ Partners(x, y)'
  BY DEF Partners
<1>2. \A x \in turns, y \in kept : Partners(x, y) => x \in kept /\ Partners(x, y)'
  BY DEF Partners
<1> QED
  BY <1>1, <1>2 DEF TopicsIInv, TurnsArePaired

\* Steps of requests that insert nothing.
LEMMA AskingKeepsTopicsIInv ==
  ASSUME TopicsIInv, NEW c \in Chatters,
         \/ \E t \in topics : ReadTopic(c, t.id)
         \/ AnswerQuestion(c) \/ StartChat(c) \/ QuestionFails(c)
  PROVE  TopicsIInv'
<1>1. UNCHANGED <<now, topics, turns, posts, comments, topicIds, turnIds, commenting>>
  BY DEF ReadTopic, AnswerQuestion, StartChat, QuestionFails
<1>2. asking \in [Chatters -> Question] /\ now \in 0..MaxClock /\ topics \subseteq Topic
  BY DEF TopicsIInv, TopicsTypeOK
<1>3. NoQuestion \in Question /\ NoQuestion.step = "idle"
  BY TopicParams DEF NoQuestion, Question, NoTopic
<1>4. PICK q \in Question : asking' = [asking EXCEPT ![c] = q] /\ q.step # "insert"
  <2>1. ASSUME NEW t \in topics, ReadTopic(c, t.id)
        PROVE  \E q \in Question : asking' = [asking EXCEPT ![c] = q] /\ q.step # "insert"
    <3> DEFINE q == [NoQuestion EXCEPT !.step = "answer", !.topic = t.id]
    <3>1. q \in Question /\ q.step # "insert"
      <4>1. t.id \in 0..MaxTopics /\ NoQuestion \in Question
        BY <1>2, <1>3, TopicParams DEF Topic
      <4> QED
        BY <4>1 DEF Question
    <3> QED
      BY <2>1, <3>1 DEF ReadTopic
  <2>2. CASE AnswerQuestion(c)
    <3> DEFINE q == [asking[c] EXCEPT !.step = "stamped", !.stamp = now]
    <3>1. q \in Question /\ q.step # "insert"
      BY <1>2 DEF Question
    <3>2. asking' = [asking EXCEPT ![c] = q]
      BY <2>2 DEF AnswerQuestion
    <3> QED
      BY <3>1, <3>2
  <2>3. CASE StartChat(c)
    <3> DEFINE q == [NoQuestion EXCEPT !.step = "new", !.stamp = now]
    <3>1. q \in Question /\ q.step # "insert"
      BY <1>2, <1>3 DEF Question
    <3> QED
      BY <2>3, <3>1 DEF StartChat
  <2>4. CASE QuestionFails(c)
    BY <1>3, <2>4 DEF QuestionFails
  <2> QED
    BY <2>1, <2>2, <2>3, <2>4
<1>5. asking' \in [Chatters -> Question]
      /\ \A d \in Chatters : asking'[d].step = "insert" => asking'[d] = asking[d]
  BY <1>2, <1>4
<1>6. TopicsTypeOK'
  BY <1>1, <1>5 DEF TopicsIInv, TopicsTypeOK
<1>7. PostsAgree' /\ TurnsArePaired'
  BY <1>1 DEF TopicsIInv, PostsAgree, TurnsArePaired, Partners
<1>8. QuestionsAgree'
  BY <1>1, <1>5 DEF TopicsIInv, QuestionsAgree, Exists
<1> QED
  BY <1>6, <1>7, <1>8 DEF TopicsIInv

\* Time and comments change no topic and no turn.
LEMMA TickAndCommentsKeepTopicsIInv ==
  ASSUME TopicsIInv,
         \/ TopicTick
         \/ \E k \in Commenters : InsertComment(k) \/ \E p \in posts : FindOpenPost(k, p)
  PROVE  TopicsIInv'
<1>1. UNCHANGED <<topics, turns, posts, topicIds, turnIds, asking>>
  BY DEF TopicTick, InsertComment, FindOpenPost
<1>2. now' \in 0..MaxClock
  BY TopicParams DEF TopicTick, InsertComment, FindOpenPost, TopicsIInv, TopicsTypeOK
<1>3. commenting' \in [Commenters -> 0..MaxTopics]
  BY TopicParams DEF TopicTick, InsertComment, FindOpenPost, TopicsIInv, TopicsTypeOK, NoTopic, Post
<1>4. \A c \in comments' : \E p \in posts : p.topic = c
  BY DEF TopicTick, InsertComment, FindOpenPost, TopicsIInv, TopicsTypeOK
<1>5. TopicsTypeOK'
  BY <1>1, <1>2, <1>3, <1>4 DEF TopicsIInv, TopicsTypeOK
<1> QED
  BY <1>1, <1>5 DEF TopicsIInv, PostsAgree, QuestionsAgree, TurnsArePaired, Partners, Exists

\* Sharing inserts or reopens the post of a topic, and making it private
\* withdraws the post.
LEMMA SetVisibilityKeepsTopicsIInv ==
  ASSUME TopicsIInv, NEW t \in topics, NEW visibility \in TopicVisibilities,
         SetTopicVisibility(t, visibility)
  PROVE  TopicsIInv'
<1> DEFINE post == {p \in posts : p.topic = t.id}
           s == [t EXCEPT !.visibility = visibility]
           after == PostAfter(t.id, post, visibility)
<1>1. /\ topics' = (topics \ {t}) \cup {s} /\ posts' = (posts \ post) \cup after
      /\ UNCHANGED <<now, turns, comments, topicIds, turnIds, asking, commenting>>
  BY DEF SetTopicVisibility
<1>2. /\ topics \subseteq Topic /\ posts \subseteq Post
      /\ \A c \in comments : \E p \in posts : p.topic = c
      /\ \A rowsOf \in {turns, posts} : \A r \in rowsOf : \E k \in topics : k.id = r.topic
  BY DEF TopicsIInv, TopicsTypeOK
<1>3. s \in Topic /\ s.id = t.id /\ s.visibility = visibility
  BY <1>2 DEF Topic
<1>4. /\ after \subseteq Post /\ \A p \in after : p.topic = t.id
      /\ \A p, q \in after : p = q
      /\ \A p \in after : IF visibility = "private" THEN p.status = "withdrawn"
                           ELSE p.status = "open" /\ p.visibility = visibility
      /\ (visibility # "private" \/ post # {}) => after # {}
  <2>1. CASE visibility = "private"
    <3>1. after = {[p EXCEPT !.status = "withdrawn"] : p \in post}
      BY <2>1 DEF PostAfter
    <3>2. \A p, q \in post : p = q
      BY DEF TopicsIInv, PostsAgree
    <3>3. \A p \in post : /\ [p EXCEPT !.status = "withdrawn"] \in Post
                          /\ [p EXCEPT !.status = "withdrawn"].topic = t.id
                          /\ [p EXCEPT !.status = "withdrawn"].status = "withdrawn"
      BY <1>2 DEF Post
    <3> QED
      BY <2>1, <3>1, <3>2, <3>3
  <2>2. CASE visibility # "private"
    <3>1. after = {[topic |-> t.id, visibility |-> visibility, status |-> "open"]}
      BY <2>2 DEF PostAfter
    <3>2. t.id \in 1..MaxTopics
      BY <1>2 DEF Topic
    <3> DEFINE r == [topic |-> t.id, visibility |-> visibility, status |-> "open"]
    <3>3. r \in Post /\ r.topic = t.id /\ r.visibility = visibility /\ r.status = "open"
      BY <2>2, <3>2 DEF Post, TopicVisibilities
    <3>4. after = {r}
      BY <3>1
    <3> HIDE DEF r
    <3> QED
      BY <2>2, <3>3, <3>4
  <2> QED
    BY <2>1, <2>2
<1> HIDE DEF s, after
<1>5. \A k \in Nat : (\E r \in topics : r.id = k) <=> (\E r \in topics' : r.id = k)
  BY <1>1, <1>3
<1>6. TopicsTypeOK'
  <2>1. topics' \subseteq Topic /\ posts' \subseteq Post
    BY <1>1, <1>2, <1>3, <1>4
  <2>2. \A r \in turns' : \E k \in topics' : k.id = r.topic
    BY <1>1, <1>2, <1>3
  <2>3. \A r \in posts' : \E k \in topics' : k.id = r.topic
    BY <1>1, <1>2, <1>3, <1>4
  <2>4. \A c \in comments' : \E p \in posts' : p.topic = c
    BY <1>1, <1>2, <1>4
  <2> QED
    BY <1>1, <2>1, <2>2, <2>3, <2>4 DEF TopicsIInv, TopicsTypeOK
<1>7. PostsAgree'
  <2>1. \A x, y \in topics' : x.id = y.id => x = y
    BY <1>1, <1>3 DEF TopicsIInv, PostsAgree
  <2>2. \A x \in topics' : x.id <= topicIds'
    BY <1>1, <1>3 DEF TopicsIInv, PostsAgree
  <2>3. \A p, q \in posts' : p.topic = q.topic => p = q
    BY <1>1, <1>4 DEF TopicsIInv, PostsAgree
  <2>4. ASSUME NEW x \in topics', NEW p \in posts', p.topic = x.id
        PROVE  IF x.visibility = "private" THEN p.status = "withdrawn"
               ELSE p.status = "open" /\ p.visibility = x.visibility
    <3>1. CASE x = s
      BY <1>1, <1>3, <1>4, <2>4, <3>1
    <3>2. CASE x # s
      <4>1. x \in topics /\ x.id # t.id
        BY <1>1, <3>2 DEF TopicsIInv, PostsAgree
      <4>2. p \in posts
        BY <1>1, <1>4, <2>4, <4>1
      <4> QED
        BY <2>4, <4>1, <4>2 DEF TopicsIInv, PostsAgree
    <3> QED
      BY <3>1, <3>2
  <2>5. ASSUME NEW x \in topics', x.visibility # "private"
        PROVE  \E p \in posts' : p.topic = x.id
    <3>1. CASE x = s
      BY <1>1, <1>3, <1>4, <2>5, <3>1
    <3>2. CASE x # s
      <4>1. x \in topics /\ x.id # t.id
        BY <1>1, <3>2 DEF TopicsIInv, PostsAgree
      <4>2. PICK p \in posts : p.topic = x.id
        BY <2>5, <4>1 DEF TopicsIInv, PostsAgree
      <4> QED
        BY <1>1, <4>1, <4>2
    <3> QED
      BY <3>1, <3>2
  <2> QED
    BY <2>1, <2>2, <2>3, <2>4, <2>5 DEF PostsAgree
<1>8. QuestionsAgree'
  <2>1. \A c \in Chatters : Exists(asking[c].topic) => Exists(asking[c].topic)'
    BY <1>1, <1>3 DEF Exists
  <2> QED
    BY <1>1, <2>1 DEF TopicsIInv, QuestionsAgree
<1>9. TurnsArePaired'
  BY <1>1 DEF TopicsIInv, TurnsArePaired, Partners
<1> QED
  BY <1>6, <1>7, <1>8, <1>9 DEF TopicsIInv

\* A question takes a new id, under the lock of its topic.
LEMMA InsertUserTurnKeepsTopicsIInv ==
  ASSUME TopicsIInv, NEW c \in Chatters, InsertUserTurn(c)
  PROVE  TopicsIInv'
<1>1. /\ UNCHANGED <<now, topics, turns, posts, comments, topicIds, commenting>>
      /\ ~TopicLocked(asking[c].topic)
  BY DEF InsertUserTurn
<1>2. /\ asking \in [Chatters -> Question] /\ turnIds \in 0..MaxTurns /\ turnIds \in Nat
      /\ turns \subseteq Turn
  BY TopicParams DEF TopicsIInv, TopicsTypeOK
<1>3. PostsAgree'
  BY <1>1 DEF TopicsIInv, PostsAgree
<1>4. CASE Exists(asking[c].topic)
  <2> DEFINE q == [asking[c] EXCEPT !.step = "insert", !.user = turnIds + 1]
  <2>1. turnIds < MaxTurns /\ turnIds' = turnIds + 1 /\ asking' = [asking EXCEPT ![c] = q]
    BY <1>4 DEF InsertUserTurn
  <2>2. q \in Question /\ q.step = "insert" /\ q.user = turnIds + 1 /\ q.topic = asking[c].topic
    <3>1. turnIds + 1 \in 0..MaxTurns /\ asking[c] \in Question
      BY <1>2, <2>1, TopicParams
    <3> QED
      BY <3>1 DEF Question
  <2> HIDE DEF q
  <2>3. /\ asking' \in [Chatters -> Question] /\ asking'[c] = q
        /\ \A d \in Chatters \ {c} : asking'[d] = asking[d]
    BY <1>2, <2>1, <2>2
  <2>4. TopicsTypeOK'
    <3>1. turnIds' \in 0..MaxTurns
      BY <1>2, <2>1, TopicParams
    <3> QED
      BY <1>1, <2>3, <3>1 DEF TopicsIInv, TopicsTypeOK
  <2>5. \A x \in turns : x.id \in Nat /\ x.id <= turnIds
    BY <1>2, TopicParams DEF Turn, TopicsIInv, TurnsArePaired
  <2>6. \A d \in Chatters : asking[d].step = "insert" =>
            /\ asking[d].topic # q.topic /\ asking[d].user \in Nat /\ asking[d].user <= turnIds
    BY <1>1, <1>2, <2>2, TopicParams DEF TopicsIInv, QuestionsAgree, TopicLocked
  <2>7. QuestionsAgree'
    <3>1. \A d, e \in Chatters :
            asking'[d].step = "insert" /\ asking'[e].step = "insert"
              => (asking'[d].topic = asking'[e].topic => d = e)
                 /\ (d # e => asking'[d].user # asking'[e].user)
      BY <1>2, <2>2, <2>3, <2>6 DEF TopicsIInv, QuestionsAgree
    <3>2. ASSUME NEW d \in Chatters, asking'[d].step = "insert"
          PROVE  /\ Exists(asking'[d].topic)
                 /\ asking'[d].user \in 1..turnIds'
                 /\ \A x \in turns : /\ x.topic = asking'[d].topic => x.id < asking'[d].user
                                     /\ x.id # asking'[d].user
      <4>1. CASE d = c
        BY <1>2, <1>4, <2>1, <2>2, <2>3, <2>5, <4>1
      <4>2. CASE d # c
        BY <1>2, <2>1, <2>3, <3>2, <4>2 DEF TopicsIInv, QuestionsAgree
      <4> QED
        BY <4>1, <4>2
    <3> QED
      BY <1>1, <3>1, <3>2 DEF QuestionsAgree, Exists
  <2>8. TurnsArePaired'
    <3>1. \A x \in turns' : x.id <= turnIds'
      BY <1>1, <1>2, <2>1, <2>5
    <3> QED
      BY <1>1, <3>1 DEF TopicsIInv, TurnsArePaired, Partners
  <2> QED
    BY <1>3, <2>4, <2>7, <2>8 DEF TopicsIInv
<1>5. CASE ~Exists(asking[c].topic)
  <2>1. asking' = [asking EXCEPT ![c] = NoQuestion] /\ turnIds' = turnIds
    BY <1>5 DEF InsertUserTurn
  <2>2. NoQuestion \in Question /\ NoQuestion.step = "idle"
    BY TopicParams DEF NoQuestion, Question, NoTopic
  <2>3. asking' \in [Chatters -> Question]
        /\ \A d \in Chatters : asking'[d].step = "insert" => asking'[d] = asking[d]
    BY <1>2, <2>1, <2>2
  <2>4. TopicsTypeOK'
    BY <1>1, <2>1, <2>3 DEF TopicsIInv, TopicsTypeOK
  <2>5. QuestionsAgree' /\ TurnsArePaired'
    BY <1>1, <2>1, <2>3 DEF TopicsIInv, QuestionsAgree, TurnsArePaired, Partners, Exists
  <2> QED
    BY <1>3, <2>4, <2>5 DEF TopicsIInv
<1> QED
  BY <1>4, <1>5

\* An answer is stored together with its question.
LEMMA InsertAssistantTurnKeepsTopicsIInv ==
  ASSUME TopicsIInv, NEW c \in Chatters, InsertAssistantTurn(c)
  PROVE  TopicsIInv'
<1> DEFINE q == asking[c]
<1>1. /\ q.step = "insert" /\ turnIds < MaxTurns /\ turnIds' = turnIds + 1
      /\ turns' = turns \cup Pair(q.topic, q.user, turnIds', q.stamp)
      /\ asking' = [asking EXCEPT ![c] = NoQuestion]
      /\ UNCHANGED <<now, topics, posts, comments, topicIds, commenting>>
  BY DEF InsertAssistantTurn
<1>2. /\ asking \in [Chatters -> Question] /\ turnIds \in Nat /\ turns \subseteq Turn
      /\ topics \subseteq Topic
  BY TopicParams DEF TopicsIInv, TopicsTypeOK
<1>3. /\ Exists(q.topic) /\ q.user \in 1..turnIds
      /\ \A x \in turns : x.id # q.user /\ (x.topic = q.topic => x.id < q.user)
  BY <1>1 DEF TopicsIInv, QuestionsAgree
<1>4. /\ q.topic \in 1..MaxTopics /\ q.user \in 1..MaxTurns /\ turnIds' \in 1..MaxTurns
      /\ q.stamp \in 0..MaxClock /\ q.user < turnIds' /\ q.user \in Nat
  BY <1>1, <1>2, <1>3, TopicParams DEF Question, Topic, Exists
<1>5. NoQuestion \in Question /\ NoQuestion.step = "idle"
  BY TopicParams DEF NoQuestion, Question, NoTopic
<1>6. asking' \in [Chatters -> Question]
      /\ \A d \in Chatters : asking'[d].step = "insert" => d # c /\ asking'[d] = asking[d]
  BY <1>1, <1>2, <1>5
<1>7. PICK a \in Turn, b \in Turn :
          /\ turns' = turns \cup {a, b}
          /\ a.id = q.user /\ b.id = turnIds' /\ a.topic = q.topic /\ b.topic = q.topic
  BY <1>1, <1>4, PairIsTyped
<1>8. TopicsTypeOK'
  <2>1. \A r \in turns' : \E t \in topics : t.id = r.topic
    BY <1>3, <1>7 DEF TopicsIInv, TopicsTypeOK, Exists
  <2>2. turns' \subseteq Turn /\ turnIds' \in 0..MaxTurns
    BY <1>2, <1>4, <1>7
  <2> QED
    BY <1>1, <1>6, <2>1, <2>2 DEF TopicsIInv, TopicsTypeOK
<1>9. PostsAgree'
  BY <1>1 DEF TopicsIInv, PostsAgree
<1>10. TurnsArePaired'
  <2>1. \A x \in turns, y \in turns : x.topic = y.topic => x \in turns
    OBVIOUS
  <2>2. turnIds' > turnIds
    BY <1>1, <1>2
  <2> QED
    BY <1>1, <1>3, <1>4, <2>1, <2>2, PairsGrow
<1>11. QuestionsAgree'
  <2>1. \A d \in Chatters : asking'[d].step = "insert" =>
            /\ asking[d].step = "insert" /\ asking'[d] = asking[d]
            /\ asking[d].topic # q.topic /\ asking[d].user # q.user
            /\ asking[d].user \in 1..turnIds
    BY <1>1, <1>6 DEF TopicsIInv, QuestionsAgree
  <2>2. ASSUME NEW d \in Chatters, asking'[d].step = "insert"
        PROVE  /\ Exists(asking'[d].topic) /\ asking'[d].user \in 1..turnIds'
               /\ \A x \in turns' : /\ x.topic = asking'[d].topic => x.id < asking'[d].user
                                    /\ x.id # asking'[d].user
    <3>1. Exists(asking'[d].topic) /\ asking'[d].user \in 1..turnIds'
      BY <1>1, <1>2, <2>1, <2>2 DEF TopicsIInv, QuestionsAgree, Exists
    <3>2. \A x \in turns : /\ x.topic = asking'[d].topic => x.id < asking'[d].user
                           /\ x.id # asking'[d].user
      BY <2>1, <2>2 DEF TopicsIInv, QuestionsAgree
    <3>3. \A x \in {a, b} : x.topic # asking'[d].topic /\ x.id # asking'[d].user
      BY <1>1, <1>2, <1>7, <2>1, <2>2
    <3> QED
      BY <1>7, <3>1, <3>2, <3>3
  <2>3. \A d, e \in Chatters :
          asking'[d].step = "insert" /\ asking'[e].step = "insert"
            => (asking'[d].topic = asking'[e].topic => d = e)
               /\ (d # e => asking'[d].user # asking'[e].user)
    BY <2>1 DEF TopicsIInv, QuestionsAgree
  <2> QED
    BY <1>1, <2>2, <2>3 DEF QuestionsAgree, Exists
<1> QED
  BY <1>8, <1>9, <1>10, <1>11 DEF TopicsIInv

\* A new topic starts with a pair of turns.
LEMMA InsertChatKeepsTopicsIInv ==
  ASSUME TopicsIInv, NEW c \in Chatters, InsertChat(c)
  PROVE  TopicsIInv'
<1> DEFINE t == [id |-> topicIds + 1, origin |-> "chat", visibility |-> "private"]
<1>1. /\ asking[c].step = "new" /\ topicIds < MaxTopics /\ turnIds + 2 <= MaxTurns
      /\ topicIds' = topicIds + 1 /\ turnIds' = turnIds + 2
      /\ topics' = topics \cup {t}
      /\ turns' = turns \cup Pair(topicIds', turnIds + 1, turnIds + 2, asking[c].stamp)
      /\ asking' = [asking EXCEPT ![c] = NoQuestion]
      /\ UNCHANGED <<now, posts, comments, commenting>>
  BY DEF InsertChat
<1>2. /\ asking \in [Chatters -> Question] /\ turnIds \in Nat /\ topicIds \in Nat
      /\ turns \subseteq Turn /\ topics \subseteq Topic /\ posts \subseteq Post
      /\ \A x \in turns : x.id <= turnIds
      /\ \A s \in topics : s.id <= topicIds
      /\ \A rowsOf \in {turns, posts} : \A r \in rowsOf : \E s \in topics : s.id = r.topic
  BY TopicParams DEF TopicsIInv, TopicsTypeOK, TurnsArePaired, PostsAgree
<1>3. t \in Topic /\ t.id = topicIds + 1 /\ t.visibility = "private"
  BY <1>1, <1>2, TopicParams DEF Topic, TopicVisibilities
<1> HIDE DEF t
<1>4. /\ topicIds' \in 1..MaxTopics /\ turnIds + 1 \in 1..MaxTurns /\ turnIds + 2 \in 1..MaxTurns
      /\ asking[c].stamp \in 0..MaxClock
  BY <1>1, <1>2, TopicParams DEF Question
<1>5. NoQuestion \in Question /\ NoQuestion.step = "idle"
  BY TopicParams DEF NoQuestion, Question, NoTopic
<1>6. asking' \in [Chatters -> Question]
      /\ \A d \in Chatters : asking'[d].step = "insert" =>
            asking[d].step = "insert" /\ asking'[d] = asking[d]
  BY <1>1, <1>2, <1>5
<1>7. PICK a \in Turn, b \in Turn :
          /\ turns' = turns \cup {a, b}
          /\ a.id = turnIds + 1 /\ b.id = turnIds + 2
          /\ a.topic = topicIds + 1 /\ b.topic = topicIds + 1
  BY <1>1, <1>4, PairIsTyped
<1>8. /\ \A s \in topics : s.id # t.id
      /\ \A r \in posts : r.topic # t.id
      /\ \A r \in turns : r.topic # t.id
  <2>1. \A s \in topics : s.id \in Nat /\ s.id <= topicIds
    BY <1>2, TopicParams DEF Topic
  <2>2. \A s \in topics : s.id # t.id
    BY <1>2, <1>3, <2>1
  <2> QED
    BY <1>2, <2>2
<1>9. TopicsTypeOK'
  <2>1. \A r \in turns' : \E s \in topics' : s.id = r.topic
    BY <1>1, <1>2, <1>3, <1>7
  <2>2. \A r \in posts' : \E s \in topics' : s.id = r.topic
    BY <1>1, <1>2
  <2>3. /\ turns' \subseteq Turn /\ topics' \subseteq Topic
        /\ turnIds' \in 0..MaxTurns /\ topicIds' \in 0..MaxTopics
    BY <1>1, <1>2, <1>3, <1>4, <1>7
  <2> QED
    BY <1>1, <1>6, <2>1, <2>2, <2>3 DEF TopicsIInv, TopicsTypeOK
<1>10. PostsAgree'
  <2>1. \A s \in topics' : s.id <= topicIds'
    BY <1>1, <1>2, <1>3, TopicParams DEF Topic
  <2>2. \A r, s \in topics' : r.id = s.id => r = s
    BY <1>1, <1>8 DEF TopicsIInv, PostsAgree
  <2>3. \A p, r \in posts' : p.topic = r.topic => p = r
    BY <1>1 DEF TopicsIInv, PostsAgree
  <2>4. \A s \in topics', p \in posts' :
          p.topic = s.id => IF s.visibility = "private" THEN p.status = "withdrawn"
                            ELSE p.status = "open" /\ p.visibility = s.visibility
    BY <1>1, <1>8 DEF TopicsIInv, PostsAgree
  <2>5. \A s \in topics' : s.visibility # "private" => \E p \in posts' : p.topic = s.id
    BY <1>1, <1>3 DEF TopicsIInv, PostsAgree
  <2> QED
    BY <2>1, <2>2, <2>3, <2>4, <2>5 DEF PostsAgree
<1>11. TurnsArePaired'
  <2>1. \A x \in turns, y \in turns : x.topic = y.topic => x \in turns
    OBVIOUS
  <2>2. /\ turnIds + 2 > turnIds /\ turnIds + 1 < turnIds + 2 /\ turnIds' = turnIds + 2
    BY <1>1, <1>2
  <2>3. \A x \in turns : x.id # turnIds + 1 /\ (x.topic = topicIds' => x.id < turnIds + 1)
    BY <1>2, TopicParams DEF Turn
  <2> QED
    BY <1>1, <1>4, <2>1, <2>2, <2>3, PairsGrow
<1>12. QuestionsAgree'
  <2>1. \A d \in Chatters : asking'[d].step = "insert" =>
            /\ asking[d].step = "insert" /\ asking'[d] = asking[d]
            /\ asking[d].topic # t.id /\ asking[d].user \in 1..turnIds /\ Exists(asking[d].topic)
    BY <1>6, <1>8 DEF TopicsIInv, QuestionsAgree, Exists
  <2>2. ASSUME NEW d \in Chatters, asking'[d].step = "insert"
        PROVE  /\ \E s \in topics' : s.id = asking'[d].topic
               /\ asking'[d].user \in 1..turnIds'
               /\ \A x \in turns' : /\ x.topic = asking'[d].topic => x.id < asking'[d].user
                                    /\ x.id # asking'[d].user
    <3>1. /\ \E s \in topics' : s.id = asking'[d].topic
          /\ asking'[d].user \in 1..turnIds'
      BY <1>1, <1>2, <2>1, <2>2 DEF Exists
    <3>2. \A x \in turns : /\ x.topic = asking'[d].topic => x.id < asking'[d].user
                           /\ x.id # asking'[d].user
      BY <2>1, <2>2 DEF TopicsIInv, QuestionsAgree
    <3>3. \A x \in {a, b} : x.topic # asking'[d].topic /\ x.id # asking'[d].user
      BY <1>2, <1>3, <1>7, <2>1, <2>2
    <3> QED
      BY <1>7, <3>1, <3>2, <3>3
  <2>3. \A d, e \in Chatters :
          asking'[d].step = "insert" /\ asking'[e].step = "insert"
            => (asking'[d].topic = asking'[e].topic => d = e)
               /\ (d # e => asking'[d].user # asking'[e].user)
    BY <2>1 DEF TopicsIInv, QuestionsAgree
  <2> QED
    BY <2>2, <2>3 DEF QuestionsAgree, Exists
<1> QED
  BY <1>9, <1>10, <1>11, <1>12 DEF TopicsIInv

\* A rebuild of the seeded topics takes away the turns of a topic as a whole.
LEMMA RebuildKeepsTopicsIInv ==
  ASSUME TopicsIInv, NEW seeded \in BOOLEAN, NEW stamp \in 0..now, RebuildTopics(seeded, stamp)
  PROVE  TopicsIInv'
<1> DEFINE gone == TopicsOfTheMessage
           Kept(rowsOf) == {r \in rowsOf : r.topic \notin gone}
           t == [id |-> topicIds + 1, origin |-> "analysis", visibility |-> "private"]
           new == IF seeded THEN {t} ELSE {}
<1>1. /\ \A k \in gone : ~TopicLocked(k)
      /\ seeded => topicIds < MaxTopics /\ turnIds + 2 <= MaxTurns
      /\ topicIds' = IF seeded THEN topicIds + 1 ELSE topicIds
      /\ turnIds' = IF seeded THEN turnIds + 2 ELSE turnIds
      /\ topics' = {s \in topics : s.id \notin gone} \cup new
      /\ turns' = Kept(turns) \cup (IF seeded THEN Pair(topicIds', turnIds + 1, turnIds', stamp) ELSE {})
      /\ posts' = Kept(posts) /\ comments' = comments \ gone
      /\ UNCHANGED <<now, asking, commenting>>
  BY DEF RebuildTopics
<1>2. /\ asking \in [Chatters -> Question] /\ turnIds \in Nat /\ topicIds \in Nat
      /\ turns \subseteq Turn /\ topics \subseteq Topic /\ posts \subseteq Post
      /\ now \in 0..MaxClock /\ topicIds \in 0..MaxTopics /\ turnIds \in 0..MaxTurns
      /\ \A x \in turns : x.id <= turnIds
      /\ \A s \in topics : s.id <= topicIds
      /\ \A rowsOf \in {turns, posts} : \A r \in rowsOf : \E s \in topics : s.id = r.topic
      /\ \A k \in comments : \E p \in posts : p.topic = k
  BY TopicParams DEF TopicsIInv, TopicsTypeOK, TurnsArePaired, PostsAgree
<1>3. seeded => t \in Topic
  BY <1>1, <1>2, TopicParams DEF Topic, TopicVisibilities
<1>4. t.id = topicIds + 1 /\ t.visibility = "private"
  OBVIOUS
<1> HIDE DEF t, gone
<1>5. new = IF seeded THEN {t} ELSE {}
  OBVIOUS
<1> HIDE DEF new
<1>6. seeded => /\ topicIds' \in 1..MaxTopics /\ turnIds + 1 \in 1..MaxTurns /\ turnIds' \in 1..MaxTurns
                /\ stamp \in 0..MaxClock
  BY <1>1, <1>2, TopicParams
<1>7. topicIds' \in 0..MaxTopics /\ turnIds' \in 0..MaxTurns
  BY <1>1, <1>2, TopicParams
<1>8. PICK added \in SUBSET Turn :
          /\ turns' = Kept(turns) \cup added
          /\ \A x \in added : /\ seeded /\ x.topic = topicIds + 1
                              /\ x.id \in {turnIds + 1, turnIds + 2}
  <2>1. CASE seeded
    <3>1. PICK a \in Turn, b \in Turn :
            /\ Pair(topicIds', turnIds + 1, turnIds', stamp) = {a, b}
            /\ a.id = turnIds + 1 /\ b.id = turnIds' /\ a.topic = topicIds' /\ b.topic = topicIds'
      BY <1>6, <2>1, PairIsTyped
    <3>2. {a, b} \in SUBSET Turn
      OBVIOUS
    <3> QED
      BY <1>1, <2>1, <3>1, <3>2
  <2>2. CASE ~seeded
    <3>1. turns' = Kept(turns) \cup {}
      BY <1>1, <2>2
    <3>2. {} \in SUBSET Turn
      OBVIOUS
    <3>3. \A x \in {} : /\ seeded /\ x.topic = topicIds + 1
                         /\ x.id \in {turnIds + 1, turnIds + 2}
      OBVIOUS
    <3> HIDE DEF Kept
    <3> QED
      BY <3>1, <3>2, <3>3
  <2> QED
    BY <2>1, <2>2
<1>9. /\ \A s \in topics : s.id # topicIds + 1 /\ s.id \in Nat
      /\ \A r \in posts : r.topic # topicIds + 1
      /\ \A r \in turns : r.topic # topicIds + 1
  <2>1. \A s \in topics : s.id \in Nat /\ s.id <= topicIds
    BY <1>2, TopicParams DEF Topic
  <2>2. \A s \in topics : s.id # topicIds + 1
    BY <1>2, <2>1
  <2> QED
    BY <1>2, <2>1, <2>2
<1>10. TopicsTypeOK'
  <2>1. \A r \in turns' : \E s \in topics' : s.id = r.topic
    BY <1>1, <1>2, <1>4, <1>5, <1>8
  <2>2. \A r \in posts' : \E s \in topics' : s.id = r.topic
    BY <1>1, <1>2
  <2>3. turns' \subseteq Turn /\ topics' \subseteq Topic /\ posts' \subseteq Post
    BY <1>1, <1>2, <1>3, <1>5, <1>8
  <2>4. \A k \in comments' : \E p \in posts' : p.topic = k
    BY <1>1, <1>2
  <2> QED
    BY <1>1, <1>7, <2>1, <2>2, <2>3, <2>4 DEF TopicsIInv, TopicsTypeOK
<1>11. PostsAgree'
  <2>1. \A s \in topics' : s.id <= topicIds'
    BY <1>1, <1>2, <1>4, <1>5, <1>9
  <2>2. \A r, s \in topics' : r.id = s.id => r = s
    BY <1>1, <1>4, <1>5, <1>9 DEF TopicsIInv, PostsAgree
  <2>3. \A p, r \in posts' : p.topic = r.topic => p = r
    BY <1>1 DEF TopicsIInv, PostsAgree
  <2>4. \A s \in topics', p \in posts' :
          p.topic = s.id => IF s.visibility = "private" THEN p.status = "withdrawn"
                            ELSE p.status = "open" /\ p.visibility = s.visibility
    BY <1>1, <1>4, <1>5, <1>9 DEF TopicsIInv, PostsAgree
  <2>5. \A s \in topics' : s.visibility # "private" => \E p \in posts' : p.topic = s.id
    BY <1>1, <1>4, <1>5 DEF TopicsIInv, PostsAgree
  <2> QED
    BY <2>1, <2>2, <2>3, <2>4, <2>5 DEF PostsAgree
<1>12. TurnsArePaired'
  <2>1. Kept(turns) \in SUBSET turns
        /\ \A x \in turns, y \in Kept(turns) : x.topic = y.topic => x \in Kept(turns)
    OBVIOUS
  <2>2. CASE seeded
    <3>1. /\ turnIds' > turnIds /\ turnIds + 1 < turnIds' /\ turnIds' = turnIds'
      BY <1>1, <1>2, <2>2
    <3>2. \A x \in Kept(turns) : x.id # turnIds + 1 /\ (x.topic = topicIds' => x.id < turnIds + 1)
      BY <1>2, TopicParams DEF Turn
    <3>3. turns' = Kept(turns) \cup Pair(topicIds', turnIds + 1, turnIds', stamp)
      BY <1>1, <2>2
    <3> HIDE DEF Kept
    <3> QED
      BY <1>6, <2>1, <2>2, <3>1, <3>2, <3>3, PairsGrow
  <2>3. CASE ~seeded
    <3>1. turns' = Kept(turns) /\ turnIds' = turnIds
      BY <1>1, <2>3
    <3> HIDE DEF Kept
    <3> QED
      BY <2>1, <3>1, PairsShrink
  <2> QED
    BY <2>2, <2>3
<1>13. QuestionsAgree'
  <2>1. \A d \in Chatters : asking[d].step = "insert" =>
            /\ asking[d].topic # topicIds + 1 /\ asking[d].user \in 1..turnIds
            /\ \E s \in topics : s.id = asking[d].topic /\ s.id \notin gone
    BY <1>1, <1>9 DEF TopicsIInv, QuestionsAgree, Exists, TopicLocked
  <2>2. ASSUME NEW d \in Chatters, asking[d].step = "insert"
        PROVE  /\ \E s \in topics' : s.id = asking[d].topic
               /\ asking[d].user \in 1..turnIds'
               /\ \A x \in turns' : /\ x.topic = asking[d].topic => x.id < asking[d].user
                                    /\ x.id # asking[d].user
    <3>1. \E s \in topics' : s.id = asking[d].topic
      BY <1>1, <2>1, <2>2
    <3>2. \A x \in turns : /\ x.topic = asking[d].topic => x.id < asking[d].user
                           /\ x.id # asking[d].user
      BY <2>2 DEF TopicsIInv, QuestionsAgree
    <3>3. asking[d].user \in 1..turnIds'
      BY <1>1, <1>2, <2>1, <2>2
    <3>4. \A x \in added : x.topic # asking[d].topic /\ x.id # asking[d].user
      BY <1>2, <1>8, <2>1, <2>2
    <3> QED
      BY <1>8, <3>1, <3>2, <3>3, <3>4
  <2> QED
    BY <1>1, <2>2 DEF TopicsIInv, QuestionsAgree, Exists
<1> QED
  BY <1>10, <1>11, <1>12, <1>13 DEF TopicsIInv

\* The invariant holds in every state of the topics.
THEOREM TopicsInductive == TopicsSpec => []TopicsIInv
<1>1. TopicsInit => TopicsIInv
  BY TopicsInitHolds
<1>2. TopicsIInv /\ [TopicsNext]_topicVars => TopicsIInv'
  <2> SUFFICES ASSUME TopicsIInv, [TopicsNext]_topicVars
               PROVE  TopicsIInv'
    OBVIOUS
  <2>1. CASE TopicTick \/ \E k \in Commenters : InsertComment(k) \/ \E p \in posts : FindOpenPost(k, p)
    BY <2>1, TickAndCommentsKeepTopicsIInv
  <2>2. ASSUME NEW c \in Chatters,
               \/ \E t \in topics : ReadTopic(c, t.id)
               \/ AnswerQuestion(c) \/ StartChat(c) \/ InsertChat(c) \/ QuestionFails(c)
               \/ InsertUserTurn(c) \/ InsertAssistantTurn(c)
        PROVE  TopicsIInv'
    BY <2>2, AskingKeepsTopicsIInv, InsertChatKeepsTopicsIInv, InsertUserTurnKeepsTopicsIInv,
       InsertAssistantTurnKeepsTopicsIInv
  <2>3. ASSUME NEW seeded \in BOOLEAN, NEW stamp \in 0..now, RebuildTopics(seeded, stamp)
        PROVE  TopicsIInv'
    BY <2>3, RebuildKeepsTopicsIInv
  <2>4. ASSUME NEW t \in topics, NEW visibility \in TopicVisibilities, SetTopicVisibility(t, visibility)
        PROVE  TopicsIInv'
    BY <2>4, SetVisibilityKeepsTopicsIInv
  <2>5. CASE UNCHANGED topicVars
    BY <2>5 DEF topicVars, TopicsIInv, TopicsTypeOK, PostsAgree, QuestionsAgree, TurnsArePaired,
       Partners, Exists
  <2> QED
    BY <2>1, <2>2, <2>3, <2>4, <2>5 DEF TopicsNext
<1> QED
  BY <1>1, <1>2, PTL DEF TopicsSpec

\* The rows of topics, turns, posts and comments keep their types
\* (src/market_topics/).
THEOREM TopicsTypeCorrect == TopicsSpec => []TopicsTypeOK
<1>1. TopicsIInv => TopicsTypeOK
  BY DEF TopicsIInv
<1> QED
  BY <1>1, TopicsInductive, PTL

\* The forum shows what is shared and nothing else, for any number of users,
\* topics and changes of visibility: a topic has one post at most, readable
\* exactly while the topic is not private, in the public catalog exactly while
\* it is public.
THEOREM ForumAgreesWithTopics == TopicsSpec => []ForumShowsWhatIsShared
  BY TopicsInductive, TopicsImply, PTL

\* The first turn of a topic is older than the others and than what is being asked.
IsFirst(x, t) ==
    /\ x.topic = t /\ x.stamp <= now
    /\ \A z \in turns : z.topic = t => x.id <= z.id /\ x.stamp <= z.stamp
    /\ \A c \in Chatters : asking[c].topic = t /\ asking[c].step \in {"stamped", "insert"}
          => x.stamp <= asking[c].stamp

\* Every topic has a first turn, and no question has a time to come.
TopicsStart ==
    /\ \A t \in topics : \E x \in turns : IsFirst(x, t.id)
    /\ \A c \in Chatters : asking[c].stamp <= now /\ asking[c].topic <= topicIds

\* No topic, no question.
LEMMA TopicsStartInit == TopicsInit => TopicsStart
  BY DEF TopicsInit, TopicsStart, NoQuestion, NoTopic

\* A question that waits for its answer is younger than the first turn of its
\* topic.
LEMMA AskingKeepsTopicsStart ==
  ASSUME TopicsIInv, TopicsStart, NEW c \in Chatters,
         \/ \E t \in topics : ReadTopic(c, t.id)
         \/ AnswerQuestion(c) \/ StartChat(c) \/ QuestionFails(c)
         \/ InsertUserTurn(c)
  PROVE  TopicsStart'
<1>1. UNCHANGED <<now, topics, turns, posts, comments, topicIds, commenting>>
  BY DEF ReadTopic, AnswerQuestion, StartChat, QuestionFails, InsertUserTurn
<1>2. /\ asking \in [Chatters -> Question] /\ now \in Nat /\ topics \subseteq Topic /\ topicIds \in Nat
      /\ \A t \in topics : t.id <= topicIds
  BY TopicParams DEF TopicsIInv, TopicsTypeOK, PostsAgree
<1>3. /\ \A d \in Chatters : asking'[d].stamp <= now /\ asking'[d].topic <= topicIds
      /\ \A d \in Chatters : asking'[d].step \in {"stamped", "insert"} =>
            \/ asking'[d].stamp = now
            \/ /\ asking[d].step \in {"stamped", "insert"}
               /\ asking'[d].topic = asking[d].topic /\ asking'[d].stamp = asking[d].stamp
  <2>1. ASSUME NEW q, asking' = [asking EXCEPT ![c] = q], q.stamp <= now, q.topic <= topicIds,
               q.step \in {"stamped", "insert"} =>
                    \/ q.stamp = now
                    \/ /\ asking[c].step \in {"stamped", "insert"}
                       /\ q.topic = asking[c].topic /\ q.stamp = asking[c].stamp
        PROVE  <1>3!1 /\ <1>3!2
    BY <1>2, <2>1 DEF TopicsStart
  <2>2. NoQuestion.stamp <= now /\ NoQuestion.topic <= topicIds /\ NoQuestion.step = "idle"
    BY <1>2 DEF NoQuestion, NoTopic
  <2>3. asking[c].stamp <= now /\ asking[c].topic <= topicIds /\ asking[c] \in Question
    BY <1>2 DEF TopicsStart
  <2>4. ASSUME NEW t \in topics, ReadTopic(c, t.id) PROVE <1>3!1 /\ <1>3!2
    <3> DEFINE q == [NoQuestion EXCEPT !.step = "answer", !.topic = t.id]
    <3>1. q.stamp <= now /\ q.topic <= topicIds /\ q.step = "answer"
      BY <1>2 DEF NoQuestion, NoTopic
    <3>2. asking' = [asking EXCEPT ![c] = q]
      BY <2>4 DEF ReadTopic
    <3> HIDE DEF q
    <3> QED
      BY <2>1, <3>1, <3>2
  <2>5. CASE AnswerQuestion(c)
    <3> DEFINE q == [asking[c] EXCEPT !.step = "stamped", !.stamp = now]
    <3>1. q.stamp = now /\ q.stamp <= now /\ q.topic <= topicIds
      BY <1>2, <2>3 DEF Question
    <3>2. asking' = [asking EXCEPT ![c] = q]
      BY <2>5 DEF AnswerQuestion
    <3> HIDE DEF q
    <3> QED
      BY <2>1, <3>1, <3>2
  <2>6. CASE StartChat(c)
    <3> DEFINE q == [NoQuestion EXCEPT !.step = "new", !.stamp = now]
    <3>1. q.stamp <= now /\ q.topic <= topicIds /\ q.step = "new"
      BY <1>2 DEF NoQuestion, NoTopic
    <3>2. asking' = [asking EXCEPT ![c] = q]
      BY <2>6 DEF StartChat
    <3> HIDE DEF q
    <3> QED
      BY <2>1, <3>1, <3>2
  <2>7. CASE asking' = [asking EXCEPT ![c] = NoQuestion]
    BY <2>1, <2>2, <2>7
  <2>8. CASE InsertUserTurn(c) /\ Exists(asking[c].topic)
    <3> DEFINE q == [asking[c] EXCEPT !.step = "insert", !.user = turnIds']
    <3>1. /\ q.stamp = asking[c].stamp /\ q.topic = asking[c].topic
          /\ asking[c].step = "stamped"
      BY <2>3, <2>8 DEF Question, InsertUserTurn
    <3>2. asking' = [asking EXCEPT ![c] = q]
      BY <2>8 DEF InsertUserTurn
    <3> HIDE DEF q
    <3> QED
      BY <2>1, <2>3, <3>1, <3>2
  <2> QED
    BY <2>4, <2>5, <2>6, <2>7, <2>8 DEF QuestionFails, InsertUserTurn
<1>4. ASSUME NEW t \in topics, NEW x \in turns, IsFirst(x, t.id)
      PROVE  IsFirst(x, t.id)'
  BY <1>1, <1>3, <1>4 DEF IsFirst
<1> QED
  BY <1>1, <1>3, <1>4 DEF TopicsStart

\* Time, comments and visibility leave the first turns alone.
LEMMA OthersKeepTopicsStart ==
  ASSUME TopicsIInv, TopicsStart,
         \/ TopicTick
         \/ \E k \in Commenters : InsertComment(k) \/ \E p \in posts : FindOpenPost(k, p)
         \/ \E t \in topics, visibility \in TopicVisibilities : SetTopicVisibility(t, visibility)
  PROVE  TopicsStart'
<1>1. UNCHANGED <<turns, topicIds, turnIds, asking>> /\ now' >= now /\ now \in Nat /\ now' \in Nat
      /\ asking \in [Chatters -> Question] /\ turns \subseteq Turn
  BY TopicParams DEF TopicTick, InsertComment, FindOpenPost, SetTopicVisibility, TopicsIInv, TopicsTypeOK
<1>2. \A s \in topics' : \E t \in topics : s.id = t.id
  <2>1. ASSUME NEW t \in topics, NEW visibility \in TopicVisibilities, SetTopicVisibility(t, visibility)
        PROVE  \A s \in topics' : \E r \in topics : s.id = r.id
    <3>1. topics' = (topics \ {t}) \cup {[t EXCEPT !.visibility = visibility]} /\ topics \subseteq Topic
      BY <2>1 DEF SetTopicVisibility, TopicsIInv, TopicsTypeOK
    <3>2. [t EXCEPT !.visibility = visibility].id = t.id
      BY <3>1 DEF Topic
    <3> QED
      BY <3>1, <3>2
  <2> QED
    BY <2>1 DEF TopicTick, InsertComment, FindOpenPost
<1>3. (\A c \in Chatters : asking[c].stamp \in Nat) /\ (\A x \in turns : x.stamp \in Nat)
  BY <1>1, TopicParams DEF Question, Turn
<1>4. ASSUME NEW t \in topics, NEW x \in turns, IsFirst(x, t.id)
      PROVE  IsFirst(x, t.id)'
  <2>1. x.stamp <= now'
    BY <1>1, <1>3, <1>4 DEF IsFirst
  <2> QED
    BY <1>1, <1>4, <2>1 DEF IsFirst
<1>5. \A c \in Chatters : asking'[c].stamp <= now' /\ asking'[c].topic <= topicIds'
  BY <1>1, <1>3 DEF TopicsStart
<1>6. ASSUME NEW s \in topics' PROVE \E x \in turns' : IsFirst(x, s.id)'
  <2>1. PICK t \in topics : s.id = t.id
    BY <1>2
  <2>2. PICK x \in turns : IsFirst(x, t.id)
    BY DEF TopicsStart
  <2> QED
    BY <1>1, <1>4, <2>1, <2>2 DEF IsFirst
<1> QED
  BY <1>5, <1>6 DEF TopicsStart

\* A pair that is stored is younger than the first turn.
LEMMA AssistantKeepsTopicsStart ==
  ASSUME TopicsIInv, TopicsStart, NEW c \in Chatters, InsertAssistantTurn(c)
  PROVE  TopicsStart'
<1> DEFINE q == asking[c]
<1>1. /\ q.step = "insert" /\ turnIds < MaxTurns /\ turnIds' = turnIds + 1
      /\ turns' = turns \cup Pair(q.topic, q.user, turnIds', q.stamp)
      /\ asking' = [asking EXCEPT ![c] = NoQuestion]
      /\ UNCHANGED <<now, topics, topicIds>>
  BY DEF InsertAssistantTurn
<1>2. /\ asking \in [Chatters -> Question] /\ turnIds \in Nat /\ turns \subseteq Turn
      /\ topics \subseteq Topic /\ now \in Nat /\ topicIds \in Nat
  BY TopicParams DEF TopicsIInv, TopicsTypeOK
<1>3. /\ Exists(q.topic) /\ q.user \in 1..turnIds
      /\ \A x \in turns : x.id # q.user /\ (x.topic = q.topic => x.id < q.user)
  BY <1>1 DEF TopicsIInv, QuestionsAgree
<1>4. /\ q.topic \in 1..MaxTopics /\ q.user \in 1..MaxTurns /\ turnIds' \in 1..MaxTurns
      /\ q.stamp \in 0..MaxClock /\ q.user < turnIds' /\ q.user \in Nat
  BY <1>1, <1>2, <1>3, TopicParams DEF Question, Topic, Exists
<1>5. PICK a \in Turn, b \in Turn :
          /\ turns' = turns \cup {a, b}
          /\ a.id = q.user /\ b.id = turnIds' /\ a.topic = q.topic /\ b.topic = q.topic
          /\ a.stamp = q.stamp /\ b.stamp = q.stamp
  BY <1>1, <1>4, PairIsTyped
<1>6. /\ \A d \in Chatters : asking'[d].stamp <= now /\ asking'[d].topic <= topicIds
      /\ \A d \in Chatters : asking'[d].step \in {"stamped", "insert"} => asking'[d] = asking[d]
  BY <1>1, <1>2 DEF TopicsStart, NoQuestion, NoTopic
<1>7. ASSUME NEW t \in topics, NEW x \in turns, IsFirst(x, t.id)
      PROVE  IsFirst(x, t.id)'
  <2>1. \A z \in {a, b} : z.topic = t.id => x.id <= z.id /\ x.stamp <= z.stamp
    <3>1. x.id \in Nat
      BY <1>2, TopicParams DEF Turn
    <3> QED
      BY <1>1, <1>2, <1>3, <1>4, <1>5, <1>7, <3>1 DEF IsFirst
  <2> QED
    BY <1>1, <1>5, <1>6, <1>7, <2>1 DEF IsFirst
<1> QED
  BY <1>1, <1>5, <1>6, <1>7 DEF TopicsStart

\* A new topic starts with the pair that made it.
LEMMA NewTopicStarts ==
  ASSUME TopicsIInv, TopicsStart, NEW stamp \in 0..MaxClock, stamp <= now,
         NEW k, k = topicIds + 1, topicIds' = k, topicIds' \in 1..MaxTopics,
         turnIds + 1 \in 1..MaxTurns, turnIds + 2 \in 1..MaxTurns,
         NEW kept \in SUBSET turns, now' = now,
         turns' = kept \cup Pair(topicIds', turnIds + 1, turnIds + 2, stamp),
         \A d \in Chatters : asking'[d].topic <= topicIds
  PROVE  /\ \E x \in turns' : IsFirst(x, k)'
         /\ \A z \in turns' \ kept : z.topic = k
<1>1. PICK a, b \in turns' :
          /\ turns' = kept \cup {a, b}
          /\ a.id = turnIds + 1 /\ b.id = turnIds + 2 /\ a.topic = k /\ b.topic = k
          /\ a.stamp = stamp /\ b.stamp = stamp
  BY PairIsTyped
<1>2. /\ turnIds \in Nat /\ topicIds \in Nat /\ turns \subseteq Turn /\ topics \subseteq Topic
      /\ \A s \in topics : s.id \in Nat /\ s.id <= topicIds
      /\ \A r \in turns : \E s \in topics : s.id = r.topic
  BY TopicParams DEF TopicsIInv, TopicsTypeOK, PostsAgree, Topic
<1>3. \A z \in kept : z.topic # k
  BY <1>2
<1>4. \A d \in Chatters : asking'[d].topic # k
  BY <1>2
<1>5. stamp <= stamp
  BY TopicParams
<1>6. IsFirst(a, k)'
  <2>1. \A z \in turns' : z.topic = k => a.id <= z.id /\ a.stamp <= z.stamp
    BY <1>1, <1>2, <1>3, <1>5
  <2>2. a.topic = k /\ a.stamp <= now'
    BY <1>1
  <2> QED
    BY <1>4, <2>1, <2>2 DEF IsFirst
<1> QED
  BY <1>1, <1>6

\* The first pair of a new topic has its first turn.
LEMMA InsertChatKeepsTopicsStart ==
  ASSUME TopicsIInv, TopicsStart, NEW c \in Chatters, InsertChat(c)
  PROVE  TopicsStart'
<1> DEFINE t == [id |-> topicIds + 1, origin |-> "chat", visibility |-> "private"]
<1>1. /\ topicIds < MaxTopics /\ turnIds + 2 <= MaxTurns
      /\ topicIds' = topicIds + 1 /\ turnIds' = turnIds + 2
      /\ topics' = topics \cup {t}
      /\ turns' = turns \cup Pair(topicIds', turnIds + 1, turnIds + 2, asking[c].stamp)
      /\ asking' = [asking EXCEPT ![c] = NoQuestion]
      /\ now' = now
  BY DEF InsertChat
<1>2. /\ asking \in [Chatters -> Question] /\ turnIds \in Nat /\ topicIds \in Nat
      /\ topics \subseteq Topic /\ now \in Nat
      /\ \A s \in topics : s.id \in Nat /\ s.id <= topicIds
  BY TopicParams DEF TopicsIInv, TopicsTypeOK, PostsAgree, Topic
<1> PICK k \in Nat : k = topicIds + 1
  BY <1>2
<1>3. /\ \A d \in Chatters : asking'[d].stamp <= now /\ asking'[d].topic <= topicIds
      /\ \A d \in Chatters : asking'[d].step \in {"stamped", "insert"} => asking'[d] = asking[d]
  BY <1>1, <1>2 DEF TopicsStart, NoQuestion, NoTopic
<1>4. /\ \E x \in turns' : IsFirst(x, k)'
      /\ \A z \in turns' \ turns : z.topic = k
  <2>1. /\ topicIds' \in 1..MaxTopics /\ turnIds + 1 \in 1..MaxTurns /\ turnIds + 2 \in 1..MaxTurns
        /\ asking[c].stamp \in 0..MaxClock /\ asking[c].stamp <= now /\ t.id = k /\ topicIds' = k
    BY <1>1, <1>2, TopicParams DEF Question, TopicsStart
  <2> HIDE DEF t
  <2> QED
    BY <1>1, <1>3, <2>1, NewTopicStarts
<1>5. ASSUME NEW s \in topics PROVE \E x \in turns' : IsFirst(x, s.id)'
  <2>1. PICK x \in turns : IsFirst(x, s.id)
    BY DEF TopicsStart
  <2>2. s.id # k /\ turns \subseteq turns'
    BY <1>1, <1>2
  <2>3. \A z \in turns' : z.topic = s.id => z \in turns
    BY <1>4, <2>2
  <2>4. IsFirst(x, s.id)'
    BY <1>1, <1>3, <2>1, <2>3 DEF IsFirst
  <2> QED
    BY <2>2, <2>4
<1>6. \A d \in Chatters : asking'[d].stamp <= now' /\ asking'[d].topic <= topicIds'
  BY <1>1, <1>2, <1>3, TopicParams DEF Question, NoQuestion, NoTopic
<1>7. \A s \in topics' : s \in topics \/ s.id = k
  BY <1>1
<1> QED
  BY <1>4, <1>5, <1>6, <1>7 DEF TopicsStart

\* A topic that is rebuilt starts with its seeded turn.
LEMMA RebuildKeepsTopicsStart ==
  ASSUME TopicsIInv, TopicsStart, NEW seeded \in BOOLEAN, NEW stamp \in 0..now, RebuildTopics(seeded, stamp)
  PROVE  TopicsStart'
<1> DEFINE gone == TopicsOfTheMessage
           kept == {r \in turns : r.topic \notin gone}
           t == [id |-> topicIds + 1, origin |-> "analysis", visibility |-> "private"]
<1>1. /\ seeded => topicIds < MaxTopics /\ turnIds + 2 <= MaxTurns
      /\ topicIds' = IF seeded THEN topicIds + 1 ELSE topicIds
      /\ turnIds' = IF seeded THEN turnIds + 2 ELSE turnIds
      /\ topics' = {s \in topics : s.id \notin gone} \cup (IF seeded THEN {t} ELSE {})
      /\ turns' = kept \cup (IF seeded THEN Pair(topicIds', turnIds + 1, turnIds', stamp) ELSE {})
      /\ now' = now /\ asking' = asking
  BY DEF RebuildTopics
<1>2. /\ asking \in [Chatters -> Question] /\ turnIds \in Nat /\ topicIds \in Nat
      /\ topics \subseteq Topic /\ now \in 0..MaxClock
      /\ \A s \in topics : s.id \in Nat /\ s.id <= topicIds
  BY TopicParams DEF TopicsIInv, TopicsTypeOK, PostsAgree, Topic
<1> PICK k \in Nat : k = topicIds + 1
  BY <1>2
<1>3. t.id = k
  OBVIOUS
<1> HIDE DEF gone, t
<1>4. \A d \in Chatters : asking'[d].stamp <= now' /\ asking'[d].topic <= topicIds
  BY <1>1 DEF TopicsStart
<1>5. /\ seeded => \E x \in turns' : IsFirst(x, k)'
      /\ \A z \in turns' \ kept : z.topic = k
  <2>1. CASE seeded
    <3>1. /\ topicIds' \in 1..MaxTopics /\ turnIds + 1 \in 1..MaxTurns /\ turnIds + 2 \in 1..MaxTurns
          /\ stamp \in 0..MaxClock /\ stamp <= now /\ turnIds' = turnIds + 2 /\ topicIds' = k
      BY <1>1, <1>2, <1>3, <2>1, TopicParams
    <3>2. kept \in SUBSET turns /\ turns' = kept \cup Pair(topicIds', turnIds + 1, turnIds + 2, stamp)
      BY <1>1, <2>1, <3>1
    <3> HIDE DEF kept
    <3> QED
      BY <1>1, <1>3, <1>4, <3>1, <3>2, NewTopicStarts
  <2>2. CASE ~seeded
    BY <1>1, <2>2
  <2> QED
    BY <2>1, <2>2
<1>6. ASSUME NEW s \in topics, s.id \notin gone PROVE \E x \in turns' : IsFirst(x, s.id)'
  <2>1. PICK x \in turns : IsFirst(x, s.id)
    BY DEF TopicsStart
  <2>2. s.id # k /\ x \in turns'
    BY <1>1, <1>2, <1>3, <1>6, <2>1 DEF IsFirst
  <2>3. \A z \in turns' : z.topic = s.id => z \in turns
    BY <1>5, <2>2
  <2>4. IsFirst(x, s.id)'
    BY <1>1, <2>1, <2>3 DEF IsFirst
  <2> QED
    BY <2>2, <2>4
<1>7. \A d \in Chatters : asking'[d].stamp <= now' /\ asking'[d].topic <= topicIds'
  BY <1>1, <1>2, <1>4, TopicParams DEF Question
<1>8. \A s \in topics' : (s \in topics /\ s.id \notin gone) \/ (seeded /\ s.id = k)
  BY <1>1, <1>3
<1> QED
  BY <1>5, <1>6, <1>7, <1>8 DEF TopicsStart

\* What the reading order of a topic is, and that partners are neighbours in it.
InOrder(read, S) ==
    /\ DOMAIN read = 1..Cardinality(S) /\ Cardinality(S) \in Nat
    /\ \A i \in DOMAIN read : read[i] \in S
    /\ \A x \in S : \E i \in DOMAIN read : read[i] = x
    /\ \A i, j \in DOMAIN read : i < j <=> TurnBefore(read[i], read[j])

\* The turns as they are read: each once, ordered by their time and id.
LEMMA ReadingIsInOrder ==
  ASSUME TopicsIInv, NEW t
  PROVE  InOrder(ReadingOrder(t), TurnsOf(t))
<1> DEFINE S == TurnsOf(t)
           R == {p \in S \X S : TurnBefore(p[1], p[2])}
           Rank(x) == Cardinality(Before(x, R, S))
<1>1. /\ turns \subseteq Turn /\ turnIds \in Nat
      /\ \A x \in S : x \in turns /\ x.id \in Nat /\ x.stamp \in Nat /\ x.id <= turnIds
      /\ \A x, y \in S : x.id = y.id => x = y
  BY TopicParams DEF TopicsIInv, TopicsTypeOK, TurnsArePaired, TurnsOf, Turn
<1>2. IsFiniteSet(S)
  <2> DEFINE f == [x \in S |-> x.id]
  <2>1. f \in Injection(S, 0..turnIds)
    BY <1>1 DEF Injection, IsInjective
  <2>2. IsFiniteSet(0..turnIds)
    BY <1>1, FS_Interval
  <2> HIDE DEF S, f
  <2> QED
    BY <2>1, <2>2, FS_Injection
<1>3. Orders(R, S)
  <2>1. \A x, y \in S : <<x, y>> \in R <=> TurnBefore(x, y)
    OBVIOUS
  <2> HIDE DEF R
  <2>2. \A x \in S : ~TurnBefore(x, x)
    BY <1>1 DEF TurnBefore
  <2>3. \A x, y, z \in S : TurnBefore(x, y) /\ TurnBefore(y, z) => TurnBefore(x, z)
    BY <1>1 DEF TurnBefore
  <2>4. \A x, y \in S : x # y => TurnBefore(x, y) \/ TurnBefore(y, x)
    BY <1>1 DEF TurnBefore
  <2> QED
    BY <2>1, <2>2, <2>3, <2>4 DEF Orders
<1>4. \A x \in S : {y \in S : TurnBefore(y, x)} = Before(x, R, S)
  BY DEF Before
<1>5. \A x, y \in S : TurnBefore(x, y) => <<x, y>> \in R
  OBVIOUS
<1> HIDE DEF S, R
<1>6. /\ Cardinality(S) \in Nat
      /\ \A x \in S : Rank(x) \in 0..(Cardinality(S) - 1)
      /\ \A k \in 0..(Cardinality(S) - 1) : \E x \in S : Rank(x) = k
  BY <1>2, <1>3, RanksAreTaken
<1>7. \A x, y \in S : TurnBefore(x, y) => Rank(x) < Rank(y)
  BY <1>2, <1>3, <1>5, RanksGrow
<1> DEFINE read == ReadingOrder(t)
<1>8. DOMAIN read = 1..Cardinality(S)
  BY DEF ReadingOrder, S
<1>9. ASSUME NEW i \in 1..Cardinality(S)
      PROVE  read[i] \in S /\ Rank(read[i]) = i - 1
  <2>1. read[i] = CHOOSE x \in S : Cardinality({y \in S : TurnBefore(y, x)}) = i - 1
    BY DEF ReadingOrder, S
  <2>2. PICK x \in S : Rank(x) = i - 1
    BY <1>6
  <2>3. Cardinality({y \in S : TurnBefore(y, x)}) = i - 1
    BY <1>4, <2>2
  <2>4. read[i] \in S /\ Cardinality({y \in S : TurnBefore(y, read[i])}) = i - 1
    BY <2>1, <2>3
  <2> QED
    BY <1>4, <2>4
<1> HIDE DEF Rank, read
<1>10. \A x, y \in S : Rank(x) = Rank(y) => x = y
  <2>1. \A x, y \in S : x # y => TurnBefore(x, y) \/ TurnBefore(y, x)
    BY <1>1 DEF TurnBefore
  <2> QED
    BY <1>6, <1>7, <2>1
<1>11. \A x \in S : \E i \in DOMAIN read : read[i] = x
  <2> SUFFICES ASSUME NEW x \in S PROVE \E i \in DOMAIN read : read[i] = x
    OBVIOUS
  <2>1. Rank(x) \in 0..(Cardinality(S) - 1)
    BY <1>6
  <2>2. PICK r \in 0..(Cardinality(S) - 1) : r = Rank(x)
    BY <2>1
  <2>3. r + 1 \in 1..Cardinality(S) /\ r + 1 - 1 = r
    BY <1>6
  <2>4. read[r + 1] \in S /\ Rank(read[r + 1]) = r + 1 - 1
    BY <1>9, <2>3
  <2>5. read[r + 1] = x
    BY <1>10, <2>2, <2>3, <2>4
  <2> QED
    BY <1>8, <2>3, <2>5
<1>12. \A i, j \in DOMAIN read : i < j <=> TurnBefore(read[i], read[j])
  <2> SUFFICES ASSUME NEW i \in 1..Cardinality(S), NEW j \in 1..Cardinality(S)
               PROVE  i < j <=> TurnBefore(read[i], read[j])
    BY <1>8
  <2>1. TurnBefore(read[i], read[j]) => i < j
    BY <1>6, <1>7, <1>9
  <2>2. TurnBefore(read[j], read[i]) => j < i
    BY <1>6, <1>7, <1>9
  <2>3. read[i] = read[j] => i = j
    BY <1>6, <1>9
  <2>4. read[i] # read[j] => TurnBefore(read[i], read[j]) \/ TurnBefore(read[j], read[i])
    BY <1>1, <1>9 DEF TurnBefore
  <2> QED
    BY <1>6, <2>1, <2>2, <2>3, <2>4
<1> QED
  BY <1>6, <1>8, <1>9, <1>11, <1>12 DEF InOrder, read, S

\* An answer is read right after its question.
LEMMA PartnersAreNeighbours ==
  ASSUME TopicsIInv, NEW t, NEW read, InOrder(read, TurnsOf(t)),
         NEW i \in DOMAIN read, NEW j \in DOMAIN read, Partners(read[i], read[j])
  PROVE  j = i + 1
<1>1. /\ \A k \in DOMAIN read : read[k] \in turns /\ read[k].topic = t
                               /\ read[k].id \in Nat /\ read[k].stamp \in Nat
      /\ \A k \in DOMAIN read : k \in Nat /\ k >= 1 /\ k <= Cardinality(TurnsOf(t))
      /\ Cardinality(TurnsOf(t)) \in Nat
  BY TopicParams DEF InOrder, TurnsOf, TopicsIInv, TopicsTypeOK, Turn
<1>2. i < j
  BY <1>1 DEF InOrder, Partners, TurnBefore
<1>3. ASSUME i + 1 < j PROVE FALSE
  <2>1. i + 1 \in DOMAIN read
    BY <1>1, <1>3 DEF InOrder
  <2>2. TurnBefore(read[i], read[i + 1]) /\ TurnBefore(read[i + 1], read[j])
    BY <1>1, <1>3, <2>1 DEF InOrder
  <2> QED
    BY <1>1, <2>1, <2>2 DEF Partners, TurnBefore
<1> QED
  BY <1>1, <1>2, <1>3

\* Odd and even positions alternate.
LEMMA OddAndEven ==
  ASSUME NEW i \in Nat, i > 0
  PROVE  (i - 1) % 2 = 1 <=> ~(i % 2 = 1)
<1>1. PICK k \in Nat : i = 2 * k \/ i = 2 * k + 1
  <2>1. i \div 2 \in Nat /\ (i = 2 * (i \div 2) \/ i = 2 * (i \div 2) + 1)
    OBVIOUS
  <2> QED
    BY <2>1
<1> QED
  BY <1>1

\* A topic is read as question and answer in turn: otherwise take the first
\* position that is wrong; the turn there and the one before it each have a
\* neighbour as a partner.
LEMMA TopicsReadInPairs == TopicsIInv /\ TopicsStart => AnswersFollowTheirQuestion
<1> SUFFICES ASSUME TopicsIInv, TopicsStart, NEW t \in topics
             PROVE  \A i \in DOMAIN ReadingOrder(t.id) :
                       /\ ReadingOrder(t.id)[i].role = "user" <=> i % 2 = 1
                       /\ ReadingOrder(t.id)[i].role = "assistant" =>
                             ReadingOrder(t.id)[i].asked = ReadingOrder(t.id)[i - 1].asked
                       /\ i > 1 => ReadingOrder(t.id)[1].id < ReadingOrder(t.id)[i].id
  BY DEF AnswersFollowTheirQuestion
<1> DEFINE read == ReadingOrder(t.id)
           S == TurnsOf(t.id)
           n == Cardinality(S)
<1>1. InOrder(read, S)
  BY ReadingIsInOrder
<1> HIDE DEF read
<1>2. /\ n \in Nat /\ DOMAIN read = 1..n
      /\ \A i \in 1..n : /\ read[i] \in turns /\ read[i].topic = t.id
                         /\ read[i].role \in {"user", "assistant"}
                         /\ read[i].id \in Nat /\ read[i].stamp \in Nat
  BY <1>1, TopicParams DEF InOrder, TurnsOf, TopicsIInv, TopicsTypeOK, Turn
<1>3. ASSUME NEW i \in 1..n, read[i].role = "user"
      PROVE  i + 1 \in 1..n /\ read[i + 1].role = "assistant"
  <2>1. PICK y \in turns : Partners(read[i], y)
    BY <1>2, <1>3 DEF TopicsIInv, TurnsArePaired
  <2>2. PICK j \in 1..n : read[j] = y
    BY <1>1, <1>2, <2>1 DEF Partners, InOrder, TurnsOf
  <2>3. j = i + 1
    BY <1>1, <1>2, <2>1, <2>2, PartnersAreNeighbours
  <2> QED
    BY <2>1, <2>2, <2>3 DEF Partners
<1>4. ASSUME NEW i \in 1..n, read[i].role = "assistant"
      PROVE  i - 1 \in 1..n /\ read[i - 1].role = "user" /\ read[i].asked = read[i - 1].asked
  <2>1. PICK x \in turns : Partners(x, read[i])
    BY <1>2, <1>4 DEF TopicsIInv, TurnsArePaired
  <2>2. PICK j \in 1..n : read[j] = x
    BY <1>1, <1>2, <2>1 DEF Partners, InOrder, TurnsOf
  <2>3. i = j + 1
    BY <1>1, <1>2, <2>1, <2>2, PartnersAreNeighbours
  <2>4. j = i - 1
    BY <1>2, <2>3
  <2> QED
    BY <2>1, <2>2, <2>4 DEF Partners
<1>5. \A i \in 1..n : read[i].role = "user" <=> i % 2 = 1
  <2> DEFINE Odd == {i \in 1..n : ~(read[i].role = "user" <=> i % 2 = 1)}
  <2> SUFFICES ASSUME Odd # {}
               PROVE  FALSE
    OBVIOUS
  <2>1. Odd \in SUBSET Nat
    BY <1>2
  <2>2. PICK i \in Odd : \A m \in Odd : i <= m
    <3> HIDE DEF Odd
    <3> QED
      BY <2>1, SmallestNat
  <2>3. i \in 1..n /\ i - 1 \notin Odd
    BY <1>2, <2>2
  <2>4. CASE i = 1
    BY <1>2, <1>4, <2>2, <2>3, <2>4
  <2>5. CASE i > 1
    <3>1. /\ i - 1 \in 1..n
          /\ ((i - 1) % 2 = 1 <=> ~(i % 2 = 1))
      <4>1. i \in Nat /\ i > 0 /\ i - 1 \in 1..n
        BY <1>2, <2>3, <2>5
      <4> QED
        BY <4>1, OddAndEven
    <3>2. read[i - 1].role = "user" <=> (i - 1) % 2 = 1
      BY <1>2, <2>3, <2>5
    <3>3. read[i - 1].role = "user" => read[i].role = "assistant"
      <4>1. i - 1 \in 1..n /\ i - 1 + 1 = i
        BY <1>2, <2>3, <2>5
      <4> QED
        BY <1>3, <4>1
    <3>4. read[i].role = "assistant" => read[i - 1].role = "user"
      BY <1>4, <2>3
    <3>5. read[i].role \in {"user", "assistant"}
      BY <1>2, <2>3
    <3> QED
      BY <2>2, <3>1, <3>2, <3>3, <3>4, <3>5
  <2> QED
    BY <1>2, <2>3, <2>4, <2>5
<1>6. ASSUME NEW i \in 1..n, i > 1
      PROVE  read[1].id < read[i].id
  <2>1. PICK x \in turns : IsFirst(x, t.id)
    BY DEF TopicsStart
  <2>2. PICK k \in 1..n : read[k] = x
    BY <1>1, <1>2, <2>1 DEF IsFirst, InOrder, TurnsOf
  <2>3. 1 \in 1..n
    BY <1>2, <1>6
  <2>4. k = 1
    <3>1. ~TurnBefore(read[1], read[k])
      BY <1>2, <2>1, <2>2, <2>3 DEF IsFirst, TurnBefore
    <3> QED
      BY <1>1, <1>2, <2>3, <3>1 DEF InOrder
  <2>5. read[1].id <= read[i].id /\ read[1] # read[i]
    <3>1. TurnBefore(read[1], read[i])
      BY <1>1, <1>2, <1>6, <2>3 DEF InOrder
    <3> QED
      BY <1>2, <2>1, <2>2, <2>3, <2>4, <3>1 DEF IsFirst, TurnBefore
  <2> QED
    BY <1>2, <2>3, <2>5 DEF TopicsIInv, TurnsArePaired
<1> QED
  BY <1>2, <1>4, <1>5, <1>6 DEF read

\* In every state of the topics each has a first turn, older than the others
\* and than any question waiting for its answer, though turns are read in the
\* order of their time and inserted in another one.
THEOREM TopicsStartAlways == TopicsSpec => [](TopicsIInv /\ TopicsStart)
<1>1. TopicsInit => TopicsStart
  BY TopicsStartInit
<1>2. TopicsIInv /\ TopicsStart /\ [TopicsNext]_topicVars => TopicsStart'
  <2> SUFFICES ASSUME TopicsIInv, TopicsStart, [TopicsNext]_topicVars
               PROVE  TopicsStart'
    OBVIOUS
  <2>1. CASE \/ TopicTick
             \/ \E k \in Commenters : InsertComment(k) \/ \E p \in posts : FindOpenPost(k, p)
             \/ \E t \in topics, visibility \in TopicVisibilities : SetTopicVisibility(t, visibility)
    BY <2>1, OthersKeepTopicsStart
  <2>2. ASSUME NEW c \in Chatters,
               \/ \E t \in topics : ReadTopic(c, t.id)
               \/ AnswerQuestion(c) \/ StartChat(c) \/ InsertChat(c) \/ QuestionFails(c)
               \/ InsertUserTurn(c) \/ InsertAssistantTurn(c)
        PROVE  TopicsStart'
    BY <2>2, AskingKeepsTopicsStart, InsertChatKeepsTopicsStart, AssistantKeepsTopicsStart
  <2>3. ASSUME NEW seeded \in BOOLEAN, NEW stamp \in 0..now, RebuildTopics(seeded, stamp)
        PROVE  TopicsStart'
    BY <2>3, RebuildKeepsTopicsStart
  <2>4. CASE UNCHANGED topicVars
    BY <2>4 DEF topicVars, TopicsStart, IsFirst
  <2> QED
    BY <2>1, <2>2, <2>3, <2>4 DEF TopicsNext
<1> QED
  BY <1>1, <1>2, TopicsInductive, PTL DEF TopicsSpec

\* A chat reads as it was held, for any number of users asking at the same
\* time: question and answer alternate, every answer follows the question it
\* was made for, and the first turn stays the first.
THEOREM ChatsReadInPairs == TopicsSpec => []AnswersFollowTheirQuestion
  BY TopicsStartAlways, TopicsReadInPairs, PTL

=============================================================================
