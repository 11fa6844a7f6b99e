-------------------------------- MODULE Feed --------------------------------
(***************************************************************************)
(* The feed of the network: posts, one level of replies, and one row per   *)
(* post and reader for a like, a repost, a bookmark and the opened views.  *)
(* An answer is read in two statements, each with a snapshot of its own.   *)
(***************************************************************************)
EXTENDS Network

CONSTANTS
    Calls,          \* requests at the same time
    Kinds,          \* kinds of rows a reader writes, of FeedKinds
    Sources,        \* stored messages a reply may come from, each one redelivered
    MaxPosts,       \* bound: posts, within the ten of a profile
    MaxCalls        \* bound: requests

FeedKinds == {"like", "repost", "bookmark", "view"}
Scopes == {"following", "bookmarks", "all"}
FromApp == "app"

ASSUME FeedAssumption ==
    /\ Kinds \subseteq FeedKinds /\ "view" \in Kinds
    /\ MaxPosts \in 0..10 /\ MaxCalls \in Nat
    /\ FromApp \notin Sources

VARIABLES
    posts,          \* the author of each post; all of them are active and public
    replies,        \* rows of stephen_dcx_network_feed_replies
    reactions,           \* <<kind, post, user>> |-> 1 or 0, or the number of views
    call,           \* the transaction of each request
    answer,         \* history: the last answer given
    opens,          \* history: <<post, user>> |-> answered requests to open
    calls           \* history: requests made

feed == <<posts, replies, reactions, call, answer, opens, calls>>

Posts == DOMAIN posts
NoCall == [step |-> "idle", kind |-> "none", user |-> 0, keys |-> {}, value |-> 0,
           reply |-> {}, counted |-> <<>>]
NoAnswer == [kind |-> "none", counted |-> <<>>, listed |-> <<>>]

FeedTypeOK ==
    /\ posts \in Seq(Members) /\ Len(posts) <= MaxPosts
    /\ \A r \in replies : r.post \in Posts /\ r.author \in Members
    /\ DOMAIN reactions \subseteq Kinds \X Posts \X Members
    /\ \A c \in Calls : call[c].step \in {"idle", "read", "list"}
    /\ calls \in 0..MaxCalls

FeedInit ==
    /\ posts = <<>> /\ replies = {} /\ reactions = <<>> /\ opens = <<>>
    /\ call = [c \in Calls |-> NoCall]
    /\ answer = NoAnswer
    /\ calls = 0

At(c, step) == call[c].step = step
Value(key) == IF key \in DOMAIN reactions THEN reactions[key] ELSE 0
Put(f, key, value) == [k \in DOMAIN f \cup {key} |-> IF k = key THEN value ELSE f[k]]

-----------------------------------------------------------------------------
(* Locks                                                                    *)

Bug_PostNotLocked(p) == FALSE

\* A reply holds the row of its post until it commits.
PostLocked(p) ==
    \E c \in Calls : ~At(c, "idle") /\ call[c].kind = "reply" /\ \E k \in call[c].keys : k[2] = p

\* An upsert holds its row, and a new row also a key share of the post.
RowLocked(key) == \E c \in Calls : key \in call[c].keys
PostShared(p) ==
    \E c \in Calls : \E k \in call[c].keys :
        call[c].kind # "reply" /\ k[2] = p /\ k \notin DOMAIN reactions

-----------------------------------------------------------------------------
(* What is read                                                             *)

\* The posts a profile shows, ten at the most.
PostsBy(author) == {p \in Posts : posts[p] = author}

\* The posts of a scope: own ones, those of followed authors, and what the reader
\* or somebody followed reposts.
FollowedBy(u) == {v \in Members : v = u \/ <<u, v>> \in follows}
PostsIn(scope, u) ==
    CASE scope = "all" -> Posts
      [] scope = "profile" -> PostsBy(u)
      [] scope = "bookmarks" -> {p \in Posts : Value(<<"bookmark", p, u>>) = 1}
      [] scope = "following" ->
            {p \in Posts : posts[p] \in FollowedBy(u)
                           \/ \E v \in FollowedBy(u) : Value(<<"repost", p, v>>) = 1}

\* A transaction sees what is committed and what it has written.
RepliesSeen(c, p) == {r \in replies \cup call[c].reply : r.post = p}
CountReplies(c, shown) == [p \in shown |-> Cardinality(RepliesSeen(c, p))]

-----------------------------------------------------------------------------
(* Requests.  A post is always visible: no code withdraws or hides one.     *)

\* The text has passed the content policy and the file is stored.
CreatePost(u) ==
    /\ calls < MaxCalls /\ Len(posts) < MaxPosts
    /\ settings[u].nickname # NoNickname
    /\ posts' = Append(posts, u)
    /\ calls' = calls + 1
    /\ UNCHANGED <<replies, reactions, call, answer, opens>>

Begins(c, kind, user, keys, value, reply) ==
    /\ At(c, "idle")
    /\ calls < MaxCalls
    /\ calls' = calls + 1
    /\ call' = [call EXCEPT ![c] = [NoCall EXCEPT !.step = "read", !.kind = kind, !.user = user,
                                       !.keys = keys, !.value = value, !.reply = reply]]
    /\ UNCHANGED <<posts, replies, reactions, answer, opens>>

\* INSERT ... ON CONFLICT DO UPDATE: the last of two writers wins.
MayUpsert(key) == ~RowLocked(key) /\ (key \in DOMAIN reactions \/ ~PostLocked(key[2]))

SetAction(c, kind, u, p, on) ==
    LET key == <<kind, p, u>>
    IN  /\ kind # "view"
        /\ MayUpsert(key)
        /\ Begins(c, kind, u, {key}, IF on THEN 1 ELSE 0, {})

\* The count is incremented in the statement, in the row it has locked.
OpenPost(c, u, p) ==
    LET key == <<"view", p, u>>
    IN  /\ MayUpsert(key)
        /\ Begins(c, "view", u, {key}, Value(key) + 1, {})

\* A reply made from the same stored message before is not made again.
ReplyRow(u, p, source) ==
    IF source # FromApp /\ \E r \in replies : r.post = p /\ r.author = u /\ r.source = source
    THEN {}
    ELSE {[post |-> p, author |-> u, nr |-> Cardinality(replies), source |-> source]}

Reply(c, u, p, source) ==
    /\ settings[u].nickname # NoNickname
    /\ ~PostLocked(p) /\ ~PostShared(p)
    /\ Begins(c, "reply", u, {<<"reply", p, u>>}, 0, ReplyRow(u, p, source))

ReadFeed(c, u, scope) == Begins(c, scope, u, {}, 0, {})

\* The nickname is looked up first, also one's own; what is read then is of the
\* user it led to.
ProfileNamed(nickname) ==
    {v \in Members : settings[v].nickname = nickname /\ nickname # NoNickname}

ReadProfile(c, nickname) ==
    \E v \in ProfileNamed(nickname) : Begins(c, "profile", v, {}, 0, {})

Shown(c) ==
    IF call[c].kind \in Scopes \cup {"profile"} THEN PostsIn(call[c].kind, call[c].user)
    ELSE {k[2] : k \in call[c].keys}

\* The posts, and with each the number of its replies.
ReadPosts(c) ==
    /\ At(c, "read")
    /\ call' = [call EXCEPT ![c].step = "list", ![c].counted = CountReplies(c, Shown(c))]
    /\ UNCHANGED <<posts, replies, reactions, answer, opens, calls>>

\* The replies themselves; then what the request has written is committed.
AnswerCall(c) ==
    LET key == CHOOSE k \in call[c].keys : TRUE
        viewed == <<key[2], key[3]>>
    IN  /\ At(c, "list")
        /\ answer' = [kind |-> call[c].kind, counted |-> call[c].counted,
                      listed |-> CountReplies(c, DOMAIN call[c].counted)]
        /\ replies' = replies \cup call[c].reply
        /\ reactions' = IF call[c].kind \in FeedKinds THEN Put(reactions, key, call[c].value) ELSE reactions
        /\ opens' = IF call[c].kind # "view" THEN opens
                    ELSE Put(opens, viewed, IF viewed \in DOMAIN opens THEN opens[viewed] + 1 ELSE 1)
        /\ call' = [call EXCEPT ![c] = NoCall]
        /\ UNCHANGED <<posts, calls>>

\* A failed statement, or a process that died: rolled back.
CallFails(c) ==
    /\ ~At(c, "idle")
    /\ call' = [call EXCEPT ![c] = NoCall]
    /\ UNCHANGED <<posts, replies, reactions, answer, opens, calls>>

FeedNext ==
    \/ \E u \in Members : CreatePost(u)
    \/ \E c \in Calls :
        \/ \E u \in Members, p \in Posts :
            \/ \E kind \in Kinds, on \in BOOLEAN : SetAction(c, kind, u, p, on)
            \/ OpenPost(c, u, p)
            \/ \E source \in Sources \cup {FromApp} : Reply(c, u, p, source)
        \/ \E u \in Members, scope \in Scopes : ReadFeed(c, u, scope)
        \/ \E form \in Forms : ReadProfile(c, form.nickname)
        \/ ReadPosts(c) \/ AnswerCall(c) \/ CallFails(c)

FeedSpec == FeedInit /\ [][FeedNext]_feed

-----------------------------------------------------------------------------
(* What the feed answers fits together although it is read in two           *)
(* statements: it never lists fewer replies than it counts, and the answer  *)
(* to a reply, given under the lock of the post, lists as many as it        *)
(* counts.  Every answered opening is in the view counts, of readers with   *)
(* two requests too, and a redelivered message replies once.                *)
FeedAnswersAgree ==
    /\ \A p \in DOMAIN answer.counted : answer.counted[p] <= answer.listed[p]
    /\ answer.kind = "reply" => answer.counted = answer.listed
    /\ \A p \in Posts, u \in Members :
          Value(<<"view", p, u>>) = IF <<p, u>> \in DOMAIN opens THEN opens[<<p, u>>] ELSE 0
    /\ \A r, s \in replies :
          r.post = s.post /\ r.author = s.author /\ r.source = s.source /\ r.source # FromApp
          => r = s
=============================================================================
