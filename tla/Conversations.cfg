\* Inbound: two users for the address, two deliveries handled at a time, two
\* failures, one repeated delivery.  Files: two requests, four keys.  Analysis:
\* two overlapping runs, two trades, one run lost.  Trade chats: two traders and
\* the owner, two calls, a message of each.  Chats and forum: two requests,
\* one comment, two topics, three questions, two milliseconds.
SPECIFICATION MCSpec
CONSTANTS
  Senders = {u1, u2}
  Handlers = {h1, h2}
  MaxFailures = 2
  MaxDuplicates = 1
  FileRequests = {f1, f2}
  MaxObjects = 4
  MaxFiles = 2
  cocoa = cocoa
  ana = ana
  Trades = {t1, t2}
  Requests = {r1}
  Materials = {cocoa}
  NoKey = NoKey
  Recipients = {ana}
  Interests <- MCInterests
  Reachable <- MCReachable
  Projections <- MCProjections
  Edits <- MCEdits
  MaxVersions = 2
  MaxCuts = 0
  Attempts = {a, b}
  MaxRuns = 2
  MaxLost = 1
  Chatters = {q1, q2}
  Commenters = {m1}
  MaxTopics = 2
  MaxTurns = 6
  MaxClock = 1
  Owner = owner
  Counterparties = {c1, c2}
  WithPhone = {owner}
  ByEmail = {owner}
  ByWhatsApp = {c1}
  Calls = {k1, k2}
  MaxSaid = 1
  MaxStamp = 1
INVARIANTS
  ConversationsTakeItOnce
  AuthorsAreVerified
  BucketAndRowsAgree
  TradesFollowTheirMessage
  ChatsStayBetweenTwo
  AnswersFollowTheirQuestion
  ForumShowsWhatIsShared
PROPERTIES
  SettledIsFinal
  EmailsSettle
  ProcessingEnds
CHECK_DEADLOCK FALSE
