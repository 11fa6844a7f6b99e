\* Signup: two requests at a time, two codes per budget window, provider calls
\* that end before the cooldown does.  Password: three links and two sessions;
\* a link outlives one instant, a session three.  Phones: two users and two
\* numbers, two links per budget window.  Network: two members, two requests,
\* two saves of four forms, one message.  Feed: one post, two calls at a time,
\* three in all, a stored message that is redelivered.
SPECIFICATION MCSpec
CONSTANTS
  Requests = {r1, r2}
  Cooldown = 2
  OtpLifetime = 2
  FlowTokenLifetime = 3
  SendBudgetWindow = 5
  MaxSendsPerWindow = 2
  MaxVerifyAttempts = 2
  Lockout = 2
  ProviderTimeout = 1
  MaxChallenges = 2
  MaxCodes = 3
  MaxWrongGuesses = 1
  Passwords = {pw1, pw2}
  Logins = {l1, l2}
  LinkLifetime = 1
  SessionLifetime = 3
  TouchInterval = 1
  Window = 2
  MaxLogins = 2
  MaxResets = 1
  MaxLinks = 3
  MaxSessions = 2
  Users = {u1, u2}
  Numbers = {n1, n2}
  PhoneLinkLifetime = 1
  PhoneCooldown = 1
  PhoneBudgetWindow = 2
  MaxPhoneSends = 2
  MaxTokens = 3
  MaxTime = 7
  ShortTime = 3
  Members = {1, 2}
  Forms <- MCForms
  Tongues = {"en", "es"}
  Tabs = {p1, p2}
  MaxSaves = 2
  MaxDms = 1
  Calls = {c1, c2}
  Kinds = {"repost", "view"}
  Sources = {m1}
  MaxPosts = 1
  MaxCalls = 3
INVARIANTS
  NewestMailWorks
  CooldownAndBudgetTellOfMails
  LinksWorkOnce
  SessionsEndWithTheirPassword
  VerifiedPhonesAgree
  ThreadsWereWelcome
  MessagesSpeakAChosenLanguage
  FeedAnswersAgree
PROPERTIES
  ConsumedIsFinal
CHECK_DEADLOCK FALSE
