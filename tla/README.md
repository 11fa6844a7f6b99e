# Verification of dcx-api

TLA+ models of the parts of `dcx-api` in which several requests, workers or
providers meet over one database: who is mailed, which code or link is valid, who
holds a number, which version of a text or a trade is the live one, who reads a
conversation and how often a message ends up in it. The modules are checked with
TLC on small instances. Every safety invariant and every safety property of steps is
also proved with TLAPS for all values of the constants, as are the refinements of the
two abstract specifications; liveness is only model-checked. `PROJECT.json` maps each
definition to the source lines it stands for.

## 1. The system

`dcx-api` is a FastAPI service over PostgreSQL (psycopg2), with two loops, a few
cron routes, and four providers: Resend (mail), Meta (WhatsApp), Gemini (text) and
an object store. There is no queue and no cache: all state is in tables, and every
operation is one or more blocks `with connect(**DB_CONFIG) as connection`. Such a
block is a READ COMMITTED transaction that commits on a normal exit or a `return`
and **rolls back when an exception leaves it**. This shapes all the models:

- a function that calls a provider *inside* a block holds its row locks and keeps
  its writes private for the length of the call (dispatch of a send, persisting an
  analysis, a direct message);
- a function that calls a provider *between* blocks acts afterwards on what it read
  before (signup, phone links, translation jobs, analyses, alerts, AI chats);
- writes made just before a `raise` inside a block are lost;
- each statement reads what is committed when it starts, so an answer put together
  from two statements is of two moments;
- a `FOR UPDATE` that waited evaluates its conditions again on the new row, which is
  why a request may find nothing; and it conflicts with the key share lock that a
  foreign key takes.

A module therefore has one action per transaction (or per statement, where another
request can come between two of them) and one per provider call, and keeps in a
`request`, `handler` or `worker` record what a running operation has read.

### Components

| component | state | operations | interacts with |
|---|---|---|---|
| newsletter sends | sends, recipient rows | prepare, cancel, dispatch (loop and cron) | Resend; suppressions at preparation |
| Resend webhook, suppressions | recipient status, suppressions | four events, ignored events | rows the dispatch committed |
| preferences, unsubscribe | e-mail preference, suppressions | save, three kinds of unsubscription | read by preparation |
| e-mail sequences | sequences, steps, enrolments | draft, save, arm, launch what is due | creates sends |
| signup by code | challenges, user, contact, identity | create, refresh, reuse, resend, verify, recover | Resend |
| password, login, sessions | links, password, sessions, rate counters | reset, set-up, set, login, read, log out | Resend |
| phone link | numbers, link challenges, identities | prepare, send, mark, verify, primary, remove | WhatsApp; authors of messages |
| network | settings, follows, threads, messages | save settings, follow, start, append, list | Gemini (translation) |
| feed | posts, replies, likes, views | post, reply, react, open, read pages | network settings |
| inbound messages | message row, marks | resolve, store, route five kinds, notify, analyse | Resend, Meta; all conversations |
| files | objects and their rows | put, insert, delete, for three flows | object store |
| message analysis | message, items, its trades and topics | first run, redelivery, retry | Gemini; deletes and creates trades |
| trades and alerts | trade, versions, publication, deliveries | confirm, reject, edit, visibility, alert round | Resend, WhatsApp; analysis |
| trade chats | threads, messages, routes | start, append, reply from outside, notify | Gemini, Resend, WhatsApp; analysis |
| market topics, forum | topics, turns, posts, comments | ask, new chat, visibility, comment, rebuild | Gemini; analysis |
| content | row versions, publication status | draft, translate, save, publish, archive | translation jobs store into the same rows; public site |
| translation jobs | jobs, live rows of content | enqueue, claim, check, store, usage, fail | Gemini; content |
| public site | publish state | publish, rebuilt locally, status, build | deploy hook; content |
| tracker | work items, updates | create, move, archive, update | - |

The full list with the status of each is in `PROJECT.json` under `components`.

### What is hard to test

`PROJECT.json` lists 40 hazards, each at its line. They fall into a few shapes:

- **A provider call and what was read before it**: signup and its recovery, phone
  links marked late, translations of a source that changes, a model answer about
  older turns, alerts about a trade that moves. Correct: what is stored afterwards
  belongs to what it was made from, and no later request is overwritten.
- **A look-up and a write that only a lock or an index joins, or nothing at all**:
  dispatch workers, alert rounds, numbers, nicknames, drafts and translations of one
  text, redelivered messages, parents in the tracker. Correct: one of them wins,
  everywhere the same.
- **Something that happens twice**: webhook events, redelivered messages, retried
  analyses, scheduler runs, clicks on a link. Correct: it counts once.
- **A step that fails or dies between two others**: a rolled back dispatch, a put
  without a row, an alert round cut off, a mail that did not leave. Correct: what is
  left says what happened, and what is waiting ends.
- **A page read in pieces**: feed, chats, forum, catalogues, the account page.
  Correct: the pieces fit together.

## 2. Modules

| module | models | correspondence |
|---|---|---|
| `DeliveryPromise` | abstract: what a send promises | phases absent, scheduled, attempted, settled, cancelled; who was tried in the attempt |
| `AlertPromise` | abstract: what the alerts about trades promise | `offers` trades that were on offer; `report` what is on record of a trade, a user and a material; `messages` what reached the user |
| `EmailSends` | sends, dispatch, webhook, preferences | `send`, `recipient` are the committed tables; `claimed` the `SKIP LOCKED`; `draft`, `todo` uncommitted writes and chunks to come; `copies` what Resend accepted |
| `EmailSequences` | sequences, steps, the scheduler | `launcher` is a run with the sequence it holds locked; `launched` the sends it made |
| `ApiClock` | the clock of the three modules of an account | `now` |
| `SignupOtp` | challenges and account rows of one address | `request` a route between its transactions, with the values it read; `inbox` mails accepted; `AfterRaise` the rollback of a raising handler |
| `PasswordAccess` | links, password, sessions, rate counters of one account | `outbox` links committed and not mailed yet; `verified` logins between their two transactions |
| `PhoneLink` | numbers of users | `preparing` what a preparation has read of others; `outgoing` a delivery before its mark |
| `Network` | settings, follows, direct messages | `tab` a request between look-up and write; `chosen`, `welcomed` history |
| `Feed` | EXTENDS `Network`: posts, reactions, pages | `call` the open transaction of a request with the rows it holds; `answer` the last page given |
| `InboundMessages` | one message and its deliveries | `handler` a delivery and its next step; `target` what the reference code leads to |
| `FileObjects` | objects in the bucket and their rows | `strays`, `unknown` name what a crash or a lost answer leaves |
| `Trades` | trades of one owner and alert rounds | `trade` with versions, terms, publication; `delivery` the alert rows; `req` a request waiting or in its round |
| `MessageTrades` | EXTENDS `Trades`: a message and its analyses | `attempt` a run between claim and persist; `Persist` deletes and recreates trades |
| `TradeChats` | chats about one trade | `routes` the rows that say how a participant is told; `told` notices taken by a provider |
| `MarketTopics` | AI chats, forum posts, comments | turns carry the stamp taken before the lock; `ReadingOrder` is the readers' ORDER BY |
| `ContentTables` | what the content tables share | rows are retired and followed by others |
| `ContentVersions` | pages, categories, e-mails, newsletters, UX strings; who writes them: administrators and the store of an AI translation | `request` holds the locks of a writer's transaction and the rows it will write; `raced` history of overlapping translations |
| `TranslationJobs` | one page, its translations and jobs | `job` the table per language; `worker` a job between its transactions; `overtaken` history of saves under a job |
| `PublicSite` | EXTENDS `ContentVersions`: publish requests, builds | the number of rows is the clock; `builds` hook calls that have not read yet |
| `Tracker` | work items and updates | `saving` an open save that holds its row |
| `FiniteOrders` | facts of finite sets in an order, of natural numbers | cited by the proofs, see section 5 |
| `EmailSends_proofs`, `Accounts_proofs` (signup, password, phone), `Network_proofs` (with the feed), `Background_proofs` (trades, analysis, translation jobs), `Messages_proofs` (inbound, files, trade chats), `MarketTopics_proofs`, `AdminContent_proofs` (sequences, tracker, content, public site) | inductive invariants, the refinement, theorems | section 5 |

`EmailSends` puts the operations of three components together because they share
rows; `MessageTrades` composes analysis with all actions of `Trades`, `PublicSite`
with all of `ContentVersions`, `Feed` with the nicknames and follows of `Network`.
The other modules are only run side by side: the MC modules choose a *scene* in the
initial state and step one module in it. A scene adds no behaviour of a module and
takes none away, beyond the bounds it names.

Two modules that are not composed write the same tables: `ContentVersions` and
`TranslationJobs` both store the translation that a model answered. The first has who
else writes these rows and under which locks, and any worker may store any result;
the second has the jobs, their order and the labels that readers derive from them, and
other writers of a page only as its steps of saving and publishing. Neither says
anything of the other's half.

### Notes on single modules

- *EmailSends.* One dispatch is one transaction around all provider calls, so a
  rollback after an accepted call mails again; `CopiesPerAttempt` counts this
  precisely. An accepted mail always has a message id here, where the code stores what
  the answer holds. The statement of the unsubscribe handler locks the nullable side of an
  outer join, which PostgreSQL refuses; the model keeps the writes it intends.
- *EmailSequences.* The promise is about a step *as it was saved*: a save deletes and
  inserts the steps, so a sequence that is saved and armed again sends again.
  Switching a launched sequence off does not stop later steps, and a form that was
  opened before a launch arms it again; the model has both.
- *SignupOtp.* A provider call and its recovery end within `ProviderTimeout`. That it
  is less than `Cooldown` is the assumption `ProviderAssumption`: the mail client gives
  up after half a minute, the cooldown of the support module lasts a whole one. With a
  longer call `NewestMailWorks` would fail through a recovery that writes back stale
  values. `CooldownAndBudgetTellOfMails` is about every mail that reached the address
  in the window, whether or not Resend's answer came back. One kind of mail is not in
  the count, and the property says so: a call that failed although the mail arrived,
  once the recovery has put the counter back (history `forgiven`).
- *PasswordAccess.* The race of a login with a new password is in the model and in the
  comment of `SessionsEndWithTheirPassword`: the session of the old password may be
  inserted after the others were revoked, and no property covers that. A reset mail
  that fails kills the link before it, as the route replaces the row first.
- *PhoneLink.* Both users of a number may have prepared it before either verifies.
  What the account page lists is computed as the reader does. The routes of a
  numeric code have no caller left and are not modelled.
- *Network.* A save of the settings is checked, written and committed in three
  steps. Whether a member accepts messages is read when a thread is started and never
  again. A nickname is looked up before the write, so a request may reach the member
  who has it now; the properties speak of users, not of names.
- *Feed.* Post states other than active are set by no code and left out. A page reads
  posts and counts in one statement and replies in another. The follow steps of
  `Network` interleave with it. A profile shows ten posts, which `MaxPosts` respects.
- *InboundMessages.* Resend is answered at the end, so a failure brings the message
  again; Meta is answered first, so a failure or a restart loses it, and liveness is
  stated of e-mail only. A message that makes its append raise every time (prohibited
  text in an AI chat, no nickname in the feed) is posted for ever: `MayRaiseForEver`
  excepts it. The routers of trade chats and AI chats look for a copy in one
  transaction and append in another, so overlapping deliveries append twice.
  `ConversationsTakeItOnce` bounds this by the overlaps that happened (history
  `overlaps`); that there are two copies at all contradicts the router's docstring
  (`DuplicatesConverge`, violated).
- *Trades.* `Found` is the lock with its join evaluated again: a request that waited
  while another one replaced the version gets "not found". A round reads the trade
  once; a recipient may hear of a trade that was withdrawn meanwhile. Rejecting
  leaves the publication as it is, and edits may set both statuses.
- *MessageTrades.* A retry of a message whose classification is *partial* deletes
  every trade of the message, also confirmed and published ones, with chats and
  deliveries, and creates others under new ids. Only settled messages are claimed to
  be safe. Job, run and attachment rows mirror the verdict and are left out.
- *TradeChats.* The languages of the two are fixed. `RebuildTrade` is the analysis
  that deletes a trade with its chats. `MaxSaid` bounds messages begun by calls; calls
  in flight may add one each.
- *MarketTopics.* A comment may land on a post that is withdrawn meanwhile; the forum
  does not show it then. Rebuilding deletes shared topics with their posts and other
  users' comments.
- *ContentVersions.* The check of a slug takes no lock, so two saves may share one.
  Two *drafts* of one name get different keys by the advisory lock, but two categories
  made at once share a key, and then both are originals of one name. An administrator's
  translation takes an advisory lock; the store of an AI translation takes none, and
  inserts a row when its locking statement finds no live one. So a text may get two
  live translations into one language. `ContentHasOneHistory` says when it may: only if
  a store overlapped another writer of the same
  translation, or replaced one of several originals of a name and made it a
  translation (history `raced`). Administrators alone never get there, and no edit is
  lost behind another, whoever writes.
- *TranslationJobs.* The source is checked when the job is claimed and again in the
  transaction that stores. `LabelsAreTrue` needs the second check: history `overtaken`
  names the jobs under which the source was saved, and none of them is completed.
  `MarkFailed` also overwrites `completed`, as the exception handler does when the
  usage link raises. A worker that dies leaves `processing`.
- *PublicSite.* A build reads some time after the hook; whether it succeeds is never
  known to the API. The property therefore speaks of the last build that succeeded.
  An archived page is not counted as a change, by the reader's status test; the
  property is about rows that are public. The time of a row is the order of commits
  here; the code stamps `updated_at` by the statement, a moment earlier.
- *Tracker.* The descendants query and the UPDATE are two steps, with the foreign
  key's lock between them.

## 3. Runs

| run | scenes and instance | shows |
|---|---|---|
| `emails` | *dispatch*: 2 workers, 2 users, 2 sends, chunk of 1, a rollback per send. *webhook*: 1 recipient, every event in any order and number, preferences | copies per attempt, skipped rows, send and rows agree, refinement of `DeliveryPromise`, due sends settle; reports are true, bounces and complaints silence the address |
| `accounts` | *signup*: 2 requests, 3 codes, 7 instants. *password*: 3 links, 2 logins, 2 sessions. *phone*: 2 users, 2 numbers, 3 links. *network*: 2 members, 2 requests, 2 saves of 4 forms, 1 message. *feed*: 1 post, 2 overlapping calls, 3 in all | which mail and link work, what a password ends, who holds a number, who may write to whom in which language, pages that fit together |
| `background` | *trades*: 2 requests, 3 versions, 2 interested users, a cut round. *jobs*: 2 workers, 2 jobs, a source that changes and changes back, a crash | one live version, alerts told once and truly and to all, refinement of `AlertPromise`, labels, order and publication of translations, ends |
| `conversations` | *inbound*: 2 users of an address, 2 handlers, 2 failures, a duplicate. *files*: 2 requests, 4 keys. *analysis*: 2 overlapping runs, 2 trades, one lost. *trade_chats*: owner and 2 traders, 2 calls. *chats*, *forum*: 2 requests, 2 topics, 3 questions | messages taken once by their verified author, bucket and rows, trades of one run, chats of two, questions with their answers, forum equal to what is shared, ends |
| `admin_content` | *content*: 2 editors, 5 rows. *stores*: 2 editors and a translation worker, 4 rows. *site*: 2 publish requests, 4 rows. *sequences*: 2 scheduler runs, 4 steps. *tracker*: 2 saves, 3 items | one history of every text, no hidden change of the site, a saved step sent once, no mutual parents |
| `email_lost_complaint` | 1 user, 1 send | **violated**: an event before the commit is answered and lost |
| `signup_attempts` | 1 request, 3 attempts | **violated**: the lockout is rolled back |
| `translation_stale` | 1 worker, 1 job | **violated**: a published copy is not shown as stale |
| `message_overlap` | 2 runs | **violated**: a slower failing run undoes a finished one |
| `chat_order` | 2 calls, 2 milliseconds | **violated**: a message appears above one already read |
| `tracker_cycle` | 3 items, 2 saves | **violated**: two saves close a cycle of three |
| `conversation_duplicates` | 2 deliveries | **violated**: overlapping deliveries are appended twice |

Every property of a passing run has a mutant in `PROJECT.json`: a variant `Bug_*` of
a mapped definition, in the module beside it, under which TLC finds the property
violated. Every module states a type invariant, which section 5 proves; no run spends
a property on one.

### Why these bounds are enough

Every race in this code is between two actors over one row (a worker and another, a
request and a recovery, a save and a launch), and every bound admits two of each with
one more object than they hold. Two sends let a suppression come between them; a chunk
of one makes "one of several fails" happen with two users; three codes and three links
let a request follow a refresh; two nicknames and two members let a name move; two
saves over two texts let a source change and change back; three versions let two
requests replace one after the other; two handlers, two failures and a duplicate let
deliveries overlap, fail before and after the append, and come again; two milliseconds
and six turns let stamps be equal and out of order; three items are the shortest
nested cycle; four rows are a text, its first translation, the rival of that and one
version more. Identities beyond these only repeat the pairs. Names that bound the
search and stand for nothing in the code are marked `bound:` where they are declared.
Some scenes are narrowed further, each with a comment in the MC module: the forum
scene asks no questions, the site scene has one editor, no e-mails and no
translations, the scene with a translation worker has no sequence e-mails, two calls
in the chat scene are about one chat and stamped in the order of the lock (the other
order is `chat_order`). Deadlock is not checked where these bounds let a system come
to rest; the tracker's own run checks it.

### Fairness

- `EmailSends`: the clock, and every step of the dispatch loop, which is
  `while True` with a sleep. Rollbacks are bounded: a dispatch that always fails
  never settles, in the model as in the code.
- `TranslationJobs`: the steps of the worker loop; provider attempts are bounded.
- `Trades`: a request that runs returns, as a lock is held for a short transaction
  and a provider call has a timeout. Nothing obliges the owner to submit, and a cut
  round is not resumed.
- `MessageTrades`: an analysis that claimed goes on to persist, unless it is lost.
- `InboundMessages`: a handler ends in an answer, an exception or a timeout, and the
  provider posts an unanswered message again. Failures are bounded.
- `TradeChats` (for `chat_order`): a call ends.

No fairness is assumed of users, administrators, duplicates or crashes.

## 4. Findings

1. A bounce or complaint that arrives before the dispatch transaction commits is
   answered with success, and suppresses nothing (`email_lost_complaint`).
2. Wrong codes are never counted: the update is rolled back by the exception of the
   same handler (`signup_attempts`).
3. A published machine translation is not recognised as stale when its source
   changes, as no job names the published row (`translation_stale`).
4. A duplicate analysis that claimed early and fails late turns a finished message
   into a failed one and deletes its trades (`message_overlap`).
5. Chat messages are appended in the order of the lock and shown in the order of
   stamps taken before it (`chat_order`).
6. The check against nested cycles in the tracker is defeated by two saves that
   overlap; the next save in the cycle runs a query without end (`tracker_cycle`).
7. The router of trade chats "appends exactly one" message and says that duplicate
   webhooks converge because a copy is looked for first; two deliveries that overlap
   both find none and both append (`conversation_duplicates`).

Two more disagreements with documents have no run of their own. They are steps of the
models, and passing properties bound what comes of them:

- The last webhook event wins: a delivery notice that comes again after a complaint
  turns the recipient row back to delivered, where
  `src/emails/apply_dcx_resend_email_event_to_send_records.py:48` says that duplicate
  or reordered webhooks converge. The suppression stays
  (`SuppressedAddressGetsNoLaterNewsletter`).
- The store of an AI translation takes no advisory lock and inserts a first row beside
  the one that an administrator is creating, or beside the successor of a row that was
  retired while it waited: two live translations of a text into one language.
  `src/admin/translations/store_dcx_admin_ai_translation_result.py:4` says that
  existing live translations are replaced and only missing ones are inserted, and
  `src/admin/content/pages/save_dcx_admin_live_content_page_row_version.py:43` that
  live uniqueness is preserved. `ContentHasOneHistory` says when it happens and that
  nothing else does it.

Also met while modelling, where no document says otherwise: the login race and the
lost WhatsApp messages above; a mail that arrived although its call failed is taken
off the budget of its window; verified phone numbers can never be removed; two users
who prepare one free number at once block each other until one row is removed; a
direct message thread stays open when its participant stops accepting messages; after
250 messages a thread shows the oldest ones while the list shows the newest; the inbox
counts drafts and trades under revision as needing attention and the message page does
not; the list of WhatsApp delivery statuses is cut and reordered once it exceeds ten.

## 5. Proofs

A proof module EXTENDS the modules it is about. Its theorems hold for all values of
the constants that satisfy the named assumptions of those modules: any number of
users, workers, requests, keys, versions, and any bounds. Besides types, the
assumptions say that there is a text to edit and room for the seeded row
(`ContentVersionsAssumption`), that `"en"` is a language (`NetworkAssumption`), that a
profile shows at most ten posts (`FeedAssumption`), and that a mail call ends before
the cooldown does (`ProviderAssumption`).

| module | theorem | statement |
|---|---|---|
| `EmailSends_proofs` | `TypeCorrect` | `Spec => []TypeOK` |
| | `AtMostOneCopyPerAttempt` | `Spec => []CopiesPerAttempt` |
| | `SkippedStaySkipped` | `Spec => []SkippedRowsReachNobody` |
| | `ReportedCopiesExist` | `Spec => []ReportedSentWasAccepted` |
| | `ReportsAreTrue` | `Spec => []SendAgreesWithRows` |
| | `ShownBounceIsSuppressed` | `Spec => []BounceOrComplaintSuppresses` |
| | `SuppressedStaySpared` | `Spec => SuppressedAddressGetsNoLaterNewsletter`, a box within a box |
| | `PromiseKept` | `Spec => KeepsDeliveryPromise`, the refinement |
| `Accounts_proofs` | `SignupTypeCorrect`, `AccessTypeCorrect`, `PhoneTypeCorrect` | types |
| | `UsedCodesStayUsed` | `SignupSpec => ConsumedIsFinal`, an action property |
| | `TheNewestMailWorks` | `SignupSpec => []NewestMailWorks` |
| | `LimitsTellOfMails` | `SignupSpec => []CooldownAndBudgetTellOfMails` |
| | `LinksSetOnePassword` | `AccessSpec => []LinksWorkOnce` |
| | `NewPasswordEndsSessions` | `AccessSpec => []SessionsEndWithTheirPassword` |
| | `PhonesAgree` | `PhoneSpec => []VerifiedPhonesAgree` |
| `Network_proofs` | `NetworkTypeCorrect`, `FeedTypeCorrect` | types |
| | `ThreadsAreWelcome` | `NetworkSpec => []ThreadsWereWelcome` |
| | `MessagesAreInAChosenLanguage` | `NetworkSpec => []MessagesSpeakAChosenLanguage` |
| | `FeedFitsTogether` | `FeedSpec => []FeedAnswersAgree` |
| `Background_proofs` | `TradesTypeCorrect`, `MessageTypeCorrect`, `JobsTypeCorrect` | types |
| | `EverybodyReadsOneVersion` | `TradesSpec => []OneLiveVersion` |
| | `AlertsAreHonest` | `TradesSpec => []DeliveriesTellTheTruth` |
| | `OffersReachTheInterested` | `TradesSpec => []OffersAreAnnounced` |
| | `AlertsKeepTheirPromise` | `TradesSpec => KeepsAlertPromise`, the refinement |
| | `TradesSurviveAnalyses` | `MessageSpec => [](OneLiveVersion /\ DeliveriesTellTheTruth)` |
| | `OffersSurviveAnalyses` | `MessageSpec => []OffersAreAnnounced` |
| | `TradesComeFromOneRun` | `MessageSpec => []TradesFollowTheirMessage` |
| | `SettledMessagesStay` | `MessageSpec => SettledIsFinal`, an action property |
| | `LabelsTellTheTruth` | `JobsSpec => []LabelsAreTrue` |
| | `TranslationsAreInOrder` | `JobsSpec => []TranslationsMoveForward` |
| | `MachineTextIsNotPublishedAlone` | `JobsSpec => MachineTextNeedsAnEditor`, an action property |
| `Messages_proofs` | `InboundTypeCorrect`, `FilesTypeCorrect`, `ChatsTypeCorrect` | types |
| | `MessagesAreTakenOnce` | `InboundSpec => []ConversationsTakeItOnce` |
| | `CopiesHaveVerifiedAuthors` | `InboundSpec => []AuthorsAreVerified` |
| | `FilesAgree` | `FilesSpec => []BucketAndRowsAgree` |
| | `UndoTakesOnlyItsOwn` | `FilesSpec => []PutsAreDisjoint` |
| | `ChatsAreOfTwo` | `ChatsSpec => []ChatsStayBetweenTwo` |
| `MarketTopics_proofs` | `TopicsTypeCorrect` | `TopicsSpec => []TopicsTypeOK` |
| | `ForumAgreesWithTopics` | `TopicsSpec => []ForumShowsWhatIsShared` |
| | `ChatsReadInPairs` | `TopicsSpec => []AnswersFollowTheirQuestion` |
| `AdminContent_proofs` | `SequencesTypeCorrect`, `TrackerTypeCorrect`, `ContentTypeCorrect`, `SiteTypeCorrect` | types |
| | `StepsReachUsersOnce` | `SequencesSpec => []SavedStepsAreSentOnce` |
| | `NoTwoParentsOfEachOther` | `TrackerSpec => []ParentsAreNotMutual` |
| | `NoEditIsLostBehindAnother` | `ContentSpec => []ContentHasOneHistory` |
| | `NoChangeIsHidden` | `SiteSpec => []UncountedRowsAreOnTheSite` |

Few of these invariants are inductive alone. What each inductive invariant adds is
the reason why the property holds:

- *Newsletter sends* (`IInv`). What a commit makes true is decided while the rows are
  drafts. `OneHolder`, `HeldIsScheduled`: two workers never hold one send, and a held
  send is still committed as scheduled (the lock with its status test). `FreshSends`:
  ids not handed out have no rows and no copies. `RowsInv`: what a committed row may
  be, by the status of its send. `DraftsInv`: what a draft may be, by whether its
  provider call is to come; copies do not exceed attempts. `EmittedInv`: events name
  copies that were accepted. For the refinement each action maps to one step of
  `DeliveryPromise` (claim to `Begin`, a chunk to `Try`, commit to `Settle`, rollback
  to `GiveUp`) or to a stutter, under `IInv`. `SuppressedStaySpared` follows from a
  predicate that stays true once it is (`Spared`: suppressed, and not yet prepared or
  prepared without the address): no step takes a suppression back
  (`SuppressionsStay`) or a decision (`DecisionsStay`).
- *Signup* (`SignupIInv`, `MailIInv`). A consumed challenge comes with the confirmed
  account (`ConsumedConfirms`), and an id not handed out has no row; of every step it
  is proved that it keeps this and is a `KeepsConsumed` step. For the mails:
  `OneFlight`, at most one request is under way with a challenge, because the next one
  would have to wait for the cooldown and the call has ended by then; `FlightsTell`,
  the row is then one mail ahead of the inbox, in code and counter, *and the row that a
  recovery would write back already tells of the mails*; `RowsTell`, a row that
  nothing is under way with names the newest mail or a code whose request died. Both
  also count the mails of the window that are not forgiven.
- *Passwords* (`AccessIInv`). `FreshTokens`: a token not generated has no history;
  `TokensAreOfOneLink`: no two purposes share one, so a used link leaves no other row.
- *Phones* (`PhoneIInv`). A verification believes the pending challenge, so the
  challenge is about a listed number and a token made for that user and number
  (`PendingAgrees`, `TokensAreFresh`), and a verified number had a link delivered
  (`VerifiedByLink`).
- *Network* (`NetworkIInv`). A thread is started in a later statement than the check
  of the settings: `TabsAgree` ties what a request has read to the history of who
  welcomed whom, and `ThreadsAgree`, `DmsAgree` say what the rows inherit from it.
- *Feed* (`FeedIInv`). A page is counted in one statement and listed in a later one:
  `CountsOK` says that what was counted is still there to be listed, `LocksHold` that
  two requests never hold one row.
- *Trades* (`TradesIInv`). `TradeRows`: flag, pointer and last number agree, as the
  locking statement looks at the pointer again once it has the lock, and what is
  active is not private. `Rounds`, `OneSender`: a round about a delivery created it,
  as the unique index lets only one, and it is pending until that round marks it; so
  one message goes out and the mark says so. `OffersWillBeAnnounced` generalises
  `OffersAreAnnounced` from the states at rest to all: a user interested in an offer
  has a delivery, or some request has still to read the context or has the user to
  come. Confirm, edit and publish each start such a request, and the read of whichever
  commits second sees both. For the refinement a write that puts a trade on offer maps
  to `Offer`, the insertion of a delivery to `Begin`, a message that goes out to
  `Reach`, a mark to `Close` and every other step to a stutter, under `TradesIInv`.
  The promise is made of `TradesSpec`: an analysis may delete a trade with its
  deliveries, and with them the report.
- *Analyses* (`MessageAgrees`). Runs in flight claimed the text under numbers of their
  own, and a blocked message is settled, so nobody claims it again. The steps of
  `Trades` leave the message alone, but not the other way round: an analysis may
  delete a trade under a request or a round about it and create others. `ComposedIInv`
  is the invariant of the composition. `TradesIInv` is stated so that it survives a
  deletion: rows are about trades that are stored, and a round whose trade is gone
  holds no delivery row. `NewIdsAreUnused` covers creation: requests and messages are
  about ids that a run has already given, so that nobody was told of a new trade
  before it was there.
- *Translation jobs* (`JobsIInv`). A worker that stores must still hold its job, alone
  and in processing (`WorkersHoldJobs`); a language gets another job only after the
  one before has ended (`ActiveIsLast`), which is what keeps results in order. A save that
  overtook a job made a newer version than the job's snapshot (`JobsAreOld`), so that a
  worker past the second check holds a job that was not overtaken (`TextsAreOfTheirJobs`).
- *Inbound messages* (`InboundIInv`). `CopiesCounted` counts deliveries on their way
  to a copy together with the copies there are: one in all for a conversation whose
  look-up and append are under one lock, and one more per overlap for the others.
  `SendersAgree` ties the author of the row and of every delivery to a verified
  address.
- *Files* (`FilesIInv`). `KeysAreFresh` makes a new key nobody's; `PutsAreDisjoint`
  lets a request delete its puts without harm to another; `PutsByStep` ties the rows
  of a request to its next step (none before the transaction, all after it, only
  those of an unknown commit while it undoes).
- *Trade chats* (`ChatsIInv`). Messages are numbered as they come (`NumbersAreGiven`)
  and notices to come are new; a route belongs to the chat it was taken in
  (`RoutesWereTaken`); a trade that shows or has a chat was offered (`OfferedBefore`).
- *Topics* (`TopicsIInv`, `TopicsStart`). A topic has one post once it was shared,
  never two (`PostsAgree`); a question and its answer are inserted with one stamp and
  under ids that no other turn of the topic comes between (`TurnsArePaired`), and the
  order of the readers keeps such a pair together (`InOrder`).
- *Sequences* (`SequencesIInv`). A save gives steps ids that no send has
  (`StepIdsAreFresh`), and a sequence that is armed has only such steps
  (`ArmedStepsAreUnsent`). A run holds an armed sequence alone (`HeldIsArmed`), so its
  launch uses the arming up before another run can look.
- *Tracker* (`TrackerIInv`). The parent that an open save has checked stays outside of
  the item's descendants (`CheckedParentsStayOutside`): moving it there takes the row
  that the save holds. For two items this is enough; for three it is not
  (`tracker_cycle`).
- *Content* (`ContentIInv`). A transaction has a plan: rows it will retire and rows it
  will write. `PlanHolds`: what it retires is live until it commits, and a translation
  it adds is missing, or it will be one that others are known to be writing as well,
  so that `CommitRequest` enters the text in `raced`; `PlansAreApart`: two plans share
  no row and no lock. A worker's plan has no lock, so nothing keeps it apart from
  another translation but the rows it found.
- *Public site* (`SiteIInv`). `ClaimsAreBuilt`: between what is claimed to be published
  and what is on the site there is a row number that the build has reached and no
  claim exceeds. `AcceptedBuildsWait`: the build of an answered call has not begun
  before the time of the answer is read. The steps of the editors are included
  (`ContentIInv` is a conjunct). The type of the build counter needs that there are
  never more builds and requests under way than were asked for (`CallsAreCounted`).

In each part there is a lemma per action, or per group of actions that write the
same rows, one that joins them for the next-state relation, and one
(`Inductive`, `TradesInductive`, `MailsInductive`, ...) from which the theorems
follow. `FiniteOrders` holds the facts on operators that several parts cite: in a
finite set in a total order the ranks are the numbers from 0 to n - 1
(`RanksAreTaken`, for readers that sort rows by a count of those before), and a
non-empty set of naturals has a least one (`SmallestNat`).

The helpers `TurnBefore` and `NthDraft` of the models state an ORDER BY as a relation
and a pick by position, which is how the proofs refer to them. The library's induction
theorems are out of reach of the provers, as they take an operator; where an induction
would be natural the proofs take a least counterexample by `SmallestNat` instead.
`Descendants` of the tracker is a recursive function: the proof gives its value
explicitly, as the items at the end of a path of parents (`Reached`), and shows that
it satisfies the equation that defines the function.

Only model-checked: all liveness (`DueSendsSettle`, `DeliveriesSettle`,
`QueuedJobsEnd`, `EmailsSettle`, `ProcessingEnds`), since fairness and `ENABLED` are
beyond the prover. The properties of the seven runs that find a violation are false of
the code and have no theorem.

## 6. Not modelled, and why

- Rendering, texts and footers of mails, signatures of webhooks, parsing of
  envelopes, prompts and model output: input and output without shared state.
- Usage and activity records: append-only; where a failing one matters (the usage
  link of a translation job) it is a step.
- The notice of an analysis' outcome and the statuses of sent WhatsApp messages:
  one statement each on metadata that nothing decides by.
- Admin users and operations, countries, languages, seed data, bootstrap checks:
  single statements and read models.
- The routes of a numeric phone code and the older derivation of messages: code that
  nothing calls.
- Slugs, display names, time zones and other fields that no decision reads.

## 7. Plan

Modelled: delivery with its abstract specification and proofs, signup, translations,
trades with analysis, and in this order accounts, phones, inbound messages, files,
content, sequences, the public site, network, tracker, topics, trade chats, feed.
Proved: every safety invariant, action property and safety property of paths that a
passing run checks, the type invariant of every module, and the refinements of
`DeliveryPromise` and `AlertPromise`. What has no proof is the liveness named at the
end of section 5.
