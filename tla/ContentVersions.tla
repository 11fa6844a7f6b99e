-------------------------- MODULE ContentVersions --------------------------
(***************************************************************************)
(* How administrators write content: drafts, translations, saves and the   *)
(* publication of translated drafts, for pages, their categories and plain *)
(* texts (e-mail templates, newsletters, sequence e-mails, UX strings).    *)
(* The workers of TranslationJobs store what the AI provider answers into  *)
(* the same tables; which jobs there are is left to that module.           *)
(*                                                                         *)
(* Every request is one transaction. It takes its locks and reads first    *)
(* and its writes are seen by others when it commits, so a request has two *)
(* steps; waiting for a lock is not being able to take the first one.      *)
(***************************************************************************)
EXTENDS ContentTables, Sequences, FiniteSets, FiniteSetsExt

CONSTANTS
    Editors,       \* requests of administrators that run at the same time
    Workers,       \* translation workers that store a result at the same time
    Titles,        \* what drafts are named after
    MaxRows        \* bound: rows ever written

ASSUME ContentVersionsAssumption == MaxRows \in Nat \ {0} /\ Texts # {}

VARIABLES
    rows,          \* all versions; the id of a row is its position
    request,       \* what each writer's transaction holds and will write
    raced          \* history: texts whose translation a worker and another wrote at once

content == <<rows, request, raced>>

Writers == Editors \cup Workers

Emails == {"template", "newsletter", "sequence"}
Kinds == Emails \cup {"ux_string", "category", "page"}
Locales == Languages \cup {"first"}

\* An identifier made from a title: "market-news", "market-news-2", ...
Identifier(title, n) == [title |-> title, n |-> n]
Identifiers == [title : Titles, n : Nat]

Row == [kind : Kinds, key : Identifiers, category : Identifiers, slug : Identifiers,
        language : Locales, text : Texts, status : PageStatuses,
        original : BOOLEAN, live : BOOLEAN, versionOf : Nat, translationOf : Nat]

\* A text in a language, whatever its versions.
TextName(row) == <<row.kind, row.key, row.language>>
TextNames == Kinds \X Identifiers \X Locales

\* Advisory locks: what is created, of which category or key, and in which language.
Lock(what, of, key, language) == [what |-> what, of |-> of, key |-> key, language |-> language]
NoLock == Lock("nothing", Identifier("none", 1), Identifier("none", 1), "first")

\* writes: the rows that the transaction will add, or would add if it finds none.
NoRequest == [step |-> "idle", seen |-> {}, retires |-> {}, writes |-> <<>>, lock |-> NoLock]

ContentTypeOK ==
    /\ rows \in Seq(Row)
    /\ \A e \in Writers :
          /\ request[e].step \in {"idle", "locking", "storing", "writing"}
          /\ request[e].seen \cup request[e].retires \subseteq DOMAIN rows
          /\ request[e].writes \in Seq(Row)
    /\ raced \subseteq TextNames

\* A draft has a title and an empty body.
Draft(kind, key, category, language) ==
    [kind |-> kind, key |-> key, category |-> category, slug |-> key, language |-> language,
     text |-> CHOOSE empty \in Texts : TRUE, status |-> "draft", original |-> TRUE, live |-> TRUE,
     versionOf |-> None, translationOf |-> None]

\* E-mail templates and UX strings are seeded, everything else begins as a draft.
ContentInit ==
    /\ \E kind \in {"template", "ux_string"}, title \in Titles :
          rows = <<Draft(kind, Identifier(title, 1), Identifier(title, 1), "first")>>
    /\ request = [e \in Writers |-> NoRequest]
    /\ raced = {}

Live(kind) == {r \in DOMAIN rows : rows[r].live /\ rows[r].kind = kind}
LiveTexts(kind, key, language) ==
    {r \in Live(kind) : rows[r].key = key /\ rows[r].language = language}

Locked(r) == \E e \in Writers : r \in request[e].retires
Free(lock) == \A e \in Writers : request[e].lock # lock

\* The transaction has read all it needs and is going to write.
WillWrite(e, lock, retired, written) ==
    /\ Len(rows) + Len(written) <= MaxRows
    /\ request' = [request EXCEPT ![e] = [step |-> "writing", seen |-> {}, lock |-> lock,
                                          retires |-> retired, writes |-> written]]
    /\ UNCHANGED <<rows, raced>>

-----------------------------------------------------------------------------
(* Drafts                                                                   *)

\* The first identifier made from the title that is not taken.
NextIdentifier(title, taken) ==
    Identifier(title, Min({n \in 1..(Cardinality(taken) + 1) : Identifier(title, n) \notin taken}))

\* Retired rows keep their key too.
CreateEmailDraft(e, kind, title, language) ==
    LET lock == Lock(kind, Identifier(title, 1), Identifier(title, 1), "first")
        taken == {rows[r].key : r \in {x \in DOMAIN rows : rows[x].kind = kind}}
        key == NextIdentifier(title, taken)
    IN  /\ Free(lock)
        /\ WillWrite(e, lock, {}, <<Draft(kind, key, key, language)>>)

CreateNewsletterDraft(e, title, language) == CreateEmailDraft(e, "newsletter", title, language)
CreateSequenceEmailDraft(e, title, language) == CreateEmailDraft(e, "sequence", title, language)

\* No lock: two requests may both find the key free.
CreateCategoryDraft(e, title, language) ==
    LET key == Identifier(title, 1)
    IN  /\ \A r \in Live("category") : rows[r].key # key
        /\ WillWrite(e, NoLock, {}, <<Draft("category", key, key, language)>>)

\* Keys and slugs are looked up in one category and language only.
CreatePageDraft(e, category, title, language) ==
    LET lock == Lock("page draft", category, Identifier(title, 1), "first")
        neighbours == {rows[r] : r \in {x \in DOMAIN rows : rows[x].kind = "page"
                          /\ rows[x].category = category /\ rows[x].language = language}}
        key == NextIdentifier(title, {p.key : p \in neighbours} \cup {p.slug : p \in neighbours})
    IN  /\ Free(lock)
        /\ LiveTexts("category", category, language) # {}
        /\ WillWrite(e, lock, {}, <<Draft("page", key, category, language)>>)

-----------------------------------------------------------------------------
(* Translations                                                             *)

Bug_NoTranslationLock(kind, key, language) == NoLock

TranslationLock(kind, key, language) == Lock(kind, key, key, language)

OriginalOf(kind, key) == {r \in Live(kind) : rows[r].key = key /\ rows[r].original}

\* The first rows a live row may get in another language: copies of it.
FirstCopies(source, language) ==
    LET originals == OriginalOf(rows[source].kind, rows[source].key)
    IN  {[rows[source] EXCEPT !.language = language, !.status = "draft", !.original = FALSE,
                              !.versionOf = None, !.translationOf = original] :
             original \in IF originals = {} THEN {source} ELSE originals}

\* A copy of the live row in another language, if the target has no live row.
CreateCopy(e, source, language) ==
    LET kind == rows[source].kind
        key == rows[source].key
        lock == TranslationLock(kind, key, language)
    IN  /\ rows[source].live
        /\ language # rows[source].language
        /\ lock = NoLock \/ Free(lock)
        /\ LiveTexts(kind, key, language) = {}
        /\ \E copy \in FirstCopies(source, language) : WillWrite(e, lock, {}, <<copy>>)

CreateEmailTranslation(e, source, language) ==
    rows[source].kind \in {"template", "sequence"} /\ CreateCopy(e, source, language)
CreateNewsletterTranslation(e, source, language) ==
    rows[source].kind = "newsletter" /\ CreateCopy(e, source, language)
CreateUxStringTranslation(e, source, language) ==
    rows[source].kind = "ux_string" /\ CreateCopy(e, source, language)
CreateCategoryTranslation(e, source, language) ==
    rows[source].kind = "category" /\ CreateCopy(e, source, language)

\* The copy keeps the slug of the source, and nobody looks whether it is free.
CreatePageTranslation(e, source, language) ==
    rows[source].kind = "page" /\ CreateCopy(e, source, language)

-----------------------------------------------------------------------------
(* Saves                                                                    *)

\* Live rows only, and no lock on them: a slug may be taken before the commit.
SlugsBeside(row, id) ==
    {rows[r].slug : r \in {x \in Live(row.kind) \ {id} :
        /\ rows[x].language = row.language
        /\ row.kind = "page" => rows[x].category = row.category}}

SlugTaken(row, id) == row.slug \in SlugsBeside(row, id)

CategoryKnown(row) ==
    \E r \in Live("category") :
        rows[r].key = row.category /\ (rows[r].language = row.language \/ rows[r].original)

\* Read again under the lock of the row: a form opened before another save names
\* a retired row, and the save is refused.
StillLive(r) == rows[r].live

Replace(e, r, edited) ==
    /\ ~Locked(r)
    /\ StillLive(r)
    /\ WillWrite(e, NoLock, {r}, <<[edited EXCEPT !.versionOf = r]>>)

SaveEmail(e, r, text) ==
    /\ rows[r].kind \in Emails
    /\ rows[r].text # text
    /\ Replace(e, r, [rows[r] EXCEPT !.text = text])

SaveUxString(e, r, text) ==
    /\ rows[r].kind = "ux_string"
    /\ rows[r].text # text
    /\ Replace(e, r, [rows[r] EXCEPT !.text = text])

SaveCategory(e, r, text, slug) ==
    LET edited == [rows[r] EXCEPT !.text = text, !.slug = slug]
    IN  /\ rows[r].kind = "category"
        /\ ~SlugTaken(edited, r)
        /\ edited # rows[r]
        /\ Replace(e, r, edited)

\* stamped: the time of publication differs, so that there is something to save.
SavePage(e, r, text, slug, category, status, stamped) ==
    LET edited == [rows[r] EXCEPT !.text = text, !.slug = slug,
                                  !.category = category, !.status = status]
    IN  /\ rows[r].kind = "page"
        /\ CategoryKnown(edited)
        /\ ~SlugTaken(edited, r)
        /\ stamped \/ edited # rows[r]
        /\ Replace(e, r, edited)

\* Publishing and archiving are saves of the whole form.
PublishPage(e, r, text, slug, category) == SavePage(e, r, text, slug, category, "published", TRUE)
ArchivePage(e, r, text, slug, category) == SavePage(e, r, text, slug, category, "archived", FALSE)

-----------------------------------------------------------------------------
(* Publishing the translated drafts of a page, all languages at once        *)

DraftTranslations(key) ==
    {r \in Live("page") : rows[r].key = key /\ ~rows[r].original /\ rows[r].status = "draft"}

\* The statement sees these rows and waits for the ones that others have locked.
FindDrafts(e, key) ==
    /\ DraftTranslations(key) # {}
    /\ request' = [request EXCEPT ![e] = [NoRequest EXCEPT !.step = "locking",
                                                           !.seen = DraftTranslations(key)]]
    /\ UNCHANGED <<rows, raced>>

\* A row retired meanwhile is left out, and so is the version that replaced it.
PublishDrafts(e) ==
    LET drafts == {r \in request[e].seen : rows[r].live /\ rows[r].status = "draft"}
        published(r) == [rows[r] EXCEPT !.status = "published", !.versionOf = r]
    IN  /\ request[e].step = "locking"
        /\ \A r \in request[e].seen : ~Locked(r)
        /\ drafts # {} /\ \A r \in drafts : ~SlugTaken(rows[r], r)
        /\ WillWrite(e, NoLock, drafts,
               LET order == CHOOSE s \in [1..Cardinality(drafts) -> drafts] : Range(s) = drafts
               IN  [i \in 1..Cardinality(drafts) |-> published(order[i])])

-----------------------------------------------------------------------------
(* Storing what the AI provider answered, for any text but a UX string      *)

\* No advisory lock. The statement sees the live rows of the target and waits for
\* the ones that others have locked.
FindTranslation(e, source, language) ==
    LET kind == rows[source].kind
    IN  /\ rows[source].live /\ kind # "ux_string"
        /\ language # rows[source].language
        /\ \E copy \in FirstCopies(source, language) :
               request' = [request EXCEPT ![e] = [NoRequest EXCEPT
                              !.step = "storing", !.writes = <<copy>>,
                              !.seen = LiveTexts(kind, rows[source].key, language)]]
        /\ UNCHANGED <<rows, raced>>

\* E-mails have no slug; others get one that no live row beside them has.
FreeSlug(row, title, id) ==
    IF row.kind \in Emails THEN row.slug ELSE NextIdentifier(title, SlugsBeside(row, id))

\* One of the rows that are still live is replaced, be it the original; without one
\* the text gets a first row, although a row that was retired meanwhile has a successor.
StoreTranslation(e, text, title) ==
    LET first == Head(request[e].writes)
        found == {r \in request[e].seen : StillLive(r)}
        stored(row, id) == [row EXCEPT !.text = text, !.slug = FreeSlug(row, title, id),
                               !.original = FALSE, !.versionOf = id,
                               !.translationOf = IF @ = None THEN first.translationOf ELSE @]
    IN  /\ request[e].step = "storing"
        /\ \A r \in request[e].seen : ~Locked(r)
        /\ \/ found = {} /\ WillWrite(e, NoLock, {}, <<stored(first, None)>>)
           \/ \E r \in found : WillWrite(e, NoLock, {r}, <<stored(rows[r], r)>>)

-----------------------------------------------------------------------------
(* The end of a transaction                                                 *)

\* The texts of which a request writes, or is about to write, a translation.
Translated(e) == {TextName(w) : w \in {x \in Range(request[e].writes) : ~x.original}}

\* Another request is at work on the same translation and one of the two stores a
\* result; or a result takes the place of one of several originals of that name.
Races(e, name) ==
    \/ \E f \in Writers \ {e} : name \in Translated(f) /\ {e, f} \cap Workers # {}
    \/ \E r \in request[e].retires :
          rows[r].original /\ LiveTexts(name[1], name[2], name[3]) # {r}

CommitRequest(e) ==
    /\ request[e].step = "writing"
    /\ raced' = raced \cup {name \in Translated(e) : Races(e, name)}
    /\ Len(rows) + Len(request[e].writes) <= MaxRows
    /\ rows' = [r \in DOMAIN rows |-> [rows[r] EXCEPT !.live = @ /\ r \notin request[e].retires]]
                   \o request[e].writes
    /\ request' = [request EXCEPT ![e] = NoRequest]

\* A refusal after the locks, a failed statement or a lost process.
RollBackRequest(e) ==
    /\ request[e].step # "idle"
    /\ request' = [request EXCEPT ![e] = NoRequest]
    /\ UNCHANGED <<rows, raced>>

StartDraft(e) ==
    \E title \in Titles, language \in Locales :
        \/ CreateNewsletterDraft(e, title, language)
        \/ CreateSequenceEmailDraft(e, title, language)
        \/ CreateCategoryDraft(e, title, language)
        \/ \E r \in Live("category") : CreatePageDraft(e, rows[r].key, title, language)

StartTranslation(e) ==
    \E r \in DOMAIN rows, language \in Locales :
        \/ CreateEmailTranslation(e, r, language)
        \/ CreateNewsletterTranslation(e, r, language)
        \/ CreateUxStringTranslation(e, r, language)
        \/ CreateCategoryTranslation(e, r, language)
        \/ CreatePageTranslation(e, r, language)

StartSave(e) ==
    \E r \in DOMAIN rows, text \in Texts, title \in Titles :
        \/ SaveEmail(e, r, text)
        \/ SaveUxString(e, r, text)
        \/ SaveCategory(e, r, text, Identifier(title, 1))
        \/ \E c \in Live("category") :
              LET slug == Identifier(title, 1)
                  category == rows[c].key
              IN  \/ \E status \in PageStatuses :
                         SavePage(e, r, text, slug, category, status, FALSE)
                  \/ PublishPage(e, r, text, slug, category)
                  \/ ArchivePage(e, r, text, slug, category)

StartStore(e) ==
    \E r \in DOMAIN rows, language \in Locales : FindTranslation(e, r, language)

EditorStep(e) ==
    \/ /\ request[e].step = "idle"
       /\ \/ StartDraft(e) \/ StartTranslation(e) \/ StartSave(e)
          \/ \E r \in DOMAIN rows : FindDrafts(e, rows[r].key)
    \/ PublishDrafts(e)
    \/ CommitRequest(e) \/ RollBackRequest(e)

StoringStep(w) ==
    \/ request[w].step = "idle" /\ StartStore(w)
    \/ \E text \in Texts, title \in Titles : StoreTranslation(w, text, title)
    \/ CommitRequest(w) \/ RollBackRequest(w)

ContentNext ==
    \/ \E e \in Editors : EditorStep(e)
    \/ \E w \in Workers : StoringStep(w)

ContentSpec == ContentInit /\ [][ContentNext]_content

-----------------------------------------------------------------------------
\* Two live rows that are translations of one text into one language.
RivalTranslations(r, s) ==
    /\ r # s
    /\ rows[r].live /\ rows[s].live /\ ~rows[r].original /\ ~rows[s].original
    /\ TextName(rows[r]) = TextName(rows[s])

(* Two requests that write the same content never make two versions of it   *)
(* that both count. No row is followed by two others, whoever wrote them:   *)
(* the edit of one would be lost behind the other. And a language has one   *)
(* live translation of a text, however the requests of administrators       *)
(* overlap. A second one takes a worker that stores its result while        *)
(* another request writes the same translation (it takes no lock), or that  *)
(* stores it over one of several originals of one name.                     *)
ContentHasOneHistory ==
    /\ \A r, s \in DOMAIN rows :
          rows[r].versionOf = rows[s].versionOf /\ rows[r].versionOf # None => r = s
    /\ \A r, s \in DOMAIN rows : RivalTranslations(r, s) => TextName(rows[r]) \in raced
=============================================================================
