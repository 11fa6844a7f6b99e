-------------------------- MODULE TranslationJobs --------------------------
(***************************************************************************)
(* AI translation jobs for one content page: the source page an editor      *)
(* saves, the live versions of its translations, the job table, and the     *)
(* workers (loop, cron route and background task) that process it.          *)
(*                                                                         *)
(* A job passes through four transactions: claim, first source check, store *)
(* and usage link. Nothing holds a lock from one to the next, and a worker  *)
(* that dies leaves its job in 'processing'.                                *)
(***************************************************************************)
EXTENDS ContentTables, Sequences, FiniteSets

CONSTANTS
    Workers,       \* processes that run the job loop
    MaxSaves,      \* bound: versions of the source page
    MaxPageVersions,   \* bound: versions of a translation an editor adds to
    MaxJobs,       \* bound: jobs per language
    MaxCrashes     \* bound: workers that die, and jobs that cannot be marked

JobStatuses == {"queued", "processing", "completed", "failed", "stale_source"}
ActiveJobStatuses == {"queued", "processing"}
WorkerSteps == {"idle", "check", "mark_stale", "translate", "store", "write", "usage",
          "mark_failed"}

ASSUME TranslationJobsAssumption ==
    /\ MaxSaves \in Nat \ {0}
    /\ MaxPageVersions \in Nat
    /\ MaxJobs \in Nat
    /\ MaxCrashes \in Nat
    /\ Languages # {}

VARIABLES
    source,    \* texts of the source page's versions; the last one is live
    page,      \* versions of each translation, live or retired
    job,       \* rows of stephen_dcx_ai_translation_jobs, per target language
    worker,    \* what each worker is doing
    crashes,   \* history
    overtaken  \* jobs whose source was saved before the storing transaction
               \* of a worker had read it again (history)

jobs == <<source, page, job, worker, crashes, overtaken>>

\* from is the source version a machine text was translated from
Version == [by : {"copy", "editor", "machine"}, from : Nat,
            status : PageStatuses, live : BOOLEAN]
Job == [status : JobStatuses, snapshot : Nat, target : Nat]
\* read is the source version whose text the model is given, seen is the live
\* translation the storing transaction found
Worker == [step : WorkerSteps, language : Languages, job : Nat, read : Nat, seen : Nat]
Idle == [step |-> "idle", language |-> CHOOSE l \in Languages : TRUE,
         job |-> None, read |-> None, seen |-> None]

JobsTypeOK ==
    /\ source \in Seq(Texts)
    /\ page \in [Languages -> Seq(Version)]
    /\ job \in [Languages -> Seq(Job)]
    /\ worker \in [Workers -> Worker]
    /\ crashes \in Nat
    /\ overtaken \in [Languages -> SUBSET Nat]

JobsInit ==
    /\ \E text \in Texts : source = <<text>>
    /\ page = [l \in Languages |-> <<>>]
    /\ job = [l \in Languages |-> <<>>]
    /\ worker = [w \in Workers |-> Idle]
    /\ crashes = 0
    /\ overtaken = [l \in Languages |-> {}]

LiveVersions(l) == {v \in 1..Len(page[l]) : page[l][v].live}
Retired(versions, v) == [versions EXCEPT ![v].live = FALSE]
LastJob(l) == job[l][Len(job[l])]

-----------------------------------------------------------------------------
(* The editor                                                               *)

\* The active jobs of a language that no storing transaction has in its hands.
NotBeingStored(l) ==
    {j \in 1..Len(job[l]) :
        /\ job[l][j].status \in ActiveJobStatuses
        /\ \A w \in Workers :
              worker[w].step = "write" => worker[w].language # l \/ worker[w].job # j}

\* A save always makes a new row, also when only the publication status or the
\* category differs and the hash of the text stays the same.
SaveSource(text) ==
    /\ Len(source) < MaxSaves
    /\ source' = Append(source, text)
    /\ overtaken' = [l \in Languages |-> overtaken[l] \cup NotBeingStored(l)]
    /\ UNCHANGED <<page, job, worker, crashes>>

CreateTranslation(l) ==
    /\ Len(page[l]) < MaxPageVersions
    /\ LiveVersions(l) = {}
    /\ page' = [page EXCEPT ![l] =
                   Append(@, [by |-> "copy", from |-> None, status |-> "draft", live |-> TRUE])]
    /\ UNCHANGED <<source, job, worker, crashes, overtaken>>

\* The editor saves the fields, or only another publication status: the text of
\* the new version is then the one of the version it replaces.
SaveTranslation(l, v, edited, status) ==
    /\ Len(page[l]) < MaxPageVersions
    /\ v \in LiveVersions(l)
    /\ edited \/ status # page[l][v].status
    /\ page' = [page EXCEPT ![l] = Append(Retired(@, v),
                   [page[l][v] EXCEPT !.by = IF edited THEN "editor" ELSE @,
                                      !.from = IF edited THEN None ELSE @,
                                      !.status = status])]
    /\ UNCHANGED <<source, job, worker, crashes, overtaken>>

DraftVersions(l) == {v \in LiveVersions(l) : page[l][v].status = "draft"}

\* The n-th live draft, in the order of the row ids.
NthDraft(l, n) ==
    CHOOSE d \in DraftVersions(l) : Cardinality({e \in DraftVersions(l) : e <= d}) = n

\* Every live draft is retired and followed by a published copy, in one
\* transaction over all languages.
PublishedCopies(l) ==
    LET rows == Len(page[l])
    IN  [v \in 1..rows + Cardinality(DraftVersions(l)) |->
            IF v <= rows
            THEN [page[l][v] EXCEPT !.live = @ /\ v \notin DraftVersions(l)]
            ELSE [page[l][NthDraft(l, v - rows)] EXCEPT !.status = "published"]]

PublishTranslatedDrafts ==
    /\ \E l \in Languages : DraftVersions(l) # {}
    /\ \A l \in Languages : Len(PublishedCopies(l)) <= MaxPageVersions
    /\ page' = [l \in Languages |-> PublishedCopies(l)]
    /\ UNCHANGED <<source, job, worker, crashes, overtaken>>

-----------------------------------------------------------------------------
(* Enqueueing                                                               *)

HasActiveJob(l) == \E j \in 1..Len(job[l]) : job[l][j].status \in ActiveJobStatuses

\* The jobs whose row the readers take for the translation's origin.
Names(l, j, v) == job[l][j].status = "completed" /\ job[l][j].target = v

HashNow == source[Len(source)]

HasFreshTranslation(l) ==
    \E v \in LiveVersions(l), j \in 1..Len(job[l]) :
        Names(l, j, v) /\ source[job[l][j].snapshot] = HashNow

Bug_ActiveJobNotRead(l) == ~HasFreshTranslation(l)

NeedsJob(l) == ~HasActiveJob(l) /\ ~HasFreshTranslation(l)

\* One transaction, an advisory lock per target language; a request for a
\* language that needs no job gets the active job or the fresh row back.
EnqueueTranslationJobs(targets) ==
    /\ \E l \in targets : NeedsJob(l)
    /\ \A l \in targets : Len(job[l]) < MaxJobs
    /\ job' = [l \in Languages |->
                  IF l \in targets /\ NeedsJob(l)
                  THEN Append(job[l], [status |-> "queued", snapshot |-> Len(source),
                                       target |-> None])
                  ELSE job[l]]
    /\ UNCHANGED <<source, page, worker, crashes, overtaken>>

-----------------------------------------------------------------------------
(* The workers                                                              *)

WorkerAt(w, step) == worker[w].step = step
WorkerGoesTo(w, step) == worker' = [worker EXCEPT ![w].step = step]
JobLeft(w) == worker' = [worker EXCEPT ![w] = Idle]
JobOf(w) == job[worker[w].language][worker[w].job]

\* Every UPDATE of a job names its id and nothing else: no status is checked.
SetStatus(w, status) ==
    job' = [job EXCEPT ![worker[w].language][worker[w].job].status = status]

ClaimJob(w, l) ==
    /\ WorkerAt(w, "idle")
    /\ job[l] # <<>>
    /\ LastJob(l).status = "queued"
    /\ job' = [job EXCEPT ![l][Len(job[l])].status = "processing"]
    /\ worker' = [worker EXCEPT ![w] = [step |-> "check", language |-> l,
                                        job |-> Len(job[l]), read |-> None, seen |-> None]]
    /\ UNCHANGED <<source, page, crashes, overtaken>>

\* Row id and hash are compared; a new row is enough to make a job stale.
Bug_CheckedOnce(w) == WorkerAt(w, "check") /\ JobOf(w).snapshot # Len(source)

SourceChanged(w) == JobOf(w).snapshot # Len(source)

CheckSource(w) ==
    /\ WorkerAt(w, "check")
    /\ worker' = [worker EXCEPT ![w].step = IF SourceChanged(w) THEN "mark_stale" ELSE "translate",
                                ![w].read = Len(source)]
    /\ UNCHANGED <<source, page, job, crashes, overtaken>>

MarkStale(w) ==
    /\ WorkerAt(w, "mark_stale")
    /\ SetStatus(w, "stale_source")
    /\ JobLeft(w)
    /\ UNCHANGED <<source, page, crashes, overtaken>>

\* Up to three provider attempts; the last failure is raised.
Translate(w) ==
    /\ WorkerAt(w, "translate")
    /\ WorkerGoesTo(w, "store")
    /\ UNCHANGED <<source, page, job, crashes, overtaken>>

(* The storing transaction reads the source again and asks for the live       *)
(* translation FOR UPDATE. Neither statement keeps the answer true until the *)
(* write: the source row is not locked, and a translation that another       *)
(* transaction retires while this one waits for its lock is no longer found. *)
RecheckSource(w, seen) ==
    /\ WorkerAt(w, "store")
    /\ \/ /\ SourceChanged(w)
          /\ SetStatus(w, "stale_source")
          /\ JobLeft(w)
       \/ /\ ~SourceChanged(w)
          /\ LET live == LiveVersions(worker[w].language)
             IN  seen \in live \/ (live = {} /\ seen = None)
          /\ worker' = [worker EXCEPT ![w].step = "write", ![w].seen = seen]
          /\ UNCHANGED job
    /\ UNCHANGED <<source, page, crashes, overtaken>>

FoundTranslation(w) == worker[w].seen \in LiveVersions(worker[w].language)

Bug_StoredPublished(w) ==
    [by |-> "machine", from |-> worker[w].read, status |-> "published", live |-> TRUE]

StoredVersion(w) ==
    [by |-> "machine", from |-> worker[w].read, live |-> TRUE,
     status |-> IF FoundTranslation(w) THEN page[worker[w].language][worker[w].seen].status ELSE "draft"]

StoredRow(w) == Len(page[worker[w].language]) + 1

StoreTranslation(w) ==
    /\ WorkerAt(w, "write")
    /\ page' = [page EXCEPT ![worker[w].language] =
                   Append(IF FoundTranslation(w) THEN Retired(@, worker[w].seen) ELSE @, StoredVersion(w))]
    /\ job' = [job EXCEPT ![worker[w].language][worker[w].job] =
                  [@ EXCEPT !.status = "completed", !.target = StoredRow(w)]]
    /\ WorkerGoesTo(w, "usage")
    /\ UNCHANGED <<source, crashes, overtaken>>

\* A usage event that cannot be recorded is swallowed; so the job is done.
RecordUsage(w) ==
    /\ WorkerAt(w, "usage")
    /\ JobLeft(w)
    /\ UNCHANGED <<source, page, job, crashes, overtaken>>

\* Every other exception, the one of the usage link included, leads to the
\* same handler. A transaction that was open is rolled back.
JobRaises(w) ==
    /\ worker[w].step \in {"check", "mark_stale", "translate", "store", "write", "usage"}
    /\ WorkerGoesTo(w, "mark_failed")
    /\ UNCHANGED <<source, page, job, crashes, overtaken>>

Bug_FailedIsQueuedAgain(w) ==
    /\ WorkerAt(w, "mark_failed")
    /\ SetStatus(w, "queued")
    /\ JobLeft(w)
    /\ UNCHANGED <<source, page, crashes, overtaken>>

MarkFailed(w) ==
    /\ WorkerAt(w, "mark_failed")
    /\ SetStatus(w, "failed")
    /\ JobLeft(w)
    /\ UNCHANGED <<source, page, crashes, overtaken>>

\* The process dies, or marking the failure raises as well and the loop goes on:
\* either way nobody holds the job any more.
DropJob(w) ==
    /\ ~WorkerAt(w, "idle")
    /\ crashes < MaxCrashes
    /\ crashes' = crashes + 1
    /\ JobLeft(w)
    /\ UNCHANGED <<source, page, job, overtaken>>

-----------------------------------------------------------------------------
EditorStep ==
    \/ \E text \in Texts : SaveSource(text)
    \/ \E l \in Languages : CreateTranslation(l)
    \/ \E l \in Languages : \E v \in LiveVersions(l), edited \in BOOLEAN,
                               status \in PageStatuses :
            SaveTranslation(l, v, edited, status)
    \/ PublishTranslatedDrafts
    \/ \E targets \in SUBSET Languages : EnqueueTranslationJobs(targets)

WorkerStep(w) ==
    \/ \E l \in Languages : ClaimJob(w, l)
    \/ CheckSource(w)
    \/ MarkStale(w)
    \/ Translate(w)
    \/ \E seen \in LiveVersions(worker[w].language) \cup {None} : RecheckSource(w, seen)
    \/ StoreTranslation(w)
    \/ RecordUsage(w)
    \/ JobRaises(w)
    \/ MarkFailed(w)

JobsNext ==
    \/ EditorStep
    \/ \E w \in Workers : WorkerStep(w) \/ DropJob(w)

JobsSpec == JobsInit /\ [][JobsNext]_jobs

\* The loop of every worker runs for ever, and a provider call returns or raises.
FairJobsSpec == JobsSpec /\ \A w \in Workers : WF_jobs(WorkerStep(w))

-----------------------------------------------------------------------------
(* Safety                                                                   *)

\* A version the readers label as an AI translation, because a completed job
\* names it, is a machine text made from the source version of that job, so that
\* the hash they compare is that of the translated text; and no save of the
\* source came between the enqueueing and the second check of the source, however
\* long the model took.
LabelsAreTrue ==
    \A l \in Languages : \A j \in 1..Len(job[l]) :
        job[l][j].status = "completed" =>
            LET v == job[l][j].target
            IN  /\ v \in 1..Len(page[l])
                /\ page[l][v].by = "machine"
                /\ page[l][v].from = job[l][j].snapshot
                /\ j \notin overtaken[l]

\* A worker that is late never writes over the result of a later request:
\* stored translations follow the order of the jobs they come from.
TranslationsMoveForward ==
    \A l \in Languages : \A i, j \in 1..Len(job[l]) :
        i < j /\ job[l][i].target # None /\ job[l][j].target # None
            => job[l][i].target < job[l][j].target

\* No worker makes a translation public by itself: a published version that a
\* job stores takes the place of a version an editor had published.
MachineTextNeedsAnEditor ==
    [][\A w \in Workers, l \in Languages :
          WorkerAt(w, "write") /\ worker'[w].step = "usage" /\ worker[w].language = l =>
             (page'[l][Len(page'[l])].status = "published" =>
                \E v \in LiveVersions(l) :
                    page[l][v].status = "published" /\ ~page'[l][v].live)]_jobs

-----------------------------------------------------------------------------
(* Liveness                                                                 *)

Abandoned(l) ==
    /\ job[l] # <<>>
    /\ LastJob(l).status = "processing"
    /\ \A w \in Workers :
          WorkerAt(w, "idle") \/ worker[w].language # l \/ worker[w].job # Len(job[l])

\* A job that is waiting ends, unless the worker that took it was lost: nothing
\* hands such a job to another worker.
QueuedJobsEnd ==
    \A l \in Languages :
        HasActiveJob(l) ~> ~HasActiveJob(l) \/ Abandoned(l)

-----------------------------------------------------------------------------
(* What the notes say                                                       *)

\* A live machine translation of a text that is no longer the source's is shown
\* as stale, because the last completed job that names it has another hash.
ChangedSourceMakesTranslationsStale ==
    \A l \in Languages : \A v \in LiveVersions(l) :
        page[l][v].by = "machine" /\ source[page[l][v].from] # HashNow =>
            \E j \in 1..Len(job[l]) :
                Names(l, j, v) /\ source[job[l][j].snapshot] # HashNow
=============================================================================
