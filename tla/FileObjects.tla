---------------------------- MODULE FileObjects ----------------------------
(***************************************************************************)
(* Uploaded files: an object in the bucket and a row that names it.        *)
(*                                                                         *)
(* Three requests store files: the ingest of a provider's attachment, the  *)
(* message an app user writes, and a post of the network feed.  Each puts  *)
(* the objects first and inserts the rows in one transaction afterwards;   *)
(* when the transaction raises it deletes what it has put.  Bucket and     *)
(* database share no transaction, and nothing looks for strays later.      *)
(***************************************************************************)
EXTENDS Naturals, FiniteSets

CONSTANTS
    FileRequests,     \* requests in flight
    MaxObjects,   \* bound: object keys generated
    MaxFiles      \* bound: files of one app message

Objects == 1..MaxObjects
Flows == {"attachment", "message", "post"}

ASSUME FileObjectsAssumption == MaxObjects \in Nat /\ MaxFiles \in Nat \ {0}

VARIABLES
    bucket,       \* keys of the objects in the bucket
    rows,         \* keys that stephen_dcx_file_objects names
    attached,     \* keys of rows attached for the provider's media id
    keys,         \* keys generated so far
    request,      \* what each request does next, and the files it has put
    strays,       \* history: keys left by a crash, a lost answer or a failed delete
    unknown       \* history: keys whose commit succeeded and was reported as failed

files == <<bucket, rows, attached, keys, request, strays, unknown>>

NoFileRequest == [flow |-> "none", step |-> "idle", wants |-> 0, put |-> {}]

FilesTypeOK ==
    /\ {bucket, rows, attached, strays, unknown} \subseteq SUBSET Objects
    /\ keys \in 0..MaxObjects
    /\ request \in [FileRequests -> [flow : Flows \cup {"none"},
                                 step : {"idle", "upload", "persist", "undo", "analyse"},
                                 wants : 0..MaxFiles, put : SUBSET Objects]]

FilesInit ==
    /\ bucket = {} /\ rows = {} /\ attached = {}
    /\ keys = 0
    /\ request = [r \in FileRequests |-> NoFileRequest]
    /\ strays = {} /\ unknown = {}

Starts(r, flow, n) ==
    request' = [request EXCEPT ![r] = [flow |-> flow, step |-> "upload", wants |-> n, put |-> {}]]

\* The attachment of a media id that has one already is not stored again.
StoreAttachment(r) ==
    /\ request[r].step = "idle"
    /\ attached = {}
    /\ Starts(r, "attachment", 1)
    /\ UNCHANGED <<bucket, rows, attached, keys, strays, unknown>>

CreateAppMessage(r, n) ==
    /\ request[r].step = "idle"
    /\ Starts(r, "message", n)
    /\ UNCHANGED <<bucket, rows, attached, keys, strays, unknown>>

CreateFeedPost(r) ==
    /\ request[r].step = "idle"
    /\ Starts(r, "post", 1)
    /\ UNCHANGED <<bucket, rows, attached, keys, strays, unknown>>

-----------------------------------------------------------------------------
(* Objects                                                                 *)

PutObject(r) ==
    /\ request[r].step = "upload"
    /\ keys < MaxObjects
    /\ keys' = keys + 1
    /\ bucket' = bucket \cup {keys + 1}
    /\ request' = [request EXCEPT
          ![r].put = @ \cup {keys + 1},
          ![r].step = IF Cardinality(request[r].put) + 1 = request[r].wants THEN "persist"
                      ELSE "upload"]
    /\ UNCHANGED <<rows, attached, strays, unknown>>

\* The files put before one that is refused or fails are deleted.
AfterFailedPut(r) == [request[r] EXCEPT !.step = "undo"]

\* A file is refused, or put_object raises, whether it stored the object or not.
PutObjectFails(r) ==
    /\ request[r].step = "upload"
    /\ keys < MaxObjects
    /\ keys' = keys + 1
    /\ \E stored \in SUBSET {keys + 1} :
          /\ bucket' = bucket \cup stored
          /\ strays' = strays \cup stored
    /\ request' = [request EXCEPT ![r] = AfterFailedPut(r)]
    /\ UNCHANGED <<rows, attached, unknown>>

\* A post takes images and audio; other files are found out after they are put.
RefuseFileKind(r) ==
    /\ request[r].flow = "post"
    /\ request[r].step = "persist"
    /\ request' = [request EXCEPT ![r].step = "undo"]
    /\ UNCHANGED <<bucket, rows, attached, keys, strays, unknown>>

\* One object after the other; an exception of the bucket is swallowed.
DeletePutObject(r) ==
    /\ request[r].step = "undo"
    /\ \E o \in request[r].put :
          /\ \/ bucket' = bucket \ {o} /\ strays' = strays
             \/ bucket' = bucket /\ strays' = strays \cup {o}
          /\ request' = [request EXCEPT ![r].put = @ \ {o}]
    /\ UNCHANGED <<rows, attached, keys, unknown>>

UndoIsDone(r) ==
    /\ request[r].step = "undo"
    /\ request[r].put = {}
    /\ request' = [request EXCEPT ![r] = NoFileRequest]
    /\ UNCHANGED <<bucket, rows, attached, keys, strays, unknown>>

-----------------------------------------------------------------------------
(* Rows                                                                    *)

Inserted(r) ==
    /\ rows' = rows \cup request[r].put
    /\ attached' = IF request[r].flow = "attachment" THEN attached \cup request[r].put
                   ELSE attached

\* The message or the post with its file rows is one transaction.  A message is
\* analysed afterwards.
PersistRows(r) ==
    /\ request[r].step = "persist"
    /\ Inserted(r)
    /\ request' = [request EXCEPT ![r] = IF @.flow = "message" THEN [@ EXCEPT !.step = "analyse"]
                                         ELSE NoFileRequest]
    /\ UNCHANGED <<bucket, keys, strays, unknown>>

\* The user is gone, the author has no nickname, the database fails: nothing is
\* committed.  Or the commit is, and its answer is lost.
PersistRowsRaises(r) ==
    /\ request[r].step = "persist"
    /\ \/ UNCHANGED <<rows, attached, unknown>>
       \/ Inserted(r) /\ unknown' = unknown \cup request[r].put
    /\ request' = [request EXCEPT ![r].step = "undo"]
    /\ UNCHANGED <<bucket, keys, strays>>

\* Variants named Bug_* are the slips the properties have to catch.
Bug_UndoesTheMessage(r) == [request[r] EXCEPT !.step = "undo"]

\* The analysis answers or raises; the message with its files stays.
AfterAnalysis(r) == NoFileRequest

AnalysisEnds(r) ==
    /\ request[r].step = "analyse"
    /\ request' = [request EXCEPT ![r] = AfterAnalysis(r)]
    /\ UNCHANGED <<bucket, rows, attached, keys, strays, unknown>>

\* The process ends.
RequestDies(r) ==
    /\ request[r].step # "idle"
    /\ request' = [request EXCEPT ![r] = NoFileRequest]
    /\ strays' = strays \cup (request[r].put \ rows)
    /\ UNCHANGED <<bucket, rows, attached, keys, unknown>>

-----------------------------------------------------------------------------
ObjectStep(r) ==
    \/ PutObject(r) \/ PutObjectFails(r) \/ RefuseFileKind(r)
    \/ DeletePutObject(r) \/ UndoIsDone(r)

RowStep(r) == PersistRows(r) \/ PersistRowsRaises(r) \/ AnalysisEnds(r) \/ RequestDies(r)

FilesNext ==
    \E r \in FileRequests :
        \/ StoreAttachment(r) \/ CreateFeedPost(r)
        \/ \E n \in 1..MaxFiles : CreateAppMessage(r, n)
        \/ ObjectStep(r) \/ RowStep(r)

FilesSpec == FilesInit /\ [][FilesNext]_files

-----------------------------------------------------------------------------
(* Safety                                                                   *)

\* The object a row names is in the bucket, whatever fails before, during or
\* after the transaction, unless a commit was reported as failed; and an object
\* without a row belongs to a request that still runs, or was left by a crash, an
\* answer of the bucket that was lost, or a delete that failed.
BucketAndRowsAgree ==
    /\ rows \subseteq bucket \cup unknown
    /\ bucket \subseteq rows \cup strays \cup UNION {request[r].put : r \in FileRequests}
=============================================================================
