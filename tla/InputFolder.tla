------------------------------- MODULE InputFolder -------------------------------
(***************************************************************************)
(* The input directory and the records that point into it.  A document is  *)
(* known by the digest of its bytes, a file by its path; uploads of one    *)
(* name, a scan, a requeue, a delete or clear that takes the files along,  *)
(* and the worker that opens a record's file run between each other's      *)
(* awaits.  A document stands here for its bytes, and for their digest.    *)
(***************************************************************************)
EXTENDS Naturals, FiniteSets

CONSTANTS
    Document,   \* what a file may hold
    Uploader,   \* upload requests under way at once
    NoDocument  \* no file, no record, no job

ASSUME FolderAssumption == NoDocument \notin Document

VARIABLES
    files,     \* what is at each path
    records,   \* status and path of each document, in doc-status
    upload,    \* each request: where it is, its document, where its file goes
    scan,      \* the scan: where it is, the paths left, path and document at hand
    requeue,   \* the requeue: the document and the copy of its record
    admin,     \* the delete or clear: where it is, the documents, with files or not
    worker,    \* the worker: where it is, the copies to do, document and source
    strayed,   \* history: a document was parsed from other bytes than its own
    disturbed  \* history: files were taken from under a request or a record

folderVars == <<files, records, upload, scan, requeue, admin, worker, strayed, disturbed>>

\* One base name is enough: at the top, there beside a digest, or in a subfolder.
Plain        == [at |-> "top", digest |-> NoDocument]
Qualified(d) == [at |-> "top", digest |-> d]
Nested       == [at |-> "sub", digest |-> NoDocument]
Path         == {Plain, Nested} \cup {Qualified(d) : d \in Document}

NoRecord == [status |-> "none", path |-> Plain]
Entry(status, path) == [status |-> status, path |-> path]

Rest     == [pc |-> "idle", document |-> NoDocument, dest |-> Plain]
NoScan   == [pc |-> "idle", left |-> {}, path |-> Plain, document |-> NoDocument]
NoRetry  == [document |-> NoDocument, record |-> NoRecord]
NoAdmin  == [pc |-> "idle", documents |-> {}, withFiles |-> FALSE]
NoWorker == [pc |-> "idle", todo |-> [d \in {} |-> NoRecord],
             document |-> NoDocument, source |-> Plain]

\* Somebody may have put files there.
FolderInit ==
    /\ files \in [Path -> Document \cup {NoDocument}]
    /\ \A d \in Document : files[Qualified(d)] = NoDocument
    /\ records = [d \in Document |-> NoRecord]
    /\ upload = [u \in Uploader |-> Rest] /\ scan = NoScan /\ requeue = NoRetry
    /\ admin = NoAdmin /\ worker = NoWorker
    /\ strayed = FALSE /\ disturbed = FALSE

Known == {d \in Document : records[d].status # "none"}

-----------------------------------------------------------------------------
\* POST /upload.

AtUpload(u, pc) == upload[u].pc = pc
OfUpload(u, r) == upload' = [upload EXCEPT ![u] = r]

\* The bytes come in under a scratch name while their digest is taken.
Spool(u, d) ==
    /\ AtUpload(u, "idle")
    /\ OfUpload(u, [pc |-> "spooled", document |-> d, dest |-> Plain])
    /\ UNCHANGED <<files, records, scan, requeue, admin, worker, strayed, disturbed>>

\* Too large, a client that leaves, a store that fails: nothing is in place yet.
UploadStops(u) ==
    /\ upload[u].pc = "spooled"
    /\ OfUpload(u, Rest)
    /\ UNCHANGED <<files, records, scan, requeue, admin, worker, strayed, disturbed>>

Duplicate(u) ==
    /\ AtUpload(u, "spooled") /\ upload[u].document \in Known
    /\ OfUpload(u, Rest)
    /\ UNCHANGED <<files, records, scan, requeue, admin, worker, strayed, disturbed>>

\* The look at doc-status and, when the name is free, the move: one step.
PlaceFree(u) ==
    /\ AtUpload(u, "spooled") /\ upload[u].document \notin Known
    /\ files[Plain] = NoDocument
    /\ files' = [files EXCEPT ![Plain] = upload[u].document]
    /\ OfUpload(u, [upload[u] EXCEPT !.pc = "enqueue", !.dest = Plain])
    /\ UNCHANGED <<records, scan, requeue, admin, worker, strayed, disturbed>>

\* The name is taken: its file is hashed in a thread.
FindHomonym(u) ==
    /\ AtUpload(u, "spooled") /\ upload[u].document \notin Known
    /\ files[Plain] # NoDocument
    /\ OfUpload(u, [upload[u] EXCEPT !.pc = "compare"])
    /\ UNCHANGED <<files, records, scan, requeue, admin, worker, strayed, disturbed>>

\* A file that is gone by now is another one.
CompareHomonym(u) ==
    /\ AtUpload(u, "compare")
    /\ OfUpload(u, [upload[u] EXCEPT
          !.pc = IF files[Plain] = upload[u].document THEN "same" ELSE "other"])
    /\ UNCHANGED <<files, records, scan, requeue, admin, worker, strayed, disturbed>>

\* A mutant: the upload takes its name, whoever has it.
DestAnyway(u) == Plain

Dest(u) == IF AtUpload(u, "same") THEN Plain ELSE Qualified(upload[u].document)

PlaceBesideHomonym(u) ==
    /\ AtUpload(u, "same") \/ AtUpload(u, "other")
    /\ files' = [files EXCEPT ![Dest(u)] = upload[u].document]
    /\ OfUpload(u, [upload[u] EXCEPT !.pc = "enqueue", !.dest = Dest(u)])
    /\ UNCHANGED <<records, scan, requeue, admin, worker, strayed, disturbed>>

EnqueueUpload(u) ==
    /\ AtUpload(u, "enqueue")
    /\ records' = [records EXCEPT ![upload[u].document] = Entry("pending", upload[u].dest)]
    /\ OfUpload(u, Rest)
    /\ UNCHANGED <<files, scan, requeue, admin, worker, strayed, disturbed>>

\* The file stays, for a scan to find.
EnqueueUploadFails(u) ==
    /\ AtUpload(u, "enqueue")
    /\ OfUpload(u, Rest)
    /\ UNCHANGED <<files, records, scan, requeue, admin, worker, strayed, disturbed>>

UploadStep(u) ==
    \/ \E d \in Document : Spool(u, d)
    \/ UploadStops(u) \/ Duplicate(u) \/ PlaceFree(u) \/ FindHomonym(u)
    \/ CompareHomonym(u) \/ PlaceBesideHomonym(u) \/ EnqueueUpload(u) \/ EnqueueUploadFails(u)

-----------------------------------------------------------------------------
\* POST /scan, path by path; what fails with one path is logged.

OfScan(s) == scan' = s /\ UNCHANGED <<files, upload, requeue, admin, worker, strayed, disturbed>>

ListFolder ==
    /\ scan.pc = "idle"
    /\ OfScan([scan EXCEPT !.pc = "next", !.left = {p \in Path : files[p] # NoDocument}])
    /\ UNCHANGED records

HashFile(p) ==
    /\ scan.pc = "next" /\ p \in scan.left
    /\ OfScan(IF files[p] = NoDocument THEN [scan EXCEPT !.left = @ \ {p}]
              ELSE [pc |-> "look", left |-> scan.left \ {p}, path |-> p, document |-> files[p]])
    /\ UNCHANGED records

Worth(d) == records[d].status \in {"none", "failed"}

Skip ==
    /\ scan.pc = "look" /\ ~Worth(scan.document)
    /\ OfScan([NoScan EXCEPT !.pc = "next", !.left = scan.left])
    /\ UNCHANGED records

LookUp ==
    /\ scan.pc = "look" /\ Worth(scan.document)
    /\ OfScan([scan EXCEPT !.pc = "enqueue"])
    /\ UNCHANGED records

EnqueueFound ==
    /\ scan.pc = "enqueue"
    /\ records' = [records EXCEPT ![scan.document] = Entry("pending", scan.path)]
    /\ OfScan([NoScan EXCEPT !.pc = "next", !.left = scan.left])

EndScan ==
    /\ scan.pc = "next" /\ scan.left = {}
    /\ OfScan(NoScan)
    /\ UNCHANGED records

ScanStep ==
    ListFolder \/ (\E p \in Path : HashFile(p)) \/ Skip \/ LookUp \/ EnqueueFound \/ EndScan

-----------------------------------------------------------------------------
\* POST /{doc_id}/requeue: the record is read, and written back as PENDING.

RequeueRead(d) ==
    /\ requeue = NoRetry /\ d \in Known /\ records[d].status # "processed"
    /\ requeue' = [document |-> d, record |-> records[d]]
    /\ UNCHANGED <<files, records, upload, scan, admin, worker, strayed, disturbed>>

RequeueWrite ==
    /\ requeue # NoRetry
    /\ records' = [records EXCEPT ![requeue.document] = Entry("pending", requeue.record.path)]
    /\ requeue' = NoRetry
    /\ UNCHANGED <<files, upload, scan, admin, worker, strayed, disturbed>>

-----------------------------------------------------------------------------
\* Delete and clear, under the pipeline lock that the worker takes too.

LockFree == admin = NoAdmin /\ worker = NoWorker

\* Requests that have seen a file or a record that may now go.
Midway ==
    \/ \E u \in Uploader : upload[u].pc \in {"same", "enqueue"}
    \/ scan.pc # "idle" \/ requeue # NoRetry

BeginRemoval(documents, withFiles) ==
    /\ LockFree /\ documents # {}
    /\ admin' = [pc |-> "read", documents |-> documents, withFiles |-> withFiles]
    /\ UNCHANGED <<files, records, upload, scan, requeue, worker, strayed, disturbed>>

RemoveOne(d, withFiles) == d \in Known /\ BeginRemoval({d}, withFiles)
RemoveAll(withFiles) == BeginRemoval(Document, withFiles)

Whole == admin.documents = Document

\* Before any record is dropped; a clear takes every file in the folder.
Unlinked ==
    IF ~admin.withFiles THEN {}
    ELSE IF Whole THEN Path
    ELSE {records[d].path : d \in admin.documents \cap Known}

\* _safe_unlink: a path that holds no file is passed over.
Unlinking(paths) == files' = [p \in Path |-> IF p \in paths THEN NoDocument ELSE files[p]]

Unlink ==
    /\ admin.pc = "read"
    /\ Unlinking(Unlinked)
    /\ admin' = [admin EXCEPT !.pc = "unlinked"]
    /\ disturbed' = (disturbed \/ (admin.withFiles /\ Midway))
    /\ UNCHANGED <<records, upload, scan, requeue, worker, strayed>>

DeleteRecords ==
    /\ admin.pc = "unlinked"
    /\ records' = [d \in Document |-> IF d \in admin.documents THEN NoRecord ELSE records[d]]
    /\ admin' = NoAdmin
    /\ disturbed' = (disturbed \/ (admin.withFiles /\ Midway))
    /\ UNCHANGED <<files, upload, scan, requeue, worker, strayed>>

\* A store fails in between: the records stay, their files are gone.
RemovalFails ==
    /\ admin.pc = "unlinked"
    /\ admin' = NoAdmin
    /\ disturbed' = (disturbed \/ admin.withFiles)
    /\ UNCHANGED <<files, records, upload, scan, requeue, worker, strayed>>

RemovalStep ==
    \/ \E withFiles \in BOOLEAN : RemoveAll(withFiles) \/ \E d \in Document : RemoveOne(d, withFiles)
    \/ Unlink \/ DeleteRecords \/ RemovalFails

-----------------------------------------------------------------------------
\* process_pending.

ListPending ==
    LET pending == {d \in Known : records[d].status = "pending"}
    IN  /\ LockFree /\ pending # {}
        /\ worker' = [NoWorker EXCEPT !.pc = "next", !.todo = [d \in pending |-> records[d]]]
        /\ UNCHANGED <<files, records, upload, scan, requeue, admin, strayed, disturbed>>

\* A file that is gone is looked for under its base name at the top.
Opened(p) == IF files[p] # NoDocument \/ p.digest # NoDocument THEN p ELSE Plain

BeginParse(d) ==
    LET path == worker.todo[d].path
    IN  /\ worker.pc = "next" /\ d \in DOMAIN worker.todo
        /\ records' = [records EXCEPT ![d] = Entry("parsing", path)]
        /\ worker' = [worker EXCEPT !.pc = "parse", !.document = d, !.source = Opened(path),
              !.todo = [e \in DOMAIN worker.todo \ {d} |-> worker.todo[e]]]
        /\ UNCHANGED <<files, upload, scan, requeue, admin, strayed, disturbed>>

Parsed(status, bytes) ==
    /\ records' = [records EXCEPT ![worker.document].status = status]
    /\ strayed' = (strayed \/ bytes \notin {NoDocument, worker.document})
    /\ worker' = [NoWorker EXCEPT !.pc = "next", !.todo = worker.todo]
    /\ UNCHANGED <<files, upload, scan, requeue, admin, disturbed>>

ParseFile ==
    /\ worker.pc = "parse" /\ files[worker.source] # NoDocument
    /\ \/ Parsed("processed", files[worker.source])
       \/ Parsed("failed", files[worker.source])

SourceMissing ==
    /\ worker.pc = "parse" /\ files[worker.source] = NoDocument
    /\ Parsed("failed", NoDocument)

WorkerDone ==
    /\ worker.pc = "next" /\ DOMAIN worker.todo = {}
    /\ worker' = NoWorker
    /\ UNCHANGED <<files, records, upload, scan, requeue, admin, strayed, disturbed>>

WorkStep ==
    ListPending \/ (\E d \in Document : BeginParse(d)) \/ ParseFile \/ SourceMissing \/ WorkerDone

FolderNext ==
    \/ \E u \in Uploader : UploadStep(u)
    \/ ScanStep
    \/ (\E d \in Document : RequeueRead(d)) \/ RequeueWrite
    \/ RemovalStep
    \/ WorkStep

FolderSpec == FolderInit /\ [][FolderNext]_folderVars

-----------------------------------------------------------------------------
\* Two documents of one name never share a file: every record names a file
\* that holds its document, until a delete takes it, and a document is only
\* ever parsed from its own bytes.  Deletes that take files along while a
\* request is midway, or that fail midway, are the exception the code leaves.
OwnSource ==
    ~disturbed =>
        /\ \A d \in Known :
              (d \in admin.documents /\ admin.pc = "unlinked") \/ files[records[d].path] = d
        /\ ~strayed
================================================================================
