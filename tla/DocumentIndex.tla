--------------------------- MODULE DocumentIndex ---------------------------
(***************************************************************************)
(* Uploaded documents in three stores that share no transaction: rows in   *)
(* the database, bytes in the object store and vectors in the vector store *)
(* (modules/documents/service.py, workers/tasks/documents.py).  Requests   *)
(* put tasks on a queue through an event in the transaction of their row   *)
(* (Outbox delivers it, possibly twice, or gives it up); workers run them  *)
(* and are retried, die with or without their task and lose their database *)
(* connection.  An indexing worker holds the document's row from its first *)
(* flush to its commit.  The chunks of a document are written, stored and  *)
(* erased together and are one element here, and the scanner gives the     *)
(* same bytes the same verdict every time.                                 *)
(***************************************************************************)
EXTENDS Integers

CONSTANTS
    Doc,                \* documents that may be uploaded
    Indexer,            \* worker processes that run document tasks
    Scan,               \* settings.antivirus_enabled
    MaxRetries,         \* max_retries of documents.index, 3 in the code
    MaxCleanupRetries,  \* max_retries of documents.cleanup, 5 in the code
    MaxReindexes,       \* bound: requests to index again
    MaxFaults           \* bound: failed calls, deaths, lost connections, duplicates, events given up

ASSUME DocumentAssumption ==
    /\ Scan \in BOOLEAN
    /\ {MaxRetries, MaxCleanupRetries, MaxReindexes, MaxFaults} \subseteq Nat

VARIABLES
    content,    \* of each document, never changed: text, malware or nothing to extract
    status,     \* documents.status; "none" before, "uploading" in and "gone" after the row's life
    chunks,     \* documents with committed chunk rows
    objects,    \* documents with bytes in the object store
    vectors,    \* documents with vectors in the vector store
    queue,      \* how many deliveries of each task are waiting
    worker,     \* what each worker is doing
    sweep,      \* the reconciliation task
    reindexes, faults   \* counters of the bounds

documents == <<content, status, chunks, objects, vectors, queue, worker, sweep, reindexes, faults>>

DocumentStatus == {"PENDING", "PENDING_SCAN", "EXTRACTING", "INDEXED", "FAILED"}
Exists(d) == status[d] \in DocumentStatus

Task == [kind : {"index", "cleanup"}, doc : Doc, retries : 0..(MaxRetries + MaxCleanupRetries)]
Idle == [pc |-> "idle"]
Working(w) == worker[w].pc # "idle"

\* The row lock of a document, held by an open transaction of a worker.
Indexing == {"locked", "condemned", "unreadable", "erased", "written", "stored"}
\* Before and after it, and the steps of a cleanup.
Waiting == {"index", "exhausted", "marking"}
Cleaning == {"cleanup", "cleaned"}
HoldsRow(w, d) == worker[w].pc \in Indexing /\ worker[w].connected /\ worker[w].task.doc = d
RowFree(d) == \A w \in Indexer : ~HoldsRow(w, d)

Queued == {t \in Task : queue[t] > 0}
Deliver(t) == queue' = [queue EXCEPT ![t] = @ + 1]

\* The outbox delivers the event of a request, or gives it up after its last attempt.
EnqueueTask(kind, d) ==
    \/ Deliver([kind |-> kind, doc |-> d, retries |-> 0]) /\ UNCHANGED faults
    \/ faults < MaxFaults /\ faults' = faults + 1 /\ UNCHANGED queue

Another(t) == [t EXCEPT !.retries = @ + 1]

DocumentsTypeOK ==
    /\ content \in [Doc -> {"text", "malware", "nothing"}]
    /\ status \in [Doc -> DocumentStatus \cup {"none", "uploading", "gone"}]
    /\ {chunks, objects, vectors} \subseteq SUBSET Doc
    /\ queue \in [Task -> Nat]
    /\ worker \in [Indexer -> {Idle} \cup [pc : Indexing \cup Waiting \cup Cleaning, task : Task,
                                           connected : BOOLEAN]]
    /\ sweep \in [pc : {"idle", "keys", "rows"}, found : SUBSET Doc]
    /\ reindexes \in 0..MaxReindexes /\ faults \in 0..MaxFaults

----------------------------------------------------------------------------
(* Requests *)

put(d) == objects' = objects \cup {d}

\* The bytes are stored before the transaction that inserts the row commits.
UploadPut(d) ==
    /\ status[d] = "none"
    /\ status' = [status EXCEPT ![d] = "uploading"]
    /\ put(d)
    /\ UNCHANGED <<content, chunks, vectors, queue, worker, sweep, reindexes, faults>>

UploadCommit(d) ==
    /\ status[d] = "uploading"
    /\ status' = [status EXCEPT ![d] = "PENDING"]
    /\ EnqueueTask("index", d)
    /\ UNCHANGED <<content, chunks, objects, vectors, worker, sweep, reindexes>>

UploadRollback(d) ==
    /\ status[d] = "uploading" /\ faults < MaxFaults
    /\ status' = [status EXCEPT ![d] = "gone"]
    /\ faults' = faults + 1
    /\ UNCHANGED <<content, chunks, objects, vectors, queue, worker, sweep, reindexes>>

\* A status that does not change is not written, and waits for no lock.
mark_pending_for_reindex(d) ==
    /\ Exists(d) /\ reindexes < MaxReindexes
    /\ status[d] = "PENDING" \/ RowFree(d)
    /\ status' = [status EXCEPT ![d] = "PENDING"]
    /\ EnqueueTask("index", d)
    /\ reindexes' = reindexes + 1
    /\ UNCHANGED <<content, chunks, objects, vectors, worker, sweep>>

Deletable(d) == Exists(d) /\ RowFree(d)

Cleanup(d) == EnqueueTask("cleanup", d)

\* The foreign key of the chunk rows, ON DELETE CASCADE.
Cascade(d) == chunks \ {d}

delete(d) ==
    /\ Deletable(d)
    /\ status' = [status EXCEPT ![d] = "gone"]
    /\ chunks' = Cascade(d)
    /\ Cleanup(d)
    /\ UNCHANGED <<content, objects, vectors, worker, sweep, reindexes>>

----------------------------------------------------------------------------
(* Workers *)

\* A task is acknowledged when it is done: it stays with the worker until then.
Take(w) ==
    /\ ~Working(w)
    /\ \E t \in Queued :
        /\ queue' = [queue EXCEPT ![t] = @ - 1]
        /\ worker' = [worker EXCEPT ![w] = [pc |-> t.kind, task |-> t, connected |-> TRUE]]
    /\ UNCHANGED <<content, status, chunks, objects, vectors, sweep, reindexes, faults>>

At(w, pc) == Working(w) /\ worker[w].pc = pc
Goto(w, pc) == worker' = [worker EXCEPT ![w].pc = pc]
Done(w) == worker' = [worker EXCEPT ![w] = Idle]

\* _get finds the row; its update waits for the lock.
Lock(w) ==
    LET d == worker[w].task.doc
    IN  /\ At(w, "index")
        /\ Exists(d) /\ RowFree(d)
        /\ Goto(w, "locked")
        /\ UNCHANGED <<content, status, chunks, objects, vectors, queue, sweep, reindexes, faults>>

\* What the scanner and the extraction find in the bytes.
Infected(d) == Scan /\ content[d] = "malware"
Extractable(d) == content[d] # "nothing"

\* The bytes are read, scanned and extracted; then the old vectors are erased.
Condemn(w) ==
    LET d == worker[w].task.doc
    IN  /\ At(w, "locked") /\ d \in objects
        /\ Infected(d)
        /\ objects' = objects \ {d}
        /\ Goto(w, "condemned")
        /\ UNCHANGED <<content, status, chunks, vectors, queue, sweep, reindexes, faults>>

Extract(w) ==
    LET d == worker[w].task.doc
    IN  /\ At(w, "locked") /\ d \in objects
        /\ ~Infected(d) /\ ~Extractable(d)
        /\ Goto(w, "unreadable")
        /\ UNCHANGED <<content, status, chunks, objects, vectors, queue, sweep, reindexes, faults>>

Erase(w) ==
    LET d == worker[w].task.doc
    IN  /\ At(w, "locked") /\ d \in objects
        /\ ~Infected(d) /\ Extractable(d)
        /\ vectors' = vectors \ {d}
        /\ Goto(w, "erased")
        /\ UNCHANGED <<content, status, chunks, objects, queue, sweep, reindexes, faults>>

\* The chunk rows are replaced; what follows is the slow embedding.
WriteChunks(w) ==
    /\ At(w, "erased") /\ worker[w].connected
    /\ Goto(w, "written")
    /\ UNCHANGED <<content, status, chunks, objects, vectors, queue, sweep, reindexes, faults>>

Stored(d) == vectors \cup {d}

\* No call to the database tells whether the transaction is still there.
Upsert(w) ==
    LET d == worker[w].task.doc
    IN  /\ At(w, "written")
        /\ vectors' = Stored(d)
        /\ Goto(w, "stored")
        /\ UNCHANGED <<content, status, chunks, objects, queue, sweep, reindexes, faults>>

CommitIndexed(w) ==
    LET d == worker[w].task.doc
    IN  /\ At(w, "stored") /\ worker[w].connected
        /\ status' = [status EXCEPT ![d] = "INDEXED"]
        /\ chunks' = chunks \cup {d}
        /\ Done(w)
        /\ UNCHANGED <<content, objects, vectors, queue, sweep, reindexes, faults>>

CommitFailed(w) ==
    LET d == worker[w].task.doc
    IN  /\ worker[w].pc \in {"condemned", "unreadable"} /\ worker[w].connected
        /\ status' = [status EXCEPT ![d] = "FAILED"]
        /\ Done(w)
        /\ UNCHANGED <<content, chunks, objects, vectors, queue, sweep, reindexes, faults>>

\* Mistake: a transaction that is gone is not noticed.
HopelessOnline(w) ==
    \/ worker[w].pc = "index" /\ ~Exists(worker[w].task.doc)
    \/ worker[w].pc = "locked" /\ worker[w].task.doc \notin objects

\* The call that comes next cannot succeed.
Hopeless(w) ==
    \/ worker[w].pc = "index" /\ ~Exists(worker[w].task.doc)
    \/ worker[w].pc = "locked" /\ worker[w].task.doc \notin objects
    \/ worker[w].pc \in Indexing /\ ~worker[w].connected

\* autoretry_for: another attempt, or after the last one _mark_failed.
GiveUp(w) == queue' = queue /\ Goto(w, "exhausted")

Retry(w) ==
    LET t == worker[w].task
    IN  IF t.retries < MaxRetries
        THEN /\ Deliver(Another(t))
             /\ Done(w)
        ELSE GiveUp(w)

FailIndex(w) ==
    /\ worker[w].pc \in Indexing \cup {"index"}
    /\ \/ Hopeless(w) /\ UNCHANGED faults
       \/ ~Hopeless(w) /\ faults < MaxFaults /\ faults' = faults + 1
    /\ Retry(w)
    /\ UNCHANGED <<content, status, chunks, objects, vectors, sweep, reindexes>>

\* _mark_failed reads the status without a lock, and writes when the row is free.
MarkRead(w) ==
    LET d == worker[w].task.doc
    IN  /\ At(w, "exhausted")
        /\ IF Exists(d) /\ status[d] # "INDEXED" THEN Goto(w, "marking") ELSE Done(w)
        /\ UNCHANGED <<content, status, chunks, objects, vectors, queue, sweep, reindexes, faults>>

MarkWrite(w) ==
    LET d == worker[w].task.doc
    IN  /\ At(w, "marking") /\ RowFree(d)
        /\ status' = IF Exists(d) THEN [status EXCEPT ![d] = "FAILED"] ELSE status
        /\ Done(w)
        /\ UNCHANGED <<content, chunks, objects, vectors, queue, sweep, reindexes, faults>>

\* _mark_failed runs in the handler of the last failure, and nothing tries it again.
FailMark(w) ==
    /\ worker[w].pc \in {"exhausted", "marking"}
    /\ faults < MaxFaults /\ faults' = faults + 1
    /\ Done(w)
    /\ UNCHANGED <<content, status, chunks, objects, vectors, queue, sweep, reindexes>>

CleanVectors(w) ==
    /\ At(w, "cleanup")
    /\ vectors' = vectors \ {worker[w].task.doc}
    /\ Goto(w, "cleaned")
    /\ UNCHANGED <<content, status, chunks, objects, queue, sweep, reindexes, faults>>

CleanObject(w) ==
    /\ At(w, "cleaned")
    /\ objects' = objects \ {worker[w].task.doc}
    /\ Done(w)
    /\ UNCHANGED <<content, status, chunks, vectors, queue, sweep, reindexes, faults>>

\* After the last attempt the object stays.
FailCleanup(w) ==
    LET t == worker[w].task
    IN  /\ worker[w].pc \in Cleaning
        /\ faults < MaxFaults /\ faults' = faults + 1
        /\ IF t.retries < MaxCleanupRetries THEN Deliver(Another(t)) ELSE UNCHANGED queue
        /\ Done(w)
        /\ UNCHANGED <<content, status, chunks, objects, vectors, sweep, reindexes>>

\* Mistake: the answer of the vector store is returned as it is.
search_unjoined == vectors

\* What a search may return: a vector that has a committed row.
search == vectors \cap chunks

----------------------------------------------------------------------------
(* Faults *)

\* The broker delivers the task of a dead worker again; the task of a child process
\* that dies alone is acknowledged and lost (no task_reject_on_worker_lost).
WorkerLost(w) ==
    /\ Working(w) /\ faults < MaxFaults
    /\ Deliver(worker[w].task) \/ UNCHANGED queue
    /\ Done(w)
    /\ faults' = faults + 1
    /\ UNCHANGED <<content, status, chunks, objects, vectors, sweep, reindexes>>

\* The database rolls the transaction back; the worker notices at its next call.
LoseConnection(w) ==
    /\ worker[w].pc \in Indexing /\ worker[w].connected /\ faults < MaxFaults
    /\ worker' = [worker EXCEPT ![w].connected = FALSE]
    /\ faults' = faults + 1
    /\ UNCHANGED <<content, status, chunks, objects, vectors, queue, sweep, reindexes>>

DeliverTwice(t) ==
    /\ faults < MaxFaults
    /\ Deliver(t)
    /\ faults' = faults + 1
    /\ UNCHANGED <<content, status, chunks, objects, vectors, worker, sweep, reindexes>>

----------------------------------------------------------------------------
(* Reconciliation: keys, then rows in a transaction of their own, then the difference *)

SweepKeys ==
    /\ sweep.pc = "idle"
    /\ vectors # {}
    /\ sweep' = [pc |-> "keys", found |-> vectors]
    /\ UNCHANGED <<content, status, chunks, objects, vectors, queue, worker, reindexes, faults>>

\* Mistake: only chunks of documents that exist are looked at.
OrphansOfExisting(keys) == {d \in keys \ chunks : Exists(d)}

Orphans(keys) == keys \ chunks

SweepRows ==
    /\ sweep.pc = "keys"
    /\ sweep' = [pc |-> "rows", found |-> Orphans(sweep.found)]
    /\ UNCHANGED <<content, status, chunks, objects, vectors, queue, worker, reindexes, faults>>

SweepDelete ==
    /\ sweep.pc = "rows"
    /\ vectors' = vectors \ sweep.found
    /\ sweep' = [pc |-> "idle", found |-> {}]
    /\ UNCHANGED <<content, status, chunks, objects, queue, worker, reindexes, faults>>

----------------------------------------------------------------------------
DocumentsInit ==
    /\ content \in [Doc -> {"text", "malware", "nothing"}]
    /\ status = [d \in Doc |-> "none"]
    /\ chunks = {} /\ objects = {} /\ vectors = {} /\ queue = [t \in Task |-> 0]
    /\ worker = [w \in Indexer |-> Idle]
    /\ sweep = [pc |-> "idle", found |-> {}]
    /\ reindexes = 0 /\ faults = 0

Run(w) ==
    \/ Lock(w) \/ Condemn(w) \/ Extract(w) \/ Erase(w) \/ WriteChunks(w) \/ Upsert(w)
    \/ CommitIndexed(w) \/ CommitFailed(w) \/ MarkRead(w) \/ MarkWrite(w)
    \/ CleanVectors(w) \/ CleanObject(w)
Fault(w) == FailMark(w) \/ FailCleanup(w) \/ WorkerLost(w) \/ LoseConnection(w)
Sweep == SweepKeys \/ SweepRows \/ SweepDelete

DocumentsNext ==
    \/ \E d \in Doc : \/ UploadPut(d) \/ UploadCommit(d) \/ UploadRollback(d)
                      \/ mark_pending_for_reindex(d) \/ delete(d)
    \/ \E w \in Indexer : Take(w) \/ Run(w) \/ FailIndex(w) \/ Fault(w)
    \/ \E t \in Queued : DeliverTwice(t)
    \/ Sweep

\* Workers take and finish tasks, and beat starts the sweep again and again.
\* A call that cannot succeed fails; nobody has to upload, delete or fail.
Fairness ==
    /\ \A w \in Indexer : WF_documents(Take(w)) /\ WF_documents(Run(w)) /\ WF_documents(Hopeless(w) /\ FailIndex(w))
    /\ WF_documents(Sweep)

DocumentsSpec == DocumentsInit /\ [][DocumentsNext]_documents /\ Fairness

----------------------------------------------------------------------------
(* What a search returns belongs to a document that exists and that the    *)
(* scanner let pass, from the moment a deletion commits, though its        *)
(* vectors go later and a run without a transaction may store them again;  *)
(* and a document marked INDEXED has its chunk rows, whichever of two runs *)
(* of it committed last.                                                   *)
SearchIsSound ==
    /\ \A d \in search : Exists(d) /\ ~Infected(d)
    /\ \A d \in Doc : status[d] = "INDEXED" => d \in chunks

(* Deletion is total for the vector store: once a document's row is gone   *)
(* its vectors go for good, also when the clean-up is lost or given up and *)
(* when a run without a transaction stores them after it.                  *)
DeletedLeavesNoVectors == \A d \in Doc : status[d] = "gone" ~> [](d \notin vectors)

(* Nobody waits for ever: every task that is queued is taken and every     *)
(* worker gets through its own, though two runs want one row, the holder   *)
(* of a row dies or loses its connection, and a document or its bytes are  *)
(* gone.                                                                   *)
EveryTaskEnds ==
    /\ \A t \in Task : queue[t] > 0 ~> queue[t] = 0
    /\ \A w \in Indexer : Working(w) ~> ~Working(w)

============================================================================
