------------------------------- MODULE Outbox -------------------------------
(***************************************************************************)
(* The transactional outbox (modules/outbox, workers/tasks/outbox.py): an  *)
(* event is enqueued with the business operation, and workers drain it in  *)
(* batches, with redelivery after a crash and backoff after a failure.     *)
(*                                                                         *)
(* Time is the number of thirty-second units an event still has to wait.   *)
(* The order of a batch by available_at is left open: no row starves by it *)
(* since a row that fails max_attempts times leaves the queue.             *)
(***************************************************************************)
EXTENDS Integers, FiniteSets, FiniteSetsExt

CONSTANTS
    Event,          \* outbox_events rows
    Worker,         \* worker processes that run the drain task
    BatchSize,      \* settings.outbox_batch_size
    MaxAttempts,    \* settings.outbox_max_attempts
    MaxCrashes      \* bound: worker deaths during a drain

ASSUME SettingsAssumption == BatchSize \in Nat \ {0} /\ MaxAttempts \in Nat \ {0}
ASSUME CrashAssumption == MaxCrashes \in Nat

VARIABLES
    enqueued,   \* events committed with their business operation
    row,        \* committed attempts, sent_at, last_error and wait until available_at
    claimedBy,  \* workers that hold each row FOR UPDATE
    image,      \* the uncommitted row of a held event
    batch,      \* claimed events each worker has not dispatched yet
    draining,   \* workers inside drain
    delivered,  \* times the side effect of each event happened
    crashes     \* worker deaths so far

outbox == <<enqueued, row, claimedBy, image, batch, draining, delivered, crashes>>

OutboxRow == [attempts : 0..MaxAttempts, sent : BOOLEAN, failed : BOOLEAN, wait : Nat]
NewRow == [attempts |-> 0, sent |-> FALSE, failed |-> FALSE, wait |-> 0]

\* BACKOFF_BASE_SECONDS * 2^(attempts - 1), at most BACKOFF_MAX_SECONDS, in units
\* of the base: 30, 60, ..., 1920 seconds, then always 3600.
Backoff(attempts) == IF attempts \in 1..7 THEN <<1, 2, 4, 8, 16, 32, 64>>[attempts] ELSE 120

\* The row is added to the business transaction and commits with it.
Enqueue(e) ==
    /\ e \notin enqueued
    /\ enqueued' = enqueued \cup {e}
    /\ UNCHANGED <<row, claimedBy, image, batch, draining, delivered, crashes>>

\* The WHERE clause of the drain query.
Due(e) ==
    /\ e \in enqueued
    /\ ~row[e].sent
    /\ row[e].wait = 0
    /\ row[e].attempts < MaxAttempts

\* FOR UPDATE SKIP LOCKED
Claimable == {e \in Event : Due(e) /\ claimedBy[e] = {}}

\* The LIMIT: a full batch, or all there is.
FullBatch(B) == Cardinality(B) = Min({BatchSize, Cardinality(Claimable)})

Claim(w, B) ==
    /\ w \notin draining
    /\ B # {}
    /\ FullBatch(B)
    /\ draining' = draining \cup {w}
    /\ batch' = [batch EXCEPT ![w] = B]
    /\ claimedBy' = [e \in Event |-> IF e \in B THEN claimedBy[e] \cup {w} ELSE claimedBy[e]]
    /\ image' = [e \in Event |-> IF e \in B THEN row[e] ELSE image[e]]
    /\ UNCHANGED <<enqueued, row, delivered, crashes>>

\* Mistake: attempts counts only the sends that succeed.
FailedUncounted(r) == [r EXCEPT !.failed = TRUE, !.wait = Backoff(r.attempts + 1)]

Sent(r) == [r EXCEPT !.attempts = @ + 1, !.sent = TRUE, !.failed = FALSE]
Failed(r) == [r EXCEPT !.attempts = @ + 1, !.failed = TRUE, !.wait = Backoff(r.attempts + 1)]

\* The side effect happens while the row is locked and uncommitted.
Dispatched(w, e, r, copies) ==
    /\ e \in batch[w]
    /\ image' = [image EXCEPT ![e] = r]
    /\ batch' = [batch EXCEPT ![w] = @ \ {e}]
    /\ delivered' = [delivered EXCEPT ![e] = @ + copies]
    /\ UNCHANGED <<enqueued, row, claimedBy, draining, crashes>>

Dispatch(w, e) == Dispatched(w, e, Sent(image[e]), 1)

\* An exception: nothing went out, or it did and the reply was lost.
DispatchFails(w, e) == \E copies \in {0, 1} : Dispatched(w, e, Failed(image[e]), copies)

Unclaimed(w) == [e \in Event |-> claimedBy[e] \ {w}]

CommitDrain(w) ==
    /\ w \in draining
    /\ batch[w] = {}
    /\ row' = [e \in Event |-> IF w \in claimedBy[e] THEN image[e] ELSE row[e]]
    /\ claimedBy' = Unclaimed(w)
    /\ draining' = draining \ {w}
    /\ UNCHANGED <<enqueued, image, batch, delivered, crashes>>

\* Mistake: a worker that dies keeps its rows.
CrashHolding(w) ==
    /\ w \in draining
    /\ crashes < MaxCrashes
    /\ crashes' = crashes + 1
    /\ batch' = [batch EXCEPT ![w] = {}]
    /\ draining' = draining \ {w}
    /\ UNCHANGED <<enqueued, row, claimedBy, image, delivered>>

\* The worker dies, or its commit fails: every mark of the batch is rolled back.
CrashWorker(w) ==
    /\ w \in draining
    /\ crashes < MaxCrashes
    /\ crashes' = crashes + 1
    /\ claimedBy' = Unclaimed(w)
    /\ batch' = [batch EXCEPT ![w] = {}]
    /\ draining' = draining \ {w}
    /\ UNCHANGED <<enqueued, row, image, delivered>>

\* Thirty seconds pass.
Tick ==
    /\ \E e \in Event : row[e].wait > 0
    /\ row' = [e \in Event |-> [row[e] EXCEPT !.wait = IF @ > 0 THEN @ - 1 ELSE 0]]
    /\ UNCHANGED <<enqueued, claimedBy, image, batch, draining, delivered, crashes>>

OutboxInit ==
    /\ enqueued = {}
    /\ row = [e \in Event |-> NewRow]
    /\ claimedBy = [e \in Event |-> {}]
    /\ image = [e \in Event |-> NewRow]
    /\ batch = [w \in Worker |-> {}]
    /\ draining = {}
    /\ delivered = [e \in Event |-> 0]
    /\ crashes = 0

Drain(w) ==
    \/ \E e \in Event : Dispatch(w, e) \/ DispatchFails(w, e)
    \/ CommitDrain(w)

OutboxNext ==
    \/ \E e \in Event : Enqueue(e)
    \/ \E w \in Worker : (\E B \in SUBSET Claimable : Claim(w, B)) \/ Drain(w) \/ CrashWorker(w)
    \/ Tick

OutboxSpec == OutboxInit /\ [][OutboxNext]_outbox

\* Beat schedules the drain task for ever, a task that started goes on, and time
\* passes.
OutboxFairSpec ==
    /\ OutboxSpec
    /\ WF_outbox(Tick)
    /\ WF_outbox(\E w \in Worker, B \in SUBSET Claimable : Claim(w, B))
    /\ \A w \in Worker : WF_outbox(Drain(w))

-----------------------------------------------------------------------------
\* Every variable holds a value of its column's or worker's shape; attempts
\* never exceeds max_attempts.
OutboxTypeOK ==
    /\ enqueued \subseteq Event
    /\ row \in [Event -> OutboxRow]
    /\ claimedBy \in [Event -> SUBSET Worker]
    /\ image \in [Event -> OutboxRow]
    /\ batch \in [Worker -> SUBSET Event]
    /\ draining \subseteq Worker
    /\ delivered \in [Event -> Nat]
    /\ crashes \in Nat

\* No message is lost: what is marked sent was delivered.
SentWasDelivered == \A e \in Event : row[e].sent => delivered[e] > 0

\* An event reaches its consumer more often than it was attempted only because
\* workers died, once for each death.
DuplicatesOnlyByCrash ==
    \A e \in Event :
        claimedBy[e] = {} => delivered[e] <= row[e].attempts + crashes

\* An event that ran out of attempts is left unsent with its error recorded.
GivenUpKeepsError ==
    \A e \in Event : row[e].attempts = MaxAttempts /\ ~row[e].sent => row[e].failed

\* A sent event is never touched or delivered again.
SentIsFinal ==
    [][\A e \in Event : row[e].sent => row'[e] = row[e] /\ delivered'[e] = delivered[e]]_outbox

Settled(e) == row[e].sent \/ row[e].attempts = MaxAttempts

\* Every enqueued event is sent in the end, or given up.
EveryEventSettles == \A e \in Event : e \in enqueued ~> Settled(e)
=============================================================================
