--------------------------- MODULE UploadPipeline ---------------------------
(***************************************************************************)
(* The sales-file import pipeline: ImportPipelineEngine of                 *)
(* backend/uploads/service.py, the endpoints that drive it                 *)
(* (backend/uploads/router.py, logout in backend/auth/router.py), and the  *)
(* parts of backend/db/supabase_client.py that several server instances    *)
(* share: the upload_batches rows, the fact and staging tables and the     *)
(* PostgreSQL advisory lock.                                               *)
(*                                                                         *)
(* An upload is one row of upload_batches and one background worker        *)
(* (process_file_upload_async).  The worker keeps its progress in its own  *)
(* process; everybody else only sees the row's status column.  Batches are *)
(* numbered in the order of created_at.  The cooldown that separates two   *)
(* uploads belongs to backend/core/system_lock.py: here it may always have *)
(* run out, so the only gate modelled is "no batch is active".             *)
(***************************************************************************)
EXTENDS Naturals, FiniteSets

CONSTANTS
    Instance,       \* server processes; each has its own memory
    MaxBatch,       \* bound: rows ever created in upload_batches
    Chunks,         \* parts that _bulk_insert cuts a table's records into
    AdvisoryLock,   \* does the database expose the advisory-lock RPCs?  (If so,
                    \* calls of them are taken not to fail.)
    MaxReading,     \* bound: requests one instance holds in file.read()
    MaxCancels,     \* bound: cancellations by users
    MaxAged,        \* bound: batches that outlive 9000 seconds
    MaxCrashes,     \* bound: instances that die
    MaxFaults       \* bound: database calls that fail for good

Batch == 1..MaxBatch

\* The staging table and the two fact tables, in the order they are filled.
Table == {"raw", "sales", "user"}
FactTable == {"sales", "user"}

ASSUME BoundsAssumption ==
    /\ Instance # {}
    /\ MaxBatch \in Nat /\ MaxReading \in Nat /\ MaxCancels \in Nat
    /\ MaxAged \in Nat /\ MaxCrashes \in Nat /\ MaxFaults \in Nat

ASSUME ChunksAssumption == Chunks \in [Table -> Nat \ {0}]

ASSUME AdvisoryLockAssumption == AdvisoryLock \in BOOLEAN

VARIABLES
    \* shared by all instances (the database)
    status,         \* upload_batches.status
    rows,           \* chunks whose records are all in their table
    torn,           \* chunks of which only some records are in their table
    lock,           \* is the advisory lock held?
    aged,           \* batches created more than 9000 seconds ago
    \* one worker per batch, inside the process host[b]
    pc, host,
    idx,            \* the chunk _bulk_insert is at
    checked,        \* has it passed the abort checks of that chunk?
    \* one per instance
    up,
    reading,        \* requests between the gate and create_initial_batch
    known,          \* _cancelled_batches
    cancelling,     \* batches whose cancel_batch has set the status, not purged
    resetting,      \* batches reset as stale or orphaned, not yet purged
    \* bounds
    cancels, crashes, faults,
    \* history, for the properties only
    interrupted,    \* someone other than the worker has written the status
    damaged,        \* a status write or a purge failed, or died half-way
    rolledBack      \* cancel_batch has answered "rolled back to 0"

dbVars      == <<status, rows, torn, lock, aged>>
workerVars  == <<pc, host, idx, checked>>
memVars     == <<up, reading, known, cancelling, resetting>>
boundVars   == <<cancels, crashes, faults>>
historyVars == <<interrupted, damaged, rolledBack>>

vars == <<dbVars, workerVars, memVars, boundVars, historyVars>>

-----------------------------------------------------------------------------

\* What the code ever stores in upload_batches.status: "running",
\* "aggregating" and the like stay in the worker's memory.
Active   == {"queued", "validated"}
Aborted  == {"failed", "cancelled"}
Terminal == Aborted \cup {"loaded"}
Status   == {"none"} \cup Active \cup Terminal

Row == [batch : Batch, table : Table, chunk : Nat \ {0}]

Part(b, t, c) == [batch |-> b, table |-> t, chunk |-> c]

\* Where the worker is.  The three tables name their _bulk_insert loops.
PC == {"none", "queued", "locking", "started", "parsed", "resolve",
       "raw", "validate", "ready", "promote", "sales", "populate", "user",
       "mapped", "aggregate", "load",
       "cancel_cleanup", "cancel_release",
       "fail_cleanup", "fail_status",
       "reject_cleanup", "reject_status", "reject_release",
       "release", "done", "dead"}

\* Doing import work: between the advisory lock and any of the exits.
Working == {"started", "parsed", "resolve", "raw", "validate", "ready",
            "promote", "sales", "populate", "user", "mapped", "aggregate", "load"}

TypeOK ==
    /\ status \in [Batch -> Status]
    /\ rows \subseteq Row
    /\ torn \subseteq Row
    /\ lock \in BOOLEAN
    /\ aged \subseteq Batch
    /\ pc \in [Batch -> PC]
    /\ host \in [Batch -> Instance]
    /\ idx \in [Batch -> Nat \ {0}]
    /\ checked \in [Batch -> BOOLEAN]
    /\ up \in [Instance -> BOOLEAN]
    /\ reading \in [Instance -> Nat]
    /\ known \in [Instance -> SUBSET Batch]
    /\ cancelling \in [Instance -> SUBSET Batch]
    /\ resetting \in [Instance -> SUBSET Batch]
    /\ cancels \in Nat
    /\ crashes \in Nat
    /\ faults \in Nat
    /\ interrupted \subseteq Batch
    /\ damaged \subseteq Batch
    /\ rolledBack \subseteq Batch

Init ==
    /\ status = [b \in Batch |-> "none"]
    /\ rows = {}
    /\ torn = {}
    /\ lock = FALSE
    /\ aged = {}
    /\ pc = [b \in Batch |-> "none"]
    /\ host = [b \in Batch |-> CHOOSE i \in Instance : TRUE]
    /\ idx = [b \in Batch |-> 1]
    /\ checked = [b \in Batch |-> FALSE]
    /\ up = [i \in Instance |-> FALSE]
    /\ reading = [i \in Instance |-> 0]
    /\ known = [i \in Instance |-> {}]
    /\ cancelling = [i \in Instance |-> {}]
    /\ resetting = [i \in Instance |-> {}]
    /\ cancels = 0
    /\ crashes = 0
    /\ faults = 0
    /\ interrupted = {}
    /\ damaged = {}
    /\ rolledBack = {}

-----------------------------------------------------------------------------
(***************************************************************************)
(* Writing a batch's status and deleting its records.                      *)
(***************************************************************************)

Fault ==
    /\ faults < MaxFaults
    /\ faults' = faults + 1

\* Mutant: the update only matches a row that is still queued.
SetStatusOnce(b, s) ==
    /\ status' = [status EXCEPT ![b] = IF @ \in {"none", "queued"} THEN s ELSE @]
    /\ UNCHANGED <<faults, damaged>>

\* Every caller logs a status update that fails and carries on.
SetStatus(b, s) ==
    \/ /\ status' = [status EXCEPT ![b] = s]
       /\ UNCHANGED <<faults, damaged>>
    \/ /\ Fault
       /\ damaged' = damaged \cup {b}
       /\ UNCHANGED status

DeleteRows(b, tables) ==
    /\ rows' = {r \in rows : ~(r.batch = b /\ r.table \in tables)}
    /\ torn' = {r \in torn : ~(r.batch = b /\ r.table \in tables)}

\* A purge in which every delete may fail on its own, the failure being
\* logged and swallowed: `failed` is the family of sets of tables that a
\* partly failed purge can leave behind.
Purge(b, failed) ==
    \/ /\ DeleteRows(b, Table)
       /\ UNCHANGED <<faults, damaged>>
    \/ /\ Fault
       /\ \E kept \in failed : DeleteRows(b, Table \ kept)
       /\ damaged' = damaged \cup {b}

\* Mutant: the cleanup forgets the table that was added last.
CleanupForgetsUserSales(b) ==
    /\ DeleteRows(b, {"raw", "sales"})
    /\ UNCHANGED <<faults, damaged>>

\* _cleanup_failed_batch tries each table in turn, whatever the others did.
CleanupFailedBatch(b) == Purge(b, (SUBSET Table) \ {{}})

\* The loops of get_active_upload_batch and reset_orphaned_upload_batches
\* stop at the first table whose delete raises.
PurgeUntilError(b) == Purge(b, {{"sales", "user", "raw"}, {"user", "raw"}, {"raw"}})

\* Mutants: the lock is kept; it is given up only while the row is active; the
\* facts go the way of the staging rows.
ReleaseKeepsLock(b) ==
    /\ UNCHANGED lock
    /\ DeleteRows(b, {"raw"})

ReleaseIfActive(b) ==
    /\ lock' = (lock /\ status[b] \notin Active)
    /\ DeleteRows(b, {"raw"})

ReleaseDeletesFacts(b) ==
    /\ lock' = FALSE
    /\ DeleteRows(b, Table)

\* release_pipeline_lock: the unlock does not ask who holds the lock.
ReleasePipelineLock(b) ==
    /\ lock' = FALSE
    /\ DeleteRows(b, {"raw"})

-----------------------------------------------------------------------------
(***************************************************************************)
(* Which batch is active: get_active_upload_batch.  The newest row with an *)
(* active status wins; stale ones met before it are reset on the way.      *)
(***************************************************************************)

Fresh == {b \in Batch : status[b] \in Active /\ b \notin aged}

ActiveUpload == {b \in Fresh : \A c \in Fresh : c <= b}

\* Mutant: stale rows are not recognised.
NothingStale == {}

StaleAhead ==
    {b \in aged : status[b] \in Active /\ \A c \in Fresh : c < b}

\* The scan meets a stale row: it marks it failed and purges it (PurgeReset).
ResetStale(i, b) ==
    /\ up[i]
    /\ b \in StaleAhead
    /\ SetStatus(b, "failed")
    /\ resetting' = [resetting EXCEPT ![i] = @ \cup {b}]
    /\ interrupted' = interrupted \cup {b}
    /\ UNCHANGED <<rows, torn, lock, aged, workerVars, up, reading, known,
                   cancelling, cancels, crashes, rolledBack>>

PurgeReset(i, b) ==
    /\ b \in resetting[i]
    /\ resetting' = [resetting EXCEPT ![i] = @ \ {b}]
    /\ PurgeUntilError(b)
    /\ UNCHANGED <<status, lock, aged, workerVars, up, reading, known,
                   cancelling, cancels, crashes, interrupted, rolledBack>>

\* Every answer of get_active_upload_batch is given after that scan.
ScanDone == StaleAhead = {}

\* get_active_upload_batch answers None when its query fails.
NoUploadBut(S) ==
    \/ ScanDone /\ ActiveUpload \subseteq S /\ UNCHANGED faults
    \/ Fault

\* 150 minutes go by.
Age(b) ==
    /\ status[b] \in Active
    /\ b \notin aged
    /\ Cardinality(aged) < MaxAged
    /\ aged' = aged \cup {b}
    /\ UNCHANGED <<status, rows, torn, lock, workerVars, memVars, boundVars,
                   historyVars>>

-----------------------------------------------------------------------------
(***************************************************************************)
(* The upload endpoint: check, then await the body, then create the row.   *)
(***************************************************************************)

PassGate(i) ==
    /\ up[i]
    /\ reading[i] < MaxReading
    /\ NoUploadBut({})
    /\ reading' = [reading EXCEPT ![i] = @ + 1]
    /\ UNCHANGED <<dbVars, workerVars, up, known, cancelling, resetting,
                   cancels, crashes, historyVars>>

\* Mutant: the request is dropped a second time.
DropUploadTwice(i) ==
    /\ up[i]
    /\ reading' = [reading EXCEPT ![i] = @ - 1]
    /\ UNCHANGED <<dbVars, workerVars, up, known, cancelling, resetting,
                   boundVars, historyVars>>

\* The body is too large or malformed, or the file is the one being imported
\* already (the idempotency check of create_initial_batch).
DropUpload(i) ==
    /\ up[i]
    /\ reading[i] > 0
    /\ reading' = [reading EXCEPT ![i] = @ - 1]
    /\ UNCHANGED <<dbVars, workerVars, up, known, cancelling, resetting,
                   boundVars, historyVars>>

CreateInitialBatch(i, b) ==
    /\ up[i]
    /\ reading[i] > 0
    /\ ScanDone
    /\ status[b] = "none"
    /\ \A c \in Batch : c < b => status[c] # "none"
    /\ reading' = [reading EXCEPT ![i] = @ - 1]
    /\ status' = [status EXCEPT ![b] = "queued"]
    /\ pc' = [pc EXCEPT ![b] = "queued"]
    /\ host' = [host EXCEPT ![b] = i]
    /\ UNCHANGED <<rows, torn, lock, aged, idx, checked, up, known,
                   cancelling, resetting, boundVars, historyVars>>

-----------------------------------------------------------------------------
(***************************************************************************)
(* The worker of batch b: process_file_upload_async.                       *)
(***************************************************************************)

Running(b) == up[host[b]]

IsBatchCancelled(b) == b \in known[host[b]]

GoTo(b, label) == pc' = [pc EXCEPT ![b] = label]

\* Only the worker's own control state changes.
Step(b, from, to) ==
    /\ Running(b)
    /\ pc[b] = from
    /\ GoTo(b, to)
    /\ UNCHANGED <<dbVars, host, idx, checked, memVars, boundVars, historyVars>>

\* acquire_pipeline_lock, first half: is_upload_active(exclude_batch_id = b)
\* compares b with the newest active batch only.
CheckNoOtherUpload(b) ==
    /\ Running(b)
    /\ pc[b] = "queued"
    /\ NoUploadBut({b})
    /\ GoTo(b, "locking")
    /\ UNCHANGED <<dbVars, host, idx, checked, memVars, cancels, crashes,
                   historyVars>>

\* A rejected worker marks its row and returns before the try block: it
\* neither records a cooldown nor releases anything.
RejectWorker(b) ==
    /\ Running(b)
    /\ \/ pc[b] = "queued" /\ ScanDone /\ ~(ActiveUpload \subseteq {b})
       \/ pc[b] = "locking" /\ lock
    /\ SetStatus(b, "failed")
    /\ GoTo(b, "done")
    /\ UNCHANGED <<rows, torn, lock, aged, host, idx, checked, memVars,
                   cancels, crashes, interrupted, rolledBack>>

\* Second half: pg_try_advisory_lock.  Without the RPC it answers TRUE.
TryAcquireAdvisoryLock(b) ==
    /\ Running(b)
    /\ pc[b] = "locking"
    /\ ~lock
    /\ lock' = AdvisoryLock
    /\ GoTo(b, "started")
    /\ UNCHANGED <<status, rows, torn, aged, host, idx, checked, memVars,
                   boundVars, historyVars>>

ParseFile(b) ==
    IF IsBatchCancelled(b)
      THEN Step(b, "started", "cancel_cleanup")
      ELSE Step(b, "started", "parsed") \/ Step(b, "started", "fail_cleanup")

\* The second cancellation check, then check_overlapping_date_window, which
\* compares the dates (where the sheet has any) with the newest active batch's.
CheckDateWindow(b) ==
    IF IsBatchCancelled(b)
      THEN Step(b, "parsed", "cancel_cleanup")
      ELSE \/ Step(b, "parsed", "resolve")
           \/ /\ ScanDone /\ ~(ActiveUpload \subseteq {b})
              /\ Step(b, "parsed", "fail_cleanup")

\* The master-data lookups, which may raise, and the staging records.
ResolveMasters(b) ==
    \/ Step(b, "resolve", "raw")
    \/ Step(b, "resolve", "fail_cleanup")

-----------------------------------------------------------------------------
(***************************************************************************)
(* _bulk_insert, the loop over the chunks of one table.                    *)
(***************************************************************************)

Quotient(n) == IF n \div 5 > 1 THEN n \div 5 ELSE 1

\* The chunks before which the row's status is read: milestones (a fifth of
\* the chunks) and every fifth chunk.
AuthoritativeCheck(c, n) ==
    \/ c = 1
    \/ c = n
    \/ c % Quotient(n) = 0
    \/ c % 5 = 0

\* Mutant: the sales loop swallows exceptions as the user loop does.
SwallowSalesToo(t, handler) == IF t = "raw" THEN handler ELSE "mapped"

\* UploadCancelledException leaves _bulk_insert.  _populate_user_sales_fact
\* catches every exception, so from the user table the import goes on.
AfterRaise(t, handler) == IF t = "user" THEN "mapped" ELSE handler

AfterTable(t) ==
    CASE t = "raw"   -> "validate"
      [] t = "sales" -> "populate"
      [] t = "user"  -> "mapped"

\* Mutant: whatever is not queued counts as aborted.
AbortUnlessQueued(b, t) ==
    /\ AuthoritativeCheck(idx[b], Chunks[t])
    /\ status[b] # "queued"

AbortSeenInDB(b, t) ==
    /\ AuthoritativeCheck(idx[b], Chunks[t])
    /\ status[b] \in Aborted

\* The two checks in front of a chunk: the process's own set first, then
\* is_batch_aborted_in_db, which adds to that set; when its query fails, the
\* batch counts as not aborted.
CheckChunk(b, t) ==
    /\ Running(b)
    /\ pc[b] = t
    /\ ~checked[b]
    /\ \/ /\ IsBatchCancelled(b) \/ AbortSeenInDB(b, t)
          /\ GoTo(b, AfterRaise(t, "cancel_cleanup"))
          /\ known' = [known EXCEPT ![host[b]] = @ \cup {b}]
          /\ idx' = [idx EXCEPT ![b] = 1]
          /\ UNCHANGED <<checked, faults>>
       \/ /\ ~IsBatchCancelled(b)
          /\ \/ ~AbortSeenInDB(b, t) /\ UNCHANGED faults
             \/ AbortSeenInDB(b, t) /\ Fault
          /\ checked' = [checked EXCEPT ![b] = TRUE]
          /\ UNCHANGED <<pc, known, idx>>
    /\ UNCHANGED <<dbVars, host, up, reading, cancelling, resetting, cancels,
                   crashes, historyVars>>

\* Three attempts, then sub-chunks, then single rows: all records arrive.
WriteChunk(b, t) ==
    /\ Running(b)
    /\ pc[b] = t
    /\ checked[b]
    /\ rows' = rows \cup {Part(b, t, idx[b])}
    /\ checked' = [checked EXCEPT ![b] = FALSE]
    /\ IF idx[b] < Chunks[t]
         THEN /\ idx' = [idx EXCEPT ![b] = @ + 1]
              /\ UNCHANGED pc
         ELSE /\ idx' = [idx EXCEPT ![b] = 1]
              /\ GoTo(b, AfterTable(t))
    /\ UNCHANGED <<status, torn, lock, aged, host, memVars, boundVars,
                   historyVars>>

\* Some record could not be written even alone: RuntimeError, with what the
\* recovery did write left in the table.
FailChunk(b, t) ==
    /\ Running(b)
    /\ pc[b] = t
    /\ checked[b]
    /\ Fault
    /\ \/ torn' = torn \cup {Part(b, t, idx[b])}
       \/ UNCHANGED torn
    /\ checked' = [checked EXCEPT ![b] = FALSE]
    /\ idx' = [idx EXCEPT ![b] = 1]
    /\ GoTo(b, AfterRaise(t, "fail_cleanup"))
    /\ UNCHANGED <<status, rows, lock, aged, host, memVars, cancels, crashes,
                   historyVars>>

-----------------------------------------------------------------------------

\* Row validation: errors in the sheet, an exception, or a clean file.
ValidateRows(b) ==
    \/ Step(b, "validate", "reject_cleanup")
    \/ Step(b, "validate", "fail_cleanup")
    \/ Step(b, "validate", "ready")

CheckBeforePromotion(b) ==
    IF IsBatchCancelled(b)
      THEN Step(b, "ready", "cancel_cleanup")
      ELSE Step(b, "ready", "promote")

\* _update_batch(status = "validated") overwrites whatever is in the row;
\* the batch's own facts are deleted before the first insert.
Promote(b) ==
    /\ Running(b)
    /\ pc[b] = "promote"
    /\ SetStatus(b, "validated")
    /\ DeleteRows(b, {"sales"})
    /\ GoTo(b, "sales")
    /\ UNCHANGED <<lock, aged, host, idx, checked, memVars, cancels, crashes,
                   interrupted, rolledBack>>

\* _populate_user_sales_fact: deletes the batch's old rows and inserts the new
\* ones; when it has no row to insert, or raises before, there are none.
PopulateUserSalesFact(b) ==
    /\ Running(b)
    /\ pc[b] = "populate"
    /\ \/ DeleteRows(b, {"user"}) /\ GoTo(b, "user")
       \/ UNCHANGED <<rows, torn>> /\ GoTo(b, "mapped")
    /\ UNCHANGED <<status, lock, aged, host, idx, checked, memVars, boundVars,
                   historyVars>>

\* After the territory mappings, the last cancellation check.
CheckBeforeAggregation(b) ==
    IF IsBatchCancelled(b)
      THEN Step(b, "mapped", "cancel_cleanup")
      ELSE Step(b, "mapped", "aggregate")

\* The summaries belong to the analytics component.
Aggregate(b) ==
    \/ Step(b, "aggregate", "load")
    \/ Step(b, "aggregate", "fail_cleanup")

\* The final _update_batch, again without looking at the row.
Load(b) ==
    /\ Running(b)
    /\ pc[b] = "load"
    /\ SetStatus(b, "loaded")
    /\ GoTo(b, "release")
    /\ UNCHANGED <<rows, torn, lock, aged, host, idx, checked, memVars,
                   cancels, crashes, interrupted, rolledBack>>

-----------------------------------------------------------------------------
(***************************************************************************)
(* The ways out: cancellation, an exception, validation errors, success.   *)
(***************************************************************************)

WorkerCleanup(b) ==
    /\ Running(b)
    /\ \/ pc[b] = "cancel_cleanup" /\ GoTo(b, "cancel_release")
       \/ pc[b] = "fail_cleanup"   /\ GoTo(b, "fail_status")
       \/ pc[b] = "reject_cleanup" /\ GoTo(b, "reject_status")
    /\ CleanupFailedBatch(b)
    /\ UNCHANGED <<status, lock, aged, host, idx, checked, memVars, cancels,
                   crashes, interrupted, rolledBack>>

\* _update_batch(status = "failed").  The cancellation handler asks for
\* status "cancelled", which _update_batch never writes to the row.
MarkFailed(b) ==
    /\ Running(b)
    /\ \/ pc[b] = "fail_status"   /\ GoTo(b, "release")
       \/ pc[b] = "reject_status" /\ GoTo(b, "reject_release")
    /\ SetStatus(b, "failed")
    /\ UNCHANGED <<rows, torn, lock, aged, host, idx, checked, memVars,
                   cancels, crashes, interrupted, rolledBack>>

\* The handlers for cancellation and for validation errors release the lock
\* themselves; the finally clause then releases it a second time.
HandlerRelease(b) ==
    /\ Running(b)
    /\ pc[b] \in {"cancel_release", "reject_release"}
    /\ ReleasePipelineLock(b)
    /\ GoTo(b, "release")
    /\ UNCHANGED <<status, aged, host, idx, checked, memVars, boundVars, historyVars>>

FinallyRelease(b) ==
    /\ Running(b)
    /\ pc[b] = "release"
    /\ ReleasePipelineLock(b)
    /\ GoTo(b, "done")
    /\ UNCHANGED <<status, aged, host, idx, checked, memVars, boundVars, historyVars>>

-----------------------------------------------------------------------------
(***************************************************************************)
(* Cancellation: by id, "cancel active", or signing out.                   *)
(***************************************************************************)

\* cancel_batch asks neither what the batch's status is nor which process
\* runs its worker.
CancelBatch(i, b) ==
    /\ up[i]
    /\ status[b] # "none"
    /\ cancels < MaxCancels
    /\ cancels' = cancels + 1
    /\ known' = [known EXCEPT ![i] = @ \cup {b}]
    /\ SetStatus(b, "cancelled")
    /\ cancelling' = [cancelling EXCEPT ![i] = @ \cup {b}]
    /\ interrupted' = interrupted \cup {b}
    /\ UNCHANGED <<rows, torn, lock, aged, workerVars, up, reading, resetting,
                   crashes, rolledBack>>

FinishCancel(i, b) ==
    /\ b \in cancelling[i]
    /\ cancelling' = [cancelling EXCEPT ![i] = @ \ {b}]
    /\ CleanupFailedBatch(b)
    /\ lock' = FALSE
    /\ rolledBack' = rolledBack \cup {b}
    /\ UNCHANGED <<status, aged, workerVars, up, reading, known, resetting,
                   cancels, crashes, interrupted>>

\* /uploads/cancel-active when nothing is active.
ClearLocks(i) ==
    /\ up[i]
    /\ ScanDone
    /\ ActiveUpload = {}
    /\ cancels < MaxCancels
    /\ cancels' = cancels + 1
    /\ lock' = FALSE
    /\ UNCHANGED <<status, rows, torn, aged, workerVars, memVars, crashes,
                   faults, historyVars>>

-----------------------------------------------------------------------------
(***************************************************************************)
(* Processes die and start.                                                *)
(***************************************************************************)

\* The workers, the memory and the purges under way go with the process;
\* the advisory lock belongs to a database session and stays.
Crash(i) ==
    /\ up[i]
    /\ crashes < MaxCrashes
    /\ crashes' = crashes + 1
    /\ up' = [up EXCEPT ![i] = FALSE]
    /\ reading' = [reading EXCEPT ![i] = 0]
    /\ known' = [known EXCEPT ![i] = {}]
    /\ cancelling' = [cancelling EXCEPT ![i] = {}]
    /\ resetting' = [resetting EXCEPT ![i] = {}]
    /\ damaged' = damaged \cup cancelling[i] \cup resetting[i]
    /\ pc' = [b \in Batch |->
                IF host[b] = i /\ pc[b] \notin {"none", "done"} THEN "dead"
                                                               ELSE pc[b]]
    /\ UNCHANGED <<dbVars, host, idx, checked, cancels, faults, interrupted,
                   rolledBack>>

\* reset_orphaned_upload_batches, run by every process that starts, names
\* five active statuses; of those the database ever holds, that is "queued".
Orphans == {b \in Batch : status[b] = "queued"}

\* When the query or the update fails, nothing is reset and nothing purged.
StartInstance(i) ==
    /\ ~up[i]
    /\ up' = [up EXCEPT ![i] = TRUE]
    /\ \/ /\ status' = [b \in Batch |-> IF b \in Orphans THEN "failed" ELSE status[b]]
          /\ resetting' = [resetting EXCEPT ![i] = Orphans]
          /\ interrupted' = interrupted \cup Orphans
          /\ UNCHANGED faults
       \/ /\ Fault
          /\ UNCHANGED <<status, resetting, interrupted>>
    /\ UNCHANGED <<rows, torn, lock, aged, workerVars, reading, known,
                   cancelling, cancels, crashes, damaged, rolledBack>>

-----------------------------------------------------------------------------

WorkerStep(b) ==
    \/ CheckNoOtherUpload(b) \/ RejectWorker(b) \/ TryAcquireAdvisoryLock(b)
    \/ ParseFile(b) \/ CheckDateWindow(b) \/ ResolveMasters(b)
    \/ \E t \in Table : CheckChunk(b, t) \/ WriteChunk(b, t) \/ FailChunk(b, t)
    \/ ValidateRows(b) \/ CheckBeforePromotion(b) \/ Promote(b)
    \/ PopulateUserSalesFact(b)
    \/ CheckBeforeAggregation(b) \/ Aggregate(b) \/ Load(b)
    \/ WorkerCleanup(b) \/ MarkFailed(b) \/ HandlerRelease(b) \/ FinallyRelease(b)

InstanceStep(i) ==
    \/ PassGate(i) \/ DropUpload(i) \/ ClearLocks(i) \/ Crash(i) \/ StartInstance(i)
    \/ \E b \in Batch :
          \/ CreateInitialBatch(i, b)
          \/ ResetStale(i, b) \/ PurgeReset(i, b)
          \/ CancelBatch(i, b) \/ FinishCancel(i, b)

Next ==
    \/ \E b \in Batch : WorkerStep(b) \/ Age(b)
    \/ \E i \in Instance : InstanceStep(i)

Spec == Init /\ [][Next]_vars

\* Workers run and processes are restarted; purges under way go on; time passes
\* and somebody polls /system/lock-status, which scans for stale batches.
\* Nobody has to upload or to cancel, and nothing has to fail.
Fairness ==
    /\ \A b \in Batch : WF_vars(WorkerStep(b)) /\ WF_vars(Age(b))
    /\ WF_vars(\E i \in Instance, b \in Batch : ResetStale(i, b))
    /\ \A i \in Instance :
          /\ WF_vars(StartInstance(i))
          /\ WF_vars(\E b \in Batch : PurgeReset(i, b) \/ FinishCancel(i, b))

FairSpec == Spec /\ Fairness

-----------------------------------------------------------------------------
(***************************************************************************)
(* What the pipeline promises.                                             *)
(***************************************************************************)

FactsOf(b) == {r \in rows \cup torn : r.batch = b /\ r.table \in FactTable}

PurgePending(b) == \E i \in Instance : b \in cancelling[i] \cup resetting[i]

UserCancelled(b) ==
    \/ b \in rolledBack \cup damaged
    \/ \E i \in Instance : b \in cancelling[i]

\* A batch whose row says "loaded", and that nobody but its own worker has
\* touched, has every chunk of its sales in the fact table, none of them torn
\* (_bulk_insert aborts the batch when a chunk cannot be completed).
LoadedIsComplete ==
    \A b \in Batch : status[b] = "loaded" /\ b \notin interrupted =>
        \A c \in 1..Chunks["sales"] :
            Part(b, "sales", c) \in rows /\ Part(b, "sales", c) \notin torn

\* When the worker is gone, the row says "failed" or "cancelled" and no purge
\* is still to come, no fact of the batch is left, unless a delete or a status
\* update has failed (every caller logs and swallows that).
RollbackLeavesNothing ==
    \A b \in Batch :
        /\ pc[b] = "done"
        /\ status[b] \in Aborted
        /\ ~PurgePending(b)
        /\ b \notin damaged
        => FactsOf(b) = {}

\* A worker that has finished leaves its row in a terminal status, so that it
\* keeps nobody out of the upload queue; only a cancellation can upset this
\* (the worker then leaves "validated" in the row and believes it cancelled), or
\* a status update that failed.
FinishedIsTerminal ==
    \A b \in Batch : pc[b] = "done" /\ status[b] \in Active => UserCancelled(b)

\* The advisory lock is never left behind: while it is held some worker is
\* between taking it and its finally clause, or has died there.
LockHasHolder ==
    lock => \E b \in Batch : pc[b] \notin {"none", "queued", "locking", "done"}

\* A batch that was queued does not stay active for ever, whichever process
\* dies: its worker ends, a starting process resets it or it grows stale.
EventuallySettled ==
    \A b \in Batch : status[b] \in Active ~> status[b] \in Terminal

\* An advisory lock that was taken is given back, if no process has died.
LockGivenBack == lock ~> (~lock \/ crashes > 0)

\* cancel_batch's answer, "successfully cancelled and all partial records
\* rolled back to 0", stays true: the batch is not loaded afterwards.
CancelIsFinal == \A b \in rolledBack : status[b] # "loaded"

\* "Single-upload queue prevents concurrent execution": at most one worker
\* is importing.
SingleUpload ==
    \A b, c \in Batch : pc[b] \in Working /\ pc[c] \in Working => b = c

\* "ATOMIC ALL-OR-NOTHING": a loaded batch has no torn chunk in any fact table.
LoadedIsAllOrNothing ==
    \A b \in Batch : status[b] = "loaded" =>
        ~\E r \in torn : r.batch = b /\ r.table \in FactTable

=============================================================================
