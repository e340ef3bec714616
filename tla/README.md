# TLA+ models of the RLL server

This directory holds TLA+ specifications of the server in `backend/`: the import
of sales files from the sheet to the report, the records and locks that keep
imports apart, the transport below them, the caches that answers are served
from, one-time codes, sessions, and the directory of users. TLC checks them on small
instances (`*.cfg`); TLAPS proves the safety properties for every value of
the constants (`*Proofs.tla`). `PROJECT.json` maps every
definition to the source lines it stands for.

Paths below are relative to the repository's root.

## 1. The system

RLL is a FastAPI server over a hosted PostgreSQL (Supabase, reached by HTTP),
with Redis as a second, optional store. Several instances of the server may run;
each has its memory, threads and background workers, and what they share is only
what is in the database and in Redis. Most handlers are straight reads. The
parts with a protocol between several actors, or with rules of their own, are
these.

| Component | State it keeps | Operations | What makes it correct |
|---|---|---|---|
| **Upload pipeline** (`backend/uploads/service.py`, `backend/uploads/router.py`, parts of `backend/db/supabase_client.py`) | rows of `upload_batches`; `sales_records_raw`, `sales_fact`, `user_sales_fact`; PostgreSQL advisory lock; per process `_cancelled_batches`; one worker per upload | accept a file, import it in the background, cancel, reset stale and orphaned batches | a loaded batch is complete, a failed or cancelled one has left nothing, nobody blocks the queue for ever, one upload at a time |
| **Bulk insert and transport** (`_bulk_insert`, `backend/db/client.py`) | progress through chunks, sub-chunks and single rows | insert the records of a table, with retries on two levels | all records or an exception; retries end and multiply nothing but what the lost answers make them |
| **System lock and cooldown** (`backend/core/system_lock.py`, `backend/users/router.py` for rosters) | cooldown records in memory, in a file, in Redis, implied by rows; cached lock status; roster lock | record, look up and reset a cooldown, answer the lock status, gate uploads | after a load no upload starts for thirty minutes, on any instance |
| **One-time codes** (`backend/services/otp_service.py`, `backend/mobile/router.py`) | rows of `otp_codes`; per process the counts of failed attempts and the rows being consumed; in Redis a cooldown and a count of tries | send, store and verify sign-in codes, store and verify password-reset codes | a code is accepted once, the attempts are bounded, no code stays blocked, a phone has one code |
| **Sessions and tokens** (`backend/services/token_service.py`, `backend/core/security.py`, sign-in, refresh, logout and revocation in `backend/auth/router.py` and `backend/mobile/router.py`) | token keys, grace keys, an index per user, a revocation flag and a cached profile in Redis; the same in each process's fallback store; profiles in its memory | sign in, refresh, check a request, log out, revoke all | who is revoked or deactivated is not let in or renewed; a refresh leaves one token of a sign-in; revoking all misses none |
| **Directory of users** (`backend/users/service.py`, `backend/users/router.py`) | `users`, `user_roles`, `ase_tsm_mapping`, `user_depot`, `user_headquarters_mapping`; the cached list of users | create, update, delete a user, set his headquarters, list users | an edit that meets no failure changes all its tables as its payload says; the list follows |
| **Redis client** (`backend/db/redis_client.py`) | a connection, an in-memory store | `safe_*`, `sync_*` with fallback | what was deleted does not come back |
| **Master data** (`backend/master_data/service.py`) | tables of depots, headquarters, companies, licensees, brands and others; the name caches of each process | resolve the names of a sheet, adding rows | one row for a name, in upper or lower case and with spaces around it or not; no name lost |
| **Validation, territories, credit** (`backend/uploads/service.py`) | none of their own | check a sheet against User Management, assign first territories, credit sales to persons | sales stay in their people's territories |
| **Mobile report and response cache** (`backend/mobile/router.py`, `backend/services/mobile_companies_service.py`, `backend/services/cache_service.py`) | answers in Redis, in memory and in a spare store; lookups and latest date of each process | answer, keep, read lookups in the background, invalidate | no sale counted twice; no stale answer outlives an import |
| **Parsing, aggregation, analytics, chatbot, tenants, telemetry** | tables | reads, sums in the database, single-row writes | results, not protocols |

How they interact. The upload endpoint asks the system lock, the cooldown and
the queue gate in turn, awaits the body of the request, creates a row and starts
a worker in the same process. The worker writes facts through the bulk insert
and its result into the status column of the row; other processes see nothing
of it but that column. It checks from time to time whether it has been
cancelled: in the set of its own process, and, in front of some chunks, in the
column. `cancel_batch` writes the column and purges the facts from any process.
A scan for active batches (`get_active_upload_batch`, which every gate and every
lock status runs) marks batches older than 150 minutes as failed and purges
them; a starting process does the same to all that are queued. At its end a
worker records a cooldown, which the lock of every instance is to find in Redis
or in the row. Inside the worker the names of the sheet become rows of the master
tables, the sheet is checked against User Management, its sales are published,
credited and summed, and the caches of the mobile report are cleared and filled
again, while requests read the same caches. An edit of a user, made while
sign-ins and refreshes go on, sets or clears the revocation flag and purges the
list of users at its end.

What is hard there: interleavings of a worker with cancellations, resets and
other workers at every `await` and every database call; calls that fail and
whose failure is logged and ignored; processes that die with a purge half done;
requests whose answer is lost and which are sent again; caches and flags of one
process that outlive what they were derived from; lists that are read, changed and
written back; edits of several tables without a transaction; orders that differ
between processes. `PROJECT.json` lists these
hazards line by line with the properties that cover each.

## 2. The modules

```
AtomicImport        what an import promises to readers
   ^ refined by
UploadPipelineInv   inductive invariant, refinement mapping
   | EXTENDS
UploadPipeline      gate, workers, cancellation, resets, crashes
   . WriteChunk / FailChunk looked at from inside:
BulkInsert          chunks, sub-chunks, rows over a repeating transport
SystemLock          the gate's lock and cooldown, which UploadPipeline leaves open
OneTimeCode         codes of one phone or account
   | EXTENDS
MobileCode          the routes of the phone app before them

Sessions            tokens, revocation, checks; an edit is one open step
   ^ refined by (EXTENDS)
UserDirectory       that step write by write, and the cached list of users

MasterData          names of a sheet to rows of a master table
   | EXTENDS                          RowValidation   rules of a sheet (pure)
ResponseCache       answers, lookups     | EXTENDS
   |                                  SalesReport     who a sale is counted for (pure)
   +------- both extended by -----------+
SalesDesk           an import from its sheet to the report
```

`MC*.tla` give values and symmetry for TLC. `UploadPipelineProofs`,
`BulkInsertProofs`, `SystemLockProofs`, `OneTimeCodeProofs`, `SessionsProofs`,
`DirectoryProofs` (extends it), `NamesProofs` (the names of MasterData within
SalesDesk) and `SalesDeskProofs` (extends it) hold the proofs.

### UploadPipeline

A batch is one row of `upload_batches` and one worker; batches are numbered in
the order of `created_at`. The state is grouped as the code has it: what the
database holds (`status`, `rows`, `torn`, `lock`, `aged`), what belongs to a
worker (`pc`, `host`, `idx`, `checked`), what belongs to a process (`up`,
`reading`, `known` = `_cancelled_batches`, `cancelling`, `resetting`).
The facts of a batch are chunks: `rows` has a chunk when all its records are in
the table, `torn` when some are.

- *Gate*: `PassGate` is the part of `upload_excel` before `await file.read()`
  and `CreateInitialBatch` the part after it; any number of other steps fits
  between. The gate uses `is_upload_active`, which is not cached.
- *Worker*: `process_file_upload_async` from `acquire_pipeline_lock` to the
  `finally` clause, one action between two database calls that others can see.
  The four exits (success, exception, validation errors, cancellation) have the
  steps the code has, in its order: the worker that fails cleans up and then
  writes its status, the one that is rejected at the lock returns before the
  `try` block, the one that is cancelled does not write a status at all
  (`_update_batch` drops "cancelled"), the last two release the lock twice.
- *Checks*: `CheckChunk` is the pair of checks in front of a chunk. The column
  is read at the chunks that `AuthoritativeCheck` names, and the result goes
  into the memory of the process.
- *Cancel*: `CancelBatch` marks and `FinishCancel` purges; a crash or any step of
  the worker may come between. The same for `ResetStale`/`PurgeReset`.
- *Failure*: any database call whose failure the code survives may fail
  (`Fault`), with the consequence the code gives it: an unwritten status, a
  table that is not purged, a check that answers "not aborted", a gate that
  answers "nothing active".
- *Crash*: `Crash` loses memory, workers and purges under way; `StartInstance`
  resets queued rows.

`interrupted`, `damaged` and `rolledBack` are history variables. No action reads
them; the properties use them to say "left alone by others", "a write or purge
failed" and "the cancellation has been confirmed".

Abstractions. The cooldown may always have run out (SystemLock is about that).
The statuses "running", "validating", "aggregating" exist in the worker's memory
only: `_update_batch` does not write them, so the column does not have them. The
in-memory `upload_batches_db` mirrors the rows. Validation, resolution and
aggregation have an outcome and no content. The staging rows that a daemon thread
deletes after a load are left: they are not facts. The five-row limit of
the active-batch query cannot bite with at most five batches. `reset_orphaned`
selects and updates in one step. A table with no record to insert is left out
for `sales_fact` (`Chunks >= 1`). The repository's SQL does not create the RPCs
of the advisory lock, and `try_acquire_advisory_lock` answers True when they are
missing: `AdvisoryLock = FALSE` models that, `TRUE` a database that has them. It
is a session-level lock behind a connection pool, so a process that dies leaves
it held.

### AtomicImport, and the refinement

The abstract specification knows no worker, chunk, purge or status: an upload
is begun, works on its facts, and then commits with a complete set or rolls back
with none, after which its facts do not change. Once somebody else has written
the row or purged the batch, or a status write or purge has failed, it is
"disturbed" and nothing is promised. `UploadPipelineInv` maps the detailed state
to it (`phaseBar`, `factsBar`); `ImportsAtomically` is checked by TLC and proved.

### BulkInsert

One call of `_bulk_insert` for a table. `refused` is a set of records the
database will never take, chosen at the start. A request inserts a run of
consecutive records, or nothing if one of them is refused. `Glitch` is a lost
connection, gateway error or timeout, before or after the request has been
carried out; the transport repeats the request or reports an error. `Raise`
says what the code does with an error at each level: repeat the chunk, cut it
into sub-chunks, cut a sub-chunk into rows, give a row up. `Tally` is the
comparison of `inserted_count` with the chunk's length. `copies` counts the rows
of a record, since migration 031 drops the keys that would refuse a second one.

Left out: the upsert branch, which nobody calls, and the branch for a process
without a database client, which stores nothing.

### SystemLock

Each instance has the record of its memory, its state file and its own copy of
what it wrote to Redis (`mirror`); Redis has a key and an override key. `Adopt` is
`get_upload_cooldown_status`: which of these records an instance believes, and
that a finished row newer than all it knows replaces them. `StartPoll` and
`FinishPoll` are the two halves of `get_system_lock_status`, between which anything
may be recorded; the answer is then cached all the same. `PassChecks` is what an
upload passes. `Finish`/`Fail`/`Abort` write the row, `RecordOwed` records the
cooldown some time later, and a process may die in between. `Interrupt` resets
a row, with or without the progress its worker had reported; the worker may
still write its end over that. `hold` is history: the newest load that no
failure, cancellation or reset has cut short.

Abstractions. Time goes in units (spans 30, 10 and 5 minutes become 2, 1 and 1)
and `seq` orders stamps within a unit. A cached "locked" only refuses, which
having nothing cached may do as well, so only a cached "open" is state; it may expire at any
time and does when a unit ends. The override key has no expiry in the local
store, but it is set and cleared with `reset`, which has the same effect. The
calls inside one record or reset are one step; Redis is up or down throughout
it. Queries of rows do not fail. A row's stamp (`created_at` plus
`processing_time`) is taken as the time of the worker's end. The gate is one
step; its window is the subject of UploadPipeline.

What the model showed about the code, and what the properties therefore do not
claim: a reset is undone on other instances when the override key has expired
after 300 s, because they still find the loaded row; a cancellation, even of an
old batch, replaces thirty minutes of cooldown by ten; the roster lock is a
variable of one process, and a roster import and a sales upload can overlap on
two instances, or on one through a status cached up to ten seconds ago (the
comment at `backend/core/system_lock.py:19` says three).

### OneTimeCode and MobileCode

`OneTimeCode` has the codes of one phone (or account; the two pairs of functions
take the same steps). What a request holds is forgotten when its call returns. A
row is a code and a copy: the transport may send the insert twice, and no
constraint in the repository refuses the second. `failed` and `consuming`
belong to one process, whose threads hold `_otp_lock` for the steps that touch them; the
table is shared. `Restart` loses a process's memory and requests. Calls may
raise before or after the database has carried them out. Two codes are taken to
differ in value. Purging expired rows and reading the newest are one step, since
one reading of the clock decides both. Left out: the app-review phone, the
second look-up by the raw phone number, rows without a hash, and the count and
the lock that the password reset keeps in Redis.

`MobileCode` puts `send_mobile_otp` and `verify_mobile_otp` in front of the table.
`front` says what a request does next there; `cooling` and `tries` are the two keys
in Redis. `AskCode` reads the count, `Cool` sets the cooldown if it is not there,
`FindNobody` and `GiveBack` are the rejection of an unknown or inactive user, which
deletes it, and `StoreCode` enters `store_otp_in_db`, once or twice. `CountTry` counts
before the code is looked at (`EnterCode`), and `ClearTries` follows an answer True
(`CodeStep`). The code is stored for the phone of the user's row and for the phone
entered; when they are one, the same code is stored anew. `AskElsewhere` is a
request that found the user by e-mail and entered another phone: it has that phone's cooldown,
and stores a code here. Assumed: production or staging, where a failing call of
Redis refuses the request; and that a coroutine whose database calls are not awaited
keeps its process to itself between two awaits (`Free`). `MaxTroubles` bounds all
that goes wrong in one history: failing calls, restarts, expiries, and cooldowns that do not guard.

### Sessions and UserDirectory

One user. `redis` and `memory[p]` are records with a field for each of the user's
keys, in Redis and in the fallback store of process `p`, which is written when
Redis does not answer and read when Redis has nothing; `ram[p]` is
`_LOCAL_USER_PROFILES`. `request[r]` is a request and the place it has reached;
between two awaits it takes one step. The paths are those of `login`,
`mobile_login` and `verify_otp`, `refresh_session_async`, `get_current_user`,
`logout` and `revoke_all_user_tokens_async`, and any call of Redis may fail
(`lost`). The index is read in one step and written back in another, so updates
of it can meet.

`barred` is history: the reasons to stop a request that it met on arrival (the
flag, the inactive account). A reason is lifted when the flag goes or the account
is active again. `family`, `disturbed` and `torn` say which tokens descend from
one sign-in, which sign-ins two requests used at once or lost a deletion of, and
whether two updates of the index met or one failed.

In `Sessions` an edit of the user changes the account, or does not, and then sets
or clears the flag or does neither. `UserDirectory` says when: an edit is a list
of groups of writes (`Groups`, from the payload as `create_user`, `update_user`,
`delete_user` and `set_user_headquarters` have them), each a transaction. A write
that fails ends its group where the code catches it and the edit where it does
not. The service is synchronous, so no other request of its process moves while it
works (`LoopFree`), but those of another process do. `SessionSpec` is checked as a
property of `UserDirectory` and proved. `PayloadOK` says what a payload of each operation may
hold: a creation gives a role and clears nothing (and is, as a bound, of an active user),
a deletion and a change of headquarters carry nothing else.

Router and service read a payload each in its own way, and the model keeps both
readings. `KindOf` is the router's: only `false` and "inactive" deactivate, and only
`true` and "active" reactivate. `Truth` is the service's, `bool(is_active)`: "inactive"
is true, 0 is false. What a payload names need not exist (`Unknown`): a role or a depot
that is not found is passed over, a manager that is not found is cleared by an update
and passed over by a creation, and a list with a headquarters that is not found ends
its group (`CheckedHq`). `LookupFails` is a look-up that raises: the code goes on as if
there were no such role, manager or depot, and, in `set_user_headquarters`, with the
list uncut. A payload that is refused before the first write changes nothing and is
left out, and so is an update that ends there because the look-up of a manager's id
raises.

The list of users is in Redis (`listed`) and in the fallback store of each process
(`copies`), one key for the three that the code writes together. `PurgeList` deletes
the copy of its process, and the one in Redis unless that fails, which the code passes
over. `ReadList` reads the tables, or answers from `in_memory_users` when the database
fails; `StoreList` keeps what was read in Redis, or in the process when Redis fails.
`astray` is history: it records an edit that overtook a reader, one that failed with an
error (its route then purges nothing), and any of those failures, and it is lifted by a
purge that reaches Redis while no reader is under way and no other process has a copy.

Abstractions. Tokens are numbered in the order of issue; their claims are left
out. The password or code of a sign-in is right or wrong. The environment is
production, where a security-sensitive read never falls back on memory. The index
keeps `IndexLimit` tokens (10 in the code, 2 in the run).

What the model showed, and what the properties therefore do not claim: replaying
the answer of a rotation within its grace period does not look at the flag; the
web sign-in deletes the flag before it knows whether the role may use the web; two
refreshes that use one token at once both go through and leave two live tokens; two
sign-ins at once lose one of the index, and `revoke_all` then misses it; the rule
of one headquarters looks at any row of `user_roles`, so a user who once had
another role may get several; `is_active: "inactive"` sets the revocation flag of a
user whom the tables then have as active; an update that names an unknown manager
leaves the user with none; a reader of the list that an edit overtakes keeps the old
list for a day, and so does a deletion that fails.

### MasterData

What `prefetch_all_caches` and the `bulk_resolve` methods do for one table, import
by import: read the table into the process's name cache, collect the names that
are missing, insert them in one call, and fall back on single inserts, an insert
with fewer columns, or a second read, as each table has it. "depots" stands for
five tables that are resolved alike. Names are what the sheet spells; `Clean` and
`Tight` are the keys the code reduces them to: `Clean` keeps the spaces between words,
`Tight` does not, nor, for companies, what `_clean_company` takes for noise. `Keys` says
which of them a table is known by, and `IdFor` which gives a row of the sheet its id. A
blank key is nobody's, except that companies are stored and looked up by a blank tight
key as well. An insert that raised may have been carried out. A depot may be deleted
while a process still has its id.

The model showed that two spellings of a company in one sheet become two rows, as do
headquarters "Ajmer" and "Aj mer", although `_clean_no_space` is there to match them;
that companies like "India" or "S & Co", of whose names nothing is left, share one id,
so that all but the first have no row; that headquarters and brands, which a process
reads once, go wrong with several processes; and that one headquarters another process
has created makes the insert of all new ones fail. The properties leave out just these
cases: `OneRowPerKey` is about the clean key, and not about companies, and
`ResolvedWhenAlone` promises a row that shares a key with the name, for companies
possibly the blank one.

`MasterAssumption` says what the proofs need of the data: the two keys agree
(names with one `Clean` key have one `Tight` key, a blank name has none, and a tight
key is its own), and no name in the table has a blank `Clean` key. It also has each table begin with one row for a name. That is what the resolvers
are to keep; nothing in the code mends a table that has two.

### RowValidation, SalesReport

Pure operators. `RowValidation` has the rules between reading User Management and
the list of errors: who a label means (an active person first, then the first
row), whether the ASE works under the manager, whether both are registered in the
headquarters, whether a former employee may still appear. `SalesReport` has the
managers a person's sales are counted for in `get_mobile_sales`, as a function of the
order in which a process visits them, which is the order of a set of strings. Labels,
names and places are members of small sets with the relations that matter (which
persons share a label, what a label is shortened to).

### ResponseCache, SalesDesk

`ResponseCache` follows the sales and the companies answer of the mobile API: a
request looks in the memory of its process (sales), in Redis, in the spare store,
reads the lookups, queries, and keeps what it has computed; out-of-date lookups
are used once more while they are read again in the background. An answer is the
set of sales it shows and the lookups it was computed with; the figures are left out.

`SalesDesk` composes everything an import does after its upload was accepted:
`Resolve` (MasterData), `Validate`, publish, credit persons and their
territories, aggregate by date, clear the caches twice, fill them again.
A failure takes back what was written. A failing call of `SyncTerritory` leaves some
persons out, or, when it is the reading of those who have a headquarters, gives
everybody the sheet names one more. `late` is history: whether a call had, in
the first or the second clearing, something in hand that was already wrong.

`CacheIsFresh` has two halves. In Redis, and in a process that did all the imports, an
answer shows what the lookups it was computed with let it show. If besides there is one
process, imports never overlapped and nothing lives to be a day old, these lookups are
up to date too. What it leaves out is written in the property: answers marked by
`late`, companies kept with zeros (`whole`), more than one failing call, sales of an import
taken back (`Standing`), and a remembered date that an import of older sales has set
back (`SetBack`, `set_latest_sale_date_cached`); each of these is a history in which
the code does serve something else. `DeskAssumption` says that requests run in the processes of
the mix and that sales credited before the first import are of companies in the table;
`AnswerAssumption` that an empty cache cannot be taken for an answer.

The model showed that an answer computed before the second clearing and kept after
it is served for a day; that sales of an import taken back stay in the answers
until the next one; that another process keeps its memory and lookups after an
import, for up to a day; that an import older than the sales already there leaves
the latest date wrong; that a label shared by an active and a former employee is
assigned the territory of one and checked against that of the other; that an inactive
person's sales are counted for his own manager and for that of an active namesake.

## 3. The runs

Every run is `tlc -workers 2 -config X.cfg M`. Deadlock is not checked: with
the bounds used up, and every upload or request over, each of these systems may
come to rest. Each property of a passing run has a mutant of the code that
violates it.

| Run | Question | Bounds | States, time |
|---|---|---|---|
| `pipeline_faults` | What may the tables and the column hold, under a cancellation, a crash, an ageing and two failing calls in any order? (`TypeOK`, `IInv`, `LoadedIsComplete`, `RollbackLeavesNothing`, `FinishedIsTerminal`, `ImportsAtomically`) | 1 upload, 2 instances, 2 sales chunks | 998 k, 2 min |
| `pipeline_pair` | Is the lock given back, does every queued batch settle? (`LockHasHolder`, `EventuallySettled`, `LockGivenBack`) | 2 uploads, 1 instance that may crash, advisory lock, 2 ageings | 54 k, 40 s |
| `bulk_insert` | Is a table complete when `_bulk_insert` returns, exact when no answer was lost, and does it end? (`BulkInv`, `NothingMissing`, `ExactUnlessLost`, `GoodRowsSaved`, `EventuallyEnds`) | 5 records, chunks of 3, sub-chunks of 2, 3 × 3 tries | all sets of refused records |
| `one_time_code` | Behind the routes of the phone: once accepted, always given up, attempts bounded, one code at a time? (`CodeInv`, `AcceptedOnce`, `ClaimsAreHeld`, `AttemptsBounded`, `OneLiveCode`) | 2 requests, 2 processes, 2 codes, 2 tries, 1 failing call, restart, expiry or cooldown that does not guard | 987 k, 1 min |
| `system_lock` | Does a load keep uploads out? (`LockInv`, `NoUploadAfterLoad`) | 2 uploads, 2 instances, 2 units of time, 1 event | 1.56 M, 1 min |
| `accounts` | Are the revoked and the deactivated stopped, is one token left, is the index complete, does an edit do what it says, does the list follow, do cached profiles go, and is all this what Sessions allows? (`TypeOK`, `RevocationHolds`, `InactiveIsNotRenewed`, `OneTokenPerSignIn`, `IndexIsComplete`, `EditIsWhole`, `OneHq`, `ListIsFresh`, `SessionSpec`, `DeactivationReachesCaches`) | nine mixes of kinds of request: 2 requests, 1 or 2 processes, up to 3 tokens, 1 failing call, 2 edits | 756 k, 3 min |
| `sales_desk` | Does a name become one row, a licensee follow the sheet, a sale stay in its territory and count once, and a cache show what there is? (`TypeOK`, `OneRowPerKey`, `ResolvedWhenAlone`, `NoNameIsLost`, `LicenseeFollowsSheet`, `SalesStayInTerritory`, `SingleCredit`, `CacheIsFresh`, `StaleAnswersDie`) | scenarios: 2 or 3 imports of 1 to 3 rows, 1 or 2 processes, 2 requests, up to 3 failing calls | 235 k, 2 min |
| `cancel_is_final` | *violated* | 1 upload, 2 instances, 1 cancellation | |
| `single_upload` | *violated* | 2 uploads, 1 instance, no failure | |
| `all_or_nothing` | *violated* | 1 upload, 1 failing call | |
| `single_use` | *violated* | 1 code, 1 fault | |
| `cooldown_is_shared` | *violated* | as `system_lock` | |

Why the bounds are enough to mean something. One upload meets everything that
concerns a single batch: the actors against it are cancellations, resets,
crashes and failing calls, and two instances make "another process" differ from
"this one". Two chunks of sales let one fail behind another that is written; 
three would repeat the second. Two failing calls let a status write and a purge fail
in one history. Two uploads are what it takes to compete for the lock and for the
newest active row. In `bulk_insert` the second chunk is shorter than a chunk and the
sub-chunks of the first have different lengths, so that every boundary occurs;
each level's retries are at their real number. In `system_lock` the second unit
lets the short span run out within the long one, and the event may be any of a
cancellation, a roster, a reset, a restart, an outage or a reset of a running
row; the proof covers all combinations. In `one_time_code` two requests
are a race, and two processes make it one that `_otp_lock` does not see. It
explores the steps of `OneTimeCode` that the routes of the phone can take; those of a password
reset, which has no cooldown, are in the proofs about `OneTimeCode!Spec`. With
two troubles in place of one the run has 4.9 million states and passes as well.

The two other runs have more kinds of step than can all meet in one state space,
so the initial state picks a mix (`Mixes` in `MCUserDirectory` and `MCSalesDesk`)
that says which kinds occur, in which processes, and how often calls fail. In
`accounts` the mixes set edits against edits (in two processes, and in one
with a failing write), edits against the list, checks against deactivation and
reactivation, sign-in and refresh against deactivation, sessions against one
another, against a revocation and a password reset, and more sign-ins than the
index holds; two requests are a race, and three tokens overflow an index of two.
In `sales_desk` each table is resolved by two imports in a row and by two that
overlap, with and without failing calls, and headquarters and companies with names of
which nothing but a blank tight key is left by three, the third of which may meet in one
process what the other process has stored; every rule of validation has a row that
meets it and one that does not, against six directories (`Usual` to `TwoOfAName`)
and two edits of them; answers are asked before, during and after an
import, with one request, two of a kind, two processes, a failing call, an import taken
back, two imports that overlap, and expiry. The mixes differ in what they let happen (`faults`,
`deskFaults`, `cacheFaults`, `removals`, `overlap`, `expiry`, `imports`, `until`), never
in what a step does.

### What the violated runs show

Each states what the code or its comments say, and TLC finds a history in
which the code does otherwise.

- `cancel_is_final`: "successfully cancelled and all partial records rolled
  back to 0" (`backend/uploads/service.py:249`). A worker past its last check
  writes "loaded" over the cancelled row, with its facts gone.
- `single_upload`: "Single-upload queue prevents concurrent execution"
  (`backend/uploads/router.py:98`). Two requests both pass the gate before
  either has a row. The older worker starts while it is the newest batch, or
  after the newer one has ended; the newer starts regardless of it.
- `all_or_nothing`: "ATOMIC ALL-OR-NOTHING" (`backend/uploads/service.py:3359`).
  `_populate_user_sales_fact` swallows the exception that is to bring this about.
- `single_use`: "drops records immediately upon successful verification
  (single-use)" (`backend/services/otp_service.py:279`). The transport has
  stored the code twice.
- `cooldown_is_shared`: "Persists to Redis Cloud for cross-container and
  cross-instance synchronization" (`backend/core/system_lock.py:84`). An
  instance on which the cooldown was once reset does not look at Redis until
  it records a cooldown itself.

### Fairness

- `UploadPipeline!FairSpec`: a worker of a live process takes its steps
  (background tasks are scheduled, database calls have timeouts); a process that
  died is started again (the host restarts it); time passes, so an active batch
  ages; somebody polls `/system/lock-status`, as every open client does, so
  stale rows are met; a purge under way goes on. Nobody has to upload or to
  cancel, nothing has to fail, and no choice among a worker's outcomes has to
  go well. `LockGivenBack` claims nothing after a crash, since the lock then has no owner.
- `BulkInsert!FairSpec`: `WF_vars(Next)`. Every request ends, with an answer, an
  error or the timeout of 120 seconds.

- `UserDirectory!Spec`: what is cached for five minutes (the profile in Redis, in
  the memory of a process and in its fallback store) goes in the end. No request
  need go on: a request that stops where it is does not keep a profile alive.
- `SalesDesk!Spec`: a request that has begun goes on, so does the background
  reading of lookups, and what lives a day expires. Nothing makes an import or a
  request begin. `StaleAnswersDie` claims that, once imports are over, the caches
  become and stay true.

The other safety runs assume no fairness.

## 4. What is proved

All theorems hold for every value of the constants that satisfies the named
assumptions (`BoundsAssumption`, `ChunksAssumption`, `AdvisoryLockAssumption`,
`SizesAssumption`, `CodeAssumption`, `LockAssumption`, `SessionAssumption`,
`DirectoryAssumption`, `MasterAssumption`, `LabelAssumption`, `ReportAssumption`,
`ReaderAssumption`, `AnswerAssumption`, `DeskAssumption`: the sets of processes are not empty, the bounds
are numbers, sizes and spans are positive, and the data has the shape section 2
gives it). Bounds such as `MaxFaults` or a mix's `faults` are arbitrary numbers, so
nothing rests on faults being few; sheets may have any length, and there may be any number of
imports, names, persons and requests.

**UploadPipeline** (`UploadPipelineProofs`). The properties are not inductive by
themselves: that a rolled-back batch has no facts depends on where its worker
is, what its process believes and which purges are under way. `IInv` says so:

- `FactsFollowWorker`: before the first insert there are no facts; behind the
  worker's own cleanup there are none unless a call failed; when it is
  gone there are none unless the row says "loaded", a purge is still to come, or
  something failed;
- `SalesFollowWorker`: in a batch left alone, the sales chunks behind the worker
  are whole;
- `BeliefIsJustified`: a process believes a batch cancelled only because a user
  asked for it or because the batch's worker, there, read an aborted status and
  is on its way out. That is what makes the next one true;
- `ExitsAreSettled`: on the way out the row is not active;
- `StatusFollowsWorker`, `LoopsStartAtOne`, `PurgesInterrupt`, `DownIsIdle`,
  `LockHasHolder`: the ties between column, worker, purges and lock that these
  need.

Each conjunct has a lemma that every step preserves it (`StatusStep`,
`LoopsStep`, `LockStep`, `PurgesStep`, `DownStep`, `BeliefStep`, `ExitsStep`,
`FactsStep`, `SalesStep`), by cases on the actions, on top of lemmas about
deletion, purges and chunks. From `InvCorrect` follow `LoadedCorrect`,
`RollbackCorrect`, `FinishedCorrect` and `LockCorrect`.

**Refinement** (same module): `Spec => ImportsAtomically`. A worker's
step changes the mapped state of its own batch only, in one of the ways of
`Begin`, `Work`, `Commit`, `RollBack` (`WorkerImports`; `Commit` needs
`SalesFollowWorker`, `RollBack` needs `FactsFollowWorker`); steps of others are
stutters or disturb the batches they touch.

**BulkInsert** (`BulkInsertProofs`), for any number of records, retries and any
sizes. `BulkInv` relates the position of the loops (`AtItsPlace`), the count
(`CountIsHonest`: it falls short as soon as one record was given up), and the
table (`InFront`, `ExactUnlessLost`, `MissedAreRefused`). From it:
`NothingMissing`, `ExactUnlessLost`, `GoodRowsSaved`.

**OneTimeCode** (`OneTimeCodeProofs`), for any number of processes, requests and
codes: a row that has been accepted is not in the table and never gets there
again, since the codes on their way to it are new and each is carried by one
request (`StoredIsFresh`); a delete answers with a row at most once; hence
`AcceptedOnce`. `ClaimInv` adds that whoever is at work on a claimed row is its only
holder in the process (`HoldersClaim`); hence `ClaimsAreHeld`: no path out of a
verification leaves a row claimed. For `AttemptsBounded` the count alone is not
inductive: `AttemptInv` adds to it the requests that are past the check of the
limit (`failed[p] + Cardinality(Trying(p))`), each of which may add one.

`MobileImplementsCodes` shows that every step of the routes is a step of `OneTimeCode`
or leaves its variables alone, so that all of this holds of `MobileSpec`; its
actions are conjunctions with those of `OneTimeCode`, and the mapping is the identity. From
it comes `OneLiveCodeCorrect`: `SendInv` says that whoever is sending a code has the cooldown
and is alone, and that the table is empty before the insert; none of it holds
once a cooldown did not guard, which is what the history variable `unguarded` records.

**SystemLock** (`SystemLockProofs`), for any number of instances, uploads,
restarts, outages and resets: `HeldLoad` says that while a load holds, every record
anywhere (memory, files, copies, Redis, rows) is either older than the load's row
or has the long span and begins no earlier. Whatever an instance comes to adopt
is then live as long as the load's own record, or is replaced by the row
(`LoadShutsGate`), so no upload passes (`NoUploadAfterLoadCorrect`).

**Sessions** (`SessionsProofs`), for any number of processes, requests, tokens and
failed calls. `SessionInv` (types, `TokensAreIssued`, and `OnPath`: what the place a
request has reached says of it) is inductive. The proofs go through two summaries
of a step: what it does to the requests (`Moved`: one goes on along its path or
ends, the others stay) and to the keys (`KeysShrink`: none is added, for all steps
but two).

- `RevocationHolds` and `InactiveIsNotRenewed` follow from `BarInv`: a reason a
  request is barred by still stands (`BarsStand`), and no request is past the check
  that is to stop it (`BarredIsStopped`).
- `OneTokenPerSignIn` follows from `RotationInv`: in an undisturbed sign-in one
  request at a time has its token (`SoleUser`), and the live tokens are among the one
  it presents and the one it issues, depending on how far it has got (`Rotates`).
- `IndexIsComplete` follows from `IndexInv`. While updates
  of the index are orderly (none met, none failed, `issued <= IndexLimit`), one
  request at a time has read the index and not yet written it, it knows all that is
  in it, and every live token is in the index or has a request that answers for it.
  That cutting the list to its limit drops nothing is a matter of counting:
  it has no repetition and its tokens are issued ones other than the new
  one (`RoomForOne`).

**Directory** (`DirectoryProofs`). `ImplementsSessions`: every step of
`UserDirectory` is a step of `Sessions` or leaves its variables alone, so what is
proved of sessions holds with edits write by write (`DirectoryKeepsSessions`).
`ListIsFresh` follows from `ListInv`: whoever changes a row owes a purge of the
list (`StaleIsOwed`), what is left of an edit belongs to one at work
(`JobsAtWork`), and old rows in a reader, in Redis or in a copy that nobody owes a purge
mean that the list has gone astray. `TypeInv` adds that
what is left of an edit is a rest of the groups its payload stands for, in their order
(`JobsInOrder`); the type invariant follows.

- `EditIsWhole` says nothing of an edit under way, so it is not inductive.
  `WholeInv` does: as long as an edit is alone, every table holds what the payload
  says if its write is behind, and what it held before if it is to come (`Track`),
  and no other edit is at work (`OnlyEdit`). What it says is the service's reading of
  it (`Applied`).
- `OneHq` follows from `HqInv`, about histories in which no edits overlap, no
  call fails and users are created with a role that exists (`Calm`). Then a user who exists has a row in `user_roles` or is about to
  get one, so that `set_user_headquarters` sees the limit whichever row it reads;
  between its check and its write the list is cut, and the old rows are gone before the
  new one comes. A user who is deleted has neither roles nor headquarters.

**Names** (`NamesProofs`), over `SalesDesk!Spec`, for any table, sheets, imports
and failures. Every step is summarised once by what it does to the import at work
(`ImportKeeps`, `Turns`) and to rows and caches; each conjunct has a lemma that a
step preserves it.

- `OneRowPerKey` follows from `TableInv`: while an import alone is between its reading and
  its insert, what it takes for missing is missing (`TodoInv`), because its cache covers
  all rows there are (`CoverInv`, for the tables read on every import; for the others
  as long as one process does the imports and no call failed).
- `NoNameIsLost` and `ResolvedWhenAlone` follow from `NamesInv`, which adds that a
  cache holds ids of existing rows that share a key with whoever finds them, while no
  row is deleted (`TrueInv`), and what an import
  knows of each of its names depending on how far it has got and how many of its calls
  failed (`KnownInv`): each fall-back needs one more failure to lose a name.
- `LicenseeFollowsSheet` follows from `FollowInv`: the last headquarters of a
  licensee is in the row, or the row is among those the import is still to move (`HomeInv`).

**Sales** (`SalesDeskProofs`), for any persons, labels, User Management, edits of it
and orders of visiting persons.

- `SalesInv` says of each published, summarised and credited sale how far its import
  must have got (`PublishedInv`, `SummaryInv`, `CreditedInv`), and of an import past
  validation what the check established and nothing has undone: no row has an
  error in who reports to whom (`ReportedInv`), and each row's people are registered
  in its headquarters, or have none and will be registered by the import itself
  (`PlacedInv`). TLC has checked it on the mixes of `sales_desk`.
- `SalesStayInTerritory` follows from `PlacedInv`: `SyncTerritory` gives a
  person the first headquarters the sheet has for him, which is that of every row if
  the sheet names him in one way or in one headquarters. A person named in two ways was
  checked under one name and is registered under another.
- `SingleCredit` follows from `ReportedInv` and from lemmas about
  `MemberToTsms` for an arbitrary order of visiting persons (`CountedOnce`, `CountedFor`):
  whoever has no active namesake and is not a manager below another one is counted
  for one, in every order, and for the one his row of the mapping names.
- `TypeOK` follows from `SalesInv` with `CallsInv`: what caches, lookups and requests
  hold has its type. It includes that facts and summaries stay finite, since the
  latest date of sale is their maximum.
- `CacheIsFresh` is about the time between imports, and what it says is not true while
  one clears: an answer that a call has in hand goes into a place cleared before.
  Two invariants say, place by place (a kind of Redis and the spare stores, the memory),
  what may still be wrong there (`Pardoned`): anything before its first clearing; after
  that what this clearing found in hand and marked, or a failed call left behind; after the
  second one only what the second one marked.
  `RightInv` is for all processes: what is in a place, or on its way there (`Held`), agrees
  with the sales there are as far as its lookups reach, but for those of imports not yet
  summarised or taken back (`Open`), or is pardoned. `FreshInv` is for a process
  that is the only one: no background reading is under way (`NoneOld`), whatever lookups
  the process or a call has overlook nothing or are marked (`AllSeen`), and hence whatever is kept
  is fresh, pardoned, or computed up to a date set back (`AllFresh`). It needs that companies of
  credited sales have a row (`CreditedKnown`, from `NamesInv`), and for the prewarmed
  answer that no other import is under way. A step is summarised by what it does to the
  caches (`CacheNext`), and each kind of step has a lemma on what it moves or leaves (`RequestsFlow`,
  `PurgeLeaves`, `PrewarmKeeps`, `RequestsLook`, `PurgeLooks`). TLC has checked both invariants on
  the mixes of `sales_desk` and on larger ones with two failing calls.

Only model-checked:

- `EventuallySettled`, `LockGivenBack`, `EventuallyEnds`, `DeactivationReachesCaches`
  and `StaleAnswersDie`: liveness under fairness is beyond the prover.

## 5. Not modelled

- `backend/core/deduplication.py`: nothing calls it.
- That `send_mobile_otp` sends a code which was not stored (it does not look at
  what `store_otp_in_db` answers): the step is in `StoreCode`, but the answer of the
  route promises only that a code was sent, so no property is about it.
- Company aliases and categories, the `resolve_*_id` methods (nothing calls them),
  and the routes that list and edit master data one row at a time.
- The roster import, which upserts users row by row; SystemLock has when it may run.
- In the mobile caches: a reading of lookups that fails, which makes a difference only
  with a second failing call, and the request of companies that asks for a refresh.
- `_populate_user_sales_fact` looks persons up in a table of its own (one tenant, inner
  spaces kept); the model credits sales by the look-up of validation's rules.
- In master data: cells that read "null" or "none".
- The `cache_response` decorator of the web's analytics, which looks up, computes
  and keeps like ResponseCache without a lock; the figures, periods and pages of
  answers; other lists of the mobile API. An edit of a user does not clear the
  mobile caches of other processes; `CacheIsFresh` is about sales and master data.
- In sessions: password rules, rate limits, the limits of forgot-password, the
  app-review user.
- Reading the workbook, sums of aggregation, analytics, chatbot, tenants,
  telemetry, clients: pure functions, single reads and writes, or user interface.
- In the pipeline: the batch numbers a process without a database makes up, the
  summary tables, more than five active rows at once.
- A worker that dies after a finished cancellation's purge and before its next
  check leaves the facts it wrote in between. `RollbackLeavesNothing` is about
  workers that end, not those that die. A purge that comes late can delete the
  facts of a batch that has loaded meanwhile; `LoadedIsComplete` is about batches nobody interfered with.

## 6. Plan

Order by importance: facts first, then what keeps imports apart, then sign-in.

1. `UploadPipeline` with `UploadPipelineInv`, `AtomicImport`, proofs and
   refinement. *Done.*
2. `BulkInsert` with proofs. *Done.*
3. `OneTimeCode` with proof of single acceptance, `MobileCode` with proof of one
   code at a time. *Done.*
4. `SystemLock` with proof of the cooldown. *Done.*
5. `Sessions` and `UserDirectory`, with proofs of revocation, rotation, the index
   and the refinement. *Done.*
6. `MasterData`, `RowValidation`, `SalesReport`, `ResponseCache`, composed in
   `SalesDesk`. *Done.*
7. Proofs of `ClaimsAreHeld` and `AttemptsBounded`. *Done.*
8. Proofs of what `accounts` and `sales_desk` check: the directory's edits, one row
   for a name, territories, credit. *Done.*
9. `CacheIsFresh` with its premises stated, so that it holds for all constants, and its
   proof. *Done.*
10. Open: the roster import as an edit of several users of UserDirectory.
11. Open: a composition of `UploadPipeline` and `SystemLock` in which the
   pipeline's gate is the lock's, if it stays within reach of TLC. Until then the
   pipeline lets the lock pass at any time, so nothing it shows rests on the lock.
