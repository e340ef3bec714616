----------------------------- MODULE SystemLock -----------------------------
(***************************************************************************)
(* The read-only lock and the cooldown between uploads                     *)
(* (backend/core/system_lock.py), kept by several server instances: each   *)
(* has its memory, its state file, its copy of what it wrote to Redis and  *)
(* a cached lock status; they share Redis and the rows of upload_batches.  *)
(*                                                                         *)
(* Time is counted in units of the spans.  Within a unit every stamp is    *)
(* new: seq is the fine part of the clock, and a record or row is newer    *)
(* than another when its seq is greater.  The cached status lives for ten  *)
(* seconds: it may go at any time and is gone when the unit is over.  So a  *)
(* cached "locked", which only refuses, is as good as no cached status, and *)
(* the model keeps a cached "open" alone.                                  *)
(***************************************************************************)
EXTENDS Naturals, FiniteSetsExt

CONSTANTS
    Instance,      \* server instances
    NoInstance,
    MaxBatch,      \* bound: uploads, numbered in the order of created_at
    SuccessSpan,   \* UPLOAD_COOLDOWN_SECONDS
    FailureSpan,   \* VALIDATION_ERROR_COOLDOWN_SECONDS
    OverrideSpan,  \* TTL of the override key: 300 seconds
    RosterSpan,    \* age at which a roster lock is dropped: 300 seconds
    MaxTime,       \* bound: units of time
    MaxEvents      \* bound: cancellations, rosters, resets, restarts, outages and
                   \* resets of a row whose worker is at work

ASSUME LockAssumption ==
    /\ Instance # {} /\ NoInstance \notin Instance
    /\ MaxBatch \in Nat /\ MaxTime \in Nat /\ MaxEvents \in Nat
    /\ FailureSpan \in Nat \ {0} /\ SuccessSpan \in Nat /\ SuccessSpan > FailureSpan
    /\ OverrideSpan \in Nat \ {0} /\ RosterSpan \in Nat \ {0}

Batch == 1..MaxBatch

\* A cooldown: when it began and how long it lasts.  seq 0: there is none.
Record   == [at : Nat, seq : Nat, span : {SuccessSpan, FailureSpan}]
NoRecord == [at |-> 0, seq |-> 0, span |-> SuccessSpan]

VARIABLES
    now, seq,
    \* upload_batches
    status,     \* "gated": past the gate, without a row; "dropped": never got one
    ended,      \* when and in which order the row was last stamped
    host,       \* the instance that accepted the upload
    working,    \* batches that a worker imports
    \* Redis
    redisUp,
    key,        \* REDIS_COOLDOWN_KEY
    override,   \* when REDIS_COOLDOWN_OVERRIDE_KEY expires
    \* one per instance
    memory,     \* _LAST_UPLOAD_COMPLETION
    file,       \* COOLDOWN_STATE_FILE
    mirror,     \* REDIS_COOLDOWN_KEY in _in_memory_store
    reset,      \* _COOLDOWN_OVERRIDE_RESET
    polling,    \* a lock-status request that found no cooldown is under way
    cachedOpen, \* _SYSTEM_LOCK_CACHE holds a status that is not locked
    rosterLock, \* _ROSTER_UPLOAD_LOCK: when it is dropped, 0 for inactive
    rosters,    \* roster imports under way
    owed,       \* cooldowns that a worker or a request is about to record
    \* bound and history
    events,
    hold        \* the newest load whose cooldown nothing has cut short

rowVars      == <<status, ended, host, working>>
redisVars    == <<redisUp, key, override>>
recordVars   == <<memory, file, mirror, reset>>
lockVars     == <<polling, cachedOpen, rosterLock, rosters>>
vars == <<now, seq, rowVars, redisVars, recordVars, lockVars, owed, events, hold>>

\* No load holds.
NoHold == 0

Init ==
    /\ now = 1 /\ seq = 0
    /\ status = [b \in Batch |-> "none"]
    /\ ended = [b \in Batch |-> NoRecord]
    /\ host = [b \in Batch |-> NoInstance]
    /\ working = {}
    /\ redisUp = TRUE
    /\ key = NoRecord
    /\ override = 0
    /\ memory = [i \in Instance |-> NoRecord]
    /\ file = [i \in Instance |-> NoRecord]
    /\ mirror = [i \in Instance |-> NoRecord]
    /\ reset = [i \in Instance |-> FALSE]
    /\ polling = [i \in Instance |-> FALSE]
    /\ cachedOpen = [i \in Instance |-> FALSE]
    /\ rosterLock = [i \in Instance |-> 0]
    /\ rosters = [i \in Instance |-> 0]
    /\ owed = {}
    /\ events = 0
    /\ hold = NoHold

-----------------------------------------------------------------------------
(***************************************************************************)
(* get_upload_cooldown_status.                                             *)
(***************************************************************************)

Live(record) == record.seq > 0 /\ now < record.at + record.span

\* The override key that a reset leaves in _in_memory_store has no expiry, and
\* goes with reset[i]: it adds nothing to it.
Overridden(i) == reset[i] \/ (redisUp /\ now < override)

Shared(i) == IF redisUp THEN key ELSE mirror[i]

\* Finished rows that are newer than a record.  "cancelled" is not among them.
NewerRows(record) ==
    {b \in Batch : status[b] \in {"loaded", "failed"} /\ ended[b].seq > record.seq}

\* Mutant: the rows are consulted only while nothing is known.
AdoptUnlessKnown(i, known) ==
    LET local == IF known.seq = 0 /\ Live(file[i]) THEN file[i] ELSE known IN
    CASE Overridden(i)                      -> known
      [] ~Overridden(i) /\ Live(Shared(i)) -> Shared(i)
      [] OTHER ->
            IF local.seq > 0 \/ NewerRows(local) = {}
              THEN local ELSE ended[Max(NewerRows(local))]

\* What the memory of i is after a query that found it to be known: the record
\* of Redis while that is live, else its own or its file's, unless a finished row
\* is newer; of several the one created last, even if another ended later.
Adopt(i, known) ==
    LET local == IF known.seq = 0 /\ Live(file[i]) THEN file[i] ELSE known IN
    CASE Overridden(i)                      -> known
      [] ~Overridden(i) /\ Live(Shared(i)) -> Shared(i)
      [] OTHER ->
            IF NewerRows(local) = {} THEN local ELSE ended[Max(NewerRows(local))]

CoolingDown(i, known) == ~Overridden(i) /\ Live(Adopt(i, known))

-----------------------------------------------------------------------------
(***************************************************************************)
(* get_system_lock_status, check_system_lock_or_raise.                     *)
(***************************************************************************)

ActiveUpload == \E b \in Batch : status[b] = "active"

RosterLocked(i) == now < rosterLock[i]

\* The cooldown is looked up first; if there is one the answer is "locked".  Else
\* the active batch and the roster are looked up, and the answer goes to the cache,
\* whatever has happened meanwhile.
StartPoll(i) ==
    /\ ~cachedOpen[i] /\ ~polling[i]
    /\ polling' = [polling EXCEPT ![i] = ~CoolingDown(i, memory[i])]
    /\ memory' = [memory EXCEPT ![i] = Adopt(i, @)]
    /\ UNCHANGED <<now, seq, rowVars, redisVars, file, mirror, reset,
                   cachedOpen, rosterLock, rosters, owed, events, hold>>

FinishPoll(i) ==
    LET locked == ActiveUpload \/ RosterLocked(i) IN
    /\ polling[i]
    /\ polling' = [polling EXCEPT ![i] = FALSE]
    /\ cachedOpen' = [cachedOpen EXCEPT ![i] = ~locked]
    /\ rosterLock' = [rosterLock EXCEPT ![i] = IF locked THEN @ ELSE 0]
    /\ UNCHANGED <<now, seq, rowVars, redisVars, recordVars, rosters,
                   owed, events, hold>>

CacheExpires(i) ==
    /\ cachedOpen[i]
    /\ cachedOpen' = [cachedOpen EXCEPT ![i] = FALSE]
    /\ UNCHANGED <<now, seq, rowVars, redisVars, recordVars, polling, rosterLock, rosters,
                   owed, events, hold>>

\* check_system_lock_or_raise and check_upload_cooldown_or_raise both pass: a
\* cached status is believed, the cooldown is looked up in any case.
PassChecks(i) ==
    LET once == Adopt(i, memory[i]) IN
    /\ ~CoolingDown(i, memory[i])
    /\ \/ cachedOpen[i] /\ memory' = [memory EXCEPT ![i] = once]
       \/ /\ ~cachedOpen[i] /\ ~ActiveUpload /\ ~RosterLocked(i)
          /\ ~CoolingDown(i, once)
          /\ memory' = [memory EXCEPT ![i] = Adopt(i, once)]

\* The lock passes by a cached status and the cooldown does not.
RejectUpload(i) ==
    /\ cachedOpen[i]
    /\ CoolingDown(i, memory[i])
    /\ memory' = [memory EXCEPT ![i] = Adopt(i, @)]
    /\ UNCHANGED <<now, seq, rowVars, redisVars, file, mirror, reset, lockVars,
                   owed, events, hold>>

-----------------------------------------------------------------------------
(***************************************************************************)
(* Recording a cooldown and resetting it.                                  *)
(***************************************************************************)

\* Mutant: the record holds the end of the cooldown.
StampEnd(span) == [at |-> now + span, seq |-> seq + 1, span |-> span]

Stamp(span) == [at |-> now, seq |-> seq + 1, span |-> span]

\* record_upload_cooldown
RecordCooldown(i, span) ==
    /\ seq' = seq + 1
    /\ cachedOpen' = [cachedOpen EXCEPT ![i] = FALSE]
    /\ reset' = [reset EXCEPT ![i] = FALSE]
    /\ memory' = [memory EXCEPT ![i] = Stamp(span)]
    /\ mirror' = [mirror EXCEPT ![i] = Stamp(span)]
    /\ file' = [file EXCEPT ![i] = Stamp(span)]
    /\ IF redisUp THEN key' = Stamp(span) /\ override' = 0
                  ELSE UNCHANGED <<key, override>>

Event ==
    /\ events < MaxEvents
    /\ events' = events + 1

\* reset_upload_cooldown: POST /cooldown/reset, or cancel-active with no active
\* upload, which also drops the roster lock.
ResetCooldown(i) ==
    /\ Event
    /\ cachedOpen' = [cachedOpen EXCEPT ![i] = FALSE]
    /\ reset' = [reset EXCEPT ![i] = TRUE]
    /\ memory' = [memory EXCEPT ![i] = NoRecord]
    /\ mirror' = [mirror EXCEPT ![i] = NoRecord]
    /\ file' = [file EXCEPT ![i] = NoRecord]
    /\ IF redisUp THEN key' = NoRecord /\ override' = now + OverrideSpan
                  ELSE UNCHANGED <<key, override>>
    /\ \/ ~ActiveUpload /\ rosterLock' = [rosterLock EXCEPT ![i] = 0]
       \/ UNCHANGED rosterLock
    /\ hold' = NoHold
    /\ UNCHANGED <<now, seq, rowVars, redisUp, polling, rosters, owed>>

-----------------------------------------------------------------------------
(***************************************************************************)
(* Uploads of sales files.                                                 *)
(***************************************************************************)

\* The upload passes the lock, the cooldown and the queue gate of i.
PassGate(i, b) ==
    /\ status[b] = "none"
    /\ \A c \in Batch : c < b => status[c] # "none"
    /\ PassChecks(i)
    /\ ~ActiveUpload
    /\ status' = [status EXCEPT ![b] = "gated"]
    /\ host' = [host EXCEPT ![b] = i]
    /\ cachedOpen' = [cachedOpen EXCEPT ![i] = TRUE]
    /\ UNCHANGED <<now, seq, ended, working, redisVars, file, mirror, reset, polling, rosterLock,
                   rosters, owed, events, hold>>

\* The body has been received: the row is created, rows in the order of batches.
CreateRow(b) ==
    /\ status[b] = "gated"
    /\ \A c \in Batch : c < b => status[c] # "gated"
    /\ status' = [status EXCEPT ![b] = "active"]
    /\ working' = working \cup {b}
    /\ ended' = [ended EXCEPT ![b] = Stamp(FailureSpan)]
    /\ seq' = seq + 1
    /\ UNCHANGED <<now, host, redisVars, recordVars, lockVars, owed, events, hold>>

\* The worker writes the final status, whatever the row says by now; it records
\* the cooldown later.
EndUpload(b, outcome, span) ==
    /\ b \in working
    /\ working' = working \ {b}
    /\ status' = [status EXCEPT ![b] = outcome]
    /\ ended' = [ended EXCEPT ![b] = Stamp(span)]
    /\ seq' = seq + 1
    /\ owed' = owed \cup {<<host[b], b, "worker", span>>}
    /\ UNCHANGED <<now, host, redisVars, recordVars, lockVars, events>>

Finish(b) ==
    /\ EndUpload(b, "loaded", SuccessSpan)
    /\ hold' = b

Fail(b) ==
    /\ EndUpload(b, "failed", FailureSpan)
    /\ hold' = NoHold

\* The worker has seen that the batch was cancelled or reset: its last update
\* stamps the row and leaves the status.
Abort(b) ==
    /\ status[b] \in {"cancelled", "failed"}
    /\ EndUpload(b, status[b], FailureSpan)
    /\ hold' = NoHold

\* A stale or orphaned row is reset without a new updated_at: it has the stamp of
\* its creation, or that of the last progress its worker has reported.
Interrupt(b) ==
    /\ status[b] = "active"
    /\ status' = [status EXCEPT ![b] = "failed"]
    /\ IF b \in working THEN Event ELSE UNCHANGED events
    /\ \/ UNCHANGED <<ended, seq, hold>>
       \/ /\ b \in working
          /\ ended' = [ended EXCEPT ![b] = Stamp(FailureSpan)]
          /\ seq' = seq + 1
          /\ hold' = NoHold
    /\ UNCHANGED <<now, host, working, redisVars, recordVars, lockVars, owed>>

\* cancel_batch, for a batch in any status; it records a cooldown later.
Cancel(i, b) ==
    /\ Event
    /\ status[b] \in {"active", "loaded", "failed"}
    /\ status' = [status EXCEPT ![b] = "cancelled"]
    /\ owed' = owed \cup {<<i, b, "request", FailureSpan>>}
    /\ UNCHANGED <<now, seq, ended, host, working, redisVars, recordVars, lockVars, hold>>

\* What was owed is recorded; after a failure or cancellation the roster lock
\* of the instance is dropped as well.
RecordOwed(i, b, by, span) ==
    /\ <<i, b, by, span>> \in owed
    /\ owed' = owed \ {<<i, b, by, span>>}
    /\ RecordCooldown(i, span)
    /\ rosterLock' = IF span = FailureSpan THEN [rosterLock EXCEPT ![i] = 0] ELSE rosterLock
    /\ hold' = IF span = FailureSpan THEN NoHold ELSE hold
    /\ UNCHANGED <<now, rowVars, redisUp, polling, rosters, events>>

-----------------------------------------------------------------------------
(***************************************************************************)
(* Uploads of rosters (backend/users/router.py, upload_roster).            *)
(***************************************************************************)

StartRoster(i) ==
    /\ Event
    /\ PassChecks(i)
    /\ rosterLock' = [rosterLock EXCEPT ![i] = now + RosterSpan]
    /\ cachedOpen' = [cachedOpen EXCEPT ![i] = FALSE]
    /\ rosters' = [rosters EXCEPT ![i] = @ + 1]
    /\ UNCHANGED <<now, seq, rowVars, redisVars, file, mirror, reset, polling, owed, hold>>

\* A roster that was imported is followed by the cooldown of a success.
EndRoster(i) ==
    /\ rosters[i] > 0
    /\ rosters' = [rosters EXCEPT ![i] = @ - 1]
    /\ rosterLock' = [rosterLock EXCEPT ![i] = 0]
    /\ \/ RecordCooldown(i, SuccessSpan)
       \/ /\ cachedOpen' = [cachedOpen EXCEPT ![i] = FALSE]
          /\ UNCHANGED <<seq, key, override, recordVars>>
    /\ UNCHANGED <<now, rowVars, redisUp, polling, owed, events, hold>>

-----------------------------------------------------------------------------

Tick ==
    /\ now < MaxTime
    /\ now' = now + 1
    /\ cachedOpen' = [i \in Instance |-> FALSE]
    /\ UNCHANGED <<seq, rowVars, redisVars, recordVars, polling, rosterLock, rosters,
                   owed, events, hold>>

\* Redis cannot be reached, by anybody, or can again.
RedisFails ==
    /\ redisUp /\ Event
    /\ redisUp' = FALSE
    /\ UNCHANGED <<now, seq, rowVars, key, override, recordVars, lockVars, owed, hold>>

RedisReturns ==
    /\ ~redisUp
    /\ redisUp' = TRUE
    /\ UNCHANGED <<now, seq, rowVars, key, override, recordVars, lockVars,
                   owed, events, hold>>

\* A process restarts, in its container or, without the file, in a new one.
Restart(i) ==
    /\ Event
    /\ memory' = [memory EXCEPT ![i] = NoRecord]
    /\ mirror' = [mirror EXCEPT ![i] = NoRecord]
    /\ file' \in {file, [file EXCEPT ![i] = NoRecord]}
    /\ reset' = [reset EXCEPT ![i] = FALSE]
    /\ polling' = [polling EXCEPT ![i] = FALSE]
    /\ cachedOpen' = [cachedOpen EXCEPT ![i] = FALSE]
    /\ rosterLock' = [rosterLock EXCEPT ![i] = 0]
    /\ rosters' = [rosters EXCEPT ![i] = 0]
    /\ owed' = {o \in owed : o[1] # i}
    /\ working' = {b \in working : host[b] # i}
    /\ status' = [b \in Batch |-> IF status[b] = "gated" /\ host[b] = i THEN "dropped"
                                  ELSE status[b]]
    /\ UNCHANGED <<now, seq, ended, host, redisVars, hold>>

-----------------------------------------------------------------------------

InstanceStep(i) ==
    \/ StartPoll(i) \/ FinishPoll(i) \/ CacheExpires(i) \/ RejectUpload(i)
    \/ ResetCooldown(i) \/ StartRoster(i) \/ EndRoster(i) \/ Restart(i)

UploadStep(b) ==
    \/ CreateRow(b) \/ Finish(b) \/ Fail(b) \/ Abort(b) \/ Interrupt(b)
    \/ \E i \in Instance : PassGate(i, b) \/ Cancel(i, b)

RecordStep == \E o \in owed : RecordOwed(o[1], o[2], o[3], o[4])

Next ==
    \/ \E i \in Instance : InstanceStep(i)
    \/ \E b \in Batch : UploadStep(b)
    \/ RecordStep
    \/ Tick \/ RedisFails \/ RedisReturns

Spec == Init /\ [][Next]_vars

-----------------------------------------------------------------------------

UploadsOK ==
    /\ now \in Nat /\ seq \in Nat /\ events \in Nat
    /\ status \in [Batch -> {"none", "gated", "active", "loaded", "failed", "cancelled",
                             "dropped"}]
    /\ ended \in [Batch -> Record]
    /\ host \in [Batch -> Instance \cup {NoInstance}]
    /\ \A b \in Batch : status[b] # "none" => host[b] \in Instance
    /\ working \subseteq {b \in Batch : host[b] \in Instance}
    /\ owed \subseteq Instance \X Batch \X {"worker", "request"} \X {SuccessSpan, FailureSpan}
    /\ hold \in 0..MaxBatch

RecordsOK ==
    /\ redisUp \in BOOLEAN /\ key \in Record /\ override \in Nat
    /\ memory \in [Instance -> Record]
    /\ file \in [Instance -> Record]
    /\ mirror \in [Instance -> Record]
    /\ reset \in [Instance -> BOOLEAN]

LocksOK ==
    /\ polling \in [Instance -> BOOLEAN]
    /\ cachedOpen \in [Instance -> BOOLEAN]
    /\ rosterLock \in [Instance -> Nat]
    /\ rosters \in [Instance -> Nat]

TypeOK == UploadsOK /\ RecordsOK /\ LocksOK

\* b has no row.
NoRow(b) == status[b] \in {"none", "gated", "dropped"}

\* The newest upload was loaded, its span is not over, and since then nobody has
\* reset the cooldown, failed or cancelled.
LoadHolds ==
    LET b == hold IN
    /\ b # 0 /\ status[b] = "loaded"
    /\ now < ended[b].at + SuccessSpan
    /\ \A c \in Batch : c > b => NoRow(c)

\* This step starts an upload, of sales or of a roster, on i.
Starts(i) ==
    \/ \E b \in Batch : status[b] = "none" /\ status'[b] = "gated" /\ host'[b] = i
    \/ rosters'[i] > rosters[i]

\* "Initiating the 30-minute system cooldown": from the moment the row is loaded,
\* with or without Redis, with a cached status however old, on the instance that
\* loaded it, another one or one that has just restarted, no upload starts for
\* the span, unless an earlier reset still stands there.
NoUploadAfterLoad ==
    [][\A i \in Instance : Starts(i) => ~LoadHolds \/ Overridden(i)]_vars

\* "Persists to Redis Cloud for cross-container and cross-instance
\* synchronization": while Redis can be reached and holds a cooldown that is not
\* over, no upload starts on any instance.
CooldownIsShared ==
    [][\A i \in Instance : Starts(i) => ~(redisUp /\ Live(key))]_vars

-----------------------------------------------------------------------------
(***************************************************************************)
(* Why NoUploadAfterLoad holds: whatever record an instance may come to    *)
(* know that is not older than the load keeps it shut for as long.         *)
(***************************************************************************)

Records ==
    {key} \cup {ended[b] : b \in Batch}
          \cup UNION {{memory[i], file[i], mirror[i]} : i \in Instance}

\* Uploads pass the gate and rows are created in the order of their numbers, and
\* rows alone are stamped.
RowsInOrder ==
    \A b \in Batch :
        /\ status[b] # "none" => \A c \in Batch : c < b => status[c] # "none"
        /\ IF NoRow(b) THEN ended[b].seq = 0 /\ b \notin working
                       ELSE \A c \in Batch : c < b => status[c] # "gated"

StampedInThePast == \A r \in Records : r.seq <= seq /\ r.at <= now

HeldLoad ==
    LET b == hold IN
    b # 0 =>
        /\ ~NoRow(b) /\ b \notin working
        /\ ended[b].seq > 0 /\ ended[b].span = SuccessSpan
        /\ (\A c \in Batch : c > b => NoRow(c)) =>
              /\ \A c \in Batch : c # b => ended[c].seq < ended[b].seq
              /\ \A r \in Records : r.seq >= ended[b].seq =>
                    r.span = SuccessSpan /\ r.at >= ended[b].at

LockInv == TypeOK /\ RowsInOrder /\ StampedInThePast /\ HeldLoad

=============================================================================
