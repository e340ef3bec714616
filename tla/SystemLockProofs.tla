-------------------------- MODULE SystemLockProofs --------------------------
(***************************************************************************)
(* Whatever the number of instances, uploads, resets, outages and restarts: *)
(* no upload starts within the span of the newest load on an instance where *)
(* no earlier reset stands.  The inductive invariant is LockInv: its part   *)
(* HeldLoad says that a record an instance may adopt is either older than   *)
(* the load, so that the row of the load replaces it, or shuts the gate for *)
(* as long.                                                                 *)
(***************************************************************************)
EXTENDS SystemLock, WellFoundedInduction, TLAPS

\* A set of batches that is not empty has a greatest member.
LEMMA MaxOfBatches ==
    ASSUME NEW S, S \subseteq Batch, S # {}
    PROVE  Max(S) \in S /\ \A x \in S : x <= Max(S)
<1> DEFINE R == {ss \in Nat \X Nat : ss[1] < ss[2]}
           T == {MaxBatch - x : x \in S}
<1>1. IsWellFoundedOn(R, Nat)
  BY NatLessThanWellFounded DEF OpToRel
<1>2. T \subseteq Nat /\ T # {}
  <2>1. ASSUME NEW x \in S PROVE MaxBatch - x \in Nat
    <3>1. x \in 1..MaxBatch
      BY DEF Batch
    <3> QED  BY <3>1, LockAssumption
  <2> QED  BY <2>1
<1>3. PICK t \in T : \A y \in T : ~ (<<y, t>> \in R)
  BY <1>1, <1>2, WFMin, Zenon
<1>4. PICK m \in S : t = MaxBatch - m
  OBVIOUS
<1>5. \A x \in S : m >= x
  <2> TAKE x \in S
  <2>1. MaxBatch - x \in T /\ MaxBatch - x \in Nat /\ t \in Nat
    BY <1>2
  <2>2. ~(MaxBatch - x < t)
    BY <1>3, <2>1
  <2> QED  BY <2>2, <1>4, LockAssumption DEF Batch
<1> QED  BY <1>5, LockAssumption DEF Max, Batch

-----------------------------------------------------------------------------

\* The members of Records.
LEMMA RecordsAre ==
    \A r : r \in Records <=>
        \/ r = key
        \/ \E b \in Batch : r = ended[b]
        \/ \E i \in Instance : r = memory[i] \/ r = file[i] \/ r = mirror[i]
BY DEF Records

\* A query leaves an instance with a record that was there before.
LEMMA AdoptFromRecords ==
    ASSUME NEW i \in Instance, NEW known \in Records
    PROVE  Adopt(i, known) \in Records
<1> DEFINE local == IF known.seq = 0 /\ Live(file[i]) THEN file[i] ELSE known
<1>1. local \in Records /\ Shared(i) \in Records
  BY RecordsAre DEF Shared
<1>2. CASE Overridden(i)
  BY <1>2 DEF Adopt
<1>3. CASE ~Overridden(i) /\ Live(Shared(i))
  BY <1>1, <1>3 DEF Adopt
<1>4. CASE ~Overridden(i) /\ ~Live(Shared(i))
  <2>1. Adopt(i, known) = IF NewerRows(local) = {} THEN local
                                                   ELSE ended[Max(NewerRows(local))]
    BY <1>4 DEF Adopt
  <2>2. CASE NewerRows(local) = {}
    BY <2>1, <2>2, <1>1
  <2>3. CASE NewerRows(local) # {}
    <3>1. Max(NewerRows(local)) \in Batch
      BY <2>3, MaxOfBatches DEF NewerRows
    <3> QED  BY <2>1, <2>3, <3>1, RecordsAre
  <2> QED  BY <2>2, <2>3
<1> QED  BY <1>2, <1>3, <1>4

\* While a load holds, an instance without a standing reset finds the cooldown:
\* in Redis, or in a record that is as good as the load's, or in its row.
LEMMA LoadShutsGate ==
    ASSUME LockInv, LoadHolds, NEW i \in Instance, ~Overridden(i)
    PROVE  CoolingDown(i, memory[i])
<1> DEFINE b == hold
           known == memory[i]
           local == IF known.seq = 0 /\ Live(file[i]) THEN file[i] ELSE known
           Newer == NewerRows(local)
<1>1. /\ b \in Batch /\ now \in Nat /\ seq \in Nat /\ status[b] = "loaded"
      /\ ended \in [Batch -> Record]
      /\ now < ended[b].at + SuccessSpan
      /\ \A c \in Batch : c > b => NoRow(c)
      /\ \A c \in Batch : c # b => ended[c].seq < ended[b].seq
      /\ ended[b].seq > 0 /\ ended[b].span = SuccessSpan
      /\ \A r \in Records : r.seq >= ended[b].seq => r.span = SuccessSpan /\ r.at >= ended[b].at
  BY LockAssumption DEF LoadHolds, LockInv, TypeOK, UploadsOK, HeldLoad, Batch
<1>2. local \in Records /\ known \in Records /\ local \in Record
  BY RecordsAre DEF LockInv, TypeOK, RecordsOK
<1> HIDE DEF b, local
<1>3. CASE Live(Shared(i))
  BY <1>3 DEF CoolingDown, Adopt
<1>4. CASE ~Live(Shared(i))
  <2>1. Adopt(i, memory[i]) = IF Newer = {} THEN local ELSE ended[Max(Newer)]
    BY <1>4 DEF Adopt, local
  <2>2. ended[b].seq \in Nat /\ ended[b].at \in Nat /\ local.seq \in Nat /\ local.at \in Nat
    BY <1>1, <1>2 DEF Record
  <2>3. CASE b \in Newer
    <3>1. \A c \in Newer : c <= b
      <4>1. ASSUME NEW c \in Newer PROVE ~(c > b)
        BY <1>1 DEF NewerRows, NoRow
      <4> QED  BY <4>1, <1>1, LockAssumption DEF NewerRows, Batch
    <3>2. Max(Newer) \in Newer /\ b <= Max(Newer)
      BY <2>3, MaxOfBatches DEF NewerRows
    <3>3. Max(Newer) = b
      BY <3>1, <3>2, <1>1, LockAssumption DEF NewerRows, Batch
    <3> QED  BY <2>1, <2>2, <2>3, <3>3, <1>1 DEF CoolingDown, Live
  <2>4. CASE b \notin Newer
    <3>1. local.seq >= ended[b].seq
      BY <2>2, <2>4, <1>1 DEF NewerRows
    <3>2. Newer = {}
      <4>1. ASSUME NEW c \in Newer PROVE FALSE
        <5>1. c \in Batch /\ ended[c].seq > local.seq /\ ended[c].seq \in Nat
          BY <1>1 DEF NewerRows, Record
        <5> QED  BY <5>1, <3>1, <2>2, <2>4, <1>1
      <4> QED  BY <4>1
    <3>3. local.span = SuccessSpan /\ local.at >= ended[b].at
      BY <3>1, <1>1, <1>2
    <3> QED  BY <2>1, <2>2, <3>1, <3>2, <3>3, <1>1, LockAssumption DEF CoolingDown, Live
  <2> QED  BY <2>3, <2>4
<1> QED  BY <1>3, <1>4

-----------------------------------------------------------------------------

\* At first there is nothing but empty records.
LEMMA LockInitially == Init => LockInv
<1> SUFFICES ASSUME Init PROVE LockInv
  OBVIOUS
<1>1. NoRecord \in Record
  BY LockAssumption DEF NoRecord, Record
<1>2. TypeOK
  BY <1>1, LockAssumption DEF Init, TypeOK, UploadsOK, RecordsOK, LocksOK, NoHold, Batch
<1>3. \A r \in Records : r = NoRecord
  BY RecordsAre DEF Init
<1>4. RowsInOrder /\ StampedInThePast /\ HeldLoad
  BY <1>3 DEF Init, RowsInOrder, StampedInThePast, HeldLoad, NoRow, NoRecord, NoHold
<1> QED  BY <1>2, <1>4 DEF LockInv

\* A stamp is a record.
LEMMA StampIsRecord ==
    ASSUME TypeOK, NEW span \in {SuccessSpan, FailureSpan}
    PROVE  Stamp(span) \in Record
BY LockAssumption DEF TypeOK, UploadsOK, Stamp, Record

\* So is what a query leaves.
LEMMA AdoptIsRecord ==
    ASSUME TypeOK, NEW i \in Instance
    PROVE  /\ Adopt(i, memory[i]) \in Record
           /\ Adopt(i, Adopt(i, memory[i])) \in Record
           /\ Adopt(i, memory[i]) \in Records
           /\ Adopt(i, Adopt(i, memory[i])) \in Records
<1>1. Records \subseteq Record
  BY RecordsAre DEF TypeOK, UploadsOK, RecordsOK
<1>2. memory[i] \in Records
  BY RecordsAre
<1> QED  BY <1>1, <1>2, AdoptFromRecords

\* Recording a cooldown keeps the types.
LEMMA RecordType ==
    ASSUME TypeOK, NEW i \in Instance, NEW span \in {SuccessSpan, FailureSpan},
           RecordCooldown(i, span), UNCHANGED <<now, rowVars, redisUp, polling, events>>,
           owed' \subseteq owed, hold' \in 0..MaxBatch,
           rosterLock' \in [Instance -> Nat], rosters' \in [Instance -> Nat]
    PROVE  TypeOK'
<1>1. Stamp(span) \in Record
  BY StampIsRecord
<1>2. /\ memory' = [memory EXCEPT ![i] = Stamp(span)]
      /\ mirror' = [mirror EXCEPT ![i] = Stamp(span)]
      /\ file' = [file EXCEPT ![i] = Stamp(span)]
      /\ reset' = [reset EXCEPT ![i] = FALSE]
      /\ key' \in {key, Stamp(span)} /\ override' \in {override, 0}
  BY DEF RecordCooldown
<1>3. RecordsOK'
  BY <1>1, <1>2 DEF TypeOK, RecordsOK
<1>4. LocksOK'
  BY DEF RecordCooldown, TypeOK, LocksOK
<1>5. UploadsOK'
  BY DEF RecordCooldown, TypeOK, UploadsOK, rowVars
<1> QED  BY <1>3, <1>4, <1>5 DEF TypeOK

\* The worker's last write keeps the types.
LEMMA EndUploadType ==
    ASSUME TypeOK, NEW b \in Batch, NEW outcome \in {"loaded", "failed", "cancelled"},
           NEW span \in {SuccessSpan, FailureSpan}, EndUpload(b, outcome, span),
           hold' \in 0..MaxBatch
    PROVE  TypeOK'
<1>1. Stamp(span) \in Record
  BY StampIsRecord
<1>2. status' \in [Batch -> {"none", "gated", "active", "loaded", "failed", "cancelled",
                             "dropped"}]
  BY DEF EndUpload, TypeOK, UploadsOK
<1>3. ended' \in [Batch -> Record]
  BY <1>1 DEF EndUpload, TypeOK, UploadsOK
<1>4. working' \subseteq {c \in Batch : host'[c] \in Instance}
  BY DEF EndUpload, TypeOK, UploadsOK
<1>5. owed' \subseteq Instance \X Batch \X {"worker", "request"} \X {SuccessSpan, FailureSpan}
  <2>1. host[b] \in Instance
    BY DEF EndUpload, TypeOK, UploadsOK
  <2> QED  BY <2>1 DEF EndUpload, TypeOK, UploadsOK
<1>6. UNCHANGED <<now, host, redisVars, recordVars, lockVars, events>> /\ seq' = seq + 1
  BY DEF EndUpload
<1>. \A c \in Batch : status'[c] # "none" => host'[c] \in Instance
  BY DEF EndUpload, TypeOK, UploadsOK
<1>7. UploadsOK'
  BY <1>2, <1>3, <1>4, <1>5, <1>6 DEF TypeOK, UploadsOK
<1>8. RecordsOK' /\ LocksOK'
  BY <1>6 DEF TypeOK, RecordsOK, LocksOK, redisVars, recordVars, lockVars
<1> QED  BY <1>7, <1>8 DEF TypeOK

\* Type correctness: every step leads from a well-typed state to another.
\* The debts are of the form that RecordOwed takes.
LEMMA DebtsAre ==
    ASSUME TypeOK, RecordStep
    PROVE  \E i \in Instance, b \in Batch, by \in {"worker", "request"},
              span \in {SuccessSpan, FailureSpan} : RecordOwed(i, b, by, span)
BY DEF RecordStep, TypeOK, UploadsOK

LEMMA TypeStep == ASSUME TypeOK, [Next]_vars PROVE TypeOK'
<1>0. NoRecord \in Record
  BY LockAssumption DEF NoRecord, Record
<1>noHold. NoHold \in 0..MaxBatch
  BY LockAssumption DEF NoHold
<1>1. ASSUME NEW i \in Instance, StartPoll(i) PROVE TypeOK'
  <2>0. Adopt(i, memory[i]) \in Record /\ CoolingDown(i, memory[i]) \in BOOLEAN
    BY AdoptIsRecord DEF CoolingDown
  <2>1. UploadsOK'
    BY <1>1, <2>0, LockAssumption
       DEF StartPoll, TypeOK, UploadsOK, Batch, NoHold, rowVars, redisVars, recordVars, lockVars
  <2>2. RecordsOK'
    BY <1>1, <2>0, LockAssumption
       DEF StartPoll, TypeOK, UploadsOK, RecordsOK, rowVars, redisVars, recordVars, lockVars
  <2>3. LocksOK'
    BY <1>1, <2>0, LockAssumption
       DEF StartPoll, TypeOK, UploadsOK, LocksOK, rowVars, redisVars, recordVars, lockVars
  <2> QED  BY <2>1, <2>2, <2>3 DEF TypeOK
<1>2. ASSUME NEW i \in Instance, FinishPoll(i) PROVE TypeOK'
  <2>0. ActiveUpload \in BOOLEAN /\ RosterLocked(i) \in BOOLEAN
    BY DEF ActiveUpload, RosterLocked
  <2>1. UploadsOK'
    BY <1>2, <2>0, LockAssumption
       DEF FinishPoll, TypeOK, UploadsOK, Batch, NoHold, rowVars, redisVars, recordVars, lockVars
  <2>2. RecordsOK'
    BY <1>2, <2>0, LockAssumption
       DEF FinishPoll, TypeOK, UploadsOK, RecordsOK, rowVars, redisVars, recordVars, lockVars
  <2>3. LocksOK'
    BY <1>2, <2>0, LockAssumption
       DEF FinishPoll, TypeOK, UploadsOK, LocksOK, rowVars, redisVars, recordVars, lockVars
  <2> QED  BY <2>1, <2>2, <2>3 DEF TypeOK
<1>3. ASSUME NEW i \in Instance, CacheExpires(i) PROVE TypeOK'
  <2>1. UploadsOK'
    BY <1>3, LockAssumption
       DEF CacheExpires, TypeOK, UploadsOK, Batch, NoHold, rowVars, redisVars, recordVars, lockVars
  <2>2. RecordsOK'
    BY <1>3, LockAssumption
       DEF CacheExpires, TypeOK, UploadsOK, RecordsOK, rowVars, redisVars, recordVars, lockVars
  <2>3. LocksOK'
    BY <1>3, LockAssumption
       DEF CacheExpires, TypeOK, UploadsOK, LocksOK, rowVars, redisVars, recordVars, lockVars
  <2> QED  BY <2>1, <2>2, <2>3 DEF TypeOK
<1>4. ASSUME NEW i \in Instance, RejectUpload(i) PROVE TypeOK'
  <2>0. Adopt(i, memory[i]) \in Record
    BY AdoptIsRecord
  <2>1. UploadsOK'
    BY <1>4, <2>0, LockAssumption
       DEF RejectUpload, TypeOK, UploadsOK, Batch, NoHold, rowVars, redisVars, recordVars, lockVars
  <2>2. RecordsOK'
    BY <1>4, <2>0, LockAssumption
       DEF RejectUpload, TypeOK, UploadsOK, RecordsOK, rowVars, redisVars, recordVars, lockVars
  <2>3. LocksOK'
    BY <1>4, <2>0, LockAssumption
       DEF RejectUpload, TypeOK, UploadsOK, LocksOK, rowVars, redisVars, recordVars, lockVars
  <2> QED  BY <2>1, <2>2, <2>3 DEF TypeOK
<1>5. ASSUME NEW i \in Instance, ResetCooldown(i) PROVE TypeOK'
  <2>1. UploadsOK'
    BY <1>5, <1>0, LockAssumption
       DEF ResetCooldown, TypeOK, UploadsOK, Event, Batch, NoHold, rowVars, redisVars, recordVars, lockVars
  <2>2. RecordsOK'
    BY <1>5, <1>0, LockAssumption
       DEF ResetCooldown, TypeOK, UploadsOK, RecordsOK, Event, rowVars, redisVars, recordVars, lockVars
  <2>3. LocksOK'
    BY <1>5, <1>0, LockAssumption
       DEF ResetCooldown, TypeOK, UploadsOK, LocksOK, Event, rowVars, redisVars, recordVars, lockVars
  <2> QED  BY <2>1, <2>2, <2>3 DEF TypeOK
<1>6. ASSUME NEW i \in Instance, StartRoster(i) PROVE TypeOK'
  <2>0. /\ Adopt(i, memory[i]) \in Record
          /\ Adopt(i, Adopt(i, memory[i])) \in Record
    BY AdoptIsRecord
  <2>1. UploadsOK'
    BY <1>6, <2>0, LockAssumption
       DEF StartRoster, PassChecks, TypeOK, UploadsOK, Event, Batch, NoHold, rowVars, redisVars, recordVars, lockVars
  <2>2. RecordsOK'
    BY <1>6, <2>0, LockAssumption
       DEF StartRoster, PassChecks, TypeOK, UploadsOK, RecordsOK, Event, rowVars, redisVars, recordVars, lockVars
  <2>3. LocksOK'
    BY <1>6, <2>0, LockAssumption
       DEF StartRoster, PassChecks, TypeOK, UploadsOK, LocksOK, Event, rowVars, redisVars, recordVars, lockVars
  <2> QED  BY <2>1, <2>2, <2>3 DEF TypeOK
<1>7. ASSUME NEW i \in Instance, EndRoster(i) PROVE TypeOK'
  <2>1. rosters' \in [Instance -> Nat] /\ rosterLock' \in [Instance -> Nat]
    BY <1>7 DEF EndRoster, TypeOK, LocksOK
  <2>2. UNCHANGED <<now, rowVars, redisUp, polling, owed, events, hold>>
    BY <1>7 DEF EndRoster
  <2>3. CASE RecordCooldown(i, SuccessSpan)
    <3>1. hold' \in 0..MaxBatch /\ owed' \subseteq owed
      BY <2>2 DEF TypeOK, UploadsOK
    <3> QED  BY <2>1, <2>2, <2>3, <3>1, RecordType
  <2>4. CASE /\ cachedOpen' = [cachedOpen EXCEPT ![i] = FALSE]
             /\ UNCHANGED <<seq, key, override, recordVars>>
    BY <2>1, <2>2, <2>4 DEF TypeOK, UploadsOK, RecordsOK, LocksOK, rowVars, recordVars
  <2> QED  BY <1>7, <2>3, <2>4 DEF EndRoster
<1>8. ASSUME NEW i \in Instance, Restart(i) PROVE TypeOK'
  <2>1. status' \in [Batch -> {"none", "gated", "active", "loaded", "failed", "cancelled",
                               "dropped"}]
    BY <1>8 DEF Restart, TypeOK, UploadsOK
  <2>2. working' \subseteq {c \in Batch : host'[c] \in Instance}
    BY <1>8 DEF Restart, TypeOK, UploadsOK
  <2>3. owed' \subseteq owed
    BY <1>8 DEF Restart
  <2>4. UNCHANGED <<now, seq, ended, host, redisVars, hold>> /\ events' = events + 1
    BY <1>8 DEF Restart, Event
  <2>. \A b \in Batch : status'[b] # "none" => host'[b] \in Instance
    BY <1>8 DEF Restart, TypeOK, UploadsOK
  <2>5. UploadsOK'
    BY <2>1, <2>2, <2>3, <2>4 DEF TypeOK, UploadsOK
  <2>6. RecordsOK'
    BY <1>0, <1>8, <2>4 DEF Restart, TypeOK, RecordsOK, redisVars
  <2>7. LocksOK'
    BY <1>8 DEF Restart, TypeOK, LocksOK
  <2> QED  BY <2>5, <2>6, <2>7 DEF TypeOK
<1>9. ASSUME NEW b \in Batch, NEW i \in Instance, PassGate(i, b) PROVE TypeOK'
  <2>0. /\ Adopt(i, memory[i]) \in Record
          /\ Adopt(i, Adopt(i, memory[i])) \in Record
    BY AdoptIsRecord
  <2>1. UploadsOK'
    BY <1>9, <2>0, LockAssumption
       DEF PassGate, PassChecks, TypeOK, UploadsOK, Batch, NoHold, rowVars, redisVars, recordVars, lockVars
  <2>2. RecordsOK'
    BY <1>9, <2>0, LockAssumption
       DEF PassGate, PassChecks, TypeOK, UploadsOK, RecordsOK, rowVars, redisVars, recordVars, lockVars
  <2>3. LocksOK'
    BY <1>9, <2>0, LockAssumption
       DEF PassGate, PassChecks, TypeOK, UploadsOK, LocksOK, rowVars, redisVars, recordVars, lockVars
  <2> QED  BY <2>1, <2>2, <2>3 DEF TypeOK
<1>10. ASSUME NEW b \in Batch, CreateRow(b) PROVE TypeOK'
  <2>1. Stamp(FailureSpan) \in Record
    BY StampIsRecord
  <2>2. ended' \in [Batch -> Record]
    BY <1>10, <2>1 DEF CreateRow, TypeOK, UploadsOK
  <2>3. status' \in [Batch -> {"none", "gated", "active", "loaded", "failed", "cancelled",
                               "dropped"}]
    BY <1>10 DEF CreateRow, TypeOK, UploadsOK
  <2>4. working' \subseteq {c \in Batch : host'[c] \in Instance}
    BY <1>10 DEF CreateRow, TypeOK, UploadsOK
  <2>5. /\ UNCHANGED <<now, host, redisVars, recordVars, lockVars, owed, events, hold>>
        /\ seq' = seq + 1
    BY <1>10 DEF CreateRow
  <2>. \A c \in Batch : status'[c] # "none" => host'[c] \in Instance
    BY <1>10 DEF CreateRow, TypeOK, UploadsOK
  <2>6. UploadsOK'
    BY <2>2, <2>3, <2>4, <2>5 DEF TypeOK, UploadsOK
  <2>7. RecordsOK' /\ LocksOK'
    BY <2>5 DEF TypeOK, RecordsOK, LocksOK, redisVars, recordVars, lockVars
  <2> QED  BY <2>6, <2>7 DEF TypeOK
<1>11. ASSUME NEW b \in Batch, Finish(b) PROVE TypeOK'
  <2>1. hold' \in 0..MaxBatch
    BY <1>11, LockAssumption DEF Finish, Batch
  <2> QED  BY <1>11, <2>1, EndUploadType DEF Finish
<1>12. ASSUME NEW b \in Batch, Fail(b) PROVE TypeOK'
  BY <1>12, <1>noHold, EndUploadType DEF Fail
<1>13. ASSUME NEW b \in Batch, Abort(b) PROVE TypeOK'
  <2>1. status[b] \in {"loaded", "failed", "cancelled"}
    BY <1>13 DEF Abort
  <2> QED  BY <1>13, <2>1, <1>noHold, EndUploadType DEF Abort
<1>14. ASSUME NEW b \in Batch, Interrupt(b) PROVE TypeOK'
  <2>1. Stamp(FailureSpan) \in Record
    BY StampIsRecord
  <2>2. /\ UNCHANGED <<now, host, working, redisVars, recordVars, lockVars, owed>>
        /\ seq' \in {seq, seq + 1} /\ events' \in {events, events + 1} /\ hold' \in {hold, NoHold}
    BY <1>14 DEF Interrupt, Event
  <2>3. ended' \in [Batch -> Record]
    BY <1>14, <2>1 DEF Interrupt, TypeOK, UploadsOK
  <2>4. /\ status' \in [Batch -> {"none", "gated", "active", "loaded", "failed", "cancelled",
                                 "dropped"}]
        /\ \A c \in Batch : status'[c] # "none" => host'[c] \in Instance
    BY <1>14 DEF Interrupt, TypeOK, UploadsOK
  <2>5. UploadsOK'
    BY <1>noHold, <2>2, <2>3, <2>4 DEF TypeOK, UploadsOK
  <2>6. RecordsOK' /\ LocksOK'
    BY <2>2 DEF TypeOK, RecordsOK, LocksOK, redisVars, recordVars, lockVars
  <2> QED  BY <2>5, <2>6 DEF TypeOK
<1>15. ASSUME NEW b \in Batch, NEW i \in Instance, Cancel(i, b) PROVE TypeOK'
  <2>1. UploadsOK'
    BY <1>15, LockAssumption
       DEF Cancel, TypeOK, UploadsOK, Event, Batch, NoHold, rowVars, redisVars, recordVars, lockVars
  <2>2. RecordsOK'
    BY <1>15, LockAssumption
       DEF Cancel, TypeOK, UploadsOK, RecordsOK, Event, rowVars, redisVars, recordVars, lockVars
  <2>3. LocksOK'
    BY <1>15, LockAssumption
       DEF Cancel, TypeOK, UploadsOK, LocksOK, Event, rowVars, redisVars, recordVars, lockVars
  <2> QED  BY <2>1, <2>2, <2>3 DEF TypeOK
<1>16. ASSUME NEW b \in Batch, NEW i \in Instance, NEW by \in {"worker", "request"},
             NEW span \in {SuccessSpan, FailureSpan}, RecordOwed(i, b, by, span) PROVE TypeOK'
  <2>1. rosterLock' \in [Instance -> Nat]
    BY <1>16 DEF RecordOwed, TypeOK, LocksOK
  <2>2. hold' \in 0..MaxBatch
    BY <1>noHold, <1>16 DEF RecordOwed, TypeOK, UploadsOK
  <2>3. /\ owed' \subseteq owed /\ RecordCooldown(i, span)
        /\ UNCHANGED <<now, rowVars, redisUp, polling, rosters, events>>
    BY <1>16 DEF RecordOwed
  <2>4. rosters' \in [Instance -> Nat]
    BY <2>3 DEF TypeOK, LocksOK
  <2> QED  BY <2>1, <2>2, <2>3, <2>4, RecordType
<1>17. ASSUME Tick PROVE TypeOK'
  <2>1. UploadsOK'
    BY <1>17 DEF Tick, TypeOK, UploadsOK, rowVars
  <2>2. RecordsOK'
    BY <1>17 DEF Tick, TypeOK, RecordsOK, redisVars, recordVars
  <2>3. LocksOK'
    BY <1>17 DEF Tick, TypeOK, LocksOK
  <2> QED  BY <2>1, <2>2, <2>3 DEF TypeOK
<1>18. ASSUME RedisFails PROVE TypeOK'
  <2>1. /\ UNCHANGED <<now, seq, rowVars, key, override, recordVars, lockVars, owed, hold>>
        /\ redisUp' = FALSE /\ events' = events + 1
    BY <1>18 DEF RedisFails, Event
  <2>2. UploadsOK'
    BY <2>1 DEF TypeOK, UploadsOK, rowVars
  <2>3. RecordsOK'
    BY <2>1 DEF TypeOK, RecordsOK, recordVars
  <2>4. LocksOK'
    BY <2>1 DEF TypeOK, LocksOK, lockVars
  <2> QED  BY <2>2, <2>3, <2>4 DEF TypeOK
<1>19. ASSUME RedisReturns PROVE TypeOK'
  <2>1. UploadsOK'
    BY <1>19, LockAssumption
       DEF RedisReturns, TypeOK, UploadsOK, Batch, NoHold, rowVars, redisVars, recordVars, lockVars
  <2>2. RecordsOK'
    BY <1>19, LockAssumption
       DEF RedisReturns, TypeOK, UploadsOK, RecordsOK, rowVars, redisVars, recordVars, lockVars
  <2>3. LocksOK'
    BY <1>19, LockAssumption
       DEF RedisReturns, TypeOK, UploadsOK, LocksOK, rowVars, redisVars, recordVars, lockVars
  <2> QED  BY <2>1, <2>2, <2>3 DEF TypeOK
<1>20. CASE UNCHANGED vars
  BY <1>20 DEF vars, TypeOK, UploadsOK, RecordsOK, LocksOK, rowVars, redisVars, recordVars,
     lockVars
<1>21. CASE \E i \in Instance : InstanceStep(i)
  BY <1>21, <1>1, <1>2, <1>3, <1>4, <1>5, <1>6, <1>7, <1>8 DEF InstanceStep
<1>22. CASE \E b \in Batch : UploadStep(b)
  BY <1>22, <1>9, <1>10, <1>11, <1>12, <1>13, <1>14, <1>15 DEF UploadStep
<1>23. CASE RecordStep
  BY <1>16, <1>23, DebtsAre
<1> QED
  BY <1>17, <1>18, <1>19, <1>20, <1>21, <1>22, <1>23 DEF Next

-----------------------------------------------------------------------------

\* A step leaves the order of the rows, the times of the stamps and the records
\* that a load may be held by as they should be.
LEMMA LockStep ==
    ASSUME LockInv, [Next]_vars
    PROVE  RowsInOrder' /\ StampedInThePast' /\ HeldLoad'
<1> DEFINE
      SameRows ==
        /\ ended' = ended /\ working' \subseteq working
        /\ \A c \in Batch :
             /\ NoRow(c)' <=> NoRow(c)
             /\ status'[c] = "none" => status[c] = "none"
             /\ status'[c] = "gated" => status[c] \in {"none", "gated"}
             /\ status[c] = "none" /\ status'[c] # "none" =>
                  \A d \in Batch : d < c => status[d] # "none"
      Quiet ==
        /\ SameRows
        /\ \A r \in Records' : r \in Records \/ r = NoRecord
        /\ seq' = seq /\ now' >= now
        /\ hold' \in {hold, NoHold}
      Recorded(span) ==
        /\ SameRows
        /\ \A r \in Records' : r \in Records \/ r = Stamp(span)
        /\ seq' = seq + 1 /\ now' = now
        /\ hold' \in {0, IF span = SuccessSpan THEN hold ELSE 0}
<1>1. /\ TypeOK /\ TypeOK' /\ RowsInOrder /\ StampedInThePast /\ HeldLoad
      /\ now \in Nat /\ now' \in Nat /\ seq \in Nat /\ seq' \in Nat
      /\ hold \in 0..MaxBatch /\ hold' \in 0..MaxBatch
      /\ \A c \in Batch : ended[c] \in Record /\ ended'[c] \in Record
      /\ \A r \in Records : r.seq \in Nat /\ r.at \in Nat /\ r.seq <= seq /\ r.at <= now
  <2>1. TypeOK /\ TypeOK' /\ RowsInOrder /\ StampedInThePast /\ HeldLoad
    BY TypeStep DEF LockInv
  <2>2. Records \subseteq Record
    BY <2>1, RecordsAre DEF TypeOK, UploadsOK, RecordsOK
  <2> QED  BY <2>1, <2>2 DEF TypeOK, UploadsOK, StampedInThePast, Record
<1>2. \A c \in Batch : ended[c] \in Records
  BY RecordsAre
<1>3. \A c \in Batch : c \in Nat
  BY LockAssumption DEF Batch

\* What follows from the shape of a step.
<1>4. ASSUME SameRows PROVE RowsInOrder'
  <2>1. ASSUME NEW b \in Batch, NEW c \in Batch, status'[b] # "none", c < b
        PROVE  status'[c] # "none"
    BY <1>1, <1>4, <2>1 DEF RowsInOrder
  <2>2. ASSUME NEW b \in Batch, NoRow(b)'
        PROVE  ended'[b].seq = 0 /\ b \notin working'
    BY <1>1, <1>4, <2>2 DEF RowsInOrder
  <2>3. ASSUME NEW b \in Batch, ~NoRow(b)', NEW c \in Batch, c < b
        PROVE  status'[c] # "gated"
    <3>1. ~NoRow(b) /\ status[b] # "none"
      BY <1>4, <2>3 DEF NoRow
    <3>2. status[c] \notin {"none", "gated"}
      BY <1>1, <2>3, <3>1 DEF RowsInOrder
    <3> QED  BY <1>4, <3>2
  <2> QED  BY <2>1, <2>2, <2>3 DEF RowsInOrder
<1>5. ASSUME Quiet PROVE RowsInOrder' /\ StampedInThePast' /\ HeldLoad'
  <2>1. StampedInThePast'
    <3> SUFFICES ASSUME NEW r \in Records' PROVE r.seq <= seq' /\ r.at <= now'
      BY DEF StampedInThePast
    <3>1. CASE r \in Records
      BY <1>1, <1>5, <3>1
    <3>2. CASE r = NoRecord
      BY <1>1, <3>2 DEF NoRecord
    <3> QED  BY <1>5, <3>1, <3>2
  <2>2. CASE hold' = NoHold
    BY <2>2, <1>4, <1>5, <2>1 DEF HeldLoad, NoHold
  <2>3. CASE hold' = hold
    <3> SUFFICES ASSUME hold # 0 PROVE HeldLoad'
      BY <1>4, <1>5, <2>1, <2>3 DEF HeldLoad
    <3>0. PICK b \in Batch : b = hold
      BY <1>1, LockAssumption DEF Batch
    <3>1. /\ ~NoRow(b) /\ b \notin working
          /\ ended[b].seq > 0 /\ ended[b].span = SuccessSpan
          /\ (\A c \in Batch : c > b => NoRow(c)) =>
                /\ \A c \in Batch : c # b => ended[c].seq < ended[b].seq
                /\ \A r \in Records : r.seq >= ended[b].seq =>
                      r.span = SuccessSpan /\ r.at >= ended[b].at
      BY <1>1, <3>0 DEF HeldLoad
    <3>2. ~NoRow(b)' /\ b \notin working' /\ ended'[b].seq > 0 /\ ended'[b].span = SuccessSpan
      BY <1>5, <3>1
    <3>3. ASSUME \A c \in Batch : c > b => NoRow(c)'
          PROVE  /\ \A c \in Batch : c # b => ended'[c].seq < ended'[b].seq
                 /\ \A r \in Records' : r.seq >= ended'[b].seq =>
                       r.span = SuccessSpan /\ r.at >= ended'[b].at
      <4>1. ~(NoRecord.seq >= ended[b].seq)
        BY <1>1, <3>1 DEF NoRecord, Record
      <4> QED  BY <1>5, <3>1, <3>3, <4>1
    <3> QED  BY <2>3, <3>0, <3>2, <3>3 DEF HeldLoad
  <2> QED  BY <1>4, <1>5, <2>1, <2>2, <2>3
<1>6. ASSUME NEW span \in {SuccessSpan, FailureSpan}, Recorded(span)
      PROVE  RowsInOrder' /\ StampedInThePast' /\ HeldLoad'
  <2>1. StampedInThePast'
    <3> SUFFICES ASSUME NEW r \in Records' PROVE r.seq <= seq' /\ r.at <= now'
      BY DEF StampedInThePast
    <3>1. CASE r \in Records
      BY <1>1, <1>6, <3>1
    <3>2. CASE r = Stamp(span)
      BY <1>1, <1>6, <3>2 DEF Stamp
    <3> QED  BY <1>6, <3>1, <3>2
  <2>2. CASE hold' = 0
    BY <2>2, <1>4, <1>6, <2>1 DEF HeldLoad
  <2>3. CASE hold' # 0 /\ hold' = hold /\ span = SuccessSpan
    <3>0. PICK b \in Batch : b = hold
      BY <1>1, <2>3, LockAssumption DEF Batch
    <3>1. /\ ~NoRow(b) /\ b \notin working
          /\ ended[b].seq > 0 /\ ended[b].span = SuccessSpan
          /\ (\A c \in Batch : c > b => NoRow(c)) =>
                /\ \A c \in Batch : c # b => ended[c].seq < ended[b].seq
                /\ \A r \in Records : r.seq >= ended[b].seq =>
                      r.span = SuccessSpan /\ r.at >= ended[b].at
      BY <1>1, <2>3, <3>0 DEF HeldLoad
    <3>2. ~NoRow(b)' /\ b \notin working' /\ ended'[b].seq > 0 /\ ended'[b].span = SuccessSpan
      BY <1>6, <3>1
    <3>3. ASSUME \A c \in Batch : c > b => NoRow(c)'
          PROVE  /\ \A c \in Batch : c # b => ended'[c].seq < ended'[b].seq
                 /\ \A r \in Records' : r.seq >= ended'[b].seq =>
                       r.span = SuccessSpan /\ r.at >= ended'[b].at
      <4>1. Stamp(span).span = SuccessSpan /\ Stamp(span).at >= ended[b].at
        BY <1>1, <1>2, <2>3, <3>1 DEF Stamp
      <4>2. \A c \in Batch : c > b => NoRow(c)
        BY <1>6, <3>3
      <4>3. ended' = ended /\ \A r \in Records' : r \in Records \/ r = Stamp(span)
        BY <1>6
      <4>4. \A c \in Batch : c # b => ended[c].seq < ended[b].seq
        BY <3>1, <4>2
      <4>5. \A r \in Records : r.seq >= ended[b].seq => r.span = SuccessSpan /\ r.at >= ended[b].at
        BY <3>1, <4>2
      <4>6. \A r \in Records' : r.seq >= ended[b].seq => r.span = SuccessSpan /\ r.at >= ended[b].at
        BY <4>1, <4>3, <4>5
      <4> QED  BY <4>3, <4>4, <4>6
    <3> QED  BY <1>4, <1>6, <2>1, <2>3, <3>0, <3>2, <3>3 DEF HeldLoad
  <2> QED  BY <1>4, <1>6, <2>1, <2>2, <2>3

\* The two steps that stamp a row.
<1>7. \A r : r \in Records' <=>
        \/ r = key'
        \/ \E b \in Batch : r = ended'[b]
        \/ \E i \in Instance : r = memory'[i] \/ r = file'[i] \/ r = mirror'[i]
  BY DEF Records
<1>8. ASSUME NEW b \in Batch, CreateRow(b)
      PROVE  RowsInOrder' /\ StampedInThePast' /\ HeldLoad'
  <2>1. /\ status[b] = "gated" /\ NoRow(b) /\ ~NoRow(b)'
        /\ \A c \in Batch : c < b => status[c] \notin {"none", "gated"}
        /\ ended'[b] = Stamp(FailureSpan) /\ working' = working \cup {b} /\ status'[b] = "active"
        /\ \A c \in Batch : c # b => ended'[c] = ended[c] /\ status'[c] = status[c]
        /\ \A c \in Batch : c # b => (NoRow(c)' <=> NoRow(c))
        /\ hold' = hold /\ seq' = seq + 1 /\ now' = now
    BY <1>1, <1>3, <1>8 DEF CreateRow, TypeOK, UploadsOK, NoRow, RowsInOrder
  <2>2. \A r \in Records' : r \in Records \/ r = Stamp(FailureSpan)
    BY <1>7, <1>8, <2>1, RecordsAre DEF CreateRow, redisVars, recordVars
  <2>3. StampedInThePast'
    <3> SUFFICES ASSUME NEW r \in Records' PROVE r.seq <= seq' /\ r.at <= now'
      BY DEF StampedInThePast
    <3> QED  BY <1>1, <2>1, <2>2 DEF Stamp
  <2>4. RowsInOrder'
    BY <1>1, <1>3, <2>1 DEF RowsInOrder
  <2>5. HeldLoad'
    <3> DEFINE h == hold
    <3> SUFFICES ASSUME h # 0
                 PROVE  /\ ~NoRow(h)' /\ h \notin working'
                        /\ ended'[h].seq > 0 /\ ended'[h].span = SuccessSpan
                        /\ \E c \in Batch : c > h /\ ~NoRow(c)'
      BY <2>1 DEF HeldLoad
    <3>1. h \in Batch /\ ~NoRow(h) /\ h \notin working /\ ended[h].seq > 0
          /\ ended[h].span = SuccessSpan
      BY <1>1, LockAssumption DEF HeldLoad, Batch
    <3>2. h # b /\ ~(b < h)
      BY <1>1, <2>1, <3>1 DEF RowsInOrder
    <3> QED  BY <1>3, <2>1, <3>1, <3>2
  <2> QED  BY <2>3, <2>4, <2>5
<1>9. ASSUME NEW b \in Batch, NEW span \in {SuccessSpan, FailureSpan},
             ended' = [ended EXCEPT ![b] = Stamp(span)], seq' = seq + 1, now' = now,
             UNCHANGED <<redisVars, recordVars>>,
             ~NoRow(b), status'[b] \in {"loaded", "failed", "cancelled"},
             \A c \in Batch : c # b => status'[c] = status[c],
             working' \in {working, working \ {b}},
             hold' \in {0, IF span = SuccessSpan /\ b \notin working' THEN b ELSE 0}
      PROVE  RowsInOrder' /\ StampedInThePast' /\ HeldLoad'
  <2>1. /\ ended'[b] = Stamp(span) /\ seq' = seq + 1 /\ now' = now
        /\ \A c \in Batch : c # b => ended'[c] = ended[c] /\ status'[c] = status[c]
    BY <1>1, <1>9 DEF TypeOK, UploadsOK
  <2>2. ~NoRow(b)' /\ \A c \in Batch : c # b => (NoRow(c)' <=> NoRow(c))
    BY <1>9, <2>1 DEF NoRow
  <2>3. \A r \in Records' : r \in Records \/ r = Stamp(span)
    BY <1>7, <1>9, <2>1, RecordsAre DEF redisVars, recordVars
  <2>4. StampedInThePast'
    <3> SUFFICES ASSUME NEW r \in Records' PROVE r.seq <= seq' /\ r.at <= now'
      BY DEF StampedInThePast
    <3> QED  BY <1>1, <2>1, <2>3 DEF Stamp
  <2>5. RowsInOrder'
    <3>1. status[b] # "none" /\ status'[b] \notin {"none", "gated"}
      BY <1>9 DEF NoRow
    <3> QED  BY <1>1, <1>3, <1>9, <2>1, <2>2, <3>1 DEF RowsInOrder
  <2>6. CASE hold' = 0
    BY <2>4, <2>5, <2>6 DEF HeldLoad
  <2>7. CASE hold' = b /\ span = SuccessSpan /\ b \notin working'
    <3>1. /\ ended'[b].seq = seq + 1 /\ ended'[b].span = SuccessSpan /\ ended'[b].at = now
      BY <2>1, <2>7 DEF Stamp
    <3>2. \A c \in Batch : c # b => ended'[c].seq < ended'[b].seq
      BY <1>1, <1>2, <2>1, <3>1
    <3>3. \A r \in Records' : r.seq >= ended'[b].seq => r.span = SuccessSpan /\ r.at >= ended'[b].at
      BY <1>1, <2>1, <2>3, <2>7, <3>1
    <3>4. ended'[b].seq > 0
      BY <1>1, <3>1
    <3> QED  BY <2>1, <2>2, <2>4, <2>5, <2>7, <3>1, <3>2, <3>3, <3>4 DEF HeldLoad
  <2> QED  BY <1>9, <2>6, <2>7

<1>end. ASSUME NEW b \in Batch, NEW outcome \in {"loaded", "failed", "cancelled"},
              NEW span \in {SuccessSpan, FailureSpan}, EndUpload(b, outcome, span),
              hold' \in {0, IF span = SuccessSpan THEN b ELSE 0}
       PROVE  RowsInOrder' /\ StampedInThePast' /\ HeldLoad'
  <2>1. /\ ended' = [ended EXCEPT ![b] = Stamp(span)] /\ seq' = seq + 1 /\ now' = now
        /\ UNCHANGED <<redisVars, recordVars>>
        /\ status'[b] = outcome /\ \A c \in Batch : c # b => status'[c] = status[c]
        /\ b \in working /\ working' = working \ {b}
    BY <1>1, <1>end DEF EndUpload, TypeOK, UploadsOK
  <2>2. ~NoRow(b)
    BY <1>1, <2>1 DEF RowsInOrder
  <2> QED  BY <1>9, <1>end, <2>1, <2>2

\* The steps that record a cooldown.
<1>10. ASSUME NEW i \in Instance, NEW span \in {SuccessSpan, FailureSpan},
              RecordCooldown(i, span), UNCHANGED <<now, rowVars>>,
              hold' \in {0, IF span = SuccessSpan THEN hold ELSE 0}
       PROVE  RowsInOrder' /\ StampedInThePast' /\ HeldLoad'
  <2>1. SameRows
    BY <1>10 DEF rowVars, NoRow
  <2>2. \A r \in Records' : r \in Records \/ r = Stamp(span)
    <3>1. key' = key \/ key' = Stamp(span)
      BY <1>10 DEF RecordCooldown
    <3>2. \A j \in Instance : /\ memory'[j] = memory[j] \/ memory'[j] = Stamp(span)
                              /\ file'[j] = file[j] \/ file'[j] = Stamp(span)
                              /\ mirror'[j] = mirror[j] \/ mirror'[j] = Stamp(span)
      BY <1>1, <1>10 DEF RecordCooldown, TypeOK, RecordsOK
    <3> QED  BY <1>7, <2>1, <3>1, <3>2, RecordsAre
  <2>3. Recorded(span)
    BY <1>1, <1>10, <2>1, <2>2 DEF RecordCooldown
  <2> HIDE DEF Recorded
  <2> QED  BY <1>6, <2>3
<1>11. ASSUME NEW i \in Instance, EndRoster(i), RecordCooldown(i, SuccessSpan)
       PROVE  RowsInOrder' /\ StampedInThePast' /\ HeldLoad'
  BY <1>10, <1>11 DEF EndRoster
<1>12. ASSUME NEW b \in Batch, NEW i \in Instance, NEW by, NEW span \in {SuccessSpan, FailureSpan},
              RecordOwed(i, b, by, span)
       PROVE  RowsInOrder' /\ StampedInThePast' /\ HeldLoad'
  <2>1. hold' \in {0, IF span = SuccessSpan THEN hold ELSE 0}
    BY <1>1, <1>12, LockAssumption DEF RecordOwed, NoHold, TypeOK, UploadsOK
  <2> QED  BY <1>10, <1>12, <2>1 DEF RecordOwed

\* The other steps stamp nothing.
<1>13. ASSUME NEW i \in Instance, StartPoll(i) PROVE Quiet
  <2>1. SameRows
    BY <1>1, <1>13 DEF StartPoll, rowVars, NoRow
  <2>2. \A r \in Records' : r \in Records \/ r = NoRecord
    <3>1. /\ key' = key /\ file' = file /\ mirror' = mirror
          /\ \A j \in Instance : memory'[j] = memory[j] \/ memory'[j] \in Records
      BY <1>1, <1>13, AdoptIsRecord DEF StartPoll, redisVars, TypeOK, RecordsOK
    <3> QED  BY <1>7, <2>1, <3>1, RecordsAre
  <2>3. seq' = seq /\ now' >= now /\ hold' \in {hold, NoHold}
    BY <1>1, <1>13 DEF StartPoll
  <2> QED  BY <2>1, <2>2, <2>3
<1>14. ASSUME NEW i \in Instance, FinishPoll(i) PROVE Quiet
  <2>1. SameRows
    BY <1>1, <1>14 DEF FinishPoll, rowVars, NoRow
  <2>2. \A r \in Records' : r \in Records \/ r = NoRecord
    BY <1>7, <1>14, <2>1, RecordsAre DEF FinishPoll, redisVars, recordVars
  <2>3. seq' = seq /\ now' >= now /\ hold' \in {hold, NoHold}
    BY <1>1, <1>14 DEF FinishPoll
  <2> QED  BY <2>1, <2>2, <2>3
<1>15. ASSUME NEW i \in Instance, CacheExpires(i) PROVE Quiet
  <2>1. SameRows
    BY <1>1, <1>15 DEF CacheExpires, rowVars, NoRow
  <2>2. \A r \in Records' : r \in Records \/ r = NoRecord
    BY <1>7, <1>15, <2>1, RecordsAre DEF CacheExpires, redisVars, recordVars
  <2>3. seq' = seq /\ now' >= now /\ hold' \in {hold, NoHold}
    BY <1>1, <1>15 DEF CacheExpires
  <2> QED  BY <2>1, <2>2, <2>3
<1>16. ASSUME NEW i \in Instance, RejectUpload(i) PROVE Quiet
  <2>1. SameRows
    BY <1>1, <1>16 DEF RejectUpload, rowVars, NoRow
  <2>2. \A r \in Records' : r \in Records \/ r = NoRecord
    <3>1. /\ key' = key /\ file' = file /\ mirror' = mirror
          /\ \A j \in Instance : memory'[j] = memory[j] \/ memory'[j] \in Records
      BY <1>1, <1>16, AdoptIsRecord DEF RejectUpload, redisVars, TypeOK, RecordsOK
    <3> QED  BY <1>7, <2>1, <3>1, RecordsAre
  <2>3. seq' = seq /\ now' >= now /\ hold' \in {hold, NoHold}
    BY <1>1, <1>16 DEF RejectUpload
  <2> QED  BY <2>1, <2>2, <2>3
<1>17. ASSUME NEW i \in Instance, ResetCooldown(i) PROVE Quiet
  <2>1. SameRows
    BY <1>1, <1>17 DEF ResetCooldown, rowVars, NoRow
  <2>2. \A r \in Records' : r \in Records \/ r = NoRecord
    <3>1. /\ key' = key \/ key' = NoRecord
          /\ \A j \in Instance : /\ memory'[j] = memory[j] \/ memory'[j] = NoRecord
                                 /\ file'[j] = file[j] \/ file'[j] = NoRecord
                                 /\ mirror'[j] = mirror[j] \/ mirror'[j] = NoRecord
      BY <1>1, <1>17 DEF ResetCooldown, redisVars, TypeOK, RecordsOK
    <3>2. \A b \in Batch : ended'[b] = ended[b]
      BY <2>1
    <3> SUFFICES ASSUME NEW r \in Records' PROVE r \in Records \/ r = NoRecord
      OBVIOUS
    <3>3. CASE r = key'
      BY <3>1, <3>3, RecordsAre
    <3>4. CASE \E b \in Batch : r = ended'[b]
      BY <3>2, <3>4, RecordsAre
    <3>5. CASE \E j \in Instance : r = memory'[j] \/ r = file'[j] \/ r = mirror'[j]
      <4>1. PICK j \in Instance : r = memory'[j] \/ r = file'[j] \/ r = mirror'[j]
        BY <3>5
      <4>2. r = NoRecord \/ r = memory[j] \/ r = file[j] \/ r = mirror[j]
        BY <3>1, <4>1
      <4> QED  BY <4>2, RecordsAre
    <3> QED  BY <1>7, <3>3, <3>4, <3>5
  <2>3. seq' = seq /\ now' >= now /\ hold' \in {hold, NoHold}
    BY <1>1, <1>17 DEF ResetCooldown
  <2> QED  BY <2>1, <2>2, <2>3
<1>18. ASSUME NEW i \in Instance, StartRoster(i) PROVE Quiet
  <2>1. SameRows
    BY <1>1, <1>18 DEF StartRoster, rowVars, NoRow
  <2>2. \A r \in Records' : r \in Records \/ r = NoRecord
    <3>1. /\ key' = key /\ file' = file /\ mirror' = mirror
          /\ \A j \in Instance : memory'[j] = memory[j] \/ memory'[j] \in Records
      BY <1>1, <1>18, AdoptIsRecord DEF StartRoster, PassChecks, redisVars, TypeOK, RecordsOK
    <3> QED  BY <1>7, <2>1, <3>1, RecordsAre
  <2>3. seq' = seq /\ now' >= now /\ hold' \in {hold, NoHold}
    BY <1>1, <1>18 DEF StartRoster, PassChecks
  <2> QED  BY <2>1, <2>2, <2>3
<1>19. ASSUME NEW i \in Instance, Restart(i) PROVE Quiet
  <2>1. SameRows
    BY <1>1, <1>19 DEF Restart, TypeOK, UploadsOK, NoRow
  <2>2. \A r \in Records' : r \in Records \/ r = NoRecord
    <3>1. /\ key' = key \/ key' = NoRecord
          /\ \A j \in Instance : /\ memory'[j] = memory[j] \/ memory'[j] = NoRecord
                                 /\ file'[j] = file[j] \/ file'[j] = NoRecord
                                 /\ mirror'[j] = mirror[j] \/ mirror'[j] = NoRecord
      BY <1>1, <1>19 DEF Restart, redisVars, TypeOK, RecordsOK
    <3>2. \A b \in Batch : ended'[b] = ended[b]
      BY <2>1
    <3> SUFFICES ASSUME NEW r \in Records' PROVE r \in Records \/ r = NoRecord
      OBVIOUS
    <3>3. CASE r = key'
      BY <3>1, <3>3, RecordsAre
    <3>4. CASE \E b \in Batch : r = ended'[b]
      BY <3>2, <3>4, RecordsAre
    <3>5. CASE \E j \in Instance : r = memory'[j] \/ r = file'[j] \/ r = mirror'[j]
      <4>1. PICK j \in Instance : r = memory'[j] \/ r = file'[j] \/ r = mirror'[j]
        BY <3>5
      <4>2. r = NoRecord \/ r = memory[j] \/ r = file[j] \/ r = mirror[j]
        BY <3>1, <4>1
      <4> QED  BY <4>2, RecordsAre
    <3> QED  BY <1>7, <3>3, <3>4, <3>5
  <2>3. seq' = seq /\ now' >= now /\ hold' \in {hold, NoHold}
    BY <1>1, <1>19 DEF Restart
  <2> QED  BY <2>1, <2>2, <2>3
<1>20. ASSUME NEW b \in Batch, Interrupt(b)
       PROVE  Quiet \/ (RowsInOrder' /\ StampedInThePast' /\ HeldLoad')
  <2>1. /\ ~NoRow(b) /\ status'[b] = "failed" /\ working' = working /\ now' = now
        /\ \A c \in Batch : c # b => status'[c] = status[c]
        /\ UNCHANGED <<redisVars, recordVars>>
    BY <1>1, <1>20 DEF Interrupt, TypeOK, UploadsOK, NoRow
  <2>2. CASE UNCHANGED <<ended, seq, hold>>
    <3>1. SameRows
      BY <1>1, <2>1, <2>2 DEF NoRow
    <3>2. \A r \in Records' : r \in Records
      BY <1>7, <2>1, <3>1, RecordsAre DEF redisVars, recordVars
    <3> QED  BY <1>1, <2>1, <2>2, <3>1, <3>2
  <2>3. CASE ended' = [ended EXCEPT ![b] = Stamp(FailureSpan)] /\ seq' = seq + 1 /\ hold' = NoHold
    BY <1>9, <2>1, <2>3 DEF NoHold
  <2> QED  BY <1>20, <2>2, <2>3 DEF Interrupt
<1>21. ASSUME NEW b \in Batch, NEW i \in Instance, PassGate(i, b) PROVE Quiet
  <2>1. SameRows
    BY <1>1, <1>21 DEF PassGate, TypeOK, UploadsOK, NoRow
  <2>2. \A r \in Records' : r \in Records \/ r = NoRecord
    <3>1. /\ key' = key /\ file' = file /\ mirror' = mirror
          /\ \A j \in Instance : memory'[j] = memory[j] \/ memory'[j] \in Records
      BY <1>1, <1>21, AdoptIsRecord DEF PassGate, PassChecks, redisVars, TypeOK, RecordsOK
    <3> QED  BY <1>7, <2>1, <3>1, RecordsAre
  <2>3. seq' = seq /\ now' >= now /\ hold' \in {hold, NoHold}
    BY <1>1, <1>21 DEF PassGate, PassChecks
  <2> QED  BY <2>1, <2>2, <2>3
<1>22. ASSUME NEW b \in Batch, NEW i \in Instance, Cancel(i, b) PROVE Quiet
  <2>1. SameRows
    BY <1>1, <1>22 DEF Cancel, TypeOK, UploadsOK, NoRow
  <2>2. \A r \in Records' : r \in Records \/ r = NoRecord
    BY <1>7, <1>22, <2>1, RecordsAre DEF Cancel, redisVars, recordVars
  <2>3. seq' = seq /\ now' >= now /\ hold' \in {hold, NoHold}
    BY <1>1, <1>22 DEF Cancel
  <2> QED  BY <2>1, <2>2, <2>3
<1>23. ASSUME Tick PROVE Quiet
  <2>1. SameRows
    BY <1>1, <1>23 DEF Tick, rowVars, NoRow
  <2>2. \A r \in Records' : r \in Records \/ r = NoRecord
    BY <1>7, <1>23, <2>1, RecordsAre DEF Tick, redisVars, recordVars
  <2>3. seq' = seq /\ now' >= now /\ hold' \in {hold, NoHold}
    BY <1>1, <1>23 DEF Tick
  <2> QED  BY <2>1, <2>2, <2>3
<1>24. ASSUME RedisFails PROVE Quiet
  <2>1. SameRows
    BY <1>1, <1>24 DEF RedisFails, rowVars, NoRow
  <2>2. \A r \in Records' : r \in Records \/ r = NoRecord
    BY <1>7, <1>24, <2>1, RecordsAre DEF RedisFails, recordVars
  <2>3. seq' = seq /\ now' >= now /\ hold' \in {hold, NoHold}
    BY <1>1, <1>24 DEF RedisFails
  <2> QED  BY <2>1, <2>2, <2>3
<1>25. ASSUME RedisReturns PROVE Quiet
  <2>1. SameRows
    BY <1>1, <1>25 DEF RedisReturns, rowVars, NoRow
  <2>2. \A r \in Records' : r \in Records \/ r = NoRecord
    BY <1>7, <1>25, <2>1, RecordsAre DEF RedisReturns, recordVars
  <2>3. seq' = seq /\ now' >= now /\ hold' \in {hold, NoHold}
    BY <1>1, <1>25 DEF RedisReturns
  <2> QED  BY <2>1, <2>2, <2>3
<1>26. ASSUME UNCHANGED vars PROVE Quiet
  <2>1. SameRows
    BY <1>1, <1>26 DEF vars, rowVars, NoRow
  <2>2. \A r \in Records' : r \in Records \/ r = NoRecord
    BY <1>7, <1>26, <2>1, RecordsAre DEF vars, redisVars, recordVars
  <2>3. seq' = seq /\ now' >= now /\ hold' \in {hold, NoHold}
    BY <1>1, <1>26 DEF vars
  <2> QED  BY <2>1, <2>2, <2>3
<1>27. ASSUME NEW i \in Instance, EndRoster(i), ~RecordCooldown(i, SuccessSpan) PROVE Quiet
  <2>1. SameRows
    BY <1>27 DEF EndRoster, rowVars, NoRow
  <2>2. \A r \in Records' : r \in Records \/ r = NoRecord
    BY <1>7, <1>27, <2>1, RecordsAre DEF EndRoster, recordVars
  <2>3. seq' = seq /\ now' >= now /\ hold' \in {hold, NoHold}
    BY <1>1, <1>27 DEF EndRoster
  <2> QED  BY <2>1, <2>2, <2>3
<1> HIDE DEF Quiet
<1>28. CASE \E i \in Instance : InstanceStep(i)
  BY <1>28, <1>5, <1>11, <1>27, <1>13, <1>14, <1>15, <1>16, <1>17, <1>18, <1>19
     DEF InstanceStep
<1>29. CASE \E b \in Batch : UploadStep(b)
  <2>1. ASSUME NEW b \in Batch, Finish(b) PROVE RowsInOrder' /\ StampedInThePast' /\ HeldLoad'
    <3>1. hold' = b
      BY <2>1 DEF Finish
    <3> QED  BY <1>end, <2>1, <3>1 DEF Finish
  <2>2. ASSUME NEW b \in Batch, Fail(b) PROVE RowsInOrder' /\ StampedInThePast' /\ HeldLoad'
    <3>1. EndUpload(b, "failed", FailureSpan) /\ hold' = 0
      BY <2>2 DEF Fail, NoHold
    <3> QED  BY <1>end, <2>2 DEF Fail, NoHold
  <2>3. ASSUME NEW b \in Batch, Abort(b) PROVE RowsInOrder' /\ StampedInThePast' /\ HeldLoad'
    <3>1. status[b] \in {"loaded", "failed", "cancelled"}
      BY <2>3 DEF Abort
    <3>2. EndUpload(b, status[b], FailureSpan) /\ hold' = 0
      BY <2>3 DEF Abort, NoHold
    <3> QED  BY <1>end, <2>3, <3>1 DEF Abort, NoHold
  <2> QED
    BY <1>29, <2>1, <2>2, <2>3, <1>5, <1>8, <1>20, <1>21, <1>22 DEF UploadStep
<1>30. CASE RecordStep
  BY <1>1, <1>12, <1>30, DebtsAre
<1> QED
  BY <1>5, <1>28, <1>29, <1>30, <1>23, <1>24, <1>25, <1>26 DEF Next

-----------------------------------------------------------------------------

\* The records of the cooldown are consistent in every reachable state: the rows
\* are in the order of their uploads, no stamp is ahead of the clock, and a record
\* that an instance may adopt is older than the held load or lasts as long.
THEOREM LockInvCorrect == Spec => []LockInv
<1>1. LockInv /\ [Next]_vars => LockInv'
  BY TypeStep, LockStep DEF LockInv
<1> QED
  BY LockInitially, <1>1, PTL DEF Spec

\* A step that starts an upload on i has passed the checks of i.
LEMMA StartsPassChecks ==
    ASSUME TypeOK, [Next]_vars, NEW i \in Instance, Starts(i)
    PROVE  ~CoolingDown(i, memory[i])
<1>1. /\ status \in [Batch -> {"none", "gated", "active", "loaded", "failed", "cancelled",
                               "dropped"}]
      /\ host \in [Batch -> Instance \cup {NoInstance}] /\ rosters \in [Instance -> Nat]
  BY DEF TypeOK, UploadsOK, LocksOK
<1>2. ASSUME NEW j \in Instance, NEW b \in Batch, PassGate(j, b)
      PROVE  ~CoolingDown(i, memory[i])
  <2>1. i = j
    BY <1>1, <1>2 DEF PassGate, Starts
  <2> QED  BY <1>2, <2>1 DEF PassGate, PassChecks
<1>3. ASSUME NEW j \in Instance, StartRoster(j)
      PROVE  ~CoolingDown(i, memory[i])
  <2>1. i = j
    BY <1>1, <1>3 DEF StartRoster, Starts, rowVars
  <2> QED  BY <1>3, <2>1 DEF StartRoster, PassChecks
<1>4. ASSUME NEW j \in Instance,
             \/ StartPoll(j) \/ FinishPoll(j) \/ CacheExpires(j) \/ RejectUpload(j)
             \/ ResetCooldown(j) \/ EndRoster(j) \/ Restart(j)
      PROVE  FALSE
  <2>1. \A b \in Batch : status[b] = "none" => status'[b] # "gated"
    BY <1>1, <1>4 DEF StartPoll, FinishPoll, CacheExpires, RejectUpload, ResetCooldown,
       EndRoster, Restart, rowVars
  <2>2. ~(rosters'[i] > rosters[i])
    BY <1>1, <1>4 DEF StartPoll, FinishPoll, CacheExpires, RejectUpload, ResetCooldown,
       EndRoster, Restart, lockVars
  <2> QED  BY <2>1, <2>2 DEF Starts
<1>5. ASSUME NEW b \in Batch,
             \/ CreateRow(b) \/ Finish(b) \/ Fail(b) \/ Abort(b) \/ Interrupt(b)
             \/ \E j \in Instance : Cancel(j, b)
             \/ \E j \in Instance, by \in {"worker", "request"},
                   span \in {SuccessSpan, FailureSpan} : RecordOwed(j, b, by, span)
      PROVE  FALSE
  <2>1. rosters' = rosters
    BY <1>5 DEF CreateRow, Finish, Fail, Abort, EndUpload, Interrupt, Cancel, RecordOwed, lockVars
  <2>2. \A c \in Batch : status[c] = "none" => status'[c] # "gated"
    BY <1>1, <1>5 DEF CreateRow, Finish, Fail, Abort, EndUpload, Interrupt, Cancel, RecordOwed,
       rowVars
  <2> QED  BY <1>1, <2>1, <2>2 DEF Starts
<1>6. ASSUME Tick \/ RedisFails \/ RedisReturns \/ UNCHANGED vars
      PROVE  FALSE
  <2>1. rosters' = rosters /\ status' = status
    BY <1>6 DEF Tick, RedisFails, RedisReturns, vars, rowVars, lockVars
  <2> QED  BY <1>1, <2>1 DEF Starts
<1>7. CASE \E j \in Instance : InstanceStep(j)
  BY <1>3, <1>4, <1>7 DEF InstanceStep
<1>8. CASE \E b \in Batch : UploadStep(b)
  BY <1>2, <1>5, <1>8 DEF UploadStep
<1>9. CASE RecordStep
  BY <1>5, <1>9, DebtsAre
<1> QED  BY <1>6, <1>7, <1>8, <1>9 DEF Next

\* After a load no upload starts for the span of the cooldown, on any instance, with
\* or without Redis and whatever is cached, unless an earlier reset still stands there.
THEOREM NoUploadAfterLoadCorrect == Spec => NoUploadAfterLoad
<1>1. ASSUME LockInv, [Next]_vars, NEW i \in Instance, Starts(i)
      PROVE  ~LoadHolds \/ Overridden(i)
  BY <1>1, StartsPassChecks, LoadShutsGate DEF LockInv
<1>2. LockInv /\ [Next]_vars =>
        [\A i \in Instance : Starts(i) => ~LoadHolds \/ Overridden(i)]_vars
  BY <1>1
<1> QED
  BY LockInvCorrect, <1>2, PTL DEF Spec, NoUploadAfterLoad

=============================================================================
