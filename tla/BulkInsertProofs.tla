-------------------------- MODULE BulkInsertProofs --------------------------
(***************************************************************************)
(* BulkInv is inductive, and NothingMissing, ExactUnlessLost and           *)
(* GoodRowsSaved follow from it, for any number of records, any chunk and  *)
(* sub-chunk sizes and any numbers of retries.                             *)
(***************************************************************************)
EXTENDS BulkInsert, TLAPS

\* The end of the chunk lies behind its first record and within the records.
LEMMA ChunkEndIsBehind ==
    ASSUME TypeOK, AtItsPlace
    PROVE  /\ ChunkEnd \in Nat
           /\ ChunkEnd <= NumRecords
           /\ start <= ChunkEnd
           /\ start < NumRecords => start < ChunkEnd
BY SizesAssumption DEF ChunkEnd, UpTo, TypeOK, AtItsPlace

\* A sub-chunk that starts within the chunk ends within it, not before its start.
LEMMA SubChunkEndIsBehind ==
    ASSUME TypeOK, AtItsPlace, NEW p \in Nat \ {0}, p <= ChunkEnd
    PROVE  SubChunkEnd(p) \in Nat /\ p <= SubChunkEnd(p) /\ SubChunkEnd(p) <= ChunkEnd
BY ChunkEndIsBehind, SizesAssumption DEF SubChunkEnd

\* The request covers records of the chunk, at least one.
LEMMA RequestIsInChunk ==
    ASSUME TypeOK, AtItsPlace, stage \in Sending
    PROVE  /\ RequestEnd \in Nat
           /\ pos <= RequestEnd
           /\ RequestEnd <= ChunkEnd
           /\ start < pos
           /\ Request \subseteq Record
<1>1. stage = "chunk" => pos <= ChunkEnd
  BY ChunkEndIsBehind DEF AtItsPlace, TypeOK
<1>2. RequestEnd \in Nat /\ pos <= RequestEnd /\ RequestEnd <= ChunkEnd
  BY <1>1, ChunkEndIsBehind DEF RequestEnd, AtItsPlace, TypeOK, Sending
<1> QED
  BY <1>2, ChunkEndIsBehind, SizesAssumption DEF Request, Record, AtItsPlace, TypeOK

\* Advance(p) leads to the count exactly when the chunk is used up.
LEMMA AdvanceStays ==
    ASSUME TypeOK, AtItsPlace, stage \in Sending, NEW p \in Nat \ {0},
           pos < p, p <= ChunkEnd + 1, Advance(p),
           stage = "chunk" => p = ChunkEnd + 1
    PROVE  /\ pos' = p
           /\ last' \in Nat
           /\ stage' \in {"sub", "row", "tally"}
           /\ stage' \in {"sub", "row"} => p <= last' /\ last' <= ChunkEnd
           /\ stage' = "tally" => p = ChunkEnd + 1
<1>1. CASE p > ChunkEnd
  BY <1>1, ChunkEndIsBehind DEF Advance, TypeOK
<1>2. CASE p <= ChunkEnd /\ p > last
  <2>1. SubChunkEnd(p) \in Nat /\ p <= SubChunkEnd(p) /\ SubChunkEnd(p) <= ChunkEnd
    BY <1>2, SubChunkEndIsBehind
  <2>2. pos' = p /\ stage' = "sub" /\ last' = SubChunkEnd(p)
    BY <1>2, ChunkEndIsBehind DEF Advance, TypeOK
  <2> QED
    BY <2>1, <2>2
<1>3. CASE p <= ChunkEnd /\ p <= last
  <2>1. pos' = p /\ stage' = stage /\ last' = last
    BY <1>3, ChunkEndIsBehind DEF Advance, TypeOK
  <2>2. stage \in {"sub", "row"} /\ last <= ChunkEnd
    BY <1>3, ChunkEndIsBehind DEF AtItsPlace, Sending
  <2> QED
    BY <1>3, <2>1, <2>2 DEF TypeOK
<1> QED
  BY <1>1, <1>2, <1>3, ChunkEndIsBehind DEF TypeOK

-----------------------------------------------------------------------------

LEMMA BulkInit == Init => BulkInv
BY SizesAssumption DEF Init, BulkInv, TypeOK, AtItsPlace, CountIsHonest, InFront,
   ExactUnlessLost, MissedAreRefused, Record, Stage, Sending, Ended

\* What a success does to the worker's place.
LEMMA SucceedStep ==
    ASSUME BulkInv, stage \in Sending, Succeed
    PROVE  /\ start' = start /\ attempt' = attempt /\ missed' = missed
           /\ pos' = RequestEnd + 1
           /\ inserted' = inserted + (RequestEnd + 1 - pos)
           /\ last' \in Nat
           /\ stage' \in {"sub", "row", "tally"}
           /\ stage' \in {"sub", "row"} => pos' <= last' /\ last' <= ChunkEnd
           /\ stage' = "tally" => pos' = ChunkEnd + 1
<1> DEFINE p == RequestEnd + 1
<1>1. TypeOK /\ AtItsPlace BY DEF BulkInv
<1>2. p \in Nat \ {0} /\ pos < p /\ p <= ChunkEnd + 1
  BY <1>1, RequestIsInChunk, ChunkEndIsBehind DEF TypeOK
<1>3. stage = "chunk" => p = ChunkEnd + 1
  BY DEF RequestEnd
<1>4. Advance(p) BY DEF Succeed
<1> HIDE DEF p
<1>5. /\ pos' = p
      /\ last' \in Nat
      /\ stage' \in {"sub", "row", "tally"}
      /\ stage' \in {"sub", "row"} => p <= last' /\ last' <= ChunkEnd
      /\ stage' = "tally" => p = ChunkEnd + 1
  BY <1>1, <1>2, <1>3, <1>4, AdvanceStays
<1> QED
  BY <1>5 DEF Succeed, p

\* What an exception does to it: nothing is counted, and only a single row is
\* given up.
LEMMA RaiseStep ==
    ASSUME BulkInv, stage \in Sending, Raise
    PROVE  /\ start' = start /\ inserted' = inserted
           /\ attempt' \in 1..MaxRetries
           /\ last' \in Nat
           /\ \/ /\ pos' = pos /\ missed' = missed
                 /\ \/ stage = "chunk" /\ stage' = "chunk"
                    \/ stage' \in {"sub", "row"} /\ pos <= last' /\ last' <= ChunkEnd
              \/ /\ stage = "row" /\ pos \in Record /\ pos' = pos + 1
                 /\ missed' = missed \cup {pos}
                 /\ stage' \in {"sub", "row", "tally"}
                 /\ stage' \in {"sub", "row"} => pos' <= last' /\ last' <= ChunkEnd
                 /\ stage' = "tally" => pos' = ChunkEnd + 1
<1>1. TypeOK /\ AtItsPlace BY DEF BulkInv
<1>2. CASE RetryChunk
  BY <1>1, <1>2, SizesAssumption DEF RetryChunk, TypeOK
<1>3. CASE CutChunk
  <2>1. pos <= ChunkEnd
    BY <1>1, <1>3, ChunkEndIsBehind DEF CutChunk, AtItsPlace, TypeOK
  <2> QED
    BY <1>1, <1>3, <2>1, SubChunkEndIsBehind DEF CutChunk, TypeOK
<1>4. CASE CutSubChunk
  BY <1>1, <1>4 DEF CutSubChunk, TypeOK, AtItsPlace
<1>5. CASE GiveUpRow
  <2>1. stage = "row" /\ pos <= last /\ last <= ChunkEnd
    BY <1>1, <1>5 DEF GiveUpRow, AtItsPlace
  <2>2. pos \in Record
    BY <1>1, <2>1, ChunkEndIsBehind, SizesAssumption DEF TypeOK, Record
  <2>3. pos + 1 \in Nat \ {0} /\ pos < pos + 1 /\ pos + 1 <= ChunkEnd + 1
    BY <1>1, <2>1, ChunkEndIsBehind DEF TypeOK
  <2>4. Advance(pos + 1) BY <1>5 DEF GiveUpRow
  <2>5. /\ pos' = pos + 1
        /\ last' \in Nat
        /\ stage' \in {"sub", "row", "tally"}
        /\ stage' \in {"sub", "row"} => pos + 1 <= last' /\ last' <= ChunkEnd
        /\ stage' = "tally" => pos + 1 = ChunkEnd + 1
    BY <1>1, <2>1, <2>3, <2>4, AdvanceStays
  <2> QED
    BY <1>1, <1>5, <2>1, <2>2, <2>5 DEF GiveUpRow, TypeOK
<1> QED
  BY <1>2, <1>3, <1>4, <1>5 DEF Raise

-----------------------------------------------------------------------------

\* The three steps that begin, stop and count a chunk.
LEMMA BeginChunkStep == BulkInv /\ BeginChunk => BulkInv'
BY DEF BulkInv, BeginChunk, TypeOK, AtItsPlace, CountIsHonest, InFront,
   ExactUnlessLost, MissedAreRefused, ChunkEnd, UpTo, Stage, Sending, Ended

LEMMA StopCancelledStep == BulkInv /\ StopCancelled => BulkInv'
BY DEF BulkInv, StopCancelled, TypeOK, AtItsPlace, CountIsHonest, InFront,
   ExactUnlessLost, MissedAreRefused, ChunkEnd, UpTo, Stage, Sending, Ended

LEMMA TallyStep == BulkInv /\ Tally => BulkInv'
<1> SUFFICES ASSUME BulkInv, Tally PROVE BulkInv'
  OBVIOUS
<1>1. TypeOK /\ AtItsPlace BY DEF BulkInv
<1>2. /\ ChunkEnd \in Nat /\ ChunkEnd <= NumRecords /\ start <= ChunkEnd
      /\ pos = ChunkEnd + 1
  BY <1>1, ChunkEndIsBehind DEF Tally, AtItsPlace
<1>3. CASE inserted < ChunkEnd - start
  <2>1. /\ stage' = "failed"
        /\ UNCHANGED <<refused, copies, try, start, attempt, inserted, pos,
                       last, missed, lost, smooth>>
    BY <1>3 DEF Tally
  <2> QED
    BY <1>1, <1>2, <2>1 DEF BulkInv, TypeOK, AtItsPlace, CountIsHonest, InFront,
       ExactUnlessLost, MissedAreRefused, ChunkEnd, UpTo, Stage, Sending, Ended
<1>4. CASE ~(inserted < ChunkEnd - start)
  <2>1. /\ start' = ChunkEnd /\ inserted' = 0 /\ attempt' = 1
        /\ stage' = IF ChunkEnd = NumRecords THEN "done" ELSE "check"
        /\ UNCHANGED <<refused, copies, try, pos, last, missed, lost, smooth>>
    BY <1>4 DEF Tally
  <2>2. missed = {}
    BY <1>1, <1>2, <1>4 DEF BulkInv, CountIsHonest, TypeOK
  <2>3. TypeOK'
    BY <1>1, <1>2, <2>1, SizesAssumption DEF TypeOK, Stage, Sending, Ended
  <2>4. AtItsPlace'
    BY <1>1, <1>2, <2>1, <2>2, SizesAssumption DEF TypeOK, AtItsPlace
  <2>5. CountIsHonest'
    BY <1>2, <2>1, <2>2 DEF CountIsHonest
  <2>6. InFront' /\ ExactUnlessLost'
    BY <2>1 DEF BulkInv, InFront, ExactUnlessLost
  <2>7. MissedAreRefused'
    BY <1>2, <2>1, <2>2 DEF BulkInv, MissedAreRefused
  <2> QED
    BY <2>3, <2>4, <2>5, <2>6, <2>7 DEF BulkInv
<1> QED
  BY <1>3, <1>4

-----------------------------------------------------------------------------

\* A request that is stored and acknowledged.
LEMMA AcknowledgeStep == BulkInv /\ Acknowledge => BulkInv'
<1> SUFFICES ASSUME BulkInv, Acknowledge PROVE BulkInv'
  OBVIOUS
<1>1. TypeOK /\ AtItsPlace BY DEF BulkInv
<1>2. /\ stage \in Sending /\ Request \cap refused = {}
      /\ copies' = [r \in Record |-> IF r \in Request THEN copies[r] + 1 ELSE copies[r]]
      /\ Succeed
      /\ try' = 1 /\ UNCHANGED <<refused, lost, smooth>>
  BY DEF Acknowledge, Store
<1>3. /\ RequestEnd \in Nat /\ pos <= RequestEnd /\ RequestEnd <= ChunkEnd
      /\ start < pos /\ Request \subseteq Record
      /\ ChunkEnd \in Nat /\ ChunkEnd <= NumRecords /\ start <= NumRecords
  BY <1>1, <1>2, RequestIsInChunk, ChunkEndIsBehind DEF AtItsPlace
<1>4. /\ start' = start /\ attempt' = attempt /\ missed' = missed
      /\ pos' = RequestEnd + 1
      /\ inserted' = inserted + (RequestEnd + 1 - pos)
      /\ last' \in Nat
      /\ stage' \in {"sub", "row", "tally"}
      /\ stage' \in {"sub", "row"} => pos' <= last' /\ last' <= ChunkEnd
      /\ stage' = "tally" => pos' = ChunkEnd + 1
  BY <1>2, SucceedStep
<1>5. ChunkEnd' = ChunkEnd
  BY <1>4 DEF ChunkEnd
<1>6. TypeOK'
  BY <1>1, <1>2, <1>3, <1>4, SizesAssumption DEF TypeOK, Stage, Sending
<1>7. AtItsPlace'
  BY <1>1, <1>3, <1>4, <1>5 DEF TypeOK, AtItsPlace
<1>8. CountIsHonest'
  BY <1>1, <1>3, <1>4 DEF BulkInv, CountIsHonest, TypeOK
<1>9. InFront'
  <2> SUFFICES ASSUME NEW r \in Record, r < pos', r \notin missed
               PROVE  copies'[r] > 0
    BY <1>4 DEF InFront
  <2>1. CASE r \in Request
    BY <1>1, <1>2, <2>1 DEF TypeOK
  <2>2. CASE r \notin Request
    <3>1. r < pos
      BY <1>1, <1>3, <1>4, <2>2, SizesAssumption DEF Request, Record, TypeOK
    <3> QED
      BY <1>1, <1>2, <2>2, <3>1 DEF BulkInv, InFront
  <2> QED
    BY <2>1, <2>2
<1>10. ExactUnlessLost'
  <2> SUFFICES ASSUME NEW r \in Record \ lost
               PROVE  copies'[r] = IF r < pos' /\ r \notin missed THEN 1 ELSE 0
    BY <1>2, <1>4 DEF ExactUnlessLost
  <2>1. copies[r] = IF r < pos /\ r \notin missed THEN 1 ELSE 0
    BY DEF BulkInv, ExactUnlessLost
  <2>2. r \in Request <=> pos <= r /\ r < pos'
    BY <1>1, <1>3, <1>4, SizesAssumption DEF Request, Record, TypeOK
  <2>3. pos <= r => r \notin missed
    BY <1>1, SizesAssumption DEF BulkInv, CountIsHonest, TypeOK, Record
  <2>4. pos < pos'
    BY <1>1, <1>3, <1>4 DEF TypeOK
  <2>5. r \in Nat /\ pos \in Nat /\ pos' \in Nat
    BY <1>1, <1>6, SizesAssumption DEF TypeOK, Record
  <2>6. copies'[r] = IF r \in Request THEN copies[r] + 1 ELSE copies[r]
    BY <1>2
  <2> QED
    BY <2>1, <2>2, <2>3, <2>4, <2>5, <2>6
<1>11. MissedAreRefused'
  <2> SUFFICES ASSUME smooth
               PROVE  lost = {} /\ missed = refused \cap (start + 1)..(pos' - 1)
    BY <1>2, <1>4 DEF MissedAreRefused
  <2>1. lost = {} /\ missed = refused \cap (start + 1)..(pos - 1)
    BY DEF BulkInv, MissedAreRefused
  <2>2. \A r \in refused : r \notin Request /\ r \in Nat
    BY <1>1, <1>2, SizesAssumption DEF TypeOK, Record
  <2>3. \A r \in refused : r \in (start + 1)..(pos' - 1) <=> r \in (start + 1)..(pos - 1)
    BY <1>1, <1>3, <1>4, <2>2 DEF Request, TypeOK
  <2> QED
    BY <2>1, <2>3
<1> QED
  BY <1>6, <1>7, <1>8, <1>9, <1>10, <1>11 DEF BulkInv

-----------------------------------------------------------------------------

\* What an unacknowledged request does to the table.
Unacknowledged ==
    \/ Store /\ lost' = lost \cup Request
    \/ UNCHANGED <<copies, lost>>

\* It adds rows only to records that now count as lost.
LEMMA UnacknowledgedCopies ==
    ASSUME BulkInv, stage \in Sending, Unacknowledged
    PROVE  /\ copies' \in [Record -> Nat]
           /\ lost' \subseteq Record /\ lost \subseteq lost'
           /\ \A r \in Record : copies[r] <= copies'[r]
           /\ \A r \in Record \ lost' : copies'[r] = copies[r]
<1>1. TypeOK /\ AtItsPlace BY DEF BulkInv
<1>2. Request \subseteq Record
  BY <1>1, RequestIsInChunk
<1>3. CASE Store /\ lost' = lost \cup Request
  BY <1>1, <1>2, <1>3 DEF Store, TypeOK
<1>4. CASE UNCHANGED <<copies, lost>>
  BY <1>1, <1>4 DEF TypeOK
<1> QED
  BY <1>3, <1>4 DEF Unacknowledged

\* An unacknowledged request the transport sends again.
LEMMA ResendStep ==
    ASSUME BulkInv, stage \in Sending, Unacknowledged, UNCHANGED <<refused, place>>,
           try' \in 1..MaxTries, smooth' = FALSE
    PROVE  BulkInv'
<1>1. /\ TypeOK /\ AtItsPlace /\ CountIsHonest /\ InFront /\ ExactUnlessLost
  BY DEF BulkInv
<1>2. UNCHANGED <<refused, stage, start, attempt, pos, last, inserted, missed>>
  BY DEF place
<1>3. /\ copies' \in [Record -> Nat]
      /\ lost' \subseteq Record /\ lost \subseteq lost'
      /\ \A r \in Record : copies[r] <= copies'[r]
      /\ \A r \in Record \ lost' : copies'[r] = copies[r]
  BY UnacknowledgedCopies
<1>4. TypeOK'
  BY <1>1, <1>2, <1>3 DEF TypeOK
<1>5. AtItsPlace' /\ CountIsHonest'
  BY <1>1, <1>2 DEF AtItsPlace, CountIsHonest, ChunkEnd
<1>6. InFront'
  BY <1>1, <1>2, <1>3 DEF InFront, TypeOK
<1>7. ExactUnlessLost'
  BY <1>1, <1>2, <1>3 DEF ExactUnlessLost
<1>8. MissedAreRefused'
  BY DEF MissedAreRefused
<1> QED
  BY <1>4, <1>5, <1>6, <1>7, <1>8 DEF BulkInv

\* One that reaches _bulk_insert as an exception.
LEMMA RaisedStep ==
    ASSUME BulkInv, stage \in Sending, Unacknowledged, Raise,
           refused' = refused, try' = 1,
           \/ smooth' = FALSE
           \/ /\ smooth' = smooth /\ lost' = lost
              /\ Request \cap refused # {}
    PROVE  BulkInv'
<1>1. TypeOK /\ AtItsPlace /\ CountIsHonest /\ InFront /\ ExactUnlessLost
  BY DEF BulkInv
<1>2. /\ copies' \in [Record -> Nat]
      /\ lost' \subseteq Record /\ lost \subseteq lost'
      /\ \A r \in Record : copies[r] <= copies'[r]
      /\ \A r \in Record \ lost' : copies'[r] = copies[r]
  BY UnacknowledgedCopies
<1>3. /\ start' = start /\ inserted' = inserted
      /\ attempt' \in 1..MaxRetries
      /\ last' \in Nat
      /\ \/ /\ pos' = pos /\ missed' = missed
            /\ \/ stage = "chunk" /\ stage' = "chunk"
               \/ stage' \in {"sub", "row"} /\ pos <= last' /\ last' <= ChunkEnd
         \/ /\ stage = "row" /\ pos \in Record /\ pos' = pos + 1
            /\ missed' = missed \cup {pos}
            /\ stage' \in {"sub", "row", "tally"}
            /\ stage' \in {"sub", "row"} => pos' <= last' /\ last' <= ChunkEnd
            /\ stage' = "tally" => pos' = ChunkEnd + 1
  BY RaiseStep
<1>4. ChunkEnd' = ChunkEnd
  BY <1>3 DEF ChunkEnd
<1>5. smooth' \in BOOLEAN
  BY <1>1 DEF TypeOK
<1>6. TypeOK'
  BY <1>1, <1>2, <1>3, <1>5, SizesAssumption DEF TypeOK, Stage, Sending
<1>7. start < pos /\ pos \in Nat /\ start \in Nat /\ inserted \in Nat
  BY <1>1 DEF TypeOK, AtItsPlace
<1>8. AtItsPlace'
  <2>1. CASE pos' = pos /\ missed' = missed /\ stage = "chunk" /\ stage' = "chunk"
    BY <1>1, <1>3, <1>4, <2>1 DEF AtItsPlace
  <2>2. CASE pos' = pos /\ stage' \in {"sub", "row"} /\ pos <= last' /\ last' <= ChunkEnd
    BY <1>1, <1>3, <1>4, <2>2 DEF AtItsPlace
  <2>3. CASE /\ pos' = pos + 1 /\ stage' \in {"sub", "row", "tally"}
             /\ stage' \in {"sub", "row"} => pos' <= last' /\ last' <= ChunkEnd
             /\ stage' = "tally" => pos' = ChunkEnd + 1
    <3>1. start' <= NumRecords /\ start' < pos'
      BY <1>1, <1>3, <1>7, <2>3, SizesAssumption DEF AtItsPlace
    <3> QED
      BY <1>4, <2>3, <3>1 DEF AtItsPlace
  <2> QED
    BY <1>3, <2>1, <2>2, <2>3
<1>9. CountIsHonest'
  <2>1. CASE pos' = pos /\ missed' = missed
    BY <1>1, <1>3, <2>1 DEF CountIsHonest
  <2>2. CASE pos' = pos + 1 /\ missed' = missed \cup {pos}
    <3>1. missed' \subseteq (start' + 1)..(pos' - 1)
      BY <1>1, <1>3, <1>7, <2>2 DEF CountIsHonest
    <3>2. inserted' + start' + 1 < pos'
      BY <1>1, <1>3, <1>7, <2>2 DEF CountIsHonest
    <3> QED
      BY <1>3, <1>7, <2>2, <3>1, <3>2 DEF CountIsHonest
  <2> QED
    BY <1>3, <2>1, <2>2
<1>10. InFront'
  <2> SUFFICES ASSUME NEW r \in Record, r < pos', r \notin missed'
               PROVE  copies'[r] > 0
    BY DEF InFront
  <2>1. r < pos /\ r \notin missed
    BY <1>3, <1>7, SizesAssumption DEF Record
  <2> QED
    BY <1>1, <1>2, <2>1 DEF InFront, TypeOK
<1>11. ExactUnlessLost'
  <2> SUFFICES ASSUME NEW r \in Record \ lost'
               PROVE  copies'[r] = IF r < pos' /\ r \notin missed' THEN 1 ELSE 0
    BY DEF ExactUnlessLost
  <2>1. copies'[r] = IF r < pos /\ r \notin missed THEN 1 ELSE 0
    BY <1>1, <1>2 DEF ExactUnlessLost
  <2>2. r < pos /\ r \notin missed <=> r < pos' /\ r \notin missed'
    BY <1>3, <1>7, SizesAssumption DEF Record
  <2> QED
    BY <2>1, <2>2
<1>12. MissedAreRefused'
  <2> SUFFICES ASSUME smooth'
               PROVE  lost' = {} /\ missed' = refused \cap (start + 1)..(pos' - 1)
    BY <1>3 DEF MissedAreRefused
  <2>1. lost' = {} /\ missed = refused \cap (start + 1)..(pos - 1)
    BY DEF BulkInv, MissedAreRefused
  <2>2. CASE pos' = pos /\ missed' = missed
    BY <2>1, <2>2
  <2>3. CASE stage = "row" /\ pos' = pos + 1 /\ missed' = missed \cup {pos}
    <3>1. Request = {pos}
      BY <1>7, <2>3 DEF Request, RequestEnd
    <3>2. pos \in refused
      BY <3>1
    <3> QED
      BY <1>7, <2>1, <2>3, <3>2
  <2> QED
    BY <1>3, <2>2, <2>3
<1> QED
  BY <1>6, <1>8, <1>9, <1>10, <1>11, <1>12 DEF BulkInv

LEMMA RefuseStep == BulkInv /\ Refuse => BulkInv'
BY RaisedStep DEF Refuse, Unacknowledged

LEMMA GlitchStep == BulkInv /\ Glitch => BulkInv'
<1> SUFFICES ASSUME BulkInv, Glitch PROVE BulkInv'
  OBVIOUS
<1>1. stage \in Sending /\ Unacknowledged /\ smooth' = FALSE /\ refused' = refused
  BY DEF Glitch, Unacknowledged
<1>2. CASE try < MaxTries /\ try' = try + 1 /\ UNCHANGED place
  <2>1. try' \in 1..MaxTries
    BY <1>2, SizesAssumption DEF BulkInv, TypeOK
  <2> QED
    BY <1>1, <1>2, <2>1, ResendStep
<1>3. CASE try' = 1 /\ Raise
  BY <1>1, <1>3, RaisedStep
<1> QED
  BY <1>2, <1>3 DEF Glitch

-----------------------------------------------------------------------------

\* The invariant holds in every reachable state, for every set of refused records.
THEOREM BulkInvCorrect == Spec => []BulkInv
<1>1. BulkInv /\ UNCHANGED vars => BulkInv'
  BY DEF BulkInv, vars, place, TypeOK, AtItsPlace, CountIsHonest, InFront,
     ExactUnlessLost, MissedAreRefused, ChunkEnd
<1>2. BulkInv /\ [Next]_vars => BulkInv'
  BY <1>1, BeginChunkStep, StopCancelledStep, AcknowledgeStep, RefuseStep,
     GlitchStep, TallyStep DEF Next
<1> QED
  BY BulkInit, <1>2, PTL DEF Spec

\* When _bulk_insert returns normally no record is missing from the table.
THEOREM NothingMissingCorrect == Spec => []NothingMissing
<1>1. BulkInv => NothingMissing
  BY SizesAssumption DEF BulkInv, NothingMissing, InFront, AtItsPlace, TypeOK, Record
<1> QED
  BY <1>1, BulkInvCorrect, PTL

\* Only a lost answer can put a record into the table twice.
THEOREM ExactCorrect == Spec => []ExactUnlessLost
<1>1. BulkInv => ExactUnlessLost
  BY DEF BulkInv
<1> QED
  BY <1>1, BulkInvCorrect, PTL

\* A chunk that fails although every request was answered lacks the refused
\* records only.
THEOREM GoodRowsCorrect == Spec => []GoodRowsSaved
<1>1. BulkInv => GoodRowsSaved
  <2> SUFFICES ASSUME BulkInv, smooth, stage = "failed", NEW r \in (start + 1)..ChunkEnd
               PROVE  copies[r] = IF r \in refused THEN 0 ELSE 1
    BY DEF GoodRowsSaved
  <2>1. TypeOK /\ AtItsPlace BY DEF BulkInv
  <2>2. ChunkEnd \in Nat /\ ChunkEnd <= NumRecords /\ start \in Nat /\ pos = ChunkEnd + 1
    BY <2>1, ChunkEndIsBehind DEF AtItsPlace, TypeOK
  <2>3. r \in Record /\ r < pos
    BY <2>2, SizesAssumption DEF Record
  <2>4. lost = {} /\ missed = refused \cap (start + 1)..ChunkEnd
    BY <2>2 DEF BulkInv, MissedAreRefused
  <2>5. copies[r] = IF r < pos /\ r \notin missed THEN 1 ELSE 0
    BY <2>3, <2>4 DEF BulkInv, ExactUnlessLost
  <2> QED
    BY <2>3, <2>4, <2>5
<1> QED
  BY <1>1, BulkInvCorrect, PTL

=============================================================================
