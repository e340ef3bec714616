----------------------------- MODULE BulkInsert -----------------------------
(***************************************************************************)
(* How the records of one table reach the database: _bulk_insert of        *)
(* backend/uploads/service.py on top of ResilientSupabaseTransport of      *)
(* backend/db/client.py.  This is the inside of WriteChunk and FailChunk   *)
(* of UploadPipeline.                                                      *)
(*                                                                         *)
(* A request inserts a run of consecutive records or, when the database    *)
(* refuses one of them, nothing.  The tables have no key over the records  *)
(* (migrations/031 drops it): sending a record twice stores it twice.      *)
(***************************************************************************)
EXTENDS Naturals

CONSTANTS
    NumRecords,     \* len(records)
    ChunkSize,      \* 5000 for the fact tables
    SubChunkSize,   \* 500
    MaxRetries,     \* requests _bulk_insert makes for a whole chunk: 3
    MaxTries        \* times the transport sends one request: 3

ASSUME SizesAssumption ==
    /\ NumRecords \in Nat \ {0}
    /\ ChunkSize \in Nat \ {0}
    /\ SubChunkSize \in Nat \ {0}
    /\ MaxRetries \in Nat \ {0}
    /\ MaxTries \in Nat \ {0}

Record == 1..NumRecords

VARIABLES
    refused,    \* the records the database will not take, fixed at the start
    copies,     \* the table: how many rows each record has
    stage,      \* what _bulk_insert is doing
    start,      \* start_index: the records before the current chunk
    attempt,    \* of the whole chunk
    try,        \* of one request, in the transport
    pos,        \* first record of the request being made
    last,       \* last record of the current sub-chunk
    inserted,   \* inserted_count: records of the chunk that were acknowledged
    missed,     \* failed_sub_records
    lost,       \* history: records stored by a request whose answer got lost
    smooth      \* history: every request so far has been answered

place == <<stage, start, attempt, pos, last, inserted, missed>>
vars == <<refused, copies, try, place, lost, smooth>>

Sending == {"chunk", "sub", "row"}
Ended   == {"done", "failed", "cancelled"}
Stage   == {"check", "tally"} \cup Sending \cup Ended

TypeOK ==
    /\ refused \subseteq Record
    /\ copies \in [Record -> Nat]
    /\ stage \in Stage
    /\ start \in Nat
    /\ attempt \in 1..MaxRetries
    /\ try \in 1..MaxTries
    /\ pos \in Nat \ {0}
    /\ last \in Nat
    /\ inserted \in Nat
    /\ missed \subseteq Record
    /\ lost \subseteq Record
    /\ smooth \in BOOLEAN

Init ==
    /\ refused \in SUBSET Record
    /\ copies = [r \in Record |-> 0]
    /\ stage = "check"
    /\ start = 0
    /\ attempt = 1
    /\ try = 1
    /\ pos = 1
    /\ last = 0
    /\ inserted = 0
    /\ missed = {}
    /\ lost = {}
    /\ smooth = TRUE

-----------------------------------------------------------------------------

UpTo(n) == IF n < NumRecords THEN n ELSE NumRecords

ChunkEnd == UpTo(start + ChunkSize)

\* The last record of the sub-chunk that begins with record p.
SubChunkEnd(p) ==
    IF p + SubChunkSize - 1 < ChunkEnd THEN p + SubChunkSize - 1 ELSE ChunkEnd

RequestEnd ==
    CASE stage = "chunk" -> ChunkEnd
      [] stage = "sub"   -> last
      [] OTHER           -> pos

\* Mutant: the slice takes one record too many.
OverlappingRequest == pos..UpTo(RequestEnd + 1)

\* The records of the insert that is being made.
Request == pos..RequestEnd

\* On to record p: the next one to isolate, the next sub-chunk or the count.
Advance(p) ==
    /\ pos' = p
    /\ \/ p > ChunkEnd /\ stage' = "tally" /\ UNCHANGED last
       \/ p <= ChunkEnd /\ p > last /\ stage' = "sub" /\ last' = SubChunkEnd(p)
       \/ p <= ChunkEnd /\ p <= last /\ UNCHANGED <<stage, last>>

Succeed ==
    /\ inserted' = inserted + (RequestEnd + 1 - pos)
    /\ Advance(RequestEnd + 1)
    /\ UNCHANGED <<start, attempt, missed>>

\* Mutant: the attempts are not counted.
RetryForever ==
    /\ stage = "chunk"
    /\ UNCHANGED <<stage, start, attempt, pos, last, inserted, missed>>

\* The insert raises: the chunk is tried again and then cut into sub-chunks, a
\* sub-chunk is cut into single rows, a single row is given up.
RetryChunk ==
    /\ stage = "chunk" /\ attempt < MaxRetries
    /\ attempt' = attempt + 1
    /\ UNCHANGED <<stage, start, pos, last, inserted, missed>>

CutChunk ==
    /\ stage = "chunk" /\ attempt = MaxRetries
    /\ stage' = "sub"
    /\ last' = SubChunkEnd(pos)
    /\ UNCHANGED <<start, attempt, pos, inserted, missed>>

CutSubChunk ==
    /\ stage = "sub"
    /\ stage' = "row"
    /\ UNCHANGED <<start, attempt, pos, last, inserted, missed>>

\* Mutants: the row is counted all the same; the rest of the sub-chunk goes with it.
CountRowAnyway ==
    /\ stage = "row"
    /\ missed' = missed \cup {pos}
    /\ inserted' = inserted + 1
    /\ Advance(pos + 1)
    /\ UNCHANGED <<start, attempt>>

GiveUpSubChunk ==
    /\ stage = "row"
    /\ missed' = missed \cup pos..last
    /\ Advance(last + 1)
    /\ UNCHANGED <<start, attempt, inserted>>

GiveUpRow ==
    /\ stage = "row"
    /\ missed' = missed \cup {pos}
    /\ Advance(pos + 1)
    /\ UNCHANGED <<start, attempt, inserted>>

Raise == RetryChunk \/ CutChunk \/ CutSubChunk \/ GiveUpRow

-----------------------------------------------------------------------------

\* The check in front of a chunk; UploadPipeline says when it stops the import.
BeginChunk ==
    /\ stage = "check"
    /\ stage' = "chunk"
    /\ UNCHANGED <<refused, copies, try, start, attempt, pos, last, inserted,
                   missed, lost, smooth>>

StopCancelled ==
    /\ stage = "check"
    /\ stage' = "cancelled"
    /\ UNCHANGED <<refused, copies, try, start, attempt, pos, last, inserted,
                   missed, lost, smooth>>

Store ==
    /\ Request \cap refused = {}
    /\ copies' = [r \in Record |-> IF r \in Request THEN copies[r] + 1 ELSE copies[r]]

Acknowledge ==
    /\ stage \in Sending
    /\ Store
    /\ Succeed
    /\ try' = 1
    /\ UNCHANGED <<refused, lost, smooth>>

\* An error the transport does not retry.
Refuse ==
    /\ stage \in Sending
    /\ Request \cap refused # {}
    /\ Raise
    /\ try' = 1
    /\ UNCHANGED <<refused, copies, lost, smooth>>

\* A gateway error, a dropped connection or a timeout, before or after the
\* database has done its work.  The transport repeats the request after some of
\* these; after the others, and after its last try, _bulk_insert sees an error.
Glitch ==
    /\ stage \in Sending
    /\ \/ Store /\ lost' = lost \cup Request
       \/ UNCHANGED <<copies, lost>>
    /\ smooth' = FALSE
    /\ \/ try < MaxTries /\ try' = try + 1 /\ UNCHANGED place
       \/ try' = 1 /\ Raise
    /\ UNCHANGED refused

\* Mutant: a chunk counts as written when some of it was.
TolerateMissing ==
    /\ stage = "tally"
    /\ IF inserted = 0
         THEN stage' = "failed" /\ UNCHANGED <<start, attempt, inserted, missed>>
         ELSE /\ start' = ChunkEnd
              /\ stage' = IF ChunkEnd = NumRecords THEN "done" ELSE "check"
              /\ attempt' = 1
              /\ inserted' = 0
              /\ missed' = {}
    /\ UNCHANGED <<refused, copies, try, pos, last, lost, smooth>>

\* "ATOMIC ALL-OR-NOTHING": the chunk is complete or the import fails.
Tally ==
    /\ stage = "tally"
    /\ IF inserted < ChunkEnd - start
         THEN stage' = "failed" /\ UNCHANGED <<start, attempt, inserted>>
         ELSE /\ start' = ChunkEnd
              /\ stage' = IF ChunkEnd = NumRecords THEN "done" ELSE "check"
              /\ attempt' = 1
              /\ inserted' = 0
    /\ UNCHANGED <<refused, copies, try, pos, last, missed, lost, smooth>>

Next ==
    \/ BeginChunk \/ StopCancelled
    \/ Acknowledge \/ Refuse \/ Glitch
    \/ Tally

Spec == Init /\ [][Next]_vars

\* Every request ends: with an answer, a refusal or a timeout (120 seconds).
FairSpec == Spec /\ WF_vars(Next)

-----------------------------------------------------------------------------

\* Where the loops are: between chunks, in a chunk, or past its last record.
AtItsPlace ==
    /\ start <= NumRecords /\ start < pos
    /\ stage \in {"check", "chunk"} =>
          pos = start + 1 /\ start < NumRecords /\ inserted = 0 /\ missed = {}
    /\ stage \in {"sub", "row"} => pos <= last /\ last <= ChunkEnd
    /\ stage \in {"tally", "failed"} => pos = ChunkEnd + 1
    /\ stage = "done" => start = NumRecords /\ pos = start + 1 /\ missed = {}

\* A record in front of `pos` is in the table or in failed_sub_records.
InFront ==
    \A r \in Record : r < pos /\ r \notin missed => copies[r] > 0

\* inserted_count falls short of the records tried as soon as one was given up.
CountIsHonest ==
    /\ missed \subseteq (start + 1)..(pos - 1)
    /\ inserted + start + 1 <= pos
    /\ missed # {} => inserted + start + 1 < pos

MissedAreRefused ==
    smooth => lost = {} /\ missed = refused \cap (start + 1)..(pos - 1)

\* When _bulk_insert returns, every record is in the table at least once,
\* whatever was refused, repeated or lost on the way.
NothingMissing ==
    stage = "done" => \A r \in Record : copies[r] > 0

\* The retries do not multiply a record by themselves: one that was never stored
\* by a request whose answer got lost is in the table once if it was
\* acknowledged and not at all if it was not (failed, or still to come).
ExactUnlessLost ==
    \A r \in Record \ lost :
        copies[r] = IF r < pos /\ r \notin missed THEN 1 ELSE 0

\* "Single-row micro-batch fallback to recover all good rows": when every request
\* was answered, a failing chunk leaves out the refused records and no others.
GoodRowsSaved ==
    smooth /\ stage = "failed" =>
        \A r \in (start + 1)..ChunkEnd :
            copies[r] = IF r \in refused THEN 0 ELSE 1

\* What every step preserves; the three properties above follow.
BulkInv ==
    /\ TypeOK
    /\ AtItsPlace
    /\ CountIsHonest
    /\ InFront
    /\ ExactUnlessLost
    /\ MissedAreRefused

\* The retries end, however many requests glitch.
EventuallyEnds == <>(stage \in Ended)

=============================================================================
