------------------------- MODULE UploadPipelineInv --------------------------
(***************************************************************************)
(* The inductive invariant of UploadPipeline (why a rolled-back upload      *)
(* leaves nothing, a loaded one is complete and a finished one is terminal) *)
(* and the mapping of its states to those of AtomicImport.                  *)
(***************************************************************************)
EXTENDS UploadPipeline

\* Nothing has been put into a fact table yet.
BeforeFacts == {"none", "queued", "locking", "started", "parsed", "resolve",
                "raw", "validate", "ready", "promote",
                "reject_cleanup", "reject_status", "reject_release"}

\* The loop over the sales chunks has run to its end.
AfterSales == {"populate", "user", "mapped", "aggregate", "load"}

\* A row that was created has a worker, and only a worker that has passed its
\* last status update has "loaded" in its row.
StatusFollowsWorker(b) ==
    /\ status[b] = "none" <=> pc[b] = "none"
    /\ status[b] = "loaded" => pc[b] \in {"release", "done", "dead"}

\* Every loop over chunks starts at chunk 1.
LoopsStartAtOne(b) == pc[b] \notin Table \cup {"dead"} => idx[b] = 1

\* Purges are under way only for batches somebody has interfered with.
PurgesInterrupt ==
    \A i \in Instance : cancelling[i] \cup resetting[i] \subseteq interrupted

\* A process that is down has no purge under way.
DownIsIdle ==
    \A i \in Instance : ~up[i] => cancelling[i] = {} /\ resetting[i] = {}

\* Where a batch may have facts, and what excuses those a dead end has left.
FactsFollowWorker(b) ==
    /\ pc[b] \in BeforeFacts => FactsOf(b) = {}
    /\ pc[b] \in {"cancel_release", "fail_status"} =>
          FactsOf(b) = {} \/ b \in damaged
    /\ pc[b] \in {"release", "done"} =>
          FactsOf(b) = {} \/ status[b] = "loaded" \/ PurgePending(b) \/ b \in damaged

\* Left alone, the worker has written every sales chunk it has gone past.
SalesFollowWorker(b) ==
    b \notin interrupted =>
        /\ pc[b] = "sales" =>
              \A c \in 1..(idx[b] - 1) : Part(b, "sales", c) \in rows
        /\ pc[b] \in AfterSales \/ status[b] = "loaded" =>
              \A c \in 1..Chunks["sales"] : Part(b, "sales", c) \in rows
        /\ pc[b] \in {"sales"} \cup AfterSales \/ status[b] = "loaded" =>
              \A r \in torn : ~(r.batch = b /\ r.table = "sales")

\* A process believes a batch cancelled because a user asked for it, or because
\* its own worker of that batch read an aborted status and is on its way out.
BeliefIsJustified(b) ==
    \A i \in Instance : b \in known[i] =>
        \/ UserCancelled(b)
        \/ /\ i = host[b]
           /\ status[b] \in Aborted
           /\ pc[b] \in {"mapped", "cancel_cleanup", "cancel_release",
                         "release", "done", "dead"}

\* On the ways out the row is settled, but for a user's cancellation.
ExitsAreSettled(b) ==
    pc[b] \in {"cancel_cleanup", "cancel_release", "reject_release",
               "release", "done"} =>
        status[b] \notin Active \/ UserCancelled(b)

IInv ==
    /\ TypeOK
    /\ LockHasHolder
    /\ PurgesInterrupt
    /\ DownIsIdle
    /\ \A b \in Batch :
          /\ StatusFollowsWorker(b)
          /\ LoopsStartAtOne(b)
          /\ FactsFollowWorker(b)
          /\ SalesFollowWorker(b)
          /\ BeliefIsJustified(b)
          /\ ExitsAreSettled(b)

-----------------------------------------------------------------------------
(***************************************************************************)
(* The refinement mapping.                                                 *)
(***************************************************************************)

\* Someone else has written the row or purged the batch, or a call has failed.
Disturbed(b) == b \in interrupted \cup damaged

RowsOf(b, S) == {r \in S : r.batch = b /\ r.table \in FactTable}

NoFacts == [whole |-> {}, torn |-> {}]

HasAllSales(b, f) ==
    /\ \A c \in 1..Chunks["sales"] : Part(b, "sales", c) \in f.whole
    /\ \A r \in f.torn : r.table # "sales"

phaseBar ==
    [b \in Batch |->
        IF Disturbed(b)              THEN "disturbed"
        ELSE IF pc[b] = "none"       THEN "none"
        ELSE IF status[b] = "loaded" THEN "loaded"
        ELSE IF pc[b] = "done"       THEN "rolledback"
        ELSE "importing"]

factsBar ==
    [b \in Batch |->
        IF Disturbed(b) THEN NoFacts
        ELSE [whole |-> RowsOf(b, rows), torn |-> RowsOf(b, torn)]]

Import == INSTANCE AtomicImport
          WITH Nothing <- NoFacts, Complete <- HasAllSales,
               phase <- phaseBar, facts <- factsBar

\* The pipeline imports atomically, for every upload that is not interfered
\* with: the facts it leaves are all of them or none, and stay what they are.
ImportsAtomically == Import!ASpec

=============================================================================
