---------------------------- MODULE AtomicImport ----------------------------
(***************************************************************************)
(* What an import promises to those who read the fact tables, without      *)
(* workers, chunks in progress, status columns or purges: an upload that   *)
(* nobody interferes with ends "loaded" with a complete set of facts in    *)
(* the tables, or "rolledback" with none, and its facts never change       *)
(* afterwards.  Once a user, a reset or a failing database call has         *)
(* interfered, nothing is promised: the upload is "disturbed".              *)
(***************************************************************************)
CONSTANTS
    Batch,
    Nothing,        \* a batch's facts when it has none
    Complete(_, _)  \* may these be the facts of this batch when it is loaded?

VARIABLES phase, facts

avars == <<phase, facts>>

AInit ==
    /\ phase = [b \in Batch |-> "none"]
    /\ facts = [b \in Batch |-> Nothing]

Begin(b) ==
    /\ phase[b] = "none"
    /\ phase' = [phase EXCEPT ![b] = "importing"]
    /\ UNCHANGED facts

Work(b) ==
    /\ phase[b] = "importing"
    /\ facts' = [facts EXCEPT ![b] = facts'[b]]
    /\ UNCHANGED phase

Commit(b) ==
    /\ phase[b] = "importing"
    /\ Complete(b, facts[b])
    /\ phase' = [phase EXCEPT ![b] = "loaded"]
    /\ UNCHANGED facts

RollBack(b) ==
    /\ phase[b] = "importing"
    /\ facts[b] = Nothing
    /\ phase' = [phase EXCEPT ![b] = "rolledback"]
    /\ UNCHANGED facts

\* A starting process resets several batches at once.
Disturb(S) ==
    /\ \A b \in S : phase[b] # "none"
    /\ phase' = [b \in Batch |-> IF b \in S THEN "disturbed" ELSE phase[b]]
    /\ facts' = [b \in Batch |-> IF b \in S THEN Nothing ELSE facts[b]]

ANext ==
    \/ \E b \in Batch : Begin(b) \/ Work(b) \/ Commit(b) \/ RollBack(b)
    \/ \E S \in SUBSET Batch : Disturb(S)

ASpec == AInit /\ [][ANext]_avars

=============================================================================
