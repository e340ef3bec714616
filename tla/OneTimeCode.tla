---------------------------- MODULE OneTimeCode ----------------------------
(***************************************************************************)
(* One-time codes (backend/services/otp_service.py): store_otp_in_db and   *)
(* verify_otp_from_db for a phone, store_password_reset_code and           *)
(* verify_password_reset_code for an account; the two pairs take the same  *)
(* steps.  The codes of one phone or account are modelled.                 *)
(*                                                                         *)
(* The codes are rows of otp_codes, which all server processes share.  The *)
(* count of failed attempts and the set of rows being consumed belong to   *)
(* one process, whose threads serialise on _otp_lock.  Codes are numbered  *)
(* in the order of created_at; 0 stands for a wrong code.  A row is a code *)
(* and a copy: the transport (backend/db/client.py) sends a request again  *)
(* when its reply is lost, and no constraint of the table, whose creation  *)
(* is not in the repository, is known to refuse the second copy.           *)
(***************************************************************************)
EXTENDS Naturals, FiniteSets

CONSTANTS
    Process,        \* server processes
    Request,        \* requests that may be under way at once
    MaxOtpAttempts, \* MAX_OTP_ATTEMPTS: 5
    MaxCodes,       \* bound: codes ever generated
    MaxTimeouts,    \* bound: expiries of codes and of lock-out windows
    MaxFaults       \* bound: database calls that raise, processes that restart

ASSUME CodeAssumption ==
    /\ Process # {} /\ IsFiniteSet(Request)
    /\ MaxOtpAttempts \in Nat \ {0}
    /\ MaxCodes \in Nat /\ MaxTimeouts \in Nat /\ MaxFaults \in Nat

Code  == 1..MaxCodes
Guess == 0..MaxCodes
Row   == Code \X {1, 2}

VARIABLES
    \* the table otp_codes, for this phone
    stored,         \* the rows
    expired,        \* codes whose expires_at has passed
    next,           \* the code that is generated next
    \* one per process
    failed,         \* _failed_attempts: the count, 0 for no entry
    over,           \* has the expires_at of that entry passed?
    consuming,      \* _consuming_records
    \* one per request
    pc, at,
    code,           \* the code given by the user, or to be stored
    record,         \* the row that was read
    \* bounds
    timeouts, faults,
    \* history
    accepted        \* how many requests have answered True by consuming a row

tableVars   == <<stored, expired, next>>
processVars == <<failed, over, consuming>>
requestVars == <<pc, at, code, record>>
boundVars   == <<timeouts, faults>>
vars == <<tableVars, processVars, requestVars, boundVars, accepted>>

PC == {"idle", "delete_old", "insert",
       "check", "read", "compare", "claim", "consume", "release"}

TableOK ==
    /\ stored \subseteq Row
    /\ expired \subseteq Code
    /\ next \in 1..(MaxCodes + 1)
    /\ timeouts \in Nat
    /\ faults \in Nat
    /\ accepted \in [Row -> Nat]

ProcessOK ==
    /\ failed \in [Process -> Nat]
    /\ over \in [Process -> BOOLEAN]
    /\ consuming \in [Process -> SUBSET Row]

RequestOK ==
    /\ pc \in [Request -> PC]
    /\ at \in [Request -> Process]
    /\ code \in [Request -> Guess]
    /\ record \in [Request -> Row \cup {<<>>}]
    /\ \A r \in Request :
          pc[r] \in {"compare", "claim", "consume", "release"} => record[r] \in Row

TypeOK == TableOK /\ ProcessOK /\ RequestOK

Init ==
    /\ stored = {}
    /\ expired = {}
    /\ next = 1
    /\ failed = [p \in Process |-> 0]
    /\ over = [p \in Process |-> FALSE]
    /\ consuming = [p \in Process |-> {}]
    /\ pc = [r \in Request |-> "idle"]
    /\ at \in [Request -> Process]
    /\ code = [r \in Request |-> 0]
    /\ record = [r \in Request |-> <<>>]
    /\ timeouts = 0
    /\ faults = 0
    /\ accepted = [w \in Row |-> 0]

-----------------------------------------------------------------------------

GoTo(r, label) == pc' = [pc EXCEPT ![r] = label] /\ UNCHANGED <<code, record>>

\* The call returns, and forgets what it was about.
Return(r) ==
    /\ pc' = [pc EXCEPT ![r] = "idle"]
    /\ code' = [code EXCEPT ![r] = 0]
    /\ record' = [record EXCEPT ![r] = <<>>]

Start(r, p, label, c) ==
    /\ pc' = [pc EXCEPT ![r] = label]
    /\ at' = [at EXCEPT ![r] = p]
    /\ code' = [code EXCEPT ![r] = c]
    /\ UNCHANGED record

Fault ==
    /\ faults < MaxFaults
    /\ faults' = faults + 1

LockedOut(p) == failed[p] >= MaxOtpAttempts /\ ~over[p]

\* An entry whose window is over is dropped when it is next looked at.
DropOldEntry(p) ==
    IF over[p]
      THEN /\ failed' = [failed EXCEPT ![p] = 0]
           /\ over' = [over EXCEPT ![p] = FALSE]
      ELSE UNCHANGED <<failed, over>>

-----------------------------------------------------------------------------
(***************************************************************************)
(* Storing a code.                                                         *)
(***************************************************************************)

\* Mutant: a resend stores the code of the last request again.
ResendOldCode(r, p) ==
    /\ pc[r] = "idle"
    /\ next <= MaxCodes
    /\ ~LockedOut(p)
    /\ DropOldEntry(p)
    /\ next' = next + 1
    /\ Start(r, p, "delete_old", IF next > 1 THEN next - 1 ELSE next)
    /\ UNCHANGED <<stored, expired, consuming, boundVars, accepted>>

\* A code is generated and, unless the process has locked the phone out, goes
\* to the table in two calls.
BeginStore(r, p) ==
    /\ pc[r] = "idle"
    /\ next <= MaxCodes
    /\ ~LockedOut(p)
    /\ DropOldEntry(p)
    /\ next' = next + 1
    /\ Start(r, p, "delete_old", next)
    /\ UNCHANGED <<stored, expired, consuming, boundVars, accepted>>

\* A call that raises, before or after the database has done it, ends the handler.
DeleteOld(r) ==
    /\ pc[r] = "delete_old"
    /\ \/ stored' = {} /\ GoTo(r, "insert") /\ UNCHANGED faults
       \/ stored' \in {stored, {}} /\ Return(r) /\ Fault
    /\ UNCHANGED <<expired, next, processVars, at, timeouts, accepted>>

\* The insert may be sent twice.
Insert(r) ==
    /\ pc[r] = "insert"
    /\ \/ stored' = stored \cup {<<code[r], 1>>} /\ UNCHANGED faults
       \/ /\ stored' \in {stored \cup new : new \in SUBSET ({code[r]} \X {1, 2})}
          /\ Fault
    /\ Return(r)
    /\ UNCHANGED <<expired, next, processVars, at, timeouts, accepted>>

-----------------------------------------------------------------------------
(***************************************************************************)
(* Verifying one.                                                          *)
(***************************************************************************)

\* The user enters a code that was sent to him, or a wrong one.
BeginVerify(r, p, c) ==
    /\ pc[r] = "idle"
    /\ c < next
    /\ Start(r, p, "check", c)
    /\ UNCHANGED <<tableVars, processVars, boundVars, accepted>>

\* Mutant: the limit is not checked.
CheckNothing(r) ==
    /\ pc[r] = "check"
    /\ DropOldEntry(at[r])
    /\ GoTo(r, "read")
    /\ UNCHANGED <<tableVars, consuming, at, boundVars, accepted>>

\* Too many failed attempts in this process: the phone's rows are deleted (or
\* not, if the call fails) under the lock.
CheckAttempts(r) ==
    LET p == at[r] IN
    /\ pc[r] = "check"
    /\ IF LockedOut(p)
         THEN /\ \/ stored' = {} /\ UNCHANGED faults
                 \/ UNCHANGED stored /\ Fault
              /\ Return(r)
              /\ UNCHANGED <<failed, over>>
         ELSE /\ DropOldEntry(p)
              /\ GoTo(r, "read")
              /\ UNCHANGED <<stored, faults>>
    /\ UNCHANGED <<expired, next, consuming, at, timeouts, accepted>>

\* The row with the latest created_at; two copies of a code have the same.
Newest(rows) == {w \in rows : \A v \in rows : v[1] <= w[1]}

\* Expired rows are purged and the newest row is read.  When the purge fails, an
\* expired newest row is deleted by itself.  Expiry is judged by one reading of
\* the clock, so the two calls are one step; the read may raise.
ReadNewest(r) ==
    LET live == {w \in stored : w[1] \notin expired} IN
    /\ pc[r] = "read"
    /\ \/ stored' = live /\ UNCHANGED faults
       \/ stored' \in {stored} \cup {stored \ {w} : w \in Newest(stored \ live)} /\ Fault
    /\ \/ /\ live # {}
          /\ \E w \in Newest(live) : record' = [record EXCEPT ![r] = w]
          /\ pc' = [pc EXCEPT ![r] = "compare"]
          /\ UNCHANGED code
       \/ /\ live = {} \/ faults' # faults
          /\ Return(r)
    /\ UNCHANGED <<expired, next, processVars, at, timeouts, accepted>>

\* The hash differs: the attempt is counted, without a look at the window of the
\* entry; the attempt that reaches the limit deletes the row it has read.
Compare(r) ==
    LET p == at[r] IN
    /\ pc[r] = "compare"
    /\ IF code[r] = record[r][1]
         THEN GoTo(r, "claim") /\ UNCHANGED <<stored, failed, faults>>
         ELSE /\ failed' = [failed EXCEPT ![p] = @ + 1]
              /\ IF failed[p] + 1 >= MaxOtpAttempts
                   THEN \/ stored' = stored \ {record[r]} /\ UNCHANGED faults
                        \/ UNCHANGED stored /\ Fault
                   ELSE UNCHANGED <<stored, faults>>
              /\ Return(r)
    /\ UNCHANGED <<expired, next, over, consuming, at, timeouts, accepted>>

Claim(r) ==
    LET p == at[r] IN
    /\ pc[r] = "claim"
    /\ IF record[r] \in consuming[p]
         THEN Return(r) /\ UNCHANGED consuming
         ELSE /\ consuming' = [consuming EXCEPT ![p] = @ \cup {record[r]}]
              /\ GoTo(r, "consume")
    /\ UNCHANGED <<tableVars, failed, over, at, boundVars, accepted>>

\* Mutant: a delete that raises nothing is taken for a deleted row.
ConsumeUnseen(r) ==
    /\ pc[r] = "consume"
    /\ stored' = stored \ {record[r]}
    /\ accepted' = [accepted EXCEPT ![record[r]] = @ + 1]
    /\ GoTo(r, "release")
    /\ UNCHANGED <<expired, next, processVars, at, boundVars>>

\* The delete returns the row it has deleted: only then the answer is True.  The
\* call may also raise, before or after the row is gone.
Consume(r) ==
    /\ pc[r] = "consume"
    /\ \/ /\ stored' = stored \ {record[r]}
          /\ accepted' = IF record[r] \in stored
                           THEN [accepted EXCEPT ![record[r]] = @ + 1]
                           ELSE accepted
          /\ UNCHANGED faults
       \/ /\ Fault
          /\ stored' \in {stored, stored \ {record[r]}}
          /\ UNCHANGED accepted
    /\ GoTo(r, "release")
    /\ UNCHANGED <<expired, next, processVars, at, timeouts>>

\* Mutant: the finally clause forgets the claim.
KeepClaim(r) ==
    /\ pc[r] = "release"
    /\ failed' = [failed EXCEPT ![at[r]] = 0]
    /\ over' = [over EXCEPT ![at[r]] = FALSE]
    /\ Return(r)
    /\ UNCHANGED <<tableVars, consuming, at, boundVars, accepted>>

\* finally: whatever the delete did, the claim and the failed attempts go.
Release(r) ==
    LET p == at[r] IN
    /\ pc[r] = "release"
    /\ consuming' = [consuming EXCEPT ![p] = @ \ {record[r]}]
    /\ failed' = [failed EXCEPT ![p] = 0]
    /\ over' = [over EXCEPT ![p] = FALSE]
    /\ Return(r)
    /\ UNCHANGED <<tableVars, at, boundVars, accepted>>

-----------------------------------------------------------------------------

Timeout ==
    /\ timeouts < MaxTimeouts
    /\ timeouts' = timeouts + 1

Expire(c) ==
    /\ c < next /\ c \notin expired
    /\ \A d \in Code : d < c => d \in expired
    /\ Timeout
    /\ expired' = expired \cup {c}
    /\ UNCHANGED <<stored, next, processVars, requestVars, faults, accepted>>

WindowEnds(p) ==
    /\ failed[p] > 0 /\ ~over[p]
    /\ Timeout
    /\ over' = [over EXCEPT ![p] = TRUE]
    /\ UNCHANGED <<tableVars, failed, consuming, requestVars, faults, accepted>>

\* A process restarts and loses its requests and its memory.
Restart(p) ==
    /\ Fault
    /\ failed' = [failed EXCEPT ![p] = 0]
    /\ over' = [over EXCEPT ![p] = FALSE]
    /\ consuming' = [consuming EXCEPT ![p] = {}]
    /\ pc' = [r \in Request |-> IF at[r] = p THEN "idle" ELSE pc[r]]
    /\ code' = [r \in Request |-> IF at[r] = p THEN 0 ELSE code[r]]
    /\ record' = [r \in Request |-> IF at[r] = p THEN <<>> ELSE record[r]]
    /\ UNCHANGED <<tableVars, at, timeouts, accepted>>

-----------------------------------------------------------------------------

RequestStep(r) ==
    \/ DeleteOld(r) \/ Insert(r)
    \/ CheckAttempts(r) \/ ReadNewest(r) \/ Compare(r)
    \/ Claim(r) \/ Consume(r) \/ Release(r)

Next ==
    \/ \E r \in Request :
          \/ RequestStep(r)
          \/ \E p \in Process :
                BeginStore(r, p) \/ \E c \in Guess : BeginVerify(r, p, c)
    \/ \E c \in Code : Expire(c)
    \/ \E p \in Process : WindowEnds(p) \/ Restart(p)

Spec == Init /\ [][Next]_vars

-----------------------------------------------------------------------------

\* "Concurrent verification consumes exactly once": however many requests, in
\* however many processes, verify a code, a row makes at most one of them
\* answer True.
AcceptedOnce == \A w \in Row : accepted[w] <= 1

\* A row of the table has not been accepted yet; a code on its way to the table
\* is new, and no other request carries it.
StoredIsFresh ==
    /\ \A w \in stored : accepted[w] = 0 /\ w[1] < next
    /\ \A w \in Row : w[1] >= next => accepted[w] = 0
    /\ \A r \in Request : pc[r] \in {"delete_old", "insert"} =>
          /\ code[r] \in Code /\ code[r] < next
          /\ \A w \in Row : w[1] = code[r] => w \notin stored /\ accepted[w] = 0
          /\ \A q \in Request :
                q # r /\ pc[q] \in {"delete_old", "insert"} => code[q] # code[r]

\* Why AcceptedOnce holds: a consumed row is never stored again.
CodeInv == TypeOK /\ StoredIsFresh /\ AcceptedOnce

\* A row that a process holds as being consumed has one request there that will
\* give it up: no code stays blocked.
ClaimsAreHeld ==
    \A p \in Process : \A w \in consuming[p] :
        \E r \in Request :
            /\ at[r] = p /\ record[r] = w /\ pc[r] \in {"consume", "release"}
            /\ \A q \in Request \ {r} :
                  ~(at[q] = p /\ record[q] = w /\ pc[q] \in {"consume", "release"})

\* The limit is checked before a code is read and counted after it is compared:
\* between two resets a process counts at most MaxOtpAttempts - 1 wrong codes
\* and those of the requests then under way.
AttemptsBounded ==
    \A p \in Process : failed[p] < MaxOtpAttempts + Cardinality(Request)

\* "Drops records immediately upon successful verification (single-use)": a code
\* is accepted once.
SingleUse == \A c \in Code : accepted[<<c, 1>>] + accepted[<<c, 2>>] <= 1

=============================================================================
