--------------------------- MODULE DirectoryProofs --------------------------
(***************************************************************************)
(* Proofs about UserDirectory: its steps are steps of Sessions, so that    *)
(* what is proved of sessions holds of the directory; the cached list of   *)
(* users does not stay out of date unless it goes astray; an edit that     *)
(* meets no other and no failure does in all tables what the service takes *)
(* it to say; and who may have one headquarters only has no second one.    *)
(***************************************************************************)
EXTENDS UserDirectory, SessionsProofs

\* Every step of the directory is one of Sessions, or leaves sessions alone.
LEMMA DirectoryNext == Next => [SessionNext]_sessionVars
<1> SUFFICES ASSUME Next PROVE [SessionNext]_sessionVars
  OBVIOUS
<1>1. ASSUME NEW r \in Request, BeginOther(r) \/ BeginEdit(r)
      PROVE  SessionNext
  BY <1>1 DEF BeginOther, BeginEdit, SessionNext
<1>2. ASSUME NEW r \in Request, Serve(r) PROVE SessionNext
  <2>1. ServeStep(r)
    BY <1>2 DEF Serve, PurgeList, ServeStep
  <2> QED  BY <2>1 DEF SessionNext
<1>3. ASSUME NEW r \in Request, DirectoryStep(r) \/ WriteFails(r) \/ LookupFails(r)
      PROVE  SessionNext \/ UNCHANGED sessionVars
  <2>1. EditStep(r) \/ UNCHANGED sessionVars
    BY <1>3 DEF DirectoryStep, WriteUsers, StartEdit, WriteTable, CheckHq, EndEdit,
                ResetPassword, WriteFails, LookupFails, EditStep
  <2> QED  BY <2>1 DEF SessionNext
<1>4. CASE ReadList \/ StoreList \/ ExpireList
  BY <1>4 DEF ReadList, StoreList, ExpireList
<1>5. CASE ExpireStep
  BY <1>5 DEF SessionNext
<1> QED  BY <1>1, <1>2, <1>3, <1>4, <1>5 DEF Next, RequestStep

\* The directory implements Sessions: what it does to the account, and when it
\* sets or clears the flag, is what the sessions' edits may do.
THEOREM ImplementsSessions == Spec => SessionSpec
<1>1. Init => SessionInit
  BY DEF Init
<1>2. [Next]_vars => [SessionNext]_sessionVars
  BY DirectoryNext DEF vars
<1> QED  BY <1>1, <1>2, PTL DEF Spec, SessionSpec

\* What holds of sessions holds of the directory: no edit of a user, however its
\* writes interleave with sign-ins and refreshes, lets the barred in.
THEOREM DirectoryKeepsSessions ==
    Spec => [](RevocationHolds /\ InactiveIsNotRenewed /\ OneTokenPerSignIn)
BY ImplementsSessions, RevocationHoldsCorrect, InactiveIsNotRenewedCorrect,
   OneTokenPerSignInCorrect, PTL

-----------------------------------------------------------------------------
(***************************************************************************)
(* The cached list of users.  Whoever changes a row owes a purge of it,    *)
(* and what is left of an edit belongs to one at work.                     *)
(***************************************************************************)
Owes(q) ==
    \/ q.kind \in Administration \ {"reset"} /\ q.at = "edited"
    \/ q.kind = "deactivate" /\ q.at = "set_flag"
    \/ q.kind = "reactivate" /\ q.at = "clear_flag"
    \/ q.kind \in Administration /\ q.at = "refresh_list"

\* Some request is.
Owed == \E r \in Request : Owes(request[r])

\* What is left of an edit belongs to an edit at work.
JobsAtWork ==
    \A r \in Request : job[r].todo # <<>> =>
        /\ request[r].kind \in Administration \ {"reset"}
        /\ request[r].at \in {"edit", "edited"}

\* The cached list is out of date only until the purge that is owed.
StaleIsOwed == listed = "stale" /\ ~astray => Owed

\* Old rows are read only when a reader has gone astray, and a process keeps a
\* copy only when a call of Redis has.
ReaderAstray == reader \in Copy /\ (reader = "stale" => astray)
HasCopies    == \E p \in Process : copies[p] # "none"
CopiesAstray == copies \in [Process -> Copy] /\ (HasCopies => astray)
ListAstray == ReaderAstray /\ CopiesAstray

\* Only edits are at the labels of an edit.
EditsOnPath ==
    \A r \in Request :
        request[r].at \in {"edit", "edited", "clear_flag", "refresh_list"}
            => request[r].kind \in Administration

\* There is a job for each request.
JobsAreKept == job = [r \in Request |-> job[r]]

\* The inductive invariant of the cached list.
ListInv ==
    /\ SessionInv /\ EditsOnPath /\ JobsAreKept /\ JobsAtWork
    /\ StaleIsOwed /\ ListAstray

\* The steps of a request at the end of an edit.
LEMMA FlagStepAt ==
    ASSUME NEW r \in Request, ServeStep(r)
    PROVE  /\ IsAt(r, "set_flag") => SetFlag(r)
           /\ IsAt(r, "clear_flag") => ClearFlag(r)
           /\ ~IsAt(r, "edit") /\ ~IsAt(r, "edited")
<1> USE DEF ServeStep, IsAt,
      LoginReadAccount, LoginClearRevocation, LoginGuardRole, StoreToken, ReadIndex,
      WriteIndex, RefreshReadGrace, RefreshReadToken, RefreshReadFlag, RefreshReadAccount,
      RefreshDropToken, RefreshStoreGrace, RefreshRemoveOld, CheckReadFlag,
      CheckReadProfile, CheckReadAccount, CheckStoreProfile, CheckAnswer,
      LogoutRemoveToken, LogoutRemoveGrace, RevokeListTokens, RevokePurgeToken,
      RevokePurgeGrace, RevokeDropIndex, SetFlag, ClearFlag, RefreshList
<1>1. IsAt(r, "set_flag") => SetFlag(r)
  OBVIOUS
<1>2. IsAt(r, "clear_flag") => ClearFlag(r)
  OBVIOUS
<1>3. ~IsAt(r, "edit") /\ ~IsAt(r, "edited")
  OBVIOUS
<1> QED  BY <1>1, <1>2, <1>3

\* After setting the flag a deactivation purges the list; a plain revocation ends.
LEMMA SetFlagGoes ==
    ASSUME SessionTypeOK, NEW r \in Request, SetFlag(r)
    PROVE  IF request[r].kind = "deactivate"
           THEN request'[r].kind = "deactivate" /\ request'[r].at = "refresh_list"
           ELSE request'[r] = Idle
BY DEF SetFlag, GoTo, Finish, SessionTypeOK, RequestOK, Work

\* After clearing the flag a reactivation purges the list.
LEMMA ClearFlagGoes ==
    ASSUME SessionTypeOK, NEW r \in Request, ClearFlag(r)
    PROVE  request'[r].kind = request[r].kind /\ request'[r].at = "refresh_list"
<1>1. request[r] \in Work /\ Lift(request[r]) \in Work /\ Lift(request[r]).kind = request[r].kind
  BY DEF SessionTypeOK, RequestOK, Work, Lift
<1>2. request'[r] = [Lift(request[r]) EXCEPT !.at = "refresh_list"]
  BY DEF ClearFlag, DeleteFlag
<1> QED  BY <1>1, <1>2 DEF Work

\* Only edits of the account are at the labels of an edit.
LEMMA EditsOnPathStep ==
    ASSUME SessionTypeOK, EditsOnPath, SessionNext
    PROVE  EditsOnPath'
<1>a. Idle.at = "idle"
  BY DEF Idle
<1>1. ASSUME NEW r \in Request, Begin(r) PROVE EditsOnPath'
  <2>1. PICK kind \in Kind \ {"none"} :
             /\ request'[r].kind = kind /\ request'[r].at = Entry(kind)
             /\ \A q \in Request \ {r} : request'[q] = request[q]
    BY <1>1, BeginRecord DEF SessionTypeOK, RequestOK
  <2>2. kind \notin Administration => Entry(kind) \notin
            {"edit", "edited", "clear_flag", "refresh_list"}
    BY DEF Entry, Kind
  <2> QED  BY <2>1, <2>2 DEF EditsOnPath
<1>2. ASSUME NEW r \in Request, ServeStep(r) \/ EditStep(r) PROVE EditsOnPath'
  <2>1. Moved(r)
    BY <1>2, ServeMoves, EditMoves
  <2>2. request'[r].at \in {"edit", "edited", "clear_flag", "refresh_list"}
            => request'[r].kind \in Administration
    <3>1. CASE IsAt(r, "set_flag")
      <4>1. ~EditStep(r)
        BY <3>1 DEF EditStep, EditAccount, EditFails, FinishEdit, IsAt
      <4> QED  BY <4>1, <3>1, <1>2, <1>a, FlagStepAt, SetFlagGoes DEF Administration
    <3>2. CASE ~IsAt(r, "set_flag") /\ Moves(request[r], request'[r])
      BY <3>2 DEF EditsOnPath, Moves, Same, Follows, IsAt
    <3> QED  BY <2>1, <3>1, <3>2, <1>a DEF Moved
  <2> QED  BY <2>1, <2>2 DEF Moved, Leaves, Same, EditsOnPath
<1>3. CASE ExpireStep
  BY <1>3, ExpireLeaves DEF Leaves, Same, EditsOnPath
<1> QED  BY <1>1, <1>2, <1>3 DEF SessionNext

\* A request that owes a purge goes on owing it, unless it purges the list or
\* ends, and so does one that is not at work in this step.
LEMMA OwesStays ==
    ASSUME SessionTypeOK, NEW r \in Request, ServeStep(r) \/ EditStep(r), Owes(request[r]),
           request[r].at # "refresh_list",
           request[r].at = "edited" => request'[r] # Idle
    PROVE  Owes(request'[r])
<1>1. CASE request[r].at = "set_flag"
  <2>1. ~EditStep(r)
    BY <1>1 DEF EditStep, EditAccount, EditFails, FinishEdit, IsAt
  <2> QED  BY <2>1, <1>1, FlagStepAt, SetFlagGoes DEF Owes, IsAt, Administration
<1>2. CASE request[r].at = "clear_flag"
  <2>1. ~EditStep(r)
    BY <1>2 DEF EditStep, EditAccount, EditFails, FinishEdit, IsAt
  <2> QED  BY <2>1, <1>2, FlagStepAt, ClearFlagGoes DEF Owes, IsAt, Administration
<1>3. CASE request[r].at = "edited"
  <2>1. EditFails(r) \/ FinishEdit(r)
    BY <1>3, FlagStepAt DEF EditStep, EditAccount, IsAt
  <2>2. request'[r] \in {request[r], Idle} \/ FinishEdit(r)
    BY <2>1 DEF EditFails
  <2>3. CASE FinishEdit(r)
    BY <2>3, <1>3
    DEF FinishEdit, Owes, GoTo, Finish, SessionTypeOK, RequestOK, Work, Administration
  <2> QED  BY <2>2, <2>3, <1>3
<1> QED  BY <1>1, <1>2, <1>3 DEF Owes

\* A request that is left where it is still owes its purge.
LEMMA OthersOwe ==
    ASSUME NEW q, NEW s, Leaves(q, s), Owes(q)
    PROVE  Owes(s)
BY DEF Leaves, Same, Owes

-----------------------------------------------------------------------------
(***************************************************************************)
(* The steps of the directory.                                             *)
(***************************************************************************)
\* A request that changes a row of the directory owes a purge afterwards.
LEMMA WriterOwes ==
    ASSUME ListInv, NEW r \in Request, WriteUsers(r) \/ WriteTable(r)
    PROVE  Owes(request'[r])
<1>a. SessionTypeOK /\ EditsOnPath /\ JobsAtWork
  BY DEF ListInv, SessionInv
<1>1. CASE WriteUsers(r)
  <2>1. request[r].kind \in Administration \ {"reset"} /\ EditAccount(r)
    BY <1>1, <1>a DEF WriteUsers, JobsAtWork
  <2>2. request'[r].kind = request[r].kind /\ request'[r].at = "edited"
    BY <2>1, <1>a DEF EditAccount, SessionTypeOK, RequestOK, Work
  <2> QED  BY <2>1, <2>2 DEF Owes
<1>2. CASE WriteTable(r)
  BY <1>2 DEF WriteTable, Editing, IsAt, sessionVars, Owes
<1> QED  BY <1>1, <1>2

\* What a write does to the list: stale, unless it has gone astray.
LEMMA AgesAreOwed ==
    ASSUME ListAstray, ListAges, Owed'
    PROVE  StaleIsOwed' /\ ListAstray'
<1>1. /\ copies' = [p \in Process |-> Age(copies[p])] /\ copies \in [Process -> Copy]
      /\ reader \in Copy
  BY DEF ListAges, ListAstray, ReaderAstray, CopiesAstray
<1>2. \A p \in Process : Age(copies[p]) \in Copy /\ (copies[p] = "none" => Age(copies[p]) = "none")
  BY <1>1 DEF Age, Copy
<1>3. CopiesAstray'
  BY <1>1, <1>2 DEF ListAstray, CopiesAstray, HasCopies, ListAges
<1> QED  BY <1>1, <1>3 DEF ListAstray, ReaderAstray, ListAges, StaleIsOwed, Age, Copy

\* Steps that leave the list alone, or delete some of it.
LEMMA ListStands ==
    ASSUME StaleIsOwed, ListAstray, reader' = reader,
           listed' \in {listed, "none"}, astray => astray',
           copies' = copies,
           listed' = "stale" /\ ~astray' /\ Owed => Owed'
    PROVE  StaleIsOwed' /\ ListAstray'
BY DEF StaleIsOwed, ListAstray, ReaderAstray, CopiesAstray, HasCopies

\* A copy that is dropped leaves those of the other processes.
LEMMA CopyGoes ==
    ASSUME copies \in [Process -> Copy], NEW p, copies' = [copies EXCEPT ![p] = "none"]
    PROVE  copies' \in [Process -> Copy] /\ (HasCopies' => HasCopies)
BY DEF Copy, HasCopies

LEMMA PurgeStep ==
    ASSUME ListInv, NEW r \in Request, PurgeList(r)
    PROVE  StaleIsOwed' /\ ListAstray'
<1>a. StaleIsOwed /\ reader \in Copy /\ (reader = "stale" => astray)
      /\ copies \in [Process -> Copy] /\ (HasCopies => astray)
  BY DEF ListInv, ListAstray, CopiesAstray, ReaderAstray
<1>1. copies' \in [Process -> Copy] /\ reader' = reader /\ (HasCopies' => HasCopies)
  BY <1>a, CopyGoes DEF PurgeList
<1>2. CASE listed' = "none" /\ astray' = (astray /\ (reader # "none" \/ HasCopies'))
  <2>1. reader = "stale" => astray'
    BY <1>a, <1>2
  <2>2. HasCopies' => astray'
    BY <1>a, <1>1, <1>2
  <2>3. StaleIsOwed'
    BY <1>2 DEF StaleIsOwed
  <2> QED  BY <2>1, <2>2, <2>3, <1>a, <1>1 DEF ListAstray, ReaderAstray, CopiesAstray
<1>3. CASE astray' = TRUE
  BY <1>a, <1>1, <1>3 DEF StaleIsOwed, ListAstray, ReaderAstray, CopiesAstray
<1> QED  BY <1>2, <1>3 DEF PurgeList, HasCopies

\* What a reader has read is stored in Redis, or the list goes astray.
LEMMA StoreStep ==
    ASSUME ListInv, StoreList
    PROVE  StaleIsOwed' /\ ListAstray'
<1>a. reader \in Copy /\ (reader = "stale" => astray) /\ reader' = "none"
      /\ copies \in [Process -> Copy] /\ (HasCopies => astray)
  BY DEF ListInv, ListAstray, CopiesAstray, ReaderAstray, StoreList
<1>b. ReaderAstray'
  BY <1>a DEF ReaderAstray, Copy
<1>1. CASE listed' = reader /\ UNCHANGED <<copies, astray>>
  BY <1>a, <1>b, <1>1 DEF CopiesAstray, ListAstray, StaleIsOwed, HasCopies
<1>2. ASSUME NEW p, copies' = [copies EXCEPT ![p] = reader], astray' = TRUE
      PROVE  StaleIsOwed' /\ ListAstray'
  <2>1. copies' \in [Process -> Copy]
    BY <1>a, <1>2
  <2> QED  BY <1>b, <1>2, <2>1 DEF CopiesAstray, ListAstray, StaleIsOwed
<1> QED  BY <1>1, <1>2 DEF StoreList

\* The requests whose step it is not owe what they owed.
LEMMA OwedStays ==
    ASSUME ListInv, NEW r \in Request, ServeStep(r) \/ EditStep(r), Owed,
           request[r].at # "refresh_list", request[r].at = "edited" => request'[r] # Idle
    PROVE  Owed'
<1>1. SessionTypeOK
  BY DEF ListInv, SessionInv
<1>2. Moved(r)
  BY <1>1, ServeMoves, EditMoves
<1>3. PICK q \in Request : Owes(request[q])
  BY DEF Owed
<1>4. CASE q = r
  BY <1>1, <1>3, <1>4, OwesStays DEF Owed
<1>5. CASE q # r
  BY <1>2, <1>3, <1>5, OthersOwe DEF Owed, Moved
<1> QED  BY <1>4, <1>5

\* Every step leaves the purge owed, or the list fresh.
LEMMA ListStep ==
    ASSUME ListInv, Next
    PROVE  StaleIsOwed' /\ ListAstray'
<1>a. SessionTypeOK /\ StaleIsOwed /\ ListAstray /\ JobsAtWork
  BY DEF ListInv, SessionInv
<1>1. ASSUME NEW r \in Request, BeginOther(r) \/ BeginEdit(r)
      PROVE  StaleIsOwed' /\ ListAstray'
  <2>1. Begin(r) /\ UNCHANGED listVars
    BY <1>1 DEF BeginOther, BeginEdit, directoryVars
  <2>2. request[r] = Idle /\ \A q \in Request \ {r} : request'[q] = request[q]
    BY <2>1, <1>a, BeginRecord DEF SessionTypeOK, RequestOK
  <2>3. Owed => Owed'
    BY <2>2 DEF Owed, Owes, Idle
  <2> QED  BY <2>1, <2>3, <1>a, ListStands DEF listVars
<1>2. ASSUME NEW r \in Request, Serve(r) PROVE StaleIsOwed' /\ ListAstray'
  <2>1. CASE IsAt(r, "refresh_list")
    BY <2>1, <1>2, PurgeStep DEF Serve
  <2>2. CASE ~IsAt(r, "refresh_list")
    <3>1. ServeStep(r) /\ UNCHANGED listVars
      BY <2>2, <1>2 DEF Serve, directoryVars
    <3>2. Owed => Owed'
      BY <2>2, <3>1, FlagStepAt, OwedStays DEF IsAt
    <3> QED  BY <3>1, <3>2, <1>a, ListStands DEF listVars
  <2> QED  BY <2>1, <2>2
<1>3. ASSUME NEW r \in Request, WriteUsers(r) PROVE StaleIsOwed' /\ ListAstray'
  <2>1. Owed'
    BY <1>3, WriterOwes DEF Owed
  <2> QED  BY <2>1, <1>3, <1>a, ListStands, AgesAreOwed DEF WriteUsers, listVars
<1>4. ASSUME NEW r \in Request, WriteTable(r) PROVE StaleIsOwed' /\ ListAstray'
  <2>1. Owed'
    BY <1>4, WriterOwes DEF Owed
  <2> QED  BY <2>1, <1>4, <1>a, AgesAreOwed DEF WriteTable
<1>5. ASSUME NEW r \in Request,
             StartEdit(r) \/ ResetPassword(r) \/ WriteFails(r) \/ LookupFails(r)
      PROVE  StaleIsOwed' /\ ListAstray'
  <2>1. EditStep(r) /\ UNCHANGED listVars
    BY <1>5 DEF StartEdit, ResetPassword, WriteFails, LookupFails, EditStep, directoryVars
  <2>2. CASE ResetPassword(r)
    <3>1. ~Owes(request[r])
      BY <2>2 DEF ResetPassword, EditAccount, FinishEdit, IsAt, Owes
    <3>2. Moved(r)
      BY <2>1, <1>a, EditMoves
    <3>3. Owed => Owed'
      BY <3>1, <3>2, OthersOwe DEF Owed, Moved
    <3> QED  BY <2>1, <3>3, <1>a, ListStands DEF listVars
  <2>3. CASE StartEdit(r) \/ WriteFails(r) \/ LookupFails(r)
    <3>1. /\ request[r].at # "refresh_list"
          /\ request[r].at = "edited" => request'[r] = request[r]
      BY <2>3 DEF StartEdit, WriteFails, LookupFails, EditFails, IsAt
    <3>2. request[r].at = "edited" => request'[r] # Idle
      BY <3>1 DEF Idle
    <3>3. Owed => Owed'
      BY <2>1, <3>1, <3>2, OwedStays
    <3> QED  BY <2>1, <3>3, <1>a, ListStands DEF listVars
  <2> QED  BY <1>5, <2>2, <2>3
<1>6. ASSUME NEW r \in Request, EndEdit(r) PROVE StaleIsOwed' /\ ListAstray'
  <2>1. /\ EditStep(r) /\ request[r].at = "edited" /\ UNCHANGED <<listed, copies, reader>>
        /\ astray' = (astray \/ job[r].refused)
        /\ job[r].refused <=> (request'[r] = Idle)
    BY <1>6 DEF EndEdit, EditStep, FinishEdit, IsAt
  <2>2. ~astray' /\ Owed => Owed'
    BY <2>1, OwedStays
  <2>3. astray => astray'
    BY <2>1
  <2> QED  BY <2>1, <2>2, <2>3, <1>a, ListStands
<1>7. ASSUME NEW r \in Request, CheckHq(r) PROVE StaleIsOwed' /\ ListAstray'
  BY <1>7, <1>a, ListStands DEF CheckHq, sessionVars, listVars, Owed
<1>8. CASE ReadList
  BY <1>8, <1>a
  DEF ReadList, sessionVars, StaleIsOwed, ListAstray, ReaderAstray, CopiesAstray, HasCopies,
      Copy, Owed
<1>9. CASE StoreList
  BY <1>9, StoreStep
<1>10. CASE ExpireList
  <2>1. CASE UNCHANGED copies
    BY <1>10, <2>1, <1>a, ListStands DEF ExpireList, sessionVars, Owed
  <2>2. ASSUME NEW p \in Process, copies' = [copies EXCEPT ![p] = "none"], UNCHANGED listed
        PROVE  StaleIsOwed' /\ ListAstray'
    <3>1. copies' \in [Process -> Copy] /\ (HasCopies' => HasCopies)
      BY <2>2, <1>a, CopyGoes DEF ListAstray, CopiesAstray
    <3> QED
      BY <3>1, <2>2, <1>10, <1>a
      DEF ExpireList, sessionVars, Owed, StaleIsOwed, ListAstray, ReaderAstray, CopiesAstray
  <2> QED  BY <2>1, <2>2, <1>10 DEF ExpireList
<1>11. CASE ExpireStep /\ UNCHANGED directoryVars
  <2>1. Owed => Owed'
    BY <1>11, <1>a, ExpireLeaves, OthersOwe DEF Owed
  <2> QED  BY <2>1, <1>11, <1>a, ListStands DEF directoryVars, listVars
<1> QED
  BY <1>1, <1>2, <1>3, <1>4, <1>5, <1>6, <1>7, <1>8, <1>9, <1>10, <1>11
  DEF Next, RequestStep, DirectoryStep

\* Every step leaves what remains of an edit to a request at work on it.
LEMMA JobsStep ==
    ASSUME ListInv, Next
    PROVE  JobsAreKept' /\ JobsAtWork'
<1>a. SessionTypeOK /\ JobsAreKept /\ JobsAtWork
  BY DEF ListInv, SessionInv
<1>1. CASE job' = job /\ \A r \in Request : job[r].todo # <<>> =>
              request'[r].kind = request[r].kind /\ request'[r].at = request[r].at
  BY <1>1, <1>a DEF JobsAreKept, JobsAtWork
<1>b. NoJob.todo = <<>>
  BY DEF NoJob
<1>2. ASSUME NEW r \in Request, BeginOther(r) PROVE JobsAreKept' /\ JobsAtWork'
  <2>1. request[r] = Idle /\ \A q \in Request \ {r} : request'[q] = request[q]
    BY <1>2, <1>a, BeginRecord DEF SessionTypeOK, RequestOK, BeginOther
  <2>2. job[r].todo = <<>>
    BY <2>1, <1>a DEF JobsAtWork, Idle
  <2> QED  BY <2>1, <2>2, <1>1, <1>2 DEF BeginOther, directoryVars
<1>3. ASSUME NEW r \in Request, BeginEdit(r) PROVE JobsAreKept' /\ JobsAtWork'
  <2>1. PICK p \in mix.payloads, alone \in BOOLEAN :
          /\ request'[r].kind = KindOf(p)
          /\ job' = [q \in Request |->
               IF q = r THEN [NoJob EXCEPT !.payload = p, !.todo = Groups(p),
                                           !.alone = alone,
                                           !.before = IF alone THEN Tables ELSE <<>>]
               ELSE IF Editing(q) THEN [job[q] EXCEPT !.alone = FALSE, !.before = <<>>]
               ELSE job[q]]
    BY <1>3 DEF BeginEdit
  <2>2. JobsAreKept'
    <3> DEFINE J(q) == IF q = r
                       THEN [NoJob EXCEPT !.payload = p, !.todo = Groups(p),
                                          !.alone = alone,
                                          !.before = IF alone THEN Tables ELSE <<>>]
                       ELSE IF Editing(q)
                       THEN [job[q] EXCEPT !.alone = FALSE, !.before = <<>>]
                       ELSE job[q]
    <3>1. job' = [q \in Request |-> J(q)]
      BY <2>1
    <3> HIDE DEF J
    <3> QED  BY <3>1 DEF JobsAreKept
  <2>3. \A q \in Request \ {r} : request'[q] = request[q]
    BY <1>3, <1>a, BeginRecord DEF SessionTypeOK, RequestOK, BeginEdit
  <2>4. request'[r].kind \in Administration \ {"reset"} /\ request'[r].at = "edit"
    <3>1. KindOf(p) \in Administration \ {"reset"}
      BY DEF KindOf, Administration
    <3>2. request'[r].at = Entry(request'[r].kind)
      BY <1>3, <1>a, BeginRecord DEF BeginEdit
    <3> QED  BY <2>1, <3>1, <3>2 DEF Entry, Administration
  <2>5. ASSUME NEW q \in Request \ {r}, job'[q].todo # <<>>
        PROVE  /\ request[q].kind \in Administration \ {"reset"}
               /\ request[q].at \in {"edit", "edited"}
    <3>1. CASE Editing(q)
      BY <3>1 DEF Editing
    <3>2. CASE ~Editing(q)
      BY <3>2, <2>1, <2>5, <1>a DEF JobsAtWork
    <3> QED  BY <3>1, <3>2
  <2> QED  BY <2>2, <2>3, <2>4, <2>5 DEF JobsAtWork
<1>4. ASSUME NEW r \in Request, Serve(r) PROVE JobsAreKept' /\ JobsAtWork'
  <2>1. ServeStep(r) /\ job' = job
    BY <1>4 DEF Serve, PurgeList, ServeStep, directoryVars
  <2>2. Moved(r) /\ job[r].todo = <<>>
    BY <2>1, <1>a, ServeMoves, FlagStepAt DEF JobsAtWork, IsAt
  <2> QED  BY <2>1, <2>2, <1>1 DEF Moved, Leaves, Same
\* An edit at work keeps its kind; whatever it has left to do is its own.
<1>c. ASSUME NEW r \in Request, Moved(r) \/ UNCHANGED request,
             job' = [q \in Request |-> job'[q]],
             \A q \in Request \ {r} : job'[q] = job[q],
             job'[r].todo = <<>> \/ ( request'[r].kind \in Administration \ {"reset"}
                                    /\ request'[r].at \in {"edit", "edited"})
      PROVE  JobsAreKept' /\ JobsAtWork'
  BY <1>c, <1>a DEF JobsAreKept, JobsAtWork, Moved, Leaves, Same
<1>5. ASSUME NEW r \in Request, WriteUsers(r) PROVE JobsAreKept' /\ JobsAtWork'
  <2>1. Moved(r)
    BY <1>5, <1>a, EditMoves DEF WriteUsers, EditStep
  <2>2. PICK j : job' = [job EXCEPT ![r] = j]
    BY <1>5 DEF WriteUsers
  <2>3. Owes(request'[r]) /\ EditAccount(r)
    BY <1>5, WriterOwes DEF WriteUsers
  <2>4. request'[r].at = "edited"
    BY <2>3, <1>a DEF EditAccount, SessionTypeOK, RequestOK, Work
  <2> QED  BY <2>1, <2>2, <2>3, <2>4, <1>a, <1>c DEF JobsAreKept, Owes
<1>6. ASSUME NEW r \in Request, WriteTable(r) \/ CheckHq(r)
      PROVE  JobsAreKept' /\ JobsAtWork'
  <2>1. PICK j : job' = [job EXCEPT ![r] = j]
    BY <1>6 DEF WriteTable, CheckHq
  <2>2. UNCHANGED request /\ request[r].kind \in Administration \ {"reset"}
          /\ request[r].at = "edited"
    BY <1>6 DEF WriteTable, CheckHq, Editing, IsAt, sessionVars
  <2> QED  BY <2>1, <2>2, <1>a, <1>c DEF JobsAreKept
<1>7. ASSUME NEW r \in Request, WriteFails(r) \/ LookupFails(r)
      PROVE  JobsAreKept' /\ JobsAtWork'
  <2>1. PICK j : job' = [job EXCEPT ![r] = j]
    BY <1>7 DEF WriteFails, LookupFails
  <2>2. UNCHANGED request /\ request[r].kind \in Administration \ {"reset"}
          /\ request[r].at = "edited"
    BY <1>7 DEF WriteFails, LookupFails, EditFails, Editing, IsAt
  <2> QED  BY <2>1, <2>2, <1>a, <1>c DEF JobsAreKept
<1>8. ASSUME NEW r \in Request, EndEdit(r) PROVE JobsAreKept' /\ JobsAtWork'
  <2>1. Moved(r) /\ job' = [job EXCEPT ![r] = NoJob]
    BY <1>8, <1>a, EditMoves DEF EndEdit, EditStep
  <2> QED  BY <2>1, <1>a, <1>b, <1>c DEF JobsAreKept
<1>9. ASSUME NEW r \in Request, StartEdit(r) PROVE JobsAreKept' /\ JobsAtWork'
  <2>1. EditAccount(r) /\ job' = job /\ request[r].kind \in Administration \ {"reset"}
    BY <1>9 DEF StartEdit, Editing, directoryVars
  <2>2. Moved(r) /\ request'[r].kind = request[r].kind /\ request'[r].at = "edited"
    BY <2>1, <1>a, EditMoves DEF EditStep, EditAccount, SessionTypeOK, RequestOK, Work
  <2> QED  BY <2>1, <2>2, <1>a, <1>c DEF JobsAreKept
<1>10. ASSUME NEW r \in Request, ResetPassword(r) PROVE JobsAreKept' /\ JobsAtWork'
  <2>1. Moved(r) /\ job' = job /\ job[r].todo = <<>>
    BY <1>10, <1>a, EditMoves DEF ResetPassword, EditStep, directoryVars, JobsAtWork
  <2> QED  BY <2>1, <1>a, <1>c DEF JobsAreKept
<1>11. CASE ReadList \/ StoreList \/ ExpireList
  BY <1>11, <1>1 DEF ReadList, StoreList, ExpireList, sessionVars
<1>12. CASE ExpireStep /\ UNCHANGED directoryVars
  BY <1>12, <1>1, <1>a, ExpireLeaves DEF directoryVars, Leaves, Same
<1> QED
  BY <1>2, <1>3, <1>4, <1>5, <1>6, <1>7, <1>8, <1>9, <1>10, <1>11, <1>12
  DEF Next, RequestStep, DirectoryStep

\* The invariant of the cached list, at first and after every step.
LEMMA ListInvInitially == Init => ListInv
<1> SUFFICES ASSUME Init PROVE ListInv
  OBVIOUS
<1>1. SessionInv
  BY InvInitially DEF Init
<1>2. NoJob.todo = <<>> /\ Idle.at = "idle"
  BY DEF NoJob, Idle
<1> QED
  BY <1>1, <1>2
  DEF Init, SessionInit, ListInv, EditsOnPath, JobsAreKept, JobsAtWork, StaleIsOwed,
      ListAstray, ReaderAstray, CopiesAstray, HasCopies, Copy

LEMMA ListInvStep == ListInv /\ [Next]_vars => ListInv'
<1> SUFFICES ASSUME ListInv, [Next]_vars PROVE ListInv'
  OBVIOUS
<1>1. CASE Next
  <2>1. [SessionNext]_sessionVars
    BY <1>1, DirectoryNext
  <2>2. SessionInv'
    BY <2>1, InvStep DEF ListInv
  <2>3. EditsOnPath'
    BY <2>1, EditsOnPathStep DEF ListInv, SessionInv, EditsOnPath, sessionVars
  <2> QED  BY <1>1, <2>2, <2>3, ListStep, JobsStep DEF ListInv
<1>2. CASE UNCHANGED vars
  <2>1. SessionInv'
    BY <1>2, InvStep DEF ListInv, vars
  <2> QED
    BY <1>2, <2>1
    DEF vars, sessionVars, directoryVars, listVars, ListInv, EditsOnPath, JobsAreKept,
        JobsAtWork, StaleIsOwed, ListAstray, ReaderAstray, CopiesAstray, HasCopies, Owed
<1> QED  BY <1>1, <1>2

\* The list of users that is cached for a day does not stay out of date, but for
\* the failures and overtaken reads that send it astray: whoever wrote to the
\* directory since purges it (refresh_users_list_cache).
THEOREM ListIsFreshCorrect == Spec => []ListIsFresh
<1>1. ListInv => ListIsFresh
  <2>1. Owed => \E r \in Request : request[r].kind \in Administration
    BY DEF Owed, Owes, Administration
  <2>2. (\E p \in Process : copies[p] = "stale") => HasCopies
    BY DEF HasCopies
  <2> QED
    BY <2>1, <2>2 DEF ListInv, StaleIsOwed, ListAstray, CopiesAstray, ListIsFresh
<1> QED  BY ListInvInitially, ListInvStep, <1>1, PTL DEF Spec

-----------------------------------------------------------------------------
(***************************************************************************)
(* What is left of an edit.  The writes of all edits come in one order,    *)
(* which the rank of a write tells; a list of groups spans the ranks above *)
(* `low' and up to `high'.                                                 *)
(***************************************************************************)
Rank(w) ==
    CASE w = "users"           -> 1
      [] w = "roles_status"    -> 2
      [] w = "managers_status" -> 3
      [] w = "hqs_status"      -> 4
      [] w = "roles_off"       -> 5
      [] w = "role_on"         -> 6
      [] w = "manager_off"     -> 7
      [] w = "manager_on"      -> 8
      [] w = "depot_off"       -> 9
      [] w = "depot_on"        -> 10
      [] w = "hq_check"        -> 11
      [] w = "hq_off"          -> 12
      [] w = "hq_on"           -> 13

\* The writes of a group, and those left of a list of groups.
WritesOf(g) == {g.writes[k] : k \in 1..Len(g.writes)}
Left(todo)  == UNION {WritesOf(todo[i]) : i \in 1..Len(todo)}

\* The groups and the writes in them come in the order of their ranks, and the
\* headquarters are chosen in the last group.
InOrder(g) ==
    /\ g.writes # <<>>
    /\ \A j, k \in 1..Len(g.writes) : j < k => Rank(g.writes[j]) < Rank(g.writes[k])

Sorted(todo) ==
    /\ todo \in Seq(Group)
    /\ \A i \in 1..Len(todo) : InOrder(todo[i])
    /\ \A i, j \in 1..Len(todo) : i < j =>
          \A v \in WritesOf(todo[i]), w \in WritesOf(todo[j]) : Rank(v) < Rank(w)
    /\ \A i \in 1..Len(todo) : "hq_check" \in WritesOf(todo[i]) => i = Len(todo)

Spans(todo, writes, low, high) ==
    /\ Sorted(todo) /\ Left(todo) = writes
    /\ \A w \in writes : low < Rank(w) /\ Rank(w) <= high

LEMMA RankIsNumber == \A w \in Write : Rank(w) \in Nat
BY DEF Rank, Write

LEMMA Ranks ==
    /\ "users" \in Write /\ Rank("users") = 1
    /\ "roles_status" \in Write /\ Rank("roles_status") = 2
    /\ "managers_status" \in Write /\ Rank("managers_status") = 3
    /\ "hqs_status" \in Write /\ Rank("hqs_status") = 4
    /\ "roles_off" \in Write /\ Rank("roles_off") = 5
    /\ "role_on" \in Write /\ Rank("role_on") = 6
    /\ "manager_off" \in Write /\ Rank("manager_off") = 7
    /\ "manager_on" \in Write /\ Rank("manager_on") = 8
    /\ "depot_off" \in Write /\ Rank("depot_off") = 9
    /\ "depot_on" \in Write /\ Rank("depot_on") = 10
    /\ "hq_check" \in Write /\ Rank("hq_check") = 11
    /\ "hq_off" \in Write /\ Rank("hq_off") = 12
    /\ "hq_on" \in Write /\ Rank("hq_on") = 13
BY DEF Rank, Write

LEMMA LeftIs ==
    ASSUME NEW todo, NEW w
    PROVE  w \in Left(todo) <=> \E i \in 1..Len(todo) : w \in WritesOf(todo[i])
BY DEF Left

LEMMA WritesAreWrites ==
    ASSUME NEW g \in Group PROVE WritesOf(g) \subseteq Write
BY DEF WritesOf, Group

LEMMA LeftAreWrites ==
    ASSUME NEW todo \in Seq(Group) PROVE Left(todo) \subseteq Write
<1> SUFFICES ASSUME NEW w \in Left(todo) PROVE w \in Write
  OBVIOUS
<1>1. PICK i \in 1..Len(todo) : w \in WritesOf(todo[i])
  BY LeftIs
<1>2. todo[i] \in Group
  OBVIOUS
<1> QED  BY <1>1, <1>2, WritesAreWrites

LEMMA NothingSpans ==
    ASSUME NEW low, NEW high PROVE Spans(<<>>, {}, low, high)
<1>1. Left(<<>>) = {}
  BY DEF Left
<1> QED  BY <1>1 DEF Spans, Sorted

\* One list after another.
LEMMA JoinedSpans ==
    ASSUME NEW s, NEW V, NEW t, NEW W, NEW low \in Nat, NEW mid \in Nat, NEW high \in Nat,
           low <= mid, mid <= high, mid <= 10,
           Spans(s, V, low, mid), Spans(t, W, mid, high)
    PROVE  Spans(s \o t, V \cup W, low, high)
<1>a. s \in Seq(Group) /\ t \in Seq(Group)
  BY DEF Spans, Sorted
<1> DEFINE u == s \o t
<1>1. /\ u \in Seq(Group) /\ Len(u) = Len(s) + Len(t)
      /\ Len(s) \in Nat /\ Len(t) \in Nat
      /\ \A i \in 1..Len(s) : u[i] = s[i]
      /\ \A i \in 1..Len(t) : u[Len(s) + i] = t[i]
  BY <1>a
<1>2. \A i \in 1..Len(u) : i \in 1..Len(s) \/ (i - Len(s)) \in 1..Len(t)
  BY <1>1
<1>3. \A i \in 1..Len(u) : i \notin 1..Len(s) => u[i] = t[i - Len(s)]
  <2> SUFFICES ASSUME NEW i \in 1..Len(u), i \notin 1..Len(s) PROVE u[i] = t[i - Len(s)]
    OBVIOUS
  <2>1. i - Len(s) \in 1..Len(t) /\ Len(s) + (i - Len(s)) = i
    BY <1>1
  <2> QED  BY <2>1, <1>1
<1> HIDE DEF u
<1>4. Left(u) = V \cup W
  <2>1. ASSUME NEW w \in Left(u) PROVE w \in V \cup W
    <3>1. PICK i \in 1..Len(u) : w \in WritesOf(u[i])
      BY LeftIs
    <3>2. CASE i \in 1..Len(s)
      BY <3>1, <3>2, <1>1, LeftIs DEF Spans
    <3>3. CASE i \notin 1..Len(s)
      BY <3>1, <3>3, <1>2, <1>3, LeftIs DEF Spans
    <3> QED  BY <3>2, <3>3
  <2>2. ASSUME NEW w \in V PROVE w \in Left(u)
    <3>1. PICK i \in 1..Len(s) : w \in WritesOf(s[i])
      BY LeftIs DEF Spans
    <3>2. i \in 1..Len(u) /\ u[i] = s[i]
      BY <1>1
    <3> QED  BY <3>1, <3>2, LeftIs
  <2>3. ASSUME NEW w \in W PROVE w \in Left(u)
    <3>1. PICK i \in 1..Len(t) : w \in WritesOf(t[i])
      BY LeftIs DEF Spans
    <3>2. Len(s) + i \in 1..Len(u) /\ u[Len(s) + i] = t[i]
      BY <1>1
    <3> QED  BY <3>1, <3>2, LeftIs
  <2> QED  BY <2>1, <2>2, <2>3
<1>5. V \subseteq Write /\ W \subseteq Write
  BY <1>a, LeftAreWrites DEF Spans
<1>6. Sorted(u)
  <2>1. \A i \in 1..Len(u) : InOrder(u[i])
    BY <1>1, <1>2, <1>3 DEF Spans, Sorted
  <2>2. ASSUME NEW i \in 1..Len(u), NEW j \in 1..Len(u), i < j,
               NEW v \in WritesOf(u[i]), NEW w \in WritesOf(u[j])
        PROVE  Rank(v) < Rank(w)
    <3>1. CASE j \in 1..Len(s)
      <4>1. i \in 1..Len(s)
        BY <3>1, <2>2
      <4> QED  BY <3>1, <4>1, <2>2, <1>1 DEF Spans, Sorted
    <3>2. CASE i \in 1..Len(s) /\ j \notin 1..Len(s)
      <4>1. v \in V
        BY <3>2, <2>2, <1>1, LeftIs DEF Spans
      <4>2. w \in W
        BY <3>2, <2>2, <1>2, <1>3, LeftIs DEF Spans
      <4>3. Rank(v) <= mid /\ mid < Rank(w)
        BY <4>1, <4>2 DEF Spans
      <4> QED  BY <4>1, <4>2, <4>3, <1>5, RankIsNumber
    <3>3. CASE i \notin 1..Len(s)
      <4>1. j \notin 1..Len(s)
        BY <3>3, <2>2, <1>1
      <4>2. i - Len(s) \in 1..Len(t) /\ j - Len(s) \in 1..Len(t) /\ i - Len(s) < j - Len(s)
        BY <3>3, <4>1, <2>2, <1>1, <1>2
      <4>3. v \in WritesOf(t[i - Len(s)]) /\ w \in WritesOf(t[j - Len(s)])
        BY <3>3, <4>1, <2>2, <1>3
      <4> QED  BY <4>2, <4>3 DEF Spans, Sorted
    <3> QED  BY <3>1, <3>2, <3>3
  <2>3. ASSUME NEW i \in 1..Len(u), "hq_check" \in WritesOf(u[i]) PROVE i = Len(u)
    <3>1. i \notin 1..Len(s)
      <4>1. ASSUME i \in 1..Len(s) PROVE FALSE
        <5>1. "hq_check" \in V
          BY <4>1, <2>3, <1>1, LeftIs DEF Spans
        <5> QED  BY <5>1, Ranks DEF Spans
      <4> QED  BY <4>1
    <3>2. i - Len(s) \in 1..Len(t) /\ "hq_check" \in WritesOf(t[i - Len(s)])
      BY <3>1, <2>3, <1>2, <1>3
    <3>3. i - Len(s) = Len(t)
      BY <3>2 DEF Spans, Sorted
    <3> QED  BY <3>3, <1>1
  <2> QED  BY <2>1, <2>2, <2>3, <1>1 DEF Sorted
<1>7. \A w \in V \cup W : low < Rank(w) /\ Rank(w) <= high
  BY <1>5, RankIsNumber DEF Spans
<1> QED  BY <1>4, <1>6, <1>7 DEF Spans, u

\* A group of one write, of two and of three.
LEMMA GroupSpans ==
    ASSUME NEW fatal \in BOOLEAN, NEW low \in Nat, NEW high \in Nat,
           NEW writes \in Seq(Write), writes # <<>>,
           \A j, k \in 1..Len(writes) : j < k => Rank(writes[j]) < Rank(writes[k]),
           \A j \in 1..Len(writes) : low < Rank(writes[j]) /\ Rank(writes[j]) <= high
    PROVE  Spans(<<[fatal |-> fatal, writes |-> writes]>>,
                 {writes[k] : k \in 1..Len(writes)}, low, high)
<1> DEFINE g == [fatal |-> fatal, writes |-> writes]
           u == <<g>>
<1>1. g \in Group /\ g.writes = writes
  BY DEF Group
<1>2. u \in Seq(Group) /\ Len(u) = 1 /\ u[1] = g
  BY <1>1
<1> HIDE DEF u, g
<1>3. InOrder(g) /\ WritesOf(g) = {writes[k] : k \in 1..Len(writes)}
  BY <1>1 DEF InOrder, WritesOf
<1>4. Sorted(u)
  BY <1>2, <1>3 DEF Sorted
<1>5. Left(u) = WritesOf(g)
  BY <1>2 DEF Left
<1> QED  BY <1>3, <1>4, <1>5 DEF Spans, u, g

LEMMA OneSpans ==
    ASSUME NEW low \in Nat, NEW high \in Nat, NEW v \in Write,
           low < Rank(v), Rank(v) <= high
    PROVE  /\ Spans(Tolerant(<<v>>), {v}, low, high)
           /\ Spans(Fatal(<<v>>), {v}, low, high)
<1> DEFINE s == <<v>>
<1>1. s \in Seq(Write) /\ s # <<>> /\ Len(s) = 1 /\ s[1] = v
  OBVIOUS
<1>2. s = <<v>>
  OBVIOUS
<1> HIDE DEF s
<1>3. {s[k] : k \in 1..Len(s)} = {v}
  BY <1>1
<1>4. Rank(v) \in Nat
  BY RankIsNumber
<1>5. \A j, k \in 1..Len(s) : j < k => Rank(s[j]) < Rank(s[k])
  BY <1>1, <1>4
<1>6. \A j \in 1..Len(s) : low < Rank(s[j]) /\ Rank(s[j]) <= high
  BY <1>1, <1>4
<1>7. ASSUME NEW fatal \in BOOLEAN
      PROVE  Spans(<<[fatal |-> fatal, writes |-> s]>>, {v}, low, high)
  BY <1>1, <1>3, <1>5, <1>6, GroupSpans
<1> QED  BY <1>2, <1>7 DEF Tolerant, Fatal

LEMMA TwoSpan ==
    ASSUME NEW low \in Nat, NEW high \in Nat, NEW v \in Write, NEW w \in Write,
           low < Rank(v), Rank(v) < Rank(w), Rank(w) <= high
    PROVE  /\ Spans(Tolerant(<<v, w>>), {v, w}, low, high)
           /\ Spans(Fatal(<<v, w>>), {v, w}, low, high)
<1> DEFINE s == <<v, w>>
<1>1. s \in Seq(Write) /\ s # <<>> /\ Len(s) = 2 /\ s[1] = v /\ s[2] = w
  OBVIOUS
<1>2. s = <<v, w>>
  OBVIOUS
<1> HIDE DEF s
<1>3. {s[k] : k \in 1..Len(s)} = {v, w}
  BY <1>1
<1>4. Rank(v) \in Nat /\ Rank(w) \in Nat
  BY RankIsNumber
<1>5. \A j, k \in 1..Len(s) : j < k => Rank(s[j]) < Rank(s[k])
  BY <1>1, <1>4
<1>6. \A j \in 1..Len(s) : low < Rank(s[j]) /\ Rank(s[j]) <= high
  BY <1>1, <1>4
<1>7. ASSUME NEW fatal \in BOOLEAN
      PROVE  Spans(<<[fatal |-> fatal, writes |-> s]>>, {v, w}, low, high)
  BY <1>1, <1>3, <1>5, <1>6, GroupSpans
<1> QED  BY <1>2, <1>7 DEF Tolerant, Fatal

LEMMA ThreeSpan ==
    ASSUME NEW low \in Nat, NEW high \in Nat, NEW v \in Write, NEW w \in Write, NEW x \in Write,
           low < Rank(v), Rank(v) < Rank(w), Rank(w) < Rank(x), Rank(x) <= high
    PROVE  /\ Spans(Tolerant(<<v, w, x>>), {v, w, x}, low, high)
           /\ Spans(Fatal(<<v, w, x>>), {v, w, x}, low, high)
<1> DEFINE s == <<v, w, x>>
<1>1. s \in Seq(Write) /\ s # <<>> /\ Len(s) = 3 /\ s[1] = v /\ s[2] = w /\ s[3] = x
  OBVIOUS
<1>2. s = <<v, w, x>>
  OBVIOUS
<1> HIDE DEF s
<1>3. {s[k] : k \in 1..Len(s)} = {v, w, x}
  BY <1>1
<1>4. Rank(v) \in Nat /\ Rank(w) \in Nat /\ Rank(x) \in Nat
  BY RankIsNumber
<1>5. \A j, k \in 1..Len(s) : j < k => Rank(s[j]) < Rank(s[k])
  BY <1>1, <1>4
<1>6. \A j \in 1..Len(s) : low < Rank(s[j]) /\ Rank(s[j]) <= high
  BY <1>1, <1>4
<1>7. ASSUME NEW fatal \in BOOLEAN
      PROVE  Spans(<<[fatal |-> fatal, writes |-> s]>>, {v, w, x}, low, high)
  BY <1>1, <1>3, <1>5, <1>6, GroupSpans
<1> QED  BY <1>2, <1>7 DEF Tolerant, Fatal

LEMMA NamesDiffer ==
    /\ Keep # Clear /\ Keep # Unknown /\ Clear # Unknown
    /\ Keep \notin Manager /\ Clear \notin Manager /\ Unknown \notin Manager
    /\ Keep \notin Depot /\ Clear \notin Depot /\ Unknown \notin Depot
    /\ Keep \notin Role /\ Unknown \notin Role /\ Unknown \notin Hq
BY DirectoryAssumption DEF Keep, Clear, Unknown

(***************************************************************************)
(* What an edit writes, table by table.                                    *)
(***************************************************************************)
StatusWrites(p) ==
    IF StatusOf(p) = Keep THEN {} ELSE {"roles_status", "managers_status", "hqs_status"}
RoleWrites(p) == IF p.role \in Role THEN {"roles_off", "role_on"} ELSE {}

\* The update leaves the user with no manager.
Clears(p) == p.manager = Clear \/ (p.manager = Unknown /\ p.op = "update")
ManagerWrites(p) ==
    CASE p.manager \in Manager -> {"manager_off", "manager_on"}
      [] Clears(p)             -> {"manager_off"}
      [] OTHER                 -> {}
DepotWrites(p) ==
    CASE p.depot \in Depot -> {"depot_off", "depot_on"}
      [] p.depot = Clear   -> {"depot_off"}
      [] OTHER             -> {}
ListWrites(p) ==
    IF ~p.hqGiven \/ (p.op = "create" /\ p.hq = <<>>) THEN {}
    ELSE {"hq_check", "hq_off"} \cup (IF p.hq = <<>> THEN {} ELSE {"hq_on"})

Planned(p) ==
    (IF p.op = "headquarters" THEN {} ELSE {"users"})
        \cup StatusWrites(p) \cup RoleWrites(p) \cup ManagerWrites(p)
        \cup DepotWrites(p) \cup ListWrites(p)

\* The parts of the plan: each spans the ranks of its table.
LEMMA StatusSpans == Spans(StatusGroups, {"roles_status", "managers_status", "hqs_status"}, 1, 4)
<1>1. Spans(Tolerant(<<"roles_status">>), {"roles_status"}, 1, 2)
  BY OneSpans, Ranks
<1>2. Spans(Tolerant(<<"managers_status">>), {"managers_status"}, 2, 3)
  BY OneSpans, Ranks
<1>3. Spans(Tolerant(<<"hqs_status">>), {"hqs_status"}, 3, 4)
  BY OneSpans, Ranks
<1>4. Spans(Tolerant(<<"roles_status">>) \o Tolerant(<<"managers_status">>),
            {"roles_status"} \cup {"managers_status"}, 1, 3)
  BY <1>1, <1>2, JoinedSpans
<1>5. Spans(StatusGroups, {"roles_status"} \cup {"managers_status"} \cup {"hqs_status"}, 1, 4)
  BY <1>3, <1>4, JoinedSpans DEF StatusGroups
<1> QED  BY <1>5

LEMMA UsersSpan == Spans(Fatal(<<"users">>), {"users"}, 0, 1) /\ Spans(Tolerant(<<"users">>), {"users"}, 0, 1)
BY OneSpans, Ranks

LEMMA RoleSpans ==
    ASSUME NEW g, g \in {Fatal(<<"role_on">>), Tolerant(<<"role_on">>)}
    PROVE  Spans(Tolerant(<<"roles_off">>) \o g, {"roles_off", "role_on"}, 4, 6)
<1>1. Spans(Tolerant(<<"roles_off">>), {"roles_off"}, 4, 5)
  BY OneSpans, Ranks
<1>2. Spans(Fatal(<<"role_on">>), {"role_on"}, 5, 6)
  BY OneSpans, Ranks
<1>3. Spans(Tolerant(<<"role_on">>), {"role_on"}, 5, 6)
  BY OneSpans, Ranks
<1>4. Spans(Tolerant(<<"roles_off">>) \o g, {"roles_off"} \cup {"role_on"}, 4, 6)
  BY <1>1, <1>2, <1>3, JoinedSpans
<1> QED  BY <1>4

LEMMA ManagerSpans ==
    /\ Spans(Tolerant(<<"manager_off", "manager_on">>), {"manager_off", "manager_on"}, 6, 8)
    /\ Spans(Tolerant(<<"manager_off">>), {"manager_off"}, 6, 8)
<1>1. Spans(Tolerant(<<"manager_off", "manager_on">>), {"manager_off", "manager_on"}, 6, 8)
  BY TwoSpan, Ranks
<1>2. Spans(Tolerant(<<"manager_off">>), {"manager_off"}, 6, 8)
  BY OneSpans, Ranks
<1> QED  BY <1>1, <1>2

LEMMA DepotSpans ==
    ASSUME NEW p, PayloadOK(p)
    PROVE  Spans(DepotGroups(p), DepotWrites(p), 8, 10)
<1>1. Spans(Tolerant(<<"depot_off", "depot_on">>), {"depot_off", "depot_on"}, 8, 10)
  BY TwoSpan, Ranks
<1>2. Spans(Fatal(<<"depot_off">>), {"depot_off"}, 8, 10)
  BY OneSpans, Ranks
<1>3. CASE p.depot \in {Keep, Unknown}
  <2>1. DepotWrites(p) = {} /\ DepotGroups(p) = <<>>
    BY <1>3, NamesDiffer DEF DepotGroups, DepotWrites
  <2> QED  BY <2>1, NothingSpans
<1>4. CASE p.depot = Clear
  <2>1. DepotWrites(p) = {"depot_off"} /\ DepotGroups(p) = Fatal(<<"depot_off">>)
    BY <1>4, NamesDiffer DEF DepotGroups, DepotWrites
  <2> QED  BY <2>1, <1>2
<1>5. CASE p.depot \in Depot
  <2>1. /\ DepotWrites(p) = {"depot_off", "depot_on"}
        /\ DepotGroups(p) = Tolerant(<<"depot_off", "depot_on">>)
    BY <1>5, NamesDiffer DEF DepotGroups, DepotWrites
  <2> QED  BY <2>1, <1>1
<1> QED  BY <1>3, <1>4, <1>5 DEF PayloadOK

LEMMA HqSpans ==
    ASSUME NEW list, NEW g, g \in {Fatal(HqWrites(list)), Tolerant(HqWrites(list))}
    PROVE  Spans(g, {"hq_check", "hq_off"} \cup (IF list = <<>> THEN {} ELSE {"hq_on"}), 10, 13)
<1>1. CASE list = <<>>
  <2>1. HqWrites(list) = <<"hq_check", "hq_off">>
    BY <1>1 DEF HqWrites
  <2>2. Spans(g, {"hq_check", "hq_off"}, 10, 13)
    BY <2>1, TwoSpan, Ranks
  <2> QED  BY <1>1, <2>2
<1>2. CASE list # <<>>
  <2>1. HqWrites(list) = <<"hq_check", "hq_off", "hq_on">>
    BY <1>2 DEF HqWrites
  <2>2. Spans(g, {"hq_check", "hq_off", "hq_on"}, 10, 13)
    BY <2>1, ThreeSpan, Ranks
  <2>3. {"hq_check", "hq_off"} \cup {"hq_on"} = {"hq_check", "hq_off", "hq_on"}
    OBVIOUS
  <2> QED  BY <1>2, <2>2, <2>3
<1> QED  BY <1>1, <1>2

LEMMA CreateSpans ==
    ASSUME NEW p, PayloadOK(p), p.op = "create"
    PROVE  Spans(CreateGroups(p), Planned(p), 0, 13)
<1> USE DEF When
<1>a. StatusWrites(p) = {}
  BY DEF PayloadOK, StatusWrites, StatusOf
<1> DEFINE A == Fatal(<<"users">>)
           R == When(p.role \in Role, Tolerant(<<"roles_off">>) \o Tolerant(<<"role_on">>))
           M == When(p.manager \in Manager, Tolerant(<<"manager_off", "manager_on">>))
           D == When(p.depot \in Depot, DepotGroups(p))
           H == When(p.hqGiven /\ p.hq # <<>>, Tolerant(HqWrites(p.hq)))
<1>0. Spans(R, RoleWrites(p), 4, 6)
  BY RoleSpans, NothingSpans DEF RoleWrites
<1>1. Spans(M, ManagerWrites(p), 6, 8)
  <2>1. CASE p.manager \in Manager
    <3>1. ManagerWrites(p) = {"manager_off", "manager_on"}
      BY <2>1, NamesDiffer DEF ManagerWrites, Clears
    <3> QED  BY <3>1, <2>1, ManagerSpans
  <2>2. CASE p.manager \notin Manager
    <3>1. ManagerWrites(p) = {}
      BY <2>2, NamesDiffer DEF ManagerWrites, Clears, PayloadOK
    <3> QED  BY <3>1, <2>2, NothingSpans
  <2> QED  BY <2>1, <2>2
<1>2. Spans(D, DepotWrites(p), 8, 10)
  <2>2. CASE p.depot \notin Depot
    <3>1. DepotWrites(p) = {}
      BY <2>2 DEF DepotWrites, PayloadOK
    <3> QED  BY <3>1, <2>2, NothingSpans
  <2> QED  BY <2>2, DepotSpans
<1>3. Spans(H, ListWrites(p), 10, 13)
  <2>1. CASE p.hqGiven /\ p.hq # <<>>
    BY <2>1, HqSpans DEF ListWrites
  <2>2. CASE ~(p.hqGiven /\ p.hq # <<>>)
    <3>1. ListWrites(p) = {}
      BY <2>2 DEF ListWrites
    <3> QED  BY <3>1, <2>2, NothingSpans
  <2> QED  BY <2>1, <2>2
<1>b. CreateGroups(p) = (((A \o R) \o M) \o D) \o H
  BY DEF CreateGroups
<1>c. Spans(A, {"users"}, 0, 4)
  BY OneSpans, Ranks
<1> HIDE DEF A, R, M, D, H
<1>4. Spans(A \o R, {"users"} \cup RoleWrites(p), 0, 6)
  BY <1>c, <1>0, JoinedSpans
<1>6. Spans((A \o R) \o M, {"users"} \cup RoleWrites(p) \cup ManagerWrites(p), 0, 8)
  BY <1>1, <1>4, JoinedSpans
<1>7. Spans(((A \o R) \o M) \o D,
            {"users"} \cup RoleWrites(p) \cup ManagerWrites(p) \cup DepotWrites(p), 0, 10)
  BY <1>2, <1>6, JoinedSpans
<1>8. Spans((((A \o R) \o M) \o D) \o H,
            {"users"} \cup RoleWrites(p) \cup ManagerWrites(p) \cup DepotWrites(p)
                \cup ListWrites(p), 0, 13)
  BY <1>3, <1>7, JoinedSpans
<1>9. Planned(p) = {"users"} \cup RoleWrites(p) \cup ManagerWrites(p) \cup DepotWrites(p)
                       \cup ListWrites(p)
  BY <1>a DEF Planned
<1> QED  BY <1>b, <1>8, <1>9

LEMMA UpdateSpans ==
    ASSUME NEW p, PayloadOK(p), p.op = "update"
    PROVE  Spans(UpdateGroups(p), Planned(p), 0, 13)
<1> USE DEF When
<1> DEFINE A == Fatal(<<"users">>)
           S == When(p.status # Keep, StatusGroups)
           R == When(p.role \in Role, Tolerant(<<"roles_off">>) \o Fatal(<<"role_on">>))
           M == When(p.manager \in Manager, Tolerant(<<"manager_off", "manager_on">>))
           C == When(p.manager \in {Clear, Unknown}, Tolerant(<<"manager_off">>))
           D == DepotGroups(p)
           H == When(p.hqGiven, Fatal(HqWrites(p.hq)))
<1>1. Spans(A, {"users"}, 0, 1)
  BY UsersSpan
<1>2. Spans(S, StatusWrites(p), 1, 4)
  <2>1. CASE p.status = Keep
    <3>1. S = <<>> /\ StatusWrites(p) = {}
      BY <2>1 DEF StatusWrites, StatusOf
    <3> QED  BY <3>1, NothingSpans
  <2>2. CASE p.status # Keep
    <3>1. S = StatusGroups
          /\ StatusWrites(p) = {"roles_status", "managers_status", "hqs_status"}
      BY <2>2 DEF PayloadOK, StatusWrites, StatusOf, Truth, Keep
    <3> QED  BY <3>1, StatusSpans
  <2> QED  BY <2>1, <2>2
<1>3. Spans(R, RoleWrites(p), 4, 6)
  BY RoleSpans, NothingSpans DEF RoleWrites
<1> DEFINE mid == IF p.manager \in Manager THEN 8 ELSE 6
<1>4. /\ Spans(M, IF p.manager \in Manager THEN ManagerWrites(p) ELSE {}, 6, mid)
      /\ Spans(C, IF Clears(p) THEN ManagerWrites(p) ELSE {}, mid, 8)
  <2>0. Clears(p) <=> p.manager \in {Clear, Unknown}
    BY DEF Clears
  <2>1. CASE p.manager \in Manager
    <3>1. ~Clears(p)
      BY <2>1, <2>0, NamesDiffer
    <3>2. ManagerWrites(p) = {"manager_off", "manager_on"} /\ C = <<>>
      BY <2>1, <2>0, <3>1 DEF ManagerWrites
    <3> QED  BY <3>1, <3>2, <2>1, ManagerSpans, NothingSpans
  <2>2. CASE Clears(p)
    <3>1. p.manager \notin Manager
      BY <2>0, <2>2, NamesDiffer
    <3>2. ManagerWrites(p) = {"manager_off"} /\ M = <<>> /\ C = Tolerant(<<"manager_off">>)
      BY <3>1, <2>0, <2>2 DEF ManagerWrites
    <3> QED  BY <3>1, <3>2, <2>2, ManagerSpans, NothingSpans
  <2>3. CASE p.manager \notin Manager /\ ~Clears(p)
    <3>1. M = <<>> /\ C = <<>>
      BY <2>0, <2>3
    <3> QED  BY <3>1, <2>3, NothingSpans
  <2> QED  BY <2>1, <2>2, <2>3
<1>5. ManagerWrites(p) = (IF p.manager \in Manager THEN ManagerWrites(p) ELSE {})
                            \cup (IF Clears(p) THEN ManagerWrites(p) ELSE {})
  <2>1. p.manager \in Manager \/ Clears(p) \/ ManagerWrites(p) = {}
    BY DEF ManagerWrites
  <2> QED  BY <2>1
<1>6. Spans(D, DepotWrites(p), 8, 10)
  BY DepotSpans
<1>7. Spans(H, ListWrites(p), 10, 13)
  <2>1. CASE p.hqGiven
    BY <2>1, HqSpans DEF ListWrites
  <2>2. CASE ~p.hqGiven
    <3>1. H = <<>> /\ ListWrites(p) = {}
      BY <2>2 DEF ListWrites
    <3> QED  BY <3>1, NothingSpans
  <2> QED  BY <2>1, <2>2
<1>b. UpdateGroups(p) = (((((A \o S) \o R) \o M) \o C) \o D) \o H
  BY DEF UpdateGroups
<1>c. mid \in Nat /\ 6 <= mid /\ mid <= 8
  OBVIOUS
<1> DEFINE MW == IF p.manager \in Manager THEN ManagerWrites(p) ELSE {}
           CW == IF Clears(p) THEN ManagerWrites(p) ELSE {}
           first == ({"users"} \cup StatusWrites(p)) \cup RoleWrites(p)
<1> HIDE DEF A, S, R, M, C, D, H, mid, MW, CW
<1>8. Spans(A \o S, {"users"} \cup StatusWrites(p), 0, 4)
  BY <1>1, <1>2, JoinedSpans
<1>9. Spans((A \o S) \o R, first, 0, 6)
  BY <1>3, <1>8, JoinedSpans
<1> HIDE DEF first
<1>10. Spans(((A \o S) \o R) \o M, first \cup MW, 0, mid)
  BY <1>4, <1>9, <1>c, JoinedSpans DEF MW
<1>11. Spans((((A \o S) \o R) \o M) \o C, (first \cup MW) \cup CW, 0, 8)
  BY <1>4, <1>10, <1>c, JoinedSpans DEF CW
<1>12. Spans(((((A \o S) \o R) \o M) \o C) \o D,
             ((first \cup MW) \cup CW) \cup DepotWrites(p), 0, 10)
  BY <1>6, <1>11, JoinedSpans
<1>13. Spans((((((A \o S) \o R) \o M) \o C) \o D) \o H,
             (((first \cup MW) \cup CW) \cup DepotWrites(p)) \cup ListWrites(p), 0, 13)
  BY <1>7, <1>12, JoinedSpans
<1>14. (((first \cup MW) \cup CW) \cup DepotWrites(p)) \cup ListWrites(p) = Planned(p)
  BY <1>5 DEF Planned, first, MW, CW
<1> QED  BY <1>b, <1>13, <1>14

\* The plan of every edit is in order, and writes what it should.
LEMMA PlanSpans ==
    ASSUME NEW p, PayloadOK(p)
    PROVE  Spans(Groups(p), Planned(p), 0, 13)
<1>1. CASE p.op = "create"
  BY <1>1, CreateSpans DEF Groups
<1>2. CASE p.op = "update"
  BY <1>2, UpdateSpans DEF Groups
<1>3. CASE p.op = "delete"
  <2>1. Groups(p) = Tolerant(<<"users">>) \o StatusGroups
    BY <1>3 DEF Groups, DeleteGroups
  <2>2. Spans(Groups(p), {"users"} \cup {"roles_status", "managers_status", "hqs_status"}, 0, 4)
    BY <2>1, UsersSpan, StatusSpans, JoinedSpans
  <2>3. Planned(p) = {"users"} \cup {"roles_status", "managers_status", "hqs_status"}
    <3>1. p.role = Keep /\ p.manager = Keep /\ p.depot = Keep /\ ~p.hqGiven
      BY <1>3 DEF PayloadOK
    <3>2. StatusOf(p) # Keep
      BY <1>3 DEF StatusOf, Keep
    <3>3. /\ RoleWrites(p) = {} /\ ManagerWrites(p) = {} /\ DepotWrites(p) = {}
          /\ ListWrites(p) = {}
      BY <3>1, NamesDiffer DEF RoleWrites, ManagerWrites, Clears, DepotWrites, ListWrites
    <3> QED  BY <1>3, <3>2, <3>3 DEF Planned, StatusWrites
  <2>4. Planned(p) \subseteq Write
    BY <2>3, Ranks
  <2> QED  BY <2>2, <2>3, <2>4, RankIsNumber DEF Spans
<1>4. CASE p.op = "headquarters"
  <2>1. Groups(p) = Fatal(HqWrites(p.hq))
    BY <1>4 DEF Groups, HeadquartersGroups
  <2>2. Planned(p) = {"hq_check", "hq_off"} \cup (IF p.hq = <<>> THEN {} ELSE {"hq_on"})
    BY <1>4, NamesDiffer
    DEF PayloadOK, Planned, StatusWrites, StatusOf, RoleWrites, ManagerWrites, Clears,
        DepotWrites, ListWrites, Keep
  <2>3. Spans(Groups(p), Planned(p), 10, 13)
    BY <2>1, <2>2, HqSpans
  <2>4. Planned(p) \subseteq Write
    BY <2>2, Ranks
  <2> QED  BY <2>3, <2>4, RankIsNumber DEF Spans
<1> QED  BY <1>1, <1>2, <1>3, <1>4 DEF PayloadOK, Operation

\* The next write is the first in order, and what is left after it is in order.
LEMMA RestIs ==
    ASSUME NEW todo, Sorted(todo), todo # <<>>
    PROVE  LET w == Head(Head(todo).writes)
           IN  /\ w \in Left(todo) /\ w \in Write
               /\ Sorted(Rest(todo)) /\ Left(Rest(todo)) = Left(todo) \ {w}
               /\ \A v \in Left(Rest(todo)) : Rank(w) < Rank(v)
<1> DEFINE g == Head(todo)
           w == Head(g.writes)
           h == [g EXCEPT !.writes = Tail(@)]
           u == Rest(todo)
<1>1. /\ todo \in Seq(Group) /\ Len(todo) \in Nat /\ Len(todo) >= 1 /\ g = todo[1]
      /\ Tail(todo) \in Seq(Group) /\ Len(Tail(todo)) = Len(todo) - 1
      /\ \A i \in 1..(Len(todo) - 1) : Tail(todo)[i] = todo[i + 1]
  BY DEF Sorted
<1>s. /\ \A i \in 1..Len(todo) : InOrder(todo[i])
      /\ \A i, j \in 1..Len(todo) : i < j =>
            \A v \in WritesOf(todo[i]), x \in WritesOf(todo[j]) : Rank(v) < Rank(x)
      /\ \A i \in 1..Len(todo) : "hq_check" \in WritesOf(todo[i]) => i = Len(todo)
  BY Zenon DEF Sorted
<1>t. 1 \in 1..Len(todo) /\ \A i \in 1..Len(todo) : i # 1 => 1 < i
  BY <1>1
<1>2. g \in Group /\ InOrder(g)
  <2>1. todo[1] \in Group
    BY <1>1, <1>t
  <2>2. InOrder(todo[1])
    BY <1>s, <1>t
  <2> QED  BY <1>1, <2>1, <2>2
<1>3. /\ g.writes \in Seq(Write) /\ Len(g.writes) \in Nat /\ Len(g.writes) >= 1
      /\ w = g.writes[1]
      /\ Tail(g.writes) \in Seq(Write) /\ Len(Tail(g.writes)) = Len(g.writes) - 1
      /\ \A k \in 1..(Len(g.writes) - 1) : Tail(g.writes)[k] = g.writes[k + 1]
  BY <1>2 DEF InOrder, Group
<1>4. w \in WritesOf(g) /\ w \in Write
  BY <1>3 DEF WritesOf
<1>5. w \in Left(todo)
  BY <1>1, <1>4, LeftIs
<1>6. \A k \in 1..Len(g.writes) : k # 1 => Rank(w) < Rank(g.writes[k])
  BY <1>2, <1>3 DEF InOrder
<1>7. \A i \in 1..Len(todo), v \in Write : i # 1 /\ v \in WritesOf(todo[i]) => Rank(w) < Rank(v)
  BY <1>1, <1>4, <1>s, <1>t
<1>8. \A v \in WritesOf(g) : v # w => Rank(w) < Rank(v)
  BY <1>3, <1>6 DEF WritesOf
<1>9. \A v \in Left(todo) : v # w => Rank(w) < Rank(v)
  <2> SUFFICES ASSUME NEW v \in Left(todo), v # w PROVE Rank(w) < Rank(v)
    OBVIOUS
  <2>1. PICK i \in 1..Len(todo) : v \in WritesOf(todo[i])
    BY LeftIs
  <2>2. v \in Write
    BY <1>1, LeftAreWrites
  <2> QED  BY <2>1, <2>2, <1>1, <1>7, <1>8
<1>10. CASE Len(g.writes) = 1
  <2>1. u = Tail(todo) /\ WritesOf(g) = {w}
    BY <1>10, <1>3 DEF Rest, WritesOf
  <2> HIDE DEF u, w, g
  <2>2. Left(u) = Left(todo) \ {w}
    <3>1. ASSUME NEW v \in Left(u) PROVE v \in Left(todo) \ {w}
      <4>1. PICK i \in 1..Len(u) : v \in WritesOf(u[i])
        BY LeftIs
      <4>2. i + 1 \in 1..Len(todo) /\ v \in WritesOf(todo[i + 1]) /\ i + 1 # 1
        BY <4>1, <2>1, <1>1
      <4>3. v \in Left(todo)
        BY <4>2, LeftIs
      <4>4. v \in Write
        BY <4>3, <1>1, LeftAreWrites
      <4>5. Rank(w) < Rank(v)
        BY <4>2, <4>4, <1>7
      <4> QED  BY <4>3, <4>4, <4>5, <1>4, RankIsNumber
    <3>2. ASSUME NEW v \in Left(todo), v # w PROVE v \in Left(u)
      <4>1. PICK i \in 1..Len(todo) : v \in WritesOf(todo[i])
        BY LeftIs
      <4>2. i # 1
        BY <4>1, <3>2, <2>1, <1>1
      <4>3. i - 1 \in 1..Len(u) /\ u[i - 1] = todo[i]
        BY <4>1, <4>2, <2>1, <1>1
      <4> QED  BY <4>1, <4>3, LeftIs
    <3> QED  BY <3>1, <3>2
  <2>3. Sorted(u)
    <3>1. \A i \in 1..Len(u) : i + 1 \in 1..Len(todo) /\ u[i] = todo[i + 1]
      BY <2>1, <1>1
    <3>2. \A i, j \in 1..Len(u) : i < j => i + 1 < j + 1
      BY <2>1, <1>1
    <3>3. \A i \in 1..Len(u) : InOrder(u[i])
      BY <3>1, <1>s
    <3>4. \A i, j \in 1..Len(u) : i < j =>
              \A v \in WritesOf(u[i]), x \in WritesOf(u[j]) : Rank(v) < Rank(x)
      BY <3>1, <3>2, <1>s
    <3>5. \A i \in 1..Len(u) : "hq_check" \in WritesOf(u[i]) => i = Len(u)
      <4> SUFFICES ASSUME NEW i \in 1..Len(u), "hq_check" \in WritesOf(u[i]) PROVE i = Len(u)
        OBVIOUS
      <4>1. i + 1 = Len(todo)
        BY <3>1, <1>s
      <4>2. Len(u) = Len(todo) - 1
        BY <2>1, <1>1
      <4> QED  BY <4>1, <4>2, <1>1
    <3>6. u \in Seq(Group)
      BY <2>1, <1>1
    <3> QED  BY <3>3, <3>4, <3>5, <3>6, Zenon DEF Sorted
  <2> QED  BY <2>2, <2>3, <1>4, <1>5, <1>9 DEF u, w, g
<1>11. CASE Len(g.writes) # 1
  <2>1. u = <<h>> \o Tail(todo)
    BY <1>11 DEF Rest
  <2>2. h \in Group /\ h.writes = Tail(g.writes)
    BY <1>2, <1>3 DEF Group
  <2> HIDE DEF h
  <2>3. /\ u \in Seq(Group) /\ Len(u) = Len(todo) /\ u[1] = h
        /\ \A i \in 1..Len(todo) : i # 1 => u[i] = todo[i]
    <3>1. <<h>> \in Seq(Group) /\ Len(<<h>>) = 1 /\ <<h>>[1] = h
      BY <2>2
    <3>2. /\ u \in Seq(Group) /\ Len(u) = 1 + (Len(todo) - 1) /\ u[1] = h
          /\ \A i \in 1..(Len(todo) - 1) : u[1 + i] = Tail(todo)[i]
      <4> DEFINE s == <<h>>
                 t == Tail(todo)
      <4>1. s \in Seq(Group) /\ Len(s) = 1 /\ s[1] = h
        BY <3>1
      <4>2. u = s \o t
        BY <2>1
      <4>3. t \in Seq(Group) /\ Len(t) = Len(todo) - 1
        BY <1>1
      <4> HIDE DEF s, t, u
      <4>4. /\ u \in Seq(Group) /\ Len(u) = Len(s) + Len(t)
            /\ \A i \in 1..Len(s) : u[i] = s[i]
            /\ \A i \in 1..Len(t) : u[Len(s) + i] = t[i]
        <5>1. s \in Seq(Group) /\ t \in Seq(Group)
          BY <4>1, <4>3
        <5> QED  BY <4>2, <5>1
      <4>5. \A i \in 1..(Len(todo) - 1) : u[1 + i] = t[i]
        BY <4>1, <4>3, <4>4
      <4>7. Tail(todo) = t
        BY DEF t
      <4>6. u \in Seq(Group) /\ Len(u) = 1 + (Len(todo) - 1) /\ u[1] = h
        BY <4>1, <4>3, <4>4
      <4> QED  BY <4>5, <4>6, <4>7
    <3>3. \A i \in 1..Len(todo) : i # 1 => i - 1 \in 1..(Len(todo) - 1) /\ 1 + (i - 1) = i
                                       /\ (i - 1) + 1 = i
      BY <1>1
    <3>4. ASSUME NEW i \in 1..Len(todo), i # 1 PROVE u[i] = todo[i]
      <4>1. /\ i - 1 \in 1..(Len(todo) - 1) /\ u[1 + (i - 1)] = Tail(todo)[i - 1]
            /\ Tail(todo)[i - 1] = todo[(i - 1) + 1]
        BY <1>1, <3>2, <3>3, <3>4
      <4>2. 1 + (i - 1) = i /\ (i - 1) + 1 = i
        OBVIOUS
      <4> QED  BY <4>1, <4>2
    <3> QED  BY <1>1, <3>2, <3>4
  <2>4. \A v : v \in WritesOf(h) <=> v \in WritesOf(g) /\ v # w
    <3>1. ASSUME NEW k \in 1..(Len(g.writes) - 1)
          PROVE  k + 1 \in 1..Len(g.writes) /\ k + 1 # 1 /\ Tail(g.writes)[k] = g.writes[k + 1]
      BY <1>3
    <3>2. ASSUME NEW v \in WritesOf(h) PROVE v \in WritesOf(g) /\ v # w
      <4>1. PICK k \in 1..(Len(g.writes) - 1) : v = Tail(g.writes)[k]
        BY <2>2, <1>3 DEF WritesOf
      <4>2. v = g.writes[k + 1] /\ Rank(w) < Rank(v)
        BY <4>1, <3>1, <1>6
      <4>3. v \in WritesOf(g)
        BY <4>2, <3>1 DEF WritesOf
      <4> QED  BY <4>2, <4>3, <1>4, RankIsNumber
    <3>3. ASSUME NEW v \in WritesOf(g), v # w PROVE v \in WritesOf(h)
      <4>1. PICK k \in 1..Len(g.writes) : v = g.writes[k]
        BY DEF WritesOf
      <4>2. k # 1
        BY <4>1, <3>3, <1>3
      <4>3. k - 1 \in 1..(Len(g.writes) - 1) /\ (k - 1) + 1 = k
        BY <4>2, <1>3
      <4>4. h.writes[k - 1] = v /\ k - 1 \in 1..Len(h.writes)
        BY <4>1, <4>3, <1>3, <2>2
      <4> QED  BY <4>4 DEF WritesOf
    <3> QED  BY <3>2, <3>3
  <2>5. InOrder(h)
    <3>1. h.writes # <<>>
      <4>1. Len(h.writes) # 0
        BY <2>2, <1>3, <1>11
      <4> QED  BY <4>1
    <3>2. ASSUME NEW j \in 1..Len(h.writes), NEW k \in 1..Len(h.writes), j < k
          PROVE  Rank(h.writes[j]) < Rank(h.writes[k])
      <4>1. j + 1 \in 1..Len(g.writes) /\ k + 1 \in 1..Len(g.writes) /\ j + 1 < k + 1
        BY <3>2, <2>2, <1>3
      <4>2. h.writes[j] = g.writes[j + 1] /\ h.writes[k] = g.writes[k + 1]
        BY <2>2, <1>3
      <4> QED  BY <4>1, <4>2, <1>2 DEF InOrder
    <3> QED  BY <3>1, <3>2 DEF InOrder
  <2> HIDE DEF u, w, g
  <2>6. \A v : \A i \in 1..Len(u) : v \in WritesOf(u[i]) <=> v \in WritesOf(todo[i]) /\ (i = 1 => v # w)
    BY <2>3, <2>4, <1>1
  <2>7. ASSUME NEW i \in 1..Len(todo), i # 1, NEW v \in WritesOf(todo[i]) PROVE v # w
    <3>1. v \in Write
      BY <2>7, <1>1, WritesAreWrites
    <3>2. Rank(w) < Rank(v)
      BY <3>1, <2>7, <1>7
    <3> QED  BY <3>1, <3>2, <1>4, RankIsNumber
  <2>8. Left(u) = Left(todo) \ {w}
    <3>1. \A v : v \in Left(u) <=> v \in Left(todo) /\ v # w
      BY <2>3, <2>6, <2>7, LeftIs
    <3> QED  BY <3>1
  <2>9. Sorted(u)
    <3>1. \A i \in 1..Len(u) : InOrder(u[i])
      BY <2>3, <2>5 DEF Sorted
    <3>2. \A i, j \in 1..Len(u) : i < j =>
              \A v \in WritesOf(u[i]), x \in WritesOf(u[j]) : Rank(v) < Rank(x)
      BY <2>3, <2>6, <1>s
    <3>3. \A i \in 1..Len(u) : "hq_check" \in WritesOf(u[i]) => i = Len(u)
      BY <2>3, <2>6, <1>s
    <3> QED  BY <3>1, <3>2, <3>3, <2>3 DEF Sorted
  <2> QED  BY <2>8, <2>9, <1>4, <1>5, <1>9 DEF u, w, g
<1> QED  BY <1>10, <1>11

\* What is left after a failure is in order, and no more than before.
LEMMA TailIs ==
    ASSUME NEW todo, Sorted(todo), todo # <<>>
    PROVE  Sorted(Tail(todo)) /\ Left(Tail(todo)) \subseteq Left(todo)
<1> DEFINE u == Tail(todo)
<1>1. /\ u \in Seq(Group) /\ Len(u) = Len(todo) - 1 /\ Len(todo) \in Nat
      /\ \A i \in 1..Len(u) : i + 1 \in 1..Len(todo) /\ u[i] = todo[i + 1]
  BY DEF Sorted
<1> HIDE DEF u
<1>2. Sorted(u)
  <2>1. \A i, j \in 1..Len(u) : i < j => i + 1 < j + 1
    BY <1>1
  <2>2. \A i \in 1..Len(u) : InOrder(u[i])
    BY <1>1 DEF Sorted
  <2>3. \A i, j \in 1..Len(u) : i < j =>
            \A v \in WritesOf(u[i]), w \in WritesOf(u[j]) : Rank(v) < Rank(w)
    BY <1>1, <2>1 DEF Sorted
  <2>4. \A i \in 1..Len(u) : "hq_check" \in WritesOf(u[i]) => i = Len(u)
    BY <1>1 DEF Sorted
  <2> QED  BY <1>1, <2>2, <2>3, <2>4 DEF Sorted
<1>3. Left(u) \subseteq Left(todo)
  BY <1>1, LeftIs
<1> QED  BY <1>2, <1>3 DEF u

LEMMA RestAfterFailureIs ==
    ASSUME NEW todo, Sorted(todo), todo # <<>>
    PROVE  Sorted(RestAfterFailure(todo)) /\ Left(RestAfterFailure(todo)) \subseteq Left(todo)
<1>1. CASE Head(todo).fatal
  <2>1. RestAfterFailure(todo) = <<>>
    BY <1>1 DEF RestAfterFailure
  <2> QED  BY <2>1, NothingSpans DEF Spans
<1>2. CASE ~Head(todo).fatal
  BY <1>2, TailIs DEF RestAfterFailure
<1> QED  BY <1>1, <1>2

\* So is what is left when two groups are passed over.
LEMMA PassedIs ==
    ASSUME NEW todo, Sorted(todo)
    PROVE  LET rest == SubSeq(todo, 3, Len(todo))
           IN  Sorted(rest) /\ Left(rest) \subseteq Left(todo)
<1> DEFINE u == SubSeq(todo, 3, Len(todo))
<1>1. todo \in Seq(Group) /\ Len(todo) \in Nat
  BY DEF Sorted
<1>2. u = [i \in 1..(Len(todo) - 2) |-> todo[i + 2]]
  BY <1>1
<1>3. \A i \in 1..(Len(todo) - 2) : i + 2 \in 1..Len(todo)
  BY <1>1
<1>4. u \in Seq(Group) /\ \A i \in 1..Len(u) : i + 2 \in 1..Len(todo) /\ u[i] = todo[i + 2]
  BY <1>1, <1>2, <1>3
<1>5. Len(u) \in Nat /\ (Len(u) # 0 => Len(u) = Len(todo) - 2)
  BY <1>1, <1>2
<1> HIDE DEF u
<1>6. Left(u) \subseteq Left(todo)
  BY <1>4, LeftIs
<1>7. Sorted(u)
  <2>1. \A i, j \in 1..Len(u) : i < j => i + 2 < j + 2
    BY <1>5
  <2>2. \A i \in 1..Len(u) : InOrder(u[i])
    BY <1>4 DEF Sorted
  <2>3. \A i, j \in 1..Len(u) : i < j =>
            \A v \in WritesOf(u[i]), w \in WritesOf(u[j]) : Rank(v) < Rank(w)
    BY <1>4, <2>1 DEF Sorted
  <2>4. \A i \in 1..Len(u) : "hq_check" \in WritesOf(u[i]) => i = Len(u)
    BY <1>4, <1>5 DEF Sorted
  <2> QED  BY <1>4, <2>2, <2>3, <2>4 DEF Sorted
<1> QED  BY <1>6, <1>7 DEF u

\* What is left of an update whose manager is not found.
LEMMA ClearedIs ==
    ASSUME NEW todo, Sorted(todo), todo # <<>>, Head(Head(todo).writes) = "manager_off"
    PROVE  LET rest == Tolerant(<<"manager_off">>) \o Tail(todo)
           IN  Sorted(rest) /\ Left(rest) \subseteq Left(todo)
<1> DEFINE u == Tail(todo)
           g == [fatal |-> FALSE, writes |-> <<"manager_off">>]
<1>1. /\ u \in Seq(Group) /\ Len(u) = Len(todo) - 1 /\ Len(todo) \in Nat /\ Len(todo) >= 1
      /\ \A i \in 1..Len(u) : i + 1 \in 1..Len(todo) /\ u[i] = todo[i + 1]
      /\ Head(todo) = todo[1] /\ todo[1] \in Group
  BY DEF Sorted
<1>2. "manager_off" \in WritesOf(todo[1])
  <2>0. 1 \in 1..Len(todo)
    BY <1>1
  <2>1. InOrder(todo[1]) /\ todo[1].writes \in Seq(Write)
    BY <1>1, <2>0 DEF Sorted, Group
  <2>2. todo[1].writes # <<>> /\ todo[1].writes[1] = "manager_off"
    BY <1>1, <2>1 DEF InOrder
  <2> QED  BY <2>1, <2>2 DEF WritesOf
<1>3. Spans(<<g>>, {"manager_off"}, 6, 7)
  <2>1. Spans(Tolerant(<<"manager_off">>), {"manager_off"}, 6, 7)
    BY OneSpans, Ranks
  <2> QED  BY <2>1 DEF Tolerant
<1>4. Left(u) \subseteq Left(todo)
  BY TailIs
<1>5. \A w \in Left(u) : 7 < Rank(w) /\ Rank(w) <= 13
  <2> SUFFICES ASSUME NEW w \in Left(u) PROVE 7 < Rank(w) /\ Rank(w) <= 13
    OBVIOUS
  <2> HIDE DEF u
  <2>1. PICK i \in 1..Len(u) : w \in WritesOf(u[i])
    BY LeftIs
  <2>2. 1 < i + 1 /\ i + 1 \in 1..Len(todo) /\ 1 \in 1..Len(todo) /\ w \in WritesOf(todo[i + 1])
    BY <1>1, <2>1
  <2>3. Rank("manager_off") < Rank(w)
    BY <2>2, <1>2 DEF Sorted
  <2>4. w \in Write
    BY <1>1, LeftAreWrites
  <2>5. Rank(w) <= 13
    BY <2>4 DEF Rank, Write
  <2> QED  BY <2>3, <2>5, Ranks
<1>6. Sorted(u)
  BY TailIs
<1>7. Spans(u, Left(u), 7, 13)
  BY <1>5, <1>6 DEF Spans
<1> HIDE DEF g, u
<1>8. Spans(<<g>> \o u, {"manager_off"} \cup Left(u), 6, 13)
  BY <1>3, <1>7, JoinedSpans
<1>9. "manager_off" \in Left(todo)
  BY <1>1, <1>2, LeftIs
<1>10. Tolerant(<<"manager_off">>) \o Tail(todo) = <<g>> \o u
  BY DEF Tolerant, g, u
<1> QED  BY <1>4, <1>8, <1>9, <1>10 DEF Spans

-----------------------------------------------------------------------------
(***************************************************************************)
(* Types.  What is left of an edit is part of what it plans.               *)
(***************************************************************************)
JobsInOrder ==
    \A r \in Request :
        Sorted(job[r].todo) /\ Left(job[r].todo) \subseteq Planned(job[r].payload)

\* What UserDirectory adds to the types of Sessions.
OwnTypeOK ==
    /\ Tables \in TablesType /\ exists \in BOOLEAN
    /\ job \in [Request -> JobType]
    /\ edits \in 0..mix.edits
    /\ listed \in Copy /\ copies \in [Process -> Copy] /\ reader \in Copy
    /\ overlapped \in BOOLEAN /\ astray \in BOOLEAN

TypeInv == ListInv /\ OwnTypeOK /\ JobsInOrder

LEMMA TablesAre ==
    ASSUME Tables \in TablesType
    PROVE  /\ account \in {"active", "inactive"}
           /\ roles \in [Role -> RowState] /\ managers \in [Manager -> RowState]
           /\ depots \in SUBSET Depot /\ hqs \in [Hq -> RowState]
BY DEF Tables, TablesType

LEMMA TurnIs ==
    ASSUME NEW S, NEW rows \in [S -> RowState], NEW status \in RowState
    PROVE  /\ Turn(rows, status) \in [S -> RowState]
           /\ \A x \in S : Turn(rows, status)[x] = IF rows[x] = "none" THEN "none" ELSE status
BY DEF Turn, RowState

LEMMA NoRowsIs ==
    ASSUME NEW S, NEW rows \in [S -> RowState]
    PROVE  NoRows(rows) = [x \in S |-> "none"] /\ NoRows(rows) \in [S -> RowState]
BY DEF NoRows, RowState

LEMMA NoJobIs ==
    /\ NoJob \in JobType /\ NoJob.todo = <<>> /\ ~NoJob.alone
    /\ Sorted(NoJob.todo) /\ Left(NoJob.todo) = {}
<1>1. NoJob.payload \in Payload
  BY DirectoryAssumption DEF NoJob
<1>2. NoJob.todo = <<>> /\ ~NoJob.alone
  BY DEF NoJob
<1>3. <<>> \in Seq(Group) /\ <<>> \in Seq(Hq)
  OBVIOUS
<1>4. NoJob \in JobType
  BY <1>1, <1>3, Zenon DEF NoJob, JobType
<1> QED  BY <1>2, <1>4, NothingSpans DEF Spans

\* An edit that begins does so with a job of its own.
NewJob(p, alone) ==
    [NoJob EXCEPT !.payload = p, !.todo = Groups(p), !.alone = alone,
                  !.before = IF alone THEN Tables ELSE <<>>]

LEMMA NewJobIs ==
    ASSUME NEW p \in Payload, NEW alone \in BOOLEAN, Tables \in TablesType
    PROVE  /\ NewJob(p, alone) \in JobType /\ NewJob(p, alone).payload = p
           /\ NewJob(p, alone).todo = Groups(p) /\ NewJob(p, alone).alone = alone
           /\ alone => NewJob(p, alone).before = Tables
           /\ Sorted(NewJob(p, alone).todo) /\ Left(NewJob(p, alone).todo) = Planned(p)
<1>1. Spans(Groups(p), Planned(p), 0, 13)
  BY PlanSpans, DirectoryAssumption
<1>2. Groups(p) \in Seq(Group)
  BY <1>1 DEF Spans, Sorted
<1>3. /\ NewJob(p, alone).payload = p /\ NewJob(p, alone).todo = Groups(p)
      /\ NewJob(p, alone).alone = alone
      /\ NewJob(p, alone).before = (IF alone THEN Tables ELSE <<>>)
  BY DEF NoJob, NewJob
<1>4. NewJob(p, alone) \in JobType
  <2>1. NoJob \in JobType
    BY NoJobIs
  <2> QED  BY <2>1, <1>2 DEF JobType, NewJob
<1> QED  BY <1>1, <1>3, <1>4 DEF Spans

\* The writes planned for a table have something to write.
LEMMA PlannedWrites ==
    ASSUME NEW p, PayloadOK(p), NEW w \in Planned(p)
    PROVE  /\ w \in {"roles_status", "managers_status", "hqs_status"}
                  => StatusOf(p) \in {"on", "off"} /\ p.op # "create"
           /\ w \in {"roles_off", "role_on"} => p.role \in Role
           /\ w = "manager_on" => p.manager \in Manager
           /\ w = "depot_on" => p.depot \in Depot
           /\ w \in {"hq_check", "hq_off", "hq_on"} => ListWrites(p) # {}
           /\ w = "hq_on" => p.hq # <<>>
<1>a. Keep # Clear /\ Keep # "on" /\ Keep # "off"
  BY DEF Keep, Clear
<1> USE <1>a DEF Planned, PayloadOK, Operation
<1>1. w \in StatusWrites(p) => StatusOf(p) \in {"on", "off"} /\ p.op # "create"
  BY DEF StatusWrites, StatusOf, Truth
<1>2. w \in RoleWrites(p) => p.role \in Role
  BY DEF RoleWrites
<1>3. w \in ManagerWrites(p) /\ w = "manager_on" => p.manager \in Manager
  BY DEF ManagerWrites
<1>4. w \in DepotWrites(p) /\ w = "depot_on" => p.depot \in Depot
  BY DEF DepotWrites
<1>5. w \in ListWrites(p) => ListWrites(p) # {} /\ (w = "hq_on" => p.hq # <<>>)
  BY DEF ListWrites
<1>6. /\ StatusWrites(p) \subseteq {"roles_status", "managers_status", "hqs_status"}
      /\ RoleWrites(p) \subseteq {"roles_off", "role_on"}
      /\ ManagerWrites(p) \subseteq {"manager_off", "manager_on"}
      /\ DepotWrites(p) \subseteq {"depot_off", "depot_on"}
      /\ ListWrites(p) \subseteq {"hq_check", "hq_off", "hq_on"}
  BY NamesDiffer DEF StatusWrites, RoleWrites, ManagerWrites, DepotWrites, ListWrites
<1>7. w \in {"users"} \cup StatusWrites(p) \cup RoleWrites(p) \cup ManagerWrites(p)
              \cup DepotWrites(p) \cup ListWrites(p)
  OBVIOUS
<1> QED  BY <1>1, <1>2, <1>3, <1>4, <1>5, <1>6, <1>7

\* A write keeps the tables what they are.
LEMMA PerformType ==
    ASSUME Tables \in TablesType, exists \in BOOLEAN, NEW r \in Request, NEW w,
           PayloadOK(job[r].payload), w \in Planned(job[r].payload), Perform(r, w),
           account' \in {"active", "inactive"}
    PROVE  (Tables \in TablesType)' /\ (exists \in BOOLEAN)'
<1> DEFINE p == job[r].payload
<1>a. /\ w \in {"roles_status", "managers_status", "hqs_status"} => StatusOf(p) \in RowState
      /\ w = "role_on" => p.role \in Role
      /\ w = "manager_on" => p.manager \in Manager
      /\ w = "depot_on" => p.depot \in Depot
  BY PlannedWrites DEF RowState
<1>b. "on" \in RowState /\ "off" \in RowState /\ "none" \in RowState
  BY DEF RowState
<1>1. roles' \in [Role -> RowState]
  BY <1>a, <1>b, TablesAre, TurnIs DEF Perform, Put
<1>2. managers' \in [Manager -> RowState]
  <2>1. CASE w = "managers_status"
    <3>1. managers' = Turn(managers, StatusOf(p))
      BY <2>1 DEF Perform
    <3>2. StatusOf(p) \in RowState /\ managers \in [Manager -> RowState]
      BY <2>1, <1>a, TablesAre
    <3> QED  BY <3>1, <3>2, TurnIs
  <2>2. CASE w = "manager_off"
    BY <2>2, TablesAre, NoRowsIs DEF Perform
  <2>3. CASE w \notin {"managers_status", "manager_off"}
    BY <2>3, <1>a, <1>b, TablesAre DEF Perform, Put
  <2> QED  BY <2>1, <2>2, <2>3
<1>3. depots' \in SUBSET Depot
  BY <1>a, TablesAre DEF Perform
<1>4. hqs' \in [Hq -> RowState]
  <2>1. CASE w = "hq_on"
    <3>1. hqs' = [h \in Hq |-> IF h \in Chosen(job[r].hq) THEN "on" ELSE hqs[h]]
      BY <2>1 DEF Perform
    <3> QED  BY <3>1, <1>b, TablesAre
  <2>2. CASE w # "hq_on"
    BY <2>2, <1>a, <1>b, TablesAre, TurnIs, NoRowsIs DEF Perform
  <2> QED  BY <2>1, <2>2
<1>5. exists' \in BOOLEAN
  BY DEF Perform
<1> QED  BY <1>1, <1>2, <1>3, <1>4, <1>5 DEF Tables, TablesType

\* A job goes on with what is left of it.
LEMMA RestOfJob ==
    ASSUME NEW j \in JobType, Sorted(j.todo), Left(j.todo) \subseteq Planned(j.payload),
           j.todo # <<>>
    PROVE  /\ [j EXCEPT !.todo = Rest(@)] \in JobType
           /\ Sorted(Rest(j.todo)) /\ Left(Rest(j.todo)) \subseteq Planned(j.payload)
           /\ Sorted(RestAfterFailure(j.todo))
           /\ Left(RestAfterFailure(j.todo)) \subseteq Planned(j.payload)
<1>1. Sorted(Rest(j.todo)) /\ Left(Rest(j.todo)) \subseteq Left(j.todo)
  BY RestIs
<1>2. Sorted(RestAfterFailure(j.todo)) /\ Left(RestAfterFailure(j.todo)) \subseteq Left(j.todo)
  BY RestAfterFailureIs
<1>3. Rest(j.todo) \in Seq(Group)
  BY <1>1 DEF Sorted
<1> QED  BY <1>1, <1>2, <1>3 DEF JobType

\* The list that is chosen is the one given, or the last of it.
LEMMA AllowedIs ==
    ASSUME NEW list \in Seq(Hq \cup {Unknown}), NEW some \in Allowed(list)
    PROVE  /\ some \in Seq(Hq \cup {Unknown})
           /\ some = list \/ (Len(list) > 1 /\ some = <<list[Len(list)]>>)
<1>1. some = list \/ (Len(list) > 1 /\ some = <<list[Len(list)]>>)
  BY DEF Allowed
<1>2. CASE Len(list) > 1 /\ some = <<list[Len(list)]>>
  <2>1. list[Len(list)] \in Hq \cup {Unknown}
    BY <1>2
  <2>2. <<list[Len(list)]>> \in Seq(Hq \cup {Unknown})
    BY <2>1
  <2> QED  BY <1>2, <2>2
<1> QED  BY <1>1, <1>2

\* A list all of whose headquarters are known.
LEMMA KnownList ==
    ASSUME NEW list \in Seq(Hq \cup {Unknown}), Unknown \notin Chosen(list)
    PROVE  list \in Seq(Hq)
<1>1. \A i \in 1..Len(list) : list[i] \in Hq
  BY DEF Chosen
<1> QED  BY <1>1

-----------------------------------------------------------------------------
(***************************************************************************)
(* What the steps do to the edits.  A step either leaves the tables and    *)
(* the edits alone, or is one of an edit, and leaves the others alone.     *)
(***************************************************************************)
\* An edit that a step leaves where it is, and no edit where there was none.
Keeps(r) ==
    /\ Editing(r)' <=> Editing(r)
    /\ Editing(r) => request'[r].kind = request[r].kind /\ request'[r].at = request[r].at

\* A step that is none of an edit.
Quiet ==
    /\ UNCHANGED <<account, tableVars, job, overlapped>>
    /\ \A r \in Request : Keeps(r)

\* The bounds: the mix is chosen at first, and failures are counted.
Bounded == mix' = mix /\ faults' \in {faults, faults + 1}

LEMMA ServeBounded ==
    ASSUME NEW r \in Request, ServeStep(r)
    PROVE  account' = account /\ Bounded
<1> USE DEF MayFail, storeVars, boundVars, Bounded
<1>1. CASE \/ LoginReadAccount(r) \/ LoginClearRevocation(r) \/ LoginGuardRole(r)
           \/ StoreToken(r) \/ ReadIndex(r) \/ WriteIndex(r)
  BY <1>1 DEF LoginReadAccount, LoginClearRevocation, LoginGuardRole, StoreToken,
              ReadIndex, WriteIndex, DeleteFlag
<1>2. CASE \/ RefreshReadGrace(r) \/ RefreshReadToken(r) \/ RefreshReadFlag(r)
           \/ RefreshReadAccount(r) \/ RefreshDropToken(r)
           \/ RefreshStoreGrace(r) \/ RefreshRemoveOld(r)
  BY <1>2 DEF RefreshReadGrace, RefreshReadToken, RefreshReadFlag, RefreshReadAccount,
              RefreshDropToken, RefreshStoreGrace, RefreshRemoveOld, DeleteToken
<1>3. CASE \/ CheckReadFlag(r) \/ CheckReadProfile(r) \/ CheckReadAccount(r)
           \/ CheckStoreProfile(r) \/ CheckAnswer(r)
  BY <1>3 DEF CheckReadFlag, CheckReadProfile, CheckReadAccount, CheckStoreProfile,
              CheckAnswer
<1>4. CASE \/ LogoutRemoveToken(r) \/ LogoutRemoveGrace(r)
           \/ RevokeListTokens(r) \/ RevokePurgeToken(r) \/ RevokePurgeGrace(r)
           \/ RevokeDropIndex(r)
  BY <1>4 DEF LogoutRemoveToken, LogoutRemoveGrace, RevokeListTokens, RevokePurgeToken,
              RevokePurgeGrace, RevokeDropIndex, DeleteToken, DeleteGrace
<1>5. CASE SetFlag(r) \/ ClearFlag(r) \/ RefreshList(r)
  BY <1>5 DEF SetFlag, ClearFlag, RefreshList, DeleteFlag
<1> QED  BY <1>1, <1>2, <1>3, <1>4, <1>5 DEF ServeStep

LEMMA OtherBounded ==
    /\ \A r \in Request : Begin(r) => account' = account /\ Bounded
    /\ \A r \in Request : EditStep(r) => Bounded
    /\ ExpireStep => account' = account /\ Bounded
<1> USE DEF MayFail, storeVars, boundVars, Bounded
<1>1. ASSUME NEW r \in Request, Begin(r) PROVE account' = account /\ Bounded
  BY <1>1 DEF Begin
<1>2. ASSUME NEW r \in Request, EditStep(r) PROVE Bounded
  BY <1>2 DEF EditStep, EditAccount, EditFails, FinishEdit
<1>3. ASSUME ExpireStep PROVE account' = account /\ Bounded
  BY <1>3 DEF ExpireStep, ExpireToken, ExpireGrace, ExpireIndex, ExpireFlag,
              ExpireProfile, ExpireRam, ForgetMemory
<1> QED  BY <1>1, <1>2, <1>3

LEMMA NextBounded == Next => Bounded
<1> SUFFICES ASSUME Next PROVE Bounded
  OBVIOUS
<1>1. CASE SessionNext
  BY <1>1, ServeBounded, OtherBounded DEF SessionNext
<1>2. CASE UNCHANGED sessionVars
  BY <1>2 DEF sessionVars, boundVars, Bounded
<1> QED  BY <1>1, <1>2, DirectoryNext

\* The requests whose step it is not.
LEMMA OthersKeep ==
    ASSUME NEW r \in Request, Moved(r) \/ UNCHANGED request
    PROVE  \A q \in Request \ {r} : Keeps(q)
BY DEF Moved, Leaves, Same, Keeps, Editing

\* A request that is not editing does not come to edit while it is served.
LEMMA ServedKeeps ==
    ASSUME NEW r \in Request, Moved(r), request[r].at \notin {"edit", "edited"}
    PROVE  \A q \in Request : Keeps(q)
<1>1. request'[r].at \notin {"edit", "edited"}
  BY DEF Moved, Moves, Follows, Idle
<1>2. Keeps(r)
  BY <1>1 DEF Keeps, Editing
<1> QED  BY <1>2, OthersKeep

LEMMA QuietRequest ==
    ASSUME SessionTypeOK, NEW r \in Request,
           BeginOther(r) \/ Serve(r) \/ ResetPassword(r)
    PROVE  Quiet
<1> USE DEF directoryVars, tableVars, listVars
<1>1. CASE BeginOther(r)
  <2>1. account' = account
    BY <1>1, OtherBounded DEF BeginOther
  <2>2. request[r] = Idle /\ \A q \in Request \ {r} : request'[q] = request[q]
    BY <1>1, BeginRecord DEF SessionTypeOK, RequestOK, BeginOther
  <2>3. ~Editing(r) /\ ~Editing(r)'
    BY <1>1, <2>2 DEF BeginOther, Editing, Idle
  <2> QED  BY <1>1, <2>1, <2>2, <2>3 DEF BeginOther, Quiet, Keeps, Editing
<1>2. CASE Serve(r)
  <2>1. ServeStep(r) /\ UNCHANGED <<tableVars, job, overlapped>>
    BY <1>2 DEF Serve, PurgeList, ServeStep
  <2>2. Moved(r) /\ request[r].at \notin {"edit", "edited"}
    BY <2>1, ServeMoves, FlagStepAt DEF IsAt
  <2> QED  BY <2>1, <2>2, ServeBounded, ServedKeeps DEF Quiet
<1>3. CASE ResetPassword(r)
  <2>1. EditStep(r) /\ request[r].kind = "reset"
    BY <1>3 DEF ResetPassword, EditStep
  <2>2. Moved(r)
    BY <2>1, EditMoves
  <2>3. request'[r].kind \in {"reset", "none"}
    BY <2>1, <2>2 DEF Moved, Moves, Same, Idle
  <2>4. Keeps(r)
    BY <2>1, <2>3 DEF Keeps, Editing, Administration
  <2>5. account' = account
    BY <1>3 DEF ResetPassword, EditAccount, FinishEdit, Changed, storeVars
  <2> QED  BY <1>3, <2>2, <2>4, <2>5, OthersKeep DEF ResetPassword, Quiet
<1> QED  BY <1>1, <1>2, <1>3

LEMMA QuietElse ==
    ASSUME SessionTypeOK,
           \/ ReadList \/ StoreList \/ ExpireList
           \/ ExpireStep /\ UNCHANGED directoryVars
           \/ UNCHANGED vars
    PROVE  Quiet
<1> USE DEF directoryVars, tableVars, listVars
<1>1. CASE ReadList \/ StoreList \/ ExpireList \/ UNCHANGED vars
  BY <1>1 DEF ReadList, StoreList, ExpireList, vars, sessionVars, storeVars, Quiet,
              Keeps, Editing
<1>2. CASE ExpireStep /\ UNCHANGED directoryVars
  BY <1>2, ExpireLeaves, OtherBounded DEF Leaves, Same, Quiet, Keeps, Editing
<1> QED  BY <1>1, <1>2

\* The job of an edit that goes on.
Onward(j) == [j EXCEPT !.todo = Rest(@)]

\* An edit goes on: its job becomes j, and it is at its tables.
GoesOn(r, j) ==
    /\ Editing(r) /\ Editing(r)'
    /\ request'[r].kind = request[r].kind /\ request'[r].at = "edited"
    /\ \A q \in Request \ {r} : Keeps(q)
    /\ job' = [job EXCEPT ![r] = j]
    /\ overlapped' = overlapped

\* The ways in which it does: a call fails, a write succeeds, the list of
\* headquarters is chosen or refused, or there is nothing to do in the table of
\* users.
EditFailed(r) ==
    \E j \in {Stopped(job[r]), NotFound(job[r])} :
        /\ GoesOn(r, Spoilt(j)) /\ job[r].todo # <<>>
        /\ faults' = faults + 1
        /\ UNCHANGED <<account, tableVars>>

EditWrites(r, w) ==
    /\ GoesOn(r, Onward(job[r])) /\ job[r].todo # <<>>
    /\ w = NextWrite(r) /\ Perform(r, w)
    /\ IF w = "users"
       THEN IsAt(r, "edit") /\ account' = AccountAfter(job[r].payload, account)
       ELSE IsAt(r, "edited") /\ account' = account /\ w # "hq_check"

EditLooks(r) ==
    /\ job[r].todo # <<>> /\ IsAt(r, "edited") /\ NextWrite(r) = "hq_check"
    /\ UNCHANGED <<account, tableVars>>

EditChooses(r) ==
    \E list \in Allowed(job[r].payload.hq) :
        /\ EditLooks(r) /\ GoesOn(r, [Onward(job[r]) EXCEPT !.hq = list])
        /\ Unknown \notin Chosen(list)
        /\ MustCut(job[r].payload.hq) => list # job[r].payload.hq

EditRefused(r) ==
    /\ EditLooks(r) /\ GoesOn(r, Stopped(job[r]))
    /\ \E list \in Allowed(job[r].payload.hq) : Unknown \in Chosen(list)

EditStarts(r) ==
    /\ GoesOn(r, job[r]) /\ IsAt(r, "edit") /\ NextWrite(r) # "users"
    /\ UNCHANGED <<account, tableVars>>

EditEnds(r) ==
    /\ Editing(r) /\ ~Editing(r)' /\ job[r].todo = <<>>
    /\ \A q \in Request \ {r} : Keeps(q)
    /\ job' = [job EXCEPT ![r] = NoJob]
    /\ UNCHANGED <<account, tableVars, overlapped>>

EditGoes(r) ==
    \/ EditFailed(r) \/ EditChooses(r) \/ EditRefused(r) \/ EditStarts(r) \/ EditEnds(r)
    \/ EditWrites(r, NextWrite(r))

LEMMA EditAtWork ==
    ASSUME ListInv, NEW r \in Request, EditAccount(r), Editing(r)
    PROVE  /\ Editing(r)' /\ request'[r].kind = request[r].kind /\ request'[r].at = "edited"
           /\ \A q \in Request \ {r} : Keeps(q)
           /\ \/ faults' = faults /\ account' \in Changed(request[r].kind)
              \/ faults' = faults + 1 /\ account' = account
<1>1. SessionTypeOK
  BY DEF ListInv, SessionInv
<1>2. Moved(r)
  BY <1>1, EditMoves DEF EditStep
<1>3. request'[r].kind = request[r].kind /\ request'[r].at = "edited"
  BY <1>1 DEF EditAccount, SessionTypeOK, RequestOK, Work
<1>4. Editing(r)'
  BY <1>3 DEF Editing
<1>5. \/ faults' = faults /\ account' \in Changed(request[r].kind)
      \/ faults' = faults + 1 /\ account' = account
  BY DEF EditAccount, MayFail
<1> QED  BY <1>2, <1>3, <1>4, <1>5, OthersKeep

LEMMA JobAtWork ==
    ASSUME ListInv, NEW r \in Request, job[r].todo # <<>>
    PROVE  Editing(r)
BY DEF ListInv, JobsAtWork, Editing

LEMMA DirectoryGoes ==
    ASSUME ListInv, NEW r \in Request,
           \/ WriteUsers(r) \/ StartEdit(r) \/ WriteTable(r) \/ CheckHq(r) \/ EndEdit(r)
           \/ WriteFails(r) \/ LookupFails(r)
    PROVE  EditGoes(r)
<1>a. SessionTypeOK /\ JobsAreKept
  BY DEF ListInv, SessionInv
<1>b. faults \in Nat
  BY <1>a DEF SessionTypeOK
<1>1. CASE WriteUsers(r)
  <2>1. Editing(r) /\ IsAt(r, "edit") /\ job[r].todo # <<>> /\ NextWrite(r) = "users"
        /\ EditAccount(r) /\ overlapped' = overlapped
    BY <1>1, JobAtWork DEF WriteUsers, EditAccount
  <2>2. CASE faults' > faults
    <3>1. UNCHANGED tableVars /\ job' = [job EXCEPT ![r] = Spoilt(Stopped(job[r]))]
      BY <1>1, <2>2, <1>a DEF WriteUsers, JobsAreKept
    <3>3. faults' = faults + 1 /\ account' = account
      BY <2>1, <2>2, <1>b, EditAtWork
    <3>4. GoesOn(r, Spoilt(Stopped(job[r])))
      BY <2>1, <3>1, EditAtWork DEF GoesOn
    <3>5. EditFailed(r)
      BY <2>1, <3>1, <3>3, <3>4 DEF EditFailed
    <3> QED  BY <3>5 DEF EditGoes
  <2>3. CASE ~(faults' > faults)
    <3>1. /\ Perform(r, "users") /\ job' = [job EXCEPT ![r] = Onward(job[r])]
          /\ account' = AccountAfter(job[r].payload, account)
      BY <1>1, <2>3, <1>a DEF WriteUsers, Onward, JobsAreKept
    <3>3. GoesOn(r, Onward(job[r]))
      BY <2>1, <3>1, EditAtWork DEF GoesOn
    <3> QED  BY <2>1, <3>1, <3>3 DEF EditWrites, EditGoes
  <2> QED  BY <2>2, <2>3
<1>2. CASE StartEdit(r)
  <2>1. /\ Editing(r) /\ IsAt(r, "edit") /\ NextWrite(r) # "users" /\ EditAccount(r)
        /\ job' = job /\ overlapped' = overlapped /\ UNCHANGED <<account, tableVars>>
    BY <1>2 DEF StartEdit, directoryVars
  <2>3. job' = [job EXCEPT ![r] = job[r]]
    BY <2>1, <1>a DEF JobsAreKept
  <2>4. GoesOn(r, job[r])
    BY <2>1, <2>3, EditAtWork DEF GoesOn
  <2> QED  BY <2>1, <2>4 DEF EditStarts, EditGoes
<1>c. ASSUME UNCHANGED request, Editing(r), IsAt(r, "edited"), NEW j, overlapped' = overlapped,
             job' = [job EXCEPT ![r] = j]
      PROVE  GoesOn(r, j)
  <2>1. Editing(r)' /\ request'[r].kind = request[r].kind /\ request'[r].at = "edited"
    BY <1>c DEF Editing, IsAt
  <2> QED  BY <1>c, <2>1, OthersKeep DEF GoesOn
<1>3. CASE WriteTable(r)
  <2>1. /\ Editing(r) /\ IsAt(r, "edited") /\ job[r].todo # <<>> /\ overlapped' = overlapped
        /\ NextWrite(r) \notin {"users", "hq_check"} /\ Perform(r, NextWrite(r))
        /\ UNCHANGED <<request, account>>
    BY <1>3 DEF WriteTable, sessionVars, storeVars
  <2>2. job' = [job EXCEPT ![r] = Onward(job[r])]
    BY <1>3, <1>a DEF WriteTable, Onward, JobsAreKept
  <2> QED  BY <2>1, <2>2, <1>c DEF EditWrites, EditGoes
<1>4. CASE CheckHq(r)
  <2>1. PICK list \in Allowed(job[r].payload.hq) :
             /\ MustCut(job[r].payload.hq) => list # job[r].payload.hq
             /\ job' = [job EXCEPT ![r] = CheckedHq(job[r], list)]
    BY <1>4, <1>a DEF CheckHq, JobsAreKept
  <2>3. /\ Editing(r) /\ IsAt(r, "edited") /\ job[r].todo # <<>> /\ overlapped' = overlapped
        /\ NextWrite(r) = "hq_check" /\ UNCHANGED <<request, account, tableVars>>
    BY <1>4 DEF CheckHq, sessionVars, storeVars
  <2>4. GoesOn(r, CheckedHq(job[r], list)) /\ EditLooks(r)
    BY <2>1, <2>3, <1>c DEF EditLooks
  <2>5. CASE Unknown \in Chosen(list)
    <3>1. CheckedHq(job[r], list) = Stopped(job[r])
      BY <2>5 DEF CheckedHq
    <3> QED  BY <3>1, <2>4, <2>5 DEF EditRefused, EditGoes
  <2>6. CASE Unknown \notin Chosen(list)
    <3>1. CheckedHq(job[r], list) = [Onward(job[r]) EXCEPT !.hq = list]
      BY <2>6 DEF CheckedHq, Onward
    <3> QED  BY <3>1, <2>1, <2>4, <2>6 DEF EditChooses, EditGoes
  <2> QED  BY <2>5, <2>6
<1>5. CASE EndEdit(r)
  <2>1. /\ Editing(r) /\ job[r].todo = <<>> /\ FinishEdit(r)
        /\ job' = [job EXCEPT ![r] = NoJob]
        /\ UNCHANGED <<account, tableVars, overlapped>>
    BY <1>5 DEF EndEdit, FinishEdit, storeVars
  <2>2. Moved(r)
    BY <2>1, <1>a, EditMoves DEF EditStep
  <2>3. request'[r].at \notin {"edit", "edited"}
    BY <2>1, <1>a
    DEF FinishEdit, GoTo, Finish, SessionTypeOK, RequestOK, Work, Idle
  <2>4. ~Editing(r)'
    BY <2>3 DEF Editing
  <2> QED  BY <2>1, <2>2, <2>4, OthersKeep DEF EditEnds, EditGoes
<1>6. CASE WriteFails(r) \/ LookupFails(r)
  <2>1. /\ Editing(r) /\ IsAt(r, "edited") /\ job[r].todo # <<>> /\ overlapped' = overlapped
        /\ faults' = faults + 1 /\ UNCHANGED <<request, account, tableVars>>
    BY <1>6 DEF WriteFails, LookupFails, EditFails, MayFail, storeVars
  <2>2. PICK j \in {Stopped(job[r]), NotFound(job[r])} : job' = [job EXCEPT ![r] = Spoilt(j)]
    BY <1>6, <1>a DEF WriteFails, LookupFails, JobsAreKept
  <2>4. GoesOn(r, Spoilt(j))
    BY <2>1, <2>2, <1>c
  <2> QED  BY <2>1, <2>2, <2>4 DEF EditFailed, EditGoes
<1> QED  BY <1>1, <1>2, <1>3, <1>4, <1>5, <1>6

\* Every step is quiet, begins an edit or is one of an edit.
LEMMA NextGoes ==
    ASSUME ListInv, [Next]_vars
    PROVE  Quiet \/ \E r \in Request : BeginEdit(r) \/ EditGoes(r)
<1>1. SessionTypeOK
  BY DEF ListInv, SessionInv
<1>2. CASE UNCHANGED vars
  BY <1>1, <1>2, QuietElse
<1>3. CASE Next
  <2>1. \/ \E r \in Request : BeginOther(r) \/ Serve(r) \/ ResetPassword(r)
        \/ \E r \in Request : BeginEdit(r)
        \/ \E r \in Request : \/ WriteUsers(r) \/ StartEdit(r) \/ WriteTable(r) \/ CheckHq(r)
                              \/ EndEdit(r) \/ WriteFails(r) \/ LookupFails(r)
        \/ ReadList \/ StoreList \/ ExpireList
        \/ ExpireStep /\ UNCHANGED directoryVars
    BY <1>3 DEF Next, RequestStep, DirectoryStep
  <2> QED  BY <2>1, <1>1, QuietElse, QuietRequest, DirectoryGoes
<1> QED  BY <1>2, <1>3

-----------------------------------------------------------------------------
(***************************************************************************)
(* The types hold.                                                         *)
(***************************************************************************)
JobsTyped ==
    /\ job \in [Request -> JobType]
    /\ JobsInOrder

LEMMA JobChanges ==
    ASSUME JobsTyped, NEW r \in Request, NEW j \in JobType,
           Sorted(j.todo), Left(j.todo) \subseteq Planned(j.payload),
           job' = [job EXCEPT ![r] = j]
    PROVE  JobsTyped'
BY DEF JobsTyped, JobsInOrder

LEMMA OnwardType ==
    ASSUME NEW j \in JobType, Sorted(j.todo), Left(j.todo) \subseteq Planned(j.payload),
           j.todo # <<>>
    PROVE  /\ Onward(j) \in JobType /\ Sorted(Onward(j).todo)
           /\ Left(Onward(j).todo) \subseteq Planned(Onward(j).payload)
           /\ \A list \in Seq(Hq) : [Onward(j) EXCEPT !.hq = list] \in JobType
BY RestOfJob DEF Onward, JobType

\* A job whose list of groups is replaced.
LEMMA Replaced ==
    ASSUME NEW j \in JobType, NEW todo, Sorted(todo), Left(todo) \subseteq Planned(j.payload),
           NEW refused \in BOOLEAN
    PROVE  /\ LET k == [j EXCEPT !.todo = todo]
              IN k \in JobType /\ k.todo = todo /\ k.payload = j.payload
           /\ LET k == [j EXCEPT !.todo = todo, !.refused = refused]
              IN  /\ k \in JobType /\ k.todo = todo /\ k.payload = j.payload
                  /\ k.before = j.before /\ k.alone = j.alone /\ k.hq = j.hq
BY DEF JobType, Sorted

LEMMA StoppedType ==
    ASSUME NEW j \in JobType, Sorted(j.todo), Left(j.todo) \subseteq Planned(j.payload),
           j.todo # <<>>
    PROVE  /\ Stopped(j) \in JobType /\ Sorted(Stopped(j).todo)
           /\ Stopped(j).todo = RestAfterFailure(j.todo) /\ Stopped(j).payload = j.payload
           /\ Stopped(j).before = j.before /\ Stopped(j).alone = j.alone
           /\ Stopped(j).hq = j.hq
           /\ Left(Stopped(j).todo) \subseteq Planned(j.payload)
<1> DEFINE todo    == RestAfterFailure(j.todo)
           refused == Head(j.todo).fatal /\ Reports(j.payload)
<1>1. Sorted(todo) /\ Left(todo) \subseteq Planned(j.payload)
  BY RestOfJob
<1>2. refused \in BOOLEAN
  BY DEF Reports
<1>3. Stopped(j) = [j EXCEPT !.todo = todo, !.refused = refused]
  BY DEF Stopped
<1> HIDE DEF todo, refused
<1>4. /\ Stopped(j) \in JobType /\ Stopped(j).todo = todo /\ Stopped(j).payload = j.payload
      /\ Stopped(j).before = j.before /\ Stopped(j).alone = j.alone /\ Stopped(j).hq = j.hq
  <2>1. LET k == [j EXCEPT !.todo = todo, !.refused = refused]
        IN  /\ k \in JobType /\ k.todo = todo /\ k.payload = j.payload
            /\ k.before = j.before /\ k.alone = j.alone /\ k.hq = j.hq
    BY <1>1, <1>2 DEF JobType, Sorted
  <2> QED  BY <2>1, <1>3
<1> QED  BY <1>1, <1>4 DEF todo

LEMMA NotFoundType ==
    ASSUME NEW j \in JobType, Sorted(j.todo), Left(j.todo) \subseteq Planned(j.payload),
           j.todo # <<>>
    PROVE  /\ NotFound(j) \in JobType /\ Sorted(NotFound(j).todo)
           /\ Left(NotFound(j).todo) \subseteq Planned(NotFound(j).payload)
<1> DEFINE write == Head(Head(j.todo).writes)
           Fine(k) == /\ k \in JobType /\ Sorted(k.todo)
                      /\ Left(k.todo) \subseteq Planned(k.payload)
<1>1. ASSUME NEW todo, Sorted(todo), Left(todo) \subseteq Left(j.todo)
      PROVE  Fine([j EXCEPT !.todo = todo])
  <2>1. Left(todo) \subseteq Planned(j.payload)
    BY <1>1
  <2> DEFINE k == [j EXCEPT !.todo = todo]
  <2>2. k \in JobType /\ k.todo = todo /\ k.payload = j.payload
    BY <1>1, <2>1, Replaced
  <2> HIDE DEF k
  <2>3. Fine(k)
    BY <1>1, <2>1, <2>2
  <2> QED  BY <2>3 DEF k
<1> HIDE DEF write, Fine
<1>2. CASE write = "hq_check"
  <2>1. NotFound(j) = CheckedHq(j, j.payload.hq)
    BY <1>2 DEF NotFound, write
  <2>2. CASE Unknown \in Chosen(j.payload.hq)
    <3>1. NotFound(j) = Stopped(j)
      BY <2>1, <2>2 DEF CheckedHq
    <3> QED  BY <3>1, StoppedType
  <2>3. CASE Unknown \notin Chosen(j.payload.hq)
    <3> DEFINE list == j.payload.hq
               k == [Onward(j) EXCEPT !.hq = list]
    <3>1. NotFound(j) = k
      BY <2>1, <2>3 DEF CheckedHq, Onward
    <3>2. list \in Seq(Hq \cup {Unknown})
      BY DirectoryAssumption DEF JobType, PayloadOK
    <3>3. list \in Seq(Hq)
      BY <2>3, <3>2, KnownList
    <3> HIDE DEF list
    <3>4. k \in JobType /\ k.todo = Onward(j).todo /\ k.payload = Onward(j).payload
      BY <3>3, OnwardType DEF Onward, JobType
    <3>5. Sorted(k.todo) /\ Left(k.todo) \subseteq Planned(k.payload)
      BY <3>4, OnwardType
    <3> HIDE DEF k
    <3> QED  BY <3>1, <3>4, <3>5
  <2> QED  BY <2>2, <2>3
<1>3. CASE write = "roles_off"
  <2>1. NotFound(j) = [j EXCEPT !.todo = SubSeq(j.todo, 3, Len(j.todo))]
    BY <1>3 DEF NotFound, write
  <2> DEFINE rest == SubSeq(j.todo, 3, Len(j.todo))
  <2>2. Sorted(rest) /\ Left(rest) \subseteq Left(j.todo)
    BY PassedIs
  <2>3. NotFound(j) = [j EXCEPT !.todo = rest]
    BY <2>1
  <2> HIDE DEF rest
  <2>4. Fine(NotFound(j))
    BY <2>2, <2>3, <1>1
  <2> QED  BY <2>4 DEF Fine
<1>4. CASE write = "manager_off" /\ j.payload.op = "update"
  <2> DEFINE rest == Tolerant(<<"manager_off">>) \o Tail(j.todo)
  <2>1. NotFound(j) = [j EXCEPT !.todo = rest]
    BY <1>4 DEF NotFound, write
  <2>2. Sorted(rest) /\ Left(rest) \subseteq Left(j.todo)
    BY <1>4, ClearedIs DEF write
  <2> HIDE DEF rest
  <2>4. Fine(NotFound(j))
    BY <2>1, <2>2, <1>1
  <2> QED  BY <2>4 DEF Fine
<1>5. CASE write \notin {"hq_check", "roles_off"} /\ ~(write = "manager_off" /\ j.payload.op = "update")
  <2> DEFINE rest == Tail(j.todo)
  <2>1. NotFound(j) = [j EXCEPT !.todo = rest]
    BY <1>5 DEF NotFound, write
  <2>2. Sorted(rest) /\ Left(rest) \subseteq Left(j.todo)
    BY TailIs
  <2> HIDE DEF rest
  <2>4. Fine(NotFound(j))
    BY <2>1, <2>2, <1>1
  <2> QED  BY <2>4 DEF Fine
<1> QED  BY <1>2, <1>3, <1>4, <1>5

LEMMA SpoiltType ==
    ASSUME NEW j \in JobType
    PROVE  /\ Spoilt(j) \in JobType /\ Spoilt(j).todo = j.todo
           /\ Spoilt(j).payload = j.payload /\ ~Spoilt(j).alone
BY DEF Spoilt, JobType

LEMMA JobsTypedStep ==
    ASSUME TypeInv, [Next]_vars
    PROVE  JobsTyped'
<1>a. /\ ListInv /\ JobsTyped /\ Tables \in TablesType /\ mix \in Mixes
  BY DEF TypeInv, OwnTypeOK, JobsTyped, ListInv, SessionInv, SessionTypeOK
<1>1. CASE Quiet
  BY <1>1, <1>a DEF Quiet, JobsTyped, JobsInOrder
<1>2. ASSUME NEW r \in Request, BeginEdit(r) PROVE JobsTyped'
  <2> DEFINE alone == ~\E q \in Request : Editing(q)
  <2>1. PICK p \in mix.payloads :
           job' = [q \in Request |->
               IF q = r THEN [NoJob EXCEPT !.payload = p, !.todo = Groups(p),
                                           !.alone = alone,
                                           !.before = IF alone THEN Tables ELSE <<>>]
               ELSE IF Editing(q) THEN [job[q] EXCEPT !.alone = FALSE, !.before = <<>>]
               ELSE job[q]]
    BY <1>2 DEF BeginEdit
  <2>2. p \in Payload /\ alone \in BOOLEAN
    BY <1>a, DirectoryAssumption
  <2> HIDE DEF alone
  <2> DEFINE new == NewJob(p, alone)
             crossed(q) == [job[q] EXCEPT !.alone = FALSE, !.before = <<>>]
  <2>3. /\ new \in JobType /\ new.payload = p
        /\ Sorted(new.todo) /\ Left(new.todo) = Planned(p)
    BY <2>2, <1>a, NewJobIs
  <2>4. ASSUME NEW q \in Request
        PROVE  /\ crossed(q) \in JobType /\ crossed(q).todo = job[q].todo
               /\ crossed(q).payload = job[q].payload
    BY <1>a DEF JobsTyped, JobType
  <2>5. job' = [q \in Request |-> IF q = r THEN new
                                  ELSE IF Editing(q) THEN crossed(q) ELSE job[q]]
    BY <2>1 DEF NewJob
  <2> HIDE DEF new, crossed
  <2> QED  BY <2>3, <2>4, <2>5, <1>a DEF JobsTyped, JobsInOrder
<1>3. ASSUME NEW r \in Request, EditGoes(r) PROVE JobsTyped'
  <2>1. /\ job[r] \in JobType /\ Sorted(job[r].todo)
        /\ Left(job[r].todo) \subseteq Planned(job[r].payload)
    BY <1>a DEF JobsTyped, JobsInOrder
  <2>2. CASE EditFailed(r)
    <3>1. PICK j \in {Stopped(job[r]), NotFound(job[r])} :
               job[r].todo # <<>> /\ job' = [job EXCEPT ![r] = Spoilt(j)]
      BY <2>2 DEF EditFailed, GoesOn
    <3>2. j \in JobType /\ Sorted(j.todo) /\ Left(j.todo) \subseteq Planned(j.payload)
      <4>1. CASE j = Stopped(job[r])
        BY <4>1, <3>1, <2>1, StoppedType
      <4>2. CASE j = NotFound(job[r])
        BY <4>2, <3>1, <2>1, NotFoundType
      <4> QED  BY <3>1, <4>1, <4>2
    <3> QED  BY <3>1, <3>2, <1>a, SpoiltType, JobChanges
  <2>7. CASE EditRefused(r)
    <3>1. job[r].todo # <<>> /\ job' = [job EXCEPT ![r] = Stopped(job[r])]
      BY <2>7 DEF EditRefused, EditLooks, GoesOn
    <3> QED  BY <3>1, <2>1, <1>a, StoppedType, JobChanges
  <2>3. CASE EditWrites(r, NextWrite(r))
    BY <2>1, <2>3, <1>a, OnwardType, JobChanges DEF EditWrites, GoesOn
  <2>4. CASE EditChooses(r)
    <3>1. PICK list \in Allowed(job[r].payload.hq) :
               /\ job[r].todo # <<>> /\ Unknown \notin Chosen(list)
               /\ job' = [job EXCEPT ![r] = [Onward(job[r]) EXCEPT !.hq = list]]
      BY <2>4 DEF EditChooses, EditLooks, GoesOn
    <3>2. job[r].payload.hq \in Seq(Hq \cup {Unknown})
      BY <2>1, DirectoryAssumption DEF JobType, PayloadOK
    <3>3. list \in Seq(Hq)
      BY <3>1, <3>2, AllowedIs, KnownList
    <3> DEFINE j == [Onward(job[r]) EXCEPT !.hq = list]
    <3>4. j \in JobType /\ j.todo = Onward(job[r]).todo /\ j.payload = Onward(job[r]).payload
      BY <3>1, <3>3, <2>1, OnwardType DEF Onward, JobType
    <3>5. Sorted(j.todo) /\ Left(j.todo) \subseteq Planned(j.payload)
      BY <3>1, <3>4, <2>1, OnwardType
    <3> HIDE DEF j
    <3>6. job' = [job EXCEPT ![r] = j]
      BY <3>1 DEF j
    <3> QED  BY <3>4, <3>5, <3>6, <1>a, JobChanges
  <2>5. CASE EditStarts(r)
    BY <2>1, <2>5, <1>a, JobChanges DEF EditStarts, GoesOn
  <2>6. CASE EditEnds(r)
    <3>1. Left(NoJob.todo) \subseteq Planned(NoJob.payload)
      BY NoJobIs
    <3> QED  BY <3>1, <2>6, <1>a, NoJobIs, JobChanges DEF EditEnds
  <2> QED  BY <1>3, <2>2, <2>3, <2>4, <2>5, <2>6, <2>7 DEF EditGoes
<1> QED  BY <1>a, <1>1, <1>2, <1>3, NextGoes

LEMMA TablesTypedStep ==
    ASSUME TypeInv, [Next]_vars
    PROVE  (Tables \in TablesType)' /\ (exists \in BOOLEAN)'
<1>a. ListInv /\ Tables \in TablesType /\ exists \in BOOLEAN /\ JobsTyped
  BY DEF TypeInv, OwnTypeOK, JobsTyped
<1>b. account' \in {"active", "inactive"}
  BY ListInvStep DEF TypeInv, ListInv, SessionInv, SessionTypeOK
<1>c. CASE UNCHANGED tableVars
  BY <1>a, <1>b, <1>c DEF tableVars, Tables, TablesType
<1>1. CASE Quiet
  BY <1>1, <1>c DEF Quiet
<1>2. ASSUME NEW r \in Request, BeginEdit(r) PROVE UNCHANGED tableVars
  BY <1>2 DEF BeginEdit
<1>3. ASSUME NEW r \in Request, EditGoes(r), ~EditWrites(r, NextWrite(r))
      PROVE  UNCHANGED tableVars
  BY <1>3 DEF EditGoes, EditFailed, EditChooses, EditRefused, EditLooks, EditStarts, EditEnds
<1>4. ASSUME NEW r \in Request, EditWrites(r, NextWrite(r))
      PROVE  (Tables \in TablesType)' /\ (exists \in BOOLEAN)'
  <2>1. job[r] \in JobType /\ Sorted(job[r].todo) /\ job[r].todo # <<>>
        /\ Left(job[r].todo) \subseteq Planned(job[r].payload)
    BY <1>4, <1>a DEF JobsTyped, JobsInOrder, EditWrites
  <2>2. NextWrite(r) \in Planned(job[r].payload)
    BY <2>1, RestIs DEF NextWrite
  <2>3. PayloadOK(job[r].payload)
    BY <2>1, DirectoryAssumption DEF JobType
  <2>4. Perform(r, NextWrite(r))
    BY <1>4 DEF EditWrites
  <2> QED  BY <2>2, <2>3, <2>4, <1>a, <1>b, PerformType
<1> QED  BY <1>a, <1>c, <1>1, <1>2, <1>3, <1>4, NextGoes

\* The list, its reader and the bounds.
LEMMA ListTypedStep ==
    ASSUME OwnTypeOK, mix \in Mixes, Next
    PROVE  /\ (edits \in 0..mix.edits)'
           /\ (listed \in Copy)' /\ (copies \in [Process -> Copy])' /\ (reader \in Copy)'
           /\ (overlapped \in BOOLEAN)' /\ (astray \in BOOLEAN)'
<1> USE DEF OwnTypeOK
<1>1. mix' = mix /\ mix.edits \in Nat
  BY NextBounded, DirectoryAssumption DEF Bounded
<1>2. edits' = edits \/ (edits < mix.edits /\ edits' = edits + 1)
  BY DEF Next, RequestStep, Serve, DirectoryStep, BeginOther, BeginEdit, PurgeList, WriteUsers,
         StartEdit, WriteTable, CheckHq, EndEdit, ResetPassword, WriteFails, LookupFails, ReadList,
         StoreList, ExpireList, directoryVars
<1>3. overlapped' \in BOOLEAN
  BY DEF Next, RequestStep, Serve, DirectoryStep, BeginOther, BeginEdit, PurgeList, WriteUsers,
         StartEdit, WriteTable, CheckHq, EndEdit, ResetPassword, WriteFails, LookupFails, ReadList,
         StoreList, ExpireList, directoryVars
<1>4. /\ listed' \in Copy /\ copies' \in [Process -> Copy] /\ reader' \in Copy
      /\ astray' \in BOOLEAN
  <2> USE DEF Copy
  <2>1. CASE ListAges
    <3>1. astray' = (astray \/ reader # "none")
      BY <2>1 DEF ListAges
    <3>2. /\ listed' = Age(listed) /\ reader' = Age(reader)
          /\ copies' = [p \in Process |-> Age(copies[p])]
      BY <2>1 DEF ListAges
    <3> QED  BY <3>1, <3>2 DEF Age
  <2>2. CASE UNCHANGED listVars
    BY <2>2 DEF listVars
  <2>3. CASE ReadList
    BY <2>3 DEF ReadList
  <2>4. CASE StoreList
    BY <2>4 DEF StoreList
  <2>5. CASE ExpireList
    BY <2>5 DEF ExpireList
  <2>6. ASSUME NEW r \in Request, EndEdit(r)
        PROVE  /\ listed' \in Copy /\ copies' \in [Process -> Copy] /\ reader' \in Copy
               /\ astray' \in BOOLEAN
    BY <2>6 DEF EndEdit
  <2>7. ASSUME NEW r \in Request, PurgeList(r)
        PROVE  /\ listed' \in Copy /\ copies' \in [Process -> Copy] /\ reader' \in Copy
               /\ astray' \in BOOLEAN
    <3>1. copies' = [copies EXCEPT ![Proc(r)] = "none"] /\ reader' = reader
      BY <2>7 DEF PurgeList
    <3>2. listed' \in {"none", listed} /\ astray' \in BOOLEAN
      BY <2>7 DEF PurgeList
    <3> QED  BY <3>1, <3>2
  <2>8. \/ ListAges \/ UNCHANGED listVars
        \/ ReadList \/ StoreList \/ ExpireList \/ \E r \in Request : PurgeList(r) \/ EndEdit(r)
    BY DEF Next, RequestStep, Serve, DirectoryStep, BeginOther, BeginEdit, WriteUsers,
           StartEdit, WriteTable, CheckHq, ResetPassword, WriteFails, LookupFails, directoryVars
  <2> QED  BY <2>1, <2>2, <2>3, <2>4, <2>5, <2>6, <2>7, <2>8
<1> QED  BY <1>1, <1>2, <1>3, <1>4

LEMMA TypeInvInitially == Init => TypeInv
<1> SUFFICES ASSUME Init PROVE TypeInv
  OBVIOUS
<1>1. ListInv
  BY ListInvInitially
<1>2. /\ exists \in BOOLEAN /\ roles \in [Role -> RowState]
      /\ managers \in [Manager -> RowState] /\ hqs \in [Hq -> RowState]
  BY DEF Init, RowState
<1>3. account \in {"active", "inactive"} /\ depots \in SUBSET Depot
  BY DEF Init
<1>4. Tables \in TablesType
  BY <1>2, <1>3 DEF Tables, TablesType
<1>5. JobsTyped
  <2>1. \A r \in Request : job[r] = NoJob
    BY DEF Init
  <2> QED  BY <2>1, NoJobIs DEF Init, JobsTyped, JobsInOrder
<1>6. edits \in 0..mix.edits
  BY DirectoryAssumption DEF Init, SessionInit
<1>7. listed \in Copy /\ copies \in [Process -> Copy] /\ reader \in Copy
  BY DEF Init, Copy
<1> QED  BY <1>1, <1>2, <1>4, <1>5, <1>6, <1>7 DEF Init, TypeInv, OwnTypeOK, JobsTyped

LEMMA TypeInvStep == TypeInv /\ [Next]_vars => TypeInv'
<1> SUFFICES ASSUME TypeInv, [Next]_vars PROVE TypeInv'
  OBVIOUS
<1>1. ListInv'
  BY ListInvStep DEF TypeInv
<1>2. JobsTyped' /\ (Tables \in TablesType)' /\ (exists \in BOOLEAN)'
  BY JobsTypedStep, TablesTypedStep
<1>3. /\ (edits \in 0..mix.edits)'
      /\ (listed \in Copy)' /\ (copies \in [Process -> Copy])' /\ (reader \in Copy)'
      /\ (overlapped \in BOOLEAN)' /\ (astray \in BOOLEAN)'
  <2>1. OwnTypeOK /\ mix \in Mixes
    BY DEF TypeInv, ListInv, SessionInv, SessionTypeOK
  <2>2. CASE Next
    BY <2>1, <2>2, ListTypedStep
  <2>3. CASE UNCHANGED vars
    BY <2>1, <2>3 DEF OwnTypeOK, vars, sessionVars, boundVars, directoryVars, listVars
  <2> QED  BY <2>2, <2>3
<1> QED  BY <1>1, <1>2, <1>3 DEF TypeInv, OwnTypeOK, JobsTyped

\* The type invariant of the directory: its tables, the edits under way and the
\* cached list of users (users/service.py, users/router.py).
THEOREM DirectoryTypeCorrect == Spec => []TypeOK
<1>1. TypeInv => TypeOK
  BY DEF TypeInv, ListInv, SessionInv, OwnTypeOK, TypeOK
<1> QED  BY TypeInvInitially, TypeInvStep, <1>1, PTL DEF Spec

-----------------------------------------------------------------------------
(***************************************************************************)
(* Edits that nothing disturbs.  Until one ends, each table is what it was *)
(* when the edit began, with the writes done so far: those planned that    *)
(* are not left.                                                           *)
(***************************************************************************)
\* An edit begins, and disturbs those under way.
EditBegins(r, p, alone) ==
    /\ ~Editing(r) /\ Editing(r)'
    /\ request'[r].kind = KindOf(p) /\ request'[r].at = "edit"
    /\ \A q \in Request \ {r} : Keeps(q)
    /\ alone <=> ~\E q \in Request : Editing(q)
    /\ ((p.op = "create") <=> ~exists) /\ p \in mix.payloads
    /\ job'[r] = NewJob(p, alone)
    /\ \A q \in Request \ {r} : Editing(q) => ~job'[q].alone
    /\ overlapped' = (overlapped \/ ~alone)
    /\ UNCHANGED <<account, tableVars>>

LEMMA EditBeginsSo ==
    ASSUME TypeInv, NEW r \in Request, BeginEdit(r)
    PROVE  \E p \in Payload, alone \in BOOLEAN : EditBegins(r, p, alone)
<1>a. /\ SessionTypeOK /\ job \in [Request -> JobType] /\ mix \in Mixes
  BY DEF TypeInv, OwnTypeOK, ListInv, SessionInv, SessionTypeOK
<1> DEFINE alone == ~\E q \in Request : Editing(q)
<1>1. PICK p \in mix.payloads :
         /\ request'[r].kind = KindOf(p)
         /\ (p.op = "create") <=> ~exists
         /\ job' = [q \in Request |->
               IF q = r THEN [NoJob EXCEPT !.payload = p, !.todo = Groups(p),
                                           !.alone = alone,
                                           !.before = IF alone THEN Tables ELSE <<>>]
               ELSE IF Editing(q) THEN [job[q] EXCEPT !.alone = FALSE, !.before = <<>>]
               ELSE job[q]]
         /\ overlapped' = (overlapped \/ ~alone)
  BY DEF BeginEdit
<1>2. p \in Payload /\ alone \in BOOLEAN
  BY <1>a, DirectoryAssumption
<1>3. Begin(r) /\ UNCHANGED tableVars
  BY DEF BeginEdit
<1>4. /\ request[r] = Idle /\ \A q \in Request \ {r} : request'[q] = request[q]
      /\ request'[r].at = Entry(request'[r].kind)
  BY <1>3, <1>a, BeginRecord DEF SessionTypeOK, RequestOK
<1>5. KindOf(p) \in Administration \ {"reset"}
  BY DEF KindOf, Administration
<1>6. request'[r].at = "edit"
  BY <1>1, <1>4, <1>5 DEF Entry, Administration
<1>7. ~Editing(r) /\ Editing(r)' /\ \A q \in Request \ {r} : Keeps(q)
  <2>1. ~Editing(r)
    BY <1>4 DEF Editing, Idle
  <2>2. Editing(r)'
    BY <1>1, <1>5, <1>6 DEF Editing
  <2>3. \A q \in Request \ {r} : Keeps(q)
    BY <1>4 DEF Editing, Keeps
  <2> QED  BY <2>1, <2>2, <2>3
<1>8. account' = account
  BY <1>3, OtherBounded
<1>9. job'[r] = NewJob(p, alone)
  BY <1>1 DEF NewJob
<1>10. \A q \in Request \ {r} : Editing(q) => ~job'[q].alone
  <2> SUFFICES ASSUME NEW q \in Request \ {r}, Editing(q) PROVE ~job'[q].alone
    OBVIOUS
  <2>1. job'[q] = [job[q] EXCEPT !.alone = FALSE, !.before = <<>>]
    BY <1>1
  <2> QED  BY <2>1, <1>a DEF JobType
<1>11. (p.op = "create") <=> ~exists
  BY <1>1
<1>12. overlapped' = (overlapped \/ ~alone)
  BY <1>1
<1> HIDE DEF alone
<1>13. alone <=> ~\E q \in Request : Editing(q)
  BY DEF alone
<1>14. EditBegins(r, p, alone)
  BY <1>1, <1>3, <1>6, <1>7, <1>8, <1>9, <1>10, <1>11, <1>12, <1>13 DEF EditBegins
<1> QED  BY <1>2, <1>14

\* What an edit has done to each table when the writes in L are left.
Done(p, L, w) == w \in Planned(p) /\ w \notin L

RolesThen(p, rows, L) ==
    LET turned == IF Done(p, L, "roles_status") THEN Turn(rows, StatusOf(p)) ELSE rows
        off    == IF Done(p, L, "roles_off") THEN Turn(turned, "off") ELSE turned
    IN IF Done(p, L, "role_on") THEN Put(off, p.role, "on") ELSE off

ManagersThen(p, rows, L) ==
    LET turned == IF Done(p, L, "managers_status") THEN Turn(rows, StatusOf(p)) ELSE rows
        off    == IF Done(p, L, "manager_off") THEN NoRows(turned) ELSE turned
    IN IF Done(p, L, "manager_on") THEN Put(off, p.manager, "on") ELSE off

DepotsThen(p, rows, L) ==
    LET off == IF Done(p, L, "depot_off") THEN {} ELSE rows
    IN IF Done(p, L, "depot_on") THEN off \cup {p.depot} ELSE off

Switched(rows, chosen) == [h \in Hq |-> IF h \in chosen THEN "on" ELSE rows[h]]

HqsThen(p, rows, chosen, L) ==
    LET turned == IF Done(p, L, "hqs_status") THEN Turn(rows, StatusOf(p)) ELSE rows
        off    == IF Done(p, L, "hq_off") THEN NoRows(turned) ELSE turned
    IN IF Done(p, L, "hq_on") THEN Switched(off, chosen) ELSE off

\* Nothing is done out of order.
Late(p, L) ==
    \A u \in L, v \in Planned(p) : Rank(u) <= Rank(v) => v \in L

\* The first of what is left.
First(p, L, w) ==
    /\ w \in L /\ L \subseteq Planned(p) /\ Late(p, L)
    /\ \A v \in L \ {w} : Rank(w) < Rank(v)

LEMMA PlannedAreWrites ==
    ASSUME NEW p PROVE Planned(p) \subseteq Write
BY DEF Planned, StatusWrites, RoleWrites, ManagerWrites, DepotWrites, ListWrites, Write

LEMMA StaysLate ==
    ASSUME NEW p, NEW L, NEW w, First(p, L, w)
    PROVE  Late(p, L \ {w}) /\ L \ {w} \subseteq Planned(p)
<1>1. \A v \in Planned(p) : Rank(v) \in Nat
  BY PlannedAreWrites, RankIsNumber
<1> QED  BY <1>1 DEF First, Late

\* Whoever does the first of what is left has done nothing that comes later.
LEMMA NotDone ==
    ASSUME NEW p, NEW L, NEW w, First(p, L, w), NEW v, Rank(w) <= Rank(v)
    PROVE  /\ ~Done(p, L, v)
           /\ Done(p, L \ {w}, v) <=> v = w
BY DEF First, Late, Done

LEMMA DoneBefore ==
    ASSUME NEW p, NEW L, NEW w, First(p, L, w), NEW v, v # w
    PROVE  Done(p, L \ {w}, v) <=> Done(p, L, v)
BY DEF Done

\* The writes before the first that is left are done.
LEMMA BeforeFirst ==
    ASSUME NEW p, NEW L, NEW w, First(p, L, w), NEW v \in Write, Rank(v) < Rank(w)
    PROVE  v \notin L
<1>1. w \in Write
  BY PlannedAreWrites DEF First
<1> QED  BY <1>1, RankIsNumber DEF First

\* The group that chooses the headquarters is the last.
LEMMA LastGroup ==
    ASSUME NEW todo, Sorted(todo), todo # <<>>, Head(Head(todo).writes) = "hq_check"
    PROVE  RestAfterFailure(todo) = <<>>
<1>1. /\ todo \in Seq(Group) /\ Len(todo) \in Nat /\ 1 \in 1..Len(todo)
      /\ Head(todo) = todo[1] /\ todo[1] \in Group
  BY DEF Sorted
<1>2. "hq_check" \in WritesOf(todo[1])
  <2>1. InOrder(todo[1]) /\ todo[1].writes \in Seq(Write)
    BY <1>1 DEF Sorted, Group
  <2>2. todo[1].writes # <<>> /\ todo[1].writes[1] = "hq_check"
    BY <1>1, <2>1 DEF InOrder
  <2> QED  BY <2>1, <2>2 DEF WritesOf
<1>3. Len(todo) = 1
  BY <1>1, <1>2 DEF Sorted
<1>4. Tail(todo) = <<>>
  BY <1>1, <1>3
<1> QED  BY <1>4 DEF RestAfterFailure

\* The first write that is left changes the tables by what Perform does.
LEMMA RolesGoOn ==
    ASSUME NEW p, NEW rows, NEW L, NEW w, First(p, L, w)
    PROVE  RolesThen(p, rows, L \ {w}) =
               CASE w = "roles_status" -> Turn(RolesThen(p, rows, L), StatusOf(p))
                 [] w = "roles_off"    -> Turn(RolesThen(p, rows, L), "off")
                 [] w = "role_on"      -> Put(RolesThen(p, rows, L), p.role, "on")
                 [] OTHER              -> RolesThen(p, rows, L)
<1>1. CASE w = "roles_status"
  BY <1>1, NotDone, Ranks DEF RolesThen
<1>2. CASE w = "roles_off"
  BY <1>2, NotDone, DoneBefore, Ranks DEF RolesThen
<1>3. CASE w = "role_on"
  BY <1>3, NotDone, DoneBefore, Ranks DEF RolesThen
<1>4. CASE w \notin {"roles_status", "roles_off", "role_on"}
  BY <1>4, DoneBefore DEF RolesThen
<1> QED  BY <1>1, <1>2, <1>3, <1>4

LEMMA ManagersGoOn ==
    ASSUME NEW p, NEW rows, NEW L, NEW w, First(p, L, w)
    PROVE  ManagersThen(p, rows, L \ {w}) =
               CASE w = "managers_status" -> Turn(ManagersThen(p, rows, L), StatusOf(p))
                 [] w = "manager_off"     -> NoRows(ManagersThen(p, rows, L))
                 [] w = "manager_on"      -> Put(ManagersThen(p, rows, L), p.manager, "on")
                 [] OTHER                 -> ManagersThen(p, rows, L)
<1>1. CASE w = "managers_status"
  BY <1>1, NotDone, Ranks DEF ManagersThen
<1>2. CASE w = "manager_off"
  BY <1>2, NotDone, DoneBefore, Ranks DEF ManagersThen
<1>3. CASE w = "manager_on"
  BY <1>3, NotDone, DoneBefore, Ranks DEF ManagersThen
<1>4. CASE w \notin {"managers_status", "manager_off", "manager_on"}
  BY <1>4, DoneBefore DEF ManagersThen
<1> QED  BY <1>1, <1>2, <1>3, <1>4

LEMMA DepotsGoOn ==
    ASSUME NEW p, NEW rows, NEW L, NEW w, First(p, L, w)
    PROVE  /\ w = "depot_off" => DepotsThen(p, rows, L \ {w}) = {}
           /\ w = "depot_on" =>
                 DepotsThen(p, rows, L \ {w}) = DepotsThen(p, rows, L) \cup {p.depot}
           /\ w \notin {"depot_off", "depot_on"} =>
                 DepotsThen(p, rows, L \ {w}) = DepotsThen(p, rows, L)
<1>1. CASE w = "depot_off"
  BY <1>1, NotDone, Ranks DEF DepotsThen
<1>2. CASE w = "depot_on"
  BY <1>2, NotDone, DoneBefore, Ranks DEF DepotsThen
<1>3. CASE w \notin {"depot_off", "depot_on"}
  BY <1>3, DoneBefore DEF DepotsThen
<1> QED  BY <1>1, <1>2, <1>3

LEMMA HqsGoOn ==
    ASSUME NEW p, NEW rows, NEW chosen, NEW L, NEW w, First(p, L, w)
    PROVE  HqsThen(p, rows, chosen, L \ {w}) =
               CASE w = "hqs_status" -> Turn(HqsThen(p, rows, chosen, L), StatusOf(p))
                 [] w = "hq_off"     -> NoRows(HqsThen(p, rows, chosen, L))
                 [] w = "hq_on"      -> Switched(HqsThen(p, rows, chosen, L), chosen)
                 [] OTHER            -> HqsThen(p, rows, chosen, L)
<1>1. CASE w = "hqs_status"
  BY <1>1, NotDone, Ranks DEF HqsThen
<1>2. CASE w = "hq_off"
  BY <1>2, NotDone, DoneBefore, Ranks DEF HqsThen
<1>3. CASE w = "hq_on"
  BY <1>3, NotDone, DoneBefore, Ranks DEF HqsThen
<1>4. CASE w \notin {"hqs_status", "hq_off", "hq_on"}
  BY <1>4, DoneBefore DEF HqsThen
<1> QED  BY <1>1, <1>2, <1>3, <1>4

\* The list is chosen before any headquarters is switched on.
LEMMA ChosenFirst ==
    ASSUME NEW p, NEW rows, NEW old, NEW new, NEW L, First(p, L, "hq_check")
    PROVE  HqsThen(p, rows, new, L \ {"hq_check"}) = HqsThen(p, rows, old, L)
<1>1. ~Done(p, L, "hq_on") /\ ~Done(p, L \ {"hq_check"}, "hq_on")
  BY NotDone, DoneBefore, Ranks
<1>2. \A w \in {"hqs_status", "hq_off"} :
          Done(p, L \ {"hq_check"}, w) <=> Done(p, L, w)
  BY DoneBefore
<1> QED  BY <1>1, <1>2 DEF HqsThen

\* Nothing is done when an edit begins.
LEMMA NothingDone ==
    ASSUME NEW p, NEW b, NEW chosen
    PROVE  /\ RolesThen(p, b.roles, Planned(p)) = b.roles
           /\ ManagersThen(p, b.managers, Planned(p)) = b.managers
           /\ DepotsThen(p, b.depots, Planned(p)) = b.depots
           /\ HqsThen(p, b.hqs, chosen, Planned(p)) = b.hqs
<1>1. \A w : ~Done(p, Planned(p), w)
  BY DEF Done
<1> QED  BY <1>1 DEF RolesThen, ManagersThen, DepotsThen, HqsThen

\* What is planned for a table is what its payload asks for.
LEMMA PlannedIs ==
    ASSUME NEW p, PayloadOK(p)
    PROVE  /\ "roles_status" \in Planned(p) <=> StatusOf(p) # Keep
           /\ "managers_status" \in Planned(p) <=> StatusOf(p) # Keep
           /\ "hqs_status" \in Planned(p) <=> StatusOf(p) # Keep
           /\ "roles_off" \in Planned(p) <=> p.role \in Role
           /\ "role_on" \in Planned(p) <=> p.role \in Role
           /\ "manager_off" \in Planned(p) <=> p.manager \in Manager \/ Clears(p)
           /\ "manager_on" \in Planned(p) <=> p.manager \in Manager
           /\ "depot_off" \in Planned(p) <=> p.depot \in Depot \cup {Clear}
           /\ "depot_on" \in Planned(p) <=> p.depot \in Depot
           /\ "hq_off" \in Planned(p) <=> ~(~p.hqGiven \/ (p.op = "create" /\ p.hq = <<>>))
           /\ "hq_check" \in Planned(p) <=> "hq_off" \in Planned(p)
           /\ "hq_on" \in Planned(p) <=> p.hqGiven /\ p.hq # <<>>
           /\ p.op = "create" => StatusOf(p) = Keep
           /\ p.op = "create" => "users" \in Planned(p)
<1>1. /\ "roles_status" \in Planned(p) <=> "roles_status" \in StatusWrites(p)
      /\ "managers_status" \in Planned(p) <=> "managers_status" \in StatusWrites(p)
      /\ "hqs_status" \in Planned(p) <=> "hqs_status" \in StatusWrites(p)
      /\ "roles_off" \in Planned(p) <=> "roles_off" \in RoleWrites(p)
      /\ "role_on" \in Planned(p) <=> "role_on" \in RoleWrites(p)
      /\ "manager_off" \in Planned(p) <=> "manager_off" \in ManagerWrites(p)
      /\ "manager_on" \in Planned(p) <=> "manager_on" \in ManagerWrites(p)
      /\ "depot_off" \in Planned(p) <=> "depot_off" \in DepotWrites(p)
      /\ "depot_on" \in Planned(p) <=> "depot_on" \in DepotWrites(p)
      /\ "hq_off" \in Planned(p) <=> "hq_off" \in ListWrites(p)
      /\ "hq_check" \in Planned(p) <=> "hq_check" \in ListWrites(p)
      /\ "hq_on" \in Planned(p) <=> "hq_on" \in ListWrites(p)
      /\ "users" \in Planned(p) <=> p.op # "headquarters"
  BY DEF Planned, StatusWrites, RoleWrites, ManagerWrites, DepotWrites, ListWrites
<1>2. /\ "roles_status" \in Planned(p) <=> StatusOf(p) # Keep
      /\ "managers_status" \in Planned(p) <=> StatusOf(p) # Keep
      /\ "hqs_status" \in Planned(p) <=> StatusOf(p) # Keep
      /\ "roles_off" \in Planned(p) <=> p.role \in Role
      /\ "role_on" \in Planned(p) <=> p.role \in Role
  BY <1>1 DEF StatusWrites, RoleWrites
<1>3. /\ "manager_off" \in Planned(p) <=> p.manager \in Manager \/ Clears(p)
      /\ "manager_on" \in Planned(p) <=> p.manager \in Manager
      /\ "depot_off" \in Planned(p) <=> p.depot \in Depot \cup {Clear}
      /\ "depot_on" \in Planned(p) <=> p.depot \in Depot
  BY <1>1, NamesDiffer DEF ManagerWrites, Clears, DepotWrites
<1>4. /\ "hq_off" \in Planned(p) <=> ~(~p.hqGiven \/ (p.op = "create" /\ p.hq = <<>>))
      /\ "hq_check" \in Planned(p) <=> "hq_off" \in Planned(p)
      /\ "hq_on" \in Planned(p) <=> p.hqGiven /\ p.hq # <<>>
  BY <1>1 DEF ListWrites
<1>5. p.op = "create" => StatusOf(p) = Keep
  BY DEF PayloadOK, StatusOf
<1> QED  BY <1>1, <1>2, <1>3, <1>4, <1>5

\* When nothing is left, the tables are what the edit should come to.
LEMMA TurnTwice ==
    ASSUME NEW S, NEW rows \in [S -> RowState], NEW status \in {"on", "off"}, NEW then \in RowState
    PROVE  Turn(Turn(rows, status), then) = Turn(rows, then)
BY DEF Turn, RowState

\* No headquarters are given, and the lists that may be taken for those given.
NoList(p)     == ~p.hqGiven \/ (p.op = "create" /\ p.hq = <<>>)
GivenLists(p) == {p.hq} \cup (IF p.hq = <<>> THEN {} ELSE {<<p.hq[Len(p.hq)]>>})

LEMMA AllDone ==
    ASSUME NEW p, PayloadOK(p), NEW b \in TablesType, NEW chosen
    PROVE  /\ RolesThen(p, b.roles, {}) = Applied(p, b).roles
           /\ ManagersThen(p, b.managers, {}) = Applied(p, b).managers
           /\ DepotsThen(p, b.depots, {}) = Applied(p, b).depots
           /\ NoList(p) => HqsThen(p, b.hqs, chosen, {}) \in HqOutcome(p, b)
           /\ \A list \in GivenLists(p) :
                 ~NoList(p) /\ chosen = Chosen(list) /\ Unknown \notin chosen
                     => HqsThen(p, b.hqs, chosen, {}) \in HqOutcome(p, b)
<1>a. /\ b.roles \in [Role -> RowState] /\ b.managers \in [Manager -> RowState]
      /\ b.hqs \in [Hq -> RowState]
  BY DEF TablesType
<1>c. StatusOf(p) \in {Keep, "on", "off"} /\ Keep # "on" /\ Keep # "off"
  BY DEF StatusOf, Truth, Keep
<1>d. \A w : Done(p, {}, w) <=> w \in Planned(p)
  BY DEF Done
<1>e. \A rows : WithStatus(p, rows) = IF StatusOf(p) # Keep THEN Turn(rows, StatusOf(p)) ELSE rows
  BY PlannedIs DEF WithStatus
<1>1. RolesThen(p, b.roles, {}) = Applied(p, b).roles
  <2>1. Applied(p, b).roles = IF p.role \notin Role THEN WithStatus(p, b.roles)
                              ELSE [Turn(b.roles, "off") EXCEPT ![p.role] = "on"]
    BY DEF Applied
  <2>2. CASE p.role \notin Role
    <3>1. RolesThen(p, b.roles, {}) = IF StatusOf(p) # Keep THEN Turn(b.roles, StatusOf(p))
                                      ELSE b.roles
      BY <2>2, <1>d, PlannedIs DEF RolesThen
    <3> QED  BY <3>1, <2>1, <2>2, <1>e
  <2>3. CASE p.role \in Role
    <3>1. RolesThen(p, b.roles, {}) =
             Put(Turn(IF StatusOf(p) # Keep THEN Turn(b.roles, StatusOf(p)) ELSE b.roles, "off"),
                 p.role, "on")
      BY <2>3, <1>d, PlannedIs DEF RolesThen
    <3>2. Turn(IF StatusOf(p) # Keep THEN Turn(b.roles, StatusOf(p)) ELSE b.roles, "off")
             = Turn(b.roles, "off")
      BY <1>a, <1>c, TurnTwice DEF RowState
    <3> QED  BY <3>1, <3>2, <2>1, <2>3 DEF Put
  <2> QED  BY <2>2, <2>3
<1>2. ManagersThen(p, b.managers, {}) = Applied(p, b).managers
  <2>1. Applied(p, b).managers =
           CASE p.manager \in Manager -> Only(b.managers, p.manager)
             [] Clears(p)             -> Turn(b.managers, "none")
             [] OTHER                 -> WithStatus(p, b.managers)
    BY DEF Applied, Clears
  <2>c. Clears(p) => p.manager \notin Manager
    BY NamesDiffer DEF Clears
  <2>2. CASE p.manager \notin Manager /\ ~Clears(p)
    <3>1. ManagersThen(p, b.managers, {}) =
             IF StatusOf(p) # Keep THEN Turn(b.managers, StatusOf(p)) ELSE b.managers
      BY <2>2, <1>d, PlannedIs DEF ManagersThen
    <3>2. Applied(p, b).managers = WithStatus(p, b.managers)
      BY <2>1, <2>2
    <3> QED  BY <3>1, <3>2, <1>e
  <2> DEFINE turned == IF StatusOf(p) # Keep THEN Turn(b.managers, StatusOf(p))
                       ELSE b.managers
  <2>3. turned \in [Manager -> RowState]
    BY <1>a, <1>c, TurnIs DEF RowState
  <2>4. CASE Clears(p)
    <3>1. ManagersThen(p, b.managers, {}) = NoRows(turned)
      BY <2>4, <2>c, <1>d, PlannedIs DEF ManagersThen
    <3>2. NoRows(turned) = [m \in Manager |-> "none"]
      BY <2>3, NoRowsIs
    <3>3. Turn(b.managers, "none") = [m \in Manager |-> "none"]
      BY <1>a DEF Turn
    <3>4. Applied(p, b).managers = Turn(b.managers, "none")
      BY <2>1, <2>4, <2>c
    <3> QED  BY <3>1, <3>2, <3>3, <3>4
  <2>5. CASE p.manager \in Manager
    <3>1. ManagersThen(p, b.managers, {}) = Put(NoRows(turned), p.manager, "on")
      BY <2>5, <1>d, PlannedIs DEF ManagersThen
    <3>2. NoRows(turned) = [m \in Manager |-> "none"]
      BY <2>3, NoRowsIs
    <3>3. Applied(p, b).managers = Only(b.managers, p.manager)
      BY <2>1, <2>5, <2>c
    <3>4. Only(b.managers, p.manager) = [m \in Manager |-> IF m = p.manager THEN "on" ELSE "none"]
      BY <1>a DEF Only
    <3> HIDE DEF turned
    <3>5. Put([m \in Manager |-> "none"], p.manager, "on")
             = [m \in Manager |-> IF m = p.manager THEN "on" ELSE "none"]
      BY DEF Put
    <3> QED  BY <3>1, <3>2, <3>3, <3>4, <3>5
  <2> QED  BY <2>2, <2>4, <2>5
<1>3. DepotsThen(p, b.depots, {}) = Applied(p, b).depots
  <2>1. Applied(p, b).depots =
           CASE p.depot \in Depot -> {p.depot}
             [] p.depot = Clear   -> {}
             [] OTHER             -> b.depots
    BY DEF Applied
  <2>2. CASE p.depot \in Depot
    BY <2>1, <2>2, <1>d, NamesDiffer, PlannedIs DEF DepotsThen
  <2>3. CASE p.depot = Clear
    BY <2>1, <2>3, <1>d, NamesDiffer, PlannedIs DEF DepotsThen
  <2>4. CASE p.depot \notin Depot \cup {Clear}
    BY <2>1, <2>4, <1>d, PlannedIs DEF DepotsThen
  <2> QED  BY <2>2, <2>3, <2>4
<1> DEFINE turned == IF StatusOf(p) # Keep THEN Turn(b.hqs, StatusOf(p)) ELSE b.hqs
<1>t. turned \in [Hq -> RowState] /\ turned = WithStatus(p, b.hqs)
  BY <1>a, <1>c, <1>e, TurnIs DEF RowState
<1>4. ASSUME NoList(p) PROVE HqsThen(p, b.hqs, chosen, {}) \in HqOutcome(p, b)
  <2>1. HqsThen(p, b.hqs, chosen, {}) = turned
    BY <1>4, <1>d, PlannedIs DEF HqsThen, NoList
  <2>2. HqOutcome(p, b) = {WithStatus(p, b.hqs)}
    BY <1>4 DEF HqOutcome, NoList
  <2> QED  BY <2>1, <2>2, <1>t
<1>5. ASSUME NEW list \in GivenLists(p), ~NoList(p), chosen = Chosen(list), Unknown \notin chosen
      PROVE  HqsThen(p, b.hqs, chosen, {}) \in HqOutcome(p, b)
  <2>1. HqsThen(p, b.hqs, chosen, {}) =
           IF p.hq # <<>> THEN Switched(NoRows(turned), chosen) ELSE NoRows(turned)
    BY <1>5, <1>d, PlannedIs DEF HqsThen, NoList
  <2>2. NoRows(turned) = [h \in Hq |-> "none"]
    BY <1>t, NoRowsIs
  <2> HIDE DEF turned
  <2>3. Switched(NoRows(turned), chosen) = [h \in Hq |-> IF h \in chosen THEN "on" ELSE "none"]
    BY <2>2 DEF Switched
  <2>4. p.hq = <<>> => chosen = {}
    BY <1>5 DEF Chosen, GivenLists
  <2>5. HqsThen(p, b.hqs, chosen, {}) = [h \in Hq |-> IF h \in chosen THEN "on" ELSE "none"]
    <3>1. CASE p.hq = <<>>
      BY <3>1, <2>1, <2>2, <2>4
    <3>2. CASE p.hq # <<>>
      BY <3>2, <2>1, <2>3
    <3> QED  BY <3>1, <3>2
  <2>6. HqRows(p, b, list) = [h \in Hq |-> IF h \in chosen THEN "on" ELSE "none"]
    BY <1>5 DEF HqRows
  <2>7. HqOutcome(p, b) = {HqRows(p, b, some) : some \in GivenLists(p)}
    BY <1>5 DEF HqOutcome, GivenLists, NoList
  <2> QED  BY <2>5, <2>6, <2>7
<1> QED  BY <1>1, <1>2, <1>3, <1>4, <1>5

\* An edit that is alone and has not failed is on its track: a list of
\* headquarters that is refused ends it, and leaves their rows as they are.
ChosenIs(list, given) ==
    list = given \/ (Len(given) > 1 /\ list = <<given[Len(given)]>>)

Accepted(p, list) == ChosenIs(list, p.hq) /\ Unknown \notin Chosen(list)
Refused(p)        == ~NoList(p) /\ Unknown \in Chosen(p.hq)

HqsOnTrack(r) ==
    LET p == job[r].payload  b == job[r].before  L == Left(job[r].todo) IN
    \/ /\ hqs = HqsThen(p, b.hqs, Chosen(job[r].hq), L)
       /\ Done(p, L, "hq_check") => Accepted(p, job[r].hq)
    \/ /\ L = {} /\ Refused(p) /\ hqs = WithStatus(p, b.hqs)

Track(r) ==
    LET p == job[r].payload  b == job[r].before  L == Left(job[r].todo) IN
    /\ b \in TablesType
    /\ IsAt(r, "edit") => L = Planned(p)
    /\ Late(p, L)
    /\ account = IF IsAt(r, "edit") THEN b.account ELSE Applied(p, b).account
    /\ roles = RolesThen(p, b.roles, L)
    /\ managers = ManagersThen(p, b.managers, L)
    /\ depots = DepotsThen(p, b.depots, L)
    /\ HqsOnTrack(r)

OnlyEdit(r) == \A q \in Request \ {r} : ~Editing(q)

WholeInv ==
    \A r \in Request : Editing(r) /\ job[r].alone => OnlyEdit(r) /\ Track(r)

\* An edit that leaves the row of users alone says nothing of the account.
LEMMA HeadquartersAccount ==
    ASSUME NEW p, PayloadOK(p), "users" \notin Planned(p), NEW b
    PROVE  Applied(p, b).account = b.account
<1>1. p.op = "headquarters"
  BY DEF Planned
<1>2. p.status = Keep /\ Keep # "on" /\ Keep # "off"
  BY <1>1 DEF PayloadOK, Keep
<1> QED  BY <1>1, <1>2 DEF Applied, AccountAfter, StatusOf

\* The job of an edit under way.
LEMMA JobFacts ==
    ASSUME TypeInv, NEW r \in Request
    PROVE  /\ job[r] \in JobType /\ job[r].payload \in Payload /\ PayloadOK(job[r].payload)
           /\ Sorted(job[r].todo) /\ Left(job[r].todo) \subseteq Planned(job[r].payload)
           /\ \A j : job' = [job EXCEPT ![r] = j] =>
                  job'[r] = j /\ \A q \in Request \ {r} : job'[q] = job[q]
<1>1. job \in [Request -> JobType] /\ JobsInOrder
  BY DEF TypeInv, OwnTypeOK
<1>2. job[r].payload \in Payload
  BY <1>1 DEF JobType
<1> QED  BY <1>1, <1>2, DirectoryAssumption DEF JobsInOrder

LEMMA NextWriteIsFirst ==
    ASSUME TypeInv, NEW r \in Request, job[r].todo # <<>>, Late(job[r].payload, Left(job[r].todo))
    PROVE  /\ First(job[r].payload, Left(job[r].todo), NextWrite(r))
           /\ Left(Onward(job[r]).todo) = Left(job[r].todo) \ {NextWrite(r)}
<1>1. Sorted(job[r].todo) /\ Left(job[r].todo) \subseteq Planned(job[r].payload)
        /\ job[r] \in JobType
  BY JobFacts
<1>2. /\ NextWrite(r) \in Left(job[r].todo)
      /\ Left(Rest(job[r].todo)) = Left(job[r].todo) \ {NextWrite(r)}
      /\ \A v \in Left(Rest(job[r].todo)) : Rank(NextWrite(r)) < Rank(v)
  BY <1>1, RestIs DEF NextWrite
<1>3. Onward(job[r]).todo = Rest(job[r].todo)
  BY <1>1 DEF Onward, JobType
<1> QED  BY <1>1, <1>2, <1>3 DEF First

\* A step keeps an edit on its track: a write,
LEMMA WriteOnTrack ==
    ASSUME TypeInv, NEW r \in Request, EditWrites(r, NextWrite(r)), Track(r)
    PROVE  Track(r)'
<1> DEFINE p == job[r].payload
           b == job[r].before
           L == Left(job[r].todo)
           w == NextWrite(r)
<1>1. First(p, L, w) /\ Left(Onward(job[r]).todo) = L \ {w}
  BY NextWriteIsFirst DEF EditWrites, Track
<1>2. job[r] \in JobType /\ PayloadOK(p) /\ job'[r] = Onward(job[r])
  BY JobFacts DEF EditWrites, GoesOn
<1>3. /\ job'[r].payload = p /\ job'[r].before = b /\ job'[r].hq = job[r].hq
      /\ Left(job'[r].todo) = L \ {w}
  BY <1>1, <1>2 DEF Onward, JobType
<1>4. Late(p, L \ {w})
  BY <1>1, StaysLate
<1>5. Perform(r, w)
  BY DEF EditWrites
<1>6. /\ roles' = RolesThen(p, b.roles, L \ {w})
      /\ managers' = ManagersThen(p, b.managers, L \ {w})
      /\ depots' = DepotsThen(p, b.depots, L \ {w})
      /\ hqs' = HqsThen(p, b.hqs, Chosen(job[r].hq), L \ {w})
      /\ Done(p, L, "hq_check") => Accepted(p, job[r].hq)
  <2>1. roles' = RolesThen(p, b.roles, L \ {w})
    BY <1>1, <1>5, RolesGoOn DEF Perform, Track
  <2>2. managers' = ManagersThen(p, b.managers, L \ {w})
    BY <1>1, <1>5, ManagersGoOn DEF Perform, Track
  <2>3. depots' = DepotsThen(p, b.depots, L \ {w})
    <3>1. depots = DepotsThen(p, b.depots, L)
      BY DEF Track
    <3>2. CASE w = "depot_off"
      <4>1. depots' = {}
        BY <3>2, <1>5 DEF Perform
      <4> QED  BY <4>1, <3>2, <1>1, DepotsGoOn
    <3>3. CASE w = "depot_on"
      <4>1. depots' = depots \cup {p.depot}
        BY <3>3, <1>5 DEF Perform
      <4> QED  BY <4>1, <3>1, <3>3, <1>1, DepotsGoOn
    <3>4. CASE w \notin {"depot_off", "depot_on"}
      <4>1. depots' = depots
        BY <3>4, <1>5 DEF Perform
      <4> QED  BY <4>1, <3>1, <3>4, <1>1, DepotsGoOn
    <3> QED  BY <3>2, <3>3, <3>4
  <2>5. /\ hqs = HqsThen(p, b.hqs, Chosen(job[r].hq), L)
        /\ Done(p, L, "hq_check") => Accepted(p, job[r].hq)
    <3>1. L # {}
      BY <1>1 DEF First
    <3> QED  BY <3>1 DEF Track, HqsOnTrack
  <2>4. hqs' = HqsThen(p, b.hqs, Chosen(job[r].hq), L \ {w})
    <3>1. hqs = HqsThen(p, b.hqs, Chosen(job[r].hq), L)
      BY <2>5
    <3>2. CASE w = "hq_on"
      <4>1. hqs' = Switched(hqs, Chosen(job[r].hq))
        BY <3>2, <1>5 DEF Perform, Switched
      <4> QED  BY <4>1, <3>1, <3>2, <1>1, HqsGoOn
    <3>3. CASE w = "hqs_status"
      <4>1. hqs' = Turn(hqs, StatusOf(p))
        BY <3>3, <1>5 DEF Perform
      <4> QED  BY <4>1, <3>1, <3>3, <1>1, HqsGoOn
    <3>4. CASE w = "hq_off"
      <4>1. hqs' = NoRows(hqs)
        BY <3>4, <1>5 DEF Perform
      <4> QED  BY <4>1, <3>1, <3>4, <1>1, HqsGoOn
    <3>5. CASE w \notin {"hq_on", "hqs_status", "hq_off"}
      <4>1. hqs' = hqs
        BY <3>5, <1>5 DEF Perform
      <4> QED  BY <4>1, <3>1, <3>5, <1>1, HqsGoOn
    <3> QED  BY <3>2, <3>3, <3>4, <3>5
  <2> QED  BY <2>1, <2>2, <2>3, <2>4, <2>5
<1>7. request'[r].kind = request[r].kind /\ request'[r].at = "edited"
  BY DEF EditWrites, GoesOn
<1>8. account' = Applied(p, b).account
  <2>1. CASE w = "users"
    <3>1. account = b.account
      BY <2>1 DEF EditWrites, Track
    <3>2. account' = AccountAfter(p, account)
      BY <2>1 DEF EditWrites
    <3> QED  BY <3>1, <3>2 DEF Applied
  <2>2. CASE w # "users"
    BY <2>2 DEF EditWrites, Track, IsAt
  <2> QED  BY <2>1, <2>2
<1>9. Done(p, L \ {w}, "hq_check") => Accepted(p, job[r].hq)
  <2>1. w # "hq_check"
    BY DEF EditWrites
  <2> QED  BY <2>1, <1>1, <1>6, DoneBefore
<1> HIDE DEF p, b, L, w
<1>10. b \in TablesType
  BY DEF Track, p, b
<1>11. HqsOnTrack(r)'
  BY <1>3, <1>6, <1>9 DEF HqsOnTrack
<1> QED  BY <1>3, <1>4, <1>6, <1>7, <1>8, <1>10, <1>11 DEF Track, IsAt

\* the choice of headquarters,
LEMMA ChoiceOnTrack ==
    ASSUME TypeInv, NEW r \in Request, EditChooses(r), Track(r)
    PROVE  Track(r)'
<1> DEFINE p == job[r].payload
           b == job[r].before
           L == Left(job[r].todo)
<1>1. First(p, L, "hq_check") /\ Left(Onward(job[r]).todo) = L \ {"hq_check"}
  BY NextWriteIsFirst DEF EditChooses, EditLooks, Track
<1>2. PICK list \in Allowed(p.hq) :
         /\ job' = [job EXCEPT ![r] = [Onward(job[r]) EXCEPT !.hq = list]]
         /\ request'[r].kind = request[r].kind /\ request'[r].at = "edited"
         /\ IsAt(r, "edited") /\ UNCHANGED <<account, tableVars>>
         /\ Unknown \notin Chosen(list)
  BY DEF EditChooses, EditLooks, GoesOn
<1>3. job[r] \in JobType /\ PayloadOK(p) /\ job'[r] = [Onward(job[r]) EXCEPT !.hq = list]
  BY <1>2, JobFacts
<1>4. /\ job'[r].payload = p /\ job'[r].before = b /\ job'[r].hq = list
      /\ job'[r].todo = Onward(job[r]).todo
  BY <1>3 DEF Onward, JobType
<1>5. Left(job'[r].todo) = L \ {"hq_check"}
  BY <1>1, <1>4
<1>6. Accepted(p, list)
  BY <1>2, <1>3, AllowedIs DEF PayloadOK, ChosenIs, Accepted
<1>7. Late(p, L \ {"hq_check"})
  BY <1>1, StaysLate
<1>8. /\ roles = RolesThen(p, b.roles, L \ {"hq_check"})
      /\ managers = ManagersThen(p, b.managers, L \ {"hq_check"})
      /\ depots = DepotsThen(p, b.depots, L \ {"hq_check"})
  <2>1. roles = RolesThen(p, b.roles, L \ {"hq_check"})
    BY <1>1, RolesGoOn DEF Track
  <2>2. managers = ManagersThen(p, b.managers, L \ {"hq_check"})
    BY <1>1, ManagersGoOn DEF Track
  <2>3. depots = DepotsThen(p, b.depots, L \ {"hq_check"})
    <3>1. DepotsThen(p, b.depots, L \ {"hq_check"}) = DepotsThen(p, b.depots, L)
      BY <1>1, DepotsGoOn
    <3> QED  BY <3>1 DEF Track
  <2> QED  BY <2>1, <2>2, <2>3
<1>9. hqs = HqsThen(p, b.hqs, Chosen(list), L \ {"hq_check"})
  <2>1. L # {}
    BY <1>1 DEF First
  <2>2. hqs = HqsThen(p, b.hqs, Chosen(job[r].hq), L)
    BY <2>1 DEF Track, HqsOnTrack
  <2> QED  BY <2>2, <1>1, ChosenFirst
<1>10. account = Applied(p, b).account
  BY <1>2 DEF Track, IsAt
<1>11. b \in TablesType
  BY DEF Track
<1>12. UNCHANGED <<account, roles, managers, depots, hqs>>
  BY <1>2 DEF tableVars
<1> HIDE DEF p, b, L
<1>13. HqsOnTrack(r)'
  BY <1>4, <1>5, <1>6, <1>9, <1>12 DEF HqsOnTrack
<1> QED
  BY <1>2, <1>4, <1>5, <1>7, <1>8, <1>10, <1>11, <1>12, <1>13 DEF Track, IsAt

\* their refusal, which ends the edit,
LEMMA RefusalOnTrack ==
    ASSUME TypeInv, NEW r \in Request, EditRefused(r), Track(r)
    PROVE  Track(r)'
<1> DEFINE p == job[r].payload
           b == job[r].before
           L == Left(job[r].todo)
<1>1. First(p, L, "hq_check")
  BY NextWriteIsFirst DEF EditRefused, EditLooks, Track
<1>2. PICK list \in Allowed(p.hq) : Unknown \in Chosen(list)
  BY DEF EditRefused
<1>3. /\ job[r] \in JobType /\ PayloadOK(p) /\ job'[r] = Stopped(job[r])
      /\ Sorted(job[r].todo) /\ L \subseteq Planned(p) /\ job[r].todo # <<>>
  BY JobFacts DEF EditRefused, EditLooks, GoesOn
<1>4. /\ job'[r].payload = p /\ job'[r].before = b /\ job'[r].hq = job[r].hq
      /\ job'[r].todo = RestAfterFailure(job[r].todo)
  BY <1>3, StoppedType
\* Nothing comes after the headquarters.
<1>5. Left(job'[r].todo) = {}
  <2>1. NextWrite(r) = "hq_check"
    BY DEF EditRefused, EditLooks
  <2>2. RestAfterFailure(job[r].todo) = <<>>
    BY <1>3, <2>1, LastGroup DEF NextWrite
  <2> QED  BY <2>2, <1>4, NothingSpans DEF Spans
<1>6. Refused(p)
  <2>1. "hq_check" \in Planned(p)
    BY <1>1 DEF First
  <2>2. ~NoList(p)
    BY <2>1, <1>3, PlannedIs DEF NoList
  <2>3. list = p.hq \/ (Len(p.hq) > 1 /\ list = <<p.hq[Len(p.hq)]>>)
    BY <1>2 DEF Allowed
  <2>4. Unknown \in Chosen(p.hq)
    <3>1. CASE list = p.hq
      BY <3>1, <1>2
    <3>2. CASE Len(p.hq) > 1 /\ list = <<p.hq[Len(p.hq)]>>
      <4>1. Unknown = p.hq[Len(p.hq)]
        BY <3>2, <1>2 DEF Chosen
      <4>2. Len(p.hq) \in 1..Len(p.hq)
        BY <3>2, <1>3 DEF PayloadOK
      <4> QED  BY <4>1, <4>2 DEF Chosen
    <3> QED  BY <2>3, <3>1, <3>2
  <2> QED  BY <2>2, <2>4 DEF Refused
<1>7. \A v \in {"roles_status", "roles_off", "role_on", "managers_status", "manager_off",
               "manager_on", "depot_off", "depot_on", "hqs_status"} : v \notin L
  BY <1>1, BeforeFirst, Ranks
<1>8. \A v \in {"roles_status", "roles_off", "role_on", "managers_status", "manager_off",
               "manager_on", "depot_off", "depot_on", "hqs_status"} :
          Done(p, L, v) <=> Done(p, {}, v)
  BY <1>7 DEF Done
<1>9. /\ roles = RolesThen(p, b.roles, {})
      /\ managers = ManagersThen(p, b.managers, {})
      /\ depots = DepotsThen(p, b.depots, {})
  <2>1. roles = RolesThen(p, b.roles, {})
    BY <1>8 DEF Track, RolesThen
  <2>2. managers = ManagersThen(p, b.managers, {})
    BY <1>8 DEF Track, ManagersThen
  <2>3. depots = DepotsThen(p, b.depots, {})
    BY <1>8 DEF Track, DepotsThen
  <2> QED  BY <2>1, <2>2, <2>3
<1>10. hqs = WithStatus(p, b.hqs)
  <2>1. hqs = HqsThen(p, b.hqs, Chosen(job[r].hq), L)
    <3>1. L # {}
      BY <1>1 DEF First
    <3> QED  BY <3>1 DEF Track, HqsOnTrack
  <2>2. ~Done(p, L, "hq_off") /\ ~Done(p, L, "hq_on")
    <3>1. Rank("hq_check") <= Rank("hq_off") /\ Rank("hq_check") <= Rank("hq_on")
      BY Ranks
    <3> QED  BY <1>1, <3>1, NotDone
  <2>3. Done(p, L, "hqs_status") <=> StatusOf(p) # Keep
    BY <1>3, <1>7, PlannedIs DEF Done
  <2>4. hqs = IF StatusOf(p) # Keep THEN Turn(b.hqs, StatusOf(p)) ELSE b.hqs
    BY <2>1, <2>2, <2>3 DEF HqsThen
  <2> QED  BY <2>4, <1>3, PlannedIs DEF WithStatus
<1>11. account = Applied(p, b).account /\ b \in TablesType
  BY DEF Track, IsAt, EditRefused, EditLooks
<1>12. UNCHANGED <<account, roles, managers, depots, hqs>> /\ request'[r].at = "edited"
  BY DEF EditRefused, EditLooks, GoesOn, tableVars
<1>13. Late(p, {})
  BY DEF Late
<1> HIDE DEF p, b, L
<1>14. HqsOnTrack(r)'
  BY <1>4, <1>5, <1>6, <1>10, <1>12 DEF HqsOnTrack
<1> QED  BY <1>4, <1>5, <1>9, <1>11, <1>12, <1>13, <1>14 DEF Track, IsAt

\* the start of one that leaves the row of users alone.
LEMMA StartOnTrack ==
    ASSUME TypeInv, NEW r \in Request, EditStarts(r), Track(r)
    PROVE  Track(r)'
<1> DEFINE p == job[r].payload
           b == job[r].before
           L == Left(job[r].todo)
<1>1. job[r] \in JobType /\ PayloadOK(p) /\ job'[r] = job[r]
  BY JobFacts DEF EditStarts, GoesOn
<1>2. L = Planned(p) /\ account = b.account
  BY DEF EditStarts, Track
<1>3. "users" \notin Planned(p)
  <2>1. CASE job[r].todo = <<>>
    <3>1. L = {}
      BY <2>1, NothingSpans DEF Spans
    <3> QED  BY <3>1, <1>2
  <2>2. CASE job[r].todo # <<>>
    <3>1. First(p, L, NextWrite(r)) /\ NextWrite(r) # "users"
      BY <2>2, NextWriteIsFirst DEF Track, EditStarts
    <3>2. NextWrite(r) \in Write
      BY <3>1, PlannedAreWrites DEF First
    <3>3. Rank(NextWrite(r)) > 1
      BY <3>1, <3>2 DEF Rank, Write
    <3>4. "users" \in L => Rank(NextWrite(r)) < 1
      BY <3>1, Ranks DEF First
    <3> QED  BY <3>3, <3>4, <3>2, <1>2, RankIsNumber
  <2> QED  BY <2>1, <2>2
<1>6. account' = Applied(p, b).account
  BY <1>1, <1>2, <1>3, HeadquartersAccount DEF EditStarts
<1>7. request'[r].at = "edited"
  BY DEF EditStarts, GoesOn
<1>8. UNCHANGED <<roles, managers, depots, hqs>>
  BY DEF EditStarts, tableVars
<1>9. HqsOnTrack(r)'
  BY <1>1, <1>8 DEF Track, HqsOnTrack
<1> HIDE DEF p
<1> QED  BY <1>1, <1>6, <1>7, <1>8, <1>9 DEF Track, IsAt, p

\* A quiet step leaves an edit on its track.
LEMMA QuietOnTrack ==
    ASSUME NEW r \in Request, Quiet, Editing(r), Track(r)
    PROVE  Track(r)'
<1>1. UNCHANGED <<account, roles, managers, depots, hqs, job>>
  BY DEF Quiet, tableVars
<1>2. request'[r].kind = request[r].kind /\ request'[r].at = request[r].at
  BY DEF Quiet, Keeps
<1>3. HqsOnTrack(r)'
  BY <1>1 DEF Track, HqsOnTrack
<1> QED  BY <1>1, <1>2, <1>3 DEF Track, IsAt

LEMMA BeginsOnTrack ==
    ASSUME TypeInv, NEW r \in Request, NEW p \in Payload, EditBegins(r, p, TRUE)
    PROVE  Track(r)'
<1>a. Tables \in TablesType
  BY DEF TypeInv, OwnTypeOK
<1> DEFINE j == NewJob(p, TRUE)
<1>1. /\ j.payload = p /\ j.before = Tables /\ Left(j.todo) = Planned(p)
  BY <1>a, NewJobIs
<1>2. job'[r] = j /\ request'[r].kind = KindOf(p) /\ request'[r].at = "edit"
  BY DEF EditBegins
<1>3. UNCHANGED <<account, roles, managers, depots, hqs>>
  BY DEF EditBegins, tableVars
<1>4. /\ Tables.account = account /\ Tables.roles = roles /\ Tables.managers = managers
      /\ Tables.depots = depots /\ Tables.hqs = hqs
  BY DEF Tables
<1> HIDE DEF j
<1>5. /\ roles = RolesThen(p, Tables.roles, Planned(p))
      /\ managers = ManagersThen(p, Tables.managers, Planned(p))
      /\ depots = DepotsThen(p, Tables.depots, Planned(p))
      /\ hqs = HqsThen(p, Tables.hqs, Chosen(j.hq), Planned(p))
  BY <1>4, NothingDone
<1>6. Late(p, Planned(p)) /\ ~Done(p, Planned(p), "hq_check")
  BY DEF Late, Done
<1>7. (account = Tables.account)'
  BY DEF Tables
<1> DEFINE b == Tables
<1>8. b = Tables
  OBVIOUS
<1> HIDE DEF b
<1>9. HqsOnTrack(r)'
  BY <1>1, <1>2, <1>3, <1>5, <1>6, <1>8 DEF HqsOnTrack
<1> QED  BY <1>a, <1>1, <1>2, <1>3, <1>4, <1>5, <1>6, <1>8, <1>9 DEF Track, IsAt

LEMMA WholeStep ==
    ASSUME TypeInv, WholeInv, [Next]_vars
    PROVE  WholeInv'
<1> SUFFICES ASSUME NEW r \in Request, Editing(r)', job'[r].alone
             PROVE  OnlyEdit(r)' /\ Track(r)'
  BY DEF WholeInv
<1>a. ListInv
  BY DEF TypeInv
<1>b. job \in [Request -> JobType]
  BY DEF TypeInv, OwnTypeOK
<1>1. CASE Quiet
  <2>1. Editing(r) /\ job[r].alone
    BY <1>1 DEF Quiet, Keeps
  <2>2. OnlyEdit(r) /\ Track(r)
    BY <2>1 DEF WholeInv
  <2>3. OnlyEdit(r)'
    BY <2>2, <1>1 DEF OnlyEdit, Quiet, Keeps
  <2> QED  BY <2>1, <2>2, <2>3, <1>1, QuietOnTrack
<1>2. ASSUME NEW q \in Request, NEW p \in Payload, NEW alone \in BOOLEAN, EditBegins(q, p, alone)
      PROVE  OnlyEdit(r)' /\ Track(r)'
  <2>1. q = r
    BY <1>2 DEF EditBegins, Keeps
  <2>2. NewJob(p, alone).alone = alone
    BY NewJobIs DEF TypeInv, OwnTypeOK
  <2>3. alone = TRUE
    BY <1>2, <2>1, <2>2 DEF EditBegins
  <2>4. OnlyEdit(r)'
    BY <1>2, <2>1, <2>3 DEF EditBegins, OnlyEdit, Keeps
  <2> QED  BY <1>2, <2>1, <2>3, <2>4, BeginsOnTrack
<1>3. ASSUME NEW q \in Request, EditGoes(q)
      PROVE  OnlyEdit(r)' /\ Track(r)'
  <2>1. /\ Editing(q) /\ \A o \in Request \ {q} : Keeps(o)
        /\ \E j : job' = [job EXCEPT ![q] = j]
    BY <1>3
    DEF EditGoes, EditFailed, EditWrites, EditChooses, EditRefused, EditStarts, EditEnds, GoesOn
  <2>2. \A o \in Request \ {q} : job'[o] = job[o]
    BY <2>1, JobFacts
  <2>3. q = r
    <3>1. ASSUME q # r PROVE FALSE
      <4>1. Editing(r) /\ job[r].alone
        BY <3>1, <2>1, <2>2 DEF Keeps
      <4> QED  BY <4>1, <3>1, <2>1 DEF WholeInv, OnlyEdit
    <3> QED  BY <3>1
  <2>7. EditFailed(r) => ~job'[r].alone
    <3> SUFFICES ASSUME EditFailed(r) PROVE ~job'[r].alone
      OBVIOUS
    <3>1. PICK j \in {Stopped(job[r]), NotFound(job[r])} :
               job[r].todo # <<>> /\ job' = [job EXCEPT ![r] = Spoilt(j)]
      BY DEF EditFailed, GoesOn
    <3>2. j \in JobType
      BY <3>1, JobFacts, StoppedType, NotFoundType
    <3> QED  BY <3>1, <3>2, <1>b, SpoiltType
  <2>4. job'[r].alone => job[r].alone \/ ~Editing(r)'
    <3>1. job[r] \in JobType
      BY JobFacts
    <3>2. CASE EditFailed(r)
      BY <3>2, <2>7
    <3>7. CASE EditRefused(r)
      <4>1. job'[r] = Stopped(job[r]) /\ job[r].todo # <<>>
        BY <3>7, JobFacts DEF EditRefused, EditLooks, GoesOn
      <4> QED  BY <4>1, JobFacts, StoppedType
    <3>3. CASE EditWrites(r, NextWrite(r))
      <4>1. job'[r] = Onward(job[r])
        BY <3>3, JobFacts DEF EditWrites, GoesOn
      <4> QED  BY <4>1, <3>1 DEF Onward, JobType
    <3>4. CASE EditChooses(r)
      <4>1. PICK list : job' = [job EXCEPT ![r] = [Onward(job[r]) EXCEPT !.hq = list]]
        BY <3>4 DEF EditChooses, GoesOn
      <4>2. job'[r] = [Onward(job[r]) EXCEPT !.hq = list]
        BY <4>1, <1>b
      <4> QED  BY <4>2, <3>1 DEF Onward, JobType
    <3>5. CASE EditStarts(r)
      BY <3>5, JobFacts DEF EditStarts, GoesOn
    <3>6. CASE EditEnds(r)
      BY <3>6 DEF EditEnds
    <3> QED  BY <1>3, <2>3, <3>2, <3>3, <3>4, <3>5, <3>6, <3>7 DEF EditGoes
  <2>5. job[r].alone /\ OnlyEdit(r) /\ Track(r)
    BY <2>1, <2>3, <2>4 DEF WholeInv
  <2>6. OnlyEdit(r)'
    BY <2>1, <2>3, <2>5 DEF OnlyEdit, Keeps
  <2> QED
    BY <1>3, <2>3, <2>5, <2>6, <2>7, WriteOnTrack, ChoiceOnTrack, RefusalOnTrack, StartOnTrack
    DEF EditGoes, EditEnds
<1> QED  BY <1>a, <1>1, <1>2, <1>3, NextGoes, EditBeginsSo

LEMMA WholeInvariant == Spec => [](TypeInv /\ WholeInv)
<1>1. Init => TypeInv /\ WholeInv
  <2> SUFFICES ASSUME Init PROVE WholeInv
    BY TypeInvInitially
  <2>1. \A r \in Request : ~job[r].alone
    BY NoJobIs DEF Init
  <2> QED  BY <2>1 DEF WholeInv
<1>2. TypeInv /\ WholeInv /\ [Next]_vars => (TypeInv /\ WholeInv)'
  BY TypeInvStep, WholeStep
<1> QED  BY <1>1, <1>2, PTL DEF Spec

\* An edit that no other overlaps and none of whose calls fails changes the
\* user's rows in all tables to exactly what the service takes it to say,
\* whatever the groups of writes it is made of: is_active by its truth value,
\* which need not be what the router takes it for; a role or depot that is not
\* found and a list with a headquarters that is not valid leave their rows
\* alone, and a manager that an update does not find leaves none (create_user,
\* update_user, delete_user, set_user_headquarters).
THEOREM EditIsWholeCorrect == Spec => []EditIsWhole
<1>1. TypeInv /\ WholeInv => EditIsWhole
  <2> SUFFICES ASSUME TypeInv, WholeInv, NEW r \in Request, IsAt(r, "edited"), Editing(r),
                      job[r].todo = <<>>, job[r].alone
               PROVE  LET p == job[r].payload  b == job[r].before  a == Applied(p, b) IN
                      /\ account = a.account /\ roles = a.roles
                      /\ managers = a.managers /\ depots = a.depots
                      /\ hqs \in HqOutcome(p, b)
    BY DEF EditIsWhole
  <2> DEFINE p == job[r].payload
             b == job[r].before
  <2>1. Track(r) /\ Left(job[r].todo) = {} /\ PayloadOK(p)
    BY JobFacts, NothingSpans DEF WholeInv, Spans
  <2>2. /\ b \in TablesType /\ account = Applied(p, b).account
        /\ roles = RolesThen(p, b.roles, {}) /\ managers = ManagersThen(p, b.managers, {})
        /\ depots = DepotsThen(p, b.depots, {})
        /\ \/ /\ hqs = HqsThen(p, b.hqs, Chosen(job[r].hq), {})
              /\ Done(p, {}, "hq_check") => Accepted(p, job[r].hq)
           \/ Refused(p) /\ hqs = WithStatus(p, b.hqs)
    BY <2>1 DEF Track, HqsOnTrack, IsAt
  <2>3. hqs \in HqOutcome(p, b)
    <3>1. CASE NoList(p)
      <4>1. hqs = HqsThen(p, b.hqs, Chosen(job[r].hq), {})
        BY <3>1, <2>2 DEF Refused
      <4> QED  BY <3>1, <4>1, <2>1, <2>2, AllDone
    <3>2. CASE ~NoList(p) /\ hqs = HqsThen(p, b.hqs, Chosen(job[r].hq), {})
                          /\ (Done(p, {}, "hq_check") => Accepted(p, job[r].hq))
      <4>1. "hq_check" \in Planned(p)
        BY <3>2, <2>1, PlannedIs DEF NoList
      <4>2. Accepted(p, job[r].hq)
        BY <3>2, <4>1 DEF Done
      <4>3. job[r].hq \in GivenLists(p) /\ Unknown \notin Chosen(job[r].hq)
        <5>1. CASE job[r].hq = p.hq
          BY <5>1, <4>2 DEF Accepted, GivenLists
        <5>2. CASE job[r].hq # p.hq
          <6>1. Len(p.hq) > 1 /\ job[r].hq = <<p.hq[Len(p.hq)]>>
            BY <5>2, <4>2 DEF Accepted, ChosenIs
          <6>2. p.hq # <<>>
            BY <6>1
          <6> QED  BY <6>1, <6>2, <4>2 DEF Accepted, GivenLists
        <5> QED  BY <5>1, <5>2
      <4> QED  BY <3>2, <4>3, <2>1, <2>2, AllDone
    <3>3. CASE Refused(p) /\ hqs = WithStatus(p, b.hqs)
      <4>1. HqRows(p, b, p.hq) = WithStatus(p, b.hqs)
        BY <3>3 DEF HqRows, Refused
      <4>2. HqOutcome(p, b) = {HqRows(p, b, some) : some \in GivenLists(p)}
        BY <3>3 DEF HqOutcome, GivenLists, NoList, Refused
      <4>3. p.hq \in GivenLists(p)
        BY DEF GivenLists
      <4> QED  BY <3>3, <4>1, <4>2, <4>3
    <3> QED  BY <2>2, <3>1, <3>2, <3>3
  <2> QED  BY <2>1, <2>2, <2>3, AllDone
<1> QED  BY <1>1, WholeInvariant, PTL

-----------------------------------------------------------------------------
(***************************************************************************)
(* One headquarters for the holder of one.  As long as users are created   *)
(* with a role that exists, no two edits have overlapped and nothing has   *)
(* failed, a user without a row has no role and no headquarters, one with  *)
(* a row has a role or is about to be given it, and whoever has had no     *)
(* other roles than those of OneHqRole has one headquarters at most, or    *)
(* none while the list given is being written.                             *)
(***************************************************************************)
Given   == \A p \in mix.payloads : p.op = "create" => p.role \in Role
Calm    == ~overlapped /\ faults = 0 /\ Given
NoRole  == \A x \in Role : roles[x] = "none"
HqOnly  == \A x \in Role : roles[x] # "none" => x \in OneHqRole
NoHq    == \A h \in Hq : hqs[h] = "none"
OneRow  == \A g, h \in Hq : hqs[g] # "none" /\ hqs[h] # "none" => g = h
HasLeft(r, w) == Editing(r) /\ w \in Left(job[r].todo)
HasDone(r, w) == Editing(r) /\ w \notin Left(job[r].todo)

HqInv ==
    Calm =>
        /\ \A r \in Request : Editing(r) => job[r].alone
        /\ ~exists => NoRole /\ NoHq
        /\ ~exists => \A r \in Request : Editing(r) =>
                          HasLeft(r, "users") /\ HasLeft(r, "role_on")
        /\ exists /\ NoRole => \E r \in Request : HasLeft(r, "role_on")
        /\ HqOnly => OneRow
        /\ \A r \in Request : HasDone(r, "hq_check") /\ HasLeft(r, "hq_on") /\ HqOnly =>
              Len(job[r].hq) <= 1
        /\ \A r \in Request : HasDone(r, "hq_off") /\ HasLeft(r, "hq_on") => NoHq

\* What a write does to the rows that are there.
LEMMA RowsStay ==
    ASSUME NEW S, NEW rows \in [S -> RowState], NEW status \in {"on", "off"}, NEW x \in S
    PROVE  Turn(rows, status)[x] # "none" <=> rows[x] # "none"
BY DEF Turn, RowState

LEMMA WriteRows ==
    ASSUME TypeInv, NEW r \in Request, NEW w \in Planned(job[r].payload), Perform(r, w)
    PROVE  /\ \A x \in Role : roles[x] # "none" => roles'[x] # "none"
           /\ w = "role_on" => ~NoRole'
           /\ w \notin {"hq_off", "hq_on"} =>
                 \A h \in Hq : hqs'[h] # "none" => hqs[h] # "none"
           /\ w = "hq_off" => NoHq'
           /\ w = "hq_on" => \A h \in Hq : hqs'[h] # "none" =>
                                 h \in Chosen(job[r].hq) \/ hqs[h] # "none"
           /\ exists' = (exists \/ w = "users")
<1> DEFINE p == job[r].payload
<1>a. /\ roles \in [Role -> RowState] /\ hqs \in [Hq -> RowState]
  BY TablesAre DEF TypeInv, OwnTypeOK
<1>b. PayloadOK(p)
  BY JobFacts
<1>c. /\ w \in {"roles_status", "hqs_status"} => StatusOf(p) \in {"on", "off"}
      /\ w = "role_on" => p.role \in Role
  BY <1>b, PlannedWrites
<1>1. \A x \in Role : roles[x] # "none" => roles'[x] # "none"
  <2>1. CASE w = "roles_status"
    <3>1. roles' = Turn(roles, StatusOf(p))
      BY <2>1 DEF Perform
    <3> QED  BY <3>1, <2>1, <1>a, <1>c, RowsStay
  <2>2. CASE w = "roles_off"
    <3>1. roles' = Turn(roles, "off")
      BY <2>2 DEF Perform
    <3> QED  BY <3>1, <1>a, RowsStay
  <2>3. CASE w = "role_on"
    BY <2>3, <1>a DEF Perform, Put
  <2>4. CASE w \notin {"roles_status", "roles_off", "role_on"}
    BY <2>4 DEF Perform
  <2> QED  BY <2>1, <2>2, <2>3, <2>4
<1>2. w = "role_on" => ~NoRole'
  <2> SUFFICES ASSUME w = "role_on" PROVE ~NoRole'
    OBVIOUS
  <2>1. roles' = Put(roles, p.role, "on") /\ p.role \in Role
    BY <1>c DEF Perform
  <2>2. roles'[p.role] = "on"
    BY <2>1, <1>a DEF Put
  <2> QED  BY <2>1, <2>2 DEF NoRole
<1>3. w \notin {"hq_off", "hq_on"} => \A h \in Hq : hqs'[h] # "none" => hqs[h] # "none"
  <2>1. CASE w = "hqs_status"
    <3>1. hqs' = Turn(hqs, StatusOf(p))
      BY <2>1 DEF Perform
    <3> QED  BY <3>1, <2>1, <1>a, <1>c, RowsStay
  <2>2. CASE w \notin {"hqs_status", "hq_off", "hq_on"}
    BY <2>2 DEF Perform
  <2> QED  BY <2>1, <2>2
<1>4. w = "hq_off" => NoHq'
  <2> SUFFICES ASSUME w = "hq_off" PROVE NoHq'
    OBVIOUS
  <2>1. hqs' = NoRows(hqs)
    BY DEF Perform
  <2> QED  BY <2>1, <1>a, NoRowsIs DEF NoHq
<1>5. w = "hq_on" => \A h \in Hq : hqs'[h] # "none" =>
                         h \in Chosen(job[r].hq) \/ hqs[h] # "none"
  <2> SUFFICES ASSUME w = "hq_on"
               PROVE  \A h \in Hq : hqs'[h] # "none" =>
                          h \in Chosen(job[r].hq) \/ hqs[h] # "none"
    OBVIOUS
  <2>1. hqs' = [h \in Hq |-> IF h \in Chosen(job[r].hq) THEN "on" ELSE hqs[h]]
    BY DEF Perform
  <2> QED  BY <2>1
<1>6. exists' = (exists \/ w = "users")
  BY DEF Perform
<1> QED  BY <1>1, <1>2, <1>3, <1>4, <1>5, <1>6

LEMMA ShortList ==
    ASSUME NEW list \in Seq(Hq), Len(list) <= 1, NEW g \in Chosen(list), NEW h \in Chosen(list)
    PROVE  g = h
BY DEF Chosen

LEMMA HqBegins ==
    ASSUME TypeInv, HqInv, NEW r \in Request, NEW p \in Payload, NEW alone \in BOOLEAN,
           EditBegins(r, p, alone), Calm, Calm'
    PROVE  HqInv'
<1>1. PayloadOK(p)
  BY DirectoryAssumption
<1>2. alone /\ \A q \in Request : ~Editing(q)
  <2>1. overlapped' = (overlapped \/ ~alone) /\ ~overlapped'
    BY DEF EditBegins, Calm
  <2>2. overlapped \in BOOLEAN
    BY DEF TypeInv, OwnTypeOK
  <2>3. alone
    BY <2>1, <2>2, Zenon
  <2> QED  BY <2>3 DEF EditBegins
<1>3. \A q \in Request \ {r} : ~Editing(q)'
  BY <1>2 DEF EditBegins, Keeps
<1>4. job'[r] = NewJob(p, alone) /\ Left(job'[r].todo) = Planned(p) /\ job'[r].alone
  <2>1. job'[r] = NewJob(p, alone)
    BY DEF EditBegins
  <2>2. NewJob(p, alone).alone = alone /\ Left(NewJob(p, alone).todo) = Planned(p)
    BY NewJobIs DEF TypeInv, OwnTypeOK
  <2> QED  BY <2>1, <2>2, <1>2
<1>5. UNCHANGED <<roles, hqs, exists>> /\ ((p.op = "create") <=> ~exists)
  BY DEF EditBegins, tableVars
<1>6. "hq_on" \in Planned(p) => "hq_check" \in Planned(p) /\ "hq_off" \in Planned(p)
  BY <1>1, PlannedIs
<1>7. ~exists => "users" \in Planned(p) /\ "role_on" \in Planned(p)
  <2>1. p.op = "create" => p.role \in Role
    BY DEF Calm, Given, EditBegins
  <2> QED  BY <2>1, <1>1, <1>5, PlannedIs
<1> QED
  BY <1>2, <1>3, <1>4, <1>5, <1>6, <1>7
  DEF HqInv, Calm, NoRole, HqOnly, NoHq, OneRow, HasLeft, HasDone, EditBegins

\* The one edit under way, as long as all is calm.
LEMMA CalmEdit ==
    ASSUME TypeInv, WholeInv, HqInv, Calm, NEW r \in Request, Editing(r)
    PROVE  /\ job[r].alone /\ OnlyEdit(r) /\ Track(r)
           /\ job[r].todo # <<>> => First(job[r].payload, Left(job[r].todo), NextWrite(r))
           /\ \A q \in Request : \A w : HasLeft(q, w) \/ HasDone(q, w) => q = r
<1>1. job[r].alone /\ OnlyEdit(r) /\ Track(r)
  BY DEF HqInv, WholeInv
<1>2. job[r].todo # <<>> => First(job[r].payload, Left(job[r].todo), NextWrite(r))
  BY <1>1, NextWriteIsFirst DEF Track
<1> QED  BY <1>1, <1>2 DEF OnlyEdit, HasLeft, HasDone

\* What is left and done after a step of the edit under way.
LEMMA CalmGoes ==
    ASSUME TypeInv, NEW r \in Request, OnlyEdit(r), NEW j \in JobType, GoesOn(r, j), j.alone
    PROVE  /\ \A q \in Request : Editing(q)' => q = r /\ job'[q].alone
           /\ \A q \in Request : \A w : HasLeft(q, w)' <=> q = r /\ w \in Left(j.todo)
           /\ \A q \in Request : \A w : HasDone(q, w)' <=> q = r /\ w \notin Left(j.todo)
           /\ job'[r] = j
<1>1. job'[r] = j /\ Editing(r)'
  BY JobFacts DEF GoesOn
<1>2. \A q \in Request \ {r} : ~Editing(q)'
  BY DEF GoesOn, OnlyEdit, Keeps
<1> QED  BY <1>1, <1>2 DEF HasLeft, HasDone

LEMMA HqWritten ==
    ASSUME TypeInv, WholeInv, HqInv, NEW r \in Request, EditWrites(r, NextWrite(r)), Calm, Calm'
    PROVE  HqInv'
<1> DEFINE p == job[r].payload
           L == Left(job[r].todo)
           w == NextWrite(r)
<1>1. Editing(r) /\ GoesOn(r, Onward(job[r])) /\ job[r].todo # <<>> /\ Perform(r, w)
        /\ w # "hq_check"
  BY DEF EditWrites, GoesOn
<1>2. /\ job[r].alone /\ OnlyEdit(r) /\ First(p, L, w)
      /\ \A q \in Request : \A v : HasLeft(q, v) \/ HasDone(q, v) => q = r
  BY <1>1, CalmEdit
<1>3. /\ Onward(job[r]) \in JobType /\ Onward(job[r]).alone /\ Left(Onward(job[r]).todo) = L \ {w}
      /\ Onward(job[r]).hq = job[r].hq /\ job[r] \in JobType /\ PayloadOK(p)
  <2>1. job[r] \in JobType /\ PayloadOK(p)
    BY JobFacts
  <2>2. Onward(job[r]) \in JobType
    BY <1>1, JobFacts, OnwardType
  <2>3. Onward(job[r]).alone /\ Onward(job[r]).hq = job[r].hq
    BY <2>1, <1>2 DEF Onward, JobType
  <2>4. Left(Onward(job[r]).todo) = L \ {w}
    BY <1>1, <1>2, NextWriteIsFirst DEF First
  <2> QED  BY <2>1, <2>2, <2>3, <2>4
<1>4. /\ \A q \in Request : Editing(q)' => q = r /\ job'[q].alone
      /\ \A q \in Request : \A v : HasLeft(q, v)' <=> q = r /\ v \in L \ {w}
      /\ \A q \in Request : \A v : HasDone(q, v)' <=> q = r /\ v \notin L \ {w}
      /\ job'[r].hq = job[r].hq
  BY <1>1, <1>2, <1>3, CalmGoes
<1>5. w \in L /\ w \in Planned(p)
  BY <1>2 DEF First
<1>6. /\ \A x \in Role : roles[x] # "none" => roles'[x] # "none"
      /\ w = "role_on" => ~NoRole'
      /\ w \notin {"hq_off", "hq_on"} =>
            \A h \in Hq : hqs'[h] # "none" => hqs[h] # "none"
      /\ w = "hq_off" => NoHq'
      /\ w = "hq_on" => \A h \in Hq : hqs'[h] # "none" =>
                            h \in Chosen(job[r].hq) \/ hqs[h] # "none"
      /\ exists' = (exists \/ w = "users")
  BY <1>1, <1>5, WriteRows
<1>7. NoRole' => NoRole
  BY <1>6 DEF NoRole
<1>8. HqOnly' => HqOnly
  BY <1>6 DEF HqOnly
\* The clauses of HqInv before.
<1>9. /\ ~exists => "users" \in L /\ "role_on" \in L
      /\ exists /\ NoRole => "role_on" \in L
      /\ HqOnly => OneRow
      /\ "hq_check" \notin L /\ "hq_on" \in L /\ HqOnly => Len(job[r].hq) <= 1
      /\ "hq_off" \notin L /\ "hq_on" \in L => NoHq
  BY <1>1, <1>2 DEF HqInv, HasLeft, HasDone
<1> HIDE DEF p, L, w
<1>10. exists' = TRUE
  <2>1. CASE exists
    BY <2>1, <1>6
  <2>2. CASE ~exists
    <3>1. w \in Write
      BY <1>5, PlannedAreWrites
    <3>2. w = "users" \/ Rank(w) < 1
      BY <2>2, <1>2, <1>9, Ranks DEF First
    <3>3. w = "users"
      BY <3>1, <3>2 DEF Rank, Write
    <3> QED  BY <3>3, <1>6
  <2> QED  BY <2>1, <2>2
<1>11. NoRole' => "role_on" \in L \ {w}
  BY <1>6, <1>7, <1>9
<1>12. HqOnly' => OneRow'
  <2> SUFFICES ASSUME HqOnly' PROVE OneRow'
    OBVIOUS
  <2>1. CASE w \notin {"hq_off", "hq_on"}
    BY <2>1, <1>6, <1>8, <1>9 DEF OneRow
  <2>2. CASE w = "hq_off"
    BY <2>2, <1>6 DEF OneRow, NoHq
  <2>3. CASE w = "hq_on"
    <3>1. "hq_check" \notin L /\ "hq_off" \notin L
      BY <2>3, <1>2, BeforeFirst, Ranks
    <3>2. Len(job[r].hq) <= 1 /\ NoHq
      BY <2>3, <3>1, <1>5, <1>8, <1>9
    <3>3. \A h \in Hq : hqs'[h] # "none" => h \in Chosen(job[r].hq)
      BY <2>3, <3>2, <1>6 DEF NoHq
    <3>4. job[r].hq \in Seq(Hq)
      BY <1>3 DEF JobType
    <3> QED  BY <3>2, <3>3, <3>4, ShortList DEF OneRow
  <2> QED  BY <2>1, <2>2, <2>3
<1>13. "hq_check" \notin L \ {w} /\ "hq_on" \in L \ {w} /\ HqOnly' => Len(job[r].hq) <= 1
  BY <1>1, <1>8, <1>9 DEF w
<1>14. "hq_off" \notin L \ {w} /\ "hq_on" \in L \ {w} => NoHq'
  BY <1>6, <1>9 DEF NoHq
<1> QED
  BY <1>4, <1>10, <1>11, <1>12, <1>13, <1>14 DEF HqInv

LEMMA HqChosen ==
    ASSUME TypeInv, WholeInv, HqInv, NEW r \in Request, EditChooses(r), Calm, Calm'
    PROVE  HqInv'
<1> DEFINE p == job[r].payload
           L == Left(job[r].todo)
<1>1. PICK list \in Allowed(p.hq) :
         /\ GoesOn(r, [Onward(job[r]) EXCEPT !.hq = list]) /\ job[r].todo # <<>>
         /\ NextWrite(r) = "hq_check"
         /\ MustCut(p.hq) => list # p.hq
         /\ UNCHANGED tableVars /\ Unknown \notin Chosen(list)
  BY DEF EditChooses, EditLooks
<1> DEFINE j == [Onward(job[r]) EXCEPT !.hq = list]
<1>2. /\ Editing(r) /\ job[r].alone /\ OnlyEdit(r) /\ First(p, L, "hq_check")
      /\ \A q \in Request : \A v : HasLeft(q, v) \/ HasDone(q, v) => q = r
  <2>1. Editing(r)
    BY <1>1 DEF GoesOn
  <2> QED  BY <1>1, <2>1, CalmEdit
<1>a. job[r] \in JobType /\ PayloadOK(p) /\ p.hq \in Seq(Hq \cup {Unknown})
  BY JobFacts DEF PayloadOK
<1>b. list \in Seq(Hq) /\ (list = p.hq \/ (Len(p.hq) > 1 /\ list = <<p.hq[Len(p.hq)]>>))
  BY <1>1, <1>a, AllowedIs, KnownList
<1>3. /\ j \in JobType /\ j.alone /\ Left(j.todo) = L \ {"hq_check"} /\ j.hq = list
  <2>1. j \in JobType
    BY <1>1, <1>b, JobFacts, OnwardType
  <2>2. j.alone /\ j.hq = list /\ j.todo = Onward(job[r]).todo
    BY <1>a, <1>2 DEF Onward, JobType
  <2>3. Left(Onward(job[r]).todo) = L \ {"hq_check"}
    BY <1>1, <1>2, NextWriteIsFirst DEF First
  <2> QED  BY <2>1, <2>2, <2>3
<1> HIDE DEF j
<1>4. GoesOn(r, j)
  BY <1>1 DEF j
<1>5. /\ \A q \in Request : Editing(q)' => q = r /\ job'[q].alone
      /\ \A q \in Request : \A v : HasLeft(q, v)' <=> q = r /\ v \in L \ {"hq_check"}
      /\ \A q \in Request : \A v : HasDone(q, v)' <=> q = r /\ v \notin L \ {"hq_check"}
      /\ job'[r].hq = list
  BY <1>2, <1>3, <1>4, CalmGoes
<1>6. /\ NoRole' <=> NoRole
      /\ HqOnly' <=> HqOnly
      /\ OneRow' <=> OneRow
      /\ NoHq' <=> NoHq
      /\ exists' = exists
  BY <1>1 DEF tableVars, NoRole, HqOnly, OneRow, NoHq
<1>7. /\ ~exists => "users" \in L /\ "role_on" \in L /\ NoRole /\ NoHq
      /\ exists /\ NoRole => "role_on" \in L
      /\ HqOnly => OneRow
      /\ "hq_off" \notin L /\ "hq_on" \in L => NoHq
  BY <1>2 DEF HqInv, HasLeft, HasDone
<1>8. "users" \notin L /\ "role_on" \notin L
  BY <1>2, BeforeFirst, Ranks
<1>9. exists /\ ~NoRole
  BY <1>7, <1>8
<1>10. HqOnly => Len(list) <= 1
  <2> SUFFICES ASSUME HqOnly PROVE Len(list) <= 1
    OBVIOUS
  <2>1. Len(p.hq) \in Nat /\ Len(list) \in Nat
    BY <1>a, <1>b
  <2>2. CASE Len(p.hq) > 1
    <3>1. MustCut(p.hq)
      BY <2>2, <1>9 DEF MustCut, NoRole, HqOnly
    <3>2. list = <<p.hq[Len(p.hq)]>>
      BY <3>1, <1>1, <1>b
    <3> QED  BY <3>2
  <2>3. CASE ~(Len(p.hq) > 1)
    BY <2>1, <2>3, <1>b
  <2> QED  BY <2>2, <2>3
<1> HIDE DEF p, L
<1> QED  BY <1>5, <1>6, <1>7, <1>9, <1>10 DEF HqInv

LEMMA HqRefused ==
    ASSUME TypeInv, WholeInv, HqInv, NEW r \in Request, EditRefused(r), Calm, Calm'
    PROVE  HqInv'
<1> DEFINE p == job[r].payload
           L == Left(job[r].todo)
           j == Stopped(job[r])
<1>1. /\ GoesOn(r, j) /\ job[r].todo # <<>> /\ NextWrite(r) = "hq_check"
      /\ UNCHANGED tableVars /\ Editing(r)
  BY DEF EditRefused, EditLooks, GoesOn
<1>2. /\ job[r].alone /\ OnlyEdit(r) /\ First(p, L, "hq_check")
      /\ \A q \in Request : \A v : HasLeft(q, v) \/ HasDone(q, v) => q = r
  BY <1>1, CalmEdit
<1>3. /\ Sorted(job[r].todo) /\ j \in JobType /\ j.alone
      /\ j.todo = RestAfterFailure(job[r].todo)
  BY <1>1, <1>2, JobFacts, StoppedType
<1>4. Left(j.todo) = {}
  <2>1. RestAfterFailure(job[r].todo) = <<>>
    BY <1>1, <1>3, LastGroup DEF NextWrite
  <2> QED  BY <2>1, <1>3, NothingSpans DEF Spans
<1> HIDE DEF j
<1>5. /\ \A q \in Request : Editing(q)' => q = r /\ job'[q].alone
      /\ \A q \in Request : \A v : ~HasLeft(q, v)'
  BY <1>1, <1>2, <1>3, <1>4, CalmGoes
<1>6. /\ NoRole' <=> NoRole
      /\ HqOnly' <=> HqOnly
      /\ OneRow' <=> OneRow
      /\ exists' = exists
  BY <1>1 DEF tableVars, NoRole, HqOnly, OneRow
<1>7. /\ ~exists => "users" \in L
      /\ exists /\ NoRole => "role_on" \in L
      /\ HqOnly => OneRow
  BY <1>1, <1>2 DEF HqInv, HasLeft, HasDone
<1>8. "users" \notin L /\ "role_on" \notin L
  BY <1>2, BeforeFirst, Ranks
<1>9. exists /\ ~NoRole
  BY <1>7, <1>8
<1> QED  BY <1>5, <1>6, <1>7, <1>9 DEF HqInv

LEMMA HqGoes ==
    ASSUME TypeInv, WholeInv, HqInv, NEW r \in Request, EditGoes(r), Calm, Calm'
    PROVE  HqInv'
<1>1. CASE EditWrites(r, NextWrite(r))
  BY <1>1, HqWritten
<1>2. CASE EditChooses(r)
  BY <1>2, HqChosen
<1>6. CASE EditRefused(r)
  BY <1>6, HqRefused
<1>3. CASE EditFailed(r)
  BY <1>3 DEF EditFailed, Calm
<1>4. CASE EditStarts(r)
  <2>1. Editing(r) /\ GoesOn(r, job[r]) /\ UNCHANGED tableVars
    BY <1>4 DEF EditStarts, GoesOn
  <2>2. /\ job[r].alone /\ OnlyEdit(r) /\ job[r] \in JobType
        /\ \A q \in Request : \A w : HasLeft(q, w) \/ HasDone(q, w) => q = r
    BY <2>1, CalmEdit, JobFacts
  <2>3. /\ \A q \in Request : Editing(q)' => q = r /\ job'[q].alone
        /\ \A q \in Request : \A w : HasLeft(q, w)' <=> q = r /\ w \in Left(job[r].todo)
        /\ \A q \in Request : \A w : HasDone(q, w)' <=> q = r /\ w \notin Left(job[r].todo)
        /\ job'[r] = job[r]
    BY <2>1, <2>2, CalmGoes
  <2>4. /\ \A q \in Request : \A w : HasLeft(q, w)' <=> HasLeft(q, w)
        /\ \A q \in Request : \A w : HasDone(q, w)' <=> HasDone(q, w)
    BY <2>1, <2>2, <2>3 DEF HasLeft, HasDone
  <2>5. /\ NoRole' <=> NoRole
        /\ HqOnly' <=> HqOnly
        /\ OneRow' <=> OneRow
        /\ NoHq' <=> NoHq
        /\ exists' = exists
    BY <2>1 DEF tableVars, NoRole, HqOnly, OneRow, NoHq
  <2>6. \A q \in Request : Editing(q)' => Editing(q)
    BY <2>1, <2>3
  <2>7. \A q \in Request : \A w : HasLeft(q, w)' \/ HasDone(q, w)' => job'[q].hq = job[q].hq
    BY <2>2, <2>3, <2>4
  <2> QED  BY <2>3, <2>4, <2>5, <2>6, <2>7 DEF HqInv
<1>5. CASE EditEnds(r)
  <2>1. Editing(r) /\ job[r].todo = <<>> /\ ~Editing(r)' /\ UNCHANGED tableVars
          /\ \A q \in Request \ {r} : Keeps(q)
    BY <1>5 DEF EditEnds
  <2>2. OnlyEdit(r) /\ \A q \in Request : \A w : HasLeft(q, w) => q = r
    BY <2>1, CalmEdit
  <2>3. Left(job[r].todo) = {}
    BY <2>1, NothingSpans DEF Spans
  <2>4. \A q \in Request : \A w : ~HasLeft(q, w)
    BY <2>2, <2>3 DEF HasLeft
  <2>5. exists /\ ~NoRole
    BY <2>1, <2>4 DEF HqInv
  <2>6. \A q \in Request : ~Editing(q)'
    BY <2>1, <2>2 DEF OnlyEdit, Keeps
  <2>7. \A q \in Request : \A w : ~HasLeft(q, w)' /\ ~HasDone(q, w)'
    BY <2>6 DEF HasLeft, HasDone
  <2>8. /\ NoRole' <=> NoRole
        /\ HqOnly' <=> HqOnly
        /\ OneRow' <=> OneRow
        /\ exists' = exists
    BY <2>1 DEF tableVars, NoRole, HqOnly, OneRow
  <2>9. HqOnly => OneRow
    BY DEF HqInv
  <2> QED  BY <2>5, <2>6, <2>7, <2>8, <2>9 DEF HqInv
<1> QED  BY <1>1, <1>2, <1>3, <1>4, <1>5, <1>6 DEF EditGoes

LEMMA HqQuiet ==
    ASSUME HqInv, Quiet, Calm, Calm'
    PROVE  HqInv'
<1>1. UNCHANGED <<roles, hqs, exists, job>>
  BY DEF Quiet, tableVars
<1>2. \A q \in Request : Editing(q)' <=> Editing(q)
  BY DEF Quiet, Keeps
<1>3. /\ \A q \in Request : \A w : HasLeft(q, w)' <=> HasLeft(q, w)
      /\ \A q \in Request : \A w : HasDone(q, w)' <=> HasDone(q, w)
  BY <1>1, <1>2 DEF HasLeft, HasDone
<1>4. /\ NoRole' <=> NoRole
      /\ HqOnly' <=> HqOnly
      /\ OneRow' <=> OneRow
      /\ NoHq' <=> NoHq
  BY <1>1 DEF NoRole, HqOnly, OneRow, NoHq
<1> QED  BY <1>1, <1>2, <1>3, <1>4 DEF HqInv

\* What is calm has been calm.
LEMMA CalmBefore ==
    ASSUME TypeInv, [Next]_vars, Calm'
    PROVE  Calm
<1>a. ListInv /\ faults \in Nat /\ overlapped \in BOOLEAN
  BY DEF TypeInv, OwnTypeOK, ListInv, SessionInv, SessionTypeOK
<1>1. faults = 0
  <2>1. CASE Next
    BY <2>1, <1>a, NextBounded DEF Bounded, Calm
  <2>2. CASE UNCHANGED vars
    BY <2>2 DEF vars, sessionVars, boundVars, Calm
  <2> QED  BY <2>1, <2>2
<1>2. ~overlapped
  <2>1. CASE Quiet
    BY <2>1 DEF Quiet, Calm
  <2>2. ASSUME NEW r \in Request, NEW p \in Payload, NEW alone \in BOOLEAN, EditBegins(r, p, alone)
        PROVE  ~overlapped
    <3>1. overlapped' = (overlapped \/ ~alone) /\ ~overlapped'
      BY <2>2 DEF EditBegins, Calm
    <3> QED  BY <3>1, <1>a, Zenon
  <2>3. ASSUME NEW r \in Request, EditGoes(r) PROVE ~overlapped
    BY <2>3
    DEF EditGoes, EditFailed, EditWrites, EditChooses, EditRefused, EditStarts, EditEnds, GoesOn,
        Calm
  <2> QED  BY <1>a, <2>1, <2>2, <2>3, NextGoes, EditBeginsSo
<1>3. Given
  <2>1. CASE Next
    BY <2>1, NextBounded DEF Bounded, Calm, Given
  <2>2. CASE UNCHANGED vars
    BY <2>2 DEF vars, sessionVars, boundVars, Calm, Given
  <2> QED  BY <2>1, <2>2
<1> QED  BY <1>1, <1>2, <1>3 DEF Calm

LEMMA HqStep ==
    ASSUME TypeInv, WholeInv, HqInv, [Next]_vars
    PROVE  HqInv'
<1>1. CASE ~Calm'
  BY <1>1 DEF HqInv
<1>2. CASE Calm'
  <2>1. Calm /\ ListInv
    BY <1>2, CalmBefore DEF TypeInv
  <2> QED  BY <1>2, <2>1, NextGoes, EditBeginsSo, HqQuiet, HqBegins, HqGoes
<1> QED  BY <1>1, <1>2

LEMMA HqInitially == Init => HqInv
<1> SUFFICES ASSUME Init PROVE HqInv
  OBVIOUS
<1>1. \A r \in Request : ~Editing(r)
  BY DEF Init, SessionInit, Editing, Idle
<1>2. \A q \in Request : \A w : ~HasLeft(q, w) /\ ~HasDone(q, w)
  BY <1>1 DEF HasLeft, HasDone
<1>3. NoHq /\ OneRow
  BY DEF Init, NoHq, OneRow
<1>4. PICK first \in mix.known :
         /\ exists = (first # Nobody)
         /\ roles = [x \in Role |-> IF x = first THEN "on" ELSE "none"]
  BY DEF Init
<1>5. first \in Role \cup {Nobody} /\ Nobody \notin Role
  BY DirectoryAssumption DEF Init, SessionInit
<1>6. ~exists => NoRole
  BY <1>4, <1>5 DEF NoRole
<1>7. exists => ~NoRole
  BY <1>4, <1>5 DEF NoRole
<1> QED  BY <1>1, <1>2, <1>3, <1>6, <1>7 DEF HqInv

\* The holder of ASE or TSM roles alone has one headquarters at most, as long as
\* users are created with a role that exists, no two edits overlap and nothing
\* fails: whichever row of user_roles set_user_headquarters looks at, it cuts
\* the list.
THEOREM OneHqCorrect == Spec => []OneHq
<1>1. HqInv /\ TypeInv => OneHq
  <2> SUFFICES ASSUME HqInv, TypeInv, Calm, ~NoRole, HqOnly
               PROVE  Cardinality({h \in Hq : hqs[h] = "on"}) <= 1
    BY DEF OneHq, Calm, Given, NoRole, HqOnly
  <2> DEFINE S == {h \in Hq : hqs[h] = "on"}
  <2>1. \A g, h \in S : g = h
    BY DEF HqInv, OneRow
  <2>2. CASE S = {}
    BY <2>2, FS_EmptySet
  <2>3. CASE S # {}
    <3>1. PICK h \in S : TRUE
      BY <2>3
    <3>2. S = {h}
      BY <2>1, <3>1
    <3>3. Cardinality({h}) = 1
      BY FS_Singleton
    <3> QED  BY <3>2, <3>3
  <2> QED  BY <2>2, <2>3
<1>2. Init => HqInv /\ TypeInv /\ WholeInv
  BY HqInitially, WholeInvariant, TypeInvInitially, NoJobIs DEF WholeInv, Init
<1>3. TypeInv /\ WholeInv /\ HqInv /\ [Next]_vars => (TypeInv /\ WholeInv /\ HqInv)'
  BY TypeInvStep, WholeStep, HqStep
<1> QED  BY <1>1, <1>2, <1>3, PTL DEF Spec
=============================================================================
