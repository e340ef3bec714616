-------------------------- MODULE OneTimeCodeProofs --------------------------
(***************************************************************************)
(* However many requests, processes, expiries, failing calls and restarts: *)
(* a row of otp_codes makes at most one request answer True.  The argument *)
(* is CodeInv: what is stored has not been accepted, and only new codes    *)
(* are on their way to the table.                                          *)
(***************************************************************************)
EXTENDS MobileCode, FiniteSetTheorems, TLAPS

\* Nothing has been stored or accepted at first.
LEMMA CodeInitially == Init => CodeInv
BY CodeAssumption DEF Init, CodeInv, TypeOK, TableOK, ProcessOK, RequestOK,
                      StoredIsFresh, AcceptedOnce,
                      Code, Guess, Row, PC

-----------------------------------------------------------------------------

\* Dropping an old entry keeps the counters well typed.
LEMMA DropTypes ==
    ASSUME ProcessOK, NEW p \in Process, DropOldEntry(p)
    PROVE  failed' \in [Process -> Nat] /\ over' \in [Process -> BOOLEAN]
<1>1. CASE over[p]
  <2>1. failed' = [failed EXCEPT ![p] = 0] /\ over' = [over EXCEPT ![p] = FALSE]
    BY <1>1 DEF DropOldEntry
  <2>2. failed' \in [Process -> Nat]
    BY <2>1 DEF ProcessOK
  <2> QED  BY <2>1, <2>2 DEF ProcessOK
<1>2. CASE ~over[p]
  BY <1>2 DEF DropOldEntry, ProcessOK
<1> QED  BY <1>1, <1>2

\* Reading the newest row may delete rows and adds none.
LEMMA ReadTakesNothingNew ==
    ASSUME NEW r \in Request, ReadNewest(r)
    PROVE  stored' \subseteq stored
BY DEF ReadNewest

\* A request that goes on, or ends, is left well typed.
LEMMA GoTypes ==
    ASSUME RequestOK, NEW r \in Request, NEW label \in PC, GoTo(r, label), at' = at,
           label \in {"compare", "claim", "consume", "release"} => record[r] \in Row
    PROVE  RequestOK'
BY DEF RequestOK, GoTo

LEMMA ReturnTypes ==
    ASSUME RequestOK, NEW r \in Request, Return(r), at' = at
    PROVE  RequestOK'
BY CodeAssumption DEF RequestOK, Return, PC, Guess

\* Type correctness: every step leads from a well-typed state to another.
LEMMA TypeStep == ASSUME TypeOK, StoredIsFresh, [Next]_vars PROVE TypeOK'
<1> USE CodeAssumption DEF TypeOK, TableOK, ProcessOK, RequestOK, Code, Guess, PC,
                           GoTo, Return, Start, Fault, Timeout,
                           tableVars, processVars, requestVars, boundVars
<1>1. ASSUME NEW r \in Request, NEW p \in Process, BeginStore(r, p) PROVE TypeOK'
  <2>1. TableOK'
    BY <1>1 DEF BeginStore, DropOldEntry
  <2>2. ProcessOK'
    BY <1>1, DropTypes DEF BeginStore
  <2>3. RequestOK'
    BY <1>1 DEF BeginStore, DropOldEntry
  <2> QED  BY <2>1, <2>2, <2>3
<1>2. ASSUME NEW r \in Request, DeleteOld(r) PROVE TypeOK'
  <2>1. TableOK'
    BY <1>2 DEF DeleteOld
  <2>2. ProcessOK'
    BY <1>2 DEF DeleteOld
  <2>3. RequestOK'
    <3>1. at' = at /\ (GoTo(r, "insert") \/ Return(r))
      BY <1>2 DEF DeleteOld
    <3> HIDE DEF GoTo, Return, RequestOK
    <3> QED  BY <3>1, GoTypes, ReturnTypes DEF TypeOK
  <2> QED  BY <2>1, <2>2, <2>3
<1>3. ASSUME NEW r \in Request, Insert(r) PROVE TypeOK'
  <2>1. {code[r]} \X {1, 2} \subseteq Row
    BY <1>3 DEF Insert, StoredIsFresh, Row
  <2>2. TableOK'
    BY <1>3, <2>1 DEF Insert
  <2>3. ProcessOK' /\ RequestOK'
    BY <1>3 DEF Insert
  <2> QED  BY <2>2, <2>3
<1>4. ASSUME NEW r \in Request, NEW p \in Process, NEW c \in Guess, BeginVerify(r, p, c)
      PROVE  TypeOK'
  <2>1. TableOK'
    BY <1>4 DEF BeginVerify
  <2>2. ProcessOK'
    BY <1>4 DEF BeginVerify
  <2>3. RequestOK'
    BY <1>4 DEF BeginVerify
  <2> QED  BY <2>1, <2>2, <2>3
<1>5. ASSUME NEW r \in Request, CheckAttempts(r) PROVE TypeOK'
  <2>1. TableOK'
    BY <1>5 DEF CheckAttempts, DropOldEntry
  <2>2. ProcessOK'
    BY <1>5, DropTypes DEF CheckAttempts
  <2>3. RequestOK'
    <3>1. at' = at /\ (GoTo(r, "read") \/ Return(r))
      BY <1>5 DEF CheckAttempts
    <3> HIDE DEF GoTo, Return, RequestOK
    <3> QED  BY <3>1, GoTypes, ReturnTypes DEF TypeOK
  <2> QED  BY <2>1, <2>2, <2>3
<1>6. ASSUME NEW r \in Request, ReadNewest(r) PROVE TypeOK'
  <2>0. stored' \subseteq stored
    BY <1>6, ReadTakesNothingNew
  <2>1. TableOK'
    BY <1>6, <2>0 DEF ReadNewest
  <2>2. ProcessOK'
    BY <1>6 DEF ReadNewest, Newest
  <2>3. RequestOK'
    <3>1. CASE Return(r)
      <4>1. at' = at
        BY <1>6 DEF ReadNewest
      <4> HIDE DEF Return, RequestOK
      <4> QED  BY <3>1, <4>1, ReturnTypes DEF TypeOK
    <3>2. CASE /\ pc' = [pc EXCEPT ![r] = "compare"] /\ UNCHANGED code
               /\ \E w \in stored : record' = [record EXCEPT ![r] = w]
      BY <1>6, <3>2 DEF ReadNewest
    <3>3. Return(r) \/ (/\ pc' = [pc EXCEPT ![r] = "compare"] /\ UNCHANGED code
                        /\ \E w \in stored : record' = [record EXCEPT ![r] = w])
      BY <1>6 DEF ReadNewest, Newest
    <3> QED  BY <3>1, <3>2, <3>3
  <2> QED  BY <2>1, <2>2, <2>3
<1>7. ASSUME NEW r \in Request, Compare(r) PROVE TypeOK'
  <2>1. TableOK'
    BY <1>7 DEF Compare
  <2>2. ProcessOK'
    BY <1>7 DEF Compare
  <2>3. RequestOK'
    <3>1. at' = at /\ (GoTo(r, "claim") \/ Return(r)) /\ record[r] \in Row
      BY <1>7 DEF Compare
    <3> HIDE DEF GoTo, Return, RequestOK
    <3> QED  BY <3>1, GoTypes, ReturnTypes DEF TypeOK
  <2> QED  BY <2>1, <2>2, <2>3
<1>8. ASSUME NEW r \in Request, Claim(r) PROVE TypeOK'
  <2>1. TableOK'
    BY <1>8 DEF Claim
  <2>2. ProcessOK'
    <3>1. CASE consuming' = consuming
      BY <1>8, <3>1 DEF Claim
    <3>2. CASE consuming' = [consuming EXCEPT ![at[r]] = @ \cup {record[r]}]
      <4>1. at[r] \in Process /\ record[r] \in Row
        BY <1>8 DEF Claim
      <4>2. consuming' \in [Process -> SUBSET Row]
        BY <3>2, <4>1
      <4> QED  BY <1>8, <4>2 DEF Claim
    <3> QED  BY <1>8, <3>1, <3>2 DEF Claim
  <2>3. RequestOK'
    <3>1. at' = at /\ (GoTo(r, "consume") \/ Return(r)) /\ record[r] \in Row
      BY <1>8 DEF Claim
    <3> HIDE DEF GoTo, Return, RequestOK
    <3> QED  BY <3>1, GoTypes, ReturnTypes DEF TypeOK
  <2> QED  BY <2>1, <2>2, <2>3
<1>9. ASSUME NEW r \in Request, Consume(r) PROVE TypeOK'
  <2>1. TableOK'
    BY <1>9 DEF Consume
  <2>2. ProcessOK'
    BY <1>9 DEF Consume
  <2>3. RequestOK'
    BY <1>9 DEF Consume
  <2> QED  BY <2>1, <2>2, <2>3
<1>10. ASSUME NEW r \in Request, Release(r) PROVE TypeOK'
  <2>1. TableOK'
    BY <1>10 DEF Release
  <2>2. ProcessOK'
    BY <1>10 DEF Release
  <2>3. RequestOK'
    BY <1>10 DEF Release
  <2> QED  BY <2>1, <2>2, <2>3
<1>11. ASSUME NEW c \in Code, Expire(c) PROVE TypeOK'
  BY <1>11 DEF Expire
<1>12. ASSUME NEW p \in Process, WindowEnds(p) PROVE TypeOK'
  BY <1>12 DEF WindowEnds
<1>13. ASSUME NEW p \in Process, Restart(p) PROVE TypeOK'
  BY <1>13 DEF Restart
<1>14. CASE UNCHANGED vars
  BY <1>14 DEF vars
<1> QED
  BY <1>1, <1>2, <1>3, <1>4, <1>5, <1>6, <1>7, <1>8, <1>9, <1>10, <1>11, <1>12, <1>13,
     <1>14 DEF Next, RequestStep

-----------------------------------------------------------------------------

\* Codes on their way to the table.
UnderWay(r) == pc[r] \in {"delete_old", "insert"}

\* A request that goes on, or ends, puts no code on its way.
LEMMA NothingNewUnderWay ==
    ASSUME TypeOK, NEW r \in Request,
           \/ Return(r)
           \/ \E label \in PC : GoTo(r, label) /\ (UnderWay(r) \/ label \notin {"delete_old", "insert"})
    PROVE  \A q \in Request : UnderWay(q)' => UnderWay(q) /\ code'[q] = code[q]
<1>1. CASE Return(r)
  BY <1>1 DEF Return, UnderWay, TypeOK, RequestOK
<1>2. ASSUME NEW label \in PC, GoTo(r, label),
             UnderWay(r) \/ label \notin {"delete_old", "insert"}
      PROVE  \A q \in Request : UnderWay(q)' => UnderWay(q) /\ code'[q] = code[q]
  BY <1>2 DEF GoTo, UnderWay, TypeOK, RequestOK
<1> QED  BY <1>1, <1>2

\* A step that adds no row and no code, and accepts nothing, keeps the invariant.
LEMMA QuietStep ==
    ASSUME CodeInv, stored' \subseteq stored, next' = next, accepted' = accepted,
           \A q \in Request : UnderWay(q)' => UnderWay(q) /\ code'[q] = code[q]
    PROVE  StoredIsFresh' /\ AcceptedOnce'
BY DEF CodeInv, StoredIsFresh, AcceptedOnce, UnderWay

\* The invariant: what is stored is fresh, and no row is accepted twice.
LEMMA FreshStep ==
    ASSUME CodeInv, [Next]_vars
    PROVE  StoredIsFresh' /\ AcceptedOnce'
<1> USE DEF tableVars, processVars, requestVars, boundVars, GoTo, Return, Start
<1>0. TypeOK /\ pc \in [Request -> PC] /\ next \in Nat /\ accepted \in [Row -> Nat]
  BY CodeAssumption DEF CodeInv, TypeOK, RequestOK, TableOK
\* A new code: no row has it yet, and every code under way is older.
<1>1. ASSUME NEW r \in Request, NEW p \in Process, BeginStore(r, p)
      PROVE  StoredIsFresh' /\ AcceptedOnce'
  <2>1. /\ stored' = stored /\ accepted' = accepted /\ next' = next + 1
        /\ next \in Code /\ code'[r] = next /\ ~UnderWay(r)
        /\ \A q \in Request \ {r} : code'[q] = code[q] /\ pc'[q] = pc[q]
    BY <1>0, <1>1, CodeAssumption
       DEF BeginStore, UnderWay, TypeOK, RequestOK, TableOK, Code
  <2>2. \A w \in Row : w[1] \in Nat
    BY CodeAssumption DEF Row, Code
  <2>3. stored \subseteq Row
    BY <1>0 DEF TypeOK, TableOK
  <2>4. \A w \in Row : w[1] = next => w \notin stored /\ accepted[w] = 0
    BY <1>0, <2>2, <2>3 DEF CodeInv, StoredIsFresh
  <2>5. \A q \in Request : UnderWay(q) => code[q] \in Nat /\ code[q] < next
    BY CodeAssumption DEF CodeInv, StoredIsFresh, UnderWay, Code
  <2>6. (\A w \in stored : accepted[w] = 0 /\ w[1] < next)'
    BY <1>0, <2>1, <2>2, <2>3 DEF CodeInv, StoredIsFresh
  <2>7. (\A w \in Row : w[1] >= next => accepted[w] = 0)'
    BY <1>0, <2>1, <2>2 DEF CodeInv, StoredIsFresh
  <2>8. ASSUME NEW q \in Request, UnderWay(q)'
        PROVE  /\ code'[q] \in Code /\ code'[q] < next'
               /\ \A w \in Row : w[1] = code'[q] => w \notin stored' /\ accepted'[w] = 0
               /\ \A s \in Request : s # q /\ UnderWay(s)' => code'[s] # code'[q]
    <3>1. CASE q = r
      BY <1>0, <2>1, <2>4, <2>5, <3>1 DEF UnderWay
    <3>2. CASE q # r
      BY <1>0, <2>1, <2>5, <2>8, <3>2 DEF UnderWay, CodeInv, StoredIsFresh
    <3> QED  BY <3>1, <3>2
  <2> QED  BY <2>1, <2>6, <2>7, <2>8 DEF StoredIsFresh, AcceptedOnce, CodeInv, UnderWay
<1>2. ASSUME NEW r \in Request, DeleteOld(r) PROVE StoredIsFresh' /\ AcceptedOnce'
  <2>1. \A q \in Request : UnderWay(q)' => UnderWay(q) /\ code'[q] = code[q]
    <3>1. (GoTo(r, "insert") \/ Return(r)) /\ UnderWay(r)
      BY <1>2 DEF DeleteOld, UnderWay
    <3> HIDE DEF GoTo, Return
    <3> QED  BY <1>0, <3>1, NothingNewUnderWay DEF PC
  <2> QED  BY <1>2, <2>1, QuietStep DEF DeleteOld
\* The new rows have the code of r, which nobody has accepted.
<1>3. ASSUME NEW r \in Request, Insert(r) PROVE StoredIsFresh' /\ AcceptedOnce'
  <2>1. /\ UnderWay(r) /\ ~UnderWay(r)' /\ next' = next
        /\ accepted' = accepted
        /\ \A q \in Request \ {r} : pc'[q] = pc[q] /\ code'[q] = code[q]
    BY <1>0, <1>3 DEF Insert, UnderWay
  <2>2. \A w \in stored' \ stored : w \in Row /\ w[1] = code[r]
    BY <1>3 DEF Insert, CodeInv, StoredIsFresh, Row
  <2>3. code[r] < next /\ \A w \in Row : w[1] = code[r] => accepted[w] = 0
    BY <2>1 DEF CodeInv, StoredIsFresh, UnderWay
  <2>4. (\A w \in stored : accepted[w] = 0 /\ w[1] < next)'
    BY <2>1, <2>2, <2>3 DEF CodeInv, StoredIsFresh
  <2>5. ASSUME NEW q \in Request, UnderWay(q)'
        PROVE  /\ UnderWay(q) /\ code[q] # code[r]
               /\ \A w \in Row : w[1] = code[q] => w \notin stored'
    BY <2>1, <2>2, <2>5 DEF CodeInv, StoredIsFresh, UnderWay
  <2> QED  BY <2>1, <2>4, <2>5 DEF StoredIsFresh, AcceptedOnce, CodeInv, UnderWay
<1>4. ASSUME NEW r \in Request, NEW p \in Process, NEW c \in Guess, BeginVerify(r, p, c)
      PROVE  StoredIsFresh' /\ AcceptedOnce'
  <2>1. \A q \in Request : UnderWay(q)' => UnderWay(q) /\ code'[q] = code[q]
    BY <1>0, <1>4 DEF BeginVerify, UnderWay, TypeOK, RequestOK
  <2> QED  BY <1>4, <2>1, QuietStep DEF BeginVerify
<1>5. ASSUME NEW r \in Request, CheckAttempts(r) PROVE StoredIsFresh' /\ AcceptedOnce'
  <2>1. \A q \in Request : UnderWay(q)' => UnderWay(q) /\ code'[q] = code[q]
    <3>1. (GoTo(r, "read") \/ Return(r))
      BY <1>5 DEF CheckAttempts, UnderWay
    <3> HIDE DEF GoTo, Return
    <3> QED  BY <1>0, <3>1, NothingNewUnderWay DEF PC
  <2> QED  BY <1>5, <2>1, QuietStep DEF CheckAttempts
<1>6. ASSUME NEW r \in Request, ReadNewest(r) PROVE StoredIsFresh' /\ AcceptedOnce'
  <2>1. \A q \in Request : UnderWay(q)' => UnderWay(q) /\ code'[q] = code[q]
    <3>1. CASE Return(r)
      BY <1>0, <3>1, NothingNewUnderWay
    <3>2. CASE pc' = [pc EXCEPT ![r] = "compare"] /\ UNCHANGED code
      BY <1>0, <3>2 DEF UnderWay
    <3>3. Return(r) \/ (pc' = [pc EXCEPT ![r] = "compare"] /\ UNCHANGED code)
      BY <1>6 DEF ReadNewest
    <3> QED  BY <3>1, <3>2, <3>3
  <2>2. next' = next /\ accepted' = accepted
    BY <1>6 DEF ReadNewest
  <2> QED  BY <1>6, <2>1, <2>2, QuietStep, ReadTakesNothingNew
<1>7. ASSUME NEW r \in Request, Compare(r) PROVE StoredIsFresh' /\ AcceptedOnce'
  <2>1. \A q \in Request : UnderWay(q)' => UnderWay(q) /\ code'[q] = code[q]
    <3>1. (GoTo(r, "claim") \/ Return(r))
      BY <1>7 DEF Compare, UnderWay
    <3> HIDE DEF GoTo, Return
    <3> QED  BY <1>0, <3>1, NothingNewUnderWay DEF PC
  <2> QED  BY <1>7, <2>1, QuietStep DEF Compare
<1>8. ASSUME NEW r \in Request, Claim(r) PROVE StoredIsFresh' /\ AcceptedOnce'
  <2>1. \A q \in Request : UnderWay(q)' => UnderWay(q) /\ code'[q] = code[q]
    <3>1. (GoTo(r, "consume") \/ Return(r))
      BY <1>8 DEF Claim, UnderWay
    <3> HIDE DEF GoTo, Return
    <3> QED  BY <1>0, <3>1, NothingNewUnderWay DEF PC
  <2> QED  BY <1>8, <2>1, QuietStep DEF Claim
\* Only a stored row is accepted, and it is gone with that step.
<1>9. ASSUME NEW r \in Request, Consume(r) PROVE StoredIsFresh' /\ AcceptedOnce'
  <2>1. \A q \in Request : UnderWay(q)' => UnderWay(q) /\ code'[q] = code[q]
    BY <1>0, <1>9 DEF Consume, UnderWay
  <2>2. CASE accepted' = accepted
    BY <1>9, <2>1, <2>2, QuietStep DEF Consume
  <2>3. CASE /\ record[r] \in stored /\ stored' = stored \ {record[r]}
             /\ accepted' = [accepted EXCEPT ![record[r]] = @ + 1]
    <3>1. record[r] \in Row /\ accepted[record[r]] = 0 /\ record[r][1] < next
      BY <1>0, <2>3 DEF TypeOK, TableOK, CodeInv, StoredIsFresh
    <3>2. accepted'[record[r]] = 1 /\ \A w \in Row \ {record[r]} : accepted'[w] = accepted[w]
      BY <1>0, <2>3, <3>1
    <3>3. AcceptedOnce'
      BY <3>1, <3>2 DEF CodeInv, AcceptedOnce
    <3>4. (\A w \in stored : accepted[w] = 0 /\ w[1] < next)'
      BY <1>0, <1>9, <2>3, <3>2 DEF Consume, CodeInv, StoredIsFresh, TypeOK, TableOK
    <3>5. (\A w \in Row : w[1] >= next => accepted[w] = 0)'
      <4>1. record[r][1] \in Nat
        BY <3>1, CodeAssumption DEF Row, Code
      <4> QED  BY <1>0, <1>9, <3>1, <3>2, <4>1 DEF Consume, CodeInv, StoredIsFresh
    <3>6. ASSUME NEW q \in Request, UnderWay(q)'
          PROVE  /\ UnderWay(q) /\ code'[q] = code[q]
                 /\ \A w \in Row : w[1] = code[q] => w \notin stored' /\ accepted'[w] = 0
      BY <2>1, <2>3, <3>1, <3>2, <3>6 DEF CodeInv, StoredIsFresh, UnderWay
    <3>7. next' = next
      BY <1>9 DEF Consume
    <3> QED
      BY <3>3, <3>4, <3>5, <3>6, <3>7 DEF CodeInv, StoredIsFresh, UnderWay
  <2> QED  BY <1>9, <2>2, <2>3 DEF Consume
<1>10. ASSUME NEW r \in Request, Release(r) PROVE StoredIsFresh' /\ AcceptedOnce'
  <2>1. \A q \in Request : UnderWay(q)' => UnderWay(q) /\ code'[q] = code[q]
    BY <1>0, <1>10 DEF Release, UnderWay
  <2> QED  BY <1>10, <2>1, QuietStep DEF Release
<1>11. ASSUME NEW c \in Code, Expire(c) PROVE StoredIsFresh' /\ AcceptedOnce'
  BY <1>11, QuietStep DEF Expire, UnderWay
<1>12. ASSUME NEW p \in Process, WindowEnds(p) PROVE StoredIsFresh' /\ AcceptedOnce'
  BY <1>12, QuietStep DEF WindowEnds, UnderWay
<1>13. ASSUME NEW p \in Process, Restart(p) PROVE StoredIsFresh' /\ AcceptedOnce'
  <2>1. \A q \in Request : UnderWay(q)' => UnderWay(q) /\ code'[q] = code[q]
    BY <1>0, <1>13 DEF Restart, UnderWay
  <2> QED  BY <1>13, <2>1, QuietStep DEF Restart
<1>14. CASE UNCHANGED vars
  BY <1>14, QuietStep DEF vars, UnderWay
<1> QED
  BY <1>1, <1>2, <1>3, <1>4, <1>5, <1>6, <1>7, <1>8, <1>9, <1>10, <1>11, <1>12, <1>13,
     <1>14 DEF Next, RequestStep

\* Every reachable state satisfies the inductive invariant.
THEOREM CodeInvCorrect == Spec => []CodeInv
<1>1. Init => CodeInv
  BY CodeInitially
<1>2. CodeInv /\ [Next]_vars => CodeInv'
  BY TypeStep, FreshStep DEF CodeInv
<1> QED  BY <1>1, <1>2, PTL DEF Spec

\* A row makes at most one request answer True, for every number of processes
\* and requests.
THEOREM AcceptedOnceCorrect == Spec => []AcceptedOnce
<1>1. CodeInv => AcceptedOnce
  BY DEF CodeInv
<1> QED  BY <1>1, CodeInvCorrect, PTL

-----------------------------------------------------------------------------
(***************************************************************************)
(* Claims.  A row is in consuming exactly while one request holds it.      *)
(***************************************************************************)
Holds(r, p, w) == at[r] = p /\ record[r] = w /\ pc[r] \in {"consume", "release"}

HoldersClaim ==
    \A r \in Request : pc[r] \in {"consume", "release"} => record[r] \in consuming[at[r]]

ClaimInv == TypeOK /\ HoldersClaim /\ ClaimsAreHeld

\* A step after which the same requests hold the same rows changes nothing.
LEMMA ClaimsStand ==
    ASSUME HoldersClaim, ClaimsAreHeld, consuming' = consuming,
           \A r \in Request :
               \/ /\ pc[r] \notin {"consume", "release"}
                  /\ pc'[r] \notin {"consume", "release"}
               \/ /\ pc[r] \in {"consume", "release"} /\ pc'[r] \in {"consume", "release"}
                  /\ at'[r] = at[r] /\ record'[r] = record[r]
    PROVE  HoldersClaim' /\ ClaimsAreHeld'
BY DEF HoldersClaim, ClaimsAreHeld

\* Every step keeps the two sides together.
LEMMA ClaimStep ==
    ASSUME TypeOK, HoldersClaim, ClaimsAreHeld, [Next]_vars
    PROVE  HoldersClaim' /\ ClaimsAreHeld'
<1> USE DEF TypeOK, ProcessOK, RequestOK, GoTo, Return, Start, tableVars,
            processVars, requestVars, boundVars
<1>1. ASSUME NEW r \in Request, NEW p \in Process, BeginStore(r, p)
      PROVE  HoldersClaim' /\ ClaimsAreHeld'
  BY <1>1, ClaimsStand DEF BeginStore
<1>2. ASSUME NEW r \in Request, DeleteOld(r) \/ Insert(r)
      PROVE  HoldersClaim' /\ ClaimsAreHeld'
  BY <1>2, ClaimsStand DEF DeleteOld, Insert
<1>3. ASSUME NEW r \in Request, NEW p \in Process, NEW c \in Guess, BeginVerify(r, p, c)
      PROVE  HoldersClaim' /\ ClaimsAreHeld'
  BY <1>3, ClaimsStand DEF BeginVerify
<1>4. ASSUME NEW r \in Request, CheckAttempts(r) PROVE HoldersClaim' /\ ClaimsAreHeld'
  BY <1>4, ClaimsStand DEF CheckAttempts
<1>5. ASSUME NEW r \in Request, ReadNewest(r) PROVE HoldersClaim' /\ ClaimsAreHeld'
  BY <1>5, ClaimsStand DEF ReadNewest
<1>6. ASSUME NEW r \in Request, Compare(r) PROVE HoldersClaim' /\ ClaimsAreHeld'
  BY <1>6, ClaimsStand DEF Compare
<1>7. ASSUME NEW r \in Request, Claim(r) PROVE HoldersClaim' /\ ClaimsAreHeld'
  <2>1. CASE record[r] \in consuming[at[r]]
    BY <1>7, <2>1, ClaimsStand DEF Claim
  <2>2. CASE record[r] \notin consuming[at[r]]
    <3>1. /\ consuming' = [consuming EXCEPT ![at[r]] = @ \cup {record[r]}]
          /\ pc' = [pc EXCEPT ![r] = "consume"] /\ at' = at /\ record' = record
          /\ pc[r] = "claim"
      BY <1>7, <2>2 DEF Claim
    <3>2. \A q \in Request : ~Holds(q, at[r], record[r])
      BY <2>2 DEF HoldersClaim, Holds
    <3>3. HoldersClaim'
      BY <3>1 DEF HoldersClaim
    <3>4. ASSUME NEW p \in Process, NEW w \in consuming'[p]
          PROVE  \E s \in Request :
                    /\ at'[s] = p /\ record'[s] = w /\ pc'[s] \in {"consume", "release"}
                    /\ \A q \in Request \ {s} :
                          ~(at'[q] = p /\ record'[q] = w /\ pc'[q] \in {"consume", "release"})
      <4>1. CASE p = at[r] /\ w = record[r]
        BY <3>1, <3>2, <4>1 DEF Holds
      <4>2. CASE w \in consuming[p] /\ ~(p = at[r] /\ w = record[r])
        BY <3>1, <4>2 DEF ClaimsAreHeld
      <4> QED  BY <3>1, <3>4, <4>1, <4>2
    <3> QED  BY <3>3, <3>4 DEF ClaimsAreHeld
  <2> QED  BY <2>1, <2>2
<1>8. ASSUME NEW r \in Request, Consume(r) PROVE HoldersClaim' /\ ClaimsAreHeld'
  BY <1>8, ClaimsStand DEF Consume
<1>9. ASSUME NEW r \in Request, Release(r) PROVE HoldersClaim' /\ ClaimsAreHeld'
  <2>1. /\ consuming' = [consuming EXCEPT ![at[r]] = @ \ {record[r]}]
        /\ pc' = [pc EXCEPT ![r] = "idle"] /\ at' = at
        /\ record' = [record EXCEPT ![r] = <<>>]
        /\ Holds(r, at[r], record[r]) /\ record[r] \in consuming[at[r]]
    BY <1>9 DEF Release, Holds, HoldersClaim
  <2>2. \A q \in Request \ {r} : ~Holds(q, at[r], record[r])
    BY <2>1 DEF ClaimsAreHeld, Holds
  <2>3. HoldersClaim'
    BY <2>1, <2>2 DEF HoldersClaim, Holds
  <2>4. ClaimsAreHeld'
    BY <2>1 DEF ClaimsAreHeld
  <2> QED  BY <2>3, <2>4
<1>10. ASSUME NEW c \in Code, Expire(c) PROVE HoldersClaim' /\ ClaimsAreHeld'
  BY <1>10, ClaimsStand DEF Expire
<1>11. ASSUME NEW p \in Process, WindowEnds(p) PROVE HoldersClaim' /\ ClaimsAreHeld'
  BY <1>11, ClaimsStand DEF WindowEnds
<1>12. ASSUME NEW p \in Process, Restart(p) PROVE HoldersClaim' /\ ClaimsAreHeld'
  BY <1>12 DEF Restart, HoldersClaim, ClaimsAreHeld
<1>13. CASE UNCHANGED vars
  BY <1>13, ClaimsStand DEF vars
<1> QED
  BY <1>1, <1>2, <1>3, <1>4, <1>5, <1>6, <1>7, <1>8, <1>9, <1>10, <1>11, <1>12, <1>13
  DEF Next, RequestStep

\* No code stays blocked: verify_otp_from_db gives up every claim it makes.
THEOREM ClaimsAreHeldCorrect == Spec => []ClaimsAreHeld
<1>1. Init => ClaimInv /\ CodeInv
  <2>1. Init => HoldersClaim /\ ClaimsAreHeld
    BY DEF Init, HoldersClaim, ClaimsAreHeld
  <2> QED  BY <2>1, CodeInitially DEF ClaimInv, CodeInv
<1>2. ClaimInv /\ CodeInv /\ [Next]_vars => (ClaimInv /\ CodeInv)'
  BY TypeStep, FreshStep, ClaimStep DEF ClaimInv, CodeInv
<1>3. ClaimInv => ClaimsAreHeld
  BY DEF ClaimInv
<1> QED  BY <1>1, <1>2, <1>3, PTL DEF Spec

-----------------------------------------------------------------------------
(***************************************************************************)
(* Failed attempts.  Those already counted and those of the requests that  *)
(* have passed the check are together below the limit and the requests.    *)
(***************************************************************************)
Trying(p) == {r \in Request : at[r] = p /\ pc[r] \in {"read", "compare"}}

AttemptInv ==
    \A p \in Process :
        failed[p] + Cardinality(Trying(p)) < MaxOtpAttempts + Cardinality(Request)

\* No more requests are trying than there are.
LEMMA TryingBounded ==
    ASSUME NEW T \in SUBSET Request
    PROVE  /\ IsFiniteSet(T) /\ Cardinality(T) \in Nat
           /\ Cardinality(Request) \in Nat /\ Cardinality(T) <= Cardinality(Request)
BY CodeAssumption, FS_Subset, FS_CardinalityType

\* A process whose count is small enough, or not larger with no more trying.
LEMMA AttemptsStand ==
    ASSUME ProcessOK, ProcessOK', AttemptInv, NEW p \in Process,
           \/ failed'[p] < MaxOtpAttempts
           \/ failed'[p] = failed[p] /\ Trying(p)' \subseteq Trying(p)
    PROVE  failed'[p] + Cardinality(Trying(p)') < MaxOtpAttempts + Cardinality(Request)
<1>1. Trying(p) \in SUBSET Request /\ Trying(p)' \in SUBSET Request
  BY DEF Trying
<1>2. /\ Cardinality(Request) \in Nat /\ Cardinality(Trying(p)') \in Nat
      /\ Cardinality(Trying(p)) \in Nat /\ IsFiniteSet(Trying(p))
      /\ Cardinality(Trying(p)') <= Cardinality(Request)
  BY <1>1, TryingBounded
<1>3. failed[p] \in Nat /\ failed'[p] \in Nat /\ MaxOtpAttempts \in Nat
  BY CodeAssumption DEF ProcessOK
<1>4. CASE failed'[p] < MaxOtpAttempts
  BY <1>2, <1>3, <1>4
<1>5. CASE failed'[p] = failed[p] /\ Trying(p)' \subseteq Trying(p)
  <2>1. Cardinality(Trying(p)') <= Cardinality(Trying(p))
    BY <1>2, <1>5, FS_Subset
  <2>2. failed[p] + Cardinality(Trying(p)) < MaxOtpAttempts + Cardinality(Request)
    BY DEF AttemptInv
  <2> QED  BY <1>2, <1>3, <1>5, <2>1, <2>2
<1> QED  BY <1>4, <1>5

\* An attempt counts itself when it has been compared.
LEMMA AttemptStep ==
    ASSUME TypeOK, TypeOK', AttemptInv, [Next]_vars
    PROVE  AttemptInv'
<1> SUFFICES ASSUME NEW p \in Process
             PROVE  failed'[p] + Cardinality(Trying(p)')
                        < MaxOtpAttempts + Cardinality(Request)
  BY DEF AttemptInv
<1> DEFINE Small == failed'[p] < MaxOtpAttempts
           Stands == failed'[p] = failed[p] /\ Trying(p)' \subseteq Trying(p)
<1>a. Small \/ Stands => failed'[p] + Cardinality(Trying(p)')
                              < MaxOtpAttempts + Cardinality(Request)
  BY AttemptsStand DEF TypeOK
<1> USE DEF TypeOK, ProcessOK, RequestOK, GoTo, Return, Start, tableVars,
            processVars, requestVars, boundVars
<1>0. 0 < MaxOtpAttempts
  BY CodeAssumption
<1>1. ASSUME NEW r \in Request, NEW s \in Process, BeginStore(r, s) PROVE Small \/ Stands
  BY <1>1, <1>0 DEF BeginStore, DropOldEntry, Trying
<1>2. ASSUME NEW r \in Request, DeleteOld(r) \/ Insert(r) PROVE Small \/ Stands
  BY <1>2 DEF DeleteOld, Insert, Trying
<1>3. ASSUME NEW r \in Request, NEW s \in Process, NEW c \in Guess, BeginVerify(r, s, c)
      PROVE  Small \/ Stands
  BY <1>3 DEF BeginVerify, Trying
<1>4. ASSUME NEW r \in Request, CheckAttempts(r) PROVE Small \/ Stands
  <2>1. CASE LockedOut(at[r])
    BY <1>4, <2>1 DEF CheckAttempts, Trying
  <2>2. CASE ~LockedOut(at[r])
    <3>1. CASE p = at[r]
      BY <1>0, <1>4, <2>2, <3>1, CodeAssumption DEF CheckAttempts, LockedOut, DropOldEntry
    <3>2. CASE p # at[r]
      BY <1>4, <2>2, <3>2 DEF CheckAttempts, DropOldEntry, Trying
    <3> QED  BY <3>1, <3>2
  <2> QED  BY <2>1, <2>2
<1>5. ASSUME NEW r \in Request, ReadNewest(r) PROVE Small \/ Stands
  BY <1>5 DEF ReadNewest, Trying
<1>6. ASSUME NEW r \in Request, Compare(r)
      PROVE  failed'[p] + Cardinality(Trying(p)') < MaxOtpAttempts + Cardinality(Request)
  <2>1. CASE code[r] = record[r][1] \/ p # at[r]
    BY <1>6, <1>a, <2>1 DEF Compare, Trying
  <2>2. CASE code[r] # record[r][1] /\ p = at[r]
    <3>1. failed'[p] = failed[p] + 1 /\ Trying(p)' = Trying(p) \ {r} /\ r \in Trying(p)
      BY <1>6, <2>2 DEF Compare, Trying
    <3>2. Trying(p) \in SUBSET Request
      BY DEF Trying
    <3>3. Cardinality(Trying(p)') = Cardinality(Trying(p)) - 1
            /\ Cardinality(Trying(p)) \in Nat /\ Cardinality(Request) \in Nat
      BY <3>1, <3>2, TryingBounded, FS_RemoveElement
    <3>4. failed[p] \in Nat
      OBVIOUS
    <3>5. failed[p] + Cardinality(Trying(p)) < MaxOtpAttempts + Cardinality(Request)
      BY DEF AttemptInv
    <3> QED  BY <3>1, <3>3, <3>4, <3>5, CodeAssumption
  <2> QED  BY <2>1, <2>2
<1>7. ASSUME NEW r \in Request, Claim(r) \/ Consume(r) PROVE Small \/ Stands
  BY <1>7 DEF Claim, Consume, Trying
<1>8. ASSUME NEW r \in Request, Release(r) PROVE Small \/ Stands
  BY <1>8, <1>0 DEF Release, Trying
<1>9. ASSUME NEW c \in Code, Expire(c) PROVE Small \/ Stands
  BY <1>9 DEF Expire, Trying
<1>10. ASSUME NEW s \in Process, WindowEnds(s) PROVE Small \/ Stands
  BY <1>10 DEF WindowEnds, Trying
<1>11. ASSUME NEW s \in Process, Restart(s) PROVE Small \/ Stands
  BY <1>11, <1>0 DEF Restart, Trying
<1>12. CASE UNCHANGED vars
  BY <1>12, <1>a DEF vars, Trying
<1> HIDE DEF Small, Stands
<1> QED
  BY <1>a, <1>1, <1>2, <1>3, <1>4, <1>5, <1>6, <1>7, <1>8, <1>9, <1>10, <1>11, <1>12
  DEF Next, RequestStep

\* Guessing is bounded, however many requests pass the check together: between
\* two resets a process counts fewer wrong codes than the limit and its requests.
THEOREM AttemptsBoundedCorrect == Spec => []AttemptsBounded
<1>1. Init => AttemptInv /\ CodeInv
  <2> SUFFICES ASSUME Init PROVE AttemptInv
    BY CodeInitially
  <2>1. \A p \in Process : failed[p] = 0 /\ Trying(p) = {}
    BY DEF Init, Trying
  <2>2. Cardinality({}) = 0 /\ Cardinality(Request) \in Nat
    BY CodeAssumption, FS_EmptySet, FS_CardinalityType
  <2> QED  BY <2>1, <2>2, CodeAssumption DEF AttemptInv
<1>2. AttemptInv /\ CodeInv /\ [Next]_vars => (AttemptInv /\ CodeInv)'
  BY TypeStep, FreshStep, AttemptStep DEF CodeInv
<1>3. AttemptInv /\ CodeInv => AttemptsBounded
  <2> SUFFICES ASSUME AttemptInv, CodeInv, NEW p \in Process
               PROVE  failed[p] < MaxOtpAttempts + Cardinality(Request)
    BY DEF AttemptsBounded
  <2>1. failed[p] \in Nat
    BY DEF CodeInv, TypeOK, ProcessOK
  <2>2. Cardinality(Trying(p)) \in Nat /\ Cardinality(Request) \in Nat
    BY TryingBounded DEF Trying
  <2>3. failed[p] + Cardinality(Trying(p)) < MaxOtpAttempts + Cardinality(Request)
    BY DEF AttemptInv
  <2> QED  BY <2>1, <2>2, <2>3, CodeAssumption
<1> QED  BY <1>1, <1>2, <1>3, PTL DEF Spec

-----------------------------------------------------------------------------
(***************************************************************************)
(* The routes of the phone app: what they do to the codes is what          *)
(* OneTimeCode does, and the cooldown keeps two requests for a code apart. *)
(***************************************************************************)

\* A request that is to store or enter a code knows its process.
LEMMA FrontHasProcess ==
    ASSUME MobileTypeOK, NEW r \in Request, front[r].do # "idle"
    PROVE  front[r] \in Places /\ front[r].p \in Process
BY DEF MobileTypeOK, Places, Idle

\* Every step of the routes is one of OneTimeCode or leaves its variables alone.
LEMMA MobileStepMaps ==
    ASSUME MobileTypeOK, [MobileNext]_mobileVars
    PROVE  [Next]_vars
<1>1. ASSUME NEW r \in Request, StoreCode(r) PROVE [Next]_vars
  <2>1. front[r].p \in Process
    BY <1>1, FrontHasProcess DEF StoreCode, Does
  <2>2. CASE BeginStore(r, front[r].p)
    BY <2>1, <2>2 DEF Next
  <2>3. CASE UNCHANGED vars
    BY <2>3
  <2> QED  BY <1>1, <2>2, <2>3 DEF StoreCode
<1>2. ASSUME NEW r \in Request, EnterCode(r) PROVE [Next]_vars
  <2>1. front[r].p \in Process
    BY <1>2, FrontHasProcess DEF EnterCode, Does
  <2>2. PICK c \in Guess : BeginVerify(r, front[r].p, c)
    BY <1>2 DEF EnterCode
  <2> QED  BY <2>1, <2>2 DEF Next
<1>3. ASSUME NEW r \in Request, CodeStep(r) PROVE [Next]_vars
  BY <1>3 DEF CodeStep, Next
<1>4. ASSUME NEW p \in Process, RestartWhole(p) PROVE [Next]_vars
  BY <1>4 DEF RestartWhole, Next
<1>5. CASE Time
  BY <1>5 DEF Time, Next
<1>6. CASE UNCHANGED vars
  BY <1>6
<1>7. CASE UNCHANGED mobileVars
  BY <1>7 DEF mobileVars
<1> QED
  BY <1>1, <1>2, <1>3, <1>4, <1>5, <1>6, <1>7
  DEF MobileNext, MobileStep, AskCode, AskElsewhere, CountTry, Cool, GiveBack, ClearTries, FindNobody,
      CoolingEnds, TriesEnd

\* Every step of the routes keeps their variables well typed.
LEMMA MobileTypeStep ==
    ASSUME TypeOK, MobileTypeOK, [MobileNext]_mobileVars
    PROVE  MobileTypeOK'
<1> USE MobileAssumption DEF MobileTypeOK
<1>0. losses \in Nat /\ \A lost \in BOOLEAN : Lose(lost) => losses' \in Nat
  BY DEF Lose
<1>a. /\ Idle.do = "idle" /\ \A p \in Process : [do |-> "cool", p |-> p] \in Places
      /\ \A p \in Process : [do |-> "verify", p |-> p] \in Places
      /\ \A p \in Process : [do |-> "clear", p |-> p] \in Places
      /\ \A p \in Process : [do |-> "store", p |-> p] \in Places
  BY DEF Idle, Places
<1>b. ASSUME NEW r \in Request, front[r].do # "idle",
             NEW what \in {"find", "give_back", "store"}, GoesTo(r, what)
      PROVE  front' \in [Request -> Places \cup {Idle}]
  <2>1. front[r] \in Places
    BY <1>b, FrontHasProcess
  <2>2. [front[r] EXCEPT !.do = what] \in Places
    BY <2>1 DEF Places
  <2> QED  BY <1>b, <2>2 DEF GoesTo
<1>c. ASSUME NEW r \in Request, Leave(r) PROVE front' \in [Request -> Places \cup {Idle}]
  BY <1>c DEF Leave
<1>1. ASSUME NEW r \in Request, NEW p \in Process, NEW lost \in BOOLEAN,
             AskCode(r, p, lost) \/ CountTry(r, p, lost)
      PROVE  MobileTypeOK'
  <2>1. CASE AskCode(r, p, lost)
    BY <1>0, <1>a, <2>1 DEF AskCode
  <2>2. CASE CountTry(r, p, lost)
    <3>1. tries' \in 0 .. MaxTries + 1
      BY <2>2 DEF CountTry, Counted
    <3>2. front' \in [Request -> Places \cup {Idle}]
      BY <1>a, <2>2 DEF CountTry
    <3> QED  BY <1>0, <2>2, <3>1, <3>2 DEF CountTry
  <2> QED  BY <1>1, <2>1, <2>2
<1>2. ASSUME NEW r \in Request, NEW lost \in BOOLEAN, Cool(r, lost) PROVE MobileTypeOK'
  BY <1>0, <1>2, <1>b, <1>c DEF Cool, Does
<1>3. ASSUME NEW r \in Request, NEW lost \in BOOLEAN,
             GiveBack(r, lost) \/ ClearTries(r, lost)
      PROVE  MobileTypeOK'
  <2>1. CASE GiveBack(r, lost)
    BY <1>0, <1>c, <2>1 DEF GiveBack
  <2>2. CASE ClearTries(r, lost)
    <3>1. tries' \in 0 .. MaxTries + 1
      BY <2>2 DEF ClearTries
    <3> QED  BY <1>0, <1>c, <2>2, <3>1 DEF ClearTries
  <2> QED  BY <1>3, <2>1, <2>2
<1>4. ASSUME NEW r \in Request, FindNobody(r) \/ StoreCode(r) \/ EnterCode(r)
      PROVE  MobileTypeOK'
  <2>1. front[r].do # "idle"
    BY <1>4 DEF FindNobody, StoreCode, EnterCode, Does
  <2>2. Leave(r) \/ \E what \in {"give_back", "store"} : GoesTo(r, what)
    BY <1>4 DEF FindNobody, StoreCode, EnterCode
  <2>3. front' \in [Request -> Places \cup {Idle}]
    BY <1>b, <1>c, <2>1, <2>2
  <2> QED  BY <1>4, <2>3 DEF FindNobody, StoreCode, EnterCode
<1>5. ASSUME NEW r \in Request, CodeStep(r) PROVE MobileTypeOK'
  <2>1. at[r] \in Process
    BY DEF TypeOK, RequestOK
  <2> QED  BY <1>5, <1>a, <2>1 DEF CodeStep
<1>6. CASE CoolingEnds \/ TriesEnd
  <2>1. CASE CoolingEnds
    BY <1>0, <2>1 DEF CoolingEnds
  <2>2. CASE TriesEnd
    <3>1. tries' \in 0 .. MaxTries + 1
      BY <2>2 DEF TriesEnd
    <3> QED  BY <2>2, <3>1 DEF TriesEnd
  <2> QED  BY <1>6, <2>1, <2>2
<1>7. CASE Time \/ UNCHANGED mobileVars
  BY <1>7 DEF Time, mobileVars, frontVars
<1>8. ASSUME NEW p \in Process, RestartWhole(p) PROVE MobileTypeOK'
  <2>1. front' \in [Request -> Places \cup {Idle}]
    <3>1. \A r \in Request : front[r] \in Places \cup {Idle}
      OBVIOUS
    <3> HIDE DEF MobileTypeOK
    <3> QED  BY <1>8, <3>1 DEF RestartWhole
  <2> QED  BY <1>8, <2>1 DEF RestartWhole
<1>9. ASSUME NEW r \in Request, NEW p \in Process, AskElsewhere(r, p) PROVE MobileTypeOK'
  BY <1>0, <1>a, <1>9 DEF AskElsewhere
<1> QED
  BY <1>1, <1>2, <1>3, <1>4, <1>5, <1>6, <1>7, <1>8, <1>9 DEF MobileNext, MobileStep

\* What OneTimeCode promises holds of the routes: they do to the table, and to
\* the memory of the processes, only what OneTimeCode lets them do.
THEOREM MobileImplementsCodes == MobileSpec => Spec /\ [](CodeInv /\ MobileTypeOK)
<1>1. MobileInit => Init /\ CodeInv /\ MobileTypeOK
  <2> SUFFICES ASSUME MobileInit PROVE CodeInv /\ MobileTypeOK
    BY DEF MobileInit
  <2>1. tries \in 0 .. MaxTries + 1 /\ losses \in Nat
    BY MobileAssumption DEF MobileInit
  <2>2. front \in [Request -> Places \cup {Idle}]
    BY DEF MobileInit
  <2> QED  BY <2>1, <2>2, CodeInitially DEF MobileInit, MobileTypeOK
<1>2. CodeInv /\ MobileTypeOK /\ [MobileNext]_mobileVars
      => [Next]_vars /\ (CodeInv /\ MobileTypeOK)'
  BY MobileStepMaps, MobileTypeStep, TypeStep, FreshStep DEF CodeInv
<1> QED  BY <1>1, <1>2, PTL DEF MobileSpec, Spec

-----------------------------------------------------------------------------

\* Unless a cooldown was unguarded: who is sending has it, alone, and has removed
\* the old rows before the new one comes.
SendInv ==
    unguarded \/
    /\ \A r \in Request : Sending(r) => cooling
    /\ \A r, q \in Request : Sending(r) /\ Sending(q) => r = q
    /\ \A r \in Request : pc[r] = "insert" => stored = {}
    /\ \A v, w \in stored : v[1] = w[1]

\* A step that adds no row and no sender.
LEMMA SendersStand ==
    ASSUME SendInv, stored' \subseteq stored, cooling => cooling', unguarded => unguarded',
           \A q \in Request : Sending(q)' => Sending(q),
           \A q \in Request : pc'[q] = "insert" => pc[q] = "insert"
    PROVE  SendInv'
BY DEF SendInv

\* A step that nobody stores or begins to send with: it moves a request within the
\* verification, or outside both.
LEMMA OthersStand ==
    ASSUME SendInv, TypeOK, MobileTypeOK, NEW r \in Request,
           stored' \subseteq stored, cooling' = cooling, unguarded' = unguarded,
           \A q \in Request \ {r} : pc'[q] = pc[q] /\ front'[q] = front[q],
           pc'[r] \notin {"delete_old", "insert"},
           front'[r].do \notin {"find", "give_back", "store"}
    PROVE  SendInv'
BY SendersStand DEF Sending

\* Every step keeps it.
LEMMA SendStep ==
    ASSUME SendInv, CodeInv, MobileTypeOK, [MobileNext]_mobileVars
    PROVE  SendInv'
<1> USE DEF Does, Sending
<1>0. /\ TypeOK /\ pc \in [Request -> PC] /\ front \in [Request -> Places \cup {Idle}]
      /\ Idle.do = "idle"
  BY DEF CodeInv, TypeOK, RequestOK, MobileTypeOK, Idle
<1>1. ASSUME NEW r \in Request, NEW p \in Process, NEW lost \in BOOLEAN,
             AskCode(r, p, lost) \/ CountTry(r, p, lost) \/ ClearTries(r, lost)
      PROVE  SendInv'
  <2>1. stored' = stored /\ pc' = pc /\ cooling' = cooling /\ unguarded' = unguarded
    BY <1>1 DEF AskCode, CountTry, ClearTries, vars, tableVars, requestVars
  <2>2. \A q \in Request : front'[q] = front[q] \/ front'[q].do \in {"idle", "cool", "verify"}
    BY <1>0, <1>1 DEF AskCode, CountTry, ClearTries, Leave
  <2> QED  BY <2>1, <2>2, SendersStand
\* The key was not there: nobody is sending, and one begins.
<1>2. ASSUME NEW r \in Request, NEW lost \in BOOLEAN, Cool(r, lost) PROVE SendInv'
  <2>1. stored' = stored /\ pc' = pc /\ unguarded' = unguarded /\ (cooling => cooling')
    BY <1>2 DEF Cool, vars, tableVars, requestVars
  <2>2. CASE Leave(r)
    <3>1. \A q \in Request : Sending(q)' => Sending(q)
      BY <1>0, <2>1, <2>2 DEF Leave
    <3> QED  BY <2>1, <3>1, SendersStand
  <2>3. CASE ~cooling /\ ~lost /\ GoesTo(r, "find")
    <3>1. cooling' /\ \A q \in Request \ {r} : front'[q] = front[q]
      BY <1>0, <1>2, <2>3 DEF Cool, GoesTo
    <3>2. pc[r] = "idle"
      BY <1>2 DEF Cool
    <3>3. CASE unguarded
      BY <2>1, <3>3 DEF SendInv
    <3>4. CASE ~unguarded
      <4>1. \A q \in Request : ~Sending(q)
        BY <2>3, <3>4 DEF SendInv
      <4>2. \A q \in Request : Sending(q)' => q = r
        BY <2>1, <3>1, <4>1
      <4> HIDE DEF Sending
      <4> QED  BY <2>1, <3>1, <3>4, <4>2 DEF SendInv
    <3> QED  BY <3>3, <3>4
  <2> QED  BY <1>2, <2>2, <2>3 DEF Cool
\* The key is given back by the only one that is sending.
<1>3. ASSUME NEW r \in Request, NEW lost \in BOOLEAN, GiveBack(r, lost) PROVE SendInv'
  <2>1. /\ stored' = stored /\ pc' = pc /\ unguarded' = unguarded /\ Leave(r)
        /\ Sending(r) /\ pc[r] = "idle"
    BY <1>3 DEF GiveBack, vars, tableVars, requestVars
  <2>2. \A q \in Request : Sending(q)' => Sending(q) /\ q # r
    BY <1>0, <2>1 DEF Leave
  <2>3. CASE unguarded
    BY <2>1, <2>3 DEF SendInv
  <2>4. CASE ~unguarded
    <3>1. \A q \in Request : ~Sending(q)'
      BY <2>1, <2>2, <2>4 DEF SendInv
    <3> HIDE DEF Sending
    <3> QED  BY <2>1, <2>4, <3>1 DEF SendInv
  <2> QED  BY <2>3, <2>4
<1>4. ASSUME NEW r \in Request, FindNobody(r) PROVE SendInv'
  <2>1. /\ stored' = stored /\ pc' = pc /\ unguarded' = unguarded /\ cooling' = cooling
        /\ Sending(r) /\ GoesTo(r, "give_back")
    BY <1>4 DEF FindNobody, vars, tableVars, requestVars
  <2>2. \A q \in Request : Sending(q)' => Sending(q)
    BY <1>0, <2>1 DEF GoesTo
  <2> QED  BY <2>1, <2>2, SendersStand
<1>5. ASSUME NEW r \in Request, StoreCode(r) PROVE SendInv'
  <2>1. /\ unguarded' = unguarded /\ cooling' = cooling /\ stored' = stored
        /\ Sending(r) /\ \A q \in Request \ {r} : pc'[q] = pc[q] /\ front'[q] = front[q]
        /\ pc'[r] # "insert"
    BY <1>0, <1>5 DEF StoreCode, BeginStore, Start, Leave, GoesTo, vars, tableVars, requestVars
  <2>2. \A q \in Request : Sending(q)' => Sending(q)
    BY <2>1
  <2> QED  BY <2>1, <2>2, SendersStand
<1>6. ASSUME NEW r \in Request, EnterCode(r) PROVE SendInv'
  <2>1. /\ unguarded' = unguarded /\ cooling' = cooling /\ stored' = stored
        /\ \A q \in Request \ {r} : pc'[q] = pc[q] /\ front'[q] = front[q]
        /\ pc'[r] = "check" /\ front'[r] = Idle
    BY <1>0, <1>6 DEF EnterCode, BeginVerify, Start, Leave, tableVars
  <2> QED  BY <1>0, <2>1, OthersStand
<1>7. ASSUME NEW r \in Request, CodeStep(r) PROVE SendInv'
  <2>0. unguarded' = unguarded /\ cooling' = cooling
    BY <1>7 DEF CodeStep
  <2>1. CASE DeleteOld(r)
    <3>1. /\ stored' \subseteq stored /\ front' = front /\ Sending(r)
          /\ \A q \in Request \ {r} : pc'[q] = pc[q]
          /\ pc'[r] = "insert" => stored' = {}
      BY <1>0, <1>7, <2>1 DEF CodeStep, DeleteOld, GoTo, Return
    <3>2. \A q \in Request : Sending(q)' => Sending(q)
      BY <3>1
    <3> HIDE DEF Sending
    <3> QED  BY <2>0, <3>1, <3>2 DEF SendInv
\* The table is empty, and gets rows of one code.
  <2>2. CASE Insert(r)
    <3>1. /\ front' = front /\ Sending(r) /\ pc[r] = "insert" /\ pc'[r] = "idle"
          /\ \A q \in Request \ {r} : pc'[q] = pc[q]
          /\ \A w \in stored' \ stored : w[1] = code[r]
      BY <1>0, <1>7, <2>2 DEF CodeStep, Insert, Return
    <3>2. \A q \in Request : Sending(q)' => Sending(q)
      BY <3>1
    <3>3. ASSUME ~unguarded, NEW q \in Request PROVE pc'[q] # "insert"
      BY <3>1, <3>3 DEF SendInv
    <3> HIDE DEF Sending
    <3> QED  BY <2>0, <3>1, <3>2, <3>3 DEF SendInv
  <2>3. CASE CheckAttempts(r) \/ ReadNewest(r) \/ Compare(r) \/ Claim(r) \/ Consume(r)
             \/ Release(r)
    <3>1. stored' \subseteq stored
      BY <1>0, <2>3 DEF CheckAttempts, ReadNewest, Compare, Claim, Consume, Release, tableVars
    <3>2. /\ \A q \in Request \ {r} : pc'[q] = pc[q]
          /\ pc'[r] \notin {"delete_old", "insert"}
      BY <1>0, <2>3
         DEF CheckAttempts, ReadNewest, Compare, Claim, Consume, Release, GoTo, Return
    <3>3. \A q \in Request : front'[q] = front[q] \/ front'[q].do = "clear"
      BY <1>0, <1>7 DEF CodeStep
    <3>4. \A q \in Request : Sending(q)' => Sending(q)
      BY <3>2, <3>3
    <3> QED  BY <2>0, <3>1, <3>2, <3>4, SendersStand
  <2> QED  BY <1>7, <2>1, <2>2, <2>3 DEF CodeStep, RequestStep
<1>8. CASE CoolingEnds
  <2>1. stored' = stored /\ pc' = pc /\ front' = front
    BY <1>8 DEF CoolingEnds, vars, tableVars, requestVars
  <2>2. CASE \A r \in Request : ~Sending(r)
    <3>1. \A r \in Request : ~Sending(r)'
      BY <2>1, <2>2
    <3>2. unguarded' = unguarded
      BY <1>8, <2>2 DEF CoolingEnds
    <3> HIDE DEF Sending
    <3> QED  BY <2>1, <3>1, <3>2 DEF SendInv
  <2>3. CASE unguarded'
    BY <2>3 DEF SendInv
  <2> QED  BY <1>8, <2>2, <2>3 DEF CoolingEnds
<1>9. CASE TriesEnd \/ Time \/ UNCHANGED mobileVars
  <2>1. stored' = stored /\ pc' = pc /\ front' = front /\ cooling' = cooling
        /\ unguarded' = unguarded
    BY <1>9 DEF TriesEnd, Time, Expire, WindowEnds, mobileVars, frontVars, vars, tableVars,
                requestVars
  <2> QED  BY <2>1, SendersStand
<1>10. ASSUME NEW p \in Process, RestartWhole(p) PROVE SendInv'
  <2>1. /\ stored' = stored /\ cooling' = cooling /\ unguarded' = unguarded
        /\ \A q \in Request : /\ pc'[q] = pc[q] \/ pc'[q] = "idle"
                              /\ front'[q] = front[q] \/ front'[q] = Idle
    BY <1>10 DEF RestartWhole, Restart, tableVars
  <2>2. \A q \in Request : Sending(q)' => Sending(q)
    BY <1>0, <2>1
  <2> QED  BY <2>1, <2>2, SendersStand
<1>11. ASSUME NEW r \in Request, NEW p \in Process, AskElsewhere(r, p) PROVE SendInv'
  BY <1>11 DEF AskElsewhere, SendInv
<1> HIDE DEF Does, Sending
<1> QED
  <2>1. MobileStep \/ UNCHANGED mobileVars
    BY DEF MobileNext
  <2>2. ASSUME NEW r \in Request, NEW lost \in BOOLEAN,
               \/ \E p \in Process : AskCode(r, p, lost) \/ CountTry(r, p, lost)
               \/ Cool(r, lost) \/ GiveBack(r, lost) \/ ClearTries(r, lost)
        PROVE  SendInv'
    BY <1>1, <1>2, <1>3, <2>2, CodeAssumption
  <2>3. ASSUME NEW r \in Request,
               \/ \E p \in Process : AskElsewhere(r, p)
               \/ FindNobody(r) \/ StoreCode(r) \/ EnterCode(r) \/ CodeStep(r)
        PROVE  SendInv'
    BY <1>4, <1>5, <1>6, <1>7, <1>11, <2>3
  <2> QED  BY <1>8, <1>9, <1>10, <2>1, <2>2, <2>3 DEF MobileStep

\* However many requests and processes, and whatever fails: while no request for a
\* code outlives its cooldown, the phone has one code at most.
THEOREM OneLiveCodeCorrect == MobileSpec => []OneLiveCode
<1>1. MobileInit => SendInv
  <2> SUFFICES ASSUME MobileInit PROVE SendInv
    OBVIOUS
  <2>1. stored = {} /\ \A r \in Request : pc[r] = "idle" /\ front[r].do = "idle"
    BY DEF MobileInit, Init, Idle
  <2>2. \A r \in Request : ~Sending(r)
    BY <2>1 DEF Sending
  <2> QED  BY <2>1, <2>2 DEF SendInv
<1>2. SendInv /\ CodeInv /\ MobileTypeOK /\ [MobileNext]_mobileVars => SendInv'
  BY SendStep
<1>3. SendInv => OneLiveCode
  BY DEF SendInv, OneLiveCode
<1> QED  BY <1>1, <1>2, <1>3, MobileImplementsCodes, PTL DEF MobileSpec

=============================================================================
