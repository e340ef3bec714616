--------------------------- MODULE SessionsProofs ---------------------------
(***************************************************************************)
(* Proofs about Sessions.                                                  *)
(*                                                                         *)
(* SessionInv is inductive: the types, that every token was issued, and    *)
(* that every request is on a path of the code.  Most steps are handled by *)
(* two summaries: what a step does to the requests (Moved: one goes on or  *)
(* ends, the others stay) and to the keys (KeysShrink: none is added).     *)
(* On top of it come revocation and deactivation (BarInv) and the rotation *)
(* of tokens (RotationInv), and the index of a user's tokens (IndexInv).   *)
(***************************************************************************)
EXTENDS Sessions, SequenceTheorems, FiniteSetTheorems, TLAPS

\* The tokens that sign-ins and refreshes have issued so far.
Issued == 1..issued

\* The tokens in a list.
In(l) == {l[i] : i \in 1..Len(l)}

\* Every token anywhere was issued, and has the sign-in it came from.
TokensAreIssued ==
    /\ redis.live \subseteq Issued /\ In(redis.index) \subseteq Issued
    /\ \A p \in Process : memory[p].live \subseteq Issued
                          /\ In(memory[p].index) \subseteq Issued
    /\ \A r \in Request : /\ request[r].token \in Issued \cup {None}
                          /\ request[r].new \in Issued \cup {None}
                          /\ In(request[r].list) \subseteq Issued
    /\ \A t \in Token : family[t] \in (IF t \in Issued THEN Issued ELSE {None})

\* What the place a request has reached says of its kind and its data.
StaysOnPath(q) ==
    /\ (q.kind = "none") <=> (q.at = "idle")
    /\ (q.token # None) <=> (q.kind \in UsesToken)
    /\ q.at \in {"read_grace", "read_token", "drop_token", "store_grace", "remove_old"}
          => q.kind = "refresh"
    /\ q.at \in {"remove_token", "remove_grace"} => q.kind = "logout"
    /\ q.at \in {"read_index", "write_index", "store_grace", "remove_old"}
          => q.new # None
    /\ q.at \in {"purge_token", "purge_grace"} => q.list # <<>>
    /\ q.at = "drop_index" => q.list = <<>>
    /\ q.at \in {"read_account", "store_token", "read_index", "write_index"}
          => q.kind \in {"login", "mobile_login", "refresh", "check"}
    /\ q.at = "read_flag" => q.kind \in {"refresh", "check"}
    /\ q.at \in {"store_token", "read_index", "write_index"} => q.kind # "check"
    /\ q.at \in {"clear_revocation", "guard_role"} => q.kind = "login"
    /\ q.at \in {"read_profile", "store_profile", "granted"} => q.kind = "check"

\* Every request is on a path of the code.
OnPath == \A r \in Request : StaysOnPath(request[r])

\* What is in the sequences that the steps make.
LEMMA InFacts ==
    ASSUME NEW S, NEW l \in Seq(S)
    PROVE  /\ In(<<>>) = {}
           /\ \A x \in S : In(Append(l, x)) = In(l) \cup {x}
           /\ l # <<>> => /\ Head(l) \in In(l)
                          /\ In(l) = {Head(l)} \cup In(Tail(l))
<1>1. In(<<>>) = {}
  BY DEF In
<1>2. ASSUME NEW x \in S PROVE In(Append(l, x)) = In(l) \cup {x}
  <2>1. /\ Len(Append(l, x)) = Len(l) + 1 /\ Append(l, x)[Len(l) + 1] = x
        /\ \A i \in 1..Len(l) : Append(l, x)[i] = l[i]
    OBVIOUS
  <2>2. 1..(Len(l) + 1) = 1..Len(l) \cup {Len(l) + 1}
    OBVIOUS
  <2> QED  BY <2>1, <2>2 DEF In
<1>3. ASSUME l # <<>>
      PROVE  Head(l) \in In(l) /\ In(l) = {Head(l)} \cup In(Tail(l))
  <2>1. /\ Len(l) >= 1 /\ Head(l) = l[1] /\ Len(Tail(l)) = Len(l) - 1
        /\ \A i \in 1..(Len(l) - 1) : Tail(l)[i] = l[i + 1]
    BY <1>3
  <2>2. \A i \in 2..Len(l) : i - 1 \in 1..(Len(l) - 1) /\ l[i] = Tail(l)[i - 1]
    BY <2>1
  <2>3. \A i \in 1..Len(l) : i = 1 \/ i \in 2..Len(l)
    OBVIOUS
  <2>4. In(l) \subseteq {Head(l)} \cup In(Tail(l))
    BY <2>1, <2>2, <2>3 DEF In
  <2>5. \A i \in 1..Len(Tail(l)) : i + 1 \in 1..Len(l) /\ Tail(l)[i] = l[i + 1]
    BY <2>1
  <2>6. In(Tail(l)) \subseteq In(l) /\ Head(l) \in In(l)
    BY <2>1, <2>5 DEF In
  <2> QED  BY <2>4, <2>6
<1> QED  BY <1>1, <1>2, <1>3

\* Newest keeps elements of the list, and all of them if there is room.
LEMMA NewestFacts ==
    ASSUME NEW S, NEW l \in Seq(S)
    PROVE  /\ Newest(l) \in Seq(S) /\ In(Newest(l)) \subseteq In(l)
           /\ Len(l) <= IndexLimit => Newest(l) = l
<1>1. CASE Len(l) > IndexLimit
  <2> DEFINE m == Len(l) - IndexLimit + 1
  <2>1. m \in 1..Len(l) /\ \A i \in m..Len(l) : l[i] \in S
    BY <1>1, SessionAssumption
  <2>2. /\ SubSeq(l, m, Len(l)) \in Seq(S)
        /\ Len(SubSeq(l, m, Len(l))) = Len(l) - m + 1
        /\ \A i \in 1..(Len(l) - m + 1) : SubSeq(l, m, Len(l))[i] = l[m + i - 1]
    BY <2>1, SubSeqProperties
  <2>3. \A i \in 1..(Len(l) - m + 1) : m + i - 1 \in 1..Len(l)
    BY <2>1
  <2> HIDE DEF m
  <2>4. In(SubSeq(l, m, Len(l))) \subseteq In(l)
    BY <2>2, <2>3 DEF In
  <2> QED  BY <1>1, <2>2, <2>4, SessionAssumption DEF Newest, m
<1>2. CASE ~(Len(l) > IndexLimit)
  BY <1>2 DEF Newest
<1> QED  BY <1>1, <1>2, SessionAssumption

\* Moving a request to another label keeps its type.
LEMMA AtKeepsType ==
    ASSUME NEW f \in [Request -> Work], NEW r \in Request, NEW label \in At
    PROVE  [f EXCEPT ![r].at = label] \in [Request -> Work]
BY DEF Work

\* So does GoTo.
LEMMA GoToKeepsType ==
    ASSUME RequestOK, NEW r \in Request, NEW label \in At, GoTo(r, label)
    PROVE  RequestOK'
BY DEF RequestOK, Work, GoTo

\* A request that does nothing is a proper record.
LEMMA IdleType ==
    Idle \in Work
BY SessionAssumption DEF Work, Idle, Kind, At, None, Token

\* A request that moves and changes its reasons keeps its type.
LEMMA BarKeepsType ==
    ASSUME RequestOK, NEW r \in Request, NEW label \in At,
           NEW b \in SUBSET {"revoked", "inactive"},
           request' = [request EXCEPT ![r].at = label, ![r].barred = b]
    PROVE  RequestOK'
BY DEF RequestOK, Work

\* A request that moves and takes a list of tokens keeps its type.
LEMMA ListKeepsType ==
    ASSUME RequestOK, NEW r \in Request, NEW label \in At, NEW l \in Seq(Token),
           request' = [request EXCEPT ![r].at = label, ![r].list = l]
    PROVE  RequestOK'
BY DEF RequestOK, Work

\* A request that moves and takes a new token keeps its type.
LEMMA NewKeepsType ==
    ASSUME RequestOK, NEW r \in Request, NEW label \in At, NEW t \in Token,
           request' = [request EXCEPT ![r].at = label, ![r].new = t]
    PROVE  RequestOK'
BY DEF RequestOK, Work

\* Lifting the revocation from every request keeps their type.
LEMMA LiftKeepsType ==
    ASSUME RequestOK, NEW r \in Request, NEW label \in At,
           request' = [[q \in Request |-> Lift(request[q])] EXCEPT ![r].at = label]
    PROVE  RequestOK'
<1>1. \A q \in Request : Lift(request[q]) \in
        Work
  BY DEF RequestOK, Work, Lift
<1> QED  BY <1>1 DEF RequestOK, Work

\* The count of failed calls stays a number.
LEMMA FaultsKeepType ==
    ASSUME faults \in Nat, NEW lost \in BOOLEAN, MayFail(lost)
    PROVE  faults' \in Nat
BY DEF MayFail

\* A store whose live tokens change is a store,
LEMMA LiveKeepsType ==
    ASSUME NEW s \in Store, NEW L \in SUBSET Token
    PROVE  [s EXCEPT !.live = L] \in Store
BY DEF Store

\* and one whose index changes,
LEMMA IndexKeepsType ==
    ASSUME NEW s \in Store, NEW l \in Seq(Token)
    PROVE  [s EXCEPT !.index = l] \in Store
BY DEF Store

\* and one that gains a successor for a rotated token,
LEMMA GraceKeepsType ==
    ASSUME NEW s \in Store, NEW t \in Token, NEW n \in Token \cup {None}
    PROVE  [s EXCEPT !.grace[t] = n] \in Store
BY DEF Store

\* and one whose flag or cached profile changes.
LEMMA FlagsKeepType ==
    ASSUME NEW s \in Store, NEW b \in BOOLEAN
    PROVE  /\ [s EXCEPT !.flag = b] \in Store
           /\ [s EXCEPT !.profile = b] \in Store
BY DEF Store

\* One process's store may be replaced.
LEMMA MemoryKeepsType ==
    ASSUME memory \in [Process -> Store], NEW p \in Process, NEW s \in Store
    PROVE  [memory EXCEPT ![p] = s] \in [Process -> Store]
OBVIOUS

\* A request that ends keeps its type.
LEMMA FinishKeepsType ==
    ASSUME RequestOK, NEW r \in Request, Finish(r)
    PROVE  RequestOK'
BY IdleType DEF RequestOK, Work, Finish

\* safe_delete of a token keeps the types of the stores it reaches.
LEMMA DeleteKeepsType ==
    ASSUME SessionTypeOK, NEW r \in Request, NEW t \in Token, family[t] \in Token,
           DeleteToken(r, t)
    PROVE  redis' \in Store /\ memory' \in [Process -> Store]
             /\ disturbed' \in SUBSET Token /\ faults' \in Nat
<1>1. PICK lost \in BOOLEAN :
        /\ MayFail(lost)
        /\ redis' = [redis EXCEPT !.live = IF lost THEN @ ELSE @ \ {t}]
        /\ memory' = [memory EXCEPT ![Proc(r)].live = @ \ {t}]
        /\ disturbed' = IF lost THEN disturbed \cup {family[t]} ELSE disturbed
  BY DEF DeleteToken
<1>2. Proc(r) \in Process
  BY DEF SessionTypeOK, RequestOK, Work, Proc
<1>3. redis' \in Store
  BY <1>1 DEF SessionTypeOK, Store
<1>4. memory' \in [Process -> Store]
  BY <1>1, <1>2 DEF SessionTypeOK, Store
<1>5. disturbed' \in SUBSET Token /\ faults' \in Nat
  BY <1>1, FaultsKeepType DEF SessionTypeOK
<1> QED  BY <1>3, <1>4, <1>5

\* safe_delete of a grace key does,
LEMMA DropGraceKeepsType ==
    ASSUME SessionTypeOK, NEW r \in Request, NEW t \in Token, DeleteGrace(r, t)
    PROVE  redis' \in Store /\ memory' \in [Process -> Store] /\ faults' \in Nat
<1>1. PICK lost \in BOOLEAN :
        /\ MayFail(lost)
        /\ redis' = [redis EXCEPT !.grace[t] = IF lost THEN @ ELSE None]
        /\ memory' = [memory EXCEPT ![Proc(r)].grace[t] = None]
  BY DEF DeleteGrace
<1>2. Proc(r) \in Process
  BY DEF SessionTypeOK, RequestOK, Work, Proc
<1>3. redis' \in Store
  BY <1>1 DEF SessionTypeOK, Store
<1>4. memory' \in [Process -> Store]
  BY <1>1, <1>2 DEF SessionTypeOK, Store
<1> QED  BY <1>1, <1>3, <1>4, FaultsKeepType DEF SessionTypeOK

\* and safe_delete of the flag, which lifts the bar from requests as well.
LEMMA DropFlagKeepsType ==
    ASSUME SessionTypeOK, NEW r \in Request, NEW label \in At, DeleteFlag(r, label)
    PROVE  /\ redis' \in Store /\ memory' \in [Process -> Store] /\ faults' \in Nat
           /\ RequestOK'
<1>1. PICK lost \in BOOLEAN :
        /\ MayFail(lost)
        /\ redis' = [redis EXCEPT !.flag = lost /\ @]
  BY DEF DeleteFlag
<1>2. Proc(r) \in Process
  BY DEF SessionTypeOK, RequestOK, Work, Proc
<1>3. redis' \in Store
  BY <1>1 DEF SessionTypeOK, Store
<1>4. memory' \in [Process -> Store]
  BY <1>2 DEF SessionTypeOK, Store, DeleteFlag
<1>5. RequestOK'
  BY LiftKeepsType DEF SessionTypeOK, DeleteFlag
<1> QED  BY <1>1, <1>3, <1>4, <1>5, FaultsKeepType DEF SessionTypeOK

\* The steps of sign-in, refresh, check, logout and revocation keep the types.
LEMMA TypeServe ==
    ASSUME SessionTypeOK, TokensAreIssued, OnPath, NEW r \in Request, ServeStep(r)
    PROVE  SessionTypeOK'
<1> USE SessionAssumption
<1>a. /\ StaysOnPath(request[r]) /\ Proc(r) \in Process
      /\ request[r].token \in Token \cup {None}
      /\ request[r].new \in Token \cup {None}
      /\ request[r].list \in Seq(Token)
      /\ request[r].barred \in SUBSET {"revoked", "inactive"}
      /\ Local(r) \in Store
  BY DEF OnPath, RequestOK, Work, SessionTypeOK, Proc, Local
<1>b. /\ RequestOK /\ redis \in Store /\ memory \in [Process -> Store]
      /\ faults \in Nat /\ issued \in 0..MaxTokens
  BY DEF SessionTypeOK
<1>c. \A t \in Issued : t \in Token /\ family[t] \in Token
  BY <1>b DEF TokensAreIssued, Issued, Token
<1>d. request[r].list # <<>> => Head(request[r].list) \in Issued
  BY <1>a, InFacts DEF TokensAreIssued
<1>e. request[r].token # None => request[r].token \in Issued
  BY DEF TokensAreIssued
<1>1. CASE LoginReadAccount(r)
  <2>1. RequestOK'
    BY <1>1, <1>b, GoToKeepsType, FinishKeepsType DEF LoginReadAccount, Admit, At
  <2> QED  BY <1>1, <2>1 DEF LoginReadAccount, SessionTypeOK, storeVars, boundVars, historyVars
<1>2. CASE LoginClearRevocation(r)
  <2>1. DeleteFlag(r, "guard_role") /\ "guard_role" \in At
    BY <1>2 DEF LoginClearRevocation, At
  <2> QED  BY <1>2, <2>1, DropFlagKeepsType
           DEF LoginClearRevocation, SessionTypeOK, historyVars
<1>3. CASE LoginGuardRole(r)
  <2>1. RequestOK'
    BY <1>3, <1>b, GoToKeepsType, FinishKeepsType DEF LoginGuardRole, At
  <2> QED  BY <1>3, <2>1 DEF LoginGuardRole, SessionTypeOK, storeVars, boundVars, historyVars
<1>4. CASE StoreToken(r)
  <2>1. issued + 1 \in Token /\ issued' = issued + 1 /\ issued' \in 0..MaxTokens
    BY <1>4, <1>b DEF StoreToken, Token, SessionTypeOK
  <2>2. PICK lost \in BOOLEAN :
           /\ MayFail(lost)
           /\ redis' = [redis EXCEPT !.live = IF lost THEN @ ELSE @ \cup {issued + 1}]
           /\ memory' = [memory EXCEPT ![Proc(r)].live =
                            IF lost THEN @ \cup {issued + 1} ELSE @]
    BY <1>4 DEF StoreToken
  <2>3. redis' \in Store
    BY <1>b, <2>1, <2>2 DEF Store
  <2>4. memory' \in [Process -> Store]
    BY <1>b, <2>1, <2>2, <1>a DEF Store
  <2>5. family' \in [Token -> Token \cup {None}]
    BY <1>4, <1>a, <2>1 DEF StoreToken, SessionTypeOK
  <2>6. RequestOK'
    BY <1>4, <1>b, <2>1, NewKeepsType DEF StoreToken, At
  <2> QED  BY <1>4, <1>b, <2>1, <2>2, <2>3, <2>4, <2>5, <2>6, FaultsKeepType
           DEF StoreToken, SessionTypeOK
<1>5. CASE ReadIndex(r)
  <2>1. PICK lost \in BOOLEAN :
        /\ MayFail(lost)
        /\ torn' = (torn \/ lost \/ IndexBusy(r))
        /\ request' = [request EXCEPT ![r].at = "write_index",
               ![r].list = Get(redis.index, Local(r).index, <<>>, lost)]
    BY <1>5 DEF ReadIndex
  <2>2. Get(redis.index, Local(r).index, <<>>, lost) \in Seq(Token)
    BY <1>a, <1>b DEF Get, Store
  <2>3. RequestOK'
    BY <1>b, <2>1, <2>2, ListKeepsType DEF At
  <2>4. torn' \in BOOLEAN
    BY <2>1 DEF SessionTypeOK, IndexBusy
  <2> QED  BY <1>5, <1>b, <2>1, <2>3, <2>4, FaultsKeepType
           DEF ReadIndex, SessionTypeOK, storeVars
<1>6. CASE WriteIndex(r)
  <2> DEFINE list == Newest(Append(request[r].list, request[r].new))
  <2>1. request[r].new \in Token
    BY <1>6, <1>a DEF WriteIndex, StaysOnPath, IsAt
  <2>2. list \in Seq(Token)
    <3>1. Append(request[r].list, request[r].new) \in Seq(Token)
      BY <2>1, <1>a
    <3> QED  BY <3>1, NewestFacts
  <2> HIDE DEF list
  <2>3. PICK lost \in BOOLEAN :
        /\ MayFail(lost)
        /\ redis' = [redis EXCEPT !.index = IF lost THEN @ ELSE list]
        /\ memory' = [memory EXCEPT ![Proc(r)].index = IF lost THEN list ELSE @]
        /\ torn' = (torn \/ lost)
    BY <1>6 DEF WriteIndex, list
  <2>4. redis' \in Store
    BY <2>2, <2>3, <1>b DEF Store
  <2>5. memory' \in [Process -> Store]
    BY <2>2, <2>3, <1>a, <1>b DEF Store
  <2>6. RequestOK'
    BY <1>6, <1>b, GoToKeepsType, FinishKeepsType DEF WriteIndex, At
  <2> QED  BY <1>6, <1>b, <2>3, <2>4, <2>5, <2>6, FaultsKeepType
           DEF WriteIndex, SessionTypeOK
<1>7. CASE RefreshReadGrace(r)
  <2>1. RequestOK'
    BY <1>7, <1>b, GoToKeepsType, FinishKeepsType DEF RefreshReadGrace, At
  <2> QED  BY <1>7, <1>b, <2>1, FaultsKeepType
           DEF RefreshReadGrace, SessionTypeOK, storeVars, historyVars
<1>8. CASE RefreshReadToken(r)
  <2>1. RequestOK'
    BY <1>8, <1>b, GoToKeepsType, FinishKeepsType DEF RefreshReadToken, At
  <2> QED  BY <1>8, <1>b, <2>1, FaultsKeepType
           DEF RefreshReadToken, SessionTypeOK, storeVars, historyVars
<1>9. CASE RefreshReadFlag(r)
  <2>1. PICK lost \in BOOLEAN : MayFail(lost) /\ request' = [request EXCEPT
               ![r].at = IF Get(redis.flag, Local(r).flag, FALSE, lost)
                         THEN "drop_token" ELSE "read_account",
               ![r].barred = IF lost THEN @ \ {"revoked"} ELSE @]
    BY <1>9 DEF RefreshReadFlag
  <2>2. RequestOK'
    <3> DEFINE label == IF Get(redis.flag, Local(r).flag, FALSE, lost)
                        THEN "drop_token" ELSE "read_account"
               bar   == IF lost THEN request[r].barred \ {"revoked"}
                        ELSE request[r].barred
    <3>1. label \in At /\ bar \in SUBSET {"revoked", "inactive"}
      BY <1>a DEF At
    <3>2. request' = [request EXCEPT ![r].at = label, ![r].barred = bar]
      BY <2>1, <1>b DEF RequestOK, Work
    <3> QED  BY <3>1, <3>2, <1>b, BarKeepsType
  <2> QED  BY <1>9, <1>b, <2>1, <2>2, FaultsKeepType
           DEF RefreshReadFlag, SessionTypeOK, storeVars, historyVars
<1>10. CASE RefreshReadAccount(r)
  <2>1. PICK lost \in BOOLEAN : MayFail(lost) /\ request' = [request EXCEPT
               ![r].at = IF lost \/ account = "active"
                         THEN "store_token" ELSE "drop_token",
               ![r].barred = IF lost THEN @ \ {"inactive"} ELSE @]
    BY <1>10 DEF RefreshReadAccount
  <2>2. RequestOK'
    <3> DEFINE label == IF lost \/ account = "active"
                        THEN "store_token" ELSE "drop_token"
               bar   == IF lost THEN request[r].barred \ {"inactive"}
                        ELSE request[r].barred
    <3>1. label \in At /\ bar \in SUBSET {"revoked", "inactive"}
      BY <1>a DEF At
    <3>2. request' = [request EXCEPT ![r].at = label, ![r].barred = bar]
      BY <2>1, <1>b DEF RequestOK, Work
    <3> QED  BY <3>1, <3>2, <1>b, BarKeepsType
  <2> QED  BY <1>10, <1>b, <2>1, <2>2, FaultsKeepType
           DEF RefreshReadAccount, SessionTypeOK, storeVars, historyVars
<1>11. CASE RefreshDropToken(r)
  <2>1. request[r].token \in Issued
    BY <1>11, <1>a, <1>e DEF RefreshDropToken, StaysOnPath, IsAt, UsesToken
  <2>2. RequestOK'
    BY <1>11, <1>b, FinishKeepsType DEF RefreshDropToken
  <2> QED  BY <1>11, <1>c, <2>1, <2>2, DeleteKeepsType DEF RefreshDropToken, SessionTypeOK
<1>12. CASE RefreshStoreGrace(r)
  <2>1. RequestOK'
    BY <1>12, <1>b, GoToKeepsType DEF RefreshStoreGrace, At
  <2>2. PICK lost \in BOOLEAN :
        /\ MayFail(lost)
        /\ LET t == request[r].token IN
           /\ redis' = [redis EXCEPT !.grace[t] = IF lost THEN @ ELSE request[r].new]
           /\ memory' = [memory EXCEPT ![Proc(r)].grace[t] =
                            IF lost THEN request[r].new ELSE @]
    BY <1>12 DEF RefreshStoreGrace
  <2>3. request[r].token \in Token
    BY <1>12, <1>a DEF RefreshStoreGrace, StaysOnPath, IsAt, UsesToken
  <2>4. redis' \in Store
    BY <2>2, <2>3, <1>a, <1>b DEF Store
  <2>5. memory' \in [Process -> Store]
    <3> DEFINE kept == IF lost THEN request[r].new ELSE memory[Proc(r)].grace[request[r].token]
    <3>1. kept \in Token \cup {None}
      BY <2>3, <1>a, <1>b DEF Store
    <3>2. memory' = [memory EXCEPT ![Proc(r)] =
                       [memory[Proc(r)] EXCEPT !.grace[request[r].token] = kept]]
      BY <2>2, <2>3, <1>a, <1>b DEF Store
    <3>3. [memory[Proc(r)] EXCEPT !.grace[request[r].token] = kept] \in Store
      BY <3>1, <2>3, <1>a, <1>b, GraceKeepsType
    <3> QED  BY <3>2, <3>3, <1>a, <1>b, MemoryKeepsType
  <2> QED  BY <1>12, <1>b, <2>1, <2>2, <2>4, <2>5, FaultsKeepType
           DEF RefreshStoreGrace, SessionTypeOK, historyVars
<1>13. CASE RefreshRemoveOld(r)
  <2>1. request[r].token \in Issued
    BY <1>13, <1>a, <1>e DEF RefreshRemoveOld, StaysOnPath, IsAt, UsesToken
  <2>2. RequestOK'
    BY <1>13, <1>b, FinishKeepsType DEF RefreshRemoveOld
  <2> QED  BY <1>13, <1>c, <2>1, <2>2, DeleteKeepsType DEF RefreshRemoveOld, SessionTypeOK
<1>14. CASE CheckReadFlag(r)
  <2>1. PICK lost \in BOOLEAN : MayFail(lost) /\
           IF Get(redis.flag, Local(r).flag, FALSE, lost) THEN Finish(r)
           ELSE request' = [request EXCEPT
                    ![r].at = IF ram[Proc(r)] THEN "granted" ELSE "read_profile",
                    ![r].barred = IF lost THEN @ \ {"revoked"} ELSE @]
    BY <1>14 DEF CheckReadFlag
  <2>2. RequestOK'
    <3>1. CASE Finish(r)
      BY <3>1, <1>b, FinishKeepsType
    <3>2. CASE ~Finish(r)
      <4> DEFINE label == IF ram[Proc(r)] THEN "granted" ELSE "read_profile"
                 bar   == IF lost THEN request[r].barred \ {"revoked"}
                          ELSE request[r].barred
      <4>1. label \in At /\ bar \in SUBSET {"revoked", "inactive"}
        BY <1>a DEF At
      <4>2. request' = [request EXCEPT ![r].at = label, ![r].barred = bar]
        BY <3>2, <2>1, <1>b DEF RequestOK, Work
      <4> QED  BY <4>1, <4>2, <1>b, BarKeepsType
    <3> QED  BY <3>1, <3>2
  <2> QED  BY <1>14, <1>b, <2>1, <2>2, FaultsKeepType
           DEF CheckReadFlag, SessionTypeOK, storeVars, historyVars
<1>15. CASE CheckReadProfile(r)
  <2>1. RequestOK'
    BY <1>15, <1>b, GoToKeepsType DEF CheckReadProfile, At
  <2>2. ram' \in [Process -> BOOLEAN]
    BY <1>15 DEF CheckReadProfile, SessionTypeOK
  <2> QED  BY <1>15, <1>b, <2>1, <2>2, FaultsKeepType
           DEF CheckReadProfile, SessionTypeOK, historyVars
<1>16. CASE CheckReadAccount(r)
  <2>1. RequestOK'
    BY <1>16, <1>b, GoToKeepsType, FinishKeepsType DEF CheckReadAccount, At
  <2>2. faults' \in Nat
    BY <1>16, <1>b, FaultsKeepType DEF CheckReadAccount
  <2> QED  BY <1>16, <2>1, <2>2 DEF CheckReadAccount, SessionTypeOK, storeVars, historyVars
<1>17. CASE CheckStoreProfile(r)
  <2>1. PICK lost \in BOOLEAN :
        /\ MayFail(lost)
        /\ redis' = [redis EXCEPT !.profile = @ \/ ~lost]
        /\ memory' = [memory EXCEPT ![Proc(r)].profile = @ \/ lost]
    BY <1>17 DEF CheckStoreProfile
  <2>2. redis' \in Store
    BY <2>1, <1>b DEF Store
  <2>3. memory' \in [Process -> Store]
    BY <2>1, <1>a, <1>b DEF Store
  <2>4. RequestOK'
    BY <1>17, <1>b, GoToKeepsType DEF CheckStoreProfile, At
  <2>5. ram' \in [Process -> BOOLEAN]
    BY <1>17 DEF CheckStoreProfile, SessionTypeOK
  <2> QED  BY <1>17, <1>b, <2>1, <2>2, <2>3, <2>4, <2>5, FaultsKeepType
           DEF CheckStoreProfile, SessionTypeOK, historyVars
<1>18. CASE CheckAnswer(r)
  <2>1. RequestOK'
    BY <1>18, <1>b, FinishKeepsType DEF CheckAnswer
  <2> QED  BY <1>18, <2>1 DEF CheckAnswer, SessionTypeOK, storeVars, boundVars, historyVars
<1>19. CASE LogoutRemoveToken(r)
  <2>1. request[r].token \in Issued
    BY <1>19, <1>a, <1>e DEF LogoutRemoveToken, StaysOnPath, IsAt, UsesToken
  <2>2. RequestOK'
    BY <1>19, <1>b, GoToKeepsType DEF LogoutRemoveToken, At
  <2> QED  BY <1>19, <1>c, <2>1, <2>2, DeleteKeepsType DEF LogoutRemoveToken, SessionTypeOK
<1>20. CASE LogoutRemoveGrace(r)
  <2>1. request[r].token \in Token
    BY <1>20, <1>a DEF LogoutRemoveGrace, StaysOnPath, IsAt, UsesToken
  <2>2. RequestOK'
    BY <1>20, <1>b, FinishKeepsType DEF LogoutRemoveGrace
  <2> QED  BY <1>20, <2>1, <2>2, DropGraceKeepsType
           DEF LogoutRemoveGrace, SessionTypeOK, historyVars
<1>21. CASE RevokeListTokens(r)
  <2>1. PICK lost \in BOOLEAN :
        /\ MayFail(lost)
        /\ torn' = (torn \/ lost \/ IndexBusy(r))
        /\ LET list == Get(redis.index, Local(r).index, <<>>, lost) IN
           request' = [request EXCEPT
               ![r].at = IF list = <<>> THEN "set_flag" ELSE "purge_token",
               ![r].list = list]
    BY <1>21 DEF RevokeListTokens
  <2>2. Get(redis.index, Local(r).index, <<>>, lost) \in Seq(Token)
    BY <1>a, <1>b DEF Get, Store
  <2>3. RequestOK'
    BY <1>b, <2>1, <2>2, ListKeepsType DEF At
  <2>4. torn' \in BOOLEAN
    BY <2>1 DEF SessionTypeOK, IndexBusy
  <2> QED  BY <1>21, <1>b, <2>1, <2>3, <2>4, FaultsKeepType
           DEF RevokeListTokens, SessionTypeOK, storeVars
<1>22. CASE RevokePurgeToken(r)
  <2>1. Head(request[r].list) \in Issued
    BY <1>22, <1>a, <1>d DEF RevokePurgeToken, StaysOnPath, IsAt
  <2>2. RequestOK'
    BY <1>22, <1>b, GoToKeepsType DEF RevokePurgeToken, At
  <2>3. torn' \in BOOLEAN
    BY <1>22 DEF RevokePurgeToken, SessionTypeOK
  <2> QED  BY <1>22, <1>c, <2>1, <2>2, <2>3, DeleteKeepsType
           DEF RevokePurgeToken, SessionTypeOK
<1>23. CASE RevokePurgeGrace(r)
  <2>1. request[r].list # <<>>
    BY <1>23, <1>a DEF RevokePurgeGrace, StaysOnPath, IsAt
  <2>2. Head(request[r].list) \in Token /\ Tail(request[r].list) \in Seq(Token)
    BY <2>1, <1>a
  <2>3. RequestOK'
    <3>1. NextPurge(Tail(request[r].list)) \in At
      BY DEF NextPurge, At
    <3>2. request' = [request EXCEPT ![r].at = NextPurge(Tail(request[r].list)),
                                     ![r].list = Tail(request[r].list)]
      BY <1>23, <1>b DEF RevokePurgeGrace, RequestOK, Work
    <3> QED  BY <3>1, <3>2, <1>b, <2>2, ListKeepsType
  <2> QED  BY <1>23, <2>2, <2>3, DropGraceKeepsType
           DEF RevokePurgeGrace, SessionTypeOK, historyVars
<1>24. CASE RevokeDropIndex(r)
  <2>1. PICK lost \in BOOLEAN :
        /\ MayFail(lost)
        /\ redis' = [redis EXCEPT !.index = IF lost THEN @ ELSE <<>>]
        /\ torn' = (torn \/ lost)
    BY <1>24 DEF RevokeDropIndex
  <2>a. <<>> \in Seq(Token)
    OBVIOUS
  <2>2. redis' \in Store
    <3>1. CASE lost
      BY <3>1, <2>1, <1>b DEF Store
    <3>2. CASE ~lost
      <4>1. redis' = [redis EXCEPT !.index = <<>>]
        BY <3>2, <2>1
      <4> QED  BY <4>1, <2>a, <1>b, IndexKeepsType
    <3> QED  BY <3>1, <3>2
  <2>3. memory' \in [Process -> Store]
    <3>1. [memory[Proc(r)] EXCEPT !.index = <<>>] \in Store
      BY <2>a, <1>a, <1>b, IndexKeepsType
    <3>2. memory' = [memory EXCEPT ![Proc(r)] = [memory[Proc(r)] EXCEPT !.index = <<>>]]
      BY <1>24 DEF RevokeDropIndex
    <3> QED  BY <3>1, <3>2, <1>a, <1>b, MemoryKeepsType
  <2>4. RequestOK'
    BY <1>24, <1>b, GoToKeepsType DEF RevokeDropIndex, At
  <2> QED  BY <1>24, <1>b, <2>1, <2>2, <2>3, <2>4, FaultsKeepType
           DEF RevokeDropIndex, SessionTypeOK
<1>25. CASE SetFlag(r)
  <2>1. PICK lost \in BOOLEAN :
        /\ MayFail(lost)
        /\ redis' = [redis EXCEPT !.flag = @ \/ ~lost]
        /\ memory' = [memory EXCEPT ![Proc(r)].flag = @ \/ lost]
    BY <1>25 DEF SetFlag
  <2>2. redis' \in Store
    BY <2>1, <1>b DEF Store
  <2>3. memory' \in [Process -> Store]
    BY <2>1, <1>a, <1>b DEF Store
  <2>4. RequestOK'
    BY <1>25, <1>b, GoToKeepsType, FinishKeepsType DEF SetFlag, At
  <2> QED  BY <1>25, <1>b, <2>1, <2>2, <2>3, <2>4, FaultsKeepType
           DEF SetFlag, SessionTypeOK, historyVars
<1>26. CASE ClearFlag(r)
  <2>1. DeleteFlag(r, "refresh_list") /\ "refresh_list" \in At
    BY <1>26 DEF ClearFlag, At
  <2> QED  BY <1>26, <2>1, DropFlagKeepsType DEF ClearFlag, SessionTypeOK, historyVars
<1>27. CASE RefreshList(r)
  <2>1. RequestOK'
    BY <1>27, <1>b, FinishKeepsType DEF RefreshList
  <2> QED  BY <1>27, <2>1 DEF RefreshList, SessionTypeOK, storeVars, boundVars, historyVars
<1> QED
  BY <1>1, <1>2, <1>3, <1>4, <1>5, <1>6, <1>7, <1>8, <1>9, <1>10, <1>11, <1>12,
     <1>13, <1>14, <1>15, <1>16, <1>17, <1>18, <1>19, <1>20, <1>21, <1>22, <1>23,
     <1>24, <1>25, <1>26, <1>27
  DEF ServeStep

\* A request that arrives does.
LEMMA TypeBegin ==
    ASSUME SessionTypeOK, TokensAreIssued, NEW r \in Request, Begin(r)
    PROVE  SessionTypeOK'
<1> USE SessionAssumption
<1>1. PICK kind \in mix.kinds, p \in mix.processes, t \in 0..issued :
        /\ (t # None) <=> (kind \in UsesToken)
        /\ request' = [request EXCEPT ![r] =
                          [Idle EXCEPT !.kind = kind, !.at = Entry(kind),
                                       !.p = p, !.token = t,
                                       !.barred = Reasons(p)]]
        /\ disturbed' = IF \E q \in Others(r) : /\ t # None
                                                /\ request[q].token # None
                                                /\ family[request[q].token] = family[t]
                        THEN disturbed \cup {family[t]} ELSE disturbed
  BY DEF Begin
<1>2. /\ kind \in Kind \ {"none"} /\ p \in Process
      /\ t \in Token \cup {None} /\ (t # None => t \in Issued)
  <2>1. kind \in Kind \ {"none"} /\ p \in Process
    BY <1>1 DEF SessionTypeOK
  <2>2. t \in Token \cup {None} /\ (t # None => t \in Issued)
    BY <1>1 DEF SessionTypeOK, Issued, Token, None
  <2> QED  BY <2>1, <2>2
<1>3. Entry(kind) \in At /\ Reasons(p) \in SUBSET {"revoked", "inactive"}
  BY <1>2 DEF Entry, Reasons, Kind, Administration, At
<1>4. RequestOK'
  BY <1>1, <1>2, <1>3, IdleType DEF SessionTypeOK, RequestOK, Work
<1>5. disturbed' \in SUBSET Token
  BY <1>1, <1>2 DEF SessionTypeOK, TokensAreIssued, Issued, Token
<1> QED  BY <1>4, <1>5 DEF Begin, SessionTypeOK, storeVars, boundVars

\* The steps of an edit of the account do.
LEMMA TypeEdit ==
    ASSUME SessionTypeOK, NEW r \in Request, EditStep(r)
    PROVE  SessionTypeOK'
<1>a. RequestOK /\ faults \in Nat /\ request[r].kind \in Kind
  BY DEF SessionTypeOK, RequestOK, Work
<1>1. CASE EditAccount(r)
  <2>1. account' \in {"active", "inactive"}
    BY <1>1 DEF EditAccount, Changed, SessionTypeOK
  <2>2. RequestOK'
    <3> DEFINE seen == [q \in Request |->
            IF account' = "active"
            THEN [request[q] EXCEPT !.barred = @ \ {"inactive"}]
            ELSE request[q]]
    <3>1. \A q \in Request : seen[q] \in
            Work
      BY <1>a DEF RequestOK, Work
    <3> HIDE DEF seen
    <3>2. request' = [seen EXCEPT ![r].at = "edited"]
      BY <1>1 DEF EditAccount, seen
    <3>3. DOMAIN seen = Request /\ seen = [q \in Request |-> seen[q]]
      BY DEF seen
    <3>4. seen \in [Request ->
            Work]
      BY <3>1, <3>3
    <3> QED  BY <3>2, <3>4, AtKeepsType DEF RequestOK, At
  <2> QED  BY <1>1, <1>a, <2>1, <2>2, FaultsKeepType DEF EditAccount, SessionTypeOK, historyVars
<1>2. CASE EditFails(r)
  BY <1>2, <1>a, FaultsKeepType
  DEF EditFails, SessionTypeOK, RequestOK, Work, storeVars, historyVars
<1>3. CASE FinishEdit(r)
  <2>1. RequestOK'
    BY <1>3, <1>a, GoToKeepsType, FinishKeepsType DEF FinishEdit, At
  <2> QED  BY <1>3, <2>1 DEF FinishEdit, SessionTypeOK, storeVars, boundVars, historyVars
<1> QED  BY <1>1, <1>2, <1>3 DEF EditStep

\* Expiry of a key, and of what a process remembers, does.
LEMMA TypeExpire ==
    ASSUME SessionTypeOK, ExpireStep
    PROVE  SessionTypeOK'
<1> USE DEF boundVars, historyVars
<1>a. /\ RequestOK /\ redis \in Store /\ memory \in [Process -> Store]
      /\ Empty \in Store /\ <<>> \in Seq(Token)
  BY DEF SessionTypeOK, Empty, Store
<1>1. CASE ExpireToken
  <2>1. redis' \in Store
    BY <1>1, <1>a DEF ExpireToken, Store
  <2> QED  BY <1>1, <2>1 DEF ExpireToken, SessionTypeOK, RequestOK, Work
<1>2. CASE ExpireGrace
  <2>1. redis' \in Store
    <3>1. PICK t \in Token : redis' = [redis EXCEPT !.grace[t] = None]
      BY <1>2 DEF ExpireGrace
    <3> QED  BY <3>1, <1>a, GraceKeepsType
  <2> QED  BY <1>2, <2>1 DEF ExpireGrace, SessionTypeOK, RequestOK, Work
<1>3. CASE ExpireIndex
  <2>1. redis' \in Store
    BY <1>3, <1>a, IndexKeepsType DEF ExpireIndex
  <2> QED  BY <1>3, <2>1 DEF ExpireIndex, SessionTypeOK, RequestOK, Work
<1>4. CASE ExpireFlag
  <2>1. redis' \in Store
    BY <1>4, <1>a, FlagsKeepType DEF ExpireFlag
  <2>2. RequestOK'
    BY <1>4, <1>a DEF ExpireFlag, RequestOK, Work, Lift
  <2> QED  BY <1>4, <2>1, <2>2 DEF ExpireFlag, SessionTypeOK
<1>5. CASE ExpireProfile
  <2>1. redis' \in Store
    BY <1>5, <1>a, FlagsKeepType DEF ExpireProfile
  <2> QED  BY <1>5, <2>1 DEF ExpireProfile, SessionTypeOK, RequestOK, Work
<1>6. ASSUME NEW p \in Process, ExpireRam(p) PROVE SessionTypeOK'
  BY <1>6 DEF ExpireRam, SessionTypeOK, RequestOK, Work
<1>7. ASSUME NEW p \in Process, ForgetMemory(p) PROVE SessionTypeOK'
  <2>1. memory' \in [Process -> Store]
    BY <1>7, <1>a, MemoryKeepsType DEF ForgetMemory
  <2>2. RequestOK'
    BY <1>7, <1>a DEF ForgetMemory, RequestOK, Work, Lift
  <2> QED  BY <1>7, <2>1, <2>2 DEF ForgetMemory, SessionTypeOK
<1> QED  BY <1>1, <1>2, <1>3, <1>4, <1>5, <1>6, <1>7 DEF ExpireStep

-----------------------------------------------------------------------------
(***************************************************************************)
(* What a step of a request does to requests: it leaves the others, except *)
(* that something may stop barring them, and moves on to what follows.     *)
(***************************************************************************)
Follows(kind, a, b) ==
    \/ a = "read_account" /\ kind = "login" /\ b = "clear_revocation"
    \/ a = "read_account" /\ kind = "mobile_login" /\ b = "store_token"
    \/ a = "read_account" /\ kind = "refresh" /\ b \in {"store_token", "drop_token"}
    \/ a = "read_account" /\ kind = "check" /\ b = "store_profile"
    \/ a = "clear_revocation" /\ b = "guard_role"
    \/ a = "guard_role" /\ b = "store_token"
    \/ a = "store_token" /\ b = "read_index"
    \/ a = "read_index" /\ b = "write_index"
    \/ a = "write_index" /\ kind = "refresh" /\ b = "store_grace"
    \/ a = "store_grace" /\ b = "remove_old"
    \/ a = "read_grace" /\ b = "read_token"
    \/ a = "read_token" /\ b = "read_flag"
    \/ a = "read_flag" /\ kind = "refresh" /\ b \in {"drop_token", "read_account"}
    \/ a = "read_flag" /\ kind = "check" /\ b \in {"granted", "read_profile"}
    \/ a = "read_profile" /\ b \in {"granted", "read_account"}
    \/ a = "store_profile" /\ b = "granted"
    \/ a = "remove_token" /\ b = "remove_grace"
    \/ a = "list_tokens" /\ b \in {"set_flag", "purge_token"}
    \/ a = "purge_token" /\ b = "purge_grace"
    \/ a = "purge_grace" /\ b \in {"drop_index", "purge_token"}
    \/ a = "drop_index" /\ b = "set_flag"
    \/ a = "set_flag" /\ b = "refresh_list"
    \/ a = "clear_flag" /\ b = "refresh_list"
    \/ a = "edit" /\ b = "edited"
    \/ a = "edited" /\ b \in {"edited", "clear_flag", "set_flag", "refresh_list"}

\* A request that is the same but for reasons it may have lost.
Same(q, s) ==
    /\ s.kind = q.kind /\ s.p = q.p /\ s.token = q.token
    /\ s.barred \subseteq q.barred

\* A request that another's step leaves where it is.
Leaves(q, s) == Same(q, s) /\ s.at = q.at /\ s.new = q.new /\ s.list = q.list

\* A request that goes on along its path.
Moves(q, s) ==
    /\ Same(q, s)
    /\ Follows(q.kind, q.at, s.at)
    /\ q.at # "store_token" => s.new = q.new
    /\ q.at \notin {"read_index", "list_tokens", "purge_grace"} => s.list = q.list
    /\ s.at = "purge_token" => s.list # <<>>
    /\ s.at = "drop_index" => s.list = <<>>

\* A step of request r, which ends or goes on; the others stay.
Moved(r) ==
    /\ \A q \in Request \ {r} : Leaves(request[q], request'[q])
    /\ request'[r] = Idle \/ Moves(request[r], request'[r])

\* A request that ends is a request that moved.
LEMMA FinishMoves ==
    ASSUME RequestOK, NEW r \in Request, Finish(r) PROVE Moved(r)
BY DEF RequestOK, Finish, Moved, Leaves, Same

\* A request that takes a path of the code moved.
LEMMA GoToMoves ==
    ASSUME RequestOK, NEW r \in Request, NEW label, GoTo(r, label),
           Follows(request[r].kind, request[r].at, label),
           label = "purge_token" => request[r].list # <<>>,
           label # "drop_index"
    PROVE  Moved(r)
BY DEF RequestOK, Work, GoTo, Moved, Moves, Leaves, Same

\* A request that deletes the flag moved; the others at most lost a reason.
LEMMA DropFlagMoves ==
    ASSUME RequestOK, NEW r \in Request, NEW label, DeleteFlag(r, label),
           Follows(request[r].kind, request[r].at, label),
           label \notin {"purge_token", "drop_index"}, request[r].at # "store_token",
           request[r].at \notin {"read_index", "list_tokens", "purge_grace"}
    PROVE  Moved(r)
<1>1. \A q \in Request : Leaves(request[q], Lift(request[q]))
  BY DEF RequestOK, Work, Leaves, Same, Lift
<1>2. request'[r] = [Lift(request[r]) EXCEPT !.at = label]
  BY DEF DeleteFlag
<1>3. \A q \in Request \ {r} : request'[q] = Lift(request[q])
  BY DEF DeleteFlag
<1>4. Lift(request[r]) \in Work
  BY DEF RequestOK, Work, Lift
<1>5. Moves(request[r], request'[r])
  BY <1>1, <1>2, <1>4 DEF Moves, Leaves, Same, Work
<1> QED  BY <1>1, <1>3, <1>5 DEF Moved

\* Every step of the request handlers moves one request along its path.
LEMMA ServeMoves ==
    ASSUME SessionTypeOK, NEW r \in Request, ServeStep(r)
    PROVE  Moved(r)
<1> USE FinishMoves, GoToMoves DEF Follows, IsAt
<1>a. RequestOK
  BY DEF SessionTypeOK
<1>1. CASE LoginReadAccount(r)
  BY <1>1, <1>a DEF LoginReadAccount, Admit
<1>2. CASE LoginClearRevocation(r)
  BY <1>2, <1>a, DropFlagMoves DEF LoginClearRevocation
<1>3. CASE LoginGuardRole(r)
  BY <1>3, <1>a DEF LoginGuardRole
<1>4. CASE StoreToken(r)
  BY <1>4, <1>a DEF StoreToken, RequestOK, Work, Moved, Moves, Leaves, Same
<1>5. CASE ReadIndex(r)
  BY <1>5, <1>a DEF ReadIndex, RequestOK, Work, Moved, Moves, Leaves, Same
<1>6. CASE WriteIndex(r)
  BY <1>6, <1>a DEF WriteIndex
<1>7. CASE RefreshReadGrace(r)
  BY <1>7, <1>a DEF RefreshReadGrace
<1>8. CASE RefreshReadToken(r)
  BY <1>8, <1>a DEF RefreshReadToken
<1>9. CASE RefreshReadFlag(r)
  BY <1>9, <1>a DEF RefreshReadFlag, RequestOK, Work, Moved, Moves, Leaves, Same
<1>10. CASE RefreshReadAccount(r)
  BY <1>10, <1>a DEF RefreshReadAccount, RequestOK, Work, Moved, Moves, Leaves, Same
<1>11. CASE RefreshDropToken(r)
  BY <1>11, <1>a DEF RefreshDropToken
<1>12. CASE RefreshStoreGrace(r)
  BY <1>12, <1>a DEF RefreshStoreGrace
<1>13. CASE RefreshRemoveOld(r)
  BY <1>13, <1>a DEF RefreshRemoveOld
<1>14. CASE CheckReadFlag(r)
  <2>1. CASE Finish(r)
    BY <2>1, <1>a
  <2>2. CASE ~Finish(r)
    <3>1. PICK label \in {"granted", "read_profile"}, lost \in BOOLEAN :
             request' = [request EXCEPT ![r].at = label,
                           ![r].barred = IF lost THEN @ \ {"revoked"} ELSE @]
      BY <2>2, <1>14, <1>a DEF CheckReadFlag
    <3>2. request[r].at = "read_flag" /\ request[r].kind = "check"
      BY <1>14 DEF CheckReadFlag
    <3> QED  BY <3>1, <3>2, <1>a DEF RequestOK, Work, Moved, Moves, Leaves, Same
  <2> QED  BY <2>1, <2>2
<1>15. CASE CheckReadProfile(r)
  BY <1>15, <1>a DEF CheckReadProfile
<1>16. CASE CheckReadAccount(r)
  BY <1>16, <1>a DEF CheckReadAccount
<1>17. CASE CheckStoreProfile(r)
  BY <1>17, <1>a DEF CheckStoreProfile
<1>18. CASE CheckAnswer(r)
  BY <1>18, <1>a DEF CheckAnswer
<1>19. CASE LogoutRemoveToken(r)
  BY <1>19, <1>a DEF LogoutRemoveToken
<1>20. CASE LogoutRemoveGrace(r)
  BY <1>20, <1>a DEF LogoutRemoveGrace
<1>21. CASE RevokeListTokens(r)
  BY <1>21, <1>a DEF RevokeListTokens, RequestOK, Work, Moved, Moves, Leaves, Same
<1>22. CASE RevokePurgeToken(r)
  BY <1>22, <1>a DEF RevokePurgeToken
<1>23. CASE RevokePurgeGrace(r)
  <2> DEFINE rest == Tail(request[r].list)
  <2>1. request' = [request EXCEPT ![r].at = NextPurge(rest), ![r].list = rest]
    BY <1>23, <1>a DEF RevokePurgeGrace, RequestOK
  <2>2. NextPurge(rest) \in {"drop_index", "purge_token"}
          /\ (NextPurge(rest) = "purge_token" => rest # <<>>)
          /\ (NextPurge(rest) = "drop_index" => rest = <<>>)
    BY DEF NextPurge
  <2> HIDE DEF rest
  <2>3. request'[r] = [request[r] EXCEPT !.at = NextPurge(rest), !.list = rest]
    BY <2>1, <1>a DEF RequestOK
  <2>4. Moves(request[r], request'[r])
    BY <2>2, <2>3, <1>23, <1>a DEF RevokePurgeGrace, RequestOK, Work, Moves, Same
  <2>5. \A q \in Request \ {r} : Leaves(request[q], request'[q])
    BY <2>1, <1>a DEF RequestOK, Leaves, Same
  <2> QED  BY <2>4, <2>5 DEF Moved
<1>24. CASE RevokeDropIndex(r)
  BY <1>24, <1>a DEF RevokeDropIndex
<1>25. CASE SetFlag(r)
  BY <1>25, <1>a DEF SetFlag
<1>26. CASE ClearFlag(r)
  BY <1>26, <1>a, DropFlagMoves DEF ClearFlag
<1>27. CASE RefreshList(r)
  BY <1>27, <1>a DEF RefreshList
<1> QED
  BY <1>1, <1>2, <1>3, <1>4, <1>5, <1>6, <1>7, <1>8, <1>9, <1>10, <1>11, <1>12,
     <1>13, <1>14, <1>15, <1>16, <1>17, <1>18, <1>19, <1>20, <1>21, <1>22, <1>23,
     <1>24, <1>25, <1>26, <1>27
  DEF ServeStep

\* So does every step of an edit.
LEMMA EditMoves ==
    ASSUME SessionTypeOK, NEW r \in Request, EditStep(r)
    PROVE  Moved(r)
<1> USE FinishMoves, GoToMoves DEF Follows, IsAt
<1>a. RequestOK
  BY DEF SessionTypeOK
<1>1. CASE EditAccount(r)
  <2> DEFINE seen == [q \in Request |->
          IF account' = "active"
          THEN [request[q] EXCEPT !.barred = @ \ {"inactive"}]
          ELSE request[q]]
  <2>1. \A q \in Request : seen[q] \in Work /\ Leaves(request[q], seen[q])
    BY <1>a DEF RequestOK, Work, Leaves, Same
  <2>2. \A q \in Request \ {r} : request'[q] = seen[q]
    BY <1>1 DEF EditAccount
  <2>3. request'[r] = [seen[r] EXCEPT !.at = "edited"]
    BY <1>1 DEF EditAccount
  <2> HIDE DEF seen
  <2>4. Moves(request[r], request'[r])
    BY <2>1, <2>3, <1>1 DEF EditAccount, Moves, Leaves, Same, Work
  <2> QED  BY <2>1, <2>2, <2>4 DEF Moved
<1>2. CASE EditFails(r)
  BY <1>2, <1>a DEF EditFails, RequestOK, Moved, Moves, Leaves, Same
<1>3. CASE FinishEdit(r)
  BY <1>3, <1>a DEF FinishEdit
<1> QED  BY <1>1, <1>2, <1>3 DEF EditStep

-----------------------------------------------------------------------------
\* What follows is on the path of the request's kind.
LEMMA FollowsPath ==
    ASSUME NEW q \in Work, NEW s \in Work, StaysOnPath(q), Moves(q, s),
           q.at = "store_token" => s.new # None
    PROVE  StaysOnPath(s)
<1>a. /\ s.kind = q.kind /\ s.token = q.token
      /\ Follows(q.kind, q.at, s.at)
      /\ q.at # "store_token" => s.new = q.new
      /\ q.at \notin {"read_index", "list_tokens", "purge_grace"} => s.list = q.list
      /\ s.at = "purge_token" => s.list # <<>>
      /\ s.at = "drop_index" => s.list = <<>>
      /\ q.at = "store_token" => s.new # None
      /\ StaysOnPath(q)
  BY DEF Moves, Same
<1>1. (s.kind = "none") <=> (s.at = "idle")
  BY <1>a DEF StaysOnPath, Follows
<1>2. (s.token # None) <=> (s.kind \in UsesToken)
  BY <1>a DEF StaysOnPath
<1>3. s.at \in {"read_grace", "read_token", "drop_token", "store_grace", "remove_old"}
        => s.kind = "refresh"
  BY <1>a DEF StaysOnPath, Follows
<1>4. s.at \in {"remove_token", "remove_grace"} => s.kind = "logout"
  BY <1>a DEF StaysOnPath, Follows
<1>5. s.at \in {"read_index", "write_index", "store_grace", "remove_old"} => s.new # None
  BY <1>a DEF StaysOnPath, Follows
<1>6. s.at \in {"purge_token", "purge_grace"} => s.list # <<>>
  BY <1>a DEF StaysOnPath, Follows
<1>12. s.at = "drop_index" => s.list = <<>>
  BY <1>a
<1>7. s.at \in {"read_account", "store_token", "read_index", "write_index"}
        => s.kind \in {"login", "mobile_login", "refresh", "check"}
  BY <1>a DEF StaysOnPath, Follows
<1>8. s.at = "read_flag" => s.kind \in {"refresh", "check"}
  BY <1>a DEF StaysOnPath, Follows
<1>9. s.at \in {"store_token", "read_index", "write_index"} => s.kind # "check"
  BY <1>a DEF StaysOnPath, Follows
<1>10. s.at \in {"clear_revocation", "guard_role"} => s.kind = "login"
  BY <1>a DEF StaysOnPath, Follows
<1>11. s.at \in {"read_profile", "store_profile", "granted"} => s.kind = "check"
  BY <1>a DEF StaysOnPath, Follows
<1> QED
  BY <1>1, <1>2, <1>3, <1>4, <1>5, <1>6, <1>7, <1>8, <1>9, <1>10, <1>11, <1>12
  DEF StaysOnPath

\* A request that does nothing is on its path.
LEMMA IdleOnPath == StaysOnPath(Idle)
BY DEF StaysOnPath, Idle, None, UsesToken

\* Where a request is says which step it takes.
LEMMA StepAt ==
    ASSUME NEW r \in Request, ServeStep(r) \/ EditStep(r)
    PROVE  /\ IsAt(r, "store_token") => StoreToken(r)
           /\ IsAt(r, "read_index") => ReadIndex(r)
           /\ IsAt(r, "write_index") => WriteIndex(r)
           /\ IsAt(r, "read_token") => RefreshReadToken(r)
           /\ IsAt(r, "store_grace") => RefreshStoreGrace(r)
           /\ IsAt(r, "remove_old") => RefreshRemoveOld(r)
           /\ IsAt(r, "list_tokens") => RevokeListTokens(r)
           /\ IsAt(r, "purge_token") => RevokePurgeToken(r)
           /\ IsAt(r, "purge_grace") => RevokePurgeGrace(r)
           /\ IsAt(r, "drop_index") => RevokeDropIndex(r)
<1> USE DEF ServeStep, EditStep, IsAt,
      LoginReadAccount, LoginClearRevocation, LoginGuardRole, StoreToken, ReadIndex,
      WriteIndex, RefreshReadGrace, RefreshReadToken, RefreshReadFlag, RefreshReadAccount,
      RefreshDropToken, RefreshStoreGrace, RefreshRemoveOld, CheckReadFlag,
      CheckReadProfile, CheckReadAccount, CheckStoreProfile, CheckAnswer,
      LogoutRemoveToken, LogoutRemoveGrace, RevokeListTokens, RevokePurgeToken,
      RevokePurgeGrace, RevokeDropIndex, SetFlag, ClearFlag, RefreshList,
      EditAccount, EditFails, FinishEdit
<1>1. IsAt(r, "store_token") => StoreToken(r)
  OBVIOUS
<1>2. IsAt(r, "read_index") => ReadIndex(r)
  OBVIOUS
<1>3. IsAt(r, "write_index") => WriteIndex(r)
  OBVIOUS
<1>4. IsAt(r, "read_token") => RefreshReadToken(r)
  OBVIOUS
<1>5. IsAt(r, "store_grace") => RefreshStoreGrace(r)
  OBVIOUS
<1>6. IsAt(r, "remove_old") => RefreshRemoveOld(r)
  OBVIOUS
<1>7. IsAt(r, "list_tokens") => RevokeListTokens(r)
  OBVIOUS
<1>8. IsAt(r, "purge_token") => RevokePurgeToken(r)
  OBVIOUS
<1>9. IsAt(r, "purge_grace") => RevokePurgeGrace(r)
  OBVIOUS
<1>10. IsAt(r, "drop_index") => RevokeDropIndex(r)
  OBVIOUS
<1> QED  BY <1>1, <1>2, <1>3, <1>4, <1>5, <1>6, <1>7, <1>8, <1>9, <1>10

\* What a request is when it arrives.
LEMMA BeginRecord ==
    ASSUME SessionTypeOK, NEW r \in Request, Begin(r)
    PROVE  \E kind \in Kind \ {"none"}, p \in Process, t \in 0..issued :
             /\ kind \in mix.kinds
             /\ (t # None) <=> (kind \in UsesToken)
             /\ request[r] = Idle
             /\ request' = [request EXCEPT ![r] =
                               [Idle EXCEPT !.kind = kind, !.at = Entry(kind),
                                            !.p = p, !.token = t,
                                            !.barred = Reasons(p)]]
             /\ request'[r].kind = kind /\ request'[r].at = Entry(kind)
             /\ request'[r].p = p /\ request'[r].token = t /\ request'[r].new = None
             /\ request'[r].list = <<>> /\ request'[r].barred = Reasons(p)
<1>1. PICK kind \in mix.kinds, p \in mix.processes, t \in 0..issued :
        /\ (t # None) <=> (kind \in UsesToken)
        /\ request' = [request EXCEPT ![r] =
                          [Idle EXCEPT !.kind = kind, !.at = Entry(kind),
                                       !.p = p, !.token = t,
                                       !.barred = Reasons(p)]]
  BY DEF Begin
<1>2. kind \in Kind \ {"none"} /\ p \in Process /\ request[r] = Idle
  BY <1>1, SessionAssumption DEF SessionTypeOK, Begin
<1>3. request'[r] = [Idle EXCEPT !.kind = kind, !.at = Entry(kind), !.p = p,
                                 !.token = t, !.barred = Reasons(p)]
  BY <1>1 DEF SessionTypeOK, RequestOK
<1>4. /\ request'[r].kind = kind /\ request'[r].at = Entry(kind)
      /\ request'[r].p = p /\ request'[r].token = t /\ request'[r].new = None
      /\ request'[r].list = <<>> /\ request'[r].barred = Reasons(p)
  BY <1>3 DEF Idle
<1> QED  BY <1>1, <1>2, <1>4

\* Expiry leaves requests where they are.
LEMMA ExpireLeaves ==
    ASSUME SessionTypeOK, ExpireStep
    PROVE  \A q \in Request : Leaves(request[q], request'[q])
<1>1. RequestOK
  BY DEF SessionTypeOK
<1>2. \A q \in Request : Leaves(request[q], request[q])
  BY DEF Leaves, Same
<1>3. \A q \in Request : Leaves(request[q], Lift(request[q]))
  BY <1>1 DEF RequestOK, Work, Leaves, Same, Lift
<1> QED  BY <1>2, <1>3 DEF ExpireStep, ExpireToken, ExpireGrace, ExpireIndex,
              ExpireFlag, ExpireProfile, ExpireRam, ForgetMemory

\* Every step keeps the requests on the paths of the code.
LEMMA PathStep ==
    ASSUME SessionTypeOK, SessionTypeOK', OnPath, SessionNext
    PROVE  OnPath'
<1>a. /\ \A q \in Request : request[q] \in Work /\ request'[q] \in Work
      /\ \A q \in Request : StaysOnPath(request[q])
  BY DEF SessionTypeOK, RequestOK, OnPath
<1>b. ASSUME NEW q, NEW s, Leaves(q, s), StaysOnPath(q) PROVE StaysOnPath(s)
  BY <1>b DEF Leaves, Same, StaysOnPath
<1>1. ASSUME NEW r \in Request, Begin(r) PROVE OnPath'
  <2>1. PICK kind \in Kind \ {"none"}, t \in 0..issued :
             /\ (t # None) <=> (kind \in UsesToken)
             /\ request'[r].kind = kind /\ request'[r].at = Entry(kind)
             /\ request'[r].token = t /\ request'[r].new = None
             /\ request'[r].list = <<>>
             /\ \A q \in Request \ {r} : request'[q] = request[q]
    BY <1>1, BeginRecord DEF SessionTypeOK, RequestOK
  <2>2. StaysOnPath(request'[r])
    BY <2>1 DEF StaysOnPath, Entry, Kind, Administration, UsesToken
  <2> QED  BY <2>1, <2>2, <1>a DEF OnPath
<1>2. ASSUME NEW r \in Request, ServeStep(r) \/ EditStep(r) PROVE OnPath'
  <2>1. Moved(r)
    BY <1>2, ServeMoves, EditMoves
  <2>2. request[r].at = "store_token" => request'[r].new # None
    <3>1. CASE request[r].at = "store_token"
      <4>1. StoreToken(r)
        BY <3>1, <1>2, StepAt DEF IsAt
      <4>2. request'[r].new = issued + 1
        BY <4>1, <1>a DEF StoreToken, SessionTypeOK, RequestOK, Work
      <4>3. issued \in Nat /\ issued + 1 # None
        BY SessionAssumption DEF SessionTypeOK, None
      <4> QED  BY <4>2, <4>3
    <3> QED  BY <3>1
  <2>3. StaysOnPath(request'[r])
    BY <2>1, <2>2, <1>a, IdleOnPath, FollowsPath DEF Moved
  <2> QED  BY <2>1, <2>3, <1>a, <1>b DEF Moved, OnPath
<1>3. CASE ExpireStep
  BY <1>3, <1>a, <1>b, ExpireLeaves DEF OnPath
<1> QED  BY <1>1, <1>2, <1>3 DEF SessionNext

-----------------------------------------------------------------------------
(***************************************************************************)
(* What a step of a request does to the keys.                              *)
(***************************************************************************)
Shrinks(s, t) == t.live \subseteq s.live /\ t.index \in {s.index, <<>>}

\* A step that issues no token and stores none.
KeysShrink ==
    /\ Shrinks(redis, redis')
    /\ \A p \in Process : Shrinks(memory[p], memory'[p])
    /\ issued' = issued /\ family' = family
    /\ disturbed \subseteq disturbed'

\* Deleting a token takes keys away only,
LEMMA DeleteShrinks ==
    ASSUME SessionTypeOK, NEW r \in Request, NEW t, DeleteToken(r, t),
           issued' = issued, family' = family
    PROVE  KeysShrink
BY DEF DeleteToken, KeysShrink, Shrinks, SessionTypeOK, Store

\* as does deleting a grace key,
LEMMA GraceShrinks ==
    ASSUME SessionTypeOK, NEW r \in Request, NEW t, DeleteGrace(r, t),
           issued' = issued, family' = family, disturbed' = disturbed
    PROVE  KeysShrink
BY DEF DeleteGrace, KeysShrink, Shrinks, SessionTypeOK, Store

\* as does deleting the flag.
LEMMA FlagShrinks ==
    ASSUME SessionTypeOK, NEW r \in Request, NEW label, DeleteFlag(r, label),
           issued' = issued, family' = family, disturbed' = disturbed
    PROVE  KeysShrink
BY DEF DeleteFlag, KeysShrink, Shrinks, SessionTypeOK, Store

\* Only storing a token or the index adds a key.
LEMMA ServeShrinks ==
    ASSUME SessionTypeOK, NEW r \in Request, ServeStep(r),
           ~StoreToken(r), ~WriteIndex(r)
    PROVE  KeysShrink
<1>a. /\ redis \in Store /\ memory \in [Process -> Store]
  BY DEF SessionTypeOK
<1>1. CASE redis' = redis /\ memory' = memory /\ issued' = issued /\ family' = family
           /\ disturbed' = disturbed
  BY <1>1 DEF KeysShrink, Shrinks
<1>2. CASE LoginClearRevocation(r)
  BY <1>2, FlagShrinks DEF LoginClearRevocation, historyVars
<1>3. CASE RefreshDropToken(r)
  BY <1>3, DeleteShrinks DEF RefreshDropToken
<1>4. CASE RefreshStoreGrace(r)
  BY <1>4, <1>a DEF RefreshStoreGrace, historyVars, KeysShrink, Shrinks, Store
<1>5. CASE RefreshRemoveOld(r)
  BY <1>5, DeleteShrinks DEF RefreshRemoveOld
<1>6. CASE CheckStoreProfile(r)
  BY <1>6, <1>a DEF CheckStoreProfile, historyVars, KeysShrink, Shrinks, Store
<1>7. CASE LogoutRemoveToken(r)
  BY <1>7, DeleteShrinks DEF LogoutRemoveToken
<1>8. CASE LogoutRemoveGrace(r)
  BY <1>8, GraceShrinks DEF LogoutRemoveGrace, historyVars
<1>9. CASE RevokePurgeToken(r)
  BY <1>9, DeleteShrinks DEF RevokePurgeToken
<1>10. CASE RevokePurgeGrace(r)
  BY <1>10, GraceShrinks DEF RevokePurgeGrace, historyVars
<1>11. CASE RevokeDropIndex(r)
  BY <1>11, <1>a DEF RevokeDropIndex, KeysShrink, Shrinks, Store
<1>12. CASE SetFlag(r)
  BY <1>12, <1>a DEF SetFlag, historyVars, KeysShrink, Shrinks, Store
<1>13. CASE ClearFlag(r)
  BY <1>13, FlagShrinks DEF ClearFlag, historyVars
<1> QED
  BY <1>1, <1>2, <1>3, <1>4, <1>5, <1>6, <1>7, <1>8, <1>9, <1>10, <1>11, <1>12, <1>13
  DEF ServeStep, storeVars, boundVars, historyVars,
      LoginReadAccount, LoginGuardRole, ReadIndex, RefreshReadGrace, RefreshReadToken,
      RefreshReadFlag, RefreshReadAccount, CheckReadFlag, CheckReadProfile,
      CheckReadAccount, CheckAnswer, RevokeListTokens, RefreshList

\* Arrivals, edits and expiry add none.
LEMMA OthersShrink ==
    ASSUME SessionTypeOK,
           ExpireStep \/ \E r \in Request : EditStep(r) \/ Begin(r)
    PROVE  KeysShrink
<1>a. redis \in Store /\ memory \in [Process -> Store]
  BY DEF SessionTypeOK
<1>1. CASE redis' = redis /\ memory' = memory /\ issued' = issued /\ family' = family
           /\ disturbed \subseteq disturbed'
  BY <1>1 DEF KeysShrink, Shrinks
<1>2. ASSUME NEW r \in Request, EditStep(r) PROVE KeysShrink
  BY <1>2, <1>1 DEF EditStep, EditAccount, EditFails, FinishEdit, storeVars, boundVars, historyVars
<1>3. ASSUME NEW r \in Request, Begin(r) PROVE KeysShrink
  BY <1>3, <1>1 DEF Begin, storeVars, boundVars
<1>4. CASE ExpireStep
  <2> USE DEF KeysShrink, Shrinks, historyVars, boundVars, Store
  <2>1. CASE ExpireToken
    BY <2>1, <1>a DEF ExpireToken
  <2>2. CASE ExpireGrace
    BY <2>2, <1>a DEF ExpireGrace
  <2>3. CASE ExpireIndex
    BY <2>3, <1>a DEF ExpireIndex
  <2>4. CASE ExpireFlag
    BY <2>4, <1>a DEF ExpireFlag
  <2>5. CASE ExpireProfile
    BY <2>5, <1>a DEF ExpireProfile
  <2>6. ASSUME NEW p \in Process, ExpireRam(p) PROVE KeysShrink
    BY <2>6, <1>a DEF ExpireRam
  <2>7. ASSUME NEW p \in Process, ForgetMemory(p) PROVE KeysShrink
    BY <2>7, <1>a DEF ForgetMemory, Empty
  <2> QED  BY <1>4, <2>1, <2>2, <2>3, <2>4, <2>5, <2>6, <2>7 DEF ExpireStep
<1> QED  BY <1>2, <1>3, <1>4

-----------------------------------------------------------------------------
\* Tokens that are held anywhere have been issued.
LEMMA IssuedStep ==
    ASSUME SessionTypeOK, SessionTypeOK', TokensAreIssued, OnPath, SessionNext
    PROVE  TokensAreIssued'
<1>a. /\ \A q \in Request : request[q] \in Work /\ request'[q] \in Work
      /\ issued \in Nat /\ issued' \in Nat
  BY SessionAssumption DEF SessionTypeOK, RequestOK
<1> DEFINE Holds(q, S) == /\ q.token \in S \cup {None}
                          /\ q.new \in S \cup {None}
                          /\ In(q.list) \subseteq S
           Keeps(s, S) == s.live \subseteq S /\ In(s.index) \subseteq S
<1>b. /\ \A q \in Request : Holds(request[q], Issued)
      /\ Keeps(redis, Issued) /\ \A p \in Process : Keeps(memory[p], Issued)
  BY DEF TokensAreIssued
<1>c. In(<<>>) = {}
  BY DEF In
<1>f. ASSUME NEW s, NEW t, Shrinks(s, t), Keeps(s, Issued) PROVE Keeps(t, Issued)
  BY <1>c, <1>f DEF Shrinks
<1>d. ASSUME KeysShrink, \A q \in Request : Holds(request'[q], Issued)
      PROVE  TokensAreIssued'
  <2>1. Issued' = Issued
    BY <1>d DEF KeysShrink, Issued
  <2>2. Keeps(redis', Issued) /\ \A p \in Process : Keeps(memory'[p], Issued)
    BY <1>d, <1>b, <1>f DEF KeysShrink
  <2> QED  BY <1>d, <2>1, <2>2 DEF TokensAreIssued, KeysShrink, In
<1>e. ASSUME NEW r \in Request, Moved(r), NEW S, Issued \subseteq S,
             request'[r] = Idle \/ Holds(request'[r], S)
      PROVE  \A q \in Request : Holds(request'[q], S)
  <2>1. Holds(Idle, S)
    BY <1>c DEF Idle
  <2>2. \A q \in Request \ {r} : Holds(request'[q], S)
    BY <1>b, <1>e DEF Moved, Leaves, Same
  <2> QED  BY <1>e, <2>1, <2>2
<1> HIDE DEF Holds, Keeps
<1>1. ASSUME NEW r \in Request, Begin(r) PROVE TokensAreIssued'
  <2>1. KeysShrink
    BY <1>1, OthersShrink
  <2>2. PICK t \in 0..issued :
          request'[r].token = t /\ request'[r].new = None /\ request'[r].list = <<>>
    BY <1>1, BeginRecord
  <2>3. t \in Issued \cup {None}
    BY <1>a DEF Issued, None
  <2>4. Holds(request'[r], Issued)
    BY <1>c, <2>2, <2>3 DEF Holds
  <2>5. \A q \in Request \ {r} : request'[q] = request[q]
    BY <1>1, BeginRecord DEF SessionTypeOK, RequestOK
  <2> QED  BY <1>b, <1>d, <2>1, <2>4, <2>5
<1>2. CASE ExpireStep
  <2>1. KeysShrink
    BY <1>2, OthersShrink
  <2>2. \A q \in Request : Leaves(request[q], request'[q])
    BY <1>2, ExpireLeaves
  <2>3. \A q \in Request : Holds(request'[q], Issued)
    BY <1>b, <2>2 DEF Leaves, Same, Holds
  <2> QED  BY <1>d, <2>1, <2>3
<1>3. ASSUME NEW r \in Request, EditStep(r) PROVE TokensAreIssued'
  <2>1. KeysShrink
    BY <1>3, OthersShrink
  <2>2. Moved(r)
    BY <1>3, EditMoves
  <2>3. IsAt(r, "edit") \/ IsAt(r, "edited")
    BY <1>3 DEF EditStep, EditAccount, EditFails, FinishEdit
  <2>4. request'[r] = Idle \/ Holds(request'[r], Issued)
    BY <1>b, <2>2, <2>3 DEF Moved, Moves, Same, IsAt, Holds
  <2> QED  BY <1>d, <1>e, <2>1, <2>2, <2>4
<1>4. ASSUME NEW r \in Request, StoreToken(r) PROVE TokensAreIssued'
  <2>1. issued' = issued + 1
    BY <1>4 DEF StoreToken
  <2>2. /\ issued + 1 \in Issued' /\ issued + 1 \in Token /\ issued + 1 \notin Issued
        /\ Issued' = Issued \cup {issued + 1}
    BY <1>4, <2>1, <1>a, SessionAssumption DEF Issued, SessionTypeOK, Token
  <2>3. Moved(r) /\ IsAt(r, "store_token")
    BY <1>4, ServeMoves DEF ServeStep, StoreToken
  <2>4. request'[r].new = issued + 1
    BY <1>4, <1>a DEF StoreToken, SessionTypeOK, RequestOK, Work
  <2>5. request'[r] = Idle \/ Holds(request'[r], Issued')
    BY <1>b, <2>2, <2>3, <2>4 DEF Moved, Moves, Same, IsAt, Holds
  <2>6. \A q \in Request : Holds(request'[q], Issued')
    BY <1>e, <2>2, <2>3, <2>5
  <2>7. Keeps(redis', Issued') /\ \A p \in Process : Keeps(memory'[p], Issued')
    BY <1>4, <1>b, <2>2 DEF StoreToken, SessionTypeOK, Store, Keeps
  <2>8. \A t \in Token : family'[t] \in (IF t \in Issued' THEN Issued' ELSE {None})
    <3>1. family' = [family EXCEPT ![issued + 1] =
                        IF request[r].token = None THEN issued + 1
                        ELSE family[request[r].token]]
      BY <1>4 DEF StoreToken
    <3>2. request[r].token # None => request[r].token \in Issued
      BY DEF TokensAreIssued
    <3>3. \A t \in Issued : t \in Token
      BY <1>a, SessionAssumption DEF Issued, Token, SessionTypeOK
    <3> QED  BY <3>1, <3>2, <3>3, <2>2 DEF TokensAreIssued, SessionTypeOK
  <2> QED  BY <2>6, <2>7, <2>8 DEF TokensAreIssued, Holds, Keeps, In
<1>5. ASSUME NEW r \in Request, WriteIndex(r) PROVE TokensAreIssued'
  <2>1. issued' = issued /\ family' = family /\ Issued' = Issued
    BY <1>5 DEF WriteIndex, Issued
  <2>2. Moved(r) /\ IsAt(r, "write_index")
    BY <1>5, ServeMoves DEF ServeStep, WriteIndex
  <2>3. request'[r] = Idle \/ Holds(request'[r], Issued)
    BY <1>b, <2>2 DEF Moved, Moves, Same, IsAt, Holds
  <2>4. \A q \in Request : Holds(request'[q], Issued)
    BY <1>e, <2>2, <2>3
  <2> DEFINE list == Newest(Append(request[r].list, request[r].new))
  <2>5. In(list) \subseteq Issued
    <3>1. request[r].new \in Issued /\ request[r].new \in Token
      BY <2>2, <1>a DEF OnPath, StaysOnPath, TokensAreIssued, IsAt, Work
    <3>2. request[r].list \in Seq(Token) /\ Append(request[r].list, request[r].new) \in Seq(Token)
      BY <3>1, <1>a DEF Work
    <3>3. In(Append(request[r].list, request[r].new))
            = In(request[r].list) \cup {request[r].new}
      BY <3>1, <3>2, InFacts
    <3>4. In(list) \subseteq In(Append(request[r].list, request[r].new))
      BY <3>2, NewestFacts
    <3> QED  BY <3>1, <3>3, <3>4 DEF TokensAreIssued
  <2> HIDE DEF list
  <2>6. PICK lost \in BOOLEAN :
        /\ redis' = [redis EXCEPT !.index = IF lost THEN @ ELSE list]
        /\ memory' = [memory EXCEPT ![Proc(r)].index = IF lost THEN list ELSE @]
    BY <1>5 DEF WriteIndex, list
  <2>7. Keeps(redis', Issued) /\ \A p \in Process : Keeps(memory'[p], Issued)
    BY <1>b, <2>5, <2>6 DEF SessionTypeOK, Store, Keeps
  <2> QED  BY <2>1, <2>4, <2>7 DEF TokensAreIssued, Holds, Keeps, In
<1>6. ASSUME NEW r \in Request, ServeStep(r), ~StoreToken(r), ~WriteIndex(r)
      PROVE  TokensAreIssued'
  <2>1. KeysShrink
    BY <1>6, ServeShrinks
  <2>2. Moved(r) /\ ~IsAt(r, "store_token")
    BY <1>6, ServeMoves, StepAt
  <2>3. CASE ReadIndex(r) \/ RevokeListTokens(r)
    <3>1. PICK lost \in BOOLEAN, label \in At :
            request' = [request EXCEPT ![r].at = label,
                          ![r].list = Get(redis.index, Local(r).index, <<>>, lost)]
      BY <2>3 DEF ReadIndex, RevokeListTokens, At
    <3>2. request'[r].list = Get(redis.index, Local(r).index, <<>>, lost)
      BY <3>1, <1>a DEF SessionTypeOK, RequestOK, Work
    <3>3. In(request'[r].list) \subseteq Issued
      BY <3>2, <1>a, <1>b DEF Get, Local, Proc, Work, Keeps
    <3> QED  BY <1>b, <1>d, <1>e, <2>1, <2>2, <3>3 DEF Moved, Moves, Same, IsAt, Holds
  <2>4. CASE RevokePurgeGrace(r)
    <3>1. request'[r].list = Tail(request[r].list) /\ request[r].list # <<>>
      BY <2>4, <1>a DEF RevokePurgeGrace, SessionTypeOK, RequestOK, Work,
                        OnPath, StaysOnPath, IsAt
    <3>2. In(request'[r].list) \subseteq Issued
      BY <3>1, <1>a, InFacts DEF TokensAreIssued, Work
    <3> QED  BY <1>b, <1>d, <1>e, <2>1, <2>2, <3>2 DEF Moved, Moves, Same, IsAt, Holds
  <2>5. CASE ~IsAt(r, "read_index") /\ ~IsAt(r, "list_tokens") /\ ~IsAt(r, "purge_grace")
    <3>1. request'[r] = Idle \/ Holds(request'[r], Issued)
      BY <1>b, <2>2, <2>5 DEF Moved, Moves, Same, IsAt, Holds
    <3> QED  BY <1>d, <1>e, <2>1, <2>2, <3>1
  <2> QED  BY <1>6, <2>3, <2>4, <2>5, StepAt
<1> QED
  BY <1>1, <1>2, <1>3, <1>4, <1>5, <1>6 DEF SessionNext

-----------------------------------------------------------------------------
(***************************************************************************)
(* Type correctness.                                                       *)
(***************************************************************************)
SessionInv == SessionTypeOK /\ TokensAreIssued /\ OnPath

\* The invariant holds at the start,
LEMMA InvInitially == SessionInit => SessionInv
<1> SUFFICES ASSUME SessionInit PROVE SessionInv
  OBVIOUS
<1> USE SessionAssumption DEF SessionInit
<1>1. Empty \in Store /\ In(<<>>) = {} /\ Issued = {}
  BY DEF Empty, Store, In, Issued, None
<1>2. SessionTypeOK
  <2>1. redis \in Store /\ memory \in [Process -> Store]
    BY <1>1
  <2>2. RequestOK
    BY IdleType DEF RequestOK
  <2>3. issued \in 0..MaxTokens /\ faults \in Nat
    OBVIOUS
  <2>4. family \in [Token -> Token \cup {None}]
    BY DEF None
  <2> QED  BY <2>1, <2>2, <2>3, <2>4 DEF SessionTypeOK
<1>3. TokensAreIssued
  BY <1>1 DEF TokensAreIssued, Empty, Idle
<1>4. OnPath
  BY IdleOnPath DEF OnPath
<1> QED  BY <1>2, <1>3, <1>4 DEF SessionInv

\* and every step keeps it.
LEMMA InvStep == SessionInv /\ [SessionNext]_sessionVars => SessionInv'
<1> SUFFICES ASSUME SessionInv, [SessionNext]_sessionVars PROVE SessionInv'
  OBVIOUS
<1>1. CASE SessionNext
  <2>1. SessionTypeOK'
    BY <1>1, TypeServe, TypeBegin, TypeEdit, TypeExpire DEF SessionInv, SessionNext
  <2> QED  BY <1>1, <2>1, PathStep, IssuedStep DEF SessionInv
<1>2. CASE UNCHANGED sessionVars
  BY <1>2 DEF SessionInv, SessionTypeOK, RequestOK, TokensAreIssued, Issued, OnPath,
              sessionVars, storeVars, boundVars, historyVars
<1> QED  BY <1>1, <1>2

\* Every variable has its type, whatever requests meet, fail and expire.
THEOREM SessionTypeCorrect == SessionSpec => []SessionTypeOK
<1>1. SessionInit => SessionInv
  BY InvInitially
<1>2. SessionInv /\ [SessionNext]_sessionVars => SessionInv'
  BY InvStep
<1>3. SessionInv => SessionTypeOK
  BY DEF SessionInv
<1> QED  BY <1>1, <1>2, <1>3, PTL DEF SessionSpec

-----------------------------------------------------------------------------
(***************************************************************************)
(* Revocation and deactivation.  What bars a request stands, and a request *)
(* it bars does not get past the step that looks at it.                    *)
(***************************************************************************)
BarsStand ==
    \A r \in Request :
        /\ "revoked" \in request[r].barred
              => redis.flag \/ memory[request[r].p].flag
        /\ "inactive" \in request[r].barred => account = "inactive"

\* A request is not barred by what it has been checked for.
Past(q) ==
    /\ q.kind = "refresh" /\ q.at \in {"read_account"} \cup Issuing
          => "revoked" \notin q.barred
    /\ q.kind = "refresh" /\ q.at \in Issuing => "inactive" \notin q.barred
    /\ q.at \in {"read_profile", "store_profile", "granted"}
          => "revoked" \notin q.barred
    /\ q.kind = "check" /\ q.at = "read_account" => "revoked" \notin q.barred

\* No request has passed a check that its reason was to fail.
BarredIsStopped == \A r \in Request : Past(request[r])

\* Only a deletion or an expiry takes a flag away, and both lift the bar.
FlagsStay ==
    /\ redis.flag => redis'.flag
    /\ \A p \in Process : memory[p].flag => memory'[p].flag

\* Deleting tokens or grace keys leaves the flags alone.
LEMMA DeleteKeepsFlags ==
    ASSUME SessionTypeOK, NEW r \in Request, NEW t,
           DeleteToken(r, t) \/ DeleteGrace(r, t)
    PROVE  FlagsStay
<1>a. redis \in Store /\ memory \in [Process -> Store]
  BY DEF SessionTypeOK
<1>1. CASE DeleteToken(r, t)
  <2>1. PICK lost \in BOOLEAN :
        /\ redis' = [redis EXCEPT !.live = IF lost THEN @ ELSE @ \ {t}]
        /\ memory' = [memory EXCEPT ![Proc(r)].live = @ \ {t}]
    BY <1>1 DEF DeleteToken
  <2> QED  BY <2>1, <1>a DEF FlagsStay, Store
<1>2. CASE DeleteGrace(r, t)
  <2>1. PICK lost \in BOOLEAN :
        /\ redis' = [redis EXCEPT !.grace[t] = IF lost THEN @ ELSE None]
        /\ memory' = [memory EXCEPT ![Proc(r)].grace[t] = None]
    BY <1>2 DEF DeleteGrace
  <2> QED  BY <2>1, <1>a DEF FlagsStay, Store
<1> QED  BY <1>1, <1>2

\* No handler takes a flag away but sign-in and reactivation, and none edits the account.
LEMMA ServeKeepsFlags ==
    ASSUME SessionTypeOK, NEW r \in Request, ServeStep(r),
           ~LoginClearRevocation(r), ~ClearFlag(r)
    PROVE  FlagsStay /\ account' = account
<1>a. redis \in Store /\ memory \in [Process -> Store]
  BY DEF SessionTypeOK
<1>1. CASE redis' = redis /\ memory' = memory /\ account' = account
  BY <1>1 DEF FlagsStay
<1>2. CASE StoreToken(r)
  BY <1>2, <1>a DEF StoreToken, FlagsStay, Store
<1>3. CASE WriteIndex(r)
  <2> DEFINE list == Newest(Append(request[r].list, request[r].new))
  <2>1. PICK lost \in BOOLEAN :
        /\ redis' = [redis EXCEPT !.index = IF lost THEN @ ELSE list]
        /\ memory' = [memory EXCEPT ![Proc(r)].index = IF lost THEN list ELSE @]
    BY <1>3 DEF WriteIndex
  <2>2. account' = account
    BY <1>3 DEF WriteIndex
  <2> HIDE DEF list
  <2> QED  BY <2>1, <2>2, <1>a DEF FlagsStay, Store
<1>4. CASE RefreshDropToken(r) \/ RefreshRemoveOld(r) \/ LogoutRemoveToken(r)
           \/ RevokePurgeToken(r)
  BY <1>4, DeleteKeepsFlags
  DEF RefreshDropToken, RefreshRemoveOld, LogoutRemoveToken, RevokePurgeToken
<1>5. CASE LogoutRemoveGrace(r) \/ RevokePurgeGrace(r)
  BY <1>5, DeleteKeepsFlags DEF LogoutRemoveGrace, RevokePurgeGrace
<1>6. CASE RefreshStoreGrace(r)
  BY <1>6, <1>a DEF RefreshStoreGrace, FlagsStay, Store
<1>7. CASE CheckStoreProfile(r)
  BY <1>7, <1>a DEF CheckStoreProfile, FlagsStay, Store
<1>8. CASE RevokeDropIndex(r)
  BY <1>8, <1>a DEF RevokeDropIndex, FlagsStay, Store
<1>9. CASE SetFlag(r)
  BY <1>9, <1>a DEF SetFlag, FlagsStay, Store
<1> QED
  BY <1>1, <1>2, <1>3, <1>4, <1>5, <1>6, <1>7, <1>8, <1>9
  DEF ServeStep, storeVars,
      LoginReadAccount, LoginGuardRole, ReadIndex, RefreshReadGrace, RefreshReadToken,
      RefreshReadFlag, RefreshReadAccount, CheckReadFlag, CheckReadProfile,
      CheckReadAccount, CheckAnswer, RevokeListTokens, RefreshList

\* Requests that keep what bars them or lose it, while all of it stands.
LEMMA BarsStay ==
    ASSUME BarsStand, FlagsStay, account' = account,
           \A q \in Request : request'[q] = Idle \/ Same(request[q], request'[q]),
           \A q \in Request : request[q].p \in Process
    PROVE  BarsStand'
<1>1. Idle.barred = {}
  BY DEF Idle
<1>2. ASSUME NEW q \in Request, "revoked" \in request'[q].barred
      PROVE  redis'.flag \/ memory'[request'[q].p].flag
  <2>1. /\ request'[q].p = request[q].p /\ "revoked" \in request[q].barred
    BY <1>1, <1>2 DEF Same
  <2> QED  BY <2>1 DEF BarsStand, FlagsStay
<1>3. ASSUME NEW q \in Request, "inactive" \in request'[q].barred
      PROVE  account' = "inactive"
  <2>1. "inactive" \in request[q].barred
    BY <1>1, <1>3 DEF Same
  <2> QED  BY <2>1 DEF BarsStand
<1> QED  BY <1>2, <1>3 DEF BarsStand

\* Where the flag is deleted, nobody is barred by it any more.
LEMMA DropFlagLifts ==
    ASSUME SessionTypeOK, BarsStand, NEW r \in Request, NEW label,
           DeleteFlag(r, label), account' = account
    PROVE  BarsStand'
<1>1. \A q \in Request : request'[q].barred = Lift(request[q]).barred
  BY DEF DeleteFlag, SessionTypeOK, RequestOK, Work, Lift
<1>2. \A q \in Request : Lift(request[q]).barred = request[q].barred \ {"revoked"}
  BY DEF SessionTypeOK, RequestOK, Work, Lift
<1> QED  BY <1>1, <1>2 DEF BarsStand

\* A request that is barred is barred by a flag that stands or by the account.
LEMMA BarsStep ==
    ASSUME SessionTypeOK, SessionTypeOK', BarsStand, SessionNext
    PROVE  BarsStand'
<1>a. /\ \A q \in Request : request[q] \in Work /\ request'[q] \in Work
                              /\ request[q].p \in Process
      /\ redis \in Store /\ memory \in [Process -> Store]
  BY DEF SessionTypeOK, RequestOK, Work
<1>b. ASSUME NEW r \in Request, Moved(r)
      PROVE  \A q \in Request : request'[q] = Idle \/ Same(request[q], request'[q])
  BY <1>b DEF Moved, Moves, Leaves
<1>1. ASSUME NEW r \in Request, Begin(r) PROVE BarsStand'
  <2>1. PICK p \in Process : /\ request'[r].p = p /\ request'[r].barred = Reasons(p)
                             /\ \A q \in Request \ {r} : request'[q] = request[q]
    BY <1>1, BeginRecord DEF SessionTypeOK, RequestOK
  <2>2. redis' = redis /\ memory' = memory /\ account' = account
    BY <1>1 DEF Begin, storeVars
  <2> QED  BY <2>1, <2>2 DEF BarsStand, Reasons
<1>2. ASSUME NEW r \in Request, ServeStep(r) PROVE BarsStand'
  <2>1. CASE LoginClearRevocation(r)
    BY <2>1, DropFlagLifts DEF LoginClearRevocation
  <2>2. CASE ClearFlag(r)
    BY <2>2, DropFlagLifts DEF ClearFlag
  <2>3. CASE ~LoginClearRevocation(r) /\ ~ClearFlag(r)
    BY <2>3, <1>2, <1>a, <1>b, ServeKeepsFlags, ServeMoves, BarsStay
  <2> QED  BY <2>1, <2>2, <2>3
<1>3. ASSUME NEW r \in Request, EditStep(r) PROVE BarsStand'
  <2>1. redis' = redis /\ memory' = memory
    BY <1>3 DEF EditStep, EditAccount, EditFails, FinishEdit, storeVars
  <2>2. CASE account' = account
    BY <2>1, <2>2, <1>3, <1>a, <1>b, EditMoves, BarsStay DEF FlagsStay
  <2>3. CASE account' # account
    <3>1. EditAccount(r)
      BY <2>3, <1>3 DEF EditStep, EditFails, FinishEdit, storeVars
    <3>2. \A q \in Request : request'[q].p = request[q].p
                              /\ request'[q].barred \subseteq request[q].barred
      BY <3>1, <1>a DEF EditAccount, SessionTypeOK, RequestOK, Work
    <3>3. account' = "active" => \A q \in Request : "inactive" \notin request'[q].barred
      BY <3>1, <1>a DEF EditAccount, SessionTypeOK, RequestOK, Work
    <3>4. account' \in {"active", "inactive"}
      BY DEF SessionTypeOK
    <3> QED  BY <2>1, <3>2, <3>3, <3>4 DEF BarsStand
  <2> QED  BY <2>2, <2>3
<1>4. CASE ExpireStep
  <2>1. account' = account
    BY <1>4 DEF ExpireStep, ExpireToken, ExpireGrace, ExpireIndex, ExpireFlag,
                ExpireProfile, ExpireRam, ForgetMemory
  <2>2. CASE request' = [q \in Request |-> Lift(request[q])]
    <3>1. \A q \in Request : request'[q].barred = request[q].barred \ {"revoked"}
      BY <2>2, <1>a DEF Lift, Work
    <3> QED  BY <2>1, <3>1 DEF BarsStand
  <2>3. CASE request' # [q \in Request |-> Lift(request[q])]
    <3>1. FlagsStay
      BY <2>3, <1>4, <1>a DEF FlagsStay, Store, ExpireStep, ExpireToken, ExpireGrace,
          ExpireIndex, ExpireFlag, ExpireProfile, ExpireRam, ForgetMemory
    <3>2. \A q \in Request : Same(request[q], request'[q])
      BY <1>4, ExpireLeaves DEF Leaves
    <3> QED  BY <2>1, <3>1, <3>2, <1>a, BarsStay
  <2> QED  BY <2>2, <2>3
<1> QED  BY <1>1, <1>2, <1>3, <1>4 DEF SessionNext

\* The steps that look at the flag and at the account.
LEMMA FlagStops ==
    ASSUME SessionTypeOK, BarsStand, BarredIsStopped, NEW r \in Request,
           RefreshReadFlag(r) \/ CheckReadFlag(r)
    PROVE  request'[r] = Idle \/ Past(request'[r])
<1>a. request[r] \in Work /\ redis \in Store /\ Local(r) \in Store
  BY DEF SessionTypeOK, RequestOK, Work, Local, Proc
<1>1. PICK lost \in BOOLEAN :
        \/ request'[r] = Idle
        \/ /\ lost \/ ~(redis.flag \/ Local(r).flag) \/ request'[r].at = "drop_token"
           /\ request'[r].barred =
                IF lost THEN request[r].barred \ {"revoked"} ELSE request[r].barred
  <2>1. CASE RefreshReadFlag(r)
    <3>1. PICK lost \in BOOLEAN :
            request' = [request EXCEPT
               ![r].at = IF Get(redis.flag, Local(r).flag, FALSE, lost)
                         THEN "drop_token" ELSE "read_account",
               ![r].barred = IF lost THEN @ \ {"revoked"} ELSE @]
      BY <2>1 DEF RefreshReadFlag
    <3>2. request'[r].at = (IF Get(redis.flag, Local(r).flag, FALSE, lost)
                            THEN "drop_token" ELSE "read_account")
          /\ request'[r].barred =
                IF lost THEN request[r].barred \ {"revoked"} ELSE request[r].barred
      BY <3>1, <1>a DEF SessionTypeOK, RequestOK, Work
    <3> QED  BY <3>2, <1>a DEF Get, Store
  <2>2. CASE CheckReadFlag(r) /\ ~Finish(r)
    <3>1. PICK lost \in BOOLEAN :
            /\ ~Get(redis.flag, Local(r).flag, FALSE, lost)
            /\ request' = [request EXCEPT
                    ![r].at = IF ram[Proc(r)] THEN "granted" ELSE "read_profile",
                    ![r].barred = IF lost THEN @ \ {"revoked"} ELSE @]
      BY <2>2 DEF CheckReadFlag
    <3>2. request'[r].barred =
                IF lost THEN request[r].barred \ {"revoked"} ELSE request[r].barred
      BY <3>1, <1>a DEF SessionTypeOK, RequestOK, Work
    <3>3. lost \/ ~(redis.flag \/ Local(r).flag)
      BY <3>1, <1>a DEF Get, Store
    <3> QED  BY <3>2, <3>3
  <2>3. CASE Finish(r)
    BY <2>3 DEF Finish, SessionTypeOK, RequestOK
  <2> QED  BY <2>1, <2>2, <2>3
<1>2. request'[r] = Idle \/ "revoked" \notin request'[r].barred
                         \/ request'[r].at = "drop_token"
  BY <1>1 DEF BarsStand, Local, Proc
<1>3. request'[r] = Idle \/ request'[r].at \notin Issuing
  <2>1. Moved(r) /\ request[r].at = "read_flag"
    BY ServeMoves DEF ServeStep, RefreshReadFlag, CheckReadFlag, IsAt
  <2> QED  BY <2>1 DEF Moved, Moves, Follows, Issuing
<1>4. request'[r].at = "drop_token" => Past(request'[r])
  BY DEF Past, Issuing
<1> QED  BY <1>2, <1>3, <1>4 DEF Past

\* A refresh that reads an inactive account in the database gives up.
LEMMA AccountStops ==
    ASSUME SessionTypeOK, BarsStand, BarredIsStopped, NEW r \in Request,
           RefreshReadAccount(r)
    PROVE  request'[r] = Idle \/ Past(request'[r])
<1>1. PICK lost \in BOOLEAN :
        request' = [request EXCEPT
               ![r].at = IF lost \/ account = "active"
                         THEN "store_token" ELSE "drop_token",
               ![r].barred = IF lost THEN @ \ {"inactive"} ELSE @]
  BY DEF RefreshReadAccount
<1>2. /\ request'[r].at = (IF lost \/ account = "active"
                            THEN "store_token" ELSE "drop_token")
      /\ request'[r].barred =
                IF lost THEN request[r].barred \ {"inactive"} ELSE request[r].barred
      /\ request'[r].kind = request[r].kind
  BY <1>1 DEF SessionTypeOK, RequestOK, Work
<1>3. Past(request[r]) /\ request[r].at = "read_account" /\ request[r].kind = "refresh"
  BY DEF BarredIsStopped, RefreshReadAccount, IsAt
<1>4. "revoked" \notin request'[r].barred
  BY <1>2, <1>3 DEF Past
<1>5. request'[r].at # "drop_token" => "inactive" \notin request'[r].barred
  BY <1>2 DEF BarsStand
<1> QED  BY <1>2, <1>4, <1>5 DEF Past, Issuing

\* A barred request does not get past the check that is to stop it.
LEMMA StopStep ==
    ASSUME SessionTypeOK, SessionTypeOK', OnPath, BarsStand, BarredIsStopped,
           SessionNext
    PROVE  BarredIsStopped'
<1>a. \A q \in Request : Past(request[q]) /\ StaysOnPath(request[q])
  BY DEF BarredIsStopped, OnPath
<1>b. Past(Idle)
  BY DEF Past, Idle, Issuing
<1>c. ASSUME NEW q, NEW s, Leaves(q, s), Past(q) PROVE Past(s)
  BY <1>c DEF Leaves, Same, Past
<1>1. ASSUME NEW r \in Request, Begin(r) PROVE BarredIsStopped'
  <2>1. PICK kind \in Kind \ {"none"} :
             /\ request'[r].kind = kind /\ request'[r].at = Entry(kind)
             /\ \A q \in Request \ {r} : request'[q] = request[q]
    BY <1>1, BeginRecord DEF SessionTypeOK, RequestOK
  <2>2. Past(request'[r])
    BY <2>1 DEF Past, Entry, Kind, Administration, Issuing
  <2> QED  BY <2>1, <2>2, <1>a DEF BarredIsStopped
<1>2. ASSUME NEW r \in Request, ServeStep(r) \/ EditStep(r) PROVE BarredIsStopped'
  <2>1. Moved(r)
    BY <1>2, ServeMoves, EditMoves
  <2>2. CASE RefreshReadFlag(r) \/ CheckReadFlag(r) \/ RefreshReadAccount(r)
    BY <2>1, <2>2, <1>a, <1>b, <1>c, FlagStops, AccountStops DEF BarredIsStopped, Moved
  <2>3. CASE ~(RefreshReadFlag(r) \/ CheckReadFlag(r) \/ RefreshReadAccount(r))
    <3>1. request[r].at # "read_flag"
            /\ (request[r].at = "read_account" => request[r].kind # "refresh")
      BY <2>3, <1>2 DEF ServeStep, EditStep, IsAt,
      LoginReadAccount, LoginClearRevocation, LoginGuardRole, StoreToken, ReadIndex,
      WriteIndex, RefreshReadGrace, RefreshReadToken,
      RefreshDropToken, RefreshStoreGrace, RefreshRemoveOld,
      CheckReadProfile, CheckReadAccount, CheckStoreProfile, CheckAnswer,
      LogoutRemoveToken, LogoutRemoveGrace, RevokeListTokens, RevokePurgeToken,
      RevokePurgeGrace, RevokeDropIndex, SetFlag, ClearFlag, RefreshList,
      EditAccount, EditFails, FinishEdit
    <3>2. ASSUME Moves(request[r], request'[r]) PROVE Past(request'[r])
      <4>1. /\ request'[r].kind = request[r].kind
            /\ request'[r].barred \subseteq request[r].barred
            /\ Follows(request[r].kind, request[r].at, request'[r].at)
        BY <3>2 DEF Moves, Same
      <4>2. Past(request[r]) /\ StaysOnPath(request[r])
        BY <1>a
      <4> QED  BY <3>1, <4>1, <4>2 DEF Past, Follows, StaysOnPath, Issuing
    <3> QED  BY <2>1, <3>2, <1>a, <1>b, <1>c DEF BarredIsStopped, Moved
  <2> QED  BY <2>2, <2>3
<1>3. CASE ExpireStep
  BY <1>3, <1>a, <1>c, ExpireLeaves DEF BarredIsStopped
<1> QED  BY <1>1, <1>2, <1>3 DEF SessionNext

\* The inductive invariant of revocation and deactivation.
BarInv == SessionInv /\ BarsStand /\ BarredIsStopped

\* Both are invariants of the sessions.
LEMMA BarInvariant == SessionSpec => []BarInv
<1>1. SessionInit => BarInv
  <2>1. Past(Idle) /\ Idle.barred = {}
    BY DEF Past, Idle, Issuing
  <2> QED  BY <2>1, InvInitially DEF BarInv, SessionInit, BarsStand, BarredIsStopped
<1>2. BarInv /\ [SessionNext]_sessionVars => BarInv'
  <2> SUFFICES ASSUME BarInv, [SessionNext]_sessionVars PROVE BarInv'
    OBVIOUS
  <2>1. SessionInv'
    BY InvStep DEF BarInv
  <2>2. CASE SessionNext
    BY <2>1, <2>2, BarsStep, StopStep DEF BarInv, SessionInv
  <2>3. CASE UNCHANGED sessionVars
    BY <2>1, <2>3 DEF BarInv, BarsStand, BarredIsStopped, sessionVars, storeVars
  <2> QED  BY <2>2, <2>3
<1> QED  BY <1>1, <1>2, PTL DEF SessionSpec

\* Nobody whom the revocation flag met is let in or renewed while it stands:
\* get_current_user and refresh_session_async read it before they grant.
THEOREM RevocationHoldsCorrect == SessionSpec => []RevocationHolds
<1>1. BarInv => RevocationHolds
  BY DEF BarInv, BarredIsStopped, Past, RevocationHolds, IsAt
<1> QED  BY <1>1, BarInvariant, PTL

\* A refresh that met a deactivated account is not renewed.
THEOREM InactiveIsNotRenewedCorrect == SessionSpec => []InactiveIsNotRenewed
<1>1. BarInv => InactiveIsNotRenewed
  BY DEF BarInv, BarredIsStopped, Past, InactiveIsNotRenewed
<1> QED  BY <1>1, BarInvariant, PTL

-----------------------------------------------------------------------------
(***************************************************************************)
(* Rotation.  Only one request at a time holds a token of a sign-in that   *)
(* is not disturbed, and the tokens of the sign-in that are live are the   *)
(* one it presents and the one it issues.                                  *)
(***************************************************************************)
Presented == {"read_flag", "read_account", "store_token", "drop_token"}
\* and where the new one may be.
Rotation  == {"read_index", "write_index", "store_grace", "remove_old"}

\* A request presents a token of sign-in f.
Uses(q, f) == q.token # None /\ family[q.token] = f
\* The tokens of sign-in f that are good for a refresh.
Live(f)    == {t \in redis.live : family[t] = f}

\* Two requests present tokens of one sign-in only if it is disturbed.
SoleUser ==
    \A q, r \in Request :
        /\ q # r /\ request[q].token # None /\ request[r].token # None
        /\ family[request[q].token] = family[request[r].token]
        => family[request[q].token] \in disturbed

\* The live tokens of a sign-in, as far as the request at work on it has got.
OneLive(f) ==
    /\ \A r \in Request : Uses(request[r], f) /\ request[r].at \in Presented
           => Live(f) \subseteq {request[r].token}
    /\ \A r \in Request : Uses(request[r], f) /\ request[r].at \in Rotation
           => Live(f) \subseteq {request[r].token, request[r].new}
    /\ (\A r \in Request : Uses(request[r], f) => request[r].at \notin Rotation)
           => \A t, u \in Live(f) : t = u

\* That holds of every sign-in nobody has disturbed.
Rotates == \A f \in Token \ disturbed : OneLive(f)

\* A step that makes no token live.
Fewer ==
    /\ redis'.live \subseteq redis.live /\ family' = family
    /\ disturbed \subseteq disturbed'

\* Nothing but the issue of a token makes a token live.
LEMMA FewerStep ==
    ASSUME SessionTypeOK, SessionNext, \A r \in Request : ~StoreToken(r)
    PROVE  Fewer
<1>1. CASE KeysShrink
  BY <1>1 DEF KeysShrink, Shrinks, Fewer
<1>2. ASSUME NEW r \in Request, WriteIndex(r) PROVE Fewer
  <2> DEFINE list == Newest(Append(request[r].list, request[r].new))
  <2>1. PICK lost \in BOOLEAN :
        redis' = [redis EXCEPT !.index = IF lost THEN @ ELSE list]
    BY <1>2 DEF WriteIndex
  <2> HIDE DEF list
  <2>2. redis'.live = redis.live
    BY <2>1 DEF SessionTypeOK, Store
  <2> QED  BY <1>2, <2>2 DEF WriteIndex, Fewer
<1> QED  BY <1>1, <1>2, ServeShrinks, OthersShrink DEF SessionNext

\* A request keeps the token it brought.
LEMMA TokensStay ==
    ASSUME SessionTypeOK, SessionNext, \A r \in Request : ~Begin(r)
    PROVE  \A q \in Request : \/ request'[q].token = None
                              \/ request'[q].token = request[q].token
<1>1. Idle.token = None
  BY DEF Idle
<1> QED
  BY <1>1, ServeMoves, EditMoves, ExpireLeaves
  DEF SessionNext, Moved, Moves, Leaves, Same

\* While a sign-in is undisturbed, one request at a time carries its token.
LEMMA SoleUserStep ==
    ASSUME SessionTypeOK, TokensAreIssued, OnPath, SoleUser, SessionNext
    PROVE  SoleUser'
<1>1. ASSUME NEW r \in Request, Begin(r) PROVE SoleUser'
  <2>1. PICK kind \in mix.kinds, p \in mix.processes, t \in 0..issued :
          /\ (t # None) <=> (kind \in UsesToken)
          /\ request' = [request EXCEPT ![r] =
                          [Idle EXCEPT !.kind = kind, !.at = Entry(kind),
                                       !.p = p, !.token = t,
                                       !.barred = Reasons(p)]]
          /\ disturbed' = IF \E q \in Others(r) : /\ t # None
                                                  /\ request[q].token # None
                                                  /\ family[request[q].token] = family[t]
                          THEN disturbed \cup {family[t]} ELSE disturbed
    BY <1>1 DEF Begin
  <2>2. request'[r].token = t /\ family' = family
    BY <1>1, <2>1 DEF Begin, SessionTypeOK, RequestOK, Idle
  <2>3. \A q \in Request \ {r} : request'[q] = request[q]
    BY <2>1 DEF SessionTypeOK, RequestOK
  <2>4. disturbed \subseteq disturbed'
    BY <2>1
  <2>5. ASSUME NEW q \in Request \ {r}, request[q].token # None, t # None,
               family[request[q].token] = family[t]
        PROVE  family[t] \in disturbed'
    <3>1. CASE request[q].kind # "none"
      BY <2>1, <2>5, <3>1 DEF Others
    <3>2. CASE request[q].kind = "none"
      BY <2>5, <3>2 DEF OnPath, StaysOnPath, UsesToken
    <3> QED  BY <3>1, <3>2
  <2> QED  BY <2>2, <2>3, <2>4, <2>5 DEF SoleUser
<1>2. CASE \A r \in Request : ~Begin(r)
  <2>1. \A q \in Request : \/ request'[q].token = None
                           \/ request'[q].token = request[q].token
    BY <1>2, TokensStay
  <2>2. disturbed \subseteq disturbed'
    BY FewerStep DEF Fewer, StoreToken
  <2>3. \A q \in Request : request[q].token # None
            => family'[request[q].token] = family[request[q].token]
    <3>1. ASSUME NEW r \in Request, StoreToken(r), NEW q \in Request,
                 request[q].token # None
          PROVE  family'[request[q].token] = family[request[q].token]
      <4>1. request[q].token \in Issued /\ request[q].token \in Token
        BY <3>1 DEF TokensAreIssued, SessionTypeOK, RequestOK, Work
      <4>2. request[q].token # issued + 1
        BY <4>1, SessionAssumption DEF Issued, SessionTypeOK
      <4> QED  BY <3>1, <4>1, <4>2 DEF StoreToken, SessionTypeOK
    <3> QED  BY <3>1, FewerStep DEF Fewer
  <2> QED  BY <2>1, <2>2, <2>3 DEF SoleUser
<1> QED  BY <1>1, <1>2

\* A request that issues goes on to delete the token it replaces.
LEMMA RotationGoesOn ==
    ASSUME SessionTypeOK, OnPath, NEW r \in Request, ServeStep(r),
           request[r].at \in Rotation, request[r].token # None, ~RefreshRemoveOld(r)
    PROVE  /\ request'[r].at \in Rotation
           /\ request'[r].token = request[r].token /\ request'[r].new = request[r].new
<1>a. request[r] \in Work /\ request[r].kind = "refresh"
  BY DEF SessionTypeOK, RequestOK, OnPath, StaysOnPath, Rotation, UsesToken
<1>1. CASE request[r].at = "read_index"
  <2>1. PICK l : request' = [request EXCEPT ![r].at = "write_index", ![r].list = l]
    BY <1>1, StepAt DEF IsAt, ReadIndex
  <2> QED  BY <2>1, <1>a DEF SessionTypeOK, RequestOK, Work, Rotation
<1>2. CASE request[r].at = "write_index"
  <2>1. GoTo(r, "store_grace")
    BY <1>2, <1>a, StepAt DEF IsAt, WriteIndex
  <2> QED  BY <2>1, <1>a DEF GoTo, SessionTypeOK, RequestOK, Work, Rotation
<1>3. CASE request[r].at = "store_grace"
  <2>1. GoTo(r, "remove_old")
    BY <1>3, <1>a, StepAt DEF IsAt, RefreshStoreGrace
  <2> QED  BY <2>1, <1>a DEF GoTo, SessionTypeOK, RequestOK, Work, Rotation
<1>4. request[r].at # "remove_old"
  BY StepAt DEF IsAt
<1> QED  BY <1>1, <1>2, <1>3, <1>4 DEF Rotation

\* A request comes to present a token only by finding it live.
LEMMA PresentsWhatItFound ==
    ASSUME SessionTypeOK, OnPath, NEW r \in Request, ServeStep(r) \/ EditStep(r),
           request'[r].token # None, request'[r].at \in Presented,
           request[r].at \notin Presented
    PROVE  RefreshReadToken(r) /\ request[r].token \in redis.live
<1>a. request[r] \in Work /\ Idle.token = None
  BY DEF SessionTypeOK, RequestOK, Idle
<1>1. Moves(request[r], request'[r])
  BY <1>a, ServeMoves, EditMoves DEF Moved
<1>2. request[r].kind \in UsesToken
  BY <1>1 DEF Moves, Same, OnPath, StaysOnPath
<1>3. request[r].at = "read_token"
  BY <1>1, <1>2 DEF Moves, Follows, Presented, OnPath, StaysOnPath, UsesToken
<1>4. RefreshReadToken(r)
  BY <1>3, StepAt DEF IsAt
<1>5. ~Finish(r)
  <2>1. CASE Finish(r)
    BY <2>1, <1>a DEF Finish, SessionTypeOK, RequestOK
  <2> QED  BY <2>1
<1> QED  BY <1>4, <1>5 DEF RefreshReadToken

\* Steps that make no token live.
LEMMA RotatesWhenFewer ==
    ASSUME SessionTypeOK, SessionTypeOK', TokensAreIssued, OnPath, SoleUser, Rotates,
           SessionNext, \A r \in Request : ~StoreToken(r)
    PROVE  Rotates'
<1> SUFFICES ASSUME NEW f \in Token \ disturbed' PROVE OneLive(f)'
  BY DEF Rotates
<1>a. Fewer /\ f \in Token \ disturbed /\ OneLive(f)
  BY FewerStep DEF Fewer, Rotates
<1>b. Live(f)' \subseteq Live(f)
  BY <1>a DEF Live, Fewer
<1>c. \A q \in Request : Uses(request[q], f)' <=> /\ request'[q].token # None
                                                  /\ family[request'[q].token] = f
  BY <1>a DEF Uses, Fewer
<1>d. ASSUME NEW q \in Request, Leaves(request[q], request'[q])
      PROVE  /\ request'[q].token = request[q].token /\ request'[q].at = request[q].at
             /\ request'[q].new = request[q].new
             /\ Uses(request[q], f)' <=> Uses(request[q], f)
  BY <1>c, <1>d DEF Leaves, Same, Uses
<1> DEFINE A(q) == Uses(request[q], f)' /\ request'[q].at \in Presented =>
                       \/ /\ Uses(request[q], f) /\ request[q].at \in Presented
                          /\ request'[q].token = request[q].token
                       \/ Live(f)' \subseteq {request'[q].token}
           B(q) == Uses(request[q], f)' /\ request'[q].at \in Rotation =>
                       /\ Uses(request[q], f) /\ request[q].at \in Rotation
                       /\ request'[q].token = request[q].token
                       /\ request'[q].new = request[q].new
           C(q) == Uses(request[q], f) /\ request[q].at \in Rotation =>
                       \/ Uses(request[q], f)' /\ request'[q].at \in Rotation
                       \/ \A t, u \in Live(f)' : t = u
<1>1. ASSUME \A q \in Request : A(q) /\ B(q) /\ C(q)
      PROVE  OneLive(f)'
  <2>1. ASSUME NEW r \in Request, Uses(request[r], f)', request'[r].at \in Presented
        PROVE  Live(f)' \subseteq {request'[r].token}
    BY <2>1, <1>1, <1>a, <1>b DEF OneLive
  <2>2. ASSUME NEW r \in Request, Uses(request[r], f)', request'[r].at \in Rotation
        PROVE  Live(f)' \subseteq {request'[r].token, request'[r].new}
    BY <2>2, <1>1, <1>a, <1>b DEF OneLive
  <2>3. ASSUME \A r \in Request : Uses(request[r], f)' => request'[r].at \notin Rotation
        PROVE  \A t, u \in Live(f)' : t = u
    BY <2>3, <1>1, <1>a, <1>b DEF OneLive
  <2> QED  BY <2>1, <2>2, <2>3 DEF OneLive
<1>2. ASSUME NEW q \in Request, Leaves(request[q], request'[q]) PROVE A(q) /\ B(q) /\ C(q)
  BY <1>2, <1>d
<1>3. ASSUME NEW r \in Request, Begin(r) PROVE OneLive(f)'
  <2>1. PICK kind \in Kind \ {"none"}, t \in 0..issued :
             /\ (t # None) <=> (kind \in UsesToken)
             /\ request[r] = Idle
             /\ request'[r].at = Entry(kind) /\ request'[r].token = t
             /\ \A q \in Request \ {r} : request'[q] = request[q]
    BY <1>3, BeginRecord DEF SessionTypeOK, RequestOK
  <2>2. A(r) /\ B(r) /\ C(r)
    BY <2>1, <1>c DEF Uses, Idle, UsesToken, Entry, Presented, Rotation
  <2>3. \A q \in Request \ {r} : Leaves(request[q], request'[q])
    BY <2>1 DEF Leaves, Same
  <2> QED  BY <2>2, <2>3, <1>1, <1>2
<1>4. ASSUME NEW r \in Request, ServeStep(r) \/ EditStep(r) PROVE OneLive(f)'
  <2>1. Moved(r)
    BY <1>4, ServeMoves, EditMoves
  <2>2. ASSUME Uses(request[r], f)'
        PROVE  /\ Moves(request[r], request'[r])
               /\ request'[r].token = request[r].token /\ Uses(request[r], f)
    BY <2>1, <2>2, <1>c DEF Moved, Moves, Same, Idle, Uses
  <2>3. A(r)
    <3> SUFFICES ASSUME Uses(request[r], f)', request'[r].at \in Presented,
                        request[r].at \notin Presented
                 PROVE  Live(f)' \subseteq {request'[r].token}
      BY <2>2
    <3>1. RefreshReadToken(r) /\ request[r].token \in redis.live
      BY <1>4, <1>c, PresentsWhatItFound
    <3>2. request[r].token \in Live(f) /\ request[r].at = "read_token"
      BY <3>1, <2>2 DEF Live, Uses, RefreshReadToken, IsAt
    <3>3. \A q \in Request : Uses(request[q], f) => q = r
      BY <2>2, <1>a DEF SoleUser, Uses
    <3>4. \A t, u \in Live(f) : t = u
      BY <3>2, <3>3, <1>a DEF OneLive, Rotation
    <3> QED  BY <3>2, <3>4, <2>2, <1>b
  <2>4. B(r)
    <3>1. request[r].at # "store_token"
      BY <1>4, StepAt DEF IsAt
    <3> QED  BY <2>2, <3>1 DEF Moves, Follows, Rotation
  <2>5. C(r)
    <3> SUFFICES ASSUME Uses(request[r], f), request[r].at \in Rotation
                 PROVE  \/ Uses(request[r], f)' /\ request'[r].at \in Rotation
                        \/ \A t, u \in Live(f)' : t = u
      OBVIOUS
    <3>1. ServeStep(r)
      BY <1>4 DEF EditStep, EditAccount, EditFails, FinishEdit, IsAt, Rotation
    <3>2. CASE RefreshRemoveOld(r)
      <4>1. PICK lost \in BOOLEAN :
            /\ redis' = [redis EXCEPT !.live = IF lost THEN @ ELSE @ \ {request[r].token}]
            /\ disturbed' = IF lost THEN disturbed \cup {family[request[r].token]}
                            ELSE disturbed
        BY <3>2 DEF RefreshRemoveOld, DeleteToken
      <4>2. ~lost
        BY <4>1 DEF Uses
      <4>3. redis'.live = redis.live \ {request[r].token}
        BY <4>1, <4>2 DEF SessionTypeOK, Store
      <4>4. Live(f)' \subseteq Live(f) \ {request[r].token}
        BY <4>3, <1>a DEF Live, Fewer
      <4>5. Live(f) \subseteq {request[r].token, request[r].new}
        BY <1>a DEF OneLive
      <4> QED  BY <4>4, <4>5
    <3>3. CASE ~RefreshRemoveOld(r)
      BY <3>1, <3>3, <1>c, RotationGoesOn DEF Uses
    <3> QED  BY <3>2, <3>3
  <2>6. \A q \in Request \ {r} : Leaves(request[q], request'[q])
    BY <2>1 DEF Moved
  <2> QED  BY <2>3, <2>4, <2>5, <2>6, <1>1, <1>2
<1>5. CASE ExpireStep
  <2>1. \A q \in Request : Leaves(request[q], request'[q])
    BY <1>5, ExpireLeaves
  <2> QED  BY <2>1, <1>1, <1>2
<1> QED  BY <1>3, <1>4, <1>5 DEF SessionNext

\* The issue of a token.
LEMMA RotatesWhenStored ==
    ASSUME SessionTypeOK, SessionTypeOK', TokensAreIssued, OnPath, SoleUser, Rotates,
           NEW r \in Request, StoreToken(r)
    PROVE  Rotates'
<1> SUFFICES ASSUME NEW f \in Token \ disturbed' PROVE OneLive(f)'
  BY DEF Rotates
<1> DEFINE new == issued + 1
<1>a. /\ request[r] \in Work /\ issued \in Nat /\ new \in Token /\ new \notin Issued
      /\ \A q \in Request : request[q].token \in Issued \cup {None}
                              /\ request[q].token # new
      /\ new # None
  BY SessionAssumption
  DEF SessionTypeOK, RequestOK, StoreToken, Issued, Token, TokensAreIssued, None
<1>b. f \in Token \ disturbed /\ OneLive(f)
  BY DEF StoreToken, Rotates
<1>c. /\ request'[r].at = "read_index" /\ request'[r].new = new
      /\ request'[r].token = request[r].token
      /\ \A q \in Request \ {r} : request'[q] = request[q]
  BY <1>a DEF StoreToken, SessionTypeOK, RequestOK, Work
<1>d. redis'.live \subseteq redis.live \cup {new}
  BY DEF StoreToken, SessionTypeOK, Store
<1>e. /\ \A t \in Token \ {new} : family'[t] = family[t]
      /\ family'[new] = IF request[r].token = None THEN new
                        ELSE family[request[r].token]
  BY <1>a DEF StoreToken, SessionTypeOK
<1>h. \A t \in Issued : t \in Token \ {new} /\ family[t] \in Issued
  <2>1. Issued \subseteq Token
    BY SessionAssumption DEF Issued, Token, SessionTypeOK
  <2> QED  BY <2>1, <1>a DEF TokensAreIssued
<1> HIDE DEF new
<1>f. \A q \in Request : Uses(request[q], f)' <=> Uses(request[q], f)
  BY <1>a, <1>c, <1>e, <1>h DEF Uses
<1>g. redis.live \subseteq Issued /\ redis.live \subseteq Token \ {new}
  BY <1>a DEF TokensAreIssued, SessionTypeOK, Store
<1>1. CASE Uses(request[r], f)
  <2>1. \A q \in Request : Uses(request[q], f) => q = r
    BY <1>1, <1>b DEF SoleUser, Uses
  <2>2. Live(f) \subseteq {request[r].token}
    BY <1>1, <1>b DEF OneLive, Presented, StoreToken, IsAt
  <2>3. Live(f)' \subseteq {request[r].token, new}
    BY <2>2, <1>d, <1>e, <1>g DEF Live
  <2> QED  BY <2>1, <2>3, <1>1, <1>c, <1>f DEF OneLive, Presented, Rotation
<1>2. CASE ~Uses(request[r], f)
  <2>1. CASE f = new
    <3>1. ASSUME NEW t \in redis.live PROVE family[t] # f
      BY <2>1, <1>a, <1>g, <1>h
    <3>2. Live(f)' \subseteq {new}
      BY <3>1, <1>d, <1>e, <1>g DEF Live
    <3>3. \A q \in Request : ~Uses(request[q], f)
      BY <2>1, <1>a, <1>h DEF Uses
    <3> QED  BY <3>2, <3>3, <1>f DEF OneLive
  <2>2. CASE f # new
    <3>1. Live(f)' \subseteq Live(f)
      BY <2>2, <1>2, <1>d, <1>e, <1>g DEF Live, Uses
    <3> QED  BY <3>1, <1>2, <1>b, <1>c, <1>f DEF OneLive
  <2> QED  BY <2>1, <2>2
<1> QED  BY <1>1, <1>2

\* The inductive invariant of rotation.
RotationInv == SessionInv /\ SoleUser /\ Rotates

\* Rotation leaves one live token of a sign-in: refresh_session_async deletes
\* the token it replaces before it ends.
THEOREM OneTokenPerSignInCorrect == SessionSpec => []OneTokenPerSignIn
<1>1. SessionInit => RotationInv
  <2>1. Idle.token = None
    BY DEF Idle
  <2>2. SessionInit => redis.live = {}
    BY DEF SessionInit, Empty
  <2> QED
    BY <2>1, <2>2, InvInitially
    DEF RotationInv, SessionInit, SoleUser, Rotates, OneLive, Live, Uses
<1>2. RotationInv /\ [SessionNext]_sessionVars => RotationInv'
  <2> SUFFICES ASSUME RotationInv, [SessionNext]_sessionVars PROVE RotationInv'
    OBVIOUS
  <2>1. SessionInv'
    BY InvStep DEF RotationInv
  <2>2. CASE SessionNext
    BY <2>1, <2>2, SoleUserStep, RotatesWhenFewer, RotatesWhenStored
    DEF RotationInv, SessionInv
  <2>3. CASE UNCHANGED sessionVars
    BY <2>1, <2>3 DEF RotationInv, SoleUser, Rotates, OneLive, Live, Uses,
                      sessionVars, storeVars, historyVars
  <2> QED  BY <2>2, <2>3
<1>3. RotationInv => OneTokenPerSignIn
  <2> SUFFICES ASSUME RotationInv, NEW f \in Token \ disturbed, ~Rotating(f)
               PROVE  \A t, u \in redis.live : family[t] = f /\ family[u] = f => t = u
    BY DEF OneTokenPerSignIn
  <2>1. OneLive(f)
    BY DEF RotationInv, Rotates
  <2>2. \A r \in Request : Uses(request[r], f) => request[r].at \notin Rotation
    BY DEF Rotating, Uses, RotationInv, SessionInv, OnPath, StaysOnPath, Rotation,
           UsesToken
  <2> QED  BY <2>1, <2>2 DEF OneLive, Live
<1> QED  BY <1>1, <1>2, <1>3, PTL DEF SessionSpec

-----------------------------------------------------------------------------
(***************************************************************************)
(* The index of a user's tokens is complete.                               *)
(***************************************************************************)
\* A request that revokes all tokens, with the list it has read;
Purging == {"purge_token", "purge_grace", "drop_index"}
\* a request whose new token is not in the index yet;
Pending(q) == q.at \in {"read_index", "write_index"}
\* a request that has read the index and will write or drop it.
Busy(q)    == q.at \in Indexing

\* A list without repetition.
Distinct(l) == \A i, j \in 1..Len(l) : l[i] = l[j] => i = j

\* What a request at work on the index knows of it.
Sound(q) ==
    /\ Pending(q) => q.new \notin In(redis.index)
    /\ q.at = "write_index" => Distinct(q.list) /\ In(redis.index) \subseteq In(q.list)
    /\ q.at \in Purging => redis.live \cap In(redis.index) \subseteq In(q.list)
    /\ q.at = "purge_grace" => Head(q.list) \notin redis.live

\* All requests at work on the index are sound.
AllSound == \A q \in Request : Sound(request[q])

\* A request answers for a token that is not in the index.
Covers(q, t) ==
    \/ q.new = t /\ Pending(q)
    \/ q.at \in Purging /\ t \in In(q.list)

\* Every live token is in the index or somebody answers for it.
Covered ==
    \A t \in redis.live : \/ t \in In(redis.index)
                          \/ \E q \in Request : Covers(request[q], t)

\* One request at a time has read the index and not yet written it.
OneBusy == \A q, r \in Request : Busy(request[q]) /\ Busy(request[r]) => q = r

\* Two requests never carry one new token,
NewApart == \A q, r \in Request : Pending(request[q]) /\ Pending(request[r])
                                    /\ request[q].new = request[r].new => q = r

\* nor is one's new token in a list another has read.
NewUnread == \A q, r \in Request : Pending(request[q]) /\ request[r].at = "write_index"
                                     => request[q].new \notin In(request[r].list)

\* As long as no write of the index failed, only Redis has one.
NoneInMemory == \A p \in Process : memory[p].index = <<>>

\* No two updates of the index met, none failed, and it has room for all.
Orderly == ~torn /\ issued <= IndexLimit

\* The invariant of the index while its updates are orderly.
IndexOK ==
    /\ NoneInMemory /\ OneBusy /\ NewApart /\ NewUnread /\ Distinct(redis.index)
    /\ AllSound /\ Covered

\* The first n numbers are n.
LEMMA UpTo ==
    ASSUME NEW n \in Nat
    PROVE  IsFiniteSet(1..n) /\ Cardinality(1..n) = n
<1>1. /\ IsFiniteSet(1..n)
      /\ Cardinality(1..n) = IF 1 > n THEN 0 ELSE n - 1 + 1
  BY FS_Interval
<1> QED  BY <1>1

\* A list of other tokens than the new one leaves room for it.
LEMMA RoomForOne ==
    ASSUME SessionTypeOK, NEW l \in Seq(Token), Distinct(l), In(l) \subseteq Issued,
           NEW t \in Issued, t \notin In(l)
    PROVE  Len(l) + 1 <= issued
<1> DEFINE S == Issued \ {t}
<1>1. issued \in Nat /\ IsFiniteSet(Issued) /\ Cardinality(Issued) = issued
  <2>1. issued \in Nat
    BY SessionAssumption DEF SessionTypeOK
  <2> QED  BY <2>1, UpTo DEF Issued
<1>2. IsFiniteSet(S) /\ Cardinality(S) = issued - 1
  BY <1>1, FS_RemoveElement
<1>3. Len(l) \in Nat /\ IsFiniteSet(1..Len(l)) /\ Cardinality(1..Len(l)) = Len(l)
  BY UpTo
<1>4. l \in [1..Len(l) -> S]
  BY DEF In
<1> HIDE DEF S
<1>5. ~(issued - 1 < Len(l))
  BY <1>2, <1>3, <1>4, FS_PigeonHole DEF Distinct
<1> QED  BY <1>1, <1>3, <1>5

\* The new list when there is room.
LEMMA WrittenList ==
    ASSUME SessionTypeOK, NEW l \in Seq(Token), Distinct(l), In(l) \subseteq Issued,
           NEW t \in Issued, t \in Token, t \notin In(l), issued <= IndexLimit
    PROVE  /\ In(Newest(Append(l, t))) = In(l) \cup {t}
           /\ Distinct(Newest(Append(l, t)))
<1>1. Len(l) + 1 <= issued
  BY RoomForOne
<1>2. /\ Append(l, t) \in Seq(Token) /\ Len(Append(l, t)) = Len(l) + 1
      /\ Append(l, t)[Len(l) + 1] = t
      /\ \A i \in 1..Len(l) : Append(l, t)[i] = l[i]
  OBVIOUS
<1>3. Newest(Append(l, t)) = Append(l, t)
  <2>1. issued \in Nat /\ Len(Append(l, t)) <= IndexLimit
    BY <1>1, <1>2, SessionAssumption DEF SessionTypeOK
  <2> QED  BY <2>1, <1>2, NewestFacts
<1>4. Distinct(Append(l, t))
  <2>1. \A i \in 1..(Len(l) + 1) : i \in 1..Len(l) \/ i = Len(l) + 1
    OBVIOUS
  <2>2. \A i \in 1..Len(l) : l[i] # t
    BY DEF In
  <2> QED  BY <1>2, <2>1, <2>2 DEF Distinct
<1> QED  BY <1>3, <1>4, InFacts

-----------------------------------------------------------------------------
(***************************************************************************)
(* Steps that leave the index alone.                                       *)
(***************************************************************************)
AtIndex == {"store_token", "read_index", "write_index", "list_tokens"} \cup Purging

\* A step that leaves the index, or has no live token to list.
IndexStays == redis'.index = redis.index \/ redis.live = {}

\* Deleting a token or a grace key does not touch the index.
LEMMA DeleteLeavesIndex ==
    ASSUME SessionTypeOK, NEW r \in Request, NEW t, DeleteToken(r, t) \/ DeleteGrace(r, t)
    PROVE  redis'.index = redis.index
<1>1. CASE DeleteToken(r, t)
  <2>1. PICK lost \in BOOLEAN :
        redis' = [redis EXCEPT !.live = IF lost THEN @ ELSE @ \ {t}]
    BY <1>1 DEF DeleteToken
  <2> QED  BY <2>1 DEF SessionTypeOK, Store
<1>2. CASE DeleteGrace(r, t)
  <2>1. PICK lost \in BOOLEAN :
        redis' = [redis EXCEPT !.grace[t] = IF lost THEN @ ELSE None]
    BY <1>2 DEF DeleteGrace
  <2> QED  BY <2>1 DEF SessionTypeOK, Store
<1> QED  BY <1>1, <1>2

\* Only the steps at AtIndex touch the index, or may tear it.
LEMMA ServeLeavesIndex ==
    ASSUME SessionTypeOK, NEW r \in Request, ServeStep(r), request[r].at \notin AtIndex
    PROVE  redis'.index = redis.index /\ torn' = torn
<1> USE DEF AtIndex, Purging, IsAt
<1>a. redis \in Store
  BY DEF SessionTypeOK
<1>1. CASE UNCHANGED <<redis, torn>>
  BY <1>1
<1>2. CASE LoginClearRevocation(r) \/ ClearFlag(r)
  <2>1. PICK label : DeleteFlag(r, label) /\ torn' = torn
    BY <1>2 DEF LoginClearRevocation, ClearFlag, historyVars
  <2> QED  BY <2>1, <1>a DEF DeleteFlag, Store
<1>3. CASE RefreshDropToken(r) \/ RefreshRemoveOld(r) \/ LogoutRemoveToken(r)
  BY <1>3, DeleteLeavesIndex DEF RefreshDropToken, RefreshRemoveOld, LogoutRemoveToken
<1>4. CASE LogoutRemoveGrace(r)
  BY <1>4, DeleteLeavesIndex DEF LogoutRemoveGrace, historyVars
<1>5. CASE RefreshStoreGrace(r)
  BY <1>5, <1>a DEF RefreshStoreGrace, historyVars, Store
<1>6. CASE CheckStoreProfile(r)
  BY <1>6, <1>a DEF CheckStoreProfile, historyVars, Store
<1>7. CASE SetFlag(r)
  BY <1>7, <1>a DEF SetFlag, historyVars, Store
<1>8. ~StoreToken(r) /\ ~ReadIndex(r) /\ ~WriteIndex(r) /\ ~RevokeListTokens(r)
        /\ ~RevokePurgeToken(r) /\ ~RevokePurgeGrace(r) /\ ~RevokeDropIndex(r)
  BY DEF StoreToken, ReadIndex, WriteIndex, RevokeListTokens, RevokePurgeToken,
         RevokePurgeGrace, RevokeDropIndex
<1> QED
  BY <1>1, <1>2, <1>3, <1>4, <1>5, <1>6, <1>7, <1>8
  DEF ServeStep, storeVars, boundVars, historyVars,
      LoginReadAccount, LoginGuardRole, RefreshReadGrace, RefreshReadToken,
      RefreshReadFlag, RefreshReadAccount, CheckReadFlag, CheckReadProfile,
      CheckReadAccount, CheckAnswer, RefreshList

\* Requests that are, before and after the step, elsewhere than at the index.
LEMMA QuietStep ==
    ASSUME SessionTypeOK, KeysShrink, IndexStays, IndexOK,
           \A q \in Request : \/ Leaves(request[q], request'[q])
                              \/ request'[q].at \notin AtIndex \ {"store_token", "list_tokens"}
                                   /\ request[q].at \notin AtIndex
    PROVE  IndexOK'
<1>a. /\ redis'.live \subseteq redis.live /\ redis'.index \in {redis.index, <<>>}
      /\ \A p \in Process : memory'[p].index \in {memory[p].index, <<>>}
  BY DEF KeysShrink, Shrinks
<1>b. In(redis'.index) \subseteq In(redis.index)
  BY <1>a DEF In
<1>c. ASSUME NEW q \in Request
      PROVE  /\ Busy(request'[q]) => Busy(request[q])
             /\ Pending(request'[q]) => /\ Pending(request[q])
                                        /\ request'[q].new = request[q].new
             /\ Busy(request[q]) \/ Pending(request[q]) =>
                  Leaves(request[q], request'[q])
  BY DEF Leaves, Same, Busy, Pending, Indexing, AtIndex, Purging
<1>1. NoneInMemory'
  BY <1>a DEF IndexOK, NoneInMemory
<1>2. OneBusy' /\ NewApart'
  BY <1>c DEF IndexOK, OneBusy, NewApart
<1>6. NewUnread'
  BY <1>c DEF IndexOK, NewUnread, Leaves, Same, Busy, Indexing
<1>3. Distinct(redis.index)'
  BY <1>a DEF IndexOK, Distinct
<1>4. ASSUME NEW q \in Request PROVE Sound(request[q])'
  <2>1. CASE Leaves(request[q], request'[q])
    BY <2>1, <1>a, <1>b DEF Leaves, IndexOK, AllSound, Sound, Pending
  <2>2. CASE request'[q].at \notin AtIndex \ {"store_token", "list_tokens"}
    BY <2>2 DEF Sound, Pending, AtIndex, Purging
  <2> QED  BY <2>1, <2>2
<1>5. Covered'
  <2> SUFFICES ASSUME NEW t \in redis'.live
               PROVE  t \in In(redis'.index) \/ \E q \in Request : Covers(request'[q], t)
    BY DEF Covered, Covers, Pending
  <2>1. t \in redis.live /\ redis'.index = redis.index
    BY <1>a DEF IndexStays
  <2>2. ASSUME NEW q \in Request, Covers(request[q], t) PROVE Covers(request'[q], t)
    BY <2>2, <1>c DEF Covers, Leaves, Pending, Busy, Indexing, Purging
  <2> QED  BY <2>1, <2>2 DEF IndexOK, Covered
<1> QED  BY <1>1, <1>2, <1>3, <1>4, <1>5, <1>6 DEF IndexOK, AllSound

-----------------------------------------------------------------------------
(***************************************************************************)
(* The steps at the index.  The request r takes one, the others stay.      *)
(***************************************************************************)
Stay(r) == \A q \in Request \ {r} : request'[q] = request[q]

\* The requests whose step it is not are as sound as they were, if what is
\* listed and live is no more, or is new and theirs neither to list nor to purge.
LEMMA OthersStaySound ==
    ASSUME IndexOK, NEW r \in Request, Stay(r), NEW q \in Request \ {r},
           Pending(request[q]) => request[q].new \notin In(redis'.index),
           request[q].at = "write_index" => In(redis'.index) \subseteq In(request[q].list),
           request[q].at \in Purging =>
               redis'.live \cap In(redis'.index) \subseteq In(request[q].list),
           request[q].at = "purge_grace" => Head(request[q].list) \notin redis'.live
    PROVE  Sound(request[q])'
BY DEF Stay, IndexOK, AllSound, Sound, Pending

\* Nor do they cease to cover a token.
LEMMA OthersCover ==
    ASSUME NEW r \in Request, Stay(r), NEW q \in Request \ {r}, NEW t,
           Covers(request[q], t)
    PROVE  Covers(request'[q], t)
BY DEF Stay

\* A token that was just stored is covered by the request that stored it.
LEMMA StoreKeepsIndex ==
    ASSUME SessionInv, NEW r \in Request, StoreToken(r), IndexOK
    PROVE  IndexOK'
<1> DEFINE new == issued + 1
<1> USE DEF SessionInv
<1>a. issued \in Nat /\ new \notin Issued /\ redis \in Store /\ request[r] \in Work
  BY SessionAssumption DEF SessionTypeOK, RequestOK, Issued
<1>b. /\ redis'.index = redis.index /\ redis'.live \subseteq redis.live \cup {new}
      /\ \A p \in Process : memory'[p].index = memory[p].index
  BY <1>a DEF StoreToken, SessionTypeOK, Store
<1>c. /\ request'[r].at = "read_index" /\ request'[r].new = new /\ Stay(r)
      /\ request[r].at = "store_token"
  BY <1>a DEF StoreToken, Stay, SessionTypeOK, RequestOK, Work, IsAt
<1>d. /\ In(redis.index) \subseteq Issued /\ redis.live \subseteq Issued
      /\ \A q \in Request : request[q].new # new /\ In(request[q].list) \subseteq Issued
  BY <1>a, SessionAssumption DEF TokensAreIssued, None
<1> HIDE DEF new
<1>1. NoneInMemory' /\ OneBusy' /\ Distinct(redis.index)'
  BY <1>b, <1>c DEF IndexOK, NoneInMemory, OneBusy, Distinct, Busy, Indexing, Stay
<1>2. NewApart' /\ NewUnread'
  BY <1>a, <1>c, <1>d DEF IndexOK, NewApart, NewUnread, Pending, Stay
<1>3. Sound(request[r])'
  BY <1>a, <1>b, <1>c, <1>d DEF Sound, Pending, Purging
<1>4. ASSUME NEW q \in Request \ {r} PROVE Sound(request[q])'
  <2>1. Sound(request[q])
    BY DEF IndexOK, AllSound
  <2>2. request[q].at = "purge_grace" => Head(request[q].list) \in Issued
    BY <1>d, InFacts DEF OnPath, StaysOnPath, SessionTypeOK, RequestOK, Work
  <2>3. redis'.live \cap In(redis'.index) \subseteq redis.live \cap In(redis.index)
    BY <1>a, <1>b, <1>d
  <2> QED
    BY <2>1, <2>2, <2>3, <1>a, <1>b, <1>c, OthersStaySound DEF Sound, Pending
<1>5. Covered'
  <2> SUFFICES ASSUME NEW t \in redis'.live
               PROVE  t \in In(redis'.index) \/ \E q \in Request : Covers(request'[q], t)
    BY DEF Covered, Covers, Pending
  <2>1. CASE t = new
    BY <2>1, <1>c DEF Covers, Pending
  <2>2. CASE t \in redis.live
    <3>1. ~Covers(request[r], t)
      BY <1>c DEF Covers, Pending, Purging
    <3> QED  BY <2>2, <3>1, <1>b, <1>c, OthersCover DEF IndexOK, Covered
  <2> QED  BY <2>1, <2>2, <1>b
<1> QED  BY <1>1, <1>2, <1>3, <1>4, <1>5 DEF IndexOK, AllSound

\* What an undisturbed request reads is what Redis holds.
LEMMA ReadsIndex ==
    ASSUME SessionInv, NEW r \in Request, IndexOK
    PROVE  Get(redis.index, Local(r).index, <<>>, FALSE) = redis.index
BY DEF SessionInv, SessionTypeOK, RequestOK, Work, IndexOK, NoneInMemory, Get, Local, Proc

\* A request that reads the index knows all that is in it.
LEMMA ReadKeepsIndex ==
    ASSUME SessionInv, NEW r \in Request, ReadIndex(r), IndexOK, ~torn'
    PROVE  IndexOK'
<1> USE DEF SessionInv
<1>a. request[r] \in Work /\ UNCHANGED <<redis, memory>> /\ ~IndexBusy(r)
  BY DEF ReadIndex, storeVars, SessionTypeOK, RequestOK
<1>b. request' = [request EXCEPT ![r].at = "write_index", ![r].list = redis.index]
  BY ReadsIndex DEF ReadIndex
<1>c. /\ request'[r].at = "write_index" /\ request'[r].list = redis.index
      /\ request'[r].new = request[r].new /\ Stay(r) /\ request[r].at = "read_index"
  BY <1>a, <1>b DEF ReadIndex, Stay, SessionTypeOK, RequestOK, Work, IsAt
<1>d. \A q \in Request \ {r} : ~Busy(request[q])
  BY <1>a DEF IndexBusy, Others, Busy, OnPath, StaysOnPath, Indexing
<1>1. NoneInMemory' /\ OneBusy' /\ NewApart' /\ Distinct(redis.index)'
  BY <1>a, <1>c, <1>d
  DEF IndexOK, NoneInMemory, OneBusy, NewApart, Distinct, Pending, Stay
<1>5. NewUnread'
  BY <1>c, <1>d DEF IndexOK, NewUnread, AllSound, Sound, Pending, Busy, Indexing, Stay
<1>2. Sound(request[r])'
  BY <1>a, <1>c DEF IndexOK, AllSound, Sound, Pending, Purging
<1>3. ASSUME NEW q \in Request \ {r} PROVE Sound(request[q])'
  BY <1>a, <1>c DEF Stay, IndexOK, AllSound, Sound, Pending
<1>4. Covered'
  BY <1>a, <1>c DEF IndexOK, Covered, Covers, Pending, Purging, Stay
<1> QED  BY <1>1, <1>2, <1>3, <1>4, <1>5 DEF IndexOK, AllSound

\* A request that writes the index drops nothing and adds its own token.
LEMMA WriteKeepsIndex ==
    ASSUME SessionInv, NEW r \in Request, WriteIndex(r), IndexOK, ~torn',
           issued <= IndexLimit
    PROVE  IndexOK'
<1> USE DEF SessionInv
<1> DEFINE list == Newest(Append(request[r].list, request[r].new))
<1>a. /\ request[r] \in Work /\ redis \in Store /\ request[r].at = "write_index"
      /\ request[r].list \in Seq(Token)
  BY DEF WriteIndex, SessionTypeOK, RequestOK, IsAt, Work
<1>b. redis' = [redis EXCEPT !.index = list] /\ memory' = memory
  <2>1. PICK lost \in BOOLEAN :
            /\ redis' = [redis EXCEPT !.index = IF lost THEN @ ELSE list]
            /\ memory' = [memory EXCEPT ![Proc(r)].index = IF lost THEN list ELSE @]
            /\ torn' = (torn \/ lost)
    BY DEF WriteIndex
  <2>2. ~lost
    BY <2>1
  <2> HIDE DEF list
  <2> QED  BY <2>1, <2>2 DEF SessionTypeOK, Store
<1>c. Sound(request[r]) /\ Busy(request[r]) /\ Pending(request[r])
  BY <1>a DEF IndexOK, AllSound, Busy, Pending, Indexing
<1>d. /\ request[r].new \in Issued /\ request[r].new \in Token
      /\ In(request[r].list) \subseteq Issued
  BY <1>a DEF TokensAreIssued, OnPath, StaysOnPath, Work
<1>e. /\ In(list) = In(request[r].list) \cup {request[r].new} /\ Distinct(list)
      /\ In(redis.index) \subseteq In(request[r].list)
  BY <1>a, <1>c, <1>d, WrittenList DEF Sound, IndexOK, NewUnread
<1> HIDE DEF list
<1>f. redis'.index = list /\ redis'.live = redis.live
  BY <1>a, <1>b DEF Store
<1>g. /\ request'[r].at \notin Purging /\ ~Pending(request'[r]) /\ ~Busy(request'[r])
      /\ Stay(r)
  BY <1>a DEF WriteIndex, GoTo, Finish, Stay, SessionTypeOK, RequestOK, Work, Idle,
              Purging, Pending, Busy, Indexing
<1>h. \A q \in Request \ {r} : ~Busy(request[q])
  BY <1>c DEF IndexOK, OneBusy
<1>1. /\ NoneInMemory' /\ OneBusy' /\ NewApart' /\ NewUnread'
      /\ Distinct(redis.index)'
  BY <1>b, <1>e, <1>f, <1>g, <1>h
  DEF IndexOK, NoneInMemory, OneBusy, NewApart, NewUnread, Stay, Pending, Busy, Indexing
<1>2. Sound(request[r])'
  BY <1>g DEF Sound, Pending, Purging
<1>3. ASSUME NEW q \in Request \ {r} PROVE Sound(request[q])'
  <2>1. request[q].at # "write_index" /\ request[q].at \notin Purging
    BY <1>h DEF Busy, Indexing, Purging
  <2>2. ASSUME Pending(request[q]) PROVE request[q].new \notin In(redis'.index)
    <3>1. request[q].new # request[r].new
      BY <2>2, <1>c DEF IndexOK, NewApart
    <3>2. request[q].new \notin In(request[r].list)
      BY <2>2, <1>a DEF IndexOK, NewUnread
    <3> QED  BY <3>1, <3>2, <1>e, <1>f
  <2> QED  BY <2>1, <2>2, <1>g, OthersStaySound DEF Purging
<1>4. Covered'
  <2> SUFFICES ASSUME NEW t \in redis'.live
               PROVE  t \in In(redis'.index) \/ \E q \in Request : Covers(request'[q], t)
    BY DEF Covered, Covers, Pending
  <2>1. Covers(request[r], t) => t = request[r].new
    BY <1>a DEF Covers, Purging
  <2>2. t \in In(redis.index) => t \in In(redis'.index)
    BY <1>e, <1>f
  <2> QED
    BY <2>1, <2>2, <1>e, <1>f, <1>g, OthersCover DEF IndexOK, Covered
<1> QED  BY <1>1, <1>2, <1>3, <1>4 DEF IndexOK, AllSound

\* A revocation reads the list.
LEMMA ListKeepsIndex ==
    ASSUME SessionInv, NEW r \in Request, RevokeListTokens(r), IndexOK, ~torn'
    PROVE  IndexOK'
<1> USE DEF SessionInv
<1>a. request[r] \in Work /\ UNCHANGED <<redis, memory>> /\ ~IndexBusy(r)
  BY DEF RevokeListTokens, storeVars, SessionTypeOK, RequestOK
<1>b. PICK label \in {"set_flag", "purge_token"} :
        request' = [request EXCEPT ![r].at = label, ![r].list = redis.index]
  BY ReadsIndex DEF RevokeListTokens
<1>c. /\ request'[r].at \in {"set_flag", "purge_token"}
      /\ request'[r].list = redis.index /\ Stay(r) /\ request[r].at = "list_tokens"
  BY <1>a, <1>b DEF RevokeListTokens, Stay, SessionTypeOK, RequestOK, Work, IsAt
<1>d. \A q \in Request \ {r} : ~Busy(request[q])
  BY <1>a DEF IndexBusy, Others, Busy, OnPath, StaysOnPath, Indexing
<1>1. /\ NoneInMemory' /\ OneBusy' /\ NewApart' /\ NewUnread'
      /\ Distinct(redis.index)'
  BY <1>a, <1>c, <1>d
  DEF IndexOK, NoneInMemory, OneBusy, NewApart, NewUnread, Distinct, Pending, Stay
<1>2. Sound(request[r])'
  BY <1>a, <1>c DEF Sound, Pending, Purging
<1>3. ASSUME NEW q \in Request \ {r} PROVE Sound(request[q])'
  BY <1>a, <1>c DEF Stay, IndexOK, AllSound, Sound, Pending
<1>4. Covered'
  BY <1>a, <1>c DEF IndexOK, Covered, Covers, Pending, Purging, Stay
<1> QED  BY <1>1, <1>2, <1>3, <1>4 DEF IndexOK, AllSound

\* It deletes the tokens of the list, one by one,
LEMMA PurgeTokenKeepsIndex ==
    ASSUME SessionInv, NEW r \in Request, RevokePurgeToken(r), IndexOK, ~torn'
    PROVE  IndexOK'
<1> USE DEF SessionInv
<1> DEFINE t0 == Head(request[r].list)
<1>a. /\ request[r] \in Work /\ request[r].at = "purge_token" /\ redis \in Store
      /\ request[r].list \in Seq(Token) /\ memory \in [Process -> Store]
  BY DEF RevokePurgeToken, SessionTypeOK, RequestOK, IsAt, Work
<1>b. /\ redis' = [redis EXCEPT !.live = @ \ {t0}]
      /\ \A p \in Process : memory'[p].index = memory[p].index
  <2>1. PICK lost \in BOOLEAN :
            /\ MayFail(lost)
            /\ redis' = [redis EXCEPT !.live = IF lost THEN @ ELSE @ \ {t0}]
            /\ memory' = [memory EXCEPT ![Proc(r)].live = @ \ {t0}]
    BY DEF RevokePurgeToken, DeleteToken
  <2>2. ~lost
    BY <2>1 DEF MayFail, RevokePurgeToken, SessionTypeOK
  <2> HIDE DEF t0
  <2> QED  BY <2>1, <2>2, <1>a DEF Store
<1>c. /\ request'[r].at = "purge_grace" /\ request'[r].list = request[r].list
      /\ Stay(r)
  BY <1>a DEF RevokePurgeToken, GoTo, Stay, SessionTypeOK, RequestOK, Work
<1> HIDE DEF t0
<1>d. redis'.index = redis.index /\ redis'.live = redis.live \ {t0}
  BY <1>a, <1>b DEF Store
<1>1. /\ NoneInMemory' /\ OneBusy' /\ NewApart' /\ NewUnread'
      /\ Distinct(redis.index)'
  BY <1>a, <1>b, <1>c, <1>d
  DEF IndexOK, NoneInMemory, OneBusy, NewApart, NewUnread, Distinct, Pending, Busy,
      Indexing, Stay
<1>2. Sound(request[r])'
  BY <1>a, <1>c, <1>d DEF IndexOK, AllSound, Sound, Pending, Purging, t0
<1>3. ASSUME NEW q \in Request \ {r} PROVE Sound(request[q])'
  BY <1>c, <1>d DEF Stay, IndexOK, AllSound, Sound, Pending
<1>4. Covered'
  BY <1>a, <1>c, <1>d DEF IndexOK, Covered, Covers, Pending, Purging, Stay
<1> QED  BY <1>1, <1>2, <1>3, <1>4 DEF IndexOK, AllSound

\* with the answers of their rotations,
LEMMA PurgeGraceKeepsIndex ==
    ASSUME SessionInv, NEW r \in Request, RevokePurgeGrace(r), IndexOK
    PROVE  IndexOK'
<1> USE DEF SessionInv
<1>a. /\ request[r] \in Work /\ request[r].at = "purge_grace" /\ redis \in Store
      /\ request[r].list \in Seq(Token) /\ request[r].list # <<>>
      /\ memory \in [Process -> Store]
  BY DEF RevokePurgeGrace, SessionTypeOK, RequestOK, IsAt, Work, OnPath, StaysOnPath
<1>b. /\ redis'.index = redis.index /\ redis'.live = redis.live
      /\ \A p \in Process : memory'[p].index = memory[p].index
  <2>1. DeleteGrace(r, Head(request[r].list))
    BY DEF RevokePurgeGrace
  <2> QED  BY <2>1, <1>a DEF DeleteGrace, Store
<1>c. /\ request'[r].at \in {"drop_index", "purge_token"}
      /\ request'[r].list = Tail(request[r].list) /\ Stay(r)
  BY <1>a DEF RevokePurgeGrace, NextPurge, Stay, SessionTypeOK, RequestOK, Work
<1>d. \A t \in redis.live : t \in In(request[r].list) => t \in In(Tail(request[r].list))
  <2>1. In(request[r].list) = {Head(request[r].list)} \cup In(Tail(request[r].list))
    BY <1>a, InFacts
  <2> QED  BY <2>1, <1>a DEF IndexOK, AllSound, Sound
<1>1. /\ NoneInMemory' /\ OneBusy' /\ NewApart' /\ NewUnread'
      /\ Distinct(redis.index)'
  BY <1>a, <1>b, <1>c
  DEF IndexOK, NoneInMemory, OneBusy, NewApart, NewUnread, Distinct, Pending, Busy,
      Indexing, Stay
<1>2. Sound(request[r])'
  BY <1>a, <1>b, <1>c, <1>d DEF IndexOK, AllSound, Sound, Pending, Purging
<1>3. ASSUME NEW q \in Request \ {r} PROVE Sound(request[q])'
  BY <1>b, <1>c DEF Stay, IndexOK, AllSound, Sound, Pending
<1>4. Covered'
  BY <1>a, <1>b, <1>c, <1>d DEF IndexOK, Covered, Covers, Pending, Purging, Stay
<1> QED  BY <1>1, <1>2, <1>3, <1>4 DEF IndexOK, AllSound

\* and the index itself when none of them is left.
LEMMA DropKeepsIndex ==
    ASSUME SessionInv, NEW r \in Request, RevokeDropIndex(r), IndexOK, ~torn'
    PROVE  IndexOK'
<1> USE DEF SessionInv
<1>a. /\ request[r] \in Work /\ request[r].at = "drop_index" /\ redis \in Store
      /\ request[r].list = <<>> /\ memory \in [Process -> Store]
  BY DEF RevokeDropIndex, SessionTypeOK, RequestOK, IsAt, OnPath, StaysOnPath
<1>b. /\ redis'.index = <<>> /\ redis'.live = redis.live
      /\ \A p \in Process : memory'[p].index \in {memory[p].index, <<>>}
  <2>1. PICK lost \in BOOLEAN :
            /\ redis' = [redis EXCEPT !.index = IF lost THEN @ ELSE <<>>]
            /\ torn' = (torn \/ lost)
    BY DEF RevokeDropIndex
  <2>2. ~lost
    BY <2>1
  <2>3. memory' = [memory EXCEPT ![Proc(r)].index = <<>>]
    BY DEF RevokeDropIndex
  <2> QED  BY <2>1, <2>2, <2>3, <1>a DEF Store
<1>c. request'[r].at = "set_flag" /\ Stay(r)
  BY <1>a DEF RevokeDropIndex, GoTo, Stay, SessionTypeOK, RequestOK, Work
<1>d. In(<<>>) = {} /\ Sound(request[r])
  BY InFacts DEF In, IndexOK, AllSound
<1>1. /\ NoneInMemory' /\ OneBusy' /\ NewApart' /\ NewUnread'
      /\ Distinct(redis.index)'
  BY <1>a, <1>b, <1>c
  DEF IndexOK, NoneInMemory, OneBusy, NewApart, NewUnread, Distinct, Pending, Busy,
      Indexing, Stay
<1>2. Sound(request[r])'
  BY <1>c DEF Sound, Pending, Purging
<1>3. ASSUME NEW q \in Request \ {r} PROVE Sound(request[q])'
  BY <1>b, <1>c, <1>d DEF Stay, IndexOK, AllSound, Sound, Pending
<1>4. Covered'
  <2> SUFFICES ASSUME NEW t \in redis'.live
               PROVE  \E q \in Request : Covers(request'[q], t)
    BY DEF Covered, Covers, Pending
  <2>1. t \notin In(redis.index) /\ ~Covers(request[r], t)
    BY <1>a, <1>b, <1>d DEF Sound, Covers, Purging, Pending
  <2> QED  BY <2>1, <1>b, <1>c, OthersCover DEF IndexOK, Covered
<1> QED  BY <1>1, <1>2, <1>3, <1>4 DEF IndexOK, AllSound

-----------------------------------------------------------------------------
\* Once two updates have met or one has failed, or too many tokens were issued,
\* it stays so.
LEMMA OrderlyBefore ==
    ASSUME SessionTypeOK, SessionNext, Orderly'
    PROVE  Orderly
<1>1. issued' \in {issued, issued + 1}
  <2>1. CASE KeysShrink
    BY <2>1 DEF KeysShrink
  <2>2. ASSUME NEW r \in Request, StoreToken(r) \/ WriteIndex(r)
        PROVE  issued' \in {issued, issued + 1}
    BY <2>2 DEF StoreToken, WriteIndex
  <2> QED  BY <2>1, <2>2, ServeShrinks, OthersShrink DEF SessionNext
<1>2. torn => torn'
  <2>1. ASSUME NEW r \in Request, ServeStep(r), request[r].at \notin AtIndex
        PROVE  torn => torn'
    BY <2>1, ServeLeavesIndex
  <2>2. ASSUME NEW r \in Request, ServeStep(r), request[r].at \in AtIndex
        PROVE  torn => torn'
    BY <2>2, StepAt
    DEF AtIndex, Purging, IsAt, StoreToken, ReadIndex, WriteIndex, RevokeListTokens,
        RevokePurgeToken, RevokePurgeGrace, RevokeDropIndex, historyVars
  <2>3. ASSUME NEW r \in Request, Begin(r) \/ EditStep(r) PROVE torn' = torn
    BY <2>3 DEF Begin, EditStep, EditAccount, EditFails, FinishEdit, historyVars
  <2>4. ExpireStep => torn' = torn
    BY DEF ExpireStep, ExpireToken, ExpireGrace, ExpireIndex, ExpireFlag, ExpireProfile,
           ExpireRam, ForgetMemory, historyVars
  <2> QED  BY <2>1, <2>2, <2>3, <2>4 DEF SessionNext
<1>3. issued \in Nat /\ IndexLimit \in Nat
  BY SessionAssumption DEF SessionTypeOK
<1>4. issued' <= IndexLimit => issued <= IndexLimit
  BY <1>1, <1>3
<1> QED  BY <1>2, <1>4 DEF Orderly

\* The inductive invariant of the index.
IndexInv == SessionInv /\ (Orderly => IndexOK)

\* Every orderly step keeps the index complete.
LEMMA IndexStep ==
    ASSUME SessionInv, IndexOK, SessionNext, Orderly'
    PROVE  IndexOK'
<1> USE DEF SessionInv
<1>a. ~torn' /\ issued <= IndexLimit
  BY OrderlyBefore DEF Orderly
<1>1. ASSUME NEW r \in Request, ServeStep(r), request[r].at \in AtIndex
      PROVE  IndexOK'
  BY <1>1, <1>a, StepAt, StoreKeepsIndex, ReadKeepsIndex, WriteKeepsIndex,
     ListKeepsIndex, PurgeTokenKeepsIndex, PurgeGraceKeepsIndex, DropKeepsIndex
  DEF AtIndex, Purging, IsAt
<1>2. ASSUME NEW r \in Request, ServeStep(r), request[r].at \notin AtIndex
      PROVE  IndexOK'
  <2>1. KeysShrink
    BY <1>2, ServeShrinks DEF StoreToken, WriteIndex, IsAt, AtIndex
  <2>2. IndexStays
    BY <1>2, ServeLeavesIndex DEF IndexStays
  <2>3. Moved(r)
    BY <1>2, ServeMoves
  <2>4. request'[r].at \notin AtIndex \ {"store_token", "list_tokens"}
    BY <2>3, <1>2 DEF Moved, Moves, Follows, AtIndex, Purging, Idle
  <2> QED  BY <2>1, <2>2, <2>3, <2>4, <1>2, QuietStep DEF Moved
<1>3. ASSUME NEW r \in Request, EditStep(r) PROVE IndexOK'
  <2>1. KeysShrink /\ redis' = redis
    BY <1>3, OthersShrink DEF EditStep, EditAccount, EditFails, FinishEdit, storeVars
  <2>2. Moved(r) /\ request[r].at \in {"edit", "edited"}
    BY <1>3, EditMoves DEF EditStep, EditAccount, EditFails, FinishEdit, IsAt
  <2>3. /\ request'[r].at \notin AtIndex \ {"store_token", "list_tokens"}
        /\ request[r].at \notin AtIndex
    BY <2>2 DEF Moved, Moves, Follows, AtIndex, Purging, Idle
  <2> QED  BY <2>1, <2>2, <2>3, QuietStep DEF Moved, IndexStays
<1>4. ASSUME NEW r \in Request, Begin(r) PROVE IndexOK'
  <2>1. PICK kind \in Kind \ {"none"} :
             /\ request[r] = Idle /\ request'[r].at = Entry(kind)
             /\ \A q \in Request \ {r} : request'[q] = request[q]
    BY <1>4, BeginRecord DEF SessionTypeOK, RequestOK
  <2>2. KeysShrink /\ redis' = redis
    BY <1>4, OthersShrink DEF Begin, storeVars
  <2>3. /\ request'[r].at \notin AtIndex \ {"store_token", "list_tokens"}
        /\ request[r].at \notin AtIndex
    BY <2>1 DEF Entry, Kind, Administration, AtIndex, Purging, Idle
  <2>4. \A q \in Request \ {r} : Leaves(request[q], request'[q])
    BY <2>1 DEF Leaves, Same
  <2> QED  BY <2>2, <2>3, <2>4, QuietStep DEF IndexStays
<1>5. CASE ExpireStep
  <2>1. \A q \in Request : Leaves(request[q], request'[q])
    BY <1>5, ExpireLeaves
  <2>2. IndexStays
    BY <1>5 DEF IndexStays, SessionTypeOK, Store, ExpireStep, ExpireToken, ExpireGrace,
                ExpireIndex, ExpireFlag, ExpireProfile, ExpireRam, ForgetMemory
  <2> QED  BY <1>5, <2>1, <2>2, OthersShrink, QuietStep
<1> QED  BY <1>1, <1>2, <1>3, <1>4, <1>5 DEF SessionNext

\* A live token is missing from the index only when two updates of it met, one
\* failed, or it was full: create_token_pair appends and
\* revoke_all_user_tokens_async purges what it has listed.
THEOREM IndexIsCompleteCorrect == SessionSpec => []IndexIsComplete
<1>1. SessionInit => IndexInv
  <2>1. SessionInit => IndexOK
    <3> SUFFICES ASSUME SessionInit PROVE IndexOK
      OBVIOUS
    <3>1. \A q \in Request : request[q].at = "idle"
      BY DEF SessionInit, Idle
    <3>2. redis.live = {} /\ redis.index = <<>> /\ NoneInMemory
      BY DEF SessionInit, Empty, NoneInMemory
    <3> QED
      BY <3>1, <3>2
      DEF IndexOK, OneBusy, NewApart, NewUnread, Distinct, AllSound, Sound, Covered,
          Busy, Pending, Indexing, Purging
  <2> QED  BY <2>1, InvInitially DEF IndexInv
<1>2. IndexInv /\ [SessionNext]_sessionVars => IndexInv'
  <2> SUFFICES ASSUME IndexInv, [SessionNext]_sessionVars PROVE IndexInv'
    OBVIOUS
  <2>1. SessionInv'
    BY InvStep DEF IndexInv
  <2>2. CASE SessionNext
    BY <2>1, <2>2, OrderlyBefore, IndexStep DEF IndexInv, SessionInv
  <2>3. CASE UNCHANGED sessionVars
    BY <2>1, <2>3
    DEF IndexInv, Orderly, IndexOK, NoneInMemory, OneBusy, NewApart, NewUnread, Distinct,
        AllSound, Sound, Covered, Covers, Busy, Pending, sessionVars, storeVars,
        boundVars, historyVars
  <2> QED  BY <2>2, <2>3
<1>3. IndexInv => IndexIsComplete
  <2> SUFFICES ASSUME IndexInv, ~torn, NEW t \in redis.live, ~(issued > IndexLimit)
               PROVE  Listed(t) \/ AtWork(t)
    BY DEF IndexIsComplete
  <2>1. issued \in Nat
    BY SessionAssumption DEF IndexInv, SessionInv, SessionTypeOK
  <2>2. Covered
    BY <2>1, SessionAssumption DEF IndexInv, Orderly, IndexOK
  <2>3. t \in In(redis.index) => Listed(t)
    BY DEF In, Listed
  <2>4. ASSUME NEW q \in Request, Covers(request[q], t) PROVE AtWork(t)
    BY <2>4 DEF Covers, AtWork, Pending, Purging, Indexing, In
  <2> QED  BY <2>2, <2>3, <2>4 DEF Covered
<1> QED  BY <1>1, <1>2, <1>3, PTL DEF SessionSpec
=============================================================================
