------------------------------ MODULE Sessions ------------------------------
(***************************************************************************)
(* Sign-in, refresh tokens and revocation of one user: token_service.py,   *)
(* get_current_user of core/security.py, the sign-in, refresh, logout and  *)
(* revoke routes of auth/router.py and mobile/router.py, and the routes of *)
(* users/router.py that deactivate, reactivate or reset the user.          *)
(*                                                                         *)
(* The state is what redis_client's safe_get, safe_set and safe_delete     *)
(* reach: Redis, which all processes share, and the fallback store in the  *)
(* memory of each process, written when Redis does not answer and read     *)
(* when Redis has no value.  A record of either kind holds one field for   *)
(* each key of the user.  Tokens are numbered in the order of issue.       *)
(* Between two awaits a request takes one step.  The environment is        *)
(* production: a security_sensitive get never falls back on memory.        *)
(***************************************************************************)
EXTENDS Naturals, FiniteSets, Sequences

CONSTANTS
    Process,        \* server processes
    Request,        \* requests that may be under way at once
    IndexLimit,     \* tokens kept in a user's index: 10
    MaxTokens,      \* bound: tokens ever issued
    Mixes           \* bound: the kinds of request that occur together, with the
                    \* processes, the tokens and the failed calls they may take

Administration == {"deactivate", "reactivate", "reset", "edit", "create"}
Kind == {"none", "login", "mobile_login", "refresh", "check", "logout",
         "revoke"} \cup Administration

ASSUME SessionAssumption ==
    /\ Process # {} /\ IsFiniteSet(Request)
    /\ IndexLimit \in Nat \ {0}
    /\ MaxTokens \in Nat
    /\ \A m \in Mixes : m.tokens \in 0..MaxTokens /\ m.faults \in Nat
                         /\ m.kinds \subseteq Kind \ {"none"}
                         /\ m.processes \subseteq Process

Token == 1..MaxTokens
None  == 0

VARIABLES
    redis,          \* the user's keys in Redis
    memory,         \* the same keys in the fallback store of each process
    ram,            \* _LOCAL_USER_PROFILES: has the process a fresh active profile?
    account,        \* users.is_active
    request,        \* the requests under way
    issued,         \* how many tokens have been issued
    faults, mix,    \* bounds
    \* history
    family,         \* the first token of the sign-in a token descends from
    disturbed,      \* sign-ins of which two requests were at work at once,
                    \* or of whose keys a deletion failed
    torn            \* were two updates of the token index under way at once,
                    \* or has one failed?

storeVars   == <<redis, memory, ram, account>>
boundVars   == <<issued, faults, mix>>
historyVars == <<family, disturbed, torn>>
sessionVars == <<storeVars, request, boundVars, historyVars>>

At == {"idle", "read_account", "clear_revocation", "guard_role",
       "read_grace", "read_token", "read_flag", "drop_token",
       "store_token", "read_index", "write_index", "store_grace", "remove_old",
       "read_profile", "store_profile", "granted",
       "remove_token", "remove_grace",
       "list_tokens", "purge_token", "purge_grace", "drop_index",
       "edit", "edited", "set_flag", "clear_flag", "refresh_list"}

(***************************************************************************)
(* The keys of the user: rll:refresh_token:t for each t of live,           *)
(* rll:rotated_token:t with the token that replaced t, the index           *)
(* rll:user_refresh_tokens, the flag rll:revoked, and rll:user_profile.    *)
(***************************************************************************)
Store == [live : SUBSET Token, grace : [Token -> Token \cup {None}],
          index : Seq(Token), flag : BOOLEAN, profile : BOOLEAN]

Empty == [live |-> {}, grace |-> [t \in Token |-> None],
          index |-> <<>>, flag |-> FALSE, profile |-> FALSE]

Idle == [kind |-> "none", at |-> "idle", p |-> CHOOSE p \in Process : TRUE,
         token |-> None, new |-> None, list |-> <<>>, barred |-> {}]

Work == [kind : Kind, at : At, p : Process, token : Token \cup {None},
         new : Token \cup {None}, list : Seq(Token),
         barred : SUBSET {"revoked", "inactive"}]

RequestOK == request \in [Request -> Work]

SessionTypeOK ==
    /\ redis \in Store
    /\ memory \in [Process -> Store]
    /\ ram \in [Process -> BOOLEAN]
    /\ account \in {"active", "inactive"}
    /\ RequestOK
    /\ issued \in 0..MaxTokens
    /\ faults \in Nat
    /\ mix \in Mixes
    /\ family \in [Token -> Token \cup {None}]
    /\ disturbed \subseteq Token
    /\ torn \in BOOLEAN

SessionInit ==
    /\ redis = Empty
    /\ memory = [p \in Process |-> Empty]
    /\ ram = [p \in Process |-> FALSE]
    /\ account \in {"active", "inactive"}
    /\ request = [r \in Request |-> Idle]
    /\ issued = 0 /\ faults = 0
    /\ mix \in Mixes
    /\ family = [t \in Token |-> None]
    /\ disturbed = {} /\ torn = FALSE

-----------------------------------------------------------------------------
(***************************************************************************)
(* Steps of a request, and the calls of redis_client.  `lost' says that    *)
(* Redis did not answer the call.                                          *)
(***************************************************************************)
GoTo(r, label) == request' = [request EXCEPT ![r].at = label]
Finish(r)      == request' = [request EXCEPT ![r] = Idle]

IsAt(r, label) == request[r].at = label
Proc(r)        == request[r].p
Local(r)       == memory[Proc(r)]

MayFail(lost) ==
    /\ lost => faults < mix.faults
    /\ faults' = IF lost THEN faults + 1 ELSE faults

Get(shared, local, nothing, lost) ==
    IF lost \/ shared = nothing THEN local ELSE shared

\* Another request that has begun and not ended.
Others(r) == {q \in Request \ {r} : request[q].kind # "none"}

-----------------------------------------------------------------------------
(***************************************************************************)
(* A request arrives at some process.  A refresh or a logout brings any    *)
(* token ever issued.  `barred' notes what should stop the request: the    *)
(* revocation flag or the deactivation that it finds on arrival.           *)
(***************************************************************************)
Reasons(p) ==
    (IF redis.flag \/ memory[p].flag THEN {"revoked"} ELSE {})
        \cup (IF account = "inactive" THEN {"inactive"} ELSE {})

Entry(kind) ==
    CASE kind \in {"login", "mobile_login"} -> "read_account"
      [] kind = "refresh" -> "read_grace"
      [] kind = "check"   -> "read_flag"
      [] kind = "logout"  -> "remove_token"
      [] kind = "revoke"  -> "list_tokens"
      [] kind \in Administration -> "edit"

UsesToken == {"refresh", "logout"}

Begin(r) ==
    /\ request[r] = Idle
    /\ \E kind \in mix.kinds, p \in mix.processes, t \in 0..issued :
        /\ (t # None) <=> (kind \in UsesToken)
        /\ request' = [request EXCEPT ![r] =
                          [Idle EXCEPT !.kind = kind, !.at = Entry(kind),
                                       !.p = p, !.token = t,
                                       !.barred = Reasons(p)]]
        /\ disturbed' = IF \E q \in Others(r) : /\ t # None
                                                /\ request[q].token # None
                                                /\ family[request[q].token] = family[t]
                        THEN disturbed \cup {family[t]} ELSE disturbed
    /\ UNCHANGED <<storeVars, boundVars, family, torn>>

-----------------------------------------------------------------------------
(***************************************************************************)
(* login (web) and mobile_login or verify_otp.  Web login deletes the      *)
(* revocation flag before it knows whether the role may use the web.       *)
(***************************************************************************)
Lift(req) == [req EXCEPT !.barred = @ \ {"revoked"}]

\* The password, or the code on the phone, was right; the row says the rest.
Admit(r, label) ==
    \/ account = "active" /\ GoTo(r, label)
    \/ Finish(r)         \* inactive, wrong password or code, role not allowed

LoginReadAccount(r) ==
    /\ IsAt(r, "read_account")
    /\ \/ request[r].kind = "login" /\ Admit(r, "clear_revocation")
       \/ request[r].kind = "mobile_login" /\ Admit(r, "store_token")
    /\ UNCHANGED <<storeVars, boundVars, historyVars>>

DeleteFlag(r, label) ==
    /\ \E lost \in BOOLEAN :
        /\ MayFail(lost)
        /\ redis' = [redis EXCEPT !.flag = lost /\ @]
    /\ memory' = [memory EXCEPT ![Proc(r)].flag = FALSE]
    /\ request' = [[q \in Request |-> Lift(request[q])] EXCEPT ![r].at = label]

LoginClearRevocation(r) ==
    /\ IsAt(r, "clear_revocation")
    /\ DeleteFlag(r, "guard_role")
    /\ UNCHANGED <<ram, account, issued, mix, historyVars>>

LoginGuardRole(r) ==
    /\ IsAt(r, "guard_role")
    /\ GoTo(r, "store_token") \/ Finish(r)
    /\ UNCHANGED <<storeVars, boundVars, historyVars>>

-----------------------------------------------------------------------------
(***************************************************************************)
(* create_token_pair: store the token, then read and write the index.      *)
(***************************************************************************)
StoreToken(r) ==
    /\ IsAt(r, "store_token")
    /\ issued < mix.tokens
    /\ LET t == issued + 1 IN
       /\ issued' = t
       /\ \E lost \in BOOLEAN :
           /\ MayFail(lost)
           /\ redis' = [redis EXCEPT !.live = IF lost THEN @ ELSE @ \cup {t}]
           /\ memory' = [memory EXCEPT ![Proc(r)].live =
                            IF lost THEN @ \cup {t} ELSE @]
       /\ family' = [family EXCEPT ![t] =
                        IF request[r].token = None THEN t
                        ELSE family[request[r].token]]
       /\ request' = [request EXCEPT ![r].at = "read_index", ![r].new = t]
    /\ UNCHANGED <<ram, account, mix, disturbed, torn>>

\* From reading the index to writing it back, or to deleting it.
Indexing == {"write_index", "purge_token", "purge_grace", "drop_index"}
IndexBusy(r) == \E q \in Others(r) : request[q].at \in Indexing

ReadIndex(r) ==
    /\ IsAt(r, "read_index")
    /\ \E lost \in BOOLEAN :
        /\ MayFail(lost)
        /\ torn' = (torn \/ lost \/ IndexBusy(r))
        /\ request' = [request EXCEPT ![r].at = "write_index",
               ![r].list = Get(redis.index, Local(r).index, <<>>, lost)]
    /\ UNCHANGED <<storeVars, issued, mix, family, disturbed>>

\* Mutant: a full list is cut to one token too few.
NewestButOne(list) ==
    IF Len(list) >= IndexLimit
    THEN SubSeq(list, Len(list) - IndexLimit + 2, Len(list)) ELSE list

\* tokens_list[-10:], the new token having been appended
Newest(list) ==
    IF Len(list) > IndexLimit
    THEN SubSeq(list, Len(list) - IndexLimit + 1, Len(list)) ELSE list

WriteIndex(r) ==
    /\ IsAt(r, "write_index")
    /\ LET list == Newest(Append(request[r].list, request[r].new)) IN
       \E lost \in BOOLEAN :
        /\ MayFail(lost)
        /\ redis' = [redis EXCEPT !.index = IF lost THEN @ ELSE list]
        /\ memory' = [memory EXCEPT ![Proc(r)].index = IF lost THEN list ELSE @]
        /\ torn' = (torn \/ lost)
    /\ IF request[r].kind = "refresh" THEN GoTo(r, "store_grace") ELSE Finish(r)
    /\ UNCHANGED <<ram, account, issued, mix, family, disturbed>>

-----------------------------------------------------------------------------
(***************************************************************************)
(* refresh_session_async.  A rotated token is answered for a while with    *)
(* the answer of its rotation, before any other check.                     *)
(***************************************************************************)
RefreshReadGrace(r) ==
    /\ IsAt(r, "read_grace")
    /\ \E lost \in BOOLEAN :
        /\ MayFail(lost)
        /\ LET t == request[r].token IN
           IF Get(redis.grace[t], Local(r).grace[t], None, lost) # None
           THEN Finish(r) ELSE GoTo(r, "read_token")
    /\ UNCHANGED <<storeVars, issued, mix, historyVars>>

RefreshReadToken(r) ==
    /\ IsAt(r, "read_token")
    /\ \E lost \in BOOLEAN :
        /\ MayFail(lost)
        /\ IF ~lost /\ request[r].token \in redis.live
           THEN GoTo(r, "read_flag") ELSE Finish(r)
    /\ UNCHANGED <<storeVars, issued, mix, historyVars>>

RefreshReadFlag(r) ==
    /\ IsAt(r, "read_flag") /\ request[r].kind = "refresh"
    /\ \E lost \in BOOLEAN :
        /\ MayFail(lost)
        /\ request' = [request EXCEPT
               ![r].at = IF Get(redis.flag, Local(r).flag, FALSE, lost)
                         THEN "drop_token" ELSE "read_account",
               ![r].barred = IF lost THEN @ \ {"revoked"} ELSE @]
    /\ UNCHANGED <<storeVars, issued, mix, historyVars>>

\* Mutant: the row is read and its is_active not looked at.
RefreshIgnoresAccount(r) ==
    /\ IsAt(r, "read_account") /\ request[r].kind = "refresh"
    /\ GoTo(r, "store_token")
    /\ UNCHANGED <<storeVars, boundVars, historyVars>>

\* A database error is logged and the refresh goes on.
RefreshReadAccount(r) ==
    /\ IsAt(r, "read_account") /\ request[r].kind = "refresh"
    /\ \E lost \in BOOLEAN :
        /\ MayFail(lost)
        /\ request' = [request EXCEPT
               ![r].at = IF lost \/ account = "active"
                         THEN "store_token" ELSE "drop_token",
               ![r].barred = IF lost THEN @ \ {"inactive"} ELSE @]
    /\ UNCHANGED <<storeVars, issued, mix, historyVars>>

\* safe_delete of the presented token, after a refusal and after a rotation
DeleteToken(r, t) ==
    \E lost \in BOOLEAN :
        /\ MayFail(lost)
        /\ redis' = [redis EXCEPT !.live = IF lost THEN @ ELSE @ \ {t}]
        /\ memory' = [memory EXCEPT ![Proc(r)].live = @ \ {t}]
        /\ disturbed' = IF lost THEN disturbed \cup {family[t]} ELSE disturbed

DeleteGrace(r, t) ==
    \E lost \in BOOLEAN :
        /\ MayFail(lost)
        /\ redis' = [redis EXCEPT !.grace[t] = IF lost THEN @ ELSE None]
        /\ memory' = [memory EXCEPT ![Proc(r)].grace[t] = None]

RefreshDropToken(r) ==
    /\ IsAt(r, "drop_token")
    /\ DeleteToken(r, request[r].token)
    /\ Finish(r)
    /\ UNCHANGED <<ram, account, issued, mix, family, torn>>

RefreshStoreGrace(r) ==
    /\ IsAt(r, "store_grace")
    /\ \E lost \in BOOLEAN :
        /\ MayFail(lost)
        /\ LET t == request[r].token IN
           /\ redis' = [redis EXCEPT !.grace[t] = IF lost THEN @ ELSE request[r].new]
           /\ memory' = [memory EXCEPT ![Proc(r)].grace[t] =
                            IF lost THEN request[r].new ELSE @]
    /\ GoTo(r, "remove_old")
    /\ UNCHANGED <<ram, account, issued, mix, historyVars>>

\* Mutant: the old token is left to the grace period.
RefreshKeepsOld(r) ==
    /\ IsAt(r, "remove_old")
    /\ Finish(r)
    /\ UNCHANGED <<storeVars, boundVars, historyVars>>

RefreshRemoveOld(r) ==
    /\ IsAt(r, "remove_old")
    /\ DeleteToken(r, request[r].token)
    /\ Finish(r)
    /\ UNCHANGED <<ram, account, issued, mix, family, torn>>

-----------------------------------------------------------------------------
(***************************************************************************)
(* get_current_user, for a caller whose cookie or access token names the   *)
(* user: flag, profile in RAM, profile in Redis, database.  The profile in *)
(* RAM is read in the step that has read the flag.                         *)
(***************************************************************************)
\* Mutant: the profile in RAM is looked up before the flag.
CheckRamFirst(r) ==
    /\ IsAt(r, "read_flag") /\ request[r].kind = "check"
    /\ IF ram[Proc(r)] THEN GoTo(r, "granted")
       ELSE IF Get(redis.flag, Local(r).flag, FALSE, FALSE) THEN Finish(r)
       ELSE GoTo(r, "read_profile")
    /\ UNCHANGED <<storeVars, boundVars, historyVars>>

CheckReadFlag(r) ==
    /\ IsAt(r, "read_flag") /\ request[r].kind = "check"
    /\ \E lost \in BOOLEAN :
        /\ MayFail(lost)
        /\ IF Get(redis.flag, Local(r).flag, FALSE, lost) THEN Finish(r)
           ELSE request' = [request EXCEPT
                    ![r].at = IF ram[Proc(r)] THEN "granted" ELSE "read_profile",
                    ![r].barred = IF lost THEN @ \ {"revoked"} ELSE @]
    /\ UNCHANGED <<storeVars, issued, mix, historyVars>>

CheckReadProfile(r) ==
    /\ IsAt(r, "read_profile")
    /\ \E lost \in BOOLEAN :
        /\ MayFail(lost)
        /\ IF Get(redis.profile, Local(r).profile, FALSE, lost)
           THEN /\ ram' = [ram EXCEPT ![Proc(r)] = TRUE]
                /\ GoTo(r, "granted")
           ELSE /\ GoTo(r, "read_account")
                /\ UNCHANGED ram
    /\ UNCHANGED <<redis, memory, account, issued, mix, historyVars>>

\* Mutant: whoever has a row is let in.
CheckIgnoresAccount(r) ==
    /\ IsAt(r, "read_account") /\ request[r].kind = "check"
    /\ GoTo(r, "store_profile")
    /\ UNCHANGED <<storeVars, boundVars, historyVars>>

\* Any failure of the look-up refuses the request.
CheckReadAccount(r) ==
    /\ IsAt(r, "read_account") /\ request[r].kind = "check"
    /\ \/ account = "active" /\ GoTo(r, "store_profile") /\ UNCHANGED faults
       \/ account = "inactive" /\ Finish(r) /\ UNCHANGED faults
       \/ MayFail(TRUE) /\ Finish(r)
    /\ UNCHANGED <<storeVars, issued, mix, historyVars>>

CheckStoreProfile(r) ==
    /\ IsAt(r, "store_profile")
    /\ \E lost \in BOOLEAN :
        /\ MayFail(lost)
        /\ redis' = [redis EXCEPT !.profile = @ \/ ~lost]
        /\ memory' = [memory EXCEPT ![Proc(r)].profile = @ \/ lost]
    /\ ram' = [ram EXCEPT ![Proc(r)] = TRUE]
    /\ GoTo(r, "granted")
    /\ UNCHANGED <<account, issued, mix, historyVars>>

CheckAnswer(r) ==
    /\ IsAt(r, "granted")
    /\ Finish(r)
    /\ UNCHANGED <<storeVars, boundVars, historyVars>>

-----------------------------------------------------------------------------
(***************************************************************************)
(* revoke_refresh_token_async (logout) and revoke_all_user_tokens_async.   *)
(***************************************************************************)
LogoutRemoveToken(r) ==
    /\ IsAt(r, "remove_token")
    /\ DeleteToken(r, request[r].token)
    /\ GoTo(r, "remove_grace")
    /\ UNCHANGED <<ram, account, issued, mix, family, torn>>

LogoutRemoveGrace(r) ==
    /\ IsAt(r, "remove_grace")
    /\ DeleteGrace(r, request[r].token)
    /\ Finish(r)
    /\ UNCHANGED <<ram, account, issued, mix, historyVars>>

NextPurge(list) == IF list = <<>> THEN "drop_index" ELSE "purge_token"

RevokeListTokens(r) ==
    /\ IsAt(r, "list_tokens")
    /\ \E lost \in BOOLEAN :
        /\ MayFail(lost)
        /\ torn' = (torn \/ lost \/ IndexBusy(r))
        /\ LET list == Get(redis.index, Local(r).index, <<>>, lost) IN
           request' = [request EXCEPT
               ![r].at = IF list = <<>> THEN "set_flag" ELSE "purge_token",
               ![r].list = list]
    /\ UNCHANGED <<storeVars, issued, mix, family, disturbed>>

RevokePurgeToken(r) ==
    /\ IsAt(r, "purge_token")
    /\ DeleteToken(r, Head(request[r].list))
    /\ torn' = (torn \/ faults' # faults)
    /\ GoTo(r, "purge_grace")
    /\ UNCHANGED <<ram, account, issued, mix, family>>

RevokePurgeGrace(r) ==
    /\ IsAt(r, "purge_grace")
    /\ DeleteGrace(r, Head(request[r].list))
    /\ request' = [request EXCEPT
           ![r].list = Tail(@),
           ![r].at = NextPurge(Tail(request[r].list))]
    /\ UNCHANGED <<ram, account, issued, mix, historyVars>>

RevokeDropIndex(r) ==
    /\ IsAt(r, "drop_index")
    /\ \E lost \in BOOLEAN :
        /\ MayFail(lost)
        /\ redis' = [redis EXCEPT !.index = IF lost THEN @ ELSE <<>>]
        /\ torn' = (torn \/ lost)
    /\ memory' = [memory EXCEPT ![Proc(r)].index = <<>>]
    /\ GoTo(r, "set_flag")
    /\ UNCHANGED <<ram, account, issued, mix, family, disturbed>>

-----------------------------------------------------------------------------
(***************************************************************************)
(* The routes of users/router.py: the work in the database, then the flag, *)
(* then the cached list of users.  `deactivate' stands for an update that  *)
(* the router takes for one, and for the deletion of the user; `edit' for  *)
(* an update of which it takes neither.  The service has a reading of its  *)
(* own: it writes the truth value of is_active, which may be another.      *)
(* Both go on when the row of users could not be written; `reset' and      *)
(* `create', and an edit of the headquarters, are refused when their work  *)
(* fails.                                                                  *)
(***************************************************************************)
Changed(kind) ==
    CASE kind = "deactivate" -> {"inactive", "active"}
      [] kind = "edit"       -> {account, "inactive", "active"}
      [] kind = "reactivate" -> {"active"}
      [] kind = "create"     -> {account, "active"}
      [] OTHER               -> {account}

EditAccount(r) ==
    /\ IsAt(r, "edit")
    /\ \E lost \in BOOLEAN :
        /\ MayFail(lost)
        /\ account' \in (IF lost THEN {account} ELSE Changed(request[r].kind))
    /\ request' = [[q \in Request |->
            IF account' = "active"
            THEN [request[q] EXCEPT !.barred = @ \ {"inactive"}]
            ELSE request[q]] EXCEPT ![r].at = "edited"]
    /\ UNCHANGED <<redis, memory, ram, issued, mix, historyVars>>

\* A write to another table of the directory fails.
EditFails(r) ==
    /\ IsAt(r, "edited")
    /\ MayFail(TRUE)
    /\ UNCHANGED <<storeVars, request, issued, mix, historyVars>>

FinishEdit(r) ==
    /\ IsAt(r, "edited")
    /\ LET kind == request[r].kind IN
       \/ kind = "reactivate" /\ GoTo(r, "clear_flag")
       \/ kind \in {"deactivate", "reset"} /\ GoTo(r, "set_flag")
       \/ kind \in {"edit", "create"} /\ GoTo(r, "refresh_list")
       \/ kind \in {"edit", "create", "reset"} /\ Finish(r)
    /\ UNCHANGED <<storeVars, boundVars, historyVars>>

SetFlag(r) ==
    /\ IsAt(r, "set_flag")
    /\ \E lost \in BOOLEAN :
        /\ MayFail(lost)
        /\ redis' = [redis EXCEPT !.flag = @ \/ ~lost]
        /\ memory' = [memory EXCEPT ![Proc(r)].flag = @ \/ lost]
    /\ IF request[r].kind = "deactivate" THEN GoTo(r, "refresh_list") ELSE Finish(r)
    /\ UNCHANGED <<ram, account, issued, mix, historyVars>>

ClearFlag(r) ==
    /\ IsAt(r, "clear_flag")
    /\ DeleteFlag(r, "refresh_list")
    /\ UNCHANGED <<ram, account, issued, mix, historyVars>>

RefreshList(r) ==
    /\ IsAt(r, "refresh_list")
    /\ Finish(r)
    /\ UNCHANGED <<storeVars, boundVars, historyVars>>

-----------------------------------------------------------------------------
(***************************************************************************)
(* Entries expire.  The index is written after the tokens it lists, with   *)
(* their lifetime, and outlives them.                                      *)
(***************************************************************************)
ExpireToken ==
    /\ \E t \in redis.live : redis' = [redis EXCEPT !.live = @ \ {t}]
    /\ UNCHANGED <<memory, ram, account, request, boundVars, historyVars>>

ExpireGrace ==
    /\ \E t \in Token : /\ redis.grace[t] # None
                        /\ redis' = [redis EXCEPT !.grace[t] = None]
    /\ UNCHANGED <<memory, ram, account, request, boundVars, historyVars>>

ExpireIndex ==
    /\ redis.live = {} /\ redis.index # <<>>
    /\ redis' = [redis EXCEPT !.index = <<>>]
    /\ UNCHANGED <<memory, ram, account, request, boundVars, historyVars>>

ExpireFlag ==
    /\ redis.flag
    /\ redis' = [redis EXCEPT !.flag = FALSE]
    /\ request' = [q \in Request |-> Lift(request[q])]
    /\ UNCHANGED <<memory, ram, account, boundVars, historyVars>>

ExpireProfile ==
    /\ redis.profile
    /\ redis' = [redis EXCEPT !.profile = FALSE]
    /\ UNCHANGED <<memory, ram, account, request, boundVars, historyVars>>

ExpireRam(p) ==
    /\ ram[p]
    /\ ram' = [ram EXCEPT ![p] = FALSE]
    /\ UNCHANGED <<redis, memory, account, request, boundVars, historyVars>>

\* Everything this process kept for Redis has expired, or it was restarted.
ForgetMemory(p) ==
    /\ memory[p] # Empty
    /\ memory' = [memory EXCEPT ![p] = Empty]
    /\ request' = [q \in Request |-> Lift(request[q])]
    /\ UNCHANGED <<redis, ram, account, boundVars, historyVars>>

-----------------------------------------------------------------------------
\* Everything but the database work of the administration.
ServeStep(r) ==
    \/ LoginReadAccount(r) \/ LoginClearRevocation(r) \/ LoginGuardRole(r)
    \/ StoreToken(r) \/ ReadIndex(r) \/ WriteIndex(r)
    \/ RefreshReadGrace(r) \/ RefreshReadToken(r) \/ RefreshReadFlag(r)
    \/ RefreshReadAccount(r) \/ RefreshDropToken(r)
    \/ RefreshStoreGrace(r) \/ RefreshRemoveOld(r)
    \/ CheckReadFlag(r) \/ CheckReadProfile(r) \/ CheckReadAccount(r)
    \/ CheckStoreProfile(r) \/ CheckAnswer(r)
    \/ LogoutRemoveToken(r) \/ LogoutRemoveGrace(r)
    \/ RevokeListTokens(r) \/ RevokePurgeToken(r) \/ RevokePurgeGrace(r)
    \/ RevokeDropIndex(r)
    \/ SetFlag(r) \/ ClearFlag(r) \/ RefreshList(r)

EditStep(r) == EditAccount(r) \/ EditFails(r) \/ FinishEdit(r)

ExpireStep ==
    \/ ExpireToken \/ ExpireGrace \/ ExpireIndex \/ ExpireFlag \/ ExpireProfile
    \/ \E p \in Process : ExpireRam(p) \/ ForgetMemory(p)

SessionNext ==
    \/ \E r \in Request : Begin(r) \/ ServeStep(r) \/ EditStep(r)
    \/ ExpireStep

SessionSpec == SessionInit /\ [][SessionNext]_sessionVars

-----------------------------------------------------------------------------
(***************************************************************************)
(* Properties.                                                             *)
(***************************************************************************)
Issuing == {"store_token", "read_index", "write_index", "store_grace", "remove_old"}

\* A request that arrives while the revocation flag stands, and for as long
\* as it stands, is neither let in by a cached profile nor given new tokens
\* (get_current_user, refresh_session_async); replaying the answer of a
\* rotation is the one exception the code makes.
RevocationHolds ==
    \A r \in Request :
        /\ request[r].kind = "refresh" /\ request[r].at \in Issuing
              => "revoked" \notin request[r].barred
        /\ IsAt(r, "granted") => "revoked" \notin request[r].barred

\* A refresh that arrives while the account is inactive is given no tokens,
\* unless the look-up of the account failed (refresh_session_async).
InactiveIsNotRenewed ==
    \A r \in Request :
        request[r].kind = "refresh" /\ request[r].at \in Issuing
            => "inactive" \notin request[r].barred

\* Rotation replaces a token: as long as no two requests with tokens of one
\* sign-in overlap and no deletion fails, at most one of its tokens is live
\* once no refresh of it is under way (refresh_session_async).
Rotating(f) ==
    \E r \in Request : /\ request[r].kind = "refresh"
                       /\ family[request[r].token] = f

OneTokenPerSignIn ==
    \A f \in Token \ disturbed :
        ~Rotating(f) =>
            \A t, u \in redis.live : family[t] = f /\ family[u] = f => t = u

\* The index, from which all sessions of the user are revoked, loses a live
\* token only when more tokens have been issued than it holds: otherwise,
\* unless two updates of it overlap or one fails, a live token is listed, or
\* the request at work on it is about to list or to delete it
\* (create_token_pair, revoke_all_user_tokens_async).
Listed(t) == \E i \in 1..Len(redis.index) : redis.index[i] = t

AtWork(t) ==
    \E r \in Request :
        \/ request[r].new = t /\ request[r].at \in {"read_index", "write_index"}
        \/ /\ request[r].at \in Indexing \ {"write_index"}
           /\ \E i \in 1..Len(request[r].list) : request[r].list[i] = t

IndexIsComplete ==
    ~torn => \A t \in redis.live :
        Listed(t) \/ AtWork(t) \/ issued > IndexLimit

\* A deactivated account disappears from the cached profiles of every
\* process, whatever became of the revocation flag (get_current_user).
DeactivationReachesCaches ==
    <>[](account = "inactive")
        => <>[](~redis.profile /\ \A p \in Process : ~ram[p] /\ ~memory[p].profile)

=============================================================================
