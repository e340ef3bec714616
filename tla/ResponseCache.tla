---------------------------- MODULE ResponseCache ----------------------------
(***************************************************************************)
(* The answers of the mobile API and where they are kept: get_mobile_sales *)
(* and get_mobile_companies with the caches they go through (mobile/       *)
(* router.py, cache_service.py, mobile_companies_service.py,               *)
(* redis_client.py).                                                       *)
(*                                                                         *)
(* An answer is kept in Redis for all processes, a sales answer also in    *)
(* the memory of the process that computed or fetched it.  When Redis      *)
(* cannot be written the answer goes to a spare store of the process,      *)
(* which is read whenever Redis has nothing.  Both answers are computed    *)
(* with the master lookups of the process, a snapshot of companies and of  *)
(* the latest date of sale.  Everything lives a day; out-of-date lookups   *)
(* are used once more while they are read again in the background.         *)
(*                                                                         *)
(* An import clears the caches of Redis and of its own process, twice.     *)
(* `late' says in which clearing, if any, a call had in hand what was      *)
(* already wrong: when it goes on it puts that into a clean cache.         *)
(***************************************************************************)
EXTENDS MasterData

CONSTANTS
    Reader,                \* requests in progress: [p, kind, no]
    NoAnswer, NoLookups

Kinds == {"sales", "companies"}

ASSUME ReaderAssumption == \A r \in Reader : r.p \in Process /\ r.kind \in Kinds

VARIABLES
    summary,    \* sales_daily_summary: the sales aggregated
    credited,   \* user_sales_fact: the sales with their person and company
    redis, ram, spare,
    lookups,    \* _MASTER_CACHE of each process
    memo,       \* _LATEST_SALE_DATE_MEMO of each process, 0 when out of date
    refresh,    \* the background reading of lookups of each process
    reader

sourceVars   == <<summary, credited>>
answerVars   == <<redis, ram, spare>>
lookupVars   == <<lookups, memo, refresh>>
responseVars == <<sourceVars, answerVars, lookupVars, reader>>

\* What an answer was computed with, the answers, the lookups; a call and the
\* background reading, with what they have in hand.
View    == [known : SUBSET SomeId, date : Nat]
Answers == [facts : SUBSET (Nat \X Nat), seen : View, whole : BOOLEAN, late : 0 .. 2]
Lookups == [known : SUBSET SomeId, date : Nat, expired : BOOLEAN, late : 0 .. 2]

ASSUME AnswerAssumption == NoAnswer \notin Answers /\ NoLookups \notin Lookups

Waiting == [at : {"idle", "miss", "asked"}]
Holding == [at : {"fetched", "query"}, seen : View, late : 0 .. 2]
InHands == [at : {"hit", "keep_ram", "keep_redis"}, answer : Answers, late : 0 .. 2]

ResponseTypeOK ==
    /\ redis \in [Kinds -> Answers \cup {NoAnswer}]
    /\ ram \in [Process -> Answers \cup {NoAnswer}]
    /\ spare \in [Process -> [Kinds -> Answers \cup {NoAnswer}]]
    /\ lookups \in [Process -> Lookups \cup {NoLookups}]
    /\ memo \in [Process -> Nat]
    /\ refresh \in [Process -> Waiting \cup Holding]
    /\ reader \in [Reader -> Waiting \cup Holding \cup InHands]

MaxOf(S) == CHOOSE d \in S \cup {0} : \A e \in S : e <= d

\* What the lookups would be if they were read now.
Truth == [known |-> {Id(r) : r \in rows}, date |-> MaxOf({s.date : s \in summary})]

\* The sales an answer computed now with lookups `seen' shows.  Sales of
\* persons are dropped when their company is unknown.
ShownSales(seen) ==
    {<<s.import, s.row>> : s \in {s \in credited :
        s.date <= seen.date /\ (Is("companies") => s.company \in seen.known)}}

ShownCompanies(seen) ==
    {<<s.import, s.row>> : s \in {s \in summary : s.date <= seen.date}}

Shown(kind, seen) ==
    IF kind = "sales" THEN ShownSales(seen) ELSE ShownCompanies(seen)

Stale(kind, a) == a.facts # Shown(kind, a.seen)

\* Any call may fail, up to a bound.
MayLose(lost) ==
    /\ lost => faults < mix.cacheFaults
    /\ faults' = IF lost THEN faults + 1 ELSE faults

Goes(r, to) == reader' = [reader EXCEPT ![r].at = to]

Idle(r) == reader' = [reader EXCEPT ![r] = [at |-> "idle"]]

-----------------------------------------------------------------------------
(***************************************************************************)
(* A request.  Those for one answer in one process wait for each other:    *)
(* for the sales until the figures are there, for the companies until the  *)
(* answer is kept.  What is found is served; a sales answer found in Redis *)
(* is kept in memory, for another day.                                     *)
(***************************************************************************)
Within(kind) ==
    {"hit", "miss", "fetched", "query"}
    \cup (IF kind = "companies" THEN {"keep_redis"} ELSE {})

Locked(r) == \E q \in Reader : q.p = r.p /\ q.kind = r.kind /\ reader[q].at \in Within(q.kind)

Found(r, lost) ==
    IF redis[r.kind] # NoAnswer /\ ~lost THEN redis[r.kind] ELSE spare[r.p][r.kind]

Ask(r, lost) ==
    /\ reader[r].at = "idle" /\ ~ Locked(r)
    /\ r.kind = "sales" => ram[r.p] = NoAnswer
    /\ r.kind = "companies" => Found(r, lost) = NoAnswer
    /\ MayLose(lost)
    /\ reader' = [reader EXCEPT ![r] =
           IF Found(r, lost) = NoAnswer THEN [at |-> "miss"]
           ELSE [at |-> "hit", answer |-> Found(r, lost), late |-> Found(r, lost).late]]
    /\ UNCHANGED <<sourceVars, answerVars, lookupVars>>

Kept(r) == [reader[r].answer EXCEPT !.late = reader[r].late]

KeepFound(r) ==
    /\ reader[r].at = "hit"
    /\ ram' = [ram EXCEPT ![r.p] = Kept(r)]
    /\ Idle(r)
    /\ UNCHANGED <<sourceVars, redis, spare, lookupVars, faults>>

-----------------------------------------------------------------------------
(***************************************************************************)
(* The lookups.  The first request reads them and puts them in place; out  *)
(* of date, they are used as they are, with the remembered date in place   *)
(* of theirs.                                                              *)
(***************************************************************************)
Remembered(p) == IF memo[p] = 0 THEN Truth.date ELSE memo[p]

Current(now) == [known |-> now.known, date |-> now.date, expired |-> FALSE, late |-> 0]

ReadLookups(r) ==
    LET l == lookups[r.p]
    IN  /\ reader[r].at = "miss"
        /\ IF l = NoLookups
           THEN /\ reader' = [reader EXCEPT ![r] =
                       [at |-> "fetched", seen |-> Truth, late |-> 0]]
                /\ UNCHANGED <<memo, refresh>>
           ELSE LET dated == l.expired /\ r.kind = "sales"
                    date  == IF dated THEN Remembered(r.p) ELSE l.date
                IN  /\ reader' = [reader EXCEPT ![r] =
                           [at |-> "query", seen |-> [known |-> l.known, date |-> date],
                            late |-> l.late]]
                    /\ memo' = IF dated THEN [memo EXCEPT ![r.p] = date] ELSE memo
                    /\ refresh' = IF l.expired /\ refresh[r.p].at = "idle"
                                  THEN [refresh EXCEPT ![r.p] = [at |-> "asked"]]
                                  ELSE refresh
        /\ UNCHANGED <<sourceVars, answerVars, lookups, faults>>

InstallLookups(r) ==
    /\ reader[r].at = "fetched"
    /\ lookups' = [lookups EXCEPT ![r.p] = [Current(reader[r].seen) EXCEPT !.late = reader[r].late]]
    /\ Goes(r, "query")
    /\ UNCHANGED <<sourceVars, answerVars, memo, refresh, faults>>

\* Mutant: the flag that a reading is under way is never taken down.
RefreshOnce(p) ==
    /\ \/ /\ refresh[p].at = "asked"
          /\ refresh' = [refresh EXCEPT ![p] = [at |-> "fetched", seen |-> Truth, late |-> 0]]
          /\ UNCHANGED lookups
       \/ /\ refresh[p].at = "fetched"
          /\ lookups' = [lookups EXCEPT ![p] = [Current(refresh[p].seen) EXCEPT !.late = refresh[p].late]]
          /\ refresh' = [refresh EXCEPT ![p] = [at |-> "over"]]
    /\ UNCHANGED <<sourceVars, answerVars, memo, reader, faults>>

\* _trigger_background_master_refresh: one at a time.
RefreshLookups(p) ==
    /\ \/ /\ refresh[p].at = "asked"
          /\ refresh' = [refresh EXCEPT ![p] = [at |-> "fetched", seen |-> Truth, late |-> 0]]
          /\ UNCHANGED lookups
       \/ /\ refresh[p].at = "fetched"
          /\ lookups' = [lookups EXCEPT ![p] = [Current(refresh[p].seen) EXCEPT !.late = refresh[p].late]]
          /\ refresh' = [refresh EXCEPT ![p] = [at |-> "idle"]]
    /\ UNCHANGED <<sourceVars, answerVars, memo, reader, faults>>

-----------------------------------------------------------------------------
(***************************************************************************)
(* The figures.  Sales that cannot be read, or of which there are none,    *)
(* are not kept; companies whose figures cannot be read are kept, with     *)
(* zeros, as an answer that is not whole.  The answer is kept in memory    *)
(* first, then in Redis.                                                   *)
(***************************************************************************)
Query(r, lost) ==
    /\ reader[r].at = "query"
    /\ MayLose(lost)
    /\ LET shown == IF lost THEN {} ELSE Shown(r.kind, reader[r].seen)
           answer == [facts |-> shown, seen |-> reader[r].seen, whole |-> ~lost, late |-> 0]
       IN  IF r.kind = "sales" /\ shown = {} THEN Idle(r)
           ELSE reader' = [reader EXCEPT ![r] =
                    [at |-> IF r.kind = "sales" THEN "keep_ram" ELSE "keep_redis",
                     answer |-> answer, late |-> reader[r].late]]
    /\ UNCHANGED <<sourceVars, answerVars, lookupVars>>

KeepInMemory(r) ==
    /\ reader[r].at = "keep_ram"
    /\ ram' = [ram EXCEPT ![r.p] = Kept(r)]
    /\ Goes(r, "keep_redis")
    /\ UNCHANGED <<sourceVars, redis, spare, lookupVars, faults>>

\* set_json_cache: Redis, or the spare store of the process.
Keep(p, kind, answer, lost) ==
    IF lost
    THEN spare' = [spare EXCEPT ![p][kind] = answer] /\ UNCHANGED redis
    ELSE redis' = [redis EXCEPT ![kind] = answer] /\ UNCHANGED spare

KeepInRedis(r, lost) ==
    /\ reader[r].at = "keep_redis"
    /\ MayLose(lost)
    /\ Keep(r.p, r.kind, Kept(r), lost)
    /\ Idle(r)
    /\ UNCHANGED <<sourceVars, ram, lookupVars>>

RequestStep(r, lost) ==
    \/ Query(r, lost) \/ KeepInRedis(r, lost)
    \/ ~lost /\ (KeepFound(r) \/ ReadLookups(r) \/ InstallLookups(r) \/ KeepInMemory(r))

-----------------------------------------------------------------------------
(***************************************************************************)
(* invalidate_analytics_cache, run by process p: the keys of one kind in   *)
(* Redis and in its own spare store, and then its memory.  If the deletion *)
(* in Redis fails the invalidation goes on.                                *)
(***************************************************************************)
InHand(r) == reader[r].at \in {"hit", "keep_ram", "keep_redis"}

Seen(r) == IF InHand(r) THEN reader[r].answer.seen ELSE reader[r].seen

Outdated(seen) == <<seen.known, seen.date>> # <<Truth.known, Truth.date>>

\* Has a request in hand what is wrong: figures, or the lookups of p?
Wrong(r, p) ==
    \/ InHand(r) /\ Stale(r.kind, reader[r].answer)
    \/ r.p = p /\ (InHand(r) \/ reader[r].at \in {"fetched", "query"}) /\ Outdated(Seen(r))

Late(S, n) ==
    [r \in Reader |-> IF r \in S THEN [reader[r] EXCEPT !.late = MaxOf({@, n})] ELSE reader[r]]

LateRefresh(p, n) ==
    IF refresh[p].at = "fetched" /\ Outdated(refresh[p].seen)
    THEN [refresh EXCEPT ![p].late = MaxOf({@, n})] ELSE refresh

LateLookups(p, n) ==
    IF lookups[p] # NoLookups /\ (n = 1 \/ lookups[p].late = 1) /\ Outdated(lookups[p])
    THEN [lookups EXCEPT ![p].late = MaxOf({@, n})] ELSE lookups

PurgeRedis(p, kind, n, lost) ==
    /\ MayLose(lost)
    /\ redis' = IF lost THEN redis ELSE [redis EXCEPT ![kind] = NoAnswer]
    /\ spare' = [spare EXCEPT ![p][kind] = NoAnswer]
    /\ reader' = Late({r \in Reader : (r.kind = kind \/ r.p = p) /\ Wrong(r, p)}, n)
    /\ refresh' = LateRefresh(p, n)
    /\ lookups' = LateLookups(p, n)
    /\ UNCHANGED <<sourceVars, ram, memo>>

PurgeMemory(p, n) ==
    /\ ram' = [ram EXCEPT ![p] = NoAnswer]
    /\ lookups' = [lookups EXCEPT ![p] = NoLookups]
    /\ reader' = Late({r \in Reader : r.p = p /\ Wrong(r, p)}, n)
    /\ refresh' = LateRefresh(p, n)
    /\ UNCHANGED <<sourceVars, redis, spare, memo, faults>>

\* set_latest_sale_date_cached: the newest date of this import, even when
\* other sales are newer.
RememberDate(p, date) ==
    /\ memo' = [memo EXCEPT ![p] = date]
    /\ UNCHANGED <<sourceVars, answerVars, lookups, refresh, reader, faults>>

\* prewarm_mobile_companies_cache: the answer up to the remembered date.
Prewarm(p, lost) ==
    LET seen == [known |-> Truth.known, date |-> Remembered(p)]
    IN  /\ MayLose(lost)
        /\ memo' = [memo EXCEPT ![p] = Remembered(p)]
        /\ lookups' = IF lookups[p] = NoLookups
                      THEN [lookups EXCEPT ![p] = Current(Truth)] ELSE lookups
        /\ \E whole \in BOOLEAN :
              /\ ~lost => whole
              /\ Keep(p, "companies",
                      [facts |-> IF whole THEN Shown("companies", seen) ELSE {},
                       seen |-> seen, whole |-> whole, late |-> 0], lost /\ whole)
        /\ UNCHANGED <<sourceVars, ram, refresh, reader>>

-----------------------------------------------------------------------------
\* A day has passed: bounded by the mixes that let it.
ExpireRedis(kind) ==
    /\ mix.expiry /\ redis[kind] # NoAnswer
    /\ redis' = [redis EXCEPT ![kind] = NoAnswer]
    /\ UNCHANGED <<sourceVars, ram, spare, lookupVars, reader>>

ExpireMemory(p) ==
    /\ mix.expiry /\ ram[p] # NoAnswer
    /\ ram' = [ram EXCEPT ![p] = NoAnswer]
    /\ UNCHANGED <<sourceVars, redis, spare, lookupVars, reader>>

ExpireSpare(p, kind) ==
    /\ mix.expiry /\ spare[p][kind] # NoAnswer
    /\ spare' = [spare EXCEPT ![p][kind] = NoAnswer]
    /\ UNCHANGED <<sourceVars, redis, ram, lookupVars, reader>>

ExpireLookups(p) ==
    /\ mix.expiry /\ lookups[p] # NoLookups /\ ~ lookups[p].expired
    /\ lookups' = [lookups EXCEPT ![p].expired = TRUE]
    /\ UNCHANGED <<sourceVars, answerVars, memo, refresh, reader>>

ExpireMemo(p) ==
    /\ mix.expiry /\ memo[p] # 0
    /\ memo' = [memo EXCEPT ![p] = 0]
    /\ UNCHANGED <<sourceVars, answerVars, lookups, refresh, reader>>

ResponseInit ==
    /\ summary = mix.sales.summary /\ credited = mix.sales.credited
    /\ redis = [k \in Kinds |-> NoAnswer]
    /\ ram = [p \in Process |-> NoAnswer]
    /\ spare = [p \in Process |-> [k \in Kinds |-> NoAnswer]]
    /\ lookups = [p \in Process |-> NoLookups]
    /\ memo = [p \in Process |-> 0]
    /\ refresh = [p \in Process |-> [at |-> "idle"]]
    /\ reader = [r \in Reader |-> [at |-> "idle"]]
=============================================================================
