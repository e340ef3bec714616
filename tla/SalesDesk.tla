------------------------------ MODULE SalesDesk ------------------------------
(***************************************************************************)
(* A sales import from its sheet to the mobile report: process_upload of   *)
(* uploads/service.py composed of the resolution of names (MasterData),    *)
(* the validation (RowValidation), the credit to persons and their         *)
(* territories, the aggregation and the clearing of the caches             *)
(* (ResponseCache); the report adds a person's sales to managers           *)
(* (SalesReport).  How an upload is locked, staged, cancelled and rolled   *)
(* back is in UploadPipeline; here a failure takes back what was written.  *)
(*                                                                         *)
(* A sale is a row of a sheet: name (in the table the mix follows), hq,    *)
(* ase, asm, date and cases.                                               *)
(***************************************************************************)
EXTENDS ResponseCache, SalesReport

\* Sales, and sales credited to a person; a sale that names no company of the
\* table has some other.
Sold     == [import : Nat, row : Nat, date : Nat]
SoldBy   == [import : Nat, row : Nat, date : Nat, user : Person,
             company : SomeId \cup {<<"any">>}]

\* User Management knows every person.
ListsAll(d) == d \in Directory /\ \A u \in Person : \E k \in DOMAIN d.order : d.order[k] = u

ASSUME DeskAssumption ==
    /\ Hq = Place /\ NoHq = NoPlace
    /\ \A m \in Mixes :
          /\ m.until \in {"resolved", "done"} /\ m.expiry \in BOOLEAN
          /\ m.deskFaults \in Nat /\ m.cacheFaults \in Nat
          /\ m.imports \subseteq Import /\ Import \subseteq Nat /\ m.readers \subseteq Reader
          /\ \A d \in m.directories \cup m.edits : ListsAll(d)
          /\ \A s \in m.sheets : \A k \in DOMAIN s :
                s[k].ase \in Label /\ s[k].asm \in Label /\ s[k].date \in Nat
          /\ IsFiniteSet(m.sales.summary) /\ m.sales.summary \subseteq Sold
          /\ m.sales.credited \subseteq SoldBy
          /\ \A s \in m.sales.summary \cup m.sales.credited : s.import \notin Import
          /\ \A r \in m.readers : r.p \in m.processes
          /\ \A S \in m.priors : \A s \in m.sales.credited :
                m.table = "companies" => \E r \in S : s.company = Id(r)

VARIABLES
    facts,      \* sales_fact: the sales published
    directory,  \* User Management
    edited      \* has it been edited

deskVars == <<facts, directory, edited>>
vars     == <<masterVars, responseVars, deskVars>>

Publishing == {"sync", "aggregate", "purge_sales", "purge_companies", "purge_memory",
               "date", "purge_sales_again", "purge_companies_again", "purge_memory_again"}

AfterPublishing == {"prewarm", "done"}

Sales(i) == {[import |-> i, row |-> k, date |-> Sheet(i)[k].date] : k \in DOMAIN Sheet(i)}
Dates(i) == {s.date : s \in Sales(i)}
RowOfSale(s) == Sheet(s.import)[s.row]

Follows(i, from, to) == At(i, from) /\ import' = [import EXCEPT ![i].at = to]

MayBreak(lost) ==
    /\ lost => faults < mix.deskFaults
    /\ faults' = IF lost THEN faults + 1 ELSE faults

-----------------------------------------------------------------------------
(***************************************************************************)
(* Validation, on one reading of User Management: when it fails the import *)
(* fails, unless only the headquarters are missing; then nobody has one.   *)
(* Any error refuses the whole sheet.                                      *)
(***************************************************************************)
Unmapped(i, row) ==
    /\ mix.table # "companies"
    /\ \/ Clean[row.name] = NoKey
       \/ IdFor(i, row.name) = NoId

Validate(i, lost) ==
    LET missed == {k \in DOMAIN Sheet(i) : Unmapped(i, Sheet(i)[k])}
        verdict(d) == IF Errors(d, Sheet(i), missed) = {} THEN "publish" ELSE "refused"
    IN  /\ mix.until = "done"
        /\ MayBreak(lost)
        /\ \/ ~lost /\ Follows(i, "resolved", verdict(directory))
           \/ lost /\ Follows(i, "resolved", "failed")
           \/ lost /\ Follows(i, "resolved", verdict(WithoutPlaces(directory)))
        /\ UNCHANGED <<tableVars, cacheVars, mix, responseVars, deskVars>>

Publish(i) ==
    /\ Follows(i, "publish", "credit")
    /\ facts' = facts \cup Sales(i)
    /\ UNCHANGED <<tableVars, cacheVars, boundVars, responseVars, directory, edited>>

\* A failure, or a cancellation, takes back the sales.  No cache is cleared.
Withdraw(i) ==
    /\ import[i].at \in {"publish", "credit", "aggregate"}
    /\ MayBreak(TRUE)
    /\ import' = [import EXCEPT ![i].at = "withdrawn"]
    /\ facts' = {s \in facts : s.import # i}
    /\ credited' = {s \in credited : s.import # i}
    /\ UNCHANGED <<tableVars, cacheVars, mix, summary, answerVars, lookupVars, reader,
                   directory, edited>>

-----------------------------------------------------------------------------
(***************************************************************************)
(* _populate_user_sales_fact: User Management is read once more.  Rows     *)
(* without an ASE or whose company has no id are left out, and those of    *)
(* somebody inactive on the day.  If it fails any part may be there, and   *)
(* the import goes on.                                                     *)
(***************************************************************************)
CompanyOf(i, row) ==
    IF ~ Is("companies") THEN <<"any">>
    ELSE IF Clean[row.name] = NoKey THEN NoId ELSE IdFor(i, row.name)

\* Mutant: a row without an ASE is credited to nobody.
CreditedToNobody(i, s) ==
    LET u == UserId(directory, RowOfSale(s).ase)
    IN  /\ CompanyOf(i, RowOfSale(s)) # NoId
        /\ \/ u \in {Nobody} \cup directory.active
           \/ directory.since[u] # 0 /\ s.date < directory.since[u]

Credited(i, s) ==
    LET u == UserId(directory, RowOfSale(s).ase)
    IN  /\ u # Nobody /\ CompanyOf(i, RowOfSale(s)) # NoId
        /\ \/ u \in directory.active
           \/ directory.since[u] # 0 /\ s.date < directory.since[u]

Credits(i) ==
    {[import |-> s.import, row |-> s.row, date |-> s.date,
      user |-> UserId(directory, RowOfSale(s).ase), company |-> CompanyOf(i, RowOfSale(s))] :
        s \in {s \in Sales(i) : Credited(i, s)}}

Credit(i, lost) ==
    /\ Follows(i, "credit", "sync")
    /\ MayBreak(lost)
    /\ \E part \in IF lost THEN SUBSET Credits(i) ELSE {Credits(i)} :
          credited' = credited \cup part
    /\ UNCHANGED <<tableVars, cacheVars, mix, summary, answerVars, lookupVars, reader, deskVars>>

\* Mutant: nobody is registered.
SyncNothing(i, lost) ==
    /\ Follows(i, "sync", "aggregate")
    /\ MayBreak(lost)
    /\ UNCHANGED <<tableVars, cacheVars, mix, responseVars, deskVars>>

(***************************************************************************)
(* _sync_user_territory_mappings: a person the sheet names who has no      *)
(* headquarters, active or not, is registered in the first one.  When a    *)
(* call fails, some may be left out; when it is the reading of those who   *)
(* have one, everybody named is registered, in one more.                   *)
(***************************************************************************)
SyncTerritory(i, lost) ==
    LET s == Sheet(i)
        named(u) == {k \in DOMAIN s : /\ s[k].hq # NoPlace
                                      /\ \E l \in {s[k].ase, s[k].asm} : UserIdByRow(directory, l) = u}
        first(u) == s[CHOOSE k \in named(u) : \A j \in named(u) : k <= j].hq
        listed   == {u \in Person : named(u) # {}}
        without  == {u \in listed : directory.places[u] = {}}
        registered(who) == [u \in Person |->
            IF u \in who THEN directory.places[u] \cup {first(u)} ELSE directory.places[u]]
    IN  /\ Follows(i, "sync", "aggregate")
        /\ MayBreak(lost)
        /\ \/ \E who \in IF lost THEN SUBSET without ELSE {without} :
                  directory' = [directory EXCEPT !.places = registered(who)]
           \/ lost /\ directory' = [directory EXCEPT !.places = registered(listed)]
        /\ UNCHANGED <<tableVars, cacheVars, mix, responseVars, facts, edited>>

\* The summaries of the dates of the import are computed anew, date by date;
\* one that fails is passed over.
Aggregate(i, lost) ==
    /\ Follows(i, "aggregate", "purge_sales")
    /\ MayBreak(lost)
    /\ \E dates \in IF lost THEN SUBSET Dates(i) \ {Dates(i)} ELSE {Dates(i)} :
          summary' = {s \in summary : s.date \notin dates} \cup {s \in facts : s.date \in dates}
    /\ UNCHANGED <<tableVars, cacheVars, mix, credited, answerVars, lookupVars, reader, deskVars>>

-----------------------------------------------------------------------------
\* Mutant: the second clearing leaves the memory of the process alone.
ClearRedisAgain(i, lost) ==
    LET p == import[i].p
        deskUnchanged == UNCHANGED <<tableVars, cacheVars, mix, deskVars>>
    IN  \/ Follows(i, "purge_sales_again", "purge_companies_again")
              /\ PurgeRedis(p, "sales", 2, lost) /\ deskUnchanged
        \/ Follows(i, "purge_companies_again", "purge_memory_again")
              /\ PurgeRedis(p, "companies", 2, lost) /\ deskUnchanged
        \/ ~lost /\ Follows(i, "purge_memory_again", "prewarm") /\ deskUnchanged
              /\ UNCHANGED <<responseVars, faults>>

\* The caches are cleared when the summaries are there and again when the
\* import is loaded.
Clear(i, lost) ==
    LET p == import[i].p
        deskUnchanged == UNCHANGED <<tableVars, cacheVars, mix, deskVars>>
    IN  \/ Follows(i, "purge_sales", "purge_companies") /\ PurgeRedis(p, "sales", 1, lost)
              /\ deskUnchanged
        \/ Follows(i, "purge_companies", "purge_memory") /\ PurgeRedis(p, "companies", 1, lost)
              /\ deskUnchanged
        \/ ~lost /\ Follows(i, "purge_memory", "date") /\ PurgeMemory(p, 1) /\ deskUnchanged

ClearAgain(i, lost) ==
    LET p == import[i].p
        deskUnchanged == UNCHANGED <<tableVars, cacheVars, mix, deskVars>>
    IN  \/ Follows(i, "purge_sales_again", "purge_companies_again")
              /\ PurgeRedis(p, "sales", 2, lost) /\ deskUnchanged
        \/ Follows(i, "purge_companies_again", "purge_memory_again")
              /\ PurgeRedis(p, "companies", 2, lost) /\ deskUnchanged
        \/ ~lost /\ Follows(i, "purge_memory_again", "prewarm") /\ PurgeMemory(p, 2)
              /\ deskUnchanged

SetLatestDate(i) ==
    /\ Follows(i, "date", "purge_sales_again")
    /\ RememberDate(import[i].p, MaxOf(Dates(i)))
    /\ UNCHANGED <<tableVars, cacheVars, mix, deskVars>>

Finish(i, lost) ==
    /\ Follows(i, "prewarm", "done")
    /\ Prewarm(import[i].p, lost)
    /\ UNCHANGED <<tableVars, cacheVars, mix, deskVars>>

DeskStep(i, lost) ==
    \/ Validate(i, lost) \/ Credit(i, lost) \/ SyncTerritory(i, lost) \/ Aggregate(i, lost)
    \/ Clear(i, lost) \/ ClearAgain(i, lost) \/ Finish(i, lost)
    \/ ~lost /\ (Publish(i) \/ Withdraw(i) \/ SetLatestDate(i))

-----------------------------------------------------------------------------
\* An administrator edits User Management, once.
EditDirectory ==
    /\ ~edited
    /\ directory' \in mix.edits
    /\ edited' = TRUE
    /\ UNCHANGED <<masterVars, responseVars, facts>>

\* Bound: what follows the resolution is not followed further in this mix.
Leave(i) ==
    /\ mix.until = "resolved"
    /\ Follows(i, "resolved", "done")
    /\ UNCHANGED <<tableVars, cacheVars, boundVars, responseVars, deskVars>>

Init ==
    /\ MasterInit /\ ResponseInit
    /\ facts = mix.sales.summary
    /\ directory \in mix.directories
    /\ edited = FALSE

Resolve == \E i \in Import : \E lost \in BOOLEAN :
    ResolveStep(i, lost) /\ UNCHANGED <<responseVars, deskVars>>

\* Imports are numbered in the order in which they begin.
Upload == \E i \in mix.imports : \E p \in mix.processes, s \in mix.sheets :
    /\ \A j \in Import : j < i => ~ At(j, "idle")
    /\ BeginImport(i, p, s)
    /\ UNCHANGED <<responseVars, deskVars>>

Remove == \E r \in rows : RemoveDepot(r) /\ UNCHANGED <<responseVars, deskVars>>

ImportStep == \E i \in Import : (\E lost \in BOOLEAN : DeskStep(i, lost)) \/ Leave(i)

others == <<tableVars, cacheVars, import, mix, deskVars>>

NewRequest == \E r \in mix.readers : \E lost \in BOOLEAN : Ask(r, lost) /\ UNCHANGED others

Answering(r) == (\E lost \in BOOLEAN : RequestStep(r, lost)) /\ UNCHANGED others

Refreshing(p) == RefreshLookups(p) /\ UNCHANGED others

Expiring(kind, p) ==
    \/ ExpireRedis(kind) \/ ExpireMemory(p) \/ ExpireSpare(p, kind)
    \/ ExpireLookups(p) \/ ExpireMemo(p)

Expiry == \E k \in Kinds : \E p \in mix.processes : Expiring(k, p) /\ UNCHANGED <<faults, others>>

Next ==
    \/ Upload \/ Resolve \/ Remove \/ ImportStep \/ EditDirectory
    \/ NewRequest \/ (\E r \in mix.readers : Answering(r))
    \/ (\E p \in mix.processes : Refreshing(p)) \/ Expiry

(***************************************************************************)
(* Fairness: a request that began goes on, the background reading of       *)
(* lookups too, and time passes.  Nothing makes requests or imports begin. *)
(***************************************************************************)
Fairness ==
    /\ \A r \in Reader : WF_vars(r \in mix.readers /\ Answering(r))
    /\ \A k \in Kinds : WF_vars(ExpireRedis(k) /\ UNCHANGED <<faults, others>>)
    /\ \A p \in Process :
          /\ WF_vars(Refreshing(p))
          /\ WF_vars(ExpireMemory(p) /\ UNCHANGED <<faults, others>>)
          /\ WF_vars(ExpireLookups(p) /\ UNCHANGED <<faults, others>>)
          /\ WF_vars(ExpireMemo(p) /\ UNCHANGED <<faults, others>>)
          /\ \A k \in Kinds : WF_vars(ExpireSpare(p, k) /\ UNCHANGED <<faults, others>>)

Spec == Init /\ [][Next]_vars /\ Fairness

-----------------------------------------------------------------------------
\* Type correctness; what is in progress never reaches into other imports, and
\* the summaries show nothing that is not published.
TypeOK ==
    /\ MasterTypeOK /\ ResponseTypeOK
    /\ facts \subseteq Sold /\ summary \subseteq Sold /\ credited \subseteq SoldBy
    /\ \A s \in facts \cup summary : s.import \in Import => s \in Sales(s.import)
    /\ Overlapped \/ summary \subseteq facts \cup mix.sales.summary
    /\ directory \in Directory /\ edited \in BOOLEAN
    /\ \A r \in Reader : reader[r].at # "idle" => r \in mix.readers

(***************************************************************************)
(* A sale is published only where its people work: when an import has gone *)
(* through, the headquarters of each of its rows is one that the ASE and   *)
(* the manager of the row are registered in, the first import of a person  *)
(* deciding it.  Needs the import to run alone (another one may register a *)
(* person after the sheet was validated), User Management to be unedited,  *)
(* no failed call, the label to mean the same person with and without      *)
(* regard to who is active, and the person to be named in one way in the   *)
(* sheet, or in one headquarters.                                          *)
(***************************************************************************)
NamedOnce(i, u) ==
    LET ways == {w \in {"ase", "asm"} \X Items(i) : UserId(directory, w[2][w[1]]) = u}
    IN  \/ Cardinality({<<w[1], w[2][w[1]]>> : w \in ways}) <= 1
        \/ Cardinality({w[2].hq : w \in ways}) <= 1

SalesStayInTerritory ==
    \A s \in facts :
        LET i == s.import
        IN  i \in Import /\ import[i].at \in (Publishing \ {"sync"}) \cup AfterPublishing
            /\ import[i].alone /\ faults = 0 /\ ~edited
            => \A l \in {RowOfSale(s).ase, RowOfSale(s).asm} :
                   LET u == UserId(directory, l)
                   IN  \/ u = Nobody \/ RowOfSale(s).hq = NoPlace
                       \/ RowOfSale(s).hq \in directory.places[u]
                       \/ u \notin directory.active \/ u # UserIdByRow(directory, l)
                       \/ ~ NamedOnce(i, u)

(***************************************************************************)
(* A sale is never counted for two managers, whatever the order in which a *)
(* process visits them, unless the person is inactive and has an active    *)
(* namesake, or is a manager below another one.  While User Management is  *)
(* as it was when the sale was accepted, it is counted for the manager the *)
(* sheet names, as long as he is a manager and no two managers have one    *)
(* name.                                                                   *)
(***************************************************************************)
Rows(u) == {k \in DOMAIN directory.mapping : directory.mapping[k].ase = u}

Doubled(u) == \/ Alias(directory, u) # u
              \/ u \in directory.roles /\ Rows(u) # {}

Namesakes == \E u, v \in directory.roles : u # v /\ FullName[u] = FullName[v]

SingleCredit ==
    \A c \in {c \in credited : c.import \in Import} : \A o \in Orders(directory) :
        LET manager == UserId(directory, RowOfSale(c).asm)
            counted == MemberToTsms(directory, o, c.user)
        IN  /\ Cardinality(counted) <= 1 \/ Doubled(c.user)
            /\ \/ edited
               \/ counted = {IF manager = Nobody THEN c.user ELSE manager}
               \/ Namesakes \/ Doubled(c.user) \/ Cardinality(Rows(c.user)) > 1
               \/ (IF manager = Nobody THEN c.user ELSE manager) \notin directory.roles

(***************************************************************************)
(* Between imports, what Redis keeps shows exactly the sales there are, as *)
(* far as the lookups it was computed with reach, and so does what a       *)
(* process keeps that did all the imports.  If there is no other process,  *)
(* imports do not overlap and nothing grows a day old, the lookups are up  *)
(* to date as well, unless an import has set the remembered date behind    *)
(* sales already there.  One failed call does not spoil this.  It does not *)
(* cover answers that were in hand, already wrong, during the second       *)
(* clearing - or during the first one, when a call failed -, sales of an   *)
(* import taken back, and companies kept with zeros.                       *)
(***************************************************************************)
Quiet == \A i \in Import : import[i].at \notin Publishing

Withdrawn(f) == f[1] \in Import /\ import[f[1]].at = "withdrawn"

Standing(F) == {f \in F : ~ Withdrawn(f)}

Excused(a) == a.late = 2 \/ (a.late = 1 /\ faults > 0) \/ ~ a.whole

Right(kind, a) == Standing(a.facts) = Standing(Shown(kind, a.seen))

UpToDate(kind, a) == Standing(a.facts) = Standing(Shown(kind, Truth))

KeptBy(p) == {<<"sales", ram[p]>>} \cup {<<k, spare[p][k]>> : k \in Kinds}
InRedis   == {<<k, redis[k]>> : k \in Kinds}

DidAll(p) == \A i \in Import : import[i].at \in AfterPublishing => import[i].p = p

SetBack(p) == memo[p] # 0 /\ memo[p] < Truth.date

CacheIsFresh ==
    Quiet /\ faults <= 1 =>
        \A p \in Process :
            \A a \in InRedis \cup (IF DidAll(p) THEN KeptBy(p) ELSE {}) :
                a[2] = NoAnswer \/ Excused(a[2])
                \/ /\ Right(a[1], a[2])
                   /\ \/ mix.processes # {p} \/ mix.expiry \/ Overlapped \/ SetBack(p)
                      \/ UpToDate(a[1], a[2])

(***************************************************************************)
(* Whatever wrong answer got into a cache, after the last import the       *)
(* caches come to hold nothing but the sales there are.                    *)
(***************************************************************************)
Settled == \A i \in Import : ~ UnderWay(i)

IsTrue(a) == a[2] = NoAnswer \/ a[2].facts = Shown(a[1], Truth)

CachesAreClean == \A p \in Process : \A a \in KeptBy(p) \cup InRedis : IsTrue(a)

StaleAnswersDie == <>[](mix.expiry /\ Settled => CachesAreClean)
=============================================================================
