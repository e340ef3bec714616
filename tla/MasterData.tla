----------------------------- MODULE MasterData -----------------------------
(***************************************************************************)
(* How an import turns the names of a sheet into rows of a master table:   *)
(* master_data/service.py, prefetch_all_caches and the bulk_resolve        *)
(* methods.  A mix follows one table.  "depots" stands for the five tables *)
(* that are resolved alike (groups, offices, circles, depots, packagings). *)
(*                                                                         *)
(* Each process keeps its own cache of names, shared by its imports and    *)
(* never emptied.  The database gives a name to one row; names that differ *)
(* in case or spacing have the same key and would be two rows.  Every call *)
(* to the database is a step; `lost' says that it raised, and an insert    *)
(* that raised may have been carried out.                                  *)
(***************************************************************************)
EXTENDS Naturals, FiniteSets, Sequences

CONSTANTS
    Process,        \* server processes
    Import,         \* imports, each of one sheet
    Name,           \* names as written in a sheet
    Clean, Tight,   \* the keys of a name: without case, and without spaces too
    NoKey,          \* the key of a blank name
    Hq, NoHq,       \* headquarters of a licensee
    Mixes           \* bound: the scenarios

Key == {Clean[n] : n \in Name} \cup {Tight[n] : n \in Name}

Tables == {"depots", "headquarters", "companies", "licensees", "brands"}

\* A row deleted and created again has another id.
MaybeHq == Hq \cup {NoHq}
Row     == [name : Name, gen : Nat, hq : MaybeHq]
Id(r)   == <<r.name, r.gen>>
NoId    == <<>>
SomeId  == Name \X Nat
Item    == [name : Name, hq : MaybeHq]

\* Rows no two of which have one key.
OneEach(S) == \A r, q \in S : Clean[r.name] = Clean[q.name] => r = q

(***************************************************************************)
(* The tight key of a name follows from its clean key, a blank name has    *)
(* none, and a tight key is its own.  (Not so of companies like "o ther"   *)
(* or "an d", whose spaces part a word that is treated by itself.)  Names  *)
(* that are not blank may have a blank tight key: headquarters called "-", *)
(* and companies called "-", "India" or "S & Co".  The tables start with   *)
(* one row for each key.                                                   *)
(***************************************************************************)
ASSUME MasterAssumption ==
    /\ Process # {}
    /\ Clean \in [Name -> Key] /\ Tight \in [Name -> Key]
    /\ \A m, n \in Name : Clean[m] \in {Clean[n], Tight[n]} => Tight[m] = Tight[n]
    /\ \A n \in Name : Clean[n] = NoKey => Tight[n] = NoKey
    /\ NoHq \notin Hq
    /\ \A m \in Mixes :
          /\ m.table \in Tables /\ m.processes \subseteq Process
          /\ m.faults \in Nat /\ m.removals \in Nat /\ m.overlap \in BOOLEAN
          /\ \A s \in m.sheets :
                /\ Len(s) \in Nat /\ DOMAIN s = 1 .. Len(s)
                /\ \A k \in DOMAIN s : s[k].name \in Name /\ s[k].hq \in MaybeHq
          /\ \A S \in m.priors :
                /\ S \subseteq Row /\ OneEach(S)
                /\ \A r \in S : Clean[r.name] # NoKey /\ r.gen = 0

VARIABLES
    rows,           \* the table
    cached,         \* name cache of each process: key to id
    hqCached,       \* _licensee_hq_cache of each process: key to headquarters
    loaded,         \* processes that have read the tenant's brands
    import,         \* the imports
    removed,        \* how many depots have been deleted
    faults, mix     \* bounds

tableVars  == <<rows, removed>>
cacheVars  == <<cached, hqCached, loaded>>
boundVars  == <<faults, mix>>
masterVars == <<tableVars, cacheVars, import, boundVars>>

Resolving == {"prefetch", "collect", "move", "insert", "insert_one",
              "insert_minimal", "read_again", "refresh"}

Is(table)  == mix.table = table
Cached(i)  == cached[import[i].p]
Sheet(i)   == import[i].sheet
Items(i)   == {Sheet(i)[k] : k \in DOMAIN Sheet(i)}
At(i, label) == import[i].at = label

\* An import that has its ids goes on in SalesDesk.
Working == {"resolved", "publish", "credit", "sync", "aggregate", "purge_sales",
            "purge_companies", "purge_memory", "date", "purge_sales_again",
            "purge_companies_again", "purge_memory_again", "prewarm"}

Ended == {"idle", "failed", "refused", "withdrawn", "done"}

ImportState ==
    [at : Resolving \cup Working \cup Ended, p : Process, sheet : {<<>>} \cup UNION {m.sheets : m \in Mixes},
     todo : SUBSET Item, last : SUBSET Item, moves : SUBSET (SomeId \X MaybeHq),
     alone : BOOLEAN, failed : Nat]

MasterTypeOK ==
    /\ rows \subseteq Row
    /\ cached \in [Process -> [Key -> SomeId \cup {NoId}]]
    /\ hqCached \in [Process -> [Key -> MaybeHq]]
    /\ loaded \subseteq Process
    /\ import \in [Import -> ImportState]
    /\ \A i \in Import : At(i, "idle") \/ Sheet(i) \in mix.sheets
    /\ removed \in 0 .. mix.removals /\ faults \in Nat /\ mix \in Mixes

-----------------------------------------------------------------------------
(***************************************************************************)
(* Keys and caches.  Headquarters and companies are known by both keys,    *)
(* companies also by the blank one: all whose tight key is blank share it. *)
(* When rows share a key the one read last is kept; their order is not     *)
(* determined, and `last' is one that comes after its rivals.              *)
(***************************************************************************)
Keys(n) ==
    CASE Is("companies")    -> {Clean[n], Tight[n]}
      [] Is("headquarters") -> {Clean[n], Tight[n]} \ {NoKey}
      [] OTHER              -> {Clean[n]} \ {NoKey}

\* The id a row of the sheet gets for its name.
IdFor(i, n) ==
    LET clean == Cached(i)[Clean[n]]
        tight == Cached(i)[Tight[n]]
    IN  IF (Is("companies") /\ tight # NoId) \/ (Is("headquarters") /\ clean = NoId)
        THEN tight ELSE clean

Holders(S, k) == {r \in S : k \in Keys(r.name)}

Rivals(S) ==
    {r \in S : \E q \in S \ {r} : Keys(q.name) \cap Keys(r.name) # {}}

Lasts(S) == IF Rivals(S) = {} THEN {NoId} ELSE Rivals(S)

Winner(S, k, last) ==
    IF last \in Holders(S, k) THEN last ELSE CHOOSE r \in Holders(S, k) : TRUE

Ids(c, S, last) ==
    [k \in Key |-> IF Holders(S, k) = {} THEN c[k] ELSE Id(Winner(S, k, last))]

Hqs(h, S, last) ==
    [k \in Key |-> IF Holders(S, k) = {} \/ ~ Is("licensees") THEN h[k]
                    ELSE Winner(S, k, last).hq]

Store(S, p) ==
    \E last \in Lasts(S) :
        /\ cached' = [cached EXCEPT ![p] = Ids(@, S, last)]
        /\ hqCached' = [hqCached EXCEPT ![p] = Hqs(@, S, last)]

MayFail(i, lost) ==
    /\ lost => faults < mix.faults
    /\ faults' = IF lost THEN faults + 1 ELSE faults

Fails(i, lost) ==
    IF lost THEN import[i].failed + 1 ELSE import[i].failed

-----------------------------------------------------------------------------
(***************************************************************************)
(* An import begins.  Imports overlap only in a mix that says so: the      *)
(* system lock is there to prevent it.                                     *)
(***************************************************************************)
UnderWay(i) == import[i].at \notin Ended

BeginImport(i, p, s) ==
    /\ At(i, "idle")
    /\ mix.overlap \/ \A j \in Import : ~ UnderWay(j)
    /\ import' = [j \in Import |->
           IF j = i THEN [import[i] EXCEPT !.at = "prefetch", !.p = p, !.sheet = s,
                              !.alone = \A q \in Import : ~ UnderWay(q)]
           ELSE IF UnderWay(j) THEN [import[j] EXCEPT !.alone = FALSE]
           ELSE import[j]]
    /\ UNCHANGED <<tableVars, cacheVars, boundVars>>

\* prefetch_all_caches reads every table but headquarters and companies;
\* what it reads of the brands is not what brands are resolved with.
\* A failure fails the import.
Prefetch(i, lost) ==
    /\ At(i, "prefetch")
    /\ MayFail(i, lost)
    /\ import' = [import EXCEPT ![i].at = IF lost THEN "failed" ELSE "collect"]
    /\ IF ~lost /\ mix.table \in {"depots", "licensees"}
       THEN Store(rows, import[i].p) /\ UNCHANGED loaded
       ELSE UNCHANGED cacheVars
    /\ UNCHANGED <<tableVars, mix>>

-----------------------------------------------------------------------------
(***************************************************************************)
(* What is missing.  Headquarters and companies are read when the cache is *)
(* empty, brands once in the life of a process; a failed read is ignored   *)
(* and not repeated for the brands.  Of several items with one key the     *)
(* last one counts, except that companies are told apart by their names.   *)
(* Empty cells are left out.                                               *)
(***************************************************************************)
\* Mutant: companies are taken to be read already.
CompaniesRead(p) ==
    \/ Is("headquarters") /\ \A k \in Key : cached[p][k] = NoId
    \/ Is("brands") /\ p \notin loaded

ReadsFirst(p) ==
    \/ mix.table \in {"headquarters", "companies"}
          /\ \A k \in Key : cached[p][k] = NoId
    \/ Is("brands") /\ p \notin loaded

Later(s, k) ==
    \E j \in DOMAIN s : j > k /\ Clean[s[j].name] = Clean[s[k].name]

\* Mutant: two spellings of one name in a sheet are both inserted.
MissingSpellings(c, s) ==
    {[name |-> s[k].name, hq |-> s[k].hq] :
        k \in {k \in DOMAIN s : /\ Clean[s[k].name] # NoKey
                                /\ \A key \in Keys(s[k].name) : c[key] = NoId}}

Missing(c, s) ==
    {[name |-> s[k].name, hq |-> s[k].hq] :
        k \in {k \in DOMAIN s : /\ Clean[s[k].name] # NoKey
                                /\ \A key \in Keys(s[k].name) : c[key] = NoId
                                /\ Later(s, k) => Is("companies")}}

\* A name known without its spaces is then known with them; a company takes
\* the id of the tighter key even when it has another one.
Complete(c, s) ==
    LET tight(k) == {Tight[s[j].name] : j \in {j \in DOMAIN s : Clean[s[j].name] = k}}
    IN  [k \in Key |->
           IF \E t \in tight(k) : c[t] # NoId /\ (Is("companies") \/ c[k] = NoId)
           THEN c[CHOOSE t \in tight(k) : TRUE] ELSE c[k]]

\* Mutant: the first headquarters counts.
FirstHq(s, key) ==
    LET given == {j \in DOMAIN s : Clean[s[j].name] = key /\ s[j].hq # NoHq}
    IN  s[CHOOSE j \in given : \A q \in given : q >= j].hq

LastHq(s, key) ==
    LET given == {j \in DOMAIN s : Clean[s[j].name] = key /\ s[j].hq # NoHq}
    IN  s[CHOOSE j \in given : \A q \in given : q <= j].hq

\* The keys of known licensees that the sheet puts under another headquarters.
MovedKeys(c, h, s) ==
    {key \in Key : /\ c[key] # NoId
                   /\ \E j \in DOMAIN s : /\ Clean[s[j].name] = key
                                          /\ s[j].hq \notin {NoHq, h[key]}}

Then(moves, todo) ==
    IF moves # {} THEN "move" ELSE IF todo # {} THEN "insert" ELSE "resolved"

Proceed(i, c, h) ==
    LET moved == IF Is("licensees") THEN MovedKeys(c, h, Sheet(i)) ELSE {}
        todo  == Missing(c, Sheet(i))
        moves == {<<c[key], LastHq(Sheet(i), key)>> : key \in moved}
    IN  /\ import' = [import EXCEPT ![i].todo = todo, ![i].moves = moves,
                                    ![i].at = Then(moves, todo)]
        /\ cached' = [cached EXCEPT ![import[i].p] =
               IF mix.table \in {"headquarters", "companies"}
               THEN Complete(c, Sheet(i)) ELSE c]
        /\ hqCached' = [hqCached EXCEPT ![import[i].p] = [key \in Key |->
               IF key \in moved THEN LastHq(Sheet(i), key) ELSE h[key]]]

Collect(i, lost) ==
    LET p == import[i].p
        reads == ReadsFirst(p)
    IN  /\ At(i, "collect")
        /\ lost => reads
        /\ MayFail(i, lost)
        /\ loaded' = IF Is("brands") THEN loaded \cup {p} ELSE loaded
        /\ IF reads /\ ~lost
           THEN \E last \in Lasts(rows) :
                    Proceed(i, Ids(cached[p], rows, last), hqCached[p])
           ELSE Proceed(i, cached[p], hqCached[p])
        /\ UNCHANGED <<tableVars, mix>>

-----------------------------------------------------------------------------
(***************************************************************************)
(* Writes.  Put inserts rows and, on conflict, updates only where the call *)
(* is an upsert.                                                           *)
(***************************************************************************)
Taken(n)      == \E r \in rows : r.name = n
Fresh(item)   == [name |-> item.name, gen |-> removed, hq |-> item.hq]
Collides(todo) == ~ Is("licensees") /\ \E t \in todo : Taken(t.name)

Upserted(todo) ==
    {IF \E t \in todo : t.name = r.name
     THEN [r EXCEPT !.hq = (CHOOSE t \in todo : t.name = r.name).hq] ELSE r : r \in rows}
    \cup {Fresh(t) : t \in {t \in todo : ~ Taken(t.name)}}

Named(S, todo) == {r \in S : \E t \in todo : t.name = r.name}

\* One of the headquarters of known licensees is changed; a failure gives up
\* the others.  The cache already says that all of them were.
MoveLicensee(i, lost) ==
    /\ At(i, "move")
    /\ MayFail(i, lost)
    /\ \E m \in import[i].moves :
          LET left == IF lost THEN {} ELSE import[i].moves \ {m}
          IN  /\ import' = [import EXCEPT ![i].moves = left,
                                ![i].failed = Fails(i, lost),
                                ![i].at = Then(left, import[i].todo)]
              /\ \/ rows' = {IF Id(r) = m[1] THEN [r EXCEPT !.hq = m[2]] ELSE r : r \in rows}
                 \/ lost /\ UNCHANGED rows
    /\ UNCHANGED <<removed, cacheVars, mix>>

(***************************************************************************)
(* The first write takes all that is missing.  If it raises, the licensees *)
(* and brands are written one by one, other tables are read again.         *)
(* Companies are written one by one in any case.                           *)
(***************************************************************************)
AfterInsert(raised) ==
    IF mix.table \in {"licensees", "brands"}
    THEN IF raised THEN "insert_one" ELSE "refresh"
    ELSE IF raised THEN "read_again" ELSE "resolved"

Insert(i, lost) ==
    LET todo   == import[i].todo
        raised == lost \/ Collides(todo)
    IN  /\ At(i, "insert") /\ ~ Is("companies")
        /\ MayFail(i, lost)
        /\ import' = [import EXCEPT ![i].at = AfterInsert(raised),
                                    ![i].failed = Fails(i, lost)]
        /\ \/ ~ Collides(todo) /\ rows' = Upserted(todo)
           \/ raised /\ UNCHANGED rows
        /\ IF raised THEN UNCHANGED <<cached, hqCached>>
           ELSE Store(Named(Upserted(todo), todo), import[i].p)
        /\ UNCHANGED <<removed, loaded, mix>>

ReadAgain(i, lost) ==
    /\ At(i, "read_again")
    /\ MayFail(i, lost)
    /\ import' = [import EXCEPT ![i].at = "resolved", ![i].failed = Fails(i, lost)]
    /\ IF lost THEN UNCHANGED <<cached, hqCached>> ELSE Store(rows, import[i].p)
    /\ UNCHANGED <<tableVars, loaded, mix>>

\* One item: a company, or a licensee or brand after the failed chunk.  A
\* licensee that fails is tried once more without its headquarters; other
\* failures are skipped.
Done(i, t) ==
    IF import[i].todo # {t} THEN import[i].at
    ELSE IF Is("companies") THEN "resolved" ELSE "refresh"

InsertOne(i, lost) ==
    /\ At(i, "insert_one") \/ (At(i, "insert") /\ Is("companies"))
    /\ MayFail(i, lost)
    /\ \E t \in import[i].todo :
          LET raised == lost \/ Collides({t})
              again  == lost /\ Is("licensees")
          IN  /\ import' = [import EXCEPT
                     ![i].at = IF again THEN "insert_minimal" ELSE Done(i, t),
                     ![i].todo = IF again THEN @ ELSE @ \ {t},
                     ![i].last = IF again THEN {t} ELSE {},
                     ![i].failed = Fails(i, lost)]
              /\ \/ ~ Collides({t}) /\ rows' = Upserted({t})
                 \/ raised /\ UNCHANGED rows
              /\ IF raised THEN UNCHANGED <<cached, hqCached>>
                 ELSE Store(Named(Upserted({t}), {t}), import[i].p)
    /\ UNCHANGED <<removed, loaded, mix>>

InsertMinimal(i, lost) ==
    /\ At(i, "insert_minimal")
    /\ MayFail(i, lost)
    /\ \E t \in import[i].last :
          LET bare == {Fresh([t EXCEPT !.hq = NoHq])}
              new  == IF Taken(t.name) THEN rows ELSE rows \cup bare
          IN  /\ import' = [import EXCEPT
                     ![i].at = IF import[i].todo = {t} THEN "refresh" ELSE "insert_one",
                     ![i].todo = @ \ {t}, ![i].last = {},
                     ![i].failed = Fails(i, lost)]
              /\ \/ rows' = new
                 \/ lost /\ UNCHANGED rows
              /\ IF lost THEN UNCHANGED <<cached, hqCached>>
                 ELSE Store(Named(new, {t}), import[i].p)
    /\ UNCHANGED <<removed, loaded, mix>>

\* Mutant: the table is not read again after the inserts.
NoRefresh(i, lost) ==
    /\ At(i, "refresh")
    /\ MayFail(i, lost)
    /\ import' = [import EXCEPT ![i].at = "resolved", ![i].failed = Fails(i, lost)]
    /\ UNCHANGED <<tableVars, cacheVars, mix>>

Refresh(i, lost) ==
    /\ At(i, "refresh")
    /\ MayFail(i, lost)
    /\ import' = [import EXCEPT ![i].at = "resolved", ![i].failed = Fails(i, lost)]
    /\ IF lost THEN UNCHANGED <<cached, hqCached>> ELSE Store(rows, import[i].p)
    /\ UNCHANGED <<tableVars, loaded, mix>>

-----------------------------------------------------------------------------
\* delete_depot: the cached id stays.
RemoveDepot(r) ==
    /\ Is("depots") /\ removed < mix.removals
    /\ rows' = rows \ {r}
    /\ removed' = removed + 1
    /\ UNCHANGED <<cacheVars, import, boundVars>>

ResolveStep(i, lost) ==
    \/ Prefetch(i, lost) \/ Collect(i, lost) \/ MoveLicensee(i, lost)
    \/ Insert(i, lost) \/ ReadAgain(i, lost)
    \/ InsertOne(i, lost) \/ InsertMinimal(i, lost) \/ Refresh(i, lost)

NewImport == [at |-> "idle", p |-> CHOOSE p \in Process : TRUE, sheet |-> <<>>,
              todo |-> {}, moves |-> {}, last |-> {}, alone |-> FALSE, failed |-> 0]

MasterInit ==
    /\ mix \in Mixes
    /\ rows \in mix.priors
    /\ cached = [p \in Process |-> [k \in Key |-> NoId]]
    /\ hqCached = [p \in Process |-> [k \in Key |-> NoHq]]
    /\ loaded = {} /\ removed = 0 /\ faults = 0
    /\ import = [i \in Import |-> NewImport]

-----------------------------------------------------------------------------
\* Did two imports ever overlap, and is one process doing all the imports?
Overlapped == \E i \in Import : import[i].at # "idle" /\ ~ import[i].alone

OneProcess == \A i, j \in Import :
    import[i].at # "idle" /\ import[j].at # "idle" => import[i].p = import[j].p

Resolved(i) == import[i].at \in Working

IsRow(n, id) == \E r \in rows : Id(r) = id /\ Keys(r.name) \cap Keys(n) # {}

(***************************************************************************)
(* Names that differ only in case, in outer spaces or in how many spaces   *)
(* part their words never become two rows, as long as imports do not       *)
(* overlap: for the tables prefetch_all_caches reads, whatever calls fail  *)
(* and whichever process does the import; for headquarters and brands,     *)
(* which a process reads once, when there is one process and no call       *)
(* fails.  Nothing more: headquarters called "Ajmer" and "Aj mer" become   *)
(* two rows when one sheet brings both, although _clean_no_space is there  *)
(* to match them, and so do companies that differ in case alone.           *)
(***************************************************************************)
OneRowPerKey ==
    \/ Overlapped
    \/ Is("companies")
    \/ mix.table \in {"headquarters", "brands"} /\ (faults > 0 \/ ~ OneProcess)
    \/ OneEach(rows)

(***************************************************************************)
(* An import that ran alone, had no failed call and met no deletion finds  *)
(* for each name of its sheet an existing row that shares a key with it.   *)
(* A company whose tight key is blank, like "India", may thereby get the   *)
(* row of another one, and none of its own; any other name gets a row of   *)
(* its own spelling or of one that differs by what the keys ignore.  Of    *)
(* headquarters this holds only for names that have a row: one name that   *)
(* another process created makes the insert of all the new ones fail.  A   *)
(* company another process created stays unresolved for good.              *)
(***************************************************************************)
ResolvedWhenAlone ==
    \A i \in Import :
        Resolved(i) /\ import[i].alone /\ faults = 0 /\ removed = 0 =>
            \A t \in Items(i) :
                \/ Clean[t.name] = NoKey
                \/ Is("companies") /\ ~ OneProcess
                \/ Is("headquarters") /\ ~ Taken(t.name) /\ ~ OneProcess
                \/ IsRow(t.name, IdFor(i, t.name))

(***************************************************************************)
(* The fall-backs of the chunked inserts do their work: a licensee of the  *)
(* sheet is lost only if more than two calls failed, a brand only if its   *)
(* own insert or the read that follows did, even when another import       *)
(* creates the same rows at the same time.                                 *)
(***************************************************************************)
NoNameIsLost ==
    \A i \in Import :
        /\ Resolved(i)
        /\ \/ Is("licensees") /\ import[i].failed <= 2
           \/ Is("brands") /\ import[i].failed = 0
        => \A t \in Items(i) :
               Clean[t.name] # NoKey => IsRow(t.name, IdFor(i, t.name))

(***************************************************************************)
(* After an import that ran alone and had no failed call, the row of each  *)
(* licensee of the sheet has the headquarters the sheet gives it last, and *)
(* so has the cache - unless overlapping imports have left two rows of one *)
(* key, of which an import finds one.                                      *)
(***************************************************************************)
LicenseeFollowsSheet ==
    \A i \in Import :
        /\ Is("licensees") /\ Resolved(i) /\ import[i].alone /\ faults = 0
        /\ OneEach(rows)
        /\ \A t \in Items(i) : t.hq # NoHq
        => \A t \in Items(i) : \A r \in rows :
               r.name = t.name => /\ r.hq = LastHq(Sheet(i), Clean[t.name])
                                  /\ hqCached[import[i].p][Clean[t.name]] = r.hq
=============================================================================
