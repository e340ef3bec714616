----------------------------- MODULE NamesProofs -----------------------------
(***************************************************************************)
(* Proofs about MasterData, as SalesDesk uses it: whatever the sheets, the *)
(* names, the processes, the imports and the calls that fail, imports that *)
(* do not overlap give a name one row, a name is lost only by as many      *)
(* failures as the fall-backs do not cover, and licensees end up with the  *)
(* headquarters of the sheet.                                              *)
(***************************************************************************)
EXTENDS SalesDesk, FiniteSetTheorems, WellFoundedInduction, TLAPS

-----------------------------------------------------------------------------
(***************************************************************************)
(* Rows of a sheet: of several the last one, and the first one.            *)
(***************************************************************************)
LEMMA LeastExists ==
    ASSUME NEW S, S \subseteq Nat, S # {}
    PROVE  \E m \in S : \A n \in S : m <= n
<1> DEFINE R == {ss \in Nat \X Nat : ss[1] < ss[2]}
<1>1. IsWellFoundedOn(R, Nat)
  BY NatLessThanWellFounded DEF OpToRel
<1> HIDE DEF R
<1>2. PICK m \in S : \A n \in S : ~ (<<n, m>> \in R)
  BY <1>1, WFMin, Zenon
<1>3. ASSUME NEW n \in S PROVE m <= n
  <2>1. m \in Nat /\ n \in Nat
    OBVIOUS
  <2>2. ~ (n < m)
    BY <1>2, <2>1 DEF R
  <2> QED  BY <2>1, <2>2
<1> QED  BY <1>3

LEMMA GreatestExists ==
    ASSUME NEW N \in Nat, NEW S, S \subseteq 1 .. N, S # {}
    PROVE  \E m \in S : \A n \in S : n <= m
<1> DEFINE T == {N - x : x \in S}
<1>1. T \subseteq Nat /\ T # {}
  <2>1. ASSUME NEW x \in S PROVE N - x \in Nat
    <3>1. x \in 1 .. N
      OBVIOUS
    <3> QED  BY <3>1
  <2> QED  BY <2>1
<1>2. PICK t \in T : \A y \in T : t <= y
  BY <1>1, LeastExists
<1>3. PICK m \in S : t = N - m
  OBVIOUS
<1>4. \A n \in S : n <= m
  <2>1. ASSUME NEW n \in S PROVE n <= m
    <3>1. N - n \in T
      OBVIOUS
    <3>2. t <= N - n
      BY <1>2, <3>1
    <3> QED  BY <1>3, <3>2, SMT
  <2> QED  BY <2>1
<1> QED  BY <1>4

\* A sheet that an import has.
LEMMA SheetFacts ==
    ASSUME mix \in Mixes, NEW s \in mix.sheets
    PROVE  /\ Len(s) \in Nat /\ DOMAIN s = 1 .. Len(s)
           /\ \A k \in DOMAIN s : s[k].name \in Name /\ s[k].hq \in MaybeHq
  BY MasterAssumption

LEMMA LastRow ==
    ASSUME mix \in Mixes, NEW s \in mix.sheets, NEW S, S \subseteq DOMAIN s, S # {}
    PROVE  \E m \in S : \A n \in S : n <= m
  BY SheetFacts, GreatestExists

LEMMA KeyFacts ==
    /\ \A n \in Name : Clean[n] \in Key /\ Tight[n] \in Key
    /\ \A n \in Name : Keys(n) \subseteq Key /\ (Is("companies") \/ NoKey \notin Keys(n))
  BY MasterAssumption DEF Keys, Is

\* Names with one key have all keys in common.
LEMMA SameKeys ==
    ASSUME NEW m \in Name, NEW n \in Name, Clean[m] = Clean[n]
    PROVE  Keys(m) = Keys(n)
  BY MasterAssumption DEF Keys, Is

LEMMA OwnKey ==
    ASSUME NEW n \in Name, Clean[n] # NoKey
    PROVE  Clean[n] \in Keys(n)
  BY DEF Keys, Is

-----------------------------------------------------------------------------
(***************************************************************************)
(* What the caches hold after rows have been stored.                       *)
(***************************************************************************)
LEMMA WinnerHolds ==
    ASSUME NEW S, NEW k, NEW last, Holders(S, k) # {}
    PROVE  Winner(S, k, last) \in Holders(S, k)
  BY DEF Winner

Caches == [Key -> SomeId \cup {NoId}]
HqCaches == [Key -> MaybeHq]

LEMMA IdIs ==
    ASSUME NEW r \in Row
    PROVE  Id(r) \in SomeId /\ Id(r) # NoId
  BY DEF Row, Id, SomeId, NoId

\* Stored keys name a row that has them; others stay.
LEMMA IdsGive ==
    ASSUME NEW S \in SUBSET Row, NEW c \in Caches, NEW last
    PROVE  /\ Ids(c, S, last) \in Caches
           /\ \A k \in Key : \/ Holders(S, k) = {} /\ Ids(c, S, last)[k] = c[k]
                             \/ \E r \in Holders(S, k) : Ids(c, S, last)[k] = Id(r)
<1> DEFINE d == Ids(c, S, last)
<1>1. d = [k \in Key |-> IF Holders(S, k) = {} THEN c[k] ELSE Id(Winner(S, k, last))]
  BY DEF Ids
<1>2. ASSUME NEW k \in Key
      PROVE  \/ Holders(S, k) = {} /\ d[k] = c[k]
             \/ \E r \in Holders(S, k) : d[k] = Id(r)
  <2>1. d[k] = IF Holders(S, k) = {} THEN c[k] ELSE Id(Winner(S, k, last))
    BY <1>1
  <2> QED  BY <2>1, WinnerHolds
<1>3. \A k \in Key : d[k] \in SomeId \cup {NoId}
  BY <1>2, IdIs DEF Caches, Holders
<1> HIDE DEF d
<1> QED
  <2>1. d \in [Key -> SomeId \cup {NoId}]
    BY <1>1, <1>3
  <2> QED  BY <1>2, <2>1 DEF d, Caches

LEMMA HqsGive ==
    ASSUME NEW S \in SUBSET Row, NEW h \in HqCaches, NEW last
    PROVE  /\ Hqs(h, S, last) \in HqCaches
           /\ \A k \in Key : Hqs(h, S, last)[k] =
                  IF Holders(S, k) = {} \/ ~ Is("licensees") THEN h[k]
                  ELSE Winner(S, k, last).hq
<1>1. \A k \in Key : Holders(S, k) # {} => Winner(S, k, last).hq \in MaybeHq
  BY WinnerHolds DEF Holders, Row
<1> QED  BY <1>1 DEF Hqs, HqCaches

LEMMA StoreGives ==
    ASSUME NEW S \in SUBSET Row, NEW p \in Process, Store(S, p),
           cached \in [Process -> Caches], hqCached \in [Process -> HqCaches]
    PROVE  \E last : /\ cached' = [cached EXCEPT ![p] = Ids(cached[p], S, last)]
                     /\ hqCached' = [hqCached EXCEPT ![p] = Hqs(hqCached[p], S, last)]
                     /\ cached' \in [Process -> Caches]
                     /\ hqCached' \in [Process -> HqCaches]
<1>1. PICK last \in Lasts(S) :
          /\ cached' = [cached EXCEPT ![p] = Ids(cached[p], S, last)]
          /\ hqCached' = [hqCached EXCEPT ![p] = Hqs(hqCached[p], S, last)]
  BY DEF Store
<1>2. cached[p] \in Caches /\ hqCached[p] \in HqCaches
  OBVIOUS
<1>3. Ids(cached[p], S, last) \in Caches /\ Hqs(hqCached[p], S, last) \in HqCaches
  BY <1>2, IdsGive, HqsGive
<1> QED  BY <1>1, <1>3

-----------------------------------------------------------------------------
(***************************************************************************)
(* What an import looks for, and what it completes.                        *)
(***************************************************************************)
LEMMA MissingIs ==
    ASSUME mix \in Mixes, NEW s \in mix.sheets, NEW c
    PROVE  /\ Missing(c, s) \subseteq Item
           /\ \A t \in Missing(c, s) : \E k \in DOMAIN s :
                 /\ t = [name |-> s[k].name, hq |-> s[k].hq]
                 /\ Clean[s[k].name] # NoKey
                 /\ \A key \in Keys(s[k].name) : c[key] = NoId
                 /\ Later(s, k) => Is("companies")
<1> DEFINE D == {k \in DOMAIN s : /\ Clean[s[k].name] # NoKey
                                  /\ \A key \in Keys(s[k].name) : c[key] = NoId
                                  /\ Later(s, k) => Is("companies")}
<1>1. Missing(c, s) = {[name |-> s[k].name, hq |-> s[k].hq] : k \in D}
  BY DEF Missing
<1>2. \A k \in DOMAIN s : s[k].name \in Name /\ s[k].hq \in MaybeHq
  BY SheetFacts
<1>3. \A t \in Missing(c, s) : \E k \in D : t = [name |-> s[k].name, hq |-> s[k].hq]
  BY <1>1
<1>4. Missing(c, s) \subseteq Item
  BY <1>2, <1>3 DEF Item
<1> QED  BY <1>3, <1>4

\* Every row of the sheet that has a name is known by a key, or looked for.
LEMMA MissingHas ==
    ASSUME mix \in Mixes, NEW s \in mix.sheets, NEW c, NEW j \in DOMAIN s,
           Clean[s[j].name] # NoKey, \A key \in Keys(s[j].name) : c[key] = NoId
    PROVE  \E t \in Missing(c, s) : Clean[t.name] = Clean[s[j].name]
<1> DEFINE S == {k \in DOMAIN s : Clean[s[k].name] = Clean[s[j].name]}
<1>1. S # {} /\ S \subseteq DOMAIN s
  OBVIOUS
<1>2. PICK m \in S : \A n \in S : n <= m
  BY <1>1, LastRow
<1>3. /\ \A k \in DOMAIN s : s[k].name \in Name /\ k \in Nat
      /\ m \in DOMAIN s /\ Clean[s[m].name] = Clean[s[j].name]
  BY SheetFacts
<1>4. ~ Later(s, m)
  BY <1>2, <1>3 DEF Later
<1>5. Keys(s[m].name) = Keys(s[j].name)
  BY <1>3, SameKeys
<1>6. [name |-> s[m].name, hq |-> s[m].hq] \in Missing(c, s)
  BY <1>3, <1>4, <1>5 DEF Missing
<1> QED  BY <1>3, <1>6

\* What is looked for is the last row of its key.
LEMMA MissingLast ==
    ASSUME mix \in Mixes, NEW s \in mix.sheets, NEW k \in DOMAIN s, ~ Later(s, k),
           NEW j \in DOMAIN s, Clean[s[j].name] = Clean[s[k].name]
    PROVE  j <= k
<1>1. j \in Nat /\ k \in Nat
  BY SheetFacts
<1> QED  BY <1>1 DEF Later

LEMMA CompleteGives ==
    ASSUME mix \in Mixes, NEW s \in mix.sheets, NEW c \in Caches
    PROVE  /\ Complete(c, s) \in Caches
           /\ \A k \in Key : \/ Complete(c, s)[k] = c[k]
                             \/ \E j \in DOMAIN s :
                                   /\ Clean[s[j].name] = k
                                   /\ c[Tight[s[j].name]] # NoId
                                   /\ Complete(c, s)[k] = c[Tight[s[j].name]]
           /\ \A j \in DOMAIN s : c[Tight[s[j].name]] # NoId =>
                 Complete(c, s)[Clean[s[j].name]] # NoId
<1> DEFINE tight(k) == {Tight[s[j].name] : j \in {j \in DOMAIN s : Clean[s[j].name] = k}}
           t(k) == CHOOSE x \in tight(k) : TRUE
           P(k) == \E x \in tight(k) : c[x] # NoId /\ (Is("companies") \/ c[k] = NoId)
           d == Complete(c, s)
<1>1. \A j \in DOMAIN s : s[j].name \in Name
  BY SheetFacts
<1>2. d = [k \in Key |-> IF P(k) THEN c[t(k)] ELSE c[k]]
  BY DEF Complete
<1>3. ASSUME NEW k \in Key, NEW j \in DOMAIN s, Clean[s[j].name] = k
      PROVE  t(k) = Tight[s[j].name] /\ \A x \in tight(k) : x = Tight[s[j].name]
  <2>1. \A x \in tight(k) : x = Tight[s[j].name]
    <3>1. ASSUME NEW l \in DOMAIN s, Clean[s[l].name] = k
          PROVE  Tight[s[l].name] = Tight[s[j].name]
      BY <1>1, <1>3, <3>1, MasterAssumption
    <3> QED  BY <3>1
  <2>2. tight(k) # {}
    BY <1>3
  <2>3. t(k) \in tight(k)
    BY <2>2
  <2> HIDE DEF t, tight
  <2> QED  BY <2>1, <2>3
<1>4. ASSUME NEW k \in Key, P(k)
      PROVE  \E j \in DOMAIN s : /\ Clean[s[j].name] = k
                                 /\ c[Tight[s[j].name]] # NoId
                                 /\ d[k] = c[Tight[s[j].name]]
  <2>1. PICK x \in tight(k) : c[x] # NoId
    BY <1>4
  <2>2. PICK j \in DOMAIN s : Clean[s[j].name] = k /\ x = Tight[s[j].name]
    OBVIOUS
  <2>3. d[k] = c[t(k)]
    BY <1>2, <1>4
  <2>4. t(k) = Tight[s[j].name]
    BY <1>3, <2>2
  <2> HIDE DEF t, d
  <2> QED  BY <2>1, <2>2, <2>3, <2>4
<1>5. ASSUME NEW k \in Key, ~ P(k) PROVE d[k] = c[k]
  BY <1>2, <1>5
<1>6. ASSUME NEW j \in DOMAIN s, c[Tight[s[j].name]] # NoId
      PROVE  d[Clean[s[j].name]] # NoId
  <2> DEFINE k == Clean[s[j].name]
  <2>1. k \in Key
    BY <1>1, KeyFacts
  <2>2. CASE P(k)
    BY <1>4, <2>1, <2>2
  <2>3. CASE ~ P(k)
    <3>1. Tight[s[j].name] \in tight(k)
      OBVIOUS
    <3>2. c[k] # NoId
      BY <2>3, <3>1, <1>6
    <3> HIDE DEF d, P
    <3> QED  BY <1>5, <2>1, <2>3, <3>2
  <2> QED  BY <2>2, <2>3
<1>7. \A k \in Key : d[k] \in SomeId \cup {NoId}
  <2> TAKE k \in Key
  <2>1. CASE P(k)
    <3>1. PICK j \in DOMAIN s : d[k] = c[Tight[s[j].name]]
      BY <1>4, <2>1
    <3>2. Tight[s[j].name] \in Key
      BY <1>1, KeyFacts
    <3> HIDE DEF d
    <3> QED  BY <3>1, <3>2 DEF Caches
  <2>2. CASE ~ P(k)
    <3>1. d[k] = c[k]
      BY <1>5, <2>2
    <3> HIDE DEF d
    <3> QED  BY <3>1 DEF Caches
  <2> QED  BY <2>1, <2>2
<1>8. d \in Caches
  <2>1. d = [k \in Key |-> d[k]]
    BY <1>2
  <2> HIDE DEF d
  <2> QED  BY <1>7, <2>1 DEF Caches
<1>9. \A k \in Key : P(k) \/ ~ P(k)
  OBVIOUS
<1> HIDE DEF d, P
<1> QED  BY <1>4, <1>5, <1>6, <1>8, <1>9 DEF d

\* The headquarters a sheet gives last.
LEMMA LastHqIs ==
    ASSUME mix \in Mixes, NEW s \in mix.sheets, NEW key,
           \E j \in DOMAIN s : Clean[s[j].name] = key /\ s[j].hq # NoHq
    PROVE  /\ LastHq(s, key) \in Hq
           /\ \E j \in DOMAIN s :
                 /\ Clean[s[j].name] = key /\ LastHq(s, key) = s[j].hq
                 /\ \A q \in DOMAIN s :
                       Clean[s[q].name] = key /\ s[q].hq # NoHq => q <= j
<1> DEFINE given == {j \in DOMAIN s : Clean[s[j].name] = key /\ s[j].hq # NoHq}
           j == CHOOSE j \in given : \A q \in given : q <= j
<1>1. given # {} /\ given \subseteq DOMAIN s
  OBVIOUS
<1>2. \E m \in given : \A n \in given : n <= m
  BY <1>1, LastRow
<1>3. j \in given /\ \A q \in given : q <= j
  BY <1>2
<1>4. LastHq(s, key) = s[j].hq
  BY DEF LastHq
<1>5. s[j].hq \in Hq
  BY <1>3, SheetFacts DEF MaybeHq
<1> HIDE DEF j
<1> QED  BY <1>3, <1>4, <1>5

-----------------------------------------------------------------------------
(***************************************************************************)
(* The steps that resolve names.  What they all do: Turns.                 *)
(***************************************************************************)
OneName(S) == \A r, q \in S : r.name = q.name => r = q

\* What import i may do to the table: rows keep their names and ids, and new
\* ones have names that it looks for and that nobody had.
RowsChange(N) ==
    /\ rows' \subseteq Row
    /\ \A r \in rows : \E q \in rows' : q.name = r.name /\ q.gen = r.gen
    /\ \A q \in rows' : \/ \E r \in rows : q.name = r.name /\ q.gen = r.gen
                        \/ \E t \in N : q.name = t.name /\ ~ Taken(t.name)
    /\ OneName(rows')

CachesChange(p) ==
    /\ cached' \in [Process -> Caches] /\ hqCached' \in [Process -> HqCaches]
    /\ \A q \in Process \ {p} : cached'[q] = cached[q] /\ hqCached'[q] = hqCached[q]
    /\ \A k \in Key : cached[p][k] # NoId => cached'[p][k] # NoId

Turns(i) ==
    /\ import[i].at \in Resolving
    /\ import' \in [Import -> ImportState]
    /\ \A j \in Import \ {i} : import'[j] = import[j]
    /\ import'[i].p = import[i].p /\ import'[i].sheet = import[i].sheet
    /\ import'[i].alone = import[i].alone
    /\ import'[i].at \in Resolving \cup {"failed", "resolved"}
    /\ import'[i].failed \in {import[i].failed, import[i].failed + 1}
    /\ faults' \in {faults, faults + 1}
    /\ RowsChange(import[i].todo) /\ CachesChange(import[i].p)
    /\ loaded' \subseteq Process /\ mix' = mix /\ removed' = removed

TodoOK(i) ==
    /\ \A t \in import[i].todo : Clean[t.name] # NoKey
    /\ Is("companies") \/ \A t, u \in import[i].todo : Clean[t.name] = Clean[u.name] => t = u
    /\ import[i].last \subseteq import[i].todo

\* Which steps the imports into a table take, and after how many failures.
StepsOK(i) ==
    /\ At(i, "move") => Is("licensees")
    /\ At(i, "insert_one") => mix.table \in {"licensees", "brands"}
    /\ At(i, "insert_minimal") => Is("licensees")
    /\ At(i, "read_again") => mix.table \in {"depots", "headquarters"}
    /\ At(i, "refresh") => mix.table \in {"licensees", "brands"}
    /\ import[i].failed <= faults
    /\ At(i, "insert_one") /\ Is("licensees") => import[i].failed >= 1
    /\ At(i, "insert_minimal") => import[i].failed >= 2
    /\ At(i, "insert_minimal") \/ import[i].last = {}

Basic ==
    /\ MasterTypeOK
    /\ OneName(rows) /\ \A r \in rows : Clean[r.name] # NoKey
    /\ Is("depots") \/ removed = 0
    /\ \A i \in Import : TodoOK(i) /\ StepsOK(i)

LEMMA RowsStay ==
    ASSUME Basic, rows' = rows, NEW N
    PROVE  RowsChange(N)
  BY DEF Basic, MasterTypeOK, RowsChange, OneName

LEMMA CachesStay ==
    ASSUME Basic, cached' = cached, hqCached' = hqCached, NEW p \in Process
    PROVE  CachesChange(p)
  BY DEF Basic, MasterTypeOK, CachesChange, Caches, HqCaches

LEMMA StoreChanges ==
    ASSUME Basic, NEW S \in SUBSET Row, NEW p \in Process, Store(S, p)
    PROVE  CachesChange(p)
<1>1. cached \in [Process -> Caches] /\ hqCached \in [Process -> HqCaches]
  BY DEF Basic, MasterTypeOK, Caches, HqCaches
<1>2. PICK last :
         /\ cached' = [cached EXCEPT ![p] = Ids(cached[p], S, last)]
         /\ hqCached' = [hqCached EXCEPT ![p] = Hqs(hqCached[p], S, last)]
         /\ cached' \in [Process -> Caches]
         /\ hqCached' \in [Process -> HqCaches]
  BY <1>1, StoreGives
<1>3. cached'[p] = Ids(cached[p], S, last) /\ cached[p] \in Caches
  BY <1>1, <1>2
<1>4. \A k \in Key : cached[p][k] # NoId => cached'[p][k] # NoId
  <2> SUFFICES ASSUME NEW k \in Key, cached[p][k] # NoId PROVE cached'[p][k] # NoId
    OBVIOUS
  <2>1. \/ Ids(cached[p], S, last)[k] = cached[p][k]
        \/ \E r \in Holders(S, k) : Ids(cached[p], S, last)[k] = Id(r)
    BY <1>3, IdsGive
  <2>2. \A r \in Holders(S, k) : Id(r) # NoId
    BY IdIs DEF Holders
  <2> QED  BY <1>3, <2>1, <2>2
<1> QED  BY <1>1, <1>2, <1>4 DEF CachesChange

\* Rows upserted: those there are, with the headquarters of the items that
\* name them, and the fresh ones.
LEMMA UpsertedAre ==
    ASSUME Basic, NEW T \in SUBSET Item
    PROVE  /\ Upserted(T) \subseteq Row
           /\ \A r \in rows : \E q \in Upserted(T) :
                 /\ q.name = r.name /\ q.gen = r.gen
                 /\ q = r \/ \E t \in T : t.name = r.name /\ q.hq = t.hq
           /\ \A q \in Upserted(T) :
                 \/ \E r \in rows :
                       /\ q.name = r.name /\ q.gen = r.gen
                       /\ \/ q = r /\ \A t \in T : t.name # r.name
                          \/ \E t \in T : t.name = r.name /\ q.hq = t.hq
                 \/ \E t \in T : q = Fresh(t) /\ q.name = t.name /\ ~ Taken(t.name)
           /\ \A t \in T : \E q \in Upserted(T) : q.name = t.name
<1> DEFINE hq(r) == (CHOOSE t \in T : t.name = r.name).hq
           new(r) == IF \E t \in T : t.name = r.name THEN [r EXCEPT !.hq = hq(r)] ELSE r
           U == {new(r) : r \in rows}
           F == {Fresh(t) : t \in {t \in T : ~ Taken(t.name)}}
<1>1. Upserted(T) = U \cup F
  BY DEF Upserted
<1>2. rows \subseteq Row /\ removed \in Nat
  BY MasterAssumption DEF Basic, MasterTypeOK
<1>3. ASSUME NEW r \in rows
      PROVE  /\ new(r) \in Row /\ new(r).name = r.name /\ new(r).gen = r.gen
             /\ \/ new(r) = r /\ \A t \in T : t.name # r.name
                \/ \E t \in T : t.name = r.name /\ new(r).hq = t.hq
  <2>1. CASE \E t \in T : t.name = r.name
    <3> DEFINE u == CHOOSE t \in T : t.name = r.name
    <3>1. u \in T /\ u.name = r.name
      BY <2>1
    <3>2. new(r) = [r EXCEPT !.hq = u.hq]
      BY <2>1
    <3> HIDE DEF u, new
    <3>3. r \in Row /\ u.hq \in MaybeHq
      BY <1>2, <3>1 DEF Item
    <3> QED  BY <3>1, <3>2, <3>3 DEF Row
  <2>2. CASE \A t \in T : t.name # r.name
    BY <1>2, <2>2 DEF Row
  <2> QED  BY <2>1, <2>2
<1>4. ASSUME NEW t \in T
      PROVE  Fresh(t) \in Row /\ Fresh(t).name = t.name
  BY <1>2 DEF Fresh, Item, Row
<1> HIDE DEF new, hq
<1>5. U \cup F \subseteq Row
  BY <1>3, <1>4
<1>6. \A r \in rows : new(r) \in U
  OBVIOUS
<1>7. ASSUME NEW t \in T PROVE \E q \in U \cup F : q.name = t.name
  <2>1. CASE Taken(t.name)
    BY <1>3, <1>6, <2>1 DEF Taken
  <2>2. CASE ~ Taken(t.name)
    <3>1. Fresh(t) \in F
      BY <2>2
    <3> QED  BY <1>4, <3>1
  <2> QED  BY <2>1, <2>2
<1>8. ASSUME NEW q \in F PROVE \E t \in T : q = Fresh(t) /\ q.name = t.name /\ ~ Taken(t.name)
  BY <1>4
<1>9. ASSUME NEW q \in U PROVE \E r \in rows : q = new(r)
  OBVIOUS
<1> HIDE DEF U, F
<1>10. \A r \in rows : \E q \in Upserted(T) :
                 /\ q.name = r.name /\ q.gen = r.gen
                 /\ q = r \/ \E t \in T : t.name = r.name /\ q.hq = t.hq
  BY <1>1, <1>3, <1>6
<1>11. ASSUME NEW q \in Upserted(T), q \notin F
       PROVE  \E r \in rows :
                 /\ q.name = r.name /\ q.gen = r.gen
                 /\ \/ q = r /\ \A t \in T : t.name # r.name
                    \/ \E t \in T : t.name = r.name /\ q.hq = t.hq
  <2>1. PICK r \in rows : q = new(r)
    BY <1>1, <1>9, <1>11
  <2> QED  BY <1>3, <2>1
<1> QED  BY <1>1, <1>5, <1>7, <1>8, <1>10, <1>11

LEMMA UpsertedChange ==
    ASSUME Basic, NEW T \in SUBSET Item, NEW N, T \subseteq N,
           \A t, u \in T : t.name = u.name => t = u, rows' = Upserted(T)
    PROVE  RowsChange(N)
<1>1. OneName(Upserted(T))
  <2> SUFFICES ASSUME NEW q1 \in Upserted(T), NEW q2 \in Upserted(T), q1.name = q2.name
               PROVE  q1 = q2
    BY DEF OneName
  <2>1. \A q \in Upserted(T) : q \in Row
    BY UpsertedAre
  <2>2. OneName(rows)
    BY DEF Basic
  <2> DEFINE Old(q) == \E r \in rows :
                           /\ q.name = r.name /\ q.gen = r.gen
                           /\ \/ q = r /\ \A t \in T : t.name # r.name
                              \/ \E t \in T : t.name = r.name /\ q.hq = t.hq
             New(q) == \E t \in T : q = Fresh(t) /\ q.name = t.name /\ ~ Taken(t.name)
  <2>3. (Old(q1) \/ New(q1)) /\ (Old(q2) \/ New(q2))
    BY UpsertedAre
  <2>4. CASE New(q1) /\ New(q2)
    BY <2>4
  <2>5. CASE Old(q1) /\ New(q2)
    BY <2>5 DEF Taken
  <2>6. CASE New(q1) /\ Old(q2)
    BY <2>6 DEF Taken
  <2>7. CASE Old(q1) /\ Old(q2)
    <3>1. PICK r1 \in rows :
              /\ q1.name = r1.name /\ q1.gen = r1.gen
              /\ \/ q1 = r1 /\ \A t \in T : t.name # r1.name
                 \/ \E t \in T : t.name = r1.name /\ q1.hq = t.hq
      BY <2>7
    <3>2. PICK r2 \in rows :
              /\ q2.name = r2.name /\ q2.gen = r2.gen
              /\ \/ q2 = r2 /\ \A t \in T : t.name # r2.name
                 \/ \E t \in T : t.name = r2.name /\ q2.hq = t.hq
      BY <2>7
    <3>3. r1 = r2
      BY <2>2, <3>1, <3>2 DEF OneName
    <3>4. q1.gen = q2.gen /\ q1.hq = q2.hq
      BY <3>1, <3>2, <3>3
    <3> QED  BY <2>1, <3>4 DEF Row
  <2> QED  BY <2>3, <2>4, <2>5, <2>6, <2>7
<1>2. \A q \in rows' : \/ \E r \in rows : q.name = r.name /\ q.gen = r.gen
                       \/ \E t \in N : q.name = t.name /\ ~ Taken(t.name)
  BY UpsertedAre
<1>3. \A r \in rows : \E q \in rows' : q.name = r.name /\ q.gen = r.gen
  BY UpsertedAre
<1>4. rows' \subseteq Row
  BY UpsertedAre
<1> QED  BY <1>1, <1>2, <1>3, <1>4 DEF RowsChange

-----------------------------------------------------------------------------
(***************************************************************************)
(* Each step that resolves names, without the other imports.               *)
(***************************************************************************)
Becomes(i, at, todo, moves, last, failed) ==
    /\ import'[i].at = at /\ import'[i].todo = todo /\ import'[i].moves = moves
    /\ import'[i].last = last /\ import'[i].failed = failed

Counts(lost) == faults' = IF lost THEN faults + 1 ELSE faults

\* A change of one import.
LEMMA ImportTurns ==
    ASSUME Basic, NEW i \in Import, NEW lost \in BOOLEAN, MayFail(i, lost),
           NEW new \in ImportState, import' = [import EXCEPT ![i] = new],
           new.p = import[i].p, new.sheet = import[i].sheet, new.alone = import[i].alone,
           new.at \in Resolving \cup {"failed", "resolved"},
           new.failed \in {import[i].failed, Fails(i, lost)},
           import[i].at \in Resolving,
           RowsChange(import[i].todo), CachesChange(import[i].p),
           loaded' \subseteq Process, mix' = mix, removed' = removed
    PROVE  /\ Turns(i) /\ Counts(lost)
           /\ Becomes(i, new.at, new.todo, new.moves, new.last, new.failed)
<1>1. import \in [Import -> ImportState] /\ faults \in Nat
  BY DEF Basic, MasterTypeOK
<1>2. new.failed \in {import[i].failed, import[i].failed + 1}
  BY DEF Fails
<1>3. import' \in [Import -> ImportState] /\ import'[i] = new
      /\ \A j \in Import \ {i} : import'[j] = import[j]
  BY <1>1
<1>4. faults' \in {faults, faults + 1} /\ Counts(lost)
  BY DEF MayFail, Counts
<1> QED  BY <1>2, <1>3, <1>4 DEF Turns, Becomes

LEMMA ImportIs ==
    ASSUME Basic, NEW i \in Import
    PROVE  /\ import \in [Import -> ImportState] /\ import[i] \in ImportState
           /\ import[i].p \in Process /\ import[i].todo \in SUBSET Item
           /\ import[i].last \in SUBSET Item /\ import[i].alone \in BOOLEAN
           /\ import[i].moves \in SUBSET (SomeId \X MaybeHq)
           /\ import[i].failed \in Nat
           /\ ~ At(i, "idle") => Sheet(i) \in mix.sheets
           /\ mix \in Mixes /\ rows \in SUBSET Row /\ loaded \in SUBSET Process
           /\ cached[import[i].p] \in Caches /\ hqCached[import[i].p] \in HqCaches
<1>1. import \in [Import -> ImportState] /\ import[i] \in ImportState
  BY DEF Basic, MasterTypeOK
<1>2. ~ At(i, "idle") => Sheet(i) \in mix.sheets
  BY DEF Basic, MasterTypeOK
<1>3. import[i].p \in Process
  BY <1>1 DEF ImportState
<1>4. cached[import[i].p] \in Caches /\ hqCached[import[i].p] \in HqCaches
  BY <1>3 DEF Basic, MasterTypeOK, Caches, HqCaches
<1>5. mix \in Mixes /\ rows \in SUBSET Row /\ loaded \in SUBSET Process
  BY DEF Basic, MasterTypeOK
<1> QED  BY <1>1, <1>2, <1>4, <1>5 DEF ImportState

LEMMA PrefetchIs ==
    ASSUME Basic, NEW i \in Import, NEW lost \in BOOLEAN, Prefetch(i, lost)
    PROVE  /\ Turns(i) /\ Counts(lost) /\ At(i, "prefetch")
           /\ rows' = rows /\ loaded' = loaded
           /\ Becomes(i, IF lost THEN "failed" ELSE "collect", import[i].todo,
                      import[i].moves, import[i].last, import[i].failed)
           /\ IF ~lost /\ mix.table \in {"depots", "licensees"}
              THEN Store(rows, import[i].p)
              ELSE cached' = cached /\ hqCached' = hqCached
<1> DEFINE at == IF lost THEN "failed" ELSE "collect"
           new == [import[i] EXCEPT !.at = at]
<1>1. /\ import[i].at = "prefetch" /\ MayFail(i, lost) /\ mix' = mix
      /\ rows' = rows /\ removed' = removed
      /\ import' = [import EXCEPT ![i] = new]
      /\ loaded' = loaded
      /\ IF ~lost /\ mix.table \in {"depots", "licensees"}
         THEN Store(rows, import[i].p)
         ELSE cached' = cached /\ hqCached' = hqCached
  BY DEF Prefetch, At, tableVars, cacheVars
<1>2. RowsChange(import[i].todo)
  BY <1>1, RowsStay
<1>3. CachesChange(import[i].p)
  BY <1>1, ImportIs, CachesStay, StoreChanges
<1>4. /\ new \in ImportState /\ new.at = at /\ new.todo = import[i].todo
      /\ new.moves = import[i].moves /\ new.last = import[i].last
      /\ new.failed = import[i].failed /\ new.p = import[i].p
      /\ new.sheet = import[i].sheet /\ new.alone = import[i].alone
  BY ImportIs DEF ImportState, Resolving, Ended
<1>5. at \in Resolving \cup {"failed", "resolved"} /\ import[i].at \in Resolving
  BY <1>1 DEF Resolving
<1>6. loaded' \subseteq Process
  BY <1>1, ImportIs
<1> HIDE DEF at, new
<1>7. /\ Turns(i) /\ Counts(lost)
      /\ Becomes(i, at, import[i].todo, import[i].moves, import[i].last, import[i].failed)
  BY <1>1, <1>2, <1>3, <1>4, <1>5, <1>6, ImportTurns
<1> QED  BY <1>1, <1>7 DEF at, At

-----------------------------------------------------------------------------
\* What an import finds in the cache c, where licensees have headquarters h.
Moved(c, h, s) == IF Is("licensees") THEN MovedKeys(c, h, s) ELSE {}

Moves(c, h, s) == {<<c[key], LastHq(s, key)>> : key \in Moved(c, h, s)}

Completed(c, s) ==
    IF mix.table \in {"headquarters", "companies"} THEN Complete(c, s) ELSE c

HqsMoved(c, h, s) ==
    [key \in Key |-> IF key \in Moved(c, h, s) THEN LastHq(s, key) ELSE h[key]]

LEMMA MovesAre ==
    ASSUME mix \in Mixes, NEW s \in mix.sheets, NEW c \in Caches, NEW h \in HqCaches
    PROVE  /\ Moves(c, h, s) \subseteq SomeId \X MaybeHq
           /\ HqsMoved(c, h, s) \in HqCaches
           /\ Completed(c, s) \in Caches
           /\ Moves(c, h, s) # {} => Is("licensees")
<1>1. ASSUME NEW key \in Moved(c, h, s)
      PROVE  key \in Key /\ c[key] \in SomeId /\ LastHq(s, key) \in MaybeHq
  <2>1. key \in MovedKeys(c, h, s)
    BY DEF Moved
  <2>2. /\ key \in Key /\ c[key] # NoId
        /\ \E j \in DOMAIN s : Clean[s[j].name] = key /\ s[j].hq # NoHq
    BY <2>1 DEF MovedKeys
  <2>3. LastHq(s, key) \in Hq
    BY <2>2, LastHqIs
  <2> QED  BY <2>2, <2>3 DEF Caches, MaybeHq
<1>2. Moves(c, h, s) \subseteq SomeId \X MaybeHq
  BY <1>1 DEF Moves
<1>3. HqsMoved(c, h, s) \in HqCaches
  BY <1>1 DEF HqsMoved, HqCaches
<1>4. Completed(c, s) \in Caches
  BY CompleteGives DEF Completed
<1>5. Moves(c, h, s) # {} => Is("licensees")
  BY DEF Moves, Moved
<1> QED  BY <1>2, <1>3, <1>4, <1>5

\* Nothing known is forgotten.
LEMMA CompletedKeeps ==
    ASSUME mix \in Mixes, NEW s \in mix.sheets, NEW c \in Caches, NEW k \in Key, c[k] # NoId
    PROVE  Completed(c, s)[k] # NoId
  BY CompleteGives DEF Completed

\* The cache an import looks in: as it was, or with all rows read.
LookedIn(i, lost, c) ==
    \/ /\ ReadsFirst(import[i].p) /\ ~lost
       /\ \E last \in Lasts(rows) : c = Ids(Cached(i), rows, last)
    \/ ~ (ReadsFirst(import[i].p) /\ ~lost) /\ c = Cached(i)

LEMMA CollectIs ==
    ASSUME Basic, NEW i \in Import, NEW lost \in BOOLEAN, Collect(i, lost)
    PROVE  /\ Turns(i) /\ Counts(lost) /\ At(i, "collect") /\ rows' = rows
           /\ lost => ReadsFirst(import[i].p)
           /\ loaded' = IF Is("brands") THEN loaded \cup {import[i].p} ELSE loaded
           /\ \E c \in Caches :
                 LET h == hqCached[import[i].p]
                     s == Sheet(i)
                 IN  /\ LookedIn(i, lost, c)
                     /\ \A k \in Key : Cached(i)[k] # NoId => c[k] # NoId
                     /\ Becomes(i, Then(Moves(c, h, s), Missing(c, s)), Missing(c, s),
                                Moves(c, h, s), import[i].last, import[i].failed)
                     /\ cached'[import[i].p] = Completed(c, s)
                     /\ hqCached'[import[i].p] = HqsMoved(c, h, s)
<1> DEFINE p == import[i].p
           h == hqCached[p]
           s == Sheet(i)
<1>1. /\ import[i].at = "collect" /\ MayFail(i, lost) /\ mix' = mix
      /\ lost => ReadsFirst(p)
      /\ rows' = rows /\ removed' = removed
      /\ loaded' = IF Is("brands") THEN loaded \cup {p} ELSE loaded
  BY DEF Collect, At, tableVars
<1>2. PICK c : LookedIn(i, lost, c) /\ Proceed(i, c, h)
  BY DEF Collect, LookedIn, Cached
<1>3. c \in Caches /\ \A k \in Key : Cached(i)[k] # NoId => c[k] # NoId
  <2>1. rows \in SUBSET Row /\ Cached(i) \in Caches
    BY ImportIs DEF Cached
  <2>2. CASE c = Cached(i)
    BY <2>1, <2>2
  <2>3. ASSUME NEW last \in Lasts(rows), c = Ids(Cached(i), rows, last)
        PROVE  c \in Caches /\ \A k \in Key : Cached(i)[k] # NoId => c[k] # NoId
    <3>1. c \in Caches
      BY <2>1, <2>3, IdsGive
    <3>2. ASSUME NEW k \in Key, Cached(i)[k] # NoId PROVE c[k] # NoId
      <4>1. c[k] = Cached(i)[k] \/ \E r \in Holders(rows, k) : c[k] = Id(r)
        BY <2>1, <2>3, IdsGive
      <4>2. \A r \in Holders(rows, k) : Id(r) # NoId
        BY <2>1, IdIs DEF Holders
      <4> QED  BY <3>2, <4>1, <4>2
    <3> QED  BY <3>1, <3>2
  <2> QED  BY <1>2, <2>2, <2>3 DEF LookedIn
<1> DEFINE at == Then(Moves(c, h, s), Missing(c, s))
           new == [import[i] EXCEPT !.todo = Missing(c, s), !.moves = Moves(c, h, s), !.at = at]
<1>4. /\ import' = [import EXCEPT ![i] = new]
      /\ cached' = [cached EXCEPT ![p] = Completed(c, s)]
      /\ hqCached' = [hqCached EXCEPT ![p] = HqsMoved(c, h, s)]
  <2>1. Proceed(i, c, h)
    BY <1>2
  <2> QED  BY <2>1 DEF Proceed, Completed, HqsMoved, Moves, Moved
<1>5. mix \in Mixes /\ s \in mix.sheets /\ h \in HqCaches /\ p \in Process
  BY <1>1, ImportIs DEF At
<1>6. /\ Moves(c, h, s) \subseteq SomeId \X MaybeHq /\ Completed(c, s) \in Caches
      /\ HqsMoved(c, h, s) \in HqCaches /\ Missing(c, s) \subseteq Item
  BY <1>3, <1>5, MovesAre, MissingIs
<1>7. /\ cached' \in [Process -> Caches] /\ hqCached' \in [Process -> HqCaches]
      /\ cached'[p] = Completed(c, s) /\ hqCached'[p] = HqsMoved(c, h, s)
      /\ \A q \in Process \ {p} : cached'[q] = cached[q] /\ hqCached'[q] = hqCached[q]
  <2>1. cached \in [Process -> Caches] /\ hqCached \in [Process -> HqCaches]
    BY DEF Basic, MasterTypeOK, Caches, HqCaches
  <2> HIDE DEF p, s, h
  <2> QED  BY <1>4, <1>5, <1>6, <2>1
<1>8. CachesChange(p)
  <2>1. \A k \in Key : cached[p][k] # NoId => cached'[p][k] # NoId
    BY <1>3, <1>5, <1>7, CompletedKeeps DEF Cached
  <2> QED  BY <1>7, <2>1 DEF CachesChange
<1>9. RowsChange(import[i].todo)
  BY <1>1, RowsStay
<1>10. at \in Resolving \cup {"failed", "resolved"} /\ import[i].at \in Resolving
  BY <1>1 DEF Resolving, Then
<1>11. /\ new \in ImportState /\ new.at = at /\ new.todo = Missing(c, s)
       /\ new.moves = Moves(c, h, s) /\ new.last = import[i].last
       /\ new.failed = import[i].failed /\ new.p = import[i].p
       /\ new.sheet = import[i].sheet /\ new.alone = import[i].alone
  <2>1. /\ Missing(c, s) \in SUBSET Item /\ Moves(c, h, s) \in SUBSET (SomeId \X MaybeHq)
        /\ import[i] \in ImportState
    BY <1>6, ImportIs
  <2>2. at \in Resolving \cup Working \cup Ended
    BY <1>10 DEF Working, Ended
  <2> HIDE DEF at, h, s
  <2> QED  BY <2>1, <2>2 DEF ImportState
<1>12. loaded' \subseteq Process
  BY <1>1, <1>5, ImportIs
<1> HIDE DEF at, new, h, s
<1>13. /\ Turns(i) /\ Counts(lost)
       /\ Becomes(i, at, Missing(c, s), Moves(c, h, s), import[i].last, import[i].failed)
  BY <1>1, <1>4, <1>8, <1>9, <1>10, <1>11, <1>12, ImportTurns
<1> QED  BY <1>1, <1>2, <1>3, <1>7, <1>13 DEF at, At, h, s

-----------------------------------------------------------------------------
\* A licensee is put under another headquarters.
Rehomed(m) == {IF Id(r) = m[1] THEN [r EXCEPT !.hq = m[2]] ELSE r : r \in rows}

LEMMA RehomedAre ==
    ASSUME Basic, NEW m \in SomeId \X MaybeHq
    PROVE  /\ Rehomed(m) \subseteq Row
           /\ \A r \in rows : \E q \in Rehomed(m) :
                 /\ q.name = r.name /\ q.gen = r.gen
                 /\ q.hq = IF Id(r) = m[1] THEN m[2] ELSE r.hq
           /\ \A q \in Rehomed(m) : \E r \in rows :
                 /\ q.name = r.name /\ q.gen = r.gen
                 /\ q.hq = IF Id(r) = m[1] THEN m[2] ELSE r.hq
<1> DEFINE new(r) == IF Id(r) = m[1] THEN [r EXCEPT !.hq = m[2]] ELSE r
<1>1. ASSUME NEW r \in rows
      PROVE  /\ new(r) \in Row /\ new(r).name = r.name /\ new(r).gen = r.gen
             /\ new(r).hq = IF Id(r) = m[1] THEN m[2] ELSE r.hq
  <2>1. r \in Row /\ m[2] \in MaybeHq
    BY DEF Basic, MasterTypeOK
  <2>2. CASE Id(r) = m[1]
    BY <2>1, <2>2 DEF Row
  <2>3. CASE Id(r) # m[1]
    BY <2>1, <2>3 DEF Row
  <2> QED  BY <2>2, <2>3
<1>2. Rehomed(m) = {new(r) : r \in rows}
  BY DEF Rehomed
<1> HIDE DEF new
<1>3. Rehomed(m) \subseteq Row
  BY <1>1, <1>2
<1>4. \A r \in rows : new(r) \in Rehomed(m)
  BY <1>2
<1>5. \A q \in Rehomed(m) : \E r \in rows : q = new(r)
  BY <1>2
<1> QED  BY <1>1, <1>3, <1>4, <1>5

LEMMA RehomedChange ==
    ASSUME Basic, NEW m \in SomeId \X MaybeHq, rows' = Rehomed(m), NEW N
    PROVE  RowsChange(N)
<1>1. OneName(rows')
  <2> SUFFICES ASSUME NEW q1 \in Rehomed(m), NEW q2 \in Rehomed(m), q1.name = q2.name
               PROVE  q1 = q2
    BY DEF OneName
  <2>1. PICK r1 \in rows : /\ q1.name = r1.name /\ q1.gen = r1.gen
                           /\ q1.hq = IF Id(r1) = m[1] THEN m[2] ELSE r1.hq
    BY RehomedAre
  <2>2. PICK r2 \in rows : /\ q2.name = r2.name /\ q2.gen = r2.gen
                           /\ q2.hq = IF Id(r2) = m[1] THEN m[2] ELSE r2.hq
    BY RehomedAre
  <2>3. r1 = r2
    BY <2>1, <2>2 DEF Basic, OneName
  <2>4. q1.gen = q2.gen /\ q1.hq = q2.hq
    BY <2>1, <2>2, <2>3
  <2>5. q1 \in Row /\ q2 \in Row
    BY RehomedAre
  <2> QED  BY <2>4, <2>5 DEF Row
<1>2. rows' \subseteq Row
  BY RehomedAre
<1>3. \A q \in rows' : \E r \in rows : q.name = r.name /\ q.gen = r.gen
  BY RehomedAre
<1>4. \A r \in rows : \E q \in rows' : q.name = r.name /\ q.gen = r.gen
  BY RehomedAre
<1> QED  BY <1>1, <1>2, <1>3, <1>4 DEF RowsChange

LEMMA MoveIs ==
    ASSUME Basic, NEW i \in Import, NEW lost \in BOOLEAN, MoveLicensee(i, lost)
    PROVE  /\ Turns(i) /\ Counts(lost) /\ At(i, "move")
           /\ cached' = cached /\ hqCached' = hqCached /\ loaded' = loaded
           /\ \E m \in import[i].moves :
                 LET left == IF lost THEN {} ELSE import[i].moves \ {m}
                 IN  /\ Becomes(i, Then(left, import[i].todo), import[i].todo, left,
                                import[i].last, Fails(i, lost))
                     /\ rows' = Rehomed(m) \/ (lost /\ rows' = rows)
<1>1. /\ import[i].at = "move" /\ MayFail(i, lost) /\ mix' = mix /\ removed' = removed
      /\ cached' = cached /\ hqCached' = hqCached /\ loaded' = loaded
  BY DEF MoveLicensee, At, cacheVars
<1> DEFINE left(m) == IF lost THEN {} ELSE import[i].moves \ {m}
           at(m) == Then(left(m), import[i].todo)
           new(m) == [import[i] EXCEPT !.moves = left(m), !.failed = Fails(i, lost), !.at = at(m)]
<1>2. PICK m \in import[i].moves :
          /\ import' = [import EXCEPT ![i] = new(m)]
          /\ rows' = Rehomed(m) \/ (lost /\ rows' = rows)
  BY DEF MoveLicensee, Rehomed
<1>3. m \in SomeId \X MaybeHq
  BY ImportIs
<1>4. RowsChange(import[i].todo)
  BY <1>2, <1>3, RowsStay, RehomedChange
<1>5. CachesChange(import[i].p)
  BY <1>1, ImportIs, CachesStay
<1>6. at(m) \in Resolving \cup {"failed", "resolved"} /\ import[i].at \in Resolving
  BY <1>1 DEF Resolving, Then
<1>7. left(m) \in SUBSET (SomeId \X MaybeHq) /\ Fails(i, lost) \in Nat
  BY ImportIs DEF Fails
<1>8. /\ new(m) \in ImportState /\ new(m).at = at(m) /\ new(m).todo = import[i].todo
      /\ new(m).moves = left(m) /\ new(m).last = import[i].last
      /\ new(m).failed = Fails(i, lost) /\ new(m).p = import[i].p
      /\ new(m).sheet = import[i].sheet /\ new(m).alone = import[i].alone
  <2>1. at(m) \in Resolving \cup Working \cup Ended
    BY <1>6 DEF Working, Ended
  <2> HIDE DEF at, left
  <2> QED  BY <1>7, <2>1, ImportIs DEF ImportState
<1>9. loaded' \subseteq Process
  BY <1>1, ImportIs
<1> HIDE DEF at, new
<1>10. /\ Turns(i) /\ Counts(lost)
       /\ Becomes(i, at(m), import[i].todo, left(m), import[i].last, Fails(i, lost))
  BY <1>1, <1>2, <1>4, <1>5, <1>6, <1>8, <1>9, ImportTurns
<1> QED  BY <1>1, <1>2, <1>10 DEF at, At

-----------------------------------------------------------------------------
\* What a call writes for the items T, and stores if it did not raise.
Writes(i, T, raised) ==
    /\ \/ ~ Collides(T) /\ rows' = Upserted(T)
       \/ raised /\ rows' = rows
    /\ IF raised THEN cached' = cached /\ hqCached' = hqCached
       ELSE Store(Named(Upserted(T), T), import[i].p)

LEMMA WritesChange ==
    ASSUME Basic, NEW i \in Import, NEW T, T \subseteq import[i].todo, NEW raised,
           \A t, u \in T : t.name = u.name => t = u, Writes(i, T, raised)
    PROVE  RowsChange(import[i].todo) /\ CachesChange(import[i].p)
<1>1. T \in SUBSET Item
  BY ImportIs
<1>2. RowsChange(import[i].todo)
  BY <1>1, RowsStay, UpsertedChange DEF Writes
<1>3. Named(Upserted(T), T) \in SUBSET Row
  BY <1>1, UpsertedAre DEF Named
<1>4. CachesChange(import[i].p)
  BY <1>3, ImportIs, CachesStay, StoreChanges DEF Writes
<1> QED  BY <1>2, <1>4

LEMMA InsertIs ==
    ASSUME Basic, NEW i \in Import, NEW lost \in BOOLEAN, Insert(i, lost)
    PROVE  /\ Turns(i) /\ Counts(lost) /\ At(i, "insert") /\ ~ Is("companies")
           /\ loaded' = loaded
           /\ LET raised == lost \/ Collides(import[i].todo)
              IN  /\ Becomes(i, AfterInsert(raised), import[i].todo, import[i].moves,
                             import[i].last, Fails(i, lost))
                  /\ Writes(i, import[i].todo, raised)
<1> DEFINE todo == import[i].todo
           raised == lost \/ Collides(todo)
           at == AfterInsert(raised)
           new == [import[i] EXCEPT !.at = at, !.failed = Fails(i, lost)]
<1>1. /\ import[i].at = "insert" /\ MayFail(i, lost) /\ mix' = mix /\ removed' = removed
      /\ ~ Is("companies") /\ loaded' = loaded
      /\ import' = [import EXCEPT ![i] = new]
  BY DEF Insert, At
<1>2. Writes(i, todo, raised)
  BY DEF Insert, Writes
<1>3. \A t, u \in todo : t.name = u.name => t = u
  BY <1>1 DEF Basic, TodoOK
<1>4. RowsChange(todo) /\ CachesChange(import[i].p)
  BY <1>2, <1>3, WritesChange
<1>5. at \in Resolving \cup {"failed", "resolved"} /\ import[i].at \in Resolving
  BY <1>1 DEF Resolving, AfterInsert
<1>6. /\ new \in ImportState /\ new.at = at /\ new.todo = todo
      /\ new.moves = import[i].moves /\ new.last = import[i].last
      /\ new.failed = Fails(i, lost) /\ new.p = import[i].p
      /\ new.sheet = import[i].sheet /\ new.alone = import[i].alone
  <2>1. at \in Resolving \cup Working \cup Ended
    BY <1>5 DEF Working, Ended
  <2>2. Fails(i, lost) \in Nat
    BY ImportIs DEF Fails
  <2> HIDE DEF at
  <2> QED  BY <2>1, <2>2, ImportIs DEF ImportState
<1>7. loaded' \subseteq Process
  BY <1>1, ImportIs
<1> HIDE DEF at, new
<1>8. /\ Turns(i) /\ Counts(lost)
      /\ Becomes(i, at, todo, import[i].moves, import[i].last, Fails(i, lost))
  BY <1>1, <1>4, <1>5, <1>6, <1>7, ImportTurns
<1> QED  BY <1>1, <1>2, <1>8 DEF at, At

\* What the steps that read the table again have in common.
LEMMA ReadsIs ==
    ASSUME Basic, NEW i \in Import, NEW lost \in BOOLEAN, ReadAgain(i, lost) \/ Refresh(i, lost)
    PROVE  /\ Turns(i) /\ Counts(lost) /\ (At(i, "read_again") \/ At(i, "refresh"))
           /\ loaded' = loaded /\ rows' = rows
           /\ Becomes(i, "resolved", import[i].todo, import[i].moves, import[i].last,
                      Fails(i, lost))
           /\ IF lost THEN cached' = cached /\ hqCached' = hqCached
              ELSE Store(rows, import[i].p)
<1> DEFINE new == [import[i] EXCEPT !.at = "resolved", !.failed = Fails(i, lost)]
<1>1. /\ import[i].at \in {"read_again", "refresh"} /\ MayFail(i, lost) /\ mix' = mix
      /\ removed' = removed /\ rows' = rows
      /\ loaded' = loaded /\ import' = [import EXCEPT ![i] = new]
      /\ IF lost THEN cached' = cached /\ hqCached' = hqCached
         ELSE Store(rows, import[i].p)
  BY DEF ReadAgain, Refresh, At, tableVars
<1>2. RowsChange(import[i].todo) /\ CachesChange(import[i].p)
  BY <1>1, ImportIs, RowsStay, CachesStay, StoreChanges
<1>3. import[i].at \in Resolving
  BY <1>1 DEF Resolving
<1>4. /\ new \in ImportState /\ new.at = "resolved" /\ new.todo = import[i].todo
      /\ new.moves = import[i].moves /\ new.last = import[i].last
      /\ new.failed = Fails(i, lost) /\ new.p = import[i].p
      /\ new.sheet = import[i].sheet /\ new.alone = import[i].alone
  <2>1. Fails(i, lost) \in Nat
    BY ImportIs DEF Fails
  <2> QED  BY <2>1, ImportIs DEF ImportState, Working
<1>5. loaded' \subseteq Process
  BY <1>1, ImportIs
<1> HIDE DEF new
<1>6. /\ Turns(i) /\ Counts(lost)
      /\ Becomes(i, "resolved", import[i].todo, import[i].moves, import[i].last, Fails(i, lost))
  BY <1>1, <1>2, <1>3, <1>4, <1>5, ImportTurns
<1> QED  BY <1>1, <1>6 DEF At

LEMMA InsertOneIs ==
    ASSUME Basic, NEW i \in Import, NEW lost \in BOOLEAN, InsertOne(i, lost)
    PROVE  /\ Turns(i) /\ Counts(lost) /\ loaded' = loaded
           /\ At(i, "insert_one") \/ (At(i, "insert") /\ Is("companies"))
           /\ \E t \in import[i].todo :
                 LET again  == lost /\ Is("licensees")
                 IN  /\ Writes(i, {t}, lost \/ Collides({t}))
                     /\ Becomes(i, IF again THEN "insert_minimal" ELSE Done(i, t),
                                IF again THEN import[i].todo ELSE import[i].todo \ {t},
                                import[i].moves, IF again THEN {t} ELSE {}, Fails(i, lost))
<1> DEFINE again == lost /\ Is("licensees")
           todo(t) == IF again THEN import[i].todo ELSE import[i].todo \ {t}
           last(t) == IF again THEN {t} ELSE {}
           at(t) == IF again THEN "insert_minimal" ELSE Done(i, t)
           new(t) == [import[i] EXCEPT !.at = at(t), !.todo = todo(t), !.last = last(t),
                                       !.failed = Fails(i, lost)]
<1>1. /\ MayFail(i, lost) /\ mix' = mix /\ removed' = removed /\ loaded' = loaded
      /\ import[i].at \in {"insert", "insert_one"}
      /\ At(i, "insert_one") \/ (At(i, "insert") /\ Is("companies"))
  BY DEF InsertOne, At
<1> DEFINE raised(t) == lost \/ Collides({t})
<1>a. PICK t \in import[i].todo :
          /\ import' = [import EXCEPT ![i].at = at(t),
                         ![i].todo = IF again THEN @ ELSE @ \ {t},
                         ![i].last = last(t), ![i].failed = Fails(i, lost)]
          /\ \/ ~ Collides({t}) /\ rows' = Upserted({t})
             \/ raised(t) /\ UNCHANGED rows
          /\ IF raised(t) THEN UNCHANGED <<cached, hqCached>>
             ELSE Store(Named(Upserted({t}), {t}), import[i].p)
  BY Zenon DEF InsertOne
<1>b. Writes(i, {t}, raised(t))
  BY <1>a DEF Writes
<1>c. import' = [import EXCEPT ![i] = new(t)]
  <2> HIDE DEF last, at, again
  <2> QED  BY <1>a
<1>2. t \in import[i].todo /\ import' = [import EXCEPT ![i] = new(t)]
      /\ Writes(i, {t}, lost \/ Collides({t}))
  BY <1>a, <1>b, <1>c
<1>3. RowsChange(import[i].todo) /\ CachesChange(import[i].p)
  <2> DEFINE T == {t}
  <2>1. T \subseteq import[i].todo /\ \A u, v \in T : u.name = v.name => u = v
    OBVIOUS
  <2>2. Writes(i, T, lost \/ Collides(T))
    BY <1>2
  <2> HIDE DEF T
  <2> QED  BY <2>1, <2>2, WritesChange
<1>4. at(t) \in Resolving \cup {"failed", "resolved"} /\ import[i].at \in Resolving
  BY <1>1 DEF Resolving, Done
<1>5. /\ todo(t) \in SUBSET Item /\ last(t) \in SUBSET Item /\ Fails(i, lost) \in Nat
  BY ImportIs DEF Fails
<1>6. /\ new(t) \in ImportState /\ new(t).at = at(t) /\ new(t).todo = todo(t)
      /\ new(t).moves = import[i].moves /\ new(t).last = last(t)
      /\ new(t).failed = Fails(i, lost) /\ new(t).p = import[i].p
      /\ new(t).sheet = import[i].sheet /\ new(t).alone = import[i].alone
  <2>1. at(t) \in Resolving \cup Working \cup Ended
    BY <1>4 DEF Working, Ended
  <2> HIDE DEF at, todo, last
  <2> QED  BY <1>5, <2>1, ImportIs DEF ImportState
<1>7. loaded' \subseteq Process
  BY <1>1, ImportIs
<1> HIDE DEF at, new, todo, last
<1>8. /\ Turns(i) /\ Counts(lost)
      /\ Becomes(i, at(t), todo(t), import[i].moves, last(t), Fails(i, lost))
  BY <1>1, <1>2, <1>3, <1>4, <1>6, <1>7, ImportTurns
<1> QED  BY <1>1, <1>2, <1>8 DEF at, todo, last

LEMMA InsertMinimalIs ==
    ASSUME Basic, NEW i \in Import, NEW lost \in BOOLEAN, InsertMinimal(i, lost)
    PROVE  /\ Turns(i) /\ Counts(lost) /\ loaded' = loaded /\ At(i, "insert_minimal")
           /\ \E t \in import[i].last :
                 /\ Becomes(i, IF import[i].todo = {t} THEN "refresh" ELSE "insert_one",
                            import[i].todo \ {t}, import[i].moves, {}, Fails(i, lost))
                 /\ \/ lost /\ cached' = cached /\ hqCached' = hqCached
                    \/ /\ ~lost
                       /\ \E q \in rows' : q.name = t.name
                       /\ Store(Named(rows', {t}), import[i].p)
<1> DEFINE todo(t) == import[i].todo \ {t}
           at(t) == IF import[i].todo = {t} THEN "refresh" ELSE "insert_one"
           new(t) == [import[i] EXCEPT !.at = at(t), !.todo = todo(t), !.last = {},
                                       !.failed = Fails(i, lost)]
           bare(t) == Fresh([t EXCEPT !.hq = NoHq])
           all(t) == IF Taken(t.name) THEN rows ELSE rows \cup {bare(t)}
<1>1. /\ MayFail(i, lost) /\ mix' = mix /\ removed' = removed /\ loaded' = loaded
      /\ import[i].at = "insert_minimal"
  BY DEF InsertMinimal, At
<1>2. PICK t \in import[i].last :
          /\ import' = [import EXCEPT ![i] = new(t)]
          /\ rows' = all(t) \/ (lost /\ rows' = rows)
          /\ IF lost THEN cached' = cached /\ hqCached' = hqCached
             ELSE Store(Named(all(t), {t}), import[i].p)
  BY DEF InsertMinimal
<1>3. t \in import[i].todo /\ t \in Item /\ removed \in Nat /\ rows \subseteq Row
      /\ OneName(rows)
  BY ImportIs, MasterAssumption DEF Basic, TodoOK, MasterTypeOK
<1>4. bare(t) \in Row /\ bare(t).name = t.name
  BY <1>3 DEF Fresh, Row, Item, MaybeHq
<1> HIDE DEF bare
<1>5. all(t) \in SUBSET Row /\ OneName(all(t)) /\ \E q \in all(t) : q.name = t.name
  BY <1>3, <1>4 DEF Taken, OneName
<1>6. RowsChange(import[i].todo)
  <2>1. CASE rows' = rows
    BY <2>1, RowsStay
  <2>2. CASE rows' = all(t)
    BY <1>3, <1>4, <1>5, <2>2 DEF RowsChange
  <2> QED  BY <1>2, <2>1, <2>2
<1>7. Named(all(t), {t}) \in SUBSET Row
  BY <1>5 DEF Named
<1>8. CachesChange(import[i].p)
  <2>1. import[i].p \in Process
    BY ImportIs
  <2> HIDE DEF all
  <2> QED  BY <1>2, <1>7, <2>1, CachesStay, StoreChanges
<1>9. at(t) \in Resolving \cup {"failed", "resolved"} /\ import[i].at \in Resolving
  BY <1>1 DEF Resolving
<1>10. /\ todo(t) \in SUBSET Item /\ {} \in SUBSET Item /\ Fails(i, lost) \in Nat
  BY ImportIs DEF Fails
<1>11. /\ new(t) \in ImportState /\ new(t).at = at(t) /\ new(t).todo = todo(t)
       /\ new(t).moves = import[i].moves /\ new(t).last = {}
       /\ new(t).failed = Fails(i, lost) /\ new(t).p = import[i].p
       /\ new(t).sheet = import[i].sheet /\ new(t).alone = import[i].alone
  <2>1. at(t) \in Resolving \cup Working \cup Ended
    BY <1>9 DEF Working, Ended
  <2> HIDE DEF at, todo
  <2> QED  BY <1>10, <2>1, ImportIs DEF ImportState
<1>12. loaded' \subseteq Process
  BY <1>1, ImportIs
<1> HIDE DEF at, new, all
<1>13. /\ Turns(i) /\ Counts(lost)
       /\ Becomes(i, at(t), todo(t), import[i].moves, {}, Fails(i, lost))
  BY <1>1, <1>2, <1>6, <1>8, <1>9, <1>11, <1>12, ImportTurns
<1>14. ~lost => rows' = all(t)
  BY <1>2
<1> QED  BY <1>1, <1>2, <1>5, <1>13, <1>14 DEF at, At

-----------------------------------------------------------------------------
(***************************************************************************)
(* All other steps leave names alone; an import that has its ids goes on.  *)
(***************************************************************************)
GoesOn(j) ==
    \/ import'[j] = import[j]
    \/ /\ Resolved(j)
       /\ \E a \in (Working \cup Ended) \ {"idle"} : import'[j] = [import[j] EXCEPT !.at = a]

NamesRest ==
    /\ rows' = rows /\ removed' = removed /\ mix' = mix
    /\ cached' = cached /\ hqCached' = hqCached /\ loaded' = loaded
    /\ faults' \in {faults, faults + 1}
    /\ import' \in [Import -> ImportState]
    /\ \A j \in Import : GoesOn(j)

LEMMA AtGoesOn ==
    ASSUME Basic, NEW i \in Import, import[i].at \in Working,
           NEW to \in (Working \cup Ended) \ {"idle"},
           import' = [import EXCEPT ![i].at = to]
    PROVE  import' \in [Import -> ImportState] /\ \A j \in Import : GoesOn(j)
<1> DEFINE new == [import[i] EXCEPT !.at = to]
<1>1. new \in ImportState
  BY ImportIs DEF ImportState
<1>2. import' = [import EXCEPT ![i] = new] /\ import \in [Import -> ImportState]
  BY DEF Basic, MasterTypeOK
<1> HIDE DEF new
<1>3. import' \in [Import -> ImportState] /\ import'[i] = new
      /\ \A j \in Import \ {i} : import'[j] = import[j]
  BY <1>1, <1>2
<1> QED  BY <1>3 DEF GoesOn, Resolved, new

LEMMA ImportsStay ==
    ASSUME Basic, import' = import
    PROVE  import' \in [Import -> ImportState] /\ \A j \in Import : GoesOn(j)
  BY DEF Basic, MasterTypeOK, GoesOn

LEMMA DeskRests ==
    ASSUME Basic, NEW i \in Import, NEW lost \in BOOLEAN, DeskStep(i, lost)
    PROVE  NamesRest
<1> USE DEF tableVars, cacheVars, Follows, At, Working, Ended
<1>0. faults \in Nat
  BY DEF Basic, MasterTypeOK
<1>1. CASE Validate(i, lost)
  <2>1. PICK to \in {"publish", "refused", "failed"} :
            import[i].at = "resolved" /\ import' = [import EXCEPT ![i].at = to]
    BY <1>1 DEF Validate
  <2>2. import' \in [Import -> ImportState] /\ \A j \in Import : GoesOn(j)
    BY <2>1, AtGoesOn
  <2> QED  BY <1>1, <2>2 DEF NamesRest, Validate, MayBreak
<1>2. CASE Credit(i, lost)
  <2>1. import' \in [Import -> ImportState] /\ \A j \in Import : GoesOn(j)
    BY <1>2, AtGoesOn DEF Credit
  <2> QED  BY <1>2, <2>1 DEF NamesRest, Credit, MayBreak
<1>3. CASE SyncTerritory(i, lost)
  <2>1. import' \in [Import -> ImportState] /\ \A j \in Import : GoesOn(j)
    BY <1>3, AtGoesOn DEF SyncTerritory
  <2> QED  BY <1>3, <2>1 DEF NamesRest, SyncTerritory, MayBreak
<1>4. CASE Aggregate(i, lost)
  <2>1. import' \in [Import -> ImportState] /\ \A j \in Import : GoesOn(j)
    BY <1>4, AtGoesOn DEF Aggregate
  <2> QED  BY <1>4, <2>1 DEF NamesRest, Aggregate, MayBreak
<1>5. CASE Clear(i, lost)
  <2>1. import' \in [Import -> ImportState] /\ \A j \in Import : GoesOn(j)
    BY <1>5, AtGoesOn DEF Clear
  <2> QED  BY <1>5, <2>1 DEF NamesRest, Clear, PurgeRedis, PurgeMemory, MayLose
<1>6. CASE ClearAgain(i, lost)
  <2>1. import' \in [Import -> ImportState] /\ \A j \in Import : GoesOn(j)
    BY <1>6, AtGoesOn DEF ClearAgain
  <2> QED  BY <1>6, <2>1 DEF NamesRest, ClearAgain, PurgeRedis, PurgeMemory, MayLose
<1>7. CASE Finish(i, lost)
  <2>1. import' \in [Import -> ImportState] /\ \A j \in Import : GoesOn(j)
    BY <1>7, AtGoesOn DEF Finish
  <2> QED  BY <1>7, <2>1 DEF NamesRest, Finish, Prewarm, MayLose
<1>8. CASE Publish(i)
  <2>1. import' \in [Import -> ImportState] /\ \A j \in Import : GoesOn(j)
    BY <1>8, AtGoesOn DEF Publish
  <2> QED  BY <1>8, <2>1 DEF NamesRest, Publish, boundVars
<1>9. CASE Withdraw(i)
  <2>1. import' \in [Import -> ImportState] /\ \A j \in Import : GoesOn(j)
    BY <1>9, AtGoesOn DEF Withdraw
  <2> QED  BY <1>9, <2>1 DEF NamesRest, Withdraw, MayBreak
<1>10. CASE SetLatestDate(i)
  <2>1. import' \in [Import -> ImportState] /\ \A j \in Import : GoesOn(j)
    BY <1>10, AtGoesOn DEF SetLatestDate
  <2> QED  BY <1>10, <2>1 DEF NamesRest, SetLatestDate, RememberDate
<1> QED  BY <1>1, <1>2, <1>3, <1>4, <1>5, <1>6, <1>7, <1>8, <1>9, <1>10 DEF DeskStep

\* A call to the mobile API, and what time does, leaves imports alone.
LEMMA RequestRests ==
    ASSUME Basic,
           \/ NewRequest \/ Expiry \/ EditDirectory
           \/ \E r \in Reader : Answering(r)
           \/ \E p \in Process : Refreshing(p)
    PROVE  NamesRest
<1> USE DEF others, masterVars, tableVars, cacheVars
<1>0. faults \in Nat
  BY DEF Basic, MasterTypeOK
<1>1. CASE NewRequest
  <2>1. PICK r \in mix.readers, lost \in BOOLEAN : Ask(r, lost) /\ UNCHANGED others
    BY <1>1 DEF NewRequest
  <2> QED  BY <2>1, ImportsStay DEF NamesRest, Ask, MayLose
<1>2. CASE Expiry
  BY <1>2, ImportsStay DEF NamesRest, Expiry
<1>3. CASE EditDirectory
  BY <1>3, ImportsStay DEF NamesRest, EditDirectory, boundVars
<1>4. ASSUME NEW r \in Reader, Answering(r) PROVE NamesRest
  <2>1. PICK lost \in BOOLEAN : RequestStep(r, lost) /\ UNCHANGED others
    BY <1>4 DEF Answering
  <2>2. faults' \in {faults, faults + 1}
    BY <2>1 DEF RequestStep, Query, KeepInRedis, KeepFound, ReadLookups,
                InstallLookups, KeepInMemory, MayLose
  <2> QED  BY <2>1, <2>2, ImportsStay DEF NamesRest
<1>5. ASSUME NEW p \in Process, Refreshing(p) PROVE NamesRest
  BY <1>5, ImportsStay DEF NamesRest, Refreshing, RefreshLookups
<1> QED  BY <1>1, <1>2, <1>3, <1>4, <1>5

Removes == \E r \in rows : RemoveDepot(r)

\* What a step may be, as far as names go.
LEMMA NamesNext ==
    ASSUME Basic, [Next]_vars
    PROVE  \/ \E i \in Import, p \in Process, s \in mix.sheets : BeginImport(i, p, s)
           \/ \E i \in Import, lost \in BOOLEAN : ResolveStep(i, lost)
           \/ Removes
           \/ NamesRest
<1>1. mix \in Mixes
  BY DEF Basic, MasterTypeOK
<1>2. CASE UNCHANGED vars
  <2>1. import' = import /\ rows' = rows /\ removed' = removed /\ mix' = mix
        /\ cached' = cached /\ hqCached' = hqCached /\ loaded' = loaded /\ faults' = faults
    BY <1>2 DEF vars, masterVars, tableVars, cacheVars, boundVars
  <2> QED  BY <2>1, ImportsStay DEF NamesRest
<1>3. CASE Upload
  <2>1. mix.imports \subseteq Import /\ mix.processes \subseteq Process
    BY <1>1, MasterAssumption, DeskAssumption
  <2> QED  BY <1>3, <2>1 DEF Upload
<1>4. CASE Resolve
  BY <1>4 DEF Resolve
<1>5. CASE Remove
  BY <1>5 DEF Remove, Removes
<1>6. CASE ImportStep
  <2>1. PICK i \in Import : (\E lost \in BOOLEAN : DeskStep(i, lost)) \/ Leave(i)
    BY <1>6 DEF ImportStep
  <2>2. CASE Leave(i)
    <3>1. import[i].at = "resolved" /\ import' = [import EXCEPT ![i].at = "done"]
      BY <2>2 DEF Leave, Follows, At
    <3>2. import' \in [Import -> ImportState] /\ \A j \in Import : GoesOn(j)
      BY <3>1, AtGoesOn DEF Working, Ended
    <3> QED  BY <2>2, <3>2 DEF NamesRest, Leave, tableVars, cacheVars, boundVars
  <2> QED  BY <2>1, <2>2, DeskRests
<1>7. CASE EditDirectory \/ NewRequest \/ Expiry
  BY <1>7, RequestRests
<1>8. CASE \E r \in mix.readers : Answering(r)
  <2>1. mix.readers \subseteq Reader
    BY <1>1, DeskAssumption
  <2> QED  BY <1>8, <2>1, RequestRests
<1>9. CASE \E p \in mix.processes : Refreshing(p)
  <2>1. mix.processes \subseteq Process
    BY <1>1, MasterAssumption
  <2> QED  BY <1>9, <2>1, RequestRests
<1> QED  BY <1>2, <1>3, <1>4, <1>5, <1>6, <1>7, <1>8, <1>9 DEF Next

-----------------------------------------------------------------------------
(***************************************************************************)
(* What is true of names whatever happens: types, one row for a name, and  *)
(* how many calls have failed where an import is.                          *)
(***************************************************************************)
LEMMA BasicInitially == Init => Basic
<1> SUFFICES ASSUME Init PROVE Basic
  OBVIOUS
<1>1. /\ mix \in Mixes /\ rows \in mix.priors
      /\ cached = [p \in Process |-> [k \in Key |-> NoId]]
      /\ hqCached = [p \in Process |-> [k \in Key |-> NoHq]]
      /\ loaded = {} /\ removed = 0 /\ faults = 0
      /\ import = [i \in Import |-> NewImport]
  BY DEF Init, MasterInit
<1>2. /\ rows \subseteq Row /\ OneEach(rows) /\ \A r \in rows : Clean[r.name] # NoKey
      /\ mix.removals \in Nat
  BY <1>1, MasterAssumption
<1>3. NewImport \in ImportState /\ NewImport.at = "idle" /\ NewImport.todo = {}
      /\ NewImport.last = {} /\ NewImport.failed = 0
  <2> DEFINE p == CHOOSE p \in Process : TRUE
  <2>1. p \in Process
    BY MasterAssumption
  <2>2. NewImport = [at |-> "idle", p |-> p, sheet |-> <<>>, todo |-> {}, moves |-> {},
                     last |-> {}, alone |-> FALSE, failed |-> 0]
    BY DEF NewImport
  <2>3. <<>> \in {<<>>} \cup UNION {m.sheets : m \in Mixes}
    OBVIOUS
  <2> HIDE DEF p
  <2>4. NewImport \in ImportState
    BY <2>1, <2>2, <2>3 DEF ImportState, Ended
  <2> QED  BY <2>2, <2>4
<1>4. \A i \in Import : import[i] = NewImport
  BY <1>1
<1>5. OneName(rows)
  BY <1>2 DEF OneEach, OneName
<1>6. MasterTypeOK
  <2>1. cached \in [Process -> [Key -> SomeId \cup {NoId}]] /\ hqCached \in [Process -> [Key -> MaybeHq]]
    BY <1>1 DEF MaybeHq
  <2>2. import \in [Import -> ImportState]
    BY <1>1, <1>3
  <2>3. \A i \in Import : At(i, "idle")
    BY <1>3, <1>4 DEF At
  <2> QED  BY <1>1, <1>2, <2>1, <2>2, <2>3 DEF MasterTypeOK
<1>7. \A i \in Import : TodoOK(i) /\ StepsOK(i)
  BY <1>1, <1>3, <1>4 DEF TodoOK, StepsOK, At
<1> QED  BY <1>1, <1>2, <1>5, <1>6, <1>7 DEF Basic

\* The types after a step of import i.
LEMMA TypesTurn ==
    ASSUME Basic, NEW i \in Import, Turns(i)
    PROVE  MasterTypeOK'
<1>1. /\ rows' \subseteq Row /\ loaded' \subseteq Process /\ import' \in [Import -> ImportState]
      /\ cached' \in [Process -> Caches] /\ hqCached' \in [Process -> HqCaches]
      /\ faults' \in Nat /\ mix' \in Mixes /\ removed' \in 0 .. mix'.removals
  BY DEF Turns, RowsChange, CachesChange, Basic, MasterTypeOK
<1>2. \A j \in Import : import'[j].at = "idle" \/ import'[j].sheet \in mix'.sheets
  <2>1. ~ At(i, "idle")
    BY DEF Turns, Resolving, At
  <2> QED  BY <2>1 DEF Turns, Basic, MasterTypeOK, At, Sheet
<1> QED  BY <1>1, <1>2 DEF MasterTypeOK, Caches, HqCaches, At, Sheet

LEMMA BasicTurns ==
    ASSUME Basic, NEW i \in Import, NEW lost \in BOOLEAN, ResolveStep(i, lost)
    PROVE  Basic'
<1>1. Turns(i)
  BY PrefetchIs, CollectIs, MoveIs, InsertIs, ReadsIs, InsertOneIs, InsertMinimalIs
  DEF ResolveStep
<1>2. MasterTypeOK'
  BY <1>1, TypesTurn
<1>3. OneName(rows') /\ \A r \in rows' : Clean[r.name] # NoKey
  BY <1>1 DEF Turns, RowsChange, Basic, TodoOK
<1>4. mix' = mix /\ ((Is("depots"))' \/ removed' = 0)
  BY <1>1 DEF Turns, Basic, Is
<1>5. \A j \in Import \ {i} : (TodoOK(j) /\ StepsOK(j))'
  <2> SUFFICES ASSUME NEW j \in Import \ {i} PROVE (TodoOK(j) /\ StepsOK(j))'
    OBVIOUS
  <2>1. import'[j] = import[j] /\ TodoOK(j) /\ StepsOK(j)
    BY <1>1 DEF Turns, Basic
  <2>2. import[j].failed <= faults'
    BY <1>1, <2>1, ImportIs DEF StepsOK, Turns, Basic, MasterTypeOK
  <2> QED  BY <1>4, <2>1, <2>2 DEF TodoOK, StepsOK, At, Is
<1>6. import'[i].failed <= faults'
  <2>1. import[i].failed <= faults /\ faults \in Nat /\ import[i].failed \in Nat
    BY ImportIs DEF Basic, StepsOK, MasterTypeOK
  <2>2. import'[i].failed = import[i].failed \/ (Counts(lost) /\ import'[i].failed = Fails(i, lost))
    <3> USE DEF Becomes
    <3>1. CASE Prefetch(i, lost)
      BY <3>1, PrefetchIs
    <3>2. CASE Collect(i, lost)
      BY <3>2, CollectIs
    <3>3. CASE MoveLicensee(i, lost)
      BY <3>3, MoveIs
    <3>4. CASE Insert(i, lost)
      BY <3>4, InsertIs
    <3>5. CASE ReadAgain(i, lost) \/ Refresh(i, lost)
      BY <3>5, ReadsIs
    <3>6. CASE InsertOne(i, lost)
      BY <3>6, InsertOneIs
    <3>7. CASE InsertMinimal(i, lost)
      BY <3>7, InsertMinimalIs
    <3> QED  BY <3>1, <3>2, <3>3, <3>4, <3>5, <3>6, <3>7 DEF ResolveStep
  <2>3. faults' \in {faults, faults + 1}
    BY <1>1 DEF Turns
  <2> QED  BY <2>1, <2>2, <2>3 DEF Counts, Fails
<1>7. TodoOK(i) /\ StepsOK(i) /\ import[i].failed \in Nat
      /\ mix.table \in Tables
  BY ImportIs, MasterAssumption DEF Basic, MasterTypeOK
<1>8. (TodoOK(i) /\ StepsOK(i))'
  <2> USE <1>4, <1>6, <1>7 DEF Becomes, StepsOK, TodoOK, Is, At
  <2>1. CASE Prefetch(i, lost)
    BY <2>1, PrefetchIs
  <2>2. CASE Collect(i, lost)
    <3>1. PICK c \in Caches :
              LET h == hqCached[import[i].p]
                  s == Sheet(i)
              IN  Becomes(i, Then(Moves(c, h, s), Missing(c, s)), Missing(c, s),
                          Moves(c, h, s), import[i].last, import[i].failed)
      BY <2>2, CollectIs
    <3> DEFINE s == Sheet(i)
    <3>2. s \in mix.sheets /\ mix \in Mixes /\ hqCached[import[i].p] \in HqCaches
      BY <2>2, CollectIs, ImportIs
    <3>3. \A t \in Missing(c, s) : Clean[t.name] # NoKey
      BY <3>2, MissingIs
    <3>4. mix.table = "companies" \/ \A t, u \in Missing(c, s) : Clean[t.name] = Clean[u.name] => t = u
      <4> SUFFICES ASSUME mix.table # "companies", NEW t \in Missing(c, s), NEW u \in Missing(c, s),
                          Clean[t.name] = Clean[u.name]
                   PROVE  t = u
        OBVIOUS
      <4>1. PICK k \in DOMAIN s : t = [name |-> s[k].name, hq |-> s[k].hq] /\ ~ Later(s, k)
        BY <3>2, MissingIs
      <4>2. PICK l \in DOMAIN s : u = [name |-> s[l].name, hq |-> s[l].hq] /\ ~ Later(s, l)
        BY <3>2, MissingIs
      <4>3. k \in Nat /\ l \in Nat
        BY <3>2, SheetFacts
      <4>4. k = l
        BY <4>1, <4>2, <4>3 DEF Later
      <4> QED  BY <4>1, <4>2, <4>4
    <3> DEFINE moves == Moves(c, hqCached[import[i].p], s)
               todo == Missing(c, s)
               at == Then(moves, todo)
    <3>5. /\ import'[i].at = at /\ import'[i].todo = todo
          /\ import'[i].last = import[i].last /\ import[i].last = {}
      BY <2>2, <3>1, CollectIs
    <3>6. at \in {"move", "insert", "resolved"} /\ (at = "move" => Is("licensees"))
      BY DEF Then, Moves, Moved
    <3> HIDE DEF at, todo
    <3> QED  BY <3>3, <3>4, <3>5, <3>6 DEF todo
  <2>3. CASE MoveLicensee(i, lost)
    BY <2>3, MoveIs DEF Then
  <2>4. CASE Insert(i, lost)
    <3> DEFINE raised == lost \/ Collides(import[i].todo)
    <3>1. /\ At(i, "insert") /\ ~ Is("companies")
          /\ Becomes(i, AfterInsert(raised), import[i].todo, import[i].moves,
                     import[i].last, Fails(i, lost))
      BY <2>4, InsertIs
    <3>2. Is("licensees") /\ raised => Fails(i, lost) = import[i].failed + 1
      BY DEF Collides, Fails
    <3>3. Fails(i, lost) >= 0
      BY DEF Fails
    <3> HIDE DEF raised
    <3> QED  BY <3>1, <3>2, <3>3 DEF AfterInsert, Tables
  <2>5. CASE ReadAgain(i, lost) \/ Refresh(i, lost)
    <3>1. /\ At(i, "read_again") \/ At(i, "refresh")
          /\ Becomes(i, "resolved", import[i].todo, import[i].moves, import[i].last,
                     Fails(i, lost))
      BY <2>5, ReadsIs
    <3> QED  BY <3>1
  <2>6. CASE InsertOne(i, lost)
    <3> DEFINE again == lost /\ Is("licensees")
    <3>1. PICK t \in import[i].todo :
              Becomes(i, IF again THEN "insert_minimal" ELSE Done(i, t),
                      IF again THEN import[i].todo ELSE import[i].todo \ {t},
                      import[i].moves, IF again THEN {t} ELSE {}, Fails(i, lost))
      BY <2>6, InsertOneIs
    <3>2. At(i, "insert_one") \/ (At(i, "insert") /\ Is("companies"))
      BY <2>6, InsertOneIs
    <3>3. CASE again
      BY <3>1, <3>2, <3>3 DEF Fails
    <3>4. CASE ~ again
      BY <3>1, <3>2, <3>4 DEF Fails, Done
    <3> QED  BY <3>3, <3>4
  <2>7. CASE InsertMinimal(i, lost)
    <3>1. PICK t \in import[i].last :
              Becomes(i, IF import[i].todo = {t} THEN "refresh" ELSE "insert_one",
                      import[i].todo \ {t}, import[i].moves, {}, Fails(i, lost))
      BY <2>7, InsertMinimalIs
    <3>2. At(i, "insert_minimal")
      BY <2>7, InsertMinimalIs
    <3> QED  BY <3>1, <3>2 DEF Fails
  <2> QED  BY <2>1, <2>2, <2>3, <2>4, <2>5, <2>6, <2>7 DEF ResolveStep
<1> QED  BY <1>2, <1>3, <1>4, <1>5, <1>8 DEF Basic

\* An import begins; those under way are no longer alone.
SameButAlone(j) ==
    /\ import'[j].at = import[j].at /\ import'[j].p = import[j].p
    /\ import'[j].sheet = import[j].sheet /\ import'[j].todo = import[j].todo
    /\ import'[j].moves = import[j].moves /\ import'[j].last = import[j].last
    /\ import'[j].failed = import[j].failed

BeginsAs(i, p, s) ==
    /\ At(i, "idle") /\ import' \in [Import -> ImportState]
    /\ Becomes(i, "prefetch", import[i].todo, import[i].moves, import[i].last, import[i].failed)
    /\ import'[i].p = p /\ import'[i].sheet = s
    /\ import'[i].alone <=> \A q \in Import : ~ UnderWay(q)
    /\ \A j \in Import \ {i} : SameButAlone(j)
    /\ \A j \in Import \ {i} : import'[j].alone <=> import[j].alone /\ ~ UnderWay(j)
    /\ rows' = rows /\ removed' = removed /\ mix' = mix /\ faults' = faults
    /\ cached' = cached /\ hqCached' = hqCached /\ loaded' = loaded

LEMMA BeginIs ==
    ASSUME Basic, NEW i \in Import, NEW p \in Process, NEW s \in mix.sheets,
           BeginImport(i, p, s)
    PROVE  BeginsAs(i, p, s)
<1> DEFINE first == \A q \in Import : ~ UnderWay(q)
           new == [import[i] EXCEPT !.at = "prefetch", !.p = p, !.sheet = s, !.alone = first]
           other(j) == IF UnderWay(j) THEN [import[j] EXCEPT !.alone = FALSE] ELSE import[j]
<1>1. /\ At(i, "idle") /\ rows' = rows /\ removed' = removed /\ mix' = mix /\ faults' = faults
      /\ cached' = cached /\ hqCached' = hqCached /\ loaded' = loaded
  BY DEF BeginImport, tableVars, cacheVars, boundVars
<1>2. import' = [j \in Import |-> IF j = i THEN new ELSE other(j)]
  BY DEF BeginImport
<1>3. /\ new \in ImportState /\ new.at = "prefetch" /\ new.p = p /\ new.sheet = s
      /\ new.alone = first /\ new.todo = import[i].todo /\ new.moves = import[i].moves
      /\ new.last = import[i].last /\ new.failed = import[i].failed
  <2>1. s \in {<<>>} \cup UNION {m.sheets : m \in Mixes}
    BY ImportIs
  <2>2. first \in BOOLEAN /\ import[i] \in ImportState
    BY ImportIs
  <2> HIDE DEF first
  <2> QED  BY <2>1, <2>2 DEF ImportState, Resolving
<1>4. ASSUME NEW j \in Import
      PROVE  /\ other(j) \in ImportState
             /\ other(j).at = import[j].at /\ other(j).p = import[j].p
             /\ other(j).sheet = import[j].sheet /\ other(j).todo = import[j].todo
             /\ other(j).moves = import[j].moves /\ other(j).last = import[j].last
             /\ other(j).failed = import[j].failed
             /\ other(j).alone <=> import[j].alone /\ ~ UnderWay(j)
  <2>1. import[j] \in ImportState
    BY ImportIs
  <2>2. CASE UnderWay(j)
    <3>1. other(j) = [import[j] EXCEPT !.alone = FALSE]
      BY <2>2
    <3>2. other(j).alone = FALSE /\ other(j) \in ImportState
      BY <2>1, <3>1 DEF ImportState
    <3> QED  BY <2>1, <2>2, <3>1, <3>2 DEF ImportState
  <2>3. CASE ~ UnderWay(j)
    <3>1. other(j) = import[j]
      BY <2>3
    <3> QED  BY <2>1, <2>3, <3>1
  <2> QED  BY <2>2, <2>3
<1> HIDE DEF new, other
<1>5. import' \in [Import -> ImportState] /\ import'[i] = new
      /\ \A j \in Import \ {i} : import'[j] = other(j)
  BY <1>2, <1>3, <1>4
<1>6. import'[i].alone <=> first
  BY <1>3, <1>5
<1> HIDE DEF first
<1>7. \A j \in Import \ {i} : SameButAlone(j) /\ (import'[j].alone <=> import[j].alone /\ ~ UnderWay(j))
  BY <1>4, <1>5 DEF SameButAlone
<1> QED  BY <1>1, <1>3, <1>5, <1>6, <1>7 DEF BeginsAs, Becomes, first

LEMMA RemoveIs ==
    ASSUME Basic, Removes
    PROVE  /\ Is("depots") /\ rows' \subseteq rows /\ removed' \in Nat \ {0}
           /\ removed' \in 0 .. mix.removals
           /\ import' = import /\ mix' = mix /\ faults' = faults
           /\ cached' = cached /\ hqCached' = hqCached /\ loaded' = loaded
<1>1. PICK r \in rows : RemoveDepot(r)
  BY DEF Removes
<1>2. removed \in 0 .. mix.removals /\ mix.removals \in Nat
  BY MasterAssumption DEF Basic, MasterTypeOK
<1> QED  BY <1>1, <1>2 DEF RemoveDepot, cacheVars, boundVars

LEMMA BasicStep == Basic /\ [Next]_vars => Basic'
<1> SUFFICES ASSUME Basic, [Next]_vars PROVE Basic'
  OBVIOUS
<1>1. ASSUME NEW i \in Import, NEW p \in Process, NEW s \in mix.sheets, BeginImport(i, p, s)
      PROVE  Basic'
  <2>1. BeginsAs(i, p, s)
    BY <1>1, BeginIs
  <2>2. MasterTypeOK'
    BY <2>1 DEF BeginsAs, SameButAlone, Becomes, Basic, MasterTypeOK, At, Sheet
  <2>3. (TodoOK(i) /\ StepsOK(i))'
    <3>1. TodoOK(i) /\ StepsOK(i)
      BY DEF Basic
    <3> QED  BY <2>1, <3>1 DEF BeginsAs, Becomes, TodoOK, StepsOK, At, Is
  <2>4. ASSUME NEW j \in Import \ {i} PROVE (TodoOK(j) /\ StepsOK(j))'
    <3>1. TodoOK(j) /\ StepsOK(j) /\ SameButAlone(j)
      BY <2>1 DEF Basic, BeginsAs
    <3> QED  BY <2>1, <3>1 DEF BeginsAs, SameButAlone, TodoOK, StepsOK, At, Is
  <2> QED  BY <2>1, <2>2, <2>3, <2>4 DEF Basic, BeginsAs, OneName, Is
<1>2. ASSUME Removes PROVE Basic'
  <2>1. MasterTypeOK'
    BY <1>2, RemoveIs DEF Basic, MasterTypeOK, At, Sheet
  <2>2. \A j \in Import : (TodoOK(j) /\ StepsOK(j))'
    BY <1>2, RemoveIs DEF Basic, TodoOK, StepsOK, At, Is
  <2> QED  BY <1>2, <2>1, <2>2, RemoveIs DEF Basic, OneName, Is
<1>3. ASSUME NamesRest PROVE Basic'
  <2>1. ASSUME NEW j \in Import
        PROVE  (TodoOK(j) /\ StepsOK(j))' /\ (import'[j].at = "idle" \/ import'[j].sheet \in mix.sheets)
    <3>1. /\ TodoOK(j) /\ StepsOK(j) /\ import[j].failed \in Nat /\ faults \in Nat
          /\ import[j] \in ImportState
          /\ import[j].at = "idle" \/ import[j].sheet \in mix.sheets
      BY ImportIs DEF Basic, MasterTypeOK, At, Sheet
    <3>2. import[j].failed <= faults'
      BY <1>3, <3>1 DEF NamesRest, StepsOK
    <3>3. CASE import'[j] = import[j]
      BY <1>3, <3>1, <3>2, <3>3 DEF NamesRest, TodoOK, StepsOK, At, Is
    <3>4. CASE import'[j] # import[j]
      <4>1. PICK a \in (Working \cup Ended) \ {"idle"} : import'[j] = [import[j] EXCEPT !.at = a]
        BY <1>3, <3>4 DEF NamesRest, GoesOn
      <4>2. import[j].at \in Working
        BY <1>3, <3>4 DEF NamesRest, GoesOn, Resolved
      <4>3. /\ import'[j].at = a /\ import'[j].todo = import[j].todo
            /\ import'[j].last = import[j].last /\ import'[j].failed = import[j].failed
            /\ import'[j].sheet = import[j].sheet
        BY <3>1, <4>1 DEF ImportState
      <4>4. a \notin Resolving /\ import[j].at \notin Resolving /\ import[j].at # "idle"
        BY <4>2 DEF Working, Ended, Resolving
      <4> QED  BY <1>3, <3>1, <3>2, <4>3, <4>4 DEF NamesRest, TodoOK, StepsOK, At, Is, Resolving
    <3> QED  BY <3>3, <3>4
  <2>2. MasterTypeOK'
    BY <1>3, <2>1 DEF NamesRest, Basic, MasterTypeOK, At, Sheet
  <2> QED  BY <1>3, <2>1, <2>2 DEF NamesRest, Basic, OneName, Is
<1> QED  BY <1>1, <1>2, <1>3, NamesNext, BasicTurns

-----------------------------------------------------------------------------
(***************************************************************************)
(* What has happened stays so: which imports have begun and with which     *)
(* process and sheet, that two of them overlapped, that calls failed.      *)
(***************************************************************************)
Begun(i) == ~ At(i, "idle")

ImportKeeps(j) ==
    Begun(j) => /\ import'[j].at # "idle" /\ import'[j].p = import[j].p
                /\ import'[j].sheet = import[j].sheet
                /\ import'[j].alone => import[j].alone

\* The labels of an import do not mix.
LEMMA LabelsDiffer ==
    /\ "idle" \notin Resolving \cup Working \cup {"failed"}
    /\ Resolving \cap Working = {} /\ Ended \cap (Resolving \cup Working) = {}
    /\ "resolved" \in Working
  BY DEF Resolving, Working, Ended

\* An import that goes on changes nothing but where it is.
OnlyMoves(j) ==
    /\ import'[j].p = import[j].p /\ import'[j].sheet = import[j].sheet
    /\ import'[j].todo = import[j].todo /\ import'[j].moves = import[j].moves
    /\ import'[j].last = import[j].last /\ import'[j].failed = import[j].failed
    /\ import'[j].alone = import[j].alone
    /\ \/ import'[j].at = import[j].at
       \/ /\ import[j].at \in Working
          /\ import'[j].at \in (Working \cup Ended) \ {"idle"}

LEMMA GoingOn ==
    ASSUME Basic, NEW j \in Import, GoesOn(j)
    PROVE  OnlyMoves(j)
<1>1. import[j] \in ImportState
  BY ImportIs
<1>2. CASE import'[j] = import[j]
  BY <1>2 DEF OnlyMoves
<1>3. ASSUME NEW a \in (Working \cup Ended) \ {"idle"}, Resolved(j),
             import'[j] = [import[j] EXCEPT !.at = a]
      PROVE  OnlyMoves(j)
  BY <1>1, <1>3 DEF OnlyMoves, Resolved, ImportState
<1> QED  BY <1>2, <1>3 DEF GoesOn

LEMMA Keeps ==
    ASSUME Basic, [Next]_vars
    PROVE  /\ \A j \in Import : ImportKeeps(j)
           /\ mix' = mix /\ faults' \in {faults, faults + 1}
<1>1. ASSUME NEW i \in Import, NEW p \in Process, NEW s \in mix.sheets, BeginImport(i, p, s)
      PROVE  (\A j \in Import : ImportKeeps(j)) /\ mix' = mix /\ faults' = faults
  BY <1>1, BeginIs DEF BeginsAs, SameButAlone, ImportKeeps, Begun, At
<1>2. ASSUME NEW i \in Import, NEW lost \in BOOLEAN, ResolveStep(i, lost)
      PROVE  Turns(i)
  BY <1>2, PrefetchIs, CollectIs, MoveIs, InsertIs, ReadsIs, InsertOneIs, InsertMinimalIs
  DEF ResolveStep
<1>3. ASSUME NEW i \in Import, Turns(i)
      PROVE  (\A j \in Import : ImportKeeps(j)) /\ mix' = mix /\ faults' \in {faults, faults + 1}
  BY <1>3, LabelsDiffer DEF Turns, ImportKeeps, Begun, At
<1>4. ASSUME Removes PROVE (\A j \in Import : ImportKeeps(j)) /\ mix' = mix /\ faults' = faults
  BY <1>4, RemoveIs DEF ImportKeeps, Begun, At
<1>5. ASSUME NamesRest
      PROVE  (\A j \in Import : ImportKeeps(j)) /\ mix' = mix /\ faults' \in {faults, faults + 1}
  <2>1. ASSUME NEW j \in Import PROVE ImportKeeps(j)
    <3>1. OnlyMoves(j)
      BY <1>5, GoingOn DEF NamesRest
    <3> QED  BY <3>1 DEF OnlyMoves, ImportKeeps, Begun, At, Ended
  <2> QED  BY <1>5, <2>1 DEF NamesRest
<1> QED  BY <1>1, <1>2, <1>3, <1>4, <1>5, NamesNext

LEMMA History ==
    ASSUME Basic, [Next]_vars
    PROVE  /\ ~ Overlapped' => ~ Overlapped
           /\ OneProcess' => OneProcess
           /\ faults' = 0 => faults = 0
<1>1. \A j \in Import : ImportKeeps(j)
  BY Keeps
<1>2. ~ Overlapped' => ~ Overlapped
  BY <1>1 DEF Overlapped, ImportKeeps, Begun, At
<1>3. OneProcess' => OneProcess
  BY <1>1 DEF OneProcess, ImportKeeps, Begun, At
<1>4. faults' \in {faults, faults + 1} /\ faults \in Nat
  BY Keeps DEF Basic, MasterTypeOK
<1> QED  BY <1>2, <1>3, <1>4

(***************************************************************************)
(* An import that is alone is the only one under way.  What no import has  *)
(* used is empty.                                                          *)
(***************************************************************************)
Empty(c) == \A k \in Key : c[k] = NoId

LoneInv == \A i, j \in Import : i # j /\ UnderWay(i) /\ UnderWay(j) => ~ import[i].alone

UnusedInv ==
    \A p \in Process :
        (\A i \in Import : Begun(i) => import[i].p # p) => Empty(cached[p]) /\ p \notin loaded

LEMMA LoneStep ==
    ASSUME Basic, LoneInv, [Next]_vars
    PROVE  LoneInv'
<1> SUFFICES ASSUME NEW a \in Import, NEW b \in Import, a # b,
                    UnderWay(a)', UnderWay(b)', import'[a].alone
             PROVE  FALSE
  BY DEF LoneInv
<1>1. ~ (UnderWay(a) /\ UnderWay(b) /\ import[a].alone)
  BY DEF LoneInv
<1>2. ASSUME NEW i \in Import, NEW p \in Process, NEW s \in mix.sheets, BeginImport(i, p, s)
      PROVE  FALSE
  BY <1>1, <1>2, BeginIs DEF BeginsAs, SameButAlone, UnderWay
<1>3. ASSUME NEW i \in Import, Turns(i) PROVE FALSE
  BY <1>1, <1>3, LabelsDiffer DEF Turns, UnderWay
<1>4. ASSUME NEW i \in Import, NEW lost \in BOOLEAN, ResolveStep(i, lost) PROVE Turns(i)
  BY <1>4, PrefetchIs, CollectIs, MoveIs, InsertIs, ReadsIs, InsertOneIs, InsertMinimalIs
  DEF ResolveStep
<1>5. ASSUME Removes PROVE FALSE
  BY <1>1, <1>5, RemoveIs DEF UnderWay
<1>6. ASSUME NamesRest PROVE FALSE
  <2>1. ASSUME NEW j \in Import, UnderWay(j)'
        PROVE  UnderWay(j) /\ (import'[j].alone => import[j].alone)
    <3>1. OnlyMoves(j)
      BY <1>6, GoingOn DEF NamesRest
    <3> QED  BY <2>1, <3>1, LabelsDiffer DEF OnlyMoves, UnderWay
  <2> QED  BY <1>1, <2>1
<1> QED  BY <1>2, <1>3, <1>4, <1>5, <1>6, NamesNext

LEMMA UnusedStep ==
    ASSUME Basic, UnusedInv, [Next]_vars
    PROVE  UnusedInv'
<1> SUFFICES ASSUME NEW q \in Process, \A i \in Import : Begun(i)' => import'[i].p # q
             PROVE  Empty(cached'[q]) /\ q \notin loaded'
  BY DEF UnusedInv, Empty
<1>1. \A i \in Import : Begun(i) => import[i].p # q
  BY Keeps DEF ImportKeeps, Begun, At
<1>2. Empty(cached[q]) /\ q \notin loaded
  BY <1>1 DEF UnusedInv
<1>3. CASE cached' = cached /\ loaded' = loaded
  BY <1>2, <1>3
<1>4. ASSUME NEW i \in Import, NEW lost \in BOOLEAN, ResolveStep(i, lost)
      PROVE  Empty(cached'[q]) /\ q \notin loaded'
  <2>1. Turns(i)
    BY <1>4, PrefetchIs, CollectIs, MoveIs, InsertIs, ReadsIs, InsertOneIs, InsertMinimalIs
    DEF ResolveStep
  <2>2. loaded' \subseteq loaded \cup {import[i].p}
    BY <1>4, PrefetchIs, CollectIs, MoveIs, InsertIs, ReadsIs, InsertOneIs, InsertMinimalIs
    DEF ResolveStep
  <2>3. import[i].p # q
    BY <1>1, <2>1, LabelsDiffer DEF Turns, Begun, At
  <2>4. cached'[q] = cached[q]
    BY <2>1, <2>3 DEF Turns, CachesChange
  <2> QED  BY <1>2, <2>2, <2>3, <2>4
<1>5. ASSUME NEW i \in Import, NEW p \in Process, NEW s \in mix.sheets, BeginImport(i, p, s)
      PROVE  cached' = cached /\ loaded' = loaded
  BY <1>5, BeginIs DEF BeginsAs
<1> QED  BY <1>3, <1>4, <1>5, NamesNext, RemoveIs DEF NamesRest

-----------------------------------------------------------------------------
(***************************************************************************)
(* A cache covers the table when it knows every key of every row.          *)
(***************************************************************************)
Covers(c) == \A r \in rows : \A k \in Keys(r.name) : c[k] # NoId

ReadOnce == mix.table \in {"headquarters", "companies", "brands"}

Looked(i) == import[i].at \in {"move", "insert", "insert_one", "insert_minimal",
                               "read_again", "refresh"} \cup Working

HasRead(i) ==
    \/ Looked(i)
    \/ IF Is("brands") THEN import[i].p \in loaded ELSE ~ Empty(Cached(i))

(***************************************************************************)
(* Of the tables that a process reads once, its cache covers the table     *)
(* from then on, if there is one process and no call failed; of the others *)
(* it does when an import that is alone looks into it.                     *)
(***************************************************************************)
CoverInv ==
    /\ ReadOnce /\ OneProcess /\ faults = 0 =>
          \A i \in Import : Begun(i) /\ HasRead(i) => Covers(Cached(i))
    /\ ~ ReadOnce =>
          \A i \in Import : import[i].alone /\ At(i, "collect") => Covers(Cached(i))

LEMMA KeysStay ==
    ASSUME mix' = mix
    PROVE  \A n : Keys(n)' = Keys(n)
  BY DEF Keys, Is

LEMMA ReadCovers ==
    ASSUME Basic, NEW c \in Caches, NEW last
    PROVE  Covers(Ids(c, rows, last))
<1> SUFFICES ASSUME NEW r \in rows, NEW k \in Keys(r.name)
             PROVE  Ids(c, rows, last)[k] # NoId
  BY DEF Covers
<1>1. rows \in SUBSET Row /\ r.name \in Name
  BY DEF Basic, MasterTypeOK, Row
<1>2. k \in Key /\ r \in Holders(rows, k)
  BY <1>1, KeyFacts DEF Holders
<1>3. \A q \in Holders(rows, k) : Id(q) # NoId
  BY <1>1, IdIs DEF Holders
<1> QED  BY <1>1, <1>2, <1>3, IdsGive

\* Reading the table again.
LEMMA StoreCovers ==
    ASSUME Basic, NEW i \in Import, rows' = rows, mix' = mix, import'[i].p = import[i].p,
           Store(rows, import[i].p)
    PROVE  Covers(Cached(i))'
<1>1. /\ cached \in [Process -> Caches] /\ hqCached \in [Process -> HqCaches]
      /\ import[i].p \in Process /\ rows \in SUBSET Row
  BY ImportIs DEF Basic, MasterTypeOK, Caches, HqCaches
<1>2. PICK last : cached' = [cached EXCEPT ![import[i].p] = Ids(cached[import[i].p], rows, last)]
  BY <1>1, StoreGives
<1>3. cached'[import[i].p] = Ids(cached[import[i].p], rows, last)
  BY <1>1, <1>2
<1>4. Covers(Ids(cached[import[i].p], rows, last))
  BY <1>1, ReadCovers
<1> HIDE DEF Keys
<1> QED  BY <1>3, <1>4, KeysStay DEF Covers, Cached

\* A cache that covers still does when it has not forgotten anything and no
\* name has been added.
LEMMA StillCovers ==
    ASSUME Basic, NEW i \in Import, mix' = mix, import'[i].p = import[i].p,
           \A q \in rows' : \E r \in rows : q.name = r.name,
           \A k \in Key : Cached(i)[k] # NoId => cached'[import[i].p][k] # NoId,
           Covers(Cached(i))
    PROVE  Covers(Cached(i))'
<1>1. \A r \in rows : r.name \in Name
  BY DEF Basic, MasterTypeOK, Row
<1> SUFFICES ASSUME NEW q \in rows', NEW k \in Keys(q.name)
             PROVE  cached'[import[i].p][k] # NoId
  BY KeysStay DEF Covers, Cached
<1>2. PICK r \in rows : q.name = r.name
  OBVIOUS
<1>3. k \in Key
  BY <1>1, <1>2, KeyFacts
<1> QED  BY <1>2, <1>3 DEF Covers

\* A write that does not fail leaves the cache covering the table.
LEMMA WritesCover ==
    ASSUME Basic, NEW i \in Import, Turns(i), NEW T, T \subseteq import[i].todo,
           NEW raised, raised => Collides(T), Writes(i, T, raised), Covers(Cached(i))
    PROVE  Covers(Cached(i))'
<1>1. mix' = mix /\ import'[i].p = import[i].p /\ CachesChange(import[i].p)
  BY DEF Turns
<1>2. \A k \in Key : Cached(i)[k] # NoId => cached'[import[i].p][k] # NoId
  BY <1>1 DEF CachesChange, Cached
<1>3. CASE rows' = rows
  BY <1>1, <1>2, <1>3, StillCovers
<1>4. CASE ~ Collides(T) /\ rows' = Upserted(T)
  <2> DEFINE S == Named(Upserted(T), T)
             p == import[i].p
  <2>1. T \in SUBSET Item
    BY ImportIs
  <2>2. S \in SUBSET Row
    BY <2>1, UpsertedAre DEF Named
  <2>3. Store(S, p)
    BY <1>4 DEF Writes
  <2>4. cached \in [Process -> Caches] /\ hqCached \in [Process -> HqCaches] /\ p \in Process
    BY ImportIs DEF Basic, MasterTypeOK, Caches, HqCaches
  <2> HIDE DEF S, p
  <2>5. PICK last : cached' = [cached EXCEPT ![p] = Ids(cached[p], S, last)]
    BY <2>2, <2>3, <2>4, StoreGives
  <2>6. cached'[p] = Ids(cached[p], S, last) /\ cached[p] \in Caches
    BY <2>4, <2>5
  <2> SUFFICES ASSUME NEW q \in Upserted(T), NEW k \in Keys(q.name)
               PROVE  cached'[p][k] # NoId
    BY <1>1, <1>4, KeysStay DEF Covers, Cached, p
  <2>7. q \in Row /\ k \in Key
    BY <2>1, UpsertedAre, KeyFacts DEF Row
  <2>8. CASE \E r \in rows : q.name = r.name
    BY <1>2, <2>7, <2>8 DEF Covers, Cached, p
  <2>9. CASE \E t \in T : q.name = t.name
    <3>1. q \in Holders(S, k)
      BY <2>9 DEF Holders, Named, S
    <3>2. \A r \in Holders(S, k) : Id(r) # NoId
      BY <2>2, IdIs DEF Holders
    <3>3. \A key \in Key :
              \/ Holders(S, key) = {} /\ Ids(cached[p], S, last)[key] = cached[p][key]
              \/ \E r \in Holders(S, key) : Ids(cached[p], S, last)[key] = Id(r)
      <4>1. S \in SUBSET Row /\ cached[p] \in Caches
        BY <2>2, <2>6
      <4> DEFINE c == cached[p]
      <4> HIDE DEF c
      <4>2. S \in SUBSET Row /\ c \in Caches
        BY <4>1 DEF c
      <4>3. \A key \in Key :
              \/ Holders(S, key) = {} /\ Ids(c, S, last)[key] = c[key]
              \/ \E r \in Holders(S, key) : Ids(c, S, last)[key] = Id(r)
        BY <4>2, IdsGive, Zenon
      <4> QED  BY <4>3 DEF c
    <3> QED  BY <2>6, <2>7, <3>1, <3>2, <3>3
  <2> QED  BY <2>1, <2>8, <2>9, UpsertedAre
<1> QED  BY <1>3, <1>4 DEF Writes

\* What an import looks in covers the table.
LEMMA LookCovers ==
    ASSUME Basic, NEW i \in Import, At(i, "collect"), NEW lost \in BOOLEAN, NEW c,
           LookedIn(i, lost, c), ReadOnce => ~lost,
           IF ReadOnce THEN HasRead(i) => Covers(Cached(i)) ELSE Covers(Cached(i))
    PROVE  Covers(c)
<1>1. Cached(i) \in Caches
  BY ImportIs DEF Cached
<1>2. CASE ReadsFirst(import[i].p) /\ ~lost
  BY <1>1, <1>2, ReadCovers DEF LookedIn
<1>3. CASE ~ (ReadsFirst(import[i].p) /\ ~lost)
  <2>1. c = Cached(i)
    BY <1>3 DEF LookedIn
  <2>2. ReadOnce => HasRead(i)
    BY <1>3 DEF ReadsFirst, ReadOnce, HasRead, Empty, Is, Cached
  <2> QED  BY <2>1, <2>2
<1> QED  BY <1>2, <1>3

\* No call fails, and the table is read once.
LEMMA CoverTurn ==
    ASSUME Basic, NEW i \in Import, ReadOnce, HasRead(i) => Covers(Cached(i)),
           ResolveStep(i, FALSE), ~ Prefetch(i, FALSE)
    PROVE  Covers(Cached(i))'
<1>1. Turns(i)
  BY CollectIs, MoveIs, InsertIs, ReadsIs, InsertOneIs, InsertMinimalIs DEF ResolveStep
<1>2. mix' = mix /\ import'[i].p = import[i].p
  BY <1>1 DEF Turns
<1>3. CASE Collect(i, FALSE)
  <2> DEFINE s == Sheet(i)
  <2>1. PICK c \in Caches : /\ LookedIn(i, FALSE, c)
                            /\ cached'[import[i].p] = Completed(c, s)
    BY <1>3, CollectIs
  <2>2. At(i, "collect") /\ rows' = rows /\ s \in mix.sheets /\ mix \in Mixes
    BY <1>3, CollectIs, ImportIs DEF At
  <2>3. Covers(c)
    BY <2>1, <2>2, LookCovers
  <2> HIDE DEF s
  <2> SUFFICES ASSUME NEW r \in rows, NEW k \in Keys(r.name)
               PROVE  Completed(c, s)[k] # NoId
    BY <1>2, <2>1, <2>2, KeysStay DEF Covers, Cached
  <2>4. r.name \in Name
    BY DEF Basic, MasterTypeOK, Row
  <2>5. k \in Key /\ c[k] # NoId
    BY <2>3, <2>4, KeyFacts DEF Covers
  <2> QED  BY <2>2, <2>5, CompletedKeeps
<1>4. CASE MoveLicensee(i, FALSE) \/ InsertMinimal(i, FALSE)
  <2>1. Is("licensees")
    BY <1>4, MoveIs, InsertMinimalIs DEF Basic, StepsOK
  <2> QED  BY <2>1 DEF ReadOnce, Is
<1>5. CASE Insert(i, FALSE)
  <2>1. Writes(i, import[i].todo, FALSE \/ Collides(import[i].todo)) /\ At(i, "insert")
    BY <1>5, InsertIs
  <2>2. HasRead(i)
    BY <2>1 DEF HasRead, Looked, At
  <2> QED  BY <1>1, <2>1, <2>2, WritesCover
<1>6. CASE InsertOne(i, FALSE)
  <2>1. PICK t \in import[i].todo : Writes(i, {t}, FALSE \/ Collides({t}))
    BY <1>6, InsertOneIs
  <2>2. HasRead(i)
    BY <1>6, InsertOneIs DEF HasRead, Looked, At
  <2>3. {t} \subseteq import[i].todo
    OBVIOUS
  <2> QED  BY <1>1, <2>1, <2>2, <2>3, WritesCover
<1>7. CASE ReadAgain(i, FALSE) \/ Refresh(i, FALSE)
  BY <1>2, <1>7, ReadsIs, StoreCovers
<1> QED  BY <1>3, <1>4, <1>5, <1>6, <1>7 DEF ResolveStep

\* A step of an import that resolves names, with what all of them have in common.
LEMMA AnyTurn ==
    ASSUME Basic, NEW i \in Import, NEW lost \in BOOLEAN, ResolveStep(i, lost)
    PROVE  /\ Turns(i) /\ Counts(lost) /\ UnderWay(i) /\ Begun(i)
           /\ loaded' \subseteq loaded \cup {import[i].p}
<1>1. Turns(i) /\ Counts(lost) /\ loaded' \subseteq loaded \cup {import[i].p}
  BY PrefetchIs, CollectIs, MoveIs, InsertIs, ReadsIs, InsertOneIs, InsertMinimalIs
  DEF ResolveStep
<1> QED  BY <1>1, LabelsDiffer DEF Turns, UnderWay, Begun, At, Resolving

LEMMA CoverStep ==
    ASSUME Basic, LoneInv, UnusedInv, CoverInv, [Next]_vars
    PROVE  CoverInv'
<1>0. mix' = mix /\ (ReadOnce' <=> ReadOnce) /\ mix.table \in Tables
  BY Keeps, MasterAssumption DEF ReadOnce, Basic, MasterTypeOK
<1>1. ASSUME NEW i \in Import, NEW p \in Process, NEW s \in mix.sheets, BeginImport(i, p, s)
      PROVE  CoverInv'
  <2>1. BeginsAs(i, p, s)
    BY <1>1, BeginIs
  <2>2. /\ rows' = rows /\ cached' = cached /\ loaded' = loaded /\ mix' = mix
        /\ import'[i].at = "prefetch" /\ import'[i].p = p
        /\ \A j \in Import \ {i} : /\ import'[j].at = import[j].at /\ import'[j].p = import[j].p
                                   /\ import'[j].alone => import[j].alone
    BY <2>1 DEF BeginsAs, SameButAlone, Becomes
  <2>3. ASSUME ReadOnce, OneProcess', faults' = 0, NEW j \in Import, Begun(j)', HasRead(j)'
        PROVE  Covers(Cached(j))'
    <3>1. OneProcess /\ faults = 0
      BY <2>3, History
    <3>2. \A q \in Import : Begun(q) /\ HasRead(q) => Covers(Cached(q))
      BY <2>3, <3>1 DEF CoverInv
    <3>3. CASE j # i
      <4>1. Begun(j) /\ HasRead(j)
        BY <2>2, <2>3, <3>3 DEF Begun, At, HasRead, Looked, Is, Empty, Cached
      <4> QED  BY <2>2, <3>2, <3>3, <4>1, KeysStay DEF Covers, Cached
    <3>4. CASE j = i
      <4>1. p \in loaded \/ ~ Empty(cached[p])
        BY <2>2, <2>3, <3>4 DEF HasRead, Looked, Is, Empty, Cached, Working
      <4>2. PICK q \in Import : Begun(q) /\ import[q].p = p
        BY <4>1 DEF UnusedInv
      <4>3. HasRead(q)
        BY <2>2, <2>3, <3>4, <4>2 DEF HasRead, Looked, Is, Empty, Cached, Working
      <4>4. Covers(cached[p])
        BY <3>2, <4>2, <4>3 DEF Cached
      <4> QED  BY <2>2, <3>4, <4>4, KeysStay DEF Covers, Cached
    <3> QED  BY <3>3, <3>4
  <2>4. ASSUME ~ ReadOnce, NEW j \in Import, import'[j].alone, At(j, "collect")'
        PROVE  Covers(Cached(j))'
    <3>1. j # i /\ import[j].alone /\ At(j, "collect")
      BY <2>2, <2>4 DEF At
    <3>2. Covers(Cached(j))
      BY <2>4, <3>1 DEF CoverInv
    <3> QED  BY <2>2, <3>1, <3>2, KeysStay DEF Covers, Cached
  <2> QED  BY <1>0, <2>3, <2>4 DEF CoverInv
<1>2. ASSUME NEW i \in Import, NEW lost \in BOOLEAN, ResolveStep(i, lost)
      PROVE  CoverInv'
  <2>1. Turns(i) /\ Counts(lost) /\ UnderWay(i) /\ Begun(i)
    BY <1>2, AnyTurn
  <2>2. /\ import'[i].p = import[i].p /\ import'[i].alone = import[i].alone
        /\ \A j \in Import \ {i} : import'[j] = import[j]
    BY <2>1 DEF Turns
  <2>3. ASSUME ReadOnce, OneProcess', faults' = 0, NEW j \in Import, Begun(j)', HasRead(j)'
        PROVE  Covers(Cached(j))'
    <3>1. OneProcess /\ faults = 0
      BY <2>3, History
    <3>2. \A q \in Import : Begun(q) /\ HasRead(q) => Covers(Cached(q))
      BY <2>3, <3>1 DEF CoverInv
    <3>3. lost = FALSE
      BY <2>1, <2>3, <3>1 DEF Counts
    <3>4. CASE Prefetch(i, lost)
      <4>1. /\ rows' = rows /\ cached' = cached /\ loaded' = loaded
            /\ import'[i].at = "collect" /\ import[i].at = "prefetch"
        BY <2>3, <3>3, <3>4, PrefetchIs DEF Becomes, ReadOnce, At
      <4>2. Begun(j) /\ HasRead(j)
        BY <1>0, <2>2, <2>3, <4>1 DEF Begun, At, HasRead, Looked, Is, Empty, Cached, Working
      <4>3. Covers(Cached(j)) /\ import'[j].p = import[j].p
        BY <2>2, <3>2, <4>2
      <4> QED  BY <1>0, <4>1, <4>3, KeysStay DEF Covers, Cached
    <3>5. CASE ~ Prefetch(i, lost)
      <4>1. HasRead(i) => Covers(Cached(i))
        BY <2>1, <3>2
      <4>2. ResolveStep(i, FALSE) /\ ~ Prefetch(i, FALSE)
        BY <1>2, <3>3, <3>5
      <4>3. Covers(Cached(i))'
        BY <2>3, <4>1, <4>2, CoverTurn
      <4>4. import'[j].p = import'[i].p
        <5>1. Begun(i)'
          BY <2>1, Keeps DEF ImportKeeps, Begun, At
        <5> QED  BY <2>3, <5>1 DEF OneProcess, Begun, At
      <4> QED  BY <4>3, <4>4 DEF Covers, Cached
    <3> QED  BY <3>4, <3>5
  <2>4. ASSUME ~ ReadOnce, NEW j \in Import, import'[j].alone, At(j, "collect")'
        PROVE  Covers(Cached(j))'
    <3>1. CASE j # i
      <4>1. import[j].alone /\ UnderWay(j)
        BY <2>2, <2>4, <3>1 DEF At, UnderWay, Ended
      <4> QED  BY <2>1, <3>1, <4>1 DEF LoneInv
    <3>2. CASE j = i
      <4>1. CASE Prefetch(i, lost)
        <5>1. /\ rows' = rows /\ import'[i].at = IF lost THEN "failed" ELSE "collect"
              /\ ~lost /\ mix.table \in {"depots", "licensees"} => Store(rows, import[i].p)
          BY <4>1, PrefetchIs DEF Becomes
        <5>2. ~lost /\ mix.table \in {"depots", "licensees"}
          BY <1>0, <2>4, <3>2, <5>1 DEF At, ReadOnce, Tables
        <5> QED  BY <1>0, <2>2, <3>2, <5>1, <5>2, StoreCovers
      <4>2. import'[i].at = "collect"
        BY <2>4, <3>2 DEF At
      <4>3. CASE Collect(i, lost)
        BY <4>2, <4>3, CollectIs DEF Becomes, Then
      <4>4. CASE MoveLicensee(i, lost) \/ Insert(i, lost)
        BY <4>2, <4>4, MoveIs, InsertIs DEF Becomes, Then, AfterInsert
      <4>5. CASE ReadAgain(i, lost) \/ Refresh(i, lost)
        BY <4>2, <4>5, ReadsIs DEF Becomes
      <4>6. CASE InsertOne(i, lost)
        BY <4>2, <4>6, InsertOneIs DEF Becomes, Done, At
      <4>7. CASE InsertMinimal(i, lost)
        BY <4>2, <4>7, InsertMinimalIs DEF Becomes
      <4> QED  BY <1>2, <4>1, <4>3, <4>4, <4>5, <4>6, <4>7 DEF ResolveStep
    <3> QED  BY <3>1, <3>2
  <2> QED  BY <1>0, <2>3, <2>4 DEF CoverInv
<1>3. ASSUME Removes PROVE CoverInv'
  <2>1. /\ rows' \subseteq rows /\ import' = import /\ cached' = cached /\ ~ ReadOnce
    BY <1>3, RemoveIs DEF ReadOnce, Is
  <2> QED  BY <1>0, <2>1, KeysStay DEF CoverInv, Covers, Cached, At
<1>4. ASSUME NamesRest PROVE CoverInv'
  <2>1. rows' = rows /\ cached' = cached /\ loaded' = loaded
    BY <1>4 DEF NamesRest
  <2>2. \A j \in Import : OnlyMoves(j)
    BY <1>4, GoingOn DEF NamesRest
  <2>3. ASSUME ReadOnce, OneProcess', faults' = 0, NEW j \in Import, Begun(j)', HasRead(j)'
        PROVE  Covers(Cached(j))'
    <3>1. OneProcess /\ faults = 0
      BY <2>3, History
    <3>2. Begun(j) /\ HasRead(j) /\ import'[j].p = import[j].p
      BY <1>0, <2>1, <2>2, <2>3, LabelsDiffer
      DEF OnlyMoves, Begun, At, HasRead, Looked, Is, Empty, Cached
    <3>3. Covers(Cached(j))
      BY <2>3, <3>1, <3>2 DEF CoverInv
    <3> QED  BY <1>0, <2>1, <3>2, <3>3, KeysStay DEF Covers, Cached
  <2>4. ASSUME ~ ReadOnce, NEW j \in Import, import'[j].alone, At(j, "collect")'
        PROVE  Covers(Cached(j))'
    <3>1. import[j].alone /\ At(j, "collect") /\ import'[j].p = import[j].p
      BY <2>2, <2>4 DEF OnlyMoves, At, Working, Ended
    <3>2. Covers(Cached(j))
      BY <2>4, <3>1 DEF CoverInv
    <3> QED  BY <1>0, <2>1, <3>1, <3>2, KeysStay DEF Covers, Cached
  <2> QED  BY <1>0, <2>3, <2>4 DEF CoverInv
<1> QED  BY <1>1, <1>2, <1>3, <1>4, NamesNext

-----------------------------------------------------------------------------
(***************************************************************************)
(* What an import that is alone is about to insert has no row yet, and     *)
(* later none but its own.                                                 *)
(***************************************************************************)
Sure(i) == import[i].alone /\ (ReadOnce => OneProcess /\ faults = 0)

NewNames(i) == \A t \in import[i].todo, r \in rows : Clean[t.name] # Clean[r.name]

OwnNames(i) ==
    \A t \in import[i].todo, r \in rows : Clean[t.name] = Clean[r.name] => t.name = r.name

Inserts == {"move", "insert", "insert_one", "insert_minimal"}

TodoInv ==
    Is("companies") \/
        \A i \in Import : Sure(i) =>
            /\ import[i].at \in {"move", "insert"} => NewNames(i)
            /\ import[i].at \in Inserts => OwnNames(i)

\* What is missing in a cache that covers the table has no row.
LEMMA MissingIsNew ==
    ASSUME Basic, NEW s \in mix.sheets, NEW c, Covers(c),
           NEW t \in Missing(c, s), NEW r \in rows
    PROVE  Clean[t.name] # Clean[r.name]
<1> SUFFICES ASSUME Clean[t.name] = Clean[r.name] PROVE FALSE
  OBVIOUS
<1>1. mix \in Mixes /\ r.name \in Name
  BY DEF Basic, MasterTypeOK, Row
<1>2. PICK k \in DOMAIN s : /\ t = [name |-> s[k].name, hq |-> s[k].hq]
                            /\ Clean[s[k].name] # NoKey
                            /\ \A key \in Keys(s[k].name) : c[key] = NoId
  BY <1>1, MissingIs
<1>3. s[k].name \in Name /\ t.name = s[k].name
  BY <1>1, <1>2, SheetFacts
<1>4. Clean[s[k].name] \in Keys(s[k].name) /\ Keys(s[k].name) = Keys(r.name)
  BY <1>1, <1>2, <1>3, OwnKey, SameKeys
<1> QED  BY <1>2, <1>4 DEF Covers

\* What is new in a step of import i is one of its items.
LEMMA OwnNamesTurn ==
    ASSUME Basic, NEW i \in Import, Turns(i), OwnNames(i), ~ Is("companies"),
           import'[i].todo \subseteq import[i].todo
    PROVE  OwnNames(i)'
<1> SUFFICES ASSUME NEW t \in import[i].todo, NEW q \in rows', Clean[t.name] = Clean[q.name]
             PROVE  t.name = q.name
  BY DEF OwnNames
<1>1. \/ \E r \in rows : q.name = r.name /\ q.gen = r.gen
      \/ \E u \in import[i].todo : q.name = u.name /\ ~ Taken(u.name)
  BY DEF Turns, RowsChange
<1>2. \A u \in import[i].todo : Clean[t.name] = Clean[u.name] => t = u
  BY DEF Basic, TodoOK
<1> QED  BY <1>1, <1>2 DEF OwnNames

LEMMA TodoStep ==
    ASSUME Basic, LoneInv, CoverInv, TodoInv, [Next]_vars
    PROVE  TodoInv'
<1> SUFFICES ASSUME ~ Is("companies")', NEW j \in Import, Sure(j)', import'[j].at \in Inserts
             PROVE  /\ import'[j].at \in {"move", "insert"} => NewNames(j)'
                    /\ OwnNames(j)'
  BY DEF TodoInv, Inserts
<1>0. mix' = mix /\ (ReadOnce' <=> ReadOnce) /\ ~ Is("companies")
  BY Keeps DEF ReadOnce, Is
<1>a. ReadOnce => OneProcess /\ faults = 0 /\ faults' = 0
  BY <1>0, History DEF Sure
<1>b. import[j].alone /\ import[j].at \in Inserts =>
         /\ import[j].at \in {"move", "insert"} => NewNames(j)
         /\ OwnNames(j)
  BY <1>0, <1>a DEF TodoInv, Sure
<1>1. ASSUME NEW i \in Import, NEW p \in Process, NEW s \in mix.sheets, BeginImport(i, p, s)
      PROVE  /\ import'[j].at \in {"move", "insert"} => NewNames(j)'
             /\ OwnNames(j)'
  <2>1. BeginsAs(i, p, s)
    BY <1>1, BeginIs
  <2>2. j # i
    BY <2>1 DEF BeginsAs, Becomes, Inserts
  <2>3. /\ import[j].alone /\ import'[j].at = import[j].at /\ import'[j].todo = import[j].todo
        /\ rows' = rows
    BY <2>1, <2>2 DEF BeginsAs, SameButAlone, Sure
  <2> QED  BY <1>b, <2>3 DEF NewNames, OwnNames
<1>2. ASSUME NEW i \in Import, NEW lost \in BOOLEAN, ResolveStep(i, lost)
      PROVE  /\ import'[j].at \in {"move", "insert"} => NewNames(j)'
             /\ OwnNames(j)'
  <2>1. Turns(i) /\ Counts(lost) /\ UnderWay(i) /\ Begun(i)
    BY <1>2, AnyTurn
  <2>2. import'[i].alone = import[i].alone /\ \A q \in Import \ {i} : import'[q] = import[q]
    BY <2>1 DEF Turns
  <2>3. j = i
    <3>1. ASSUME j # i PROVE FALSE
      <4>1. import[j].alone /\ UnderWay(j)
        BY <2>2, <3>1, LabelsDiffer DEF Sure, UnderWay, Inserts, Ended
      <4> QED  BY <2>1, <3>1, <4>1 DEF LoneInv
    <3> QED  BY <3>1
  <2>4. import[i].alone
    BY <2>2, <2>3 DEF Sure
  <2>5. CASE Prefetch(i, lost)
    BY <2>3, <2>5, PrefetchIs DEF Becomes, Inserts
  <2>6. CASE Collect(i, lost)
    <3> DEFINE s == Sheet(i)
    <3>1. PICK c \in Caches : LookedIn(i, lost, c) /\ import'[i].todo = Missing(c, s)
      BY <2>6, CollectIs DEF Becomes
    <3>2. At(i, "collect") /\ rows' = rows /\ s \in mix.sheets
      BY <2>6, CollectIs, ImportIs DEF At
    <3>3. ReadOnce => ~lost
      BY <1>a, <2>1 DEF Counts
    <3>4. IF ReadOnce THEN HasRead(i) => Covers(Cached(i)) ELSE Covers(Cached(i))
      BY <1>a, <2>1, <2>4, <3>2 DEF CoverInv
    <3>5. Covers(c)
      BY <3>1, <3>2, <3>3, <3>4, LookCovers
    <3> HIDE DEF s
    <3>6. \A t \in Missing(c, s), r \in rows : Clean[t.name] # Clean[r.name]
      BY <3>2, <3>5, MissingIsNew
    <3> QED  BY <2>3, <3>1, <3>2, <3>6 DEF NewNames, OwnNames, s
  <2>7. CASE MoveLicensee(i, lost)
    <3>1. At(i, "move") /\ import'[i].todo = import[i].todo
      BY <2>7, MoveIs DEF Becomes
    <3>2. NewNames(i) /\ OwnNames(i)
      BY <1>b, <2>3, <2>4, <3>1 DEF At, Inserts
    <3>3. PICK m \in import[i].moves : rows' = Rehomed(m) \/ rows' = rows
      BY <2>7, MoveIs
    <3>4. m \in SomeId \X MaybeHq
      BY ImportIs
    <3>5. \A q \in rows' : \E r \in rows : q.name = r.name
      BY <3>3, <3>4, RehomedAre
    <3> QED  BY <2>3, <3>1, <3>2, <3>5 DEF NewNames, OwnNames
  <2>8. CASE Insert(i, lost)
    <3>1. /\ At(i, "insert") /\ import'[i].todo = import[i].todo
          /\ import'[i].at \notin {"move", "insert"}
      BY <2>8, InsertIs DEF Becomes, AfterInsert
    <3>2. OwnNames(i)
      BY <1>b, <2>3, <2>4, <3>1 DEF At, Inserts
    <3>3. OwnNames(i)'
      BY <1>0, <2>1, <3>1, <3>2, OwnNamesTurn
    <3> QED  BY <2>3, <3>1, <3>3
  <2>9. CASE InsertOne(i, lost) \/ InsertMinimal(i, lost)
    <3>1. /\ At(i, "insert_one") \/ At(i, "insert_minimal")
          /\ import'[i].todo \subseteq import[i].todo
          /\ import'[i].at \notin {"move", "insert"}
      <4>1. CASE InsertOne(i, lost)
        BY <1>0, <4>1, InsertOneIs DEF Becomes, Done, At
      <4>2. CASE InsertMinimal(i, lost)
        BY <4>2, InsertMinimalIs DEF Becomes
      <4> QED  BY <2>9, <4>1, <4>2
    <3>2. OwnNames(i)
      BY <1>b, <2>3, <2>4, <3>1 DEF At, Inserts
    <3>3. OwnNames(i)'
      BY <1>0, <2>1, <3>1, <3>2, OwnNamesTurn
    <3> QED  BY <2>3, <3>1, <3>3
  <2>10. CASE ReadAgain(i, lost) \/ Refresh(i, lost)
    BY <2>3, <2>10, ReadsIs DEF Becomes, Inserts
  <2> QED  BY <1>2, <2>5, <2>6, <2>7, <2>8, <2>9, <2>10 DEF ResolveStep
<1>3. ASSUME Removes
      PROVE  /\ import'[j].at \in {"move", "insert"} => NewNames(j)'
             /\ OwnNames(j)'
  <2>1. rows' \subseteq rows /\ import' = import
    BY <1>3, RemoveIs
  <2> QED  BY <1>b, <2>1 DEF NewNames, OwnNames, Sure
<1>4. ASSUME NamesRest
      PROVE  /\ import'[j].at \in {"move", "insert"} => NewNames(j)'
             /\ OwnNames(j)'
  <2>1. OnlyMoves(j) /\ rows' = rows
    BY <1>4, GoingOn DEF NamesRest
  <2>2. import'[j].at = import[j].at
    BY <2>1 DEF OnlyMoves, Inserts, Working, Ended
  <2> QED  BY <1>b, <2>1, <2>2 DEF NewNames, OwnNames, OnlyMoves, Sure
<1> QED  BY <1>1, <1>2, <1>3, <1>4, NamesNext

-----------------------------------------------------------------------------
(***************************************************************************)
(* Rows written keep one row for a key when they are one's own.            *)
(***************************************************************************)
LEMMA OneEachTurn ==
    ASSUME Basic, NEW i \in Import, Turns(i), OneEach(rows), OwnNames(i), ~ Is("companies")
    PROVE  OneEach(rows')
<1> SUFFICES ASSUME NEW q1 \in rows', NEW q2 \in rows', Clean[q1.name] = Clean[q2.name]
             PROVE  q1 = q2
  BY DEF OneEach
<1> DEFINE Old(q) == \E r \in rows : q.name = r.name /\ q.gen = r.gen
           New(q) == \E t \in import[i].todo : q.name = t.name /\ ~ Taken(t.name)
<1>1. (Old(q1) \/ New(q1)) /\ (Old(q2) \/ New(q2)) /\ OneName(rows')
  BY DEF Turns, RowsChange
<1>2. CASE Old(q1) /\ Old(q2)
  BY <1>1, <1>2 DEF OneEach, OneName
<1>3. CASE New(q1) /\ New(q2)
  BY <1>1, <1>3 DEF Basic, TodoOK, OneName
<1>4. CASE Old(q1) /\ New(q2)
  BY <1>4 DEF OwnNames, Taken
<1>5. CASE New(q1) /\ Old(q2)
  BY <1>5 DEF OwnNames, Taken
<1> QED  BY <1>1, <1>2, <1>3, <1>4, <1>5

LEMMA OneRowStep ==
    ASSUME Basic, TodoInv, OneRowPerKey, [Next]_vars
    PROVE  OneRowPerKey'
<1> SUFFICES ASSUME ~ Overlapped', ~ Is("companies")',
                    ~ (mix'.table \in {"headquarters", "brands"} /\ (faults' > 0 \/ ~ OneProcess'))
             PROVE  OneEach(rows')
  BY DEF OneRowPerKey
<1>0. /\ mix' = mix /\ ~ Is("companies") /\ ~ Overlapped
      /\ mix.table \in {"headquarters", "brands"} => OneProcess /\ faults = 0
  <2>1. mix' = mix /\ faults' \in Nat /\ faults \in Nat
    BY Keeps DEF Basic, MasterTypeOK
  <2>2. mix.table \in {"headquarters", "brands"} => OneProcess' /\ faults' = 0
    BY <2>1
  <2> QED  BY <2>1, <2>2, History DEF Is
<1>1. OneEach(rows)
  <2>1. faults \in Nat
    BY DEF Basic, MasterTypeOK
  <2> QED  BY <1>0, <2>1 DEF OneRowPerKey
<1>2. CASE rows' = rows
  BY <1>1, <1>2
<1>3. ASSUME NEW i \in Import, NEW lost \in BOOLEAN, ResolveStep(i, lost), rows' # rows
      PROVE  OneEach(rows')
  <2>1. Turns(i) /\ Begun(i)
    BY <1>3, AnyTurn
  <2>2. Sure(i)
    BY <1>0, <2>1, MasterAssumption DEF Sure, Overlapped, Begun, At, ReadOnce, Is
  <2>3. import[i].at \in Inserts
    BY <1>0, <1>3, PrefetchIs, CollectIs, MoveIs, InsertIs, ReadsIs, InsertOneIs, InsertMinimalIs
    DEF ResolveStep, Inserts, At
  <2>4. OwnNames(i)
    BY <1>0, <2>2, <2>3 DEF TodoInv
  <2> QED  BY <1>0, <1>1, <2>1, <2>4, OneEachTurn
<1>4. ASSUME Removes PROVE OneEach(rows')
  BY <1>1, <1>4, RemoveIs DEF OneEach
<1>5. ASSUME NEW i \in Import, NEW p \in Process, NEW s \in mix.sheets, BeginImport(i, p, s)
      PROVE  rows' = rows
  BY <1>5, BeginIs DEF BeginsAs
<1>6. ASSUME NamesRest PROVE rows' = rows
  BY <1>6 DEF NamesRest
<1> QED  BY <1>2, <1>3, <1>4, <1>5, <1>6, NamesNext

(***************************************************************************)
(* The inductive invariant of the table: who is alone, which caches cover  *)
(* the table, and that nothing is about to be inserted twice.              *)
(***************************************************************************)
TableInv == Basic /\ LoneInv /\ UnusedInv /\ CoverInv /\ TodoInv /\ OneRowPerKey

LEMMA TableInvInitially == Init => TableInv
<1> SUFFICES ASSUME Init PROVE TableInv
  OBVIOUS
<1>1. Basic
  BY BasicInitially
<1>2. /\ cached = [p \in Process |-> [k \in Key |-> NoId]] /\ loaded = {}
      /\ import = [i \in Import |-> NewImport] /\ mix \in Mixes /\ rows \in mix.priors
  BY DEF Init, MasterInit
<1>3. \A i \in Import : import[i].at = "idle" /\ import[i].alone = FALSE
  BY <1>2 DEF NewImport
<1>4. LoneInv
  BY <1>3 DEF LoneInv, UnderWay, Ended
<1>5. UnusedInv
  BY <1>2 DEF UnusedInv, Empty
<1>6. CoverInv
  BY <1>3 DEF CoverInv, Begun, At
<1>7. TodoInv
  BY <1>3 DEF TodoInv, Sure
<1>8. OneRowPerKey
  BY <1>2, MasterAssumption DEF OneRowPerKey
<1> QED  BY <1>1, <1>4, <1>5, <1>6, <1>7, <1>8 DEF TableInv

LEMMA TableInvStep == TableInv /\ [Next]_vars => TableInv'
  BY BasicStep, LoneStep, UnusedStep, CoverStep, TodoStep, OneRowStep DEF TableInv

(***************************************************************************)
(* bulk_resolve gives a clean key one row: names that differ in case, or   *)
(* in spaces around and between their words, never become two rows as long *)
(* as imports do not overlap, whatever calls fail in the tables            *)
(* prefetch_all_caches reads, and in the others if no call fails and one   *)
(* process does the imports.  Nothing is said of companies, nor of names   *)
(* that differ by a space within a word, whose tight keys alone agree.     *)
(***************************************************************************)
THEOREM OneRowPerKeyCorrect == Spec => []OneRowPerKey
<1>1. Init => TableInv
  BY TableInvInitially
<1>2. TableInv /\ [Next]_vars => TableInv'
  BY TableInvStep
<1>3. TableInv => OneRowPerKey
  BY DEF TableInv
<1> QED  BY <1>1, <1>2, <1>3, PTL DEF Spec

-----------------------------------------------------------------------------
(***************************************************************************)
(* As long as no depot is deleted, an id in a cache is that of a row with  *)
(* a key of every name it is found by.                                     *)
(***************************************************************************)
Rightly(k, id) ==
    /\ \E r \in rows : Id(r) = id /\ \A n \in Name :
           k \in Keys(n) => Keys(r.name) \cap Keys(n) # {}
    /\ k # NoKey \/ Is("companies")

TrueCache(c) == \A k \in Key : c[k] # NoId => Rightly(k, c[k])

TrueInv == removed = 0 => \A p \in Process : TrueCache(cached[p])

\* Rows keep their ids, so that what was right stays right.
LEMMA RightlyStays ==
    ASSUME Basic, NEW N, RowsChange(N), mix' = mix, NEW k, NEW id, Rightly(k, id)
    PROVE  Rightly(k, id)'
<1>1. PICK r \in rows : Id(r) = id /\ \A n \in Name :
          k \in Keys(n) => Keys(r.name) \cap Keys(n) # {}
  BY DEF Rightly
<1>2. PICK q \in rows' : q.name = r.name /\ q.gen = r.gen
  BY DEF RowsChange
<1>3. Id(q) = id
  BY <1>1, <1>2 DEF Id
<1>4. Is("companies")' <=> Is("companies")
  BY DEF Is
<1>5. \A n \in Name : k \in Keys(n)' => Keys(q.name)' \cap Keys(n)' # {}
  BY <1>1, <1>2, KeysStay
<1> QED  BY <1>2, <1>3, <1>4, <1>5 DEF Rightly, Id

\* A cache in which rows of the table are stored.
LEMMA StoredRightly ==
    ASSUME Basic, NEW N, RowsChange(N), mix' = mix, NEW c \in Caches, TrueCache(c),
           NEW S, S \subseteq rows', NEW last, NEW d, d = Ids(c, S, last)
    PROVE  TrueCache(d)'
<1>1. S \in SUBSET Row
  BY DEF RowsChange
<1>2. \A k \in Key : \/ d[k] = c[k]
                     \/ \E r \in Holders(S, k) : d[k] = Id(r)
  BY <1>1, IdsGive
<1> SUFFICES ASSUME NEW k \in Key, d[k] # NoId PROVE Rightly(k, d[k])'
  BY DEF TrueCache
<1>3. CASE d[k] = c[k]
  BY <1>3, RightlyStays DEF TrueCache
<1>4. ASSUME NEW r \in Holders(S, k), d[k] = Id(r) PROVE Rightly(k, d[k])'
  <2>1. r \in rows' /\ k \in Keys(r.name) /\ r.name \in Name
    BY <1>1 DEF Holders, Row
  <2>2. k # NoKey \/ Is("companies")
    BY <2>1, KeyFacts
  <2>3. \A n \in Name : k \in Keys(n) => Keys(r.name) \cap Keys(n) # {}
    BY <2>1
  <2>4. Is("companies")' <=> Is("companies")
    BY DEF Is
  <2> HIDE DEF Keys, Id
  <2> QED  BY <1>4, <2>1, <2>2, <2>3, <2>4, KeysStay DEF Rightly, Id
<1> QED  BY <1>2, <1>3, <1>4

\* Completing a cache keeps it right.
LEMMA CompletedRightly ==
    ASSUME Basic, NEW s \in mix.sheets, NEW c \in Caches, TrueCache(c)
    PROVE  TrueCache(Completed(c, s))
<1> DEFINE d == Completed(c, s)
<1>1. CASE mix.table \notin {"headquarters", "companies"}
  BY <1>1 DEF Completed
<1>2. CASE mix.table \in {"headquarters", "companies"}
  <2>1. mix \in Mixes /\ d = Complete(c, s)
    BY <1>2 DEF Basic, MasterTypeOK, Completed
  <2> SUFFICES ASSUME NEW k \in Key, d[k] # NoId PROVE Rightly(k, d[k])
    BY DEF TrueCache
  <2> HIDE DEF d
  <2>2. \/ d[k] = c[k]
        \/ \E j \in DOMAIN s : /\ Clean[s[j].name] = k /\ c[Tight[s[j].name]] # NoId
                               /\ d[k] = c[Tight[s[j].name]]
    BY <2>1, CompleteGives
  <2>3. CASE d[k] = c[k]
    BY <2>3 DEF TrueCache
  <2>4. ASSUME NEW j \in DOMAIN s, Clean[s[j].name] = k, c[Tight[s[j].name]] # NoId,
               d[k] = c[Tight[s[j].name]]
        PROVE  Rightly(k, d[k])
    <3> DEFINE m == s[j].name
               t == Tight[m]
    <3>1. m \in Name /\ t \in Key
      BY <2>1, SheetFacts, KeyFacts
    <3>2. Rightly(t, d[k])
      BY <2>4, <3>1 DEF TrueCache
    <3>3. PICK r \in rows : Id(r) = d[k] /\ \A n \in Name :
              t \in Keys(n) => Keys(r.name) \cap Keys(n) # {}
      BY <3>2 DEF Rightly
    <3>4. t # NoKey \/ Is("companies")
      BY <3>1, <3>2 DEF Rightly
    <3>5. k # NoKey \/ Is("companies")
      BY <2>4, <3>1, <3>4, MasterAssumption
    <3>6. ASSUME NEW n \in Name, k \in Keys(n) PROVE t \in Keys(n)
      <4>1. k = Clean[n] \/ k = Tight[n]
        BY <1>2, <3>6 DEF Keys, Is
      <4>2. t = Tight[n]
        BY <2>4, <3>1, <4>1, MasterAssumption
      <4> QED  BY <1>2, <3>4, <4>2 DEF Keys, Is
    <3> QED  BY <1>2, <3>3, <3>5, <3>6 DEF Rightly
  <2> QED  BY <2>2, <2>3, <2>4
<1> QED  BY <1>1, <1>2

LEMMA TrueTurn ==
    ASSUME Basic, NEW i \in Import, NEW lost \in BOOLEAN, ResolveStep(i, lost),
           NEW p \in Process, p = import[i].p, TrueCache(cached[p])
    PROVE  TrueCache(cached[p])'
<1> DEFINE N == import[i].todo
<1>1. /\ RowsChange(N) /\ mix' = mix /\ p \in Process /\ cached[p] \in Caches
      /\ cached \in [Process -> Caches] /\ hqCached \in [Process -> HqCaches]
      /\ rows \in SUBSET Row
  BY AnyTurn, ImportIs DEF Turns, Basic, MasterTypeOK, Caches, HqCaches
<1>2. TrueCache(cached[p])
  OBVIOUS
<1> HIDE DEF N
<1>3. ASSUME NEW c, TrueCache(c), cached'[p] = c PROVE TrueCache(cached[p])'
  <2>1. TrueCache(c)'
    BY <1>1, <1>3, RightlyStays DEF TrueCache
  <2> QED  BY <1>3, <2>1
<1>4. ASSUME NEW S, S \subseteq rows', Store(S, p) PROVE TrueCache(cached[p])'
  <2>1. S \in SUBSET Row
    BY <1>1, <1>4 DEF RowsChange
  <2>2. PICK last : cached' = [cached EXCEPT ![p] = Ids(cached[p], S, last)]
    BY <1>1, <1>4, <2>1, StoreGives
  <2>3. cached'[p] = Ids(cached[p], S, last)
    BY <1>1, <2>2
  <2> DEFINE c == cached[p]
             d == cached'[p]
  <2>4. c \in Caches /\ TrueCache(c) /\ d = Ids(c, S, last)
    BY <1>1, <1>2, <2>3
  <2> QED  BY <1>1, <1>4, <2>4, StoredRightly
<1>5. ASSUME NEW T, T \subseteq import[i].todo, NEW raised, Writes(i, T, raised)
      PROVE  TrueCache(cached[p])'
  <2>1. CASE raised
    BY <1>2, <1>3, <1>5, <2>1 DEF Writes
  <2>2. CASE ~raised
    BY <1>4, <1>5, <2>2 DEF Writes, Named
  <2> QED  BY <2>1, <2>2
<1>6. CASE Prefetch(i, lost)
  <2>1. cached' = cached \/ (rows' = rows /\ Store(rows, p))
    BY <1>6, PrefetchIs
  <2> QED  BY <1>2, <1>3, <1>4, <2>1
<1>7. CASE Collect(i, lost)
  <2>1. PICK c \in Caches : LookedIn(i, lost, c) /\ cached'[p] = Completed(c, Sheet(i))
    BY <1>7, CollectIs
  <2>2. rows' = rows /\ Sheet(i) \in mix.sheets
    BY <1>7, CollectIs, ImportIs DEF At
  <2>3. TrueCache(c)
    <3>1. CASE c = Cached(i)
      BY <1>2, <3>1 DEF Cached
    <3>2. ASSUME NEW last, c = Ids(Cached(i), rows, last) PROVE TrueCache(c)
      <4> DEFINE c0 == cached[p]
      <4>1. c0 \in Caches /\ TrueCache(c0) /\ c = Ids(c0, rows, last) /\ rows \subseteq rows'
        BY <1>1, <1>2, <2>2, <3>2 DEF Cached
      <4> HIDE DEF c0
      <4>2. TrueCache(c)'
        BY <1>1, <4>1, StoredRightly
      <4>3. ASSUME NEW k \in Key, c[k] # NoId PROVE Rightly(k, c[k])
        <5>1. Rightly(k, c[k])'
          BY <4>2, <4>3 DEF TrueCache
        <5>2. PICK r \in rows : Id(r) = c[k] /\ \A n \in Name :
                  k \in Keys(n)' => Keys(r.name)' \cap Keys(n)' # {}
          BY <2>2, <5>1 DEF Rightly, Id
        <5>3. k # NoKey \/ Is("companies")
          BY <1>1, <5>1 DEF Rightly, Is
        <5> QED  BY <1>1, <5>2, <5>3, KeysStay DEF Rightly
      <4> QED  BY <4>3 DEF TrueCache
    <3> QED  BY <2>1, <3>1, <3>2 DEF LookedIn
  <2> QED  BY <1>3, <2>1, <2>2, <2>3, CompletedRightly
<1>8. CASE MoveLicensee(i, lost)
  BY <1>2, <1>3, <1>8, MoveIs
<1>9. CASE Insert(i, lost)
  BY <1>5, <1>9, InsertIs
<1>10. CASE ReadAgain(i, lost) \/ Refresh(i, lost)
  <2>1. cached' = cached \/ (rows' = rows /\ Store(rows, p))
    BY <1>10, ReadsIs
  <2> QED  BY <1>2, <1>3, <1>4, <2>1
<1>11. CASE InsertOne(i, lost)
  <2>1. PICK t \in import[i].todo : Writes(i, {t}, lost \/ Collides({t}))
    BY <1>11, InsertOneIs
  <2>2. {t} \subseteq import[i].todo
    OBVIOUS
  <2> QED  BY <1>5, <2>1, <2>2
<1>12. CASE InsertMinimal(i, lost)
  <2>1. PICK t \in import[i].last : cached' = cached \/ Store(Named(rows', {t}), p)
    BY <1>12, InsertMinimalIs
  <2>2. Named(rows', {t}) \subseteq rows'
    BY DEF Named
  <2> QED  BY <1>2, <1>3, <1>4, <2>1, <2>2
<1> QED  BY <1>6, <1>7, <1>8, <1>9, <1>10, <1>11, <1>12 DEF ResolveStep

LEMMA TrueStep ==
    ASSUME Basic, TrueInv, [Next]_vars
    PROVE  TrueInv'
<1> SUFFICES ASSUME removed' = 0, NEW p \in Process PROVE TrueCache(cached[p])'
  BY DEF TrueInv
<1>1. ASSUME NEW i \in Import, NEW lost \in BOOLEAN, ResolveStep(i, lost)
      PROVE  TrueCache(cached[p])'
  <2>1. /\ \A q \in Process : TrueCache(cached[q])
        /\ RowsChange(import[i].todo) /\ mix' = mix /\ CachesChange(import[i].p)
    BY <1>1, AnyTurn DEF Turns, TrueInv
  <2>2. CASE p = import[i].p
    BY <1>1, <2>1, <2>2, TrueTurn
  <2>3. CASE p # import[i].p
    <3>1. cached'[p] = cached[p] /\ TrueCache(cached[p])
      BY <2>1, <2>3 DEF CachesChange
    <3> QED  BY <2>1, <3>1, RightlyStays DEF TrueCache
  <2> QED  BY <2>2, <2>3
<1>2. CASE rows' = rows /\ cached' = cached /\ removed' = removed /\ mix' = mix
  <2>1. TrueCache(cached[p])
    BY <1>2 DEF TrueInv
  <2> QED  BY <1>2, <2>1, RowsStay, RightlyStays DEF TrueCache
<1>3. ASSUME NEW i \in Import, NEW q \in Process, NEW s \in mix.sheets, BeginImport(i, q, s)
      PROVE  rows' = rows /\ cached' = cached /\ removed' = removed /\ mix' = mix
  BY <1>3, BeginIs DEF BeginsAs
<1>4. ~ Removes
  BY RemoveIs
<1> QED  BY <1>1, <1>2, <1>3, <1>4, NamesNext DEF NamesRest

-----------------------------------------------------------------------------
(***************************************************************************)
(* A name of the sheet is known, or about to be inserted, or has a row     *)
(* that will be read.                                                      *)
(***************************************************************************)
Wanted(i) == {n \in Name : Clean[n] # NoKey /\ \E t \in Items(i) : t.name = n}

KnownBy(i, n) == Cached(i)[Clean[n]] # NoId
DueIn(i, n)   == \E t \in import[i].todo : Clean[t.name] = Clean[n]
HasRow(n)     == \E r \in rows : Clean[r.name] = Clean[n]

\* Of the licensees: at most two failures.
LicenseeKnown(i, n) ==
    Is("licensees") /\ import[i].failed <= 2 =>
        /\ import[i].at \in Inserts => KnownBy(i, n) \/ DueIn(i, n)
        /\ import[i].at \in {"refresh"} \cup Working => KnownBy(i, n)

\* Of the brands: no failure.
BrandKnown(i, n) ==
    Is("brands") /\ import[i].failed = 0 =>
        /\ import[i].at \in Inserts => KnownBy(i, n) \/ DueIn(i, n) \/ HasRow(n)
        /\ At(i, "refresh") => KnownBy(i, n) \/ HasRow(n)
        /\ import[i].at \in Working => KnownBy(i, n)

\* Of the tables that are read again when an insert fails.
OtherKnown(i, n) ==
    mix.table \in {"depots", "headquarters"} /\ import[i].alone /\ faults = 0 =>
        /\ import[i].at \in Inserts => KnownBy(i, n) \/ DueIn(i, n)
        /\ At(i, "read_again") => Is("headquarters") /\ ~ OneProcess
        /\ import[i].at \in Working =>
              \/ KnownBy(i, n)
              \/ Is("headquarters") /\ ~ Taken(n) /\ ~ OneProcess

CompanyKnown(i, n) ==
    Is("companies") /\ OneProcess /\ faults = 0 =>
        /\ import[i].at \in Inserts => KnownBy(i, n) \/ DueIn(i, n)
        /\ import[i].at \in Working => KnownBy(i, n)

Knows(i, n) == LicenseeKnown(i, n) /\ BrandKnown(i, n) /\ OtherKnown(i, n) /\ CompanyKnown(i, n)

KnownInv == \A i \in Import : \A n \in Wanted(i) : Knows(i, n)

\* After a look at the sheet each name is known or missing.
LEMMA LookedAfter ==
    ASSUME mix \in Mixes, NEW s \in mix.sheets, NEW c \in Caches, NEW j \in DOMAIN s,
           Clean[s[j].name] # NoKey
    PROVE  \/ Completed(c, s)[Clean[s[j].name]] # NoId
           \/ \E t \in Missing(c, s) : Clean[t.name] = Clean[s[j].name]
<1> DEFINE n == s[j].name
<1>1. n \in Name
  BY SheetFacts
<1>2. CASE \A key \in Keys(n) : c[key] = NoId
  BY <1>2, MissingHas
<1>3. ASSUME NEW key \in Keys(n), c[key] # NoId
      PROVE  Completed(c, s)[Clean[n]] # NoId
  <2>1. CASE key = Clean[n]
    <3>1. Clean[n] \in Key
      BY <1>1, KeyFacts
    <3> QED  BY <1>3, <2>1, <3>1, CompletedKeeps
  <2>2. CASE key # Clean[n]
    <3>1. mix.table \in {"headquarters", "companies"} /\ key = Tight[n]
      BY <1>3, <2>2 DEF Keys, Is
    <3>2. Complete(c, s)[Clean[s[j].name]] # NoId
      BY <1>3, <3>1, CompleteGives
    <3> QED  BY <3>1, <3>2 DEF Completed
  <2> QED  BY <2>1, <2>2
<1> QED  BY <1>2, <1>3

\* Rows stored are known.
LEMMA StoredKnown ==
    ASSUME Basic, NEW S \in SUBSET Row, NEW p \in Process, Store(S, p),
           NEW r \in S, Clean[r.name] # NoKey
    PROVE  cached'[p][Clean[r.name]] # NoId
<1>1. /\ cached \in [Process -> Caches] /\ hqCached \in [Process -> HqCaches]
  BY DEF Basic, MasterTypeOK, Caches, HqCaches
<1>2. PICK last : cached' = [cached EXCEPT ![p] = Ids(cached[p], S, last)]
  BY <1>1, StoreGives
<1> DEFINE c == cached[p]
           k == Clean[r.name]
<1>3. c \in Caches /\ cached'[p] = Ids(c, S, last)
  BY <1>1, <1>2
<1>4. k \in Key /\ r \in Holders(S, k)
  BY KeyFacts, OwnKey DEF Row, Holders
<1>5. \A q \in Holders(S, k) : Id(q) # NoId
  BY IdIs DEF Holders
<1> HIDE DEF c, k
<1>6. \E q \in Holders(S, k) : Ids(c, S, last)[k] = Id(q)
  BY <1>3, <1>4, IdsGive
<1> QED  BY <1>3, <1>5, <1>6 DEF k

\* What was written without an error is known.
LEMMA WrittenKnown ==
    ASSUME Basic, NEW i \in Import, NEW T, T \subseteq import[i].todo,
           Writes(i, T, FALSE), NEW t \in T
    PROVE  cached'[import[i].p][Clean[t.name]] # NoId
<1>1. T \in SUBSET Item /\ import[i].p \in Process
  BY ImportIs
<1>2. Upserted(T) \in SUBSET Row /\ \E q \in Upserted(T) : q.name = t.name
  BY <1>1, UpsertedAre
<1>3. PICK q \in Named(Upserted(T), T) : q.name = t.name
  BY <1>2 DEF Named
<1>4. Named(Upserted(T), T) \in SUBSET Row
  BY <1>2 DEF Named
<1>5. Clean[t.name] # NoKey
  BY DEF Basic, TodoOK
<1>6. Store(Named(Upserted(T), T), import[i].p)
  BY DEF Writes
<1> QED  BY <1>1, <1>3, <1>4, <1>5, <1>6, StoredKnown

\* Known names stay known, and rows stay.
LEMMA KnownStays ==
    ASSUME Basic, NEW i \in Import, Turns(i), NEW j \in Import, NEW n \in Name
    PROVE  /\ KnownBy(j, n) => KnownBy(j, n)'
           /\ HasRow(n) => HasRow(n)'
<1>1. /\ CachesChange(import[i].p) /\ RowsChange(import[i].todo)
      /\ import'[j].p = import[j].p /\ import[j].p \in Process
  BY ImportIs DEF Turns
<1>2. Clean[n] \in Key
  BY KeyFacts
<1>3. KnownBy(j, n) => KnownBy(j, n)'
  BY <1>1, <1>2 DEF CachesChange, KnownBy, Cached
<1>4. HasRow(n) => HasRow(n)'
  <2> SUFFICES ASSUME NEW r \in rows, Clean[r.name] = Clean[n] PROVE HasRow(n)'
    BY DEF HasRow
  <2>1. PICK q \in rows' : q.name = r.name
    BY <1>1 DEF RowsChange
  <2> QED  BY <2>1 DEF HasRow
<1> QED  BY <1>3, <1>4

LEMMA WantedIs ==
    ASSUME Basic, NEW i \in Import, NEW n \in Wanted(i)
    PROVE  /\ n \in Name /\ Clean[n] # NoKey /\ Clean[n] \in Key
           /\ \E j \in DOMAIN Sheet(i) : Sheet(i)[j].name = n
  BY KeyFacts DEF Wanted, Items

(***************************************************************************)
(* Each step of an import keeps what it knows.                             *)
(***************************************************************************)
\* Where nothing is claimed.
Silent(j) == import[j].at \notin Inserts \cup {"refresh", "read_again"} \cup Working

LEMMA SilentKnows ==
    ASSUME NEW j \in Import, Silent(j), NEW n
    PROVE  Knows(j, n)
  BY DEF Silent, Knows, LicenseeKnown, BrandKnown, OtherKnown, CompanyKnown, At

LEMMA CollectKnows ==
    ASSUME Basic, NEW i \in Import, NEW lost \in BOOLEAN, Collect(i, lost), NEW n \in Wanted(i)
    PROVE  Knows(i, n)'
<1> DEFINE s == Sheet(i)
<1>1. PICK c \in Caches :
          /\ Becomes(i, Then(Moves(c, hqCached[import[i].p], s), Missing(c, s)), Missing(c, s),
                     Moves(c, hqCached[import[i].p], s), import[i].last, import[i].failed)
          /\ cached'[import[i].p] = Completed(c, s)
  BY CollectIs
<1>2. s \in mix.sheets /\ mix \in Mixes /\ import'[i].p = import[i].p
  BY CollectIs, ImportIs DEF At, Turns
<1>3. PICK j \in DOMAIN s : s[j].name = n /\ Clean[n] # NoKey
  BY WantedIs
<1> HIDE DEF s
<1>4. \/ Completed(c, s)[Clean[n]] # NoId
      \/ \E t \in Missing(c, s) : Clean[t.name] = Clean[n]
  BY <1>2, <1>3, LookedAfter
<1>5. KnownBy(i, n)' \/ DueIn(i, n)'
  BY <1>1, <1>2, <1>4 DEF Becomes, KnownBy, Cached, DueIn
<1>6. /\ import'[i].at \in {"move", "insert", "resolved"}
      /\ import'[i].at = "resolved" => import'[i].todo = {}
  BY <1>1 DEF Becomes, Then
<1>7. import'[i].at = "resolved" => KnownBy(i, n)'
  BY <1>5, <1>6 DEF DueIn
<1> QED  BY <1>5, <1>6, <1>7
         DEF Knows, LicenseeKnown, BrandKnown, OtherKnown, CompanyKnown, At, Inserts, Working

LEMMA MoveKnows ==
    ASSUME Basic, NEW i \in Import, NEW lost \in BOOLEAN, MoveLicensee(i, lost),
           NEW n \in Wanted(i), Knows(i, n)
    PROVE  Knows(i, n)'
<1>1. /\ Turns(i) /\ At(i, "move") /\ Is("licensees") /\ mix' = mix
      /\ import[i].failed \in Nat
  BY MoveIs, ImportIs DEF Basic, StepsOK, Turns
<1>2. PICK left : Becomes(i, Then(left, import[i].todo), import[i].todo, left,
                          import[i].last, Fails(i, lost))
  BY MoveIs
<1>3. KnownBy(i, n) => KnownBy(i, n)'
  BY <1>1, WantedIs, KnownStays
<1>4. DueIn(i, n) => DueIn(i, n)'
  BY <1>2 DEF Becomes, DueIn
<1>5. import'[i].failed <= 2 => import[i].failed <= 2
  BY <1>1, <1>2 DEF Becomes, Fails
<1>6. /\ import'[i].at \in {"move", "insert", "resolved"}
      /\ import'[i].at = "resolved" => import[i].todo = {}
  BY <1>2 DEF Becomes, Then
<1>7. import'[i].failed <= 2 => KnownBy(i, n) \/ DueIn(i, n)
  BY <1>1, <1>5 DEF Knows, LicenseeKnown, Inserts, At
<1>8. LicenseeKnown(i, n)'
  BY <1>3, <1>4, <1>6, <1>7 DEF LicenseeKnown, DueIn, Working, Inserts
<1> QED  BY <1>1, <1>8 DEF Knows, BrandKnown, OtherKnown, CompanyKnown, Is

\* An insert that does not collide.
LEMMA NewDoNotCollide ==
    ASSUME NEW i \in Import, NewNames(i)
    PROVE  ~ Collides(import[i].todo)
  BY DEF NewNames, Collides, Taken

LEMMA InsertKnows ==
    ASSUME Basic, TodoInv, NEW i \in Import, NEW lost \in BOOLEAN, Insert(i, lost),
           OneProcess' => OneProcess,
           NEW n \in Wanted(i), Knows(i, n)
    PROVE  Knows(i, n)'
<1> DEFINE raised == lost \/ Collides(import[i].todo)
<1>1. /\ Turns(i) /\ Counts(lost) /\ At(i, "insert") /\ ~ Is("companies") /\ mix' = mix
      /\ import[i].failed \in Nat /\ faults \in Nat
  BY InsertIs, ImportIs DEF Turns, Basic, MasterTypeOK
<1>2. /\ import'[i].at = AfterInsert(raised) /\ import'[i].todo = import[i].todo
      /\ import'[i].failed = Fails(i, lost)
      /\ Writes(i, import[i].todo, raised)
      /\ import'[i].p = import[i].p /\ import'[i].alone = import[i].alone
  BY InsertIs, <1>1 DEF Becomes, Turns
<1>3. /\ KnownBy(i, n) => KnownBy(i, n)'
      /\ HasRow(n) => HasRow(n)'
      /\ DueIn(i, n) => DueIn(i, n)'
  BY <1>1, <1>2, WantedIs, KnownStays DEF DueIn
<1>4. /\ import'[i].failed <= 2 => import[i].failed <= 2
      /\ import'[i].failed = 0 => import[i].failed = 0 /\ ~ lost
      /\ faults' = 0 => faults = 0 /\ ~ lost
  BY <1>1, <1>2 DEF Fails, Counts
<1>5. Is("licensees") => (import'[i].failed <= 2 => KnownBy(i, n) \/ DueIn(i, n))
  BY <1>1, <1>4 DEF Knows, LicenseeKnown, Inserts, At
<1>6. Is("brands") => (import'[i].failed = 0 => KnownBy(i, n) \/ DueIn(i, n) \/ HasRow(n))
  BY <1>1, <1>4 DEF Knows, BrandKnown, Inserts, At
<1>7. mix.table \in {"depots", "headquarters"} /\ import[i].alone /\ faults' = 0 =>
         KnownBy(i, n) \/ DueIn(i, n)
  BY <1>1, <1>4 DEF Knows, OtherKnown, Inserts, At
<1>8. CASE ~ raised
  <2>1. Writes(i, import[i].todo, FALSE)
    BY <1>2, <1>8 DEF Writes
  <2>2. DueIn(i, n) => KnownBy(i, n)'
    <3> SUFFICES ASSUME NEW t \in import[i].todo, Clean[t.name] = Clean[n] PROVE KnownBy(i, n)'
      BY DEF DueIn
    <3>1. cached'[import[i].p][Clean[t.name]] # NoId
      BY <2>1, WrittenKnown
    <3> QED  BY <1>2, <3>1 DEF KnownBy, Cached
  <2>3. import'[i].at = IF mix.table \in {"licensees", "brands"} THEN "refresh" ELSE "resolved"
    BY <1>2, <1>8 DEF AfterInsert
  <2> HIDE DEF raised
  <2> QED  BY <1>1, <1>2, <1>3, <1>5, <1>6, <1>7, <2>2, <2>3
           DEF Knows, LicenseeKnown, BrandKnown, OtherKnown, CompanyKnown, Is, At, Inserts, Working
<1>9. CASE raised
  <2>1. import'[i].at = IF mix.table \in {"licensees", "brands"} THEN "insert_one" ELSE "read_again"
    BY <1>2, <1>9 DEF AfterInsert
  <2>2. ASSUME mix.table \in {"depots", "headquarters"}, import[i].alone, faults' = 0
        PROVE  Is("headquarters") /\ ~ OneProcess'
    <3>1. Collides(import[i].todo) /\ faults = 0
      BY <1>4, <1>9, <2>2
    <3>2. ~ NewNames(i)
      BY <3>1, NewDoNotCollide
    <3>3. ~ Sure(i)
      BY <1>1, <3>2 DEF TodoInv, At
    <3> QED  BY <2>2, <3>1, <3>3 DEF Sure, ReadOnce, Is
  <2> HIDE DEF raised
  <2> QED  BY <1>1, <1>2, <1>3, <1>5, <1>6, <2>1, <2>2
           DEF Knows, LicenseeKnown, BrandKnown, OtherKnown, CompanyKnown, Is, At, Inserts, Working
<1> QED  BY <1>8, <1>9

LEMMA ReadsKnow ==
    ASSUME Basic, NEW i \in Import, NEW lost \in BOOLEAN, ReadAgain(i, lost) \/ Refresh(i, lost),
           OneProcess' => OneProcess,
           NEW n \in Wanted(i), Knows(i, n)
    PROVE  Knows(i, n)'
<1>1. /\ Turns(i) /\ Counts(lost) /\ mix' = mix /\ rows' = rows
      /\ At(i, "read_again") \/ At(i, "refresh")
      /\ At(i, "read_again") => mix.table \in {"depots", "headquarters"}
      /\ At(i, "refresh") => mix.table \in {"licensees", "brands"}
      /\ import[i].failed \in Nat /\ faults \in Nat
      /\ import'[i].p = import[i].p /\ import'[i].alone = import[i].alone
      /\ import'[i].at = "resolved" /\ import'[i].failed = Fails(i, lost)
  BY ReadsIs, ImportIs DEF Turns, Basic, MasterTypeOK, StepsOK, Becomes
<1>2. /\ import'[i].failed <= 2 => import[i].failed <= 2
      /\ import'[i].failed = 0 => import[i].failed = 0 /\ ~ lost
      /\ faults' = 0 => faults = 0 /\ ~ lost
  BY <1>1 DEF Fails, Counts
<1>3. KnownBy(i, n) => KnownBy(i, n)'
  BY <1>1, WantedIs, KnownStays
<1>4. ~ lost /\ HasRow(n) => KnownBy(i, n)'
  <2> SUFFICES ASSUME ~ lost, NEW r \in rows, Clean[r.name] = Clean[n] PROVE KnownBy(i, n)'
    BY DEF HasRow
  <2>1. Store(rows, import[i].p) /\ rows \in SUBSET Row /\ import[i].p \in Process
    BY ReadsIs, ImportIs
  <2>2. Clean[r.name] # NoKey
    BY DEF Basic
  <2>3. cached'[import[i].p][Clean[r.name]] # NoId
    BY <2>1, <2>2, StoredKnown
  <2> QED  BY <1>1, <2>3 DEF KnownBy, Cached
<1>5. Taken(n) => HasRow(n)
  BY DEF Taken, HasRow
<1>6. Taken(n)' <=> Taken(n)
  BY <1>1 DEF Taken
<1>7. LicenseeKnown(i, n)' /\ BrandKnown(i, n)'
  BY <1>1, <1>2, <1>3, <1>4 DEF Knows, LicenseeKnown, BrandKnown, Is, At, Inserts, Working
<1>8. OtherKnown(i, n)'
  BY <1>1, <1>2, <1>3, <1>4, <1>5, <1>6 DEF Knows, OtherKnown, Is, At, Inserts, Working
<1>9. CompanyKnown(i, n)'
  BY <1>1 DEF CompanyKnown, Is
<1> QED  BY <1>7, <1>8, <1>9 DEF Knows

LEMMA InsertOneKnows ==
    ASSUME Basic, CoverInv, NEW i \in Import, NEW lost \in BOOLEAN, InsertOne(i, lost),
           OneProcess' => OneProcess,
           NEW n \in Wanted(i), Knows(i, n)
    PROVE  Knows(i, n)'
<1> DEFINE again == lost /\ Is("licensees")
<1>1. /\ Turns(i) /\ Counts(lost) /\ mix' = mix
      /\ At(i, "insert_one") \/ (At(i, "insert") /\ Is("companies"))
      /\ At(i, "insert_one") => mix.table \in {"licensees", "brands"}
      /\ import[i].failed \in Nat /\ faults \in Nat
      /\ import'[i].p = import[i].p /\ import'[i].alone = import[i].alone
  BY InsertOneIs, ImportIs DEF Turns, Basic, MasterTypeOK, StepsOK
<1>2. PICK t \in import[i].todo :
          /\ Writes(i, {t}, lost \/ Collides({t}))
          /\ import'[i].at = IF again THEN "insert_minimal" ELSE Done(i, t)
          /\ import'[i].todo = IF again THEN import[i].todo ELSE import[i].todo \ {t}
          /\ import'[i].failed = Fails(i, lost)
  BY InsertOneIs DEF Becomes
<1>3. /\ import'[i].failed <= 2 => import[i].failed <= 2
      /\ import'[i].failed = 0 => import[i].failed = 0 /\ ~ lost
      /\ faults' = 0 => faults = 0 /\ ~ lost
  BY <1>1, <1>2 DEF Fails, Counts
<1>4. /\ KnownBy(i, n) => KnownBy(i, n)'
      /\ HasRow(n) => HasRow(n)'
  BY <1>1, WantedIs, KnownStays
<1>5. ~ lost /\ ~ Collides({t}) => cached'[import[i].p][Clean[t.name]] # NoId
  <2> SUFFICES ASSUME ~ lost, ~ Collides({t}) PROVE cached'[import[i].p][Clean[t.name]] # NoId
    OBVIOUS
  <2> DEFINE T == {t}
  <2>1. T \subseteq import[i].todo /\ t \in T
    OBVIOUS
  <2>2. Writes(i, T, FALSE)
    BY <1>2 DEF Writes
  <2> HIDE DEF T
  <2> QED  BY <2>1, <2>2, WrittenKnown
<1>6. Collides({t}) => ~ Is("licensees") /\ Taken(t.name)
  BY DEF Collides
\* The item is known, or its name has a row, or it is tried once more.
<1>7. ~ lost /\ Clean[t.name] = Clean[n] => KnownBy(i, n)' \/ (Collides({t}) /\ HasRow(n))
  <2> SUFFICES ASSUME ~ lost, Clean[t.name] = Clean[n], ~ KnownBy(i, n)'
               PROVE  Collides({t}) /\ HasRow(n)
    OBVIOUS
  <2>1. Collides({t})
    BY <1>1, <1>5 DEF KnownBy, Cached
  <2> QED  BY <1>6, <2>1 DEF HasRow, Taken
<1>8. DueIn(i, n) => DueIn(i, n)' \/ Clean[t.name] = Clean[n]
  BY <1>2 DEF DueIn
<1>9. ~ again =>
         /\ import'[i].at \in {import[i].at, "resolved", "refresh"}
         /\ import'[i].at \in {"resolved", "refresh"} => ~ DueIn(i, n)'
  <2> SUFFICES ASSUME ~ again
               PROVE  /\ import'[i].at \in {import[i].at, "resolved", "refresh"}
                      /\ import'[i].at \in {"resolved", "refresh"} => import'[i].todo = {}
    BY DEF DueIn
  <2>1. import'[i].at = Done(i, t) /\ import'[i].todo = import[i].todo \ {t}
    BY <1>2
  <2> QED  BY <1>1, <2>1 DEF Done, At
<1>10. CASE Is("licensees")
  <2>1. At(i, "insert_one")
    BY <1>1, <1>10 DEF Is
  <2>2. import'[i].failed <= 2 => KnownBy(i, n) \/ DueIn(i, n)
    BY <1>3, <1>10, <2>1 DEF Knows, LicenseeKnown, Inserts, At
  <2>3. CASE again
    <3>1. import'[i].at = "insert_minimal" /\ import'[i].todo = import[i].todo
      BY <1>2, <2>3
    <3>2. LicenseeKnown(i, n)'
      BY <1>4, <2>2, <3>1 DEF LicenseeKnown, DueIn, Inserts, Working
    <3> QED  BY <1>1, <1>10, <3>2 DEF Knows, BrandKnown, OtherKnown, CompanyKnown, Is
  <2>4. CASE ~ again
    <3>1. ~ lost
      BY <1>10, <2>4
    <3>2. import'[i].failed <= 2 => KnownBy(i, n)' \/ DueIn(i, n)'
      BY <1>4, <1>6, <1>7, <1>8, <1>10, <2>2, <3>1
    <3>3. LicenseeKnown(i, n)'
      BY <1>9, <2>1, <2>4, <3>2 DEF LicenseeKnown, Inserts, Working, At
    <3> QED  BY <1>1, <1>10, <3>3 DEF Knows, BrandKnown, OtherKnown, CompanyKnown, Is
  <2> QED  BY <2>3, <2>4
<1>11. CASE Is("brands")
  <2>1. At(i, "insert_one") /\ ~ again
    BY <1>1, <1>11 DEF Is
  <2>2. import'[i].failed = 0 => KnownBy(i, n) \/ DueIn(i, n) \/ HasRow(n)
    BY <1>3, <1>11, <2>1 DEF Knows, BrandKnown, Inserts, At
  <2>3. import'[i].failed = 0 => KnownBy(i, n)' \/ DueIn(i, n)' \/ HasRow(n)'
    BY <1>3, <1>4, <1>7, <1>8, <2>2
  <2>4. import'[i].at \in {"insert_one", "refresh"}
    BY <1>2, <1>11, <2>1 DEF Done, Is, At
  <2>5. BrandKnown(i, n)'
    BY <1>9, <2>1, <2>3, <2>4 DEF BrandKnown, Inserts, Working, At
  <2> QED  BY <1>1, <1>11, <2>5 DEF Knows, LicenseeKnown, OtherKnown, CompanyKnown, Is
<1>12. CASE Is("companies")
  <2>1. At(i, "insert") /\ ~ again
    BY <1>1, <1>12 DEF Is
  <2>2. ASSUME OneProcess', faults' = 0 PROVE KnownBy(i, n)' \/ DueIn(i, n)'
    <3>1. OneProcess /\ faults = 0 /\ ~ lost
      BY <1>3, <2>2
    <3>2. KnownBy(i, n) \/ DueIn(i, n)
      BY <1>12, <2>1, <3>1 DEF Knows, CompanyKnown, Inserts, At
    <3>3. Covers(Cached(i))
      <4>1. ReadOnce /\ Begun(i) /\ HasRead(i)
        BY <1>12, <2>1 DEF ReadOnce, Begun, HasRead, Looked, At, Is
      <4> QED  BY <3>1, <4>1 DEF CoverInv
    <3>4. HasRow(n) => KnownBy(i, n)
      <4> SUFFICES ASSUME NEW r \in rows, Clean[r.name] = Clean[n] PROVE KnownBy(i, n)
        BY DEF HasRow
      <4>1. r.name \in Name /\ Clean[r.name] # NoKey
        BY DEF Basic, MasterTypeOK, Row
      <4>2. Clean[r.name] \in Keys(r.name)
        BY <4>1, OwnKey
      <4> QED  BY <3>3, <4>2 DEF Covers, KnownBy
    <3> QED  BY <1>4, <1>7, <1>8, <3>1, <3>2, <3>4
  <2>3. CompanyKnown(i, n)'
    BY <1>9, <2>1, <2>2 DEF CompanyKnown, Inserts, Working, At
  <2> QED  BY <1>1, <1>12, <2>3 DEF Knows, LicenseeKnown, OtherKnown, BrandKnown, Is
<1> QED  BY <1>1, <1>10, <1>11, <1>12 DEF Is

LEMMA InsertMinimalKnows ==
    ASSUME Basic, NEW i \in Import, NEW lost \in BOOLEAN, InsertMinimal(i, lost),
           NEW n \in Wanted(i), Knows(i, n)
    PROVE  Knows(i, n)'
<1>1. /\ Turns(i) /\ mix' = mix /\ At(i, "insert_minimal") /\ Is("licensees")
      /\ import[i].failed \in Nat /\ import[i].failed >= 2
      /\ import'[i].p = import[i].p
  BY InsertMinimalIs, ImportIs DEF Turns, Basic, StepsOK
<1>2. PICK t \in import[i].last :
          /\ import'[i].at = IF import[i].todo = {t} THEN "refresh" ELSE "insert_one"
          /\ import'[i].todo = import[i].todo \ {t} /\ import'[i].failed = Fails(i, lost)
          /\ lost \/ ((\E q \in rows' : q.name = t.name) /\ Store(Named(rows', {t}), import[i].p))
  BY InsertMinimalIs DEF Becomes
<1>3. SUFFICES ASSUME import'[i].failed <= 2 PROVE LicenseeKnown(i, n)'
  BY <1>1 DEF Knows, LicenseeKnown, BrandKnown, OtherKnown, CompanyKnown, Is
<1>4. ~ lost /\ import[i].failed <= 2
  BY <1>1, <1>2, <1>3 DEF Fails
<1>5. KnownBy(i, n) \/ DueIn(i, n)
  BY <1>1, <1>4 DEF Knows, LicenseeKnown, Inserts, At
<1>6. KnownBy(i, n) => KnownBy(i, n)'
  BY <1>1, WantedIs, KnownStays
<1>7. cached'[import[i].p][Clean[t.name]] # NoId
  <2>1. PICK q \in Named(rows', {t}) : q.name = t.name
    BY <1>2, <1>4 DEF Named
  <2>2. Named(rows', {t}) \in SUBSET Row /\ import[i].p \in Process
    BY <1>1, ImportIs DEF Turns, RowsChange, Named
  <2>3. Store(Named(rows', {t}), import[i].p)
    BY <1>2, <1>4
  <2>4. Clean[t.name] # NoKey
    BY DEF Basic, TodoOK
  <2> HIDE DEF Named
  <2> QED  BY <2>1, <2>2, <2>3, <2>4, StoredKnown
<1>8. KnownBy(i, n)' \/ DueIn(i, n)'
  BY <1>1, <1>2, <1>5, <1>6, <1>7 DEF DueIn, KnownBy, Cached
<1>9. import'[i].at = "refresh" => ~ DueIn(i, n)'
  BY <1>2 DEF DueIn
<1> QED  BY <1>2, <1>8, <1>9 DEF LicenseeKnown, Inserts, Working

LEMMA KnownStep ==
    ASSUME Basic, LoneInv, CoverInv, TodoInv, KnownInv, [Next]_vars
    PROVE  KnownInv'
<1>0. mix' = mix /\ (OneProcess' => OneProcess) /\ (faults' = 0 => faults = 0)
      /\ mix.table \in Tables
  BY Keeps, History, MasterAssumption DEF Basic, MasterTypeOK
<1> SUFFICES ASSUME NEW j \in Import, NEW n \in Wanted(j)', ~ Silent(j)' PROVE Knows(j, n)'
  BY <1>0, SilentKnows DEF KnownInv, Silent, Knows, LicenseeKnown, BrandKnown, OtherKnown,
     CompanyKnown, At
<1>1. import'[j].sheet = import[j].sheet => n \in Wanted(j)
  BY DEF Wanted, Items, Sheet
<1>2. ASSUME NEW i \in Import, NEW p \in Process, NEW s \in mix.sheets, BeginImport(i, p, s)
      PROVE  Knows(j, n)'
  <2>1. BeginsAs(i, p, s)
    BY <1>2, BeginIs
  <2>2. j # i
    BY <2>1 DEF BeginsAs, Becomes, Silent, Inserts, Working
  <2>3. /\ SameButAlone(j)
        /\ import'[j].alone => import[j].alone
        /\ rows' = rows /\ cached' = cached /\ faults' = faults
    BY <2>1, <2>2 DEF BeginsAs
  <2>4. Knows(j, n)
    BY <1>1, <2>3 DEF KnownInv, SameButAlone
  <2> QED  BY <1>0, <2>3, <2>4 DEF Knows, LicenseeKnown, BrandKnown, OtherKnown, CompanyKnown,
           SameButAlone, KnownBy, DueIn, HasRow, Taken, Cached, Is, At
<1>3. ASSUME NEW i \in Import, NEW lost \in BOOLEAN, ResolveStep(i, lost)
      PROVE  Knows(j, n)'
  <2>1. Turns(i) /\ UnderWay(i)
    BY <1>3, AnyTurn
  <2>2. n \in Wanted(j) /\ Knows(j, n)
    <3>1. import'[j].sheet = import[j].sheet
      BY <2>1 DEF Turns
    <3> QED  BY <1>1, <3>1 DEF KnownInv
  <2>3. CASE j # i
    <3>1. import'[j] = import[j]
      BY <2>1, <2>3 DEF Turns
    <3>2. ~ (import[j].alone /\ import[j].at \in Inserts \cup {"read_again"} \cup Working)
      BY <2>1, <2>3, LabelsDiffer DEF LoneInv, UnderWay, Inserts, Ended
    <3>3. /\ KnownBy(j, n) => KnownBy(j, n)'
          /\ HasRow(n) => HasRow(n)'
      BY <2>1, <2>2, WantedIs, KnownStays
    <3>4. LicenseeKnown(j, n)' /\ BrandKnown(j, n)' /\ CompanyKnown(j, n)'
      BY <1>0, <2>2, <3>1, <3>3
      DEF Knows, LicenseeKnown, BrandKnown, CompanyKnown, DueIn, Is, At
    <3>5. OtherKnown(j, n)'
      BY <3>1, <3>2 DEF OtherKnown, At
    <3> QED  BY <3>4, <3>5 DEF Knows
  <2>4. CASE j = i
    <3>1. CASE Prefetch(i, lost)
      BY <2>4, <3>1, PrefetchIs DEF Becomes, Silent, Inserts, Working
    <3>2. CASE Collect(i, lost)
      BY <2>2, <2>4, <3>2, CollectKnows
    <3>3. CASE MoveLicensee(i, lost)
      BY <2>2, <2>4, <3>3, MoveKnows
    <3>4. CASE Insert(i, lost)
      BY <1>0, <2>2, <2>4, <3>4, InsertKnows
    <3>5. CASE ReadAgain(i, lost) \/ Refresh(i, lost)
      BY <1>0, <2>2, <2>4, <3>5, ReadsKnow
    <3>6. CASE InsertOne(i, lost)
      BY <1>0, <2>2, <2>4, <3>6, InsertOneKnows
    <3>7. CASE InsertMinimal(i, lost)
      BY <2>2, <2>4, <3>7, InsertMinimalKnows
    <3> QED  BY <1>3, <3>1, <3>2, <3>3, <3>4, <3>5, <3>6, <3>7 DEF ResolveStep
  <2> QED  BY <2>3, <2>4
<1>4. ASSUME Removes PROVE Knows(j, n)'
  <2>1. import' = import /\ cached' = cached /\ faults' = faults /\ Is("depots")
    BY <1>4, RemoveIs
  <2>2. Knows(j, n)
    BY <1>1, <2>1 DEF KnownInv
  <2> QED  BY <1>0, <2>1, <2>2 DEF Knows, LicenseeKnown, BrandKnown, OtherKnown, CompanyKnown,
           KnownBy, DueIn, Cached, Is, At
<1>5. ASSUME NamesRest PROVE Knows(j, n)'
  <2>1. OnlyMoves(j) /\ rows' = rows /\ cached' = cached
    BY <1>5, GoingOn DEF NamesRest
  <2>2. Knows(j, n)
    BY <1>1, <2>1 DEF KnownInv, OnlyMoves
  <2>3. \/ import'[j].at = import[j].at
        \/ import[j].at \in Working /\ import'[j].at \in Working
    BY <2>1 DEF OnlyMoves, Silent, Inserts, Ended
  <2> QED  BY <1>0, <2>1, <2>2, <2>3, LabelsDiffer
           DEF Knows, LicenseeKnown, BrandKnown, OtherKnown, CompanyKnown,
               OnlyMoves, KnownBy, DueIn, HasRow, Taken, Cached, Is, At, Inserts, Working
<1> QED  BY <1>2, <1>3, <1>4, <1>5, NamesNext

(***************************************************************************)
(* The inductive invariant of the names: that of the table, that no cache  *)
(* names a wrong row, and what an import knows where it is.                *)
(***************************************************************************)
NamesInv == TableInv /\ TrueInv /\ KnownInv

LEMMA NamesInvInitially == Init => NamesInv
<1> SUFFICES ASSUME Init PROVE NamesInv
  OBVIOUS
<1>1. /\ cached = [p \in Process |-> [k \in Key |-> NoId]]
      /\ import = [i \in Import |-> NewImport]
  BY DEF Init, MasterInit
<1>2. \A p \in Process : TrueCache(cached[p])
  BY <1>1 DEF TrueCache
<1>3. \A i \in Import : Silent(i)
  BY <1>1 DEF NewImport, Silent, Inserts, Working
<1> QED  BY <1>2, <1>3, TableInvInitially, SilentKnows DEF NamesInv, TrueInv, KnownInv

LEMMA NamesInvStep == NamesInv /\ [Next]_vars => NamesInv'
  BY TableInvStep, TrueStep, KnownStep DEF NamesInv, TableInv

\* What is known is a row of the table.
LEMMA KnownIsRow ==
    ASSUME NamesInv, NEW i \in Import, removed = 0, NEW n \in Name, Clean[n] # NoKey,
           KnownBy(i, n)
    PROVE  IsRow(n, IdFor(i, n))
<1>1. import[i].p \in Process /\ Clean[n] \in Key /\ Clean[n] \in Keys(n) /\ Tight[n] \in Key
  BY ImportIs, KeyFacts, OwnKey DEF NamesInv, TableInv
<1>2. \A k \in Key : Cached(i)[k] # NoId => Rightly(k, Cached(i)[k])
  BY <1>1 DEF NamesInv, TrueInv, TrueCache, Cached
<1>3. CASE Is("companies") /\ Cached(i)[Tight[n]] # NoId
  <2>1. IdFor(i, n) = Cached(i)[Tight[n]]
    BY <1>3 DEF IdFor
  <2>2. Tight[n] \in Keys(n)
    BY <1>3 DEF Keys, Is
  <2>3. Rightly(Tight[n], Cached(i)[Tight[n]])
    BY <1>1, <1>2, <1>3
  <2> QED  BY <2>1, <2>2, <2>3 DEF Rightly, IsRow
<1>4. CASE ~ (Is("companies") /\ Cached(i)[Tight[n]] # NoId)
  <2>1. IdFor(i, n) = Cached(i)[Clean[n]]
    BY <1>4 DEF IdFor, KnownBy
  <2>2. Rightly(Clean[n], Cached(i)[Clean[n]])
    BY <1>1, <1>2 DEF KnownBy
  <2> QED  BY <1>1, <2>1, <2>2 DEF Rightly, IsRow
<1> QED  BY <1>3, <1>4

LEMMA ItemWanted ==
    ASSUME Basic, NEW i \in Import, ~ At(i, "idle"), NEW t \in Items(i), Clean[t.name] # NoKey
    PROVE  t.name \in Name /\ t.name \in Wanted(i)
<1>1. t.name \in Name
  BY ImportIs, SheetFacts DEF Items
<1> QED  BY <1>1 DEF Wanted

LEMMA NamesInvNotLost == NamesInv => NoNameIsLost
<1> SUFFICES ASSUME NamesInv, NEW i \in Import, Resolved(i),
                    \/ Is("licensees") /\ import[i].failed <= 2
                    \/ Is("brands") /\ import[i].failed = 0,
                    NEW t \in Items(i), Clean[t.name] # NoKey
             PROVE  IsRow(t.name, IdFor(i, t.name))
  BY DEF NoNameIsLost
<1>1. Basic /\ removed = 0
  BY DEF NamesInv, TableInv, Basic, Is
<1>2. t.name \in Name /\ t.name \in Wanted(i)
  BY <1>1, ItemWanted DEF Resolved, At, Working
<1>3. KnownBy(i, t.name)
  BY <1>2 DEF NamesInv, KnownInv, Knows, LicenseeKnown, BrandKnown, Resolved
<1> QED  BY <1>1, <1>2, <1>3, KnownIsRow

LEMMA NamesInvResolved == NamesInv => ResolvedWhenAlone
<1> SUFFICES ASSUME NamesInv, NEW i \in Import, Resolved(i), import[i].alone, faults = 0,
                    removed = 0, NEW t \in Items(i), Clean[t.name] # NoKey,
                    ~ (Is("companies") /\ ~ OneProcess),
                    ~ (Is("headquarters") /\ ~ Taken(t.name) /\ ~ OneProcess)
             PROVE  IsRow(t.name, IdFor(i, t.name))
  BY DEF ResolvedWhenAlone
<1>1. Basic /\ import[i].failed = 0 /\ mix.table \in Tables
  <2>1. Basic /\ import[i].failed \in Nat /\ import[i].failed <= faults
    BY ImportIs DEF NamesInv, TableInv, Basic, StepsOK
  <2> QED  BY <2>1, MasterAssumption DEF Basic, MasterTypeOK
<1>2. t.name \in Name /\ t.name \in Wanted(i)
  BY <1>1, ItemWanted DEF Resolved, At, Working
<1>3. Knows(i, t.name)
  BY <1>2 DEF NamesInv, KnownInv
<1>4. KnownBy(i, t.name)
  BY <1>1, <1>3
  DEF Knows, LicenseeKnown, BrandKnown, OtherKnown, CompanyKnown, Resolved, Tables, Is
<1> QED  BY <1>2, <1>4, KnownIsRow

(***************************************************************************)
(* The fall-backs of bulk_resolve do their work: with at most two failed   *)
(* calls no licensee of a sheet is lost, and no brand without a failed     *)
(* one, even when another import creates the same rows at the same time.   *)
(***************************************************************************)
THEOREM NoNameIsLostCorrect == Spec => []NoNameIsLost
<1>1. Init => NamesInv
  BY NamesInvInitially
<1>2. NamesInv /\ [Next]_vars => NamesInv'
  BY NamesInvStep
<1>3. NamesInv => NoNameIsLost
  BY NamesInvNotLost
<1> QED  BY <1>1, <1>2, <1>3, PTL DEF Spec

(***************************************************************************)
(* An import that ran alone and met no failure finds, for each name of its *)
(* sheet, an existing row that shares a key with it - for a company whose  *)
(* tight key is blank that of any such company -; of companies, and of     *)
(* headquarters without a row, if one process did all the imports          *)
(* (bulk_resolve_headquarters, bulk_resolve_companies and the others).     *)
(***************************************************************************)
THEOREM ResolvedWhenAloneCorrect == Spec => []ResolvedWhenAlone
<1>1. Init => NamesInv
  BY NamesInvInitially
<1>2. NamesInv /\ [Next]_vars => NamesInv'
  BY NamesInvStep
<1>3. NamesInv => ResolvedWhenAlone
  BY NamesInvResolved
<1> QED  BY <1>1, <1>2, <1>3, PTL DEF Spec

-----------------------------------------------------------------------------
(***************************************************************************)
(* Licensees and their headquarters: where an import is, each row of a     *)
(* name of its sheet has the headquarters of the sheet or is about to get  *)
(* it, and the cache says so.                                              *)
(***************************************************************************)
SheetKeys(i) == {Clean[n] : n \in Wanted(i)}

Home(i, k) == LastHq(Sheet(i), k)

HqCachedBy(i) == hqCached[import[i].p]

Settles(i) ==
    /\ Is("licensees") /\ import[i].alone /\ faults = 0 /\ OneEach(rows)
    /\ \A t \in Items(i) : t.hq # NoHq

Homing == {"move", "insert", "refresh"} \cup Working

Exact(i) == \A r \in rows : /\ Cached(i)[Clean[r.name]] = Id(r)
                            /\ HqCachedBy(i)[Clean[r.name]] = r.hq

Homed(i) ==
    \A r \in rows : Clean[r.name] \in SheetKeys(i) =>
        /\ r.hq = Home(i, Clean[r.name]) \/ <<Id(r), Home(i, Clean[r.name])>> \in import[i].moves
        /\ HqCachedBy(i)[Clean[r.name]] = Home(i, Clean[r.name])

MovesHome(i) ==
    \A m \in import[i].moves, r \in rows : Id(r) = m[1] => m[2] = Home(i, Clean[r.name])

TodoHome(i) == \A t \in import[i].todo : t.hq = Home(i, Clean[t.name])

HomeOK(i) ==
    Settles(i) =>
        /\ At(i, "collect") => Exact(i)
        /\ import[i].at \in Homing => Homed(i)
        /\ At(i, "move") => MovesHome(i)
        /\ import[i].at \in {"move", "insert"} => TodoHome(i)
        /\ import[i].at \in Homing \ {"move"} => import[i].moves = {}

HomeInv == \A i \in Import : HomeOK(i)

LEMMA OneEachBefore ==
    ASSUME Basic, NEW N, RowsChange(N), OneEach(rows')
    PROVE  OneEach(rows)
<1> SUFFICES ASSUME NEW r \in rows, NEW q \in rows, Clean[r.name] = Clean[q.name]
             PROVE  r = q
  BY DEF OneEach
<1>1. PICK r1 \in rows' : r1.name = r.name
  BY DEF RowsChange
<1>2. PICK q1 \in rows' : q1.name = q.name
  BY DEF RowsChange
<1>3. r1 = q1
  BY <1>1, <1>2 DEF OneEach
<1> QED  BY <1>1, <1>2, <1>3 DEF Basic, OneName

\* What one row of a key stores.
LEMMA StoredHome ==
    ASSUME Basic, Is("licensees"), NEW S \in SUBSET Row, NEW p \in Process, Store(S, p),
           OneEach(S), NEW r \in S, Clean[r.name] # NoKey
    PROVE  /\ cached'[p][Clean[r.name]] = Id(r)
           /\ hqCached'[p][Clean[r.name]] = r.hq
<1> DEFINE k == Clean[r.name]
<1>1. /\ cached \in [Process -> Caches] /\ hqCached \in [Process -> HqCaches] /\ k \in Key
  BY KeyFacts DEF Basic, MasterTypeOK, Caches, HqCaches, Row
<1>2. PICK last : /\ cached' = [cached EXCEPT ![p] = Ids(cached[p], S, last)]
                  /\ hqCached' = [hqCached EXCEPT ![p] = Hqs(hqCached[p], S, last)]
  BY <1>1, StoreGives
<1>3. r \in Holders(S, k) /\ \A q \in Holders(S, k) : q = r
  BY DEF Holders, Keys, OneEach, Is
<1>4. Holders(S, k) # {} /\ Winner(S, k, last) = r
  BY <1>3, WinnerHolds
<1>5. cached'[p] = Ids(cached[p], S, last) /\ hqCached'[p] = Hqs(hqCached[p], S, last)
  BY <1>1, <1>2
<1> HIDE DEF k
<1>6. Ids(cached[p], S, last)[k] = Id(r)
  BY <1>1, <1>4 DEF Ids
<1>7. Hqs(hqCached[p], S, last)[k] = r.hq
  BY <1>1, <1>4 DEF Hqs
<1> QED  BY <1>5, <1>6, <1>7 DEF k

\* What rows of other keys store leaves a key alone.
LEMMA OtherHome ==
    ASSUME Basic, NEW S \in SUBSET Row, NEW p \in Process, Store(S, p),
           NEW k \in Key, \A q \in S : k \notin Keys(q.name)
    PROVE  hqCached'[p][k] = hqCached[p][k]
<1>1. /\ cached \in [Process -> Caches] /\ hqCached \in [Process -> HqCaches]
  BY DEF Basic, MasterTypeOK, Caches, HqCaches
<1>2. PICK last : hqCached' = [hqCached EXCEPT ![p] = Hqs(hqCached[p], S, last)]
  BY <1>1, StoreGives
<1>3. Holders(S, k) = {}
  BY DEF Holders
<1>4. Hqs(hqCached[p], S, last)[k] = hqCached[p][k]
  BY <1>3 DEF Hqs
<1> QED  BY <1>1, <1>2, <1>4

\* The last headquarters of a key, when all rows give one.
LEMMA HomeIs ==
    ASSUME mix \in Mixes, NEW s \in mix.sheets, \A j \in DOMAIN s : s[j].hq # NoHq,
           NEW k \in DOMAIN s
    PROVE  \E j \in DOMAIN s : /\ Clean[s[j].name] = Clean[s[k].name]
                               /\ LastHq(s, Clean[s[k].name]) = s[j].hq
                               /\ \A q \in DOMAIN s :
                                     Clean[s[q].name] = Clean[s[k].name] => q <= j
<1>1. \E j \in DOMAIN s : Clean[s[j].name] = Clean[s[k].name] /\ s[j].hq # NoHq
  OBVIOUS
<1> QED  BY <1>1, LastHqIs

LEMMA CollectHomes ==
    ASSUME Basic, removed = 0 => \A p \in Process : TrueCache(cached[p]),
           NEW i \in Import, Collect(i, FALSE), Settles(i), Exact(i)
    PROVE  HomeOK(i)'
<1> DEFINE s == Sheet(i)
           p == import[i].p
           c == Cached(i)
           h == hqCached[p]
<1>1. /\ mix \in Mixes /\ s \in mix.sheets /\ rows' = rows /\ rows \in SUBSET Row
      /\ c \in Caches /\ h \in HqCaches /\ removed = 0 /\ mix' = mix /\ p \in Process
      /\ import'[i].p = p /\ import'[i].sheet = s
  BY CollectIs, ImportIs DEF At, Cached, Settles, Basic, Is, Turns, Sheet
<1>2. /\ import'[i].at = Then(Moves(c, h, s), Missing(c, s))
      /\ import'[i].todo = Missing(c, s) /\ import'[i].moves = Moves(c, h, s)
      /\ hqCached'[p] = HqsMoved(c, h, s)
  <2>1. PICK d \in Caches : /\ LookedIn(i, FALSE, d)
               /\ Becomes(i, Then(Moves(d, h, s), Missing(d, s)), Missing(d, s),
                          Moves(d, h, s), import[i].last, import[i].failed)
               /\ hqCached'[p] = HqsMoved(d, h, s)
    BY CollectIs
  <2>2. d = c
    BY <2>1 DEF LookedIn, ReadsFirst, Settles, Is
  <2> QED  BY <2>1, <2>2 DEF Becomes
<1>3. \A j \in DOMAIN s : s[j].hq # NoHq /\ s[j].name \in Name
  BY <1>1, SheetFacts DEF Settles, Items
<1>4. TrueCache(c)
  BY <1>1 DEF Cached
<1>5. \A r \in rows : /\ c[Clean[r.name]] = Id(r) /\ h[Clean[r.name]] = r.hq
                      /\ r.name \in Name /\ Id(r) # NoId /\ Clean[r.name] \in Key
                      /\ Clean[r.name] # NoKey
  BY <1>1, KeyFacts, IdIs DEF Exact, HqCachedBy, Row, Basic
<1>6. Moved(c, h, s) = MovedKeys(c, h, s)
  BY DEF Moved, Settles
<1> HIDE DEF s, p, c, h
<1>7. ASSUME NEW r \in rows, NEW l \in DOMAIN s, Clean[s[l].name] = Clean[r.name]
      PROVE  /\ \/ r.hq = LastHq(s, Clean[r.name])
                \/ <<Id(r), LastHq(s, Clean[r.name])>> \in Moves(c, h, s)
             /\ HqsMoved(c, h, s)[Clean[r.name]] = LastHq(s, Clean[r.name])
  <2> DEFINE k == Clean[r.name]
  <2>1. PICK j \in DOMAIN s : Clean[s[j].name] = k /\ LastHq(s, k) = s[j].hq
    BY <1>1, <1>3, <1>7, HomeIs
  <2>2. CASE k \in Moved(c, h, s)
    <3>1. <<Id(r), LastHq(s, k)>> \in Moves(c, h, s)
      BY <1>5, <2>2 DEF Moves
    <3>2. HqsMoved(c, h, s)[k] = LastHq(s, k)
      BY <1>5, <2>2 DEF HqsMoved
    <3> QED  BY <3>1, <3>2
  <2>3. CASE k \notin Moved(c, h, s)
    <3>1. s[j].hq = r.hq
      BY <1>3, <1>5, <1>6, <2>1, <2>3 DEF MovedKeys
    <3>2. HqsMoved(c, h, s)[k] = h[k]
      BY <1>5, <2>3 DEF HqsMoved
    <3> QED  BY <1>5, <2>1, <3>1, <3>2
  <2> QED  BY <2>2, <2>3
<1>8. ASSUME NEW m \in Moves(c, h, s), NEW r \in rows, Id(r) = m[1]
      PROVE  m[2] = LastHq(s, Clean[r.name])
  <2>1. PICK k \in MovedKeys(c, h, s) : m = <<c[k], LastHq(s, k)>>
    BY <1>6 DEF Moves
  <2>2. k \in Key /\ c[k] # NoId /\ \E j \in DOMAIN s : Clean[s[j].name] = k
    BY <2>1 DEF MovedKeys
  <2>3. Rightly(k, c[k])
    BY <1>4, <2>2 DEF TrueCache
  <2>4. k # NoKey
    BY <2>3 DEF Rightly, Settles, Is
  <2>5. PICK j \in DOMAIN s : Clean[s[j].name] = k
    BY <2>2
  <2>6. s[j].name \in Name /\ Keys(s[j].name) = {k}
    BY <1>3, <2>4, <2>5 DEF Keys, Settles, Is
  <2>7. PICK q \in rows : Id(q) = c[k] /\ Keys(q.name) \cap {k} # {}
    BY <2>3, <2>6 DEF Rightly
  <2>8. Clean[q.name] = k
    BY <2>7 DEF Keys, Settles, Is
  <2>9. q.name = r.name
    BY <1>8, <2>1, <2>7 DEF Id
  <2> QED  BY <2>1, <2>8, <2>9
<1>9. ASSUME NEW t \in Missing(c, s) PROVE t.hq = LastHq(s, Clean[t.name])
  <2>1. PICK k \in DOMAIN s : /\ t = [name |-> s[k].name, hq |-> s[k].hq]
                              /\ Later(s, k) => Is("companies")
    BY <1>1, MissingIs
  <2>2. ~ Later(s, k)
    BY <2>1 DEF Settles, Is
  <2>3. PICK j \in DOMAIN s : /\ Clean[s[j].name] = Clean[s[k].name]
                              /\ LastHq(s, Clean[s[k].name]) = s[j].hq
                              /\ \A q \in DOMAIN s : Clean[s[q].name] = Clean[s[k].name] => q <= j
    BY <1>1, <1>3, HomeIs
  <2>4. j <= k /\ k <= j /\ j \in Nat /\ k \in Nat
    BY <1>1, <2>2, <2>3, MissingLast, SheetFacts
  <2>5. j = k
    BY <2>4
  <2> QED  BY <2>1, <2>3, <2>5
<1>10. Homed(i)'
  <2> SUFFICES ASSUME NEW r \in rows, Clean[r.name] \in SheetKeys(i)'
               PROVE  /\ \/ r.hq = LastHq(s, Clean[r.name])
                         \/ <<Id(r), LastHq(s, Clean[r.name])>> \in Moves(c, h, s)
                      /\ HqsMoved(c, h, s)[Clean[r.name]] = LastHq(s, Clean[r.name])
    BY <1>1, <1>2 DEF Homed, Home, HqCachedBy, Sheet, Id
  <2>1. \E l \in DOMAIN s : Clean[s[l].name] = Clean[r.name]
    BY <1>1 DEF SheetKeys, Wanted, Items, Sheet
  <2> QED  BY <1>7, <2>1
<1>11. MovesHome(i)' /\ TodoHome(i)'
  BY <1>1, <1>2, <1>8, <1>9 DEF MovesHome, TodoHome, Home, Sheet, Id
<1>12. /\ import'[i].at \in {"move", "insert", "resolved"}
       /\ import'[i].at # "move" => import'[i].moves = {}
  BY <1>2 DEF Then
<1> QED  BY <1>10, <1>11, <1>12 DEF HomeOK, At, Homing

LEMMA PrefetchHomes ==
    ASSUME Basic, NEW i \in Import, Prefetch(i, FALSE), Settles(i)
    PROVE  HomeOK(i)'
<1> DEFINE p == import[i].p
<1>1. /\ p \in Process /\ rows \in SUBSET Row /\ rows' = rows /\ import'[i].p = p
      /\ import'[i].at = "collect" /\ Store(rows, p)
  BY PrefetchIs, ImportIs DEF Turns, Becomes, Settles, Is
<1>2. \A r \in rows : /\ cached'[p][Clean[r.name]] = Id(r)
                      /\ hqCached'[p][Clean[r.name]] = r.hq
  BY <1>1, StoredHome DEF Settles, Basic
<1>3. Exact(i)'
  BY <1>1, <1>2 DEF Exact, Cached, HqCachedBy, Id
<1> QED  BY <1>1, <1>3 DEF HomeOK, At, Homing, Working

LEMMA MoveHomes ==
    ASSUME Basic, NEW i \in Import, MoveLicensee(i, FALSE),
           Homed(i), MovesHome(i), TodoHome(i)
    PROVE  HomeOK(i)'
<1> DEFINE p == import[i].p
           H(k) == Home(i, k)
<1>1. PICK m \in import[i].moves :
          /\ import'[i].at = Then(import[i].moves \ {m}, import[i].todo)
          /\ import'[i].todo = import[i].todo /\ import'[i].moves = import[i].moves \ {m}
          /\ rows' = Rehomed(m)
  BY MoveIs DEF Becomes
<1>2. import'[i].p = p /\ import'[i].sheet = import[i].sheet /\ hqCached' = hqCached
  BY MoveIs DEF Turns
<1>3. m \in SomeId \X MaybeHq
  BY ImportIs
<1>4. ASSUME NEW q \in rows'
      PROVE  \E r \in rows : /\ q.name = r.name /\ Id(q) = Id(r)
                             /\ q.hq = IF Id(r) = m[1] THEN m[2] ELSE r.hq
  BY <1>1, <1>3, RehomedAre DEF Id
<1>5. \A k : Home(i, k)' = H(k)
  BY <1>2 DEF Home, Sheet
<1>6. SheetKeys(i)' = SheetKeys(i)
  BY <1>2 DEF SheetKeys, Wanted, Items, Sheet
<1>7. ASSUME NEW q \in rows', Clean[q.name] \in SheetKeys(i)
      PROVE  /\ q.hq = H(Clean[q.name]) \/ <<Id(q), H(Clean[q.name])>> \in import[i].moves \ {m}
             /\ hqCached[p][Clean[q.name]] = H(Clean[q.name])
  <2>1. PICK r \in rows : /\ q.name = r.name /\ Id(q) = Id(r)
                          /\ q.hq = IF Id(r) = m[1] THEN m[2] ELSE r.hq
    BY <1>4
  <2>2. /\ r.hq = H(Clean[r.name]) \/ <<Id(r), H(Clean[r.name])>> \in import[i].moves
        /\ hqCached[p][Clean[r.name]] = H(Clean[r.name])
    BY <1>7, <2>1 DEF Homed, HqCachedBy
  <2>3. Id(r) = m[1] => m[2] = H(Clean[r.name])
    BY DEF MovesHome
  <2> HIDE DEF H
  <2> QED  BY <2>1, <2>2, <2>3
<1>8. ASSUME NEW n \in import[i].moves, NEW q \in rows', Id(q) = n[1]
      PROVE  n[2] = H(Clean[q.name])
  BY <1>4, <1>8 DEF MovesHome
<1>9. Homed(i)' /\ MovesHome(i)' /\ TodoHome(i)'
  <2>1. Homed(i)'
    BY <1>1, <1>2, <1>5, <1>6, <1>7 DEF Homed, HqCachedBy, Id
  <2>2. MovesHome(i)'
    BY <1>1, <1>5, <1>8 DEF MovesHome, Id
  <2>3. TodoHome(i)'
    BY <1>1, <1>5 DEF TodoHome
  <2> QED  BY <2>1, <2>2, <2>3
<1>10. /\ import'[i].at \in {"move", "insert", "resolved"}
       /\ import'[i].at # "move" => import'[i].moves = {}
  BY <1>1 DEF Then
<1> QED  BY <1>9, <1>10 DEF HomeOK, At, Homing

LEMMA InsertHomes ==
    ASSUME Basic, NEW i \in Import, Insert(i, FALSE), Settles(i), OneEach(rows'),
           Homed(i), TodoHome(i), import[i].moves = {}
    PROVE  HomeOK(i)'
<1> DEFINE p == import[i].p
           T == import[i].todo
           S == Named(Upserted(T), T)
           H(k) == Home(i, k)
<1>1. ~ Collides(T) /\ p \in Process /\ T \in SUBSET Item
  BY ImportIs DEF Collides, Settles
<1>2. /\ rows' = Upserted(T) /\ Store(S, p)
      /\ import'[i].at = "refresh" /\ import'[i].moves = {}
      /\ import'[i].p = p /\ import'[i].sheet = import[i].sheet
  BY <1>1, InsertIs DEF Writes, Becomes, AfterInsert, Turns, Settles, Is
<1>3. /\ S \in SUBSET Row /\ S \subseteq rows' /\ rows' \subseteq Row
      /\ \A q \in S : \E t \in T : t.name = q.name
      /\ \A q \in rows' : (\E t \in T : t.name = q.name) => q \in S
  BY <1>1, <1>2, UpsertedAre DEF Named
<1>4. \A k : Home(i, k)' = H(k)
  BY <1>2 DEF Home, Sheet
<1>5. SheetKeys(i)' = SheetKeys(i)
  BY <1>2 DEF SheetKeys, Wanted, Items, Sheet
<1>6. ASSUME NEW q \in rows'
      PROVE  \/ q \in rows /\ \A t \in T : t.name # q.name
             \/ \E t \in T : q.name = t.name /\ q.hq = t.hq
  BY <1>1, <1>2, UpsertedAre DEF Fresh
<1>7. ASSUME NEW q \in rows', Clean[q.name] \in SheetKeys(i)
      PROVE  /\ q.hq = H(Clean[q.name])
             /\ hqCached'[p][Clean[q.name]] = H(Clean[q.name])
  <2>1. CASE q \in rows /\ \A t \in T : t.name # q.name
    <3>1. q.hq = H(Clean[q.name]) /\ hqCached[p][Clean[q.name]] = H(Clean[q.name])
      BY <1>7, <2>1 DEF Homed, HqCachedBy
    <3>2. Clean[q.name] \in Key
      BY <1>3, KeyFacts DEF Row
    <3>3. ASSUME NEW x \in S, Clean[q.name] \in Keys(x.name) PROVE FALSE
      <4>1. Clean[x.name] = Clean[q.name]
        BY <3>3 DEF Keys, Settles, Is
      <4>2. x = q
        BY <1>3, <4>1 DEF OneEach
      <4> QED  BY <1>3, <2>1, <4>2
    <3> HIDE DEF H, p, S
    <3>4. hqCached'[p][Clean[q.name]] = hqCached[p][Clean[q.name]]
      BY <1>1, <1>2, <1>3, <3>2, <3>3, OtherHome
    <3> QED  BY <3>1, <3>4
  <2>2. ASSUME NEW t \in T, q.name = t.name, q.hq = t.hq
        PROVE  /\ q.hq = H(Clean[q.name])
               /\ hqCached'[p][Clean[q.name]] = H(Clean[q.name])
    <3>1. q.hq = H(Clean[q.name]) /\ Clean[q.name] # NoKey
      BY <2>2 DEF TodoHome, Basic, TodoOK
    <3>2. q \in S
      BY <1>3, <2>2
    <3>3. OneEach(S) /\ Is("licensees")
      BY <1>3 DEF OneEach, Settles
    <3> HIDE DEF H, p, S
    <3>4. hqCached'[p][Clean[q.name]] = q.hq
      BY <1>1, <1>2, <1>3, <3>1, <3>2, <3>3, StoredHome
    <3> QED  BY <3>1, <3>4
  <2> QED  BY <1>6, <2>1, <2>2
<1>8. Homed(i)'
  BY <1>2, <1>4, <1>5, <1>7 DEF Homed, HqCachedBy
<1> QED  BY <1>2, <1>8 DEF HomeOK, At, Homing

LEMMA RefreshHomes ==
    ASSUME Basic, NEW i \in Import, Refresh(i, FALSE), Settles(i), Homed(i),
           import[i].moves = {}
    PROVE  HomeOK(i)'
<1> DEFINE p == import[i].p
<1>1. /\ p \in Process /\ rows \in SUBSET Row /\ rows' = rows /\ import'[i].p = p
      /\ import'[i].sheet = import[i].sheet
      /\ import'[i].at = "resolved" /\ import'[i].moves = {} /\ Store(rows, p)
  BY ReadsIs, ImportIs DEF Turns, Becomes
<1>2. \A r \in rows : hqCached'[p][Clean[r.name]] = r.hq
  BY <1>1, StoredHome DEF Settles, Basic
<1>3. \A k : Home(i, k)' = Home(i, k)
  BY <1>1 DEF Home, Sheet
<1>4. SheetKeys(i)' = SheetKeys(i)
  BY <1>1 DEF SheetKeys, Wanted, Items, Sheet
<1>5. \A r \in rows : Clean[r.name] \in SheetKeys(i) => r.hq = Home(i, Clean[r.name])
  BY DEF Homed
<1>6. Homed(i)'
  BY <1>1, <1>2, <1>3, <1>4, <1>5 DEF Homed, HqCachedBy
<1> QED  BY <1>1, <1>6 DEF HomeOK, At, Homing

LEMMA HomeStep ==
    ASSUME Basic, LoneInv, TrueInv, HomeInv, [Next]_vars
    PROVE  HomeInv'
<1> SUFFICES ASSUME NEW j \in Import, Settles(j)' PROVE HomeOK(j)'
  BY DEF HomeInv, HomeOK
<1>0. /\ mix' = mix /\ Is("licensees") /\ faults = 0 /\ faults' = 0 /\ removed = 0
      /\ HomeOK(j)
  BY Keeps, History DEF Settles, Is, Basic, HomeInv
<1>1. import'[j].at \in Ended => HomeOK(j)'
  BY DEF HomeOK, At, Ended, Homing, Working
<1>2. ASSUME NEW i \in Import, NEW p \in Process, NEW s \in mix.sheets, BeginImport(i, p, s)
      PROVE  HomeOK(j)'
  <2>1. BeginsAs(i, p, s)
    BY <1>2, BeginIs
  <2>2. CASE j = i
    BY <2>1, <2>2 DEF BeginsAs, Becomes, HomeOK, At, Homing, Working
  <2>3. CASE j # i
    <3>1. import'[j].alone /\ SameButAlone(j)
      BY <2>1, <2>3 DEF BeginsAs, Settles
    <3>2. ~ UnderWay(j)
      BY <2>1, <2>3, <3>1 DEF BeginsAs
    <3> QED  BY <1>1, <3>1, <3>2 DEF SameButAlone, UnderWay
  <2> QED  BY <2>2, <2>3
<1>3. ASSUME NEW i \in Import, NEW lost \in BOOLEAN, ResolveStep(i, lost)
      PROVE  HomeOK(j)'
  <2>1. Turns(i) /\ UnderWay(i) /\ Counts(lost)
    BY <1>3, AnyTurn
  <2>2. lost = FALSE
    BY <1>0, <2>1 DEF Counts
  <2>3. CASE j # i
    <3>1. import'[j] = import[j] /\ import[j].alone
      BY <2>1, <2>3 DEF Turns, Settles
    <3>2. ~ UnderWay(j)
      BY <2>1, <2>3, <3>1 DEF LoneInv
    <3> QED  BY <1>1, <3>1, <3>2 DEF UnderWay
  <2>4. CASE j = i
    <3>1. Settles(i)
      <4>1. /\ RowsChange(import[i].todo) /\ OneEach(rows')
            /\ import'[i].sheet = import[i].sheet /\ import'[i].alone = import[i].alone
        BY <2>1, <2>4 DEF Turns, Settles
      <4> QED  BY <1>0, <2>4, <4>1, OneEachBefore DEF Settles, Items, Sheet
    <3>2. OneEach(rows') /\ HomeOK(i)
      BY <1>0, <2>4 DEF Settles
    <3>3. StepsOK(i) /\ import[i].failed \in Nat
      BY ImportIs DEF Basic
    <3>4. CASE Prefetch(i, FALSE)
      BY <2>4, <3>1, <3>4, PrefetchHomes
    <3>5. CASE Collect(i, FALSE)
      <4>1. Exact(i)
        BY <3>1, <3>2, <3>5 DEF Collect, HomeOK
      <4>2. removed = 0 => \A p \in Process : TrueCache(cached[p])
        BY DEF TrueInv
      <4> QED  BY <2>4, <3>1, <3>5, <4>1, <4>2, CollectHomes
    <3>6. CASE MoveLicensee(i, FALSE)
      <4>1. Homed(i) /\ MovesHome(i) /\ TodoHome(i)
        BY <3>1, <3>2, <3>6, MoveIs DEF HomeOK, At, Homing
      <4> QED  BY <2>4, <3>6, <4>1, MoveHomes
    <3>7. CASE Insert(i, FALSE)
      <4>1. Homed(i) /\ TodoHome(i) /\ import[i].moves = {}
        BY <3>1, <3>2, <3>7, InsertIs DEF HomeOK, At, Homing
      <4> QED  BY <2>4, <3>1, <3>2, <3>7, <4>1, InsertHomes
    <3>8. CASE Refresh(i, FALSE)
      <4>1. Homed(i) /\ import[i].moves = {}
        BY <3>1, <3>2, <3>8 DEF Refresh, HomeOK, At, Homing
      <4> QED  BY <2>4, <3>1, <3>8, <4>1, RefreshHomes
    <3>9. ~ ReadAgain(i, FALSE) /\ ~ InsertOne(i, FALSE) /\ ~ InsertMinimal(i, FALSE)
      <4>1. /\ ~ At(i, "read_again") /\ ~ At(i, "insert_one") /\ ~ At(i, "insert_minimal")
            /\ ~ Is("companies")
        BY <1>0, <3>3 DEF StepsOK, Is
      <4> QED  BY <4>1, ReadsIs, InsertOneIs, InsertMinimalIs, Zenon
               DEF ReadAgain, InsertOne, InsertMinimal
    <3>10. \/ Prefetch(i, FALSE) \/ Collect(i, FALSE) \/ MoveLicensee(i, FALSE)
           \/ Insert(i, FALSE) \/ Refresh(i, FALSE)
      <4>1. ResolveStep(i, FALSE)
        BY <1>3, <2>2
      <4> QED  BY <3>9, <4>1, Zenon DEF ResolveStep
    <3> QED  BY <3>4, <3>5, <3>6, <3>7, <3>8, <3>10
  <2> QED  BY <2>3, <2>4
<1>4. ASSUME Removes PROVE HomeOK(j)'
  BY <1>0, <1>4, RemoveIs DEF Is
<1>5. ASSUME NamesRest PROVE HomeOK(j)'
  <2>1. OnlyMoves(j) /\ rows' = rows /\ cached' = cached /\ hqCached' = hqCached
    BY <1>5, GoingOn DEF NamesRest
  <2>2. Settles(j)
    BY <1>0, <2>1 DEF Settles, OnlyMoves, Items, Sheet
  <2>3. CASE import'[j].at = import[j].at
    BY <1>0, <2>1, <2>2, <2>3
    DEF HomeOK, OnlyMoves, Exact, Homed, MovesHome, TodoHome, Home, HqCachedBy, SheetKeys,
        Wanted, Items, Sheet, Cached, At
  <2>4. CASE import[j].at \in Working /\ import'[j].at \in Working
    <3>1. Homed(j) /\ import[j].moves = {}
      BY <1>0, <2>2, <2>4 DEF HomeOK, Homing, Working
    <3>2. Homed(j)' /\ import'[j].moves = {}
      BY <2>1, <3>1 DEF OnlyMoves, Homed, Home, HqCachedBy, SheetKeys, Wanted, Items, Sheet
    <3> QED  BY <2>4, <3>2 DEF HomeOK, At, Working
  <2> QED  BY <1>1, <2>1, <2>3, <2>4 DEF OnlyMoves
<1> QED  BY <1>2, <1>3, <1>4, <1>5, NamesNext

(***************************************************************************)
(* The inductive invariant of the licensees: that of the names, and where  *)
(* each licensee is to go.                                                 *)
(***************************************************************************)
FollowInv == NamesInv /\ HomeInv

LEMMA FollowInvInitially == Init => FollowInv
<1> SUFFICES ASSUME Init PROVE FollowInv
  OBVIOUS
<1>1. \A i \in Import : import[i].at = "idle"
  BY DEF Init, MasterInit, NewImport
<1>2. HomeInv
  BY <1>1 DEF HomeInv, HomeOK, At, Homing, Working
<1> QED  BY <1>2, NamesInvInitially DEF FollowInv

LEMMA FollowInvStep == FollowInv /\ [Next]_vars => FollowInv'
  BY NamesInvStep, HomeStep DEF FollowInv, NamesInv, TableInv

LEMMA FollowInvFollows == FollowInv => LicenseeFollowsSheet
<1> SUFFICES ASSUME FollowInv, NEW i \in Import,
                    Is("licensees"), Resolved(i), import[i].alone, faults = 0, OneEach(rows),
                    \A t \in Items(i) : t.hq # NoHq,
                    NEW t \in Items(i), NEW r \in rows, r.name = t.name
             PROVE  /\ r.hq = LastHq(Sheet(i), Clean[t.name])
                    /\ hqCached[import[i].p][Clean[t.name]] = r.hq
  BY DEF LicenseeFollowsSheet
<1>1. Basic /\ Clean[r.name] # NoKey
  BY DEF FollowInv, NamesInv, TableInv, Basic
<1>2. Homed(i) /\ import[i].moves = {}
  BY DEF FollowInv, HomeInv, HomeOK, Settles, Resolved, Homing, Working
<1>3. t.name \in Wanted(i)
  BY <1>1, ItemWanted DEF Resolved, At, Working
<1>4. Clean[r.name] \in SheetKeys(i)
  BY <1>3 DEF SheetKeys
<1> QED  BY <1>2, <1>4 DEF Homed, Home, HqCachedBy

(***************************************************************************)
(* _bulk_resolve_licensees ends with what the sheet says: after an import  *)
(* that ran alone and met no failure, each licensee of the sheet has the   *)
(* headquarters the sheet gives it last, in the table and in the cache,    *)
(* where a licensee has one row.                                           *)
(***************************************************************************)
THEOREM LicenseeFollowsSheetCorrect == Spec => []LicenseeFollowsSheet
<1>1. Init => FollowInv
  BY FollowInvInitially
<1>2. FollowInv /\ [Next]_vars => FollowInv'
  BY FollowInvStep
<1>3. FollowInv => LicenseeFollowsSheet
  BY FollowInvFollows
<1> QED  BY <1>1, <1>2, <1>3, PTL DEF Spec
=============================================================================
