--------------------------- MODULE SalesDeskProofs ---------------------------
(***************************************************************************)
(* Proofs about SalesDesk: whatever the sheets, the persons, User          *)
(* Management and the calls that fail, a sale is counted for one manager,  *)
(* the one its sheet names, and published where its people work; what      *)
(* tables, caches and requests hold has its type; and between imports the  *)
(* caches show the sales there are.                                        *)
(***************************************************************************)
EXTENDS NamesProofs

-----------------------------------------------------------------------------
(***************************************************************************)
(* Who a label means.                                                      *)
(***************************************************************************)
LEMMA PersonsAreFinite ==
    ASSUME NEW d, ListsAll(d)
    PROVE  IsFiniteSet(Person)
<1>1. d.order \in Seq(Person) /\ \A u \in Person : \E k \in DOMAIN d.order : d.order[k] = u
  BY DEF ListsAll, Directory
<1>2. Len(d.order) \in Nat /\ d.order \in [1 .. Len(d.order) -> Person]
  BY <1>1
<1>3. d.order \in Surjection(1 .. Len(d.order), Person)
  BY <1>1, <1>2 DEF Surjection
<1>4. IsFiniteSet(1 .. Len(d.order))
  BY <1>2, FS_Interval
<1> QED  BY <1>3, <1>4, FS_Surjection

\* Each person has a row of its own.
LEMMA RowIs ==
    ASSUME NEW d, ListsAll(d), NEW u \in Person
    PROVE  RowOf(d, u) \in Nat /\ RowOf(d, u) \in DOMAIN d.order /\ d.order[RowOf(d, u)] = u
<1>1. d.order \in Seq(Person) /\ \E k \in DOMAIN d.order : d.order[k] = u
  BY DEF ListsAll, Directory
<1>2. DOMAIN d.order = 1 .. Len(d.order) /\ Len(d.order) \in Nat
  BY <1>1
<1> QED  BY <1>1, <1>2 DEF RowOf

LEMMA MeantArePersons ==
    ASSUME NEW l
    PROVE  Meant(l) \subseteq Person /\ (l = Blank => Meant(l) = {})
  BY DEF Meant, Claims

\* Of several persons one comes first by row, and one comes first.
LEMMA FirstByRow ==
    ASSUME NEW d, ListsAll(d), NEW S \in SUBSET Person, S # {}
    PROVE  \E u \in S : \A v \in S : RowOf(d, u) <= RowOf(d, v)
<1> DEFINE N == {RowOf(d, u) : u \in S}
<1>1. N \subseteq Nat /\ N # {}
  BY RowIs
<1>2. PICK m \in N : \A n \in N : m <= n
  BY <1>1, LeastExists
<1> QED  BY <1>2

LEMMA FirstOfAll ==
    ASSUME NEW d, ListsAll(d), NEW S \in SUBSET Person, S # {}
    PROVE  \E u \in S : \A v \in S : Precedes(d, u, v)
<1> DEFINE A == S \cap d.active
<1>1. CASE A # {}
  <2>1. PICK u \in A : \A v \in A : RowOf(d, u) <= RowOf(d, v)
    BY <1>1, FirstByRow
  <2>2. \A v \in S : Precedes(d, u, v)
    BY <2>1 DEF Precedes
  <2> QED  BY <2>1, <2>2
<1>2. CASE A = {}
  <2>1. PICK u \in S : \A v \in S : RowOf(d, u) <= RowOf(d, v)
    BY FirstByRow
  <2>2. \A v \in S : Precedes(d, u, v)
    BY <1>2, <2>1 DEF Precedes
  <2> QED  BY <2>1, <2>2
<1> QED  BY <1>1, <1>2

LEMMA UserIdIs ==
    ASSUME NEW d, ListsAll(d), NEW l
    PROVE  /\ Meant(l) = {} => UserId(d, l) = Nobody /\ UserIdByRow(d, l) = Nobody
           /\ Meant(l) # {} =>
                 /\ UserId(d, l) \in Meant(l)
                 /\ \A v \in Meant(l) : Precedes(d, UserId(d, l), v)
                 /\ UserIdByRow(d, l) \in Meant(l)
                 /\ \A v \in Meant(l) : RowOf(d, UserIdByRow(d, l)) <= RowOf(d, v)
           /\ UserId(d, l) \in Person \cup {Nobody}
           /\ UserIdByRow(d, l) \in Person \cup {Nobody}
           /\ UserId(d, l) # Nobody => l # Blank
<1>0. Meant(l) \in SUBSET Person /\ (l = Blank => Meant(l) = {})
  BY MeantArePersons
<1>1. CASE Meant(l) = {}
  BY <1>1 DEF UserId, UserIdByRow
<1>2. CASE Meant(l) # {}
  <2>1. \E u \in Meant(l) : \A v \in Meant(l) : Precedes(d, u, v)
    BY <1>0, <1>2, FirstOfAll
  <2>2. \E u \in Meant(l) : \A v \in Meant(l) : RowOf(d, u) <= RowOf(d, v)
    BY <1>0, <1>2, FirstByRow
  <2>3. UserId(d, l) \in Meant(l) /\ \A v \in Meant(l) : Precedes(d, UserId(d, l), v)
    BY <1>2, <2>1 DEF UserId
  <2>4. /\ UserIdByRow(d, l) \in Meant(l)
        /\ \A v \in Meant(l) : RowOf(d, UserIdByRow(d, l)) <= RowOf(d, v)
    BY <1>2, <2>2 DEF UserIdByRow
  <2> QED  BY <1>0, <1>2, <2>3, <2>4
<1> QED  BY <1>1, <1>2

\* Somebody active who is first by row is first.
LEMMA FirstWhenActive ==
    ASSUME NEW d, ListsAll(d), NEW l, NEW u \in d.active, UserIdByRow(d, l) = u, u # Nobody
    PROVE  UserId(d, l) = u
<1>1. /\ Meant(l) # {} /\ u \in Meant(l) /\ Meant(l) \subseteq Person
      /\ \A v \in Meant(l) : RowOf(d, u) <= RowOf(d, v)
  BY UserIdIs, MeantArePersons
<1> DEFINE w == UserId(d, l)
<1>2. w \in Meant(l) /\ Precedes(d, w, u)
  BY <1>1, UserIdIs
<1> HIDE DEF w
<1>3. RowOf(d, w) <= RowOf(d, u) /\ RowOf(d, u) <= RowOf(d, w)
  BY <1>1, <1>2 DEF Precedes
<1>4. RowOf(d, w) = RowOf(d, u)
  BY <1>1, <1>2, <1>3, RowIs
<1>5. w = u
  BY <1>1, <1>2, <1>4, RowIs
<1> QED  BY <1>5 DEF w

-----------------------------------------------------------------------------
(***************************************************************************)
(* For whom the report counts sales.                                       *)
(***************************************************************************)
LEMMA RolesVisited ==
    ASSUME NEW d, ListsAll(d), NEW o \in Orders(d)
    PROVE  /\ DOMAIN o \subseteq Nat
           /\ \A k \in DOMAIN o : o[k] \in d.roles
           /\ \A j, k \in DOMAIN o : o[j] = o[k] => j = k
           /\ \A t \in d.roles : \E k \in DOMAIN o : o[k] = t
<1> DEFINE N == Cardinality(d.roles)
<1>1. IsFiniteSet(d.roles)
  BY PersonsAreFinite, FS_Subset DEF ListsAll, Directory
<1>2. N \in Nat
  BY <1>1, FS_CardinalityType
<1>3. o \in [1 .. N -> d.roles] /\ \A j, k \in DOMAIN o : o[j] = o[k] => j = k
  BY DEF Orders
<1>4. o \in Injection(1 .. N, d.roles)
  BY <1>3 DEF Injection, IsInjective
<1>5. IsFiniteSet(1 .. N) /\ Cardinality(1 .. N) = N
  BY <1>2, FS_Interval
<1> HIDE DEF N
<1>6. o \in Surjection(1 .. N, d.roles)
  BY <1>1, <1>4, <1>5, FS_Injection DEF N
<1> QED  BY <1>2, <1>3, <1>6 DEF Surjection

\* A set without two elements.
LEMMA NoTwo ==
    ASSUME NEW S, \A x, y \in S : x = y
    PROVE  IsFiniteSet(S) /\ Cardinality(S) <= 1
<1>1. CASE S = {}
  BY <1>1, FS_EmptySet
<1>2. ASSUME NEW x \in S PROVE IsFiniteSet(S) /\ Cardinality(S) <= 1
  <2>1. S = {x}
    BY <1>2
  <2>2. IsFiniteSet({x}) /\ Cardinality({x}) = 1
    BY FS_Singleton
  <2> QED  BY <2>1, <2>2
<1>3. S = {} \/ \E x : x \in S
  OBVIOUS
<1> QED  BY <1>1, <1>2, <1>3, Zenon

LEMMA AtMostOne ==
    ASSUME NEW S, IsFiniteSet(S), Cardinality(S) <= 1, NEW x \in S, NEW y \in S
    PROVE  x = y
<1>1. Cardinality(S) \in Nat /\ (Cardinality(S) = 0 <=> S = {})
  BY FS_CardinalityType, FS_EmptySet
<1>2. Cardinality(S) = 1
  BY <1>1
<1> QED  BY <1>2, FS_Singleton

LEMMA CountedOnce ==
    ASSUME ListsAll(directory), NEW o \in Orders(directory), NEW u, ~ Doubled(u)
    PROVE  Cardinality(MemberToTsms(directory, o, u)) <= 1
<1> DEFINE D == Direct(directory, o, u)
           over == {k \in Heads(o) : o[k] # u /\ u \in Team(directory, o, o[k])}
<1>1. MemberToTsms(directory, o, u) = D
  BY DEF MemberToTsms, Doubled
<1>2. Heads(o) \subseteq DOMAIN o
  BY DEF Heads
<1>3. \A x, y \in Owner(directory, o, u) : x = y
  <2>1. \A j, k \in over : j <= k /\ k <= j => j = k
    BY <1>2, RolesVisited
  <2> QED  BY <2>1 DEF Owner
<1>4. CASE u \notin directory.roles
  <2>1. \A k \in Heads(o) : o[k] # u
    BY <1>2, <1>4, RolesVisited
  <2>2. D = Owner(directory, o, u)
    BY <2>1 DEF Direct
  <2> QED  BY <1>1, <1>3, <2>2, NoTwo
<1>5. CASE u \in directory.roles
  <2>1. Rows(u) = {}
    BY <1>5 DEF Doubled
  <2>2. \A t : u \notin Team(directory, o, t)
    BY <2>1 DEF Rows, Team
  <2>3. Owner(directory, o, u) = {}
    BY <2>2 DEF Owner
  <2>4. \A x \in D : x = u
    BY <2>3 DEF Direct
  <2> QED  BY <1>1, <2>4, NoTwo
<1> QED  BY <1>4, <1>5

\* Managers of different names are all heads.
LEMMA AllHeads ==
    ASSUME ListsAll(directory), NEW o \in Orders(directory), ~ Namesakes
    PROVE  (\A u : Primary(o, u) = u) /\ Heads(o) = DOMAIN o
<1>1. ASSUME NEW u PROVE Primary(o, u) = u
  <2> DEFINE same == {k \in DOMAIN o : FullName[o[k]] = FullName[u]}
             first == CHOOSE k \in same : \A j \in same : k <= j
             dot == {k \in same \ {first} : o[k] \in DotCom}
  <2>1. CASE \A k \in DOMAIN o : o[k] # u
    BY <2>1 DEF Primary
  <2>2. ASSUME NEW k \in DOMAIN o, o[k] = u PROVE Primary(o, u) = u
    <3>1. same = {k}
      BY <2>2, RolesVisited DEF Namesakes
    <3>2. k \in Nat
      BY RolesVisited
    <3>3. first = k
      BY <3>1, <3>2
    <3>4. dot = {}
      BY <3>1, <3>3
    <3>5. Primary(o, u) = o[IF dot = {} THEN first
                            ELSE CHOOSE n \in dot : \A j \in dot : j <= n]
      BY <2>2 DEF Primary
    <3> QED  BY <2>2, <3>3, <3>4, <3>5
  <2> QED  BY <2>1, <2>2
<1>2. \A k \in DOMAIN o : Primary(o, o[k]) = o[k]
  BY <1>1
<1>3. Heads(o) = DOMAIN o
  BY <1>2, Zenon DEF Heads
<1> QED  BY <1>1, <1>3

\* A person with one manager has the one of his row.
LEMMA OneManager ==
    ASSUME ListsAll(directory), NEW u, Cardinality(Rows(u)) <= 1, Manager(directory, u) # Nobody
    PROVE  \E k \in Rows(u) : /\ Rows(u) = {k}
                              /\ Manager(directory, u) = directory.mapping[k].tsm
<1> DEFINE M == directory.mapping
           mine == {k \in DOMAIN M : M[k].ase = u /\ {u, M[k].tsm} \subseteq directory.active}
           last == CHOOSE k \in mine : \A j \in mine : j <= k
<1>1. mine # {} /\ Manager(directory, u) = M[last].tsm
  BY DEF Manager
<1>2. mine \subseteq Rows(u)
  BY DEF Rows
<1>3. DOMAIN M = 1 .. Len(M) /\ Len(M) \in Nat
  BY DEF ListsAll, Directory
<1>4. IsFiniteSet(Rows(u))
  <2> DEFINE N == Len(M)
  <2>1. IsFiniteSet(1 .. N)
    BY <1>3, FS_Interval
  <2>2. Rows(u) \in SUBSET (1 .. N)
    BY <1>3 DEF Rows
  <2> QED  BY <2>1, <2>2, FS_Subset
<1>5. PICK k \in mine : TRUE
  BY <1>1
<1>6. Rows(u) = {k}
  BY <1>2, <1>4, <1>5, AtMostOne
<1>7. last = k
  <2>1. mine = {k} /\ k \in Nat
    BY <1>2, <1>3, <1>5, <1>6
  <2> QED  BY <2>1
<1> HIDE DEF last, mine
<1> QED  BY <1>1, <1>2, <1>5, <1>6, <1>7

\* The manager that the row of a sheet names, or nobody, is the one that User
\* Management knows.
LEMMA ReportsTo ==
    ASSUME ListsAll(directory), NEW row, ReportingErrors(directory, row) = {},
           UserId(directory, row.ase) # Nobody
    PROVE  LET a == UserId(directory, row.ase)
               m == UserId(directory, row.asm)
           IN  \/ m = a
               \/ m = Nobody /\ (a \in Tsms(directory) \/ Manager(directory, a) # Nobody)
               \/ m # Nobody /\ m = Manager(directory, a)
<1> DEFINE a == UserId(directory, row.ase)
           m == UserId(directory, row.asm)
           same == row.ase = row.asm
           dual == same \/ a \in Tsms(directory) \/ m = a
<1>1. row.ase # Blank /\ a # Nobody
  BY UserIdIs
<1>2. row.asm = Blank \/ m # Nobody
  BY <1>1 DEF ReportingErrors
<1>3. /\ When(dual /\ ~same /\ m \notin {Nobody, a, Manager(directory, a)},
              "ASE_TSM_MAPPING_MISMATCH") = {}
      /\ When(~dual /\ Manager(directory, a) = Nobody, "MISSING_ASE_TSM_MAPPING") = {}
      /\ When(~dual /\ Manager(directory, a) # Nobody /\ m \notin {Nobody, Manager(directory, a)},
              "ASE_TSM_MAPPING_MISMATCH") = {}
  BY <1>1, <1>2 DEF ReportingErrors
<1>4. same => m = a
  OBVIOUS
<1> HIDE DEF a, m
<1> QED  BY <1>3, <1>4 DEF When, a, m

\* While the sheet is as User Management says, sales count for the manager
\* that it names.
LEMMA CountedFor ==
    ASSUME ListsAll(directory), NEW o \in Orders(directory), NEW row,
           ReportingErrors(directory, row) = {}, NEW a, a = UserId(directory, row.ase),
           a # Nobody, ~ Namesakes, ~ Doubled(a), Cardinality(Rows(a)) <= 1,
           NEW target, target \in directory.roles,
           target = IF UserId(directory, row.asm) = Nobody THEN a
                    ELSE UserId(directory, row.asm)
    PROVE  MemberToTsms(directory, o, a) = {target}
<1> DEFINE m == UserId(directory, row.asm)
           d == directory
           over == {k \in Heads(o) : o[k] # a /\ a \in Team(d, o, o[k])}
<1>1. MemberToTsms(d, o, a) = Direct(d, o, a)
  BY DEF MemberToTsms, Doubled
<1>2. (\A u : Primary(o, u) = u) /\ Heads(o) = DOMAIN o
  BY AllHeads
<1>3. /\ DOMAIN o \subseteq Nat
      /\ \A k \in DOMAIN o : o[k] \in d.roles
      /\ \A j, k \in DOMAIN o : o[j] = o[k] => j = k
      /\ \A t \in d.roles : \E k \in DOMAIN o : o[k] = t
  BY RolesVisited
<1>4. \/ m = a
      \/ m = Nobody
      \/ m # Nobody /\ m = Manager(d, a)
  BY ReportsTo
<1>5. Direct(d, o, a) = {o[k] : k \in {k \in Heads(o) : o[k] = a}} \cup Owner(d, o, a)
  BY DEF Direct
<1>6. Owner(d, o, a) = {o[k] : k \in {k \in over : \A j \in over : k <= j}}
  BY DEF Owner
<1>7. CASE a \in d.roles
  <2>1. Rows(a) = {}
    BY <1>7 DEF Doubled
  <2>2. \A t : a \notin Team(d, o, t)
    BY <2>1 DEF Rows, Team
  <2>3. Owner(d, o, a) = {}
    BY <1>6, <2>2
  <2>4. Manager(d, a) = Nobody
    BY <2>1, OneManager
  <2>5. target = a
    BY <1>4, <2>4
  <2>6. {o[k] : k \in {k \in Heads(o) : o[k] = a}} = {a}
    BY <1>2, <1>3, <1>7
  <2> QED  BY <1>1, <1>5, <2>3, <2>5, <2>6
<1>8. CASE a \notin d.roles
  <2>1. m # Nobody /\ m = Manager(d, a) /\ target = m /\ m # a
    BY <1>4, <1>8
  <2>2. PICK n \in Rows(a) : Rows(a) = {n} /\ m = d.mapping[n].tsm
    BY <2>1, OneManager
  <2>3. \A t : a \in Team(d, o, t) <=> t = m
    BY <1>2, <2>2 DEF Team, Rows
  <2>4. PICK j \in DOMAIN o : o[j] = m
    BY <1>3, <2>1
  <2>5. over = {j}
    BY <1>2, <1>3, <2>1, <2>3, <2>4
  <2>6. j \in Nat
    BY <1>3
  <2> HIDE DEF over
  <2>7. Owner(d, o, a) = {m}
    BY <1>6, <2>4, <2>5, <2>6
  <2>8. {o[k] : k \in {k \in Heads(o) : o[k] = a}} = {}
    BY <1>2, <1>3, <1>8
  <2> QED  BY <1>1, <1>5, <2>1, <2>7, <2>8
<1> QED  BY <1>7, <1>8

-----------------------------------------------------------------------------
(***************************************************************************)
(* Where people work.                                                      *)
(***************************************************************************)
LEMMA FiniteImage ==
    ASSUME NEW N \in Nat, NEW T, NEW f \in [1 .. N -> T]
    PROVE  IsFiniteSet({f[k] : k \in 1 .. N})
<1> DEFINE S == {f[k] : k \in 1 .. N}
<1>1. f \in Surjection(1 .. N, S)
  BY DEF Surjection
<1>2. IsFiniteSet(1 .. N)
  BY FS_Interval
<1> HIDE DEF S
<1>3. IsFiniteSet(S)
  BY <1>1, <1>2, FS_Surjection
<1> QED  BY <1>3 DEF S

PlacedOK(d, s) == SheetErrors(d, s) = {} /\ \A k \in DOMAIN s : PlaceErrors(d, s[k]) = {}

\* The rows of a sheet that register a person in a headquarters.
NamedIn(d, s, u) ==
    {k \in DOMAIN s : /\ s[k].hq # NoPlace
                      /\ \E l \in {s[k].ase, s[k].asm} : UserIdByRow(d, l) = u}

FirstOf(S) == CHOOSE k \in S : \A j \in S : k <= j

LEMMA FirstRow ==
    ASSUME mix \in Mixes, NEW s \in mix.sheets, NEW S \in SUBSET DOMAIN s, S # {}
    PROVE  FirstOf(S) \in S
<1>1. S \subseteq Nat
  BY SheetFacts
<1>2. \E m \in S : \A n \in S : m <= n
  BY <1>1, LeastExists
<1> QED  BY <1>2 DEF FirstOf

\* The ways in which a sheet names somebody are few.
LEMMA WaysAreFinite ==
    ASSUME mix \in Mixes, NEW i \in Import, Sheet(i) \in mix.sheets, NEW u
    PROVE  LET ways == {w \in {"ase", "asm"} \X Items(i) : UserId(directory, w[2][w[1]]) = u}
           IN  /\ IsFiniteSet({<<w[1], w[2][w[1]]>> : w \in ways})
               /\ IsFiniteSet({w[2].hq : w \in ways})
<1> DEFINE s == Sheet(i)
           N == Len(s)
           ways == {w \in {"ase", "asm"} \X Items(i) : UserId(directory, w[2][w[1]]) = u}
           a == [k \in 1 .. N |-> <<"ase", s[k].ase>>]
           m == [k \in 1 .. N |-> <<"asm", s[k].asm>>]
           h == [k \in 1 .. N |-> s[k].hq]
<1>1. N \in Nat /\ DOMAIN s = 1 .. N
  BY SheetFacts
<1>2. a \in [1 .. N -> {a[k] : k \in 1 .. N}] /\ m \in [1 .. N -> {m[k] : k \in 1 .. N}]
      /\ h \in [1 .. N -> {h[k] : k \in 1 .. N}]
  OBVIOUS
<1>3. \A w \in ways : \E k \in 1 .. N : w[2] = s[k] /\ w[1] \in {"ase", "asm"}
  BY <1>1 DEF Items
<1>4. {<<w[1], w[2][w[1]]>> : w \in ways} \subseteq {a[k] : k \in 1 .. N} \cup {m[k] : k \in 1 .. N}
  BY <1>3
<1>5. {w[2].hq : w \in ways} \subseteq {h[k] : k \in 1 .. N}
  BY <1>3
<1> HIDE DEF a, m, h, N, ways
<1>6. IsFiniteSet({a[k] : k \in 1 .. N}) /\ IsFiniteSet({m[k] : k \in 1 .. N})
      /\ IsFiniteSet({h[k] : k \in 1 .. N})
  BY <1>1, <1>2, FiniteImage
<1>7. IsFiniteSet({a[k] : k \in 1 .. N} \cup {m[k] : k \in 1 .. N})
  BY <1>6, FS_Union
<1>8. /\ IsFiniteSet({<<w[1], w[2][w[1]]>> : w \in ways})
      /\ IsFiniteSet({w[2].hq : w \in ways})
  BY <1>4, <1>5, <1>6, <1>7, FS_Subset
<1> QED  BY <1>8 DEF ways

\* A row of a sheet that names somebody and a headquarters.
Names(i, k, u) ==
    /\ k \in DOMAIN Sheet(i) /\ Sheet(i)[k].hq # NoPlace
    /\ \E f \in {"ase", "asm"} : UserId(directory, Sheet(i)[k][f]) = u

LEMMA SamePlace ==
    ASSUME mix \in Mixes, NEW i \in Import, Sheet(i) \in mix.sheets, ListsAll(directory),
           SheetErrors(directory, Sheet(i)) = {}, NEW u \in Person, Approved(directory, u) = {},
           NamedOnce(i, u), NEW j, Names(i, j, u), NEW k, Names(i, k, u)
    PROVE  Sheet(i)[j].hq = Sheet(i)[k].hq
<1>a. PICK f \in {"ase", "asm"} : UserId(directory, Sheet(i)[j][f]) = u
  BY DEF Names
<1>b. PICK g \in {"ase", "asm"} : UserId(directory, Sheet(i)[k][g]) = u
  BY DEF Names
<1>c. /\ j \in DOMAIN Sheet(i) /\ Sheet(i)[j].hq # NoPlace
      /\ k \in DOMAIN Sheet(i) /\ Sheet(i)[k].hq # NoPlace
  BY DEF Names
<1> DEFINE s == Sheet(i)
           ways == {w \in {"ase", "asm"} \X Items(i) : UserId(directory, w[2][w[1]]) = u}
           L == {<<w[1], w[2][w[1]]>> : w \in ways}
           H == {w[2].hq : w \in ways}
<1>1. <<f, s[j]>> \in ways /\ <<g, s[k]>> \in ways
  BY <1>a, <1>b, <1>c DEF Items
<1>2. /\ <<f, s[j][f]>> \in L /\ <<g, s[k][g]>> \in L
      /\ s[j].hq \in H /\ s[k].hq \in H
  BY <1>1
<1>3. IsFiniteSet(L) /\ IsFiniteSet(H)
  BY WaysAreFinite
<1>4. Cardinality(L) <= 1 \/ Cardinality(H) <= 1
  BY DEF NamedOnce
<1>5. CASE Cardinality(H) <= 1
  <2> HIDE DEF H
  <2> QED  BY <1>2, <1>3, <1>5, AtMostOne
<1>6. CASE Cardinality(L) <= 1
  <2> DEFINE l == s[j][f]
  <2>1. f = g /\ s[k][g] = l
    <3> DEFINE x == <<f, s[j][f]>>
               y == <<g, s[k][g]>>
    <3>1. x = y
      <4> HIDE DEF x, y, L
      <4> QED  BY <1>2, <1>3, <1>6, AtMostOne DEF x, y
    <3> QED  BY <3>1
  <2>2. l # Blank /\ UserId(directory, l) = u /\ u # Nobody
    BY <1>a, UserIdIs, LabelAssumption
  <2>3. s[j].hq \in PlacesOf(s, f, l) /\ s[k].hq \in PlacesOf(s, f, l)
    BY <1>c, <2>1 DEF PlacesOf
  <2>4. ASSUME s[j].hq # s[k].hq PROVE FALSE
    <3>1. Several(PlacesOf(s, f, l)) /\ ~ PlacesOf(s, f, l) \subseteq {} /\ ~ Several({})
      BY <2>3, <2>4 DEF Several
    <3>2. l \in {s[n][f] : n \in DOMAIN s} \ {Blank}
      BY <1>c, <2>2
    <3>3. CASE f = "ase"
      BY <2>2, <3>1, <3>2, <3>3 DEF SheetErrors, When
    <3>4. CASE f = "asm"
      BY <2>2, <3>1, <3>2, <3>4 DEF SheetErrors, When
    <3> QED  BY <3>3, <3>4
  <2> QED  BY <2>4
<1> QED  BY <1>4, <1>5, <1>6

\* Where an accepted sheet has somebody's sales: where he is registered or, if
\* he is not, in the place that he is going to be registered in.
LEMMA RegisteredThere ==
    ASSUME mix \in Mixes, NEW i \in Import, Sheet(i) \in mix.sheets, ListsAll(directory),
           PlacedOK(directory, Sheet(i)), NEW k \in DOMAIN Sheet(i),
           NEW f \in {"ase", "asm"}, NEW u, u = UserId(directory, Sheet(i)[k][f]),
           u # Nobody, Sheet(i)[k].hq # NoPlace, u \in directory.active,
           u = UserIdByRow(directory, Sheet(i)[k][f]), NamedOnce(i, u)
    PROVE  IF directory.places[u] = {}
           THEN /\ NamedIn(directory, Sheet(i), u) # {}
                /\ Sheet(i)[FirstOf(NamedIn(directory, Sheet(i), u))].hq = Sheet(i)[k].hq
           ELSE Sheet(i)[k].hq \in directory.places[u]
<1> DEFINE s == Sheet(i)
           named == NamedIn(directory, s, u)
<1>1. u \in Person /\ Approved(directory, u) = directory.places[u]
  BY UserIdIs DEF Approved
<1>2. CASE directory.places[u] # {}
  <2>1. PlaceErrors(directory, s[k]) = {}
    BY DEF PlacedOK
  <2>2. CASE f = "ase"
    BY <1>1, <1>2, <2>1, <2>2 DEF PlaceErrors, When
  <2>3. CASE f = "asm"
    BY <1>1, <1>2, <2>1, <2>3 DEF PlaceErrors, When
  <2> QED  BY <1>2, <2>2, <2>3
<1>3. CASE directory.places[u] = {}
  <2>1. k \in named
    BY DEF NamedIn
  <2>2. FirstOf(named) \in named
    <3>1. named \in SUBSET DOMAIN s /\ named # {}
      BY <2>1 DEF NamedIn
    <3> HIDE DEF named, s
    <3> QED  BY <3>1, FirstRow DEF s
  <2> DEFINE j == FirstOf(named)
  <2> HIDE DEF j
  <2>3. /\ j \in DOMAIN s /\ s[j].hq # NoPlace
        /\ \E l \in {s[j].ase, s[j].asm} : UserIdByRow(directory, l) = u
    BY <2>2 DEF NamedIn, j
  <2>4. \E g \in {"ase", "asm"} : UserIdByRow(directory, s[j][g]) = u
    BY <2>3
  <2>5. \E g \in {"ase", "asm"} : UserId(directory, s[j][g]) = u
    BY <2>4, FirstWhenActive, Zenon
  <2>6. s[j].hq = s[k].hq
    <3>1. SheetErrors(directory, Sheet(i)) = {} /\ Approved(directory, u) = {} /\ u \in Person
      BY <1>1, <1>3 DEF PlacedOK
    <3>2. Names(i, j, u) /\ Names(i, k, u)
      BY <2>3, <2>5 DEF Names
    <3> QED  BY <3>1, <3>2, SamePlace
  <2> QED  BY <1>3, <2>1, <2>6 DEF j
<1> QED  BY <1>2, <1>3

-----------------------------------------------------------------------------
(***************************************************************************)
(* Who is registered where says nothing of who a label means or whom one   *)
(* reports to.                                                             *)
(***************************************************************************)
SamePeople(d, e) ==
    /\ e.order = d.order /\ e.active = d.active
    /\ e.roles = d.roles /\ e.mapping = d.mapping

LEMMA SameMeaning ==
    ASSUME NEW d, NEW e, ListsAll(d), ListsAll(e), SamePeople(d, e), NEW l
    PROVE  UserId(e, l) = UserId(d, l) /\ UserIdByRow(e, l) = UserIdByRow(d, l)
<1>1. \A u : RowOf(e, u) = RowOf(d, u)
  BY DEF SamePeople, RowOf
<1>2. \A u, v : Precedes(e, u, v) <=> Precedes(d, u, v)
  BY <1>1 DEF SamePeople, Precedes
<1>3. \A u, v \in Person : RowOf(d, u) <= RowOf(d, v) /\ RowOf(d, v) <= RowOf(d, u) => u = v
  BY RowIs
<1>4. \A u, v \in Person : Precedes(d, u, v) /\ Precedes(d, v, u) => u = v
  BY <1>3 DEF Precedes
<1>5. CASE Meant(l) = {}
  BY <1>5, UserIdIs
<1>6. CASE Meant(l) # {}
  <2> DEFINE w == UserId(d, l)
             x == UserId(e, l)
             y == UserIdByRow(d, l)
             z == UserIdByRow(e, l)
  <2>1. /\ w \in Meant(l) /\ \A v \in Meant(l) : Precedes(d, w, v)
        /\ x \in Meant(l) /\ \A v \in Meant(l) : Precedes(e, x, v)
        /\ y \in Meant(l) /\ \A v \in Meant(l) : RowOf(d, y) <= RowOf(d, v)
        /\ z \in Meant(l) /\ \A v \in Meant(l) : RowOf(e, z) <= RowOf(e, v)
    BY <1>6, UserIdIs
  <2>2. Meant(l) \subseteq Person
    BY MeantArePersons
  <2> HIDE DEF w, x, y, z
  <2>3. w = x
    BY <1>2, <1>4, <2>1, <2>2
  <2>4. y = z
    BY <1>1, <1>3, <2>1, <2>2
  <2> QED  BY <2>3, <2>4 DEF w, x, y, z
<1> QED  BY <1>5, <1>6

LEMMA SameReporting ==
    ASSUME NEW d, NEW e, ListsAll(d), ListsAll(e), SamePeople(d, e), NEW row
    PROVE  ReportingErrors(e, row) = ReportingErrors(d, row)
<1>1. /\ UserId(e, row.ase) = UserId(d, row.ase) /\ UserId(e, row.asm) = UserId(d, row.asm)
  BY SameMeaning
<1>2. Tsms(e) = Tsms(d)
  BY DEF SamePeople, Tsms
<1>3. \A u : Manager(e, u) = Manager(d, u)
  BY DEF SamePeople, Manager
<1> QED  BY <1>1, <1>2, <1>3 DEF ReportingErrors

-----------------------------------------------------------------------------
(***************************************************************************)
(* Where an accepted import is, and the steps it takes.                    *)
(***************************************************************************)
Accepted   == {"publish", "credit"} \cup Publishing \cup AfterPublishing
Published  == {"credit"} \cup Publishing \cup AfterPublishing
Counted    == Publishing \cup AfterPublishing
Registered == (Publishing \ {"sync"}) \cup AfterPublishing
Summarised == (Publishing \ {"sync", "aggregate"}) \cup AfterPublishing

Through(i, labels) == mix.until = "done" /\ import[i].at \in labels

DeskRest == /\ facts' = facts /\ summary' = summary /\ credited' = credited
            /\ directory' = directory /\ edited' = edited /\ mix' = mix

\* Import i turns to another label, the others rest.
Turned(i, to) ==
    /\ import'[i].at = to /\ import'[i].sheet = import[i].sheet
    /\ import'[i].alone = import[i].alone
    /\ \A j \in Import \ {i} : import'[j] = import[j]
    /\ mix' = mix /\ edited' = edited

LEMMA FollowsIs ==
    ASSUME Basic, NEW i \in Import, NEW from, NEW to, Follows(i, from, to),
           mix' = mix, edited' = edited
    PROVE  import[i].at = from /\ Turned(i, to)
<1>1. import[i] \in ImportState /\ import \in [Import -> ImportState]
  BY ImportIs DEF Basic, MasterTypeOK
<1>2. import' = [import EXCEPT ![i].at = to] /\ import[i].at = from
  BY DEF Follows, At
<1> QED  BY <1>1, <1>2 DEF Turned, ImportState

\* A sheet is accepted as User Management is, or without its headquarters if
\* they could not be read.
Validated(i) ==
    /\ import[i].at = "resolved" /\ DeskRest
    /\ \/ Turned(i, "refused") \/ Turned(i, "failed")
       \/ /\ Turned(i, "publish") /\ mix.until = "done"
          /\ \E d \in {directory, WithoutPlaces(directory)} : \E missed :
                 Errors(d, Sheet(i), missed) = {} /\ (d = directory \/ faults' # 0)

Publishes(i) ==
    /\ import[i].at = "publish" /\ Turned(i, "credit")
    /\ facts' = facts \cup Sales(i)
    /\ summary' = summary /\ credited' = credited /\ directory' = directory

Withdraws(i) ==
    /\ import[i].at \in {"publish", "credit", "aggregate"} /\ Turned(i, "withdrawn")
    /\ facts' = {s \in facts : s.import # i}
    /\ credited' = {s \in credited : s.import # i}
    /\ summary' = summary /\ directory' = directory

CreditsSome(i) ==
    /\ import[i].at = "credit" /\ Turned(i, "sync")
    /\ credited' \subseteq credited \cup Credits(i) /\ credited \subseteq credited'
    /\ facts' = facts /\ summary' = summary /\ directory' = directory

\* Those of `who' whom the sheet names are registered: the persons without
\* headquarters, unless a call fails.
Register(d, s, who) ==
    [d EXCEPT !.places = [u \in Person |->
        IF u \in who /\ NamedIn(d, s, u) # {}
        THEN d.places[u] \cup {s[FirstOf(NamedIn(d, s, u))].hq} ELSE d.places[u]]]

Unplaced(d) == {u \in Person : d.places[u] = {}}

Syncs(i) ==
    /\ import[i].at = "sync" /\ Turned(i, "aggregate")
    /\ facts' = facts /\ summary' = summary /\ credited' = credited
    /\ \E who \in SUBSET Person :
          /\ directory' = Register(directory, Sheet(i), who)
          /\ who = Unplaced(directory) \/ faults' # 0

Aggregates(i) ==
    /\ import[i].at = "aggregate" /\ Turned(i, "purge_sales")
    /\ \E dates \in SUBSET Dates(i) :
          summary' = {s \in summary : s.date \notin dates} \cup {s \in facts : s.date \in dates}
    /\ facts' = facts /\ credited' = credited /\ directory' = directory

\* The steps after the aggregation.
Clears(i) ==
    /\ import[i].at \in Summarised \ {"done"} /\ DeskRest
    /\ \E to \in Summarised : Turned(i, to)

LEMMA DeskIs ==
    ASSUME Basic, NEW i \in Import, NEW lost \in BOOLEAN, DeskStep(i, lost)
    PROVE  \/ Validated(i) \/ Publishes(i) \/ Withdraws(i) \/ CreditsSome(i)
           \/ Syncs(i) \/ Aggregates(i) \/ Clears(i)
<1> USE DEF deskVars, responseVars, sourceVars, boundVars
<1>0. faults \in Nat
  BY DEF Basic, MasterTypeOK
<1>1. CASE Validate(i, lost)
  <2>1. mix.until = "done" /\ DeskRest /\ (lost => faults' # 0)
    BY <1>0, <1>1 DEF Validate, DeskRest, MayBreak
  <2> DEFINE missed == {k \in DOMAIN Sheet(i) : Unmapped(i, Sheet(i)[k])}
             ok(d) == Errors(d, Sheet(i), missed) = {}
             verdict(d) == IF ok(d) THEN "publish" ELSE "refused"
  <2>2. \/ ~lost /\ Follows(i, "resolved", verdict(directory))
        \/ lost /\ Follows(i, "resolved", "failed")
        \/ lost /\ Follows(i, "resolved", verdict(WithoutPlaces(directory)))
    BY <1>1 DEF Validate
  <2> HIDE DEF ok
  <2>3. \/ Follows(i, "resolved", "refused") \/ Follows(i, "resolved", "failed")
        \/ Follows(i, "resolved", "publish") /\ ~lost /\ ok(directory)
        \/ Follows(i, "resolved", "publish") /\ lost /\ ok(WithoutPlaces(directory))
    BY <2>2, Zenon
  <2>4. edited' = edited /\ mix' = mix
    BY <2>1 DEF DeskRest
  <2>5. CASE Follows(i, "resolved", "refused")
    <3>1. import[i].at = "resolved" /\ Turned(i, "refused")
      BY <2>4, <2>5, FollowsIs
    <3> QED  BY <2>1, <3>1 DEF Validated
  <2>6. CASE Follows(i, "resolved", "failed")
    <3>1. import[i].at = "resolved" /\ Turned(i, "failed")
      BY <2>4, <2>6, FollowsIs
    <3> QED  BY <2>1, <3>1 DEF Validated
  <2>7. CASE Follows(i, "resolved", "publish") /\ ~lost /\ ok(directory)
    <3>1. import[i].at = "resolved" /\ Turned(i, "publish")
      BY <2>4, <2>7, FollowsIs
    <3>2. Errors(directory, Sheet(i), missed) = {}
      BY <2>7 DEF ok
    <3> HIDE DEF missed
    <3> QED  BY <2>1, <3>1, <3>2 DEF Validated
  <2>8. CASE Follows(i, "resolved", "publish") /\ lost /\ ok(WithoutPlaces(directory))
    <3>1. import[i].at = "resolved" /\ Turned(i, "publish")
      BY <2>4, <2>8, FollowsIs
    <3>2. Errors(WithoutPlaces(directory), Sheet(i), missed) = {}
      BY <2>8 DEF ok
    <3> HIDE DEF missed
    <3> QED  BY <2>1, <2>8, <3>1, <3>2 DEF Validated
  <2> QED  BY <2>3, <2>5, <2>6, <2>7, <2>8
<1>2. CASE Publish(i)
  <2>1. /\ Follows(i, "publish", "credit") /\ mix' = mix /\ edited' = edited
        /\ facts' = facts \cup Sales(i) /\ summary' = summary /\ credited' = credited
        /\ directory' = directory
    BY <1>2 DEF Publish
  <2> QED  BY <2>1, FollowsIs DEF Publishes
<1>3. CASE Withdraw(i)
  <2>1. /\ import[i].at \in {"publish", "credit", "aggregate"}
        /\ import' = [import EXCEPT ![i].at = "withdrawn"]
        /\ facts' = {s \in facts : s.import # i} /\ credited' = {s \in credited : s.import # i}
        /\ summary' = summary /\ directory' = directory /\ mix' = mix /\ edited' = edited
    BY <1>3 DEF Withdraw
  <2>2. Follows(i, import[i].at, "withdrawn")
    BY <2>1 DEF Follows, At
  <2> QED  BY <2>1, <2>2, FollowsIs DEF Withdraws
<1>4. CASE Credit(i, lost)
  <2>1. /\ Follows(i, "credit", "sync") /\ mix' = mix /\ edited' = edited
        /\ facts' = facts /\ summary' = summary /\ directory' = directory
    BY <1>4 DEF Credit
  <2>2. PICK part \in IF lost THEN SUBSET Credits(i) ELSE {Credits(i)} :
            credited' = credited \cup part
    BY <1>4 DEF Credit
  <2>3. part \subseteq Credits(i)
    BY <2>2
  <2> QED  BY <2>1, <2>2, <2>3, FollowsIs DEF CreditsSome
<1>5. CASE SyncTerritory(i, lost)
  <2>1. /\ Follows(i, "sync", "aggregate") /\ mix' = mix /\ edited' = edited
        /\ facts' = facts /\ summary' = summary /\ credited' = credited
        /\ lost => faults' # 0
    BY <1>0, <1>5 DEF SyncTerritory, MayBreak
  <2> DEFINE s == Sheet(i)
             listed == {u \in Person : NamedIn(directory, s, u) # {}}
             first(u) == s[FirstOf(NamedIn(directory, s, u))].hq
             registered(who) == [u \in Person |->
                 IF u \in who THEN directory.places[u] \cup {first(u)} ELSE directory.places[u]]
             without == {u \in listed : directory.places[u] = {}}
  <2>2. \/ \E who \in IF lost THEN SUBSET without ELSE {without} :
               directory' = [directory EXCEPT !.places = registered(who)]
        \/ lost /\ directory' = [directory EXCEPT !.places = registered(listed)]
    BY <1>5 DEF SyncTerritory, NamedIn, FirstOf
  <2>3. ASSUME NEW who \in SUBSET Person, NEW S \in SUBSET Person, who = S \cap listed
        PROVE  [directory EXCEPT !.places = registered(who)] = Register(directory, s, S)
    <3>1. \A u \in Person : u \in who <=> u \in S /\ NamedIn(directory, s, u) # {}
      BY <2>3
    <3> HIDE DEF s
    <3> QED  BY <3>1 DEF Register
  <2>4. ASSUME NEW who \in SUBSET listed, lost,
               directory' = [directory EXCEPT !.places = registered(who)]
        PROVE  Syncs(i)
    <3>1. who \in SUBSET Person /\ who = who \cap listed
      OBVIOUS
    <3>2. directory' = Register(directory, s, who)
      BY <2>3, <2>4, <3>1
    <3> QED  BY <2>1, <2>4, <3>1, <3>2, FollowsIs DEF Syncs
  <2>5. ASSUME directory' = [directory EXCEPT !.places = registered(without)]
        PROVE  Syncs(i)
    <3>1. without \in SUBSET Person /\ Unplaced(directory) \in SUBSET Person
          /\ without = Unplaced(directory) \cap listed
      BY DEF Unplaced
    <3>2. directory' = Register(directory, s, Unplaced(directory))
      BY <2>3, <2>5, <3>1
    <3> QED  BY <2>1, <3>1, <3>2, FollowsIs DEF Syncs
  <2>6. without \in SUBSET listed /\ listed \in SUBSET listed
    OBVIOUS
  <2> HIDE DEF without, listed, registered
  <2>7. CASE lost
    <3>1. \E who \in SUBSET listed : directory' = [directory EXCEPT !.places = registered(who)]
      BY <2>2, <2>6, <2>7
    <3> QED  BY <2>4, <2>7, <3>1
  <2>8. CASE ~ lost
    <3>1. directory' = [directory EXCEPT !.places = registered(without)]
      BY <2>2, <2>8
    <3> QED  BY <2>5, <3>1
  <2> QED  BY <2>7, <2>8
<1>6. CASE Aggregate(i, lost)
  <2>1. /\ Follows(i, "aggregate", "purge_sales") /\ mix' = mix /\ edited' = edited
        /\ facts' = facts /\ credited' = credited /\ directory' = directory
    BY <1>6 DEF Aggregate
  <2>2. PICK dates \in IF lost THEN SUBSET Dates(i) \ {Dates(i)} ELSE {Dates(i)} :
            summary' = {s \in summary : s.date \notin dates} \cup {s \in facts : s.date \in dates}
    BY <1>6 DEF Aggregate
  <2>3. dates \in SUBSET Dates(i)
    BY <2>2
  <2> QED  BY <2>1, <2>2, <2>3, FollowsIs DEF Aggregates
<1>7. ASSUME DeskRest, NEW from \in Summarised \ {"done"}, NEW to \in Summarised,
             Follows(i, from, to)
      PROVE  Clears(i)
  <2>1. import[i].at = from /\ Turned(i, to)
    BY <1>7, FollowsIs DEF DeskRest
  <2> QED  BY <1>7, <2>1 DEF Clears
<1>8. CASE Clear(i, lost)
  <2>1. DeskRest
    BY <1>8 DEF Clear, DeskRest, PurgeRedis, PurgeMemory
  <2>2. \/ Follows(i, "purge_sales", "purge_companies")
        \/ Follows(i, "purge_companies", "purge_memory")
        \/ Follows(i, "purge_memory", "date")
    BY <1>8, Zenon DEF Clear
  <2> QED  BY <1>7, <2>1, <2>2 DEF Summarised, Publishing, AfterPublishing
<1>9. CASE ClearAgain(i, lost)
  <2>1. DeskRest
    BY <1>9 DEF ClearAgain, DeskRest, PurgeRedis, PurgeMemory
  <2>2. \/ Follows(i, "purge_sales_again", "purge_companies_again")
        \/ Follows(i, "purge_companies_again", "purge_memory_again")
        \/ Follows(i, "purge_memory_again", "prewarm")
    BY <1>9, Zenon DEF ClearAgain
  <2> QED  BY <1>7, <2>1, <2>2 DEF Summarised, Publishing, AfterPublishing
<1>10. CASE SetLatestDate(i)
  <2>1. DeskRest /\ Follows(i, "date", "purge_sales_again")
    BY <1>10 DEF SetLatestDate, DeskRest, RememberDate
  <2> QED  BY <1>7, <2>1 DEF Summarised, Publishing, AfterPublishing
<1>11. CASE Finish(i, lost)
  <2>1. DeskRest /\ Follows(i, "prewarm", "done")
    BY <1>11 DEF Finish, DeskRest, Prewarm
  <2> QED  BY <1>7, <2>1 DEF Summarised, Publishing, AfterPublishing
<1> QED  BY <1>1, <1>2, <1>3, <1>4, <1>5, <1>6, <1>8, <1>9, <1>10, <1>11 DEF DeskStep

\* All other steps leave the sales alone, and accepted imports where they are.
Stays(j) ==
    IF import[j].at \in Accepted
    THEN /\ import'[j].at = import[j].at /\ import'[j].sheet = import[j].sheet
         /\ import'[j].alone => import[j].alone
    ELSE import'[j].at \in Accepted => import'[j].at = "done" /\ mix.until # "done"

Calm == DeskRest /\ \A j \in Import : Stays(j)

\* User Management is edited.
Edited ==
    /\ ListsAll(directory') /\ edited' = TRUE
    /\ facts' = facts /\ summary' = summary /\ credited' = credited
    /\ mix' = mix /\ import' = import

LEMMA StaysWhereItIs ==
    ASSUME import' = import
    PROVE  \A j \in Import : Stays(j)
  BY DEF Stays

LEMMA AcceptedAre ==
    /\ Accepted \subseteq Working \cup Ended /\ Accepted \cap Resolving = {}
    /\ "idle" \notin Accepted /\ "resolved" \notin Accepted /\ "prefetch" \notin Accepted
    /\ "failed" \notin Accepted /\ "refused" \notin Accepted /\ "withdrawn" \notin Accepted
    /\ "publish" \in Accepted /\ "done" \in Accepted
    /\ Accepted \cap Ended = {"done"}
    /\ Summarised \subseteq Counted /\ Registered \subseteq Counted /\ Counted \subseteq Published
    /\ Published \subseteq Accepted /\ Summarised \subseteq Registered
  BY DEF Accepted, Published, Counted, Registered, Summarised, Publishing, AfterPublishing,
         Working, Ended, Resolving

LEMMA SalesNext ==
    ASSUME Basic, [Next]_vars
    PROVE  \/ Calm
           \/ Edited
           \/ \E i \in Import, lost \in BOOLEAN : DeskStep(i, lost)
<1>1. mix \in Mixes
  BY DEF Basic, MasterTypeOK
<1>2. CASE UNCHANGED vars
  <2>1. DeskRest /\ import' = import
    BY <1>2 DEF vars, masterVars, responseVars, sourceVars, deskVars, boundVars, DeskRest
  <2> QED  BY <2>1, StaysWhereItIs DEF Calm
<1>3. CASE Upload
  <2>1. PICK i \in mix.imports, p \in mix.processes, s \in mix.sheets :
            BeginImport(i, p, s) /\ UNCHANGED <<responseVars, deskVars>>
    BY <1>3 DEF Upload
  <2>2. i \in Import /\ p \in Process
    BY <1>1, MasterAssumption, DeskAssumption
  <2>3. BeginsAs(i, p, s)
    BY <2>1, <2>2, BeginIs
  <2>4. \A j \in Import : Stays(j)
    BY <2>3, AcceptedAre DEF BeginsAs, SameButAlone, Becomes, Stays, At
  <2>5. DeskRest
    BY <2>1, <2>3 DEF BeginsAs, DeskRest, responseVars, sourceVars, deskVars
  <2> QED  BY <2>4, <2>5 DEF Calm
<1>4. CASE Resolve
  <2>1. PICK i \in Import, lost \in BOOLEAN :
            ResolveStep(i, lost) /\ UNCHANGED <<responseVars, deskVars>>
    BY <1>4 DEF Resolve
  <2>2. Turns(i)
    BY <2>1, AnyTurn
  <2>3. \A j \in Import : Stays(j)
    BY <2>2, AcceptedAre DEF Turns, Stays
  <2>4. DeskRest
    BY <2>1, <2>2 DEF Turns, DeskRest, responseVars, sourceVars, deskVars
  <2> QED  BY <2>3, <2>4 DEF Calm
<1>5. CASE Remove
  <2>1. PICK r \in rows : RemoveDepot(r) /\ UNCHANGED <<responseVars, deskVars>>
    BY <1>5 DEF Remove
  <2>2. DeskRest /\ import' = import
    BY <2>1 DEF RemoveDepot, DeskRest, responseVars, sourceVars, deskVars, boundVars
  <2> QED  BY <2>2, StaysWhereItIs DEF Calm
<1>6. CASE ImportStep
  <2>1. PICK i \in Import : (\E lost \in BOOLEAN : DeskStep(i, lost)) \/ Leave(i)
    BY <1>6 DEF ImportStep
  <2>2. CASE Leave(i)
    <3>1. DeskRest /\ mix.until = "resolved"
      BY <2>2 DEF Leave, DeskRest, responseVars, sourceVars, deskVars, boundVars
    <3>2. import[i].at = "resolved" /\ Turned(i, "done")
      BY <2>2, <3>1, FollowsIs DEF Leave, DeskRest
    <3>3. \A j \in Import : Stays(j)
      BY <3>1, <3>2, AcceptedAre DEF Turned, Stays
    <3> QED  BY <3>1, <3>3 DEF Calm
  <2> QED  BY <2>1, <2>2
<1>7. CASE EditDirectory
  <2>1. directory' \in mix.edits
    BY <1>7 DEF EditDirectory
  <2>2. ListsAll(directory')
    BY <1>1, <2>1, DeskAssumption
  <2> QED  BY <1>7, <2>2 DEF EditDirectory, Edited, masterVars, responseVars, sourceVars, boundVars
<1>8. CASE NewRequest
  BY <1>8, StaysWhereItIs DEF NewRequest, Ask, Calm, DeskRest, others, deskVars, sourceVars
<1>9. CASE Expiry
  BY <1>9, StaysWhereItIs DEF Expiry, Expiring, ExpireRedis, ExpireMemory, ExpireSpare, ExpireLookups, ExpireMemo,
                Calm, DeskRest, others, deskVars, sourceVars
<1>10. ASSUME NEW r, Answering(r) PROVE Calm
  BY <1>10, StaysWhereItIs DEF Answering, RequestStep, Query, KeepInRedis, KeepFound, ReadLookups,
                 InstallLookups, KeepInMemory, Calm, DeskRest, others, deskVars, sourceVars
<1>11. ASSUME NEW p, Refreshing(p) PROVE Calm
  BY <1>11, StaysWhereItIs DEF Refreshing, RefreshLookups, Calm, DeskRest, others, deskVars, sourceVars
<1> QED  BY <1>2, <1>3, <1>4, <1>5, <1>6, <1>7, <1>8, <1>9, <1>10, <1>11, Zenon DEF Next

-----------------------------------------------------------------------------
(***************************************************************************)
(* Which sales are published, shown and credited: those of imports that    *)
(* are far enough, in a mix that follows them.                             *)
(***************************************************************************)
UntilInv == \A i \in Import : import[i].at \in Accepted \ {"done"} => mix.until = "done"

PublishedInv ==
    \A s \in facts :
        \/ s \in mix.sales.summary
        \/ /\ s.import \in Import /\ Through(s.import, Published)
           /\ s \in Sales(s.import)

SummaryInv ==
    \A s \in summary :
        \/ s \in mix.sales.summary
        \/ /\ s.import \in Import /\ Begun(s.import) /\ s \in Sales(s.import)
           /\ ~ Overlapped => s \in facts /\ Through(s.import, Summarised)

CreditedInv ==
    \A c \in credited :
        \/ c \in mix.sales.credited
        \/ /\ c.import \in Import /\ Through(c.import, Counted)
           /\ c.row \in DOMAIN Sheet(c.import) /\ c.user \in Person /\ c \in SoldBy
           /\ edited \/ c.user = UserId(directory, RowOfSale(c).ase)

\* The sheets and labels of imports that take a step.
LEMMA TurnedIs ==
    ASSUME NEW i \in Import, NEW to, Turned(i, to), NEW j \in Import
    PROVE  /\ import'[j].sheet = import[j].sheet /\ import'[j].alone = import[j].alone
           /\ Sales(j)' = Sales(j) /\ Sheet(j)' = Sheet(j)
           /\ import'[j].at = (IF j = i THEN to ELSE import[j].at)
           /\ mix' = mix /\ edited' = edited
  BY DEF Turned, Sales, Sheet

LEMMA UntilStep ==
    ASSUME Basic, UntilInv, [Next]_vars
    PROVE  UntilInv'
<1> SUFFICES ASSUME NEW j \in Import, import'[j].at \in Accepted \ {"done"}
             PROVE  mix'.until = "done"
  BY DEF UntilInv
<1>1. CASE Calm
  BY <1>1 DEF Calm, DeskRest, Stays, UntilInv
<1>2. CASE Edited
  BY <1>2 DEF Edited, UntilInv
<1>3. ASSUME NEW i \in Import, NEW to, Turned(i, to),
             import[i].at \in Accepted \ {"done"} \/ to \notin Accepted \/ mix.until = "done"
      PROVE  mix'.until = "done"
  <2>1. import'[j].at = (IF j = i THEN to ELSE import[j].at) /\ mix' = mix
    BY <1>3, TurnedIs
  <2> QED  BY <1>3, <2>1 DEF UntilInv
<1>4. ASSUME NEW i \in Import, NEW lost \in BOOLEAN, DeskStep(i, lost)
      PROVE  mix'.until = "done"
  <2>1. CASE Validated(i)
    BY <1>3, <2>1, AcceptedAre DEF Validated
  <2>2. CASE Publishes(i) \/ Withdraws(i) \/ CreditsSome(i) \/ Syncs(i) \/ Aggregates(i)
    <3>1. /\ {"publish", "credit", "sync", "aggregate"} \subseteq Accepted
          /\ "done" \notin {"publish", "credit", "sync", "aggregate"}
      BY DEF Accepted, Publishing
    <3> QED  BY <1>3, <2>2, <3>1 DEF Publishes, Withdraws, CreditsSome, Syncs, Aggregates
  <2>3. CASE Clears(i)
    BY <1>3, <2>3, AcceptedAre DEF Clears
  <2> QED  BY <1>4, <2>1, <2>2, <2>3, DeskIs
<1> QED  BY <1>1, <1>2, <1>4, SalesNext

\* A sale of an import that remains published.
LEMMA StillPublished ==
    ASSUME NEW labels, labels \subseteq Accepted, NEW j \in Import, Through(j, labels),
           \/ Calm \/ Edited
           \/ \E i \in Import : \E to : Turned(i, to) /\ (j # i \/ to \in labels)
    PROVE  Through(j, labels)' /\ Sheet(j)' = Sheet(j) /\ Sales(j)' = Sales(j)
<1>1. CASE Calm
  <2>1. Stays(j) /\ mix' = mix /\ import[j].at \in Accepted
    BY <1>1 DEF Calm, DeskRest, Through
  <2>2. import'[j].at = import[j].at /\ import'[j].sheet = import[j].sheet
    BY <2>1 DEF Stays
  <2> QED  BY <2>1, <2>2 DEF Through, Sheet, Sales
<1>2. CASE Edited
  BY <1>2 DEF Edited, Through, Sheet, Sales
<1>3. CASE \E i \in Import : \E to : Turned(i, to) /\ (j # i \/ to \in labels)
  <2>1. PICK i \in Import : \E to : Turned(i, to) /\ (j # i \/ to \in labels)
    BY <1>3
  <2>2. PICK to : Turned(i, to) /\ (j # i \/ to \in labels)
    BY <2>1
  <2> QED  BY <2>2, TurnedIs DEF Through
<1> QED  BY <1>1, <1>2, <1>3

LEMMA LabelsOfSteps ==
    /\ {"credit", "sync", "aggregate", "purge_sales"} \subseteq Published
    /\ {"sync", "aggregate", "purge_sales"} \subseteq Counted
    /\ {"aggregate", "purge_sales"} \subseteq Registered
    /\ "purge_sales" \in Summarised
    /\ "publish" \notin Published /\ "resolved" \notin Published
    /\ "credit" \notin Counted /\ "publish" \notin Counted
    /\ {"publish", "credit", "sync", "aggregate"} \cap Summarised = {}
    /\ {"publish", "credit", "sync"} \cap Registered = {}
    /\ Accepted \ Registered = {"publish", "credit", "sync"}
    /\ {"publish", "credit", "sync", "aggregate"} \subseteq Accepted \ {"done"}
    /\ Accepted \ {"done"} \subseteq Resolving \cup Working
  BY DEF Accepted, Published, Counted, Registered, Summarised, Publishing, AfterPublishing,
         Working

LEMMA PublishedStep ==
    ASSUME Basic, UntilInv, PublishedInv, [Next]_vars
    PROVE  PublishedInv'
<1> SUFFICES ASSUME NEW s \in facts', s \notin mix'.sales.summary
             PROVE  /\ s.import \in Import /\ Through(s.import, Published)'
                    /\ s \in Sales(s.import)'
  BY DEF PublishedInv
<1> DEFINE j == s.import
           Goal == j \in Import /\ Through(j, Published)' /\ s \in Sales(j)'
<1>1. mix' = mix
  BY Keeps
<1>2. ASSUME s \in facts,
             \/ Calm \/ Edited
             \/ \E i \in Import : \E to : Turned(i, to) /\ (j # i \/ to \in Published)
      PROVE  Goal
  <2>1. j \in Import /\ Through(j, Published) /\ s \in Sales(j)
    BY <1>1, <1>2 DEF PublishedInv
  <2>2. Through(j, Published)' /\ Sheet(j)' = Sheet(j) /\ Sales(j)' = Sales(j)
    <3>1. Published \subseteq Accepted
      BY AcceptedAre
    <3> HIDE DEF j
    <3> QED  BY <1>2, <2>1, <3>1, StillPublished
  <2> QED  BY <2>1, <2>2
<1>3. CASE Calm
  BY <1>2, <1>3 DEF Calm, DeskRest
<1>4. CASE Edited
  BY <1>2, <1>4 DEF Edited
<1>5. ASSUME NEW i \in Import, NEW lost \in BOOLEAN, DeskStep(i, lost)
      PROVE  Goal
  <2>1. CASE Validated(i)
    <3>1. s \in facts
      BY <2>1 DEF Validated, DeskRest
    <3>2. j \in Import /\ Through(j, Published)
      BY <1>1, <3>1 DEF PublishedInv
    <3>3. j # i
      BY <2>1, <3>2, LabelsOfSteps DEF Validated, Through
    <3> QED  BY <1>2, <2>1, <3>1, <3>3 DEF Validated
  <2>2. CASE Publishes(i)
    <3>1. CASE s \in facts
      BY <1>2, <2>2, <3>1, LabelsOfSteps DEF Publishes
    <3>2. CASE s \in Sales(i)
      <4>1. j = i
        BY <3>2 DEF Sales
      <4>2. mix.until = "done"
        BY <2>2, LabelsOfSteps DEF Publishes, UntilInv
      <4>3. Sales(i)' = Sales(i) /\ import'[i].at = "credit" /\ mix' = mix
        BY <2>2, TurnedIs DEF Publishes
      <4> QED  BY <3>2, <4>1, <4>2, <4>3, LabelsOfSteps DEF Through
    <3> QED  BY <2>2, <3>1, <3>2 DEF Publishes
  <2>3. CASE Withdraws(i)
    BY <1>2, <2>3 DEF Withdraws
  <2>4. CASE CreditsSome(i) \/ Syncs(i) \/ Aggregates(i)
    BY <1>2, <2>4, LabelsOfSteps DEF CreditsSome, Syncs, Aggregates
  <2>5. CASE Clears(i)
    BY <1>2, <2>5, AcceptedAre DEF Clears, DeskRest
  <2> QED  BY <1>5, <2>1, <2>2, <2>3, <2>4, <2>5, DeskIs
<1> QED  BY <1>3, <1>4, <1>5, SalesNext

LEMMA SummaryStep ==
    ASSUME Basic, LoneInv, PublishedInv, SummaryInv, [Next]_vars
    PROVE  SummaryInv'
<1> SUFFICES ASSUME NEW s \in summary', s \notin mix'.sales.summary
             PROVE  /\ s.import \in Import /\ Begun(s.import)' /\ s \in Sales(s.import)'
                    /\ ~ Overlapped' => s \in facts' /\ Through(s.import, Summarised)'
  BY DEF SummaryInv
<1> DEFINE j == s.import
           Had == j \in Import /\ Begun(j) /\ s \in Sales(j)
           Has == j \in Import /\ Begun(j)' /\ s \in Sales(j)'
           Goal == Has /\ (~ Overlapped' => s \in facts' /\ Through(j, Summarised)')
<1>1. mix' = mix
  BY Keeps
<1>2. ASSUME Had PROVE Has
  <2>1. ImportKeeps(j)
    BY <1>2, Keeps
  <2>2. Sales(j)' = Sales(j) /\ Begun(j)'
    BY <1>2, <2>1 DEF ImportKeeps, Begun, At, Sales, Sheet
  <2> QED  BY <1>2, <2>2
<1>3. ASSUME s \in summary, facts' = facts,
             \/ Calm \/ Edited
             \/ \E i \in Import : \E to : Turned(i, to) /\ (import[i].at \notin Summarised \/ to \in Summarised)
      PROVE  Goal
  <2>1. Had /\ (~ Overlapped => s \in facts /\ Through(j, Summarised))
    BY <1>1, <1>3 DEF SummaryInv
  <2>2. ASSUME ~ Overlapped' PROVE s \in facts' /\ Through(j, Summarised)'
    <3>1. ~ Overlapped
      BY <2>2, History
    <3>2. s \in facts /\ Through(j, Summarised) /\ j \in Import
      BY <2>1, <3>1
    <3>3. \/ Calm \/ Edited
          \/ \E i \in Import : \E to : Turned(i, to) /\ (j # i \/ to \in Summarised)
      BY <1>3, <3>2 DEF Through
    <3>4. Summarised \subseteq Accepted
      BY AcceptedAre
    <3> HIDE DEF j
    <3> QED  BY <1>3, <3>2, <3>3, <3>4, StillPublished
  <2> QED  BY <1>2, <2>1, <2>2
<1>4. CASE Calm
  BY <1>3, <1>4 DEF Calm, DeskRest
<1>5. CASE Edited
  BY <1>3, <1>5 DEF Edited
<1>6. ASSUME NEW i \in Import, NEW lost \in BOOLEAN, DeskStep(i, lost)
      PROVE  Goal
  <2>1. CASE Validated(i)
    <3>1. "resolved" \notin Summarised
      BY AcceptedAre
    <3> QED  BY <1>3, <2>1, <3>1 DEF Validated, DeskRest
  <2>2. CASE CreditsSome(i) \/ Syncs(i)
    BY <1>3, <2>2, LabelsOfSteps DEF CreditsSome, Syncs
  <2>3. CASE Publishes(i) \/ Withdraws(i)
    <3>1. PICK to : Turned(i, to) /\ import[i].at \notin Summarised
      BY <2>3, LabelsOfSteps DEF Publishes, Withdraws
    <3>2. s \in summary
      BY <2>3 DEF Publishes, Withdraws
    <3>3. Had /\ (~ Overlapped => s \in facts /\ Through(j, Summarised))
      BY <1>1, <3>2 DEF SummaryInv
    <3>4. ASSUME ~ Overlapped' PROVE s \in facts' /\ Through(j, Summarised)'
      <4>1. s \in facts /\ Through(j, Summarised) /\ j # i
        BY <3>1, <3>3, <3>4, History DEF Through
      <4>2. s \in facts'
        BY <2>3, <4>1 DEF Publishes, Withdraws
      <4>3. Through(j, Summarised)'
        BY <3>1, <3>3, <4>1, TurnedIs DEF Through
      <4> QED  BY <4>2, <4>3
    <3> QED  BY <1>2, <3>3, <3>4
  <2>4. CASE Aggregates(i)
    <3>1. /\ import[i].at = "aggregate" /\ Turned(i, "purge_sales") /\ facts' = facts
          /\ s \in summary \/ s \in facts
      BY <2>4 DEF Aggregates
    <3>2. CASE s \in summary
      BY <1>3, <3>1, <3>2, LabelsOfSteps
    <3>3. CASE s \in facts
      <4>1. j \in Import /\ Through(j, Published) /\ s \in Sales(j)
        BY <1>1, <3>3 DEF PublishedInv
      <4>2. Had
        BY <4>1, AcceptedAre DEF Begun, At, Through
      <4>3. ASSUME ~ Overlapped' PROVE Through(j, Summarised)'
        <5>1. ~ Overlapped /\ import[i].alone
          <6>1. ~ Overlapped /\ import[i].at # "idle"
            BY <3>1, <4>3, History
          <6> QED  BY <6>1 DEF Overlapped
        <5>2. CASE j = i
          BY <3>1, <4>1, <5>2, LabelsOfSteps, TurnedIs DEF Through
        <5>3. CASE j # i
          <6>1. UnderWay(i)
            BY <3>1 DEF UnderWay, Ended
          <6>2. ~ UnderWay(j)
            BY <4>1, <5>1, <5>3, <6>1 DEF LoneInv
          <6>3. import[j].at = "done"
            BY <4>1, <6>2, AcceptedAre DEF UnderWay, Through
          <6>4. "done" \in Summarised
            BY DEF Summarised, AfterPublishing
          <6> QED  BY <3>1, <4>1, <5>3, <6>3, <6>4, TurnedIs DEF Through
        <5> QED  BY <5>2, <5>3
      <4> QED  BY <1>2, <3>1, <3>3, <4>2, <4>3
    <3> QED  BY <3>1, <3>2, <3>3
  <2>5. CASE Clears(i)
    BY <1>3, <2>5 DEF Clears, DeskRest
  <2> QED  BY <1>6, <2>1, <2>2, <2>3, <2>4, <2>5, DeskIs
<1> QED  BY <1>4, <1>5, <1>6, SalesNext

-----------------------------------------------------------------------------
(***************************************************************************)
(* Registering people in headquarters.                                     *)
(***************************************************************************)
LEMMA SheetOf ==
    ASSUME Basic, NEW i \in Import, Begun(i)
    PROVE  mix \in Mixes /\ Sheet(i) \in mix.sheets
  BY DEF Basic, MasterTypeOK, Begun, At

LEMMA RegisteringIs ==
    ASSUME mix \in Mixes, NEW s \in mix.sheets, NEW d, ListsAll(d), NEW who
    PROVE  SamePeople(d, Register(d, s, who)) /\ ListsAll(Register(d, s, who))
<1> DEFINE new(u) == IF u \in who /\ NamedIn(d, s, u) # {}
                     THEN d.places[u] \cup {s[FirstOf(NamedIn(d, s, u))].hq} ELSE d.places[u]
           e == Register(d, s, who)
<1>1. ASSUME NEW u \in Person PROVE new(u) \in SUBSET Place
  <2>1. d.places[u] \in SUBSET Place
    BY DEF ListsAll, Directory
  <2>2. CASE NamedIn(d, s, u) # {}
    <3> DEFINE N == NamedIn(d, s, u)
               k == FirstOf(N)
    <3>1. N \in SUBSET DOMAIN s /\ N # {} /\ \A n \in N : s[n].hq # NoPlace
      BY <2>2 DEF NamedIn
    <3>2. k \in N
      <4> HIDE DEF N
      <4> QED  BY <3>1, FirstRow
    <3>3. \A n \in DOMAIN s : s[n].hq \in Place \cup {NoPlace}
      BY MasterAssumption, DeskAssumption DEF MaybeHq
    <3>4. s[k].hq \in Place
      <4> HIDE DEF k, N
      <4> QED  BY <3>1, <3>2, <3>3
    <3> QED  BY <2>1, <3>4
  <2> QED  BY <2>1, <2>2
<1>2. e = [d EXCEPT !.places = [u \in Person |-> new(u)]]
  BY DEF Register
<1> HIDE DEF new, e
<1>3. e.order = d.order /\ e.active = d.active /\ e.roles = d.roles /\ e.mapping = d.mapping
      /\ e \in Directory
  BY <1>1, <1>2 DEF ListsAll, Directory
<1> QED  BY <1>3 DEF SamePeople, ListsAll, e

LEMMA UnreadIs ==
    ASSUME NEW d, ListsAll(d)
    PROVE  SamePeople(d, WithoutPlaces(d)) /\ ListsAll(WithoutPlaces(d))
  BY DEF SamePeople, ListsAll, WithoutPlaces, Directory

\* User Management after any step: who is registered where may have changed.
LEMMA DirectoryStep ==
    ASSUME Basic, ListsAll(directory), [Next]_vars
    PROVE  /\ ListsAll(directory')
           /\ edited' \/ (~ edited /\ SamePeople(directory, directory'))
<1>0. SamePeople(directory, directory)
  BY DEF SamePeople
<1>1. CASE Calm
  <2>1. directory' = directory /\ edited' = edited
    BY <1>1 DEF Calm, DeskRest
  <2> QED  BY <1>0, <2>1
<1>2. CASE Edited
  BY <1>2 DEF Edited
<1>3. ASSUME NEW i \in Import, NEW lost \in BOOLEAN, DeskStep(i, lost)
      PROVE  /\ ListsAll(directory')
             /\ edited' \/ (~ edited /\ SamePeople(directory, directory'))
  <2>1. CASE Syncs(i)
    <3>1. import[i].at = "sync" /\ edited' = edited
      BY <2>1 DEF Syncs, Turned
    <3>2. mix \in Mixes /\ Sheet(i) \in mix.sheets
      BY <3>1, SheetOf DEF Begun, At
    <3>3. PICK who \in SUBSET Person : directory' = Register(directory, Sheet(i), who)
      BY <2>1 DEF Syncs
    <3>4. SamePeople(directory, directory') /\ ListsAll(directory')
      <4> DEFINE s == Sheet(i)
                 d == Register(directory, s, who)
      <4>1. SamePeople(directory, d) /\ ListsAll(d)
        <5> HIDE DEF s
        <5> QED  BY <3>2, RegisteringIs DEF s
      <4>2. directory' = d
        BY <3>3
      <4> HIDE DEF d
      <4> QED  BY <4>1, <4>2
    <3> QED  BY <3>1, <3>4
  <2>2. CASE ~ Syncs(i)
    <3>1. directory' = directory /\ edited' = edited
      BY <1>3, <2>2, DeskIs
      DEF Validated, Publishes, Withdraws, CreditsSome, Aggregates, Clears, DeskRest, Turned
    <3> QED  BY <1>0, <3>1
  <2> QED  BY <2>1, <2>2
<1> QED  BY <1>1, <1>2, <1>3, SalesNext

-----------------------------------------------------------------------------
(***************************************************************************)
(* What is credited: to whom User Management says the sheet means.         *)
(***************************************************************************)
LEMMA SalesAre ==
    ASSUME Basic, NEW i \in Import, Begun(i), NEW s \in Sales(i)
    PROVE  /\ s \in Sold /\ s.import = i /\ s.row \in DOMAIN Sheet(i)
           /\ RowOfSale(s) = Sheet(i)[s.row] /\ s.date = Sheet(i)[s.row].date
           /\ RowOfSale(s).name \in Name
<1>1. PICK k \in DOMAIN Sheet(i) : s = [import |-> i, row |-> k, date |-> Sheet(i)[k].date]
  BY DEF Sales
<1>2. mix \in Mixes /\ Sheet(i) \in mix.sheets
  BY SheetOf
<1>3. i \in Nat /\ k \in Nat /\ Sheet(i)[k].date \in Nat /\ Sheet(i)[k].name \in Name
  BY <1>2, SheetFacts, MasterAssumption, DeskAssumption
<1> QED  BY <1>1, <1>3 DEF Sold, RowOfSale

LEMMA CreditsAre ==
    ASSUME Basic, ListsAll(directory), NEW i \in Import, Begun(i), NEW c \in Credits(i)
    PROVE  /\ c \in SoldBy /\ c.import = i /\ c.row \in DOMAIN Sheet(i) /\ c.user \in Person
           /\ c.user = UserId(directory, Sheet(i)[c.row].ase)
<1>1. PICK s \in {s \in Sales(i) : Credited(i, s)} :
          c = [import |-> s.import, row |-> s.row, date |-> s.date,
               user |-> UserId(directory, RowOfSale(s).ase), company |-> CompanyOf(i, RowOfSale(s))]
  BY DEF Credits
<1>2. /\ s \in Sold /\ s.import = i /\ s.row \in DOMAIN Sheet(i)
      /\ RowOfSale(s) = Sheet(i)[s.row] /\ RowOfSale(s).name \in Name
  BY <1>1, SalesAre
<1>3. /\ UserId(directory, RowOfSale(s).ase) # Nobody
      /\ CompanyOf(i, RowOfSale(s)) # NoId
  BY <1>1 DEF Credited
<1>4. UserId(directory, RowOfSale(s).ase) \in Person
  BY <1>3, UserIdIs
<1>5. CompanyOf(i, RowOfSale(s)) \in SomeId \cup {<<"any">>}
  <2>1. cached \in [Process -> [Key -> SomeId \cup {NoId}]] /\ import[i].p \in Process
    BY ImportIs DEF Basic, MasterTypeOK
  <2> DEFINE n == RowOfSale(s).name
  <2>2. Clean[n] \in Key /\ Tight[n] \in Key
    BY <1>2 DEF Key
  <2>3. Cached(i)[Clean[n]] \in SomeId \cup {NoId} /\ Cached(i)[Tight[n]] \in SomeId \cup {NoId}
    BY <2>1, <2>2 DEF Cached
  <2>4. IdFor(i, n) \in SomeId \cup {NoId}
    BY <2>3 DEF IdFor
  <2> QED  BY <1>3, <2>4 DEF CompanyOf
<1>6. /\ c.import = s.import /\ c.row = s.row /\ c.date = s.date
      /\ c.user = UserId(directory, RowOfSale(s).ase)
  BY <1>1
<1>7. s.import \in Nat /\ s.row \in Nat /\ s.date \in Nat
  BY <1>2 DEF Sold
<1>8. c \in SoldBy
  BY <1>1, <1>4, <1>5, <1>7 DEF SoldBy
<1> QED  BY <1>2, <1>4, <1>6, <1>8

LEMMA CreditedStep ==
    ASSUME Basic, UntilInv, CreditedInv, ListsAll(directory), [Next]_vars
    PROVE  CreditedInv'
<1> SUFFICES ASSUME NEW c \in credited', c \notin mix'.sales.credited
             PROVE  /\ c.import \in Import /\ Through(c.import, Counted)'
                    /\ c.row \in DOMAIN Sheet(c.import)' /\ c.user \in Person /\ c \in SoldBy
                    /\ edited' \/ c.user = UserId(directory', RowOfSale(c)'.ase)
  BY DEF CreditedInv
<1> DEFINE j == c.import
           Goal == /\ j \in Import /\ Through(j, Counted)'
                   /\ c.row \in DOMAIN Sheet(j)' /\ c.user \in Person /\ c \in SoldBy
                   /\ edited' \/ c.user = UserId(directory', RowOfSale(c)'.ase)
<1>1. mix' = mix
  BY Keeps
<1>2. ASSUME c \in credited,
             \/ Calm \/ Edited
             \/ \E i \in Import : \E to : Turned(i, to) /\ (import[i].at \notin Counted \/ to \in Counted)
      PROVE  Goal
  <2>1. /\ j \in Import /\ Through(j, Counted) /\ c.row \in DOMAIN Sheet(j)
        /\ c.user \in Person /\ c \in SoldBy
        /\ edited \/ c.user = UserId(directory, RowOfSale(c).ase)
    BY <1>1, <1>2 DEF CreditedInv
  <2>2. Through(j, Counted)' /\ Sheet(j)' = Sheet(j)
    <3>1. \/ Calm \/ Edited
          \/ \E i \in Import : \E to : Turned(i, to) /\ (j # i \/ to \in Counted)
      BY <1>2, <2>1 DEF Through
    <3>2. Counted \subseteq Accepted
      BY AcceptedAre
    <3> HIDE DEF j
    <3> QED  BY <2>1, <3>1, <3>2, StillPublished
  <2>3. edited' \/ c.user = UserId(directory', RowOfSale(c)'.ase)
    <3>1. RowOfSale(c)' = RowOfSale(c)
      BY <2>2 DEF RowOfSale
    <3>2. edited' \/ (~ edited /\ SamePeople(directory, directory') /\ ListsAll(directory'))
      BY DirectoryStep
    <3>3. CASE ~ edited /\ SamePeople(directory, directory') /\ ListsAll(directory')
      <4>1. UserId(directory', RowOfSale(c).ase) = UserId(directory, RowOfSale(c).ase)
        BY <3>3, SameMeaning
      <4> QED  BY <2>1, <3>1, <3>3, <4>1
    <3> QED  BY <3>2, <3>3
  <2> QED  BY <2>1, <2>2, <2>3
<1>3. CASE Calm
  BY <1>2, <1>3 DEF Calm, DeskRest
<1>4. CASE Edited
  BY <1>2, <1>4 DEF Edited
<1>5. ASSUME NEW i \in Import, NEW lost \in BOOLEAN, DeskStep(i, lost)
      PROVE  Goal
  <2>1. CASE Validated(i)
    <3>1. "resolved" \notin Counted
      BY AcceptedAre
    <3> QED  BY <1>2, <2>1, <3>1 DEF Validated, DeskRest
  <2>2. CASE Publishes(i) \/ Syncs(i) \/ Aggregates(i)
    BY <1>2, <2>2, LabelsOfSteps DEF Publishes, Syncs, Aggregates
  <2>3. CASE Withdraws(i)
    <3>1. c \in credited /\ c.import # i /\ Turned(i, "withdrawn")
      BY <2>3 DEF Withdraws
    <3>2. j \in Import /\ Through(j, Counted) /\ c.row \in DOMAIN Sheet(j)
          /\ c.user \in Person /\ c \in SoldBy
          /\ (edited \/ c.user = UserId(directory, RowOfSale(c).ase))
      BY <1>1, <3>1 DEF CreditedInv
    <3>3. Through(j, Counted)' /\ Sheet(j)' = Sheet(j) /\ edited' = edited /\ directory' = directory
      BY <2>3, <3>1, <3>2, TurnedIs DEF Through, Withdraws
    <3> QED  BY <3>2, <3>3 DEF RowOfSale
  <2>4. CASE CreditsSome(i)
    <3>1. CASE c \in credited
      BY <1>2, <2>4, <3>1, LabelsOfSteps DEF CreditsSome
    <3>2. CASE c \in Credits(i)
      <4>1. import[i].at = "credit" /\ Turned(i, "sync") /\ directory' = directory
        BY <2>4 DEF CreditsSome
      <4>2. Begun(i) /\ mix.until = "done"
        BY <4>1, LabelsOfSteps DEF Begun, At, UntilInv
      <4>3. /\ c \in SoldBy /\ j = i /\ c.row \in DOMAIN Sheet(i) /\ c.user \in Person
            /\ c.user = UserId(directory, Sheet(i)[c.row].ase)
        BY <3>2, <4>2, CreditsAre
      <4>4. Sheet(i)' = Sheet(i) /\ import'[i].at = "sync" /\ mix' = mix
        BY <4>1, TurnedIs
      <4> QED  BY <4>1, <4>2, <4>3, <4>4, LabelsOfSteps DEF Through, RowOfSale
    <3> QED  BY <2>4, <3>1, <3>2 DEF CreditsSome
  <2>5. CASE Clears(i)
    BY <1>2, <2>5, AcceptedAre DEF Clears, DeskRest
  <2> QED  BY <1>5, <2>1, <2>2, <2>3, <2>4, <2>5, DeskIs
<1> QED  BY <1>3, <1>4, <1>5, SalesNext

-----------------------------------------------------------------------------
(***************************************************************************)
(* What stays true of the rows of an accepted sheet while nobody edits     *)
(* User Management: each ASE has the manager of his row and, when the      *)
(* import is alone and no call fails, works where his sales are.           *)
(***************************************************************************)
InTerritory(i, k, f) ==
    LET u == UserId(directory, Sheet(i)[k][f])
    IN  \/ u = Nobody \/ Sheet(i)[k].hq = NoPlace
        \/ Sheet(i)[k].hq \in directory.places[u]
        \/ u \notin directory.active \/ u # UserIdByRow(directory, Sheet(i)[k][f])
        \/ ~ NamedOnce(i, u)

ReportedInv ==
    \A i \in Import : Through(i, Accepted) /\ ~ edited =>
        \A k \in DOMAIN Sheet(i) : ReportingErrors(directory, Sheet(i)[k]) = {}

PlacedInv ==
    \A i \in Import :
        /\ Through(i, Accepted) /\ import[i].alone
        /\ faults = 0 /\ ~ edited
        => IF import[i].at \in Registered
           THEN \A k \in DOMAIN Sheet(i) : \A f \in {"ase", "asm"} : InTerritory(i, k, f)
           ELSE PlacedOK(directory, Sheet(i))

LEMMA NamedOnceStays ==
    ASSUME ListsAll(directory), ListsAll(directory'), SamePeople(directory, directory'),
           NEW i \in Import, Sheet(i)' = Sheet(i), NEW u, NamedOnce(i, u)'
    PROVE  NamedOnce(i, u)
<1> DEFINE ways == {w \in {"ase", "asm"} \X Items(i) : UserId(directory, w[2][w[1]]) = u}
           then == {w \in {"ase", "asm"} \X Items(i) : UserId(directory', w[2][w[1]]) = u}
<1>1. Items(i)' = Items(i)
  BY DEF Items
<1>2. \A l : UserId(directory', l) = UserId(directory, l)
  BY SameMeaning
<1>3. ways = then
  BY <1>2
<1>4. \/ Cardinality({<<w[1], w[2][w[1]]>> : w \in then}) <= 1
      \/ Cardinality({w[2].hq : w \in then}) <= 1
  BY <1>1 DEF NamedOnce
<1>5. \/ Cardinality({<<w[1], w[2][w[1]]>> : w \in ways}) <= 1
      \/ Cardinality({w[2].hq : w \in ways}) <= 1
  <2> HIDE DEF ways, then
  <2> QED  BY <1>3, <1>4
<1> QED  BY <1>5 DEF NamedOnce

LEMMA TerritoryStays ==
    ASSUME ListsAll(directory), ListsAll(directory'), SamePeople(directory, directory'),
           \A u \in Person : directory.places[u] \subseteq directory'.places[u],
           NEW i \in Import, Sheet(i)' = Sheet(i),
           NEW k \in DOMAIN Sheet(i), NEW f \in {"ase", "asm"}, InTerritory(i, k, f)
    PROVE  InTerritory(i, k, f)'
<1> DEFINE l == Sheet(i)[k][f]
           u == UserId(directory, l)
<1>1. UserId(directory', l) = u /\ UserIdByRow(directory', l) = UserIdByRow(directory, l)
  BY SameMeaning
<1>2. u \in Person \cup {Nobody}
  BY UserIdIs
<1>3. NamedOnce(i, u)' => NamedOnce(i, u)
  <2>1. ASSUME NEW v PROVE NamedOnce(i, v)' => NamedOnce(i, v)
    BY NamedOnceStays
  <2>2. u' = u
    BY <1>1
  <2> HIDE DEF u
  <2> QED  BY <2>1, <2>2
<1> QED  BY <1>1, <1>2, <1>3 DEF InTerritory, SamePeople

\* Registering takes nobody's headquarters away.
LEMMA PlacesStay ==
    ASSUME NEW d, ListsAll(d), NEW s, NEW who
    PROVE  \A u \in Person : d.places[u] \subseteq Register(d, s, who).places[u]
<1> DEFINE new(u) == IF u \in who /\ NamedIn(d, s, u) # {}
                     THEN d.places[u] \cup {s[FirstOf(NamedIn(d, s, u))].hq} ELSE d.places[u]
<1>1. Register(d, s, who) = [d EXCEPT !.places = [u \in Person |-> new(u)]]
  BY DEF Register
<1>2. d \in Directory
  BY DEF ListsAll
<1>3. \A u \in Person : d.places[u] \subseteq new(u)
  OBVIOUS
<1> HIDE DEF new
<1>4. \A u \in Person : Register(d, s, who).places[u] = new(u)
  BY <1>1, <1>2 DEF Directory
<1> QED  BY <1>3, <1>4

\* An import accepted after a step was so before, or has just been.
LEMMA AcceptedBefore ==
    ASSUME Basic, [Next]_vars, NEW j \in Import, Through(j, Accepted)'
    PROVE  \/ /\ Through(j, Accepted) /\ Sheet(j)' = Sheet(j)
              /\ import'[j].alone => import[j].alone
              /\ import'[j].at \notin Registered => import[j].at \notin Registered
              /\ import'[j].at \in Registered => import[j].at \in Registered \/ Syncs(j)
           \/ Validated(j) /\ Turned(j, "publish")
<1>1. mix' = mix
  BY Keeps
<1>2. CASE Calm
  BY <1>1, <1>2 DEF Calm, Stays, Through, Sheet
<1>3. CASE Edited
  BY <1>1, <1>3 DEF Edited, Through, Sheet
<1>4. ASSUME NEW i \in Import, NEW to, Turned(i, to),
             import[i].at \in Accepted, import[i].at \in Registered => to \in Registered \cup {"withdrawn"},
             to \in Registered => import[i].at \in Registered \/ Syncs(i)
      PROVE  /\ Through(j, Accepted) /\ Sheet(j)' = Sheet(j)
             /\ import'[j].alone => import[j].alone
             /\ import'[j].at \notin Registered => import[j].at \notin Registered
             /\ import'[j].at \in Registered => import[j].at \in Registered \/ Syncs(j)
  <2>1. /\ Sheet(j)' = Sheet(j) /\ import'[j].alone = import[j].alone
        /\ import'[j].at = (IF j = i THEN to ELSE import[j].at)
    BY <1>4, TurnedIs
  <2>2. import'[j].at \in Accepted /\ mix.until = "done"
    BY <1>1 DEF Through
  <2> QED  BY <1>4, <2>1, <2>2, AcceptedAre DEF Through
<1>5. ASSUME NEW i \in Import, NEW lost \in BOOLEAN, DeskStep(i, lost), ~ Validated(i)
      PROVE  /\ Through(j, Accepted) /\ Sheet(j)' = Sheet(j)
             /\ import'[j].alone => import[j].alone
             /\ import'[j].at \notin Registered => import[j].at \notin Registered
             /\ import'[j].at \in Registered => import[j].at \in Registered \/ Syncs(j)
  <2>1. CASE Publishes(i)
    BY <1>4, <2>1, LabelsOfSteps DEF Publishes
  <2>2. CASE Withdraws(i)
    BY <1>4, <2>2, LabelsOfSteps, AcceptedAre DEF Withdraws
  <2>3. CASE CreditsSome(i)
    BY <1>4, <2>3, LabelsOfSteps DEF CreditsSome
  <2>4. CASE Syncs(i)
    <3>1. import[i].at = "sync" /\ Turned(i, "aggregate")
      BY <2>4 DEF Syncs
    <3> QED  BY <1>4, <2>4, <3>1, LabelsOfSteps
  <2>5. CASE Aggregates(i)
    BY <1>4, <2>5, LabelsOfSteps DEF Aggregates
  <2>6. CASE Clears(i)
    BY <1>4, <2>6, AcceptedAre DEF Clears
  <2> QED  BY <1>5, <2>1, <2>2, <2>3, <2>4, <2>5, <2>6, DeskIs
<1>6. ASSUME NEW i \in Import, NEW lost \in BOOLEAN, Validated(i)
      PROVE  \/ /\ Through(j, Accepted) /\ Sheet(j)' = Sheet(j)
                /\ import'[j].alone => import[j].alone
                /\ import'[j].at \notin Registered => import[j].at \notin Registered
                /\ import'[j].at \in Registered => import[j].at \in Registered \/ Syncs(j)
             \/ Validated(j) /\ Turned(j, "publish")
  <2>1. PICK to \in {"refused", "failed", "publish"} : Turned(i, to) /\ Validated(i)
    BY <1>6 DEF Validated
  <2>2. /\ Sheet(j)' = Sheet(j) /\ import'[j].alone = import[j].alone
        /\ import'[j].at = (IF j = i THEN to ELSE import[j].at)
    BY <2>1, TurnedIs
  <2>3. import'[j].at \in Accepted /\ mix.until = "done"
    BY <1>1 DEF Through
  <2>4. CASE j = i
    BY <2>1, <2>2, <2>3, <2>4, AcceptedAre
  <2>5. CASE j # i
    BY <2>2, <2>3, <2>5 DEF Through
  <2> QED  BY <2>4, <2>5
<1> QED  BY <1>2, <1>3, <1>5, <1>6, SalesNext

\* A sheet without errors.
LEMMA NoErrors ==
    ASSUME NEW d, NEW s, NEW missed, Errors(d, s, missed) = {}
    PROVE  PlacedOK(d, s) /\ \A k \in DOMAIN s : ReportingErrors(d, s[k]) = {}
<1>1. SheetErrors(d, s) = {} /\ \A k \in DOMAIN s : RowErrors(d, s[k], k \in missed) = {}
  BY DEF Errors
<1>2. \A k \in DOMAIN s : PlaceErrors(d, s[k]) = {} /\ ReportingErrors(d, s[k]) = {}
  BY <1>1 DEF RowErrors
<1> QED  BY <1>1, <1>2 DEF PlacedOK

LEMMA ReportedStep ==
    ASSUME Basic, ListsAll(directory), ReportedInv, [Next]_vars
    PROVE  ReportedInv'
<1> SUFFICES ASSUME NEW j \in Import, Through(j, Accepted)', ~ edited', NEW k \in DOMAIN Sheet(j)'
             PROVE  ReportingErrors(directory', Sheet(j)'[k]) = {}
  BY DEF ReportedInv
<1>1. ~ edited /\ SamePeople(directory, directory') /\ ListsAll(directory')
  BY DirectoryStep
<1>2. CASE Through(j, Accepted) /\ Sheet(j)' = Sheet(j)
  <2>1. ReportingErrors(directory, Sheet(j)[k]) = {}
    BY <1>1, <1>2 DEF ReportedInv
  <2>2. ReportingErrors(directory', Sheet(j)[k]) = ReportingErrors(directory, Sheet(j)[k])
    BY <1>1, SameReporting
  <2> QED  BY <1>2, <2>1, <2>2
<1>3. CASE Validated(j) /\ Turned(j, "publish")
  <2>1. directory' = directory /\ Sheet(j)' = Sheet(j)
    BY <1>3, TurnedIs DEF Validated, DeskRest
  <2>2. PICK d \in {directory, WithoutPlaces(directory)} : \E missed : Errors(d, Sheet(j), missed) = {}
    <3>1. ~ Turned(j, "refused") /\ ~ Turned(j, "failed")
      BY <1>3 DEF Turned
    <3> QED  BY <1>3, <3>1 DEF Validated
  <2>3. ReportingErrors(d, Sheet(j)[k]) = {}
    BY <2>1, <2>2, NoErrors
  <2>4. ReportingErrors(d, Sheet(j)[k]) = ReportingErrors(directory, Sheet(j)[k])
    <3>1. CASE d = WithoutPlaces(directory)
      <4>1. SamePeople(directory, d) /\ ListsAll(d)
        BY <3>1, UnreadIs
      <4> QED  BY <4>1, SameReporting
    <3> QED  BY <3>1
  <2> QED  BY <2>1, <2>3, <2>4
<1> QED  BY <1>2, <1>3, AcceptedBefore

\* Only the registering of import i changes User Management unseen.
LEMMA OnlySyncsRegister ==
    ASSUME Basic, [Next]_vars, ~ edited'
    PROVE  \/ directory' = directory
           \/ \E i \in Import : /\ import[i].at = "sync" /\ Turned(i, "aggregate")
                                /\ \E who \in SUBSET Person :
                                      directory' = Register(directory, Sheet(i), who)
<1>1. CASE Calm \/ Edited
  BY <1>1 DEF Calm, DeskRest, Edited
<1>2. ASSUME NEW i \in Import, NEW lost \in BOOLEAN, DeskStep(i, lost)
      PROVE  \/ directory' = directory
             \/ \E n \in Import : /\ import[n].at = "sync" /\ Turned(n, "aggregate")
                                  /\ \E who \in SUBSET Person :
                                        directory' = Register(directory, Sheet(n), who)
  <2>1. CASE Syncs(i)
    <3>1. /\ import[i].at = "sync" /\ Turned(i, "aggregate")
          /\ \E who \in SUBSET Person : directory' = Register(directory, Sheet(i), who)
      BY <2>1 DEF Syncs
    <3> QED  BY <3>1
  <2>2. CASE ~ Syncs(i)
    BY <1>2, <2>2, DeskIs
    DEF Validated, Publishes, Withdraws, CreditsSome, Aggregates, Clears, DeskRest
  <2> QED  BY <2>1, <2>2
<1> QED  BY <1>1, <1>2, SalesNext

LEMMA PlacedStep ==
    ASSUME Basic, LoneInv, UntilInv, ListsAll(directory), PlacedInv, [Next]_vars
    PROVE  PlacedInv'
<1> SUFFICES ASSUME NEW j \in Import, Through(j, Accepted)', import'[j].alone, faults' = 0, ~ edited'
             PROVE  IF import'[j].at \in Registered
                    THEN \A k \in DOMAIN Sheet(j)' : \A f \in {"ase", "asm"} : InTerritory(j, k, f)'
                    ELSE PlacedOK(directory', Sheet(j)')
  BY DEF PlacedInv
<1>1. faults = 0 /\ ~ edited /\ SamePeople(directory, directory') /\ ListsAll(directory')
  BY History, DirectoryStep
<1>2. CASE Validated(j) /\ Turned(j, "publish")
  <2>1. /\ directory' = directory /\ Sheet(j)' = Sheet(j) /\ import'[j].at = "publish"
        /\ "publish" \notin Registered
    BY <1>2, TurnedIs, LabelsOfSteps DEF Validated, DeskRest
  <2>2. PICK d \in {directory, WithoutPlaces(directory)} : \E missed :
            Errors(d, Sheet(j), missed) = {} /\ (d = directory \/ faults' # 0)
    <3>1. ~ Turned(j, "refused") /\ ~ Turned(j, "failed")
      BY <1>2 DEF Turned
    <3> QED  BY <1>2, <3>1 DEF Validated
  <2>3. d = directory /\ PlacedOK(d, Sheet(j))
    BY <2>2, NoErrors
  <2> QED  BY <2>1, <2>3
<1>3. CASE /\ Through(j, Accepted) /\ Sheet(j)' = Sheet(j) /\ import[j].alone
           /\ import'[j].at \notin Registered => import[j].at \notin Registered
           /\ import'[j].at \in Registered => import[j].at \in Registered \/ Syncs(j)
  <2>1. Begun(j) /\ mix \in Mixes /\ Sheet(j) \in mix.sheets
    <3>1. Begun(j)
      BY <1>3, AcceptedAre DEF Begun, At, Through
    <3> QED  BY <3>1, SheetOf
  <2>2. CASE import[j].at \in Registered
    <3>1. import'[j].at \in Registered
      BY <1>3, <2>2
    <3>2. \A u \in Person : directory.places[u] \subseteq directory'.places[u]
      <4>1. ASSUME NEW i \in Import, NEW who, directory' = Register(directory, Sheet(i), who)
            PROVE  \A u \in Person : directory.places[u] \subseteq directory'.places[u]
        BY <4>1, PlacesStay
      <4> QED  BY <4>1, OnlySyncsRegister
    <3>3. ASSUME NEW k \in DOMAIN Sheet(j), NEW f \in {"ase", "asm"} PROVE InTerritory(j, k, f)'
      <4>1. InTerritory(j, k, f)
        BY <1>1, <1>3, <2>2 DEF PlacedInv
      <4> QED  BY <1>1, <1>3, <3>2, <4>1, TerritoryStays
    <3> QED  BY <1>3, <3>1, <3>3
  <2>3. CASE import[j].at \notin Registered
    <3>1. PlacedOK(directory, Sheet(j))
      BY <1>1, <1>3, <2>3 DEF PlacedInv
    <3>2. UnderWay(j) /\ import[j].at \in {"publish", "credit", "sync"}
      BY <1>3, <2>3, LabelsOfSteps DEF Through, UnderWay, Ended
    <3>3. ASSUME NEW i \in Import, i # j, import[i].at = "sync" PROVE FALSE
      <4>1. UnderWay(i)
        BY <3>3 DEF UnderWay, Ended
      <4> QED  BY <1>3, <3>2, <3>3, <4>1 DEF LoneInv
    <3>4. CASE import'[j].at \notin Registered
      <4>1. directory' = directory
        <5>1. ASSUME NEW i \in Import, import[i].at = "sync", Turned(i, "aggregate") PROVE FALSE
          <6>1. i = j /\ import'[i].at = "aggregate"
            BY <3>3, <5>1 DEF Turned
          <6> QED  BY <3>4, <6>1, LabelsOfSteps
        <5> QED  BY <5>1, OnlySyncsRegister
      <4> QED  BY <1>3, <3>1, <3>4, <4>1
    <3>5. CASE import'[j].at \in Registered
      <4>1. directory' = Register(directory, Sheet(j), Unplaced(directory))
        BY <1>3, <2>3, <3>5 DEF Syncs
      <4>2. ASSUME NEW k \in DOMAIN Sheet(j), NEW f \in {"ase", "asm"} PROVE InTerritory(j, k, f)'
        <5> DEFINE s == Sheet(j)
                   l == s[k][f]
                   u == UserId(directory, l)
                   N == NamedIn(directory, s, u)
        <5>1. UserId(directory', l) = u /\ UserIdByRow(directory', l) = UserIdByRow(directory, l)
          BY <1>1, SameMeaning
        <5>2. CASE u = Nobody \/ s[k].hq = NoPlace \/ u \notin directory.active
                   \/ u # UserIdByRow(directory, l)
          BY <1>1, <1>3, <5>1, <5>2 DEF InTerritory, SamePeople
        <5>3. CASE ~ NamedOnce(j, u)
          <6>1. \A v : NamedOnce(j, v)' => NamedOnce(j, v)
            BY <1>1, <1>3, NamedOnceStays
          <6>2. u' = u
            BY <1>3, <5>1
          <6>3. ~ NamedOnce(j, u)'
            <7> HIDE DEF u
            <7> QED  BY <5>3, <6>1, <6>2
          <6> QED  BY <1>3, <5>1, <6>2, <6>3 DEF InTerritory
        <5>4. CASE /\ u # Nobody /\ s[k].hq # NoPlace /\ u \in directory.active
                   /\ u = UserIdByRow(directory, l) /\ NamedOnce(j, u)
          <6>1. u \in Person
            BY <5>4, UserIdIs
          <6>2. IF directory.places[u] = {}
                THEN N # {} /\ s[FirstOf(N)].hq = s[k].hq
                ELSE s[k].hq \in directory.places[u]
            BY <2>1, <3>1, <5>4, RegisteredThere
          <6>3. directory'.places[u] = IF directory.places[u] = {} /\ N # {} THEN {s[FirstOf(N)].hq}
                                       ELSE directory.places[u]
            <7>1. directory'.places[u] = IF u \in Unplaced(directory) /\ N # {}
                                         THEN directory.places[u] \cup {s[FirstOf(N)].hq}
                                         ELSE directory.places[u]
              <8> HIDE DEF u, s
              <8> QED  BY <4>1, <6>1 DEF Register, ListsAll, Directory, s
            <7> QED  BY <6>1, <7>1 DEF Unplaced
          <6>4. s[k].hq \in directory'.places[u]
            <7> HIDE DEF u, N, s
            <7> QED  BY <6>2, <6>3
          <6> QED  BY <1>3, <5>1, <6>4 DEF InTerritory
        <5> QED  BY <5>2, <5>3, <5>4
      <4> QED  BY <1>3, <3>5, <4>2
    <3> QED  BY <3>4, <3>5
  <2> QED  BY <2>2, <2>3
<1> QED  BY <1>2, <1>3, AcceptedBefore

-----------------------------------------------------------------------------
SalesInv ==
    /\ Basic /\ LoneInv /\ ListsAll(directory) /\ UntilInv
    /\ PublishedInv /\ SummaryInv /\ CreditedInv
    /\ ReportedInv /\ PlacedInv

LEMMA SalesInvInitially == Init => SalesInv
<1> SUFFICES ASSUME Init PROVE SalesInv
  OBVIOUS
<1>1. Basic /\ LoneInv
  BY BasicInitially, TableInvInitially DEF TableInv
<1>2. /\ mix \in Mixes /\ facts = mix.sales.summary /\ directory \in mix.directories
      /\ summary = mix.sales.summary /\ credited = mix.sales.credited
  BY DEF Init, MasterInit, ResponseInit
<1>3. \A i \in Import : import[i].at = "idle"
  BY DEF Init, MasterInit, NewImport
<1>4. ListsAll(directory)
  BY <1>2, DeskAssumption
<1>5. UntilInv /\ ReportedInv /\ PlacedInv
  BY <1>3, AcceptedAre DEF UntilInv, ReportedInv, PlacedInv, Through
<1>6. PublishedInv /\ SummaryInv /\ CreditedInv
  BY <1>2 DEF PublishedInv, SummaryInv, CreditedInv
<1> QED  BY <1>1, <1>4, <1>5, <1>6 DEF SalesInv

LEMMA SalesInvStep == SalesInv /\ [Next]_vars => SalesInv'
<1> SUFFICES ASSUME SalesInv, [Next]_vars PROVE SalesInv'
  OBVIOUS
<1> USE DEF SalesInv
<1>1. Basic'
  BY BasicStep
<1>2. LoneInv'
  BY LoneStep
<1>3. UntilInv'
  BY UntilStep
<1>4. PublishedInv'
  BY PublishedStep
<1>5. SummaryInv'
  BY SummaryStep
<1>6. CreditedInv'
  BY CreditedStep
<1>7. ReportedInv'
  BY ReportedStep
<1>8. PlacedInv'
  BY PlacedStep
<1>9. ListsAll(directory')
  BY DirectoryStep
<1> QED  BY <1>1, <1>2, <1>3, <1>4, <1>5, <1>6, <1>7, <1>8, <1>9

LEMMA SalesInvInTerritory == SalesInv => SalesStayInTerritory
<1> SUFFICES ASSUME SalesInv, NEW s \in facts, s.import \in Import,
                    import[s.import].at \in Registered, import[s.import].alone,
                    faults = 0, ~ edited, NEW l \in {RowOfSale(s).ase, RowOfSale(s).asm}
             PROVE  LET u == UserId(directory, l)
                    IN  \/ u = Nobody \/ RowOfSale(s).hq = NoPlace
                        \/ RowOfSale(s).hq \in directory.places[u]
                        \/ u \notin directory.active \/ u # UserIdByRow(directory, l)
                        \/ ~ NamedOnce(s.import, u)
  BY DEF SalesStayInTerritory, Registered
<1> DEFINE i == s.import
<1>1. Through(i, Published) /\ s \in Sales(i)
  <2>1. mix \in Mixes /\ (s \in mix.sales.summary => s.import \notin Import)
    BY DeskAssumption DEF SalesInv, Basic, MasterTypeOK
  <2> QED  BY <2>1 DEF SalesInv, PublishedInv
<1>2. Through(i, Accepted)
  BY <1>1, AcceptedAre DEF Through
<1>3. Begun(i) /\ Basic
  BY <1>2, AcceptedAre DEF Begun, At, Through, SalesInv
<1>4. s.row \in DOMAIN Sheet(i) /\ RowOfSale(s) = Sheet(i)[s.row]
  <2> HIDE DEF i
  <2>1. i \in Import
    BY DEF i
  <2> QED  BY <1>1, <1>3, <2>1, SalesAre
<1>5. \A f \in {"ase", "asm"} : InTerritory(i, s.row, f)
  BY <1>2, <1>4 DEF SalesInv, PlacedInv
<1>6. PICK f \in {"ase", "asm"} : l = Sheet(i)[s.row][f]
  BY <1>4
<1> QED  BY <1>4, <1>5, <1>6 DEF InTerritory

LEMMA SalesInvSingleCredit == SalesInv => SingleCredit
<1> SUFFICES ASSUME SalesInv, NEW c \in credited, c.import \in Import, NEW o \in Orders(directory)
             PROVE  LET manager == UserId(directory, RowOfSale(c).asm)
                        counted == MemberToTsms(directory, o, c.user)
                        target == IF manager = Nobody THEN c.user ELSE manager
                    IN  /\ Cardinality(counted) <= 1 \/ Doubled(c.user)
                        /\ \/ edited
                           \/ counted = {target}
                           \/ Namesakes \/ Doubled(c.user) \/ Cardinality(Rows(c.user)) > 1
                           \/ target \notin directory.roles
  BY Zenon DEF SingleCredit
<1> DEFINE counted == MemberToTsms(directory, o, c.user)
           target == IF UserId(directory, RowOfSale(c).asm) = Nobody THEN c.user
                     ELSE UserId(directory, RowOfSale(c).asm)
<1>0. ListsAll(directory)
  BY DEF SalesInv
<1>1. Cardinality(counted) <= 1 \/ Doubled(c.user)
  BY <1>0, CountedOnce
<1>2. /\ Through(c.import, Counted) /\ c.row \in DOMAIN Sheet(c.import) /\ c.user \in Person
      /\ edited \/ c.user = UserId(directory, RowOfSale(c).ase)
  <2>1. mix \in Mixes /\ (c \in mix.sales.credited => c.import \notin Import)
    BY DeskAssumption DEF SalesInv, Basic, MasterTypeOK
  <2> QED  BY <2>1 DEF SalesInv, CreditedInv
<1>3. ASSUME ~ edited, ~ Namesakes, ~ Doubled(c.user), ~ (Cardinality(Rows(c.user)) > 1),
             target \in directory.roles
      PROVE  counted = {target}
  <2> DEFINE row == RowOfSale(c)
             a == c.user
  <2>1. ReportingErrors(directory, row) = {}
    <3>1. Through(c.import, Accepted)
      BY <1>2, AcceptedAre DEF Through
    <3> QED  BY <1>2, <1>3, <3>1 DEF SalesInv, ReportedInv, RowOfSale
  <2>2. a = UserId(directory, row.ase) /\ a # Nobody
    BY <1>2, <1>3, LabelAssumption
  <2>3. Cardinality(Rows(a)) <= 1
    <3>1. Cardinality(Rows(a)) \in Nat
      <4>1. DOMAIN directory.mapping = 1 .. Len(directory.mapping) /\ Len(directory.mapping) \in Nat
        BY <1>0 DEF ListsAll, Directory
      <4> DEFINE N == Len(directory.mapping)
      <4>2. IsFiniteSet(1 .. N)
        BY <4>1, FS_Interval
      <4>3. Rows(a) \in SUBSET (1 .. N)
        BY <4>1 DEF Rows
      <4>4. IsFiniteSet(Rows(a))
        BY <4>2, <4>3, FS_Subset
      <4> QED  BY <4>4, FS_CardinalityType
    <3> QED  BY <1>3, <3>1
  <2> HIDE DEF row, a
  <2>4. target = IF UserId(directory, row.asm) = Nobody THEN a ELSE UserId(directory, row.asm)
    BY DEF row, a
  <2>5. ~ Doubled(a)
    BY <1>3 DEF a
  <2> HIDE DEF target
  <2>6. MemberToTsms(directory, o, a) = {target}
    BY <1>0, <1>3, <2>1, <2>2, <2>3, <2>4, <2>5, CountedFor
  <2> QED  BY <2>6 DEF a
<1> HIDE DEF counted, target
<1>4. \/ edited \/ counted = {target} \/ Namesakes \/ Doubled(c.user)
      \/ Cardinality(Rows(c.user)) > 1 \/ target \notin directory.roles
  BY <1>3, Zenon
<1> QED  BY <1>1, <1>4 DEF counted, target

(***************************************************************************)
(* Whatever imports, edits and failures there are, what an import that ran *)
(* alone publishes is sold where its people work: process_upload checks    *)
(* the sheet before it publishes, and _sync_user_territory_mappings        *)
(* registers only those who have no headquarters.                          *)
(***************************************************************************)
THEOREM SalesStayInTerritoryCorrect == Spec => []SalesStayInTerritory
<1>1. Init => SalesInv
  BY SalesInvInitially
<1>2. SalesInv /\ [Next]_vars => SalesInv'
  BY SalesInvStep
<1>3. SalesInv => SalesStayInTerritory
  BY SalesInvInTerritory
<1> QED  BY <1>1, <1>2, <1>3, PTL DEF Spec

(***************************************************************************)
(* The mobile report counts no sale for two managers, however the process  *)
(* orders them, and counts it for the one the sheet names: the crediting   *)
(* loop of get_mobile_sales against the checks of process_upload.          *)
(***************************************************************************)
THEOREM SingleCreditCorrect == Spec => []SingleCredit
<1>1. Init => SalesInv
  BY SalesInvInitially
<1>2. SalesInv /\ [Next]_vars => SalesInv'
  BY SalesInvStep
<1>3. SalesInv => SingleCredit
  BY SalesInvSingleCredit
<1> QED  BY <1>1, <1>2, <1>3, PTL DEF Spec

-----------------------------------------------------------------------------
(***************************************************************************)
(* Type correctness.  A date of sale that is the latest exists because     *)
(* there are finitely many sales.                                          *)
(***************************************************************************)
Greatest(S) == \E m \in S : \A n \in S : n <= m

LEMMA FiniteHasGreatest ==
    ASSUME NEW S \in SUBSET Nat, IsFiniteSet(S), S # {}
    PROVE  Greatest(S)
<1> DEFINE Odd == {U \in SUBSET S : U # {} /\ ~ Greatest(U)}
           C == {Cardinality(U) : U \in Odd}
<1>1. \A U \in Odd : IsFiniteSet(U) /\ Cardinality(U) \in Nat
  BY FS_Subset, FS_CardinalityType
<1>2. CASE Odd # {}
  <2>1. C \subseteq Nat /\ C # {}
    BY <1>1, <1>2
  <2>2. PICK c \in C : \A n \in C : c <= n
    BY <2>1, LeastExists
  <2>3. PICK U \in Odd : c = Cardinality(U)
    BY <2>2
  <2>4. PICK x \in U : TRUE
    BY <2>3
  <2> DEFINE V == U \ {x}
  <2>5. \A m \in U : \E n \in U : n > m
    BY <2>3 DEF Greatest
  <2>6. V \in Odd
    <3>1. \A m \in V : \E n \in V : n > m
      BY <2>3, <2>4, <2>5
    <3>2. V # {}
      BY <2>4, <2>5
    <3> QED  BY <2>3, <3>1, <3>2 DEF Greatest
  <2>7. Cardinality(V) = Cardinality(U) - 1
    BY <1>1, <2>3, <2>4, FS_RemoveElement
  <2> HIDE DEF V, Odd
  <2>8. c <= Cardinality(V)
    BY <2>2, <2>6
  <2> QED  BY <1>1, <2>3, <2>7, <2>8
<1>3. CASE Odd = {}
  BY <1>3
<1> QED  BY <1>2, <1>3

LEMMA MaxIs ==
    ASSUME NEW S \in SUBSET Nat, IsFiniteSet(S)
    PROVE  MaxOf(S) \in Nat /\ \A e \in S : e <= MaxOf(S)
<1>1. \E d \in S \cup {0} : \A e \in S : e <= d
  <2>1. CASE S = {}
    BY <2>1
  <2>2. CASE S # {}
    BY <2>2, FiniteHasGreatest DEF Greatest
  <2> QED  BY <2>1, <2>2
<1> DEFINE m == MaxOf(S)
<1>2. m \in S \cup {0} /\ \A e \in S : e <= m
  BY <1>1, Zenon DEF MaxOf
<1> HIDE DEF m
<1>3. m \in Nat
  BY <1>2
<1> QED  BY <1>2, <1>3 DEF m

LEMMA LaterIs ==
    ASSUME NEW n \in 0 .. 2, NEW m \in 0 .. 2
    PROVE  MaxOf({m, n}) \in 0 .. 2
<1>1. \E d \in {m, n} \cup {0} : \A e \in {m, n} : e <= d
  OBVIOUS
<1> QED  BY <1>1 DEF MaxOf

LEMMA DatesAreFinite ==
    ASSUME NEW S \in SUBSET Sold, IsFiniteSet(S)
    PROVE  {s.date : s \in S} \in SUBSET Nat /\ IsFiniteSet({s.date : s \in S})
<1> DEFINE D == {s.date : s \in S}
           f == [s \in S |-> s.date]
<1>1. D \in SUBSET Nat
  BY DEF Sold
<1>2. f \in Surjection(S, D)
  BY DEF Surjection
<1> HIDE DEF D, f
<1>3. IsFiniteSet(D)
  BY <1>2, FS_Surjection
<1> QED  BY <1>1, <1>3 DEF D

\* What the figures are computed from.
Sources ==
    /\ rows \subseteq Row /\ summary \subseteq Sold /\ IsFiniteSet(summary)
    /\ credited \subseteq SoldBy

LEMMA TruthIs ==
    ASSUME Sources
    PROVE  Truth \in View
<1> DEFINE D == {s.date : s \in summary}
<1>1. D \in SUBSET Nat /\ IsFiniteSet(D)
  BY DatesAreFinite DEF Sources
<1>2. MaxOf(D) \in Nat
  <2> HIDE DEF D
  <2> QED  BY <1>1, MaxIs
<1>3. {Id(r) : r \in rows} \in SUBSET SomeId
  BY DEF Sources, Id, Row, SomeId
<1> HIDE DEF D
<1>4. Truth = [known |-> {Id(r) : r \in rows}, date |-> MaxOf(D)]
  BY DEF Truth, D
<1> QED  BY <1>2, <1>3, <1>4 DEF View

LEMMA ShownIs ==
    ASSUME Sources, NEW kind, NEW seen
    PROVE  Shown(kind, seen) \in SUBSET (Nat \X Nat)
<1>1. \A s \in credited : s.import \in Nat /\ s.row \in Nat
  BY DEF Sources, SoldBy
<1>2. \A s \in summary : s.import \in Nat /\ s.row \in Nat
  BY DEF Sources, Sold
<1> QED  BY <1>1, <1>2 DEF Shown, ShownSales, ShownCompanies

\* What a call has in hand.
LEMMA ReaderIs ==
    ASSUME ResponseTypeOK, NEW r \in Reader
    PROVE  /\ reader[r].at \in {"fetched", "query"} => reader[r] \in Holding
           /\ InHand(r) => reader[r] \in InHands
           /\ r.p \in Process /\ r.kind \in Kinds
  BY ReaderAssumption DEF ResponseTypeOK, Waiting, Holding, InHands, InHand

LEMMA KeptIs ==
    ASSUME ResponseTypeOK, NEW r \in Reader, InHand(r)
    PROVE  Kept(r) \in Answers
<1> DEFINE a == reader[r].answer
<1>1. a \in Answers /\ reader[r].late \in 0 .. 2
  BY ReaderIs DEF InHands
<1>2. Kept(r) = [a EXCEPT !.late = reader[r].late]
  BY DEF Kept
<1> HIDE DEF a
<1> QED  BY <1>1, <1>2 DEF Answers

LEMMA InHandIs ==
    /\ [at |-> "idle"] \in Waiting /\ [at |-> "miss"] \in Waiting /\ [at |-> "asked"] \in Waiting
    /\ \A at \in {"fetched", "query"}, seen \in View, late \in 0 .. 2 :
          [at |-> at, seen |-> seen, late |-> late] \in Holding
    /\ \A at \in {"hit", "keep_ram", "keep_redis"}, answer \in Answers, late \in 0 .. 2 :
          [at |-> at, answer |-> answer, late |-> late] \in InHands
  BY DEF Waiting, Holding, InHands

-----------------------------------------------------------------------------
(***************************************************************************)
(* Calls keep their types.                                                 *)
(***************************************************************************)
LEMMA AskTypes ==
    ASSUME ResponseTypeOK, NEW r \in Reader, NEW lost, Ask(r, lost)
    PROVE  ResponseTypeOK'
<1>1. r.p \in Process /\ r.kind \in Kinds
  BY ReaderIs
<1> DEFINE found == Found(r, lost)
           new == IF found = NoAnswer THEN [at |-> "miss"]
                  ELSE [at |-> "hit", answer |-> found, late |-> found.late]
<1>2. found \in Answers \cup {NoAnswer}
  BY <1>1 DEF Found, ResponseTypeOK
<1>3. new \in Waiting \cup InHands
  <2> HIDE DEF found
  <2>1. CASE found = NoAnswer
    BY <2>1, InHandIs
  <2>2. CASE found # NoAnswer
    <3>1. found \in Answers /\ found.late \in 0 .. 2
      BY <1>2, <2>2 DEF Answers
    <3> QED  BY <2>2, <3>1, InHandIs
  <2> QED  BY <2>1, <2>2
<1>4. reader' = [reader EXCEPT ![r] = new]
  BY DEF Ask
<1> HIDE DEF new, found
<1> QED  BY <1>3, <1>4 DEF Ask, ResponseTypeOK, answerVars, lookupVars

LEMMA IdleTypes ==
    ASSUME ResponseTypeOK, NEW r \in Reader, Idle(r)
    PROVE  reader' \in [Reader -> Waiting \cup Holding \cup InHands]
  BY InHandIs DEF Idle, ResponseTypeOK

LEMMA KeepFoundTypes ==
    ASSUME ResponseTypeOK, NEW r \in Reader, KeepFound(r)
    PROVE  ResponseTypeOK'
<1>1. InHand(r)
  BY DEF KeepFound, InHand
<1>2. Kept(r) \in Answers /\ r.p \in Process
  BY <1>1, KeptIs, ReaderIs
<1> QED  BY <1>2, IdleTypes DEF KeepFound, ResponseTypeOK, lookupVars

LEMMA KeepInMemoryTypes ==
    ASSUME ResponseTypeOK, NEW r \in Reader, KeepInMemory(r)
    PROVE  ResponseTypeOK'
<1>1. InHand(r) /\ reader[r].at = "keep_ram"
  BY DEF KeepInMemory, InHand
<1>2. Kept(r) \in Answers /\ r.p \in Process /\ reader[r] \in InHands
  BY <1>1, KeptIs, ReaderIs
<1> DEFINE new == [reader[r] EXCEPT !.at = "keep_redis"]
<1>3. new \in InHands
  BY <1>2 DEF InHands
<1>4. reader' = [reader EXCEPT ![r] = new]
  BY DEF KeepInMemory, Goes
<1> HIDE DEF new
<1> QED  BY <1>2, <1>3, <1>4 DEF KeepInMemory, ResponseTypeOK, lookupVars

LEMMA KeepTypes ==
    ASSUME ResponseTypeOK, NEW p \in Process, NEW kind \in Kinds, NEW a \in Answers,
           NEW lost, Keep(p, kind, a, lost)
    PROVE  /\ redis' \in [Kinds -> Answers \cup {NoAnswer}]
           /\ spare' \in [Process -> [Kinds -> Answers \cup {NoAnswer}]]
<1> DEFINE A == Answers \cup {NoAnswer}
<1>1. a \in A /\ redis \in [Kinds -> A] /\ spare \in [Process -> [Kinds -> A]]
  BY DEF ResponseTypeOK
<1> HIDE DEF A
<1>2. CASE lost
  <2>1. spare' = [spare EXCEPT ![p][kind] = a] /\ redis' = redis
    BY <1>2 DEF Keep
  <2> QED  BY <1>1, <2>1 DEF A
<1>3. CASE ~ lost
  <2>1. redis' = [redis EXCEPT ![kind] = a] /\ spare' = spare
    BY <1>3 DEF Keep
  <2> QED  BY <1>1, <2>1 DEF A
<1> QED  BY <1>2, <1>3

LEMMA KeepInRedisTypes ==
    ASSUME ResponseTypeOK, NEW r \in Reader, NEW lost, KeepInRedis(r, lost)
    PROVE  ResponseTypeOK'
<1>1. InHand(r)
  BY DEF KeepInRedis, InHand
<1>2. Kept(r) \in Answers /\ r.p \in Process /\ r.kind \in Kinds
  BY <1>1, KeptIs, ReaderIs
<1>3. Keep(r.p, r.kind, Kept(r), lost) /\ Idle(r) /\ ram' = ram /\ UNCHANGED lookupVars
  BY DEF KeepInRedis
<1>4. /\ redis' \in [Kinds -> Answers \cup {NoAnswer}]
      /\ spare' \in [Process -> [Kinds -> Answers \cup {NoAnswer}]]
  <2> DEFINE p == r.p
             kind == r.kind
             a == Kept(r)
  <2>1. p \in Process /\ kind \in Kinds /\ a \in Answers /\ Keep(p, kind, a, lost)
    BY <1>2, <1>3
  <2> HIDE DEF p, kind, a
  <2> QED  BY <2>1, KeepTypes
<1> QED  BY <1>3, <1>4, IdleTypes DEF ResponseTypeOK, lookupVars

LEMMA RememberedIs ==
    ASSUME ResponseTypeOK, Sources, NEW p \in Process
    PROVE  Remembered(p) \in Nat
<1>1. Truth.date \in Nat
  BY TruthIs DEF View
<1> QED  BY <1>1 DEF Remembered, ResponseTypeOK

LEMMA CurrentIs ==
    ASSUME NEW v \in View, NEW late \in 0 .. 2
    PROVE  Current(v) \in Lookups /\ [Current(v) EXCEPT !.late = late] \in Lookups
<1>1. v.known \in SUBSET SomeId /\ v.date \in Nat
  BY DEF View
<1>2. Current(v) \in Lookups
  BY <1>1 DEF Current, Lookups
<1> QED  BY <1>2 DEF Lookups

LEMMA ReadLookupsTypes ==
    ASSUME ResponseTypeOK, Sources, NEW r \in Reader, ReadLookups(r)
    PROVE  ResponseTypeOK'
<1> DEFINE l == lookups[r.p]
           dated == l.expired /\ r.kind = "sales"
           date == IF dated THEN Remembered(r.p) ELSE l.date
<1>1. r.p \in Process /\ l \in Lookups \cup {NoLookups}
  BY ReaderIs DEF ResponseTypeOK
<1>2. UNCHANGED <<answerVars, lookups>>
  BY DEF ReadLookups
<1>3. CASE l = NoLookups
  <2>1. /\ reader' = [reader EXCEPT ![r] = [at |-> "fetched", seen |-> Truth, late |-> 0]]
        /\ memo' = memo /\ refresh' = refresh
    BY <1>3 DEF ReadLookups
  <2>2. [at |-> "fetched", seen |-> Truth, late |-> 0] \in Holding
    BY TruthIs DEF Holding
  <2> QED  BY <1>2, <2>1, <2>2 DEF ResponseTypeOK, answerVars
<1>4. CASE l # NoLookups
  <2>1. l \in Lookups
    BY <1>1, <1>4
  <2>2. date \in Nat
    BY <1>1, <2>1, RememberedIs DEF Lookups
  <2> DEFINE new == [at |-> "query", seen |-> [known |-> l.known, date |-> date], late |-> l.late]
  <2>3. /\ reader' = [reader EXCEPT ![r] = new]
        /\ memo' = IF dated THEN [memo EXCEPT ![r.p] = date] ELSE memo
        /\ refresh' = IF l.expired /\ refresh[r.p].at = "idle"
                      THEN [refresh EXCEPT ![r.p] = [at |-> "asked"]] ELSE refresh
    BY <1>4 DEF ReadLookups
  <2> HIDE DEF date, dated
  <2>4. new \in Holding
    <3>1. [known |-> l.known, date |-> date] \in View /\ l.late \in 0 .. 2
      BY <2>1, <2>2 DEF View, Lookups
    <3> HIDE DEF l
    <3> QED  BY <3>1, InHandIs
  <2> HIDE DEF new, l
  <2>5. reader' \in [Reader -> Waiting \cup Holding \cup InHands]
    BY <2>3, <2>4 DEF ResponseTypeOK
  <2>6. memo' \in [Process -> Nat]
    BY <1>1, <2>2, <2>3 DEF ResponseTypeOK
  <2>7. refresh' \in [Process -> Waiting \cup Holding]
    BY <1>1, <2>3, InHandIs DEF ResponseTypeOK
  <2> QED  BY <1>2, <2>5, <2>6, <2>7 DEF ResponseTypeOK, answerVars
<1> QED  BY <1>3, <1>4

LEMMA InstallLookupsTypes ==
    ASSUME ResponseTypeOK, NEW r \in Reader, InstallLookups(r)
    PROVE  ResponseTypeOK'
<1>1. reader[r].at = "fetched" /\ r.p \in Process /\ reader[r] \in Holding
  BY ReaderIs DEF InstallLookups
<1>2. reader[r].seen \in View /\ reader[r].late \in 0 .. 2
  BY <1>1 DEF Holding
<1> DEFINE new == [reader[r] EXCEPT !.at = "query"]
           l == [Current(reader[r].seen) EXCEPT !.late = reader[r].late]
<1>3. new \in Holding
  BY <1>1 DEF Holding
<1>4. l \in Lookups
  BY <1>2, CurrentIs
<1>5. reader' = [reader EXCEPT ![r] = new] /\ lookups' = [lookups EXCEPT ![r.p] = l]
      /\ UNCHANGED <<answerVars, memo, refresh>>
  BY DEF InstallLookups, Goes
<1> HIDE DEF new, l
<1> QED  BY <1>1, <1>3, <1>4, <1>5 DEF ResponseTypeOK, answerVars

LEMMA QueryTypes ==
    ASSUME ResponseTypeOK, Sources, NEW r \in Reader, NEW lost \in BOOLEAN, Query(r, lost)
    PROVE  ResponseTypeOK'
<1>1. reader[r].at = "query" /\ reader[r] \in Holding /\ UNCHANGED <<answerVars, lookupVars>>
  BY ReaderIs DEF Query
<1>2. reader[r].seen \in View /\ reader[r].late \in 0 .. 2
  BY <1>1 DEF Holding
<1> DEFINE shown == IF lost THEN {} ELSE Shown(r.kind, reader[r].seen)
           answer == [facts |-> shown, seen |-> reader[r].seen, whole |-> ~lost, late |-> 0]
           new == [at |-> IF r.kind = "sales" THEN "keep_ram" ELSE "keep_redis",
                   answer |-> answer, late |-> reader[r].late]
<1>3. shown \in SUBSET (Nat \X Nat)
  BY ShownIs
<1>4. Idle(r) \/ reader' = [reader EXCEPT ![r] = new]
  BY DEF Query
<1> HIDE DEF shown
<1>5. answer \in Answers
  BY <1>2, <1>3 DEF Answers
<1> HIDE DEF answer
<1>6. new \in InHands
  BY <1>2, <1>5, InHandIs
<1> HIDE DEF new
<1>7. reader' \in [Reader -> Waiting \cup Holding \cup InHands]
  BY <1>4, <1>6, IdleTypes DEF ResponseTypeOK
<1> QED  BY <1>1, <1>7 DEF ResponseTypeOK, answerVars, lookupVars

LEMMA RequestTypes ==
    ASSUME ResponseTypeOK, Sources, NEW r \in Reader, NEW lost \in BOOLEAN, RequestStep(r, lost)
    PROVE  ResponseTypeOK'
  BY QueryTypes, KeepInRedisTypes, KeepFoundTypes, ReadLookupsTypes, InstallLookupsTypes,
     KeepInMemoryTypes, Zenon DEF RequestStep

LEMMA RefreshTypes ==
    ASSUME ResponseTypeOK, Sources, NEW p \in Process, RefreshLookups(p)
    PROVE  ResponseTypeOK'
<1>1. UNCHANGED <<answerVars, memo, reader>>
  BY DEF RefreshLookups
<1>2. CASE refresh[p].at = "asked"
  <2>1. /\ refresh' = [refresh EXCEPT ![p] = [at |-> "fetched", seen |-> Truth, late |-> 0]]
        /\ lookups' = lookups
    BY <1>2 DEF RefreshLookups
  <2>2. [at |-> "fetched", seen |-> Truth, late |-> 0] \in Holding
    BY TruthIs DEF Holding
  <2> QED  BY <1>1, <2>1, <2>2 DEF ResponseTypeOK, answerVars
<1>3. CASE refresh[p].at = "fetched"
  <2> DEFINE l == [Current(refresh[p].seen) EXCEPT !.late = refresh[p].late]
  <2>1. /\ refresh' = [refresh EXCEPT ![p] = [at |-> "idle"]]
        /\ lookups' = [lookups EXCEPT ![p] = l]
    BY <1>3 DEF RefreshLookups
  <2>2. refresh[p].seen \in View /\ refresh[p].late \in 0 .. 2
    <3>1. refresh[p] \in Holding
      BY <1>3 DEF ResponseTypeOK, Waiting
    <3> QED  BY <3>1 DEF Holding
  <2>3. l \in Lookups
    BY <2>2, CurrentIs
  <2> HIDE DEF l
  <2> QED  BY <1>1, <2>1, <2>3, InHandIs DEF ResponseTypeOK, answerVars
<1> QED  BY <1>2, <1>3 DEF RefreshLookups

\* What a clearing marks.
LEMMA LateTypes ==
    ASSUME ResponseTypeOK, NEW p \in Process, NEW n \in {1, 2}, NEW T,
           \A r \in T : Wrong(r, p)
    PROVE  Late(T, n) \in [Reader -> Waiting \cup Holding \cup InHands]
<1>1. ASSUME NEW r \in Reader, r \in T
      PROVE  [reader[r] EXCEPT !.late = MaxOf({@, n})] \in Holding \cup InHands
  <2>1. reader[r] \in Holding \cup InHands
    BY <1>1, ReaderIs DEF Wrong
  <2>2. reader[r].late \in 0 .. 2
    BY <2>1 DEF Holding, InHands
  <2> DEFINE late == MaxOf({reader[r].late, n})
  <2>3. late \in 0 .. 2
    BY <2>2, LaterIs
  <2> HIDE DEF late
  <2>4. [reader[r] EXCEPT !.late = late] \in Holding \cup InHands
    BY <2>1, <2>3 DEF Holding, InHands
  <2> QED  BY <2>4 DEF late
<1>2. \A r \in Reader : reader[r] \in Waiting \cup Holding \cup InHands
  BY DEF ResponseTypeOK
<1> QED  BY <1>1, <1>2 DEF Late

LEMMA LateRefreshTypes ==
    ASSUME ResponseTypeOK, NEW p \in Process, NEW n \in {1, 2}
    PROVE  LateRefresh(p, n) \in [Process -> Waiting \cup Holding]
<1>1. CASE refresh[p].at = "fetched" /\ Outdated(refresh[p].seen)
  <2>1. refresh[p] \in Holding
    BY <1>1 DEF ResponseTypeOK, Waiting
  <2>2. refresh[p].late \in 0 .. 2
    BY <2>1 DEF Holding
  <2> DEFINE late == MaxOf({refresh[p].late, n})
  <2>3. late \in 0 .. 2
    BY <2>2, LaterIs
  <2>4. LateRefresh(p, n) = [refresh EXCEPT ![p].late = late]
    BY <1>1 DEF LateRefresh
  <2> HIDE DEF late
  <2> DEFINE new == [refresh[p] EXCEPT !.late = late]
  <2>5. new \in Holding
    BY <2>1, <2>3 DEF Holding
  <2>6. LateRefresh(p, n) = [refresh EXCEPT ![p] = new]
    BY <2>4
  <2> HIDE DEF new
  <2> QED  BY <2>5, <2>6 DEF ResponseTypeOK
<1>2. CASE ~ (refresh[p].at = "fetched" /\ Outdated(refresh[p].seen))
  <2>1. LateRefresh(p, n) = refresh
    BY <1>2 DEF LateRefresh
  <2> QED  BY <2>1 DEF ResponseTypeOK
<1> QED  BY <1>1, <1>2

LEMMA LateLookupsTypes ==
    ASSUME ResponseTypeOK, NEW p \in Process, NEW n \in {1, 2}
    PROVE  LateLookups(p, n) \in [Process -> Lookups \cup {NoLookups}]
<1> DEFINE marked == /\ lookups[p] # NoLookups /\ (n = 1 \/ lookups[p].late = 1)
                     /\ Outdated(lookups[p])
<1>1. CASE marked
  <2>1. lookups[p] \in Lookups
    BY <1>1 DEF ResponseTypeOK
  <2>2. lookups[p].late \in 0 .. 2
    BY <2>1 DEF Lookups
  <2> DEFINE late == MaxOf({lookups[p].late, n})
  <2>3. late \in 0 .. 2
    BY <2>2, LaterIs
  <2>4. LateLookups(p, n) = [lookups EXCEPT ![p].late = late]
    BY <1>1 DEF LateLookups
  <2> HIDE DEF late
  <2> DEFINE new == [lookups[p] EXCEPT !.late = late]
  <2>5. new \in Lookups
    BY <2>1, <2>3 DEF Lookups
  <2>6. LateLookups(p, n) = [lookups EXCEPT ![p] = new]
    BY <2>4
  <2> HIDE DEF new
  <2> QED  BY <2>5, <2>6 DEF ResponseTypeOK
<1>2. CASE ~ marked
  <2>1. LateLookups(p, n) = lookups
    BY <1>2 DEF LateLookups
  <2> QED  BY <2>1 DEF ResponseTypeOK
<1> QED  BY <1>1, <1>2

LEMMA PurgeTypes ==
    ASSUME ResponseTypeOK, NEW p \in Process, NEW kind \in Kinds, NEW n \in {1, 2}, NEW lost,
           PurgeRedis(p, kind, n, lost) \/ PurgeMemory(p, n)
    PROVE  ResponseTypeOK'
<1>1. \A T : (\A r \in T : Wrong(r, p)) => Late(T, n) \in [Reader -> Waiting \cup Holding \cup InHands]
  BY LateTypes
<1>2. /\ LateRefresh(p, n) \in [Process -> Waiting \cup Holding]
      /\ LateLookups(p, n) \in [Process -> Lookups \cup {NoLookups}]
  BY LateRefreshTypes, LateLookupsTypes
<1>3. CASE PurgeRedis(p, kind, n, lost)
  <2>1. reader' \in [Reader -> Waiting \cup Holding \cup InHands]
    BY <1>1, <1>3 DEF PurgeRedis
  <2>2. /\ redis' = IF lost THEN redis ELSE [redis EXCEPT ![kind] = NoAnswer]
        /\ spare' = [spare EXCEPT ![p][kind] = NoAnswer]
        /\ refresh' = LateRefresh(p, n) /\ lookups' = LateLookups(p, n)
        /\ ram' = ram /\ memo' = memo
    BY <1>3 DEF PurgeRedis
  <2>3. spare' \in [Process -> [Kinds -> Answers \cup {NoAnswer}]]
        /\ redis' \in [Kinds -> Answers \cup {NoAnswer}]
    BY <2>2 DEF ResponseTypeOK
  <2> QED  BY <1>2, <2>1, <2>2, <2>3 DEF ResponseTypeOK
<1>4. CASE PurgeMemory(p, n)
  <2>1. reader' \in [Reader -> Waiting \cup Holding \cup InHands]
    BY <1>1, <1>4 DEF PurgeMemory
  <2>2. /\ ram' = [ram EXCEPT ![p] = NoAnswer] /\ lookups' = [lookups EXCEPT ![p] = NoLookups]
        /\ refresh' = LateRefresh(p, n) /\ UNCHANGED <<redis, spare, memo>>
    BY <1>4 DEF PurgeMemory
  <2> QED  BY <1>2, <2>1, <2>2 DEF ResponseTypeOK
<1> QED  BY <1>3, <1>4

LEMMA PrewarmTypes ==
    ASSUME ResponseTypeOK, Sources, NEW p \in Process, NEW lost \in BOOLEAN, Prewarm(p, lost)
    PROVE  ResponseTypeOK'
<1>1. Remembered(p) \in Nat /\ Truth \in View
  BY RememberedIs, TruthIs
<1> DEFINE seen == [known |-> Truth.known, date |-> Remembered(p)]
           answer(whole) == [facts |-> IF whole THEN Shown("companies", seen) ELSE {},
                             seen |-> seen, whole |-> whole, late |-> 0]
<1>2. PICK whole \in BOOLEAN : Keep(p, "companies", answer(whole), lost /\ whole)
  BY DEF Prewarm
<1>3. seen \in View
  BY <1>1 DEF View
<1>4. answer(whole) \in Answers
  <2> HIDE DEF seen
  <2>1. Shown("companies", seen) \in SUBSET (Nat \X Nat)
    BY ShownIs
  <2> QED  BY <1>3, <2>1 DEF Answers
<1> DEFINE a == answer(whole)
           failed == lost /\ whole
<1>5. a \in Answers /\ Keep(p, "companies", a, failed) /\ "companies" \in Kinds
  BY <1>2, <1>4 DEF Kinds
<1> HIDE DEF a, failed
<1>6. /\ redis' \in [Kinds -> Answers \cup {NoAnswer}]
      /\ spare' \in [Process -> [Kinds -> Answers \cup {NoAnswer}]]
  BY <1>5, KeepTypes
<1>7. /\ memo' = [memo EXCEPT ![p] = Remembered(p)]
      /\ lookups' = IF lookups[p] = NoLookups THEN [lookups EXCEPT ![p] = Current(Truth)] ELSE lookups
      /\ UNCHANGED <<ram, refresh, reader>>
  BY DEF Prewarm
<1>8. Current(Truth) \in Lookups
  <2>1. Truth \in View /\ 0 \in 0 .. 2
    BY <1>1
  <2> QED  BY <2>1, CurrentIs, Zenon
<1>9. memo' \in [Process -> Nat]
  BY <1>1, <1>7 DEF ResponseTypeOK
<1> DEFINE now == Current(Truth)
<1>10. now \in Lookups /\ (lookups' = lookups \/ lookups' = [lookups EXCEPT ![p] = now])
  BY <1>7, <1>8
<1> HIDE DEF now
<1>11. lookups' \in [Process -> Lookups \cup {NoLookups}]
  BY <1>10 DEF ResponseTypeOK
<1>12. UNCHANGED <<ram, refresh, reader>>
  BY <1>7
<1> QED  BY <1>6, <1>9, <1>11, <1>12 DEF ResponseTypeOK

LEMMA ExpiryTypes ==
    ASSUME ResponseTypeOK, NEW k \in Kinds, NEW p \in Process, Expiring(k, p)
    PROVE  ResponseTypeOK'
<1>1. CASE ExpireRedis(k)
  BY <1>1 DEF ExpireRedis, ResponseTypeOK, lookupVars
<1>2. CASE ExpireMemory(p)
  BY <1>2 DEF ExpireMemory, ResponseTypeOK, lookupVars
<1>3. CASE ExpireSpare(p, k)
  BY <1>3 DEF ExpireSpare, ResponseTypeOK, lookupVars
<1>4. CASE ExpireLookups(p)
  <2> DEFINE new == [lookups[p] EXCEPT !.expired = TRUE]
  <2>1. lookups[p] \in Lookups
    BY <1>4 DEF ExpireLookups, ResponseTypeOK
  <2>2. new \in Lookups
    BY <2>1 DEF Lookups
  <2>3. lookups' = [lookups EXCEPT ![p] = new] /\ UNCHANGED <<answerVars, memo, refresh, reader>>
    BY <1>4 DEF ExpireLookups
  <2> HIDE DEF new
  <2> QED  BY <2>2, <2>3 DEF ResponseTypeOK, answerVars
<1>5. CASE ExpireMemo(p)
  BY <1>5 DEF ExpireMemo, ResponseTypeOK, answerVars
<1> QED  BY <1>1, <1>2, <1>3, <1>4, <1>5 DEF Expiring

-----------------------------------------------------------------------------
(***************************************************************************)
(* The types of the whole.                                                 *)
(***************************************************************************)
CallsInv ==
    /\ ResponseTypeOK /\ IsFiniteSet(facts) /\ IsFiniteSet(summary) /\ edited \in BOOLEAN
    /\ \A r \in Reader : reader[r].at # "idle" => r \in mix.readers

LEMMA SoldAre ==
    ASSUME SalesInv
    PROVE  /\ facts \subseteq Sold /\ summary \subseteq Sold /\ credited \subseteq SoldBy
           /\ \A s \in facts \cup summary : s.import \in Import => s \in Sales(s.import)
           /\ Overlapped \/ summary \subseteq facts \cup mix.sales.summary
<1>1. /\ mix.sales.summary \subseteq Sold /\ mix.sales.credited \subseteq SoldBy
      /\ \A s \in mix.sales.summary : s.import \notin Import
  BY DeskAssumption DEF SalesInv, Basic, MasterTypeOK
<1>2. ASSUME NEW s \in facts, s \notin mix.sales.summary
      PROVE  s \in Sold /\ s \in Sales(s.import)
  <2>1. s.import \in Import /\ Through(s.import, Published) /\ s \in Sales(s.import)
    BY <1>2 DEF SalesInv, PublishedInv
  <2> DEFINE i == s.import
  <2>2. Begun(i)
    BY <2>1, AcceptedAre DEF Begun, At, Through
  <2>3. i \in Import /\ s \in Sales(i) /\ Basic
    BY <2>1 DEF SalesInv
  <2> HIDE DEF i
  <2>4. s \in Sold
    BY <2>2, <2>3, SalesAre
  <2> QED  BY <2>1, <2>4
<1>3. ASSUME NEW s \in summary, s \notin mix.sales.summary
      PROVE  s \in Sold /\ s \in Sales(s.import) /\ (~ Overlapped => s \in facts)
  <2>1. s.import \in Import /\ Begun(s.import) /\ s \in Sales(s.import) /\ (~ Overlapped => s \in facts)
    BY <1>3 DEF SalesInv, SummaryInv
  <2> DEFINE i == s.import
  <2>2. i \in Import /\ Begun(i) /\ s \in Sales(i) /\ Basic
    BY <2>1 DEF SalesInv
  <2> HIDE DEF i
  <2>3. s \in Sold
    BY <2>2, SalesAre
  <2> QED  BY <2>1, <2>3
<1>4. credited \subseteq SoldBy
  BY <1>1 DEF SalesInv, CreditedInv
<1> QED  BY <1>1, <1>2, <1>3, <1>4

LEMMA SourcesAre ==
    ASSUME SalesInv, CallsInv
    PROVE  Sources
  BY SoldAre DEF Sources, CallsInv, SalesInv, Basic, MasterTypeOK

LEMMA SalesAreFinite ==
    ASSUME Basic, NEW i \in Import, Begun(i)
    PROVE  /\ IsFiniteSet(Sales(i)) /\ IsFiniteSet(Dates(i)) /\ Dates(i) \in SUBSET Nat
<1> DEFINE N == Len(Sheet(i))
           f == [k \in 1 .. N |-> [import |-> i, row |-> k, date |-> Sheet(i)[k].date]]
<1>1. N \in Nat /\ DOMAIN Sheet(i) = 1 .. N
  BY SheetOf, SheetFacts
<1>2. f \in [1 .. N -> {f[k] : k \in 1 .. N}] /\ Sales(i) = {f[k] : k \in 1 .. N}
  BY <1>1 DEF Sales
<1> HIDE DEF f, N
<1>3. IsFiniteSet(Sales(i))
  BY <1>1, <1>2, FiniteImage
<1>4. Sales(i) \in SUBSET Sold
  BY SalesAre
<1> QED  BY <1>3, <1>4, DatesAreFinite DEF Dates

\* Nothing but a call changes who calls.
LEMMA LateKeeps ==
    ASSUME ResponseTypeOK, NEW p \in Process, NEW n, NEW T, \A r \in T : Wrong(r, p), NEW r \in Reader
    PROVE  Late(T, n)[r].at = reader[r].at
<1>1. CASE r \in T
  <2>1. reader[r] \in Holding \cup InHands
    BY <1>1, ReaderIs DEF Wrong
  <2> QED  BY <1>1, <2>1 DEF Late, Holding, InHands
<1>2. CASE r \notin T
  BY <1>2 DEF Late
<1> QED  BY <1>1, <1>2

LEMMA PurgeKeeps ==
    ASSUME ResponseTypeOK, NEW p \in Process, NEW kind, NEW n, NEW lost,
           PurgeRedis(p, kind, n, lost) \/ PurgeMemory(p, n), NEW r \in Reader
    PROVE  reader'[r].at = reader[r].at
<1>1. \A T : (\A q \in T : Wrong(q, p)) => Late(T, n)[r].at = reader[r].at
  BY LateKeeps
<1>2. CASE PurgeRedis(p, kind, n, lost)
  BY <1>1, <1>2 DEF PurgeRedis
<1>3. CASE PurgeMemory(p, n)
  BY <1>1, <1>3 DEF PurgeMemory
<1> QED  BY <1>2, <1>3

\* An import's own call to the caches.
LEMMA DeskTypes ==
    ASSUME SalesInv, CallsInv, NEW i \in Import, NEW lost \in BOOLEAN, DeskStep(i, lost)
    PROVE  /\ ResponseTypeOK' /\ IsFiniteSet(facts') /\ IsFiniteSet(summary')
           /\ \A r \in Reader : reader'[r].at = reader[r].at
<1>0. /\ ResponseTypeOK /\ IsFiniteSet(facts) /\ IsFiniteSet(summary) /\ Sources /\ Basic
  BY SourcesAre DEF CallsInv, SalesInv
<1> DEFINE p == import[i].p
           Calls == UNCHANGED <<answerVars, lookupVars, reader>>
           Sold0 == IsFiniteSet(facts') /\ IsFiniteSet(summary')
           Same == \A r \in Reader : reader'[r].at = reader[r].at
           Goal == ResponseTypeOK' /\ Sold0 /\ Same
<1> SUFFICES Goal
  OBVIOUS
<1> HIDE DEF Goal
<1>1. p \in Process /\ "sales" \in Kinds /\ "companies" \in Kinds
  BY <1>0, ImportIs DEF Kinds
<1>2. ASSUME Calls PROVE ResponseTypeOK' /\ Same
  BY <1>0, <1>2 DEF ResponseTypeOK, answerVars, lookupVars
<1>3. CASE Validate(i, lost) \/ Credit(i, lost) \/ SyncTerritory(i, lost)
  <2>1. Calls /\ facts' = facts /\ summary' = summary
    BY <1>3 DEF Validate, Credit, SyncTerritory, responseVars, sourceVars, deskVars
  <2> QED  BY <1>0, <1>2, <2>1 DEF Goal
<1>4. CASE Aggregate(i, lost)
  <2>1. Calls /\ facts' = facts /\ summary' \in SUBSET (summary \cup facts)
    BY <1>4 DEF Aggregate, deskVars
  <2>2. IsFiniteSet(summary \cup facts)
    BY <1>0, FS_Union
  <2>3. IsFiniteSet(summary')
    BY <2>1, <2>2, FS_Subset
  <2> QED  BY <1>0, <1>2, <2>1, <2>3 DEF Goal
<1>5. CASE Publish(i)
  <2>1. Calls /\ facts' = facts \cup Sales(i) /\ summary' = summary /\ At(i, "publish")
    BY <1>5 DEF Publish, Follows, responseVars, sourceVars
  <2>2. IsFiniteSet(Sales(i))
    BY <1>0, <2>1, SalesAreFinite DEF Begun, At
  <2>3. IsFiniteSet(facts')
    BY <1>0, <2>1, <2>2, FS_Union
  <2> QED  BY <1>0, <1>2, <2>1, <2>3 DEF Goal
<1>6. CASE Withdraw(i)
  <2>1. Calls /\ facts' \in SUBSET facts /\ summary' = summary
    BY <1>6 DEF Withdraw
  <2>2. IsFiniteSet(facts')
    BY <1>0, <2>1, FS_Subset
  <2> QED  BY <1>0, <1>2, <2>1, <2>2 DEF Goal
<1>7. ASSUME UNCHANGED deskVars, summary' = summary PROVE Sold0
  BY <1>0, <1>7 DEF deskVars
<1>8. CASE Clear(i, lost)
  <2>1. Sold0
    BY <1>7, <1>8 DEF Clear, PurgeRedis, PurgeMemory, sourceVars
  <2>2. \E kind \in Kinds : PurgeRedis(p, kind, 1, lost) \/ PurgeMemory(p, 1)
    BY <1>1, <1>8, Zenon DEF Clear
  <2> HIDE DEF p
  <2>3. ResponseTypeOK' /\ Same
    BY <1>0, <1>1, <2>2, PurgeTypes, PurgeKeeps
  <2> QED  BY <2>1, <2>3 DEF Goal
<1>9. CASE ClearAgain(i, lost)
  <2>1. Sold0
    BY <1>7, <1>9 DEF ClearAgain, PurgeRedis, PurgeMemory, sourceVars
  <2>2. \E kind \in Kinds : PurgeRedis(p, kind, 2, lost) \/ PurgeMemory(p, 2)
    BY <1>1, <1>9, Zenon DEF ClearAgain
  <2> HIDE DEF p
  <2>3. ResponseTypeOK' /\ Same
    BY <1>0, <1>1, <2>2, PurgeTypes, PurgeKeeps
  <2> QED  BY <2>1, <2>3 DEF Goal
<1>10. CASE SetLatestDate(i)
  <2>1. /\ memo' = [memo EXCEPT ![p] = MaxOf(Dates(i))] /\ At(i, "date")
        /\ UNCHANGED <<answerVars, lookups, refresh, reader>> /\ Sold0
    BY <1>0, <1>10 DEF SetLatestDate, RememberDate, Follows, sourceVars, deskVars
  <2>2. Dates(i) \in SUBSET Nat /\ IsFiniteSet(Dates(i))
    BY <1>0, <2>1, SalesAreFinite DEF Begun, At
  <2>3. MaxOf(Dates(i)) \in Nat
    <3> DEFINE D == Dates(i)
    <3> HIDE DEF D
    <3>1. MaxOf(D) \in Nat
      BY <2>2, MaxIs DEF D
    <3> QED  BY <3>1 DEF D
  <2> QED  BY <1>0, <1>1, <2>1, <2>3 DEF ResponseTypeOK, answerVars, Goal
<1>11. CASE Finish(i, lost)
  <2>1. Prewarm(p, lost) /\ reader' = reader /\ Sold0
    BY <1>0, <1>11 DEF Finish, Prewarm, sourceVars, deskVars
  <2> HIDE DEF p
  <2>2. ResponseTypeOK'
    BY <1>0, <1>1, <2>1, PrewarmTypes
  <2> QED  BY <2>1, <2>2 DEF Goal
<1>12. \/ Validate(i, lost) \/ Credit(i, lost) \/ SyncTerritory(i, lost)
       \/ Aggregate(i, lost) \/ Publish(i) \/ Withdraw(i)
       \/ Clear(i, lost) \/ ClearAgain(i, lost) \/ SetLatestDate(i) \/ Finish(i, lost)
  BY Zenon DEF DeskStep
<1> QED  BY <1>3, <1>4, <1>5, <1>6, <1>8, <1>9, <1>10, <1>11, <1>12, Zenon

\* A call changes nobody else's.
LEMMA OnlyCaller ==
    ASSUME ResponseTypeOK, NEW r \in Reader, NEW lost, Ask(r, lost) \/ RequestStep(r, lost),
           NEW q \in Reader \ {r}
    PROVE  reader'[q] = reader[q]
<1>1. \A new : [reader EXCEPT ![r] = new][q] = reader[q]
  BY DEF ResponseTypeOK
<1>2. \A at : [reader EXCEPT ![r].at = at][q] = reader[q]
  BY DEF ResponseTypeOK
<1>3. CASE Ask(r, lost)
  BY <1>1, <1>3 DEF Ask
<1>4. CASE Query(r, lost)
  BY <1>1, <1>4 DEF Query, Idle
<1>5. CASE KeepInRedis(r, lost)
  BY <1>1, <1>5 DEF KeepInRedis, Idle
<1>6. CASE KeepFound(r)
  BY <1>1, <1>6 DEF KeepFound, Idle
<1>7. CASE ReadLookups(r)
  BY <1>1, <1>7 DEF ReadLookups
<1>8. CASE InstallLookups(r)
  BY <1>2, <1>8 DEF InstallLookups, Goes
<1>9. CASE KeepInMemory(r)
  BY <1>2, <1>9 DEF KeepInMemory, Goes
<1> HIDE DEF Ask
<1> QED  BY <1>3, <1>4, <1>5, <1>6, <1>7, <1>8, <1>9, Zenon DEF RequestStep

LEMMA CallsInitially == Init => CallsInv
<1> SUFFICES ASSUME Init PROVE CallsInv
  OBVIOUS
<1>1. mix \in Mixes /\ facts = mix.sales.summary /\ summary = mix.sales.summary /\ edited = FALSE
  BY DEF Init, MasterInit, ResponseInit
<1>2. IsFiniteSet(mix.sales.summary)
  BY <1>1, DeskAssumption
<1>3. ResponseInit
  BY DEF Init
<1>4. [at |-> "idle"] \in Waiting
  BY DEF Waiting
<1>5. ResponseTypeOK
  BY <1>3, <1>4 DEF ResponseInit, ResponseTypeOK
<1>6. \A r \in Reader : reader[r].at = "idle"
  BY <1>3 DEF ResponseInit
<1> QED  BY <1>1, <1>2, <1>5, <1>6 DEF CallsInv

LEMMA CallsStep == SalesInv /\ CallsInv /\ [Next]_vars => CallsInv'
<1> SUFFICES ASSUME SalesInv, CallsInv, [Next]_vars PROVE CallsInv'
  OBVIOUS
<1> DEFINE Caller == \A r \in Reader : reader'[r].at # "idle" => r \in mix.readers
           Goal == ResponseTypeOK' /\ IsFiniteSet(facts') /\ IsFiniteSet(summary')
                   /\ edited' \in BOOLEAN /\ Caller
<1>0. /\ Sources /\ ResponseTypeOK /\ IsFiniteSet(facts) /\ IsFiniteSet(summary)
      /\ edited \in BOOLEAN /\ mix' = mix /\ mix \in Mixes
      /\ \A r \in Reader : reader[r].at # "idle" => r \in mix.readers
  BY SourcesAre, Keeps DEF CallsInv, SalesInv, Basic, MasterTypeOK
<1>1. /\ mix.imports \subseteq Import /\ mix.processes \subseteq Process /\ mix.readers \subseteq Reader
  BY <1>0, DeskAssumption, MasterAssumption
<1> SUFFICES Goal
  BY <1>0 DEF CallsInv
<1>2. ASSUME UNCHANGED responseVars, facts' = facts, edited' \in BOOLEAN PROVE Goal
  BY <1>0, <1>2 DEF responseVars, sourceVars, answerVars, lookupVars, ResponseTypeOK
<1>3. ASSUME UNCHANGED <<facts, summary, edited, reader>>, ResponseTypeOK' PROVE Goal
  BY <1>0, <1>3
<1>4. ASSUME NEW r \in mix.readers, NEW lost \in BOOLEAN, Ask(r, lost) \/ RequestStep(r, lost),
             UNCHANGED <<facts, summary, edited>>
      PROVE  Goal
  <2>1. r \in Reader
    BY <1>1
  <2>2. ResponseTypeOK'
    BY <1>0, <1>4, <2>1, AskTypes, RequestTypes, Zenon
  <2>3. \A q \in Reader \ {r} : reader'[q] = reader[q]
    BY <1>0, <1>4, <2>1, OnlyCaller, Zenon
  <2>4. Caller
    BY <1>0, <2>3
  <2> QED  BY <1>0, <1>4, <2>2, <2>4
<1> HIDE DEF Goal
<1>5. CASE UNCHANGED vars
  BY <1>0, <1>2, <1>5 DEF vars, deskVars
<1>6. CASE Upload
  BY <1>0, <1>2, <1>6 DEF Upload, deskVars
<1>7. CASE Resolve
  BY <1>0, <1>2, <1>7 DEF Resolve, deskVars
<1>8. CASE Remove
  BY <1>0, <1>2, <1>8 DEF Remove, deskVars
<1>9. CASE EditDirectory
  BY <1>0, <1>2, <1>9 DEF EditDirectory
<1>10. CASE ImportStep
  <2>1. PICK i \in Import : (\E lost \in BOOLEAN : DeskStep(i, lost)) \/ Leave(i)
    BY <1>10, Zenon DEF ImportStep
  <2>2. CASE Leave(i)
    BY <1>0, <1>2, <2>2 DEF Leave, deskVars
  <2>3. ASSUME NEW lost \in BOOLEAN, DeskStep(i, lost) PROVE Goal
    <3>1. /\ ResponseTypeOK' /\ IsFiniteSet(facts') /\ IsFiniteSet(summary')
          /\ \A r \in Reader : reader'[r].at = reader[r].at
      BY <2>3, DeskTypes, Zenon
    <3>2. edited' = edited
      BY <2>3 DEF DeskStep, Validate, Publish, Withdraw, Credit, SyncTerritory, Aggregate, Clear,
                  ClearAgain, SetLatestDate, Finish, deskVars
    <3> QED  BY <1>0, <3>1, <3>2 DEF Goal
  <2> QED  BY <2>1, <2>2, <2>3, Zenon
<1>11. CASE NewRequest
  <2>1. PICK r \in mix.readers, lost \in BOOLEAN : Ask(r, lost) /\ UNCHANGED others
    BY <1>11, Zenon DEF NewRequest
  <2>2. UNCHANGED <<facts, summary, edited>>
    BY <2>1 DEF Ask, others, deskVars, sourceVars
  <2> QED  BY <1>4, <2>1, <2>2, Zenon
<1>12. CASE \E r \in mix.readers : Answering(r)
  <2>1. PICK r \in mix.readers, lost \in BOOLEAN : RequestStep(r, lost) /\ UNCHANGED others
    BY <1>12, Zenon DEF Answering
  <2>2. UNCHANGED <<facts, summary, edited>>
    BY <2>1 DEF RequestStep, Query, KeepInRedis, KeepFound, ReadLookups, InstallLookups,
                KeepInMemory, others, deskVars, sourceVars
  <2> QED  BY <1>4, <2>1, <2>2, Zenon
<1>13. CASE \E p \in mix.processes : Refreshing(p)
  <2>1. PICK p \in mix.processes : RefreshLookups(p) /\ UNCHANGED others
    BY <1>13, Zenon DEF Refreshing
  <2>2. UNCHANGED <<facts, summary, edited, reader>>
    BY <2>1 DEF RefreshLookups, others, deskVars, sourceVars
  <2>3. p \in Process
    BY <1>1
  <2>4. ResponseTypeOK'
    BY <1>0, <2>1, <2>3, RefreshTypes
  <2> QED  BY <1>3, <2>2, <2>4
<1>14. CASE Expiry
  <2>1. PICK k \in Kinds, p \in mix.processes : Expiring(k, p) /\ UNCHANGED <<faults, others>>
    BY <1>14, Zenon DEF Expiry
  <2>2. UNCHANGED <<facts, summary, edited, reader>>
    BY <2>1 DEF Expiring, ExpireRedis, ExpireMemory, ExpireSpare, ExpireLookups, ExpireMemo,
                others, deskVars, sourceVars
  <2>3. p \in Process
    BY <1>1
  <2>4. ResponseTypeOK'
    BY <1>0, <2>1, <2>3, ExpiryTypes
  <2> QED  BY <1>3, <2>2, <2>4
<1> QED  BY <1>5, <1>6, <1>7, <1>8, <1>9, <1>10, <1>11, <1>12, <1>13, <1>14, Zenon DEF Next

(***************************************************************************)
(* Whatever is imported, read, cached, lost and grown old: what the tables *)
(* of names, the caches of answers and lookups and the requests in         *)
(* progress hold has its type; get_mobile_sales and                        *)
(* get_mobile_companies only serve requests that were made; a sale         *)
(* published or summarised is one of the sheet of its import, and, unless  *)
(* two imports ran at once, the summaries of aggregate_for_dates show      *)
(* nothing that is not published.                                          *)
(***************************************************************************)
THEOREM SalesDeskTypeCorrect == Spec => []TypeOK
<1>1. Init => SalesInv /\ CallsInv
  BY SalesInvInitially, CallsInitially
<1>2. SalesInv /\ CallsInv /\ [Next]_vars => (SalesInv /\ CallsInv)'
  BY SalesInvStep, CallsStep
<1>3. SalesInv /\ CallsInv => TypeOK
  BY SoldAre, Zenon DEF TypeOK, CallsInv, SalesInv, Basic, ListsAll
<1> QED  BY <1>1, <1>2, <1>3, PTL DEF Spec

-----------------------------------------------------------------------------
(***************************************************************************)
(* The caches.  An answer is kept in Redis and the spare stores, which     *)
(* clearings of its kind empty, and in the memory of a process, which is   *)
(* cleared last.  Where an import is that has not cleared a place yet, and *)
(* that has not cleared it again.                                          *)
(***************************************************************************)
Places == Kinds \cup {"memory"}

KindAt(k) == IF k = "companies" THEN "companies" ELSE "sales"

Due(k) == {"purge_sales"} \cup (IF k # "sales" THEN {"purge_companies"} ELSE {})
          \cup (IF k = "memory" THEN {"purge_memory"} ELSE {})

DueAgain(k) ==
    {"purge_sales", "purge_companies", "purge_memory", "date", "purge_sales_again"}
    \cup (IF k # "sales" THEN {"purge_companies_again"} ELSE {})
    \cup (IF k = "memory" THEN {"purge_memory_again"} ELSE {})

Cleared(k)      == \A i \in Import : import[i].at \notin Due(k)
ClearedTwice(k) == \A i \in Import : import[i].at \notin DueAgain(k)

StageStays(k) == (Cleared(k)' <=> Cleared(k)) /\ (ClearedTwice(k)' <=> ClearedTwice(k))

\* Sales of an import that may be credited and not yet summarised, or are
\* taken back.
Open(f) == f[1] \in Import /\ import[f[1]].at \in {"withdrawn", "sync", "aggregate"}

\* What an answer shows is right, but for such sales.
Agrees(kind, a) ==
    \A f \in a.facts \cup Shown(kind, a.seen) :
        Open(f) \/ (f \in a.facts <=> f \in Shown(kind, a.seen))

\* A view with which nothing is overlooked.
SeesAll(v) ==
    /\ v.date = Truth.date
    /\ Is("companies") => \A s \in credited : Open(<<s.import, s.row>>) \/ s.company \in v.known

FreshFor(k, v) == IF k = "companies" THEN v.date >= Truth.date ELSE SeesAll(v)

(***************************************************************************)
(* When what is kept in a place may be wrong: before it is cleared, and    *)
(* later if a clearing found it in hand, it is not whole, or calls failed. *)
(***************************************************************************)
Pardoned(k, a) ==
    /\ Cleared(k) /\ ~ ClearedTwice(k) => a.late >= 1 \/ ~ a.whole \/ faults >= 1
    /\ ClearedTwice(k) =>
          a.late = 2 \/ (a.late = 1 /\ faults > 0) \/ ~ a.whole \/ faults >= 2

Spared(n) == /\ Cleared("sales") /\ ~ ClearedTwice("sales") => n >= 1
             /\ ClearedTwice("sales") => n = 2

\* A clears pass of import i, the n-th of the place k.
Passes(i, k, n) ==
    /\ import[i].at \in Summarised /\ import'[i].at \in Summarised
    /\ import'[i].p = import[i].p
    /\ IF n = 1 THEN ~ Cleared(k) /\ ~ ClearedTwice(k) /\ ~ ClearedTwice(k)'
                ELSE ~ ClearedTwice(k) /\ (Cleared(k)' <=> Cleared(k))
    /\ \A q \in Places \ {k} : StageStays(q)

LEMMA DueIs ==
    ASSUME NEW k \in Places
    PROVE  /\ Due(k) \subseteq DueAgain(k) /\ DueAgain(k) \subseteq Summarised \ AfterPublishing
           /\ Due("sales") \subseteq Due(k) /\ DueAgain("sales") \subseteq DueAgain(k)
           /\ "purge_sales" \in Due(k)
  BY DEF Places, Kinds, Due, DueAgain, Summarised, Publishing, AfterPublishing

LEMMA ClearedIs ==
    ASSUME NEW k \in Places
    PROVE  /\ ClearedTwice(k) => Cleared(k)
           /\ ClearedTwice(k)' => Cleared(k)'
           /\ Cleared(k) => Cleared("sales")
           /\ ClearedTwice(k) => ClearedTwice("sales")
  BY DueIs DEF Cleared, ClearedTwice

LEMMA StageIs ==
    ASSUME NEW k,
           \A j \in Import : /\ import'[j].at \in Due(k) <=> import[j].at \in Due(k)
                             /\ import'[j].at \in DueAgain(k) <=> import[j].at \in DueAgain(k)
    PROVE  StageStays(k)
  BY DEF StageStays, Cleared, ClearedTwice

LEMMA PardonedStays ==
    ASSUME NEW k \in Places, StageStays(k), faults \in Nat, faults' \in Nat, faults' >= faults,
           NEW a \in Answers, NEW b \in Answers, a.whole = b.whole, a.late <= b.late,
           Pardoned(k, a)
    PROVE  Pardoned(k, b)'
<1>1. a.late \in 0 .. 2 /\ b.late \in 0 .. 2
  BY DEF Answers
<1> QED  BY <1>1 DEF Pardoned, StageStays

LEMMA PardonedDeeper ==
    ASSUME NEW k \in Places, NEW a \in Answers, Pardoned("sales", a), faults \in Nat
    PROVE  Pardoned(k, a)
<1>1. a.late \in 0 .. 2
  BY DEF Answers
<1> QED  BY <1>1, ClearedIs DEF Pardoned

LEMMA SparedIs ==
    ASSUME NEW k \in Places, NEW a \in Answers, Spared(a.late)
    PROVE  Pardoned(k, a)
<1>1. a.late \in 0 .. 2
  BY DEF Answers
<1> QED  BY <1>1, ClearedIs DEF Pardoned, Spared

LEMMA NotWhole ==
    ASSUME NEW k, NEW a, ~ a.whole
    PROVE  Pardoned(k, a) /\ Pardoned(k, a)'
  BY DEF Pardoned

\* A call that fails, and what the clearing finds in hand.
LEMMA PardonedByFault ==
    ASSUME NEW k \in Places, NEW i, NEW n \in {1, 2}, Passes(i, k, n), faults \in Nat,
           faults' = faults + 1, NEW a \in Answers, n = 2 => Pardoned(k, a)
    PROVE  Pardoned(k, a)'
<1>1. a.late \in 0 .. 2 /\ (ClearedTwice(k)' => Cleared(k)')
  BY ClearedIs DEF Answers
<1> QED  BY <1>1 DEF Pardoned, Passes

LEMMA PardonedByMark ==
    ASSUME NEW k \in Places, NEW i, NEW n \in {1, 2}, Passes(i, k, n),
           NEW a \in Answers, a.late >= n
    PROVE  Pardoned(k, a)'
<1>1. a.late \in 0 .. 2
  BY DEF Answers
<1> QED  BY <1>1 DEF Pardoned, Passes

(***************************************************************************)
(* What stays while nothing is aggregated: the summaries, and that an      *)
(* answer agrees with them and with the sales credited.                    *)
(***************************************************************************)
Own(p) == \A i \in Import : import[i].at \in Summarised => import[i].p = p

Steady ==
    /\ summary' = summary /\ mix' = mix
    /\ \A f : Open(f) => Open(f)'
    /\ \A s \in credited' \cup credited :
          (s \in credited' <=> s \in credited) \/ Open(<<s.import, s.row>>)'

LEMMA WithdrawnStays ==
    ASSUME Basic, [Next]_vars, NEW j \in Import, import[j].at = "withdrawn"
    PROVE  import'[j].at = "withdrawn"
<1>1. ASSUME NEW i \in Import, NEW p \in Process, NEW s \in mix.sheets, BeginImport(i, p, s)
      PROVE  import'[j].at = "withdrawn"
  BY <1>1, BeginIs DEF BeginsAs, SameButAlone, At
<1>2. ASSUME NEW i \in Import, NEW lost \in BOOLEAN, ResolveStep(i, lost)
      PROVE  import'[j].at = "withdrawn"
  BY <1>2, AnyTurn DEF Turns, Resolving
<1>3. ASSUME Removes PROVE import'[j].at = "withdrawn"
  BY <1>3, RemoveIs
<1>4. ASSUME NamesRest PROVE import'[j].at = "withdrawn"
  BY <1>4, GoingOn DEF NamesRest, OnlyMoves, Working
<1> QED  BY <1>1, <1>2, <1>3, <1>4, NamesNext

LEMMA SteadyStep ==
    ASSUME SalesInv, [Next]_vars
    PROVE  /\ Steady \/ \E i \in Import : Aggregates(i)
           /\ \A p : Own(p)' => Own(p)
           /\ faults \in Nat /\ faults' \in Nat /\ faults' >= faults
<1>0. /\ Basic /\ ListsAll(directory) /\ mix' = mix /\ \A j \in Import : ImportKeeps(j)
      /\ faults \in Nat /\ faults' \in {faults, faults + 1}
      /\ \A j \in Import : import[j].at = "withdrawn" => import'[j].at = "withdrawn"
  BY Keeps, WithdrawnStays DEF SalesInv, Basic, MasterTypeOK
<1>1. Summarised \subseteq Accepted /\ "idle" \notin Summarised /\ {"sync", "aggregate"} \subseteq Accepted
      /\ Summarised \cap {"sync", "aggregate", "withdrawn", "resolved", "publish", "credit"} = {}
  BY DEF Summarised, Publishing, AfterPublishing, Accepted
<1> DEFINE Goal == /\ Steady \/ \E i \in Import : Aggregates(i)
                   /\ \A j \in Import : import[j].at \in Summarised => import'[j].at \in Summarised
<1>2. ASSUME Goal PROVE \A p : Own(p)' => Own(p)
  BY <1>0, <1>1, <1>2 DEF Own, ImportKeeps, Begun, At
<1>3. ASSUME Calm PROVE Goal
  <2>1. summary' = summary /\ credited' = credited
    BY <1>3 DEF Calm, DeskRest
  <2>2. \A j \in Import : import[j].at \in Accepted => import'[j].at = import[j].at
    BY <1>3 DEF Calm, Stays
  <2>3. \A f : Open(f) => Open(f)'
    BY <1>0, <1>1, <2>2 DEF Open
  <2> QED  BY <1>0, <1>1, <2>1, <2>2, <2>3 DEF Steady
<1>4. ASSUME Edited PROVE Goal
  BY <1>0, <1>4 DEF Edited, Steady, Open
<1>5. ASSUME NEW i \in Import, NEW lost \in BOOLEAN, DeskStep(i, lost)
      PROVE  Goal
  <2> DEFINE Turn(to) == Turned(i, to)
  <2>1. ASSUME NEW to, Turned(i, to), import[i].at \in {"sync", "withdrawn"} => to = "aggregate",
               import[i].at = "aggregate" => to = "withdrawn", import[i].at # "withdrawn"
        PROVE  \A f : Open(f) => Open(f)'
    <3>1. \A j \in Import : import'[j].at = (IF j = i THEN to ELSE import[j].at)
      BY <2>1, TurnedIs
    <3> QED  BY <2>1, <3>1 DEF Open
  <2>2. ASSUME NEW to, Turned(i, to), import[i].at \in Summarised => to \in Summarised
        PROVE  \A j \in Import : import[j].at \in Summarised => import'[j].at \in Summarised
    <3>1. \A j \in Import : import'[j].at = (IF j = i THEN to ELSE import[j].at)
      BY <2>2, TurnedIs
    <3> QED  BY <2>2, <3>1
  <2>3. CASE Validated(i)
    <3>1. PICK to \in {"refused", "failed", "publish"} : Turned(i, to)
      BY <2>3 DEF Validated
    <3> QED  BY <1>0, <1>1, <2>1, <2>2, <2>3, <3>1 DEF Validated, DeskRest, Steady
  <2>4. CASE Publishes(i)
    BY <1>0, <1>1, <2>1, <2>2, <2>4 DEF Publishes, Steady
  <2>5. CASE Withdraws(i)
    <3>1. Turned(i, "withdrawn") /\ import[i].at \in {"publish", "credit", "aggregate"}
      BY <2>5 DEF Withdraws
    <3>2. \A f : Open(f) => Open(f)'
      BY <2>1, <3>1
    <3>3. \A j \in Import : import[j].at \in Summarised => import'[j].at \in Summarised
      BY <1>1, <2>2, <3>1
    <3>4. import'[i].at = "withdrawn"
      BY <3>1 DEF Turned
    <3>5. ASSUME NEW s \in credited, s \notin credited' PROVE Open(<<s.import, s.row>>)'
      <4>1. s.import = i
        BY <2>5, <3>5 DEF Withdraws
      <4> QED  BY <3>4, <4>1 DEF Open
    <3> QED  BY <1>0, <2>5, <3>2, <3>3, <3>5 DEF Withdraws, Steady
  <2>6. CASE CreditsSome(i)
    <3>1. Turned(i, "sync") /\ import[i].at = "credit" /\ Begun(i)
      BY <2>6 DEF CreditsSome, Begun, At
    <3>2. \A f : Open(f) => Open(f)'
      BY <2>1, <3>1
    <3>3. \A j \in Import : import[j].at \in Summarised => import'[j].at \in Summarised
      BY <1>1, <2>2, <3>1
    <3>4. import'[i].at = "sync"
      BY <3>1 DEF Turned
    <3>5. ASSUME NEW s \in credited', s \notin credited PROVE Open(<<s.import, s.row>>)'
      <4>1. s \in Credits(i)
        BY <2>6, <3>5 DEF CreditsSome
      <4>2. s.import = i
        BY <1>0, <3>1, <4>1, CreditsAre
      <4> QED  BY <3>4, <4>2 DEF Open
    <3> QED  BY <1>0, <2>6, <3>2, <3>3, <3>5 DEF CreditsSome, Steady
  <2>7. CASE Syncs(i)
    BY <1>0, <1>1, <2>1, <2>2, <2>7 DEF Syncs, Steady
  <2>8. CASE Aggregates(i)
    <3>1. "purge_sales" \in Summarised
      BY DEF Summarised, Publishing
    <3> QED  BY <2>2, <2>8, <3>1 DEF Aggregates
  <2>9. CASE Clears(i)
    <3>1. PICK to \in Summarised : Turned(i, to)
      BY <2>9 DEF Clears
    <3> QED  BY <1>0, <1>1, <2>1, <2>2, <2>9, <3>1 DEF Clears, DeskRest, Steady
  <2> HIDE DEF Goal
  <2> QED  BY <1>0, <1>5, <2>3, <2>4, <2>5, <2>6, <2>7, <2>8, <2>9, DeskIs
<1> HIDE DEF Goal
<1>6. Goal
  BY <1>0, <1>3, <1>4, <1>5, SalesNext
<1> QED  BY <1>0, <1>2, <1>6 DEF Goal

\* When summaries are made, no place is cleared.
LEMMA Uncleared ==
    ASSUME NEW i \in Import, Aggregates(i), NEW k \in Places
    PROVE  ~ Cleared(k)' /\ ~ ClearedTwice(k)'
<1>1. import'[i].at = "purge_sales"
  BY DEF Aggregates, Turned
<1> QED  BY <1>1, DueIs DEF Cleared, ClearedTwice

LEMMA AgreesStays ==
    ASSUME Steady, NEW kind, NEW a, Agrees(kind, a)
    PROVE  Agrees(kind, a)'
<1>1. \A f : Open(f)' \/ (f \in Shown(kind, a.seen)' <=> f \in Shown(kind, a.seen))
  <2>1. CASE kind = "sales"
    BY <2>1 DEF Steady, Shown, ShownSales, Is
  <2>2. CASE kind # "sales"
    BY <2>2 DEF Steady, Shown, ShownCompanies
  <2> QED  BY <2>1, <2>2
<1>2. \A f : Open(f) => Open(f)'
  BY DEF Steady
<1> QED  BY <1>1, <1>2 DEF Agrees

LEMMA FreshStays ==
    ASSUME Steady, NEW v
    PROVE  /\ Truth.date' = Truth.date
           /\ SeesAll(v) => SeesAll(v)'
           /\ \A k : FreshFor(k, v) => FreshFor(k, v)'
<1>1. Truth.date' = Truth.date
  BY DEF Steady, Truth
<1>2. SeesAll(v) => SeesAll(v)'
  BY <1>1 DEF Steady, SeesAll, Is
<1> QED  BY <1>1, <1>2 DEF FreshFor

-----------------------------------------------------------------------------
(***************************************************************************)
(* What a step may be, as far as the caches go.                            *)
(***************************************************************************)
CachesRest == UNCHANGED <<answerVars, lookupVars, reader>>

StagesStay == \A k \in Places : StageStays(k)

Requests ==
    \/ \E r \in mix.readers, lost \in BOOLEAN : Ask(r, lost) \/ RequestStep(r, lost)
    \/ \E p \in mix.processes : RefreshLookups(p)
    \/ mix.expiry /\ \E k \in Kinds, p \in mix.processes : Expiring(k, p)

ClearsRedis(i, k, n, lost) ==
    k \in Kinds /\ Passes(i, k, n) /\ PurgeRedis(import[i].p, k, n, lost)

ClearsMemory(i, n) == Passes(i, "memory", n) /\ PurgeMemory(import[i].p, n)

SetsDate(i) == /\ import[i].at = "date" /\ import'[i].at = "purge_sales_again"
               /\ RememberDate(import[i].p, MaxOf(Dates(i))) /\ StagesStay

Prewarms(i, lost) ==
    /\ import[i].at = "prewarm" /\ StagesStay /\ Prewarm(import[i].p, lost)

LEMMA StagesWhere ==
    ASSUME NEW i \in Import, NEW to, Turned(i, to), NEW k,
           to \in Due(k) <=> import[i].at \in Due(k),
           to \in DueAgain(k) <=> import[i].at \in DueAgain(k)
    PROVE  StageStays(k)
<1>1. \A j \in Import : import'[j].at = (IF j = i THEN to ELSE import[j].at)
  BY TurnedIs
<1> QED  BY <1>1, StageIs

LEMMA StagesRest ==
    ASSUME \A j \in Import : import'[j].at = import[j].at
    PROVE  StagesStay
  BY StageIs DEF StagesStay

LEMMA CalmStages ==
    ASSUME Calm
    PROVE  StagesStay
<1>1. \A k \in Places : DueAgain(k) \subseteq Accepted \ {"done"} /\ Due(k) \subseteq DueAgain(k)
  BY DueIs, AcceptedAre DEF AfterPublishing
<1>2. ASSUME NEW k \in Places PROVE StageStays(k)
  BY <1>1, StageIs DEF Calm, Stays
<1> QED  BY <1>2 DEF StagesStay

\* A clearing passes the place that it clears.
LEMMA PassesIs ==
    ASSUME Basic, [Next]_vars, NEW i \in Import, NEW from, NEW to, Follows(i, from, to),
           mix' = mix, edited' = edited
    PROVE  /\ from = "purge_sales" /\ to = "purge_companies" => Passes(i, "sales", 1)
           /\ from = "purge_companies" /\ to = "purge_memory" => Passes(i, "companies", 1)
           /\ from = "purge_memory" /\ to = "date" => Passes(i, "memory", 1)
           /\ from = "purge_sales_again" /\ to = "purge_companies_again" => Passes(i, "sales", 2)
           /\ from = "purge_companies_again" /\ to = "purge_memory_again" => Passes(i, "companies", 2)
           /\ from = "purge_memory_again" /\ to = "prewarm" => Passes(i, "memory", 2)
           /\ from = "date" /\ to = "purge_sales_again" => StagesStay
           /\ from = "prewarm" /\ to = "done" => StagesStay
<1>1. import[i].at = from /\ Turned(i, to)
  BY FollowsIs
<1>2. import'[i].p = import[i].p \/ from = "idle"
  BY <1>1, Keeps DEF ImportKeeps, Begun, At
<1>3. import'[i].at = to
  BY <1>1 DEF Turned
<1>4. ASSUME NEW k, to \in Due(k) <=> from \in Due(k), to \in DueAgain(k) <=> from \in DueAgain(k)
      PROVE  StageStays(k)
  BY <1>1, <1>4, StagesWhere
<1>5. \A k : /\ from \in Due(k) => ~ Cleared(k)
             /\ from \in DueAgain(k) => ~ ClearedTwice(k)
             /\ to \in DueAgain(k) => ~ ClearedTwice(k)'
  BY <1>1, <1>3 DEF Cleared, ClearedTwice
<1>6. \A k : (to \in Due(k) <=> from \in Due(k)) => (Cleared(k)' <=> Cleared(k))
  <2>1. \A j \in Import : import'[j].at = (IF j = i THEN to ELSE import[j].at)
    BY <1>1, TurnedIs
  <2> QED  BY <1>1, <2>1 DEF Cleared
<1>7. Places = {"sales", "companies", "memory"}
  BY DEF Places, Kinds
<1> USE DEF Due, DueAgain
<1>8. CASE from = "purge_sales" /\ to = "purge_companies"
  BY <1>1, <1>2, <1>3, <1>4, <1>5, <1>7, <1>8 DEF Passes, Summarised, Publishing
<1>9. CASE from = "purge_companies" /\ to = "purge_memory"
  BY <1>1, <1>2, <1>3, <1>4, <1>5, <1>7, <1>9 DEF Passes, Summarised, Publishing
<1>10. CASE from = "purge_memory" /\ to = "date"
  BY <1>1, <1>2, <1>3, <1>4, <1>5, <1>7, <1>10 DEF Passes, Summarised, Publishing
<1>11. CASE from = "purge_sales_again" /\ to = "purge_companies_again"
  BY <1>1, <1>2, <1>3, <1>4, <1>5, <1>6, <1>7, <1>11 DEF Passes, Summarised, Publishing
<1>12. CASE from = "purge_companies_again" /\ to = "purge_memory_again"
  BY <1>1, <1>2, <1>3, <1>4, <1>5, <1>6, <1>7, <1>12 DEF Passes, Summarised, Publishing
<1>13. CASE from = "purge_memory_again" /\ to = "prewarm"
  BY <1>1, <1>2, <1>3, <1>4, <1>5, <1>6, <1>7, <1>13 DEF Passes, Summarised, Publishing, AfterPublishing
<1>14. CASE from = "date" /\ to = "purge_sales_again"
  BY <1>4, <1>7, <1>14 DEF StagesStay
<1>15. CASE from = "prewarm" /\ to = "done"
  BY <1>4, <1>7, <1>15 DEF StagesStay
<1> QED  BY <1>8, <1>9, <1>10, <1>11, <1>12, <1>13, <1>14, <1>15

LEMMA EarlyStages ==
    ASSUME NEW i \in Import, NEW to, Turned(i, to),
           import[i].at \in {"resolved", "publish", "credit", "sync", "aggregate"},
           to \in {"refused", "failed", "publish", "credit", "sync", "aggregate", "withdrawn"}
    PROVE  StagesStay
<1>1. \A k \in Places : DueAgain(k) \subseteq Summarised /\ Due(k) \subseteq DueAgain(k)
  BY DueIs
<1>2. import[i].at \notin Summarised /\ to \notin Summarised
  BY DEF Summarised, Publishing, AfterPublishing
<1>3. ASSUME NEW k \in Places PROVE StageStays(k)
  BY <1>1, <1>2, StagesWhere
<1> QED  BY <1>3 DEF StagesStay

DeskCaches(i, lost) ==
    \/ CachesRest /\ (Aggregates(i) \/ StagesStay)
    \/ \E k \in Kinds, n \in {1, 2} : ClearsRedis(i, k, n, lost)
    \/ \E n \in {1, 2} : ClearsMemory(i, n)
    \/ SetsDate(i)
    \/ Prewarms(i, lost)

LEMMA DeskCachesAre ==
    ASSUME Basic, [Next]_vars, NEW i \in Import, NEW lost \in BOOLEAN, DeskStep(i, lost)
    PROVE  DeskCaches(i, lost)
<1> DEFINE Goal == DeskCaches(i, lost)
           early == {"resolved", "publish", "credit", "sync", "aggregate"}
           next == {"refused", "failed", "publish", "credit", "sync", "aggregate", "withdrawn"}
<1> SUFFICES Goal
  OBVIOUS
<1>0. mix' = mix /\ "sales" \in Kinds /\ "companies" \in Kinds
  BY Keeps DEF Kinds
<1>1. edited' = edited
  BY DEF DeskStep, Validate, Publish, Withdraw, Credit, SyncTerritory, Aggregate, Clear,
         ClearAgain, SetLatestDate, Finish, deskVars
<1>2. ASSUME NEW from \in early, NEW to \in next, Follows(i, from, to), CachesRest PROVE Goal
  <2>1. import[i].at = from /\ Turned(i, to)
    BY <1>0, <1>1, <1>2, FollowsIs
  <2> QED  BY <1>2, <2>1, EarlyStages DEF DeskCaches
<1> USE DEF CachesRest, responseVars, deskVars
<1>3. CASE Validate(i, lost)
  <2>1. CachesRest /\ \E to \in {"publish", "refused", "failed"} : Follows(i, "resolved", to)
    BY <1>3 DEF Validate
  <2> HIDE DEF Goal, CachesRest
  <2> QED  BY <1>2, <2>1
<1>4. CASE Publish(i)
  <2>1. CachesRest /\ Follows(i, "publish", "credit")
    BY <1>4 DEF Publish
  <2> HIDE DEF Goal, CachesRest
  <2> QED  BY <1>2, <2>1
<1>5. CASE Withdraw(i)
  <2>1. CachesRest /\ \E from \in {"publish", "credit", "aggregate"} : Follows(i, from, "withdrawn")
    BY <1>5 DEF Withdraw, Follows, At
  <2> HIDE DEF Goal, CachesRest
  <2> QED  BY <1>2, <2>1
<1>6. CASE Credit(i, lost)
  <2>1. CachesRest /\ Follows(i, "credit", "sync")
    BY <1>6 DEF Credit
  <2> HIDE DEF Goal, CachesRest
  <2> QED  BY <1>2, <2>1
<1>7. CASE SyncTerritory(i, lost)
  <2>1. CachesRest /\ Follows(i, "sync", "aggregate")
    BY <1>7 DEF SyncTerritory
  <2> HIDE DEF Goal, CachesRest
  <2> QED  BY <1>2, <2>1
<1>8. CASE Aggregate(i, lost)
  <2>1. CachesRest /\ Follows(i, "aggregate", "purge_sales")
    BY <1>8 DEF Aggregate
  <2>2. import[i].at = "aggregate" /\ Turned(i, "purge_sales")
    BY <1>0, <1>1, <2>1, FollowsIs
  <2>3. PICK dates \in IF lost THEN SUBSET Dates(i) \ {Dates(i)} ELSE {Dates(i)} :
            summary' = {s \in summary : s.date \notin dates} \cup {s \in facts : s.date \in dates}
    BY <1>8 DEF Aggregate
  <2>4. dates \in SUBSET Dates(i)
    BY <2>3
  <2>5. facts' = facts /\ credited' = credited /\ directory' = directory
    BY <1>8 DEF Aggregate
  <2>6. Aggregates(i)
    BY <2>2, <2>3, <2>4, <2>5 DEF Aggregates
  <2> QED  BY <2>1, <2>6 DEF DeskCaches
<1>9. CASE Clear(i, lost)
  <2>1. \/ Follows(i, "purge_sales", "purge_companies") /\ PurgeRedis(import[i].p, "sales", 1, lost)
        \/ Follows(i, "purge_companies", "purge_memory") /\ PurgeRedis(import[i].p, "companies", 1, lost)
        \/ Follows(i, "purge_memory", "date") /\ PurgeMemory(import[i].p, 1)
    BY <1>9, Zenon DEF Clear
  <2> QED  BY <1>0, <1>1, <2>1, PassesIs DEF DeskCaches, ClearsRedis, ClearsMemory
<1>10. CASE ClearAgain(i, lost)
  <2>1. \/ Follows(i, "purge_sales_again", "purge_companies_again")
           /\ PurgeRedis(import[i].p, "sales", 2, lost)
        \/ Follows(i, "purge_companies_again", "purge_memory_again")
           /\ PurgeRedis(import[i].p, "companies", 2, lost)
        \/ Follows(i, "purge_memory_again", "prewarm") /\ PurgeMemory(import[i].p, 2)
    BY <1>10, Zenon DEF ClearAgain
  <2> QED  BY <1>0, <1>1, <2>1, PassesIs DEF DeskCaches, ClearsRedis, ClearsMemory
<1>11. CASE SetLatestDate(i)
  <2>1. Follows(i, "date", "purge_sales_again") /\ RememberDate(import[i].p, MaxOf(Dates(i)))
    BY <1>11 DEF SetLatestDate
  <2>2. import[i].at = "date" /\ Turned(i, "purge_sales_again") /\ StagesStay
    BY <1>0, <1>1, <2>1, FollowsIs, PassesIs
  <2>3. import'[i].at = "purge_sales_again"
    BY <2>2 DEF Turned
  <2> QED  BY <2>1, <2>2, <2>3 DEF DeskCaches, SetsDate
<1>12. CASE Finish(i, lost)
  <2>1. Follows(i, "prewarm", "done") /\ Prewarm(import[i].p, lost)
    BY <1>12 DEF Finish
  <2>2. import[i].at = "prewarm" /\ StagesStay
    BY <1>0, <1>1, <2>1, FollowsIs, PassesIs
  <2> QED  BY <2>1, <2>2 DEF DeskCaches, Prewarms
<1> HIDE DEF Goal
<1>13. \/ Validate(i, lost) \/ Credit(i, lost) \/ SyncTerritory(i, lost)
       \/ Aggregate(i, lost) \/ Publish(i) \/ Withdraw(i)
       \/ Clear(i, lost) \/ ClearAgain(i, lost) \/ SetLatestDate(i) \/ Finish(i, lost)
  BY Zenon DEF DeskStep
<1> QED  BY <1>3, <1>4, <1>5, <1>6, <1>7, <1>8, <1>9, <1>10, <1>11, <1>12, <1>13, Zenon

LEMMA CacheNext ==
    ASSUME Basic, [Next]_vars
    PROVE  \/ CachesRest /\ StagesStay
           \/ \E i \in Import, lost \in BOOLEAN : DeskCaches(i, lost)
           \/ Requests /\ StagesStay /\ sourceVars' = sourceVars /\ import' = import /\ rows' = rows
<1>0. mix \in Mixes
  BY DEF Basic, MasterTypeOK
<1> USE DEF CachesRest, responseVars
<1>1. ASSUME Calm, CachesRest PROVE CachesRest /\ StagesStay
  BY <1>1, CalmStages
<1>2. ASSUME NEW i \in Import, NEW lost \in BOOLEAN, DeskStep(i, lost)
      PROVE  DeskCaches(i, lost)
  BY <1>2, DeskCachesAre
<1>3. CASE UNCHANGED vars
  BY <1>3, StagesRest DEF vars, masterVars
<1>4. ASSUME Upload \/ Resolve \/ Remove \/ EditDirectory \/ \E i \in Import : Leave(i)
      PROVE  CachesRest
  BY <1>4 DEF Upload, Resolve, Remove, EditDirectory, Leave
<1>5. ASSUME Edited PROVE StagesStay
  BY <1>5, StagesRest DEF Edited
<1>6. CASE Upload \/ Resolve \/ Remove \/ EditDirectory \/ \E i \in Import : Leave(i)
  <2>1. CachesRest
    BY <1>4, <1>6
  <2> HIDE DEF CachesRest
  <2> QED  BY <1>1, <1>2, <1>5, <2>1, SalesNext
<1>7. CASE ImportStep
  BY <1>2, <1>6, <1>7 DEF ImportStep
<1>8. ASSUME UNCHANGED others, Requests, sourceVars' = sourceVars
      PROVE  Requests /\ StagesStay /\ sourceVars' = sourceVars /\ import' = import /\ rows' = rows
  BY <1>8, StagesRest DEF others, tableVars
<1>9. CASE NewRequest
  <2>1. PICK r \in mix.readers, lost \in BOOLEAN : Ask(r, lost) /\ UNCHANGED others
    BY <1>9, Zenon DEF NewRequest
  <2>2. sourceVars' = sourceVars
    BY <2>1 DEF Ask, sourceVars
  <2>3. Requests
    BY <2>1, Zenon DEF Requests
  <2> QED  BY <1>8, <2>1, <2>2, <2>3
<1>10. CASE \E r \in mix.readers : Answering(r)
  <2>1. PICK r \in mix.readers, lost \in BOOLEAN : RequestStep(r, lost) /\ UNCHANGED others
    BY <1>10, Zenon DEF Answering
  <2>2. sourceVars' = sourceVars
    BY <2>1 DEF RequestStep, Query, KeepInRedis, KeepFound, ReadLookups, InstallLookups,
                KeepInMemory, sourceVars
  <2>3. Requests
    BY <2>1, Zenon DEF Requests
  <2> QED  BY <1>8, <2>1, <2>2, <2>3
<1>11. CASE \E p \in mix.processes : Refreshing(p)
  <2>1. PICK p \in mix.processes : RefreshLookups(p) /\ UNCHANGED others
    BY <1>11, Zenon DEF Refreshing
  <2>2. sourceVars' = sourceVars
    BY <2>1 DEF RefreshLookups, sourceVars
  <2>3. Requests
    BY <2>1, Zenon DEF Requests
  <2> QED  BY <1>8, <2>1, <2>2, <2>3
<1>12. CASE Expiry
  <2>1. PICK k \in Kinds, p \in mix.processes : Expiring(k, p) /\ UNCHANGED <<faults, others>>
    BY <1>12, Zenon DEF Expiry
  <2>2. sourceVars' = sourceVars /\ mix.expiry
    BY <2>1 DEF Expiring, ExpireRedis, ExpireMemory, ExpireSpare, ExpireLookups, ExpireMemo,
                sourceVars
  <2>3. Requests
    BY <2>1, <2>2, Zenon DEF Requests
  <2> QED  BY <1>8, <2>1, <2>2, <2>3
<1> HIDE DEF CachesRest
<1> QED  BY <1>3, <1>6, <1>7, <1>9, <1>10, <1>11, <1>12, Zenon DEF Next

-----------------------------------------------------------------------------
(***************************************************************************)
(* Where answers are, and where they come from.                            *)
(***************************************************************************)
InStore(k, a) == k \in Kinds /\ a = redis[k]

OnItsWay(k, a) ==
    \E r \in Reader : r.kind = k /\ reader[r].at \in {"keep_ram", "keep_redis"} /\ a = Kept(r)

KeptIn(p, k, a) ==
    \/ k \in Kinds /\ a = spare[p][k]
    \/ k = "memory" /\ a = ram[p]
    \/ k = "memory" /\ \E r \in Reader : r.p = p /\ reader[r].at = "hit" /\ a = Kept(r)

Computed(k, a) == ~ a.whole \/ a.facts = Shown(k, a.seen)

\* A sales answer that is served out of a cache, or kept on its way, is in
\* memory next.
Flows(p, k, a) ==
    /\ InStore(k, a)' => InStore(k, a) \/ OnItsWay(k, a)
    /\ OnItsWay(k, a)' => OnItsWay(k, a) \/ Computed(k, a)
    /\ KeptIn(p, k, a)' =>
          \/ KeptIn(p, k, a) \/ OnItsWay(k, a)
          \/ /\ k = "memory"
             /\ InStore("sales", a) \/ OnItsWay("sales", a) \/ KeptIn(p, "sales", a)

SalesOnly == \A r \in Reader : reader[r].at \in {"hit", "keep_ram"} => r.kind = "sales"

\* What a step does to the answer a call has in hand.
LEMMA OthersHold ==
    ASSUME ResponseTypeOK, NEW r \in Reader, NEW lost, Ask(r, lost) \/ RequestStep(r, lost),
           NEW q \in Reader \ {r}
    PROVE  reader'[q] = reader[q] /\ Kept(q)' = Kept(q)
<1>1. reader'[q] = reader[q]
  BY OnlyCaller
<1> QED  BY <1>1 DEF Kept

LEMMA Unhanded ==
    ASSUME ResponseTypeOK, NEW r \in Reader, NEW lost, Ask(r, lost) \/ RequestStep(r, lost),
           reader'[r].at \notin {"hit", "keep_ram", "keep_redis"},
           NEW p, NEW k, NEW a, UNCHANGED <<redis, ram, spare>>
    PROVE  Flows(p, k, a)
<1>1. \A q \in Reader : reader'[q].at \in {"hit", "keep_ram", "keep_redis"} =>
          reader'[q] = reader[q] /\ Kept(q)' = Kept(q)
  BY OthersHold
<1> QED  BY <1>1 DEF Flows, InStore, OnItsWay, KeptIn

LEMMA AskFlows ==
    ASSUME ResponseTypeOK, NEW r \in Reader, NEW lost, Ask(r, lost),
           NEW p, NEW k \in Places, NEW a \in Answers \ {NoAnswer}
    PROVE  Flows(p, k, a) /\ (reader'[r].at = "hit" => r.kind = "sales") /\ reader'[r].at # "keep_ram"
<1> DEFINE found == Found(r, lost)
<1>0. r.p \in Process /\ r.kind \in Kinds /\ UNCHANGED <<redis, ram, spare>>
  BY ReaderIs DEF Ask, answerVars
<1>1. reader' = [reader EXCEPT ![r] = IF found = NoAnswer THEN [at |-> "miss"]
                     ELSE [at |-> "hit", answer |-> found, late |-> found.late]]
      /\ (r.kind = "companies" => found = NoAnswer)
  BY DEF Ask
<1>2. reader'[r] = IF found = NoAnswer THEN [at |-> "miss"]
                   ELSE [at |-> "hit", answer |-> found, late |-> found.late]
  BY <1>1 DEF ResponseTypeOK
<1>3. found \in Answers \cup {NoAnswer} /\ found \in {redis[r.kind], spare[r.p][r.kind]}
  BY <1>0 DEF Found, ResponseTypeOK
<1> HIDE DEF found
<1>4. CASE found = NoAnswer
  <2>1. reader'[r].at = "miss"
    BY <1>2, <1>4
  <2> QED  BY <1>0, <2>1, Unhanded
<1>5. CASE found # NoAnswer
  <2>1. reader'[r].at = "hit" /\ reader'[r].answer = found /\ reader'[r].late = found.late
    BY <1>2, <1>5
  <2>2. found \in Answers
    BY <1>3, <1>5
  <2>3. Kept(r)' = found
    <3>1. Kept(r)' = [found EXCEPT !.late = found.late]
      BY <2>1 DEF Kept
    <3> QED  BY <2>2, <3>1 DEF Answers
  <2>4. r.kind = "sales"
    BY <1>0, <1>1, <1>5 DEF Kinds
  <2>5. \A q \in Reader \ {r} : reader'[q] = reader[q] /\ Kept(q)' = Kept(q)
    BY OthersHold
  <2>6. InStore(k, a)' => InStore(k, a)
    BY <1>0 DEF InStore
  <2>7. OnItsWay(k, a)' => OnItsWay(k, a)
    BY <2>1, <2>5 DEF OnItsWay
  <2>8. ASSUME KeptIn(p, k, a)'
        PROVE  KeptIn(p, k, a) \/ (k = "memory" /\ (InStore("sales", a) \/ KeptIn(p, "sales", a)))
    <3>1. CASE k = "memory" /\ r.p = p /\ a = found
      BY <1>0, <1>3, <2>4, <3>1 DEF InStore, KeptIn
    <3>2. CASE ~ (k = "memory" /\ r.p = p /\ a = found)
      BY <1>0, <2>3, <2>5, <2>8, <3>2 DEF KeptIn
    <3> QED  BY <3>1, <3>2
  <2> QED  BY <2>1, <2>4, <2>6, <2>7, <2>8 DEF Flows
<1> QED  BY <1>4, <1>5

LEMMA QueryFlows ==
    ASSUME ResponseTypeOK, NEW r \in Reader, NEW lost, Query(r, lost),
           NEW p, NEW k \in Places, NEW a \in Answers \ {NoAnswer}
    PROVE  Flows(p, k, a) /\ (reader'[r].at = "keep_ram" => r.kind = "sales") /\ reader'[r].at # "hit"
<1> DEFINE shown == IF lost THEN {} ELSE Shown(r.kind, reader[r].seen)
           answer == [facts |-> shown, seen |-> reader[r].seen, whole |-> ~lost, late |-> 0]
           new == [at |-> IF r.kind = "sales" THEN "keep_ram" ELSE "keep_redis",
                   answer |-> answer, late |-> reader[r].late]
<1>0. UNCHANGED <<redis, ram, spare>> /\ RequestStep(r, lost)
  BY DEF Query, RequestStep, answerVars
<1>1. \/ reader' = [reader EXCEPT ![r] = [at |-> "idle"]]
      \/ reader' = [reader EXCEPT ![r] = new]
  BY DEF Query, Idle
<1> HIDE DEF shown
<1>2. CASE reader' = [reader EXCEPT ![r] = [at |-> "idle"]]
  <2>1. reader'[r].at = "idle"
    BY <1>2 DEF ResponseTypeOK
  <2> QED  BY <1>0, <2>1, Unhanded
<1>3. CASE reader' = [reader EXCEPT ![r] = new]
  <2>1. reader'[r] = new
    BY <1>3 DEF ResponseTypeOK
  <2>2. /\ reader'[r].at = (IF r.kind = "sales" THEN "keep_ram" ELSE "keep_redis")
        /\ reader'[r].answer = answer /\ reader'[r].late = reader[r].late
    BY <2>1
  <2>3. Kept(r)' = [answer EXCEPT !.late = reader[r].late]
    BY <2>2 DEF Kept
  <2>4. /\ Kept(r)'.facts = shown /\ Kept(r)'.seen = reader[r].seen
        /\ Kept(r)'.whole = ~lost
    BY <2>3
  <2>5. \A q \in Reader \ {r} : reader'[q] = reader[q] /\ Kept(q)' = Kept(q)
    BY <1>0, OthersHold
  <2>6. a = Kept(r)' => Computed(r.kind, a)
    BY <2>4 DEF Computed, shown
  <2>7. InStore(k, a)' => InStore(k, a)
    BY <1>0 DEF InStore
  <2>8. OnItsWay(k, a)' => OnItsWay(k, a) \/ Computed(k, a)
    BY <2>5, <2>6 DEF OnItsWay
  <2>9. KeptIn(p, k, a)' => KeptIn(p, k, a)
    BY <1>0, <2>2, <2>5 DEF KeptIn
  <2> QED  BY <2>2, <2>7, <2>8, <2>9 DEF Flows
<1> QED  BY <1>1, <1>2, <1>3

LEMMA LookupsFlow ==
    ASSUME ResponseTypeOK, NEW r \in Reader, ReadLookups(r) \/ InstallLookups(r),
           NEW p, NEW k, NEW a
    PROVE  Flows(p, k, a) /\ reader'[r].at \notin {"hit", "keep_ram", "keep_redis"}
<1>1. UNCHANGED <<redis, ram, spare>> /\ RequestStep(r, FALSE)
  BY DEF ReadLookups, InstallLookups, RequestStep, answerVars
<1>2. CASE ReadLookups(r)
  <2>1. \E new : /\ reader' = [reader EXCEPT ![r] = new]
                 /\ new.at \in {"fetched", "query"}
    <3> DEFINE l == lookups[r.p]
               dated == l.expired /\ r.kind = "sales"
               date  == IF dated THEN Remembered(r.p) ELSE l.date
               first == [at |-> "fetched", seen |-> Truth, late |-> 0]
               other == [at |-> "query", seen |-> [known |-> l.known, date |-> date], late |-> l.late]
    <3>1. reader' = [reader EXCEPT ![r] = first] \/ reader' = [reader EXCEPT ![r] = other]
      BY <1>2 DEF ReadLookups
    <3>2. first.at = "fetched" /\ other.at = "query"
      OBVIOUS
    <3> HIDE DEF first, other
    <3> QED  BY <3>1, <3>2
  <2>2. reader'[r].at \in {"fetched", "query"}
    BY <2>1 DEF ResponseTypeOK
  <2> QED  BY <1>1, <2>2, Unhanded
<1>3. CASE InstallLookups(r)
  <2>1. reader[r] \in Holding /\ reader' = [reader EXCEPT ![r] = [reader[r] EXCEPT !.at = "query"]]
    BY <1>3, ReaderIs DEF InstallLookups, Goes
  <2>2. reader'[r].at = "query"
    BY <2>1 DEF ResponseTypeOK, Holding
  <2> QED  BY <1>1, <2>2, Unhanded
<1> QED  BY <1>2, <1>3

LEMMA KeepFoundFlows ==
    ASSUME ResponseTypeOK, NEW r \in Reader, KeepFound(r), NEW p, NEW k, NEW a
    PROVE  Flows(p, k, a) /\ reader'[r].at = "idle"
<1>1. /\ reader[r].at = "hit" /\ redis' = redis /\ spare' = spare
      /\ ram' = [ram EXCEPT ![r.p] = Kept(r)] /\ RequestStep(r, FALSE)
  BY DEF KeepFound, RequestStep
<1>2. reader'[r].at = "idle"
  BY DEF KeepFound, Idle, ResponseTypeOK
<1>3. \A q \in Reader \ {r} : reader'[q] = reader[q] /\ Kept(q)' = Kept(q)
  BY <1>1, OthersHold
<1>4. ram'[p] = (IF p = r.p THEN Kept(r) ELSE ram[p]) \/ ram'[p] = ram[p]
  <2>1. CASE p \in Process
    BY <1>1, <2>1 DEF ResponseTypeOK
  <2>2. CASE p \notin Process
    <3>1. ASSUME p = r.p PROVE FALSE
      BY <2>2, <3>1, ReaderIs
    <3> QED  BY <1>1, <2>2, <3>1 DEF ResponseTypeOK
  <2> QED  BY <2>1, <2>2
<1>5. InStore(k, a)' => InStore(k, a)
  BY <1>1 DEF InStore
<1>6. OnItsWay(k, a)' => OnItsWay(k, a)
  BY <1>2, <1>3 DEF OnItsWay
<1>7. KeptIn(p, k, a)' => KeptIn(p, k, a)
  BY <1>1, <1>2, <1>3, <1>4 DEF KeptIn
<1> QED  BY <1>2, <1>5, <1>6, <1>7 DEF Flows

LEMMA KeepInMemoryFlows ==
    ASSUME ResponseTypeOK, SalesOnly, NEW r \in Reader, KeepInMemory(r),
           NEW p \in Process, NEW k, NEW a
    PROVE  Flows(p, k, a) /\ reader'[r].at = "keep_redis"
<1>1. /\ reader[r].at = "keep_ram" /\ redis' = redis /\ spare' = spare /\ r.kind = "sales"
      /\ ram' = [ram EXCEPT ![r.p] = Kept(r)] /\ RequestStep(r, FALSE) /\ InHand(r)
  BY DEF KeepInMemory, RequestStep, SalesOnly, InHand
<1>2. reader[r] \in InHands /\ reader' = [reader EXCEPT ![r] = [reader[r] EXCEPT !.at = "keep_redis"]]
  BY <1>1, ReaderIs DEF KeepInMemory, Goes
<1>3. /\ reader'[r].at = "keep_redis" /\ reader'[r].answer = reader[r].answer
      /\ reader'[r].late = reader[r].late
  BY <1>2 DEF ResponseTypeOK, InHands
<1>4. Kept(r)' = Kept(r)
  BY <1>3 DEF Kept
<1>5. \A q \in Reader \ {r} : reader'[q] = reader[q] /\ Kept(q)' = Kept(q)
  BY <1>1, OthersHold
<1>6. ram'[p] = IF p = r.p THEN Kept(r) ELSE ram[p]
  BY <1>1 DEF ResponseTypeOK
<1>7. InStore(k, a)' => InStore(k, a)
  BY <1>1 DEF InStore
<1>8. OnItsWay(k, a)' => OnItsWay(k, a)
  BY <1>1, <1>3, <1>4, <1>5 DEF OnItsWay
<1>9. a = Kept(r) => OnItsWay("sales", a)
  BY <1>1 DEF OnItsWay
<1>10. KeptIn(p, k, a)' => KeptIn(p, k, a) \/ (k = "memory" /\ a = Kept(r))
  BY <1>1, <1>3, <1>5, <1>6 DEF KeptIn
<1> QED  BY <1>3, <1>7, <1>8, <1>9, <1>10 DEF Flows

LEMMA KeepInRedisFlows ==
    ASSUME ResponseTypeOK, NEW r \in Reader, NEW lost, KeepInRedis(r, lost),
           NEW p \in Process, NEW k \in Places, NEW a
    PROVE  Flows(p, k, a) /\ reader'[r].at = "idle"
<1>1. /\ reader[r].at = "keep_redis" /\ ram' = ram /\ RequestStep(r, lost)
      /\ Keep(r.p, r.kind, Kept(r), lost) /\ r.p \in Process /\ r.kind \in Kinds
  BY ReaderIs DEF KeepInRedis, RequestStep
<1>2. reader'[r].at = "idle"
  BY DEF KeepInRedis, Idle, ResponseTypeOK
<1>3. \A q \in Reader \ {r} : reader'[q] = reader[q] /\ Kept(q)' = Kept(q)
  BY <1>1, OthersHold
<1>4. a = Kept(r) => OnItsWay(r.kind, a)
  BY <1>1 DEF OnItsWay
<1>5. ASSUME k \in Kinds
      PROVE  /\ redis'[k] = redis[k] \/ (k = r.kind /\ redis'[k] = Kept(r))
             /\ spare'[p][k] = spare[p][k] \/ (k = r.kind /\ spare'[p][k] = Kept(r))
  <2> DEFINE q == r.p
             kind == r.kind
  <2>1. q \in Process /\ kind \in Kinds /\ Keep(q, kind, Kept(r), lost)
    BY <1>1
  <2> HIDE DEF q, kind
  <2>2. /\ redis'[k] = redis[k] \/ (k = kind /\ redis'[k] = Kept(r))
        /\ spare'[p][k] = spare[p][k] \/ (k = kind /\ spare'[p][k] = Kept(r))
    BY <1>5, <2>1 DEF Keep, ResponseTypeOK
  <2> QED  BY <2>2 DEF kind
<1>6. InStore(k, a)' => InStore(k, a) \/ OnItsWay(k, a)
  BY <1>4, <1>5 DEF InStore
<1>7. OnItsWay(k, a)' => OnItsWay(k, a)
  BY <1>2, <1>3 DEF OnItsWay
<1>8. KeptIn(p, k, a)' => KeptIn(p, k, a) \/ OnItsWay(k, a)
  BY <1>1, <1>2, <1>3, <1>4, <1>5 DEF KeptIn
<1> QED  BY <1>2, <1>6, <1>7, <1>8 DEF Flows

\* Nothing is put into a cache but what was computed, or was in another one.
LEMMA RequestsFlow ==
    ASSUME ResponseTypeOK, SalesOnly, mix \in Mixes, Requests,
           NEW p \in Process, NEW k \in Places, NEW a \in Answers \ {NoAnswer}
    PROVE  Flows(p, k, a) /\ SalesOnly'
<1>0. mix.readers \subseteq Reader /\ mix.processes \subseteq Process
  BY DeskAssumption, MasterAssumption
<1>1. ASSUME NEW r \in Reader, NEW lost \in BOOLEAN, Ask(r, lost) \/ RequestStep(r, lost)
      PROVE  Flows(p, k, a) /\ SalesOnly'
  <2>1. /\ Flows(p, k, a)
        /\ \/ reader'[r].at \notin {"hit", "keep_ram"} \/ r.kind = "sales"
    BY <1>1, AskFlows, QueryFlows, LookupsFlow, KeepFoundFlows, KeepInMemoryFlows,
       KeepInRedisFlows DEF RequestStep
  <2>2. \A q \in Reader \ {r} : reader'[q] = reader[q]
    BY <1>1, OthersHold
  <2> QED  BY <2>1, <2>2 DEF SalesOnly
<1>2. ASSUME UNCHANGED <<redis, ram, spare, reader>> PROVE Flows(p, k, a) /\ SalesOnly'
  BY <1>2 DEF Flows, InStore, OnItsWay, KeptIn, Kept, SalesOnly
<1>3. ASSUME NEW q, RefreshLookups(q) PROVE UNCHANGED <<redis, ram, spare, reader>>
  BY <1>3 DEF RefreshLookups, answerVars
<1>4. ASSUME NEW kind \in Kinds, NEW q \in Process, Expiring(kind, q), mix.expiry
      PROVE  Flows(p, k, a) /\ SalesOnly'
  <2>1. reader' = reader
    BY <1>4 DEF Expiring, ExpireRedis, ExpireMemory, ExpireSpare, ExpireLookups, ExpireMemo
  <2>2. \A x \in Kinds : redis'[x] \in {redis[x], NoAnswer}
    BY <1>4 DEF Expiring, ExpireRedis, ExpireMemory, ExpireSpare, ExpireLookups, ExpireMemo,
                answerVars, ResponseTypeOK
  <2>3. ram'[p] \in {ram[p], NoAnswer}
    BY <1>4 DEF Expiring, ExpireRedis, ExpireMemory, ExpireSpare, ExpireLookups, ExpireMemo,
                answerVars, ResponseTypeOK
  <2>4. \A x \in Kinds : spare'[p][x] \in {spare[p][x], NoAnswer}
    BY <1>4 DEF Expiring, ExpireRedis, ExpireMemory, ExpireSpare, ExpireLookups, ExpireMemo,
                answerVars, ResponseTypeOK
  <2> QED  BY <2>1, <2>2, <2>3, <2>4 DEF Flows, InStore, OnItsWay, KeptIn, Kept, SalesOnly
<1> HIDE DEF SalesOnly
<1> QED  BY <1>0, <1>1, <1>2, <1>3, <1>4 DEF Requests

-----------------------------------------------------------------------------
(***************************************************************************)
(* What a clearing does: it empties a place, and marks what calls have in  *)
(* hand that is wrong.                                                     *)
(***************************************************************************)
LEMMA LaterIsLater ==
    ASSUME NEW n \in 0 .. 2, NEW m \in 0 .. 2
    PROVE  MaxOf({m, n}) \in 0 .. 2 /\ MaxOf({m, n}) >= m /\ MaxOf({m, n}) >= n
<1>1. \E d \in {m, n} \cup {0} : \A e \in {m, n} : e <= d
  OBVIOUS
<1> DEFINE l == MaxOf({m, n})
<1>2. l \in {m, n} \cup {0} /\ \A e \in {m, n} : e <= l
  BY <1>1, Zenon DEF MaxOf
<1> HIDE DEF l
<1>3. l \in 0 .. 2 /\ l >= m /\ l >= n
  BY <1>2
<1> QED  BY <1>3 DEF l

Busy(r) == InHand(r) \/ reader[r].at \in {"fetched", "query"}

LEMMA Marks ==
    ASSUME ResponseTypeOK, NEW p \in Process, NEW n \in {1, 2}, NEW T,
           \A q \in T : Wrong(q, p), reader' = Late(T, n), NEW r \in Reader
    PROVE  /\ reader'[r].at = reader[r].at
           /\ InHand(r) => reader'[r].answer = reader[r].answer
           /\ reader[r].at \in {"fetched", "query"} => reader'[r].seen = reader[r].seen
           /\ Busy(r) => /\ reader[r].late \in 0 .. 2 /\ reader'[r].late \in 0 .. 2
                         /\ reader'[r].late >= reader[r].late
                         /\ r \in T => reader'[r].late >= n
<1>1. Busy(r) => reader[r].late \in 0 .. 2 /\ reader[r] \in Holding \cup InHands
  BY ReaderIs DEF Busy, Holding, InHands
<1>2. CASE r \notin T
  <2>1. reader'[r] = reader[r]
    BY <1>2 DEF Late
  <2> QED  BY <1>1, <1>2, <2>1
<1>3. CASE r \in T
  <2> DEFINE late == MaxOf({reader[r].late, n})
  <2>1. Busy(r)
    BY <1>3 DEF Wrong, Busy
  <2>2. late \in 0 .. 2 /\ late >= reader[r].late /\ late >= n
    <3>1. n \in 0 .. 2
      OBVIOUS
    <3> QED  BY <1>1, <2>1, <3>1, LaterIsLater
  <2>3. reader'[r] = [reader[r] EXCEPT !.late = late]
    BY <1>3 DEF Late
  <2> HIDE DEF late
  <2>4. /\ reader'[r].late = late /\ reader'[r].at = reader[r].at
        /\ reader[r] \in InHands => reader'[r].answer = reader[r].answer
        /\ reader[r] \in Holding => reader'[r].seen = reader[r].seen
    BY <1>1, <2>1, <2>3 DEF Holding, InHands
  <2>5. /\ InHand(r) => reader[r] \in InHands
        /\ reader[r].at \in {"fetched", "query"} => reader[r] \in Holding
    BY ReaderIs
  <2> QED  BY <1>1, <2>1, <2>2, <2>4, <2>5
<1> QED  BY <1>2, <1>3

\* The answer of a call, marked or not.
SameButLate(a, b) ==
    a.facts = b.facts /\ a.seen = b.seen /\ a.whole = b.whole /\ a.late <= b.late

LEMMA KeptMarked ==
    ASSUME ResponseTypeOK, NEW p \in Process, NEW n \in {1, 2}, NEW T,
           \A q \in T : Wrong(q, p), reader' = Late(T, n), NEW r \in Reader, InHand(r)
    PROVE  /\ Kept(r) \in Answers /\ SameButLate(Kept(r), Kept(r)')
           /\ r \in T => Kept(r)'.late >= n
           /\ Kept(r)'.facts = reader[r].answer.facts /\ Kept(r)'.seen = reader[r].answer.seen
           /\ Kept(r)'.late = reader'[r].late
<1> DEFINE a == reader[r].answer
<1>1. /\ reader'[r].answer = a /\ reader'[r].late >= reader[r].late
      /\ r \in T => reader'[r].late >= n
      /\ reader[r].late \in 0 .. 2
  BY Marks DEF Busy
<1>2. a \in Answers /\ Kept(r) \in Answers
  BY ReaderIs, KeptIs DEF InHands
<1>3. Kept(r) = [a EXCEPT !.late = reader[r].late] /\ Kept(r)' = [a EXCEPT !.late = reader'[r].late]
  BY <1>1 DEF Kept
<1> HIDE DEF a
<1>4. /\ Kept(r).facts = a.facts /\ Kept(r).seen = a.seen /\ Kept(r).whole = a.whole
      /\ Kept(r).late = reader[r].late
      /\ Kept(r)'.facts = a.facts /\ Kept(r)'.seen = a.seen /\ Kept(r)'.whole = a.whole
      /\ Kept(r)'.late = reader'[r].late
  BY <1>2, <1>3 DEF Answers
<1> QED  BY <1>1, <1>2, <1>4 DEF SameButLate, a

\* Process p clears place k, for the n-th time.
Purges(p, k, n, lost) ==
    IF k = "memory" THEN PurgeMemory(p, n) ELSE k \in Kinds /\ PurgeRedis(p, k, n, lost)

LEMMA PurgeMarks ==
    ASSUME ResponseTypeOK, NEW p \in Process, NEW k \in Places, NEW n \in {1, 2}, NEW lost,
           Purges(p, k, n, lost)
    PROVE  \E T : /\ reader' = Late(T, n) /\ \A r \in T : Wrong(r, p)
                  /\ \A r \in Reader : (r.kind = k \/ r.p = p) /\ Wrong(r, p) => r \in T
<1>1. CASE k = "memory"
  <2> DEFINE T == {r \in Reader : r.p = p /\ Wrong(r, p)}
  <2>1. reader' = Late(T, n)
    BY <1>1 DEF Purges, PurgeMemory
  <2>2. \A r \in Reader : r.kind # k
    BY <1>1, ReaderAssumption DEF Kinds
  <2> QED  BY <2>1, <2>2
<1>2. CASE k # "memory"
  <2> DEFINE T == {r \in Reader : (r.kind = k \/ r.p = p) /\ Wrong(r, p)}
  <2>1. reader' = Late(T, n)
    BY <1>2 DEF Purges, PurgeRedis
  <2> QED  BY <2>1
<1> QED  BY <1>1, <1>2

\* What is in a place after a clearing of p was there before; in the place
\* cleared it is what a failed call left there, marked, or right.
Survives(p, k0, n, k, b) ==
    /\ InStore(k, b)' => /\ InStore(k, b)
                         /\ k = k0 => faults' = faults + 1
    /\ OnItsWay(k, b)' => \E a \in Answers :
          /\ OnItsWay(k, a) /\ SameButLate(a, b)
          /\ k = k0 => b.late >= n \/ b.facts = Shown(KindAt(k), b.seen)
    /\ KeptIn(p, k, b)' => \E a \in Answers :
          /\ KeptIn(p, k, a) /\ SameButLate(a, b)
          /\ k = k0 => \/ b.late >= n
                       \/ b.facts = Shown(KindAt(k), b.seen) /\ ~ Outdated(b.seen)

LEMMA PurgeLeaves ==
    ASSUME ResponseTypeOK, SalesOnly, NEW p \in Process, NEW k0 \in Places, NEW n \in {1, 2},
           NEW lost \in BOOLEAN, Purges(p, k0, n, lost), NEW k \in Places, NEW b \in Answers
    PROVE  Survives(p, k0, n, k, b)
<1>1. PICK T : /\ reader' = Late(T, n) /\ \A r \in T : Wrong(r, p)
               /\ \A r \in Reader : (r.kind = k0 \/ r.p = p) /\ Wrong(r, p) => r \in T
  BY PurgeMarks
<1>2. b # NoAnswer /\ SameButLate(b, b)
  BY AnswerAssumption DEF SameButLate, Answers
<1>3. \A r \in Reader : reader'[r].at = reader[r].at
  BY <1>1, Marks
<1>4. ASSUME NEW r \in Reader, InHand(r), b = Kept(r)', r.kind = k0 \/ r.p = p
      PROVE  \/ b.late >= n
             \/ /\ b.facts = Shown(r.kind, b.seen)
                /\ r.p = p => ~ Outdated(b.seen)
  <2>1. /\ b.facts = reader[r].answer.facts /\ b.seen = reader[r].answer.seen
        /\ r \in T => b.late >= n
    BY <1>1, <1>4, KeptMarked
  <2>2. r \notin T => ~ Wrong(r, p)
    BY <1>1, <1>4
  <2> QED  BY <1>4, <2>1, <2>2 DEF Wrong, Stale, Seen
<1>5. InStore(k, b)' => InStore(k, b) /\ (k = k0 => faults' = faults + 1)
  <2>1. CASE k0 = "memory"
    BY <2>1 DEF Purges, PurgeMemory, InStore, Kinds
  <2>2. CASE k0 # "memory"
    BY <1>2, <2>2 DEF Purges, PurgeRedis, InStore, MayLose, ResponseTypeOK
  <2> QED  BY <2>1, <2>2
<1>6. ASSUME OnItsWay(k, b)'
      PROVE  \E a \in Answers :
                 /\ OnItsWay(k, a) /\ SameButLate(a, b)
                 /\ k = k0 => b.late >= n \/ b.facts = Shown(KindAt(k), b.seen)
  <2>1. PICK r \in Reader : r.kind = k /\ reader'[r].at \in {"keep_ram", "keep_redis"} /\ b = Kept(r)'
    BY <1>6 DEF OnItsWay
  <2>2. InHand(r) /\ reader[r].at \in {"keep_ram", "keep_redis"}
    BY <1>3, <2>1 DEF InHand
  <2>3. Kept(r) \in Answers /\ SameButLate(Kept(r), b)
    BY <1>1, <2>1, <2>2, KeptMarked
  <2>4. OnItsWay(k, Kept(r))
    BY <2>1, <2>2 DEF OnItsWay
  <2>5. KindAt(k) = k
    BY <2>1, ReaderAssumption DEF KindAt, Kinds
  <2> QED  BY <1>4, <2>1, <2>2, <2>3, <2>4, <2>5
<1>7. ASSUME KeptIn(p, k, b)'
      PROVE  \E a \in Answers :
                 /\ KeptIn(p, k, a) /\ SameButLate(a, b)
                 /\ k = k0 => \/ b.late >= n
                              \/ b.facts = Shown(KindAt(k), b.seen) /\ ~ Outdated(b.seen)
  <2>1. CASE k \in Kinds /\ b = spare'[p][k]
    <3>1. k # k0 /\ spare'[p][k] = spare[p][k]
      <4>1. CASE k0 = "memory"
        BY <2>1, <4>1 DEF Purges, PurgeMemory, Kinds
      <4>2. CASE k0 # "memory"
        BY <1>2, <2>1, <4>2 DEF Purges, PurgeRedis, ResponseTypeOK
      <4> QED  BY <4>1, <4>2
    <3> QED  BY <1>2, <2>1, <3>1 DEF KeptIn
  <2>2. CASE k = "memory" /\ b = ram'[p]
    <3>1. k # k0 /\ ram'[p] = ram[p]
      BY <1>2, <2>2 DEF Purges, PurgeMemory, PurgeRedis, ResponseTypeOK
    <3> QED  BY <1>2, <2>2, <3>1 DEF KeptIn
  <2>3. ASSUME k = "memory", NEW r \in Reader, r.p = p, reader'[r].at = "hit", b = Kept(r)'
        PROVE  \E a \in Answers :
                 /\ KeptIn(p, k, a) /\ SameButLate(a, b)
                 /\ k = k0 => \/ b.late >= n
                              \/ b.facts = Shown(KindAt(k), b.seen) /\ ~ Outdated(b.seen)
    <3>1. reader[r].at = "hit" /\ InHand(r)
      BY <1>3, <2>3 DEF InHand
    <3>2. Kept(r) \in Answers /\ SameButLate(Kept(r), b)
      BY <1>1, <2>3, <3>1, KeptMarked
    <3>3. KeptIn(p, k, Kept(r))
      BY <2>3, <3>1 DEF KeptIn
    <3>4. r.kind = "sales" /\ KindAt(k) = "sales"
      BY <2>3, <3>1 DEF SalesOnly, KindAt
    <3> QED  BY <1>4, <2>3, <3>1, <3>2, <3>3, <3>4
  <2> QED  BY <1>7, <2>1, <2>2, <2>3 DEF KeptIn
<1> QED  BY <1>5, <1>6, <1>7 DEF Survives

\* The answer that is made when an import is done: up to the remembered date.
Prewarmed(p, k, a) ==
    k = "companies" /\ Computed(k, a) /\ a.seen = [known |-> Truth.known, date |-> Remembered(p)]

LEMMA PrewarmKeeps ==
    ASSUME ResponseTypeOK, NEW p \in Process, NEW lost \in BOOLEAN, Prewarm(p, lost),
           NEW k \in Places, NEW a \in Answers
    PROVE  /\ InStore(k, a)' => InStore(k, a) \/ Prewarmed(p, k, a)
           /\ OnItsWay(k, a)' => OnItsWay(k, a)
           /\ \A q \in Process : KeptIn(q, k, a)' =>
                 KeptIn(q, k, a) \/ (q = p /\ Prewarmed(p, k, a))
<1> DEFINE seen == [known |-> Truth.known, date |-> Remembered(p)]
           answer(whole) == [facts |-> IF whole THEN Shown("companies", seen) ELSE {},
                             seen |-> seen, whole |-> whole, late |-> 0]
<1>1. PICK whole \in BOOLEAN : Keep(p, "companies", answer(whole), lost /\ whole)
  BY DEF Prewarm
<1>2. a = answer(whole) => (k = "companies" => Prewarmed(p, k, a))
  BY DEF Prewarmed, Computed
<1> DEFINE new == answer(whole)
           failed == lost /\ whole
<1>3. Keep(p, "companies", new, failed) /\ UNCHANGED <<ram, reader>>
  BY <1>1 DEF Prewarm
<1>4. a = new => (k = "companies" => Prewarmed(p, k, a))
  BY <1>2
<1> HIDE DEF new, failed
<1>5. ASSUME k \in Kinds
      PROVE  /\ redis'[k] = redis[k] \/ (k = "companies" /\ redis'[k] = new)
             /\ \A q \in Process : \/ spare'[q][k] = spare[q][k]
                                   \/ q = p /\ k = "companies" /\ spare'[q][k] = new
  BY <1>3, <1>5 DEF Keep, ResponseTypeOK
<1>6. InStore(k, a)' => InStore(k, a) \/ Prewarmed(p, k, a)
  BY <1>4, <1>5 DEF InStore
<1>7. OnItsWay(k, a)' => OnItsWay(k, a)
  BY <1>3 DEF OnItsWay, Kept
<1>8. ASSUME NEW q \in Process, KeptIn(q, k, a)'
      PROVE  KeptIn(q, k, a) \/ (q = p /\ Prewarmed(p, k, a))
  BY <1>3, <1>4, <1>5, <1>8 DEF KeptIn, Kept
<1> QED  BY <1>6, <1>7, <1>8

-----------------------------------------------------------------------------
(***************************************************************************)
(* What is kept, and what is about to be, shows the sales that the lookups *)
(* it was computed with let it show, or is pardoned.  The memory of a      *)
(* process counts if it did all the imports.                               *)
(***************************************************************************)
Held(k, a) == InStore(k, a) \/ OnItsWay(k, a) \/ \E p \in Process : Own(p) /\ KeptIn(p, k, a)

RightIs(k, a) == Agrees(KindAt(k), a) \/ Pardoned(k, a)

RightInv == SalesOnly /\ \A k \in Places, a \in Answers : Held(k, a) => RightIs(k, a)

LEMMA RightInitially == Init => RightInv
<1> SUFFICES ASSUME Init PROVE RightInv
  OBVIOUS
<1>1. /\ \A r \in Reader : reader[r].at = "idle"
      /\ \A k \in Kinds : redis[k] = NoAnswer
      /\ \A p \in Process : ram[p] = NoAnswer /\ \A k \in Kinds : spare[p][k] = NoAnswer
  BY DEF Init, ResponseInit
<1>2. SalesOnly
  BY <1>1 DEF SalesOnly
<1>3. ASSUME NEW k \in Places, NEW a \in Answers, Held(k, a) PROVE FALSE
  BY <1>1, <1>3, AnswerAssumption DEF Held, InStore, OnItsWay, KeptIn
<1> QED  BY <1>2, <1>3 DEF RightInv

LEMMA SalesOnlyStep ==
    ASSUME SalesInv, CallsInv, SalesOnly, [Next]_vars
    PROVE  SalesOnly'
<1>0. Basic /\ ResponseTypeOK /\ mix \in Mixes
  BY DEF SalesInv, CallsInv, Basic, MasterTypeOK
<1>1. ASSUME \A r \in Reader : reader'[r].at = reader[r].at PROVE SalesOnly'
  BY <1>1 DEF SalesOnly
<1>2. CASE CachesRest
  BY <1>1, <1>2 DEF CachesRest
<1>3. CASE Requests
  <2> DEFINE a == [facts |-> {}, seen |-> [known |-> {}, date |-> 0], whole |-> TRUE, late |-> 0]
  <2>1. a \in Answers \ {NoAnswer}
    <3> DEFINE v == [known |-> {}, date |-> 0]
    <3>1. v \in View /\ {} \in SUBSET (Nat \X Nat) /\ 0 \in 0 .. 2 /\ TRUE \in BOOLEAN
      BY DEF View
    <3> HIDE DEF v
    <3>2. [facts |-> {}, seen |-> v, whole |-> TRUE, late |-> 0] \in Answers
      BY <3>1 DEF Answers
    <3> QED  BY <3>2, AnswerAssumption DEF v
  <2> HIDE DEF a
  <2>2. ASSUME NEW r \in Reader PROVE SalesOnly'
    <3>1. r.p \in Process /\ "sales" \in Places
      BY ReaderAssumption DEF Places, Kinds
    <3> DEFINE p == r.p
    <3>2. p \in Process
      BY <3>1
    <3> HIDE DEF p
    <3> QED  BY <1>0, <1>3, <2>1, <3>1, <3>2, RequestsFlow
  <2>3. Reader = {} => SalesOnly'
    BY DEF SalesOnly
  <2> QED  BY <2>2, <2>3
<1>4. ASSUME NEW i \in Import, NEW lost \in BOOLEAN, DeskCaches(i, lost) PROVE SalesOnly'
  <2> DEFINE p == import[i].p
  <2>1. p \in Process
    BY <1>0, ImportIs
  <2>2. \/ CachesRest
        \/ \E k \in Kinds, n \in {1, 2} : PurgeRedis(p, k, n, lost)
        \/ \E n \in {1, 2} : PurgeMemory(p, n)
        \/ reader' = reader
    BY <1>4 DEF DeskCaches, ClearsRedis, ClearsMemory, SetsDate, RememberDate, Prewarms, Prewarm
  <2> HIDE DEF p
  <2>3. \A r \in Reader : reader'[r].at = reader[r].at
    BY <1>0, <2>1, <2>2, PurgeKeeps DEF CachesRest
  <2> QED  BY <1>1, <2>3
<1> HIDE DEF SalesOnly
<1> QED  BY <1>0, <1>2, <1>3, <1>4, CacheNext, Zenon

\* What stays or moves between places stays right.
LEMMA RightTransfers ==
    ASSUME Steady, faults \in Nat, faults' \in Nat, faults' >= faults,
           NEW k \in Places, NEW b \in Answers, StageStays(k)
    PROVE  /\ \A a \in Answers : RightIs(k, a) /\ SameButLate(a, b) => RightIs(k, b)'
           /\ Computed(KindAt(k), b) => RightIs(k, b)'
           /\ k = "memory" /\ RightIs("sales", b) => RightIs(k, b)'
<1>1. ASSUME NEW a \in Answers, RightIs(k, a), SameButLate(a, b) PROVE RightIs(k, b)'
  <2>1. CASE Agrees(KindAt(k), a)
    <3>1. Agrees(KindAt(k), b)
      BY <1>1, <2>1 DEF Agrees, SameButLate
    <3>2. Agrees(KindAt(k), b)'
      BY <3>1, AgreesStays DEF KindAt
    <3> QED  BY <3>2 DEF RightIs, KindAt
  <2>2. CASE Pardoned(k, a)
    <3>1. Pardoned(k, b)'
      BY <1>1, <2>2, PardonedStays DEF SameButLate
    <3> QED  BY <3>1 DEF RightIs
  <2> QED  BY <1>1, <2>1, <2>2 DEF RightIs
<1>2. SameButLate(b, b)
  BY DEF SameButLate, Answers
<1>3. ASSUME Computed(KindAt(k), b) PROVE RightIs(k, b)'
  <2>1. RightIs(k, b)
    BY <1>3, NotWhole DEF Computed, RightIs, Agrees
  <2> QED  BY <1>1, <1>2, <2>1
<1>4. ASSUME k = "memory", RightIs("sales", b) PROVE RightIs(k, b)'
  <2>1. KindAt(k) = KindAt("sales")
    BY <1>4 DEF KindAt
  <2>2. RightIs(k, b)
    BY <1>4, <2>1, PardonedDeeper DEF RightIs
  <2> QED  BY <1>1, <1>2, <2>2
<1> QED  BY <1>1, <1>3, <1>4

\* The clearing of a place.
LEMMA RightPurged ==
    ASSUME Steady, faults \in Nat, NEW k \in Places, NEW i, NEW n \in {1, 2}, Passes(i, k, n),
           NEW b \in Answers,
           \/ faults' = faults + 1 /\ RightIs(k, b)
           \/ b.late >= n
           \/ b.facts = Shown(KindAt(k), b.seen)
    PROVE  RightIs(k, b)'
<1>1. ASSUME Agrees(KindAt(k), b) PROVE RightIs(k, b)'
  BY <1>1, AgreesStays DEF RightIs, KindAt
<1>2. CASE b.facts = Shown(KindAt(k), b.seen)
  BY <1>1, <1>2 DEF Agrees
<1>3. CASE b.late >= n
  BY <1>3, PardonedByMark DEF RightIs
<1>4. CASE faults' = faults + 1 /\ RightIs(k, b)
  BY <1>1, <1>4, PardonedByFault DEF RightIs
<1> QED  BY <1>2, <1>3, <1>4

LEMMA RightStep ==
    ASSUME SalesInv, CallsInv, RightInv, [Next]_vars
    PROVE  RightInv'
<1>0. /\ Basic /\ ResponseTypeOK /\ mix \in Mixes /\ SalesOnly
      /\ faults \in Nat /\ faults' \in Nat /\ faults' >= faults
      /\ \A p : Own(p)' => Own(p)
      /\ \A k \in Places, a \in Answers : Held(k, a) => RightIs(k, a)
      /\ "sales" \in Places
  BY SteadyStep DEF SalesInv, CallsInv, Basic, MasterTypeOK, RightInv, Places, Kinds
<1>1. SalesOnly'
  BY <1>0, SalesOnlyStep
<1> SUFFICES ASSUME NEW k \in Places, NEW b \in Answers, Held(k, b)'
             PROVE  RightIs(k, b)'
  BY <1>1 DEF RightInv
<1>2. b # NoAnswer /\ SameButLate(b, b)
  BY AnswerAssumption DEF SameButLate, Answers
<1>3. ASSUME NEW i \in Import, Aggregates(i) PROVE RightIs(k, b)'
  BY <1>3, Uncleared DEF RightIs, Pardoned
<1>4. ASSUME Steady, StageStays(k)
      PROVE  /\ \A a \in Answers : Held(k, a) /\ SameButLate(a, b) => RightIs(k, b)'
             /\ Computed(KindAt(k), b) => RightIs(k, b)'
             /\ k = "memory" /\ Held("sales", b) => RightIs(k, b)'
  BY <1>0, <1>4, RightTransfers
<1>5. ASSUME UNCHANGED <<redis, ram, spare, reader>> PROVE Held(k, b)
  BY <1>0, <1>5 DEF Held, InStore, OnItsWay, KeptIn, Kept
<1>6. CASE Steady /\ CachesRest /\ StagesStay
  <2>1. UNCHANGED <<redis, ram, spare, reader>> /\ StageStays(k)
    BY <1>6 DEF CachesRest, StagesStay, answerVars
  <2> QED  BY <1>2, <1>4, <1>5, <1>6, <2>1
<1>7. CASE Steady /\ Requests /\ StagesStay
  <2>1. StageStays(k)
    BY <1>7 DEF StagesStay
  <2>2. \A p \in Process : Flows(p, k, b)
    BY <1>0, <1>2, <1>7, RequestsFlow
  <2>3. ASSUME OnItsWay(k, b)' PROVE OnItsWay(k, b) \/ Computed(KindAt(k), b)
    <3>1. k \in Kinds
      BY <2>3, ReaderAssumption DEF OnItsWay
    <3>2. KindAt(k) = k
      BY <3>1 DEF KindAt, Kinds
    <3>3. PICK r \in Reader : TRUE
      BY <2>3 DEF OnItsWay
    <3>4. r.p \in Process
      BY ReaderAssumption
    <3> QED  BY <2>2, <2>3, <3>2, <3>4 DEF Flows
  <2>4. ASSUME InStore(k, b)', NEW p \in Process PROVE Held(k, b)
    BY <2>2, <2>4 DEF Flows, Held
  <2>5. ASSUME NEW p \in Process, Own(p)', KeptIn(p, k, b)'
        PROVE  Held(k, b) \/ (k = "memory" /\ Held("sales", b))
    BY <1>0, <2>2, <2>5 DEF Flows, Held
  <2>6. InStore(k, b)' => \E p \in Process : TRUE
    <3>1. mix.readers \subseteq Reader /\ mix.processes \subseteq Process
      BY <1>0, DeskAssumption, MasterAssumption
    <3> QED  BY <1>7, <3>1, ReaderAssumption DEF Requests
  <2>7. \/ Held(k, b) \/ Computed(KindAt(k), b)
        \/ k = "memory" /\ Held("sales", b)
    BY <2>3, <2>4, <2>5, <2>6 DEF Held
  <2> QED  BY <1>2, <1>4, <1>7, <2>1, <2>7
<1>8. ASSUME Steady, NEW i \in Import, NEW lost \in BOOLEAN, DeskCaches(i, lost) PROVE RightIs(k, b)'
  <2>0. PICK p \in Process : p = import[i].p
    BY <1>0, ImportIs
  <2>1. CASE CachesRest /\ (Aggregates(i) \/ StagesStay)
    BY <1>3, <1>6, <1>8, <2>1
  <2>2. ASSUME NEW k0 \in Places, NEW n \in {1, 2}, Passes(i, k0, n), Purges(p, k0, n, lost)
        PROVE  RightIs(k, b)'
    <3>1. k # k0 => StageStays(k)
      BY <2>2 DEF Passes
    <3>2. ASSUME NEW q \in Process, Own(q)' PROVE q = p /\ Own(q)
      BY <1>0, <2>0, <2>2, <3>2 DEF Passes, Own
    <3>3. Survives(p, k0, n, k, b)
      BY <1>0, <2>0, <2>2, PurgeLeaves
    <3>4. \E a \in Answers : Held(k, a) /\ SameButLate(a, b)
                             /\ (k = k0 => \/ faults' = faults + 1 /\ a = b
                                           \/ b.late >= n \/ b.facts = Shown(KindAt(k), b.seen))
      <4>1. CASE InStore(k, b)'
        BY <1>2, <3>3, <4>1 DEF Held, Survives
      <4>2. CASE OnItsWay(k, b)'
        BY <3>3, <4>2 DEF Held, Survives
      <4>3. ASSUME NEW q \in Process, Own(q)', KeptIn(q, k, b)'
            PROVE  \E a \in Answers : Held(k, a) /\ SameButLate(a, b)
                             /\ (k = k0 => b.late >= n \/ b.facts = Shown(KindAt(k), b.seen))
        <5>1. q = p /\ Own(p)
          BY <3>2, <4>3
        <5>2. KeptIn(p, k, b)'
          BY <4>3, <5>1
        <5> QED  BY <3>3, <5>1, <5>2 DEF Held, Survives
      <4> QED  BY <4>1, <4>2, <4>3 DEF Held
    <3>5. CASE k # k0
      BY <1>4, <1>8, <3>1, <3>4, <3>5
    <3>6. CASE k = k0
      <4>1. \/ faults' = faults + 1 /\ RightIs(k, b)
            \/ b.late >= n
            \/ b.facts = Shown(KindAt(k), b.seen)
        BY <1>0, <3>4, <3>6
      <4> QED  BY <1>0, <1>8, <2>2, <3>6, <4>1, RightPurged
    <3> QED  BY <3>5, <3>6
  <2>3. ASSUME NEW k0 \in Kinds, NEW n \in {1, 2}, ClearsRedis(i, k0, n, lost) PROVE RightIs(k, b)'
    <3>1. k0 \in Places /\ k0 # "memory"
      BY DEF Places, Kinds
    <3> QED  BY <2>0, <2>2, <2>3, <3>1 DEF ClearsRedis, Purges
  <2>4. ASSUME NEW n \in {1, 2}, ClearsMemory(i, n) PROVE RightIs(k, b)'
    <3>1. "memory" \in Places
      BY DEF Places
    <3> QED  BY <2>0, <2>2, <2>4, <3>1 DEF ClearsMemory, Purges
  <2>5. CASE SetsDate(i)
    <3>1. UNCHANGED <<redis, ram, spare, reader>> /\ StageStays(k)
      BY <2>5 DEF SetsDate, RememberDate, StagesStay, answerVars
    <3> QED  BY <1>2, <1>4, <1>5, <1>8, <3>1
  <2>6. CASE Prewarms(i, lost)
    <3>1. Prewarm(p, lost) /\ StageStays(k)
      BY <2>0, <2>6 DEF Prewarms, StagesStay
    <3>2. /\ InStore(k, b)' => InStore(k, b) \/ Prewarmed(p, k, b)
          /\ OnItsWay(k, b)' => OnItsWay(k, b)
          /\ \A q \in Process : KeptIn(q, k, b)' =>
                KeptIn(q, k, b) \/ (q = p /\ Prewarmed(p, k, b))
      BY <1>0, <3>1, PrewarmKeeps
    <3>3. Held(k, b) \/ Prewarmed(p, k, b)
      BY <1>0, <3>2 DEF Held
    <3>4. Prewarmed(p, k, b) => Computed(KindAt(k), b)
      BY DEF Prewarmed, KindAt
    <3> QED  BY <1>2, <1>4, <1>8, <3>1, <3>3, <3>4
  <2> QED  BY <1>8, <2>1, <2>3, <2>4, <2>5, <2>6 DEF DeskCaches
<1>9. Steady \/ \E i \in Import : Aggregates(i)
  BY SteadyStep
<1> QED  BY <1>0, <1>3, <1>6, <1>7, <1>8, <1>9, CacheNext

-----------------------------------------------------------------------------
(***************************************************************************)
(* That nothing is overlooked: imports run in the processes of the mix,    *)
(* and the companies of sales credited are in the table.                   *)
(***************************************************************************)
InMix == \A i \in Import : Begun(i) => import[i].p \in mix.processes

LEMMA InMixStep ==
    ASSUME Basic, InMix, [Next]_vars
    PROVE  InMix'
<1>0. mix \in Mixes /\ mix' = mix /\ \A j \in Import : ImportKeeps(j)
  BY Keeps DEF Basic, MasterTypeOK
<1>1. CASE Upload
  <2>1. PICK i \in mix.imports, p \in mix.processes, s \in mix.sheets : BeginImport(i, p, s)
    BY <1>1 DEF Upload
  <2>2. i \in Import /\ p \in Process
    BY <1>0, MasterAssumption, DeskAssumption
  <2>3. BeginsAs(i, p, s)
    BY <2>1, <2>2, BeginIs
  <2> QED  BY <1>0, <2>1, <2>3 DEF BeginsAs, SameButAlone, InMix, Begun, At
<1>2. ASSUME \A j \in Import : Begun(j)' => Begun(j) PROVE InMix'
  BY <1>0, <1>2 DEF InMix, ImportKeeps
<1>3. CASE Resolve
  <2>1. PICK i \in Import, lost \in BOOLEAN : ResolveStep(i, lost)
    BY <1>3 DEF Resolve
  <2>2. \A j \in Import : Begun(j)' => Begun(j)
    BY <2>1, AnyTurn DEF Turns, Begun, At
  <2> QED  BY <1>2, <2>2
<1>4. CASE Remove
  <2>1. import' = import
    BY <1>4, RemoveIs DEF Remove, Removes
  <2> QED  BY <1>2, <2>1 DEF Begun, At
<1>5. ASSUME NamesRest PROVE InMix'
  <2>1. \A j \in Import : Begun(j)' => Begun(j)
    BY <1>5, LabelsDiffer, GoingOn DEF NamesRest, OnlyMoves, Begun, At
  <2> QED  BY <1>2, <2>1
<1>6. ASSUME import' = import PROVE InMix'
  BY <1>2, <1>6 DEF Begun, At
<1>7. CASE ImportStep
  <2>1. PICK i \in Import : (\E lost \in BOOLEAN : DeskStep(i, lost)) \/ Leave(i)
    BY <1>7, Zenon DEF ImportStep
  <2>2. CASE Leave(i)
    <3>1. At(i, "resolved") /\ import' = [import EXCEPT ![i].at = "done"]
      BY <2>2 DEF Leave, Follows
    <3>2. \A j \in Import \ {i} : import'[j] = import[j]
      BY <3>1 DEF Basic, MasterTypeOK
    <3> QED  BY <1>2, <3>1, <3>2 DEF Begun, At
  <2> QED  BY <1>5, <2>1, <2>2, DeskRests
<1>8. CASE NewRequest \/ Expiry \/ EditDirectory
  BY <1>5, <1>8, RequestRests
<1>9. CASE \E r \in mix.readers : Answering(r)
  BY <1>6, <1>9 DEF Answering, others
<1>10. CASE \E p \in mix.processes : Refreshing(p)
  BY <1>6, <1>10 DEF Refreshing, others
<1>11. CASE UNCHANGED vars
  BY <1>6, <1>11 DEF vars, masterVars
<1> HIDE DEF InMix
<1> QED  BY <1>1, <1>3, <1>4, <1>7, <1>8, <1>9, <1>10, <1>11, Zenon DEF Next

CreditedKnown == Is("companies") => \A s \in credited : \E r \in rows : s.company = Id(r)

\* A company stays in the table, and one that is found there has a row.
LEMMA CompaniesStay ==
    ASSUME Basic, [Next]_vars, Is("companies"), NEW r \in rows
    PROVE  \E q \in rows' : Id(q) = Id(r)
<1>1. ASSUME NEW i \in Import, Turns(i) PROVE \E q \in rows' : Id(q) = Id(r)
  <2>1. PICK q \in rows' : q.name = r.name /\ q.gen = r.gen
    BY <1>1 DEF Turns, RowsChange
  <2> QED  BY <2>1 DEF Id
<1>2. ~ Removes
  BY RemoveIs DEF Is
<1>3. ASSUME rows' = rows PROVE \E q \in rows' : Id(q) = Id(r)
  BY <1>3
<1>4. ASSUME NEW i \in Import, NEW p \in Process, NEW s \in mix.sheets, BeginImport(i, p, s)
      PROVE  rows' = rows
  BY <1>4, BeginIs DEF BeginsAs
<1> QED  BY <1>1, <1>2, <1>3, <1>4, NamesNext, AnyTurn DEF NamesRest

LEMMA CreditedCompany ==
    ASSUME NamesInv, Is("companies"), NEW i \in Import, Begun(i), NEW c \in Credits(i)
    PROVE  \E r \in rows : c.company = Id(r)
<1>0. Basic /\ removed = 0
  BY DEF NamesInv, TableInv, Basic, Is
<1>1. PICK s \in {s \in Sales(i) : Credited(i, s)} :
          c = [import |-> s.import, row |-> s.row, date |-> s.date,
               user |-> UserId(directory, RowOfSale(s).ase), company |-> CompanyOf(i, RowOfSale(s))]
  BY DEF Credits
<1>2. c.company = CompanyOf(i, RowOfSale(s)) /\ CompanyOf(i, RowOfSale(s)) # NoId
  BY <1>1 DEF Credited
<1>3. RowOfSale(s).name \in Name /\ import[i].p \in Process
  BY <1>0, <1>1, SalesAre, ImportIs
<1> DEFINE n == RowOfSale(s).name
<1>4. Clean[n] \in Key /\ Tight[n] \in Key
  BY <1>3 DEF Key
<1>5. PICK k \in {Clean[n], Tight[n]} : c.company = cached[import[i].p][k]
  BY <1>2 DEF CompanyOf, IdFor, Cached
<1>6. Rightly(k, c.company)
  BY <1>0, <1>2, <1>3, <1>4, <1>5 DEF NamesInv, TrueInv, TrueCache
<1> QED  BY <1>6 DEF Rightly

LEMMA CreditedKnownStep ==
    ASSUME SalesInv, NamesInv, CreditedKnown, [Next]_vars
    PROVE  CreditedKnown'
<1>0. Basic /\ mix' = mix
  BY Keeps DEF SalesInv
<1> SUFFICES ASSUME Is("companies"), NEW s \in credited'
             PROVE  \E r \in rows' : s.company = Id(r)
  BY <1>0 DEF CreditedKnown, Is, Id
<1>1. ASSUME \E r \in rows : s.company = Id(r) PROVE \E r \in rows' : s.company = Id(r)
  <2>1. PICK r \in rows : s.company = Id(r)
    BY <1>1
  <2> QED  BY <1>0, <2>1, CompaniesStay
<1>2. ASSUME s \in credited PROVE \E r \in rows' : s.company = Id(r)
  BY <1>1, <1>2 DEF CreditedKnown
<1>3. ASSUME NEW i \in Import, CreditsSome(i) PROVE \E r \in rows' : s.company = Id(r)
  <2>1. Begun(i)
    BY <1>3 DEF CreditsSome, Begun, At
  <2>2. s \in credited \/ s \in Credits(i)
    BY <1>3 DEF CreditsSome
  <2> QED  BY <1>1, <1>2, <2>1, <2>2, CreditedCompany
<1>4. ASSUME Calm \/ Edited PROVE s \in credited
  BY <1>4 DEF Calm, DeskRest, Edited
<1>5. ASSUME NEW i \in Import, \/ Validated(i) \/ Publishes(i) \/ Withdraws(i)
                               \/ Syncs(i) \/ Aggregates(i) \/ Clears(i)
      PROVE  s \in credited
  BY <1>5 DEF Validated, Publishes, Withdraws, Syncs, Aggregates, Clears, DeskRest
<1> QED  BY <1>0, <1>2, <1>3, <1>4, <1>5, SalesNext, DeskIs

\* Lookups that are as they would be if read now overlook nothing.
LEMMA TruthSeesAll ==
    ASSUME CreditedKnown, NEW v, ~ Outdated(v)
    PROVE  SeesAll(v)
<1>1. v.known = {Id(r) : r \in rows} /\ v.date = Truth.date
  BY DEF Outdated, Truth
<1> QED  BY <1>1 DEF SeesAll, CreditedKnown

-----------------------------------------------------------------------------
(***************************************************************************)
(* One process, imports that do not overlap, nothing a day old: which      *)
(* lookups are about, in the process or with a call that computes an       *)
(* answer.  Nothing reads them in the background.                          *)
(***************************************************************************)
One(p) == mix.processes = {p} /\ ~ mix.expiry /\ ~ Overlapped

NoneOld(p) == refresh[p].at = "idle" /\ (lookups[p] = NoLookups \/ ~ lookups[p].expired)

Computing(r) == reader[r].at \in {"fetched", "query", "keep_ram", "keep_redis"}

Looks(p, v, n) ==
    \/ /\ lookups[p] # NoLookups /\ n = lookups[p].late
       /\ v = [known |-> lookups[p].known, date |-> lookups[p].date]
    \/ \E r \in Reader : Computing(r) /\ v = Seen(r) /\ n = reader[r].late

\* Lookups with which nothing is overlooked, or that a clearing marked.
Sees(v, n) == SeesAll(v) \/ Spared(n)

LEMMA OneCalls ==
    ASSUME CallsInv, mix \in Mixes, NEW p \in Process, mix.processes = {p}
    PROVE  /\ \A r \in mix.readers : r \in Reader /\ r.p = p
           /\ \A r \in Reader : reader[r].at # "idle" => r.p = p
  BY DeskAssumption DEF CallsInv

\* One call.
LEMMA CallLooks ==
    ASSUME ResponseTypeOK, NEW r \in Reader, NEW lost, Ask(r, lost) \/ RequestStep(r, lost),
           NEW p \in Process, r.p = p, NoneOld(p), NEW v, NEW n
    PROVE  /\ NoneOld(p)' /\ memo' = memo
           /\ Looks(p, v, n)' => Looks(p, v, n) \/ v = Truth
<1> DEFINE mine == Computing(r)' /\ v = Seen(r)' /\ n = reader'[r].late
           Goal == Looks(p, v, n) \/ v = Truth
<1>1. \A q \in Reader \ {r} : reader'[q] = reader[q]
  BY OnlyCaller
<1>2. ASSUME lookups' = lookups, mine => Goal PROVE Looks(p, v, n)' => Goal
  BY <1>1, <1>2 DEF Looks, Computing, Seen, InHand
<1>3. ASSUME UNCHANGED lookupVars, mine => Goal
      PROVE  NoneOld(p)' /\ memo' = memo /\ (Looks(p, v, n)' => Goal)
  BY <1>2, <1>3 DEF lookupVars, NoneOld
<1>4. ASSUME NEW new, reader' = [reader EXCEPT ![r] = new] PROVE reader'[r] = new
  BY <1>4 DEF ResponseTypeOK
<1>5. CASE Ask(r, lost)
  <2>1. reader'[r].at \in {"miss", "hit"}
    <3> DEFINE new == IF Found(r, lost) = NoAnswer THEN [at |-> "miss"]
                      ELSE [at |-> "hit", answer |-> Found(r, lost), late |-> Found(r, lost).late]
    <3>1. reader' = [reader EXCEPT ![r] = new] /\ new.at \in {"miss", "hit"}
      BY <1>5 DEF Ask
    <3> HIDE DEF new
    <3> QED  BY <3>1 DEF ResponseTypeOK
  <2>2. ~ mine
    BY <2>1 DEF Computing
  <2> QED  BY <1>3, <1>5, <2>2 DEF Ask
<1>6. CASE Query(r, lost)
  <2> DEFINE shown == IF lost THEN {} ELSE Shown(r.kind, reader[r].seen)
             answer == [facts |-> shown, seen |-> reader[r].seen, whole |-> ~lost, late |-> 0]
             new == [at |-> IF r.kind = "sales" THEN "keep_ram" ELSE "keep_redis",
                     answer |-> answer, late |-> reader[r].late]
  <2>1. /\ reader[r].at = "query" /\ UNCHANGED lookupVars
        /\ \/ reader' = [reader EXCEPT ![r] = [at |-> "idle"]]
           \/ reader' = [reader EXCEPT ![r] = new]
    BY <1>6 DEF Query, Idle
  <2> HIDE DEF shown
  <2>2. CASE reader' = [reader EXCEPT ![r] = [at |-> "idle"]]
    <3>1. reader'[r].at = "idle"
      BY <2>2 DEF ResponseTypeOK
    <3> QED  BY <1>3, <2>1, <3>1 DEF Computing
  <2>3. CASE reader' = [reader EXCEPT ![r] = new]
    <3>1. reader'[r] = new
      BY <2>3 DEF ResponseTypeOK
    <3>2. InHand(r)' /\ Seen(r)' = reader[r].seen /\ reader'[r].late = reader[r].late
      BY <3>1 DEF InHand, Seen
    <3>3. Computing(r) /\ Seen(r) = reader[r].seen
      BY <2>1 DEF Computing, Seen, InHand
    <3>4. mine => Looks(p, v, n)
      BY <3>2, <3>3 DEF Looks
    <3> QED  BY <1>3, <2>1, <3>4
  <2> QED  BY <2>1, <2>2, <2>3
<1>7. CASE KeepInRedis(r, lost) \/ KeepFound(r)
  <2>1. UNCHANGED lookupVars /\ reader' = [reader EXCEPT ![r] = [at |-> "idle"]]
    BY <1>7 DEF KeepInRedis, KeepFound, Idle
  <2>2. reader'[r].at = "idle"
    BY <2>1 DEF ResponseTypeOK
  <2> QED  BY <1>3, <2>1, <2>2 DEF Computing
<1>8. CASE KeepInMemory(r)
  <2>1. /\ reader[r].at = "keep_ram" /\ UNCHANGED lookupVars
        /\ reader' = [reader EXCEPT ![r] = [reader[r] EXCEPT !.at = "keep_redis"]]
    BY <1>8 DEF KeepInMemory, Goes
  <2>2. reader[r] \in InHands
    BY <2>1, ReaderIs DEF InHand
  <2>3. /\ reader'[r].at = "keep_redis" /\ reader'[r].answer = reader[r].answer
        /\ reader'[r].late = reader[r].late
    BY <2>1, <2>2 DEF ResponseTypeOK, InHands
  <2>4. mine => Looks(p, v, n)
    BY <2>1, <2>3 DEF Looks, Computing, Seen, InHand
  <2> QED  BY <1>3, <2>1, <2>4
<1>9. CASE ReadLookups(r)
  <2> DEFINE l == lookups[p]
             first == [at |-> "fetched", seen |-> Truth, late |-> 0]
             other == [at |-> "query", seen |-> [known |-> l.known, date |-> l.date], late |-> l.late]
  <2>1. /\ lookups' = lookups /\ memo' = memo /\ refresh' = refresh
        /\ \/ reader' = [reader EXCEPT ![r] = first]
           \/ l # NoLookups /\ reader' = [reader EXCEPT ![r] = other]
    BY <1>9 DEF ReadLookups, NoneOld
  <2>2. CASE reader' = [reader EXCEPT ![r] = first]
    <3>1. reader'[r] = first
      BY <1>4, <2>2
    <3>2. Seen(r)' = Truth
      BY <3>1 DEF Seen, InHand
    <3> QED  BY <1>3, <2>1, <3>2 DEF lookupVars
  <2>3. CASE l # NoLookups /\ reader' = [reader EXCEPT ![r] = other]
    <3>1. reader'[r] = other
      BY <1>4, <2>3
    <3>2. Seen(r)' = [known |-> l.known, date |-> l.date] /\ reader'[r].late = l.late
      BY <3>1 DEF Seen, InHand
    <3>3. mine => Looks(p, v, n)
      BY <2>3, <3>2 DEF Looks
    <3> QED  BY <1>3, <2>1, <3>3 DEF lookupVars
  <2> QED  BY <2>1, <2>2, <2>3
<1>10. CASE InstallLookups(r)
  <2>1. /\ reader[r].at = "fetched" /\ memo' = memo /\ refresh' = refresh
        /\ reader' = [reader EXCEPT ![r] = [reader[r] EXCEPT !.at = "query"]]
        /\ lookups' = [lookups EXCEPT ![p] = [Current(reader[r].seen) EXCEPT !.late = reader[r].late]]
    BY <1>10 DEF InstallLookups, Goes
  <2>2. reader[r] \in Holding
    BY <2>1, ReaderIs
  <2>3. reader'[r].at = "query" /\ reader'[r].seen = reader[r].seen /\ reader'[r].late = reader[r].late
    BY <2>1, <2>2 DEF ResponseTypeOK, Holding
  <2>4. Computing(r) /\ Seen(r) = reader[r].seen /\ Seen(r)' = reader[r].seen
    BY <2>1, <2>3 DEF Computing, Seen, InHand
  <2>5. lookups'[p] = [Current(reader[r].seen) EXCEPT !.late = reader[r].late]
    BY <2>1 DEF ResponseTypeOK
  <2>6. /\ lookups'[p].known = reader[r].seen.known /\ lookups'[p].date = reader[r].seen.date
        /\ lookups'[p].expired = FALSE /\ lookups'[p].late = reader[r].late
    BY <2>5 DEF Current
  <2>7. [known |-> lookups'[p].known, date |-> lookups'[p].date] = reader[r].seen
    <3>1. reader[r].seen \in View
      BY <2>2 DEF Holding
    <3> QED  BY <2>6, <3>1 DEF View
  <2>8. Looks(p, v, n)' => Looks(p, v, n)
    BY <1>1, <2>3, <2>4, <2>6, <2>7 DEF Looks, Computing, Seen, InHand
  <2>9. NoneOld(p)'
    BY <2>1, <2>6 DEF NoneOld
  <2> QED  BY <2>1, <2>8, <2>9
<1> HIDE DEF Goal, mine
<1>11. \/ Ask(r, lost) \/ Query(r, lost) \/ KeepInRedis(r, lost) \/ KeepFound(r)
       \/ ReadLookups(r) \/ InstallLookups(r) \/ KeepInMemory(r)
  BY Zenon DEF RequestStep
<1> QED  BY <1>5, <1>6, <1>7, <1>8, <1>9, <1>10, <1>11 DEF Goal

LEMMA RequestsLook ==
    ASSUME CallsInv, mix \in Mixes, NEW p \in Process, One(p), NoneOld(p), Requests, NEW v, NEW n
    PROVE  /\ NoneOld(p)' /\ memo' = memo
           /\ Looks(p, v, n)' => Looks(p, v, n) \/ v = Truth
<1>1. mix.processes = {p} /\ ~ mix.expiry /\ ResponseTypeOK
  BY DEF One, CallsInv
<1>2. ~ RefreshLookups(p)
  BY DEF NoneOld, RefreshLookups
<1>3. PICK r \in mix.readers, lost \in BOOLEAN : Ask(r, lost) \/ RequestStep(r, lost)
  BY <1>1, <1>2 DEF Requests
<1>4. r \in Reader /\ r.p = p
  BY <1>1, OneCalls
<1> QED  BY <1>1, <1>3, <1>4, CallLooks

\* What a clearing of p leaves of them: the same, and marked if out of date.
PurgedLooks(p, v, n0, n) ==
    Looks(p, v, n)' =>
        \E m \in 0 .. 2 : /\ Looks(p, v, m) /\ n \in 0 .. 2 /\ m <= n
                          /\ Outdated(v) /\ (n0 = 1 \/ m = 1) => n >= n0

LEMMA LookupsPurged ==
    ASSUME ResponseTypeOK, NEW p \in Process, NEW k0 \in Places, NEW n0 \in {1, 2}, NEW lost,
           Purges(p, k0, n0, lost), refresh[p].at = "idle", lookups'[p] # NoLookups
    PROVE  /\ lookups[p] \in Lookups /\ lookups'[p] \in Lookups
           /\ lookups'[p].known = lookups[p].known /\ lookups'[p].date = lookups[p].date
           /\ lookups'[p].expired = lookups[p].expired /\ lookups'[p].late >= lookups[p].late
           /\ Outdated(lookups[p]) /\ (n0 = 1 \/ lookups[p].late = 1) => lookups'[p].late >= n0
<1>1. k0 # "memory" /\ lookups' = LateLookups(p, n0)
  BY DEF Purges, PurgeMemory, PurgeRedis, ResponseTypeOK
<1>2. CASE lookups[p] # NoLookups /\ (n0 = 1 \/ lookups[p].late = 1) /\ Outdated(lookups[p])
  <2> DEFINE late == MaxOf({lookups[p].late, n0})
             new == [lookups[p] EXCEPT !.late = late]
  <2>1. lookups[p] \in Lookups /\ lookups[p].late \in 0 .. 2 /\ n0 \in 0 .. 2
    BY <1>2 DEF ResponseTypeOK, Lookups
  <2>2. late \in 0 .. 2 /\ late >= lookups[p].late /\ late >= n0
    BY <2>1, LaterIsLater
  <2>3. lookups' = [lookups EXCEPT ![p] = new]
    BY <1>1, <1>2 DEF LateLookups
  <2>4. lookups'[p] = new
    <3> HIDE DEF new
    <3> QED  BY <2>3 DEF ResponseTypeOK
  <2> HIDE DEF late
  <2>5. /\ new \in Lookups /\ new.known = lookups[p].known /\ new.date = lookups[p].date
        /\ new.expired = lookups[p].expired /\ new.late = late
    BY <2>1, <2>2 DEF Lookups
  <2> QED  BY <2>1, <2>2, <2>4, <2>5
<1>3. CASE ~ (lookups[p] # NoLookups /\ (n0 = 1 \/ lookups[p].late = 1) /\ Outdated(lookups[p]))
  <2>1. lookups' = lookups /\ lookups[p] # NoLookups
    BY <1>1, <1>3 DEF LateLookups
  <2>2. lookups[p] \in Lookups
    BY <2>1 DEF ResponseTypeOK
  <2>3. lookups[p].late \in 0 .. 2
    BY <2>2 DEF Lookups
  <2> QED  BY <1>3, <2>1, <2>2, <2>3
<1> QED  BY <1>2, <1>3

LEMMA PurgeLooks ==
    ASSUME ResponseTypeOK, NEW p \in Process, NEW k0 \in Places, NEW n0 \in {1, 2},
           NEW lost \in BOOLEAN, Purges(p, k0, n0, lost), NoneOld(p),
           \A r \in Reader : reader[r].at # "idle" => r.p = p
    PROVE  /\ NoneOld(p)' /\ memo' = memo
           /\ \A v, n : PurgedLooks(p, v, n0, n)
<1>1. PICK T : /\ reader' = Late(T, n0) /\ \A r \in T : Wrong(r, p)
               /\ \A r \in Reader : (r.kind = k0 \/ r.p = p) /\ Wrong(r, p) => r \in T
  BY PurgeMarks
<1>2. memo' = memo /\ refresh' = refresh
  BY DEF Purges, PurgeMemory, PurgeRedis, LateRefresh, NoneOld
<1>3. NoneOld(p)'
  <2>1. refresh[p].at = "idle" /\ (lookups[p] # NoLookups => ~ lookups[p].expired)
    BY DEF NoneOld
  <2>2. ASSUME lookups'[p] # NoLookups PROVE ~ lookups'[p].expired
    <3>1. lookups[p] \in Lookups /\ lookups'[p].expired = lookups[p].expired
      BY <2>1, <2>2, LookupsPurged
    <3> QED  BY <2>1, <3>1, AnswerAssumption
  <2> QED  BY <1>2, <2>1, <2>2 DEF NoneOld
<1>4. ASSUME NEW v, NEW n, Looks(p, v, n)'
      PROVE  \E m \in 0 .. 2 : /\ Looks(p, v, m) /\ n \in 0 .. 2 /\ m <= n
                               /\ Outdated(v) /\ (n0 = 1 \/ m = 1) => n >= n0
  <2>1. CASE /\ lookups'[p] # NoLookups /\ n = lookups'[p].late
             /\ v = [known |-> lookups'[p].known, date |-> lookups'[p].date]
    <3>1. /\ lookups[p] \in Lookups /\ lookups'[p] \in Lookups
          /\ lookups'[p].known = lookups[p].known /\ lookups'[p].date = lookups[p].date
          /\ lookups'[p].late >= lookups[p].late
          /\ Outdated(lookups[p]) /\ (n0 = 1 \/ lookups[p].late = 1) => lookups'[p].late >= n0
      BY <2>1, LookupsPurged DEF NoneOld
    <3>2. lookups[p].late \in 0 .. 2 /\ n \in 0 .. 2
      BY <2>1, <3>1 DEF Lookups
    <3>3. lookups[p] # NoLookups /\ v = [known |-> lookups[p].known, date |-> lookups[p].date]
      BY <2>1, <3>1, AnswerAssumption
    <3>4. Outdated(v) <=> Outdated(lookups[p])
      BY <3>3 DEF Outdated
    <3> QED  BY <2>1, <3>1, <3>2, <3>3, <3>4 DEF Looks
  <2>2. ASSUME NEW r \in Reader, Computing(r)', v = Seen(r)', n = reader'[r].late
        PROVE  \E m \in 0 .. 2 : /\ Looks(p, v, m) /\ n \in 0 .. 2 /\ m <= n
                                 /\ Outdated(v) /\ (n0 = 1 \/ m = 1) => n >= n0
    <3>1. /\ reader'[r].at = reader[r].at
          /\ InHand(r) => reader'[r].answer = reader[r].answer
          /\ reader[r].at \in {"fetched", "query"} => reader'[r].seen = reader[r].seen
      BY <1>1, Marks
    <3>2. Computing(r) /\ Busy(r) /\ r.p = p
      BY <2>2, <3>1 DEF Computing, Busy, InHand
    <3>3. Seen(r) = v
      BY <2>2, <3>1, <3>2 DEF Computing, Seen, InHand
    <3>4. /\ reader[r].late \in 0 .. 2 /\ n \in 0 .. 2 /\ n >= reader[r].late
          /\ r \in T => n >= n0
      BY <1>1, <2>2, <3>2, Marks
    <3>5. Outdated(v) => r \in T
      BY <1>1, <3>2, <3>3 DEF Wrong, Busy
    <3>6. Looks(p, v, reader[r].late)
      BY <3>2, <3>3 DEF Looks
    <3> QED  BY <3>4, <3>5, <3>6
  <2> QED  BY <1>4, <2>1, <2>2 DEF Looks
<1> QED  BY <1>2, <1>3, <1>4 DEF PurgedLooks

\* What an import does when it is done.
LEMMA PrewarmLooks ==
    ASSUME ResponseTypeOK, NEW p \in Process, NEW lost, Prewarm(p, lost), NoneOld(p)
    PROVE  /\ NoneOld(p)' /\ memo'[p] = Remembered(p)
           /\ \A v, n : Looks(p, v, n)' => Looks(p, v, n) \/ v = [known |-> Truth.known, date |-> Truth.date]
<1>1. memo'[p] = Remembered(p) /\ UNCHANGED <<refresh, reader>>
  BY DEF Prewarm, ResponseTypeOK
<1>2. \/ lookups' = lookups
      \/ lookups'[p] = Current(Truth)
  BY DEF Prewarm, ResponseTypeOK
<1>3. CASE lookups' = lookups
  BY <1>1, <1>3 DEF NoneOld, Looks, Computing, Seen, InHand
<1>4. CASE lookups'[p] = Current(Truth)
  <2> DEFINE now == [known |-> Truth.known, date |-> Truth.date]
  <2>1. /\ lookups'[p].known = Truth.known /\ lookups'[p].date = Truth.date
        /\ lookups'[p].expired = FALSE
    BY <1>4 DEF Current
  <2>2. [known |-> lookups'[p].known, date |-> lookups'[p].date] = now
    BY <2>1
  <2> HIDE DEF now
  <2>3. \A v, n : Looks(p, v, n)' => Looks(p, v, n) \/ v = now
    BY <1>1, <2>2 DEF Looks, Computing, Seen, InHand
  <2> QED  BY <1>1, <2>1, <2>3 DEF NoneOld, now
<1> QED  BY <1>1, <1>2, <1>3, <1>4

LEMMA SeesStays ==
    ASSUME Steady, StageStays("sales"), NEW v, NEW n, Sees(v, n)
    PROVE  Sees(v, n)'
  BY FreshStays DEF Sees, Spared, StageStays

LEMMA SeesMarked ==
    ASSUME Steady, NEW i, NEW k0 \in Places, NEW n0 \in {1, 2}, Passes(i, k0, n0), CreditedKnown,
           NEW v, NEW m \in 0 .. 2, NEW n \in 0 .. 2, m <= n, Sees(v, m),
           Outdated(v) /\ (n0 = 1 \/ m = 1) => n >= n0
    PROVE  Sees(v, n)'
<1>1. CASE SeesAll(v)
  BY <1>1, FreshStays DEF Sees
<1>2. CASE ~ SeesAll(v)
  <2>1. Outdated(v) /\ Spared(m)
    BY <1>2, TruthSeesAll DEF Sees
  <2>2. "sales" \in Places /\ (ClearedTwice("sales")' => Cleared("sales")')
    BY ClearedIs DEF Places, Kinds
  <2>3. CASE k0 # "sales"
    <3>1. Spared(n)'
      BY <2>1, <2>2, <2>3 DEF Passes, StageStays, Spared
    <3> QED  BY <3>1 DEF Sees
  <2>4. CASE k0 = "sales"
    <3>1. Spared(n)'
      BY <2>1, <2>2, <2>4 DEF Passes, Spared
    <3> QED  BY <3>1 DEF Sees
  <2> QED  BY <2>3, <2>4
<1> QED  BY <1>1, <1>2

-----------------------------------------------------------------------------
(***************************************************************************)
(* In such a process nothing in the caches is behind the sales there are,  *)
(* unless an import set the remembered date back, or it is pardoned.       *)
(***************************************************************************)
FreshIs(p, k, a) ==
    \/ FreshFor(k, a.seen)
    \/ Pardoned(k, a)
    \/ k = "companies" /\ ClearedTwice(k) /\ SetBack(p)

AllSeen(p) == \A v, n : Looks(p, v, n) => Sees(v, n)

AllFresh(p) ==
    \A k \in Places, a \in Answers : InStore(k, a) \/ KeptIn(p, k, a) => FreshIs(p, k, a)

FreshIn(p) == NoneOld(p) /\ AllSeen(p) /\ AllFresh(p)

FreshInv == InMix /\ CreditedKnown /\ \A p \in Process : One(p) => FreshIn(p)

LEMMA FreshInitially == Init => FreshInv
<1> SUFFICES ASSUME Init PROVE FreshInv
  OBVIOUS
<1>0. mix \in Mixes
  BY DEF Init, MasterInit
<1>1. /\ \A r \in Reader : reader[r].at = "idle"
      /\ \A k \in Kinds : redis[k] = NoAnswer
      /\ \A p \in Process : /\ ram[p] = NoAnswer /\ \A k \in Kinds : spare[p][k] = NoAnswer
                            /\ lookups[p] = NoLookups /\ refresh[p].at = "idle"
  BY DEF Init, ResponseInit
<1>2. InMix
  BY DEF Init, MasterInit, NewImport, InMix, Begun, At
<1>3. CreditedKnown
  BY <1>0, DeskAssumption DEF Init, MasterInit, ResponseInit, CreditedKnown, Is
<1>4. ASSUME NEW p \in Process PROVE FreshIn(p)
  <2>1. NoneOld(p) /\ AllSeen(p)
    BY <1>1 DEF NoneOld, AllSeen, Looks, Computing
  <2>2. ASSUME NEW k \in Places, NEW a \in Answers, InStore(k, a) \/ KeptIn(p, k, a) PROVE FALSE
    BY <1>1, <2>2, AnswerAssumption DEF InStore, KeptIn
  <2> QED  BY <2>1, <2>2 DEF FreshIn, AllFresh
<1> QED  BY <1>2, <1>3, <1>4 DEF FreshInv

LEMMA TruthDate ==
    ASSUME SalesInv, CallsInv
    PROVE  Truth.date \in Nat
  BY SourcesAre, TruthIs DEF View

LEMMA TruthIsSeen ==
    ASSUME CreditedKnown, NEW v,
           v.known = Truth.known /\ v.date = Truth.date
    PROVE  SeesAll(v)
  BY TruthSeesAll DEF Outdated

LEMMA SeenIsFresh ==
    ASSUME SalesInv, CallsInv, NEW p, NEW k \in Places, NEW a \in Answers, Sees(a.seen, a.late)
    PROVE  FreshIs(p, k, a)
<1>1. CASE SeesAll(a.seen)
  BY <1>1, TruthDate DEF FreshIs, FreshFor, SeesAll
<1>2. CASE Spared(a.late)
  BY <1>2, SparedIs DEF FreshIs
<1> QED  BY <1>1, <1>2 DEF Sees

LEMMA OnItsWayLooks ==
    ASSUME ResponseTypeOK, NEW p, NEW k, NEW a, OnItsWay(k, a)
    PROVE  Looks(p, a.seen, a.late)
<1>1. PICK r \in Reader : reader[r].at \in {"keep_ram", "keep_redis"} /\ a = Kept(r)
  BY DEF OnItsWay
<1> DEFINE b == reader[r].answer
<1>2. InHand(r) /\ b \in Answers /\ reader[r].late \in 0 .. 2 /\ a = [b EXCEPT !.late = reader[r].late]
  BY <1>1, ReaderIs DEF InHand, InHands, Kept
<1> HIDE DEF b
<1>3. a.seen = b.seen /\ a.late = reader[r].late
  BY <1>2 DEF Answers
<1>4. Seen(r) = a.seen /\ Computing(r)
  BY <1>1, <1>2, <1>3 DEF Seen, Computing, b
<1> QED  BY <1>3, <1>4 DEF Looks

\* What stays or moves between places stays fresh.
LEMMA FreshTransfers ==
    ASSUME Steady, faults \in Nat, faults' \in Nat, faults' >= faults, NEW p,
           NEW k \in Places, StageStays(k), NEW a \in Answers, NEW b \in Answers, SameButLate(a, b),
           k = "companies" /\ ClearedTwice(k) /\ SetBack(p) => SetBack(p)',
           FreshIs(p, k, a)
    PROVE  FreshIs(p, k, b)'
<1>1. CASE FreshFor(k, a.seen)
  <2>1. PICK v : v = b.seen /\ FreshFor(k, v)
    BY <1>1 DEF SameButLate
  <2>2. FreshFor(k, v)'
    BY <2>1, FreshStays
  <2> QED  BY <2>1, <2>2 DEF FreshIs
<1>2. CASE Pardoned(k, a)
  <2>1. Pardoned(k, b)'
    BY <1>2, PardonedStays DEF SameButLate
  <2> QED  BY <2>1 DEF FreshIs
<1>3. CASE k = "companies" /\ ClearedTwice(k) /\ SetBack(p)
  BY <1>3 DEF FreshIs, StageStays
<1> QED  BY <1>1, <1>2, <1>3 DEF FreshIs

LEMMA DateStays ==
    ASSUME Steady, NEW p, memo'[p] = memo[p] \/ memo'[p] = Remembered(p), SetBack(p)
    PROVE  SetBack(p)'
<1>1. Truth.date' = Truth.date
  BY FreshStays
<1> QED  BY <1>1 DEF SetBack, Remembered

LEMMA MemoryFresh ==
    ASSUME faults \in Nat, NEW p, NEW a \in Answers, FreshIs(p, "sales", a)
    PROVE  FreshIs(p, "memory", a)
<1>1. "memory" \in Places
  BY DEF Places
<1> QED  BY <1>1, PardonedDeeper DEF FreshIs, FreshFor

LEMMA FreshRests ==
    ASSUME Steady, faults \in Nat, faults' \in Nat, faults' >= faults, StagesStay,
           NEW p \in Process, FreshIn(p), UNCHANGED <<redis, ram, spare, reader, lookups, refresh>>,
           ClearedTwice("companies") /\ SetBack(p) => SetBack(p)'
    PROVE  FreshIn(p)'
<1>1. NoneOld(p)'
  BY DEF FreshIn, NoneOld
<1>2. ASSUME NEW v, NEW n, Looks(p, v, n)' PROVE Sees(v, n)'
  <2>1. Looks(p, v, n)
    BY <1>2 DEF Looks, Computing, Seen, InHand
  <2>2. StageStays("sales")
    BY DEF StagesStay, Places, Kinds
  <2> QED  BY <2>1, <2>2, SeesStays DEF FreshIn, AllSeen
<1>3. ASSUME NEW k \in Places, NEW a \in Answers, InStore(k, a)' \/ KeptIn(p, k, a)'
      PROVE  FreshIs(p, k, a)'
  <2>1. InStore(k, a) \/ KeptIn(p, k, a)
    BY <1>3 DEF InStore, KeptIn, Kept
  <2>2. FreshIs(p, k, a) /\ StageStays(k) /\ SameButLate(a, a)
    BY <2>1 DEF FreshIn, AllFresh, StagesStay, SameButLate, Answers
  <2> QED  BY <2>2, FreshTransfers
<1> QED  BY <1>1, <1>2, <1>3 DEF FreshIn, AllSeen, AllFresh

LEMMA FreshAggregated ==
    ASSUME NEW i \in Import, Aggregates(i), NEW p \in Process, NoneOld(p)'
    PROVE  FreshIn(p)'
<1>1. \A k \in Places : ~ Cleared(k)' /\ ~ ClearedTwice(k)'
  BY Uncleared
<1>3. \A v, n : Sees(v, n)'
  BY <1>1 DEF Sees, Spared, Places, Kinds
<1>4. \A k \in Places, a \in Answers : FreshIs(p, k, a)'
  BY <1>1 DEF FreshIs, Pardoned
<1> QED  BY <1>3, <1>4 DEF FreshIn, AllSeen, AllFresh

LEMMA FreshRequested ==
    ASSUME SalesInv, CallsInv, SalesOnly, CreditedKnown, Steady, StagesStay, Requests,
           faults \in Nat, faults' \in Nat, faults' >= faults,
           NEW p \in Process, One(p), FreshIn(p)
    PROVE  FreshIn(p)'
<1>0. ResponseTypeOK /\ mix \in Mixes /\ NoneOld(p) /\ StageStays("sales")
  BY DEF CallsInv, SalesInv, Basic, MasterTypeOK, FreshIn, StagesStay, Places, Kinds
<1>1. /\ NoneOld(p)' /\ memo' = memo
      /\ \A v, n : Looks(p, v, n)' => Looks(p, v, n) \/ v = Truth
  BY <1>0, RequestsLook
<1>2. ASSUME NEW v, NEW n, Looks(p, v, n)' PROVE Sees(v, n)'
  <2>1. Looks(p, v, n) => Sees(v, n)
    BY DEF FreshIn, AllSeen
  <2>2. v = Truth => Sees(v, n)
    BY TruthIsSeen DEF Sees
  <2> QED  BY <1>0, <1>1, <1>2, <2>1, <2>2, SeesStays
<1>3. ASSUME NEW k \in Places, NEW a \in Answers, InStore(k, a)' \/ KeptIn(p, k, a)'
      PROVE  FreshIs(p, k, a)'
  <2>0. a # NoAnswer /\ SameButLate(a, a) /\ StageStays(k) /\ "sales" \in Places
    BY AnswerAssumption DEF SameButLate, Answers, StagesStay, Places, Kinds
  <2>1. Flows(p, k, a)
    BY <1>0, <2>0, RequestsFlow
  <2>2. \A q \in Places : InStore(q, a) \/ KeptIn(p, q, a) => FreshIs(p, q, a)
    BY DEF FreshIn, AllFresh
  <2>3. ASSUME NEW q \in Places, OnItsWay(q, a) PROVE FreshIs(p, q, a)
    <3>1. Looks(p, a.seen, a.late)
      BY <1>0, <2>3, OnItsWayLooks
    <3>2. Sees(a.seen, a.late)
      BY <3>1 DEF FreshIn, AllSeen
    <3> QED  BY <3>2, SeenIsFresh
  <2>4. FreshIs(p, k, a)
    BY <1>3, <2>0, <2>1, <2>2, <2>3, MemoryFresh DEF Flows
  <2>5. SetBack(p) => SetBack(p)'
    BY <1>1, DateStays
  <2> QED  BY <2>0, <2>4, <2>5, FreshTransfers
<1> QED  BY <1>1, <1>2, <1>3 DEF FreshIn, AllSeen, AllFresh

LEMMA FreshPurged ==
    ASSUME SalesInv, CallsInv, SalesOnly, CreditedKnown, Steady,
           faults \in Nat, faults' \in Nat, faults' >= faults,
           NEW p \in Process, One(p), FreshIn(p), NEW i \in Import, NEW k0 \in Places,
           NEW n0 \in {1, 2}, NEW lost \in BOOLEAN, Passes(i, k0, n0), Purges(p, k0, n0, lost)
    PROVE  FreshIn(p)'
<1>0. ResponseTypeOK /\ mix \in Mixes /\ NoneOld(p) /\ ~ ClearedTwice(k0)
  BY DEF CallsInv, SalesInv, Basic, MasterTypeOK, FreshIn, Passes
<1>1. /\ NoneOld(p)' /\ memo' = memo
      /\ \A v, n : PurgedLooks(p, v, n0, n)
  <2>1. \A r \in Reader : reader[r].at # "idle" => r.p = p
    BY <1>0, OneCalls DEF One
  <2> QED  BY <1>0, <2>1, PurgeLooks
<1>2. ASSUME NEW v, NEW n, Looks(p, v, n)' PROVE Sees(v, n)'
  <2>1. PICK m \in 0 .. 2 : /\ Looks(p, v, m) /\ n \in 0 .. 2 /\ m <= n
                            /\ Outdated(v) /\ (n0 = 1 \/ m = 1) => n >= n0
    BY <1>1, <1>2 DEF PurgedLooks
  <2>2. Sees(v, m)
    BY <2>1 DEF FreshIn, AllSeen
  <2> QED  BY <2>1, <2>2, SeesMarked
<1>3. ASSUME NEW k \in Places, NEW b \in Answers, InStore(k, b)' \/ KeptIn(p, k, b)'
      PROVE  FreshIs(p, k, b)'
  <2>1. Survives(p, k0, n0, k, b) /\ SameButLate(b, b)
    BY <1>0, PurgeLeaves DEF SameButLate, Answers
  <2>2. \E a \in Answers : /\ InStore(k, a) \/ KeptIn(p, k, a)
                           /\ SameButLate(a, b)
                           /\ k = k0 => \/ faults' = faults + 1 /\ a = b
                                        \/ b.late >= n0 \/ ~ Outdated(b.seen)
    BY <1>3, <2>1 DEF Survives
  <2>3. PICK a \in Answers : /\ FreshIs(p, k, a) /\ SameButLate(a, b)
                             /\ k = k0 => \/ faults' = faults + 1 /\ a = b
                                          \/ b.late >= n0 \/ ~ Outdated(b.seen)
    BY <2>2 DEF FreshIn, AllFresh
  <2>4. CASE k # k0
    <3>1. StageStays(k) /\ (SetBack(p) => SetBack(p)')
      BY <1>1, <2>4, DateStays DEF Passes
    <3> QED  BY <2>3, <3>1, FreshTransfers
  <2>5. ASSUME k = k0, faults' = faults + 1, a = b PROVE FreshIs(p, k, b)'
    <3>1. CASE FreshFor(k, b.seen)
      BY <3>1, FreshStays DEF FreshIs
    <3>2. CASE Pardoned(k, b)
      <4>1. Pardoned(k, b)'
        BY <2>5, <3>2, PardonedByFault
      <4> QED  BY <4>1 DEF FreshIs
    <3> QED  BY <1>0, <2>3, <2>5, <3>1, <3>2 DEF FreshIs
  <2>6. ASSUME k = k0, b.late >= n0 PROVE FreshIs(p, k, b)'
    <3>1. Pardoned(k, b)'
      BY <2>6, PardonedByMark
    <3> QED  BY <3>1 DEF FreshIs
  <2>7. ASSUME ~ Outdated(b.seen) PROVE FreshIs(p, k, b)'
    <3>1. SeesAll(b.seen)
      BY <2>7, TruthSeesAll
    <3>2. FreshFor(k, b.seen)
      BY <3>1, TruthDate DEF FreshFor, SeesAll
    <3>3. FreshFor(k, b.seen)'
      BY <3>2, FreshStays
    <3> QED  BY <3>3 DEF FreshIs
  <2> QED  BY <2>3, <2>4, <2>5, <2>6, <2>7
<1> QED  BY <1>1, <1>2, <1>3 DEF FreshIn, AllSeen, AllFresh

LEMMA FreshDated ==
    ASSUME Basic, Steady, faults \in Nat, faults' \in Nat, faults' >= faults,
           NEW p \in Process, FreshIn(p), NEW i \in Import, SetsDate(i)
    PROVE  FreshIn(p)'
<1>1. UNCHANGED <<redis, ram, spare, reader, lookups, refresh>> /\ StagesStay
  BY DEF SetsDate, RememberDate, answerVars
<1>2. ~ ClearedTwice("companies")
  BY DEF SetsDate, ClearedTwice, DueAgain
<1> QED  BY <1>1, <1>2, FreshRests

\* The import that is done has cleared all; no other one is under way.
LEMMA FreshPrewarmed ==
    ASSUME SalesInv, CallsInv, LoneInv, CreditedKnown, Steady,
           faults \in Nat, faults' \in Nat, faults' >= faults,
           NEW p \in Process, One(p), FreshIn(p), NEW i \in Import, NEW lost \in BOOLEAN,
           import[i].at = "prewarm", StagesStay, Prewarm(p, lost)
    PROVE  FreshIn(p)'
<1>0. ResponseTypeOK /\ NoneOld(p) /\ StageStays("sales")
  BY DEF CallsInv, FreshIn, StagesStay, Places, Kinds
<1>1. /\ NoneOld(p)' /\ memo'[p] = Remembered(p)
      /\ \A v, n : Looks(p, v, n)' => Looks(p, v, n) \/ v = [known |-> Truth.known, date |-> Truth.date]
  BY <1>0, PrewarmLooks
<1>2. ASSUME NEW v, NEW n, Looks(p, v, n)' PROVE Sees(v, n)'
  <2>1. Looks(p, v, n) => Sees(v, n)
    BY DEF FreshIn, AllSeen
  <2>2. v = [known |-> Truth.known, date |-> Truth.date] => Sees(v, n)
    BY TruthIsSeen DEF Sees
  <2> QED  BY <1>0, <1>1, <1>2, <2>1, <2>2, SeesStays
<1>3. ClearedTwice("companies")'
  <2>1. "companies" \in Places /\ "prewarm" \notin DueAgain("companies")
    BY DEF Places, Kinds, DueAgain
  <2>2. "prewarm" \notin Ended /\ DueAgain("companies") \cap Ended = {}
    BY DEF Ended, DueAgain
  <2>3. ASSUME NEW j \in Import PROVE import[j].at \notin DueAgain("companies")
    <3>1. CASE j = i
      BY <2>1, <3>1
    <3>2. CASE j # i
      <4>1. UnderWay(j) => ~ import[i].alone
        BY <2>2, <3>2 DEF LoneInv, UnderWay
      <4>2. import[i].alone
        BY DEF One, Overlapped
      <4> QED  BY <2>2, <4>1, <4>2 DEF UnderWay
    <3> QED  BY <3>1, <3>2
  <2>4. ClearedTwice("companies")
    BY <2>3 DEF ClearedTwice
  <2> QED  BY <2>1, <2>4 DEF StagesStay, StageStays
<1>4. ASSUME NEW k \in Places, NEW a \in Answers, InStore(k, a)' \/ KeptIn(p, k, a)'
      PROVE  FreshIs(p, k, a)'
  <2>1. InStore(k, a) \/ KeptIn(p, k, a) \/ Prewarmed(p, k, a)
    BY <1>0, <1>4, PrewarmKeeps
  <2>2. CASE InStore(k, a) \/ KeptIn(p, k, a)
    <3>1. FreshIs(p, k, a) /\ StageStays(k) /\ SameButLate(a, a)
      BY <2>2 DEF FreshIn, AllFresh, StagesStay, SameButLate, Answers
    <3>2. SetBack(p) => SetBack(p)'
      BY <1>1, DateStays
    <3> QED  BY <3>1, <3>2, FreshTransfers
  <2>3. CASE Prewarmed(p, k, a)
    <3>1. k = "companies" /\ a.seen.date = Remembered(p)
      BY <2>3 DEF Prewarmed
    <3>2. Truth.date \in Nat /\ memo[p] \in Nat /\ Truth.date' = Truth.date
      BY <1>0, TruthDate, FreshStays DEF ResponseTypeOK
    <3>3. CASE Remembered(p) >= Truth.date
      <4>1. FreshFor(k, a.seen)'
        BY <3>1, <3>2, <3>3 DEF FreshFor
      <4> QED  BY <4>1 DEF FreshIs
    <3>4. CASE ~ (Remembered(p) >= Truth.date)
      <4>1. memo'[p] = memo[p] /\ memo[p] # 0 /\ memo[p] < Truth.date
        BY <1>1, <3>2, <3>4 DEF Remembered
      <4>2. SetBack(p)'
        BY <3>2, <4>1 DEF SetBack
      <4> QED  BY <1>3, <3>1, <4>2 DEF FreshIs
    <3> QED  BY <3>3, <3>4
  <2> QED  BY <2>1, <2>2, <2>3
<1> QED  BY <1>1, <1>2, <1>4 DEF FreshIn, AllSeen, AllFresh

LEMMA NoneOldStep ==
    ASSUME SalesInv, CallsInv, InMix, NEW p \in Process, One(p), NoneOld(p), [Next]_vars
    PROVE  NoneOld(p)'
<1>0. Basic /\ ResponseTypeOK /\ mix \in Mixes
  BY DEF SalesInv, CallsInv, Basic, MasterTypeOK
<1>1. CASE CachesRest
  BY <1>1 DEF CachesRest, lookupVars, NoneOld
<1>2. CASE Requests
  BY <1>0, <1>2, RequestsLook
<1>3. ASSUME NEW i \in Import, NEW lost \in BOOLEAN, DeskCaches(i, lost) PROVE NoneOld(p)'
  <2>1. ASSUME NEW k0 \in Places, NEW n0 \in {1, 2}, Purges(p, k0, n0, lost) PROVE NoneOld(p)'
    BY <1>0, <2>1, OneCalls, PurgeLooks DEF One
  <2>2. ASSUME import[i].at \in Summarised PROVE import[i].p = p
    BY <2>2 DEF InMix, One, Begun, At, Summarised, Publishing, AfterPublishing
  <2>3. ASSUME NEW k0 \in Kinds, NEW n0 \in {1, 2}, ClearsRedis(i, k0, n0, lost) PROVE NoneOld(p)'
    <3>1. k0 \in Places /\ k0 # "memory"
      BY DEF Places, Kinds
    <3> QED  BY <2>1, <2>2, <2>3, <3>1 DEF ClearsRedis, Passes, Purges
  <2>4. ASSUME NEW n0 \in {1, 2}, ClearsMemory(i, n0) PROVE NoneOld(p)'
    <3>1. "memory" \in Places
      BY DEF Places
    <3> QED  BY <2>1, <2>2, <2>4, <3>1 DEF ClearsMemory, Passes, Purges
  <2>5. CASE SetsDate(i)
    BY <2>5 DEF SetsDate, RememberDate, NoneOld
  <2>6. CASE Prewarms(i, lost)
    <3>1. Prewarm(p, lost)
      BY <2>2, <2>6 DEF Prewarms, Summarised, AfterPublishing
    <3> QED  BY <1>0, <3>1, PrewarmLooks
  <2>7. CASE CachesRest
    BY <1>1, <2>7
  <2> QED  BY <1>3, <2>3, <2>4, <2>5, <2>6, <2>7, Zenon DEF DeskCaches
<1> QED  BY <1>0, <1>1, <1>2, <1>3, CacheNext

LEMMA FreshStep ==
    ASSUME SalesInv, CallsInv, NamesInv, RightInv, FreshInv, [Next]_vars
    PROVE  FreshInv'
<1>0. /\ Basic /\ SalesOnly /\ LoneInv /\ CreditedKnown /\ InMix /\ mix' = mix
      /\ (~ Overlapped' => ~ Overlapped)
      /\ faults \in Nat /\ faults' \in Nat /\ faults' >= faults
      /\ Steady \/ \E i \in Import : Aggregates(i)
  BY SteadyStep, Keeps, History DEF SalesInv, NamesInv, TableInv, RightInv, FreshInv
<1>1. InMix' /\ CreditedKnown'
  BY <1>0, InMixStep, CreditedKnownStep
<1> SUFFICES ASSUME NEW p \in Process, One(p)' PROVE FreshIn(p)'
  BY <1>1 DEF FreshInv
<1>2. One(p) /\ FreshIn(p)
  BY <1>0 DEF One, FreshInv
<1>3. ASSUME NEW i \in Import, import[i].at # "idle" PROVE import[i].p = p
  BY <1>0, <1>2, <1>3 DEF InMix, One, Begun, At
<1>4. ASSUME NEW i \in Import, Aggregates(i) PROVE FreshIn(p)'
  <2>1. NoneOld(p)'
    BY <1>0, <1>2, NoneOldStep DEF FreshIn
  <2> QED  BY <1>4, <2>1, FreshAggregated
<1>5. ASSUME Steady, CachesRest, StagesStay PROVE FreshIn(p)'
  <2>1. UNCHANGED <<redis, ram, spare, reader, lookups, refresh>> /\ memo' = memo
    BY <1>5 DEF CachesRest, answerVars, lookupVars
  <2>2. SetBack(p) => SetBack(p)'
    BY <1>5, <2>1, DateStays
  <2> QED  BY <1>0, <1>2, <1>5, <2>1, <2>2, FreshRests
<1>6. ASSUME Steady, Requests, StagesStay PROVE FreshIn(p)'
  BY <1>0, <1>2, <1>6, FreshRequested
<1>7. ASSUME Steady, NEW i \in Import, NEW k0 \in Places, NEW n0 \in {1, 2}, NEW lost \in BOOLEAN,
             Passes(i, k0, n0), Purges(p, k0, n0, lost)
      PROVE  FreshIn(p)'
  BY <1>0, <1>2, <1>7, FreshPurged
<1>8. ASSUME NEW i \in Import, NEW lost \in BOOLEAN, DeskCaches(i, lost), Steady PROVE FreshIn(p)'
  <2>1. CASE CachesRest /\ (Aggregates(i) \/ StagesStay)
    BY <1>4, <1>5, <1>8, <2>1
  <2>2. ASSUME NEW k0 \in Kinds, NEW n0 \in {1, 2}, ClearsRedis(i, k0, n0, lost) PROVE FreshIn(p)'
    <3>1. Passes(i, k0, n0) /\ PurgeRedis(import[i].p, k0, n0, lost)
      BY <2>2 DEF ClearsRedis
    <3>2. import[i].p = p
      BY <1>3, <3>1 DEF Passes, Summarised, Publishing, AfterPublishing
    <3>3. k0 \in Places /\ k0 # "memory"
      BY DEF Places, Kinds
    <3> QED  BY <1>7, <1>8, <3>1, <3>2, <3>3 DEF Purges
  <2>3. ASSUME NEW n0 \in {1, 2}, ClearsMemory(i, n0) PROVE FreshIn(p)'
    <3>1. Passes(i, "memory", n0) /\ PurgeMemory(import[i].p, n0)
      BY <2>3 DEF ClearsMemory
    <3>2. import[i].p = p
      BY <1>3, <3>1 DEF Passes, Summarised, Publishing, AfterPublishing
    <3>3. "memory" \in Places
      BY DEF Places
    <3> QED  BY <1>7, <1>8, <3>1, <3>2, <3>3 DEF Purges
  <2>4. CASE SetsDate(i)
    BY <1>0, <1>2, <1>8, <2>4, FreshDated
  <2>5. CASE Prewarms(i, lost)
    <3>1. import[i].at = "prewarm" /\ StagesStay /\ Prewarm(import[i].p, lost)
      BY <2>5 DEF Prewarms
    <3>2. import[i].p = p
      BY <1>3, <3>1
    <3> QED  BY <1>0, <1>2, <1>8, <3>1, <3>2, FreshPrewarmed
  <2> QED  BY <1>8, <2>1, <2>2, <2>3, <2>4, <2>5 DEF DeskCaches
<1> QED  BY <1>0, <1>4, <1>5, <1>6, <1>8, CacheNext

-----------------------------------------------------------------------------
(***************************************************************************)
(* Between imports every place has been cleared twice.                     *)
(***************************************************************************)
LEMMA QuietIs ==
    ASSUME Quiet, SalesInv
    PROVE  /\ \A k \in Places : ClearedTwice(k) /\ Cleared(k)
           /\ \A f : Open(f) <=> Withdrawn(f)
           /\ \A p : DidAll(p) => Own(p)
<1>1. \A k \in Places : DueAgain(k) \subseteq Publishing
  BY DEF DueAgain, Publishing
<1>2. \A k \in Places : ClearedTwice(k)
  BY <1>1 DEF Quiet, ClearedTwice
<1>3. \A i \in Import : import[i].at \notin {"sync", "aggregate"}
  BY DEF Quiet, Publishing
<1>4. \A i \in Import : import[i].at \in Summarised => import[i].at \in AfterPublishing
  BY DEF Quiet, Summarised
<1> QED  BY <1>2, <1>3, <1>4, ClearedIs DEF Open, Withdrawn, DidAll, Own

LEMMA QuietExcuses ==
    ASSUME Quiet, SalesInv, faults \in Nat, faults <= 1, NEW k \in Places, NEW a, Pardoned(k, a)
    PROVE  Excused(a)
  BY QuietIs DEF Pardoned, Excused

LEMMA AgreesIsRight ==
    ASSUME Quiet, SalesInv, NEW kind, NEW a, Agrees(kind, a)
    PROVE  Right(kind, a)
  BY QuietIs DEF Agrees, Right, Standing

\* What nothing is behind of shows what there is.
LEMMA FreshIsUpToDate ==
    ASSUME Quiet, SalesInv, CallsInv, CreditedKnown, NEW k \in Places, NEW a,
           a.seen.date \in Nat, Right(KindAt(k), a), FreshFor(k, a.seen)
    PROVE  UpToDate(KindAt(k), a)
<1>1. CASE k = "companies"
  <2> DEFINE D == {s.date : s \in summary}
  <2>1. D \in SUBSET Nat /\ IsFiniteSet(D) /\ Truth.date = MaxOf(D) /\ summary \subseteq Sold
    BY SourcesAre, DatesAreFinite DEF Sources, Truth
  <2>2. \A d \in D : d <= Truth.date
    <3> HIDE DEF D
    <3> QED  BY <2>1, MaxIs
  <2>3. \A s \in summary : s.date \in Nat /\ s.date <= Truth.date /\ s.date <= a.seen.date
    BY <1>1, <2>1, <2>2, TruthDate DEF FreshFor, Sold
  <2>4. ShownCompanies(a.seen) = ShownCompanies(Truth)
    BY <2>3 DEF ShownCompanies
  <2> QED  BY <1>1, <2>4 DEF Right, UpToDate, KindAt, Shown
<1>2. CASE k # "companies"
  <2>1. a.seen.date = Truth.date /\ KindAt(k) = "sales"
    BY <1>2 DEF FreshFor, SeesAll, KindAt
  <2>2. ASSUME Is("companies"), NEW s \in credited
        PROVE  Withdrawn(<<s.import, s.row>>) \/ (s.company \in a.seen.known /\ s.company \in Truth.known)
    BY <1>2, <2>2, QuietIs DEF FreshFor, SeesAll, CreditedKnown, Truth
  <2>3. \A f : Withdrawn(f) \/ (f \in ShownSales(a.seen) <=> f \in ShownSales(Truth))
    BY <2>1, <2>2 DEF ShownSales
  <2>4. Standing(ShownSales(a.seen)) = Standing(ShownSales(Truth))
    BY <2>3 DEF Standing
  <2> QED  BY <2>1, <2>4 DEF Right, UpToDate, Shown
<1> QED  BY <1>1, <1>2

LEMMA InvCacheIsFresh ==
    ASSUME SalesInv, CallsInv, RightInv, FreshInv
    PROVE  CacheIsFresh
<1> SUFFICES ASSUME Quiet, faults <= 1, NEW p \in Process,
                    NEW a \in InRedis \cup (IF DidAll(p) THEN KeptBy(p) ELSE {}),
                    a[2] # NoAnswer, ~ Excused(a[2])
             PROVE  /\ Right(a[1], a[2])
                    /\ \/ mix.processes # {p} \/ mix.expiry \/ Overlapped \/ SetBack(p)
                       \/ UpToDate(a[1], a[2])
  BY DEF CacheIsFresh
<1>0. faults \in Nat /\ ResponseTypeOK
  BY DEF SalesInv, CallsInv, Basic, MasterTypeOK
<1>1. PICK k \in Places, b \in Answers :
          /\ a[1] = KindAt(k) /\ a[2] = b /\ Held(k, b)
          /\ InStore(k, b) \/ KeptIn(p, k, b)
  <2>1. CASE a \in InRedis
    <3>1. PICK k \in Kinds : a = <<k, redis[k]>>
      BY <2>1 DEF InRedis
    <3>2. k \in Places /\ KindAt(k) = k /\ redis[k] \in Answers
      BY <1>0, <3>1 DEF Places, KindAt, Kinds, ResponseTypeOK
    <3>3. InStore(k, redis[k]) /\ Held(k, redis[k])
      BY DEF InStore, Held
    <3> QED  BY <3>1, <3>2, <3>3
  <2>2. CASE a \notin InRedis
    <3>1. DidAll(p) /\ a \in KeptBy(p)
      BY <2>2
    <3>2. Own(p)
      BY <3>1, QuietIs
    <3>3. ASSUME NEW k \in Kinds, a = <<k, spare[p][k]>>
          PROVE  k \in Places /\ KindAt(k) = k /\ spare[p][k] \in Answers
                 /\ KeptIn(p, k, spare[p][k]) /\ Held(k, spare[p][k])
      BY <1>0, <3>2, <3>3 DEF Places, KindAt, Kinds, ResponseTypeOK, KeptIn, Held
    <3>4. ASSUME a = <<"sales", ram[p]>>
          PROVE  "memory" \in Places /\ KindAt("memory") = "sales" /\ ram[p] \in Answers
                 /\ KeptIn(p, "memory", ram[p]) /\ Held("memory", ram[p])
      BY <1>0, <3>2, <3>4 DEF Places, KindAt, ResponseTypeOK, KeptIn, Held
    <3>5. a = <<"sales", ram[p]>> \/ \E k \in Kinds : a = <<k, spare[p][k]>>
      BY <3>1 DEF KeptBy
    <3> QED  BY <3>3, <3>4, <3>5
  <2> QED  BY <2>1, <2>2
<1>2. ~ Pardoned(k, b)
  BY <1>0, <1>1, QuietExcuses
<1>3. Right(KindAt(k), b)
  BY <1>1, <1>2, AgreesIsRight DEF RightInv, RightIs
<1>4. ASSUME One(p), ~ SetBack(p) PROVE UpToDate(KindAt(k), b)
  <2>1. FreshIs(p, k, b)
    BY <1>1, <1>4 DEF FreshInv, FreshIn, AllFresh
  <2>2. FreshFor(k, b.seen) /\ b.seen.date \in Nat
    BY <1>2, <1>4, <2>1 DEF FreshIs, Answers, View
  <2> QED  BY <1>3, <2>2, FreshIsUpToDate DEF FreshInv
<1> QED  BY <1>1, <1>3, <1>4 DEF One

(***************************************************************************)
(* Between imports the answers kept show the sales there are, in Redis and *)
(* in the process that did all the imports, and are up to date when it is  *)
(* the only one: invalidate_analytics_cache, run twice, against requests   *)
(* in progress of get_mobile_sales and get_mobile_companies, and           *)
(* prewarm_mobile_companies_cache; with the exceptions the property names. *)
(***************************************************************************)
THEOREM CacheIsFreshCorrect == Spec => []CacheIsFresh
<1> DEFINE Inv == SalesInv /\ CallsInv /\ NamesInv /\ RightInv /\ FreshInv
<1>1. Init => Inv
  BY SalesInvInitially, CallsInitially, NamesInvInitially, RightInitially, FreshInitially
<1>2. Inv /\ [Next]_vars => Inv'
  BY SalesInvStep, CallsStep, NamesInvStep, RightStep, FreshStep
<1>3. Inv => CacheIsFresh
  BY InvCacheIsFresh
<1> HIDE DEF Inv
<1> QED  BY <1>1, <1>2, <1>3, PTL DEF Spec
=============================================================================
