---------------------------- MODULE MCSalesDesk ----------------------------
(* Values for model checking SalesDesk.                                    *)
EXTENDS SalesDesk, TLC

CONSTANTS p1, p2, h1, h2, a0, a1, t1, t2, t3

-----------------------------------------------------------------------------
(* Names: three spellings of one, another, and two with a blank tight key. *)
MCName == {"Ajmer", "AJMER", "Aj mer", "Kota", "-", ".", ""}

MCClean == ("Ajmer" :> "ajmer") @@ ("AJMER" :> "ajmer") @@ ("Aj mer" :> "aj mer")
           @@ ("Kota" :> "kota") @@ ("-" :> "-") @@ ("." :> ".") @@ ("" :> "")
MCTight == [MCClean EXCEPT !["Aj mer"] = "ajmer", !["-"] = "", !["."] = ""]

(* Persons: an ASE and his inactive namesake, two managers, and a person   *)
(* with the name of the first one.                                         *)
MCLabel == {"", "ravi kumar", "ravi k", "ravi", "rk", "mohan lal", "mohan", "suresh", "nobody"}

MCLabelsOf ==
    (a0 :> {"ravi kumar", "ravi", "rk"}) @@ (a1 :> {"ravi kumar", "ravi"})
    @@ (t1 :> {"mohan lal", "mohan"}) @@ (t2 :> {"suresh"}) @@ (t3 :> {"mohan lal"})

MCShorter == [l \in MCLabel |-> IF l = "ravi k" THEN <<"ravi">> ELSE <<>>]

MCFullName  == (a0 :> "ravi kumar") @@ (a1 :> "ravi kumar") @@ (t1 :> "mohan lal")
               @@ (t2 :> "suresh") @@ (t3 :> "mohan lal")
MCMailWord  == (a0 :> "rk") @@ (a1 :> "ravi") @@ (t1 :> "mohan") @@ (t2 :> "suresh") @@ (t3 :> "ml")
MCFirstName == (a0 :> "ravi") @@ (a1 :> "ravi") @@ (t1 :> "mohan") @@ (t2 :> "suresh")
               @@ (t3 :> "mohan")

Maps(u, t) == [ase |-> u, tsm |-> t]

\* The ASE works under the first manager, the namesake did under the second.
Usual ==
    [order |-> <<a1, a0, t1, t3, t2>>, active |-> {a1, t1, t2},
     since |-> [u \in Person |-> IF u = a0 THEN 2 ELSE 0],
     roles |-> {t1, t2}, mapping |-> <<Maps(a0, t2), Maps(a1, t1)>>,
     places |-> (a0 :> {h1}) @@ (a1 :> {h1}) @@ (t1 :> {h1, h2}) @@ (t2 :> {h2}) @@ (t3 :> {})]

Unassigned == [Usual EXCEPT !.places = [u \in Person |-> {}], !.since[a0] = 0]
OldFirst   == [Unassigned EXCEPT !.order = <<a0, a1, t3, t1, t2>>]
Below      == [Usual EXCEPT !.mapping = @ \o <<Maps(t1, t2)>>]
Twice      == [Unassigned EXCEPT !.mapping = @ \o <<Maps(a1, t2)>>]
TwoOfAName == [Usual EXCEPT !.active = @ \cup {t3}, !.roles = @ \cup {t3}]
Moved      == [Usual EXCEPT !.mapping = <<Maps(a1, t2)>>, !.places[a1] = {h2}]
Departed   == [Usual EXCEPT !.active = @ \ {a1}, !.since[a1] = 2, !.places[a1] = {}]

-----------------------------------------------------------------------------
R(n, h) == [name |-> n, gen |-> 0, hq |-> h]

\* An item of a master table, and a sale.
I(n, h) == [name |-> n, hq |-> h, ase |-> "", asm |-> "", date |-> 1, cases |-> 1]
S(ase, asm, hq) == [I("Kota", hq) EXCEPT !.ase = ase, !.asm = asm]

NoSales == [summary |-> {}, credited |-> {}]

Base == [table |-> "depots", imports |-> {1, 2}, sheets |-> {}, priors |-> {{}}, processes |-> {p1},
         faults |-> 0, overlap |-> FALSE, removals |-> 0, until |-> "resolved",
         expiry |-> FALSE, deskFaults |-> 0, cacheFaults |-> 0, readers |-> {},
         directories |-> {Usual}, edits |-> {}, sales |-> NoSales]

\* Names: a sheet with one name, with two, with two spellings of one; of
\* headquarters and companies also with blank tight keys; of licensees also
\* with several headquarters.
Names(table) ==
    {<<I("Ajmer", h1)>>, <<I("AJMER", h1), I("Kota", h1)>>, <<I("Aj mer", h1), I("Ajmer", h1)>>}
    \cup CASE table = "licensees" ->
                {<<I("Ajmer", h1), I("AJMER", h2)>>, <<I("Kota", h2), I("Ajmer", h2), I("", h1)>>}
           [] table \in {"headquarters", "companies"} -> {<<I("-", h1)>>, <<I(".", h1), I("-", h1)>>}
           [] OTHER -> {}

Naming(table) == [Base EXCEPT !.table = table, !.sheets = Names(table),
                              !.priors = {{}, {R("AJMER", h1)}}]

NamingMixes == UNION {
    {[Naming(t) EXCEPT !.faults = CASE t = "licensees" -> 3 [] t = "depots" -> 2 [] OTHER -> 1],
     [Naming(t) EXCEPT !.processes = {p1, p2}],
     [Naming(t) EXCEPT !.processes = {p1, p2}, !.overlap = TRUE]} : t \in Tables}
    \cup {[Naming("depots") EXCEPT !.removals = 1]}
    \cup {[Naming(t) EXCEPT !.processes = {p1, p2}, !.imports = {1, 2, 3}] :
              t \in {"headquarters", "companies"}}

-----------------------------------------------------------------------------
Selling == [Base EXCEPT !.until = "done", !.priors = {{R("Kota", h1)}}]

Persons ==
    {<<S("ravi kumar", "mohan lal", h1)>>,
     <<S("ravi k", "mohan", h2)>>,
     <<S("ravi", "mohan lal", h1), S("ravi kumar", "mohan", h2)>>,
     <<S("ravi", "mohan", h1), S("ravi", "suresh", h1)>>,
     <<S("rk", "suresh", h1)>>,
     <<S("rk", "rk", h2)>>,
     <<[S("rk", "rk", h1) EXCEPT !.date = 2]>>,
     <<S("mohan lal", "mohan lal", h1)>>,
     <<S("mohan", "suresh", h2)>>,
     <<S("mohan", "mohan", h1), S("suresh", "mohan", h2)>>,
     <<S("", "mohan", h1)>>,
     <<S("", "rk", h2)>>,
     <<S("ravi", "", NoHq)>>,
     <<S("ravi", "suresh", h1)>>,
     <<S("nobody", "mohan", h1)>>,
     <<S("ravi", "nobody", h1)>>}

Values ==
    {<<[S("ravi", "mohan", h1) EXCEPT !.cases = 0 - 1]>>,
     <<[S("ravi", "mohan", h1) EXCEPT !.date = 0]>>,
     <<[S("ravi", "mohan", h1) EXCEPT !.name = ""]>>,
     <<S("ravi", "mohan", h1)>>}

SellingMixes ==
    {[Selling EXCEPT !.sheets = Persons,
                     !.directories = {Usual, Unassigned, OldFirst, Below, Twice, TwoOfAName}],
     [Selling EXCEPT !.sheets = {s \in Persons : Len(s) = 1 /\ s[1].asm \in {"mohan lal", ""}},
                     !.edits = {Moved, Departed}],
     [Selling EXCEPT !.sheets = {s \in Persons : s[1].ase \in {"ravi", "ravi k"}}, !.deskFaults = 1],
     [Selling EXCEPT !.sheets = Values, !.faults = 1]}

-----------------------------------------------------------------------------
\* A sale of the first or second day before the imports.
Before(day) ==
    LET sale == [import |-> 0, row |-> 1, date |-> day]
    IN  [summary |-> {sale},
         credited |-> {[import |-> 0, row |-> 1, date |-> day, user |-> a1,
                        company |-> <<"Kota", 0>>]}]

Asks(p, kinds, n) == {[p |-> p, kind |-> k, no |-> j] : k \in kinds, j \in 1 .. n}

Sale(name, day) == <<[S("ravi", "mohan", h1) EXCEPT !.name = name, !.date = day]>>

Answering1 == [Selling EXCEPT !.table = "companies", !.sales = Before(1), !.imports = {1},
                              !.sheets = {Sale("Ajmer", 2)}, !.readers = Asks(p1, Kinds, 1)]

AnswerMixes ==
    {[Answering1 EXCEPT !.imports = {1, 2}, !.sheets = {Sale("Ajmer", 2), Sale("Kota", 1)},
                        !.readers = Asks(p1, {"sales"}, 1)],
     [Answering1 EXCEPT !.imports = {1, 2}, !.overlap = TRUE, !.readers = Asks(p1, {"sales"}, 1)],
     [Answering1 EXCEPT !.sales = Before(2), !.sheets = {Sale("Ajmer", 1)}],
     [Answering1 EXCEPT !.readers = Asks(p1, {"sales"}, 2)],
     [Answering1 EXCEPT !.readers = Asks(p1, {"companies"}, 2)],
     [Answering1 EXCEPT !.processes = {p1, p2},
                        !.readers = Asks(p1, {"sales"}, 1) \cup Asks(p2, {"sales"}, 1)],
     [Answering1 EXCEPT !.cacheFaults = 1],
     [Answering1 EXCEPT !.deskFaults = 1, !.sheets = {Sale("Kota", 1)}],
     [Answering1 EXCEPT !.expiry = TRUE, !.readers = Asks(p1, {"sales"}, 1)],
     [Answering1 EXCEPT !.expiry = TRUE, !.readers = Asks(p1, {"companies"}, 1),
                        !.cacheFaults = 1]}

MCMixes == NamingMixes \cup SellingMixes \cup AnswerMixes

MCReader == UNION {m.readers : m \in MCMixes}
=============================================================================
