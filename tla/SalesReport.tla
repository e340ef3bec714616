----------------------------- MODULE SalesReport -----------------------------
(***************************************************************************)
(* To which managers (TSMs) the mobile report adds a person's sales:       *)
(* _build_master_lookups_dict and the crediting loop of get_mobile_sales   *)
(* in mobile/router.py.  Pure operators on a directory.                    *)
(*                                                                         *)
(* The managers are visited in the order of a set of strings, which        *)
(* differs from process to process: `o' is that order.  Roles and mapping  *)
(* rows count whether they are active or not.                              *)
(***************************************************************************)
EXTENDS RowValidation

CONSTANTS
    FullName, MailWord, FirstName,  \* what aliases are recognised by
    DotCom                          \* persons with a ".com" address

ASSUME ReportAssumption == DotCom \subseteq Person

Orders(d) ==
    {o \in [1 .. Cardinality(d.roles) -> d.roles] :
        \A j, k \in DOMAIN o : o[j] = o[k] => j = k}

(***************************************************************************)
(* Managers of one name are one manager: the first of them, or the last of *)
(* the others that has a ".com" address.                                   *)
(***************************************************************************)
Primary(o, u) ==
    LET same  == {k \in DOMAIN o : FullName[o[k]] = FullName[u]}
        first == CHOOSE k \in same : \A j \in same : k <= j
        dot   == {k \in same \ {first} : o[k] \in DotCom}
    IN  IF \A k \in DOMAIN o : o[k] # u THEN u
        ELSE o[IF dot = {} THEN first ELSE CHOOSE k \in dot : \A j \in dot : j <= k]

Heads(o) == {k \in DOMAIN o : Primary(o, o[k]) = o[k]}

Team(d, o, t) ==
    {d.mapping[k].ase : k \in {k \in DOMAIN d.mapping : Primary(o, d.mapping[k].tsm) = t}}

\* Someone inactive is taken for the active person of the same name, mail
\* name or first name; of several the one whose row comes last.
Alias(d, u) ==
    LET like(N) == {v \in d.active : N[v] = N[u]}
        last(S) == CHOOSE v \in S : \A w \in S : RowOf(d, w) <= RowOf(d, v)
    IN  CASE u \in d.active -> u
          [] u \notin d.active /\ like(FullName) # {} -> last(like(FullName))
          [] u \notin d.active /\ like(FullName) = {} /\ like(MailWord) # {} ->
                 last(like(MailWord))
          [] u \notin d.active /\ like(FullName) = {} /\ like(MailWord) = {}
                 /\ like(FirstName) # {} -> last(like(FirstName))
          [] OTHER -> u

\* Mutant: a person mapped to two managers counts for both.
AllOwners(d, o, u) ==
    {o[k] : k \in {k \in Heads(o) : o[k] # u /\ u \in Team(d, o, o[k])}}

\* The first manager, other than himself, whose team a person is in.
Owner(d, o, u) ==
    LET over == {k \in Heads(o) : o[k] # u /\ u \in Team(d, o, o[k])}
    IN  {o[k] : k \in {k \in over : \A j \in over : k <= j}}

Direct(d, o, u) ==
    {o[k] : k \in {k \in Heads(o) : o[k] = u}} \cup Owner(d, o, u)

MemberToTsms(d, o, u) == Direct(d, o, u) \cup Direct(d, o, Alias(d, u))
=============================================================================
