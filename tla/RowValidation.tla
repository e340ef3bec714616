---------------------------- MODULE RowValidation ----------------------------
(***************************************************************************)
(* The checks a sheet passes before any of it is published:                *)
(* process_upload of uploads/service.py, from reading User Management to   *)
(* the list of validation errors.  Pure operators: on a directory (User    *)
(* Management), a row and a sheet.                                         *)
(*                                                                         *)
(* A row names its ASE and ASM by labels.  A person answers to several     *)
(* labels (full name, short name, e-mail prefix, first name) and persons   *)
(* share labels; a label that nobody answers to is tried again in shorter  *)
(* forms.  A headquarters stands for all its spellings.                    *)
(***************************************************************************)
EXTENDS Naturals, FiniteSets, Sequences

CONSTANTS
    Person, Nobody,
    Label, Blank,
    LabelsOf,       \* the labels a person answers to
    Shorter,        \* the forms of a label tried after itself, in order
    Place, NoPlace  \* headquarters, by their canonical spelling

ASSUME LabelAssumption ==
    /\ Nobody \notin Person /\ NoPlace \notin Place
    /\ LabelsOf \in [Person -> SUBSET (Label \ {Blank})]
    /\ Shorter \in [Label -> Seq(Label)]

(***************************************************************************)
(* The directory: the users in the order of their rows, who is active and  *)
(* since when the others are not, the TSM roles, the rows that map an ASE  *)
(* to a TSM and the headquarters assigned.  Deactivating a person switches *)
(* off the person's roles, assignments, and mappings on either side.       *)
(***************************************************************************)
Directory ==
    [order : Seq(Person), active : SUBSET Person, since : [Person -> Nat],
     roles : SUBSET Person, mapping : Seq([ase : Person, tsm : Person]),
     places : [Person -> SUBSET Place]]

Tsms(d) == d.roles \cap d.active

\* Of several rows for one person the last one counts.
Manager(d, u) ==
    LET mine == {k \in DOMAIN d.mapping : d.mapping[k].ase = u
                     /\ {u, d.mapping[k].tsm} \subseteq d.active}
    IN  IF mine = {} THEN Nobody
        ELSE d.mapping[CHOOSE k \in mine : \A j \in mine : j <= k].tsm

Approved(d, u) == IF u \in d.active THEN d.places[u] ELSE {}

\* The directory when the reading of headquarters has failed.
WithoutPlaces(d) == [d EXCEPT !.places = [u \in Person |-> {}]]

-----------------------------------------------------------------------------
(***************************************************************************)
(* Who a label means: of those who answer to it, an active person before   *)
(* an inactive one, then the one whose row comes first.  The automatic     *)
(* assignment of territories goes by rows only.                            *)
(***************************************************************************)
Claims(l) == {u \in Person : l \in LabelsOf[u]}

RowOf(d, u) == CHOOSE k \in DOMAIN d.order : d.order[k] = u

Precedes(d, u, v) ==
    IF u \in d.active <=> v \in d.active THEN RowOf(d, u) <= RowOf(d, v)
    ELSE u \in d.active

Meant(l) ==
    LET forms == <<l>> \o Shorter[l]
        hits  == {k \in DOMAIN forms : Claims(forms[k]) # {}}
    IN  IF l = Blank \/ hits = {} THEN {}
        ELSE Claims(forms[CHOOSE k \in hits : \A j \in hits : k <= j])

UserId(d, l) ==
    IF Meant(l) = {} THEN Nobody
    ELSE CHOOSE u \in Meant(l) : \A v \in Meant(l) : Precedes(d, u, v)

UserIdByRow(d, l) ==
    IF Meant(l) = {} THEN Nobody
    ELSE CHOOSE u \in Meant(l) : \A v \in Meant(l) : RowOf(d, u) <= RowOf(d, v)

-----------------------------------------------------------------------------
\* Errors of one row.
When(condition, code) == IF condition THEN {code} ELSE {}

PlaceErrors(d, row) ==
    LET outside(l) == LET u == UserId(d, l)
                      IN  /\ u # Nobody /\ row.hq # NoPlace
                          /\ Approved(d, u) \notin {{}}
                          /\ row.hq \notin Approved(d, u)
    IN  When(outside(row.ase), "HQ_MISMATCH_FOR_ASE")
        \cup When(outside(row.asm), "HQ_MISMATCH_FOR_TSM")

InactiveAt(d, u, date) ==
    u \in Person \ d.active /\ d.since[u] # 0 /\ date >= d.since[u]

DateErrors(d, row) ==
    IF row.date = 0 THEN {"DATE_ERROR"}
    ELSE When(\E l \in {row.ase, row.asm} : InactiveAt(d, UserId(d, l), row.date),
              "INACTIVE_USER_SALES_NOT_ALLOWED")

\* `unmapped': a depot, licensee, brand, packaging or headquarters of the row
\* has no id.  No such check is made for the company.
ValueErrors(row, unmapped) ==
    When(row.cases < 0, "INVALID_CASE") \cup When(unmapped, "UNMAPPED")

\* A manager may sell himself, alone or below his own manager; an ASE sells
\* under the manager User Management gives him, if the row names one.  A row
\* without an ASE is not checked.
ReportingErrors(d, row) ==
    LET a    == UserId(d, row.ase)
        m    == UserId(d, row.asm)
        same == row.ase = row.asm
        dual == same \/ a \in Tsms(d) \/ m = a
    IN  CASE row.ase = Blank -> {}
          [] row.ase # Blank /\ a = Nobody -> {"UNMAPPED_ASE"}
          [] a # Nobody /\ row.asm # Blank /\ m = Nobody -> {"UNMAPPED_TSM"}
          [] OTHER ->
               When(dual /\ ~same /\ m \notin {Nobody, a, Manager(d, a)},
                    "ASE_TSM_MAPPING_MISMATCH")
               \cup When(~dual /\ Manager(d, a) = Nobody, "MISSING_ASE_TSM_MAPPING")
               \cup When(~dual /\ Manager(d, a) # Nobody /\ m \notin {Nobody, Manager(d, a)},
                         "ASE_TSM_MAPPING_MISMATCH")

RowErrors(d, row, unmapped) ==
    PlaceErrors(d, row) \cup DateErrors(d, row)
    \cup ValueErrors(row, unmapped) \cup ReportingErrors(d, row)

-----------------------------------------------------------------------------
\* Errors of a sheet as a whole.  Labels are compared as they are written.
PlacesOf(s, field, l) ==
    {s[k].hq : k \in {k \in DOMAIN s : s[k][field] = l}} \ {NoPlace}

ManagersOf(s, l) == {s[k].asm : k \in {k \in DOMAIN s : s[k].ase = l}} \ {Blank}

Several(S) == \E x, y \in S : x # y

SheetErrors(d, s) ==
    LET used(field) == {s[k][field] : k \in DOMAIN s} \ {Blank}
        approved(l) == IF UserId(d, l) = Nobody THEN {} ELSE Approved(d, UserId(d, l))
        spread(field, l) == /\ Several(PlacesOf(s, field, l))
                            /\ ~ PlacesOf(s, field, l) \subseteq approved(l)
    IN  When(\E l \in used("ase") : spread("ase", l) /\ ~ Several(approved(l)),
             "MULTIPLE_HQ_FOR_ASE")
        \cup When(\E l \in used("asm") : spread("asm", l), "MULTIPLE_HQ_FOR_TSM")
        \cup When(\E l \in used("ase") : Several(ManagersOf(s, l)),
                  "MULTIPLE_MANAGERS_FOR_ASE")

\* `unmapped': the rows that lack an id.
Errors(d, s, unmapped) ==
    SheetErrors(d, s)
    \cup UNION {RowErrors(d, s[k], k \in unmapped) : k \in DOMAIN s}
=============================================================================
