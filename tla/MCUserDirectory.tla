-------------------------- MODULE MCUserDirectory --------------------------
(* Values for model checking UserDirectory.                                *)
EXTENDS UserDirectory

CONSTANTS p1, p2, ase, leader, m1, m2, d1, d2, h1, h2

Nothing == [op |-> "update", status |-> Keep, role |-> Keep, manager |-> Keep,
            depot |-> Keep, hqGiven |-> FALSE, hq |-> <<>>]

\* Payloads all of whose names are found, and whose status router and service
\* read alike
Plain ==
    {[Nothing EXCEPT !.op = "create", !.role = ase, !.manager = m1, !.depot = d1,
                     !.hqGiven = TRUE, !.hq = <<h1, h2>>],
     [Nothing EXCEPT !.role = leader, !.manager = Clear, !.depot = Clear],
     [Nothing EXCEPT !.status = "false", !.manager = m2, !.depot = d2],
     [Nothing EXCEPT !.status = "true"],
     [Nothing EXCEPT !.op = "delete"],
     [Nothing EXCEPT !.op = "headquarters", !.hqGiven = TRUE, !.hq = <<h1, h2>>]}

\* and others
Odd ==
    {[Nothing EXCEPT !.op = "create", !.role = Unknown, !.manager = Unknown,
                     !.depot = Unknown, !.hqGiven = TRUE, !.hq = <<h1, Unknown>>],
     [Nothing EXCEPT !.status = "inactive", !.role = Unknown, !.depot = Unknown],
     [Nothing EXCEPT !.status = "zero", !.manager = Unknown,
                     !.hqGiven = TRUE, !.hq = <<Unknown, h2>>]}

MCPayload == Plain \cup Odd

\* The kinds of request that meet, and where; what they may take.
Mix(kinds, processes, tokens, failures) ==
    [kinds |-> kinds, processes |-> processes, tokens |-> tokens,
     faults |-> failures, payloads |-> {}, edits |-> 0, lists |-> FALSE,
     known |-> {ase}]

Admin == {"create", "edit", "deactivate", "reactivate"}
Single(op, status) == [Nothing EXCEPT !.op = op, !.status = status]

MCMixes ==
    {\* edits of all kinds in two processes
     [Mix(Admin, {p1, p2}, 0, 0) EXCEPT
         !.payloads = Plain, !.edits = 2, !.known = {ase, Nobody}],
     \* in one, with a call that fails, and with payloads of which something is
     \* not found or misread
     [Mix(Admin, {p1}, 0, 1) EXCEPT
         !.payloads = Payload, !.edits = 2, !.known = {ase, Nobody}],
     \* edits and the cached list of users
     [Mix(Admin, {p1, p2}, 0, 0) EXCEPT
         !.payloads = {Single("delete", Keep), Single("update", "true")},
         !.edits = 2, !.lists = TRUE],
     \* checks against a deactivation or a reactivation
     [Mix({"check", "deactivate", "reactivate"}, {p1, p2}, 0, 1) EXCEPT
         !.payloads = {Single("delete", Keep), Single("update", "true")}, !.edits = 1],
     \* a session against a deactivation
     [Mix({"login", "refresh", "deactivate"}, {p1, p2}, 1, 1) EXCEPT
         !.payloads = {Single("delete", Keep)}, !.edits = 1],
     \* sessions against one another, and against a revocation
     Mix({"mobile_login", "refresh", "logout"}, {p1}, 2, 1),
     Mix({"mobile_login", "refresh", "revoke"}, {p1}, 2, 0),
     Mix({"mobile_login", "check", "reset"}, {p1}, 1, 0),
     \* more sessions than the index holds
     Mix({"mobile_login"}, {p1}, 3, 0)}

=============================================================================
