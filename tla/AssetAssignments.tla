-------------------------- MODULE AssetAssignments --------------------------
(***************************************************************************)
(* AssetAssignmentsService: check-out, check-in and the acknowledgement of   *)
(* a check-out by its owner.                                                 *)
(***************************************************************************)
EXTENDS AccessState

assignmentOthers == <<users, grants, requests, vaults, members, oauthTables>>

ActiveAssignments(u, asset) ==
    {a \in DOMAIN assignments :
        assignments[a].active /\ assignments[a].user = u /\ assignments[a].asset = asset}

\* create: a live person (an inactive one too) without an active assignment of
\* the asset; the insert is backed by a partial unique index.
AssignCheck(c) ==
    \E u \in Users, asset \in Assets :
        /\ users[u].live /\ ActiveAssignments(u, asset) = {}
        /\ Begin(c, "assign", [Idle EXCEPT !.op = "assign", !.pc = "insert", !.user = u, !.of = asset])
        /\ UNCHANGED <<accessTables, faults>>

AssignWrite(c) ==
    LET row == [active |-> TRUE, user |-> client[c].user, asset |-> client[c].of,
                releases |-> 0, acked |-> FALSE]
    IN  /\ At(c, "assign", "insert") /\ ~ Waits(c)
        /\ assignments' = IF ActiveAssignments(row.user, row.asset) = {}
                          THEN Append(assignments, row) ELSE assignments
        /\ End(c)
        /\ UNCHANGED <<assignmentOthers, bounds>>

\* release: read as active, then released only if it still is.
ReleaseRead(c) ==
    \E a \in DOMAIN assignments :
        /\ assignments[a].active
        /\ Begin(c, "release", [Idle EXCEPT !.op = "release", !.pc = "release", !.ids = <<a>>])
        /\ UNCHANGED <<accessTables, faults>>

\* Mutant: the update matches the id alone.
ReleaseById(a) == TRUE

StillOut(a) == assignments[a].active

ReleaseCommit(c) ==
    LET a == Head(client[c].ids) IN
    /\ At(c, "release", "release")
    /\ assignments' = IF StillOut(a)
         THEN [assignments EXCEPT ![a].active = FALSE, ![a].releases = @ + 1] ELSE assignments
    /\ End(c)
    /\ UNCHANGED <<assignmentOthers, bounds>>

\* acknowledge: set once, by the owner, while the asset is out.
Acknowledge(c) ==
    \E a \in DOMAIN assignments :
        /\ Allowed(c, "acknowledge")
        /\ assignments[a].active /\ ~ assignments[a].acked
        /\ users[assignments[a].user].live /\ users[assignments[a].user].active
        /\ ops' = ops + 1
        /\ assignments' = [assignments EXCEPT ![a].acked = TRUE]
        /\ UNCHANGED <<assignmentOthers, client, mix, faults>>

AssignmentStep(c) ==
    AssignCheck(c) \/ AssignWrite(c) \/ ReleaseRead(c) \/ ReleaseCommit(c) \/ Acknowledge(c)
=============================================================================
