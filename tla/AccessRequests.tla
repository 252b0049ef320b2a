--------------------------- MODULE AccessRequests ---------------------------
(***************************************************************************)
(* AccessRequestsService: a person asks for an application, someone         *)
(* approves, which opens the grant in the same transaction, or denies.      *)
(***************************************************************************)
EXTENDS AccessGrants

requestOthers == <<users, assignments, vaults, members, oauthTables>>

PendingFor(u, a) ==
    \E i \in DOMAIN requests :
        requests[i].status = "PENDING" /\ requests[i].user = u /\ requests[i].of = a

\* create: the friendly check, then the insert, which the partial unique index
\* refuses to a second pending row.
RequestCheck(c) ==
    \E u \in Users, a \in Apps :
        /\ Usable(u) /\ ~ PendingFor(u, a)
        /\ Begin(c, "request", [Idle EXCEPT !.op = "request", !.pc = "insert", !.user = u, !.of = a])
        /\ UNCHANGED <<accessTables, faults>>

RequestInsert(c) ==
    LET row == [status |-> "PENDING", user |-> client[c].user, of |-> client[c].of, grant |-> 0] IN
    /\ At(c, "request", "insert") /\ ~ Waits(c)
    /\ requests' = IF PendingFor(row.user, row.of) THEN requests ELSE Append(requests, row)
    /\ End(c)
    /\ UNCHANGED <<requestOthers, grants, bounds>>

\* approve: findPending and the checks of a grant, then one transaction.
ApproveCheck(c) ==
    \E i \in DOMAIN requests :
        LET u == requests[i].user
            a == requests[i].of
        IN  \E plans \in SUBSET {a} :
              /\ requests[i].status = "PENDING" /\ Usable(u) /\ LookUp({a}, plans)
              /\ Begin(c, "approve", [Idle EXCEPT !.op = "approve", !.pc = "insert", !.user = u,
                                                  !.of = a, !.ids = <<i>>, !.plans = plans])
              /\ UNCHANGED accessTables

\* Mutant: the request is closed whatever its status.
CloseAny(i) == TRUE

StillPending(i) == requests[i].status = "PENDING"

\* A request decided meanwhile rolls the new grant back.
ApproveCommit(c) ==
    LET i == Head(client[c].ids) IN
    /\ At(c, "approve", "insert") /\ ~ Waits(c)
    /\ IF StillPending(i)
       THEN /\ grants' = Append(grants, NewGrant(client[c].user, client[c].of, client[c].plans))
            /\ requests' = [requests EXCEPT ![i].status = "APPROVED", ![i].grant = Len(grants')]
       ELSE UNCHANGED <<grants, requests>>
    /\ End(c)
    /\ UNCHANGED <<requestOthers, bounds>>

DenyCheck(c) ==
    \E i \in DOMAIN requests :
        /\ requests[i].status = "PENDING"
        /\ Begin(c, "deny", [Idle EXCEPT !.op = "deny", !.pc = "deny", !.ids = <<i>>])
        /\ UNCHANGED <<accessTables, faults>>

DenyCommit(c) ==
    LET i == Head(client[c].ids) IN
    /\ At(c, "deny", "deny")
    /\ requests' = IF StillPending(i) THEN [requests EXCEPT ![i].status = "DENIED"] ELSE requests
    /\ End(c)
    /\ UNCHANGED <<requestOthers, grants, bounds>>

RequestStep(c) ==
    \/ RequestCheck(c) \/ RequestInsert(c)
    \/ ApproveCheck(c) \/ ApproveCommit(c) \/ DenyCheck(c) \/ DenyCommit(c)
=============================================================================
