----------------------------- MODULE Accounts -----------------------------
(***************************************************************************)
(* UsersService: role and activation changes, offboarding, restore and      *)
(* password resets, in local authentication mode.  A row's password is the  *)
(* person's own, none, or a temporary one, which then is the role ceiling of *)
(* whoever set it; the epoch is mcpCredentialEpoch.  History rows and plain  *)
(* web sessions are left out.                                                *)
(***************************************************************************)
EXTENDS AccessState

accountOthers == <<grants, requests, assignments, vaults, members, oauthTables>>
Roles == {"MEMBER", "ADMIN"}

\* hasAnotherActiveAdmin: another administrator who can sign in.
UsableAdmin(u) ==
    users[u].role = "ADMIN" /\ users[u].active /\ users[u].live /\ users[u].password # "none"

\* wouldRemoveLastAdmin: the target as it stands under the lock, not as the
\* request read it.
RemovesLastAdmin(u, losesPowers) ==
    /\ users[u].live /\ losesPowers
    /\ ~ \E other \in Users \ {u} : UsableAdmin(other)

\* The lock on the admin set, which serialises everything that can take an
\* administrator away, lasts until the transaction ends.
\* Mutant: the count takes no lock.
NoAdminLock(c) == client[c].locks

WithAdminLock(c) == client[c].locks \cup {AdminSet}

LockAdmins(c, next) ==
    client' = [client EXCEPT ![c].pc = next, ![c].locks = WithAdminLock(c)]
-----------------------------------------------------------------------------
Changes == {"promote", "demote", "deactivate", "reactivate"}

\* update: what it reads of the row is kept (seen is 1 for an active person);
\* the transaction starts with the last-admin check when the request
\* demotes or sends isActive = false.
UpdateRead(c) ==
    \E u \in Users, change \in Changes :
        /\ users[u].live
        /\ Begin(c, change,
             [Idle EXCEPT !.op = "update", !.user = u, !.change = change,
                          !.seen = IF users[u].active THEN 1 ELSE 0,
                          !.pc = IF change \in {"demote", "deactivate"} THEN "admins" ELSE "write user"])
        /\ UNCHANGED <<accessTables, faults>>

UpdateCheckAdmins(c) ==
    LET u == client[c].user
        losesPowers == /\ users[u].role = "ADMIN"
                       /\ client[c].change = "demote" \/ users[u].active
    IN  /\ At(c, "update", "admins") /\ ~ Waits(c)
        /\ IF RemovesLastAdmin(u, losesPowers) THEN End(c) ELSE LockAdmins(c, "write user")
        /\ UNCHANGED <<accessTables, bounds>>

\* revokeOneTimeCredentials: a promotion first takes back a temporary password
\* (SEC-088), judged by the role under the row lock.
TakeBackTemporary(row) ==
    IF row.role = "MEMBER" /\ row.password \in Roles THEN "none" ELSE row.password

\* Every session and connection of the person stops.
EndSessions(row) == [row EXCEPT !.epoch = @ + 1]

Promoted(row) ==
    LET stripped == [row EXCEPT !.role = "ADMIN", !.password = TakeBackTemporary(row)] IN
    IF stripped.password = row.password THEN stripped ELSE EndSessions(stripped)

\* Only the request that read the person active ends their sessions.
Deactivated(row, seen) ==
    LET off == [row EXCEPT !.active = FALSE] IN IF seen = 1 THEN EndSessions(off) ELSE off

Changed(row, change, seen) ==
    CASE change = "promote" -> Promoted(row)
      [] change = "demote" -> [row EXCEPT !.role = "MEMBER"]
      [] change = "deactivate" -> Deactivated(row, seen)
      [] change = "reactivate" -> [row EXCEPT !.active = TRUE]

UpdateWrite(c) ==
    LET u == client[c].user IN
    /\ At(c, "update", "write user") /\ ~ Waits(c)
    /\ users' = [users EXCEPT ![u] = Changed(@, client[c].change, client[c].seen)]
    /\ End(c)
    /\ UNCHANGED <<accountOthers, bounds>>

\* Someone with a role ceiling sets a temporary password; the ceiling was
\* checked against the role read here and is checked again under the row lock.
ResetRead(c) ==
    \E u \in Users, ceiling \in Roles :
        /\ users[u].live /\ users[u].active
        /\ users[u].role = "ADMIN" => ceiling = "ADMIN"
        /\ Begin(c, "reset", [Idle EXCEPT !.op = "reset", !.pc = "write user", !.user = u,
                                          !.change = ceiling])
        /\ UNCHANGED <<accessTables, faults>>

\* Mutant: the ceiling is not checked again.
AnyTarget(c) == TRUE

WithinCeiling(c) == users[client[c].user].role = "ADMIN" => client[c].change = "ADMIN"

ResetWrite(c) ==
    /\ At(c, "reset", "write user") /\ ~ Waits(c)
    /\ users' = IF WithinCeiling(c)
                THEN [users EXCEPT ![client[c].user] =
                        EndSessions([@ EXCEPT !.password = client[c].change])]
                ELSE users
    /\ End(c)
    /\ UNCHANGED <<accountOthers, bounds>>
-----------------------------------------------------------------------------
(***************************************************************************)
(* Offboarding: one transaction, in the code's order of locks.             *)
(***************************************************************************)
OffboardRead(c) ==
    \E u \in Users :
        /\ users[u].live
        /\ Begin(c, "offboard", [Idle EXCEPT !.op = "offboard", !.pc = "admins", !.user = u])
        /\ UNCHANGED <<accessTables, faults>>

OffboardCheckAdmins(c) ==
    LET u == client[c].user IN
    /\ At(c, "offboard", "admins") /\ ~ Waits(c)
    /\ IF RemovesLastAdmin(u, users[u].role = "ADMIN")
       THEN End(c) ELSE LockAdmins(c, "user row")
    /\ UNCHANGED <<accessTables, bounds>>

\* The row lock, then the UPDATE of the user's active grants: it goes through
\* the rows its snapshot shows, in some order, waiting for each.
\* Mutant: the user's row is read without a lock.
NoRowLock(c) == client[c].locks

WithRowLock(c) == client[c].locks \cup {UserRow(client[c].user)}

OffboardLockUser(c) ==
    LET held == {g \in DOMAIN grants : grants[g].state = "active" /\ grants[g].user = client[c].user}
    IN  /\ At(c, "offboard", "user row") /\ ~ Waits(c)
        /\ \E order \in Orders(held) :
             client' = [client EXCEPT ![c].pc = "offboard grants", ![c].ids = order,
                                      ![c].locks = WithRowLock(c)]
        /\ UNCHANGED <<accessTables, bounds>>

\* A row revoked meanwhile no longer matches and is skipped.
OffboardGrant(c) ==
    LET g == Head(client[c].ids) IN
    /\ At(c, "offboard", "offboard grants") /\ client[c].ids # <<>> /\ ~ Waits(c)
    /\ client' = [client EXCEPT
         ![c].ids = Tail(@),
         ![c].staged = IF grants[g].state = "active" THEN @ \cup {g} ELSE @,
         ![c].locks = IF grants[g].state = "active" THEN @ \cup {GrantRow(g)} ELSE @]
    /\ UNCHANGED <<accessTables, bounds>>

\* releaseAllForUser reads the active assignments, then updates each by id.
OffboardReadAssignments(c) ==
    /\ At(c, "offboard", "offboard grants") /\ client[c].ids = <<>>
    /\ client' = [client EXCEPT
         ![c].pc = "offboard commit",
         ![c].reclaim = {a \in DOMAIN assignments :
                           assignments[a].active /\ assignments[a].user = client[c].user}]
    /\ UNCHANGED <<accessTables, bounds>>

\* The releases are not guarded: an assignment released meanwhile is released
\* again.  Memberships are dropped, the user is deleted, all in one commit; no
\* deprovision run is recorded for the grants.
OffboardCommit(c) ==
    LET u == client[c].user IN
    /\ At(c, "offboard", "offboard commit")
    /\ grants' = [g \in DOMAIN grants |->
         IF g \in client[c].staged
         THEN [grants[g] EXCEPT !.state = "revoked", !.by = c, !.how = "offboard"] ELSE grants[g]]
    /\ assignments' = [a \in DOMAIN assignments |->
         IF a \in client[c].reclaim
         THEN [assignments[a] EXCEPT !.active = FALSE, !.releases = @ + 1] ELSE assignments[a]]
    /\ members' = {m \in members : m[2] # u}
    /\ users' = [users EXCEPT ![u] = EndSessions([@ EXCEPT !.live = FALSE])]
    /\ End(c)
    /\ UNCHANGED <<requests, vaults, oauthTables, bounds>>

\* signOutEverywhere: the person's own, unconditional.
SignOutEverywhere(c) ==
    \E u \in Users :
        /\ Allowed(c, "sign out") /\ Usable(u) /\ Free(c, UserRow(u))
        /\ ops' = ops + 1
        /\ users' = [users EXCEPT ![u] = EndSessions(@)]
        /\ UNCHANGED <<accountOthers, client, mix, faults>>

\* restore clears deletedAt and gives nothing back.
RestoreUser(c) ==
    \E u \in Users :
        /\ Allowed(c, "restore") /\ ~ users[u].live /\ Free(c, UserRow(u))
        /\ ops' = ops + 1
        /\ users' = [users EXCEPT ![u].live = TRUE]
        /\ UNCHANGED <<accountOthers, client, mix, faults>>

AccountStep(c) ==
    \/ UpdateRead(c) \/ UpdateCheckAdmins(c) \/ UpdateWrite(c)
    \/ ResetRead(c) \/ ResetWrite(c)
    \/ OffboardRead(c) \/ OffboardCheckAdmins(c) \/ OffboardLockUser(c)
    \/ OffboardGrant(c) \/ OffboardReadAssignments(c) \/ OffboardCommit(c)
    \/ SignOutEverywhere(c) \/ RestoreUser(c)
=============================================================================
