-------------------------- MODULE AccessGovernance --------------------------
(***************************************************************************)
(* Everything that gives access to a person or takes it away, working on    *)
(* the same tables at the same time.                                         *)
(***************************************************************************)
EXTENDS Accounts, AccessRequests, AssetAssignments, SecretVaults,
        OAuthTokens

CONSTANTS
    Given,   \* connections a behaviour starts with
    Starts   \* tables a behaviour may start from, and the requests that come in then

UserRecord == [role : Roles, active : BOOLEAN, live : BOOLEAN,
               password : Roles \cup {"own", "none"}, epoch : Nat]
GrantRecord == [state : {"active", "revoked"}, user : Users, of : Apps,
                by : Clients \cup {NoOne}, how : {"none", "revoke", "unplanned", "offboard"},
                expiry : {"never", "later", "due"}, runs : SUBSET {"granted", "revoked"}]
RequestRecord == [status : {"PENDING", "APPROVED", "DENIED"}, user : Users, of : Apps,
                  grant : Nat]
AssignmentRecord == [active : BOOLEAN, user : Users, asset : Assets, releases : Nat,
                     acked : BOOLEAN]
VaultRecord == [state : {"none", "live", "deleted"}, creator : Users \cup {NoOne}]
CodeRecord == [user : Users, epoch : Nat, used : BOOLEAN, connection : Nat]
ConnectionRecord == [user : Users, epoch : Nat, live : BOOLEAN]
TokenRecord == [connection : Nat, state : {"fresh", "used", "old", "gone"}]

\* An instance is set up by its first administrator, and what it holds came from
\* the operations modelled here: nothing half granted, nothing released but
\* still out, no key of a vault that does not live, one token of a connection to
\* rotate and none once it is revoked.
ASSUME StartsAssumption ==
    \A s \in Starts :
        /\ s.users \in [Users -> UserRecord]
        /\ \E u \in Users :
             /\ s.users[u].role = "ADMIN" /\ s.users[u].active
             /\ s.users[u].live /\ s.users[u].password # "none"
        /\ \A u \in Users : s.users[u].role = "ADMIN" => s.users[u].password # "MEMBER"
        /\ s.grants \in Seq(GrantRecord)
        /\ \A g \in DOMAIN s.grants : s.grants[g].state = "active" => s.grants[g].how = "none"
        /\ s.assignments \in Seq(AssignmentRecord)
        /\ \A a \in DOMAIN s.assignments :
             s.assignments[a].releases = IF s.assignments[a].active THEN 0 ELSE 1
        /\ s.vaults \in [Vaults -> VaultRecord] /\ s.members \subseteq Vaults \X Users
        /\ \A m \in s.members :
             /\ s.vaults[m[1]].state = "live"
             /\ s.users[m[2]].live \/ s.vaults[m[1]].creator = m[2]
        /\ s.connections \in Seq(ConnectionRecord) /\ Len(s.connections) = Given
        /\ s.tokens \in Seq(TokenRecord)
        /\ \A t \in DOMAIN s.tokens :
             /\ s.tokens[t].connection \in DOMAIN s.connections
             /\ ~ s.connections[s.tokens[t].connection].live => s.tokens[t].state = "gone"
             /\ \A r \in DOMAIN s.tokens \ {t} :
                  s.tokens[r] = s.tokens[t] => s.tokens[t].state # "fresh"

Init ==
    /\ \E s \in Starts :
         /\ users = s.users /\ grants = s.grants /\ requests = <<>>
         /\ assignments = s.assignments /\ vaults = s.vaults /\ members = s.members
         /\ codes = <<>> /\ connections = s.connections /\ tokens = s.tokens
         /\ mix = s.mix
    /\ client = [c \in Clients |-> Idle]
    /\ ops = 0 /\ faults = 0

Work(c) ==
    \/ AccountStep(c) \/ GrantStep(c) \/ RequestStep(c) \/ AssignmentStep(c)
    \/ VaultStep(c) \/ OAuthStep(c)

Next == Sweep \/ TimePasses \/ TokenAges \/ \E c \in Clients : Work(c) \/ Fail(c)

Spec == Init /\ [][Next]_accessVars

-----------------------------------------------------------------------------
\* The tables and the requests keep their types (all services).
TypeOK ==
    /\ users \in [Users -> UserRecord]
    /\ grants \in Seq(GrantRecord)
    /\ requests \in Seq(RequestRecord)
    /\ \A i \in DOMAIN requests : requests[i].grant \in 0 .. Len(grants)
    /\ assignments \in Seq(AssignmentRecord)
    /\ vaults \in [Vaults -> VaultRecord]
    /\ members \subseteq Vaults \X Users
    /\ codes \in Seq(CodeRecord)
    /\ \A i \in DOMAIN codes : codes[i].connection \in 0 .. Len(connections)
    /\ connections \in Seq(ConnectionRecord)
    /\ tokens \in Seq(TokenRecord)
    /\ \A t \in DOMAIN tokens : tokens[t].connection \in DOMAIN connections
    /\ \A c \in Clients :
         /\ client[c].user \in Users \cup {NoOne}
         /\ client[c].of \in Apps \cup Assets \cup Vaults \cup {NoOne}
         /\ client[c].plans \subseteq Apps
         /\ client[c].staged \subseteq
              IF client[c].op = "disconnect" THEN DOMAIN tokens ELSE DOMAIN grants
         /\ client[c].fired \subseteq client[c].staged
         /\ client[c].reclaim \subseteq DOMAIN assignments

\* Someone can always administer the instance, whatever demotions,
\* deactivations and offboardings cross (AUD-041: assertNotLastAdmin).
LastAdmin == \E u \in Users : UsableAdmin(u)

\* Nobody signs in as an administrator with a password that someone without
\* that role handed out: not by a reset that crosses a promotion, nor by a
\* promotion that crosses a reset (SEC-088: revokeOneTimeCredentials and
\* assertLockedTargetWithinCeiling).
NoHandedAdmin == \A u \in Users : users[u].role = "ADMIN" => users[u].password # "MEMBER"

\* The pair's access ended in a revoke, and every revoke of it had its workflow.
EndsByRevoke(u, a) ==
    /\ ActiveGrants(u, a) # {}
    /\ ActiveGrants(u, a)' = {}
    /\ \A g \in ActiveGrants(u, a) : grants'[g].how = "revoke"
    /\ \A g \in DOMAIN grants : grants[g].user = u /\ grants[g].of = a =>
         grants'[g].how = "revoke"

\* When revokes take a person's last grant of an application away, the one that
\* commits last records a deprovision run, however revokes, batches, sweeps and
\* approvals cross (CCOR-1: isLastActiveGrant).
LastRevocationDeprovisions ==
    [][\A u \in Users, a \in Apps : EndsByRevoke(u, a) =>
         \E g \in ActiveGrants(u, a) : "revoked" \in grants'[g].runs]_accessVars

\* Who revoked a grant, and how, is never rewritten: not by a second revoke, a
\* batch, the sweeper or an offboarding that read the grant active (AUD-043).
RevocationFinal ==
    [][\A g \in DOMAIN grants : grants[g].state = "revoked" =>
         /\ grants'[g].state = "revoked"
         /\ grants'[g].by = grants[g].by /\ grants'[g].how = grants[g].how
         /\ grants'[g].runs = grants[g].runs]_accessVars

Board == INSTANCE RequestBoard WITH issued <- Len(grants)

\* Filing, approving and denying implement the request board: one open request
\* per person and application, one decision, one grant per approval (ADR-0085).
ImplementsBoard == Board!Spec

\* At the commit that deletes a person, nothing is theirs any more, also what
\* was granted or checked out to them while the offboarding ran.
OffboardComplete ==
    [][\A u \in Users : (users[u].live /\ ~ users'[u].live) =>
         /\ \A g \in DOMAIN grants' : grants'[g].user = u => grants'[g].state = "revoked"
         /\ \A a \in DOMAIN assignments' : assignments'[a].user = u => ~ assignments'[a].active
         /\ \A m \in members' : m[2] # u]_accessVars

\* A wrapped key belongs to a live vault and, unless its holder created the
\* vault, to a person who is not deleted (#869, #425).
KeysHeldByMembers ==
    \A m \in members :
        /\ vaults[m[1]].state = "live"
        /\ users[m[2]].live \/ vaults[m[1]].creator = m[2]

\* An assignment nobody's offboarding touched is released once (SEC-031).
ReleasedOnce ==
    \A a \in DOMAIN assignments :
        "offboard" \notin mix => assignments[a].releases = IF assignments[a].active THEN 0 ELSE 1

FreshTokens(g) == {t \in DOMAIN tokens : tokens[t] = NewToken(g)}

\* However often clients present the same refresh token at once, a connection
\* holds one that can still be rotated; revoked, it keeps none, also when it was
\* being rotated; and the code it came from knows it, or a replay of the code
\* could not revoke it (ADR-0097, decision 8).
ConnectionsSound ==
    \A g \in DOMAIN connections :
        /\ Cardinality(FreshTokens(g)) <= 1
        /\ ~ connections[g].live =>
             \A t \in DOMAIN tokens : tokens[t].connection = g => tokens[t].state = "gone"
        /\ g <= Given \/ \E i \in DOMAIN codes : codes[i].connection = g

Verifies(g) ==
    /\ connections[g].live
    /\ Eligible(connections[g].user)
    /\ users[connections[g].user].epoch = connections[g].epoch

\* Violated: a connection whose tokens have stopped verifying never verifies
\* again.  It takes five requests: a deactivation that read the person inactive
\* leaves the epoch although a reactivation, a consent and an exchange came in
\* between, so the next reactivation revives the connection.
NeverRevived == [][\A g \in DOMAIN connections : ~ Verifies(g) => ~ Verifies(g)']_accessVars

\* users.service.ts says of an offboarding: a person is never left deleted but
\* still holding grants, assets or vault access.
NeverHalfOffboarded ==
    \A u \in Users : ~ users[u].live =>
        /\ \A g \in DOMAIN grants : grants[g].user = u => grants[g].state = "revoked"
        /\ \A a \in DOMAIN assignments : assignments[a].user = u => ~ assignments[a].active
        /\ \A m \in members : m[2] # u
=============================================================================
