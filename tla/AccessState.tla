---------------------------- MODULE AccessState ----------------------------
(***************************************************************************)
(* The tables that say who has access to what, and the requests working on  *)
(* them.  A request is a record that lives as long as its handler: what it   *)
(* has read, the locks its transaction holds, and the writes the transaction *)
(* has made but not committed.  Postgres runs at READ COMMITTED, so nobody   *)
(* sees a staged write, and a statement that meets a locked row waits.       *)
(***************************************************************************)
EXTENDS Integers, Sequences, FiniteSets

CONSTANTS
    Users, Apps, Assets, Vaults,
    Clients,       \* the handlers that may run at the same time
    Sweeper,       \* the one of them that is the expiry sweeper
    Policy,        \* app -> deprovision policy of its revoke workflow, or "none"
    MaxOps,        \* requests that begin
    MaxFaults      \* transactions that fail, lookups that fail

Policies == {"none", "EACH_GRANT", "LAST_ACTIVE_GRANT"}

ASSUME AccessAssumption ==
    /\ Policy \in [Apps -> Policies]
    /\ Sweeper \in Clients
    /\ MaxOps \in Nat
    /\ MaxFaults \in Nat

VARIABLES
    users,        \* user -> row
    grants,       \* sequence of AccessGrant rows
    requests,     \* sequence of AccessRequest rows
    assignments,  \* sequence of AssetAssignment rows
    vaults,       \* vault -> row
    members,      \* VaultMembership rows, pairs of a vault and a user
    codes,        \* sequence of OAuthAuthorizationCode rows
    connections,  \* sequence of OAuthGrant rows
    tokens,       \* sequence of OAuthToken rows, deleted ones marked
    client,       \* request in progress per handler
    mix,          \* the kinds of requests of this behaviour
    ops, faults

oauthTables == <<codes, connections, tokens>>
accessTables == <<users, grants, requests, assignments, vaults, members, oauthTables>>
accessVars == <<accessTables, client, mix, ops, faults>>
bounds == <<mix, ops, faults>>
NoOne == "nobody"
-----------------------------------------------------------------------------
Idle == [op |-> "none", pc |-> "idle", user |-> NoOne, of |-> NoOne, ids |-> <<>>,
         change |-> "none", seen |-> 0, plans |-> {}, locks |-> {}, staged |-> {},
         fired |-> {}, reclaim |-> {}]

Allowed(c, kind) == kind \in mix /\ c # Sweeper /\ client[c].pc = "idle" /\ ops < MaxOps

Begin(c, kind, request) ==
    /\ Allowed(c, kind)
    /\ ops' = ops + 1
    /\ client' = [client EXCEPT ![c] = request]
    /\ UNCHANGED mix

At(c, op, pc) == client[c].op = op /\ client[c].pc = pc

\* The handler answers (or throws: 404, 409): nothing of it is left.
End(c) == client' = [client EXCEPT ![c] = Idle]

\* Locks are exclusive, except that of those who share a vault's row.
AdminSet == <<"admin_set">>
UserRow(u) == <<"user", u>>
GrantRow(g) == <<"grant", g>>
Pair(u, a) == <<"pair", u, a>>
VaultShare(v) == <<"vault", v>>
ConnectionRow(g) == <<"connection", g>>
TokenRow(t) == <<"token", t>>

Free(c, lock) == \A d \in Clients \ {c} : lock \notin client[d].locks

\* The lock the next step of a request asks for.  An insert that references a
\* user takes FOR KEY SHARE on that row: it waits for a transaction that holds
\* it FOR UPDATE, and does not look at deletedAt.
Wants(c) ==
    LET ids == client[c].ids IN
    CASE client[c].pc \in {"revoke", "offboard grants"} /\ ids # <<>> -> {GrantRow(Head(ids))}
      [] client[c].pc = "count" -> {Pair(grants[Head(ids)].user, grants[Head(ids)].of)}
      [] client[c].pc = "admins" -> {AdminSet}
      [] client[c].pc \in {"user row", "write user", "insert", "connect"} -> {UserRow(client[c].user)}
      [] client[c].pc = "delete vault" -> {VaultShare(client[c].of)}
      [] client[c].pc = "disconnect" -> {ConnectionRow(Head(ids))}
      [] client[c].pc = "delete tokens" -> {TokenRow(t) : t \in client[c].staged}
      [] client[c].pc = "burn" -> {TokenRow(Head(ids))}
      [] client[c].pc = "rotate" -> {ConnectionRow(tokens[Head(ids)].connection)}
      [] OTHER -> {}

Waits(c) == \E lock \in Wants(c) : ~ Free(c, lock)

WaitsFor(c, d) == c # d /\ Wants(c) \cap client[d].locks # {}

\* Every order of a set of rows, each once.
Orders(S) == {o \in [1 .. Cardinality(S) -> S] : \A i, j \in DOMAIN o : o[i] = o[j] => i = j}

\* Some requests all wait for one another; Postgres rolls one of them back.
Deadlocked(S) == S # {} /\ \A c \in S : \E d \in S : WaitsFor(c, d)

\* A transaction fails: the connection, a statement, the process.  What it had
\* staged is gone with it.
Fail(c) ==
    /\ client[c].pc # "idle"
    /\ \/ faults < MaxFaults /\ faults' = faults + 1
       \/ (\E S \in SUBSET Clients : c \in S /\ Deadlocked(S)) /\ UNCHANGED faults
    /\ End(c)
    /\ UNCHANGED <<accessTables, mix, ops>>

\* assertUserUsable, for a grant: live and active.
Usable(u) == users[u].live /\ users[u].active
=============================================================================
