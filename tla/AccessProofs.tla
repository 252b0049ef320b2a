---------------------------- MODULE AccessProofs ----------------------------
(***************************************************************************)
(* Whatever crosses, someone can administer the instance, and nobody signs   *)
(* in as an administrator with a password someone below handed out.          *)
(*                                                                         *)
(* LastAdmin is not inductive: a demotion writes without looking again.  What *)
(* makes it so is that a request that has passed the check holds the lock on  *)
(* the admin set, alone, and that some administrator other than its target    *)
(* stays usable for as long as it holds it.                                   *)
(***************************************************************************)
EXTENDS AccessGovernance, SequenceTheorems, FiniteSetTheorems, TLAPS

\* Every handler has a request record.
ClientShape ==
    /\ client = [c \in Clients |-> client[c]]
    /\ \A c \in Clients : DOMAIN client[c] = DOMAIN Idle

\* A request that has passed the check and will take powers away.
Removing(c) ==
    \/ At(c, "update", "write user") /\ client[c].change \in {"demote", "deactivate"}
    \/ /\ client[c].op = "offboard"
       /\ client[c].pc \in {"user row", "offboard grants", "offboard commit"}

Guarding == {"update", "offboard"}

Guarded ==
    /\ \A c \in Clients : AdminSet \in client[c].locks => client[c].op \in Guarding
    /\ \A c, d \in Clients : AdminSet \in client[c].locks /\ AdminSet \in client[d].locks => c = d
    /\ \A c \in Clients : Removing(c) =>
         /\ AdminSet \in client[c].locks
         /\ \E other \in Users \ {client[c].user} : UsableAdmin(other)

\* What an update or a reset is about to write.
Carried ==
    /\ \A c \in Clients : At(c, "reset", "write user") => client[c].change \in Roles
    /\ \A c \in Clients : client[c].op = "update" => client[c].change \in Changes
    /\ \A c \in Clients : client[c].op \in Guarding => client[c].user \in Users

AdminInv ==
    /\ users \in [Users -> UserRecord]
    /\ ClientShape
    /\ Carried
    /\ Guarded
    /\ LastAdmin
    /\ NoHandedAdmin

-----------------------------------------------------------------------------
(***************************************************************************)
(* Steps that leave the admin set as strong as it was and take no part in   *)
(* the protocol.                                                            *)
(***************************************************************************)
\* The rows keep their type, and no usable administrator is lost.
Kept ==
    /\ users' \in [Users -> UserRecord]
    /\ NoHandedAdmin'
    /\ \A u \in Users : UsableAdmin(u) => UsableAdmin(u)'

\* A request that may begin, or go on, without the lock.
Unguarded(r) ==
    DOMAIN r = DOMAIN Idle /\ AdminSet \notin r.locks /\ r.op \notin Guarding \cup {"reset"}

Quiet(c) ==
    /\ client' = [d \in Clients |-> client'[d]]
    /\ \A d \in Clients \ {c} : client'[d] = client[d]
    /\ Unguarded(client'[c])

LEMMA SameUsersKept == ASSUME AdminInv, users' = users PROVE Kept
BY DEF AdminInv, Kept, NoHandedAdmin, UsableAdmin

LEMMA QuietKeeps ==
    ASSUME AdminInv, NEW c \in Clients, Kept, Quiet(c)
    PROVE AdminInv'
<1>1. ClientShape'
  BY DEF Quiet, Unguarded, AdminInv, ClientShape
<1>2. Carried'
  BY DEF Quiet, Unguarded, AdminInv, Carried, At, Guarding
<1>3. Guarded'
  <2>1. \A d \in Clients : AdminSet \in client'[d].locks => d # c /\ client'[d] = client[d]
    BY DEF Quiet, Unguarded
  <2>2. \A d \in Clients : Removing(d)' => d # c /\ client'[d] = client[d] /\ Removing(d)
    BY DEF Quiet, Unguarded, Removing, At, Guarding
  <2>3. \A u \in Users : UsableAdmin(u) => UsableAdmin(u)'
    BY DEF Kept
  <2>4. \A d \in Clients : Removing(d)' => /\ AdminSet \in client'[d].locks
         /\ \E other \in Users \ {client'[d].user} : UsableAdmin(other)'
    BY <2>2, <2>3 DEF AdminInv, Guarded
  <2> QED BY <2>1, <2>4 DEF AdminInv, Guarded
<1>4. LastAdmin'
  BY DEF Kept, AdminInv, LastAdmin
<1> QED
  BY <1>1, <1>2, <1>3, <1>4 DEF Kept, AdminInv

LEMMA UnchangedKeeps ==
    ASSUME AdminInv, Kept, client' = client
    PROVE AdminInv'
<1>1. ClientShape' /\ Carried'
  BY DEF AdminInv, ClientShape, Carried, At
<1>2. Guarded'
  <2>1. \A d \in Clients : Removing(d)' <=> Removing(d)
    BY DEF Removing, At
  <2>2. \A u \in Users : UsableAdmin(u) => UsableAdmin(u)'
    BY DEF Kept
  <2>3. \A d \in Clients : Removing(d)' => /\ AdminSet \in client'[d].locks
         /\ \E other \in Users \ {client'[d].user} : UsableAdmin(other)'
    BY <2>1, <2>2 DEF AdminInv, Guarded
  <2> QED BY <2>3 DEF AdminInv, Guarded
<1>3. LastAdmin'
  BY DEF Kept, AdminInv, LastAdmin
<1> QED
  BY <1>1, <1>2, <1>3 DEF Kept, AdminInv

LEMMA IdleUnguarded == Unguarded(Idle)
BY DEF Unguarded, Idle, Guarding

LEMMA ReplacedQuiet ==
    ASSUME AdminInv, NEW c \in Clients, NEW r, Unguarded(r), client' = [client EXCEPT ![c] = r]
    PROVE Quiet(c)
BY DEF AdminInv, ClientShape, Quiet

LEMMA EndQuiet == ASSUME AdminInv, NEW c \in Clients, End(c) PROVE Quiet(c)
BY IdleUnguarded, ReplacedQuiet DEF End

LEMMA BeginQuiet ==
    ASSUME AdminInv, NEW c \in Clients, NEW kind, NEW r, Unguarded(r), Begin(c, kind, r)
    PROVE Quiet(c)
BY ReplacedQuiet DEF Begin

\* A request in progress that is none of the guarding ones does not hold the lock.
LEMMA OthersHoldNothing ==
    ASSUME AdminInv, NEW c \in Clients, client[c].op \notin Guarding
    PROVE AdminSet \notin client[c].locks
BY DEF AdminInv, Guarded

\* A request goes on: its kind stays and its locks are not that of the admin set.
LEMMA MoveQuiet ==
    ASSUME AdminInv, NEW c \in Clients, client[c].op \notin Guarding \cup {"reset"},
           client' = [d \in Clients |-> client'[d]],
           \A d \in Clients \ {c} : client'[d] = client[d],
           DOMAIN client'[c] = DOMAIN client[c], client'[c].op = client[c].op,
           AdminSet \notin client'[c].locks
    PROVE Quiet(c)
BY DEF AdminInv, ClientShape, Quiet, Unguarded

LEMMA LocksDiffer ==
    /\ \A u : AdminSet # UserRow(u)
    /\ \A g : AdminSet # GrantRow(g)
    /\ \A u, a : AdminSet # Pair(u, a)
    /\ \A v : AdminSet # VaultShare(v)
    /\ \A g : AdminSet # ConnectionRow(g)
    /\ \A t : AdminSet # TokenRow(t)
BY DEF AdminSet, UserRow, GrantRow, Pair, VaultShare, ConnectionRow, TokenRow

-----------------------------------------------------------------------------
(***************************************************************************)
(* The services that do not touch the users table.                         *)
(***************************************************************************)
\* Grants and revokes.
LEMMA GrantStepKeeps ==
    ASSUME AdminInv, NEW c \in Clients, GrantStep(c)
    PROVE AdminInv'
<1>1. CASE GrantCheck(c)
  <2>1. users' = users
    BY <1>1 DEF GrantCheck, accessTables
  <2>2. PICK u, a, plans :
          Begin(c, "grant", [Idle EXCEPT !.op = "grant", !.pc = "insert", !.user = u, !.of = a, !.plans = plans])
    BY <1>1 DEF GrantCheck
  <2>3. Unguarded([Idle EXCEPT !.op = "grant", !.pc = "insert", !.user = u, !.of = a, !.plans = plans])
    BY DEF Unguarded, Idle, Guarding
  <2> QED BY <2>1, <2>2, <2>3, SameUsersKept, BeginQuiet, QuietKeeps
<1>2. CASE GrantWrite(c)
  <2>1. users' = users /\ End(c)
    BY <1>2 DEF GrantWrite, grantOthers
  <2> QED BY <2>1, SameUsersKept, EndQuiet, QuietKeeps
<1>3. CASE UpdateExpiry(c)
  <2>1. users' = users /\ client' = client
    BY <1>3 DEF UpdateExpiry, grantOthers
  <2> QED BY <2>1, SameUsersKept, UnchangedKeeps
<1>4. CASE RevokeRead(c)
  <2>1. users' = users
    BY <1>4 DEF RevokeRead, accessTables
  <2>2. PICK ids, plans :
          Begin(c, "revoke", [Idle EXCEPT !.op = "revoke", !.pc = "revoke", !.ids = ids, !.plans = plans])
    BY <1>4 DEF RevokeRead, Revoking
  <2>3. Unguarded([Idle EXCEPT !.op = "revoke", !.pc = "revoke", !.ids = ids, !.plans = plans])
    BY DEF Unguarded, Idle, Guarding
  <2> QED BY <2>1, <2>2, <2>3, SameUsersKept, BeginQuiet, QuietKeeps
<1>5. CASE RevokeCas(c)
  <2>1. users' = users /\ client[c].op = "revoke"
    BY <1>5 DEF RevokeCas, At, accessTables
  <2>2. AdminSet \notin client[c].locks
    BY <2>1, OthersHoldNothing DEF Guarding
  <2>3. client' = [d \in Clients |-> client'[d]] /\ \A d \in Clients \ {c} : client'[d] = client[d]
    BY <1>5 DEF RevokeCas, End, AdminInv, ClientShape
  <2>4. CASE End(c)
    BY <2>1, <2>4, SameUsersKept, EndQuiet, QuietKeeps
  <2>5. CASE ~ End(c)
    <3>1. DOMAIN client'[c] = DOMAIN client[c] /\ client'[c].op = client[c].op
      <4>1. client = [d \in Clients |-> client[d]] /\ DOMAIN client[c] = DOMAIN Idle
        BY DEF AdminInv, ClientShape
      <4> QED BY <1>5, <4>1 DEF RevokeCas, Idle
    <3>2. AdminSet \notin client'[c].locks
      BY <1>5, <2>2, <2>5, LocksDiffer, ZenonT(60) DEF RevokeCas, AdminInv, ClientShape, Idle
    <3>3. Quiet(c)
      BY <2>1, <2>3, <3>1, <3>2, MoveQuiet DEF Guarding
    <3> QED BY <2>1, <3>3, SameUsersKept, QuietKeeps
  <2> QED BY <2>4, <2>5
<1>6. CASE RevokeCount(c)
  <2>1. users' = users /\ client[c].op = "revoke"
    BY <1>6 DEF RevokeCount, At, accessTables
  <2>2. AdminSet \notin client[c].locks
    BY <2>1, OthersHoldNothing DEF Guarding
  <2>3. client' = [d \in Clients |-> client'[d]] /\ \A d \in Clients \ {c} : client'[d] = client[d]
    BY <1>6 DEF RevokeCount, End, AdminInv, ClientShape
  <2>4. CASE End(c)
    BY <2>1, <2>4, SameUsersKept, EndQuiet, QuietKeeps
  <2>5. CASE ~ End(c)
    <3>1. DOMAIN client'[c] = DOMAIN client[c] /\ client'[c].op = client[c].op
      BY <1>6, <2>5, ZenonT(60) DEF RevokeCount, AdminInv, ClientShape, Idle, At, WithPairLock, Wants
    <3>4. Wants(c) = {Pair(grants[Head(client[c].ids)].user, grants[Head(client[c].ids)].of)}
      BY <1>6 DEF RevokeCount, At, Wants
    <3>5. AdminSet \notin WithPairLock(c)
      BY <2>2, <3>4, LocksDiffer DEF WithPairLock
    <3>2. AdminSet \notin client'[c].locks
      BY <1>6, <3>5 DEF RevokeCount, AdminInv, ClientShape, Idle
    <3>3. Quiet(c)
      BY <2>1, <2>3, <3>1, <3>2, MoveQuiet DEF Guarding
    <3> QED BY <2>1, <3>3, SameUsersKept, QuietKeeps
  <2> QED BY <2>4, <2>5
<1>7. CASE RevokeCommit(c)
  <2>1. users' = users /\ End(c)
    BY <1>7 DEF RevokeCommit, grantOthers
  <2> QED BY <2>1, SameUsersKept, EndQuiet, QuietKeeps
<1> QED
  BY <1>1, <1>2, <1>3, <1>4, <1>5, <1>6, <1>7 DEF GrantStep

\* Access requests.
LEMMA RequestStepKeeps ==
    ASSUME AdminInv, NEW c \in Clients, RequestStep(c)
    PROVE AdminInv'
<1>1. CASE RequestCheck(c)
  <2>1. users' = users
    BY <1>1 DEF RequestCheck, accessTables
  <2>2. PICK u \in Users, a \in Apps :
          Begin(c, "request", [Idle EXCEPT !.op = "request", !.pc = "insert", !.user = u, !.of = a])
    BY <1>1 DEF RequestCheck
  <2>3. Unguarded([Idle EXCEPT !.op = "request", !.pc = "insert", !.user = u, !.of = a])
    BY DEF Unguarded, Idle, Guarding
  <2> QED BY <2>1, <2>2, <2>3, SameUsersKept, BeginQuiet, QuietKeeps
<1>2. CASE RequestInsert(c)
  <2>1. users' = users /\ End(c)
    BY <1>2 DEF RequestInsert, requestOthers
  <2> QED BY <2>1, SameUsersKept, EndQuiet, QuietKeeps
<1>3. CASE ApproveCheck(c)
  <2>1. users' = users
    BY <1>3 DEF ApproveCheck, accessTables
  <2>2. PICK i, plans :
          Begin(c, "approve", [Idle EXCEPT !.op = "approve", !.pc = "insert", !.user = requests[i].user, !.of = requests[i].of, !.ids = <<i>>, !.plans = plans])
    BY <1>3 DEF ApproveCheck
  <2>3. Unguarded([Idle EXCEPT !.op = "approve", !.pc = "insert", !.user = requests[i].user, !.of = requests[i].of, !.ids = <<i>>, !.plans = plans])
    BY DEF Unguarded, Idle, Guarding
  <2> QED BY <2>1, <2>2, <2>3, SameUsersKept, BeginQuiet, QuietKeeps
<1>4. CASE ApproveCommit(c)
  <2>1. users' = users /\ End(c)
    BY <1>4 DEF ApproveCommit, requestOthers
  <2> QED BY <2>1, SameUsersKept, EndQuiet, QuietKeeps
<1>5. CASE DenyCheck(c)
  <2>1. users' = users
    BY <1>5 DEF DenyCheck, accessTables
  <2>2. PICK i :
          Begin(c, "deny", [Idle EXCEPT !.op = "deny", !.pc = "deny", !.ids = <<i>>])
    BY <1>5 DEF DenyCheck
  <2>3. Unguarded([Idle EXCEPT !.op = "deny", !.pc = "deny", !.ids = <<i>>])
    BY DEF Unguarded, Idle, Guarding
  <2> QED BY <2>1, <2>2, <2>3, SameUsersKept, BeginQuiet, QuietKeeps
<1>6. CASE DenyCommit(c)
  <2>1. users' = users /\ End(c)
    BY <1>6 DEF DenyCommit, requestOthers
  <2> QED BY <2>1, SameUsersKept, EndQuiet, QuietKeeps
<1> QED
  BY <1>1, <1>2, <1>3, <1>4, <1>5, <1>6 DEF RequestStep

\* Asset assignments.
LEMMA AssignmentStepKeeps ==
    ASSUME AdminInv, NEW c \in Clients, AssignmentStep(c)
    PROVE AdminInv'
<1>1. CASE AssignCheck(c)
  <2>1. users' = users
    BY <1>1 DEF AssignCheck, accessTables
  <2>2. PICK u \in Users, asset \in Assets :
          Begin(c, "assign", [Idle EXCEPT !.op = "assign", !.pc = "insert", !.user = u, !.of = asset])
    BY <1>1 DEF AssignCheck
  <2>3. Unguarded([Idle EXCEPT !.op = "assign", !.pc = "insert", !.user = u, !.of = asset])
    BY DEF Unguarded, Idle, Guarding
  <2> QED BY <2>1, <2>2, <2>3, SameUsersKept, BeginQuiet, QuietKeeps
<1>2. CASE AssignWrite(c)
  <2>1. users' = users /\ End(c)
    BY <1>2 DEF AssignWrite, assignmentOthers
  <2> QED BY <2>1, SameUsersKept, EndQuiet, QuietKeeps
<1>3. CASE ReleaseRead(c)
  <2>1. users' = users
    BY <1>3 DEF ReleaseRead, accessTables
  <2>2. PICK a :
          Begin(c, "release", [Idle EXCEPT !.op = "release", !.pc = "release", !.ids = <<a>>])
    BY <1>3 DEF ReleaseRead
  <2>3. Unguarded([Idle EXCEPT !.op = "release", !.pc = "release", !.ids = <<a>>])
    BY DEF Unguarded, Idle, Guarding
  <2> QED BY <2>1, <2>2, <2>3, SameUsersKept, BeginQuiet, QuietKeeps
<1>4. CASE ReleaseCommit(c)
  <2>1. users' = users /\ End(c)
    BY <1>4 DEF ReleaseCommit, assignmentOthers
  <2> QED BY <2>1, SameUsersKept, EndQuiet, QuietKeeps
<1>5. CASE Acknowledge(c)
  <2>1. users' = users /\ client' = client
    BY <1>5 DEF Acknowledge, assignmentOthers
  <2> QED BY <2>1, SameUsersKept, UnchangedKeeps
<1> QED
  BY <1>1, <1>2, <1>3, <1>4, <1>5 DEF AssignmentStep

\* Vaults.
LEMMA VaultStepKeeps ==
    ASSUME AdminInv, NEW c \in Clients, VaultStep(c)
    PROVE AdminInv'
<1>1. CASE CreateVaultCheck(c)
  <2>1. users' = users
    BY <1>1 DEF CreateVaultCheck, accessTables
  <2>2. PICK v \in Vaults, u \in Users :
          Begin(c, "create vault", [Idle EXCEPT !.op = "create vault", !.pc = "insert", !.user = u, !.of = v])
    BY <1>1 DEF CreateVaultCheck
  <2>3. Unguarded([Idle EXCEPT !.op = "create vault", !.pc = "insert", !.user = u, !.of = v])
    BY DEF Unguarded, Idle, Guarding
  <2> QED BY <2>1, <2>2, <2>3, SameUsersKept, BeginQuiet, QuietKeeps
<1>2. CASE CreateVaultWrite(c)
  <2>1. users' = users /\ End(c)
    BY <1>2 DEF CreateVaultWrite, vaultOthers
  <2> QED BY <2>1, SameUsersKept, EndQuiet, QuietKeeps
<1>3. CASE AddMemberCheck(c)
  <2>1. users' = users
    BY <1>3 DEF AddMemberCheck, accessTables
  <2>2. PICK v \in Vaults, granter \in Users, u \in Users :
          Begin(c, "add member", [Idle EXCEPT !.op = "add member", !.pc = "share vault", !.user = u, !.of = v, !.change = granter])
    BY <1>3 DEF AddMemberCheck
  <2>3. Unguarded([Idle EXCEPT !.op = "add member", !.pc = "share vault", !.user = u, !.of = v, !.change = granter])
    BY DEF Unguarded, Idle, Guarding
  <2> QED BY <2>1, <2>2, <2>3, SameUsersKept, BeginQuiet, QuietKeeps
<1>4. CASE AddMemberShareVault(c)
  <2>1. users' = users /\ client[c].op = "add member"
    BY <1>4 DEF AddMemberShareVault, At, accessTables
  <2>2. AdminSet \notin client[c].locks
    BY <2>1, OthersHoldNothing DEF Guarding
  <2>3. client' = [d \in Clients |-> client'[d]] /\ \A d \in Clients \ {c} : client'[d] = client[d]
    BY <1>4 DEF AddMemberShareVault, End, AdminInv, ClientShape
  <2>4. CASE End(c)
    BY <2>1, <2>4, SameUsersKept, EndQuiet, QuietKeeps
  <2>5. CASE ~ End(c)
    <3>1. DOMAIN client'[c] = DOMAIN client[c] /\ client'[c].op = client[c].op
      BY <1>4, <2>5 DEF AddMemberShareVault, AdminInv, ClientShape, Idle, VaultLock
    <3>4. AdminSet \notin VaultLock(c)
      BY LocksDiffer DEF VaultLock
    <3>2. AdminSet \notin client'[c].locks
      BY <1>4, <2>5, <3>4, ZenonT(60) DEF AddMemberShareVault, AdminInv, ClientShape, Idle
    <3>3. Quiet(c)
      BY <2>1, <2>3, <3>1, <3>2, MoveQuiet DEF Guarding
    <3> QED BY <2>1, <3>3, SameUsersKept, QuietKeeps
  <2> QED BY <2>4, <2>5
<1>5. CASE AddMemberWrite(c)
  <2>1. users' = users /\ End(c)
    BY <1>5 DEF AddMemberWrite, vaultOthers
  <2> QED BY <2>1, SameUsersKept, EndQuiet, QuietKeeps
<1>6. CASE RevokeMember(c)
  <2>1. users' = users /\ client' = client
    BY <1>6 DEF RevokeMember, vaultOthers
  <2> QED BY <2>1, SameUsersKept, UnchangedKeeps
<1>7. CASE DeleteVaultCheck(c)
  <2>1. users' = users
    BY <1>7 DEF DeleteVaultCheck, accessTables
  <2>2. PICK v \in Vaults :
          Begin(c, "delete vault", [Idle EXCEPT !.op = "delete vault", !.pc = "delete vault", !.of = v])
    BY <1>7 DEF DeleteVaultCheck
  <2>3. Unguarded([Idle EXCEPT !.op = "delete vault", !.pc = "delete vault", !.of = v])
    BY DEF Unguarded, Idle, Guarding
  <2> QED BY <2>1, <2>2, <2>3, SameUsersKept, BeginQuiet, QuietKeeps
<1>8. CASE DeleteVault(c)
  <2>1. users' = users /\ End(c)
    BY <1>8 DEF DeleteVault, vaultOthers
  <2> QED BY <2>1, SameUsersKept, EndQuiet, QuietKeeps
<1> QED
  BY <1>1, <1>2, <1>3, <1>4, <1>5, <1>6, <1>7, <1>8 DEF VaultStep

\* Connections of AI clients.
LEMMA OAuthStepKeeps ==
    ASSUME AdminInv, NEW c \in Clients, OAuthStep(c)
    PROVE AdminInv'
<1>1. CASE ConsentCheck(c)
  <2>1. users' = users
    BY <1>1 DEF ConsentCheck, accessTables
  <2>2. PICK u \in Users :
          Begin(c, "consent", [Idle EXCEPT !.op = "consent", !.pc = "issue code", !.user = u, !.seen = users[u].epoch])
    BY <1>1 DEF ConsentCheck
  <2>3. Unguarded([Idle EXCEPT !.op = "consent", !.pc = "issue code", !.user = u, !.seen = users[u].epoch])
    BY DEF Unguarded, Idle, Guarding
  <2> QED BY <2>1, <2>2, <2>3, SameUsersKept, BeginQuiet, QuietKeeps
<1>2. CASE ConsentWrite(c)
  <2>1. users' = users /\ End(c)
    BY <1>2 DEF ConsentWrite, oauthOthers
  <2> QED BY <2>1, SameUsersKept, EndQuiet, QuietKeeps
<1>3. CASE ExchangeRead(c)
  <2>1. users' = users
    BY <1>3 DEF ExchangeRead, accessTables
  <2>2. PICK i, valid :
          Begin(c, "exchange", [Idle EXCEPT !.op = "exchange", !.pc = "burn code", !.ids = <<i>>, !.user = codes[i].user, !.change = valid])
    BY <1>3 DEF ExchangeRead
  <2>3. Unguarded([Idle EXCEPT !.op = "exchange", !.pc = "burn code", !.ids = <<i>>, !.user = codes[i].user, !.change = valid])
    BY DEF Unguarded, Idle, Guarding
  <2> QED BY <2>1, <2>2, <2>3, SameUsersKept, BeginQuiet, QuietKeeps
<1>4. CASE ExchangeBurn(c)
  <2>1. users' = users /\ client[c].op = "exchange"
    BY <1>4 DEF ExchangeBurn, At, accessTables, oauthOthers
  <2>2. AdminSet \notin client[c].locks
    BY <2>1, OthersHoldNothing DEF Guarding
  <2>3. client' = [d \in Clients |-> client'[d]] /\ \A d \in Clients \ {c} : client'[d] = client[d]
    BY <1>4 DEF ExchangeBurn, End, AdminInv, ClientShape
  <2>4. CASE End(c)
    BY <2>1, <2>4, SameUsersKept, EndQuiet, QuietKeeps
  <2>5. CASE ~ End(c)
    <3>1. DOMAIN client'[c] = DOMAIN client[c] /\ client'[c].op = client[c].op
      BY <1>4, <2>5 DEF ExchangeBurn, AdminInv, ClientShape, Idle
    <3>2. AdminSet \notin client'[c].locks
      BY <1>4, <2>2, <2>5 DEF ExchangeBurn, AdminInv, ClientShape, Idle
    <3>3. Quiet(c)
      BY <2>1, <2>3, <3>1, <3>2, MoveQuiet DEF Guarding
    <3> QED BY <2>1, <3>3, SameUsersKept, QuietKeeps
  <2> QED BY <2>4, <2>5
<1>5. CASE ExchangeLoad(c)
  <2>1. users' = users /\ client[c].op = "exchange"
    BY <1>5 DEF ExchangeLoad, At, accessTables, oauthOthers
  <2>2. AdminSet \notin client[c].locks
    BY <2>1, OthersHoldNothing DEF Guarding
  <2>3. client' = [d \in Clients |-> client'[d]] /\ \A d \in Clients \ {c} : client'[d] = client[d]
    BY <1>5 DEF ExchangeLoad, End, AdminInv, ClientShape
  <2>4. CASE End(c)
    BY <2>1, <2>4, SameUsersKept, EndQuiet, QuietKeeps
  <2>5. CASE ~ End(c)
    <3>1. DOMAIN client'[c] = DOMAIN client[c] /\ client'[c].op = client[c].op
      BY <1>5, <2>5, ZenonT(60) DEF ExchangeLoad, AdminInv, ClientShape, Idle
    <3>2. AdminSet \notin client'[c].locks
      BY <1>5, <2>2, <2>5 DEF ExchangeLoad, AdminInv, ClientShape, Idle
    <3>3. Quiet(c)
      BY <2>1, <2>3, <3>1, <3>2, MoveQuiet DEF Guarding
    <3> QED BY <2>1, <3>3, SameUsersKept, QuietKeeps
  <2> QED BY <2>4, <2>5
<1>6. CASE ExchangeConnect(c)
  <2>1. users' = users /\ End(c)
    BY <1>6 DEF ExchangeConnect, oauthOthers
  <2> QED BY <2>1, SameUsersKept, EndQuiet, QuietKeeps
<1>7. CASE ExchangeReplay(c)
  <2>1. users' = users
    BY <1>7 DEF ExchangeReplay, accessTables
  <2>2. PICK g : \/ client' = [client EXCEPT ![c] = Disconnecting(g)]
                 \/ client' = [client EXCEPT ![c] = Idle]
    BY <1>7 DEF ExchangeReplay
  <2>3. Unguarded(Disconnecting(g))
    BY DEF Unguarded, Disconnecting, Idle, Guarding
  <2>4. Quiet(c)
    BY <2>2, <2>3, IdleUnguarded, ReplacedQuiet
  <2> QED BY <2>1, <2>4, SameUsersKept, QuietKeeps
<1>8. CASE RefreshRead(c)
  <2>1. users' = users
    BY <1>8 DEF RefreshRead, accessTables
  <2>2. PICK t, g : \/ Begin(c, "refresh", Disconnecting(g))
                   \/ Begin(c, "refresh", [Idle EXCEPT !.op = "refresh", !.pc = "burn", !.ids = <<t>>])
    BY <1>8 DEF RefreshRead
  <2>3. Unguarded(Disconnecting(g)) /\ Unguarded([Idle EXCEPT !.op = "refresh", !.pc = "burn", !.ids = <<t>>])
    BY DEF Unguarded, Disconnecting, Idle, Guarding
  <2> QED BY <2>1, <2>2, <2>3, SameUsersKept, BeginQuiet, QuietKeeps
<1>9. CASE RefreshBurn(c)
  <2>1. users' = users /\ client[c].op = "refresh"
    BY <1>9 DEF RefreshBurn, At, accessTables, oauthOthers
  <2>2. AdminSet \notin client[c].locks
    BY <2>1, OthersHoldNothing DEF Guarding
  <2>3. client' = [d \in Clients |-> client'[d]] /\ \A d \in Clients \ {c} : client'[d] = client[d]
    BY <1>9 DEF RefreshBurn, End, AdminInv, ClientShape
  <2>4. CASE End(c)
    BY <2>1, <2>4, SameUsersKept, EndQuiet, QuietKeeps
  <2>5. CASE ~ End(c)
    <3>1. DOMAIN client'[c] = DOMAIN client[c] /\ client'[c].op = client[c].op
      BY <1>9, <2>5 DEF RefreshBurn, AdminInv, ClientShape, Idle
    <3>2. AdminSet \notin client'[c].locks
      BY <1>9, <2>2, <2>5, LocksDiffer DEF RefreshBurn, AdminInv, ClientShape, Idle
    <3>3. Quiet(c)
      BY <2>1, <2>3, <3>1, <3>2, MoveQuiet DEF Guarding
    <3> QED BY <2>1, <3>3, SameUsersKept, QuietKeeps
  <2> QED BY <2>4, <2>5
<1>10. CASE RefreshCommit(c)
  <2>1. users' = users /\ End(c)
    BY <1>10 DEF RefreshCommit, oauthOthers
  <2> QED BY <2>1, SameUsersKept, EndQuiet, QuietKeeps
<1>11. CASE DisconnectRead(c)
  <2>1. users' = users
    BY <1>11 DEF DisconnectRead, accessTables
  <2>2. PICK g :
          Begin(c, "disconnect", [Idle EXCEPT !.op = "disconnect", !.pc = "disconnect", !.ids = <<g>>])
    BY <1>11 DEF DisconnectRead, Disconnecting
  <2>3. Unguarded([Idle EXCEPT !.op = "disconnect", !.pc = "disconnect", !.ids = <<g>>])
    BY DEF Unguarded, Idle, Guarding
  <2> QED BY <2>1, <2>2, <2>3, SameUsersKept, BeginQuiet, QuietKeeps
<1>12. CASE DisconnectLock(c)
  <2>1. users' = users /\ client[c].op = "disconnect"
    BY <1>12 DEF DisconnectLock, At, accessTables
  <2>2. AdminSet \notin client[c].locks
    BY <2>1, OthersHoldNothing DEF Guarding
  <2>3. CASE End(c)
    BY <2>1, <2>3, SameUsersKept, EndQuiet, QuietKeeps
  <2>4. CASE ~ End(c)
    <3>1. PICK locks, staged :
            /\ locks = client[c].locks \cup {ConnectionRow(Head(client[c].ids))}
            /\ client' = [client EXCEPT ![c].pc = "delete tokens", ![c].locks = locks,
                                         ![c].staged = staged]
      BY <1>12, <2>4 DEF DisconnectLock
    <3>2. client' = [d \in Clients |-> client'[d]] /\ \A d \in Clients \ {c} : client'[d] = client[d]
      BY <3>1 DEF AdminInv, ClientShape
    <3>3. DOMAIN client'[c] = DOMAIN client[c] /\ client'[c].op = client[c].op
      BY <3>1 DEF AdminInv, ClientShape, Idle
    <3>4. AdminSet \notin client'[c].locks
      BY <2>2, <3>1, LocksDiffer DEF AdminInv, ClientShape, Idle
    <3>5. Quiet(c)
      BY <2>1, <3>2, <3>3, <3>4, MoveQuiet DEF Guarding
    <3> QED BY <2>1, <3>5, SameUsersKept, QuietKeeps
  <2> QED BY <2>3, <2>4
<1>13. CASE DisconnectCommit(c)
  <2>1. users' = users /\ End(c)
    BY <1>13 DEF DisconnectCommit, oauthOthers
  <2> QED BY <2>1, SameUsersKept, EndQuiet, QuietKeeps
<1> QED
  BY <1>1, <1>2, <1>3, <1>4, <1>5, <1>6, <1>7, <1>8, <1>9, <1>10, <1>11, <1>12, <1>13 DEF OAuthStep
-----------------------------------------------------------------------------
(***************************************************************************)
(* The rows of the users table.                                            *)
(***************************************************************************)
NotHanded(row) == row.role = "ADMIN" => row.password # "MEMBER"
Strong(row) == row.role = "ADMIN" /\ row.active /\ row.live /\ row.password # "none"

LEMMA EndSessionsRow ==
    ASSUME NEW row \in UserRecord
    PROVE /\ EndSessions(row) \in UserRecord
          /\ NotHanded(row) => NotHanded(EndSessions(row))
          /\ Strong(row) => Strong(EndSessions(row))
BY DEF UserRecord, EndSessions, NotHanded, Strong

LEMMA PromotedRow ==
    ASSUME NEW row \in UserRecord, NotHanded(row)
    PROVE Promoted(row) \in UserRecord /\ NotHanded(Promoted(row)) /\ (Strong(row) => Strong(Promoted(row)))
<1>1. PICK stripped : stripped = [row EXCEPT !.role = "ADMIN", !.password = TakeBackTemporary(row)]
  OBVIOUS
<1>2. stripped \in UserRecord /\ NotHanded(stripped) /\ (Strong(row) => Strong(stripped))
  BY <1>1 DEF UserRecord, TakeBackTemporary, NotHanded, Strong, Roles
<1>3. Promoted(row) \in {stripped, EndSessions(stripped)}
  BY <1>1 DEF Promoted
<1> QED BY <1>2, <1>3, EndSessionsRow

LEMMA DeactivatedRow ==
    ASSUME NEW row \in UserRecord, NotHanded(row), NEW seen
    PROVE Deactivated(row, seen) \in UserRecord /\ NotHanded(Deactivated(row, seen))
<1>1. PICK off : off = [row EXCEPT !.active = FALSE]
  OBVIOUS
<1>2. off \in UserRecord /\ NotHanded(off)
  BY <1>1 DEF UserRecord, NotHanded
<1>3. Deactivated(row, seen) \in {off, EndSessions(off)}
  BY <1>1 DEF Deactivated
<1> QED BY <1>2, <1>3, EndSessionsRow

LEMMA ChangedRow ==
    ASSUME NEW row \in UserRecord, NotHanded(row), NEW change \in Changes, NEW seen
    PROVE /\ Changed(row, change, seen) \in UserRecord
          /\ NotHanded(Changed(row, change, seen))
          /\ (change \notin {"demote", "deactivate"} /\ Strong(row)) => Strong(Changed(row, change, seen))
<1>1. CASE change = "promote"
  <2>1. Changed(row, change, seen) = Promoted(row)
    BY <1>1 DEF Changed
  <2> QED BY <2>1, PromotedRow
<1>2. CASE change = "demote"
  BY <1>2 DEF UserRecord, Changed, Roles, NotHanded
<1>3. CASE change = "deactivate"
  <2>1. Changed(row, change, seen) = Deactivated(row, seen)
    BY <1>3 DEF Changed
  <2> QED BY <1>3, <2>1, DeactivatedRow
<1>4. CASE change = "reactivate"
  BY <1>4 DEF UserRecord, Changed, NotHanded, Strong
<1> QED BY <1>1, <1>2, <1>3, <1>4 DEF Changes

\* One row is replaced by another that loses no power.
LEMMA RowKept ==
    ASSUME AdminInv, NEW u, NEW row, users' = [users EXCEPT ![u] = row],
           u \in Users => row \in UserRecord /\ NotHanded(row) /\ (Strong(users[u]) => Strong(row))
    PROVE Kept
<1>1. users' \in [Users -> UserRecord]
  BY DEF AdminInv
<1>2. \A w \in Users : users'[w] = IF w = u THEN row ELSE users[w]
  BY DEF AdminInv
<1>3. \A w \in Users : users'[w].role = "ADMIN" => users'[w].password # "MEMBER"
  BY <1>2 DEF AdminInv, NoHandedAdmin, NotHanded
<1>4. \A w \in Users : UsableAdmin(w) => UsableAdmin(w)'
  BY <1>2 DEF UsableAdmin, Strong
<1> QED BY <1>1, <1>3, <1>4 DEF Kept, NoHandedAdmin

\* The holder of the lock replaces its target's row and ends.
LEMMA RemovalKeeps ==
    ASSUME AdminInv, NEW c \in Clients, Removing(c), NEW row, row \in UserRecord, NotHanded(row),
           users' = [users EXCEPT ![client[c].user] = row], End(c)
    PROVE AdminInv'
<1>1. AdminSet \in client[c].locks
  BY DEF AdminInv, Guarded
<1>2. PICK other \in Users \ {client[c].user} : UsableAdmin(other)
  BY DEF AdminInv, Guarded
<1>3. \A w \in Users : users'[w] = IF w = client[c].user THEN row ELSE users[w]
  BY DEF AdminInv
<1>4. LastAdmin'
  BY <1>2, <1>3 DEF LastAdmin, UsableAdmin
<1>5. NoHandedAdmin'
  BY <1>3 DEF AdminInv, NoHandedAdmin, NotHanded
<1>6. users' \in [Users -> UserRecord]
  BY DEF AdminInv
<1>7. Quiet(c)
  BY EndQuiet
<1>8. ClientShape' /\ Carried'
  BY <1>7 DEF Quiet, Unguarded, AdminInv, ClientShape, Carried, At, Guarding
<1>9. Guarded'
  <2>1. \A d \in Clients : AdminSet \in client'[d].locks => d # c /\ client'[d] = client[d]
    BY <1>7 DEF Quiet, Unguarded
  <2>2. \A d \in Clients : AdminSet \notin client'[d].locks
    BY <1>1, <2>1 DEF AdminInv, Guarded
  <2>3. \A d \in Clients : Removing(d)' => d # c /\ Removing(d) /\ client'[d] = client[d]
    BY <1>7 DEF Quiet, Unguarded, Removing, At, Guarding
  <2>4. \A d \in Clients : ~ Removing(d)'
    BY <1>1, <2>3 DEF AdminInv, Guarded
  <2> QED BY <2>2, <2>4 DEF Guarded
<1> QED BY <1>4, <1>5, <1>6, <1>8, <1>9 DEF AdminInv

\* A guarding request goes on, or begins.
LEMMA GuardingKeeps ==
    ASSUME AdminInv, NEW c \in Clients, Kept, NEW r,
           client' = [client EXCEPT ![c] = r], DOMAIN r = DOMAIN Idle,
           AdminSet \in r.locks => /\ r.op \in Guarding
                                   /\ AdminSet \in client[c].locks \/ Free(c, AdminSet),
           At(c, "reset", "write user")' => r.change \in Roles,
           r.op = "update" => r.change \in Changes,
           r.op \in Guarding => r.user \in Users,
           Removing(c)' => /\ AdminSet \in r.locks
                           /\ \E other \in Users \ {r.user} : UsableAdmin(other)
    PROVE AdminInv'
<1>1. /\ client' = [d \in Clients |-> client'[d]] /\ client'[c] = r
      /\ \A d \in Clients \ {c} : client'[d] = client[d]
  BY DEF AdminInv, ClientShape
<1>2. ClientShape'
  BY <1>1 DEF AdminInv, ClientShape
<1>3. Carried'
  <2>1. \A d \in Clients \ {c} : /\ At(d, "reset", "write user")' => client'[d].change \in Roles
                                 /\ client'[d].op = "update" => client'[d].change \in Changes
                                 /\ client'[d].op \in Guarding => client'[d].user \in Users
    BY <1>1 DEF AdminInv, Carried, At
  <2> QED BY <1>1, <2>1 DEF Carried
<1>4. Guarded'
  <2>1. \A d \in Clients : AdminSet \in client'[d].locks => client'[d].op \in Guarding
    BY <1>1 DEF AdminInv, Guarded
  <2>2. AdminSet \in client'[c].locks => \A d \in Clients \ {c} : AdminSet \notin client'[d].locks
    BY <1>1 DEF AdminInv, Guarded, Free
  <2>3. \A d, e \in Clients : AdminSet \in client'[d].locks /\ AdminSet \in client'[e].locks => d = e
    BY <1>1, <2>2 DEF AdminInv, Guarded
  <2>4. \A d \in Clients \ {c} : Removing(d)' => Removing(d)
    BY <1>1 DEF Removing, At
  <2>5. \A u \in Users : UsableAdmin(u) => UsableAdmin(u)'
    BY DEF Kept
  <2>6. \A d \in Clients \ {c} : Removing(d)' => /\ AdminSet \in client'[d].locks
         /\ \E other \in Users \ {client'[d].user} : UsableAdmin(other)'
    BY <1>1, <2>4, <2>5 DEF AdminInv, Guarded
  <2>7. Removing(c)' => /\ AdminSet \in client'[c].locks
         /\ \E other \in Users \ {client'[c].user} : UsableAdmin(other)'
    BY <1>1, <2>5
  <2> QED BY <2>1, <2>3, <2>6, <2>7 DEF Guarded
<1>5. LastAdmin'
  BY DEF Kept, AdminInv, LastAdmin
<1> QED BY <1>2, <1>3, <1>4, <1>5 DEF Kept, AdminInv

\* Under the lock, a check that passes leaves someone other than the target.
LEMMA CheckLeavesAnother ==
    ASSUME AdminInv, NEW u \in Users, NEW losesPowers \in BOOLEAN,
           UsableAdmin(u) => losesPowers, ~ RemovesLastAdmin(u, losesPowers)
    PROVE \E other \in Users \ {u} : UsableAdmin(other)
BY DEF AdminInv, LastAdmin, RemovesLastAdmin, UsableAdmin

\* An offboarding that holds the lock takes its next step.
LEMMA OnwardKeeps ==
    ASSUME AdminInv, NEW c \in Clients, Kept, Removing(c), client[c].op = "offboard",
           client' = [d \in Clients |-> client'[d]],
           \A d \in Clients \ {c} : client'[d] = client[d],
           DOMAIN client'[c] = DOMAIN client[c], client[c].locks \subseteq client'[c].locks,
           client'[c].op = client[c].op, client'[c].user = client[c].user
    PROVE AdminInv'
<1>1. client' = [client EXCEPT ![c] = client'[c]]
  BY DEF AdminInv, ClientShape
<1>2. AdminSet \in client[c].locks /\ \E other \in Users \ {client[c].user} : UsableAdmin(other)
  BY DEF AdminInv, Guarded
<1>3. client[c].user \in Users
  BY DEF AdminInv, Carried, Guarding
<1>4. ~ At(c, "reset", "write user")'
  BY DEF At
<1>5. DOMAIN client'[c] = DOMAIN Idle
  BY DEF AdminInv, ClientShape
<1>6. PICK r : r = client'[c]
  OBVIOUS
<1>7. Removing(c)' => /\ AdminSet \in r.locks
                      /\ \E other \in Users \ {r.user} : UsableAdmin(other)
  BY <1>2, <1>6
<1>8. /\ client' = [client EXCEPT ![c] = r] /\ DOMAIN r = DOMAIN Idle
      /\ r.op = "offboard" /\ r.user \in Users /\ AdminSet \in client[c].locks
  BY <1>1, <1>2, <1>3, <1>5, <1>6
<1> QED BY <1>4, <1>7, <1>8, GuardingKeeps DEF Guarding
-----------------------------------------------------------------------------
(***************************************************************************)
(* The steps that change a person's row.                                   *)
(***************************************************************************)
\* The rows of the invariant are not handed.
LEMMA RowsTyped ==
    ASSUME AdminInv, NEW u \in Users
    PROVE users[u] \in UserRecord /\ NotHanded(users[u])
BY DEF AdminInv, NoHandedAdmin, NotHanded

\* update.
LEMMA UpdateKeeps ==
    ASSUME AdminInv, NEW c \in Clients, UpdateRead(c) \/ UpdateCheckAdmins(c) \/ UpdateWrite(c)
    PROVE AdminInv'
<1>1. CASE UpdateRead(c)
  <2>1. Kept
    BY <1>1, SameUsersKept DEF UpdateRead, accessTables
  <2>6. PICK u \in Users, change \in Changes :
          Begin(c, change,
             [Idle EXCEPT !.op = "update", !.user = u, !.change = change,
                          !.seen = IF users[u].active THEN 1 ELSE 0,
                          !.pc = IF change \in {"demote", "deactivate"} THEN "admins" ELSE "write user"])
    BY <1>1 DEF UpdateRead
  <2>7. PICK seen, pc : /\ seen = IF users[u].active THEN 1 ELSE 0
                        /\ pc = IF change \in {"demote", "deactivate"} THEN "admins" ELSE "write user"
    OBVIOUS
  <2>2. PICK r :
          /\ r = [Idle EXCEPT !.op = "update", !.user = u, !.change = change, !.seen = seen, !.pc = pc]
          /\ client' = [client EXCEPT ![c] = r]
    BY <2>6, <2>7 DEF Begin
  <2>3. /\ DOMAIN r = DOMAIN Idle /\ r.locks = {} /\ r.op = "update"
        /\ r.change = change /\ r.pc = pc /\ r.user = u
    BY <2>2 DEF Idle
  <2>4. client'[c] = r
    BY <2>2 DEF AdminInv, ClientShape
  <2>8. pc = "write user" => change \notin {"demote", "deactivate"}
    BY <2>7
  <2>5. ~ At(c, "reset", "write user")' /\ ~ Removing(c)'
    BY <2>3, <2>4, <2>8 DEF At, Removing
  <2> QED BY <2>1, <2>2, <2>3, <2>5, GuardingKeeps DEF Guarding
<1>2. CASE UpdateCheckAdmins(c)
  <2>1. Kept
    BY <1>2, SameUsersKept DEF UpdateCheckAdmins, accessTables
  <2>2. CASE End(c)
    BY <2>1, <2>2, EndQuiet, QuietKeeps
  <2>3. CASE ~ End(c)
    <3>1. PICK losesPowers \in BOOLEAN :
            /\ losesPowers = (users[client[c].user].role = "ADMIN"
                              /\ (client[c].change = "demote" \/ users[client[c].user].active))
            /\ ~ RemovesLastAdmin(client[c].user, losesPowers)
            /\ LockAdmins(c, "write user")
      BY <1>2, <2>3 DEF UpdateCheckAdmins
    <3>2. PICK r : /\ r = [client[c] EXCEPT !.pc = "write user", !.locks = client[c].locks \cup {AdminSet}]
                   /\ client' = [client EXCEPT ![c] = r]
      BY <3>1 DEF LockAdmins, WithAdminLock, AdminInv, ClientShape
    <3>3. /\ DOMAIN r = DOMAIN Idle /\ AdminSet \in r.locks /\ r.user = client[c].user
          /\ r.op = "update" /\ r.change = client[c].change
      BY <1>2, <3>2 DEF UpdateCheckAdmins, At, AdminInv, ClientShape, Idle
    <3>4. client'[c] = r
      BY <3>2 DEF AdminInv, ClientShape
    <3>5. Free(c, AdminSet)
      BY <1>2 DEF UpdateCheckAdmins, At, Waits, Wants
    <3>6. client[c].user \in Users /\ client[c].change \in Changes
      BY <1>2 DEF UpdateCheckAdmins, AdminInv, Carried, At, Guarding
    <3>7. \E other \in Users \ {client[c].user} : UsableAdmin(other)
      <4>1. UsableAdmin(client[c].user) => losesPowers
        BY <3>1, <3>6, RowsTyped DEF UsableAdmin, UserRecord
      <4> QED BY <3>1, <3>6, <4>1, CheckLeavesAnother
    <3>8. ~ At(c, "reset", "write user")'
      BY <3>3, <3>4 DEF At
    <3> QED BY <2>1, <3>2, <3>3, <3>5, <3>6, <3>7, <3>8, GuardingKeeps DEF Guarding
  <2> QED BY <2>2, <2>3
<1>3. CASE UpdateWrite(c)
  <2>1. PICK row : row = Changed(users[client[c].user], client[c].change, client[c].seen)
    OBVIOUS
  <2>2. users' = [users EXCEPT ![client[c].user] = row] /\ End(c)
    BY <1>3, <2>1 DEF UpdateWrite
  <2>3. client[c].user \in Users /\ client[c].change \in Changes
    BY <1>3 DEF UpdateWrite, AdminInv, Carried, At, Guarding
  <2>4. /\ row \in UserRecord /\ NotHanded(row)
        /\ (client[c].change \notin {"demote", "deactivate"} /\ Strong(users[client[c].user])) => Strong(row)
    BY <2>1, <2>3, RowsTyped, ChangedRow
  <2>5. CASE client[c].change \in {"demote", "deactivate"}
    <3>1. Removing(c)
      BY <1>3, <2>5 DEF UpdateWrite, Removing
    <3> QED BY <2>2, <2>4, <3>1, RemovalKeeps
  <2>6. CASE client[c].change \notin {"demote", "deactivate"}
    <3>1. Kept
      BY <2>2, <2>4, <2>6, RowKept
    <3> QED BY <2>2, <3>1, EndQuiet, QuietKeeps
  <2> QED BY <2>5, <2>6
<1> QED BY <1>1, <1>2, <1>3

\* A password reset.
LEMMA ResetKeeps ==
    ASSUME AdminInv, NEW c \in Clients, ResetRead(c) \/ ResetWrite(c)
    PROVE AdminInv'
<1>1. CASE ResetRead(c)
  <2>1. Kept
    BY <1>1, SameUsersKept DEF ResetRead, accessTables
  <2>2. PICK u, ceiling, r :
          /\ u \in Users /\ ceiling \in Roles
          /\ r = [Idle EXCEPT !.op = "reset", !.pc = "write user", !.user = u, !.change = ceiling]
          /\ client' = [client EXCEPT ![c] = r]
    BY <1>1 DEF ResetRead, Begin
  <2>3. DOMAIN r = DOMAIN Idle /\ r.locks = {} /\ r.op = "reset" /\ r.change = ceiling
    BY <2>2 DEF Idle
  <2>4. client'[c] = r
    BY <2>2 DEF AdminInv, ClientShape
  <2>5. ~ Removing(c)'
    BY <2>3, <2>4 DEF At, Removing
  <2> QED BY <2>1, <2>2, <2>3, <2>5, GuardingKeeps DEF Guarding
<1>2. CASE ResetWrite(c)
  <2>1. End(c)
    BY <1>2 DEF ResetWrite
  <2>2. Kept
    <3>1. CASE WithinCeiling(c)
      <4>1. PICK set : set = [users[client[c].user] EXCEPT !.password = client[c].change]
        OBVIOUS
      <4>2. users' = [users EXCEPT ![client[c].user] = EndSessions(set)]
        BY <1>2, <3>1, <4>1 DEF ResetWrite
      <4>3. client[c].change \in Roles
        BY <1>2 DEF ResetWrite, AdminInv, Carried
      <4>4. ASSUME client[c].user \in Users
            PROVE set \in UserRecord /\ NotHanded(set) /\ (Strong(users[client[c].user]) => Strong(set))
        BY <3>1, <4>1, <4>3, <4>4, RowsTyped DEF UserRecord, NotHanded, Strong, Roles, WithinCeiling
      <4> QED BY <4>2, <4>4, EndSessionsRow, RowKept
    <3>2. CASE ~ WithinCeiling(c)
      BY <1>2, <3>2, SameUsersKept DEF ResetWrite
    <3> QED BY <3>1, <3>2
  <2> QED BY <2>1, <2>2, EndQuiet, QuietKeeps
<1> QED BY <1>1, <1>2

\* Offboarding.
LEMMA OffboardKeeps ==
    ASSUME AdminInv, NEW c \in Clients,
           \/ OffboardRead(c) \/ OffboardCheckAdmins(c) \/ OffboardLockUser(c)
           \/ OffboardGrant(c) \/ OffboardReadAssignments(c) \/ OffboardCommit(c)
    PROVE AdminInv'
<1>1. CASE OffboardRead(c)
  <2>1. Kept
    BY <1>1, SameUsersKept DEF OffboardRead, accessTables
  <2>2. PICK u, r :
          /\ u \in Users
          /\ r = [Idle EXCEPT !.op = "offboard", !.pc = "admins", !.user = u]
          /\ client' = [client EXCEPT ![c] = r]
    BY <1>1 DEF OffboardRead, Begin
  <2>3. DOMAIN r = DOMAIN Idle /\ r.locks = {} /\ r.op = "offboard" /\ r.pc = "admins" /\ r.user = u
    BY <2>2 DEF Idle
  <2>4. client'[c] = r
    BY <2>2 DEF AdminInv, ClientShape
  <2>5. ~ At(c, "reset", "write user")' /\ ~ Removing(c)'
    BY <2>3, <2>4 DEF At, Removing
  <2> QED BY <2>1, <2>2, <2>3, <2>5, GuardingKeeps DEF Guarding
<1>2. CASE OffboardCheckAdmins(c)
  <2>1. Kept
    BY <1>2, SameUsersKept DEF OffboardCheckAdmins, accessTables
  <2>2. CASE End(c)
    BY <2>1, <2>2, EndQuiet, QuietKeeps
  <2>3. CASE ~ End(c)
    <3>1. ~ RemovesLastAdmin(client[c].user, users[client[c].user].role = "ADMIN")
          /\ LockAdmins(c, "user row")
      BY <1>2, <2>3 DEF OffboardCheckAdmins
    <3>2. PICK r : /\ r = [client[c] EXCEPT !.pc = "user row", !.locks = client[c].locks \cup {AdminSet}]
                   /\ client' = [client EXCEPT ![c] = r]
      BY <3>1 DEF LockAdmins, WithAdminLock, AdminInv, ClientShape
    <3>3. /\ DOMAIN r = DOMAIN Idle /\ AdminSet \in r.locks /\ r.user = client[c].user
          /\ r.op = "offboard"
      BY <1>2, <3>2 DEF OffboardCheckAdmins, At, AdminInv, ClientShape, Idle
    <3>4. client'[c] = r
      BY <3>2 DEF AdminInv, ClientShape
    <3>5. Free(c, AdminSet)
      BY <1>2 DEF OffboardCheckAdmins, At, Waits, Wants
    <3>6. client[c].user \in Users
      BY <1>2 DEF OffboardCheckAdmins, AdminInv, Carried, At, Guarding
    <3>7. \E other \in Users \ {client[c].user} : UsableAdmin(other)
      BY <3>1, <3>6, CheckLeavesAnother DEF UsableAdmin
    <3>8. ~ At(c, "reset", "write user")'
      BY <3>3, <3>4 DEF At
    <3> QED BY <2>1, <3>2, <3>3, <3>5, <3>6, <3>7, <3>8, GuardingKeeps DEF Guarding
  <2> QED BY <2>2, <2>3
<1>3. CASE OffboardLockUser(c)
  <2>1. Kept
    BY <1>3, SameUsersKept DEF OffboardLockUser, accessTables
  <2>2. Removing(c) /\ client[c].op = "offboard"
    BY <1>3 DEF OffboardLockUser, Removing, At
  <2>3. PICK order : client' = [client EXCEPT ![c].pc = "offboard grants", ![c].ids = order,
                                              ![c].locks = WithRowLock(c)]
    BY <1>3 DEF OffboardLockUser
  <2>4. client[c].locks \subseteq WithRowLock(c)
    BY DEF WithRowLock
  <2>5. client' = [d \in Clients |-> client'[d]] /\ \A d \in Clients \ {c} : client'[d] = client[d]
    BY <2>3 DEF AdminInv, ClientShape
  <2>6. /\ DOMAIN client'[c] = DOMAIN client[c] /\ client[c].locks \subseteq client'[c].locks
        /\ client'[c].op = client[c].op /\ client'[c].user = client[c].user
    BY <2>3, <2>4 DEF AdminInv, ClientShape, Idle
  <2> QED BY <2>1, <2>2, <2>5, <2>6, OnwardKeeps
<1>4. CASE OffboardGrant(c)
  <2>1. Kept
    BY <1>4, SameUsersKept DEF OffboardGrant, accessTables
  <2>2. Removing(c) /\ client[c].op = "offboard"
    BY <1>4 DEF OffboardGrant, Removing, At
  <2>3. client' = [d \in Clients |-> client'[d]] /\ \A d \in Clients \ {c} : client'[d] = client[d]
    BY <1>4 DEF OffboardGrant, AdminInv, ClientShape
  <2>4. /\ DOMAIN client'[c] = DOMAIN client[c] /\ client[c].locks \subseteq client'[c].locks
        /\ client'[c].op = client[c].op /\ client'[c].user = client[c].user
    BY <1>4 DEF OffboardGrant, AdminInv, ClientShape, Idle
  <2> QED BY <2>1, <2>2, <2>3, <2>4, OnwardKeeps
<1>5. CASE OffboardReadAssignments(c)
  <2>1. Kept
    BY <1>5, SameUsersKept DEF OffboardReadAssignments, accessTables
  <2>2. Removing(c) /\ client[c].op = "offboard"
    BY <1>5 DEF OffboardReadAssignments, Removing, At
  <2>3. client' = [d \in Clients |-> client'[d]] /\ \A d \in Clients \ {c} : client'[d] = client[d]
    BY <1>5 DEF OffboardReadAssignments, AdminInv, ClientShape
  <2>4. /\ DOMAIN client'[c] = DOMAIN client[c] /\ client[c].locks \subseteq client'[c].locks
        /\ client'[c].op = client[c].op /\ client'[c].user = client[c].user
    BY <1>5 DEF OffboardReadAssignments, AdminInv, ClientShape, Idle
  <2> QED BY <2>1, <2>2, <2>3, <2>4, OnwardKeeps
<1>6. CASE OffboardCommit(c)
  <2>1. PICK deleted : deleted = [users[client[c].user] EXCEPT !.live = FALSE]
    OBVIOUS
  <2>2. users' = [users EXCEPT ![client[c].user] = EndSessions(deleted)] /\ End(c)
    BY <1>6, <2>1 DEF OffboardCommit
  <2>3. Removing(c) /\ client[c].user \in Users
    BY <1>6 DEF OffboardCommit, Removing, At, AdminInv, Carried, Guarding
  <2>4. deleted \in UserRecord /\ NotHanded(deleted)
    BY <2>1, <2>3, RowsTyped DEF UserRecord, NotHanded
  <2> QED BY <2>2, <2>3, <2>4, EndSessionsRow, RemovalKeeps
<1> QED BY <1>1, <1>2, <1>3, <1>4, <1>5, <1>6

\* UsersService.
LEMMA AccountStepKeeps ==
    ASSUME AdminInv, NEW c \in Clients, AccountStep(c)
    PROVE AdminInv'
<1>1. CASE SignOutEverywhere(c)
  <2>1. PICK u \in Users : users' = [users EXCEPT ![u] = EndSessions(users[u])]
    BY <1>1 DEF SignOutEverywhere, AdminInv
  <2>2. Kept
    BY <2>1, RowsTyped, EndSessionsRow, RowKept
  <2>3. client' = client
    BY <1>1 DEF SignOutEverywhere
  <2> QED BY <2>2, <2>3, UnchangedKeeps
<1>2. CASE RestoreUser(c)
  <2>1. PICK u, row : u \in Users /\ row = [users[u] EXCEPT !.live = TRUE] /\ users' = [users EXCEPT ![u] = row]
    BY <1>2 DEF RestoreUser, AdminInv
  <2>2. row \in UserRecord /\ NotHanded(row) /\ (Strong(users[u]) => Strong(row))
    BY <2>1, RowsTyped DEF UserRecord, NotHanded, Strong
  <2>3. Kept
    BY <2>1, <2>2, RowKept
  <2>4. client' = client
    BY <1>2 DEF RestoreUser
  <2> QED BY <2>3, <2>4, UnchangedKeeps
<1> QED
  BY <1>1, <1>2, UpdateKeeps, ResetKeeps, OffboardKeeps DEF AccountStep

-----------------------------------------------------------------------------
LEMMA AdminInit == Init => AdminInv
<1> SUFFICES ASSUME Init PROVE AdminInv
  OBVIOUS
<1>1. PICK s \in Starts : users = s.users
  BY DEF Init
<1>2. users \in [Users -> UserRecord] /\ LastAdmin /\ NoHandedAdmin
  BY <1>1, StartsAssumption DEF LastAdmin, NoHandedAdmin, UsableAdmin
<1>3. ClientShape /\ \A c \in Clients : client[c] = Idle
  BY DEF Init, ClientShape
<1>5. \A c \in Clients : client[c].op = "none" /\ client[c].locks = {} /\ client[c].pc = "idle"
  BY <1>3 DEF Idle
<1>4. Carried /\ Guarded
  BY <1>5 DEF Carried, Guarded, Removing, At, Guarding
<1> QED BY <1>2, <1>3, <1>4 DEF AdminInv

LEMMA AdminStep == AdminInv /\ [Next]_accessVars => AdminInv'
<1> SUFFICES ASSUME AdminInv, [Next]_accessVars PROVE AdminInv'
  OBVIOUS
<1>1. CASE Sweep
  <2>1. users' = users
    BY <1>1 DEF Sweep, accessTables
  <2>2. PICK g, plans : client' = [client EXCEPT ![Sweeper] = Revoking(<<g>>, plans)]
    BY <1>1 DEF Sweep
  <2>3. Unguarded(Revoking(<<g>>, plans))
    BY DEF Unguarded, Revoking, Idle, Guarding
  <2>4. Sweeper \in Clients
    BY AccessAssumption
  <2> QED BY <2>1, <2>2, <2>3, <2>4, SameUsersKept, ReplacedQuiet, QuietKeeps
<1>2. CASE TimePasses
  BY <1>2, SameUsersKept, UnchangedKeeps DEF TimePasses, grantOthers
<1>3. CASE TokenAges
  BY <1>3, SameUsersKept, UnchangedKeeps DEF TokenAges, oauthOthers
<1>4. ASSUME NEW c \in Clients, Fail(c)
      PROVE AdminInv'
  <2>1. users' = users /\ End(c)
    BY <1>4 DEF Fail, accessTables
  <2> QED BY <2>1, SameUsersKept, EndQuiet, QuietKeeps
<1>5. ASSUME NEW c \in Clients, Work(c)
      PROVE AdminInv'
  BY <1>5, AccountStepKeeps, GrantStepKeeps, RequestStepKeeps, AssignmentStepKeeps,
     VaultStepKeeps, OAuthStepKeeps DEF Work
<1>6. CASE UNCHANGED accessVars
  BY <1>6, SameUsersKept, UnchangedKeeps DEF accessVars, accessTables
<1> QED BY <1>1, <1>2, <1>3, <1>4, <1>5, <1>6 DEF Next

\* Someone can always administer the instance, for any people and handlers,
\* whatever demotions, deactivations, offboardings and failures cross.
THEOREM LastAdminHolds == Spec => []LastAdmin
<1>1. AdminInv => LastAdmin
  BY DEF AdminInv
<1> QED BY <1>1, AdminInit, AdminStep, PTL DEF Spec

\* Nobody is an administrator with a password that someone without that role
\* handed out, whatever promotions and resets cross.
THEOREM NoHandedAdminHolds == Spec => []NoHandedAdmin
<1>1. AdminInv => NoHandedAdmin
  BY DEF AdminInv
<1> QED BY <1>1, AdminInit, AdminStep, PTL DEF Spec

(***************************************************************************)
(* What a request in progress holds, row by row and lock by lock, and what   *)
(* follows of the tables: types, board of requests, revocations, releases,  *)
(* keys and offboardings, for any number of people, rows, handlers and       *)
(* failures.                                                                 *)
(***************************************************************************)

Kinds == {"none", "update", "reset", "offboard", "grant", "revoke", "request", "approve", "deny",
          "assign", "release", "create vault", "add member", "delete vault", "consent",
          "exchange", "refresh", "disconnect"}

\* The rows there are.
Known == [grants |-> DOMAIN grants, requests |-> DOMAIN requests,
          assignments |-> DOMAIN assignments, codes |-> DOMAIN codes,
          connections |-> DOMAIN connections, tokens |-> DOMAIN tokens]

Grown(known, after) ==
    /\ known.grants \subseteq after.grants /\ known.requests \subseteq after.requests
    /\ known.assignments \subseteq after.assignments /\ known.codes \subseteq after.codes
    /\ known.connections \subseteq after.connections /\ known.tokens \subseteq after.tokens

Named(ids, rows) == ids \in Seq(rows) /\ ids # <<>>

OfPerson == {"update", "reset", "offboard", "grant", "request", "approve", "assign",
             "create vault", "add member", "consent", "exchange"}

\* What a request is about.
Subject(x, known) ==
    /\ x.op \in OfPerson => x.user \in Users
    /\ x.op \in {"grant", "request", "approve"} => x.of \in Apps
    /\ x.op = "assign" => x.of \in Assets
    /\ x.op \in {"create vault", "add member", "delete vault"} => x.of \in Vaults
    /\ x.op \in {"approve", "deny"} => Named(x.ids, known.requests)
    /\ x.op = "release" => Named(x.ids, known.assignments)
    /\ x.op = "exchange" => Named(x.ids, known.codes)
    /\ x.op = "refresh" => Named(x.ids, known.tokens)
    /\ x.op = "disconnect" => Named(x.ids, known.connections)
    /\ x.op \in {"revoke", "offboard"} => x.ids \in Seq(known.grants)

\* What a request has staged, and the locks it holds since.
Staging(x, known) ==
    /\ x.plans \subseteq Apps
    /\ x.op \notin {"revoke", "offboard", "disconnect"} => x.staged = {}
    /\ x.op # "revoke" => x.fired = {}
    /\ x.op # "offboard" => x.reclaim = {}
    /\ x.op = "disconnect" => x.staged \subseteq known.tokens
    /\ x.op \in {"revoke", "offboard"} =>
         x.staged \subseteq known.grants /\ \A g \in x.staged : GrantRow(g) \in x.locks
    /\ x.fired \subseteq x.staged /\ x.reclaim \subseteq known.assignments

\* Where a request stands.
Standing(x) ==
    /\ x.op = "none" => x.pc = "idle"
    /\ x.op = "revoke" => x.pc \in {"revoke", "count"}
    /\ x.op = "revoke" /\ x.pc = "count" => x.ids # <<>> /\ Head(x.ids) \in x.staged
    /\ x.op = "offboard" => x.pc \in {"admins", "user row", "offboard grants", "offboard commit"}
    /\ x.op = "offboard" /\ x.pc \in {"offboard grants", "offboard commit"} =>
         UserRow(x.user) \in x.locks
    /\ x.op = "offboard" /\ x.pc = "offboard commit" => x.ids = <<>>
    /\ x.op = "add member" /\ x.pc = "insert" => VaultShare(x.of) \in x.locks
    /\ x.op = "refresh" /\ x.pc = "rotate" => TokenRow(Head(x.ids)) \in x.locks
    /\ x.op = "disconnect" /\ x.pc = "delete tokens" => ConnectionRow(Head(x.ids)) \in x.locks

Holds(x, known) ==
    /\ DOMAIN x = DOMAIN Idle
    /\ x.op \in Kinds /\ x.user \in Users \cup {NoOne} /\ x.seen \in Nat
    /\ x.of \in Apps \cup Assets \cup Vaults \cup {NoOne}
    /\ Subject(x, known) /\ Staging(x, known) /\ Standing(x)

GrantsTyped == grants \in Seq(GrantRecord)

RequestsTyped ==
    /\ requests \in Seq(RequestRecord)
    /\ \A i \in DOMAIN requests : requests[i].grant \in 0 .. Len(grants)

AssignmentsTyped == assignments \in Seq(AssignmentRecord)

VaultsTyped == vaults \in [Vaults -> VaultRecord] /\ members \subseteq Vaults \X Users

OAuthTyped ==
    /\ codes \in Seq(CodeRecord)
    /\ \A i \in DOMAIN codes : codes[i].connection \in 0 .. Len(connections)
    /\ connections \in Seq(ConnectionRecord)
    /\ tokens \in Seq(TokenRecord)
    /\ \A t \in DOMAIN tokens : tokens[t].connection \in DOMAIN connections

TablesTyped == GrantsTyped /\ RequestsTyped /\ AssignmentsTyped /\ VaultsTyped /\ OAuthTyped

IsShare(lock) == lock[1] = "vault"

\* A row has one holder.
Exclusive ==
    \A c, d \in Clients : c # d =>
        \A lock \in client[c].locks : IsShare(lock) \/ lock \notin client[d].locks

AccessInv ==
    /\ AdminInv
    /\ TablesTyped
    /\ \A c \in Clients : Holds(client[c], Known)
    /\ Exclusive

-----------------------------------------------------------------------------
(***************************************************************************)
(* Sequences.                                                              *)
(***************************************************************************)
LEMMA Changed1 ==
    ASSUME NEW S, NEW s \in Seq(S), NEW t, t = [i \in DOMAIN s |-> t[i]],
           \A i \in DOMAIN s : t[i] \in S
    PROVE  t \in Seq(S) /\ Len(t) = Len(s) /\ DOMAIN t = DOMAIN s
<1>1. Len(s) \in Nat /\ DOMAIN s = 1 .. Len(s)
  BY LenProperties
<1>2. t \in [1 .. Len(s) -> S]
  BY <1>1
<1>3. t \in Seq(S)
  BY <1>1, <1>2, SeqDef
<1>4. Len(t) \in Nat /\ DOMAIN t = 1 .. Len(t)
  BY <1>3, LenProperties
<1>5. Len(t) = Len(s)
  BY <1>1, <1>2, <1>4
<1> QED BY <1>3, <1>5, <1>1, <1>4

LEMMA OneMore ==
    ASSUME NEW S, NEW s \in Seq(S), NEW e \in S
    PROVE  /\ Append(s, e) \in Seq(S)
           /\ Len(Append(s, e)) = Len(s) + 1 /\ Len(s) + 1 \in Nat
           /\ DOMAIN Append(s, e) = DOMAIN s \cup {Len(s) + 1}
           /\ \A i \in DOMAIN s : Append(s, e)[i] = s[i]
           /\ Append(s, e)[Len(s) + 1] = e
           /\ Len(s) + 1 \notin DOMAIN s
<1>1. Len(s) \in Nat /\ DOMAIN s = 1 .. Len(s)
  BY LenProperties
<1>2. Append(s, e) \in Seq(S) /\ Len(Append(s, e)) = Len(s) + 1
  BY AppendProperties
<1>3. DOMAIN Append(s, e) = 1 .. Len(s) + 1
  BY <1>2, LenProperties
<1>4. \A i \in 1 .. Len(s) : Append(s, e)[i] = s[i]
  BY AppendProperties
<1>5. Append(s, e)[Len(s) + 1] = e
  BY AppendProperties
<1> QED BY <1>1, <1>2, <1>3, <1>4, <1>5

\* The first of the rows a request names, and the rest.
LEMMA FirstNamed ==
    ASSUME NEW S, NEW s \in Seq(S), s # <<>>
    PROVE  Head(s) \in S /\ Tail(s) \in Seq(S)
BY HeadTailProperties

LEMMA OneNamed == ASSUME NEW S, NEW e \in S PROVE Named(<<e>>, S)
BY DEF Named

LEMMA MoreNamed == ASSUME NEW S, NEW T, S \subseteq T, NEW s \in Seq(S) PROVE s \in Seq(T)
<1>1. Len(s) \in Nat /\ s \in [1 .. Len(s) -> S]
  BY LenProperties
<1> QED BY <1>1, SeqDef

-----------------------------------------------------------------------------
(***************************************************************************)
(* Which steps write which table.                                          *)
(***************************************************************************)
LEMMA AccountWrites ==
    ASSUME NEW c \in Clients, AccountStep(c)
    PROVE  /\ UNCHANGED <<requests, vaults, oauthTables, mix>>
           /\ OffboardCommit(c) \/ UNCHANGED <<grants, assignments, members>>
           /\ \/ UNCHANGED users
              \/ UpdateWrite(c) \/ ResetWrite(c) \/ OffboardCommit(c)
              \/ SignOutEverywhere(c) \/ RestoreUser(c)
BY DEF AccountStep, UpdateRead, UpdateCheckAdmins, UpdateWrite, ResetRead, ResetWrite,
       OffboardRead, OffboardCheckAdmins, OffboardLockUser, OffboardGrant,
       OffboardReadAssignments, OffboardCommit, SignOutEverywhere, RestoreUser,
       accessTables, accountOthers, oauthTables, bounds, Begin

LEMMA GrantWrites ==
    ASSUME NEW c \in Clients, GrantStep(c)
    PROVE  /\ UNCHANGED <<users, requests, assignments, vaults, members, oauthTables, mix>>
           /\ UNCHANGED grants \/ GrantWrite(c) \/ UpdateExpiry(c) \/ RevokeCommit(c)
BY DEF GrantStep, GrantCheck, GrantWrite, UpdateExpiry, RevokeRead, RevokeCas, RevokeCount,
       RevokeCommit, accessTables, grantOthers, oauthTables, bounds, Begin

LEMMA RequestWrites ==
    ASSUME NEW c \in Clients, RequestStep(c)
    PROVE  /\ UNCHANGED <<users, assignments, vaults, members, oauthTables, mix>>
           /\ UNCHANGED <<grants, requests>> \/ RequestInsert(c) \/ ApproveCommit(c) \/ DenyCommit(c)
           /\ UNCHANGED grants \/ ApproveCommit(c)
BY DEF RequestStep, RequestCheck, RequestInsert, ApproveCheck, ApproveCommit, DenyCheck,
       DenyCommit, accessTables, requestOthers, oauthTables, bounds, Begin

LEMMA AssignmentWrites ==
    ASSUME NEW c \in Clients, AssignmentStep(c)
    PROVE  /\ UNCHANGED <<users, grants, requests, vaults, members, oauthTables, mix>>
           /\ UNCHANGED assignments \/ AssignWrite(c) \/ ReleaseCommit(c) \/ Acknowledge(c)
BY DEF AssignmentStep, AssignCheck, AssignWrite, ReleaseRead, ReleaseCommit, Acknowledge,
       accessTables, assignmentOthers, oauthTables, bounds, Begin

LEMMA VaultWrites ==
    ASSUME NEW c \in Clients, VaultStep(c)
    PROVE  /\ UNCHANGED <<users, grants, requests, assignments, oauthTables, mix>>
           /\ \/ UNCHANGED <<vaults, members>>
              \/ CreateVaultWrite(c) \/ AddMemberWrite(c) \/ RevokeMember(c) \/ DeleteVault(c)
BY DEF VaultStep, CreateVaultCheck, CreateVaultWrite, AddMemberCheck, AddMemberShareVault,
       AddMemberWrite, RevokeMember, DeleteVaultCheck, DeleteVault, accessTables, vaultOthers,
       oauthTables, bounds, Begin

LEMMA OAuthWrites ==
    ASSUME NEW c \in Clients, OAuthStep(c)
    PROVE  /\ UNCHANGED <<users, grants, requests, assignments, vaults, members, mix>>
           /\ \/ UNCHANGED oauthTables
              \/ ConsentWrite(c) \/ ExchangeBurn(c) \/ ExchangeConnect(c) \/ RefreshCommit(c)
              \/ DisconnectCommit(c)
BY DEF OAuthStep, ConsentCheck, ConsentWrite, ExchangeRead, ExchangeBurn, ExchangeLoad,
       ExchangeConnect, ExchangeReplay, RefreshRead, RefreshBurn, RefreshCommit,
       DisconnectRead, DisconnectLock, DisconnectCommit, accessTables, oauthOthers,
       oauthTables, bounds, Begin

LEMMA AloneWrites ==
    /\ Sweep => UNCHANGED <<accessTables, mix>>
    /\ TimePasses => UNCHANGED <<users, requests, assignments, vaults, members, oauthTables, client, mix>>
    /\ TokenAges => UNCHANGED <<users, grants, requests, assignments, vaults, members, codes,
                                connections, client, mix>>
    /\ \A c \in Clients : Fail(c) => UNCHANGED <<accessTables, mix>> /\ End(c)
BY DEF Sweep, TimePasses, TokenAges, Fail, accessTables, grantOthers, oauthOthers, oauthTables,
       bounds

\* Every step, by the table it may write.
LEMMA Writes ==
    ASSUME [Next]_accessVars
    PROVE  /\ UNCHANGED mix
           /\ \/ UNCHANGED users
              \/ \E c \in Clients : UpdateWrite(c) \/ ResetWrite(c) \/ OffboardCommit(c)
                                     \/ SignOutEverywhere(c) \/ RestoreUser(c)
           /\ \/ UNCHANGED grants \/ TimePasses
              \/ \E c \in Clients : GrantWrite(c) \/ UpdateExpiry(c) \/ RevokeCommit(c)
                                     \/ ApproveCommit(c) \/ OffboardCommit(c)
           /\ \/ UNCHANGED requests
              \/ \E c \in Clients : RequestInsert(c) \/ ApproveCommit(c) \/ DenyCommit(c)
           /\ \/ UNCHANGED assignments
              \/ \E c \in Clients : AssignWrite(c) \/ ReleaseCommit(c) \/ Acknowledge(c)
                                     \/ OffboardCommit(c)
           /\ \/ UNCHANGED <<vaults, members>>
              \/ \E c \in Clients : CreateVaultWrite(c) \/ AddMemberWrite(c) \/ RevokeMember(c)
                                     \/ DeleteVault(c) \/ OffboardCommit(c)
           /\ \/ UNCHANGED oauthTables \/ TokenAges
              \/ \E c \in Clients : ConsentWrite(c) \/ ExchangeBurn(c) \/ ExchangeConnect(c)
                                     \/ RefreshCommit(c) \/ DisconnectCommit(c)
<1>1. CASE UNCHANGED accessVars
  BY <1>1 DEF accessVars, accessTables
<1>2. CASE Sweep \/ TimePasses \/ TokenAges
  BY <1>2, AloneWrites DEF accessTables, oauthTables
<1>3. ASSUME NEW c \in Clients, Fail(c) PROVE UNCHANGED <<accessTables, mix>>
  BY <1>3, AloneWrites
<1>4. ASSUME NEW c \in Clients, AccountStep(c)
      PROVE  /\ UNCHANGED <<requests, vaults, oauthTables, mix>>
             /\ OffboardCommit(c) \/ UNCHANGED <<grants, assignments, members>>
             /\ \/ UNCHANGED users
                \/ UpdateWrite(c) \/ ResetWrite(c) \/ OffboardCommit(c)
                \/ SignOutEverywhere(c) \/ RestoreUser(c)
  BY <1>4, AccountWrites
<1>5. ASSUME NEW c \in Clients, GrantStep(c)
      PROVE  /\ UNCHANGED <<users, requests, assignments, vaults, members, oauthTables, mix>>
             /\ UNCHANGED grants \/ GrantWrite(c) \/ UpdateExpiry(c) \/ RevokeCommit(c)
  BY <1>5, GrantWrites
<1>6. ASSUME NEW c \in Clients, RequestStep(c)
      PROVE  /\ UNCHANGED <<users, assignments, vaults, members, oauthTables, mix>>
             /\ \/ UNCHANGED <<grants, requests>>
                \/ RequestInsert(c) \/ ApproveCommit(c) \/ DenyCommit(c)
             /\ UNCHANGED grants \/ ApproveCommit(c)
  BY <1>6, RequestWrites
<1>7. ASSUME NEW c \in Clients, AssignmentStep(c)
      PROVE  /\ UNCHANGED <<users, grants, requests, vaults, members, oauthTables, mix>>
             /\ UNCHANGED assignments \/ AssignWrite(c) \/ ReleaseCommit(c) \/ Acknowledge(c)
  BY <1>7, AssignmentWrites
<1>8. ASSUME NEW c \in Clients, VaultStep(c)
      PROVE  /\ UNCHANGED <<users, grants, requests, assignments, oauthTables, mix>>
             /\ \/ UNCHANGED <<vaults, members>>
                \/ CreateVaultWrite(c) \/ AddMemberWrite(c) \/ RevokeMember(c) \/ DeleteVault(c)
  BY <1>8, VaultWrites
<1>9. ASSUME NEW c \in Clients, OAuthStep(c)
      PROVE  /\ UNCHANGED <<users, grants, requests, assignments, vaults, members, mix>>
             /\ \/ UNCHANGED oauthTables
                \/ ConsentWrite(c) \/ ExchangeBurn(c) \/ ExchangeConnect(c) \/ RefreshCommit(c)
                \/ DisconnectCommit(c)
  BY <1>9, OAuthWrites
<1>10. CASE \E c \in Clients : Work(c) \/ Fail(c)
  <2>1. PICK c \in Clients : Work(c) \/ Fail(c)
    BY <1>10
  <2>2. CASE Fail(c)
    BY <2>2, <1>3 DEF accessTables
  <2>3. CASE AccountStep(c)
    BY <2>3, <1>4
  <2>4. CASE GrantStep(c)
    BY <2>4, <1>5
  <2>5. CASE RequestStep(c)
    BY <2>5, <1>6
  <2>6. CASE AssignmentStep(c)
    BY <2>6, <1>7
  <2>7. CASE VaultStep(c)
    BY <2>7, <1>8
  <2>8. CASE OAuthStep(c)
    BY <2>8, <1>9
  <2> QED BY <2>1, <2>2, <2>3, <2>4, <2>5, <2>6, <2>7, <2>8 DEF Work
<1> QED BY <1>1, <1>2, <1>10 DEF Next

-----------------------------------------------------------------------------
(***************************************************************************)
(* The tables keep their types, and no row is lost.                        *)
(***************************************************************************)
LEMMA Carries ==
    ASSUME AccessInv, NEW c \in Clients
    PROVE  Holds(client[c], Known)
BY DEF AccessInv

LEMMA GrantRows ==
    ASSUME GrantsTyped
    PROVE  /\ Len(grants) \in Nat /\ DOMAIN grants = 1 .. Len(grants)
           /\ \A g \in DOMAIN grants : grants[g] \in GrantRecord
BY LenProperties, ElementOfSeq DEF GrantsTyped

LEMMA NewGrantTyped ==
    ASSUME NEW u \in Users, NEW a \in Apps, NEW plans
    PROVE  NewGrant(u, a, plans) \in GrantRecord
<1>1. (IF a \in plans THEN {"granted"} ELSE {}) \in SUBSET {"granted", "revoked"}
  OBVIOUS
<1> QED BY <1>1 DEF NewGrant, GrantRecord

\* Grants are only added, and keep whom and what they are for.
GrantsGrow ==
    /\ GrantsTyped'
    /\ Len(grants) <= Len(grants') /\ DOMAIN grants \subseteq DOMAIN grants'
    /\ \A g \in DOMAIN grants : grants'[g].user = grants[g].user /\ grants'[g].of = grants[g].of

LEMMA SameGrantsGrow == ASSUME GrantsTyped, UNCHANGED grants PROVE GrantsGrow
BY GrantRows DEF GrantsGrow, GrantsTyped

LEMMA AddedGrantGrows ==
    ASSUME GrantsTyped, NEW u \in Users, NEW a \in Apps, NEW plans,
           grants' = Append(grants, NewGrant(u, a, plans))
    PROVE  GrantsGrow
<1> DEFINE r == NewGrant(u, a, plans)
<1>1. r \in GrantRecord /\ grants \in Seq(GrantRecord) /\ grants' = Append(grants, r)
  BY NewGrantTyped DEF GrantsTyped
<1> HIDE DEF r
<1>2. Len(grants) \in Nat
  BY GrantRows
<1> QED BY <1>1, <1>2, OneMore DEF GrantsGrow, GrantsTyped

LEMMA ChangedGrantsGrow ==
    ASSUME GrantsTyped, grants' = [g \in DOMAIN grants |-> grants'[g]],
           \A g \in DOMAIN grants : /\ grants'[g] \in GrantRecord
                                    /\ grants'[g].user = grants[g].user
                                    /\ grants'[g].of = grants[g].of
    PROVE  GrantsGrow
<1>1. grants \in Seq(GrantRecord) /\ Len(grants) \in Nat
  BY GrantRows DEF GrantsTyped
<1>2. grants' \in Seq(GrantRecord) /\ Len(grants') = Len(grants) /\ DOMAIN grants' = DOMAIN grants
  BY <1>1, Changed1
<1> QED BY <1>1, <1>2 DEF GrantsGrow, GrantsTyped

LEMMA ExpiryGrows ==
    ASSUME GrantsTyped, NEW g \in DOMAIN grants, NEW e \in {"never", "later", "due"},
           grants' = [grants EXCEPT ![g].expiry = e]
    PROVE  GrantsGrow
<1>1. grants[g] \in GrantRecord /\ \A h \in DOMAIN grants : grants[h] \in GrantRecord
  BY GrantRows
<1>2. grants' = [h \in DOMAIN grants |-> grants'[h]]
  OBVIOUS
<1>3. \A h \in DOMAIN grants : h # g => grants'[h] = grants[h]
  OBVIOUS
<1>4. grants'[g] = [grants[g] EXCEPT !.expiry = e]
  OBVIOUS
<1>5. grants'[g] \in GrantRecord /\ grants'[g].user = grants[g].user /\ grants'[g].of = grants[g].of
  BY <1>1, <1>4 DEF GrantRecord
<1> QED BY <1>1, <1>2, <1>3, <1>5, ChangedGrantsGrow

LEMMA GrantsTypedStep ==
    ASSUME AccessInv, [Next]_accessVars
    PROVE  GrantsGrow
<1>1. GrantsTyped
  BY DEF AccessInv, TablesTyped
<1>2. CASE UNCHANGED grants
  BY <1>1, <1>2, SameGrantsGrow
<1>3. CASE TimePasses
  BY <1>1, <1>3, ExpiryGrows DEF TimePasses
<1>4. ASSUME NEW c \in Clients, GrantWrite(c) PROVE GrantsGrow
  <2>1. client[c].user \in Users /\ client[c].of \in Apps
    BY <1>4, Carries DEF Holds, Subject, OfPerson, GrantWrite, At
  <2> QED BY <2>1, <1>1, <1>4, AddedGrantGrows DEF GrantWrite
<1>5. ASSUME NEW c \in Clients, UpdateExpiry(c) PROVE GrantsGrow
  BY <1>1, <1>5, ExpiryGrows DEF UpdateExpiry
<1>6. ASSUME NEW c \in Clients, RevokeCommit(c) PROVE GrantsGrow
  <2>1. grants' = [g \in DOMAIN grants |-> grants'[g]]
    BY <1>6 DEF RevokeCommit
  <2>2. ASSUME NEW g \in DOMAIN grants
        PROVE  /\ grants'[g] \in GrantRecord
               /\ grants'[g].user = grants[g].user /\ grants'[g].of = grants[g].of
    <3>1. grants[g] \in GrantRecord
      BY <1>1, GrantRows
    <3>2. CASE g \notin client[c].staged
      BY <1>6, <3>1, <3>2 DEF RevokeCommit
    <3>3. CASE g \in client[c].staged
      <4> DEFINE how == IF grants[g].of \in client[c].plans THEN "revoke" ELSE "unplanned"
                 rs == IF g \in client[c].fired THEN grants[g].runs \cup {"revoked"}
                                                ELSE grants[g].runs
      <4>1. grants'[g] = [grants[g] EXCEPT !.state = "revoked", !.by = c, !.how = how, !.runs = rs]
        BY <1>6, <3>3 DEF RevokeCommit, Actor
      <4>2. how \in {"none", "revoke", "unplanned", "offboard"} /\ rs \in SUBSET {"granted", "revoked"}
        BY <3>1 DEF GrantRecord
      <4> HIDE DEF how, rs
      <4> QED BY <3>1, <4>1, <4>2 DEF GrantRecord
    <3> QED BY <3>2, <3>3
  <2> QED BY <1>1, <2>1, <2>2, ChangedGrantsGrow
<1>7. ASSUME NEW c \in Clients, ApproveCommit(c) PROVE GrantsGrow
  <2>1. client[c].user \in Users /\ client[c].of \in Apps
    BY <1>7, Carries DEF Holds, Subject, OfPerson, ApproveCommit, At
  <2> QED BY <2>1, <1>1, <1>7, AddedGrantGrows, SameGrantsGrow DEF ApproveCommit
<1>8. ASSUME NEW c \in Clients, OffboardCommit(c) PROVE GrantsGrow
  <2>1. grants' = [g \in DOMAIN grants |-> grants'[g]]
    BY <1>8 DEF OffboardCommit
  <2>2. ASSUME NEW g \in DOMAIN grants
        PROVE  /\ grants'[g] \in GrantRecord
               /\ grants'[g].user = grants[g].user /\ grants'[g].of = grants[g].of
    <3>1. grants[g] \in GrantRecord
      BY <1>1, GrantRows
    <3>2. CASE g \notin client[c].staged
      BY <1>8, <3>1, <3>2 DEF OffboardCommit
    <3>3. CASE g \in client[c].staged
      <4>1. grants'[g] = [grants[g] EXCEPT !.state = "revoked", !.by = c, !.how = "offboard"]
        BY <1>8, <3>3 DEF OffboardCommit
      <4> QED BY <3>1, <4>1 DEF GrantRecord
    <3> QED BY <3>2, <3>3
  <2> QED BY <1>1, <2>1, <2>2, ChangedGrantsGrow
<1> QED BY <1>2, <1>3, <1>4, <1>5, <1>6, <1>7, <1>8, Writes

LEMMA RequestRows ==
    ASSUME RequestsTyped
    PROVE  /\ Len(requests) \in Nat /\ DOMAIN requests = 1 .. Len(requests)
           /\ \A i \in DOMAIN requests : requests[i] \in RequestRecord
BY LenProperties, ElementOfSeq DEF RequestsTyped

LEMMA RequestsTypedStep ==
    ASSUME AccessInv, [Next]_accessVars
    PROVE  RequestsTyped' /\ DOMAIN requests \subseteq DOMAIN requests'
<1>1. RequestsTyped /\ requests \in Seq(RequestRecord)
  BY DEF AccessInv, TablesTyped, RequestsTyped
<1>2. /\ Len(grants) \in Nat /\ Len(grants') \in Nat /\ Len(grants) <= Len(grants')
      /\ \A i \in DOMAIN requests : requests[i].grant \in 0 .. Len(grants)
  <2>1. GrantsTyped /\ GrantsTyped' /\ Len(grants) <= Len(grants')
    BY GrantsTypedStep DEF AccessInv, TablesTyped, GrantsGrow
  <2>2. Len(grants) \in Nat /\ Len(grants') \in Nat
    BY <2>1, LenProperties DEF GrantsTyped
  <2> QED BY <1>1, <2>1, <2>2 DEF RequestsTyped
<1>3. \A i \in DOMAIN requests : requests[i].grant \in 0 .. Len(grants')
  BY <1>2
<1>4. CASE UNCHANGED requests
  BY <1>1, <1>3, <1>4 DEF RequestsTyped
<1>5. ASSUME NEW c \in Clients, RequestInsert(c)
      PROVE  RequestsTyped' /\ DOMAIN requests \subseteq DOMAIN requests'
  <2> DEFINE row == [status |-> "PENDING", user |-> client[c].user, of |-> client[c].of, grant |-> 0]
  <2>1. client[c].user \in Users /\ client[c].of \in Apps
    BY <1>5, Carries DEF Holds, Subject, OfPerson, RequestInsert, At
  <2>2. row \in RequestRecord /\ row.grant = 0
    BY <2>1 DEF RequestRecord
  <2>3. requests' = requests \/ requests' = Append(requests, row)
    BY <1>5 DEF RequestInsert
  <2>4. CASE requests' = Append(requests, row)
    <3> HIDE DEF row
    <3>1. /\ requests' \in Seq(RequestRecord)
          /\ DOMAIN requests' = DOMAIN requests \cup {Len(requests) + 1}
          /\ \A i \in DOMAIN requests : requests'[i] = requests[i]
          /\ requests'[Len(requests) + 1] = row
      BY <1>1, <2>2, <2>4, OneMore
    <3>2. \A i \in DOMAIN requests' : requests'[i].grant \in 0 .. Len(grants')
      BY <3>1, <2>2, <1>2, <1>3
    <3> QED BY <3>1, <3>2 DEF RequestsTyped
  <2> QED BY <2>3, <2>4, <1>4
<1>6. ASSUME NEW i \in DOMAIN requests, NEW s \in {"PENDING", "APPROVED", "DENIED"},
             NEW g \in 0 .. Len(grants'),
             requests' = [requests EXCEPT ![i].status = s, ![i].grant = g]
      PROVE  RequestsTyped' /\ DOMAIN requests \subseteq DOMAIN requests'
  <2>1. \A j \in DOMAIN requests : requests[j] \in RequestRecord
    BY <1>1, RequestRows
  <2>2. g \in Nat
    BY <1>2
  <2>3. requests' = [j \in DOMAIN requests |-> requests'[j]]
    BY <1>6
  <2>4. \A j \in DOMAIN requests : j # i => requests'[j] = requests[j]
    BY <1>6
  <2>5. requests'[i] = [requests[i] EXCEPT !.status = s, !.grant = g]
    BY <1>6
  <2>6. requests'[i] \in RequestRecord /\ requests'[i].grant = g
    BY <2>1, <2>2, <2>5 DEF RequestRecord
  <2>7. requests' \in Seq(RequestRecord) /\ DOMAIN requests' = DOMAIN requests
    BY <1>1, <2>1, <2>3, <2>4, <2>6, Changed1
  <2>8. \A j \in DOMAIN requests : requests'[j].grant \in 0 .. Len(grants')
    BY <1>3, <2>4, <2>6
  <2> QED BY <2>7, <2>8 DEF RequestsTyped
<1>7. ASSUME NEW c \in Clients, ApproveCommit(c)
      PROVE  RequestsTyped' /\ DOMAIN requests \subseteq DOMAIN requests'
  <2>1. Head(client[c].ids) \in DOMAIN requests
    BY <1>7, Carries, FirstNamed DEF Holds, Subject, Named, Known, ApproveCommit, At
  <2>2. Len(grants') \in 0 .. Len(grants')
    BY <1>2
  <2> QED BY <2>1, <2>2, <1>4, <1>6, <1>7 DEF ApproveCommit
<1>8. ASSUME NEW c \in Clients, DenyCommit(c)
      PROVE  RequestsTyped' /\ DOMAIN requests \subseteq DOMAIN requests'
  <2> DEFINE i == Head(client[c].ids)
  <2>1. i \in DOMAIN requests
    BY <1>8, Carries, FirstNamed DEF Holds, Subject, Named, Known, DenyCommit, At
  <2>2. requests[i] \in RequestRecord /\ requests[i].grant \in 0 .. Len(grants')
    BY <2>1, <1>1, <1>3, RequestRows
  <2>3. requests' = requests \/ requests' = [requests EXCEPT ![i].status = "DENIED"]
    BY <1>8 DEF DenyCommit
  <2>4. CASE requests' = [requests EXCEPT ![i].status = "DENIED"]
    <3>1. requests' = [requests EXCEPT ![i].status = "DENIED", ![i].grant = requests[i].grant]
      BY <2>1, <2>2, <2>4 DEF RequestRecord
    <3> HIDE DEF i
    <3> QED BY <2>1, <2>2, <3>1, <1>6
  <2> QED BY <2>3, <2>4, <1>4
<1> QED BY <1>4, <1>5, <1>7, <1>8, Writes

LEMMA AssignmentRows ==
    ASSUME AssignmentsTyped
    PROVE  /\ Len(assignments) \in Nat /\ DOMAIN assignments = 1 .. Len(assignments)
           /\ \A a \in DOMAIN assignments : assignments[a] \in AssignmentRecord
BY LenProperties, ElementOfSeq DEF AssignmentsTyped

LEMMA ReleasedRow ==
    ASSUME NEW row \in AssignmentRecord
    PROVE  /\ [row EXCEPT !.active = FALSE, !.releases = @ + 1] \in AssignmentRecord
           /\ [row EXCEPT !.acked = TRUE] \in AssignmentRecord
<1> DEFINE n == row.releases + 1
<1>1. n \in Nat
  BY DEF AssignmentRecord
<1> HIDE DEF n
<1>2. [row EXCEPT !.active = FALSE, !.releases = n] \in AssignmentRecord
  BY <1>1 DEF AssignmentRecord
<1>3. [row EXCEPT !.acked = TRUE] \in AssignmentRecord
  BY DEF AssignmentRecord
<1> QED BY <1>2, <1>3 DEF n

LEMMA AssignmentsTypedStep ==
    ASSUME AccessInv, [Next]_accessVars
    PROVE  AssignmentsTyped' /\ DOMAIN assignments \subseteq DOMAIN assignments'
<1>1. assignments \in Seq(AssignmentRecord)
      /\ \A a \in DOMAIN assignments : assignments[a] \in AssignmentRecord
  BY AssignmentRows DEF AccessInv, TablesTyped, AssignmentsTyped
<1>2. CASE UNCHANGED assignments
  BY <1>1, <1>2 DEF AssignmentsTyped
<1>3. ASSUME assignments' = [a \in DOMAIN assignments |-> assignments'[a]],
             \A a \in DOMAIN assignments : assignments'[a] \in AssignmentRecord
      PROVE  AssignmentsTyped' /\ DOMAIN assignments \subseteq DOMAIN assignments'
  BY <1>1, <1>3, Changed1 DEF AssignmentsTyped
<1>4. ASSUME NEW c \in Clients, AssignWrite(c)
      PROVE  AssignmentsTyped' /\ DOMAIN assignments \subseteq DOMAIN assignments'
  <2> DEFINE row == [active |-> TRUE, user |-> client[c].user, asset |-> client[c].of,
                     releases |-> 0, acked |-> FALSE]
  <2>1. client[c].user \in Users /\ client[c].of \in Assets
    BY <1>4, Carries DEF Holds, Subject, OfPerson, AssignWrite, At
  <2>2. row \in AssignmentRecord
    BY <2>1 DEF AssignmentRecord
  <2>3. assignments' = assignments \/ assignments' = Append(assignments, row)
    BY <1>4 DEF AssignWrite
  <2> HIDE DEF row
  <2>4. CASE assignments' = Append(assignments, row)
    BY <1>1, <2>2, <2>4, OneMore DEF AssignmentsTyped
  <2> QED BY <2>3, <2>4, <1>2
<1>5. ASSUME NEW c \in Clients, ReleaseCommit(c)
      PROVE  AssignmentsTyped' /\ DOMAIN assignments \subseteq DOMAIN assignments'
  <2> DEFINE i == Head(client[c].ids)
  <2>1. i \in DOMAIN assignments
    BY <1>5, Carries, FirstNamed DEF Holds, Subject, Named, Known, ReleaseCommit, At
  <2>2. \/ assignments' = assignments
        \/ assignments' = [assignments EXCEPT ![i].active = FALSE, ![i].releases = @ + 1]
    BY <1>5 DEF ReleaseCommit
  <2> HIDE DEF i
  <2>3. CASE assignments' = [assignments EXCEPT ![i].active = FALSE, ![i].releases = @ + 1]
    <3>1. assignments' = [a \in DOMAIN assignments |-> assignments'[a]]
      BY <2>3
    <3>2. assignments'[i] = [assignments[i] EXCEPT !.active = FALSE, !.releases = @ + 1]
      BY <2>1, <2>3
    <3>3. \A a \in DOMAIN assignments : a # i => assignments'[a] = assignments[a]
      BY <2>3
    <3>4. \A a \in DOMAIN assignments : assignments'[a] \in AssignmentRecord
      <4>1. assignments[i] \in AssignmentRecord
        BY <1>1, <2>1
      <4>2. assignments'[i] \in AssignmentRecord
        BY <3>2, <4>1, ReleasedRow
      <4> QED BY <1>1, <3>3, <4>2
    <3> QED BY <3>1, <3>4, <1>3
  <2> QED BY <2>2, <2>3, <1>2
<1>6. ASSUME NEW c \in Clients, Acknowledge(c)
      PROVE  AssignmentsTyped' /\ DOMAIN assignments \subseteq DOMAIN assignments'
  <2>1. PICK i \in DOMAIN assignments : assignments' = [assignments EXCEPT ![i].acked = TRUE]
    BY <1>6 DEF Acknowledge
  <2>2. assignments' = [a \in DOMAIN assignments |-> assignments'[a]]
    BY <2>1
  <2>3. assignments'[i] = [assignments[i] EXCEPT !.acked = TRUE]
    BY <2>1
  <2>4. \A a \in DOMAIN assignments : a # i => assignments'[a] = assignments[a]
    BY <2>1
  <2>5. \A a \in DOMAIN assignments : assignments'[a] \in AssignmentRecord
    BY <1>1, <2>3, <2>4, ReleasedRow
  <2> QED BY <2>2, <2>5, <1>3
<1>7. ASSUME NEW c \in Clients, OffboardCommit(c)
      PROVE  AssignmentsTyped' /\ DOMAIN assignments \subseteq DOMAIN assignments'
  <2>1. assignments' = [a \in DOMAIN assignments |->
         IF a \in client[c].reclaim
         THEN [assignments[a] EXCEPT !.active = FALSE, !.releases = @ + 1] ELSE assignments[a]]
    BY <1>7 DEF OffboardCommit
  <2>2. assignments' = [a \in DOMAIN assignments |-> assignments'[a]]
    BY <2>1
  <2>3. \A a \in DOMAIN assignments : assignments'[a] \in AssignmentRecord
    BY <2>1, <1>1, ReleasedRow
  <2> QED BY <2>2, <2>3, <1>3
<1> QED BY <1>2, <1>4, <1>5, <1>6, <1>7, Writes

LEMMA VaultsTypedStep ==
    ASSUME AccessInv, [Next]_accessVars
    PROVE  VaultsTyped'
<1>1. vaults \in [Vaults -> VaultRecord] /\ members \subseteq Vaults \X Users
  BY DEF AccessInv, TablesTyped, VaultsTyped
<1>2. CASE UNCHANGED <<vaults, members>>
  BY <1>1, <1>2 DEF VaultsTyped
<1>3. ASSUME NEW c \in Clients, CreateVaultWrite(c) PROVE VaultsTyped'
  <2>1. client[c].user \in Users /\ client[c].of \in Vaults
    BY <1>3, Carries DEF Holds, Subject, OfPerson, CreateVaultWrite, At
  <2> DEFINE r == [state |-> "live", creator |-> client[c].user]
  <2>2. r \in VaultRecord
    BY <2>1 DEF VaultRecord
  <2>3. \/ UNCHANGED <<vaults, members>>
        \/ /\ vaults' = [vaults EXCEPT ![client[c].of] = r]
           /\ members' = members \cup {<<client[c].of, client[c].user>>}
    BY <1>3 DEF CreateVaultWrite
  <2> HIDE DEF r
  <2> QED BY <1>1, <1>2, <2>1, <2>2, <2>3 DEF VaultsTyped
<1>4. ASSUME NEW c \in Clients, AddMemberWrite(c) PROVE VaultsTyped'
  <2>1. client[c].user \in Users /\ client[c].of \in Vaults
    BY <1>4, Carries DEF Holds, Subject, OfPerson, AddMemberWrite, At
  <2>2. members' \subseteq members \cup {<<client[c].of, client[c].user>>} /\ UNCHANGED vaults
    BY <1>4 DEF AddMemberWrite
  <2>3. <<client[c].of, client[c].user>> \in Vaults \X Users
    BY <2>1
  <2> QED BY <1>1, <2>2, <2>3 DEF VaultsTyped
<1>5. ASSUME NEW c \in Clients, RevokeMember(c) PROVE VaultsTyped'
  BY <1>1, <1>5 DEF RevokeMember, VaultsTyped
<1>6. ASSUME NEW c \in Clients, DeleteVault(c) PROVE VaultsTyped'
  <2>1. client[c].of \in Vaults
    BY <1>6, Carries DEF Holds, Subject, OfPerson, DeleteVault, At
  <2>2. \/ UNCHANGED <<vaults, members>>
        \/ /\ vaults' = [vaults EXCEPT ![client[c].of].state = "deleted"]
           /\ members' \subseteq members
    BY <1>6 DEF DeleteVault
  <2> QED BY <1>1, <1>2, <2>1, <2>2 DEF VaultsTyped, VaultRecord
<1>7. ASSUME NEW c \in Clients, OffboardCommit(c) PROVE VaultsTyped'
  BY <1>1, <1>7 DEF OffboardCommit, VaultsTyped
<1> QED BY <1>2, <1>3, <1>4, <1>5, <1>6, <1>7, Writes

LEMMA OAuthRows ==
    ASSUME OAuthTyped
    PROVE  /\ Len(codes) \in Nat /\ DOMAIN codes = 1 .. Len(codes)
           /\ \A i \in DOMAIN codes : codes[i] \in CodeRecord
           /\ Len(connections) \in Nat /\ DOMAIN connections = 1 .. Len(connections)
           /\ \A g \in DOMAIN connections : connections[g] \in ConnectionRecord
           /\ Len(tokens) \in Nat /\ DOMAIN tokens = 1 .. Len(tokens)
           /\ \A t \in DOMAIN tokens : tokens[t] \in TokenRecord
BY LenProperties, ElementOfSeq DEF OAuthTyped

OAuthGrow ==
    /\ OAuthTyped'
    /\ DOMAIN codes \subseteq DOMAIN codes' /\ DOMAIN connections \subseteq DOMAIN connections'
    /\ DOMAIN tokens \subseteq DOMAIN tokens'

\* One token changes, or one is added.
LEMMA TokenChanged ==
    ASSUME OAuthTyped, NEW t \in DOMAIN tokens, NEW state \in {"fresh", "used", "old", "gone"}
    PROVE  LET after == [tokens EXCEPT ![t].state = state] IN
           /\ after \in Seq(TokenRecord) /\ DOMAIN after = DOMAIN tokens
           /\ \A u \in DOMAIN after : after[u].connection = tokens[u].connection
<1> DEFINE after == [tokens EXCEPT ![t].state = state]
<1>1. tokens \in Seq(TokenRecord) /\ \A u \in DOMAIN tokens : tokens[u] \in TokenRecord
  BY OAuthRows DEF OAuthTyped
<1>2. after = [u \in DOMAIN tokens |-> after[u]] /\ \A u \in DOMAIN tokens : u # t => after[u] = tokens[u]
  OBVIOUS
<1>3. after[t] = [tokens[t] EXCEPT !.state = state]
  OBVIOUS
<1>4. after[t] \in TokenRecord /\ after[t].connection = tokens[t].connection
  BY <1>1, <1>3 DEF TokenRecord
<1> HIDE DEF after
<1>5. after \in Seq(TokenRecord) /\ DOMAIN after = DOMAIN tokens
  BY <1>1, <1>2, <1>4, Changed1
<1> QED BY <1>2, <1>4, <1>5 DEF after

LEMMA TokenAdded ==
    ASSUME NEW known, NEW s \in Seq(TokenRecord), NEW g \in known, g \in Nat,
           \A u \in DOMAIN s : s[u].connection \in known,
           NEW s2, s2 = Append(s, NewToken(g))
    PROVE  /\ s2 \in Seq(TokenRecord) /\ DOMAIN s \subseteq DOMAIN s2
           /\ \A u \in DOMAIN s2 : s2[u].connection \in known
<1> DEFINE r == NewToken(g)
<1>1. r \in TokenRecord /\ r.connection = g
  BY DEF NewToken, TokenRecord
<1> HIDE DEF r
<1>2. /\ Append(s, r) \in Seq(TokenRecord)
      /\ DOMAIN Append(s, r) = DOMAIN s \cup {Len(s) + 1}
      /\ \A u \in DOMAIN s : Append(s, r)[u] = s[u]
      /\ Append(s, r)[Len(s) + 1] = r
  BY <1>1, OneMore
<1> QED BY <1>1, <1>2 DEF r

LEMMA OAuthTypedStep ==
    ASSUME AccessInv, [Next]_accessVars
    PROVE  OAuthGrow
<1>1. /\ OAuthTyped
      /\ codes \in Seq(CodeRecord) /\ connections \in Seq(ConnectionRecord)
      /\ tokens \in Seq(TokenRecord)
      /\ Len(connections) \in Nat /\ DOMAIN connections = 1 .. Len(connections)
  BY OAuthRows DEF AccessInv, TablesTyped, OAuthTyped
<1>2. CASE UNCHANGED oauthTables
  BY <1>1, <1>2 DEF OAuthGrow, OAuthTyped, oauthTables
<1>3. CASE TokenAges
  <2>1. PICK t \in DOMAIN tokens : tokens' = [tokens EXCEPT ![t].state = "old"]
    BY <1>3 DEF TokenAges
  <2>2. UNCHANGED <<codes, connections>>
    BY <1>3 DEF TokenAges
  <2> DEFINE state == "old"
  <2>4. tokens' = [tokens EXCEPT ![t].state = state] /\ state \in {"fresh", "used", "old", "gone"}
    BY <2>1
  <2> HIDE DEF state
  <2>3. /\ tokens' \in Seq(TokenRecord) /\ DOMAIN tokens' = DOMAIN tokens
        /\ \A u \in DOMAIN tokens' : tokens'[u].connection = tokens[u].connection
    BY <1>1, <2>4, TokenChanged DEF state
  <2> QED BY <1>1, <2>2, <2>3 DEF OAuthGrow, OAuthTyped
<1>4. ASSUME NEW c \in Clients, ConsentWrite(c) PROVE OAuthGrow
  <2> DEFINE r == [user |-> client[c].user, epoch |-> client[c].seen, used |-> FALSE, connection |-> 0]
  <2>1. client[c].user \in Users /\ client[c].seen \in Nat
    BY <1>4, Carries DEF Holds, Subject, OfPerson, ConsentWrite, At
  <2>2. r \in CodeRecord /\ r.connection = 0
    BY <2>1 DEF CodeRecord
  <2>3. codes' = Append(codes, r) /\ UNCHANGED <<connections, tokens>>
    BY <1>4 DEF ConsentWrite
  <2> HIDE DEF r
  <2>4. /\ codes' \in Seq(CodeRecord) /\ DOMAIN codes' = DOMAIN codes \cup {Len(codes) + 1}
        /\ \A i \in DOMAIN codes : codes'[i] = codes[i]
        /\ codes'[Len(codes) + 1] = r
    BY <1>1, <2>2, <2>3, OneMore
  <2>5. \A i \in DOMAIN codes' : codes'[i].connection \in 0 .. Len(connections)
    BY <1>1, <2>2, <2>4 DEF OAuthTyped
  <2> QED BY <1>1, <2>3, <2>4, <2>5 DEF OAuthGrow, OAuthTyped
<1>5. ASSUME NEW c \in Clients, ExchangeBurn(c) PROVE OAuthGrow
  <2> DEFINE i == Head(client[c].ids)
  <2>1. i \in DOMAIN codes
    BY <1>5, Carries, FirstNamed DEF Holds, Subject, Named, Known, ExchangeBurn, At
  <2>2. codes' = [codes EXCEPT ![i].used = TRUE] /\ UNCHANGED <<connections, tokens>>
    BY <1>5 DEF ExchangeBurn
  <2> HIDE DEF i
  <2>3. \A j \in DOMAIN codes : codes[j] \in CodeRecord
    BY <1>1, OAuthRows
  <2>4. codes' = [j \in DOMAIN codes |-> codes'[j]] /\ \A j \in DOMAIN codes : j # i => codes'[j] = codes[j]
    BY <2>2
  <2>5. codes'[i] = [codes[i] EXCEPT !.used = TRUE]
    BY <2>1, <2>2
  <2>6. codes'[i] \in CodeRecord /\ codes'[i].connection = codes[i].connection
    BY <2>1, <2>3, <2>5 DEF CodeRecord
  <2>7. codes' \in Seq(CodeRecord) /\ DOMAIN codes' = DOMAIN codes
    BY <1>1, <2>3, <2>4, <2>6, Changed1
  <2> QED BY <1>1, <2>2, <2>4, <2>6, <2>7 DEF OAuthGrow, OAuthTyped
<1>6. ASSUME NEW c \in Clients, ExchangeConnect(c) PROVE OAuthGrow
  <2> DEFINE i == Head(client[c].ids)
             r == [user |-> client[c].user, epoch |-> client[c].seen, live |-> TRUE]
  <2>1. client[c].user \in Users /\ client[c].seen \in Nat
    BY <1>6, Carries DEF Holds, Subject, OfPerson, ExchangeConnect, At
  <2>2. i \in DOMAIN codes
    BY <1>6, Carries, FirstNamed DEF Holds, Subject, Named, Known, ExchangeConnect, At
  <2>3. r \in ConnectionRecord
    BY <2>1 DEF ConnectionRecord
  <2>4. /\ connections' = Append(connections, r)
        /\ codes' = [codes EXCEPT ![i].connection = IF @ = 0 THEN Len(connections') ELSE @]
        /\ tokens' = Append(tokens, NewToken(Len(connections')))
    BY <1>6 DEF ExchangeConnect
  <2> HIDE DEF i, r
  <2>5. /\ connections' \in Seq(ConnectionRecord)
        /\ DOMAIN connections' = DOMAIN connections \cup {Len(connections) + 1}
        /\ Len(connections') = Len(connections) + 1 /\ Len(connections') \in Nat
    BY <1>1, <2>3, <2>4, OneMore
  <2>6. /\ \A t \in DOMAIN tokens : tokens[t].connection \in DOMAIN connections'
        /\ Len(connections') \in DOMAIN connections'
    BY <1>1, <2>5 DEF OAuthTyped
  <2>7. /\ tokens' \in Seq(TokenRecord) /\ DOMAIN tokens \subseteq DOMAIN tokens'
        /\ \A t \in DOMAIN tokens' : tokens'[t].connection \in DOMAIN connections'
    BY <1>1, <2>4, <2>5, <2>6, TokenAdded
  <2>8. \A j \in DOMAIN codes : codes[j] \in CodeRecord /\ codes[j].connection \in 0 .. Len(connections)
    BY <1>1, OAuthRows DEF OAuthTyped
  <2> DEFINE n == IF codes[i].connection = 0 THEN Len(connections') ELSE codes[i].connection
  <2>9. n \in 0 .. Len(connections')
    BY <1>1, <2>2, <2>5, <2>8
  <2>10. codes'[i] = [codes[i] EXCEPT !.connection = n]
    BY <2>2, <2>4
  <2>11. codes' = [j \in DOMAIN codes |-> codes'[j]] /\ \A j \in DOMAIN codes : j # i => codes'[j] = codes[j]
    BY <2>4
  <2> HIDE DEF n
  <2>12. codes'[i] \in CodeRecord /\ codes'[i].connection = n
    BY <2>2, <2>5, <2>8, <2>9, <2>10 DEF CodeRecord
  <2>13. codes' \in Seq(CodeRecord) /\ DOMAIN codes' = DOMAIN codes
    BY <1>1, <2>8, <2>11, <2>12, Changed1
  <2>14. \A j \in DOMAIN codes' : codes'[j].connection \in 0 .. Len(connections')
    <3>1. \A j \in DOMAIN codes : codes[j].connection \in 0 .. Len(connections')
      BY <1>1, <2>5, <2>8
    <3> QED BY <3>1, <2>9, <2>11, <2>12, <2>13
  <2> QED BY <2>5, <2>7, <2>13, <2>14 DEF OAuthGrow, OAuthTyped
<1>7. ASSUME NEW c \in Clients, RefreshCommit(c) PROVE OAuthGrow
  <2> DEFINE t == Head(client[c].ids)
             s2 == [tokens EXCEPT ![t].state = "used"]
  <2>1. t \in DOMAIN tokens
    BY <1>7, Carries, FirstNamed DEF Holds, Subject, Named, Known, RefreshCommit, At
  <2>2. tokens' = Append(s2, NewToken(tokens[t].connection)) /\ UNCHANGED <<codes, connections>>
    BY <1>7 DEF RefreshCommit
  <2> DEFINE state == "used"
  <2>8. s2 = [tokens EXCEPT ![t].state = state] /\ state \in {"fresh", "used", "old", "gone"}
    OBVIOUS
  <2> HIDE DEF t, s2, state
  <2>3. /\ s2 \in Seq(TokenRecord) /\ DOMAIN s2 = DOMAIN tokens
        /\ \A u \in DOMAIN s2 : s2[u].connection = tokens[u].connection
    BY <1>1, <2>1, <2>8, TokenChanged DEF state
  <2>4. \A u \in DOMAIN tokens : tokens[u].connection \in DOMAIN connections /\ tokens[u].connection \in Nat
    BY <1>1 DEF OAuthTyped
  <2> DEFINE g == tokens[t].connection
  <2>6. g \in DOMAIN connections /\ g \in Nat /\ tokens' = Append(s2, NewToken(g))
    BY <2>1, <2>2, <2>4
  <2>7. \A u \in DOMAIN s2 : s2[u].connection \in DOMAIN connections
    BY <2>3, <2>4
  <2> HIDE DEF g
  <2>5. /\ tokens' \in Seq(TokenRecord) /\ DOMAIN s2 \subseteq DOMAIN tokens'
        /\ \A u \in DOMAIN tokens' : tokens'[u].connection \in DOMAIN connections
    BY <2>3, <2>6, <2>7, TokenAdded
  <2> QED BY <1>1, <2>2, <2>3, <2>5 DEF OAuthGrow, OAuthTyped
<1>8. ASSUME NEW c \in Clients, DisconnectCommit(c) PROVE OAuthGrow
  <2> DEFINE g == Head(client[c].ids)
  <2>1. g \in DOMAIN connections
    BY <1>8, Carries, FirstNamed DEF Holds, Subject, Named, Known, DisconnectCommit, At
  <2>2. /\ connections' = [connections EXCEPT ![g].live = FALSE] /\ UNCHANGED codes
        /\ tokens' = [t \in DOMAIN tokens |->
             IF t \in client[c].staged THEN [tokens[t] EXCEPT !.state = "gone"] ELSE tokens[t]]
    BY <1>8 DEF DisconnectCommit
  <2> HIDE DEF g
  <2>3. /\ \A h \in DOMAIN connections : connections[h] \in ConnectionRecord
        /\ \A t \in DOMAIN tokens : tokens[t] \in TokenRecord
    BY <1>1, OAuthRows
  <2>4. /\ connections' = [h \in DOMAIN connections |-> connections'[h]]
        /\ \A h \in DOMAIN connections : h # g => connections'[h] = connections[h]
    BY <2>2
  <2>5. connections'[g] = [connections[g] EXCEPT !.live = FALSE]
    BY <2>1, <2>2
  <2>6. connections'[g] \in ConnectionRecord
    BY <2>1, <2>3, <2>5 DEF ConnectionRecord
  <2>7. /\ connections' \in Seq(ConnectionRecord) /\ DOMAIN connections' = DOMAIN connections
        /\ Len(connections') = Len(connections)
    BY <1>1, <2>3, <2>4, <2>6, Changed1, SMTT(40)
  <2>8. tokens' = [t \in DOMAIN tokens |-> tokens'[t]]
    BY <2>2
  <2>9. \A t \in DOMAIN tokens : tokens'[t] \in TokenRecord /\ tokens'[t].connection = tokens[t].connection
    BY <2>2, <2>3 DEF TokenRecord
  <2>10. tokens' \in Seq(TokenRecord) /\ DOMAIN tokens' = DOMAIN tokens
    BY <1>1, <2>8, <2>9, Changed1
  <2> QED BY <1>1, <2>2, <2>7, <2>9, <2>10 DEF OAuthGrow, OAuthTyped
<1> QED BY <1>2, <1>3, <1>4, <1>5, <1>6, <1>7, <1>8, Writes

LEMMA TablesStep ==
    ASSUME AccessInv, [Next]_accessVars
    PROVE  TablesTyped' /\ Grown(Known, Known')
BY GrantsTypedStep, RequestsTypedStep, AssignmentsTypedStep, VaultsTypedStep, OAuthTypedStep
   DEF TablesTyped, GrantsGrow, OAuthGrow, Grown, Known

-----------------------------------------------------------------------------
(***************************************************************************)
(* One request moves.                                                      *)
(***************************************************************************)
Advances(c) ==
    /\ \A d \in Clients \ {c} : client'[d] = client[d]
    /\ Holds(client'[c], Known)
    /\ \A lock \in client'[c].locks : lock \in client[c].locks \/ IsShare(lock) \/ Free(c, lock)

LEMMA GrownSubject ==
    ASSUME NEW x, NEW known, NEW after, Subject(x, known), Grown(known, after)
    PROVE  Subject(x, after)
<1>1. \A ids : Named(ids, known.requests) => Named(ids, after.requests)
  BY MoreNamed DEF Named, Grown
<1>2. \A ids : Named(ids, known.assignments) => Named(ids, after.assignments)
  BY MoreNamed DEF Named, Grown
<1>3. \A ids : Named(ids, known.codes) => Named(ids, after.codes)
  BY MoreNamed DEF Named, Grown
<1>4. \A ids : Named(ids, known.connections) => Named(ids, after.connections)
  BY MoreNamed DEF Named, Grown
<1>5. \A ids : Named(ids, known.tokens) => Named(ids, after.tokens)
  BY MoreNamed DEF Named, Grown
<1>6. x.ids \in Seq(known.grants) => x.ids \in Seq(after.grants)
  BY MoreNamed DEF Grown
<1> QED BY <1>1, <1>2, <1>3, <1>4, <1>5, <1>6 DEF Subject

LEMMA GrownHolds ==
    ASSUME NEW x, NEW known, NEW after, Holds(x, known), Grown(known, after)
    PROVE  Holds(x, after)
<1>1. Staging(x, after)
  BY DEF Holds, Staging, Grown
<1> QED BY <1>1, GrownSubject DEF Holds

LEMMA AdvancesKeeps ==
    ASSUME AccessInv, AdminInv', [Next]_accessVars, NEW c \in Clients, Advances(c)
    PROVE  AccessInv'
<1>1. TablesTyped' /\ Grown(Known, Known')
  BY TablesStep
<1>2. \A d \in Clients : Holds(client'[d], Known)
  BY DEF AccessInv, Advances
<1>3. \A d \in Clients : Holds(client'[d], Known')
  BY <1>1, <1>2, GrownHolds
<1>4. Exclusive'
  <2>1. \A d \in Clients, lock \in client'[c].locks :
          d # c => IsShare(lock) \/ lock \notin client'[d].locks
    BY DEF Advances, AccessInv, Exclusive, Free
  <2>2. \A d, e \in Clients : d # c /\ e # c /\ d # e =>
          \A lock \in client'[d].locks : IsShare(lock) \/ lock \notin client'[e].locks
    BY DEF Advances, AccessInv, Exclusive
  <2> QED BY <2>1, <2>2 DEF Exclusive
<1> QED BY <1>1, <1>3, <1>4 DEF AccessInv

LEMMA SameClientsKeep ==
    ASSUME AccessInv, AdminInv', [Next]_accessVars, UNCHANGED client
    PROVE  AccessInv'
<1>1. TablesTyped' /\ Grown(Known, Known')
  BY TablesStep
<1>2. \A d \in Clients : Holds(client'[d], Known)
  BY DEF AccessInv
<1>3. \A d \in Clients : Holds(client'[d], Known')
  BY <1>1, <1>2, GrownHolds
<1>4. Exclusive'
  BY DEF AccessInv, Exclusive
<1> QED BY <1>1, <1>3, <1>4 DEF AccessInv

LEMMA ReplacedAdvances ==
    ASSUME AccessInv, NEW c \in Clients, NEW r, Holds(r, Known), r.locks = {},
           client' = [client EXCEPT ![c] = r]
    PROVE  Advances(c)
BY DEF AccessInv, AdminInv, ClientShape, Advances

LEMMA BeginAdvances ==
    ASSUME AccessInv, NEW c \in Clients, NEW kind, NEW r, Holds(r, Known), r.locks = {},
           Begin(c, kind, r)
    PROVE  Advances(c)
BY ReplacedAdvances DEF Begin

LEMMA IdleHolds == Holds(Idle, Known) /\ Idle.locks = {}
BY DEF Holds, Subject, Staging, Standing, Idle, Kinds, OfPerson

LEMMA EndAdvances == ASSUME AccessInv, NEW c \in Clients, End(c) PROVE Advances(c)
BY IdleHolds, ReplacedAdvances DEF End

\* Where a handler's row is one of a table.
LEMMA OneRow ==
    ASSUME NEW S, NEW e \in S
    PROVE  Named(<<e>>, S) /\ <<e>> \in Seq(S)
BY DEF Named

LEMMA DisconnectingHolds ==
    ASSUME NEW g \in DOMAIN connections
    PROVE  Holds(Disconnecting(g), Known) /\ Disconnecting(g).locks = {}
<1>1. Named(<<g>>, Known.connections)
  BY OneRow DEF Known
<1> QED BY <1>1 DEF Holds, Subject, Staging, Standing, Idle, Kinds, OfPerson, Disconnecting

LEMMA RevokingHolds ==
    ASSUME NEW ids \in Seq(DOMAIN grants), NEW plans \in SUBSET Apps
    PROVE  Holds(Revoking(ids, plans), Known) /\ Revoking(ids, plans).locks = {}
BY DEF Holds, Subject, Staging, Standing, Idle, Kinds, OfPerson, Revoking, Known

\* An order of a set of rows is a sequence of rows of that set.
LEMMA OrderOfRows ==
    ASSUME NEW S, IsFiniteSet(S), NEW order \in Orders(S)
    PROVE  order \in Seq(S) /\ Len(order) = Cardinality(S) /\ DOMAIN order = 1 .. Cardinality(S)
<1>1. Cardinality(S) \in Nat
  BY FS_CardinalityType
<1>2. order \in [1 .. Cardinality(S) -> S]
  BY DEF Orders
<1>3. order \in Seq(S)
  BY <1>1, <1>2, SeqDef
<1>4. Len(order) \in Nat /\ DOMAIN order = 1 .. Len(order)
  BY <1>3, LenProperties
<1>5. Len(order) = Cardinality(S)
  BY <1>1, <1>2, <1>4
<1> QED BY <1>2, <1>3, <1>5

LEMMA GrantSetsFinite ==
    ASSUME GrantsTyped, NEW S, S \subseteq DOMAIN grants
    PROVE  IsFiniteSet(S)
<1>1. Len(grants) \in Nat /\ DOMAIN grants = 1 .. Len(grants)
  BY GrantRows
<1>2. IsFiniteSet(1 .. Len(grants))
  BY <1>1, FS_Interval
<1> QED BY <1>1, <1>2, FS_Subset

\* A request goes on: what it is about stays.
LEMMA GoesOn ==
    ASSUME AccessInv, NEW c \in Clients, client' = [d \in Clients |-> client'[d]],
           \A d \in Clients \ {c} : client'[d] = client[d],
           DOMAIN client'[c] = DOMAIN client[c],
           client'[c].op = client[c].op, client'[c].user = client[c].user,
           client'[c].of = client[c].of, client'[c].seen \in Nat,
           Subject(client'[c], Known), Staging(client'[c], Known), Standing(client'[c]),
           \A lock \in client'[c].locks :
              lock \in client[c].locks \/ IsShare(lock) \/ Free(c, lock)
    PROVE  Advances(c)
BY Carries DEF Advances, Holds

LEMMA AccountAdvances ==
    ASSUME AccessInv, NEW c \in Clients, AccountStep(c)
    PROVE  Advances(c) \/ UNCHANGED client
<1>1. CASE UpdateRead(c)
  <2>1. PICK u \in Users, change \in Changes :
          Begin(c, change,
             [Idle EXCEPT !.op = "update", !.user = u, !.change = change,
                          !.seen = IF users[u].active THEN 1 ELSE 0,
                          !.pc = IF change \in {"demote", "deactivate"} THEN "admins" ELSE "write user"])
    BY <1>1 DEF UpdateRead
  <2> DEFINE seen == IF users[u].active THEN 1 ELSE 0
             pc == IF change \in {"demote", "deactivate"} THEN "admins" ELSE "write user"
             r == [Idle EXCEPT !.op = "update", !.user = u, !.change = change, !.seen = seen, !.pc = pc]
  <2>2. seen \in Nat
    OBVIOUS
  <2>3. Begin(c, change, r)
    BY <2>1
  <2> HIDE DEF seen, pc
  <2>4. Holds(r, Known) /\ r.locks = {}
    BY <2>2 DEF Holds, Subject, Staging, Standing, Idle, Kinds, OfPerson
  <2> HIDE DEF r
  <2> QED BY <2>3, <2>4, BeginAdvances
<1>2. CASE UpdateCheckAdmins(c)
  <2>1. CASE End(c)
    BY <2>1, EndAdvances
  <2>2. CASE LockAdmins(c, "write user")
    <3>1. client' = [d \in Clients |-> client'[d]] /\ \A d \in Clients \ {c} : client'[d] = client[d]
      BY <2>2 DEF LockAdmins, AccessInv, AdminInv, ClientShape
    <3>2. DOMAIN client[c] = DOMAIN Idle
      BY DEF AccessInv, AdminInv, ClientShape
    <3> DEFINE x == client[c]
               y == client'[c]
    <3>3. /\ DOMAIN y = DOMAIN x /\ y.op = x.op /\ y.user = x.user /\ y.of = x.of /\ y.ids = x.ids
          /\ y.seen = x.seen /\ y.plans = x.plans /\ y.staged = x.staged /\ y.fired = x.fired
          /\ y.reclaim = x.reclaim /\ y.locks = x.locks \cup {AdminSet} /\ y.pc = "write user"
      BY <2>2, <3>2 DEF LockAdmins, WithAdminLock, AccessInv, AdminInv, ClientShape, Idle
    <3>4. Free(c, AdminSet)
      BY <1>2 DEF UpdateCheckAdmins, Waits, Wants, At
    <3>5. x.op = "update" /\ Holds(x, Known)
      BY <1>2, Carries DEF UpdateCheckAdmins, At
    <3>6. \A lock \in y.locks : lock \in x.locks \/ IsShare(lock) \/ Free(c, lock)
      BY <3>3, <3>4
    <3> HIDE DEF x, y
    <3>7. Subject(y, Known) /\ Staging(y, Known) /\ Standing(y) /\ y.seen \in Nat
      BY <3>3, <3>5 DEF Holds, Subject, Staging, Standing, OfPerson
    <3> QED BY <3>1, <3>3, <3>6, <3>7, GoesOn DEF x, y
  <2> QED BY <1>2, <2>1, <2>2 DEF UpdateCheckAdmins
<1>3. CASE UpdateWrite(c)
  BY <1>3, EndAdvances DEF UpdateWrite
<1>4. CASE ResetRead(c)
  <2>1. PICK u \in Users, ceiling \in Roles :
          Begin(c, "reset", [Idle EXCEPT !.op = "reset", !.pc = "write user", !.user = u,
                                         !.change = ceiling])
    BY <1>4 DEF ResetRead
  <2> DEFINE r == [Idle EXCEPT !.op = "reset", !.pc = "write user", !.user = u, !.change = ceiling]
  <2>2. Holds(r, Known) /\ r.locks = {}
    BY DEF Holds, Subject, Staging, Standing, Idle, Kinds, OfPerson
  <2> HIDE DEF r
  <2> QED BY <2>1, <2>2, BeginAdvances DEF r
<1>5. CASE ResetWrite(c)
  BY <1>5, EndAdvances DEF ResetWrite
<1>6. CASE OffboardRead(c)
  <2>1. PICK u \in Users :
          Begin(c, "offboard", [Idle EXCEPT !.op = "offboard", !.pc = "admins", !.user = u])
    BY <1>6 DEF OffboardRead
  <2> DEFINE r == [Idle EXCEPT !.op = "offboard", !.pc = "admins", !.user = u]
  <2>2. Holds(r, Known) /\ r.locks = {}
    BY EmptySeq DEF Holds, Subject, Staging, Standing, Idle, Kinds, OfPerson, Known
  <2> HIDE DEF r
  <2> QED BY <2>1, <2>2, BeginAdvances DEF r
<1>7. CASE OffboardCheckAdmins(c)
  <2>1. CASE End(c)
    BY <2>1, EndAdvances
  <2>2. CASE LockAdmins(c, "user row")
    <3>1. client' = [d \in Clients |-> client'[d]] /\ \A d \in Clients \ {c} : client'[d] = client[d]
      BY <2>2 DEF LockAdmins, AccessInv, AdminInv, ClientShape
    <3>2. DOMAIN client[c] = DOMAIN Idle
      BY DEF AccessInv, AdminInv, ClientShape
    <3> DEFINE x == client[c]
               y == client'[c]
    <3>3. /\ DOMAIN y = DOMAIN x /\ y.op = x.op /\ y.user = x.user /\ y.of = x.of /\ y.ids = x.ids
          /\ y.seen = x.seen /\ y.plans = x.plans /\ y.staged = x.staged /\ y.fired = x.fired
          /\ y.reclaim = x.reclaim /\ y.locks = x.locks \cup {AdminSet} /\ y.pc = "user row"
      BY <2>2, <3>2 DEF LockAdmins, WithAdminLock, AccessInv, AdminInv, ClientShape, Idle
    <3>4. Free(c, AdminSet)
      BY <1>7 DEF OffboardCheckAdmins, Waits, Wants, At
    <3>5. x.op = "offboard" /\ Holds(x, Known)
      BY <1>7, Carries DEF OffboardCheckAdmins, At
    <3>6. \A lock \in y.locks : lock \in x.locks \/ IsShare(lock) \/ Free(c, lock)
      BY <3>3, <3>4
    <3> HIDE DEF x, y
    <3>7. Subject(y, Known) /\ Staging(y, Known) /\ Standing(y) /\ y.seen \in Nat
      BY <3>3, <3>5 DEF Holds, Subject, Staging, Standing, OfPerson
    <3> QED BY <3>1, <3>3, <3>6, <3>7, GoesOn DEF x, y
  <2> QED BY <1>7, <2>1, <2>2 DEF OffboardCheckAdmins
<1>8. CASE OffboardLockUser(c)
  <2> DEFINE held == {g \in DOMAIN grants : grants[g].state = "active" /\ grants[g].user = client[c].user}
  <2>1. PICK order \in Orders(held) :
          client' = [client EXCEPT ![c].pc = "offboard grants", ![c].ids = order,
                                   ![c].locks = WithRowLock(c)]
    BY <1>8 DEF OffboardLockUser
  <2>2. held \subseteq DOMAIN grants
    OBVIOUS
  <2> HIDE DEF held
  <2>3. IsFiniteSet(held)
    BY <2>2, GrantSetsFinite DEF AccessInv, TablesTyped
  <2>4. order \in Seq(held)
    BY <2>3, OrderOfRows
  <2>5. order \in Seq(DOMAIN grants)
    BY <2>2, <2>4, MoreNamed
  <2>6. client' = [d \in Clients |-> client'[d]] /\ \A d \in Clients \ {c} : client'[d] = client[d]
    BY <2>1 DEF AccessInv, AdminInv, ClientShape
  <2>7. DOMAIN client[c] = DOMAIN Idle
    BY DEF AccessInv, AdminInv, ClientShape
  <2> DEFINE x == client[c]
             y == client'[c]
  <2>8. /\ DOMAIN y = DOMAIN x /\ y.op = x.op /\ y.user = x.user /\ y.of = x.of /\ y.ids = order
        /\ y.seen = x.seen /\ y.plans = x.plans /\ y.staged = x.staged /\ y.fired = x.fired
        /\ y.reclaim = x.reclaim /\ y.locks = x.locks \cup {UserRow(x.user)}
        /\ y.pc = "offboard grants"
    BY <2>1, <2>7 DEF WithRowLock, AccessInv, AdminInv, ClientShape, Idle
  <2>9. Free(c, UserRow(x.user))
    BY <1>8 DEF OffboardLockUser, Waits, Wants, At
  <2>10. x.op = "offboard" /\ Holds(x, Known)
    BY <1>8, Carries DEF OffboardLockUser, At
  <2>11. \A lock \in y.locks : lock \in x.locks \/ IsShare(lock) \/ Free(c, lock)
    BY <2>8, <2>9
  <2> HIDE DEF x, y
  <2>12. Subject(y, Known) /\ Staging(y, Known) /\ Standing(y) /\ y.seen \in Nat
    BY <2>5, <2>8, <2>10 DEF Holds, Subject, Staging, Standing, OfPerson, Known
  <2> QED BY <2>6, <2>8, <2>11, <2>12, GoesOn DEF x, y
<1>9. CASE OffboardGrant(c)
  <2> DEFINE x == client[c]
             y == client'[c]
             g == Head(x.ids)
             row == IF grants[g].state = "active" THEN {g} ELSE {}
             rowLocks == IF grants[g].state = "active" THEN {GrantRow(g)} ELSE {}
  <2>1. client' = [d \in Clients |-> client'[d]] /\ \A d \in Clients \ {c} : client'[d] = client[d]
    BY <1>9 DEF OffboardGrant, AccessInv, AdminInv, ClientShape
  <2>2. DOMAIN client[c] = DOMAIN Idle
    BY DEF AccessInv, AdminInv, ClientShape
  <2>3. /\ DOMAIN y = DOMAIN x /\ y.op = x.op /\ y.user = x.user /\ y.of = x.of /\ y.ids = Tail(x.ids)
        /\ y.seen = x.seen /\ y.plans = x.plans /\ y.staged = x.staged \cup row /\ y.fired = x.fired
        /\ y.reclaim = x.reclaim /\ y.locks = x.locks \cup rowLocks /\ y.pc = x.pc
    BY <1>9, <2>2 DEF OffboardGrant, AccessInv, AdminInv, ClientShape, Idle
  <2>4. /\ x.op = "offboard" /\ x.pc = "offboard grants" /\ x.ids # <<>> /\ Holds(x, Known)
        /\ Free(c, GrantRow(g))
    BY <1>9, Carries DEF OffboardGrant, At, Waits, Wants
  <2>5. g \in DOMAIN grants /\ Tail(x.ids) \in Seq(DOMAIN grants)
    BY <2>4, FirstNamed DEF Holds, Subject, Known
  <2>6. row \subseteq DOMAIN grants /\ \A h \in row : GrantRow(h) \in rowLocks
    BY <2>5
  <2>7. \A lock \in y.locks : lock \in x.locks \/ IsShare(lock) \/ Free(c, lock)
    BY <2>3, <2>4
  <2> HIDE DEF x, y, g, row, rowLocks
  <2>8. Subject(y, Known)
    BY <2>3, <2>4, <2>5 DEF Holds, Subject, OfPerson, Known
  <2>9. Staging(y, Known) /\ y.seen \in Nat
    BY <2>3, <2>4, <2>6 DEF Holds, Staging, Known
  <2>10. Standing(y)
    BY <2>3, <2>4 DEF Holds, Standing
  <2> QED BY <2>1, <2>3, <2>7, <2>8, <2>9, <2>10, GoesOn DEF x, y
<1>10. CASE OffboardReadAssignments(c)
  <2> DEFINE x == client[c]
             y == client'[c]
             out == {a \in DOMAIN assignments : assignments[a].active /\ assignments[a].user = x.user}
  <2>1. client' = [d \in Clients |-> client'[d]] /\ \A d \in Clients \ {c} : client'[d] = client[d]
    BY <1>10 DEF OffboardReadAssignments, AccessInv, AdminInv, ClientShape
  <2>2. DOMAIN client[c] = DOMAIN Idle
    BY DEF AccessInv, AdminInv, ClientShape
  <2>3. /\ DOMAIN y = DOMAIN x /\ y.op = x.op /\ y.user = x.user /\ y.of = x.of /\ y.ids = x.ids
        /\ y.seen = x.seen /\ y.plans = x.plans /\ y.staged = x.staged /\ y.fired = x.fired
        /\ y.reclaim = out /\ y.locks = x.locks /\ y.pc = "offboard commit"
    BY <1>10, <2>2 DEF OffboardReadAssignments, AccessInv, AdminInv, ClientShape, Idle
  <2>4. x.op = "offboard" /\ x.pc = "offboard grants" /\ x.ids = <<>> /\ Holds(x, Known)
    BY <1>10, Carries DEF OffboardReadAssignments, At
  <2>5. out \subseteq DOMAIN assignments
    OBVIOUS
  <2> HIDE DEF x, y, out
  <2>6. Subject(y, Known) /\ Staging(y, Known) /\ Standing(y) /\ y.seen \in Nat
    BY <2>3, <2>4, <2>5 DEF Holds, Subject, Staging, Standing, OfPerson, Known
  <2> QED BY <2>1, <2>3, <2>6, GoesOn DEF x, y
<1>11. CASE OffboardCommit(c)
  BY <1>11, EndAdvances DEF OffboardCommit
<1>12. CASE SignOutEverywhere(c) \/ RestoreUser(c)
  BY <1>12 DEF SignOutEverywhere, RestoreUser
<1> QED BY <1>1, <1>2, <1>3, <1>4, <1>5, <1>6, <1>7, <1>8, <1>9, <1>10, <1>11, <1>12
        DEF AccountStep

LEMMA GrantAdvances ==
    ASSUME AccessInv, NEW c \in Clients, GrantStep(c)
    PROVE  Advances(c) \/ UNCHANGED client
<1>1. CASE GrantCheck(c)
  <2>1. PICK u \in Users, a \in Apps : \E plans \in SUBSET {a} :
          Begin(c, "grant", [Idle EXCEPT !.op = "grant", !.pc = "insert", !.user = u,
                                         !.of = a, !.plans = plans])
    BY <1>1 DEF GrantCheck
  <2>3. PICK plans \in SUBSET {a} :
          Begin(c, "grant", [Idle EXCEPT !.op = "grant", !.pc = "insert", !.user = u,
                                         !.of = a, !.plans = plans])
    BY <2>1
  <2> DEFINE r == [Idle EXCEPT !.op = "grant", !.pc = "insert", !.user = u, !.of = a, !.plans = plans]
  <2>2. Holds(r, Known) /\ r.locks = {}
    BY DEF Holds, Subject, Staging, Standing, Idle, Kinds, OfPerson
  <2> HIDE DEF r
  <2> QED BY <2>3, <2>2, BeginAdvances DEF r
<1>2. CASE GrantWrite(c)
  BY <1>2, EndAdvances DEF GrantWrite
<1>3. CASE UpdateExpiry(c)
  BY <1>3 DEF UpdateExpiry
<1>4. CASE RevokeRead(c)
  <2>1. PICK S \in SUBSET {g \in DOMAIN grants : grants[g].state = "active"}, plans \in SUBSET Apps :
          \E ids \in Orders(S) : Begin(c, "revoke", Revoking(ids, plans))
    BY <1>4 DEF RevokeRead
  <2>2. PICK ids \in Orders(S) : Begin(c, "revoke", Revoking(ids, plans))
    BY <2>1
  <2>3. S \subseteq DOMAIN grants
    BY <2>1
  <2>4. IsFiniteSet(S)
    BY <2>3, GrantSetsFinite DEF AccessInv, TablesTyped
  <2>5. ids \in Seq(S)
    BY <2>2, <2>4, OrderOfRows
  <2>6. ids \in Seq(DOMAIN grants)
    BY <2>3, <2>5, MoreNamed
  <2> DEFINE r == Revoking(ids, plans)
  <2>7. Holds(r, Known) /\ r.locks = {}
    BY <2>1, <2>6, RevokingHolds
  <2> HIDE DEF r
  <2> QED BY <2>2, <2>7, BeginAdvances DEF r
<1>5. CASE RevokeCas(c)
  <2> DEFINE x == client[c]
             y == client'[c]
             g == Head(x.ids)
             row == IF StillActive(g) THEN {g} ELSE {}
             rowLocks == IF StillActive(g) THEN {GrantRow(g)} ELSE {}
             counts == /\ StillActive(g) /\ grants[g].of \in x.plans
                       /\ Policy[grants[g].of] = "LAST_ACTIVE_GRANT"
             fires == /\ StillActive(g) /\ grants[g].of \in x.plans
                      /\ Policy[grants[g].of] = "EACH_GRANT"
             fired == IF fires THEN {g} ELSE {}
             ids == IF counts THEN x.ids ELSE Tail(x.ids)
             pc == IF counts THEN "count" ELSE x.pc
  <2>1. client' = [d \in Clients |-> client'[d]] /\ \A d \in Clients \ {c} : client'[d] = client[d]
    BY <1>5 DEF RevokeCas, AccessInv, AdminInv, ClientShape
  <2>2. DOMAIN client[c] = DOMAIN Idle
    BY DEF AccessInv, AdminInv, ClientShape
  <2>3. /\ DOMAIN y = DOMAIN x /\ y.op = x.op /\ y.user = x.user /\ y.of = x.of /\ y.ids = ids
        /\ y.seen = x.seen /\ y.plans = x.plans /\ y.staged = x.staged \cup row
        /\ y.fired = x.fired \cup fired
        /\ y.reclaim = x.reclaim /\ y.locks = x.locks \cup rowLocks /\ y.pc = pc
    BY <1>5, <2>2 DEF RevokeCas, AccessInv, AdminInv, ClientShape, Idle
  <2>4. /\ x.op = "revoke" /\ x.pc = "revoke" /\ x.ids # <<>> /\ Holds(x, Known)
        /\ Free(c, GrantRow(g))
    BY <1>5, Carries DEF RevokeCas, At, Waits, Wants
  <2>5. g \in DOMAIN grants /\ Tail(x.ids) \in Seq(DOMAIN grants) /\ x.ids \in Seq(DOMAIN grants)
    BY <2>4, FirstNamed DEF Holds, Subject, Known
  <2>6. row \subseteq DOMAIN grants /\ (\A h \in row : GrantRow(h) \in rowLocks) /\ fired \subseteq row
    BY <2>5
  <2>7. \A lock \in y.locks : lock \in x.locks \/ IsShare(lock) \/ Free(c, lock)
    BY <2>3, <2>4
  <2>8. /\ pc = "revoke" \/ pc = "count"
        /\ pc = "count" => ids # <<>> /\ Head(ids) \in row
    BY <2>4
  <2>9. ids \in Seq(DOMAIN grants)
    BY <2>5
  <2> HIDE DEF x, y, g, row, rowLocks, counts, fires, fired, ids, pc
  <2>10. Subject(y, Known)
    BY <2>3, <2>4, <2>9 DEF Holds, Subject, OfPerson, Known
  <2>11. Staging(y, Known) /\ y.seen \in Nat
    BY <2>3, <2>4, <2>6 DEF Holds, Staging, Known
  <2>12. Standing(y)
    BY <2>3, <2>4, <2>8 DEF Holds, Standing
  <2> QED BY <2>1, <2>3, <2>7, <2>10, <2>11, <2>12, GoesOn DEF x, y
<1>6. CASE RevokeCount(c)
  <2> DEFINE x == client[c]
             y == client'[c]
             g == Head(x.ids)
             last == IF ActiveGrants(grants[g].user, grants[g].of) \ x.staged = {} THEN {g} ELSE {}
             pair == Pair(grants[g].user, grants[g].of)
  <2>1. client' = [d \in Clients |-> client'[d]] /\ \A d \in Clients \ {c} : client'[d] = client[d]
    BY <1>6 DEF RevokeCount, AccessInv, AdminInv, ClientShape
  <2>2. DOMAIN client[c] = DOMAIN Idle
    BY DEF AccessInv, AdminInv, ClientShape
  <2>3. x.op = "revoke" /\ x.pc = "count" /\ Holds(x, Known)
    BY <1>6, Carries DEF RevokeCount, At
  <2>4. Wants(c) = {pair}
    BY <2>3 DEF Wants
  <2>5. /\ DOMAIN y = DOMAIN x /\ y.op = x.op /\ y.user = x.user /\ y.of = x.of
        /\ y.ids = Tail(x.ids)
        /\ y.seen = x.seen /\ y.plans = x.plans /\ y.staged = x.staged
        /\ y.fired = x.fired \cup last
        /\ y.reclaim = x.reclaim /\ y.locks = x.locks \cup {pair} /\ y.pc = "revoke"
    BY <1>6, <2>2, <2>4 DEF RevokeCount, WithPairLock, AccessInv, AdminInv, ClientShape, Idle
  <2>6. Free(c, pair)
    BY <1>6, <2>4 DEF RevokeCount, Waits
  <2>7. x.ids \in Seq(DOMAIN grants) /\ x.ids # <<>> /\ g \in x.staged
    BY <2>3 DEF Holds, Subject, Standing, Known
  <2>8. Tail(x.ids) \in Seq(DOMAIN grants) /\ last \subseteq x.staged
    BY <2>7, FirstNamed
  <2>9. \A lock \in y.locks : lock \in x.locks \/ IsShare(lock) \/ Free(c, lock)
    BY <2>5, <2>6
  <2> HIDE DEF x, y, g, last, pair
  <2>10. Subject(y, Known)
    BY <2>3, <2>5, <2>8 DEF Holds, Subject, OfPerson, Known
  <2>11. Staging(y, Known) /\ y.seen \in Nat
    BY <2>3, <2>5, <2>8 DEF Holds, Staging, Known
  <2>12. Standing(y)
    BY <2>3, <2>5 DEF Holds, Standing
  <2> QED BY <2>1, <2>5, <2>9, <2>10, <2>11, <2>12, GoesOn DEF x, y
<1>7. CASE RevokeCommit(c)
  BY <1>7, EndAdvances DEF RevokeCommit
<1> QED BY <1>1, <1>2, <1>3, <1>4, <1>5, <1>6, <1>7 DEF GrantStep

LEMMA SweepAdvances ==
    ASSUME AccessInv, Sweep
    PROVE  Sweeper \in Clients /\ Advances(Sweeper)
<1>1. PICK g \in DOMAIN grants, plans \in SUBSET Apps :
        client' = [client EXCEPT ![Sweeper] = Revoking(<<g>>, plans)]
  BY DEF Sweep
<1>2. <<g>> \in Seq(DOMAIN grants) /\ Sweeper \in Clients
  BY OneRow, AccessAssumption
<1> DEFINE r == Revoking(<<g>>, plans)
<1>3. Holds(r, Known) /\ r.locks = {}
  BY <1>2, RevokingHolds
<1> HIDE DEF r
<1> QED BY <1>1, <1>2, <1>3, ReplacedAdvances DEF r

LEMMA RequestAdvances ==
    ASSUME AccessInv, NEW c \in Clients, RequestStep(c)
    PROVE  Advances(c)
<1>1. CASE RequestCheck(c)
  <2>1. PICK u \in Users, a \in Apps :
          Begin(c, "request", [Idle EXCEPT !.op = "request", !.pc = "insert", !.user = u, !.of = a])
    BY <1>1 DEF RequestCheck
  <2> DEFINE r == [Idle EXCEPT !.op = "request", !.pc = "insert", !.user = u, !.of = a]
  <2>2. Holds(r, Known) /\ r.locks = {}
    BY DEF Holds, Subject, Staging, Standing, Idle, Kinds, OfPerson
  <2> HIDE DEF r
  <2> QED BY <2>1, <2>2, BeginAdvances DEF r
<1>2. CASE ApproveCheck(c)
  <2>1. PICK i \in DOMAIN requests : \E plans \in SUBSET {requests[i].of} :
          Begin(c, "approve", [Idle EXCEPT !.op = "approve", !.pc = "insert",
                                           !.user = requests[i].user, !.of = requests[i].of,
                                           !.ids = <<i>>, !.plans = plans])
    BY <1>2 DEF ApproveCheck
  <2>6. PICK plans \in SUBSET {requests[i].of} :
          Begin(c, "approve", [Idle EXCEPT !.op = "approve", !.pc = "insert",
                                           !.user = requests[i].user, !.of = requests[i].of,
                                           !.ids = <<i>>, !.plans = plans])
    BY <2>1
  <2> DEFINE u == requests[i].user
             a == requests[i].of
             r == [Idle EXCEPT !.op = "approve", !.pc = "insert", !.user = u, !.of = a,
                               !.ids = <<i>>, !.plans = plans]
  <2>2. u \in Users /\ a \in Apps /\ plans \subseteq Apps
    BY <2>6, RequestRows DEF AccessInv, TablesTyped, RequestRecord
  <2>3. Named(<<i>>, Known.requests)
    BY OneRow DEF Known
  <2>4. Begin(c, "approve", r)
    BY <2>6
  <2> HIDE DEF u, a
  <2>5. Holds(r, Known) /\ r.locks = {}
    BY <2>2, <2>3 DEF Holds, Subject, Staging, Standing, Idle, Kinds, OfPerson
  <2> HIDE DEF r
  <2> QED BY <2>4, <2>5, BeginAdvances
<1>3. CASE DenyCheck(c)
  <2>1. PICK i \in DOMAIN requests :
          Begin(c, "deny", [Idle EXCEPT !.op = "deny", !.pc = "deny", !.ids = <<i>>])
    BY <1>3 DEF DenyCheck
  <2> DEFINE r == [Idle EXCEPT !.op = "deny", !.pc = "deny", !.ids = <<i>>]
  <2>2. Named(<<i>>, Known.requests)
    BY OneRow DEF Known
  <2>3. Holds(r, Known) /\ r.locks = {}
    BY <2>2 DEF Holds, Subject, Staging, Standing, Idle, Kinds, OfPerson
  <2> HIDE DEF r
  <2> QED BY <2>1, <2>3, BeginAdvances DEF r
<1>4. CASE RequestInsert(c) \/ ApproveCommit(c) \/ DenyCommit(c)
  BY <1>4, EndAdvances DEF RequestInsert, ApproveCommit, DenyCommit
<1> QED BY <1>1, <1>2, <1>3, <1>4 DEF RequestStep

LEMMA AssignmentAdvances ==
    ASSUME AccessInv, NEW c \in Clients, AssignmentStep(c)
    PROVE  Advances(c) \/ UNCHANGED client
<1>1. CASE AssignCheck(c)
  <2>1. PICK u \in Users, asset \in Assets :
          Begin(c, "assign", [Idle EXCEPT !.op = "assign", !.pc = "insert", !.user = u, !.of = asset])
    BY <1>1 DEF AssignCheck
  <2> DEFINE r == [Idle EXCEPT !.op = "assign", !.pc = "insert", !.user = u, !.of = asset]
  <2>2. Holds(r, Known) /\ r.locks = {}
    BY DEF Holds, Subject, Staging, Standing, Idle, Kinds, OfPerson
  <2> HIDE DEF r
  <2> QED BY <2>1, <2>2, BeginAdvances DEF r
<1>2. CASE ReleaseRead(c)
  <2>1. PICK a \in DOMAIN assignments :
          Begin(c, "release", [Idle EXCEPT !.op = "release", !.pc = "release", !.ids = <<a>>])
    BY <1>2 DEF ReleaseRead
  <2> DEFINE r == [Idle EXCEPT !.op = "release", !.pc = "release", !.ids = <<a>>]
  <2>2. Named(<<a>>, Known.assignments)
    BY OneRow DEF Known
  <2>3. Holds(r, Known) /\ r.locks = {}
    BY <2>2 DEF Holds, Subject, Staging, Standing, Idle, Kinds, OfPerson
  <2> HIDE DEF r
  <2> QED BY <2>1, <2>3, BeginAdvances DEF r
<1>3. CASE AssignWrite(c) \/ ReleaseCommit(c)
  BY <1>3, EndAdvances DEF AssignWrite, ReleaseCommit
<1>4. CASE Acknowledge(c)
  BY <1>4 DEF Acknowledge
<1> QED BY <1>1, <1>2, <1>3, <1>4 DEF AssignmentStep

LEMMA VaultAdvances ==
    ASSUME AccessInv, NEW c \in Clients, VaultStep(c)
    PROVE  Advances(c) \/ UNCHANGED client
<1>1. CASE CreateVaultCheck(c)
  <2>1. PICK v \in Vaults, u \in Users :
          Begin(c, "create vault",
             [Idle EXCEPT !.op = "create vault", !.pc = "insert", !.user = u, !.of = v])
    BY <1>1 DEF CreateVaultCheck
  <2> DEFINE r == [Idle EXCEPT !.op = "create vault", !.pc = "insert", !.user = u, !.of = v]
  <2>2. Holds(r, Known) /\ r.locks = {}
    BY DEF Holds, Subject, Staging, Standing, Idle, Kinds, OfPerson
  <2> HIDE DEF r
  <2> QED BY <2>1, <2>2, BeginAdvances DEF r
<1>2. CASE AddMemberCheck(c)
  <2>1. PICK v \in Vaults, granter \in Users, u \in Users :
          Begin(c, "add member", [Idle EXCEPT !.op = "add member", !.pc = "share vault",
                                              !.user = u, !.of = v, !.change = granter])
    BY <1>2 DEF AddMemberCheck
  <2> DEFINE r == [Idle EXCEPT !.op = "add member", !.pc = "share vault", !.user = u, !.of = v,
                               !.change = granter]
  <2>2. Holds(r, Known) /\ r.locks = {}
    BY DEF Holds, Subject, Staging, Standing, Idle, Kinds, OfPerson
  <2> HIDE DEF r
  <2> QED BY <2>1, <2>2, BeginAdvances DEF r
<1>3. CASE DeleteVaultCheck(c)
  <2>1. PICK v \in Vaults :
          Begin(c, "delete vault",
             [Idle EXCEPT !.op = "delete vault", !.pc = "delete vault", !.of = v])
    BY <1>3 DEF DeleteVaultCheck
  <2> DEFINE r == [Idle EXCEPT !.op = "delete vault", !.pc = "delete vault", !.of = v]
  <2>2. Holds(r, Known) /\ r.locks = {}
    BY DEF Holds, Subject, Staging, Standing, Idle, Kinds, OfPerson
  <2> HIDE DEF r
  <2> QED BY <2>1, <2>2, BeginAdvances DEF r
<1>4. CASE AddMemberShareVault(c)
  <2>1. CASE End(c)
    BY <2>1, EndAdvances
  <2>2. CASE client' = [client EXCEPT ![c].pc = "insert", ![c].locks = VaultLock(c)]
    <3> DEFINE x == client[c]
               y == client'[c]
    <3>1. client' = [d \in Clients |-> client'[d]] /\ \A d \in Clients \ {c} : client'[d] = client[d]
      BY <2>2 DEF AccessInv, AdminInv, ClientShape
    <3>2. DOMAIN client[c] = DOMAIN Idle
      BY DEF AccessInv, AdminInv, ClientShape
    <3>3. /\ DOMAIN y = DOMAIN x /\ y.op = x.op /\ y.user = x.user /\ y.of = x.of /\ y.ids = x.ids
          /\ y.seen = x.seen /\ y.plans = x.plans /\ y.staged = x.staged /\ y.fired = x.fired
          /\ y.reclaim = x.reclaim /\ y.locks = {VaultShare(x.of)} /\ y.pc = "insert"
      BY <2>2, <3>2 DEF VaultLock, AccessInv, AdminInv, ClientShape, Idle
    <3>4. x.op = "add member" /\ Holds(x, Known)
      BY <1>4, Carries DEF AddMemberShareVault, At
    <3>5. \A lock \in y.locks : lock \in x.locks \/ IsShare(lock) \/ Free(c, lock)
      BY <3>3 DEF IsShare, VaultShare
    <3> HIDE DEF x, y
    <3>6. Subject(y, Known) /\ Staging(y, Known) /\ Standing(y) /\ y.seen \in Nat
      BY <3>3, <3>4 DEF Holds, Subject, Staging, Standing, OfPerson
    <3> QED BY <3>1, <3>3, <3>5, <3>6, GoesOn DEF x, y
  <2> QED BY <1>4, <2>1, <2>2 DEF AddMemberShareVault
<1>5. CASE CreateVaultWrite(c) \/ AddMemberWrite(c) \/ DeleteVault(c)
  BY <1>5, EndAdvances DEF CreateVaultWrite, AddMemberWrite, DeleteVault
<1>6. CASE RevokeMember(c)
  BY <1>6 DEF RevokeMember
<1> QED BY <1>1, <1>2, <1>3, <1>4, <1>5, <1>6 DEF VaultStep

LEMMA OAuthAdvances ==
    ASSUME AccessInv, NEW c \in Clients, OAuthStep(c)
    PROVE  Advances(c)
<1>1. CASE ConsentCheck(c)
  <2>1. PICK u \in Users :
          Begin(c, "consent", [Idle EXCEPT !.op = "consent", !.pc = "issue code", !.user = u,
                                           !.seen = users[u].epoch])
    BY <1>1 DEF ConsentCheck
  <2> DEFINE seen == users[u].epoch
             r == [Idle EXCEPT !.op = "consent", !.pc = "issue code", !.user = u, !.seen = seen]
  <2>2. seen \in Nat
    BY DEF AccessInv, AdminInv, UserRecord
  <2>3. Begin(c, "consent", r)
    BY <2>1
  <2> HIDE DEF seen
  <2>4. Holds(r, Known) /\ r.locks = {}
    BY <2>2 DEF Holds, Subject, Staging, Standing, Idle, Kinds, OfPerson
  <2> HIDE DEF r
  <2> QED BY <2>3, <2>4, BeginAdvances
<1>2. CASE ExchangeRead(c)
  <2>1. PICK i \in DOMAIN codes, valid \in {"valid", "wrong verifier"} :
          Begin(c, "exchange", [Idle EXCEPT !.op = "exchange", !.pc = "burn code", !.ids = <<i>>,
                                            !.user = codes[i].user, !.change = valid])
    BY <1>2 DEF ExchangeRead
  <2> DEFINE u == codes[i].user
             r == [Idle EXCEPT !.op = "exchange", !.pc = "burn code", !.ids = <<i>>,
                               !.user = u, !.change = valid]
  <2>2. u \in Users
    BY OAuthRows DEF AccessInv, TablesTyped, CodeRecord
  <2>3. Named(<<i>>, Known.codes)
    BY OneRow DEF Known
  <2>4. Begin(c, "exchange", r)
    BY <2>1
  <2> HIDE DEF u
  <2>5. Holds(r, Known) /\ r.locks = {}
    BY <2>2, <2>3 DEF Holds, Subject, Staging, Standing, Idle, Kinds, OfPerson
  <2> HIDE DEF r
  <2> QED BY <2>4, <2>5, BeginAdvances
<1>3. ASSUME client[c].op = "exchange", NEW pc, NEW seen \in Nat,
             client' = [client EXCEPT ![c].pc = pc, ![c].seen = seen]
      PROVE  Advances(c)
  <2> DEFINE x == client[c]
             y == client'[c]
  <2>1. client' = [d \in Clients |-> client'[d]] /\ \A d \in Clients \ {c} : client'[d] = client[d]
    BY <1>3 DEF AccessInv, AdminInv, ClientShape
  <2>2. DOMAIN client[c] = DOMAIN Idle
    BY DEF AccessInv, AdminInv, ClientShape
  <2>3. /\ DOMAIN y = DOMAIN x /\ y.op = x.op /\ y.user = x.user /\ y.of = x.of /\ y.ids = x.ids
        /\ y.seen = seen /\ y.plans = x.plans /\ y.staged = x.staged /\ y.fired = x.fired
        /\ y.reclaim = x.reclaim /\ y.locks = x.locks
    BY <1>3, <2>2 DEF AccessInv, AdminInv, ClientShape, Idle
  <2>4. x.op = "exchange" /\ Holds(x, Known)
    BY <1>3, Carries
  <2> HIDE DEF x, y
  <2>5. Subject(y, Known) /\ Staging(y, Known) /\ Standing(y) /\ y.seen \in Nat
    BY <2>3, <2>4 DEF Holds, Subject, Staging, Standing, OfPerson
  <2> QED BY <2>1, <2>3, <2>5, GoesOn DEF x, y
<1>4. client[c].seen \in Nat /\ DOMAIN client[c] = DOMAIN Idle
      /\ client = [d \in Clients |-> client[d]]
  BY Carries DEF Holds, AccessInv, AdminInv, ClientShape
<1>5. CASE ExchangeBurn(c)
  <2> DEFINE pc == IF Unburnt(Head(client[c].ids)) THEN "load person" ELSE "replay"
  <2>1. End(c) \/ client' = [client EXCEPT ![c].pc = pc]
    BY <1>5 DEF ExchangeBurn
  <2>2. CASE client' = [client EXCEPT ![c].pc = pc]
    <3> HIDE DEF pc
    <3> DEFINE seen == client[c].seen
    <3>1. client' = [client EXCEPT ![c].pc = pc, ![c].seen = seen]
      BY <2>2, <1>4 DEF Idle
    <3>2. client[c].op = "exchange" /\ seen \in Nat
      BY <1>4, <1>5 DEF ExchangeBurn, At
    <3> HIDE DEF seen
    <3> QED BY <3>1, <3>2, <1>3
  <2> QED BY <2>1, <2>2, EndAdvances
<1>6. CASE ExchangeLoad(c)
  <2> DEFINE seen == users[client[c].user].epoch
             pc == "connect"
  <2>1. client[c].op = "exchange" /\ client[c].user \in Users
    BY <1>6, Carries DEF ExchangeLoad, At, Holds, Subject, OfPerson
  <2>2. seen \in Nat
    BY <2>1 DEF AccessInv, AdminInv, UserRecord
  <2>3. End(c) \/ client' = [client EXCEPT ![c].pc = pc, ![c].seen = seen]
    BY <1>6 DEF ExchangeLoad
  <2> HIDE DEF seen, pc
  <2> QED BY <2>1, <2>2, <2>3, <1>3, EndAdvances
<1>7. CASE ExchangeReplay(c)
  <2> DEFINE i == Head(client[c].ids)
             g == codes[i].connection
  <2>1. i \in DOMAIN codes
    BY <1>7, Carries, FirstNamed DEF Holds, Subject, Named, Known, ExchangeReplay, At
  <2>2. g \in 0 .. Len(connections) /\ Len(connections) \in Nat /\ DOMAIN connections = 1 .. Len(connections)
    BY <2>1, OAuthRows DEF AccessInv, TablesTyped, OAuthTyped
  <2>3. g # 0 => g \in DOMAIN connections
    BY <2>2
  <2>4. \/ g # 0 /\ client' = [client EXCEPT ![c] = Disconnecting(g)]
        \/ End(c)
    BY <1>7 DEF ExchangeReplay, End
  <2> HIDE DEF g
  <2>5. CASE g # 0 /\ client' = [client EXCEPT ![c] = Disconnecting(g)]
    <3> DEFINE r == Disconnecting(g)
    <3>1. Holds(r, Known) /\ r.locks = {}
      BY <2>3, <2>5, DisconnectingHolds
    <3> HIDE DEF r
    <3> QED BY <2>5, <3>1, ReplacedAdvances DEF r
  <2> QED BY <2>4, <2>5, EndAdvances
<1>8. CASE RefreshRead(c)
  <2>1. PICK t \in DOMAIN tokens :
          \/ Begin(c, "refresh", Disconnecting(tokens[t].connection))
          \/ Begin(c, "refresh", [Idle EXCEPT !.op = "refresh", !.pc = "burn", !.ids = <<t>>])
    BY <1>8 DEF RefreshRead
  <2> DEFINE g == tokens[t].connection
             r == [Idle EXCEPT !.op = "refresh", !.pc = "burn", !.ids = <<t>>]
             s == Disconnecting(g)
  <2>2. g \in DOMAIN connections
    BY DEF AccessInv, TablesTyped, OAuthTyped
  <2>3. Begin(c, "refresh", s) \/ Begin(c, "refresh", r)
    BY <2>1
  <2> HIDE DEF g
  <2>4. Holds(s, Known) /\ s.locks = {}
    BY <2>2, DisconnectingHolds
  <2>5. Named(<<t>>, Known.tokens)
    BY OneRow DEF Known
  <2>6. Holds(r, Known) /\ r.locks = {}
    BY <2>5 DEF Holds, Subject, Staging, Standing, Idle, Kinds, OfPerson
  <2> HIDE DEF r, s
  <2> QED BY <2>3, <2>4, <2>6, BeginAdvances
<1>9. CASE RefreshBurn(c)
  <2> DEFINE x == client[c]
             y == client'[c]
             t == Head(x.ids)
  <2>1. \/ End(c)
        \/ client' = [client EXCEPT ![c].pc = "rotate", ![c].locks = @ \cup {TokenRow(t)}]
    BY <1>9 DEF RefreshBurn
  <2>2. CASE client' = [client EXCEPT ![c].pc = "rotate", ![c].locks = @ \cup {TokenRow(t)}]
    <3>1. client' = [d \in Clients |-> client'[d]] /\ \A d \in Clients \ {c} : client'[d] = client[d]
      BY <2>2, <1>4
    <3>2. /\ DOMAIN y = DOMAIN x /\ y.op = x.op /\ y.user = x.user /\ y.of = x.of /\ y.ids = x.ids
          /\ y.seen = x.seen /\ y.plans = x.plans /\ y.staged = x.staged /\ y.fired = x.fired
          /\ y.reclaim = x.reclaim /\ y.locks = x.locks \cup {TokenRow(t)} /\ y.pc = "rotate"
      BY <2>2, <1>4 DEF Idle
    <3>3. x.op = "refresh" /\ Holds(x, Known) /\ Free(c, TokenRow(t))
      BY <1>9, Carries DEF RefreshBurn, At, Waits, Wants
    <3>4. \A lock \in y.locks : lock \in x.locks \/ IsShare(lock) \/ Free(c, lock)
      BY <3>2, <3>3
    <3> HIDE DEF x, y
    <3>5. Subject(y, Known) /\ Staging(y, Known) /\ Standing(y) /\ y.seen \in Nat
      BY <3>2, <3>3 DEF Holds, Subject, Staging, Standing, OfPerson
    <3> QED BY <3>1, <3>2, <3>4, <3>5, GoesOn DEF x, y
  <2> QED BY <2>1, <2>2, EndAdvances
<1>10. CASE DisconnectRead(c)
  <2>1. PICK g \in DOMAIN connections : Begin(c, "disconnect", Disconnecting(g))
    BY <1>10 DEF DisconnectRead
  <2> DEFINE r == Disconnecting(g)
  <2>2. Holds(r, Known) /\ r.locks = {}
    BY DisconnectingHolds
  <2> HIDE DEF r
  <2> QED BY <2>1, <2>2, BeginAdvances DEF r
<1>11. CASE DisconnectLock(c)
  <2> DEFINE x == client[c]
             y == client'[c]
             g == Head(x.ids)
             all == TokensOf(g)
  <2>1. \/ End(c)
        \/ client' = [client EXCEPT ![c].pc = "delete tokens", ![c].locks = @ \cup {ConnectionRow(g)},
                                    ![c].staged = all]
    BY <1>11 DEF DisconnectLock
  <2>2. CASE client' = [client EXCEPT ![c].pc = "delete tokens",
                                      ![c].locks = @ \cup {ConnectionRow(g)}, ![c].staged = all]
    <3>1. client' = [d \in Clients |-> client'[d]] /\ \A d \in Clients \ {c} : client'[d] = client[d]
      BY <2>2, <1>4
    <3>2. /\ DOMAIN y = DOMAIN x /\ y.op = x.op /\ y.user = x.user /\ y.of = x.of /\ y.ids = x.ids
          /\ y.seen = x.seen /\ y.plans = x.plans /\ y.staged = all /\ y.fired = x.fired
          /\ y.reclaim = x.reclaim /\ y.locks = x.locks \cup {ConnectionRow(g)}
          /\ y.pc = "delete tokens"
      BY <2>2, <1>4 DEF Idle
    <3>3. x.op = "disconnect" /\ Holds(x, Known) /\ Free(c, ConnectionRow(g))
      BY <1>11, Carries DEF DisconnectLock, At, Waits, Wants
    <3>4. \A lock \in y.locks : lock \in x.locks \/ IsShare(lock) \/ Free(c, lock)
      BY <3>2, <3>3
    <3>5. all \subseteq DOMAIN tokens
      BY DEF TokensOf
    <3> HIDE DEF x, y, all
    <3>6. Subject(y, Known) /\ Staging(y, Known) /\ Standing(y) /\ y.seen \in Nat
      BY <3>2, <3>3, <3>5 DEF Holds, Subject, Staging, Standing, OfPerson, Known
    <3> QED BY <3>1, <3>2, <3>4, <3>6, GoesOn DEF x, y
  <2> QED BY <2>1, <2>2, EndAdvances
<1>12. CASE ConsentWrite(c) \/ ExchangeConnect(c) \/ RefreshCommit(c) \/ DisconnectCommit(c)
  BY <1>12, EndAdvances DEF ConsentWrite, ExchangeConnect, RefreshCommit, DisconnectCommit
<1> QED BY <1>1, <1>2, <1>5, <1>6, <1>7, <1>8, <1>9, <1>10, <1>11, <1>12 DEF OAuthStep

LEMMA AccessInit == Init => AccessInv
<1> SUFFICES ASSUME Init PROVE AccessInv
  OBVIOUS
<1>1. PICK s \in Starts :
        /\ users = s.users /\ grants = s.grants /\ requests = <<>>
        /\ assignments = s.assignments /\ vaults = s.vaults /\ members = s.members
        /\ codes = <<>> /\ connections = s.connections /\ tokens = s.tokens
  BY DEF Init
<1>2. requests \in Seq(RequestRecord) /\ codes \in Seq(CodeRecord)
      /\ DOMAIN requests = {} /\ DOMAIN codes = {}
  BY <1>1, EmptySeq
<1>3. TablesTyped
  BY <1>1, <1>2, StartsAssumption
     DEF TablesTyped, GrantsTyped, RequestsTyped, AssignmentsTyped, VaultsTyped, OAuthTyped
<1>4. \A c \in Clients : client[c] = Idle
  BY DEF Init
<1>5. Exclusive
  BY <1>4 DEF Exclusive, Idle
<1> QED BY <1>3, <1>4, <1>5, IdleHolds, AdminInit DEF AccessInv

LEMMA AccessStep == AccessInv /\ [Next]_accessVars => AccessInv'
<1> SUFFICES ASSUME AccessInv, [Next]_accessVars PROVE AccessInv'
  OBVIOUS
<1>1. AdminInv'
  BY AdminStep DEF AccessInv
<1>2. CASE Sweep
  BY <1>1, <1>2, SweepAdvances, AdvancesKeeps
<1>3. CASE TimePasses \/ TokenAges
  BY <1>1, <1>3, AloneWrites, SameClientsKeep
<1>4. CASE UNCHANGED accessVars
  BY <1>1, <1>4, SameClientsKeep DEF accessVars
<1>5. ASSUME NEW c \in Clients, Work(c) PROVE Advances(c) \/ UNCHANGED client
  BY <1>5, AccountAdvances, GrantAdvances, RequestAdvances, AssignmentAdvances, VaultAdvances,
     OAuthAdvances DEF Work
<1>6. ASSUME NEW c \in Clients, Fail(c) PROVE Advances(c)
  BY <1>6, EndAdvances DEF Fail
<1>7. CASE \E c \in Clients : Work(c) \/ Fail(c)
  BY <1>1, <1>5, <1>6, <1>7, AdvancesKeeps, SameClientsKeep
<1> QED BY <1>2, <1>3, <1>4, <1>7 DEF Next

LEMMA AccessHolds == Spec => []AccessInv
BY AccessInit, AccessStep, PTL DEF Spec

\* Every table of access and accounts keeps its type, and every request names
\* rows that exist, for any number of them and any handlers and failures.
THEOREM AccessTypes == Spec => []TypeOK
<1>1. AccessInv => TypeOK
  <2> SUFFICES ASSUME AccessInv PROVE TypeOK
    OBVIOUS
  <2>1. users \in [Users -> UserRecord] /\ TablesTyped
    BY DEF AccessInv, AdminInv
  <2>2. ASSUME NEW c \in Clients
        PROVE  /\ client[c].user \in Users \cup {NoOne}
               /\ client[c].of \in Apps \cup Assets \cup Vaults \cup {NoOne}
               /\ client[c].plans \subseteq Apps
               /\ client[c].staged \subseteq
                    IF client[c].op = "disconnect" THEN DOMAIN tokens ELSE DOMAIN grants
               /\ client[c].fired \subseteq client[c].staged
               /\ client[c].reclaim \subseteq DOMAIN assignments
    BY Carries DEF Holds, Staging, Known
  <2> QED BY <2>1, <2>2 DEF TypeOK, TablesTyped, GrantsTyped, RequestsTyped, AssignmentsTyped,
                            VaultsTyped, OAuthTyped
<1> QED BY <1>1, AccessHolds, PTL

-----------------------------------------------------------------------------
(***************************************************************************)
(* What kind of request a step leaves behind.                              *)
(***************************************************************************)
LEMMA AccountOps ==
    ASSUME AccessInv, NEW c \in Clients, AccountStep(c)
    PROVE  client'[c] = client[c] \/ client'[c].op \in {"none", "update", "reset", "offboard"}
<1>1. client = [d \in Clients |-> client[d]] /\ DOMAIN client[c] = DOMAIN Idle
  BY DEF AccessInv, AdminInv, ClientShape
<1>2. CASE UpdateRead(c)
  <2>1. PICK u \in Users, change \in Changes :
          Begin(c, change,
             [Idle EXCEPT !.op = "update", !.user = u, !.change = change,
                          !.seen = IF users[u].active THEN 1 ELSE 0,
                          !.pc = IF change \in {"demote", "deactivate"} THEN "admins" ELSE "write user"])
    BY <1>2 DEF UpdateRead
  <2> DEFINE seen == IF users[u].active THEN 1 ELSE 0
             pc == IF change \in {"demote", "deactivate"} THEN "admins" ELSE "write user"
  <2>2. Begin(c, change,
          [Idle EXCEPT !.op = "update", !.user = u, !.change = change, !.seen = seen, !.pc = pc])
    BY <2>1
  <2> HIDE DEF seen, pc
  <2> QED BY <1>1, <2>2 DEF Begin, Idle
<1>3. CASE UpdateCheckAdmins(c)
  <2>1. CASE End(c)
    BY <1>1, <2>1 DEF End, Idle
  <2>2. CASE LockAdmins(c, "write user")
    BY <1>1, <1>3, <2>2 DEF UpdateCheckAdmins, At, LockAdmins, Idle
  <2> QED BY <1>3, <2>1, <2>2 DEF UpdateCheckAdmins
<1>4. CASE UpdateWrite(c)
  BY <1>1, <1>4 DEF UpdateWrite, At, Begin, End, Idle
<1>5. CASE ResetRead(c)
  BY <1>1, <1>5, ZenonT(60) DEF ResetRead, At, Begin, End, Idle
<1>6. CASE ResetWrite(c)
  BY <1>1, <1>6 DEF ResetWrite, At, Begin, End, Idle
<1>7. CASE OffboardRead(c)
  BY <1>1, <1>7 DEF OffboardRead, At, Begin, End, Idle
<1>8. CASE OffboardCheckAdmins(c)
  <2>1. CASE End(c)
    BY <1>1, <2>1 DEF End, Idle
  <2>2. CASE LockAdmins(c, "user row")
    BY <1>1, <1>8, <2>2 DEF OffboardCheckAdmins, At, LockAdmins, Idle
  <2> QED BY <1>8, <2>1, <2>2 DEF OffboardCheckAdmins
<1>9. CASE OffboardLockUser(c)
  <2>1. client[c].op = "offboard"
    BY <1>9 DEF OffboardLockUser, At
  <2>2. PICK order, locks :
          client' = [client EXCEPT ![c].pc = "offboard grants", ![c].ids = order, ![c].locks = locks]
    BY <1>9 DEF OffboardLockUser
  <2> QED BY <1>1, <2>1, <2>2 DEF Idle
<1>10. CASE OffboardGrant(c)
  BY <1>1, <1>10 DEF OffboardGrant, At, Begin, End, Idle
<1>11. CASE OffboardReadAssignments(c)
  BY <1>1, <1>11 DEF OffboardReadAssignments, At, Begin, End, Idle
<1>12. CASE OffboardCommit(c)
  BY <1>1, <1>12 DEF OffboardCommit, At, Begin, End, Idle
<1>13. CASE SignOutEverywhere(c)
  BY <1>1, <1>13 DEF SignOutEverywhere, At, Begin, End, Idle
<1>14. CASE RestoreUser(c)
  BY <1>1, <1>14 DEF RestoreUser, At, Begin, End, Idle
<1> QED BY <1>2, <1>3, <1>4, <1>5, <1>6, <1>7, <1>8, <1>9, <1>10, <1>11, <1>12, <1>13, <1>14 DEF AccountStep

LEMMA GrantOps ==
    ASSUME AccessInv, NEW c \in Clients, GrantStep(c)
    PROVE  client'[c] = client[c] \/ client'[c].op \in {"none", "grant", "revoke"}
<1>1. client = [d \in Clients |-> client[d]] /\ DOMAIN client[c] = DOMAIN Idle
  BY DEF AccessInv, AdminInv, ClientShape
<1>2. CASE GrantCheck(c)
  BY <1>1, <1>2, ZenonT(60) DEF GrantCheck, At, Begin, End, Idle
<1>3. CASE GrantWrite(c)
  BY <1>1, <1>3 DEF GrantWrite, At, Begin, End, Idle
<1>4. CASE UpdateExpiry(c)
  BY <1>1, <1>4 DEF UpdateExpiry, At, Begin, End, Idle
<1>5. CASE RevokeRead(c)
  BY <1>1, <1>5 DEF RevokeRead, At, Begin, End, Idle, Revoking
<1>6. CASE RevokeCas(c)
  BY <1>1, <1>6 DEF RevokeCas, At, Begin, End, Idle
<1>7. CASE RevokeCount(c)
  BY <1>1, <1>7 DEF RevokeCount, At, Begin, End, Idle
<1>8. CASE RevokeCommit(c)
  BY <1>1, <1>8 DEF RevokeCommit, At, Begin, End, Idle
<1> QED BY <1>2, <1>3, <1>4, <1>5, <1>6, <1>7, <1>8 DEF GrantStep

LEMMA RequestOps ==
    ASSUME AccessInv, NEW c \in Clients, RequestStep(c)
    PROVE  client'[c] = client[c] \/ client'[c].op \in {"none", "request", "approve", "deny"}
<1>1. client = [d \in Clients |-> client[d]] /\ DOMAIN client[c] = DOMAIN Idle
  BY DEF AccessInv, AdminInv, ClientShape
<1>2. CASE RequestCheck(c)
  BY <1>1, <1>2, ZenonT(60) DEF RequestCheck, At, Begin, End, Idle
<1>3. CASE RequestInsert(c)
  BY <1>1, <1>3 DEF RequestInsert, At, Begin, End, Idle
<1>4. CASE ApproveCheck(c)
  <2>1. PICK i \in DOMAIN requests : \E plans \in SUBSET {requests[i].of} :
          Begin(c, "approve", [Idle EXCEPT !.op = "approve", !.pc = "insert",
                                           !.user = requests[i].user, !.of = requests[i].of,
                                           !.ids = <<i>>, !.plans = plans])
    BY <1>4 DEF ApproveCheck
  <2> DEFINE u == requests[i].user
             a == requests[i].of
  <2>2. PICK plans :
          Begin(c, "approve", [Idle EXCEPT !.op = "approve", !.pc = "insert", !.user = u, !.of = a,
                                           !.ids = <<i>>, !.plans = plans])
    BY <2>1
  <2> HIDE DEF u, a
  <2> QED BY <1>1, <2>2 DEF Begin, Idle
<1>5. CASE ApproveCommit(c)
  BY <1>1, <1>5 DEF ApproveCommit, At, Begin, End, Idle
<1>6. CASE DenyCheck(c)
  BY <1>1, <1>6 DEF DenyCheck, At, Begin, End, Idle
<1>7. CASE DenyCommit(c)
  BY <1>1, <1>7 DEF DenyCommit, At, Begin, End, Idle
<1> QED BY <1>2, <1>3, <1>4, <1>5, <1>6, <1>7 DEF RequestStep

\* A request that begins is the one its operation sets up.
LEMMA BeginSets ==
    ASSUME NEW c \in Clients, NEW kind, NEW request, Begin(c, kind, request),
           client = [d \in Clients |-> client[d]]
    PROVE  client'[c] = request
BY DEF Begin

LEMMA AssignmentOps ==
    ASSUME AccessInv, NEW c \in Clients, AssignmentStep(c)
    PROVE  client'[c] = client[c] \/ client'[c].op \in {"none", "assign", "release"}
<1>1. client = [d \in Clients |-> client[d]] /\ DOMAIN client[c] = DOMAIN Idle
  BY DEF AccessInv, AdminInv, ClientShape
<1>2. CASE AssignCheck(c)
  BY <1>1, <1>2, ZenonT(60) DEF AssignCheck, At, Begin, End, Idle
<1>3. CASE AssignWrite(c)
  BY <1>1, <1>3 DEF AssignWrite, At, Begin, End, Idle
<1>4. CASE ReleaseRead(c)
  BY <1>1, <1>4 DEF ReleaseRead, At, Begin, End, Idle
<1>5. CASE ReleaseCommit(c)
  BY <1>1, <1>5 DEF ReleaseCommit, At, Begin, End, Idle
<1>6. CASE Acknowledge(c)
  BY <1>1, <1>6 DEF Acknowledge, At, Begin, End, Idle
<1> QED BY <1>2, <1>3, <1>4, <1>5, <1>6 DEF AssignmentStep

LEMMA VaultOps ==
    ASSUME AccessInv, NEW c \in Clients, VaultStep(c)
    PROVE  client'[c] = client[c] \/ client'[c].op \in {"none", "create vault", "add member", "delete vault"}
<1>1. client = [d \in Clients |-> client[d]] /\ DOMAIN client[c] = DOMAIN Idle
  BY DEF AccessInv, AdminInv, ClientShape
<1>2. CASE CreateVaultCheck(c)
  <2>1. PICK v \in Vaults, u \in Users :
            Begin(c, "create vault",
              [Idle EXCEPT !.op = "create vault", !.pc = "insert", !.user = u, !.of = v])
    BY <1>2 DEF CreateVaultCheck
  <2>2. client'[c] = [Idle EXCEPT !.op = "create vault", !.pc = "insert", !.user = u, !.of = v]
    BY <1>1, <2>1, BeginSets
  <2> QED BY <2>2 DEF Idle
<1>3. CASE CreateVaultWrite(c)
  BY <1>1, <1>3 DEF CreateVaultWrite, At, Begin, End, Idle
<1>4. CASE AddMemberCheck(c)
  BY <1>1, <1>4, ZenonT(60) DEF AddMemberCheck, At, Begin, End, Idle
<1>5. CASE AddMemberShareVault(c)
  <2>1. CASE End(c)
    BY <1>1, <2>1 DEF End, Idle
  <2>2. CASE client' = [client EXCEPT ![c].pc = "insert", ![c].locks = VaultLock(c)]
    BY <1>1, <1>5, <2>2 DEF AddMemberShareVault, At, Idle
  <2> QED BY <1>5, <2>1, <2>2 DEF AddMemberShareVault
<1>6. CASE AddMemberWrite(c)
  BY <1>1, <1>6 DEF AddMemberWrite, At, Begin, End, Idle
<1>7. CASE RevokeMember(c)
  BY <1>1, <1>7 DEF RevokeMember, At, Begin, End, Idle
<1>8. CASE DeleteVaultCheck(c)
  BY <1>1, <1>8 DEF DeleteVaultCheck, At, Begin, End, Idle
<1>9. CASE DeleteVault(c)
  BY <1>1, <1>9 DEF DeleteVault, At, Begin, End, Idle
<1> QED BY <1>2, <1>3, <1>4, <1>5, <1>6, <1>7, <1>8, <1>9 DEF VaultStep

LEMMA OAuthOps ==
    ASSUME AccessInv, NEW c \in Clients, OAuthStep(c)
    PROVE  client'[c] = client[c] \/ client'[c].op \in {"none", "consent", "exchange", "refresh", "disconnect"}
<1>1. client = [d \in Clients |-> client[d]] /\ DOMAIN client[c] = DOMAIN Idle
  BY DEF AccessInv, AdminInv, ClientShape
<1>2. CASE ConsentCheck(c)
  <2>1. PICK u \in Users :
            Begin(c, "consent", [Idle EXCEPT !.op = "consent", !.pc = "issue code", !.user = u,
                                             !.seen = users[u].epoch])
    BY <1>2 DEF ConsentCheck
  <2>2. client'[c] = [Idle EXCEPT !.op = "consent", !.pc = "issue code", !.user = u,
                                  !.seen = users[u].epoch]
    BY <1>1, <2>1, BeginSets
  <2> QED BY <2>2 DEF Idle
<1>3. CASE ConsentWrite(c)
  BY <1>1, <1>3 DEF ConsentWrite, At, Begin, End, Idle
<1>4. CASE ExchangeRead(c)
  BY <1>1, <1>4 DEF ExchangeRead, At, Begin, End, Idle
<1>5. CASE ExchangeBurn(c)
  <2>1. CASE End(c)
    BY <1>1, <2>1 DEF End, Idle
  <2>2. CASE client' = [client EXCEPT ![c].pc = IF Unburnt(Head(client[c].ids)) THEN "load person"
                                                                                ELSE "replay"]
    <3>1. client'[c].op = client[c].op
      BY <1>1, <2>2 DEF Idle
    <3> QED BY <1>5, <3>1 DEF ExchangeBurn, At
  <2> QED BY <1>5, <2>1, <2>2 DEF ExchangeBurn
<1>6. CASE ExchangeLoad(c)
  <2>1. CASE End(c)
    BY <1>1, <2>1 DEF End, Idle
  <2>2. CASE client' = [client EXCEPT ![c].pc = "connect", ![c].seen = users[client[c].user].epoch]
    <3>1. client'[c].op = client[c].op
      BY <1>1, <2>2 DEF Idle
    <3> QED BY <1>6, <3>1 DEF ExchangeLoad, At
  <2> QED BY <1>6, <2>1, <2>2 DEF ExchangeLoad
<1>7. CASE ExchangeConnect(c)
  BY <1>1, <1>7 DEF ExchangeConnect, At, Begin, End, Idle
<1>8. CASE ExchangeReplay(c)
  BY <1>1, <1>8 DEF ExchangeReplay, At, Begin, End, Idle, Disconnecting
<1>9. CASE RefreshRead(c)
  BY <1>1, <1>9, ZenonT(60) DEF RefreshRead, At, Begin, End, Idle, Disconnecting
<1>10. CASE RefreshBurn(c)
  BY <1>1, <1>10 DEF RefreshBurn, At, Begin, End, Idle
<1>11. CASE RefreshCommit(c)
  BY <1>1, <1>11 DEF RefreshCommit, At, Begin, End, Idle
<1>12. CASE DisconnectRead(c)
  <2>1. PICK g \in DOMAIN connections : Begin(c, "disconnect", Disconnecting(g))
    BY <1>12 DEF DisconnectRead
  <2>2. client'[c] = Disconnecting(g)
    BY <1>1, <2>1, BeginSets
  <2> QED BY <2>2 DEF Disconnecting, Idle
<1>13. CASE DisconnectLock(c)
  <2>1. CASE End(c)
    BY <1>1, <2>1 DEF End, Idle
  <2>2. CASE client' = [client EXCEPT ![c].pc = "delete tokens",
                          ![c].locks = @ \cup {ConnectionRow(Head(client[c].ids))},
                          ![c].staged = TokensOf(Head(client[c].ids))]
    <3>1. client'[c].op = client[c].op
      BY <1>1, <2>2 DEF Idle
    <3> QED BY <1>13, <3>1 DEF DisconnectLock, At
  <2> QED BY <1>13, <2>1, <2>2 DEF DisconnectLock
<1>14. CASE DisconnectCommit(c)
  BY <1>1, <1>14 DEF DisconnectCommit, At, Begin, End, Idle
<1> QED BY <1>2, <1>3, <1>4, <1>5, <1>6, <1>7, <1>8, <1>9, <1>10, <1>11, <1>12, <1>13, <1>14 DEF OAuthStep

LEMMA Moves ==
    ASSUME AccessInv, [Next]_accessVars, NEW c \in Clients
    PROVE  \/ client'[c] = client[c] \/ client'[c].op = "none"
           \/ AccountStep(c) /\ client'[c].op \in {"update", "reset", "offboard"}
           \/ GrantStep(c) /\ client'[c].op \in {"grant", "revoke"}
           \/ RequestStep(c) /\ client'[c].op \in {"request", "approve", "deny"}
           \/ AssignmentStep(c) /\ client'[c].op \in {"assign", "release"}
           \/ VaultStep(c) /\ client'[c].op \in {"create vault", "add member", "delete vault"}
           \/ OAuthStep(c) /\ client'[c].op \in {"consent", "exchange", "refresh", "disconnect"}
           \/ Sweep /\ c = Sweeper /\ client'[c].op = "revoke"
<1>1. CASE Sweep
  <2>1. c # Sweeper => client'[c] = client[c]
    BY <1>1, SweepAdvances DEF Advances
  <2>2. PICK g, plans : client' = [client EXCEPT ![Sweeper] = Revoking(<<g>>, plans)]
    BY <1>1 DEF Sweep
  <2>3. c = Sweeper => client'[c].op = "revoke"
    BY <2>2 DEF Revoking, Idle, AccessInv, AdminInv, ClientShape
  <2> QED BY <1>1, <2>1, <2>3
<1>2. CASE TimePasses \/ TokenAges \/ UNCHANGED accessVars
  BY <1>2, AloneWrites DEF accessVars
<1>3. ASSUME NEW d \in Clients, Fail(d) PROVE client'[c] = client[c] \/ client'[c].op = "none"
  BY <1>3 DEF Fail, End, Idle, AccessInv, AdminInv, ClientShape
<1>4. ASSUME NEW d \in Clients, Work(d), d # c PROVE client'[c] = client[c]
  BY <1>4, AccountAdvances, GrantAdvances, RequestAdvances, AssignmentAdvances, VaultAdvances,
     OAuthAdvances DEF Work, Advances
<1>5. ASSUME Work(c)
      PROVE  \/ client'[c] = client[c] \/ client'[c].op = "none"
             \/ AccountStep(c) /\ client'[c].op \in {"update", "reset", "offboard"}
             \/ GrantStep(c) /\ client'[c].op \in {"grant", "revoke"}
             \/ RequestStep(c) /\ client'[c].op \in {"request", "approve", "deny"}
             \/ AssignmentStep(c) /\ client'[c].op \in {"assign", "release"}
             \/ VaultStep(c) /\ client'[c].op \in {"create vault", "add member", "delete vault"}
             \/ OAuthStep(c) /\ client'[c].op \in {"consent", "exchange", "refresh", "disconnect"}
  BY <1>5, AccountOps, GrantOps, RequestOps, AssignmentOps, VaultOps, OAuthOps DEF Work
<1> QED BY <1>1, <1>2, <1>3, <1>4, <1>5 DEF Next

LEMMA BegunAs ==
    ASSUME AccessInv, NEW c \in Clients, NEW kind, NEW r, Begin(c, kind, r)
    PROVE  client'[c] = r
BY DEF Begin, AccessInv, AdminInv, ClientShape

LEMMA EndedAs ==
    ASSUME AccessInv, NEW c \in Clients, End(c)
    PROVE  client'[c] = Idle /\ client'[c].op = "none" /\ client'[c].staged = {}
BY DEF End, Idle, AccessInv, AdminInv, ClientShape

\* A revoke begins with nothing staged, and goes row by row.
LEMMA RevokeMoves ==
    ASSUME AccessInv, [Next]_accessVars, NEW c \in Clients, client'[c].op = "revoke"
    PROVE  \/ client'[c] = client[c]
           \/ RevokeRead(c)
           \/ Sweep /\ c = Sweeper
           \/ RevokeCas(c) \/ RevokeCount(c)
<1>1. client'[c] = client[c] \/ GrantStep(c) \/ (Sweep /\ c = Sweeper)
  BY Moves
<1>2. ~ End(c)
  BY EndedAs
<1>3. ~ GrantCheck(c)
  <2> SUFFICES ASSUME GrantCheck(c) PROVE FALSE
    OBVIOUS
  <2>1. PICK u, a : \E plans : Begin(c, "grant", [Idle EXCEPT !.op = "grant", !.pc = "insert",
                                                    !.user = u, !.of = a, !.plans = plans])
    BY DEF GrantCheck
  <2>2. PICK plans : Begin(c, "grant", [Idle EXCEPT !.op = "grant", !.pc = "insert",
                                                    !.user = u, !.of = a, !.plans = plans])
    BY <2>1
  <2> QED BY <2>2 DEF Begin, Idle, AccessInv, AdminInv, ClientShape
<1> QED BY <1>1, <1>2, <1>3 DEF GrantStep, GrantWrite, UpdateExpiry, RevokeCommit

LEMMA OffboardMoves ==
    ASSUME AccessInv, [Next]_accessVars, NEW c \in Clients, client'[c].op = "offboard"
    PROVE  \/ client'[c] = client[c]
           \/ OffboardRead(c)
           \/ OffboardCheckAdmins(c) /\ LockAdmins(c, "user row")
           \/ OffboardLockUser(c) \/ OffboardGrant(c) \/ OffboardReadAssignments(c)
<1>1. client'[c] = client[c] \/ AccountStep(c)
  BY Moves
<1>2. ~ End(c)
  BY EndedAs
<1>3. client = [d \in Clients |-> client[d]] /\ DOMAIN client[c] = DOMAIN Idle
  BY DEF AccessInv, AdminInv, ClientShape
<1>4. ~ UpdateRead(c)
  <2> SUFFICES ASSUME UpdateRead(c) PROVE FALSE
    OBVIOUS
  <2>1. PICK u \in Users, change \in Changes :
          Begin(c, change,
             [Idle EXCEPT !.op = "update", !.user = u, !.change = change,
                          !.seen = IF users[u].active THEN 1 ELSE 0,
                          !.pc = IF change \in {"demote", "deactivate"} THEN "admins" ELSE "write user"])
    BY DEF UpdateRead
  <2> DEFINE seen == IF users[u].active THEN 1 ELSE 0
             pc == IF change \in {"demote", "deactivate"} THEN "admins" ELSE "write user"
  <2>2. Begin(c, change,
          [Idle EXCEPT !.op = "update", !.user = u, !.change = change, !.seen = seen, !.pc = pc])
    BY <2>1
  <2> HIDE DEF seen, pc
  <2> QED BY <1>3, <2>2 DEF Begin, Idle
<1>5. ASSUME ResetRead(c) PROVE FALSE
  <2>1. PICK u, ceiling : Begin(c, "reset", [Idle EXCEPT !.op = "reset", !.pc = "write user",
                                                         !.user = u, !.change = ceiling])
    BY <1>5 DEF ResetRead
  <2> QED BY <1>3, <2>1 DEF Begin, Idle
<1>6. ASSUME UpdateCheckAdmins(c) PROVE FALSE
  <2>1. LockAdmins(c, "write user") /\ client[c].op = "update"
    BY <1>2, <1>6 DEF UpdateCheckAdmins, At
  <2> QED BY <1>3, <2>1 DEF LockAdmins, Idle
<1> QED BY <1>1, <1>2, <1>4, <1>5, <1>6
        DEF AccountStep, UpdateWrite, ResetWrite, OffboardCheckAdmins, OffboardCommit,
            SignOutEverywhere, RestoreUser

LEMMA AddMemberMoves ==
    ASSUME AccessInv, [Next]_accessVars, NEW c \in Clients, client'[c].op = "add member"
    PROVE  \/ client'[c] = client[c]
           \/ AddMemberCheck(c)
           \/ AddMemberShareVault(c) /\ client' = [client EXCEPT ![c].pc = "insert",
                                                                 ![c].locks = VaultLock(c)]
<1>1. client'[c] = client[c] \/ VaultStep(c)
  BY Moves
<1>2. ~ End(c)
  BY EndedAs
<1>3. ~ CreateVaultCheck(c) /\ ~ DeleteVaultCheck(c)
  BY ZenonT(60) DEF CreateVaultCheck, DeleteVaultCheck, Begin, Idle, AccessInv, AdminInv, ClientShape
<1> QED BY <1>1, <1>2, <1>3 DEF VaultStep, CreateVaultWrite, AddMemberShareVault, AddMemberWrite,
                                RevokeMember, DeleteVault

-----------------------------------------------------------------------------
(***************************************************************************)
(* Revocations.  A staged grant is active until its transaction commits,    *)
(* for whoever else revoked it would have to hold its row.                  *)
(***************************************************************************)
Revokers == {"revoke", "offboard"}

StagedActive ==
    \A c \in Clients : client[c].op \in Revokers =>
        \A g \in client[c].staged : grants[g].state = "active"

\* What of a row says whether and how it was revoked.
RowKeeps(g) ==
    /\ grants'[g].state = grants[g].state /\ grants'[g].by = grants[g].by
    /\ grants'[g].how = grants[g].how /\ grants'[g].runs = grants[g].runs

Commits(d) == RevokeCommit(d) \/ OffboardCommit(d)

LEMMA AppendedKeeps ==
    ASSUME GrantsTyped, NEW u \in Users, NEW a \in Apps, NEW plans,
           grants' = Append(grants, NewGrant(u, a, plans)), NEW g \in DOMAIN grants
    PROVE  grants'[g] = grants[g]
<1> DEFINE r == NewGrant(u, a, plans)
<1>1. r \in GrantRecord /\ grants \in Seq(GrantRecord) /\ grants' = Append(grants, r)
  BY NewGrantTyped DEF GrantsTyped
<1> HIDE DEF r
<1> QED BY <1>1, OneMore

LEMMA ExpiryKeeps ==
    ASSUME GrantsTyped, NEW g \in DOMAIN grants, NEW h \in DOMAIN grants, NEW e,
           grants' = [grants EXCEPT ![h].expiry = e]
    PROVE  RowKeeps(g)
<1>1. grants[g] \in GrantRecord
  BY GrantRows
<1>2. grants'[g] = IF g = h THEN [grants[g] EXCEPT !.expiry = e] ELSE grants[g]
  OBVIOUS
<1> QED BY <1>1, <1>2 DEF RowKeeps, GrantRecord

LEMMA GrantRowMoves ==
    ASSUME AccessInv, [Next]_accessVars, NEW g \in DOMAIN grants
    PROVE  \/ RowKeeps(g)
           \/ \E d \in Clients : Commits(d) /\ g \in client[d].staged
<1>1. GrantsTyped
  BY DEF AccessInv, TablesTyped
<1>2. CASE UNCHANGED grants
  BY <1>2 DEF RowKeeps
<1>3. CASE TimePasses
  BY <1>1, <1>3, ExpiryKeeps DEF TimePasses
<1>4. ASSUME NEW c \in Clients, GrantWrite(c) PROVE RowKeeps(g)
  <2>1. client[c].user \in Users /\ client[c].of \in Apps
    BY <1>4, Carries DEF Holds, Subject, OfPerson, GrantWrite, At
  <2> QED BY <1>1, <1>4, <2>1, AppendedKeeps DEF GrantWrite, RowKeeps
<1>5. ASSUME NEW c \in Clients, UpdateExpiry(c) PROVE RowKeeps(g)
  BY <1>1, <1>5, ExpiryKeeps DEF UpdateExpiry
<1>6. ASSUME NEW c \in Clients, ApproveCommit(c) PROVE RowKeeps(g)
  <2>1. client[c].user \in Users /\ client[c].of \in Apps
    BY <1>6, Carries DEF Holds, Subject, OfPerson, ApproveCommit, At
  <2>2. \/ UNCHANGED grants
        \/ grants' = Append(grants, NewGrant(client[c].user, client[c].of, client[c].plans))
    BY <1>6 DEF ApproveCommit
  <2> QED BY <1>1, <1>2, <2>1, <2>2, AppendedKeeps DEF RowKeeps
<1>7. ASSUME NEW c \in Clients, RevokeCommit(c), g \notin client[c].staged PROVE RowKeeps(g)
  BY <1>7 DEF RevokeCommit, RowKeeps
<1>8. ASSUME NEW c \in Clients, OffboardCommit(c), g \notin client[c].staged PROVE RowKeeps(g)
  BY <1>8 DEF OffboardCommit, RowKeeps
<1> QED BY <1>2, <1>3, <1>4, <1>5, <1>6, <1>7, <1>8, Writes DEF Commits

LEMMA CommitsEnd ==
    ASSUME AccessInv, NEW d \in Clients, Commits(d)
    PROVE  /\ client[d].op \in Revokers /\ client'[d].op = "none"
           /\ \A g \in client[d].staged : GrantRow(g) \in client[d].locks
<1>1. client[d].op \in Revokers /\ End(d)
  BY DEF Commits, RevokeCommit, OffboardCommit, At, Revokers
<1> QED BY <1>1, EndedAs, Carries DEF Holds, Staging, Revokers

\* One transaction at a time has a grant staged.
LEMMA StagedOnce ==
    ASSUME AccessInv, NEW c \in Clients, NEW d \in Clients, NEW g,
           client[c].op \in Revokers, client[d].op \in Revokers,
           g \in client[c].staged, g \in client[d].staged
    PROVE  c = d
<1>1. GrantRow(g) \in client[c].locks /\ GrantRow(g) \in client[d].locks
  BY Carries DEF Holds, Staging, Revokers
<1>2. ~ IsShare(GrantRow(g))
  BY DEF IsShare, GrantRow
<1> QED BY <1>1, <1>2 DEF AccessInv, Exclusive

LEMMA RevokeStages ==
    ASSUME AccessInv, [Next]_accessVars, NEW c \in Clients, client'[c].op = "revoke",
           client'[c] # client[c]
    PROVE  /\ UNCHANGED grants
           /\ \A g \in client'[c].staged :
                \/ client[c].op = "revoke" /\ g \in client[c].staged
                \/ grants[g].state = "active"
<1>1. client = [d \in Clients |-> client[d]] /\ DOMAIN client[c] = DOMAIN Idle
  BY DEF AccessInv, AdminInv, ClientShape
<1>2. CASE RevokeRead(c)
  <2>1. PICK S, plans : \E ids \in Orders(S) : Begin(c, "revoke", Revoking(ids, plans))
    BY <1>2 DEF RevokeRead
  <2>2. PICK ids : Begin(c, "revoke", Revoking(ids, plans))
    BY <2>1
  <2>3. client'[c].staged = {}
    BY <1>1, <2>2 DEF Begin, Revoking, Idle
  <2> QED BY <1>2, <2>3 DEF RevokeRead, accessTables
<1>3. CASE Sweep /\ c = Sweeper
  <2>1. PICK g, plans : client' = [client EXCEPT ![Sweeper] = Revoking(<<g>>, plans)]
    BY <1>3 DEF Sweep
  <2>2. client'[c].staged = {}
    BY <1>1, <1>3, <2>1 DEF Revoking, Idle
  <2> QED BY <1>3, <2>2 DEF Sweep, accessTables
<1>4. CASE RevokeCas(c)
  <2>1. client'[c].staged = client[c].staged \cup (IF StillActive(Head(client[c].ids))
                                                   THEN {Head(client[c].ids)} ELSE {})
    BY <1>1, <1>4 DEF RevokeCas, Idle
  <2> QED BY <1>4, <2>1 DEF RevokeCas, accessTables, StillActive, At
<1>5. CASE RevokeCount(c)
  <2>1. client'[c].staged = client[c].staged
    BY <1>1, <1>5 DEF RevokeCount, Idle
  <2> QED BY <1>5, <2>1 DEF RevokeCount, accessTables, At
<1> QED BY <1>2, <1>3, <1>4, <1>5, RevokeMoves

LEMMA OffboardStages ==
    ASSUME AccessInv, [Next]_accessVars, NEW c \in Clients, client'[c].op = "offboard",
           client'[c] # client[c]
    PROVE  /\ UNCHANGED <<grants, assignments>>
           /\ \A g \in client'[c].staged :
                \/ client[c].op = "offboard" /\ g \in client[c].staged
                \/ grants[g].state = "active"
<1>1. client = [d \in Clients |-> client[d]] /\ DOMAIN client[c] = DOMAIN Idle
  BY DEF AccessInv, AdminInv, ClientShape
<1>2. CASE OffboardRead(c)
  <2>1. PICK u : Begin(c, "offboard", [Idle EXCEPT !.op = "offboard", !.pc = "admins", !.user = u])
    BY <1>2 DEF OffboardRead
  <2>2. client'[c].staged = {}
    BY <1>1, <2>1 DEF Begin, Idle
  <2> QED BY <1>2, <2>2 DEF OffboardRead, accessTables
<1>3. CASE OffboardCheckAdmins(c) /\ LockAdmins(c, "user row")
  <2>1. client'[c].staged = client[c].staged
    BY <1>1, <1>3 DEF LockAdmins, Idle
  <2> QED BY <1>3, <2>1 DEF OffboardCheckAdmins, accessTables, At
<1>4. CASE OffboardLockUser(c)
  <2>1. PICK order : client' = [client EXCEPT ![c].pc = "offboard grants", ![c].ids = order,
                                              ![c].locks = WithRowLock(c)]
    BY <1>4 DEF OffboardLockUser
  <2>2. client'[c].staged = client[c].staged
    BY <1>1, <2>1 DEF Idle
  <2> QED BY <1>4, <2>2 DEF OffboardLockUser, accessTables, At
<1>5. CASE OffboardGrant(c)
  <2>1. client'[c].staged = client[c].staged \cup (IF grants[Head(client[c].ids)].state = "active"
                                                   THEN {Head(client[c].ids)} ELSE {})
    BY <1>1, <1>5 DEF OffboardGrant, Idle
  <2> QED BY <1>5, <2>1 DEF OffboardGrant, accessTables, At
<1>6. CASE OffboardReadAssignments(c)
  <2>1. client'[c].staged = client[c].staged
    BY <1>1, <1>6 DEF OffboardReadAssignments, Idle
  <2> QED BY <1>6, <2>1 DEF OffboardReadAssignments, accessTables, At
<1> QED BY <1>2, <1>3, <1>4, <1>5, <1>6, OffboardMoves

LEMMA StagedActiveStep ==
    ASSUME AccessInv, StagedActive, [Next]_accessVars
    PROVE  StagedActive'
<1> SUFFICES ASSUME NEW c \in Clients, client'[c].op \in Revokers, NEW g \in client'[c].staged
             PROVE  grants'[g].state = "active"
  BY DEF StagedActive
<1>1. CASE client'[c] # client[c]
  BY <1>1, RevokeStages, OffboardStages DEF Revokers, StagedActive
<1>2. CASE client'[c] = client[c]
  <2>1. grants[g].state = "active" /\ g \in DOMAIN grants
    BY <1>2, Carries DEF StagedActive, Holds, Staging, Known, Revokers
  <2>2. ASSUME NEW d \in Clients, Commits(d), g \in client[d].staged PROVE FALSE
    <3>1. client[d].op \in Revokers /\ client'[d].op = "none"
      BY <2>2, CommitsEnd
    <3>2. c = d
      BY <1>2, <2>2, <3>1, StagedOnce
    <3> QED BY <1>2, <3>1, <3>2 DEF Revokers
  <2> QED BY <2>1, <2>2, GrantRowMoves DEF RowKeeps
<1> QED BY <1>1, <1>2

LEMMA StagedHolds == Spec => [](AccessInv /\ StagedActive)
<1>1. Init => StagedActive
  BY DEF Init, StagedActive, Revokers, Idle
<1>2. StagedActive /\ AccessInv /\ [Next]_accessVars => StagedActive'
  BY StagedActiveStep
<1> QED BY <1>1, <1>2, AccessInit, AccessStep, PTL DEF Spec

\* Who revoked a grant, and how, is never rewritten, by a second revoke, a batch,
\* the sweeper or an offboarding that read the grant active: each re-reads the row
\* under its lock before it stages it (revokeIfActiveInTx).
THEOREM RevocationsFinal == Spec => RevocationFinal
<1> DEFINE A == \A g \in DOMAIN grants : grants[g].state = "revoked" =>
         /\ grants'[g].state = "revoked"
         /\ grants'[g].by = grants[g].by /\ grants'[g].how = grants[g].how
         /\ grants'[g].runs = grants[g].runs
<1>1. AccessInv /\ StagedActive /\ [Next]_accessVars => [A]_accessVars
  <2> SUFFICES ASSUME AccessInv, StagedActive, [Next]_accessVars, NEW g \in DOMAIN grants,
                      grants[g].state = "revoked"
               PROVE  RowKeeps(g)
    BY DEF RowKeeps
  <2>1. ASSUME NEW d \in Clients, Commits(d) PROVE g \notin client[d].staged
    BY <2>1, CommitsEnd DEF StagedActive
  <2> QED BY <2>1, GrantRowMoves
<1> HIDE DEF A
<1>2. Spec => [][A]_accessVars
  BY <1>1, StagedHolds, PTL DEF Spec
<1> QED BY <1>2 DEF A, RevocationFinal
-----------------------------------------------------------------------------
(***************************************************************************)
(* The request board.                                                      *)
(***************************************************************************)
LEMMA SameLength ==
    ASSUME GrantsTyped, grants' = [g \in DOMAIN grants |-> grants'[g]], GrantsTyped'
    PROVE  Len(grants') = Len(grants)
<1>1. Len(grants) \in Nat /\ Len(grants') \in Nat
  BY LenProperties DEF GrantsTyped
<1>2. DOMAIN grants = 1 .. Len(grants) /\ DOMAIN grants' = 1 .. Len(grants')
  BY LenProperties DEF GrantsTyped
<1> QED BY <1>1, <1>2

LEMMA OneMoreGrant ==
    ASSUME AccessInv, NEW c \in Clients, client[c].op \in {"grant", "approve"},
           grants' = Append(grants, NewGrant(client[c].user, client[c].of, client[c].plans))
    PROVE  Len(grants') = Len(grants) + 1
<1>1. client[c].user \in Users /\ client[c].of \in Apps
  BY Carries DEF Holds, Subject, OfPerson
<1> DEFINE r == NewGrant(client[c].user, client[c].of, client[c].plans)
<1>2. r \in GrantRecord /\ grants \in Seq(GrantRecord) /\ grants' = Append(grants, r)
  BY <1>1, NewGrantTyped DEF AccessInv, TablesTyped, GrantsTyped
<1> HIDE DEF r
<1> QED BY <1>2, OneMore

LEMMA BoardStep ==
    ASSUME AccessInv, [Next]_accessVars
    PROVE  [Board!Next]_<<requests, Len(grants)>>
<1>1. GrantsTyped /\ GrantsTyped'
  BY GrantsTypedStep DEF AccessInv, TablesTyped, GrantsGrow
<1>2. ASSUME NEW c \in Clients, RequestInsert(c) PROVE [Board!Next]_<<requests, Len(grants)>>
  <2> DEFINE u == client[c].user
             a == client[c].of
  <2>1. u \in Users /\ a \in Apps
    BY <1>2, Carries DEF RequestInsert, At, Holds, Subject, OfPerson
  <2>2. CASE PendingFor(u, a)
    BY <1>2, <2>2 DEF RequestInsert
  <2>3. CASE ~ PendingFor(u, a)
    <3>1. Board!File(u, a)
      BY <1>2, <2>3 DEF RequestInsert, PendingFor, Board!File, Board!Open
    <3> QED BY <2>1, <3>1 DEF Board!Next
  <2> QED BY <2>2, <2>3
<1>3. ASSUME NEW c \in Clients, ApproveCommit(c) PROVE [Board!Next]_<<requests, Len(grants)>>
  <2> DEFINE i == Head(client[c].ids)
  <2>1. i \in DOMAIN requests
    BY <1>3, Carries, FirstNamed DEF ApproveCommit, At, Holds, Subject, Named, Known
  <2>2. CASE StillPending(i)
    <3>1. Len(grants') = Len(grants) + 1
      BY <1>3, <2>2, OneMoreGrant DEF ApproveCommit, At
    <3>2. Board!Approve(i)
      BY <1>3, <2>2, <3>1 DEF ApproveCommit, StillPending, Board!Approve
    <3> QED BY <2>1, <3>2 DEF Board!Next
  <2>3. CASE ~ StillPending(i)
    BY <1>3, <2>3 DEF ApproveCommit
  <2> QED BY <2>2, <2>3
<1>4. ASSUME NEW c \in Clients, DenyCommit(c) PROVE [Board!Next]_<<requests, Len(grants)>>
  <2> DEFINE i == Head(client[c].ids)
  <2>1. i \in DOMAIN requests
    BY <1>4, Carries, FirstNamed DEF DenyCommit, At, Holds, Subject, Named, Known
  <2>2. CASE StillPending(i)
    <3>1. Board!Deny(i)
      BY <1>4, <2>2 DEF DenyCommit, StillPending, Board!Deny
    <3> QED BY <2>1, <3>1 DEF Board!Next
  <2>3. CASE ~ StillPending(i)
    BY <1>4, <2>3 DEF DenyCommit
  <2> QED BY <2>2, <2>3
<1>5. ASSUME NEW c \in Clients, GrantWrite(c) PROVE [Board!Next]_<<requests, Len(grants)>>
  <2>1. Len(grants') = Len(grants) + 1 /\ UNCHANGED requests
    BY <1>5, OneMoreGrant DEF GrantWrite, At, grantOthers
  <2> QED BY <2>1 DEF Board!Next, Board!GrantDirectly
<1>6. ASSUME NEW c \in Clients, RevokeCommit(c) \/ OffboardCommit(c)
      PROVE  Len(grants') = Len(grants)
  <2>1. grants' = [g \in DOMAIN grants |-> grants'[g]]
    BY <1>6 DEF RevokeCommit, OffboardCommit
  <2> QED BY <1>1, <2>1, SameLength
<1>7. ASSUME NEW c \in Clients, UpdateExpiry(c) PROVE Len(grants') = Len(grants)
  <2>1. grants' = [g \in DOMAIN grants |-> grants'[g]]
    BY <1>7 DEF UpdateExpiry
  <2> QED BY <1>1, <2>1, SameLength
<1>8. CASE TimePasses
  <2>1. grants' = [g \in DOMAIN grants |-> grants'[g]]
    BY <1>8 DEF TimePasses
  <2>2. Len(grants') = Len(grants) /\ UNCHANGED requests
    BY <1>1, <1>8, <2>1, SameLength DEF TimePasses, grantOthers
  <2> QED BY <2>2
<1>9. CASE UNCHANGED requests
  BY <1>3, <1>5, <1>6, <1>7, <1>8, <1>9, Writes
<1> QED BY <1>2, <1>3, <1>4, <1>9, Writes

\* Filing, approving and denying implement the request board: one open request
\* per person and application, one decision, one grant of its own per approval,
\* whatever grants are given past the board and whoever decides at the same time
\* (ADR-0085).
THEOREM AccessImplementsBoard == Spec => ImplementsBoard
<1>1. Init => Board!Init
  <2> SUFFICES ASSUME Init PROVE Board!Init
    OBVIOUS
  <2>1. Len(grants) \in Nat
    BY AccessInit, GrantRows DEF AccessInv, TablesTyped
  <2> QED BY <2>1 DEF Init, Board!Init
<1>2. AccessInv /\ [Next]_accessVars => [Board!Next]_Board!boardVars
  BY BoardStep DEF Board!boardVars
<1> QED BY <1>1, <1>2, AccessHolds, PTL DEF Spec, ImplementsBoard, Board!Spec
-----------------------------------------------------------------------------
(***************************************************************************)
(* Releases.                                                               *)
(***************************************************************************)
NobodyOffboards == "offboard" \notin mix => \A c \in Clients : client[c].op # "offboard"

LEMMA NobodyOffboardsStep ==
    ASSUME AccessInv, NobodyOffboards, [Next]_accessVars
    PROVE  NobodyOffboards'
<1> SUFFICES ASSUME "offboard" \notin mix, NEW c \in Clients, client'[c].op = "offboard"
             PROVE  FALSE
  BY Writes DEF NobodyOffboards
<1>1. client[c].op # "offboard"
  BY DEF NobodyOffboards
<1>2. ~ OffboardRead(c)
  BY DEF OffboardRead, Begin, Allowed
<1> QED BY <1>1, <1>2, OffboardMoves
        DEF OffboardCheckAdmins, OffboardLockUser, OffboardGrant, OffboardReadAssignments, At

ReleasedOnceInv == AccessInv /\ NobodyOffboards /\ ReleasedOnce

LEMMA ReleasedOnceStep ==
    ASSUME ReleasedOnceInv, [Next]_accessVars
    PROVE  ReleasedOnce'
<1> SUFFICES ASSUME "offboard" \notin mix
             PROVE  \A a \in DOMAIN assignments' :
                      assignments'[a].releases = IF assignments'[a].active THEN 0 ELSE 1
  BY Writes DEF ReleasedOnce
<1>1. \A a \in DOMAIN assignments :
        /\ assignments[a].releases = IF assignments[a].active THEN 0 ELSE 1
        /\ assignments[a] \in AssignmentRecord
  BY AssignmentRows DEF ReleasedOnceInv, ReleasedOnce, AccessInv, TablesTyped
<1>2. CASE UNCHANGED assignments
  BY <1>1, <1>2
<1>3. ASSUME NEW c \in Clients, AssignWrite(c)
      PROVE  \A a \in DOMAIN assignments' :
               assignments'[a].releases = IF assignments'[a].active THEN 0 ELSE 1
  <2> DEFINE row == [active |-> TRUE, user |-> client[c].user, asset |-> client[c].of,
                     releases |-> 0, acked |-> FALSE]
  <2>1. row.active = TRUE /\ row.releases = 0
    OBVIOUS
  <2>2. row \in AssignmentRecord /\ assignments \in Seq(AssignmentRecord)
    BY <1>3, Carries DEF AssignWrite, At, ReleasedOnceInv, AccessInv, TablesTyped,
       AssignmentsTyped, Holds, Subject, OfPerson, AssignmentRecord
  <2>3. assignments' = assignments \/ assignments' = Append(assignments, row)
    BY <1>3 DEF AssignWrite
  <2> HIDE DEF row
  <2> QED BY <1>1, <2>1, <2>2, <2>3, OneMore
<1>4. ASSUME NEW c \in Clients, ReleaseCommit(c)
      PROVE  \A a \in DOMAIN assignments' :
               assignments'[a].releases = IF assignments'[a].active THEN 0 ELSE 1
  BY <1>1, <1>4 DEF ReleaseCommit, StillOut, AssignmentRecord
<1>5. ASSUME NEW c \in Clients, Acknowledge(c)
      PROVE  \A a \in DOMAIN assignments' :
               assignments'[a].releases = IF assignments'[a].active THEN 0 ELSE 1
  BY <1>1, <1>5 DEF Acknowledge, AssignmentRecord
<1>6. ASSUME NEW c \in Clients PROVE ~ OffboardCommit(c)
  BY DEF ReleasedOnceInv, NobodyOffboards, OffboardCommit, At
<1> QED BY <1>2, <1>3, <1>4, <1>5, <1>6, Writes

\* An assignment nobody's offboarding touched is released once, however many
\* check-ins of it cross: the update that releases it matches a row that is still
\* out (SEC-031).
THEOREM AssignmentsReleasedOnce == Spec => []ReleasedOnce
<1>1. Init => NobodyOffboards /\ ReleasedOnce
  BY StartsAssumption DEF Init, NobodyOffboards, ReleasedOnce, Idle
<1>2. ReleasedOnceInv /\ [Next]_accessVars => NobodyOffboards' /\ ReleasedOnce'
  BY NobodyOffboardsStep, ReleasedOnceStep DEF ReleasedOnceInv
<1> QED BY <1>1, <1>2, AccessInit, AccessStep, PTL DEF Spec, ReleasedOnceInv
-----------------------------------------------------------------------------
(***************************************************************************)
(* Keys of vaults.                                                         *)
(***************************************************************************)
LEMMA ChangedLive ==
    ASSUME NEW row \in UserRecord, NEW change \in Changes, NEW seen
    PROVE  Changed(row, change, seen).live = row.live
<1>1. CASE change = "promote"
  <2> DEFINE stripped == [row EXCEPT !.role = "ADMIN", !.password = TakeBackTemporary(row)]
  <2>1. stripped.live = row.live /\ "live" \in DOMAIN stripped
    BY DEF UserRecord
  <2>2. Changed(row, change, seen) \in {stripped, EndSessions(stripped)}
    BY <1>1 DEF Changed, Promoted
  <2> HIDE DEF stripped
  <2> QED BY <2>1, <2>2 DEF EndSessions
<1>2. CASE change = "deactivate"
  <2> DEFINE off == [row EXCEPT !.active = FALSE]
  <2>1. off.live = row.live /\ "live" \in DOMAIN off
    BY DEF UserRecord
  <2>2. Changed(row, change, seen) \in {off, EndSessions(off)}
    BY <1>2 DEF Changed, Deactivated
  <2> HIDE DEF off
  <2> QED BY <2>1, <2>2 DEF EndSessions
<1>3. CASE change \in {"demote", "reactivate"}
  BY <1>3 DEF Changed, UserRecord
<1> QED BY <1>1, <1>2, <1>3 DEF Changes

\* A person is deleted by an offboarding and by nothing else.
LEMMA LiveMoves ==
    ASSUME AccessInv, [Next]_accessVars, NEW u \in Users, users[u].live
    PROVE  users'[u].live \/ \E c \in Clients : OffboardCommit(c) /\ client[c].user = u
<1>1. AdminInv /\ users \in [Users -> UserRecord]
  BY DEF AccessInv, AdminInv
<1>2. ASSUME NEW c \in Clients, UpdateWrite(c) PROVE users'[u].live
  <2>1. client[c].user \in Users /\ client[c].change \in Changes
    BY <1>1, <1>2 DEF UpdateWrite, AdminInv, Carried, At, Guarding
  <2>2. users' = [users EXCEPT ![client[c].user] =
                    Changed(users[client[c].user], client[c].change, client[c].seen)]
    BY <1>2 DEF UpdateWrite
  <2> QED BY <1>1, <2>1, <2>2, ChangedLive
<1>3. ASSUME NEW c \in Clients, ResetWrite(c) PROVE users'[u].live
  BY <1>1, <1>3 DEF ResetWrite, EndSessions, UserRecord
<1>4. ASSUME NEW c \in Clients, SignOutEverywhere(c) PROVE users'[u].live
  BY <1>1, <1>4 DEF SignOutEverywhere, EndSessions, UserRecord
<1>5. ASSUME NEW c \in Clients, RestoreUser(c) PROVE users'[u].live
  BY <1>1, <1>5 DEF RestoreUser, UserRecord
<1>6. ASSUME NEW c \in Clients, OffboardCommit(c), client[c].user # u PROVE users'[u].live
  BY <1>1, <1>6 DEF OffboardCommit
<1> QED BY <1>2, <1>3, <1>4, <1>5, <1>6, Writes

\* A vault that lives goes on as it is, until it is deleted with nobody sharing
\* its row.
LEMMA VaultMoves ==
    ASSUME AccessInv, [Next]_accessVars, NEW v \in Vaults, vaults[v].state = "live"
    PROVE  \/ vaults'[v].state = "live" /\ vaults'[v].creator = vaults[v].creator
           \/ \E d \in Clients : /\ DeleteVault(d) /\ client[d].of = v
                                 /\ \A c \in Clients \ {d} : VaultShare(v) \notin client[c].locks
                                 /\ \A m \in members' : m[1] # v
<1>1. vaults \in [Vaults -> VaultRecord]
  BY DEF AccessInv, TablesTyped, VaultsTyped
<1>2. ASSUME NEW d \in Clients, CreateVaultWrite(d)
      PROVE  vaults'[v] = vaults[v]
  BY <1>1, <1>2 DEF CreateVaultWrite
<1>3. ASSUME NEW d \in Clients, AddMemberWrite(d) \/ RevokeMember(d) \/ OffboardCommit(d)
      PROVE  vaults'[v] = vaults[v]
  BY <1>3 DEF AddMemberWrite, RevokeMember, OffboardCommit
<1>4. ASSUME NEW d \in Clients, DeleteVault(d), client[d].of # v
      PROVE  vaults'[v] = vaults[v]
  BY <1>1, <1>4 DEF DeleteVault
<1>5. ASSUME NEW d \in Clients, DeleteVault(d), client[d].of = v
      PROVE  /\ \A c \in Clients \ {d} : VaultShare(v) \notin client[c].locks
             /\ \A m \in members' : m[1] # v
  <2>1. Wants(d) = {VaultShare(v)}
    BY <1>5 DEF DeleteVault, At, Wants
  <2>2. Free(d, VaultShare(v))
    BY <1>5, <2>1 DEF DeleteVault, Waits
  <2> QED BY <1>5, <2>2 DEF DeleteVault, Free
<1> QED BY <1>1, <1>2, <1>3, <1>4, <1>5, Writes

\* Whoever is about to add a member still shares the row of a vault that lives.
Sharing ==
    \A c \in Clients : At(c, "add member", "insert") => vaults[client[c].of].state = "live"

LEMMA SharingStep ==
    ASSUME AccessInv, Sharing, [Next]_accessVars
    PROVE  Sharing'
<1> SUFFICES ASSUME NEW c \in Clients, client'[c].op = "add member", client'[c].pc = "insert"
             PROVE  vaults'[client'[c].of].state = "live"
  BY DEF Sharing, At
<1>1. client = [d \in Clients |-> client[d]] /\ DOMAIN client[c] = DOMAIN Idle
  BY DEF AccessInv, AdminInv, ClientShape
<1>2. CASE client'[c] = client[c]
  <2>1. /\ client[c].of \in Vaults /\ vaults[client[c].of].state = "live"
        /\ VaultShare(client[c].of) \in client[c].locks
    BY <1>2, Carries DEF Sharing, At, Holds, Subject, Standing
  <2>2. ASSUME NEW d \in Clients, DeleteVault(d) PROVE c # d
    BY <1>2, <2>2 DEF DeleteVault, At
  <2> QED BY <1>2, <2>1, <2>2, VaultMoves
<1>3. CASE AddMemberCheck(c)
  <2>1. PICK u, v, granter : Begin(c, "add member", [Idle EXCEPT !.op = "add member",
                                   !.pc = "share vault", !.user = u, !.of = v, !.change = granter])
    BY <1>3 DEF AddMemberCheck
  <2>2. client'[c].pc = "share vault"
    BY <1>1, <2>1 DEF Begin, Idle
  <2> QED BY <2>2
<1>4. CASE AddMemberShareVault(c) /\ client' = [client EXCEPT ![c].pc = "insert",
                                                              ![c].locks = VaultLock(c)]
  <2>1. client'[c].of = client[c].of /\ client'[c] # Idle
    BY <1>1, <1>4 DEF Idle
  <2>2. ~ End(c)
    BY <2>1, <1>1 DEF End
  <2> QED BY <1>4, <2>1, <2>2 DEF AddMemberShareVault, accessTables
<1> QED BY <1>2, <1>3, <1>4, AddMemberMoves

KeysInv == AccessInv /\ Sharing /\ KeysHeldByMembers

LEMMA KeysStep ==
    ASSUME KeysInv, [Next]_accessVars
    PROVE  KeysHeldByMembers'
<1> DEFINE Keeps(m) == /\ vaults'[m[1]].state = "live"
                       /\ users'[m[2]].live \/ vaults'[m[1]].creator = m[2]
<1> SUFFICES ASSUME NEW m \in members' PROVE Keeps(m)
  BY DEF KeysHeldByMembers
<1>1. AccessInv /\ vaults \in [Vaults -> VaultRecord] /\ members \subseteq Vaults \X Users
  BY DEF KeysInv, AccessInv, TablesTyped, VaultsTyped
<1>2. CASE m \in members
  <2>1. /\ m[1] \in Vaults /\ m[2] \in Users
        /\ vaults[m[1]].state = "live"
        /\ users[m[2]].live \/ vaults[m[1]].creator = m[2]
    BY <1>1, <1>2 DEF KeysInv, KeysHeldByMembers
  <2>2. vaults'[m[1]].state = "live" /\ vaults'[m[1]].creator = vaults[m[1]].creator
    BY <1>1, <2>1, VaultMoves
  <2>3. ASSUME NEW c \in Clients, OffboardCommit(c) PROVE client[c].user # m[2]
    BY <2>3 DEF OffboardCommit
  <2> QED BY <1>1, <2>1, <2>2, <2>3, LiveMoves
<1>3. ASSUME NEW c \in Clients, CreateVaultWrite(c), m \notin members PROVE Keeps(m)
  <2>1. client[c].user \in Users /\ client[c].of \in Vaults
    BY <1>1, <1>3, Carries DEF Holds, Subject, OfPerson, CreateVaultWrite, At
  <2>2. /\ m = <<client[c].of, client[c].user>>
        /\ vaults' = [vaults EXCEPT ![client[c].of] = [state |-> "live", creator |-> client[c].user]]
    BY <1>3 DEF CreateVaultWrite
  <2> QED BY <1>1, <2>1, <2>2
<1>4. ASSUME NEW c \in Clients, AddMemberWrite(c), m \notin members PROVE Keeps(m)
  <2>1. m = <<client[c].of, client[c].user>> /\ users[client[c].user].live /\ At(c, "add member", "insert")
    BY <1>4 DEF AddMemberWrite, Usable
  <2>2. UNCHANGED <<users, vaults>>
    BY <1>4 DEF AddMemberWrite, vaultOthers
  <2>3. vaults[client[c].of].state = "live"
    BY <2>1 DEF KeysInv, Sharing
  <2> QED BY <2>1, <2>2, <2>3
<1>5. ASSUME NEW c \in Clients, RevokeMember(c) \/ DeleteVault(c) \/ OffboardCommit(c)
      PROVE  m \in members
  BY <1>5 DEF RevokeMember, DeleteVault, OffboardCommit
<1> QED BY <1>2, <1>3, <1>4, <1>5, Writes

\* A wrapped key belongs to a live vault and, unless its holder created the
\* vault, to a person who is not deleted, whatever grants of membership,
\* offboardings and deletions of vaults cross (#869, #425).
THEOREM KeysHeld == Spec => []KeysHeldByMembers
<1>1. Init => Sharing /\ KeysHeldByMembers
  <2> SUFFICES ASSUME Init PROVE Sharing /\ KeysHeldByMembers
    OBVIOUS
  <2>1. Sharing
    BY DEF Init, Sharing, At, Idle
  <2>2. PICK s \in Starts : users = s.users /\ vaults = s.vaults /\ members = s.members
    BY DEF Init
  <2>3. KeysHeldByMembers
    BY <2>2, StartsAssumption DEF KeysHeldByMembers
  <2> QED BY <2>1, <2>3
<1>2. KeysInv /\ [Next]_accessVars => Sharing' /\ KeysHeldByMembers'
  BY SharingStep, KeysStep DEF KeysInv
<1> QED BY <1>1, <1>2, AccessInit, AccessStep, PTL DEF Spec, KeysInv
-----------------------------------------------------------------------------
(***************************************************************************)
(* Offboarding.  An offboarding that holds the person's row has staged, or  *)
(* still has before it, every active grant of theirs: what is granted or     *)
(* checked out to them from then on waits for the row.                      *)
(***************************************************************************)
LEMMA OrderCovers ==
    ASSUME NEW S, IsFiniteSet(S), NEW order \in Orders(S), NEW s \in S
    PROVE  \E i \in DOMAIN order : order[i] = s
<1> DEFINE n == Cardinality(S)
<1>1. n \in Nat /\ order \in [1 .. n -> S] /\ \A i, j \in 1 .. n : order[i] = order[j] => i = j
  BY FS_CardinalityType DEF Orders
<1>2. order \in Injection(1 .. n, S)
  BY <1>1 DEF Injection, IsInjective
<1>3. Cardinality(1 .. n) = n
  BY <1>1, FS_Interval
<1>4. order \in Surjection(1 .. n, S)
  BY <1>2, <1>3, FS_Injection
<1> QED BY <1>1, <1>4 DEF Surjection

LEMMA MoreThanHead ==
    ASSUME NEW S, NEW s \in Seq(S), s # <<>>, NEW i \in DOMAIN s
    PROVE  s[i] = Head(s) \/ \E j \in DOMAIN Tail(s) : Tail(s)[j] = s[i]
<1>1. Len(s) \in Nat /\ DOMAIN s = 1 .. Len(s) /\ Len(s) # 0
  BY LenProperties, EmptySeq
<1>2. /\ Tail(s) \in Seq(S) /\ Len(Tail(s)) = Len(s) - 1 /\ s[1] = Head(s)
      /\ \A j \in 1 .. Len(Tail(s)) : Tail(s)[j] = s[j + 1]
  BY HeadTailProperties, <1>1
<1>3. DOMAIN Tail(s) = 1 .. Len(s) - 1
  BY <1>2, LenProperties
<1>4. CASE i # 1
  <2>1. i - 1 \in 1 .. Len(s) - 1 /\ (i - 1) + 1 = i
    BY <1>1, <1>4
  <2>2. Tail(s)[i - 1] = s[i]
    BY <1>2, <2>1
  <2> QED BY <1>3, <2>1, <2>2
<1> QED BY <1>2, <1>4

\* A row that names a person waits for whoever holds the person's row.
LEMMA NewGrantWaits ==
    ASSUME AccessInv, [Next]_accessVars, NEW g \in DOMAIN grants', g \notin DOMAIN grants
    PROVE  \E d \in Clients :
             /\ client[d].op \in {"grant", "approve"}
             /\ grants'[g].user = client[d].user /\ grants'[g].how = "none"
             /\ \A c \in Clients \ {d} : UserRow(client[d].user) \notin client[c].locks
<1>1. GrantsTyped
  BY DEF AccessInv, TablesTyped
<1>2. ASSUME NEW d \in Clients, GrantWrite(d) \/ ApproveCommit(d)
      PROVE  /\ client[d].op \in {"grant", "approve"}
             /\ grants'[g].user = client[d].user /\ grants'[g].how = "none"
             /\ \A c \in Clients \ {d} : UserRow(client[d].user) \notin client[c].locks
  <2>1. client[d].op \in {"grant", "approve"} /\ client[d].pc = "insert" /\ ~ Waits(d)
    BY <1>2 DEF GrantWrite, ApproveCommit, At
  <2>2. client[d].user \in Users /\ client[d].of \in Apps
    BY <2>1, Carries DEF Holds, Subject, OfPerson
  <2>3. Wants(d) = {UserRow(client[d].user)}
    BY <2>1 DEF Wants
  <2>4. \A c \in Clients \ {d} : UserRow(client[d].user) \notin client[c].locks
    BY <2>1, <2>3 DEF Waits, Free
  <2> DEFINE r == NewGrant(client[d].user, client[d].of, client[d].plans)
  <2>5. r \in GrantRecord /\ r.user = client[d].user /\ r.how = "none"
    BY <2>2, NewGrantTyped DEF NewGrant
  <2>6. grants' = grants \/ grants' = Append(grants, r)
    BY <1>2 DEF GrantWrite, ApproveCommit
  <2> HIDE DEF r
  <2>7. grants'[g] = r
    BY <1>1, <2>5, <2>6, OneMore DEF GrantsTyped
  <2> QED BY <2>1, <2>4, <2>5, <2>7
<1>3. ASSUME NEW d \in Clients, UpdateExpiry(d) \/ RevokeCommit(d) \/ OffboardCommit(d)
      PROVE  FALSE
  BY <1>3 DEF UpdateExpiry, RevokeCommit, OffboardCommit
<1>4. ~ TimePasses
  BY DEF TimePasses
<1> QED BY <1>2, <1>3, <1>4, Writes

LEMMA NewAssignmentWaits ==
    ASSUME AccessInv, [Next]_accessVars, NEW a \in DOMAIN assignments', a \notin DOMAIN assignments
    PROVE  \E d \in Clients :
             /\ client[d].op = "assign" /\ assignments'[a].user = client[d].user
             /\ \A c \in Clients \ {d} : UserRow(client[d].user) \notin client[c].locks
<1>1. AssignmentsTyped
  BY DEF AccessInv, TablesTyped
<1>2. ASSUME NEW d \in Clients, AssignWrite(d)
      PROVE  /\ client[d].op = "assign" /\ assignments'[a].user = client[d].user
             /\ \A c \in Clients \ {d} : UserRow(client[d].user) \notin client[c].locks
  <2>1. client[d].op = "assign" /\ client[d].pc = "insert" /\ ~ Waits(d)
    BY <1>2 DEF AssignWrite, At
  <2>2. client[d].user \in Users /\ client[d].of \in Assets
    BY <2>1, Carries DEF Holds, Subject, OfPerson
  <2>3. Wants(d) = {UserRow(client[d].user)}
    BY <2>1 DEF Wants
  <2>4. \A c \in Clients \ {d} : UserRow(client[d].user) \notin client[c].locks
    BY <2>1, <2>3 DEF Waits, Free
  <2> DEFINE r == [active |-> TRUE, user |-> client[d].user, asset |-> client[d].of,
                   releases |-> 0, acked |-> FALSE]
  <2>5. r \in AssignmentRecord /\ r.user = client[d].user
    BY <2>2 DEF AssignmentRecord
  <2>6. assignments' = assignments \/ assignments' = Append(assignments, r)
    BY <1>2 DEF AssignWrite
  <2> HIDE DEF r
  <2>7. assignments'[a] = r
    BY <1>1, <2>5, <2>6, OneMore DEF AssignmentsTyped
  <2> QED BY <2>1, <2>4, <2>5, <2>7
<1>3. ASSUME NEW d \in Clients, ReleaseCommit(d) \/ Acknowledge(d) \/ OffboardCommit(d)
      PROVE  FALSE
  BY <1>3 DEF ReleaseCommit, Acknowledge, OffboardCommit
<1> QED BY <1>2, <1>3, Writes

\* A row stays whose it is, and one that has ended stays so.
LEMMA AssignmentRowMoves ==
    ASSUME AccessInv, [Next]_accessVars, NEW a \in DOMAIN assignments
    PROVE  /\ a \in DOMAIN assignments' /\ assignments'[a].user = assignments[a].user
           /\ assignments'[a].active => assignments[a].active
<1>1. AssignmentsTyped /\ \A b \in DOMAIN assignments : assignments[b] \in AssignmentRecord
  BY AssignmentRows DEF AccessInv, TablesTyped
<1>2. ASSUME NEW d \in Clients, AssignWrite(d)
      PROVE  /\ assignments'[a].user = assignments[a].user
             /\ assignments'[a].active => assignments[a].active
  <2>1. client[d].user \in Users /\ client[d].of \in Assets
    BY <1>2, Carries DEF Holds, Subject, OfPerson, AssignWrite, At
  <2> DEFINE r == [active |-> TRUE, user |-> client[d].user, asset |-> client[d].of,
                   releases |-> 0, acked |-> FALSE]
  <2>2. r \in AssignmentRecord
    BY <2>1 DEF AssignmentRecord
  <2>3. assignments' = assignments \/ assignments' = Append(assignments, r)
    BY <1>2 DEF AssignWrite
  <2> HIDE DEF r
  <2> QED BY <1>1, <2>2, <2>3, OneMore DEF AssignmentsTyped
<1>3. ASSUME NEW d \in Clients, ReleaseCommit(d) \/ Acknowledge(d) \/ OffboardCommit(d)
      PROVE  /\ assignments'[a].user = assignments[a].user
             /\ assignments'[a].active => assignments[a].active
  <2>1. assignments[a] \in AssignmentRecord
    BY <1>1
  <2>2. CASE ReleaseCommit(d)
    BY <2>1, <2>2 DEF ReleaseCommit, AssignmentRecord
  <2>3. CASE Acknowledge(d)
    BY <2>1, <2>3 DEF Acknowledge, AssignmentRecord
  <2>4. CASE OffboardCommit(d)
    BY <2>1, <2>4 DEF OffboardCommit, AssignmentRecord
  <2> QED BY <1>3, <2>2, <2>3, <2>4
<1> QED BY <1>2, <1>3, AssignmentsTypedStep, Writes

LEMMA CommitRevokes ==
    ASSUME AccessInv, NEW d \in Clients, Commits(d), NEW g \in DOMAIN grants, g \in client[d].staged
    PROVE  grants'[g].state = "revoked"
<1>1. grants[g] \in GrantRecord
  BY GrantRows DEF AccessInv, TablesTyped
<1>2. CASE RevokeCommit(d)
  <2> DEFINE how == IF grants[g].of \in client[d].plans THEN "revoke" ELSE "unplanned"
             runs == IF g \in client[d].fired THEN grants[g].runs \cup {"revoked"}
                                             ELSE grants[g].runs
  <2>1. grants'[g] = [grants[g] EXCEPT !.state = "revoked", !.by = Actor(d), !.how = how,
                                       !.runs = runs]
    BY <1>2 DEF RevokeCommit
  <2> HIDE DEF how, runs
  <2> QED BY <1>1, <2>1 DEF GrantRecord
<1>3. CASE OffboardCommit(d)
  BY <1>1, <1>3 DEF OffboardCommit, GrantRecord
<1> QED BY <1>2, <1>3 DEF Commits

\* A revoked grant is not granted again.
LEMMA GrantStaysRevoked ==
    ASSUME AccessInv, [Next]_accessVars, NEW g \in DOMAIN grants, grants'[g].state = "active"
    PROVE  grants[g].state = "active"
BY GrantRowMoves, CommitRevokes DEF RowKeeps

Ahead(c, g) == \E i \in DOMAIN client[c].ids : client[c].ids[i] = g

Covering ==
    \A c \in Clients : client[c].op = "offboard" =>
        /\ client[c].pc \in {"offboard grants", "offboard commit"} =>
             \A g \in DOMAIN grants :
                 grants[g].state = "active" /\ grants[g].user = client[c].user =>
                   g \in client[c].staged \/ Ahead(c, g)
        /\ client[c].pc = "offboard commit" =>
             \A a \in DOMAIN assignments :
                 assignments[a].active /\ assignments[a].user = client[c].user =>
                   a \in client[c].reclaim

LEMMA CoveringStays ==
    ASSUME AccessInv, Covering, [Next]_accessVars, NEW c \in Clients, client'[c] = client[c],
           client[c].op = "offboard", client[c].pc \in {"offboard grants", "offboard commit"}
    PROVE  /\ \A g \in DOMAIN grants' :
                grants'[g].state = "active" /\ grants'[g].user = client[c].user =>
                  g \in client[c].staged \/ Ahead(c, g)
           /\ client[c].pc = "offboard commit" =>
                \A a \in DOMAIN assignments' :
                  assignments'[a].active /\ assignments'[a].user = client[c].user =>
                    a \in client[c].reclaim
<1>1. UserRow(client[c].user) \in client[c].locks
  BY Carries DEF Holds, Standing
<1>2. ASSUME NEW g \in DOMAIN grants', grants'[g].state = "active", grants'[g].user = client[c].user
      PROVE  g \in client[c].staged \/ Ahead(c, g)
  <2>1. g \in DOMAIN grants
    BY <1>1, <1>2, NewGrantWaits
  <2>2. grants[g].state = "active" /\ grants[g].user = client[c].user
    BY <1>2, <2>1, GrantStaysRevoked, GrantsTypedStep DEF GrantsGrow
  <2> QED BY <2>1, <2>2 DEF Covering
<1>3. ASSUME client[c].pc = "offboard commit", NEW a \in DOMAIN assignments',
             assignments'[a].active, assignments'[a].user = client[c].user
      PROVE  a \in client[c].reclaim
  <2>1. a \in DOMAIN assignments
    BY <1>1, <1>3, NewAssignmentWaits
  <2>2. assignments[a].active /\ assignments[a].user = client[c].user
    BY <1>3, <2>1, AssignmentRowMoves
  <2> QED BY <1>3, <2>1, <2>2 DEF Covering
<1> QED BY <1>2, <1>3

LEMMA CoveringStep ==
    ASSUME AccessInv, Covering, [Next]_accessVars
    PROVE  Covering'
<1> DEFINE Covered(c) ==
      /\ client'[c].pc \in {"offboard grants", "offboard commit"} =>
           \A g \in DOMAIN grants' :
             grants'[g].state = "active" /\ grants'[g].user = client'[c].user =>
               g \in client'[c].staged \/ Ahead(c, g)'
      /\ client'[c].pc = "offboard commit" =>
           \A a \in DOMAIN assignments' :
             assignments'[a].active /\ assignments'[a].user = client'[c].user =>
               a \in client'[c].reclaim
<1> SUFFICES ASSUME NEW c \in Clients, client'[c].op = "offboard" PROVE Covered(c)
  BY DEF Covering
<1>1. client = [d \in Clients |-> client[d]] /\ DOMAIN client[c] = DOMAIN Idle
  BY DEF AccessInv, AdminInv, ClientShape
<1>2. CASE client'[c] = client[c]
  <2>1. \A g : Ahead(c, g)' <=> Ahead(c, g)
    BY <1>2 DEF Ahead
  <2> QED BY <1>2, <2>1, CoveringStays
<1>3. CASE OffboardRead(c)
  <2>1. PICK u : Begin(c, "offboard", [Idle EXCEPT !.op = "offboard", !.pc = "admins", !.user = u])
    BY <1>3 DEF OffboardRead
  <2> QED BY <1>1, <2>1 DEF Begin, Idle
<1>4. CASE OffboardCheckAdmins(c) /\ LockAdmins(c, "user row")
  <2>1. client'[c].pc = "user row"
    BY <1>1, <1>4 DEF LockAdmins, Idle
  <2> QED BY <2>1
<1>5. CASE OffboardLockUser(c)
  <2> DEFINE held == {g \in DOMAIN grants : grants[g].state = "active"
                                            /\ grants[g].user = client[c].user}
  <2>1. PICK order \in Orders(held) :
          client' = [client EXCEPT ![c].pc = "offboard grants", ![c].ids = order,
                                   ![c].locks = WithRowLock(c)]
    BY <1>5 DEF OffboardLockUser
  <2>2. /\ client'[c].pc = "offboard grants" /\ client'[c].ids = order
        /\ client'[c].user = client[c].user /\ UNCHANGED grants
    BY <1>1, <1>5, <2>1 DEF Idle, OffboardLockUser, accessTables
  <2>3. IsFiniteSet(held)
    BY GrantSetsFinite DEF AccessInv, TablesTyped
  <2>4. ASSUME NEW g \in held PROVE Ahead(c, g)'
    <3> HIDE DEF held
    <3>2. order \in Orders(held) /\ g \in held
      OBVIOUS
    <3>1. \E i \in DOMAIN order : order[i] = g
      BY <2>3, <3>2, OrderCovers
    <3> QED BY <2>2, <3>1 DEF Ahead
  <2> QED BY <2>2, <2>4
<1>6. CASE OffboardGrant(c)
  <2> DEFINE h == Head(client[c].ids)
             more == IF grants[h].state = "active" THEN {h} ELSE {}
  <2>1. /\ client[c].op = "offboard" /\ client[c].pc = "offboard grants" /\ client[c].ids # <<>>
        /\ UNCHANGED grants
    BY <1>6 DEF OffboardGrant, At, accessTables
  <2>2. /\ client'[c].pc = client[c].pc /\ client'[c].user = client[c].user
        /\ client'[c].ids = Tail(client[c].ids) /\ client'[c].staged = client[c].staged \cup more
    BY <1>1, <1>6 DEF OffboardGrant, Idle
  <2>3. client[c].ids \in Seq(DOMAIN grants)
    BY <2>1, Carries DEF Holds, Subject, Known
  <2>4. ASSUME NEW g \in DOMAIN grants, grants[g].state = "active", Ahead(c, g)
        PROVE  g \in client'[c].staged \/ Ahead(c, g)'
    <3>1. PICK i \in DOMAIN client[c].ids : client[c].ids[i] = g
      BY <2>4 DEF Ahead
    <3>2. g = h \/ \E j \in DOMAIN Tail(client[c].ids) : Tail(client[c].ids)[j] = g
      BY <2>1, <2>3, <3>1, MoreThanHead
    <3> QED BY <2>2, <2>4, <3>2 DEF Ahead
  <2>5. \A g \in DOMAIN grants : grants[g].state = "active" /\ grants[g].user = client[c].user =>
          g \in client[c].staged \/ Ahead(c, g)
    BY <2>1 DEF Covering
  <2> HIDE DEF h, more
  <2> QED BY <2>1, <2>2, <2>4, <2>5
<1>7. CASE OffboardReadAssignments(c)
  <2>1. /\ client[c].op = "offboard" /\ client[c].pc = "offboard grants" /\ UNCHANGED <<grants, assignments>>
    BY <1>7 DEF OffboardReadAssignments, At, accessTables
  <2>2. /\ client'[c].user = client[c].user /\ client'[c].ids = client[c].ids
        /\ client'[c].staged = client[c].staged
        /\ client'[c].reclaim = {a \in DOMAIN assignments :
                                   assignments[a].active /\ assignments[a].user = client[c].user}
    BY <1>1, <1>7 DEF OffboardReadAssignments, Idle
  <2>3. \A g : Ahead(c, g)' <=> Ahead(c, g)
    BY <2>2 DEF Ahead
  <2>4. \A g \in DOMAIN grants : grants[g].state = "active" /\ grants[g].user = client[c].user =>
          g \in client[c].staged \/ Ahead(c, g)
    BY <2>1 DEF Covering
  <2> QED BY <2>1, <2>2, <2>3, <2>4
<1> QED BY <1>2, <1>3, <1>4, <1>5, <1>6, <1>7, OffboardMoves

\* At the commit that deletes a person nothing is theirs any more, not even what
\* was granted or checked out to them while the offboarding ran: it had to wait
\* for the person's row, and the offboarding had read before (#425).
THEOREM OffboardsComplete == Spec => OffboardComplete
<1> DEFINE A == \A u \in Users : (users[u].live /\ ~ users'[u].live) =>
         /\ \A g \in DOMAIN grants' : grants'[g].user = u => grants'[g].state = "revoked"
         /\ \A a \in DOMAIN assignments' : assignments'[a].user = u => ~ assignments'[a].active
         /\ \A m \in members' : m[2] # u
<1>1. AccessInv /\ Covering /\ [Next]_accessVars => [A]_accessVars
  <2> SUFFICES ASSUME AccessInv, Covering, [Next]_accessVars,
                      NEW u \in Users, users[u].live, ~ users'[u].live
               PROVE  /\ \A g \in DOMAIN grants' : grants'[g].user = u => grants'[g].state = "revoked"
                      /\ \A a \in DOMAIN assignments' : assignments'[a].user = u => ~ assignments'[a].active
                      /\ \A m \in members' : m[2] # u
    OBVIOUS
  <2>1. PICK c \in Clients : OffboardCommit(c) /\ client[c].user = u
    BY LiveMoves
  <2>2. client[c].op = "offboard" /\ client[c].pc = "offboard commit" /\ client[c].ids = <<>>
    BY <2>1, Carries DEF OffboardCommit, At, Holds, Standing
  <2>3. ASSUME NEW g \in DOMAIN grants', grants'[g].user = u PROVE grants'[g].state = "revoked"
    <3>1. g \in DOMAIN grants /\ grants[g].user = u
      BY <2>1, <2>3, GrantsTypedStep DEF GrantsGrow, OffboardCommit
    <3>2. CASE g \in client[c].staged
      BY <2>1, <3>1, <3>2, CommitRevokes DEF Commits
    <3>3. CASE g \notin client[c].staged
      <4>1. ~ Ahead(c, g)
        <5>1. client[c].ids \in Seq(DOMAIN grants)
          BY <2>2, Carries DEF Holds, Subject, Known
        <5>2. Len(client[c].ids) = 0 /\ DOMAIN client[c].ids = 1 .. Len(client[c].ids)
          BY <2>2, <5>1, EmptySeq, LenProperties
        <5> QED BY <5>2 DEF Ahead
      <4>2. grants[g].state # "active" /\ grants[g] \in GrantRecord
        BY <2>1, <2>2, <3>1, <3>3, <4>1, GrantRows DEF Covering, AccessInv, TablesTyped
      <4>3. grants'[g] = grants[g]
        BY <2>1, <3>1, <3>3 DEF OffboardCommit
      <4> QED BY <4>2, <4>3 DEF GrantRecord
    <3> QED BY <3>2, <3>3
  <2>4. ASSUME NEW a \in DOMAIN assignments', assignments'[a].user = u PROVE ~ assignments'[a].active
    <3>1. a \in DOMAIN assignments
      BY <2>1, <2>4 DEF OffboardCommit
    <3>2. assignments[a] \in AssignmentRecord /\ assignments'[a].user = assignments[a].user
      BY <3>1, AssignmentRows, AssignmentRowMoves DEF AccessInv, TablesTyped
    <3>3. CASE a \in client[c].reclaim
      BY <2>1, <3>1, <3>2, <3>3 DEF OffboardCommit, AssignmentRecord
    <3>4. CASE a \notin client[c].reclaim
      BY <2>1, <2>2, <2>4, <3>1, <3>2, <3>4 DEF Covering, OffboardCommit
    <3> QED BY <3>3, <3>4
  <2>5. \A m \in members' : m[2] # u
    BY <2>1 DEF OffboardCommit
  <2> QED BY <2>3, <2>4, <2>5
<1>2. Init => Covering
  <2> SUFFICES ASSUME Init, NEW c \in Clients PROVE client[c].op # "offboard"
    BY DEF Covering
  <2> QED BY DEF Init, Idle
<1>3. AccessInv /\ Covering /\ [Next]_accessVars => Covering'
  BY CoveringStep
<1> HIDE DEF A
<1>4. Spec => [][A]_accessVars
  BY <1>1, <1>2, <1>3, AccessInit, AccessStep, PTL DEF Spec
<1> QED BY <1>4 DEF A, OffboardComplete
-----------------------------------------------------------------------------
(***************************************************************************)
(* The last revocation of a pair.  A transaction that has revoked a grant   *)
(* of a pair that its workflow counts holds the lock of the pair; it has     *)
(* fired for it, or leaves a grant of it that no revoke has taken; and no    *)
(* other revoke that counts takes that one while the lock is held.          *)
(***************************************************************************)
SamePair(g, h) == grants[g].user = grants[h].user /\ grants[g].of = grants[h].of

Watched(c, g) ==
    /\ Pair(grants[g].user, grants[g].of) \in client[c].locks
    /\ \/ \E f \in client[c].fired : SamePair(f, g)
       \/ \E h \in DOMAIN grants : /\ h \notin client[c].staged /\ SamePair(h, g)
                                   /\ grants[h].how # "revoke"

Counted(c, g) ==
    /\ grants[g].of \in client[c].plans /\ Policy[grants[g].of] = "LAST_ACTIVE_GRANT"

Watching(c) ==
    /\ \A a \in client[c].plans : Policy[a] # "none"
    /\ \A g \in client[c].staged :
         grants[g].of \in client[c].plans /\ Policy[grants[g].of] = "EACH_GRANT" =>
           g \in client[c].fired
    /\ \A g \in client[c].staged : Counted(c, g) =>
         \/ client[c].pc = "count" /\ SamePair(Head(client[c].ids), g)
         \/ Watched(c, g)

ActiveUnrevoked == \A g \in DOMAIN grants : grants[g].state = "active" => grants[g].how = "none"

LastInv ==
    /\ AccessInv /\ StagedActive /\ ActiveUnrevoked
    /\ \A c \in Clients : client[c].op = "revoke" => Watching(c)

LEMMA ActiveUnrevokedStep ==
    ASSUME LastInv, [Next]_accessVars
    PROVE  ActiveUnrevoked'
<1> SUFFICES ASSUME NEW g \in DOMAIN grants', grants'[g].state = "active"
             PROVE  grants'[g].how = "none"
  BY DEF ActiveUnrevoked
<1>1. AccessInv
  BY DEF LastInv
<1>2. CASE g \in DOMAIN grants
  <2>1. grants[g].state = "active"
    BY <1>1, <1>2, GrantStaysRevoked
  <2>2. ASSUME NEW d \in Clients, Commits(d) PROVE g \notin client[d].staged
    BY <1>1, <1>2, <2>2, CommitRevokes
  <2> QED BY <1>1, <1>2, <2>1, <2>2, GrantRowMoves DEF RowKeeps, LastInv, ActiveUnrevoked
<1> QED BY <1>1, <1>2, NewGrantWaits

\* A revoke that commits on a counted grant holds the lock of its pair.
LEMMA CommitHoldsPair ==
    ASSUME LastInv, NEW d \in Clients, RevokeCommit(d), NEW g \in client[d].staged, Counted(d, g)
    PROVE  Watched(d, g)
BY DEF LastInv, Watching, RevokeCommit, At

LEMMA HowMoves ==
    ASSUME LastInv, [Next]_accessVars, NEW g \in DOMAIN grants,
           grants[g].how # "revoke", grants'[g].how = "revoke"
    PROVE  \E d \in Clients : RevokeCommit(d) /\ g \in client[d].staged
                              /\ grants[g].of \in client[d].plans
<1>1. AccessInv /\ grants[g] \in GrantRecord
  BY GrantRows DEF LastInv, AccessInv, TablesTyped
<1>2. PICK d \in Clients : Commits(d) /\ g \in client[d].staged
  BY <1>1, GrantRowMoves DEF RowKeeps
<1>3. ASSUME OffboardCommit(d) PROVE FALSE
  <2>1. grants'[g] = [grants[g] EXCEPT !.state = "revoked", !.by = d, !.how = "offboard"]
    BY <1>2, <1>3 DEF OffboardCommit
  <2> QED BY <1>1, <2>1 DEF GrantRecord
<1>4. RevokeCommit(d)
  BY <1>2, <1>3 DEF Commits
<1> DEFINE how == IF grants[g].of \in client[d].plans THEN "revoke" ELSE "unplanned"
           runs == IF g \in client[d].fired THEN grants[g].runs \cup {"revoked"}
                                           ELSE grants[g].runs
<1>5. grants'[g] = [grants[g] EXCEPT !.state = "revoked", !.by = Actor(d), !.how = how, !.runs = runs]
  BY <1>2, <1>4 DEF RevokeCommit
<1>6. grants'[g].how = how
  <2> HIDE DEF how, runs
  <2> QED BY <1>1, <1>5 DEF GrantRecord
<1> QED BY <1>2, <1>4, <1>6

LEMMA WatchStays ==
    ASSUME LastInv, [Next]_accessVars, NEW c \in Clients, client'[c] = client[c],
           client[c].op = "revoke", NEW g \in client[c].staged, Watched(c, g), Counted(c, g)
    PROVE  Watched(c, g)'
<1>1. /\ AccessInv /\ client[c].staged \subseteq DOMAIN grants
      /\ client[c].fired \subseteq client[c].staged
  BY Carries DEF LastInv, Holds, Staging, Known
<1>2. /\ DOMAIN grants \subseteq DOMAIN grants'
      /\ \A h \in DOMAIN grants : grants'[h].user = grants[h].user /\ grants'[h].of = grants[h].of
  BY <1>1, GrantsTypedStep DEF GrantsGrow
<1>3. Pair(grants'[g].user, grants'[g].of) \in client'[c].locks
  BY <1>1, <1>2 DEF Watched
<1>4. CASE \E f \in client[c].fired : SamePair(f, g)
  BY <1>1, <1>2, <1>3, <1>4 DEF Watched, SamePair
<1>5. ASSUME NEW h \in DOMAIN grants, h \notin client[c].staged, SamePair(h, g),
             grants[h].how # "revoke"
      PROVE  grants'[h].how # "revoke"
  <2> SUFFICES ASSUME grants'[h].how = "revoke" PROVE FALSE
    OBVIOUS
  <2>1. PICK d \in Clients : RevokeCommit(d) /\ h \in client[d].staged
                             /\ grants[h].of \in client[d].plans
    BY <1>5, HowMoves
  <2>2. Counted(d, h)
    BY <1>5, <2>1 DEF Counted, SamePair
  <2>3. Pair(grants[h].user, grants[h].of) \in client[d].locks
    BY <2>1, <2>2, CommitHoldsPair DEF Watched
  <2>4. Pair(grants[h].user, grants[h].of) \in client[c].locks
    BY <1>5 DEF Watched, SamePair
  <2>5. ~ IsShare(Pair(grants[h].user, grants[h].of))
    BY DEF IsShare, Pair
  <2>6. c = d
    BY <1>1, <2>3, <2>4, <2>5 DEF AccessInv, Exclusive
  <2> QED BY <1>5, <2>1, <2>6
<1> QED BY <1>1, <1>2, <1>3, <1>4, <1>5 DEF Watched, SamePair

LEMMA WatchingStays ==
    ASSUME LastInv, [Next]_accessVars, NEW c \in Clients, client'[c] = client[c],
           client[c].op = "revoke"
    PROVE  Watching(c)'
<1>1. AccessInv /\ Watching(c) /\ client[c].staged \subseteq DOMAIN grants
  BY Carries DEF LastInv, Holds, Staging, Known
<1>2. \A h \in DOMAIN grants : grants'[h].user = grants[h].user /\ grants'[h].of = grants[h].of
  BY <1>1, GrantsTypedStep DEF GrantsGrow
<1>3. client[c].pc = "count" => Head(client[c].ids) \in client[c].staged
  BY <1>1, Carries DEF Holds, Standing
<1>4. ASSUME NEW g \in client[c].staged, Counted(c, g)'
      PROVE  \/ client[c].pc = "count" /\ SamePair(Head(client[c].ids), g)'
             \/ Watched(c, g)'
  <2>1. Counted(c, g)
    BY <1>1, <1>2, <1>4 DEF Counted
  <2>2. CASE client[c].pc = "count" /\ SamePair(Head(client[c].ids), g)
    BY <1>1, <1>2, <1>3, <2>2 DEF SamePair
  <2>3. CASE Watched(c, g)
    BY <2>1, <2>3, WatchStays
  <2> QED BY <1>1, <2>1, <2>2, <2>3 DEF Watching
<1>5. \A a \in client'[c].plans : Policy[a] # "none"
  BY <1>1 DEF Watching
<1>6. ASSUME NEW g \in client'[c].staged,
             grants'[g].of \in client'[c].plans, Policy[grants'[g].of] = "EACH_GRANT"
      PROVE  g \in client'[c].fired
  BY <1>1, <1>2, <1>6 DEF Watching
<1> HIDE DEF Watching
<1>7. \A g \in client'[c].staged : Counted(c, g)' =>
         \/ client'[c].pc = "count" /\ SamePair(Head(client[c].ids), g)'
         \/ Watched(c, g)'
  BY <1>4
<1> QED BY <1>5, <1>6, <1>7 DEF Watching, SamePair

LEMMA PlansPoliced ==
    ASSUME NEW S, NEW plans, LookUp(S, plans)
    PROVE  \A a \in plans : Policy[a] # "none"
BY DEF LookUp

LEMMA NothingStaged ==
    ASSUME NEW c, client'[c].staged = {}, \A a \in client'[c].plans : Policy[a] # "none"
    PROVE  Watching(c)'
BY DEF Watching

\* A statement of the revoke, and the count that follows it.
LEMMA CasWatches ==
    ASSUME LastInv, NEW c \in Clients, RevokeCas(c)
    PROVE  Watching(c)'
<1> DEFINE g == Head(client[c].ids)
           of == grants[g].of
           counts == StillActive(g) /\ of \in client[c].plans /\ Policy[of] = "LAST_ACTIVE_GRANT"
           fires == StillActive(g) /\ of \in client[c].plans /\ Policy[of] = "EACH_GRANT"
           staged == IF StillActive(g) THEN client[c].staged \cup {g} ELSE client[c].staged
           fired == IF fires THEN client[c].fired \cup {g} ELSE client[c].fired
<1>1. /\ client[c].op = "revoke" /\ client[c].pc = "revoke" /\ client[c].ids # <<>>
      /\ Watching(c) /\ AccessInv /\ UNCHANGED grants
  BY DEF RevokeCas, At, LastInv, accessTables
<1>2. client = [d \in Clients |-> client[d]] /\ DOMAIN client[c] = DOMAIN Idle
  BY <1>1 DEF AccessInv, AdminInv, ClientShape
<1>3. /\ client'[c].staged = staged /\ client'[c].fired = fired
      /\ client'[c].plans = client[c].plans
      /\ client'[c].pc = (IF counts THEN "count" ELSE client[c].pc)
      /\ client'[c].ids = (IF counts THEN client[c].ids ELSE Tail(client[c].ids))
      /\ client[c].locks \subseteq client'[c].locks
  BY <1>2 DEF RevokeCas, Idle
<1>4. \A f \in client[c].fired : f \in client'[c].fired
  BY <1>3
<1>5. ASSUME NEW h \in client'[c].staged,
             grants[h].of \in client[c].plans, Policy[grants[h].of] = "EACH_GRANT"
      PROVE  h \in client'[c].fired
  BY <1>1, <1>3, <1>5 DEF Watching
<1>6. ASSUME NEW h \in client'[c].staged, Counted(c, h), ~ (counts /\ SamePair(g, h))
      PROVE  Watched(c, h)'
  <2>1. h \in client[c].staged
    BY <1>3, <1>6 DEF Counted, SamePair
  <2>2. Watched(c, h)
    BY <1>1, <1>6, <2>1 DEF Watching
  <2>3. CASE \E f \in client[c].fired : SamePair(f, h)
    BY <1>1, <1>3, <1>4, <2>2, <2>3 DEF Watched, SamePair
  <2>4. ASSUME NEW k \in DOMAIN grants, k \notin client[c].staged, SamePair(k, h),
               grants[k].how # "revoke"
        PROVE  k \notin client'[c].staged
    <3>1. SUFFICES ASSUME k = g, StillActive(g) PROVE FALSE
      BY <1>3, <2>4
    <3> QED BY <1>6, <2>4, <3>1 DEF Counted, SamePair
  <2> QED BY <1>1, <1>3, <2>2, <2>3, <2>4 DEF Watched, SamePair
<1>7. \A h : Counted(c, h)' <=> Counted(c, h)
  BY <1>1, <1>3 DEF Counted
<1>9. counts => client'[c].pc = "count" /\ Head(client'[c].ids) = g
  BY <1>3
<1>10. \A a \in client'[c].plans : Policy[a] # "none"
  BY <1>1, <1>3 DEF Watching
<1>11. ASSUME NEW h \in client'[c].staged, Counted(c, h)'
       PROVE  \/ /\ client'[c].pc = "count"
                 /\ grants'[Head(client'[c].ids)].user = grants'[h].user
                 /\ grants'[Head(client'[c].ids)].of = grants'[h].of
              \/ Watched(c, h)'
  <2>1. CASE counts /\ SamePair(g, h)
    BY <1>1, <1>9, <2>1 DEF SamePair
  <2> QED BY <1>6, <1>7, <1>11, <2>1
<1> HIDE DEF g, of, counts, fires, staged, fired
<1> QED BY <1>1, <1>3, <1>5, <1>10, <1>11 DEF Watching, SamePair

LEMMA CountWatches ==
    ASSUME LastInv, NEW c \in Clients, RevokeCount(c)
    PROVE  Watching(c)'
<1> DEFINE g == Head(client[c].ids)
           others == ActiveGrants(grants[g].user, grants[g].of) \ client[c].staged
           fired == IF others = {} THEN client[c].fired \cup {g} ELSE client[c].fired
<1>1. /\ client[c].op = "revoke" /\ client[c].pc = "count"
      /\ Watching(c) /\ AccessInv /\ UNCHANGED grants
  BY DEF RevokeCount, At, LastInv, accessTables
<1>2. client = [d \in Clients |-> client[d]] /\ DOMAIN client[c] = DOMAIN Idle
  BY <1>1 DEF AccessInv, AdminInv, ClientShape
<1>3. Wants(c) = {Pair(grants[g].user, grants[g].of)}
  BY <1>1 DEF Wants
<1>4. /\ client'[c].staged = client[c].staged /\ client'[c].fired = fired
      /\ client'[c].plans = client[c].plans
      /\ client'[c].locks = client[c].locks \cup {Pair(grants[g].user, grants[g].of)}
  BY <1>2, <1>3 DEF RevokeCount, WithPairLock, Idle
<1>5. client[c].fired \subseteq client'[c].fired
  BY <1>4
<1>6. ASSUME NEW h \in client[c].staged, Counted(c, h), SamePair(g, h)
      PROVE  Watched(c, h)'
  <2>1. Pair(grants'[h].user, grants'[h].of) \in client'[c].locks
    BY <1>1, <1>4, <1>6 DEF SamePair
  <2>2. CASE others = {}
    <3>1. g \in client'[c].fired /\ grants'[g].user = grants'[h].user /\ grants'[g].of = grants'[h].of
      BY <1>1, <1>4, <1>6, <2>2 DEF SamePair
    <3> HIDE DEF g
    <3> QED BY <2>1, <3>1 DEF Watched, SamePair
  <2>3. CASE others # {}
    <3>1. PICK k \in others : TRUE
      BY <2>3
    <3>2. /\ k \in DOMAIN grants /\ k \notin client[c].staged /\ grants[k].state = "active"
          /\ grants[k].user = grants[h].user /\ grants[k].of = grants[h].of
      BY <1>6, <3>1 DEF ActiveGrants, SamePair
    <3>3. grants[k].how # "revoke"
      BY <3>2 DEF LastInv, ActiveUnrevoked
    <3> QED BY <1>1, <1>4, <2>1, <3>2, <3>3 DEF Watched, SamePair
  <2> QED BY <2>2, <2>3
<1>7. ASSUME NEW h \in client[c].staged, Counted(c, h), ~ SamePair(g, h)
      PROVE  Watched(c, h)'
  <2>1. Watched(c, h)
    BY <1>1, <1>7 DEF Watching
  <2> QED BY <1>1, <1>4, <1>5, <2>1 DEF Watched, SamePair
<1>8. \A h : Counted(c, h)' <=> Counted(c, h)
  BY <1>1, <1>4 DEF Counted
<1>9. \A a \in client'[c].plans : Policy[a] # "none"
  BY <1>1, <1>4 DEF Watching
<1>10. \A h \in client'[c].staged :
         grants'[h].of \in client'[c].plans /\ Policy[grants'[h].of] = "EACH_GRANT" =>
           h \in client'[c].fired
  BY <1>1, <1>4, <1>5 DEF Watching
<1>11. \A h \in client'[c].staged : Counted(c, h)' => Watched(c, h)'
  BY <1>4, <1>6, <1>7, <1>8
<1> QED BY <1>9, <1>10, <1>11 DEF Watching

LEMMA LastStep ==
    ASSUME LastInv, [Next]_accessVars
    PROVE  LastInv'
<1>1. AccessInv /\ StagedActive
  BY DEF LastInv
<1>2. AccessInv' /\ StagedActive' /\ ActiveUnrevoked'
  BY <1>1, AccessStep, StagedActiveStep, ActiveUnrevokedStep
<1>3. ASSUME NEW c \in Clients, client'[c].op = "revoke" PROVE Watching(c)'
  <2>1. client = [d \in Clients |-> client[d]] /\ DOMAIN client[c] = DOMAIN Idle
    BY <1>1 DEF AccessInv, AdminInv, ClientShape
  <2>2. CASE client'[c] = client[c]
    BY <1>3, <2>2, WatchingStays
  <2>3. CASE RevokeRead(c)
    <3>1. PICK S, plans : /\ LookUp({grants[g].of : g \in S}, plans)
                          /\ \E ids \in Orders(S) : Begin(c, "revoke", Revoking(ids, plans))
      BY <2>3 DEF RevokeRead
    <3>2. PICK ids : Begin(c, "revoke", Revoking(ids, plans))
      BY <3>1
    <3>3. client'[c].staged = {} /\ client'[c].plans = plans
      BY <2>1, <3>2 DEF Begin, Revoking, Idle
    <3> QED BY <3>1, <3>3, PlansPoliced, NothingStaged
  <2>4. CASE Sweep /\ c = Sweeper
    <3>1. PICK g, plans : /\ LookUp({grants[g].of}, plans)
                          /\ client' = [client EXCEPT ![Sweeper] = Revoking(<<g>>, plans)]
      BY <2>4 DEF Sweep
    <3>2. client'[c].staged = {} /\ client'[c].plans = plans
      BY <2>1, <2>4, <3>1 DEF Revoking, Idle
    <3> QED BY <3>1, <3>2, PlansPoliced, NothingStaged
  <2>5. CASE RevokeCas(c)
    BY <2>5, CasWatches
  <2>6. CASE RevokeCount(c)
    BY <2>6, CountWatches
  <2> QED BY <1>1, <1>3, <2>2, <2>3, <2>4, <2>5, <2>6, RevokeMoves
<1> QED BY <1>2, <1>3 DEF LastInv

LEMMA LastInit == Init => LastInv
<1> SUFFICES ASSUME Init PROVE LastInv
  OBVIOUS
<1>1. AccessInv
  BY AccessInit
<1>2. \A c \in Clients : client[c].op = "none"
  BY DEF Init, Idle
<1>3. PICK s \in Starts : grants = s.grants
  BY DEF Init
<1>4. ActiveUnrevoked
  BY <1>3, StartsAssumption DEF ActiveUnrevoked
<1> QED BY <1>1, <1>2, <1>4 DEF LastInv, StagedActive, Revokers

\* When revokes take a person's last grant of an application away, the one that
\* commits last records a deprovision run, however revokes, batches, sweeps and
\* approvals cross: the count is made under the advisory lock of the pair, which
\* the transaction keeps (CCOR-1: isLastActiveGrant).
THEOREM LastRevocations == Spec => LastRevocationDeprovisions
<1> DEFINE A == \A u \in Users, a \in Apps : EndsByRevoke(u, a) =>
                   \E g \in ActiveGrants(u, a) : "revoked" \in grants'[g].runs
<1>1. LastInv /\ [Next]_accessVars => [A]_accessVars
  <2> SUFFICES ASSUME LastInv, [Next]_accessVars, NEW u \in Users, NEW a \in Apps,
                      EndsByRevoke(u, a)
               PROVE  \E g \in ActiveGrants(u, a) : "revoked" \in grants'[g].runs
    OBVIOUS
  <2>1. AccessInv /\ StagedActive /\ ActiveUnrevoked
        /\ \A g \in DOMAIN grants : grants[g] \in GrantRecord
    BY GrantRows DEF LastInv, AccessInv, TablesTyped
  <2>2. PICK g \in ActiveGrants(u, a) : grants'[g].how = "revoke"
    BY DEF EndsByRevoke
  <2>3. /\ g \in DOMAIN grants /\ grants[g].user = u /\ grants[g].of = a
        /\ grants[g].how # "revoke"
    BY <2>1, <2>2 DEF ActiveGrants, ActiveUnrevoked
  <2>4. PICK d \in Clients : RevokeCommit(d) /\ g \in client[d].staged
                             /\ grants[g].of \in client[d].plans
    BY <2>2, <2>3, HowMoves
  <2>5. client[d].op = "revoke" /\ Watching(d) /\ client[d].staged \subseteq DOMAIN grants
        /\ client[d].fired \subseteq client[d].staged
    BY <2>1, <2>4, Carries DEF LastInv, RevokeCommit, At, Holds, Staging, Known
  <2>6. ASSUME NEW f \in client[d].fired PROVE "revoked" \in grants'[f].runs
    <3> DEFINE how == IF grants[f].of \in client[d].plans THEN "revoke" ELSE "unplanned"
               runs == grants[f].runs \cup {"revoked"}
    <3>1. grants'[f] = [grants[f] EXCEPT !.state = "revoked", !.by = Actor(d), !.how = how,
                                         !.runs = runs]
      BY <2>4, <2>5 DEF RevokeCommit
    <3>2. grants'[f].runs = runs
      <4> HIDE DEF how, runs
      <4> QED BY <2>1, <2>5, <3>1 DEF GrantRecord
    <3> QED BY <3>2
  <2>7. ASSUME NEW f \in client[d].fired, SamePair(f, g) PROVE f \in ActiveGrants(u, a)
    BY <2>1, <2>3, <2>5, <2>7 DEF ActiveGrants, SamePair, StagedActive, Revokers
  <2>8. Policy[a] \in {"EACH_GRANT", "LAST_ACTIVE_GRANT"}
    BY <2>3, <2>4, <2>5, AccessAssumption DEF Watching, Policies
  <2>9. CASE Policy[a] = "EACH_GRANT"
    <3>1. g \in client[d].fired
      BY <2>3, <2>4, <2>5, <2>9 DEF Watching
    <3> QED BY <2>6, <3>1
  <2>10. CASE Policy[a] = "LAST_ACTIVE_GRANT"
    <3>1. Watched(d, g)
      BY <2>3, <2>4, <2>10, CommitHoldsPair DEF Counted
    <3>2. ASSUME NEW h \in DOMAIN grants, h \notin client[d].staged, SamePair(h, g),
                 grants[h].how # "revoke"
          PROVE  FALSE
      <4>1. grants'[h] = grants[h]
        BY <2>4, <3>2 DEF RevokeCommit
      <4> QED BY <2>3, <3>2, <4>1 DEF EndsByRevoke, SamePair
    <3> QED BY <2>6, <2>7, <3>1, <3>2 DEF Watched
  <2> QED BY <2>8, <2>9, <2>10
<1>2. Init => LastInv
  BY LastInit
<1>3. LastInv /\ [Next]_accessVars => LastInv'
  BY LastStep
<1> HIDE DEF A
<1>4. Spec => [][A]_accessVars
  BY <1>1, <1>2, <1>3, PTL DEF Spec
<1> QED BY <1>4 DEF A, LastRevocationDeprovisions
-----------------------------------------------------------------------------
(***************************************************************************)
(* Connections of AI clients.                                              *)
(***************************************************************************)
LEMMA SameRange ==
    ASSUME NEW m \in Nat, NEW n \in Nat, 1 .. m = 1 .. n
    PROVE  m = n
<1>1. CASE m < n
  <2>1. n \in 1 .. n /\ n \notin 1 .. m
    BY <1>1
  <2> QED BY <2>1
<1>2. CASE n < m
  <2>1. m \in 1 .. m /\ m \notin 1 .. n
    BY <1>2
  <2> QED BY <2>1
<1> QED BY <1>1, <1>2

LEMMA RefreshedUsed ==
    ASSUME AccessInv, NEW t \in DOMAIN tokens, NEW d \in Clients, RefreshCommit(d)
    PROVE  /\ t \in DOMAIN tokens' /\ tokens'[t].connection = tokens[t].connection
           /\ tokens'[t].state = IF Head(client[d].ids) = t THEN "used" ELSE tokens[t].state
<1> DEFINE h == Head(client[d].ids)
           state == "used"
           s2 == [tokens EXCEPT ![h].state = state]
           r == NewToken(tokens[h].connection)
<1>1. OAuthTyped /\ tokens \in Seq(TokenRecord) /\ \A u \in DOMAIN tokens : tokens[u] \in TokenRecord
  BY OAuthRows DEF AccessInv, TablesTyped, OAuthTyped
<1>2. h \in DOMAIN tokens
  BY Carries, FirstNamed DEF Holds, Subject, Named, Known, RefreshCommit, At
<1>3. tokens' = Append(s2, r)
  BY DEF RefreshCommit
<1>4. state \in {"fresh", "used", "old", "gone"} /\ state = "used"
  OBVIOUS
<1>5. s2[t].connection = tokens[t].connection
      /\ s2[t].state = IF h = t THEN state ELSE tokens[t].state
  BY <1>1, <1>2 DEF TokenRecord
<1>6. r \in TokenRecord
  BY <1>1, <1>2 DEF NewToken, TokenRecord
<1> HIDE DEF h, state, r
<1>7. s2 \in Seq(TokenRecord) /\ DOMAIN s2 = DOMAIN tokens
  BY <1>1, <1>2, <1>4, TokenChanged
<1> HIDE DEF s2
<1>8. t \in DOMAIN tokens' /\ tokens'[t] = s2[t]
  BY <1>3, <1>6, <1>7, OneMore
<1> QED BY <1>4, <1>5, <1>8 DEF h

LEMMA TokenMoves ==
    ASSUME AccessInv, [Next]_accessVars, NEW t \in DOMAIN tokens
    PROVE  /\ t \in DOMAIN tokens' /\ tokens'[t].connection = tokens[t].connection
           /\ \/ tokens'[t].state = tokens[t].state
              \/ tokens[t].state = "used" /\ tokens'[t].state = "old"
              \/ \E d \in Clients : RefreshCommit(d) /\ Head(client[d].ids) = t
                                    /\ tokens'[t].state = "used"
              \/ \E d \in Clients : DisconnectCommit(d) /\ t \in client[d].staged
                                    /\ tokens'[t].state = "gone"
<1>1. OAuthTyped /\ tokens \in Seq(TokenRecord) /\ \A r \in DOMAIN tokens : tokens[r] \in TokenRecord
  BY OAuthRows DEF AccessInv, TablesTyped, OAuthTyped
<1>2. CASE UNCHANGED oauthTables
  BY <1>2 DEF oauthTables
<1>3. CASE TokenAges
  BY <1>1, <1>3 DEF TokenAges, TokenRecord
<1>4. ASSUME NEW d \in Clients, ConsentWrite(d) \/ ExchangeBurn(d)
      PROVE  tokens' = tokens
  BY <1>4 DEF ConsentWrite, ExchangeBurn
<1>5. ASSUME NEW d \in Clients, ExchangeConnect(d)
      PROVE  t \in DOMAIN tokens' /\ tokens'[t] = tokens[t]
  <2> DEFINE n == Len(connections')
             r == NewToken(n)
  <2>1. n \in Nat
    BY OAuthTypedStep, OAuthRows DEF OAuthGrow, OAuthTyped
  <2>2. r \in TokenRecord /\ tokens' = Append(tokens, r)
    BY <1>5, <2>1 DEF ExchangeConnect, NewToken, TokenRecord
  <2> HIDE DEF r
  <2> QED BY <1>1, <2>2, OneMore
<1>6. ASSUME NEW d \in Clients, RefreshCommit(d)
      PROVE  /\ t \in DOMAIN tokens' /\ tokens'[t].connection = tokens[t].connection
             /\ tokens'[t].state = IF Head(client[d].ids) = t THEN "used" ELSE tokens[t].state
  BY <1>6, RefreshedUsed
<1>7. ASSUME NEW d \in Clients, DisconnectCommit(d)
      PROVE  /\ t \in DOMAIN tokens' /\ tokens'[t].connection = tokens[t].connection
             /\ tokens'[t].state = IF t \in client[d].staged THEN "gone" ELSE tokens[t].state
  BY <1>1, <1>7 DEF DisconnectCommit, TokenRecord
<1> QED BY <1>2, <1>3, <1>4, <1>5, <1>6, <1>7, Writes

LEMMA NewTokens ==
    ASSUME AccessInv, [Next]_accessVars, NEW t \in DOMAIN tokens', t \notin DOMAIN tokens
    PROVE  /\ tokens'[t].state = "fresh" /\ t = Len(tokens) + 1
           /\ \/ \E d \in Clients : /\ RefreshCommit(d)
                                    /\ tokens'[t].connection = tokens[Head(client[d].ids)].connection
              \/ /\ \E d \in Clients : ExchangeConnect(d)
                 /\ tokens'[t].connection = Len(connections) + 1
<1>1. /\ OAuthTyped /\ tokens \in Seq(TokenRecord) /\ connections \in Seq(ConnectionRecord)
      /\ \A r \in DOMAIN tokens : tokens[r] \in TokenRecord
  BY OAuthRows DEF AccessInv, TablesTyped, OAuthTyped
<1>2. ASSUME NEW d \in Clients, ExchangeConnect(d)
      PROVE  /\ tokens'[t].state = "fresh" /\ t = Len(tokens) + 1
             /\ tokens'[t].connection = Len(connections) + 1
  <2> DEFINE n == Len(connections')
             r == NewToken(n)
             g == [user |-> client[d].user, epoch |-> client[d].seen, live |-> TRUE]
  <2>1. n \in Nat
    BY OAuthTypedStep, OAuthRows DEF OAuthGrow, OAuthTyped
  <2>2. r \in TokenRecord /\ tokens' = Append(tokens, r) /\ r.state = "fresh" /\ r.connection = n
    BY <1>2, <2>1 DEF ExchangeConnect, NewToken, TokenRecord
  <2>3. g \in ConnectionRecord /\ connections' = Append(connections, g)
    BY <1>2, Carries DEF Holds, Subject, OfPerson, ExchangeConnect, At, ConnectionRecord
  <2> HIDE DEF r, g
  <2>4. n = Len(connections) + 1
    BY <1>1, <2>3, OneMore
  <2> QED BY <1>1, <2>2, <2>4, OneMore
<1>3. ASSUME NEW d \in Clients, RefreshCommit(d)
      PROVE  /\ tokens'[t].state = "fresh" /\ t = Len(tokens) + 1
             /\ tokens'[t].connection = tokens[Head(client[d].ids)].connection
  <2> DEFINE h == Head(client[d].ids)
             state == "used"
             s2 == [tokens EXCEPT ![h].state = state]
             r == NewToken(tokens[h].connection)
  <2>1. h \in DOMAIN tokens
    BY <1>3, Carries, FirstNamed DEF Holds, Subject, Named, Known, RefreshCommit, At
  <2>2. tokens' = Append(s2, r)
    BY <1>3 DEF RefreshCommit
  <2>3. state \in {"fresh", "used", "old", "gone"}
    OBVIOUS
  <2>5. r \in TokenRecord /\ r.state = "fresh" /\ r.connection = tokens[h].connection
    BY <1>1, <2>1 DEF NewToken, TokenRecord
  <2> HIDE DEF h, state, r
  <2>6. s2 \in Seq(TokenRecord) /\ DOMAIN s2 = DOMAIN tokens
    BY <1>1, <2>1, <2>3, TokenChanged
  <2> HIDE DEF s2
  <2>7. /\ Len(s2) \in Nat /\ DOMAIN s2 = 1 .. Len(s2)
        /\ Len(tokens) \in Nat /\ DOMAIN tokens = 1 .. Len(tokens)
    BY <1>1, <2>6, LenProperties
  <2>8. Len(s2) = Len(tokens)
    BY <2>6, <2>7, SameRange
  <2>9. t = Len(s2) + 1 /\ tokens'[t] = r
    BY <2>2, <2>5, <2>6, OneMore
  <2> QED BY <2>5, <2>8, <2>9 DEF h
<1>4. ASSUME NEW d \in Clients, ConsentWrite(d) \/ ExchangeBurn(d) \/ DisconnectCommit(d)
      PROVE  FALSE
  BY <1>4 DEF ConsentWrite, ExchangeBurn, DisconnectCommit
<1>5. ~ TokenAges /\ ~ UNCHANGED oauthTables
  BY DEF TokenAges, oauthTables
<1> QED BY <1>2, <1>3, <1>4, <1>5, Writes

LEMMA ConnectionMoves ==
    ASSUME AccessInv, [Next]_accessVars, NEW g \in DOMAIN connections'
    PROVE  \/ /\ g \in DOMAIN connections
              /\ \/ connections'[g].live = connections[g].live
                 \/ \E d \in Clients : DisconnectCommit(d) /\ Head(client[d].ids) = g
           \/ connections'[g].live
<1>1. connections \in Seq(ConnectionRecord)
  BY DEF AccessInv, TablesTyped, OAuthTyped
<1>2. ASSUME NEW d \in Clients, ExchangeConnect(d)
      PROVE  (g \in DOMAIN connections /\ connections'[g] = connections[g]) \/ connections'[g].live
  <2> DEFINE r == [user |-> client[d].user, epoch |-> client[d].seen, live |-> TRUE]
  <2>1. r \in ConnectionRecord /\ connections' = Append(connections, r) /\ r.live
    BY <1>2, Carries DEF Holds, Subject, OfPerson, ExchangeConnect, At, ConnectionRecord
  <2> HIDE DEF r
  <2> QED BY <1>1, <2>1, OneMore
<1>3. ASSUME NEW d \in Clients, DisconnectCommit(d), Head(client[d].ids) # g
      PROVE  g \in DOMAIN connections /\ connections'[g] = connections[g]
  BY <1>3 DEF DisconnectCommit
<1>4. ASSUME NEW d \in Clients, DisconnectCommit(d)
      PROVE  g \in DOMAIN connections
  BY <1>4 DEF DisconnectCommit
<1>5. ASSUME NEW d \in Clients, ConsentWrite(d) \/ ExchangeBurn(d) \/ RefreshCommit(d)
      PROVE  connections' = connections
  BY <1>5 DEF ConsentWrite, ExchangeBurn, RefreshCommit
<1>6. TokenAges \/ UNCHANGED oauthTables => connections' = connections
  BY DEF TokenAges, oauthTables
<1> QED BY <1>2, <1>3, <1>4, <1>5, <1>6, Writes

LEMMA CodeMoves ==
    ASSUME AccessInv, [Next]_accessVars, NEW i \in DOMAIN codes'
    PROVE  \/ /\ i \in DOMAIN codes
              /\ \/ codes'[i].connection = codes[i].connection
                 \/ /\ codes[i].connection = 0
                    /\ \E d \in Clients : ExchangeConnect(d) /\ Head(client[d].ids) = i
              /\ \/ codes'[i].used = codes[i].used
                 \/ codes'[i].used
           \/ i \notin DOMAIN codes /\ codes'[i].connection = 0 /\ ~ codes'[i].used
<1>1. /\ codes \in Seq(CodeRecord) /\ OAuthTyped /\ OAuthTyped'
      /\ \A j \in DOMAIN codes : codes[j] \in CodeRecord
  BY OAuthRows, OAuthTypedStep DEF AccessInv, TablesTyped, OAuthTyped, OAuthGrow
<1>2. ASSUME NEW d \in Clients, ConsentWrite(d)
      PROVE  \/ i \in DOMAIN codes /\ codes'[i] = codes[i]
             \/ i \notin DOMAIN codes /\ codes'[i].connection = 0 /\ ~ codes'[i].used
  <2> DEFINE r == [user |-> client[d].user, epoch |-> client[d].seen, used |-> FALSE,
                   connection |-> 0]
  <2>1. client[d].user \in Users /\ client[d].seen \in Nat
    BY <1>2, Carries DEF Holds, Subject, OfPerson, ConsentWrite, At
  <2>2. r \in CodeRecord /\ r.connection = 0 /\ ~ r.used /\ codes' = Append(codes, r)
    BY <1>2, <2>1 DEF ConsentWrite, CodeRecord
  <2> HIDE DEF r
  <2> QED BY <1>1, <2>2, OneMore
<1>3. ASSUME NEW d \in Clients, ExchangeBurn(d)
      PROVE  /\ i \in DOMAIN codes /\ codes'[i].connection = codes[i].connection
             /\ codes'[i].used = codes[i].used \/ codes'[i].used
  BY <1>1, <1>3 DEF ExchangeBurn, CodeRecord
<1>4. ASSUME NEW d \in Clients, ExchangeConnect(d)
      PROVE  /\ i \in DOMAIN codes /\ codes'[i].used = codes[i].used
             /\ \/ codes'[i].connection = codes[i].connection
                \/ codes[i].connection = 0 /\ Head(client[d].ids) = i
  <2> DEFINE n == Len(connections')
             h == Head(client[d].ids)
             m == IF codes[h].connection = 0 THEN n ELSE codes[h].connection
  <2>1. codes' = [codes EXCEPT ![h].connection = m]
    BY <1>4 DEF ExchangeConnect
  <2>2. i \in DOMAIN codes
    BY <2>1
  <2>3. i # h => codes'[i] = codes[i]
    BY <2>1, <2>2
  <2>4. i = h => codes'[i].used = codes[i].used /\ codes'[i].connection = m
    <3> HIDE DEF m, n
    <3> QED BY <1>1, <2>1, <2>2 DEF CodeRecord
  <2> QED BY <2>2, <2>3, <2>4
<1>5. ASSUME NEW d \in Clients, RefreshCommit(d) \/ DisconnectCommit(d)
      PROVE  codes' = codes
  BY <1>5 DEF RefreshCommit, DisconnectCommit
<1>6. TokenAges \/ UNCHANGED oauthTables => codes' = codes
  BY DEF TokenAges, oauthTables
<1>7. CASE codes' = codes
  BY <1>7
<1> QED BY <1>2, <1>3, <1>4, <1>5, <1>6, <1>7, Writes

\* What a request that changes tokens or connections has waited for.
LEMMA RefreshWaited ==
    ASSUME AccessInv, NEW d \in Clients, RefreshCommit(d)
    PROVE  /\ At(d, "refresh", "rotate") /\ Head(client[d].ids) \in DOMAIN tokens
           /\ TokenRow(Head(client[d].ids)) \in client[d].locks
           /\ \A c \in Clients \ {d} :
                ConnectionRow(tokens[Head(client[d].ids)].connection) \notin client[c].locks
<1>1. At(d, "refresh", "rotate") /\ ~ Waits(d)
  BY DEF RefreshCommit, Stamped
<1>2. Wants(d) = {ConnectionRow(tokens[Head(client[d].ids)].connection)}
  BY <1>1 DEF Wants, At
<1>3. Free(d, ConnectionRow(tokens[Head(client[d].ids)].connection))
  BY <1>1, <1>2 DEF Waits
<1>4. /\ Head(client[d].ids) \in DOMAIN tokens
      /\ TokenRow(Head(client[d].ids)) \in client[d].locks
  BY <1>1, Carries, FirstNamed DEF Holds, Subject, Standing, Named, Known, At
<1> QED BY <1>1, <1>3, <1>4 DEF Free

LEMMA DisconnectWaited ==
    ASSUME AccessInv, NEW d \in Clients, DisconnectCommit(d)
    PROVE  /\ At(d, "disconnect", "delete tokens")
           /\ \A t \in client[d].staged, c \in Clients \ {d} : TokenRow(t) \notin client[c].locks
<1>1. At(d, "disconnect", "delete tokens") /\ ~ Waits(d)
  BY DEF DisconnectCommit
<1>2. Wants(d) = {TokenRow(t) : t \in client[d].staged}
  BY <1>1 DEF Wants, At
<1>3. ASSUME NEW t \in client[d].staged, NEW c \in Clients \ {d}
      PROVE  TokenRow(t) \notin client[c].locks
  <2>1. TokenRow(t) \in Wants(d)
    BY <1>2, <1>3
  <2>2. Free(d, TokenRow(t))
    BY <1>1, <2>1 DEF Waits
  <2> QED BY <2>2 DEF Free
<1> QED BY <1>1, <1>3

\* How requests about connections go.
LEMMA OAuthTurns ==
    ASSUME AccessInv, NEW c \in Clients
    PROVE  /\ ConsentCheck(c) => client'[c].op = "consent"
           /\ ExchangeRead(c) => client'[c].op = "exchange"
           /\ ExchangeReplay(c) => client'[c].op \in {"none", "disconnect"}
           /\ RefreshRead(c) => client'[c].op \in {"refresh", "disconnect"}
           /\ DisconnectRead(c) => client'[c].op = "disconnect"
           /\ ExchangeBurn(c) \/ ExchangeLoad(c) => client'[c].op \in {"none", "exchange"}
           /\ RefreshBurn(c) => client'[c].op \in {"none", "refresh"}
           /\ DisconnectLock(c) => client'[c].op \in {"none", "disconnect"}
<1>1. client = [d \in Clients |-> client[d]] /\ DOMAIN client[c] = DOMAIN Idle
  BY DEF AccessInv, AdminInv, ClientShape
<1>2. ConsentCheck(c) => client'[c].op = "consent"
  BY <1>1, ZenonT(60) DEF ConsentCheck, Begin, Idle
<1>3. ExchangeRead(c) => client'[c].op = "exchange"
  BY <1>1, ZenonT(60) DEF ExchangeRead, Begin, Idle
<1>4. ExchangeReplay(c) => client'[c].op \in {"none", "disconnect"}
  BY <1>1 DEF ExchangeReplay, Idle, Disconnecting
<1>11. \A g : Disconnecting(g).op = "disconnect"
  BY DEF Disconnecting, Idle
<1>5. ASSUME RefreshRead(c) PROVE client'[c].op \in {"refresh", "disconnect"}
  <2>1. PICK t \in DOMAIN tokens :
          \/ Begin(c, "refresh", Disconnecting(tokens[t].connection))
          \/ Begin(c, "refresh", [Idle EXCEPT !.op = "refresh", !.pc = "burn", !.ids = <<t>>])
    BY <1>5 DEF RefreshRead
  <2>2. [Idle EXCEPT !.op = "refresh", !.pc = "burn", !.ids = <<t>>].op = "refresh"
    BY DEF Idle
  <2> QED BY <1>1, <1>11, <2>1, <2>2 DEF Begin
<1>6. ASSUME DisconnectRead(c) PROVE client'[c].op = "disconnect"
  BY <1>1, <1>6, <1>11 DEF DisconnectRead, Begin
<1>7. ASSUME ExchangeBurn(c), ~ End(c) PROVE client'[c].op = "exchange"
  <2>1. client' = [client EXCEPT ![c].pc = IF Unburnt(Head(client[c].ids)) THEN "load person"
                                                                          ELSE "replay"]
    BY <1>7 DEF ExchangeBurn
  <2>2. client'[c].op = client[c].op
    BY <1>1, <2>1 DEF Idle
  <2> QED BY <1>7, <2>2 DEF ExchangeBurn, At
<1>8. ASSUME ExchangeLoad(c), ~ End(c) PROVE client'[c].op = "exchange"
  <2>1. client' = [client EXCEPT ![c].pc = "connect", ![c].seen = users[client[c].user].epoch]
    BY <1>8 DEF ExchangeLoad
  <2>2. client'[c].op = client[c].op
    BY <1>1, <2>1 DEF Idle
  <2> QED BY <1>8, <2>2 DEF ExchangeLoad, At
<1>9. RefreshBurn(c) => client'[c].op \in {"none", "refresh"}
  BY <1>1 DEF RefreshBurn, At, End, Idle
<1>10. ASSUME DisconnectLock(c), ~ End(c) PROVE client'[c].op = "disconnect"
  <2>1. client' = [client EXCEPT ![c].pc = "delete tokens",
                          ![c].locks = @ \cup {ConnectionRow(Head(client[c].ids))},
                          ![c].staged = TokensOf(Head(client[c].ids))]
    BY <1>10 DEF DisconnectLock
  <2>2. client'[c].op = client[c].op
    BY <1>1, <2>1 DEF Idle
  <2> QED BY <1>10, <2>2 DEF DisconnectLock, At
<1> QED BY <1>2, <1>3, <1>4, <1>5, <1>6, <1>7, <1>8, <1>9, <1>10, EndedAs

LEMMA RefreshMoves ==
    ASSUME AccessInv, [Next]_accessVars, NEW c \in Clients, client'[c].op = "refresh"
    PROVE  client'[c] = client[c] \/ RefreshRead(c) \/ RefreshBurn(c)
<1>1. client'[c] = client[c] \/ OAuthStep(c)
  BY Moves
<1>2. ~ End(c)
  BY EndedAs
<1> QED BY <1>1, <1>2, OAuthTurns
        DEF OAuthStep, ConsentWrite, ExchangeConnect, RefreshCommit, DisconnectCommit

LEMMA DisconnectMoves ==
    ASSUME AccessInv, [Next]_accessVars, NEW c \in Clients, client'[c].op = "disconnect"
    PROVE  \/ client'[c] = client[c] \/ DisconnectRead(c) \/ RefreshRead(c) \/ ExchangeReplay(c)
           \/ DisconnectLock(c)
<1>1. client'[c] = client[c] \/ OAuthStep(c)
  BY Moves
<1>2. ~ End(c)
  BY EndedAs
<1> QED BY <1>1, <1>2, OAuthTurns
        DEF OAuthStep, ConsentWrite, ExchangeConnect, RefreshCommit, DisconnectCommit

LEMMA ExchangeMoves ==
    ASSUME AccessInv, [Next]_accessVars, NEW c \in Clients, client'[c].op = "exchange"
    PROVE  \/ client'[c] = client[c] \/ ExchangeRead(c)
           \/ ExchangeBurn(c) /\ client' = [client EXCEPT ![c].pc =
                 IF Unburnt(Head(client[c].ids)) THEN "load person" ELSE "replay"]
           \/ ExchangeLoad(c) /\ client' = [client EXCEPT ![c].pc = "connect",
                 ![c].seen = users[client[c].user].epoch]
<1>1. client'[c] = client[c] \/ OAuthStep(c)
  BY Moves
<1>2. ~ End(c)
  BY EndedAs
<1>3. client'[c] = client[c] \/ ExchangeRead(c) \/ ExchangeBurn(c) \/ ExchangeLoad(c)
  BY <1>1, <1>2, OAuthTurns
     DEF OAuthStep, ConsentWrite, ExchangeConnect, RefreshCommit, DisconnectCommit
<1> QED BY <1>2, <1>3 DEF ExchangeBurn, ExchangeLoad

\* One token of a connection can be rotated; a revoked one keeps none.
TokensSound ==
    /\ \A t, r \in DOMAIN tokens :
         /\ tokens[t].state = "fresh" /\ tokens[r].state = "fresh"
         /\ tokens[t].connection = tokens[r].connection
         => t = r
    /\ \A t \in DOMAIN tokens :
         ~ connections[tokens[t].connection].live => tokens[t].state = "gone"

\* A refresh that has burnt a token still finds it so, for it holds the row.
Rotating ==
    \A c \in Clients : At(c, "refresh", "rotate") => tokens[Head(client[c].ids)].state = "fresh"

\* A revocation that holds the connection's row has all its tokens before it.
Deleting ==
    \A c \in Clients : At(c, "disconnect", "delete tokens") =>
        \A t \in DOMAIN tokens :
            tokens[t].connection = Head(client[c].ids) /\ tokens[t].state # "gone" =>
              t \in client[c].staged

TokensInv == AccessInv /\ TokensSound /\ Rotating /\ Deleting

LEMMA OAuthShape ==
    ASSUME AccessInv
    PROVE  /\ Len(connections) \in Nat /\ DOMAIN connections = 1 .. Len(connections)
           /\ Len(tokens) \in Nat /\ DOMAIN tokens = 1 .. Len(tokens)
           /\ \A t \in DOMAIN tokens : tokens[t].connection \in DOMAIN connections
           /\ \A t \in DOMAIN tokens : tokens[t] \in TokenRecord
BY OAuthRows DEF AccessInv, TablesTyped, OAuthTyped

LEMMA NotOneMore ==
    ASSUME AccessInv, NEW g \in DOMAIN connections
    PROVE  g # Len(connections) + 1
<1>1. Len(connections) \in Nat /\ g \in 1 .. Len(connections)
  BY OAuthShape
<1> QED BY <1>1

LEMMA RotatingStep ==
    ASSUME TokensInv, [Next]_accessVars
    PROVE  Rotating'
<1> SUFFICES ASSUME NEW c \in Clients, client'[c].op = "refresh", client'[c].pc = "rotate"
             PROVE  tokens'[Head(client'[c].ids)].state = "fresh"
  BY DEF Rotating, At
<1>1. AccessInv /\ client = [d \in Clients |-> client[d]] /\ DOMAIN client[c] = DOMAIN Idle
  BY DEF TokensInv, AccessInv, AdminInv, ClientShape
<1>2. CASE client'[c] = client[c]
  <2> DEFINE t == Head(client[c].ids)
  <2>1. /\ t \in DOMAIN tokens /\ TokenRow(t) \in client[c].locks /\ tokens[t].state = "fresh"
    BY <1>1, <1>2, Carries, FirstNamed
       DEF Holds, Subject, Standing, Named, Known, TokensInv, Rotating, At
  <2>2. ASSUME NEW d \in Clients, RefreshCommit(d), Head(client[d].ids) = t PROVE FALSE
    <3>1. TokenRow(t) \in client[d].locks
      BY <1>1, <2>2, RefreshWaited
    <3>2. ~ IsShare(TokenRow(t))
      BY DEF IsShare, TokenRow
    <3>3. c = d
      BY <1>1, <2>1, <3>1, <3>2 DEF AccessInv, Exclusive
    <3>4. client'[d].op = "none"
      BY <1>1, <2>2, EndedAs DEF RefreshCommit
    <3> QED BY <3>3, <3>4
  <2>3. ASSUME NEW d \in Clients, DisconnectCommit(d), t \in client[d].staged PROVE FALSE
    <3>1. c # d
      BY <1>1, <1>2, <2>3, DisconnectWaited DEF At
    <3> QED BY <1>1, <2>1, <2>3, <3>1, DisconnectWaited
  <2>4. tokens'[t].state = "fresh"
    <3> HIDE DEF t
    <3> QED BY <1>1, <2>1, <2>2, <2>3, TokenMoves DEF t
  <2> QED BY <1>2, <2>4
<1>3. CASE RefreshRead(c)
  <2>1. PICK t \in DOMAIN tokens :
          \/ Begin(c, "refresh", Disconnecting(tokens[t].connection))
          \/ Begin(c, "refresh", [Idle EXCEPT !.op = "refresh", !.pc = "burn", !.ids = <<t>>])
    BY <1>3 DEF RefreshRead
  <2>2. [Idle EXCEPT !.op = "refresh", !.pc = "burn", !.ids = <<t>>].pc = "burn"
        /\ Disconnecting(tokens[t].connection).pc = "disconnect"
    BY DEF Idle, Disconnecting
  <2> QED BY <1>1, <2>1, <2>2 DEF Begin
<1>4. CASE RefreshBurn(c)
  <2>1. ~ End(c)
    BY <1>1, EndedAs
  <2>2. client'[c].ids = client[c].ids /\ StillFresh(Head(client[c].ids)) /\ UNCHANGED tokens
    BY <1>1, <1>4, <2>1 DEF RefreshBurn, Idle, accessTables, oauthTables
  <2> QED BY <2>2 DEF StillFresh
<1> QED BY <1>1, <1>2, <1>3, <1>4, RefreshMoves

LEMMA DeletingStep ==
    ASSUME TokensInv, [Next]_accessVars
    PROVE  Deleting'
<1> SUFFICES ASSUME NEW c \in Clients, client'[c].op = "disconnect", client'[c].pc = "delete tokens",
                    NEW t \in DOMAIN tokens', tokens'[t].connection = Head(client'[c].ids),
                    tokens'[t].state # "gone"
             PROVE  t \in client'[c].staged
  BY DEF Deleting, At
<1>1. AccessInv /\ client = [d \in Clients |-> client[d]] /\ DOMAIN client[c] = DOMAIN Idle
  BY DEF TokensInv, AccessInv, AdminInv, ClientShape
<1>2. CASE client'[c] = client[c]
  <2>1. /\ ConnectionRow(Head(client[c].ids)) \in client[c].locks
        /\ Head(client[c].ids) \in DOMAIN connections
    BY <1>1, <1>2, Carries, FirstNamed DEF Holds, Subject, Standing, Named, Known
  <2>2. CASE t \in DOMAIN tokens
    <3>1. tokens[t].connection = Head(client[c].ids)
      BY <1>1, <1>2, <2>2, TokenMoves
    <3>2. tokens[t].state # "gone"
      <4> SUFFICES ASSUME tokens[t].state = "gone" PROVE FALSE
        OBVIOUS
      <4>1. PICK d \in Clients : RefreshCommit(d) /\ Head(client[d].ids) = t
        BY <1>1, <2>2, TokenMoves
      <4> QED BY <1>1, <4>1, RefreshWaited DEF TokensInv, Rotating
    <3> QED BY <1>2, <2>2, <3>1, <3>2 DEF TokensInv, Deleting, At
  <2>3. CASE t \notin DOMAIN tokens
    <3>1. ASSUME NEW d \in Clients, RefreshCommit(d),
                 tokens'[t].connection = tokens[Head(client[d].ids)].connection
          PROVE  FALSE
      <4>1. c # d
        BY <1>1, <1>2, <3>1, RefreshWaited DEF At
      <4> QED BY <1>1, <1>2, <2>1, <3>1, <4>1, RefreshWaited
    <3>2. Head(client[c].ids) # Len(connections) + 1
      BY <1>1, <2>1, NotOneMore, OAuthShape
    <3> QED BY <1>1, <1>2, <2>3, <3>1, <3>2, NewTokens
  <2> QED BY <2>2, <2>3
<1>11. \A g : Disconnecting(g).pc = "disconnect"
  BY DEF Disconnecting, Idle
<1>3. CASE DisconnectRead(c)
  BY <1>1, <1>3, <1>11 DEF DisconnectRead, Begin
<1>4. CASE RefreshRead(c)
  <2>1. PICK r \in DOMAIN tokens :
          \/ Begin(c, "refresh", Disconnecting(tokens[r].connection))
          \/ Begin(c, "refresh", [Idle EXCEPT !.op = "refresh", !.pc = "burn", !.ids = <<r>>])
    BY <1>4 DEF RefreshRead
  <2>2. [Idle EXCEPT !.op = "refresh", !.pc = "burn", !.ids = <<r>>].pc = "burn"
        /\ Disconnecting(tokens[r].connection).pc = "disconnect"
    BY DEF Idle, Disconnecting
  <2> QED BY <1>1, <2>1, <2>2 DEF Begin
<1>5. CASE ExchangeReplay(c)
  <2>1. client'[c] = Idle \/ \E g : client'[c] = Disconnecting(g)
    BY <1>1, <1>5 DEF ExchangeReplay
  <2>2. Idle.op = "none"
    BY DEF Idle
  <2> QED BY <1>11, <2>1, <2>2
<1>6. CASE DisconnectLock(c)
  <2>1. ~ End(c)
    BY <1>1, EndedAs
  <2>2. /\ client' = [client EXCEPT ![c].pc = "delete tokens",
                          ![c].locks = @ \cup {ConnectionRow(Head(client[c].ids))},
                          ![c].staged = TokensOf(Head(client[c].ids))]
        /\ UNCHANGED tokens
    BY <1>6, <2>1 DEF DisconnectLock, accessTables, oauthTables
  <2>3. client'[c].ids = client[c].ids /\ client'[c].staged = TokensOf(Head(client[c].ids))
    BY <1>1, <2>2 DEF Idle
  <2> QED BY <2>2, <2>3 DEF TokensOf
<1> QED BY <1>1, <1>2, <1>3, <1>4, <1>5, <1>6, DisconnectMoves

LEMMA TokensSoundStep ==
    ASSUME TokensInv, [Next]_accessVars
    PROVE  TokensSound'
<1>1. AccessInv /\ TokensSound
  BY DEF TokensInv
\* A token that can be rotated could be so before, or has just been issued.
<1>2. ASSUME NEW t \in DOMAIN tokens, tokens'[t].state = "fresh"
      PROVE  tokens[t].state = "fresh" /\ tokens'[t].connection = tokens[t].connection
  BY <1>1, <1>2, TokenMoves
\* The one it replaces no longer can.
<1>3. ASSUME NEW t \in DOMAIN tokens, NEW r \in DOMAIN tokens', r \notin DOMAIN tokens,
             tokens'[t].state = "fresh", tokens'[t].connection = tokens'[r].connection
      PROVE  FALSE
  <2>1. tokens[t].state = "fresh" /\ tokens[t].connection = tokens'[r].connection
    BY <1>2, <1>3
  <2>2. ASSUME NEW d \in Clients, RefreshCommit(d),
               tokens'[r].connection = tokens[Head(client[d].ids)].connection
        PROVE  FALSE
    <3> DEFINE h == Head(client[d].ids)
    <3>1. h \in DOMAIN tokens /\ tokens[h].state = "fresh"
      BY <1>1, <2>2, RefreshWaited DEF TokensInv, Rotating
    <3>2. h = t
      BY <1>1, <2>1, <2>2, <3>1 DEF TokensSound
    <3>3. tokens'[t].state = "used"
      BY <1>1, <2>2, <3>2, RefreshedUsed
    <3> QED BY <1>3, <3>3
  <2>3. tokens[t].connection # Len(connections) + 1
    BY <1>1, OAuthShape
  <2> QED BY <1>1, <1>3, <2>1, <2>2, <2>3, NewTokens
<1>4. ASSUME NEW t \in DOMAIN tokens', NEW r \in DOMAIN tokens',
             tokens'[t].state = "fresh", tokens'[r].state = "fresh",
             tokens'[t].connection = tokens'[r].connection
      PROVE  t = r
  <2>1. CASE t \in DOMAIN tokens /\ r \in DOMAIN tokens
    BY <1>1, <1>2, <1>4, <2>1 DEF TokensSound
  <2>2. CASE t \notin DOMAIN tokens /\ r \notin DOMAIN tokens
    BY <1>1, <2>2, NewTokens
  <2> QED BY <1>3, <1>4, <2>1, <2>2
<1>5. ASSUME NEW t \in DOMAIN tokens', ~ connections'[tokens'[t].connection].live
      PROVE  tokens'[t].state = "gone"
  <2> DEFINE g == tokens'[t].connection
  <2>1. g \in DOMAIN connections'
    BY <1>1, <1>5, AccessStep, OAuthTypedStep DEF OAuthGrow, OAuthTyped
  <2>2. g \in DOMAIN connections
    BY <1>1, <1>5, <2>1, ConnectionMoves
  <2>3. CASE connections[g].live
    <3>1. PICK d \in Clients : DisconnectCommit(d) /\ Head(client[d].ids) = g
      BY <1>1, <1>5, <2>1, <2>3, ConnectionMoves
    <3>2. t \in DOMAIN tokens
      BY <3>1 DEF DisconnectCommit
    <3>3. tokens[t].connection = g /\ tokens[t] \in TokenRecord
      BY <1>1, <3>2, TokenMoves, OAuthShape
    <3>4. tokens[t].state = "gone" \/ t \in client[d].staged
      BY <1>1, <3>1, <3>2, <3>3, DisconnectWaited DEF TokensInv, Deleting
    <3> QED BY <3>1, <3>2, <3>3, <3>4 DEF DisconnectCommit, TokenRecord
  <2>4. CASE ~ connections[g].live
    <3>1. CASE t \in DOMAIN tokens
      <4>1. tokens[t].connection = g /\ tokens[t].state = "gone"
        BY <1>1, <2>4, <3>1, TokenMoves DEF TokensSound
      <4>2. ASSUME NEW d \in Clients, RefreshCommit(d) PROVE Head(client[d].ids) # t
        BY <1>1, <4>1, <4>2, RefreshWaited DEF TokensInv, Rotating
      <4> QED BY <1>1, <3>1, <4>1, <4>2, TokenMoves
    <3>2. CASE t \notin DOMAIN tokens
      <4>1. ASSUME NEW d \in Clients, RefreshCommit(d)
            PROVE  g # tokens[Head(client[d].ids)].connection
        BY <1>1, <2>4, <4>1, RefreshWaited DEF TokensInv, Rotating, TokensSound
      <4>2. g # Len(connections) + 1
        BY <1>1, <2>2, OAuthShape
      <4> QED BY <1>1, <3>2, <4>1, <4>2, NewTokens
    <3> QED BY <3>1, <3>2
  <2> QED BY <2>3, <2>4
<1> QED BY <1>4, <1>5 DEF TokensSound

\* A request that burnt a code and has yet to make its connection.
Redeeming(c) == client[c].op = "exchange" /\ client[c].pc \in {"load person", "connect"}

\* One request makes a code's connection, and until then the code has none.
Linked ==
    /\ \A g \in DOMAIN connections : g <= Given \/ \E i \in DOMAIN codes : codes[i].connection = g
    /\ \A i \in DOMAIN codes : ~ codes[i].used => codes[i].connection = 0
    /\ \A c \in Clients : Redeeming(c) =>
         /\ codes[Head(client[c].ids)].used
         /\ codes[Head(client[c].ids)].connection = 0
    /\ \A c, d \in Clients : Redeeming(c) /\ Redeeming(d)
                             /\ Head(client[c].ids) = Head(client[d].ids) => c = d

LEMMA RedeemingMoves ==
    ASSUME AccessInv, [Next]_accessVars, NEW c \in Clients, Redeeming(c)'
    PROVE  /\ client'[c].ids = client[c].ids
           /\ Head(client[c].ids) \in DOMAIN codes /\ Head(client[c].ids) \in DOMAIN codes'
           /\ ~ End(c)
           /\ \/ Redeeming(c)
              \/ /\ ExchangeBurn(c) /\ Unburnt(Head(client[c].ids))
                 /\ codes'[Head(client[c].ids)].used
                 /\ \A d \in Clients \ {c} : client'[d] = client[d]
<1> DEFINE i == Head(client[c].ids)
<1>1. /\ client'[c].op = "exchange" /\ client'[c].pc \in {"load person", "connect"}
      /\ client = [d \in Clients |-> client[d]] /\ DOMAIN client[c] = DOMAIN Idle
  BY DEF Redeeming, AccessInv, AdminInv, ClientShape
<1>2. ~ End(c)
  BY <1>1, EndedAs
<1>3. ASSUME client[c].op = "exchange" PROVE i \in DOMAIN codes /\ i \in DOMAIN codes'
  <2>1. i \in DOMAIN codes
    BY <1>3, Carries, FirstNamed DEF Holds, Subject, Named, Known
  <2> QED BY <2>1, OAuthTypedStep DEF OAuthGrow
<1>4. CASE client'[c] = client[c]
  BY <1>1, <1>2, <1>3, <1>4 DEF Redeeming
<1>5. CASE ExchangeRead(c)
  <2>1. PICK j \in DOMAIN codes, valid \in {"valid", "wrong verifier"} :
          Begin(c, "exchange", [Idle EXCEPT !.op = "exchange", !.pc = "burn code", !.ids = <<j>>,
                                            !.user = codes[j].user, !.change = valid])
    BY <1>5 DEF ExchangeRead
  <2> DEFINE r == [Idle EXCEPT !.op = "exchange", !.pc = "burn code", !.ids = <<j>>,
                               !.user = codes[j].user, !.change = valid]
  <2>2. r.pc = "burn code"
    BY DEF Idle
  <2>3. client'[c] = r
    <3> HIDE DEF r
    <3>1. Begin(c, "exchange", r)
      BY <2>1 DEF r
    <3> QED BY <3>1, BegunAs
  <2> QED BY <1>1, <2>2, <2>3
<1>6. CASE ExchangeBurn(c) /\ client' = [client EXCEPT ![c].pc =
                 IF Unburnt(Head(client[c].ids)) THEN "load person" ELSE "replay"]
  <2>1. client'[c].ids = client[c].ids /\ client[c].op = "exchange" /\ Unburnt(i)
        /\ \A d \in Clients \ {c} : client'[d] = client[d]
    BY <1>1, <1>6 DEF Idle, ExchangeBurn, At
  <2>2. codes' = [codes EXCEPT ![i].used = TRUE] /\ codes[i] \in CodeRecord
    BY <1>3, <1>6, <2>1, OAuthRows DEF ExchangeBurn, AccessInv, TablesTyped
  <2>3. codes'[i].used
    BY <1>3, <2>1, <2>2 DEF CodeRecord
  <2> QED BY <1>2, <1>3, <1>6, <2>1, <2>3
<1>7. CASE ExchangeLoad(c) /\ client' = [client EXCEPT ![c].pc = "connect",
                 ![c].seen = users[client[c].user].epoch]
  <2>1. client'[c].ids = client[c].ids /\ Redeeming(c)
    BY <1>1, <1>7 DEF Idle, ExchangeLoad, At, Redeeming
  <2> QED BY <1>2, <1>3, <2>1 DEF Redeeming
<1> QED BY <1>1, <1>4, <1>5, <1>6, <1>7, ExchangeMoves

LEMMA NewConnection ==
    ASSUME AccessInv, [Next]_accessVars, NEW g \in DOMAIN connections', g \notin DOMAIN connections
    PROVE  \E d \in Clients : ExchangeConnect(d) /\ g = Len(connections') /\ g = Len(connections) + 1
<1>1. connections \in Seq(ConnectionRecord)
  BY DEF AccessInv, TablesTyped, OAuthTyped
<1>2. ASSUME NEW d \in Clients, ExchangeConnect(d)
      PROVE  g = Len(connections') /\ g = Len(connections) + 1
  <2> DEFINE r == [user |-> client[d].user, epoch |-> client[d].seen, live |-> TRUE]
  <2>1. r \in ConnectionRecord /\ connections' = Append(connections, r)
    BY <1>2, Carries DEF Holds, Subject, OfPerson, ExchangeConnect, At, ConnectionRecord
  <2> HIDE DEF r
  <2> QED BY <1>1, <2>1, OneMore
<1>3. ASSUME NEW d \in Clients, DisconnectCommit(d)
      PROVE  FALSE
  BY <1>3 DEF DisconnectCommit
<1>4. ASSUME NEW d \in Clients, ConsentWrite(d) \/ ExchangeBurn(d) \/ RefreshCommit(d)
      PROVE  connections' = connections
  BY <1>4 DEF ConsentWrite, ExchangeBurn, RefreshCommit
<1>5. TokenAges \/ UNCHANGED oauthTables => connections' = connections
  BY DEF TokenAges, oauthTables
<1> QED BY <1>2, <1>3, <1>4, <1>5, Writes

LEMMA LinkedStep ==
    ASSUME AccessInv, Linked, [Next]_accessVars
    PROVE  Linked'
<1>1. ASSUME NEW d \in Clients, ExchangeConnect(d)
      PROVE  Redeeming(d) /\ End(d)
  BY <1>1 DEF ExchangeConnect, At, Redeeming
<1>2. ASSUME NEW c \in Clients, Redeeming(c)'
      PROVE  /\ codes'[Head(client[c].ids)].used
             /\ codes'[Head(client[c].ids)].connection = 0
  <2> DEFINE i == Head(client[c].ids)
  <2>1. i \in DOMAIN codes /\ i \in DOMAIN codes' /\ ~ End(c)
    BY <1>2, RedeemingMoves
  <2>2. CASE Redeeming(c)
    <3>1. codes[i].used /\ codes[i].connection = 0
      BY <2>2 DEF Linked
    <3>2. codes'[i].used
      BY <2>1, <3>1, CodeMoves
    <3>3. \A d \in Clients : ~ (ExchangeConnect(d) /\ Head(client[d].ids) = i)
      BY <1>1, <2>1, <2>2 DEF Linked
    <3>4. codes'[i].connection = 0
      <4> HIDE DEF i
      <4> QED BY <2>1, <3>1, <3>3, CodeMoves
    <3> QED BY <3>2, <3>4
  <2>3. CASE ExchangeBurn(c) /\ Unburnt(i) /\ codes'[i].used
    <3>1. codes[i].connection = 0
      BY <2>1, <2>3 DEF Linked, Unburnt
    <3>2. \A d \in Clients : ~ (ExchangeConnect(d) /\ Head(client[d].ids) = i)
      BY <1>1, <2>1, <2>3 DEF Linked, Unburnt
    <3>3. codes'[i].connection = 0
      <4> HIDE DEF i
      <4> QED BY <2>1, <3>1, <3>2, CodeMoves
    <3> QED BY <2>3, <3>3
  <2> QED BY <1>2, <2>2, <2>3, RedeemingMoves
<1>3. ASSUME NEW i \in DOMAIN codes', ~ codes'[i].used
      PROVE  codes'[i].connection = 0
  <2>1. CASE i \in DOMAIN codes
    <3>1. ~ codes[i].used
      BY <1>3, <2>1, CodeMoves
    <3>2. codes[i].connection = 0
      BY <2>1, <3>1 DEF Linked
    <3>3. \A d \in Clients : ~ (ExchangeConnect(d) /\ Head(client[d].ids) = i)
      BY <1>1, <3>1 DEF Linked
    <3> QED BY <2>1, <3>2, <3>3, CodeMoves
  <2>2. CASE i \notin DOMAIN codes
    BY <2>2, CodeMoves
  <2> QED BY <2>1, <2>2
<1>4. ASSUME NEW c \in Clients, NEW d \in Clients, Redeeming(c)', Redeeming(d)',
             Head(client'[c].ids) = Head(client'[d].ids)
      PROVE  c = d
  <2>1. Head(client[c].ids) = Head(client[d].ids)
    BY <1>4, RedeemingMoves
  <2>2. CASE Redeeming(c) /\ Redeeming(d)
    BY <2>1, <2>2 DEF Linked
  <2>3. CASE Redeeming(c) /\ ~ Redeeming(d)
    BY <1>4, <2>1, <2>3, RedeemingMoves DEF Linked, Unburnt
  <2>4. CASE Redeeming(d) /\ ~ Redeeming(c)
    BY <1>4, <2>1, <2>4, RedeemingMoves DEF Linked, Unburnt
  <2>5. CASE ~ Redeeming(c) /\ ~ Redeeming(d)
    <3>1. \A e \in Clients \ {c} : client'[e] = client[e]
      BY <1>4, <2>5, RedeemingMoves
    <3> QED BY <1>4, <2>5, <3>1 DEF Redeeming
  <2> QED BY <2>2, <2>3, <2>4, <2>5
<1>5. ASSUME NEW g \in DOMAIN connections'
      PROVE  g <= Given \/ \E i \in DOMAIN codes' : codes'[i].connection = g
  <2>1. CASE g \in DOMAIN connections
    <3>1. CASE g <= Given
      BY <3>1
    <3>2. CASE \E i \in DOMAIN codes : codes[i].connection = g
      <4>1. PICK i \in DOMAIN codes : codes[i].connection = g
        BY <3>2
      <4>2. g # 0
        BY <2>1, OAuthShape
      <4>3. i \in DOMAIN codes'
        BY <4>1, OAuthTypedStep DEF OAuthGrow
      <4>4. codes'[i].connection = g
        BY <4>1, <4>2, <4>3, CodeMoves
      <4> QED BY <4>3, <4>4
    <3> QED BY <2>1, <3>1, <3>2 DEF Linked
  <2>2. CASE g \notin DOMAIN connections
    <3>1. PICK d \in Clients : ExchangeConnect(d) /\ g = Len(connections')
      BY <2>2, NewConnection
    <3> DEFINE h == Head(client[d].ids)
    <3>2. h \in DOMAIN codes /\ codes[h] \in CodeRecord
      BY <3>1, Carries, FirstNamed, OAuthRows
         DEF Holds, Subject, Named, Known, ExchangeConnect, At, AccessInv, TablesTyped
    <3>3. codes[h].connection = 0
      BY <1>1, <3>1 DEF Linked
    <3>4. codes' = [codes EXCEPT ![h].connection = IF @ = 0 THEN Len(connections') ELSE @]
      BY <3>1 DEF ExchangeConnect
    <3>5. h \in DOMAIN codes' /\ codes'[h].connection = g
      <4> HIDE DEF h
      <4> QED BY <3>1, <3>2, <3>3, <3>4 DEF CodeRecord
    <3> QED BY <3>5
  <2> QED BY <2>1, <2>2
<1>6. ASSUME NEW c \in Clients, Redeeming(c)'
      PROVE  client'[c].ids = client[c].ids
  BY <1>6, RedeemingMoves
<1> QED BY <1>2, <1>3, <1>4, <1>5, <1>6 DEF Linked

LEMMA TokensInit == Init => TokensInv /\ Linked
<1> SUFFICES ASSUME Init PROVE TokensInv /\ Linked
  OBVIOUS
<1>1. AccessInv
  BY AccessInit
<1>2. \A c \in Clients : client[c].op = "none"
  BY DEF Init, Idle
<1>3. PICK s \in Starts : connections = s.connections /\ tokens = s.tokens /\ codes = <<>>
  BY DEF Init
<1>4. DOMAIN codes = {}
  BY <1>3, EmptySeq, LenProperties
<1>5. \A t \in DOMAIN tokens : tokens[t] \in TokenRecord
  BY <1>1, OAuthShape
<1>6. /\ Len(connections) = Given
      /\ \A t \in DOMAIN tokens :
           /\ ~ connections[tokens[t].connection].live => tokens[t].state = "gone"
           /\ \A r \in DOMAIN tokens \ {t} : tokens[r] = tokens[t] => tokens[t].state # "fresh"
  BY <1>3, StartsAssumption
<1>7. ASSUME NEW t \in DOMAIN tokens, NEW r \in DOMAIN tokens,
             tokens[t].state = "fresh", tokens[r].state = "fresh",
             tokens[t].connection = tokens[r].connection
      PROVE  t = r
  <2>1. tokens[t] = tokens[r]
    BY <1>5, <1>7 DEF TokenRecord
  <2> QED BY <1>6, <1>7, <2>1
<1>8. ASSUME NEW g \in DOMAIN connections PROVE g <= Given
  <2>1. g \in 1 .. Given
    BY <1>1, <1>6, OAuthShape
  <2> QED BY <2>1
<1> QED BY <1>1, <1>2, <1>4, <1>6, <1>7, <1>8
        DEF TokensInv, TokensSound, Rotating, Deleting, Linked, Redeeming, At

\* However often clients present the same refresh token at once, a connection
\* holds one that can still be rotated, because the burn keeps the token's row;
\* revoked, it keeps none, because a rotation ends by stamping the row that the
\* revocation holds; and the code it came from knows it, because one request
\* burns a code and the link is made with the connection (ADR-0097, decision 8).
THEOREM ConnectionsAreSound == Spec => []ConnectionsSound
<1>1. TokensInv /\ Linked /\ [Next]_accessVars => (TokensInv /\ Linked)'
  <2>1. TokensInv /\ [Next]_accessVars => TokensInv'
    BY AccessStep, TokensSoundStep, RotatingStep, DeletingStep DEF TokensInv
  <2> QED BY <2>1, LinkedStep DEF TokensInv
<1>2. TokensInv /\ Linked => ConnectionsSound
  <2> SUFFICES ASSUME TokensInv, Linked, NEW g \in DOMAIN connections
               PROVE  /\ Cardinality(FreshTokens(g)) <= 1
                      /\ ~ connections[g].live =>
                           \A t \in DOMAIN tokens : tokens[t].connection = g =>
                             tokens[t].state = "gone"
                      /\ g <= Given \/ \E i \in DOMAIN codes : codes[i].connection = g
    BY DEF ConnectionsSound
  <2>1. Cardinality(FreshTokens(g)) <= 1
    <3>1. CASE FreshTokens(g) = {}
      BY <3>1, FS_EmptySet
    <3>2. ASSUME NEW t \in FreshTokens(g) PROVE FreshTokens(g) = {t}
      BY <3>2 DEF FreshTokens, NewToken, TokensInv, TokensSound
    <3>3. ASSUME NEW t \in FreshTokens(g) PROVE Cardinality(FreshTokens(g)) <= 1
      BY <3>2, <3>3, FS_Singleton
    <3> QED BY <3>1, <3>3
  <2> QED BY <2>1 DEF TokensInv, TokensSound, Linked
<1> QED BY <1>1, <1>2, TokensInit, PTL DEF Spec
=============================================================================
