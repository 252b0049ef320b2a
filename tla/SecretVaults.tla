---------------------------- MODULE SecretVaults ----------------------------
(***************************************************************************)
(* The membership half of SecretManagerService: who holds a wrapped key of  *)
(* which vault.  Items and key material are left out.                        *)
(***************************************************************************)
EXTENDS AccessState

vaultOthers == <<users, grants, requests, assignments, oauthTables>>

\* createVault: the caller, live when the guard let the request in, becomes the
\* first member; the insert waits for an offboarding but does not look back.
CreateVaultCheck(c) ==
    \E v \in Vaults, u \in Users :
        /\ vaults[v].state = "none" /\ Usable(u)
        /\ Begin(c, "create vault",
             [Idle EXCEPT !.op = "create vault", !.pc = "insert", !.user = u, !.of = v])
        /\ UNCHANGED <<accessTables, faults>>

CreateVaultWrite(c) ==
    LET v == client[c].of IN
    /\ At(c, "create vault", "insert") /\ ~ Waits(c)
    /\ IF vaults[v].state = "none"
       THEN /\ vaults' = [vaults EXCEPT ![v] = [state |-> "live", creator |-> client[c].user]]
            /\ members' = members \cup {<<v, client[c].user>>}
       ELSE UNCHANGED <<vaults, members>>
    /\ End(c)
    /\ UNCHANGED <<vaultOthers, bounds>>

\* grantMembership: the granter is a member of a live vault.
AddMemberCheck(c) ==
    \E v \in Vaults, granter \in Users, u \in Users :
        /\ vaults[v].state = "live" /\ <<v, granter>> \in members /\ <<v, u>> \notin members
        /\ Begin(c, "add member", [Idle EXCEPT !.op = "add member", !.pc = "share vault",
                                               !.user = u, !.of = v, !.change = granter])
        /\ UNCHANGED <<accessTables, faults>>

\* The vault FOR SHARE, then both checks again.
\* Mutant: the vault's row is read without a lock.
NoVaultLock(c) == {}

VaultLock(c) == {VaultShare(client[c].of)}

AddMemberShareVault(c) ==
    LET v == client[c].of IN
    /\ At(c, "add member", "share vault")
    /\ IF vaults[v].state = "live" /\ <<v, client[c].change>> \in members
       THEN client' = [client EXCEPT ![c].pc = "insert", ![c].locks = VaultLock(c)]
       ELSE End(c)
    /\ UNCHANGED <<accessTables, bounds>>

\* assertGrantableUserTx: the person FOR SHARE, live and active; and the insert.
AddMemberWrite(c) ==
    LET m == <<client[c].of, client[c].user>> IN
    /\ At(c, "add member", "insert") /\ ~ Waits(c)
    /\ members' = IF Usable(client[c].user) THEN members \cup {m} ELSE members
    /\ End(c)
    /\ UNCHANGED <<vaultOthers, vaults, bounds>>

RevokeMember(c) ==
    \E m \in members :
        /\ Allowed(c, "remove member") /\ vaults[m[1]].state = "live"
        /\ ops' = ops + 1
        /\ members' = members \ {m}
        /\ UNCHANGED <<vaultOthers, vaults, client, mix, faults>>

\* deleteVault: FOR UPDATE waits out those who share the vault's row.
DeleteVaultCheck(c) ==
    \E v \in Vaults :
        /\ vaults[v].state = "live"
        /\ Begin(c, "delete vault",
             [Idle EXCEPT !.op = "delete vault", !.pc = "delete vault", !.of = v])
        /\ UNCHANGED <<accessTables, faults>>

DeleteVault(c) ==
    LET v == client[c].of IN
    /\ At(c, "delete vault", "delete vault") /\ ~ Waits(c)
    /\ IF vaults[v].state = "live"
       THEN /\ vaults' = [vaults EXCEPT ![v].state = "deleted"]
            /\ members' = {m \in members : m[1] # v}
       ELSE UNCHANGED <<vaults, members>>
    /\ End(c)
    /\ UNCHANGED <<vaultOthers, bounds>>

VaultStep(c) ==
    \/ CreateVaultCheck(c) \/ CreateVaultWrite(c)
    \/ AddMemberCheck(c) \/ AddMemberShareVault(c) \/ AddMemberWrite(c)
    \/ RevokeMember(c) \/ DeleteVaultCheck(c) \/ DeleteVault(c)
=============================================================================
