---------------------------- MODULE AccessGrants ----------------------------
(***************************************************************************)
(* AccessGrantsService and the expiry sweeper.  A grant commits together     *)
(* with the PENDING run that provisions it, a revoke with the run that takes *)
(* the access away from the application (the transactional outbox).  A row   *)
(* says who revoked it and how: by a revoke whose workflow lookup            *)
(* answered ("revoke") or failed ("unplanned"), or by an offboarding.        *)
(***************************************************************************)
EXTENDS AccessState

grantOthers == <<users, requests, assignments, vaults, members, oauthTables>>

NewGrant(u, a, plans) ==
    [state |-> "active", user |-> u, of |-> a, by |-> NoOne, how |-> "none", expiry |-> "never",
     runs |-> IF a \in plans THEN {"granted"} ELSE {}]

ActiveGrants(u, a) ==
    {g \in DOMAIN grants : grants[g].state = "active" /\ grants[g].user = u /\ grants[g].of = a}

\* planTrigger, before the transaction: the applications of S whose workflow it
\* finds.  A lookup that fails is swallowed and finds none.
LookUp(S, plans) ==
    LET enabled == {a \in S : Policy[a] # "none"} IN
    \/ plans = enabled /\ UNCHANGED faults
    \/ plans = {} /\ enabled # {} /\ faults < MaxFaults /\ faults' = faults + 1
-----------------------------------------------------------------------------
\* create: the person and the application are checked before the transaction.
GrantCheck(c) ==
    \E u \in Users, a \in Apps : \E plans \in SUBSET {a} :
        /\ Usable(u) /\ LookUp({a}, plans)
        /\ Begin(c, "grant", [Idle EXCEPT !.op = "grant", !.pc = "insert", !.user = u,
                                          !.of = a, !.plans = plans])
        /\ UNCHANGED accessTables

GrantWrite(c) ==
    /\ At(c, "grant", "insert") /\ ~ Waits(c)
    /\ grants' = Append(grants, NewGrant(client[c].user, client[c].of, client[c].plans))
    /\ End(c)
    /\ UNCHANGED <<grantOthers, bounds>>

\* updateExpiry writes the row by id, revoked or not; the sweep sees a past
\* date, at once or when its time comes.
UpdateExpiry(c) ==
    \E g \in DOMAIN grants, expiry \in {"never", "later", "due"} :
        /\ Allowed(c, "expiry") /\ Free(c, GrantRow(g))
        /\ ops' = ops + 1
        /\ grants' = [grants EXCEPT ![g].expiry = expiry]
        /\ UNCHANGED <<grantOthers, client, mix, faults>>

TimePasses ==
    \E g \in DOMAIN grants :
        /\ grants[g].expiry = "later"
        /\ grants' = [grants EXCEPT ![g].expiry = "due"]
        /\ UNCHANGED <<grantOthers, client, bounds>>
-----------------------------------------------------------------------------
(***************************************************************************)
(* One transaction revokes the grants of ids, one after the other: a single *)
(* revoke has one, a batch takes the order of its request.                   *)
(***************************************************************************)
Revoking(ids, plans) ==
    [Idle EXCEPT !.op = "revoke", !.pc = "revoke", !.ids = ids, !.plans = plans]

\* revoke, batchRevoke: what is read as active, and the workflows to fire.
RevokeRead(c) ==
    \E S \in SUBSET {g \in DOMAIN grants : grants[g].state = "active"}, plans \in SUBSET Apps :
        /\ Cardinality(S) \in 1 .. 2
        /\ LookUp({grants[g].of : g \in S}, plans)
        /\ \E ids \in Orders(S) : Begin(c, "revoke", Revoking(ids, plans))
        /\ UNCHANGED accessTables

\* The sweeper revokes each due grant it found through revoke(), which looks at
\* revokedAt again and at expiresAt no more.
Sweep ==
    \E g \in DOMAIN grants, plans \in SUBSET Apps :
        /\ client[Sweeper].pc = "idle"
        /\ grants[g].state = "active" /\ grants[g].expiry = "due"
        /\ LookUp({grants[g].of}, plans)
        /\ client' = [client EXCEPT ![Sweeper] = Revoking(<<g>>, plans)]
        /\ UNCHANGED <<accessTables, mix, ops>>

\* revokeIfActiveInTx: a row another revoke has committed meanwhile is skipped.
\* Mutant: the update matches the id alone.
ById(g) == TRUE

StillActive(g) == grants[g].state = "active"

\* recordRevokeRun: EACH_GRANT fires at once, LAST_ACTIVE_GRANT counts first.
RevokeCas(c) ==
    LET g == Head(client[c].ids)
        of == grants[g].of
        counts == StillActive(g) /\ of \in client[c].plans /\ Policy[of] = "LAST_ACTIVE_GRANT"
        fires == StillActive(g) /\ of \in client[c].plans /\ Policy[of] = "EACH_GRANT"
    IN  /\ At(c, "revoke", "revoke") /\ client[c].ids # <<>> /\ ~ Waits(c)
        /\ client' = [client EXCEPT
             ![c].staged = IF StillActive(g) THEN @ \cup {g} ELSE @,
             ![c].locks = IF StillActive(g) THEN @ \cup {GrantRow(g)} ELSE @,
             ![c].fired = IF fires THEN @ \cup {g} ELSE @,
             ![c].pc = IF counts THEN "count" ELSE @,
             ![c].ids = IF counts THEN @ ELSE Tail(@)]
        /\ UNCHANGED <<accessTables, bounds>>

\* isLastActiveGrant: the advisory lock of the pair until the transaction ends,
\* then the count, which sees this transaction's own revokes only.
\* Mutant: the count takes no lock.
NoPairLock(c) == client[c].locks

WithPairLock(c) == client[c].locks \cup Wants(c)

RevokeCount(c) ==
    LET g == Head(client[c].ids)
        others == ActiveGrants(grants[g].user, grants[g].of) \ client[c].staged
    IN  /\ At(c, "revoke", "count") /\ ~ Waits(c)
        /\ client' = [client EXCEPT
             ![c].locks = WithPairLock(c),
             ![c].fired = IF others = {} THEN @ \cup {g} ELSE @,
             ![c].pc = "revoke",
             ![c].ids = Tail(@)]
        /\ UNCHANGED <<accessTables, bounds>>

\* The actor's column of the row.
\* Mutant: the kind of request is written there.
KindOfRequest(c) == client[c].op

Actor(c) == c

RevokeCommit(c) ==
    LET how(g) == IF grants[g].of \in client[c].plans THEN "revoke" ELSE "unplanned" IN
    /\ At(c, "revoke", "revoke") /\ client[c].ids = <<>>
    /\ grants' = [g \in DOMAIN grants |->
         IF g \in client[c].staged
         THEN [grants[g] EXCEPT !.state = "revoked", !.by = Actor(c), !.how = how(g),
                                !.runs = IF g \in client[c].fired THEN @ \cup {"revoked"} ELSE @]
         ELSE grants[g]]
    /\ End(c)
    /\ UNCHANGED <<grantOthers, bounds>>

GrantStep(c) ==
    \/ GrantCheck(c) \/ GrantWrite(c) \/ UpdateExpiry(c)
    \/ RevokeRead(c) \/ RevokeCas(c) \/ RevokeCount(c) \/ RevokeCommit(c)
=============================================================================
