------------------------------ MODULE MCAccess ------------------------------
(***************************************************************************)
(* A small organisation for TLC: two people, two applications, one asset,    *)
(* two vaults, three request handlers and the sweeper.                          *)
(***************************************************************************)
EXTENDS AccessGovernance, TLC

CONSTANTS ann, bob, app, door, laptop, vault, safe, c1, c2, c3, sweeper

Row(role, password) == [role |-> role, active |-> TRUE, live |-> TRUE,
                        password |-> password,
                        epoch |-> IF password = "own" THEN 0 ELSE 1]
Held(u, a, expiry) == [state |-> "active", user |-> u, of |-> a, by |-> NoOne, how |-> "none",
                       expiry |-> expiry, runs |-> {"granted"}]
Out(u) == [active |-> TRUE, user |-> u, asset |-> laptop, releases |-> 0, acked |-> FALSE]

\* Ann administers; bob's role, password, grants and assignments vary.
Start(role, password, held, out, kinds) ==
    [users |-> (ann :> Row("ADMIN", "own") @@ bob :> Row(role, password)),
     grants |-> held, assignments |-> out,
     vaults |-> (vault :> [state |-> "live", creator |-> ann]
                 @@ safe :> [state |-> "none", creator |-> NoOne]),
     members |-> {<<vault, ann>>, <<vault, bob>>},
     connections |-> <<[user |-> bob, epoch |-> 0, live |-> TRUE]>>,
     tokens |-> <<[connection |-> 1, state |-> "fresh"]>>,
     mix |-> kinds]

TwoOfApp == <<Held(bob, app, "later"), Held(bob, app, "never")>>
OneOfEach == <<Held(bob, app, "never"), Held(bob, door, "never")>>

OffboardAndGrant ==
    {Start("MEMBER", "own", <<Held(bob, app, "never")>>, <<>>, {"offboard", "grant"})}

Organisation ==
    {Start("ADMIN", password, <<>>, <<>>, {"promote", "demote", "deactivate", "offboard", "reset"}) :
        password \in {"own", "none"}}
    \cup OffboardAndGrant
    \cup {Start("MEMBER", "MEMBER", <<>>, <<>>, {"promote", "demote", "reset"}),
          Start("MEMBER", "own", TwoOfApp, <<>>, {"grant", "revoke"}),
          Start("MEMBER", "own", TwoOfApp, <<>>, {"revoke", "expiry"}),
          Start("MEMBER", "own", OneOfEach, <<>>, {"revoke"}),
          Start("MEMBER", "own", <<>>, <<>>, {"request", "approve", "deny"}),
          Start("MEMBER", "own", TwoOfApp, <<>>, {"offboard", "revoke"}),
          Start("MEMBER", "own", <<>>, <<Out(bob)>>, {"offboard", "assign", "release"}),
          Start("MEMBER", "own", <<>>, <<Out(bob)>>, {"assign", "release", "acknowledge"}),
          Start("MEMBER", "own", <<>>, <<>>, {"offboard", "restore", "add member"}),
          Start("MEMBER", "own", <<>>, <<>>, {"add member", "remove member", "delete vault"}),
          Start("MEMBER", "own", <<>>, <<>>, {"offboard", "create vault", "delete vault"}),
          Start("MEMBER", "own", <<>>, <<>>, {"consent", "exchange", "sign out"}),
          Start("MEMBER", "own", <<>>, <<>>, {"refresh", "disconnect", "deactivate"}),
          Start("MEMBER", "own", <<>>, <<>>, {"refresh", "offboard", "restore", "reactivate"})}

Workflows == (app :> "LAST_ACTIVE_GRANT" @@ door :> "EACH_GRANT")

Symm == Permutations({c1, c2, c3})
=============================================================================
