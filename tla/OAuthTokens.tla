---------------------------- MODULE OAuthTokens ----------------------------
(***************************************************************************)
(* The authorization server for AI clients: a person consents, the client   *)
(* redeems the code for a connection (OAuthGrant) with its tokens, and       *)
(* rotates the refresh token.  A connection carries the person's credential *)
(* epoch.  One entry of tokens stands for the access and the refresh token   *)
(* issued together; scopes, PKCE and expiry dates are left out, a request    *)
(* with a wrong verifier is one that is not valid.                           *)
(***************************************************************************)
EXTENDS AccessState

oauthOthers == <<users, grants, requests, assignments, vaults, members>>

\* isUsable: not owing a forced password change either.
Eligible(u) == Usable(u) /\ users[u].password = "own"

\* decision: the code is inserted with the epoch its request read.
ConsentCheck(c) ==
    \E u \in Users :
        /\ Eligible(u)
        /\ Begin(c, "consent", [Idle EXCEPT !.op = "consent", !.pc = "issue code", !.user = u,
                                            !.seen = users[u].epoch])
        /\ UNCHANGED <<accessTables, faults>>

ConsentWrite(c) ==
    /\ At(c, "consent", "issue code")
    /\ codes' = Append(codes, [user |-> client[c].user, epoch |-> client[c].seen,
                               used |-> FALSE, connection |-> 0])
    /\ End(c)
    /\ UNCHANGED <<oauthOthers, connections, tokens, bounds>>
-----------------------------------------------------------------------------
\* exchangeAuthorizationCode: reads the code, then burns it, before any check.
ExchangeRead(c) ==
    \E i \in DOMAIN codes, valid \in {"valid", "wrong verifier"} :
        /\ Begin(c, "exchange", [Idle EXCEPT !.op = "exchange", !.pc = "burn code", !.ids = <<i>>,
                                             !.user = codes[i].user, !.change = valid])
        /\ UNCHANGED <<accessTables, faults>>

Unburnt(i) == ~ codes[i].used

ExchangeBurn(c) ==
    LET i == Head(client[c].ids) IN
    /\ At(c, "exchange", "burn code")
    /\ codes' = [codes EXCEPT ![i].used = TRUE]
    /\ IF Unburnt(i) /\ client[c].change # "valid"
       THEN End(c)
       ELSE client' = [client EXCEPT ![c].pc = IF Unburnt(i) THEN "load person" ELSE "replay"]
    /\ UNCHANGED <<oauthOthers, connections, tokens, bounds>>

ExchangeLoad(c) ==
    LET u == client[c].user IN
    /\ At(c, "exchange", "load person")
    /\ IF Eligible(u) /\ codes[Head(client[c].ids)].epoch = users[u].epoch
       THEN client' = [client EXCEPT ![c].pc = "connect", ![c].seen = users[u].epoch]
       ELSE End(c)
    /\ UNCHANGED <<accessTables, bounds>>

NewToken(connection) == [connection |-> connection, state |-> "fresh"]

\* One transaction: the connection, the code's link to it, the tokens.
ExchangeConnect(c) ==
    LET i == Head(client[c].ids) IN
    /\ At(c, "exchange", "connect") /\ ~ Waits(c)
    /\ connections' = Append(connections, [user |-> client[c].user, epoch |-> client[c].seen,
                                           live |-> TRUE])
    /\ codes' = [codes EXCEPT ![i].connection = IF @ = 0 THEN Len(connections') ELSE @]
    /\ tokens' = Append(tokens, NewToken(Len(connections')))
    /\ End(c)
    /\ UNCHANGED <<oauthOthers, bounds>>

Disconnecting(g) == [Idle EXCEPT !.op = "disconnect", !.pc = "disconnect", !.ids = <<g>>]

\* revokeOnCodeReplay: a code that was redeemed takes its connection with it,
\* if the link is there to be read and the request would have been valid.
ExchangeReplay(c) ==
    LET i == Head(client[c].ids) IN
    /\ At(c, "exchange", "replay")
    /\ client' = [client EXCEPT ![c] =
         IF codes[i].connection # 0 /\ client[c].change = "valid"
         THEN Disconnecting(codes[i].connection) ELSE Idle]
    /\ UNCHANGED <<accessTables, bounds>>
-----------------------------------------------------------------------------
\* refresh: the token, its connection and the person are read; a token rotated
\* long ago means a second holder, and revokes the connection.
RefreshRead(c) ==
    \E t \in DOMAIN tokens :
        LET g == tokens[t].connection
            u == connections[g].user
        IN  /\ connections[g].live
            /\ \/ tokens[t].state = "old" /\ Begin(c, "refresh", Disconnecting(g))
               \/ /\ tokens[t].state = "fresh"
                  /\ Eligible(u) /\ users[u].epoch = connections[g].epoch
                  /\ Begin(c, "refresh", [Idle EXCEPT !.op = "refresh", !.pc = "burn", !.ids = <<t>>])
            /\ UNCHANGED <<accessTables, faults>>

\* One presentation wins the burn.
\* Mutant: the update matches the id alone.
RotateAny(t) == tokens[t].state # "gone"

StillFresh(t) == tokens[t].state = "fresh"

RefreshBurn(c) ==
    LET t == Head(client[c].ids) IN
    /\ At(c, "refresh", "burn") /\ ~ Waits(c)
    /\ IF StillFresh(t)
       THEN client' = [client EXCEPT ![c].pc = "rotate", ![c].locks = @ \cup {TokenRow(t)}]
       ELSE End(c)
    /\ UNCHANGED <<accessTables, bounds>>

\* The new tokens are inserted, then the connection's row is stamped, which
\* waits for whoever revokes it.
Stamped(c) == ~ Waits(c)

RefreshCommit(c) ==
    LET t == Head(client[c].ids) IN
    /\ At(c, "refresh", "rotate") /\ Stamped(c)
    /\ tokens' = Append([tokens EXCEPT ![t].state = "used"], NewToken(tokens[t].connection))
    /\ End(c)
    /\ UNCHANGED <<oauthOthers, codes, connections, bounds>>

\* The grace window of a rotated token passes.
TokenAges ==
    \E t \in DOMAIN tokens :
        /\ tokens[t].state = "used"
        /\ tokens' = [tokens EXCEPT ![t].state = "old"]
        /\ UNCHANGED <<oauthOthers, codes, connections, client, bounds>>
-----------------------------------------------------------------------------
\* GrantsService.revoke and revokeByToken: a live connection, then revokeGrant.
DisconnectRead(c) ==
    \E g \in DOMAIN connections :
        /\ connections[g].live
        /\ Begin(c, "disconnect", Disconnecting(g))
        /\ UNCHANGED <<accessTables, faults>>

TokensOf(g) == {t \in DOMAIN tokens : tokens[t].connection = g /\ tokens[t].state # "gone"}

\* revokeGrant: the guarded update holds the connection's row, and the delete
\* goes through the token rows its snapshot shows, waiting for each.
DisconnectLock(c) ==
    LET g == Head(client[c].ids) IN
    /\ At(c, "disconnect", "disconnect") /\ ~ Waits(c)
    /\ IF connections[g].live
       THEN client' = [client EXCEPT
              ![c].pc = "delete tokens",
              ![c].locks = @ \cup {ConnectionRow(g)},
              ![c].staged = TokensOf(g)]
       ELSE End(c)
    /\ UNCHANGED <<accessTables, bounds>>

DisconnectCommit(c) ==
    /\ At(c, "disconnect", "delete tokens") /\ ~ Waits(c)
    /\ connections' = [connections EXCEPT ![Head(client[c].ids)].live = FALSE]
    /\ tokens' = [t \in DOMAIN tokens |->
         IF t \in client[c].staged THEN [tokens[t] EXCEPT !.state = "gone"] ELSE tokens[t]]
    /\ End(c)
    /\ UNCHANGED <<oauthOthers, codes, bounds>>

OAuthStep(c) ==
    \/ ConsentCheck(c) \/ ConsentWrite(c)
    \/ ExchangeRead(c) \/ ExchangeBurn(c) \/ ExchangeLoad(c) \/ ExchangeConnect(c)
    \/ ExchangeReplay(c)
    \/ RefreshRead(c) \/ RefreshBurn(c) \/ RefreshCommit(c)
    \/ DisconnectRead(c) \/ DisconnectLock(c) \/ DisconnectCommit(c)
=============================================================================
