-------------------------- MODULE ProcurementState --------------------------
(***************************************************************************)
(* What is bought, received, kept in stock and placed somewhere: the tables, *)
(* the row locks and the requests working on them.  A request is a record    *)
(* that lives as long as its handler: the locks its transaction holds, those  *)
(* it waits for, what it has read, and the rows it will write at its commit.  *)
(* Rows have positive ids, in which order the code locks them.                *)
(***************************************************************************)
EXTENDS Integers, Sequences, FiniteSets
Ids == INSTANCE FiniteSetsExt

CONSTANTS
    Items,      \* consumables
    Apps,       \* applications with licensed seats
    Purchases, Lines, Assets, Locations, Models,
    Clients,    \* the handlers that may run at the same time
    Ceiling,    \* the largest count a column holds
    MaxOps,     \* requests that begin
    MaxFaults   \* transactions that fail

None == 0

\* A column can count the assets there are.
ASSUME ProcurementAssumption ==
    /\ Purchases \cup Lines \cup Assets \cup Locations \cup Models \subseteq Nat \ {None}
    /\ None \notin Items \cup Apps
    /\ IsFiniteSet(Apps) /\ IsFiniteSet(Lines) /\ IsFiniteSet(Assets)
    /\ Cardinality(Assets) <= Ceiling
    /\ Ceiling \in Nat /\ MaxOps \in Nat /\ MaxFaults \in Nat

VARIABLES
    consumables,  \* item -> row with its stock
    movements,    \* sequence of ConsumableMovement rows
    seats,        \* application -> seatsPurchased
    purchases, lines, assets, locations, models,
    client,       \* request in progress per handler
    mix,          \* the kinds of requests of this behaviour
    ops, faults

stockTables == <<consumables, movements, seats>>
tables == <<stockTables, purchases, lines, assets, locations, models>>
procurementVars == <<tables, client, mix, ops, faults>>
bounds == <<mix, ops, faults>>
-----------------------------------------------------------------------------
(***************************************************************************)
(* Row locks.  A plain UPDATE takes "no key update" on its row, an insert or *)
(* update of a foreign key "key share" on the parent's.                       *)
(***************************************************************************)
Conflicting(m, n) ==
    \/ "update" \in {m, n}
    \/ "no key update" \in {m, n} /\ "key share" \notin {m, n}

\* The lock on a row that a request may not name.
Row(table, id, mode) == IF id = None THEN {} ELSE {<<table, id, mode>>}

Tree == {<<"tree", None, "update">>}

Blocks(held, wanted) ==
    held[1] = wanted[1] /\ held[2] = wanted[2] /\ Conflicting(held[3], wanted[3])

HeldUp(wants, d) == \E wanted \in wants, held \in client[d].locks : Blocks(held, wanted)

\* A statement of a transaction of its own meets no lock.
Free(wants) == \A d \in Clients : ~ HeldUp(wants, d)

WaitsFor(c, d) == c # d /\ HeldUp(client[c].wants, d)

Waits(c) == \E d \in Clients : WaitsFor(c, d)

\* Some requests all wait for one another; Postgres rolls one of them back.
Deadlocked(S) == S # {} /\ \A c \in S : \E d \in S : WaitsFor(c, d)
-----------------------------------------------------------------------------
Idle == [op |-> "none", pc |-> "idle", change |-> "none", on |-> None, line |-> None,
         to |-> None, of |-> None, target |-> {}, ids |-> {}, n |-> 0, seen |-> 0, staged |-> {},
         locks |-> {}, wants |-> {}]

Allowed(c, kind) == kind \in mix /\ client[c].pc = "idle" /\ ops < MaxOps

Begin(c, kind, request) ==
    /\ Allowed(c, kind)
    /\ ops' = ops + 1
    /\ client' = [client EXCEPT ![c] = request]
    /\ UNCHANGED <<tables, mix, faults>>

\* A request that is one statement: a read it cannot outlive, then the write.
Single(c, kind, wants) ==
    /\ Allowed(c, kind) /\ Free(wants)
    /\ ops' = ops + 1
    /\ UNCHANGED <<client, mix, faults>>

\* The request is at pc and the locks it asked for are its own.
Granted(c, op, pc) == client[c].op = op /\ client[c].pc = pc /\ ~ Waits(c)

\* It keeps them and asks for the next.
Onward(c, pc, wants) ==
    [client[c] EXCEPT !.pc = pc, !.locks = @ \cup client[c].wants, !.wants = wants]

Go(c, pc, wants) == client' = [client EXCEPT ![c] = Onward(c, pc, wants)]

\* The handler answers (or throws: 400, 404, 409): nothing of it is left.
End(c) == client' = [client EXCEPT ![c] = Idle]

\* SELECT ... ORDER BY id FOR ..., one row after the other: the first of the
\* rows found is the one it waits for.
FirstRow(table, mode, S) == IF S = {} THEN {} ELSE {<<table, Ids!Min(S), mode>>}

Queued(request, pc, table, mode, S) ==
    [request EXCEPT !.pc = pc, !.ids = S, !.wants = FirstRow(table, mode, S)]

\* A row that no longer matches once it is locked is not returned.
LockNext(c, table, mode, matching) ==
    LET id == Ids!Min(client[c].ids)
        rest == client[c].ids \ {id}
    IN  /\ client[c].ids # {}
        /\ client' = [client EXCEPT ![c] =
             [Onward(c, client[c].pc, FirstRow(table, mode, rest))
                EXCEPT !.ids = rest, !.staged = @ \cup ({table} \X ({id} \cap matching))]]

StagedOf(c, table) == {row[2] : row \in {r \in client[c].staged : r[1] = table}}

\* A transaction fails: the connection, a statement, the process; or it is
\* rolled back to end a deadlock.
Fail(c) ==
    /\ client[c].pc # "idle"
    /\ \/ faults < MaxFaults /\ faults' = faults + 1
       \/ (\E S \in SUBSET Clients : c \in S /\ Deadlocked(S)) /\ UNCHANGED faults
    /\ End(c)
    /\ UNCHANGED <<tables, mix, ops>>
-----------------------------------------------------------------------------
LiveLine(l) == lines[l].state = "live" /\ purchases[lines[l].purchase].state = "live"

LiveAssets(S) == {a \in S : assets[a].state = "live"}

LocationLive(x) == locations[x].state = "live"

\* Requests name rows there are: for any other id they answer 404.
Known(table, S) == {i \in S : table[i].state # "none"}

\* The first id nobody has used.
Unused(table, S) == {i \in S : table[i].state = "none"
                             /\ \A j \in S : table[j].state = "none" => i <= j}
=============================================================================
