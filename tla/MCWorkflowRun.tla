--------------------------- MODULE MCWorkflowRun ---------------------------
(***************************************************************************)
(* Instances of the run engine for TLC: small step graphs that between them *)
(* take every kind of edge, and the symmetry of worker slots and requests.  *)
(***************************************************************************)
EXTENDS WorkflowRunProperties, TLC

Step(key, kind, idem, max, onSuccess, onFailure, onError) ==
    [key |-> key, kind |-> kind, idempotent |-> idem, maxAttempts |-> max,
     onSuccess |-> onSuccess, onFailure |-> onFailure, onError |-> onError]

Create == Step("create", "HTTP", FALSE, 1, Unset, Unset, "fail")
Sync == Step("sync", "HTTP", TRUE, 2, Unset, Unset, "fail")

\* create an account, then an idempotent sync with one automatic retry
Linear == << <<Create, Sync>> >>

\* the same, after a version that only created the account
Versioned == << <<Create>>, <<Create, Sync>> >>

\* an account, then a version that has a human approve it and, when telling the
\* user fails, asks a human again
Staged == << <<Create>>,
             <<Create, Step("approve", "MANUAL", FALSE, 1, Unset, Unset, "none"),
               Step("notify", "HTTP", TRUE, 2, Unset, Unset, "manual")>> >>

\* every edge: compensate, pause, escalate, goto and continue to the end
Paused == << <<Step("create", "HTTP", FALSE, 1, Unset, Compensate, "fail"),
               Step("approve", "MANUAL", FALSE, 1, Unset, Unset, "none"),
               Step("notify", "HTTP", TRUE, 1, EndSuccess, Unset, "manual")>> >>

Branching == << <<Step("create", "HTTP", FALSE, 1, EndSuccess, "handler", "fail"),
                  Step("handler", "HTTP", TRUE, 1, Unset, Unset, "continue")>> >>

\* steps that run in another order than they are listed in
Backward == << <<Step("lookup", "HTTP", TRUE, 1, "create", Unset, "fail"),
                 Step("finish", "HTTP", TRUE, 1, EndSuccess, Unset, "fail"),
                 Step("create", "HTTP", FALSE, 1, "finish", Unset, "fail")>> >>

\* one human, and two in a row
OneManual == << <<Step("m1", "MANUAL", FALSE, 1, Unset, Unset, "none")>> >>
TwoManual == << <<Step("m1", "MANUAL", FALSE, 1, Unset, Unset, "none"),
                  Step("m2", "MANUAL", FALSE, 1, Unset, Unset, "none")>> >>

Symm == Permutations(Workers) \cup Permutations(Clients)
=============================================================================
