--------------------------- MODULE AssistantSweep ---------------------------
(***************************************************************************)
(* The reconciler: it ends what nobody decided in time, closes what was     *)
(* interrupted, resumes what was not, and finds the runs the queue lost.    *)
(***************************************************************************)
EXTENDS AssistantRequests

Pass(state) ==
    /\ At(Sweeper, "idle")
    /\ Become(Sweeper, [state EXCEPT !.op = "sweep"])
    /\ UNCHANGED outside

\* Mutant: only cards run out of time, and forms wait on.
DueCards(r, status) ==
    {i \in RowsAt(r, {status}) : invocations[i].due /\ invocations[i].kind = "write"}

DueRows(r, status) == {i \in RowsAt(r, {status}) : invocations[i].due}

\* expireApprovals and expireInputs: the rows first, then their run.
SweepExpired ==
    \E r \in Runs, waiting \in Waiting :
        /\ DueRows(r, waiting) # {}
        /\ Close(DueRows(r, waiting), "EXPIRED")
        /\ Pass(Finalizing([Idle EXCEPT !.run = r], "EXPIRED", {waiting}, "not done"))
        /\ UNCHANGED <<runs, history, jobs>>

\* interruptedExecutions: never of a run that is being driven.  The time it
\* allows says nothing of the write, which may still be running.
SweepInterrupted ==
    \E i \in DOMAIN invocations :
        /\ At(Sweeper, "idle")
        /\ invocations[i].status = "EXECUTING"
        /\ runs[invocations[i].run].status # "RUNNING" /\ ~ Driving(invocations[i].run)
        /\ Close({i}, "OUTCOME_UNKNOWN")
        /\ UNCHANGED <<runs, history, jobs, actor, outside>>

\* reconcileAwaiting: a waiting run is cancelled, or resumed when it is decided.
SweepAwaiting ==
    \E r \in Runs :
        /\ runs[r].status \in Waiting
        /\ IF allowed
           THEN RowsAt(r, Undecided) = {} /\ Pass([Idle EXCEPT !.run = r, !.pc = "count"])
           ELSE Pass(Finalizing([Idle EXCEPT !.run = r], "CANCELLED", Waiting, "not done"))
        /\ UNCHANGED <<tables, jobs>>

\* requeueLost.
SweepQueued ==
    \E r \in Runs :
        /\ runs[r].status = "QUEUED" /\ ~ InFlight(r)
        /\ Pass([Idle EXCEPT !.run = r, !.pc = "enqueue"])
        /\ UNCHANGED <<tables, jobs>>

\* Mutant: a run that is being driven is taken for a lost one.
StaleAny(r) == runs[r].status = "RUNNING"

Stale(r) == runs[r].status = "RUNNING" /\ ~ InFlight(r)

\* failStale: what was executing is never run again, and neither is the run.
SweepStale ==
    \E r \in Runs :
        /\ Stale(r)
        /\ Close(RowsAt(r, {"EXECUTING"}), "OUTCOME_UNKNOWN")
        /\ Pass(Finalizing([Idle EXCEPT !.run = r], "FINISHED", {"RUNNING"}, "unknown"))
        /\ UNCHANGED <<runs, history, jobs>>

SweepStep == SweepExpired \/ SweepInterrupted \/ SweepAwaiting \/ SweepQueued \/ SweepStale
=============================================================================
