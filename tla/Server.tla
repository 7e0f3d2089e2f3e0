------------------------------- MODULE Server -------------------------------
(***************************************************************************)
(* Accounts on servers that start, stop and die: where each process of     *)
(* Accounts runs on a server of Lifecycle, which takes requests while it   *)
(* serves, waits for them when it is told to stop, and cuts off those that *)
(* take longer than the deadline.                                          *)
(***************************************************************************)
EXTENDS Lifecycle, Accounts

CONSTANT home           \* home[p]: the server on which p runs

ASSUME HomeAssumption == home \in [Procs -> Servers]

vars == <<lifeVars, accountVars>>

Init == LifeInit /\ AccountInit

On(s) == {p \in Procs : home[p] = s}

\* Shutdown closes the listener; the pool serves queries until db.Close.
Request(p) ==
    /\ \/ phase[home[p]] = "serving" /\ Arrive(p)
       \/ phase[home[p]] \in {"serving", "draining", "late"} /\ Query(p)
       \/ Verify(p)
       \/ DbError(p)
       \/ Finish(p)
    /\ UNCHANGED lifeVars

Alone(s) == Advance(s) /\ UNCHANGED accountVars

Stop(s) ==
    /\ Drained(s)
    /\ \A p \in On(s) : pc[p] = "idle"
    /\ UNCHANGED accountVars

\* The requests that were running are gone, and nobody gets their answers.
Break(s) == (Exit(s) \/ Die(s)) /\ Forget(On(s))

Next ==
    \/ \E p \in Procs : Request(p)
    \/ \E s \in Servers : Alone(s) \/ Stop(s) \/ Break(s)

Spec == Init /\ [][Next]_vars

\* main runs on; nothing is asked of the requests, whose queries have no
\* time limit, nor of the network and of MySQL beyond the statements of Up.
MainRuns(s) ==
    \/ Proceed(s) /\ UNCHANGED accountVars
    \/ Exit(s) /\ Forget(On(s))

FairSpec == Spec /\ \A s \in Servers : WF_vars(MainRuns(s))

-----------------------------------------------------------------------------
\* The invariant of the proofs: what servers and requests each keep to.
IInv == LifeIInv /\ AccountIInv
=============================================================================
