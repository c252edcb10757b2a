-------------------------------- MODULE Job --------------------------------
(***************************************************************************)
(* What the BOINC server promises about one job, whatever its daemons do:  *)
(* results are issued until the job is decided, the outcome is handed to   *)
(* the project, and only then, when no volunteer is working on the job     *)
(* any more, are its input files and finally its record removed.           *)
(***************************************************************************)
EXTENDS Naturals

CONSTANT Ids    \* result ids

VARIABLES
    results,    \* results[r]: not issued, open (unsent or in progress) or closed
    winner,     \* the canonical result, 0 while there is none
    failed,     \* some error was recorded
    handed,     \* the outcome was assimilated
    inputs      \* what has become of the input files and the record

jobVars == <<results, winner, failed, handed, inputs>>

Decided == winner # 0 \/ failed
Open == {r \in Ids : results[r] = "open"}

Init ==
    /\ results = [r \in Ids |-> "new"]
    /\ winner = 0 /\ failed = FALSE /\ handed = FALSE /\ inputs = "kept"

\* Results are issued in a batch, for a job that is not decided.
Issue(S) ==
    /\ ~Decided /\ inputs = "kept"
    /\ S # {} /\ \A r \in S : results[r] = "new"
    /\ results' = [r \in Ids |-> IF r \in S THEN "open" ELSE results[r]]
    /\ UNCHANGED <<winner, failed, handed, inputs>>

\* A result is returned, times out, or is not needed: for good.
Close(S) ==
    /\ S # {} /\ S \subseteq Open
    /\ results' = [r \in Ids |-> IF r \in S THEN "closed" ELSE results[r]]
    /\ UNCHANGED <<winner, failed, handed, inputs>>

\* A returned result becomes canonical.  A job that had failed, and had been
\* handed over as failed, is then handed over again.
Elect(r) ==
    /\ winner = 0 /\ results[r] = "closed" /\ inputs # "purged"
    /\ winner' = r /\ handed' = FALSE
    /\ UNCHANGED <<results, failed, inputs>>

Fail ==
    /\ ~failed /\ inputs # "purged"
    /\ failed' = TRUE
    /\ UNCHANGED <<results, winner, handed, inputs>>

HandOver ==
    /\ Decided /\ ~handed
    /\ handed' = TRUE
    /\ UNCHANGED <<results, winner, failed, inputs>>

\* Errors may be recorded by the same step.
ReleaseInputs ==
    /\ handed /\ Open = {} /\ inputs = "kept"
    /\ inputs' = "released" /\ failed' \in {failed, TRUE}
    /\ UNCHANGED <<results, winner, handed>>

RemoveInputs ==
    /\ inputs = "released"
    /\ inputs' = "removed"
    /\ UNCHANGED <<results, winner, failed, handed>>

Purge ==
    /\ inputs = "removed" /\ Open = {}
    /\ inputs' = "purged"
    /\ UNCHANGED <<results, winner, failed, handed>>

Next ==
    \/ \E S \in SUBSET Ids : Issue(S) \/ Close(S)
    \/ \E r \in Ids : Elect(r)
    \/ Fail \/ HandOver \/ ReleaseInputs \/ RemoveInputs \/ Purge

JobSpec == Init /\ [][Next]_jobVars
=============================================================================
