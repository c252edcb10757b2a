---------------------------- MODULE FileDeleter ----------------------------
(***************************************************************************)
(* sched/file_deleter.cpp and sched/db_purge.cpp: removal of the files, and *)
(* then of the rows, of finished jobs.  file_deleter writes nothing but     *)
(* file_delete_state and acts only on states it wrote or is first to see,   *)
(* so deleting a file and recording it is one action.                       *)
(***************************************************************************)
EXTENDS BoincDb

CONSTANT PurgeWaits    \* db_purge runs with a min_age_days longer than the daemons' lag

ASSUME PurgeAssumption == PurgeWaits \in BOOLEAN

VARIABLE purge  \* db_purge: the result rows it has still to delete

purgeIdle == [pc |-> "idle"]

PurgeInit == purge = purgeIdle

-----------------------------------------------------------------------------
FileDeleteOutput(r) ==
    /\ r \in Exists(res) /\ res[r].fds \in {"READY", "ERROR"}
    /\ res' = [res EXCEPT ![r].fds = "DONE"]
    /\ gone' = gone \cup {r}
    /\ UNCHANGED <<wu, faults>>

\* The upload directory is missing, or unlink() fails; retried hours later.
FileDeleteOutputFails(r) ==
    /\ r \in Exists(res) /\ res[r].fds = "READY" /\ Fault
    /\ res' = [res EXCEPT ![r].fds = "ERROR"]
    /\ UNCHANGED <<wu, gone>>

FileDeleteInput ==
    /\ wu.exists /\ wu.fds \in {"READY", "ERROR"}
    /\ wu' = [wu EXCEPT !.fds = "DONE"]
    /\ UNCHANGED <<res, faults, gone>>

FileDeleteInputFails ==
    /\ wu.exists /\ wu.fds = "READY" /\ Fault
    /\ wu' = [wu EXCEPT !.fds = "ERROR"]
    /\ UNCHANGED <<res, gone>>

FileDeleterStep ==
    \/ \E r \in Results : FileDeleteOutput(r)
    \/ FileDeleteInput

FileDeleterNext ==
    \/ FileDeleterStep
    \/ \E r \in Results : FileDeleteOutputFails(r)
    \/ FileDeleteInputFails

-----------------------------------------------------------------------------
\* With min_age_days only workunit rows that were not modified for that long are
\* purged: the daemons have had the time to react to the last change.
\* db_purge archives and deletes the result rows one by one, whatever their
\* file_delete_state, then the workunit row.
PurgeEnumerate ==
    /\ purge.pc = "idle"
    /\ wu.exists /\ wu.fds = "DONE"
    /\ PurgeWaits => wu.tt # "now" /\ ~wu.needValidate
    /\ purge' = [pc |-> "purging", todo |-> Exists(res)]
    /\ UNCHANGED dbVars

PurgeResult(r) ==
    /\ purge.pc = "purging" /\ r \in purge.todo
    /\ res' = [res EXCEPT ![r] = PurgedRow]
    /\ purge' = [purge EXCEPT !.todo = @ \ {r}]
    /\ UNCHANGED <<wu, faults, gone>>

PurgeWorkunit ==
    /\ purge.pc = "purging" /\ purge.todo = {}
    /\ wu' = [wu EXCEPT !.exists = FALSE]
    /\ purge' = purgeIdle
    /\ UNCHANGED <<res, faults, gone>>

PurgeCrash ==
    /\ purge.pc # "idle" /\ Fault
    /\ purge' = purgeIdle
    /\ UNCHANGED <<wu, res, gone>>

PurgeStep ==
    \/ PurgeEnumerate
    \/ \E r \in Results : PurgeResult(r)
    \/ PurgeWorkunit

PurgeNext == PurgeStep \/ PurgeCrash

PurgeTypeOK ==
    purge \in [pc : {"idle"}] \cup [pc : {"purging"}, todo : SUBSET Results]
=============================================================================
