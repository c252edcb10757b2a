------------------------------ MODULE BoincDb ------------------------------
(***************************************************************************)
(* The part of the BOINC server database the back-end daemons meet in: one *)
(* row of table workunit and the rows of table result that belong to it.   *)
(* There is no transaction around a daemon's handler: every SQL statement  *)
(* is atomic, a handler is a sequence of them, and what it read may be out *)
(* of date when it writes.  Jobs share no state but host statistics, so    *)
(* one workunit row is enough.                                             *)
(*                                                                         *)
(* Time is abstract: `late` says that report_deadline has passed, and      *)
(* transition_time is "now" (due), "later" (some finite future time) or    *)
(* "never" (INT_MAX).                                                      *)
(***************************************************************************)
EXTENDS Naturals, FiniteSets

CONSTANTS
    Hosts,              \* volunteer hosts
    NoHost,             \* hostid of a result that was not sent
    Outputs,            \* equivalence classes of output files under compare_results()
    MinQuorum,          \* workunit.min_quorum at creation
    TargetNresults,     \* workunit.target_nresults at creation
    MaxErrorResults,    \* workunit.max_error_results
    MaxTotalResults,    \* workunit.max_total_results
    MaxSuccessResults,  \* workunit.max_success_results
    MaxFaults           \* bound: crashes and transient failures in a behaviour

\* What create_work() demands of a job; it does not check min_quorum.
ASSUME ParamAssumption ==
    /\ NoHost \notin Hosts
    /\ {MinQuorum, TargetNresults, MaxErrorResults, MaxTotalResults,
        MaxSuccessResults} \subseteq Nat \ {0}
    /\ MaxSuccessResults <= MaxTotalResults /\ MaxErrorResults <= MaxTotalResults
    /\ TargetNresults <= MaxSuccessResults
    /\ MaxFaults \in Nat

VARIABLES
    wu,     \* the workunit row
    res,    \* the result rows, by result id
    gone,   \* results whose output file the file deleter has removed
    faults  \* crashes and transient failures so far (bound: MaxFaults)

dbVars == <<wu, res, gone, faults>>

\* One id more than the limit, so that exceeding the limit can be expressed.
Results == 1 .. MaxTotalResults + 1

\* "NONE": not created yet; "PURGED": deleted by db_purge.
ServerStates == {"NONE", "UNSENT", "IN_PROGRESS", "OVER", "PURGED"}
Outcomes == {"INIT", "SUCCESS", "CLIENT_ERROR", "NO_REPLY", "DIDNT_NEED",
             "VALIDATE_ERROR", "CLIENT_DETACHED"}
ValidateStates == {"INIT", "VALID", "INVALID", "NO_CHECK", "INCONCLUSIVE", "TOO_LATE"}
FileDeleteStates == {"INIT", "READY", "DONE", "ERROR"}
AssimilateStates == {"INIT", "READY", "DONE"}
WuErrors == {"TOO_MANY_ERROR", "TOO_MANY_SUCCESS", "TOO_MANY_TOTAL",
             "CANCELLED", "NO_CANONICAL"}
TransitionTimes == {"now", "later", "never"}

\* What a host returns: the class of its output, an unreadable output, a
\* failure, or a job its user aborted (EXIT_ABORTED_VIA_GUI).
Returns == Outputs \cup {"unreadable", "failed", "aborted"}

ResultRow == [server : ServerStates, outcome : Outcomes, validate : ValidateStates,
              fds : FileDeleteStates, host : Hosts \cup {NoHost}, late : BOOLEAN,
              received : BOOLEAN, out : Returns \cup {"none"}]

\* `exists` turns FALSE when db_purge deletes the row.
WorkunitRow == [exists : BOOLEAN, canonical : Results \cup {0}, needValidate : BOOLEAN,
                error : SUBSET WuErrors, assimilate : AssimilateStates,
                fds : FileDeleteStates, tt : TransitionTimes, hr : Nat,
                quorum : Nat, target : Nat]

NoRow == [server |-> "NONE", outcome |-> "INIT", validate |-> "INIT", fds |-> "INIT",
          host |-> NoHost, late |-> FALSE, received |-> FALSE, out |-> "none"]

\* A result as create_result_ti() inserts it.
NewResult == [NoRow EXCEPT !.server = "UNSENT"]

\* create_work(): no results yet, the transitioner will make them.
NewWorkunit == [exists |-> TRUE, canonical |-> 0, needValidate |-> FALSE, error |-> {},
                assimilate |-> "INIT", fds |-> "INIT", tt |-> "now", hr |-> 0,
                quorum |-> MinQuorum, target |-> TargetNresults]

DbInit ==
    /\ wu = NewWorkunit
    /\ res = [r \in Results |-> NoRow]
    /\ gone = {}
    /\ faults = 0

PurgedRow == [NoRow EXCEPT !.server = "PURGED"]

Exists(S) == {r \in DOMAIN S : S[r].server \notin {"NONE", "PURGED"}}
Success(row) == row.server = "OVER" /\ row.outcome = "SUCCESS"

\* "update ... where id=...": a statement about a row that is gone does nothing.
UpdateResult(r, row) ==
    res' = IF r \in Exists(res) THEN [res EXCEPT ![r] = row] ELSE res
UpdateWorkunit(row) == wu' = IF wu.exists THEN row ELSE wu

\* A process dies, or a statement or a file system call fails.
Fault == faults < MaxFaults /\ faults' = faults + 1

-----------------------------------------------------------------------------
\* The passage of time.
DeadlinePasses(r) ==
    /\ res[r].server = "IN_PROGRESS" /\ ~res[r].late
    /\ res' = [res EXCEPT ![r].late = TRUE]
    /\ UNCHANGED <<wu, gone, faults>>

TransitionTimePasses ==
    /\ wu.exists /\ wu.tt = "later"
    /\ wu' = [wu EXCEPT !.tt = "now"]
    /\ UNCHANGED <<res, gone, faults>>

DbTypeOK ==
    /\ wu \in WorkunitRow
    /\ res \in [Results -> ResultRow]
    /\ gone \subseteq Results
    /\ faults \in 0 .. MaxFaults
=============================================================================
