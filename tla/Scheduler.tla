----------------------------- MODULE Scheduler -----------------------------
(***************************************************************************)
(* The scheduler CGI's statements about a job: sending a result            *)
(* (sched_send.cpp, sched_check.cpp), handling a report (sched_result.cpp), *)
(* resending lost work (sched_resend.cpp) and giving up on a host that     *)
(* detached (handle_request.cpp).  A lock file per host keeps two CGI      *)
(* processes from serving one host, so there is one process per host.      *)
(* Also tools/backend_lib.cpp's cancel_job().                              *)
(***************************************************************************)
EXTENDS BoincDb

CONSTANTS
    HostClass,      \* homogeneous redundancy class of each host; 0: HR not used
    Owner,          \* what one_result_per_user/host_per_wu counts by
    Trusted,        \* hosts whose app version is trusted (adaptive replication)
    AppTarget,      \* app.target_nresults
    MayLose,        \* hosts that may lose a reply, and so the results in it
    MayMove,        \* hosts of one user whose clients exchange their results
    MayDetach,      \* hosts that may detach and come back
    MayCancel       \* an operator may cancel the job

ASSUME SchedulerAssumption ==
    /\ HostClass \in [Hosts -> Nat]
    /\ DOMAIN Owner = Hosts
    /\ {Trusted, MayLose, MayMove, MayDetach} \subseteq SUBSET Hosts
    /\ AppTarget \in Nat
    /\ MayCancel \in BOOLEAN

VARIABLES
    cgi,    \* cgi[h]: the scheduler process serving host h
    acked,  \* results whose success report was acknowledged: the client forgets them
    cancel  \* progress of cancel_job()

schedulerVars == <<cgi, acked, cancel>>

cgiIdle == [op |-> "idle", r |-> 0, old |-> "NONE", replicate |-> FALSE, todo |-> {},
            out |-> "none", validate |-> "INIT"]

SchedulerInit ==
    /\ cgi = [h \in Hosts |-> cgiIdle]
    /\ acked = {}
    /\ cancel = "no"

Become(h, process) == cgi' = [cgi EXCEPT ![h] = process]
Goto(h, op) == Become(h, IF op = "idle" THEN cgiIdle ELSE [cgi[h] EXCEPT !.op = op])

-----------------------------------------------------------------------------
UsesHr(h) == HostClass[h] # 0
HrAllows(h) == UsesHr(h) => wu.hr \in {0, HostClass[h]}

\* add_result_to_reply() replicates a job sent to an untrusted host.
NeedsReplication(h) == wu.target = 1 /\ AppTarget > 1 /\ h \notin Trusted

\* Mutant: nobody looks for other results of the job on this host.
SelectAnyResult(h, r) ==
    /\ cgi[h].op = "idle"
    /\ wu.exists /\ res[r].server = "UNSENT" /\ HrAllows(h)
    /\ Become(h, [cgiIdle EXCEPT !.op = "updateWu", !.r = r, !.old = "UNSENT",
                                 !.replicate = NeedsReplication(h)])
    /\ UNCHANGED <<dbVars, acked, cancel>>

\* slow_check() and result_still_sendable(), for a result from the job cache.
SelectResult(h, r) ==
    /\ cgi[h].op = "idle"
    /\ wu.exists /\ res[r].server = "UNSENT"
    /\ \A s \in Exists(res) : res[s].host # NoHost => Owner[res[s].host] # Owner[h]
    /\ UsesHr(h) => wu.error = {} /\ HrAllows(h)
    /\ Become(h, [cgiIdle EXCEPT !.op = "updateWu", !.r = r, !.old = "UNSENT",
                                 !.replicate = NeedsReplication(h)])
    /\ UNCHANGED <<dbVars, acked, cancel>>

\* update_wu_on_send(): lower transition_time to x, claim the HR class.
UpdateWuOnSend(h, tt) ==
    UpdateWorkunit([wu EXCEPT !.tt = tt, !.hr = IF UsesHr(h) THEN HostClass[h] ELSE @])

SendUpdateWorkunit(h) ==
    /\ cgi[h].op = "updateWu"
    /\ IF wu.exists /\ HrAllows(h)
         THEN /\ UpdateWuOnSend(h, IF wu.tt = "never" THEN "later" ELSE wu.tt)
              /\ Goto(h, "mark")
         ELSE /\ UNCHANGED wu
              /\ Goto(h, "idle")
    /\ UNCHANGED <<res, gone, faults, acked, cancel>>

\* Mutants: the state that was read is not compared; two arguments are swapped.
MarkAnyAsSent(h, r, old, late) ==
    res' = [res EXCEPT ![r].server = "IN_PROGRESS", ![r].host = h, ![r].late = late]
MarkAsSentSwapped(h, r, old, late) ==
    res' = [res EXCEPT ![r].server = "IN_PROGRESS", ![r].host = old, ![r].late = late]

\* mark_as_sent() changes the row only if it is still in the state that was read.
MarkAsSent(h, r, old, late) ==
    res' = IF res[r].server = old
           THEN [res EXCEPT ![r].server = "IN_PROGRESS", ![r].host = h, ![r].late = late]
           ELSE res

SendMarkAsSent(h) ==
    /\ cgi[h].op = "mark"
    /\ MarkAsSent(h, cgi[h].r, cgi[h].old, FALSE)
    /\ Goto(h, IF res[cgi[h].r].server = cgi[h].old /\ cgi[h].replicate
               THEN "replicate" ELSE "idle")
    /\ UNCHANGED <<wu, gone, faults, acked, cancel>>

\* Mutant: more results are made, but the quorum remains 1.
SendReplicateTarget(h) ==
    /\ cgi[h].op = "replicate"
    /\ UpdateWorkunit([wu EXCEPT !.target = AppTarget, !.tt = "now"])
    /\ Goto(h, "idle")
    /\ UNCHANGED <<res, gone, faults, acked, cancel>>

SendReplicate(h) ==
    /\ cgi[h].op = "replicate"
    /\ UpdateWorkunit([wu EXCEPT !.target = AppTarget, !.quorum = AppTarget, !.tt = "now"])
    /\ Goto(h, "idle")
    /\ UNCHANGED <<res, gone, faults, acked, cancel>>

-----------------------------------------------------------------------------
\* resend_lost_work(): a result in progress on h that h does not have is sent
\* again, or made to time out.
ResendLost(h, r) ==
    /\ cgi[h].op = "idle" /\ h \in MayLose
    /\ res[r].server = "IN_PROGRESS" /\ res[r].host = h
    /\ \/ /\ wu.exists /\ wu.error = {} /\ wu.canonical = 0
          /\ Become(h, [cgiIdle EXCEPT !.op = "updateWu", !.r = r, !.old = "IN_PROGRESS",
                                       !.replicate = NeedsReplication(h)])
       \/ Become(h, [cgiIdle EXCEPT !.op = "expire", !.r = r, !.old = "IN_PROGRESS"])
    /\ UNCHANGED <<dbVars, acked, cancel>>

ResendExpire(h) ==
    /\ cgi[h].op = "expire"
    /\ MarkAsSent(h, cgi[h].r, cgi[h].old, TRUE)
    /\ Goto(h, IF res[cgi[h].r].server = cgi[h].old THEN "expireWu" ELSE "idle")
    /\ UNCHANGED <<wu, gone, faults, acked, cancel>>

ResendExpireWorkunit(h) ==
    /\ cgi[h].op = "expireWu"
    /\ IF HrAllows(h) THEN UpdateWuOnSend(h, "now") ELSE UNCHANGED wu
    /\ Goto(h, "idle")
    /\ UNCHANGED <<res, gone, faults, acked, cancel>>

-----------------------------------------------------------------------------
\* Mutant: results that timed out are not wanted any more.
AcceptsInTime(row) == row.server = "IN_PROGRESS" /\ ~row.received

\* handle_results() keeps a report of a result that is in progress or that it
\* had given up on, unless something was received before.
Accepts(row) ==
    /\ \/ row.server = "IN_PROGRESS"
       \/ row.server = "OVER" /\ row.outcome \in {"NO_REPLY", "CLIENT_DETACHED"}
    /\ ~row.received

Succeeded(ret) == ret \in Outputs \cup {"unreadable"}

\* A host may report the results of another host of its user.
MayReport(h, r) == res[r].host = h \/ {res[r].host, h} \subseteq MayMove

\* The rows of all reported results are read and judged first,
Report(h, r, ret) ==
    /\ cgi[h].op = "idle"
    /\ MayReport(h, r) /\ Accepts(res[r])
    /\ Become(h, [cgiIdle EXCEPT !.op = "report", !.r = r, !.out = ret,
                                 !.validate = IF Succeeded(ret) THEN res[r].validate
                                              ELSE "INVALID"])
    /\ UNCHANGED <<dbVars, acked, cancel>>

\* then written.  Once a result is back only whether its old deadline has passed
\* can matter, and time makes that true: `late` is set at once.
ReportUpdate(h) ==
    /\ cgi[h].op = "report"
    /\ LET r == cgi[h].r
       IN  UpdateResult(r, [res[r] EXCEPT
               !.server = "OVER", !.host = h, !.received = TRUE, !.late = TRUE,
               !.out = cgi[h].out, !.validate = cgi[h].validate,
               !.outcome = IF Succeeded(cgi[h].out) THEN "SUCCESS" ELSE "CLIENT_ERROR"])
    /\ Goto(h, "trigger")
    /\ UNCHANGED <<wu, gone, faults, acked, cancel>>

\* Mutant: the transitioner is not triggered for a job that is decided.
ReportTriggerUndecided(h) ==
    /\ cgi[h].op = "trigger"
    /\ UpdateWorkunit([wu EXCEPT !.tt = IF wu.canonical = 0 THEN "now" ELSE @])
    /\ acked' = IF Succeeded(cgi[h].out) THEN acked \cup {cgi[h].r} ELSE acked
    /\ Goto(h, "idle")
    /\ UNCHANGED <<res, gone, faults, cancel>>

\* update_workunits(), and the reply with the acknowledgement.
ReportTrigger(h) ==
    /\ cgi[h].op = "trigger"
    /\ UpdateWorkunit([wu EXCEPT !.tt = "now"])
    /\ acked' = IF Succeeded(cgi[h].out) THEN acked \cup {cgi[h].r} ELSE acked
    /\ Goto(h, "idle")
    /\ UNCHANGED <<res, gone, faults, cancel>>

\* A report of success that handle_results() acknowledges and ignores.
ReportIgnored(h, r) ==
    /\ cgi[h].op = "idle"
    /\ MayReport(h, r) /\ ~Accepts(res[r]) /\ r \notin acked
    /\ res[r].out = "none" \/ Succeeded(res[r].out)
    /\ acked' = acked \cup {r}
    /\ UNCHANGED <<dbVars, cgi, cancel>>

-----------------------------------------------------------------------------
\* mark_results_over(): the results in progress on a host that detached.
Detach(h) ==
    /\ cgi[h].op = "idle" /\ h \in MayDetach
    /\ LET mine == {r \in Results : res[r].server = "IN_PROGRESS" /\ res[r].host = h}
       IN  mine # {} /\ Become(h, [cgiIdle EXCEPT !.op = "detach", !.todo = mine])
    /\ UNCHANGED <<dbVars, acked, cancel>>

DetachResult(h, r) ==
    /\ cgi[h].op = "detach" /\ r \in cgi[h].todo
    /\ UpdateResult(r, [res[r] EXCEPT !.server = "OVER", !.outcome = "CLIENT_DETACHED",
                                      !.received = TRUE])
    /\ Become(h, [cgi[h] EXCEPT !.op = "detachWu", !.todo = @ \ {r}])
    /\ UNCHANGED <<wu, gone, faults, acked, cancel>>

DetachTrigger(h) ==
    /\ cgi[h].op = "detachWu"
    /\ UpdateWorkunit([wu EXCEPT !.tt = "now"])
    /\ Goto(h, IF cgi[h].todo = {} THEN "idle" ELSE "detach")
    /\ UNCHANGED <<res, gone, faults, acked, cancel>>

CgiCrash(h) ==
    /\ cgi[h].op # "idle" /\ Fault
    /\ Goto(h, "idle")
    /\ UNCHANGED <<wu, res, gone, acked, cancel>>

-----------------------------------------------------------------------------
CancelResults ==
    /\ MayCancel /\ cancel = "no" /\ wu.exists
    /\ res' = [r \in Results |-> IF res[r].server = "UNSENT"
                 THEN [res[r] EXCEPT !.server = "OVER", !.outcome = "DIDNT_NEED"] ELSE res[r]]
    /\ cancel' = "results"
    /\ UNCHANGED <<wu, gone, faults, cgi, acked>>

CancelWorkunit ==
    /\ cancel = "results"
    /\ UpdateWorkunit([wu EXCEPT !.error = @ \cup {"CANCELLED"}, !.tt = "now"])
    /\ cancel' = "done"
    /\ UNCHANGED <<res, gone, faults, cgi, acked>>

-----------------------------------------------------------------------------
\* The rest of a request that has begun, host by host.
CgiStep(h) ==
    \/ SendUpdateWorkunit(h) \/ SendMarkAsSent(h) \/ SendReplicate(h)
    \/ ResendExpire(h) \/ ResendExpireWorkunit(h)
    \/ ReportUpdate(h) \/ ReportTrigger(h)
    \/ \E r \in Results : DetachResult(h, r)
    \/ DetachTrigger(h)

CgiRequest(h) ==
    \/ \E r \in Results : \/ SelectResult(h, r)
                          \/ ResendLost(h, r)
                          \/ ReportIgnored(h, r)
                          \/ \E ret \in Returns : Report(h, r, ret)
    \/ Detach(h)

CgiNext(h) == CgiRequest(h) \/ CgiStep(h) \/ CgiCrash(h)

CancelNext == CancelResults \/ CancelWorkunit

SchedulerTypeOK ==
    /\ cgi \in [Hosts -> [op : {"idle", "updateWu", "mark", "replicate", "expire",
                                "expireWu", "report", "trigger", "detach", "detachWu"},
                          r : Results \cup {0}, old : ServerStates,
                          replicate : BOOLEAN, todo : SUBSET Results,
                          out : Returns \cup {"none"}, validate : ValidateStates]]
    /\ \A h \in Hosts : cgi[h].op \in {"report", "trigger"} => cgi[h].r # 0
    /\ acked \subseteq Results
    /\ cancel \in {"no", "results", "done"}
=============================================================================
