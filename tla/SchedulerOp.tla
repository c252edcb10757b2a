---------------------------- MODULE SchedulerOp ----------------------------
(***************************************************************************)
(* The client's side of the scheduler RPC (client/scheduler_op.cpp,        *)
(* client/cs_scheduler.cpp) for one project, the results the client has of *)
(* it, and when the client saves all this.                                 *)
(*                                                                         *)
(* The functions that do_something() calls in a pass are one action each;  *)
(* scheduler_rpc_poll() is the last of them, and the state is saved after  *)
(* it if something has made it dirty.  Each function has a timer, so that  *)
(* a pass may skip it.  A result is new until it has a task; its files are *)
(* transferred in no time here (for uploads, see FileTransfer).            *)
(***************************************************************************)
EXTENDS StateFile, HostRpc, FiniteSetsExt

CONSTANTS
    NumUrls,            \* schedulers of the project
    MaxTasksReported,   \* cc_config.max_tasks_reported; 0 for no limit
    MaxSeqno            \* bound on requests that are for work alone

ASSUME SchedulerOpAssumption ==
    /\ NumUrls \in Nat \ {0} /\ MaxTasksReported \in Nat
    /\ MaxSeqno \in Nat

VARIABLES
    hostid,     \* PROJECT::hostid
    seqno,      \* PROJECT::rpc_seqno
    results,    \* CLIENT_STATE::results: job, phase, got_server_ack, not_started
    request,    \* the request file, while it is needed
    dirty       \* CLIENT_STATE::client_state_dirty

memory == <<hostid, seqno, results>>

(* Phases in which ready_to_report is set, and in which there is a task.   *)
Ready == {"aborting", "aborted", "done"}
Active == {"running", "aborting"}

(* What a restart finds of this in the state file: no task of a result     *)
(* that is ready, and none of the scheduling flags.                        *)
Parsed(r) == [r EXCEPT !.phase = IF @ = "aborting" THEN "aborted" ELSE @, !.unstarted = FALSE]
Snapshot == [hostid |-> hostid, seqno |-> seqno,
             results |-> [i \in DOMAIN results |-> Parsed(results[i])]]

Held == {results[i].job : i \in DOMAIN results}

(* The client is in its poll loop, and may do something.                   *)
Polling == save = "no"

(* write_state_file_if_needed(), at the end of the pass.                   *)
EndPass(isDirty) ==
    /\ dirty' = FALSE
    /\ IF isDirty THEN BeginSave ELSE UNCHANGED <<save, attempt>>
    /\ UNCHANGED <<files, completed>>

-----------------------------------------------------------------------------
ReadyIndices == {i \in DOMAIN results : results[i].phase \in Ready}

(* Mutant of ReportedIndices: stops before the one that reaches the limit. *)
IndicesBelowLimit ==
    {i \in ReadyIndices : Cardinality({k \in ReadyIndices : k <= i}) < MaxTasksReported}

(* The results up to the one that reaches the limit.                       *)
ReportedIndices ==
    IF MaxTasksReported = 0 THEN ReadyIndices
    ELSE {i \in ReadyIndices :
             Cardinality({k \in ReadyIndices : k <= i}) <= MaxTasksReported}

(* last_reported_index counts from 0, and is 0 if the limit is not reached.*)
LastReportedIndex ==
    IF MaxTasksReported > 0 /\ Cardinality(ReportedIndices) = MaxTasksReported
    THEN Max(ReportedIndices) - 1 ELSE 0

(* Mutant of OtherIndices: what comes after the limit is left out.         *)
UnreadyIndices == {i \in DOMAIN results : i \notin ReadyIndices /\ i - 1 <= LastReportedIndex}

OtherIndices ==
    {i \in DOMAIN results : \/ LastReportedIndex # 0 /\ i - 1 > LastReportedIndex
                            \/ i \notin ReadyIndices}

(* make_scheduler_request()                                                *)
SchedulerRequest(work) ==
    [hostid |-> hostid, seqno |-> IF hostid = 0 THEN 0 ELSE seqno,
     reports |-> {[job |-> results[i].job, ok |-> results[i].phase = "done"] :
                     i \in ReportedIndices},
     others |-> {results[i].job : i \in OtherIndices},
     work |-> work]

(* SCHEDULER_OP::start_rpc(): the request file is sent to a scheduler, for *)
(* which any idle process will do.                                         *)
StartRpc(req, no, url) ==
    /\ \E h \in Handlers : cgi[h] = Idle
    /\ LET h == CHOOSE h \in Handlers : cgi[h] = Idle
       IN /\ cgi' = [cgi EXCEPT ![h] = [pc |-> "arrived", req |-> req]]
          /\ conn' = [phase |-> "open", via |-> h, urlIndex |-> url]
    /\ seqno' = no + 1
    /\ UNCHANGED <<hosts, job, events>>

(* scheduler_rpc_poll() and init_op_project(), to report results, to ask   *)
(* for work, or both.  That an aborted task, already acknowledged, is      *)
(* reported again and again until it exits is left out.                    *)
InitOp(work) ==
    /\ Polling /\ conn.phase = "none"
    /\ request' = SchedulerRequest(work)
    /\ \/ \E i \in ReportedIndices : ~results[i].acked
       \/ work /\ request'.seqno < MaxSeqno
    /\ StartRpc(request', request'.seqno, 0)
    /\ EndPass(dirty)
    /\ UNCHANGED <<hostid, results>>

(* The HTTP operation fails.                                               *)
Break ==
    /\ conn.phase = "open"
    /\ conn' = [phase |-> "failed", urlIndex |-> conn.urlIndex]
    /\ Event
    /\ UNCHANGED <<hosts, job, cgi, memory, request, dirty, fileVars>>

(* SCHEDULER_OP::poll() after a failure: the same request to the next URL. *)
NextScheduler ==
    /\ Polling /\ conn.phase = "failed" /\ conn.urlIndex + 1 < NumUrls
    /\ StartRpc(request, seqno, conn.urlIndex + 1)
    /\ EndPass(dirty)
    /\ UNCHANGED <<hostid, results, request>>

(* rpc_failed()                                                            *)
RpcFailed ==
    /\ Polling /\ conn.phase = "failed" /\ conn.urlIndex + 1 = NumUrls
    /\ conn' = NoConn /\ request' = Missing
    /\ EndPass(TRUE)
    /\ UNCHANGED <<hosts, job, cgi, events, memory>>

-----------------------------------------------------------------------------
(* The n-th of a set of numbers.                                           *)
Nth(n, S) == CHOOSE i \in S : Cardinality({k \in S : k <= i}) = n

(* New results come after the present ones, in the order of their names;   *)
(* one that the client has already is ignored (not in AsNew, a mutant).    *)
AsNew(jobs) ==
    [n \in 1..Cardinality(jobs) |-> [job |-> Nth(n, jobs), phase |-> "new", acked |-> FALSE,
                                    unstarted |-> FALSE]]

NewResults(jobs) == AsNew(jobs \ Held)

(* abort_task() or abort_inactive(): it has a task, or has none.  The      *)
(* second, applied to a result with a task, leaves the task alone.         *)
Abort(r) == [r EXCEPT !.phase = IF @ = "running" THEN "aborting"
                                ELSE IF @ = "new" THEN "aborted" ELSE @]

(* What the reply says of a result.                                        *)
Told(r, reply) ==
    LET acked == [r EXCEPT !.acked = @ \/ r.job \in reply.acks]
    IN IF r.job \in reply.aborts \/ (r.job \in reply.unstarted /\ r.unstarted)
       THEN Abort(acked) ELSE acked

(* Mutant of Deletable: a result is deleted without an acknowledgement.    *)
Finished(r) == r.phase \in {"done", "aborted"}

(* garbage_collect_always()                                                *)
Deletable(r) == r.acked /\ r.phase \notin Active
GarbageCollected(rs) ==
    LET kept == {i \in DOMAIN rs : ~Deletable(rs[i])}
    IN [n \in 1..Cardinality(kept) |-> rs[Nth(n, kept)]]

(* handle_scheduler_reply()                                                *)
HandleReply ==
    /\ Polling /\ conn.phase = "replied"
    /\ LET reply == conn.reply
           all == results \o NewResults(reply.jobs)
       IN /\ results' = GarbageCollected([i \in DOMAIN all |-> Told(all[i], reply)])
          /\ IF reply.hostid # 0 THEN hostid' = reply.hostid /\ seqno' = 0
             ELSE UNCHANGED <<hostid, seqno>>
    /\ conn' = NoConn /\ request' = Missing
    /\ EndPass(TRUE)
    /\ UNCHANGED <<hosts, job, cgi, events>>

(* It fails: the reply cannot be parsed, or says that the project is down. *)
ReplyFails ==
    /\ Polling /\ conn.phase = "replied"
    /\ conn' = NoConn /\ request' = Missing /\ Event
    /\ EndPass(TRUE)
    /\ UNCHANGED <<hosts, job, cgi, memory>>

-----------------------------------------------------------------------------
(* schedule_cpus(): make_run_list() notes which results have no task, and  *)
(* then enforce_run_list() starts tasks for some of them.                  *)
ScheduleCpus(chosen) ==
    /\ Polling
    /\ \A i \in chosen : results[i].phase = "new"
    /\ results' = [i \in DOMAIN results |->
                      [results[i] EXCEPT !.phase = IF i \in chosen THEN "running" ELSE @,
                                         !.unstarted = results[i].phase = "new"]]
    /\ results' # results
    /\ dirty' = (dirty \/ chosen # {})
    /\ UNCHANGED <<hostid, seqno, request, fileVars, hostVars>>

(* A pass that gets on with a task: the state becomes dirty.               *)
Advance(i, from, to) ==
    /\ Polling /\ results[i].phase = from
    /\ results' = [results EXCEPT ![i].phase = to]
    /\ dirty' = TRUE
    /\ UNCHANGED <<hostid, seqno, request, fileVars, hostVars>>

FinishTask(i) == Advance(i, "running", "done")
AbortedTaskExits(i) == Advance(i, "aborting", "aborted")

GarbageCollect ==
    /\ Polling
    /\ results' = GarbageCollected(results) /\ results' # results
    /\ UNCHANGED <<hostid, seqno, dirty, request, fileVars, hostVars>>

SaveNow ==
    /\ Polling /\ dirty
    /\ EndPass(TRUE)
    /\ UNCHANGED <<memory, request, hostVars>>

Save ==
    /\ \/ SaveStep(Snapshot) /\ UNCHANGED events
       \/ SaveFails /\ Event
    /\ UNCHANGED <<memory, request, dirty, hosts, job, cgi, conn>>

(* The client dies, or exits as it cannot save its state, and starts       *)
(* again: init() reads a state file and writes one before anything else.   *)
Restart ==
    /\ LET state == Recovered
       IN hostid' = state.hostid /\ seqno' = state.seqno /\ results' = state.results
    /\ conn' = NoConn /\ request' = Missing /\ dirty' = FALSE
    /\ BeginSave
    /\ IF save = "failed" THEN UNCHANGED events ELSE Event
    /\ UNCHANGED <<files, completed, hosts, job, cgi>>

SchedulerOpInit ==
    /\ hostid = 0 /\ seqno = 0 /\ results = <<>>
    /\ request = Missing /\ dirty = FALSE
    /\ FilesInit(Snapshot)
=============================================================================
