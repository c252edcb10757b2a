----------------------------- MODULE Reporting -----------------------------
(***************************************************************************)
(* One computer and the scheduler of one project: the client of            *)
(* SchedulerOp, which may die at any time, and the CGI processes of        *)
(* HostRpc, joined by connections that may break; and what the two promise *)
(* to each other.                                                          *)
(***************************************************************************)
EXTENDS SchedulerOp

vars == <<memory, request, dirty, fileVars, hostVars>>

Init == HostRpcInit /\ SchedulerOpInit

(* One pass of the client, as far as it is sure to come to it.             *)
ClientStep ==
    \/ InitOp(FALSE) \/ NextScheduler \/ RpcFailed \/ HandleReply
    \/ GarbageCollect \/ SaveNow
    \/ \E chosen \in SUBSET DOMAIN results : chosen # {} /\ ScheduleCpus(chosen)
    \/ \E i \in DOMAIN results : FinishTask(i) \/ AbortedTaskExits(i)

(* A process and the steps of a save have no variable in common: it is     *)
(* enough to let the processes run before and after a save.                *)
CgiStep(h) == Polling /\ Handle(h) /\ UNCHANGED <<memory, request, dirty, fileVars>>

Next ==
    \/ ClientStep
    \/ ScheduleCpus({}) \/ InitOp(TRUE) \/ ReplyFails \/ Break
    \/ Save \/ Restart
    \/ \E h \in Handlers : CgiStep(h)
    \/ \E h \in Handlers : Polling /\ Vanish(h) /\ UNCHANGED <<memory, request, dirty, fileVars>>

Spec == Init /\ [][Next]_vars

(* The client goes on as long as it can, and starts again when it exits    *)
(* for a failed save; some process that has a request works on it.         *)
Fairness ==
    /\ WF_vars(ClientStep \/ Save \/ (save = "failed" /\ Restart))
    /\ WF_vars(\E h \in Handlers : CgiStep(h))

FairSpec == Spec /\ Fairness

-----------------------------------------------------------------------------
(* Types.                                                                  *)
Requests == [hostid : Nat, seqno : Nat, reports : SUBSET [job : Jobs, ok : BOOLEAN],
             others : SUBSET Jobs, work : BOOLEAN]
Replies == [hostid : 0..MaxHosts, jobs : SUBSET Jobs, acks : SUBSET Jobs,
            aborts : SUBSET Jobs, unstarted : SUBSET Jobs]
Phases == {"new", "running"} \cup Ready
States(phases) == [hostid : 0..MaxHosts, seqno : Nat,
                   results : Seq([job : Jobs, phase : phases, acked : BOOLEAN,
                                   unstarted : BOOLEAN])]

(* What stands for no file, or for a part of one, is not a state.          *)
ASSUME ReportingAssumption == Missing \notin States(Phases) /\ Torn \notin States(Phases)

TypeOK ==
    /\ [hostid |-> hostid, seqno |-> seqno, results |-> results] \in States(Phases)
    /\ Cardinality(Held) = Len(results)
    /\ {completed, name, next, prev} \subseteq States(Phases \ {"aborting"}) \cup {Missing, Torn}
    /\ save \in SavePhases \cup {"no", "failed"} /\ attempt \in 1..MaxAttempts
    /\ hosts \in Seq([seqno : Nat, cpid : BOOLEAN]) /\ Len(hosts) <= MaxHosts
    /\ hostid \in Ids \cup {0}
    /\ job \in [Jobs -> [state : {"UNSENT", "IN_PROGRESS", "SUCCESS", "CLIENT_ERROR",
                                  "NO_REPLY", "CLIENT_DETACHED"}, host : Ids \cup {0}]]
    /\ \A h \in Handlers : cgi[h] = Idle \/ cgi[h].req \in Requests
    /\ conn.phase \in {"none", "open", "failed", "replied"}
    /\ conn.phase = "replied" => conn.reply \in Replies
    /\ request \in Requests \cup {Missing}
    /\ dirty \in BOOLEAN
    /\ events \in 0..MaxEvents

(* Whenever the client dies, and however often, and whichever step of a    *)
(* save has failed before, a restart finds the state that was last saved   *)
(* or the one that was being saved: not an older one, no torn one, and not *)
(* none (the order of write_state_file() and of parse_state_file()).       *)
SavedStateIsCurrent == Recovered \in {completed, Snapshot}

(* The process that serves the request for which the client waits.         *)
Awaited(h) == conn.phase = "open" /\ conn.via = h

(* A computer is never taken for another one with a copy of its state file *)
(* because it died, or retried, but the sequence number in a request that  *)
(* it waits for is always good (rpc_seqno, authenticate_user()).           *)
HostNotMistaken ==
    \A h \in Handlers : Awaited(h) /\ cgi[h].pc = "authenticated" /\ cgi[h].req.hostid # 0
        => cgi[h].tell = 0

(* The scheduler gives up a result (as detached, or as lost) only if the   *)
(* client does not work on it, unless it serves a request for which the    *)
(* client no longer waits.                                                 *)
Working(j) == \E i \in DOMAIN results : results[i].job = j /\ results[i].phase \notin Ready
LiveJobsNotGivenUp ==
    [][\A h \in Handlers, j \in Jobs :
          (Awaited(h) /\ CgiStep(h) /\ job[j].state = "IN_PROGRESS"
              /\ job'[j].state \in {"CLIENT_DETACHED", "NO_REPLY"})
          => ~Working(j)]_vars

(* A finished result is dropped by the client only when the scheduler has  *)
(* recorded its success, or had given it up for detached: not for a reply  *)
(* that does not acknowledge it, nor in a crash.                           *)
Done(j) == \E i \in DOMAIN results : results[i].job = j /\ results[i].phase = "done"
FinishedWorkIsRecorded ==
    [][\A j \in Jobs : Done(j) /\ j \notin Held'
          => job[j].state \in {"SUCCESS", "CLIENT_DETACHED"}]_vars

(* The client aborts a result for the scheduler only if that does not wait *)
(* for it any more.                                                        *)
AbortedWorkIsUnwanted ==
    [][\A j \in Jobs : Working(j) /\ j \in Held' /\ ~Working(j)' /\ ~Done(j)'
          => job[j].state # "IN_PROGRESS"]_vars

(* A finished result is reported and acknowledged in the end, once no more *)
(* connections break and the client stays alive, whatever happened before. *)
ReportedInTheEnd == \A j \in Jobs : Done(j) ~> ~Done(j)

(* handle_request.cpp: "if timed out, abort if not started": the client    *)
(* does not do so with one that it has started.                            *)
StartedTaskGoesOn ==
    [][\A i \in DOMAIN results :
          HandleReply /\ results[i].phase = "running" /\ results[i].job \notin conn.reply.aborts
              => Working(results[i].job)']_vars

(* sched_result.cpp: "result is late in arriving, but keep it anyhow", of  *)
(* a result whose outcome was CLIENT_DETACHED.                             *)
DetachedResultIsKept ==
    [][\A j \in Jobs : Done(j) /\ j \notin Held' => job[j].state = "SUCCESS"]_vars
=============================================================================
