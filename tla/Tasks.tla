------------------------------- MODULE Tasks -------------------------------
(***************************************************************************)
(* A task of the client, TaskControl, and the processes that compute it,   *)
(* AppRuntime.                                                             *)
(***************************************************************************)
EXTENDS TaskControl

vars == <<runtimeVars, taskVars>>

Init == RuntimeInit /\ TaskInit

Process(p) ==
    /\ TimerThread(p) \/ WorkerThread(p) \/ ProcessOption(p)
    /\ UNCHANGED taskVars

Next == ClientStep \/ ClientOption \/ \E p \in Pids : Process(p)

Spec == Init /\ [][Next]_vars

(* The client's loop goes on, and so do the threads of a process that      *)
(* nothing holds up.  They are steps of threads that sleep for a fraction  *)
(* of a second between them; an application comes to its end.              *)
Fairness ==
    /\ WF_vars(ClientStep)
    /\ \A p \in Pids :
          /\ WF_vars(TimerThread(p) /\ UNCHANGED taskVars)
          /\ WF_vars(WorkerThread(p) /\ UNCHANGED taskVars)

FairSpec == Spec /\ Fairness

-----------------------------------------------------------------------------
(* Processes and tasks have the fields the code gives them, a queue holds  *)
(* what the client sends, and a task that has a process has the one it     *)
(* started.                                                                *)
TypeOK ==
    /\ \A p \in Pids :
          \/ proc[p] = None
          \/ proc[p].pc = "exited" /\ proc[p].status \in {"zero", "error", "aborted", "killed"}
          \/ /\ Alive(p) /\ proc[p].segment \in Segments
             /\ proc[p].timer \in {"on", "off"}
             /\ proc[p].heard \in Messages \cup {"nothing", "death"}
             /\ proc[p].flags \subseteq {"suspended", "suspend_request", "quit", "abort", "no_heartbeat"}
             /\ proc[p].exitFlag \in {"no", "zero", "aborted"}
    /\ channel \in [Segments -> Messages \cup {Empty}]
    /\ slot.lock \in Pids \cup {0}
    /\ ~Has({"none"}) =>
          /\ task.queue \in Seq(Messages) /\ task.exits \in 0..(MaxExits + 1)
          /\ ProcessExists => proc[task.pid] # None

(* api/boinc_api.cpp:650, "make sure we're the only app running in this    *)
(* slot": also with instances left from before the client died, and after  *)
(* exits of whatever kind, at most one process computes the slot's job,    *)
(* writes its files and can finish it.  Once the job is over, its slot is  *)
(* cleaned out, lock file and all, and what is left of it is on its own.   *)
Over == Has({"none", "EXITED", "ABORTED"})

OneComputes ==
    Over \/ Cardinality({p \in Pids : proc[p].pc \in Running /\ proc[p].segment = jobs}) <= 1

(* Messages that have not been acted on, the oldest first.                 *)
Pending(p) ==
    (IF proc[p].heard = "nothing" THEN <<>> ELSE <<proc[p].heard>>)
    \o (IF channel[proc[p].segment] = Empty THEN <<>> ELSE <<channel[proc[p].segment]>>)
    \o task.queue

SuspendsAtLast(p) ==
    IF Pending(p) # <<>> THEN Last(Pending(p)) = "suspend"
    ELSE proc[p].flags \cap {"suspended", "suspend_request"} # {}

(* Only processes that this client has started run.                        *)
Alone == \A p \in Pids : Alive(p) => ~proc[p].orphan

Agrees ==
    Has({"EXECUTING", "SUSPENDED"}) /\ Alive(task.pid) =>
        (Has({"SUSPENDED"}) <=> SuspendsAtLast(task.pid))

(* Whatever way suspensions and resumptions cross, in the queue, in the    *)
(* channel, in the application's timer thread and around its critical      *)
(* sections, the last word that it has or will get is what the client      *)
(* takes it for, as long as no one else reads the channel.                 *)
LastMessageAgrees == []Alone => []Agrees

(* A job that has got a slot comes to an end, by its own doing or the      *)
(* client's: nothing that exits, hangs, sleeps or is lost keeps it, and no *)
(* quit or abort stays pending.                                            *)
JobEnds == ~Has({"none"}) ~> Has({"none"})

-----------------------------------------------------------------------------
(* api/boinc_api.cpp:1308-1309: when the client has died, "we need to die  *)
(* too (unless we're in a critical section)".                              *)
OrphanExits ==
    \A p \in Pids : (proc[p].pc = "computing" /\ proc[p].orphan) ~> (~Alive(p) \/ proc[p].frozen)
=============================================================================
