---------------------------- MODULE TaskControl ----------------------------
(***************************************************************************)
(* The client's side of a task: one ACTIVE_TASK in one slot                *)
(* (client/app_control.cpp, app_start.cpp, app.cpp, cs_apps.cpp) and what  *)
(* CLIENT_STATE::enforce_run_list() and the suspensions do to it.  The     *)
(* client is one thread; each piece of its loop that looks at the task is  *)
(* an action.                                                              *)
(*                                                                         *)
(* Timeouts have no clock: whatever has a time limit can be found late at  *)
(* any time.  A process that is still at work does reach its elapsed time  *)
(* limit late enough, though.                                              *)
(***************************************************************************)
EXTENDS AppRuntime, SequencesExt

CONSTANTS
    Jobs,       \* one after the other in the slot; each has a segment
    MaxExits    \* premature exits without a checkpoint; 100

ASSUME TaskControlAssumption == Jobs \in Nat /\ Segments = 1..Jobs /\ MaxExits \in Nat

VARIABLES
    task,       \* the ACTIVE_TASK
    jobs        \* how many jobs the slot has had

taskVars == <<task, jobs>>

NoTask == [state |-> "none"]

(* As get_free_slot() or the state file leaves it; the process control     *)
(* queue and pid are set when it is started.                               *)
TaskOf(job) ==
    [state |-> "UNINITIALIZED", segment |-> job, pid |-> 0, queue |-> <<>>,
     blocked |-> FALSE, exits |-> 0, finishSeen |-> FALSE, scheduled |-> FALSE,
     result |-> "downloaded"]

Has(states) == task.state \in states
ProcessExists == Has({"EXECUTING", "SUSPENDED", "ABORT_PENDING", "QUIT_PENDING"})

-----------------------------------------------------------------------------
(* MSG_QUEUE: a message goes to the channel if that is free and nothing is *)
(* queued before it.                                                       *)
GoesDirectly(t) == t.queue = <<>> /\ channel[t.segment] = Empty

(* msg_queue_send()                                                        *)
Send(t, message) ==
    IF GoesDirectly(t)
    THEN /\ task' = [t EXCEPT !.blocked = FALSE]
         /\ channel' = [channel EXCEPT ![t.segment] = message]
    ELSE /\ task' = [t EXCEPT !.queue = Append(@, message), !.blocked = TRUE]
         /\ UNCHANGED channel

(* msg_queue_purge(): does the queue end with this message?                *)
Purges(t, message) == t.queue # <<>> /\ Last(t.queue) = message

(* suspend() and unsuspend(): a message that takes back the last one in    *)
(* the queue replaces it.                                                  *)
Toggle(t, opposite, message) ==
    IF Purges(t, opposite)
    THEN task' = [t EXCEPT !.queue = Front(@)] /\ UNCHANGED channel
    ELSE Send(t, message)

Suspend(t) == Toggle([t EXCEPT !.state = "SUSPENDED"], "resume", "suspend")
Unsuspend(t) == Toggle([t EXCEPT !.state = "EXECUTING"], "suspend", "resume")

(* request_exit()                                                          *)
RequestExit(t) == Send([t EXCEPT !.state = "QUIT_PENDING"], "quit")

(* abort_task(): with request_abort(), or at once if nothing seems to run. *)
AbortTask ==
    LET t == [task EXCEPT !.result = "aborted"]
    IN IF Has({"EXECUTING", "SUSPENDED"})
       THEN Send([t EXCEPT !.state = "ABORT_PENDING"], "abort")
       ELSE task' = [t EXCEPT !.state = "ABORTED"] /\ UNCHANGED channel

(* start(): the segment is the slot's file, which may be there from before.*)
(* Which pid it gets does not matter.                                      *)
Free == {p \in Pids : proc[p] = None}
Start ==
    /\ Free # {}
    /\ LET p == CHOOSE p \in Free : TRUE IN
        /\ proc' = [proc EXCEPT ![p] = Started(task.segment)]
        /\ channel' = [channel EXCEPT ![task.segment] = Empty]
        /\ slot' = [slot EXCEPT !.tempExit = FALSE]
        /\ task' = [task EXCEPT !.state = "EXECUTING", !.pid = p, !.queue = <<>>,
                                !.blocked = FALSE, !.scheduled = TRUE]

(* resume_or_start()                                                       *)
ResumeOrStart ==
    \/ Has({"UNINITIALIZED"}) /\ Start
    \/ Has({"SUSPENDED"}) /\ Unsuspend([task EXCEPT !.scheduled = TRUE]) /\ UNCHANGED <<proc, slot>>

-----------------------------------------------------------------------------
CleanedSlot == [finish |-> FALSE, tempExit |-> FALSE, lock |-> 0]

(* A job to run gets the slot: get_free_slot() cleans it out first.        *)
NewTask ==
    /\ Has({"none"}) /\ jobs < Jobs
    /\ jobs' = jobs + 1
    /\ task' = TaskOf(jobs')
    /\ slot' = CleanedSlot
    /\ UNCHANGED <<proc, channel, events>>

(* enforce_run_list() when the job is not to run any more, and             *)
(* suspend_all(), which leaves scheduler_state alone.                      *)
Unscheduled == [task EXCEPT !.scheduled = FALSE]

Preempt ==
    /\ Event
    /\ \E t \in {task, Unscheduled} :
          \/ Has({"EXECUTING"}) /\ (Suspend(t) \/ RequestExit(t))
          \/ Has({"SUSPENDED"}) /\ RequestExit(t)
    /\ UNCHANGED <<proc, slot, jobs>>

Unschedule ==
    /\ ~Has({"none", "EXECUTING"}) /\ task.scheduled
    /\ task' = Unscheduled
    /\ UNCHANGED <<runtimeVars, jobs>>

(* enforce_run_list() when it is to run.                                   *)
Schedule ==
    /\ ~Has({"none"}) /\ task.result = "downloaded"
    /\ ResumeOrStart
    /\ UNCHANGED <<events, jobs>>

(* unsuspend_all() looks at scheduler_state only.                          *)
UnsuspendAll ==
    /\ ~Has({"none"}) /\ task.scheduled /\ Event
    /\ ResumeOrStart
    /\ UNCHANGED jobs

(* By the user, the project, or for the disk or memory it uses.            *)
Abort ==
    /\ ~Has({"none"}) /\ Event
    /\ AbortTask
    /\ UNCHANGED <<proc, slot, jobs>>

(* garbage_collect(): the result has been reported, and still has a task.  *)
(* With a quit or an abort pending, it is one more Abort.                  *)
AbortReported ==
    /\ Has({"UNINITIALIZED", "EXECUTING", "SUSPENDED"}) /\ task.result # "downloaded"
    /\ AbortTask
    /\ UNCHANGED <<proc, slot, events, jobs>>

-----------------------------------------------------------------------------
(* Mutant of Premature: they are not counted.                              *)
PrematureUncounted == [task EXCEPT !.state = "UNINITIALIZED"]

(* handle_premature_exit(), handle_temporary_exit(): it is to be started   *)
(* again, unless there were too many of these.                             *)
Premature ==
    LET t == [task EXCEPT !.exits = @ + 1]
    IN IF t.exits > MaxExits THEN [t EXCEPT !.state = "ABORTED", !.result = "aborted"]
       ELSE [t EXCEPT !.state = "UNINITIALIZED"]

(* handle_exited_app(): what it makes of the exit status.                  *)
Exited(status) ==
    IF status = "killed" THEN [task EXCEPT !.state = "UNINITIALIZED"]
    ELSE IF slot.tempExit THEN Premature
    ELSE IF status # "zero" THEN [task EXCEPT !.state = "EXITED", !.result = "error"]
    ELSE IF slot.finish THEN [task EXCEPT !.state = "EXITED"]
    ELSE Premature

(* With a request pending, the status does not matter.                     *)
AfterExit(status) ==
    CASE Has({"ABORT_PENDING"}) -> [task EXCEPT !.state = "ABORTED"]
      [] Has({"QUIT_PENDING"}) -> [task EXCEPT !.state = "UNINITIALIZED"]
      [] OTHER -> Exited(status)

(* Mutant of SlotAfter: it is cleaned out whatever has exited.             *)
SlotCleaned(t) == CleanedSlot

(* The slot is cleaned out, lock file and all, unless the task will be     *)
(* started again in it.                                                    *)
SlotAfter(t) == IF t.state = "UNINITIALIZED" THEN slot ELSE CleanedSlot

(* check_app_exited(): waitpid(), and lookup_pid().                        *)
CheckAppExited(p) ==
    /\ proc[p].pc = "exited"
    /\ proc' = [proc EXCEPT ![p] = None]
    /\ IF ~Has({"none"}) /\ task.pid = p
       THEN task' = AfterExit(proc[p].status) /\ slot' = SlotAfter(task')
       ELSE UNCHANGED <<task, slot>>
    /\ UNCHANGED <<channel, events, jobs>>

(* process_control_poll(): a message that is not taken for 180 seconds     *)
(* means a process that hangs, to be killed and restarted.                 *)
MessageTimeout ==
    /\ ProcessExists /\ task.blocked
    /\ Alive(task.pid)
    /\ Kill(task.pid)
    /\ UNCHANGED <<channel, events, taskVars>>

SendQueued ==
    /\ ProcessExists /\ task.queue # <<>> /\ channel[task.segment] = Empty
    /\ channel' = [channel EXCEPT ![task.segment] = Head(task.queue)]
    /\ task' = [task EXCEPT !.queue = Tail(@), !.blocked = FALSE]
    /\ UNCHANGED <<proc, slot, events, jobs>>

(* poll(): ABORT_TIMEOUT and QUIT_TIMEOUT.                                 *)
RequestPending == Has({"ABORT_PENDING", "QUIT_PENDING"})
PendingTimeout ==
    /\ RequestPending
    /\ Alive(task.pid)
    /\ Kill(task.pid)
    /\ UNCHANGED <<channel, events, taskVars>>

(* poll(): every 10 seconds, for a finish file.                            *)
FinishFileFound ==
    /\ ~Has({"none", "UNINITIALIZED"}) /\ ~task.finishSeen /\ slot.finish
    /\ task' = [task EXCEPT !.finishSeen = TRUE]
    /\ UNCHANGED <<runtimeVars, jobs>>

FinishFileTooLong ==
    /\ ~Has({"none", "UNINITIALIZED"}) /\ task.finishSeen
    /\ AbortTask
    /\ UNCHANGED <<proc, slot, events, jobs>>

(* check_rsc_limits_exceeded(), the elapsed time.                          *)
HeldUp(p) == Alive(p) /\ (proc[p].pc \in {"finishing", "finished"} \/ proc[p].frozen)
ElapsedLimit ==
    /\ Has({"EXECUTING"}) /\ HeldUp(task.pid)
    /\ AbortTask
    /\ UNCHANGED <<proc, slot, events, jobs>>

(* get_msgs(): the application has checkpointed.                           *)
Checkpointed ==
    /\ ProcessExists /\ task.exits > 0
    /\ proc[task.pid].pc = "computing"
    /\ task' = [task EXCEPT !.exits = 0]
    /\ UNCHANGED <<runtimeVars, jobs>>

(* handle_finished_apps(), with app_finished().                            *)
HandleFinished ==
    /\ Has({"EXITED", "ABORTED"})
    /\ task' = NoTask
    /\ UNCHANGED <<runtimeVars, jobs>>

(* The client dies and is started again: its processes are nobody's, the   *)
(* task is as the state file says, if its result still is to be run.  The  *)
(* file is written at the end of each pass that changed a result, and the  *)
(* pass that sees a process exited also finishes its task.                 *)
Orphaned(r) == IF r.pc \in {"none", "exited"} THEN None ELSE [r EXCEPT !.orphan = TRUE]
Crash ==
    /\ Event
    /\ proc' = [p \in Pids |-> Orphaned(proc[p])]
    /\ ~Has({"none"})
    /\ task' = IF task.result = "downloaded" /\ ~Has({"EXITED"})
               THEN TaskOf(task.segment) ELSE NoTask
    /\ UNCHANGED <<channel, slot, jobs>>

-----------------------------------------------------------------------------
TaskInit == task = NoTask /\ jobs = 0

(* What the client's loop does sooner or later, and what it may do.        *)
ClientStep ==
    \/ NewTask \/ Schedule
    \/ \E p \in Pids : CheckAppExited(p)
    \/ MessageTimeout \/ SendQueued \/ PendingTimeout
    \/ FinishFileFound \/ FinishFileTooLong \/ ElapsedLimit
    \/ AbortReported \/ HandleFinished

ClientOption ==
    \/ Preempt \/ Unschedule \/ UnsuspendAll \/ Abort \/ Checkpointed \/ Crash
=============================================================================
