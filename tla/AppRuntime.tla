----------------------------- MODULE AppRuntime -----------------------------
(***************************************************************************)
(* The application's side of a task: a process with the runtime system of  *)
(* api/boinc_api.cpp, as it is on Unix.  The worker thread computes, the   *)
(* timer thread listens to the client; a SIGALRM interrupts the worker ten *)
(* times a second, and it is there that it sleeps while it is suspended,   *)
(* and exits if the timer thread wants it to.                              *)
(*                                                                         *)
(* The processes of a slot share its files.  A segment of shared memory is *)
(* a file of the slot too; only its channel for process control is here.   *)
(***************************************************************************)
EXTENDS Naturals, FiniteSets, Sequences

CONSTANTS
    Pids,       \* process identifiers, to be used again
    Segments,   \* incarnations of the shared memory file
    MaxEvents   \* bound on commands to a task and on things that go wrong

ASSUME AppRuntimeAssumption == MaxEvents \in Nat /\ 0 \notin Pids

VARIABLES
    proc,       \* per process: its threads' state
    channel,    \* per segment: process_control_request
    slot,       \* the files boinc_finish_called, boinc_temporary_exit,
                \* and the holder of boinc_lockfile (0: nobody)
    events

runtimeVars == <<proc, channel, slot, events>>

Empty == "empty"
Messages == {"suspend", "resume", "quit", "abort"}

None == [pc |-> "none"]

(* A process that the client has just forked, up to the lock.              *)
Started(segment) ==
    [pc |-> "starting", segment |-> segment, orphan |-> FALSE, frozen |-> FALSE,
     asleep |-> FALSE, timer |-> "off", heard |-> "nothing", inCritical |-> FALSE,
     flags |-> {}, exitFlag |-> "no", status |-> "zero"]

Running == {"computing", "critical", "finishing", "finished"}
Alive(p) == proc[p].pc \in Running \cup {"starting"}
Runs(p) == proc[p].pc \in Running /\ ~proc[p].frozen
Works(p) == Runs(p) /\ ~proc[p].asleep

Event == events < MaxEvents /\ events' = events + 1

-----------------------------------------------------------------------------
(* exit(), or the end of the process by a signal: the lock is released,    *)
(* and the client, if that is still the parent, can get the status.        *)
Ended(p, status) == IF proc[p].orphan THEN None ELSE [pc |-> "exited", status |-> status]
Unlocked(p) == [slot EXCEPT !.lock = IF @ = p THEN 0 ELSE @]

Exit(p, status) ==
    /\ proc' = [proc EXCEPT ![p] = Ended(p, status)]
    /\ slot' = Unlocked(p)

(* boinc_init_options_general() and start_timer_thread().                  *)
Init_(p) ==
    /\ proc[p].pc = "starting" /\ ~proc[p].frozen
    /\ slot.lock = 0
    /\ proc' = [proc EXCEPT ![p].pc = "computing", ![p].timer = "on"]
    /\ slot' = [slot EXCEPT !.lock = p]
    /\ UNCHANGED <<channel, events>>

(* The lock is not released in time: boinc_temporary_exit().               *)
LockBusy(p) ==
    /\ proc[p].pc = "starting" /\ ~proc[p].frozen
    /\ slot.lock # 0
    /\ proc' = [proc EXCEPT ![p] = Ended(p, "zero")]
    /\ slot' = [slot EXCEPT !.tempExit = TRUE]
    /\ UNCHANGED <<channel, events>>

-----------------------------------------------------------------------------
(* The timer thread, in two steps: it takes the message and looks at       *)
(* in_critical_section, and acts on that; the worker may go on meanwhile.  *)
Listens(p) == Runs(p) /\ proc[p].timer = "on" /\ proc[p].heard = "nothing"
              /\ proc[p].pc \in {"computing", "critical"}

Hear(p, what) ==
    proc' = [proc EXCEPT ![p].heard = what, ![p].inCritical = proc[p].pc = "critical",
                         ![p].flags = @ \cup ({what} \cap {"quit", "abort"})]

GetMsg(p) ==
    /\ Listens(p) /\ channel[proc[p].segment] # Empty
    /\ Hear(p, channel[proc[p].segment])
    /\ channel' = [channel EXCEPT ![proc[p].segment] = Empty]
    /\ UNCHANGED <<slot, events>>

(* client_dead(): the process that started this one is gone.               *)
ClientDead(p) ==
    /\ Listens(p) /\ proc[p].orphan
    /\ Hear(p, "death")
    /\ UNCHANGED <<channel, slot, events>>

(* Mutant of Resumed: a suspension that is only requested stays.           *)
ResumedNow(flags) == flags \ {"suspended"}

(* A resume takes back what a suspend has done, or has asked for.          *)
Resumed(flags) ==
    flags \ (IF "suspended" \in flags THEN {"suspended"} ELSE {"suspend_request"})

(* The flags of boinc_status, and suspend_request.                         *)
FlagsAfter(r) ==
    CASE r.heard = "suspend" /\ r.inCritical -> r.flags \cup {"suspend_request"}
      [] r.heard = "suspend" /\ ~r.inCritical -> (r.flags \ {"suspend_request"}) \cup {"suspended"}
      [] r.heard = "resume" -> Resumed(r.flags)
      [] r.heard = "death" /\ r.inCritical -> r.flags \cup {"no_heartbeat"}
      [] OTHER -> r.flags

(* exit_from_timer_thread(): the worker is to exit, and this thread ends.  *)
TimerExits(r) ==
    ~r.inCritical /\ (r.heard = "death" \/ r.flags \cap {"quit", "abort"} # {})
ExitStatus(r) == IF r.heard # "death" /\ "quit" \notin r.flags THEN "aborted" ELSE "zero"

Act(p) ==
    /\ Runs(p) /\ proc[p].heard # "nothing"
    /\ proc' = [proc EXCEPT ![p].flags = FlagsAfter(proc[p]), ![p].heard = "nothing",
                            ![p].inCritical = FALSE,
                            ![p].timer = IF TimerExits(proc[p]) THEN "off" ELSE @,
                            ![p].exitFlag = IF TimerExits(proc[p]) THEN ExitStatus(proc[p]) ELSE @]
    /\ UNCHANGED <<channel, slot, events>>

-----------------------------------------------------------------------------
(* worker_signal_handler(): the exit flag is looked at before the worker   *)
(* sleeps, not while it does.                                              *)
AlarmExit(p) ==
    /\ Works(p) /\ proc[p].exitFlag # "no"
    /\ Exit(p, proc[p].exitFlag)
    /\ UNCHANGED <<channel, events>>

AlarmSleep(p) ==
    /\ Works(p) /\ proc[p].exitFlag = "no"
    /\ "suspended" \in proc[p].flags /\ proc[p].pc # "critical"
    /\ proc' = [proc EXCEPT ![p].asleep = TRUE]
    /\ UNCHANGED <<channel, slot, events>>

Wake(p) ==
    /\ Runs(p) /\ proc[p].asleep /\ "suspended" \notin proc[p].flags
    /\ proc' = [proc EXCEPT ![p].asleep = FALSE]
    /\ UNCHANGED <<channel, slot, events>>

(* boinc_time_to_checkpoint(), boinc_begin_critical_section()              *)
BeginCritical(p) ==
    /\ Works(p) /\ proc[p].pc = "computing" /\ Event
    /\ proc' = [proc EXCEPT ![p].pc = "critical"]
    /\ UNCHANGED <<channel, slot>>

(* boinc_end_critical_section(): what came in the meantime is done now.    *)
EndCriticalExit(p) ==
    /\ Works(p) /\ proc[p].pc = "critical"
    /\ proc[p].flags \cap {"no_heartbeat", "quit", "abort"} # {}
    /\ Exit(p, IF proc[p].flags \cap {"no_heartbeat", "quit"} # {} THEN "zero" ELSE "aborted")
    /\ UNCHANGED <<channel, events>>

(* The mutex is the timer thread's until it has acted on a message.        *)
EndCritical(p) ==
    /\ Works(p) /\ proc[p].pc = "critical"
    /\ proc[p].flags \cap {"no_heartbeat", "quit", "abort"} = {}
    /\ proc[p].heard \in {"nothing", "death"}
    /\ LET suspend == "suspend_request" \in proc[p].flags
       IN proc' = [proc EXCEPT ![p].pc = "computing", ![p].asleep = suspend,
                               ![p].flags = IF suspend THEN (@ \ {"suspend_request"}) \cup {"suspended"}
                                            ELSE @]
    /\ UNCHANGED <<channel, slot, events>>

(* boinc_finish(), in steps: the timer thread is disabled; the file is     *)
(* written; boinc_exit().                                                  *)
Finish(p) ==
    /\ Works(p) /\ proc[p].pc = "computing"
    /\ proc' = [proc EXCEPT ![p].pc = "finishing"]
    /\ UNCHANGED <<channel, slot, events>>

WriteFinishFile(p) ==
    /\ Works(p) /\ proc[p].pc = "finishing"
    /\ proc' = [proc EXCEPT ![p].pc = "finished"]
    /\ slot' = [slot EXCEPT !.finish = TRUE]
    /\ UNCHANGED <<channel, events>>

FinishExit(p) ==
    /\ Works(p) /\ proc[p].pc = "finished"
    /\ Exit(p, proc[p].status)
    /\ UNCHANGED <<channel, events>>

(* The application asks for a pause: boinc_temporary_exit().               *)
TemporaryExit(p) ==
    /\ Works(p) /\ proc[p].pc = "computing" /\ Event
    /\ proc' = [proc EXCEPT ![p] = Ended(p, "zero")]
    /\ slot' = [Unlocked(p) EXCEPT !.tempExit = TRUE]
    /\ UNCHANGED channel

(* It calls boinc_finish() for an error, crashes, or exits without either. *)
Fails(p) ==
    /\ Works(p) /\ proc[p].pc = "computing" /\ Event
    /\ \/ proc' = [proc EXCEPT ![p].pc = "finishing", ![p].status = "error"] /\ slot' = slot
       \/ \E status \in {"error", "zero"} : Exit(p, status)
    /\ UNCHANGED channel

(* SIGKILL, from anyone.                                                   *)
Kill(p) ==
    IF Alive(p) THEN Exit(p, "killed") ELSE UNCHANGED <<proc, slot>>

(* Something outside stops the process, or kills it.                       *)
Freeze(p) ==
    /\ Alive(p) /\ ~proc[p].frozen /\ Event
    /\ proc' = [proc EXCEPT ![p].frozen = TRUE]
    /\ UNCHANGED <<channel, slot>>

KilledOutside(p) == Alive(p) /\ Event /\ Kill(p) /\ UNCHANGED channel

-----------------------------------------------------------------------------
(* What the two threads of a process do by themselves, and what else may   *)
(* happen.                                                                 *)
TimerThread(p) == GetMsg(p) \/ ClientDead(p) \/ Act(p)

WorkerThread(p) ==
    \/ Init_(p) \/ LockBusy(p)
    \/ AlarmExit(p) \/ AlarmSleep(p) \/ Wake(p)
    \/ EndCriticalExit(p) \/ EndCritical(p)
    \/ Finish(p) \/ WriteFinishFile(p) \/ FinishExit(p)

ProcessOption(p) ==
    BeginCritical(p) \/ TemporaryExit(p) \/ Fails(p) \/ Freeze(p) \/ KilledOutside(p)

RuntimeInit ==
    /\ proc = [p \in Pids |-> None]
    /\ channel = [s \in Segments |-> Empty]
    /\ slot = [finish |-> FALSE, tempExit |-> FALSE, lock |-> 0]
    /\ events = 0
=============================================================================
