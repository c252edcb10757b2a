---------------------------- MODULE TasksProofs ----------------------------
(***************************************************************************)
(* Proofs about Tasks, for any number of processes, jobs and things that   *)
(* go wrong: types, who computes in a slot, and what the process is told   *)
(* last, to suspend or to resume.                                          *)
(***************************************************************************)
EXTENDS Tasks, FiniteSetTheorems, TLAPS

-----------------------------------------------------------------------------
(* Types.                                                                  *)
Flags == {"suspended", "suspend_request", "quit", "abort", "no_heartbeat"}
LiveProcesses ==
    [pc : Running \cup {"starting"}, segment : Segments, orphan : BOOLEAN, frozen : BOOLEAN,
     asleep : BOOLEAN, timer : {"on", "off"}, heard : Messages \cup {"nothing", "death"},
     inCritical : BOOLEAN, flags : SUBSET Flags, exitFlag : {"no", "zero", "aborted"},
     status : {"zero", "error"}]
Statuses == {"zero", "error", "aborted", "killed"}
ExitedProcesses == [pc : {"exited"}, status : Statuses]
Processes == {None} \cup LiveProcesses \cup ExitedProcesses

TaskStates == {"UNINITIALIZED", "EXECUTING", "SUSPENDED", "ABORT_PENDING", "QUIT_PENDING",
               "EXITED", "ABORTED"}
ActiveTasks ==
    [state : TaskStates, segment : Segments, pid : Pids \cup {0}, queue : Seq(Messages),
     blocked : BOOLEAN, exits : 0..(MaxExits + 1), finishSeen : BOOLEAN, scheduled : BOOLEAN,
     result : {"downloaded", "aborted", "error"}]

RuntimeTypes ==
    /\ proc \in [Pids -> Processes]
    /\ channel \in [Segments -> Messages \cup {Empty}]
    /\ slot \in [finish : BOOLEAN, tempExit : BOOLEAN, lock : Pids \cup {0}]

(* The process of a task is there, and the client's own.                   *)
TaskTypes ==
    /\ jobs \in 0..Jobs
    /\ task # NoTask =>
          /\ task \in ActiveTasks /\ task.segment = jobs
          /\ ProcessExists => task.pid # 0 /\ proc[task.pid] # None
          /\ task.pid # 0 /\ Alive(task.pid) => ~proc[task.pid].orphan
          /\ task.exits > MaxExits =>
                Has({"ABORTED"}) /\ (task.pid # 0 => proc[task.pid] = None)
          /\ Has({"ABORT_PENDING", "ABORTED"}) => task.result # "downloaded"

(* A job's processes have its segment, and there is none yet for a job to  *)
(* come.                                                                   *)
SegmentsPast == \A p \in Pids : Alive(p) => proc[p].segment \in 1..jobs

(* The slot is cleaned out only when the last process of the task is gone, *)
(* and then the task is not started again.                                 *)
Guarded == /\ task # NoTask
           /\ Has({"EXITED", "ABORTED"}) => task.pid # 0 /\ proc[task.pid] # None
Computes(p) == proc[p].pc \in Running /\ proc[p].segment = jobs
LockHeld == Guarded => \A p \in Pids : Computes(p) => slot.lock = p

TasksInv == RuntimeTypes /\ TaskTypes /\ SegmentsPast /\ LockHeld

-----------------------------------------------------------------------------
(* Processes.                                                              *)

LEMMA ProcessCases ==
    ASSUME RuntimeTypes, NEW p \in Pids
    PROVE  /\ proc[p] \in Processes
           /\ Alive(p) <=> proc[p] \in LiveProcesses
           /\ Alive(p) => proc[p] # None /\ proc[p].pc # "exited"
           /\ proc[p].pc = "exited" => proc[p] \in ExitedProcesses
           /\ ~Alive(p) => proc[p] = None \/ proc[p] \in ExitedProcesses
BY DEF RuntimeTypes, Processes, LiveProcesses, ExitedProcesses, None, Alive, Running

LEMMA TaskCases ==
    ASSUME TaskTypes
    PROVE  /\ task # NoTask <=> ~Has({"none"})
           /\ \A S : Has(S) /\ "none" \notin S => task # NoTask
           /\ task # NoTask => task \in ActiveTasks
BY DEF TaskTypes, NoTask, Has, ActiveTasks, TaskStates

(* A live process goes on, and does not yet begin to compute.              *)
LEMMA ProcessGoesOn ==
    ASSUME TasksInv, NEW p \in Pids, Alive(p), NEW r \in LiveProcesses,
           r.segment = proc[p].segment, r.orphan = proc[p].orphan,
           r.pc \in Running => proc[p].pc \in Running,
           proc' = [proc EXCEPT ![p] = r],
           channel' \in [Segments -> Messages \cup {Empty}],
           slot' \in [finish : BOOLEAN, tempExit : BOOLEAN, lock : Pids \cup {0}],
           slot'.lock = slot.lock, UNCHANGED taskVars
    PROVE  TasksInv'
<1>1. /\ proc \in [Pids -> Processes] /\ UNCHANGED <<task, jobs>>
      /\ RuntimeTypes /\ TaskTypes /\ SegmentsPast /\ LockHeld
  BY DEF TasksInv, RuntimeTypes, taskVars
<1>2. \A q \in Pids : proc'[q] = IF q = p THEN r ELSE proc[q]
  BY <1>1
<1>3. proc[p] \in LiveProcesses /\ proc[p] # None /\ r # None
  BY <1>1, ProcessCases DEF LiveProcesses, None, Running
<1>4. RuntimeTypes'
  BY <1>1, <1>2 DEF RuntimeTypes, Processes
<1>5. \A q \in Pids : /\ (proc'[q] = None) <=> (proc[q] = None)
                      /\ Alive(q)' <=> Alive(q)
                      /\ Alive(q) => /\ proc'[q].segment = proc[q].segment
                                     /\ proc'[q].orphan = proc[q].orphan
                      /\ Computes(q)' => Computes(q)
  BY <1>1, <1>2, <1>3 DEF Alive, LiveProcesses, Computes
<1>6. TaskTypes'
  <2>1. task # NoTask /\ task.pid # 0 => task.pid \in Pids
    BY <1>1 DEF TaskTypes, ActiveTasks
  <2>2. ProcessExists' <=> ProcessExists
    BY <1>1 DEF ProcessExists, Has
  <2>3. task # NoTask => /\ ProcessExists => task.pid # 0 /\ proc'[task.pid] # None
                         /\ task.pid # 0 /\ Alive(task.pid)' => ~proc'[task.pid].orphan
                         /\ task.exits > MaxExits =>
                               Has({"ABORTED"}) /\ (task.pid # 0 => proc'[task.pid] = None)
    <3> SUFFICES ASSUME task # NoTask
                 PROVE  /\ ProcessExists => task.pid # 0 /\ proc'[task.pid] # None
                        /\ task.pid # 0 /\ Alive(task.pid)' => ~proc'[task.pid].orphan
                        /\ task.exits > MaxExits =>
                              Has({"ABORTED"}) /\ (task.pid # 0 => proc'[task.pid] = None)
      OBVIOUS
    <3>1. /\ ProcessExists => task.pid # 0 /\ proc'[task.pid] # None
          /\ task.exits > MaxExits =>
                Has({"ABORTED"}) /\ (task.pid # 0 => proc'[task.pid] = None)
      BY <1>1, <1>5, <2>1 DEF TaskTypes
    <3>2. ASSUME NEW q \in Pids, q = task.pid, Alive(q)' PROVE ~proc'[q].orphan
      BY <1>1, <1>5, <3>2, AppRuntimeAssumption DEF TaskTypes
    <3> QED
      BY <1>1, <2>1, <3>1, <3>2
  <2> QED
    BY <1>1, <2>2, <2>3 DEF TaskTypes, Has
<1>7. SegmentsPast'
  BY <1>1, <1>5 DEF SegmentsPast
<1>8. LockHeld'
  <2>1. Guarded' => Guarded
    <3>1. task # NoTask /\ task.pid # 0 => task.pid \in Pids
      BY <1>1 DEF TaskTypes, ActiveTasks
    <3> QED
      BY <1>1, <1>5, <3>1 DEF Guarded, Has
  <2> QED
    BY <1>1, <1>5, <2>1 DEF LockHeld
<1> QED
  BY <1>4, <1>6, <1>7, <1>8 DEF TasksInv

(* It gets the lock: no other process computes the job.                    *)
LEMMA ProcessGetsLock ==
    ASSUME TasksInv, NEW p \in Pids, Init_(p), UNCHANGED taskVars
    PROVE  TasksInv'
<1>1. /\ proc \in [Pids -> Processes] /\ UNCHANGED <<task, jobs, channel>>
      /\ slot \in [finish : BOOLEAN, tempExit : BOOLEAN, lock : Pids \cup {0}]
      /\ RuntimeTypes /\ TaskTypes /\ SegmentsPast /\ LockHeld
  BY DEF TasksInv, RuntimeTypes, taskVars, Init_
<1> DEFINE r == [proc[p] EXCEPT !.pc = "computing", !.timer = "on"]
<1>2. /\ Alive(p) /\ proc' = [proc EXCEPT ![p] = r]
      /\ slot.lock = 0 /\ slot' = [slot EXCEPT !.lock = p]
  <2>1. proc' = [proc EXCEPT ![p].pc = "computing", ![p].timer = "on"]
    BY DEF Init_
  <2> QED
    BY <1>1, <2>1 DEF Init_, Alive
<1>3. proc[p] \in LiveProcesses
  BY <1>1, <1>2, ProcessCases
<1>4. r \in LiveProcesses /\ r.segment = proc[p].segment /\ r.orphan = proc[p].orphan
  BY <1>3 DEF LiveProcesses, Running
<1> HIDE DEF r
<1>5. \A q \in Pids : proc'[q] = IF q = p THEN r ELSE proc[q]
  BY <1>1, <1>2
<1>6. RuntimeTypes'
  BY <1>1, <1>2, <1>4 DEF RuntimeTypes, Processes
<1>7. r # None /\ proc[p] # None
  BY <1>3, <1>4 DEF LiveProcesses, None, Running
<1>8. \A q \in Pids : /\ (proc'[q] = None) <=> (proc[q] = None)
                      /\ Alive(q)' <=> Alive(q)
                      /\ Alive(q) => /\ proc'[q].segment = proc[q].segment
                                     /\ proc'[q].orphan = proc[q].orphan
                      /\ q # p => (Computes(q)' <=> Computes(q))
  BY <1>1, <1>2, <1>3, <1>4, <1>5, <1>7 DEF Alive, LiveProcesses, Computes
<1>9. task # NoTask /\ task.pid # 0 => task.pid \in Pids
  BY <1>1 DEF TaskTypes, ActiveTasks
<1>10. TaskTypes'
  <2>1. task # NoTask =>
           /\ ProcessExists => task.pid # 0 /\ proc'[task.pid] # None
           /\ task.exits > MaxExits =>
                 Has({"ABORTED"}) /\ (task.pid # 0 => proc'[task.pid] = None)
    BY <1>1, <1>8, <1>9 DEF TaskTypes
  <2>2. ASSUME task # NoTask, NEW q \in Pids, q = task.pid, Alive(q)' PROVE ~proc'[q].orphan
    BY <1>1, <1>8, <2>2, AppRuntimeAssumption DEF TaskTypes
  <2>3. task # NoTask /\ task.pid # 0 /\ Alive(task.pid)' => ~proc'[task.pid].orphan
    BY <1>1, <1>9, <2>2
  <2> QED
    BY <1>1, <2>1, <2>3 DEF TaskTypes, Has, ProcessExists
<1>11. SegmentsPast'
  BY <1>1, <1>8 DEF SegmentsPast
<1>12. LockHeld'
  <2>1. Guarded' => Guarded
    BY <1>1, <1>8, <1>9 DEF Guarded, Has
  <2>2. Guarded => \A q \in Pids : ~Computes(q)
    BY <1>1, <1>2, AppRuntimeAssumption DEF LockHeld
  <2>3. slot'.lock = p
    BY <1>1, <1>2
  <2> QED
    BY <1>8, <2>1, <2>2, <2>3 DEF LockHeld
<1> QED
  BY <1>6, <1>10, <1>11, <1>12 DEF TasksInv

(* A process comes to its end, by itself or by a signal.                   *)
LEMMA ProcessEnds ==
    ASSUME TasksInv, NEW p \in Pids, Alive(p), NEW status \in Statuses,
           proc' = [proc EXCEPT ![p] = Ended(p, status)],
           slot' \in [finish : BOOLEAN, tempExit : BOOLEAN, lock : Pids \cup {0}],
           slot.lock # p => slot'.lock = slot.lock,
           UNCHANGED <<channel, taskVars>>
    PROVE  TasksInv'
<1>1. /\ proc \in [Pids -> Processes] /\ UNCHANGED <<task, jobs>>
      /\ RuntimeTypes /\ TaskTypes /\ SegmentsPast /\ LockHeld
  BY DEF TasksInv, RuntimeTypes, taskVars
<1>2. /\ Ended(p, status) \in {None} \cup ExitedProcesses
      /\ ~proc[p].orphan => Ended(p, status) # None
  BY DEF Ended, ExitedProcesses, None, Statuses
<1>3. \A q \in Pids : proc'[q] = IF q = p THEN Ended(p, status) ELSE proc[q]
  BY <1>1
<1>4. proc[p] \in LiveProcesses /\ proc[p] # None
  BY <1>1, ProcessCases DEF LiveProcesses, None, Running
<1>5. RuntimeTypes'
  BY <1>1, <1>2, <1>3 DEF RuntimeTypes, Processes
<1>6. \A q \in Pids :
         /\ q # p => /\ proc'[q] = proc[q]
                     /\ Alive(q)' <=> Alive(q)
                     /\ Computes(q)' <=> Computes(q)
         /\ ~Alive(p)' /\ ~Computes(p)'
  BY <1>1, <1>2, <1>3 DEF Alive, Computes, None, ExitedProcesses, Running
<1>7. task # NoTask /\ task.pid # 0 => task.pid \in Pids
  BY <1>1 DEF TaskTypes, ActiveTasks
<1>8. task # NoTask /\ task.pid = p => ~proc[p].orphan /\ proc'[p] # None
  BY <1>1, <1>2, <1>3, AppRuntimeAssumption DEF TaskTypes
<1>9. TaskTypes'
  <2>1. task # NoTask =>
           /\ ProcessExists => task.pid # 0 /\ proc'[task.pid] # None
           /\ task.exits > MaxExits =>
                 Has({"ABORTED"}) /\ (task.pid # 0 => proc'[task.pid] = None)
    BY <1>1, <1>4, <1>6, <1>7, <1>8 DEF TaskTypes
  <2>2. ASSUME task # NoTask, NEW q \in Pids, q = task.pid, Alive(q)' PROVE ~proc'[q].orphan
    BY <1>1, <1>6, <2>2, AppRuntimeAssumption DEF TaskTypes
  <2>3. task # NoTask /\ task.pid # 0 /\ Alive(task.pid)' => ~proc'[task.pid].orphan
    BY <1>1, <1>7, <2>2
  <2> QED
    BY <1>1, <2>1, <2>3 DEF TaskTypes, Has, ProcessExists
<1>10. SegmentsPast'
  BY <1>1, <1>6 DEF SegmentsPast
<1>11. LockHeld'
  <2>1. Guarded' => Guarded
    BY <1>1, <1>4, <1>6, <1>7 DEF Guarded, Has
  <2> QED
    BY <1>1, <1>6, <2>1 DEF LockHeld
<1> QED
  BY <1>5, <1>9, <1>10, <1>11 DEF TasksInv

LEMMA UnlockedTypes ==
    ASSUME RuntimeTypes, NEW p \in Pids
    PROVE  /\ Unlocked(p) \in [finish : BOOLEAN, tempExit : BOOLEAN, lock : Pids \cup {0}]
           /\ slot.lock # p => Unlocked(p).lock = slot.lock
           /\ [Unlocked(p) EXCEPT !.tempExit = TRUE]
                 \in [finish : BOOLEAN, tempExit : BOOLEAN, lock : Pids \cup {0}]
           /\ slot.lock # p => [Unlocked(p) EXCEPT !.tempExit = TRUE].lock = slot.lock
BY DEF RuntimeTypes, Unlocked

LEMMA ExitKeeps ==
    ASSUME TasksInv, NEW p \in Pids, Alive(p), NEW status \in Statuses, Exit(p, status),
           UNCHANGED <<channel, taskVars>>
    PROVE  TasksInv'
<1>1. RuntimeTypes
  BY DEF TasksInv
<1>2. proc' = [proc EXCEPT ![p] = Ended(p, status)] /\ slot' = Unlocked(p)
  BY DEF Exit
<1> QED
  BY <1>1, <1>2, UnlockedTypes, ProcessEnds

LEMMA FlagsTypes ==
    ASSUME NEW r \in LiveProcesses
    PROVE  FlagsAfter(r) \in SUBSET Flags /\ ExitStatus(r) \in {"zero", "aborted"}
<1>1. r.flags \in SUBSET Flags
  BY DEF LiveProcesses
<1>2. /\ r.flags \cup {"suspend_request"} \in SUBSET Flags
      /\ (r.flags \ {"suspend_request"}) \cup {"suspended"} \in SUBSET Flags
      /\ r.flags \cup {"no_heartbeat"} \in SUBSET Flags
      /\ Resumed(r.flags) \in SUBSET Flags
  BY <1>1 DEF Flags, Resumed
<1>3. FlagsAfter(r) \in SUBSET Flags
  BY <1>1, <1>2 DEF FlagsAfter
<1> QED
  BY <1>3 DEF ExitStatus

LEMMA TimerThreadKeeps ==
    ASSUME TasksInv, NEW p \in Pids, TimerThread(p), UNCHANGED taskVars
    PROVE  TasksInv'
<1>1. /\ RuntimeTypes /\ proc \in [Pids -> Processes]
      /\ channel \in [Segments -> Messages \cup {Empty}]
      /\ slot \in [finish : BOOLEAN, tempExit : BOOLEAN, lock : Pids \cup {0}]
  BY DEF TasksInv, RuntimeTypes
<1>2. Alive(p) /\ slot' = slot
  BY DEF TimerThread, GetMsg, ClientDead, Act, Listens, Runs, Alive
<1>3. proc[p] \in LiveProcesses
  BY <1>1, <1>2, ProcessCases
<1>4. ASSUME NEW what \in Messages \cup {"death"}, Hear(p, what), Listens(p),
             channel' \in [Segments -> Messages \cup {Empty}]
      PROVE  TasksInv'
  <2> DEFINE r == [proc[p] EXCEPT !.heard = what, !.inCritical = proc[p].pc = "critical",
                                  !.flags = @ \cup ({what} \cap {"quit", "abort"})]
  <2>1. proc' = [proc EXCEPT ![p] = r]
    BY <1>1, <1>4 DEF Hear
  <2>2. (proc[p].pc = "critical") \in BOOLEAN
    OBVIOUS
  <2>3. proc[p].flags \cup ({what} \cap {"quit", "abort"}) \in SUBSET Flags
    BY <1>3 DEF LiveProcesses, Flags
  <2>4. /\ r \in LiveProcesses /\ r.segment = proc[p].segment /\ r.orphan = proc[p].orphan
        /\ r.pc = proc[p].pc
    BY <1>3, <2>2, <2>3 DEF LiveProcesses
  <2> HIDE DEF r
  <2> QED
    BY <1>1, <1>2, <1>4, <2>1, <2>4, ProcessGoesOn
<1>5. CASE GetMsg(p)
  <2>1. /\ Hear(p, channel[proc[p].segment]) /\ Listens(p) /\ channel[proc[p].segment] # Empty
        /\ channel' = [channel EXCEPT ![proc[p].segment] = Empty]
    BY <1>5 DEF GetMsg
  <2>2. proc[p].segment \in Segments
    BY <1>3 DEF LiveProcesses
  <2>3. /\ channel[proc[p].segment] \in Messages
        /\ channel' \in [Segments -> Messages \cup {Empty}]
    BY <1>1, <2>1, <2>2
  <2> QED
    BY <1>4, <2>1, <2>3
<1>6. CASE ClientDead(p)
  BY <1>1, <1>4, <1>6 DEF ClientDead
<1>7. CASE Act(p)
  <2> DEFINE r == [proc[p] EXCEPT !.flags = FlagsAfter(proc[p]), !.heard = "nothing",
                      !.inCritical = FALSE,
                      !.timer = IF TimerExits(proc[p]) THEN "off" ELSE @,
                      !.exitFlag = IF TimerExits(proc[p]) THEN ExitStatus(proc[p]) ELSE @]
  <2>1. proc' = [proc EXCEPT ![p] = r] /\ channel' = channel
    BY <1>1, <1>7 DEF Act
  <2>2. /\ r \in LiveProcesses /\ r.segment = proc[p].segment /\ r.orphan = proc[p].orphan
        /\ r.pc = proc[p].pc
    BY <1>3, FlagsTypes DEF LiveProcesses
  <2> HIDE DEF r
  <2> QED
    BY <1>1, <1>2, <2>1, <2>2, ProcessGoesOn
<1> QED
  BY <1>5, <1>6, <1>7 DEF TimerThread

LEMMA WorkerThreadKeeps ==
    ASSUME TasksInv, NEW p \in Pids, WorkerThread(p) \/ ProcessOption(p), UNCHANGED taskVars
    PROVE  TasksInv'
<1>1. /\ RuntimeTypes /\ proc \in [Pids -> Processes]
      /\ channel \in [Segments -> Messages \cup {Empty}]
      /\ slot \in [finish : BOOLEAN, tempExit : BOOLEAN, lock : Pids \cup {0}]
  BY DEF TasksInv, RuntimeTypes
<1>2. Alive(p) => proc[p] \in LiveProcesses
  BY <1>1, ProcessCases
<1>3. Works(p) => Alive(p)
  BY DEF Works, Runs, Alive
<1>4. ASSUME Alive(p), NEW r \in LiveProcesses, proc' = [proc EXCEPT ![p] = r],
             r.segment = proc[p].segment, r.orphan = proc[p].orphan,
             r.pc = proc[p].pc \/ (proc[p].pc \in Running /\ r.pc \in Running),
             channel' = channel, slot' = slot \/ slot' = [slot EXCEPT !.finish = TRUE]
      PROVE  TasksInv'
  <2>1. /\ slot' \in [finish : BOOLEAN, tempExit : BOOLEAN, lock : Pids \cup {0}]
        /\ slot'.lock = slot.lock
    BY <1>1, <1>4
  <2> QED
    BY <1>1, <1>4, <2>1, ProcessGoesOn
<1>5. CASE Init_(p)
  BY <1>5, ProcessGetsLock
<1>6. CASE LockBusy(p)
  <2>1. /\ Alive(p) /\ proc' = [proc EXCEPT ![p] = Ended(p, "zero")] /\ channel' = channel
        /\ slot' = [slot EXCEPT !.tempExit = TRUE] /\ proc[p].pc = "starting"
    BY <1>6 DEF LockBusy, Alive
  <2>2. /\ slot' \in [finish : BOOLEAN, tempExit : BOOLEAN, lock : Pids \cup {0}]
        /\ slot'.lock = slot.lock
    BY <1>1, <2>1
  <2> QED
    BY <1>1, <2>1, <2>2, ProcessEnds DEF Statuses

<1>7. CASE AlarmSleep(p)
  <2> DEFINE r == [proc[p] EXCEPT !.asleep = TRUE]
  <2>1. Alive(p) /\ proc' = [proc EXCEPT ![p] = r] /\ channel' = channel
        /\ slot' = slot
    BY <1>1, <1>3, <1>7 DEF AlarmSleep
  <2>2. /\ r \in LiveProcesses /\ r.segment = proc[p].segment /\ r.orphan = proc[p].orphan
        /\ r.pc = proc[p].pc \/ (proc[p].pc \in Running /\ r.pc \in Running)
    BY <1>2, <2>1 DEF LiveProcesses, Running
  <2> HIDE DEF r
  <2> QED
    BY <1>4, <2>1, <2>2
<1>8. CASE Wake(p)
  <2> DEFINE r == [proc[p] EXCEPT !.asleep = FALSE]
  <2>1. Alive(p) /\ proc' = [proc EXCEPT ![p] = r] /\ channel' = channel
        /\ slot' = slot
    BY <1>1, <1>3, <1>8 DEF Wake, Runs, Alive
  <2>2. /\ r \in LiveProcesses /\ r.segment = proc[p].segment /\ r.orphan = proc[p].orphan
        /\ r.pc = proc[p].pc \/ (proc[p].pc \in Running /\ r.pc \in Running)
    BY <1>2, <2>1 DEF LiveProcesses, Running
  <2> HIDE DEF r
  <2> QED
    BY <1>4, <2>1, <2>2
<1>9. CASE BeginCritical(p)
  <2> DEFINE r == [proc[p] EXCEPT !.pc = "critical"]
  <2>1. Alive(p) /\ proc' = [proc EXCEPT ![p] = r] /\ channel' = channel
        /\ slot' = slot /\ proc[p].pc \in Running
    BY <1>1, <1>3, <1>9 DEF BeginCritical, Running
  <2>2. /\ r \in LiveProcesses /\ r.segment = proc[p].segment /\ r.orphan = proc[p].orphan
        /\ r.pc = proc[p].pc \/ (proc[p].pc \in Running /\ r.pc \in Running)
    BY <1>2, <2>1 DEF LiveProcesses, Running
  <2> HIDE DEF r
  <2> QED
    BY <1>4, <2>1, <2>2
<1>10. CASE Finish(p)
  <2> DEFINE r == [proc[p] EXCEPT !.pc = "finishing"]
  <2>1. Alive(p) /\ proc' = [proc EXCEPT ![p] = r] /\ channel' = channel
        /\ slot' = slot /\ proc[p].pc \in Running
    BY <1>1, <1>3, <1>10 DEF Finish, Running
  <2>2. /\ r \in LiveProcesses /\ r.segment = proc[p].segment /\ r.orphan = proc[p].orphan
        /\ r.pc = proc[p].pc \/ (proc[p].pc \in Running /\ r.pc \in Running)
    BY <1>2, <2>1 DEF LiveProcesses, Running
  <2> HIDE DEF r
  <2> QED
    BY <1>4, <2>1, <2>2
<1>11. CASE WriteFinishFile(p)
  <2> DEFINE r == [proc[p] EXCEPT !.pc = "finished"]
  <2>1. Alive(p) /\ proc' = [proc EXCEPT ![p] = r] /\ channel' = channel
        /\ slot' = [slot EXCEPT !.finish = TRUE] /\ proc[p].pc \in Running
    BY <1>1, <1>3, <1>11 DEF WriteFinishFile, Running
  <2>2. /\ r \in LiveProcesses /\ r.segment = proc[p].segment /\ r.orphan = proc[p].orphan
        /\ r.pc = proc[p].pc \/ (proc[p].pc \in Running /\ r.pc \in Running)
    BY <1>2, <2>1 DEF LiveProcesses, Running
  <2> HIDE DEF r
  <2> QED
    BY <1>4, <2>1, <2>2
<1>12. CASE Freeze(p)
  <2> DEFINE r == [proc[p] EXCEPT !.frozen = TRUE]
  <2>1. Alive(p) /\ proc' = [proc EXCEPT ![p] = r] /\ channel' = channel
        /\ slot' = slot
    BY <1>1, <1>3, <1>12 DEF Freeze
  <2>2. /\ r \in LiveProcesses /\ r.segment = proc[p].segment /\ r.orphan = proc[p].orphan
        /\ r.pc = proc[p].pc \/ (proc[p].pc \in Running /\ r.pc \in Running)
    BY <1>2, <2>1 DEF LiveProcesses, Running
  <2> HIDE DEF r
  <2> QED
    BY <1>4, <2>1, <2>2
<1>13. CASE EndCritical(p)
  <2> DEFINE suspend == "suspend_request" \in proc[p].flags
             r == [proc[p] EXCEPT !.pc = "computing", !.asleep = suspend,
                      !.flags = IF suspend THEN (@ \ {"suspend_request"}) \cup {"suspended"}
                                ELSE @]
  <2>1. Alive(p) /\ proc' = [proc EXCEPT ![p] = r] /\ channel' = channel
        /\ slot' = slot /\ proc[p].pc \in Running
    BY <1>1, <1>3, <1>13 DEF EndCritical, Running
  <2>2. suspend \in BOOLEAN /\ (proc[p].flags \ {"suspend_request"}) \cup {"suspended"} \in SUBSET Flags
    BY <1>2, <2>1 DEF LiveProcesses, Flags
  <2>3. /\ r \in LiveProcesses /\ r.segment = proc[p].segment /\ r.orphan = proc[p].orphan
        /\ r.pc \in Running
    BY <1>2, <2>1, <2>2 DEF LiveProcesses, Running
  <2> HIDE DEF r
  <2> QED
    BY <1>4, <2>1, <2>3
<1>14. CASE AlarmExit(p) \/ EndCriticalExit(p) \/ FinishExit(p)
  <2>1. Alive(p) /\ channel' = channel /\ \E status \in Statuses : Exit(p, status)
    <3>1. CASE AlarmExit(p)
      BY <1>2, <1>3, <3>1 DEF AlarmExit, LiveProcesses, Statuses
    <3>2. CASE EndCriticalExit(p)
      BY <1>3, <3>2 DEF EndCriticalExit, Statuses
    <3>3. CASE FinishExit(p)
      BY <1>2, <1>3, <3>3 DEF FinishExit, LiveProcesses, Statuses
    <3> QED
      BY <1>14, <3>1, <3>2, <3>3
  <2> QED
    BY <2>1, ExitKeeps
<1>15. CASE TemporaryExit(p)
  <2>1. /\ Alive(p) /\ proc' = [proc EXCEPT ![p] = Ended(p, "zero")] /\ channel' = channel
        /\ slot' = [Unlocked(p) EXCEPT !.tempExit = TRUE]
    BY <1>3, <1>15 DEF TemporaryExit
  <2> QED
    BY <1>1, <2>1, UnlockedTypes, ProcessEnds DEF Statuses
<1>16. CASE Fails(p)
  <2>1. Alive(p) /\ channel' = channel /\ proc[p].pc \in Running
    BY <1>3, <1>16 DEF Fails, Running
  <2>2. ASSUME NEW status \in {"error", "zero"}, Exit(p, status)
        PROVE  TasksInv'
    BY <2>1, <2>2, ExitKeeps DEF Statuses
  <2>3. ASSUME proc' = [proc EXCEPT ![p].pc = "finishing", ![p].status = "error"], slot' = slot
        PROVE  TasksInv'
    <3> DEFINE r == [proc[p] EXCEPT !.pc = "finishing", !.status = "error"]
    <3>1. proc' = [proc EXCEPT ![p] = r]
      BY <1>1, <2>3
    <3>2. /\ r \in LiveProcesses /\ r.segment = proc[p].segment /\ r.orphan = proc[p].orphan
          /\ r.pc \in Running
      BY <1>2, <2>1 DEF LiveProcesses, Running
    <3> HIDE DEF r
    <3> QED
      BY <1>4, <2>1, <2>3, <3>1, <3>2
  <2> QED
    BY <1>16, <2>2, <2>3 DEF Fails
<1>17. CASE KilledOutside(p)
  <2>1. Alive(p) /\ Exit(p, "killed") /\ channel' = channel
    BY <1>17 DEF KilledOutside, Kill
  <2> QED
    BY <2>1, ExitKeeps DEF Statuses
<1> QED
  BY <1>5, <1>6, <1>7, <1>8, <1>9, <1>10, <1>11, <1>12, <1>13, <1>14, <1>15, <1>16, <1>17
     DEF WorkerThread, ProcessOption

-----------------------------------------------------------------------------
(* The client's steps.                                                     *)

(* It changes what it knows of the task, or asks something of it.          *)
LEMMA TaskChanges ==
    ASSUME TasksInv, task # NoTask, NEW t \in ActiveTasks, task' = t,
           t.segment = task.segment, t.pid = task.pid,
           t.exits > MaxExits => task.exits > MaxExits,
           t.state \in {"ABORT_PENDING", "ABORTED"} => t.result # "downloaded",
           Has({"ABORTED"}) => t.state = "ABORTED",
           Has({"EXITED"}) => t.state \in {"EXITED", "ABORTED"},
           t.state \in {"EXECUTING", "SUSPENDED", "ABORT_PENDING", "QUIT_PENDING"} => ProcessExists,
           UNCHANGED <<proc, slot, jobs>>, channel' \in [Segments -> Messages \cup {Empty}]
    PROVE  TasksInv'
<1>1. RuntimeTypes /\ TaskTypes /\ SegmentsPast /\ LockHeld
  BY DEF TasksInv
<1>2. RuntimeTypes'
  BY <1>1 DEF RuntimeTypes
<1>3. t # NoTask
  BY DEF ActiveTasks, TaskStates, NoTask
<1>4. \A p : Alive(p)' <=> Alive(p)
  BY DEF Alive
<1>5. TaskTypes'
  <2>1. task \in ActiveTasks /\ task.segment = jobs
    BY <1>1 DEF TaskTypes
  <2>2. t.exits > MaxExits => t.state = "ABORTED" /\ (task.pid # 0 => proc[task.pid] = None)
    BY <1>1 DEF TaskTypes, Has
  <2>3. task.pid # 0 /\ Alive(task.pid) => ~proc[task.pid].orphan
    BY <1>1 DEF TaskTypes
  <2>4. ProcessExists' => task.pid # 0 /\ proc[task.pid] # None
    BY <1>1 DEF TaskTypes, ProcessExists, Has
  <2>5. \A p : p = task.pid => (Alive(p)' => Alive(p))
    BY <1>4
  <2>6. jobs' \in 0..Jobs /\ task' \in ActiveTasks /\ task'.segment = jobs' /\ task'.pid = task.pid
    BY <1>1, <2>1 DEF TaskTypes
  <2>7. task'.pid # 0 /\ proc'[task'.pid].pc \in Running \cup {"starting"}
           => ~proc'[task'.pid].orphan
    BY <2>3, <2>6 DEF Alive
  <2>8. /\ Has({"ABORTED"})' <=> t.state = "ABORTED"
        /\ Has({"ABORT_PENDING", "ABORTED"})' <=> t.state \in {"ABORT_PENDING", "ABORTED"}
    BY DEF Has
  <2>9. /\ task'.exits > MaxExits =>
              Has({"ABORTED"})' /\ (task'.pid # 0 => proc'[task'.pid] = None)
        /\ Has({"ABORT_PENDING", "ABORTED"})' => task'.result # "downloaded"
        /\ ProcessExists' => task'.pid # 0 /\ proc'[task'.pid] # None
    BY <2>2, <2>4, <2>6, <2>8
  <2> QED
    BY <2>6, <2>7, <2>9 DEF TaskTypes, Alive
<1>6. SegmentsPast'
  BY <1>1, <1>4 DEF SegmentsPast
<1>7. LockHeld'
  <2>1. Guarded' => Guarded
    BY DEF Guarded, Has
  <2>2. \A p : Computes(p)' <=> Computes(p)
    BY DEF Computes
  <2> QED
    BY <1>1, <2>1, <2>2 DEF LockHeld
<1> QED
  BY <1>2, <1>5, <1>6, <1>7 DEF TasksInv

(* What becomes of a task apart from its queue.                            *)
Kept(t) ==
    /\ task' \in ActiveTasks /\ channel' \in [Segments -> Messages \cup {Empty}]
    /\ task'.state = t.state /\ task'.segment = t.segment /\ task'.pid = t.pid
    /\ task'.exits = t.exits /\ task'.result = t.result

LEMMA SendKeeps ==
    ASSUME RuntimeTypes, NEW t \in ActiveTasks, NEW message \in Messages, Send(t, message)
    PROVE  Kept(t)
<1>1. t.queue \in Seq(Messages) /\ Append(t.queue, message) \in Seq(Messages)
  BY DEF ActiveTasks
<1>2. channel \in [Segments -> Messages \cup {Empty}]
  BY DEF RuntimeTypes
<1>3. CASE GoesDirectly(t)
  <2>1. /\ task' = [t EXCEPT !.blocked = FALSE]
        /\ channel' = [channel EXCEPT ![t.segment] = message]
    BY <1>3 DEF Send
  <2>2. channel' \in [Segments -> Messages \cup {Empty}]
    BY <1>2, <2>1
  <2>3. [t EXCEPT !.blocked = FALSE] \in ActiveTasks
    BY DEF ActiveTasks
  <2> QED
    BY <2>1, <2>2, <2>3 DEF Kept, ActiveTasks
<1>4. CASE ~GoesDirectly(t)
  <2> DEFINE q == Append(t.queue, message)
  <2>1. task' = [t EXCEPT !.queue = q, !.blocked = TRUE] /\ channel' = channel
    BY <1>4 DEF Send
  <2> HIDE DEF q
  <2>2. [t EXCEPT !.queue = q, !.blocked = TRUE] \in ActiveTasks
    BY <1>1 DEF ActiveTasks, q
  <2> QED
    BY <1>2, <2>1, <2>2 DEF Kept, ActiveTasks
<1> QED
  BY <1>3, <1>4

LEMMA ToggleKeeps ==
    ASSUME RuntimeTypes, NEW t \in ActiveTasks, NEW message \in Messages, NEW opposite \in Messages,
           Toggle(t, opposite, message)
    PROVE  Kept(t)
<1>1. CASE Purges(t, opposite)
  <2>1. t.queue \in Seq(Messages) /\ t.queue # <<>>
    BY <1>1 DEF Purges, ActiveTasks
  <2>2. Front(t.queue) \in Seq(Messages)
    BY <2>1 DEF Front
  <2>3. task' = [t EXCEPT !.queue = Front(@)] /\ channel' = channel
    BY <1>1 DEF Toggle
  <2> HIDE DEF Front
  <2> QED
    BY <2>2, <2>3 DEF Kept, ActiveTasks, RuntimeTypes
<1>2. CASE ~Purges(t, opposite)
  BY <1>2, SendKeeps DEF Toggle
<1> QED
  BY <1>1, <1>2

(* abort_task() with whatever state the task has.                          *)
LEMMA AbortKeeps ==
    ASSUME TasksInv, task # NoTask, AbortTask, UNCHANGED <<proc, slot, jobs>>
    PROVE  TasksInv'
<1>1. RuntimeTypes /\ TaskTypes /\ task \in ActiveTasks
  BY DEF TasksInv, TaskTypes
<1> DEFINE t == [task EXCEPT !.result = "aborted"]
<1>2. CASE Has({"EXECUTING", "SUSPENDED"})
  <2> DEFINE r == [t EXCEPT !.state = "ABORT_PENDING"]
  <2>1. r \in ActiveTasks /\ r.state = "ABORT_PENDING" /\ r.segment = task.segment
        /\ r.pid = task.pid /\ r.exits = task.exits /\ r.result = "aborted"
    BY <1>1 DEF ActiveTasks, TaskStates
  <2>2. Send(r, "abort")
    BY <1>2 DEF AbortTask
  <2> HIDE DEF r
  <2>3. Kept(r)
    BY <1>1, <2>1, <2>2, SendKeeps DEF Messages
  <2> QED
    BY <1>2, <2>1, <2>3, TaskChanges DEF Kept, ProcessExists, Has
<1>3. CASE ~Has({"EXECUTING", "SUSPENDED"})
  <2> DEFINE r == [t EXCEPT !.state = "ABORTED"]
  <2>1. r \in ActiveTasks /\ r.state = "ABORTED" /\ r.segment = task.segment
        /\ r.pid = task.pid /\ r.exits = task.exits /\ r.result = "aborted"
    BY <1>1 DEF ActiveTasks, TaskStates
  <2>2. task' = r /\ channel' = channel
    BY <1>3 DEF AbortTask
  <2> HIDE DEF r
  <2> QED
    BY <1>1, <2>1, <2>2, TaskChanges DEF RuntimeTypes
<1> QED
  BY <1>2, <1>3

(* preempt_task(), suspend_all() and their opposite, for a task that has a *)
(* process.                                                                *)
LEMMA RequestKeeps ==
    ASSUME TasksInv, Has({"EXECUTING", "SUSPENDED"}), NEW t \in {task, Unscheduled,
                                                  [task EXCEPT !.scheduled = TRUE]},
           Suspend(t) \/ Unsuspend(t) \/ RequestExit(t), UNCHANGED <<proc, slot, jobs>>
    PROVE  TasksInv'
<1>1. RuntimeTypes /\ task # NoTask /\ task \in ActiveTasks /\ ProcessExists
  BY DEF TasksInv, TaskTypes, NoTask, Has, ProcessExists
<1>2. /\ t \in ActiveTasks /\ t.segment = task.segment /\ t.pid = task.pid
      /\ t.exits = task.exits
  BY <1>1 DEF ActiveTasks, Unscheduled
<1>3. ASSUME NEW state \in {"EXECUTING", "SUSPENDED", "QUIT_PENDING"},
             Kept([t EXCEPT !.state = state])
      PROVE  TasksInv'
  <2> DEFINE r == [t EXCEPT !.state = state]
  <2>1. /\ r \in ActiveTasks /\ r.segment = task.segment /\ r.pid = task.pid
        /\ r.exits = task.exits /\ r.state = state
    BY <1>2 DEF ActiveTasks, TaskStates
  <2> HIDE DEF r
  <2>2. Kept(r)
    BY <1>3 DEF r
  <2> QED
    BY <1>1, <2>1, <2>2, TaskChanges DEF Kept, Has
<1>4. ASSUME NEW state \in {"EXECUTING", "SUSPENDED", "QUIT_PENDING"}
      PROVE  [t EXCEPT !.state = state] \in ActiveTasks
  BY <1>2 DEF ActiveTasks, TaskStates
<1>5. CASE Suspend(t)
  BY <1>1, <1>3, <1>4, <1>5, ToggleKeeps DEF Suspend, Messages
<1>6. CASE Unsuspend(t)
  BY <1>1, <1>3, <1>4, <1>6, ToggleKeeps DEF Unsuspend, Messages
<1>7. CASE RequestExit(t)
  BY <1>1, <1>3, <1>4, <1>7, SendKeeps DEF RequestExit, Messages
<1> QED
  BY <1>5, <1>6, <1>7

(* Its counters and flags, and what is left in its queue.                  *)
LEMMA NotesKeep ==
    ASSUME TasksInv, Unschedule \/ SendQueued \/ FinishFileFound \/ Checkpointed
    PROVE  TasksInv'
<1>1. RuntimeTypes /\ task # NoTask /\ UNCHANGED <<proc, slot, jobs>>
  BY DEF TasksInv, Unschedule, SendQueued, FinishFileFound, Checkpointed, NoTask, Has,
         ProcessExists, runtimeVars
<1>2. task \in ActiveTasks /\ channel \in [Segments -> Messages \cup {Empty}]
      /\ (Has({"ABORT_PENDING", "ABORTED"}) => task.result # "downloaded")
  BY <1>1 DEF TasksInv, TaskTypes, RuntimeTypes
<1>3. ASSUME NEW t \in ActiveTasks, task' = t, t.segment = task.segment, t.pid = task.pid,
             t.state = task.state, t.result = task.result, t.exits \in {0, task.exits},
             channel' \in [Segments -> Messages \cup {Empty}]
      PROVE  TasksInv'
  <2>1. MaxExits \in Nat
    BY TaskControlAssumption
  <2> QED
    BY <1>1, <1>2, <1>3, <2>1, TaskChanges DEF Has, ProcessExists
<1>4. CASE Unschedule
  <2>1. task' = [task EXCEPT !.scheduled = FALSE] /\ channel' = channel
    BY <1>4 DEF Unschedule, Unscheduled, runtimeVars
  <2>2. [task EXCEPT !.scheduled = FALSE] \in ActiveTasks
    BY <1>2 DEF ActiveTasks
  <2> QED
    BY <1>2, <1>3, <2>1, <2>2 DEF ActiveTasks
<1>5. CASE FinishFileFound
  <2>1. task' = [task EXCEPT !.finishSeen = TRUE] /\ channel' = channel
    BY <1>5 DEF FinishFileFound, runtimeVars
  <2>2. [task EXCEPT !.finishSeen = TRUE] \in ActiveTasks
    BY <1>2 DEF ActiveTasks
  <2> QED
    BY <1>2, <1>3, <2>1, <2>2 DEF ActiveTasks
<1>6. CASE Checkpointed
  <2>1. 0 \in 0..(MaxExits + 1)
    BY TaskControlAssumption
  <2>2. task' = [task EXCEPT !.exits = 0] /\ channel' = channel
    BY <1>6 DEF Checkpointed, runtimeVars
  <2>3. [task EXCEPT !.exits = 0] \in ActiveTasks
    BY <1>2, <2>1 DEF ActiveTasks
  <2> QED
    BY <1>2, <1>3, <2>2, <2>3 DEF ActiveTasks
<1>7. CASE SendQueued
  <2>1. task.queue \in Seq(Messages) /\ task.queue # <<>> /\ task.segment \in Segments
    BY <1>2, <1>7 DEF SendQueued, ActiveTasks
  <2>2. Head(task.queue) \in Messages /\ Tail(task.queue) \in Seq(Messages)
    BY <2>1
  <2>3. channel' \in [Segments -> Messages \cup {Empty}]
    BY <1>2, <1>7, <2>1, <2>2 DEF SendQueued
  <2> DEFINE q == Tail(task.queue)
             t == [task EXCEPT !.queue = q, !.blocked = FALSE]
  <2>4. task' = t
    BY <1>7 DEF SendQueued
  <2> HIDE DEF q
  <2>5. q \in Seq(Messages)
    BY <2>2 DEF q
  <2>6. t \in ActiveTasks /\ t.segment = task.segment /\ t.pid = task.pid
        /\ t.state = task.state /\ t.result = task.result /\ t.exits = task.exits
    BY <1>2, <2>5 DEF ActiveTasks
  <2> HIDE DEF t
  <2> QED
    BY <1>3, <2>3, <2>4, <2>6
<1> QED
  BY <1>4, <1>5, <1>6, <1>7

(* The client forks a process for the task.                                *)
LEMMA StartKeeps ==
    ASSUME TasksInv, Has({"UNINITIALIZED"}), Start, jobs' = jobs
    PROVE  TasksInv'
<1>1. RuntimeTypes /\ TaskTypes /\ SegmentsPast /\ LockHeld /\ proc \in [Pids -> Processes]
  BY DEF TasksInv, RuntimeTypes
<1>2. task # NoTask /\ task \in ActiveTasks /\ task.segment = jobs /\ task.state = "UNINITIALIZED"
  BY <1>1 DEF TaskTypes, NoTask, Has
<1>3. jobs \in 1..jobs /\ jobs \in Segments
  BY <1>1, <1>2, TaskControlAssumption DEF TaskTypes, ActiveTasks
<1>4. PICK p \in Pids :
         /\ proc[p] = None
         /\ proc' = [proc EXCEPT ![p] = Started(jobs)]
         /\ channel' = [channel EXCEPT ![jobs] = Empty]
         /\ slot' = [slot EXCEPT !.tempExit = FALSE]
         /\ task' = [task EXCEPT !.state = "EXECUTING", !.pid = p, !.queue = <<>>,
                                 !.blocked = FALSE, !.scheduled = TRUE]
  <2>1. (CHOOSE p \in Free : TRUE) \in Free
    BY DEF Start
  <2>2. (CHOOSE p \in Free : TRUE) \in Pids /\ proc[CHOOSE p \in Free : TRUE] = None
    BY <2>1 DEF Free
  <2> QED
    BY <1>2, <2>2 DEF Start
<1> DEFINE t == [task EXCEPT !.state = "EXECUTING", !.pid = p, !.queue = <<>>,
                             !.blocked = FALSE, !.scheduled = TRUE]
<1>5. /\ t \in ActiveTasks /\ t.segment = jobs /\ t.pid = p /\ t.state = "EXECUTING"
      /\ t.exits = task.exits /\ task' = t
  <2>1. <<>> \in Seq(Messages)
    OBVIOUS
  <2> QED
    BY <1>2, <1>4, <2>1 DEF ActiveTasks, TaskStates
<1> HIDE DEF t
<1> DEFINE r == Started(jobs)
<1>6. /\ r \in LiveProcesses /\ r.pc = "starting" /\ r.segment = jobs /\ ~r.orphan
      /\ r # None
  BY <1>3 DEF Started, LiveProcesses, Running, Flags, None
<1> HIDE DEF r
<1>7. \A q \in Pids : proc'[q] = IF q = p THEN r ELSE proc[q]
  BY <1>1, <1>4 DEF r
<1>8. RuntimeTypes'
  BY <1>1, <1>3, <1>4, <1>6, <1>7 DEF RuntimeTypes, Processes, r
<1>9. slot'.lock = slot.lock
  BY <1>1, <1>4 DEF RuntimeTypes
<1>10. \A q \in Pids : /\ q # p => proc'[q] = proc[q] /\ (Alive(q)' <=> Alive(q))
                       /\ Computes(q)' => Computes(q)
  BY <1>6, <1>7 DEF Alive, Computes, Running
<1>11. TaskTypes'
  <2>1. p # 0 /\ proc'[p] = r
    BY <1>7, AppRuntimeAssumption
  <2>2. ~(task.exits > MaxExits)
    BY <1>1, <1>2 DEF TaskTypes, Has
  <2>3. jobs' \in 0..Jobs /\ task' \in ActiveTasks /\ task'.segment = jobs'
    BY <1>1, <1>5 DEF TaskTypes
  <2>4. task'.pid # 0 /\ proc'[task'.pid] # None /\ ~proc'[task'.pid].orphan
    BY <1>5, <1>6, <2>1
  <2>5. ~(task'.exits > MaxExits) /\ ~Has({"ABORT_PENDING", "ABORTED"})'
    BY <1>5, <2>2 DEF Has
  <2> QED
    BY <2>3, <2>4, <2>5 DEF TaskTypes
<1>12. SegmentsPast'
  BY <1>1, <1>3, <1>6, <1>7, <1>10 DEF SegmentsPast
<1>13. LockHeld'
  <2>1. Guarded
    BY <1>2 DEF Guarded, Has
  <2> QED
    BY <1>1, <1>9, <1>10, <2>1 DEF LockHeld
<1> QED
  BY <1>8, <1>11, <1>12, <1>13 DEF TasksInv

LEMMA ResumeOrStartKeeps ==
    ASSUME TasksInv, ResumeOrStart, jobs' = jobs
    PROVE  TasksInv'
BY StartKeeps, RequestKeeps DEF ResumeOrStart, Has

(* A job gets the slot.                                                    *)
LEMMA NewTaskKeeps ==
    ASSUME TasksInv, NewTask
    PROVE  TasksInv'
<1>1. RuntimeTypes /\ TaskTypes /\ SegmentsPast
  BY DEF TasksInv
<1>2. /\ jobs \in 0..Jobs /\ jobs' = jobs + 1 /\ jobs' \in 0..Jobs /\ jobs' \in Segments
      /\ task' = TaskOf(jobs') /\ slot' = CleanedSlot /\ UNCHANGED <<proc, channel>>
  BY <1>1, TaskControlAssumption DEF NewTask, TaskTypes
<1>3. /\ task' \in ActiveTasks /\ task'.segment = jobs' /\ task'.pid = 0
      /\ task'.state = "UNINITIALIZED" /\ task'.exits = 0
  <2>1. <<>> \in Seq(Messages) /\ 0 \in 0..(MaxExits + 1)
    BY TaskControlAssumption
  <2> QED
    BY <1>2, <2>1 DEF TaskOf, ActiveTasks, TaskStates
<1>4. RuntimeTypes'
  BY <1>1, <1>2 DEF RuntimeTypes, CleanedSlot
<1>5. TaskTypes'
  <2>1. ~(task'.exits > MaxExits)
    BY <1>3, TaskControlAssumption
  <2> QED
    BY <1>2, <1>3, <2>1 DEF TaskTypes, Has, ProcessExists
<1>6. SegmentsPast'
  <2>1. \A p \in Pids : Alive(p)' <=> Alive(p)
    BY <1>2 DEF Alive
  <2>2. 1..jobs \subseteq 1..jobs'
    BY <1>2
  <2>3. \A p \in Pids : Alive(p) => proc'[p].segment \in 1..jobs'
    BY <1>1, <1>2, <2>2 DEF SegmentsPast
  <2> QED
    BY <2>1, <2>3 DEF SegmentsPast
<1>7. LockHeld'
  <2>1. jobs' \notin 1..jobs
    BY <1>2
  <2>2. \A p \in Pids : ~Computes(p)'
    BY <1>1, <1>2, <2>1 DEF SegmentsPast, Computes, Alive
  <2> QED
    BY <2>2 DEF LockHeld
<1> QED
  BY <1>4, <1>5, <1>6, <1>7 DEF TasksInv

LEMMA HandleFinishedKeeps ==
    ASSUME TasksInv, HandleFinished
    PROVE  TasksInv'
<1>1. task' = NoTask /\ UNCHANGED <<proc, channel, slot, jobs>>
  BY DEF HandleFinished, runtimeVars
<1>2. RuntimeTypes' /\ TaskTypes' /\ SegmentsPast'
  BY <1>1 DEF TasksInv, RuntimeTypes, TaskTypes, SegmentsPast, Alive
<1>3. LockHeld'
  BY <1>1 DEF LockHeld, Guarded
<1> QED
  BY <1>2, <1>3 DEF TasksInv

(* What a task becomes when its process has exited.                        *)
LEMMA AfterExitStates ==
    ASSUME task \in ActiveTasks, task.exits \in 0..MaxExits, NEW status \in Statuses,
           Has({"ABORT_PENDING", "ABORTED"}) => task.result # "downloaded"
    PROVE  LET t == AfterExit(status) IN
           /\ t \in ActiveTasks /\ t.segment = task.segment /\ t.pid = task.pid
           /\ t.state \in {"UNINITIALIZED", "EXITED", "ABORTED"}
           /\ t.state = "ABORTED" => t.result # "downloaded"
           /\ t.exits > MaxExits => t.state = "ABORTED"
<1>1. MaxExits \in Nat
  BY TaskControlAssumption
<1> DEFINE Sound(t) == /\ t \in ActiveTasks /\ t.segment = task.segment /\ t.pid = task.pid
                       /\ t.state \in {"UNINITIALIZED", "EXITED", "ABORTED"}
                       /\ t.state = "ABORTED" => t.result # "downloaded"
                       /\ t.exits > MaxExits => t.state = "ABORTED"
<1>2. Sound([task EXCEPT !.state = "UNINITIALIZED"]) /\ Sound([task EXCEPT !.state = "EXITED"])
  BY <1>1 DEF ActiveTasks, TaskStates
<1>8. Sound([task EXCEPT !.state = "EXITED", !.result = "error"])
  <2> DEFINE r == [task EXCEPT !.state = "EXITED", !.result = "error"]
  <2>1. /\ r \in ActiveTasks /\ r.segment = task.segment /\ r.pid = task.pid
        /\ r.state = "EXITED" /\ r.exits = task.exits
    BY DEF ActiveTasks, TaskStates
  <2> HIDE DEF r
  <2>2. ~(r.exits > MaxExits)
    BY <1>1, <2>1
  <2>3. Sound(r)
    BY <2>1, <2>2
  <2> QED
    BY <2>3 DEF r
<1>3. Has({"ABORT_PENDING"}) => Sound([task EXCEPT !.state = "ABORTED"])
  BY <1>1 DEF ActiveTasks, TaskStates, Has
<1>4. Sound(Premature)
  <2> DEFINE t == [task EXCEPT !.exits = @ + 1]
  <2>1. task.exits + 1 \in 0..(MaxExits + 1)
    BY <1>1
  <2>2. t \in ActiveTasks /\ t.segment = task.segment /\ t.pid = task.pid
    BY <2>1 DEF ActiveTasks
  <2>3. Premature = IF t.exits > MaxExits THEN [t EXCEPT !.state = "ABORTED", !.result = "aborted"]
                    ELSE [t EXCEPT !.state = "UNINITIALIZED"]
    BY DEF Premature
  <2> HIDE DEF t
  <2>4. Sound([t EXCEPT !.state = "ABORTED", !.result = "aborted"])
    BY <2>2 DEF ActiveTasks, TaskStates
  <2>5. ~(t.exits > MaxExits) => Sound([t EXCEPT !.state = "UNINITIALIZED"])
    BY <2>2 DEF ActiveTasks, TaskStates
  <2> HIDE DEF Sound
  <2> QED
    BY <2>3, <2>4, <2>5
<1> HIDE DEF Sound
<1>5. Sound(Exited(status))
  BY <1>2, <1>4, <1>8 DEF Exited
<1>6. Sound(AfterExit(status))
  BY <1>2, <1>3, <1>5 DEF AfterExit
<1> QED
  BY <1>6 DEF Sound

LEMMA CheckAppExitedKeeps ==
    ASSUME TasksInv, NEW p \in Pids, CheckAppExited(p)
    PROVE  TasksInv'
<1>1. /\ RuntimeTypes /\ TaskTypes /\ SegmentsPast /\ LockHeld /\ proc \in [Pids -> Processes]
      /\ proc' = [proc EXCEPT ![p] = None] /\ UNCHANGED <<channel, jobs>>
      /\ proc[p].pc = "exited"
  BY DEF TasksInv, RuntimeTypes, CheckAppExited
<1>2. proc[p] \in ExitedProcesses /\ proc[p] # None /\ proc[p].status \in Statuses /\ ~Alive(p)
  BY <1>1, ProcessCases DEF ExitedProcesses, None, Alive, Running
<1>3. \A q \in Pids : proc'[q] = IF q = p THEN None ELSE proc[q]
  BY <1>1
<1>4. \A q \in Pids : (Alive(q)' <=> Alive(q)) /\ (q # p => proc'[q] = proc[q])
  BY <1>1, <1>2, <1>3 DEF Alive, None, Running
<1>5. None \in Processes /\ proc' \in [Pids -> Processes]
  BY <1>1 DEF Processes
<1>6. SegmentsPast'
  BY <1>1, <1>4, <1>2 DEF SegmentsPast
<1>7. \A q \in Pids : Computes(q)' <=> Computes(q)
  BY <1>1, <1>2, <1>3 DEF Computes, None, Running
<1>8. task # NoTask /\ task.pid # 0 => task.pid \in Pids
  BY <1>1 DEF TaskTypes, ActiveTasks
<1>9. CASE task = NoTask \/ task.pid # p
  <2>1. UNCHANGED <<task, slot>>
    BY <1>1, <1>9, TaskCases DEF CheckAppExited
  <2>2. RuntimeTypes'
    BY <1>1, <1>5, <2>1 DEF RuntimeTypes
  <2>3. TaskTypes'
    <3>1. CASE task = NoTask
      BY <1>1, <2>1, <3>1 DEF TaskTypes
    <3>2. CASE task # NoTask
      <4>1. /\ task \in ActiveTasks /\ task.segment = jobs /\ jobs \in 0..Jobs
            /\ ProcessExists => task.pid # 0 /\ proc[task.pid] # None
            /\ task.pid # 0 /\ Alive(task.pid) => ~proc[task.pid].orphan
            /\ task.exits > MaxExits =>
                  Has({"ABORTED"}) /\ (task.pid # 0 => proc[task.pid] = None)
            /\ Has({"ABORT_PENDING", "ABORTED"}) => task.result # "downloaded"
        BY <1>1, <3>2 DEF TaskTypes
      <4>2. task.pid # 0 => proc'[task.pid] = proc[task.pid]
        BY <1>4, <1>8, <1>9, <3>2
      <4> QED
        BY <1>1, <2>1, <4>1, <4>2 DEF TaskTypes, ProcessExists, Has, Alive
    <3> QED
      BY <3>1, <3>2
  <2>4. LockHeld'
    <3>1. Guarded' => Guarded
      BY <1>4, <1>8, <1>9, <2>1 DEF Guarded, Has
    <3> QED
      BY <1>1, <1>7, <2>1, <3>1 DEF LockHeld
  <2> QED
    BY <1>6, <2>2, <2>3, <2>4 DEF TasksInv
<1>10. CASE task # NoTask /\ task.pid = p
  <2>1. task' = AfterExit(proc[p].status) /\ slot' = SlotAfter(task')
    BY <1>1, <1>10, TaskCases DEF CheckAppExited
  <2>2. p # 0 /\ Guarded
    BY <1>2, <1>10, AppRuntimeAssumption DEF Guarded
  <2>3. task \in ActiveTasks /\ task.segment = jobs /\ task.exits \in 0..MaxExits
        /\ (Has({"ABORT_PENDING", "ABORTED"}) => task.result # "downloaded")
    <3>1. /\ task \in ActiveTasks /\ task.segment = jobs /\ ~(task.exits > MaxExits)
          /\ Has({"ABORT_PENDING", "ABORTED"}) => task.result # "downloaded"
      BY <1>1, <1>2, <1>10, <2>2 DEF TaskTypes
    <3>2. task.exits \in 0..(MaxExits + 1)
      BY <3>1 DEF ActiveTasks
    <3> QED
      BY <3>1, <3>2, TaskControlAssumption
  <2>4. /\ task' \in ActiveTasks /\ task'.segment = jobs /\ task'.pid = p
        /\ task'.state \in {"UNINITIALIZED", "EXITED", "ABORTED"}
        /\ task'.state = "ABORTED" => task'.result # "downloaded"
        /\ task'.exits > MaxExits => task'.state = "ABORTED"
    BY <1>2, <1>10, <2>1, <2>3, AfterExitStates
  <2>5. RuntimeTypes'
    BY <1>1, <1>5, <2>1 DEF RuntimeTypes, SlotAfter, CleanedSlot
  <2>6. proc'[p] = None /\ ~Alive(p)'
    BY <1>2, <1>3, <1>4
  <2>7. TaskTypes'
    <3>1. task'.pid # 0 /\ proc'[task'.pid].pc \in Running \cup {"starting"}
             => ~proc'[task'.pid].orphan
      BY <2>4, <2>6 DEF Alive
    <3>2. /\ jobs' \in 0..Jobs /\ task'.segment = jobs' /\ ~ProcessExists'
          /\ task'.exits > MaxExits =>
                Has({"ABORTED"})' /\ (task'.pid # 0 => proc'[task'.pid] = None)
          /\ Has({"ABORT_PENDING", "ABORTED"})' => task'.result # "downloaded"
      BY <1>1, <2>4, <2>6 DEF TaskTypes, ProcessExists, Has
    <3> QED
      BY <2>4, <3>1, <3>2 DEF TaskTypes, Alive
  <2>8. LockHeld'
    <3>1. Guarded' => slot' = slot
      BY <2>1, <2>4, <2>6 DEF Guarded, Has, SlotAfter
    <3> QED
      BY <1>1, <1>7, <2>2, <3>1 DEF LockHeld
  <2> QED
    BY <1>6, <2>5, <2>7, <2>8 DEF TasksInv
<1> QED
  BY <1>9, <1>10

(* The client dies: its processes are left to themselves.                  *)
LEMMA CrashKeeps ==
    ASSUME TasksInv, Crash
    PROVE  TasksInv'
<1>1. /\ RuntimeTypes /\ TaskTypes /\ SegmentsPast /\ LockHeld /\ proc \in [Pids -> Processes]
      /\ UNCHANGED <<channel, slot, jobs>> /\ task # NoTask /\ task \in ActiveTasks
      /\ task.segment = jobs /\ jobs \in 0..Jobs
  BY DEF TasksInv, RuntimeTypes, TaskTypes, Crash, NoTask, Has
<1>2. \A p \in Pids : proc'[p] = Orphaned(proc[p])
  BY DEF Crash
<1>3. \A p \in Pids :
         /\ proc'[p] \in Processes /\ (Alive(p)' <=> Alive(p))
         /\ Alive(p) => proc'[p].segment = proc[p].segment
         /\ Computes(p)' <=> Computes(p)
  <2> SUFFICES ASSUME NEW p \in Pids
               PROVE  /\ proc'[p] \in Processes /\ (Alive(p)' <=> Alive(p))
                      /\ Alive(p) => proc'[p].segment = proc[p].segment
                      /\ Computes(p)' <=> Computes(p)
    OBVIOUS
  <2>1. CASE Alive(p)
    <3>1. proc[p] \in LiveProcesses
      BY <1>1, <2>1, ProcessCases
    <3>2. proc'[p] = [proc[p] EXCEPT !.orphan = TRUE]
      BY <1>2, <3>1 DEF Orphaned, LiveProcesses, Running
    <3>3. /\ proc'[p] \in LiveProcesses /\ proc'[p].segment = proc[p].segment
          /\ proc'[p].pc = proc[p].pc
      BY <3>1, <3>2 DEF LiveProcesses
    <3> QED
      BY <1>1, <2>1, <3>3 DEF Processes, Alive, Computes
  <2>2. CASE ~Alive(p)
    <3>1. proc[p].pc \in {"none", "exited"}
      BY <1>1, <2>2, ProcessCases DEF None, ExitedProcesses
    <3>2. proc'[p] = None
      BY <1>2, <3>1 DEF Orphaned
    <3> QED
      BY <2>2, <3>1, <3>2 DEF Processes, None, Alive, Computes, Running
  <2> QED
    BY <2>1, <2>2
<1>4. RuntimeTypes'
  <2>1. proc' \in [Pids -> Processes]
    BY <1>3 DEF Crash
  <2> QED
    BY <1>1, <2>1 DEF RuntimeTypes
<1>5. SegmentsPast'
  BY <1>1, <1>3 DEF SegmentsPast
<1>6. CASE task' = NoTask
  BY <1>1, <1>4, <1>5, <1>6 DEF TasksInv, TaskTypes, LockHeld, Guarded
<1>7. CASE task' = TaskOf(jobs) /\ task.result = "downloaded" /\ ~Has({"EXITED"})
  <2>1. /\ task' \in ActiveTasks /\ task'.segment = jobs /\ task'.pid = 0
        /\ task'.state = "UNINITIALIZED" /\ task'.exits = 0
    <3>1. <<>> \in Seq(Messages) /\ 0 \in 0..(MaxExits + 1) /\ jobs \in Segments
      BY <1>1, TaskControlAssumption DEF ActiveTasks
    <3> QED
      BY <1>7, <3>1 DEF TaskOf, ActiveTasks, TaskStates
  <2>2. TaskTypes'
    <3>1. ~(task'.exits > MaxExits)
      BY <2>1, TaskControlAssumption
    <3> QED
      BY <1>1, <2>1, <3>1 DEF TaskTypes, Has, ProcessExists
  <2>3. Guarded
    BY <1>1, <1>7 DEF Guarded, TaskTypes, Has
  <2>4. LockHeld'
    BY <1>1, <1>3, <2>3 DEF LockHeld
  <2> QED
    BY <1>4, <1>5, <2>2, <2>4 DEF TasksInv
<1> QED
  BY <1>1, <1>6, <1>7 DEF Crash

-----------------------------------------------------------------------------
(* All steps.                                                              *)
LEMMA InitSound == Init => TasksInv
<1> SUFFICES ASSUME Init PROVE TasksInv
  OBVIOUS
<1>1. task = NoTask /\ jobs = 0
  BY DEF Init, TaskInit
<1>2. RuntimeTypes /\ \A p \in Pids : proc[p] = None
  BY DEF Init, RuntimeInit, RuntimeTypes, Processes
<1>3. 0 \in 0..Jobs
  BY TaskControlAssumption
<1> QED
  BY <1>1, <1>2, <1>3 DEF TasksInv, TaskTypes, SegmentsPast, LockHeld, Guarded, Alive, None,
     Running

LEMMA StepSound == TasksInv /\ [Next]_vars => TasksInv'
<1> SUFFICES ASSUME TasksInv, [Next]_vars PROVE TasksInv'
  OBVIOUS
<1>1. CASE UNCHANGED vars
  BY <1>1 DEF vars, runtimeVars, taskVars, TasksInv, RuntimeTypes, TaskTypes, SegmentsPast,
     LockHeld, Guarded, Computes, Alive, Has, ProcessExists
<1>2. ASSUME NEW p \in Pids, Process(p) PROVE TasksInv'
  BY <1>2, TimerThreadKeeps, WorkerThreadKeeps DEF Process
<1>3. CASE ClientStep
  <2>1. ASSUME task.pid \in Pids, Alive(task.pid), Kill(task.pid), UNCHANGED <<channel, taskVars>>
        PROVE  TasksInv'
    BY <2>1, ExitKeeps DEF Kill, Statuses
  <2>2. ProcessExists => task.pid \in Pids
    BY DEF TasksInv, TaskTypes, ProcessExists, Has, NoTask, ActiveTasks
  <2>3. CASE MessageTimeout \/ PendingTimeout
    BY <2>1, <2>2, <2>3 DEF MessageTimeout, PendingTimeout, RequestPending, ProcessExists, Has
  <2>4. CASE Schedule
    BY <2>4, ResumeOrStartKeeps DEF Schedule
  <2>5. CASE FinishFileTooLong \/ ElapsedLimit \/ AbortReported
    BY <2>5, AbortKeeps DEF FinishFileTooLong, ElapsedLimit, AbortReported, Has, NoTask
  <2>6. CASE SendQueued \/ FinishFileFound
    BY <2>6, NotesKeep
  <2>7. CASE NewTask
    BY <2>7, NewTaskKeeps
  <2>8. CASE HandleFinished
    BY <2>8, HandleFinishedKeeps
  <2>9. CASE \E p \in Pids : CheckAppExited(p)
    BY <2>9, CheckAppExitedKeeps
  <2> QED
    BY <1>3, <2>3, <2>4, <2>5, <2>6, <2>7, <2>8, <2>9 DEF ClientStep
<1>4. CASE ClientOption
  <2>1. CASE Preempt
    BY <2>1, RequestKeeps DEF Preempt, Has
  <2>2. CASE Unschedule \/ Checkpointed
    BY <2>2, NotesKeep
  <2>3. CASE UnsuspendAll
    BY <2>3, ResumeOrStartKeeps DEF UnsuspendAll
  <2>4. CASE Abort
    BY <2>4, AbortKeeps DEF Abort, Has, NoTask
  <2>5. CASE Crash
    BY <2>5, CrashKeeps
  <2> QED
    BY <1>4, <2>1, <2>2, <2>3, <2>4, <2>5 DEF ClientOption
<1> QED
  BY <1>1, <1>2, <1>3, <1>4 DEF Next

(* The inductive invariant: types, no process of a job to come, and the    *)
(* lock with the only process that computes as long as the slot is not     *)
(* cleaned out.                                                            *)
THEOREM TasksAreSound == Spec => []TasksInv
<1>1. Init => TasksInv
  BY InitSound
<1>2. TasksInv /\ [Next]_vars => TasksInv'
  BY StepSound
<1> QED
  BY <1>1, <1>2, PTL DEF Spec

(* Processes, channels, the slot and the task have the values the code     *)
(* gives them, and a task that is thought to run has a process.            *)
THEOREM TasksTypeCorrect == Spec => []TypeOK
<1>1. TasksInv => TypeOK
  <2> SUFFICES ASSUME TasksInv PROVE TypeOK
    OBVIOUS
  <2>1. RuntimeTypes /\ TaskTypes
    BY DEF TasksInv
  <2>2. ASSUME NEW p \in Pids
        PROVE  \/ proc[p] = None
               \/ proc[p].pc = "exited" /\ proc[p].status \in Statuses
               \/ /\ Alive(p) /\ proc[p].segment \in Segments
                  /\ proc[p].timer \in {"on", "off"}
                  /\ proc[p].heard \in Messages \cup {"nothing", "death"}
                  /\ proc[p].flags \subseteq Flags
                  /\ proc[p].exitFlag \in {"no", "zero", "aborted"}
    BY <2>1, ProcessCases DEF LiveProcesses, ExitedProcesses
  <2>3. channel \in [Segments -> Messages \cup {Empty}] /\ slot.lock \in Pids \cup {0}
    BY <2>1 DEF RuntimeTypes
  <2>4. ~Has({"none"}) =>
           /\ task.queue \in Seq(Messages) /\ task.exits \in 0..(MaxExits + 1)
           /\ ProcessExists => proc[task.pid] # None
    BY <2>1, TaskCases DEF TaskTypes, ActiveTasks
  <2> QED
    BY <2>2, <2>3, <2>4 DEF TypeOK, Statuses, Flags
<1> QED
  BY <1>1, TasksAreSound, PTL

(* api/boinc_api.cpp:650: until its job is over, a slot has one process at *)
(* most that computes in it, however many instances of it the crashes of   *)
(* clients have left behind.                                               *)
THEOREM OneProcessComputes == Spec => []OneComputes
<1>1. TasksInv => OneComputes
  <2> SUFFICES ASSUME TasksInv, ~Over
               PROVE  Cardinality({p \in Pids : Computes(p)}) <= 1
    BY DEF OneComputes, Computes
  <2>1. TaskTypes /\ LockHeld
    BY DEF TasksInv
  <2>2. Guarded
    BY <2>1, TaskCases DEF Over, Guarded, Has
  <2>3. {p \in Pids : Computes(p)} \subseteq {slot.lock}
    BY <2>1, <2>2 DEF LockHeld
  <2>4. IsFiniteSet({slot.lock}) /\ Cardinality({slot.lock}) = 1
    BY FS_Singleton
  <2>5. IsFiniteSet({p \in Pids : Computes(p)})
        /\ Cardinality({p \in Pids : Computes(p)}) <= Cardinality({slot.lock})
    BY <2>3, <2>4, FS_Subset
  <2> QED
    BY <2>4, <2>5
<1> QED
  BY <1>1, TasksAreSound, PTL
-----------------------------------------------------------------------------
(* Suspend and resume.  What the process has made of the messages it has   *)
(* acted on, and what it will be told last with those that it has heard,   *)
(* those in the channel, and those in the queue.                           *)
Toggles == {"suspend", "resume"}

Told(p) == IF proc[p].flags \cap {"suspended", "suspend_request"} = {} THEN "resume" ELSE "suspend"
HeardLast(p) == IF proc[p].heard = "nothing" THEN Told(p) ELSE proc[p].heard
ChannelLast(p) == IF channel[jobs] = Empty THEN HeardLast(p) ELSE channel[jobs]
QueueBefore(p, i) == IF i = 1 THEN ChannelLast(p) ELSE task.queue[i - 1]
QueueLast(p) == QueueBefore(p, Len(task.queue) + 1)

(* Each message takes back the one before it, and the last one says what   *)
(* the client takes the process for.                                       *)
Conversation(p) ==
    /\ ~({"suspended", "suspend_request"} \subseteq proc[p].flags)
    /\ proc[p].heard = "nothing" \/ proc[p].heard \in Toggles \ {Told(p)}
    /\ channel[jobs] = Empty \/ channel[jobs] \in Toggles \ {HeardLast(p)}
    /\ \A i \in 1..Len(task.queue) : task.queue[i] \in Toggles \ {QueueBefore(p, i)}
    /\ QueueLast(p) = IF Has({"SUSPENDED"}) THEN "suspend" ELSE "resume"

Talking(p) == Has({"EXECUTING", "SUSPENDED"}) /\ task.pid = p /\ Alive(p)
Conversations == \A p \in Pids : Talking(p) => Conversation(p)

(* No other process of this client reads the channel of the task.          *)
OwnProcess ==
    task # NoTask => \A p \in Pids : Alive(p) =>
        /\ p = task.pid => proc[p].segment = jobs
        /\ ~proc[p].orphan /\ proc[p].segment = jobs =>
              p = task.pid /\ ~Has({"UNINITIALIZED"})

LEMMA LastOfConcatenation ==
    ASSUME NEW S, NEW a \in Seq(S), NEW b \in Seq(S)
    PROVE  /\ a \o b \in Seq(S)
           /\ b # <<>> => a \o b # <<>> /\ Last(a \o b) = Last(b)
           /\ b = <<>> => a \o b = a
<1>1. a \o b \in Seq(S) /\ Len(a \o b) = Len(a) + Len(b)
  OBVIOUS
<1>2. ASSUME b # <<>> PROVE a \o b # <<>> /\ Last(a \o b) = Last(b)
  <2>1. Len(b) \in Nat /\ Len(b) # 0 /\ Len(a) \in Nat
    BY <1>2
  <2>2. (a \o b)[Len(a) + Len(b)] = b[Len(b)]
    BY <2>1
  <2> QED
    BY <1>1, <2>1, <2>2 DEF Last
<1>3. b = <<>> => a \o b = a
  OBVIOUS
<1> QED
  BY <1>1, <1>2, <1>3

LEMMA Words ==
    ASSUME TasksInv, NEW p \in Pids, Talking(p), Conversation(p)
    PROVE  /\ task \in ActiveTasks /\ task.segment = jobs /\ jobs \in Segments
           /\ task.queue \in Seq(Messages) /\ proc[p] \in LiveProcesses
           /\ channel \in [Segments -> Messages \cup {Empty}]
           /\ Told(p) \in Toggles /\ HeardLast(p) \in Toggles /\ ChannelLast(p) \in Toggles
           /\ \A i \in 1..(Len(task.queue) + 1) : QueueBefore(p, i) \in Toggles
           /\ QueueLast(p) \in Toggles
<1>1. /\ task \in ActiveTasks /\ task.segment = jobs /\ proc[p] \in LiveProcesses
      /\ channel \in [Segments -> Messages \cup {Empty}]
  BY ProcessCases DEF TasksInv, TaskTypes, RuntimeTypes, Talking, Has, NoTask
<1>2. task.queue \in Seq(Messages) /\ jobs \in Segments
  BY <1>1 DEF ActiveTasks
<1>3. Told(p) \in Toggles /\ HeardLast(p) \in Toggles /\ ChannelLast(p) \in Toggles
  BY DEF Told, HeardLast, ChannelLast, Toggles, Conversation
<1>4. ASSUME NEW i \in 1..(Len(task.queue) + 1) PROVE QueueBefore(p, i) \in Toggles
  <2>1. CASE i = 1
    BY <1>3, <2>1 DEF QueueBefore
  <2>2. CASE i # 1
    <3>1. i - 1 \in 1..Len(task.queue)
      BY <1>2, <2>2
    <3> QED
      BY <2>2, <3>1 DEF QueueBefore, Conversation
  <2> QED
    BY <2>1, <2>2
<1>5. QueueLast(p) \in Toggles
  BY DEF Conversation, Toggles
<1> QED
  BY <1>1, <1>2, <1>3, <1>4, <1>5

(* The last word is the last one that has not been acted on, if any.       *)
LEMMA ConversationAgrees ==
    ASSUME TasksInv, OwnProcess, Conversations
    PROVE  Agrees
<1> SUFFICES ASSUME Has({"EXECUTING", "SUSPENDED"}), Alive(task.pid)
             PROVE  Has({"SUSPENDED"}) <=> SuspendsAtLast(task.pid)
  BY DEF Agrees
<1> DEFINE p == task.pid
<1>1. p \in Pids /\ task # NoTask
  BY DEF TasksInv, TaskTypes, ProcessExists, Has, NoTask, ActiveTasks
<1>2. Talking(p) /\ Conversation(p)
  BY <1>1 DEF Talking, Conversations
<1>3. proc[p].segment = jobs
  BY <1>1 DEF OwnProcess
<1>4. /\ task.queue \in Seq(Messages) /\ proc[p] \in LiveProcesses
      /\ channel \in [Segments -> Messages \cup {Empty}] /\ jobs \in Segments
  BY <1>1, <1>2, Words
<1> HIDE DEF p
<1> DEFINE S == Messages \cup {"death"}
           a == IF proc[p].heard = "nothing" THEN <<>> ELSE <<proc[p].heard>>
           b == IF channel[jobs] = Empty THEN <<>> ELSE <<channel[jobs]>>
<1>5. a \in Seq(S) /\ b \in Seq(S) /\ task.queue \in Seq(S)
  <2>1. proc[p].heard = "nothing" \/ proc[p].heard \in S
    BY <1>4 DEF LiveProcesses
  <2>2. channel[jobs] = Empty \/ channel[jobs] \in S
    BY <1>4
  <2>3. <<>> \in Seq(S) /\ \A x \in S : <<x>> \in Seq(S)
    OBVIOUS
  <2> HIDE DEF S
  <2>4. a \in Seq(S)
    <3>1. CASE proc[p].heard = "nothing"
      BY <2>3, <3>1
    <3>2. CASE proc[p].heard # "nothing"
      BY <2>1, <2>3, <3>2
    <3> QED
      BY <3>1, <3>2
  <2>6. b \in Seq(S)
    <3>1. CASE channel[jobs] = Empty
      BY <2>3, <3>1
    <3>2. CASE channel[jobs] # Empty
      BY <2>2, <2>3, <3>2
    <3> QED
      BY <3>1, <3>2
  <2> USE DEF S
  <2>5. task.queue \in Seq(S)
    <3> DEFINE q == task.queue
    <3>1. q \in [1..Len(q) -> S] /\ Len(q) \in Nat
      BY <1>4
    <3> QED
      BY <3>1
  <2> QED
    BY <2>4, <2>5, <2>6
<1>6. a # <<>> => Last(a) = proc[p].heard
  BY DEF Last
<1>7. b # <<>> => Last(b) = channel[jobs]
  BY DEF Last
<1>8. (a = <<>> <=> proc[p].heard = "nothing") /\ (b = <<>> <=> channel[jobs] = Empty)
  OBVIOUS
<1>9. Pending(p) = (a \o b) \o task.queue
  BY <1>3 DEF Pending
<1> HIDE DEF a, b, S
<1>10. /\ a \o b \in Seq(S)
       /\ a \o b = <<>> => a = <<>> /\ b = <<>>
       /\ a \o b # <<>> => Last(a \o b) = ChannelLast(p)
       /\ a \o b = <<>> => ChannelLast(p) = Told(p)
  <2>1. /\ a \o b \in Seq(S)
        /\ b # <<>> => a \o b # <<>> /\ Last(a \o b) = Last(b)
        /\ b = <<>> => a \o b = a
    BY <1>5, LastOfConcatenation
  <2>2. CASE b # <<>>
    BY <1>7, <1>8, <2>1, <2>2 DEF ChannelLast
  <2>3. CASE b = <<>>
    <3>1. ChannelLast(p) = HeardLast(p) /\ a \o b = a
      BY <1>8, <2>1, <2>3 DEF ChannelLast
    <3>2. a # <<>> => Last(a) = HeardLast(p)
      BY <1>6, <1>8 DEF HeardLast
    <3>3. a = <<>> => HeardLast(p) = Told(p)
      BY <1>8 DEF HeardLast
    <3> QED
      BY <2>1, <2>3, <3>1, <3>2, <3>3
  <2> QED
    BY <2>2, <2>3
<1>11. /\ Pending(p) # <<>> => Last(Pending(p)) = QueueLast(p)
       /\ Pending(p) = <<>> => QueueLast(p) = Told(p)
  <2>1. CASE task.queue = <<>>
    <3>1. QueueLast(p) = ChannelLast(p)
      BY <2>1 DEF QueueLast, QueueBefore
    <3>2. Pending(p) = a \o b
      BY <1>5, <1>9, <1>10, <2>1, LastOfConcatenation
    <3> QED
      BY <1>10, <3>1, <3>2
  <2>2. CASE task.queue # <<>>
    <3>1. Len(task.queue) \in Nat /\ Len(task.queue) # 0
      BY <1>4, <2>2
    <3>2. QueueLast(p) = Last(task.queue)
      BY <3>1 DEF QueueLast, QueueBefore, Last
    <3> DEFINE ab == a \o b
    <3>3. ab \in Seq(S) /\ Pending(p) = ab \o task.queue
      BY <1>9, <1>10
    <3> HIDE DEF ab
    <3>4. Pending(p) # <<>> /\ Last(Pending(p)) = Last(task.queue)
      BY <1>5, <2>2, <3>3, LastOfConcatenation
    <3> QED
      BY <3>2, <3>4
  <2> QED
    BY <2>1, <2>2
<1>12. QueueLast(p) = "suspend" <=> Has({"SUSPENDED"})
  BY <1>2 DEF Conversation
<1>13. SuspendsAtLast(p) <=> QueueLast(p) = "suspend"
  BY <1>11 DEF SuspendsAtLast, Told
<1> QED
  BY <1>12, <1>13 DEF p

(* What none of these words depends on.                                    *)
LEMMA SameWords ==
    ASSUME NEW p \in Pids, Conversation(p), jobs' = jobs, task'.queue = task.queue,
           channel'[jobs] = channel[jobs], proc'[p].heard = proc[p].heard,
           proc'[p].flags = proc[p].flags, Has({"SUSPENDED"})' <=> Has({"SUSPENDED"})
    PROVE  Conversation(p)'
BY DEF Conversation, Told, HeardLast, ChannelLast, QueueBefore, QueueLast

(* suspend() or unsuspend() takes back the last word of the client, in the *)
(* queue or after it.                                                      *)
LEMMA ToggleTakesBack ==
    ASSUME TasksInv, NEW p \in Pids, Talking(p), Conversation(p),
           NEW t \in ActiveTasks, t.queue = task.queue, t.segment = jobs,
           NEW message \in Toggles, NEW opposite \in Toggles, message # opposite,
           QueueLast(p) = opposite,
           t.state = IF message = "suspend" THEN "SUSPENDED" ELSE "EXECUTING",
           Toggle(t, opposite, message), UNCHANGED <<proc, jobs>>
    PROVE  Conversation(p)'
<1>1. /\ task.queue \in Seq(Messages) /\ jobs \in Segments
      /\ channel \in [Segments -> Messages \cup {Empty}]
      /\ \A i \in 1..(Len(task.queue) + 1) : QueueBefore(p, i) \in Toggles
      /\ ChannelLast(p) \in Toggles
  BY Words
<1> DEFINE q == task.queue
           n == Len(q)
<1>2. n \in Nat /\ (n = 0 <=> q = <<>>)
  BY <1>1
<1>3. /\ \A i \in 1..n : q[i] \in Toggles /\ q[i] # QueueBefore(p, i)
      /\ QueueBefore(p, n + 1) = opposite
  BY DEF Conversation, QueueLast
<1>4. Told(p)' = Told(p) /\ HeardLast(p)' = HeardLast(p)
  BY DEF Told, HeardLast
<1>5. ASSUME /\ channel'[jobs] = Empty \/ channel'[jobs] \in Toggles \ {HeardLast(p)}
             /\ \A i \in 1..Len(task'.queue) : task'.queue[i] \in Toggles \ {QueueBefore(p, i)'}
             /\ QueueLast(p)' = message /\ task'.state = t.state
      PROVE  Conversation(p)'
  <2>1. /\ ~({"suspended", "suspend_request"} \subseteq proc'[p].flags)
        /\ proc'[p].heard = "nothing" \/ proc'[p].heard \in Toggles \ {Told(p)'}
    BY <1>4 DEF Conversation
  <2>2. QueueLast(p)' = IF Has({"SUSPENDED"})' THEN "suspend" ELSE "resume"
    BY <1>5 DEF Has, Toggles
  <2> QED
    BY <1>4, <1>5, <2>1, <2>2 DEF Conversation
<1>6. CASE Purges(t, opposite)
  <2>1. /\ n # 0 /\ q[n] = opposite /\ task' = [t EXCEPT !.queue = Front(q)]
        /\ channel' = channel
    BY <1>2, <1>6 DEF Purges, Toggle, Last
  <2> DEFINE f == [i \in 1..(n - 1) |-> q[i]]
  <2>2. Front(q) = f
    BY DEF Front
  <2>3. f \in Seq(Messages) /\ Len(f) = n - 1
    BY <1>1, <1>2, <2>1
  <2>4. task'.queue = f /\ task'.state = t.state
    BY <2>1, <2>2 DEF ActiveTasks
  <2>5. ChannelLast(p)' = ChannelLast(p)
    BY <1>4, <2>1 DEF ChannelLast
  <2>6. \A i \in 1..n : QueueBefore(p, i)' = QueueBefore(p, i)
    <3> SUFFICES ASSUME NEW i \in 1..n PROVE QueueBefore(p, i)' = QueueBefore(p, i)
      OBVIOUS
    <3>1. CASE i = 1
      BY <2>5, <3>1 DEF QueueBefore
    <3>2. CASE i # 1
      <4>1. i - 1 \in 1..(n - 1)
        BY <1>2, <3>2
      <4>2. f[i - 1] = q[i - 1]
        BY <4>1
      <4> QED
        BY <2>4, <3>2, <4>2 DEF QueueBefore
    <3> QED
      BY <3>1, <3>2
  <2>7. \A i \in 1..Len(task'.queue) : task'.queue[i] \in Toggles \ {QueueBefore(p, i)'}
    <3> SUFFICES ASSUME NEW i \in 1..(n - 1) PROVE f[i] \in Toggles \ {QueueBefore(p, i)'}
      BY <2>3, <2>4
    <3>1. i \in 1..n /\ f[i] = q[i]
      BY <1>2
    <3> QED
      BY <1>3, <2>6, <3>1
  <2>8. QueueLast(p)' = message
    <3>1. n \in 1..n /\ n \in 1..(n + 1)
      BY <1>2, <2>1
    <3>2. ASSUME NEW i \in 1..n, i = n PROVE QueueLast(p)' = QueueBefore(p, i)'
      <4>1. Len(task'.queue) + 1 = i
        BY <1>2, <2>3, <2>4, <3>2
      <4> QED
        BY <4>1 DEF QueueLast
    <3>3. QueueBefore(p, n) \in Toggles /\ QueueBefore(p, n) # opposite
      BY <1>1, <1>3, <2>1, <3>1
    <3> QED
      BY <2>6, <3>1, <3>2, <3>3 DEF Toggles
  <2> QED
    BY <1>4, <1>5, <2>1, <2>4, <2>7, <2>8 DEF Conversation
<1>7. CASE ~Purges(t, opposite) /\ GoesDirectly(t)
  <2>1. /\ q = <<>> /\ channel[jobs] = Empty /\ task' = [t EXCEPT !.blocked = FALSE]
        /\ channel' = [channel EXCEPT ![jobs] = message]
    BY <1>7 DEF GoesDirectly, Toggle, Send
  <2>2. channel'[jobs] = message /\ message # Empty
    BY <1>1, <2>1 DEF Toggles, Empty
  <2>3. task'.queue = <<>> /\ task'.state = t.state
    BY <2>1 DEF ActiveTasks
  <2>4. HeardLast(p) = opposite
    BY <1>2, <1>3, <2>1 DEF QueueBefore, ChannelLast
  <2>5. QueueLast(p)' = message
    BY <2>2, <2>3 DEF QueueLast, QueueBefore, ChannelLast
  <2> QED
    BY <1>5, <2>2, <2>3, <2>4, <2>5
<1>8. CASE ~Purges(t, opposite) /\ ~GoesDirectly(t)
  <2> DEFINE a == Append(q, message)
  <2>1. task' = [t EXCEPT !.queue = a, !.blocked = TRUE] /\ channel' = channel
    BY <1>8 DEF Toggle, Send
  <2>2. /\ a \in Seq(Messages) /\ Len(a) = n + 1 /\ a[n + 1] = message
        /\ \A i \in 1..n : a[i] = q[i]
    BY <1>1 DEF Toggles, Messages
  <2> HIDE DEF a
  <2>3. task'.queue = a /\ task'.state = t.state
    BY <2>1 DEF ActiveTasks
  <2>4. ChannelLast(p)' = ChannelLast(p)
    BY <1>4, <2>1 DEF ChannelLast
  <2>5. \A i \in 1..(n + 1) : QueueBefore(p, i)' = QueueBefore(p, i)
    <3> SUFFICES ASSUME NEW i \in 1..(n + 1) PROVE QueueBefore(p, i)' = QueueBefore(p, i)
      OBVIOUS
    <3>1. CASE i = 1
      BY <2>4, <3>1 DEF QueueBefore
    <3>2. CASE i # 1
      <4>1. i - 1 \in 1..n
        BY <1>2, <3>2
      <4> QED
        BY <2>2, <2>3, <3>2, <4>1 DEF QueueBefore
    <3> QED
      BY <3>1, <3>2
  <2>6. ASSUME NEW i \in 1..(n + 1) PROVE a[i] \in Toggles \ {QueueBefore(p, i)'}
    <3>1. CASE i = n + 1
      BY <1>3, <2>2, <2>5, <3>1
    <3>2. CASE i # n + 1
      <4>1. i \in 1..n
        BY <1>2, <3>2
      <4> QED
        BY <1>3, <2>2, <2>5, <4>1
    <3> QED
      BY <3>1, <3>2
  <2>7. QueueLast(p)' = message
    <3>1. (n + 1) + 1 # 1 /\ ((n + 1) + 1) - 1 = n + 1
      BY <1>2
    <3> QED
      BY <2>2, <2>3, <3>1 DEF QueueLast, QueueBefore
  <2>8. channel'[jobs] = Empty \/ channel'[jobs] \in Toggles \ {HeardLast(p)}
    BY <2>1 DEF Conversation
  <2> QED
    BY <1>5, <2>2, <2>3, <2>6, <2>7, <2>8
<1> QED
  BY <1>6, <1>7, <1>8

(* The client moves the head of the queue to the channel.                  *)
LEMMA QueueMoves ==
    ASSUME TasksInv, NEW p \in Pids, Talking(p), Conversation(p), SendQueued
    PROVE  Conversation(p)'
<1>1. /\ task \in ActiveTasks /\ task.segment = jobs /\ jobs \in Segments
      /\ task.queue \in Seq(Messages) /\ channel \in [Segments -> Messages \cup {Empty}]
  BY Words
<1> DEFINE q == task.queue
           n == Len(q)
           tail == Tail(q)
<1>2. /\ q # <<>> /\ channel[jobs] = Empty /\ channel' = [channel EXCEPT ![jobs] = Head(q)]
      /\ task' = [task EXCEPT !.queue = tail, !.blocked = FALSE] /\ UNCHANGED <<proc, jobs>>
  BY <1>1 DEF SendQueued
<1>3. /\ n \in Nat /\ n # 0 /\ Head(q) = q[1] /\ Len(tail) = n - 1 /\ tail \in Seq(Messages)
      /\ \A i \in 1..(n - 1) : tail[i] = q[i + 1]
  BY <1>1, <1>2
<1>4. \A i \in 1..n : q[i] \in Toggles /\ q[i] # QueueBefore(p, i)
  BY DEF Conversation
<1> HIDE DEF tail
<1>5. task'.queue = tail /\ task'.state = task.state /\ channel'[jobs] = q[1]
  BY <1>1, <1>2, <1>3 DEF ActiveTasks
<1>6. Told(p)' = Told(p) /\ HeardLast(p)' = HeardLast(p)
  BY <1>2 DEF Told, HeardLast
<1>7. q[1] \in Toggles \ {HeardLast(p)} /\ q[1] # Empty
  <2>1. 1 \in 1..n /\ QueueBefore(p, 1) = HeardLast(p)
    BY <1>2, <1>3 DEF QueueBefore, ChannelLast
  <2> QED
    BY <1>4, <2>1 DEF Toggles, Empty
<1>8. ChannelLast(p)' = q[1]
  BY <1>2, <1>5, <1>7 DEF ChannelLast
<1>9. \A i \in 1..n : QueueBefore(p, i)' = QueueBefore(p, i + 1)
  <2> SUFFICES ASSUME NEW i \in 1..n PROVE QueueBefore(p, i)' = QueueBefore(p, i + 1)
    OBVIOUS
  <2>1. i \in Int /\ i + 1 # 1 /\ (i + 1) - 1 = i
    BY <1>3
  <2>2. QueueBefore(p, i + 1) = q[i]
    BY <2>1 DEF QueueBefore
  <2>3. CASE i = 1
    BY <1>8, <2>2, <2>3 DEF QueueBefore
  <2>4. CASE i # 1
    <3>1. i - 1 \in 1..(n - 1) /\ (i - 1) + 1 = i
      BY <1>3, <2>4
    <3> QED
      BY <1>3, <1>5, <2>2, <2>4, <3>1 DEF QueueBefore
  <2> QED
    BY <2>3, <2>4
<1>10. \A i \in 1..Len(tail) : tail[i] \in Toggles \ {QueueBefore(p, i)'}
  <2> SUFFICES ASSUME NEW i \in 1..(n - 1) PROVE tail[i] \in Toggles \ {QueueBefore(p, i)'}
    BY <1>3
  <2>1. i \in 1..n /\ i + 1 \in 1..n
    BY <1>3
  <2> QED
    BY <1>3, <1>4, <1>9, <2>1
<1>11. QueueLast(p)' = QueueLast(p)
  <2>1. n \in 1..n /\ (n - 1) + 1 = n
    BY <1>3
  <2> QED
    BY <1>3, <1>5, <1>9, <2>1 DEF QueueLast
<1> QED
  BY <1>2, <1>5, <1>6, <1>7, <1>10, <1>11 DEF Conversation, Has

(* What a step of a process changes: only some change its words, and only  *)
(* what it hears changes the channel.                                      *)
Heeds(p) == GetMsg(p) \/ ClientDead(p) \/ Act(p) \/ EndCritical(p)

SameProcess(p) ==
    Alive(p)' => Alive(p) /\ proc'[p].segment = proc[p].segment /\ proc'[p].orphan = proc[p].orphan

LEMMA ProcessMoves ==
    ASSUME TasksInv, NEW q \in Pids, Process(q)
    PROVE  /\ UNCHANGED taskVars
           /\ \A p \in Pids \ {q} : proc'[p] = proc[p]
           /\ channel' = channel \/ GetMsg(q)
           /\ SameProcess(q)
           /\ Alive(q)' => \/ proc'[q].heard = proc[q].heard /\ proc'[q].flags = proc[q].flags
                           \/ Heeds(q)
<1>1. proc \in [Pids -> Processes] /\ UNCHANGED taskVars /\ RuntimeTypes
  BY DEF TasksInv, RuntimeTypes, Process
<1>2. Alive(q) => proc[q] \in LiveProcesses
  BY <1>1, ProcessCases
<1>3. ASSUME NEW status, proc' = [proc EXCEPT ![q] = Ended(q, status)]
      PROVE  ~Alive(q)' /\ \A p \in Pids \ {q} : proc'[p] = proc[p]
  BY <1>1, <1>3 DEF Ended, Alive, None, Running
<1>4. Works(q) \/ Runs(q) \/ Listens(q) => Alive(q)
  BY DEF Works, Runs, Listens, Alive
<1>5. CASE Heeds(q)
  <2>1. Alive(q)
    BY <1>4, <1>5 DEF Heeds, GetMsg, ClientDead, Act, EndCritical
  <2>2. PICK r : /\ proc' = [proc EXCEPT ![q] = r]
                 /\ r.segment = proc[q].segment /\ r.orphan = proc[q].orphan
    <3>1. ASSUME NEW what, Hear(q, what)
          PROVE  \E r : /\ proc' = [proc EXCEPT ![q] = r]
                        /\ r.segment = proc[q].segment /\ r.orphan = proc[q].orphan
      <4> DEFINE r == [proc[q] EXCEPT !.heard = what, !.inCritical = proc[q].pc = "critical",
                                      !.flags = @ \cup ({what} \cap {"quit", "abort"})]
      <4>1. proc' = [proc EXCEPT ![q] = r]
        BY <1>1, <3>1 DEF Hear
      <4>2. r.segment = proc[q].segment /\ r.orphan = proc[q].orphan
        BY <1>2, <2>1 DEF LiveProcesses
      <4> HIDE DEF r
      <4> QED
        BY <4>1, <4>2
    <3>2. CASE Act(q)
      <4> DEFINE r == [proc[q] EXCEPT !.flags = FlagsAfter(proc[q]), !.heard = "nothing",
                          !.inCritical = FALSE,
                          !.timer = IF TimerExits(proc[q]) THEN "off" ELSE @,
                          !.exitFlag = IF TimerExits(proc[q]) THEN ExitStatus(proc[q]) ELSE @]
      <4>1. proc' = [proc EXCEPT ![q] = r]
        BY <1>1, <3>2 DEF Act
      <4>2. r.segment = proc[q].segment /\ r.orphan = proc[q].orphan
        BY <1>2, <2>1 DEF LiveProcesses
      <4> HIDE DEF r
      <4> QED
        BY <4>1, <4>2
    <3>3. CASE EndCritical(q)
      <4> DEFINE suspend == "suspend_request" \in proc[q].flags
                 r == [proc[q] EXCEPT !.pc = "computing", !.asleep = suspend,
                          !.flags = IF suspend THEN (@ \ {"suspend_request"}) \cup {"suspended"}
                                    ELSE @]
      <4>1. proc' = [proc EXCEPT ![q] = r]
        BY <1>1, <3>3 DEF EndCritical
      <4>2. r.segment = proc[q].segment /\ r.orphan = proc[q].orphan
        BY <1>2, <2>1 DEF LiveProcesses
      <4> HIDE DEF r
      <4> QED
        BY <4>1, <4>2
    <3> QED
      BY <1>5, <3>1, <3>2, <3>3 DEF Heeds, GetMsg, ClientDead
  <2>3. channel' = channel \/ GetMsg(q)
    BY <1>5 DEF Heeds, ClientDead, Act, EndCritical
  <2> QED
    BY <1>1, <1>5, <2>1, <2>2, <2>3 DEF SameProcess
<1>6. CASE Init_(q) \/ AlarmSleep(q) \/ Wake(q) \/ Finish(q) \/ WriteFinishFile(q)
           \/ BeginCritical(q) \/ Freeze(q)
           \/ (Fails(q) /\ proc' = [proc EXCEPT ![q].pc = "finishing", ![q].status = "error"])
  <2>1. Alive(q) /\ channel' = channel
    BY <1>4, <1>6 DEF Init_, AlarmSleep, Wake, Finish, WriteFinishFile, BeginCritical, Freeze,
       Fails, Alive
  <2>2. PICK r : /\ proc' = [proc EXCEPT ![q] = r]
                 /\ r.segment = proc[q].segment /\ r.orphan = proc[q].orphan
                 /\ r.heard = proc[q].heard /\ r.flags = proc[q].flags
    <3>1. ASSUME NEW r, proc' = [proc EXCEPT ![q] = r],
                 \/ r = [proc[q] EXCEPT !.pc = "computing", !.timer = "on"]
                 \/ \E b \in BOOLEAN : r = [proc[q] EXCEPT !.asleep = b]
                 \/ \E pc \in Running : r = [proc[q] EXCEPT !.pc = pc]
                 \/ r = [proc[q] EXCEPT !.frozen = TRUE]
                 \/ r = [proc[q] EXCEPT !.pc = "finishing", !.status = "error"]
          PROVE  /\ r.segment = proc[q].segment /\ r.orphan = proc[q].orphan
                 /\ r.heard = proc[q].heard /\ r.flags = proc[q].flags
      BY <1>2, <2>1, <3>1 DEF LiveProcesses
    <3>2. CASE Init_(q)
      BY <1>1, <3>1, <3>2 DEF Init_
    <3>3. CASE AlarmSleep(q) \/ Wake(q)
      BY <1>1, <3>1, <3>3 DEF AlarmSleep, Wake
    <3>4. CASE Finish(q) \/ WriteFinishFile(q) \/ BeginCritical(q)
      BY <1>1, <3>1, <3>4 DEF Finish, WriteFinishFile, BeginCritical, Running
    <3>5. CASE Freeze(q)
      BY <1>1, <3>1, <3>5 DEF Freeze
    <3>6. CASE proc' = [proc EXCEPT ![q].pc = "finishing", ![q].status = "error"]
      BY <1>1, <3>1, <3>6
    <3> QED
      BY <1>6, <3>2, <3>3, <3>4, <3>5, <3>6
  <2> QED
    BY <1>1, <2>1, <2>2 DEF SameProcess
<1>7. CASE \E status : proc' = [proc EXCEPT ![q] = Ended(q, status)] /\ channel' = channel
  BY <1>1, <1>3, <1>7 DEF SameProcess
<1>8. CASE \/ LockBusy(q) \/ AlarmExit(q) \/ EndCriticalExit(q) \/ FinishExit(q)
           \/ TemporaryExit(q) \/ KilledOutside(q)
  <2>1. \E status : proc' = [proc EXCEPT ![q] = Ended(q, status)] /\ channel' = channel
    <3>1. CASE LockBusy(q) \/ TemporaryExit(q)
      BY <3>1 DEF LockBusy, TemporaryExit
    <3>2. CASE AlarmExit(q)
      BY <3>2 DEF AlarmExit, Exit
    <3>3. CASE EndCriticalExit(q)
      BY <3>3 DEF EndCriticalExit, Exit
    <3>4. CASE FinishExit(q)
      BY <3>4 DEF FinishExit, Exit
    <3>5. CASE KilledOutside(q)
      BY <3>5 DEF KilledOutside, Kill, Exit
    <3> QED
      BY <1>8, <3>1, <3>2, <3>3, <3>4, <3>5
  <2> QED
    BY <1>7, <2>1
<1>9. CASE Fails(q)
  <2>1. CASE \E status \in {"error", "zero"} : Exit(q, status)
    BY <1>7, <1>9, <2>1 DEF Fails, Exit
  <2> QED
    BY <1>6, <1>9, <2>1 DEF Fails
<1> QED
  BY <1>5, <1>6, <1>8, <1>9 DEF Process, TimerThread, WorkerThread, ProcessOption, Heeds

(* The process hears a word, or does as it was told.                       *)
LEMMA ProcessHeeds ==
    ASSUME TasksInv, NEW p \in Pids, Talking(p), Conversation(p), OwnProcess, ~proc[p].orphan,
           Heeds(p), UNCHANGED taskVars
    PROVE  Conversation(p)'
<1>1. /\ task \in ActiveTasks /\ task.segment = jobs /\ jobs \in Segments
      /\ channel \in [Segments -> Messages \cup {Empty}] /\ proc[p] \in LiveProcesses
      /\ proc[p].segment = jobs /\ proc \in [Pids -> Processes]
      /\ Told(p) \in Toggles /\ HeardLast(p) \in Toggles /\ UNCHANGED <<task, jobs>>
  BY Words DEF OwnProcess, Talking, Has, NoTask, TasksInv, RuntimeTypes, taskVars
<1>2. ASSUME ~({"suspended", "suspend_request"} \subseteq proc'[p].flags),
             proc'[p].heard = "nothing" \/ proc'[p].heard \in Toggles \ {Told(p)'},
             channel'[jobs] = Empty \/ channel'[jobs] \in Toggles \ {HeardLast(p)'},
             ChannelLast(p)' = ChannelLast(p)
      PROVE  Conversation(p)'
  <2>1. \A i : QueueBefore(p, i)' = QueueBefore(p, i)
    BY <1>1, <1>2 DEF QueueBefore
  <2>2. QueueLast(p)' = QueueLast(p)
    BY <1>1, <2>1 DEF QueueLast
  <2> QED
    BY <1>1, <1>2, <2>1, <2>2 DEF Conversation, Has
<1>3. CASE GetMsg(p)
  <2> DEFINE m == channel[jobs]
  <2>1. /\ m # Empty /\ channel' = [channel EXCEPT ![jobs] = Empty] /\ proc[p].heard = "nothing"
        /\ proc'[p] = [proc[p] EXCEPT !.heard = m, !.inCritical = proc[p].pc = "critical",
                                      !.flags = @ \cup ({m} \cap {"quit", "abort"})]
    BY <1>1, <1>3 DEF GetMsg, Hear, Listens
  <2>2. m \in Toggles \ {Told(p)}
    BY <2>1 DEF Conversation, HeardLast
  <2>3. proc'[p].heard = m /\ proc'[p].flags = proc[p].flags /\ channel'[jobs] = Empty
    BY <1>1, <2>1, <2>2 DEF LiveProcesses, Toggles
  <2>4. Told(p)' = Told(p) /\ m # "nothing"
    BY <2>2, <2>3 DEF Told, Toggles
  <2>5. ChannelLast(p)' = ChannelLast(p)
    BY <1>1, <2>1, <2>3, <2>4 DEF ChannelLast, HeardLast
  <2> QED
    BY <1>2, <2>2, <2>3, <2>4, <2>5 DEF Conversation
<1>4. CASE Act(p)
  <2> DEFINE m == proc[p].heard
             flags == proc[p].flags
  <2>1. /\ m # "nothing" /\ channel' = channel
        /\ proc'[p].heard = "nothing" /\ proc'[p].flags = FlagsAfter(proc[p])
    BY <1>1, <1>4 DEF Act, LiveProcesses
  <2>2. m \in Toggles \ {Told(p)} /\ HeardLast(p) = m
    BY <2>1 DEF Conversation, HeardLast
  <2>3. /\ ~({"suspended", "suspend_request"} \subseteq FlagsAfter(proc[p]))
        /\ FlagsAfter(proc[p]) \cap {"suspended", "suspend_request"} = {} <=> m = "resume"
    <3>1. CASE m = "suspend"
      <4>1. flags \cap {"suspended", "suspend_request"} = {}
        BY <2>2, <3>1 DEF Told
      <4>2. FlagsAfter(proc[p]) \in {flags \cup {"suspend_request"},
                                     (flags \ {"suspend_request"}) \cup {"suspended"}}
        BY <3>1 DEF FlagsAfter
      <4> QED
        BY <3>1, <4>1, <4>2
    <3>2. CASE m = "resume"
      <4>1. /\ flags \cap {"suspended", "suspend_request"} # {}
            /\ ~({"suspended", "suspend_request"} \subseteq flags)
        BY <2>2, <3>2 DEF Told, Conversation
      <4>2. FlagsAfter(proc[p]) = Resumed(flags)
        BY <3>2 DEF FlagsAfter
      <4>3. Resumed(flags) \cap {"suspended", "suspend_request"} = {}
        BY <4>1 DEF Resumed
      <4> QED
        BY <3>2, <4>2, <4>3
    <3> QED
      BY <2>2, <3>1, <3>2 DEF Toggles
  <2>4. Told(p)' = m
    BY <2>1, <2>2, <2>3 DEF Told, Toggles
  <2>5. HeardLast(p)' = HeardLast(p)
    BY <2>1, <2>2, <2>4 DEF HeardLast
  <2>6. ChannelLast(p)' = ChannelLast(p)
    BY <1>1, <2>1, <2>5 DEF ChannelLast
  <2> QED
    BY <1>2, <2>1, <2>3, <2>5, <2>6 DEF Conversation
<1>5. CASE EndCritical(p)
  <2> DEFINE flags == proc[p].flags
             suspend == "suspend_request" \in flags
  <2>1. /\ channel' = channel /\ proc'[p].heard = proc[p].heard
        /\ proc'[p].flags = IF suspend THEN (flags \ {"suspend_request"}) \cup {"suspended"}
                            ELSE flags
    BY <1>1, <1>5 DEF EndCritical, LiveProcesses
  <2>2. /\ ~({"suspended", "suspend_request"} \subseteq proc'[p].flags)
        /\ Told(p)' = Told(p)
    BY <2>1 DEF Told, Conversation
  <2>3. HeardLast(p)' = HeardLast(p) /\ ChannelLast(p)' = ChannelLast(p)
    BY <1>1, <2>1, <2>2 DEF HeardLast, ChannelLast
  <2> QED
    BY <1>2, <2>1, <2>2, <2>3 DEF Conversation
<1>6. ~ClientDead(p)
  BY DEF ClientDead
<1> QED
  BY <1>3, <1>4, <1>5, <1>6 DEF Heeds

LEMMA OwnStays ==
    ASSUME OwnProcess, UNCHANGED jobs, task # NoTask, task'.pid = task.pid,
           Has({"UNINITIALIZED"})' => Has({"UNINITIALIZED"}),
           \A p \in Pids : SameProcess(p)
    PROVE  OwnProcess'
BY DEF OwnProcess, SameProcess

LEMMA ProcessKeepsTalk ==
    ASSUME TasksInv, OwnProcess, Conversations, Alone, NEW q \in Pids, Process(q)
    PROVE  OwnProcess' /\ Conversations'
<1>1. /\ UNCHANGED <<task, jobs>> /\ \A p \in Pids \ {q} : proc'[p] = proc[p]
      /\ channel' = channel \/ GetMsg(q)
      /\ SameProcess(q)
      /\ Alive(q)' => \/ proc'[q].heard = proc[q].heard /\ proc'[q].flags = proc[q].flags
                      \/ Heeds(q)
  BY ProcessMoves DEF taskVars
<1>2. \A p \in Pids : SameProcess(p)
  BY <1>1 DEF SameProcess, Alive
<1>3. OwnProcess'
  BY <1>1, <1>2, OwnStays DEF OwnProcess, Has
<1>4. ASSUME NEW p \in Pids, Talking(p)' PROVE Conversation(p)'
  <2>1. /\ Alive(p)' /\ Talking(p) /\ task # NoTask
    BY <1>1, <1>2, <1>4 DEF Talking, SameProcess, Has, NoTask
  <2>2. Conversation(p) /\ ~proc[p].orphan
    BY <2>1 DEF Conversations, Alone, Talking
  <2>3. channel \in [Segments -> Messages \cup {Empty}] /\ jobs \in Segments
    BY <2>1, <2>2, Words
  <2>4. CASE p = q /\ Heeds(q)
    BY <1>1, <2>1, <2>2, <2>4, ProcessHeeds DEF taskVars
  <2>5. CASE p = q /\ ~Heeds(q)
    BY <1>1, <2>1, <2>2, <2>5, SameWords DEF Heeds, Has
  <2>6. CASE p # q
    <3>1. proc'[p] = proc[p]
      BY <1>1, <2>6
    <3>2. channel'[jobs] = channel[jobs]
      <4>1. CASE GetMsg(q)
        <5>1. Alive(q) /\ channel' = [channel EXCEPT ![proc[q].segment] = Empty]
          BY <4>1 DEF GetMsg, Listens, Runs, Alive
        <5>2. proc[q].segment # jobs
          BY <2>1, <2>6, <5>1 DEF OwnProcess, Alone, Talking
        <5> QED
          BY <2>3, <5>1, <5>2
      <4> QED
        BY <1>1, <4>1
    <3> QED
      BY <1>1, <2>2, <3>1, <3>2, SameWords DEF Has
  <2> QED
    BY <2>4, <2>5, <2>6
<1> QED
  BY <1>3, <1>4 DEF Conversations

(* Nothing is said any more to a task that is to end.                      *)
LEMMA EndingKeepsTalk ==
    ASSUME TasksInv, OwnProcess, task # NoTask, UNCHANGED <<proc, jobs>>, task'.pid = task.pid,
           task'.state \in {"QUIT_PENDING", "ABORT_PENDING", "ABORTED"}
    PROVE  OwnProcess' /\ Conversations'
<1>1. \A p \in Pids : SameProcess(p)
  BY DEF SameProcess, Alive
<1>2. OwnProcess'
  BY <1>1, OwnStays DEF Has
<1> QED
  BY <1>2 DEF Conversations, Talking, Has

LEMMA RequestKeepsTalk ==
    ASSUME TasksInv, OwnProcess, Conversations, Has({"EXECUTING", "SUSPENDED"}),
           NEW t \in {task, Unscheduled, [task EXCEPT !.scheduled = TRUE]},
           \/ Has({"EXECUTING"}) /\ Suspend(t)
           \/ Has({"SUSPENDED"}) /\ Unsuspend(t)
           \/ RequestExit(t),
           UNCHANGED <<proc, jobs>>
    PROVE  OwnProcess' /\ Conversations'
<1>1. RuntimeTypes /\ task # NoTask /\ task \in ActiveTasks /\ task.segment = jobs
  BY DEF TasksInv, TaskTypes, NoTask, Has
<1>2. /\ t \in ActiveTasks /\ t.segment = jobs /\ t.pid = task.pid /\ t.queue = task.queue
  BY <1>1 DEF ActiveTasks, Unscheduled
<1>3. ASSUME NEW state \in {"EXECUTING", "SUSPENDED", "QUIT_PENDING"}
      PROVE  LET r == [t EXCEPT !.state = state] IN
             /\ r \in ActiveTasks /\ r.segment = jobs /\ r.pid = task.pid
             /\ r.queue = task.queue /\ r.state = state
  BY <1>2 DEF ActiveTasks, TaskStates
<1>4. CASE RequestExit(t)
  <2> DEFINE r == [t EXCEPT !.state = "QUIT_PENDING"]
  <2>1. r \in ActiveTasks /\ r.pid = task.pid /\ r.state = "QUIT_PENDING"
    BY <1>3
  <2>2. Send(r, "quit")
    BY <1>4 DEF RequestExit
  <2> HIDE DEF r
  <2>3. Kept(r)
    BY <1>1, <2>1, <2>2, SendKeeps DEF Messages
  <2> QED
    BY <1>1, <2>1, <2>3, EndingKeepsTalk DEF Kept
<1>5. ASSUME NEW r \in ActiveTasks, r.segment = jobs, r.pid = task.pid, r.queue = task.queue,
             NEW message \in Toggles, NEW opposite \in Toggles, message # opposite,
             r.state = IF message = "suspend" THEN "SUSPENDED" ELSE "EXECUTING",
             Has({"SUSPENDED"}) <=> opposite = "suspend",
             Toggle(r, opposite, message)
      PROVE  OwnProcess' /\ Conversations'
  <2>1. task'.state = r.state /\ task'.pid = task.pid
    BY <1>1, <1>5, ToggleKeeps DEF Kept, Toggles, Messages
  <2>2. \A p \in Pids : SameProcess(p)
    BY DEF SameProcess, Alive
  <2>3. OwnProcess'
    BY <1>1, <1>5, <2>1, <2>2, OwnStays DEF Has
  <2>4. ASSUME NEW p \in Pids, Talking(p)' PROVE Conversation(p)'
    <3>1. Talking(p) /\ Conversation(p)
      BY <2>1, <2>4 DEF Talking, Alive, Conversations
    <3>2. QueueLast(p) = opposite
      BY <1>5, <3>1 DEF Conversation, Toggles
    <3> QED
      BY <1>5, <3>1, <3>2, ToggleTakesBack
  <2> QED
    BY <2>3, <2>4 DEF Conversations
<1>6. CASE Has({"EXECUTING"}) /\ Suspend(t)
  <2> DEFINE r == [t EXCEPT !.state = "SUSPENDED"]
  <2>1. /\ r \in ActiveTasks /\ r.segment = jobs /\ r.pid = task.pid /\ r.queue = task.queue
        /\ r.state = "SUSPENDED"
    BY <1>3
  <2>2. Toggle(r, "resume", "suspend")
    BY <1>6 DEF Suspend
  <2> HIDE DEF r
  <2>3. ~Has({"SUSPENDED"})
    BY <1>6 DEF Has
  <2> QED
    BY <1>5, <2>1, <2>2, <2>3 DEF Toggles
<1>7. CASE Has({"SUSPENDED"}) /\ Unsuspend(t)
  <2> DEFINE r == [t EXCEPT !.state = "EXECUTING"]
  <2>1. /\ r \in ActiveTasks /\ r.segment = jobs /\ r.pid = task.pid /\ r.queue = task.queue
        /\ r.state = "EXECUTING"
    BY <1>3
  <2>2. Toggle(r, "suspend", "resume")
    BY <1>7 DEF Unsuspend
  <2> HIDE DEF r
  <2> QED
    BY <1>5, <1>7, <2>1, <2>2 DEF Toggles
<1> QED
  BY <1>4, <1>6, <1>7

LEMMA AbortKeepsTalk ==
    ASSUME TasksInv, OwnProcess, task # NoTask, AbortTask, UNCHANGED <<proc, jobs>>
    PROVE  OwnProcess' /\ Conversations'
<1>1. RuntimeTypes /\ task \in ActiveTasks
  BY DEF TasksInv, TaskTypes
<1> DEFINE r == [[task EXCEPT !.result = "aborted"] EXCEPT !.state = "ABORT_PENDING"]
<1>2. r \in ActiveTasks /\ r.state = "ABORT_PENDING" /\ r.pid = task.pid
  BY <1>1 DEF ActiveTasks, TaskStates
<1>3. task'.state \in {"ABORT_PENDING", "ABORTED"} /\ task'.pid = task.pid
  <2>1. CASE Has({"EXECUTING", "SUSPENDED"})
    <3>1. Send(r, "abort")
      BY <2>1 DEF AbortTask
    <3> HIDE DEF r
    <3> QED
      BY <1>1, <1>2, <3>1, SendKeeps DEF Kept, Messages
  <2>2. CASE ~Has({"EXECUTING", "SUSPENDED"})
    BY <1>1, <2>2 DEF AbortTask, ActiveTasks
  <2> QED
    BY <2>1, <2>2
<1> QED
  BY <1>3, EndingKeepsTalk

LEMMA NotesKeepTalk ==
    ASSUME TasksInv, OwnProcess, Conversations,
           Unschedule \/ SendQueued \/ FinishFileFound \/ Checkpointed
    PROVE  OwnProcess' /\ Conversations'
<1>1. task # NoTask /\ task \in ActiveTasks /\ UNCHANGED <<proc, jobs>>
  BY DEF TasksInv, TaskTypes, Unschedule, SendQueued, FinishFileFound, Checkpointed, NoTask,
     Has, ProcessExists, runtimeVars
<1>2. task'.state = task.state /\ task'.pid = task.pid
  BY <1>1 DEF ActiveTasks, Unschedule, Unscheduled, SendQueued, FinishFileFound, Checkpointed
<1>3. \A p \in Pids : SameProcess(p)
  BY <1>1 DEF SameProcess, Alive
<1>4. OwnProcess'
  BY <1>1, <1>2, <1>3, OwnStays DEF Has
<1>5. ASSUME NEW p \in Pids, Talking(p)' PROVE Conversation(p)'
  <2>1. Talking(p) /\ Conversation(p)
    BY <1>1, <1>2, <1>5 DEF Talking, Alive, Has, Conversations
  <2>2. CASE SendQueued
    BY <2>1, <2>2, QueueMoves
  <2>3. CASE Unschedule \/ FinishFileFound \/ Checkpointed
    <3>1. task'.queue = task.queue /\ channel' = channel
      BY <1>1, <2>3 DEF ActiveTasks, Unschedule, Unscheduled, FinishFileFound, Checkpointed,
         runtimeVars
    <3> QED
      BY <1>1, <1>2, <2>1, <3>1, SameWords DEF Has
  <2> QED
    BY <2>2, <2>3
<1> QED
  BY <1>4, <1>5 DEF Conversations

(* A conversation begins.                                                  *)
LEMMA StartKeepsTalk ==
    ASSUME TasksInv, OwnProcess, Has({"UNINITIALIZED"}), Start, jobs' = jobs
    PROVE  OwnProcess' /\ Conversations'
<1>1. /\ proc \in [Pids -> Processes] /\ channel \in [Segments -> Messages \cup {Empty}]
      /\ task # NoTask /\ task \in ActiveTasks /\ task.segment = jobs /\ jobs \in Segments
  BY DEF TasksInv, RuntimeTypes, TaskTypes, NoTask, Has, ActiveTasks
<1>2. PICK p \in Pids :
         /\ proc[p] = None
         /\ proc' = [proc EXCEPT ![p] = Started(jobs)]
         /\ channel' = [channel EXCEPT ![jobs] = Empty]
         /\ task' = [task EXCEPT !.state = "EXECUTING", !.pid = p, !.queue = <<>>,
                                 !.blocked = FALSE, !.scheduled = TRUE]
  <2>1. (CHOOSE p \in Free : TRUE) \in Free
    BY DEF Start
  <2>2. (CHOOSE p \in Free : TRUE) \in Pids /\ proc[CHOOSE p \in Free : TRUE] = None
    BY <2>1 DEF Free
  <2> QED
    BY <1>1, <2>2 DEF Start
<1>3. task'.state = "EXECUTING" /\ task'.pid = p /\ task'.queue = <<>>
  BY <1>1, <1>2 DEF ActiveTasks
<1>4. /\ proc'[p].segment = jobs /\ proc'[p].heard = "nothing" /\ proc'[p].flags = {}
      /\ \A q \in Pids : q # p => proc'[q] = proc[q]
      /\ channel'[jobs] = Empty
  BY <1>1, <1>2 DEF Started
<1>5. OwnProcess'
  <2>1. ASSUME NEW q \in Pids, q # p, Alive(q)'
        PROVE  ~(~proc'[q].orphan /\ proc'[q].segment = jobs)
    BY <1>1, <1>4, <2>1 DEF OwnProcess, Alive
  <2> QED
    BY <1>3, <1>4, <2>1 DEF OwnProcess, Has
<1>6. Conversation(p)'
  <2>1. Told(p)' = "resume" /\ HeardLast(p)' = "resume" /\ ChannelLast(p)' = "resume"
    BY <1>4 DEF Told, HeardLast, ChannelLast
  <2>2. Len(task'.queue) = 0 /\ QueueLast(p)' = "resume"
    BY <1>3, <2>1 DEF QueueLast, QueueBefore
  <2> QED
    BY <1>3, <1>4, <2>2 DEF Conversation, Has
<1> QED
  BY <1>3, <1>5, <1>6 DEF Conversations, Talking

LEMMA ResumeOrStartKeepsTalk ==
    ASSUME TasksInv, OwnProcess, Conversations, ResumeOrStart, jobs' = jobs
    PROVE  OwnProcess' /\ Conversations'
BY StartKeepsTalk, RequestKeepsTalk DEF ResumeOrStart, Has

LEMMA KillKeepsTalk ==
    ASSUME TasksInv, OwnProcess, Alive(task.pid), ProcessExists, Kill(task.pid),
           UNCHANGED taskVars
    PROVE  OwnProcess' /\ Conversations'
<1>1. /\ proc \in [Pids -> Processes] /\ task # NoTask /\ task.pid \in Pids
      /\ UNCHANGED <<task, jobs>>
  BY DEF TasksInv, RuntimeTypes, TaskTypes, ProcessExists, Has, NoTask, ActiveTasks, taskVars
<1>2. proc' = [proc EXCEPT ![task.pid] = Ended(task.pid, "killed")]
  BY DEF Kill, Exit
<1>3. ~Alive(task.pid)' /\ \A p \in Pids : p # task.pid => proc'[p] = proc[p]
  BY <1>1, <1>2 DEF Ended, Alive, None, Running
<1>4. \A p \in Pids : SameProcess(p)
  BY <1>1, <1>3 DEF SameProcess, Alive
<1>5. OwnProcess'
  BY <1>1, <1>4, OwnStays DEF Has
<1> QED
  BY <1>1, <1>3, <1>5 DEF Conversations, Talking

LEMMA CheckAppExitedKeepsTalk ==
    ASSUME TasksInv, OwnProcess, Conversations, NEW q \in Pids, CheckAppExited(q)
    PROVE  OwnProcess' /\ Conversations'
<1>1. /\ RuntimeTypes /\ TaskTypes /\ proc \in [Pids -> Processes] /\ UNCHANGED <<channel, jobs>>
      /\ proc' = [proc EXCEPT ![q] = None] /\ proc[q].pc = "exited"
  BY DEF TasksInv, RuntimeTypes, CheckAppExited
<1>2. ~Alive(q)' /\ \A p \in Pids : p # q => proc'[p] = proc[p]
  BY <1>1 DEF Alive, None, Running
<1>3. \A p \in Pids : SameProcess(p)
  BY <1>2 DEF SameProcess, Alive
<1>4. CASE task # NoTask /\ task.pid = q
  <2>1. task \in ActiveTasks /\ proc[q] \in ExitedProcesses /\ proc[q] # None
    BY <1>1, <1>4, ProcessCases DEF TaskTypes, ExitedProcesses, None
  <2>2. task.exits \in 0..MaxExits
    <3>1. q # 0 /\ MaxExits \in Nat /\ task.exits \in 0..(MaxExits + 1)
      BY <2>1, AppRuntimeAssumption, TaskControlAssumption DEF ActiveTasks
    <3>2. ~(task.exits > MaxExits)
      BY <1>1, <1>4, <2>1, <3>1 DEF TaskTypes
    <3> QED
      BY <3>1, <3>2
  <2>3. task' = AfterExit(proc[q].status) /\ proc[q].status \in Statuses
    BY <1>4, <2>1 DEF CheckAppExited, ExitedProcesses, Has, NoTask, ActiveTasks, TaskStates
  <2>4. task'.pid = q
    BY <1>1, <1>4, <2>1, <2>2, <2>3, AfterExitStates DEF TaskTypes
  <2>5. \A p \in Pids : Alive(p)' =>
           p # q /\ ~(~proc'[p].orphan /\ proc'[p].segment = jobs)
    BY <1>2, <1>4 DEF OwnProcess, Alive
  <2> QED
    BY <1>1, <1>2, <2>4, <2>5 DEF OwnProcess, Conversations, Talking
<1>5. CASE ~(task # NoTask /\ task.pid = q)
  <2>1. task' = task
    BY <1>1, <1>5, TaskCases DEF CheckAppExited
  <2>2. OwnProcess'
    BY <1>1, <1>3, <2>1, OwnStays DEF Has, OwnProcess
  <2>3. ASSUME NEW p \in Pids, Talking(p)' PROVE Conversation(p)'
    <3>1. p # q /\ Talking(p)
      BY <1>2, <2>1, <2>3 DEF Talking, Alive, Has
    <3> QED
      BY <1>1, <1>2, <2>1, <3>1, SameWords DEF Conversations, Has
  <2> QED
    BY <2>2, <2>3 DEF Conversations
<1> QED
  BY <1>4, <1>5

(* A job gets the slot, is over, or is looked at again after a restart.    *)
LEMMA NewTaskKeepsTalk ==
    ASSUME TasksInv, NewTask \/ HandleFinished \/ Crash
    PROVE  OwnProcess' /\ Conversations'
<1>1. CASE NewTask
  <2>1. /\ task' = TaskOf(jobs') /\ jobs' = jobs + 1 /\ jobs \in Nat /\ proc' = proc
    BY <1>1 DEF NewTask, TasksInv, TaskTypes
  <2>2. task'.pid = 0 /\ task'.state = "UNINITIALIZED" /\ jobs' \notin 1..jobs
    BY <2>1 DEF TaskOf
  <2>3. \A p \in Pids : Alive(p)' => proc'[p].segment # jobs'
    BY <2>1, <2>2 DEF TasksInv, SegmentsPast, Alive
  <2> QED
    BY <2>2, <2>3, AppRuntimeAssumption DEF OwnProcess, Conversations, Talking, Has
<1>2. CASE HandleFinished
  BY <1>2 DEF HandleFinished, OwnProcess, Conversations, Talking, Has, NoTask
<1>3. CASE Crash
  <2>1. proc \in [Pids -> Processes] /\ RuntimeTypes /\ jobs' = jobs
    BY <1>3 DEF TasksInv, RuntimeTypes, Crash
  <2>2. \A p \in Pids : Alive(p)' => proc'[p].orphan
    <3> SUFFICES ASSUME NEW p \in Pids, Alive(p)' PROVE proc'[p].orphan
      OBVIOUS
    <3>1. proc'[p] = Orphaned(proc[p])
      BY <1>3 DEF Crash
    <3>2. Alive(p)
      BY <2>1, <3>1, ProcessCases DEF Orphaned, Alive, None, Running, ExitedProcesses
    <3>3. proc[p] \in LiveProcesses
      BY <2>1, <3>2, ProcessCases
    <3> QED
      BY <3>1, <3>3 DEF Orphaned, LiveProcesses, Running
  <2>3. task' = NoTask \/ (task'.pid = 0 /\ task'.state = "UNINITIALIZED")
    BY <1>3 DEF Crash, TaskOf
  <2> QED
    BY <2>2, <2>3, AppRuntimeAssumption DEF OwnProcess, Conversations, Talking, Has, NoTask
<1> QED
  BY <1>1, <1>2, <1>3

LEMMA TalkGoesOn ==
    TasksInv /\ OwnProcess /\ Conversations /\ Alone /\ [Next]_vars
      => OwnProcess' /\ Conversations'
<1> SUFFICES ASSUME TasksInv, OwnProcess, Conversations, Alone, [Next]_vars
             PROVE  OwnProcess' /\ Conversations'
  OBVIOUS
<1>1. CASE UNCHANGED vars
  BY <1>1 DEF vars, runtimeVars, taskVars, OwnProcess, Conversations, Conversation, Talking,
     Told, HeardLast, ChannelLast, QueueBefore, QueueLast, Alive, Has
<1>2. ASSUME NEW p \in Pids, Process(p) PROVE OwnProcess' /\ Conversations'
  BY <1>2, ProcessKeepsTalk
<1>3. CASE ClientStep
  <2>1. CASE MessageTimeout \/ PendingTimeout
    BY <2>1, KillKeepsTalk DEF MessageTimeout, PendingTimeout, RequestPending, ProcessExists, Has
  <2>2. CASE Schedule
    BY <2>2, ResumeOrStartKeepsTalk DEF Schedule
  <2>3. CASE FinishFileTooLong \/ ElapsedLimit \/ AbortReported
    BY <2>3, AbortKeepsTalk DEF FinishFileTooLong, ElapsedLimit, AbortReported, Has, NoTask
  <2>4. CASE SendQueued \/ FinishFileFound
    BY <2>4, NotesKeepTalk
  <2>5. CASE NewTask \/ HandleFinished
    BY <2>5, NewTaskKeepsTalk
  <2>6. CASE \E p \in Pids : CheckAppExited(p)
    BY <2>6, CheckAppExitedKeepsTalk
  <2> QED
    BY <1>3, <2>1, <2>2, <2>3, <2>4, <2>5, <2>6 DEF ClientStep
<1>4. CASE ClientOption
  <2>1. CASE Preempt
    BY <2>1, RequestKeepsTalk DEF Preempt, Has
  <2>2. CASE Unschedule \/ Checkpointed
    BY <2>2, NotesKeepTalk
  <2>3. CASE UnsuspendAll
    BY <2>3, ResumeOrStartKeepsTalk DEF UnsuspendAll
  <2>4. CASE Abort
    BY <2>4, AbortKeepsTalk DEF Abort, Has, NoTask
  <2>5. CASE Crash
    BY <2>5, NewTaskKeepsTalk
  <2> QED
    BY <1>4, <2>1, <2>2, <2>3, <2>4, <2>5 DEF ClientOption
<1> QED
  BY <1>1, <1>2, <1>3, <1>4 DEF Next

(* Whatever way suspensions and resumptions cross, for any number of them  *)
(* and of processes: the last message agrees with what the client takes    *)
(* the task for, as long as only its own processes read the channel        *)
(* (LastMessageAgrees).                                                    *)
THEOREM LastMessageIsRight == Spec => LastMessageAgrees
<1>1. Init => OwnProcess /\ Conversations
  BY DEF Init, TaskInit, NoTask, OwnProcess, Conversations, Talking, Has
<1>2. TasksInv /\ OwnProcess /\ Conversations /\ Alone /\ [Next]_vars
        => OwnProcess' /\ Conversations'
  BY TalkGoesOn
<1>3. TasksInv /\ OwnProcess /\ Conversations => Agrees
  BY ConversationAgrees
<1> QED
  BY <1>1, <1>2, <1>3, TasksAreSound, PTL DEF Spec, LastMessageAgrees
=============================================================================
