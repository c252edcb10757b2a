------------------------------ MODULE JobCache ------------------------------
(***************************************************************************)
(* The job cache: an array of slots in shared memory (sched_shmem.h) that  *)
(* the feeder fills from the database (feeder.cpp) and scheduler processes *)
(* empty (sched_score.cpp, handle_request.cpp).  The processes share a     *)
(* semaphore that the kernel frees when its owner dies; the feeder never   *)
(* takes it.  A step is what a process does between two accesses to shared *)
(* memory, to the semaphore or to the database.                            *)
(***************************************************************************)
EXTENDS Integers, FiniteSets

CONSTANTS
    NSlots,        \* config.shmem_work_items
    Results,       \* ids of results
    Wu,            \* the workunit of each result
    Pids,          \* process ids of scheduler processes
    EnumLimit,     \* config.feeder_query_size
    PurgeStale,    \* the feeder runs with --purge_stale
    MayReread,     \* an operator may create the trigger file reread_db
    FeederPauses,  \* processes may run between the feeder's check of a pid and its reset
    PidsWrap,      \* the id of a process that ended may be used again
    MayFail        \* workunits may get an error

EMPTY == 0          \* WR_STATE_EMPTY
PRESENT == 1        \* WR_STATE_PRESENT
Nobody == 0         \* no process has the semaphore
NoResult == 0

Slots == 1..NSlots
SlotStates == {EMPTY, PRESENT} \cup Pids
ResultIds == Results \cup {NoResult}
DbStates == {"NONE", "UNSENT", "IN_PROGRESS", "SUCCESS", "DIDNT_NEED"}
Jobs == [slot : Slots, r : ResultIds]

ASSUME JobCacheAssumption ==
    /\ NSlots \in Nat \ {0} /\ EnumLimit \in Nat \ {0}
    /\ NoResult \notin Results
    /\ {EMPTY, PRESENT, Nobody} \cap Pids = {}
    /\ DOMAIN Wu = Results
    /\ {PurgeStale, MayReread, FeederPauses, PidsWrap, MayFail} \subseteq BOOLEAN

VARIABLES
    slot,      \* slot[i]: the state and resultid of wu_results[i]
    ready,     \* the feeder finished a pass
    sema,      \* the process that has the semaphore
    proc,      \* proc[p]: the scheduler process with id p
    feeder,    \* the feeder's pass over the slots and its cursor
    db,        \* db[r]: server_state or outcome of result r
    failed     \* workunits with an error_mask

cacheVars == <<slot, ready, sema, proc, feeder>>
vars == <<slot, ready, sema, proc, feeder, db, failed>>

idle(pc) == [pc |-> pc, slot |-> 1, r |-> NoResult, jobs |-> {}]

Init ==
    /\ slot = [i \in Slots |-> [state |-> EMPTY, r |-> NoResult]]
    /\ ready = FALSE
    /\ sema = Nobody
    /\ proc = [p \in Pids |-> idle("new")]
    /\ feeder = [pc |-> "visit", i |-> 1, pid |-> 0, phase |-> "SECOND",
                 active |-> FALSE, rows |-> {}]
    /\ db \in [Results -> {"NONE", "UNSENT"}]
    /\ failed = {}

Goto(p, pc) == proc' = [proc EXCEPT ![p].pc = pc]
Send(p, jobs) == proc' = [proc EXCEPT ![p] = [idle("send") EXCEPT !.jobs = jobs]]
SetState(i, state) == slot' = [slot EXCEPT ![i].state = state]
Unlocked(p) == IF sema = p THEN Nobody ELSE sema

\* Processes are kept from running while the feeder looks at a pid.
MayRun == FeederPauses \/ feeder.pc \notin {"stat", "reset"}

-----------------------------------------------------------------------------
Start(p) ==
    /\ proc[p].pc \in (IF PidsWrap THEN {"new", "dead"} ELSE {"new"})
    /\ ready
    /\ Goto(p, "begin")
    /\ UNCHANGED <<slot, ready, sema, feeder, db, failed>>

\* lock_sema(), before no_work() and before jobs are checked again.
Lock(p) ==
    /\ \/ proc[p].pc = "begin" /\ Goto(p, "look")
       \/ proc[p].pc = "send" /\ proc[p].jobs # {} /\ Goto(p, "locked")
    /\ sema = Nobody
    /\ sema' = p
    /\ UNCHANGED <<slot, ready, feeder, db, failed>>

\* no_work(): the request is served only if there is a job to reserve for it.
FindWork(p) ==
    /\ proc[p].pc = "look" /\ ready
    /\ \E i \in Slots :
         /\ slot[i].state = PRESENT
         /\ proc' = [proc EXCEPT ![p].pc = "found", ![p].slot = i]
    /\ UNCHANGED <<slot, ready, sema, feeder, db, failed>>

NoWork(p) ==
    /\ proc[p].pc = "look"
    /\ ready => \A i \in Slots : slot[i].state # PRESENT
    /\ proc' = [proc EXCEPT ![p] = idle("dead")]
    /\ sema' = Nobody
    /\ UNCHANGED <<slot, ready, feeder, db, failed>>

\* The process writes its id into the slot and frees the semaphore.
Reserve(p) ==
    /\ \/ proc[p].pc = "found" /\ Goto(p, "scan")
       \/ proc[p].pc = "checked" /\ Goto(p, "slow")
    /\ SetState(proc[p].slot, p)
    /\ sema' = Nobody
    /\ UNCHANGED <<ready, feeder, db, failed>>

Usable(p, i) == slot[i].state \in {PRESENT, p}

\* The scan without the semaphore: get_score() may reject any job.  It is one
\* step, since each job is checked again on its own before it is taken.
Scan(p) ==
    /\ proc[p].pc = "scan"
    /\ \A i \in Slots : Usable(p, i) => slot[i].r # NoResult
    /\ \E taken \in SUBSET {i \in Slots : Usable(p, i)} :
         Send(p, {[slot |-> i, r |-> slot[i].r] : i \in taken})
    /\ UNCHANGED <<slot, ready, sema, feeder, db, failed>>

\* lookup_app() finds no app for a cleared record, and the process follows the
\* null pointer that it returns.
Crash(p) ==
    /\ proc[p].pc = "scan"
    /\ \E i \in Slots : Usable(p, i) /\ slot[i].r = NoResult
    /\ proc' = [proc EXCEPT ![p] = idle("dead")]
    /\ UNCHANGED <<slot, ready, sema, feeder, db, failed>>

\* Mutant: jobs are not checked again under the semaphore.
StillThereUnchecked(p, job) == TRUE
StillThere(p, job) == Usable(p, job.slot) /\ slot[job.slot].r = job.r

\* wu_is_infeasible_fast() may reject a job that is still there.
Recheck(p) ==
    /\ proc[p].pc = "locked"
    /\ \E job \in proc[p].jobs :
         \/ proc' = [proc EXCEPT ![p].jobs = @ \ {job}]
         \/ /\ StillThere(p, job)
            /\ proc' = [proc EXCEPT ![p].pc = "checked", ![p].slot = job.slot,
                                    ![p].r = job.r, ![p].jobs = @ \ {job}]
    /\ UNCHANGED <<slot, ready, sema, feeder, db, failed>>

CannotSendHere(p) ==
    /\ proc[p].pc = "slow"
    /\ SetState(proc[p].slot, PRESENT)
    /\ Send(p, proc[p].jobs)
    /\ UNCHANGED <<ready, sema, feeder, db, failed>>

CannotSendAnywhere(p) ==
    /\ proc[p].pc = "slow"
    /\ slot[proc[p].slot].r \in Results /\ Wu[slot[proc[p].slot].r] \in failed
    /\ SetState(proc[p].slot, EMPTY)
    /\ Send(p, proc[p].jobs)
    /\ UNCHANGED <<ready, sema, feeder, db, failed>>

CanSend(p) ==
    /\ proc[p].pc = "slow"
    /\ SetState(proc[p].slot, EMPTY)
    /\ Goto(p, "reread")
    /\ UNCHANGED <<ready, sema, feeder, db, failed>>

\* result.id = wu_result.resultid, read from the slot that is already free,
\* and result_still_sendable().
Reread(p) ==
    /\ proc[p].pc = "reread"
    /\ LET r == slot[proc[p].slot].r IN
         IF r \in Results /\ db[r] = "UNSENT" /\ Wu[r] = Wu[proc[p].r]
         THEN proc' = [proc EXCEPT ![p].pc = "mark", ![p].r = r]
         ELSE Send(p, proc[p].jobs)
    /\ UNCHANGED <<slot, ready, sema, feeder, db, failed>>

\* add_result_to_reply() and mark_as_sent().
MarkAsSent(p) ==
    /\ proc[p].pc = "mark"
    /\ db' = [db EXCEPT ![proc[p].r] = IF @ = "UNSENT" THEN "IN_PROGRESS" ELSE @]
    /\ Send(p, proc[p].jobs)
    /\ UNCHANGED <<slot, ready, sema, feeder, failed>>

\* The jobs are used up or the host needs no more.
Leave(p) ==
    /\ proc[p].pc \in {"scan", "send", "locked"}
    /\ proc' = [proc EXCEPT ![p] = idle("leave")]
    /\ sema' = Unlocked(p)
    /\ UNCHANGED <<slot, ready, feeder, db, failed>>

\* restore_work(): the first slot in the process's name, without the semaphore.
RestoreWork(p) ==
    LET mine == {i \in Slots : slot[i].state = p} IN
    IF mine = {} THEN UNCHANGED slot
    ELSE \E i \in mine : (\A j \in mine : i <= j) /\ SetState(i, PRESENT)

Exit(p) ==
    /\ proc[p].pc = "leave"
    /\ RestoreWork(p)
    /\ proc' = [proc EXCEPT ![p] = idle("dead")]
    /\ UNCHANGED <<ready, sema, feeder, db, failed>>

\* The process is killed: SEM_UNDO frees the semaphore, nothing frees the slot.
Die(p) ==
    /\ proc[p].pc \notin {"new", "dead"}
    /\ proc' = [proc EXCEPT ![p] = idle("dead")]
    /\ sema' = Unlocked(p)
    /\ UNCHANGED <<slot, ready, feeder, db, failed>>

ProcessStep(p) ==
    /\ MayRun
    /\ \/ Lock(p) \/ FindWork(p) \/ NoWork(p) \/ Reserve(p)
       \/ Scan(p) \/ Crash(p) \/ Recheck(p)
       \/ CannotSendHere(p) \/ CannotSendAnywhere(p) \/ CanSend(p)
       \/ Reread(p) \/ MarkAsSent(p) \/ Leave(p) \/ Exit(p)

Birth(p) == MayRun /\ Start(p)
Death(p) == MayRun /\ Die(p)

-----------------------------------------------------------------------------
\* Mutant: one slot too many.
NextSlotPastEnd ==
    IF feeder.i <= NSlots THEN [feeder EXCEPT !.pc = "visit", !.i = @ + 1, !.pid = 0]
    ELSE [feeder EXCEPT !.pc = "ready", !.i = 1, !.pid = 0]
NextSlot ==
    IF feeder.i < NSlots THEN [feeder EXCEPT !.pc = "visit", !.i = @ + 1, !.pid = 0]
    ELSE [feeder EXCEPT !.pc = "ready", !.i = 1, !.pid = 0]

\* An empty slot is filled unless the enumeration has ended twice.
FillOrSkip == IF feeder.phase = "OVER" THEN NextSlot ELSE [feeder EXCEPT !.pc = "get"]

\* scan_work_array() reads the state of its next slot.
FeederVisit ==
    /\ feeder.pc = "visit"
    /\ LET state == slot[feeder.i].state IN
         \/ state = EMPTY /\ feeder' = FillOrSkip
         \/ state = PRESENT /\ feeder' = NextSlot
         \/ state = PRESENT /\ PurgeStale /\ feeder' = [feeder EXCEPT !.pc = "purge"]
         \/ state \in Pids /\ feeder' = [feeder EXCEPT !.pc = "stat", !.pid = state]
    /\ UNCHANGED <<slot, ready, sema, proc, db, failed>>

\* After purge_stale() updated the workunit.
FeederPurge ==
    /\ feeder.pc = "purge"
    /\ SetState(feeder.i, EMPTY)
    /\ feeder' = FillOrSkip
    /\ UNCHANGED <<ready, sema, proc, db, failed>>

\* /proc/<pid> exists.
Alive(p) == proc[p].pc \notin {"new", "dead"}

FeederStat ==
    /\ feeder.pc = "stat"
    /\ feeder' = IF Alive(feeder.pid) THEN NextSlot ELSE [feeder EXCEPT !.pc = "reset"]
    /\ UNCHANGED <<slot, ready, sema, proc, db, failed>>

\* Mutant: the slot of a dead process is left alone.
ResetNothing == UNCHANGED slot
ResetSlot == SetState(feeder.i, PRESENT)

FeederReset ==
    /\ feeder.pc = "reset"
    /\ ResetSlot
    /\ feeder' = NextSlot
    /\ UNCHANGED <<ready, sema, proc, db, failed>>

\* DB_WORK_ITEM::enumerate() with no cursor: EnumLimit unsent results, with
\* what the workunit's error_mask is now.
FeederQuery ==
    /\ feeder.pc = "get" /\ ~feeder.active
    /\ LET unsent == {r \in Results : db[r] = "UNSENT"} IN
       \E rs \in SUBSET unsent :
         /\ Cardinality(rs) <= EnumLimit
         /\ Cardinality(rs) = EnumLimit \/ rs = unsent
         /\ feeder' = [feeder EXCEPT !.active = TRUE,
                         !.rows = {[r |-> r, error |-> Wu[r] \in failed] : r \in rs}]
    /\ UNCHANGED <<slot, ready, sema, proc, db, failed>>

\* Mutant: reserved slots are not searched.
CollidesWithPresent(r) == \E i \in Slots : slot[i].state = PRESENT /\ slot[i].r = r
Collides(r) == \E i \in Slots : slot[i].state # EMPTY /\ slot[i].r = r

\* get_job_from_db() looks at the next row of the cursor, which may be left
\* over from an earlier pass.
FeederFetch ==
    /\ feeder.pc = "get" /\ feeder.active
    /\ \E row \in feeder.rows :
         LET rest == feeder.rows \ {row} IN
         \/ /\ row.error
            /\ db' = [db EXCEPT ![row.r] = "DIDNT_NEED"]
            /\ feeder' = [feeder EXCEPT !.rows = rest]
            /\ UNCHANGED slot
         \/ /\ ~row.error /\ Collides(row.r)
            /\ feeder' = [feeder EXCEPT !.rows = rest]
            /\ UNCHANGED <<slot, db>>
         \/ /\ ~row.error /\ ~Collides(row.r)
            /\ slot' = [slot EXCEPT ![feeder.i] = [state |-> PRESENT, r |-> row.r]]
            /\ feeder' = [NextSlot EXCEPT !.rows = rest]
            /\ UNCHANGED db
    /\ UNCHANGED <<ready, sema, proc, failed>>

\* The end of the cursor: it is restarted once in a pass.
NextPhase ==
    IF feeder.phase = "FIRST"
    THEN [feeder EXCEPT !.active = FALSE, !.phase = "SECOND"]
    ELSE [NextSlot EXCEPT !.active = FALSE, !.phase = "OVER"]

FeederEndOfRows ==
    /\ feeder.pc = "get" /\ feeder.active /\ feeder.rows = {}
    /\ feeder' = NextPhase
    /\ UNCHANGED <<slot, ready, sema, proc, db, failed>>

FeederReady ==
    /\ feeder.pc = "ready"
    /\ ready' = TRUE
    /\ feeder' = [feeder EXCEPT !.pc = "trigger"]
    /\ UNCHANGED <<slot, sema, proc, db, failed>>

\* Mutant: the phase is not set anew for a pass.
PhaseOfLastPass == feeder.phase
\* A pass that starts with rows left over may restart the enumeration.
PhaseOfPass == IF feeder.active THEN "FIRST" ELSE "SECOND"

\* check_reread_trigger(): SCHED_SHMEM::init() clears the whole segment.
FeederTrigger ==
    /\ feeder.pc = "trigger"
    /\ \/ UNCHANGED <<slot, ready>>
       \/ /\ MayReread
          /\ slot' = [i \in Slots |-> [state |-> EMPTY, r |-> NoResult]]
          /\ ready' = FALSE
    /\ feeder' = [feeder EXCEPT !.pc = "visit", !.phase = PhaseOfPass]
    /\ UNCHANGED <<sema, proc, db, failed>>

FeederStep ==
    \/ FeederVisit \/ FeederPurge \/ FeederStat \/ FeederReset
    \/ FeederQuery \/ FeederFetch \/ FeederEndOfRows \/ FeederReady \/ FeederTrigger

-----------------------------------------------------------------------------
\* What the other programs do to the database.

\* The transitioner creates a result.
Create(r) ==
    /\ db[r] = "NONE" /\ Wu[r] \notin failed
    /\ db' = [db EXCEPT ![r] = "UNSENT"]
    /\ UNCHANGED <<failed, cacheVars>>

\* A host reports a result.
Return(r) ==
    /\ db[r] = "IN_PROGRESS"
    /\ db' = [db EXCEPT ![r] = "SUCCESS"]
    /\ UNCHANGED <<failed, cacheVars>>

\* The validator, the transitioner or an operator gives an error to a workunit ...
Fail(w) ==
    /\ MayFail /\ w \notin failed
    /\ failed' = failed \cup {w}
    /\ UNCHANGED <<db, cacheVars>>

\* ... and the transitioner ends its unsent results, as it does once the
\* workunit has a canonical result.
EndUnsent(w) ==
    /\ w \in failed \/ \E r \in Results : Wu[r] = w /\ db[r] = "SUCCESS"
    /\ db' = [r \in Results |-> IF db[r] = "UNSENT" /\ Wu[r] = w THEN "DIDNT_NEED" ELSE db[r]]
    /\ UNCHANGED <<failed, cacheVars>>

Workunits == {Wu[r] : r \in Results}

DatabaseStep ==
    \/ \E r \in Results : Create(r) \/ Return(r)
    \/ \E w \in Workunits : Fail(w) \/ EndUnsent(w)

Next ==
    \/ \E p \in Pids : Birth(p) \/ ProcessStep(p) \/ Death(p)
    \/ FeederStep
    \/ DatabaseStep

Spec == Init /\ [][Next]_vars

\* The feeder and every process keep running until they end; the kernel gives
\* the semaphore to those that wait for it.
FairSpec ==
    /\ Spec
    /\ WF_vars(FeederStep)
    /\ \A p \in Pids : WF_vars(ProcessStep(p)) /\ SF_vars(MayRun /\ Lock(p))

-----------------------------------------------------------------------------
FeederPcs == {"visit", "purge", "stat", "reset", "get", "ready", "trigger"}
ProcPcs == {"new", "begin", "look", "found", "scan", "send", "locked", "checked", "slow", "reread",
            "mark", "leave", "dead"}

\* The variables have their types (type invariant).
CacheTypeOK ==
    /\ slot \in [Slots -> [state : SlotStates, r : ResultIds]]
    /\ ready \in BOOLEAN
    /\ sema \in Pids \cup {Nobody}
    /\ proc \in [Pids -> [pc : ProcPcs, slot : Slots, r : ResultIds,
                          jobs : SUBSET Jobs]]
    /\ feeder \in [pc : FeederPcs, i : Slots, pid : Pids \cup {0},
                   phase : {"FIRST", "SECOND", "OVER"}, active : BOOLEAN,
                   rows : SUBSET [r : Results, error : BOOLEAN]]
    /\ db \in [Results -> DbStates]
    /\ failed \subseteq Workunits

\* "EMPTY, PRESENT, or PID of locking process" (sched_shmem.h:69): while a
\* process makes its slow checks on a slot without the semaphore, the slot
\* stays in its name, so that no other process can take the job.
SlotHeldWhileChecked ==
    \A p \in Pids : proc[p].pc = "slow" => slot[proc[p].slot].state = p

\* A result is in at most one slot, in spite of slots that are given back
\* while the feeder looks for collisions (feeder.cpp:323-349).
CachedOnce ==
    \A i, j \in Slots : i # j /\ slot[i].state # EMPTY /\ slot[i].r # NoResult
                          => slot[j].state = EMPTY \/ slot[j].r # slot[i].r

\* "we created the result but didn't need to send it" (boinc_db_types.h:571):
\* that outcome is not given to a result that was sent.
DidntNeedWasNotSent ==
    [][\A r \in Results : db[r] \in {"IN_PROGRESS", "SUCCESS"} => db'[r] # "DIDNT_NEED"]_vars

\* An unsent result does not wait outside the array for ever while a slot is empty.
Refilled ==
    \A r \in Results :
        []<>(\/ db[r] # "UNSENT"
             \/ \E i \in Slots : slot[i].state # EMPTY /\ slot[i].r = r
             \/ \A i \in Slots : slot[i].state # EMPTY)

\* "The feeder tries to keep the work array filled" (feeder.cpp:41), also while
\* there are more unsent results than a query returns.  The query must not be
\* shorter than the array: a short one may return, again and again, only rows
\* that are in the array already, in spite of "either one may be larger"
\* (feeder.cpp:49-50).
SlotsAreRefilled == EnumLimit >= NSlots => Refilled

\* A slot does not stay in the name of a process for ever, wherever the
\* process leaves its request and also if it dies (feeder.cpp:527-541).
ReservationEnds ==
    \A p \in Pids, i \in Slots : []<>(slot[i].state # p)
=============================================================================
