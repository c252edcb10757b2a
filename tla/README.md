# A TLA+ verification of BOINC

BOINC distributes the jobs of a project to volunteers' computers.  A job (a *workunit*) is
turned into several *results*, each sent to one host; the results that come back are
compared, one of them becomes *canonical*, credit is granted, and the job is handed to the
project and then deleted.  All of this is done by independent daemons and by one scheduler
process per request.  They share a MySQL database, hold no locks in it and use no
transactions: every one of them reads rows into memory, thinks, and writes single
statements back.  The correctness of a job's life rests on which columns each process
writes, in which order, and on who wakes up whom.

On the volunteer's computer the *client* asks schedulers for jobs, runs them as processes in
*slots*, uploads their output files and reports them.  It is one thread that polls, and may be killed
at any time; what it talks to are CGI programs that may die, answer late or not at all, and
processes with two threads each, with which it shares memory.

The project models both: a job in the server's database, the job cache in shared memory, an upload, a
computer and its scheduler, and a task with its processes.

- [The system](#the-system): inventory, interactions, what is hard
- [The model](#the-model): modules, and how they correspond to the code
- [The runs](#the-runs): what TLC checks, bounds, fairness
- [Findings](#findings)
- [The proofs](#the-proofs)
- [What is left out](#what-is-left-out), [The plan](#the-plan)

Every definition that translates code is listed in `PROJECT.json` under `map`, with its
lines.  To check: `tlc -config Serial.cfg ServerMC`, `tlc -config CacheLocks.cfg JobCacheMC`, and so on: `PROJECT.json` lists the module of each run;
`tlapm ServerProofs.tla`, and the same for the other modules of proofs.

## The system

### Components

| part | source | state | operations |
|---|---|---|---|
| database | `db/boinc_db.cpp`, `db/boinc_db_types.h`, `db/db_base.cpp` | rows of `workunit`, `result`, `host`, `user`, ... | single SQL statements |
| transitioner | `sched/transitioner.cpp` | the rows it enumerated | `handle_wu()`: time out results, count them, record errors, make new results, set `need_validate`, `assimilate_state`, `file_delete_state`, compute the next `transition_time` |
| validator | `sched/validator.cpp`, `sched/validate_util2.cpp`, `sched/credit.cpp` | the rows it enumerated | `handle_wu()`: `check_set()` elects a canonical result, `check_pair()` compares a late result with it, `grant_credit()` |
| assimilator | `sched/assimilator.cpp` | one workunit | calls the project's `assimilate_handler()` once the job is decided |
| file deleter | `sched/file_deleter.cpp` | none | deletes input and output files, records `file_delete_state` |
| database purge | `sched/db_purge.cpp` | none | archives and deletes the rows of jobs whose input files are deleted |
| scheduler CGI | `sched/handle_request.cpp`, `sched_send.cpp`, `sched_check.cpp`, `sched_result.cpp`, `sched_resend.cpp` | the request, one host lock | takes reports, re-sends lost results, sends new ones |
| feeder and job cache | `sched/feeder.cpp`, `sched_array.cpp`, `sched_shmem.cpp` | slots in shared memory | keeps unsent results in memory; scheduler processes reserve slots under a semaphore |
| job creation, cancellation | `tools/backend_lib.cpp` | none | `create_work()`, `cancel_job()` |
| file upload handler | `sched/file_upload_handler.cpp` | files, file locks | appends to output files at an offset |
| locality scheduling, assignments, NCI | `sched/sched_locality.cpp`, `sched_assign.cpp`, ... | working sets | other choices of the result to send |
| mobile grid replication | `sched/sched_mge.cpp` | host scores | chooses hosts for replicas by battery and availability (`BOINCMGE` builds) |
| trickles, messages | `sched/trickle_handler.cpp`, `message_handler.cpp` | message rows | deliver messages to project code |
| volunteer data archival | `vda/` | chunks, hosts | coded storage on volunteers' disks |
| client: state file | `client/cs_statefile.cpp` | `client_state.xml`, its previous and its next version | write in steps, recover the first valid one |
| client: scheduler requests | `client/scheduler_op.cpp`, `client/cs_scheduler.cpp`, `client/client_state.cpp` | `hostid`, `rpc_seqno`, results with `got_server_ack` | request, retry at other schedulers, handle reply, delete what is acknowledged |
| client: file transfers | `client/pers_file_xfer.cpp`, `client/file_xfer.cpp`, `client/cs_files.cpp` | persistent transfers, URL lists, offsets | start, resume, back off, give up, delete the file |
| client: task control | `client/app_control.cpp`, `client/app_start.cpp`, `client/app.cpp`, `client/cs_apps.cpp` | one `ACTIVE_TASK` per slot, message queues | start, suspend, resume, quit, abort, kill, exit status, timeouts |
| client: CPU scheduling, work fetch | `client/cpu_sched.cpp`, `client/rr_sim.cpp`, `client/work_fetch.cpp` | debts, run list | which tasks run, when to ask for work |
| client: GUI RPC, account managers | `client/gui_rpc_server_ops.cpp`, `client/acct_mgr.cpp` | flags for the main loop | requests of the user |
| application runtime | `api/boinc_api.cpp`, `lib/app_ipc.cpp` | shared-memory channels, lock file, `boinc_status` | timer thread, signal handler, critical sections, finish, temporary exit |
| interfaces | `clientgui/`, `clientscr/`, `html/`, `android/` | none of its own | presentation |

### Interactions

- **The workunit row** carries all messages between daemons.  `transition_time` wakes up the
  transitioner; the scheduler, the validator, the assimilator, `cancel_job()` and time set or
  reach it.  `need_validate` wakes up the validator, `assimilate_state = READY` the
  assimilator, `file_delete_state = READY` the file deleter, `file_delete_state = DONE` the
  purge.
- **Columns have several writers.**  `transition_time` is written by all of the above.
  `error_mask` is written by the transitioner, the validator, the assimilator and
  `cancel_job()`.  `result.server_state` and `outcome` are written by the scheduler, the
  transitioner, the validator and `cancel_job()`.
- **How much is written differs.**  The transitioner's `update_workunit()` writes only the
  columns it changed in memory; the validator's writes all of its columns, changed or not;
  the scheduler's `mark_as_sent()` is guarded by `server_state` in the statement itself, its
  `update_result()` is not.
- **The client and the scheduler** exchange one file each way.  The request carries results to report, the names of
  all other results and a sequence number; the reply new results, acknowledgements and wishes to abort.  The sequence number is how
  the server notices that two computers use copies of one state file.
- **The client and the upload handler** exchange a size query and then the rest of the file; the handler locks the file, and what it
  has written stays for the next attempt.
- **The client and an application** share the slot's files (lock file, finish file, temporary exit file) and channels that hold one message;
  the client queues what does not fit.
- **Locks** exist per host only: `lock_sched()` keeps two scheduler processes from serving
  one host at a time.  One instance of each daemon is assumed (they can be sharded by id,
  which again gives one instance per job).

### What is hard

Two steps of different processes in an order nobody tested; rows read early and written
late; a crash between two statements of one handler; replies that are lost and reports that
are repeated; a result that comes back after it timed out, after the job was decided, after
the canonical output was deleted; a wakeup that is overwritten; limits met exactly.
In the client: a crash between two writes of a state that lives in several places; a failure seen by one function and
erased by another before a third looks; a message that is taken back when it has already been read; a process that hangs, sleeps or
outlives the client.  `PROJECT.json` lists under `hazards` every such place with its line, and the properties
that cover it.

### What makes each part correct

- *Transitioner*: never more results than `max_total_results`; no input file released
  while someone needs it; errors are kept; decided jobs come to an end.
- *Validator*: one canonical result; everything valid agrees with it; nobody paid twice; a
  verdict for every success.
- *Assimilator, deleter, purge*: the output is there when it is assimilated, and nothing is
  removed before.
- *Job cache*: a slot is held by one process while it is checked and comes free again
  whatever becomes of the process; a result is in one slot; the slots are filled as long as
  there is something to fill them with.
- *Upload handler and file transfer*: what a server holds is a prefix of the file and never shrinks; the client keeps its copy
  until it is stored or given up; transfers end.
- *State file*: after any crash the state last saved, or the one being saved, is read.
- *Scheduler requests*: work in progress is not given up by mistake, finished work is recorded before it is dropped, and is reported in the end.
- *Task control and runtime*: one process computes a job; the application obeys the last message; requests and jobs end.
- *Scheduler*: a result goes to one host, one result of a job to one owner, hosts of one
  class where results are comparable only then; what was acknowledged is not lost.

## The model

There are five specifications: `Server`, the life of a job in the database; `JobCache`, the slots
in shared memory between the feeder and the scheduler processes; `Upload`, an output file on its way; `Reporting`, a
computer and its scheduler; `Tasks`, a slot of the client and its processes.

### The life of a job

One workunit row and its results.  Jobs share no row but those of hosts, users and teams, which the model
does not have, so one job is enough; everything else that happens to the server happens to
other rows.

| module | what it is |
|---|---|
| `BoincDb` | the two tables: row types, the row of a new job, statements by id, the passage of time |
| `Transitioner` | `enumerate()` and `handle_wu()` |
| `Validator` | `handle_wu()`, `check_set()`, `check_pair()` |
| `Assimilator` | `do_pass()` |
| `FileDeleter` | the file deleter and the database purge |
| `Scheduler` | one process per host, and `cancel_job()` |
| `Server` | the composition: `Next`, `Spec`, fairness, `TypeOK` |
| `Job` | the abstract life of a job |
| `ServerProperties` | invariants, action properties, liveness, the inductive invariant, the refinement mapping to `Job` |
| `ServerMC` | definitions for the configurations |
| `ServerProofs` | type correctness; results only move forward |
| `JobProofs` | decisions about a job, its files, and the refinement of `Job` |
| `VolunteerProofs` | which hosts compute a job, what they return, verdicts and credit |
| `JobCache` | the slots, the feeder, the scheduler processes, and what others do to the results |
| `JobCacheMC` | definitions for the configurations |
| `JobCacheProofs` | types, slots held by one process, results cached once |
| `UploadHandler`, `FileTransfer` | the CGI program and the client's transfer of one output file |
| `Upload`, `UploadMC` | their composition and properties; definitions for the configurations |
| `UploadProofs` | types, and what is on the servers |
| `StateFile` | `write_state_file()`, `parse_state_file()` |
| `HostRpc`, `SchedulerOp` | a computer's requests on the server, and in the client with its results and state file |
| `Reporting`, `ReportingMC` | their composition and properties; the module of the configurations |
| `ReportingProofs`, `ReportedWorkProofs` | types and files; sequence numbers and results |
| `AppRuntime`, `TaskControl` | the processes of an application, and the client's control of one slot |
| `Tasks`, `TasksMC` | their composition and properties; definitions for the configurations |
| `TasksProofs` | types, who computes in a slot, and what its process is told last |

**State.**  `wu` and `res` are the rows; a row of `res` that is `"NONE"` was not created
yet, one that is `"PURGED"` was deleted.  `gone` is the set of results whose output file is
deleted.  `tr`, `va`, `asm`, `purge` and `cgi[h]` are the local memories of the processes: a
program counter and what they have read.  `credit` counts grants, `acked` has
the results whose report was acknowledged (the client forgets those), `cancel` is the
progress of `cancel_job()`, `faults` counts crashes and transient failures up to `MaxFaults`.

**Granularity.**  One action per SQL statement that reads or writes the two tables; the
computation between two statements belongs to the one that follows it or precedes it,
because nobody can see it.  A handler is a sequence of actions through its program counter.
For instance `handle_wu()` of the transitioner is

1. `TransitionerEnumerate`: read everything; first pass (`Scanned`: timeouts, `TOO_LATE`);
2. `TransitionerUpdateResult(r)` for each row that changed in memory;
3. `TransitionerDecide`: counts, errors, `need_validate`; either the error branch (`GivenUp`) or
   `insert_batch()` of new results; followed again by (2);
4. `TransitionerRelease`: assimilation and file deletion flags, next `transition_time`; (2) again;
5. `TransitionerUpdateWorkunit`: write back the columns that changed (`Merge`).

The rules (`Scanned`, `Decided`, `GivenUp`, `Released`, `Finished`, `CheckSet`, ...) are operators on
a snapshot, as in the code, so that what they decide can be out of date when it is written.
The order in which the rows of one pass are written is left open: the code follows ids.

**Data.**  An output file is its equivalence class under the project's `compare_results()`, or
`"unreadable"`; a host may also return `"failed"` or `"aborted"` (by the user, which the transitioner counts
as no reply).  Time is `late` (the report deadline has
passed) and `transition_time` in `now`, `later`, `never` (`INT_MAX`).

**`Preemptible`** names the processes that other processes may interrupt between two
statements.  With all six, every schedule is possible.  With none, handlers are serial: this
is what the simulator build of the daemons does, and what a lightly loaded server does
nearly always.  Some properties hold under every schedule; others hold only while
certain processes are not interrupted, and the configurations say which.  That is the most
informative result of this project: where a handler relies on not being overtaken.

### The job cache

| code | model |
|---|---|
| `wu_results[i].state`, `.resultid` | `slot[i]`: `EMPTY`, `PRESENT` or a process id; the result that was last put there (it stays when the slot is `EMPTY`) |
| `ssp->ready` | `ready` |
| the semaphore of `lock_sema()` | `sema`; processes hold it with `SEM_UNDO`, so that it is free when they die |
| one CGI process | `proc[p]`: program counter, the slot and the job it is busy with, the jobs of its scan |
| `scan_work_array()`, `get_job_from_db()` | `feeder`: program counter, slot, the pid it looks at, `enum_phase`, and the rows of the cursor, which outlives a pass |
| columns of the results | `db`, `failed` (workunits with an `error_mask`); other programs write them in `DatabaseStep` |

A step is what a process does between two accesses to the slots, to the semaphore or to the
database.  The feeder never takes the semaphore, so that every pair of its steps can be
interrupted.  A scheduler process

1. takes the semaphore (`Lock`) and looks for a job (`FindWork`, or `NoWork` and the end), writes its id into the
   slot and frees the semaphore (`Reserve`), so that `restore_work()` has something to give back;
2. scans all slots without the semaphore (`Scan`).  This is one step: what the scan saw of a slot is only a
   hint, because
3. with the semaphore (`Lock` again) it looks at the next job again (`Recheck`, `StillThere`), reserves its
   slot and frees the semaphore;
4. makes the slow checks, and gives the slot back (`CannotSendHere`) or empties it (`CannotSendAnywhere`, `CanSend`);
5. reads the id of the result from the slot, which is free by now, checks that it is unsent (`Reread`), and sends it (`MarkAsSent`);
6. gives back the first slot in its name, if any, and ends (`Leave`, `Exit`).

`Die` kills it anywhere; `Crash` is the null pointer that step 2 follows when it finds a record that was cleared.
The feeder visits the slots in turn (`FeederVisit`).  It fills an empty one from its cursor (`FeederQuery`,
`FeederFetch`, `FeederEndOfRows`), skipping results that are in another slot; resets the slot of a process that no longer exists
(`FeederStat`, `FeederReset`); with `--purge_stale` empties old ones (`FeederPurge`); and at the end of a pass
may clear the whole segment (`FeederTrigger`).

Parameters: `NSlots` and `EnumLimit` are `shmem_work_items` and `feeder_query_size`; `PurgeStale` and `MayReread` are
what an operator may switch on; `MayFail` lets the transitioner or a cancellation end the job of results that are still unsent; `FeederPauses` lets processes run between the feeder's look at `/proc/<pid>` and
its write into the slot; `PidsWrap` lets ids be used again.  They separate what holds always from what holds with luck.

Processes that serve one request are modelled; under FastCGI a process serves many, but then `restore_work()` runs after each.

### An upload

| code | model |
|---|---|
| the file on each data server, `S_IWUSR` | `stored[s]` (`NoFile`, or its bytes), `readOnly`; `removed` for what the file deleter has removed |
| `handle_get_file_size()` | `GetFileSize`, one step |
| `handle_file_upload()`, `copy_socket_to_file()` | `AcceptUpload`, `OpenFile` (open and `mylockf()`), `CheckSize` (`fstat`, `lseek`), `CopyBlock` per block |
| the client's `HTTP_OP` | `http`: a query or a post, the handler that serves it, the reply; `moved` is `file_size_query_done`'s and the counters' effect: did anything pass |
| `FILE_INFO`: `status`, `uploaded`, `upload_offset`, `upload_urls` | variables of these names, `url` for the two indices of `URL_LIST` |
| `FILE_INFO::pers_file_xfer` | `pfx`: `none`, `waiting` (backed off), `due`, `active`, `done` |
| `RESULT::state()` | `result` |
| the state file | `saved`, what a restart finds |

The bytes of the file are `1..nbytes`, 0 is a byte nobody wrote, so that holes and misplaced bytes can be told.  Each function
of the poll loop (`create_and_delete_pers_file_xfers()`, `PERS_FILE_XFER_SET::poll()`, `FILE_XFER_SET::poll()`, `garbage_collect()`, `update_results()`)
has its own period, so that they are unordered actions.  A handler whose client has gone goes on with what the web
server has buffered (`Written`), and may be killed (`Die`).  `trouble` says that network, disks and servers may still fail;
`late`, that the give-up period is over.

### A computer and its scheduler

| code | model |
|---|---|
| `client_state.xml`, `_prev`, `_next` | `name`, `prev`, `next`: a state, `Missing` or `Torn` |
| `write_state_file()` | `save`, `attempt`: `OpenNext`, `WriteNext`, `DeletePrev`, `KeepOld`, `Install`, `SaveFails` |
| `PROJECT::hostid`, `rpc_seqno` | `hostid`, `seqno` |
| `CLIENT_STATE::results` | `results`, in order: `phase` (`new`, `running`, `aborting`, `aborted`, `done`), `acked`, `unstarted` |
| the request file, the `HTTP_OP` | `request`, `conn` |
| rows of `host` and `result` | `hosts`, `job` |
| a CGI process | `cgi[h]`: `arrived`, then `authenticated` |

`make_scheduler_request()` is `SchedulerRequest` with the limit `max_tasks_reported` and the index arithmetic around it;
`handle_scheduler_reply()` is `HandleReply`.  On the server `authenticate_user()` is a step of its own, as it runs without the lock of
the host, and the rest of `process_request()` is `Serve`.  A process may run late, after the next request of the same computer.
The client's steps are passes of its loop, at the end of which a dirty state is saved (`EndPass`); `Restart` is possible between any two steps,
also those of a save.

### A task and its processes

| code | model |
|---|---|
| `ACTIVE_TASK` | `task`: `task_state()`, `process_control_queue` with `last_block`, `premature_exit_count`, `finish_file_time`, `scheduler_state`, and its result |
| `process_control_request` | `channel[segment]`: empty or one message |
| the files of the slot | `slot`: `finish`, `tempExit`, `lock` (its holder) |
| a process | `proc[p]`: what the worker thread does (`pc`), whether it sleeps in the signal handler, whether the timer thread runs and what it has just taken from the channel, `boinc_status` and `suspend_request` as `flags`, `worker_thread_exit_flag` |

The timer thread takes a message and looks at `in_critical_section` in one step (`GetMsg`) and acts in another (`Act`), so that the worker
may go on in between; `boinc_finish()` is three steps.  Processes that the client has left behind when it died are `orphan`: nobody waits for them, and they
notice (`ClientDead`).  The client's functions are actions of `TaskControl` (`CheckAppExited`, `MessageTimeout`, `SendQueued`, `PendingTimeout`, `FinishFileFound`,
`FinishFileTooLong`, `ElapsedLimit`, `HandleFinished`); what the scheduler of tasks and the user may want are `Preempt`, `Schedule`, `UnsuspendAll`, `Abort`.

### How they fit

`SchedulerOp` takes file transfers for instantaneous, `FileTransfer` tasks for finished, and `TaskControl` both for someone else's business: a result
passes from one to the next by its `state`, one way.  `HostRpc` knows of a job only what requests of one computer do to
it; what else happens to it is in `Scheduler` and the other modules of `Server`, which in turn let any host report anything at any time.

`Server` does not use `JobCache`: its scheduler processes may find *any* unsent result at any time, which is what the
cache gives at most, and `mark_as_sent()` has the same guard in both.

## The runs

The first group are runs of `ServerMC`, the second of `JobCacheMC`, the third of the client's modules.  `H` is the number of hosts, `R` is `max_total_results`.

| run | bounds | preemptible | shows |
|---|---|---|---|
| `Serial` | H 2, R 2, one fault, lost replies, moved results, deferral, delayed deletion, cancellation | cancel, purge | `TypeOK`, `ResultsBounded`, `AckedSuccessIsRecorded`, `CanonicalOutputKeptForAssimilation`, `ErrorsAreSticky`, `ImplementsJob` |
| `Interleaved` | H 2, R 1, lost replies, a detached host | all | `MemoriesAreSafe`, `ServerStateNeverGoesBack`, `SentToOneHost`, `CanonicalIsFinal` |
| `TransitionerRaces` | H 2, one trusted, R 2, application quorum 2, lost replies | transitioner, cgi | `InputsKeptWhileNeeded`, `OneResultPerOwner`, `UntrustedNotAlone`, `CreditGrantedOnce` |
| `Quorum` | H 4 in two classes, R 3, quorum 2, two classes of outputs, one fault | none | `ValidResultsAgree`, `OneHrClass` |
| `Liveness` | H 3, two trusted, R 2, application quorum 2 (so that jobs have a quorum of 1, or of 2 once the third host has a result), no faults, fair | none | `DecidedJobIsPurged`, `SuccessGetsVerdict`, `QuorumDecides`, `SentResultIsOver` |

| run | bounds | options | shows |
|---|---|---|---|
| `CacheLocks` | 2 slots, 2 results, 2 processes whose ids are used again, up to 2 rows per query | none | `CacheTypeOK`, `SlotHeldWhileChecked`, `CachedOnce` |
| `CacheFills` | 2 slots, 3 results, 1 process, 2 rows per query, fair | purging, clearing, pauses of the feeder | `SlotsAreRefilled`, `ReservationEnds` |

| run | bounds | shows |
|---|---|---|
| `Uploads` | a file of 0 or 2 bytes for one server, a sticky one of 1 byte for two of which the second refuses; 2 handlers, blocks of 1 byte, one crash, suspension or user abort, any failures of network and servers, fair | `TypeOK`, `StoredFileIsPrefix`, `StoredBytesStay`, `OnlyCopyIsKept`, `TransferEnds` |
| `Reporting` | 2 jobs, 2 host records, 2 processes, 2 schedulers, at most one report per request, 3 events (results sent, breaks, crashes, failed saves), fair | `TypeOK`, `SavedStateIsCurrent`, `HostNotMistaken`, `LiveJobsNotGivenUp`, `FinishedWorkIsRecorded`, `AbortedWorkIsUnwanted`, `ReportedInTheEnd` |
| `Tasks` | 1 job, 2 process ids, abort after 1 premature exit instead of 100, 3 events (preemptions, aborts, critical sections, failures, crashes), fair | `OneComputes`, `LastMessageAgrees`, `JobEnds` (its types are checked with `OrphanExits.cfg`) |

and `UploadErrorLost` and `TransientFailure`, each of which refutes a property: see below.  `RefinesJob.cfg`, kept beside the runs, checks
`ErrorsAreSticky`, `ImplementsJob` and `CreditGrantedOnce` with requests, cancellation, the assimilator and the purge interrupted anywhere, without faults (80 seconds).

**Mappings of time.**  No model has a clock.  What has a time limit may be found late at any time (`BecomesLate`, `MessageTimeout`, `PendingTimeout`);
`ElapsedLimit` alone waits for a process that is held up, since a job at work gets time enough.

**Why the bounds are enough.**  Hazards here are between two processes over one result, or
over two results of one job: one that decides it and one that comes late, times out, or disagrees.
Two results and two hosts give all of these; a third host is used in `Liveness`, where
hosts that are trusted outnumber one that is not, and a fourth in `Quorum`, where the class of a job is given up and three results can come from the other one.  `Results` has one id more than the limit, so that exceeding it can be expressed.  One
fault is a crash at any point of any handler, after which the daemon starts again on
what the rows say; a second fault repeats the first on a row in one of the same states.
In the job cache the hazards are between the feeder and a process over one slot, between two processes over one
slot, or between two slots over one result; a second life of a process comes from `PidsWrap`.  `CacheFills` has
a result more than a query has rows and the array has slots, so that queries are truncated and one result has to wait for a slot; it does without the
failure of the job (`MayFail`), which `CacheLocks` and `SentButNotNeeded` have.  The results of `CacheLocks` and
`CacheFills` are of one workunit, for which `Reread` lets the result of another job through; `SentButNotNeeded` has one workunit for each.  `CacheLocks` uses symmetry of ids and results, which no definition tells apart, and `Serial` that of hosts, whose constants are alike there.
In `Uploads` two handlers are one that serves the client and one it has left; two bytes are a
prefix, a hole and a whole.  In `Reporting` two jobs are needed for the limit on reports, which cuts between them; two events on top of a job that was sent are, say, a lost reply and
a crash.  In `Tasks` two processes are the one that the client knows and one left behind; three events suspend, resume through
a critical section, or let the client die with a suspended process and one more thing happen.  What needs more than that can be missed:
the proof of `OneComputes` found a case with three processes, see below.  For what is proved the bounds do not matter.

**Deadlock** is checked in `Serial` and `Liveness`, and in all runs of the job cache, whose feeder never stops.  It is off where a job may really stop:
where the transitioner or the validator may be preempted (`Interleaved`, `TransitionerRaces`, `LostWakeup`) wakeups get
lost, and in `Quorum` the validator may die after it compared the last result and before it triggers the transitioner, with
nothing left to compare afterwards.  It is off in the client's runs: an upload, the reporting and the jobs of a slot come to an end.  A purged job stutters (`Purged`).

**Fairness** (`FairSpec`).  Every daemon is a loop with a sleep, restarted by cron if it
dies: each eventually takes a step it can always take again.  A scheduler process that has
begun runs to its end, time passes.  The fairness of daemons is strong because serial
handlers disable each other: a daemon that finds its turn again and again
eventually gets it.  There is no fairness for volunteers: nobody must ask for work or report.
`SentResultIsOver` holds because deadlines pass, and `QuorumDecides` speaks only of a quorum that has
come, of one result or of two, while nothing fails: with a transient failure it is false, which `TransientFailure` shows.
Some of these properties are written `[]<>` where one thinks of leads-to; the two are the same here, since a decision that was made stays, and the former is cheaper to check.  `Liveness` assumes that `db_purge` is given a `min_age_days` (`PurgeWaits`): without, it may delete
a late success before the validator sees it.

In the job cache (`FairSpec` of `JobCache`) the feeder and each process that was started keep running; the semaphore is fair
(strong fairness of `Lock`), as System V semaphores queue their waiters.  Nothing makes processes start, or die, and nothing makes
hosts or other daemons act.  `CacheFills` needs two conditions that the code does not ensure.  Ids of processes are used once: a
new process with the id of a dead one hides that it died, and the slot waits until one of that id gives it back.  The query is as long as the array
(`EnumLimit >= NSlots`; the default is 200 rows and 100 slots): this is the premise of `SlotsAreRefilled`, and without it the property is false (`CacheStarves`, below).  Both properties are checked
with purging, clearing and pauses, so that they do not rest on them being off.

In `Upload` the poll loop goes on and time passes, and a server that has a request works on it; the network need not ever work (`TransferEnds`
says when it must).  Fairness is for each handler separately: with fairness for some handler only, a dead connection's handler could starve the live one's.
In `Reporting` the client goes on, starting again when it exits after a failed save, and some process works on its requests.  It need not ask for work.  In `Tasks`
the client's loop and each thread of a process go on, unless the process is frozen; an application comes to its end, and a job that is suspended is
scheduled again.  Crashes, breaks and orders of the user are bounded events and may never come.

**Mutants.**  For each property `PROJECT.json` names a plausible bug (a guard that is dropped, a wakeup
that is forgotten, a limit off by one, columns written that should not be) under which TLC
finds the property violated.  The mutants are the operators with a comment that begins with "Mutant".

## Findings

**`UploadErrorLost`** (`ReportedSuccessIsComplete`).  A server refuses an upload for good, the give-up period ends, or the user aborts it: the
file has failed.  `update_results()` runs every second and asks `RESULT::is_upload_done()`, for which a failed file is a file that is done: the result
becomes `RESULT_FILES_UPLOADED` and is ready to report.  `garbage_collect()`, which would "mark the result as done and report the error"
(`client_state.cpp:1616`), runs every ten seconds, and only looks at results that are still `RESULT_FILES_UPLOADING`.  For a file that is not sticky
`delete_file()` also resets the status, so that nobody ever sees the failure.  The server is told of a success, whose output it does not have.

**`TransientFailure`** (`TransientFailureIsRetried`).  `init_result()` fails for a moment, say because a directory cannot be opened (`ERR_OPENDIR`).  `check_set()` asks
for a retry: "Should call this again after a while" (`validate_util2.cpp:60`).  But `handle_wu()` marks every result of the set that has no verdict `INCONCLUSIVE`, also
the one that it could not read (`validator.cpp:587`), clears `need_validate`, and, as there are as many viable results as `target_nresults`, asks for one more result at once
(`validator.cpp:681`).  The transitioner sets `need_validate` only for results in `VALIDATE_STATE_INIT` (`transitioner.cpp:332`).
So nothing is called again until one more volunteer returns a success, and not at all if none does: two good results of a quorum of two wait for ever.
The property says that a quorum of good results that is inconclusive is looked at again, or the job fails; in the run the third result is created and no host takes it.

Other comments of the source are refuted by configurations that are kept beside the runs (the property that each names is violated within seconds):

| configuration | module | property | what happens |
|---|---|---|---|
| `FailedJobRevived` | `ServerMC` | `NoCheckIsFinal` | `need_validate` is set, or stays set, when a job fails, and the validator does not look at `error_mask`: results that were marked `NO_CHECK`, "so we'll never get around to validating its results" (`boinc_db_types.h:589`), are validated, and the job is assimilated once as failed and once as successful |
| `LostWakeup` | `ServerMC` | `DecidedJobIsPurged` | the transitioner computes `transition_time = INT_MAX`; the assimilator finishes and sets it to now; the transitioner writes `INT_MAX` (`transitioner.cpp:619`).  The job is assimilated, and its files and rows stay for ever |
| `SentButNotNeeded` | `JobCacheMC` | `DidntNeedWasNotSent` | the feeder ends unsent results of a failed workunit from a cursor that may be a whole pass old, without a guard on `server_state` (`feeder.cpp:315`): a result that was sent or returned since becomes `DIDNT_NEED` |
| `CacheStarves` | `JobCacheMC` | `Refilled` | the rows of a query that is shorter than the array ("either one may be larger", `feeder.cpp:49`) may all be in the array: every pass ends with collisions while slots are empty and other results wait.  `SlotsAreRefilled` is `Refilled` with the premise `EnumLimit >= NSlots` |
| `DetachedResultDropped` | `ReportingMC` | `DetachedResultIsKept` | `mark_results_over()` sets `received_time`, and `handle_results()` ignores results that have one (`sched_result.cpp:253`): "late in arriving, but keep it anyhow" (`:212`) does not keep it.  The report is acknowledged, and the finished result is gone |
| `StartedTaskAborted` | `ReportingMC` | `StartedTaskGoesOn` | `RESULT::not_started` is set while the run list is made, before tasks are started from it, and is read by the next `handle_scheduler_reply()` (`cs_scheduler.cpp:1090`): "if timed out, abort if not started" (`handle_request.cpp:725`) reports a task that has just been started as aborted, while it runs |
| `OrphanExits` | `TasksMC` | `OrphanExits` | the signal handler looks at `worker_thread_exit_flag` before it sleeps, not while it does (`boinc_api.cpp:1407`), and on Unix `exit_from_timer_thread()` does not resume: a suspended application whose client has died, "which means we need to die too" (`:1308`), sleeps for ever, with the lock of the slot |

### Where the properties stop holding

The properties of the other runs hold under the stated options and not beyond.  Changing a constant or two of a configuration shows each of these:

| property | change | what happens |
|---|---|---|
| `AckedSuccessIsRecorded` | `Serial`, `MayDetach = {h1, h2}` | as in `DetachedResultDropped`: the report of a detached result is acknowledged and lost |
| `AckedSuccessIsRecorded` | `Serial`, preemptible transitioner | a timeout of the transitioner overwrites a report |
| `ErrorsAreSticky` | `Serial`, preemptible transitioner | the transitioner writes `TOO_MANY_TOTAL` alone over a cancellation it has not read |
| `ErrorsAreSticky` | `Serial`, preemptible validator | the validator writes its old `error_mask` over a cancellation |
| `CreditGrantedOnce`, `UntrustedNotAlone` | `TransitionerRaces`, `MaxFaults = 1` | a crash after `grant_credit()`; a crash before the job is replicated |
| `UntrustedNotAlone` | `TransitionerRaces`, `MayMove = {h1, h2}` | a trusted client has the result of one that is not, and reports it in its own name |
| `UntrustedNotAlone` | `TransitionerRaces`, `TargetNresults = 2` | a job that starts with two results is never replicated for a host that is not trusted, and its quorum remains 1 |
| `OneResultPerOwner` | `TransitionerRaces`, `TargetNresults = 2`, `Owner` the same for all hosts | two concurrent requests of two hosts of one user get two results of one job |
| `AckedSuccessIsRecorded` | `Serial`, preemptible validator | a job is decided while an unsent result that the validator has read is sent and reported: it is written as `DIDNT_NEED` |
| `AckedSuccessIsRecorded`, `CreditGrantedOnce`, `ValidResultsAgree` | `Serial`, `TransitionerRaces`, `Quorum` (`MinQuorum = 1`, R 2, `MaxFaults = 0`), each with preemptible cgi and `MayMove = {h1, h2}` | two hosts report one result at a time: both requests read it in progress, and the second overwrites what the first has reported and the validator has judged since |
| `OneResultPerOwner` | `TransitionerRaces`, `MayMove = {h1, h2}` | a host reports the result of another one beside its own |
| `OneHrClass` | `Quorum`, `MayMove = {h1, h2}` | the same, where the other host is of another class |
| `OneHrClass` | `Quorum`, `MaxErrorResults = 2`, preemptible transitioner | the transitioner gives up the class (`hr_class = 0`) from rows read before a request claimed it again: the next result goes to the other class |
| `OneHrClass` | `Quorum`, preemptible cgi | the transitioner gives up the class between the two statements of a request, `update_wu_on_send()` and `mark_as_sent()` |
| `ValidResultsAgree` | `Quorum`, `MinQuorum = 1`, R 2, `MaxFaults = 2` | the validator dies after the first `VALID`; at the next pass that output cannot be read, and another one is elected |
| `SlotHeldWhileChecked` | `CacheLocks`, `PurgeStale` | the feeder reads `PRESENT`, updates the workunit, and writes `EMPTY` over the id of a process that reserved the slot meanwhile |
| `SlotHeldWhileChecked` | `CacheLocks`, `MayReread` | the feeder clears the segment under a process that holds a slot.  The process gives back a slot without a job, and the next that scans it follows a null pointer (`Crash`; "this should never happen", `sched_array.cpp:265`) |
| `SlotHeldWhileChecked` | `CacheLocks`, `FeederPauses` | a process starts with the id of the dead one and reserves the slot between the feeder's look at `/proc` and its write |
| `TransferEnds` | `Uploads`, `Len(urls) = 1` dropped from the property | with two URLs the transfer is not given up at its give-up time: each failure tries the next URL, and the index that is compared with the start has moved on twice (`pers_file_xfer.cpp:338-351`).  With a second URL that refuses, a transient failure of the first is enough to give up for good |
| `TransferEnds` | `Uploads`, `~local` dropped from the property | the client dies after it deleted the uploaded file and before it saved that: the transfer is retried without a file for ever |
| `TransferEnds` | `Uploads`, `IntMax = 1` | the size in the reply wraps round (`file_upload_handler.cpp:550`): the client asks again and again, and is not given an offset |
| `LiveJobsNotGivenUp` | `Reporting`, `Awaited(h)` dropped from the property | a request that is served after a newer one has an old sequence number: "the user must have copied the state file to a different host" (`handle_request.cpp:345`), and the results that the client is working on are marked over |
| `OneComputes` | `Tasks`, `Jobs = 2` and `jobs` replaced by any segment | the lock file is deleted when a slot is used again: a leftover process runs beside the next job |
| `OneComputes` | `Tasks`, a third process id and `Over` dropped from the property | two crashes of the client leave two processes, of which one computes and one waits for the lock; the new one exits too often, the job is aborted and its slot cleaned out with the lock file: the second one takes the lock beside the first |

By stronger properties, not kept, TLC also shows of `Tasks`:

- A second `abort_task()` for a process that is to abort (by the user, by `garbage_collect()` for an acknowledged result, or by the next finish-file check of a process that
  hangs in `boinc_finish()`) makes the state `ABORTED` with the process alive: it is never killed, although it is to be killed "if it doesn't exit
  within 5 seconds" (`app_control.cpp:934`), and the slot is used again.
- An abort while a quit is pending is forgotten if the process is reaped before `handle_finished_apps()`: the state becomes `UNINITIALIZED`, and
  `unsuspend_all()` starts it again ("The task won't be restarted", `app_control.cpp:938`).
- A finish file survives a quit, a kill or a crash that comes before the exit, and `start()` leaves it: the job is started again, and aborted for "finish
  file present too long".

And reading shows, in places that the models abstract from: a queue that `msg_queue_purge()` empties keeps `last_block`, so that a healthy
application is killed after 180 seconds; the exit flag may be acted on in a critical section that was entered after the timer thread looked;
a process left by a dead client shares the segment of its successor and may take its messages; with `max_tasks_reported = 1` and the first result ready the index 0 is
taken for "no limit" (harmless: it is listed twice); `rpc_failed()` clears `cur_proj`, which is then used (`scheduler_op.cpp:497`).

Two more disagreements with comments have no property.  A good success that is compared after the canonical
output was deleted is recorded as `VALIDATE_ERROR`, and gets no credit, although `TOO_LATE` exists for this case
(`boinc_db_types.h:598`).  And a scheduler process marks a slot empty "AFTER we've copied out of it" (`sched_score.cpp:327`), but
copies the id of the result after that: it may be the id of the job that the feeder put there next, which is refused if its
workunit is another one (a good job is then dropped) and sent in place of the first if not.

## The proofs

### About `Server`

TLAPS proves the following about `Spec`, for every number of hosts, results, output classes
and faults and every `Preemptible`, from the assumptions named in the modules
(`ParamAssumption` is what `create_work()` checks; the others give types to switches).

- `TypeCorrect` (`ServerProofs`): `Spec => []TypeOK`.  The typed memories make it more than bookkeeping: a
  row that the transitioner writes comes from a memory that is itself a table of
  rows, and the scheduler's result number is a real one whenever a report is written.
- `StaleMemoriesAreSafe`, `ResultsAreBounded`, `StaleWritesNeverGoBack`, `ResultsStayWithTheirHost`
  (`ServerProofs`): results only move forward, stay with their host and never exceed
  `max_total_results`, *whatever the processes remember*.

**The argument.**  No process holds a lock, so what a process has read is true only of the
past, and the properties themselves are not inductive: a write from an arbitrary old
memory would take a result back.  `MemoriesAreSafe` says what is true of every memory for
as long as it is kept:

- what the transitioner and the validator will write back (`todo`) is `OVER` in memory, and `OVER` can be written on
  any row that exists without going back;
- while the transitioner has not yet inserted results (`pc = "scan"`), the ids issued are those
  it has seen, and the rows that exist now are among those it counted, because nobody else
  makes results and `db_purge` only removes them: so its count is an upper bound, and
  the number of results it adds respects the limit.  A crash leaves no memory at all;
- ids are issued without gaps, unsent and purged rows have no host;
- a scheduler process that is about to mark a result as sent either read it unsent, and then the guard of
  `mark_as_sent()` decides, or read it in progress *on its own host*, and the result is still there
  or over.

`StepForward` shows, process by process, that under this invariant every step moves rows forward
(`Forward`), and that only `TransitionerDecide` adds results; `StepKeepsMemories` that moving forward
keeps every memory safe.  The two action properties are then consequences of `Forward`.

`JobProofs` is about the workunit row, which daemons write from copies of it.

| theorem | property | processes that must not be preemptible |
|---|---|---|
| `CanonicalIsChosenOnce` | `CanonicalIsFinal` | none |
| `DecisionsAreSafe` | `FateSound`, an inductive invariant | validator |
| `InputsAreKept` | `InputsKeptWhileNeeded` | validator |
| `CopiesAreFresh` | `JobHeld`, an inductive invariant | validator, transitioner |
| `ServerImplementsJob` | `ImplementsJob` | validator, transitioner |
| `ErrorsStay` | `ErrorsAreSticky` | validator, transitioner, assimilator |
| `OutputsAreKept` | `CanonicalOutputKeptForAssimilation` | validator, transitioner, assimilator |

All others may be interrupted anywhere, and any process may die anywhere.  The hypotheses only leave out schedules: `Preemptible` is any set without these.

**The argument.**  `JobWritten` lists the eight steps that write one of the columns that decide (`canonical_resultid`,
`error_mask`, `assimilate_state`, `file_delete_state`, and the existence of the row), `WhoWritesJob` shows that there are no others, and `JobWrites` says
what they write.  What is left to follow is the copy each of them writes from.

- `CanonicalSeen`, for every schedule: only the validator writes `canonical_resultid`, and a copy of a row that has one has the same one.
- `FateSound`: a decision (`Settled`: canonical result or error) that was recorded is never undone.  The copy of the validator has all errors of the row; that of the transitioner adds to what it
  read and, if it had read a decision, no results have been made since.  If it is about to release the input files, then every result it saw is over, and over for good
  (`TransitionerSees` and `Forward`), and no result is made any more: so `NoneOpen` holds when the release is written, however late.
- `JobHeld`: with a transitioner that is not interrupted either, the row is what it has read, the validator's copy differs from the row by its decision at most,
  no one marks a job assimilated behind the assimilator's back, and input files do not come back under `db_purge`.
- `ServerImplementsJob` maps each step to one of `Job`: `TransitionerDecide` to `Issue`, whatever ends results to `Close`, the validator's last write to
  `Elect` or `Fail`, the transitioner's to `ReleaseInputs` or `Fail`, `AssimilatorUpdateWorkunit` to `HandOver`, a cancellation to `Fail`, the
  deleters to `RemoveInputs` and `Purge`, all others to a stutter.
- `FilesFollow`, for the output files: they are released after assimilation, and only a job with an error is assimilated again after that.

The hypothesis on the validator is needed: with `Preemptible = {"validator"}` TLC finds that a job is cancelled, handed over
and its input files released while the validator is at work.  The validator then writes its old `error_mask` and `assimilate_state` over this, and
the transitioner issues new results for a job without input files.
`ErrorsAreSticky` needs the ones on the transitioner and the validator, as the table above shows for a cancellation.  That the assimilator is not interrupted is
a need of the proof only: `RefinesJob.cfg` finds no violation without it.

`VolunteerProofs` is about the result rows: whom a result is given to, what is kept of what comes back, and what is made of it.

| theorem | property | hypotheses |
|---|---|---|
| `ReturnsAreKept` | `ReturnsSound`, an inductive invariant | `NothingOverwritten` |
| `AcknowledgedIsKept` | `AckedSuccessIsRecorded` | `NothingOverwritten`, `MayDetach = {}` |
| `ValidMeansEqual` | `ValidResultsAgree` | `NothingOverwritten`, `MaxFaults <= 1` |
| `PaidOnce` | `CreditGrantedOnce` | `NothingOverwritten`, `MaxFaults = 0` |
| `OwnersComputeOne` | `OneResultPerOwner` | `OwnersTakeTurns`, `MovesWithinOwner` |
| `ResultsAreComparable` | `OneHrClass` | `HrInUse` |
| `UntrustedIsCompared` | `UntrustedNotAlone` | `NothingOverwritten`, `MovesWithinTrust`, `MaxFaults = 0`, `MinQuorum > 1 \/ TargetNresults = 1` |

`NothingOverwritten`: transitioner and validator are not interrupted inside a pass, and requests may be interrupted as long as no two hosts
report one result.  All other processes may be interrupted anywhere.  `OwnersTakeTurns`: requests are served one by one, or the owner is the
host, whose lock keeps its requests apart (`one_result_per_host_per_wu`).  `HrInUse`: the job uses homogeneous redundancy, so that every host has a class (`UsesHr`); transitioner and requests are not
interrupted.  `MovesWithinOwner`, `MovesWithinTrust`: clients that exchange results have one owner, or the same trust; `HrInUse` says the same of their class.
The table under [Where the properties stop holding](#where-the-properties-stop-holding) has a counterexample of TLC for these, with two exceptions.  That neither
transitioner nor validator is interrupted is needed for `ReturnsSound`, `AckedSuccessIsRecorded` and `OneHrClass` (the transitioner), but TLC finds no violation of `ValidResultsAgree` without it
in instances of the size of `Quorum`, and `TransitionerRaces` checks `CreditGrantedOnce` and `UntrustedNotAlone` with an interrupted transitioner.
The proofs of the three need it because they rest on `ReturnsSound`.

**The argument.**  Two kinds of lemma are shared by the seven.  The first say what a step can do to a row and who takes that step: `RowSteps` for the return (host, output,
received) and the verdict (state, outcome, validation) of a result, `MemoryOwners` for what each process remembers, `ClassWrites` for the class, `ReplicationWrites` for quorum and target.
The second say what the validator makes of its copy of the rows: `CheckSetCopy`, `CheckSetMoves`, `CheckPairCopy`.  On these rest the inductive invariants:

- `ReturnsSound`: each row makes sense (`RowSound`: a verdict needs a return, a return needs a host), and what transitioner and validator have in memory
  has the same return as the row (`TransitionerFresh`, `ValidatorFresh`).  A report comes to a result that nobody has taken back, or it is ignored (`ReportSound`).
- `AcksSound`: what was acknowledged has come back in the row or the row is purged, and the request that is about to acknowledge has just written it.
- `VerdictsSound`: once there is a canonical result, all valid results have its output, in the row and in the validator's copy.  Before that
  nothing is valid, except what a pass has written that was cut short, which takes the one fault; the next election then reads every output.
- `CreditSound`: what was paid for is valid in the row, or it is the one result whose row the validator writes next (`granted`).
- `OwnerSound`: between the look for other results of the owner and `mark_as_sent()` no request of that owner adds one, and a report is about a result of the same owner.
- `HrSound`: a result that is in progress or may be compared (`LiveRow`) is on a host of the job's class, and what the daemons hold in memory is so too.  The class is given up
  only when the transitioner sees nothing that is live, and what it sees is then still so.
- `TrustSound`: what has come back from a host that is not trusted is compared (`Replicated`), what is in progress there will be before the request ends, and the
  validator's copy of the quorum is the row's.  So a set of one that is elected is that of a trusted host.

`ValidMeansEqual` and `PaidOnce` cannot do with an invariant about the rows alone: between two statements of a pass the rows hold half of an election, and it is the
validator's memory that says which half is missing.

### About `JobCache`

For every number of slots, results and processes, from `JobCacheAssumption`:

- `CacheTypeCorrect`: `Spec => []CacheTypeOK` for every choice of the options.  It says among others that
  the feeder's cursor never leaves the array.
- `HeldWhileChecked` and `ResultCachedOnce`: `SlotHeldWhileChecked` and `CachedOnce`, if the feeder does not purge or clear and
  does not pause before a reset.  The first is false with each of the three, as the table above shows.  Ids of processes may be used again.

**The argument.**  A process that makes its slow checks has no lock at all: what keeps others away is its id in the slot.
So the invariant (`Inv`) follows the id from where it is written.  Every process that is between the look at a slot and `Reserve` has
the semaphore, and the slot is then one that only it may take (`Owns(p)`: `PRESENT`, or already in its name); while it has the semaphore no other process is
in such a place; from `Reserve` to the end of the slow checks the slot has its id.  The
feeder disturbs neither, since it writes only to a slot that is `EMPTY` or whose process does not exist (`FeederOwns`: the slot that it is
about to fill is empty and stays so, because processes only write to slots that are not;
the slot that it is about to reset belongs to no living process).  `CachedOnce` needs no more than
this: no process makes an empty slot `PRESENT`, so a result enters the array only through the feeder,
whose search for collisions and write are one step.

### About `Upload`

For every file, list of URLs, number of data servers and of `file_upload_handler` processes, block size, and any number
of failures and crashes: `UploadTypeCorrect`, `PrefixIsStored` (`StoredFileIsPrefix`), `NothingStoredIsLost` (`StoredBytesStay`) and
`CopyOutlivesTransfer` (`OnlyCopyIsKept`).

**The argument.**  A handler that a broken connection has left behind writes at the position it was sent, whatever others have written since.  That this is harmless
is `HandlersWriteInPlace`: what a handler has still to write begins at its position and ends with the file, and the file is already
as long as that position, so that it writes what is there or goes on from there (`WritingInPlace`).
Files only grow.  `ReadOnlyIsComplete` and `SuccessIsTrue` follow "it is there" from the server to the client: through the size in the reply to a query, the offset of
a post that has nothing left to send, `upload_offset` and the state of the transfer.  The proof needs a file that
fits into one request to be longer than zero bytes (`SmallFile`), as the constant in `file_xfer.cpp` is.

### About `Reporting`

For every number of jobs, host records and CGI processes, any limit on reports and any number of crashes, broken connections and failed saves:

- `ReportingTypeCorrect`: `TypeOK`, with the client's results distinct.
- `RestartFindsCurrent`: `SavedStateIsCurrent`.
- `NeverMistaken`: `HostNotMistaken`.
- `LiveJobsAreSafe`, `FinishedWorkIsKept`, `WantedWorkGoesOn`: `LiveJobsNotGivenUp`, `FinishedWorkIsRecorded`, `AbortedWorkIsUnwanted`.

**The argument** has three layers, each an invariant on top of the one before.

1. `FilesSound`: the last state leaves its name only when its successor is complete and a copy of it in place.  So in whatever step the client dies, the first
   valid one of the three files is the last state or the one being saved.
2. `SeqnosInv`: the number of any request that a process may still have, and every number that the scheduler has recorded, is at most the one that
   has been saved, and the saved number is ahead of the request that is waited for.  The process that the client waits for has the
   client's request, and gives it a host id only if it has none.
3. `WorkInv`: what the client has was sent to it, and what is acknowledged was recorded; what the memory has beyond the saved
   state can be lost, because it is only progress (`MemoryFollowsFile`); a failure that was reported, or is on its way, is saved and stays (`RefusedAreStopped`); the
   request describes the client until it is answered (`RequestIsCurrent`), and the reply the scheduler (`ReplyIsCurrent`).

The lists of a reply are merged by counting through finite sets of numbers (`Nth`), which is what `NthCounts` is about.  The proof of layer 1 found a flaw in the model: `Recovered`
was a `CASE` whose guards overlap, which leaves open which file is read.

### About `Tasks`

For every number of processes, jobs, premature exits and events: `TasksTypeCorrect` (`TypeOK`), `OneProcessComputes` (`OneComputes`)
and `LastMessageIsRight` (`LastMessageAgrees`).

**The argument.**  That one process computes is because of the lock file; the question is when it may be deleted (`SlotAfter`), and what a crash of the client makes of this.
`LockHeld` says that whoever computes the current job has the lock, as long as the task is `Guarded`: it is not over, or the process that it started is not reaped yet.  The slot is cleaned out
only with the end of that process, and then the task is over; a task that a restart finds in the state file was not over before; and no process
of an earlier crash computes a job that has not begun (`SegmentsPast`).

The first attempt failed: `OneComputes` was stated for as long as the slot has the job, and TLC then found the case with three processes that the table above
shows.  It now ends with the job, that is with `EXITED` or `ABORTED`: `handle_finished_apps()` follows in the same pass of the client.

What a process is told last is an argument about a conversation.  `Conversation` reads it in order: what the process has made of the messages that it acted on (`Told`), the one that it has heard
and not acted on (`HeardLast`), the one in the channel (`ChannelLast`), and the queue (`QueueLast`).  Each word takes back the one before it, and the last is the one that `task_state()` stands for.
So it stays right when the last word of the queue is purged by its opposite (`QueueLast` is then the word before), and when a word moves one place on, with what came before it gone.
`OwnProcess` says whose conversation it is: as long as no process of an earlier client uses the slot (`Alone`), nobody but the task's process takes messages from the channel of its job.
`LastMessageAgrees` is an implication between two temporal formulas; the step lemma needs `Alone` only in the state before the step, and the temporal step combines it with `[]Alone`.
With two processes, two jobs and four events TLC found both invariants to hold, before the proof, in the states reached with `Alone`.

### Only model-checked

Every safety property that a passing run checks, invariant or action property, has a theorem.  Liveness (fairness and `ENABLED`) is out of the prover's reach and stays with TLC:
`DecidedJobIsPurged`, `SuccessGetsVerdict`, `QuorumDecides`, `SentResultIsOver`, `SlotsAreRefilled`, `ReservationEnds`, `TransferEnds`, `ReportedInTheEnd` and `JobEnds`.
So do the schedules that a theorem leaves out and a run has: `UntrustedNotAlone` and `CreditGrantedOnce` with an interrupted transitioner (`TransitionerRaces`).

## What is left out

- *Values of time*, priorities, credit amounts, host statistics, quotas, application versions, and
  so homogeneous app version; the wall-clock order of deadlines.
- *Several results per request.*  A request handles one result; reports are read in one
  statement and written in another, as in the code.  A request that reports and asks for work is two requests.
- *Outcomes* `COULDNT_SEND` (set only by the tool `wu_check`) and `INACTIVE` results (an option of `create_result()`), and
  `transitioner_flags`, with which the transitioner is told to leave a job alone.
- *`report_grace_period`* is 0.  *Suspicious results* and failed lookups of host rows, which skip a result.
- *The job cache in `Server`*: any process may find any unsent result; the copies of the workunit row in the cache
  are read fresh (their age matters for `target_nresults` only).
- *`mark_results_over()`* is called from `authenticate_user()` (`handle_request.cpp:419`, `447`), which `process_request()` calls (`:1283`) before
  `lock_sched()` (`:1315`), for another host record than the one locked: in the code nothing keeps it apart from another request of that host.  `Detach` in `Scheduler` lets the
  host's own process run it, when it is idle, so that in the model a host is not detached in the middle of a request.  (`Reporting` has the step where the code has it, without the lock.)
- *`unlink()` and its record* are one step of the file deleter; the file system is shared by no other daemon but
  the validator and the assimilator, which see the deletion.
- *More than `SELECT_LIMIT` rows* in one enumeration.
- *In `JobCache`*: how many slots each application gets (`--allapps`, weights, `HR` quotas), infeasible counts and scores, which
  only order or narrow the choices that the model leaves open; jobs that are sent in place of another one for the same
  workunit; the variants of the scan in `sched_array.cpp` and for locality scheduling; the content of the workunit
  row in a slot; the restart of the feeder, which makes a new segment and a new semaphore.
- *In `Upload`*: one file, so that file handles and limits on the number of transfers do not matter; downloads; HTTP redirects, proxies; the check of the
  file's signature and name.  Saves that no restart reads are left out (`MaxUpsets`).
- *In `Reporting`*: one project and one user; a master file, zombie and mobile hosts, `report_max`, preferences, trickles, `init_op` that fails; the computer always looks like itself
  or not (`Authenticate` chooses), and its CPID does not change.  Results that are lost and cannot be sent again time out at once.  Processes run between saves only, since
  the two have no variable in common; the content of the previous file is forgotten once nobody can read it.  A task that was aborted and acknowledged is reported again at every
  request until it exits: left out.
- *In `Tasks`*: the exit of the client itself (a client that is told to exit waits for its processes; `Crash` is the worst case of it); a client that cannot start a task
  (`COULDNT_START`); what `app_finished()` does with output files; a worker that is suspended while it leaves a critical section is taken to sleep in the signal handler.  Windows, Android and
  multi-process applications differ.  `Crash` and the restart are one step: a task is kept if its result still is to be run, since a pass
  that changes a result writes the state file at its end.
- The parts with status `not_modelled` in `PROJECT.json`.

## The plan

Done: the server (`Server` and its parts, `Job`, `JobCache`) with its theorems; the upload, the computer and its scheduler with the state
file, and the task with its processes, with their theorems.  Next, in this order:

1. `UntrustedNotAlone` and `CreditGrantedOnce` for an interrupted transitioner; `Detach` beside a request of the same host.
2. Downloads and their verification (`cs_files.cpp`), the exit of the client, `HostRpc` as an instance of the requests that `Scheduler` assumes.
3. `sched_mge.cpp`, account managers, and `vda/` where they keep state of their own.
