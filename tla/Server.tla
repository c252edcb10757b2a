------------------------------- MODULE Server -------------------------------
(***************************************************************************)
(* The life of a job on a BOINC server: the daemons and the scheduler      *)
(* processes, interleaved at the granularity of SQL statements.            *)
(*                                                                         *)
(* `Preemptible` names the processes whose handlers may be interrupted by  *)
(* other processes between two statements.  With all of them every         *)
(* schedule is allowed; with none, handlers run one at a time, as they do  *)
(* under the simulator (GCL_SIMULATOR) and on an idle server.              *)
(***************************************************************************)
EXTENDS Transitioner, Validator, Assimilator, FileDeleter, Scheduler

CONSTANT Preemptible

Processes == {"transitioner", "validator", "assimilator", "purge", "cgi", "cancel"}

ASSUME ServerAssumption == Preemptible \subseteq Processes

vars == <<dbVars, tr, validatorVars, asm, purge, schedulerVars>>

Busy(p) ==
    CASE p = "transitioner" -> tr.pc # "idle"
      [] p = "validator" -> va.pc # "idle"
      [] p = "assimilator" -> asm.pc # "idle"
      [] p = "purge" -> purge.pc # "idle"
      [] p = "cgi" -> \E h \in Hosts : cgi[h].op # "idle"
      [] p = "cancel" -> cancel = "results"

\* p may take a step: nobody else is inside a handler that must not be interrupted.
Runs(p) == \A q \in Processes \ Preemptible : Busy(q) => q = p

Init ==
    /\ DbInit /\ TransitionerInit /\ ValidatorInit /\ AssimilatorInit
    /\ PurgeInit /\ SchedulerInit

\* A step of one process leaves the memory of the others alone.
InTransitioner(A) ==
    Runs("transitioner") /\ A /\ UNCHANGED <<validatorVars, asm, purge, schedulerVars>>
InValidator(A) == Runs("validator") /\ A /\ UNCHANGED <<tr, asm, purge, schedulerVars>>
InAssimilator(A) ==
    Runs("assimilator") /\ A /\ UNCHANGED <<tr, validatorVars, purge, schedulerVars>>
InFileDeleter(A) ==
    Runs("file_deleter") /\ A /\ UNCHANGED <<tr, validatorVars, asm, purge, schedulerVars>>
InPurge(A) == Runs("purge") /\ A /\ UNCHANGED <<tr, validatorVars, asm, schedulerVars>>
InCancel(A) == Runs("cancel") /\ A /\ UNCHANGED <<tr, validatorVars, asm, purge>>

\* Without "cgi" in Preemptible one request is served at a time.
InCgi(h, A) ==
    /\ Runs("cgi") /\ ("cgi" \in Preemptible \/ \A k \in Hosts \ {h} : cgi[k].op = "idle")
    /\ A
    /\ UNCHANGED <<tr, validatorVars, asm, purge>>

InTime(A) == A /\ UNCHANGED <<tr, validatorVars, asm, purge, schedulerVars>>

\* The job is gone: rows deleted, every process idle.
Purged ==
    /\ ~wu.exists /\ Exists(res) = {}
    /\ \A p \in Processes : ~Busy(p)
    /\ UNCHANGED vars

Next ==
    \/ InTransitioner(TransitionerNext)
    \/ InValidator(ValidatorNext)
    \/ InAssimilator(AssimilatorNext)
    \/ InFileDeleter(FileDeleterNext)
    \/ InPurge(PurgeNext)
    \/ \E h \in Hosts : InCgi(h, CgiNext(h))
    \/ InCancel(CancelNext)
    \/ \E r \in Results : InTime(DeadlinePasses(r))
    \/ InTime(TransitionTimePasses)
    \/ Purged

Spec == Init /\ [][Next]_vars

\* The daemons run in endless loops, a request that has begun is served to its
\* end, and time passes.  Nothing obliges a volunteer to ask for work or to
\* report.  Strong fairness, because handlers that run one at a time disable
\* each other: whoever can start again and again eventually does.
Fairness ==
    /\ SF_vars(InTransitioner(TransitionerStep))
    /\ SF_vars(InValidator(ValidatorStep))
    /\ SF_vars(InAssimilator(AssimilatorStep))
    /\ SF_vars(InFileDeleter(FileDeleterStep))
    /\ SF_vars(InPurge(PurgeStep))
    /\ \A h \in Hosts : SF_vars(InCgi(h, CgiStep(h)))
    /\ SF_vars(InCancel(CancelWorkunit))
    /\ \A r \in Results : WF_vars(InTime(DeadlinePasses(r)))
    /\ WF_vars(InTime(TransitionTimePasses))

FairSpec == Spec /\ Fairness

TypeOK ==
    /\ DbTypeOK /\ TransitionerTypeOK /\ ValidatorTypeOK /\ AssimilatorTypeOK
    /\ PurgeTypeOK /\ SchedulerTypeOK
=============================================================================
