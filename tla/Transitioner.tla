---------------------------- MODULE Transitioner ----------------------------
(***************************************************************************)
(* sched/transitioner.cpp: the daemon that reacts to changes in the state  *)
(* of a job.  enumerate() reads the workunit and its results into memory;  *)
(* handle_wu() works on that copy and writes rows one statement at a time. *)
(***************************************************************************)
EXTENDS BoincDb

CONSTANTS
    HrClassStatic,  \* config.hr_class_static
    DeleteDelay     \* TRUE iff config.delete_delay > 0

ASSUME TransitionerAssumption == HrClassStatic \in BOOLEAN /\ DeleteDelay \in BOOLEAN

VARIABLE tr     \* the daemon: what it read, what it has computed, what it must write

transitionerIdle == [pc |-> "idle"]

TransitionerInit == tr = transitionerIdle

-----------------------------------------------------------------------------
\* handle_wu() as rules on the rows S and the workunit w it holds in memory.

InProgress(S) == {r \in DOMAIN S : S[r].server = "IN_PROGRESS"}
Unsent(S) == {r \in DOMAIN S : S[r].server = "UNSENT"}
Over(S, outcomes) == {r \in DOMAIN S : S[r].server = "OVER" /\ S[r].outcome \in outcomes}
Successes(S) == {r \in Over(S, {"SUCCESS"}) : S[r].validate # "INVALID"}
Aborted(S) == {r \in Over(S, {"CLIENT_ERROR"}) : S[r].out = "aborted"}
Errors(S) == Over(S, {"CLIENT_ERROR", "VALIDATE_ERROR"}) \ Aborted(S)
NoReplies(S) == Over(S, {"NO_REPLY", "CLIENT_DETACHED"}) \cup Aborted(S)
Unvalidated(S) == {r \in Over(S, {"SUCCESS"}) : S[r].validate = "INIT"}

CanonicalFilesDeleted(w, S) == w.canonical \in Exists(S) /\ S[w.canonical].fds = "DONE"

\* Mutant: a late result is not marked as over.
ScannedNotOver(w, S) ==
    [r \in DOMAIN S |->
        IF S[r].server = "IN_PROGRESS" /\ S[r].late
          THEN [S[r] EXCEPT !.outcome = "NO_REPLY"] ELSE S[r]]

\* First scan: time out late results; give up on validating results that
\* arrived after the canonical result's files were deleted.
Scanned(w, S) ==
    [r \in DOMAIN S |->
        IF S[r].server = "IN_PROGRESS" /\ S[r].late
          THEN [S[r] EXCEPT !.server = "OVER", !.outcome = "NO_REPLY"]
        ELSE IF r \in Unvalidated(S) /\ CanonicalFilesDeleted(w, S)
          THEN [S[r] EXCEPT !.validate = "TOO_LATE"]
        ELSE S[r]]

Needed(w, S) ==
    LET n == Cardinality(Unsent(S) \cup InProgress(S) \cup Successes(S))
    IN  IF w.target > n THEN w.target - n ELSE 0

Ntotal(S) == Cardinality(Exists(S))

\* Mutant: a job at the limit is not over it, even if it needs more results.
TooManyTotalOverOnly(w, S) == Ntotal(S) > MaxTotalResults

\* At the limit and more are needed, or already over the limit.
TooManyTotal(w, S) ==
    \/ Ntotal(S) > MaxTotalResults
    \/ Ntotal(S) = MaxTotalResults /\ Needed(w, S) > 0

NewResults(w, S) ==
    LET allowed == MaxTotalResults - Ntotal(S)
    IN  IF Ntotal(S) < MaxTotalResults /\ Needed(w, S) > allowed THEN allowed
        ELSE Needed(w, S)

\* Mutants: the quorum is off by one; the HR class is reset while results are in
\* progress.
DecidedAboveQuorum(w, S) ==
    [w EXCEPT !.needValidate = @ \/ (Unvalidated(S) # {} /\ Cardinality(Successes(S)) > w.quorum)]

DecidedResetsEarly(w, S) ==
    [w EXCEPT !.needValidate = @ \/ (Unvalidated(S) # {} /\ Cardinality(Successes(S)) >= w.quorum),
              !.hr = IF Errors(S) # {} /\ Successes(S) = {} THEN 0 ELSE @]

\* The flags and fields handle_wu() derives from the counts.
Decided(w, S) ==
    LET errors == w.error
            \cup (IF Cardinality(Errors(S)) > MaxErrorResults THEN {"TOO_MANY_ERROR"} ELSE {})
            \cup (IF TooManyTotal(w, S) THEN {"TOO_MANY_TOTAL"} ELSE {})
        resetHr == /\ Errors(S) # {}
                   /\ Successes(S) \cup InProgress(S) \cup NoReplies(S) = {}
                   /\ ~HrClassStatic
    IN  [w EXCEPT
            !.needValidate = @ \/ (Unvalidated(S) # {} /\ Cardinality(Successes(S)) >= w.quorum),
            !.hr = IF resetHr THEN 0 ELSE @,
            !.error = errors,
            !.assimilate = IF errors # {} /\ @ = "INIT" THEN "READY" ELSE @]

\* The job has failed: don't send its unsent results, don't check the others.
GivenUp(S) ==
    [r \in DOMAIN S |->
        IF r \in Unsent(S)
          THEN [S[r] EXCEPT !.server = "OVER", !.outcome = "DIDNT_NEED"]
        ELSE IF r \in Over(S, {"SUCCESS"}) /\ S[r].validate \in {"INIT", "INCONCLUSIVE"}
          THEN [S[r] EXCEPT !.validate = "NO_CHECK"]
        ELSE S[r]]

AllOver(S) == \A r \in Exists(S) : S[r].server = "OVER"
AllOverAndReadyToAssimilate(S) == AllOver(S) /\ Unvalidated(S) = {}

\* Mutant: results that are not over are not looked at.
AllReturnedAreValidated(S) == Unvalidated(S) = {}

AllOverAndValidated(S) ==
    /\ AllOverAndReadyToAssimilate(S)
    /\ \A r \in Over(S, {"NO_REPLY"}) : S[r].late

\* Mutant: the files of a result without verdict are released, too.
ReleasedUnvalidated(w, S) ==
    [r \in DOMAIN S |->
        IF /\ r \in Over(S, {"CLIENT_ERROR", "SUCCESS"})
           /\ r = w.canonical => AllOverAndValidated(S)
           /\ S[r].fds = "INIT"
          THEN [S[r] EXCEPT !.fds = "READY"] ELSE S[r]]

\* Output files that are no longer needed once the job is assimilated.
Released(w, S) ==
    [r \in DOMAIN S |->
        IF /\ r \in Over(S, {"CLIENT_ERROR", "SUCCESS"}) \ Unvalidated(S)
           /\ r = w.canonical => AllOverAndValidated(S)
           /\ S[r].fds = "INIT"
          THEN [S[r] EXCEPT !.fds = "READY"] ELSE S[r]]

\* Mutant: a decided job is not looked at again, although results are in progress.
FinishedForGood(w, S, release, deferred) ==
    [w EXCEPT !.fds = IF release /\ AllOverAndValidated(S) /\ @ = "INIT" THEN "READY" ELSE @,
              !.tt = IF w.canonical # 0 \/ w.error # {} THEN "never" ELSE "later"]

\* The workunit row handle_wu() ends with; w1 is the row after the last scan.
Finished(w, S, release, deferred) ==
    LET w1 == [w EXCEPT !.assimilate =
                  IF AllOverAndReadyToAssimilate(S) /\ @ = "INIT" /\ w.canonical # 0
                  THEN "READY" ELSE @]
    IN  [w1 EXCEPT
            !.fds = IF release /\ AllOverAndValidated(S) /\ @ = "INIT" THEN "READY" ELSE @,
            !.tt = IF /\ w.canonical # 0 \/ w.error # {}
                      /\ InProgress(S) = {}
                      /\ ~deferred
                   THEN "never" ELSE "later"]

-----------------------------------------------------------------------------
TransitionerEnumerate ==
    /\ tr.pc = "idle"
    /\ wu.exists /\ wu.tt = "now"
    /\ LET mem == Scanned(wu, res)
       IN  tr' = [pc |-> "scan", old |-> wu, wu |-> wu, res |-> mem,
                  todo |-> {r \in Results : mem[r] # res[r]}]
    /\ UNCHANGED dbVars

\* update_result(): the state columns, from memory, whatever the row holds now.
TransitionerUpdateResult(r) ==
    /\ tr.pc # "idle" /\ r \in tr.todo
    /\ UpdateResult(r, [res[r] EXCEPT !.server = tr.res[r].server,
                                      !.outcome = tr.res[r].outcome,
                                      !.validate = tr.res[r].validate,
                                      !.fds = tr.res[r].fds])
    /\ tr' = [tr EXCEPT !.todo = @ \ {r}]
    /\ UNCHANGED <<wu, gone, faults>>

\* The error branch, or the insertion of new results in one batch.
TransitionerDecide ==
    /\ tr.pc = "scan" /\ tr.todo = {}
    /\ LET w == Decided(tr.wu, tr.res)
           mem == IF w.error # {} THEN GivenUp(tr.res) ELSE tr.res
           n == Cardinality({r \in Results : tr.res[r].server # "NONE"})
           new == IF w.error = {} /\ w.canonical = 0
                  THEN n + 1 .. n + NewResults(tr.wu, tr.res) ELSE {}
       IN  /\ new \subseteq Results
           /\ tr' = [tr EXCEPT !.pc = "decide", !.wu = w, !.res = mem,
                               !.todo = {r \in Results : mem[r] # tr.res[r]}]
           /\ res' = [r \in Results |-> IF r \in new THEN NewResult ELSE res[r]]
    /\ UNCHANGED <<wu, gone, faults>>

\* Mutant: output files are released before assimilation.
TransitionerReleaseEarly ==
    /\ tr.pc = "decide" /\ tr.todo = {}
    /\ LET mem == Released(tr.wu, tr.res)
       IN  tr' = [tr EXCEPT !.pc = "release", !.res = mem,
                      !.wu = Finished(tr.wu, tr.res, tr.wu.assimilate = "DONE", FALSE),
                      !.todo = {r \in Results : mem[r] # tr.res[r]}]
    /\ UNCHANGED dbVars

\* `settled`: delete_delay has passed since the last result was returned.
TransitionerRelease ==
    /\ tr.pc = "decide" /\ tr.todo = {}
    /\ \E settled \in (IF DeleteDelay THEN BOOLEAN ELSE {TRUE}) :
         LET done == tr.wu.assimilate = "DONE"
             mem == IF done /\ settled THEN Released(tr.wu, tr.res) ELSE tr.res
         IN  tr' = [tr EXCEPT !.pc = "release", !.res = mem,
                        !.wu = Finished(tr.wu, tr.res, done /\ settled, done /\ ~settled),
                        !.todo = {r \in Results : mem[r] # tr.res[r]}]
    /\ UNCHANGED dbVars

\* Mutant: all columns are written.
MergeAll(row, old, new) == [new EXCEPT !.exists = row.exists]

\* update_workunit(): only the columns that differ from what was read.
Merge(row, old, new) ==
    [row EXCEPT !.needValidate = IF new.needValidate # old.needValidate THEN new.needValidate ELSE @,
                !.error = IF new.error # old.error THEN new.error ELSE @,
                !.assimilate = IF new.assimilate # old.assimilate THEN new.assimilate ELSE @,
                !.fds = IF new.fds # old.fds THEN new.fds ELSE @,
                !.tt = IF new.tt # old.tt THEN new.tt ELSE @,
                !.hr = IF new.hr # old.hr THEN new.hr ELSE @]

TransitionerUpdateWorkunit ==
    /\ tr.pc = "release" /\ tr.todo = {}
    /\ UpdateWorkunit(Merge(wu, tr.old, tr.wu))
    /\ tr' = transitionerIdle
    /\ UNCHANGED <<res, gone, faults>>

\* The daemon exits between two statements; it is restarted and enumerates again.
TransitionerCrash ==
    /\ tr.pc # "idle" /\ Fault
    /\ tr' = transitionerIdle
    /\ UNCHANGED <<wu, res, gone>>

TransitionerStep ==
    \/ TransitionerEnumerate
    \/ \E r \in Results : TransitionerUpdateResult(r)
    \/ TransitionerDecide
    \/ TransitionerRelease
    \/ TransitionerUpdateWorkunit

TransitionerNext == TransitionerStep \/ TransitionerCrash

TransitionerTypeOK ==
    tr \in [pc : {"idle"}] \cup
           [pc : {"scan", "decide", "release"}, old : WorkunitRow, wu : WorkunitRow,
            res : [Results -> ResultRow], todo : SUBSET Results]
=============================================================================
