------------------------------ MODULE JobProofs ------------------------------
(***************************************************************************)
(* The fate of a job: proofs of what the workunit row goes through when    *)
(* daemons that work on copies of it write it, one statement at a time.    *)
(***************************************************************************)
EXTENDS ServerProofs

\* The columns the daemons decide on; transition_time, need_validate, hr_class,
\* the quorum and the target are not among them.
SameJob(v, w) ==
    /\ v.exists = w.exists /\ v.canonical = w.canonical /\ v.error = w.error
    /\ v.assimilate = w.assimilate /\ v.fds = w.fds

-----------------------------------------------------------------------------
\* Who writes which column of the workunit row.

\* Lowering transition_time, claiming the HR class and replicating a job leave
\* these columns alone.
LEMMA TriggersKeepJob ==
    ASSUME wu \in WorkunitRow
    PROVE  /\ UNCHANGED wu => SameJob(wu, wu')
           /\ \A t : UpdateWorkunit([wu EXCEPT !.tt = t]) => SameJob(wu, wu')
           /\ \A t, n : UpdateWorkunit([wu EXCEPT !.tt = t, !.hr = n]) => SameJob(wu, wu')
           /\ \A t, n, q : UpdateWorkunit([wu EXCEPT !.target = n, !.quorum = q, !.tt = t])
                              => SameJob(wu, wu')
<1>1. \A row : SameJob(wu, row) /\ UpdateWorkunit(row) => SameJob(wu, wu')
  BY DEF SameJob, UpdateWorkunit
<1>2. ASSUME NEW t PROVE UpdateWorkunit([wu EXCEPT !.tt = t]) => SameJob(wu, wu')
  <2> DEFINE row == [wu EXCEPT !.tt = t]
  <2>1. SameJob(wu, row)
    BY DEF SameJob, WorkunitRow
  <2> HIDE DEF row
  <2>2. UpdateWorkunit(row) => SameJob(wu, wu')
    BY <1>1, <2>1
  <2>3. QED
    BY <2>2 DEF row
<1>3. ASSUME NEW t, NEW n
      PROVE  UpdateWorkunit([wu EXCEPT !.tt = t, !.hr = n]) => SameJob(wu, wu')
  <2> DEFINE row == [wu EXCEPT !.tt = t, !.hr = n]
  <2>1. SameJob(wu, row)
    BY DEF SameJob, WorkunitRow
  <2> HIDE DEF row
  <2>2. UpdateWorkunit(row) => SameJob(wu, wu')
    BY <1>1, <2>1
  <2>3. QED
    BY <2>2 DEF row
<1>4. ASSUME NEW t, NEW n, NEW q
      PROVE  UpdateWorkunit([wu EXCEPT !.target = n, !.quorum = q, !.tt = t])
               => SameJob(wu, wu')
  <2> DEFINE row == [wu EXCEPT !.target = n, !.quorum = q, !.tt = t]
  <2>1. SameJob(wu, row)
    BY DEF SameJob, WorkunitRow
  <2> HIDE DEF row
  <2>2. UpdateWorkunit(row) => SameJob(wu, wu')
    BY <1>1, <2>1
  <2>3. QED
    BY <2>2 DEF row
<1>5. UNCHANGED wu => SameJob(wu, wu')
  BY DEF SameJob
<1>6. QED
  BY <1>2, <1>3, <1>4, <1>5

\* Volunteers, through the scheduler, do not touch them.
LEMMA CgiKeepsJob ==
    ASSUME wu \in WorkunitRow, NEW h \in Hosts, CgiNext(h)
    PROVE  SameJob(wu, wu')
<1>1. CASE UNCHANGED wu
  BY <1>1, TriggersKeepJob
<1>2. \A t : UpdateWuOnSend(h, t) => SameJob(wu, wu')
  BY TriggersKeepJob DEF UpdateWuOnSend
<1>3. CASE SendUpdateWorkunit(h) \/ ResendExpireWorkunit(h)
  BY <1>1, <1>2, <1>3 DEF SendUpdateWorkunit, ResendExpireWorkunit
<1>4. CASE SendReplicate(h) \/ ReportTrigger(h) \/ DetachTrigger(h)
  BY <1>4, TriggersKeepJob DEF SendReplicate, ReportTrigger, DetachTrigger
<1>5. QED
  BY <1>1, <1>3, <1>4
     DEF CgiNext, CgiRequest, CgiStep, CgiCrash, SelectResult, ResendLost, ReportIgnored,
         Report, Detach, SendMarkAsSent, ResendExpire, ReportUpdate, DetachResult, dbVars

\* The steps that write the columns.
JobWritten ==
    \/ InTransitioner(TransitionerUpdateWorkunit)
    \/ InValidator(ValidatorUpdateWorkunit)
    \/ InAssimilator(AssimilatorHandle) \/ InAssimilator(AssimilatorUpdateWorkunit)
    \/ InFileDeleter(FileDeleteInput) \/ InFileDeleter(FileDeleteInputFails)
    \/ InPurge(PurgeWorkunit)
    \/ InCancel(CancelWorkunit)

\* No other step does.
LEMMA WhoWritesJob ==
    ASSUME TypeOK, [Next]_vars, ~JobWritten
    PROVE  SameJob(wu, wu')
<1>1. wu \in WorkunitRow
  BY DEF TypeOK, DbTypeOK
<1>2. CASE UNCHANGED wu
  BY <1>1, <1>2, TriggersKeepJob
<1>3. CASE UNCHANGED vars
  BY <1>2, <1>3 DEF vars, dbVars
<1>4. CASE InTransitioner(TransitionerNext)
  BY <1>2, <1>4 DEF InTransitioner, TransitionerNext, TransitionerStep, TransitionerEnumerate,
     TransitionerUpdateResult, TransitionerDecide, TransitionerRelease, TransitionerCrash,
     JobWritten, dbVars
<1>5. CASE InValidator(ValidatorNext)
  BY <1>2, <1>5 DEF InValidator, ValidatorNext, ValidatorStep, ValidatorFlakyCheckSet,
     ValidatorCreditError, ValidatorRetryPair, ValidatorCrash, ValidatorEnumerate,
     ValidatorNoCanonicalRow, ValidatorNoQuorum, ValidatorCheckSet, ValidatorCheckPair,
     ValidatorGrantCredit, ValidatorUpdateResult, ValidatorCheckedAll, JobWritten, dbVars
<1>6. CASE InAssimilator(AssimilatorNext)
  BY <1>2, <1>6 DEF InAssimilator, AssimilatorNext, AssimilatorStep, AssimilatorEnumerate,
     AssimilatorCrash, JobWritten, dbVars
<1>7. CASE InFileDeleter(FileDeleterNext) \/ InPurge(PurgeNext) \/ InCancel(CancelNext)
  BY <1>2, <1>7 DEF InFileDeleter, FileDeleterNext, FileDeleterStep, FileDeleteOutput,
     FileDeleteOutputFails, InPurge, PurgeNext, PurgeStep, PurgeEnumerate, PurgeResult,
     PurgeCrash, InCancel, CancelNext, CancelResults, JobWritten, dbVars
<1>8. ASSUME NEW h \in Hosts, InCgi(h, CgiNext(h)) PROVE SameJob(wu, wu')
  BY <1>1, <1>8, CgiKeepsJob DEF InCgi
<1>9. ASSUME NEW r \in Results, InTime(DeadlinePasses(r)) PROVE SameJob(wu, wu')
  BY <1>2, <1>9 DEF InTime, DeadlinePasses
<1>10. CASE InTime(TransitionTimePasses)
  BY <1>1, <1>10, TriggersKeepJob DEF InTime, TransitionTimePasses, UpdateWorkunit
<1>11. QED
  BY <1>3, <1>4, <1>5, <1>6, <1>7, <1>8, <1>9, <1>10 DEF Next, Purged

\* What the writers write.
LEMMA JobWrites ==
    ASSUME TypeOK
    PROVE  /\ ~wu.exists /\ JobWritten => SameJob(wu, wu')
           /\ wu.exists /\ TransitionerUpdateWorkunit =>
                /\ wu'.exists = wu.exists /\ wu'.canonical = wu.canonical
                /\ wu'.error = IF tr.wu.error # tr.old.error THEN tr.wu.error ELSE wu.error
                /\ wu'.assimilate = IF tr.wu.assimilate # tr.old.assimilate
                                    THEN tr.wu.assimilate ELSE wu.assimilate
                /\ wu'.fds = IF tr.wu.fds # tr.old.fds THEN tr.wu.fds ELSE wu.fds
           /\ wu.exists /\ ValidatorUpdateWorkunit =>
                /\ wu'.exists = wu.exists /\ wu'.fds = wu.fds
                /\ wu'.canonical = va.wu.canonical /\ wu'.error = va.wu.error
                /\ wu'.assimilate = va.wu.assimilate
           /\ wu.exists /\ AssimilatorHandle =>
                /\ wu'.exists = wu.exists /\ wu'.canonical = wu.canonical
                /\ wu'.assimilate = wu.assimilate /\ wu'.fds = wu.fds
                /\ \/ wu'.error = wu.error
                   \/ wu'.error = {"NO_CANONICAL"} /\ asm.wu.error = {}
           /\ wu.exists /\ AssimilatorUpdateWorkunit =>
                /\ wu'.exists = wu.exists /\ wu'.canonical = wu.canonical
                /\ wu'.assimilate = asm.next /\ wu'.fds = wu.fds /\ wu'.error = wu.error
           /\ FileDeleteInput \/ FileDeleteInputFails =>
                /\ wu'.exists = wu.exists /\ wu'.canonical = wu.canonical
                /\ wu'.assimilate = wu.assimilate /\ wu'.error = wu.error
                /\ wu.fds # "INIT" /\ wu'.fds # "INIT"
           /\ PurgeWorkunit =>
                /\ wu'.exists = FALSE /\ wu'.canonical = wu.canonical
                /\ wu'.assimilate = wu.assimilate /\ wu'.fds = wu.fds /\ wu'.error = wu.error
           /\ wu.exists /\ CancelWorkunit =>
                /\ wu'.exists = wu.exists /\ wu'.canonical = wu.canonical
                /\ wu'.assimilate = wu.assimilate /\ wu'.fds = wu.fds
                /\ wu'.error = wu.error \cup {"CANCELLED"}
<1>1. wu \in WorkunitRow
  BY DEF TypeOK, DbTypeOK
<1>2. \A row : wu.exists /\ UpdateWorkunit(row) => wu' = row
  BY DEF UpdateWorkunit
<1>3. wu.exists /\ TransitionerUpdateWorkunit =>
        /\ wu'.exists = wu.exists /\ wu'.canonical = wu.canonical
        /\ wu'.error = IF tr.wu.error # tr.old.error THEN tr.wu.error ELSE wu.error
        /\ wu'.assimilate = IF tr.wu.assimilate # tr.old.assimilate
                            THEN tr.wu.assimilate ELSE wu.assimilate
        /\ wu'.fds = IF tr.wu.fds # tr.old.fds THEN tr.wu.fds ELSE wu.fds
  <2> DEFINE row == Merge(wu, tr.old, tr.wu)
  <2>1. /\ row.exists = wu.exists /\ row.canonical = wu.canonical
        /\ row.error = IF tr.wu.error # tr.old.error THEN tr.wu.error ELSE wu.error
        /\ row.assimilate = IF tr.wu.assimilate # tr.old.assimilate
                            THEN tr.wu.assimilate ELSE wu.assimilate
        /\ row.fds = IF tr.wu.fds # tr.old.fds THEN tr.wu.fds ELSE wu.fds
    BY <1>1 DEF Merge, WorkunitRow
  <2>2. wu.exists /\ TransitionerUpdateWorkunit => wu' = row
    BY <1>2 DEF TransitionerUpdateWorkunit
  <2> HIDE DEF row
  <2>3. QED
    BY <2>1, <2>2
<1>4. wu.exists /\ ValidatorUpdateWorkunit =>
        /\ wu'.exists = wu.exists /\ wu'.fds = wu.fds
        /\ wu'.canonical = va.wu.canonical /\ wu'.error = va.wu.error
        /\ wu'.assimilate = va.wu.assimilate
  <2> DEFINE row == [wu EXCEPT !.needValidate = FALSE, !.error = va.wu.error,
                               !.assimilate = va.wu.assimilate,
                               !.tt = NextTransition(va.wu.tt, va.when),
                               !.target = va.wu.target, !.canonical = va.wu.canonical]
  <2>1. /\ row.exists = wu.exists /\ row.fds = wu.fds
        /\ row.canonical = va.wu.canonical /\ row.error = va.wu.error
        /\ row.assimilate = va.wu.assimilate
    BY <1>1 DEF WorkunitRow
  <2>2. wu.exists /\ ValidatorUpdateWorkunit => wu' = row
    BY <1>2 DEF ValidatorUpdateWorkunit
  <2> HIDE DEF row
  <2>3. QED
    BY <2>1, <2>2
<1>5. wu.exists /\ AssimilatorHandle =>
        /\ wu'.exists = wu.exists /\ wu'.canonical = wu.canonical
        /\ wu'.assimilate = wu.assimilate /\ wu'.fds = wu.fds
        /\ \/ wu'.error = wu.error
           \/ wu'.error = {"NO_CANONICAL"} /\ asm.wu.error = {}
  <2> DEFINE row == [wu EXCEPT !.error = {"NO_CANONICAL"}]
  <2>1. /\ row.exists = wu.exists /\ row.canonical = wu.canonical
        /\ row.assimilate = wu.assimilate /\ row.fds = wu.fds /\ row.error = {"NO_CANONICAL"}
    BY <1>1 DEF WorkunitRow
  <2>2. wu.exists /\ AssimilatorHandle => wu' = wu \/ (wu' = row /\ asm.wu.error = {})
    BY <1>2 DEF AssimilatorHandle
  <2> HIDE DEF row
  <2>3. QED
    BY <2>1, <2>2
<1>6. wu.exists /\ AssimilatorUpdateWorkunit =>
        /\ wu'.exists = wu.exists /\ wu'.canonical = wu.canonical
        /\ wu'.assimilate = asm.next /\ wu'.fds = wu.fds /\ wu'.error = wu.error
  <2> DEFINE row == [wu EXCEPT !.assimilate = asm.next, !.tt = "now"]
  <2>1. /\ row.exists = wu.exists /\ row.canonical = wu.canonical
        /\ row.assimilate = asm.next /\ row.fds = wu.fds /\ row.error = wu.error
    BY <1>1 DEF WorkunitRow
  <2>2. wu.exists /\ AssimilatorUpdateWorkunit => wu' = row
    BY <1>2 DEF AssimilatorUpdateWorkunit
  <2> HIDE DEF row
  <2>3. QED
    BY <2>1, <2>2
<1>7. FileDeleteInput \/ FileDeleteInputFails =>
        /\ wu'.exists = wu.exists /\ wu'.canonical = wu.canonical
        /\ wu'.assimilate = wu.assimilate /\ wu'.error = wu.error
        /\ wu.fds # "INIT" /\ wu'.fds # "INIT"
  BY <1>1 DEF FileDeleteInput, FileDeleteInputFails, WorkunitRow
<1>8. PurgeWorkunit =>
        /\ wu'.exists = FALSE /\ wu'.canonical = wu.canonical
        /\ wu'.assimilate = wu.assimilate /\ wu'.fds = wu.fds /\ wu'.error = wu.error
  BY <1>1 DEF PurgeWorkunit, WorkunitRow
<1>9. wu.exists /\ CancelWorkunit =>
        /\ wu'.exists = wu.exists /\ wu'.canonical = wu.canonical
        /\ wu'.assimilate = wu.assimilate /\ wu'.fds = wu.fds
        /\ wu'.error = wu.error \cup {"CANCELLED"}
  <2> DEFINE row == [wu EXCEPT !.error = @ \cup {"CANCELLED"}, !.tt = "now"]
  <2>1. /\ row.exists = wu.exists /\ row.canonical = wu.canonical
        /\ row.assimilate = wu.assimilate /\ row.fds = wu.fds
        /\ row.error = wu.error \cup {"CANCELLED"}
    BY <1>1 DEF WorkunitRow
  <2>2. wu.exists /\ CancelWorkunit => wu' = row
    BY <1>2 DEF CancelWorkunit
  <2> HIDE DEF row
  <2>3. QED
    BY <2>1, <2>2
<1>10. ~wu.exists /\ JobWritten => SameJob(wu, wu')
  <2>1. SUFFICES ASSUME ~wu.exists, JobWritten PROVE SameJob(wu, wu')
    OBVIOUS
  <2>2. CASE InPurge(PurgeWorkunit)
    BY <1>8, <2>1, <2>2 DEF InPurge, SameJob, TypeOK, DbTypeOK, WorkunitRow
  <2>3. CASE ~InPurge(PurgeWorkunit)
    <3>1. UNCHANGED wu
      BY <2>1, <2>3 DEF JobWritten, InTransitioner, InValidator, InAssimilator, InFileDeleter,
         InCancel, TransitionerUpdateWorkunit, ValidatorUpdateWorkunit, AssimilatorHandle,
         AssimilatorUpdateWorkunit, FileDeleteInput, FileDeleteInputFails, CancelWorkunit,
         UpdateWorkunit
    <3>2. QED
      BY <3>1 DEF SameJob
  <2>4. QED
    BY <2>2, <2>3
<1>11. QED
  BY <1>3, <1>4, <1>5, <1>6, <1>7, <1>8, <1>9, <1>10

-----------------------------------------------------------------------------
\* What the validator remembers of the workunit.

\* check_set() with and without a canonical result.
LEMMA ElectionWrites ==
    ASSUME NEW v \in ValidatorMemory, NEW c \in Results, NEW viable
    PROVE  /\ Elected(v, c).wu.canonical = c
           /\ Elected(v, c).wu.assimilate = "READY" /\ Elected(v, c).wu.error = v.wu.error
           /\ NotElected(v, viable).wu.canonical = v.wu.canonical
           /\ NotElected(v, viable).wu.assimilate = v.wu.assimilate
           /\ v.wu.error \subseteq NotElected(v, viable).wu.error
           /\ Elected(v, c).res = v.res /\ NotElected(v, viable).res = v.res
           /\ Elected(v, c).todo = v.todo /\ NotElected(v, viable).todo = v.todo
           /\ Elected(v, c).leave = v.leave /\ NotElected(v, viable).leave = v.leave
<1>1. v.wu \in WorkunitRow
  BY DEF ValidatorMemory
<1>3. LET u == NotElected(v, viable)
      IN  /\ u.wu.canonical = v.wu.canonical /\ u.wu.assimilate = v.wu.assimilate
          /\ v.wu.error \subseteq u.wu.error /\ u.res = v.res /\ u.todo = v.todo
          /\ u.leave = v.leave
  <2> DEFINE n == Cardinality(viable \cap Viable(v.res))
             e == IF n > MaxSuccessResults THEN v.wu.error \cup {"TOO_MANY_SUCCESS"}
                  ELSE v.wu.error
             t == IF n >= v.wu.target THEN n + 1 ELSE v.wu.target
             w == IF \/ n > MaxSuccessResults \/ n >= v.wu.target
                     \/ \E r \in viable : v.res[r].validate = "INVALID"
                  THEN "IMMEDIATE" ELSE v.when
             u == [v EXCEPT !.wu.error = e, !.wu.target = t, !.when = w]
  <2>1. NotElected(v, viable) = u
    BY DEF NotElected
  <2>2. v.wu.error \subseteq e
    OBVIOUS
  <2> HIDE DEF e, t, w
  <2>3. /\ u.wu.canonical = v.wu.canonical /\ u.wu.assimilate = v.wu.assimilate
        /\ u.wu.error = e /\ u.res = v.res /\ u.todo = v.todo /\ u.leave = v.leave
    BY <1>1 DEF ValidatorMemory, WorkunitRow
  <2> HIDE DEF u
  <2>4. QED
    BY <2>1, <2>2, <2>3
<1>4. LET u == Elected(v, c)
      IN  /\ u.wu.canonical = c /\ u.wu.assimilate = "READY" /\ u.wu.error = v.wu.error
          /\ u.res = v.res /\ u.todo = v.todo /\ u.leave = v.leave
  BY <1>1 DEF Elected, ValidatorMemory, WorkunitRow
<1>5. QED
  BY <1>3, <1>4

\* What check_set() makes of the validator's memory, column by column.
LEMMA CheckSetMoves ==
    ASSUME TypeOK, NEW flaky, NEW c \in Results \cup {0}, ValidatorCheckSet(flaky, c)
    PROVE  /\ va.pc = "open" /\ va.wu.canonical = 0
           /\ ~va.leave /\ va'.leave
           /\ c = 0 => /\ va'.wu.canonical = 0 /\ va'.wu.assimilate = va.wu.assimilate
                       /\ va.wu.error \subseteq va'.wu.error
           /\ c # 0 => /\ va'.wu.canonical = c /\ va'.wu.assimilate = "READY"
                       /\ va'.wu.error = va.wu.error
                       /\ va.res[c].server = "OVER" /\ va.res[c].out \in Outputs
                       /\ \A r \in Results : va.res[r].server = "UNSENT" => r \in va'.todo
<1>1. va \in ValidatorMemory /\ va.res \in Rows
  BY DEF TypeOK, ValidatorTypeOK, ValidatorMemory, ValidatorCheckSet, Rows
<1> DEFINE viable == Viable(va.res)
           good == {r \in viable \ flaky : Readable(va.res, r)}
           mem == Inconclusive(CheckSet(va.res, viable, flaky, c), viable)
           unneeded == {r \in Results : c # 0 /\ va.res[r].server = "UNSENT"}
           rows == [r \in Results |-> IF r \in unneeded
                      THEN [mem[r] EXCEPT !.server = "OVER", !.outcome = "DIDNT_NEED"]
                      ELSE mem[r]]
           todo == unneeded \cup {r \in viable : mem[r] # va.res[r] \/ mem[r].validate = "VALID"}
           v == [va EXCEPT !.leave = TRUE, !.when = IF flaky = {} THEN @ ELSE "DELAYED",
                           !.res = rows, !.todo = todo]
<1>2. /\ va.pc = "open" /\ va.wu.canonical = 0 /\ ~va.leave
      /\ c # 0 => c \in Candidates(va.wu, va.res, good)
  BY DEF ValidatorCheckSet, good, viable
<1>3. va' = IF c # 0 THEN Elected(v, c) ELSE NotElected(v, viable)
  BY DEF ValidatorCheckSet, mem, viable
<1>4. v \in ValidatorMemory /\ v.wu = va.wu /\ v.todo = todo /\ v.leave
  <2>1. rows \in Rows
    <3>1. CheckSet(va.res, viable, flaky, c) \in Rows
      BY <1>1, CheckSetKeepsRows
    <3>2. mem \in Rows
      BY <3>1, CheckSetKeepsRows
    <3>3. \A r \in Results : [mem[r] EXCEPT !.server = "OVER", !.outcome = "DIDNT_NEED"]
                               \in ResultRow
      BY <3>2, RowUpdates DEF Rows, ServerStates, Outcomes
    <3> HIDE DEF mem, unneeded
    <3>4. QED
      BY <3>2, <3>3 DEF Rows
  <2>2. todo \in SUBSET Results
    BY <1>1 DEF Viable, Rows
  <2> HIDE DEF rows, todo
  <2>3. QED
    BY <1>1, <2>1, <2>2 DEF ValidatorMemory
<1> HIDE DEF v
<1>5. CASE c = 0
  <2>1. PICK d \in Results : TRUE
    BY ParamAssumption DEF Results
  <2>2. QED
    BY <1>2, <1>3, <1>4, <1>5, <2>1, ElectionWrites
<1>6. CASE c # 0
  <2>1. va.res[c].server = "OVER" /\ va.res[c].out \in Outputs
    BY <1>2, <1>6 DEF Candidates, Viable, Success, Readable
  <2>2. unneeded \subseteq va'.todo
    BY <1>3, <1>4, <1>6, ElectionWrites
  <2> HIDE DEF mem, rows, todo, good
  <2>3. QED
    BY <1>2, <1>3, <1>4, <1>6, <2>1, <2>2, ElectionWrites
<1>7. QED
  BY <1>5, <1>6

\* The rest of a pass leaves the copy of the workunit alone.
LEMMA ValidatorMemoryMoves ==
    ASSUME TypeOK, ValidatorNext, va'.pc = "open", ~ValidatorEnumerate
    PROVE  /\ va.pc = "open" /\ (va.leave \/ ~va'.leave => va'.wu = va.wu)
           /\ (~va'.leave => ~va.leave)
           /\ \/ /\ va'.wu.canonical = va.wu.canonical
                 /\ va'.wu.assimilate = va.wu.assimilate
                 /\ va.wu.error \subseteq va'.wu.error
              \/ /\ ~va.leave /\ va.wu.canonical = 0 /\ va'.wu.canonical \in Results
                 /\ va'.wu.assimilate = "READY" /\ va'.wu.error = va.wu.error
                 /\ va.res[va'.wu.canonical].server = "OVER"
<1>1. ASSUME NEW flaky, NEW c \in Results \cup {0}, ValidatorCheckSet(flaky, c)
      PROVE  /\ va.pc = "open" /\ (va.leave \/ ~va'.leave => va'.wu = va.wu)
             /\ (~va'.leave => ~va.leave)
             /\ \/ /\ va'.wu.canonical = va.wu.canonical
                   /\ va'.wu.assimilate = va.wu.assimilate
                   /\ va.wu.error \subseteq va'.wu.error
                \/ /\ ~va.leave /\ va.wu.canonical = 0 /\ va'.wu.canonical \in Results
                   /\ va'.wu.assimilate = "READY" /\ va'.wu.error = va.wu.error
                   /\ va.res[va'.wu.canonical].server = "OVER"
  BY <1>1, CheckSetMoves
<1>2. CASE ValidatorNoQuorum \/ ValidatorCheckedAll \/ ValidatorCreditError
           \/ ValidatorRetryPair
           \/ (\E r \in Results : ValidatorGrantCredit(r) \/ ValidatorUpdateResult(r)
                                  \/ ValidatorCheckPair(r))
  <2>1. va.pc = "open" /\ va \in ValidatorMemory
    BY <1>2 DEF ValidatorNoQuorum, ValidatorCheckedAll, ValidatorCreditError,
       ValidatorRetryPair, ValidatorGrantCredit, ValidatorUpdateResult, ValidatorCheckPair,
       TypeOK, ValidatorTypeOK, ValidatorMemory, Rows
  <2>2. va'.wu = va.wu /\ (~va'.leave => ~va.leave)
    BY <1>2, <2>1 DEF ValidatorMemory, ValidatorNoQuorum, ValidatorCheckedAll,
       ValidatorCreditError, ValidatorRetryPair, ValidatorGrantCredit, ValidatorUpdateResult,
       ValidatorCheckPair
  <2>3. QED
    BY <2>1, <2>2
<1>3. CASE ValidatorNoCanonicalRow \/ ValidatorUpdateWorkunit \/ ValidatorCrash
  BY <1>3 DEF ValidatorNoCanonicalRow, ValidatorUpdateWorkunit, ValidatorCrash, validatorIdle
<1>4. QED
  BY <1>1, <1>2, <1>3 DEF ValidatorNext, ValidatorStep, ValidatorFlakyCheckSet

-----------------------------------------------------------------------------
\* The canonical result is chosen once, for every interleaving.

\* A validator that has read the row of a job without canonical result remains
\* the only one to write it.
CanonicalSeen ==
    va.pc = "open" /\ wu.canonical # 0 => va.wu.canonical = wu.canonical

\* The inductive step, and what it says of the column.
LEMMA StepKeepsCanonical ==
    ASSUME TypeOK, CanonicalSeen, [Next]_vars
    PROVE  CanonicalSeen' /\ (wu.canonical # 0 => wu'.canonical = wu.canonical)
<1>1. CASE InValidator(ValidatorUpdateWorkunit)
  <2>1. va'.pc = "idle" /\ va.pc = "open"
    BY <1>1 DEF InValidator, ValidatorUpdateWorkunit, validatorIdle
  <2>2. wu'.canonical = wu.canonical \/ wu'.canonical = va.wu.canonical
    BY <1>1, JobWrites DEF JobWritten, SameJob, InValidator
  <2>3. QED
    BY <2>1, <2>2 DEF CanonicalSeen
<1>2. CASE ~InValidator(ValidatorUpdateWorkunit)
  <2>1. wu'.canonical = wu.canonical
    <3>1. CASE JobWritten
      BY <1>2, <3>1, JobWrites DEF JobWritten, SameJob, InTransitioner, InAssimilator,
                                   InFileDeleter, InPurge, InCancel
    <3>2. CASE ~JobWritten
      BY <3>2, WhoWritesJob DEF SameJob
    <3>3. QED
      BY <3>1, <3>2
  <2>2. CASE UNCHANGED va
    BY <2>1, <2>2 DEF CanonicalSeen
  <2>3. CASE InValidator(ValidatorEnumerate)
    <3>1. va'.wu = wu /\ wu' = wu
      BY <2>3 DEF InValidator, ValidatorEnumerate, dbVars
    <3>2. QED
      BY <3>1 DEF CanonicalSeen
  <2>4. CASE InValidator(ValidatorNext) /\ ~ValidatorEnumerate
    <3>1. SUFFICES ASSUME va'.pc = "open", wu.canonical # 0
                   PROVE  va'.wu.canonical = wu.canonical
      BY <2>1 DEF CanonicalSeen
    <3>2. va.wu.canonical = wu.canonical /\ wu.canonical # 0
      BY <2>4, <3>1, ValidatorMemoryMoves DEF InValidator, CanonicalSeen
    <3>3. QED
      BY <2>4, <3>1, <3>2, ValidatorMemoryMoves DEF InValidator
  <2>5. QED
    BY <2>2, <2>3, <2>4 DEF Next, Purged, vars, InTransitioner, InAssimilator, InFileDeleter,
       InPurge, InCgi, InCancel, InTime, InValidator, validatorVars
<1>3. QED
  BY <1>1, <1>2

\* Whoever runs when, once a canonical result is chosen no write replaces it.
THEOREM CanonicalIsChosenOnce == Spec => CanonicalIsFinal
<1>1. Init => CanonicalSeen
  BY DEF Init, ValidatorInit, validatorIdle, CanonicalSeen
<1>2. TypeOK /\ CanonicalSeen /\ [Next]_vars => CanonicalSeen'
  BY StepKeepsCanonical
<1>3. TypeOK /\ CanonicalSeen /\ [Next]_vars
        => [wu.canonical # 0 => wu'.canonical = wu.canonical]_vars
  BY StepKeepsCanonical
<1>4. Spec => []CanonicalSeen
  BY <1>1, <1>2, TypeCorrect, PTL DEF Spec
<1>5. QED
  BY <1>3, <1>4, TypeCorrect, PTL DEF Spec, CanonicalIsFinal

-----------------------------------------------------------------------------
\* What the transitioner remembers of the workunit.

\* Decided: results are no longer issued for the job.
Settled(w) == w.canonical # 0 \/ w.error # {}
NoneOpen(S) == Unsent(S) \cup InProgress(S) = {}
Ended(S, r) == S[r].server \in {"OVER", "PURGED"}

\* handle_wu() adds errors, starts assimilation of a decided job only, and
\* releases the input files only if every result it sees is over.
LEMMA RulesOnColumns ==
    ASSUME NEW w \in WorkunitRow, NEW S \in Rows, NEW release \in BOOLEAN, NEW deferred
    PROVE  /\ Decided(w, S).canonical = w.canonical /\ Decided(w, S).fds = w.fds
           /\ w.error \subseteq Decided(w, S).error
           /\ \/ Decided(w, S).assimilate = w.assimilate
              \/ w.assimilate = "INIT" /\ Decided(w, S).assimilate = "READY"
                 /\ Decided(w, S).error # {}
           /\ LET f == Finished(w, S, release, deferred)
              IN  /\ f.canonical = w.canonical /\ f.error = w.error
                  /\ \/ f.assimilate = w.assimilate
                     \/ w.assimilate = "INIT" /\ f.assimilate = "READY" /\ w.canonical # 0
                  /\ \/ f.fds = w.fds
                     \/ /\ w.fds = "INIT" /\ f.fds = "READY"
                        /\ release /\ AllOverAndValidated(S)
<1>1. /\ Decided(w, S).canonical = w.canonical /\ Decided(w, S).fds = w.fds
      /\ w.error \subseteq Decided(w, S).error
      /\ \/ Decided(w, S).assimilate = w.assimilate
         \/ w.assimilate = "INIT" /\ Decided(w, S).assimilate = "READY"
            /\ Decided(w, S).error # {}
  <2> DEFINE e == w.error
                  \cup (IF Cardinality(Errors(S)) > MaxErrorResults THEN {"TOO_MANY_ERROR"} ELSE {})
                  \cup (IF TooManyTotal(w, S) THEN {"TOO_MANY_TOTAL"} ELSE {})
             v == w.needValidate \/ (Unvalidated(S) # {} /\ Cardinality(Successes(S)) >= w.quorum)
             h == IF /\ Errors(S) # {}
                     /\ Successes(S) \cup InProgress(S) \cup NoReplies(S) = {}
                     /\ ~HrClassStatic
                  THEN 0 ELSE w.hr
             d == [w EXCEPT !.needValidate = v, !.hr = h, !.error = e,
                            !.assimilate = IF e # {} /\ @ = "INIT" THEN "READY" ELSE @]
  <2>1. Decided(w, S) = d
    BY DEF Decided
  <2>2. w.error \subseteq e
    OBVIOUS
  <2> HIDE DEF e, v, h
  <2>3. /\ d.canonical = w.canonical /\ d.fds = w.fds /\ d.error = e
        /\ d.assimilate = IF e # {} /\ w.assimilate = "INIT" THEN "READY" ELSE w.assimilate
    BY DEF WorkunitRow
  <2> HIDE DEF d
  <2>4. QED
    BY <2>1, <2>2, <2>3
<1>2. LET f == Finished(w, S, release, deferred)
      IN  /\ f.canonical = w.canonical /\ f.error = w.error
          /\ \/ f.assimilate = w.assimilate
             \/ w.assimilate = "INIT" /\ f.assimilate = "READY" /\ w.canonical # 0
          /\ \/ f.fds = w.fds
             \/ /\ w.fds = "INIT" /\ f.fds = "READY"
                /\ release /\ AllOverAndValidated(S)
  <2> DEFINE a == IF AllOverAndReadyToAssimilate(S) /\ w.assimilate = "INIT" /\ w.canonical # 0
                  THEN "READY" ELSE w.assimilate
             d == IF release /\ AllOverAndValidated(S) /\ w.fds = "INIT" THEN "READY" ELSE w.fds
             w1 == [w EXCEPT !.assimilate = a]
             t == IF /\ w1.canonical # 0 \/ w1.error # {}
                     /\ InProgress(S) = {}
                     /\ ~deferred
                  THEN "never" ELSE "later"
             f == [w1 EXCEPT !.fds = d, !.tt = t]
  <2>1. Finished(w, S, release, deferred) = f
    <3>1. w1 = [w EXCEPT !.assimilate =
                  IF AllOverAndReadyToAssimilate(S) /\ @ = "INIT" /\ w.canonical # 0
                  THEN "READY" ELSE @]
      OBVIOUS
    <3>2. w1.fds = w.fds
      BY DEF WorkunitRow
    <3>3. QED
      BY <3>1, <3>2 DEF Finished
  <2>2. /\ a = w.assimilate \/ (w.assimilate = "INIT" /\ a = "READY" /\ w.canonical # 0)
        /\ d = w.fds \/ (w.fds = "INIT" /\ d = "READY" /\ release /\ AllOverAndValidated(S))
    OBVIOUS
  <2> HIDE DEF a, d, t
  <2>3. f.canonical = w.canonical /\ f.error = w.error /\ f.assimilate = a /\ f.fds = d
    BY DEF WorkunitRow
  <2> HIDE DEF f
  <2>4. QED
    BY <2>1, <2>2, <2>3
<1>3. QED
  BY <1>1, <1>2

\* A pass keeps what it read, and adds to what it will write.
LEMMA TransitionerMemoryMoves ==
    ASSUME TypeOK, TransitionerNext, tr'.pc # "idle", ~TransitionerEnumerate
    PROVE  /\ tr.pc # "idle" /\ tr'.old = tr.old
           /\ tr'.wu.canonical = tr.wu.canonical /\ tr.wu.error \subseteq tr'.wu.error
           /\ \/ tr'.wu.assimilate = tr.wu.assimilate
              \/ tr.wu.assimilate = "INIT" /\ tr'.wu.assimilate = "READY" /\ Settled(tr'.wu)
           /\ \/ tr'.wu.fds = tr.wu.fds /\ (tr'.pc = "release" \/ tr.pc # "release")
              \/ /\ tr.wu.fds = "INIT" /\ tr'.wu.fds = "READY" /\ tr.wu.assimilate = "DONE"
                 /\ TransitionerRelease /\ tr'.pc = "release" /\ AllOver(tr.res)
<1>1. tr.pc # "idle" => tr \in TransitionerMemory
  BY DEF TypeOK, TransitionerTypeOK, TransitionerMemory, Rows
<1>2. ASSUME NEW r \in Results, TransitionerUpdateResult(r)
      PROVE  tr.pc # "idle" /\ tr'.old = tr.old /\ tr'.wu = tr.wu /\ tr'.pc = tr.pc
  BY <1>1, <1>2 DEF TransitionerUpdateResult, TransitionerMemory
<1>3. CASE TransitionerDecide
  <2>1. tr \in TransitionerMemory /\ tr.wu \in WorkunitRow /\ tr.res \in Rows
    BY <1>1, <1>3 DEF TransitionerDecide, TransitionerMemory
  <2>2. /\ tr'.pc = "decide" /\ tr'.old = tr.old /\ tr'.wu = Decided(tr.wu, tr.res)
        /\ tr.pc = "scan"
    BY <1>3, <2>1 DEF TransitionerDecide, TransitionerMemory
  <2> DEFINE w == Decided(tr.wu, tr.res)
  <2>3. /\ w.canonical = tr.wu.canonical /\ w.fds = tr.wu.fds /\ tr.wu.error \subseteq w.error
        /\ \/ w.assimilate = tr.wu.assimilate
           \/ tr.wu.assimilate = "INIT" /\ w.assimilate = "READY" /\ w.error # {}
    <3>1. TRUE \in BOOLEAN
      OBVIOUS
    <3>2. QED
      BY <2>1, <3>1, RulesOnColumns
  <2> HIDE DEF w
  <2>4. tr'.wu = w
    BY <2>2 DEF w
  <2>5. QED
    BY <2>2, <2>3, <2>4 DEF Settled
<1>4. CASE TransitionerRelease
  <2>1. tr \in TransitionerMemory /\ tr.wu \in WorkunitRow /\ tr.res \in Rows
    BY <1>1, <1>4 DEF TransitionerRelease, TransitionerMemory
  <2>2. PICK settled \in BOOLEAN :
          LET done == tr.wu.assimilate = "DONE"
              mem == IF done /\ settled THEN Released(tr.wu, tr.res) ELSE tr.res
          IN  tr' = [tr EXCEPT !.pc = "release", !.res = mem,
                         !.wu = Finished(tr.wu, tr.res, done /\ settled, done /\ ~settled),
                         !.todo = {r \in Results : mem[r] # tr.res[r]}]
    BY <1>4 DEF TransitionerRelease
  <2> DEFINE release == tr.wu.assimilate = "DONE" /\ settled
             deferred == tr.wu.assimilate = "DONE" /\ ~settled
             w == Finished(tr.wu, tr.res, release, deferred)
  <2>3. tr'.pc = "release" /\ tr'.old = tr.old /\ tr'.wu = w /\ tr.pc = "decide"
    BY <1>4, <2>1, <2>2 DEF TransitionerMemory, TransitionerRelease
  <2>4. AllOverAndValidated(tr.res) => AllOver(tr.res)
    BY DEF AllOverAndValidated, AllOverAndReadyToAssimilate
  <2>5. release \in BOOLEAN /\ (release => tr.wu.assimilate = "DONE")
    OBVIOUS
  <2> HIDE DEF release, deferred
  <2>6. /\ w.canonical = tr.wu.canonical /\ w.error = tr.wu.error
        /\ \/ w.assimilate = tr.wu.assimilate
           \/ tr.wu.assimilate = "INIT" /\ w.assimilate = "READY" /\ tr.wu.canonical # 0
        /\ \/ w.fds = tr.wu.fds
           \/ /\ tr.wu.fds = "INIT" /\ w.fds = "READY"
              /\ release /\ AllOverAndValidated(tr.res)
    BY <2>1, <2>5, RulesOnColumns
  <2> HIDE DEF w
  <2>7. QED
    BY <1>4, <2>3, <2>4, <2>5, <2>6 DEF Settled
<1>5. CASE TransitionerUpdateWorkunit \/ TransitionerCrash
  BY <1>5 DEF TransitionerUpdateWorkunit, TransitionerCrash, transitionerIdle
<1>6. QED
  BY <1>2, <1>3, <1>4, <1>5 DEF TransitionerNext, TransitionerStep

-----------------------------------------------------------------------------
\* A job that was decided stays decided, and its input files stay while a result
\* is out, as long as the validator is not interrupted inside a pass.

\* Only a decided job is assimilated or loses its files, and it loses them only
\* when no result is unsent or in progress.
RowFate ==
    /\ wu.assimilate # "INIT" \/ wu.fds # "INIT" => Settled(wu)
    /\ wu.fds # "INIT" => NoneOpen(res)
AssimilatorFate == asm.pc # "idle" => Settled(wu)

\* What the validator will write over the row takes nothing away from it.
ValidatorFate ==
    va.pc = "open" =>
        /\ wu.error \subseteq va.wu.error
        /\ va.wu.assimilate # "INIT" => Settled(va.wu)

\* Nor does what the transitioner will merge into it, however old its copy is.
TransitionerFate ==
    tr.pc # "idle" =>
        /\ tr.wu.canonical = tr.old.canonical /\ tr.old.error \subseteq tr.wu.error
        /\ Settled(tr.old) => Settled(wu)
        /\ \/ tr.wu.assimilate = tr.old.assimilate
           \/ /\ tr.wu.assimilate = "READY" /\ tr.old.assimilate = "INIT"
              /\ Settled(tr.wu)
        /\ tr.old.assimilate # "INIT" \/ tr.old.fds # "INIT" => Settled(tr.old)
        /\ wu.fds # "INIT" => tr.old.fds # "INIT"
        /\ \/ tr.wu.fds = tr.old.fds
           \/ /\ tr.wu.fds = "READY" /\ tr.old.fds = "INIT" /\ tr.old.assimilate = "DONE"
              /\ tr.pc = "release" /\ NoneOpen(res)

\* The results a pass saw ended have ended, or it will write that first; for a
\* decided job it knows every result there is.
TransitionerSees ==
    tr.pc # "idle" =>
        /\ \A r \in Results \ tr.todo : Ended(tr.res, r) => Ended(res, r)
        /\ Settled(tr.old) => Issued(res) = Issued(tr.res)
        /\ Issued(tr.res) \subseteq Issued(res)

FateSound ==
    RowFate /\ AssimilatorFate /\ ValidatorFate /\ CanonicalSeen
    /\ TransitionerFate /\ TransitionerSees

\* Rows that move forward end for good, and no result opens again.
LEMMA EndedForGood ==
    ASSUME TypeOK, TypeOK', Forward(res, res')
    PROVE  /\ \A r \in Results : Ended(res, r) => Ended(res', r)
           /\ Issued(res) \subseteq Issued(res')
           /\ NoneOpen(res) /\ Issued(res') = Issued(res) => NoneOpen(res')
<1>1. \A r \in Results : /\ res[r].server \in ServerStates /\ res'[r].server \in ServerStates
                         /\ Rank(res'[r].server) >= Rank(res[r].server)
  BY DEF TypeOK, DbTypeOK, ResultRow, Forward
<1>2. \A r \in Results :
         /\ res[r].server # "NONE" => res'[r].server # "NONE"
         /\ res[r].server \in {"OVER", "PURGED"} => res'[r].server \in {"OVER", "PURGED"}
  BY <1>1, RankFacts
<1>3. DOMAIN res = Results /\ DOMAIN res' = Results
  BY DEF TypeOK, DbTypeOK
<1>4. ASSUME NoneOpen(res), Issued(res') = Issued(res) PROVE NoneOpen(res')
  <2>1. \A r \in Results : res[r].server \notin {"UNSENT", "IN_PROGRESS"}
    BY <1>3, <1>4 DEF NoneOpen, Unsent, InProgress
  <2>2. \A r \in Results : res'[r].server = "NONE" <=> res[r].server = "NONE"
    BY <1>4 DEF Issued
  <2>3. \A r \in Results : res'[r].server \notin {"UNSENT", "IN_PROGRESS"}
    BY <1>1, <1>2, <2>1, <2>2 DEF ServerStates
  <2>4. QED
    BY <1>3, <2>3 DEF NoneOpen, Unsent, InProgress
<1>5. QED
  BY <1>2, <1>4 DEF Ended, Issued

\* handle_wu() makes no results for a job that is decided in its memory.
LEMMA SettledNotIssued ==
    ASSUME TypeOK, TransitionerDecide, Settled(tr.wu)
    PROVE  UNCHANGED res
<1>1. tr.wu \in WorkunitRow /\ tr.res \in Rows /\ TRUE \in BOOLEAN
  BY DEF TransitionerDecide, TypeOK, TransitionerTypeOK, Rows
<1> DEFINE w == Decided(tr.wu, tr.res)
           n == Cardinality({r \in Results : tr.res[r].server # "NONE"})
           new == IF w.error = {} /\ w.canonical = 0
                  THEN n + 1 .. n + NewResults(tr.wu, tr.res) ELSE {}
<1>2. res' = [r \in Results |-> IF r \in new THEN NewResult ELSE res[r]]
  BY DEF TransitionerDecide
<1>3. w.canonical = tr.wu.canonical /\ tr.wu.error \subseteq w.error
  BY <1>1, RulesOnColumns
<1> HIDE DEF w, n
<1>4. new = {}
  BY <1>3 DEF Settled
<1> HIDE DEF new
<1>5. QED
  BY <1>2, <1>4 DEF TypeOK, DbTypeOK

\* A step that adds results is TransitionerDecide, and its job is not decided.
LEMMA OnlyUndecidedIssue ==
    ASSUME TypeOK, TypeOK', MemoriesAreSafe, [Next]_vars
    PROVE  /\ Forward(res, res')
           /\ \/ Moves(res, res')
              \/ /\ InTransitioner(TransitionerDecide) /\ tr.pc = "scan" /\ UNCHANGED wu
                 /\ Settled(tr.wu) => UNCHANGED res
<1>1. CASE Moves(res, res')
  BY <1>1 DEF Moves
<1>2. CASE InTransitioner(TransitionerDecide)
  <2>1. tr.pc = "scan" /\ UNCHANGED wu
    BY <1>2 DEF InTransitioner, TransitionerDecide
  <2>2. Forward(res, res') /\ (Settled(tr.wu) => UNCHANGED res)
    BY <1>2, DecideIsSafe, SettledNotIssued DEF InTransitioner
  <2>3. QED
    BY <1>2, <2>1, <2>2
<1>3. QED
  BY <1>1, <1>2, StepForward

\* No write makes a decided job undecided.
LEMMA StaysSettled ==
    ASSUME TypeOK, FateSound, [Next]_vars, Settled(wu),
           "validator" \notin Preemptible
    PROVE  Settled(wu')
<1>1. CASE ~JobWritten \/ ~wu.exists
  BY <1>1, WhoWritesJob, JobWrites DEF SameJob, Settled
<1>2. CASE wu.exists /\ InTransitioner(TransitionerUpdateWorkunit)
  <2>1. tr.pc # "idle"
    BY <1>2 DEF InTransitioner, TransitionerUpdateWorkunit
  <2>2. tr.old.error \subseteq tr.wu.error
    BY <2>1 DEF FateSound, TransitionerFate
  <2>3. /\ wu'.canonical = wu.canonical
        /\ wu'.error = IF tr.wu.error # tr.old.error THEN tr.wu.error ELSE wu.error
    BY <1>2, JobWrites DEF InTransitioner
  <2>4. QED
    BY <2>2, <2>3 DEF Settled
<1>3. CASE wu.exists /\ InValidator(ValidatorUpdateWorkunit)
  <2>1. va.pc = "open"
    BY <1>3 DEF InValidator, ValidatorUpdateWorkunit
  <2>2. wu'.canonical = va.wu.canonical /\ wu'.error = va.wu.error
    BY <1>3, JobWrites DEF InValidator
  <2>3. QED
    BY <2>1, <2>2 DEF Settled, FateSound, ValidatorFate, CanonicalSeen
<1>4. QED
  BY <1>1, <1>2, <1>3, JobWrites
     DEF JobWritten, Settled, InAssimilator, InFileDeleter, InPurge, InCancel

\* While the validator is inside a pass that nobody interrupts, nobody else writes.
LEMMA ValidatorAlone ==
    ASSUME [Next]_vars, va.pc = "open", "validator" \notin Preemptible,
           ~InValidator(ValidatorNext)
    PROVE  ~JobWritten /\ UNCHANGED <<tr, va, asm, purge, cgi, cancel>>
<1>1. Busy("validator") /\ "validator" \in Processes \ Preemptible
  BY DEF Busy, Processes
<1>2. \A p : Runs(p) => p = "validator"
  BY <1>1 DEF Runs
<1>3. ~Purged
  BY <1>1 DEF Purged
<1>4. UNCHANGED vars \/ InTime(TransitionTimePasses) \/ (\E r \in Results : InTime(DeadlinePasses(r)))
  BY <1>2, <1>3 DEF Next, InTransitioner, InAssimilator, InFileDeleter, InPurge, InCgi, InCancel
<1>5. ~JobWritten
  BY <1>2 DEF JobWritten, InTransitioner, InAssimilator, InFileDeleter, InPurge, InCancel,
              InValidator, ValidatorNext, ValidatorStep
<1>6. QED
  BY <1>4, <1>5 DEF InTime, vars, validatorVars, schedulerVars

\* The row: assimilation and deletion follow a decision.
LEMMA StepKeepsRowFate ==
    ASSUME TypeOK, TypeOK', MemoriesAreSafe, FateSound, [Next]_vars,
           "validator" \notin Preemptible
    PROVE  RowFate'
<1>1. Settled(wu) => Settled(wu')
  BY StaysSettled
<1>2. wu'.assimilate # "INIT" \/ wu'.fds # "INIT" => Settled(wu')
  <2>1. CASE Settled(wu) \/ ~JobWritten \/ ~wu.exists
    BY <1>1, <2>1, WhoWritesJob, JobWrites DEF SameJob, FateSound, RowFate, Settled
  <2>2. CASE wu.exists /\ ~Settled(wu) /\ InTransitioner(TransitionerUpdateWorkunit)
    <3>1. tr.pc # "idle"
      BY <2>2 DEF InTransitioner, TransitionerUpdateWorkunit
    <3>2. /\ wu'.canonical = wu.canonical
          /\ wu'.error = IF tr.wu.error # tr.old.error THEN tr.wu.error ELSE wu.error
          /\ wu'.assimilate = IF tr.wu.assimilate # tr.old.assimilate
                              THEN tr.wu.assimilate ELSE wu.assimilate
          /\ wu'.fds = IF tr.wu.fds # tr.old.fds THEN tr.wu.fds ELSE wu.fds
      BY <2>2, JobWrites DEF InTransitioner
    <3>3. ~Settled(tr.old) /\ wu.assimilate = "INIT" /\ wu.fds = "INIT"
      BY <2>2, <3>1 DEF FateSound, TransitionerFate, RowFate
    <3>4. tr.old.assimilate = "INIT" /\ tr.wu.fds = tr.old.fds
      BY <3>1, <3>3 DEF FateSound, TransitionerFate
    <3>5. wu'.assimilate # "INIT" => Settled(tr.wu)
      BY <3>1, <3>2, <3>3 DEF FateSound, TransitionerFate
    <3>6. Settled(tr.wu) => tr.wu.error # {} /\ tr.old.error = {}
      BY <3>1, <3>3 DEF FateSound, TransitionerFate, Settled
    <3>7. QED
      BY <3>2, <3>3, <3>4, <3>5, <3>6 DEF Settled
  <2>3. CASE wu.exists /\ ~Settled(wu) /\ InValidator(ValidatorUpdateWorkunit)
    <3>1. va.pc = "open"
      BY <2>3 DEF InValidator, ValidatorUpdateWorkunit
    <3>2. /\ wu'.canonical = va.wu.canonical /\ wu'.error = va.wu.error
          /\ wu'.assimilate = va.wu.assimilate /\ wu'.fds = wu.fds
      BY <2>3, JobWrites DEF InValidator
    <3>3. QED
      BY <2>3, <3>1, <3>2 DEF FateSound, ValidatorFate, RowFate, Settled
  <2>4. CASE InAssimilator(AssimilatorHandle) \/ InAssimilator(AssimilatorUpdateWorkunit)
    <3>1. Settled(wu)
      BY <2>4 DEF InAssimilator, AssimilatorHandle, AssimilatorUpdateWorkunit, FateSound,
                  AssimilatorFate
    <3>2. QED
      BY <2>1, <3>1
  <2>5. CASE wu.exists /\ ~Settled(wu) /\ JobWritten /\ ~InTransitioner(TransitionerUpdateWorkunit)
             /\ ~InValidator(ValidatorUpdateWorkunit) /\ ~InAssimilator(AssimilatorHandle)
             /\ ~InAssimilator(AssimilatorUpdateWorkunit)
    BY <2>5, JobWrites DEF JobWritten, InFileDeleter, InPurge, InCancel, FateSound, RowFate
  <2>6. QED
    BY <2>1, <2>2, <2>3, <2>4, <2>5
<1>3. ASSUME wu'.fds # "INIT" PROVE NoneOpen(res')
  <2>1. CASE wu.fds # "INIT"
    <3>1. NoneOpen(res)
      BY <2>1 DEF FateSound, RowFate
    <3>2. Forward(res, res') /\ Issued(res') = Issued(res)
      <4>1. CASE Moves(res, res')
        BY <4>1 DEF Moves
      <4>2. CASE ~Moves(res, res')
        <5>1. tr.pc = "scan" /\ Forward(res, res') /\ (Settled(tr.wu) => UNCHANGED res)
          BY <4>2, OnlyUndecidedIssue
        <5>2. Settled(tr.wu)
          BY <2>1, <5>1 DEF FateSound, TransitionerFate, Settled
        <5>3. QED
          BY <5>1, <5>2
      <4>3. QED
        BY <4>1, <4>2
    <3>3. QED
      BY <3>1, <3>2, EndedForGood
  <2>2. CASE wu.fds = "INIT"
    <3>1. wu'.fds # wu.fds
      BY <1>3, <2>2
    <3>2. wu.exists /\ InTransitioner(TransitionerUpdateWorkunit)
      BY <2>2, <3>1, WhoWritesJob, JobWrites
         DEF SameJob, JobWritten, InValidator, InAssimilator, InFileDeleter, InPurge, InCancel
    <3>3. tr.wu.fds # tr.old.fds /\ tr.pc # "idle" /\ UNCHANGED res
      BY <3>1, <3>2, JobWrites DEF InTransitioner, TransitionerUpdateWorkunit
    <3>4. QED
      BY <3>3 DEF FateSound, TransitionerFate
  <2>3. QED
    BY <2>1, <2>2
<1>4. QED
  BY <1>2, <1>3 DEF RowFate

\* The assimilator begins with a decided job.
LEMMA StepKeepsAssimilatorFate ==
    ASSUME TypeOK, FateSound, [Next]_vars, "validator" \notin Preemptible
    PROVE  AssimilatorFate'
<1>1. ASSUME asm'.pc # "idle" PROVE Settled(wu)
  <2>1. CASE asm.pc # "idle"
    BY <2>1 DEF FateSound, AssimilatorFate
  <2>2. CASE asm.pc = "idle"
    <3>1. InAssimilator(AssimilatorNext)
      BY <1>1, <2>2 DEF Next, Purged, vars, InTransitioner, InValidator, InFileDeleter, InPurge,
         InCgi, InCancel, InTime
    <3>2. AssimilatorEnumerate
      BY <1>1, <2>2, <3>1 DEF InAssimilator, AssimilatorNext, AssimilatorStep, AssimilatorHandle,
         AssimilatorUpdateWorkunit, AssimilatorCrash
    <3>3. QED
      BY <3>2 DEF AssimilatorEnumerate, FateSound, RowFate
  <2>3. QED
    BY <2>1, <2>2
<1>2. QED
  BY <1>1, StaysSettled DEF AssimilatorFate

\* The validator's copy of the row has every error the row has.
LEMMA StepKeepsValidatorFate ==
    ASSUME TypeOK, FateSound, [Next]_vars, "validator" \notin Preemptible
    PROVE  ValidatorFate'
<1>1. SUFFICES ASSUME va'.pc = "open"
               PROVE  /\ wu'.error \subseteq va'.wu.error
                      /\ va'.wu.assimilate # "INIT" => Settled(va'.wu)
  BY DEF ValidatorFate
<1>2. CASE InValidator(ValidatorEnumerate)
  BY <1>2 DEF InValidator, ValidatorEnumerate, dbVars, FateSound, RowFate
<1>3. CASE InValidator(ValidatorNext) /\ ~ValidatorEnumerate
  <2>1. va.pc = "open" /\ ~ValidatorUpdateWorkunit
    BY <1>1, <1>3, ValidatorMemoryMoves DEF InValidator, ValidatorUpdateWorkunit, validatorIdle
  <2>2. UNCHANGED wu
    BY <1>3, <2>1 DEF InValidator, ValidatorNext, ValidatorStep, ValidatorFlakyCheckSet,
     ValidatorCreditError, ValidatorRetryPair, ValidatorCrash, ValidatorEnumerate,
     ValidatorNoCanonicalRow, ValidatorNoQuorum, ValidatorCheckSet, ValidatorCheckPair,
     ValidatorGrantCredit, ValidatorUpdateResult, ValidatorCheckedAll, dbVars
  <2>3. /\ wu.error \subseteq va.wu.error
        /\ va.wu.assimilate # "INIT" => Settled(va.wu)
    BY <2>1 DEF FateSound, ValidatorFate
  <2>4. QED
    BY <1>1, <1>3, <2>2, <2>3, ValidatorMemoryMoves DEF InValidator, Settled, Results
<1>4. CASE ~InValidator(ValidatorNext)
  <2>1. UNCHANGED va
    BY <1>4 DEF Next, Purged, vars, InTransitioner, InAssimilator, InFileDeleter, InPurge,
       InCgi, InCancel, InTime, validatorVars
  <2>2. SameJob(wu, wu')
    BY <1>1, <1>4, <2>1, ValidatorAlone, WhoWritesJob
  <2>3. QED
    BY <1>1, <2>1, <2>2 DEF SameJob, FateSound, ValidatorFate
<1>5. QED
  BY <1>2, <1>3, <1>4 DEF InValidator, ValidatorNext, ValidatorStep

\* The transitioner's copies of the row.
LEMMA StepKeepsTransitionerFate ==
    ASSUME TypeOK, TypeOK', MemoriesAreSafe, FateSound, [Next]_vars,
           "validator" \notin Preemptible
    PROVE  TransitionerFate'
<1>1. SUFFICES ASSUME tr'.pc # "idle" PROVE TransitionerFate'
  BY DEF TransitionerFate
<1>2. CASE InTransitioner(TransitionerEnumerate)
  <2>1. tr'.old = wu /\ tr'.wu = wu /\ UNCHANGED <<wu, res>>
    BY <1>2 DEF InTransitioner, TransitionerEnumerate, dbVars
  <2>2. RowFate
    BY DEF FateSound
  <2>3. QED
    BY <2>1, <2>2 DEF TransitionerFate, RowFate
<1>3. CASE ~InTransitioner(TransitionerEnumerate)
  <2>1. ASSUME tr.pc # "idle", tr'.old = tr.old,
               ~InTransitioner(TransitionerUpdateWorkunit)
        PROVE  /\ Settled(tr'.old) => Settled(wu')
               /\ tr'.old.assimilate # "INIT" \/ tr'.old.fds # "INIT" => Settled(tr'.old)
               /\ wu'.fds # "INIT" => tr'.old.fds # "INIT"
    <3>1. wu'.fds # "INIT" => wu.fds # "INIT"
      BY <2>1, WhoWritesJob, JobWrites
         DEF SameJob, JobWritten, InValidator, InAssimilator, InFileDeleter, InPurge, InCancel
    <3>2. QED
      BY <2>1, <3>1, StaysSettled DEF FateSound, TransitionerFate
  <2>2. CASE UNCHANGED tr /\ ~InTransitioner(TransitionerNext)
    <3>1. Moves(res, res')
      BY <2>2, OnlyUndecidedIssue DEF InTransitioner, TransitionerNext, TransitionerStep
    <3>2. NoneOpen(res) => NoneOpen(res')
      BY <3>1, EndedForGood DEF Moves
    <3>3. ~InTransitioner(TransitionerUpdateWorkunit)
      BY <2>2 DEF InTransitioner, TransitionerNext, TransitionerStep
    <3>4. QED
      BY <1>1, <2>1, <2>2, <3>2, <3>3 DEF FateSound, TransitionerFate
  <2>3. CASE InTransitioner(TransitionerNext)
    <3>1. /\ tr.pc # "idle" /\ tr'.old = tr.old
          /\ tr'.wu.canonical = tr.wu.canonical /\ tr.wu.error \subseteq tr'.wu.error
          /\ \/ tr'.wu.assimilate = tr.wu.assimilate
             \/ tr.wu.assimilate = "INIT" /\ tr'.wu.assimilate = "READY" /\ Settled(tr'.wu)
          /\ \/ tr'.wu.fds = tr.wu.fds /\ (tr'.pc = "release" \/ tr.pc # "release")
             \/ /\ tr.wu.fds = "INIT" /\ tr'.wu.fds = "READY" /\ tr.wu.assimilate = "DONE"
                /\ TransitionerRelease /\ tr'.pc = "release" /\ AllOver(tr.res)
      BY <1>1, <1>3, <2>3, TransitionerMemoryMoves DEF InTransitioner
    <3>2. ~TransitionerUpdateWorkunit
      BY <1>1 DEF TransitionerUpdateWorkunit, transitionerIdle
    <3>3. /\ Settled(tr'.old) => Settled(wu')
          /\ tr'.old.assimilate # "INIT" \/ tr'.old.fds # "INIT" => Settled(tr'.old)
          /\ wu'.fds # "INIT" => tr'.old.fds # "INIT"
      BY <2>1, <3>1, <3>2 DEF InTransitioner
    <3>4. /\ tr'.wu.canonical = tr'.old.canonical /\ tr'.old.error \subseteq tr'.wu.error
          /\ \/ tr'.wu.assimilate = tr'.old.assimilate
             \/ /\ tr'.wu.assimilate = "READY" /\ tr'.old.assimilate = "INIT"
                /\ Settled(tr'.wu)
      <4>1. Settled(tr.wu) => Settled(tr'.wu)
        BY <3>1 DEF Settled
      <4>2. QED
        BY <3>1, <4>1 DEF FateSound, TransitionerFate
    <3>5. \/ tr'.wu.fds = tr'.old.fds
          \/ /\ tr'.wu.fds = "READY" /\ tr'.old.fds = "INIT" /\ tr'.old.assimilate = "DONE"
             /\ tr'.pc = "release" /\ NoneOpen(res')
      <4>1. CASE tr'.wu.fds = tr.wu.fds /\ tr.wu.fds = tr.old.fds
        BY <3>1, <4>1
      <4>2. CASE tr'.wu.fds = tr.wu.fds /\ tr.wu.fds # tr.old.fds
        <5>1. /\ tr.wu.fds = "READY" /\ tr.old.fds = "INIT" /\ tr.old.assimilate = "DONE"
              /\ tr.pc = "release" /\ NoneOpen(res)
          BY <3>1, <4>2 DEF FateSound, TransitionerFate
        <5>2. tr'.pc = "release"
          BY <3>1, <4>2, <5>1
        <5>3. Moves(res, res')
          BY <5>1, OnlyUndecidedIssue
        <5>4. NoneOpen(res')
          BY <5>1, <5>3, EndedForGood DEF Moves
        <5>5. QED
          BY <3>1, <4>2, <5>1, <5>2, <5>4
      <4>3. CASE tr'.wu.fds # tr.wu.fds
        <5>1. /\ tr.wu.fds = "INIT" /\ tr'.wu.fds = "READY" /\ tr.wu.assimilate = "DONE"
              /\ TransitionerRelease /\ tr'.pc = "release" /\ AllOver(tr.res)
          BY <3>1, <4>3
        <5>2. tr.pc = "decide" /\ tr.todo = {} /\ UNCHANGED res /\ tr \in TransitionerMemory
          BY <5>1 DEF TransitionerRelease, dbVars, TypeOK, TransitionerTypeOK,
                      TransitionerMemory, Rows
        <5>3. tr.old.fds = "INIT" /\ tr.old.assimilate = "DONE"
          BY <3>1, <5>1, <5>2 DEF FateSound, TransitionerFate
        <5>4. Settled(tr.old)
          BY <3>1, <5>3 DEF FateSound, TransitionerFate
        <5>5. /\ \A r \in Results : Ended(tr.res, r) => Ended(res, r)
              /\ Issued(res) = Issued(tr.res)
          BY <3>1, <5>2, <5>4 DEF FateSound, TransitionerSees
        <5>6. \A r \in Issued(tr.res) : Ended(tr.res, r)
          <6>1. DOMAIN tr.res = Results
            BY <5>2 DEF TransitionerMemory, Rows
          <6>2. QED
            BY <5>1, <6>1 DEF AllOver, Exists, Issued, Ended
        <5>7. NoneOpen(res)
          <6>1. DOMAIN res = Results
            BY DEF TypeOK, DbTypeOK
          <6>2. QED
            BY <5>5, <5>6, <6>1 DEF NoneOpen, Unsent, InProgress, Issued, Ended
        <5>8. QED
          BY <3>1, <5>1, <5>2, <5>3, <5>7
      <4>4. QED
        BY <4>1, <4>2, <4>3
    <3>6. QED
      BY <3>3, <3>4, <3>5 DEF TransitionerFate
  <2>4. QED
    BY <2>2, <2>3 DEF Next, Purged, vars, InTransitioner, InValidator, InAssimilator,
       InFileDeleter, InPurge, InCgi, InCancel, InTime
<1>4. QED
  BY <1>2, <1>3

\* The transitioner's copies of the results.
LEMMA StepKeepsTransitionerSees ==
    ASSUME TypeOK, TypeOK', MemoriesAreSafe, FateSound, [Next]_vars
    PROVE  TransitionerSees'
<1>1. SUFFICES ASSUME tr'.pc # "idle" PROVE TransitionerSees'
  BY DEF TransitionerSees
<1>2. /\ res \in Rows /\ DOMAIN res = Results
      /\ \A r \in Results : Ended(res, r) => Ended(res', r)
      /\ Issued(res) \subseteq Issued(res')
  BY OnlyUndecidedIssue, EndedForGood DEF TypeOK, DbTypeOK, Rows
<1>3. ASSUME UNCHANGED tr, Issued(res') = Issued(res)
      PROVE  TransitionerSees'
  BY <1>1, <1>2, <1>3 DEF FateSound, TransitionerSees
<1>4. CASE InTransitioner(TransitionerEnumerate)
  <2> DEFINE mem == Scanned(wu, res)
  <2>1. /\ tr'.res = mem /\ tr'.todo = {r \in Results : mem[r] # res[r]} /\ UNCHANGED res
    BY <1>4 DEF InTransitioner, TransitionerEnumerate, dbVars
  <2>2. \A r \in Results : /\ mem[r] # res[r] => mem[r].server = "OVER"
                           /\ res[r].server \in {"NONE", "PURGED"} => mem[r] = res[r]
    BY <1>2, RulesMakeOver
  <2> HIDE DEF mem
  <2>3. Issued(mem) = Issued(res)
    BY <2>2 DEF Issued
  <2>4. \A r \in Results \ tr'.todo : mem[r] = res[r]
    BY <2>1
  <2>5. QED
    BY <2>1, <2>3, <2>4 DEF TransitionerSees, Ended
<1>5. ASSUME NEW r \in Results, InTransitioner(TransitionerUpdateResult(r))
      PROVE  TransitionerSees'
  <2>1. tr \in TransitionerMemory /\ tr.pc # "idle" /\ r \in tr.todo
    BY <1>5 DEF InTransitioner, TransitionerUpdateResult, TypeOK, TransitionerTypeOK,
                TransitionerMemory, Rows
  <2>2. tr'.pc = tr.pc /\ tr'.old = tr.old /\ tr'.res = tr.res /\ tr'.todo = tr.todo \ {r}
    BY <1>5, <2>1 DEF InTransitioner, TransitionerUpdateResult, TransitionerMemory
  <2>3. Issued(res') = Issued(res)
    <3>1. ~TransitionerDecide
      BY <2>1 DEF TransitionerDecide
    <3>2. QED
      BY <3>1, OnlyUndecidedIssue DEF InTransitioner, Moves
  <2>4. tr.res[r].server = "OVER"
    BY <2>1 DEF MemoriesAreSafe, TransitionerSound
  <2>5. Ended(res', r)
    <3> DEFINE row == [res[r] EXCEPT !.server = tr.res[r].server,
                                     !.outcome = tr.res[r].outcome,
                                     !.validate = tr.res[r].validate, !.fds = tr.res[r].fds]
    <3>1. row.server = "OVER"
      BY <1>2, <2>4 DEF Rows, ResultRow
    <3>2. UpdateResult(r, row)
      BY <1>5 DEF InTransitioner, TransitionerUpdateResult
    <3> HIDE DEF row
    <3>3. CASE r \in Exists(res)
      BY <1>2, <3>1, <3>2, <3>3 DEF UpdateResult, Ended
    <3>4. CASE r \notin Exists(res)
      <4>1. r \in Issued(res)
        BY <2>1, <2>4 DEF FateSound, TransitionerSees, Issued
      <4>2. Ended(res, r)
        BY <1>2, <3>4, <4>1 DEF Exists, Issued, Ended
      <4>3. QED
        BY <1>2, <4>2
    <3>5. QED
      BY <3>3, <3>4
  <2>6. QED
    BY <1>2, <2>1, <2>2, <2>3, <2>5 DEF FateSound, TransitionerSees
<1>6. CASE InTransitioner(TransitionerDecide)
  <2>1. tr \in TransitionerMemory /\ tr.pc = "scan" /\ tr.todo = {} /\ tr.res \in Rows
    BY <1>6 DEF InTransitioner, TransitionerDecide, TypeOK, TransitionerTypeOK,
                TransitionerMemory, Rows
  <2> DEFINE w == Decided(tr.wu, tr.res)
             mem == IF w.error # {} THEN GivenUp(tr.res) ELSE tr.res
             todo == {r \in Results : mem[r] # tr.res[r]}
  <2>2. /\ tr'.pc = "decide" /\ tr'.old = tr.old /\ tr'.res = mem /\ tr'.todo = todo
    BY <1>6, <2>1 DEF InTransitioner, TransitionerDecide, TransitionerMemory
  <2>3. \A r \in Results : mem[r] # tr.res[r] => mem[r].server = "OVER" /\ tr.res[r].server # "NONE"
    <3>1. \A r \in Results : tr.res[r].server = "NONE" => GivenUp(tr.res)[r] = tr.res[r]
      BY <2>1 DEF GivenUp, Unsent, Over, Rows
    <3>2. \A r \in Results : GivenUp(tr.res)[r] # tr.res[r] => GivenUp(tr.res)[r].server = "OVER"
      BY <2>1, RulesMakeOver
    <3>3. QED
      BY <3>1, <3>2
  <2> HIDE DEF mem
  <2>4. Issued(mem) = Issued(tr.res)
    BY <2>3 DEF Issued
  <2>5. Settled(tr.old) => Settled(tr.wu)
    BY <2>1 DEF FateSound, TransitionerFate, Settled
  <2>6. Settled(tr.old) => UNCHANGED res
    BY <1>6, <2>5, SettledNotIssued DEF InTransitioner
  <2>7. \A r \in Results \ tr'.todo : mem[r] = tr.res[r]
    BY <2>2
  <2>8. QED
    BY <1>2, <2>1, <2>2, <2>4, <2>6, <2>7 DEF FateSound, TransitionerSees, Ended
<1>7. CASE InTransitioner(TransitionerRelease)
  <2>1. tr \in TransitionerMemory /\ tr.pc = "decide" /\ tr.todo = {} /\ tr.res \in Rows
        /\ UNCHANGED res
    BY <1>7 DEF InTransitioner, TransitionerRelease, TypeOK, TransitionerTypeOK,
                TransitionerMemory, Rows, dbVars
  <2>2. PICK mem \in {Released(tr.wu, tr.res), tr.res} :
          /\ tr'.pc = "release" /\ tr'.old = tr.old /\ tr'.res = mem
          /\ tr'.todo = {r \in Results : mem[r] # tr.res[r]}
    BY <1>7, <2>1 DEF InTransitioner, TransitionerRelease, TransitionerMemory
  <2>3. \A r \in Results : mem[r].server = tr.res[r].server
    <3>1. \A row \in ResultRow : [row EXCEPT !.fds = "READY"].server = row.server
      BY DEF ResultRow
    <3>2. \A r \in Results : Released(tr.wu, tr.res)[r].server = tr.res[r].server
      BY <2>1, <3>1 DEF Released, Rows
    <3>3. QED
      BY <2>2, <3>2
  <2>4. Issued(mem) = Issued(tr.res)
    BY <2>3 DEF Issued
  <2>5. QED
    BY <2>1, <2>2, <2>3, <2>4 DEF FateSound, TransitionerSees, Ended
<1>8. CASE InTransitioner(TransitionerUpdateWorkunit) \/ InTransitioner(TransitionerCrash)
  BY <1>1, <1>8 DEF InTransitioner, TransitionerUpdateWorkunit, TransitionerCrash, transitionerIdle
<1>9. CASE UNCHANGED tr /\ ~InTransitioner(TransitionerNext)
  <2>1. Issued(res') = Issued(res)
    BY <1>9, OnlyUndecidedIssue DEF InTransitioner, TransitionerNext, TransitionerStep, Moves
  <2>2. QED
    BY <1>3, <1>9, <2>1
<1>10. QED
  BY <1>4, <1>5, <1>6, <1>7, <1>8, <1>9
     DEF Next, Purged, vars, InTransitioner, InValidator, InAssimilator,
         InFileDeleter, InPurge, InCgi, InCancel, InTime, TransitionerNext, TransitionerStep

\* The inductive step.
LEMMA StepKeepsFate ==
    ASSUME TypeOK, TypeOK', MemoriesAreSafe, FateSound, [Next]_vars,
           "validator" \notin Preemptible
    PROVE  FateSound'
<1>1. CanonicalSeen'
  BY StepKeepsCanonical DEF FateSound
<1>2. QED
  BY <1>1, StepKeepsRowFate, StepKeepsAssimilatorFate, StepKeepsValidatorFate,
     StepKeepsTransitionerFate, StepKeepsTransitionerSees DEF FateSound

\* With a validator that is not interrupted inside a pass, nothing any process
\* remembers, however old, can undo a decision when it is written.
THEOREM DecisionsAreSafe ==
    ASSUME "validator" \notin Preemptible
    PROVE  Spec => []FateSound
<1>1. Init => FateSound
  <2>1. SUFFICES ASSUME Init PROVE FateSound
    OBVIOUS
  <2>2. wu.assimilate = "INIT" /\ wu.fds = "INIT"
    BY <2>1 DEF Init, DbInit, NewWorkunit
  <2>3. tr.pc = "idle" /\ va.pc = "idle" /\ asm.pc = "idle"
    BY <2>1 DEF Init, TransitionerInit, transitionerIdle, ValidatorInit, validatorIdle,
                AssimilatorInit, assimilatorIdle
  <2>4. QED
    BY <2>2, <2>3 DEF FateSound, RowFate, AssimilatorFate, ValidatorFate, CanonicalSeen,
                      TransitionerFate, TransitionerSees
<1>2. TypeOK /\ TypeOK' /\ MemoriesAreSafe /\ FateSound /\ [Next]_vars => FateSound'
  BY StepKeepsFate
<1>3. QED
  BY <1>1, <1>2, TypeCorrect, StaleMemoriesAreSafe, PTL DEF Spec

\* Input files are released only when no volunteer has, or is about to be given,
\* a result of the job.
THEOREM InputsAreKept ==
    ASSUME "validator" \notin Preemptible
    PROVE  Spec => []InputsKeptWhileNeeded
<1>1. FateSound => InputsKeptWhileNeeded
  BY DEF FateSound, RowFate, InputsKeptWhileNeeded, NoneOpen
<1>2. QED
  BY <1>1, DecisionsAreSafe, PTL

-----------------------------------------------------------------------------
\* With a transitioner that is not interrupted inside a pass either, the daemons
\* together go through the life of a job that Job.tla describes.

\* The row is as the transitioner read it, so what it writes is about that row.
HeldByTransitioner == tr.pc # "idle" => wu.exists /\ SameJob(tr.old, wu)

\* The row is as the validator read it, but for the decision it is about to write.
HeldByValidator ==
    va.pc = "open" =>
        /\ ~va.leave => /\ va.wu.error = wu.error
                        /\ \A r \in Results : va.res[r].server = "OVER" => Ended(res, r)
        /\ \/ va.wu.canonical = wu.canonical /\ va.wu.assimilate = wu.assimilate
           \/ /\ va.leave /\ wu.canonical = 0 /\ va.wu.canonical \in Results
              /\ va.wu.assimilate = "READY" /\ va.wu.error = wu.error
              /\ Ended(res, va.wu.canonical)

HeldByAssimilator == asm.pc # "idle" => wu.assimilate # "DONE"
HeldByPurge == purge.pc = "purging" => wu.fds = "DONE"

\* The inductive invariant of the refinement, next to FateSound.
JobHeld == HeldByTransitioner /\ HeldByValidator /\ HeldByAssimilator /\ HeldByPurge

\* While the transitioner is inside a pass that nobody interrupts, nobody else writes.
LEMMA TransitionerAlone ==
    ASSUME [Next]_vars, tr.pc # "idle", "transitioner" \notin Preemptible,
           ~InTransitioner(TransitionerNext)
    PROVE  ~JobWritten /\ UNCHANGED tr
<1>1. Busy("transitioner") /\ "transitioner" \in Processes \ Preemptible
  BY DEF Busy, Processes
<1>2. \A p : Runs(p) => p = "transitioner"
  BY <1>1 DEF Runs
<1>3. ~Purged
  BY <1>1 DEF Purged
<1>4. UNCHANGED vars \/ InTime(TransitionTimePasses) \/ (\E r \in Results : InTime(DeadlinePasses(r)))
  BY <1>2, <1>3 DEF Next, InValidator, InAssimilator, InFileDeleter, InPurge, InCgi, InCancel
<1>5. ~JobWritten
  BY <1>2 DEF JobWritten, InTransitioner, InAssimilator, InFileDeleter, InPurge, InCancel,
              InValidator, TransitionerNext, TransitionerStep
<1>6. QED
  BY <1>4, <1>5 DEF InTime, vars

\* Until it leaves a pass, the validator changes no server_state in its memory.
LEMMA ValidatorKeepsSeen ==
    ASSUME TypeOK, ValidatorNext, va'.pc = "open", ~va'.leave, ~ValidatorEnumerate
    PROVE  \A r \in Results : va'.res[r].server = va.res[r].server
<1>1. va.pc = "open" => va \in ValidatorMemory /\ va.res \in Rows
  BY DEF TypeOK, ValidatorTypeOK, ValidatorMemory, Rows
<1>2. ASSUME NEW r \in Results, ValidatorCheckPair(r)
      PROVE  \A s \in Results : va'.res[s].server = va.res[s].server
  <2> DEFINE row == CheckPair(va.res, r, va.wu.canonical)
  <2>1. va.pc = "open"
    BY <1>2 DEF ValidatorCheckPair
  <2>2. row.server = va.res[r].server
    BY <1>1, <2>1 DEF CheckPair, Rows, ResultRow
  <2>3. va'.res = [va.res EXCEPT ![r] = row]
    BY <1>1, <1>2, <2>1 DEF ValidatorCheckPair, ValidatorMemory
  <2> HIDE DEF row
  <2>4. QED
    BY <1>1, <2>1, <2>2, <2>3 DEF Rows
<1>3. ASSUME NEW flaky, NEW c \in Results \cup {0}, ValidatorCheckSet(flaky, c) PROVE FALSE
  BY <1>3, CheckSetMoves
<1>4. CASE ValidatorNoQuorum \/ ValidatorCheckedAll \/ ValidatorCreditError
           \/ ValidatorRetryPair
           \/ (\E r \in Results : ValidatorGrantCredit(r) \/ ValidatorUpdateResult(r))
  <2>1. va.pc = "open" /\ va \in ValidatorMemory
    BY <1>1, <1>4 DEF ValidatorNoQuorum, ValidatorCheckedAll, ValidatorCreditError,
       ValidatorRetryPair, ValidatorGrantCredit, ValidatorUpdateResult
  <2>2. va'.res = va.res
    BY <1>4, <2>1 DEF ValidatorMemory, ValidatorNoQuorum, ValidatorCheckedAll,
       ValidatorCreditError, ValidatorRetryPair, ValidatorGrantCredit, ValidatorUpdateResult
  <2>3. QED
    BY <2>2
<1>5. CASE ValidatorNoCanonicalRow \/ ValidatorUpdateWorkunit \/ ValidatorCrash
  BY <1>5 DEF ValidatorNoCanonicalRow, ValidatorUpdateWorkunit, ValidatorCrash, validatorIdle
<1>6. QED
  BY <1>2, <1>3, <1>4, <1>5 DEF ValidatorNext, ValidatorStep, ValidatorFlakyCheckSet

\* Outside a write of its own, the transitioner and the validator leave the row alone.
LEMMA PassesOnlyRead ==
    /\ InTransitioner(TransitionerNext) /\ ~InTransitioner(TransitionerUpdateWorkunit)
         => UNCHANGED wu
    /\ InValidator(ValidatorNext) /\ ~InValidator(ValidatorUpdateWorkunit) => UNCHANGED wu
<1>1. InTransitioner(TransitionerNext) /\ ~InTransitioner(TransitionerUpdateWorkunit)
         => UNCHANGED wu
  BY DEF InTransitioner, TransitionerNext, TransitionerStep, TransitionerEnumerate,
     TransitionerUpdateResult, TransitionerDecide, TransitionerRelease, TransitionerCrash, dbVars
<1>2. InValidator(ValidatorNext) /\ ~InValidator(ValidatorUpdateWorkunit) => UNCHANGED wu
  BY DEF InValidator, ValidatorNext, ValidatorStep,
     ValidatorFlakyCheckSet, ValidatorCreditError, ValidatorRetryPair, ValidatorCrash,
     ValidatorEnumerate, ValidatorNoCanonicalRow, ValidatorNoQuorum, ValidatorCheckSet,
     ValidatorCheckPair, ValidatorGrantCredit, ValidatorUpdateResult, ValidatorCheckedAll, dbVars
<1>3. QED
  BY <1>1, <1>2

\* The row stays as the transitioner read it until the pass writes it.
LEMMA StepKeepsHeldByTransitioner ==
    ASSUME TypeOK, JobHeld, [Next]_vars, "transitioner" \notin Preemptible
    PROVE  HeldByTransitioner'
<1>1. SUFFICES ASSUME tr'.pc # "idle" PROVE wu'.exists /\ SameJob(tr'.old, wu')
  BY DEF HeldByTransitioner
<1>2. CASE InTransitioner(TransitionerEnumerate)
  BY <1>2 DEF InTransitioner, TransitionerEnumerate, dbVars, SameJob
<1>3. CASE InTransitioner(TransitionerNext) /\ ~TransitionerEnumerate
  <2>1. tr.pc # "idle" /\ tr'.old = tr.old
    BY <1>1, <1>3, TransitionerMemoryMoves DEF InTransitioner
  <2>2. ~TransitionerUpdateWorkunit
    BY <1>1 DEF TransitionerUpdateWorkunit, transitionerIdle
  <2>3. UNCHANGED wu
    BY <1>3, <2>2, PassesOnlyRead DEF InTransitioner
  <2>4. QED
    BY <2>1, <2>3 DEF JobHeld, HeldByTransitioner
<1>4. CASE ~InTransitioner(TransitionerNext)
  <2>1. UNCHANGED tr
    BY <1>4 DEF Next, Purged, vars, InValidator, InAssimilator, InFileDeleter, InPurge,
       InCgi, InCancel, InTime
  <2>2. SameJob(wu, wu')
    BY <1>1, <1>4, <2>1, TransitionerAlone, WhoWritesJob
  <2>3. wu.exists /\ SameJob(tr.old, wu)
    BY <1>1, <2>1 DEF JobHeld, HeldByTransitioner
  <2>4. QED
    BY <2>1, <2>2, <2>3 DEF SameJob
<1>5. QED
  BY <1>2, <1>3, <1>4 DEF InTransitioner, TransitionerNext, TransitionerStep

\* The row stays as the validator read it until the pass writes it.
LEMMA StepKeepsHeldByValidator ==
    ASSUME TypeOK, TypeOK', MemoriesAreSafe, FateSound, JobHeld, [Next]_vars,
           "validator" \notin Preemptible
    PROVE  HeldByValidator'
<1>1. SUFFICES ASSUME va'.pc = "open" PROVE HeldByValidator'
  BY DEF HeldByValidator
<1>2. \A r \in Results : Ended(res, r) => Ended(res', r)
  BY OnlyUndecidedIssue, EndedForGood
<1>3. CASE InValidator(ValidatorEnumerate)
  <2>1. va'.wu = wu /\ va'.res = res /\ UNCHANGED <<wu, res>>
    BY <1>3 DEF InValidator, ValidatorEnumerate, dbVars
  <2>2. QED
    BY <2>1 DEF HeldByValidator, Ended
<1>4. CASE InValidator(ValidatorNext) /\ ~ValidatorEnumerate
  <2>1. /\ va.pc = "open" /\ (va.leave \/ ~va'.leave => va'.wu = va.wu)
        /\ (~va'.leave => ~va.leave)
        /\ \/ /\ va'.wu.canonical = va.wu.canonical
              /\ va'.wu.assimilate = va.wu.assimilate
              /\ va.wu.error \subseteq va'.wu.error
           \/ /\ ~va.leave /\ va.wu.canonical = 0 /\ va'.wu.canonical \in Results
              /\ va'.wu.assimilate = "READY" /\ va'.wu.error = va.wu.error
              /\ va.res[va'.wu.canonical].server = "OVER"
    BY <1>1, <1>4, ValidatorMemoryMoves DEF InValidator
  <2>2. UNCHANGED wu
    <3>1. ~ValidatorUpdateWorkunit
      BY <1>1 DEF ValidatorUpdateWorkunit, validatorIdle
    <3>2. QED
      BY <1>4, <3>1, PassesOnlyRead DEF InValidator
  <2>3. HeldByValidator /\ va.leave \in BOOLEAN /\ va'.leave \in BOOLEAN
    BY <1>1, <2>1 DEF JobHeld, TypeOK, ValidatorTypeOK
  <2>4. ~va'.leave => /\ va'.wu.error = wu'.error
                      /\ \A r \in Results : va'.res[r].server = "OVER" => Ended(res', r)
    <3>1. SUFFICES ASSUME ~va'.leave
                   PROVE  /\ va'.wu.error = wu'.error
                          /\ \A r \in Results : va'.res[r].server = "OVER" => Ended(res', r)
      OBVIOUS
    <3>2. \A r \in Results : va'.res[r].server = va.res[r].server
      BY <1>1, <1>4, <3>1, ValidatorKeepsSeen DEF InValidator
    <3>3. QED
      BY <1>2, <2>1, <2>2, <2>3, <3>1, <3>2 DEF HeldByValidator
  <2>5. \/ va'.wu.canonical = wu'.canonical /\ va'.wu.assimilate = wu'.assimilate
        \/ /\ va'.leave /\ wu'.canonical = 0 /\ va'.wu.canonical \in Results
           /\ va'.wu.assimilate = "READY" /\ va'.wu.error = wu'.error
           /\ Ended(res', va'.wu.canonical)
    <3>1. CASE va'.wu = va.wu
      BY <1>2, <2>1, <2>2, <2>3, <3>1 DEF HeldByValidator
    <3>2. CASE va'.wu # va.wu
      <4>1. ~va.leave /\ va'.leave
        BY <2>1, <3>2
      <4>2. va.wu.canonical = wu.canonical /\ va.wu.assimilate = wu.assimilate
            /\ va.wu.error = wu.error
        BY <2>1, <2>3, <4>1 DEF HeldByValidator
      <4>3. CASE /\ va'.wu.canonical = va.wu.canonical
                 /\ va'.wu.assimilate = va.wu.assimilate
        BY <2>2, <4>2, <4>3
      <4>4. CASE /\ va.wu.canonical = 0 /\ va'.wu.canonical \in Results
                 /\ va'.wu.assimilate = "READY" /\ va'.wu.error = va.wu.error
                 /\ va.res[va'.wu.canonical].server = "OVER"
        <5>1. Ended(res', va'.wu.canonical)
          BY <1>2, <2>1, <2>3, <4>1, <4>4 DEF HeldByValidator
        <5>2. QED
          BY <2>2, <4>1, <4>2, <4>4, <5>1
      <4>5. QED
        BY <2>1, <4>3, <4>4
    <3>3. QED
      BY <3>1, <3>2
  <2>6. QED
    BY <2>4, <2>5 DEF HeldByValidator
<1>5. CASE ~InValidator(ValidatorNext)
  <2>1. UNCHANGED va
    BY <1>5 DEF Next, Purged, vars, InTransitioner, InAssimilator, InFileDeleter, InPurge,
       InCgi, InCancel, InTime, validatorVars
  <2>2. SameJob(wu, wu')
    BY <1>1, <1>5, <2>1, ValidatorAlone, WhoWritesJob
  <2>3. QED
    BY <1>1, <1>2, <2>1, <2>2 DEF JobHeld, HeldByValidator, SameJob
<1>6. QED
  BY <1>3, <1>4, <1>5 DEF InValidator, ValidatorNext, ValidatorStep

\* The job is not marked assimilated behind the assimilator's back.
LEMMA StepKeepsHeldByAssimilator ==
    ASSUME TypeOK, FateSound, JobHeld, [Next]_vars
    PROVE  HeldByAssimilator'
<1>1. SUFFICES ASSUME asm'.pc # "idle" PROVE wu'.assimilate # "DONE"
  BY DEF HeldByAssimilator
<1>2. CASE InAssimilator(AssimilatorEnumerate)
  BY <1>2 DEF InAssimilator, AssimilatorEnumerate, dbVars
<1>3. CASE ~InAssimilator(AssimilatorEnumerate)
  <2>1. asm.pc # "idle" /\ ~InAssimilator(AssimilatorUpdateWorkunit)
    <3>1. ~AssimilatorUpdateWorkunit
      BY <1>1 DEF AssimilatorUpdateWorkunit, assimilatorIdle
    <3>2. UNCHANGED asm \/ InAssimilator(AssimilatorNext)
      BY DEF Next, Purged, vars, InTransitioner, InValidator, InFileDeleter, InPurge,
         InCgi, InCancel, InTime
    <3>3. InAssimilator(AssimilatorNext) => asm.pc # "idle"
      BY <1>3, <3>1 DEF InAssimilator, AssimilatorNext, AssimilatorStep, AssimilatorHandle,
                        AssimilatorCrash
    <3>4. QED
      BY <1>1, <3>1, <3>2, <3>3 DEF InAssimilator
  <2>2. wu.assimilate # "DONE"
    BY <2>1 DEF JobHeld, HeldByAssimilator
  <2>3. CASE wu.exists /\ InTransitioner(TransitionerUpdateWorkunit)
    <3>1. tr.pc # "idle"
      BY <2>3 DEF InTransitioner, TransitionerUpdateWorkunit
    <3>2. wu'.assimilate = IF tr.wu.assimilate # tr.old.assimilate
                           THEN tr.wu.assimilate ELSE wu.assimilate
      BY <2>3, JobWrites DEF InTransitioner
    <3>3. tr.wu.assimilate # tr.old.assimilate => tr.wu.assimilate = "READY"
      BY <3>1 DEF FateSound, TransitionerFate
    <3>4. QED
      BY <2>2, <3>2, <3>3
  <2>4. CASE wu.exists /\ InValidator(ValidatorUpdateWorkunit)
    <3>1. va.pc = "open"
      BY <2>4 DEF InValidator, ValidatorUpdateWorkunit
    <3>2. wu'.assimilate = va.wu.assimilate
      BY <2>4, JobWrites DEF InValidator
    <3>3. QED
      BY <2>2, <3>1, <3>2 DEF JobHeld, HeldByValidator
  <2>5. CASE ~JobWritten \/ ~wu.exists
    BY <2>2, <2>5, WhoWritesJob, JobWrites DEF SameJob
  <2>6. QED
    BY <2>1, <2>2, <2>3, <2>4, <2>5, JobWrites
       DEF JobWritten, InAssimilator, InFileDeleter, InPurge, InCancel
<1>4. QED
  BY <1>2, <1>3

\* The input files of a job that is being purged do not come back.
LEMMA StepKeepsHeldByPurge ==
    ASSUME TypeOK, FateSound, JobHeld, [Next]_vars
    PROVE  HeldByPurge'
<1>1. SUFFICES ASSUME purge'.pc = "purging" PROVE wu'.fds = "DONE"
  BY DEF HeldByPurge
<1>2. CASE InPurge(PurgeEnumerate)
  BY <1>2 DEF InPurge, PurgeEnumerate, dbVars
<1>3. CASE ~InPurge(PurgeEnumerate)
  <2>1. purge.pc = "purging" /\ ~InPurge(PurgeWorkunit)
    BY <1>1, <1>3 DEF Next, Purged, vars, InTransitioner, InValidator, InFileDeleter, InPurge,
       InCgi, InCancel, InTime, InAssimilator, PurgeNext, PurgeStep, PurgeResult,
       PurgeWorkunit, PurgeCrash, purgeIdle, TypeOK, PurgeTypeOK
  <2>2. wu.fds = "DONE"
    BY <2>1 DEF JobHeld, HeldByPurge
  <2>3. CASE wu.exists /\ InTransitioner(TransitionerUpdateWorkunit)
    <3>1. tr.pc # "idle"
      BY <2>3 DEF InTransitioner, TransitionerUpdateWorkunit
    <3>2. wu'.fds = IF tr.wu.fds # tr.old.fds THEN tr.wu.fds ELSE wu.fds
      BY <2>3, JobWrites DEF InTransitioner
    <3>3. tr.wu.fds = tr.old.fds
      BY <2>2, <3>1 DEF FateSound, TransitionerFate
    <3>4. QED
      BY <2>2, <3>2, <3>3
  <2>4. CASE InFileDeleter(FileDeleteInput) \/ InFileDeleter(FileDeleteInputFails)
    BY <2>2, <2>4 DEF InFileDeleter, FileDeleteInput, FileDeleteInputFails, TypeOK, DbTypeOK,
                      WorkunitRow
  <2>5. CASE ~JobWritten \/ ~wu.exists
    BY <2>2, <2>5, WhoWritesJob, JobWrites DEF SameJob
  <2>6. QED
    BY <2>1, <2>2, <2>3, <2>4, <2>5, JobWrites
       DEF JobWritten, InAssimilator, InValidator, InPurge, InCancel
<1>4. QED
  BY <1>2, <1>3

-----------------------------------------------------------------------------
\* The steps of the daemons are steps in the life of the job.

\* What the refinement mapping makes of a result row.
LEMMA StandingOfServer ==
    ASSUME NEW row \in ResultRow
    PROVE  /\ Standing(row) = "new" <=> row.server = "NONE"
           /\ Standing(row) = "open" <=> row.server \in {"UNSENT", "IN_PROGRESS"}
           /\ Standing(row) = "closed" <=> row.server \in {"OVER", "PURGED"}
           /\ Standing(row) \in {"new", "open", "closed"}
<1>1. row.server \in {"NONE", "UNSENT", "IN_PROGRESS", "OVER", "PURGED"}
  BY DEF ResultRow, ServerStates
<1>2. CASE row.server = "NONE"
  BY <1>2 DEF Standing
<1>3. CASE row.server \in {"UNSENT", "IN_PROGRESS"}
  BY <1>3 DEF Standing
<1>4. CASE row.server \in {"OVER", "PURGED"}
  BY <1>4 DEF Standing
<1>5. QED
  BY <1>1, <1>2, <1>3, <1>4

\* What it makes of the workunit row.
LEMMA InputStates ==
    ASSUME wu \in WorkunitRow
    PROVE  /\ InputState = "purged" <=> ~wu.exists
           /\ InputState = "kept" <=> wu.exists /\ wu.fds = "INIT"
           /\ InputState = "released" <=> wu.exists /\ wu.fds \in {"READY", "ERROR"}
           /\ InputState = "removed" <=> wu.exists /\ wu.fds = "DONE"
<1>1. wu.fds \in {"INIT", "READY", "DONE", "ERROR"} /\ wu.exists \in BOOLEAN
  BY DEF WorkunitRow, FileDeleteStates
<1>2. CASE ~wu.exists
  BY <1>2 DEF InputState
<1>3. CASE wu.exists /\ wu.fds = "INIT"
  BY <1>3 DEF InputState
<1>4. CASE wu.exists /\ wu.fds \in {"READY", "ERROR"}
  BY <1>4 DEF InputState
<1>5. CASE wu.exists /\ wu.fds = "DONE"
  BY <1>5 DEF InputState
<1>6. QED
  BY <1>1, <1>2, <1>3, <1>4, <1>5

\* The columns the daemons decide on determine the rest of the mapping.
LEMMA SameJobMeansSame ==
    ASSUME SameJob(wu, wu')
    PROVE  UNCHANGED <<wu.canonical, wu.error # {}, wu.assimilate = "DONE", InputState>>
BY DEF SameJob, InputState

\* Results that move forward are closed, or nothing happens.
LEMMA MovesImplement ==
    ASSUME TypeOK, TypeOK', Moves(res, res'), SameJob(wu, wu')
    PROVE  [J!Next]_(J!jobVars)
<1> DEFINE S == {r \in Results : Standing(res[r]) = "open" /\ Standing(res'[r]) = "closed"}
<1>1. \A r \in Results : /\ res[r] \in ResultRow /\ res'[r] \in ResultRow
                         /\ Rank(res'[r].server) >= Rank(res[r].server)
                         /\ res[r].server = "NONE" <=> res'[r].server = "NONE"
  BY DEF TypeOK, DbTypeOK, Moves, Forward, Issued
<1>2. \A r \in Results : Standing(res'[r]) = IF r \in S THEN "closed" ELSE Standing(res[r])
  <2>1. ASSUME NEW r \in Results
        PROVE  Standing(res'[r]) = IF r \in S THEN "closed" ELSE Standing(res[r])
    <3>1. res[r].server \in ServerStates /\ res'[r].server \in ServerStates
      BY <1>1 DEF ResultRow
    <3>2. Standing(res[r]) = "closed" => Standing(res'[r]) = "closed"
      BY <1>1, <3>1, StandingOfServer, RankFacts
    <3>3. Standing(res[r]) = "new" <=> Standing(res'[r]) = "new"
      BY <1>1, StandingOfServer
    <3>4. Standing(res[r]) \in {"new", "open", "closed"}
          /\ Standing(res'[r]) \in {"new", "open", "closed"}
      BY <1>1, StandingOfServer
    <3>5. QED
      BY <3>2, <3>3, <3>4
  <2>2. QED
    BY <2>1
<1>3. UNCHANGED <<wu.canonical, wu.error # {}, wu.assimilate = "DONE", InputState>>
  BY SameJobMeansSame
<1>4. S \subseteq J!Open
  BY DEF J!Open
<1> HIDE DEF S
<1>5. CASE S = {}
  <2>1. [r \in Results |-> Standing(res'[r])] = [r \in Results |-> Standing(res[r])]
    BY <1>2, <1>5
  <2>2. UNCHANGED J!jobVars
    BY <1>3, <2>1 DEF J!jobVars
  <2>3. QED
    BY <2>2
<1>6. CASE S # {}
  <2>1. S \in SUBSET Results
    BY DEF S
  <2>2. J!Close(S)
    BY <1>2, <1>3, <1>4, <1>6 DEF J!Close
  <2>3. QED
    BY <2>1, <2>2 DEF J!Next
<1>7. QED
  BY <1>5, <1>6

\* handle_wu() issues results for a job that is not decided.
LEMMA DecideImplements ==
    ASSUME TypeOK, TypeOK', MemoriesAreSafe, FateSound, JobHeld,
           InTransitioner(TransitionerDecide)
    PROVE  [J!Next]_(J!jobVars)
<1> DEFINE S == {r \in Results : Standing(res[r]) = "new" /\ Standing(res'[r]) # "new"}
<1>1. TransitionerDecide /\ tr.pc # "idle" /\ UNCHANGED wu
  BY DEF InTransitioner, TransitionerDecide
<1>2. \A r \in Results : res'[r] = NewResult \/ res'[r] = res[r]
  BY <1>1 DEF TransitionerDecide
<1>3. \A r \in Results : /\ res[r] \in ResultRow /\ res'[r] \in ResultRow
                         /\ Rank(res'[r].server) >= Rank(res[r].server)
  BY <1>1, DecideIsSafe DEF TypeOK, DbTypeOK, Forward
<1>4. NewResult.server = "UNSENT"
  BY DEF NewResult, NoRow
<1>5. \A r \in Results : Standing(res'[r]) = IF r \in S THEN "open" ELSE Standing(res[r])
  <2>1. ASSUME NEW r \in Results, res'[r] = NewResult
        PROVE  Standing(res'[r]) = IF r \in S THEN "open" ELSE Standing(res[r])
    <3>1. res[r].server \in ServerStates /\ res'[r].server = "UNSENT"
      BY <1>3, <1>4, <2>1 DEF ResultRow
    <3>2. res[r].server \in {"NONE", "UNSENT"}
      BY <1>3, <3>1 DEF Rank, ServerStates
    <3>3. Standing(res'[r]) = "open" /\ Standing(res[r]) \in {"new", "open"}
      BY <1>3, <3>1, <3>2, StandingOfServer
    <3>4. QED
      BY <3>3
  <2>2. QED
    BY <1>2, <2>1
<1>6. UNCHANGED <<wu.canonical, wu.error # {}, wu.assimilate = "DONE", InputState>>
  BY <1>1, SameJobMeansSame DEF SameJob
<1>7. CASE S = {}
  <2>1. [r \in Results |-> Standing(res'[r])] = [r \in Results |-> Standing(res[r])]
    BY <1>5, <1>7
  <2>2. UNCHANGED J!jobVars
    BY <1>6, <2>1 DEF J!jobVars
  <2>3. QED
    BY <2>2
<1>8. CASE S # {}
  <2>1. ~Settled(tr.wu)
    BY <1>1, <1>8, SettledNotIssued
  <2>2. ~Settled(tr.old)
    BY <1>1, <2>1 DEF FateSound, TransitionerFate, Settled
  <2>3. ~Settled(wu) /\ wu.exists
    BY <1>1, <2>2 DEF JobHeld, HeldByTransitioner, SameJob, Settled
  <2>4. wu.fds = "INIT"
    BY <2>3 DEF FateSound, RowFate
  <2>5. InputState = "kept" /\ ~J!Decided
    BY <2>3, <2>4 DEF InputState, Settled, J!Decided
  <2>6. \A r \in S : Standing(res[r]) = "new"
    OBVIOUS
  <2>7. S \in SUBSET Results
    OBVIOUS
  <2> HIDE DEF S
  <2>8. J!Issue(S)
    BY <1>5, <1>6, <1>8, <2>5, <2>6, <2>7 DEF J!Issue
  <2>9. QED
    BY <2>7, <2>8 DEF J!Next
<1>9. QED
  BY <1>7, <1>8

\* The validator elects, or records an error.
LEMMA ValidatorImplements ==
    ASSUME TypeOK, TypeOK', FateSound, JobHeld, wu.exists, InValidator(ValidatorUpdateWorkunit)
    PROVE  [J!Next]_(J!jobVars)
<1>1. va.pc = "open" /\ UNCHANGED res
  BY DEF InValidator, ValidatorUpdateWorkunit
<1>2. /\ wu'.exists = wu.exists /\ wu'.fds = wu.fds
      /\ wu'.canonical = va.wu.canonical /\ wu'.error = va.wu.error
      /\ wu'.assimilate = va.wu.assimilate
  BY JobWrites DEF InValidator
<1>3. UNCHANGED <<InputState, [r \in Results |-> Standing(res[r])]>> /\ InputState # "purged"
  <2>1. InputState' = InputState
    BY <1>2 DEF InputState
  <2>2. InputState # "purged"
    BY InputStates DEF TypeOK, DbTypeOK
  <2>3. QED
    BY <1>1, <2>1, <2>2
<1>4. wu.error \subseteq va.wu.error
  BY <1>1 DEF FateSound, ValidatorFate
<1>5. CASE va.wu.canonical = wu.canonical /\ va.wu.assimilate = wu.assimilate
  <2>1. UNCHANGED <<wu.canonical, wu.assimilate = "DONE">>
    BY <1>2, <1>5
  <2>2. CASE wu.error = {} /\ wu'.error # {}
    <3>1. J!Fail
      BY <1>3, <2>1, <2>2 DEF J!Fail
    <3>2. QED
      BY <3>1 DEF J!Next
  <2>3. CASE wu.error = {} /\ wu'.error = {}
    BY <1>3, <2>1, <2>3 DEF J!jobVars
  <2>4. CASE wu.error # {}
    <3>1. wu'.error # {}
      BY <1>2, <1>4, <2>4
    <3>2. QED
      BY <1>3, <2>1, <2>4, <3>1 DEF J!jobVars
  <2>5. QED
    BY <2>2, <2>3, <2>4
<1>6. CASE /\ wu.canonical = 0 /\ va.wu.canonical \in Results
           /\ va.wu.assimilate = "READY" /\ va.wu.error = wu.error
           /\ Ended(res, va.wu.canonical)
  <2> DEFINE c == va.wu.canonical
  <2>1. c \in Results /\ Standing(res[c]) = "closed"
    BY <1>6, StandingOfServer DEF Ended, TypeOK, DbTypeOK
  <2>2. UNCHANGED (wu.error # {})
    BY <1>2, <1>6
  <2>3. wu'.canonical = c /\ (wu'.assimilate = "DONE") = FALSE
    BY <1>2, <1>6
  <2> HIDE DEF c
  <2>4. J!Elect(c)
    BY <1>3, <1>6, <2>1, <2>2, <2>3 DEF J!Elect
  <2>5. QED
    BY <2>1, <2>4 DEF J!Next
<1>7. QED
  BY <1>1, <1>5, <1>6 DEF JobHeld, HeldByValidator

\* The transitioner records an error, and releases the input files of a job
\* that was handed over.
LEMMA TransitionerImplements ==
    ASSUME TypeOK, TypeOK', FateSound, JobHeld, InTransitioner(TransitionerUpdateWorkunit)
    PROVE  [J!Next]_(J!jobVars)
<1>1. tr.pc # "idle" /\ UNCHANGED res
  BY DEF InTransitioner, TransitionerUpdateWorkunit
<1>2. wu.exists /\ SameJob(tr.old, wu)
  BY <1>1 DEF JobHeld, HeldByTransitioner
<1>3. /\ wu'.exists = wu.exists /\ wu'.canonical = wu.canonical
      /\ wu'.error = IF tr.wu.error # tr.old.error THEN tr.wu.error ELSE wu.error
      /\ wu'.assimilate = IF tr.wu.assimilate # tr.old.assimilate
                          THEN tr.wu.assimilate ELSE wu.assimilate
      /\ wu'.fds = IF tr.wu.fds # tr.old.fds THEN tr.wu.fds ELSE wu.fds
  BY <1>2, JobWrites DEF InTransitioner
<1>4. wu'.error = tr.wu.error /\ wu.error \subseteq wu'.error
  BY <1>1, <1>2, <1>3 DEF SameJob, FateSound, TransitionerFate
<1>5. UNCHANGED <<wu.canonical, wu.assimilate = "DONE", [r \in Results |-> Standing(res[r])]>>
  <2>1. (wu'.assimilate = "DONE") = (wu.assimilate = "DONE")
    <3>1. wu'.assimilate = wu.assimilate \/ (wu'.assimilate = "READY" /\ wu.assimilate = "INIT")
      BY <1>1, <1>2, <1>3 DEF SameJob, FateSound, TransitionerFate
    <3>2. QED
      BY <3>1
  <2>2. QED
    BY <1>1, <1>3, <2>1
<1>6. CASE wu'.fds = wu.fds
  <2>1. UNCHANGED InputState /\ InputState # "purged"
    <3>1. InputState' = InputState
      BY <1>3, <1>6 DEF InputState
    <3>2. InputState # "purged"
      BY <1>2, InputStates DEF TypeOK, DbTypeOK
    <3>3. QED
      BY <3>1, <3>2
  <2>2. CASE wu.error = {} /\ wu'.error # {}
    <3>1. J!Fail
      BY <1>5, <2>1, <2>2 DEF J!Fail
    <3>2. QED
      BY <3>1 DEF J!Next
  <2>3. CASE wu.error = wu'.error \/ wu.error # {}
    <3>1. UNCHANGED (wu.error # {})
      BY <1>4, <2>3
    <3>2. QED
      BY <1>5, <2>1, <3>1 DEF J!jobVars
  <2>4. QED
    BY <2>2, <2>3
<1>7. CASE wu'.fds # wu.fds
  <2>1. /\ tr.wu.fds = "READY" /\ tr.old.fds = "INIT" /\ tr.old.assimilate = "DONE"
        /\ NoneOpen(res)
    BY <1>1, <1>3, <1>7 DEF FateSound, TransitionerFate
  <2>2. wu.assimilate = "DONE" /\ wu.fds = "INIT" /\ wu'.fds = "READY"
    BY <1>2, <1>3, <2>1 DEF SameJob
  <2>3. InputState = "kept" /\ InputState' = "released"
    BY <1>2, <1>3, <2>2 DEF InputState
  <2>4. J!Open = {}
    <3>1. \A r \in Results : res[r] \in ResultRow /\ res[r].server \notin {"UNSENT", "IN_PROGRESS"}
      BY <2>1 DEF NoneOpen, Unsent, InProgress, TypeOK, DbTypeOK
    <3>2. QED
      BY <3>1, StandingOfServer DEF J!Open
  <2>5. (wu'.error # {}) \in {wu.error # {}, TRUE}
    BY <1>4
  <2>6. J!ReleaseInputs
    BY <1>5, <2>2, <2>3, <2>4, <2>5 DEF J!ReleaseInputs
  <2>7. QED
    BY <2>6 DEF J!Next
<1>8. QED
  BY <1>6, <1>7

\* The steps that write no column the daemons decide on.
LEMMA RowsImplement ==
    ASSUME TypeOK, TypeOK', MemoriesAreSafe, FateSound, JobHeld, [Next]_vars, ~JobWritten
    PROVE  [J!Next]_(J!jobVars)
<1>1. CASE Moves(res, res')
  BY <1>1, MovesImplement, WhoWritesJob
<1>2. CASE ~Moves(res, res')
  BY <1>2, OnlyUndecidedIssue, DecideImplements
<1>3. QED
  BY <1>1, <1>2

\* The assimilator hands over, or records that something is wrong.
LEMMA AssimilatorImplements ==
    ASSUME TypeOK, FateSound, JobHeld, wu.exists,
           InAssimilator(AssimilatorHandle) \/ InAssimilator(AssimilatorUpdateWorkunit)
    PROVE  [J!Next]_(J!jobVars)
<1>1. UNCHANGED res /\ asm.pc # "idle"
  BY DEF InAssimilator, AssimilatorHandle, AssimilatorUpdateWorkunit
<1>2. Settled(wu) /\ wu.assimilate # "DONE"
  BY <1>1 DEF FateSound, AssimilatorFate, JobHeld, HeldByAssimilator
<1>3. wu'.exists = wu.exists /\ wu'.canonical = wu.canonical /\ wu'.fds = wu.fds
  BY JobWrites DEF InAssimilator
<1>4. UNCHANGED <<InputState, wu.canonical, [r \in Results |-> Standing(res[r])]>>
  BY <1>1, <1>3 DEF InputState
<1>5. CASE InAssimilator(AssimilatorHandle)
  <2>1. /\ wu'.assimilate = wu.assimilate
        /\ wu'.error = wu.error \/ wu'.error # {}
    BY <1>5, JobWrites DEF InAssimilator
  <2>2. UNCHANGED (wu.assimilate = "DONE")
    BY <2>1
  <2>3. CASE wu.error = {} /\ wu'.error # {}
    <3>1. InputState # "purged"
      BY InputStates DEF TypeOK, DbTypeOK
    <3>2. J!Fail
      BY <1>4, <2>2, <2>3, <3>1 DEF J!Fail
    <3>3. QED
      BY <3>2 DEF J!Next
  <2>4. CASE (wu'.error # {}) = (wu.error # {})
    BY <1>4, <2>2, <2>4 DEF J!jobVars
  <2>5. QED
    BY <2>1, <2>3, <2>4
<1>6. CASE InAssimilator(AssimilatorUpdateWorkunit)
  <2>1. wu'.assimilate = asm.next /\ wu'.error = wu.error
    BY <1>6, JobWrites DEF InAssimilator
  <2>2. UNCHANGED (wu.error # {})
    BY <2>1
  <2>3. CASE asm.next = "DONE"
    <3>1. J!Decided
      BY <1>2 DEF Settled, J!Decided
    <3>2. J!HandOver
      BY <1>2, <1>4, <2>1, <2>2, <2>3, <3>1 DEF J!HandOver
    <3>3. QED
      BY <3>2 DEF J!Next
  <2>4. CASE asm.next # "DONE"
    <3>1. UNCHANGED (wu.assimilate = "DONE")
      BY <1>2, <2>1, <2>4
    <3>2. QED
      BY <1>4, <2>2, <3>1 DEF J!jobVars
  <2>5. QED
    BY <2>3, <2>4
<1>7. QED
  BY <1>5, <1>6

\* The deleters remove the input files, then the row.
LEMMA DeletersImplement ==
    ASSUME TypeOK, TypeOK', FateSound, JobHeld,
           \/ InFileDeleter(FileDeleteInput) \/ InFileDeleter(FileDeleteInputFails)
           \/ InPurge(PurgeWorkunit)
    PROVE  [J!Next]_(J!jobVars)
<1>1. UNCHANGED res
  BY DEF InFileDeleter, FileDeleteInput, FileDeleteInputFails, InPurge, PurgeWorkunit
<1>2. /\ wu'.canonical = wu.canonical /\ wu'.assimilate = wu.assimilate
      /\ wu'.error = wu.error
  BY JobWrites DEF InFileDeleter, InPurge
<1>3. UNCHANGED <<wu.canonical, wu.error # {}, wu.assimilate = "DONE",
                  [r \in Results |-> Standing(res[r])]>>
  BY <1>1, <1>2
<1>4. wu \in WorkunitRow
  BY DEF TypeOK, DbTypeOK
<1>5. CASE InFileDeleter(FileDeleteInput)
  <2>1. wu.exists /\ wu.fds \in {"READY", "ERROR"} /\ wu'.exists /\ wu'.fds = "DONE"
    BY <1>4, <1>5 DEF InFileDeleter, FileDeleteInput, WorkunitRow
  <2>2. InputState = "released" /\ InputState' = "removed"
    BY <2>1 DEF InputState
  <2>3. J!RemoveInputs
    BY <1>3, <2>2 DEF J!RemoveInputs
  <2>4. QED
    BY <2>3 DEF J!Next
<1>6. CASE InFileDeleter(FileDeleteInputFails)
  <2>1. wu.exists /\ wu.fds = "READY" /\ wu'.exists /\ wu'.fds = "ERROR"
    BY <1>4, <1>6 DEF InFileDeleter, FileDeleteInputFails, WorkunitRow
  <2>2. InputState' = InputState
    BY <2>1 DEF InputState
  <2>3. QED
    BY <1>3, <2>2 DEF J!jobVars
<1>7. CASE InPurge(PurgeWorkunit)
  <2>1. wu.fds = "DONE" /\ ~wu'.exists
    BY <1>7, JobWrites DEF JobHeld, HeldByPurge, InPurge, PurgeWorkunit
  <2>2. InputState' = "purged" /\ InputState \in {"removed", "purged"}
    <3>1. InputState' = "purged"
      BY <2>1 DEF InputState
    <3>2. QED
      BY <1>4, <2>1, <3>1, InputStates
  <2>3. J!Open = {}
    <3>1. NoneOpen(res)
      BY <2>1 DEF FateSound, RowFate
    <3>2. \A r \in Results : res[r] \in ResultRow /\ res[r].server \notin {"UNSENT", "IN_PROGRESS"}
      BY <3>1 DEF NoneOpen, Unsent, InProgress, TypeOK, DbTypeOK
    <3>3. QED
      BY <3>2, StandingOfServer DEF J!Open
  <2>4. CASE InputState = "removed"
    <3>1. J!Purge
      BY <1>3, <2>2, <2>3, <2>4 DEF J!Purge
    <3>2. QED
      BY <3>1 DEF J!Next
  <2>5. CASE InputState = "purged"
    BY <1>3, <2>2, <2>5 DEF J!jobVars
  <2>6. QED
    BY <2>2, <2>4, <2>5
<1>8. QED
  BY <1>5, <1>6, <1>7

\* A cancellation is a failure.
LEMMA CancelImplements ==
    ASSUME TypeOK, wu.exists, InCancel(CancelWorkunit)
    PROVE  [J!Next]_(J!jobVars)
<1>1. UNCHANGED res
  BY DEF InCancel, CancelWorkunit
<1>2. /\ wu'.exists = wu.exists /\ wu'.canonical = wu.canonical
      /\ wu'.assimilate = wu.assimilate /\ wu'.fds = wu.fds
      /\ wu'.error = wu.error \cup {"CANCELLED"}
  BY JobWrites DEF InCancel
<1>3. UNCHANGED <<InputState, wu.canonical, wu.assimilate = "DONE",
                  [r \in Results |-> Standing(res[r])]>>
  BY <1>1, <1>2 DEF InputState
<1>4. wu'.error # {} /\ InputState # "purged"
  BY <1>2, InputStates DEF TypeOK, DbTypeOK
<1>5. CASE wu.error = {}
  <2>1. J!Fail
    BY <1>3, <1>4, <1>5 DEF J!Fail
  <2>2. QED
    BY <2>1 DEF J!Next
<1>6. CASE wu.error # {}
  BY <1>3, <1>4, <1>6 DEF J!jobVars
<1>7. QED
  BY <1>5, <1>6

\* Every step maps to a step in the life of the job, or to none.
LEMMA StepImplements ==
    ASSUME TypeOK, TypeOK', MemoriesAreSafe, FateSound, JobHeld, [Next]_vars
    PROVE  [J!Next]_(J!jobVars)
<1>1. CASE ~JobWritten
  BY <1>1, RowsImplement
<1>2. CASE InTransitioner(TransitionerUpdateWorkunit)
  BY <1>2, TransitionerImplements
<1>3. CASE InFileDeleter(FileDeleteInput) \/ InFileDeleter(FileDeleteInputFails)
           \/ InPurge(PurgeWorkunit)
  BY <1>3, DeletersImplement
<1>4. CASE \/ InValidator(ValidatorUpdateWorkunit)
           \/ InAssimilator(AssimilatorHandle) \/ InAssimilator(AssimilatorUpdateWorkunit)
           \/ InCancel(CancelWorkunit)
  <2>1. CASE wu.exists
    BY <1>4, <2>1, ValidatorImplements, AssimilatorImplements, CancelImplements
  <2>2. CASE ~wu.exists
    <3>1. SameJob(wu, wu') /\ UNCHANGED res
      BY <1>4, <2>2, JobWrites DEF JobWritten, InValidator, ValidatorUpdateWorkunit,
         InAssimilator, AssimilatorHandle, AssimilatorUpdateWorkunit, InCancel, CancelWorkunit
    <3>2. [r \in Results |-> Standing(res'[r])] = [r \in Results |-> Standing(res[r])]
      BY <3>1
    <3>3. QED
      BY <3>1, <3>2, SameJobMeansSame DEF J!jobVars
  <2>3. QED
    BY <2>1, <2>2
<1>5. QED
  BY <1>1, <1>2, <1>3, <1>4 DEF JobWritten

\* While they work on the job, what the daemons have read of it is what the row holds.
THEOREM CopiesAreFresh ==
    ASSUME "validator" \notin Preemptible, "transitioner" \notin Preemptible
    PROVE  Spec => []JobHeld
<1>1. Init => JobHeld
  BY DEF Init, TransitionerInit, transitionerIdle, ValidatorInit, validatorIdle,
     AssimilatorInit, assimilatorIdle, PurgeInit, purgeIdle, JobHeld, HeldByTransitioner,
     HeldByValidator, HeldByAssimilator, HeldByPurge
<1>2. TypeOK /\ TypeOK' /\ MemoriesAreSafe /\ FateSound /\ JobHeld /\ [Next]_vars => JobHeld'
  BY StepKeepsHeldByTransitioner, StepKeepsHeldByValidator, StepKeepsHeldByAssimilator,
     StepKeepsHeldByPurge DEF JobHeld
<1>3. QED
  BY <1>1, <1>2, TypeCorrect, StaleMemoriesAreSafe, DecisionsAreSafe, PTL DEF Spec

\* When the passes of the transitioner and of the validator are not interrupted,
\* the server implements Job.tla, however the scheduler processes, the assimilator,
\* the deleters, a cancellation and crashes interleave with them.
THEOREM ServerImplementsJob ==
    ASSUME "validator" \notin Preemptible, "transitioner" \notin Preemptible
    PROVE  Spec => ImplementsJob
<1>1. Init => J!Init
  <2>1. SUFFICES ASSUME Init PROVE J!Init
    OBVIOUS
  <2>2. wu = NewWorkunit /\ \A r \in Results : res[r].server = "NONE"
    BY <2>1 DEF Init, DbInit, NoRow
  <2>3. /\ wu.exists /\ wu.canonical = 0 /\ wu.error = {} /\ wu.assimilate = "INIT"
        /\ wu.fds = "INIT"
    BY <2>2 DEF NewWorkunit
  <2>4. InputState = "kept"
    BY <2>3 DEF InputState
  <2>5. \A r \in Results : Standing(res[r]) = "new"
    BY <2>2 DEF Standing
  <2>6. QED
    BY <2>3, <2>4, <2>5 DEF J!Init
<1>2. TypeOK /\ TypeOK' /\ MemoriesAreSafe /\ FateSound /\ JobHeld /\ [Next]_vars
        => [J!Next]_(J!jobVars)
  BY StepImplements
<1>3. QED
  BY <1>1, <1>2, TypeCorrect, StaleMemoriesAreSafe, DecisionsAreSafe, CopiesAreFresh, PTL
     DEF Spec, ImplementsJob, J!JobSpec

-----------------------------------------------------------------------------
\* Errors stay recorded, when the assimilator is not interrupted either.

\* The assimilator judges the errors the row has.
AssimilatorReads == asm.pc = "read" => asm.wu.error = wu.error

\* While the assimilator handles a job and nobody interrupts it, nobody else writes.
LEMMA AssimilatorAlone ==
    ASSUME [Next]_vars, asm.pc # "idle", "assimilator" \notin Preemptible,
           ~InAssimilator(AssimilatorNext)
    PROVE  ~JobWritten /\ UNCHANGED asm
<1>1. Busy("assimilator") /\ "assimilator" \in Processes \ Preemptible
  BY DEF Busy, Processes
<1>2. \A p : Runs(p) => p = "assimilator"
  BY <1>1 DEF Runs
<1>3. ~Purged
  BY <1>1 DEF Purged
<1>4. UNCHANGED vars \/ InTime(TransitionTimePasses) \/ (\E r \in Results : InTime(DeadlinePasses(r)))
  BY <1>2, <1>3 DEF Next, InTransitioner, InValidator, InFileDeleter, InPurge, InCgi, InCancel
<1>5. ~JobWritten
  BY <1>2 DEF JobWritten, InTransitioner, InAssimilator, InFileDeleter, InPurge, InCancel,
              InValidator, AssimilatorNext, AssimilatorStep
<1>6. QED
  BY <1>4, <1>5 DEF InTime, vars

\* The inductive step.
LEMMA StepKeepsAssimilatorReads ==
    ASSUME TypeOK, AssimilatorReads, [Next]_vars, "assimilator" \notin Preemptible
    PROVE  AssimilatorReads'
<1>1. SUFFICES ASSUME asm'.pc = "read" PROVE asm'.wu.error = wu'.error
  BY DEF AssimilatorReads
<1>2. CASE InAssimilator(AssimilatorNext)
  <2>1. AssimilatorEnumerate
    <3>1. ~AssimilatorHandle
      BY <1>1 DEF AssimilatorHandle, TypeOK, AssimilatorTypeOK
    <3>2. QED
      BY <1>1, <1>2, <3>1 DEF InAssimilator, AssimilatorNext, AssimilatorStep,
         AssimilatorUpdateWorkunit, AssimilatorCrash, assimilatorIdle
  <2>2. QED
    BY <2>1 DEF AssimilatorEnumerate, dbVars
<1>3. CASE ~InAssimilator(AssimilatorNext)
  <2>1. UNCHANGED asm
    BY <1>3 DEF Next, Purged, vars, InTransitioner, InValidator, InFileDeleter, InPurge,
       InCgi, InCancel, InTime
  <2>2. SameJob(wu, wu')
    BY <1>1, <1>3, <2>1, AssimilatorAlone, WhoWritesJob
  <2>3. QED
    BY <1>1, <2>1, <2>2 DEF AssimilatorReads, SameJob
<1>4. QED
  BY <1>2, <1>3

\* What that and the copies of the others mean for an error.
LEMMA StepKeepsErrors ==
    ASSUME TypeOK, FateSound, JobHeld, AssimilatorReads, [Next]_vars
    PROVE  wu.error \subseteq wu'.error
<1>1. CASE ~JobWritten \/ ~wu.exists
  BY <1>1, WhoWritesJob, JobWrites DEF SameJob
<1>2. CASE wu.exists /\ InTransitioner(TransitionerUpdateWorkunit)
  <2>1. tr.pc # "idle"
    BY <1>2 DEF InTransitioner, TransitionerUpdateWorkunit
  <2>2. tr.old.error = wu.error /\ tr.old.error \subseteq tr.wu.error
    BY <2>1 DEF FateSound, TransitionerFate, JobHeld, HeldByTransitioner, SameJob
  <2>3. wu'.error = IF tr.wu.error # tr.old.error THEN tr.wu.error ELSE wu.error
    BY <1>2, JobWrites DEF InTransitioner
  <2>4. QED
    BY <2>2, <2>3
<1>3. CASE wu.exists /\ InValidator(ValidatorUpdateWorkunit)
  <2>1. va.pc = "open"
    BY <1>3 DEF InValidator, ValidatorUpdateWorkunit
  <2>2. wu'.error = va.wu.error
    BY <1>3, JobWrites DEF InValidator
  <2>3. QED
    BY <2>1, <2>2 DEF FateSound, ValidatorFate
<1>4. CASE wu.exists /\ InAssimilator(AssimilatorHandle)
  <2>1. asm.wu.error = wu.error
    BY <1>4 DEF InAssimilator, AssimilatorHandle, AssimilatorReads
  <2>2. wu'.error = wu.error \/ asm.wu.error = {}
    BY <1>4, JobWrites DEF InAssimilator
  <2>3. QED
    BY <2>1, <2>2
<1>5. QED
  BY <1>1, <1>2, <1>3, <1>4, JobWrites
     DEF JobWritten, InAssimilator, InFileDeleter, InPurge, InCancel

\* With uninterrupted passes of the transitioner, the validator and the
\* assimilator no write drops an error that was recorded.
THEOREM ErrorsStay ==
    ASSUME "validator" \notin Preemptible, "transitioner" \notin Preemptible,
           "assimilator" \notin Preemptible
    PROVE  Spec => ErrorsAreSticky
<1>1. Init => AssimilatorReads
  BY DEF Init, AssimilatorInit, assimilatorIdle, AssimilatorReads
<1>2. TypeOK /\ AssimilatorReads /\ [Next]_vars => AssimilatorReads'
  BY StepKeepsAssimilatorReads
<1>3. Spec => []AssimilatorReads
  BY <1>1, <1>2, TypeCorrect, PTL DEF Spec
<1>4. TypeOK /\ FateSound /\ JobHeld /\ AssimilatorReads /\ [Next]_vars
        => [wu.error \subseteq wu'.error]_vars
  BY StepKeepsErrors
<1>5. QED
  BY <1>3, <1>4, TypeCorrect, DecisionsAreSafe, CopiesAreFresh, PTL DEF Spec, ErrorsAreSticky

-----------------------------------------------------------------------------
\* Output files outlive assimilation.

\* Some result's files may be deleted.
FilesReleased(S) == \E r \in Results : S[r].fds # "INIT"
AnyReleased == gone # {} \/ FilesReleased(res) \/ (tr.pc # "idle" /\ FilesReleased(tr.res))

\* The inductive invariant: files are released after assimilation; only a job
\* that failed is assimilated again after that.
FilesFollow == AnyReleased => wu.assimilate = "DONE" \/ wu.error # {}

\* One row written.
LEMMA RowReleases ==
    ASSUME res \in Rows, NEW r \in Results, NEW row, row.fds \in {res[r].fds, "INIT"},
           UpdateResult(r, row)
    PROVE  FilesReleased(res') => FilesReleased(res)
<1>1. \A s \in Results : res'[s] = res[s] \/ (res'[s] = row /\ s = r)
  BY DEF UpdateResult, Rows
<1>2. QED
  BY <1>1 DEF FilesReleased

\* Volunteers, through the scheduler, release no files.
LEMMA CgiReleasesNothing ==
    ASSUME TypeOK, NEW h \in Hosts, CgiNext(h)
    PROVE  FilesReleased(res') => FilesReleased(res)
<1>1. res \in Rows /\ \A r \in Results : res[r] \in ResultRow
  BY DEF TypeOK, DbTypeOK, Rows
<1>2. CASE UNCHANGED res
  BY <1>2 DEF FilesReleased
<1>3. CASE SendMarkAsSent(h) \/ ResendExpire(h)
  <2>1. PICK late \in BOOLEAN : MarkAsSent(h, cgi[h].r, cgi[h].old, late)
    BY <1>3 DEF SendMarkAsSent, ResendExpire
  <2>2. \A s \in Results : res'[s].fds = res[s].fds
    <3> DEFINE r == cgi[h].r
               row == [res[r] EXCEPT !.server = "IN_PROGRESS", !.host = h, !.late = late]
    <3>1. res' = res \/ res' = [res EXCEPT ![r] = row]
      BY <1>1, <2>1 DEF MarkAsSent
    <3>2. r \in Results => row.fds = res[r].fds
      BY <1>1 DEF ResultRow
    <3> HIDE DEF r, row
    <3>3. QED
      BY <1>1, <3>1, <3>2 DEF Rows
  <2>3. QED
    BY <2>2 DEF FilesReleased
<1>4. CASE ReportUpdate(h)
  <2> DEFINE r == cgi[h].r
             row == [res[r] EXCEPT !.server = "OVER", !.host = h, !.received = TRUE,
                                   !.late = TRUE, !.out = cgi[h].out,
                                   !.validate = cgi[h].validate,
                                   !.outcome = IF Succeeded(cgi[h].out) THEN "SUCCESS"
                                               ELSE "CLIENT_ERROR"]
  <2>1. r \in Results
    BY <1>4 DEF ReportUpdate, TypeOK, SchedulerTypeOK
  <2>2. row.fds = res[r].fds
    BY <1>1, <2>1 DEF ResultRow
  <2>3. UpdateResult(r, row)
    BY <1>4 DEF ReportUpdate
  <2> HIDE DEF r, row
  <2>4. QED
    BY <1>1, <2>1, <2>2, <2>3, RowReleases
<1>5. ASSUME NEW r \in Results, DetachResult(h, r)
      PROVE  FilesReleased(res') => FilesReleased(res)
  <2> DEFINE row == [res[r] EXCEPT !.server = "OVER", !.outcome = "CLIENT_DETACHED",
                                   !.received = TRUE]
  <2>1. row.fds = res[r].fds
    BY <1>1 DEF ResultRow
  <2>2. UpdateResult(r, row)
    BY <1>5 DEF DetachResult
  <2> HIDE DEF row
  <2>3. QED
    BY <1>1, <2>1, <2>2, RowReleases
<1>6. QED
  BY <1>2, <1>3, <1>4, <1>5
     DEF CgiNext, CgiRequest, CgiStep, CgiCrash, SelectResult, ResendLost, ReportIgnored,
         Report, Detach, SendUpdateWorkunit, SendReplicate, ResendExpireWorkunit,
         ReportTrigger, DetachTrigger, dbVars

\* Nor does any process but the transitioner.
LEMMA OnlyTransitionerReleases ==
    ASSUME TypeOK, [Next]_vars, ~InTransitioner(TransitionerNext)
    PROVE  /\ FilesReleased(res') => FilesReleased(res)
           /\ gone' # {} => gone # {} \/ FilesReleased(res)
<1>1. res \in Rows /\ \A r \in Results : res[r] \in ResultRow
  BY DEF TypeOK, DbTypeOK, Rows
<1>2. CASE UNCHANGED <<res, gone>>
  BY <1>2 DEF FilesReleased
<1>3. CASE UNCHANGED vars \/ Purged \/ InAssimilator(AssimilatorNext)
           \/ InTime(TransitionTimePasses)
  BY <1>2, <1>3 DEF Purged, vars, dbVars, InAssimilator, AssimilatorNext, AssimilatorStep,
     AssimilatorEnumerate, AssimilatorHandle, AssimilatorUpdateWorkunit, AssimilatorCrash,
     InTime, TransitionTimePasses
<1>4. CASE InValidator(ValidatorNext)
  <2>1. ASSUME NEW r \in Results, ValidatorUpdateResult(r)
        PROVE  UNCHANGED gone /\ (FilesReleased(res') => FilesReleased(res))
    <3> DEFINE row == [res[r] EXCEPT !.server = va.res[r].server,
                                     !.outcome = va.res[r].outcome,
                                     !.validate = va.res[r].validate]
    <3>1. row.fds = res[r].fds
      BY <1>1 DEF ResultRow
    <3>2. UpdateResult(r, row) /\ UNCHANGED gone
      BY <2>1 DEF ValidatorUpdateResult
    <3> HIDE DEF row
    <3>3. QED
      BY <1>1, <3>1, <3>2, RowReleases
  <2>2. QED
    BY <1>2, <1>4, <2>1
       DEF InValidator, ValidatorNext, ValidatorStep, ValidatorFlakyCheckSet,
           ValidatorCreditError, ValidatorRetryPair, ValidatorCrash, ValidatorEnumerate,
           ValidatorNoCanonicalRow, ValidatorNoQuorum, ValidatorCheckSet, ValidatorCheckPair,
           ValidatorGrantCredit, ValidatorCheckedAll, ValidatorUpdateWorkunit, dbVars
<1>5. CASE InFileDeleter(FileDeleterNext)
  <2>1. ASSUME NEW r \in Results, FileDeleteOutput(r) \/ FileDeleteOutputFails(r)
        PROVE  FilesReleased(res)
    BY <2>1 DEF FileDeleteOutput, FileDeleteOutputFails, FilesReleased
  <2>2. QED
    BY <1>2, <1>5, <2>1 DEF InFileDeleter, FileDeleterNext, FileDeleterStep,
                            FileDeleteInput, FileDeleteInputFails
<1>6. CASE InPurge(PurgeNext)
  <2>1. ASSUME NEW r \in Results, PurgeResult(r)
        PROVE  UNCHANGED gone /\ (FilesReleased(res') => FilesReleased(res))
    <3> DEFINE row == PurgedRow
    <3>1. row.fds = "INIT"
      BY DEF PurgedRow, NoRow
    <3>2. res' = [res EXCEPT ![r] = row] /\ UNCHANGED gone
      BY <2>1 DEF PurgeResult
    <3> HIDE DEF row
    <3>3. \A s \in Results : res'[s] = IF s = r THEN row ELSE res[s]
      BY <1>1, <3>2 DEF Rows
    <3>4. QED
      BY <3>1, <3>2, <3>3 DEF FilesReleased
  <2>2. QED
    BY <1>2, <1>6, <2>1 DEF InPurge, PurgeNext, PurgeStep, PurgeEnumerate, PurgeWorkunit,
                            PurgeCrash, dbVars
<1>7. ASSUME NEW h \in Hosts, InCgi(h, CgiNext(h))
      PROVE  UNCHANGED gone /\ (FilesReleased(res') => FilesReleased(res))
  <2>1. UNCHANGED gone
    BY <1>7 DEF InCgi, CgiNext, CgiRequest, CgiStep, CgiCrash, SelectResult, ResendLost,
       ReportIgnored, Report, Detach, SendUpdateWorkunit, SendMarkAsSent, SendReplicate,
       ResendExpire, ResendExpireWorkunit, ReportUpdate, ReportTrigger, DetachResult,
       DetachTrigger, dbVars
  <2>2. QED
    BY <1>7, <2>1, CgiReleasesNothing DEF InCgi
<1>8. CASE InCancel(CancelNext)
  <2>1. CASE CancelResults
    <3>1. \A r \in Results : [res[r] EXCEPT !.server = "OVER", !.outcome = "DIDNT_NEED"].fds
                               = res[r].fds
      BY <1>1 DEF ResultRow
    <3>2. \A r \in Results : res'[r].fds = res[r].fds
      BY <2>1, <3>1 DEF CancelResults
    <3>3. UNCHANGED gone
      BY <2>1 DEF CancelResults
    <3>4. QED
      BY <3>2, <3>3 DEF FilesReleased
  <2>2. QED
    BY <1>2, <1>8, <2>1 DEF InCancel, CancelNext, CancelWorkunit
<1>9. ASSUME NEW r \in Results, InTime(DeadlinePasses(r))
      PROVE  UNCHANGED gone /\ (FilesReleased(res') => FilesReleased(res))
  <2> DEFINE row == [res[r] EXCEPT !.late = TRUE]
  <2>1. row.fds = res[r].fds
    BY <1>1 DEF ResultRow
  <2>2. res' = [res EXCEPT ![r] = row] /\ UNCHANGED gone
    BY <1>9 DEF InTime, DeadlinePasses
  <2> HIDE DEF row
  <2>3. \A s \in Results : res'[s] = IF s = r THEN row ELSE res[s]
    BY <1>1, <2>2 DEF Rows
  <2>4. QED
    BY <2>1, <2>2, <2>3 DEF FilesReleased
<1>10. QED
  BY <1>3, <1>4, <1>5, <1>6, <1>7, <1>8, <1>9 DEF Next

\* The transitioner does once it has read that the job is assimilated.
LEMMA TransitionerReleases ==
    ASSUME TypeOK, FateSound, JobHeld, InTransitioner(TransitionerNext)
    PROVE  AnyReleased' => AnyReleased \/ wu.assimilate = "DONE"
<1>1. res \in Rows /\ (\A r \in Results : res[r] \in ResultRow) /\ UNCHANGED gone
  BY DEF TypeOK, DbTypeOK, Rows, InTransitioner, TransitionerNext, TransitionerStep,
     TransitionerEnumerate, TransitionerUpdateResult, TransitionerDecide, TransitionerRelease,
     TransitionerUpdateWorkunit, TransitionerCrash, dbVars
<1>2. tr.pc # "idle" => tr \in TransitionerMemory /\ tr.res \in Rows
                        /\ \A r \in Results : tr.res[r] \in ResultRow
  BY DEF TypeOK, TransitionerTypeOK, TransitionerMemory, Rows
<1>3. CASE TransitionerEnumerate
  <2>1. \A r \in Results : Scanned(wu, res)[r].fds = res[r].fds
    <3>1. \A row \in ResultRow :
            /\ [row EXCEPT !.server = "OVER", !.outcome = "NO_REPLY"].fds = row.fds
            /\ [row EXCEPT !.validate = "TOO_LATE"].fds = row.fds
      BY DEF ResultRow
    <3>2. DOMAIN res = Results
      BY <1>1 DEF Rows
    <3>3. QED
      BY <1>1, <3>1, <3>2 DEF Scanned
  <2>2. tr'.res = Scanned(wu, res) /\ UNCHANGED res
    BY <1>3 DEF TransitionerEnumerate, dbVars
  <2>3. QED
    BY <1>1, <2>1, <2>2 DEF AnyReleased, FilesReleased
<1>4. ASSUME NEW r \in Results, TransitionerUpdateResult(r)
      PROVE  AnyReleased' => AnyReleased
  <2>1. tr.pc # "idle" /\ tr'.res = tr.res
    BY <1>2, <1>4 DEF TransitionerUpdateResult, TransitionerMemory
  <2> DEFINE row == [res[r] EXCEPT !.server = tr.res[r].server,
                                   !.outcome = tr.res[r].outcome,
                                   !.validate = tr.res[r].validate, !.fds = tr.res[r].fds]
  <2>2. row.fds = tr.res[r].fds
    BY <1>1 DEF ResultRow
  <2>3. UpdateResult(r, row)
    BY <1>4 DEF TransitionerUpdateResult
  <2> HIDE DEF row
  <2>4. \A s \in Results : res'[s] = res[s] \/ res'[s].fds = tr.res[s].fds
    BY <1>1, <2>2, <2>3 DEF UpdateResult, Rows
  <2>5. QED
    BY <1>1, <2>1, <2>4 DEF AnyReleased, FilesReleased
<1>5. CASE TransitionerDecide
  <2>1. tr.pc # "idle"
    BY <1>5 DEF TransitionerDecide
  <2>2. \A r \in Results : GivenUp(tr.res)[r].fds = tr.res[r].fds
    <3>1. \A row \in ResultRow :
            /\ [row EXCEPT !.server = "OVER", !.outcome = "DIDNT_NEED"].fds = row.fds
            /\ [row EXCEPT !.validate = "NO_CHECK"].fds = row.fds
      BY DEF ResultRow
    <3>2. DOMAIN tr.res = Results
      BY <1>2, <2>1 DEF Rows
    <3>3. QED
      BY <1>2, <2>1, <3>1, <3>2 DEF GivenUp
  <2>3. tr'.res \in {GivenUp(tr.res), tr.res}
    BY <1>2, <1>5, <2>1 DEF TransitionerDecide, TransitionerMemory
  <2>4. \A r \in Results : res'[r] = NewResult \/ res'[r] = res[r]
    BY <1>5 DEF TransitionerDecide
  <2>5. NewResult.fds = "INIT"
    BY DEF NewResult, NoRow
  <2>6. QED
    BY <1>1, <2>1, <2>2, <2>3, <2>4, <2>5 DEF AnyReleased, FilesReleased
<1>6. CASE TransitionerRelease
  <2>1. tr.pc # "idle" /\ UNCHANGED res
    BY <1>6 DEF TransitionerRelease, dbVars
  <2>2. tr'.res = tr.res \/ tr.wu.assimilate = "DONE"
    BY <1>2, <1>6, <2>1 DEF TransitionerRelease, TransitionerMemory
  <2>3. tr.wu.assimilate = "DONE" => wu.assimilate = "DONE"
    BY <2>1 DEF FateSound, TransitionerFate, JobHeld, HeldByTransitioner, SameJob
  <2>4. QED
    BY <1>1, <2>1, <2>2, <2>3 DEF AnyReleased, FilesReleased
<1>7. CASE TransitionerUpdateWorkunit \/ TransitionerCrash
  BY <1>1, <1>7 DEF TransitionerUpdateWorkunit, TransitionerCrash, transitionerIdle, AnyReleased,
                    FilesReleased
<1>8. QED
  BY <1>3, <1>4, <1>5, <1>6, <1>7 DEF InTransitioner, TransitionerNext, TransitionerStep

\* The inductive step.
LEMMA StepKeepsFilesFollow ==
    ASSUME TypeOK, FateSound, JobHeld, AssimilatorReads, FilesFollow, [Next]_vars
    PROVE  FilesFollow'
<1>1. SUFFICES ASSUME AnyReleased' PROVE wu'.assimilate = "DONE" \/ wu'.error # {}
  BY DEF FilesFollow
<1>2. AnyReleased \/ wu.assimilate = "DONE"
  <2>1. CASE InTransitioner(TransitionerNext)
    BY <1>1, <2>1, TransitionerReleases
  <2>2. CASE ~InTransitioner(TransitionerNext)
    <3>1. UNCHANGED tr
      BY <2>2 DEF Next, Purged, vars, InValidator, InAssimilator, InFileDeleter, InPurge,
         InCgi, InCancel, InTime
    <3>2. /\ FilesReleased(res') => FilesReleased(res)
          /\ gone' # {} => gone # {} \/ FilesReleased(res)
      BY <2>2, OnlyTransitionerReleases
    <3>3. QED
      BY <1>1, <3>1, <3>2 DEF AnyReleased, FilesReleased
  <2>3. QED
    BY <2>1, <2>2
<1>3. wu.assimilate = "DONE" \/ wu.error # {}
  BY <1>2 DEF FilesFollow
<1>4. wu.error \subseteq wu'.error
  BY StepKeepsErrors
<1>5. SUFFICES ASSUME wu.error = {}, wu.assimilate = "DONE" PROVE wu'.assimilate = "DONE"
  BY <1>3, <1>4
<1>6. wu.canonical # 0
  BY <1>5 DEF FateSound, RowFate, Settled
<1>7. CASE ~JobWritten \/ ~wu.exists
  BY <1>5, <1>7, WhoWritesJob, JobWrites DEF SameJob
<1>8. CASE wu.exists /\ InTransitioner(TransitionerUpdateWorkunit)
  <2>1. tr.pc # "idle"
    BY <1>8 DEF InTransitioner, TransitionerUpdateWorkunit
  <2>2. tr.old.assimilate = "DONE"
    BY <1>5, <2>1 DEF JobHeld, HeldByTransitioner, SameJob
  <2>3. tr.wu.assimilate = tr.old.assimilate
    BY <2>1, <2>2 DEF FateSound, TransitionerFate
  <2>4. QED
    BY <1>5, <1>8, <2>3, JobWrites DEF InTransitioner
<1>9. CASE wu.exists /\ InValidator(ValidatorUpdateWorkunit)
  <2>1. va.pc = "open"
    BY <1>9 DEF InValidator, ValidatorUpdateWorkunit
  <2>2. va.wu.assimilate = wu.assimilate
    BY <1>6, <2>1 DEF JobHeld, HeldByValidator
  <2>3. QED
    BY <1>5, <1>9, <2>2, JobWrites DEF InValidator
<1>10. ~InAssimilator(AssimilatorUpdateWorkunit)
  BY <1>5 DEF InAssimilator, AssimilatorUpdateWorkunit, JobHeld, HeldByAssimilator
<1>11. QED
  BY <1>5, <1>7, <1>8, <1>9, <1>10, JobWrites
     DEF JobWritten, InAssimilator, InFileDeleter, InPurge, InCancel

\* The assimilator finds the output file of the canonical result, when it, the
\* transitioner and the validator are not interrupted: whoever else runs.
THEOREM OutputsAreKept ==
    ASSUME "validator" \notin Preemptible, "transitioner" \notin Preemptible,
           "assimilator" \notin Preemptible
    PROVE  Spec => []CanonicalOutputKeptForAssimilation
<1>1. Init => AssimilatorReads /\ FilesFollow
  <2>1. SUFFICES ASSUME Init PROVE AssimilatorReads /\ FilesFollow
    OBVIOUS
  <2>2. asm.pc = "idle" /\ tr.pc = "idle" /\ gone = {}
    BY <2>1 DEF Init, AssimilatorInit, assimilatorIdle, TransitionerInit, transitionerIdle, DbInit
  <2>3. \A r \in Results : res[r].fds = "INIT"
    BY <2>1 DEF Init, DbInit, NoRow
  <2>4. QED
    BY <2>2, <2>3 DEF AssimilatorReads, FilesFollow, AnyReleased, FilesReleased
<1>2. TypeOK /\ AssimilatorReads /\ [Next]_vars => AssimilatorReads'
  BY StepKeepsAssimilatorReads
<1>3. TypeOK /\ FateSound /\ JobHeld /\ AssimilatorReads /\ FilesFollow /\ [Next]_vars
        => FilesFollow'
  BY StepKeepsFilesFollow
<1>4. JobHeld /\ AssimilatorReads /\ FilesFollow => CanonicalOutputKeptForAssimilation
  BY DEF JobHeld, HeldByAssimilator, AssimilatorReads, FilesFollow, AnyReleased,
         CanonicalOutputKeptForAssimilation
<1>5. QED
  BY <1>1, <1>2, <1>3, <1>4, TypeCorrect, DecisionsAreSafe, CopiesAreFresh, PTL DEF Spec
=============================================================================
