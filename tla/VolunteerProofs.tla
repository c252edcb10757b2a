--------------------------- MODULE VolunteerProofs ---------------------------
(***************************************************************************)
(* What the server promises volunteers: proofs about the result rows, what *)
(* the processes remember of them, and what that means for the hosts that  *)
(* compute them: one result of a job for each owner, hosts of one class,   *)
(* reports that are kept, verdicts that agree, credit granted once.        *)
(***************************************************************************)
EXTENDS JobProofs

-----------------------------------------------------------------------------
\* What a step can do to a result row, and who takes that step.

\* What came back for a result, from whom; and what the server makes of it.
SameReturn(a, b) == a.host = b.host /\ a.out = b.out /\ a.received = b.received
SameVerdict(a, b) == a.server = b.server /\ a.outcome = b.outcome /\ a.validate = b.validate

RowKept(r) == SameReturn(res'[r], res[r]) /\ SameVerdict(res'[r], res[r])

RowIssued(r) ==
    /\ InTransitioner(TransitionerDecide)
    /\ res[r].server = "NONE" /\ res'[r] = NewResult

\* The transitioner and the validator write their verdict.
RowByTransitioner(r) ==
    /\ InTransitioner(TransitionerUpdateResult(r)) /\ r \in tr.todo /\ r \in Exists(res)
    /\ SameReturn(res'[r], res[r]) /\ SameVerdict(res'[r], tr.res[r])
    /\ tr.res[r].server = "OVER"
RowByValidator(r) ==
    /\ InValidator(ValidatorUpdateResult(r)) /\ r \in va.todo /\ r \in Exists(res)
    /\ SameReturn(res'[r], res[r]) /\ SameVerdict(res'[r], va.res[r])
    /\ va.res[r].server = "OVER"

RowPurged(r) == InPurge(PurgeResult(r)) /\ res'[r] = PurgedRow

\* A scheduler process sends the result, or sends it again (or makes it expire).
RowSent(h, r) ==
    /\ InCgi(h, SendMarkAsSent(h) \/ ResendExpire(h))
    /\ cgi[h].op \in {"mark", "expire"} /\ cgi[h].r = r /\ res[r].server = cgi[h].old
    /\ \/ cgi[h].old = "UNSENT"
       \/ cgi[h].old = "IN_PROGRESS" /\ res[r].host = h
    /\ res'[r].server = "IN_PROGRESS" /\ res'[r].host = h
    /\ res'[r].outcome = res[r].outcome /\ res'[r].validate = res[r].validate
    /\ res'[r].out = res[r].out /\ res'[r].received = res[r].received

RowReported(h, r) ==
    /\ InCgi(h, ReportUpdate(h)) /\ cgi[h].op = "report" /\ cgi[h].r = r /\ r \in Exists(res)
    /\ res'[r].server = "OVER" /\ res'[r].host = h /\ res'[r].received
    /\ res'[r].out = cgi[h].out /\ res'[r].validate = cgi[h].validate
    /\ res'[r].outcome = IF Succeeded(cgi[h].out) THEN "SUCCESS" ELSE "CLIENT_ERROR"

RowDetached(h, r) ==
    /\ InCgi(h, DetachResult(h, r)) /\ cgi[h].op = "detach" /\ r \in cgi[h].todo
    /\ r \in Exists(res)
    /\ res'[r].server = "OVER" /\ res'[r].outcome = "CLIENT_DETACHED" /\ res'[r].received
    /\ res'[r].host = res[r].host /\ res'[r].out = res[r].out
    /\ res'[r].validate = res[r].validate

RowCancelled(r) ==
    /\ InCancel(CancelResults) /\ res[r].server = "UNSENT"
    /\ SameReturn(res'[r], res[r])
    /\ res'[r].server = "OVER" /\ res'[r].outcome = "DIDNT_NEED"
    /\ res'[r].validate = res[r].validate

RowByCgi(h, r) == RowSent(h, r) \/ RowReported(h, r) \/ RowDetached(h, r)

\* A statement about one row leaves the others alone.
LEMMA OneRow ==
    ASSUME res \in Rows, NEW r \in Results, NEW q \in Results, NEW row,
           UpdateResult(q, row) \/ res' = [res EXCEPT ![q] = row]
    PROVE  /\ RowKept(r) \/ (r = q /\ res'[r] = row)
           /\ UpdateResult(q, row) => RowKept(r) \/ q \in Exists(res)
BY DEF RowKept, SameReturn, SameVerdict, UpdateResult, Rows

\* update_result() of the transitioner.
LEMMA TransitionerRow ==
    ASSUME TypeOK, MemoriesAreSafe, NEW r \in Results, NEW q \in Results,
           InTransitioner(TransitionerUpdateResult(q))
    PROVE  RowKept(r) \/ RowByTransitioner(r)
<1>1. res \in Rows /\ res[q] \in ResultRow
  BY DEF TypeOK, DbTypeOK, Rows
<1>2. tr.pc # "idle" /\ q \in tr.todo
  BY DEF InTransitioner, TransitionerUpdateResult
<1>3. tr.res[q].server = "OVER"
  BY <1>2 DEF MemoriesAreSafe, TransitionerSound
<1> DEFINE row == [res[q] EXCEPT !.server = tr.res[q].server, !.outcome = tr.res[q].outcome,
                                 !.validate = tr.res[q].validate, !.fds = tr.res[q].fds]
<1>4. UpdateResult(q, row)
  BY DEF InTransitioner, TransitionerUpdateResult
<1>5. SameReturn(row, res[q]) /\ SameVerdict(row, tr.res[q])
  BY <1>1 DEF ResultRow, SameReturn, SameVerdict
<1> HIDE DEF row
<1>6. QED
  BY <1>1, <1>2, <1>3, <1>4, <1>5, OneRow DEF RowByTransitioner

\* update_result() of the validator.
LEMMA ValidatorRow ==
    ASSUME TypeOK, MemoriesAreSafe, NEW r \in Results, NEW q \in Results,
           InValidator(ValidatorUpdateResult(q))
    PROVE  RowKept(r) \/ RowByValidator(r)
<1>1. res \in Rows /\ res[q] \in ResultRow
  BY DEF TypeOK, DbTypeOK, Rows
<1>2. va.pc = "open" /\ q \in va.todo
  BY DEF InValidator, ValidatorUpdateResult
<1>3. va.res[q].server = "OVER"
  BY <1>2 DEF MemoriesAreSafe, ValidatorSound
<1> DEFINE row == [res[q] EXCEPT !.server = va.res[q].server, !.outcome = va.res[q].outcome,
                                 !.validate = va.res[q].validate]
<1>4. UpdateResult(q, row)
  BY DEF InValidator, ValidatorUpdateResult
<1>5. SameReturn(row, res[q]) /\ SameVerdict(row, va.res[q])
  BY <1>1 DEF ResultRow, SameReturn, SameVerdict
<1> HIDE DEF row
<1>6. QED
  BY <1>1, <1>2, <1>3, <1>4, <1>5, OneRow DEF RowByValidator

\* create_result_ti(), for ids that were not used.
LEMMA IssuedRow ==
    ASSUME TypeOK, MemoriesAreSafe, NEW r \in Results, InTransitioner(TransitionerDecide)
    PROVE  RowKept(r) \/ RowIssued(r)
<1>1. res \in Rows /\ TransitionerDecide
  BY DEF TypeOK, DbTypeOK, Rows, InTransitioner
<1>2. tr.pc = "scan" /\ Issued(res) = Issued(tr.res)
  BY <1>1 DEF TransitionerDecide, MemoriesAreSafe, TransitionerSound
<1> DEFINE n == Cardinality({q \in Results : tr.res[q].server # "NONE"})
<1>3. PICK m : res'[r] = IF r \in n + 1 .. m THEN NewResult ELSE res[r]
  <2> DEFINE w == Decided(tr.wu, tr.res)
             m == n + NewResults(tr.wu, tr.res)
             new == IF w.error = {} /\ w.canonical = 0 THEN n + 1 .. m ELSE {}
  <2>1. res'[r] = IF r \in new THEN NewResult ELSE res[r]
    BY <1>1 DEF TransitionerDecide
  <2>2. CASE w.error = {} /\ w.canonical = 0
    BY <2>1, <2>2
  <2>3. CASE ~(w.error = {} /\ w.canonical = 0)
    <3>1. n \in Nat
      <4>1. {q \in Results : tr.res[q].server # "NONE"} \in SUBSET Results
        OBVIOUS
      <4>2. QED
        BY <4>1, ResultsFinite
    <3>2. r \notin n + 1 .. n
      BY <3>1
    <3>3. res'[r] = IF r \in n + 1 .. n THEN NewResult ELSE res[r]
      BY <2>1, <2>3, <3>2
    <3>4. QED
      BY <3>3
  <2>4. QED
    BY <2>2, <2>3
<1>4. PICK k \in 0 .. MaxTotalResults + 1 : Issued(res) = 1 .. k
  BY DEF MemoriesAreSafe, ResultRowsSound
<1>5. MaxTotalResults \in Nat /\ k \in Nat /\ r \in Nat \ {0}
  BY <1>4, ParamAssumption DEF Results
<1>6. n = k
  <2>1. {q \in Results : tr.res[q].server # "NONE"} = 1 .. k
    BY <1>2, <1>4 DEF Issued
  <2>2. Cardinality(1 .. k) = k
    BY <1>5, FS_Interval
  <2>3. QED
    BY <2>1, <2>2
<1>7. CASE r \in n + 1 .. m
  <2>1. r \notin 1 .. k
    BY <1>5, <1>6, <1>7
  <2>2. res[r].server = "NONE"
    BY <1>4, <2>1 DEF Issued
  <2>3. QED
    BY <1>3, <1>7, <2>2 DEF RowIssued
<1>8. CASE r \notin n + 1 .. m
  BY <1>3, <1>8 DEF RowKept, SameReturn, SameVerdict
<1>9. QED
  BY <1>7, <1>8

\* mark_as_sent(), from the two places that call it.
LEMMA SentRow ==
    ASSUME TypeOK, MemoriesAreSafe, NEW h \in Hosts, NEW r \in Results,
           InCgi(h, SendMarkAsSent(h) \/ ResendExpire(h))
    PROVE  RowKept(r) \/ RowSent(h, r)
<1>1. res \in Rows /\ \A q \in Results : res[q] \in ResultRow
  BY DEF TypeOK, DbTypeOK, Rows
<1>2. cgi[h].op \in {"mark", "expire"}
  BY DEF InCgi, SendMarkAsSent, ResendExpire
<1>3. PICK late : MarkAsSent(h, cgi[h].r, cgi[h].old, late)
  BY DEF InCgi, SendMarkAsSent, ResendExpire
<1>4. CASE res[cgi[h].r].server # cgi[h].old
  BY <1>3, <1>4 DEF MarkAsSent, RowKept, SameReturn, SameVerdict
<1>5. CASE res[cgi[h].r].server = cgi[h].old
  <2> DEFINE q == cgi[h].r
             row == [res[q] EXCEPT !.server = "IN_PROGRESS", !.host = h, !.late = late]
  <2>1. q \in Results /\ RequestSound(h)
    BY <1>2 DEF MemoriesAreSafe, CgiSound, RequestSound
  <2>2. \/ cgi[h].old = "UNSENT"
        \/ cgi[h].old = "IN_PROGRESS" /\ res[q].host = h
    BY <1>2, <1>5, <2>1 DEF RequestSound
  <2>3. res' = [res EXCEPT ![q] = row]
    <3>1. res' = [res EXCEPT ![q].server = "IN_PROGRESS", ![q].host = h, ![q].late = late]
      BY <1>3, <1>5 DEF MarkAsSent
    <3>2. QED
      BY <1>1, <2>1, <3>1 DEF Rows
  <2>4. /\ row.server = "IN_PROGRESS" /\ row.host = h
        /\ row.outcome = res[q].outcome /\ row.validate = res[q].validate
        /\ row.out = res[q].out /\ row.received = res[q].received
    BY <1>1, <2>1 DEF ResultRow
  <2> HIDE DEF row
  <2>5. RowKept(r) \/ (r = q /\ res'[r] = row)
    BY <1>1, <2>1, <2>3, OneRow
  <2>6. QED
    BY <1>2, <1>5, <2>2, <2>4, <2>5 DEF RowSent
<1>6. QED
  BY <1>4, <1>5

\* update_result() of handle_results().
LEMMA ReportedRow ==
    ASSUME TypeOK, NEW h \in Hosts, NEW r \in Results, InCgi(h, ReportUpdate(h))
    PROVE  RowKept(r) \/ RowReported(h, r)
<1>1. res \in Rows /\ \A q \in Results : res[q] \in ResultRow
  BY DEF TypeOK, DbTypeOK, Rows
<1> DEFINE q == cgi[h].r
           outcome == IF Succeeded(cgi[h].out) THEN "SUCCESS" ELSE "CLIENT_ERROR"
           row == [res[q] EXCEPT !.server = "OVER", !.host = h, !.received = TRUE,
                                 !.late = TRUE, !.out = cgi[h].out,
                                 !.validate = cgi[h].validate, !.outcome = outcome]
<1>2. cgi[h].op = "report" /\ UpdateResult(q, row)
  BY DEF InCgi, ReportUpdate
<1>3. q \in Results
  BY <1>2 DEF TypeOK, SchedulerTypeOK
<1> HIDE DEF q
<1>4. /\ row.server = "OVER" /\ row.host = h /\ row.received
      /\ row.out = cgi[h].out /\ row.validate = cgi[h].validate /\ row.outcome = outcome
  BY <1>1, <1>3 DEF ResultRow
<1> HIDE DEF row
<1>5. RowKept(r) \/ (r = q /\ res'[r] = row /\ q \in Exists(res))
  BY <1>1, <1>2, <1>3, OneRow
<1>6. QED
  BY <1>2, <1>4, <1>5 DEF RowReported, q

\* mark_results_over().
LEMMA DetachedRow ==
    ASSUME TypeOK, NEW h \in Hosts, NEW r \in Results, NEW q \in Results,
           InCgi(h, DetachResult(h, q))
    PROVE  RowKept(r) \/ RowDetached(h, r)
<1>1. res \in Rows /\ res[q] \in ResultRow
  BY DEF TypeOK, DbTypeOK, Rows
<1> DEFINE row == [res[q] EXCEPT !.server = "OVER", !.outcome = "CLIENT_DETACHED",
                                 !.received = TRUE]
<1>2. cgi[h].op = "detach" /\ q \in cgi[h].todo /\ UpdateResult(q, row)
  BY DEF InCgi, DetachResult
<1>3. /\ row.server = "OVER" /\ row.outcome = "CLIENT_DETACHED" /\ row.received
      /\ row.host = res[q].host /\ row.out = res[q].out /\ row.validate = res[q].validate
  BY <1>1 DEF ResultRow
<1> HIDE DEF row
<1>4. RowKept(r) \/ (r = q /\ res'[r] = row /\ q \in Exists(res))
  BY <1>1, <1>2, OneRow
<1>5. QED
  BY <1>2, <1>3, <1>4 DEF RowDetached

\* The deleters and time write nothing but file_delete_state and `late`.
LEMMA QuietRows ==
    ASSUME TypeOK, NEW r \in Results, NEW q \in Results, NEW f \in FileDeleteStates,
           \/ res' = res
           \/ res' = [res EXCEPT ![q].fds = f]
           \/ res' = [res EXCEPT ![q].late = TRUE]
    PROVE  RowKept(r)
<1>1. res \in Rows /\ res[q] \in ResultRow /\ res[r] \in ResultRow
  BY DEF TypeOK, DbTypeOK, Rows
<1>2. CASE res' = res
  BY <1>2 DEF RowKept, SameReturn, SameVerdict
<1>3. CASE res' = [res EXCEPT ![q].fds = f]
  BY <1>1, <1>3 DEF RowKept, SameReturn, SameVerdict, Rows, ResultRow
<1>4. CASE res' = [res EXCEPT ![q].late = TRUE]
  BY <1>1, <1>4 DEF RowKept, SameReturn, SameVerdict, Rows, ResultRow
<1>5. QED
  BY <1>2, <1>3, <1>4

\* Every step leaves a row alone, as far as volunteers are concerned, or is one
\* of the nine that write it.
LEMMA RowSteps ==
    ASSUME TypeOK, MemoriesAreSafe, [Next]_vars, NEW r \in Results
    PROVE  \/ RowKept(r) \/ RowIssued(r) \/ RowByTransitioner(r) \/ RowByValidator(r)
           \/ RowPurged(r) \/ RowCancelled(r)
           \/ \E h \in Hosts : RowByCgi(h, r)
<1>1. res \in Rows /\ \A q \in Results : res[q] \in ResultRow
  BY DEF TypeOK, DbTypeOK, Rows
<1>2. res' = res => RowKept(r)
  BY DEF RowKept, SameReturn, SameVerdict
<1>3. CASE UNCHANGED vars \/ InTime(TransitionTimePasses) \/ InAssimilator(AssimilatorNext)
           \/ Purged
  BY <1>2, <1>3 DEF vars, dbVars, InTime, TransitionTimePasses, InAssimilator, AssimilatorNext,
     AssimilatorStep, AssimilatorEnumerate, AssimilatorHandle, AssimilatorUpdateWorkunit,
     AssimilatorCrash, Purged
<1>4. CASE \/ InFileDeleter(FileDeleterNext)
           \/ \E q \in Results : InTime(DeadlinePasses(q))
  <2>1. \/ res' = res
        \/ \E q \in Results, f \in FileDeleteStates :
              res' = [res EXCEPT ![q].fds = f] \/ res' = [res EXCEPT ![q].late = TRUE]
    BY <1>4 DEF InTime, DeadlinePasses, InFileDeleter, FileDeleterNext, FileDeleterStep,
       FileDeleteOutput, FileDeleteOutputFails, FileDeleteInput, FileDeleteInputFails,
       FileDeleteStates
  <2>2. QED
    BY <1>2, <2>1, QuietRows
<1>5. CASE InTransitioner(TransitionerNext)
  <2>1. CASE InTransitioner(TransitionerDecide)
    BY <2>1, IssuedRow
  <2>2. ASSUME NEW q \in Results, InTransitioner(TransitionerUpdateResult(q))
        PROVE  RowKept(r) \/ RowByTransitioner(r)
    BY <2>2, TransitionerRow
  <2>3. QED
    BY <1>2, <1>5, <2>1, <2>2
       DEF InTransitioner, TransitionerNext, TransitionerStep, TransitionerEnumerate,
           TransitionerRelease, TransitionerUpdateWorkunit, TransitionerCrash, dbVars
<1>6. CASE InValidator(ValidatorNext)
  <2>1. ASSUME NEW q \in Results, InValidator(ValidatorUpdateResult(q))
        PROVE  RowKept(r) \/ RowByValidator(r)
    BY <2>1, ValidatorRow
  <2>2. QED
    BY <1>2, <1>6, <2>1
       DEF InValidator, ValidatorNext, ValidatorStep, ValidatorFlakyCheckSet,
           ValidatorCreditError, ValidatorRetryPair, ValidatorCrash, ValidatorEnumerate,
           ValidatorNoCanonicalRow, ValidatorNoQuorum, ValidatorCheckSet, ValidatorCheckPair,
           ValidatorGrantCredit, ValidatorCheckedAll, ValidatorUpdateWorkunit, dbVars
<1>7. CASE InPurge(PurgeNext)
  <2>1. ASSUME NEW q \in Results, InPurge(PurgeResult(q))
        PROVE  RowKept(r) \/ RowPurged(r)
    <3>1. res' = [res EXCEPT ![q] = PurgedRow]
      BY <2>1 DEF InPurge, PurgeResult
    <3>2. RowKept(r) \/ (r = q /\ res'[r] = PurgedRow)
      BY <1>1, <3>1, OneRow
    <3>3. QED
      BY <2>1, <3>2 DEF RowPurged
  <2>2. QED
    BY <1>2, <1>7, <2>1 DEF InPurge, PurgeNext, PurgeStep, PurgeEnumerate, PurgeWorkunit,
       PurgeCrash, dbVars
<1>8. CASE InCancel(CancelNext)
  <2>1. CASE InCancel(CancelResults)
    <3>1. res'[r] = IF res[r].server = "UNSENT"
                    THEN [res[r] EXCEPT !.server = "OVER", !.outcome = "DIDNT_NEED"]
                    ELSE res[r]
      BY <2>1 DEF InCancel, CancelResults
    <3>2. QED
      BY <1>1, <2>1, <3>1 DEF RowCancelled, RowKept, SameReturn, SameVerdict, ResultRow
  <2>2. QED
    BY <1>2, <1>8, <2>1 DEF InCancel, CancelNext, CancelWorkunit
<1>9. ASSUME NEW h \in Hosts, InCgi(h, CgiNext(h))
      PROVE  RowKept(r) \/ RowByCgi(h, r)
  <2>1. CASE InCgi(h, SendMarkAsSent(h) \/ ResendExpire(h))
    BY <2>1, SentRow DEF RowByCgi
  <2>2. CASE InCgi(h, ReportUpdate(h))
    BY <2>2, ReportedRow DEF RowByCgi
  <2>3. ASSUME NEW q \in Results, InCgi(h, DetachResult(h, q))
        PROVE  RowKept(r) \/ RowByCgi(h, r)
    BY <2>3, DetachedRow DEF RowByCgi
  <2>4. QED
    BY <1>2, <1>9, <2>1, <2>2, <2>3
       DEF InCgi, CgiNext, CgiRequest, CgiStep, CgiCrash, SelectResult, ResendLost,
           ReportIgnored, Report, Detach, SendUpdateWorkunit, SendReplicate,
           ResendExpireWorkunit, ReportTrigger, DetachTrigger, dbVars
<1>10. QED
  BY <1>3, <1>4, <1>5, <1>6, <1>7, <1>8, <1>9 DEF Next

-----------------------------------------------------------------------------
\* Who writes which memory, and who waits for whom.

LEMMA MemoryOwners ==
    ASSUME TypeOK, [Next]_vars
    PROVE  /\ UNCHANGED tr \/ InTransitioner(TransitionerNext)
           /\ UNCHANGED <<va, credit>> \/ InValidator(ValidatorNext)
           /\ \A h \in Hosts : cgi'[h] = cgi[h] \/ InCgi(h, CgiNext(h))
           /\ UNCHANGED <<cgi, acked>> \/ \E h \in Hosts : InCgi(h, CgiNext(h))
<1>1. CASE UNCHANGED vars
  BY <1>1 DEF vars, validatorVars, schedulerVars
<1>2. ASSUME NEW h \in Hosts, InCgi(h, CgiNext(h))
      PROVE  \A k \in Hosts \ {h} : cgi'[k] = cgi[k]
  <2>1. cgi \in [Hosts -> CgiMemory]
    BY DEF TypeOK, SchedulerTypeOK, CgiMemory, CgiRecord, CgiOps
  <2>2. cgi' = cgi \/ \E m : Become(h, m)
    BY <1>2 DEF InCgi, CgiNext, CgiRequest, CgiStep, CgiCrash, SelectResult, ResendLost,
       ReportIgnored, Report, Detach, SendUpdateWorkunit, SendMarkAsSent, SendReplicate,
       ResendExpire, ResendExpireWorkunit, ReportUpdate, ReportTrigger, DetachResult,
       DetachTrigger, Goto
  <2>3. QED
    BY <2>1, <2>2 DEF Become
<1>3. UNCHANGED <<cgi, acked>> \/ \E h \in Hosts : InCgi(h, CgiNext(h))
  BY <1>1 DEF Next, Purged, InTransitioner, InValidator, InAssimilator, InFileDeleter, InPurge,
     InCancel, InTime, CancelNext, CancelResults, CancelWorkunit, schedulerVars
<1>4. UNCHANGED tr \/ InTransitioner(TransitionerNext)
  BY <1>1 DEF Next, Purged, InValidator, InAssimilator, InFileDeleter, InPurge, InCgi,
     InCancel, InTime, vars
<1>5. UNCHANGED <<va, credit>> \/ InValidator(ValidatorNext)
  BY <1>1 DEF Next, Purged, InTransitioner, InAssimilator, InFileDeleter, InPurge, InCgi,
     InCancel, InTime, vars, validatorVars
<1>6. QED
  BY <1>2, <1>3, <1>4, <1>5

\* A step of time, or none.
TimeOnly ==
    /\ UNCHANGED <<tr, va, credit, purge, cgi, acked, faults, gone>>
    /\ \A r \in Results : RowKept(r)
    /\ wu' = wu \/ wu' = [wu EXCEPT !.tt = "now"]

LEMMA TimeSteps ==
    ASSUME TypeOK,
           \/ UNCHANGED vars \/ InTime(TransitionTimePasses) \/ Purged
           \/ \E r \in Results : InTime(DeadlinePasses(r))
    PROVE  TimeOnly
<1>1. CASE UNCHANGED vars \/ Purged
  BY <1>1 DEF Purged, vars, dbVars, validatorVars, schedulerVars, TimeOnly, RowKept,
     SameReturn, SameVerdict
<1>2. CASE InTime(TransitionTimePasses)
  BY <1>2 DEF InTime, TransitionTimePasses, validatorVars, schedulerVars, TimeOnly, RowKept,
     SameReturn, SameVerdict
<1>3. ASSUME NEW r \in Results, InTime(DeadlinePasses(r)) PROVE TimeOnly
  <2>1. res' = [res EXCEPT ![r].late = TRUE]
    BY <1>3 DEF InTime, DeadlinePasses
  <2>2. \A q \in Results : RowKept(q)
    BY <2>1, QuietRows DEF FileDeleteStates
  <2>3. QED
    BY <1>3, <2>2 DEF InTime, DeadlinePasses, validatorVars, schedulerVars, TimeOnly
<1>4. QED
  BY <1>1, <1>2, <1>3

\* While a process that nobody interrupts is busy, only it and time take steps.
LEMMA OthersWait ==
    ASSUME TypeOK, [Next]_vars, NEW p \in {"transitioner", "validator", "cgi"},
           p \notin Preemptible, Busy(p)
    PROVE  \/ TimeOnly
           \/ p = "transitioner" /\ InTransitioner(TransitionerNext)
           \/ p = "validator" /\ InValidator(ValidatorNext)
           \/ p = "cgi" /\ \E h \in Hosts : InCgi(h, CgiNext(h))
<1>1. \A q : Runs(q) => q = p
  BY DEF Runs, Processes
<1>2. \/ UNCHANGED vars \/ InTime(TransitionTimePasses) \/ Purged
      \/ \E r \in Results : InTime(DeadlinePasses(r))
      \/ p = "transitioner" /\ InTransitioner(TransitionerNext)
      \/ p = "validator" /\ InValidator(ValidatorNext)
      \/ p = "cgi" /\ \E h \in Hosts : InCgi(h, CgiNext(h))
  BY <1>1 DEF Next, InTransitioner, InValidator, InAssimilator, InFileDeleter, InPurge, InCgi,
     InCancel
<1>3. QED
  BY <1>2, TimeSteps

LEMMA TransitionerWaits ==
    ASSUME TypeOK, [Next]_vars, "transitioner" \notin Preemptible, tr.pc # "idle"
    PROVE  TimeOnly \/ InTransitioner(TransitionerNext)
BY OthersWait DEF Busy

LEMMA ValidatorWaits ==
    ASSUME TypeOK, [Next]_vars, "validator" \notin Preemptible, va.pc = "open"
    PROVE  TimeOnly \/ InValidator(ValidatorNext)
BY OthersWait DEF Busy

\* One request is served at a time.
LEMMA RequestWaits ==
    ASSUME TypeOK, [Next]_vars, "cgi" \notin Preemptible, NEW h \in Hosts, cgi[h].op # "idle"
    PROVE  TimeOnly \/ InCgi(h, CgiNext(h))
<1>1. Busy("cgi")
  BY DEF Busy
<1>2. TimeOnly \/ \E k \in Hosts : InCgi(k, CgiNext(k))
  BY <1>1, OthersWait
<1>3. ASSUME NEW k \in Hosts \ {h} PROVE ~InCgi(k, CgiNext(k))
  BY DEF InCgi
<1>4. QED
  BY <1>2, <1>3

-----------------------------------------------------------------------------
\* What a request remembers, and from which statement.

\* A request ends, or goes on to another statement with what it knows.
Keeps(h) == /\ cgi'[h].r = cgi[h].r /\ cgi'[h].old = cgi[h].old
            /\ cgi'[h].replicate = cgi[h].replicate /\ cgi'[h].todo = cgi[h].todo
            /\ cgi'[h].out = cgi[h].out /\ cgi'[h].validate = cgi[h].validate

LEMMA GotoKeeps ==
    ASSUME TypeOK, NEW h \in Hosts, NEW op, Goto(h, op)
    PROVE  cgi'[h].op = op /\ (op = "idle" \/ Keeps(h))
<1>1. cgi \in [Hosts -> CgiRecord]
  BY DEF TypeOK, SchedulerTypeOK, CgiRecord, CgiOps
<1>2. cgi'[h] = IF op = "idle" THEN cgiIdle ELSE [cgi[h] EXCEPT !.op = op]
  BY <1>1 DEF Goto, Become
<1>3. CASE op = "idle"
  BY <1>2, <1>3 DEF cgiIdle
<1>4. CASE op # "idle"
  <2> DEFINE m == [cgi[h] EXCEPT !.op = op]
  <2>1. cgi[h] \in CgiRecord
    BY <1>1
  <2>2. /\ m.op = op /\ m.r = cgi[h].r /\ m.old = cgi[h].old /\ m.replicate = cgi[h].replicate
        /\ m.todo = cgi[h].todo /\ m.out = cgi[h].out /\ m.validate = cgi[h].validate
    BY <2>1 DEF CgiRecord
  <2>3. cgi'[h] = m
    BY <1>2, <1>4
  <2> HIDE DEF m
  <2>4. QED
    BY <2>2, <2>3 DEF Keeps
<1>5. QED
  BY <1>3, <1>4

\* A request begins.
LEMMA RequestBegins ==
    ASSUME TypeOK, NEW h \in Hosts, CgiRequest(h)
    PROVE  /\ cgi[h].op = "idle" /\ UNCHANGED dbVars
           /\ \/ cgi'[h] = cgi[h]
              \/ /\ cgi'[h].op = "updateWu" /\ cgi'[h].r \in Results
                 /\ cgi'[h].replicate = NeedsReplication(h)
                 /\ \/ SelectResult(h, cgi'[h].r) /\ cgi'[h].old = "UNSENT"
                    \/ ResendLost(h, cgi'[h].r) /\ cgi'[h].old = "IN_PROGRESS"
              \/ /\ cgi'[h].op = "expire" /\ cgi'[h].r \in Results
                 /\ ResendLost(h, cgi'[h].r) /\ cgi'[h].old = "IN_PROGRESS"
              \/ /\ cgi'[h].op = "report" /\ cgi'[h].r \in Results /\ cgi'[h].out \in Returns
                 /\ MayReport(h, cgi'[h].r) /\ Accepts(res[cgi'[h].r])
                 /\ cgi'[h].validate = IF Succeeded(cgi'[h].out) THEN res[cgi'[h].r].validate
                                       ELSE "INVALID"
              \/ /\ cgi'[h].op = "detach" /\ h \in MayDetach
                 /\ cgi'[h].todo = {r \in Results : /\ res[r].server = "IN_PROGRESS"
                                                    /\ res[r].host = h}
<1>1. cgi \in [Hosts -> CgiRecord]
  BY DEF TypeOK, SchedulerTypeOK, CgiRecord, CgiOps
<1>2. \A m : Become(h, m) => cgi'[h] = m
  BY <1>1 DEF Become
<1>3. ASSUME NEW r \in Results, SelectResult(h, r)
      PROVE  /\ cgi'[h].op = "updateWu" /\ cgi'[h].r = r /\ cgi'[h].old = "UNSENT"
             /\ cgi'[h].replicate = NeedsReplication(h)
  BY <1>2, <1>3 DEF SelectResult, cgiIdle
<1>4. ASSUME NEW r \in Results, ResendLost(h, r)
      PROVE  /\ cgi'[h].r = r /\ cgi'[h].old = "IN_PROGRESS"
             /\ \/ cgi'[h].op = "updateWu" /\ cgi'[h].replicate = NeedsReplication(h)
                \/ cgi'[h].op = "expire"
  BY <1>2, <1>4 DEF ResendLost, cgiIdle
<1>5. ASSUME NEW r \in Results, NEW ret \in Returns, Report(h, r, ret)
      PROVE  /\ cgi'[h].op = "report" /\ cgi'[h].r = r /\ cgi'[h].out = ret
             /\ cgi'[h].validate = IF Succeeded(ret) THEN res[r].validate ELSE "INVALID"
             /\ MayReport(h, r) /\ Accepts(res[r])
  <2> DEFINE v == IF Succeeded(ret) THEN res[r].validate ELSE "INVALID"
  <2>1. cgi'[h] = [cgiIdle EXCEPT !.op = "report", !.r = r, !.out = ret, !.validate = v]
    BY <1>2, <1>5 DEF Report
  <2> HIDE DEF v
  <2>2. cgi'[h].op = "report" /\ cgi'[h].r = r /\ cgi'[h].out = ret /\ cgi'[h].validate = v
    BY <2>1 DEF cgiIdle
  <2>3. QED
    BY <1>5, <2>2 DEF Report, v
<1>6. ASSUME Detach(h)
      PROVE  /\ cgi'[h].op = "detach" /\ h \in MayDetach
             /\ cgi'[h].todo = {r \in Results : /\ res[r].server = "IN_PROGRESS"
                                                /\ res[r].host = h}
  BY <1>2, <1>6 DEF Detach, cgiIdle
<1>7. ASSUME NEW r \in Results, ReportIgnored(h, r) PROVE cgi'[h] = cgi[h]
  BY <1>7 DEF ReportIgnored
<1>8. cgi[h].op = "idle" /\ UNCHANGED dbVars
  BY DEF CgiRequest, SelectResult, ResendLost, Report, ReportIgnored, Detach
<1>9. CASE \E r \in Results : SelectResult(h, r) \/ ResendLost(h, r)
  BY <1>3, <1>4, <1>8, <1>9
<1>10. CASE \/ Detach(h)
            \/ \E r \in Results : ReportIgnored(h, r) \/ \E ret \in Returns : Report(h, r, ret)
  BY <1>5, <1>6, <1>7, <1>8, <1>10
<1>11. QED
  BY <1>9, <1>10 DEF CgiRequest

\* A request goes on.
LEMMA RequestGoesOn ==
    ASSUME TypeOK, NEW h \in Hosts, CgiStep(h) \/ CgiCrash(h)
    PROVE  \/ cgi'[h].op = "idle"
           \/ /\ SendUpdateWorkunit(h) /\ cgi[h].op = "updateWu" /\ cgi'[h].op = "mark"
              /\ wu.exists /\ HrAllows(h) /\ Keeps(h)
           \/ /\ SendMarkAsSent(h) /\ cgi[h].op = "mark" /\ cgi'[h].op = "replicate"
              /\ res[cgi[h].r].server = cgi[h].old /\ cgi[h].replicate /\ Keeps(h)
           \/ ResendExpire(h) /\ cgi[h].op = "expire" /\ cgi'[h].op = "expireWu" /\ Keeps(h)
           \/ ReportUpdate(h) /\ cgi[h].op = "report" /\ cgi'[h].op = "trigger" /\ Keeps(h)
           \/ /\ \E r \in Results : DetachResult(h, r) /\ cgi'[h].todo = cgi[h].todo \ {r}
              /\ cgi[h].op = "detach" /\ cgi'[h].op = "detachWu"
           \/ DetachTrigger(h) /\ cgi[h].op = "detachWu" /\ cgi'[h].op = "detach" /\ Keeps(h)
<1>1. cgi \in [Hosts -> CgiRecord]
  BY DEF TypeOK, SchedulerTypeOK, CgiRecord, CgiOps
<1>2. CASE SendUpdateWorkunit(h)
  BY <1>2, GotoKeeps DEF SendUpdateWorkunit
<1>3. CASE SendMarkAsSent(h)
  BY <1>3, GotoKeeps DEF SendMarkAsSent
<1>4. CASE ResendExpire(h)
  BY <1>4, GotoKeeps DEF ResendExpire
<1>5. CASE ReportUpdate(h)
  BY <1>5, GotoKeeps DEF ReportUpdate
<1>6. ASSUME NEW r \in Results, DetachResult(h, r)
      PROVE  /\ cgi[h].op = "detach" /\ cgi'[h].op = "detachWu"
             /\ cgi'[h].todo = cgi[h].todo \ {r}
  <2>1. cgi'[h] = [cgi[h] EXCEPT !.op = "detachWu", !.todo = @ \ {r}]
    BY <1>1, <1>6 DEF DetachResult, Become
  <2>2. QED
    BY <1>1, <1>6, <2>1 DEF CgiRecord, DetachResult
<1>7. CASE DetachTrigger(h)
  BY <1>7, GotoKeeps DEF DetachTrigger
<1>8. CASE SendReplicate(h) \/ ResendExpireWorkunit(h) \/ ReportTrigger(h) \/ CgiCrash(h)
  <2>1. Goto(h, "idle")
    BY <1>8 DEF SendReplicate, ResendExpireWorkunit, ReportTrigger, CgiCrash
  <2>2. QED
    BY <2>1, GotoKeeps
<1>9. QED
  BY <1>2, <1>3, <1>4, <1>5, <1>6, <1>7, <1>8 DEF CgiStep

-----------------------------------------------------------------------------
\* One result of a job for each owner.

\* Two requests of one user are not served at the same time: requests are served
\* one by one, or the owner is the host, which its lock protects.
OwnersTakeTurns ==
    "cgi" \in Preemptible => \A h, k \in Hosts : Owner[h] = Owner[k] => h = k

\* Results that clients exchange stay with one user.
MovesWithinOwner == \A h, k \in MayMove : Owner[h] = Owner[k]

\* What the requests know: there is no result yet on a host of the owner that is
\* about to be sent one, and a report is about a result of the same owner.
OwnerSound ==
    /\ OneResultPerOwner
    /\ \A h \in Hosts : cgi[h].op \in {"updateWu", "mark", "expire"} /\ cgi[h].old = "UNSENT" =>
          \A s \in Results : res[s].host # NoHost => Owner[res[s].host] # Owner[h]
    /\ \A h \in Hosts : cgi[h].op = "report" =>
          \/ res[cgi[h].r].server = "PURGED"
          \/ res[cgi[h].r].host # NoHost /\ Owner[res[cgi[h].r].host] = Owner[h]

\* The result stays with its owner, or with nobody.
OwnerKept(r) ==
    /\ res'[r].host = NoHost <=> res[r].host = NoHost
    /\ res[r].host # NoHost => Owner[res'[r].host] = Owner[res[r].host]
    /\ res[r].server = "PURGED" => res'[r].server = "PURGED"

\* Only mark_as_sent() of an unsent result finds it a new owner.
LEMMA OwnerMoves ==
    ASSUME TypeOK, MemoriesAreSafe, [Next]_vars, OwnerSound, NEW r \in Results
    PROVE  \/ res'[r] = PurgedRow
           \/ OwnerKept(r)
           \/ \E h \in Hosts : RowSent(h, r) /\ res[r].server = "UNSENT"
<1>1. NoHost \notin Hosts /\ (res[r].server \in {"NONE", "UNSENT", "PURGED"} => res[r].host = NoHost)
  BY ParamAssumption DEF MemoriesAreSafe, ResultRowsSound
<1>2. CASE RowKept(r) \/ RowByTransitioner(r) \/ RowByValidator(r) \/ RowCancelled(r)
  BY <1>2 DEF RowKept, RowByTransitioner, RowByValidator, RowCancelled, SameReturn, SameVerdict,
     OwnerKept, Exists
<1>3. CASE RowIssued(r)
  BY <1>1, <1>3 DEF RowIssued, NewResult, NoRow, OwnerKept
<1>4. CASE RowPurged(r)
  BY <1>4 DEF RowPurged
<1>5. ASSUME NEW h \in Hosts, RowSent(h, r), res[r].server # "UNSENT" PROVE OwnerKept(r)
  BY <1>1, <1>5 DEF RowSent, OwnerKept
<1>6. ASSUME NEW h \in Hosts, RowReported(h, r) PROVE OwnerKept(r)
  <2>1. res[r].server # "PURGED"
    BY <1>6 DEF RowReported, Exists
  <2>2. res[r].host # NoHost /\ Owner[res[r].host] = Owner[h]
    BY <1>6, <2>1 DEF RowReported, OwnerSound
  <2>3. QED
    BY <1>1, <1>6, <2>1, <2>2 DEF RowReported, OwnerKept
<1>7. ASSUME NEW h \in Hosts, RowDetached(h, r) PROVE OwnerKept(r)
  BY <1>7 DEF RowDetached, OwnerKept, Exists
<1>8. QED
  BY <1>2, <1>3, <1>4, <1>5, <1>6, <1>7, RowSteps DEF RowByCgi

\* The result that is sent goes to an owner who has none.
LEMMA StepKeepsOneResultPerOwner ==
    ASSUME TypeOK, MemoriesAreSafe, [Next]_vars, OwnerSound
    PROVE  OneResultPerOwner'
<1> SUFFICES ASSUME NEW r \in Results, NEW s \in Results, res'[r].host # NoHost,
                    res'[s].host # NoHost, Owner[res'[r].host] = Owner[res'[s].host]
             PROVE  r = s
  BY DEF OneResultPerOwner
<1>1. PurgedRow.host = NoHost /\ NoHost \notin Hosts
  BY ParamAssumption DEF PurgedRow, NoRow
<1>2. ASSUME NEW p \in Results, NEW q \in Results, NEW h \in Hosts,
             RowSent(h, p), res[p].server = "UNSENT", res'[q].host # NoHost,
             Owner[res'[p].host] = Owner[res'[q].host]
      PROVE  p = q
  <2>1. /\ cgi[h].op \in {"mark", "expire"} /\ cgi[h].old = "UNSENT"
        /\ cgi[h].r = p /\ res'[p].host = h
    BY <1>2 DEF RowSent
  <2>2. RowKept(q) \/ RowSent(h, q)
    BY <1>2, SentRow DEF RowSent
  <2>3. CASE RowSent(h, q)
    BY <2>1, <2>3 DEF RowSent
  <2>4. CASE RowKept(q)
    <3>1. res[q].host = res'[q].host
      BY <2>4 DEF RowKept, SameReturn
    <3>2. Owner[res[q].host] # Owner[h]
      BY <1>2, <2>1, <3>1 DEF OwnerSound
    <3>3. QED
      BY <1>2, <2>1, <3>1, <3>2
  <2>5. QED
    BY <2>2, <2>3, <2>4
<1>3. CASE OwnerKept(r) /\ OwnerKept(s)
  BY <1>3 DEF OwnerKept, OwnerSound, OneResultPerOwner
<1>4. QED
  BY <1>1, <1>2, <1>3, OwnerMoves

\* A request goes on knowing that its owner has no result.
LEMMA StepKeepsNoneForOwner ==
    ASSUME TypeOK, MemoriesAreSafe, [Next]_vars, OwnerSound, OwnersTakeTurns, NEW h \in Hosts,
           cgi'[h].op \in {"updateWu", "mark", "expire"}, cgi'[h].old = "UNSENT",
           NEW s \in Results, res'[s].host # NoHost
    PROVE  Owner[res'[s].host] # Owner[h]
<1>1. PurgedRow.host = NoHost /\ \A r \in Results : res[r].server \in {"NONE", "PURGED"} => res[r].host = NoHost
  BY DEF PurgedRow, NoRow, MemoriesAreSafe, ResultRowsSound
<1>2. CASE InCgi(h, CgiNext(h))
  <2>1. CASE CgiRequest(h)
    <3>1. UNCHANGED res /\ SelectResult(h, cgi'[h].r)
      <4>1. cgi[h].op = "idle" /\ UNCHANGED res
        BY <2>1, RequestBegins DEF dbVars
      <4>2. QED
        BY <2>1, <4>1, RequestBegins
    <3>2. s \in Exists(res)
      BY <1>1, <3>1 DEF Exists, TypeOK, DbTypeOK
    <3>3. QED
      BY <3>1, <3>2 DEF SelectResult
  <2>2. CASE CgiStep(h) \/ CgiCrash(h)
    <3>1. SendUpdateWorkunit(h) /\ cgi[h].op = "updateWu" /\ Keeps(h)
      BY <2>2, RequestGoesOn
    <3>2. UNCHANGED res /\ cgi[h].old = "UNSENT"
      BY <3>1 DEF SendUpdateWorkunit, Keeps
    <3>3. QED
      BY <3>1, <3>2 DEF OwnerSound
  <2>3. QED
    BY <1>2, <2>1, <2>2 DEF InCgi, CgiNext
<1>3. CASE ~InCgi(h, CgiNext(h))
  <2>1. cgi[h].op \in {"updateWu", "mark", "expire"} /\ cgi[h].old = "UNSENT"
    BY <1>3, MemoryOwners
  <2>2. res[s].host # NoHost => Owner[res[s].host] # Owner[h]
    BY <2>1 DEF OwnerSound
  <2>3. CASE OwnerKept(s)
    BY <2>2, <2>3 DEF OwnerKept
  <2>4. ASSUME NEW k \in Hosts, RowSent(k, s), res[s].server = "UNSENT"
        PROVE  Owner[res'[s].host] # Owner[h]
    <3>1. k # h
      BY <1>3, <2>4 DEF RowSent, InCgi, CgiNext, CgiStep
    <3>2. CASE "cgi" \in Preemptible
      BY <2>4, <3>1, <3>2 DEF RowSent, OwnersTakeTurns
    <3>3. CASE "cgi" \notin Preemptible
      <4>1. TimeOnly
        BY <1>3, <2>1, <3>3, RequestWaits
      <4>2. res'[s].host = res[s].host
        BY <4>1 DEF TimeOnly, RowKept, SameReturn
      <4>3. QED
        BY <2>2, <4>2
    <3>4. QED
      BY <3>2, <3>3
  <2>5. QED
    BY <1>1, <2>3, <2>4, OwnerMoves
<1>4. QED
  BY <1>2, <1>3

\* A report goes on being about a result of its owner.
LEMMA StepKeepsReportsOwned ==
    ASSUME TypeOK, MemoriesAreSafe, [Next]_vars, OwnerSound, MovesWithinOwner, NEW h \in Hosts,
           cgi'[h].op = "report"
    PROVE  \/ res'[cgi'[h].r].server = "PURGED"
           \/ res'[cgi'[h].r].host # NoHost /\ Owner[res'[cgi'[h].r].host] = Owner[h]
<1>1. PurgedRow.server = "PURGED" /\ NoHost \notin Hosts /\ MayMove \subseteq Hosts
  BY ParamAssumption, SchedulerAssumption DEF PurgedRow, NoRow
<1>2. CASE InCgi(h, CgiNext(h))
  <2>1. CASE CgiRequest(h)
    <3>1. UNCHANGED res /\ MayReport(h, cgi'[h].r)
      <4>1. cgi[h].op = "idle" /\ UNCHANGED res
        BY <2>1, RequestBegins DEF dbVars
      <4>2. QED
        BY <2>1, <4>1, RequestBegins
    <3>2. QED
      BY <1>1, <3>1 DEF MayReport, MovesWithinOwner
  <2>2. CASE CgiStep(h) \/ CgiCrash(h)
    BY <2>2, RequestGoesOn
  <2>3. QED
    BY <1>2, <2>1, <2>2 DEF InCgi, CgiNext
<1>3. CASE ~InCgi(h, CgiNext(h))
  <2>1. cgi'[h] = cgi[h]
    BY <1>3, MemoryOwners
  <2> DEFINE r == cgi[h].r
  <2>2. r \in Results
    BY <2>1 DEF TypeOK, SchedulerTypeOK
  <2>3. res[r].server = "PURGED" \/ (res[r].host # NoHost /\ Owner[res[r].host] = Owner[h])
    BY <2>1 DEF OwnerSound
  <2>4. res[r].server = "UNSENT" => res[r].host = NoHost
    BY <2>2 DEF MemoriesAreSafe, ResultRowsSound
  <2> HIDE DEF r
  <2>5. OwnerKept(r) \/ res'[r] = PurgedRow
    BY <2>2, <2>3, <2>4, OwnerMoves
  <2>6. res'[r].server = "PURGED" \/ (res'[r].host # NoHost /\ Owner[res'[r].host] = Owner[h])
    BY <1>1, <2>3, <2>5 DEF OwnerKept
  <2>7. QED
    BY <2>1, <2>6 DEF r
<1>4. QED
  BY <1>2, <1>3

\* Nobody can vouch for his own result, whatever the schedule of the daemons: no
\* owner is given a second result of a job, not even one that another computer
\* of his reports for him (OneResultPerOwner).
THEOREM OwnersComputeOne ==
    ASSUME OwnersTakeTurns, MovesWithinOwner
    PROVE  Spec => []OneResultPerOwner
<1>1. Init => OwnerSound
  BY DEF Init, DbInit, NoRow, SchedulerInit, cgiIdle, OwnerSound, OneResultPerOwner
<1>2. TypeOK /\ MemoriesAreSafe /\ OwnerSound /\ [Next]_vars => OwnerSound'
  BY StepKeepsOneResultPerOwner, StepKeepsNoneForOwner, StepKeepsReportsOwned DEF OwnerSound
<1>3. Spec => []OwnerSound
  BY <1>1, <1>2, TypeCorrect, StaleMemoriesAreSafe, PTL DEF Spec
<1>4. OwnerSound => OneResultPerOwner
  BY DEF OwnerSound
<1>5. QED
  BY <1>3, <1>4, PTL

-----------------------------------------------------------------------------
\* What the daemons' copies of the rows go through.

\* handle_wu() of the transitioner makes row b of row a: it times the result out,
\* does not need it any more, or gives up on validating it.
TransitionerJudges(a, b) ==
    /\ SameReturn(b, a)
    /\ \/ SameVerdict(b, a)
       \/ a.server = "IN_PROGRESS" /\ b.server = "OVER" /\ b.outcome = "NO_REPLY"
          /\ b.validate = a.validate
       \/ a.server = "UNSENT" /\ b.server = "OVER" /\ b.outcome = "DIDNT_NEED"
          /\ b.validate = a.validate
       \/ Success(a) /\ Success(b) /\ a.validate \in {"INIT", "INCONCLUSIVE"}
          /\ b.validate \in {"TOO_LATE", "NO_CHECK"}

\* handle_wu() of the validator: the result is not needed, or gets a verdict.
ValidatorJudges(a, b) ==
    /\ SameReturn(b, a)
    /\ \/ SameVerdict(b, a)
       \/ a.server = "UNSENT" /\ b.server = "OVER" /\ b.outcome = "DIDNT_NEED"
          /\ b.validate = a.validate
       \/ Success(a) /\ a.validate # "INVALID" /\ b.server = "OVER"
          /\ \/ b.outcome = "VALIDATE_ERROR" /\ b.validate = "INVALID"
             \/ b.outcome = "SUCCESS" /\ b.validate \in {"VALID", "INVALID", "INCONCLUSIVE"}

\* The three scans of the transitioner.
LEMMA RulesJudge ==
    ASSUME NEW S \in Rows, NEW w, NEW r \in Results
    PROVE  /\ TransitionerJudges(S[r], Scanned(w, S)[r])
           /\ TransitionerJudges(S[r], GivenUp(S)[r])
           /\ TransitionerJudges(S[r], Released(w, S)[r])
<1>1. DOMAIN S = Results /\ S[r] \in ResultRow
  BY DEF Rows
<1>2. TransitionerJudges(S[r], Scanned(w, S)[r])
  <2>1. Scanned(w, S)[r] =
           IF S[r].server = "IN_PROGRESS" /\ S[r].late
             THEN [S[r] EXCEPT !.server = "OVER", !.outcome = "NO_REPLY"]
           ELSE IF r \in Unvalidated(S) /\ CanonicalFilesDeleted(w, S)
             THEN [S[r] EXCEPT !.validate = "TOO_LATE"]
           ELSE S[r]
    BY <1>1 DEF Scanned
  <2>2. r \in Unvalidated(S) => Success(S[r]) /\ S[r].validate = "INIT"
    BY DEF Unvalidated, Over, Success
  <2>3. QED
    BY <1>1, <2>1, <2>2 DEF TransitionerJudges, SameReturn, SameVerdict, Success, ResultRow
<1>3. TransitionerJudges(S[r], GivenUp(S)[r])
  <2>1. GivenUp(S)[r] =
           IF r \in Unsent(S)
             THEN [S[r] EXCEPT !.server = "OVER", !.outcome = "DIDNT_NEED"]
           ELSE IF r \in Over(S, {"SUCCESS"}) /\ S[r].validate \in {"INIT", "INCONCLUSIVE"}
             THEN [S[r] EXCEPT !.validate = "NO_CHECK"]
           ELSE S[r]
    BY <1>1 DEF GivenUp
  <2>2. /\ r \in Unsent(S) => S[r].server = "UNSENT"
        /\ r \in Over(S, {"SUCCESS"}) => Success(S[r])
    BY DEF Unsent, Over, Success
  <2>3. QED
    BY <1>1, <2>1, <2>2 DEF TransitionerJudges, SameReturn, SameVerdict, Success, ResultRow
<1>4. TransitionerJudges(S[r], Released(w, S)[r])
  <2>1. PICK f : Released(w, S)[r] = S[r] \/ Released(w, S)[r] = [S[r] EXCEPT !.fds = f]
    BY <1>1 DEF Released
  <2>2. QED
    BY <1>1, <2>1 DEF TransitionerJudges, SameReturn, SameVerdict, ResultRow
<1>5. QED
  BY <1>2, <1>3, <1>4

\* The copy that a pass of the transitioner works on.
LEMMA TransitionerCopy ==
    ASSUME TypeOK, TransitionerNext, tr'.pc # "idle", NEW r \in Results
    PROVE  \/ /\ TransitionerEnumerate /\ tr'.pc = "scan" /\ tr'.old = wu /\ tr'.wu = wu
              /\ TransitionerJudges(res[r], tr'.res[r])
           \/ /\ tr.pc # "idle" /\ tr'.old = tr.old
              /\ TransitionerJudges(tr.res[r], tr'.res[r])
              /\ \/ TransitionerDecide /\ tr'.pc = "decide" /\ tr'.wu = Decided(tr.wu, tr.res)
                 \/ TransitionerRelease /\ tr.pc = "decide" /\ tr'.pc = "release"
                    /\ \E release, deferred \in BOOLEAN :
                          tr'.wu = Finished(tr.wu, tr.res, release, deferred)
                 \/ \E q \in Results : /\ TransitionerUpdateResult(q) /\ tr'.pc = tr.pc
                                       /\ tr'.wu = tr.wu /\ tr'.res = tr.res
<1>1. tr.pc # "idle" => tr \in TransitionerMemory /\ tr.res \in Rows
  BY DEF TypeOK, TransitionerTypeOK, TransitionerMemory, Rows
<1>2. res \in Rows
  BY DEF TypeOK, DbTypeOK, Rows
<1>3. \A a : TransitionerJudges(a, a)
  BY DEF TransitionerJudges, SameReturn, SameVerdict
<1>4. CASE TransitionerEnumerate
  <2>1. tr'.pc = "scan" /\ tr'.old = wu /\ tr'.wu = wu /\ tr'.res = Scanned(wu, res)
    BY <1>4 DEF TransitionerEnumerate
  <2>2. QED
    BY <1>2, <1>4, <2>1, RulesJudge
<1>5. ASSUME NEW q \in Results, TransitionerUpdateResult(q)
      PROVE  /\ tr.pc # "idle" /\ tr'.pc = tr.pc /\ tr'.old = tr.old /\ tr'.wu = tr.wu
             /\ tr'.res = tr.res
  BY <1>1, <1>5 DEF TransitionerUpdateResult, TransitionerMemory
<1>6. CASE TransitionerDecide
  <2> DEFINE mem == IF Decided(tr.wu, tr.res).error # {} THEN GivenUp(tr.res) ELSE tr.res
  <2>1. /\ tr.pc = "scan" /\ tr'.pc = "decide" /\ tr'.old = tr.old
        /\ tr'.wu = Decided(tr.wu, tr.res) /\ tr'.res = mem
    BY <1>1, <1>6 DEF TransitionerDecide, TransitionerMemory
  <2>2. TransitionerJudges(tr.res[r], mem[r])
    BY <1>1, <1>3, <2>1, RulesJudge
  <2>3. QED
    BY <1>6, <2>1, <2>2
<1>7. CASE TransitionerRelease
  <2>1. PICK settled \in BOOLEAN :
          LET done == tr.wu.assimilate = "DONE"
              mem == IF done /\ settled THEN Released(tr.wu, tr.res) ELSE tr.res
          IN  tr' = [tr EXCEPT !.pc = "release", !.res = mem,
                         !.wu = Finished(tr.wu, tr.res, done /\ settled, done /\ ~settled),
                         !.todo = {q \in Results : mem[q] # tr.res[q]}]
    BY <1>7 DEF TransitionerRelease
  <2> DEFINE release == tr.wu.assimilate = "DONE" /\ settled
             deferred == tr.wu.assimilate = "DONE" /\ ~settled
             mem == IF release THEN Released(tr.wu, tr.res) ELSE tr.res
  <2>2. /\ tr.pc = "decide" /\ tr'.pc = "release" /\ tr'.old = tr.old
        /\ tr'.wu = Finished(tr.wu, tr.res, release, deferred) /\ tr'.res = mem
    BY <1>1, <1>7, <2>1 DEF TransitionerRelease, TransitionerMemory
  <2>3. TransitionerJudges(tr.res[r], mem[r])
    BY <1>1, <1>3, <2>2, RulesJudge
  <2>4. release \in BOOLEAN /\ deferred \in BOOLEAN
    OBVIOUS
  <2> HIDE DEF release, deferred
  <2>5. QED
    BY <1>7, <2>2, <2>3, <2>4
<1>8. CASE TransitionerUpdateWorkunit \/ TransitionerCrash
  BY <1>8 DEF TransitionerUpdateWorkunit, TransitionerCrash, transitionerIdle
<1>9. QED
  BY <1>3, <1>4, <1>5, <1>6, <1>7, <1>8 DEF TransitionerNext, TransitionerStep

\* check_set() and check_pair(), row by row.
LEMMA ChecksJudge ==
    ASSUME NEW S \in Rows, NEW r \in Results, NEW flaky, NEW c
    PROVE  LET viable == Viable(S)
               good == {q \in viable \ flaky : Readable(S, q)}
               mem == Inconclusive(CheckSet(S, viable, flaky, c), viable)
           IN  /\ ValidatorJudges(S[r], mem[r])
               /\ mem[r] # S[r] => r \in viable
               /\ mem[r].validate = "VALID" =>
                     \/ c # 0 /\ r \in Matching(S, good, c)
                     \/ S[r].validate = "VALID" /\ (r \in flaky \/ ~Success(S[r]) \/ c = 0)
               /\ c # 0 /\ r \in Matching(S, good, c) => mem[r].validate = "VALID"
<1> DEFINE viable == Viable(S)
           good == {q \in viable \ flaky : Readable(S, q)}
           T == CheckSet(S, viable, flaky, c)
           mem == Inconclusive(T, viable)
<1>1. DOMAIN S = Results /\ S[r] \in ResultRow
  BY DEF Rows
<1>2. DOMAIN T = Results /\ T[r] =
         IF r \in (viable \ flaky) \ good
           THEN [S[r] EXCEPT !.outcome = "VALIDATE_ERROR", !.validate = "INVALID"]
         ELSE IF r \in good /\ c # 0
           THEN [S[r] EXCEPT !.validate = IF r \in Matching(S, good, c)
                                          THEN "VALID" ELSE "INVALID"]
         ELSE S[r]
  BY <1>1 DEF CheckSet
<1>3. mem[r] = IF r \in viable /\ T[r].validate = "INIT"
               THEN [T[r] EXCEPT !.validate = "INCONCLUSIVE"] ELSE T[r]
  BY <1>2 DEF Inconclusive
<1>4. /\ r \in viable => Success(S[r]) /\ S[r].validate # "INVALID"
      /\ Success(S[r]) /\ S[r].validate # "INVALID" => r \in viable
      /\ good \subseteq viable \ flaky
  BY <1>1 DEF Viable
<1>5. r \in Matching(S, good, c) => r \in good
  BY DEF Matching
<1> HIDE DEF viable, good, mem, T
<1>6. CASE r \in (viable \ flaky) \ good
  <2>1. mem[r] = [S[r] EXCEPT !.outcome = "VALIDATE_ERROR", !.validate = "INVALID"]
    BY <1>1, <1>2, <1>3, <1>6 DEF ResultRow
  <2>2. /\ SameReturn(mem[r], S[r]) /\ mem[r].server = S[r].server
        /\ mem[r].outcome = "VALIDATE_ERROR" /\ mem[r].validate = "INVALID"
    BY <1>1, <2>1 DEF ResultRow, SameReturn
  <2>3. QED
    BY <1>4, <1>5, <1>6, <2>2 DEF ValidatorJudges, Success, viable, good, mem, T
<1>7. CASE r \in good /\ c # 0
  <2>1. PICK v \in {"VALID", "INVALID"} :
           /\ mem[r] = [S[r] EXCEPT !.validate = v]
           /\ v = IF r \in Matching(S, good, c) THEN "VALID" ELSE "INVALID"
    BY <1>1, <1>2, <1>3, <1>7 DEF ResultRow
  <2>2. /\ SameReturn(mem[r], S[r]) /\ mem[r].server = S[r].server
        /\ mem[r].outcome = S[r].outcome /\ mem[r].validate = v
    BY <1>1, <2>1 DEF ResultRow, SameReturn
  <2>3. QED
    BY <1>4, <1>5, <1>7, <2>1, <2>2 DEF ValidatorJudges, Success, viable, good, mem, T
<1>8. CASE r \notin (viable \ flaky) \ good /\ ~(r \in good /\ c # 0)
  <2>1. T[r] = S[r]
    BY <1>2, <1>8
  <2>2. CASE r \in viable /\ S[r].validate = "INIT"
    <3>1. mem[r] = [S[r] EXCEPT !.validate = "INCONCLUSIVE"]
      BY <1>3, <2>1, <2>2
    <3>2. /\ SameReturn(mem[r], S[r]) /\ mem[r].server = S[r].server
          /\ mem[r].outcome = S[r].outcome /\ mem[r].validate = "INCONCLUSIVE"
      BY <1>1, <3>1 DEF ResultRow, SameReturn
    <3>3. QED
      BY <1>4, <1>5, <1>8, <2>2, <3>2 DEF ValidatorJudges, Success, viable, good, mem, T
  <2>3. CASE ~(r \in viable /\ S[r].validate = "INIT")
    <3>1. mem[r] = S[r]
      BY <1>3, <2>1, <2>3
    <3>2. SameReturn(mem[r], S[r]) /\ SameVerdict(mem[r], S[r])
      BY <3>1 DEF SameReturn, SameVerdict
    <3>3. S[r].validate = "VALID" => r \in flaky \/ ~Success(S[r]) \/ c = 0
      BY <1>4, <1>8
    <3>4. QED
      BY <1>5, <1>8, <3>1, <3>2, <3>3 DEF ValidatorJudges, viable, good, mem, T
  <2>4. QED
    BY <2>2, <2>3
<1>9. QED
  BY <1>6, <1>7, <1>8

\* A pass over a job without canonical result: what check_set() elects, and what
\* it says of the others.
LEMMA CheckSetCopy ==
    ASSUME TypeOK, NEW flaky, NEW c \in Results \cup {0}, ValidatorCheckSet(flaky, c),
           NEW r \in Results
    PROVE  LET good == {q \in Viable(va.res) \ flaky : Readable(va.res, q)}
           IN  /\ ValidatorJudges(va.res[r], va'.res[r])
               /\ r \notin va'.todo => SameVerdict(va'.res[r], va.res[r])
               /\ r \in va'.todo =>
                     /\ va.res[r].server \in {"UNSENT", "OVER"}
                     /\ va'.res[r].outcome \in {"SUCCESS", "VALIDATE_ERROR", "DIDNT_NEED"}
               /\ va'.granted = va.granted /\ va'.wu.quorum = va.wu.quorum
               /\ va'.res[r].validate = "VALID" =>
                     \/ c # 0 /\ r \in Matching(va.res, good, c)
                     \/ va.res[r].validate = "VALID"
                        /\ (r \in flaky \/ ~Success(va.res[r]) \/ c = 0)
               /\ c # 0 /\ r \in Matching(va.res, good, c) => va'.res[r].validate = "VALID"
               /\ c # 0 => c \in good /\ c \in Candidates(va.wu, va.res, good)
<1>1. va \in ValidatorMemory /\ va.res \in Rows
  BY DEF TypeOK, ValidatorTypeOK, ValidatorMemory, ValidatorCheckSet, Rows
<1> DEFINE viable == Viable(va.res)
           good == {q \in viable \ flaky : Readable(va.res, q)}
           mem == Inconclusive(CheckSet(va.res, viable, flaky, c), viable)
           unneeded == {q \in Results : c # 0 /\ va.res[q].server = "UNSENT"}
           rows == [q \in Results |-> IF q \in unneeded
                      THEN [mem[q] EXCEPT !.server = "OVER", !.outcome = "DIDNT_NEED"]
                      ELSE mem[q]]
           todo == unneeded \cup {q \in viable : mem[q] # va.res[q] \/ mem[q].validate = "VALID"}
           v == [va EXCEPT !.leave = TRUE, !.when = IF flaky = {} THEN @ ELSE "DELAYED",
                           !.res = rows, !.todo = todo]
<1>2. c # 0 => c \in Candidates(va.wu, va.res, good)
  BY DEF ValidatorCheckSet, good, viable
<1>3. va' = IF c # 0 THEN Elected(v, c) ELSE NotElected(v, viable)
  BY DEF ValidatorCheckSet, mem, viable
<1>4. /\ v \in [pc : {"open"}, wu : WorkunitRow, res : {rows}, todo : {todo},
                granted : {va.granted}, leave : BOOLEAN,
                when : {"NO_CHANGE", "IMMEDIATE", "DELAYED", "NEVER"}]
      /\ v.wu = va.wu
  <2> HIDE DEF rows, todo
  <2>1. QED
    BY <1>1 DEF ValidatorMemory
<1>5. /\ va'.res = rows /\ va'.todo = todo /\ va'.granted = va.granted
      /\ va'.wu.quorum = va.wu.quorum
  <2> HIDE DEF v, rows, todo
  <2>1. CASE c # 0
    <3>1. va' = [v EXCEPT !.wu.canonical = c, !.wu.assimilate = "READY", !.when = "NEVER"]
      BY <1>3, <2>1 DEF Elected
    <3>2. QED
      BY <1>4, <3>1 DEF WorkunitRow
  <2>2. CASE c = 0
    <3>1. PICK e, n, w : va' = [v EXCEPT !.wu.error = e, !.wu.target = n, !.when = w]
      BY <1>3, <2>2 DEF NotElected
    <3>2. QED
      BY <1>4, <3>1 DEF WorkunitRow
  <2>3. QED
    BY <2>1, <2>2
<1>6. /\ ValidatorJudges(va.res[r], mem[r])
      /\ mem[r] # va.res[r] => r \in viable
      /\ mem[r].validate = "VALID" =>
            \/ c # 0 /\ r \in Matching(va.res, good, c)
            \/ va.res[r].validate = "VALID" /\ (r \in flaky \/ ~Success(va.res[r]) \/ c = 0)
      /\ c # 0 /\ r \in Matching(va.res, good, c) => mem[r].validate = "VALID"
  BY <1>1, ChecksJudge
<1>7. r \in viable => Success(va.res[r]) /\ va.res[r].server = "OVER"
  BY DEF Viable, Success
<1>8. c # 0 => c \in good
  BY <1>2 DEF Candidates
<1>9. /\ r \in Results /\ va.res[r] \in ResultRow
      /\ r \in unneeded => c # 0 /\ va.res[r].server = "UNSENT"
      /\ r \in todo => r \in unneeded \/ r \in viable
      /\ r \notin todo => r \notin unneeded /\ (r \notin viable \/ mem[r] = va.res[r])
      /\ rows[r] = IF r \in unneeded
                   THEN [mem[r] EXCEPT !.server = "OVER", !.outcome = "DIDNT_NEED"] ELSE mem[r]
  <2> HIDE DEF mem, viable
  <2>1. QED
    BY <1>1 DEF Rows
<1> HIDE DEF rows, todo, mem, unneeded, viable, v
<1>10. CASE r \in unneeded
  <2>1. r \notin viable /\ mem[r] = va.res[r]
    BY <1>6, <1>7, <1>9, <1>10
  <2>2. rows[r] = [va.res[r] EXCEPT !.server = "OVER", !.outcome = "DIDNT_NEED"]
    BY <1>9, <1>10, <2>1
  <2>3. /\ SameReturn(rows[r], va.res[r]) /\ rows[r].server = "OVER"
        /\ rows[r].outcome = "DIDNT_NEED" /\ rows[r].validate = va.res[r].validate
    BY <1>9, <2>2 DEF ResultRow, SameReturn
  <2>4. ValidatorJudges(va.res[r], rows[r])
    BY <1>9, <1>10, <2>3 DEF ValidatorJudges
  <2>5. r \in todo
    BY <1>9, <1>10
  <2>6. QED
    BY <1>2, <1>5, <1>6, <1>8, <1>9, <1>10, <2>1, <2>3, <2>4, <2>5 DEF viable
<1>11. CASE r \notin unneeded
  <2>1. rows[r] = mem[r]
    BY <1>9, <1>11
  <2>2. r \notin todo => rows[r] = va.res[r]
    BY <1>6, <1>9, <2>1
  <2>3. r \notin todo => SameVerdict(rows[r], va.res[r])
    BY <2>2 DEF SameVerdict
  <2>4. r \in todo => /\ va.res[r].server = "OVER"
                      /\ mem[r].outcome \in {"SUCCESS", "VALIDATE_ERROR", "DIDNT_NEED"}
    BY <1>6, <1>7, <1>9, <1>11 DEF ValidatorJudges, SameVerdict, Success
  <2>5. QED
    BY <1>2, <1>5, <1>6, <1>8, <2>1, <2>3, <2>4 DEF viable
<1>12. QED
  BY <1>10, <1>11

\* check_pair() for one result of a job with a canonical result.
LEMMA CheckPairCopy ==
    ASSUME TypeOK, NEW q \in Results, ValidatorCheckPair(q), NEW r \in Results
    PROVE  /\ ValidatorJudges(va.res[r], va'.res[r])
           /\ va.res[q].validate \in {"INIT", "INCONCLUSIVE"} /\ Success(va.res[q])
           /\ r # q => va'.res[r] = va.res[r]
           /\ va'.todo = {q} /\ va.todo = {} /\ va'.granted = va.granted /\ va'.leave = va.leave
           /\ va'.wu = va.wu /\ va.wu.canonical # 0 /\ CanonicalKnown
           /\ r = q /\ va'.res[r].validate = "VALID" =>
                 /\ va.res[r].out = va.res[va.wu.canonical].out
                 /\ Readable(va.res, va.wu.canonical)
<1>1. va \in ValidatorMemory /\ va.res \in Rows
  BY DEF TypeOK, ValidatorTypeOK, ValidatorMemory, ValidatorCheckPair, Rows
<1> DEFINE c == va.wu.canonical
           row == CheckPair(va.res, q, c)
<1>2. /\ va' = [va EXCEPT !.res[q] = row, !.todo = {q}, !.when = "IMMEDIATE"]
      /\ va.todo = {} /\ q \in Unchecked(va.res) /\ c # 0 /\ CanonicalKnown
  BY DEF ValidatorCheckPair
<1>3. /\ Success(va.res[q]) /\ va.res[q].validate \in {"INIT", "INCONCLUSIVE"}
      /\ va.res[q] \in ResultRow
  BY <1>1, <1>2 DEF Unchecked, Rows
<1>4. /\ ValidatorJudges(va.res[q], row)
      /\ row.validate = "VALID" => va.res[q].out = va.res[c].out /\ Readable(va.res, c)
  <2>1. CASE ~Readable(va.res, q) \/ ~Readable(va.res, c)
    <3>1. row = [va.res[q] EXCEPT !.outcome = "VALIDATE_ERROR", !.validate = "INVALID"]
      BY <2>1 DEF CheckPair
    <3> HIDE DEF row
    <3>2. QED
      BY <1>3, <3>1 DEF ValidatorJudges, SameReturn, Success, ResultRow
  <2>2. CASE Readable(va.res, q) /\ Readable(va.res, c)
    <3>1. row = [va.res[q] EXCEPT !.validate = IF va.res[q].out = va.res[c].out THEN "VALID"
                                               ELSE "INVALID"]
      BY <2>2 DEF CheckPair
    <3> HIDE DEF row
    <3>2. QED
      BY <1>3, <2>2, <3>1 DEF ValidatorJudges, SameReturn, Success, ResultRow
  <2>3. QED
    BY <2>1, <2>2
<1> HIDE DEF row
<1>5. /\ va'.res = [va.res EXCEPT ![q] = row] /\ va'.todo = {q} /\ va'.granted = va.granted
      /\ va'.leave = va.leave /\ va'.wu = va.wu
  BY <1>1, <1>2 DEF ValidatorMemory
<1>6. \A a : ValidatorJudges(a, a)
  BY DEF ValidatorJudges, SameReturn, SameVerdict
<1>7. QED
  BY <1>1, <1>2, <1>3, <1>4, <1>5, <1>6 DEF Rows

\* The other steps of a pass.
LEMMA PassCopy ==
    ASSUME TypeOK, ValidatorNext, va'.pc = "open", ~ValidatorEnumerate,
           ~\E q \in Results : ValidatorCheckPair(q),
           ~\E flaky : \E c \in Results \cup {0} : ValidatorCheckSet(flaky, c)
    PROVE  /\ va.pc = "open" /\ va'.res = va.res /\ va'.wu = va.wu
           /\ \/ /\ \E q \in Results : ValidatorUpdateResult(q) /\ va'.todo = va.todo \ {q}
                 /\ va'.granted = 0 /\ va'.leave = va.leave
              \/ /\ \E q \in Results : ValidatorGrantCredit(q) /\ va'.granted = q
                 /\ va'.todo = va.todo /\ va'.leave = va.leave
              \/ /\ va'.todo = va.todo /\ va'.granted = va.granted /\ va'.leave
                 /\ UNCHANGED <<res, credit>>
                 /\ va.wu.canonical = 0 \/ CanonicalKnown
<1>1. va.pc = "open" => va \in ValidatorMemory
  BY DEF TypeOK, ValidatorTypeOK, ValidatorMemory, Rows
<1>2. ASSUME NEW q \in Results, ValidatorUpdateResult(q)
      PROVE  /\ va.pc = "open" /\ va'.res = va.res /\ va'.wu = va.wu
             /\ va'.todo = va.todo \ {q} /\ va'.granted = 0 /\ va'.leave = va.leave
  BY <1>1, <1>2 DEF ValidatorUpdateResult, ValidatorMemory
<1>3. ASSUME NEW q \in Results, ValidatorGrantCredit(q)
      PROVE  /\ va.pc = "open" /\ va'.res = va.res /\ va'.wu = va.wu
             /\ va'.todo = va.todo /\ va'.granted = q /\ va'.leave = va.leave
  BY <1>1, <1>3 DEF ValidatorGrantCredit, ValidatorMemory
<1>4. CASE ValidatorNoQuorum \/ ValidatorCheckedAll \/ ValidatorCreditError \/ ValidatorRetryPair
  BY <1>1, <1>4 DEF ValidatorNoQuorum, ValidatorCheckedAll, ValidatorCreditError,
     ValidatorRetryPair, ValidatorMemory, dbVars
<1>5. CASE ValidatorNoCanonicalRow \/ ValidatorUpdateWorkunit \/ ValidatorCrash
  BY <1>5 DEF ValidatorNoCanonicalRow, ValidatorUpdateWorkunit, ValidatorCrash, validatorIdle
<1>6. QED
  BY <1>2, <1>3, <1>4, <1>5 DEF ValidatorNext, ValidatorStep, ValidatorFlakyCheckSet

-----------------------------------------------------------------------------
\* Homogeneous redundancy: the class of a job is the class of its results.

\* Results whose class binds the job: in progress, a success that may be
\* compared, or given up on but perhaps still computed.
LiveRow(row) ==
    \/ row.server = "IN_PROGRESS"
    \/ row.server = "OVER" /\ row.outcome \in {"NO_REPLY", "CLIENT_DETACHED"}
    \/ row.server = "OVER" /\ row.outcome = "SUCCESS" /\ row.validate # "INVALID"
GoodRow(row) == row.server = "OVER" /\ row.outcome = "SUCCESS" /\ row.validate # "INVALID"

LiveRowsInClass ==
    \A r \in Results : LiveRow(res[r]) => res[r].host \in Hosts /\ HostClass[res[r].host] = wu.hr

\* A request that sends has claimed the class; one that ends a result has found
\* the result live.
RequestInClass(h) ==
    /\ cgi[h].op = "mark" => wu.hr = HostClass[h]
    /\ cgi[h].op = "expire" => cgi[h].old = "IN_PROGRESS"
    /\ cgi[h].op = "report" =>
          /\ LiveRow(res[cgi[h].r]) /\ ~GoodRow(res[cgi[h].r])
          /\ MayReport(h, cgi[h].r)
    /\ cgi[h].op \in {"detach", "detachWu"} =>
          \A r \in cgi[h].todo : res[r].server = "IN_PROGRESS"

\* The transitioner resets the class only of a job without live results.
TransitionerInClass ==
    tr.pc # "idle" =>
        /\ \A r \in Results : LiveRow(tr.res[r]) <=> LiveRow(res[r])
        /\ \A r \in Results : GoodRow(tr.res[r]) <=> GoodRow(res[r])
        /\ tr.old.hr = wu.hr
        /\ \/ tr.wu.hr = wu.hr
           \/ tr.pc # "scan" /\ tr.wu.hr = 0 /\ \A r \in Results : ~LiveRow(res[r])

\* The validator revives no result.
ValidatorInClass ==
    va.pc = "open" =>
        /\ \A r \in Results : GoodRow(va.res[r]) => GoodRow(res[r]) \/ res[r].server = "PURGED"
        /\ \A r \in va.todo : va.res[r].outcome \in {"SUCCESS", "VALIDATE_ERROR", "DIDNT_NEED"}

HrSound ==
    /\ LiveRowsInClass /\ TransitionerInClass /\ ValidatorInClass
    /\ \A h \in Hosts : RequestInClass(h)

\* A job with homogeneous redundancy, whose class neither the transitioner nor
\* another request can change between the statements of a request.
HrInUse ==
    /\ \A h \in Hosts : UsesHr(h)
    /\ \A h, k \in MayMove : HostClass[h] = HostClass[k]
    /\ {"transitioner", "cgi"} \cap Preemptible = {}

LEMMA LiveByVerdict ==
    ASSUME NEW a, NEW b, SameVerdict(a, b)
    PROVE  (LiveRow(a) <=> LiveRow(b)) /\ (GoodRow(a) <=> GoodRow(b))
BY DEF SameVerdict, LiveRow, GoodRow

LEMMA JudgedLive ==
    ASSUME NEW a, NEW b
    PROVE  /\ TransitionerJudges(a, b) =>
                 (LiveRow(a) <=> LiveRow(b)) /\ (GoodRow(a) <=> GoodRow(b))
           /\ ValidatorJudges(a, b) =>
                 /\ GoodRow(b) => GoodRow(a)
                 /\ \/ SameVerdict(b, a)
                    \/ b.outcome \in {"SUCCESS", "VALIDATE_ERROR", "DIDNT_NEED"}
<1>1. TransitionerJudges(a, b) => (LiveRow(a) <=> LiveRow(b)) /\ (GoodRow(a) <=> GoodRow(b))
  BY DEF TransitionerJudges, SameVerdict, LiveRow, GoodRow, Success
<1>2. ValidatorJudges(a, b) =>
          /\ GoodRow(b) => GoodRow(a)
          /\ SameVerdict(b, a) \/ b.outcome \in {"SUCCESS", "VALIDATE_ERROR", "DIDNT_NEED"}
  BY DEF ValidatorJudges, SameVerdict, GoodRow, Success
<1>3. QED
  BY <1>1, <1>2

\* handle_wu() resets the class only if no result binds the job to it.
LEMMA ClassRules ==
    ASSUME NEW w \in WorkunitRow, NEW S \in Rows
    PROVE  /\ \/ Decided(w, S).hr = w.hr
              \/ Decided(w, S).hr = 0 /\ \A r \in Results : ~LiveRow(S[r])
           /\ \A release, deferred : Finished(w, S, release, deferred).hr = w.hr
<1>1. \/ Decided(w, S).hr = w.hr
      \/ Decided(w, S).hr = 0 /\ Successes(S) \cup InProgress(S) \cup NoReplies(S) = {}
  <2> DEFINE e == w.error
                  \cup (IF Cardinality(Errors(S)) > MaxErrorResults THEN {"TOO_MANY_ERROR"} ELSE {})
                  \cup (IF TooManyTotal(w, S) THEN {"TOO_MANY_TOTAL"} ELSE {})
             v == w.needValidate \/ (Unvalidated(S) # {} /\ Cardinality(Successes(S)) >= w.quorum)
             h == IF /\ Errors(S) # {}
                     /\ Successes(S) \cup InProgress(S) \cup NoReplies(S) = {}
                     /\ ~HrClassStatic
                  THEN 0 ELSE w.hr
             d == [w EXCEPT !.needValidate = v, !.hr = h, !.error = e,
                            !.assimilate = IF e # {} /\ @ = "INIT" THEN "READY" ELSE @]
  <2>1. Decided(w, S) = d
    BY DEF Decided
  <2>2. h = w.hr \/ (h = 0 /\ Successes(S) \cup InProgress(S) \cup NoReplies(S) = {})
    OBVIOUS
  <2> HIDE DEF e, v, h
  <2>3. d.hr = h
    BY DEF WorkunitRow
  <2> HIDE DEF d
  <2>4. QED
    BY <2>1, <2>2, <2>3
<1>2. ASSUME NEW release, NEW deferred
      PROVE  Finished(w, S, release, deferred).hr = w.hr
  <2>1. PICK a, f, t : Finished(w, S, release, deferred)
                         = [[w EXCEPT !.assimilate = a] EXCEPT !.fds = f, !.tt = t]
    BY DEF Finished
  <2>2. QED
    BY <2>1 DEF WorkunitRow
<1>3. ASSUME Successes(S) \cup InProgress(S) \cup NoReplies(S) = {}, NEW r \in Results
      PROVE  ~LiveRow(S[r])
  BY <1>3 DEF Successes, InProgress, NoReplies, Over, LiveRow, Rows
<1>4. QED
  BY <1>1, <1>2, <1>3

\* Who writes hr_class.
LEMMA ClassWrites ==
    ASSUME TypeOK, [Next]_vars
    PROVE  \/ wu'.hr = wu.hr
           \/ /\ InTransitioner(TransitionerUpdateWorkunit) /\ UNCHANGED res
              /\ wu'.hr = tr.wu.hr /\ tr.wu.hr # tr.old.hr
           \/ \E h \in Hosts :
                 /\ InCgi(h, SendUpdateWorkunit(h) \/ ResendExpireWorkunit(h))
                 /\ HrAllows(h) /\ UsesHr(h) /\ wu'.hr = HostClass[h] /\ UNCHANGED res
<1>1. wu \in WorkunitRow
  BY DEF TypeOK, DbTypeOK
<1>2. CASE InTransitioner(TransitionerUpdateWorkunit)
  <2>1. UpdateWorkunit(Merge(wu, tr.old, tr.wu)) /\ UNCHANGED res
    BY <1>2 DEF InTransitioner, TransitionerUpdateWorkunit
  <2>2. Merge(wu, tr.old, tr.wu).hr = IF tr.wu.hr # tr.old.hr THEN tr.wu.hr ELSE wu.hr
    BY <1>1 DEF Merge, WorkunitRow
  <2>3. QED
    BY <1>2, <2>1, <2>2 DEF UpdateWorkunit
<1>3. ASSUME NEW h \in Hosts, InCgi(h, CgiNext(h))
      PROVE  \/ wu'.hr = wu.hr
             \/ /\ InCgi(h, SendUpdateWorkunit(h) \/ ResendExpireWorkunit(h))
                /\ HrAllows(h) /\ UsesHr(h) /\ wu'.hr = HostClass[h] /\ UNCHANGED res
  <2>1. [wu EXCEPT !.tt = "now"].hr = wu.hr
    BY <1>1 DEF WorkunitRow
  <2>2. [wu EXCEPT !.target = AppTarget, !.quorum = AppTarget, !.tt = "now"].hr = wu.hr
    BY <1>1 DEF WorkunitRow
  <2>3. \A t : UpdateWuOnSend(h, t) => wu'.hr = wu.hr \/ (UsesHr(h) /\ wu'.hr = HostClass[h])
    BY <1>1 DEF UpdateWuOnSend, UpdateWorkunit, WorkunitRow
  <2>4. CASE SendUpdateWorkunit(h) \/ ResendExpireWorkunit(h)
    BY <1>3, <2>3, <2>4 DEF InCgi, SendUpdateWorkunit, ResendExpireWorkunit
  <2>5. CASE ReportTrigger(h) \/ DetachTrigger(h) \/ SendReplicate(h)
    <3>1. \/ UpdateWorkunit([wu EXCEPT !.tt = "now"])
          \/ UpdateWorkunit([wu EXCEPT !.target = AppTarget, !.quorum = AppTarget, !.tt = "now"])
      BY <2>5 DEF ReportTrigger, DetachTrigger, SendReplicate
    <3>2. QED
      BY <2>1, <2>2, <3>1 DEF UpdateWorkunit
  <2>6. QED
    BY <1>3, <2>4, <2>5
       DEF InCgi, CgiNext, CgiRequest, CgiStep, CgiCrash, SelectResult, ResendLost,
           ReportIgnored, Report, Detach, SendMarkAsSent, ResendExpire, ReportUpdate,
           DetachResult, dbVars
<1>4. CASE InValidator(ValidatorNext)
  <2>1. ValidatorUpdateWorkunit => wu'.hr = wu.hr
    BY <1>1 DEF ValidatorUpdateWorkunit, UpdateWorkunit, WorkunitRow
  <2>2. QED
    BY <1>4, <2>1, PassesOnlyRead DEF InValidator
<1>5. CASE InTransitioner(TransitionerNext) /\ ~InTransitioner(TransitionerUpdateWorkunit)
  BY <1>5, PassesOnlyRead
<1>6. CASE InAssimilator(AssimilatorNext) \/ InCancel(CancelNext)
  <2>1. AssimilatorHandle => wu'.hr = wu.hr
    BY <1>1 DEF AssimilatorHandle, UpdateWorkunit, WorkunitRow
  <2>2. AssimilatorUpdateWorkunit => wu'.hr = wu.hr
    BY <1>1 DEF AssimilatorUpdateWorkunit, UpdateWorkunit, WorkunitRow
  <2>3. CancelWorkunit => wu'.hr = wu.hr
    BY <1>1 DEF CancelWorkunit, UpdateWorkunit, WorkunitRow
  <2>4. QED
    BY <1>6, <2>1, <2>2, <2>3 DEF InAssimilator, AssimilatorNext, AssimilatorStep,
       AssimilatorEnumerate, AssimilatorCrash, InCancel, CancelNext, CancelResults, dbVars
<1>7. CASE InFileDeleter(FileDeleterNext) \/ InPurge(PurgeNext)
  BY <1>1, <1>7 DEF InFileDeleter, FileDeleterNext, FileDeleterStep, FileDeleteOutput,
     FileDeleteOutputFails, FileDeleteInput, FileDeleteInputFails, InPurge, PurgeNext,
     PurgeStep, PurgeEnumerate, PurgeResult, PurgeWorkunit, PurgeCrash, dbVars, WorkunitRow
<1>8. CASE \/ UNCHANGED vars \/ InTime(TransitionTimePasses) \/ Purged
           \/ \E r \in Results : InTime(DeadlinePasses(r))
  BY <1>1, <1>8, TimeSteps DEF TimeOnly, WorkunitRow
<1>9. QED
  BY <1>2, <1>3, <1>4, <1>5, <1>6, <1>7, <1>8 DEF Next

\* A row that is live after a step is of the class that the job had before.
LEMMA LiveMoves ==
    ASSUME TypeOK, MemoriesAreSafe, [Next]_vars, HrSound, HrInUse, NEW r \in Results,
           LiveRow(res'[r])
    PROVE  res'[r].host \in Hosts /\ HostClass[res'[r].host] = wu.hr
<1>1. ASSUME LiveRow(res[r]), res'[r].host = res[r].host
      PROVE  res'[r].host \in Hosts /\ HostClass[res'[r].host] = wu.hr
  BY <1>1 DEF HrSound, LiveRowsInClass
<1>2. CASE RowKept(r)
  BY <1>1, <1>2, LiveByVerdict DEF RowKept, SameReturn
<1>3. CASE RowIssued(r) \/ RowPurged(r) \/ RowCancelled(r)
  BY <1>3 DEF RowIssued, RowPurged, RowCancelled, NewResult, PurgedRow, NoRow, LiveRow
<1>4. CASE RowByTransitioner(r)
  <2>1. tr.pc # "idle"
    BY <1>4 DEF RowByTransitioner, InTransitioner, TransitionerUpdateResult
  <2>2. LiveRow(tr.res[r])
    BY <1>4, LiveByVerdict DEF RowByTransitioner
  <2>3. LiveRow(res[r])
    BY <2>1, <2>2 DEF HrSound, TransitionerInClass
  <2>4. QED
    BY <1>1, <1>4, <2>3 DEF RowByTransitioner, SameReturn
<1>5. CASE RowByValidator(r)
  <2>1. va.pc = "open" /\ r \in va.todo
    BY <1>5 DEF RowByValidator, InValidator, ValidatorUpdateResult
  <2>2. LiveRow(va.res[r]) /\ va.res[r].server = "OVER"
    BY <1>5, LiveByVerdict DEF RowByValidator
  <2>3. GoodRow(va.res[r])
    BY <2>1, <2>2 DEF HrSound, ValidatorInClass, LiveRow, GoodRow
  <2>4. GoodRow(res[r])
    BY <1>5, <2>1, <2>3 DEF RowByValidator, Exists, HrSound, ValidatorInClass
  <2>5. QED
    BY <1>1, <1>5, <2>4 DEF RowByValidator, SameReturn, LiveRow, GoodRow
<1>6. ASSUME NEW h \in Hosts, RowSent(h, r)
      PROVE  res'[r].host \in Hosts /\ HostClass[res'[r].host] = wu.hr
  <2>1. CASE res[r].server = "IN_PROGRESS"
    BY <1>1, <1>6, <2>1 DEF RowSent, LiveRow
  <2>2. CASE res[r].server # "IN_PROGRESS"
    BY <1>6, <2>2 DEF RowSent, HrSound, RequestInClass
  <2>3. QED
    BY <2>1, <2>2
<1>7. ASSUME NEW h \in Hosts, RowReported(h, r)
      PROVE  res'[r].host \in Hosts /\ HostClass[res'[r].host] = wu.hr
  <2>1. LiveRow(res[r]) /\ MayReport(h, r) /\ res'[r].host = h
    BY <1>7 DEF RowReported, HrSound, RequestInClass
  <2>2. HostClass[res[r].host] = wu.hr
    BY <2>1 DEF HrSound, LiveRowsInClass
  <2>3. HostClass[h] = HostClass[res[r].host]
    BY <2>1 DEF MayReport, HrInUse
  <2>4. QED
    BY <2>1, <2>2, <2>3
<1>8. ASSUME NEW h \in Hosts, RowDetached(h, r)
      PROVE  res'[r].host \in Hosts /\ HostClass[res'[r].host] = wu.hr
  <2>1. res[r].server = "IN_PROGRESS"
    BY <1>8 DEF RowDetached, HrSound, RequestInClass
  <2>2. QED
    BY <1>1, <1>8, <2>1 DEF RowDetached, LiveRow
<1>9. QED
  BY <1>2, <1>3, <1>4, <1>5, <1>6, <1>7, <1>8, RowSteps DEF RowByCgi

\* Without live results there are none after a step that writes no row.
LEMMA StepKeepsLiveRows ==
    ASSUME TypeOK, MemoriesAreSafe, [Next]_vars, HrSound, HrInUse
    PROVE  LiveRowsInClass'
<1>1. CASE wu'.hr = wu.hr
  BY <1>1, LiveMoves DEF LiveRowsInClass
<1>2. CASE /\ InTransitioner(TransitionerUpdateWorkunit) /\ UNCHANGED res
           /\ wu'.hr = tr.wu.hr /\ tr.wu.hr # tr.old.hr
  <2>1. tr.pc # "idle"
    BY <1>2 DEF InTransitioner, TransitionerUpdateWorkunit
  <2>2. \A r \in Results : ~LiveRow(res[r])
    BY <1>2, <2>1 DEF HrSound, TransitionerInClass
  <2>3. QED
    BY <1>2, <2>2 DEF LiveRowsInClass
<1>3. ASSUME NEW h \in Hosts, HrAllows(h), UsesHr(h), wu'.hr = HostClass[h], UNCHANGED res
      PROVE  LiveRowsInClass'
  <2>1. CASE wu.hr = HostClass[h]
    BY <1>3, <2>1 DEF HrSound, LiveRowsInClass
  <2>2. CASE wu.hr = 0
    BY <1>3, <2>2 DEF HrSound, LiveRowsInClass, HrInUse, UsesHr
  <2>3. QED
    BY <1>3, <2>1, <2>2 DEF HrAllows
<1>4. QED
  BY <1>1, <1>2, <1>3, ClassWrites

\* A request keeps the class it claimed, because nobody else is served meanwhile.
LEMMA StepKeepsRequestInClass ==
    ASSUME TypeOK, MemoriesAreSafe, [Next]_vars, HrSound, HrInUse, NEW h \in Hosts
    PROVE  RequestInClass(h)'
<1>1. CASE InCgi(h, CgiNext(h)) /\ CgiRequest(h)
  <2>1. UNCHANGED <<wu, res>> /\ cgi[h].op = "idle"
    BY <1>1, RequestBegins DEF dbVars
  <2>2. ASSUME cgi'[h].op = "report"
        PROVE  /\ LiveRow(res[cgi'[h].r]) /\ ~GoodRow(res[cgi'[h].r])
               /\ MayReport(h, cgi'[h].r)
    <3>1. MayReport(h, cgi'[h].r) /\ Accepts(res[cgi'[h].r])
      BY <1>1, <2>1, <2>2, RequestBegins
    <3>2. QED
      BY <3>1 DEF Accepts, LiveRow, GoodRow
  <2>3. cgi'[h].op # "mark" /\ cgi'[h].op # "detachWu"
    BY <1>1, <2>1, RequestBegins
  <2>4. cgi'[h].op = "expire" => cgi'[h].old = "IN_PROGRESS"
    BY <1>1, <2>1, RequestBegins
  <2>5. cgi'[h].op = "detach" => \A r \in cgi'[h].todo : res[r].server = "IN_PROGRESS"
    BY <1>1, <2>1, RequestBegins
  <2>6. MayReport(h, cgi'[h].r) => MayReport(h, cgi[h].r)'
    BY <2>1 DEF MayReport
  <2>7. QED
    BY <2>1, <2>2, <2>3, <2>4, <2>5, <2>6 DEF RequestInClass
<1>2. CASE InCgi(h, CgiNext(h)) /\ (CgiStep(h) \/ CgiCrash(h))
  <2>1. cgi'[h].op \notin {"expire", "report"}
    BY <1>2, RequestGoesOn
  <2>2. ASSUME cgi'[h].op = "mark" PROVE wu'.hr = HostClass[h]
    <3>1. SendUpdateWorkunit(h) /\ wu.exists /\ HrAllows(h)
      BY <1>2, <2>2, RequestGoesOn
    <3>2. PICK t : UpdateWuOnSend(h, t)
      BY <3>1 DEF SendUpdateWorkunit
    <3>3. wu' = [wu EXCEPT !.tt = t, !.hr = HostClass[h]]
      BY <3>1, <3>2 DEF UpdateWuOnSend, UpdateWorkunit, HrInUse
    <3>4. QED
      BY <3>3 DEF TypeOK, DbTypeOK, WorkunitRow
  <2>3. ASSUME cgi'[h].op \in {"detach", "detachWu"}
        PROVE  \A r \in cgi'[h].todo : res'[r].server = "IN_PROGRESS"
    <3>1. CASE DetachTrigger(h) /\ cgi[h].op = "detachWu" /\ Keeps(h)
      BY <3>1 DEF DetachTrigger, Keeps, HrSound, RequestInClass
    <3>2. ASSUME NEW q \in Results, DetachResult(h, q), cgi[h].op = "detach",
                 cgi'[h].todo = cgi[h].todo \ {q}
          PROVE  \A r \in cgi'[h].todo : res'[r].server = "IN_PROGRESS"
      <4>1. \A r \in cgi[h].todo : res[r].server = "IN_PROGRESS"
        BY <3>2 DEF HrSound, RequestInClass
      <4>2. \A r \in Results \ {q} : res'[r] = res[r]
        BY <3>2 DEF DetachResult, UpdateResult, TypeOK, DbTypeOK
      <4>3. cgi[h].todo \subseteq Results
        BY DEF TypeOK, SchedulerTypeOK
      <4>4. QED
        BY <3>2, <4>1, <4>2, <4>3
    <3>3. QED
      BY <1>2, <2>3, <3>1, <3>2, RequestGoesOn
  <2>4. QED
    BY <2>1, <2>2, <2>3 DEF RequestInClass
<1>3. CASE ~InCgi(h, CgiNext(h))
  <2>1. cgi'[h] = cgi[h]
    BY <1>3, MemoryOwners
  <2>2. CASE cgi[h].op = "idle"
    BY <2>1, <2>2 DEF RequestInClass
  <2>3. CASE cgi[h].op # "idle"
    <3>1. TimeOnly
      BY <1>3, <2>3, RequestWaits DEF HrInUse
    <3>2. wu'.hr = wu.hr /\ \A r \in Results : RowKept(r)
      BY <3>1 DEF TimeOnly, TypeOK, DbTypeOK, WorkunitRow
    <3>3. cgi[h].todo \subseteq Results /\ (cgi[h].op = "report" => cgi[h].r \in Results)
      BY DEF TypeOK, SchedulerTypeOK
    <3>4. \A r \in Results : /\ res'[r].server = res[r].server /\ res'[r].host = res[r].host
                             /\ LiveRow(res'[r]) <=> LiveRow(res[r])
                             /\ GoodRow(res'[r]) <=> GoodRow(res[r])
      BY <3>2, LiveByVerdict DEF RowKept, SameVerdict, SameReturn
    <3>5. RequestInClass(h)
      BY DEF HrSound
    <3>6. cgi[h].op = "report" => (MayReport(h, cgi[h].r) <=> MayReport(h, cgi[h].r)')
      BY <2>1, <3>3, <3>4 DEF MayReport
    <3>7. QED
      BY <2>1, <3>2, <3>3, <3>4, <3>5, <3>6 DEF RequestInClass
  <2>4. QED
    BY <2>2, <2>3
<1>4. QED
  BY <1>1, <1>2, <1>3 DEF InCgi, CgiNext

\* A pass of the transitioner sees the live results, whatever time does.
LEMMA StepKeepsTransitionerInClass ==
    ASSUME TypeOK, MemoriesAreSafe, [Next]_vars, HrSound, HrInUse
    PROVE  TransitionerInClass'
<1> SUFFICES ASSUME tr'.pc # "idle"
             PROVE  /\ \A r \in Results : LiveRow(tr'.res[r]) <=> LiveRow(res'[r])
                    /\ \A r \in Results : GoodRow(tr'.res[r]) <=> GoodRow(res'[r])
                    /\ tr'.old.hr = wu'.hr
                    /\ \/ tr'.wu.hr = wu'.hr
                       \/ tr'.pc # "scan" /\ tr'.wu.hr = 0 /\ \A r \in Results : ~LiveRow(res'[r])
  BY DEF TransitionerInClass
<1>1. TransitionerInClass
  BY DEF HrSound
<1>2. CASE InTransitioner(TransitionerNext)
  <2>1. TransitionerNext /\ UNCHANGED wu
    <3>1. ~TransitionerUpdateWorkunit
      BY DEF TransitionerUpdateWorkunit, transitionerIdle
    <3>2. QED
      BY <1>2, <3>1, PassesOnlyRead DEF InTransitioner
  <2>2. ASSUME NEW r \in Results, tr.pc # "idle"
        PROVE  (LiveRow(res'[r]) <=> LiveRow(res[r])) /\ (GoodRow(res'[r]) <=> GoodRow(res[r]))
    <3>1. CASE RowKept(r)
      BY <3>1, LiveByVerdict DEF RowKept
    <3>2. CASE RowIssued(r)
      BY <3>2 DEF RowIssued, NewResult, NoRow, LiveRow, GoodRow
    <3>3. CASE RowByTransitioner(r)
      BY <1>1, <2>2, <3>3, LiveByVerdict DEF RowByTransitioner, TransitionerInClass
    <3>4. RowKept(r) \/ RowIssued(r) \/ RowByTransitioner(r)
      BY <1>2, <2>2, IssuedRow, TransitionerRow DEF InTransitioner, TransitionerNext,
         TransitionerStep, TransitionerEnumerate, TransitionerRelease,
         TransitionerUpdateWorkunit, TransitionerCrash, dbVars, RowKept, SameReturn, SameVerdict
    <3>5. QED
      BY <3>1, <3>2, <3>3, <3>4
  <2>3. CASE TransitionerEnumerate
    <3>1. UNCHANGED res /\ tr'.old = wu /\ tr'.wu = wu
      BY <2>1, <2>3, TransitionerCopy DEF TransitionerEnumerate, dbVars
    <3>2. \A r \in Results : TransitionerJudges(res[r], tr'.res[r])
      BY <2>1, <2>3, TransitionerCopy DEF TransitionerEnumerate
    <3>3. QED
      BY <2>1, <3>1, <3>2, JudgedLive
  <2>4. CASE ~TransitionerEnumerate
    <3>1. tr.pc # "idle" /\ tr'.old = tr.old /\ 1 \in Results
      BY <2>1, <2>4, TransitionerCopy, ParamAssumption DEF Results
    <3>2. \A r \in Results : TransitionerJudges(tr.res[r], tr'.res[r])
      BY <2>1, <2>4, TransitionerCopy
    <3>3. \A r \in Results : /\ LiveRow(tr'.res[r]) <=> LiveRow(res'[r])
                             /\ GoodRow(tr'.res[r]) <=> GoodRow(res'[r])
      BY <1>1, <2>2, <3>1, <3>2, JudgedLive DEF TransitionerInClass
    <3>4. tr.wu \in WorkunitRow /\ tr.res \in Rows
      BY <3>1 DEF TypeOK, TransitionerTypeOK, Rows
    <3>5. \/ tr'.wu.hr = tr.wu.hr /\ (tr'.pc = "scan" => tr.pc = "scan")
          \/ tr'.pc # "scan" /\ tr'.wu.hr = 0 /\ \A r \in Results : ~LiveRow(tr.res[r])
      <4>1. CASE TransitionerDecide /\ tr'.pc = "decide" /\ tr'.wu = Decided(tr.wu, tr.res)
        BY <3>4, <4>1, ClassRules
      <4>2. ASSUME NEW release \in BOOLEAN, NEW deferred \in BOOLEAN, tr'.pc = "release",
                   tr'.wu = Finished(tr.wu, tr.res, release, deferred)
            PROVE  tr'.wu.hr = tr.wu.hr
        BY <3>4, <4>2, ClassRules
      <4>3. QED
        BY <2>1, <2>4, <3>1, <4>1, <4>2, TransitionerCopy
    <3>6. QED
      BY <1>1, <2>1, <2>2, <3>1, <3>3, <3>5 DEF TransitionerInClass
  <2>5. QED
    BY <2>3, <2>4
<1>3. CASE ~InTransitioner(TransitionerNext)
  <2>1. UNCHANGED tr
    BY <1>3, MemoryOwners
  <2>2. TimeOnly
    BY <1>3, <2>1, TransitionerWaits DEF HrInUse
  <2>3. wu'.hr = wu.hr /\ \A r \in Results : SameVerdict(res'[r], res[r])
    BY <2>2 DEF TimeOnly, TypeOK, DbTypeOK, WorkunitRow, RowKept
  <2>4. \A r \in Results : /\ LiveRow(res'[r]) <=> LiveRow(res[r])
                           /\ GoodRow(res'[r]) <=> GoodRow(res[r])
    BY <2>3, LiveByVerdict
  <2>5. QED
    BY <1>1, <2>1, <2>3, <2>4 DEF TransitionerInClass
<1>4. QED
  BY <1>2, <1>3

\* Nobody but the validator condemns a success.
LEMMA GoodMoves ==
    ASSUME TypeOK, MemoriesAreSafe, [Next]_vars, HrSound, NEW r \in Results,
           GoodRow(res[r]) \/ res[r].server = "PURGED"
    PROVE  GoodRow(res'[r]) \/ res'[r].server = "PURGED" \/ RowByValidator(r)
<1>1. CASE RowKept(r)
  BY <1>1, LiveByVerdict DEF RowKept, SameVerdict
<1>2. CASE RowIssued(r) \/ RowPurged(r) \/ RowCancelled(r)
  BY <1>2 DEF RowIssued, RowPurged, RowCancelled, PurgedRow, NoRow, GoodRow
<1>3. CASE RowByTransitioner(r)
  <2>1. tr.pc # "idle" /\ res[r].server # "PURGED"
    BY <1>3 DEF RowByTransitioner, InTransitioner, TransitionerUpdateResult, Exists
  <2>2. QED
    BY <1>3, <2>1, LiveByVerdict DEF RowByTransitioner, HrSound, TransitionerInClass
<1>4. ASSUME NEW h \in Hosts, RowByCgi(h, r) PROVE FALSE
  BY <1>4 DEF RowByCgi, RowSent, RowReported, RowDetached, GoodRow, Exists, HrSound,
     RequestInClass
<1>5. QED
  BY <1>1, <1>2, <1>3, <1>4, RowSteps

\* What the validator thinks well of was well when it looked.
LEMMA StepKeepsValidatorInClass ==
    ASSUME TypeOK, TypeOK', MemoriesAreSafe, [Next]_vars, HrSound
    PROVE  ValidatorInClass'
<1> DEFINE Back == {"SUCCESS", "VALIDATE_ERROR", "DIDNT_NEED"}
<1> SUFFICES ASSUME va'.pc = "open"
             PROVE  /\ \A r \in Results : GoodRow(va'.res[r]) =>
                          GoodRow(res'[r]) \/ res'[r].server = "PURGED"
                    /\ \A r \in va'.todo : va'.res[r].outcome \in Back
  BY DEF ValidatorInClass
<1>1. ValidatorInClass
  BY DEF HrSound
<1>2. CASE InValidator(ValidatorEnumerate)
  BY <1>2 DEF InValidator, ValidatorEnumerate, dbVars
<1>3. ASSUME NEW flaky, NEW c \in Results \cup {0}, InValidator(ValidatorNext),
             ValidatorCheckSet(flaky, c)
      PROVE  /\ \A r \in Results : GoodRow(va'.res[r]) =>
                   GoodRow(res'[r]) \/ res'[r].server = "PURGED"
             /\ \A r \in va'.todo : va'.res[r].outcome \in Back
  <2>1. va.pc = "open" /\ UNCHANGED res
    BY <1>3 DEF ValidatorCheckSet
  <2>2. \A r \in Results : /\ ValidatorJudges(va.res[r], va'.res[r])
                           /\ r \in va'.todo => va'.res[r].outcome \in Back
    BY <1>3, CheckSetCopy
  <2>3. va'.todo \subseteq Results
    BY DEF TypeOK, ValidatorTypeOK
  <2>4. QED
    BY <1>1, <2>1, <2>2, <2>3, JudgedLive DEF ValidatorInClass
<1>4. ASSUME NEW q \in Results, InValidator(ValidatorCheckPair(q))
      PROVE  /\ \A r \in Results : GoodRow(va'.res[r]) =>
                   GoodRow(res'[r]) \/ res'[r].server = "PURGED"
             /\ \A r \in va'.todo : va'.res[r].outcome \in Back
  <2>1. va.pc = "open" /\ UNCHANGED res /\ ValidatorCheckPair(q)
    BY <1>4 DEF InValidator, ValidatorCheckPair, dbVars
  <2>2. \A r \in Results : ValidatorJudges(va.res[r], va'.res[r])
    BY <2>1, CheckPairCopy
  <2>3. va'.todo = {q} /\ Success(va.res[q])
    BY <2>1, CheckPairCopy
  <2>4. va'.res[q].outcome \in Back
    BY <2>2, <2>3, JudgedLive DEF SameVerdict, Success
  <2>5. QED
    BY <1>1, <2>1, <2>2, <2>3, <2>4, JudgedLive DEF ValidatorInClass
<1>5. ASSUME va.pc = "open", va'.res = va.res, va'.todo \subseteq va.todo
      PROVE  /\ \A r \in Results : GoodRow(va'.res[r]) =>
                   GoodRow(res'[r]) \/ res'[r].server = "PURGED"
             /\ \A r \in va'.todo : va'.res[r].outcome \in Back
  <2>1. ASSUME NEW r \in Results, GoodRow(va.res[r])
        PROVE  GoodRow(res'[r]) \/ res'[r].server = "PURGED"
    <3>1. CASE RowByValidator(r)
      BY <2>1, <3>1, LiveByVerdict DEF RowByValidator
    <3>2. QED
      BY <1>1, <1>5, <2>1, <3>1, GoodMoves DEF ValidatorInClass
  <2>2. QED
    BY <1>1, <1>5, <2>1 DEF ValidatorInClass
<1>6. CASE ~InValidator(ValidatorNext)
  BY <1>5, <1>6, MemoryOwners
<1>7. CASE /\ InValidator(ValidatorNext) /\ ~ValidatorEnumerate
           /\ ~\E q \in Results : ValidatorCheckPair(q)
           /\ ~\E flaky : \E c \in Results \cup {0} : ValidatorCheckSet(flaky, c)
  <2>1. ValidatorNext
    BY <1>7 DEF InValidator
  <2>2. va.pc = "open" /\ va'.res = va.res /\ va'.todo \subseteq va.todo
    BY <1>7, <2>1, PassCopy
  <2>3. QED
    BY <1>5, <2>2
<1>8. QED
  BY <1>2, <1>3, <1>4, <1>6, <1>7 DEF InValidator

\* Whatever is compared was computed by hosts of one class: while a result of a
\* job is in progress or may be compared, hr_class is not given away, although
\* the class is reset, claimed and used by statements of their own (OneHrClass).
THEOREM ResultsAreComparable ==
    ASSUME HrInUse
    PROVE  Spec => []OneHrClass
<1>1. Init => HrSound
  <2>1. SUFFICES ASSUME Init PROVE HrSound
    OBVIOUS
  <2>2. LiveRowsInClass
    BY <2>1 DEF Init, DbInit, NoRow, LiveRow, LiveRowsInClass
  <2>3. QED
    BY <2>1, <2>2 DEF Init, TransitionerInit, transitionerIdle, ValidatorInit, validatorIdle,
       SchedulerInit, cgiIdle, HrSound, TransitionerInClass, ValidatorInClass, RequestInClass
<1>2. TypeOK /\ TypeOK' /\ MemoriesAreSafe /\ HrSound /\ [Next]_vars => HrSound'
  <2>1. SUFFICES ASSUME TypeOK, TypeOK', MemoriesAreSafe, HrSound, [Next]_vars PROVE HrSound'
    OBVIOUS
  <2>2. LiveRowsInClass' /\ TransitionerInClass' /\ ValidatorInClass'
    BY <2>1, StepKeepsLiveRows, StepKeepsTransitionerInClass, StepKeepsValidatorInClass
  <2>3. \A h \in Hosts : RequestInClass(h)'
    BY <2>1, StepKeepsRequestInClass
  <2>4. QED
    BY <2>2, <2>3 DEF HrSound
<1>3. Spec => []HrSound
  BY <1>1, <1>2, TypeCorrect, StaleMemoriesAreSafe, PTL DEF Spec
<1>4. TypeOK /\ HrSound => OneHrClass
  <2>1. SUFFICES ASSUME TypeOK, HrSound, NEW r \in InProgress(res) \cup Successes(res)
                 PROVE  r \in Results /\ LiveRow(res[r])
    BY DEF HrSound, LiveRowsInClass, OneHrClass
  <2>2. QED
    BY <2>1 DEF TypeOK, DbTypeOK, InProgress, Successes, Over, LiveRow
<1>5. QED
  BY <1>3, <1>4, TypeCorrect, PTL

-----------------------------------------------------------------------------
\* What came back is kept: reports, verdicts and acknowledgements.

\* The passes of the daemons that write result rows are not interrupted, and no
\* two requests at a time report one result.
NothingOverwritten ==
    /\ {"transitioner", "validator"} \cap Preemptible = {}
    /\ "cgi" \in Preemptible => MayMove = {}

\* A row makes sense: what has a verdict came back, what came back was sent, and
\* a success is written off only when its host detached.
RowSound(row) ==
    /\ row.validate = "VALID" => Success(row)
    /\ row.outcome = "SUCCESS" => row.received
    /\ row.server # "OVER" => ~row.received
    /\ row.server \in {"NONE", "UNSENT", "PURGED"} => row.host = NoHost
    /\ ~row.received => row.out = "none"
    /\ row.received => row.out \in Returns \/ MayDetach # {}
    /\ row.received /\ Succeeded(row.out) =>
          row.outcome \in {"SUCCESS", "VALIDATE_ERROR"} \/ MayDetach # {}
    /\ row.server = "OVER" /\ row.host # NoHost /\ ~row.received => row.outcome = "NO_REPLY"

RowsSound == \A r \in Results : RowSound(res[r])

\* The copy of a pass is out of date only in what the pass is about to write.
TransitionerFresh ==
    tr.pc # "idle" => \A r \in Results :
        /\ RowSound(tr.res[r]) /\ SameReturn(tr.res[r], res[r])
        /\ tr.res[r].validate = "VALID" <=> res[r].validate = "VALID"
ValidatorFresh ==
    va.pc = "open" =>
        /\ \A r \in Results :
              /\ RowSound(va.res[r]) /\ SameReturn(va.res[r], res[r])
              /\ r \notin va.todo => SameVerdict(va.res[r], res[r])
              /\ r \in va.todo => r \in Exists(res)
        /\ ~va.leave /\ va.wu.canonical = 0 => va.todo = {}
        /\ va.leave \/ va.todo # {} => va.wu.canonical = 0 \/ CanonicalKnown

\* Nothing was received for a result that a request of h is about to end.
Untaken(h, r) ==
    \/ res[r].server = "PURGED"
    \/ /\ ~res[r].received /\ res[r].host # NoHost
       /\ MayMove = {} => res[r].host = h

ReportSound(h) ==
    /\ cgi[h].op = "report" =>
          Untaken(h, cgi[h].r) /\ cgi[h].validate # "VALID" /\ cgi[h].out \in Returns
    /\ cgi[h].op \in {"detach", "detachWu"} =>
          MayDetach # {} /\ \A r \in cgi[h].todo : Untaken(h, r)

ReturnsSound ==
    /\ RowsSound /\ TransitionerFresh /\ ValidatorFresh
    /\ \A h \in Hosts : ReportSound(h)

\* Every verdict is about something that came back, and what came back is in the
\* row (the invariant behind the acknowledgements).
Recorded(r, out) ==
    \/ res[r].server = "PURGED"
    \/ res[r].server = "OVER" /\ res[r].received /\ res[r].out = out

AcksSound ==
    /\ \A r \in acked : \E out \in Outputs \cup {"unreadable"} : Recorded(r, out)
    /\ \A h \in Hosts : cgi[h].op = "trigger" => Recorded(cgi[h].r, cgi[h].out)

LEMMA SoundByColumns ==
    ASSUME NEW a, NEW b, SameReturn(b, a), SameVerdict(b, a), RowSound(a)
    PROVE  RowSound(b)
BY DEF SameReturn, SameVerdict, RowSound, Success, Succeeded

LEMMA JudgedSound ==
    ASSUME NEW a, NEW b, RowSound(a)
    PROVE  /\ TransitionerJudges(a, b) =>
                 RowSound(b) /\ (b.validate = "VALID" <=> a.validate = "VALID")
           /\ ValidatorJudges(a, b) =>
                 /\ RowSound(b)
                 /\ SameVerdict(b, a) \/ (a.server \in {"UNSENT", "OVER"} /\ b.server = "OVER")
<1>1. ASSUME TransitionerJudges(a, b)
      PROVE  RowSound(b) /\ (b.validate = "VALID" <=> a.validate = "VALID")
  <2>1. CASE SameVerdict(b, a)
    BY <1>1, <2>1, SoundByColumns DEF TransitionerJudges, SameVerdict
  <2>2. CASE ~SameVerdict(b, a)
    BY <1>1, <2>2 DEF TransitionerJudges, SameReturn, RowSound, Success, Succeeded
  <2>3. QED
    BY <2>1, <2>2
<1>2. ASSUME ValidatorJudges(a, b)
      PROVE  /\ RowSound(b)
             /\ SameVerdict(b, a) \/ (a.server \in {"UNSENT", "OVER"} /\ b.server = "OVER")
  <2>1. CASE SameVerdict(b, a)
    BY <1>2, <2>1, SoundByColumns DEF ValidatorJudges
  <2>2. CASE ~SameVerdict(b, a)
    BY <1>2, <2>2 DEF ValidatorJudges, SameReturn, RowSound, Success, Succeeded
  <2>3. QED
    BY <2>1, <2>2
<1>3. QED
  BY <1>1, <1>2

\* Every write of a row keeps it sound.
LEMMA StepKeepsRowsSound ==
    ASSUME TypeOK, MemoriesAreSafe, [Next]_vars, ReturnsSound
    PROVE  RowsSound'
<1> SUFFICES ASSUME NEW r \in Results PROVE RowSound(res'[r])
  BY DEF RowsSound
<1>1. RowSound(res[r]) /\ NoHost \notin Hosts
  BY ParamAssumption DEF ReturnsSound, RowsSound
<1>2. CASE RowKept(r)
  BY <1>1, <1>2, SoundByColumns DEF RowKept
<1>3. CASE RowIssued(r) \/ RowPurged(r)
  BY <1>3 DEF RowIssued, RowPurged, NewResult, PurgedRow, NoRow, RowSound, Success
<1>4. CASE RowCancelled(r)
  BY <1>1, <1>4 DEF RowCancelled, SameReturn, RowSound, Success
<1>5. CASE RowByTransitioner(r)
  <2>1. RowSound(tr.res[r]) /\ SameReturn(tr.res[r], res[r])
    BY <1>5 DEF RowByTransitioner, InTransitioner, TransitionerUpdateResult, ReturnsSound,
       TransitionerFresh
  <2>2. SameReturn(res'[r], tr.res[r]) /\ SameVerdict(res'[r], tr.res[r])
    BY <1>5, <2>1 DEF RowByTransitioner, SameReturn
  <2>3. QED
    BY <2>1, <2>2, SoundByColumns
<1>6. CASE RowByValidator(r)
  <2>1. RowSound(va.res[r]) /\ SameReturn(va.res[r], res[r])
    BY <1>6 DEF RowByValidator, InValidator, ValidatorUpdateResult, ReturnsSound,
       ValidatorFresh
  <2>2. SameReturn(res'[r], va.res[r]) /\ SameVerdict(res'[r], va.res[r])
    BY <1>6, <2>1 DEF RowByValidator, SameReturn
  <2>3. QED
    BY <2>1, <2>2, SoundByColumns
<1>7. ASSUME NEW h \in Hosts, RowSent(h, r) PROVE RowSound(res'[r])
  BY <1>1, <1>7 DEF RowSent, RowSound, Success
<1>8. ASSUME NEW h \in Hosts, RowReported(h, r) PROVE RowSound(res'[r])
  <2>1. cgi[h].validate # "VALID" /\ cgi[h].out \in Returns
    BY <1>8 DEF RowReported, ReturnsSound, ReportSound
  <2>2. QED
    BY <1>1, <1>8, <2>1 DEF RowReported, RowSound
<1>9. ASSUME NEW h \in Hosts, RowDetached(h, r) PROVE RowSound(res'[r])
  <2>1. MayDetach # {} /\ Untaken(h, r) /\ res[r].server # "PURGED"
    BY <1>9 DEF RowDetached, ReturnsSound, ReportSound, Exists
  <2>2. ~res[r].received
    BY <2>1 DEF Untaken
  <2>3. QED
    BY <1>1, <1>9, <2>1, <2>2 DEF RowDetached, RowSound, Success
<1>10. QED
  BY <1>2, <1>3, <1>4, <1>5, <1>6, <1>7, <1>8, <1>9, RowSteps DEF RowByCgi

\* Nobody writes behind the transitioner's back.
LEMMA StepKeepsTransitionerFresh ==
    ASSUME TypeOK, MemoriesAreSafe, [Next]_vars, ReturnsSound, NothingOverwritten
    PROVE  TransitionerFresh'
<1> SUFFICES ASSUME tr'.pc # "idle", NEW r \in Results
             PROVE  /\ RowSound(tr'.res[r]) /\ SameReturn(tr'.res[r], res'[r])
                    /\ tr'.res[r].validate = "VALID" <=> res'[r].validate = "VALID"
  BY DEF TransitionerFresh
<1>1. RowSound(res[r])
  BY DEF ReturnsSound, RowsSound
<1>2. tr.pc # "idle" => /\ RowSound(tr.res[r]) /\ SameReturn(tr.res[r], res[r])
                        /\ tr.res[r].validate = "VALID" <=> res[r].validate = "VALID"
  BY DEF ReturnsSound, TransitionerFresh
<1>3. CASE InTransitioner(TransitionerNext)
  <2>1. CASE TransitionerEnumerate
    <3>1. UNCHANGED res /\ TransitionerJudges(res[r], tr'.res[r])
      BY <1>3, <2>1, TransitionerCopy DEF TransitionerEnumerate, dbVars, InTransitioner
    <3>2. QED
      BY <1>1, <3>1, JudgedSound DEF TransitionerJudges
  <2>2. CASE ~TransitionerEnumerate
    <3>1. tr.pc # "idle" /\ TransitionerJudges(tr.res[r], tr'.res[r])
      BY <1>3, <2>2, TransitionerCopy DEF InTransitioner
    <3>2. /\ RowSound(tr'.res[r]) /\ SameReturn(tr'.res[r], tr.res[r])
          /\ tr'.res[r].validate = "VALID" <=> tr.res[r].validate = "VALID"
      BY <1>2, <3>1, JudgedSound DEF TransitionerJudges
    <3>3. /\ SameReturn(res'[r], res[r])
          /\ res'[r].validate = "VALID" <=> res[r].validate = "VALID"
      <4>1. CASE RowKept(r)
        BY <4>1 DEF RowKept, SameReturn, SameVerdict
      <4>2. CASE RowIssued(r)
        <5>1. /\ res[r].host = NoHost /\ res[r].out = "none" /\ ~res[r].received
              /\ res[r].validate # "VALID"
          BY <1>1, <4>2 DEF RowIssued, RowSound, Success
        <5>2. res[r].received \in BOOLEAN
          BY DEF TypeOK, DbTypeOK, ResultRow
        <5>3. QED
          BY <4>2, <5>1, <5>2 DEF RowIssued, NewResult, NoRow, SameReturn
      <4>3. CASE RowByTransitioner(r)
        BY <1>2, <3>1, <4>3 DEF RowByTransitioner, SameVerdict
      <4>4. RowKept(r) \/ RowIssued(r) \/ RowByTransitioner(r)
        BY <1>3, <3>1, IssuedRow, TransitionerRow DEF InTransitioner, TransitionerNext,
           TransitionerStep, TransitionerEnumerate, TransitionerRelease,
           TransitionerUpdateWorkunit, TransitionerCrash, dbVars, RowKept, SameReturn,
           SameVerdict
      <4>5. QED
        BY <4>1, <4>2, <4>3, <4>4
    <3>4. QED
      BY <1>2, <3>1, <3>2, <3>3 DEF SameReturn
  <2>3. QED
    BY <2>1, <2>2
<1>4. CASE ~InTransitioner(TransitionerNext)
  <2>1. UNCHANGED tr
    BY <1>4, MemoryOwners
  <2>2. RowKept(r)
    BY <1>4, <2>1, TransitionerWaits DEF NothingOverwritten, TimeOnly
  <2>3. QED
    BY <1>2, <2>1, <2>2 DEF RowKept, SameReturn, SameVerdict
<1>5. QED
  BY <1>3, <1>4

\* update_result() takes a verdict from memory to the row.
LEMMA VerdictWritten ==
    ASSUME TypeOK, MemoriesAreSafe, NEW q \in Results, InValidator(ValidatorUpdateResult(q)),
           q \in Exists(res)
    PROVE  /\ SameVerdict(res'[q], va.res[q]) /\ SameReturn(res'[q], res[q])
           /\ \A r \in Results \ {q} : RowKept(r)
<1> DEFINE row == [res[q] EXCEPT !.server = va.res[q].server, !.outcome = va.res[q].outcome,
                                 !.validate = va.res[q].validate]
<1>1. res \in Rows /\ res[q] \in ResultRow
  BY DEF TypeOK, DbTypeOK, Rows
<1>2. res' = [res EXCEPT ![q] = row]
  BY DEF InValidator, ValidatorUpdateResult, UpdateResult
<1>3. SameReturn(row, res[q]) /\ SameVerdict(row, va.res[q])
  BY <1>1 DEF ResultRow, SameReturn, SameVerdict
<1> HIDE DEF row
<1>4. res'[q] = row /\ \A r \in Results \ {q} : res'[r] = res[r]
  BY <1>1, <1>2 DEF Rows
<1>5. QED
  BY <1>3, <1>4 DEF RowKept, SameReturn, SameVerdict

\* The validator's copy is up to date, but for the rows it has still to write.
LEMMA StepKeepsValidatorFresh ==
    ASSUME TypeOK, TypeOK', MemoriesAreSafe, [Next]_vars, ReturnsSound, NothingOverwritten
    PROVE  ValidatorFresh'
<1> DEFINE Fresh(r) == /\ RowSound(va'.res[r]) /\ SameReturn(va'.res[r], res'[r])
                       /\ r \notin va'.todo => SameVerdict(va'.res[r], res'[r])
                       /\ r \in va'.todo => r \in Exists(res')
           Order == /\ ~va'.leave /\ va'.wu.canonical = 0 => va'.todo = {}
                    /\ va'.leave \/ va'.todo # {} =>
                          va'.wu.canonical = 0 \/ va'.wu.canonical \in Exists(va'.res)
<1> SUFFICES ASSUME va'.pc = "open" PROVE (\A r \in Results : Fresh(r)) /\ Order
  BY DEF ValidatorFresh, CanonicalKnown
<1> HIDE DEF Fresh, Order
<1>1. ValidatorFresh /\ \A r \in Results : RowSound(res[r])
  BY DEF ReturnsSound, RowsSound
<1>2. /\ res \in [Results -> ResultRow] /\ res' \in [Results -> ResultRow]
      /\ va'.res \in [Results -> ResultRow]
      /\ va.pc = "open" => va.res \in [Results -> ResultRow] /\ va.leave \in BOOLEAN
                           /\ va.todo \subseteq Results
  BY DEF TypeOK, DbTypeOK, ValidatorTypeOK
<1>3. CASE InValidator(ValidatorEnumerate)
  <2>1. /\ va'.res = res /\ va'.todo = {} /\ ~va'.leave /\ UNCHANGED res
    BY <1>3 DEF InValidator, ValidatorEnumerate, dbVars
  <2>2. QED
    BY <1>1, <2>1 DEF Fresh, Order, SameReturn, SameVerdict
<1>4. ASSUME NEW flaky, NEW c \in Results \cup {0}, ValidatorCheckSet(flaky, c)
      PROVE  (\A r \in Results : Fresh(r)) /\ Order
  <2>1. va.pc = "open" /\ va.todo = {} /\ UNCHANGED res /\ va'.leave /\ va'.wu.canonical = c
    <3>1. va.pc = "open" /\ ~va.leave /\ va.wu.canonical = 0 /\ UNCHANGED res
      BY <1>4 DEF ValidatorCheckSet
    <3>2. QED
      BY <1>1, <1>4, <3>1, CheckSetMoves DEF ValidatorFresh
  <2>2. ASSUME NEW r \in Results
        PROVE  /\ ValidatorJudges(va.res[r], va'.res[r])
               /\ r \notin va'.todo => SameVerdict(va'.res[r], va.res[r])
               /\ r \in va'.todo => va.res[r].server \in {"UNSENT", "OVER"}
    BY <1>4, CheckSetCopy
  <2>3. ASSUME NEW r \in Results PROVE Fresh(r)
    <3>1. /\ RowSound(va.res[r]) /\ SameReturn(va.res[r], res[r])
          /\ SameVerdict(va.res[r], res[r])
      BY <1>1, <2>1 DEF ValidatorFresh
    <3>2. RowSound(va'.res[r]) /\ SameReturn(va'.res[r], va.res[r])
      BY <2>2, <3>1, JudgedSound DEF ValidatorJudges
    <3>3. r \in va'.todo => r \in Exists(res)
      BY <1>2, <2>2, <3>1 DEF SameVerdict, Exists
    <3>4. QED
      BY <2>1, <2>2, <3>1, <3>2, <3>3 DEF Fresh, SameReturn, SameVerdict
  <2>4. c # 0 => c \in Exists(va'.res)
    <3>1. SUFFICES ASSUME c # 0 PROVE c \in Exists(va'.res)
      OBVIOUS
    <3>2. va.res[c].server = "OVER" /\ c \in Results
      BY <1>4, <3>1, CheckSetMoves
    <3>3. va'.res[c].server = "OVER"
      BY <2>2, <3>2 DEF ValidatorJudges, SameVerdict
    <3>4. QED
      BY <1>2, <3>2, <3>3 DEF Exists
  <2>5. QED
    BY <2>1, <2>3, <2>4 DEF Order
<1>5. ASSUME NEW q \in Results, InValidator(ValidatorCheckPair(q))
      PROVE  (\A r \in Results : Fresh(r)) /\ Order
  <2>1. va.pc = "open" /\ ValidatorCheckPair(q) /\ UNCHANGED res
    BY <1>5 DEF InValidator, ValidatorCheckPair, dbVars
  <2>2. /\ va'.todo = {q} /\ va.todo = {} /\ va'.wu = va.wu /\ va.wu.canonical # 0
        /\ CanonicalKnown /\ Success(va.res[q])
    BY <2>1, CheckPairCopy
  <2>3. ASSUME NEW r \in Results
        PROVE  ValidatorJudges(va.res[r], va'.res[r]) /\ (r # q => va'.res[r] = va.res[r])
    BY <2>1, CheckPairCopy
  <2>4. ASSUME NEW r \in Results PROVE Fresh(r)
    <3>1. /\ RowSound(va.res[r]) /\ SameReturn(va.res[r], res[r])
          /\ SameVerdict(va.res[r], res[r])
      BY <1>1, <2>1, <2>2 DEF ValidatorFresh
    <3>2. RowSound(va'.res[r]) /\ SameReturn(va'.res[r], va.res[r])
      BY <2>3, <3>1, JudgedSound DEF ValidatorJudges
    <3>3. r \in va'.todo => r \in Exists(res)
      BY <1>2, <2>2, <3>1 DEF SameVerdict, Exists, Success
    <3>4. QED
      BY <2>1, <2>2, <2>3, <3>1, <3>2, <3>3 DEF Fresh, SameReturn, SameVerdict
  <2>5. va.wu.canonical \in Exists(va'.res)
    <3>1. va.wu.canonical \in Exists(va.res) /\ va.wu.canonical \in Results
      BY <1>2, <2>1, <2>2 DEF CanonicalKnown, Exists
    <3>2. QED
      BY <1>2, <2>3, <3>1 DEF Exists, ValidatorJudges, SameVerdict
  <2>6. QED
    BY <2>2, <2>4, <2>5 DEF Order
<1>6. ASSUME NEW q \in Results, InValidator(ValidatorUpdateResult(q)), va.pc = "open",
             va'.res = va.res, va'.wu = va.wu, va'.todo = va.todo \ {q}, va'.leave = va.leave
      PROVE  (\A r \in Results : Fresh(r)) /\ Order
  <2>1. q \in Exists(res)
    BY <1>1, <1>6 DEF InValidator, ValidatorUpdateResult, ValidatorFresh
  <2>2. /\ SameVerdict(res'[q], va.res[q]) /\ SameReturn(res'[q], res[q])
        /\ \A r \in Results \ {q} : RowKept(r)
    BY <1>6, <2>1, VerdictWritten
  <2>3. ASSUME NEW r \in Results \ {q} PROVE Fresh(r)
    BY <1>1, <1>2, <1>6, <2>2 DEF ValidatorFresh, RowKept, Fresh, SameReturn, SameVerdict,
       Exists
  <2>4. Fresh(q)
    BY <1>1, <1>6, <2>2 DEF ValidatorFresh, Fresh, SameReturn, SameVerdict
  <2>5. Order
    BY <1>1, <1>6 DEF ValidatorFresh, Order, CanonicalKnown
  <2>6. QED
    BY <2>3, <2>4, <2>5
<1>7. ASSUME va.pc = "open", va'.res = va.res, va'.wu = va.wu, va'.todo = va.todo,
             \A r \in Results : RowKept(r),
             va'.leave = va.leave \/ (va'.leave /\ (va.wu.canonical = 0 \/ CanonicalKnown))
      PROVE  (\A r \in Results : Fresh(r)) /\ Order
  <2>1. ASSUME NEW r \in Results PROVE Fresh(r)
    BY <1>1, <1>2, <1>7 DEF ValidatorFresh, RowKept, Fresh, SameReturn, SameVerdict, Exists
  <2>2. Order
    BY <1>1, <1>7 DEF ValidatorFresh, Order, CanonicalKnown
  <2>3. QED
    BY <2>1, <2>2
<1>8. CASE ~InValidator(ValidatorNext)
  <2>1. UNCHANGED va
    BY <1>8, MemoryOwners
  <2>2. TimeOnly
    BY <1>8, <2>1, ValidatorWaits DEF NothingOverwritten
  <2>3. QED
    BY <1>7, <2>1, <2>2 DEF TimeOnly
<1>9. CASE /\ InValidator(ValidatorNext) /\ ~ValidatorEnumerate
           /\ ~\E q \in Results : ValidatorCheckPair(q)
           /\ ~\E flaky : \E c \in Results \cup {0} : ValidatorCheckSet(flaky, c)
  <2>1. ValidatorNext
    BY <1>9 DEF InValidator
  <2>2. /\ va.pc = "open" /\ va'.res = va.res /\ va'.wu = va.wu
        /\ \/ /\ \E q \in Results : ValidatorUpdateResult(q) /\ va'.todo = va.todo \ {q}
              /\ va'.granted = 0 /\ va'.leave = va.leave
           \/ /\ \E q \in Results : ValidatorGrantCredit(q) /\ va'.granted = q
              /\ va'.todo = va.todo /\ va'.leave = va.leave
           \/ /\ va'.todo = va.todo /\ va'.granted = va.granted /\ va'.leave
              /\ UNCHANGED <<res, credit>>
              /\ va.wu.canonical = 0 \/ CanonicalKnown
    BY <1>9, <2>1, PassCopy
  <2>3. CASE \E q \in Results : ValidatorUpdateResult(q) /\ va'.todo = va.todo \ {q}
                                /\ va'.leave = va.leave
    BY <1>6, <1>9, <2>2, <2>3 DEF InValidator
  <2>4. CASE UNCHANGED res /\ va'.todo = va.todo
    BY <1>7, <2>2, <2>4 DEF RowKept, SameReturn, SameVerdict, ValidatorUpdateResult
  <2>5. QED
    BY <2>2, <2>3, <2>4 DEF ValidatorGrantCredit, dbVars
<1>10. QED
  BY <1>3, <1>4, <1>5, <1>8, <1>9 DEF InValidator

\* A result that nothing was received for stays so until its request writes it.
LEMMA StepKeepsUntaken ==
    ASSUME TypeOK, MemoriesAreSafe, [Next]_vars, ReturnsSound, NothingOverwritten,
           NEW h \in Hosts, ~InCgi(h, CgiNext(h)), cgi[h].op # "idle",
           NEW r \in Results, Untaken(h, r)
    PROVE  Untaken(h, r)'
<1>1. RowSound(res[r])
  BY DEF ReturnsSound, RowsSound
<1>2. CASE RowKept(r)
  BY <1>2 DEF RowKept, SameReturn, SameVerdict, Untaken
<1>3. CASE RowIssued(r) \/ RowCancelled(r)
  BY <1>1, <1>3 DEF RowIssued, RowCancelled, RowSound, Untaken
<1>4. CASE RowByTransitioner(r) \/ RowByValidator(r)
  BY <1>4 DEF RowByTransitioner, RowByValidator, SameReturn, Exists, Untaken
<1>5. CASE RowPurged(r)
  BY <1>5 DEF RowPurged, PurgedRow, Untaken
<1>6. ASSUME NEW k \in Hosts, RowByCgi(k, r) PROVE Untaken(h, r)'
  <2>1. k # h
    BY <1>6 DEF RowByCgi, RowSent, RowReported, RowDetached, InCgi, CgiNext, CgiStep
  <2>2. CASE "cgi" \notin Preemptible
    BY <1>2, <2>2, RequestWaits DEF TimeOnly
  <2>3. CASE "cgi" \in Preemptible
    <3>1. MayMove = {}
      BY <2>3 DEF NothingOverwritten
    <3>2. CASE RowSent(k, r)
      BY <1>1, <2>1, <3>1, <3>2 DEF RowSent, RowSound, Untaken
    <3>3. CASE RowReported(k, r) \/ RowDetached(k, r)
      <4>1. Untaken(k, r) /\ res[r].server # "PURGED"
        BY <3>3 DEF RowReported, RowDetached, ReturnsSound, ReportSound, Exists
      <4>2. QED
        BY <2>1, <3>1, <4>1 DEF Untaken
    <3>4. QED
      BY <1>6, <3>2, <3>3 DEF RowByCgi
  <2>4. QED
    BY <2>2, <2>3
<1>7. QED
  BY <1>2, <1>3, <1>4, <1>5, <1>6, RowSteps

LEMMA StepKeepsReportSound ==
    ASSUME TypeOK, MemoriesAreSafe, [Next]_vars, ReturnsSound, NothingOverwritten,
           NEW h \in Hosts
    PROVE  ReportSound(h)'
<1>1. NoHost \notin Hosts /\ MayMove \subseteq Hosts
  BY ParamAssumption, SchedulerAssumption
<1>2. CASE InCgi(h, CgiNext(h)) /\ CgiRequest(h)
  <2>1. UNCHANGED res
    BY <1>2, RequestBegins DEF dbVars
  <2>2. ASSUME cgi'[h].op = "report"
        PROVE  Untaken(h, cgi'[h].r) /\ cgi'[h].validate # "VALID" /\ cgi'[h].out \in Returns
    <3>1. /\ cgi'[h].r \in Results /\ cgi'[h].out \in Returns
          /\ MayReport(h, cgi'[h].r) /\ Accepts(res[cgi'[h].r])
          /\ cgi'[h].validate = IF Succeeded(cgi'[h].out) THEN res[cgi'[h].r].validate
                                ELSE "INVALID"
      <4>1. cgi[h].op = "idle"
        BY <1>2, RequestBegins
      <4>2. QED
        BY <1>2, <2>2, <4>1, RequestBegins
    <3>2. RowSound(res[cgi'[h].r])
      BY <3>1 DEF ReturnsSound, RowsSound
    <3>3. cgi'[h].validate # "VALID"
      BY <3>1, <3>2 DEF RowSound, Accepts, Success
    <3>4. Untaken(h, cgi'[h].r)
      BY <1>1, <3>1 DEF Untaken, MayReport, Accepts
    <3>5. QED
      BY <3>1, <3>3, <3>4
  <2>3. ASSUME cgi'[h].op \in {"detach", "detachWu"}
        PROVE  MayDetach # {} /\ \A r \in cgi'[h].todo : Untaken(h, r)
    <3>1. /\ h \in MayDetach
          /\ cgi'[h].todo = {r \in Results : res[r].server = "IN_PROGRESS" /\ res[r].host = h}
      <4>1. cgi[h].op = "idle"
        BY <1>2, RequestBegins
      <4>2. QED
        BY <1>2, <2>3, <4>1, RequestBegins
    <3>2. \A r \in Results : res[r].server # "OVER" => ~res[r].received
      BY DEF ReturnsSound, RowsSound, RowSound
    <3>3. QED
      BY <1>1, <3>1, <3>2 DEF Untaken
  <2>4. \A r : Untaken(h, r) => Untaken(h, r)'
    BY <2>1 DEF Untaken
  <2>5. QED
    BY <2>2, <2>3, <2>4 DEF ReportSound, Untaken
<1>3. CASE InCgi(h, CgiNext(h)) /\ (CgiStep(h) \/ CgiCrash(h))
  <2>1. cgi'[h].op # "report"
    BY <1>3, RequestGoesOn
  <2>2. ASSUME cgi'[h].op \in {"detach", "detachWu"}
        PROVE  MayDetach # {} /\ \A r \in cgi'[h].todo : Untaken(h, r)'
    <3>1. CASE DetachTrigger(h) /\ cgi[h].op = "detachWu" /\ Keeps(h)
      BY <3>1 DEF DetachTrigger, Keeps, ReturnsSound, ReportSound, Untaken
    <3>2. ASSUME NEW q \in Results, DetachResult(h, q), cgi[h].op = "detach",
                 cgi'[h].todo = cgi[h].todo \ {q}
          PROVE  MayDetach # {} /\ \A r \in cgi'[h].todo : Untaken(h, r)'
      <4>1. MayDetach # {} /\ \A r \in cgi[h].todo : Untaken(h, r)
        BY <3>2 DEF ReturnsSound, ReportSound
      <4>2. \A r \in Results \ {q} : res'[r] = res[r]
        BY <3>2 DEF DetachResult, UpdateResult, TypeOK, DbTypeOK
      <4>3. cgi[h].todo \subseteq Results
        BY DEF TypeOK, SchedulerTypeOK
      <4>4. QED
        BY <3>2, <4>1, <4>2, <4>3 DEF Untaken
    <3>3. QED
      BY <1>3, <2>2, <3>1, <3>2, RequestGoesOn
  <2>3. QED
    BY <2>1, <2>2 DEF ReportSound
<1>4. CASE ~InCgi(h, CgiNext(h))
  <2>1. cgi'[h] = cgi[h]
    BY <1>4, MemoryOwners
  <2>2. ReportSound(h)
    BY DEF ReturnsSound
  <2>3. cgi[h].todo \subseteq Results /\ (cgi[h].op = "report" => cgi[h].r \in Results)
    BY DEF TypeOK, SchedulerTypeOK
  <2>4. cgi[h].op # "idle" => \A r \in Results : Untaken(h, r) => Untaken(h, r)'
    BY <1>4, StepKeepsUntaken
  <2>5. ASSUME NEW r \in Results, cgi[h].op = "report", cgi[h].r = r PROVE Untaken(h, r)'
    BY <2>2, <2>4, <2>5 DEF ReportSound
  <2>6. QED
    BY <2>1, <2>2, <2>3, <2>4, <2>5 DEF ReportSound, Untaken
<1>5. QED
  BY <1>2, <1>3, <1>4 DEF InCgi, CgiNext

\* What came back is not overwritten by a pass that read the row before, nor by
\* another request: there is a verdict only on what came back (ReturnsSound).
THEOREM ReturnsAreKept ==
    ASSUME NothingOverwritten
    PROVE  Spec => []ReturnsSound
<1>1. Init => ReturnsSound
  <2>1. SUFFICES ASSUME Init PROVE ReturnsSound
    OBVIOUS
  <2>2. RowsSound
    BY <2>1 DEF Init, DbInit, NoRow, RowSound, RowsSound
  <2>3. QED
    BY <2>1, <2>2 DEF Init, TransitionerInit, transitionerIdle, ValidatorInit, validatorIdle,
       SchedulerInit, cgiIdle, ReturnsSound, TransitionerFresh, ValidatorFresh, ReportSound
<1>2. TypeOK /\ TypeOK' /\ MemoriesAreSafe /\ ReturnsSound /\ [Next]_vars => ReturnsSound'
  <2>1. SUFFICES ASSUME TypeOK, TypeOK', MemoriesAreSafe, ReturnsSound, [Next]_vars
                 PROVE  ReturnsSound'
    OBVIOUS
  <2>2. RowsSound' /\ TransitionerFresh' /\ ValidatorFresh'
    BY <2>1, StepKeepsRowsSound, StepKeepsTransitionerFresh, StepKeepsValidatorFresh
  <2>3. \A h \in Hosts : ReportSound(h)'
    BY <2>1, StepKeepsReportSound
  <2>4. QED
    BY <2>2, <2>3 DEF ReturnsSound
<1>3. QED
  BY <1>1, <1>2, TypeCorrect, StaleMemoriesAreSafe, PTL DEF Spec

\* What is recorded stays, until the row is deleted.
LEMMA RecordedStays ==
    ASSUME TypeOK, MemoriesAreSafe, [Next]_vars, ReturnsSound, MayDetach = {},
           NEW r \in Results, NEW out, Recorded(r, out)
    PROVE  Recorded(r, out)'
<1>1. CASE RowKept(r)
  BY <1>1 DEF RowKept, SameReturn, SameVerdict, Recorded
<1>2. CASE RowIssued(r) \/ RowCancelled(r)
  BY <1>2 DEF RowIssued, RowCancelled, Recorded
<1>3. CASE RowByTransitioner(r) \/ RowByValidator(r)
  BY <1>3 DEF RowByTransitioner, RowByValidator, SameReturn, SameVerdict, Exists, Recorded
<1>4. CASE RowPurged(r)
  BY <1>4 DEF RowPurged, PurgedRow, Recorded
<1>5. ASSUME NEW h \in Hosts, RowByCgi(h, r) PROVE FALSE
  <2>1. ~RowSent(h, r)
    BY DEF RowSent, Recorded
  <2>2. ~RowReported(h, r)
    BY DEF RowReported, ReturnsSound, ReportSound, Untaken, Exists, Recorded
  <2>3. ~RowDetached(h, r)
    BY DEF RowDetached, ReturnsSound, ReportSound
  <2>4. QED
    BY <1>5, <2>1, <2>2, <2>3 DEF RowByCgi
<1>6. QED
  BY <1>1, <1>2, <1>3, <1>4, <1>5, RowSteps

\* Who acknowledges: the end of a report, or a report that is ignored.
LEMMA AckMoves ==
    ASSUME NEW h \in Hosts, CgiNext(h)
    PROVE  \/ acked' = acked
           \/ /\ cgi[h].op = "trigger" /\ Succeeded(cgi[h].out)
              /\ acked' = acked \cup {cgi[h].r}
           \/ \E r \in Results : ReportIgnored(h, r)
<1>1. CASE ReportTrigger(h)
  BY <1>1 DEF ReportTrigger
<1>2. CASE ~ReportTrigger(h)
  BY <1>2 DEF CgiNext, CgiRequest, CgiStep, CgiCrash, SelectResult, ResendLost, Report, Detach,
     SendUpdateWorkunit, SendMarkAsSent, SendReplicate, ResendExpire, ResendExpireWorkunit,
     ReportUpdate, DetachResult, DetachTrigger
<1>3. QED
  BY <1>1, <1>2

\* A report that is ignored is about a result that was received before.
LEMMA IgnoredIsRecorded ==
    ASSUME TypeOK, RowsSound, MayDetach = {}, NEW h \in Hosts, NEW r \in Results,
           ReportIgnored(h, r)
    PROVE  \E out \in Outputs \cup {"unreadable"} : Recorded(r, out)
<1>1. RowSound(res[r]) /\ res[r] \in ResultRow
  BY DEF RowsSound, TypeOK, DbTypeOK
<1>2. res[r].host # NoHost /\ ~Accepts(res[r]) /\ (res[r].out = "none" \/ Succeeded(res[r].out))
  BY ParamAssumption, SchedulerAssumption DEF ReportIgnored, MayReport
<1>3. res[r].server = "OVER" /\ res[r].received
  BY <1>1, <1>2 DEF RowSound, Accepts, ResultRow, ServerStates
<1>4. res[r].out \in Outputs \cup {"unreadable"}
  BY <1>1, <1>2, <1>3 DEF RowSound, Succeeded, Returns
<1>5. QED
  BY <1>3, <1>4 DEF Recorded

\* The row of a report is written before it is acknowledged.
LEMMA StepKeepsTriggerRecorded ==
    ASSUME TypeOK, MemoriesAreSafe, [Next]_vars, ReturnsSound, AcksSound, MayDetach = {},
           NEW h \in Hosts, cgi'[h].op = "trigger"
    PROVE  Recorded(cgi[h].r, cgi[h].out)'
<1>1. CASE InCgi(h, CgiNext(h))
  <2>1. InCgi(h, ReportUpdate(h)) /\ cgi[h].op = "report" /\ Keeps(h)
    <3>1. ~CgiRequest(h)
      BY RequestBegins
    <3>2. QED
      BY <1>1, <3>1, RequestGoesOn DEF InCgi, CgiNext
  <2>2. PICK r \in Results : cgi[h].r = r /\ cgi'[h].r = r
    BY <2>1 DEF Keeps, TypeOK, SchedulerTypeOK
  <2>3. Untaken(h, r) /\ RowSound(res[r])
    BY <2>1, <2>2 DEF ReturnsSound, RowsSound, ReportSound
  <2>4. CASE r \notin Exists(res)
    <3>1. res' = res
      BY <2>1, <2>2, <2>4 DEF InCgi, ReportUpdate, UpdateResult
    <3>2. res[r].server \in {"NONE", "PURGED"}
      BY <2>4 DEF Exists, TypeOK, DbTypeOK
    <3>3. res[r].server = "PURGED"
      BY <2>3, <3>2 DEF Untaken, RowSound
    <3>4. QED
      BY <2>2, <3>1, <3>3 DEF Recorded
  <2>5. CASE r \in Exists(res)
    <3> DEFINE outcome == IF Succeeded(cgi[h].out) THEN "SUCCESS" ELSE "CLIENT_ERROR"
               row == [res[r] EXCEPT !.server = "OVER", !.host = h, !.received = TRUE,
                                     !.late = TRUE, !.out = cgi[h].out,
                                     !.validate = cgi[h].validate, !.outcome = outcome]
    <3>1. res' = [res EXCEPT ![r] = row]
      BY <2>1, <2>2, <2>5 DEF InCgi, ReportUpdate, UpdateResult
    <3>2. res[r] \in ResultRow /\ res \in Rows
      BY DEF TypeOK, DbTypeOK, Rows
    <3>3. row.server = "OVER" /\ row.received /\ row.out = cgi[h].out
      BY <3>2 DEF ResultRow
    <3> HIDE DEF row
    <3>4. res'[r] = row
      BY <3>1, <3>2 DEF Rows
    <3>5. QED
      BY <2>1, <2>2, <3>3, <3>4 DEF Recorded, Keeps
  <2>6. QED
    BY <2>4, <2>5
<1>2. CASE ~InCgi(h, CgiNext(h))
  <2>1. cgi'[h] = cgi[h]
    BY <1>2, MemoryOwners
  <2>2. PICK r \in Results : cgi[h].r = r
    BY <2>1 DEF TypeOK, SchedulerTypeOK
  <2>3. PICK out : cgi[h].out = out
    OBVIOUS
  <2>4. Recorded(r, out)'
    BY <2>1, <2>2, <2>3, RecordedStays DEF AcksSound
  <2>5. QED
    BY <2>1, <2>2, <2>3, <2>4 DEF Recorded
<1>3. QED
  BY <1>1, <1>2

\* A client forgets a result once it is told that the server has it: what it was
\* told is in the database, and no pass that read the row before, no retried,
\* repeated or second report writes it off (AckedSuccessIsRecorded).
THEOREM AcknowledgedIsKept ==
    ASSUME NothingOverwritten, MayDetach = {}
    PROVE  Spec => []AckedSuccessIsRecorded
<1>1. Init => AcksSound
  BY DEF Init, SchedulerInit, cgiIdle, AcksSound
<1>2. TypeOK /\ MemoriesAreSafe /\ ReturnsSound /\ AcksSound /\ [Next]_vars => AcksSound'
  <2>1. SUFFICES ASSUME TypeOK, MemoriesAreSafe, ReturnsSound, AcksSound, [Next]_vars
                 PROVE  AcksSound'
    OBVIOUS
  <2>2. acked \subseteq Results
    BY <2>1 DEF TypeOK, SchedulerTypeOK
  <2>3. ASSUME NEW r \in Results,
               \E out \in Outputs \cup {"unreadable"} : Recorded(r, out)
        PROVE  \E out \in Outputs \cup {"unreadable"} : Recorded(r, out)'
    BY <2>1, <2>3, RecordedStays
  <2>4. ASSUME NEW r \in acked' PROVE \E out \in Outputs \cup {"unreadable"} : Recorded(r, out)'
    <3>1. CASE r \in acked
      BY <2>1, <2>2, <2>3, <3>1 DEF AcksSound
    <3>2. CASE r \notin acked
      <4>1. PICK h \in Hosts : CgiNext(h)
        BY <2>1, <2>4, <3>2, MemoryOwners DEF InCgi
      <4>2. CASE /\ cgi[h].op = "trigger" /\ Succeeded(cgi[h].out)
                 /\ acked' = acked \cup {cgi[h].r}
        <5>1. r \in Results /\ Recorded(r, cgi[h].out)
          BY <2>1, <2>4, <3>2, <4>2 DEF AcksSound, TypeOK, SchedulerTypeOK
        <5>2. QED
          BY <2>3, <4>2, <5>1 DEF Succeeded
      <4>3. ASSUME NEW q \in Results, ReportIgnored(h, q)
            PROVE  \E out \in Outputs \cup {"unreadable"} : Recorded(r, out)'
        <5>1. r = q
          BY <2>4, <3>2, <4>3 DEF ReportIgnored
        <5>2. QED
          BY <2>1, <2>3, <4>3, <5>1, IgnoredIsRecorded DEF ReturnsSound
      <4>4. QED
        BY <2>4, <3>2, <4>1, <4>2, <4>3, AckMoves
    <3>3. QED
      BY <3>1, <3>2
  <2>5. ASSUME NEW h \in Hosts, cgi'[h].op = "trigger"
        PROVE  Recorded(cgi[h].r, cgi[h].out)'
    BY <2>1, <2>5, StepKeepsTriggerRecorded
  <2>6. QED
    BY <2>4, <2>5 DEF AcksSound, Recorded
<1>3. Spec => []AcksSound
  BY <1>1, <1>2, TypeCorrect, StaleMemoriesAreSafe, ReturnsAreKept, PTL DEF Spec
<1>4. TypeOK /\ ReturnsSound /\ AcksSound => AckedSuccessIsRecorded
  <2>1. SUFFICES ASSUME TypeOK, ReturnsSound, AcksSound, NEW r \in acked \cap Exists(res)
                 PROVE  res[r].outcome \in {"SUCCESS", "VALIDATE_ERROR"}
    BY DEF AckedSuccessIsRecorded
  <2>2. r \in Results /\ res[r].server # "PURGED"
    BY <2>1 DEF TypeOK, DbTypeOK, Exists
  <2>3. PICK out \in Outputs \cup {"unreadable"} : Recorded(r, out)
    BY <2>1 DEF AcksSound
  <2>4. RowSound(res[r]) /\ res[r].received /\ Succeeded(res[r].out)
    BY <2>1, <2>2, <2>3 DEF ReturnsSound, RowsSound, Recorded, Succeeded
  <2>5. QED
    BY <2>4 DEF RowSound
<1>5. QED
  BY <1>3, <1>4, TypeCorrect, ReturnsAreKept, PTL

-----------------------------------------------------------------------------
\* Verdicts agree with the canonical result, and each is paid for once.

ValidOf(S) == {r \in Results : S[r].validate = "VALID"}
AgreesWith(S, c) ==
    \/ S[c].server = "PURGED"
    \/ /\ S[c].received /\ S[c].out \in Outputs
       /\ \A r \in ValidOf(S) : S[r].out = S[c].out

\* Without a canonical result nothing is valid, but for what a pass that was cut
\* short has left, or the pass that elects one has written so far.
VerdictsSound ==
    /\ wu.canonical # 0 => AgreesWith(res, wu.canonical)
    /\ wu.exists /\ wu.canonical = 0 /\ ValidOf(res) # {} =>
          faults > 0 \/ (va.pc = "open" /\ va.wu.canonical # 0)
    /\ va.pc = "open" =>
          /\ va.wu.canonical # 0 => AgreesWith(va.res, va.wu.canonical)
          /\ va.wu.canonical = 0 /\ ValidOf(va.res) # {} => faults > 0

\* What was paid for is valid in its row, or about to be; what remains to be
\* written was not paid for before this pass.
CreditSound ==
    /\ \A r \in Results : credit[r] # 0 =>
          \/ credit[r] = 1 /\ (res[r].server = "PURGED" \/ res[r].validate = "VALID")
          \/ credit[r] = 1 /\ va.pc = "open" /\ va.granted = r
    /\ va.pc = "open" =>
          /\ \A r \in va.todo : credit[r] = 0 <=> va.granted # r
          /\ va.granted # 0 => va.granted \in va.todo /\ va.res[va.granted].validate = "VALID"

\* What came back and was judged stays; only the validator declares results valid.
LEMMA VerdictMoves ==
    ASSUME TypeOK, MemoriesAreSafe, [Next]_vars, ReturnsSound, NEW r \in Results
    PROVE  /\ res[r].server = "PURGED" => res'[r].server = "PURGED"
           /\ res[r].received => res'[r].server = "PURGED" \/ SameReturn(res'[r], res[r])
           /\ res'[r].validate = "VALID" => RowByValidator(r) \/ res[r].validate = "VALID"
           /\ res[r].validate = "VALID" =>
                 \/ RowByValidator(r)
                 \/ res'[r].validate = "VALID" \/ res'[r].server = "PURGED"
<1>1. RowSound(res[r])
  BY DEF ReturnsSound, RowsSound
<1>2. CASE RowKept(r)
  BY <1>2 DEF RowKept, SameVerdict
<1>3. CASE RowIssued(r)
  BY <1>1, <1>3 DEF RowIssued, NewResult, NoRow, RowSound, Success
<1>4. CASE RowPurged(r)
  BY <1>4 DEF RowPurged, PurgedRow, NoRow
<1>5. CASE RowCancelled(r)
  BY <1>1, <1>5 DEF RowCancelled, RowSound
<1>6. CASE RowByTransitioner(r)
  <2>1. tr.res[r].validate = "VALID" <=> res[r].validate = "VALID"
    BY <1>6 DEF RowByTransitioner, InTransitioner, TransitionerUpdateResult, ReturnsSound,
       TransitionerFresh
  <2>2. QED
    BY <1>6, <2>1 DEF RowByTransitioner, SameVerdict, Exists
<1>7. CASE RowByValidator(r)
  BY <1>7 DEF RowByValidator, Exists
<1>8. ASSUME NEW h \in Hosts, RowByCgi(h, r)
      PROVE  /\ res[r].server # "PURGED" /\ ~res[r].received
             /\ res'[r].validate # "VALID" /\ res[r].validate # "VALID"
  <2>1. CASE RowSent(h, r)
    BY <1>1, <2>1 DEF RowSent, RowSound, Success
  <2>2. CASE RowReported(h, r)
    <3>1. Untaken(h, r) /\ res[r].server # "PURGED" /\ cgi[h].validate # "VALID"
      BY <2>2 DEF RowReported, ReturnsSound, ReportSound, Exists
    <3>2. QED
      BY <1>1, <2>2, <3>1 DEF RowReported, Untaken, RowSound, Success
  <2>3. CASE RowDetached(h, r)
    <3>1. Untaken(h, r) /\ res[r].server # "PURGED"
      BY <2>3 DEF RowDetached, ReturnsSound, ReportSound, Exists
    <3>2. QED
      BY <1>1, <2>3, <3>1 DEF RowDetached, Untaken, RowSound, Success
  <2>4. QED
    BY <1>8, <2>1, <2>2, <2>3 DEF RowByCgi
<1>9. QED
  BY <1>2, <1>3, <1>4, <1>5, <1>6, <1>7, <1>8, RowSteps

\* Agreement lasts, if the validator writes nothing else.
LEMMA AgreementStays ==
    ASSUME TypeOK, MemoriesAreSafe, [Next]_vars, ReturnsSound, NEW c \in Results,
           AgreesWith(res, c),
           \A r \in Results : RowByValidator(r) /\ va.res[r].validate = "VALID" =>
                                 res[r].out = res[c].out
    PROVE  AgreesWith(res', c)
<1>1. CASE res'[c].server = "PURGED"
  BY <1>1 DEF AgreesWith
<1>2. CASE res'[c].server # "PURGED"
  <2>1. /\ res[c].received /\ res[c].out \in Outputs /\ SameReturn(res'[c], res[c])
        /\ \A r \in ValidOf(res) : res[r].out = res[c].out
    BY <1>2, VerdictMoves DEF AgreesWith
  <2>2. ASSUME NEW r \in Results, res'[r].validate = "VALID" PROVE res'[r].out = res[c].out
    <3>1. CASE RowByValidator(r)
      BY <2>2, <3>1 DEF RowByValidator, SameReturn, SameVerdict
    <3>2. CASE ~RowByValidator(r)
      <4>1. res[r].validate = "VALID"
        BY <2>2, <3>2, VerdictMoves
      <4>2. res[r].received
        BY <4>1 DEF ReturnsSound, RowsSound, RowSound, Success
      <4>3. RowSound(res'[r])
        BY StepKeepsRowsSound DEF RowsSound
      <4>4. SameReturn(res'[r], res[r])
        BY <2>2, <4>2, <4>3, VerdictMoves DEF RowSound, Success
      <4>5. QED
        BY <2>1, <4>1, <4>4 DEF ValidOf, SameReturn
    <3>3. QED
      BY <3>1, <3>2
  <2>3. QED
    BY <2>1, <2>2 DEF AgreesWith, ValidOf, SameReturn
<1>3. QED
  BY <1>1, <1>2

\* Failures are counted.
LEMMA FaultsGrow ==
    ASSUME TypeOK, [Next]_vars
    PROVE  /\ faults \in Nat /\ MaxFaults \in Nat
           /\ UNCHANGED faults \/ Fault
           /\ faults > 0 => faults' > 0
<1>1. faults \in Nat /\ MaxFaults \in Nat
  BY ParamAssumption DEF TypeOK, DbTypeOK
<1>2. CASE UNCHANGED vars \/ Purged \/ InTime(TransitionTimePasses)
           \/ \E r \in Results : InTime(DeadlinePasses(r))
  BY <1>1, <1>2, TimeSteps DEF TimeOnly
<1>3. CASE InTransitioner(TransitionerNext)
  <2>1. TransitionerCrash => Fault
    BY DEF TransitionerCrash
  <2>2. TransitionerEnumerate \/ TransitionerDecide \/ TransitionerRelease => UNCHANGED faults
    BY DEF TransitionerEnumerate, TransitionerDecide, TransitionerRelease, dbVars
  <2>3. TransitionerUpdateWorkunit => UNCHANGED faults
    BY DEF TransitionerUpdateWorkunit, dbVars
  <2>4. \A r : TransitionerUpdateResult(r) => UNCHANGED faults
    BY DEF TransitionerUpdateResult, dbVars
  <2>5. UNCHANGED faults \/ Fault
    BY <1>3, <2>1, <2>2, <2>3, <2>4 DEF InTransitioner, TransitionerNext, TransitionerStep
  <2>6. QED
    BY <1>1, <2>5 DEF Fault
<1>4. CASE InValidator(ValidatorNext)
  <2>1. ValidatorFlakyCheckSet \/ ValidatorCreditError \/ ValidatorRetryPair \/ ValidatorCrash
        => Fault
    BY DEF ValidatorFlakyCheckSet, ValidatorCreditError, ValidatorRetryPair, ValidatorCrash
  <2>2. ValidatorEnumerate \/ ValidatorNoCanonicalRow \/ ValidatorNoQuorum
          \/ ValidatorCheckedAll => UNCHANGED faults
    BY DEF ValidatorEnumerate, ValidatorNoCanonicalRow, ValidatorNoQuorum, ValidatorCheckedAll,
       dbVars
  <2>3. \A r : ValidatorCheckPair(r) \/ ValidatorGrantCredit(r) => UNCHANGED faults
    BY DEF ValidatorCheckPair, ValidatorGrantCredit, dbVars
  <2>4. \A r : ValidatorUpdateResult(r) => UNCHANGED faults
    BY DEF ValidatorUpdateResult
  <2>5. ValidatorUpdateWorkunit => UNCHANGED faults
    BY DEF ValidatorUpdateWorkunit
  <2>6. UNCHANGED faults \/ Fault
    BY <1>4, <2>1, <2>2, <2>3, <2>4, <2>5 DEF InValidator, ValidatorNext, ValidatorStep
  <2>7. QED
    BY <1>1, <2>6 DEF Fault
<1>5. CASE InAssimilator(AssimilatorNext) \/ InFileDeleter(FileDeleterNext)
  <2>1. AssimilatorNext => UNCHANGED faults \/ Fault
    BY DEF AssimilatorNext, AssimilatorStep, AssimilatorEnumerate, AssimilatorHandle,
       AssimilatorUpdateWorkunit, AssimilatorCrash, dbVars
  <2>2. FileDeleterNext => UNCHANGED faults \/ Fault
    BY DEF FileDeleterNext, FileDeleterStep, FileDeleteOutput, FileDeleteOutputFails,
       FileDeleteInput, FileDeleteInputFails, dbVars
  <2>3. UNCHANGED faults \/ Fault
    BY <1>5, <2>1, <2>2 DEF InAssimilator, InFileDeleter
  <2>4. QED
    BY <1>1, <2>3 DEF Fault
<1>6. CASE InPurge(PurgeNext) \/ InCancel(CancelNext)
  <2>1. PurgeNext => UNCHANGED faults \/ Fault
    BY DEF PurgeNext, PurgeStep, PurgeEnumerate, PurgeResult, PurgeWorkunit, PurgeCrash, dbVars
  <2>2. CancelNext => UNCHANGED faults \/ Fault
    BY DEF CancelNext, CancelResults, CancelWorkunit, dbVars
  <2>3. UNCHANGED faults \/ Fault
    BY <1>6, <2>1, <2>2 DEF InPurge, InCancel
  <2>4. QED
    BY <1>1, <2>3 DEF Fault
<1>7. ASSUME NEW h \in Hosts, InCgi(h, CgiNext(h)) PROVE UNCHANGED faults \/ Fault
  <2>1. CgiRequest(h) \/ CgiCrash(h) => UNCHANGED faults \/ Fault
    BY DEF CgiRequest, CgiCrash, SelectResult, ResendLost, ReportIgnored, Report, Detach, dbVars
  <2>2. CgiStep(h) => UNCHANGED faults \/ Fault
    BY DEF CgiStep, SendUpdateWorkunit, SendMarkAsSent,
       SendReplicate, ResendExpire, ResendExpireWorkunit, ReportUpdate, ReportTrigger,
       DetachResult, DetachTrigger, dbVars
  <2>3. QED
    BY <1>7, <2>1, <2>2 DEF InCgi, CgiNext
<1>8. UNCHANGED faults \/ Fault
  BY <1>2, <1>3, <1>4, <1>5, <1>6, <1>7 DEF Next
<1>9. QED
  BY <1>1, <1>8 DEF Fault

\* Who elects, and who deletes.
LEMMA ElectionIsWritten ==
    ASSUME TypeOK, [Next]_vars
    PROVE  /\ wu'.exists => wu.exists
           /\ \/ wu'.canonical = wu.canonical
              \/ /\ InValidator(ValidatorUpdateWorkunit) /\ wu.exists
                 /\ wu'.canonical = va.wu.canonical
           /\ wu.exists /\ InValidator(ValidatorUpdateWorkunit) =>
                 wu'.canonical = va.wu.canonical
<1>1. CASE ~JobWritten
  BY <1>1, WhoWritesJob DEF SameJob, JobWritten
<1>2. CASE JobWritten
  <2>1. ~wu.exists => SameJob(wu, wu')
    BY <1>2, JobWrites
  <2>2. wu.exists /\ InValidator(ValidatorUpdateWorkunit) => wu'.canonical = va.wu.canonical
    BY JobWrites DEF InValidator
  <2>3. wu.exists /\ ~InValidator(ValidatorUpdateWorkunit) => wu'.canonical = wu.canonical
    BY <1>2, JobWrites DEF JobWritten, InTransitioner, InAssimilator, InFileDeleter, InPurge,
       InCancel
  <2>4. QED
    BY <2>1, <2>2, <2>3 DEF SameJob
<1>3. QED
  BY <1>1, <1>2

\* A pass ends in one of three ways.
LEMMA PassEnds ==
    ASSUME TypeOK, ValidatorNext, va.pc = "open", va'.pc # "open"
    PROVE  ValidatorCrash \/ ValidatorNoCanonicalRow \/ ValidatorUpdateWorkunit
<1>1. va \in ValidatorMemory
  BY DEF TypeOK, ValidatorTypeOK, ValidatorMemory, Rows
<1>2. ~ValidatorEnumerate
  BY DEF ValidatorEnumerate
<1>3. ASSUME NEW flaky, NEW c \in Results \cup {0}, ValidatorCheckSet(flaky, c)
      PROVE  FALSE
  <2>1. PICK S, T, w : \/ va' = Elected([va EXCEPT !.leave = TRUE, !.when = w, !.res = S,
                                                   !.todo = T], c)
                       \/ va' = NotElected([va EXCEPT !.leave = TRUE, !.when = w, !.res = S,
                                                      !.todo = T], Viable(va.res))
    BY <1>3 DEF ValidatorCheckSet
  <2>2. va'.pc = va.pc
    BY <1>1, <2>1 DEF Elected, NotElected, ValidatorMemory
  <2>3. QED
    BY <2>2
<1>4. \A q \in Results : ~ValidatorCheckPair(q) /\ ~ValidatorGrantCredit(q)
                         /\ ~ValidatorUpdateResult(q)
  BY <1>1 DEF ValidatorCheckPair, ValidatorGrantCredit, ValidatorUpdateResult, ValidatorMemory
<1>5. /\ ~ValidatorNoQuorum /\ ~ValidatorCheckedAll /\ ~ValidatorCreditError
      /\ ~ValidatorRetryPair
  BY <1>1 DEF ValidatorNoQuorum, ValidatorCheckedAll, ValidatorCreditError, ValidatorRetryPair,
     ValidatorMemory
<1>6. QED
  BY <1>2, <1>3, <1>4, <1>5 DEF ValidatorNext, ValidatorStep, ValidatorFlakyCheckSet

\* Part A: rows agree with the canonical result when it is written, and after.
LEMMA StepKeepsAgreement ==
    ASSUME TypeOK, MemoriesAreSafe, CanonicalSeen, [Next]_vars, ReturnsSound, VerdictsSound,
           wu'.canonical # 0
    PROVE  AgreesWith(res', wu'.canonical)
<1>1. ValidatorFresh
  BY DEF ReturnsSound
<1>2. CASE wu'.canonical = wu.canonical
  <2> DEFINE c == wu.canonical
  <2>1. c \in Results /\ AgreesWith(res, c)
    BY <1>2 DEF TypeOK, DbTypeOK, WorkunitRow, VerdictsSound
  <2>2. CASE res[c].server = "PURGED"
    BY <1>2, <2>1, <2>2, VerdictMoves DEF AgreesWith
  <2>3. CASE res[c].server # "PURGED"
    <3>1. ASSUME NEW r \in Results, RowByValidator(r), va.res[r].validate = "VALID"
          PROVE  res[r].out = res[c].out
      <4>1. va.pc = "open" /\ va.todo # {} /\ va.wu.canonical = c
        BY <1>2, <3>1 DEF RowByValidator, InValidator, ValidatorUpdateResult, CanonicalSeen
      <4>2. c \in Exists(va.res) /\ AgreesWith(va.res, c)
        BY <1>1, <1>2, <4>1 DEF ValidatorFresh, CanonicalKnown, VerdictsSound
      <4>3. va.res[r].out = va.res[c].out
        BY <3>1, <4>2 DEF AgreesWith, ValidOf, Exists
      <4>4. SameReturn(va.res[r], res[r]) /\ SameReturn(va.res[c], res[c])
        BY <1>1, <2>1, <4>1 DEF ValidatorFresh
      <4>5. QED
        BY <4>3, <4>4 DEF SameReturn
    <3>2. QED
      BY <1>2, <2>1, <3>1, AgreementStays
  <2>4. QED
    BY <2>2, <2>3
<1>3. CASE wu'.canonical # wu.canonical
  <2> DEFINE c == va.wu.canonical
  <2>1. InValidator(ValidatorUpdateWorkunit) /\ wu'.canonical = c
    BY <1>3, ElectionIsWritten
  <2>2. va.pc = "open" /\ va.leave /\ va.todo = {} /\ UNCHANGED res
    BY <2>1 DEF InValidator, ValidatorUpdateWorkunit
  <2>3. c \in Exists(va.res) /\ AgreesWith(va.res, c)
    BY <1>1, <2>1, <2>2 DEF ValidatorFresh, CanonicalKnown, VerdictsSound
  <2>4. \A r \in Results : SameReturn(va.res[r], res[r]) /\ SameVerdict(va.res[r], res[r])
    BY <1>1, <2>2 DEF ValidatorFresh
  <2>5. c \in Results /\ va.res[c].server # "PURGED"
    BY <2>2, <2>3 DEF TypeOK, ValidatorTypeOK, Exists
  <2>6. AgreesWith(res, c)
    BY <2>3, <2>4, <2>5 DEF AgreesWith, ValidOf, SameReturn, SameVerdict
  <2>7. QED
    BY <2>1, <2>2, <2>6
<1>4. QED
  BY <1>2, <1>3

\* Part B: before the election no row is valid, unless a pass was cut short.
LEMMA StepKeepsNoneValid ==
    ASSUME TypeOK, TypeOK', MemoriesAreSafe, CanonicalSeen, HeldByValidator, [Next]_vars,
           ReturnsSound, VerdictsSound, wu'.exists, wu'.canonical = 0,
           NEW r \in Results, res'[r].validate = "VALID"
    PROVE  faults' > 0 \/ (va'.pc = "open" /\ va'.wu.canonical # 0)
<1>1. wu.exists /\ wu.canonical = 0 /\ ValidatorFresh
  BY ElectionIsWritten, StepKeepsCanonical DEF ReturnsSound
<1>2. CASE RowByValidator(r)
  <2>1. va.pc = "open" /\ va.res[r].validate = "VALID"
    BY <1>2 DEF RowByValidator, SameVerdict, InValidator, ValidatorUpdateResult
  <2>2. faults > 0 \/ va.wu.canonical # 0
    BY <2>1 DEF VerdictsSound, ValidOf
  <2>3. va'.pc = "open" /\ va'.wu = va.wu
    BY <1>2, <2>1 DEF RowByValidator, InValidator, ValidatorUpdateResult, TypeOK,
       ValidatorTypeOK
  <2>4. QED
    BY <2>2, <2>3, FaultsGrow
<1>3. CASE ~RowByValidator(r) /\ ~(faults > 0)
  <2>1. res[r].validate = "VALID"
    BY <1>3, VerdictMoves
  <2>2. va.pc = "open" /\ va.wu.canonical # 0
    BY <1>1, <1>3, <2>1 DEF VerdictsSound, ValidOf
  <2>3. CASE UNCHANGED va
    BY <2>2, <2>3
  <2>4. CASE InValidator(ValidatorNext) /\ va'.pc = "open"
    BY <2>2, <2>4, ValidatorMemoryMoves DEF InValidator, ValidatorEnumerate
  <2>5. CASE InValidator(ValidatorNext) /\ va'.pc # "open"
    <3>1. ~ValidatorNoCanonicalRow
      BY <1>1, <2>2 DEF ValidatorNoCanonicalRow, ValidatorFresh, HeldByValidator
    <3>2. ~ValidatorUpdateWorkunit
      BY <1>1, <2>2, <2>5, ElectionIsWritten DEF InValidator
    <3>3. ValidatorCrash
      BY <2>2, <2>5, <3>1, <3>2, PassEnds DEF InValidator
    <3>4. QED
      BY <3>3, FaultsGrow DEF ValidatorCrash, Fault
  <2>6. QED
    BY <2>3, <2>4, <2>5, MemoryOwners
<1>4. QED
  BY <1>2, <1>3, FaultsGrow

\* Part C: the copy that a pass of the validator works on.
CopyAgrees ==
    va.pc = "open" =>
        /\ va.wu.canonical # 0 => AgreesWith(va.res, va.wu.canonical)
        /\ va.wu.canonical = 0 /\ ValidOf(va.res) # {} => faults > 0

\* What check_set() elects agrees with all it declares valid, if no directory is
\* unreadable for a moment, or nothing was valid before.
LEMMA ElectedAgrees ==
    ASSUME TypeOK, [Next]_vars, ValidatorFresh, VerdictsSound, NEW flaky,
           NEW c \in Results \cup {0}, ValidatorCheckSet(flaky, c),
           flaky = {} \/ ValidOf(va.res) = {}
    PROVE  CopyAgrees'
<1>1. va.pc = "open" /\ va.wu.canonical = 0 /\ va'.wu.canonical = c
  BY CheckSetMoves
<1> DEFINE good == {q \in Viable(va.res) \ flaky : Readable(va.res, q)}
<1>2. ASSUME NEW r \in Results, va'.res[r].validate = "VALID"
      PROVE  \/ c # 0 /\ r \in Matching(va.res, good, c)
             \/ c = 0 /\ va.res[r].validate = "VALID"
  <2>1. RowSound(va.res[r])
    BY <1>1 DEF ValidatorFresh
  <2>2. va.res[r].validate = "VALID" => Success(va.res[r]) /\ r \notin flaky
    BY <2>1 DEF RowSound, ValidOf
  <2>3. \/ c # 0 /\ r \in Matching(va.res, good, c)
        \/ va.res[r].validate = "VALID" /\ (r \in flaky \/ ~Success(va.res[r]) \/ c = 0)
    BY <1>2, CheckSetCopy
  <2>4. QED
    BY <2>2, <2>3
<1>3. CASE c = 0
  <2>1. ValidOf(va.res) # {} => faults > 0
    BY <1>1 DEF VerdictsSound
  <2>2. ValidOf(va'.res) \subseteq ValidOf(va.res)
    BY <1>2, <1>3 DEF ValidOf
  <2>3. QED
    BY <1>1, <1>3, <2>1, <2>2, FaultsGrow DEF CopyAgrees
<1>4. CASE c # 0
  <2>1. c \in Results /\ c \in good
    BY <1>4, CheckSetCopy
  <2>2. /\ Success(va.res[c]) /\ va.res[c].out \in Outputs /\ RowSound(va.res[c])
        /\ SameReturn(va'.res[c], va.res[c])
    <3>1. c \in Viable(va.res) /\ Readable(va.res, c)
      BY <2>1
    <3>2. Success(va.res[c]) /\ va.res[c].out \in Outputs
      BY <3>1 DEF Viable, Readable
    <3>3. ValidatorJudges(va.res[c], va'.res[c])
      BY <2>1, CheckSetCopy
    <3>4. QED
      BY <1>1, <2>1, <3>2, <3>3 DEF ValidatorFresh, ValidatorJudges
  <2>3. va'.res[c].received /\ va'.res[c].out \in Outputs
    BY <2>2 DEF RowSound, SameReturn, Success
  <2>4. ASSUME NEW r \in Results, va'.res[r].validate = "VALID"
        PROVE  va'.res[r].out = va'.res[c].out
    <3>1. va.res[r].out = va.res[c].out
      BY <1>2, <1>4, <2>4 DEF Matching
    <3>2. SameReturn(va'.res[r], va.res[r])
      BY CheckSetCopy DEF ValidatorJudges
    <3>3. QED
      BY <2>2, <3>1, <3>2 DEF SameReturn
  <2>5. QED
    BY <1>1, <1>4, <2>3, <2>4 DEF CopyAgrees, AgreesWith, ValidOf
<1>5. QED
  BY <1>3, <1>4

LEMMA StepKeepsCopyAgrees ==
    ASSUME TypeOK, TypeOK', MaxFaults <= 1, [Next]_vars, ReturnsSound, VerdictsSound
    PROVE  CopyAgrees'
<1>1. ValidatorFresh /\ CopyAgrees
  BY DEF ReturnsSound, VerdictsSound, CopyAgrees
<1>2. faults \in Nat /\ (faults > 0 => faults' > 0)
  BY FaultsGrow
<1>3. CASE UNCHANGED va
  BY <1>1, <1>2, <1>3 DEF CopyAgrees
<1>4. CASE InValidator(ValidatorEnumerate)
  <2>1. /\ wu.exists /\ va.pc = "idle" /\ UNCHANGED faults /\ va'.wu = wu /\ va'.res = res
    BY <1>4 DEF InValidator, ValidatorEnumerate, dbVars
  <2>2. QED
    BY <2>1 DEF VerdictsSound, CopyAgrees
<1>5. ASSUME NEW flaky, NEW c \in Results \cup {0}, ValidatorCheckSet(flaky, c),
             flaky = {} \/ Fault
      PROVE  CopyAgrees'
  <2>1. ASSUME Fault PROVE ValidOf(va.res) = {}
    <3>1. ~(faults > 0)
      BY <1>2, <2>1, FaultsGrow DEF Fault
    <3>2. va.pc = "open" /\ va.wu.canonical = 0
      BY <1>5, CheckSetMoves
    <3>3. QED
      BY <1>1, <3>1, <3>2 DEF CopyAgrees
  <2>2. QED
    BY <1>1, <1>5, <2>1, ElectedAgrees
<1>6. ASSUME NEW q \in Results, ValidatorCheckPair(q) PROVE CopyAgrees'
  <2> DEFINE c == va.wu.canonical
  <2>1. /\ va.pc = "open" /\ va'.wu = va.wu /\ c \in Exists(va.res) /\ c # 0
    BY <1>6, CheckPairCopy DEF ValidatorCheckPair, CanonicalKnown
  <2>2. c \in Results /\ va.res[c].server # "PURGED" /\ AgreesWith(va.res, c)
    BY <1>1, <2>1 DEF TypeOK, ValidatorTypeOK, Exists, CopyAgrees
  <2>3. SameReturn(va'.res[c], va.res[c])
    BY <1>6, <2>2, CheckPairCopy DEF ValidatorJudges
  <2>4. ASSUME NEW r \in Results, va'.res[r].validate = "VALID"
        PROVE  va.res[r].out = va.res[c].out /\ SameReturn(va'.res[r], va.res[r])
    BY <1>6, <2>2, <2>4, CheckPairCopy DEF ValidatorJudges, AgreesWith, ValidOf
  <2>5. QED
    BY <2>1, <2>2, <2>3, <2>4 DEF CopyAgrees, AgreesWith, ValidOf, SameReturn
<1>7. ASSUME \/ ValidatorNoQuorum \/ ValidatorCheckedAll \/ ValidatorCreditError
             \/ ValidatorRetryPair
             \/ \E q \in Results : ValidatorGrantCredit(q) \/ ValidatorUpdateResult(q)
      PROVE  CopyAgrees'
  <2>1. va.pc = "open" /\ va \in ValidatorMemory
    BY <1>7 DEF ValidatorNoQuorum, ValidatorCheckedAll, ValidatorCreditError,
       ValidatorRetryPair, ValidatorGrantCredit, ValidatorUpdateResult, TypeOK,
       ValidatorTypeOK, ValidatorMemory, Rows
  <2>2. va'.res = va.res /\ va'.wu = va.wu
    BY <1>7, <2>1 DEF ValidatorNoQuorum, ValidatorCheckedAll, ValidatorCreditError,
       ValidatorRetryPair, ValidatorGrantCredit, ValidatorUpdateResult, ValidatorMemory
  <2>3. QED
    BY <1>1, <1>2, <2>1, <2>2 DEF CopyAgrees
<1>8. CASE InValidator(ValidatorNext) /\ va'.pc = "open"
  <2>1. ~ValidatorNoCanonicalRow /\ ~ValidatorUpdateWorkunit /\ ~ValidatorCrash
    BY <1>8 DEF ValidatorNoCanonicalRow, ValidatorUpdateWorkunit, ValidatorCrash, validatorIdle
  <2>2. ValidatorNext /\ (ValidatorEnumerate => InValidator(ValidatorEnumerate))
    BY <1>8 DEF InValidator
  <2>3. QED
    BY <1>4, <1>5, <1>6, <1>7, <2>1, <2>2 DEF ValidatorNext, ValidatorStep,
       ValidatorFlakyCheckSet
<1>9. QED
  BY <1>3, <1>8, MemoryOwners DEF CopyAgrees

\* The verdicts and what the validator remembers of them.
LEMMA StepKeepsVerdicts ==
    ASSUME TypeOK, TypeOK', MemoriesAreSafe, CanonicalSeen, HeldByValidator, [Next]_vars,
           ReturnsSound, VerdictsSound, MaxFaults <= 1
    PROVE  VerdictsSound'
<1>1. (wu.canonical # 0 => AgreesWith(res, wu.canonical))'
  BY StepKeepsAgreement DEF AgreesWith, ValidOf
<1>2. (wu.exists /\ wu.canonical = 0 /\ ValidOf(res) # {} =>
          faults > 0 \/ (va.pc = "open" /\ va.wu.canonical # 0))'
  BY StepKeepsNoneValid DEF ValidOf
<1>3. CopyAgrees'
  BY StepKeepsCopyAgrees
<1>4. QED
  BY <1>1, <1>2, <1>3 DEF VerdictsSound, CopyAgrees

\* What is declared valid agrees with the canonical result, also after one crash or
\* one failure of the file system.
THEOREM ValidMeansEqual ==
    ASSUME NothingOverwritten, MaxFaults <= 1
    PROVE  Spec => []ValidResultsAgree
<1>1. Init => VerdictsSound
  <2>1. SUFFICES ASSUME Init PROVE VerdictsSound
    OBVIOUS
  <2>2. wu.canonical = 0 /\ va.pc = "idle" /\ ValidOf(res) = {}
    BY <2>1 DEF Init, DbInit, NewWorkunit, NoRow, ValidatorInit, validatorIdle, ValidOf
  <2>3. QED
    BY <2>2 DEF VerdictsSound
<1>2. /\ TypeOK /\ TypeOK' /\ MemoriesAreSafe /\ FateSound /\ JobHeld /\ ReturnsSound
      /\ VerdictsSound /\ [Next]_vars
      => VerdictsSound'
  BY StepKeepsVerdicts DEF FateSound, JobHeld
<1>3. "validator" \notin Preemptible /\ "transitioner" \notin Preemptible
  BY DEF NothingOverwritten
<1>4. Spec => []VerdictsSound
  BY <1>1, <1>2, <1>3, TypeCorrect, StaleMemoriesAreSafe, DecisionsAreSafe, CopiesAreFresh,
     ReturnsAreKept, PTL DEF Spec
<1>5. TypeOK /\ VerdictsSound => ValidResultsAgree
  <2>1. SUFFICES ASSUME TypeOK, VerdictsSound, wu.canonical # 0, wu.canonical \in Exists(res)
                 PROVE  /\ res[wu.canonical].out \in Outputs
                        /\ \A r \in Exists(res) : res[r].validate = "VALID" =>
                              res[r].out = res[wu.canonical].out
    BY DEF ValidResultsAgree
  <2>2. AgreesWith(res, wu.canonical) /\ res[wu.canonical].server # "PURGED"
    BY <2>1 DEF VerdictsSound, Exists
  <2>3. Exists(res) \subseteq Results
    BY <2>1 DEF TypeOK, DbTypeOK, Exists
  <2>4. QED
    BY <2>2, <2>3 DEF AgreesWith, ValidOf
<1>6. QED
  BY <1>4, <1>5, TypeCorrect, PTL

\* Nothing is granted when a pass is over, or has nothing to write.
LEMMA GrantedInTodo ==
    ASSUME CreditSound, va.pc = "open", va.todo = {}
    PROVE  va.granted = 0
BY DEF CreditSound

\* A step of another process.
LEMMA CreditStays ==
    ASSUME TypeOK, MemoriesAreSafe, [Next]_vars, ReturnsSound, CreditSound,
           UNCHANGED <<va, credit>>, ~\E r \in Results : RowByValidator(r)
    PROVE  CreditSound'
<1>1. ASSUME NEW r \in Results, res[r].server = "PURGED" \/ res[r].validate = "VALID"
      PROVE  res'[r].server = "PURGED" \/ res'[r].validate = "VALID"
  BY <1>1, VerdictMoves
<1>2. QED
  BY <1>1 DEF CreditSound

\* A result is paid for once by a pass that is not cut short.
LEMMA StepKeepsCredit ==
    ASSUME TypeOK, TypeOK', MemoriesAreSafe, MaxFaults = 0, [Next]_vars, ReturnsSound,
           VerdictsSound, CreditSound
    PROVE  CreditSound'
<1>1. 0 \notin Results /\ 1 \in Results
  BY ParamAssumption DEF Results
<1>2. ValidatorFresh /\ ~Fault /\ ~(faults > 0)
  BY FaultsGrow DEF ReturnsSound, Fault, TypeOK, DbTypeOK
<1>3. va.pc = "open" => /\ va \in ValidatorMemory /\ va.todo \subseteq Results
                        /\ va.res \in [Results -> ResultRow]
  BY DEF TypeOK, ValidatorTypeOK, ValidatorMemory, Rows
<1>4. CASE ~InValidator(ValidatorNext)
  <2>1. UNCHANGED <<va, credit>>
    BY <1>4, MemoryOwners
  <2>2. ~\E r \in Results : RowByValidator(r)
    BY <1>4 DEF RowByValidator, InValidator, ValidatorNext, ValidatorStep
  <2>3. QED
    BY <2>1, <2>2, CreditStays
<1>5. CASE ValidatorEnumerate
  <2>1. va.pc = "idle" /\ va'.todo = {} /\ va'.granted = 0 /\ UNCHANGED <<res, credit>>
    BY <1>5 DEF ValidatorEnumerate, dbVars
  <2>2. QED
    BY <2>1 DEF CreditSound
<1>6. ASSUME NEW c \in Results \cup {0}, ValidatorCheckSet({}, c)
      PROVE  CreditSound'
  <2>1. va.pc = "open" /\ va.todo = {} /\ va.wu.canonical = 0 /\ UNCHANGED <<res, credit>>
    BY <1>1, <1>2, <1>6, CheckSetMoves DEF ValidatorFresh, ValidatorCheckSet
  <2>2. va.granted = 0 /\ va'.granted = 0 /\ ValidOf(va.res) = {}
    BY <1>1, <1>2, <1>6, <2>1, GrantedInTodo, CheckSetCopy DEF VerdictsSound
  <2>3. ASSUME va'.pc = "open", NEW r \in va'.todo PROVE credit[r] = 0
    <3>1. r \in Results
      BY <2>3 DEF TypeOK, ValidatorTypeOK
    <3>2. va.res[r].server \in {"UNSENT", "OVER"} /\ va.res[r].validate # "VALID"
      BY <1>6, <2>2, <2>3, <3>1, CheckSetCopy DEF ValidOf
    <3>3. SameVerdict(va.res[r], res[r])
      BY <1>1, <1>2, <2>1, <3>1 DEF ValidatorFresh
    <3>4. QED
      BY <1>1, <2>1, <2>2, <3>1, <3>2, <3>3 DEF CreditSound, SameVerdict
  <2>4. \A r \in Results : credit[r] # 0 =>
          credit[r] = 1 /\ (res[r].server = "PURGED" \/ res[r].validate = "VALID")
    BY <1>1, <1>2, <2>2 DEF CreditSound
  <2>5. va'.pc = "open" => 0 \notin va'.todo
    BY <1>1 DEF TypeOK, ValidatorTypeOK
  <2>6. QED
    BY <2>1, <2>2, <2>3, <2>4, <2>5 DEF CreditSound
<1>7. ASSUME NEW q \in Results, ValidatorCheckPair(q) PROVE CreditSound'
  <2>1. /\ va.pc = "open" /\ va.todo = {} /\ va'.todo = {q} /\ va'.granted = va.granted
        /\ va.res[q].validate \in {"INIT", "INCONCLUSIVE"} /\ Success(va.res[q])
        /\ UNCHANGED <<res, credit>>
    BY <1>7, CheckPairCopy DEF ValidatorCheckPair, dbVars
  <2>2. va.granted = 0 /\ SameVerdict(va.res[q], res[q])
    BY <1>1, <1>2, <2>1, GrantedInTodo DEF ValidatorFresh
  <2>3. credit[q] = 0
    BY <1>1, <1>2, <2>1, <2>2 DEF CreditSound, SameVerdict, Success
  <2>4. QED
    BY <1>1, <1>2, <2>1, <2>2, <2>3 DEF CreditSound
<1>8. ASSUME NEW q \in Results, ValidatorGrantCredit(q) PROVE CreditSound'
  <2>1. /\ va.pc = "open" /\ q \in va.todo /\ va.granted = 0 /\ va.res[q].validate = "VALID"
        /\ UNCHANGED res
    BY <1>8 DEF ValidatorGrantCredit, dbVars
  <2>2. va'.granted = q /\ va'.todo = va.todo /\ va'.res = va.res /\ va'.pc = "open"
    BY <1>3, <1>8, <2>1 DEF ValidatorGrantCredit, ValidatorMemory
  <2>3. credit[q] = 0 /\ \A r \in va.todo : credit[r] = 0
    BY <1>1, <1>2, <1>3, <2>1 DEF CreditSound
  <2>4. credit'[q] = 1 /\ \A r \in Results \ {q} : credit'[r] = credit[r]
    BY <1>8, <2>3 DEF ValidatorGrantCredit, TypeOK, ValidatorTypeOK
  <2>5. QED
    BY <1>1, <1>2, <1>3, <2>1, <2>2, <2>3, <2>4 DEF CreditSound
<1>9. ASSUME NEW q \in Results, InValidator(ValidatorUpdateResult(q)) PROVE CreditSound'
  <2>1. /\ va.pc = "open" /\ q \in va.todo /\ UNCHANGED credit
        /\ va.granted = (IF va.res[q].validate = "VALID" THEN q ELSE 0)
    BY <1>9 DEF InValidator, ValidatorUpdateResult
  <2>2. va'.granted = 0 /\ va'.todo = va.todo \ {q} /\ va'.pc = "open"
    BY <1>3, <1>9, <2>1 DEF InValidator, ValidatorUpdateResult, ValidatorMemory
  <2>3. /\ res'[q].validate = va.res[q].validate
        /\ \A r \in Results \ {q} : SameVerdict(res'[r], res[r])
    BY <1>1, <1>2, <1>9, <2>1, VerdictWritten DEF ValidatorFresh, SameVerdict, RowKept
  <2>4. va.granted # q => credit[q] = 0
    BY <2>1 DEF CreditSound
  <2>5. ASSUME NEW r \in Results, credit[r] # 0
        PROVE  credit[r] = 1 /\ (res'[r].server = "PURGED" \/ res'[r].validate = "VALID")
    BY <1>1, <1>2, <2>1, <2>3, <2>4, <2>5 DEF CreditSound, SameVerdict
  <2>6. QED
    BY <1>1, <1>2, <1>3, <2>1, <2>2, <2>5 DEF CreditSound
<1>10. CASE ValidatorNoQuorum \/ ValidatorCheckedAll
  <2>1. va.pc = "open" /\ UNCHANGED <<res, credit>>
    BY <1>10 DEF ValidatorNoQuorum, ValidatorCheckedAll, dbVars
  <2>2. /\ va'.granted = va.granted /\ va'.todo = va.todo /\ va'.res = va.res
        /\ va'.pc = "open"
    BY <1>3, <1>10, <2>1 DEF ValidatorNoQuorum, ValidatorCheckedAll, ValidatorMemory
  <2>3. QED
    BY <2>1, <2>2 DEF CreditSound
<1>11. CASE ValidatorNoCanonicalRow \/ ValidatorUpdateWorkunit
  <2>1. /\ va.pc = "open" /\ va.todo = {} /\ UNCHANGED <<res, credit>> /\ va'.pc = "idle"
    BY <1>1, <1>2, <1>11 DEF ValidatorNoCanonicalRow, ValidatorUpdateWorkunit, ValidatorFresh, dbVars,
       validatorIdle
  <2>2. QED
    BY <1>1, <1>2, <2>1, GrantedInTodo DEF CreditSound
<1>12. QED
  <2>1. CASE InValidator(ValidatorNext)
    BY <1>1, <1>2, <1>5, <1>6, <1>7, <1>8, <1>9, <1>10, <1>11, <2>1 DEF InValidator, ValidatorNext,
       ValidatorStep, ValidatorFlakyCheckSet, ValidatorCreditError, ValidatorRetryPair,
       ValidatorCrash
  <2>2. QED
    BY <1>4, <2>1

\* Whoever returned a result is paid at most once, if nothing fails between the
\* payment and the update of the row that records it.
THEOREM PaidOnce ==
    ASSUME NothingOverwritten, MaxFaults = 0
    PROVE  Spec => []CreditGrantedOnce
<1>1. Init => VerdictsSound /\ CreditSound
  <2>1. SUFFICES ASSUME Init PROVE VerdictsSound /\ CreditSound
    OBVIOUS
  <2>2. wu.canonical = 0 /\ va.pc = "idle" /\ ValidOf(res) = {} /\ \A r \in Results : credit[r] = 0
    BY <2>1 DEF Init, DbInit, NewWorkunit, NoRow, ValidatorInit, validatorIdle, ValidOf
  <2>3. QED
    BY <2>2 DEF VerdictsSound, CreditSound
<1>2. /\ TypeOK /\ TypeOK' /\ MemoriesAreSafe /\ FateSound /\ JobHeld /\ ReturnsSound
      /\ VerdictsSound /\ CreditSound /\ [Next]_vars
      => VerdictsSound' /\ CreditSound'
  BY StepKeepsVerdicts, StepKeepsCredit DEF FateSound, JobHeld
<1>3. "validator" \notin Preemptible /\ "transitioner" \notin Preemptible
  BY DEF NothingOverwritten
<1>4. Spec => []CreditSound
  BY <1>1, <1>2, <1>3, TypeCorrect, StaleMemoriesAreSafe, DecisionsAreSafe, CopiesAreFresh,
     ReturnsAreKept, PTL DEF Spec
<1>5. TypeOK /\ CreditSound => CreditGrantedOnce
  BY DEF TypeOK, ValidatorTypeOK, CreditSound, CreditGrantedOnce
<1>6. QED
  BY <1>4, <1>5, TypeCorrect, PTL

-----------------------------------------------------------------------------
\* Adaptive replication: whose word is taken for a result.

\* More than one result is compared, or the job is gone.
Replicated == wu.quorum > 1 \/ ~wu.exists

\* Clients that exchange results are trusted alike.
MovesWithinTrust == \A h, k \in MayMove : h \in Trusted <=> k \in Trusted

\* What came back from a host that is not trusted is compared; what is being
\* computed there will be.
Vouched(r) ==
    /\ res[r].received => res[r].host \in Trusted \/ (res[r].host \in Hosts /\ Replicated)
    /\ res[r].host \in Hosts \ Trusted => Replicated \/ cgi[res[r].host].op = "replicate"

RequestVouched(h) ==
    /\ cgi[h].op = "expire" => cgi[h].old = "IN_PROGRESS"
    /\ h \notin Trusted =>
          /\ cgi[h].op \in {"updateWu", "mark"} /\ ~cgi[h].replicate => Replicated
          /\ cgi[h].op = "report" => Replicated

PassVouched ==
    va.pc = "open" =>
        /\ wu.exists /\ va.wu.quorum = wu.quorum
        /\ va.wu.target = 1 \/ va.wu.quorum > 1
        /\ va.wu.canonical # 0 /\ wu.canonical = 0 =>
              \/ va.res[va.wu.canonical].host \in Trusted
              \/ Cardinality(ValidOf(va.res)) > 1

TrustSound ==
    /\ wu.target = 1 \/ Replicated
    /\ \A r \in Results : Vouched(r)
    /\ \A h \in Hosts : RequestVouched(h)
    /\ PassVouched

\* Who writes the quorum and the target.
LEMMA ReplicationWrites ==
    ASSUME TypeOK, [Next]_vars, wu'.exists
    PROVE  /\ wu.exists
           /\ \/ wu'.quorum = wu.quorum /\ wu'.target = wu.target
              \/ /\ InValidator(ValidatorUpdateWorkunit)
                 /\ wu'.quorum = wu.quorum /\ wu'.target = va.wu.target
              \/ \E h \in Hosts : SendReplicate(h) /\ wu'.quorum = AppTarget
<1>1. wu \in WorkunitRow /\ wu.exists
  BY ElectionIsWritten DEF TypeOK, DbTypeOK
<1> DEFINE Kept == wu'.quorum = wu.quorum /\ wu'.target = wu.target
<1>2. CASE InTransitioner(TransitionerNext)
  <2>1. TransitionerUpdateWorkunit => Kept
    BY <1>1 DEF TransitionerUpdateWorkunit, UpdateWorkunit, Merge, WorkunitRow
  <2>2. QED
    BY <1>1, <1>2, <2>1, PassesOnlyRead DEF InTransitioner
<1>3. CASE InValidator(ValidatorNext)
  <2>1. ValidatorUpdateWorkunit => wu'.quorum = wu.quorum /\ wu'.target = va.wu.target
    BY <1>1 DEF ValidatorUpdateWorkunit, UpdateWorkunit, WorkunitRow
  <2>2. QED
    BY <1>1, <1>3, <2>1, PassesOnlyRead DEF InValidator
<1>4. ASSUME NEW h \in Hosts, InCgi(h, CgiNext(h))
      PROVE  Kept \/ (SendReplicate(h) /\ wu'.quorum = AppTarget)
  <2>1. \A t : UpdateWuOnSend(h, t) => Kept
    BY <1>1 DEF UpdateWuOnSend, UpdateWorkunit, WorkunitRow
  <2>2. UpdateWorkunit([wu EXCEPT !.tt = "now"]) => Kept
    BY <1>1 DEF UpdateWorkunit, WorkunitRow
  <2>3. SendReplicate(h) => wu'.quorum = AppTarget
    BY <1>1 DEF SendReplicate, UpdateWorkunit, WorkunitRow
  <2>4. CASE SendUpdateWorkunit(h) \/ ResendExpireWorkunit(h)
    BY <2>1, <2>4 DEF SendUpdateWorkunit, ResendExpireWorkunit
  <2>5. CASE ReportTrigger(h) \/ DetachTrigger(h) \/ SendReplicate(h)
    BY <2>2, <2>3, <2>5 DEF ReportTrigger, DetachTrigger
  <2>6. QED
    BY <1>4, <2>4, <2>5
       DEF InCgi, CgiNext, CgiRequest, CgiStep, CgiCrash, SelectResult, ResendLost,
           ReportIgnored, Report, Detach, SendMarkAsSent, ResendExpire, ReportUpdate,
           DetachResult, dbVars
<1>5. CASE InAssimilator(AssimilatorNext) \/ InCancel(CancelNext)
  <2>1. AssimilatorHandle => Kept
    BY <1>1 DEF AssimilatorHandle, UpdateWorkunit, WorkunitRow
  <2>2. AssimilatorUpdateWorkunit => Kept
    BY <1>1 DEF AssimilatorUpdateWorkunit, UpdateWorkunit, WorkunitRow
  <2>3. CancelWorkunit => Kept
    BY <1>1 DEF CancelWorkunit, UpdateWorkunit, WorkunitRow
  <2>4. QED
    BY <1>1, <1>5, <2>1, <2>2, <2>3 DEF InAssimilator, AssimilatorNext, AssimilatorStep,
       AssimilatorEnumerate, AssimilatorCrash, InCancel, CancelNext, CancelResults, dbVars
<1>6. CASE InFileDeleter(FileDeleterNext) \/ InPurge(PurgeNext)
  BY <1>1, <1>6 DEF InFileDeleter, FileDeleterNext, FileDeleterStep, FileDeleteOutput,
     FileDeleteOutputFails, FileDeleteInput, FileDeleteInputFails, InPurge, PurgeNext,
     PurgeStep, PurgeEnumerate, PurgeResult, PurgeWorkunit, PurgeCrash, dbVars, WorkunitRow
<1>7. CASE \/ UNCHANGED vars \/ InTime(TransitionTimePasses) \/ Purged
           \/ \E r \in Results : InTime(DeadlinePasses(r))
  BY <1>1, <1>7, TimeSteps DEF TimeOnly, WorkunitRow
<1>8. QED
  BY <1>1, <1>2, <1>3, <1>4, <1>5, <1>6, <1>7 DEF Next

\* A job that is replicated remains so.
LEMMA ReplicatedStays ==
    ASSUME TypeOK, [Next]_vars, AppTarget > 1, Replicated
    PROVE  Replicated'
BY ReplicationWrites DEF Replicated

LEMMA StepKeepsTarget ==
    ASSUME TypeOK, [Next]_vars, AppTarget > 1, TrustSound
    PROVE  wu'.target = 1 \/ Replicated'
<1>1. CASE ~wu'.exists
  BY <1>1 DEF Replicated
<1>2. CASE wu'.exists /\ InValidator(ValidatorUpdateWorkunit)
  <2>1. va.pc = "open" /\ va.wu.quorum = wu.quorum /\ (va.wu.target = 1 \/ wu.quorum > 1)
    BY <1>2 DEF InValidator, ValidatorUpdateWorkunit, TrustSound, PassVouched
  <2>2. CASE wu.quorum > 1
    BY <2>2, ReplicatedStays DEF Replicated
  <2>3. CASE va.wu.target = 1
    BY <1>2, <2>3, ReplicationWrites DEF Replicated, TrustSound
  <2>4. QED
    BY <2>1, <2>2, <2>3
<1>3. CASE wu'.exists /\ ~InValidator(ValidatorUpdateWorkunit)
  BY <1>3, ReplicationWrites DEF Replicated, TrustSound
<1>4. QED
  BY <1>1, <1>2, <1>3

\* A host that is not trusted is not forgotten between the send and the replication.
LEMMA PendingReplicates ==
    ASSUME TypeOK, [Next]_vars, AppTarget > 1, ~Fault, NEW h \in Hosts,
           cgi[h].op = "replicate"
    PROVE  Replicated' \/ cgi'[h].op = "replicate"
<1>1. CASE ~InCgi(h, CgiNext(h))
  BY <1>1, MemoryOwners
<1>2. CASE InCgi(h, CgiNext(h))
  <2>1. SendReplicate(h)
    BY <1>2 DEF InCgi, CgiNext, CgiRequest, CgiStep, CgiCrash, SelectResult, ResendLost,
       ReportIgnored, Report, Detach, SendUpdateWorkunit, SendMarkAsSent, ResendExpire,
       ResendExpireWorkunit, ReportUpdate, ReportTrigger, DetachResult, DetachTrigger
  <2>2. wu.exists => wu'.quorum = AppTarget
    BY <2>1 DEF SendReplicate, UpdateWorkunit, TypeOK, DbTypeOK, WorkunitRow
  <2>3. ~wu.exists => ~wu'.exists
    BY ElectionIsWritten
  <2>4. QED
    BY <2>2, <2>3 DEF Replicated
<1>3. QED
  BY <1>1, <1>2

LEMMA StepKeepsVouched ==
    ASSUME TypeOK, MemoriesAreSafe, [Next]_vars, ReturnsSound, NothingOverwritten,
           AppTarget > 1, ~Fault, TrustSound, NEW r \in Results
    PROVE  Vouched(r)'
<1> DEFINE host == res[r].host
<1>1. /\ RowSound(res[r]) /\ Vouched(r) /\ NoHost \notin Hosts
      /\ res[r] \in ResultRow /\ host \in Hosts \cup {NoHost}
  BY ParamAssumption DEF ReturnsSound, RowsSound, TrustSound, TypeOK, DbTypeOK, ResultRow
<1>2. host \in Hosts \ Trusted => Replicated' \/ cgi'[host].op = "replicate"
  BY <1>1, ReplicatedStays, PendingReplicates DEF Vouched
<1>3. CASE SameReturn(res'[r], res[r])
  BY <1>1, <1>2, <1>3, ReplicatedStays DEF SameReturn, Vouched
<1>4. CASE RowIssued(r) \/ RowPurged(r)
  BY <1>1, <1>4 DEF RowIssued, RowPurged, NewResult, PurgedRow, NoRow, Vouched
<1>5. ASSUME NEW h \in Hosts, RowSent(h, r) PROVE Vouched(r)'
  <2>1. ~res'[r].received /\ res'[r].host = h
    BY <1>1, <1>5 DEF RowSent, RowSound
  <2>2. CASE host = h
    BY <1>2, <2>1, <2>2 DEF Vouched
  <2>3. CASE host # h /\ h \notin Trusted
    <3>1. cgi[h].op = "mark" /\ SendMarkAsSent(h) /\ res[cgi[h].r].server = cgi[h].old
      BY <1>5, <2>3 DEF RowSent, TrustSound, RequestVouched, InCgi, SendMarkAsSent, ResendExpire
    <3>2. CASE cgi[h].replicate
      <4>1. Goto(h, "replicate")
        BY <3>1, <3>2 DEF SendMarkAsSent
      <4>2. QED
        BY <2>1, <4>1, GotoKeeps DEF Vouched
    <3>3. CASE ~cgi[h].replicate
      BY <2>1, <2>3, <3>1, <3>3, ReplicatedStays DEF TrustSound, RequestVouched, Vouched
    <3>4. QED
      BY <3>2, <3>3
  <2>4. CASE h \in Trusted
    BY <2>1, <2>4 DEF Vouched
  <2>5. QED
    BY <2>2, <2>3, <2>4
<1>6. ASSUME NEW h \in Hosts, RowReported(h, r) PROVE Vouched(r)'
  <2>1. res'[r].host = h /\ (h \in Trusted \/ Replicated)
    BY <1>6 DEF RowReported, TrustSound, RequestVouched
  <2>2. QED
    BY <2>1, ReplicatedStays DEF Vouched
<1>7. ASSUME NEW h \in Hosts, RowDetached(h, r) PROVE Vouched(r)'
  <2>1. Untaken(h, r) /\ res[r].server # "PURGED"
    BY <1>7 DEF RowDetached, ReturnsSound, ReportSound, Exists
  <2>2. host \in Hosts /\ (MayMove = {} => host = h) /\ cgi[h].op = "detach"
    BY <1>1, <1>7, <2>1 DEF Untaken, RowDetached
  <2>3. host # h => cgi[host].op = "idle"
    BY <1>7, <2>2 DEF RowDetached, InCgi, NothingOverwritten
  <2>4. host \in Trusted \/ Replicated
    BY <1>1, <2>2, <2>3 DEF Vouched
  <2>5. res'[r].host = host
    BY <1>7 DEF RowDetached
  <2>6. QED
    BY <2>2, <2>4, <2>5, ReplicatedStays DEF Vouched
<1>8. QED
  BY <1>3, <1>4, <1>5, <1>6, <1>7, RowSteps DEF RowKept, RowByTransitioner, RowByValidator,
     RowCancelled, RowByCgi

LEMMA StepKeepsRequestVouched ==
    ASSUME TypeOK, [Next]_vars, NothingOverwritten, MovesWithinTrust, AppTarget > 1,
           TrustSound, NEW h \in Hosts
    PROVE  RequestVouched(h)'
<1>1. RequestVouched(h)
  BY DEF TrustSound
<1>2. CASE ~InCgi(h, CgiNext(h))
  <2>1. cgi'[h] = cgi[h]
    BY <1>2, MemoryOwners
  <2>2. QED
    BY <1>1, <2>1, ReplicatedStays DEF RequestVouched
<1>3. CASE InCgi(h, CgiNext(h)) /\ CgiRequest(h)
  <2>1. cgi[h].op = "idle" /\ (cgi'[h] = cgi[h] => RequestVouched(h)')
    BY <1>3, RequestBegins DEF RequestVouched
  <2>2. ASSUME cgi'[h].op = "updateWu", cgi'[h].replicate = NeedsReplication(h),
               ~cgi'[h].replicate, h \notin Trusted
        PROVE  Replicated'
    BY <2>2, ReplicatedStays DEF NeedsReplication, TrustSound
  <2>3. ASSUME cgi'[h].op = "report", cgi'[h].r \in Results, MayReport(h, cgi'[h].r),
               h \notin Trusted
        PROVE  Replicated'
    <3> DEFINE host == res[cgi'[h].r].host
    <3>1. host = h \/ (h \in MayMove /\ host \in MayMove)
      BY <2>3 DEF MayReport
    <3>2. host \in Hosts \ Trusted /\ (MayMove = {} => host = h)
      BY <2>3, <3>1, SchedulerAssumption DEF MovesWithinTrust
    <3>3. cgi[host].op = "idle"
      BY <1>3, <2>1, <3>2 DEF InCgi, NothingOverwritten
    <3>4. Replicated
      BY <2>3, <3>2, <3>3 DEF TrustSound, Vouched
    <3>5. QED
      BY <3>4, ReplicatedStays
  <2>4. cgi'[h].op = "expire" /\ cgi'[h] # cgi[h] => cgi'[h].old = "IN_PROGRESS"
    BY <1>3, RequestBegins
  <2>5. cgi'[h].op = "updateWu" /\ cgi'[h] # cgi[h] => cgi'[h].replicate = NeedsReplication(h)
    BY <1>3, RequestBegins
  <2>6. cgi'[h].op = "report" /\ cgi'[h] # cgi[h]
          => cgi'[h].r \in Results /\ MayReport(h, cgi'[h].r)
    BY <1>3, RequestBegins
  <2>7. cgi'[h].op # "mark" \/ cgi'[h] = cgi[h]
    BY <1>3, RequestBegins
  <2>8. QED
    BY <2>1, <2>2, <2>3, <2>4, <2>5, <2>6, <2>7 DEF RequestVouched
<1>4. CASE InCgi(h, CgiNext(h)) /\ (CgiStep(h) \/ CgiCrash(h))
  <2>1. cgi'[h].op \notin {"updateWu", "expire", "report"}
    BY <1>4, RequestGoesOn
  <2>2. cgi'[h].op = "mark" => cgi[h].op = "updateWu" /\ cgi'[h].replicate = cgi[h].replicate
    BY <1>4, RequestGoesOn DEF Keeps
  <2>3. QED
    BY <1>1, <2>1, <2>2, ReplicatedStays DEF RequestVouched
<1>5. QED
  BY <1>2, <1>3, <1>4 DEF InCgi, CgiNext

\* Counting what is there.
LEMMA SomeCount ==
    ASSUME NEW S \in SUBSET Results
    PROVE  /\ Cardinality(S) \in Nat /\ (S = {} => Cardinality(S) = 0)
           /\ \A r \in S : Cardinality(S) >= 1
           /\ \A T \in SUBSET S : Cardinality(T) <= Cardinality(S)
BY ResultsFinite, FS_Subset, FS_EmptySet, FS_CardinalityType

\* With a quorum of one, check_set() asks for more results only after a failure.
LEMMA CheckSetTarget ==
    ASSUME TypeOK, NEW c \in Results \cup {0}, ValidatorCheckSet({}, c),
           va.wu.quorum <= 1, va.wu.target = 1
    PROVE  va'.wu.target = 1
<1>1. va \in ValidatorMemory /\ va.res \in Rows /\ va.wu.quorum \in Nat /\ 0 \notin Results
  BY ParamAssumption DEF TypeOK, ValidatorTypeOK, ValidatorMemory, ValidatorCheckSet, Rows,
     WorkunitRow, Results
<1> DEFINE viable == Viable(va.res)
           good == {q \in viable \ {} : Readable(va.res, q)}
           mem == Inconclusive(CheckSet(va.res, viable, {}, c), viable)
           unneeded == {q \in Results : c # 0 /\ va.res[q].server = "UNSENT"}
           rows == [q \in Results |-> IF q \in unneeded
                      THEN [mem[q] EXCEPT !.server = "OVER", !.outcome = "DIDNT_NEED"]
                      ELSE mem[q]]
           todo == unneeded \cup {q \in viable : mem[q] # va.res[q] \/ mem[q].validate = "VALID"}
           v == [va EXCEPT !.leave = TRUE, !.when = IF {} = {} THEN @ ELSE "DELAYED",
                           !.res = rows, !.todo = todo]
           winners == Candidates(va.wu, va.res, good)
<1>2. /\ va' = IF c # 0 THEN Elected(v, c) ELSE NotElected(v, viable)
      /\ IF winners = {} THEN c = 0 ELSE c \in winners
  BY DEF ValidatorCheckSet
<1>3. /\ v.wu = va.wu /\ v.res = rows
      /\ v \in [pc : {"open"}, wu : WorkunitRow, res : {rows}, todo : {todo},
                granted : {va.granted}, leave : BOOLEAN,
                when : {"NO_CHANGE", "IMMEDIATE", "DELAYED", "NEVER"}]
  <2> HIDE DEF rows, todo
  <2>1. QED
    BY <1>1 DEF ValidatorMemory
<1>4. viable \subseteq Results /\ good \subseteq viable
  BY <1>1 DEF Viable, Rows
<1> HIDE DEF v, todo
<1>5. CASE c # 0
  <2>1. va' = [v EXCEPT !.wu.canonical = c, !.wu.assimilate = "READY", !.when = "NEVER"]
    BY <1>2, <1>5 DEF Elected
  <2> HIDE DEF rows
  <2>2. QED
    BY <1>3, <2>1 DEF WorkunitRow
<1>6. CASE c = 0
  <2>1. good = {}
    <3>1. SUFFICES ASSUME NEW r \in good PROVE FALSE
      OBVIOUS
    <3>2. r \in Matching(va.res, good, r) /\ Matching(va.res, good, r) \subseteq Results
      BY <1>4 DEF Matching
    <3> HIDE DEF good
    <3>3. Cardinality(good) >= 1 /\ Cardinality(Matching(va.res, good, r)) >= 1
      BY <1>4, <3>2, SomeCount
    <3>4. Cardinality(good) \in Nat /\ Cardinality(Matching(va.res, good, r)) \in Nat
      BY <1>4, <3>2, SomeCount
    <3>5. MinValid(va.wu) = 1
      <4>1. va.wu.quorum = 0 \/ va.wu.quorum = 1
        BY <1>1
      <4>2. QED
        BY <4>1 DEF MinValid
    <3>6. r \in winners
      BY <1>1, <3>3, <3>4, <3>5 DEF Candidates
    <3>7. c \in good
      BY <1>2, <3>6 DEF Candidates
    <3>8. QED
      BY <1>1, <1>4, <1>6, <3>7
  <2>2. ASSUME NEW r \in viable PROVE r \notin Viable(rows)
    <3>1. CheckSet(va.res, viable, {}, c)[r]
            = [va.res[r] EXCEPT !.outcome = "VALIDATE_ERROR", !.validate = "INVALID"]
      BY <1>1, <1>4, <2>1 DEF CheckSet, Rows
    <3>2. DOMAIN CheckSet(va.res, viable, {}, c) = Results
      BY <1>1 DEF CheckSet, Rows
    <3> DEFINE T == CheckSet(va.res, viable, {}, c)
    <3> HIDE DEF T
    <3>3. T[r].validate = "INVALID"
      <4>1. T[r] = [va.res[r] EXCEPT !.outcome = "VALIDATE_ERROR", !.validate = "INVALID"]
        BY <3>1 DEF T
      <4>2. va.res[r] \in ResultRow
        BY <1>1, <1>4 DEF Rows
      <4>3. QED
        BY <4>1, <4>2 DEF ResultRow
    <3>4. mem = Inconclusive(T, viable)
      BY DEF T
    <3>5. mem[r].validate = "INVALID"
      BY <1>4, <3>2, <3>3, <3>4 DEF Inconclusive, T
    <3> HIDE DEF mem
    <3>6. rows[r].validate = "INVALID"
      BY <1>4, <1>6, <3>5
    <3>7. QED
      BY <3>6 DEF Viable
  <2> DEFINE n == Cardinality(viable \cap Viable(v.res))
  <2>3. n = 0
    BY <1>3, <2>2, SomeCount
  <2> DEFINE target == IF n >= v.wu.target THEN n + 1 ELSE v.wu.target
  <2>4. PICK e, w : va' = [v EXCEPT !.wu.error = e, !.wu.target = target, !.when = w]
    BY <1>2, <1>6 DEF NotElected
  <2> HIDE DEF n
  <2>5. target = 1
    <3>1. v.wu.target = 1
      BY <1>3
    <3>2. QED
      BY <2>3, <3>1
  <2> HIDE DEF rows, target
  <2>6. QED
    BY <1>3, <2>4, <2>5 DEF WorkunitRow
<1>7. QED
  BY <1>5, <1>6

\* check_set() elects a result of a trusted host, or one that others equal.
LEMMA CheckSetVouches ==
    ASSUME TypeOK, NEW c \in Results, ValidatorCheckSet({}, c), ReturnsSound, TrustSound
    PROVE  va'.res[c].host \in Trusted \/ Cardinality(ValidOf(va'.res)) > 1
<1> DEFINE good == {q \in Viable(va.res) \ {} : Readable(va.res, q)}
           equal == Matching(va.res, good, c)
<1>1. c # 0 /\ 1 \in Results
  BY ParamAssumption DEF Results
<1>2. /\ c \in good /\ c \in Candidates(va.wu, va.res, good)
      /\ \A r \in Results : r \in equal => va'.res[r].validate = "VALID"
      /\ SameReturn(va'.res[c], va.res[c])
  BY <1>1, CheckSetCopy DEF ValidatorJudges
<1>3. va.pc = "open" /\ va.wu.quorum \in Nat /\ DOMAIN va.res = Results
  BY DEF ValidatorCheckSet, TypeOK, ValidatorTypeOK, WorkunitRow
<1>4. equal \subseteq Results
  BY <1>3 DEF Matching, Viable
<1>5. CASE va.wu.quorum > 1
  <2>1. Cardinality(equal) >= MinValid(va.wu)
    BY <1>2, <1>3 DEF Candidates
  <2>2. MinValid(va.wu) \in Nat /\ MinValid(va.wu) >= 2
    BY <1>3, <1>5 DEF MinValid
  <2>3. equal \subseteq ValidOf(va'.res)
    BY <1>2, <1>4 DEF ValidOf
  <2> HIDE DEF equal
  <2>4. /\ Cardinality(equal) \in Nat /\ Cardinality(ValidOf(va'.res)) \in Nat
        /\ Cardinality(equal) <= Cardinality(ValidOf(va'.res))
    BY <1>4, <2>3, SomeCount DEF ValidOf
  <2>5. QED
    BY <2>1, <2>2, <2>4
<1>6. CASE ~(va.wu.quorum > 1)
  <2>1. ~Replicated
    BY <1>3, <1>6 DEF TrustSound, PassVouched, Replicated
  <2>2. Success(va.res[c])
    BY <1>2 DEF Viable
  <2>3. RowSound(va.res[c]) /\ SameReturn(va.res[c], res[c])
    BY <1>3 DEF ReturnsSound, ValidatorFresh
  <2>4. res[c].received
    BY <2>2, <2>3 DEF RowSound, Success, SameReturn
  <2>5. res[c].host \in Trusted
    BY <2>1, <2>4 DEF TrustSound, Vouched
  <2>6. QED
    BY <1>2, <2>3, <2>5 DEF SameReturn
<1>7. QED
  BY <1>5, <1>6

LEMMA StepKeepsPassVouched ==
    ASSUME TypeOK, TypeOK', [Next]_vars, NothingOverwritten, ~Fault, HeldByValidator,
           ReturnsSound, TrustSound
    PROVE  PassVouched'
<1>1. PassVouched /\ 1 \in Results
  BY ParamAssumption DEF TrustSound, Results
<1>2. CASE ~InValidator(ValidatorNext)
  <2>1. va' = va
    BY <1>2, MemoryOwners
  <2>2. va.pc = "open" => TimeOnly
    BY <1>2, ValidatorWaits DEF NothingOverwritten
  <2>3. va.pc = "open" => /\ wu'.exists = wu.exists /\ wu'.quorum = wu.quorum
                          /\ wu'.canonical = wu.canonical
    BY <2>2 DEF TimeOnly, TypeOK, DbTypeOK, WorkunitRow
  <2>4. QED
    BY <1>1, <2>1, <2>3 DEF PassVouched
<1>3. CASE ValidatorEnumerate
  <2>1. wu.exists /\ va'.wu = wu /\ UNCHANGED wu
    BY <1>3 DEF ValidatorEnumerate, dbVars
  <2>2. QED
    BY <2>1 DEF PassVouched, TrustSound, Replicated
<1>4. ASSUME NEW c \in Results \cup {0}, ValidatorCheckSet({}, c) PROVE PassVouched'
  <2>1. /\ va.pc = "open" /\ UNCHANGED wu /\ va.wu.quorum \in Nat
        /\ va'.wu.canonical = c
    <3>1. va.pc = "open" /\ va'.wu.canonical = c
      BY <1>4, CheckSetMoves
    <3>2. UNCHANGED wu
      BY <1>4 DEF ValidatorCheckSet
    <3>3. va.wu.quorum \in Nat
      BY <3>1 DEF TypeOK, ValidatorTypeOK, WorkunitRow
    <3>4. QED
      BY <3>1, <3>2, <3>3
  <2>2. va'.wu.quorum = va.wu.quorum
    BY <1>1, <1>4, CheckSetCopy
  <2>3. va'.wu.target = 1 \/ va.wu.quorum > 1
    <3>1. CASE va.wu.quorum > 1
      BY <3>1
    <3>2. CASE va.wu.quorum <= 1 /\ va.wu.target = 1
      BY <1>4, <3>2, CheckSetTarget
    <3>3. QED
      BY <1>1, <2>1, <3>1, <3>2 DEF PassVouched
  <2>4. c # 0 => va'.res[c].host \in Trusted \/ Cardinality(ValidOf(va'.res)) > 1
    BY <1>4, CheckSetVouches
  <2>5. QED
    BY <1>1, <2>1, <2>2, <2>3, <2>4 DEF PassVouched
<1>5. ASSUME NEW q \in Results, ValidatorCheckPair(q) PROVE PassVouched'
  <2>1. /\ va.pc = "open" /\ ~va.leave /\ va.wu.canonical # 0 /\ UNCHANGED wu
        /\ va'.wu = va.wu
    BY <1>5, CheckPairCopy DEF ValidatorCheckPair, dbVars
  <2>2. wu.canonical # 0
    BY <2>1 DEF HeldByValidator
  <2>3. QED
    BY <1>1, <2>1, <2>2 DEF PassVouched
<1>6. ASSUME \/ ValidatorNoQuorum \/ ValidatorCheckedAll
             \/ \E q \in Results : ValidatorGrantCredit(q) \/ ValidatorUpdateResult(q)
      PROVE  PassVouched'
  <2>1. va.pc = "open" /\ va \in ValidatorMemory /\ UNCHANGED wu
    BY <1>6 DEF ValidatorNoQuorum, ValidatorCheckedAll, ValidatorGrantCredit,
       ValidatorUpdateResult, TypeOK, ValidatorTypeOK, ValidatorMemory, Rows, dbVars
  <2>2. va'.res = va.res /\ va'.wu = va.wu
    BY <1>6, <2>1 DEF ValidatorNoQuorum, ValidatorCheckedAll, ValidatorGrantCredit,
       ValidatorUpdateResult, ValidatorMemory
  <2>3. QED
    BY <1>1, <2>1, <2>2 DEF PassVouched
<1>7. CASE ValidatorNoCanonicalRow \/ ValidatorUpdateWorkunit
  BY <1>7 DEF ValidatorNoCanonicalRow, ValidatorUpdateWorkunit, validatorIdle, PassVouched
<1>8. QED
  BY <1>2, <1>3, <1>4, <1>5, <1>6, <1>7 DEF InValidator, ValidatorNext, ValidatorStep,
     ValidatorFlakyCheckSet, ValidatorCreditError, ValidatorRetryPair, ValidatorCrash

LEMMA StepKeepsTrust ==
    ASSUME TypeOK, TypeOK', MemoriesAreSafe, JobHeld, ReturnsSound, TrustSound, [Next]_vars,
           NothingOverwritten, MovesWithinTrust, MaxFaults = 0, AppTarget > 1
    PROVE  TrustSound'
<1>1. ~Fault
  BY FaultsGrow DEF Fault
<1>2. (wu.target = 1 \/ Replicated)'
  BY StepKeepsTarget
<1>3. \A r \in Results : Vouched(r)'
  BY <1>1, StepKeepsVouched
<1>4. \A h \in Hosts : RequestVouched(h)'
  BY StepKeepsRequestVouched
<1>5. PassVouched'
  BY <1>1, StepKeepsPassVouched DEF JobHeld
<1>6. QED
  BY <1>2, <1>3, <1>4, <1>5 DEF TrustSound

\* Adaptive replication holds its promise while nothing fails: a job starts with a
\* single result or with a quorum, and clients that exchange results are trusted
\* alike.
THEOREM UntrustedIsCompared ==
    ASSUME NothingOverwritten, MovesWithinTrust, MaxFaults = 0,
           MinQuorum > 1 \/ TargetNresults = 1
    PROVE  Spec => UntrustedNotAlone
<1>1. CASE ~(AppTarget > 1)
  <2>1. [Next]_vars => [AppTarget > 1 /\ wu.canonical = 0 /\ wu'.canonical # 0 =>
           \/ res[wu'.canonical].host \in Trusted
           \/ Cardinality({r \in Results : res[r].validate = "VALID"}) > 1]_vars
    BY <1>1
  <2>2. QED
    BY <2>1, PTL DEF Spec, UntrustedNotAlone
<1>2. CASE AppTarget > 1
  <2>1. Init => TrustSound
    <3>1. SUFFICES ASSUME Init PROVE TrustSound
      OBVIOUS
    <3>2. wu.target = 1 \/ Replicated
      BY <3>1 DEF Init, DbInit, NewWorkunit, Replicated
    <3>3. \A r \in Results : res[r].host \notin Hosts /\ ~res[r].received
      BY <3>1, ParamAssumption DEF Init, DbInit, NoRow
    <3>4. QED
      BY <3>1, <3>2, <3>3 DEF Init, ValidatorInit, validatorIdle, SchedulerInit, cgiIdle,
         TrustSound, Vouched, RequestVouched, PassVouched
  <2>2. TypeOK /\ TypeOK' /\ MemoriesAreSafe /\ JobHeld /\ ReturnsSound /\ TrustSound
          /\ [Next]_vars => TrustSound'
    BY <1>2, StepKeepsTrust
  <2>3. "validator" \notin Preemptible /\ "transitioner" \notin Preemptible
    BY DEF NothingOverwritten
  <2>4. TypeOK /\ ReturnsSound /\ TrustSound /\ [Next]_vars =>
          [AppTarget > 1 /\ wu.canonical = 0 /\ wu'.canonical # 0 =>
             \/ res[wu'.canonical].host \in Trusted
             \/ Cardinality({r \in Results : res[r].validate = "VALID"}) > 1]_vars
    <3>1. SUFFICES ASSUME TypeOK, ReturnsSound, TrustSound, [Next]_vars,
                          wu.canonical = 0, wu'.canonical # 0
                   PROVE  \/ res[wu'.canonical].host \in Trusted
                          \/ Cardinality({r \in Results : res[r].validate = "VALID"}) > 1
      OBVIOUS
    <3> DEFINE c == va.wu.canonical
    <3>2. InValidator(ValidatorUpdateWorkunit) /\ wu'.canonical = c
      BY <3>1, ElectionIsWritten
    <3>3. va.pc = "open" /\ va.todo = {} /\ c \in Results
      BY <3>1, <3>2 DEF InValidator, ValidatorUpdateWorkunit, TypeOK, ValidatorTypeOK,
         WorkunitRow
    <3>4. \A r \in Results : SameReturn(va.res[r], res[r]) /\ SameVerdict(va.res[r], res[r])
      BY <3>1, <3>3 DEF ReturnsSound, ValidatorFresh
    <3>5. ValidOf(va.res) = {r \in Results : res[r].validate = "VALID"}
      BY <3>4 DEF ValidOf, SameVerdict
    <3>6. va.res[c].host \in Trusted \/ Cardinality(ValidOf(va.res)) > 1
      BY <3>1, <3>2, <3>3 DEF TrustSound, PassVouched
    <3>7. QED
      BY <3>2, <3>3, <3>4, <3>5, <3>6 DEF SameReturn
  <2>5. Spec => []TrustSound
    BY <2>1, <2>2, <2>3, TypeCorrect, StaleMemoriesAreSafe, CopiesAreFresh, ReturnsAreKept, PTL
       DEF Spec
  <2>6. QED
    BY <2>4, <2>5, TypeCorrect, ReturnsAreKept, PTL DEF Spec, UntrustedNotAlone
<1>3. QED
  BY <1>1, <1>2
=============================================================================
