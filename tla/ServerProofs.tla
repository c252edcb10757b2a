---------------------------- MODULE ServerProofs ----------------------------
(***************************************************************************)
(* Machine-checked proofs about Server, for every number of hosts, results *)
(* and faults and every choice of interruptible processes: its types, and  *)
(* that results only move forward (MemoriesAreSafe, the inductive          *)
(* invariant about what the processes remember, and what follows from it). *)
(***************************************************************************)
EXTENDS ServerProperties, FiniteSetTheorems, TLAPS

Rows == [Results -> ResultRow]

-----------------------------------------------------------------------------
\* Result ids are finitely many, so counting them gives a natural number.
LEMMA ResultsFinite ==
    /\ IsFiniteSet(Results)
    /\ \A S \in SUBSET Results : IsFiniteSet(S) /\ Cardinality(S) \in Nat
<1>1. MaxTotalResults + 1 \in Nat
  BY ParamAssumption
<1>2. IsFiniteSet(Results)
  BY <1>1, FS_Interval DEF Results
<1>3. QED
  BY <1>2, FS_Subset, FS_CardinalityType

\* The row updates of the daemons and of the scheduler make result rows.
LEMMA RowUpdates ==
    ASSUME NEW row \in ResultRow
    PROVE  /\ \A x \in FileDeleteStates : [row EXCEPT !.fds = x] \in ResultRow
           /\ \A x \in BOOLEAN : [row EXCEPT !.late = x] \in ResultRow
           /\ \A x \in ValidateStates : [row EXCEPT !.validate = x] \in ResultRow
           /\ \A x \in ServerStates, y \in Outcomes :
                 [row EXCEPT !.server = x, !.outcome = y] \in ResultRow
           /\ \A x \in Outcomes, y \in ValidateStates :
                 [row EXCEPT !.outcome = x, !.validate = y] \in ResultRow
           /\ \A x \in ServerStates, y \in Outcomes, z \in ValidateStates :
                 [row EXCEPT !.server = x, !.outcome = y, !.validate = z] \in ResultRow
           /\ \A x \in ServerStates, y \in Outcomes, z \in ValidateStates, f \in FileDeleteStates :
                 [row EXCEPT !.server = x, !.outcome = y, !.validate = z, !.fds = f] \in ResultRow
           /\ \A x \in ServerStates, y \in Outcomes, z \in BOOLEAN :
                 [row EXCEPT !.server = x, !.outcome = y, !.received = z] \in ResultRow
           /\ \A x \in ServerStates, h \in Hosts, z \in BOOLEAN :
                 [row EXCEPT !.server = x, !.host = h, !.late = z] \in ResultRow
           /\ \A x \in ServerStates, h \in Hosts, b, l \in BOOLEAN, o \in Returns \cup {"none"},
                 z \in ValidateStates, y \in Outcomes :
                 [row EXCEPT !.server = x, !.host = h, !.received = b, !.late = l,
                             !.out = o, !.validate = z, !.outcome = y] \in ResultRow
<1>1. \A x \in FileDeleteStates : [row EXCEPT !.fds = x] \in ResultRow
  BY DEF ResultRow
<1>2. \A x \in BOOLEAN : [row EXCEPT !.late = x] \in ResultRow
  BY DEF ResultRow
<1>3. \A x \in ValidateStates : [row EXCEPT !.validate = x] \in ResultRow
  BY DEF ResultRow
<1>4. \A x \in ServerStates, y \in Outcomes :
         [row EXCEPT !.server = x, !.outcome = y] \in ResultRow
  BY DEF ResultRow
<1>5. \A x \in Outcomes, y \in ValidateStates :
         [row EXCEPT !.outcome = x, !.validate = y] \in ResultRow
  BY DEF ResultRow
<1>6. \A x \in ServerStates, y \in Outcomes, z \in ValidateStates :
         [row EXCEPT !.server = x, !.outcome = y, !.validate = z] \in ResultRow
  BY DEF ResultRow
<1>7. \A x \in ServerStates, y \in Outcomes, z \in ValidateStates, f \in FileDeleteStates :
         [row EXCEPT !.server = x, !.outcome = y, !.validate = z, !.fds = f] \in ResultRow
  BY DEF ResultRow
<1>8. \A x \in ServerStates, y \in Outcomes, z \in BOOLEAN :
         [row EXCEPT !.server = x, !.outcome = y, !.received = z] \in ResultRow
  BY DEF ResultRow
<1>9. \A x \in ServerStates, h \in Hosts, z \in BOOLEAN :
         [row EXCEPT !.server = x, !.host = h, !.late = z] \in ResultRow
  BY DEF ResultRow
<1>10. \A x \in ServerStates, h \in Hosts, b, l \in BOOLEAN, o \in Returns \cup {"none"},
         z \in ValidateStates, y \in Outcomes :
         [row EXCEPT !.server = x, !.host = h, !.received = b, !.late = l,
                     !.out = o, !.validate = z, !.outcome = y] \in ResultRow
  BY DEF ResultRow
<1>11. QED
  BY <1>1, <1>2, <1>3, <1>4, <1>5, <1>6, <1>7, <1>8, <1>9, <1>10

\* The rules of handle_wu() turn result rows into result rows.
LEMMA RulesKeepRows ==
    ASSUME NEW S \in Rows, NEW w
    PROVE  Scanned(w, S) \in Rows /\ GivenUp(S) \in Rows /\ Released(w, S) \in Rows
<1>1. DOMAIN S = Results /\ \A r \in Results : S[r] \in ResultRow
  BY DEF Rows
<1>2. Scanned(w, S) \in Rows
  <2>1. \A r \in Results :
           /\ [S[r] EXCEPT !.server = "OVER", !.outcome = "NO_REPLY"] \in ResultRow
           /\ [S[r] EXCEPT !.validate = "TOO_LATE"] \in ResultRow
    BY <1>1, RowUpdates DEF ServerStates, Outcomes, ValidateStates
  <2>2. QED
    BY <1>1, <2>1 DEF Scanned, Rows
<1>3. GivenUp(S) \in Rows
  <2>1. \A r \in Results :
           /\ [S[r] EXCEPT !.server = "OVER", !.outcome = "DIDNT_NEED"] \in ResultRow
           /\ [S[r] EXCEPT !.validate = "NO_CHECK"] \in ResultRow
    BY <1>1, RowUpdates DEF ServerStates, Outcomes, ValidateStates
  <2>2. QED
    BY <1>1, <2>1 DEF GivenUp, Rows
<1>4. Released(w, S) \in Rows
  <2>1. \A r \in Results : [S[r] EXCEPT !.fds = "READY"] \in ResultRow
    BY <1>1, RowUpdates DEF FileDeleteStates
  <2>2. QED
    BY <1>1, <2>1 DEF Released, Rows
<1>5. QED
  BY <1>2, <1>3, <1>4

\* The updates of the workunit row make workunit rows.
LEMMA WorkunitUpdates ==
    ASSUME NEW row \in WorkunitRow
    PROVE  /\ \A t \in TransitionTimes : [row EXCEPT !.tt = t] \in WorkunitRow
           /\ \A t \in TransitionTimes, n \in Nat :
                 [row EXCEPT !.tt = t, !.hr = n] \in WorkunitRow
           /\ \A t \in TransitionTimes, n, q \in Nat :
                 [row EXCEPT !.target = n, !.quorum = q, !.tt = t] \in WorkunitRow
           /\ \A e \in SUBSET WuErrors : [row EXCEPT !.error = e] \in WorkunitRow
           /\ \A e \in SUBSET WuErrors, t \in TransitionTimes :
                 [row EXCEPT !.error = e, !.tt = t] \in WorkunitRow
           /\ \A f \in FileDeleteStates : [row EXCEPT !.fds = f] \in WorkunitRow
           /\ \A a \in AssimilateStates, t \in TransitionTimes :
                 [row EXCEPT !.assimilate = a, !.tt = t] \in WorkunitRow
           /\ \A v \in BOOLEAN, e \in SUBSET WuErrors, a \in AssimilateStates,
               f \in FileDeleteStates, t \in TransitionTimes, n \in Nat :
                 [row EXCEPT !.needValidate = v, !.error = e, !.assimilate = a, !.fds = f, !.tt = t, !.hr = n] \in WorkunitRow
           /\ \A v \in BOOLEAN, e \in SUBSET WuErrors, a \in AssimilateStates,
               t \in TransitionTimes, n \in Nat, c \in Results \cup {0} :
                 [row EXCEPT !.needValidate = v, !.error = e, !.assimilate = a, !.tt = t,
                            !.target = n, !.canonical = c] \in WorkunitRow
<1>1. \A t \in TransitionTimes : [row EXCEPT !.tt = t] \in WorkunitRow
  BY DEF WorkunitRow
<1>2. \A t \in TransitionTimes, n \in Nat : [row EXCEPT !.tt = t, !.hr = n] \in WorkunitRow
  BY DEF WorkunitRow
<1>3. \A t \in TransitionTimes, n, q \in Nat :
         [row EXCEPT !.target = n, !.quorum = q, !.tt = t] \in WorkunitRow
  BY DEF WorkunitRow
<1>4. \A e \in SUBSET WuErrors : [row EXCEPT !.error = e] \in WorkunitRow
  BY DEF WorkunitRow
<1>5. \A e \in SUBSET WuErrors, t \in TransitionTimes :
         [row EXCEPT !.error = e, !.tt = t] \in WorkunitRow
  BY DEF WorkunitRow
<1>6. \A f \in FileDeleteStates : [row EXCEPT !.fds = f] \in WorkunitRow
  BY DEF WorkunitRow
<1>7. \A a \in AssimilateStates, t \in TransitionTimes :
         [row EXCEPT !.assimilate = a, !.tt = t] \in WorkunitRow
  BY DEF WorkunitRow
<1>8. \A v \in BOOLEAN, e \in SUBSET WuErrors, a \in AssimilateStates,
               f \in FileDeleteStates, t \in TransitionTimes, n \in Nat :
         [row EXCEPT !.needValidate = v, !.error = e, !.assimilate = a, !.fds = f, !.tt = t, !.hr = n] \in WorkunitRow
  BY DEF WorkunitRow
<1>9. \A v \in BOOLEAN, e \in SUBSET WuErrors, a \in AssimilateStates,
               t \in TransitionTimes, n \in Nat, c \in Results \cup {0} :
         [row EXCEPT !.needValidate = v, !.error = e, !.assimilate = a, !.tt = t,
                            !.target = n, !.canonical = c] \in WorkunitRow
  BY DEF WorkunitRow
<1>10. QED
  BY <1>1, <1>2, <1>3, <1>4, <1>5, <1>6, <1>7, <1>8, <1>9

\* The workunit row that handle_wu() computes is a workunit row.
LEMMA RulesKeepWorkunit ==
    ASSUME NEW S, NEW w \in WorkunitRow, NEW release \in BOOLEAN, NEW deferred \in BOOLEAN
    PROVE  Decided(w, S) \in WorkunitRow /\ Finished(w, S, release, deferred) \in WorkunitRow
<1>1. Decided(w, S) \in WorkunitRow
  BY DEF Decided, WorkunitRow, WuErrors, AssimilateStates
<1>2. Finished(w, S, release, deferred) \in WorkunitRow
  BY DEF Finished, WorkunitRow, TransitionTimes, FileDeleteStates, AssimilateStates
<1>3. QED
  BY <1>1, <1>2

\* check_set() and the marking of what it left unchecked keep result rows.
LEMMA CheckSetKeepsRows ==
    ASSUME NEW S \in Rows, NEW viable, NEW flaky, NEW c
    PROVE  /\ CheckSet(S, viable, flaky, c) \in Rows
           /\ Inconclusive(S, viable) \in Rows
           /\ \A r \in Results : CheckPair(S, r, c) \in ResultRow
<1>1. DOMAIN S = Results /\ \A r \in Results : S[r] \in ResultRow
  BY DEF Rows
<1>2. CheckSet(S, viable, flaky, c) \in Rows
  <2>1. \A r \in Results :
           /\ [S[r] EXCEPT !.outcome = "VALIDATE_ERROR", !.validate = "INVALID"] \in ResultRow
           /\ \A good : [S[r] EXCEPT !.validate = IF r \in Matching(S, good, c)
                                               THEN "VALID" ELSE "INVALID"] \in ResultRow
    BY <1>1, RowUpdates DEF Outcomes, ValidateStates
  <2>2. QED
    BY <1>1, <2>1 DEF CheckSet, Rows
<1>3. Inconclusive(S, viable) \in Rows
  BY <1>1 DEF Inconclusive, Rows, ResultRow, ValidateStates
<1>4. \A r \in Results : CheckPair(S, r, c) \in ResultRow
  BY <1>1 DEF CheckPair, ResultRow, Outcomes, ValidateStates
<1>5. QED
  BY <1>2, <1>3, <1>4

\* Writing a row keeps the tables well-formed.
LEMMA WritesKeepType ==
    ASSUME DbTypeOK
    PROVE  /\ \A r \in Results, row \in ResultRow : UpdateResult(r, row) => res' \in Rows
           /\ \A row \in WorkunitRow : UpdateWorkunit(row) => wu' \in WorkunitRow
<1>1. res \in Rows /\ wu \in WorkunitRow
  BY DEF DbTypeOK, Rows
<1>2. QED
  BY <1>1 DEF UpdateResult, UpdateWorkunit, Rows

\* Nothing is written, a row is inserted, a fault is counted.
LEMMA DbUnchanged ==
    ASSUME DbTypeOK, UNCHANGED dbVars
    PROVE  DbTypeOK'
BY DEF DbTypeOK, dbVars

\* The rows that create_result() and db_purge leave behind are result rows.
LEMMA NewRowsAreRows ==
    NoRow \in ResultRow /\ NewResult \in ResultRow /\ PurgedRow \in ResultRow
BY DEF NoRow, NewResult, PurgedRow, ResultRow, ServerStates, Outcomes, ValidateStates,
       FileDeleteStates

\* Counting a crash or a failure stays within the bound.
LEMMA FaultCounted ==
    ASSUME DbTypeOK, Fault
    PROVE  faults' \in 0 .. MaxFaults
BY ParamAssumption DEF DbTypeOK, Fault

-----------------------------------------------------------------------------
\* Type correctness, component by component.

\* The memory of the transitioner inside handle_wu().
TransitionerMemory ==
    [pc : {"scan", "decide", "release"}, old : WorkunitRow, wu : WorkunitRow,
     res : Rows, todo : SUBSET Results]

\* Every step of the transitioner keeps the types of the rows and of its memory.
LEMMA TransitionerKeepsType ==
    ASSUME DbTypeOK, TransitionerTypeOK, TransitionerNext
    PROVE  DbTypeOK' /\ TransitionerTypeOK'
<1>1. wu \in WorkunitRow /\ res \in Rows /\ gone \subseteq Results /\ faults \in 0 .. MaxFaults
  BY DEF DbTypeOK, Rows
<1>2. tr.pc # "idle" => tr \in TransitionerMemory
  BY DEF TransitionerTypeOK, TransitionerMemory, Rows
<1>3. transitionerIdle \in [pc : {"idle"}]
  BY DEF transitionerIdle
<1>4. CASE TransitionerEnumerate
  <2>1. Scanned(wu, res) \in Rows
    BY <1>1, RulesKeepRows
  <2>2. tr' \in TransitionerMemory
    BY <1>1, <1>4, <2>1 DEF TransitionerEnumerate, TransitionerMemory
  <2>3. QED
    BY <1>4, <2>2, DbUnchanged
       DEF TransitionerEnumerate, TransitionerTypeOK, TransitionerMemory, Rows
<1>5. ASSUME NEW r \in Results, TransitionerUpdateResult(r)
      PROVE  DbTypeOK' /\ TransitionerTypeOK'
  <2>1. tr \in TransitionerMemory /\ res[r] \in ResultRow /\ tr.res[r] \in ResultRow
    BY <1>1, <1>2, <1>5 DEF TransitionerUpdateResult, TransitionerMemory, Rows
  <2>2. [res[r] EXCEPT !.server = tr.res[r].server, !.outcome = tr.res[r].outcome,
                       !.validate = tr.res[r].validate, !.fds = tr.res[r].fds] \in ResultRow
    <3>1. /\ tr.res[r].server \in ServerStates /\ tr.res[r].outcome \in Outcomes
          /\ tr.res[r].validate \in ValidateStates /\ tr.res[r].fds \in FileDeleteStates
      BY <2>1 DEF ResultRow
    <3>2. QED
      BY <2>1, <3>1, RowUpdates
  <2>3. res' \in Rows
    BY <1>5, <2>2, WritesKeepType DEF TransitionerUpdateResult
  <2>4. tr' \in TransitionerMemory
    BY <2>1, <1>5 DEF TransitionerUpdateResult, TransitionerMemory
  <2>5. QED
    BY <1>1, <1>5, <2>3, <2>4
       DEF TransitionerUpdateResult, TransitionerTypeOK, TransitionerMemory, DbTypeOK, Rows
<1>6. CASE TransitionerDecide
  <2>1. tr \in TransitionerMemory
    BY <1>2, <1>6 DEF TransitionerDecide
  <2>2. Decided(tr.wu, tr.res) \in WorkunitRow /\ GivenUp(tr.res) \in Rows /\ tr.res \in Rows
    BY <2>1, RulesKeepRows, RulesKeepWorkunit DEF TransitionerMemory
  <2>3. tr' \in TransitionerMemory
    BY <1>6, <2>1, <2>2 DEF TransitionerDecide, TransitionerMemory
  <2>4. res' \in Rows
    <3>1. NewResult \in ResultRow
      BY NewRowsAreRows
    <3>2. \E S : res' = [r \in Results |-> IF r \in S THEN NewResult ELSE res[r]]
      BY <1>6 DEF TransitionerDecide
    <3>3. QED
      BY <1>1, <3>1, <3>2 DEF Rows
  <2>5. QED
    BY <1>1, <1>6, <2>3, <2>4
       DEF TransitionerDecide, TransitionerTypeOK, TransitionerMemory, DbTypeOK, Rows
<1>7. CASE TransitionerRelease
  <2>1. tr \in TransitionerMemory
    BY <1>2, <1>7 DEF TransitionerRelease
  <2>2. Released(tr.wu, tr.res) \in Rows /\ tr.res \in Rows
    BY <2>1, RulesKeepRows DEF TransitionerMemory
  <2>3. \A a, b \in BOOLEAN : Finished(tr.wu, tr.res, a, b) \in WorkunitRow
    BY <2>1, RulesKeepWorkunit DEF TransitionerMemory
  <2>4. PICK settled \in BOOLEAN :
           LET done == tr.wu.assimilate = "DONE"
               mem == IF done /\ settled THEN Released(tr.wu, tr.res) ELSE tr.res
           IN  tr' = [tr EXCEPT !.pc = "release", !.res = mem,
                          !.wu = Finished(tr.wu, tr.res, done /\ settled, done /\ ~settled),
                          !.todo = {r \in Results : mem[r] # tr.res[r]}]
    BY <1>7 DEF TransitionerRelease
  <2>5. tr' \in TransitionerMemory
    BY <2>1, <2>2, <2>3, <2>4 DEF TransitionerMemory
  <2>6. QED
    BY <1>7, <2>5, DbUnchanged
       DEF TransitionerRelease, TransitionerTypeOK, TransitionerMemory, Rows
<1>8. CASE TransitionerUpdateWorkunit
  <2>1. tr \in TransitionerMemory
    BY <1>2, <1>8 DEF TransitionerUpdateWorkunit
  <2>2. Merge(wu, tr.old, tr.wu) \in WorkunitRow
    <3> DEFINE Pick(new, old, now) == IF new # old THEN new ELSE now
    <3>1. /\ Pick(tr.wu.needValidate, tr.old.needValidate, wu.needValidate) \in BOOLEAN
          /\ Pick(tr.wu.error, tr.old.error, wu.error) \in SUBSET WuErrors
          /\ Pick(tr.wu.assimilate, tr.old.assimilate, wu.assimilate) \in AssimilateStates
          /\ Pick(tr.wu.fds, tr.old.fds, wu.fds) \in FileDeleteStates
          /\ Pick(tr.wu.tt, tr.old.tt, wu.tt) \in TransitionTimes
          /\ Pick(tr.wu.hr, tr.old.hr, wu.hr) \in Nat
      BY <1>1, <2>1 DEF TransitionerMemory, WorkunitRow
    <3>2. [wu EXCEPT !.needValidate = Pick(tr.wu.needValidate, tr.old.needValidate, wu.needValidate),
                     !.error = Pick(tr.wu.error, tr.old.error, wu.error),
                     !.assimilate = Pick(tr.wu.assimilate, tr.old.assimilate, wu.assimilate),
                     !.fds = Pick(tr.wu.fds, tr.old.fds, wu.fds),
                     !.tt = Pick(tr.wu.tt, tr.old.tt, wu.tt),
                     !.hr = Pick(tr.wu.hr, tr.old.hr, wu.hr)] \in WorkunitRow
      <4> HIDE DEF Pick
      <4>1. QED
        BY <1>1, <3>1, WorkunitUpdates
    <3>3. QED
      BY <3>2 DEF Merge
  <2>3. wu' \in WorkunitRow
    BY <1>8, <2>2, WritesKeepType DEF TransitionerUpdateWorkunit
  <2>4. QED
    BY <1>1, <1>3, <1>8, <2>3 DEF TransitionerUpdateWorkunit, TransitionerTypeOK, DbTypeOK, Rows
<1>9. CASE TransitionerCrash
  BY <1>1, <1>3, <1>9, FaultCounted DEF TransitionerCrash, TransitionerTypeOK, DbTypeOK, Rows
<1>10. QED
  BY <1>4, <1>5, <1>6, <1>7, <1>8, <1>9 DEF TransitionerNext, TransitionerStep

\* The memory of the validator inside handle_wu().
ValidatorMemory ==
    [pc : {"open"}, wu : WorkunitRow, res : Rows, todo : SUBSET Results,
     granted : Results \cup {0}, leave : BOOLEAN,
     when : {"NO_CHANGE", "IMMEDIATE", "DELAYED", "NEVER"}]

\* What check_set() leaves in memory, with and without a canonical result.
LEMMA ElectedIsMemory ==
    ASSUME NEW v \in ValidatorMemory, NEW c \in Results, NEW viable
    PROVE  Elected(v, c) \in ValidatorMemory /\ NotElected(v, viable) \in ValidatorMemory
<1>1. v.wu \in WorkunitRow /\ v.res \in Rows
  BY DEF ValidatorMemory
<1>2. Elected(v, c) \in ValidatorMemory
  <2>1. [v.wu EXCEPT !.canonical = c, !.assimilate = "READY"] \in WorkunitRow
    BY <1>1 DEF WorkunitRow, AssimilateStates
  <2>2. QED
    BY <2>1 DEF Elected, ValidatorMemory
<1>3. NotElected(v, viable) \in ValidatorMemory
  <2> DEFINE n == Cardinality(viable \cap Viable(v.res))
  <2>1. n \in Nat
    <3>1. viable \cap Viable(v.res) \in SUBSET Results
      BY <1>1 DEF Viable, Rows
    <3>2. QED
      BY <3>1, ResultsFinite
  <2> HIDE DEF n
  <2>2. ASSUME NEW e \in SUBSET WuErrors, NEW t \in Nat,
               NEW w \in {"NO_CHANGE", "IMMEDIATE", "DELAYED", "NEVER"}
        PROVE  [v EXCEPT !.wu.error = e, !.wu.target = t, !.when = w] \in ValidatorMemory
    <3>1. [v.wu EXCEPT !.error = e, !.target = t] \in WorkunitRow
      BY <1>1 DEF WorkunitRow
    <3>2. QED
      BY <3>1 DEF ValidatorMemory
  <2>3. /\ \A b \in BOOLEAN : (IF b THEN v.wu.error \cup {"TOO_MANY_SUCCESS"} ELSE v.wu.error)
                                 \in SUBSET WuErrors
        /\ \A b \in BOOLEAN : (IF b THEN n + 1 ELSE v.wu.target) \in Nat
        /\ v.when \in {"NO_CHANGE", "IMMEDIATE", "DELAYED", "NEVER"}
    BY <1>1, <2>1 DEF WorkunitRow, WuErrors, ValidatorMemory
  <2>4. QED
    BY <2>2, <2>3 DEF NotElected, n
<1>4. QED
  BY <1>2, <1>3

\* Every step of the validator keeps the types of the rows, its memory and the credit.
LEMMA ValidatorKeepsType ==
    ASSUME DbTypeOK, ValidatorTypeOK, ValidatorNext
    PROVE  DbTypeOK' /\ ValidatorTypeOK'
<1>1. /\ wu \in WorkunitRow /\ res \in Rows /\ gone \subseteq Results
      /\ faults \in 0 .. MaxFaults /\ credit \in [Results -> 0 .. 2]
  BY DEF DbTypeOK, ValidatorTypeOK, Rows
<1>2. va.pc # "idle" => va \in ValidatorMemory
  BY DEF ValidatorTypeOK, ValidatorMemory, Rows
<1>3. validatorIdle \in [pc : {"idle"}]
  BY DEF validatorIdle
<1>4. CASE ValidatorEnumerate
  <2>1. va' \in ValidatorMemory
    BY <1>1, <1>4 DEF ValidatorEnumerate, ValidatorMemory
  <2>2. QED
    BY <1>4, <2>1, DbUnchanged DEF ValidatorEnumerate, ValidatorTypeOK, ValidatorMemory, Rows
<1>5. CASE ValidatorNoCanonicalRow
  BY <1>3, <1>5, DbUnchanged DEF ValidatorNoCanonicalRow, ValidatorTypeOK
<1>6. CASE ValidatorNoQuorum \/ ValidatorCheckedAll
  <2>1. va \in ValidatorMemory /\ va' = [va EXCEPT !.leave = TRUE]
    BY <1>2, <1>6 DEF ValidatorNoQuorum, ValidatorCheckedAll
  <2>2. va' \in ValidatorMemory
    BY <2>1 DEF ValidatorMemory
  <2>3. QED
    BY <1>6, <2>2, DbUnchanged
       DEF ValidatorNoQuorum, ValidatorCheckedAll, ValidatorTypeOK, ValidatorMemory, Rows
<1>7. CASE ValidatorCreditError \/ ValidatorRetryPair
  <2>1. va \in ValidatorMemory /\ va' = [va EXCEPT !.leave = TRUE, !.when = "DELAYED"]
    BY <1>2, <1>7 DEF ValidatorCreditError, ValidatorRetryPair
  <2>2. va' \in ValidatorMemory
    BY <2>1 DEF ValidatorMemory
  <2>3. UNCHANGED <<wu, res, gone, credit>> /\ Fault
    BY <1>7 DEF ValidatorCreditError, ValidatorRetryPair
  <2>4. QED
    BY <1>1, <2>2, <2>3, FaultCounted DEF DbTypeOK, ValidatorTypeOK, ValidatorMemory, Rows
<1>8. ASSUME NEW flaky, NEW c \in Results \cup {0}, ValidatorCheckSet(flaky, c),
             faults' \in 0 .. MaxFaults
      PROVE  DbTypeOK' /\ ValidatorTypeOK'
  <2>1. va \in ValidatorMemory
    BY <1>2, <1>8 DEF ValidatorCheckSet
  <2> DEFINE viable == Viable(va.res)
             mem == Inconclusive(CheckSet(va.res, viable, flaky, c), viable)
             unneeded == {r \in Results : c # 0 /\ va.res[r].server = "UNSENT"}
             rows == [r \in Results |-> IF r \in unneeded
                        THEN [mem[r] EXCEPT !.server = "OVER", !.outcome = "DIDNT_NEED"]
                        ELSE mem[r]]
             todo == unneeded \cup {r \in viable : mem[r] # va.res[r]
                                                 \/ mem[r].validate = "VALID"}
             v == [va EXCEPT !.leave = TRUE, !.when = IF flaky = {} THEN @ ELSE "DELAYED",
                             !.res = rows, !.todo = todo]
  <2>2. va.res \in Rows
    BY <2>1 DEF ValidatorMemory
  <2>3. mem \in Rows
    BY <2>2, CheckSetKeepsRows
  <2>4. rows \in Rows
    <3> HIDE DEF mem
    <3>1. \A r \in Results : /\ mem[r] \in ResultRow
                             /\ [mem[r] EXCEPT !.server = "OVER", !.outcome = "DIDNT_NEED"]
                                  \in ResultRow
      BY <2>3, RowUpdates DEF Rows, ServerStates, Outcomes
    <3>2. QED
      BY <3>1 DEF Rows
  <2>5. todo \in SUBSET Results
    <3>1. viable \subseteq Results
      BY <2>2 DEF Viable, Rows
    <3>2. QED
      BY <3>1
  <2>6. v \in ValidatorMemory
    <3> HIDE DEF rows, todo
    <3>1. QED
      BY <2>1, <2>4, <2>5 DEF ValidatorMemory
  <2>7. va' = IF c # 0 THEN Elected(v, c) ELSE NotElected(v, viable)
    BY <1>8 DEF ValidatorCheckSet
  <2>8. va' \in ValidatorMemory
    <3> HIDE DEF v, viable
    <3>1. CASE c # 0
      BY <2>6, <2>7, <3>1, ElectedIsMemory
    <3>2. CASE c = 0
      <4>1. 1 \in Results
        BY ParamAssumption DEF Results
      <4>2. QED
        BY <2>6, <2>7, <3>2, <4>1, ElectedIsMemory
    <3>3. QED
      BY <3>1, <3>2
  <2>9. UNCHANGED <<wu, res, gone, credit>>
    BY <1>8 DEF ValidatorCheckSet
  <2>10. QED
    BY <1>1, <1>8, <2>8, <2>9 DEF DbTypeOK, ValidatorTypeOK, ValidatorMemory, Rows
<1>9. ASSUME NEW r \in Results, ValidatorCheckPair(r)
      PROVE  DbTypeOK' /\ ValidatorTypeOK'
  <2>1. va \in ValidatorMemory
    BY <1>2, <1>9 DEF ValidatorCheckPair
  <2>2. va.res \in Rows /\ CheckPair(va.res, r, va.wu.canonical) \in ResultRow
    BY <2>1, CheckSetKeepsRows DEF ValidatorMemory
  <2>3. va' \in ValidatorMemory
    BY <1>9, <2>1, <2>2 DEF ValidatorCheckPair, ValidatorMemory, Rows
  <2>4. QED
    BY <1>9, <2>3, DbUnchanged DEF ValidatorCheckPair, ValidatorTypeOK, ValidatorMemory, Rows
<1>10. ASSUME NEW r \in Results, ValidatorGrantCredit(r)
       PROVE  DbTypeOK' /\ ValidatorTypeOK'
  <2>1. va \in ValidatorMemory
    BY <1>2, <1>10 DEF ValidatorGrantCredit
  <2>2. va' \in ValidatorMemory
    BY <1>10, <2>1 DEF ValidatorGrantCredit, ValidatorMemory
  <2>3. credit' \in [Results -> 0 .. 2]
    BY <1>1, <1>10 DEF ValidatorGrantCredit
  <2>4. QED
    BY <1>10, <2>2, <2>3, DbUnchanged
       DEF ValidatorGrantCredit, ValidatorTypeOK, ValidatorMemory, Rows
<1>11. ASSUME NEW r \in Results, ValidatorUpdateResult(r)
       PROVE  DbTypeOK' /\ ValidatorTypeOK'
  <2>1. va \in ValidatorMemory /\ res[r] \in ResultRow
    BY <1>1, <1>2, <1>11 DEF ValidatorUpdateResult, Rows
  <2>2. /\ va.res[r].server \in ServerStates /\ va.res[r].outcome \in Outcomes
        /\ va.res[r].validate \in ValidateStates
    BY <2>1 DEF ValidatorMemory, Rows, ResultRow
  <2>3. [res[r] EXCEPT !.server = va.res[r].server, !.outcome = va.res[r].outcome,
                       !.validate = va.res[r].validate] \in ResultRow
    BY <2>1, <2>2, RowUpdates
  <2>4. res' \in Rows
    BY <1>11, <2>3, WritesKeepType DEF ValidatorUpdateResult
  <2>5. va' \in ValidatorMemory
    BY <1>11, <2>1 DEF ValidatorUpdateResult, ValidatorMemory
  <2>6. QED
    BY <1>1, <1>11, <2>4, <2>5
       DEF ValidatorUpdateResult, DbTypeOK, ValidatorTypeOK, ValidatorMemory, Rows
<1>12. CASE ValidatorUpdateWorkunit
  <2>1. va \in ValidatorMemory
    BY <1>2, <1>12 DEF ValidatorUpdateWorkunit
  <2> DEFINE tt == NextTransition(va.wu.tt, va.when)
             row == [wu EXCEPT !.needValidate = FALSE, !.error = va.wu.error,
                               !.assimilate = va.wu.assimilate, !.tt = tt,
                               !.target = va.wu.target, !.canonical = va.wu.canonical]
  <2>2. /\ va.wu.error \in SUBSET WuErrors /\ va.wu.assimilate \in AssimilateStates
        /\ va.wu.target \in Nat /\ va.wu.canonical \in Results \cup {0}
    BY <2>1 DEF ValidatorMemory, WorkunitRow
  <2>3. tt \in TransitionTimes
    <3>1. va.wu.tt \in TransitionTimes
          /\ va.when \in {"NO_CHANGE", "IMMEDIATE", "DELAYED", "NEVER"}
      BY <2>1 DEF ValidatorMemory, WorkunitRow
    <3>2. QED
      BY <3>1 DEF NextTransition, TransitionTimes
  <2>4. row \in WorkunitRow
    <3> HIDE DEF tt
    <3>1. QED
      BY <1>1, <2>2, <2>3, WorkunitUpdates
  <2>5. wu' \in WorkunitRow
    BY <1>12, <2>4, WritesKeepType DEF ValidatorUpdateWorkunit
  <2>6. QED
    BY <1>1, <1>3, <1>12, <2>5 DEF ValidatorUpdateWorkunit, DbTypeOK, ValidatorTypeOK, Rows
<1>13. CASE ValidatorCrash
  BY <1>1, <1>3, <1>13, FaultCounted DEF ValidatorCrash, DbTypeOK, ValidatorTypeOK, Rows
<1>14. CASE ValidatorFlakyCheckSet
  BY <1>8, <1>14, FaultCounted DEF ValidatorFlakyCheckSet
<1>15. ASSUME NEW c \in Results \cup {0}, ValidatorCheckSet({}, c), UNCHANGED faults
       PROVE  DbTypeOK' /\ ValidatorTypeOK'
  BY <1>1, <1>8, <1>15
<1>16. QED
  BY <1>4, <1>5, <1>6, <1>7, <1>9, <1>10, <1>11, <1>12, <1>13, <1>14, <1>15
     DEF ValidatorNext, ValidatorStep

AssimilatorMemory ==
    [pc : {"read", "handled"}, wu : WorkunitRow, next : AssimilateStates]

\* Every step of the assimilator keeps the types of the rows and of its memory.
LEMMA AssimilatorKeepsType ==
    ASSUME DbTypeOK, AssimilatorTypeOK, AssimilatorNext
    PROVE  DbTypeOK' /\ AssimilatorTypeOK'
<1>1. wu \in WorkunitRow /\ res \in Rows /\ gone \subseteq Results /\ faults \in 0 .. MaxFaults
  BY DEF DbTypeOK, Rows
<1>2. asm.pc # "idle" => asm \in AssimilatorMemory
  BY DEF AssimilatorTypeOK, AssimilatorMemory
<1>3. assimilatorIdle \in [pc : {"idle"}]
  BY DEF assimilatorIdle
<1>4. CASE AssimilatorEnumerate
  <2>1. asm' \in AssimilatorMemory
    BY <1>1, <1>4 DEF AssimilatorEnumerate, AssimilatorMemory, AssimilateStates
  <2>2. QED
    BY <1>4, <2>1, DbUnchanged DEF AssimilatorEnumerate, AssimilatorTypeOK, AssimilatorMemory
<1>5. CASE AssimilatorHandle
  <2>1. asm \in AssimilatorMemory
    BY <1>2, <1>5 DEF AssimilatorHandle
  <2>2. PICK next \in {"DONE", "INIT"} : asm' = [asm EXCEPT !.pc = "handled", !.next = next]
    BY <1>5 DEF AssimilatorHandle
  <2>3. asm' \in AssimilatorMemory
    BY <2>1, <2>2 DEF AssimilatorMemory, AssimilateStates
  <2>4. [wu EXCEPT !.error = {"NO_CANONICAL"}] \in WorkunitRow
    BY <1>1, WorkunitUpdates DEF WuErrors
  <2>5. wu' \in WorkunitRow
    BY <1>1, <1>5, <2>4, WritesKeepType DEF AssimilatorHandle
  <2>6. QED
    BY <1>1, <1>5, <2>3, <2>5
       DEF AssimilatorHandle, AssimilatorTypeOK, AssimilatorMemory, DbTypeOK, Rows
<1>6. CASE AssimilatorUpdateWorkunit
  <2>1. asm \in AssimilatorMemory
    BY <1>2, <1>6 DEF AssimilatorUpdateWorkunit
  <2>2. [wu EXCEPT !.assimilate = asm.next, !.tt = "now"] \in WorkunitRow
    BY <1>1, <2>1, WorkunitUpdates DEF AssimilatorMemory, TransitionTimes
  <2>3. wu' \in WorkunitRow
    BY <1>6, <2>2, WritesKeepType DEF AssimilatorUpdateWorkunit
  <2>4. QED
    BY <1>1, <1>3, <1>6, <2>3 DEF AssimilatorUpdateWorkunit, AssimilatorTypeOK, DbTypeOK, Rows
<1>7. CASE AssimilatorCrash
  BY <1>1, <1>3, <1>7, FaultCounted DEF AssimilatorCrash, AssimilatorTypeOK, DbTypeOK, Rows
<1>8. QED
  BY <1>4, <1>5, <1>6, <1>7 DEF AssimilatorNext, AssimilatorStep

\* Every step of the file deleter keeps the types of the rows.
LEMMA FileDeleterKeepsType ==
    ASSUME DbTypeOK, FileDeleterNext
    PROVE  DbTypeOK'
<1>1. wu \in WorkunitRow /\ res \in Rows /\ gone \subseteq Results /\ faults \in 0 .. MaxFaults
  BY DEF DbTypeOK, Rows
<1>2. ASSUME NEW r \in Results, FileDeleteOutput(r) \/ FileDeleteOutputFails(r)
      PROVE  DbTypeOK'
  <2>1. \A f \in {"DONE", "ERROR"} : [res EXCEPT ![r].fds = f] \in Rows
    <3>1. \A f \in {"DONE", "ERROR"} : [res[r] EXCEPT !.fds = f] \in ResultRow
      BY <1>1, RowUpdates DEF Rows, FileDeleteStates
    <3>2. QED
      BY <1>1, <3>1 DEF Rows
  <2>2. res' \in Rows
    BY <1>2, <2>1 DEF FileDeleteOutput, FileDeleteOutputFails
  <2>3. faults' \in 0 .. MaxFaults /\ gone' \subseteq Results /\ wu' = wu
    BY <1>1, <1>2, FaultCounted DEF FileDeleteOutput, FileDeleteOutputFails
  <2>4. QED
    BY <1>1, <2>2, <2>3 DEF DbTypeOK, Rows
<1>3. ASSUME FileDeleteInput \/ FileDeleteInputFails
      PROVE  DbTypeOK'
  <2>1. wu' \in WorkunitRow
    BY <1>1, <1>3, WorkunitUpdates DEF FileDeleteInput, FileDeleteInputFails, FileDeleteStates
  <2>2. faults' \in 0 .. MaxFaults /\ gone' = gone /\ res' = res
    BY <1>1, <1>3, FaultCounted DEF FileDeleteInput, FileDeleteInputFails
  <2>3. QED
    BY <1>1, <2>1, <2>2 DEF DbTypeOK, Rows
<1>4. QED
  BY <1>2, <1>3 DEF FileDeleterNext, FileDeleterStep

\* Every step of db_purge keeps the types of the rows and of its memory.
LEMMA PurgeKeepsType ==
    ASSUME DbTypeOK, PurgeTypeOK, PurgeNext
    PROVE  DbTypeOK' /\ PurgeTypeOK'
<1>1. wu \in WorkunitRow /\ res \in Rows /\ gone \subseteq Results /\ faults \in 0 .. MaxFaults
  BY DEF DbTypeOK, Rows
<1>2. purge.pc # "idle" => purge \in [pc : {"purging"}, todo : SUBSET Results]
  BY DEF PurgeTypeOK
<1>3. purgeIdle \in [pc : {"idle"}]
  BY DEF purgeIdle
<1>4. CASE PurgeEnumerate
  <2>1. Exists(res) \subseteq Results
    BY <1>1 DEF Exists, Rows
  <2>2. QED
    BY <1>4, <2>1, DbUnchanged DEF PurgeEnumerate, PurgeTypeOK
<1>5. ASSUME NEW r \in Results, PurgeResult(r)
      PROVE  DbTypeOK' /\ PurgeTypeOK'
  <2>1. res' \in Rows
    BY <1>1, <1>5, NewRowsAreRows DEF PurgeResult, Rows
  <2>2. purge' \in [pc : {"purging"}, todo : SUBSET Results]
    BY <1>2, <1>5 DEF PurgeResult
  <2>3. QED
    BY <1>1, <1>5, <2>1, <2>2 DEF PurgeResult, PurgeTypeOK, DbTypeOK, Rows
<1>6. CASE PurgeWorkunit
  <2>1. wu' \in WorkunitRow
    BY <1>1, <1>6 DEF PurgeWorkunit, WorkunitRow
  <2>2. QED
    BY <1>1, <1>3, <1>6, <2>1 DEF PurgeWorkunit, PurgeTypeOK, DbTypeOK, Rows
<1>7. CASE PurgeCrash
  BY <1>1, <1>3, <1>7, FaultCounted DEF PurgeCrash, PurgeTypeOK, DbTypeOK, Rows
<1>8. QED
  BY <1>4, <1>5, <1>6, <1>7 DEF PurgeNext, PurgeStep

CgiOps == {"idle", "updateWu", "mark", "replicate", "expire", "expireWu", "report",
           "trigger", "detach", "detachWu"}

CgiRecord ==
    [op : CgiOps, r : Results \cup {0}, old : ServerStates, replicate : BOOLEAN,
     todo : SUBSET Results, out : Returns \cup {"none"}, validate : ValidateStates]
CgiMemory == {m \in CgiRecord : m.op \in {"report", "trigger"} => m.r # 0}

\* How a scheduler process moves on.
LEMMA CgiMoves ==
    ASSUME cgi \in [Hosts -> CgiMemory], NEW h \in Hosts
    PROVE  /\ \A m \in CgiMemory : Become(h, m) => cgi' \in [Hosts -> CgiMemory]
           /\ \A op \in CgiOps \ {"report", "trigger"} :
                 Goto(h, op) => cgi' \in [Hosts -> CgiMemory]
           /\ cgi[h].op = "report" /\ Goto(h, "trigger") => cgi' \in [Hosts -> CgiMemory]
           /\ cgiIdle \in CgiMemory
<1>1. cgiIdle \in CgiMemory
  BY DEF cgiIdle, CgiMemory, CgiRecord, CgiOps, ServerStates, ValidateStates
<1>2. \A m \in CgiMemory : Become(h, m) => cgi' \in [Hosts -> CgiMemory]
  BY DEF Become
<1>3. \A op \in CgiOps : [cgi[h] EXCEPT !.op = op] \in CgiRecord
  BY DEF CgiMemory, CgiRecord
<1>4. \A op \in CgiOps : /\ [cgi[h] EXCEPT !.op = op].op = op
                         /\ [cgi[h] EXCEPT !.op = op].r = cgi[h].r
  BY DEF CgiMemory, CgiRecord
<1>5. /\ \A op \in CgiOps \ {"report", "trigger"} : [cgi[h] EXCEPT !.op = op] \in CgiMemory
      /\ cgi[h].op = "report" => [cgi[h] EXCEPT !.op = "trigger"] \in CgiMemory
  <2>1. cgi[h] \in CgiRecord /\ (cgi[h].op = "report" => cgi[h].r # 0)
    BY DEF CgiMemory
  <2>2. \A op \in CgiOps : (op \in {"report", "trigger"} => cgi[h].r # 0)
                             => [cgi[h] EXCEPT !.op = op] \in CgiMemory
    BY <1>3, <1>4 DEF CgiMemory
  <2>3. "trigger" \in CgiOps
    BY DEF CgiOps
  <2>4. QED
    BY <2>1, <2>2, <2>3
<1>6. QED
  BY <1>1, <1>2, <1>5 DEF Goto

\* update_wu_on_send() and mark_as_sent() write rows.
LEMMA SendWrites ==
    ASSUME DbTypeOK, NEW h \in Hosts
    PROVE  /\ \A tt \in TransitionTimes : UpdateWuOnSend(h, tt) => wu' \in WorkunitRow
           /\ \A r \in Results \cup {0}, old \in ServerStates, late \in BOOLEAN :
                 MarkAsSent(h, r, old, late) => res' \in Rows
<1>1. wu \in WorkunitRow /\ res \in Rows
  BY DEF DbTypeOK, Rows
<1>2. ASSUME NEW tt \in TransitionTimes, UpdateWuOnSend(h, tt)
      PROVE  wu' \in WorkunitRow
  <2> DEFINE hr == IF UsesHr(h) THEN HostClass[h] ELSE wu.hr
  <2>1. hr \in Nat
    BY <1>1, SchedulerAssumption DEF WorkunitRow
  <2>2. [wu EXCEPT !.tt = tt, !.hr = hr] \in WorkunitRow
    <3> HIDE DEF hr
    <3>1. QED
      BY <1>1, <2>1, WorkunitUpdates
  <2>3. QED
    BY <1>2, <2>2, WritesKeepType DEF UpdateWuOnSend
<1>3. ASSUME NEW r \in Results \cup {0}, NEW old \in ServerStates, NEW late \in BOOLEAN,
             MarkAsSent(h, r, old, late)
      PROVE  res' \in Rows
  <2> DEFINE S == [res EXCEPT ![r].server = "IN_PROGRESS", ![r].host = h, ![r].late = late]
  <2>1. S \in [Results -> ResultRow]
    <3>1. \A q \in Results :
             [res[q] EXCEPT !.server = "IN_PROGRESS", !.host = h, !.late = late] \in ResultRow
      BY <1>1, RowUpdates DEF Rows, ServerStates
    <3>2. \A q \in Results :
             S[q] = IF q = r THEN [res[q] EXCEPT !.server = "IN_PROGRESS", !.host = h,
                                                 !.late = late]
                    ELSE res[q]
      BY <1>1 DEF Rows
    <3>3. S = [q \in Results |-> S[q]]
      BY <1>1 DEF Rows
    <3> HIDE DEF S
    <3>4. QED
      BY <1>1, <3>1, <3>2, <3>3 DEF Rows
  <2>2. QED
    BY <1>1, <1>3, <2>1 DEF MarkAsSent, Rows
<1>4. QED
  BY <1>2, <1>3

\* Every step of a scheduler process keeps the types of the rows and of its memory.
LEMMA CgiKeepsType ==
    ASSUME DbTypeOK, SchedulerTypeOK, NEW h \in Hosts, CgiNext(h)
    PROVE  DbTypeOK' /\ SchedulerTypeOK'
<1>1. /\ wu \in WorkunitRow /\ res \in Rows /\ gone \subseteq Results
      /\ faults \in 0 .. MaxFaults
  BY DEF DbTypeOK, Rows
<1>2. /\ cgi \in [Hosts -> CgiMemory] /\ cgi[h] \in CgiMemory /\ acked \subseteq Results
      /\ cancel \in {"no", "results", "done"}
  BY DEF SchedulerTypeOK, CgiMemory, CgiRecord, CgiOps
<1> DEFINE Keeps == /\ wu' \in WorkunitRow /\ res' \in Rows /\ gone' \subseteq Results
                    /\ faults' \in 0 .. MaxFaults /\ cgi' \in [Hosts -> CgiMemory]
                    /\ acked' \subseteq Results /\ cancel' \in {"no", "results", "done"}
<1>3. SUFFICES Keeps
  BY DEF DbTypeOK, SchedulerTypeOK, CgiMemory, CgiRecord, CgiOps, Rows
<1>4. /\ cgi[h].op \in CgiOps /\ cgi[h].r \in Results \cup {0} /\ cgi[h].old \in ServerStates
      /\ cgi[h].replicate \in BOOLEAN /\ cgi[h].todo \in SUBSET Results
      /\ cgi[h].out \in Returns \cup {"none"} /\ cgi[h].validate \in ValidateStates
  BY <1>2 DEF CgiMemory, CgiRecord
<1>5. wu.tt \in TransitionTimes /\ (\A r \in Results : res[r] \in ResultRow)
  BY <1>1 DEF WorkunitRow, Rows
<1>6. ASSUME NEW r \in Results, SelectResult(h, r) \/ ResendLost(h, r)
      PROVE  Keeps
  <2>1. PICK op \in {"updateWu", "expire"}, old \in ServerStates, b \in BOOLEAN :
            \/ Become(h, [cgiIdle EXCEPT !.op = op, !.r = r, !.old = old, !.replicate = b])
            \/ Become(h, [cgiIdle EXCEPT !.op = op, !.r = r, !.old = old])
    BY <1>6 DEF SelectResult, ResendLost, CgiOps, ServerStates, NeedsReplication
  <2>2. /\ [cgiIdle EXCEPT !.op = op, !.r = r, !.old = old, !.replicate = b] \in CgiMemory
        /\ [cgiIdle EXCEPT !.op = op, !.r = r, !.old = old] \in CgiMemory
    <3>1. cgiIdle \in CgiRecord
      BY <1>2, CgiMoves DEF CgiMemory
    <3>2. op \in CgiOps /\ op \notin {"report", "trigger"}
      BY DEF CgiOps
    <3> DEFINE m == [cgiIdle EXCEPT !.op = op, !.r = r, !.old = old, !.replicate = b]
               n == [cgiIdle EXCEPT !.op = op, !.r = r, !.old = old]
    <3>3. m \in CgiRecord /\ n \in CgiRecord /\ m.op = op /\ n.op = op
      BY <3>1, <3>2 DEF CgiRecord
    <3> HIDE DEF m, n
    <3>4. m \in CgiMemory /\ n \in CgiMemory
      BY <3>2, <3>3 DEF CgiMemory
    <3>5. QED
      BY <3>4 DEF m, n
  <2>3. cgi' \in [Hosts -> CgiMemory]
    BY <1>2, <2>1, <2>2, CgiMoves
  <2>4. UNCHANGED <<dbVars, acked, cancel>>
    BY <1>6 DEF SelectResult, ResendLost
  <2>5. QED
    BY <1>1, <1>2, <2>3, <2>4 DEF dbVars
<1>7. ASSUME NEW r \in Results, ReportIgnored(h, r)
      PROVE  Keeps
  BY <1>1, <1>2, <1>7 DEF ReportIgnored, dbVars
<1>8. ASSUME NEW r \in Results, NEW ret \in Returns, Report(h, r, ret)
      PROVE  Keeps
  <2>1. PICK v \in ValidateStates :
            Become(h, [cgiIdle EXCEPT !.op = "report", !.r = r, !.out = ret, !.validate = v])
    BY <1>5, <1>8 DEF Report, ResultRow, ValidateStates
  <2>2. [cgiIdle EXCEPT !.op = "report", !.r = r, !.out = ret, !.validate = v] \in CgiMemory
    <3>1. cgiIdle \in CgiRecord /\ "report" \in CgiOps /\ r # 0
      BY <1>2, CgiMoves DEF CgiMemory, CgiOps, Results
    <3> DEFINE m == [cgiIdle EXCEPT !.op = "report", !.r = r, !.out = ret, !.validate = v]
    <3>2. m \in CgiRecord /\ m.r = r
      BY <3>1 DEF CgiRecord
    <3> HIDE DEF m
    <3>3. m \in CgiMemory
      BY <3>1, <3>2 DEF CgiMemory
    <3>4. QED
      BY <3>3 DEF m
  <2>3. QED
    BY <1>1, <1>2, <1>8, <2>1, <2>2, CgiMoves DEF Report, dbVars
<1>9. CASE Detach(h)
  <2>1. PICK mine \in SUBSET Results : Become(h, [cgiIdle EXCEPT !.op = "detach", !.todo = mine])
    BY <1>9 DEF Detach
  <2>2. [cgiIdle EXCEPT !.op = "detach", !.todo = mine] \in CgiMemory
    BY <1>2, CgiMoves DEF CgiMemory, CgiRecord, CgiOps
  <2>3. QED
    BY <1>1, <1>2, <1>9, <2>1, <2>2, CgiMoves DEF Detach, dbVars
<1>10. CASE SendUpdateWorkunit(h)
  <2>1. PICK op \in CgiOps \ {"report", "trigger"} : Goto(h, op)
    BY <1>10 DEF SendUpdateWorkunit, CgiOps
  <2>2. wu' \in WorkunitRow
    BY <1>1, <1>5, <1>10, SendWrites DEF SendUpdateWorkunit, TransitionTimes
  <2>3. QED
    BY <1>1, <1>2, <1>10, <2>1, <2>2, CgiMoves DEF SendUpdateWorkunit
<1>11. CASE SendMarkAsSent(h) \/ ResendExpire(h)
  <2>1. PICK op \in CgiOps \ {"report", "trigger"} : Goto(h, op)
    BY <1>11 DEF SendMarkAsSent, ResendExpire, CgiOps
  <2>2. res' \in Rows
    BY <1>4, <1>11, SendWrites DEF SendMarkAsSent, ResendExpire
  <2>3. QED
    BY <1>1, <1>2, <1>11, <2>1, <2>2, CgiMoves DEF SendMarkAsSent, ResendExpire
<1>12. CASE SendReplicate(h)
  <2>1. [wu EXCEPT !.target = AppTarget, !.quorum = AppTarget, !.tt = "now"] \in WorkunitRow
    BY <1>1, WorkunitUpdates, SchedulerAssumption DEF TransitionTimes
  <2>2. wu' \in WorkunitRow /\ Goto(h, "idle")
    BY <1>12, <2>1, WritesKeepType DEF SendReplicate
  <2>3. QED
    BY <1>1, <1>2, <1>12, <2>2, CgiMoves DEF SendReplicate, CgiOps
<1>13. CASE ResendExpireWorkunit(h)
  <2>1. wu' \in WorkunitRow /\ Goto(h, "idle")
    BY <1>1, <1>13, SendWrites DEF ResendExpireWorkunit, TransitionTimes
  <2>2. QED
    BY <1>1, <1>2, <1>13, <2>1, CgiMoves DEF ResendExpireWorkunit, CgiOps
<1>14. CASE ReportUpdate(h)
  <2> DEFINE r == cgi[h].r
  <2>1. ASSUME r \in Results
        PROVE  \A o \in Outcomes :
                  [res[r] EXCEPT !.server = "OVER", !.host = h, !.received = TRUE,
                                 !.late = TRUE, !.out = cgi[h].out,
                                 !.validate = cgi[h].validate, !.outcome = o] \in ResultRow
    <3> DEFINE out == cgi[h].out
               validate == cgi[h].validate
               row == res[r]
    <3>1. row \in ResultRow /\ out \in Returns \cup {"none"} /\ validate \in ValidateStates
          /\ "OVER" \in ServerStates /\ TRUE \in BOOLEAN
      BY <1>4, <1>5, <2>1 DEF ServerStates
    <3> HIDE DEF out, validate, row
    <3>2. \A o \in Outcomes :
             [row EXCEPT !.server = "OVER", !.host = h, !.received = TRUE, !.late = TRUE,
                         !.out = out, !.validate = validate, !.outcome = o] \in ResultRow
      BY <3>1, RowUpdates
    <3>3. QED
      BY <3>2 DEF out, validate, row
  <2>2. res' \in Rows
    <3>1. CASE r \in Results
      BY <1>14, <2>1, <3>1, WritesKeepType DEF ReportUpdate, Outcomes
    <3>2. CASE r \notin Results
      BY <1>1, <1>14, <3>2 DEF ReportUpdate, UpdateResult, Exists, Rows
    <3>3. QED
      BY <3>1, <3>2
  <2>3. Goto(h, "trigger")
    BY <1>14 DEF ReportUpdate
  <2>4. QED
    BY <1>1, <1>2, <1>14, <2>2, <2>3, CgiMoves DEF ReportUpdate, CgiOps
<1>15. CASE ReportTrigger(h)
  <2>1. wu' \in WorkunitRow /\ Goto(h, "idle")
    BY <1>1, <1>15, WorkunitUpdates, WritesKeepType DEF ReportTrigger, TransitionTimes
  <2>2. QED
    <3>1. cgi[h].r \in Results
      BY <1>2, <1>4, <1>15 DEF ReportTrigger, CgiMemory
    <3>2. QED
      BY <1>1, <1>2, <1>15, <2>1, <3>1, CgiMoves DEF ReportTrigger, CgiOps
<1>16. ASSUME NEW r \in Results, DetachResult(h, r)
       PROVE  Keeps
  <2>1. [res[r] EXCEPT !.server = "OVER", !.outcome = "CLIENT_DETACHED", !.received = TRUE]
           \in ResultRow
    BY <1>5, RowUpdates DEF ServerStates, Outcomes
  <2>2. res' \in Rows
    BY <1>16, <2>1, WritesKeepType DEF DetachResult
  <2>3. [cgi[h] EXCEPT !.op = "detachWu", !.todo = @ \ {r}] \in CgiMemory
    BY <1>2 DEF CgiMemory, CgiRecord, CgiOps
  <2>4. QED
    BY <1>1, <1>2, <1>16, <2>2, <2>3, CgiMoves DEF DetachResult
<1>17. CASE DetachTrigger(h)
  <2>1. PICK op \in CgiOps \ {"report", "trigger"} : Goto(h, op)
    BY <1>17 DEF DetachTrigger, CgiOps
  <2>2. wu' \in WorkunitRow
    BY <1>1, <1>17, WorkunitUpdates, WritesKeepType DEF DetachTrigger, TransitionTimes
  <2>3. QED
    BY <1>1, <1>2, <1>17, <2>1, <2>2, CgiMoves DEF DetachTrigger
<1>18. CASE CgiCrash(h)
  BY <1>1, <1>2, <1>18, CgiMoves, FaultCounted DEF CgiCrash, CgiOps
<1>19. QED
  BY <1>6, <1>7, <1>8, <1>9, <1>10, <1>11, <1>12, <1>13, <1>14, <1>15, <1>16, <1>17, <1>18
     DEF CgiNext, CgiRequest, CgiStep

\* Both steps of cancel_job() keep the types.
LEMMA CancelKeepsType ==
    ASSUME DbTypeOK, SchedulerTypeOK, CancelNext
    PROVE  DbTypeOK' /\ SchedulerTypeOK'
<1>1. wu \in WorkunitRow /\ res \in Rows
  BY DEF DbTypeOK, Rows
<1>2. CASE CancelResults
  <2>1. \A r \in Results :
           [res[r] EXCEPT !.server = "OVER", !.outcome = "DIDNT_NEED"] \in ResultRow
    BY <1>1, RowUpdates DEF Rows, ServerStates, Outcomes
  <2>2. res' \in [Results -> ResultRow]
    BY <1>1, <1>2, <2>1 DEF CancelResults, Rows
  <2>3. QED
    BY <1>2, <2>2 DEF CancelResults, DbTypeOK, SchedulerTypeOK
<1>3. CASE CancelWorkunit
  <2>1. [wu EXCEPT !.error = @ \cup {"CANCELLED"}, !.tt = "now"] \in WorkunitRow
    BY <1>1 DEF WorkunitRow, WuErrors, TransitionTimes
  <2>2. wu' \in WorkunitRow
    BY <1>3, <2>1, WritesKeepType DEF CancelWorkunit
  <2>3. QED
    BY <1>3, <2>2 DEF CancelWorkunit, DbTypeOK, SchedulerTypeOK
<1>4. QED
  BY <1>2, <1>3 DEF CancelNext

\* The passage of time keeps the types of the rows.
LEMMA TimeKeepsType ==
    ASSUME DbTypeOK
    PROVE  /\ \A r \in Results : DeadlinePasses(r) => DbTypeOK'
           /\ TransitionTimePasses => DbTypeOK'
<1>1. \A r \in Results : [res[r] EXCEPT !.late = TRUE] \in ResultRow
  BY RowUpdates DEF DbTypeOK
<1>2. [wu EXCEPT !.tt = "now"] \in WorkunitRow
  BY WorkunitUpdates DEF DbTypeOK, TransitionTimes
<1>3. QED
  BY <1>1, <1>2 DEF DbTypeOK, DeadlinePasses, TransitionTimePasses

\* Every variable keeps its type, whatever the processes interleave.
THEOREM TypeCorrect == Spec => []TypeOK
<1>1. Init => TypeOK
  <2>1. SUFFICES ASSUME Init PROVE TypeOK
    OBVIOUS
  <2>2. DbTypeOK
    <3>1. NewWorkunit \in WorkunitRow
      BY ParamAssumption
         DEF NewWorkunit, WorkunitRow, AssimilateStates, FileDeleteStates, TransitionTimes
    <3>2. QED
      BY <2>1, <3>1, NewRowsAreRows, ParamAssumption DEF Init, DbInit, DbTypeOK
  <2>3. cgi \in [Hosts -> CgiMemory]
    BY <2>1 DEF Init, SchedulerInit, cgiIdle, CgiMemory, CgiRecord, CgiOps, ServerStates, ValidateStates
  <2>4. QED
    BY <2>1, <2>2, <2>3
       DEF Init, TypeOK, TransitionerInit, transitionerIdle, TransitionerTypeOK,
           ValidatorInit, validatorIdle, ValidatorTypeOK, AssimilatorInit, assimilatorIdle,
           AssimilatorTypeOK, PurgeInit, purgeIdle, PurgeTypeOK, SchedulerInit,
           SchedulerTypeOK, CgiMemory, CgiRecord, CgiOps
<1>2. TypeOK /\ [Next]_vars => TypeOK'
  <2>1. SUFFICES ASSUME TypeOK, [Next]_vars PROVE TypeOK'
    OBVIOUS
  <2>2. /\ DbTypeOK /\ TransitionerTypeOK /\ ValidatorTypeOK /\ AssimilatorTypeOK
        /\ PurgeTypeOK /\ SchedulerTypeOK
    BY <2>1 DEF TypeOK
  <2>3. /\ UNCHANGED dbVars => DbTypeOK'
        /\ UNCHANGED tr => TransitionerTypeOK'
        /\ UNCHANGED validatorVars => ValidatorTypeOK'
        /\ UNCHANGED asm => AssimilatorTypeOK'
        /\ UNCHANGED purge => PurgeTypeOK'
        /\ UNCHANGED schedulerVars => SchedulerTypeOK'
    BY <2>2, DbUnchanged
       DEF TransitionerTypeOK, ValidatorTypeOK, validatorVars, AssimilatorTypeOK,
           PurgeTypeOK, SchedulerTypeOK, schedulerVars
  <2>4. CASE InTransitioner(TransitionerNext)
    BY <2>2, <2>3, <2>4, TransitionerKeepsType DEF InTransitioner, TypeOK
  <2>5. CASE InValidator(ValidatorNext)
    BY <2>2, <2>3, <2>5, ValidatorKeepsType DEF InValidator, TypeOK
  <2>6. CASE InAssimilator(AssimilatorNext)
    BY <2>2, <2>3, <2>6, AssimilatorKeepsType DEF InAssimilator, TypeOK
  <2>7. CASE InFileDeleter(FileDeleterNext)
    BY <2>2, <2>3, <2>7, FileDeleterKeepsType DEF InFileDeleter, TypeOK
  <2>8. CASE InPurge(PurgeNext)
    BY <2>2, <2>3, <2>8, PurgeKeepsType DEF InPurge, TypeOK
  <2>9. ASSUME NEW h \in Hosts, InCgi(h, CgiNext(h)) PROVE TypeOK'
    BY <2>2, <2>3, <2>9, CgiKeepsType DEF InCgi, TypeOK
  <2>10. CASE InCancel(CancelNext)
    BY <2>2, <2>3, <2>10, CancelKeepsType DEF InCancel, TypeOK
  <2>11. ASSUME NEW r \in Results, InTime(DeadlinePasses(r)) PROVE TypeOK'
    BY <2>2, <2>3, <2>11, TimeKeepsType DEF InTime, TypeOK
  <2>12. CASE InTime(TransitionTimePasses)
    BY <2>2, <2>3, <2>12, TimeKeepsType DEF InTime, TypeOK
  <2>13. CASE UNCHANGED vars
    BY <2>2, <2>3, <2>13 DEF vars, TypeOK
  <2>14. QED
    BY <2>1, <2>4, <2>5, <2>6, <2>7, <2>8, <2>9, <2>10, <2>11, <2>12, <2>13 DEF Next, Purged
<1>3. QED
  BY <1>1, <1>2, PTL DEF Spec

-----------------------------------------------------------------------------
\* Results only move forward.

HostsSound(S) ==
    \A r \in Results : S[r].server \in {"NONE", "UNSENT", "PURGED"} => S[r].host = NoHost

\* What every step does to the result rows: no row goes back, no result in
\* progress changes hands.
Forward(S, T) ==
    \A r \in Results :
        /\ Rank(T[r].server) >= Rank(S[r].server)
        /\ S[r].server = "IN_PROGRESS" /\ T[r].server = "IN_PROGRESS" => T[r].host = S[r].host
        /\ T[r].server \in {"NONE", "UNSENT", "PURGED"} => T[r].host = NoHost

\* What every step but the insertion of new results does.
Moves(S, T) == Forward(S, T) /\ Issued(T) = Issued(S)

-----------------------------------------------------------------------------
\* Ranks, as facts about two states of one row.
LEMMA RankFacts ==
    /\ \A a \in ServerStates : Rank(a) \in 0 .. 4
    /\ \A a \in ServerStates : Rank("OVER") >= Rank(a) \/ a = "PURGED"
    /\ \A a \in ServerStates : Rank("PURGED") >= Rank(a)
    /\ \A a, b \in ServerStates : Rank(b) >= Rank(a) =>
          /\ a # "NONE" => b # "NONE"
          /\ a = "PURGED" => b = "PURGED"
          /\ a \in {"OVER", "PURGED"} => b \in {"OVER", "PURGED"}
          /\ a \in {"IN_PROGRESS", "OVER", "PURGED"} => b \in {"IN_PROGRESS", "OVER", "PURGED"}
    /\ Rank("IN_PROGRESS") >= Rank("UNSENT") /\ Rank("UNSENT") >= Rank("NONE")
BY DEF Rank, ServerStates

\* A row that is written with server_state OVER, or without changing
\* server_state and host, moves forward.
LEMMA RowMoves ==
    ASSUME res \in Rows, HostsSound(res), NEW r \in Results, NEW row \in ResultRow,
           res' = [res EXCEPT ![r] = row],
           \/ /\ row.server = "OVER" /\ r \in Exists(res)
           \/ /\ row.server = res[r].server /\ row.host = res[r].host
           \/ /\ row = PurgedRow /\ r \in Issued(res)
    PROVE  Moves(res, res')
<1>1. \A s \in Results : res[s] \in ResultRow /\ res[s].server \in ServerStates
  BY DEF Rows, ResultRow
<1>2. \A s \in Results : res'[s] = IF s = r THEN row ELSE res[s]
  BY DEF Rows
<1>3. DOMAIN res = Results
  BY DEF Rows
<1>4. PurgedRow.server = "PURGED" /\ PurgedRow.host = NoHost
  BY DEF PurgedRow, NoRow
<1>5. Forward(res, res')
  <2>1. ASSUME NEW s \in Results PROVE Rank(res'[s].server) >= Rank(res[s].server)
    BY <1>1, <1>2, <1>3, <1>4, RankFacts DEF Exists
  <2>2. QED
    BY <1>1, <1>2, <1>3, <1>4, <2>1 DEF Forward, Exists, HostsSound
<1>6. Issued(res') = Issued(res)
  BY <1>1, <1>2, <1>3, <1>4 DEF Issued, Exists
<1>7. QED
  BY <1>5, <1>6 DEF Moves

\* Rows that are left alone move forward, trivially.
LEMMA RestMoves ==
    ASSUME res \in Rows, HostsSound(res), UNCHANGED res
    PROVE  Moves(res, res')
<1>1. \A s \in Results : Rank(res[s].server) \in 0 .. 4
  BY RankFacts DEF Rows, ResultRow
<1>2. QED
  BY <1>1 DEF Moves, Forward, HostsSound, Issued

\* update_result() with server_state OVER.
LEMMA OverMoves ==
    ASSUME res \in Rows, HostsSound(res), NEW r \in Results, NEW row \in ResultRow,
           row.server = "OVER", UpdateResult(r, row)
    PROVE  Moves(res, res')
BY RestMoves, RowMoves DEF UpdateResult

-----------------------------------------------------------------------------
\* What each process does to the result rows.

\* The transitioner writes results that are over, or inserts results.
LEMMA TransitionerMoves ==
    ASSUME TypeOK, MemoriesAreSafe, TransitionerNext, DbTypeOK'
    PROVE  TransitionerDecide \/ Moves(res, res')
<1>1. res \in Rows /\ res' \in Rows /\ HostsSound(res)
  BY DEF TypeOK, DbTypeOK, Rows, MemoriesAreSafe, ResultRowsSound, HostsSound
<1>2. CASE UNCHANGED res
  BY <1>1, <1>2, RestMoves
<1>3. ASSUME NEW r \in Results, TransitionerUpdateResult(r)
      PROVE  Moves(res, res')
  <2>1. tr \in TransitionerMemory
    BY <1>3 DEF TypeOK, TransitionerTypeOK, TransitionerMemory, TransitionerUpdateResult, Rows
  <2>2. tr.res[r].server = "OVER"
    BY <1>3 DEF TransitionerUpdateResult, MemoriesAreSafe, TransitionerSound
  <2> DEFINE row == [res[r] EXCEPT !.server = tr.res[r].server,
                                   !.outcome = tr.res[r].outcome,
                                   !.validate = tr.res[r].validate, !.fds = tr.res[r].fds]
  <2>3. row \in ResultRow /\ row.server = "OVER"
    <3>1. res[r] \in ResultRow /\ tr.res[r] \in ResultRow
      BY <1>1, <2>1 DEF TransitionerMemory, Rows
    <3>2. /\ tr.res[r].outcome \in Outcomes /\ tr.res[r].validate \in ValidateStates
          /\ tr.res[r].fds \in FileDeleteStates /\ tr.res[r].server \in ServerStates
      BY <3>1 DEF ResultRow
    <3>3. row.server = tr.res[r].server
      BY <3>1 DEF ResultRow
    <3>4. QED
      BY <2>2, <3>1, <3>2, <3>3, RowUpdates
  <2>4. UpdateResult(r, row)
    BY <1>3 DEF TransitionerUpdateResult
  <2> HIDE DEF row
  <2>5. QED
    BY <1>1, <2>3, <2>4, OverMoves
<1>4. QED
  BY <1>2, <1>3 DEF TransitionerNext, TransitionerStep, TransitionerEnumerate,
     TransitionerRelease, TransitionerUpdateWorkunit, TransitionerCrash, dbVars

\* The validator writes verdicts on results that are over, and ends unsent ones.
LEMMA ValidatorMoves ==
    ASSUME TypeOK, MemoriesAreSafe, ValidatorNext
    PROVE  Moves(res, res')
<1>1. res \in Rows /\ HostsSound(res)
  BY DEF TypeOK, DbTypeOK, Rows, MemoriesAreSafe, ResultRowsSound, HostsSound
<1>2. CASE UNCHANGED res
  BY <1>1, <1>2, RestMoves
<1>3. ASSUME NEW r \in Results, ValidatorUpdateResult(r)
      PROVE  Moves(res, res')
  <2>1. va \in ValidatorMemory
    BY <1>3 DEF TypeOK, ValidatorTypeOK, ValidatorMemory, ValidatorUpdateResult, Rows
  <2>2. va.res[r].server = "OVER"
    BY <1>3 DEF ValidatorUpdateResult, MemoriesAreSafe, ValidatorSound
  <2> DEFINE row == [res[r] EXCEPT !.server = va.res[r].server,
                                   !.outcome = va.res[r].outcome,
                                   !.validate = va.res[r].validate]
  <2>3. row \in ResultRow /\ row.server = "OVER"
    <3>1. res[r] \in ResultRow /\ va.res[r] \in ResultRow
      BY <1>1, <2>1 DEF ValidatorMemory, Rows
    <3>2. /\ va.res[r].outcome \in Outcomes /\ va.res[r].validate \in ValidateStates
          /\ va.res[r].server \in ServerStates
      BY <3>1 DEF ResultRow
    <3>3. row.server = va.res[r].server
      BY <3>1 DEF ResultRow
    <3>4. QED
      BY <2>2, <3>1, <3>2, <3>3, RowUpdates
  <2>4. UpdateResult(r, row)
    BY <1>3 DEF ValidatorUpdateResult
  <2> HIDE DEF row
  <2>5. QED
    BY <1>1, <2>3, <2>4, OverMoves
<1>4. QED
  BY <1>2, <1>3
     DEF ValidatorNext, ValidatorStep, ValidatorFlakyCheckSet, ValidatorCreditError,
         ValidatorRetryPair, ValidatorCrash, ValidatorEnumerate, ValidatorNoCanonicalRow,
         ValidatorNoQuorum, ValidatorCheckSet, ValidatorCheckPair, ValidatorGrantCredit,
         ValidatorCheckedAll, ValidatorUpdateWorkunit, dbVars

\* The file deleter writes file_delete_state, db_purge deletes rows it has read.
LEMMA DeletersMove ==
    ASSUME TypeOK, MemoriesAreSafe, FileDeleterNext \/ PurgeNext
    PROVE  Moves(res, res')
<1>1. res \in Rows /\ HostsSound(res)
  BY DEF TypeOK, DbTypeOK, Rows, MemoriesAreSafe, ResultRowsSound, HostsSound
<1>2. CASE UNCHANGED res
  BY <1>1, <1>2, RestMoves
<1>3. ASSUME NEW r \in Results, FileDeleteOutput(r) \/ FileDeleteOutputFails(r)
      PROVE  Moves(res, res')
  <2>1. PICK f \in {"DONE", "ERROR"} : res' = [res EXCEPT ![r].fds = f]
    BY <1>3 DEF FileDeleteOutput, FileDeleteOutputFails
  <2> DEFINE row == [res[r] EXCEPT !.fds = f]
  <2>2. res[r] \in ResultRow
    BY <1>1 DEF Rows
  <2>3. row \in ResultRow /\ row.server = res[r].server /\ row.host = res[r].host
    <3>1. row \in ResultRow
      BY <2>2, RowUpdates DEF FileDeleteStates
    <3>2. row.server = res[r].server /\ row.host = res[r].host
      BY <2>2 DEF ResultRow
    <3>3. QED
      BY <3>1, <3>2
  <2>4. res' = [res EXCEPT ![r] = row]
    BY <2>1
  <2> HIDE DEF row
  <2>5. QED
    BY <1>1, <2>3, <2>4, RowMoves
<1>4. ASSUME NEW r \in Results, PurgeResult(r)
      PROVE  Moves(res, res')
  <2>1. r \in Issued(res) /\ res' = [res EXCEPT ![r] = PurgedRow]
    BY <1>4 DEF PurgeResult, MemoriesAreSafe, PurgeSound
  <2>2. QED
    BY <1>1, <2>1, RowMoves, NewRowsAreRows
<1>5. QED
  BY <1>2, <1>3, <1>4
     DEF FileDeleterNext, FileDeleterStep, FileDeleteInput, FileDeleteInputFails,
         PurgeNext, PurgeStep, PurgeEnumerate, PurgeWorkunit, PurgeCrash, dbVars

\* mark_as_sent() sends a result, or sends it again to the same host.
LEMMA MarkMoves ==
    ASSUME res \in Rows, HostsSound(res), NEW h \in Hosts, NEW r \in Results,
           NEW old, NEW late \in BOOLEAN, MarkAsSent(h, r, old, late),
           \/ old = "UNSENT"
           \/ old = "IN_PROGRESS" /\ (res[r].server = "IN_PROGRESS" => res[r].host = h)
    PROVE  Moves(res, res')
<1>1. \A s \in Results : res[s] \in ResultRow /\ res[s].server \in ServerStates
  BY DEF Rows, ResultRow
<1>2. CASE res[r].server # old
  BY <1>2, RestMoves DEF MarkAsSent
<1>3. CASE res[r].server = old
  <2>1. \A s \in Results \ {r} : res'[s] = res[s]
    BY <1>3 DEF MarkAsSent, Rows
  <2>2. res'[r].server = "IN_PROGRESS" /\ res'[r].host = h
    <3>1. DOMAIN res = Results /\ res[r] \in ResultRow
      BY <1>1 DEF Rows
    <3>2. QED
      BY <1>3, <3>1 DEF MarkAsSent, ResultRow
  <2>3. \A s \in Results : Rank(res'[s].server) >= Rank(res[s].server)
    BY <1>1, <1>3, <2>1, <2>2, RankFacts
  <2>4. Forward(res, res')
    BY <1>1, <1>3, <2>1, <2>2, <2>3 DEF Forward, HostsSound
  <2>5. Issued(res') = Issued(res)
    BY <1>3, <2>1, <2>2 DEF Issued
  <2>6. QED
    BY <2>4, <2>5 DEF Moves
<1>4. QED
  BY <1>2, <1>3

\* A scheduler process sends unsent results, or ends or re-sends those of its host.
LEMMA CgiMovesRows ==
    ASSUME TypeOK, MemoriesAreSafe, NEW h \in Hosts, CgiNext(h)
    PROVE  Moves(res, res')
<1>1. res \in Rows /\ HostsSound(res)
  BY DEF TypeOK, DbTypeOK, Rows, MemoriesAreSafe, ResultRowsSound, HostsSound
<1>2. cgi \in [Hosts -> CgiMemory] /\ cgi[h] \in CgiMemory /\ cgi[h] \in CgiRecord
  BY DEF TypeOK, SchedulerTypeOK, CgiMemory, CgiRecord, CgiOps
<1>3. \A r \in Results : res[r] \in ResultRow
  BY <1>1 DEF Rows
<1>4. CASE UNCHANGED res
  BY <1>1, <1>4, RestMoves
<1>5. CASE SendMarkAsSent(h) \/ ResendExpire(h)
  <2>1. PICK late \in BOOLEAN : MarkAsSent(h, cgi[h].r, cgi[h].old, late)
    BY <1>5 DEF SendMarkAsSent, ResendExpire
  <2>2. /\ cgi[h].r \in Results
        /\ \/ cgi[h].old = "UNSENT"
           \/ /\ cgi[h].old = "IN_PROGRESS"
              /\ res[cgi[h].r].server = "IN_PROGRESS" => res[cgi[h].r].host = h
    BY <1>5 DEF SendMarkAsSent, ResendExpire, MemoriesAreSafe, CgiSound, RequestSound
  <2>3. QED
    BY <1>1, <2>1, <2>2, MarkMoves
<1>6. CASE ReportUpdate(h)
  <2> DEFINE out == cgi[h].out
             validate == cgi[h].validate
             r == cgi[h].r
  <2>1. r \in Results /\ out \in Returns \cup {"none"} /\ validate \in ValidateStates
    BY <1>2, <1>6 DEF ReportUpdate, CgiMemory, CgiRecord
  <2>2. PICK o \in Outcomes :
           UpdateResult(r, [res[r] EXCEPT !.server = "OVER", !.host = h, !.received = TRUE,
                                          !.late = TRUE, !.out = out,
                                          !.validate = validate, !.outcome = o])
    BY <1>6 DEF ReportUpdate, Outcomes
  <2> HIDE DEF r, out, validate
  <2> DEFINE row == [res[r] EXCEPT !.server = "OVER", !.host = h, !.received = TRUE,
                                   !.late = TRUE, !.out = out,
                                   !.validate = validate, !.outcome = o]
  <2>3. row \in ResultRow
    <3>1. res[r] \in ResultRow /\ "OVER" \in ServerStates /\ TRUE \in BOOLEAN
      BY <1>3, <2>1 DEF ServerStates
    <3>2. QED
      BY <2>1, <3>1, RowUpdates
  <2>4. row.server = "OVER"
    BY <1>3, <2>1 DEF ResultRow
  <2> HIDE DEF row
  <2>5. UpdateResult(r, row)
    BY <2>2 DEF row
  <2>6. QED
    BY <1>1, <2>1, <2>3, <2>4, <2>5, OverMoves
<1>7. ASSUME NEW r \in Results, DetachResult(h, r)
      PROVE  Moves(res, res')
  <2> DEFINE row == [res[r] EXCEPT !.server = "OVER", !.outcome = "CLIENT_DETACHED",
                                   !.received = TRUE]
  <2>1. row \in ResultRow /\ row.server = "OVER"
    <3>1. row \in ResultRow
      BY <1>3, RowUpdates DEF ServerStates, Outcomes
    <3>2. row.server = "OVER"
      BY <1>3 DEF ResultRow
    <3>3. QED
      BY <3>1, <3>2
  <2>2. UpdateResult(r, row)
    BY <1>7 DEF DetachResult
  <2> HIDE DEF row
  <2>3. QED
    BY <1>1, <2>1, <2>2, OverMoves
<1>8. QED
  BY <1>4, <1>5, <1>6, <1>7
     DEF CgiNext, CgiRequest, CgiStep, CgiCrash, SelectResult, ResendLost, ReportIgnored,
         Report, Detach, SendUpdateWorkunit, SendReplicate, ResendExpireWorkunit,
         ReportTrigger, DetachTrigger, dbVars

\* cancel_job() takes results that were not sent; time marks results as late.
LEMMA OthersMove ==
    ASSUME TypeOK, MemoriesAreSafe,
           CancelNext \/ TransitionTimePasses \/ AssimilatorNext
             \/ \E r \in Results : DeadlinePasses(r)
    PROVE  Moves(res, res')
<1>1. res \in Rows /\ HostsSound(res)
  BY DEF TypeOK, DbTypeOK, Rows, MemoriesAreSafe, ResultRowsSound, HostsSound
<1>2. \A r \in Results : res[r] \in ResultRow /\ res[r].server \in ServerStates
  BY <1>1 DEF Rows, ResultRow
<1>3. CASE UNCHANGED res
  BY <1>1, <1>3, RestMoves
<1>4. CASE CancelResults
  <2>1. \A r \in Results :
           res'[r] = IF res[r].server = "UNSENT"
                     THEN [res[r] EXCEPT !.server = "OVER", !.outcome = "DIDNT_NEED"]
                     ELSE res[r]
    BY <1>4 DEF CancelResults
  <2>2. \A r \in Results : res'[r].server = IF res[r].server = "UNSENT" THEN "OVER"
                                            ELSE res[r].server
    BY <1>2, <2>1 DEF ResultRow
  <2>3. \A r \in Results : Rank(res'[r].server) >= Rank(res[r].server)
    BY <1>2, <2>2, RankFacts
  <2>4. Forward(res, res')
    BY <1>1, <2>1, <2>2, <2>3 DEF Forward, HostsSound
  <2>5. Issued(res') = Issued(res)
    BY <2>2 DEF Issued
  <2>6. QED
    BY <2>4, <2>5 DEF Moves
<1>5. ASSUME NEW r \in Results, DeadlinePasses(r)
      PROVE  Moves(res, res')
  <2> DEFINE row == [res[r] EXCEPT !.late = TRUE]
  <2>1. row \in ResultRow /\ row.server = res[r].server /\ row.host = res[r].host
    <3>1. row \in ResultRow
      BY <1>2, RowUpdates
    <3>2. row.server = res[r].server /\ row.host = res[r].host
      BY <1>2 DEF ResultRow
    <3>3. QED
      BY <3>1, <3>2
  <2>2. res' = [res EXCEPT ![r] = row]
    BY <1>5 DEF DeadlinePasses
  <2> HIDE DEF row
  <2>3. QED
    BY <1>1, <2>1, <2>2, RowMoves
<1>6. QED
  BY <1>3, <1>4, <1>5
     DEF CancelNext, CancelWorkunit, TransitionTimePasses, AssimilatorNext, AssimilatorStep,
         AssimilatorEnumerate, AssimilatorHandle, AssimilatorUpdateWorkunit,
         AssimilatorCrash, dbVars

-----------------------------------------------------------------------------
\* The invariant, step by step: first what moving rows cannot spoil.

\* Rows that move forward keep sound what db_purge and the idle requests remember.
LEMMA ForwardKeeps ==
    ASSUME TypeOK, MemoriesAreSafe, TypeOK', Forward(res, res')
    PROVE  /\ Issued(res) \subseteq Issued(res')
           /\ HostsSound(res')
           /\ UNCHANGED purge => PurgeSound'
           /\ \A h \in Hosts : cgi'[h] = cgi[h] => RequestSound(h)'
<1>1. \A r \in Results : /\ res[r].server \in ServerStates /\ res'[r].server \in ServerStates
                         /\ Rank(res'[r].server) >= Rank(res[r].server)
  BY DEF TypeOK, DbTypeOK, ResultRow, Forward
<1>2. \A r \in Results :
         /\ res[r].server # "NONE" => res'[r].server # "NONE"
         /\ res[r].server \in {"OVER", "PURGED"} => res'[r].server \in {"OVER", "PURGED"}
         /\ res[r].server = "IN_PROGRESS" =>
              res'[r].server \in {"IN_PROGRESS", "OVER", "PURGED"}
  BY <1>1, RankFacts
<1>3. Issued(res) \subseteq Issued(res')
  BY <1>2 DEF Issued
<1>4. UNCHANGED purge => PurgeSound'
  BY <1>3 DEF MemoriesAreSafe, PurgeSound
<1>5. ASSUME NEW h \in Hosts, cgi'[h] = cgi[h], cgi[h].op \in {"updateWu", "mark", "expire"}
      PROVE  RequestSound(h)'
  <2> DEFINE r == cgi[h].r
  <2>1. /\ r \in Results
        /\ \/ cgi[h].old = "UNSENT" /\ res[r].server # "NONE"
           \/ /\ cgi[h].old = "IN_PROGRESS"
              /\ \/ res[r].server = "IN_PROGRESS" /\ res[r].host = h
                 \/ res[r].server \in {"OVER", "PURGED"}
    BY <1>5 DEF MemoriesAreSafe, CgiSound, RequestSound
  <2>2. res[r].server = "IN_PROGRESS" /\ res'[r].server = "IN_PROGRESS" =>
           res'[r].host = res[r].host
    BY <2>1 DEF Forward
  <2>3. /\ r \in Results
        /\ \/ cgi[h].old = "UNSENT" /\ res'[r].server # "NONE"
           \/ /\ cgi[h].old = "IN_PROGRESS"
              /\ \/ res'[r].server = "IN_PROGRESS" /\ res'[r].host = h
                 \/ res'[r].server \in {"OVER", "PURGED"}
    BY <1>2, <2>1, <2>2
  <2>4. QED
    BY <1>5, <2>3 DEF RequestSound
<1>6. ASSUME NEW h \in Hosts, cgi'[h] = cgi[h], cgi[h].op \notin {"updateWu", "mark", "expire"}
      PROVE  RequestSound(h)'
  BY <1>6 DEF RequestSound
<1>7. HostsSound(res')
  BY DEF Forward, HostsSound
<1>8. QED
  BY <1>3, <1>4, <1>5, <1>6, <1>7

\* If no result is added, the limit and the transitioner's memory stay sound too.
LEMMA MovesKeep ==
    ASSUME TypeOK, MemoriesAreSafe, TypeOK', Moves(res, res')
    PROVE  /\ ResultRowsSound' /\ ResultsBounded'
           /\ Exists(res') \subseteq Exists(res)
           /\ UNCHANGED tr => TransitionerSound'
<1>1. Forward(res, res') /\ Issued(res') = Issued(res)
  BY DEF Moves
<1>2. ResultRowsSound'
  BY <1>1, ForwardKeeps DEF MemoriesAreSafe, ResultRowsSound, HostsSound
<1>3. /\ DOMAIN res = Results /\ DOMAIN res' = Results
      /\ \A r \in Results : res[r].server \in ServerStates /\ res'[r].server \in ServerStates
  BY DEF TypeOK, DbTypeOK, ResultRow
<1>4. Exists(res') \subseteq Exists(res)
  <2>1. \A r \in Results : res[r].server = "PURGED" => res'[r].server = "PURGED"
    BY <1>1, <1>3, RankFacts DEF Forward
  <2>2. \A r \in Results : res[r].server = "NONE" => res'[r].server = "NONE"
    BY <1>1 DEF Issued
  <2>3. QED
    BY <1>3, <2>1, <2>2 DEF Exists
<1>5. ResultsBounded'
  <2>1. Exists(res) \in SUBSET Results
    BY <1>3 DEF Exists
  <2>2. Cardinality(Exists(res')) <= Cardinality(Exists(res))
    BY <1>4, <2>1, ResultsFinite, FS_Subset
  <2>3. /\ Cardinality(Exists(res)) \in Nat /\ Cardinality(Exists(res')) \in Nat
        /\ MaxTotalResults \in Nat
    BY <1>4, <2>1, ResultsFinite, ParamAssumption
  <2>4. QED
    BY <2>2, <2>3 DEF MemoriesAreSafe, ResultsBounded
<1>6. UNCHANGED tr => TransitionerSound'
  BY <1>1, <1>4 DEF MemoriesAreSafe, TransitionerSound
<1>7. QED
  BY <1>2, <1>4, <1>5, <1>6

-----------------------------------------------------------------------------
\* What the rules of handle_wu() and check_set() do to rows.

\* Whatever handle_wu() changes in memory is over; it never adds a result there.
LEMMA RulesMakeOver ==
    ASSUME NEW S \in Rows, NEW w
    PROVE  /\ \A r \in Results : Scanned(w, S)[r] # S[r] => Scanned(w, S)[r].server = "OVER"
           /\ \A r \in Results : S[r].server \in {"NONE", "PURGED"} => Scanned(w, S)[r] = S[r]
           /\ \A r \in Results : GivenUp(S)[r] # S[r] => GivenUp(S)[r].server = "OVER"
           /\ \A r \in Results : Released(w, S)[r] # S[r] => Released(w, S)[r].server = "OVER"
<1>1. DOMAIN S = Results /\ \A r \in Results : S[r] \in ResultRow
  BY DEF Rows
<1>2. \A row \in ResultRow, x \in ValidateStates, y \in Outcomes, f \in FileDeleteStates :
         /\ [row EXCEPT !.server = "OVER", !.outcome = y].server = "OVER"
         /\ [row EXCEPT !.validate = x].server = row.server
         /\ [row EXCEPT !.fds = f].server = row.server
  BY DEF ResultRow
<1>3. ASSUME NEW r \in Results
      PROVE  /\ Scanned(w, S)[r] # S[r] => Scanned(w, S)[r].server = "OVER"
             /\ S[r].server \in {"NONE", "PURGED"} => Scanned(w, S)[r] = S[r]
  <2>1. Scanned(w, S)[r] =
          IF S[r].server = "IN_PROGRESS" /\ S[r].late
            THEN [S[r] EXCEPT !.server = "OVER", !.outcome = "NO_REPLY"]
          ELSE IF r \in Unvalidated(S) /\ CanonicalFilesDeleted(w, S)
            THEN [S[r] EXCEPT !.validate = "TOO_LATE"]
          ELSE S[r]
    BY <1>1 DEF Scanned
  <2>2. r \in Unvalidated(S) => S[r].server = "OVER"
    BY DEF Unvalidated, Over
  <2>3. QED
    BY <1>1, <1>2, <2>1, <2>2 DEF ValidateStates, Outcomes
<1>4. ASSUME NEW r \in Results
      PROVE  GivenUp(S)[r] # S[r] => GivenUp(S)[r].server = "OVER"
  <2>1. GivenUp(S)[r] =
          IF r \in Unsent(S)
            THEN [S[r] EXCEPT !.server = "OVER", !.outcome = "DIDNT_NEED"]
          ELSE IF r \in Over(S, {"SUCCESS"}) /\ S[r].validate \in {"INIT", "INCONCLUSIVE"}
            THEN [S[r] EXCEPT !.validate = "NO_CHECK"]
          ELSE S[r]
    BY <1>1 DEF GivenUp
  <2>2. r \in Over(S, {"SUCCESS"}) => S[r].server = "OVER"
    BY DEF Over
  <2>3. QED
    BY <1>1, <1>2, <2>1, <2>2 DEF ValidateStates, Outcomes
<1>5. ASSUME NEW r \in Results
      PROVE  Released(w, S)[r] # S[r] => Released(w, S)[r].server = "OVER"
  <2>1. PICK b \in BOOLEAN :
          /\ Released(w, S)[r] = IF b THEN [S[r] EXCEPT !.fds = "READY"] ELSE S[r]
          /\ b => r \in Over(S, {"CLIENT_ERROR", "SUCCESS"})
    <3> DEFINE b == /\ r \in Over(S, {"CLIENT_ERROR", "SUCCESS"}) \ Unvalidated(S)
                    /\ r = w.canonical => AllOverAndValidated(S)
                    /\ S[r].fds = "INIT"
    <3>1. Released(w, S)[r] = IF b THEN [S[r] EXCEPT !.fds = "READY"] ELSE S[r]
      BY <1>1 DEF Released
    <3>2. b \in BOOLEAN /\ (b => r \in Over(S, {"CLIENT_ERROR", "SUCCESS"}))
      OBVIOUS
    <3>3. QED
      BY <3>1, <3>2
  <2>2. r \in Over(S, {"CLIENT_ERROR", "SUCCESS"}) => S[r].server = "OVER"
    BY DEF Over
  <2>3. QED
    BY <1>1, <1>2, <2>1, <2>2 DEF FileDeleteStates
<1>6. QED
  BY <1>3, <1>4, <1>5

\* Verdicts do not touch server_state.
LEMMA CheckSetKeepsServer ==
    ASSUME NEW S \in Rows, NEW viable, NEW flaky, NEW c
    PROVE  \A r \in Results :
              /\ CheckSet(S, viable, flaky, c)[r].server = S[r].server
              /\ Inconclusive(S, viable)[r].server = S[r].server
              /\ CheckPair(S, r, c).server = S[r].server
<1>1. DOMAIN S = Results /\ \A r \in Results : S[r] \in ResultRow
  BY DEF Rows
<1>2. \A row \in ResultRow, x \in ValidateStates, y \in Outcomes :
         /\ [row EXCEPT !.outcome = y, !.validate = x].server = row.server
         /\ [row EXCEPT !.validate = x].server = row.server
  BY DEF ResultRow
<1>3. ASSUME NEW r \in Results
      PROVE  CheckSet(S, viable, flaky, c)[r].server = S[r].server
  <2>1. PICK x \in ValidateStates :
           \/ CheckSet(S, viable, flaky, c)[r] = S[r]
           \/ CheckSet(S, viable, flaky, c)[r] =
                 [S[r] EXCEPT !.outcome = "VALIDATE_ERROR", !.validate = "INVALID"]
           \/ CheckSet(S, viable, flaky, c)[r] = [S[r] EXCEPT !.validate = x]
    BY <1>1 DEF CheckSet, ValidateStates
  <2>2. /\ [S[r] EXCEPT !.outcome = "VALIDATE_ERROR", !.validate = "INVALID"].server = S[r].server
        /\ [S[r] EXCEPT !.validate = x].server = S[r].server
    BY <1>1, <1>2 DEF ValidateStates, Outcomes
  <2>3. QED
    BY <2>1, <2>2
<1>4. ASSUME NEW r \in Results
      PROVE  Inconclusive(S, viable)[r].server = S[r].server
  BY <1>1, <1>2 DEF Inconclusive, ValidateStates
<1>5. ASSUME NEW r \in Results
      PROVE  CheckPair(S, r, c).server = S[r].server
  BY <1>1, <1>2 DEF CheckPair, ValidateStates, Outcomes
<1>6. QED
  BY <1>3, <1>4, <1>5

-----------------------------------------------------------------------------
\* The steps of the transitioner keep the invariant.

\* Its memory stays sound, whether it reads, computes, writes or dies.
LEMMA TransitionerKeepsSound ==
    ASSUME TypeOK, MemoriesAreSafe, TypeOK', TransitionerNext, ~TransitionerDecide
    PROVE  TransitionerSound'
<1>1. res \in Rows /\ res' \in Rows /\ DOMAIN res = Results
  BY DEF TypeOK, DbTypeOK, Rows
<1>2. Moves(res, res') /\ Exists(res') \subseteq Exists(res)
  BY TransitionerMoves, MovesKeep DEF TypeOK
<1>3. tr.pc # "idle" => tr \in TransitionerMemory
  BY DEF TypeOK, TransitionerTypeOK, TransitionerMemory, Rows
<1>4. CASE TransitionerEnumerate
  <2> DEFINE mem == Scanned(wu, res)
  <2>1. /\ tr'.pc = "scan" /\ tr'.res = mem /\ res' = res
        /\ tr'.todo = {r \in Results : mem[r] # res[r]}
    BY <1>4 DEF TransitionerEnumerate, dbVars
  <2>2. \A r \in tr'.todo : tr'.res[r].server = "OVER"
    BY <1>1, <2>1, RulesMakeOver
  <2>3. \A r \in Results : /\ mem[r] # res[r] => mem[r].server = "OVER"
                           /\ res[r].server \in {"NONE", "PURGED"} => mem[r] = res[r]
    BY <1>1, RulesMakeOver
  <2>4. mem \in Rows /\ DOMAIN mem = Results
    BY <1>1, RulesKeepRows DEF Rows
  <2>5. Issued(mem) = Issued(res) /\ Exists(mem) = Exists(res)
    <3> HIDE DEF mem
    <3>1. QED
      BY <1>1, <2>3, <2>4 DEF Issued, Exists
  <2>6. QED
    BY <2>1, <2>2, <2>5 DEF TransitionerSound, MemoriesAreSafe, ResultsBounded
<1>5. ASSUME NEW r \in Results, TransitionerUpdateResult(r)
      PROVE  TransitionerSound'
  <2>1. tr \in TransitionerMemory /\ tr' = [tr EXCEPT !.todo = @ \ {r}]
    BY <1>3, <1>5 DEF TransitionerUpdateResult
  <2>2. tr'.pc = tr.pc /\ tr'.res = tr.res /\ tr'.todo \subseteq tr.todo /\ tr.pc # "idle"
    BY <1>5, <2>1 DEF TransitionerMemory, TransitionerUpdateResult
  <2>3. Issued(res') = Issued(res)
    BY <1>2 DEF Moves
  <2>4. QED
    BY <1>2, <2>2, <2>3 DEF TransitionerSound, MemoriesAreSafe
<1>6. CASE TransitionerRelease
  <2>1. tr \in TransitionerMemory
    BY <1>3, <1>6 DEF TransitionerRelease
  <2>2. PICK b, c \in BOOLEAN, w \in WorkunitRow, mem \in {Released(tr.wu, tr.res), tr.res} :
            tr' = [tr EXCEPT !.pc = "release", !.res = mem, !.wu = w,
                             !.todo = {r \in Results : mem[r] # tr.res[r]}]
    <3>1. \A a, b \in BOOLEAN : Finished(tr.wu, tr.res, a, b) \in WorkunitRow
      BY <2>1, RulesKeepWorkunit DEF TransitionerMemory
    <3>2. PICK settled \in BOOLEAN :
             LET done == tr.wu.assimilate = "DONE"
                 mem == IF done /\ settled THEN Released(tr.wu, tr.res) ELSE tr.res
             IN  tr' = [tr EXCEPT !.pc = "release", !.res = mem,
                            !.wu = Finished(tr.wu, tr.res, done /\ settled, done /\ ~settled),
                            !.todo = {r \in Results : mem[r] # tr.res[r]}]
      BY <1>6 DEF TransitionerRelease
    <3>3. QED
      BY <3>1, <3>2
  <2>3. /\ tr'.pc = "release" /\ tr'.res = mem
        /\ tr'.todo = {r \in Results : mem[r] # tr.res[r]}
    BY <2>1, <2>2 DEF TransitionerMemory
  <2>4. \A r \in Results : mem[r] # tr.res[r] => mem[r].server = "OVER"
    BY <2>1, RulesMakeOver DEF TransitionerMemory
  <2>5. QED
    BY <2>3, <2>4 DEF TransitionerSound
<1>7. CASE TransitionerUpdateWorkunit \/ TransitionerCrash
  BY <1>7 DEF TransitionerUpdateWorkunit, TransitionerCrash, transitionerIdle,
              TransitionerSound
<1>8. QED
  BY <1>4, <1>5, <1>6, <1>7 DEF TransitionerNext, TransitionerStep

\* New results get the next ids, and no more of them than the limit allows.
LEMMA DecideIsSafe ==
    ASSUME TypeOK, MemoriesAreSafe, TypeOK', TransitionerDecide
    PROVE  /\ Forward(res, res')
           /\ ResultRowsSound' /\ ResultsBounded' /\ TransitionerSound'
<1>1. /\ res \in Rows /\ res' \in Rows /\ DOMAIN res = Results /\ DOMAIN res' = Results
      /\ \A r \in Results : res[r].server \in ServerStates
  BY DEF TypeOK, DbTypeOK, Rows, ResultRow
<1>2. tr \in TransitionerMemory /\ tr.pc = "scan" /\ tr.res \in Rows
  BY DEF TypeOK, TransitionerTypeOK, TransitionerMemory, TransitionerDecide, Rows
<1>3. /\ Issued(res) = Issued(tr.res) /\ Exists(res) \subseteq Exists(tr.res)
      /\ Cardinality(Exists(tr.res)) <= MaxTotalResults
  BY <1>2 DEF MemoriesAreSafe, TransitionerSound
<1> DEFINE w == Decided(tr.wu, tr.res)
           mem == IF w.error # {} THEN GivenUp(tr.res) ELSE tr.res
           n == Cardinality({r \in Results : tr.res[r].server # "NONE"})
           m == NewResults(tr.wu, tr.res)
           new == IF w.error = {} /\ w.canonical = 0 THEN n + 1 .. n + m ELSE {}
<1>4. /\ new \subseteq Results
      /\ tr' = [tr EXCEPT !.pc = "decide", !.wu = w, !.res = mem,
                          !.todo = {r \in Results : mem[r] # tr.res[r]}]
      /\ res' = [r \in Results |-> IF r \in new THEN NewResult ELSE res[r]]
  BY DEF TransitionerDecide
<1>5. PICK k \in 0 .. MaxTotalResults + 1 : Issued(res) = 1 .. k
  BY DEF MemoriesAreSafe, ResultRowsSound
<1>6. MaxTotalResults \in Nat \ {0} /\ k \in Nat
  BY <1>5, ParamAssumption
<1>7. n = k
  <2>1. {r \in Results : tr.res[r].server # "NONE"} = 1 .. k
    BY <1>3, <1>5 DEF Issued
  <2>2. Cardinality(1 .. k) = k
    BY <1>6, FS_Interval
  <2>3. QED
    BY <2>1, <2>2
<1>8. Exists(tr.res) \in SUBSET Results
  BY <1>2 DEF Exists, Rows
<1>9. Cardinality(Exists(tr.res)) \in Nat /\ Cardinality(Exists(res)) \in Nat
      /\ Cardinality(Exists(res)) <= Cardinality(Exists(tr.res))
  BY <1>3, <1>8, ResultsFinite, FS_Subset
<1>10. ASSUME w.error = {} /\ w.canonical = 0
       PROVE  m \in Nat /\ Cardinality(Exists(tr.res)) + m <= MaxTotalResults
  <2> DEFINE s == Cardinality(Unsent(tr.res) \cup InProgress(tr.res) \cup Successes(tr.res))
             t == tr.wu.target
             total == Cardinality(Exists(tr.res))
  <2>1. s \in Nat
    <3>1. Unsent(tr.res) \cup InProgress(tr.res) \cup Successes(tr.res) \in SUBSET Results
      BY <1>2 DEF Unsent, InProgress, Successes, Over, Rows
    <3>2. QED
      BY <3>1, ResultsFinite
  <2>2. t \in Nat
    BY <1>2 DEF TransitionerMemory, WorkunitRow
  <2>3. Needed(tr.wu, tr.res) \in Nat
    <3> HIDE DEF s
    <3>1. Needed(tr.wu, tr.res) = IF t > s THEN t - s ELSE 0
      BY DEF Needed, s
    <3>2. QED
      BY <2>1, <2>2, <3>1
  <2>4. ~TooManyTotal(tr.wu, tr.res)
    <3>1. TooManyTotal(tr.wu, tr.res) => "TOO_MANY_TOTAL" \in w.error
      <4>1. w.error = tr.wu.error
              \cup (IF Cardinality(Errors(tr.res)) > MaxErrorResults THEN {"TOO_MANY_ERROR"}
                    ELSE {})
              \cup (IF TooManyTotal(tr.wu, tr.res) THEN {"TOO_MANY_TOTAL"} ELSE {})
        BY <1>2 DEF Decided, TransitionerMemory, WorkunitRow
      <4>2. QED
        BY <4>1
    <3>2. QED
      BY <1>10, <3>1
  <2>5. total \in Nat /\ total <= MaxTotalResults
    BY <1>3, <1>9
  <2>6. total = MaxTotalResults => Needed(tr.wu, tr.res) <= 0
    BY <2>3, <2>4 DEF TooManyTotal, Ntotal
  <2> HIDE DEF s, t
  <2>7. m = IF total < MaxTotalResults /\ Needed(tr.wu, tr.res) > MaxTotalResults - total
            THEN MaxTotalResults - total ELSE Needed(tr.wu, tr.res)
    BY DEF NewResults, Ntotal
  <2> HIDE DEF total, m
  <2>8. m \in Nat /\ total + m <= MaxTotalResults
    BY <1>6, <2>3, <2>5, <2>6, <2>7
  <2>9. QED
    BY <2>8 DEF total
<1> HIDE DEF m, n, w, mem
<1>11. \A r \in new : res[r].server = "NONE"
  <2>1. \A r \in new : r \notin 1 .. k
    BY <1>6, <1>7, <1>10
  <2>2. QED
    BY <1>4, <1>5, <2>1 DEF Issued
<1>12. Forward(res, res') /\ HostsSound(res')
  <2>1. HostsSound(res)
    BY DEF MemoriesAreSafe, ResultRowsSound, HostsSound
  <2>2. NewResult.server = "UNSENT" /\ NewResult.host = NoHost
    BY DEF NewResult, NoRow
  <2> HIDE DEF new
  <2>3. \A r \in Results : r \notin new => res'[r] = res[r]
    BY <1>4
  <2>4. \A r \in new : res'[r] = NewResult
    BY <1>4
  <2>5. \A r \in Results : Rank(res'[r].server) >= Rank(res[r].server)
    BY <1>1, <1>11, <2>2, <2>3, <2>4, RankFacts
  <2>6. QED
    BY <1>11, <2>1, <2>2, <2>3, <2>4, <2>5 DEF Forward, HostsSound
<1>13. Issued(res') = Issued(res) \cup new
  <2>1. NewResult.server # "NONE"
    BY DEF NewResult, NoRow
  <2> HIDE DEF new
  <2>2. QED
    BY <1>4, <2>1 DEF Issued
<1>14. ResultRowsSound'
  <2>1. \E j \in 0 .. MaxTotalResults + 1 : Issued(res') = 1 .. j
    <3>1. CASE new = {}
      BY <1>5, <1>13, <3>1
    <3>2. CASE new # {}
      <4>1. w.error = {} /\ w.canonical = 0 /\ m \in Nat /\ new = k + 1 .. k + m
        BY <1>7, <1>10, <3>2
      <4> HIDE DEF new
      <4>2. m # 0
        BY <1>6, <3>2, <4>1
      <4>3. k + m \in new
        BY <1>6, <4>1, <4>2
      <4>4. k + m \in 0 .. MaxTotalResults + 1
        BY <1>4, <1>6, <4>1, <4>3 DEF Results
      <4>5. Issued(res') = 1 .. k + m
        BY <1>5, <1>6, <1>13, <4>1
      <4>6. QED
        BY <4>4, <4>5
    <3>3. QED
      BY <3>1, <3>2
  <2>2. QED
    BY <1>12, <2>1 DEF ResultRowsSound, HostsSound
<1>15. ResultsBounded'
  <2>1. Exists(res') = Exists(res) \cup new
    <3>1. NewResult.server = "UNSENT"
      BY DEF NewResult, NoRow
    <3> HIDE DEF new
    <3>2. QED
      BY <1>1, <1>4, <3>1 DEF Exists
  <2>2. CASE new = {}
    BY <2>1, <2>2 DEF MemoriesAreSafe, ResultsBounded
  <2>3. CASE new # {}
    <3>1. /\ m \in Nat /\ new = k + 1 .. k + m
          /\ Cardinality(Exists(tr.res)) + m <= MaxTotalResults
      BY <1>7, <1>10, <2>3
    <3>2. IsFiniteSet(new) /\ Cardinality(new) = m
      <4>1. k + 1 \in Int /\ k + m \in Int
        BY <1>6, <3>1
      <4>2. IsFiniteSet(k + 1 .. k + m)
            /\ Cardinality(k + 1 .. k + m) = IF k + 1 > k + m THEN 0 ELSE (k + m) - (k + 1) + 1
        BY <4>1, FS_Interval
      <4>3. QED
        BY <1>6, <3>1, <4>2
    <3>3. IsFiniteSet(Exists(res))
      BY <1>3, <1>8, ResultsFinite, FS_Subset
    <3>4. /\ Cardinality(Exists(res) \cup new) =
               Cardinality(Exists(res)) + Cardinality(new) - Cardinality(Exists(res) \cap new)
          /\ Cardinality(Exists(res) \cap new) \in Nat
      BY <3>2, <3>3, FS_Union, FS_Intersection, FS_CardinalityType
    <3>5. Cardinality(Exists(res) \cup new) <= MaxTotalResults
      <4> DEFINE a == Cardinality(Exists(res))
                 b == Cardinality(Exists(tr.res))
                 c == Cardinality(Exists(res) \cap new)
                 u == Cardinality(Exists(res) \cup new)
      <4>1. /\ a \in Nat /\ b \in Nat /\ c \in Nat /\ m \in Nat /\ a <= b
            /\ b + m <= MaxTotalResults /\ u = a + m - c
        BY <1>9, <3>1, <3>2, <3>4
      <4> HIDE DEF a, b, c, u
      <4>2. u <= MaxTotalResults
        BY <1>6, <4>1
      <4>3. QED
        BY <4>2 DEF u
    <3>6. QED
      BY <2>1, <3>5 DEF ResultsBounded
  <2>4. QED
    BY <2>2, <2>3
<1>16. TransitionerSound'
  <2>1. /\ tr'.pc = "decide" /\ tr'.res = mem
        /\ tr'.todo = {r \in Results : mem[r] # tr.res[r]}
    BY <1>2, <1>4 DEF TransitionerMemory
  <2>2. \A r \in Results : mem[r] # tr.res[r] => mem[r].server = "OVER"
    BY <1>2, RulesMakeOver DEF mem
  <2>3. QED
    BY <2>1, <2>2 DEF TransitionerSound
<1>17. QED
  BY <1>12, <1>14, <1>15, <1>16

-----------------------------------------------------------------------------
\* The steps of the other processes keep what is said about their memory.

\* The validator has only results to write that are over in its memory.
LEMMA ValidatorKeepsSound ==
    ASSUME TypeOK, ValidatorSound, ValidatorNext
    PROVE  ValidatorSound'
<1>1. va.pc # "idle" => va \in ValidatorMemory /\ va.pc = "open"
  BY DEF TypeOK, ValidatorTypeOK, ValidatorMemory, Rows
<1>2. CASE ValidatorEnumerate
  BY <1>2 DEF ValidatorEnumerate, ValidatorSound
<1>3. CASE ValidatorNoCanonicalRow \/ ValidatorUpdateWorkunit \/ ValidatorCrash
  BY <1>3 DEF ValidatorNoCanonicalRow, ValidatorUpdateWorkunit, ValidatorCrash,
              validatorIdle, ValidatorSound
<1>4. CASE ValidatorNoQuorum \/ ValidatorCheckedAll \/ ValidatorCreditError
           \/ ValidatorRetryPair \/ \E r \in Results : ValidatorGrantCredit(r)
  <2>1. va \in ValidatorMemory /\ va.pc = "open"
    BY <1>1, <1>4 DEF ValidatorNoQuorum, ValidatorCheckedAll, ValidatorCreditError,
                      ValidatorRetryPair, ValidatorGrantCredit
  <2>2. va'.todo = va.todo /\ va'.res = va.res
    BY <1>4, <2>1 DEF ValidatorMemory, ValidatorNoQuorum, ValidatorCheckedAll,
                      ValidatorCreditError, ValidatorRetryPair, ValidatorGrantCredit
  <2>3. QED
    BY <2>1, <2>2 DEF ValidatorSound
<1>5. ASSUME NEW r \in Results, ValidatorUpdateResult(r)
      PROVE  ValidatorSound'
  <2>1. va \in ValidatorMemory /\ va.pc = "open"
    BY <1>1, <1>5 DEF ValidatorUpdateResult
  <2>2. va'.todo \subseteq va.todo /\ va'.res = va.res
    BY <1>5, <2>1 DEF ValidatorMemory, ValidatorUpdateResult
  <2>3. QED
    BY <2>1, <2>2 DEF ValidatorSound
<1>6. ASSUME NEW r \in Results, ValidatorCheckPair(r)
      PROVE  ValidatorSound'
  <2>1. va \in ValidatorMemory /\ va.res \in Rows /\ va.res[r].server = "OVER"
    BY <1>1, <1>6 DEF ValidatorCheckPair, ValidatorMemory, Unchecked, Success
  <2>2. CheckPair(va.res, r, va.wu.canonical).server = "OVER"
    BY <2>1, CheckSetKeepsServer
  <2>3. va'.todo = {r} /\ va'.res[r].server = "OVER"
    BY <1>6, <2>1, <2>2 DEF ValidatorCheckPair, ValidatorMemory, Rows
  <2>4. QED
    BY <2>3 DEF ValidatorSound
<1>7. ASSUME NEW flaky, NEW c \in Results \cup {0}, ValidatorCheckSet(flaky, c)
      PROVE  ValidatorSound'
  <2>1. va \in ValidatorMemory /\ va.res \in Rows
    BY <1>1, <1>7 DEF ValidatorCheckSet, ValidatorMemory
  <2> DEFINE viable == Viable(va.res)
             checked == CheckSet(va.res, viable, flaky, c)
             mem == Inconclusive(checked, viable)
             unneeded == {r \in Results : c # 0 /\ va.res[r].server = "UNSENT"}
             rows == [r \in Results |-> IF r \in unneeded
                        THEN [mem[r] EXCEPT !.server = "OVER", !.outcome = "DIDNT_NEED"]
                        ELSE mem[r]]
             todo == unneeded \cup {r \in viable : mem[r] # va.res[r]
                                                 \/ mem[r].validate = "VALID"}
             v == [va EXCEPT !.leave = TRUE, !.when = IF flaky = {} THEN @ ELSE "DELAYED",
                             !.res = rows, !.todo = todo]
  <2>2. mem \in Rows /\ \A r \in Results : mem[r].server = va.res[r].server
    <3>1. checked \in Rows
      BY <2>1, CheckSetKeepsRows
    <3>2. \A r \in Results : checked[r].server = va.res[r].server
      BY <2>1, CheckSetKeepsServer
    <3> HIDE DEF checked
    <3>3. QED
      BY <3>1, <3>2, CheckSetKeepsServer, CheckSetKeepsRows
  <2>3. \A r \in viable : r \in Results /\ va.res[r].server = "OVER"
    BY <2>1 DEF Viable, Success, Rows
  <2> HIDE DEF viable, mem
  <2>4. \A r \in todo : rows[r].server = "OVER"
    <3>1. \A r \in Results :
             [mem[r] EXCEPT !.server = "OVER", !.outcome = "DIDNT_NEED"].server = "OVER"
      BY <2>2 DEF Rows, ResultRow
    <3>2. QED
      BY <2>2, <2>3, <3>1
  <2>5. va' = IF c # 0 THEN Elected(v, c) ELSE NotElected(v, viable)
    BY <1>7 DEF ValidatorCheckSet, mem, viable
  <2>6. v.todo = todo /\ v.res = rows /\ DOMAIN v = DOMAIN va
    <3> HIDE DEF todo, rows
    <3>1. QED
      BY <2>1 DEF ValidatorMemory
  <2>7. va'.todo = todo /\ va'.res = rows
    <3> HIDE DEF v, todo, rows
    <3>1. DOMAIN v = {"pc", "wu", "res", "todo", "granted", "leave", "when"}
      BY <2>1, <2>6 DEF ValidatorMemory
    <3>2. QED
      BY <2>5, <2>6, <3>1 DEF Elected, NotElected
  <2>8. QED
    BY <2>4, <2>7 DEF ValidatorSound
<1>8. QED
  BY <1>2, <1>3, <1>4, <1>5, <1>6, <1>7
     DEF ValidatorNext, ValidatorStep, ValidatorFlakyCheckSet

\* db_purge deletes only results that were issued.
LEMMA PurgeKeepsSound ==
    ASSUME TypeOK, MemoriesAreSafe, TypeOK', PurgeNext
    PROVE  PurgeSound'
<1>1. Issued(res) = Issued(res') /\ DOMAIN res = Results
  BY DeletersMove DEF Moves, TypeOK, DbTypeOK
<1>2. purge.pc # "idle" => purge \in [pc : {"purging"}, todo : SUBSET Results]
  BY DEF TypeOK, PurgeTypeOK
<1>3. CASE PurgeEnumerate
  <2>1. Exists(res) \subseteq Issued(res)
    BY <1>1 DEF Exists, Issued
  <2>2. QED
    BY <1>1, <1>3, <2>1 DEF PurgeEnumerate, PurgeSound
<1>4. ASSUME NEW r \in Results, PurgeResult(r)
      PROVE  PurgeSound'
  BY <1>1, <1>2, <1>4 DEF PurgeResult, PurgeSound, MemoriesAreSafe
<1>5. CASE PurgeWorkunit \/ PurgeCrash
  BY <1>5 DEF PurgeWorkunit, PurgeCrash, purgeIdle, PurgeSound
<1>6. QED
  BY <1>3, <1>4, <1>5 DEF PurgeNext, PurgeStep

\* What each scheduler process remembers of its result stays true.
LEMMA CgiKeepsSound ==
    ASSUME TypeOK, MemoriesAreSafe, TypeOK', NEW h \in Hosts, CgiNext(h)
    PROVE  CgiSound'
<1>1. Forward(res, res')
  BY CgiMovesRows DEF Moves
<1>2. cgi \in [Hosts -> CgiRecord] /\ cgi[h] \in CgiRecord
  BY DEF TypeOK, SchedulerTypeOK, CgiRecord, CgiOps
<1>3. ASSUME NEW k \in Hosts, k # h \/ UNCHANGED cgi
      PROVE  RequestSound(k)'
  <2>1. cgi'[k] = cgi[k]
    BY <1>2, <1>3 DEF CgiNext, CgiRequest, CgiStep, SelectResult, ResendLost, ReportIgnored,
         Report, Detach, SendUpdateWorkunit, SendMarkAsSent, SendReplicate, ResendExpire,
         ResendExpireWorkunit, ReportUpdate, ReportTrigger, DetachResult, DetachTrigger,
         CgiCrash, Goto, Become
  <2>2. QED
    BY <1>1, <2>1, ForwardKeeps
<1>4. \A m : Become(h, m) => cgi'[h] = m
  BY <1>2 DEF Become
<1>5. \A op \in CgiOps : Goto(h, op) => \/ cgi'[h].op = "idle"
                                        \/ /\ cgi'[h].op = op /\ cgi'[h].r = cgi[h].r
                                           /\ cgi'[h].old = cgi[h].old
  <2>1. \A op \in CgiOps : /\ [cgi[h] EXCEPT !.op = op].op = op
                           /\ [cgi[h] EXCEPT !.op = op].r = cgi[h].r
                           /\ [cgi[h] EXCEPT !.op = op].old = cgi[h].old
    BY <1>2 DEF CgiRecord
  <2>2. cgiIdle.op = "idle"
    BY DEF cgiIdle
  <2>3. QED
    BY <1>4, <2>1, <2>2 DEF Goto
<1>6. ASSUME NEW r \in Results, SelectResult(h, r) \/ ResendLost(h, r)
      PROVE  RequestSound(h)'
  <2>1. UNCHANGED res
    BY <1>6 DEF SelectResult, ResendLost, dbVars
  <2>2. /\ cgi'[h].r = r
        /\ \/ cgi'[h].old = "UNSENT" /\ res[r].server = "UNSENT"
           \/ /\ cgi'[h].old = "IN_PROGRESS"
              /\ res[r].server = "IN_PROGRESS" /\ res[r].host = h
    <3>1. CASE SelectResult(h, r)
      <4>1. cgi'[h] = [cgiIdle EXCEPT !.op = "updateWu", !.r = r, !.old = "UNSENT",
                                      !.replicate = NeedsReplication(h)]
        BY <1>4, <3>1 DEF SelectResult
      <4>2. cgi'[h].r = r /\ cgi'[h].old = "UNSENT"
        BY <4>1 DEF cgiIdle
      <4>3. QED
        BY <3>1, <4>2 DEF SelectResult
    <3>2. CASE ResendLost(h, r)
      <4>1. \/ cgi'[h] = [cgiIdle EXCEPT !.op = "updateWu", !.r = r, !.old = "IN_PROGRESS",
                                         !.replicate = NeedsReplication(h)]
            \/ cgi'[h] = [cgiIdle EXCEPT !.op = "expire", !.r = r, !.old = "IN_PROGRESS"]
        BY <1>4, <3>2 DEF ResendLost
      <4>2. cgi'[h].r = r /\ cgi'[h].old = "IN_PROGRESS"
        BY <4>1 DEF cgiIdle
      <4>3. QED
        BY <3>2, <4>2 DEF ResendLost
    <3>3. QED
      BY <1>6, <3>1, <3>2
  <2>4. QED
    BY <2>1, <2>2 DEF RequestSound
<1>7. ASSUME SendUpdateWorkunit(h)
      PROVE  RequestSound(h)'
  <2>1. UNCHANGED res /\ cgi[h].op = "updateWu" /\ (Goto(h, "mark") \/ Goto(h, "idle"))
    BY <1>7 DEF SendUpdateWorkunit
  <2>2. \/ cgi'[h].op = "idle"
        \/ cgi'[h].r = cgi[h].r /\ cgi'[h].old = cgi[h].old
    BY <1>5, <2>1 DEF CgiOps
  <2>3. /\ cgi[h].r \in Results
        /\ \/ cgi[h].old = "UNSENT" /\ res[cgi[h].r].server # "NONE"
           \/ /\ cgi[h].old = "IN_PROGRESS"
              /\ \/ res[cgi[h].r].server = "IN_PROGRESS" /\ res[cgi[h].r].host = h
                 \/ res[cgi[h].r].server \in {"OVER", "PURGED"}
    BY <2>1 DEF MemoriesAreSafe, CgiSound, RequestSound
  <2>4. QED
    BY <2>1, <2>2, <2>3 DEF RequestSound
<1>8. ASSUME ~SendUpdateWorkunit(h), cgi' # cgi,
             \A r \in Results : ~SelectResult(h, r) /\ ~ResendLost(h, r)
      PROVE  cgi'[h].op \notin {"updateWu", "mark", "expire"}
  <2>1. ASSUME NEW r \in Results, NEW ret \in Returns, Report(h, r, ret) PROVE cgi'[h].op = "report"
    BY <1>4, <2>1 DEF Report, cgiIdle
  <2>2. ASSUME Detach(h) PROVE cgi'[h].op = "detach"
    BY <1>4, <2>2 DEF Detach, cgiIdle
  <2>3. ASSUME NEW r \in Results, DetachResult(h, r) PROVE cgi'[h].op = "detachWu"
    BY <1>2, <1>4, <2>3 DEF DetachResult, CgiRecord
  <2>4. ASSUME NEW r \in Results, ReportIgnored(h, r) PROVE FALSE
    BY <1>8, <2>4 DEF ReportIgnored
  <2>5. ASSUME \/ SendMarkAsSent(h) \/ SendReplicate(h) \/ ResendExpire(h)
               \/ ResendExpireWorkunit(h) \/ ReportUpdate(h) \/ ReportTrigger(h)
               \/ DetachTrigger(h) \/ CgiCrash(h)
        PROVE  cgi'[h].op \notin {"updateWu", "mark", "expire"}
    <3>1. PICK op \in CgiOps : Goto(h, op) /\ op \notin {"updateWu", "mark", "expire"}
      BY <2>5 DEF SendMarkAsSent, SendReplicate, ResendExpire, ResendExpireWorkunit,
                  ReportUpdate, ReportTrigger, DetachTrigger, CgiCrash, CgiOps
    <3>2. QED
      BY <1>5, <3>1
  <2>6. QED
    BY <1>8, <2>1, <2>2, <2>3, <2>4, <2>5 DEF CgiNext, CgiRequest, CgiStep
<1>9. RequestSound(h)'
  <2>1. CASE UNCHANGED cgi
    BY <1>3, <2>1
  <2>2. CASE \E r \in Results : SelectResult(h, r) \/ ResendLost(h, r)
    BY <1>6, <2>2
  <2>3. CASE SendUpdateWorkunit(h)
    BY <1>7, <2>3
  <2>4. ASSUME cgi'[h].op \notin {"updateWu", "mark", "expire"} PROVE RequestSound(h)'
    BY <2>4 DEF RequestSound
  <2>5. QED
    BY <1>8, <2>1, <2>2, <2>3, <2>4
<1>10. QED
  BY <1>3, <1>9 DEF CgiSound

-----------------------------------------------------------------------------
\* Every step moves the result rows forward; only the transitioner adds results.
LEMMA StepForward ==
    ASSUME TypeOK, MemoriesAreSafe, TypeOK', [Next]_vars
    PROVE  \/ Moves(res, res')
           \/ InTransitioner(TransitionerDecide) /\ Forward(res, res')
<1>1. res \in Rows /\ HostsSound(res) /\ DbTypeOK'
  BY DEF TypeOK, DbTypeOK, Rows, MemoriesAreSafe, ResultRowsSound, HostsSound
<1>2. CASE UNCHANGED vars
  BY <1>1, <1>2, RestMoves DEF vars, dbVars
<1>3. CASE InTransitioner(TransitionerNext)
  BY <1>1, <1>3, TransitionerMoves, DecideIsSafe DEF InTransitioner
<1>4. CASE InValidator(ValidatorNext)
  BY <1>4, ValidatorMoves DEF InValidator
<1>5. CASE InFileDeleter(FileDeleterNext) \/ InPurge(PurgeNext)
  BY <1>5, DeletersMove DEF InFileDeleter, InPurge
<1>6. ASSUME NEW h \in Hosts, InCgi(h, CgiNext(h)) PROVE Moves(res, res')
  BY <1>6, CgiMovesRows DEF InCgi
<1>7. CASE \/ InAssimilator(AssimilatorNext) \/ InCancel(CancelNext)
           \/ InTime(TransitionTimePasses) \/ \E r \in Results : InTime(DeadlinePasses(r))
  BY <1>7, OthersMove DEF InAssimilator, InCancel, InTime
<1>8. QED
  BY <1>2, <1>3, <1>4, <1>5, <1>6, <1>7 DEF Next, Purged

\* The inductive step: every step of the server keeps MemoriesAreSafe.
LEMMA StepKeepsMemories ==
    ASSUME TypeOK, MemoriesAreSafe, TypeOK', [Next]_vars
    PROVE  MemoriesAreSafe'
<1>1. ValidatorSound /\ Forward(res, res')
  BY StepForward DEF MemoriesAreSafe, Moves
<1>2. /\ UNCHANGED va => ValidatorSound'
      /\ UNCHANGED purge => PurgeSound'
      /\ UNCHANGED cgi => CgiSound'
  BY <1>1, ForwardKeeps DEF ValidatorSound, CgiSound
<1>3. Moves(res, res') => /\ ResultRowsSound' /\ ResultsBounded'
                          /\ UNCHANGED tr => TransitionerSound'
  BY MovesKeep
<1>4. CASE InTransitioner(TransitionerNext)
  <2>1. UNCHANGED <<va, purge, cgi>>
    BY <1>4 DEF InTransitioner, validatorVars, schedulerVars
  <2>2. CASE TransitionerDecide
    BY <1>2, <2>1, <2>2, DecideIsSafe DEF MemoriesAreSafe
  <2>3. CASE ~TransitionerDecide
    <3>1. TransitionerNext /\ DbTypeOK'
      BY <1>4 DEF InTransitioner, TypeOK
    <3>2. QED
      BY <1>2, <1>3, <2>1, <2>3, <3>1, TransitionerMoves, TransitionerKeepsSound
         DEF MemoriesAreSafe
  <2>4. QED
    BY <2>2, <2>3
<1>5. CASE InValidator(ValidatorNext)
  <2>1. UNCHANGED <<tr, purge, cgi>> /\ ValidatorNext
    BY <1>5 DEF InValidator, schedulerVars
  <2>2. QED
    BY <1>1, <1>2, <1>3, <2>1, ValidatorMoves, ValidatorKeepsSound DEF MemoriesAreSafe
<1>6. CASE InAssimilator(AssimilatorNext) \/ InCancel(CancelNext) \/ InFileDeleter(FileDeleterNext)
           \/ InTime(TransitionTimePasses) \/ \E r \in Results : InTime(DeadlinePasses(r))
  <2>1. UNCHANGED <<tr, va, purge>>
    BY <1>6 DEF InAssimilator, InCancel, InFileDeleter, InTime, validatorVars
  <2>2. UNCHANGED cgi
    BY <1>6 DEF InAssimilator, InCancel, InFileDeleter, InTime, schedulerVars, CancelNext,
                CancelResults, CancelWorkunit
  <2>3. Moves(res, res')
    BY <1>6, OthersMove, DeletersMove DEF InAssimilator, InCancel, InFileDeleter, InTime
  <2>4. QED
    BY <1>2, <1>3, <2>1, <2>2, <2>3 DEF MemoriesAreSafe
<1>7. CASE InPurge(PurgeNext)
  <2>1. UNCHANGED <<tr, va, cgi>> /\ PurgeNext
    BY <1>7 DEF InPurge, validatorVars, schedulerVars
  <2>2. QED
    BY <1>2, <1>3, <2>1, DeletersMove, PurgeKeepsSound DEF MemoriesAreSafe
<1>8. ASSUME NEW h \in Hosts, InCgi(h, CgiNext(h)) PROVE MemoriesAreSafe'
  <2>1. UNCHANGED <<tr, va, purge>> /\ CgiNext(h)
    BY <1>8 DEF InCgi, validatorVars
  <2>2. QED
    BY <1>2, <1>3, <2>1, CgiMovesRows, CgiKeepsSound DEF MemoriesAreSafe
<1>9. CASE UNCHANGED vars
  <2>1. UNCHANGED <<tr, va, purge, cgi, res>>
    BY <1>9 DEF vars, dbVars, validatorVars, schedulerVars
  <2>2. Moves(res, res')
    BY <2>1, RestMoves DEF TypeOK, DbTypeOK, Rows, MemoriesAreSafe, ResultRowsSound, HostsSound
  <2>3. QED
    BY <1>2, <1>3, <2>1, <2>2 DEF MemoriesAreSafe
<1>10. QED
  BY <1>4, <1>5, <1>6, <1>7, <1>8, <1>9 DEF Next, Purged

-----------------------------------------------------------------------------
\* The theorems.

\* No process ever remembers anything that could take a result back, or exceed
\* the limit on results, when it is written: for every interleaving of the
\* statements of all processes, and for any number of crashes.
THEOREM StaleMemoriesAreSafe == Spec => []MemoriesAreSafe
<1>1. Init => MemoriesAreSafe
  <2>1. SUFFICES ASSUME Init PROVE MemoriesAreSafe
    OBVIOUS
  <2>2. \A r \in Results : res[r] = NoRow
    BY <2>1 DEF Init, DbInit
  <2>3. Issued(res) = {} /\ Exists(res) = {}
    BY <2>1, <2>2 DEF Init, DbInit, Issued, Exists, NoRow
  <2>4. ResultRowsSound
    <3>1. 0 \in 0 .. MaxTotalResults + 1 /\ Issued(res) = 1 .. 0
      BY <2>3, ParamAssumption
    <3>2. QED
      BY <2>2, <3>1 DEF ResultRowsSound, NoRow
  <2>5. ResultsBounded
    BY <2>3, FS_EmptySet, ParamAssumption DEF ResultsBounded
  <2>6. TransitionerSound /\ ValidatorSound /\ PurgeSound /\ CgiSound
    BY <2>1 DEF Init, TransitionerInit, transitionerIdle, TransitionerSound,
       ValidatorInit, validatorIdle, ValidatorSound, PurgeInit, purgeIdle, PurgeSound,
       SchedulerInit, cgiIdle, CgiSound, RequestSound
  <2>7. QED
    BY <2>4, <2>5, <2>6 DEF MemoriesAreSafe
<1>2. TypeOK /\ TypeOK' /\ MemoriesAreSafe /\ [Next]_vars => MemoriesAreSafe'
  BY StepKeepsMemories
<1>3. QED
  BY <1>1, <1>2, TypeCorrect, PTL DEF Spec

\* max_total_results is never exceeded.
THEOREM ResultsAreBounded == Spec => []ResultsBounded
<1>1. MemoriesAreSafe => ResultsBounded
  BY DEF MemoriesAreSafe
<1>2. QED
  BY <1>1, StaleMemoriesAreSafe, PTL

\* No write, however stale the copy it was computed from, takes a result back to
\* an earlier server_state.
THEOREM StaleWritesNeverGoBack == Spec => ServerStateNeverGoesBack
<1>1. TypeOK /\ TypeOK' /\ MemoriesAreSafe /\ [Next]_vars
        => [\A r \in Results : Rank(res'[r].server) >= Rank(res[r].server)]_vars
  BY StepForward DEF Moves, Forward
<1>2. QED
  BY <1>1, TypeCorrect, StaleMemoriesAreSafe, PTL DEF Spec, ServerStateNeverGoesBack

\* A result in progress stays with the host it was sent to.
THEOREM ResultsStayWithTheirHost == Spec => SentToOneHost
<1>1. TypeOK /\ TypeOK' /\ MemoriesAreSafe /\ [Next]_vars
        => [\A r \in Results : res[r].host # NoHost /\ res'[r].server = "IN_PROGRESS"
                                 => res'[r].host = res[r].host]_vars
  <2>1. SUFFICES ASSUME TypeOK, TypeOK', MemoriesAreSafe, [Next]_vars, NEW r \in Results,
                        res[r].host # NoHost, res'[r].server = "IN_PROGRESS"
                 PROVE  res'[r].host = res[r].host
    OBVIOUS
  <2>2. Forward(res, res')
    BY <2>1, StepForward DEF Moves
  <2>3. res[r].server \in ServerStates /\ res'[r].server \in ServerStates
    BY <2>1 DEF TypeOK, DbTypeOK, ResultRow
  <2>4. res[r].server \notin {"OVER", "PURGED"}
    BY <2>1, <2>2, <2>3, RankFacts DEF Forward
  <2>5. res[r].server \notin {"NONE", "UNSENT"}
    BY <2>1 DEF MemoriesAreSafe, ResultRowsSound
  <2>6. QED
    BY <2>1, <2>2, <2>3, <2>4, <2>5 DEF Forward, ServerStates
<1>2. QED
  BY <1>1, TypeCorrect, StaleMemoriesAreSafe, PTL DEF Spec, SentToOneHost
=============================================================================
