----------------------------- MODULE Validator -----------------------------
(***************************************************************************)
(* sched/validator.cpp and sched/validate_util2.cpp: the daemon that       *)
(* compares the results of a job, elects a canonical result and grants     *)
(* credit.  Like the transitioner it works on rows it read earlier; unlike *)
(* it, its update_workunit() writes every column back, changed or not.     *)
(***************************************************************************)
EXTENDS BoincDb

VARIABLES
    va,     \* the daemon
    credit  \* how often credit was granted for a result (bound: 2)

validatorVars == <<va, credit>>

validatorIdle == [pc |-> "idle"]

ValidatorInit ==
    /\ va = validatorIdle
    /\ credit = [r \in Results |-> 0]

-----------------------------------------------------------------------------
\* check_set() on a set of viable rows.  `flaky`: results whose directory could
\* not be opened (init_result() returned ERR_OPENDIR).

MinValid(w) == w.quorum \div 2 + 1

Readable(S, r) == r \notin gone /\ S[r].out \in Outputs
Matching(S, good, r) == {s \in good : S[s].out = S[r].out}

\* The results that can be elected: enough good results equal them.
Candidates(w, S, good) ==
    IF Cardinality(good) < w.quorum THEN {}
    ELSE {r \in good : Cardinality(Matching(S, good, r)) >= MinValid(w)}

\* Mutant: the results that differ from the canonical one are valid too.
CheckSetAllValid(S, viable, flaky, c) ==
    [r \in DOMAIN S |-> IF r \in viable /\ c # 0 THEN [S[r] EXCEPT !.validate = "VALID"] ELSE S[r]]

CheckSet(S, viable, flaky, c) ==
    LET good == {r \in viable \ flaky : Readable(S, r)}
    IN  [r \in DOMAIN S |->
            IF r \in (viable \ flaky) \ good
              THEN [S[r] EXCEPT !.outcome = "VALIDATE_ERROR", !.validate = "INVALID"]
            ELSE IF r \in good /\ c # 0
              THEN [S[r] EXCEPT !.validate = IF r \in Matching(S, good, c)
                                             THEN "VALID" ELSE "INVALID"]
            ELSE S[r]]

\* handle_wu() after check_set(): what is still unchecked is now inconclusive.
Inconclusive(S, viable) ==
    [r \in DOMAIN S |-> IF r \in viable /\ S[r].validate = "INIT"
                        THEN [S[r] EXCEPT !.validate = "INCONCLUSIVE"] ELSE S[r]]

Viable(S) == {r \in DOMAIN S : Success(S[r]) /\ S[r].validate # "INVALID"}

\* Results to compare with an existing canonical result.
Unchecked(S) == {r \in DOMAIN S : Success(S[r]) /\ S[r].validate \in {"INIT", "INCONCLUSIVE"}}

\* check_pair(): compare r with the canonical result c.
CheckPair(S, r, c) ==
    IF ~Readable(S, r) \/ ~Readable(S, c)
      THEN [S[r] EXCEPT !.outcome = "VALIDATE_ERROR", !.validate = "INVALID"]
      ELSE [S[r] EXCEPT !.validate = IF S[r].out = S[c].out THEN "VALID" ELSE "INVALID"]

-----------------------------------------------------------------------------
\* The query joins workunit and result: a job without results is not found.
ValidatorEnumerate ==
    /\ va.pc = "idle"
    /\ wu.exists /\ wu.needValidate /\ Exists(res) # {}
    /\ va' = [pc |-> "open", wu |-> wu, res |-> res, todo |-> {},
            granted |-> 0, when |-> "NO_CHANGE", leave |-> FALSE]
    /\ UNCHANGED <<dbVars, credit>>

CanonicalKnown == va.wu.canonical \in Exists(va.res)

\* "Can't find canonical result": return without touching the row.
ValidatorNoCanonicalRow ==
    /\ va.pc = "open" /\ va.wu.canonical # 0 /\ ~CanonicalKnown
    /\ va' = validatorIdle
    /\ UNCHANGED <<dbVars, credit>>

\* Fewer viable results than the quorum: nothing to do but clear need_validate.
ValidatorNoQuorum ==
    /\ va.pc = "open" /\ ~va.leave /\ va.wu.canonical = 0
    /\ Cardinality(Viable(va.res)) < va.wu.quorum
    /\ va' = [va EXCEPT !.leave = TRUE]
    /\ UNCHANGED <<dbVars, credit>>

\* What remains to be done after check_set(), with a canonical result c, or
\* without: `when` is the validator's TRANSITION_TIME.
Elected(v, c) ==
    [v EXCEPT !.wu.canonical = c, !.wu.assimilate = "READY", !.when = "NEVER"]

NotElected(v, viable) ==
    LET n == Cardinality(viable \cap Viable(v.res))
        tooMany == n > MaxSuccessResults
        more == n >= v.wu.target
    IN  [v EXCEPT
            !.wu.error = IF tooMany THEN @ \cup {"TOO_MANY_SUCCESS"} ELSE @,
            !.wu.target = IF more THEN n + 1 ELSE @,
            !.when = IF tooMany \/ more \/ \E r \in viable : v.res[r].validate = "INVALID"
                     THEN "IMMEDIATE" ELSE @]

ValidatorCheckSet(flaky, c) ==
    LET viable == Viable(va.res)
        good == {r \in viable \ flaky : Readable(va.res, r)}
        winners == Candidates(va.wu, va.res, good)
        mem == Inconclusive(CheckSet(va.res, viable, flaky, c), viable)
        unneeded == {r \in Results : c # 0 /\ va.res[r].server = "UNSENT"}
    IN  /\ va.pc = "open" /\ ~va.leave /\ va.wu.canonical = 0
        /\ Cardinality(viable) >= va.wu.quorum
        /\ IF winners = {} THEN c = 0 ELSE c \in winners
        /\ LET v == [va EXCEPT
                   !.leave = TRUE,
                   !.when = IF flaky = {} THEN @ ELSE "DELAYED",
                   !.res = [r \in Results |-> IF r \in unneeded
                              THEN [mem[r] EXCEPT !.server = "OVER", !.outcome = "DIDNT_NEED"]
                              ELSE mem[r]],
                   !.todo = unneeded \cup {r \in viable : mem[r] # va.res[r]
                                                        \/ mem[r].validate = "VALID"}]
           IN  va' = IF c # 0 THEN Elected(v, c) ELSE NotElected(v, viable)
        /\ UNCHANGED <<wu, res, gone, credit>>

\* assign_credit_set() failed: the verdicts are dropped, try again in 6 hours.
ValidatorCreditError ==
    /\ va.pc = "open" /\ ~va.leave /\ va.wu.canonical = 0
    /\ LET good == {r \in Viable(va.res) : Readable(va.res, r)}
       IN  Candidates(va.wu, va.res, good) # {}
    /\ Fault
    /\ va' = [va EXCEPT !.leave = TRUE, !.when = "DELAYED"]
    /\ UNCHANGED <<wu, res, gone, credit>>

\* One iteration over the unchecked results of a job with a canonical result.
ValidatorCheckPair(r) ==
    /\ va.pc = "open" /\ ~va.leave /\ va.wu.canonical # 0 /\ CanonicalKnown
    /\ va.todo = {} /\ r \in Unchecked(va.res)
    /\ va' = [va EXCEPT !.res[r] = CheckPair(va.res, r, va.wu.canonical),
                        !.todo = {r}, !.when = "IMMEDIATE"]
    /\ UNCHANGED <<dbVars, credit>>

\* check_pair() hit a transient failure: leave, and come back in 6 hours.
ValidatorRetryPair ==
    /\ va.pc = "open" /\ ~va.leave /\ va.wu.canonical # 0 /\ CanonicalKnown
    /\ va.todo = {} /\ Unchecked(va.res) # {}
    /\ Fault
    /\ va' = [va EXCEPT !.leave = TRUE, !.when = "DELAYED"]
    /\ UNCHANGED <<wu, res, gone, credit>>

ValidatorCheckedAll ==
    /\ va.pc = "open" /\ ~va.leave /\ va.wu.canonical # 0 /\ CanonicalKnown
    /\ va.todo = {} /\ Unchecked(va.res) = {}
    /\ va' = [va EXCEPT !.leave = TRUE]
    /\ UNCHANGED <<dbVars, credit>>

\* grant_credit() updates the user, the team and the host before the result row.
ValidatorGrantCredit(r) ==
    /\ va.pc = "open" /\ r \in va.todo /\ va.granted = 0
    /\ va.res[r].validate = "VALID"
    /\ credit' = [credit EXCEPT ![r] = IF @ < 2 THEN @ + 1 ELSE @]
    /\ va' = [va EXCEPT !.granted = r]
    /\ UNCHANGED dbVars

\* Unsent results are updated after the verdicts.
ValidatorUpdateResult(r) ==
    /\ va.pc = "open" /\ r \in va.todo
    /\ va.granted = (IF va.res[r].validate = "VALID" THEN r ELSE 0)
    /\ va.res[r].outcome = "DIDNT_NEED" =>
         \A s \in va.todo : va.res[s].outcome = "DIDNT_NEED"
    /\ UpdateResult(r, [res[r] EXCEPT !.server = va.res[r].server,
                                      !.outcome = va.res[r].outcome,
                                      !.validate = va.res[r].validate])
    /\ va' = [va EXCEPT !.todo = @ \ {r}, !.granted = 0]
    /\ UNCHANGED <<wu, gone, faults, credit>>

\* The new transition_time; DELAYED is min(now + 6 hours, transition_time).
NextTransition(tt, when) ==
    CASE when = "IMMEDIATE" -> "now"
      [] when = "DELAYED" -> IF tt = "now" THEN "now" ELSE "later"
      [] when = "NEVER" -> "never"
      [] when = "NO_CHANGE" -> tt

\* update_workunit(): the columns the validator owns, and some it does not,
\* from memory; need_validate is cleared.
ValidatorUpdateWorkunit ==
    /\ va.pc = "open" /\ va.leave /\ va.todo = {}
    /\ UpdateWorkunit([wu EXCEPT !.needValidate = FALSE,
                                 !.error = va.wu.error,
                                 !.assimilate = va.wu.assimilate,
                                 !.tt = NextTransition(va.wu.tt, va.when),
                                 !.target = va.wu.target,
                                 !.canonical = va.wu.canonical])
    /\ va' = validatorIdle
    /\ UNCHANGED <<res, gone, faults, credit>>

ValidatorCrash ==
    /\ va.pc # "idle" /\ Fault
    /\ va' = validatorIdle
    /\ UNCHANGED <<wu, res, gone, credit>>

ValidatorStep ==
    \/ ValidatorEnumerate
    \/ ValidatorNoCanonicalRow
    \/ ValidatorNoQuorum
    \/ \E c \in Results \cup {0} : ValidatorCheckSet({}, c) /\ UNCHANGED faults
    \/ \E r \in Results : \/ ValidatorCheckPair(r)
                          \/ ValidatorGrantCredit(r)
                          \/ ValidatorUpdateResult(r)
    \/ ValidatorCheckedAll
    \/ ValidatorUpdateWorkunit

\* A transient failure of the file system during check_set().
ValidatorFlakyCheckSet ==
    /\ va.pc = "open"
    /\ \E flaky \in SUBSET Viable(va.res) \ {{}}, c \in Results \cup {0} :
           ValidatorCheckSet(flaky, c)
    /\ Fault

ValidatorNext ==
    ValidatorStep \/ ValidatorFlakyCheckSet \/ ValidatorCreditError
    \/ ValidatorRetryPair \/ ValidatorCrash

ValidatorTypeOK ==
    /\ va \in [pc : {"idle"}] \cup
              [pc : {"open"}, wu : WorkunitRow, res : [Results -> ResultRow],
               todo : SUBSET Results, granted : Results \cup {0}, leave : BOOLEAN,
               when : {"NO_CHANGE", "IMMEDIATE", "DELAYED", "NEVER"}]
    /\ credit \in [Results -> 0 .. 2]
=============================================================================
