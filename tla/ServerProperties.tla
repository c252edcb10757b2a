-------------------------- MODULE ServerProperties --------------------------
(***************************************************************************)
(* What the BOINC server promises about a job.                             *)
(***************************************************************************)
EXTENDS Server

-----------------------------------------------------------------------------
\* Invariants

\* The transitioner never makes more results than max_total_results, although
\* it counts the rows in a snapshot, may die after inserting and before it
\* records having done so, and then counts again.
ResultsBounded == Cardinality(Exists(res)) <= MaxTotalResults

\* Nothing a volunteer was told the server has received is lost: a result whose
\* successful report was acknowledged is recorded as a success (or its output
\* turned out to be unreadable), never as unanswered, detached or unneeded.
AckedSuccessIsRecorded ==
    \A r \in acked \cap Exists(res) : res[r].outcome \in {"SUCCESS", "VALIDATE_ERROR"}

\* Input files stay on the server while a volunteer may need them: they are
\* released only when no result is waiting to be sent or being computed.
InputsKeptWhileNeeded ==
    wu.exists /\ wu.fds # "INIT" => Unsent(res) \cup InProgress(res) = {}

\* The assimilator's handler never runs on a canonical result whose output file
\* was already removed.
CanonicalOutputKeptForAssimilation ==
    asm.pc = "read" /\ asm.wu.error = {} => asm.wu.canonical \notin gone

\* Every result judged valid agrees with the canonical result, once there is one.
ValidResultsAgree ==
    wu.canonical # 0 /\ wu.canonical \in Exists(res) =>
        /\ res[wu.canonical].out \in Outputs
        /\ \A r \in Exists(res) :
            res[r].validate = "VALID" => res[r].out = res[wu.canonical].out

\* Whoever returned a result is paid for it at most once, also while a pass of
\* the transitioner holds rows from before the verdict.
CreditGrantedOnce == \A r \in Results : credit[r] <= 1

\* A host, or a user where one_result_per_user_per_wu is set, computes one
\* result of a job at most, so nobody can vouch for his own result.
OneResultPerOwner ==
    \A r, s \in {r \in Results : res[r].host # NoHost} :
        Owner[res[r].host] = Owner[res[s].host] => r = s

\* Homogeneous redundancy: results that can be compared with each other come
\* from hosts of one class.
OneHrClass ==
    \A r, s \in InProgress(res) \cup Successes(res) :
        HostClass[res[r].host] = HostClass[res[s].host]

-----------------------------------------------------------------------------
\* Action properties

\* The canonical result is chosen once.
CanonicalIsFinal == [][wu.canonical # 0 => wu'.canonical = wu.canonical]_vars

Rank(server) == CASE server = "NONE" -> 0 [] server = "UNSENT" -> 1
                  [] server = "IN_PROGRESS" -> 2 [] server = "OVER" -> 3 [] server = "PURGED" -> 4

\* Stale writes never take a result back to an earlier server_state: a result
\* that was sent is not unsent again, a result that is over stays over, until
\* its row is purged.
ServerStateNeverGoesBack ==
    [][\A r \in Results : Rank(res'[r].server) >= Rank(res[r].server)]_vars

\* No result is given to a second host, although several scheduler processes
\* may have picked it from the job cache.
SentToOneHost ==
    [][\A r \in Results : res[r].host # NoHost /\ res'[r].server = "IN_PROGRESS"
                            => res'[r].host = res[r].host]_vars

\* The results of a job that failed are never validated.
NoCheckIsFinal ==
    [][\A r \in Results : res[r].validate = "NO_CHECK" /\ res'[r] # PurgedRow
                             => res'[r].validate = "NO_CHECK"]_vars

\* Adaptive replication: the word of a host that is not trusted is never taken
\* for the canonical result unless another host's result agrees.
UntrustedNotAlone ==
    [][AppTarget > 1 /\ wu.canonical = 0 /\ wu'.canonical # 0 =>
         \/ res[wu'.canonical].host \in Trusted
         \/ Cardinality({r \in Results : res[r].validate = "VALID"}) > 1]_vars

\* An error recorded for a job stays recorded: a cancellation is not lost in the
\* limits that are exceeded, nor in the assimilator's complaint that there is no
\* canonical result, nor do they get lost in it.
ErrorsAreSticky == [][wu.error \subseteq wu'.error]_vars

-----------------------------------------------------------------------------
\* Why results only move forward: what the processes remember about results,
\* however old it is.

Issued(S) == {r \in Results : S[r].server # "NONE"}

ResultRowsSound ==
    /\ \E k \in 0 .. MaxTotalResults + 1 : Issued(res) = 1 .. k
    /\ \A r \in Results : res[r].server \in {"NONE", "UNSENT", "PURGED"} => res[r].host = NoHost

\* The daemons write back only results that are over, and no process but the
\* transitioner makes results.
TransitionerSound ==
    tr.pc # "idle" =>
        /\ \A r \in tr.todo : tr.res[r].server = "OVER"
        /\ tr.pc = "scan" => /\ Issued(res) = Issued(tr.res)
                             /\ Exists(res) \subseteq Exists(tr.res)
                             /\ Cardinality(Exists(tr.res)) <= MaxTotalResults
ValidatorSound == va.pc = "open" => \A r \in va.todo : va.res[r].server = "OVER"
PurgeSound == purge.pc = "purging" => purge.todo \subseteq Issued(res)

\* A request that re-sends a result serves the host the result was sent to.
RequestSound(h) ==
    cgi[h].op \in {"updateWu", "mark", "expire"} =>
        /\ cgi[h].r \in Results
        /\ \/ cgi[h].old = "UNSENT" /\ res[cgi[h].r].server # "NONE"
           \/ /\ cgi[h].old = "IN_PROGRESS"
              /\ \/ res[cgi[h].r].server = "IN_PROGRESS" /\ res[cgi[h].r].host = h
                 \/ res[cgi[h].r].server \in {"OVER", "PURGED"}
CgiSound == \A h \in Hosts : RequestSound(h)

\* The inductive invariant: no process holds a memory, however stale, that could
\* take a result back or exceed the limit on results when it is written.
MemoriesAreSafe ==
    /\ ResultRowsSound /\ TransitionerSound /\ ValidatorSound /\ PurgeSound /\ CgiSound
    /\ ResultsBounded

-----------------------------------------------------------------------------
\* Liveness

\* A job with a canonical result, or with an error, is eventually deleted: it
\* does not stay in the database for ever.  (A decision stays: CanonicalIsFinal,
\* ErrorsAreSticky.)
DecidedJobIsPurged == []<>(wu.canonical # 0 \/ wu.error # {} => ~wu.exists)

\* A success that arrives for a job that is decided gets its verdict, and gets
\* it before its row is purged.
SuccessGetsVerdict ==
    /\ []<>(wu.canonical # 0 => Unvalidated(res) = {})
    /\ [][wu.canonical # 0 => \A r \in Unvalidated(res) : res'[r].server = "OVER"]_vars

\* A quorum of good, matching results (Outputs is a single class) decides the
\* job, without any more help from volunteers, as long as nothing fails.
QuorumDecides ==
    Cardinality({r \in Successes(res) : res[r].out \in Outputs}) >= wu.quorum
        ~> wu.error # {} \/ wu.canonical # 0

\* "Should call this again after a while" (validate_util2.cpp:60): a quorum of
\* good results that check_set() did not decide, because it failed to read one
\* of them for a moment, is looked at again.
TransientFailureIsRetried ==
    /\ va.pc = "idle"
    /\ Cardinality({r \in Successes(res) : /\ res[r].validate = "INCONCLUSIVE"
                                           /\ Readable(res, r)}) >= wu.quorum
        ~> va.pc = "open" \/ wu.error # {}

\* A result that was sent comes back or times out, each of them: at some time
\* none is in progress.
SentResultIsOver == []<>(InProgress(res) = {})

-----------------------------------------------------------------------------
\* Refinement

Standing(row) ==
    CASE row.server = "NONE" -> "new"
      [] row.server \in {"UNSENT", "IN_PROGRESS"} -> "open"
      [] row.server \in {"OVER", "PURGED"} -> "closed"

InputState ==
    CASE ~wu.exists -> "purged"
      [] wu.exists /\ wu.fds = "INIT" -> "kept"
      [] wu.exists /\ wu.fds \in {"READY", "ERROR"} -> "released"
      [] wu.exists /\ wu.fds = "DONE" -> "removed"

J == INSTANCE Job WITH
    Ids <- Results,
    results <- [r \in Results |-> Standing(res[r])],
    winner <- wu.canonical,
    failed <- wu.error # {},
    handed <- wu.assimilate = "DONE",
    inputs <- InputState

\* The daemons together implement the life of a job that Job.tla describes: no
\* results for a decided job, one winner, removal only after assimilation and
\* with no result outstanding.
ImplementsJob == J!JobSpec
=============================================================================
