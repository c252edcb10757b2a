-------------------------- MODULE ReportingProofs --------------------------
(***************************************************************************)
(* Proofs about Reporting, for any number of results, host records and     *)
(* scheduler processes, and for any number of crashes, broken connections  *)
(* and failed saves.                                                       *)
(***************************************************************************)
EXTENDS Reporting, FiniteSetTheorems, TLAPS

-----------------------------------------------------------------------------
(* The n-th of a set of numbers.                                           *)

Rank(i, S) == Cardinality({k \in S : k <= i})

(* In a finite set of integers the ranks are 1 to the size of the set.     *)
LEMMA RankIsBijection ==
    ASSUME NEW S \in SUBSET Int, IsFiniteSet(S)
    PROVE  /\ \A i \in S : Rank(i, S) \in 1..Cardinality(S)
           /\ \A i, j \in S : Rank(i, S) = Rank(j, S) => i = j
           /\ \A n \in 1..Cardinality(S) : \E i \in S : Rank(i, S) = n
<1> DEFINE UpTo(i) == {k \in S : k <= i}
           f == [i \in S |-> Rank(i, S)]
<1>1. Cardinality(S) \in Nat
  BY FS_CardinalityType
<1>2. \A i \in S : /\ IsFiniteSet(UpTo(i)) /\ Rank(i, S) \in 1..Cardinality(S)
  <2> TAKE i \in S
  <2>1. UpTo(i) \in SUBSET S
    OBVIOUS
  <2>2. IsFiniteSet(UpTo(i)) /\ Cardinality(UpTo(i)) <= Cardinality(S)
    BY <2>1, FS_Subset
  <2>3. Cardinality(UpTo(i)) \in Nat
    BY <2>2, FS_CardinalityType
  <2>4. i \in UpTo(i)
    OBVIOUS
  <2>5. Cardinality(UpTo(i)) # 0
    BY <2>2, <2>4, FS_EmptySet
  <2> QED
    BY <1>1, <2>2, <2>3, <2>5 DEF Rank
<1>3. ASSUME NEW i \in S, NEW j \in S, i < j
      PROVE  Rank(i, S) < Rank(j, S)
  <2>1. j \notin UpTo(i)
    BY <1>3
  <2>2. UpTo(i) \cup {j} \in SUBSET UpTo(j)
    <3>1. i \in Int /\ j \in Int /\ \A k \in S : k \in Int
      OBVIOUS
    <3>2. \A k \in S : k <= i => k <= j
      BY <3>1, <1>3
    <3>3. \A x \in UpTo(i) : x \in UpTo(j)
      BY <3>2
    <3>4. j \in UpTo(j)
      BY <3>1
    <3> QED
      BY <3>3, <3>4
  <2>3. Cardinality(UpTo(i) \cup {j}) <= Cardinality(UpTo(j))
    BY <2>2, <1>2, FS_Subset
  <2>4. Cardinality(UpTo(i) \cup {j}) = Cardinality(UpTo(i)) + 1
    BY <2>1, <1>2, FS_AddElement
  <2> QED
    BY <2>3, <2>4, <1>2 DEF Rank
<1>4. \A i, j \in S : Rank(i, S) = Rank(j, S) => i = j
  <2> SUFFICES ASSUME NEW i \in S, NEW j \in S, Rank(i, S) = Rank(j, S), i # j
               PROVE  FALSE
    OBVIOUS
  <2>1. i < j \/ j < i
    OBVIOUS
  <2>2. Rank(i, S) \in Int
    <3>1. Rank(i, S) \in 1..Cardinality(S)
      BY <1>2
    <3> QED
      BY <3>1
  <2> QED
    BY <1>3, <2>1, <2>2
<1>5. f \in Injection(S, 1..Cardinality(S))
  BY <1>2, <1>4 DEF Injection, IsInjective
<1>6. f \in Surjection(S, 1..Cardinality(S))
  <2>1. IsFiniteSet(1..Cardinality(S)) /\ Cardinality(1..Cardinality(S)) = Cardinality(S)
    BY <1>1, FS_Interval
  <2> QED
    BY <1>5, <2>1, FS_Injection
<1>7. \A n \in 1..Cardinality(S) : \E i \in S : Rank(i, S) = n
  BY <1>6 DEF Surjection
<1> QED
  BY <1>2, <1>4, <1>7

(* Nth counts through a finite set: every element once.                    *)
LEMMA NthCounts ==
    ASSUME NEW S \in SUBSET Int, IsFiniteSet(S)
    PROVE  /\ \A n \in 1..Cardinality(S) : Nth(n, S) \in S
           /\ \A m, n \in 1..Cardinality(S) : Nth(m, S) = Nth(n, S) => m = n
           /\ \A i \in S : \E n \in 1..Cardinality(S) : Nth(n, S) = i
<1>1. \A n : Nth(n, S) = CHOOSE i \in S : Rank(i, S) = n
  BY DEF Nth, Rank
<1>2. ASSUME NEW n \in 1..Cardinality(S)
      PROVE  Nth(n, S) \in S /\ Rank(Nth(n, S), S) = n
  <2>1. \E i \in S : Rank(i, S) = n
    BY RankIsBijection
  <2> QED
    BY <2>1, <1>1
<1>3. ASSUME NEW i \in S
      PROVE  \E n \in 1..Cardinality(S) : Nth(n, S) = i
  <2>1. Rank(i, S) \in 1..Cardinality(S)
    BY RankIsBijection
  <2>2. Nth(Rank(i, S), S) \in S /\ Rank(Nth(Rank(i, S), S), S) = Rank(i, S)
    BY <1>2, <2>1
  <2>3. Nth(Rank(i, S), S) = i
    BY <2>2, RankIsBijection
  <2> QED
    BY <2>1, <2>3
<1> QED
  BY <1>2, <1>3

-----------------------------------------------------------------------------
(* Lists of results.                                                       *)

Entries == [job : Jobs, phase : Phases, acked : BOOLEAN, unstarted : BOOLEAN]
SavedEntries == [job : Jobs, phase : Phases \ {"aborting"}, acked : BOOLEAN, unstarted : {FALSE}]
Distinct(rs) == \A i, k \in DOMAIN rs : rs[i].job = rs[k].job => i = k

Fresh(j) == [job |-> j, phase |-> "new", acked |-> FALSE, unstarted |-> FALSE]

(* Garbage collection keeps what is not deletable, and nothing else.       *)
LEMMA CollectionKeeps ==
    ASSUME NEW R, NEW rs \in Seq(R)
    PROVE  LET kept == GarbageCollected(rs)
           IN /\ kept \in Seq(R)
              /\ \A n \in DOMAIN kept :
                    \E i \in DOMAIN rs : kept[n] = rs[i] /\ ~Deletable(rs[i])
              /\ \A i \in DOMAIN rs :
                    ~Deletable(rs[i]) => \E n \in DOMAIN kept : kept[n] = rs[i]
              /\ Distinct(rs) => Distinct(kept)
<1> DEFINE S == {i \in DOMAIN rs : ~Deletable(rs[i])}
           kept == GarbageCollected(rs)
<1>1. S \in SUBSET Int /\ IsFiniteSet(S) /\ Cardinality(S) \in Nat
  <2>1. DOMAIN rs = 1..Len(rs) /\ Len(rs) \in Nat
    OBVIOUS
  <2>2. IsFiniteSet(DOMAIN rs)
    BY <2>1, FS_Interval
  <2>3. S \in SUBSET (DOMAIN rs)
    OBVIOUS
  <2>4. IsFiniteSet(S)
    BY <2>2, <2>3, FS_Subset
  <2> QED
    BY <2>1, <2>4, FS_CardinalityType
<1>2. kept = [n \in 1..Cardinality(S) |-> rs[Nth(n, S)]]
  BY DEF GarbageCollected
<1>3. \A n \in 1..Cardinality(S) : Nth(n, S) \in S
  BY <1>1, NthCounts
<1>4. \A m, n \in 1..Cardinality(S) : Nth(m, S) = Nth(n, S) => m = n
  BY <1>1, NthCounts
<1>5. \A i \in S : \E n \in 1..Cardinality(S) : Nth(n, S) = i
  BY <1>1, NthCounts
<1> HIDE DEF S
<1>6. \A i \in S : i \in DOMAIN rs /\ ~Deletable(rs[i])
  BY DEF S
<1>7. kept \in Seq(R)
  <2>1. \A n \in 1..Cardinality(S) : rs[Nth(n, S)] \in R
    BY <1>3, <1>6
  <2>2. kept \in [1..Cardinality(S) -> R]
    BY <1>2, <2>1
  <2> QED
    BY <2>2, <1>1
<1>8. ASSUME NEW n \in DOMAIN kept
      PROVE  \E i \in DOMAIN rs : kept[n] = rs[i] /\ ~Deletable(rs[i])
  BY <1>2, <1>3, <1>6
<1>9. ASSUME NEW i \in DOMAIN rs, ~Deletable(rs[i])
      PROVE  \E n \in DOMAIN kept : kept[n] = rs[i]
  <2>1. i \in S
    BY <1>9 DEF S
  <2> QED
    BY <2>1, <1>2, <1>5
<1>10. ASSUME Distinct(rs)
       PROVE  Distinct(kept)
  <2> SUFFICES ASSUME NEW m \in DOMAIN kept, NEW n \in DOMAIN kept, kept[m].job = kept[n].job
               PROVE  m = n
    BY DEF Distinct
  <2>1. m \in 1..Cardinality(S) /\ n \in 1..Cardinality(S)
    BY <1>2
  <2>2. kept[m] = rs[Nth(m, S)] /\ kept[n] = rs[Nth(n, S)]
    BY <1>2, <2>1
  <2>3. Nth(m, S) = Nth(n, S)
    BY <2>1, <2>2, <1>3, <1>6, <1>10 DEF Distinct
  <2> QED
    BY <2>1, <2>3, <1>4
<1> QED
  BY <1>7, <1>8, <1>9, <1>10

(* What a reply brings is one new result for each job.                     *)
LEMMA BroughtAreFresh ==
    ASSUME NEW jobs \in SUBSET Jobs
    PROVE  LET brought == AsNew(jobs)
           IN /\ brought \in Seq(Entries)
              /\ \A n \in DOMAIN brought : \E j \in jobs : brought[n] = Fresh(j)
              /\ \A j \in jobs : \E n \in DOMAIN brought : brought[n] = Fresh(j)
              /\ Distinct(brought)
<1> DEFINE brought == AsNew(jobs)
<1>1. jobs \in SUBSET Int /\ IsFiniteSet(jobs) /\ Cardinality(jobs) \in Nat
  <2>1. IsFiniteSet(jobs)
    BY HostRpcAssumption, FS_Subset
  <2> QED
    BY <2>1, HostRpcAssumption, FS_CardinalityType
<1>2. brought = [n \in 1..Cardinality(jobs) |-> Fresh(Nth(n, jobs))]
  BY DEF AsNew, Fresh
<1>3. \A n \in 1..Cardinality(jobs) : Nth(n, jobs) \in jobs
  BY <1>1, NthCounts
<1>4. \A m, n \in 1..Cardinality(jobs) : Nth(m, jobs) = Nth(n, jobs) => m = n
  BY <1>1, NthCounts
<1>5. \A i \in jobs : \E n \in 1..Cardinality(jobs) : Nth(n, jobs) = i
  BY <1>1, NthCounts
<1>6. \A j \in jobs : Fresh(j) \in Entries /\ Fresh(j).job = j
  BY DEF Fresh, Entries, Phases, Ready
<1>7. brought \in Seq(Entries)
  <2>1. brought \in [1..Cardinality(jobs) -> Entries]
    BY <1>2, <1>3, <1>6
  <2> QED
    BY <2>1, <1>1
<1>8. \A n \in DOMAIN brought : \E j \in jobs : brought[n] = Fresh(j)
  BY <1>2, <1>3
<1>9. \A j \in jobs : \E n \in DOMAIN brought : brought[n] = Fresh(j)
  BY <1>2, <1>5
<1>10. Distinct(brought)
  <2> SUFFICES ASSUME NEW m \in DOMAIN brought, NEW n \in DOMAIN brought,
                      brought[m].job = brought[n].job
               PROVE  m = n
    BY DEF Distinct
  <2>1. m \in 1..Cardinality(jobs) /\ n \in 1..Cardinality(jobs)
    BY <1>2
  <2>2. brought[m] = Fresh(Nth(m, jobs)) /\ brought[n] = Fresh(Nth(n, jobs))
    BY <1>2, <2>1
  <2>3. Nth(m, jobs) = Nth(n, jobs)
    BY <2>1, <2>2, <1>3, <1>6
  <2> QED
    BY <2>1, <2>3, <1>4
<1> QED
  BY <1>7, <1>8, <1>9, <1>10

(* What a reply may change of a result.                                    *)
LEMMA ToldChanges ==
    ASSUME NEW r \in Entries, NEW reply \in Replies
    PROVE  LET told == Told(r, reply)
           IN /\ told \in Entries /\ told.job = r.job
              /\ told.acked = (r.acked \/ r.job \in reply.acks)
              /\ \/ told.phase = r.phase
                 \/ /\ r.job \in reply.aborts \cup reply.unstarted
                    /\ \/ r.phase = "running" /\ told.phase = "aborting"
                       \/ r.phase = "new" /\ told.phase = "aborted"
<1> DEFINE acked == [r EXCEPT !.acked = @ \/ r.job \in reply.acks]
<1>1. /\ acked \in Entries /\ acked.job = r.job /\ acked.phase = r.phase
      /\ acked.acked = (r.acked \/ r.job \in reply.acks)
  BY DEF Entries
<1>2. \/ Told(r, reply) = acked
      \/ r.job \in reply.aborts \cup reply.unstarted /\ Told(r, reply) = Abort(acked)
  BY DEF Told
<1> HIDE DEF acked
<1>3. /\ Abort(acked) \in Entries /\ Abort(acked).job = acked.job
      /\ Abort(acked).acked = acked.acked
      /\ \/ Abort(acked).phase = acked.phase
         \/ acked.phase = "running" /\ Abort(acked).phase = "aborting"
         \/ acked.phase = "new" /\ Abort(acked).phase = "aborted"
  BY <1>1 DEF Abort, Entries, Phases, Ready
<1> QED
  BY <1>1, <1>2, <1>3

(* The results after a reply: the ones the client had, as the reply tells  *)
(* it, and new ones, without what may be deleted.                          *)
Merged(reply) ==
    LET all == results \o NewResults(reply.jobs)
    IN GarbageCollected([i \in DOMAIN all |-> Told(all[i], reply)])

LEMMA ReplyMerges ==
    ASSUME results \in Seq(Entries), Distinct(results), NEW reply \in Replies
    PROVE  /\ Merged(reply) \in Seq(Entries) /\ Distinct(Merged(reply))
           /\ \A n \in DOMAIN Merged(reply) :
                 /\ ~Deletable(Merged(reply)[n])
                 /\ \/ \E i \in DOMAIN results : Merged(reply)[n] = Told(results[i], reply)
                    \/ \E j \in reply.jobs \ Held : Merged(reply)[n] = Told(Fresh(j), reply)
           /\ \A i \in DOMAIN results :
                 ~Deletable(Told(results[i], reply))
                    => \E n \in DOMAIN Merged(reply) : Merged(reply)[n] = Told(results[i], reply)
<1> DEFINE brought == NewResults(reply.jobs)
           all == results \o brought
           told == [i \in DOMAIN all |-> Told(all[i], reply)]
<1>1. /\ brought \in Seq(Entries) /\ Distinct(brought)
      /\ \A n \in DOMAIN brought : \E j \in reply.jobs \ Held : brought[n] = Fresh(j)
  <2>1. reply.jobs \ Held \in SUBSET Jobs
    BY DEF Replies
  <2> QED
    BY <2>1, BroughtAreFresh DEF NewResults
<1> HIDE DEF brought
<1>2. /\ all \in Seq(Entries) /\ Len(all) = Len(results) + Len(brought)
      /\ \A i \in DOMAIN results : i \in DOMAIN all /\ all[i] = results[i]
      /\ \A i \in DOMAIN all : \/ i \in DOMAIN results /\ all[i] = results[i]
                               \/ /\ i > Len(results) /\ i - Len(results) \in DOMAIN brought
                                  /\ all[i] = brought[i - Len(results)]
  BY <1>1
<1>3. Distinct(all)
  <2> SUFFICES ASSUME NEW i \in DOMAIN all, NEW k \in DOMAIN all, all[i].job = all[k].job
               PROVE  i = k
    BY DEF Distinct
  <2>0. i \in Nat /\ k \in Nat /\ Len(results) \in Nat
    BY <1>2
  <2>1. CASE i \in DOMAIN results /\ k \in DOMAIN results
    BY <2>1, <1>2 DEF Distinct
  <2>2. ASSUME NEW x \in DOMAIN results, NEW y \in DOMAIN brought,
               results[x].job = brought[y].job
        PROVE  FALSE
    <3>1. PICK j \in reply.jobs \ Held : brought[y] = Fresh(j)
      BY <1>1
    <3>2. results[x].job = j
      BY <2>2, <3>1 DEF Fresh
    <3> QED
      BY <3>1, <3>2 DEF Held
  <2>3. CASE ~(i \in DOMAIN results) /\ ~(k \in DOMAIN results)
    <3>1. /\ i - Len(results) \in DOMAIN brought /\ all[i] = brought[i - Len(results)]
          /\ k - Len(results) \in DOMAIN brought /\ all[k] = brought[k - Len(results)]
      BY <2>3, <1>2
    <3>2. i - Len(results) = k - Len(results)
      BY <3>1, <1>1 DEF Distinct
    <3> QED
      BY <3>2, <2>0
  <2> QED
    BY <2>1, <2>2, <2>3, <1>2
<1> HIDE DEF all
<1>4. /\ told \in Seq(Entries) /\ DOMAIN told = DOMAIN all
      /\ \A i \in DOMAIN all : told[i] = Told(all[i], reply) /\ told[i].job = all[i].job
  <2>1. \A i \in DOMAIN all : all[i] \in Entries
    BY <1>2
  <2>2. \A i \in DOMAIN all : Told(all[i], reply) \in Entries /\ Told(all[i], reply).job = all[i].job
    BY <2>1, ToldChanges
  <2>3. told \in [1..Len(all) -> Entries] /\ Len(all) \in Nat /\ DOMAIN all = 1..Len(all)
    BY <2>2, <1>2
  <2> QED
    BY <2>2, <2>3
<1>5. Distinct(told)
  BY <1>3, <1>4 DEF Distinct
<1>6. Merged(reply) = GarbageCollected(told)
  BY DEF Merged, all, brought
<1> HIDE DEF told
<1>7. /\ Merged(reply) \in Seq(Entries) /\ Distinct(Merged(reply))
      /\ \A n \in DOMAIN Merged(reply) :
            \E i \in DOMAIN told : Merged(reply)[n] = told[i] /\ ~Deletable(told[i])
      /\ \A i \in DOMAIN told :
            ~Deletable(told[i]) => \E n \in DOMAIN Merged(reply) : Merged(reply)[n] = told[i]
  BY <1>4, <1>5, <1>6, CollectionKeeps
<1>8. ASSUME NEW n \in DOMAIN Merged(reply)
      PROVE  /\ ~Deletable(Merged(reply)[n])
             /\ \/ \E i \in DOMAIN results : Merged(reply)[n] = Told(results[i], reply)
                \/ \E j \in reply.jobs \ Held : Merged(reply)[n] = Told(Fresh(j), reply)
  <2>1. PICK i \in DOMAIN all : Merged(reply)[n] = Told(all[i], reply) /\ ~Deletable(told[i])
                                /\ Merged(reply)[n] = told[i]
    BY <1>4, <1>7
  <2>2. CASE i \in DOMAIN results
    BY <2>1, <2>2, <1>2
  <2>3. CASE i \notin DOMAIN results
    <3>1. i - Len(results) \in DOMAIN brought /\ all[i] = brought[i - Len(results)]
      BY <2>3, <1>2
    <3>2. PICK j \in reply.jobs \ Held : all[i] = Fresh(j)
      BY <3>1, <1>1
    <3> QED
      BY <2>1, <3>2
  <2> QED
    BY <2>1, <2>2, <2>3
<1>9. ASSUME NEW i \in DOMAIN results, ~Deletable(Told(results[i], reply))
      PROVE  \E n \in DOMAIN Merged(reply) : Merged(reply)[n] = Told(results[i], reply)
  <2>1. i \in DOMAIN told /\ told[i] = Told(results[i], reply)
    BY <1>2, <1>4
  <2> QED
    BY <2>1, <1>7, <1>9
<1> QED
  BY <1>7, <1>8, <1>9

-----------------------------------------------------------------------------
(* The inductive invariant: types, and what the files hold.                *)

JobStates == {"UNSENT", "IN_PROGRESS", "SUCCESS", "CLIENT_ERROR", "NO_REPLY", "CLIENT_DETACHED"}
Arrived == [pc : {"arrived"}, req : Requests]
Authenticated == [pc : {"authenticated"}, req : Requests, host : Nat, initial : Nat,
                  seqno : Nat, tell : Nat]
Known(id) == id \in Ids \cup {0}

(* The scheduler's records and processes.                                  *)
ServerTypes ==
    /\ hosts \in Seq([seqno : Nat, cpid : BOOLEAN]) /\ Len(hosts) <= MaxHosts
    /\ job \in [Jobs -> [state : JobStates, host : Ids \cup {0}]]
    /\ cgi \in [Handlers -> {Idle} \cup Arrived \cup Authenticated]
    /\ \A h \in Handlers :
          /\ cgi[h].pc # "idle" => Known(cgi[h].req.hostid)
          /\ cgi[h].pc = "authenticated" => cgi[h].host \in Ids /\ Known(cgi[h].tell)
    /\ events \in 0..MaxEvents

(* The connection, and the request file it needs.                          *)
ConnTypes ==
    /\ conn \in {NoConn} \cup [phase : {"open"}, via : Handlers, urlIndex : Nat]
                  \cup [phase : {"failed"}, urlIndex : Nat] \cup [phase : {"replied"}, reply : Replies]
    /\ conn.phase = "replied" => Known(conn.reply.hostid)
    /\ request \in Requests \cup {Missing}
    /\ conn.phase # "none" => request \in Requests /\ Known(request.hostid)

(* The client.                                                             *)
MemoryTypes ==
    /\ Known(hostid) /\ seqno \in Nat
    /\ results \in Seq(Entries) /\ Distinct(results)
    /\ dirty \in BOOLEAN

(* A state that may be in a file.                                          *)
Storable(state) ==
    /\ state \in [hostid : Nat, seqno : Nat, results : Seq(SavedEntries)]
    /\ Known(state.hostid) /\ Distinct(state.results)

(* Where the last state is, step by step of a save: it leaves its name     *)
(* only when the new one is complete, and after its copy is in place.      *)
FilesSound ==
    /\ Storable(completed)
    /\ save \in SavePhases \cup {"no", "failed"} /\ attempt \in 1..MaxAttempts
    /\ next \in {Missing, Torn, Snapshot}
    /\ save \in {"delete", "keep", "install"} => next = Snapshot
    /\ name # completed => name = Missing /\ prev = completed
    /\ save \in {"delete", "keep"} => name = completed
    /\ save = "no" => next = Missing /\ name = completed
    /\ prev = completed \/ prev \in {Missing, Torn}

TypesInv == ServerTypes /\ ConnTypes /\ MemoryTypes /\ FilesSound

-----------------------------------------------------------------------------
(* Helpers of the steps.                                                   *)

(* The tag of a record decides which it is.                                *)
LEMMA ProcessKinds ==
    ASSUME ServerTypes, NEW h \in Handlers
    PROVE  /\ cgi[h].pc = "idle" => cgi[h] = Idle
           /\ cgi[h].pc = "arrived" => cgi[h] \in Arrived
           /\ cgi[h].pc = "authenticated" => cgi[h] \in Authenticated
           /\ cgi[h].pc \in {"idle", "arrived", "authenticated"}
           /\ cgi[h] # Idle => cgi[h].pc # "idle"
BY DEF ServerTypes, Idle, Arrived, Authenticated

LEMMA ConnKinds ==
    ASSUME ConnTypes
    PROVE  /\ conn.phase \in {"none", "open", "failed", "replied"}
           /\ conn.phase = "none" => conn = NoConn
           /\ conn.phase = "open" => conn \in [phase : {"open"}, via : Handlers, urlIndex : Nat]
           /\ conn.phase = "failed" => conn \in [phase : {"failed"}, urlIndex : Nat]
           /\ conn.phase = "replied" => conn \in [phase : {"replied"}, reply : Replies]
BY DEF ConnTypes, NoConn

(* Host ids are 1 to the number of records, which never shrinks.           *)
LEMMA IdsGrow ==
    ASSUME hosts \in Seq([seqno : Nat, cpid : BOOLEAN]), Len(hosts) <= MaxHosts
    PROVE  /\ Ids = 1..Len(hosts) /\ Len(hosts) \in Nat
           /\ \A id : Known(id) => id \in 0..MaxHosts
           /\ \A id \in Ids : hosts[id].seqno \in Nat /\ hosts[id].cpid \in BOOLEAN
<1>1. Ids = 1..Len(hosts) /\ Len(hosts) \in Nat
  BY DEF Ids
<1>2. \A id : Known(id) => id \in 0..MaxHosts
  BY <1>1, HostRpcAssumption DEF Known
<1>3. \A id \in Ids : hosts[id].seqno \in Nat /\ hosts[id].cpid \in BOOLEAN
  <2> DEFINE R == [seqno : Nat, cpid : BOOLEAN]
  <2>1. hosts \in Seq(R)
    OBVIOUS
  <2> HIDE DEF R
  <2>2. \A id \in Ids : hosts[id] \in R
    BY <1>1, <2>1
  <2> QED
    BY <2>2 DEF R
<1> QED
  BY <1>1, <1>2, <1>3

LEMMA LatestIsIn ==
    ASSUME hosts \in Seq([seqno : Nat, cpid : BOOLEAN]), Len(hosts) <= MaxHosts,
           NEW S \in SUBSET Ids, S # {}
    PROVE  Latest(S) \in S
<1>1. Ids = 1..Len(hosts) /\ Len(hosts) \in Nat
  BY IdsGrow
<1>2. IsFiniteSet(S) /\ S \in SUBSET Int
  <2>1. IsFiniteSet(Ids)
    BY <1>1, FS_Interval
  <2>2. IsFiniteSet(S)
    BY <2>1, FS_Subset
  <2> QED
    BY <1>1, <2>2
<1>3. Cardinality(S) \in Nat \ {0}
  BY <1>2, FS_CardinalityType, FS_EmptySet
<1>4. PICK id \in S : Rank(id, S) = Cardinality(S)
  BY <1>2, <1>3, RankIsBijection
<1>5. \A other \in S : other <= id
  <2> DEFINE T == {k \in S : k <= id}
  <2>1. T \in SUBSET S /\ Cardinality(T) = Cardinality(S)
    BY <1>4 DEF Rank
  <2>2. T = S
    BY <2>1, <1>2, FS_Subset
  <2> QED
    BY <2>2
<1> QED
  BY <1>5 DEF Latest

(* The answer of a process reaches the client, or nobody.                  *)
LEMMA AnswerTypes ==
    ASSUME ServerTypes, ConnTypes, NEW h \in Handlers, NEW reply \in Replies, Known(reply.hostid),
           Answer(h, reply), UNCHANGED request, Ids \subseteq Ids'
    PROVE  /\ ConnTypes'
           /\ cgi' = [cgi EXCEPT ![h] = Idle]
           /\ cgi' \in [Handlers -> {Idle} \cup Arrived \cup Authenticated]
           /\ \A g \in Handlers : cgi'[g].pc # "idle" => g # h /\ cgi'[g] = cgi[g]
<1>1. /\ cgi' = [cgi EXCEPT ![h] = Idle]
      /\ cgi' \in [Handlers -> {Idle} \cup Arrived \cup Authenticated]
  BY DEF Answer, ServerTypes
<1>2. \A g \in Handlers : cgi'[g].pc # "idle" => g # h /\ cgi'[g] = cgi[g]
  BY <1>1 DEF ServerTypes, Idle
<1>3. ConnTypes'
  <2>1. CASE conn' = [phase |-> "replied", reply |-> reply] /\ conn.phase = "open"
    BY <2>1, ConnKinds DEF ConnTypes, Known, Requests, Replies
  <2>2. CASE conn' = conn
    BY <2>2 DEF ConnTypes, Known
  <2> QED
    BY <2>1, <2>2 DEF Answer
<1> QED
  BY <1>1, <1>2, <1>3

-----------------------------------------------------------------------------
(* The types are kept: first the steps of a process.                       *)

LEMMA RowsTyped ==
    ASSUME ServerTypes
    PROVE  \A j \in Jobs : job[j].state \in JobStates /\ job[j].host \in Ids \cup {0}
BY DEF ServerTypes

LEMMA AuthenticateTypes ==
    ASSUME ServerTypes, ConnTypes, NEW h \in Handlers, Authenticate(h), UNCHANGED request
    PROVE  ServerTypes' /\ ConnTypes' /\ Ids \subseteq Ids'
<1>1. /\ cgi[h] \in Arrived /\ cgi[h].req \in Requests /\ Known(cgi[h].req.hostid)
      /\ conn' = conn /\ events' = events
  BY ProcessKinds DEF Authenticate, ServerTypes, Arrived
<1>2. /\ hosts \in Seq([seqno : Nat, cpid : BOOLEAN]) /\ Len(hosts) <= MaxHosts
      /\ job \in [Jobs -> [state : JobStates, host : Ids \cup {0}]]
      /\ cgi \in [Handlers -> {Idle} \cup Arrived \cup Authenticated]
  BY DEF ServerTypes
<1>3. /\ Ids = 1..Len(hosts) /\ Len(hosts) \in Nat
      /\ \A id \in Ids : hosts[id].seqno \in Nat
  BY <1>2, IdsGrow
<1>4. ASSUME NEW p \in Authenticated, cgi' = [cgi EXCEPT ![h] = p],
             p.req = cgi[h].req, p.host \in Ids', p.tell \in Ids' \cup {0},
             hosts' \in Seq([seqno : Nat, cpid : BOOLEAN]), Len(hosts') <= MaxHosts,
             job' \in [Jobs -> [state : JobStates, host : Ids \cup {0}]],
             Ids \subseteq Ids'
      PROVE  ServerTypes' /\ ConnTypes' /\ Ids \subseteq Ids'
  <2>1. job' \in [Jobs -> [state : JobStates, host : Ids' \cup {0}]]
    BY <1>4
  <2>2. cgi' \in [Handlers -> {Idle} \cup Arrived \cup Authenticated]
    BY <1>2, <1>4
  <2>3. ASSUME NEW g \in Handlers
        PROVE  /\ cgi'[g].pc # "idle" => cgi'[g].req.hostid \in Ids' \cup {0}
               /\ cgi'[g].pc = "authenticated" => cgi'[g].host \in Ids' /\ cgi'[g].tell \in Ids' \cup {0}
    <3>1. CASE g = h
      BY <3>1, <1>1, <1>2, <1>4 DEF Known
    <3>2. CASE g # h
      BY <3>2, <1>2, <1>4 DEF Known, ServerTypes
    <3> QED
      BY <3>1, <3>2
  <2>4. ConnTypes'
    BY <1>1, <1>4 DEF ConnTypes, Known
  <2>5. events' \in 0..MaxEvents
    BY <1>1 DEF ServerTypes
  <2> QED
    BY <1>4, <2>1, <2>2, <2>3, <2>4, <2>5 DEF ServerTypes, Known
<1>5. CASE /\ cgi[h].req.hostid # 0 /\ SeqnoOk(cgi[h].req) /\ UNCHANGED <<hosts, job>>
           /\ cgi' = [cgi EXCEPT ![h] = [pc |-> "authenticated", req |-> cgi[h].req,
                                         host |-> cgi[h].req.hostid, seqno |-> cgi[h].req.seqno,
                                         initial |-> hosts[cgi[h].req.hostid].seqno, tell |-> 0]]
  <2> DEFINE p == [pc |-> "authenticated", req |-> cgi[h].req,
                   host |-> cgi[h].req.hostid, seqno |-> cgi[h].req.seqno,
                   initial |-> hosts[cgi[h].req.hostid].seqno, tell |-> 0]
  <2>1. cgi[h].req.hostid \in Ids /\ cgi[h].req.seqno \in Nat
    BY <1>1, <1>5 DEF Known, Requests
  <2>2. p \in Authenticated
    BY <2>1, <1>1, <1>3 DEF Authenticated
  <2>3. p.req = cgi[h].req /\ p.host \in Ids /\ Known(p.tell)
    BY <2>1 DEF Known
  <2>4. Ids' = Ids /\ p.tell \in Ids' \cup {0}
    BY <1>5 DEF Ids, Known
  <2> QED
    BY <1>2, <1>4, <1>5, <2>2, <2>3, <2>4
<1>6. ASSUME NEW id \in Ids, ReuseHost(h, id)
      PROVE  ServerTypes' /\ ConnTypes' /\ Ids \subseteq Ids'
  <2> DEFINE p == [pc |-> "authenticated", req |-> cgi[h].req, host |-> id,
                   initial |-> hosts[id].seqno, seqno |-> 0, tell |-> id]
  <2>1. cgi' = [cgi EXCEPT ![h] = p] /\ hosts' = hosts
    BY <1>6 DEF ReuseHost
  <2>2. p \in Authenticated
    BY <1>1, <1>3 DEF Authenticated
  <2>3. MarkResultsOver(id) \in [Jobs -> [state : JobStates, host : Ids \cup {0}]]
    BY <1>2 DEF MarkResultsOver, JobStates
  <2>4. job' \in [Jobs -> [state : JobStates, host : Ids \cup {0}]]
    BY <1>2, <1>6, <2>3 DEF ReuseHost
  <2>5. Ids' = Ids /\ p.tell \in Ids' \cup {0} /\ p.host \in Ids
    BY <2>1 DEF Ids, Known
  <2> QED
    BY <1>2, <1>4, <2>1, <2>2, <2>4, <2>5
<1>7. CASE NewHost(h)
  <2> DEFINE p == [pc |-> "authenticated", req |-> cgi[h].req, host |-> Len(hosts) + 1,
                   initial |-> 0, seqno |-> 0, tell |-> Len(hosts) + 1]
  <2>1. /\ cgi' = [cgi EXCEPT ![h] = p] /\ job' = job /\ Len(hosts) < MaxHosts
        /\ hosts' = Append(hosts, [seqno |-> 0, cpid |-> FALSE])
    BY <1>7 DEF NewHost
  <2>2. p \in Authenticated
    BY <1>1, <1>3 DEF Authenticated
  <2>3. /\ hosts' \in Seq([seqno : Nat, cpid : BOOLEAN]) /\ Len(hosts') = Len(hosts) + 1
        /\ Ids' = 1..(Len(hosts) + 1)
    BY <2>1, <1>2 DEF Ids
  <2>4. Len(hosts') <= MaxHosts /\ Ids \subseteq Ids' /\ p.host \in Ids' /\ p.tell \in Ids' \cup {0}
    BY <2>1, <2>3, <1>3, HostRpcAssumption DEF Known
  <2> QED
    BY <1>2, <1>4, <2>1, <2>2, <2>3, <2>4
<1>8. WithCpid \in SUBSET Ids
  BY DEF WithCpid
<1> QED
  BY <1>2, <1>5, <1>6, <1>7, <1>8, LatestIsIn DEF Authenticate

LEMMA UpdateHostTypes ==
    ASSUME ServerTypes, NEW h \in Handlers, cgi[h].pc = "authenticated", UpdateHost(h)
    PROVE  /\ hosts' \in Seq([seqno : Nat, cpid : BOOLEAN]) /\ Len(hosts') <= MaxHosts
           /\ Ids' = Ids
           /\ \A id \in Ids : hosts'[id].seqno \in {hosts[id].seqno}
                 \cup (IF id = cgi[h].host THEN {cgi[h].seqno} ELSE {})
<1>1. /\ hosts \in Seq([seqno : Nat, cpid : BOOLEAN]) /\ Len(hosts) <= MaxHosts
      /\ cgi[h] \in Authenticated /\ cgi[h].host \in Ids
  BY ProcessKinds DEF ServerTypes
<1>2. /\ Ids = 1..Len(hosts) /\ Len(hosts) \in Nat
      /\ \A id \in Ids : hosts[id].seqno \in Nat
  BY <1>1, IdsGrow
<1> DEFINE new == [seqno |-> IF cgi[h].seqno # cgi[h].initial THEN cgi[h].seqno
                             ELSE hosts[cgi[h].host].seqno, cpid |-> TRUE]
<1>3. new \in [seqno : Nat, cpid : BOOLEAN]
      /\ new.seqno \in {hosts[cgi[h].host].seqno, cgi[h].seqno}
  BY <1>1, <1>2 DEF Authenticated
<1>4. hosts' = [hosts EXCEPT ![cgi[h].host] = new]
  BY DEF UpdateHost
<1> HIDE DEF new
<1>5. hosts' \in Seq([seqno : Nat, cpid : BOOLEAN]) /\ Len(hosts') = Len(hosts)
  BY <1>1, <1>2, <1>3, <1>4
<1>6. Ids' = Ids
  BY <1>5, <1>2 DEF Ids
<1>7. \A id \in Ids : hosts'[id] = IF id = cgi[h].host THEN new ELSE hosts[id]
  BY <1>4, <1>1, <1>2
<1> QED
  BY <1>1, <1>3, <1>5, <1>6, <1>7

(* What Serve() does to the result records, and what it answers.           *)
ServedRows(h) == HandleResults(cgi[h].host, cgi[h].req)
LostOnes(h) == IF MayResend(cgi[h].req) THEN Lost(ServedRows(h), cgi[h].host, cgi[h].req) ELSE {}
AnswerTo(h, after, sent) ==
    [hostid |-> cgi[h].tell, jobs |-> sent, acks |-> Reported(cgi[h].req),
     aborts |-> Aborts(after, cgi[h].host, cgi[h].req),
     unstarted |-> AbortsIfUnstarted(after, cgi[h].host, cgi[h].req)]

LEMMA ServeCases ==
    ASSUME NEW h \in Handlers, Serve(h)
    PROVE  /\ cgi[h].pc = "authenticated" /\ UpdateHost(h)
           /\ \E resent \in SUBSET LostOnes(h) :
                 LET after == Expire(ServedRows(h), LostOnes(h) \ resent)
                 IN \/ job' = after /\ Answer(h, AnswerTo(h, after, resent)) /\ UNCHANGED events
                    \/ \E j \in Jobs : /\ after[j].state = "UNSENT"
                                       /\ job' = Send(after, cgi[h].host, j)
                                       /\ Answer(h, AnswerTo(h, after, {j})) /\ Event
BY DEF Serve, ServedRows, LostOnes, AnswerTo

LEMMA ServedRowsTyped ==
    ASSUME ServerTypes, NEW h \in Handlers, cgi[h].pc = "authenticated",
           NEW resent \in SUBSET LostOnes(h)
    PROVE  LET after == Expire(ServedRows(h), LostOnes(h) \ resent)
               Rows == [Jobs -> [state : JobStates, host : Ids \cup {0}]]
           IN /\ ServedRows(h) \in Rows /\ after \in Rows
              /\ LostOnes(h) \in SUBSET Jobs
              /\ \A j \in Jobs : Send(after, cgi[h].host, j) \in Rows
              /\ \A sent \in SUBSET Jobs :
                    AnswerTo(h, after, sent) \in Replies /\ Known(AnswerTo(h, after, sent).hostid)
<1> DEFINE Rows == [Jobs -> [state : JobStates, host : Ids \cup {0}]]
           after == Expire(ServedRows(h), LostOnes(h) \ resent)
<1>1. /\ cgi[h] \in Authenticated /\ cgi[h].host \in Ids /\ Known(cgi[h].tell)
      /\ job \in Rows /\ cgi[h].req \in Requests
  BY ProcessKinds DEF ServerTypes, Authenticated
<1>2. ServedRows(h) \in Rows
  BY <1>1 DEF ServedRows, HandleResults, JobStates
<1>3. LostOnes(h) \in SUBSET Jobs
  BY DEF LostOnes, Lost
<1>4. after \in Rows
  BY <1>2, <1>3 DEF Expire, JobStates
<1>5. \A j \in Jobs : Send(after, cgi[h].host, j) \in Rows
  BY <1>1, <1>4 DEF Send, JobStates
<1>6. ASSUME NEW sent \in SUBSET Jobs
      PROVE  AnswerTo(h, after, sent) \in Replies /\ Known(AnswerTo(h, after, sent).hostid)
  <2>1. /\ cgi[h].req.others \in SUBSET Jobs
        /\ cgi[h].req.reports \in SUBSET [job : Jobs, ok : BOOLEAN]
    BY <1>1 DEF Requests
  <2>2. Reported(cgi[h].req) \in SUBSET Jobs
    BY <2>1 DEF Reported
  <2>3. /\ Aborts(after, cgi[h].host, cgi[h].req) \in SUBSET Jobs
        /\ AbortsIfUnstarted(after, cgi[h].host, cgi[h].req) \in SUBSET Jobs
    BY <2>1 DEF Aborts, AbortsIfUnstarted, Wanted
  <2>4. cgi[h].tell \in 0..MaxHosts
    BY <1>1, IdsGrow DEF ServerTypes
  <2> QED
    BY <1>1, <2>2, <2>3, <2>4 DEF AnswerTo, Replies
<1> QED
  BY <1>2, <1>3, <1>4, <1>5, <1>6

LEMMA ServeTypes ==
    ASSUME ServerTypes, ConnTypes, NEW h \in Handlers, Serve(h), UNCHANGED request
    PROVE  ServerTypes' /\ ConnTypes' /\ Ids' = Ids
<1> DEFINE Rows == [Jobs -> [state : JobStates, host : Ids \cup {0}]]
<1>1. /\ hosts' \in Seq([seqno : Nat, cpid : BOOLEAN]) /\ Len(hosts') <= MaxHosts
      /\ Ids' = Ids
  BY ServeCases, UpdateHostTypes
<1>2. ASSUME NEW rows \in Rows, NEW reply \in Replies, Known(reply.hostid),
             job' = rows, Answer(h, reply), UNCHANGED events \/ Event
      PROVE  ServerTypes' /\ ConnTypes'
  <2>1. /\ ConnTypes'
        /\ cgi' \in [Handlers -> {Idle} \cup Arrived \cup Authenticated]
        /\ \A g \in Handlers : cgi'[g].pc # "idle" => g # h /\ cgi'[g] = cgi[g]
    BY <1>1, <1>2, AnswerTypes
  <2>2. events' \in 0..MaxEvents
    BY <1>2, HostRpcAssumption DEF ServerTypes, Event
  <2>3. job' \in [Jobs -> [state : JobStates, host : Ids' \cup {0}]]
    BY <1>1, <1>2
  <2>4. \A g \in Handlers :
           /\ cgi'[g].pc # "idle" => cgi'[g].req.hostid \in Ids' \cup {0}
           /\ cgi'[g].pc = "authenticated" =>
                 cgi'[g].host \in Ids' /\ cgi'[g].tell \in Ids' \cup {0}
    BY <1>1, <2>1 DEF ServerTypes, Known
  <2> QED
    BY <1>1, <2>1, <2>2, <2>3, <2>4 DEF ServerTypes, Known
<1>3. PICK resent \in SUBSET LostOnes(h) :
         LET after == Expire(ServedRows(h), LostOnes(h) \ resent)
         IN \/ job' = after /\ Answer(h, AnswerTo(h, after, resent)) /\ UNCHANGED events
            \/ \E j \in Jobs : /\ after[j].state = "UNSENT"
                               /\ job' = Send(after, cgi[h].host, j)
                               /\ Answer(h, AnswerTo(h, after, {j})) /\ Event
  BY ServeCases
<1> DEFINE after == Expire(ServedRows(h), LostOnes(h) \ resent)
<1>4. cgi[h].pc = "authenticated"
  BY ServeCases
<1>5. /\ after \in Rows /\ LostOnes(h) \in SUBSET Jobs
      /\ \A j \in Jobs : Send(after, cgi[h].host, j) \in Rows
      /\ \A sent \in SUBSET Jobs :
            AnswerTo(h, after, sent) \in Replies /\ Known(AnswerTo(h, after, sent).hostid)
  BY <1>4, ServedRowsTyped
<1> HIDE DEF after
<1>6. CASE job' = after /\ Answer(h, AnswerTo(h, after, resent)) /\ UNCHANGED events
  <2>1. resent \in SUBSET Jobs
    BY <1>5
  <2> QED
    BY <1>1, <1>2, <1>5, <1>6, <2>1
<1>7. ASSUME NEW j \in Jobs, job' = Send(after, cgi[h].host, j),
             Answer(h, AnswerTo(h, after, {j})), Event
      PROVE  ServerTypes' /\ ConnTypes'
  <2>1. {j} \in SUBSET Jobs
    OBVIOUS
  <2> QED
    BY <1>2, <1>5, <1>7, <2>1
<1> QED
  BY <1>1, <1>3, <1>6, <1>7 DEF after

LEMMA RefuseTypes ==
    ASSUME ServerTypes, ConnTypes, NEW h \in Handlers, Refuse(h), UNCHANGED request
    PROVE  ServerTypes' /\ ConnTypes' /\ Ids' = Ids
<1> DEFINE reply == [hostid |-> cgi[h].tell, jobs |-> {}, acks |-> {}, aborts |-> {},
                     unstarted |-> {}]
<1>1. /\ cgi[h].pc = "authenticated" /\ Answer(h, reply) /\ Event /\ hosts' = hosts /\ job' = job
  BY DEF Refuse
<1>2. Ids' = Ids /\ Known(cgi[h].tell) /\ reply \in Replies /\ Known(reply.hostid)
  BY <1>1, IdsGrow DEF ServerTypes, Ids, Replies
<1> HIDE DEF reply
<1>3. /\ ConnTypes'
      /\ cgi' \in [Handlers -> {Idle} \cup Arrived \cup Authenticated]
      /\ \A g \in Handlers : cgi'[g].pc # "idle" => g # h /\ cgi'[g] = cgi[g]
  BY <1>1, <1>2, AnswerTypes
<1>4. events' \in 0..MaxEvents
  BY <1>1, HostRpcAssumption DEF ServerTypes, Event
<1> QED
  BY <1>1, <1>2, <1>3, <1>4 DEF ServerTypes, Known

LEMMA VanishTypes ==
    ASSUME ServerTypes, ConnTypes, NEW h \in Handlers, Vanish(h), UNCHANGED request
    PROVE  ServerTypes' /\ ConnTypes' /\ Ids' = Ids
<1>1. cgi' = [cgi EXCEPT ![h] = Idle] /\ UNCHANGED <<hosts, job, conn, events>>
  BY DEF Vanish
<1>2. /\ cgi' \in [Handlers -> {Idle} \cup Arrived \cup Authenticated]
      /\ \A g \in Handlers : cgi'[g].pc # "idle" => cgi'[g] = cgi[g]
  BY <1>1 DEF ServerTypes, Idle
<1>3. Ids' = Ids
  BY <1>1 DEF Ids
<1> QED
  BY <1>1, <1>2, <1>3 DEF ServerTypes, ConnTypes, Known

-----------------------------------------------------------------------------
(* What is saved of the memory.                                            *)

LEMMA ParsedIsSaved ==
    ASSUME NEW r \in Entries
    PROVE  /\ Parsed(r) \in SavedEntries /\ Parsed(r) \in Entries
           /\ Parsed(r).job = r.job /\ Parsed(r).acked = r.acked
           /\ Parsed(r).phase = IF r.phase = "aborting" THEN "aborted" ELSE r.phase
           /\ r \in SavedEntries => Parsed(r) = r
BY DEF Parsed, Entries, SavedEntries, Phases, Ready

LEMMA SavedAreEntries == SavedEntries \subseteq Entries
BY DEF SavedEntries, Entries

LEMMA SnapshotIsStorable ==
    ASSUME MemoryTypes, ServerTypes
    PROVE  /\ Storable(Snapshot) /\ Snapshot.hostid = hostid /\ Snapshot.seqno = seqno
           /\ DOMAIN Snapshot.results = DOMAIN results
           /\ \A i \in DOMAIN results : Snapshot.results[i] = Parsed(results[i])
<1>1. /\ Snapshot.hostid = hostid /\ Snapshot.seqno = seqno
      /\ Snapshot.results = [i \in DOMAIN results |-> Parsed(results[i])]
  BY DEF Snapshot
<1>2. results \in Seq(Entries) /\ Distinct(results) /\ DOMAIN results = 1..Len(results)
      /\ Len(results) \in Nat
  BY DEF MemoryTypes
<1>3. \A i \in DOMAIN results : results[i] \in Entries
  BY <1>2
<1>4. Snapshot.results \in Seq(SavedEntries)
  <2>1. Snapshot.results \in [1..Len(results) -> SavedEntries]
    BY <1>1, <1>2, <1>3, ParsedIsSaved
  <2> QED
    BY <1>2, <2>1
<1>5. Distinct(Snapshot.results)
  BY <1>1, <1>2, <1>3, ParsedIsSaved DEF Distinct
<1>6. hostid \in Nat /\ seqno \in Nat
  BY IdsGrow, HostRpcAssumption DEF MemoryTypes, ServerTypes
<1>7. Snapshot \in [hostid : Nat, seqno : Nat, results : Seq(SavedEntries)]
  BY <1>1, <1>4, <1>6 DEF Snapshot
<1> QED
  BY <1>1, <1>5, <1>7 DEF Storable, MemoryTypes

(* A state is neither no file nor a torn one.                              *)
LEMMA StatesAreValid ==
    ASSUME ServerTypes, NEW state, Storable(state)
    PROVE  Valid(state) /\ state \in States(Phases \ {"aborting"}) /\ state \in States(Phases)
<1>1. state.hostid \in 0..MaxHosts /\ state.seqno \in Nat /\ state.results \in Seq(SavedEntries)
  BY IdsGrow DEF ServerTypes, Storable
<1>2. \A P : [job : Jobs, phase : P, acked : BOOLEAN, unstarted : BOOLEAN]
              = [job : Jobs, phase : P, acked : BOOLEAN, unstarted : BOOLEAN]
  OBVIOUS
<1> DEFINE SavedRows == [job : Jobs, phase : Phases \ {"aborting"}, acked : BOOLEAN,
                         unstarted : BOOLEAN]
           AllRows == [job : Jobs, phase : Phases, acked : BOOLEAN, unstarted : BOOLEAN]
<1>3. SavedEntries \subseteq SavedRows /\ SavedEntries \subseteq AllRows
  BY DEF SavedEntries
<1> HIDE DEF SavedRows, AllRows
<1>4. state.results \in Seq(SavedRows) /\ state.results \in Seq(AllRows)
  BY <1>1, <1>3
<1>5. state = [hostid |-> state.hostid, seqno |-> state.seqno, results |-> state.results]
  BY DEF Storable
<1>6. /\ state \in [hostid : 0..MaxHosts, seqno : Nat, results : Seq(SavedRows)]
      /\ state \in [hostid : 0..MaxHosts, seqno : Nat, results : Seq(AllRows)]
  BY <1>1, <1>4, <1>5
<1>7. state \in States(Phases \ {"aborting"}) /\ state \in States(Phases)
  BY <1>6 DEF States, SavedRows, AllRows
<1> QED
  BY <1>7, ReportingAssumption DEF Valid

(* What a restart finds: the last state, or the one being saved.           *)
LEMMA RecoveredIsSound ==
    ASSUME ServerTypes, MemoryTypes, FilesSound
    PROVE  /\ Recovered \in {completed, Snapshot}
           /\ Recovered = Snapshot \/ next \in {Missing, Torn}
           /\ Storable(Recovered)
<1>1. Valid(completed) /\ Valid(Snapshot) /\ Storable(completed) /\ Storable(Snapshot)
  BY SnapshotIsStorable, StatesAreValid DEF FilesSound
<1>2. ~Valid(Missing) /\ ~Valid(Torn)
  BY DEF Valid
<1>3. next \in {Missing, Torn, Snapshot} /\ (name # completed => name = Missing /\ prev = completed)
  BY DEF FilesSound
<1> HIDE DEF Snapshot
<1>4. CASE next = Snapshot
  BY <1>1, <1>4 DEF Recovered
<1>5. CASE next \in {Missing, Torn}
  BY <1>1, <1>2, <1>3, <1>5 DEF Recovered
<1> QED
  BY <1>3, <1>4, <1>5

-----------------------------------------------------------------------------
(* Steps of a save.                                                        *)

LEMMA FilesUntouched ==
    ASSUME FilesSound, UNCHANGED fileVars, Ids \subseteq Ids', Polling \/ Snapshot' = Snapshot
    PROVE  FilesSound'
<1>1. UNCHANGED <<next, name, prev, save, attempt, completed>>
  BY DEF fileVars, files
<1>2. Storable(completed)'
  BY <1>1 DEF FilesSound, Storable, Known
<1>3. next' \in {Missing, Torn, Snapshot'}
  BY <1>1 DEF FilesSound, Polling
<1>4. save' \in {"delete", "keep", "install"} => next' = Snapshot'
  BY <1>1 DEF FilesSound, Polling
<1> HIDE DEF Snapshot
<1> QED
  BY <1>1, <1>2, <1>3, <1>4 DEF FilesSound

LEMMA EndPassFiles ==
    ASSUME FilesSound, Polling, NEW d \in BOOLEAN, EndPass(d), Ids \subseteq Ids'
    PROVE  FilesSound'
<1>1. /\ UNCHANGED <<next, name, prev, completed>>
      /\ \/ save' = "open" /\ attempt' = 1
         \/ save' = save /\ attempt' = attempt
  BY DEF EndPass, BeginSave, files
<1>2. next = Missing /\ name = completed /\ save = "no"
  BY DEF FilesSound, Polling
<1>3. Storable(completed)'
  BY <1>1 DEF FilesSound, Storable, Known
<1>4. next' \in {Missing, Torn, Snapshot'} /\ save' \in {"open", "no"}
  BY <1>1, <1>2
<1>5. 1 \in 1..MaxAttempts
  BY StateFileAssumption
<1> HIDE DEF Snapshot
<1> QED
  BY <1>1, <1>2, <1>3, <1>4, <1>5 DEF FilesSound, SavePhases

LEMMA SaveKeepsFiles ==
    ASSUME ServerTypes, MemoryTypes, FilesSound, Save
    PROVE  FilesSound' /\ Snapshot' = Snapshot /\ Ids' = Ids
           /\ \/ completed' = completed
              \/ completed' = Snapshot /\ save' = "no"
<1>1. Snapshot' = Snapshot /\ Ids' = Ids /\ UNCHANGED hosts
  BY DEF Save, Snapshot, Ids, memory
<1>2. Storable(Snapshot) /\ Snapshot # Missing /\ completed # Missing
  BY SnapshotIsStorable, StatesAreValid DEF FilesSound, Valid
<1>3. \A state : Storable(state) => Storable(state)'
  BY <1>1 DEF Storable, Known
<1> HIDE DEF Snapshot
<1>4. CASE OpenNext
  BY <1>1, <1>2, <1>3, <1>4 DEF OpenNext, FilesSound, SavePhases, Storable, Known
<1>5. CASE WriteNext(Snapshot)
  BY <1>1, <1>2, <1>3, <1>5 DEF WriteNext, FilesSound, SavePhases, Storable, Known
<1>6. CASE DeletePrev
  BY <1>1, <1>2, <1>3, <1>6 DEF DeletePrev, FilesSound, SavePhases, Storable, Known
<1>7. CASE KeepOld
  BY <1>1, <1>2, <1>3, <1>7 DEF KeepOld, FilesSound, SavePhases, Storable, Known
<1>8. CASE Install
  <2>1. next = Snapshot
    BY <1>8 DEF Install, FilesSound
  <2>2. Storable(completed)'
    BY <1>1, <1>2, <1>8, <2>1 DEF Install, Storable, Known
  <2>3. 1 \in 1..MaxAttempts
    BY StateFileAssumption
  <2> QED
    BY <1>1, <1>2, <1>8, <2>1, <2>2, <2>3 DEF Install, FilesSound, SavePhases
<1>9. CASE SaveFails
  <2>1. attempt' \in 1..MaxAttempts
    BY <1>9, StateFileAssumption DEF SaveFails, FilesSound
  <2>2. UNCHANGED <<next, name, prev, completed>>
    BY <1>9 DEF SaveFails, files
  <2>3. \/ save' \in {"open", "failed"}
        \/ save = "delete" /\ save' = "keep"
        \/ save = "keep" /\ save' = "install"
    BY <1>9 DEF SaveFails
  <2>4. Storable(completed)'
    BY <1>1, <2>2 DEF FilesSound, Storable, Known
  <2> QED
    BY <1>1, <2>1, <2>2, <2>3, <2>4 DEF FilesSound, SavePhases
<1> QED
  BY <1>1, <1>4, <1>5, <1>6, <1>7, <1>8, <1>9 DEF Save, SaveStep, FilesSound, OpenNext, WriteNext,
     DeletePrev, KeepOld, Install, SaveFails

-----------------------------------------------------------------------------
(* The types are kept: the steps of the client.                            *)

LEMMA RequestTyped ==
    ASSUME MemoryTypes, NEW work \in BOOLEAN
    PROVE  SchedulerRequest(work) \in Requests /\ SchedulerRequest(work).hostid = hostid
<1>1. results \in Seq(Entries) /\ \A i \in DOMAIN results : results[i].job \in Jobs
  <2>1. results \in Seq(Entries) /\ \A i \in DOMAIN results : results[i] \in Entries
    BY DEF MemoryTypes
  <2> QED
    BY <2>1 DEF Entries
<1>2. ReportedIndices \subseteq DOMAIN results /\ OtherIndices \subseteq DOMAIN results
  BY DEF ReportedIndices, ReadyIndices, OtherIndices
<1>3. hostid \in Nat /\ seqno \in Nat
  BY DEF MemoryTypes, Known, Ids
<1> HIDE DEF Ready
<1>4. {[job |-> results[i].job, ok |-> results[i].phase = "done"] : i \in ReportedIndices}
         \in SUBSET [job : Jobs, ok : BOOLEAN]
  <2>1. \A i \in DOMAIN results : (results[i].phase = "done") \in BOOLEAN
    OBVIOUS
  <2>2. \A i \in DOMAIN results :
           [job |-> results[i].job, ok |-> results[i].phase = "done"] \in [job : Jobs, ok : BOOLEAN]
    BY <1>1, <2>1
  <2> QED
    BY <1>2, <2>2
<1>5. {results[i].job : i \in OtherIndices} \in SUBSET Jobs
  BY <1>1, <1>2
<1> QED
  BY <1>3, <1>4, <1>5 DEF SchedulerRequest, Requests

LEMMA StartRpcTypes ==
    ASSUME ServerTypes, NEW req \in Requests, Known(req.hostid), NEW no \in Nat, NEW url \in Nat,
           StartRpc(req, no, url), request' = req
    PROVE  /\ ServerTypes' /\ ConnTypes' /\ Ids' = Ids /\ seqno' = no + 1
           /\ \E h \in Handlers :
                 /\ cgi[h] = Idle
                 /\ cgi' = [cgi EXCEPT ![h] = [pc |-> "arrived", req |-> req]]
                 /\ conn' = [phase |-> "open", via |-> h, urlIndex |-> url]
<1>1. PICK h \in Handlers : /\ cgi[h] = Idle
                            /\ cgi' = [cgi EXCEPT ![h] = [pc |-> "arrived", req |-> req]]
                            /\ conn' = [phase |-> "open", via |-> h, urlIndex |-> url]
  BY DEF StartRpc
<1>2. seqno' = no + 1 /\ UNCHANGED <<hosts, job, events>>
  BY DEF StartRpc
<1>3. [pc |-> "arrived", req |-> req] \in Arrived
  BY DEF Arrived
<1>4. /\ cgi' \in [Handlers -> {Idle} \cup Arrived \cup Authenticated]
      /\ \A g \in Handlers : IF g = h THEN cgi'[g] = [pc |-> "arrived", req |-> req]
                                      ELSE cgi'[g] = cgi[g]
  BY <1>1, <1>3 DEF ServerTypes
<1>5. Ids' = Ids
  BY <1>2 DEF Ids
<1>6. ServerTypes'
  BY <1>2, <1>4, <1>5 DEF ServerTypes, Known
<1>7. ConnTypes'
  BY <1>1, <1>5 DEF ConnTypes, Known
<1> QED
  BY <1>1, <1>2, <1>5, <1>6, <1>7

LEMMA InitOpTypes ==
    ASSUME TypesInv, NEW work \in BOOLEAN, InitOp(work)
    PROVE  /\ TypesInv' /\ Ids' = Ids
           /\ request' = SchedulerRequest(work) /\ request' \in Requests
           /\ seqno' = request'.seqno + 1
           /\ UNCHANGED <<hosts, job, hostid, results, completed>>
           /\ \E h \in Handlers :
                 /\ cgi[h] = Idle
                 /\ cgi' = [cgi EXCEPT ![h] = [pc |-> "arrived", req |-> request']]
                 /\ conn' = [phase |-> "open", via |-> h, urlIndex |-> 0]
<1>1. ServerTypes /\ ConnTypes /\ MemoryTypes /\ FilesSound
  BY DEF TypesInv
<1>2. /\ Polling /\ request' = SchedulerRequest(work) /\ StartRpc(request', request'.seqno, 0)
      /\ EndPass(dirty) /\ UNCHANGED <<hostid, results>>
  BY DEF InitOp
<1>3. request' \in Requests /\ Known(request'.hostid) /\ request'.seqno \in Nat
  BY <1>1, <1>2, RequestTyped DEF MemoryTypes, Requests
<1>4. /\ ServerTypes' /\ ConnTypes' /\ Ids' = Ids /\ seqno' = request'.seqno + 1
      /\ \E h \in Handlers :
            /\ cgi[h] = Idle
            /\ cgi' = [cgi EXCEPT ![h] = [pc |-> "arrived", req |-> request']]
            /\ conn' = [phase |-> "open", via |-> h, urlIndex |-> 0]
  BY <1>1, <1>2, <1>3, StartRpcTypes
<1>5. FilesSound'
  BY <1>1, <1>2, <1>4, EndPassFiles DEF MemoryTypes
<1>6. dirty' = FALSE /\ completed' = completed
  BY <1>2 DEF EndPass
<1>7. MemoryTypes'
  <2>1. Known(hostid)'
    BY <1>1, <1>2, <1>4 DEF MemoryTypes, Known
  <2>2. results' \in Seq(Entries) /\ Distinct(results')
    BY <1>1, <1>2 DEF MemoryTypes
  <2>3. seqno' \in Nat
    BY <1>3, <1>4
  <2> QED
    BY <1>6, <2>1, <2>2, <2>3 DEF MemoryTypes
<1>8. UNCHANGED <<hosts, job>>
  BY <1>2 DEF StartRpc
<1> QED
  BY <1>2, <1>3, <1>4, <1>5, <1>6, <1>7, <1>8 DEF TypesInv

LEMMA NextSchedulerTypes ==
    ASSUME TypesInv, NextScheduler
    PROVE  /\ TypesInv' /\ Ids' = Ids
           /\ seqno' = seqno + 1 /\ conn.phase = "failed"
           /\ UNCHANGED <<hosts, job, hostid, results, completed, request>>
           /\ \E h \in Handlers :
                 /\ cgi[h] = Idle
                 /\ cgi' = [cgi EXCEPT ![h] = [pc |-> "arrived", req |-> request]]
                 /\ conn' = [phase |-> "open", via |-> h, urlIndex |-> conn.urlIndex + 1]
<1>1. ServerTypes /\ ConnTypes /\ MemoryTypes /\ FilesSound
  BY DEF TypesInv
<1>2. /\ Polling /\ conn.phase = "failed" /\ StartRpc(request, seqno, conn.urlIndex + 1)
      /\ EndPass(dirty) /\ UNCHANGED <<hostid, results, request>>
  BY DEF NextScheduler
<1>3. request \in Requests /\ Known(request.hostid) /\ conn.urlIndex + 1 \in Nat /\ seqno \in Nat
  BY <1>1, <1>2, ConnKinds DEF ConnTypes, MemoryTypes
<1>4. /\ ServerTypes' /\ ConnTypes' /\ Ids' = Ids /\ seqno' = seqno + 1
      /\ \E h \in Handlers :
            /\ cgi[h] = Idle
            /\ cgi' = [cgi EXCEPT ![h] = [pc |-> "arrived", req |-> request]]
            /\ conn' = [phase |-> "open", via |-> h, urlIndex |-> conn.urlIndex + 1]
  BY <1>1, <1>2, <1>3, StartRpcTypes
<1>5. FilesSound'
  BY <1>1, <1>2, <1>4, EndPassFiles DEF MemoryTypes
<1>6. dirty' = FALSE /\ completed' = completed
  BY <1>2 DEF EndPass
<1>7. MemoryTypes'
  <2>1. Known(hostid)'
    BY <1>1, <1>2, <1>4 DEF MemoryTypes, Known
  <2>2. results' \in Seq(Entries) /\ Distinct(results')
    BY <1>1, <1>2 DEF MemoryTypes
  <2>3. seqno' \in Nat
    BY <1>3, <1>4
  <2> QED
    BY <1>6, <2>1, <2>2, <2>3 DEF MemoryTypes
<1>8. UNCHANGED <<hosts, job>>
  BY <1>2 DEF StartRpc
<1> QED
  BY <1>2, <1>4, <1>5, <1>6, <1>7, <1>8 DEF TypesInv

LEMMA MemoryKept ==
    ASSUME MemoryTypes, UNCHANGED memory, dirty' \in BOOLEAN, Ids \subseteq Ids'
    PROVE  MemoryTypes' /\ Snapshot' = Snapshot
<1>1. UNCHANGED <<hostid, seqno, results>>
  BY DEF memory
<1>2. Known(hostid)'
  BY <1>1 DEF MemoryTypes, Known
<1>3. results' \in Seq(Entries) /\ Distinct(results') /\ seqno' \in Nat
  BY <1>1 DEF MemoryTypes
<1>4. Snapshot' = Snapshot
  BY <1>1 DEF Snapshot
<1> QED
  BY <1>2, <1>3, <1>4 DEF MemoryTypes

LEMMA ServerKept ==
    ASSUME ServerTypes, UNCHANGED <<hosts, job, cgi>>, UNCHANGED events \/ Event
    PROVE  ServerTypes' /\ Ids' = Ids
<1>1. events' \in 0..MaxEvents
  BY HostRpcAssumption DEF ServerTypes, Event
<1>2. Ids' = Ids
  BY DEF Ids
<1> QED
  BY <1>1, <1>2 DEF ServerTypes, Known

LEMMA ConnClosed ==
    ASSUME conn' = NoConn, request' = Missing
    PROVE  ConnTypes'
BY DEF ConnTypes, NoConn

(* RpcFailed and ReplyFails.                                               *)
LEMMA FailureTypes ==
    ASSUME TypesInv, RpcFailed \/ ReplyFails
    PROVE  /\ TypesInv' /\ Ids' = Ids /\ Snapshot' = Snapshot
           /\ Polling /\ save' = "open" /\ conn' = NoConn
           /\ UNCHANGED <<hosts, job, cgi, memory, hostid, seqno, results, completed>>
<1>1. ServerTypes /\ ConnTypes /\ MemoryTypes /\ FilesSound
  BY DEF TypesInv
<1>2. /\ Polling /\ conn' = NoConn /\ request' = Missing /\ EndPass(TRUE)
      /\ UNCHANGED <<hosts, job, cgi, memory>> /\ (UNCHANGED events \/ Event)
  BY DEF RpcFailed, ReplyFails
<1>3. dirty' = FALSE /\ completed' = completed /\ save' = "open"
  BY <1>2 DEF EndPass, BeginSave
<1>4. ServerTypes' /\ Ids' = Ids
  BY <1>1, <1>2, ServerKept
<1>5. MemoryTypes' /\ Snapshot' = Snapshot
  BY <1>1, <1>2, <1>3, <1>4, MemoryKept
<1>6. FilesSound'
  BY <1>1, <1>2, <1>4, EndPassFiles
<1>7. ConnTypes'
  BY <1>2, ConnClosed
<1>8. UNCHANGED <<hostid, seqno, results>>
  BY <1>2 DEF memory
<1> QED
  BY <1>2, <1>3, <1>4, <1>5, <1>6, <1>7, <1>8 DEF TypesInv

LEMMA HandleReplyTypes ==
    ASSUME TypesInv, HandleReply
    PROVE  /\ TypesInv' /\ Ids' = Ids
           /\ Polling /\ save' = "open" /\ conn.phase = "replied" /\ conn' = NoConn
           /\ conn.reply \in Replies /\ results' = Merged(conn.reply)
           /\ IF conn.reply.hostid # 0 THEN hostid' = conn.reply.hostid /\ seqno' = 0
              ELSE UNCHANGED <<hostid, seqno>>
           /\ UNCHANGED <<hosts, job, cgi, completed>>
<1>1. ServerTypes /\ ConnTypes /\ MemoryTypes /\ FilesSound
  BY DEF TypesInv
<1>2. /\ Polling /\ conn' = NoConn /\ request' = Missing /\ EndPass(TRUE)
      /\ conn.phase = "replied"
      /\ UNCHANGED <<hosts, job, cgi>> /\ (UNCHANGED events \/ Event)
      /\ results' = Merged(conn.reply)
      /\ IF conn.reply.hostid # 0 THEN hostid' = conn.reply.hostid /\ seqno' = 0
         ELSE UNCHANGED <<hostid, seqno>>
  BY DEF HandleReply, Merged
<1>3. dirty' = FALSE /\ completed' = completed /\ save' = "open"
  BY <1>2 DEF EndPass, BeginSave
<1>4. ServerTypes' /\ Ids' = Ids
  BY <1>1, <1>2, ServerKept
<1>5. conn.reply \in Replies /\ Known(conn.reply.hostid)
  BY <1>1, <1>2, ConnKinds DEF ConnTypes
<1>6. results' \in Seq(Entries) /\ Distinct(results')
  BY <1>1, <1>2, <1>5, ReplyMerges DEF MemoryTypes
<1>7. Known(hostid)' /\ seqno' \in Nat
  BY <1>1, <1>2, <1>4, <1>5 DEF MemoryTypes, Known
<1>8. FilesSound'
  BY <1>1, <1>2, <1>4, EndPassFiles
<1>9. ConnTypes'
  BY <1>2, ConnClosed
<1>10. MemoryTypes'
  BY <1>3, <1>6, <1>7 DEF MemoryTypes
<1> QED
  BY <1>2, <1>3, <1>4, <1>5, <1>8, <1>9, <1>10 DEF TypesInv

(* A step in the poll loop that only changes the results.                  *)
LEMMA ResultsChange ==
    ASSUME TypesInv, Polling, results' \in Seq(Entries), Distinct(results'), dirty' \in BOOLEAN,
           UNCHANGED <<hostid, seqno, request, fileVars, hostVars>>
    PROVE  TypesInv' /\ Ids' = Ids
<1>1. ServerTypes /\ ConnTypes /\ MemoryTypes /\ FilesSound
  BY DEF TypesInv
<1>2. UNCHANGED <<hosts, job, cgi, conn, events>>
  BY DEF hostVars
<1>3. ServerTypes' /\ Ids' = Ids
  BY <1>1, <1>2, ServerKept
<1>4. ConnTypes'
  BY <1>1, <1>2, <1>3 DEF ConnTypes, Known
<1>5. FilesSound'
  BY <1>1, <1>3, FilesUntouched
<1>6. Known(hostid)' /\ seqno' \in Nat
  BY <1>1, <1>3 DEF MemoryTypes, Known
<1> QED
  BY <1>3, <1>4, <1>5, <1>6 DEF TypesInv, MemoryTypes

LEMMA GarbageCollectTypes ==
    ASSUME TypesInv, GarbageCollect
    PROVE  TypesInv' /\ Ids' = Ids
<1>1. results \in Seq(Entries) /\ Distinct(results) /\ dirty \in BOOLEAN
  BY DEF TypesInv, MemoryTypes
<1>2. results' \in Seq(Entries) /\ Distinct(results')
  BY <1>1, CollectionKeeps DEF GarbageCollect
<1> QED
  BY <1>1, <1>2, ResultsChange DEF GarbageCollect

LEMMA ScheduleCpusTypes ==
    ASSUME TypesInv, NEW chosen \in SUBSET (DOMAIN results), ScheduleCpus(chosen)
    PROVE  /\ TypesInv' /\ Ids' = Ids /\ DOMAIN results' = DOMAIN results
           /\ \A i \in DOMAIN results :
                 /\ results'[i] \in Entries /\ results'[i].job = results[i].job
                 /\ results'[i].acked = results[i].acked
                 /\ \/ results'[i].phase = results[i].phase
                    \/ results[i].phase = "new" /\ results'[i].phase = "running"
<1>1. results \in Seq(Entries) /\ Distinct(results) /\ dirty \in BOOLEAN
  BY DEF TypesInv, MemoryTypes
<1> DEFINE E(i) == [results[i] EXCEPT !.phase = IF i \in chosen THEN "running" ELSE @,
                                      !.unstarted = results[i].phase = "new"]
<1>2. ASSUME NEW i \in DOMAIN results
      PROVE  /\ E(i) \in Entries /\ E(i).job = results[i].job /\ E(i).acked = results[i].acked
             /\ \/ E(i).phase = results[i].phase
                \/ results[i].phase = "new" /\ E(i).phase = "running"
  <2>1. results[i] \in Entries
    BY <1>1
  <2>2. i \in chosen => results[i].phase = "new"
    BY DEF ScheduleCpus
  <2>3. (results[i].phase = "new") \in BOOLEAN
    OBVIOUS
  <2> QED
    BY <2>1, <2>2, <2>3 DEF Entries, Phases
<1>3. results' = [i \in DOMAIN results |-> E(i)]
  BY DEF ScheduleCpus
<1> HIDE DEF E
<1>4. results' \in Seq(Entries)
  <2>1. DOMAIN results = 1..Len(results) /\ Len(results) \in Nat
    BY <1>1
  <2>2. results' \in [1..Len(results) -> Entries]
    BY <1>2, <1>3, <2>1
  <2> QED
    BY <2>1, <2>2
<1>5. Distinct(results')
  <2>1. \A i, k \in DOMAIN results : results[i].job = results[k].job => i = k
    BY <1>1 DEF Distinct
  <2>2. DOMAIN results' = DOMAIN results
        /\ \A i \in DOMAIN results : results'[i].job = results[i].job
    BY <1>2, <1>3
  <2>3. \A i, k \in DOMAIN results' : results'[i].job = results'[k].job => i = k
    BY <2>1, <2>2
  <2> QED
    BY <2>3 DEF Distinct
<1>6. dirty' \in BOOLEAN
  BY <1>1 DEF ScheduleCpus
<1>7. TypesInv' /\ Ids' = Ids
  BY <1>4, <1>5, <1>6, ResultsChange DEF ScheduleCpus
<1> QED
  BY <1>2, <1>3, <1>7

LEMMA AdvanceTypes ==
    ASSUME TypesInv, NEW i \in DOMAIN results, NEW from \in Phases, NEW to \in Phases,
           Advance(i, from, to)
    PROVE  /\ TypesInv' /\ Ids' = Ids /\ DOMAIN results' = DOMAIN results
           /\ results[i].phase = from
           /\ \A k \in DOMAIN results :
                 /\ results'[k] \in Entries /\ results'[k].job = results[k].job
                 /\ results'[k].acked = results[k].acked
                 /\ results'[k].phase = IF k = i THEN to ELSE results[k].phase
<1>1. results \in Seq(Entries) /\ Distinct(results) /\ dirty \in BOOLEAN
  BY DEF TypesInv, MemoryTypes
<1>2. results' = [results EXCEPT ![i].phase = to]
  BY DEF Advance
<1>3. /\ DOMAIN results' = DOMAIN results
      /\ \A k \in DOMAIN results :
            /\ results'[k] \in Entries /\ results'[k].job = results[k].job
            /\ results'[k].acked = results[k].acked
            /\ results'[k].phase = IF k = i THEN to ELSE results[k].phase
  <2>1. \A k \in DOMAIN results : results[k] \in Entries
    BY <1>1
  <2>2. \A k \in DOMAIN results :
           results'[k] = IF k = i THEN [results[k] EXCEPT !.phase = to] ELSE results[k]
    BY <1>1, <1>2
  <2>3. DOMAIN results' = DOMAIN results
    BY <1>2
  <2> QED
    BY <2>1, <2>2, <2>3 DEF Entries
<1>4. results' \in Seq(Entries)
  <2>1. DOMAIN results = 1..Len(results) /\ Len(results) \in Nat
    BY <1>1
  <2>2. results' \in [1..Len(results) -> Entries]
    BY <1>2, <1>3, <2>1
  <2> QED
    BY <2>1, <2>2
<1>5. Distinct(results')
  <2>1. \A a, b \in DOMAIN results : results[a].job = results[b].job => a = b
    BY <1>1 DEF Distinct
  <2>2. \A a, b \in DOMAIN results' : results'[a].job = results'[b].job => a = b
    BY <2>1, <1>3
  <2> QED
    BY <2>2 DEF Distinct
<1>6. dirty' \in BOOLEAN
  BY DEF Advance
<1>7. TypesInv' /\ Ids' = Ids
  BY <1>4, <1>5, <1>6, ResultsChange DEF Advance
<1> QED
  BY <1>3, <1>7 DEF Advance

LEMMA SaveNowTypes ==
    ASSUME TypesInv, SaveNow
    PROVE  /\ TypesInv' /\ Ids' = Ids /\ Polling /\ save' = "open"
           /\ UNCHANGED <<hosts, job, cgi, conn, request, hostid, seqno, results, completed>>
<1>1. ServerTypes /\ ConnTypes /\ MemoryTypes /\ FilesSound
  BY DEF TypesInv
<1>2. UNCHANGED <<hosts, job, cgi, conn, events, request, hostid, seqno, results>>
      /\ Polling /\ EndPass(TRUE) /\ UNCHANGED memory
  BY DEF SaveNow, memory, hostVars
<1>3. ServerTypes' /\ Ids' = Ids
  BY <1>1, <1>2, ServerKept
<1>4. ConnTypes'
  BY <1>1, <1>2, <1>3 DEF ConnTypes, Known
<1>5. dirty' = FALSE /\ save' = "open" /\ completed' = completed
  BY <1>2 DEF EndPass, BeginSave
<1>6. MemoryTypes'
  BY <1>1, <1>2, <1>3, <1>5, MemoryKept
<1>7. FilesSound'
  BY <1>1, <1>2, <1>3, EndPassFiles
<1> QED
  BY <1>2, <1>3, <1>4, <1>5, <1>6, <1>7 DEF TypesInv

LEMMA BreakTypes ==
    ASSUME TypesInv, Break
    PROVE  /\ TypesInv' /\ Ids' = Ids /\ conn.phase = "open" /\ conn'.phase = "failed"
           /\ UNCHANGED <<hosts, job, cgi, request, hostid, seqno, results, fileVars, completed, save>>
<1>1. ServerTypes /\ ConnTypes /\ MemoryTypes /\ FilesSound
  BY DEF TypesInv
<1>2. /\ conn.phase = "open" /\ conn' = [phase |-> "failed", urlIndex |-> conn.urlIndex] /\ Event
      /\ UNCHANGED <<hosts, job, cgi, request, hostid, seqno, results, dirty, fileVars, memory>>
  BY DEF Break, memory
<1>3. ServerTypes' /\ Ids' = Ids
  BY <1>1, <1>2, ServerKept
<1>4. ConnTypes'
  BY <1>1, <1>2, <1>3, ConnKinds DEF ConnTypes, Known
<1>5. MemoryTypes' /\ Snapshot' = Snapshot
  BY <1>1, <1>2, <1>3, MemoryKept DEF MemoryTypes
<1>6. FilesSound'
  BY <1>1, <1>2, <1>3, <1>5, FilesUntouched
<1>7. UNCHANGED <<completed, save>>
  BY <1>2 DEF fileVars
<1> QED
  BY <1>2, <1>3, <1>4, <1>5, <1>6, <1>7 DEF TypesInv

LEMMA SaveTypes ==
    ASSUME TypesInv, Save
    PROVE  /\ TypesInv' /\ Ids' = Ids /\ Snapshot' = Snapshot /\ ~Polling
           /\ \/ completed' = completed
              \/ completed' = Snapshot /\ save' = "no"
           /\ save' = "no" => completed' = Snapshot
           /\ UNCHANGED <<hosts, job, cgi, conn, request, hostid, seqno, results>>
<1>1. ServerTypes /\ ConnTypes /\ MemoryTypes /\ FilesSound
  BY DEF TypesInv
<1>2. /\ UNCHANGED <<hosts, job, cgi, conn, request, hostid, seqno, results, dirty, memory>>
      /\ (UNCHANGED events \/ Event)
  BY DEF Save, memory
<1>3. ServerTypes' /\ Ids' = Ids
  BY <1>1, <1>2, ServerKept
<1>4. ConnTypes'
  BY <1>1, <1>2, <1>3 DEF ConnTypes, Known
<1>5. MemoryTypes' /\ Snapshot' = Snapshot
  BY <1>1, <1>2, <1>3, MemoryKept DEF MemoryTypes
<1>6. /\ FilesSound'
      /\ \/ completed' = completed
         \/ completed' = Snapshot /\ save' = "no"
  BY <1>1, SaveKeepsFiles
<1>7. ~Polling /\ (save' = "no" => completed' = next /\ save = "install")
  BY DEF Save, SaveStep, OpenNext, WriteNext, DeletePrev, KeepOld, Install, SaveFails, Polling,
         SavePhases
<1>8. save' = "no" => completed' = Snapshot
  BY <1>1, <1>7 DEF FilesSound
<1> QED
  BY <1>2, <1>3, <1>4, <1>5, <1>6, <1>7, <1>8 DEF TypesInv

LEMMA RestartTypes ==
    ASSUME TypesInv, Restart
    PROVE  /\ TypesInv' /\ Ids' = Ids /\ save' = "open" /\ conn' = NoConn
           /\ Recovered \in {completed, Snapshot} /\ Storable(Recovered)
           /\ hostid' = Recovered.hostid /\ seqno' = Recovered.seqno
           /\ results' = Recovered.results
           /\ UNCHANGED <<hosts, job, cgi, completed>>
<1>1. ServerTypes /\ ConnTypes /\ MemoryTypes /\ FilesSound
  BY DEF TypesInv
<1>2. /\ hostid' = Recovered.hostid /\ seqno' = Recovered.seqno /\ results' = Recovered.results
      /\ conn' = NoConn /\ request' = Missing /\ dirty' = FALSE
      /\ save' = "open" /\ attempt' = 1
      /\ UNCHANGED <<next, name, prev, completed, hosts, job, cgi>>
      /\ (UNCHANGED events \/ Event)
  BY DEF Restart, BeginSave, files
<1>3. /\ Recovered \in {completed, Snapshot} /\ Storable(Recovered)
      /\ Recovered = Snapshot \/ next \in {Missing, Torn}
  BY <1>1, RecoveredIsSound
<1>4. ServerTypes' /\ Ids' = Ids
  BY <1>1, <1>2, ServerKept
<1>5. ConnTypes'
  BY <1>2, ConnClosed
<1>6. /\ Recovered.results \in Seq(SavedEntries) /\ Distinct(Recovered.results)
      /\ Recovered.hostid \in Nat /\ Recovered.seqno \in Nat /\ Known(Recovered.hostid)
      /\ Recovered = [hostid |-> Recovered.hostid, seqno |-> Recovered.seqno,
                      results |-> Recovered.results]
  BY <1>3 DEF Storable
<1> DEFINE state == Recovered
<1> HIDE DEF state
<1>7. state.results \in Seq(Entries)
  BY <1>6, SavedAreEntries DEF state
<1>8. MemoryTypes'
  <2>1. Known(hostid)'
    BY <1>2, <1>4, <1>6 DEF Known
  <2>2. results' \in Seq(Entries) /\ Distinct(results') /\ seqno' \in Nat
    BY <1>2, <1>6, <1>7 DEF state
  <2> QED
    BY <1>2, <2>1, <2>2 DEF MemoryTypes
<1>9. Snapshot' = state
  <2>1. Snapshot' = [hostid |-> hostid', seqno |-> seqno',
                     results |-> [i \in DOMAIN results' |-> Parsed(results'[i])]]
    BY DEF Snapshot
  <2>2. results' = state.results /\ state.results \in Seq(SavedEntries)
    BY <1>2, <1>6 DEF state
  <2>3. \A i \in DOMAIN state.results : Parsed(state.results[i]) = state.results[i]
    <3>1. \A i \in DOMAIN state.results : state.results[i] \in SavedEntries
      BY <2>2
    <3> QED
      BY <3>1, ParsedIsSaved, SavedAreEntries
  <2>4. state.results = [i \in DOMAIN state.results |-> state.results[i]]
    BY <2>2
  <2>5. [i \in DOMAIN results' |-> Parsed(results'[i])] = state.results
    BY <2>2, <2>3, <2>4
  <2>6. state = [hostid |-> hostid', seqno |-> seqno', results |-> state.results]
    BY <1>2, <1>6 DEF state
  <2> QED
    BY <2>1, <2>5, <2>6
<1>10. FilesSound'
  <2>1. Storable(completed)'
    BY <1>1, <1>2, <1>4 DEF FilesSound, Storable, Known
  <2>2. next' \in {Missing, Torn, Snapshot'}
    BY <1>1, <1>2, <1>3, <1>9 DEF FilesSound, state
  <2>3. 1 \in 1..MaxAttempts
    BY StateFileAssumption
  <2> QED
    BY <1>1, <1>2, <2>1, <2>2, <2>3 DEF FilesSound, SavePhases
<1> QED
  BY <1>2, <1>3, <1>4, <1>5, <1>8, <1>10 DEF TypesInv

LEMMA CgiTypes ==
    ASSUME TypesInv, NEW h \in Handlers, UNCHANGED <<memory, request, dirty, fileVars>>,
           Handle(h) \/ Vanish(h)
    PROVE  /\ TypesInv' /\ Ids \subseteq Ids' /\ Snapshot' = Snapshot
           /\ UNCHANGED <<hostid, seqno, results, completed, save>>
<1>1. ServerTypes /\ ConnTypes /\ MemoryTypes /\ FilesSound
  BY DEF TypesInv
<1>2. ServerTypes' /\ ConnTypes' /\ Ids \subseteq Ids'
  BY <1>1, AuthenticateTypes, RefuseTypes, ServeTypes, VanishTypes DEF Handle
<1>3. MemoryTypes' /\ Snapshot' = Snapshot
  BY <1>1, <1>2, MemoryKept DEF MemoryTypes
<1>4. FilesSound'
  BY <1>1, <1>2, <1>3, FilesUntouched
<1> QED
  BY <1>2, <1>3, <1>4 DEF TypesInv, memory, fileVars

LEMMA InitTypes == Init => TypesInv
<1> SUFFICES ASSUME Init PROVE TypesInv
  OBVIOUS
<1>1. ServerTypes
  BY HostRpcAssumption DEF Init, HostRpcInit, ServerTypes, JobStates, Idle
<1>2. ConnTypes
  BY DEF Init, HostRpcInit, SchedulerOpInit, ConnTypes, NoConn
<1>3. MemoryTypes
  <2>1. hostid = 0 /\ seqno = 0 /\ results = <<>> /\ dirty = FALSE
    BY DEF Init, SchedulerOpInit
  <2>2. results \in Seq(Entries) /\ DOMAIN results = {}
    BY <2>1
  <2> QED
    BY <2>1, <2>2 DEF MemoryTypes, Known, Distinct
<1>4. Storable(Snapshot)
  BY <1>1, <1>3, SnapshotIsStorable
<1>5. FilesSound
  BY <1>4, StateFileAssumption DEF Init, SchedulerOpInit, FilesInit, FilesSound
<1> QED
  BY <1>1, <1>2, <1>3, <1>5 DEF TypesInv

LEMMA StutterTypes == TypesInv /\ UNCHANGED vars => TypesInv'
<1> SUFFICES ASSUME TypesInv, UNCHANGED vars PROVE TypesInv'
  OBVIOUS
<1>1. UNCHANGED <<hosts, job, cgi, conn, events, request, dirty, memory, fileVars>>
  BY DEF vars, hostVars
<1>2. ServerTypes /\ ConnTypes /\ MemoryTypes /\ FilesSound
  BY DEF TypesInv
<1>3. ServerTypes' /\ Ids' = Ids
  BY <1>1, <1>2, ServerKept
<1>4. ConnTypes'
  BY <1>1, <1>2, <1>3 DEF ConnTypes, Known
<1>5. MemoryTypes' /\ Snapshot' = Snapshot
  BY <1>1, <1>2, <1>3, MemoryKept DEF MemoryTypes
<1>6. FilesSound'
  BY <1>1, <1>2, <1>3, <1>5, FilesUntouched
<1> QED
  BY <1>3, <1>4, <1>5, <1>6 DEF TypesInv

(* The steps that Next consists of.                                        *)
LEMMA NextCases ==
    ASSUME Next
    PROVE  \/ \E work \in BOOLEAN : InitOp(work)
           \/ NextScheduler \/ RpcFailed \/ ReplyFails \/ HandleReply
           \/ GarbageCollect \/ SaveNow \/ Break \/ Save \/ Restart
           \/ \E chosen \in SUBSET (DOMAIN results) : ScheduleCpus(chosen)
           \/ \E i \in DOMAIN results : \/ Advance(i, "running", "done")
                                        \/ Advance(i, "aborting", "aborted")
           \/ \E h \in Handlers : /\ Polling /\ UNCHANGED <<memory, request, dirty, fileVars>>
                                  /\ Handle(h) \/ Vanish(h)
BY DEF Next, ClientStep, CgiStep, FinishTask, AbortedTaskExits

LEMMA NextTypes == TypesInv /\ [Next]_vars => TypesInv'
<1> SUFFICES ASSUME TypesInv, Next PROVE TypesInv'
  BY StutterTypes
<1>1. {"running", "done", "aborting", "aborted"} \subseteq Phases
  BY DEF Phases, Ready
<1> QED
  BY <1>1, NextCases, InitOpTypes, NextSchedulerTypes, FailureTypes, HandleReplyTypes,
     GarbageCollectTypes, SaveNowTypes, BreakTypes, SaveTypes, RestartTypes, ScheduleCpusTypes,
     AdvanceTypes, CgiTypes

(* The files and the memory, and the scheduler's records, hold what they   *)
(* should, in whatever order saves, failures and crashes come.             *)
THEOREM StatesAreSound == Spec => []TypesInv
<1>1. Init => TypesInv
  BY InitTypes
<1>2. TypesInv /\ [Next]_vars => TypesInv'
  BY NextTypes
<1> QED
  BY <1>1, <1>2, PTL DEF Spec

(* Every variable of the client and of the scheduler keeps its type, and   *)
(* no result is twice in the client's list (handle_scheduler_reply()).     *)
THEOREM ReportingTypeCorrect == Spec => []TypeOK
<1>1. TypesInv => TypeOK
  <2> SUFFICES ASSUME TypesInv PROVE TypeOK
    OBVIOUS
  <2>1. ServerTypes /\ ConnTypes /\ MemoryTypes /\ FilesSound
    BY DEF TypesInv
  <2>2. hostid \in 0..MaxHosts /\ seqno \in Nat /\ results \in Seq(Entries)
    BY <2>1, IdsGrow DEF MemoryTypes, ServerTypes
  <2>3. [hostid |-> hostid, seqno |-> seqno, results |-> results] \in States(Phases)
    BY <2>2 DEF States, Entries
  <2>4. Cardinality(Held) = Len(results)
    <3>1. Len(results) \in Nat /\ DOMAIN results = 1..Len(results)
      BY <2>2
    <3>2. \A i, k \in 1..Len(results) : results[i].job = results[k].job => i = k
      BY <2>1, <3>1 DEF MemoryTypes, Distinct
    <3> DEFINE f == [i \in 1..Len(results) |-> results[i].job]
    <3>3. f \in Bijection(1..Len(results), Held)
      BY <3>1, <3>2 DEF Held, Bijection, Injection, Surjection, IsInjective
    <3>4. IsFiniteSet(1..Len(results)) /\ Cardinality(1..Len(results)) = Len(results)
      <4>1. \A n \in Nat : IsFiniteSet(1..n) /\ Cardinality(1..n) = IF 1 > n THEN 0 ELSE n - 1 + 1
        BY FS_Interval
      <4>2. \A n \in Nat : IsFiniteSet(1..n) /\ Cardinality(1..n) = n
        BY <4>1
      <4> QED
        BY <3>1, <4>2
    <3>5. ExistsBijection(1..Len(results), Held)
      BY <3>3 DEF ExistsBijection
    <3> QED
      BY <3>4, <3>5, FS_Bijection
  <2>5. {completed, name, next, prev} \subseteq States(Phases \ {"aborting"}) \cup {Missing, Torn}
    <3>1. /\ completed \in States(Phases \ {"aborting"}) /\ Snapshot \in States(Phases \ {"aborting"})
      BY <2>1, SnapshotIsStorable, StatesAreValid DEF FilesSound
    <3> HIDE DEF Snapshot
    <3> QED
      BY <2>1, <3>1 DEF FilesSound
  <2>6. hosts \in Seq([seqno : Nat, cpid : BOOLEAN]) /\ Len(hosts) <= MaxHosts
        /\ hostid \in Ids \cup {0} /\ dirty \in BOOLEAN /\ events \in 0..MaxEvents
        /\ request \in Requests \cup {Missing}
        /\ save \in SavePhases \cup {"no", "failed"} /\ attempt \in 1..MaxAttempts
    BY <2>1 DEF ServerTypes, MemoryTypes, ConnTypes, FilesSound, Known
  <2>7. job \in [Jobs -> [state : {"UNSENT", "IN_PROGRESS", "SUCCESS", "CLIENT_ERROR",
                                   "NO_REPLY", "CLIENT_DETACHED"}, host : Ids \cup {0}]]
    BY <2>1 DEF ServerTypes, JobStates
  <2>8. \A h \in Handlers : cgi[h] = Idle \/ cgi[h].req \in Requests
    BY <2>1 DEF ServerTypes, Arrived, Authenticated
  <2>9. /\ conn.phase \in {"none", "open", "failed", "replied"}
        /\ conn.phase = "replied" => conn.reply \in Replies
    BY <2>1, ConnKinds
  <2> QED
    BY <2>3, <2>4, <2>5, <2>6, <2>7, <2>8, <2>9 DEF TypeOK
<1> QED
  BY <1>1, StatesAreSound, PTL

(* Whenever the client dies, between whichever two steps of a save and     *)
(* after whichever failures, it restarts from the state last saved or from *)
(* the one being saved (write_state_file(), parse_state_file()).           *)
THEOREM RestartFindsCurrent == Spec => []SavedStateIsCurrent
<1>1. TypesInv => SavedStateIsCurrent
  BY RecoveredIsSound DEF TypesInv, SavedStateIsCurrent
<1> QED
  BY <1>1, StatesAreSound, PTL
=============================================================================
