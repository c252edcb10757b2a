------------------------------ MODULE HostRpc ------------------------------
(***************************************************************************)
(* The scheduler's handling of the requests of one computer                *)
(* (sched/handle_request.cpp, sched/sched_result.cpp,                      *)
(* sched/sched_resend.cpp): whose request is it, which results does it     *)
(* report, which has the computer lost, which should it abort, and is      *)
(* there another one to send?                                              *)
(*                                                                         *)
(* A request is served by a CGI process of its own, in two steps: the host *)
(* record is read without a lock, the rest is done under the lock of the   *)
(* host.  A process whose client has gone away is not told, and may run    *)
(* late: after the computer's next request.                                *)
(***************************************************************************)
EXTENDS Integers, Sequences, FiniteSets

CONSTANTS
    Jobs,                   \* the results that may be sent to this computer
    MaxHosts,               \* bound on host records
    Handlers,               \* CGI processes that may run at a time
    MaxEvents,              \* bound on results sent and things that go wrong, together
    ResendLostResults,      \* config.resend_lost_results
    SendResultAbort         \* config.send_result_abort

ASSUME HostRpcAssumption ==
    /\ Jobs \subseteq Nat /\ IsFiniteSet(Jobs)
    /\ MaxHosts \in Nat \ {0}
    /\ MaxEvents \in Nat
    /\ {ResendLostResults, SendResultAbort} \subseteq BOOLEAN

VARIABLES
    hosts,      \* the host records: rpc_seqno, and whether the CPID is recorded
    job,        \* result records: server_state and outcome in one, hostid
    cgi,        \* the processes
    conn,       \* the client's HTTP operation
    events      \* results sent and things gone wrong so far

hostVars == <<hosts, job, cgi, conn, events>>

Idle == [pc |-> "idle"]
NoConn == [phase |-> "none"]
Ids == DOMAIN hosts

Event == events < MaxEvents /\ events' = events + 1

(* handle_results() does not look at these again: received_time is set.    *)
Received(j) == job[j].state \in {"SUCCESS", "CLIENT_ERROR", "CLIENT_DETACHED"}

(* The reply goes to the client if it still waits for it.                  *)
Answer(h, reply) ==
    /\ cgi' = [cgi EXCEPT ![h] = Idle]
    /\ conn' = IF conn.phase = "open" /\ conn.via = h
               THEN [phase |-> "replied", reply |-> reply] ELSE conn

-----------------------------------------------------------------------------
(* mark_results_over()                                                     *)
MarkResultsOver(id) ==
    [j \in Jobs |-> IF job[j].state = "IN_PROGRESS" /\ job[j].host = id
                    THEN [job[j] EXCEPT !.state = "CLIENT_DETACHED"] ELSE job[j]]

(* An old host record is taken for the sender's.                           *)
ReuseHost(h, id) ==
    /\ job' = IF cgi[h].req.others = {} THEN MarkResultsOver(id) ELSE job
    /\ cgi' = [cgi EXCEPT ![h] = [pc |-> "authenticated", req |-> @.req, host |-> id,
                                  initial |-> hosts[id].seqno, seqno |-> 0, tell |-> id]]
    /\ UNCHANGED hosts

NewHost(h) ==
    /\ Len(hosts) < MaxHosts
    /\ hosts' = Append(hosts, [seqno |-> 0, cpid |-> FALSE])
    /\ cgi' = [cgi EXCEPT ![h] = [pc |-> "authenticated", req |-> @.req, host |-> Len(hosts) + 1,
                                  initial |-> 0, seqno |-> 0, tell |-> Len(hosts) + 1]]
    /\ UNCHANGED job

(* Mutant of SeqnoOk: the next sequence number is required.                *)
SeqnoLater(req) == req.seqno > hosts[req.hostid].seqno \/ req.seqno = 0

SeqnoOk(req) == req.seqno >= hosts[req.hostid].seqno

(* find_host_by_cpid(): the latest record with the CPID.                   *)
WithCpid == {id \in Ids : hosts[id].cpid}
Latest(ids) == CHOOSE id \in ids : \A other \in ids : other <= id

(* authenticate_user().  A computer looks like one of the user's hosts, by *)
(* its name, address and hardware, unless something of that has changed.   *)
Authenticate(h) ==
    /\ cgi[h].pc = "arrived"
    /\ LET req == cgi[h].req
       IN IF req.hostid # 0 /\ SeqnoOk(req)
          THEN /\ cgi' = [cgi EXCEPT ![h] = [pc |-> "authenticated", req |-> req,
                                             host |-> req.hostid, seqno |-> req.seqno,
                                             initial |-> hosts[req.hostid].seqno, tell |-> 0]]
               /\ UNCHANGED <<hosts, job>>
          ELSE IF req.hostid = 0 /\ WithCpid # {} THEN ReuseHost(h, Latest(WithCpid))
          ELSE \/ NewHost(h)
               \/ Ids # {} /\ ReuseHost(h, Latest(Ids))
    /\ UNCHANGED <<conn, events>>

(* lock_sched() fails: another process serves the same host.               *)
Refuse(h) ==
    /\ cgi[h].pc = "authenticated"
    /\ \E other \in Handlers \ {h} : cgi[other].pc = "authenticated" /\ cgi[other].host = cgi[h].host
    /\ Answer(h, [hostid |-> cgi[h].tell, jobs |-> {}, acks |-> {}, aborts |-> {}, unstarted |-> {}])
    /\ Event
    /\ UNCHANGED <<hosts, job>>

-----------------------------------------------------------------------------
(* handle_results(): a result in progress, or given up, is recorded; a     *)
(* report of any other is acknowledged too, and ignored.                   *)
Accepts(j) ==
    /\ job[j].state \in {"IN_PROGRESS", "NO_REPLY", "CLIENT_DETACHED"}
    /\ ~Received(j)

Reported(req) == {r.job : r \in req.reports}

HandleResults(id, req) ==
    [j \in Jobs |-> IF j \in Reported(req) /\ Accepts(j)
                    THEN [state |-> IF [job |-> j, ok |-> TRUE] \in req.reports
                                    THEN "SUCCESS" ELSE "CLIENT_ERROR",
                          host |-> id]
                    ELSE job[j]]

(* A success is reported again: the reply to the first report was lost.    *)
ReportedTwice(req) == \E j \in Reported(req) : job[j].state = "SUCCESS"

(* resend_lost_work(): which results are lost?                             *)
Lost(rows, id, req) ==
    {j \in Jobs : rows[j].state = "IN_PROGRESS" /\ rows[j].host = id /\ j \notin req.others}

MayResend(req) == req.work /\ (ResendLostResults \/ ReportedTwice(req))

(* The ones that cannot be sent again are made to time out, for which the  *)
(* transitioner is left out here.                                          *)
Expire(rows, lost) == [j \in Jobs |-> IF j \in lost THEN [rows[j] EXCEPT !.state = "NO_REPLY"]
                                      ELSE rows[j]]

(* Mutant of Wanted: only what has timed out is looked up.                 *)
TimedOut(rows, id) == {j \in Jobs : rows[j].host = id /\ rows[j].state = "NO_REPLY"}

(* send_result_abort(): what DB_IN_PROGRESS_RESULT enumerates.             *)
Wanted(rows, id) ==
    {j \in Jobs : rows[j].host = id /\ rows[j].state \in {"IN_PROGRESS", "NO_REPLY"}}

Aborts(rows, id, req) == IF SendResultAbort THEN req.others \ Wanted(rows, id) ELSE {}
AbortsIfUnstarted(rows, id, req) ==
    IF SendResultAbort THEN {j \in req.others \cap Wanted(rows, id) : rows[j].state = "NO_REPLY"}
    ELSE {}

(* send_work(): one result from the job cache, or none.                    *)
Send(rows, id, j) == [rows EXCEPT ![j] = [state |-> "IN_PROGRESS", host |-> id]]

(* update_diff_sched(): only what differs from what was read is written.   *)
UpdateHost(h) ==
    hosts' = [hosts EXCEPT ![cgi[h].host] =
                 [seqno |-> IF cgi[h].seqno # cgi[h].initial THEN cgi[h].seqno ELSE @.seqno,
                  cpid |-> TRUE]]

(* process_request() from lock_sched() on.                                 *)
Serve(h) ==
    /\ cgi[h].pc = "authenticated"
    /\ LET req == cgi[h].req
           id == cgi[h].host
           rows == HandleResults(id, req)
           lost == IF MayResend(req) THEN Lost(rows, id, req) ELSE {}
           reply(after, sent) ==
               [hostid |-> cgi[h].tell, jobs |-> sent, acks |-> Reported(req),
                aborts |-> Aborts(after, id, req), unstarted |-> AbortsIfUnstarted(after, id, req)]
       IN \E resent \in SUBSET lost :
             LET after == Expire(rows, lost \ resent)
             IN \/ /\ job' = after
                   /\ Answer(h, reply(after, resent))
                   /\ UNCHANGED events
                \/ /\ req.work /\ resent = {}
                   /\ \E j \in {i \in Jobs : after[i].state = "UNSENT"} :
                        /\ job' = Send(after, id, j)
                        /\ Answer(h, reply(after, {j}))
                   /\ Event
    /\ UpdateHost(h)

(* A request whose client has gone is lost, or its process dies.           *)
Vanish(h) ==
    /\ cgi[h] # Idle /\ ~(conn.phase = "open" /\ conn.via = h)
    /\ cgi' = [cgi EXCEPT ![h] = Idle]
    /\ UNCHANGED <<hosts, job, conn, events>>

Handle(h) == Authenticate(h) \/ Refuse(h) \/ Serve(h)

HostRpcInit ==
    /\ hosts = <<>>
    /\ job = [j \in Jobs |-> [state |-> "UNSENT", host |-> 0]]
    /\ cgi = [h \in Handlers |-> Idle]
    /\ conn = NoConn /\ events = 0
=============================================================================
