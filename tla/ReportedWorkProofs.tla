------------------------ MODULE ReportedWorkProofs ------------------------
(***************************************************************************)
(* Proofs about Reporting, continued: what the client and the scheduler    *)
(* promise to each other.                                                  *)
(***************************************************************************)
EXTENDS ReportingProofs

-----------------------------------------------------------------------------
(* Sequence numbers.                                                       *)

(* No request of this client has a higher number, and none will have a     *)
(* lower one that is waited for.                                           *)
Bound == IF conn.phase # "none" THEN request.seqno ELSE completed.seqno

(* The number in memory may be ahead of the saved one, but only while a    *)
(* request is on its way; what a request says has been saved before.       *)
ClientSeqnos ==
    /\ Polling => hostid = completed.hostid
    /\ Polling /\ conn.phase = "none" => seqno = completed.seqno
    /\ completed.hostid # 0 => hostid = completed.hostid /\ seqno >= completed.seqno
    /\ conn.phase # "none" =>
          /\ hostid = completed.hostid /\ request.hostid = hostid
          /\ request.seqno <= completed.seqno
          /\ hostid = 0 => request.seqno = 0

(* Late processes included, and what they have recorded.                   *)
ServerSeqnos ==
    /\ \A h \in Handlers :
          /\ cgi[h].pc # "idle" =>
                /\ cgi[h].req.hostid \in {0, completed.hostid}
                /\ cgi[h].req.hostid # 0 => cgi[h].req.seqno <= Bound
          /\ cgi[h].pc = "authenticated" /\ cgi[h].seqno # 0 =>
                cgi[h].host = completed.hostid /\ cgi[h].seqno <= Bound
    /\ \A id \in Ids : hosts[id].seqno # 0 => id = completed.hostid /\ hosts[id].seqno <= Bound

(* The process that the client waits for has its request, and tells it a   *)
(* host id only if it has none.                                            *)
OneAwaited ==
    /\ conn.phase = "open" =>
          LET r == cgi[conn.via]
          IN /\ r.pc # "idle" /\ r.req = request
             /\ r.pc = "authenticated" =>
                   IF request.hostid # 0 THEN r.tell = 0 /\ r.host = request.hostid
                                         ELSE r.tell = r.host
    /\ conn.phase = "replied" => ((conn.reply.hostid = 0) = (request.hostid # 0))

SeqnosInv == ClientSeqnos /\ ServerSeqnos /\ OneAwaited

(* Numbers that are compared.                                              *)
LEMMA SeqnoTypes ==
    ASSUME TypesInv
    PROVE  /\ seqno \in Nat /\ completed.seqno \in Nat /\ hostid \in Nat /\ completed.hostid \in Nat
           /\ conn.phase # "none" => request.seqno \in Nat /\ request.hostid \in Nat
           /\ Bound \in Nat
           /\ Ids = 1..Len(hosts) /\ Len(hosts) \in Nat
           /\ \A id \in Ids : hosts[id].seqno \in Nat
           /\ \A h \in Handlers :
                 /\ cgi[h].pc # "idle" => cgi[h].req.seqno \in Nat /\ cgi[h].req.hostid \in Nat
                 /\ cgi[h].pc = "authenticated" =>
                       cgi[h].seqno \in Nat /\ cgi[h].host \in Ids /\ cgi[h].host # 0
           /\ Snapshot.seqno = seqno /\ Snapshot.hostid = hostid
<1>1. ServerTypes /\ ConnTypes /\ MemoryTypes /\ FilesSound
  BY DEF TypesInv
<1>2. /\ Ids = 1..Len(hosts) /\ Len(hosts) \in Nat
      /\ \A id \in Ids : hosts[id].seqno \in Nat
  BY <1>1, IdsGrow DEF ServerTypes
<1>3. seqno \in Nat /\ hostid \in Nat
  BY <1>1, <1>2 DEF MemoryTypes, Known
<1>4. completed.seqno \in Nat /\ completed.hostid \in Nat
  BY <1>1 DEF FilesSound, Storable
<1>5. conn.phase # "none" => request.seqno \in Nat /\ request.hostid \in Nat
  BY <1>1 DEF ConnTypes, Requests
<1>6. ASSUME NEW h \in Handlers
      PROVE  /\ cgi[h].pc # "idle" => cgi[h].req.seqno \in Nat /\ cgi[h].req.hostid \in Nat
             /\ cgi[h].pc = "authenticated" =>
                   cgi[h].seqno \in Nat /\ cgi[h].host \in Ids /\ cgi[h].host # 0
  <2>1. cgi[h].pc # "idle" => cgi[h].req \in Requests
    BY <1>1, ProcessKinds DEF Arrived, Authenticated
  <2>2. cgi[h].pc = "authenticated" => cgi[h].seqno \in Nat /\ cgi[h].host \in Ids
    BY <1>1, ProcessKinds DEF Authenticated, ServerTypes
  <2> QED
    BY <1>2, <2>1, <2>2 DEF Requests
<1> QED
  BY <1>2, <1>3, <1>4, <1>5, <1>6 DEF Bound, Snapshot

-----------------------------------------------------------------------------
(* Steps of the client.                                                    *)

LEMMA RequestSeqnos ==
    ASSUME TypesInv, SeqnosInv, NEW work \in BOOLEAN, InitOp(work)
    PROVE  SeqnosInv'
<1>1. Polling /\ conn.phase = "none"
  BY DEF InitOp
<1>2. hostid = completed.hostid /\ seqno = completed.seqno /\ Bound = completed.seqno
  BY <1>1 DEF SeqnosInv, ClientSeqnos, Bound
<1>3. /\ TypesInv' /\ Ids' = Ids
      /\ request' = SchedulerRequest(work) /\ request' \in Requests
      /\ seqno' = request'.seqno + 1
      /\ UNCHANGED <<hosts, job, hostid, results, completed>>
  BY InitOpTypes
<1>4. PICK h \in Handlers :
         /\ cgi[h] = Idle
         /\ cgi' = [cgi EXCEPT ![h] = [pc |-> "arrived", req |-> request']]
         /\ conn' = [phase |-> "open", via |-> h, urlIndex |-> 0]
  BY InitOpTypes
<1>5. /\ request'.hostid = hostid
      /\ request'.seqno = IF hostid = 0 THEN 0 ELSE completed.seqno
  BY <1>2, <1>3 DEF SchedulerRequest
<1>6. Bound' = request'.seqno
  BY <1>4 DEF Bound
<1>7. /\ cgi'[h] = [pc |-> "arrived", req |-> request']
      /\ \A g \in Handlers : g # h => cgi'[g] = cgi[g]
  BY <1>4 DEF TypesInv, ServerTypes
<1> HIDE DEF Bound
<1>8. ClientSeqnos'
  BY <1>2, <1>3, <1>4, <1>5, SeqnoTypes DEF ClientSeqnos
<1>9. ServerSeqnos'
  BY <1>2, <1>3, <1>5, <1>6, <1>7, SeqnoTypes DEF ServerSeqnos, SeqnosInv
<1>10. OneAwaited'
  BY <1>4, <1>7 DEF OneAwaited
<1> QED
  BY <1>8, <1>9, <1>10 DEF SeqnosInv

LEMMA RetrySeqnos ==
    ASSUME TypesInv, SeqnosInv, NextScheduler
    PROVE  SeqnosInv'
<1>1. /\ TypesInv' /\ Ids' = Ids
      /\ seqno' = seqno + 1 /\ conn.phase = "failed"
      /\ UNCHANGED <<hosts, job, hostid, results, completed, request>>
  BY NextSchedulerTypes
<1>2. PICK h \in Handlers :
         /\ cgi[h] = Idle
         /\ cgi' = [cgi EXCEPT ![h] = [pc |-> "arrived", req |-> request]]
         /\ conn' = [phase |-> "open", via |-> h, urlIndex |-> conn.urlIndex + 1]
  BY NextSchedulerTypes
<1>3. Bound' = request.seqno /\ Bound = request.seqno
  BY <1>1, <1>2 DEF Bound
<1>4. /\ cgi'[h] = [pc |-> "arrived", req |-> request]
      /\ \A g \in Handlers : g # h => cgi'[g] = cgi[g]
  BY <1>2 DEF TypesInv, ServerTypes
<1>5. /\ hostid = completed.hostid /\ request.hostid = hostid
      /\ request.seqno <= completed.seqno /\ (hostid = 0 => request.seqno = 0)
      /\ (completed.hostid # 0 => seqno >= completed.seqno)
  BY <1>1 DEF SeqnosInv, ClientSeqnos
<1> HIDE DEF Bound
<1>6. ClientSeqnos'
  BY <1>1, <1>2, <1>5, SeqnoTypes DEF ClientSeqnos
<1>7. ServerSeqnos'
  BY <1>1, <1>3, <1>4, <1>5, SeqnoTypes DEF ServerSeqnos, SeqnosInv
<1>8. OneAwaited'
  BY <1>1, <1>2, <1>4 DEF OneAwaited
<1> QED
  BY <1>6, <1>7, <1>8 DEF SeqnosInv

(* When the client no longer waits, what it has saved bounds the requests. *)
LEMMA ClosedSeqnos ==
    ASSUME TypesInv, SeqnosInv, conn' = NoConn, save' = "open", UNCHANGED <<hosts, cgi, completed>>,
           completed.hostid # 0 => hostid' = completed.hostid /\ seqno' >= completed.seqno
    PROVE  SeqnosInv'
<1>1. conn'.phase = "none" /\ ~Polling'
  BY DEF NoConn, Polling
<1>2. Bound' = completed.seqno /\ Bound <= completed.seqno
  BY <1>1, SeqnoTypes DEF Bound, SeqnosInv, ClientSeqnos
<1>3. ClientSeqnos'
  BY <1>1 DEF ClientSeqnos
<1>4. Ids' = Ids
  BY DEF Ids
<1>5. Bound \in Nat /\ completed.seqno \in Nat
  BY SeqnoTypes
<1> HIDE DEF Bound
<1>6. ServerSeqnos'
  BY <1>2, <1>4, <1>5, SeqnoTypes DEF ServerSeqnos, SeqnosInv
<1>7. OneAwaited'
  BY <1>1 DEF OneAwaited
<1> QED
  BY <1>3, <1>6, <1>7 DEF SeqnosInv

LEMMA ReplySeqnos ==
    ASSUME TypesInv, SeqnosInv, HandleReply
    PROVE  SeqnosInv'
<1>1. /\ save' = "open" /\ conn.phase = "replied" /\ conn' = NoConn
      /\ IF conn.reply.hostid # 0 THEN hostid' = conn.reply.hostid /\ seqno' = 0
         ELSE UNCHANGED <<hostid, seqno>>
      /\ UNCHANGED <<hosts, job, cgi, completed>>
  BY HandleReplyTypes
<1>2. completed.hostid # 0 => conn.reply.hostid = 0
  BY <1>1 DEF SeqnosInv, ClientSeqnos, OneAwaited
<1>3. completed.hostid # 0 => hostid' = completed.hostid /\ seqno' >= completed.seqno
  BY <1>1, <1>2 DEF SeqnosInv, ClientSeqnos
<1> QED
  BY <1>1, <1>3, ClosedSeqnos

LEMMA FailureSeqnos ==
    ASSUME TypesInv, SeqnosInv, RpcFailed \/ ReplyFails
    PROVE  SeqnosInv'
<1>1. /\ save' = "open" /\ conn' = NoConn
      /\ UNCHANGED <<hosts, job, cgi, hostid, seqno, completed>>
  BY FailureTypes
<1>2. completed.hostid # 0 => hostid' = completed.hostid /\ seqno' >= completed.seqno
  BY <1>1 DEF SeqnosInv, ClientSeqnos
<1> QED
  BY <1>1, <1>2, ClosedSeqnos

LEMMA RestartSeqnos ==
    ASSUME TypesInv, SeqnosInv, Restart
    PROVE  SeqnosInv'
<1>1. /\ save' = "open" /\ conn' = NoConn
      /\ Recovered \in {completed, Snapshot}
      /\ hostid' = Recovered.hostid /\ seqno' = Recovered.seqno
      /\ UNCHANGED <<hosts, job, cgi, completed>>
  BY RestartTypes
<1>2. completed.hostid # 0 => hostid = completed.hostid /\ seqno >= completed.seqno
  BY DEF SeqnosInv, ClientSeqnos
<1>3. /\ Snapshot.seqno = seqno /\ Snapshot.hostid = hostid
      /\ completed.seqno >= completed.seqno
  BY SeqnoTypes
<1> HIDE DEF Snapshot
<1>4. completed.hostid # 0 => hostid' = completed.hostid /\ seqno' >= completed.seqno
  BY <1>1, <1>2, <1>3
<1> QED
  BY <1>1, <1>4, ClosedSeqnos

(* Steps that only concern results, or the save of what is in memory.      *)
LEMMA LocalSeqnos ==
    ASSUME TypesInv, SeqnosInv, UNCHANGED <<hosts, cgi, conn, request, hostid, seqno, completed>>,
           save' = save \/ save' = "open"
    PROVE  SeqnosInv'
<1>1. Ids' = Ids /\ Bound' = Bound
  BY DEF Ids, Bound
<1>2. Polling' => Polling
  BY DEF Polling
<1>3. ClientSeqnos'
  BY <1>2 DEF ClientSeqnos, SeqnosInv
<1> HIDE DEF Bound
<1>4. ServerSeqnos'
  BY <1>1 DEF ServerSeqnos, SeqnosInv
<1>5. OneAwaited'
  BY DEF OneAwaited, SeqnosInv
<1> QED
  BY <1>3, <1>4, <1>5 DEF SeqnosInv

LEMMA BreakSeqnos ==
    ASSUME TypesInv, SeqnosInv, Break
    PROVE  SeqnosInv'
<1>1. /\ conn.phase = "open" /\ conn'.phase = "failed"
      /\ UNCHANGED <<hosts, cgi, request, hostid, seqno, completed, save>>
  BY BreakTypes
<1>2. Ids' = Ids /\ Bound' = Bound
  BY <1>1 DEF Ids, Bound
<1>3. ClientSeqnos'
  BY <1>1 DEF ClientSeqnos, SeqnosInv, Polling
<1> HIDE DEF Bound
<1>4. ServerSeqnos'
  BY <1>1, <1>2 DEF ServerSeqnos, SeqnosInv
<1>5. OneAwaited'
  BY <1>1 DEF OneAwaited
<1> QED
  BY <1>3, <1>4, <1>5 DEF SeqnosInv

(* A new host id is saved before it is used: until then no process has it. *)
LEMMA SaveSeqnos ==
    ASSUME TypesInv, SeqnosInv, Save
    PROVE  SeqnosInv'
<1>1. /\ TypesInv' /\ Ids' = Ids /\ ~Polling
      /\ \/ completed' = completed
         \/ completed' = Snapshot /\ save' = "no"
      /\ save' = "no" => completed' = Snapshot
      /\ UNCHANGED <<hosts, job, cgi, conn, request, hostid, seqno, results>>
  BY SaveTypes
<1>2. Snapshot.seqno = seqno /\ Snapshot.hostid = hostid
  BY SeqnoTypes
<1> HIDE DEF Snapshot
<1>3. CASE completed' = Snapshot
  <2>1. completed'.seqno = seqno /\ completed'.hostid = hostid
    BY <1>2, <1>3
  <2>2. conn.phase # "none" => request.seqno <= seqno
    BY SeqnoTypes DEF SeqnosInv, ClientSeqnos
  <2>3. ClientSeqnos'
    BY <1>1, <2>1, <2>2, SeqnoTypes DEF SeqnosInv, ClientSeqnos
  <2>4. completed.hostid # 0 => completed'.hostid = completed.hostid /\ Bound <= Bound'
    BY <1>1, <2>1, SeqnoTypes DEF SeqnosInv, ClientSeqnos, Bound
  <2>5. Bound' \in Nat
    BY <1>1, SeqnoTypes DEF Bound
  <2> HIDE DEF Bound
  <2>6. CASE completed.hostid # 0
    <3>1. ServerSeqnos'
      BY <1>1, <2>4, <2>5, <2>6, SeqnoTypes DEF SeqnosInv, ServerSeqnos
    <3> QED
      BY <1>1, <2>3, <3>1 DEF SeqnosInv, OneAwaited
  <2>7. CASE completed.hostid = 0
    <3>1. \A h \in Handlers : /\ cgi[h].pc # "idle" => cgi[h].req.hostid = 0
                              /\ cgi[h].pc = "authenticated" => cgi[h].seqno = 0
      BY <2>7, SeqnoTypes DEF SeqnosInv, ServerSeqnos
    <3>2. \A id \in Ids : hosts[id].seqno = 0
      BY <2>7, SeqnoTypes DEF SeqnosInv, ServerSeqnos
    <3>3. ServerSeqnos'
      BY <1>1, <3>1, <3>2 DEF ServerSeqnos
    <3> QED
      BY <1>1, <2>3, <3>3 DEF SeqnosInv, OneAwaited
  <2> QED
    BY <2>6, <2>7
<1>4. CASE completed' = completed /\ save' # "no"
  <2>1. Bound' = Bound /\ ~Polling'
    BY <1>1, <1>4 DEF Bound, Polling
  <2>2. ClientSeqnos'
    BY <1>1, <1>4, <2>1 DEF ClientSeqnos, SeqnosInv
  <2> HIDE DEF Bound
  <2> QED
    BY <1>1, <1>4, <2>1, <2>2 DEF SeqnosInv, ServerSeqnos, OneAwaited
<1> QED
  BY <1>1, <1>3, <1>4

-----------------------------------------------------------------------------
(* Steps of a process.                                                     *)

LEMMA AuthenticateSeqnos ==
    ASSUME TypesInv, SeqnosInv, NEW h \in Handlers, Authenticate(h),
           UNCHANGED <<request, hostid, seqno, results, completed, save>>
    PROVE  SeqnosInv'
<1>1. ServerTypes /\ ConnTypes
  BY DEF TypesInv
<1>2. cgi[h].pc = "arrived" /\ conn' = conn
  BY DEF Authenticate
<1>3. /\ ServerTypes' /\ Ids \subseteq Ids'
      /\ cgi \in [Handlers -> {Idle} \cup Arrived \cup Authenticated]
  BY <1>1, AuthenticateTypes DEF ServerTypes
<1>4. /\ cgi[h].req.hostid \in {0, completed.hostid}
      /\ cgi[h].req.hostid # 0 => cgi[h].req.seqno <= Bound
  BY <1>2 DEF SeqnosInv, ServerSeqnos
<1>5. ClientSeqnos' /\ Bound' = Bound
  BY <1>2 DEF SeqnosInv, ClientSeqnos, Polling, Bound
<1>6. cgi[h].req.hostid # 0 => cgi[h].req.hostid \in Ids
  BY <1>1, <1>2 DEF ServerTypes, Known
<1>7. conn.phase = "open" /\ conn.via = h => cgi[h].req = request
  BY DEF SeqnosInv, OneAwaited
<1>8. ASSUME NEW p, cgi' = [cgi EXCEPT ![h] = p], p.pc = "authenticated", p.req = cgi[h].req,
             p.seqno # 0 => p.host = completed.hostid /\ p.seqno <= Bound,
             IF cgi[h].req.hostid # 0
             THEN (conn.phase = "open" /\ conn.via = h => p.tell = 0 /\ p.host = cgi[h].req.hostid)
             ELSE p.tell = p.host,
             \A id \in Ids' : IF id \in Ids THEN hosts'[id].seqno = hosts[id].seqno
                              ELSE hosts'[id].seqno = 0
      PROVE  SeqnosInv'
  <2>1. cgi'[h] = p /\ \A g \in Handlers : g # h => cgi'[g] = cgi[g]
    BY <1>3, <1>8
  <2> HIDE DEF Bound
  <2>2. ServerSeqnos'
    BY <1>4, <1>5, <1>8, <2>1 DEF ServerSeqnos, SeqnosInv
  <2>3. OneAwaited'
    BY <1>2, <1>7, <1>8, <2>1, ConnKinds, <1>1 DEF OneAwaited, SeqnosInv
  <2> QED
    BY <1>5, <2>2, <2>3 DEF SeqnosInv
<1>9. CASE /\ cgi[h].req.hostid # 0 /\ SeqnoOk(cgi[h].req) /\ UNCHANGED <<hosts, job>>
           /\ cgi' = [cgi EXCEPT ![h] = [pc |-> "authenticated", req |-> cgi[h].req,
                                         host |-> cgi[h].req.hostid, seqno |-> cgi[h].req.seqno,
                                         initial |-> hosts[cgi[h].req.hostid].seqno, tell |-> 0]]
  <2> DEFINE p == [pc |-> "authenticated", req |-> cgi[h].req,
                   host |-> cgi[h].req.hostid, seqno |-> cgi[h].req.seqno,
                   initial |-> hosts[cgi[h].req.hostid].seqno, tell |-> 0]
  <2>1. p.seqno # 0 => p.host = completed.hostid /\ p.seqno <= Bound
    BY <1>4, <1>9
  <2>2. Ids' = Ids
    BY <1>9 DEF Ids
  <2> QED
    BY <1>8, <1>9, <2>1, <2>2
(* The one that is waited for is good: no later number has been recorded.  *)
<1>10. CASE ~(cgi[h].req.hostid # 0 /\ SeqnoOk(cgi[h].req))
  <2>1. ~(conn.phase = "open" /\ conn.via = h) \/ cgi[h].req.hostid = 0
    <3> SUFFICES ASSUME conn.phase = "open", conn.via = h, cgi[h].req.hostid # 0
                 PROVE  FALSE
      OBVIOUS
    <3>1. cgi[h].req = request /\ Bound = request.seqno
      BY <1>7 DEF Bound
    <3>2. hosts[request.hostid].seqno <= request.seqno
      BY <1>6, <3>1, SeqnoTypes DEF SeqnosInv, ServerSeqnos
    <3>3. request.seqno >= hosts[request.hostid].seqno
      BY <1>6, <3>1, <3>2, SeqnoTypes
    <3> QED
      BY <1>10, <3>1, <3>3 DEF SeqnoOk
  <2>2. ASSUME NEW id \in Ids, ReuseHost(h, id)
        PROVE  SeqnosInv'
    <3> DEFINE p == [pc |-> "authenticated", req |-> cgi[h].req, host |-> id,
                     initial |-> hosts[id].seqno, seqno |-> 0, tell |-> id]
    <3>1. cgi' = [cgi EXCEPT ![h] = p] /\ hosts' = hosts /\ Ids' = Ids
      BY <2>2 DEF ReuseHost, Ids
    <3> QED
      BY <1>8, <2>1, <3>1
  <2>3. CASE NewHost(h)
    <3> DEFINE p == [pc |-> "authenticated", req |-> cgi[h].req, host |-> Len(hosts) + 1,
                     initial |-> 0, seqno |-> 0, tell |-> Len(hosts) + 1]
    <3>1. cgi' = [cgi EXCEPT ![h] = p] /\ hosts' = Append(hosts, [seqno |-> 0, cpid |-> FALSE])
      BY <2>3 DEF NewHost
    <3>2. \A id \in Ids' : IF id \in Ids THEN hosts'[id].seqno = hosts[id].seqno
                           ELSE hosts'[id].seqno = 0
      <4>1. \A id \in Ids' : IF id \in Ids THEN hosts'[id] = hosts[id]
                             ELSE hosts'[id] = [seqno |-> 0, cpid |-> FALSE]
        BY <1>1, <3>1 DEF ServerTypes, Ids
      <4> QED
        BY <4>1
    <3> QED
      BY <1>8, <2>1, <3>1, <3>2
  <2>4. WithCpid \in SUBSET Ids
    BY DEF WithCpid
  <2> QED
    BY <1>1, <1>10, <2>2, <2>3, <2>4, LatestIsIn DEF Authenticate, ServerTypes
<1> QED
  BY <1>9, <1>10 DEF Authenticate

(* A process ends: with an answer, or without one if nobody waits for it.  *)
LEMMA EndOfProcessSeqnos ==
    ASSUME TypesInv, SeqnosInv, NEW h \in Handlers,
           UNCHANGED <<request, hostid, seqno, results, completed, save>>,
           cgi' = [cgi EXCEPT ![h] = Idle], Ids' = Ids, cgi[h].pc # "idle",
           hosts' = hosts \/ (UpdateHost(h) /\ cgi[h].pc = "authenticated"),
           \/ conn.phase = "open" /\ conn.via = h /\ conn'.phase = "replied"
                 /\ conn'.reply.hostid = cgi[h].tell /\ cgi[h].pc = "authenticated"
           \/ ~(conn.phase = "open" /\ conn.via = h) /\ conn' = conn
    PROVE  SeqnosInv'
<1>1. \A g \in Handlers : cgi'[g].pc # "idle" => g # h /\ cgi'[g] = cgi[g]
  BY DEF TypesInv, ServerTypes, Idle
<1>2. ClientSeqnos' /\ Bound' = Bound
  BY DEF SeqnosInv, ClientSeqnos, Polling, Bound
<1> HIDE DEF Bound
<1>3. \A id \in Ids : hosts'[id].seqno # 0 => id = completed.hostid /\ hosts'[id].seqno <= Bound
  <2>1. CASE hosts' = hosts
    BY <2>1 DEF SeqnosInv, ServerSeqnos
  <2>2. CASE UpdateHost(h) /\ cgi[h].pc = "authenticated"
    <3>1. \A id \in Ids : hosts'[id].seqno \in {hosts[id].seqno}
             \cup (IF id = cgi[h].host THEN {cgi[h].seqno} ELSE {})
      BY <2>2, UpdateHostTypes DEF TypesInv
    <3> QED
      BY <2>2, <3>1 DEF SeqnosInv, ServerSeqnos
  <2> QED
    BY <2>1, <2>2
<1>4. ServerSeqnos'
  BY <1>1, <1>2, <1>3 DEF SeqnosInv, ServerSeqnos
<1>5. OneAwaited'
  <2>1. CASE /\ conn.phase = "open" /\ conn.via = h /\ conn'.phase = "replied"
             /\ conn'.reply.hostid = cgi[h].tell /\ cgi[h].pc = "authenticated"
    <3>1. IF request.hostid # 0 THEN cgi[h].tell = 0 ELSE cgi[h].tell = cgi[h].host
      BY <2>1 DEF SeqnosInv, OneAwaited
    <3>2. cgi[h].host # 0
      BY <2>1, SeqnoTypes
    <3> QED
      BY <2>1, <3>1, <3>2 DEF OneAwaited
  <2>2. CASE ~(conn.phase = "open" /\ conn.via = h) /\ conn' = conn
    <3>1. conn.phase = "open" => conn.via \in Handlers /\ cgi'[conn.via] = cgi[conn.via]
      BY <2>2, ConnKinds DEF TypesInv, ServerTypes
    <3> QED
      BY <2>2, <3>1 DEF SeqnosInv, OneAwaited
  <2> QED
    BY <2>1, <2>2
<1> QED
  BY <1>2, <1>4, <1>5 DEF SeqnosInv

LEMMA ProcessSeqnos ==
    ASSUME TypesInv, SeqnosInv, NEW h \in Handlers, Handle(h) \/ Vanish(h),
           UNCHANGED <<memory, request, dirty, fileVars>>
    PROVE  SeqnosInv'
<1>1. ServerTypes /\ ConnTypes
  BY DEF TypesInv
<1>2. UNCHANGED <<request, hostid, seqno, results, completed, save>>
  BY DEF memory, fileVars
<1>3. CASE Authenticate(h)
  BY <1>2, <1>3, AuthenticateSeqnos
<1>4. ASSUME NEW reply, reply.hostid = cgi[h].tell, Answer(h, reply), cgi[h].pc = "authenticated"
      PROVE  \/ conn.phase = "open" /\ conn.via = h /\ conn'.phase = "replied"
                   /\ conn'.reply.hostid = cgi[h].tell /\ cgi[h].pc = "authenticated"
             \/ ~(conn.phase = "open" /\ conn.via = h) /\ conn' = conn
  BY <1>4 DEF Answer
<1>5. CASE Refuse(h)
  <2> DEFINE reply == [hostid |-> cgi[h].tell, jobs |-> {}, acks |-> {}, aborts |-> {},
                       unstarted |-> {}]
  <2>1. cgi[h].pc = "authenticated" /\ Answer(h, reply) /\ hosts' = hosts /\ Ids' = Ids
    BY <1>5 DEF Refuse, Ids
  <2>2. cgi' = [cgi EXCEPT ![h] = Idle] /\ reply.hostid = cgi[h].tell
    BY <2>1 DEF Answer
  <2> HIDE DEF reply
  <2> QED
    BY <1>2, <1>4, <2>1, <2>2, EndOfProcessSeqnos
<1>6. CASE Serve(h)
  <2>1. cgi[h].pc = "authenticated" /\ UpdateHost(h)
    BY <1>6, ServeCases
  <2>2. PICK after, sent : Answer(h, AnswerTo(h, after, sent))
    BY <1>6, ServeCases
  <2>3. cgi' = [cgi EXCEPT ![h] = Idle] /\ AnswerTo(h, after, sent).hostid = cgi[h].tell
    BY <2>2 DEF Answer, AnswerTo
  <2>5. \/ conn.phase = "open" /\ conn.via = h /\ conn'.phase = "replied"
              /\ conn'.reply.hostid = cgi[h].tell /\ cgi[h].pc = "authenticated"
        \/ ~(conn.phase = "open" /\ conn.via = h) /\ conn' = conn
    BY <1>4, <2>1, <2>2, <2>3
  <2>4. Ids' = Ids
    BY <1>1, <2>1, UpdateHostTypes
  <2> QED
    BY <1>2, <2>1, <2>3, <2>4, <2>5, EndOfProcessSeqnos
<1>7. CASE Vanish(h)
  <2>1. /\ cgi[h] # Idle /\ ~(conn.phase = "open" /\ conn.via = h)
        /\ cgi' = [cgi EXCEPT ![h] = Idle] /\ UNCHANGED <<hosts, job, conn, events>>
    BY <1>7 DEF Vanish
  <2>2. Ids' = Ids /\ cgi[h].pc # "idle"
    BY <1>1, <2>1, ProcessKinds DEF Ids
  <2> QED
    BY <1>2, <2>1, <2>2, EndOfProcessSeqnos
<1> QED
  BY <1>3, <1>5, <1>6, <1>7 DEF Handle

-----------------------------------------------------------------------------
LEMMA InitSeqnos == Init => SeqnosInv
BY DEF Init, HostRpcInit, SchedulerOpInit, FilesInit, Snapshot, SeqnosInv, ClientSeqnos,
       ServerSeqnos, OneAwaited, Bound, NoConn, Idle, Ids

LEMMA StutterSeqnos == SeqnosInv /\ UNCHANGED vars => SeqnosInv'
<1> SUFFICES ASSUME SeqnosInv, UNCHANGED vars PROVE SeqnosInv'
  OBVIOUS
<1>1. UNCHANGED <<hosts, cgi, conn, request, hostid, seqno, completed, save>>
  BY DEF vars, memory, fileVars, hostVars
<1>2. Ids' = Ids /\ Bound' = Bound
  BY <1>1 DEF Ids, Bound
<1> HIDE DEF Bound
<1> QED
  BY <1>1, <1>2 DEF SeqnosInv, ClientSeqnos, ServerSeqnos, OneAwaited, Polling

LEMMA NextSeqnos == TypesInv /\ SeqnosInv /\ [Next]_vars => SeqnosInv'
<1> SUFFICES ASSUME TypesInv, SeqnosInv, Next PROVE SeqnosInv'
  BY StutterSeqnos
<1>1. CASE GarbageCollect
  BY <1>1, LocalSeqnos DEF GarbageCollect, fileVars, hostVars
<1>2. CASE SaveNow
  BY <1>2, SaveNowTypes, LocalSeqnos
<1>3. ASSUME NEW chosen \in SUBSET (DOMAIN results), ScheduleCpus(chosen)
      PROVE  SeqnosInv'
  BY <1>3, LocalSeqnos DEF ScheduleCpus, fileVars, hostVars
<1>4. ASSUME NEW i \in DOMAIN results, NEW from, NEW to, Advance(i, from, to)
      PROVE  SeqnosInv'
  BY <1>4, LocalSeqnos DEF Advance, fileVars, hostVars
<1> QED
  BY <1>1, <1>2, <1>3, <1>4, NextCases, RequestSeqnos, RetrySeqnos, FailureSeqnos, ReplySeqnos,
     BreakSeqnos, SaveSeqnos, RestartSeqnos, ProcessSeqnos

THEOREM SeqnosAreSound == Spec => [](TypesInv /\ SeqnosInv)
<1>1. Init => TypesInv /\ SeqnosInv
  BY InitTypes, InitSeqnos
<1>2. (TypesInv /\ SeqnosInv) /\ [Next]_vars => (TypesInv /\ SeqnosInv)'
  BY NextTypes, NextSeqnos
<1> QED
  BY <1>1, <1>2, PTL DEF Spec

(* Crashes, retries and late processes never make the scheduler take the   *)
(* computer for another one with a copy of its state file                  *)
(* (authenticate_user(), rpc_seqno).                                       *)
THEOREM NeverMistaken == Spec => []HostNotMistaken
<1>1. SeqnosInv => HostNotMistaken
  BY DEF SeqnosInv, OneAwaited, HostNotMistaken, Awaited
<1> QED
  BY <1>1, SeqnosAreSound, PTL

-----------------------------------------------------------------------------
(* Results.                                                                *)

Stopped == {"aborting", "aborted"}
Unstopped == {"new", "running"}
Final(j) == job[j].state \notin {"UNSENT", "IN_PROGRESS"}

(* It has been sent, and if it is waited for, then from this computer.     *)
Sent(j, id) == job[j].state # "UNSENT" /\ (job[j].state = "IN_PROGRESS" => job[j].host = id)

(* Its failure is recorded, or is on its way to the scheduler.             *)
Refuses(req, j) == [job |-> j, ok |-> FALSE] \in req.reports
Refused(j) ==
    \/ job[j].state = "CLIENT_ERROR"
    \/ \E h \in Handlers : cgi[h].pc # "idle" /\ Refuses(cgi[h].req, j)
    \/ conn.phase # "none" /\ Refuses(request, j)

Stored(j) == \E k \in DOMAIN completed.results : completed.results[k].job = j

(* What the client has, the scheduler has sent it; what is acknowledged    *)
(* was recorded, and is only kept until its task has exited.               *)
HeldAreSent(rs, id) ==
    /\ \A i \in DOMAIN rs :
          /\ Sent(rs[i].job, id)
          /\ rs[i].acked => rs[i].phase \in Stopped /\ Received(rs[i].job)
    /\ id = 0 => DOMAIN rs = {}

(* What has happened since the last save can be done again: no result has  *)
(* come or been stopped, and none has gone that the scheduler waits for.   *)
MemoryFollowsFile ==
    /\ \A i \in DOMAIN results : results[i].phase # "new" \/ Polling => Stored(results[i].job)
    /\ \A k \in DOMAIN completed.results :
          LET s == completed.results[k]
          IN /\ s.job \notin Held => Received(s.job)
             /\ \A i \in DOMAIN results : results[i].job = s.job =>
                  /\ results[i].phase \in Unstopped => s.phase \in Unstopped
                  /\ s.phase = "aborted" => results[i].phase \in Stopped
                  /\ Polling /\ results[i].phase \in Stopped => s.phase = "aborted"

(* A failure that was reported is never taken back by a crash.             *)
RefusedAreStopped ==
    \A j \in Jobs : Refused(j) =>
        /\ \A i \in DOMAIN results : results[i].job = j => results[i].phase \in Stopped
        /\ \A k \in DOMAIN completed.results :
              completed.results[k].job = j => completed.results[k].phase = "aborted"
        /\ j \in Held \/ Received(j)

(* The request describes the client as it is until it is answered.         *)
RequestIsCurrent ==
    conn.phase # "none" =>
        /\ \A i \in DOMAIN results :
              /\ results[i].phase \notin Ready => results[i].job \in request.others
              /\ results[i].job \in Reported(request) => results[i].phase \in Ready
        /\ \A j \in request.others \cup Reported(request) : Sent(j, request.hostid)
        /\ request.hostid = 0 => request.others = {}

(* And so does the reply the scheduler's records, as far as it matters.    *)
ReplyIsCurrent ==
    conn.phase = "replied" =>
        LET reply == conn.reply
        IN /\ \A j \in reply.acks : Received(j) /\ j \in Reported(request)
           /\ \A j \in reply.aborts \cup reply.unstarted : Final(j)
           /\ reply.jobs \cap (reply.acks \cup reply.aborts \cup reply.unstarted) = {}
           /\ \A j \in reply.jobs :
                 /\ Sent(j, IF reply.hostid # 0 THEN reply.hostid ELSE request.hostid)
                 /\ \A i \in DOMAIN results : results[i].job = j => ~results[i].acked
                 /\ j \notin Held => ~Refused(j) /\ ~Stored(j)

HeldInv == HeldAreSent(results, hostid) /\ HeldAreSent(completed.results, completed.hostid)
WorkInv == HeldInv /\ MemoryFollowsFile /\ RefusedAreStopped /\ RequestIsCurrent /\ ReplyIsCurrent

LEMMA WorkTypes ==
    ASSUME TypesInv
    PROVE  /\ \A i \in DOMAIN results : results[i] \in Entries /\ results[i].job \in Jobs
                                        /\ results[i].phase \in Phases
           /\ \A i, k \in DOMAIN results : results[i].job = results[k].job => i = k
           /\ \A k \in DOMAIN completed.results :
                 /\ completed.results[k] \in SavedEntries /\ completed.results[k].job \in Jobs
                 /\ completed.results[k].phase \in Phases \ {"aborting"}
           /\ \A i, k \in DOMAIN completed.results :
                 completed.results[i].job = completed.results[k].job => i = k
           /\ conn.phase # "none" => Reported(request) \subseteq Jobs /\ request.others \subseteq Jobs
           /\ \A j \in Jobs : job[j].state \in JobStates
<1>1. ServerTypes /\ ConnTypes /\ MemoryTypes /\ FilesSound
  BY DEF TypesInv
<1>2. \A i \in DOMAIN results : results[i] \in Entries
  BY <1>1 DEF MemoryTypes
<1>3. \A k \in DOMAIN completed.results : completed.results[k] \in SavedEntries
  <2>1. completed.results \in Seq(SavedEntries)
    BY <1>1 DEF FilesSound, Storable
  <2> QED
    BY <2>1
<1>4. conn.phase # "none" => Reported(request) \subseteq Jobs /\ request.others \subseteq Jobs
  BY <1>1 DEF ConnTypes, Requests, Reported
<1>5. \A i, k \in DOMAIN results : results[i].job = results[k].job => i = k
  BY <1>1 DEF MemoryTypes, Distinct
<1>6. \A i, k \in DOMAIN completed.results :
         completed.results[i].job = completed.results[k].job => i = k
  BY <1>1 DEF FilesSound, Storable, Distinct
<1>7. \A e \in Entries : e.job \in Jobs /\ e.phase \in Phases
  BY DEF Entries
<1>8. \A e \in SavedEntries : e.job \in Jobs /\ e.phase \in Phases \ {"aborting"}
  BY DEF SavedEntries
<1> QED
  BY <1>1, <1>2, <1>3, <1>4, <1>5, <1>6, <1>7, <1>8, RowsTyped

(* The records do not change in a step of the client.                      *)
LEMMA SameRecords ==
    ASSUME UNCHANGED job
    PROVE  \A j : /\ Received(j)' = Received(j) /\ Final(j)' = Final(j)
                  /\ \A id : Sent(j, id)' = Sent(j, id)
BY DEF Received, Final, Sent

(* What the client has does not change.                                    *)
LEMMA HeldKept ==
    ASSUME WorkInv, UNCHANGED <<job, hostid, results, completed>>, Polling' => Polling
    PROVE  HeldInv' /\ MemoryFollowsFile' /\ Held' = Held /\ \A j : Stored(j)' = Stored(j)
<1>1. \A j : /\ Received(j)' = Received(j)
             /\ \A id : Sent(j, id)' = Sent(j, id)
  BY SameRecords
<1>2. Held' = Held /\ \A j : Stored(j)' = Stored(j)
  BY DEF Held, Stored
<1>3. HeldAreSent(results, hostid)'
  BY <1>1 DEF WorkInv, HeldInv, HeldAreSent
<1>4. HeldAreSent(completed.results, completed.hostid)'
  BY <1>1 DEF WorkInv, HeldInv, HeldAreSent
<1>5. \A i \in DOMAIN results : (results[i].phase # "new" \/ Polling') => Stored(results[i].job)
  BY DEF WorkInv, MemoryFollowsFile
<1>6. MemoryFollowsFile'
  BY <1>1, <1>2, <1>5 DEF WorkInv, MemoryFollowsFile, Stored
<1> QED
  BY <1>2, <1>3, <1>4, <1>6 DEF HeldInv

-----------------------------------------------------------------------------
(* Steps of the client.                                                    *)

LEMMA RequestWork ==
    ASSUME TypesInv, SeqnosInv, WorkInv, NEW work \in BOOLEAN, InitOp(work)
    PROVE  WorkInv'
<1>1. Polling /\ conn.phase = "none"
  BY DEF InitOp
<1>2. /\ request' = SchedulerRequest(work) /\ request' \in Requests
      /\ UNCHANGED <<hosts, job, hostid, results, completed>>
  BY InitOpTypes
<1>3. PICK h \in Handlers :
         /\ cgi[h] = Idle
         /\ cgi' = [cgi EXCEPT ![h] = [pc |-> "arrived", req |-> request']]
         /\ conn' = [phase |-> "open", via |-> h, urlIndex |-> 0]
  BY InitOpTypes
<1>4. /\ cgi'[h] = [pc |-> "arrived", req |-> request']
      /\ \A g \in Handlers : g # h => cgi'[g] = cgi[g]
  BY <1>3 DEF TypesInv, ServerTypes
<1>5. /\ request'.hostid = hostid
      /\ request'.others = {results[i].job : i \in OtherIndices}
      /\ request'.reports = {[job |-> results[i].job, ok |-> results[i].phase = "done"] :
                               i \in ReportedIndices}
  BY <1>2 DEF SchedulerRequest
<1>6. /\ ReportedIndices \subseteq {i \in DOMAIN results : results[i].phase \in Ready}
      /\ OtherIndices \subseteq DOMAIN results
      /\ \A i \in DOMAIN results : results[i].phase \notin Ready => i \in OtherIndices
  BY DEF ReportedIndices, ReadyIndices, OtherIndices
<1>7. HeldInv' /\ MemoryFollowsFile'
  BY <1>1, <1>2, HeldKept DEF Polling
<1>8. RefusedAreStopped'
  <2> SUFFICES ASSUME NEW j \in Jobs, Refused(j)'
               PROVE  /\ \A i \in DOMAIN results : results[i].job = j => results[i].phase \in Stopped
                      /\ \A k \in DOMAIN completed.results :
                            completed.results[k].job = j => completed.results[k].phase = "aborted"
                      /\ j \in Held \/ Received(j)
    BY <1>2, SameRecords DEF RefusedAreStopped, Held
  <2>1. Refused(j) \/ Refuses(request', j)
    BY <1>2, <1>3, <1>4 DEF Refused
  <2>2. CASE Refused(j)
    BY <2>2 DEF WorkInv, RefusedAreStopped
  <2>3. CASE Refuses(request', j)
    <3>1. PICK i \in ReportedIndices :
             [job |-> j, ok |-> FALSE] = [job |-> results[i].job, ok |-> results[i].phase = "done"]
      BY <1>5, <2>3 DEF Refuses
    <3>2. results[i].job = j /\ results[i].phase # "done" /\ i \in DOMAIN results
          /\ results[i].phase \in Ready
      BY <3>1, <1>6
    <3>3. results[i].phase \in Stopped
      BY <3>2 DEF Ready, Stopped
    <3> QED
      BY <1>1, <3>2, <3>3, WorkTypes DEF WorkInv, MemoryFollowsFile, Held
  <2> QED
    BY <2>1, <2>2, <2>3
<1>9. RequestIsCurrent'
  <2>1. \A j \in Reported(request') :
           \E i \in DOMAIN results : results[i].job = j /\ results[i].phase \in Ready
    <3> TAKE j \in Reported(request')
    <3>1. PICK r \in request'.reports : j = r.job
      BY DEF Reported
    <3>2. PICK i \in ReportedIndices : r.job = results[i].job
      BY <1>5, <3>1
    <3> QED
      BY <1>6, <3>1, <3>2
  <2>2. \A j \in request'.others : \E i \in DOMAIN results : results[i].job = j
    BY <1>5, <1>6
  <2>3. \A i \in DOMAIN results : results[i].job \in Reported(request') => results[i].phase \in Ready
    BY <2>1, WorkTypes
  <2>4. \A i \in DOMAIN results : results[i].phase \notin Ready => results[i].job \in request'.others
    BY <1>5, <1>6
  <2>5. \A j \in request'.others \cup Reported(request') : Sent(j, request'.hostid)
    BY <1>5, <2>1, <2>2 DEF WorkInv, HeldInv, HeldAreSent
  <2>6. request'.hostid = 0 => request'.others = {}
    BY <1>5, <2>2 DEF WorkInv, HeldInv, HeldAreSent
  <2> HIDE DEF Reported
  <2> QED
    BY <1>2, <2>3, <2>4, <2>5, <2>6, SameRecords DEF RequestIsCurrent, Reported, Sent
<1>10. ReplyIsCurrent'
  BY <1>3 DEF ReplyIsCurrent
<1> QED
  BY <1>7, <1>8, <1>9, <1>10 DEF WorkInv

LEMMA RetryWork ==
    ASSUME TypesInv, WorkInv, NextScheduler
    PROVE  WorkInv'
<1>1. /\ conn.phase = "failed" /\ Polling
      /\ UNCHANGED <<hosts, job, hostid, results, completed, request>>
  BY NextSchedulerTypes DEF NextScheduler
<1>2. PICK h \in Handlers :
         /\ cgi[h] = Idle
         /\ cgi' = [cgi EXCEPT ![h] = [pc |-> "arrived", req |-> request]]
         /\ conn' = [phase |-> "open", via |-> h, urlIndex |-> conn.urlIndex + 1]
  BY NextSchedulerTypes
<1>3. /\ cgi'[h] = [pc |-> "arrived", req |-> request]
      /\ \A g \in Handlers : g # h => cgi'[g] = cgi[g]
  BY <1>2 DEF TypesInv, ServerTypes
<1>4. \A j : Refused(j)' => Refused(j)
  BY <1>1, <1>2, <1>3 DEF Refused
<1>5. HeldInv' /\ MemoryFollowsFile'
  BY <1>1, HeldKept DEF Polling
<1>6. RefusedAreStopped'
  BY <1>1, <1>4, SameRecords DEF WorkInv, RefusedAreStopped, Held
<1>7. RequestIsCurrent'
  BY <1>1, SameRecords DEF WorkInv, RequestIsCurrent
<1>8. ReplyIsCurrent'
  BY <1>2 DEF ReplyIsCurrent
<1> QED
  BY <1>5, <1>6, <1>7, <1>8 DEF WorkInv

(* RpcFailed and ReplyFails: the request is forgotten.                     *)
LEMMA FailureWork ==
    ASSUME TypesInv, WorkInv, RpcFailed \/ ReplyFails
    PROVE  WorkInv'
<1>1. /\ save' = "open" /\ conn' = NoConn /\ ~Polling'
      /\ UNCHANGED <<hosts, job, cgi, hostid, seqno, results, completed>>
  BY FailureTypes DEF Polling
<1>2. \A j : Refused(j)' => Refused(j)
  BY <1>1 DEF Refused, NoConn
<1>3. HeldInv' /\ MemoryFollowsFile'
  BY <1>1, HeldKept DEF Polling
<1>4. RefusedAreStopped'
  BY <1>1, <1>2, SameRecords DEF WorkInv, RefusedAreStopped, Held
<1>5. RequestIsCurrent' /\ ReplyIsCurrent'
  BY <1>1 DEF RequestIsCurrent, ReplyIsCurrent, NoConn
<1> QED
  BY <1>3, <1>4, <1>5 DEF WorkInv

LEMMA SaveNowWork ==
    ASSUME TypesInv, WorkInv, SaveNow
    PROVE  WorkInv'
<1>1. /\ save' = "open" /\ ~Polling'
      /\ UNCHANGED <<hosts, job, cgi, conn, request, hostid, seqno, results, completed>>
  BY SaveNowTypes DEF Polling
<1>2. \A j : Refused(j)' = Refused(j)
  BY <1>1 DEF Refused
<1>3. HeldInv' /\ MemoryFollowsFile'
  BY <1>1, HeldKept DEF Polling
<1>4. RefusedAreStopped'
  BY <1>1, <1>2, SameRecords DEF WorkInv, RefusedAreStopped, Held
<1>5. RequestIsCurrent'
  BY <1>1, SameRecords DEF WorkInv, RequestIsCurrent
<1>6. ReplyIsCurrent'
  BY <1>1, <1>2, SameRecords DEF WorkInv, ReplyIsCurrent, Held, Stored
<1> QED
  BY <1>3, <1>4, <1>5, <1>6 DEF WorkInv

LEMMA BreakWork ==
    ASSUME TypesInv, WorkInv, Break
    PROVE  WorkInv'
<1>1. /\ conn.phase = "open" /\ conn'.phase = "failed"
      /\ UNCHANGED <<hosts, job, cgi, request, hostid, seqno, results, fileVars, completed, save>>
  BY BreakTypes
<1>2. \A j : Refused(j)' = Refused(j)
  BY <1>1 DEF Refused
<1>3. HeldInv' /\ MemoryFollowsFile'
  BY <1>1, HeldKept DEF Polling
<1>4. RefusedAreStopped'
  BY <1>1, <1>2, SameRecords DEF WorkInv, RefusedAreStopped, Held
<1>5. RequestIsCurrent'
  BY <1>1, SameRecords DEF WorkInv, RequestIsCurrent
<1>6. ReplyIsCurrent'
  BY <1>1 DEF ReplyIsCurrent
<1> QED
  BY <1>3, <1>4, <1>5, <1>6 DEF WorkInv

LEMMA GarbageCollectWork ==
    ASSUME TypesInv, WorkInv, GarbageCollect
    PROVE  WorkInv'
<1>1. /\ results' = GarbageCollected(results) /\ results \in Seq(Entries)
      /\ UNCHANGED <<hosts, job, cgi, conn, request, hostid, completed, save>>
  BY DEF GarbageCollect, hostVars, fileVars, TypesInv, MemoryTypes
<1>2. \A n \in DOMAIN results' : \E i \in DOMAIN results : results'[n] = results[i]
  BY <1>1, CollectionKeeps
<1>3. \A i \in DOMAIN results :
         results[i].acked \/ \E n \in DOMAIN results' : results'[n] = results[i]
  BY <1>1, CollectionKeeps DEF Deletable
<1>4. Held' \subseteq Held /\ \A j \in Held \ Held' : Received(j)
                              /\ \A i \in DOMAIN results : results[i].job = j => results[i].acked
  <2>1. Held' \subseteq Held
    BY <1>2 DEF Held
  <2>2. ASSUME NEW i \in DOMAIN results, results[i].job \notin Held'
        PROVE  results[i].acked
    BY <1>3, <2>2 DEF Held
  <2>3. \A i \in DOMAIN results : results[i].acked => Received(results[i].job)
    BY DEF WorkInv, HeldInv, HeldAreSent
  <2> QED
    BY <2>1, <2>2, <2>3 DEF Held
<1>5. \A j : /\ Received(j)' = Received(j) /\ Refused(j)' = Refused(j) /\ Stored(j)' = Stored(j)
             /\ \A id : Sent(j, id)' = Sent(j, id)
  BY <1>1, SameRecords DEF Refused, Stored
<1>6. HeldInv'
  <2>1. HeldAreSent(results, hostid)'
    BY <1>1, <1>2, <1>5 DEF WorkInv, HeldInv, HeldAreSent
  <2>2. HeldAreSent(completed.results, completed.hostid)'
    BY <1>1, <1>5 DEF WorkInv, HeldInv, HeldAreSent
  <2> QED
    BY <2>1, <2>2 DEF HeldInv
<1>7. MemoryFollowsFile'
  <2>1. \A n \in DOMAIN results' :
           (results'[n].phase # "new" \/ Polling) => Stored(results'[n].job)
    BY <1>2 DEF WorkInv, MemoryFollowsFile
  <2>2. Polling' = Polling
    BY <1>1 DEF Polling
  <2>3. ASSUME NEW k \in DOMAIN completed.results
        PROVE  /\ completed.results[k].job \notin Held' => Received(completed.results[k].job)
               /\ \A n \in DOMAIN results' : results'[n].job = completed.results[k].job =>
                    /\ results'[n].phase \in Unstopped => completed.results[k].phase \in Unstopped
                    /\ completed.results[k].phase = "aborted" => results'[n].phase \in Stopped
                    /\ Polling /\ results'[n].phase \in Stopped
                          => completed.results[k].phase = "aborted"
    <3>1. completed.results[k].job \notin Held' => Received(completed.results[k].job)
      BY <1>4 DEF WorkInv, MemoryFollowsFile
    <3> QED
      BY <1>2, <3>1 DEF WorkInv, MemoryFollowsFile
  <2> QED
    BY <1>1, <1>5, <2>1, <2>2, <2>3 DEF MemoryFollowsFile, Stored
<1>8. RefusedAreStopped'
  BY <1>1, <1>2, <1>4, <1>5 DEF WorkInv, RefusedAreStopped
<1>9. RequestIsCurrent'
  BY <1>1, <1>2, <1>5 DEF WorkInv, RequestIsCurrent
<1>10. ReplyIsCurrent'
  <2> SUFFICES ASSUME conn.phase = "replied" PROVE ReplyIsCurrent'
    BY <1>1 DEF ReplyIsCurrent
  <2>1. \A j \in conn.reply.jobs :
           /\ \A n \in DOMAIN results' : results'[n].job = j => ~results'[n].acked
           /\ j \notin Held' => j \notin Held
    BY <1>2, <1>4 DEF WorkInv, ReplyIsCurrent, Held
  <2>2. \A j : Final(j)' = Final(j)
    BY <1>1, SameRecords
  <2> QED
    BY <1>1, <1>5, <2>1, <2>2 DEF WorkInv, ReplyIsCurrent
<1> QED
  BY <1>6, <1>7, <1>8, <1>9, <1>10 DEF WorkInv

(* What happens to tasks: results start, finish, and stop when they have   *)
(* been told to.                                                           *)
LEMMA TasksWork ==
    ASSUME TypesInv, WorkInv, Polling,
           UNCHANGED <<hosts, job, cgi, conn, request, hostid, completed, save>>,
           DOMAIN results' = DOMAIN results,
           \A i \in DOMAIN results :
              /\ results'[i].job = results[i].job /\ results'[i].acked = results[i].acked
              /\ \/ results'[i].phase = results[i].phase
                 \/ results[i].phase = "new" /\ results'[i].phase = "running"
                 \/ results[i].phase = "running" /\ results'[i].phase = "done"
                 \/ results[i].phase = "aborting" /\ results'[i].phase = "aborted"
    PROVE  WorkInv'
<1>1. \A j : /\ Received(j)' = Received(j) /\ Refused(j)' = Refused(j) /\ Stored(j)' = Stored(j)
             /\ \A id : Sent(j, id)' = Sent(j, id)
  BY SameRecords DEF Refused, Stored
<1>2. Held' = Held /\ Polling'
  BY DEF Held, Polling
<1>3. \A i \in DOMAIN results :
         /\ (results'[i].phase \in Stopped) = (results[i].phase \in Stopped)
         /\ results'[i].phase \in Unstopped => results[i].phase \in Unstopped
         /\ results'[i].phase \notin Ready => results[i].phase \notin Ready
         /\ results[i].phase \in Ready => results'[i].phase \in Ready
  BY DEF Stopped, Unstopped, Ready
<1>4. HeldInv'
  <2>1. HeldAreSent(results, hostid)'
    BY <1>1, <1>3 DEF WorkInv, HeldInv, HeldAreSent
  <2>2. HeldAreSent(completed.results, completed.hostid)'
    BY <1>1 DEF WorkInv, HeldInv, HeldAreSent
  <2> QED
    BY <2>1, <2>2 DEF HeldInv
<1>5. MemoryFollowsFile'
  <2>1. \A i \in DOMAIN results : Stored(results'[i].job)
    BY DEF WorkInv, MemoryFollowsFile
  <2>2. ASSUME NEW k \in DOMAIN completed.results, NEW i \in DOMAIN results,
               results'[i].job = completed.results[k].job
        PROVE  /\ results'[i].phase \in Unstopped => completed.results[k].phase \in Unstopped
               /\ completed.results[k].phase = "aborted" => results'[i].phase \in Stopped
               /\ results'[i].phase \in Stopped => completed.results[k].phase = "aborted"
    BY <1>3, <2>2 DEF WorkInv, MemoryFollowsFile
  <2>3. \A k \in DOMAIN completed.results :
           completed.results[k].job \notin Held => Received(completed.results[k].job)
    BY DEF WorkInv, MemoryFollowsFile
  <2> QED
    BY <1>1, <1>2, <2>1, <2>2, <2>3 DEF MemoryFollowsFile, Stored
<1>6. RefusedAreStopped'
  BY <1>1, <1>2, <1>3 DEF WorkInv, RefusedAreStopped
<1>7. RequestIsCurrent'
  BY <1>1, <1>3 DEF WorkInv, RequestIsCurrent
<1>8. ReplyIsCurrent'
  BY <1>1, <1>2, SameRecords DEF WorkInv, ReplyIsCurrent
<1> QED
  BY <1>4, <1>5, <1>6, <1>7, <1>8 DEF WorkInv

-----------------------------------------------------------------------------
(* The files.                                                              *)

LEMMA SnapshotIsLike ==
    ASSUME TypesInv
    PROVE  /\ DOMAIN Snapshot.results = DOMAIN results /\ Snapshot.hostid = hostid
           /\ \A i \in DOMAIN results :
                 /\ Snapshot.results[i].job = results[i].job
                 /\ Snapshot.results[i].acked = results[i].acked
                 /\ (Snapshot.results[i].phase \in Unstopped) = (results[i].phase \in Unstopped)
                 /\ (Snapshot.results[i].phase = "new") = (results[i].phase = "new")
                 /\ (Snapshot.results[i].phase = "aborted") = (results[i].phase \in Stopped)
           /\ HeldAreSent(results, hostid) => HeldAreSent(Snapshot.results, hostid)
<1>1. DOMAIN Snapshot.results = DOMAIN results /\ Snapshot.hostid = hostid
  BY DEF Snapshot
<1>2. ASSUME NEW i \in DOMAIN results
      PROVE  /\ Snapshot.results[i].job = results[i].job
             /\ Snapshot.results[i].acked = results[i].acked
             /\ Snapshot.results[i].phase
                   = IF results[i].phase = "aborting" THEN "aborted" ELSE results[i].phase
  <2>1. results[i] \in Entries
    BY WorkTypes
  <2>2. Snapshot.results[i] = Parsed(results[i])
    BY DEF Snapshot
  <2> HIDE DEF Snapshot
  <2> QED
    BY <2>1, <2>2 DEF Parsed, Entries
<1> HIDE DEF Snapshot
<1>3. \A i \in DOMAIN results :
         /\ (Snapshot.results[i].phase \in Unstopped) = (results[i].phase \in Unstopped)
         /\ (Snapshot.results[i].phase = "new") = (results[i].phase = "new")
         /\ (Snapshot.results[i].phase = "aborted") = (results[i].phase \in Stopped)
  BY <1>2 DEF Unstopped, Stopped
<1>4. HeldAreSent(results, hostid) => HeldAreSent(Snapshot.results, hostid)
  BY <1>1, <1>2, <1>3 DEF HeldAreSent, Stopped
<1> QED
  BY <1>1, <1>2, <1>3, <1>4

LEMMA SaveWork ==
    ASSUME TypesInv, WorkInv, Save
    PROVE  WorkInv'
<1>1. /\ ~Polling
      /\ \/ completed' = completed
         \/ completed' = Snapshot /\ save' = "no"
      /\ save' = "no" => completed' = Snapshot
      /\ UNCHANGED <<hosts, job, cgi, conn, request, hostid, seqno, results>>
  BY SaveTypes
<1>2. \A j : Refused(j)' = Refused(j)
  BY <1>1 DEF Refused
<1>3. RequestIsCurrent'
  BY <1>1, SameRecords DEF WorkInv, RequestIsCurrent
<1>4. CASE completed' = completed /\ save' # "no"
  <2>1. HeldInv' /\ MemoryFollowsFile' /\ Held' = Held /\ \A j : Stored(j)' = Stored(j)
    BY <1>1, <1>4, HeldKept DEF Polling
  <2>2. RefusedAreStopped'
    BY <1>1, <1>2, <1>4, <2>1, SameRecords DEF WorkInv, RefusedAreStopped
  <2>3. ReplyIsCurrent'
    BY <1>1, <1>2, <2>1, SameRecords DEF WorkInv, ReplyIsCurrent
  <2> QED
    BY <1>3, <2>1, <2>2, <2>3 DEF WorkInv
<1>5. CASE completed' = Snapshot
  <2>1. Held' = Held /\ \A j : Stored(j)' => j \in Held
    BY <1>1, <1>5, SnapshotIsLike DEF Held, Stored
  <2>2. HeldInv'
    <3>1. HeldAreSent(results, hostid) /\ HeldAreSent(Snapshot.results, hostid)
      BY SnapshotIsLike DEF WorkInv, HeldInv
    <3>2. completed'.results = Snapshot.results /\ completed'.hostid = hostid
      BY <1>5, SnapshotIsLike
    <3> QED
      BY <1>1, <3>1, <3>2, SameRecords DEF HeldInv, HeldAreSent
  <2>3. MemoryFollowsFile'
    <3>1. \A i \in DOMAIN results : Stored(results[i].job)'
      BY <1>1, <1>5, SnapshotIsLike DEF Stored
    <3>2. \A k \in DOMAIN completed'.results :
             k \in DOMAIN results /\ completed'.results[k].job = results[k].job
             /\ (completed'.results[k].phase \in Unstopped) = (results[k].phase \in Unstopped)
             /\ (completed'.results[k].phase = "aborted") = (results[k].phase \in Stopped)
      BY <1>5, SnapshotIsLike
    <3>3. \A k \in DOMAIN completed'.results : completed'.results[k].job \in Held
      BY <3>2 DEF Held
    <3> QED
      BY <1>1, <2>1, <3>1, <3>2, <3>3, WorkTypes DEF MemoryFollowsFile, Stored
  <2>4. RefusedAreStopped'
    <3>1. \A i \in DOMAIN results :
             results[i].phase \in Stopped => completed'.results[i].phase = "aborted"
      BY <1>5, SnapshotIsLike
    <3>2. \A k \in DOMAIN completed'.results :
             k \in DOMAIN results /\ completed'.results[k].job = results[k].job
      BY <1>5, SnapshotIsLike
    <3> QED
      BY <1>1, <1>2, <2>1, <3>1, <3>2, SameRecords DEF WorkInv, RefusedAreStopped
  <2>5. ReplyIsCurrent'
    BY <1>1, <1>2, <2>1, SameRecords DEF WorkInv, ReplyIsCurrent
  <2> QED
    BY <1>3, <2>2, <2>3, <2>4, <2>5 DEF WorkInv
<1> QED
  BY <1>1, <1>4, <1>5

(* The client starts again with what it saved last, or what it was saving. *)
LEMMA RestartWork ==
    ASSUME TypesInv, WorkInv, Restart
    PROVE  WorkInv'
<1>1. /\ save' = "open" /\ conn' = NoConn /\ ~Polling'
      /\ Recovered \in {completed, Snapshot}
      /\ hostid' = Recovered.hostid /\ results' = Recovered.results
      /\ UNCHANGED <<hosts, job, cgi, completed>>
  BY RestartTypes DEF Polling
<1>2. \A j : Refused(j)' => Refused(j)
  BY <1>1 DEF Refused, NoConn
<1>3. \A j : Stored(j)' = Stored(j)
  BY <1>1 DEF Stored
<1>4. RequestIsCurrent' /\ ReplyIsCurrent'
  BY <1>1 DEF RequestIsCurrent, ReplyIsCurrent, NoConn
<1>5. HeldInv'
  <2>1. HeldAreSent(results, hostid) /\ HeldAreSent(Snapshot.results, hostid)
        /\ HeldAreSent(completed.results, completed.hostid) /\ Snapshot.hostid = hostid
    BY SnapshotIsLike DEF WorkInv, HeldInv
  <2>2. HeldAreSent(results', hostid')
    BY <1>1, <2>1
  <2>3. HeldAreSent(results, hostid)'
    BY <1>1, <2>2, SameRecords DEF HeldAreSent
  <2> QED
    BY <1>1, <2>1, <2>3, SameRecords DEF HeldInv, HeldAreSent
<1>6. CASE results' = completed.results
  <2>1. \A j : j \in Held' <=> Stored(j)
    BY <1>6 DEF Held, Stored
  <2>2. \A i \in DOMAIN results' : Stored(results'[i].job)
    BY <1>6 DEF Stored
  <2>3. \A k \in DOMAIN completed.results : Stored(completed.results[k].job)
    BY DEF Stored
  <2>4. MemoryFollowsFile'
    BY <1>1, <1>3, <1>6, <2>1, <2>2, <2>3, WorkTypes DEF MemoryFollowsFile, Stopped, Stored
  <2>5. \A i \in DOMAIN results : results[i].phase \in Stopped => Stored(results[i].job)
    BY DEF WorkInv, MemoryFollowsFile, Stopped
  <2>6. \A j \in Jobs : Refused(j) => Stored(j) \/ Received(j)
    BY <2>5 DEF WorkInv, RefusedAreStopped, Held
  <2>7. RefusedAreStopped'
    BY <1>1, <1>2, <1>6, <2>1, <2>6, SameRecords DEF WorkInv, RefusedAreStopped, Stopped
  <2> QED
    BY <1>4, <1>5, <2>4, <2>7 DEF WorkInv
<1>7. CASE results' = Snapshot.results
  <2>1. Held' = Held /\ DOMAIN results' = DOMAIN results
    BY <1>7, SnapshotIsLike DEF Held
  <2>2. \A i \in DOMAIN results :
           /\ results'[i].job = results[i].job
           /\ (results'[i].phase \in Unstopped) = (results[i].phase \in Unstopped)
           /\ (results'[i].phase = "new") = (results[i].phase = "new")
           /\ (results'[i].phase = "aborted") = (results[i].phase \in Stopped)
    BY <1>7, SnapshotIsLike
  <2>3. \A i \in DOMAIN results : results'[i].phase # "new" => Stored(results'[i].job)
    BY <2>2 DEF WorkInv, MemoryFollowsFile
  <2>4. \A i \in DOMAIN results : results[i].phase \in Stopped => results'[i].phase \in Stopped
    BY <2>2 DEF Stopped
  <2>5. MemoryFollowsFile'
    BY <1>1, <1>3, <2>1, <2>2, <2>3, <2>4, SameRecords DEF WorkInv, MemoryFollowsFile, Stored
  <2>6. RefusedAreStopped'
    BY <1>1, <1>2, <2>1, <2>2, <2>4, SameRecords DEF WorkInv, RefusedAreStopped
  <2> QED
    BY <1>4, <1>5, <2>5, <2>6 DEF WorkInv
<1> QED
  BY <1>1, <1>6, <1>7

-----------------------------------------------------------------------------
(* The reply.                                                              *)

(* What becomes of the client's results, and which ones are added.         *)
LEMMA ReplyChanges ==
    ASSUME TypesInv, WorkInv, HandleReply
    PROVE  LET reply == conn.reply
           IN /\ \A n \in DOMAIN results' :
                    \/ \E i \in DOMAIN results :
                          /\ results'[n].job = results[i].job
                          /\ results'[n].acked => /\ \/ results[i].acked
                                                     \/ results[i].job \in reply.acks
                                                  /\ results'[n].phase \in Active
                          /\ \/ results'[n].phase = results[i].phase
                             \/ /\ results[i].job \in reply.aborts \cup reply.unstarted
                                /\ results[i].phase \in Unstopped
                                /\ results'[n].phase \in Stopped
                    \/ /\ results'[n].job \in reply.jobs \ Held
                       /\ ~results'[n].acked /\ results'[n].phase = "new"
              /\ \A i \in DOMAIN results :
                    results[i].job \in Held' \/ results[i].acked \/ results[i].job \in reply.acks
<1> DEFINE reply == conn.reply
<1>1. /\ conn.phase = "replied" /\ reply \in Replies /\ results' = Merged(reply)
      /\ results \in Seq(Entries) /\ Distinct(results)
  BY HandleReplyTypes DEF TypesInv, MemoryTypes
<1>2. \A n \in DOMAIN results' :
         /\ ~Deletable(results'[n])
         /\ \/ \E i \in DOMAIN results : results'[n] = Told(results[i], reply)
            \/ \E j \in reply.jobs \ Held : results'[n] = Told(Fresh(j), reply)
  BY <1>1, ReplyMerges
<1>3. ASSUME NEW i \in DOMAIN results
      PROVE  /\ Told(results[i], reply).job = results[i].job
             /\ Told(results[i], reply).acked = (results[i].acked \/ results[i].job \in reply.acks)
             /\ \/ Told(results[i], reply).phase = results[i].phase
                \/ /\ results[i].job \in reply.aborts \cup reply.unstarted
                   /\ results[i].phase \in Unstopped
                   /\ Told(results[i], reply).phase \in Stopped
  <2>1. results[i] \in Entries
    BY WorkTypes
  <2> QED
    BY <1>1, <2>1, ToldChanges DEF Unstopped, Stopped
<1>4. ASSUME NEW j \in reply.jobs
      PROVE  /\ Told(Fresh(j), reply).job = j /\ ~Told(Fresh(j), reply).acked
             /\ Told(Fresh(j), reply).phase = "new"
  <2>1. j \notin reply.acks \cup reply.aborts \cup reply.unstarted
    BY <1>1 DEF WorkInv, ReplyIsCurrent
  <2>2. /\ Fresh(j) \in Entries /\ Fresh(j).job = j /\ Fresh(j).phase = "new"
        /\ Fresh(j).acked = FALSE
    BY <1>1 DEF Fresh, Entries, Replies, Phases
  <2> DEFINE r == Fresh(j)
  <2> HIDE DEF r
  <2>3. r \in Entries /\ r.job = j /\ r.phase = "new" /\ ~r.acked
    BY <2>2 DEF r
  <2>4. /\ Told(r, reply).job = j
        /\ Told(r, reply).acked = (r.acked \/ j \in reply.acks)
        /\ \/ Told(r, reply).phase = "new"
           \/ j \in reply.aborts \cup reply.unstarted
    BY <1>1, <2>3, ToldChanges
  <2> QED
    BY <2>1, <2>3, <2>4 DEF r
<1>5. ASSUME NEW n \in DOMAIN results', NEW i \in DOMAIN results,
             results'[n] = Told(results[i], reply)
      PROVE  /\ results'[n].job = results[i].job
             /\ results'[n].acked => /\ results[i].acked \/ results[i].job \in reply.acks
                                     /\ results'[n].phase \in Active
             /\ \/ results'[n].phase = results[i].phase
                \/ /\ results[i].job \in reply.aborts \cup reply.unstarted
                   /\ results[i].phase \in Unstopped
                   /\ results'[n].phase \in Stopped
  BY <1>2, <1>3, <1>5 DEF Deletable
<1>6. ASSUME NEW i \in DOMAIN results, ~results[i].acked, results[i].job \notin reply.acks
      PROVE  results[i].job \in Held'
  <2>1. ~Deletable(Told(results[i], reply))
    BY <1>3, <1>6 DEF Deletable
  <2>2. PICK n \in DOMAIN results' : results'[n] = Told(results[i], reply)
    BY <1>1, <2>1, ReplyMerges
  <2> QED
    BY <1>3, <2>2 DEF Held
<1> QED
  BY <1>2, <1>4, <1>5, <1>6

LEMMA ReplyWork ==
    ASSUME TypesInv, SeqnosInv, WorkInv, HandleReply
    PROVE  WorkInv'
<1> DEFINE reply == conn.reply
           Old(n, i) ==
              /\ results'[n].job = results[i].job
              /\ results'[n].acked => /\ results[i].acked \/ results[i].job \in reply.acks
                                      /\ results'[n].phase \in Active
              /\ \/ results'[n].phase = results[i].phase
                 \/ results[i].phase \in Unstopped /\ results'[n].phase \in Stopped
           New(n) == results'[n].job \in reply.jobs \ Held /\ ~results'[n].acked
                     /\ results'[n].phase = "new"
<1>1. /\ Polling /\ ~Polling' /\ conn.phase = "replied" /\ conn' = NoConn
      /\ IF reply.hostid # 0 THEN hostid' = reply.hostid ELSE hostid' = hostid
      /\ UNCHANGED <<hosts, job, cgi, completed>>
  BY HandleReplyTypes DEF Polling
<1>2. \A n \in DOMAIN results' : (\E i \in DOMAIN results : Old(n, i)) \/ New(n)
  BY ReplyChanges
<1>3. /\ \A j \in reply.acks : Received(j) /\ j \in Reported(request)
      /\ \A j \in reply.jobs :
            /\ Sent(j, IF reply.hostid # 0 THEN reply.hostid ELSE request.hostid)
            /\ j \notin Held => ~Refused(j) /\ ~Stored(j)
  BY <1>1 DEF WorkInv, ReplyIsCurrent
<1>4. /\ hostid = request.hostid /\ (reply.hostid = 0) = (request.hostid # 0)
      /\ hostid = 0 => DOMAIN results = {}
  BY <1>1 DEF SeqnosInv, ClientSeqnos, OneAwaited, WorkInv, HeldInv, HeldAreSent
<1>5. \A i \in DOMAIN results :
         /\ Sent(results[i].job, hostid)
         /\ results[i].acked => results[i].phase \in Stopped /\ Received(results[i].job)
         /\ Stored(results[i].job)
         /\ results[i].job \in Reported(request) => results[i].phase \in Ready
  BY <1>1 DEF WorkInv, HeldInv, HeldAreSent, MemoryFollowsFile, RequestIsCurrent
<1>6. \A i \in DOMAIN results : results[i].job \in Held' \/ Received(results[i].job)
  BY <1>3, <1>5, ReplyChanges
<1>7. \A j : /\ Refused(j)' => Refused(j)
             /\ Received(j)' = Received(j) /\ Stored(j)' = Stored(j)
             /\ \A id : Sent(j, id)' = Sent(j, id)
  BY <1>1, SameRecords DEF Refused, Stored, NoConn
<1>8. RequestIsCurrent' /\ ReplyIsCurrent'
  BY <1>1 DEF RequestIsCurrent, ReplyIsCurrent, NoConn
<1>9. \A n \in DOMAIN results' : \A i \in DOMAIN results : Old(n, i) =>
         /\ results'[n].phase \in Unstopped => results[i].phase \in Unstopped
         /\ results[i].phase \in Stopped => results'[n].phase \in Stopped
         /\ results'[n].acked => results'[n].phase \in Stopped /\ Received(results'[n].job)
  BY <1>3, <1>5 DEF Unstopped, Stopped, Active, Ready
<1> HIDE DEF Old, New
<1>10. \A n \in DOMAIN results' : \A i \in DOMAIN results :
          Old(n, i) => results'[n].job = results[i].job
  BY DEF Old
<1>11. HeldInv'
  <2>1. ASSUME NEW n \in DOMAIN results'
        PROVE  /\ Sent(results'[n].job, hostid')
               /\ results'[n].acked => results'[n].phase \in Stopped /\ Received(results'[n].job)
    <3>1. CASE New(n)
      BY <1>1, <1>3, <1>4, <3>1 DEF New
    <3>2. ASSUME NEW i \in DOMAIN results, Old(n, i)
          PROVE  /\ Sent(results'[n].job, hostid')
                 /\ results'[n].acked => /\ results'[n].phase \in Stopped
                                         /\ Received(results'[n].job)
      BY <1>1, <1>4, <1>5, <1>9, <1>10, <3>2
    <3> QED
      BY <1>2, <3>1, <3>2
  <2>2. hostid' # 0
    BY <1>1, <1>4
  <2>3. HeldAreSent(results, hostid)'
    BY <1>7, <2>1, <2>2 DEF HeldAreSent
  <2>4. HeldAreSent(completed.results, completed.hostid)'
    BY <1>1, <1>7 DEF WorkInv, HeldInv, HeldAreSent
  <2> QED
    BY <2>3, <2>4 DEF HeldInv
<1>12. MemoryFollowsFile'
  <2>1. \A n \in DOMAIN results' : results'[n].phase # "new" => Stored(results'[n].job)
    BY <1>2, <1>5, <1>10 DEF New
  <2>2. ASSUME NEW k \in DOMAIN completed.results
        PROVE  /\ completed.results[k].job \notin Held' => Received(completed.results[k].job)
               /\ \A n \in DOMAIN results' : results'[n].job = completed.results[k].job =>
                    /\ results'[n].phase \in Unstopped => completed.results[k].phase \in Unstopped
                    /\ completed.results[k].phase = "aborted" => results'[n].phase \in Stopped
    <3>1. Stored(completed.results[k].job)
      BY DEF Stored
    <3>2. completed.results[k].job \notin Held' => Received(completed.results[k].job)
      BY <1>6 DEF WorkInv, MemoryFollowsFile, Held
    <3>3. ASSUME NEW n \in DOMAIN results', results'[n].job = completed.results[k].job
          PROVE  \E i \in DOMAIN results : Old(n, i)
      BY <1>2, <1>3, <3>1, <3>3 DEF New
    <3> QED
      BY <1>9, <1>10, <3>2, <3>3 DEF WorkInv, MemoryFollowsFile
  <2> QED
    BY <1>1, <1>7, <2>1, <2>2 DEF MemoryFollowsFile, Stored
<1>13. RefusedAreStopped'
  <2> SUFFICES ASSUME NEW j \in Jobs, Refused(j)
               PROVE  /\ \A n \in DOMAIN results' : results'[n].job = j => results'[n].phase \in Stopped
                      /\ \A k \in DOMAIN completed.results :
                            completed.results[k].job = j => completed.results[k].phase = "aborted"
                      /\ j \in Held' \/ Received(j)
    BY <1>1, <1>7 DEF RefusedAreStopped
  <2>1. \A i \in DOMAIN results : results[i].job = j => results[i].phase \in Stopped
    BY DEF WorkInv, RefusedAreStopped
  <2>2. \A n \in DOMAIN results' : results'[n].job = j => results'[n].phase \in Stopped
    BY <1>2, <1>3, <1>9, <1>10, <2>1 DEF New
  <2>3. j \in Held' \/ Received(j)
    BY <1>6 DEF WorkInv, RefusedAreStopped, Held
  <2> QED
    BY <2>2, <2>3 DEF WorkInv, RefusedAreStopped
<1> QED
  BY <1>8, <1>11, <1>12, <1>13 DEF WorkInv

-----------------------------------------------------------------------------
(* Steps of a process.                                                     *)

(* How the record of a result changes.                                     *)
Moves(h) ==
    \A j \in Jobs :
       \/ job'[j] = job[j]
       \/ job[j].state = "UNSENT" /\ job'[j].state = "IN_PROGRESS"
       \/ /\ job[j].state \in {"IN_PROGRESS", "NO_REPLY"}
          /\ job'[j].state \in {"SUCCESS", "CLIENT_ERROR", "NO_REPLY", "CLIENT_DETACHED"}
          /\ job'[j].state = "CLIENT_ERROR" => cgi[h].pc # "idle" /\ Refuses(cgi[h].req, j)
          /\ job'[j].state \in {"NO_REPLY", "CLIENT_DETACHED"} => j \notin cgi[h].req.others

(* How the reply fits the records, as they are when it is sent.            *)
Fits(h, reply) ==
    /\ reply.hostid = cgi[h].tell /\ reply.acks \subseteq Reported(cgi[h].req)
    /\ \A j \in reply.acks : job[j].state = "UNSENT" \/ Received(j)'
    /\ reply.jobs \subseteq Jobs
    /\ \A j \in reply.jobs : job'[j].state = "IN_PROGRESS" /\ job'[j].host = cgi[h].host
    /\ \A j \in reply.aborts :
          /\ j \in cgi[h].req.others
          /\ \/ job[j].state = "UNSENT" \/ job'[j].host # cgi[h].host
             \/ job'[j].state \notin {"IN_PROGRESS", "NO_REPLY"}
    /\ \A j \in reply.unstarted : job'[j].state = "NO_REPLY"

LEMMA ReportsMove ==
    ASSUME TypesInv, NEW h \in Handlers, cgi[h].pc = "authenticated"
    PROVE  /\ cgi[h].req \in Requests /\ Reported(cgi[h].req) \subseteq Jobs
           /\ ServedRows(h) \in [Jobs -> [state : JobStates, host : Ids \cup {0}]]
           /\ \A j \in Jobs :
                 IF j \in Reported(cgi[h].req) /\ job[j].state \in {"IN_PROGRESS", "NO_REPLY"}
                 THEN /\ ServedRows(h)[j].state \in {"SUCCESS", "CLIENT_ERROR"}
                      /\ ServedRows(h)[j].state = "CLIENT_ERROR" => Refuses(cgi[h].req, j)
                 ELSE ServedRows(h)[j] = job[j]
<1>1. ServerTypes
  BY DEF TypesInv
<1>2. cgi[h].req \in Requests
  BY <1>1, ProcessKinds DEF Authenticated
<1>3. cgi[h].req.reports \in SUBSET [job : Jobs, ok : BOOLEAN]
  BY <1>2 DEF Requests
<1>4. Reported(cgi[h].req) \subseteq Jobs
  BY <1>3 DEF Reported
<1>5. ServedRows(h) \in [Jobs -> [state : JobStates, host : Ids \cup {0}]]
  BY <1>1, ServedRowsTyped
<1>6. ASSUME NEW j \in Reported(cgi[h].req), [job |-> j, ok |-> TRUE] \notin cgi[h].req.reports
      PROVE  Refuses(cgi[h].req, j)
  <2>1. PICK r \in cgi[h].req.reports : j = r.job
    BY DEF Reported
  <2>2. r = [job |-> j, ok |-> r.ok] /\ r.ok \in BOOLEAN
    BY <1>3, <2>1
  <2>3. r.ok = FALSE
    BY <1>6, <2>2
  <2> QED
    BY <2>2, <2>3 DEF Refuses
<1>7. \A j \in Jobs : Accepts(j) <=> job[j].state \in {"IN_PROGRESS", "NO_REPLY"}
  BY DEF Accepts, Received
<1>8. ASSUME NEW j \in Jobs, j \in Reported(cgi[h].req),
             job[j].state \in {"IN_PROGRESS", "NO_REPLY"}
      PROVE  /\ ServedRows(h)[j].state \in {"SUCCESS", "CLIENT_ERROR"}
             /\ ServedRows(h)[j].state = "CLIENT_ERROR" => Refuses(cgi[h].req, j)
  BY <1>6, <1>7, <1>8 DEF ServedRows, HandleResults
<1>9. ASSUME NEW j \in Jobs,
             ~(j \in Reported(cgi[h].req) /\ job[j].state \in {"IN_PROGRESS", "NO_REPLY"})
      PROVE  ServedRows(h)[j] = job[j]
  BY <1>7, <1>9 DEF ServedRows, HandleResults
<1> QED
  BY <1>2, <1>4, <1>5, <1>8, <1>9

LEMMA ServeMoves ==
    ASSUME TypesInv, NEW h \in Handlers, Serve(h)
    PROVE  /\ cgi[h].pc = "authenticated" /\ Moves(h)
           /\ \E reply : Answer(h, reply) /\ Fits(h, reply)
<1>1. cgi[h].pc = "authenticated"
  BY ServeCases
<1>2. PICK resent \in SUBSET LostOnes(h) :
         LET after == Expire(ServedRows(h), LostOnes(h) \ resent)
         IN \/ job' = after /\ Answer(h, AnswerTo(h, after, resent))
            \/ \E j \in Jobs : /\ after[j].state = "UNSENT"
                               /\ job' = Send(after, cgi[h].host, j)
                               /\ Answer(h, AnswerTo(h, after, {j}))
  BY ServeCases
<1> DEFINE rows == ServedRows(h)
           id == cgi[h].host
           req == cgi[h].req
           after == Expire(rows, LostOnes(h) \ resent)
<1>3. /\ req \in Requests /\ Reported(req) \subseteq Jobs
      /\ rows \in [Jobs -> [state : JobStates, host : Ids \cup {0}]]
      /\ \A j \in Jobs :
            IF j \in Reported(req) /\ job[j].state \in {"IN_PROGRESS", "NO_REPLY"}
            THEN /\ rows[j].state \in {"SUCCESS", "CLIENT_ERROR"}
                 /\ rows[j].state = "CLIENT_ERROR" => Refuses(req, j)
            ELSE rows[j] = job[j]
  BY <1>1, ReportsMove
<1>4. \A j \in LostOnes(h) :
         j \in Jobs /\ rows[j].state = "IN_PROGRESS" /\ rows[j].host = id /\ j \notin req.others
  BY DEF LostOnes, Lost
<1> HIDE DEF rows
<1>5. \A j \in Jobs : IF j \in LostOnes(h) \ resent
                      THEN after[j].state = "NO_REPLY"
                      ELSE after[j] = rows[j]
  BY <1>3 DEF Expire
<1>6. after \in [Jobs -> [state : JobStates, host : Ids \cup {0}]]
  BY <1>1, ServedRowsTyped DEF TypesInv, rows
<1> HIDE DEF after
<1>7. ASSUME NEW j \in Jobs
      PROVE  \/ after[j] = job[j]
             \/ /\ job[j].state \in {"IN_PROGRESS", "NO_REPLY"}
                /\ after[j].state \in {"SUCCESS", "CLIENT_ERROR", "NO_REPLY"}
                /\ after[j].state = "CLIENT_ERROR" => Refuses(req, j)
                /\ after[j].state = "NO_REPLY" => j \notin req.others
  <2>1. CASE j \in LostOnes(h) \ resent
    <3>1. rows[j].state = "IN_PROGRESS" /\ after[j].state = "NO_REPLY" /\ j \notin req.others
      BY <1>4, <1>5, <2>1
    <3>2. rows[j] = job[j]
      BY <1>3, <3>1
    <3> QED
      BY <3>1, <3>2
  <2>2. CASE j \notin LostOnes(h) \ resent
    BY <1>3, <1>5, <2>2
  <2> QED
    BY <2>1, <2>2
<1>8. \A j \in Reported(req) : after[j].state = "UNSENT" \/
         after[j].state \in {"SUCCESS", "CLIENT_ERROR", "CLIENT_DETACHED"}
  <2> TAKE j \in Reported(req)
  <2>1. rows[j].state \notin {"IN_PROGRESS", "NO_REPLY"}
    BY <1>3
  <2>2. after[j] = rows[j] /\ rows[j].state \in JobStates
    BY <1>3, <1>4, <1>5, <2>1
  <2> QED
    BY <2>1, <2>2 DEF JobStates
<1>9. \A sent :
         LET reply == AnswerTo(h, after, sent)
         IN /\ reply.hostid = cgi[h].tell /\ reply.acks = Reported(req) /\ reply.jobs = sent
            /\ \A j \in reply.aborts : j \in req.others /\ j \in Jobs
                  /\ (after[j].host # id \/ after[j].state \notin {"IN_PROGRESS", "NO_REPLY"})
            /\ \A j \in reply.unstarted : j \in Jobs /\ after[j].state = "NO_REPLY"
  <2>1. req.others \subseteq Jobs
    BY <1>3 DEF Requests
  <2> QED
    BY <2>1 DEF AnswerTo, Aborts, AbortsIfUnstarted, Wanted
<1>10. CASE job' = after /\ Answer(h, AnswerTo(h, after, resent))
  <2> DEFINE reply == AnswerTo(h, after, resent)
  <2>1. Moves(h)
    BY <1>1, <1>7, <1>10 DEF Moves
  <2>2. \A j \in resent : j \in Jobs /\ after[j].state = "IN_PROGRESS" /\ after[j].host = id
    BY <1>4, <1>5
  <2>3. \A j \in Reported(req) : job[j].state = "UNSENT" \/ Received(j)'
    BY <1>3, <1>7, <1>8, <1>10 DEF Received
  <2>4. /\ reply.hostid = cgi[h].tell /\ reply.acks = Reported(req) /\ reply.jobs = resent
        /\ \A j \in reply.aborts : j \in req.others /\ j \in Jobs
              /\ (after[j].host # id \/ after[j].state \notin {"IN_PROGRESS", "NO_REPLY"})
        /\ \A j \in reply.unstarted : j \in Jobs /\ after[j].state = "NO_REPLY"
    BY <1>9
  <2> HIDE DEF reply
  <2>5. Fits(h, reply)
    BY <1>10, <2>2, <2>3, <2>4 DEF Fits
  <2> QED
    BY <1>1, <1>10, <2>1, <2>5 DEF reply
<1>11. ASSUME NEW s \in Jobs, after[s].state = "UNSENT", job' = Send(after, id, s),
              Answer(h, AnswerTo(h, after, {s}))
       PROVE  Moves(h) /\ \E reply : Answer(h, reply) /\ Fits(h, reply)
  <2> DEFINE reply == AnswerTo(h, after, {s})
  <2>1. job[s].state = "UNSENT"
    BY <1>7, <1>11
  <2>2. \A j \in Jobs : job'[j] = IF j = s THEN [state |-> "IN_PROGRESS", host |-> id] ELSE after[j]
    BY <1>6, <1>11 DEF Send
  <2>3. Moves(h)
    BY <1>1, <1>7, <2>1, <2>2 DEF Moves
  <2>4. \A j \in Reported(req) : job[j].state = "UNSENT" \/ Received(j)'
    BY <1>3, <1>7, <1>8, <2>1, <2>2 DEF Received
  <2>5. /\ reply.hostid = cgi[h].tell /\ reply.acks = Reported(req) /\ reply.jobs = {s}
        /\ \A j \in reply.aborts : j \in req.others /\ j \in Jobs
              /\ (after[j].host # id \/ after[j].state \notin {"IN_PROGRESS", "NO_REPLY"})
        /\ \A j \in reply.unstarted : j \in Jobs /\ after[j].state = "NO_REPLY"
    BY <1>9
  <2> HIDE DEF reply
  <2>6. \A j \in reply.unstarted : job'[j].state = "NO_REPLY"
    BY <1>11, <2>2, <2>5
  <2>7. \A j \in reply.aborts :
           /\ j \in req.others
           /\ \/ job[j].state = "UNSENT" \/ job'[j].host # id
              \/ job'[j].state \notin {"IN_PROGRESS", "NO_REPLY"}
    BY <2>1, <2>2, <2>5
  <2>8. Fits(h, reply)
    BY <2>2, <2>4, <2>5, <2>6, <2>7 DEF Fits
  <2> QED
    BY <1>11, <2>3, <2>8 DEF reply
<1> QED
  BY <1>1, <1>2, <1>10, <1>11 DEF after, rows

LEMMA ProcessMoves ==
    ASSUME TypesInv, NEW h \in Handlers, Handle(h) \/ Vanish(h)
    PROVE  /\ Moves(h)
           /\ \A g \in Handlers : cgi'[g].pc # "idle" =>
                 cgi[g].pc # "idle" /\ cgi'[g].req = cgi[g].req
           /\ \/ conn' = conn
              \/ /\ conn.phase = "open" /\ conn.via = h /\ cgi[h].pc = "authenticated"
                 /\ \E reply : conn' = [phase |-> "replied", reply |-> reply] /\ Fits(h, reply)
<1>1. ServerTypes /\ cgi \in [Handlers -> {Idle} \cup Arrived \cup Authenticated]
  BY DEF TypesInv, ServerTypes
<1>2. ASSUME cgi' = [cgi EXCEPT ![h] = Idle]
      PROVE  \A g \in Handlers : cgi'[g].pc # "idle" =>
                cgi[g].pc # "idle" /\ cgi'[g].req = cgi[g].req
  BY <1>1, <1>2 DEF Idle
<1>3. ASSUME NEW p, cgi' = [cgi EXCEPT ![h] = p], p.req = cgi[h].req, cgi[h].pc = "arrived"
      PROVE  \A g \in Handlers : cgi'[g].pc # "idle" =>
                cgi[g].pc # "idle" /\ cgi'[g].req = cgi[g].req
  BY <1>1, <1>3
<1>4. ASSUME job' = job
      PROVE  Moves(h)
  BY <1>4 DEF Moves
<1>5. CASE Authenticate(h)
  <2>1. conn' = conn /\ cgi[h].pc = "arrived"
    BY <1>5 DEF Authenticate
  <2>2. ASSUME NEW id \in Ids, ReuseHost(h, id)
        PROVE  Moves(h) /\ \A g \in Handlers : cgi'[g].pc # "idle" =>
                              cgi[g].pc # "idle" /\ cgi'[g].req = cgi[g].req
    <3> DEFINE p == [pc |-> "authenticated", req |-> cgi[h].req, host |-> id,
                     initial |-> hosts[id].seqno, seqno |-> 0, tell |-> id]
    <3>1. cgi' = [cgi EXCEPT ![h] = p]
          /\ job' = IF cgi[h].req.others = {} THEN MarkResultsOver(id) ELSE job
      BY <2>2 DEF ReuseHost
    <3>2. \A j \in Jobs : \/ MarkResultsOver(id)[j] = job[j]
                          \/ job[j].state = "IN_PROGRESS"
                                /\ MarkResultsOver(id)[j].state = "CLIENT_DETACHED"
      BY <1>1 DEF MarkResultsOver, ServerTypes
    <3>3. Moves(h)
      BY <3>1, <3>2 DEF Moves
    <3> QED
      BY <1>3, <2>1, <3>1, <3>3
  <2>3. CASE NewHost(h)
    <3> DEFINE p == [pc |-> "authenticated", req |-> cgi[h].req, host |-> Len(hosts) + 1,
                     initial |-> 0, seqno |-> 0, tell |-> Len(hosts) + 1]
    <3>1. cgi' = [cgi EXCEPT ![h] = p] /\ job' = job
      BY <2>3 DEF NewHost
    <3> QED
      BY <1>3, <1>4, <2>1, <3>1
  <2>4. CASE /\ cgi[h].req.hostid # 0 /\ SeqnoOk(cgi[h].req) /\ UNCHANGED <<hosts, job>>
             /\ cgi' = [cgi EXCEPT ![h] = [pc |-> "authenticated", req |-> cgi[h].req,
                                           host |-> cgi[h].req.hostid, seqno |-> cgi[h].req.seqno,
                                           initial |-> hosts[cgi[h].req.hostid].seqno, tell |-> 0]]
    <3> DEFINE p == [pc |-> "authenticated", req |-> cgi[h].req,
                     host |-> cgi[h].req.hostid, seqno |-> cgi[h].req.seqno,
                     initial |-> hosts[cgi[h].req.hostid].seqno, tell |-> 0]
    <3>1. cgi' = [cgi EXCEPT ![h] = p] /\ job' = job
      BY <2>4
    <3> QED
      BY <1>3, <1>4, <2>1, <3>1
  <2>5. \/ /\ cgi[h].req.hostid # 0 /\ SeqnoOk(cgi[h].req) /\ UNCHANGED <<hosts, job>>
           /\ cgi' = [cgi EXCEPT ![h] = [pc |-> "authenticated", req |-> cgi[h].req,
                                         host |-> cgi[h].req.hostid, seqno |-> cgi[h].req.seqno,
                                         initial |-> hosts[cgi[h].req.hostid].seqno, tell |-> 0]]
        \/ NewHost(h)
        \/ \E id \in Ids : ReuseHost(h, id)
    <3>1. /\ Ids # {} => Latest(Ids) \in Ids
          /\ WithCpid # {} => Latest(WithCpid) \in Ids
      BY <1>1, LatestIsIn DEF WithCpid, ServerTypes
    <3> QED
      BY <1>5, <3>1 DEF Authenticate
  <2> QED
    BY <2>1, <2>2, <2>3, <2>4, <2>5
<1>6. ASSUME NEW reply, Answer(h, reply), Fits(h, reply), cgi[h].pc = "authenticated"
      PROVE  /\ cgi' = [cgi EXCEPT ![h] = Idle]
             /\ \/ conn' = conn
                \/ /\ conn.phase = "open" /\ conn.via = h /\ cgi[h].pc = "authenticated"
                   /\ \E r : conn' = [phase |-> "replied", reply |-> r] /\ Fits(h, r)
  BY <1>6 DEF Answer
<1>7. CASE Refuse(h)
  <2> DEFINE reply == [hostid |-> cgi[h].tell, jobs |-> {}, acks |-> {}, aborts |-> {},
                       unstarted |-> {}]
  <2>1. cgi[h].pc = "authenticated" /\ Answer(h, reply) /\ job' = job
    BY <1>7 DEF Refuse
  <2>2. cgi' = [cgi EXCEPT ![h] = Idle]
    BY <2>1 DEF Answer
  <2>3. conn' = IF conn.phase = "open" /\ conn.via = h
                THEN [phase |-> "replied", reply |-> reply] ELSE conn
    BY <2>1 DEF Answer
  <2>4. Fits(h, reply)
    BY DEF Fits
  <2> HIDE DEF reply
  <2> QED
    BY <1>2, <1>4, <2>1, <2>2, <2>3, <2>4
<1>8. CASE Serve(h)
  BY <1>2, <1>6, <1>8, ServeMoves
<1>9. CASE Vanish(h)
  BY <1>2, <1>4, <1>9 DEF Vanish
<1> QED
  BY <1>5, <1>7, <1>8, <1>9 DEF Handle

(* A record only moves on: what holds of it for ever, and what no step of  *)
(* a process brings about.                                                 *)
LEMMA RecordsMoveOn ==
    ASSUME TypesInv, NEW h \in Handlers, Handle(h) \/ Vanish(h), UNCHANGED request
    PROVE  \A j \in Jobs :
              /\ Received(j) => Received(j)' /\ job'[j] = job[j]
              /\ Final(j) => Final(j)'
              /\ \A id : Sent(j, id) => Sent(j, id)'
              /\ Refused(j)' => Refused(j)
<1> TAKE j \in Jobs
<1>1. Moves(h)
  BY ProcessMoves
<1>2. \/ job'[j] = job[j]
      \/ job[j].state = "UNSENT" /\ job'[j].state = "IN_PROGRESS"
      \/ /\ job[j].state \in {"IN_PROGRESS", "NO_REPLY"}
         /\ job'[j].state \in {"SUCCESS", "CLIENT_ERROR", "NO_REPLY", "CLIENT_DETACHED"}
         /\ job'[j].state = "CLIENT_ERROR" => cgi[h].pc # "idle" /\ Refuses(cgi[h].req, j)
  BY <1>1 DEF Moves
<1>3. Received(j) => Received(j)' /\ job'[j] = job[j]
  BY <1>2 DEF Received
<1>4. Final(j) => Final(j)'
  BY <1>2 DEF Final
<1>5. \A id : Sent(j, id) => Sent(j, id)'
  BY <1>2 DEF Sent
<1>6. job'[j].state = "CLIENT_ERROR" => Refused(j)
  BY <1>2 DEF Refused
<1>7. conn'.phase # "none" => conn.phase # "none"
  BY ProcessMoves
<1>8. \A g \in Handlers : cgi'[g].pc # "idle" /\ Refuses(cgi'[g].req, j) => Refused(j)
  BY ProcessMoves DEF Refused
<1>9. Refused(j)' => \/ job'[j].state = "CLIENT_ERROR"
                     \/ \E g \in Handlers : cgi'[g].pc # "idle" /\ Refuses(cgi'[g].req, j)
                     \/ conn'.phase # "none" /\ Refuses(request, j)
  BY DEF Refused, Refuses
<1> QED
  BY <1>3, <1>4, <1>5, <1>6, <1>7, <1>8, <1>9 DEF Refused

LEMMA ProcessWork ==
    ASSUME TypesInv, SeqnosInv, WorkInv, NEW h \in Handlers, Polling,
           UNCHANGED <<memory, request, dirty, fileVars>>, Handle(h) \/ Vanish(h)
    PROVE  WorkInv'
<1>1. UNCHANGED <<hostid, results, completed, save, request>>
  BY DEF memory, fileVars
<1>2. /\ Held' = Held /\ Polling' = Polling
      /\ \A j : Stored(j)' = Stored(j)
  BY <1>1 DEF Held, Stored, Polling
<1>3. \A j \in Jobs : /\ Received(j) => Received(j)'
                      /\ \A id : Sent(j, id) => Sent(j, id)'
                      /\ Refused(j)' => Refused(j)
                      /\ Final(j) => Final(j)'
  BY <1>1, RecordsMoveOn
<1>4. HeldInv'
  <2>1. HeldAreSent(results, hostid)'
    BY <1>1, <1>3, WorkTypes DEF WorkInv, HeldInv, HeldAreSent
  <2>2. HeldAreSent(completed.results, completed.hostid)'
    BY <1>1, <1>3, WorkTypes DEF WorkInv, HeldInv, HeldAreSent
  <2> QED
    BY <2>1, <2>2 DEF HeldInv
<1>5. MemoryFollowsFile'
  BY <1>1, <1>2, <1>3, WorkTypes DEF WorkInv, MemoryFollowsFile, Stored
<1>6. RefusedAreStopped'
  BY <1>1, <1>2, <1>3 DEF WorkInv, RefusedAreStopped
<1>7. RequestIsCurrent'
  <2>1. conn'.phase # "none" => conn.phase # "none"
    BY ProcessMoves
  <2> QED
    BY <1>1, <1>3, <2>1, WorkTypes DEF WorkInv, RequestIsCurrent
<1>8. CASE conn' = conn
  <2>1. conn.phase = "replied" => conn.reply \in Replies
    BY ConnKinds DEF TypesInv
  <2>2. conn.phase = "replied" => /\ conn.reply.jobs \subseteq Jobs /\ conn.reply.acks \subseteq Jobs
                                  /\ conn.reply.aborts \subseteq Jobs
                                  /\ conn.reply.unstarted \subseteq Jobs
    BY <2>1 DEF Replies
  <2>3. ReplyIsCurrent'
    BY <1>1, <1>2, <1>3, <1>8, <2>2 DEF WorkInv, ReplyIsCurrent
  <2> QED
    BY <1>4, <1>5, <1>6, <1>7, <2>3 DEF WorkInv
<1>9. ASSUME NEW reply, conn' = [phase |-> "replied", reply |-> reply], Fits(h, reply),
             conn.phase = "open", conn.via = h, cgi[h].pc = "authenticated"
      PROVE  WorkInv'
  <2>1. /\ cgi[h].req = request
        /\ IF request.hostid # 0 THEN cgi[h].tell = 0 /\ cgi[h].host = request.hostid
                                 ELSE cgi[h].tell = cgi[h].host
        /\ cgi[h].host # 0
    BY <1>9, SeqnoTypes DEF SeqnosInv, OneAwaited
  <2> DEFINE id == IF reply.hostid # 0 THEN reply.hostid ELSE request.hostid
  <2>2. id = cgi[h].host
    BY <1>9, <2>1 DEF Fits
  <2>3. /\ \A j \in request.others \cup Reported(request) : j \in Jobs /\ Sent(j, request.hostid)
        /\ request.hostid = 0 => request.others = {}
    BY <1>9, WorkTypes DEF WorkInv, RequestIsCurrent
  <2>4. \A j \in reply.acks : Received(j)' /\ j \in Reported(request)
    BY <1>9, <2>1, <2>3 DEF Fits, Sent
  <2>5. \A j \in reply.aborts : Final(j)'
    <3> TAKE j \in reply.aborts
    <3>1. /\ j \in request.others
          /\ \/ job[j].state = "UNSENT" \/ job'[j].host # cgi[h].host
             \/ job'[j].state \notin {"IN_PROGRESS", "NO_REPLY"}
      BY <1>9, <2>1 DEF Fits
    <3>2. \A host : host = cgi[h].host => Sent(j, host) /\ Sent(j, host)'
      BY <1>3, <2>1, <2>3, <3>1
    <3>3. /\ job[j].state # "UNSENT" /\ job'[j].state # "UNSENT"
          /\ job'[j].state = "IN_PROGRESS" => job'[j].host = cgi[h].host
      BY <3>2 DEF Sent
    <3> QED
      BY <3>1, <3>3 DEF Final
  <2>6. \A j \in reply.unstarted : Final(j)'
    BY <1>9 DEF Fits, Final
  <2>7. \A j \in reply.jobs : /\ j \in Jobs /\ ~Received(j)' /\ ~Final(j)' /\ ~Received(j)
                              /\ Sent(j, id)'
    <3> TAKE j \in reply.jobs
    <3>1. j \in Jobs /\ job'[j].state = "IN_PROGRESS" /\ job'[j].host = id
      BY <1>9, <2>2 DEF Fits
    <3>2. ~Received(j)' /\ ~Final(j)' /\ Sent(j, id)'
      BY <3>1 DEF Received, Final, Sent
    <3> QED
      BY <1>3, <3>1, <3>2
  <2>8. reply.jobs \cap (reply.acks \cup reply.aborts \cup reply.unstarted) = {}
    BY <2>4, <2>5, <2>6, <2>7
  <2>9. \A j \in reply.jobs :
           /\ \A i \in DOMAIN results : results[i].job = j => ~results[i].acked
           /\ j \notin Held => ~Refused(j)' /\ ~Stored(j)
    <3> TAKE j \in reply.jobs
    <3>1. \A i \in DOMAIN results : results[i].job = j => ~results[i].acked
      BY <2>7 DEF WorkInv, HeldInv, HeldAreSent
    <3>2. j \notin Held => ~Refused(j)
      BY <2>7 DEF WorkInv, RefusedAreStopped
    <3>3. j \notin Held => ~Stored(j)
      BY <2>7 DEF WorkInv, MemoryFollowsFile, Stored
    <3> QED
      BY <1>3, <2>7, <3>1, <3>2, <3>3
  <2>10. ReplyIsCurrent'
    BY <1>1, <1>2, <1>9, <2>4, <2>5, <2>6, <2>7, <2>8, <2>9 DEF ReplyIsCurrent, Sent, Reported
  <2> QED
    BY <1>4, <1>5, <1>6, <1>7, <2>10 DEF WorkInv
<1> QED
  BY <1>8, <1>9, ProcessMoves

-----------------------------------------------------------------------------
LEMMA InitWork == Init => WorkInv
<1> SUFFICES ASSUME Init PROVE WorkInv
  OBVIOUS
<1>1. /\ results = <<>> /\ hostid = 0 /\ conn.phase = "none"
      /\ \A j \in Jobs : job[j].state = "UNSENT"
      /\ \A h \in Handlers : cgi[h].pc = "idle"
      /\ completed.results = <<>> /\ completed.hostid = 0
  BY DEF Init, HostRpcInit, SchedulerOpInit, FilesInit, Snapshot, NoConn, Idle
<1>2. HeldInv /\ MemoryFollowsFile
  BY <1>1 DEF HeldInv, HeldAreSent, MemoryFollowsFile
<1>3. RefusedAreStopped
  BY <1>1 DEF RefusedAreStopped, Refused
<1>4. RequestIsCurrent /\ ReplyIsCurrent
  BY <1>1 DEF RequestIsCurrent, ReplyIsCurrent
<1> QED
  BY <1>2, <1>3, <1>4 DEF WorkInv

LEMMA StutterWork == WorkInv /\ UNCHANGED vars => WorkInv'
<1> SUFFICES ASSUME WorkInv, UNCHANGED vars PROVE WorkInv'
  OBVIOUS
<1>1. UNCHANGED <<job, cgi, conn, request, hostid, results, completed, save>>
  BY DEF vars, memory, fileVars, hostVars
<1>2. \A j : Refused(j)' = Refused(j)
  BY <1>1 DEF Refused
<1>3. HeldInv' /\ MemoryFollowsFile' /\ Held' = Held /\ \A j : Stored(j)' = Stored(j)
  BY <1>1, HeldKept DEF Polling
<1>4. RefusedAreStopped' /\ RequestIsCurrent' /\ ReplyIsCurrent'
  BY <1>1, <1>2, <1>3, SameRecords DEF WorkInv, RefusedAreStopped, RequestIsCurrent, ReplyIsCurrent
<1> QED
  BY <1>3, <1>4 DEF WorkInv

LEMMA NextWork == TypesInv /\ SeqnosInv /\ WorkInv /\ [Next]_vars => WorkInv'
<1> SUFFICES ASSUME TypesInv, SeqnosInv, WorkInv, Next PROVE WorkInv'
  BY StutterWork
<1>1. ASSUME NEW chosen \in SUBSET (DOMAIN results), ScheduleCpus(chosen)
      PROVE  WorkInv'
  <2>1. Polling /\ UNCHANGED <<hosts, job, cgi, conn, request, hostid, completed, save>>
    BY <1>1 DEF ScheduleCpus, fileVars, hostVars
  <2> QED
    BY <1>1, <2>1, ScheduleCpusTypes, TasksWork
<1>2. ASSUME NEW i \in DOMAIN results, NEW from, NEW to, Advance(i, from, to),
             <<from, to>> \in {<<"running", "done">>, <<"aborting", "aborted">>}
      PROVE  WorkInv'
  <2>1. Polling /\ UNCHANGED <<hosts, job, cgi, conn, request, hostid, completed, save>>
    BY <1>2 DEF Advance, fileVars, hostVars
  <2>2. from \in Phases /\ to \in Phases
    BY <1>2 DEF Phases, Ready
  <2>3. /\ DOMAIN results' = DOMAIN results /\ results[i].phase = from
        /\ \A k \in DOMAIN results :
              /\ results'[k].job = results[k].job /\ results'[k].acked = results[k].acked
              /\ results'[k].phase = IF k = i THEN to ELSE results[k].phase
    BY <1>2, <2>2, AdvanceTypes
  <2> QED
    BY <1>2, <2>1, <2>3, TasksWork
<1>3. ASSUME NEW work \in BOOLEAN, InitOp(work) PROVE WorkInv'
  BY <1>3, RequestWork
<1>4. ASSUME NEW h \in Handlers, Polling, UNCHANGED <<memory, request, dirty, fileVars>>,
             Handle(h) \/ Vanish(h)
      PROVE  WorkInv'
  BY <1>4, ProcessWork
<1> QED
  BY <1>1, <1>2, <1>3, <1>4, NextCases, RetryWork, FailureWork, ReplyWork, GarbageCollectWork,
     SaveNowWork, BreakWork, SaveWork, RestartWork

THEOREM WorkIsSound == Spec => [](TypesInv /\ SeqnosInv /\ WorkInv)
<1>1. Init => TypesInv /\ SeqnosInv /\ WorkInv
  BY InitTypes, InitSeqnos, InitWork
<1>2. (TypesInv /\ SeqnosInv /\ WorkInv) /\ [Next]_vars => (TypesInv /\ SeqnosInv /\ WorkInv)'
  BY NextTypes, NextSeqnos, NextWork
<1> QED
  BY <1>1, <1>2, PTL DEF Spec

-----------------------------------------------------------------------------
(* What this means for each step.                                          *)

(* A process with the request of a client that works on a result gives it  *)
(* up neither as detached nor as lost (mark_results_over(),                *)
(* resend_lost_work()).                                                    *)
THEOREM LiveJobsAreSafe == Spec => LiveJobsNotGivenUp
<1>1. ASSUME TypesInv, SeqnosInv, WorkInv, NEW h \in Handlers, NEW j \in Jobs,
             Awaited(h), CgiStep(h), job[j].state = "IN_PROGRESS",
             job'[j].state \in {"CLIENT_DETACHED", "NO_REPLY"}
      PROVE  ~Working(j)
  <2>1. Moves(h)
    BY <1>1, ProcessMoves DEF CgiStep
  <2>2. j \notin cgi[h].req.others
    BY <1>1, <2>1 DEF Moves
  <2>3. conn.phase = "open" /\ cgi[h].req = request
    BY <1>1 DEF Awaited, SeqnosInv, OneAwaited
  <2> QED
    BY <1>1, <2>2, <2>3 DEF WorkInv, RequestIsCurrent, Working
<1>2. (TypesInv /\ SeqnosInv /\ WorkInv) /\ [Next]_vars =>
         [\A h \in Handlers, j \in Jobs :
             (Awaited(h) /\ CgiStep(h) /\ job[j].state = "IN_PROGRESS"
                 /\ job'[j].state \in {"CLIENT_DETACHED", "NO_REPLY"})
             => ~Working(j)]_vars
  BY <1>1
<1> QED
  BY <1>2, WorkIsSound, PTL DEF Spec, LiveJobsNotGivenUp

(* The steps that change the client's list.                                *)
LEMMA ResultSteps ==
    ASSUME TypesInv, Next
    PROVE  \/ HandleReply \/ GarbageCollect \/ Restart
           \/ results' = results
           \/ /\ DOMAIN results' = DOMAIN results
              /\ \A i \in DOMAIN results :
                    /\ results'[i].job = results[i].job
                    /\ \/ results'[i].phase = results[i].phase
                       \/ results[i].phase = "new" /\ results'[i].phase = "running"
                       \/ results[i].phase = "running" /\ results'[i].phase = "done"
                       \/ results[i].phase = "aborting" /\ results'[i].phase = "aborted"
<1>1. ASSUME NEW chosen \in SUBSET (DOMAIN results), ScheduleCpus(chosen)
      PROVE  /\ DOMAIN results' = DOMAIN results
             /\ \A i \in DOMAIN results :
                   /\ results'[i].job = results[i].job
                   /\ \/ results'[i].phase = results[i].phase
                      \/ results[i].phase = "new" /\ results'[i].phase = "running"
  BY <1>1, ScheduleCpusTypes
<1>2. ASSUME NEW i \in DOMAIN results, NEW from, NEW to, Advance(i, from, to),
             <<from, to>> \in {<<"running", "done">>, <<"aborting", "aborted">>}
      PROVE  /\ DOMAIN results' = DOMAIN results /\ results[i].phase = from
             /\ \A k \in DOMAIN results :
                   /\ results'[k].job = results[k].job
                   /\ results'[k].phase = IF k = i THEN to ELSE results[k].phase
  <2>1. from \in Phases /\ to \in Phases
    BY <1>2 DEF Phases, Ready
  <2> QED
    BY <1>2, <2>1, AdvanceTypes
<1>3. ASSUME NEW work \in BOOLEAN, InitOp(work) PROVE results' = results
  BY <1>3, InitOpTypes
<1>4. ASSUME UNCHANGED memory PROVE results' = results
  BY <1>4 DEF memory
<1> QED
  BY <1>1, <1>2, <1>3, <1>4, NextCases, NextSchedulerTypes, FailureTypes, SaveNowTypes, BreakTypes,
     SaveTypes

(* A finished result leaves the client only after the scheduler has        *)
(* recorded it (handle_scheduler_reply(), garbage_collect_always(), and    *)
(* what a crash may undo).                                                 *)
THEOREM FinishedWorkIsKept == Spec => FinishedWorkIsRecorded
<1>1. ASSUME TypesInv, SeqnosInv, WorkInv, Next, NEW j \in Jobs, Done(j), j \notin Held'
      PROVE  job[j].state \in {"SUCCESS", "CLIENT_DETACHED"}
  <2>1. PICK i \in DOMAIN results : results[i].job = j /\ results[i].phase = "done"
    BY <1>1 DEF Done
  <2>2. job[j].state # "CLIENT_ERROR"
    BY <1>1, <2>1 DEF WorkInv, RefusedAreStopped, Refused, Stopped
  <2>3. results[i].acked => Received(j)
    BY <1>1, <2>1 DEF WorkInv, HeldInv, HeldAreSent
  <2>4. CASE HandleReply
    <3>1. conn.phase = "replied" /\ (results[i].acked \/ j \in conn.reply.acks)
      BY <1>1, <2>1, <2>4, ReplyChanges, HandleReplyTypes
    <3>2. Received(j)
      BY <1>1, <2>3, <3>1 DEF WorkInv, ReplyIsCurrent
    <3> QED
      BY <2>2, <3>2 DEF Received
  <2>5. CASE GarbageCollect
    <3>1. results \in Seq(Entries) /\ results' = GarbageCollected(results)
      BY <1>1, <2>5 DEF GarbageCollect, TypesInv, MemoryTypes
    <3>2. Deletable(results[i])
      BY <1>1, <2>1, <3>1, CollectionKeeps DEF Held
    <3> QED
      BY <2>2, <2>3, <3>2 DEF Deletable, Received
  <2>6. CASE Restart
    <3>1. Stored(j)
      BY <1>1, <2>1 DEF WorkInv, MemoryFollowsFile
    <3>2. results' = completed.results \/ results' = Snapshot.results
      BY <1>1, <2>6, RestartTypes
    <3>3. results' = completed.results => j \in Held'
      BY <3>1 DEF Stored, Held
    <3>4. results' = Snapshot.results => j \in Held'
      BY <1>1, <2>1, SnapshotIsLike DEF Held
    <3> QED
      BY <1>1, <3>2, <3>3, <3>4
  <2>7. ASSUME DOMAIN results' = DOMAIN results, results'[i].job = results[i].job
        PROVE  FALSE
    BY <1>1, <2>1, <2>7 DEF Held
  <2> QED
    BY <1>1, <2>4, <2>5, <2>6, <2>7, ResultSteps
<1>2. (TypesInv /\ SeqnosInv /\ WorkInv) /\ [Next]_vars =>
         [\A j \in Jobs : Done(j) /\ j \notin Held'
             => job[j].state \in {"SUCCESS", "CLIENT_DETACHED"}]_vars
  BY <1>1
<1> QED
  BY <1>2, WorkIsSound, PTL DEF Spec, FinishedWorkIsRecorded

(* Work in progress is stopped only when it is no longer wanted            *)
(* (send_result_abort() and the client's answer to it); a crash does not   *)
(* bring a stopped result in the place of one that goes on.                *)
THEOREM WantedWorkGoesOn == Spec => AbortedWorkIsUnwanted
<1>1. ASSUME TypesInv, SeqnosInv, WorkInv, Next, NEW j \in Jobs, Working(j), j \in Held',
             ~Working(j)', ~Done(j)'
      PROVE  job[j].state # "IN_PROGRESS"
  <2>1. PICK i \in DOMAIN results : results[i].job = j /\ results[i].phase \notin Ready
    BY <1>1 DEF Working
  <2>2. PICK n \in DOMAIN results' : results'[n].job = j
    BY <1>1 DEF Held
  <2>3. results'[n].phase \in Ready /\ results'[n].phase # "done"
    BY <1>1, <2>2 DEF Working, Done
  <2>4. results'[n].phase \in Stopped
    BY <2>3 DEF Ready, Stopped
  <2>5. results[i].phase \in Unstopped /\ results[i].phase \notin Stopped
    BY <1>1, <2>1, WorkTypes DEF Phases, Unstopped, Ready, Stopped
  <2>6. \A k \in DOMAIN results : results[k].job = j => k = i
    BY <1>1, <2>1, WorkTypes
  <2>7. CASE HandleReply
    <3>1. j \in Held /\ conn.phase = "replied"
      BY <1>1, <2>1, <2>7, HandleReplyTypes DEF Held
    <3>2. PICK k \in DOMAIN results :
             /\ results[k].job = j
             /\ \/ results'[n].phase = results[k].phase
                \/ results[k].job \in conn.reply.aborts \cup conn.reply.unstarted
      BY <1>1, <2>2, <2>7, <3>1, ReplyChanges
    <3>3. j \in conn.reply.aborts \cup conn.reply.unstarted
      BY <2>4, <2>5, <2>6, <3>2
    <3> QED
      BY <1>1, <3>1, <3>3 DEF WorkInv, ReplyIsCurrent, Final
  <2>8. CASE GarbageCollect
    <3>1. results \in Seq(Entries) /\ results' = GarbageCollected(results)
      BY <1>1, <2>8 DEF GarbageCollect, TypesInv, MemoryTypes
    <3>2. PICK k \in DOMAIN results : results'[n] = results[k]
      BY <3>1, CollectionKeeps
    <3> QED
      BY <2>2, <2>4, <2>5, <2>6, <3>2
  <2>9. CASE Restart
    <3>1. results' = completed.results \/ results' = Snapshot.results
      BY <1>1, <2>9, RestartTypes
    <3>2. CASE results' = completed.results
      <4>1. completed.results[n].phase \in Unstopped
        BY <1>1, <2>1, <2>2, <2>5, <3>2 DEF WorkInv, MemoryFollowsFile
      <4> QED
        BY <2>4, <3>2, <4>1 DEF Unstopped, Stopped
    <3>3. CASE results' = Snapshot.results
      <4>1. n = i /\ results'[n].phase \in Unstopped
        BY <1>1, <2>2, <2>5, <2>6, <3>3, SnapshotIsLike
      <4> QED
        BY <2>4, <4>1 DEF Unstopped, Stopped
    <3> QED
      BY <3>1, <3>2, <3>3
  <2>10. ASSUME DOMAIN results' = DOMAIN results,
                \A k \in DOMAIN results :
                    /\ results'[k].job = results[k].job
                    /\ \/ results'[k].phase = results[k].phase
                       \/ results[k].phase = "new" /\ results'[k].phase = "running"
                       \/ results[k].phase = "running" /\ results'[k].phase = "done"
                       \/ results[k].phase = "aborting" /\ results'[k].phase = "aborted"
         PROVE  FALSE
    <3>1. n = i
      BY <2>2, <2>6, <2>10
    <3> QED
      BY <2>4, <2>5, <2>10, <3>1 DEF Unstopped, Stopped
  <2>11. results' # results
    BY <2>2, <2>4, <2>5, <2>6
  <2> QED
    BY <1>1, <2>7, <2>8, <2>9, <2>10, <2>11, ResultSteps
<1>2. (TypesInv /\ SeqnosInv /\ WorkInv) /\ [Next]_vars =>
         [\A j \in Jobs : Working(j) /\ j \in Held' /\ ~Working(j)' /\ ~Done(j)'
             => job[j].state # "IN_PROGRESS"]_vars
  BY <1>1
<1> QED
  BY <1>2, WorkIsSound, PTL DEF Spec, AbortedWorkIsUnwanted
=============================================================================
