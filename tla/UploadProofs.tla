---------------------------- MODULE UploadProofs ----------------------------
(***************************************************************************)
(* Proofs about Upload, for every size of the file and of a block, every   *)
(* list of upload URLs and any number of data servers and handlers.        *)
(***************************************************************************)
EXTENDS Upload, SequenceTheorems, TLAPS

-----------------------------------------------------------------------------
(* The inductive invariants.                                               *)

Statuses == {"http", "transient", "permanent", "success"}
RepliesTo == {NoReply} \cup [status : Statuses, size : Int]
Queries == [kind : {"query"}, store : Stores, offset : Int,
            via : {NoHandler}, moved : BOOLEAN, reply : RepliesTo]
Posts == [kind : {"post"}, store : Stores, offset : Nat,
          via : Handlers \cup {NoHandler}, moved : BOOLEAN, reply : RepliesTo]
HttpOps == {NoOp} \cup Queries \cup Posts \cup [kind : {"over"}, moved : BOOLEAN]
Handlings == [pc : {"open", "check", "copy"}, store : Stores, offset : 0..nbytes,
              left : 0..nbytes, pos : 0..nbytes, fd : {"none", "open", "orphan"}]

(* The servers, their handlers and the connection.                         *)
ServerTypes ==
    /\ nbytes \in Nat
    /\ stored \in [Stores -> {NoFile} \cup Seq(Int)]
    /\ readOnly \subseteq Stores /\ removed \subseteq Stores
    /\ handler \in [Handlers -> {Idle} \cup Handlings]
    /\ http \in HttpOps
    /\ trouble \in BOOLEAN

FileStatuses == {"FILE_PRESENT", "FILE_NOT_PRESENT"} \cup FileErrors
ResultStates == {"FILES_UPLOADING", "FILES_UPLOADED", "UPLOAD_FAILED"}

(* The client, and how its transfer fits its connection.                   *)
ClientTypes ==
    /\ [urls |-> urls, nbytes |-> nbytes, sticky |-> sticky] \in Files
    /\ local \in BOOLEAN /\ uploaded \in BOOLEAN /\ late \in BOOLEAN
    /\ status \in FileStatuses
    /\ saved \in [status : FileStatuses, uploaded : BOOLEAN, result : ResultStates,
                  transfer : BOOLEAN]
    /\ uploadOffset \in Int
    /\ url \in [cur : -1..(Len(urls) - 1), start : {-1, 0}]
    /\ pfx \in {"none", "waiting", "due", "active", "done"}
    /\ outcome \in Statuses \cup {"none"}
    /\ (pfx = "active") = (http.kind # "none")
    /\ (outcome # "none") = (http.kind = "over")
    /\ result \in ResultStates
    /\ upsets \in 0..MaxUpsets

(* A handler writes where it should: what it has still to write begins at  *)
(* its position, and the file is at least that long.                       *)
WritesInPlace(h) ==
    LET r == handler[h]
    IN r # Idle =>
          /\ r.pc # "copy" => r.left = nbytes - r.offset
          /\ r.pc = "copy" => r.left = nbytes - r.pos
          /\ r.pc # "open" => r.fd # "none"
          /\ r.fd = "open" => stored[r.store] # NoFile
          /\ r.pc = "copy" /\ r.fd = "open" => Len(stored[r.store]) >= r.pos
          /\ r.fd = "orphan" => r.store \in removed

HandlersWriteInPlace == \A h \in Handlers : WritesInPlace(h)

(* Only a complete file is write protected.                                *)
ReadOnlyIsComplete == \A s \in readOnly : stored[s] = Whole

(* Wherever the client, or what is on its way to it, says that the file is *)
(* on a server, it is; and only an empty file is not asked for first.      *)
SuccessIsTrue ==
    /\ http.kind = "query" => nbytes # 0
    /\ http.kind = "query" /\ http.reply.status = "success" /\ http.reply.size >= nbytes => Stored
    /\ http.kind = "post" /\ http.reply.status = "success" => Stored
    /\ http.kind = "post" /\ http.offset >= nbytes => nbytes = 0 \/ Stored
    /\ uploadOffset >= nbytes => nbytes = 0 \/ Stored
    /\ outcome = "success" => Stored
    /\ pfx = "done" => Stored \/ HadFailure(status)

UploadInv ==
    /\ ServerTypes /\ ClientTypes
    /\ StoredFileIsPrefix /\ HandlersWriteInPlace
    /\ ReadOnlyIsComplete /\ SuccessIsTrue

-----------------------------------------------------------------------------
(* Facts about the operators.                                              *)

Beginning(file) == Len(file) <= nbytes /\ \A i \in DOMAIN file : file[i] = i

(* Writing in place takes nothing away and leaves a beginning of the file. *)
LEMMA WritingInPlace ==
    ASSUME nbytes \in Nat, NEW file \in Seq(Int), Beginning(file),
           NEW pos \in Nat, pos <= Len(file), NEW n \in Nat, pos + n <= nbytes,
           NEW data, data = [i \in 1..n |-> pos + i]
    PROVE  /\ Overwritten(file, pos, data) \in Seq(Int)
           /\ Beginning(Overwritten(file, pos, data))
           /\ Len(Overwritten(file, pos, data)) >= Len(file)
           /\ Len(Overwritten(file, pos, data)) >= pos + n
<1>1. data \in Seq(Int) /\ Len(data) = n
  OBVIOUS
<1> DEFINE new == Overwritten(file, pos, data)
           size == IF Len(file) > pos + n THEN Len(file) ELSE pos + n
<1>2. Len(file) \in Nat /\ size \in Nat /\ DOMAIN file = 1..Len(file)
  OBVIOUS
<1>3. new = [i \in 1..size |-> IF i \in (pos + 1)..(pos + n) THEN data[i - pos]
                               ELSE IF i \in DOMAIN file THEN file[i] ELSE 0]
  BY <1>1 DEF Overwritten
<1>4. size >= Len(file) /\ size >= pos + n /\ size <= nbytes
  BY <1>2 DEF Beginning
<1>5. \A i \in 1..size : i \in (pos + 1)..(pos + n) \/ i \in 1..Len(file)
  BY <1>2
<1> HIDE DEF new, size
<1>6. \A i \in 1..size : new[i] = i
  <2>1. SUFFICES ASSUME NEW i \in 1..size PROVE new[i] = i
    OBVIOUS
  <2>2. CASE i \in (pos + 1)..(pos + n)
    <3>1. i - pos \in 1..n
      BY <1>2, <2>2
    <3>2. data[i - pos] = i
      BY <1>2, <3>1
    <3>3. QED
      BY <1>3, <2>1, <2>2, <3>2
  <2>3. CASE i \notin (pos + 1)..(pos + n)
    BY <1>2, <1>3, <1>5, <2>1, <2>3 DEF Beginning
  <2>4. QED
    BY <2>2, <2>3
<1>7. new \in Seq(Int) /\ Len(new) = size /\ DOMAIN new = 1..size
  <2>1. DOMAIN new = 1..size
    BY <1>3
  <2>2. new = [i \in 1..size |-> new[i]]
    BY <1>3
  <2>3. \A i \in 1..size : new[i] \in Int
    BY <1>6, <1>2
  <2>4. new \in [1..size -> Int]
    BY <2>2, <2>3
  <2>5. QED
    BY <1>2, <2>1, <2>4
<1>8. QED
  BY <1>2, <1>4, <1>6, <1>7 DEF Beginning, new

(* A beginning as long as the file is the file.                            *)
LEMMA WholeFile ==
    ASSUME nbytes \in Nat, NEW file \in Seq(Int), Beginning(file), Len(file) >= nbytes
    PROVE  file = Whole
<1>1. Len(file) = nbytes /\ DOMAIN file = 1..nbytes
  BY DEF Beginning
<1>2. file = [i \in 1..nbytes |-> file[i]]
  BY <1>1
<1>3. QED
  BY <1>1, <1>2 DEF Beginning, Whole

(* The size in a reply is never larger than the file.                      *)
LEMMA AsIntBound ==
    ASSUME NEW n \in Nat
    PROVE  AsInt(n) \in Int /\ AsInt(n) <= n
BY UploadHandlerAssumption DEF AsInt

(* An upload that is accepted starts with a handler in its first state.    *)
LEMMA HandlingType ==
    ASSUME nbytes \in Nat, NEW s \in Stores, NEW offset \in Nat, offset < nbytes
    PROVE  Handling(s, offset) \in Handlings
BY DEF Handling, Handlings

(* What a server has, as a sequence.                                       *)
LEMMA BytesType ==
    ASSUME ServerTypes, StoredFileIsPrefix, NEW s \in Stores
    PROVE  /\ Bytes(s) \in Seq(Int) /\ Beginning(Bytes(s)) /\ Bytes(s) # NoFile
           /\ stored[s] # NoFile => Bytes(s) = stored[s] /\ stored[s] \in Seq(Int)
<1>1. <<>> \in Seq(Int) /\ Len(<<>>) = 0 /\ DOMAIN <<>> = {}
  OBVIOUS
<1>2. stored[s] \in {NoFile} \cup Seq(Int) /\ nbytes \in Nat
  BY DEF ServerTypes
<1>3. Beginning(<<>>)
  BY <1>1, <1>2 DEF Beginning
<1>4. CASE stored[s] = NoFile
  BY <1>1, <1>3, <1>4, UploadHandlerAssumption DEF Bytes
<1>5. CASE stored[s] # NoFile
  BY <1>2, <1>5 DEF Bytes, Beginning, StoredFileIsPrefix
<1>6. QED
  BY <1>4, <1>5

(* A reply of which only the status is set.                                *)
LEMMA WithStatus ==
    ASSUME NEW r \in RepliesTo, NEW st \in Statuses
    PROVE  [r EXCEPT !.status = st] \in RepliesTo /\ [r EXCEPT !.status = st].status = st
<1>1. CASE r = NoReply
  <2>1. [r EXCEPT !.status = st] = [status |-> st, size |-> -1]
    BY <1>1 DEF NoReply
  <2>2. QED
    BY <2>1 DEF RepliesTo
<1>2. CASE r # NoReply
  BY <1>2 DEF RepliesTo
<1>3. QED
  BY <1>1, <1>2

(* An answer leaves a connection.                                          *)
LEMMA AnswerType ==
    ASSUME ServerTypes, NEW h \in Handlers, NEW st \in Statuses, Answer(h, st)
    PROVE  /\ http' \in HttpOps /\ http'.kind = http.kind
           /\ http.kind \in {"query", "post"} => http'.offset = http.offset
           /\ http' = http \/ (http.kind = "post" /\ http'.reply.status = st)
<1>1. http \in HttpOps
  BY DEF ServerTypes
<1>2. CASE Connected(h)
  <2>1. http \in Posts
    BY <1>1, <1>2 DEF HttpOps, Posts, Queries, NoOp, Connected
  <2>2. http' = [http EXCEPT !.reply = [NoReply EXCEPT !.status = st],
                             !.via = NoHandler, !.moved = TRUE]
    BY <1>2 DEF Answer
  <2>3. [NoReply EXCEPT !.status = st] \in RepliesTo /\ [NoReply EXCEPT !.status = st].status = st
    BY DEF NoReply, RepliesTo, Statuses
  <2>4. http' \in Posts
    BY <2>1, <2>2, <2>3 DEF Posts
  <2>5. QED
    BY <2>1, <2>2, <2>3, <2>4 DEF HttpOps, Posts
<1>3. CASE ~Connected(h)
  BY <1>1, <1>3 DEF Answer
<1>4. QED
  BY <1>2, <1>3

-----------------------------------------------------------------------------
(* What the servers do.                                                    *)

(* No file shrinks, and none is removed.                                   *)
Grows ==
    /\ nbytes' = nbytes /\ removed' = removed
    /\ stored' \in [Stores -> {NoFile} \cup Seq(Int)]
    /\ StoredFileIsPrefix'
    /\ \A s \in Stores : stored[s] # NoFile =>
          stored'[s] # NoFile /\ Len(stored'[s]) >= Len(stored[s])

(* What such a step leaves as it was.                                      *)
LEMMA GrowthIsSafe ==
    ASSUME ServerTypes, StoredFileIsPrefix, Grows
    PROVE  /\ \A s \in Stores : stored[s] = Whole => stored'[s] = Whole
           /\ Stored => Stored'
           /\ ReadOnlyIsComplete /\ readOnly' \subseteq readOnly => ReadOnlyIsComplete'
           /\ \A h \in Handlers :
                WritesInPlace(h) /\ handler'[h] = handler[h] => WritesInPlace(h)'
<1>1. Whole' = Whole
  BY DEF Grows, Whole
<1>2. \A s \in Stores : stored[s] = Whole => stored'[s] = Whole
  <2>1. SUFFICES ASSUME NEW s \in Stores, stored[s] = Whole PROVE stored'[s] = Whole
    OBVIOUS
  <2>2. Whole \in Seq(Int) /\ Len(Whole) = nbytes
    BY DEF ServerTypes, Whole
  <2>3. stored'[s] # NoFile /\ Len(stored'[s]) >= nbytes
    BY <2>1, <2>2, UploadHandlerAssumption DEF Grows
  <2>4. stored'[s] \in Seq(Int) /\ Beginning(stored'[s])
    BY <2>3 DEF Grows, StoredFileIsPrefix, Beginning
  <2>5. QED
    BY <2>3, <2>4, WholeFile DEF ServerTypes
<1>3. Stored => Stored'
  BY <1>1, <1>2 DEF Stored, Grows
<1>4. ReadOnlyIsComplete /\ readOnly' \subseteq readOnly => ReadOnlyIsComplete'
  BY <1>1, <1>2 DEF ReadOnlyIsComplete, ServerTypes
<1>5. ASSUME NEW h \in Handlers, WritesInPlace(h), handler'[h] = handler[h]
      PROVE  WritesInPlace(h)'
  <2>1. CASE handler[h] = Idle
    BY <1>5, <2>1 DEF WritesInPlace, Idle
  <2>2. CASE handler[h] # Idle
    <3>1. handler[h] \in Handlings
      BY <2>2 DEF ServerTypes
    <3>2. handler[h].store \in Stores /\ handler[h].pos \in Nat
      BY <3>1 DEF Handlings, ServerTypes
    <3>3. stored[handler[h].store] # NoFile =>
             /\ stored[handler[h].store] \in Seq(Int)
             /\ stored'[handler[h].store] \in Seq(Int)
      BY <3>2 DEF ServerTypes, Grows
    <3>4. QED
      BY <1>5, <2>2, <3>2, <3>3 DEF WritesInPlace, Grows, Idle
  <2>3. QED
    BY <2>1, <2>2
<1>6. QED
  BY <1>2, <1>3, <1>4, <1>5

(* Nothing in this step is taken for a success that is none.               *)
LEMMA TruthKept ==
    ASSUME SuccessIsTrue, nbytes' = nbytes, Stored => Stored',
           UNCHANGED <<uploadOffset, outcome, pfx, status>>,
           http'.kind = http.kind,
           http.kind \in {"query", "post"} => http'.offset = http.offset,
           \/ http' = http
           \/ /\ http.kind = "query" /\ http'.reply.status = "success"
                    /\ http'.reply.size >= nbytes => Stored'
              /\ http.kind = "post" /\ http'.reply.status = "success" => Stored'
    PROVE  SuccessIsTrue'
BY DEF SuccessIsTrue, HadFailure

(* The client's types, in a step of a server.                              *)
LEMMA ClientTypesKept ==
    ASSUME ClientTypes, UNCHANGED clientVars, http'.kind = http.kind
    PROVE  ClientTypes'
BY DEF ClientTypes, clientVars, fileVars, fipVars, xferVars, FileStatuses, ResultStates, Statuses

(* A file that is opened is created if it is not there.                    *)
LEMMA OpeningGrows ==
    ASSUME ServerTypes, StoredFileIsPrefix, NEW s \in Stores, NEW b \in BOOLEAN,
           nbytes' = nbytes, removed' = removed,
           stored' = IF b THEN [stored EXCEPT ![s] = Bytes(s)] ELSE stored
    PROVE  Grows /\ (b => stored'[s] = Bytes(s))
<1>1. Bytes(s) \in Seq(Int) /\ Beginning(Bytes(s)) /\ (stored[s] # NoFile => Bytes(s) = stored[s])
  BY BytesType
<1>2. \A t \in Stores : stored'[t] = IF b /\ t = s THEN Bytes(s) ELSE stored[t]
  BY DEF ServerTypes
<1>3. stored' \in [Stores -> {NoFile} \cup Seq(Int)]
  BY <1>1 DEF ServerTypes
<1>4. StoredFileIsPrefix'
  BY <1>1, <1>2 DEF StoredFileIsPrefix, Beginning
<1>5. \A t \in Stores : stored[t] # NoFile => Len(stored[t]) \in Nat
  BY DEF ServerTypes
<1>6. QED
  BY <1>1, <1>2, <1>3, <1>4, <1>5, UploadHandlerAssumption DEF Grows

(* What StoredBytesStay says of a step.                                    *)
BytesStay ==
    \A s \in Stores : stored[s] # NoFile /\ s \notin removed' =>
        stored'[s] # NoFile /\ Len(stored'[s]) >= Len(stored[s])

(* Nothing on the servers changes.                                         *)
LEMMA RestGrows ==
    ASSUME ServerTypes, StoredFileIsPrefix, UNCHANGED <<nbytes, stored, removed>>
    PROVE  Grows
<1>1. \A s \in Stores : stored[s] # NoFile => Len(stored[s]) \in Nat
  BY DEF ServerTypes
<1>2. QED
  BY <1>1 DEF Grows, ServerTypes, StoredFileIsPrefix

LEMMA GetFileSizeKeeps ==
    ASSUME UploadInv, GetFileSize, UNCHANGED clientVars
    PROVE  UploadInv' /\ BytesStay
<1>1. UNCHANGED <<nbytes, stored, readOnly, removed, handler, trouble>>
  BY DEF GetFileSize, serverVars
<1>2. Grows
  BY <1>1, RestGrows DEF UploadInv
<1>3. http \in Queries
  BY DEF GetFileSize, UploadInv, ServerTypes, HttpOps, Queries, Posts, NoOp
<1>4. PICK fails \in {FALSE, trouble} :
        LET s == http.store
            answer == IF fails \/ (stored[s] # NoFile /\ Locked(s))
                      THEN [status |-> "transient", size |-> -1]
                      ELSE [status |-> "success", size |-> AsInt(Len(Bytes(s)))]
        IN http' = [http EXCEPT !.reply = answer, !.moved = TRUE]
  BY DEF GetFileSize
<1> DEFINE s == http.store
<1>5. s \in Stores
  BY <1>3 DEF Queries
<1>6. Bytes(s) \in Seq(Int) /\ Beginning(Bytes(s)) /\ (stored[s] # NoFile => Bytes(s) = stored[s])
      /\ Len(Bytes(s)) \in Nat
  BY <1>5, BytesType DEF UploadInv
<1> DEFINE answer == IF fails \/ (stored[s] # NoFile /\ Locked(s))
                      THEN [status |-> "transient", size |-> -1]
                      ELSE [status |-> "success", size |-> AsInt(Len(Bytes(s)))]
<1>7. /\ http' = [http EXCEPT !.reply = answer, !.moved = TRUE]
      /\ answer \in RepliesTo
      /\ answer.status = "success" => answer.size = AsInt(Len(Bytes(s)))
  <2>1. [status |-> "transient", size |-> -1] \in RepliesTo
    BY DEF RepliesTo, Statuses
  <2>2. [status |-> "success", size |-> AsInt(Len(Bytes(s)))] \in RepliesTo
    BY <1>6, AsIntBound DEF RepliesTo, Statuses
  <2>3. QED
    BY <1>4, <2>1, <2>2
<1> HIDE DEF answer
<1>8. http' \in Queries /\ http'.reply = answer
  BY <1>3, <1>7 DEF Queries
<1>9. answer.status = "success" /\ answer.size >= nbytes => Stored'
  <2>1. SUFFICES ASSUME answer.status = "success", answer.size >= nbytes PROVE Stored
    BY <1>1, <1>2, GrowthIsSafe DEF UploadInv
  <2>2. Len(Bytes(s)) >= nbytes
    BY <1>6, <1>7, <2>1, AsIntBound DEF UploadInv, ServerTypes
  <2>3. nbytes # 0
    BY DEF GetFileSize, UploadInv, SuccessIsTrue
  <2>4. stored[s] # NoFile
    BY <2>2, <2>3 DEF Bytes, UploadInv, ServerTypes
  <2>5. QED
    BY <1>5, <1>6, <2>2, <2>4, WholeFile DEF Stored, UploadInv, ServerTypes
<1>10. SuccessIsTrue'
  <2>1. http.kind = "query" /\ http'.kind = "query" /\ http'.offset = http.offset
    BY <1>3, <1>7, <1>8 DEF Queries
  <2>2. UNCHANGED <<uploadOffset, outcome, pfx, status>>
    BY DEF clientVars, xferVars, fipVars
  <2>3. Stored => Stored'
    BY <1>2, GrowthIsSafe DEF UploadInv
  <2>4. QED
    BY <1>1, <1>8, <1>9, <2>1, <2>2, <2>3, TruthKept DEF UploadInv
<1>11. ServerTypes'
  BY <1>1, <1>8 DEF UploadInv, ServerTypes, HttpOps, Handlings
<1>12. ClientTypes'
  BY <1>3, <1>8, ClientTypesKept DEF UploadInv, Queries
<1>13. ReadOnlyIsComplete' /\ HandlersWriteInPlace' /\ BytesStay
  BY <1>1, <1>2, GrowthIsSafe DEF UploadInv, HandlersWriteInPlace, BytesStay, Grows
<1>14. QED
  BY <1>2, <1>10, <1>11, <1>12, <1>13 DEF UploadInv, Grows

(* What is left to show of a step of one handler.                          *)
LEMMA HandlerStepKeeps ==
    ASSUME UploadInv, UNCHANGED clientVars, Grows, NEW h \in Handlers,
           handler' \in [Handlers -> {Idle} \cup Handlings],
           \A k \in Handlers \ {h} : handler'[k] = handler[k],
           WritesInPlace(h)',
           readOnly' \subseteq Stores, ReadOnlyIsComplete', UNCHANGED trouble,
           http' \in HttpOps, http'.kind = http.kind,
           http.kind \in {"query", "post"} => http'.offset = http.offset,
           \/ http' = http
           \/ /\ http.kind = "post"
              /\ http'.reply.status = "success" => Stored'
    PROVE  UploadInv' /\ BytesStay
<1>1. ServerTypes'
  BY DEF UploadInv, ServerTypes, Grows, Handlings
<1>2. ClientTypes'
  BY ClientTypesKept DEF UploadInv
<1>3. HandlersWriteInPlace'
  BY GrowthIsSafe DEF UploadInv, HandlersWriteInPlace
<1>4. SuccessIsTrue'
  <2>1. UNCHANGED <<uploadOffset, outcome, pfx, status>>
    BY DEF clientVars, xferVars, fipVars
  <2>2. Stored => Stored'
    BY GrowthIsSafe DEF UploadInv
  <2>3. QED
    BY <2>1, <2>2, TruthKept DEF UploadInv, Grows
<1>5. QED
  BY <1>1, <1>2, <1>3, <1>4 DEF UploadInv, BytesStay, Grows

LEMMA AcceptUploadKeeps ==
    ASSUME UploadInv, NEW h \in Handlers, AcceptUpload(h), UNCHANGED clientVars
    PROVE  UploadInv' /\ BytesStay
<1>1. UNCHANGED <<nbytes, readOnly, removed, trouble>> /\ handler[h] = Idle
      /\ http.kind = "post" /\ nbytes \in Nat
  BY DEF AcceptUpload, UploadInv, ServerTypes
<1>2. http \in Posts
  BY <1>1 DEF UploadInv, ServerTypes, HttpOps, Queries, Posts, NoOp
<1> DEFINE s == http.store
           reply(st) == http' = [http EXCEPT !.reply.status = st, !.moved = TRUE]
<1>3. s \in Stores /\ http.offset \in Nat
  BY <1>2 DEF Posts
<1>4. PICK fails \in {FALSE, trouble} :
        LET emptyAccepted == nbytes = 0 /\ s \notin Refusing /\ ~fails
        IN /\ stored' = IF emptyAccepted THEN [stored EXCEPT ![s] = Bytes(s)] ELSE stored
           /\ IF s \in Refusing THEN reply("permanent") /\ UNCHANGED handler
              ELSE IF fails THEN reply("transient") /\ UNCHANGED handler
              ELSE IF http.offset >= nbytes THEN reply("success") /\ UNCHANGED handler
              ELSE /\ handler' = [handler EXCEPT ![h] = Handling(s, http.offset)]
                   /\ http' = [http EXCEPT !.via = h]
  BY DEF AcceptUpload
<1> DEFINE emptyAccepted == nbytes = 0 /\ s \notin Refusing /\ ~fails
<1>5. Grows /\ (emptyAccepted => stored'[s] = Bytes(s))
  <2>1. emptyAccepted \in BOOLEAN
    OBVIOUS
  <2>2. stored' = IF emptyAccepted THEN [stored EXCEPT ![s] = Bytes(s)] ELSE stored
    BY <1>4
  <2>3. QED
    BY <1>1, <1>3, <2>1, <2>2, OpeningGrows DEF UploadInv
<1>6. ReadOnlyIsComplete' /\ readOnly' \subseteq Stores
  BY <1>1, <1>5, GrowthIsSafe DEF UploadInv, ServerTypes
<1>7. WritesInPlace(h) /\ handler \in [Handlers -> {Idle} \cup Handlings] /\ Handlings' = Handlings
  BY <1>1 DEF UploadInv, HandlersWriteInPlace, ServerTypes, Handlings
<1>8. ASSUME NEW st \in Statuses, reply(st), UNCHANGED handler, st = "success" => Stored'
      PROVE  UploadInv' /\ BytesStay
  <2>1. http' \in Posts /\ http'.reply.status = st /\ http'.offset = http.offset
    BY <1>2, <1>8, WithStatus DEF Posts
  <2>2. http' \in HttpOps /\ http'.kind = "post"
    BY <2>1 DEF HttpOps, Posts
  <2>3. WritesInPlace(h)'
    BY <1>5, <1>7, <1>8, GrowthIsSafe DEF UploadInv
  <2>4. QED
    BY <1>1, <1>5, <1>6, <1>7, <1>8, <2>1, <2>2, <2>3, HandlerStepKeeps
<1>9. CASE s \in Refusing
  BY <1>4, <1>8, <1>9 DEF Statuses
<1>10. CASE s \notin Refusing /\ fails
  BY <1>4, <1>8, <1>10 DEF Statuses
<1>11. CASE s \notin Refusing /\ ~fails /\ http.offset >= nbytes
  <2>1. reply("success") /\ UNCHANGED handler
    BY <1>4, <1>11
  <2>2. nbytes = 0 \/ Stored
    BY <1>1, <1>11 DEF UploadInv, SuccessIsTrue
  <2>3. CASE nbytes = 0
    <3>1. stored'[s] = Bytes(s) /\ Bytes(s) \in Seq(Int) /\ Beginning(Bytes(s))
      BY <1>3, <1>5, <1>11, <2>3, BytesType DEF UploadInv
    <3>2. stored'[s] = Whole /\ Whole' = Whole
      BY <1>1, <2>3, <3>1, WholeFile DEF Whole
    <3>3. Stored'
      BY <1>3, <3>2 DEF Stored
    <3>4. QED
      BY <1>8, <2>1, <3>3 DEF Statuses
  <2>4. CASE Stored
    BY <1>5, <1>8, <2>1, <2>4, GrowthIsSafe DEF UploadInv, Statuses
  <2>5. QED
    BY <2>2, <2>3, <2>4
<1>12. CASE s \notin Refusing /\ ~fails /\ ~(http.offset >= nbytes)
  <2>1. /\ handler' = [handler EXCEPT ![h] = Handling(s, http.offset)]
        /\ http' = [http EXCEPT !.via = h]
    BY <1>4, <1>12
  <2>2. Handling(s, http.offset) \in Handlings
    BY <1>1, <1>3, <1>12, HandlingType
  <2>3. handler' \in [Handlers -> {Idle} \cup Handlings]
        /\ handler'[h] = Handling(s, http.offset)
        /\ \A k \in Handlers \ {h} : handler'[k] = handler[k]
    BY <1>7, <2>1, <2>2
  <2>4. WritesInPlace(h)'
    BY <1>1, <2>3 DEF WritesInPlace, Handling
  <2>5. http' \in HttpOps /\ http'.kind = "post" /\ http'.offset = http.offset
        /\ http'.reply = http.reply
    BY <1>2, <2>1 DEF HttpOps, Posts
  <2>6. http'.reply.status # "success"
    BY <2>5 DEF AcceptUpload, NoReply
  <2>7. QED
    BY <1>1, <1>5, <1>6, <2>3, <2>4, <2>5, <2>6, HandlerStepKeeps
<1>13. QED
  BY <1>9, <1>10, <1>11, <1>12

(* A handler that ends, and says success only of a file that is complete.  *)
LEMMA FinishKeeps ==
    ASSUME UploadInv, UNCHANGED clientVars, Grows, NEW h \in Handlers, NEW st \in Statuses,
           Finish(h, st), readOnly' \subseteq Stores, ReadOnlyIsComplete', UNCHANGED trouble,
           st = "success" => Stored'
    PROVE  UploadInv' /\ BytesStay
<1>1. handler' = [handler EXCEPT ![h] = Idle] /\ Answer(h, st)
  BY DEF Finish
<1>2. handler' \in [Handlers -> {Idle} \cup Handlings] /\ handler'[h] = Idle
      /\ \A k \in Handlers \ {h} : handler'[k] = handler[k]
  BY <1>1 DEF UploadInv, ServerTypes
<1>3. WritesInPlace(h)'
  BY <1>2 DEF WritesInPlace, Idle
<1>4. QED
  BY <1>1, <1>2, <1>3, AnswerType, HandlerStepKeeps DEF UploadInv

(* A handler that has a request is one.                                    *)
LEMMA HandlingFacts ==
    ASSUME UploadInv, NEW h \in Handlers, handler[h] # Idle
    PROVE  /\ handler[h] \in Handlings /\ handler[h].store \in Stores
           /\ {handler[h].offset, handler[h].left, handler[h].pos} \subseteq 0..nbytes
           /\ nbytes \in Nat /\ WritesInPlace(h)
BY DEF UploadInv, ServerTypes, Handlings, HandlersWriteInPlace

LEMMA OpenFileKeeps ==
    ASSUME UploadInv, NEW h \in Handlers, OpenFile(h), UNCHANGED clientVars
    PROVE  UploadInv' /\ BytesStay
<1> DEFINE s == handler[h].store
<1>1. UNCHANGED <<nbytes, readOnly, removed, trouble>> /\ handler[h].pc = "open"
  BY DEF OpenFile
<1>2. handler[h] # Idle
  BY <1>1 DEF Idle
<1>3. handler[h] \in Handlings /\ s \in Stores /\ WritesInPlace(h)
  BY <1>2, HandlingFacts
<1>4. PICK fails \in {FALSE, trouble} :
        LET opened == s \notin readOnly /\ ~fails
        IN /\ stored' = IF opened THEN [stored EXCEPT ![s] = Bytes(s)] ELSE stored
           /\ IF s \in readOnly THEN Finish(h, "success")
              ELSE IF fails \/ Locked(s) THEN Finish(h, "transient")
              ELSE /\ handler' = [handler EXCEPT ![h].fd = "open", ![h].pc = "check"]
                   /\ http' = IF Connected(h) THEN [http EXCEPT !.moved = TRUE] ELSE http
  BY DEF OpenFile
<1> DEFINE opened == s \notin readOnly /\ ~fails
<1>5. Grows /\ (opened => stored'[s] = Bytes(s))
  <2>1. opened \in BOOLEAN
    OBVIOUS
  <2>2. stored' = IF opened THEN [stored EXCEPT ![s] = Bytes(s)] ELSE stored
    BY <1>4
  <2>3. QED
    BY <1>1, <1>3, <2>1, <2>2, OpeningGrows DEF UploadInv
<1>6. ReadOnlyIsComplete' /\ readOnly' \subseteq Stores
  BY <1>1, <1>5, GrowthIsSafe DEF UploadInv, ServerTypes
<1>7. CASE s \in readOnly
  <2>1. Finish(h, "success")
    BY <1>4, <1>7
  <2>2. Stored
    BY <1>3, <1>7 DEF UploadInv, ReadOnlyIsComplete, Stored
  <2>3. QED
    BY <1>1, <1>5, <1>6, <2>1, <2>2, GrowthIsSafe, FinishKeeps DEF Statuses, UploadInv
<1>8. CASE s \notin readOnly /\ (fails \/ Locked(s))
  BY <1>1, <1>4, <1>5, <1>6, <1>8, FinishKeeps DEF Statuses
<1>9. CASE s \notin readOnly /\ ~(fails \/ Locked(s))
  <2>1. /\ handler' = [handler EXCEPT ![h].fd = "open", ![h].pc = "check"]
        /\ http' = IF Connected(h) THEN [http EXCEPT !.moved = TRUE] ELSE http
        /\ stored'[s] = Bytes(s)
    BY <1>4, <1>5, <1>9
  <2>2. handler'[h] \in Handlings /\ handler'[h].store = s /\ handler'[h].pc = "check"
        /\ handler'[h].left = handler[h].left /\ handler'[h].offset = handler[h].offset
        /\ handler'[h].fd = "open"
    BY <1>3, <2>1 DEF Handlings, UploadInv, ServerTypes
  <2>3. handler' \in [Handlers -> {Idle} \cup Handlings]
        /\ \A k \in Handlers \ {h} : handler'[k] = handler[k]
    BY <2>1, <2>2 DEF UploadInv, ServerTypes
  <2>4. WritesInPlace(h)'
    <3>1. Bytes(s) # NoFile
      BY <1>3, BytesType DEF UploadInv
    <3>2. QED
      BY <1>1, <1>2, <1>3, <2>1, <2>2, <3>1 DEF WritesInPlace
  <2>5. http' \in HttpOps /\ http'.kind = http.kind
        /\ (http.kind \in {"query", "post"} => http'.offset = http.offset)
        /\ (http' = http \/ (http.kind = "post" /\ http'.reply = http.reply))
    <3>1. CASE Connected(h)
      <4>1. http \in Posts
        BY <3>1 DEF Connected, UploadInv, ServerTypes, HttpOps, Queries, Posts, NoOp
      <4>2. http' = [http EXCEPT !.moved = TRUE]
        BY <2>1, <3>1
      <4>3. QED
        BY <4>1, <4>2 DEF HttpOps, Posts
    <3>2. CASE ~Connected(h)
      BY <2>1, <3>2 DEF UploadInv, ServerTypes
    <3>3. QED
      BY <3>1, <3>2
  <2>6. http' = http \/ (http.kind = "post" /\ (http'.reply.status = "success" => Stored'))
    BY <1>5, <2>5, GrowthIsSafe DEF UploadInv, SuccessIsTrue
  <2>7. QED
    BY <1>1, <1>5, <1>6, <2>3, <2>4, <2>5, <2>6, HandlerStepKeeps
<1>10. QED
  BY <1>7, <1>8, <1>9

LEMMA CheckSizeKeeps ==
    ASSUME UploadInv, NEW h \in Handlers, CheckSize(h), UNCHANGED clientVars
    PROVE  UploadInv' /\ BytesStay
<1> DEFINE r == handler[h]
<1>1. UNCHANGED <<nbytes, stored, readOnly, removed, trouble>> /\ r.pc = "check" /\ r # Idle
  BY DEF CheckSize, Idle
<1>2. Grows
  BY <1>1, RestGrows DEF UploadInv
<1>3. ReadOnlyIsComplete' /\ readOnly' \subseteq Stores
  BY <1>1, <1>2, GrowthIsSafe DEF UploadInv, ServerTypes
<1>4. r \in Handlings /\ r.store \in Stores /\ r.offset \in 0..nbytes /\ nbytes \in Nat
      /\ WritesInPlace(h)
  BY <1>1, HandlingFacts
<1>5. CASE LongEnough(r.store, r.offset)
  <2>1. handler' = [handler EXCEPT ![h].pos = r.offset, ![h].pc = "copy"] /\ UNCHANGED http
    BY <1>5 DEF CheckSize, SeekTo
  <2>2. handler'[h] \in Handlings /\ handler'[h].store = r.store /\ handler'[h].pc = "copy"
        /\ handler'[h].left = r.left /\ handler'[h].pos = r.offset /\ handler'[h].fd = r.fd
    BY <1>4, <2>1 DEF Handlings, UploadInv, ServerTypes
  <2>3. handler' \in [Handlers -> {Idle} \cup Handlings]
        /\ \A k \in Handlers \ {h} : handler'[k] = handler[k]
    BY <2>1, <2>2 DEF UploadInv, ServerTypes
  <2>4. WritesInPlace(h)'
    BY <1>1, <1>4, <1>5, <2>2 DEF WritesInPlace, LongEnough
  <2>5. QED
    BY <1>1, <1>2, <1>3, <2>1, <2>3, <2>4, HandlerStepKeeps DEF UploadInv, ServerTypes
<1>6. CASE ~LongEnough(r.store, r.offset)
  BY <1>1, <1>2, <1>3, <1>6, FinishKeeps DEF CheckSize, Statuses
<1>7. QED
  BY <1>5, <1>6

LEMMA DieKeeps ==
    ASSUME UploadInv, NEW h \in Handlers, Die(h), UNCHANGED clientVars
    PROVE  UploadInv' /\ BytesStay
<1>1. UNCHANGED <<nbytes, stored, readOnly, removed, trouble>> /\ Finish(h, "http")
  BY DEF Die
<1>2. Grows
  BY <1>1, RestGrows DEF UploadInv
<1>3. QED
  BY <1>1, <1>2, GrowthIsSafe, FinishKeeps DEF UploadInv, ServerTypes, Statuses

LEMMA CopyBlockKeeps ==
    ASSUME UploadInv, NEW h \in Handlers, CopyBlock(h), UNCHANGED clientVars
    PROVE  UploadInv' /\ BytesStay
<1> DEFINE r == handler[h]
           s == r.store
           want == Least(r.left, BlockSize)
<1>1. UNCHANGED <<nbytes, removed, trouble>> /\ r.pc = "copy" /\ r # Idle
  BY DEF CopyBlock, Idle
<1>2. r \in Handlings /\ s \in Stores /\ {r.offset, r.left, r.pos} \subseteq 0..nbytes
      /\ nbytes \in Nat /\ WritesInPlace(h)
  BY <1>1, HandlingFacts
<1>3. /\ r.pos = nbytes - r.left /\ r.fd \in {"open", "orphan"}
      /\ r.fd = "open" => stored[s] # NoFile /\ Len(stored[s]) >= r.pos
      /\ r.fd = "orphan" => s \in removed
  BY <1>1, <1>2 DEF WritesInPlace, Handlings
<1>4. want \in Nat /\ want <= r.left
  BY <1>2, UploadHandlerAssumption DEF Least
<1>5. PICK n \in Written(h, want), chmodFails \in {FALSE, trouble} :
        LET data == [i \in 1..n |-> nbytes - r.left + i]
            ends == n = want /\ r.left = n
        IN /\ stored' = IF r.fd = "open"
                        THEN [stored EXCEPT ![s] = Overwritten(@, r.pos, data)] ELSE stored
           /\ readOnly' = IF ends /\ CompletedReadOnly /\ ~chmodFails /\ r.fd = "open"
                          THEN readOnly \cup {s} ELSE readOnly
           /\ IF n # want THEN Finish(h, "transient")
              ELSE IF ends THEN Finish(h, "success")
              ELSE /\ handler' = [handler EXCEPT ![h].left = @ - n, ![h].pos = @ + n]
                   /\ UNCHANGED http
  BY DEF CopyBlock
<1> DEFINE data == [i \in 1..n |-> nbytes - r.left + i]
           ends == n = want /\ r.left = n
<1>6. n \in Nat /\ n <= r.left /\ r.pos + n <= nbytes
  BY <1>2, <1>3, <1>4, <1>5 DEF Written
<1>7. /\ Grows
      /\ r.fd = "open" => stored'[s] \in Seq(Int) /\ Beginning(stored'[s])
                          /\ stored'[s] # NoFile /\ Len(stored'[s]) >= r.pos + n
  <2>1. CASE r.fd = "open"
    <3>1. stored[s] \in Seq(Int) /\ Beginning(stored[s])
      BY <1>2, <1>3, <2>1, BytesType DEF UploadInv
    <3>2. data = [i \in 1..n |-> r.pos + i]
      BY <1>3
    <3> DEFINE new == Overwritten(stored[s], r.pos, data)
    <3> HIDE DEF data
    <3>3. new \in Seq(Int) /\ Beginning(new) /\ Len(new) >= Len(stored[s])
          /\ Len(new) >= r.pos + n
      BY <1>2, <1>3, <1>6, <2>1, <3>1, <3>2, WritingInPlace
    <3>4. stored' = [stored EXCEPT ![s] = new]
      BY <1>5, <2>1 DEF data
    <3> HIDE DEF new
    <3>5. \A t \in Stores : stored'[t] = IF t = s THEN new ELSE stored[t]
      BY <3>4 DEF UploadInv, ServerTypes
    <3>6. stored' \in [Stores -> {NoFile} \cup Seq(Int)]
      BY <3>3, <3>4 DEF UploadInv, ServerTypes
    <3>7. StoredFileIsPrefix'
      BY <1>1, <3>3, <3>5 DEF UploadInv, StoredFileIsPrefix, Beginning
    <3>8. \A t \in Stores : stored[t] # NoFile => Len(stored[t]) \in Nat
      BY DEF UploadInv, ServerTypes
    <3>9. new # NoFile /\ Beginning(stored'[s])
      BY <1>1, <1>2, <3>3, <3>5, UploadHandlerAssumption DEF Beginning
    <3>10. \A t \in Stores : stored[t] # NoFile =>
              stored'[t] # NoFile /\ Len(stored'[t]) >= Len(stored[t])
      BY <3>3, <3>5, <3>8, <3>9
    <3>11. Grows
      BY <1>1, <3>6, <3>7, <3>10 DEF Grows
    <3>12. QED
      BY <1>2, <3>3, <3>5, <3>9, <3>11
  <2>2. CASE r.fd # "open"
    BY <1>1, <1>5, <2>2, RestGrows DEF UploadInv
  <2>3. QED
    BY <2>1, <2>2
<1>8. ends /\ r.fd = "open" => stored'[s] = Whole
  BY <1>2, <1>3, <1>6, <1>7, WholeFile
<1>9. Whole' = Whole
  BY <1>1 DEF Whole
<1>10. ends => Stored'
  BY <1>1, <1>2, <1>3, <1>8, <1>9 DEF Stored
<1>11. ReadOnlyIsComplete' /\ readOnly' \subseteq Stores
  <2>1. readOnly' = readOnly \/ (ends /\ r.fd = "open" /\ readOnly' = readOnly \cup {s})
    BY <1>5
  <2>2. \A t \in readOnly : stored'[t] = Whole
    BY <1>7, GrowthIsSafe DEF UploadInv, ReadOnlyIsComplete, ServerTypes
  <2>3. readOnly \subseteq Stores
    BY DEF UploadInv, ServerTypes
  <2>4. QED
    BY <1>2, <1>8, <1>9, <2>1, <2>2, <2>3 DEF ReadOnlyIsComplete
<1>12. CASE n # want
  BY <1>1, <1>5, <1>7, <1>11, <1>12, FinishKeeps DEF Statuses
<1>13. CASE ends
  BY <1>1, <1>5, <1>7, <1>10, <1>11, <1>13, FinishKeeps DEF Statuses
<1>14. CASE n = want /\ ~ends
  <2>1. handler' = [handler EXCEPT ![h].left = @ - n, ![h].pos = @ + n] /\ UNCHANGED http
    BY <1>5, <1>14
  <2>2. handler'[h] \in Handlings /\ handler'[h].store = s /\ handler'[h].pc = "copy"
        /\ handler'[h].left = r.left - n /\ handler'[h].pos = r.pos + n /\ handler'[h].fd = r.fd
    <3>1. handler'[h] = [r EXCEPT !.left = r.left - n, !.pos = r.pos + n]
      BY <2>1 DEF UploadInv, ServerTypes
    <3>2. r.left - n \in 0..nbytes /\ r.pos + n \in 0..nbytes
      BY <1>2, <1>6
    <3>3. QED
      BY <1>1, <1>2, <3>1, <3>2 DEF Handlings
  <2>3. handler' \in [Handlers -> {Idle} \cup Handlings]
        /\ \A k \in Handlers \ {h} : handler'[k] = handler[k]
    BY <2>1, <2>2 DEF UploadInv, ServerTypes
  <2>4. WritesInPlace(h)'
    BY <1>1, <1>2, <1>3, <1>6, <1>7, <2>2 DEF WritesInPlace
  <2>5. QED
    BY <1>1, <1>7, <1>11, <2>1, <2>3, <2>4, HandlerStepKeeps DEF UploadInv, ServerTypes
<1>15. QED
  BY <1>12, <1>13, <1>14

LEMMA RemoveFileKeeps ==
    ASSUME UploadInv, NEW s \in Stores, RemoveFile(s), UNCHANGED clientVars
    PROVE  UploadInv' /\ BytesStay
<1>1. UNCHANGED <<nbytes, http, trouble>> /\ stored' = [stored EXCEPT ![s] = NoFile]
      /\ readOnly' = readOnly \ {s} /\ removed' = removed \cup {s}
      /\ handler' = [h \in Handlers |-> IF HasLock(h, s) THEN [handler[h] EXCEPT !.fd = "orphan"]
                                        ELSE handler[h]]
  BY DEF RemoveFile
<1>2. \A t \in Stores : stored'[t] = IF t = s THEN NoFile ELSE stored[t]
  BY <1>1 DEF UploadInv, ServerTypes
<1>3. Whole' = Whole /\ Handlings' = Handlings
  BY <1>1 DEF Whole, Handlings
<1>4. \A h \in Handlers : HasLock(h, s) => handler[h] \in Handlings
  BY DEF HasLock, Idle, UploadInv, ServerTypes
<1>5. ServerTypes'
  <2>1. \A h \in Handlers : handler'[h] \in {Idle} \cup Handlings
    BY <1>1, <1>4 DEF UploadInv, ServerTypes, Handlings
  <2>2. handler' \in [Handlers -> {Idle} \cup Handlings']
    BY <1>1, <1>3, <2>1
  <2>3. QED
    BY <1>1, <2>2 DEF UploadInv, ServerTypes
<1>6. StoredFileIsPrefix'
  BY <1>1, <1>2 DEF UploadInv, StoredFileIsPrefix
<1>7. HandlersWriteInPlace'
  <2>1. SUFFICES ASSUME NEW h \in Handlers PROVE WritesInPlace(h)'
    BY DEF HandlersWriteInPlace
  <2>2. WritesInPlace(h)
    BY DEF UploadInv, HandlersWriteInPlace
  <2>3. CASE HasLock(h, s)
    <3>1. handler[h] \in Handlings
      BY <1>4, <2>3
    <3>2. handler'[h] = [handler[h] EXCEPT !.fd = "orphan"]
      BY <1>1, <2>3
    <3>3. QED
      BY <1>1, <2>2, <2>3, <3>1, <3>2 DEF WritesInPlace, Handlings, Idle, HasLock
  <2>4. CASE ~HasLock(h, s)
    <3>1. handler'[h] = handler[h]
      BY <1>1, <2>4
    <3>2. CASE handler[h] = Idle
      BY <3>1, <3>2 DEF WritesInPlace
    <3>3. CASE handler[h] # Idle
      <4>1. handler[h] \in Handlings /\ handler[h].store \in Stores
        BY <3>3, HandlingFacts
      <4>2. handler[h].fd = "open" => handler[h].store # s
        BY <2>4, <4>1 DEF HasLock, Handlings
      <4>3. handler[h].fd = "open" => stored'[handler[h].store] = stored[handler[h].store]
        BY <1>2, <4>1, <4>2
      <4>4. removed \subseteq removed' /\ nbytes' = nbytes
        BY <1>1
      <4>5. QED
        BY <2>2, <3>1, <4>3, <4>4 DEF WritesInPlace
    <3>4. QED
      BY <3>2, <3>3
  <2>5. QED
    BY <2>3, <2>4
<1>8. ReadOnlyIsComplete'
  BY <1>1, <1>2, <1>3 DEF UploadInv, ReadOnlyIsComplete, ServerTypes
<1>9. SuccessIsTrue'
  <2>1. Stored => Stored'
    BY <1>1, <1>2, <1>3 DEF Stored
  <2>2. UNCHANGED <<uploadOffset, outcome, pfx, status>>
    BY DEF clientVars, xferVars, fipVars
  <2>3. QED
    BY <1>1, <2>1, <2>2, TruthKept DEF UploadInv
<1>10. BytesStay
  <2>1. \A t \in Stores : stored[t] # NoFile => Len(stored[t]) \in Nat
    BY DEF UploadInv, ServerTypes
  <2>2. QED
    BY <1>1, <1>2, <2>1 DEF BytesStay
<1>11. ClientTypes'
  BY <1>1, ClientTypesKept DEF UploadInv
<1>12. QED
  BY <1>5, <1>6, <1>7, <1>8, <1>9, <1>10, <1>11 DEF UploadInv

-----------------------------------------------------------------------------
(* What the client does.                                                   *)

UrlIndices == [cur : -1..(Len(urls) - 1), start : {-1, 0}]

(* What is known of the file.                                              *)
LEMMA FileFacts ==
    ASSUME ClientTypes
    PROVE  /\ urls \in Seq(Stores) /\ Len(urls) \in Nat \ {0}
           /\ nbytes \in Nat /\ sticky \in BOOLEAN
<1> DEFINE f == [urls |-> urls, nbytes |-> nbytes, sticky |-> sticky]
<1>1. f \in [urls : Seq(Stores) \ {<<>>}, nbytes : Nat, sticky : BOOLEAN]
  BY FileTransferAssumption DEF ClientTypes
<1>2. f.urls = urls /\ f.nbytes = nbytes /\ f.sticky = sticky
  OBVIOUS
<1>3. urls \in Seq(Stores) /\ urls # <<>> /\ nbytes \in Nat /\ sticky \in BOOLEAN
  BY <1>1, <1>2
<1>4. QED
  BY <1>3

(* The index into the list of URLs stays in the list.                      *)
LEMMA UrlFacts ==
    ASSUME ClientTypes, NEW u \in UrlIndices
    PROVE  /\ NextUrl(u) \in UrlIndices
           /\ CurrentUrl(u) \in UrlIndices /\ ServerOf(CurrentUrl(u)) \in Stores
<1>1. urls \in Seq(Stores) /\ Len(urls) \in Nat \ {0}
  BY FileFacts
<1>2. u.cur \in -1..(Len(urls) - 1)
  BY DEF UrlIndices
<1>3. u.cur + 1 \in Nat
  BY <1>1, <1>2
<1>4. (u.cur + 1) % Len(urls) \in 0..(Len(urls) - 1)
  BY <1>1, <1>3
<1>5. NextUrl(u) \in UrlIndices
  BY <1>1, <1>4 DEF NextUrl, UrlIndices
<1>6. CurrentUrl(u) \in UrlIndices /\ CurrentUrl(u).cur \in 0..(Len(urls) - 1)
  BY <1>1, <1>2 DEF CurrentUrl, UrlIndices, InitUrl
<1>7. CurrentUrl(u).cur + 1 \in 1..Len(urls)
  BY <1>1, <1>6
<1>8. QED
  BY <1>1, <1>5, <1>6, <1>7 DEF ServerOf

(* A transfer after a failure.                                             *)
Attempts == [url : UrlIndices, status : FileStatuses,
             pfx : {"none", "waiting", "due", "active", "done"}]

LEMMA FailureFacts ==
    ASSUME ClientTypes, NEW x \in Attempts, x.pfx \in {"due", "active"}
    PROVE  /\ \A e \in FileErrors : PermanentFailure(x, e) \in Attempts
           /\ \A e \in FileErrors :
                PermanentFailure(x, e).pfx = "done" => HadFailure(PermanentFailure(x, e).status)
           /\ TransientFailure(x) \in Attempts
           /\ TransientFailure(x).pfx = "done" => HadFailure(TransientFailure(x).status)
<1>1. NextUrl(x.url) \in UrlIndices
  BY UrlFacts DEF Attempts
<1>2. ASSUME NEW e \in FileErrors
      PROVE  /\ PermanentFailure(x, e) \in Attempts
             /\ PermanentFailure(x, e).pfx = "done" => HadFailure(PermanentFailure(x, e).status)
             /\ PermanentFailure(x, e).pfx \in {"due", "active", "done"}
  BY <1>1 DEF PermanentFailure, Attempts, FileStatuses, FileErrors, HadFailure
<1> DEFINE y == GiveUpIfLate(x)
<1>3. y \in Attempts /\ (y.pfx = "done" => HadFailure(y.status))
  BY <1>2 DEF GiveUpIfLate, FileErrors
<1> HIDE DEF y
<1>4. NextUrl(y.url) \in UrlIndices
  BY <1>3, UrlFacts DEF Attempts
<1> DEFINE p == IF TriedAll(NextUrl(y.url)) /\ y.pfx # "done" THEN "waiting" ELSE y.pfx
<1>5. TransientFailure(x) = [y EXCEPT !.url = NextUrl(y.url), !.pfx = p]
  BY DEF TransientFailure, y
<1>6. p \in {"none", "waiting", "due", "active", "done"} /\ (p = "done" => y.pfx = "done")
  BY <1>3 DEF Attempts
<1> HIDE DEF p
<1>7. TransientFailure(x) \in Attempts /\ TransientFailure(x).pfx = p
      /\ TransientFailure(x).status = y.status
  BY <1>3, <1>4, <1>5, <1>6 DEF Attempts
<1>8. QED
  BY <1>2, <1>3, <1>6, <1>7

(* The servers do not change, so neither does what is stored there.        *)
LEMMA ServersRest ==
    ASSUME UploadInv, UNCHANGED <<nbytes, serverVars>>, http' \in HttpOps, trouble' \in BOOLEAN
    PROVE  /\ ServerTypes' /\ StoredFileIsPrefix' /\ HandlersWriteInPlace'
           /\ ReadOnlyIsComplete' /\ BytesStay /\ (Stored' <=> Stored)
<1>1. UNCHANGED <<nbytes, stored, readOnly, removed, handler>>
  BY DEF serverVars
<1>2. Grows
  BY <1>1, RestGrows DEF UploadInv
<1>3. ServerTypes'
  BY <1>1 DEF UploadInv, ServerTypes, Handlings
<1>4. Stored' <=> Stored
  BY <1>1 DEF Stored, Whole
<1>5. QED
  BY <1>1, <1>2, <1>3, <1>4, GrowthIsSafe
     DEF UploadInv, HandlersWriteInPlace, BytesStay, Grows

(* init_upload() asks for the size, or sends the file from an offset.      *)
LEMMA RequestFacts ==
    ASSUME ClientTypes, NEW off \in Int
    PROVE  /\ Request(off) \in HttpOps /\ Request(off).kind \in {"query", "post"}
           /\ Request(off).kind = "query" <=> off < 0
           /\ Request(off).offset = off /\ Request(off).reply = NoReply
           /\ StartOffset(off) \in Int
           /\ StartOffset(off) < 0 => nbytes # 0
           /\ StartOffset(off) = off \/ (StartOffset(off) = 0 /\ nbytes < SmallFile)
<1>1. ServerOf(CurrentUrl(url)) \in Stores
  BY UrlFacts DEF ClientTypes, UrlIndices
<1>2. NoReply \in RepliesTo
  BY DEF NoReply, RepliesTo, Statuses
<1>3. Request(off) \in HttpOps
  <2>1. CASE off < 0
    <3>1. Request(off) \in Queries
      BY <1>1, <1>2, <2>1 DEF Request, Queries
    <3>2. QED
      BY <3>1 DEF HttpOps
  <2>2. CASE ~(off < 0)
    <3>1. Request(off) \in Posts
      BY <1>1, <1>2, <2>2 DEF Request, Posts
    <3>2. QED
      BY <3>1 DEF HttpOps
  <2>3. QED
    BY <2>1, <2>2
<1>4. nbytes \in Nat
  BY FileFacts
<1>5. QED
  BY <1>3, <1>4, FileTransferAssumption DEF Request, StartOffset

(* What OnlyCopyIsKept says of a step.                                     *)
CopyKept == local /\ ~local' => Stored \/ HadFailure(status)

(* What is left to show of a step of the client.                           *)
LEMMA ClientStepKeeps ==
    ASSUME UploadInv, UNCHANGED <<fileVars, serverVars>>, http' \in HttpOps, trouble' \in BOOLEAN,
           ClientTypes', SuccessIsTrue'
    PROVE  UploadInv' /\ BytesStay
BY ServersRest DEF UploadInv, fileVars

(* The steps that have nothing to do with the connection.                  *)
LEMMA QuietStepsKeep ==
    ASSUME UploadInv,
           \/ CreateTransfer \/ DeleteTransfer \/ BecomesDue \/ BecomesLate
           \/ GarbageCollect \/ UpdateResults \/ WriteStateFile \/ TroubleEnds
    PROVE  UploadInv' /\ BytesStay /\ CopyKept
<1> USE DEF fileVars, fipVars, xferVars, clientVars
<1>1. UNCHANGED <<fileVars, serverVars, http, uploadOffset, outcome, url, upsets>>
      /\ trouble' \in BOOLEAN
  BY DEF UploadInv, ServerTypes, CreateTransfer, DeleteTransfer, BecomesDue, BecomesLate,
         GarbageCollect, UpdateResults, WriteStateFile, TroubleEnds
<1>2. http' \in HttpOps
  BY <1>1 DEF UploadInv, ServerTypes
<1>3. Stored' <=> Stored
  BY <1>1, <1>2, ServersRest
<1>4. ClientTypes
  BY DEF UploadInv
<1>5. ClientTypes'
  <2> USE DEF ClientTypes, FileStatuses, ResultStates
  <2>1. CASE CreateTransfer
    BY <1>1, <1>4, <2>1 DEF CreateTransfer
  <2>2. CASE DeleteTransfer
    BY <1>1, <1>4, <2>2 DEF DeleteTransfer
  <2>3. CASE BecomesDue \/ BecomesLate
    BY <1>1, <1>4, <2>3 DEF BecomesDue, BecomesLate
  <2>4. CASE GarbageCollect \/ UpdateResults \/ TroubleEnds
    BY <1>1, <1>4, <2>4 DEF GarbageCollect, UpdateResults, TroubleEnds
  <2>5. CASE WriteStateFile
    BY <1>1, <1>4, <2>5 DEF WriteStateFile, Snapshot
  <2>6. QED
    BY <2>1, <2>2, <2>3, <2>4, <2>5
<1>6. pfx' = "done" => pfx = "done" /\ UNCHANGED status
  BY DEF CreateTransfer, DeleteTransfer, BecomesDue, BecomesLate,
         GarbageCollect, UpdateResults, WriteStateFile, TroubleEnds
<1>7. SuccessIsTrue'
  BY <1>1, <1>3, <1>6 DEF UploadInv, SuccessIsTrue, HadFailure
<1>8. CopyKept
  <2>1. local /\ ~local' => DeleteTransfer
    BY DEF CreateTransfer, BecomesDue, BecomesLate,
           GarbageCollect, UpdateResults, WriteStateFile, TroubleEnds
  <2>2. DeleteTransfer => pfx = "done"
    BY DEF DeleteTransfer
  <2>3. QED
    BY <2>1, <2>2 DEF CopyKept, UploadInv, SuccessIsTrue
<1>9. QED
  BY <1>1, <1>2, <1>5, <1>7, <1>8, ClientStepKeeps

LEMMA StartTransferKeeps ==
    ASSUME UploadInv, StartTransfer
    PROVE  UploadInv' /\ BytesStay /\ CopyKept
<1>1. /\ UNCHANGED <<fileVars, local, uploaded, late, outcome, result, saved, upsets,
                     serverVars, trouble>>
      /\ pfx = "due" /\ nbytes' = nbytes /\ urls' = urls /\ sticky' = sticky
  BY DEF StartTransfer, fileVars
<1>2. ClientTypes /\ uploadOffset \in Int /\ http = NoOp /\ outcome = "none"
  BY <1>1 DEF UploadInv, ClientTypes, ServerTypes, HttpOps, Queries, Posts, NoOp
<1>3. trouble' \in BOOLEAN /\ nbytes \in Nat
  BY <1>1 DEF UploadInv, ServerTypes
<1>4. CASE local
  <2> DEFINE off == StartOffset(uploadOffset)
  <2>1. uploadOffset' = off /\ http' = Request(off) /\ url' = CurrentUrl(url) /\ pfx' = "active"
        /\ UNCHANGED status
    BY <1>4 DEF StartTransfer
  <2>2. off \in Int /\ (off < 0 => nbytes # 0)
        /\ (off = uploadOffset \/ (off = 0 /\ nbytes < SmallFile))
    BY <1>2, RequestFacts
  <2>3. /\ Request(off) \in HttpOps /\ Request(off).kind \in {"query", "post"}
        /\ Request(off).kind = "query" <=> off < 0
        /\ Request(off).offset = off /\ Request(off).reply = NoReply
    BY <1>2, <2>2, RequestFacts
  <2>4. url' \in UrlIndices
    BY <1>2, <2>1, UrlFacts DEF ClientTypes, UrlIndices
  <2> HIDE DEF off
  <2>5. Stored' <=> Stored
    BY <1>1, <1>3, <2>1, <2>3, ServersRest DEF fileVars
  <2>6. off >= nbytes => nbytes = 0 \/ Stored
    BY <1>3, <2>2 DEF UploadInv, SuccessIsTrue
  <2>7. ClientTypes'
    BY <1>1, <1>2, <2>1, <2>2, <2>3, <2>4 DEF ClientTypes, UrlIndices
  <2>8. SuccessIsTrue'
    BY <1>1, <1>2, <2>1, <2>2, <2>3, <2>5, <2>6 DEF SuccessIsTrue, NoReply
  <2>9. QED
    BY <1>1, <1>3, <2>1, <2>3, <2>7, <2>8, ClientStepKeeps DEF CopyKept
<1>5. CASE ~local
  <2>1. Becomes(TransientFailure(Here)) /\ UNCHANGED <<uploadOffset, http>>
    BY <1>5 DEF StartTransfer
  <2>2. Here \in Attempts /\ Here.pfx = "due"
    BY <1>2 DEF Here, Attempts, ClientTypes, UrlIndices
  <2> DEFINE x == TransientFailure(Here)
  <2>3. x \in Attempts /\ (x.pfx = "done" => HadFailure(x.status)) /\ x.pfx # "active"
    <3>1. x \in Attempts /\ (x.pfx = "done" => HadFailure(x.status))
      BY <1>2, <2>2, FailureFacts
    <3>2. x.pfx # "active"
      BY DEF TransientFailure, GiveUpIfLate, PermanentFailure, Here
    <3>3. QED
      BY <3>1, <3>2
  <2> HIDE DEF x
  <2>4. url' = x.url /\ pfx' = x.pfx /\ status' = x.status
    BY <2>1 DEF Becomes, x
  <2>5. http' \in HttpOps
    BY <2>1 DEF UploadInv, ServerTypes
  <2>6. Stored' <=> Stored
    BY <1>1, <1>3, <2>5, ServersRest DEF fileVars
  <2>7. ClientTypes'
    BY <1>1, <1>2, <2>1, <2>3, <2>4 DEF ClientTypes, UrlIndices, Attempts, NoOp
  <2>8. SuccessIsTrue'
    BY <1>1, <1>2, <2>1, <2>3, <2>4, <2>6 DEF SuccessIsTrue, UploadInv, HadFailure
  <2>9. QED
    BY <1>1, <1>3, <2>5, <2>7, <2>8, ClientStepKeeps DEF CopyKept
<1>6. QED
  BY <1>2, <1>4, <1>5 DEF ClientTypes

LEMMA ConnectionBreaksKeeps ==
    ASSUME UploadInv, ConnectionBreaks
    PROVE  UploadInv' /\ BytesStay /\ CopyKept
<1>1. UNCHANGED clientVars /\ UNCHANGED <<fileVars, serverVars, trouble, local>>
      /\ UNCHANGED <<nbytes, uploadOffset, outcome, pfx, status>>
      /\ http.kind \in {"query", "post"}
  BY DEF ConnectionBreaks, clientVars, fileVars, fipVars, xferVars
<1>2. PICK m \in BOOLEAN :
        http' = [http EXCEPT !.reply.status = "http", !.via = NoHandler, !.moved = @ \/ m]
  BY DEF ConnectionBreaks
<1>3. /\ http' \in HttpOps /\ http'.kind = http.kind /\ http'.offset = http.offset
      /\ http'.reply.status = "http"
  <2>1. CASE http \in Queries
    <3>1. http' \in Queries /\ http'.offset = http.offset /\ http'.reply.status = "http"
      BY <1>2, <2>1, WithStatus DEF Queries, Statuses
    <3>2. QED
      BY <1>1, <2>1, <3>1 DEF HttpOps, Queries
  <2>2. CASE http \in Posts
    <3>1. http' \in Posts /\ http'.offset = http.offset /\ http'.reply.status = "http"
      BY <1>2, <2>2, WithStatus DEF Posts, Statuses
    <3>2. QED
      BY <1>1, <2>2, <3>1 DEF HttpOps, Posts
  <2>3. QED
    BY <1>1, <2>1, <2>2 DEF UploadInv, ServerTypes, HttpOps, NoOp
<1>4. trouble' \in BOOLEAN /\ nbytes' = nbytes
  BY <1>1 DEF UploadInv, ServerTypes
<1>5. Stored' <=> Stored
  BY <1>1, <1>3, <1>4, ServersRest
<1>6. SuccessIsTrue'
  BY <1>1, <1>3, <1>4, <1>5, TruthKept DEF UploadInv
<1>7. ClientTypes'
  BY <1>1, <1>3, ClientTypesKept DEF UploadInv
<1>8. QED
  BY <1>1, <1>3, <1>4, <1>6, <1>7, ClientStepKeeps DEF CopyKept

LEMMA FileXfersPollKeeps ==
    ASSUME UploadInv, FileXfersPoll
    PROVE  UploadInv' /\ BytesStay /\ CopyKept
<1> DEFINE r == http.reply
           finished == [kind |-> "over", moved |-> http.moved \/ http.offset > 0]
<1>1. /\ UNCHANGED <<fileVars, fipVars, url, pfx, late, result, saved, upsets, serverVars, trouble>>
      /\ UNCHANGED <<nbytes, urls, sticky, local, status, uploaded>>
      /\ http.kind \in {"query", "post"} /\ r # NoReply
  BY DEF FileXfersPoll, fileVars, fipVars
<1>2. ClientTypes /\ nbytes \in Nat /\ trouble' \in BOOLEAN /\ uploadOffset \in Int
  BY <1>1 DEF UploadInv, ServerTypes, ClientTypes
<1>3. r \in RepliesTo /\ http.moved \in BOOLEAN /\ http.offset \in Int
  BY <1>1 DEF UploadInv, ServerTypes, HttpOps, Queries, Posts, NoOp
<1>4. outcome' = IF r.status # "success" THEN r.status
                 ELSE IF http.kind = "query" /\ ~AllStored(r.size) THEN "none"
                 ELSE "success"
  BY DEF FileXfersPoll
<1>5. uploadOffset' = IF r.status = "http" THEN uploadOffset
                      ELSE IF r.status = "success" /\ http.kind = "query"
                      THEN StartOffset(r.size) ELSE -1
  BY DEF FileXfersPoll
<1>6. http' = IF outcome' = "none" THEN Request(uploadOffset') ELSE finished
  BY DEF FileXfersPoll
<1>7. pfx = "active" /\ outcome = "none"
  BY <1>1 DEF UploadInv, ClientTypes
<1>8. r.status \in Statuses /\ r.size \in Int
  BY <1>1, <1>3 DEF RepliesTo
<1>9. StartOffset(r.size) \in Int /\ (StartOffset(r.size) < 0 => nbytes # 0)
      /\ (StartOffset(r.size) = r.size \/ (StartOffset(r.size) = 0 /\ nbytes < SmallFile))
  BY <1>2, <1>8, RequestFacts
<1>10. uploadOffset' \in Int /\ outcome' \in Statuses \cup {"none"}
  BY <1>2, <1>4, <1>5, <1>8, <1>9 DEF Statuses
<1>11. /\ Request(uploadOffset') \in HttpOps /\ Request(uploadOffset').kind \in {"query", "post"}
       /\ Request(uploadOffset').kind = "query" <=> uploadOffset' < 0
       /\ Request(uploadOffset').offset = uploadOffset'
       /\ Request(uploadOffset').reply = NoReply
  BY <1>2, <1>10, RequestFacts
<1>12. finished \in HttpOps
  BY <1>3 DEF HttpOps
<1>13. http' \in HttpOps /\ http'.kind # "none" /\ (outcome' # "none" <=> http'.kind = "over")
  BY <1>6, <1>11, <1>12
<1>14. Stored' <=> Stored
  BY <1>1, <1>2, <1>13, ServersRest
<1>15. ClientTypes'
  BY <1>1, <1>2, <1>7, <1>10, <1>13 DEF ClientTypes
<1>16. uploadOffset' >= nbytes => nbytes = 0 \/ Stored
  BY <1>1, <1>2, <1>5, <1>8, <1>9 DEF UploadInv, SuccessIsTrue
<1>17. outcome' = "success" => Stored
  BY <1>1, <1>4 DEF UploadInv, SuccessIsTrue, AllStored
<1>18. outcome' = "none" /\ uploadOffset' < 0 => nbytes # 0
  BY <1>1, <1>4, <1>5, <1>8, <1>9 DEF UploadInv, SuccessIsTrue, Statuses
<1>19. SuccessIsTrue'
  <2>1. CASE outcome' = "none"
    BY <1>1, <1>6, <1>7, <1>11, <1>14, <1>16, <1>18, <2>1 DEF SuccessIsTrue, NoReply
  <2>2. CASE outcome' # "none"
    <3>1. http'.kind = "over"
      BY <1>6, <2>2
    <3>2. QED
      BY <1>1, <1>7, <1>14, <1>16, <1>17, <3>1 DEF SuccessIsTrue
  <2>3. QED
    BY <2>1, <2>2
<1>20. QED
  BY <1>1, <1>2, <1>13, <1>15, <1>19, ClientStepKeeps DEF CopyKept

LEMMA PersXferPollKeeps ==
    ASSUME UploadInv, PersXferPoll
    PROVE  UploadInv' /\ BytesStay /\ CopyKept
<1>1. /\ UNCHANGED <<fileVars, local, uploaded, late, result, saved, upsets, serverVars, trouble>>
      /\ UNCHANGED <<nbytes, urls, sticky>>
      /\ pfx = "active" /\ outcome # "none" /\ outcome' = "none" /\ http' = NoOp
      /\ uploadOffset' = IF http.moved \/ Len(urls) > 1 THEN -1 ELSE uploadOffset
  BY DEF PersXferPoll, fileVars
<1>2. ClientTypes /\ trouble' \in BOOLEAN /\ http' \in HttpOps /\ nbytes \in Nat
  BY <1>1 DEF UploadInv, ServerTypes, HttpOps
<1>3. Stored' <=> Stored
  BY <1>1, <1>2, ServersRest
<1>4. Here \in Attempts /\ Here.pfx = "due"
  BY <1>2 DEF Here, Attempts, ClientTypes, UrlIndices
<1>5. ASSUME NEW x \in Attempts, Becomes(x), x.pfx # "active",
             x.pfx = "done" => HadFailure(x.status)
      PROVE  /\ url' \in UrlIndices /\ status' \in FileStatuses
             /\ pfx' \in {"none", "waiting", "due", "done"}
             /\ pfx' = "done" => Stored \/ HadFailure(status')
  BY <1>5 DEF Becomes, Attempts
<1>6. /\ url' \in UrlIndices /\ status' \in FileStatuses
      /\ pfx' \in {"none", "waiting", "due", "done"}
      /\ pfx' = "done" => Stored \/ HadFailure(status')
  <2>1. CASE outcome = "success"
    <3>1. pfx' = "done" /\ UNCHANGED <<url, status>>
      BY <2>1 DEF PersXferPoll
    <3>2. QED
      BY <1>2, <2>1, <3>1 DEF UploadInv, SuccessIsTrue, ClientTypes, UrlIndices
  <2>2. CASE outcome = "permanent"
    <3> DEFINE x == PermanentFailure(Here, "ERR_UPLOAD_PERMANENT")
    <3>1. Becomes(x)
      BY <2>2 DEF PersXferPoll
    <3>2. x \in Attempts /\ (x.pfx = "done" => HadFailure(x.status))
      BY <1>2, <1>4, FailureFacts DEF FileErrors
    <3>3. x.pfx # "active"
      BY DEF PermanentFailure, Here
    <3> HIDE DEF x
    <3>4. QED
      BY <1>5, <3>1, <3>2, <3>3
  <2>3. CASE outcome \notin {"success", "permanent"}
    <3> DEFINE x == TransientFailure(Here)
    <3>1. Becomes(x)
      BY <2>3 DEF PersXferPoll
    <3>2. x \in Attempts /\ (x.pfx = "done" => HadFailure(x.status))
      BY <1>2, <1>4, FailureFacts
    <3>3. x.pfx # "active"
      BY DEF TransientFailure, GiveUpIfLate, PermanentFailure, Here
    <3> HIDE DEF x
    <3>4. QED
      BY <1>5, <3>1, <3>2, <3>3
  <2>4. QED
    BY <2>1, <2>2, <2>3
<1>7. ClientTypes'
  BY <1>1, <1>2, <1>6 DEF ClientTypes, UrlIndices, NoOp
<1>8. SuccessIsTrue'
  BY <1>1, <1>2, <1>3, <1>6 DEF UploadInv, SuccessIsTrue, NoOp, HadFailure
<1>9. QED
  BY <1>1, <1>2, <1>7, <1>8, ClientStepKeeps DEF CopyKept

(* A transfer that is aborted, suspended, or begun anew by a new client.   *)
LEMMA UpsetsKeep ==
    ASSUME UploadInv, AbortTransfer \/ SuspendTransfer \/ Restart
    PROVE  UploadInv' /\ BytesStay /\ CopyKept
<1>1. /\ UNCHANGED <<fileVars, local, serverVars, trouble>>
      /\ UNCHANGED <<nbytes, urls, sticky>>
      /\ outcome' = "none" /\ http' = NoOp /\ upsets < MaxUpsets /\ upsets' = upsets + 1
  BY DEF AbortTransfer, SuspendTransfer, Restart, fileVars, fipVars
<1>2. ClientTypes /\ trouble' \in BOOLEAN /\ http' \in HttpOps /\ nbytes \in Nat
  BY <1>1 DEF UploadInv, ServerTypes, HttpOps
<1>3. Stored' <=> Stored
  BY <1>1, <1>2, ServersRest
<1>4. upsets' \in 0..MaxUpsets
  BY <1>1, <1>2, FileTransferAssumption DEF ClientTypes
<1>5. \/ uploadOffset' = uploadOffset
      \/ uploadOffset' = -1
  BY DEF AbortTransfer, SuspendTransfer, Restart
<1>6. pfx' = "done" => HadFailure(status') \/ (pfx = "done" /\ UNCHANGED status)
  BY DEF AbortTransfer, SuspendTransfer, Restart, HadFailure, fipVars
<1>7. ClientTypes'
  <2>1. CASE AbortTransfer
    BY <1>1, <1>2, <1>4, <2>1 DEF AbortTransfer, ClientTypes, NoOp, FileStatuses, FileErrors
  <2>2. CASE SuspendTransfer
    BY <1>1, <1>2, <1>4, <2>2 DEF SuspendTransfer, ClientTypes, NoOp, fipVars
  <2>3. CASE Restart
    <3>1. /\ status' \in FileStatuses /\ uploaded' \in BOOLEAN /\ late' \in BOOLEAN
          /\ result' \in ResultStates /\ pfx' \in {"none", "due"}
          /\ uploadOffset' = -1 /\ url' = NoUrl
      BY <1>2, <2>3 DEF Restart, ClientTypes, FileStatuses
    <3>2. saved' \in [status : FileStatuses, uploaded : BOOLEAN, result : ResultStates,
                      transfer : BOOLEAN]
      BY <2>3, <3>1 DEF Restart, Snapshot
    <3>3. url' \in UrlIndices
      BY <1>1, <1>2, <3>1, FileFacts DEF NoUrl, UrlIndices
    <3>4. QED
      BY <1>1, <1>2, <1>4, <3>1, <3>2, <3>3 DEF ClientTypes, NoOp, UrlIndices
  <2>4. QED
    BY <2>1, <2>2, <2>3
<1>8. SuccessIsTrue'
  BY <1>1, <1>2, <1>3, <1>5, <1>6 DEF UploadInv, SuccessIsTrue, NoOp, HadFailure
<1>9. QED
  BY <1>1, <1>2, <1>7, <1>8, ClientStepKeeps DEF CopyKept

-----------------------------------------------------------------------------
(* All steps.                                                              *)
LEMMA StepKeeps ==
    ASSUME UploadInv, [Next]_vars
    PROVE  UploadInv' /\ BytesStay /\ CopyKept
<1>1. ASSUME UNCHANGED clientVars, UploadInv' /\ BytesStay
      PROVE  UploadInv' /\ BytesStay /\ CopyKept
  BY <1>1 DEF clientVars, fipVars, CopyKept
<1>2. CASE ClientStep
  BY <1>2, QuietStepsKeep, StartTransferKeeps, FileXfersPollKeeps, PersXferPollKeeps
     DEF ClientStep
<1>3. CASE \/ BecomesDue \/ BecomesLate \/ AbortTransfer \/ SuspendTransfer
           \/ WriteStateFile \/ Restart \/ ConnectionBreaks \/ TroubleEnds
  BY <1>3, QuietStepsKeep, UpsetsKeep, ConnectionBreaksKeeps
<1>4. CASE Receive /\ UNCHANGED clientVars
  BY <1>1, <1>4, GetFileSizeKeeps, AcceptUploadKeeps DEF Receive
<1>5. ASSUME NEW h \in Handlers, Proceed(h) \/ Die(h), UNCHANGED clientVars
      PROVE  UploadInv' /\ BytesStay /\ CopyKept
  BY <1>1, <1>5, OpenFileKeeps, CheckSizeKeeps, CopyBlockKeeps, DieKeeps DEF Proceed
<1>6. ASSUME NEW s \in Stores, RemoveFile(s), UNCHANGED clientVars
      PROVE  UploadInv' /\ BytesStay /\ CopyKept
  BY <1>1, <1>6, RemoveFileKeeps
<1>7. CASE UNCHANGED vars
  <2>1. UNCHANGED <<clientVars, serverVars, http, trouble>> /\ nbytes' = nbytes
    BY <1>7 DEF vars, clientVars, fileVars
  <2>2. http' \in HttpOps /\ trouble' \in BOOLEAN
    BY <2>1 DEF UploadInv, ServerTypes
  <2>3. Stored' <=> Stored
    BY <2>1, <2>2, ServersRest
  <2>4. UNCHANGED <<uploadOffset, outcome, pfx, status>>
    BY <2>1 DEF clientVars, xferVars, fipVars
  <2>5. SuccessIsTrue'
    BY <2>1, <2>3, <2>4, TruthKept DEF UploadInv
  <2>6. ClientTypes'
    BY <2>1, ClientTypesKept DEF UploadInv
  <2>7. UploadInv' /\ BytesStay
    BY <2>1, <2>2, <2>5, <2>6, ClientStepKeeps DEF clientVars
  <2>8. QED
    BY <1>1, <2>1, <2>7
<1>8. QED
  BY <1>2, <1>3, <1>4, <1>5, <1>6, <1>7 DEF Next

(* The initial state.                                                      *)
LEMMA InitHolds == Init => UploadInv
<1> SUFFICES ASSUME Init PROVE UploadInv
  OBVIOUS
<1>1. /\ stored = [s \in Stores |-> NoFile] /\ readOnly = {} /\ removed = {}
      /\ handler = [h \in Handlers |-> Idle] /\ http = NoOp /\ trouble = TRUE
  BY DEF Init, ServerInit
<1>2. PICK f \in Files : urls = f.urls /\ nbytes = f.nbytes /\ sticky = f.sticky
  BY DEF Init, ClientInit
<1>3. f \in [urls : Seq(Stores) \ {<<>>}, nbytes : Nat, sticky : BOOLEAN]
  BY FileTransferAssumption
<1>4. [urls |-> urls, nbytes |-> nbytes, sticky |-> sticky] \in Files
  <2>1. f = [urls |-> f.urls, nbytes |-> f.nbytes, sticky |-> f.sticky]
    BY <1>3
  <2>2. QED
    BY <1>2, <2>1
<1>5. nbytes \in Nat /\ Len(urls) \in Nat \ {0}
  <2>1. urls \in Seq(Stores) /\ urls # <<>> /\ nbytes \in Nat
    BY <1>2, <1>3
  <2>2. QED
    BY <2>1
<1>6. /\ local = TRUE /\ status = "FILE_PRESENT" /\ uploaded = FALSE
      /\ uploadOffset = -1 /\ url = NoUrl /\ pfx = "none" /\ late = FALSE /\ outcome = "none"
      /\ result = "FILES_UPLOADING" /\ saved = Snapshot /\ upsets = 0
  BY DEF Init, ClientInit
<1>7. ServerTypes
  BY <1>1, <1>5 DEF ServerTypes, HttpOps
<1>8. ClientTypes
  <2>1. url \in [cur : -1..(Len(urls) - 1), start : {-1, 0}]
    BY <1>5, <1>6 DEF NoUrl
  <2>2. saved \in [status : FileStatuses, uploaded : BOOLEAN, result : ResultStates,
                   transfer : BOOLEAN]
    BY <1>6 DEF Snapshot, FileStatuses, ResultStates
  <2>3. upsets \in 0..MaxUpsets
    BY <1>6, FileTransferAssumption
  <2>4. /\ local \in BOOLEAN /\ uploaded \in BOOLEAN /\ late \in BOOLEAN
        /\ status \in FileStatuses /\ result \in ResultStates
    BY <1>6 DEF FileStatuses, ResultStates
  <2>5. (pfx = "active") = (http.kind # "none") /\ (outcome # "none") = (http.kind = "over")
    BY <1>1, <1>6 DEF NoOp
  <2>6. QED
    BY <1>4, <1>6, <2>1, <2>2, <2>3, <2>4, <2>5 DEF ClientTypes
<1>9. StoredFileIsPrefix /\ HandlersWriteInPlace /\ ReadOnlyIsComplete
  BY <1>1 DEF StoredFileIsPrefix, HandlersWriteInPlace, WritesInPlace, ReadOnlyIsComplete
<1>10. SuccessIsTrue
  BY <1>1, <1>5, <1>6 DEF SuccessIsTrue, NoOp
<1>11. QED
  BY <1>7, <1>8, <1>9, <1>10 DEF UploadInv

-----------------------------------------------------------------------------
(* The theorems.                                                           *)

(* Whatever fails, whoever writes: every handler that has the file open is *)
(* at a place that the file reaches, and nobody says that the file is      *)
(* stored who does not know.                                               *)
THEOREM UploadIsSound == Spec => []UploadInv
<1>1. UploadInv /\ [Next]_vars => UploadInv'
  BY StepKeeps
<1>2. QED
  BY <1>1, InitHolds, PTL DEF Spec

(* The variables have their types.                                         *)
THEOREM UploadTypeCorrect == Spec => []TypeOK
<1>1. UploadInv => TypeOK
  <2>1. SUFFICES ASSUME UploadInv PROVE TypeOK
    OBVIOUS
  <2>2. ASSUME NEW h \in Handlers
        PROVE  handler[h] = Idle \/
                 /\ handler[h].pc \in {"open", "check", "copy"}
                 /\ handler[h].store \in Stores /\ handler[h].fd \in {"none", "open", "orphan"}
                 /\ {handler[h].offset, handler[h].left, handler[h].pos} \subseteq 0..nbytes
    BY <2>1, HandlingFacts DEF Handlings
  <2>3. http.kind \in {"none", "query", "post", "over"}
    BY <2>1 DEF UploadInv, ServerTypes, HttpOps, Queries, Posts, NoOp
  <2>4. url.cur \in -1..(Len(urls) - 1)
    BY <2>1 DEF UploadInv, ClientTypes
  <2>5. saved.status \in FileStatuses
    BY <2>1 DEF UploadInv, ClientTypes
  <2>6. QED
    BY <2>1, <2>2, <2>3, <2>4, <2>5
       DEF TypeOK, UploadInv, ClientTypes, ServerTypes, FileStatuses, ResultStates
<1>2. QED
  BY <1>1, UploadIsSound, PTL

(* A data server holds nothing but a beginning of the file, for any number *)
(* of handlers that write it at the same time.                             *)
THEOREM PrefixIsStored == Spec => []StoredFileIsPrefix
<1>1. UploadInv => StoredFileIsPrefix
  BY DEF UploadInv
<1>2. QED
  BY <1>1, UploadIsSound, PTL

(* No attempt takes away what an earlier one has stored.                   *)
THEOREM NothingStoredIsLost == Spec => StoredBytesStay
<1>1. UploadInv /\ [Next]_vars
        => [\A s \in Stores : stored[s] # NoFile /\ s \notin removed' =>
              stored'[s] # NoFile /\ Len(stored'[s]) >= Len(stored[s])]_vars
  BY StepKeeps DEF BytesStay
<1>2. QED
  BY <1>1, UploadIsSound, PTL DEF Spec, StoredBytesStay

(* The client deletes its copy only if a data server has had all of it, or *)
(* if the transfer was given up.                                           *)
THEOREM CopyOutlivesTransfer == Spec => OnlyCopyIsKept
<1>1. UploadInv /\ [Next]_vars => [local /\ ~local' => Stored \/ HadFailure(status)]_vars
  BY StepKeeps DEF CopyKept
<1>2. QED
  BY <1>1, UploadIsSound, PTL DEF Spec, OnlyCopyIsKept
=============================================================================
