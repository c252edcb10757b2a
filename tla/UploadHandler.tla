---------------------------- MODULE UploadHandler ----------------------------
(***************************************************************************)
(* The file upload handler (sched/file_upload_handler.cpp): a CGI program  *)
(* that each data server runs once per HTTP request.  A client asks it how *)
(* much of an output file the server already has, and then sends the rest. *)
(*                                                                         *)
(* One output file is modelled.  Its bytes are the data items 1..nbytes,   *)
(* so what a server holds can be told from what it should hold; 0 is a     *)
(* byte that nobody wrote (a hole left by seeking beyond the end).         *)
(* The client's HTTP operation is the variable http, which the handler     *)
(* answers; the client's side of it is in FileTransfer.                    *)
(***************************************************************************)
EXTENDS Integers, Sequences, FiniteSets

CONSTANTS
    Stores,             \* the data servers that take this project's uploads
    Handlers,           \* the handler processes that may run at one time
    Refusing,           \* servers that answer every upload with a permanent error
    BlockSize,          \* BLOCK_SIZE: how much is read before it is written
    CompletedReadOnly,  \* fuh_set_completed_permission takes write access away
    IntMax,             \* the largest size that the reply to a query can carry
    NoFile, NoHandler

ASSUME UploadHandlerAssumption ==
    /\ Refusing \subseteq Stores
    /\ BlockSize \in Nat \ {0}
    /\ CompletedReadOnly \in BOOLEAN
    /\ IntMax \in Nat
    /\ NoHandler \notin Handlers
    /\ NoFile \notin Seq(Int)

VARIABLES
    nbytes,     \* the size of the file, as the client declares it
    stored,     \* what each server has on disk: NoFile or the bytes
    readOnly,   \* the servers whose copy is write protected
    removed,    \* the servers whose copy the file deleter has removed
    handler,    \* the handler processes
    http,       \* the client's HTTP operation
    trouble     \* network and servers may still fail

serverVars == <<stored, readOnly, removed, handler>>

Idle == [pc |-> "idle"]

Handling(store, offset) ==
    [pc |-> "open", store |-> store, offset |-> offset, left |-> nbytes - offset,
     pos |-> 0, fd |-> "none"]

NoReply == [status |-> "none", size |-> -1]
NoOp == [kind |-> "none"]

(* Smaller of two numbers. *)
Least(a, b) == IF a < b THEN a ELSE b

(* A size as the reply's %d prints it: an int, so it wraps around.         *)
AsInt(n) == IF n > IntMax THEN n - 2 * (IntMax + 1) ELSE n

Connected(h) == http.kind = "post" /\ http.via = h

(* The handler's answer reaches the client if the connection still stands. *)
(* The client has then sent or received something.                        *)
Answer(h, status) ==
    http' = IF Connected(h)
            THEN [http EXCEPT !.reply = [NoReply EXCEPT !.status = status],
                              !.via = NoHandler, !.moved = TRUE]
            ELSE http

Finish(h, status) ==
    /\ handler' = [handler EXCEPT ![h] = Idle]
    /\ Answer(h, status)

(* The lock is the process's: it goes when the process does.               *)
HasLock(h, s) == handler[h].pc # "idle" /\ handler[h].store = s /\ handler[h].fd = "open"
Locked(s) == \E h \in Handlers : HasLock(h, s)

Bytes(s) == IF stored[s] = NoFile THEN <<>> ELSE stored[s]

(* Mutant of Overwritten: what follows the new bytes is cut off.           *)
Truncated(file, pos, data) ==
    [i \in 1..(pos + Len(data)) |->
        IF i > pos THEN data[i - pos] ELSE IF i \in DOMAIN file THEN file[i] ELSE 0]

(* What write() leaves of a file: the file grows to hold the new bytes and *)
(* what lies between its old end and the write position is a hole.         *)
Overwritten(file, pos, data) ==
    LET end == pos + Len(data)
        size == IF Len(file) > end THEN Len(file) ELSE end
    IN [i \in 1..size |->
            IF i \in (pos + 1)..end THEN data[i - pos]
            ELSE IF i \in DOMAIN file THEN file[i] ELSE 0]

-----------------------------------------------------------------------------
(* handle_get_file_size(): the size on disk, 0 if there is no file; a      *)
(* transient error if the volume is full, the file cannot be opened or a   *)
(* handler is writing it.  The size only grows after it was read.          *)
GetFileSize ==
    /\ http.kind = "query" /\ http.reply = NoReply
    /\ \E fails \in {FALSE, trouble} :
         LET s == http.store
             answer == IF fails \/ (stored[s] # NoFile /\ Locked(s))
                       THEN [status |-> "transient", size |-> -1]
                       ELSE [status |-> "success", size |-> AsInt(Len(Bytes(s)))]
         IN http' = [http EXCEPT !.reply = answer, !.moved = TRUE]
    /\ UNCHANGED <<nbytes, serverVars, trouble>>

(* handle_file_upload(): the checks of the request, and the files that     *)
(* need no transfer.                                                       *)
AcceptUpload(h) ==
    /\ http.kind = "post" /\ http.reply = NoReply /\ http.via = NoHandler
    /\ handler[h] = Idle
    /\ \E fails \in {FALSE, trouble} :
         LET s == http.store
             reply(status) == http' = [http EXCEPT !.reply.status = status, !.moved = TRUE]
             emptyAccepted == nbytes = 0 /\ s \notin Refusing /\ ~fails
         IN /\ stored' = IF emptyAccepted THEN [stored EXCEPT ![s] = Bytes(s)] ELSE stored
            /\ IF s \in Refusing THEN reply("permanent") /\ UNCHANGED handler
               ELSE IF fails THEN reply("transient") /\ UNCHANGED handler
               ELSE IF http.offset >= nbytes THEN reply("success") /\ UNCHANGED handler
               ELSE /\ handler' = [handler EXCEPT ![h] = Handling(s, http.offset)]
                    /\ http' = [http EXCEPT !.via = h]
    /\ UNCHANGED <<nbytes, readOnly, removed, trouble>>

(* copy_socket_to_file(): once fread() has returned for the first block,   *)
(* with or without data, open the file, creating it, and lock it.          *)
(* A file that is write protected was uploaded before: success.            *)
OpenFile(h) ==
    /\ handler[h].pc = "open"
    /\ \E fails \in {FALSE, trouble} :
         LET s == handler[h].store
             opened == s \notin readOnly /\ ~fails
         IN /\ stored' = IF opened THEN [stored EXCEPT ![s] = Bytes(s)] ELSE stored
            /\ IF s \in readOnly THEN Finish(h, "success")
               ELSE IF fails \/ Locked(s) THEN Finish(h, "transient")
               ELSE /\ handler' = [handler EXCEPT ![h].fd = "open", ![h].pc = "check"]
                    /\ http' = IF Connected(h) THEN [http EXCEPT !.moved = TRUE] ELSE http
    /\ UNCHANGED <<nbytes, readOnly, removed, trouble>>

(* lseek(fd, offset)                                                       *)
SeekTo(offset) == offset

(* Mutant of LongEnough: the length of the file is not compared.           *)
FileExists(s, offset) == stored[s] # NoFile

(* The file must be at least as long as the offset the client was told.    *)
LongEnough(s, offset) == stored[s] # NoFile /\ Len(stored[s]) >= offset

CheckSize(h) ==
    /\ handler[h].pc = "check"
    /\ LET r == handler[h]
       IN IF LongEnough(r.store, r.offset)
          THEN /\ handler' = [handler EXCEPT ![h].pos = SeekTo(r.offset), ![h].pc = "copy"]
               /\ UNCHANGED http
          ELSE Finish(h, "transient")
    /\ UNCHANGED <<nbytes, stored, readOnly, removed, trouble>>

(* How much of a block arrives and is written: all of it, unless the       *)
(* client has gone (what it sent before may arrive in part or in full) or  *)
(* write() fails on the way.                                               *)
Written(h, want) == IF Connected(h) /\ ~trouble THEN {want} ELSE 0..want

(* One turn of the loop: a block is read and written.  A short block ends  *)
(* the upload, the last one completes it.  A descriptor whose file was     *)
(* removed writes where nobody can read.                                   *)
CopyBlock(h) ==
    /\ handler[h].pc = "copy"
    /\ LET r == handler[h]
           s == r.store
           want == Least(r.left, BlockSize)
       IN \E n \in Written(h, want), chmodFails \in {FALSE, trouble} :
            LET data == [i \in 1..n |-> nbytes - r.left + i]
                ends == n = want /\ r.left = n
            IN /\ stored' = IF r.fd = "open"
                            THEN [stored EXCEPT ![s] = Overwritten(@, r.pos, data)] ELSE stored
               /\ readOnly' = IF ends /\ CompletedReadOnly /\ ~chmodFails /\ r.fd = "open"
                              THEN readOnly \cup {s} ELSE readOnly
               /\ IF n # want THEN Finish(h, "transient")
                  ELSE IF ends THEN Finish(h, "success")
                  ELSE /\ handler' = [handler EXCEPT ![h].left = @ - n, ![h].pos = @ + n]
                       /\ UNCHANGED http
    /\ UNCHANGED <<nbytes, removed, trouble>>

(* The handler is killed, for instance by the web server.                  *)
Die(h) ==
    /\ trouble /\ handler[h] # Idle
    /\ Finish(h, "http")
    /\ UNCHANGED <<nbytes, stored, readOnly, removed, trouble>>

(* The file deleter removes what a late client has sent of a job that is   *)
(* over, once per server (see FileDeleter).  An open descriptor stays      *)
(* valid, and keeps the lock of a file that has no name any more.          *)
RemoveFile(s) ==
    /\ stored[s] # NoFile /\ s \notin removed
    /\ stored' = [stored EXCEPT ![s] = NoFile]
    /\ readOnly' = readOnly \ {s}
    /\ removed' = removed \cup {s}
    /\ handler' = [h \in Handlers |-> IF HasLock(h, s) THEN [handler[h] EXCEPT !.fd = "orphan"]
                                      ELSE handler[h]]
    /\ UNCHANGED <<nbytes, http, trouble>>

(* A request is received; a handler that has one goes on.                  *)
Receive == GetFileSize \/ \E h \in Handlers : AcceptUpload(h)
Proceed(h) == OpenFile(h) \/ CheckSize(h) \/ CopyBlock(h)

ServerInit ==
    /\ stored = [s \in Stores |-> NoFile]
    /\ readOnly = {} /\ removed = {}
    /\ handler = [h \in Handlers |-> Idle]
=============================================================================
