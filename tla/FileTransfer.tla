---------------------------- MODULE FileTransfer ----------------------------
(***************************************************************************)
(* The client's side of an upload (client/pers_file_xfer.cpp,              *)
(* client/file_xfer.cpp, client/cs_files.cpp) and what becomes of the      *)
(* result whose only output file it is (client/client_state.cpp).          *)
(*                                                                         *)
(* The functions of the client's poll loop are one action each.  Each has  *)
(* its own timer, so that a pass of the loop may skip any of them and they *)
(* are not ordered here.  Time is abstract: a transfer that is backed off  *)
(* becomes due at some later time, and becomes late when the give-up       *)
(* period is over.  The client may crash; it restarts from the state file. *)
(***************************************************************************)
EXTENDS UploadHandler

CONSTANTS
    Files,          \* what the file may be: its upload URLs (servers), size and stickiness
    SmallFile,      \* FILE_SIZE_CHECK_THRESHOLD: no size query below this
    MaxUpsets       \* bound on crashes, suspensions of the network and aborts by the user

ASSUME FileTransferAssumption ==
    /\ Files \subseteq [urls : Seq(Stores) \ {<<>>}, nbytes : Nat, sticky : BOOLEAN]
    /\ SmallFile \in Nat \ {0}
    /\ MaxUpsets \in Nat

VARIABLES
    urls,           \* FILE_INFO::upload_urls.urls
    sticky,         \* FILE_INFO::sticky
    local,          \* the output file is on the client's disk
    status,         \* FILE_INFO::status
    uploaded,       \* FILE_INFO::uploaded
    uploadOffset,   \* FILE_INFO::upload_offset
    url,            \* URL_LIST: current_index and start_index
    pfx,            \* FILE_INFO::pers_file_xfer: none, or its phase
    late,           \* its give-up period is over
    outcome,        \* FILE_XFER::file_xfer_retval, once file_xfer_done
    result,         \* RESULT::state(); ready_to_report is set when it leaves FILES_UPLOADING
    saved,          \* the state file
    upsets          \* crashes, suspensions and aborts so far

fileVars == <<nbytes, urls, sticky>>
fipVars == <<local, status, uploaded>>
xferVars == <<uploadOffset, url, pfx, late, outcome>>
clientVars == <<fileVars, fipVars, xferVars, result, saved, upsets>>

FileErrors == {"ERR_UPLOAD_PERMANENT", "ERR_TIMEOUT", "ERR_ABORTED_VIA_GUI"}

(* FILE_INFO::had_failure()                                                *)
HadFailure(st) == st \notin {"FILE_PRESENT", "FILE_NOT_PRESENT"}

(* The URL list keeps indices from 0; -1 stands for "no transfer yet".     *)
NoUrl == [cur |-> -1, start |-> -1]
InitUrl == [cur |-> 0, start |-> 0]

(* Mutant of NextUrl: the index runs past the end of the list.             *)
PastTheEnd(u) == [u EXCEPT !.cur = @ + 1]

NextUrl(u) == [u EXCEPT !.cur = (@ + 1) % Len(urls)]
TriedAll(u) == u.cur = u.start
CurrentUrl(u) == IF u.cur < 0 THEN InitUrl ELSE u
ServerOf(u) == urls[u.cur + 1]

(* A failure changes x = [url, pfx, status].                               *)
PermanentFailure(x, error) ==
    LET next == NextUrl(x.url)
    IN IF TriedAll(next) THEN [url |-> next, pfx |-> "done", status |-> error]
       ELSE [x EXCEPT !.url = next]

(* Mutant of GiveUpIfLate: there is no give-up period.                     *)
NeverGiveUp(x) == x

GiveUpIfLate(x) == IF late THEN PermanentFailure(x, "ERR_TIMEOUT") ELSE x

TransientFailure(x) ==
    LET y == GiveUpIfLate(x)
        next == NextUrl(y.url)
    IN [y EXCEPT !.url = next,
                 !.pfx = IF TriedAll(next) /\ @ # "done" THEN "waiting" ELSE @]

Becomes(x) == url' = x.url /\ pfx' = x.pfx /\ status' = x.status
Here == [url |-> url, pfx |-> "due", status |-> status]

(* What write_state_file() keeps of all this; of a transfer the times of   *)
(* its first and next request.                                             *)
Snapshot == [status |-> status, uploaded |-> uploaded, result |-> result, transfer |-> pfx # "none"]

-----------------------------------------------------------------------------
(* create_and_delete_pers_file_xfers(): a transfer for a file to upload.   *)
CreateTransfer ==
    /\ pfx = "none" /\ status = "FILE_PRESENT" /\ ~uploaded
    /\ pfx' = "due" /\ late' = FALSE
    /\ UNCHANGED <<fileVars, fipVars, uploadOffset, url, outcome, result, saved, upsets,
                   serverVars, http, trouble>>

(* The same function on a transfer that is over, well or badly: the file   *)
(* is deleted unless it is sticky, and counts as uploaded.                 *)
DeleteTransfer ==
    /\ pfx = "done"
    /\ IF sticky THEN UNCHANGED <<local, status>>
       ELSE local' = FALSE /\ status' = "FILE_NOT_PRESENT"
    /\ uploaded' = TRUE /\ pfx' = "none" /\ late' = FALSE
    /\ UNCHANGED <<fileVars, uploadOffset, url, outcome, result, saved, upsets,
                   serverVars, http, trouble>>

(* FILE_XFER::init_upload(): ask for the size unless the offset is known   *)
(* or the file is small, or else send the file from the offset on.         *)
Request(off) ==
    [kind |-> IF off < 0 THEN "query" ELSE "post", store |-> ServerOf(CurrentUrl(url)),
     offset |-> off, via |-> NoHandler, moved |-> FALSE, reply |-> NoReply]

StartOffset(off) == IF nbytes < SmallFile THEN 0 ELSE off

(* PERS_FILE_XFER::poll() when no FILE_XFER is active, with create_xfer(). *)
StartTransfer ==
    /\ pfx = "due"
    /\ IF local
       THEN /\ uploadOffset' = StartOffset(uploadOffset)
            /\ http' = Request(StartOffset(uploadOffset))
            /\ url' = CurrentUrl(url) /\ pfx' = "active"
            /\ UNCHANGED status
       ELSE /\ Becomes(TransientFailure(Here))
            /\ UNCHANGED <<uploadOffset, http>>
    /\ UNCHANGED <<fileVars, local, uploaded, late, outcome, result, saved, upsets,
                   serverVars, trouble>>

(* The HTTP operation fails: the connection breaks, or cannot be made.     *)
(* A client may have handed over data that the handler has not yet read.   *)
ConnectionBreaks ==
    /\ trouble /\ http.kind \in {"query", "post"} /\ http.reply = NoReply
    /\ \E m \in BOOLEAN :
         http' = [http EXCEPT !.reply.status = "http", !.via = NoHandler, !.moved = @ \/ m]
    /\ UNCHANGED <<clientVars, serverVars, trouble>>

(* Mutant of AllStored: a part of the file is enough.                      *)
SomeStored(size) == size > 0

(* A query's answer: is everything there already?                          *)
AllStored(size) == size >= nbytes

(* FILE_XFER_SET::poll(): a finished operation.  The offset is whatever    *)
(* the reply says, or -1; a size query goes on with the upload itself.     *)
FileXfersPoll ==
    /\ http.kind \in {"query", "post"} /\ http.reply # NoReply
    /\ LET r == http.reply
       IN /\ outcome' = IF r.status # "success" THEN r.status
                        ELSE IF http.kind = "query" /\ ~AllStored(r.size) THEN "none"
                        ELSE "success"
          /\ uploadOffset' = IF r.status = "http" THEN uploadOffset
                             ELSE IF r.status = "success" /\ http.kind = "query"
                             THEN StartOffset(r.size) ELSE -1
          /\ http' = IF outcome' = "none" THEN Request(uploadOffset')
                     ELSE [kind |-> "over", moved |-> http.moved \/ http.offset > 0]
    /\ UNCHANGED <<fileVars, fipVars, url, pfx, late, result, saved, upsets,
                   serverVars, trouble>>

(* PERS_FILE_XFER::poll() on a finished FILE_XFER.  If anything was        *)
(* transferred or there are several servers, the next try asks anew.       *)
PersXferPoll ==
    /\ pfx = "active" /\ outcome # "none"
    /\ CASE outcome = "success" -> pfx' = "done" /\ UNCHANGED <<url, status>>
         [] outcome = "permanent" -> Becomes(PermanentFailure(Here, "ERR_UPLOAD_PERMANENT"))
         [] OTHER -> Becomes(TransientFailure(Here))
    /\ uploadOffset' = IF http.moved \/ Len(urls) > 1 THEN -1 ELSE uploadOffset
    /\ outcome' = "none" /\ http' = NoOp
    /\ UNCHANGED <<fileVars, local, uploaded, late, result, saved, upsets,
                   serverVars, trouble>>

(* The back-off is over, or the user retries.                              *)
BecomesDue ==
    /\ pfx = "waiting"
    /\ pfx' = "due"
    /\ UNCHANGED <<fileVars, fipVars, uploadOffset, url, late, outcome, result, saved, upsets,
                   serverVars, http, trouble>>

(* file_xfer_giveup_period has passed since the first request.             *)
BecomesLate ==
    /\ pfx \in {"waiting", "due", "active"} /\ ~late
    /\ late' = TRUE
    /\ UNCHANGED <<fileVars, fipVars, uploadOffset, url, pfx, outcome, result, saved, upsets,
                   serverVars, http, trouble>>

(* PERS_FILE_XFER::abort(), for the user.                                  *)
AbortTransfer ==
    /\ upsets < MaxUpsets /\ pfx # "none"
    /\ status' = "ERR_ABORTED_VIA_GUI" /\ pfx' = "done"
    /\ outcome' = "none" /\ http' = NoOp
    /\ upsets' = upsets + 1
    /\ UNCHANGED <<fileVars, local, uploaded, uploadOffset, url, late, result, saved,
                   serverVars, trouble>>

(* PERS_FILE_XFER::suspend(): the network is suspended for a while.        *)
SuspendTransfer ==
    /\ upsets < MaxUpsets /\ pfx # "none"
    /\ pfx' = IF pfx = "active" THEN "due" ELSE pfx
    /\ uploadOffset' = -1
    /\ outcome' = "none" /\ http' = NoOp
    /\ upsets' = upsets + 1
    /\ UNCHANGED <<fileVars, fipVars, url, late, result, saved, serverVars, trouble>>

-----------------------------------------------------------------------------
(* garbage_collect_always(): an output file that failed makes the result   *)
(* an upload error.                                                        *)
GarbageCollect ==
    /\ result = "FILES_UPLOADING" /\ HadFailure(status)
    /\ result' = "UPLOAD_FAILED"
    /\ UNCHANGED <<fileVars, fipVars, xferVars, saved, upsets, serverVars, http, trouble>>

(* RESULT::is_upload_done()                                                *)
IsUploadDone == HadFailure(status) \/ uploaded

(* update_results(): the result is ready to report.                        *)
UpdateResults ==
    /\ result = "FILES_UPLOADING" /\ IsUploadDone
    /\ result' = "FILES_UPLOADED"
    /\ UNCHANGED <<fileVars, fipVars, xferVars, saved, upsets, serverVars, http, trouble>>

(* write_state_file(), at the end of a pass of the poll loop in which      *)
(* something, of this project or another, made the state dirty.  Saves     *)
(* that no restart will read are left out (the bound MaxUpsets).           *)
WriteStateFile ==
    /\ upsets < MaxUpsets
    /\ saved' = Snapshot /\ saved' # saved
    /\ UNCHANGED <<fileVars, fipVars, xferVars, result, upsets, serverVars, http, trouble>>

(* The client dies and starts again.  parse_state_file() drops the         *)
(* transfer of a file that failed and resets any other one;                *)
(* check_file_existence() looks for the file, and the result is saved.     *)
Restart ==
    /\ upsets < MaxUpsets
    /\ status' = IF saved.status = "FILE_PRESENT" /\ ~local THEN "FILE_NOT_PRESENT"
                 ELSE saved.status
    /\ uploaded' = saved.uploaded /\ result' = saved.result
    /\ pfx' = IF saved.transfer /\ ~HadFailure(saved.status) THEN "due" ELSE "none"
    /\ late' = (late /\ pfx' # "none")
    /\ uploadOffset' = -1 /\ url' = NoUrl
    /\ outcome' = "none" /\ http' = NoOp
    /\ upsets' = upsets + 1
    /\ saved' = Snapshot'
    /\ UNCHANGED <<fileVars, local, serverVars, trouble>>

ClientStep ==
    \/ CreateTransfer \/ DeleteTransfer \/ StartTransfer \/ FileXfersPoll \/ PersXferPoll
    \/ GarbageCollect \/ UpdateResults

ClientInit ==
    /\ \E f \in Files : urls = f.urls /\ nbytes = f.nbytes /\ sticky = f.sticky
    /\ local = TRUE /\ status = "FILE_PRESENT" /\ uploaded = FALSE
    /\ uploadOffset = -1 /\ url = NoUrl /\ pfx = "none" /\ late = FALSE /\ outcome = "none"
    /\ result = "FILES_UPLOADING" /\ saved = Snapshot /\ upsets = 0
=============================================================================
