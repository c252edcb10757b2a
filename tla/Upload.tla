------------------------------- MODULE Upload -------------------------------
(***************************************************************************)
(* Uploading one output file: the client of FileTransfer and the handlers  *)
(* of UploadHandler, joined by HTTP operations that may fail at any point, *)
(* and what the two promise together.                                      *)
(***************************************************************************)
EXTENDS FileTransfer

vars == <<clientVars, serverVars, http, trouble>>

(* From some point on, if it ever comes, network and servers work.         *)
TroubleEnds ==
    /\ trouble /\ trouble' = FALSE
    /\ UNCHANGED <<clientVars, serverVars, http>>

Init == ClientInit /\ ServerInit /\ http = NoOp /\ trouble = TRUE

Next ==
    \/ ClientStep
    \/ BecomesDue \/ BecomesLate \/ AbortTransfer \/ SuspendTransfer
    \/ WriteStateFile \/ Restart
    \/ ConnectionBreaks \/ TroubleEnds
    \/ Receive /\ UNCHANGED clientVars
    \/ \E h \in Handlers : (Proceed(h) \/ Die(h)) /\ UNCHANGED clientVars
    \/ \E s \in Stores : RemoveFile(s) /\ UNCHANGED clientVars

Spec == Init /\ [][Next]_vars

(* The poll loop calls its functions for ever, time passes and a server    *)
(* that has a request works on it.  Nothing else is sure to happen: the    *)
(* network may stay bad for ever.                                          *)
Fairness ==
    /\ WF_vars(ClientStep \/ BecomesDue)
    /\ WF_vars(BecomesLate)
    /\ WF_vars(Receive /\ UNCHANGED clientVars)
    /\ \A h \in Handlers : WF_vars(Proceed(h) /\ UNCHANGED clientVars)

FairSpec == Spec /\ Fairness

-----------------------------------------------------------------------------
(* Types.                                                                  *)
TypeOK ==
    /\ [urls |-> urls, nbytes |-> nbytes, sticky |-> sticky] \in Files
    /\ stored \in [Stores -> {NoFile} \cup Seq(Int)]
    /\ readOnly \subseteq Stores /\ removed \subseteq Stores
    /\ \A h \in Handlers : handler[h] = Idle \/
         /\ handler[h].pc \in {"open", "check", "copy"}
         /\ handler[h].store \in Stores /\ handler[h].fd \in {"none", "open", "orphan"}
         /\ {handler[h].offset, handler[h].left, handler[h].pos} \subseteq 0..nbytes
    /\ http.kind \in {"none", "query", "post", "over"}
    /\ {trouble, local, uploaded, late} \subseteq BOOLEAN
    /\ {status, saved.status} \subseteq {"FILE_PRESENT", "FILE_NOT_PRESENT"} \cup FileErrors
    /\ uploadOffset \in Int /\ url.cur \in -1..(Len(urls) - 1)
    /\ pfx \in {"none", "waiting", "due", "active", "done"}
    /\ (pfx = "active") = (http.kind # "none") /\ (outcome # "none") = (http.kind = "over")
    /\ result \in {"FILES_UPLOADING", "FILES_UPLOADED", "UPLOAD_FAILED"}
    /\ upsets \in 0..MaxUpsets

(* What the client sends.                                                  *)
Whole == [i \in 1..nbytes |-> i]

(* The file is complete on a data server, or was until the project itself  *)
(* removed it.                                                             *)
Stored == \E s \in Stores : stored[s] = Whole \/ s \in removed

(* Whatever breaks, is retried, or runs on after its client has gone, a    *)
(* data server never holds anything but the beginning of the file: no      *)
(* holes, no byte in the wrong place (the offset, length and seek of       *)
(* copy_socket_to_file).                                                   *)
StoredFileIsPrefix ==
    \A s \in Stores : stored[s] # NoFile =>
        /\ Len(stored[s]) <= nbytes
        /\ \A i \in DOMAIN stored[s] : stored[s][i] = i

(* A later attempt takes nothing away from what an earlier one has stored; *)
(* only the project's own deletion does.                                   *)
StoredBytesStay ==
    [][\A s \in Stores : stored[s] # NoFile /\ s \notin removed' =>
          stored'[s] # NoFile /\ Len(stored'[s]) >= Len(stored[s])]_vars

(* The client deletes its copy of an output file only when a data server   *)
(* has had all of it, or when the transfer was given up.                   *)
OnlyCopyIsKept ==
    [][local /\ ~local' => Stored \/ HadFailure(status)]_vars

(* A transfer ends: once network and servers work, whatever state the      *)
(* earlier failures left it in, and if there is one upload URL even if     *)
(* they never work, as the client gives up after a while.  A client that   *)
(* crashed between deleting the file and saving that is exempt, and so is  *)
(* giving up on a file with two URLs: see the README.                      *)
TransferEnds ==
    (pfx # "none" /\ (~trouble \/ Len(urls) = 1)) ~> (pfx = "none" \/ ~local)

(* A result whose output was lost is not reported as a success: the upload *)
(* error goes with it (the comment in garbage_collect_always).             *)
ReportedSuccessIsComplete == result = "FILES_UPLOADED" => Stored
=============================================================================
