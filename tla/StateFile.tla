----------------------------- MODULE StateFile -----------------------------
(***************************************************************************)
(* The client's state file (client/cs_statefile.cpp).  A new state is      *)
(* written to client_state_next.xml; then the present file becomes the     *)
(* previous one, and the new one the present one.  The client may die      *)
(* between any two of these steps, and any of them may fail; the write is  *)
(* attempted twice.  What is in a file is a state, none, or part of one.   *)
(***************************************************************************)
EXTENDS Integers

CONSTANTS
    Missing,        \* no such file
    Torn,           \* a file without the closing tag
    MaxAttempts     \* MAX_STATE_FILE_WRITE_ATTEMPTS

ASSUME StateFileAssumption ==
    /\ Missing # Torn
    /\ MaxAttempts \in Nat \ {0}

VARIABLES
    next,           \* STATE_FILE_NEXT
    name,           \* STATE_FILE_NAME
    prev,           \* STATE_FILE_PREV
    save,           \* where write_state_file() is
    attempt,        \* its loop counter
    completed       \* the last state that was written with success (history)

files == <<next, name, prev>>
fileVars == <<files, save, attempt, completed>>

SavePhases == {"open", "write", "delete", "keep", "install"}

(* Mutant of Valid: the closing tag is not looked for.                     *)
Opens(file) == file # Missing

(* valid_state_file()                                                      *)
Valid(file) == file \notin {Missing, Torn}

(* parse_state_file(): the first valid one of the three.                   *)
Recovered == IF Valid(next) THEN next ELSE IF Valid(name) THEN name ELSE prev

-----------------------------------------------------------------------------
BeginSave == save' = "open" /\ attempt' = 1

OpenNext ==
    /\ save = "open"
    /\ next' = Torn /\ save' = "write"
    /\ UNCHANGED <<name, prev, attempt, completed>>

WriteNext(state) ==
    /\ save = "write"
    /\ next' = state
    /\ save' = IF name # Missing THEN "delete" ELSE "install"
    /\ UNCHANGED <<name, prev, attempt, completed>>

DeletePrev ==
    /\ save = "delete"
    /\ prev' = Missing /\ save' = "keep"
    /\ UNCHANGED <<next, name, attempt, completed>>

(* rename(STATE_FILE_NAME, STATE_FILE_PREV)                                *)
KeepOld ==
    /\ save = "keep"
    /\ prev' = name /\ name' = Missing /\ save' = "install"
    /\ UNCHANGED <<next, attempt, completed>>

(* rename(STATE_FILE_NEXT, STATE_FILE_NAME).  From now on nobody reads the *)
(* previous file before it is replaced, and what is in it is forgotten.    *)
Install ==
    /\ save = "install"
    /\ name' = next /\ next' = Missing /\ save' = "no"
    /\ prev' = IF prev = Missing THEN Missing ELSE Torn
    /\ completed' = next
    /\ attempt' = 1

(* A step fails.  The first time everything is done again; the last time   *)
(* write_state_file() goes on without what only concerns the previous      *)
(* file, or else returns an error and the client exits.                    *)
SaveFails ==
    /\ save \in SavePhases
    /\ save = "delete" => prev # Missing
    /\ IF attempt < MaxAttempts
       THEN save' = "open" /\ attempt' = attempt + 1
       ELSE /\ save' = CASE save = "delete" -> "keep"
                         [] save = "keep" -> "install"
                         [] OTHER -> "failed"
            /\ UNCHANGED attempt
    /\ UNCHANGED <<files, completed>>

SaveStep(state) ==
    \/ OpenNext \/ WriteNext(state) \/ DeletePrev \/ KeepOld \/ Install

FilesInit(state) ==
    /\ next = Missing /\ name = state /\ prev = Missing
    /\ save = "no" /\ attempt = 1 /\ completed = state
=============================================================================
