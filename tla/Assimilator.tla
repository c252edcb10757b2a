---------------------------- MODULE Assimilator ----------------------------
(***************************************************************************)
(* sched/assimilator.cpp: hands each finished job to the project's         *)
(* assimilate_handler() and marks it assimilated.                          *)
(***************************************************************************)
EXTENDS BoincDb

CONSTANT MayDefer   \* the handler may return DEFER_ASSIMILATION

ASSUME AssimilatorAssumption == MayDefer \in BOOLEAN

VARIABLE asm    \* the daemon; `next` is the assimilate_state it will write

assimilatorIdle == [pc |-> "idle"]

AssimilatorInit == asm = assimilatorIdle

AssimilatorEnumerate ==
    /\ asm.pc = "idle"
    /\ wu.exists /\ wu.assimilate = "READY"
    /\ asm' = [pc |-> "read", wu |-> wu, next |-> "READY"]
    /\ UNCHANGED dbVars

\* Mutant: a job that failed is taken for one whose canonical result is missing.
AssimilatorHandleFailed ==
    /\ asm.pc = "read"
    /\ \E next \in {"DONE"} \cup (IF MayDefer THEN {"INIT"} ELSE {}) :
         asm' = [asm EXCEPT !.pc = "handled", !.next = next]
    /\ IF asm.wu.canonical \notin Exists(res)
         THEN UpdateWorkunit([wu EXCEPT !.error = {"NO_CANONICAL"}])
         ELSE UNCHANGED wu
    /\ UNCHANGED <<res, gone, faults>>

\* The results are read now, the workunit was read earlier.  Without canonical
\* result and without error something is wrong: record it and keep going.
AssimilatorHandle ==
    /\ asm.pc = "read"
    /\ \E next \in {"DONE"} \cup (IF MayDefer THEN {"INIT"} ELSE {}) :
         asm' = [asm EXCEPT !.pc = "handled", !.next = next]
    /\ IF asm.wu.canonical \notin Exists(res) /\ asm.wu.error = {}
         THEN UpdateWorkunit([wu EXCEPT !.error = {"NO_CANONICAL"}])
         ELSE UNCHANGED wu
    /\ UNCHANGED <<res, gone, faults>>

\* Mutant: the transitioner is not triggered.
AssimilatorUpdateStateOnly ==
    /\ asm.pc = "handled"
    /\ UpdateWorkunit([wu EXCEPT !.assimilate = asm.next])
    /\ asm' = assimilatorIdle
    /\ UNCHANGED <<res, gone, faults>>

AssimilatorUpdateWorkunit ==
    /\ asm.pc = "handled"
    /\ UpdateWorkunit([wu EXCEPT !.assimilate = asm.next, !.tt = "now"])
    /\ asm' = assimilatorIdle
    /\ UNCHANGED <<res, gone, faults>>

\* The handler returned an error (the daemon exits), or the daemon was killed.
AssimilatorCrash ==
    /\ asm.pc # "idle" /\ Fault
    /\ asm' = assimilatorIdle
    /\ UNCHANGED <<wu, res, gone>>

AssimilatorStep == AssimilatorEnumerate \/ AssimilatorHandle \/ AssimilatorUpdateWorkunit

AssimilatorNext == AssimilatorStep \/ AssimilatorCrash

AssimilatorTypeOK ==
    asm \in [pc : {"idle"}] \cup
            [pc : {"read", "handled"}, wu : WorkunitRow, next : AssimilateStates]
=============================================================================
