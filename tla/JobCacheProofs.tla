--------------------------- MODULE JobCacheProofs ---------------------------
(***************************************************************************)
(* Machine-checked proofs about JobCache, for every number of slots,       *)
(* results and processes.                                                  *)
(***************************************************************************)
EXTENDS JobCache, TLAPS

\* The sets of records that the variables are in.
SlotRecords == [state : SlotStates, r : ResultIds]
ProcRecords == [pc : ProcPcs, slot : Slots, r : ResultIds, jobs : SUBSET Jobs]
FeederRecords == [pc : FeederPcs, i : Slots, pid : Pids \cup {0},
                  phase : {"FIRST", "SECOND", "OVER"}, active : BOOLEAN,
                  rows : SUBSET [r : Results, error : BOOLEAN]]

\* There is a first slot.
LEMMA FirstSlot == 1 \in Slots
BY JobCacheAssumption DEF Slots

\* A process starts from a record of the right type.
LEMMA IdleType == \A pc \in ProcPcs : idle(pc) \in ProcRecords
BY FirstSlot DEF idle, ProcRecords, ResultIds

\* The initial state has its types.
LEMMA InitType == Init => CacheTypeOK
<1>1. SUFFICES ASSUME Init PROVE CacheTypeOK
  OBVIOUS
<1>2. slot \in [Slots -> [state : SlotStates, r : ResultIds]]
  BY <1>1 DEF Init, SlotStates, ResultIds
<1>3. proc \in [Pids -> ProcRecords]
  BY <1>1, IdleType DEF Init, ProcPcs
<1>4. feeder \in FeederRecords
  BY <1>1, FirstSlot DEF Init, FeederRecords, FeederPcs
<1>5. db \in [Results -> DbStates]
  BY <1>1 DEF Init, DbStates
<1>6. QED
  BY <1>1, <1>2, <1>3, <1>4, <1>5 DEF Init, CacheTypeOK, ProcRecords, FeederRecords

\* The two ways to change a process keep its type.
LEMMA ProcUpdates ==
    ASSUME CacheTypeOK, NEW p \in Pids
    PROVE  /\ \A pc \in ProcPcs : Goto(p, pc) => proc' \in [Pids -> ProcRecords]
           /\ \A jobs \in SUBSET Jobs : Send(p, jobs) => proc' \in [Pids -> ProcRecords]
           /\ \A pc \in ProcPcs :
                proc' = [proc EXCEPT ![p] = idle(pc)] => proc' \in [Pids -> ProcRecords]
<1>1. proc \in [Pids -> ProcRecords]
  BY DEF CacheTypeOK, ProcRecords
<1>2. \A pc \in ProcPcs : Goto(p, pc) => proc' \in [Pids -> ProcRecords]
  <2>1. SUFFICES ASSUME NEW pc \in ProcPcs, Goto(p, pc) PROVE proc' \in [Pids -> ProcRecords]
    OBVIOUS
  <2>2. [proc[p] EXCEPT !.pc = pc] \in ProcRecords
    BY <1>1 DEF ProcRecords
  <2>3. QED
    BY <1>1, <2>1, <2>2 DEF Goto
<1>3. \A jobs \in SUBSET Jobs : Send(p, jobs) => proc' \in [Pids -> ProcRecords]
  <2>1. SUFFICES ASSUME NEW jobs \in SUBSET Jobs, Send(p, jobs)
                 PROVE proc' \in [Pids -> ProcRecords]
    OBVIOUS
  <2>2. [idle("send") EXCEPT !.jobs = jobs] \in ProcRecords
    BY FirstSlot DEF idle, ProcRecords, ProcPcs, ResultIds
  <2>3. QED
    BY <1>1, <2>1, <2>2 DEF Send
<1>4. \A pc \in ProcPcs :
        proc' = [proc EXCEPT ![p] = idle(pc)] => proc' \in [Pids -> ProcRecords]
  BY <1>1, IdleType
<1>5. QED
  BY <1>2, <1>3, <1>4

\* A process's record after it took a slot, or a job, has its type.
LEMMA ProcTakes ==
    ASSUME CacheTypeOK, NEW p \in Pids
    PROVE  /\ \A pc \in ProcPcs, i \in Slots :
                [proc[p] EXCEPT !.pc = pc, !.slot = i] \in ProcRecords
           /\ \A pc \in ProcPcs, i \in Slots, r \in ResultIds, jobs \in SUBSET Jobs :
                [proc[p] EXCEPT !.pc = pc, !.slot = i, !.r = r, !.jobs = jobs] \in ProcRecords
           /\ \A pc \in ProcPcs, r \in ResultIds :
                [proc[p] EXCEPT !.pc = pc, !.r = r] \in ProcRecords
           /\ \A jobs \in SUBSET Jobs : [proc[p] EXCEPT !.jobs = jobs] \in ProcRecords
BY DEF CacheTypeOK, ProcRecords

\* A new state for a slot keeps the slots' type.
LEMMA SlotUpdate ==
    ASSUME CacheTypeOK, NEW i \in Slots, NEW s \in SlotStates, SetState(i, s)
    PROVE  slot' \in [Slots -> SlotRecords]
<1>1. [slot[i] EXCEPT !.state = s] \in SlotRecords
  BY DEF CacheTypeOK, SlotRecords
<1>2. QED
  BY <1>1 DEF SetState, CacheTypeOK, SlotRecords

-----------------------------------------------------------------------------
\* A scheduler process's step keeps the types.
LEMMA ProcessType ==
    ASSUME CacheTypeOK, NEW p \in Pids, ProcessStep(p)
    PROVE  CacheTypeOK'
<1> USE DEF ProcPcs
<1>1. /\ proc \in [Pids -> ProcRecords] /\ slot \in [Slots -> SlotRecords]
      /\ proc[p] \in ProcRecords
      /\ slot[proc[p].slot].r \in ResultIds /\ p \in SlotStates /\ p \in Pids \cup {Nobody}
      /\ EMPTY \in SlotStates /\ PRESENT \in SlotStates
  BY DEF CacheTypeOK, ProcRecords, SlotRecords, SlotStates
<1>2. SUFFICES /\ slot' \in [Slots -> SlotRecords] /\ sema' \in Pids \cup {Nobody}
               /\ proc' \in [Pids -> ProcRecords] /\ db' \in [Results -> DbStates]
               /\ UNCHANGED <<ready, feeder, failed>>
  BY DEF CacheTypeOK, ProcRecords, SlotRecords, Workunits
<1>3. UNCHANGED <<ready, feeder, failed>>
  BY DEF ProcessStep, Lock, FindWork, NoWork, Reserve, Scan, Crash, Recheck, CannotSendHere,
         CannotSendAnywhere, CanSend, Reread, MarkAsSent, Leave, Exit
<1>4. sema' \in Pids \cup {Nobody}
  BY <1>1 DEF CacheTypeOK, ProcessStep, Lock, FindWork, NoWork, Reserve, Scan, Crash, Recheck,
              CannotSendHere, CannotSendAnywhere, CanSend, Reread, MarkAsSent, Leave, Exit, Unlocked
<1>5. db' \in [Results -> DbStates]
  BY DEF CacheTypeOK, DbStates, ProcessStep, Lock, FindWork, NoWork, Reserve, Scan, Crash, Recheck,
         CannotSendHere, CannotSendAnywhere, CanSend, Reread, MarkAsSent, Leave, Exit
<1>6. slot' \in [Slots -> SlotRecords]
  <2>1. CASE UNCHANGED slot
    BY <2>1, <1>1
  <2>2. CASE \E i \in Slots, st \in SlotStates : SetState(i, st)
    BY <2>2, SlotUpdate
  <2>3. proc[p].slot \in Slots
    BY <1>1 DEF ProcRecords
  <2>4. UNCHANGED slot \/ \E i \in Slots, st \in SlotStates : SetState(i, st)
    BY <1>1, <2>3 DEF ProcessStep, Lock, FindWork, NoWork, Reserve, Scan, Crash, Recheck,
        CannotSendHere, CannotSendAnywhere, CanSend, Reread, MarkAsSent, Leave, Exit, RestoreWork
  <2>5. QED
    BY <2>1, <2>2, <2>4
<1>7. proc' \in [Pids -> ProcRecords]
  <2>1. proc[p].jobs \in SUBSET Jobs /\ \A job \in proc[p].jobs : job.slot \in Slots /\ job.r \in ResultIds
    BY <1>1 DEF ProcRecords, Jobs
  <2>2. CASE Lock(p) \/ Reserve(p) \/ CanSend(p)
    BY <2>2, ProcUpdates DEF Lock, Reserve, CanSend
  <2>3. CASE CannotSendHere(p) \/ CannotSendAnywhere(p) \/ MarkAsSent(p)
    BY <2>3, <2>1, ProcUpdates DEF CannotSendHere, CannotSendAnywhere, MarkAsSent
  <2>4. CASE NoWork(p) \/ Crash(p) \/ Leave(p) \/ Exit(p)
    BY <2>4, ProcUpdates DEF NoWork, Crash, Leave, Exit
  <2>5. CASE FindWork(p)
    <3>1. PICK i \in Slots : proc' = [proc EXCEPT ![p].pc = "found", ![p].slot = i]
      BY <2>5 DEF FindWork
    <3>2. [proc[p] EXCEPT !.pc = "found", !.slot = i] \in ProcRecords
      BY ProcTakes
    <3>3. QED
      BY <3>1, <3>2, <1>1
  <2>6. CASE Scan(p)
    <3>1. PICK taken \in SUBSET Slots : Send(p, {[slot |-> i, r |-> slot[i].r] : i \in taken})
      BY <2>6 DEF Scan
    <3>2. {[slot |-> i, r |-> slot[i].r] : i \in taken} \in SUBSET Jobs
      BY <1>1 DEF Jobs, SlotRecords
    <3>3. QED
      BY <3>1, <3>2, ProcUpdates
  <2>7. CASE Recheck(p)
    <3>1. PICK job \in proc[p].jobs :
            \/ proc' = [proc EXCEPT ![p].jobs = @ \ {job}]
            \/ proc' = [proc EXCEPT ![p].pc = "checked", ![p].slot = job.slot,
                                    ![p].r = job.r, ![p].jobs = @ \ {job}]
      BY <2>7 DEF Recheck
    <3>2. proc[p].jobs \ {job} \in SUBSET Jobs
      BY <2>1
    <3>3. [proc[p] EXCEPT !.jobs = proc[p].jobs \ {job}] \in ProcRecords
      BY <3>2, ProcTakes
    <3>4. [proc[p] EXCEPT !.pc = "checked", !.slot = job.slot, !.r = job.r,
                          !.jobs = proc[p].jobs \ {job}] \in ProcRecords
      BY <2>1, <3>2, ProcTakes
    <3>5. QED
      BY <3>1, <3>3, <3>4, <1>1
  <2>8. CASE Reread(p)
    <3>1. DEFINE r == slot[proc[p].slot].r
    <3>2. \/ proc' = [proc EXCEPT ![p].pc = "mark", ![p].r = r]
          \/ Send(p, proc[p].jobs)
      BY <2>8 DEF Reread
    <3>3. [proc[p] EXCEPT !.pc = "mark", !.r = r] \in ProcRecords
      BY <1>1, ProcTakes
    <3>4. QED
      BY <3>2, <3>3, <2>1, <1>1, ProcUpdates
  <2>9. QED
    BY <2>2, <2>3, <2>4, <2>5, <2>6, <2>7, <2>8 DEF ProcessStep
<1>8. QED
  BY <1>3, <1>4, <1>5, <1>6, <1>7

\* The feeder's records after a step.
LEMMA FeederUpdates ==
    ASSUME CacheTypeOK
    PROVE  /\ NextSlot \in FeederRecords /\ FillOrSkip \in FeederRecords
           /\ NextPhase \in FeederRecords
           /\ \A pc \in FeederPcs : [feeder EXCEPT !.pc = pc] \in FeederRecords
           /\ \A pc \in FeederPcs, pid \in Pids :
                [feeder EXCEPT !.pc = pc, !.pid = pid] \in FeederRecords
           /\ \A rows \in SUBSET [r : Results, error : BOOLEAN] :
                /\ [feeder EXCEPT !.rows = rows] \in FeederRecords
                /\ [NextSlot EXCEPT !.rows = rows] \in FeederRecords
                /\ [feeder EXCEPT !.active = TRUE, !.rows = rows] \in FeederRecords
           /\ [feeder EXCEPT !.pc = "visit", !.phase = PhaseOfPass] \in FeederRecords
<1>1. feeder \in FeederRecords
  BY DEF CacheTypeOK, FeederRecords
<1>2. NSlots \in Nat /\ feeder.i \in 1..NSlots
  BY <1>1, JobCacheAssumption DEF FeederRecords, Slots
<1>3. NextSlot \in FeederRecords
  <2>1. CASE feeder.i < NSlots
    <3>1. feeder.i + 1 \in Slots
      BY <1>2, <2>1 DEF Slots
    <3>2. QED
      BY <1>1, <2>1, <3>1 DEF NextSlot, FeederRecords, FeederPcs
  <2>2. CASE ~(feeder.i < NSlots)
    BY <1>1, <2>2, FirstSlot DEF NextSlot, FeederRecords, FeederPcs
  <2>3. QED
    BY <2>1, <2>2
<1>4. FillOrSkip \in FeederRecords
  BY <1>1, <1>3 DEF FillOrSkip, FeederRecords, FeederPcs
<1>5. NextPhase \in FeederRecords
  BY <1>1, <1>3 DEF NextPhase, FeederRecords
<1>6. \A pc \in FeederPcs : [feeder EXCEPT !.pc = pc] \in FeederRecords
  BY <1>1 DEF FeederRecords
<1>7. \A pc \in FeederPcs, pid \in Pids : [feeder EXCEPT !.pc = pc, !.pid = pid] \in FeederRecords
  BY <1>1 DEF FeederRecords
<1>8. \A rows \in SUBSET [r : Results, error : BOOLEAN] :
         /\ [feeder EXCEPT !.rows = rows] \in FeederRecords
         /\ [NextSlot EXCEPT !.rows = rows] \in FeederRecords
         /\ [feeder EXCEPT !.active = TRUE, !.rows = rows] \in FeederRecords
  BY <1>1, <1>3 DEF FeederRecords
<1>9. [feeder EXCEPT !.pc = "visit", !.phase = PhaseOfPass] \in FeederRecords
  BY <1>1 DEF FeederRecords, FeederPcs, PhaseOfPass
<1>10. QED
  BY <1>3, <1>4, <1>5, <1>6, <1>7, <1>8, <1>9

\* A step of the feeder keeps the types.
LEMMA FeederType ==
    ASSUME CacheTypeOK, FeederStep
    PROVE  CacheTypeOK'
<1>1. /\ slot \in [Slots -> SlotRecords] /\ feeder \in FeederRecords /\ feeder.i \in Slots
      /\ EMPTY \in SlotStates /\ PRESENT \in SlotStates
      /\ \A rows \in SUBSET feeder.rows : rows \in SUBSET [r : Results, error : BOOLEAN]
  BY DEF CacheTypeOK, SlotRecords, FeederRecords, SlotStates
<1>2. SUFFICES /\ slot' \in [Slots -> SlotRecords] /\ feeder' \in FeederRecords
               /\ db' \in [Results -> DbStates] /\ ready' \in BOOLEAN
               /\ UNCHANGED <<sema, proc, failed>>
  BY DEF CacheTypeOK, SlotRecords, FeederRecords, Workunits
<1>3. CASE FeederVisit
  <2>1. UNCHANGED <<slot, db, ready, sema, proc, failed>>
    BY <1>3 DEF FeederVisit
  <2>2. feeder' \in FeederRecords
    BY <1>3, FeederUpdates DEF FeederVisit, FeederPcs
  <2>3. QED
    BY <2>1, <2>2, <1>1 DEF CacheTypeOK
<1>4. CASE FeederPurge
  BY <1>4, <1>1, FeederUpdates, SlotUpdate DEF FeederPurge, CacheTypeOK
<1>5. CASE FeederStat
  BY <1>5, <1>1, FeederUpdates DEF FeederStat, CacheTypeOK, FeederPcs
<1>6. CASE FeederReset
  BY <1>6, <1>1, FeederUpdates, SlotUpdate DEF FeederReset, ResetSlot, CacheTypeOK
<1>7. CASE FeederQuery
  <2>1. PICK rs \in SUBSET Results :
          feeder' = [feeder EXCEPT !.active = TRUE,
                       !.rows = {[r |-> r, error |-> Wu[r] \in failed] : r \in rs}]
    BY <1>7 DEF FeederQuery
  <2>2. {[r |-> r, error |-> Wu[r] \in failed] : r \in rs} \in SUBSET [r : Results, error : BOOLEAN]
    <3>1. \A r \in rs : (Wu[r] \in failed) \in BOOLEAN
      OBVIOUS
    <3>2. \A r \in rs, b \in BOOLEAN : [r |-> r, error |-> b] \in [r : Results, error : BOOLEAN]
      OBVIOUS
    <3>3. QED
      BY <3>1, <3>2, Zenon
  <2>3. feeder' \in FeederRecords
    BY <2>1, <2>2, FeederUpdates
  <2>4. QED
    BY <1>7, <1>1, <2>3 DEF FeederQuery, CacheTypeOK
<1>8. CASE FeederFetch
  <2>1. PICK row \in feeder.rows :
          \/ /\ db' = [db EXCEPT ![row.r] = "DIDNT_NEED"]
             /\ feeder' = [feeder EXCEPT !.rows = feeder.rows \ {row}]
             /\ UNCHANGED slot
          \/ /\ feeder' = [feeder EXCEPT !.rows = feeder.rows \ {row}]
             /\ UNCHANGED <<slot, db>>
          \/ /\ slot' = [slot EXCEPT ![feeder.i] = [state |-> PRESENT, r |-> row.r]]
             /\ feeder' = [NextSlot EXCEPT !.rows = feeder.rows \ {row}]
             /\ UNCHANGED db
    BY <1>8 DEF FeederFetch
  <2>2. row.r \in Results /\ [state |-> PRESENT, r |-> row.r] \in SlotRecords
    BY <1>1 DEF FeederRecords, SlotRecords, ResultIds
  <2>3. feeder' \in FeederRecords
    BY <2>1, <1>1, FeederUpdates
  <2>4. slot' \in [Slots -> SlotRecords]
    BY <2>1, <2>2, <1>1
  <2>5. db' \in [Results -> DbStates]
    BY <2>1 DEF CacheTypeOK, DbStates
  <2>6. QED
    BY <1>8, <2>3, <2>4, <2>5 DEF FeederFetch, CacheTypeOK
<1>9. CASE FeederEndOfRows
  BY <1>9, <1>1, FeederUpdates DEF FeederEndOfRows, CacheTypeOK
<1>10. CASE FeederReady
  BY <1>10, <1>1, FeederUpdates DEF FeederReady, CacheTypeOK, FeederPcs
<1>11. CASE FeederTrigger
  <2>1. feeder' \in FeederRecords
    BY <1>11, FeederUpdates DEF FeederTrigger
  <2>2. slot' \in [Slots -> SlotRecords] /\ ready' \in BOOLEAN
    <3>1. [i \in Slots |-> [state |-> EMPTY, r |-> NoResult]] \in [Slots -> SlotRecords]
      BY <1>1 DEF SlotRecords, ResultIds
    <3>2. QED
      BY <1>11, <1>1, <3>1 DEF FeederTrigger, CacheTypeOK
  <2>3. QED
    BY <1>11, <2>1, <2>2 DEF FeederTrigger, CacheTypeOK
<1>12. QED
  BY <1>3, <1>4, <1>5, <1>6, <1>7, <1>8, <1>9, <1>10, <1>11 DEF FeederStep

\* Any step keeps the types.
LEMMA NextType ==
    ASSUME CacheTypeOK, [Next]_vars
    PROVE  CacheTypeOK'
<1>1. CASE UNCHANGED vars
  BY <1>1 DEF vars, CacheTypeOK, Workunits
<1>2. CASE \E p \in Pids : Birth(p)
  <2>1. PICK p \in Pids : Start(p)
    BY <1>2 DEF Birth
  <2>2. proc' \in [Pids -> ProcRecords]
    BY <2>1, ProcUpdates DEF Start, ProcPcs
  <2>3. QED
    BY <2>1, <2>2 DEF Start, CacheTypeOK, ProcRecords, Workunits
<1>3. CASE \E p \in Pids : ProcessStep(p)
  BY <1>3, ProcessType
<1>4. CASE \E p \in Pids : Death(p)
  <2>1. PICK p \in Pids : Die(p)
    BY <1>4 DEF Death
  <2>2. proc' \in [Pids -> ProcRecords]
    BY <2>1, ProcUpdates DEF Die, ProcPcs
  <2>3. QED
    BY <2>1, <2>2 DEF Die, Unlocked, CacheTypeOK, ProcRecords, Workunits
<1>5. CASE FeederStep
  BY <1>5, FeederType
<1>6. CASE DatabaseStep
  <2>1. UNCHANGED cacheVars
    BY <1>6 DEF DatabaseStep, Create, Return, Fail, EndUnsent, cacheVars
  <2>2. db' \in [Results -> DbStates] /\ failed' \subseteq Workunits
    BY <1>6 DEF DatabaseStep, Create, Return, Fail, EndUnsent, CacheTypeOK, DbStates, cacheVars
  <2>3. QED
    BY <2>1, <2>2 DEF cacheVars, CacheTypeOK, Workunits
<1>7. QED
  BY <1>1, <1>2, <1>3, <1>4, <1>5, <1>6 DEF Next

\* The variables keep their types, whatever options the feeder runs with.
THEOREM CacheTypeCorrect == Spec => []CacheTypeOK
<1>1. Init => CacheTypeOK
  BY InitType
<1>2. CacheTypeOK /\ [Next]_vars => CacheTypeOK'
  BY NextType
<1>3. QED
  BY <1>1, <1>2, PTL DEF Spec

-----------------------------------------------------------------------------
\* What a process may rely on: it has the semaphore from the search for a job
\* until the reservation is written, the slot that it found cannot be taken
\* meanwhile, and a reserved slot stays in its name.
Owns(p) ==
    /\ proc[p].pc \in {"look", "found", "locked", "checked"} => sema = p
    /\ proc[p].pc = "found" => slot[proc[p].slot].state = PRESENT
    /\ proc[p].pc = "checked" => slot[proc[p].slot].state \in {PRESENT, p}
    /\ proc[p].pc = "slow" => slot[proc[p].slot].state = p

\* What the feeder may rely on: the slot that it fills is empty, and the slot
\* that it resets is in the name of a process that has ended.
FeederOwns ==
    /\ feeder.pc # "purge"
    /\ feeder.pc = "get" => slot[feeder.i].state = EMPTY
    /\ feeder.pc \in {"stat", "reset"} => slot[feeder.i].state = feeder.pid /\ feeder.pid \in Pids
    /\ feeder.pc = "reset" => ~Alive(feeder.pid)

Inv == CacheTypeOK /\ (\A p \in Pids : Owns(p)) /\ FeederOwns

\* A slot is only written where no claim of another process stands.
Untouched(p, q) ==
    /\ proc'[q] = proc[q]
    /\ sema = q => sema' = q
    /\ \A i \in Slots : slot'[i].state = slot[i].state \/ slot[i].state = p
                           \/ (sema = p /\ slot[i].state = PRESENT)

\* A step of p leaves process q and the slots of others alone.
LEMMA StepIsLocal ==
    ASSUME Inv, NEW p \in Pids, NEW q \in Pids, p # q, ProcessStep(p)
    PROVE  Untouched(p, q)
<1>1. proc' = [proc EXCEPT ![p] = proc'[p]]
  BY DEF Inv, CacheTypeOK, ProcessStep, Lock, FindWork, NoWork, Reserve, Scan, Crash, Recheck,
         CannotSendHere, CannotSendAnywhere, CanSend, Reread, MarkAsSent, Leave, Exit, Goto, Send
<1>2. proc'[q] = proc[q]
  BY <1>1 DEF Inv, CacheTypeOK
<1>3. q # Nobody /\ p \notin {EMPTY, PRESENT}
  BY JobCacheAssumption
<1>4. sema = q => sema' = q
  BY <1>3 DEF Inv, Owns, ProcessStep, Lock, FindWork, NoWork, Reserve, Scan, Crash, Recheck,
         CannotSendHere, CannotSendAnywhere, CanSend, Reread, MarkAsSent, Leave, Exit, Unlocked
<1>5. \/ UNCHANGED slot
      \/ \E i \in Slots, s \in SlotStates :
           SetState(i, s) /\ (slot[i].state = p \/ (sema = p /\ slot[i].state = PRESENT))
  <2>1. proc[p].slot \in Slots /\ p \in SlotStates /\ PRESENT \in SlotStates /\ EMPTY \in SlotStates
    BY DEF Inv, CacheTypeOK, SlotStates
  <2>2. QED
    BY <2>1 DEF Inv, Owns, ProcessStep, Lock, FindWork, NoWork, Reserve, Scan, Crash, Recheck,
         CannotSendHere, CannotSendAnywhere, CanSend, Reread, MarkAsSent, Leave, Exit, RestoreWork
<1>6. \A i \in Slots : slot'[i].state = slot[i].state \/ slot[i].state = p
                           \/ (sema = p /\ slot[i].state = PRESENT)
  BY <1>5 DEF SetState, Inv, CacheTypeOK
<1>7. QED
  BY <1>2, <1>4, <1>6 DEF Untouched

\* A step of another process takes nothing from q.
LEMMA OthersKeepOwns ==
    ASSUME Inv, NEW p \in Pids, NEW q \in Pids, p # q, Untouched(p, q)
    PROVE  Owns(q)'
<1>1. Owns(q) /\ proc[q].slot \in Slots /\ q # PRESENT /\ p # PRESENT
  BY JobCacheAssumption DEF Inv, CacheTypeOK
<1>2. (proc[q].slot)' = proc[q].slot /\ (proc[q].pc)' = proc[q].pc
  BY DEF Untouched
<1>3. LET i == proc[q].slot IN
        slot'[i].state = slot[i].state \/ slot[i].state = p \/ (sema = p /\ slot[i].state = PRESENT)
  BY <1>1 DEF Untouched
<1>4. sema = q => sema' = q
  BY DEF Untouched
<1>5. QED
  BY <1>1, <1>2, <1>3, <1>4 DEF Owns

\* A process's own step keeps or ends its claims.
LEMMA OwnStepKeepsOwns ==
    ASSUME Inv, NEW p \in Pids, ProcessStep(p)
    PROVE  Owns(p)'
<1>1. /\ Owns(p) /\ proc \in [Pids -> ProcRecords] /\ slot \in [Slots -> SlotRecords]
      /\ proc[p] \in ProcRecords /\ proc[p].slot \in Slots
      /\ \A job \in proc[p].jobs : job.slot \in Slots
  BY DEF Inv, CacheTypeOK, ProcRecords, SlotRecords, Jobs
<1>2. CASE Lock(p)
  BY <1>1, <1>2 DEF Lock, Owns, Goto, ProcRecords
<1>3. CASE FindWork(p)
  BY <1>1, <1>3 DEF FindWork, Owns, ProcRecords
<1>4. CASE NoWork(p) \/ Crash(p) \/ Leave(p)
  BY <1>1, <1>4 DEF NoWork, Crash, Leave, Owns, idle
<1>5. CASE Reserve(p)
  BY <1>1, <1>5 DEF Reserve, Owns, Goto, SetState, ProcRecords, SlotRecords
<1>6. CASE Scan(p)
  BY <1>1, <1>6 DEF Scan, Send, idle, Owns, ProcRecords
<1>7. CASE Recheck(p)
  BY <1>1, <1>7 DEF Recheck, StillThere, Usable, Owns, ProcRecords
<1>8. CASE CannotSendHere(p) \/ CannotSendAnywhere(p) \/ CanSend(p)
  BY <1>1, <1>8 DEF CannotSendHere, CannotSendAnywhere, CanSend, Send, Goto, idle, Owns, ProcRecords
<1>9. CASE Reread(p)
  BY <1>1, <1>9 DEF Reread, Send, idle, Owns, ProcRecords
<1>10. CASE MarkAsSent(p)
  BY <1>1, <1>10 DEF MarkAsSent, Send, idle, Owns, ProcRecords
<1>11. CASE Exit(p)
  BY <1>1, <1>11 DEF Exit, idle, Owns, ProcRecords
<1>12. QED
  BY <1>2, <1>3, <1>4, <1>5, <1>6, <1>7, <1>8, <1>9, <1>10, <1>11 DEF ProcessStep

\* A process writes to slots that are not empty.
LEMMA StepWritesFullSlots ==
    ASSUME Inv, NEW p \in Pids, ProcessStep(p)
    PROVE  UNCHANGED slot \/ \E i \in Slots, s \in SlotStates : SetState(i, s) /\ slot[i].state # EMPTY
<1>1. proc[p].slot \in Slots /\ p \notin {EMPTY, PRESENT} /\ EMPTY # PRESENT
  BY JobCacheAssumption DEF Inv, CacheTypeOK, EMPTY, PRESENT
<1>2. QED
  BY <1>1 DEF Inv, CacheTypeOK, SlotStates, Owns, ProcessStep, Lock, FindWork, NoWork, Reserve, Scan,
     Crash, Recheck, CannotSendHere, CannotSendAnywhere, CanSend, Reread, MarkAsSent, Leave, Exit,
     RestoreWork

\* A process's step leaves the feeder's slot as the feeder saw it.
LEMMA StepKeepsFeederOwns ==
    ASSUME Inv, ~FeederPauses, NEW p \in Pids, ProcessStep(p)
    PROVE  FeederOwns'
<1>1. feeder.i \in Slots /\ p \notin {EMPTY, PRESENT} /\ EMPTY # PRESENT
  BY JobCacheAssumption DEF Inv, CacheTypeOK, EMPTY, PRESENT
<1>2. UNCHANGED feeder
  BY DEF ProcessStep, Lock, FindWork, NoWork, Reserve, Scan, Crash, Recheck, CannotSendHere,
         CannotSendAnywhere, CanSend, Reread, MarkAsSent, Leave, Exit
<1>3. feeder.pc \notin {"stat", "reset"}
  BY DEF ProcessStep, MayRun
<1>4. slot[feeder.i].state = EMPTY => slot'[feeder.i].state = EMPTY
  BY <1>1, StepWritesFullSlots DEF SetState, Inv, CacheTypeOK
<1>5. QED
  BY <1>2, <1>3, <1>4 DEF FeederOwns, Inv

\* The feeder resets the slots of dead processes only, and fills empty ones.
LEMMA FeederKeepsInv ==
    ASSUME Inv, CacheTypeOK', ~PurgeStale, ~MayReread, FeederStep
    PROVE  (\A p \in Pids : Owns(p)') /\ FeederOwns'
<1>1. /\ slot \in [Slots -> SlotRecords] /\ feeder \in FeederRecords /\ feeder.i \in Slots
      /\ EMPTY # PRESENT /\ EMPTY \notin Pids /\ PRESENT \notin Pids
      /\ \A p \in Pids : Owns(p) /\ proc[p].slot \in Slots
  BY JobCacheAssumption DEF Inv, CacheTypeOK, SlotRecords, FeederRecords, EMPTY, PRESENT
<1>2. UNCHANGED <<proc, sema>>
  BY DEF FeederStep, FeederVisit, FeederPurge, FeederStat, FeederReset, FeederQuery, FeederFetch,
         FeederEndOfRows, FeederReady, FeederTrigger
<1>3. /\ NextSlot.pc \in {"visit", "ready"}
      /\ FillOrSkip.pc = "get" \/ FillOrSkip.pc \in {"visit", "ready"}
      /\ FillOrSkip.i = feeder.i \/ FillOrSkip.pc # "get"
  BY <1>1 DEF NextSlot, FillOrSkip, FeederRecords
<1>4. CASE FeederVisit
  <2>1. UNCHANGED slot
    BY <1>4 DEF FeederVisit
  <2>2. FeederOwns'
    BY <1>1, <1>3, <1>4, <2>1 DEF FeederVisit, FeederOwns, FeederRecords
  <2>3. QED
    BY <1>1, <1>2, <2>1, <2>2 DEF Owns
<1>5. CASE FeederPurge
  BY <1>5 DEF FeederPurge, Inv, FeederOwns
<1>6. CASE FeederStat
  <2>1. UNCHANGED slot
    BY <1>6 DEF FeederStat
  <2>2. FeederOwns'
    BY <1>1, <1>2, <1>3, <1>6, <2>1 DEF FeederStat, FeederOwns, FeederRecords, Inv, Alive
  <2>3. QED
    BY <1>1, <1>2, <2>1, <2>2 DEF Owns
<1>7. CASE FeederReset
  <2>1. slot' = [slot EXCEPT ![feeder.i].state = PRESENT] /\ feeder' = NextSlot
    BY <1>7 DEF FeederReset, ResetSlot, SetState
  <2>2. slot[feeder.i].state = feeder.pid /\ feeder.pid \in Pids /\ ~Alive(feeder.pid)
    BY <1>7 DEF FeederReset, Inv, FeederOwns
  <2>3. \A p \in Pids : Owns(p)'
    BY <1>1, <1>2, <2>1, <2>2 DEF Owns, Alive, SlotRecords
  <2>4. FeederOwns'
    BY <1>3, <2>1 DEF FeederOwns
  <2>5. QED
    BY <2>3, <2>4
<1>8. CASE FeederQuery
  BY <1>1, <1>2, <1>8 DEF FeederQuery, FeederOwns, Inv, Owns, FeederRecords
<1>9. CASE FeederFetch
  <2>1. PICK row \in feeder.rows :
          \/ /\ feeder' = [feeder EXCEPT !.rows = feeder.rows \ {row}]
             /\ UNCHANGED slot
          \/ /\ slot' = [slot EXCEPT ![feeder.i] = [state |-> PRESENT, r |-> row.r]]
             /\ feeder' = [NextSlot EXCEPT !.rows = feeder.rows \ {row}]
    BY <1>9 DEF FeederFetch
  <2>2. slot[feeder.i].state = EMPTY
    BY <1>9 DEF FeederFetch, Inv, FeederOwns
  <2>3. \A p \in Pids : Owns(p)'
    BY <1>1, <1>2, <2>1, <2>2 DEF Owns, SlotRecords
  <2>4. NextSlot \in FeederRecords
    BY FeederUpdates DEF Inv
  <2>5. FeederOwns'
    BY <1>1, <1>3, <1>9, <2>1, <2>4 DEF FeederFetch, FeederOwns, Inv, FeederRecords
  <2>6. QED
    BY <2>3, <2>5
<1>10. CASE FeederEndOfRows
  <2>1. UNCHANGED slot
    BY <1>10 DEF FeederEndOfRows
  <2>2. NextSlot \in FeederRecords
    BY FeederUpdates DEF Inv
  <2>3. FeederOwns'
    BY <1>1, <1>3, <1>10, <2>1, <2>2 DEF FeederEndOfRows, NextPhase, FeederOwns, Inv, FeederRecords
  <2>4. QED
    BY <1>1, <1>2, <2>1, <2>3 DEF Owns
<1>11. CASE FeederReady \/ FeederTrigger
  <2>1. UNCHANGED slot /\ feeder'.pc \in {"trigger", "visit"}
    BY <1>1, <1>11 DEF FeederReady, FeederTrigger, FeederRecords
  <2>2. QED
    BY <1>1, <1>2, <2>1 DEF Owns, FeederOwns
<1>12. QED
  BY <1>4, <1>5, <1>6, <1>7, <1>8, <1>9, <1>10, <1>11 DEF FeederStep

\* The claims of processes and feeder survive every step, if the feeder does
\* not purge stale jobs, does not clear the segment and is not interrupted
\* between its check of a process and the reset of the slot.
LEMMA NextInv ==
    ASSUME Inv, [Next]_vars, ~PurgeStale, ~MayReread, ~FeederPauses
    PROVE  Inv'
<1>1. CacheTypeOK'
  BY NextType DEF Inv
<1>2. CASE UNCHANGED vars
  BY <1>1, <1>2 DEF vars, Inv, Owns, FeederOwns, Alive
<1>3. CASE \E p \in Pids : ProcessStep(p)
  <2>1. PICK p \in Pids : ProcessStep(p)
    BY <1>3
  <2>2. \A q \in Pids : Owns(q)'
    BY <2>1, OwnStepKeepsOwns, OthersKeepOwns, StepIsLocal
  <2>3. FeederOwns'
    BY <2>1, StepKeepsFeederOwns
  <2>4. QED
    BY <1>1, <2>2, <2>3 DEF Inv
<1>4. CASE \E p \in Pids : Birth(p) \/ Death(p)
  <2>1. PICK p \in Pids : Birth(p) \/ Death(p)
    BY <1>4
  <2>2. proc'[p].pc \in {"begin", "dead"} /\ UNCHANGED <<slot, feeder>>
    BY <2>1 DEF Birth, Start, Death, Die, Goto, idle, Inv, CacheTypeOK
  <2>3. \A q \in Pids \ {p} : proc'[q] = proc[q] /\ (sema = q => sema' = q)
    BY <2>1 DEF Birth, Start, Death, Die, Goto, Unlocked, Inv, CacheTypeOK
  <2>4. \A q \in Pids : Owns(q)'
    BY <2>2, <2>3 DEF Owns, Inv
  <2>5. feeder.pc \notin {"stat", "reset"}
    BY <2>1 DEF Birth, Death, MayRun
  <2>6. QED
    BY <1>1, <2>2, <2>4, <2>5 DEF Inv, FeederOwns
<1>5. CASE FeederStep
  BY <1>1, <1>5, FeederKeepsInv DEF Inv
<1>6. CASE DatabaseStep
  <2>1. UNCHANGED cacheVars
    BY <1>6 DEF DatabaseStep, Create, Return, Fail, EndUnsent, cacheVars
  <2>2. QED
    BY <1>1, <2>1 DEF cacheVars, Inv, Owns, FeederOwns, Alive
<1>7. QED
  BY <1>2, <1>3, <1>4, <1>5, <1>6 DEF Next

\* Nobody claims anything at first.
LEMMA InitInv == Init => Inv
BY InitType DEF Init, idle, Inv, Owns, FeederOwns

\* While a process makes its slow checks its slot stays in its name: its
\* reservation is not lost to other processes, to a process with the id of one
\* that died, or to the feeder's reset of dead reservations.
THEOREM HeldWhileChecked ==
    ASSUME ~PurgeStale, ~MayReread, ~FeederPauses
    PROVE  Spec => []SlotHeldWhileChecked
<1>1. Init => Inv
  BY InitInv
<1>2. Inv /\ [Next]_vars => Inv'
  BY NextInv
<1>3. Inv => SlotHeldWhileChecked
  BY DEF Inv, Owns, SlotHeldWhileChecked
<1>4. QED
  BY <1>1, <1>2, <1>3, PTL DEF Spec

-----------------------------------------------------------------------------
\* Only the feeder's fetch puts a result into a slot or fills an empty one.
LEMMA SlotsKeepResults ==
    ASSUME Inv, [Next]_vars, ~PurgeStale, ~MayReread, ~FeederFetch
    PROVE  \A i \in Slots : slot'[i].r = slot[i].r
                            /\ (slot'[i].state # EMPTY => slot[i].state # EMPTY)
<1>1. \A p \in Pids : p # EMPTY
  BY JobCacheAssumption
<1>2. feeder.i \in Slots /\ EMPTY # PRESENT
  BY DEF Inv, CacheTypeOK, EMPTY, PRESENT
<1>3. \/ UNCHANGED slot
      \/ \E i \in Slots, s \in SlotStates : SetState(i, s) /\ slot[i].state # EMPTY
  <2>1. CASE \E p \in Pids : ProcessStep(p)
    BY <2>1, StepWritesFullSlots
  <2>2. CASE \E p \in Pids : Birth(p) \/ Death(p)
    BY <2>2 DEF Birth, Start, Death, Die
  <2>3. CASE FeederStep
    <3>1. CASE FeederReset
      <4>1. slot[feeder.i].state = feeder.pid /\ feeder.pid \in Pids
        BY <3>1 DEF FeederReset, Inv, FeederOwns
      <4>2. QED
        BY <3>1, <4>1, <1>1, <1>2 DEF FeederReset, ResetSlot, SlotStates
    <3>2. CASE FeederPurge
      BY <3>2 DEF FeederPurge, Inv, FeederOwns
    <3>3. CASE ~FeederReset /\ ~FeederPurge
      BY <2>3, <3>3 DEF FeederStep, FeederVisit, FeederStat, FeederQuery, FeederEndOfRows,
         FeederReady, FeederTrigger
    <3>4. QED
      BY <3>1, <3>2, <3>3
  <2>4. CASE DatabaseStep \/ UNCHANGED vars
    BY <2>4 DEF DatabaseStep, Create, Return, Fail, EndUnsent, cacheVars, vars
  <2>5. QED
    BY <2>1, <2>2, <2>3, <2>4 DEF Next
<1>4. QED
  BY <1>3 DEF SetState, Inv, CacheTypeOK

\* A result is in one slot only, although the feeder searches the slots
\* without the semaphore while processes give slots up and back.
THEOREM ResultCachedOnce ==
    ASSUME ~PurgeStale, ~MayReread, ~FeederPauses
    PROVE  Spec => []CachedOnce
<1>1. Init => Inv /\ CachedOnce
  BY InitInv DEF Init, CachedOnce
<1>2. Inv /\ CachedOnce /\ [Next]_vars => Inv' /\ CachedOnce'
  <2>1. SUFFICES ASSUME Inv, CachedOnce, [Next]_vars PROVE CachedOnce'
    BY NextInv
  <2>2. CASE FeederFetch
    <3>1. slot \in [Slots -> SlotRecords] /\ feeder.i \in Slots
      BY <2>1 DEF Inv, CacheTypeOK, SlotRecords
    <3>2. PICK row \in feeder.rows :
            \/ UNCHANGED slot
            \/ ~Collides(row.r) /\ slot' = [slot EXCEPT ![feeder.i] = [state |-> PRESENT, r |-> row.r]]
      BY <2>2 DEF FeederFetch
    <3>3. QED
      BY <2>1, <3>1, <3>2 DEF CachedOnce, Collides
  <2>3. CASE ~FeederFetch
    BY <2>1, <2>3, SlotsKeepResults DEF CachedOnce
  <2>4. QED
    BY <2>2, <2>3
<1>3. QED
  BY <1>1, <1>2, PTL DEF Spec
=============================================================================
