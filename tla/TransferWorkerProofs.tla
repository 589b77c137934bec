----------------------- MODULE TransferWorkerProofs -----------------------
(***************************************************************************)
(* Proofs about TransferWorker: its type invariant, that every running     *)
(* loop is the entry of its key in the job map, that no more than          *)
(* MaxActiveJobs loops run, and that it implements JobLifecycle.           *)
(*                                                                         *)
(* RunnersAreMapped is not inductive: it says nothing about the entries    *)
(* that have ended, which a start replaces and a timer removes. MapInv     *)
(* adds that the map and the job objects agree in both directions, and     *)
(* SlotsInv the bound on what activeJobCount() counts, from which the      *)
(* bound on the loops follows.                                             *)
(***************************************************************************)
EXTENDS TransferWorker, FiniteSetTheorems, TLAPS

(* The job map and the job objects agree. *)
MapInv ==
  /\ \A j \in Executing : jobs[key[j]] = j /\ state[j] = "RUNNING"
  /\ \A j \in JobId : pc[j] = "done" => state[j] \in Terminal
  /\ \A k \in Key : jobs[k] # NoJob =>
        key[jobs[k]] = k /\ pc[jobs[k]] # "free"
  /\ \A j \in timers : pc[j] = "done"

(* A file of an executing job is always left to upload. *)
FilesInv ==
  /\ \A j \in Executing : filesDone[j] < fileCount[j]
  /\ \A j \in JobId : filesDone[j] <= fileCount[j]

(* The bound on the count the code takes before it starts a job. *)
SlotsInv == Cardinality(ActiveKeys) <= MaxActiveJobs

IInv == TypeOK /\ MapInv /\ FilesInv /\ SlotsInv

----------------------------------------------------------------------------

(* The keys activeJobCount() counts are those of the executing jobs. *)
LEMMA BusyIsExecuting ==
  ASSUME TypeOK, MapInv, NEW k \in Key
  PROVE  Busy(k) <=> jobs[k] \in Executing
BY WorkerAssumption DEF TypeOK, MapInv, Busy, Executing, Terminal

(* Initially nothing runs. *)
LEMMA InitInv == Init => IInv
<1> SUFFICES ASSUME Init PROVE IInv
  OBVIOUS
<1>1. TypeOK
  BY WorkerAssumption DEF Init, TypeOK, TransferState, Terminal
<1>2. MapInv /\ FilesInv
  BY DEF Init, MapInv, FilesInv, Executing
<1>3. ActiveKeys = {}
  BY DEF Init, ActiveKeys, Busy
<1>4. SlotsInv
  BY <1>3, FS_EmptySet, WorkerAssumption DEF SlotsInv
<1> QED
  BY <1>1, <1>2, <1>4 DEF IInv

(* Every step keeps the types. *)
LEMMA TypeStep ==
  ASSUME TypeOK, FilesInv, [Next]_vars
  PROVE  TypeOK'
<1> USE WorkerAssumption DEF TypeOK, TransferState, Terminal
<1>1. ASSUME NEW k \in Key, NEW j \in JobId, NEW n \in 1..MaxFiles,
             NEW t \in Totals \cup {Unknown}, Start(k, j, n, t)
      PROVE  TypeOK'
  BY <1>1 DEF Start
<1>2. ASSUME NEW k \in Key, Cancel(k)
      PROVE  TypeOK'
  BY <1>2 DEF Cancel, snapVars
<1>3. ASSUME NEW j \in JobId, Opened(j)
      PROVE  TypeOK'
  BY <1>3 DEF Opened, snapVars
<1>4. ASSUME NEW j \in JobId, Rejected(j)
      PROVE  TypeOK'
  BY <1>4 DEF Rejected, Settle, Outcome
<1>5. ASSUME NEW j \in JobId, NEW b \in 0..MaxLoaded, Progress(j, b)
      PROVE  TypeOK'
  <2> doneBytes[j] + b \in Nat
    OBVIOUS
  <2>1. limitError' \in [JobId -> BOOLEAN]
    BY <1>5, Zenon DEF Progress, OverCap
  <2> QED
    BY <1>5, <2>1 DEF Progress
<1>6. ASSUME NEW j \in JobId, FileUploaded(j)
      PROVE  TypeOK'
  <2>1. j \in Executing /\ BytesWithFile(j) \in Nat
    BY <1>6 DEF FileUploaded, Executing, BytesWithFile
  <2>2. filesDone[j] + 1 \in 0..MaxFiles
    BY <2>1 DEF FilesInv
  <2> QED
    BY <1>6, <2>1, <2>2 DEF FileUploaded, Settle
<1>7. ASSUME NEW j \in JobId, FileOverCap(j)
      PROVE  TypeOK'
  BY <1>7 DEF FileOverCap, Settle
<1>8. ASSUME NEW j \in JobId, CleanUp(j)
      PROVE  TypeOK'
  BY <1>8 DEF CleanUp, snapVars
<1>9. ASSUME UNCHANGED vars
      PROVE  TypeOK'
  BY <1>9 DEF vars, snapVars
<1> QED
  BY <1>1, <1>2, <1>3, <1>4, <1>5, <1>6, <1>7, <1>8, <1>9
     DEF Next, JobStep

(* Every step keeps the map and the job objects in agreement.              *)
LEMMA MapStep ==
  ASSUME TypeOK, MapInv, [Next]_vars
  PROVE  MapInv'
<1> USE WorkerAssumption DEF TypeOK, MapInv, Executing, Terminal
<1>1. ASSUME NEW k \in Key, NEW j \in JobId, NEW n \in 1..MaxFiles,
             NEW t \in Totals \cup {Unknown}, Start(k, j, n, t)
      PROVE  MapInv'
  <2>1. ~Busy(k) /\ pc[j] \in {"free", "done"} /\ j \notin timers
    BY <1>1 DEF Start, MayStart, Unreferenced
  <2>2. \A i \in JobId \ {j} : pc'[i] = pc[i] /\ state'[i] = state[i] /\ key'[i] = key[i]
    BY <1>1 DEF Start
  <2>3. pc'[j] = "open" /\ state'[j] = "RUNNING" /\ key'[j] = k /\ jobs'[k] = j
    BY <1>1 DEF Start
  <2>4. \A i \in Executing : key[i] # k
    BY <2>1 DEF Busy
  <2>5. \A i \in Executing' : jobs'[key'[i]] = i /\ state'[i] = "RUNNING"
    BY <1>1, <2>2, <2>3, <2>4 DEF Start
  <2>6. \A q \in Key : jobs'[q] # NoJob => key'[jobs'[q]] = q /\ pc'[jobs'[q]] # "free"
    BY <1>1, <2>2, <2>3 DEF Start, Unreferenced
  <2> QED
    BY <1>1, <2>1, <2>2, <2>3, <2>5, <2>6 DEF Start
<1>2. ASSUME NEW k \in Key, Cancel(k)
      PROVE  MapInv'
  BY <1>2 DEF Cancel, snapVars
<1>3. ASSUME NEW j \in JobId, Opened(j)
      PROVE  MapInv'
  BY <1>3 DEF Opened, snapVars
<1>4. ASSUME NEW j \in JobId, Rejected(j)
      PROVE  MapInv'
  BY <1>4 DEF Rejected, Settle, Outcome
<1>5. ASSUME NEW j \in JobId, NEW b \in 0..MaxLoaded, Progress(j, b)
      PROVE  MapInv'
  BY <1>5 DEF Progress
<1>6. ASSUME NEW j \in JobId, FileUploaded(j)
      PROVE  MapInv'
  BY <1>6 DEF FileUploaded, Settle
<1>7. ASSUME NEW j \in JobId, FileOverCap(j)
      PROVE  MapInv'
  BY <1>7 DEF FileOverCap, Settle
<1>8. ASSUME NEW j \in JobId, CleanUp(j)
      PROVE  MapInv'
  BY <1>8 DEF CleanUp, snapVars, Forgettable
<1>9. ASSUME UNCHANGED vars
      PROVE  MapInv'
  BY <1>9 DEF vars, snapVars
<1> QED
  BY <1>1, <1>2, <1>3, <1>4, <1>5, <1>6, <1>7, <1>8, <1>9
     DEF Next, JobStep

(* Every step leaves an executing job with a file to upload.               *)
LEMMA FilesStep ==
  ASSUME TypeOK, FilesInv, [Next]_vars
  PROVE  FilesInv'
<1> USE WorkerAssumption DEF TypeOK, FilesInv, Executing
<1>1. ASSUME NEW k \in Key, NEW j \in JobId, NEW n \in 1..MaxFiles,
             NEW t \in Totals \cup {Unknown}, Start(k, j, n, t)
      PROVE  FilesInv'
  BY <1>1 DEF Start
<1>2. ASSUME NEW j \in JobId, FileUploaded(j)
      PROVE  FilesInv'
  BY <1>2 DEF FileUploaded, Settle, LastFile
<1>3. ASSUME NEW j \in JobId, Rejected(j) \/ FileOverCap(j)
      PROVE  FilesInv'
  BY <1>3 DEF Rejected, FileOverCap, Settle
<1>4. ASSUME NEW j \in JobId, NEW b \in 0..MaxLoaded,
             Opened(j) \/ Progress(j, b) \/ CleanUp(j)
      PROVE  FilesInv'
  BY <1>4 DEF Opened, Progress, CleanUp, snapVars
<1>5. ASSUME NEW k \in Key, Cancel(k) \/ UNCHANGED vars
      PROVE  FilesInv'
  BY <1>5 DEF Cancel, vars, snapVars
<1>6. ASSUME UNCHANGED vars
      PROVE  FilesInv'
  BY <1>6 DEF vars, snapVars
<1> QED
  BY <1>1, <1>2, <1>3, <1>4, <1>5, <1>6 DEF Next, JobStep

(* Only a start adds a key to the active ones, and only one.               *)
LEMMA ActiveKeysStep ==
  ASSUME TypeOK, MapInv, [Next]_vars
  PROVE  \/ ActiveKeys' \subseteq ActiveKeys
         \/ \E k \in Key : /\ Cardinality(ActiveKeys) < MaxActiveJobs
                           /\ ActiveKeys' = ActiveKeys \cup {k}
<1> DEFINE Fewer == ActiveKeys' \subseteq ActiveKeys
           More(k) == /\ Cardinality(ActiveKeys) < MaxActiveJobs
                      /\ ActiveKeys' = ActiveKeys \cup {k}
<1>1. ASSUME NEW k \in Key, NEW j \in JobId, NEW n \in 1..MaxFiles,
             NEW t \in Totals \cup {Unknown}, Start(k, j, n, t)
      PROVE  More(k)
  BY <1>1, WorkerAssumption DEF TypeOK, ActiveKeys, Busy,
     Start, MayStart, Unreferenced
<1>2. ASSUME NEW j \in JobId, Rejected(j) \/ FileOverCap(j) \/ FileUploaded(j)
      PROVE  Fewer
  BY <1>2, WorkerAssumption DEF TypeOK, ActiveKeys, Busy,
     Rejected, FileOverCap, FileUploaded, Settle, Outcome
<1>3. ASSUME NEW j \in JobId, Opened(j) \/ CleanUp(j)
      PROVE  Fewer
  BY <1>3, WorkerAssumption DEF TypeOK, ActiveKeys, Busy,
     Opened, CleanUp, Forgettable, snapVars
<1>4. ASSUME NEW j \in JobId, NEW b \in 0..MaxLoaded, Progress(j, b)
      PROVE  Fewer
  BY <1>4 DEF ActiveKeys, Busy, Progress
<1>5. ASSUME NEW k \in Key, Cancel(k)
      PROVE  Fewer
  BY <1>5 DEF ActiveKeys, Busy, Cancel, snapVars
<1>6. ASSUME UNCHANGED vars
      PROVE  Fewer
  BY <1>6 DEF ActiveKeys, Busy, vars, snapVars
<1>7. Fewer \/ \E k \in Key : More(k)
  <2> HIDE DEF Fewer, More
  <2> QED
    BY <1>1, <1>2, <1>3, <1>4, <1>5, <1>6 DEF Next, JobStep
<1> QED
  BY <1>7

(* The active keys are a finite set.                                       *)
LEMMA ActiveKeysFinite ==
  IsFiniteSet(ActiveKeys) /\ Cardinality(ActiveKeys) \in Nat
BY WorkerAssumption, FS_Subset, FS_CardinalityType DEF ActiveKeys

(* Every step keeps the bound on the active keys.                          *)
LEMMA SlotsStep ==
  ASSUME TypeOK, MapInv, SlotsInv, [Next]_vars
  PROVE  SlotsInv'
<1>1. CASE ActiveKeys' \subseteq ActiveKeys
  <2>1. Cardinality(ActiveKeys') <= Cardinality(ActiveKeys)
    BY <1>1, ActiveKeysFinite, FS_Subset
  <2>2. Cardinality(ActiveKeys') \in Nat
    BY <1>1, ActiveKeysFinite, FS_Subset, FS_CardinalityType
  <2> QED
    BY <2>1, <2>2, ActiveKeysFinite, WorkerAssumption DEF SlotsInv
<1>2. ASSUME NEW k \in Key, Cardinality(ActiveKeys) < MaxActiveJobs,
             ActiveKeys' = ActiveKeys \cup {k}
      PROVE  SlotsInv'
  <2>1. Cardinality(ActiveKeys') <= Cardinality(ActiveKeys) + 1
    BY <1>2, ActiveKeysFinite, FS_AddElement
  <2>2. Cardinality(ActiveKeys') \in Nat
    BY <1>2, ActiveKeysFinite, FS_AddElement, FS_CardinalityType
  <2> QED
    BY <1>2, <2>1, <2>2, ActiveKeysFinite, WorkerAssumption DEF SlotsInv
<1> QED
  BY <1>1, <1>2, ActiveKeysStep

(* The bound on the active keys bounds the loops: distinct executing jobs  *)
(* are the entries of distinct active keys.                                *)
LEMMA LoopsWithinSlots ==
  ASSUME TypeOK, MapInv, SlotsInv
  PROVE  SlotsBounded
<1> DEFINE f == [j \in Executing |-> key[j]]
<1>1. f \in Injection(Executing, ActiveKeys)
  <2>1. \A j \in Executing : key[j] \in ActiveKeys /\ jobs[key[j]] = j
    BY WorkerAssumption DEF TypeOK, MapInv, Executing, ActiveKeys, Busy
  <2> QED
    BY <2>1 DEF Injection, IsInjective
<1>2. Cardinality(Executing) <= Cardinality(ActiveKeys) /\ IsFiniteSet(Executing)
  BY <1>1, ActiveKeysFinite, FS_Injection
<1>3. Cardinality(Executing) \in Nat
  BY <1>2, FS_CardinalityType
<1> QED
  BY <1>2, <1>3, ActiveKeysFinite, WorkerAssumption DEF SlotsInv, SlotsBounded

----------------------------------------------------------------------------

(* The strengthened invariant holds in every reachable state.              *)
THEOREM Invariance == Spec => []IInv
<1>1. IInv /\ [Next]_vars => IInv'
  BY TypeStep, MapStep, FilesStep, SlotsStep DEF IInv
<1> QED
  BY InitInv, <1>1, PTL DEF Spec

(* The variables keep their types (TypeOK).                                *)
THEOREM TypeCorrect == Spec => []TypeOK
<1>1. IInv => TypeOK
  BY DEF IInv
<1> QED
  BY Invariance, <1>1, PTL

(* No loop escapes the map, for any number of transfers and restarts.      *)
THEOREM RunnersMapped == Spec => []RunnersAreMapped
<1>1. IInv => RunnersAreMapped
  BY DEF IInv, MapInv, RunnersAreMapped
<1> QED
  BY Invariance, <1>1, PTL

(* A transfer has one loop at most, and the map leads to it (WorkerInv).   *)
THEOREM WorkerCorrect == Spec => []WorkerInv
<1>1. TypeOK /\ RunnersAreMapped => WorkerInv
  BY DEF WorkerInv
<1> QED
  BY TypeCorrect, RunnersMapped, <1>1, PTL

(* Never more than MaxActiveJobs upload loops run in the process.          *)
THEOREM LoopsBounded == Spec => []SlotsBounded
<1>1. IInv => SlotsBounded
  BY LoopsWithinSlots DEF IInv
<1> QED
  BY Invariance, <1>1, PTL

----------------------------------------------------------------------------
(***************************************************************************)
(* The byte accounting. While a job executes, what it shows is the sum of  *)
(* the files done and the current one, and that sum is within the cap      *)
(* unless limitError says otherwise: this is what makes the last check of  *)
(* the cap sufficient, and what keeps the count from going back.           *)
(***************************************************************************)

BytesInv ==
  \A j \in Executing :
    /\ transferred[j] = doneBytes[j] + fileBytes[j]
    /\ ~limitError[j] /\ MaxBytes > 0 => transferred[j] <= MaxBytes

(* The accounting and the promise about completed jobs hold initially.     *)
LEMMA InitBytes == Init => BytesInv /\ CompletedWithinCap
BY DEF Init, BytesInv, CompletedWithinCap, Executing

(* Every step keeps the accounting.                                        *)
LEMMA BytesStep ==
  ASSUME IInv, BytesInv, [Next]_vars
  PROVE  BytesInv'
<1>0. TypeOK /\ MapInv
  BY DEF IInv
<1> USE <1>0, WorkerAssumption DEF TypeOK, BytesInv, Executing
<1>1. ASSUME NEW k \in Key, NEW j \in JobId, NEW n \in 1..MaxFiles,
             NEW t \in Totals \cup {Unknown}, Start(k, j, n, t)
      PROVE  BytesInv'
  BY <1>1 DEF Start
<1>2. ASSUME NEW j \in JobId, NEW b \in 0..MaxLoaded, Progress(j, b)
      PROVE  BytesInv'
  <2>1. \A i \in JobId \ {j} : /\ transferred'[i] = transferred[i]
                               /\ fileBytes'[i] = fileBytes[i]
                               /\ limitError'[i] = limitError[i]
    BY <1>2 DEF Progress
  <2>2. transferred'[j] = doneBytes[j] + b /\ fileBytes'[j] = b
    BY <1>2 DEF Progress
  <2>3. ~limitError'[j] => ~limitError[j] /\ ~OverCap(j, doneBytes[j] + b)
    BY <1>2, Zenon DEF Progress
  <2> QED
    BY <1>2, <2>1, <2>2, <2>3 DEF Progress, OverCap
<1>3. ASSUME NEW j \in JobId, FileUploaded(j)
      PROVE  BytesInv'
  BY <1>3 DEF FileUploaded, Settle, BytesWithFile, WithinCap
<1>4. ASSUME NEW j \in JobId, Rejected(j) \/ FileOverCap(j)
      PROVE  BytesInv'
  BY <1>4 DEF Rejected, FileOverCap, Settle
<1>5. ASSUME NEW j \in JobId, Opened(j) \/ CleanUp(j)
      PROVE  BytesInv'
  BY <1>5 DEF Opened, CleanUp, snapVars
<1>6. ASSUME NEW k \in Key, Cancel(k)
      PROVE  BytesInv'
  BY <1>6 DEF Cancel, snapVars
<1>7. ASSUME UNCHANGED vars
      PROVE  BytesInv'
  BY <1>7 DEF vars, snapVars
<1> QED
  BY <1>1, <1>2, <1>3, <1>4, <1>5, <1>6, <1>7 DEF Next, JobStep

(* Every step keeps the promise about completed jobs.                      *)
LEMMA CompletedStep ==
  ASSUME IInv, BytesInv, CompletedWithinCap, [Next]_vars
  PROVE  CompletedWithinCap'
<1>0. TypeOK /\ MapInv
  BY DEF IInv
<1> USE <1>0, WorkerAssumption DEF TypeOK, CompletedWithinCap
<1>1. ASSUME NEW k \in Key, NEW j \in JobId, NEW n \in 1..MaxFiles,
             NEW t \in Totals \cup {Unknown}, Start(k, j, n, t)
      PROVE  CompletedWithinCap'
  BY <1>1 DEF Start
<1>2. ASSUME NEW j \in JobId, NEW b \in 0..MaxLoaded, Progress(j, b)
      PROVE  CompletedWithinCap'
  <2>1. state[j] = "RUNNING" /\ state' = state
    BY <1>2 DEF Progress, MapInv, Executing
  <2> QED
    BY <1>2, <2>1 DEF Progress
<1>3. ASSUME NEW j \in JobId, FileUploaded(j)
      PROVE  CompletedWithinCap'
  <2>1. j \in Executing /\ state[j] = "RUNNING"
    BY <1>3 DEF FileUploaded, MapInv, Executing
  <2>2. MaxBytes > 0 => BytesWithFile(j) <= MaxBytes
    BY <1>3, <2>1 DEF FileUploaded, BytesInv, BytesWithFile, WithinCap
  <2>3. \A i \in JobId \ {j} : /\ state'[i] = state[i] /\ total'[i] = total[i]
                               /\ transferred'[i] = transferred[i]
                               /\ filesDone'[i] = filesDone[i]
                               /\ fileCount'[i] = fileCount[i]
    BY <1>3 DEF FileUploaded, Settle
  <2>4. state'[j] = "COMPLETED" =>
          /\ transferred'[j] = BytesWithFile(j) /\ filesDone'[j] = fileCount'[j]
          /\ total'[j] = IF total[j] = Unknown \/ total[j] < BytesWithFile(j)
                         THEN BytesWithFile(j) ELSE total[j]
    BY <1>3, <2>1 DEF FileUploaded, Settle, LastFile
  <2>5. BytesWithFile(j) \in Nat
    BY DEF BytesWithFile
  <2> QED
    BY <2>2, <2>3, <2>4, <2>5
<1>4. ASSUME NEW j \in JobId, Rejected(j) \/ FileOverCap(j)
      PROVE  CompletedWithinCap'
  BY <1>4 DEF Rejected, FileOverCap, Settle, Outcome
<1>5. ASSUME NEW j \in JobId, Opened(j) \/ CleanUp(j)
      PROVE  CompletedWithinCap'
  BY <1>5 DEF Opened, CleanUp, snapVars
<1>6. ASSUME NEW k \in Key, Cancel(k)
      PROVE  CompletedWithinCap'
  BY <1>6 DEF Cancel, snapVars
<1>7. ASSUME UNCHANGED vars
      PROVE  CompletedWithinCap'
  BY <1>7 DEF vars, snapVars
<1> QED
  BY <1>1, <1>2, <1>3, <1>4, <1>5, <1>6, <1>7 DEF Next, JobStep

(* The accounting holds in every reachable state.                          *)
THEOREM BytesAccounted == Spec => [](BytesInv /\ CompletedWithinCap)
<1>1. IInv /\ (BytesInv /\ CompletedWithinCap) /\ [Next]_vars
        => (BytesInv /\ CompletedWithinCap)'
  BY BytesStep, CompletedStep
<1> QED
  BY InitBytes, <1>1, Invariance, PTL DEF Spec

(* A completed job is within the cap and fully counted, whatever the       *)
(* source declared and yielded.                                            *)
THEOREM CompletedCounted == Spec => []CompletedWithinCap
BY BytesAccounted, PTL

(* The bytes shown of a run in progress never go back.                     *)
THEOREM ProgressNeverBack == Spec => ProgressMonotone
<1> DEFINE Forward == \A j \in JobId :
             pc[j] \in {"open", "upload"} => transferred'[j] >= transferred[j]
<1>1. IInv /\ BytesInv /\ [Next]_vars => [Forward]_vars
  <2> SUFFICES ASSUME IInv, BytesInv, Next PROVE Forward
    OBVIOUS
  <2>0. TypeOK
    BY DEF IInv
  <2>1. ASSUME NEW k \in Key, NEW j \in JobId, NEW n \in 1..MaxFiles,
               NEW t \in Totals \cup {Unknown}, Start(k, j, n, t)
        PROVE  Forward
    BY <2>0, <2>1 DEF TypeOK, Start, Unreferenced, Executing
  <2>2. ASSUME NEW j \in JobId, NEW b \in 0..MaxLoaded, Progress(j, b)
        PROVE  Forward
    BY <2>0, <2>2 DEF TypeOK, Progress, BytesInv, Executing
  <2>3. ASSUME NEW j \in JobId, FileUploaded(j)
        PROVE  Forward
    BY <2>0, <2>3 DEF TypeOK, FileUploaded, BytesInv, Executing, BytesWithFile
  <2>4. ASSUME NEW j \in JobId, Rejected(j) \/ FileOverCap(j) \/ Opened(j) \/ CleanUp(j)
        PROVE  Forward
    BY <2>0, <2>4 DEF TypeOK, Rejected, FileOverCap, Opened, CleanUp, snapVars
  <2>5. ASSUME NEW k \in Key, Cancel(k)
        PROVE  Forward
    BY <2>0, <2>5 DEF TypeOK, Cancel, snapVars
  <2> HIDE DEF Forward
  <2> QED
    BY <2>1, <2>2, <2>3, <2>4, <2>5 DEF Next, JobStep
<1>2. IInv /\ (BytesInv /\ CompletedWithinCap) /\ [Next]_vars => [Forward]_vars
  BY <1>1
<1> QED
  BY <1>2, Invariance, BytesAccounted, PTL DEF Spec, ProgressMonotone

----------------------------------------------------------------------------
(***************************************************************************)
(* The refinement. A start is Begin, a file that is uploaded is FileDone,  *)
(* an end without it is Stop, and the timer is Forget when it removes an   *)
(* entry; every other step leaves phase and left as they are.              *)
(***************************************************************************)

(* The cardinality the abstract module speaks of is the usual one.         *)
LEMMA SameCardinality == \A S : Lifecycle!Cardinality(S) = Cardinality(S)
BY DEF Lifecycle!Cardinality, Cardinality

(* The abstract running transfers are the active keys.                     *)
LEMMA RunningIsActive ==
  ASSUME TypeOK, MapInv
  PROVE  Lifecycle!Running = ActiveKeys
BY WorkerAssumption
   DEF Lifecycle!Running, ActiveKeys, Busy, LifePhase, TypeOK, MapInv,
       Executing, Terminal

(* Initial states map to the initial state.                                *)
LEMMA InitRefines == Init => Lifecycle!Init
BY DEF Init, Lifecycle!Init, LifePhase, LifeLeft

(* A step that changes neither the map nor what the mapping reads of the   *)
(* jobs it holds is a stutter.                                             *)
LEMMA Stutter ==
  ASSUME TypeOK, UNCHANGED <<jobs, state, fileCount, filesDone>>
  PROVE  UNCHANGED Lifecycle!lifecycleVars
BY DEF Lifecycle!lifecycleVars, LifePhase, LifeLeft

(* The view of the transfers other than that of job j does not change when *)
(* only j and the entry of its key do.                                     *)
LEMMA OthersKept ==
  ASSUME TypeOK, MapInv, NEW j \in JobId, NEW k \in Key,
         \A q \in Key \ {k} : jobs'[q] = jobs[q] /\ jobs[q] # j,
         \A i \in JobId \ {j} : /\ state'[i] = state[i]
                                /\ fileCount'[i] = fileCount[i]
                                /\ filesDone'[i] = filesDone[i]
  PROVE  /\ LifePhase' = [LifePhase EXCEPT ![k] = LifePhase'[k]]
         /\ LifeLeft' = [LifeLeft EXCEPT ![k] = LifeLeft'[k]]
<1>1. \A q \in Key \ {k} : jobs[q] = NoJob \/ jobs[q] \in JobId \ {j}
  BY DEF TypeOK
<1>2. \A q \in Key \ {k} : LifePhase'[q] = LifePhase[q] /\ LifeLeft'[q] = LifeLeft[q]
  BY <1>1 DEF LifePhase, LifeLeft
<1>3. /\ LifePhase = [q \in Key |-> LifePhase[q]] /\ LifePhase' = [q \in Key |-> LifePhase'[q]]
      /\ LifeLeft = [q \in Key |-> LifeLeft[q]] /\ LifeLeft' = [q \in Key |-> LifeLeft'[q]]
  BY DEF LifePhase, LifeLeft
<1> QED
  BY <1>2, <1>3

(* Every step of the worker is an abstract step or a stutter.              *)
LEMMA StepRefines ==
  ASSUME IInv, [Next]_vars
  PROVE  [Lifecycle!Next]_(Lifecycle!lifecycleVars)
<1> DEFINE Abstract == [Lifecycle!Next]_(Lifecycle!lifecycleVars)
<1>0. TypeOK /\ MapInv /\ FilesInv
  BY DEF IInv
<1>1. ASSUME NEW k \in Key, NEW j \in JobId, NEW n \in 1..MaxFiles,
             NEW t \in Totals \cup {Unknown}, Start(k, j, n, t)
      PROVE  Abstract
  <2>1. LifePhase' = [LifePhase EXCEPT ![k] = LifePhase'[k]]
        /\ LifeLeft' = [LifeLeft EXCEPT ![k] = LifeLeft'[k]]
    BY <1>0, <1>1, OthersKept DEF Start, Unreferenced, TypeOK
  <2>2. LifePhase'[k] = "RUNNING" /\ LifeLeft'[k] = n
    BY <1>0, <1>1, WorkerAssumption DEF Start, TypeOK, LifePhase, LifeLeft
  <2>3. k \notin Lifecycle!Running /\ Cardinality(Lifecycle!Running) < MaxActiveJobs
    BY <1>0, <1>1, RunningIsActive DEF Start, MayStart, ActiveKeys
  <2>4. Lifecycle!Begin(k)
    BY <2>1, <2>2, <2>3, SameCardinality DEF Lifecycle!Begin
  <2> QED
    BY <2>4 DEF Lifecycle!Next
<1>2. ASSUME NEW k \in Key, Cancel(k)
      PROVE  Abstract
  BY <1>0, <1>2, Stutter DEF Cancel, snapVars
<1>3. ASSUME NEW j \in JobId, Opened(j) \/ \E b \in 0..MaxLoaded : Progress(j, b)
      PROVE  Abstract
  BY <1>0, <1>3, Stutter DEF Opened, Progress, snapVars
<1>4. ASSUME NEW j \in JobId, Rejected(j) \/ FileOverCap(j)
      PROVE  Abstract
  <2> DEFINE k == key[j]
  <2>1. k \in Key /\ jobs[k] = j /\ state[j] = "RUNNING" /\ jobs' = jobs
    BY <1>0, <1>4
       DEF TypeOK, MapInv, Executing, Rejected, FileOverCap
  <2>2. \A q \in Key \ {k} : jobs[q] # j
    BY <1>0, WorkerAssumption DEF MapInv, TypeOK
  <2>3. state'[j] \in {"FAILED", "CANCELED"} /\ fileCount' = fileCount /\ filesDone' = filesDone
        /\ \A i \in JobId \ {j} : state'[i] = state[i]
    BY <1>0, <1>4 DEF TypeOK, Rejected, FileOverCap, Settle, Outcome
  <2>4. LifePhase' = [LifePhase EXCEPT ![k] = LifePhase'[k]]
    BY <1>0, <2>1, <2>2, <2>3, OthersKept
  <2>5. LifePhase[k] = "RUNNING" /\ LifePhase'[k] \in {"FAILED", "CANCELED"}
    BY <2>1, <2>3, WorkerAssumption DEF LifePhase
  <2>6. LifeLeft' = LifeLeft
    BY <2>1, <2>3 DEF LifeLeft
  <2>7. Lifecycle!Stop(k)
    BY <2>1, <2>4, <2>5, <2>6 DEF Lifecycle!Stop, Lifecycle!Running
  <2> QED
    BY <2>1, <2>7 DEF Lifecycle!Next
<1>5. ASSUME NEW j \in JobId, FileUploaded(j)
      PROVE  Abstract
  <2> DEFINE k == key[j]
  <2>1. k \in Key /\ jobs[k] = j /\ state[j] = "RUNNING" /\ jobs' = jobs
        /\ filesDone[j] < fileCount[j]
    BY <1>0, <1>5 DEF TypeOK, MapInv, FilesInv, Executing, FileUploaded
  <2>2. \A q \in Key \ {k} : jobs[q] # j
    BY <1>0, WorkerAssumption DEF MapInv, TypeOK
  <2>3. /\ fileCount' = fileCount /\ filesDone'[j] = filesDone[j] + 1
        /\ \A i \in JobId \ {j} : state'[i] = state[i] /\ filesDone'[i] = filesDone[i]
    BY <1>0, <1>5 DEF TypeOK, FileUploaded, Settle
  <2>4. LifePhase' = [LifePhase EXCEPT ![k] = LifePhase'[k]]
        /\ LifeLeft' = [LifeLeft EXCEPT ![k] = LifeLeft'[k]]
    BY <1>0, <2>1, <2>2, <2>3, OthersKept
  <2>5. LifeLeft[k] = fileCount[j] - filesDone[j] /\ LifeLeft'[k] = LifeLeft[k] - 1
        /\ LifeLeft[k] > 0 /\ LifePhase[k] = "RUNNING" /\ LifePhase'[k] = state'[j]
    BY <1>0, <2>1, <2>3, WorkerAssumption DEF TypeOK, LifeLeft, LifePhase
  <2>6. \/ LifeLeft[k] = 1 /\ state'[j] = "COMPLETED"
        \/ LifeLeft[k] > 1 /\ state'[j] = "CANCELED"
        \/ LifeLeft[k] > 1 /\ state'[j] = "RUNNING"
    BY <1>0, <1>5, <2>1, <2>5 DEF TypeOK, FileUploaded, Settle, LastFile
  <2>7. LifePhase = [q \in Key |-> LifePhase[q]]
    BY DEF LifePhase
  <2>8. Lifecycle!FileDone(k)
    BY <2>1, <2>4, <2>5, <2>6, <2>7 DEF Lifecycle!FileDone, Lifecycle!Running
  <2> QED
    BY <2>1, <2>8 DEF Lifecycle!Next
<1>6. ASSUME NEW j \in JobId, CleanUp(j)
      PROVE  Abstract
  <2> DEFINE k == key[j]
  <2>0. k \in Key
    BY <1>0 DEF TypeOK
  <2>1. CASE Forgettable(k)
    <3>1. LifePhase[k] \in Terminal /\ LifePhase'[k] = "NONE" /\ LifeLeft'[k] = 0
      BY <1>0, <1>6, <2>0, <2>1
         DEF TypeOK, TransferState, Forgettable, CleanUp, snapVars, LifePhase, LifeLeft
    <3>2. LifePhase' = [LifePhase EXCEPT ![k] = "NONE"]
          /\ LifeLeft' = [LifeLeft EXCEPT ![k] = 0]
      BY <1>0, <1>6, <2>0, <2>1
         DEF TypeOK, CleanUp, snapVars, LifePhase, LifeLeft
    <3>3. Lifecycle!Forget(k)
      BY <3>1, <3>2 DEF Lifecycle!Forget, Lifecycle!Terminal, Terminal
    <3> QED
      BY <2>0, <3>3 DEF Lifecycle!Next
  <2>2. CASE ~Forgettable(k)
    BY <1>0, <1>6, <2>2, Stutter DEF CleanUp, snapVars
  <2> QED
    BY <2>1, <2>2
<1>7. ASSUME UNCHANGED vars
      PROVE  Abstract
  BY <1>0, <1>7, Stutter DEF vars, snapVars
<1>8. Abstract
  <2> HIDE DEF Abstract
  <2> QED
    BY <1>1, <1>2, <1>3, <1>4, <1>5, <1>6, <1>7 DEF Next, JobStep
<1> QED
  BY <1>8

(* The worker implements the abstract life cycle, for any number of        *)
(* transfers, slots and files (ImplementsLifecycle).                       *)
THEOREM WorkerRefinesLifecycle == Spec => ImplementsLifecycle
<1>1. Spec => Lifecycle!Init /\ [][Lifecycle!Next]_(Lifecycle!lifecycleVars)
  BY InitRefines, StepRefines, Invariance, PTL DEF Spec
<1> QED
  BY <1>1, PTL DEF ImplementsLifecycle, Lifecycle!Spec

=============================================================================
