-------------------------- MODULE TransferWorker --------------------------
(***************************************************************************)
(* The in-memory bulk-transfer worker of one server process                *)
(* (server/lib/transferWorker.ts): the map of jobs by transfer, the loop   *)
(* that uploads the files of a job one after the other, cancellation, the  *)
(* byte cap, and the timer that forgets a job a minute after it ended.     *)
(*                                                                         *)
(* The code is single threaded: what runs between two awaits is one        *)
(* action. A job waits in two places: for the source of its current file   *)
(* to open ("open") and for the uploader to return ("upload").             *)
(*                                                                         *)
(* A job is an object of the heap, named by a JobId: the loop that runs it *)
(* and its cleanup timer keep a reference to it even when the map no       *)
(* longer does. An object nobody refers to any more may be reused.         *)
(***************************************************************************)
EXTENDS Integers, FiniteSets

CONSTANTS
  Key,            \* transfers: jobKey(connectorId, transferId)
  JobId,          \* job objects
  NoJob,          \* the key has no entry in the map
  Unknown,        \* a total that is not known (null in the code)
  MaxActiveJobs,  \* MAX_ACTIVE_JOBS
  MaxFiles,       \* files of one job, at most (bulkMaxFiles)
  MaxBytes,       \* bulkMaxBytes(); 0 means no cap
  MaxLoaded,      \* bound: bytes the source of one file can yield
  Totals          \* the totals a plan may declare, right or wrong

ASSUME WorkerAssumption ==
  /\ IsFiniteSet(Key) /\ Key # {}
  /\ NoJob \notin JobId
  /\ MaxActiveJobs \in Nat \ {0}
  /\ MaxFiles \in Nat \ {0}
  /\ MaxBytes \in Nat
  /\ MaxLoaded \in Nat
  /\ Totals \subseteq Nat
  /\ Unknown \notin Nat

VARIABLES
  jobs,        \* jobs[k]: the job the map holds for transfer k
  pc,          \* pc[j]: where runJob(j) waits
  key,         \* key[j]: the transfer of job j
  state,       \* state[j], total[j], ...: the fields of job j's snapshot
  total,
  transferred,
  fileBytes,   \* currentFileBytes
  filesDone,
  fileCount,
  doneBytes,   \* local to runJob: bytes of the files uploaded so far
  canceled,    \* canceled[j]: a cancel request was accepted
  limitError,  \* limitError[j]: the byte cap was exceeded
  timers       \* jobs whose cleanup timer has not fired

snapVars == <<state, total, transferred, fileBytes, filesDone, fileCount>>
vars == <<jobs, pc, key, snapVars, doneBytes, canceled, limitError, timers>>

Terminal == {"COMPLETED", "FAILED", "CANCELED"}

TransferState == {"PENDING", "RUNNING"} \cup Terminal

TypeOK ==
  /\ jobs \in [Key -> JobId \cup {NoJob}]
  /\ pc \in [JobId -> {"free", "open", "upload", "done"}]
  /\ key \in [JobId -> Key]
  /\ state \in [JobId -> TransferState]
  /\ total \in [JobId -> Nat \cup {Unknown}]
  /\ transferred \in [JobId -> Nat]
  /\ fileBytes \in [JobId -> Nat]
  /\ filesDone \in [JobId -> 0..MaxFiles]
  /\ fileCount \in [JobId -> 1..MaxFiles]
  /\ doneBytes \in [JobId -> Nat]
  /\ canceled \in [JobId -> BOOLEAN]
  /\ limitError \in [JobId -> BOOLEAN]
  /\ timers \in SUBSET JobId

----------------------------------------------------------------------------

(* The jobs whose runJob loop has not returned. *)
Executing == {j \in JobId : pc[j] \in {"open", "upload"}}

(* Seeded fault: a RUNNING job does not count as busy. *)
BusyOnlyPending(k) == jobs[k] # NoJob /\ state[jobs[k]] = "PENDING"

(* The map entry of k is a job that has not ended. *)
Busy(k) == jobs[k] # NoJob /\ state[jobs[k]] \in {"RUNNING", "PENDING"}

(* activeJobCount() is the number of these. *)
ActiveKeys == {k \in Key : Busy(k)}

(* Nothing refers to job object j. *)
Unreferenced(j) ==
  /\ j \notin Executing
  /\ j \notin timers
  /\ \A k \in Key : jobs[k] # j

Init ==
  /\ jobs = [k \in Key |-> NoJob]
  /\ pc = [j \in JobId |-> "free"]
  /\ key = [j \in JobId |-> CHOOSE k \in Key : TRUE]
  /\ state = [j \in JobId |-> "PENDING"]
  /\ total = [j \in JobId |-> Unknown]
  /\ transferred = [j \in JobId |-> 0]
  /\ fileBytes = [j \in JobId |-> 0]
  /\ filesDone = [j \in JobId |-> 0]
  /\ fileCount = [j \in JobId |-> 1]
  /\ doneBytes = [j \in JobId |-> 0]
  /\ canceled = [j \in JobId |-> FALSE]
  /\ limitError = [j \in JobId |-> FALSE]
  /\ timers = {}

(* Seeded fault: the cap is compared with > instead of >=. *)
MayStartOneMore(k) == ~Busy(k) /\ Cardinality(ActiveKeys) <= MaxActiveJobs

(* The guard of startBulkTransfer: no run of k in progress, and a free slot. *)
MayStart(k) == ~Busy(k) /\ Cardinality(ActiveKeys) < MaxActiveJobs

(***************************************************************************)
(* startBulkTransfer for transfer k with n files and declared total t,     *)
(* when it neither returns the running job nor throws "too many active     *)
(* transfers". It runs runJob up to its first await: the job is RUNNING    *)
(* and its first file is being opened when the call returns.               *)
(***************************************************************************)
Start(k, j, n, t) ==
  /\ MayStart(k)
  /\ Unreferenced(j)
  /\ jobs' = [jobs EXCEPT ![k] = j]
  /\ pc' = [pc EXCEPT ![j] = "open"]
  /\ key' = [key EXCEPT ![j] = k]
  /\ state' = [state EXCEPT ![j] = "RUNNING"]
  /\ total' = [total EXCEPT ![j] = t]
  /\ transferred' = [transferred EXCEPT ![j] = 0]
  /\ fileBytes' = [fileBytes EXCEPT ![j] = 0]
  /\ filesDone' = [filesDone EXCEPT ![j] = 0]
  /\ fileCount' = [fileCount EXCEPT ![j] = n]
  /\ doneBytes' = [doneBytes EXCEPT ![j] = 0]
  /\ canceled' = [canceled EXCEPT ![j] = FALSE]
  /\ limitError' = [limitError EXCEPT ![j] = FALSE]
  /\ UNCHANGED timers

(***************************************************************************)
(* How runJob ends a job that did not complete (its catch block): the byte *)
(* cap is a failure even if a cancel came too. The finally block emits the *)
(* snapshot and arms the cleanup timer.                                    *)
(***************************************************************************)
Outcome(j) == IF canceled[j] /\ ~limitError[j] THEN "CANCELED" ELSE "FAILED"

(* Seeded fault: the catch block leaves the state as it was. *)
SettleSilently(j, s) ==
  /\ pc' = [pc EXCEPT ![j] = "done"]
  /\ state' = state
  /\ timers' = timers \cup {j}

Settle(j, s) ==
  /\ pc' = [pc EXCEPT ![j] = "done"]
  /\ state' = [state EXCEPT ![j] = s]
  /\ timers' = timers \cup {j}

(* f.open() resolves: the upload of the file begins. *)
Opened(j) ==
  /\ pc[j] = "open"
  /\ pc' = [pc EXCEPT ![j] = "upload"]
  /\ UNCHANGED <<jobs, key, snapVars, doneBytes, canceled, limitError, timers>>

(* f.open() or the upload rejects: the source failed, or the abort signal. *)
Rejected(j) ==
  /\ j \in Executing
  /\ Settle(j, Outcome(j))
  /\ UNCHANGED <<jobs, key, total, transferred, fileBytes, filesDone,
                 fileCount, doneBytes, canceled, limitError>>

(***************************************************************************)
(* The uploader reports that b bytes of the current file are uploaded. The *)
(* callback that first exceeds the cap records it and leaves the total as  *)
(* it was; otherwise a total that proves too small is raised.              *)
(***************************************************************************)
OverCap(j, bytes) == MaxBytes > 0 /\ bytes > MaxBytes /\ ~limitError[j]

Progress(j, b) ==
  LET sent == doneBytes[j] + b IN
  /\ pc[j] = "upload"
  /\ b >= fileBytes[j]
  /\ fileBytes' = [fileBytes EXCEPT ![j] = b]
  /\ transferred' = [transferred EXCEPT ![j] = sent]
  /\ limitError' = [limitError EXCEPT ![j] = limitError[j] \/ OverCap(j, sent)]
  /\ total' = [total EXCEPT ![j] =
                 IF ~OverCap(j, sent) /\ total[j] # Unknown /\ sent > total[j]
                 THEN sent ELSE total[j]]
  /\ UNCHANGED <<jobs, pc, key, state, filesDone, fileCount, doneBytes,
                 canceled, timers>>

LastFile(j) == filesDone[j] + 1 = fileCount[j]

(* Seeded fault: the bytes of the earlier files are dropped. *)
BytesOfFileOnly(j) == fileBytes[j]

(* Bytes of the job once the current file is done: what was uploaded, not   *)
(* what was declared.                                                      *)
BytesWithFile(j) == doneBytes[j] + fileBytes[j]

(* Seeded fault: the cap is not checked again when the upload returns. *)
WithinCapUnchecked(j) == TRUE

(* The upload was not over the cap when it returned. *)
WithinCap(j) == ~limitError[j]

(***************************************************************************)
(* The uploader returns. It may do so after an abort (the last request was *)
(* already on its way), so the cap is checked again. After the last file   *)
(* the job is COMPLETED, cancelled or not; before another file the loop    *)
(* checks for a cancel.                                                    *)
(***************************************************************************)
FileUploaded(j) ==
  /\ pc[j] = "upload"
  /\ WithinCap(j)
  /\ doneBytes' = [doneBytes EXCEPT ![j] = BytesWithFile(j)]
  /\ transferred' = [transferred EXCEPT ![j] = BytesWithFile(j)]
  /\ filesDone' = [filesDone EXCEPT ![j] = filesDone[j] + 1]
  /\ \/ /\ LastFile(j)
        /\ Settle(j, "COMPLETED")
        /\ total' = [total EXCEPT ![j] =
                       IF total[j] = Unknown \/ total[j] < BytesWithFile(j)
                       THEN BytesWithFile(j) ELSE total[j]]
        /\ UNCHANGED fileBytes
     \/ /\ ~LastFile(j) /\ canceled[j]
        /\ Settle(j, "CANCELED")
        /\ UNCHANGED <<total, fileBytes>>
     \/ /\ ~LastFile(j) /\ ~canceled[j]
        /\ pc' = [pc EXCEPT ![j] = "open"]
        /\ fileBytes' = [fileBytes EXCEPT ![j] = 0]
        /\ UNCHANGED <<state, total, timers>>
  /\ UNCHANGED <<jobs, key, fileCount, canceled, limitError>>

(* The uploader returns although the cap was exceeded (a single chunk). *)
FileOverCap(j) ==
  /\ pc[j] = "upload"
  /\ ~WithinCap(j)
  /\ Settle(j, "FAILED")
  /\ UNCHANGED <<jobs, key, total, transferred, fileBytes, filesDone,
                 fileCount, doneBytes, canceled, limitError>>

(* cancelBulkTransfer returns true. *)
Cancel(k) ==
  /\ jobs[k] # NoJob
  /\ state[jobs[k]] = "RUNNING"
  /\ canceled' = [canceled EXCEPT ![jobs[k]] = TRUE]
  /\ UNCHANGED <<jobs, pc, key, snapVars, doneBytes, limitError, timers>>

(* Seeded fault: the timer does not look at the state. *)
ForgettableAnyState(k) == jobs[k] # NoJob

Forgettable(k) == jobs[k] # NoJob /\ state[jobs[k]] \notin {"RUNNING", "PENDING"}

(***************************************************************************)
(* The cleanup timer of job j fires. It looks its key up again and forgets *)
(* whatever job is there, provided that job has ended.                     *)
(***************************************************************************)
CleanUp(j) ==
  /\ j \in timers
  /\ timers' = timers \ {j}
  /\ jobs' = IF Forgettable(key[j]) THEN [jobs EXCEPT ![key[j]] = NoJob] ELSE jobs
  /\ UNCHANGED <<pc, key, snapVars, doneBytes, canceled, limitError>>

JobStep(j) ==
  \/ Opened(j)
  \/ Rejected(j)
  \/ \E b \in 0..MaxLoaded : Progress(j, b)
  \/ FileUploaded(j)
  \/ FileOverCap(j)
  \/ CleanUp(j)

Next ==
  \/ \E k \in Key, j \in JobId, n \in 1..MaxFiles, t \in Totals \cup {Unknown} :
       Start(k, j, n, t)
  \/ \E k \in Key : Cancel(k)
  \/ \E j \in JobId : JobStep(j)

(***************************************************************************)
(* Fairness: an awaited source or upload settles at some time (returns or  *)
(* fails), and a timer fires. Nobody is obliged to start or cancel a job.  *)
(***************************************************************************)
Settles(j) == Opened(j) \/ Rejected(j) \/ FileUploaded(j) \/ FileOverCap(j)

Spec == Init /\ [][Next]_vars

FairSpec == /\ Spec
            /\ \A j \in JobId : WF_vars(Settles(j)) /\ WF_vars(CleanUp(j))

----------------------------------------------------------------------------
(***************************************************************************)
(* Properties                                                              *)
(***************************************************************************)

(* No loop escapes the map: a job whose loop still runs is the entry of its *)
(* key, so a cancel request, the progress routes and the count of active    *)
(* jobs all see it. The map is overwritten by a new start and emptied by    *)
(* timers of older jobs, none of which may touch a running one.             *)
RunnersAreMapped ==
  \A j \in Executing : jobs[key[j]] = j /\ state[j] = "RUNNING"

(* A transfer has one loop at most, and the map leads to it                *)
(* (RunnersAreMapped; transferWorker.ts:236-254, 360-369), in every state  *)
(* of the worker's jobs and timers.                                        *)
WorkerInv == TypeOK /\ RunnersAreMapped

(* The process never uploads more than MaxActiveJobs jobs at once, whatever *)
(* was started, cancelled, restarted or forgotten (MAX_ACTIVE_JOBS).        *)
SlotsBounded == Cardinality(Executing) <= MaxActiveJobs

(* A job reported COMPLETED moved no more than the byte cap, counted every  *)
(* file, and shows a known total that covers what was transferred, even if  *)
(* the declared sizes were wrong or unknown.                                *)
CompletedWithinCap ==
  \A j \in JobId : state[j] = "COMPLETED" =>
    /\ MaxBytes > 0 => transferred[j] <= MaxBytes
    /\ filesDone[j] = fileCount[j]
    /\ total[j] # Unknown /\ transferred[j] <= total[j]

(* While the same run goes on, the bytes shown never go back, across the    *)
(* files of a job too.                                                      *)
ProgressMonotone ==
  [][\A j \in JobId :
       pc[j] \in {"open", "upload"} => transferred'[j] >= transferred[j]]_vars

(* The map refines the abstract life cycle of runs. *)
LifePhase == [k \in Key |-> IF jobs[k] = NoJob THEN "NONE" ELSE state[jobs[k]]]

LifeLeft == [k \in Key |-> IF jobs[k] = NoJob THEN 0
                           ELSE fileCount[jobs[k]] - filesDone[jobs[k]]]

Lifecycle == INSTANCE JobLifecycle WITH phase <- LifePhase, left <- LifeLeft

(* The worker implements JobLifecycle: one run per transfer, bounded slots, *)
(* COMPLETED only after the last file, outcomes that stay.                  *)
ImplementsLifecycle == Lifecycle!Spec

(* Every run gives its slot back: no outcome of source or uploader leaves a *)
(* key in progress for ever.                                                *)
SlotReleased == \A k \in Key : Busy(k) ~> ~Busy(k)

=============================================================================
