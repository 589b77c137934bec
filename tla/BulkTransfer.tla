--------------------------- MODULE BulkTransfer ---------------------------
(***************************************************************************)
(* Bulk transfers over several server processes that share one database    *)
(* (server/lib/bulkTransferService.ts with transferProgressStore.ts): the  *)
(* row of table transfer_job with its lease, the row of transfer_progress  *)
(* the other replicas read, the start of a transfer by a request, and the  *)
(* takeover of interrupted transfers by a process that boots.              *)
(*                                                                         *)
(* A process that crashes does not come back: a restart is another process *)
(* (INSTANCE_ID is drawn at boot). A job is seen here only as running or   *)
(* ended on its process; TransferWorker is the detail of it.               *)
(*                                                                         *)
(* Database writes the code does not await ("void persistSnapshot(s)", the *)
(* renewal, markJobDone, completeEdcTransfer) are issued to a connection   *)
(* pool: they wait in "pending" and take effect later, in any order.       *)
(* Awaited writes are steps of the call that awaits them.                  *)
(***************************************************************************)
EXTENDS Integers, FiniteSets

CONSTANTS
  Proc,         \* server processes, each booting once
  Key,          \* transfers
  NoProc,       \* lease_owner IS NULL
  MaxActive,    \* MAX_ACTIVE_JOBS of one process
  Ttl,          \* LEASE_TTL_SEC, in units of time
  RenewEvery,   \* LEASE_RENEW_MS, in the same units
  MaxDelay,     \* a lease write takes effect within so many units
  MaxLost,      \* bound: database writes that fail
  MaxCalls,     \* bound: start requests
  MaxTime       \* bound on the clock

ASSUME BulkAssumption ==
  /\ NoProc \notin Proc
  /\ MaxActive \in Nat \ {0}
  /\ Ttl \in Nat \ {0} /\ RenewEvery \in Nat \ {0}
  /\ MaxDelay \in Nat /\ MaxLost \in Nat /\ MaxCalls \in Nat /\ MaxTime \in Nat

VARIABLES
  now,       \* the clock of the database, and of the processes
  up,        \* up[p]: "new", "claiming", "up" or "dead"
  run,       \* run[p][k]: state of k's job in p's map, or "NONE"
  renewed,   \* renewed[p][k]: lastRenewAt, or Never
  todo,      \* todo[p]: claimed transfers the resume loop has not reached
  calls,     \* startBulkFromPlan calls in progress
  row,       \* row[k]: the row of transfer_job
  shown,     \* shown[k]: the state in transfer_progress, or "NONE"
  edr,       \* edr[k]: the EDC still serves an EDR for the transfer
  pending,   \* database writes issued and not applied
  lost,      \* number of writes that failed
  made       \* number of start requests made

procVars == <<up, run, renewed, todo, calls>>
dbVars == <<row, shown, edr>>
vars == <<now, procVars, dbVars, pending, lost, made>>

Terminal == {"COMPLETED", "FAILED", "CANCELED"}
Outcome == Terminal \cup {"NONE", "RUNNING"}
Never == -1
Time == 0..MaxTime

(* A call of startBulkFromPlan, made by the route or by the resume loop.   *)
(*   prepare: connector, EDR and sources are being looked up               *)
(*   save:    saveJobPlan is awaited                                       *)
(*   begin:   the continuation that starts the worker                      *)
(*   report, retire: resume only, the writes after a refusal               *)
Call == [p : Proc, k : Key, by : {"route", "resume"},
         at : {"prepare", "save", "begin", "report", "retire"}]

(* Writes not awaited. "since" is the time of issue of a lease write.      *)
Write == [p : Proc, k : Key, op : {"renew", "done"}, since : Time]
           \cup [p : Proc, k : Key, op : {"persist"}, state : Outcome]
           \cup [p : Proc, k : Key, op : {"complete"}]

TypeOK ==
  /\ now \in Time
  /\ up \in [Proc -> {"new", "claiming", "up", "dead"}]
  /\ run \in [Proc -> [Key -> Outcome]]
  /\ renewed \in [Proc -> [Key -> Time \cup {Never}]]
  /\ todo \in [Proc -> SUBSET Key]
  /\ calls \subseteq Call
  /\ row \in [Key -> [status : {"NONE", "RUNNING", "DONE"},
                      owner : Proc \cup {NoProc}, until : 0..(MaxTime + Ttl)]]
  /\ shown \in [Key -> Outcome]
  /\ edr \in [Key -> BOOLEAN]
  /\ pending \subseteq Write
  /\ lost \in 0..MaxLost
  /\ made \in 0..MaxCalls

Init ==
  /\ now = 0
  /\ up = [p \in Proc |-> "new"]
  /\ run = [p \in Proc |-> [k \in Key |-> "NONE"]]
  /\ renewed = [p \in Proc |-> [k \in Key |-> Never]]
  /\ todo = [p \in Proc |-> {}]
  /\ calls = {}
  /\ row = [k \in Key |-> [status |-> "NONE", owner |-> NoProc, until |-> 0]]
  /\ shown = [k \in Key |-> "NONE"]
  /\ edr = [k \in Key |-> TRUE]
  /\ pending = {}
  /\ lost = 0
  /\ made = 0

----------------------------------------------------------------------------
(***************************************************************************)
(* The database                                                            *)
(***************************************************************************)

Alive(p) == up[p] \in {"claiming", "up"}

(* saveJobPlan: an upsert, whoever holds the row.                          *)
Saved(p) == [status |-> "RUNNING", owner |-> p, until |-> now + Ttl]

(* Seeded fault: the lease goes but the row stays RUNNING.       *)
DoneButRunning(r) == [r EXCEPT !.owner = NoProc, !.until = 0]

(* markJobDone: by key, whoever holds the row. No row, nothing to update.  *)
Done(r) == IF r.status = "NONE" THEN r
           ELSE [status |-> "DONE", owner |-> NoProc, until |-> 0]

(* renewLease: only the owner's update matches the row.                    *)
Renewed(r, p) == IF r.owner = p THEN [r EXCEPT !.until = now + Ttl] ELSE r

(* The WHERE clause of claimPendingJobPlans.                               *)
Claimable(k) ==
  /\ row[k].status = "RUNNING"
  /\ row[k].owner = NoProc \/ row[k].until < now

(* A pending write takes effect.                                           *)
Apply(w) ==
  /\ w \in pending
  /\ pending' = pending \ {w}
  /\ \/ /\ w.op = "persist"
        /\ shown' = [shown EXCEPT ![w.k] = w.state]
        /\ UNCHANGED <<row, edr>>
     \/ /\ w.op = "renew"
        /\ row' = [row EXCEPT ![w.k] = Renewed(row[w.k], w.p)]
        /\ UNCHANGED <<shown, edr>>
     \/ /\ w.op = "done"
        /\ row' = [row EXCEPT ![w.k] = Done(row[w.k])]
        /\ UNCHANGED <<shown, edr>>
     \/ /\ w.op = "complete"   \* terminate and evict; no EDR afterwards
        /\ edr' = [edr EXCEPT ![w.k] = FALSE]
        /\ UNCHANGED <<row, shown>>
  /\ UNCHANGED <<now, procVars, lost, made>>

(* A pending write fails; the code logs it, or not even that. The writes   *)
(* of a dead process may be gone with its connection.                      *)
Lose(w) ==
  /\ w \in pending
  /\ pending' = pending \ {w}
  /\ IF Alive(w.p) THEN lost < MaxLost /\ lost' = lost + 1 ELSE UNCHANGED lost
  /\ UNCHANGED <<now, procVars, dbVars, made>>

----------------------------------------------------------------------------
(***************************************************************************)
(* A running job: its snapshots go to onProgress                           *)
(***************************************************************************)

RunningOn(p) == {k \in Key : run[p][k] = "RUNNING"}

Persist(p, k, s) == [p |-> p, k |-> k, op |-> "persist", state |-> s]

(* Seeded fault: strictly more than the period.            *)
RenewalLate(p, k) ==
  renewed[p][k] = Never \/ now - renewed[p][k] > RenewEvery

RenewalDue(p, k) ==
  renewed[p][k] = Never \/ now - renewed[p][k] >= RenewEvery

Renewal(p, k) == [p |-> p, k |-> k, op |-> "renew", since |-> now]

(* onProgress of a RUNNING snapshot: persist it, and renew the lease if 30 *)
(* seconds have passed since the last attempt, successful or not.          *)
Progress(p, k) ==
  /\ pending' = pending \cup {Persist(p, k, "RUNNING")}
                        \cup IF RenewalDue(p, k) THEN {Renewal(p, k)} ELSE {}
  /\ renewed' = [renewed EXCEPT ![p][k] = IF RenewalDue(p, k) THEN now ELSE @]

(* The one-second tick of a running job.                                   *)
Emit(p, k) ==
  /\ up[p] # "dead"
  /\ k \in RunningOn(p)
  /\ Progress(p, k)
  /\ UNCHANGED <<now, up, run, todo, calls, dbVars, lost, made>>

(* The job ends in state s: the snapshot is persisted, the row released,   *)
(* and a completed transfer is completed at the EDC too.                   *)
Finish(p, k, s) ==
  /\ k \in RunningOn(p)
  /\ run' = [run EXCEPT ![p][k] = s]
  /\ renewed' = [renewed EXCEPT ![p][k] = Never]
  /\ pending' = pending
       \cup {Persist(p, k, s), [p |-> p, k |-> k, op |-> "done", since |-> now]}
       \cup IF s = "COMPLETED" THEN {[p |-> p, k |-> k, op |-> "complete"]} ELSE {}
  /\ UNCHANGED <<now, up, todo, calls, dbVars, lost, made>>

----------------------------------------------------------------------------
(***************************************************************************)
(* startBulkFromPlan                                                       *)
(***************************************************************************)

Move(c, at) == calls' = (calls \ {c}) \cup {[c EXCEPT !.at = at]}

End(c) == calls' = calls \ {c}

(* Seeded fault: the resume loop only logs a refusal.          *)
RefuseSilently(c) == End(c)

(* What a refusal does: the route answers with an error; the resume loop   *)
(* goes on to record the failure.                                          *)
Refuse(c) ==
  \/ c.by = "route" /\ End(c)
  \/ c.by = "resume" /\ Move(c, "report")

(* POST .../bulk-transfer reaches process p.                               *)
Request(p, k) ==
  /\ Alive(p)
  /\ made < MaxCalls
  /\ made' = made + 1
  /\ calls' = calls \cup {[p |-> p, k |-> k, by |-> "route", at |-> "prepare"]}
  /\ UNCHANGED <<now, up, run, renewed, todo, dbVars, pending, lost>>

(* Connector, EDR and sources are there.                                   *)
Prepared(c) ==
  /\ c.at = "prepare"
  /\ edr[c.k]
  /\ Move(c, "save")
  /\ UNCHANGED <<now, up, run, renewed, todo, dbVars, pending, lost, made>>

(* The connector is gone, the EDR is not served, a source is rejected or   *)
(* too large.                                                              *)
NotPrepared(c) ==
  /\ c.at = "prepare"
  /\ Refuse(c)
  /\ UNCHANGED <<now, up, run, renewed, todo, dbVars, pending, lost, made>>

(* The awaited upsert takes effect.                                        *)
Save(c) ==
  /\ c.at = "save"
  /\ row' = [row EXCEPT ![c.k] = Saved(c.p)]
  /\ Move(c, "begin")
  /\ UNCHANGED <<now, up, run, renewed, todo, shown, edr, pending, lost, made>>

(* An awaited query before the start throws: the route answers 500, the    *)
(* resume loop only logs it.                                               *)
Throw(c) ==
  /\ c.at \in {"prepare", "save"}
  /\ lost < MaxLost
  /\ lost' = lost + 1
  /\ End(c)
  /\ UNCHANGED <<now, up, run, renewed, todo, dbVars, pending, made>>

SlotFree(p) == Cardinality(RunningOn(p)) < MaxActive

(* startBulkTransfer: the job already runs here (its snapshot is returned) *)
(* or it starts and emits its first snapshot.                              *)
Begin(c) ==
  /\ c.at = "begin"
  /\ \/ /\ c.k \in RunningOn(c.p)
        /\ UNCHANGED <<run, renewed, pending>>
     \/ /\ c.k \notin RunningOn(c.p)
        /\ SlotFree(c.p)
        /\ run' = [run EXCEPT ![c.p][c.k] = "RUNNING"]
        /\ Progress(c.p, c.k)
  /\ End(c)
  /\ UNCHANGED <<now, up, todo, dbVars, lost, made>>

(* startBulkTransfer throws "too many active transfers": 429. The row is   *)
(* already RUNNING and leased.                                             *)
TooMany(c) ==
  /\ c.at = "begin"
  /\ c.k \notin RunningOn(c.p)
  /\ ~SlotFree(c.p)
  /\ Refuse(c)
  /\ UNCHANGED <<now, up, run, renewed, todo, dbVars, pending, lost, made>>

(* The resume loop records a refused transfer as FAILED, discards its      *)
(* multipart state, and releases the row. Each write may fail.             *)
Report(c) ==
  /\ c.at = "report"
  /\ Move(c, "retire")
  /\ \/ shown' = [shown EXCEPT ![c.k] = "FAILED"] /\ UNCHANGED lost
     \/ lost < MaxLost /\ lost' = lost + 1 /\ UNCHANGED shown
  /\ UNCHANGED <<now, up, run, renewed, todo, row, edr, pending, made>>

Retire(c) ==
  /\ c.at = "retire"
  /\ End(c)
  /\ renewed' = [renewed EXCEPT ![c.p][c.k] = Never]
  /\ \/ row' = [row EXCEPT ![c.k] = Done(row[c.k])] /\ UNCHANGED lost
     \/ lost < MaxLost /\ lost' = lost + 1 /\ UNCHANGED row
  /\ UNCHANGED <<now, up, run, todo, shown, edr, pending, made>>

CallStep(c) ==
  \/ Prepared(c) \/ NotPrepared(c) \/ Save(c) \/ Throw(c)
  \/ Begin(c) \/ TooMany(c) \/ Report(c) \/ Retire(c)

----------------------------------------------------------------------------
(***************************************************************************)
(* Boot, resume, crash, time                                               *)
(***************************************************************************)

(* The process listens, and issues the claim.                              *)
Boot(p) ==
  /\ up[p] = "new"
  /\ up' = [up EXCEPT ![p] = "claiming"]
  /\ UNCHANGED <<now, run, renewed, todo, calls, dbVars, pending, lost, made>>

(* claimPendingJobPlans: one UPDATE ... RETURNING takes every row that is  *)
(* claimable when it runs. It is the only claim of the process's life.     *)
Claim(p) ==
  /\ up[p] = "claiming"
  /\ up' = [up EXCEPT ![p] = "up"]
  /\ todo' = [todo EXCEPT ![p] = {k \in Key : Claimable(k)}]
  /\ row' = [k \in Key |-> IF Claimable(k)
                           THEN [row[k] EXCEPT !.owner = p, !.until = now + Ttl]
                           ELSE row[k]]
  /\ UNCHANGED <<now, run, renewed, calls, shown, edr, pending, lost, made>>

(* The claim fails: logged, and nothing is resumed.                        *)
ClaimFails(p) ==
  /\ up[p] = "claiming"
  /\ lost < MaxLost
  /\ lost' = lost + 1
  /\ up' = [up EXCEPT ![p] = "up"]
  /\ UNCHANGED <<now, run, renewed, todo, calls, dbVars, pending, made>>

(* The resume loop takes its next plan: one at a time. Without S3          *)
(* credentials in the environment it goes straight to recording a failure. *)
ResumeNext(p, k) ==
  /\ k \in todo[p]
  /\ \A c \in calls : c.p = p => c.by # "resume"
  /\ todo' = [todo EXCEPT ![p] = @ \ {k}]
  /\ \E at \in {"prepare", "report"} :
       calls' = calls \cup {[p |-> p, k |-> k, by |-> "resume", at |-> at]}
  /\ UNCHANGED <<now, up, run, renewed, dbVars, pending, lost, made>>

(* The process dies with its jobs and calls; what it sent to the database  *)
(* may still take effect.                                                  *)
Crash(p) ==
  /\ Alive(p)
  /\ up' = [up EXCEPT ![p] = "dead"]
  /\ run' = [run EXCEPT ![p] = [k \in Key |-> "NONE"]]
  /\ renewed' = [renewed EXCEPT ![p] = [k \in Key |-> Never]]
  /\ todo' = [todo EXCEPT ![p] = {}]
  /\ calls' = {c \in calls : c.p # p}
  /\ UNCHANGED <<now, dbVars, pending, lost, made>>

(***************************************************************************)
(* Time passes. The timing assumption under which a lease means anything:  *)
(* a lease write takes effect within MaxDelay, a running job whose renewal *)
(* is due emits it (the tick is every second, a unit is 30), and a plan    *)
(* just saved is begun at once.                                            *)
(***************************************************************************)
Tick ==
  /\ now < MaxTime
  /\ \A w \in pending : w.op \in {"renew", "done"} => now - w.since < MaxDelay
  /\ \A p \in Proc, k \in Key : k \in RunningOn(p) => ~RenewalDue(p, k)
  /\ \A c \in calls : c.at # "begin"
  /\ now' = now + 1
  /\ UNCHANGED <<procVars, dbVars, pending, lost, made>>

Next ==
  \/ \E p \in Proc, k \in Key :
       \/ Request(p, k) \/ Emit(p, k) \/ ResumeNext(p, k)
       \/ \E s \in Terminal : Finish(p, k, s)
  \/ \E p \in Proc : Boot(p) \/ Claim(p) \/ ClaimFails(p) \/ Crash(p)
  \/ \E c \in calls : CallStep(c)
  \/ \E w \in pending : Apply(w) \/ Lose(w)
  \/ Tick

Spec == Init /\ [][Next]_vars

(***************************************************************************)
(* Fairness: a live process goes on with its claim, its resume loop and    *)
(* its calls (each waits for a query or for an HTTP request that has a     *)
(* timeout). A job need not end, no process need boot, nobody need send a  *)
(* request, a write not awaited need not arrive, and time need not pass.   *)
(***************************************************************************)
Fairness ==
  \A p \in Proc :
    /\ WF_vars(Claim(p) \/ ClaimFails(p))
    /\ WF_vars(\E k \in Key : ResumeNext(p, k))
    /\ \A k \in Key, by \in {"route", "resume"} :
         WF_vars(\E c \in calls : c.p = p /\ c.k = k /\ c.by = by /\ CallStep(c))

FairSpec == Spec /\ Fairness

----------------------------------------------------------------------------
(***************************************************************************)
(* Properties                                                              *)
(***************************************************************************)

(* A process that boots never takes over a transfer whose lease holder is  *)
(* alive and running it, even if a renewal is lost or late: the reason why *)
(* the lease exists (renewLease, claimPendingJobPlans).                    *)
OwnerNotRobbed ==
  [][\A p, q \in Proc, k \in Key :
       (Claim(p) /\ row[k].owner = q /\ k \in RunningOn(q)) => row'[k] = row[k]]_vars

(* p has the transfer in hand: it runs it, is starting or refusing it, has *)
(* it in its resume queue, or its release is on the way to the database.   *)
InHand(p, k) ==
  \/ k \in RunningOn(p) \/ k \in todo[p]
  \/ \E c \in calls : c.p = p /\ c.k = k
  \/ \E w \in pending : w.k = k /\ w.op = "done"

(* Only the worker that runs a job holds its lease: no live process holds  *)
(* the lease of a transfer it has let go (startBulkFromPlan's refusals,    *)
(* resumePendingTransfers, markJobDone).                                   *)
LeaseHolderRuns ==
  \A k \in Key, p \in Proc :
    (row[k].status = "RUNNING" /\ row[k].owner = p /\ Alive(p)) => InHand(p, k)

(* What the database says of a transfer is true of some process: the types *)
(* of the state, and LeaseHolderRuns (bulkTransferService.ts:388-439).     *)
ResumeInv == TypeOK /\ LeaseHolderRuns

(* Every transfer a live process claims at boot is started by it or        *)
(* released, also when there is no slot for it (resumePendingTransfers).   *)
ClaimedIsHandled ==
  \A p \in Proc, k \in Key :
    (k \in todo[p]) ~> (~Alive(p) \/ run[p][k] # "NONE" \/ row[k].status = "DONE")

(* At most one process runs a transfer at any time.                        *)
OneRunner ==
  \A k \in Key : \A p, q \in Proc :
    (k \in RunningOn(p) /\ k \in RunningOn(q)) => p = q

=============================================================================
