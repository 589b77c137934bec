------------------------ MODULE BulkTransferProofs ------------------------
(***************************************************************************)
(* Theorems about BulkTransfer: the types of its state; that a process     *)
(* which boots does not take a transfer from a live process that runs it,  *)
(* as long as the lease outlasts the renewals that may be lost; that only  *)
(* who has a transfer in hand holds its lease, as long as no write fails   *)
(* and no request is turned away for want of a slot; that a process, while *)
(* it lives, runs its transfers as JobLifecycle promises; and that two     *)
(* processes would never run one transfer, which the code does not keep,   *)
(* if its saves and its releases respected the lease.                      *)
(***************************************************************************)
EXTENDS BulkTransfer, FiniteSetTheorems, TLAPS

----------------------------------------------------------------------------
(***************************************************************************)
(* The invariant behind the lease                                          *)
(***************************************************************************)

(* The lease outlasts the renewals that may fail, and the delay of the one *)
(* that then arrives.                                                      *)
LeaseOutlasts == MaxDelay + RenewEvery * (MaxLost + 1) <= Ttl

(* The time in which a running job asks n times for its lease.             *)
Span(n) == RenewEvery * n

(* The renewal of k that p asked for at t.                                 *)
Asked(p, k, t) == [p |-> p, k |-> k, op |-> "renew", since |-> t]

(* When the renewals were asked for that p has on their way for k.         *)
Waiting(p, k) == {t \in Time : Asked(p, k, t) \in pending}

(* The lease of a job was set at b, the last renewal asked for at r, and W *)
(* are those on their way, at time n with l failed writes: between b and   *)
(* any renewal lie no more than the failed ones and those asked for        *)
(* before it.                                                              *)
LeaseKept(W, r, b, n, l) ==
  /\ \A t \in W : t - b <= Span(l + 1 + Cardinality({u \in W : u < t}))
  /\ r # Never => r - b <= Span(l + Cardinality(W))
  /\ n - b <= Span(l + 1 + Cardinality(W))

(* p runs k and holds its lease.                                           *)
Holds(p, k) == k \in RunningOn(p) /\ row[k].owner = p

Leases ==
  \A p \in Proc, k \in Key :
    Holds(p, k) => LeaseKept(Waiting(p, k), renewed[p][k], row[k].until - Ttl, now, lost)

(* Only live processes run jobs and calls; who has transfers to resume has *)
(* made its claim.                                                         *)
LiveOnly ==
  /\ \A p \in Proc, k \in Key : k \in RunningOn(p) => Alive(p)
  /\ \A p \in Proc, k \in Key : k \in todo[p] => up[p] = "up"
  /\ \A c \in calls : Alive(c.p)

(* Renewals are asked for in time, and arrive in time.                     *)
OnTime ==
  /\ \A w \in pending : w.op = "renew" => w.since <= now /\ now - w.since <= MaxDelay
  /\ \A p \in Proc, k \in Key :
       /\ renewed[p][k] <= now
       /\ (k \in RunningOn(p) /\ renewed[p][k] # Never) => now - renewed[p][k] <= RenewEvery

(* A lease is not older than the call that is about to begin under it.     *)
JustSaved ==
  \A c \in calls : (c.at = "begin" /\ row[c.k].owner = c.p) => row[c.k].until = now + Ttl

BulkIInv == TypeOK /\ LiveOnly /\ OnTime /\ JustSaved /\ Leases

----------------------------------------------------------------------------
(***************************************************************************)
(* The invariant behind the release                                        *)
(***************************************************************************)

(* A request that gets to the start finds a slot, or its job.              *)
SlotForRequests ==
  \A c \in calls : (c.at = "begin" /\ c.by = "route") => c.k \in RunningOn(c.p) \/ SlotFree(c.p)

(* What p has in hand it will start or release itself: a call that has not *)
(* saved the plan does not count, nor does the release of another process. *)
InOwnHand(p, k) ==
  \/ k \in RunningOn(p) \/ k \in todo[p]
  \/ \E c \in calls : c.p = p /\ c.k = k /\ (c.by = "resume" \/ c.at = "begin")
  \/ \E w \in pending : w.k = k /\ w.p = p /\ w.op = "done"

OwnersHandle ==
  \A k \in Key, p \in Proc :
    (row[k].status = "RUNNING" /\ row[k].owner = p /\ Alive(p)) => InOwnHand(p, k)

(* A process that has not booted holds nothing.                            *)
OwnersBooted == \A k \in Key, p \in Proc : row[k].owner = p => up[p] # "new"

ReleaseIInv == TypeOK /\ LiveOnly /\ OwnersBooted /\ OwnersHandle

----------------------------------------------------------------------------
(***************************************************************************)
(* Types                                                                   *)
(***************************************************************************)

RowRecord == [status : {"NONE", "RUNNING", "DONE"}, owner : Proc \cup {NoProc}, until : 0..(MaxTime + Ttl)]

(* What the database makes of a row.                                       *)
LEMMA RowsTyped ==
  ASSUME now \in Time, NEW p \in Proc, NEW r \in RowRecord
  PROVE  Saved(p) \in RowRecord /\ Done(r) \in RowRecord /\ Renewed(r, p) \in RowRecord
<1>1. MaxTime \in Nat /\ Ttl \in Nat /\ now + Ttl \in 0..(MaxTime + Ttl) /\ 0 \in 0..(MaxTime + Ttl)
  BY BulkAssumption DEF Time
<1>2. Saved(p) \in RowRecord /\ Done(r) \in RowRecord
  BY <1>1 DEF Saved, Done, RowRecord
<1>3. Renewed(r, p) \in RowRecord
  BY <1>1 DEF Renewed, RowRecord
<1> QED
  BY <1>2, <1>3

(* The writes a process may issue.                                         *)
LEMMA WritesTyped ==
  ASSUME now \in Time, NEW p \in Proc, NEW k \in Key
  PROVE  /\ \A s \in Outcome : Persist(p, k, s) \in Write
         /\ Renewal(p, k) \in Write
         /\ [p |-> p, k |-> k, op |-> "done", since |-> now] \in Write
         /\ [p |-> p, k |-> k, op |-> "complete"] \in Write
BY DEF Persist, Renewal, Write

(* A progress report writes the state, and renews the lease if that is due. *)
LEMMA ProgressTyped ==
  ASSUME TypeOK, NEW p \in Proc, NEW k \in Key, Progress(p, k)
  PROVE  pending' \subseteq Write /\ renewed' \in [Proc -> [Key -> Time \cup {Never}]]
<1>1. Persist(p, k, "RUNNING") \in Write /\ Renewal(p, k) \in Write
  BY WritesTyped DEF TypeOK, Outcome
<1>2. pending' \subseteq Write
  BY <1>1 DEF Progress, TypeOK
<1>3. renewed' \in [Proc -> [Key -> Time \cup {Never}]]
  BY DEF Progress, TypeOK
<1> QED
  BY <1>2, <1>3

(* Every step keeps the types.                                             *)
LEMMA TypesStep ==
  ASSUME TypeOK, [Next]_vars
  PROVE  TypeOK'
<1>0. /\ MaxTime \in Nat /\ Ttl \in Nat /\ MaxLost \in Nat /\ MaxCalls \in Nat /\ NoProc \notin Proc
      /\ now \in Time /\ row \in [Key -> RowRecord]
  BY BulkAssumption DEF TypeOK, RowRecord
<1>1. CASE UNCHANGED vars
  BY <1>1 DEF vars, procVars, dbVars, TypeOK
<1>2. ASSUME NEW p \in Proc, NEW k \in Key, Request(p, k)
      PROVE  TypeOK'
  <2>1. made' \in 0..MaxCalls /\ calls' \subseteq Call
    BY <1>0, <1>2 DEF Request, TypeOK, Call
  <2> QED
    BY <1>2, <2>1 DEF Request, TypeOK, dbVars
<1>3. ASSUME NEW p \in Proc, NEW k \in Key, Emit(p, k)
      PROVE  TypeOK'
  <2>1. pending' \subseteq Write /\ renewed' \in [Proc -> [Key -> Time \cup {Never}]]
    BY <1>3, ProgressTyped DEF Emit
  <2> QED
    BY <1>3, <2>1 DEF Emit, TypeOK, dbVars
<1>4. ASSUME NEW p \in Proc, NEW k \in Key, ResumeNext(p, k)
      PROVE  TypeOK'
  <2>1. todo' \in [Proc -> SUBSET Key]
    BY <1>4 DEF ResumeNext, TypeOK
  <2>2. calls' \subseteq Call
    BY <1>4 DEF ResumeNext, TypeOK, Call
  <2> QED
    BY <1>4, <2>1, <2>2 DEF ResumeNext, TypeOK, dbVars
<1>5. ASSUME NEW p \in Proc, NEW k \in Key, NEW s \in Terminal, Finish(p, k, s)
      PROVE  TypeOK'
  <2>1. s \in Outcome
    BY DEF Outcome
  <2>2. pending' \subseteq Write
    <3>0. /\ Persist(p, k, s) \in Write /\ [p |-> p, k |-> k, op |-> "done", since |-> now] \in Write
          /\ [p |-> p, k |-> k, op |-> "complete"] \in Write
      BY <1>0, <2>1, WritesTyped
    <3>1. PICK a, b, d : /\ a \in Write /\ b \in Write /\ d \in Write
                         /\ a = Persist(p, k, s) /\ b = [p |-> p, k |-> k, op |-> "done", since |-> now]
                         /\ d = [p |-> p, k |-> k, op |-> "complete"]
      BY <3>0, Zenon
    <3>2. pending' = pending \cup {a, b} \cup IF s = "COMPLETED" THEN {d} ELSE {}
      BY <1>5, <3>1 DEF Finish
    <3>3. pending' \subseteq pending \cup {a, b, d}
      BY <3>2
    <3> QED
      BY <3>1, <3>3 DEF TypeOK
  <2>3. run' \in [Proc -> [Key -> Outcome]] /\ renewed' \in [Proc -> [Key -> Time \cup {Never}]]
    BY <1>5, <2>1 DEF Finish, TypeOK
  <2> QED
    BY <1>5, <2>2, <2>3 DEF Finish, TypeOK, dbVars
<1>6. ASSUME NEW p \in Proc, Boot(p) \/ ClaimFails(p)
      PROVE  TypeOK'
  <2>1. up' \in [Proc -> {"new", "claiming", "up", "dead"}]
    BY <1>6 DEF Boot, ClaimFails, TypeOK
  <2>2. lost' \in 0..MaxLost
    BY <1>0, <1>6 DEF Boot, ClaimFails, TypeOK
  <2> QED
    BY <1>6, <2>1, <2>2 DEF Boot, ClaimFails, TypeOK, dbVars
<1>7. ASSUME NEW p \in Proc, Claim(p)
      PROVE  TypeOK'
  <2>1. \A k \in Key : [row[k] EXCEPT !.owner = p, !.until = now + Ttl] \in RowRecord
    <3>1. now + Ttl \in 0..(MaxTime + Ttl)
      BY <1>0 DEF Time
    <3>2. \A k \in Key : row[k] \in RowRecord
      BY <1>0
    <3> QED
      BY <3>1, <3>2 DEF RowRecord
  <2>2. row' \in [Key -> RowRecord]
    BY <1>0, <1>7, <2>1 DEF Claim
  <2>3. todo' \in [Proc -> SUBSET Key] /\ up' \in [Proc -> {"new", "claiming", "up", "dead"}]
    BY <1>7 DEF Claim, TypeOK
  <2> QED
    BY <1>7, <2>2, <2>3 DEF Claim, TypeOK, RowRecord
<1>8. ASSUME NEW p \in Proc, Crash(p)
      PROVE  TypeOK'
  <2>1. /\ run' \in [Proc -> [Key -> Outcome]] /\ renewed' \in [Proc -> [Key -> Time \cup {Never}]]
        /\ todo' \in [Proc -> SUBSET Key] /\ up' \in [Proc -> {"new", "claiming", "up", "dead"}]
    BY <1>8 DEF Crash, TypeOK, Outcome
  <2> QED
    BY <1>8, <2>1 DEF Crash, TypeOK, dbVars
<1>9. ASSUME NEW c \in calls, CallStep(c)
      PROVE  TypeOK'
  <2>0. c \in Call /\ c.p \in Proc /\ c.k \in Key
    BY DEF TypeOK, Call
  <2>1. \A at \in {"prepare", "save", "begin", "report", "retire"} : [c EXCEPT !.at = at] \in Call
    BY <2>0 DEF Call
  <2>2. calls' \subseteq Call
    BY <1>9, <2>1 DEF CallStep, Prepared, NotPrepared, Save, Throw, Begin, TooMany, Report, Retire, Refuse, Move, End,
       TypeOK
  <2>3. lost' \in 0..MaxLost
    BY <1>0, <1>9 DEF CallStep, Prepared, NotPrepared, Save, Throw, Begin, TooMany, Report, Retire, TypeOK
  <2>4. row' \in [Key -> RowRecord]
    <3>1. row' = row \/ row' = [row EXCEPT ![c.k] = Saved(c.p)] \/ row' = [row EXCEPT ![c.k] = Done(row[c.k])]
      BY <1>9 DEF CallStep, Prepared, NotPrepared, Save, Throw, Begin, TooMany, Report, Retire, dbVars
    <3>2. Saved(c.p) \in RowRecord /\ Done(row[c.k]) \in RowRecord
      BY <1>0, <2>0, RowsTyped
    <3> QED
      BY <1>0, <3>1, <3>2
  <2>5. shown' \in [Key -> Outcome]
    BY <1>9 DEF CallStep, Prepared, NotPrepared, Save, Throw, Begin, TooMany, Report, Retire, dbVars, TypeOK,
       Outcome, Terminal
  <2>6. /\ pending' \subseteq Write /\ renewed' \in [Proc -> [Key -> Time \cup {Never}]]
        /\ run' \in [Proc -> [Key -> Outcome]]
    <3>1. CASE Begin(c)
      <4>1. pending' \subseteq Write /\ renewed' \in [Proc -> [Key -> Time \cup {Never}]]
        BY <2>0, <3>1, ProgressTyped DEF Begin, TypeOK
      <4>2. run' \in [Proc -> [Key -> Outcome]]
        <5>1. run' = run \/ run' = [run EXCEPT ![c.p] = [run[c.p] EXCEPT ![c.k] = "RUNNING"]]
          BY <3>1 DEF Begin
        <5>2. run[c.p] \in [Key -> Outcome]
          BY <2>0 DEF TypeOK
        <5>3. [run[c.p] EXCEPT ![c.k] = "RUNNING"] \in [Key -> Outcome]
          BY <2>0, <5>2 DEF Outcome
        <5> QED
          BY <5>1, <5>3 DEF TypeOK
      <4> QED
        BY <4>1, <4>2
    <3>2. CASE Retire(c)
      BY <3>2 DEF Retire, TypeOK
    <3>3. CASE Prepared(c) \/ NotPrepared(c) \/ Save(c) \/ Throw(c) \/ TooMany(c) \/ Report(c)
      BY <3>3 DEF Prepared, NotPrepared, Save, Throw, TooMany, Report, TypeOK
    <3> QED
      BY <1>9, <3>1, <3>2, <3>3 DEF CallStep
  <2>7. UNCHANGED <<now, up, todo, edr, made>>
    BY <1>9 DEF CallStep, Prepared, NotPrepared, Save, Throw, Begin, TooMany, Report, Retire, dbVars
  <2> QED
    BY <2>2, <2>3, <2>4, <2>5, <2>6, <2>7 DEF TypeOK, RowRecord
<1>10. ASSUME NEW w \in pending, Apply(w)
       PROVE  TypeOK'
  <2>0. w.p \in Proc /\ w.k \in Key /\ (w.op = "persist" => w.state \in Outcome)
    BY DEF TypeOK, Write
  <2>1. row' \in [Key -> RowRecord]
    BY <1>0, <1>10, <2>0, RowsTyped DEF Apply
  <2>2. shown' \in [Key -> Outcome] /\ edr' \in [Key -> BOOLEAN] /\ pending' \subseteq Write
    BY <1>10, <2>0 DEF Apply, TypeOK
  <2> QED
    BY <1>10, <2>1, <2>2 DEF Apply, TypeOK, RowRecord, procVars
<1>11. ASSUME NEW w \in pending, Lose(w)
       PROVE  TypeOK'
  BY <1>0, <1>11 DEF Lose, TypeOK, procVars, dbVars
<1>12. CASE Tick
  <2>1. now' \in Time
    BY <1>0, <1>12 DEF Tick, Time
  <2> QED
    BY <1>12, <2>1 DEF Tick, TypeOK, procVars, dbVars
<1> QED
  BY <1>1, <1>2, <1>3, <1>4, <1>5, <1>6, <1>7, <1>8, <1>9, <1>10, <1>11, <1>12 DEF Next

LEMMA TypesInitially == Init => TypeOK
<1> SUFFICES ASSUME Init PROVE TypeOK
  OBVIOUS
<1>1. MaxTime \in Nat /\ Ttl \in Nat /\ MaxLost \in Nat /\ MaxCalls \in Nat
  BY BulkAssumption
<1>2. "NONE" \in Outcome /\ 0 \in Time /\ 0 \in 0..(MaxTime + Ttl)
  BY <1>1 DEF Outcome, Time
<1>3. /\ row \in [Key -> [status : {"NONE", "RUNNING", "DONE"}, owner : Proc \cup {NoProc}, until : 0..(MaxTime + Ttl)]]
      /\ run \in [Proc -> [Key -> Outcome]] /\ renewed \in [Proc -> [Key -> Time \cup {Never}]]
  BY <1>2 DEF Init
<1> QED
  BY <1>1, <1>2, <1>3 DEF Init, TypeOK

(* The state of the processes and of the database always has its types     *)
(* (bulkTransferService.ts:62-131).                                        *)
THEOREM BulkTyped == Spec => []TypeOK
BY TypesInitially, TypesStep, PTL DEF Spec

----------------------------------------------------------------------------
(***************************************************************************)
(* The arithmetic of the lease                                             *)
(***************************************************************************)

(* One more renewal is one period more.                                    *)
LEMMA Spans ==
  ASSUME NEW n \in Nat, NEW m \in Nat
  PROVE  /\ Span(n) \in Nat /\ Span(n + 1) = Span(n) + RenewEvery
         /\ n <= m => Span(n) <= Span(m)
<1>1. RenewEvery \in Nat
  BY BulkAssumption
<1>2. Span(n) \in Nat /\ Span(n + 1) = Span(n) + RenewEvery
  BY <1>1 DEF Span
<1>3. ASSUME n <= m PROVE Span(n) <= Span(m)
  <2>1. PICK d \in Nat : m = n + d
    BY <1>3
  <2>2. RenewEvery * (n + d) = RenewEvery * n + RenewEvery * d /\ RenewEvery * d \in Nat /\ RenewEvery * n \in Nat
    BY <1>1
  <2> QED
    BY <2>1, <2>2 DEF Span
<1> QED
  BY <1>2, <1>3

(* Renewals on their way are counted.                                      *)
LEMMA Counts ==
  ASSUME NEW W \in SUBSET Time
  PROVE  /\ IsFiniteSet(W) /\ Cardinality(W) \in Nat
         /\ \A t : IsFiniteSet({u \in W : u < t}) /\ Cardinality({u \in W : u < t}) \in Nat
<1>1. IsFiniteSet(Time)
  BY BulkAssumption, FS_Interval DEF Time
<1>2. IsFiniteSet(W) /\ Cardinality(W) \in Nat
  BY <1>1, FS_Subset, FS_CardinalityType
<1>3. ASSUME NEW t PROVE IsFiniteSet({u \in W : u < t}) /\ Cardinality({u \in W : u < t}) \in Nat
  <2>1. {u \in W : u < t} \in SUBSET W
    OBVIOUS
  <2> QED
    BY <1>2, <2>1, FS_Subset, FS_CardinalityType
<1> QED
  BY <1>2, <1>3

(* Of several times one is the first: the intervals up to each are finite  *)
(* sets, and one of them has none below it.                                *)
LEMMA FirstOfTimes ==
  ASSUME NEW W \in SUBSET Time, W # {}
  PROVE  \E t \in W : \A u \in W : t <= u
<1>0. W \subseteq Nat
  BY DEF Time
<1> DEFINE UpTo == {0..n : n \in W}
<1>1. UpTo \subseteq FiniteSubsetsOf(Nat) /\ UpTo # {}
  <2>1. \A n \in W : 0..n \subseteq Nat /\ IsFiniteSet(0..n)
    BY <1>0, FS_Interval
  <2> QED
    BY <2>1 DEF FiniteSubsetsOf
<1>2. PICK b \in UpTo : \A c \in UpTo : ~(<<c, b>> \in StrictSubsetOrdering(Nat))
  <2> HIDE DEF UpTo
  <2> QED
    BY <1>1, FS_StrictSubsetOrderingWellFounded, WFMin
<1>3. PICK t \in W : b = 0..t
  OBVIOUS
<1>4. ASSUME NEW u \in W, u < t
      PROVE  FALSE
  <2>1. 0..u \subseteq 0..t /\ t \notin 0..u /\ t \in 0..t
    BY <1>0, <1>4
  <2>2. 0..u \in UpTo /\ 0..u \in SUBSET Nat /\ 0..t \in SUBSET Nat
    BY <1>0
  <2>3. <<0..u, 0..t>> \in StrictSubsetOrdering(Nat)
    BY <2>1, <2>2 DEF StrictSubsetOrdering
  <2> QED
    BY <1>2, <1>3, <2>2, <2>3
<1> QED
  BY <1>0, <1>4

(* A lease just set is kept.                                               *)
LEMMA KeptWhenSet ==
  ASSUME NEW W \in SUBSET Time, NEW r \in Time \cup {Never}, NEW n \in Time, NEW l \in Nat,
         r <= n, \A t \in W : t <= n
  PROVE  LeaseKept(W, r, n, n, l)
<1>1. ASSUME NEW t \in W PROVE t - n <= Span(l + 1 + Cardinality({u \in W : u < t}))
  <2>1. Cardinality({u \in W : u < t}) \in Nat
    BY Counts
  <2>2. l + 1 + Cardinality({u \in W : u < t}) \in Nat
    BY <2>1
  <2>3. Span(l + 1 + Cardinality({u \in W : u < t})) \in Nat
    BY <2>2, Spans
  <2> QED
    BY <2>3 DEF Time
<1>2. Cardinality(W) \in Nat /\ l + Cardinality(W) \in Nat /\ l + 1 + Cardinality(W) \in Nat
  BY Counts
<1>3. n - n <= Span(l + 1 + Cardinality(W)) /\ (r # Never => r - n <= Span(l + Cardinality(W)))
  BY <1>2, Spans DEF Time, Never
<1> QED
  BY <1>1, <1>3 DEF LeaseKept

(* Another renewal is asked for.                                           *)
LEMMA KeptWhenAsked ==
  ASSUME NEW W \in SUBSET Time, NEW r, NEW n \in Time, NEW b \in Int, NEW l \in Nat,
         \A t \in W : t <= n, LeaseKept(W, r, b, n, l)
  PROVE  LeaseKept(W \cup {n}, n, b, n, l)
<1> DEFINE V == W \cup {n}
<1>1. \A t \in W : {u \in V : u < t} = {u \in W : u < t}
  BY DEF Time
<1>2. {u \in V : u < n} = W \ {n}
  <2>1. n \in Nat /\ \A u \in W : u \in Nat /\ u <= n
    BY DEF Time
  <2>2. \A u \in V : u < n <=> u # n
    BY <2>1
  <2> QED
    BY <2>2
<1>3. W \ {n} \in SUBSET Time /\ V = (W \ {n}) \cup {n} /\ n \notin W \ {n}
  OBVIOUS
<1>4. IsFiniteSet(W \ {n}) /\ Cardinality(W \ {n}) \in Nat
  BY <1>3, Counts
<1>5. Cardinality(V) = Cardinality(W \ {n}) + 1
  BY <1>3, <1>4, FS_AddElement
<1>6. n - b <= Span(l + 1 + Cardinality(W \ {n}))
  <2>1. CASE n \in W
    <3>1. {u \in W : u < n} = W \ {n}
      <4>1. n \in Nat /\ \A u \in W : u \in Nat /\ u <= n
        BY DEF Time
      <4>2. \A u \in W : u < n <=> u # n
        BY <4>1
      <4> QED
        BY <4>2
    <3> QED
      BY <2>1, <3>1 DEF LeaseKept
  <2>2. CASE n \notin W
    <3>1. W \ {n} = W
      BY <2>2
    <3> QED
      BY <3>1 DEF LeaseKept
  <2> QED
    BY <2>1, <2>2
<1>7. l + Cardinality(V) = l + 1 + Cardinality(W \ {n}) /\ l + Cardinality(V) \in Nat
      /\ l + 1 + Cardinality(V) = l + Cardinality(V) + 1
  BY <1>4, <1>5
<1>8. n - b <= Span(l + Cardinality(V))
  BY <1>6, <1>7
<1>9. n - b <= Span(l + 1 + Cardinality(V))
  <2>1. /\ Span(l + Cardinality(V)) \in Nat /\ RenewEvery \in Nat
        /\ Span(l + 1 + Cardinality(V)) = Span(l + Cardinality(V)) + RenewEvery
    BY <1>7, Spans, BulkAssumption
  <2> QED
    BY <1>8, <2>1 DEF Time
<1>10. ASSUME NEW t \in V PROVE t - b <= Span(l + 1 + Cardinality({u \in V : u < t}))
  <2>1. CASE t \in W
    BY <1>1, <2>1 DEF LeaseKept
  <2>2. CASE t = n
    BY <1>2, <1>6, <2>2
  <2> QED
    BY <2>1, <2>2
<1> QED
  BY <1>8, <1>9, <1>10 DEF LeaseKept

(* A renewal of the job fails, and is counted.                             *)
LEMMA KeptWhenFailed ==
  ASSUME NEW W \in SUBSET Time, NEW r, NEW n, NEW b \in Int, NEW l \in Nat, NEW f \in W,
         r \in Time \cup {Never}, LeaseKept(W, r, b, n, l)
  PROVE  LeaseKept(W \ {f}, r, b, n, l + 1)
<1> DEFINE V == W \ {f}
<1>1. IsFiniteSet(W) /\ Cardinality(V) = Cardinality(W) - 1 /\ Cardinality(W) \in Nat /\ Cardinality(V) \in Nat
  BY Counts, FS_RemoveElement
<1>2. l + 1 + Cardinality(V) = l + Cardinality(W) /\ l + 1 + 1 + Cardinality(V) = l + 1 + Cardinality(W)
  BY <1>1
<1>3. ASSUME NEW t \in V PROVE t - b <= Span(l + 1 + 1 + Cardinality({u \in V : u < t}))
  <2> DEFINE A == {u \in W : u < t}
             B == {u \in V : u < t}
  <2>1. IsFiniteSet(A) /\ Cardinality(A) \in Nat /\ Cardinality(B) \in Nat
    BY Counts
  <2>2. B = A \ {f}
    OBVIOUS
  <2>3. Cardinality(A \ {f}) = IF f \in A THEN Cardinality(A) - 1 ELSE Cardinality(A)
    BY <2>1, FS_RemoveElement
  <2>4. t - b <= Span(l + 1 + Cardinality(A)) /\ t \in Time
    BY DEF LeaseKept
  <2> HIDE DEF A, B
  <2>5. /\ l + 1 + Cardinality(A) \in Nat /\ l + 1 + 1 + Cardinality(B) \in Nat
        /\ l + 1 + Cardinality(A) <= l + 1 + 1 + Cardinality(B)
    BY <2>1, <2>2, <2>3
  <2>6. /\ Span(l + 1 + Cardinality(A)) <= Span(l + 1 + 1 + Cardinality(B))
        /\ Span(l + 1 + Cardinality(A)) \in Nat /\ Span(l + 1 + 1 + Cardinality(B)) \in Nat
    BY <2>5, Spans
  <2> QED
    BY <2>4, <2>6 DEF B, Time
<1> QED
  BY <1>2, <1>3 DEF LeaseKept

(* Something else fails.                                                   *)
LEMMA KeptWhenOthersFail ==
  ASSUME NEW W \in SUBSET Time, NEW r \in Time \cup {Never}, NEW n \in Time, NEW b \in Int, NEW l \in Nat,
         LeaseKept(W, r, b, n, l)
  PROVE  LeaseKept(W, r, b, n, l + 1)
<1>1. ASSUME NEW c \in Nat PROVE Span(l + 1 + c) <= Span(l + 1 + 1 + c) /\ Span(l + c) <= Span(l + 1 + c)
                                 /\ Span(l + 1 + c) \in Nat /\ Span(l + 1 + 1 + c) \in Nat /\ Span(l + c) \in Nat
  <2>1. l + c \in Nat /\ l + 1 + c \in Nat /\ l + 1 + 1 + c \in Nat /\ l + c <= l + 1 + c /\ l + 1 + c <= l + 1 + 1 + c
    OBVIOUS
  <2> QED
    BY <2>1, Spans
<1>2. ASSUME NEW t \in W PROVE t - b <= Span(l + 1 + 1 + Cardinality({u \in W : u < t}))
  <2>1. PICK c \in Nat : c = Cardinality({u \in W : u < t})
    BY Counts
  <2>2. t - b <= Span(l + 1 + c)
    BY <2>1 DEF LeaseKept
  <2>3. Span(l + 1 + c) <= Span(l + 1 + 1 + c) /\ Span(l + 1 + c) \in Nat /\ Span(l + 1 + 1 + c) \in Nat
    BY <1>1
  <2>4. t \in Nat
    BY BulkAssumption DEF Time
  <2>5. t - b <= Span(l + 1 + 1 + c)
    BY <2>2, <2>3, <2>4
  <2> QED
    BY <2>1, <2>5
<1>3. Cardinality(W) \in Nat
  BY Counts
<1>4. /\ r # Never => r - b <= Span(l + 1 + Cardinality(W))
      /\ n - b <= Span(l + 1 + 1 + Cardinality(W))
  <2>1. /\ r # Never => r - b <= Span(l + Cardinality(W))
        /\ n - b <= Span(l + 1 + Cardinality(W))
    BY DEF LeaseKept
  <2>2. n - b \in Int /\ (r # Never => r - b \in Int)
    BY DEF Time, Never
  <2>3. PICK c \in Nat : c = Cardinality(W)
    BY <1>3
  <2>4. /\ Span(l + 1 + c) <= Span(l + 1 + 1 + c) /\ Span(l + c) <= Span(l + 1 + c)
        /\ Span(l + 1 + c) \in Nat /\ Span(l + 1 + 1 + c) \in Nat /\ Span(l + c) \in Nat
    BY <1>1
  <2>5. n - b <= Span(l + 1 + 1 + c)
    BY <2>1, <2>2, <2>3, <2>4
  <2>6. r # Never => r - b <= Span(l + 1 + c)
    BY <2>1, <2>2, <2>3, <2>4
  <2> QED
    BY <2>3, <2>5, <2>6
<1> QED
  BY <1>2, <1>4 DEF LeaseKept

(* Time passes before the next renewal is due.                             *)
LEMMA KeptWhenTimePasses ==
  ASSUME NEW W \in SUBSET Time, NEW r \in Time, NEW n \in Time, NEW b \in Int, NEW l \in Nat,
         n - r < RenewEvery, r # Never, LeaseKept(W, r, b, n, l)
  PROVE  LeaseKept(W, r, b, n + 1, l)
<1>1. Cardinality(W) \in Nat /\ l + Cardinality(W) \in Nat /\ l + 1 + Cardinality(W) = l + Cardinality(W) + 1
  BY Counts
<1>2. Span(l + 1 + Cardinality(W)) = Span(l + Cardinality(W)) + RenewEvery /\ Span(l + Cardinality(W)) \in Nat
  BY <1>1, Spans
<1>3. (n + 1) - b <= Span(l + 1 + Cardinality(W))
  <2>1. r - b <= Span(l + Cardinality(W))
    BY DEF LeaseKept
  <2>2. n \in Nat /\ r \in Nat /\ RenewEvery \in Nat
    BY BulkAssumption DEF Time
  <2> QED
    BY <1>2, <2>1, <2>2
<1>4. /\ \A t \in W : t - b <= Span(l + 1 + Cardinality({u \in W : u < t}))
      /\ r # Never => r - b <= Span(l + Cardinality(W))
  BY DEF LeaseKept
<1> QED
  BY <1>3, <1>4 DEF LeaseKept

(* A kept lease has not run out.                                           *)
LEMMA KeptIsValid ==
  ASSUME NEW W \in SUBSET Time, NEW r, NEW n \in Time, NEW b \in Int, NEW l \in 0..MaxLost,
         LeaseOutlasts, \A t \in W : t <= n /\ n - t <= MaxDelay, LeaseKept(W, r, b, n, l)
  PROVE  n <= b + Ttl
<1>0. MaxLost \in Nat /\ l \in Nat /\ MaxDelay \in Nat /\ Ttl \in Nat /\ l + 1 <= MaxLost + 1 /\ RenewEvery \in Nat
  BY BulkAssumption
<1>1. Span(l + 1) <= Span(MaxLost + 1) /\ Span(l + 1) \in Nat /\ Span(MaxLost + 1) \in Nat
  BY <1>0, Spans
<1>2. MaxDelay + Span(MaxLost + 1) <= Ttl
  BY DEF LeaseOutlasts, Span
<1>3. CASE W = {}
  <2>1. Cardinality(W) = 0
    BY <1>3, FS_EmptySet
  <2>2. n - b <= Span(l + 1)
    BY <1>0, <2>1 DEF LeaseKept
  <2> QED
    BY <1>0, <1>1, <1>2, <2>2 DEF Time
<1>4. CASE W # {}
  <2>1. PICK t \in W : \A u \in W : t <= u
    <3>1. PICK v : v \in W
      BY <1>4
    <3> QED
      BY <3>1, FirstOfTimes
  <2>2. {u \in W : u < t} = {}
    <3>1. t \in Nat /\ \A u \in W : u \in Nat
      BY DEF Time
    <3>2. \A u \in W : ~(u < t)
      BY <2>1, <3>1
    <3> QED
      BY <3>2
  <2>3. Cardinality({u \in W : u < t}) = 0
    BY <2>2, FS_EmptySet
  <2>4. t - b <= Span(l + 1)
    BY <1>0, <2>1, <2>3 DEF LeaseKept
  <2> QED
    BY <1>0, <1>1, <1>2, <2>1, <2>4 DEF Time
<1> QED
  BY <1>3, <1>4

----------------------------------------------------------------------------
(***************************************************************************)
(* What the steps do                                                       *)
(***************************************************************************)

(* A renewal is no other write, and is told from another one by its job    *)
(* and its time.                                                           *)
LEMMA AskedApart ==
  ASSUME NEW p, NEW k, NEW t, NEW q, NEW j
  PROVE  /\ \A u : Asked(p, k, t) = Asked(q, j, u) <=> p = q /\ k = j /\ t = u
         /\ \A x : Asked(p, k, t) # Persist(q, j, x)
         /\ \A u : Asked(p, k, t) # [p |-> q, k |-> j, op |-> "done", since |-> u]
         /\ Asked(p, k, t) # [p |-> q, k |-> j, op |-> "complete"]
         /\ Renewal(q, j) = Asked(q, j, now)
         /\ Asked(p, k, t).op = "renew" /\ Asked(p, k, t).p = p /\ Asked(p, k, t).k = k /\ Asked(p, k, t).since = t
<1>1. \A u : Asked(p, k, t) = Asked(q, j, u) <=> p = q /\ k = j /\ t = u
  BY DEF Asked
<1>2. Asked(p, k, t).op = "renew" /\ Asked(p, k, t).p = p /\ Asked(p, k, t).k = k /\ Asked(p, k, t).since = t
  BY DEF Asked
<1>3. /\ \A x : Persist(q, j, x).op = "persist"
      /\ \A u : [p |-> q, k |-> j, op |-> "done", since |-> u].op = "done"
      /\ [p |-> q, k |-> j, op |-> "complete"].op = "complete"
  BY DEF Persist
<1>4. Renewal(q, j) = Asked(q, j, now)
  BY DEF Renewal, Asked
<1> QED
  BY <1>1, <1>2, <1>3, <1>4

(* A write that is a renewal is one that was asked for.                    *)
LEMMA RenewalsAsked ==
  ASSUME TypeOK, NEW w \in pending, w.op = "renew"
  PROVE  w = Asked(w.p, w.k, w.since) /\ w.since \in Time /\ w.p \in Proc /\ w.k \in Key
BY DEF TypeOK, Write, Asked

(* The clock and the rows: a row is set to now, released or left alone.    *)
LEMMA RowMoves ==
  ASSUME TypeOK, [Next]_vars
  PROVE  /\ now' = now \/ (now' = now + 1 /\ row' = row /\ calls' = calls /\ Tick)
         /\ \A k \in Key : \/ row'[k] = row[k]
                           \/ row'[k].until = now + Ttl /\ now' = now
                           \/ row'[k].owner = NoProc /\ now' = now
<1>0. now \in Time /\ row \in [Key -> RowRecord]
  BY DEF TypeOK, RowRecord
<1>1. \A r \in RowRecord : Done(r) = r \/ Done(r).owner = NoProc
  BY DEF Done
<1>2. \A r \in RowRecord, p \in Proc : Renewed(r, p) = r \/ Renewed(r, p).until = now + Ttl
  BY DEF Renewed, RowRecord
<1>3. \A p \in Proc : Saved(p).until = now + Ttl
  BY DEF Saved
<1>4. CASE UNCHANGED vars \/ Tick
  BY <1>0, <1>4 DEF vars, dbVars, procVars, Tick
<1>5. ASSUME NEW p \in Proc, NEW k \in Key, NEW s,
             Request(p, k) \/ Emit(p, k) \/ ResumeNext(p, k) \/ Finish(p, k, s)
      PROVE  now' = now /\ row' = row
  BY <1>5 DEF Request, Emit, ResumeNext, Finish, dbVars
<1>6. ASSUME NEW p \in Proc, Boot(p) \/ ClaimFails(p) \/ Crash(p)
      PROVE  now' = now /\ row' = row
  BY <1>6 DEF Boot, ClaimFails, Crash, dbVars
<1>7. ASSUME NEW p \in Proc, Claim(p)
      PROVE  now' = now /\ \A k \in Key : row'[k] = row[k] \/ row'[k].until = now + Ttl
  <2>1. \A k \in Key : row[k] \in RowRecord
    BY <1>0
  <2> QED
    BY <1>7, <2>1 DEF Claim, RowRecord
<1>8. ASSUME NEW c \in calls, CallStep(c)
      PROVE  now' = now /\ \A k \in Key : row'[k] = row[k] \/ row'[k].until = now + Ttl \/ row'[k].owner = NoProc
  <2>0. c.p \in Proc /\ c.k \in Key
    BY DEF TypeOK, Call
  <2>1. now' = now
    BY <1>8 DEF CallStep, Prepared, NotPrepared, Save, Throw, Begin, TooMany, Report, Retire
  <2>2. row' = row \/ row' = [row EXCEPT ![c.k] = Saved(c.p)] \/ row' = [row EXCEPT ![c.k] = Done(row[c.k])]
    BY <1>8 DEF CallStep, Prepared, NotPrepared, Save, Throw, Begin, TooMany, Report, Retire, dbVars
  <2> QED
    BY <1>0, <1>1, <1>3, <2>0, <2>1, <2>2
<1>9. ASSUME NEW w \in pending, Apply(w) \/ Lose(w)
      PROVE  now' = now /\ \A k \in Key : row'[k] = row[k] \/ row'[k].until = now + Ttl \/ row'[k].owner = NoProc
  <2>0. w.p \in Proc /\ w.k \in Key
    BY DEF TypeOK, Write
  <2>1. now' = now
    BY <1>9 DEF Apply, Lose
  <2>2. \/ row' = row \/ row' = [row EXCEPT ![w.k] = Renewed(row[w.k], w.p)]
        \/ row' = [row EXCEPT ![w.k] = Done(row[w.k])]
    BY <1>9 DEF Apply, Lose, dbVars
  <2> QED
    BY <1>0, <1>1, <1>2, <2>0, <2>1, <2>2
<1> QED
  BY <1>4, <1>5, <1>6, <1>7, <1>8, <1>9 DEF Next

(* A call moves on, ends, or comes to its start.                           *)
LEMMA CallMoves ==
  ASSUME TypeOK, NEW c \in calls, CallStep(c)
  PROVE  /\ \A d \in calls' : d \in calls \/ (d.p = c.p /\ d.k = c.k /\ d.by = c.by /\ (d.at = "begin" => Save(c)))
         /\ UNCHANGED <<now, up, todo, edr, made>>
<1>0. c.p \in Proc /\ c.k \in Key /\ c \in Call
  BY DEF TypeOK, Call
<1>1. \A a \in {"prepare", "save", "begin", "report", "retire"} :
        /\ [c EXCEPT !.at = a].p = c.p /\ [c EXCEPT !.at = a].k = c.k
        /\ [c EXCEPT !.at = a].by = c.by /\ [c EXCEPT !.at = a].at = a
  BY <1>0 DEF Call
<1>2. \/ calls' = calls \ {c}
      \/ \E a \in {"save", "report", "retire"} : calls' = (calls \ {c}) \cup {[c EXCEPT !.at = a]}
      \/ calls' = (calls \ {c}) \cup {[c EXCEPT !.at = "begin"]} /\ Save(c)
  BY DEF CallStep, Prepared, NotPrepared, Save, Throw, Begin, TooMany, Report, Retire, Refuse, Move, End
<1>3. UNCHANGED <<now, up, todo, edr, made>>
  BY DEF CallStep, Prepared, NotPrepared, Save, Throw, Begin, TooMany, Report, Retire, dbVars
<1>4. ASSUME NEW d \in calls'
      PROVE  d \in calls \/ (d.p = c.p /\ d.k = c.k /\ d.by = c.by /\ (d.at = "begin" => Save(c)))
  <2>1. CASE \E a \in {"save", "report", "retire"} : calls' = (calls \ {c}) \cup {[c EXCEPT !.at = a]}
    <3>1. PICK a \in {"save", "report", "retire"} : calls' = (calls \ {c}) \cup {[c EXCEPT !.at = a]}
      BY <2>1
    <3>2. d \in calls \/ d = [c EXCEPT !.at = a]
      BY <3>1
    <3>3. /\ [c EXCEPT !.at = a].p = c.p /\ [c EXCEPT !.at = a].k = c.k
          /\ [c EXCEPT !.at = a].by = c.by /\ [c EXCEPT !.at = a].at = a /\ a # "begin"
      BY <1>1
    <3> QED
      BY <3>2, <3>3
  <2>2. CASE calls' = (calls \ {c}) \cup {[c EXCEPT !.at = "begin"]} /\ Save(c)
    <3>1. d \in calls \/ d = [c EXCEPT !.at = "begin"]
      BY <2>2
    <3> QED
      BY <1>1, <2>2, <3>1
  <2> QED
    BY <1>2, <2>1, <2>2
<1> QED
  BY <1>3, <1>4

(* A job runs on a process only if it did before, or a call starts it.     *)
LEMMA RunMoves ==
  ASSUME TypeOK, [Next]_vars, NEW p \in Proc, NEW k \in Key, k \in RunningOn(p)'
  PROVE  /\ k \in RunningOn(p) \/ \E c \in calls : c.p = p /\ c.k = k /\ Begin(c)
         /\ ~Crash(p)
<1>0. run \in [Proc -> [Key -> Outcome]] /\ run'[p][k] = "RUNNING"
  BY DEF TypeOK, RunningOn
<1>1. ~Crash(p)
  BY <1>0 DEF Crash
<1>2. CASE UNCHANGED run
  BY <1>1, <1>2 DEF RunningOn
<1>3. ASSUME NEW q \in Proc, NEW j \in Key, NEW s \in Terminal, Finish(q, j, s)
      PROVE  k \in RunningOn(p)
  BY <1>0, <1>3 DEF Finish, RunningOn, Terminal
<1>4. ASSUME NEW q \in Proc, Crash(q)
      PROVE  k \in RunningOn(p)
  BY <1>0, <1>1, <1>4 DEF Crash, RunningOn
<1>5. ASSUME NEW c \in calls, CallStep(c)
      PROVE  k \in RunningOn(p) \/ (c.p = p /\ c.k = k /\ Begin(c))
  <2>0. c.p \in Proc /\ c.k \in Key
    BY DEF TypeOK, Call
  <2>1. CASE run' = run
    BY <2>1 DEF RunningOn
  <2>2. CASE run' # run
    <3>1. Begin(c)
      BY <1>5, <2>2 DEF CallStep, Prepared, NotPrepared, Save, Throw, TooMany, Report, Retire
    <3>2. run' = [run EXCEPT ![c.p] = [run[c.p] EXCEPT ![c.k] = "RUNNING"]]
      BY <2>2, <3>1 DEF Begin
    <3>3. ASSUME ~(c.p = p /\ c.k = k) PROVE run'[p][k] = run[p][k]
      <4>1. CASE c.p # p
        BY <1>0, <3>2, <4>1
      <4>2. CASE c.p = p
        <5>1. run'[p] = [run[p] EXCEPT ![c.k] = "RUNNING"] /\ run[p] \in [Key -> Outcome]
          BY <1>0, <3>2, <4>2
        <5> QED
          BY <3>3, <4>2, <5>1
      <4> QED
        BY <4>1, <4>2
    <3> QED
      BY <1>0, <3>1, <3>3 DEF RunningOn
  <2> QED
    BY <2>1, <2>2
<1>7. ASSUME NEW q \in Proc, NEW j \in Key, Request(q, j) \/ Emit(q, j) \/ ResumeNext(q, j)
      PROVE  UNCHANGED run
  BY <1>7 DEF Request, Emit, ResumeNext
<1>8. ASSUME NEW q \in Proc, Boot(q) \/ Claim(q) \/ ClaimFails(q)
      PROVE  UNCHANGED run
  BY <1>8 DEF Boot, Claim, ClaimFails
<1>9. ASSUME NEW w \in pending, Apply(w) \/ Lose(w)
      PROVE  UNCHANGED run
  BY <1>9 DEF Apply, Lose, procVars
<1>10. ASSUME UNCHANGED vars \/ Tick
       PROVE  UNCHANGED run
  BY <1>10 DEF vars, Tick, procVars
<1> QED
  BY <1>1, <1>2, <1>3, <1>4, <1>5, <1>7, <1>8, <1>9, <1>10 DEF Next

(* Who runs a job, calls or resumes lives.                                 *)
LEMMA LiveStep ==
  ASSUME TypeOK, LiveOnly, [Next]_vars
  PROVE  LiveOnly'
<1>0. up \in [Proc -> {"new", "claiming", "up", "dead"}] /\ todo \in [Proc -> SUBSET Key] /\ calls \subseteq Call
  BY DEF TypeOK
<1>1. ASSUME NEW p \in Proc, Alive(p), ~Crash(p) PROVE Alive(p)' /\ (up[p] = "up" => up'[p] = "up")
  <2>1. CASE up' = up
    BY <1>1, <2>1 DEF Alive
  <2>2. ASSUME NEW q \in Proc, Boot(q) \/ Claim(q) \/ ClaimFails(q) PROVE Alive(p)' /\ (up[p] = "up" => up'[p] = "up")
    BY <1>0, <1>1, <2>2 DEF Alive, Boot, Claim, ClaimFails
  <2>3. ASSUME NEW q \in Proc, Crash(q) PROVE Alive(p)' /\ (up[p] = "up" => up'[p] = "up")
    BY <1>0, <1>1, <2>3 DEF Alive, Crash
  <2>4. ASSUME NEW q \in Proc, NEW k \in Key, NEW s, Request(q, k) \/ Emit(q, k) \/ ResumeNext(q, k) \/ Finish(q, k, s)
        PROVE  up' = up
    BY <2>4 DEF Request, Emit, ResumeNext, Finish
  <2>5. ASSUME NEW c \in calls, CallStep(c) PROVE up' = up
    BY <2>5, CallMoves
  <2>6. ASSUME NEW w \in pending, Apply(w) \/ Lose(w) PROVE up' = up
    BY <2>6 DEF Apply, Lose, procVars
  <2>7. ASSUME UNCHANGED vars \/ Tick PROVE up' = up
    BY <2>7 DEF vars, Tick, procVars
  <2> QED
    BY <2>1, <2>2, <2>3, <2>4, <2>5, <2>6, <2>7 DEF Next
<1>2. ASSUME NEW p \in Proc, NEW k \in Key, k \in RunningOn(p)'
      PROVE  Alive(p)'
  <2>1. Alive(p) /\ ~Crash(p)
    BY <1>2, RunMoves DEF LiveOnly
  <2> QED
    BY <1>1, <2>1
<1>3. ASSUME NEW p \in Proc, NEW k \in Key, k \in todo'[p]
      PROVE  up'[p] = "up"
  <2>1. CASE k \in todo[p] /\ ~Crash(p)
    BY <1>1, <2>1 DEF LiveOnly, Alive
  <2>2. CASE Crash(p)
    BY <1>0, <1>3, <2>2 DEF Crash
  <2>3. CASE k \notin todo[p]
    <3>1. ASSUME NEW q \in Proc, NEW j \in Key, NEW s,
                 \/ Request(q, j) \/ Emit(q, j) \/ ResumeNext(q, j) \/ Finish(q, j, s)
                 \/ Boot(q) \/ ClaimFails(q) \/ Crash(q)
          PROVE  k \notin todo'[p]
      BY <1>0, <2>3, <3>1 DEF Request, Emit, ResumeNext, Finish, Boot, ClaimFails, Crash
    <3>2. ASSUME NEW q \in Proc, Boot(q) \/ ClaimFails(q) \/ Crash(q)
          PROVE  k \notin todo'[p]
      BY <1>0, <2>3, <3>2 DEF Boot, ClaimFails, Crash
    <3>3. ASSUME NEW c \in calls, CallStep(c) PROVE k \notin todo'[p]
      BY <2>3, <3>3, CallMoves
    <3>4. ASSUME NEW w \in pending, Apply(w) \/ Lose(w) PROVE k \notin todo'[p]
      BY <2>3, <3>4 DEF Apply, Lose, procVars
    <3>5. ASSUME UNCHANGED vars \/ Tick PROVE k \notin todo'[p]
      BY <2>3, <3>5 DEF vars, Tick, procVars
    <3>6. ASSUME NEW q \in Proc, Claim(q) PROVE up'[p] = "up"
      <4>1. q = p
        BY <1>0, <1>3, <2>3, <3>6 DEF Claim
      <4> QED
        BY <1>0, <3>6, <4>1 DEF Claim
    <3> QED
      BY <1>3, <3>1, <3>2, <3>3, <3>4, <3>5, <3>6 DEF Next
  <2> QED
    BY <2>1, <2>2, <2>3
<1>4. ASSUME NEW d \in calls'
      PROVE  Alive(d.p)'
  <2>1. ASSUME NEW c \in calls, d.p = c.p, ~Crash(c.p)
        PROVE  Alive(d.p)'
    BY <1>0, <1>1, <2>1 DEF LiveOnly, Call
  <2>2. CASE d \in calls
    <3>1. ASSUME Crash(d.p) PROVE FALSE
      BY <1>4, <3>1 DEF Crash
    <3> QED
      BY <2>1, <2>2, <3>1
  <2>3. CASE d \notin calls
    <3>1. ASSUME NEW c \in calls, CallStep(c)
          PROVE  Alive(d.p)'
      <4>1. d.p = c.p /\ up' = up
        BY <1>4, <2>3, <3>1, CallMoves
      <4> QED
        BY <4>1 DEF LiveOnly, Alive
    <3>2. ASSUME NEW q \in Proc, NEW j \in Key, Request(q, j) \/ ResumeNext(q, j)
          PROVE  Alive(d.p)'
      <4>1. d.p = q /\ up' = up
        BY <1>4, <2>3, <3>2 DEF Request, ResumeNext
      <4>2. Alive(q)
        BY <3>2 DEF Request, ResumeNext, LiveOnly, Alive
      <4> QED
        BY <4>1, <4>2 DEF Alive
    <3>3. ASSUME NEW q \in Proc, NEW j \in Key, NEW s, Emit(q, j) \/ Finish(q, j, s)
          PROVE  calls' \subseteq calls
      BY <3>3 DEF Emit, Finish
    <3>4. ASSUME NEW q \in Proc, Boot(q) \/ Claim(q) \/ ClaimFails(q) \/ Crash(q)
          PROVE  calls' \subseteq calls
      BY <3>4 DEF Boot, Claim, ClaimFails, Crash
    <3>5. ASSUME NEW w \in pending, Apply(w) \/ Lose(w) PROVE calls' \subseteq calls
      BY <3>5 DEF Apply, Lose, procVars
    <3>6. ASSUME UNCHANGED vars \/ Tick PROVE calls' \subseteq calls
      BY <3>6 DEF vars, Tick, procVars
    <3> QED
      BY <1>4, <2>3, <3>1, <3>2, <3>3, <3>4, <3>5, <3>6 DEF Next
  <2> QED
    BY <2>2, <2>3
<1> QED
  BY <1>2, <1>3, <1>4 DEF LiveOnly

(* What a progress report does to the renewals of a job.                   *)
LEMMA ProgressMoves ==
  ASSUME TypeOK, NEW q \in Proc, NEW j \in Key, Progress(q, j)
  PROVE  /\ \A w \in pending' : w.op = "renew" => w \in pending \/ w = Asked(q, j, now)
         /\ \A p \in Proc, k \in Key, t \in Time :
              Asked(p, k, t) \in pending' <=>
                Asked(p, k, t) \in pending \/ (p = q /\ k = j /\ t = now /\ RenewalDue(q, j))
         /\ \A p \in Proc, k \in Key :
              renewed'[p][k] = IF p = q /\ k = j /\ RenewalDue(q, j) THEN now ELSE renewed[p][k]
<1>1. pending' = pending \cup {Persist(q, j, "RUNNING")} \cup IF RenewalDue(q, j) THEN {Asked(q, j, now)} ELSE {}
  BY AskedApart DEF Progress
<1>2. \A w \in pending' : w.op = "renew" => w \in pending \/ w = Asked(q, j, now)
  <2>1. Persist(q, j, "RUNNING").op = "persist"
    BY DEF Persist
  <2> QED
    BY <1>1, <2>1
<1>3. ASSUME NEW p \in Proc, NEW k \in Key, NEW t \in Time
      PROVE  Asked(p, k, t) \in pending' <=>
               Asked(p, k, t) \in pending \/ (p = q /\ k = j /\ t = now /\ RenewalDue(q, j))
  <2>1. Asked(p, k, t) # Persist(q, j, "RUNNING") /\ (Asked(p, k, t) = Asked(q, j, now) <=> p = q /\ k = j /\ t = now)
    <3>1. Asked(p, k, t) # Persist(q, j, "RUNNING")
      <4>1. Asked(p, k, t).op = "renew" /\ Persist(q, j, "RUNNING").op = "persist"
        BY DEF Asked, Persist
      <4> QED
        BY <4>1
    <3>2. Asked(p, k, t) = Asked(q, j, now) <=> p = q /\ k = j /\ t = now
      BY DEF Asked
    <3> QED
      BY <3>1, <3>2
  <2> QED
    BY <1>1, <2>1
<1>4. ASSUME NEW p \in Proc, NEW k \in Key
      PROVE  renewed'[p][k] = IF p = q /\ k = j /\ RenewalDue(q, j) THEN now ELSE renewed[p][k]
  <2>1. renewed' = [renewed EXCEPT ![q] = [renewed[q] EXCEPT ![j] = IF RenewalDue(q, j) THEN now ELSE renewed[q][j]]]
    BY DEF Progress
  <2>2. renewed \in [Proc -> [Key -> Time \cup {Never}]]
    BY DEF TypeOK
  <2>3. CASE p # q
    BY <2>1, <2>2, <2>3
  <2>4. CASE p = q
    <3>1. renewed'[p] = [renewed[p] EXCEPT ![j] = IF RenewalDue(q, j) THEN now ELSE renewed[q][j]]
      BY <2>1, <2>2, <2>4
    <3>2. renewed[p] \in [Key -> Time \cup {Never}]
      BY <2>2
    <3> QED
      BY <2>4, <3>1, <3>2
  <2> QED
    BY <2>3, <2>4
<1> QED
  BY <1>2, <1>3, <1>4

(* The renewals on their way after a step: those before, but for one that  *)
(* arrives or fails, and one that a progress report asks for.              *)
LEMMA RenewalsMove ==
  ASSUME TypeOK, [Next]_vars
  PROVE  /\ \A w \in pending' : w.op = "renew" =>
              \/ w \in pending
              \/ \E q \in Proc, j \in Key : Progress(q, j) /\ w = Asked(q, j, now) /\ now' = now
         /\ \A p \in Proc, k \in Key :
              \/ renewed'[p][k] = renewed[p][k]
              \/ renewed'[p][k] = Never
              \/ Progress(p, k) /\ now' = now
<1>0. renewed \in [Proc -> [Key -> Time \cup {Never}]] /\ calls \subseteq Call
  BY DEF TypeOK
<1>1. ASSUME NEW q \in Proc, NEW j \in Key, Progress(q, j), now' = now
      PROVE  /\ \A w \in pending' : w.op = "renew" =>
                  w \in pending \/ \E i \in Proc, h \in Key : Progress(i, h) /\ w = Asked(i, h, now) /\ now' = now
             /\ \A p \in Proc, k \in Key : renewed'[p][k] = renewed[p][k] \/ (Progress(p, k) /\ now' = now)
  BY <1>1, ProgressMoves
<1>2. ASSUME NEW q \in Proc, NEW j \in Key, Emit(q, j)
      PROVE  Progress(q, j) /\ now' = now
  BY <1>2 DEF Emit
<1>3. ASSUME NEW q \in Proc, NEW j \in Key, NEW s, Finish(q, j, s)
      PROVE  /\ \A w \in pending' : w.op = "renew" => w \in pending
             /\ \A p \in Proc, k \in Key : renewed'[p][k] = renewed[p][k] \/ renewed'[p][k] = Never
  <2>1. Persist(q, j, s).op = "persist"
    BY DEF Persist
  <2>2. \A w \in pending' : w.op = "renew" => w \in pending
    BY <1>3, <2>1 DEF Finish
  <2>3. renewed' = [renewed EXCEPT ![q] = [renewed[q] EXCEPT ![j] = Never]]
    BY <1>3 DEF Finish
  <2> QED
    BY <1>0, <2>2, <2>3
<1>4. ASSUME NEW q \in Proc, Crash(q)
      PROVE  /\ pending' = pending
             /\ \A p \in Proc, k \in Key : renewed'[p][k] = renewed[p][k] \/ renewed'[p][k] = Never
  BY <1>0, <1>4 DEF Crash
<1>5. ASSUME NEW c \in calls, Retire(c)
      PROVE  /\ pending' = pending
             /\ \A p \in Proc, k \in Key : renewed'[p][k] = renewed[p][k] \/ renewed'[p][k] = Never
  <2>1. pending' = pending /\ renewed' = [renewed EXCEPT ![c.p] = [renewed[c.p] EXCEPT ![c.k] = Never]]
    BY <1>5 DEF Retire
  <2>2. c.p \in Proc /\ c.k \in Key
    BY <1>0 DEF Call
  <2> QED
    BY <1>0, <2>1, <2>2
<1>6. ASSUME NEW c \in calls, CallStep(c), ~Retire(c)
      PROVE  (pending' = pending /\ renewed' = renewed) \/ (Progress(c.p, c.k) /\ now' = now)
  BY <1>6 DEF CallStep, Prepared, NotPrepared, Save, Throw, Begin, TooMany, Report
<1>7. ASSUME NEW w \in pending, Apply(w) \/ Lose(w)
      PROVE  pending' \subseteq pending /\ renewed' = renewed
  BY <1>7 DEF Apply, Lose, procVars
<1>8. ASSUME NEW q \in Proc, NEW j \in Key, Request(q, j) \/ ResumeNext(q, j)
      PROVE  pending' = pending /\ renewed' = renewed
  BY <1>8 DEF Request, ResumeNext
<1>9. ASSUME NEW q \in Proc, Boot(q) \/ Claim(q) \/ ClaimFails(q)
      PROVE  pending' = pending /\ renewed' = renewed
  BY <1>9 DEF Boot, Claim, ClaimFails
<1>10. ASSUME UNCHANGED vars \/ Tick
       PROVE  pending' = pending /\ renewed' = renewed
  BY <1>10 DEF vars, Tick, procVars
<1>11. ASSUME NEW c \in calls PROVE c.p \in Proc /\ c.k \in Key
  BY <1>0, <1>11 DEF Call
<1> QED
  BY <1>1, <1>2, <1>3, <1>4, <1>5, <1>6, <1>7, <1>8, <1>9, <1>10, <1>11 DEF Next

(* Renewals are asked for and arrive in time.                              *)
LEMMA OnTimeStep ==
  ASSUME TypeOK, OnTime, [Next]_vars
  PROVE  OnTime'
<1>0. /\ now \in Nat /\ MaxDelay \in Nat /\ RenewEvery \in Nat /\ now' \in Nat
      /\ renewed \in [Proc -> [Key -> Time \cup {Never}]] /\ now' >= now
  <2>1. TypeOK'
    BY TypesStep
  <2> QED
    BY <2>1, BulkAssumption, RowMoves DEF TypeOK, Time
<1>1. ASSUME NEW w \in pending', w.op = "renew"
      PROVE  w.since <= now' /\ now' - w.since <= MaxDelay
  <2>1. CASE w \in pending
    <3>1. w.since \in Nat /\ w.since <= now /\ now - w.since <= MaxDelay
      BY <1>1, <2>1, RenewalsAsked DEF OnTime, Time
    <3>2. CASE now' = now
      BY <3>1, <3>2
    <3>3. CASE Tick
      <4>1. now - w.since < MaxDelay /\ now' = now + 1
        BY <1>1, <2>1, <3>3 DEF Tick
      <4> QED
        BY <1>0, <3>1, <4>1
    <3> QED
      BY <3>2, <3>3, RowMoves
  <2>2. CASE w \notin pending
    <3>1. w.since = now /\ now' = now
      BY <1>1, <2>2, RenewalsMove, AskedApart
    <3> QED
      BY <1>0, <3>1
  <2> QED
    BY <2>1, <2>2
<1>2. ASSUME NEW p \in Proc, NEW k \in Key
      PROVE  /\ renewed'[p][k] <= now'
             /\ (k \in RunningOn(p)' /\ renewed'[p][k] # Never) => now' - renewed'[p][k] <= RenewEvery
  <2>0. /\ renewed[p][k] \in Time \cup {Never} /\ renewed[p][k] <= now
        /\ (k \in RunningOn(p) /\ renewed[p][k] # Never) => now - renewed[p][k] <= RenewEvery
    BY <1>0 DEF OnTime
  <2>1. CASE renewed'[p][k] = Never
    BY <1>0, <2>1 DEF Never
  <2>2. CASE Progress(p, k) /\ now' = now
    <3>1. renewed'[p][k] = IF RenewalDue(p, k) THEN now ELSE renewed[p][k]
      BY <2>2, ProgressMoves
    <3>2. ~RenewalDue(p, k) => renewed[p][k] # Never /\ ~(now - renewed[p][k] >= RenewEvery)
      BY DEF RenewalDue
    <3>3. CASE RenewalDue(p, k)
      BY <1>0, <2>2, <3>1, <3>3
    <3>4. CASE ~RenewalDue(p, k)
      <4>1. renewed'[p][k] = renewed[p][k] /\ renewed[p][k] \in Nat /\ now' = now
        BY <2>0, <2>2, <3>1, <3>2, <3>4 DEF Time
      <4> QED
        BY <1>0, <2>0, <3>2, <3>4, <4>1
    <3> QED
      BY <3>3, <3>4
  <2>3. CASE renewed'[p][k] = renewed[p][k] /\ ~(Progress(p, k) /\ now' = now)
    <3>1. renewed[p][k] \in Int
      BY <2>0 DEF Time, Never
    <3>2. renewed'[p][k] <= now'
      BY <1>0, <2>0, <2>3, <3>1
    <3>3. ASSUME k \in RunningOn(p)' PROVE k \in RunningOn(p)
      <4>1. ~(\E c \in calls : c.p = p /\ c.k = k /\ Begin(c) /\ k \notin RunningOn(p))
        BY <2>3 DEF Begin
      <4> QED
        BY <3>3, <4>1, RunMoves
    <3>4. ASSUME k \in RunningOn(p)', renewed'[p][k] # Never
          PROVE  now' - renewed'[p][k] <= RenewEvery
      <4>1. CASE now' = now
        BY <2>0, <2>3, <3>3, <3>4, <4>1
      <4>2. CASE Tick
        <5>1. ~(now - renewed[p][k] >= RenewEvery) /\ now' = now + 1
          BY <3>3, <3>4, <4>2 DEF Tick, RenewalDue
        <5> QED
          BY <1>0, <2>3, <3>1, <5>1
      <4> QED
        BY <4>1, <4>2, RowMoves
    <3> QED
      BY <3>2, <3>4
  <2> QED
    BY <2>1, <2>2, <2>3, RenewalsMove
<1> QED
  BY <1>1, <1>2 DEF OnTime

(* A lease is not older than the call about to begin.                      *)
LEMMA JustSavedStep ==
  ASSUME TypeOK, JustSaved, [Next]_vars
  PROVE  JustSaved'
<1> SUFFICES ASSUME NEW d \in calls', d.at = "begin", row'[d.k].owner = d.p
             PROVE  row'[d.k].until = now' + Ttl
  BY DEF JustSaved
<1>0. d.k \in Key /\ d.p \in Proc /\ d.p # NoProc
  BY TypesStep, BulkAssumption DEF TypeOK, Call
<1>1. CASE d \in calls
  <2>1. now' = now
    BY <1>1, RowMoves DEF Tick
  <2>2. row'[d.k] = row[d.k] \/ row'[d.k].until = now + Ttl \/ row'[d.k].owner = NoProc
    BY <1>0, RowMoves
  <2> QED
    BY <1>0, <1>1, <2>1, <2>2 DEF JustSaved
<1>2. CASE d \notin calls
  <2>1. ASSUME NEW c \in calls, CallStep(c)
        PROVE  row'[d.k].until = now' + Ttl
    <3>1. d.k = c.k /\ d.p = c.p /\ Save(c) /\ now' = now
      BY <1>2, <2>1, CallMoves
    <3> QED
      BY <1>0, <3>1 DEF Save, Saved, TypeOK
  <2>2. ASSUME NEW q \in Proc, NEW j \in Key, NEW s,
               Request(q, j) \/ ResumeNext(q, j) \/ Emit(q, j) \/ Finish(q, j, s)
        PROVE  FALSE
    BY <1>2, <2>2 DEF Request, ResumeNext, Emit, Finish
  <2>3. ASSUME NEW q \in Proc, Boot(q) \/ Claim(q) \/ ClaimFails(q) \/ Crash(q)
        PROVE  FALSE
    BY <1>2, <2>3 DEF Boot, Claim, ClaimFails, Crash
  <2>4. ASSUME NEW w \in pending, Apply(w) \/ Lose(w) PROVE FALSE
    BY <1>2, <2>4 DEF Apply, Lose, procVars
  <2>5. ASSUME UNCHANGED vars \/ Tick PROVE FALSE
    BY <1>2, <2>5 DEF vars, Tick, procVars
  <2> QED
    BY <2>1, <2>2, <2>3, <2>4, <2>5 DEF Next
<1> QED
  BY <1>1, <1>2

(* Forgetting when the last renewal was asked for changes nothing.         *)
LEMMA KeptWhenForgotten ==
  ASSUME NEW W, NEW r, NEW b, NEW n, NEW l, LeaseKept(W, r, b, n, l)
  PROVE  LeaseKept(W, Never, b, n, l)
BY DEF LeaseKept

(* What a step does to the renewals of a job that goes on, if it does not  *)
(* touch its row: nothing, ask for one, lose one, or let time pass; and it *)
(* may count another failure.                                              *)
LEMMA JobMoves ==
  ASSUME TypeOK, LiveOnly, [Next]_vars, NEW p \in Proc, NEW k \in Key, Holds(p, k), row'[k] = row[k],
         row[k].until # now + Ttl
  PROVE  \/ /\ now' = now /\ lost' \in {lost, lost + 1} /\ Waiting(p, k)' = Waiting(p, k)
            /\ renewed'[p][k] \in {renewed[p][k], Never}
         \/ /\ now' = now /\ lost' = lost /\ Waiting(p, k)' = Waiting(p, k) \cup {now} /\ renewed'[p][k] = now
         \/ /\ now' = now /\ lost' = lost + 1 /\ renewed'[p][k] = renewed[p][k]
            /\ \E f \in Waiting(p, k) : Waiting(p, k)' = Waiting(p, k) \ {f}
         \/ /\ now' = now + 1 /\ lost' = lost /\ Waiting(p, k)' = Waiting(p, k)
            /\ renewed'[p][k] = renewed[p][k] /\ ~RenewalDue(p, k)
<1> DEFINE Same == /\ now' = now /\ lost' \in {lost, lost + 1} /\ Waiting(p, k)' = Waiting(p, k)
                   /\ renewed'[p][k] \in {renewed[p][k], Never}
           Asks == /\ now' = now /\ lost' = lost /\ Waiting(p, k)' = Waiting(p, k) \cup {now} /\ renewed'[p][k] = now
           Fails == /\ now' = now /\ lost' = lost + 1 /\ renewed'[p][k] = renewed[p][k]
                    /\ \E f \in Waiting(p, k) : Waiting(p, k)' = Waiting(p, k) \ {f}
           Waits == /\ now' = now + 1 /\ lost' = lost /\ Waiting(p, k)' = Waiting(p, k)
                    /\ renewed'[p][k] = renewed[p][k] /\ ~RenewalDue(p, k)
<1>0. /\ now \in Time /\ renewed \in [Proc -> [Key -> Time \cup {Never}]] /\ calls \subseteq Call
      /\ row \in [Key -> RowRecord] /\ row[k].owner = p /\ k \in RunningOn(p) /\ Alive(p)
  BY DEF TypeOK, Holds, LiveOnly, RowRecord
<1>1. ASSUME \A t \in Time : Asked(p, k, t) \in pending' <=> Asked(p, k, t) \in pending
      PROVE  Waiting(p, k)' = Waiting(p, k)
  BY <1>1 DEF Waiting
<1>2. ASSUME pending' = pending, now' = now, lost' \in {lost, lost + 1}, renewed'[p][k] \in {renewed[p][k], Never}
      PROVE  Same
  BY <1>1, <1>2
<1>3. ASSUME NEW q \in Proc, NEW j \in Key, Progress(q, j), now' = now, lost' = lost
      PROVE  Same \/ Asks
  <2>1. \A t \in Time : Asked(p, k, t) \in pending' <=>
                          Asked(p, k, t) \in pending \/ (p = q /\ k = j /\ t = now /\ RenewalDue(q, j))
    BY <1>3, ProgressMoves
  <2>2. renewed'[p][k] = IF p = q /\ k = j /\ RenewalDue(q, j) THEN now ELSE renewed[p][k]
    BY <1>3, ProgressMoves
  <2>3. CASE p = q /\ k = j /\ RenewalDue(q, j)
    <3>1. Waiting(p, k)' = Waiting(p, k) \cup {now}
      BY <1>0, <2>1, <2>3 DEF Waiting
    <3> QED
      BY <1>3, <2>2, <2>3, <3>1
  <2>4. CASE ~(p = q /\ k = j /\ RenewalDue(q, j))
    <3>1. Waiting(p, k)' = Waiting(p, k)
      BY <1>1, <2>1, <2>4
    <3> QED
      BY <1>3, <2>2, <2>4, <3>1
  <2> QED
    BY <2>3, <2>4
<1>4. ASSUME NEW w \in pending, Apply(w)
      PROVE  Same
  <2>1. pending' = pending \ {w} /\ now' = now /\ lost' = lost /\ renewed' = renewed
    BY <1>4 DEF Apply, procVars
  <2>2. ASSUME NEW t \in Time, w = Asked(p, k, t) PROVE FALSE
    <3>1. w.op = "renew" /\ w.p = p /\ w.k = k
      BY <2>2, AskedApart
    <3>2. row'[k] = Renewed(row[k], p)
      BY <1>0, <1>4, <3>1 DEF Apply
    <3>3. row'[k].until = now + Ttl
      BY <1>0, <3>2 DEF Renewed, RowRecord
    <3> QED
      BY <3>3
  <2>3. \A t \in Time : Asked(p, k, t) \in pending' <=> Asked(p, k, t) \in pending
    BY <2>1, <2>2
  <2> QED
    BY <1>1, <2>1, <2>3
<1>5. ASSUME NEW w \in pending, Lose(w)
      PROVE  Same \/ Fails
  <2>1. pending' = pending \ {w} /\ now' = now /\ lost' \in {lost, lost + 1} /\ renewed' = renewed
        /\ (Alive(w.p) => lost' = lost + 1)
    BY <1>5 DEF Lose, procVars
  <2>2. CASE \E t \in Time : w = Asked(p, k, t)
    <3>1. PICK f \in Time : w = Asked(p, k, f)
      BY <2>2
    <3>2. f \in Waiting(p, k) /\ w.p = p
      BY <3>1, AskedApart DEF Waiting
    <3>3. \A t \in Time : Asked(p, k, t) = w <=> t = f
      BY <3>1, AskedApart
    <3>4. Waiting(p, k)' = Waiting(p, k) \ {f}
      BY <2>1, <3>3 DEF Waiting
    <3> QED
      BY <1>0, <2>1, <3>2, <3>4
  <2>3. CASE ~(\E t \in Time : w = Asked(p, k, t))
    <3>1. \A t \in Time : Asked(p, k, t) \in pending' <=> Asked(p, k, t) \in pending
      BY <2>1, <2>3
    <3> QED
      BY <1>1, <2>1, <3>1
  <2> QED
    BY <2>2, <2>3
<1>6. ASSUME Tick
      PROVE  Waits
  <2>1. pending' = pending /\ now' = now + 1 /\ lost' = lost /\ renewed' = renewed /\ ~RenewalDue(p, k)
    BY <1>0, <1>6 DEF Tick, procVars
  <2> QED
    BY <1>1, <2>1
<1>7. ASSUME NEW q \in Proc, NEW j \in Key, Emit(q, j)
      PROVE  Same \/ Asks
  BY <1>3, <1>7 DEF Emit
<1>8. ASSUME NEW q \in Proc, NEW j \in Key, NEW s, Finish(q, j, s)
      PROVE  Same
  <2>1. renewed' = [renewed EXCEPT ![q] = [renewed[q] EXCEPT ![j] = Never]] /\ now' = now /\ lost' = lost
    BY <1>8 DEF Finish
  <2>2. renewed'[p][k] \in {renewed[p][k], Never}
    BY <1>0, <2>1
  <2>3. /\ pending \subseteq pending'
        /\ \A w \in pending' : \/ w \in pending \/ w = Persist(q, j, s)
                               \/ w = [p |-> q, k |-> j, op |-> "done", since |-> now]
                               \/ w = [p |-> q, k |-> j, op |-> "complete"]
    BY <1>8 DEF Finish
  <2>4. \A t \in Time : Asked(p, k, t) \in pending' <=> Asked(p, k, t) \in pending
    <3>1. \A t \in Time : Asked(p, k, t).op = "renew"
      BY DEF Asked
    <3>2. /\ Persist(q, j, s).op = "persist" /\ [p |-> q, k |-> j, op |-> "done", since |-> now].op = "done"
          /\ [p |-> q, k |-> j, op |-> "complete"].op = "complete"
      BY DEF Persist
    <3> QED
      BY <2>3, <3>1, <3>2
  <2> QED
    BY <1>1, <2>1, <2>2, <2>4
<1>9. ASSUME NEW q \in Proc, Crash(q)
      PROVE  Same
  <2>1. renewed'[p][k] \in {renewed[p][k], Never}
    BY <1>0, <1>9 DEF Crash
  <2> QED
    BY <1>2, <1>9, <2>1 DEF Crash
<1>10. ASSUME NEW c \in calls, CallStep(c)
       PROVE  Same \/ Asks
  <2>0. c.p \in Proc /\ c.k \in Key
    BY <1>0 DEF Call
  <2>1. CASE Retire(c)
    <3>1. /\ renewed' = [renewed EXCEPT ![c.p] = [renewed[c.p] EXCEPT ![c.k] = Never]]
          /\ pending' = pending /\ now' = now /\ lost' \in {lost, lost + 1}
      BY <2>1 DEF Retire
    <3>2. renewed'[p][k] \in {renewed[p][k], Never}
      BY <1>0, <2>0, <3>1
    <3> QED
      BY <1>2, <3>1, <3>2
  <2>2. CASE Begin(c)
    <3>1. now' = now /\ lost' = lost /\ ((pending' = pending /\ renewed' = renewed) \/ Progress(c.p, c.k))
      BY <2>2 DEF Begin
    <3> QED
      BY <1>2, <1>3, <2>0, <3>1
  <2>3. CASE Prepared(c) \/ NotPrepared(c) \/ Save(c) \/ Throw(c) \/ TooMany(c) \/ Report(c)
    <3>1. pending' = pending /\ renewed' = renewed /\ now' = now /\ lost' \in {lost, lost + 1}
      BY <2>3 DEF Prepared, NotPrepared, Save, Throw, TooMany, Report
    <3> QED
      BY <1>2, <3>1
  <2> QED
    BY <1>10, <2>1, <2>2, <2>3 DEF CallStep
<1>11. ASSUME NEW q \in Proc, NEW j \in Key, Request(q, j) \/ ResumeNext(q, j)
       PROVE  Same
  <2>1. pending' = pending /\ renewed' = renewed /\ now' = now /\ lost' = lost
    BY <1>11 DEF Request, ResumeNext
  <2> QED
    BY <1>2, <2>1
<1>12. ASSUME NEW q \in Proc, Boot(q) \/ Claim(q) \/ ClaimFails(q)
       PROVE  Same
  <2>1. pending' = pending /\ renewed' = renewed /\ now' = now /\ lost' \in {lost, lost + 1}
    BY <1>12 DEF Boot, Claim, ClaimFails
  <2> QED
    BY <1>2, <2>1
<1>13. ASSUME UNCHANGED vars
       PROVE  Same
  <2>1. pending' = pending /\ renewed' = renewed /\ now' = now /\ lost' = lost
    BY <1>13 DEF vars, procVars
  <2> QED
    BY <1>2, <2>1
<1> HIDE DEF Same, Asks, Fails, Waits
<1>14. Same \/ Asks \/ Fails \/ Waits
  BY <1>4, <1>5, <1>6, <1>7, <1>8, <1>9, <1>10, <1>11, <1>12, <1>13 DEF Next
<1> QED
  BY <1>14 DEF Same, Asks, Fails, Waits

(* The lease of a job that goes on is kept.                                *)
LEMMA LeasesStep ==
  ASSUME BulkIInv, [Next]_vars
  PROVE  Leases'
<1> SUFFICES ASSUME NEW p \in Proc, NEW k \in Key, Holds(p, k)'
             PROVE  LeaseKept(Waiting(p, k)', renewed'[p][k], row'[k].until - Ttl, now', lost')
  BY DEF Leases
<1>0. TypeOK /\ LiveOnly /\ OnTime /\ JustSaved /\ Leases /\ TypeOK' /\ OnTime'
  BY TypesStep, OnTimeStep DEF BulkIInv
<1>1. /\ Waiting(p, k) \in SUBSET Time /\ Waiting(p, k)' \in SUBSET Time
      /\ renewed[p][k] \in Time \cup {Never} /\ renewed'[p][k] \in Time \cup {Never}
      /\ now \in Time /\ now' \in Time /\ lost \in Nat /\ lost' \in Nat /\ Ttl \in Nat
      /\ row \in [Key -> RowRecord] /\ row[k].until \in Nat
  BY <1>0, BulkAssumption DEF TypeOK, Waiting, RowRecord
<1>2. renewed'[p][k] <= now' /\ \A t \in Waiting(p, k)' : t <= now'
  <2>1. \A t \in Waiting(p, k)' : t <= now'
    BY <1>0, AskedApart DEF Waiting, OnTime
  <2> QED
    BY <1>0, <2>1 DEF OnTime
<1>3. \A t \in Waiting(p, k) : t <= now
  BY <1>0, AskedApart DEF Waiting, OnTime
<1>4. CASE row'[k].until = now' + Ttl
  <2>1. row'[k].until - Ttl = now'
    BY <1>1, <1>4 DEF Time
  <2>2. LeaseKept(Waiting(p, k)', renewed'[p][k], now', now', lost')
    BY <1>1, <1>2, KeptWhenSet
  <2> QED
    BY <2>1, <2>2
<1>5. CASE row'[k].until # now' + Ttl
  <2>1. row'[k].owner = p /\ p # NoProc /\ k \in RunningOn(p)'
    BY BulkAssumption DEF Holds
  <2>2. row'[k] = row[k]
    BY <1>0, <1>5, <2>1, RowMoves
  <2>3. now' = now => row[k].until # now + Ttl
    BY <1>5, <2>2
  <2>4. k \in RunningOn(p)
    <3>1. ASSUME NEW c \in calls, c.p = p, c.k = k, Begin(c) PROVE FALSE
      <4>1. c.at = "begin" /\ now' = now
        BY <3>1 DEF Begin
      <4>2. row[k].until = now + Ttl
        BY <1>0, <2>1, <2>2, <3>1, <4>1 DEF JustSaved
      <4> QED
        BY <2>3, <4>1, <4>2
    <3> QED
      BY <1>0, <2>1, <3>1, RunMoves
  <2>5. Holds(p, k) /\ LeaseKept(Waiting(p, k), renewed[p][k], row[k].until - Ttl, now, lost)
    BY <1>0, <2>1, <2>2, <2>4 DEF Holds, Leases
  <2>6. PICK b \in Int : b = row[k].until - Ttl /\ b = row'[k].until - Ttl
    BY <1>1, <2>2
  <2>7. LeaseKept(Waiting(p, k), renewed[p][k], b, now, lost)
    BY <2>5, <2>6
  <2>8. CASE Tick
    <3>1. /\ now' = now + 1 /\ lost' = lost /\ Waiting(p, k)' = Waiting(p, k) /\ renewed' = renewed
          /\ ~RenewalDue(p, k)
      BY <2>4, <2>8 DEF Tick, procVars, Waiting
    <3>2. renewed[p][k] \in Time /\ renewed[p][k] # Never /\ now - renewed[p][k] < RenewEvery
      BY <1>1, <3>1, BulkAssumption DEF RenewalDue, Time
    <3>3. LeaseKept(Waiting(p, k), renewed[p][k], b, now + 1, lost)
      BY <1>1, <2>7, <3>2, KeptWhenTimePasses
    <3> QED
      BY <2>6, <3>1, <3>3
  <2>9. CASE now' = now
    <3>0. row[k].until # now + Ttl
      BY <2>3, <2>9
    <3>1. CASE now' = now /\ lost' \in {lost, lost + 1} /\ Waiting(p, k)' = Waiting(p, k)
               /\ renewed'[p][k] \in {renewed[p][k], Never}
      <4>1. LeaseKept(Waiting(p, k), renewed[p][k], b, now, lost')
        BY <1>1, <2>7, <3>1, KeptWhenOthersFail
      <4>2. LeaseKept(Waiting(p, k), Never, b, now, lost')
        BY <4>1, KeptWhenForgotten
      <4> QED
        BY <2>6, <3>1, <4>1, <4>2
    <3>2. CASE now' = now /\ lost' = lost /\ Waiting(p, k)' = Waiting(p, k) \cup {now} /\ renewed'[p][k] = now
      <4>1. LeaseKept(Waiting(p, k) \cup {now}, now, b, now, lost)
        BY <1>1, <1>3, <2>7, KeptWhenAsked
      <4> QED
        BY <2>6, <3>2, <4>1
    <3>3. CASE /\ now' = now /\ lost' = lost + 1 /\ renewed'[p][k] = renewed[p][k]
               /\ \E f \in Waiting(p, k) : Waiting(p, k)' = Waiting(p, k) \ {f}
      <4>1. PICK f \in Waiting(p, k) : Waiting(p, k)' = Waiting(p, k) \ {f}
        BY <3>3
      <4>2. LeaseKept(Waiting(p, k) \ {f}, renewed[p][k], b, now, lost + 1)
        BY <1>1, <2>7, KeptWhenFailed
      <4> QED
        BY <2>6, <3>3, <4>1, <4>2
    <3>4. now' # now + 1
      BY <1>1, <2>9 DEF Time
    <3> QED
      BY <1>0, <2>2, <2>5, <3>0, <3>1, <3>2, <3>3, <3>4, JobMoves
  <2> QED
    BY <1>0, <2>8, <2>9, RowMoves
<1> QED
  BY <1>4, <1>5

LEMMA BulkInitially == Init => BulkIInv
<1> SUFFICES ASSUME Init PROVE BulkIInv
  OBVIOUS
<1>1. TypeOK
  BY TypesInitially
<1>2. \A p \in Proc : RunningOn(p) = {}
  BY DEF Init, RunningOn
<1>3. LiveOnly /\ JustSaved
  BY <1>2 DEF Init, LiveOnly, JustSaved
<1>4. OnTime
  BY <1>2 DEF Init, OnTime, Never
<1>5. Leases
  BY <1>2 DEF Leases, Holds
<1> QED
  BY <1>1, <1>3, <1>4, <1>5 DEF BulkIInv

(* The inductive invariant of the lease: of what a running job has asked   *)
(* for, what was lost and what is on its way                               *)
(* (bulkTransferService.ts:62-131).                                        *)
THEOREM BulkInvariance == Spec => []BulkIInv
<1>1. ASSUME BulkIInv, [Next]_vars PROVE BulkIInv'
  <2>1. TypeOK /\ LiveOnly /\ OnTime /\ JustSaved
    BY <1>1 DEF BulkIInv
  <2>2. TypeOK' /\ LiveOnly' /\ OnTime' /\ JustSaved' /\ Leases'
    BY <1>1, <2>1, TypesStep, LiveStep, OnTimeStep, JustSavedStep, LeasesStep
  <2> QED
    BY <2>2 DEF BulkIInv
<1> QED
  BY <1>1, BulkInitially, PTL DEF Spec

(* A lease that outlasts the renewals that may fail is never taken from a  *)
(* live process that runs the transfer, for any number of processes and    *)
(* transfers (bulkTransferService.ts:62-131, 167-184).                     *)
THEOREM OwnersKeepTheirs == LeaseOutlasts => (Spec => OwnerNotRobbed)
<1> SUFFICES ASSUME LeaseOutlasts PROVE Spec => OwnerNotRobbed
  OBVIOUS
<1>1. ASSUME BulkIInv, [Next]_vars
      PROVE  [\A p, q \in Proc, k \in Key :
                (Claim(p) /\ row[k].owner = q /\ k \in RunningOn(q)) => row'[k] = row[k]]_vars
  <2> SUFFICES ASSUME NEW p \in Proc, NEW q \in Proc, NEW k \in Key, Claim(p), row[k].owner = q, k \in RunningOn(q)
               PROVE  row'[k] = row[k]
    OBVIOUS
  <2>0. TypeOK /\ OnTime /\ Leases
    BY <1>1 DEF BulkIInv
  <2>1. LeaseKept(Waiting(q, k), renewed[q][k], row[k].until - Ttl, now, lost)
    BY <2>0 DEF Leases, Holds
  <2>2. /\ Waiting(q, k) \in SUBSET Time /\ now \in Time /\ lost \in 0..MaxLost /\ Ttl \in Nat
        /\ row[k].until \in Nat
    BY <2>0, BulkAssumption DEF TypeOK, Waiting
  <2>3. \A t \in Waiting(q, k) : t <= now /\ now - t <= MaxDelay
    BY <2>0, AskedApart DEF Waiting, OnTime
  <2>4. PICK b \in Int : b = row[k].until - Ttl
    BY <2>2
  <2>5. now <= b + Ttl
    BY <2>1, <2>2, <2>3, <2>4, KeptIsValid
  <2>6. now <= row[k].until
    BY <2>2, <2>4, <2>5 DEF Time
  <2>7. ~Claimable(k)
    BY <2>2, <2>6, BulkAssumption DEF Claimable, Time
  <2> QED
    BY <2>7 DEF Claim
<1> QED
  BY <1>1, BulkInvariance, PTL DEF Spec, OwnerNotRobbed

----------------------------------------------------------------------------
(***************************************************************************)
(* The release                                                             *)
(***************************************************************************)

(* A row comes to be held and running only by a save or a claim.           *)
LEMMA OwnerMoves ==
  ASSUME TypeOK, [Next]_vars, NEW p \in Proc, NEW k \in Key, row'[k].owner = p
  PROVE  \/ row[k].owner = p /\ (row'[k].status = "RUNNING" => row[k].status = "RUNNING")
         \/ \E c \in calls : c.p = p /\ c.k = k /\ Save(c)
         \/ Claim(p) /\ Claimable(k)
<1>0. row \in [Key -> RowRecord] /\ calls \subseteq Call /\ p # NoProc
  BY BulkAssumption DEF TypeOK, RowRecord
<1>1. CASE row' = row
  BY <1>1
<1>2. ASSUME NEW q \in Proc, Claim(q)
      PROVE  (row'[k] = row[k]) \/ (q = p /\ Claimable(k))
  <2>1. row'[k] = IF Claimable(k) THEN [row[k] EXCEPT !.owner = q, !.until = now + Ttl] ELSE row[k]
    BY <1>2 DEF Claim
  <2>2. Claimable(k) => row'[k].owner = q
    BY <1>0, <2>1 DEF RowRecord
  <2> QED
    BY <2>1, <2>2
<1>3. ASSUME NEW c \in calls, CallStep(c)
      PROVE  (row'[k] = row[k]) \/ (c.p = p /\ c.k = k /\ Save(c))
  <2>0. c.p \in Proc /\ c.k \in Key
    BY <1>0 DEF Call
  <2>1. CASE Save(c)
    <3>1. row'[k] = IF k = c.k THEN Saved(c.p) ELSE row[k]
      BY <1>0, <2>0, <2>1 DEF Save
    <3> QED
      BY <2>1, <3>1 DEF Saved
  <2>2. CASE Retire(c)
    <3>1. row' = row \/ row' = [row EXCEPT ![c.k] = Done(row[c.k])]
      BY <2>2 DEF Retire
    <3>2. Done(row[k]) = row[k] \/ Done(row[k]).owner = NoProc
      BY DEF Done
    <3> QED
      BY <1>0, <2>0, <3>1, <3>2
  <2>3. CASE Prepared(c) \/ NotPrepared(c) \/ Throw(c) \/ TooMany(c) \/ Report(c) \/ Begin(c)
    BY <2>3 DEF Prepared, NotPrepared, Throw, TooMany, Report, Begin, dbVars
  <2> QED
    BY <1>3, <2>1, <2>2, <2>3 DEF CallStep
<1>4. ASSUME NEW w \in pending, Apply(w)
      PROVE  row[k].owner = p /\ row'[k].status = row[k].status
  <2>0. w.p \in Proc /\ w.k \in Key
    BY DEF TypeOK, Write
  <2>1. \/ row'[k] = row[k] \/ row'[k] = Renewed(row[k], w.p) \/ row'[k] = Done(row[k])
    BY <1>0, <1>4, <2>0 DEF Apply
  <2>2. Done(row[k]) = row[k] \/ Done(row[k]).owner = NoProc
    BY DEF Done
  <2>3. Renewed(row[k], w.p).owner = row[k].owner /\ Renewed(row[k], w.p).status = row[k].status
    BY <1>0 DEF Renewed, RowRecord
  <2> QED
    BY <1>0, <2>1, <2>2, <2>3
<1>5. ASSUME NEW q \in Proc, NEW j \in Key, NEW s,
             Request(q, j) \/ Emit(q, j) \/ ResumeNext(q, j) \/ Finish(q, j, s)
      PROVE  row' = row
  BY <1>5 DEF Request, Emit, ResumeNext, Finish, dbVars
<1>6. ASSUME NEW q \in Proc, Boot(q) \/ ClaimFails(q) \/ Crash(q)
      PROVE  row' = row
  BY <1>6 DEF Boot, ClaimFails, Crash, dbVars
<1>7. ASSUME NEW w \in pending, Lose(w) PROVE row' = row
  BY <1>7 DEF Lose, dbVars
<1>8. ASSUME UNCHANGED vars \/ Tick PROVE row' = row
  BY <1>8 DEF vars, Tick, dbVars
<1> QED
  BY <1>1, <1>2, <1>3, <1>4, <1>5, <1>6, <1>7, <1>8 DEF Next

(* Who holds a lease has booted.                                           *)
LEMMA BootedStep ==
  ASSUME TypeOK, LiveOnly, OwnersBooted, [Next]_vars
  PROVE  OwnersBooted'
<1> SUFFICES ASSUME NEW k \in Key, NEW p \in Proc, row'[k].owner = p
             PROVE  up'[p] # "new"
  BY DEF OwnersBooted
<1>0. up \in [Proc -> {"new", "claiming", "up", "dead"}]
  BY DEF TypeOK
<1>1. up[p] # "new"
  <2>1. ASSUME NEW c \in calls, c.p = p PROVE up[p] # "new"
    BY <2>1 DEF LiveOnly, Alive
  <2>2. ASSUME Claim(p) PROVE up[p] # "new"
    BY <2>2 DEF Claim
  <2> QED
    BY <2>1, <2>2, OwnerMoves DEF OwnersBooted
<1>2. ASSUME NEW q \in Proc, Boot(q) \/ Claim(q) \/ ClaimFails(q) \/ Crash(q) PROVE up'[p] # "new"
  BY <1>0, <1>1, <1>2 DEF Boot, Claim, ClaimFails, Crash
<1>3. ASSUME NEW q \in Proc, NEW j \in Key, NEW s, Request(q, j) \/ Emit(q, j) \/ ResumeNext(q, j) \/ Finish(q, j, s)
      PROVE  up' = up
  BY <1>3 DEF Request, Emit, ResumeNext, Finish
<1>4. ASSUME NEW c \in calls, CallStep(c) PROVE up' = up
  BY <1>4, CallMoves
<1>5. ASSUME NEW w \in pending, Apply(w) \/ Lose(w) PROVE up' = up
  BY <1>5 DEF Apply, Lose, procVars
<1>6. ASSUME UNCHANGED vars \/ Tick PROVE up' = up
  BY <1>6 DEF vars, Tick, procVars
<1> QED
  BY <1>1, <1>2, <1>3, <1>4, <1>5, <1>6 DEF Next

(* A call that has a transfer in hand goes on, starts it, or releases it.  *)
LEMMA CallKeepsHand ==
  ASSUME TypeOK, SlotForRequests, lost' = lost, NEW d \in calls, CallStep(d),
         NEW c \in calls, c.by = "resume" \/ c.at = "begin", row'[c.k].status = "RUNNING"
  PROVE  InOwnHand(c.p, c.k)'
<1>0. c.p \in Proc /\ c.k \in Key /\ c \in Call /\ c.by \in {"route", "resume"} /\ d.p \in Proc /\ d.k \in Key
      /\ run \in [Proc -> [Key -> Outcome]] /\ row \in [Key -> RowRecord] /\ lost \in Nat
  BY BulkAssumption DEF TypeOK, Call, RowRecord
<1>1. \A a \in {"prepare", "save", "begin", "report", "retire"} :
        /\ [c EXCEPT !.at = a].p = c.p /\ [c EXCEPT !.at = a].k = c.k
        /\ [c EXCEPT !.at = a].by = c.by /\ [c EXCEPT !.at = a].at = a
  BY <1>0 DEF Call
<1>2. CASE c \in calls'
  BY <1>2 DEF InOwnHand
<1>3. CASE c \notin calls'
  <2>1. d = c
    BY <1>3 DEF CallStep, Prepared, NotPrepared, Save, Throw, Begin, TooMany, Report, Retire, Refuse, Move, End
  <2>2. ASSUME NEW a \in {"save", "begin", "report", "retire"}, [c EXCEPT !.at = a] \in calls',
               c.by = "resume" \/ a = "begin"
        PROVE  InOwnHand(c.p, c.k)'
    BY <1>1, <2>2 DEF InOwnHand
  <2>3. CASE Prepared(c)
    BY <2>2, <2>3 DEF Prepared, Move
  <2>4. CASE NotPrepared(c)
    BY <1>0, <2>2, <2>4 DEF NotPrepared, Refuse, Move
  <2>5. CASE Save(c)
    BY <2>2, <2>5 DEF Save, Move
  <2>6. CASE Throw(c)
    BY <1>0, <2>6 DEF Throw
  <2>7. CASE Begin(c)
    <3>1. CASE c.k \in RunningOn(c.p) /\ run' = run
      BY <3>1 DEF InOwnHand, RunningOn
    <3>2. CASE run' = [run EXCEPT ![c.p][c.k] = "RUNNING"]
      <4>1. run' = [run EXCEPT ![c.p] = [run[c.p] EXCEPT ![c.k] = "RUNNING"]]
        BY <3>2
      <4>2. run'[c.p] = [run[c.p] EXCEPT ![c.k] = "RUNNING"] /\ run[c.p] \in [Key -> Outcome]
        BY <1>0, <4>1
      <4>3. run'[c.p][c.k] = "RUNNING"
        BY <1>0, <4>2
      <4> QED
        BY <1>0, <4>3 DEF InOwnHand, RunningOn
    <3> QED
      BY <2>7, <3>1, <3>2 DEF Begin
  <2>8. CASE TooMany(c)
    <3>1. c.by = "resume"
      BY <1>0, <2>8 DEF TooMany, SlotForRequests
    <3> QED
      BY <2>2, <2>8, <3>1 DEF TooMany, Refuse, Move
  <2>9. CASE Report(c)
    <3>1. c.by = "resume"
      BY <2>9 DEF Report
    <3> QED
      BY <2>2, <2>9, <3>1 DEF Report, Move
  <2>10. CASE Retire(c)
    <3>1. row' = [row EXCEPT ![c.k] = Done(row[c.k])]
      BY <1>0, <2>10 DEF Retire
    <3>2. row'[c.k].status # "RUNNING"
      BY <1>0, <3>1 DEF Done
    <3> QED
      BY <3>2
  <2> QED
    BY <2>1, <2>3, <2>4, <2>5, <2>6, <2>7, <2>8, <2>9, <2>10 DEF CallStep
<1> QED
  BY <1>2, <1>3

(* Nobody lets go of what he holds, if no write fails.                     *)
LEMMA HandleStep ==
  ASSUME ReleaseIInv, lost' = lost, SlotForRequests, [Next]_vars
  PROVE  OwnersHandle'
<1> SUFFICES ASSUME NEW k \in Key, NEW p \in Proc, row'[k].status = "RUNNING", row'[k].owner = p, Alive(p)'
             PROVE  InOwnHand(p, k)'
  BY DEF OwnersHandle
<1>0. /\ TypeOK /\ LiveOnly /\ OwnersBooted /\ OwnersHandle /\ TypeOK'
      /\ up \in [Proc -> {"new", "claiming", "up", "dead"}] /\ todo \in [Proc -> SUBSET Key] /\ calls \subseteq Call
      /\ run \in [Proc -> [Key -> Outcome]] /\ row \in [Key -> RowRecord] /\ lost \in Nat
  BY TypesStep, BulkAssumption DEF ReleaseIInv, TypeOK, RowRecord
<1>1. ASSUME NEW c \in calls, c.p = p, c.k = k, Save(c) PROVE InOwnHand(p, k)'
  <2>1. /\ [c EXCEPT !.at = "begin"].p = p /\ [c EXCEPT !.at = "begin"].k = k
        /\ [c EXCEPT !.at = "begin"].at = "begin"
    BY <1>0, <1>1 DEF Call
  <2> QED
    BY <1>1, <2>1 DEF Save, Move, InOwnHand
<1>2. ASSUME Claim(p), Claimable(k) PROVE InOwnHand(p, k)'
  BY <1>0, <1>2 DEF Claim, InOwnHand
<1>3. CASE row[k].owner = p /\ row[k].status = "RUNNING"
  <2>0. ~Crash(p)
    BY <1>0 DEF Crash, Alive
  <2>1. Alive(p)
    <3>1. up[p] # "new"
      BY <1>0, <1>3 DEF OwnersBooted
    <3>2. CASE up' = up
      BY <3>2 DEF Alive
    <3>3. ASSUME NEW q \in Proc, Boot(q) \/ Claim(q) \/ ClaimFails(q) \/ Crash(q) PROVE Alive(p)
      BY <1>0, <3>1, <3>3 DEF Boot, Claim, ClaimFails, Crash, Alive
    <3>4. ASSUME NEW q \in Proc, NEW j \in Key, NEW s, Request(q, j) \/ Emit(q, j) \/ ResumeNext(q, j) \/ Finish(q, j, s)
          PROVE  up' = up
      BY <3>4 DEF Request, Emit, ResumeNext, Finish
    <3>5. ASSUME NEW c \in calls, CallStep(c) PROVE up' = up
      BY <1>0, <3>5, CallMoves
    <3>6. ASSUME NEW w \in pending, Apply(w) \/ Lose(w) PROVE up' = up
      BY <3>6 DEF Apply, Lose, procVars
    <3>7. ASSUME UNCHANGED vars \/ Tick PROVE up' = up
      BY <3>7 DEF vars, Tick, procVars
    <3> QED
      BY <3>2, <3>3, <3>4, <3>5, <3>6, <3>7 DEF Next
  <2>2. InOwnHand(p, k)
    BY <1>0, <1>3, <2>1 DEF OwnersHandle
  <2>3. ASSUME k \in RunningOn(p) => k \in RunningOn(p)', k \in todo[p] => k \in todo'[p],
               \A c \in calls : c.p = p => c \in calls', \A w \in pending : w.op = "done" => w \in pending'
        PROVE  InOwnHand(p, k)'
    BY <2>2, <2>3 DEF InOwnHand
  <2>4. ASSUME NEW c \in calls, CallStep(c) PROVE InOwnHand(p, k)'
    <3>1. CASE \E d \in calls : d.p = p /\ d.k = k /\ (d.by = "resume" \/ d.at = "begin")
      BY <1>0, <2>4, <3>1, CallKeepsHand
    <3>2. CASE k \in RunningOn(p)
      <4>1. k \in RunningOn(p)'
        <5>1. \A q \in Proc, j \in Key : run[q][j] = "RUNNING" => run'[q][j] = "RUNNING"
          <6>1. c.p \in Proc /\ c.k \in Key
            BY <1>0 DEF Call
          <6>2. run' = run \/ run' = [run EXCEPT ![c.p] = [run[c.p] EXCEPT ![c.k] = "RUNNING"]]
            BY <2>4 DEF CallStep, Prepared, NotPrepared, Save, Throw, Begin, TooMany, Report, Retire
          <6> QED
            BY <1>0, <6>1, <6>2
        <5> QED
          BY <3>2, <5>1 DEF RunningOn
      <4> QED
        BY <4>1 DEF InOwnHand
    <3>3. CASE k \in todo[p]
      BY <1>0, <2>4, <3>3, CallMoves DEF InOwnHand
    <3>4. CASE \E w \in pending : w.k = k /\ w.p = p /\ w.op = "done"
      <4>1. pending \subseteq pending'
        BY <2>4 DEF CallStep, Prepared, NotPrepared, Save, Throw, Begin, TooMany, Report, Retire, Progress
      <4> QED
        BY <3>4, <4>1 DEF InOwnHand
    <3> QED
      BY <2>2, <3>1, <3>2, <3>3, <3>4 DEF InOwnHand
  <2>5. ASSUME NEW w \in pending, Apply(w) \/ Lose(w) PROVE InOwnHand(p, k)'
    <3>1. run' = run /\ todo' = todo /\ calls' = calls /\ pending' = pending \ {w}
      BY <2>5 DEF Apply, Lose, procVars
    <3>2. CASE ~(w.k = k /\ w.p = p /\ w.op = "done")
      BY <2>2, <3>1, <3>2 DEF InOwnHand, RunningOn
    <3>3. CASE w.k = k /\ w.p = p /\ w.op = "done"
      <4>1. CASE Apply(w)
        <5>1. row'[k] = Done(row[k])
          BY <1>0, <3>3, <4>1 DEF Apply
        <5> QED
          BY <5>1 DEF Done
      <4>2. CASE Lose(w)
        BY <1>0, <2>1, <3>3, <4>2 DEF Lose
      <4> QED
        BY <2>5, <4>1, <4>2
    <3> QED
      BY <3>2, <3>3
  <2>6. ASSUME NEW q \in Proc, NEW j \in Key, Request(q, j) PROVE InOwnHand(p, k)'
    BY <2>3, <2>6 DEF Request, RunningOn
  <2>7. ASSUME NEW q \in Proc, NEW j \in Key, Emit(q, j) PROVE InOwnHand(p, k)'
    BY <2>3, <2>7 DEF Emit, Progress, RunningOn
  <2>8. ASSUME NEW q \in Proc, NEW j \in Key, ResumeNext(q, j) PROVE InOwnHand(p, k)'
    <3>1. CASE q = p /\ j = k
      <4>1. PICK at \in {"prepare", "report"} : [p |-> p, k |-> k, by |-> "resume", at |-> at] \in calls'
        BY <2>8, <3>1 DEF ResumeNext
      <4> QED
        BY <4>1 DEF InOwnHand
    <3>2. CASE ~(q = p /\ j = k)
      <4>1. k \in todo[p] => k \in todo'[p]
        BY <1>0, <2>8, <3>2 DEF ResumeNext
      <4> QED
        BY <2>3, <2>8, <4>1 DEF ResumeNext, RunningOn
    <3> QED
      BY <3>1, <3>2
  <2>9. ASSUME NEW q \in Proc, NEW j \in Key, NEW s, Finish(q, j, s) PROVE InOwnHand(p, k)'
    <3>1. CASE q = p /\ j = k
      <4>1. [p |-> p, k |-> k, op |-> "done", since |-> now] \in pending'
        BY <2>9, <3>1 DEF Finish
      <4> QED
        BY <4>1 DEF InOwnHand
    <3>2. CASE ~(q = p /\ j = k)
      <4>1. run' = [run EXCEPT ![q] = [run[q] EXCEPT ![j] = s]]
        BY <2>9 DEF Finish
      <4>2. run'[p][k] = run[p][k]
        BY <1>0, <3>2, <4>1
      <4>3. pending \subseteq pending' /\ todo' = todo /\ calls' = calls
        BY <2>9 DEF Finish
      <4> QED
        BY <2>3, <4>2, <4>3 DEF RunningOn
    <3> QED
      BY <3>1, <3>2
  <2>10. ASSUME NEW q \in Proc, Boot(q) \/ ClaimFails(q) PROVE InOwnHand(p, k)'
    BY <2>3, <2>10 DEF Boot, ClaimFails, RunningOn
  <2>11. ASSUME NEW q \in Proc, Claim(q) PROVE InOwnHand(p, k)'
    <3>1. CASE Claimable(k)
      <4>1. row'[k].owner = q
        BY <1>0, <2>11, <3>1 DEF Claim, RowRecord
      <4> QED
        BY <1>2, <2>11, <3>1, <4>1
    <3>2. CASE ~Claimable(k) /\ q # p
      <4>1. todo'[p] = todo[p]
        BY <1>0, <2>11, <3>2 DEF Claim
      <4> QED
        BY <2>3, <2>11, <4>1 DEF Claim, RunningOn
    <3>3. CASE ~Claimable(k) /\ q = p
      <4>1. ASSUME k \in todo[p] PROVE FALSE
        BY <1>0, <2>11, <3>3, <4>1 DEF Claim, LiveOnly
      <4> QED
        BY <2>3, <2>11, <4>1 DEF Claim, RunningOn
    <3> QED
      BY <3>1, <3>2, <3>3
  <2>12. ASSUME NEW q \in Proc, Crash(q) PROVE InOwnHand(p, k)'
    <3>1. q # p
      BY <2>0, <2>12
    <3>2. run'[p] = run[p] /\ todo'[p] = todo[p] /\ pending' = pending
      BY <1>0, <2>12, <3>1 DEF Crash
    <3>3. \A c \in calls : c.p = p => c \in calls'
      BY <2>12, <3>1 DEF Crash
    <3> QED
      BY <2>3, <3>2, <3>3 DEF RunningOn
  <2>13. ASSUME UNCHANGED vars \/ Tick PROVE InOwnHand(p, k)'
    BY <2>3, <2>13 DEF vars, Tick, procVars, RunningOn
  <2> QED
    BY <2>4, <2>5, <2>6, <2>7, <2>8, <2>9, <2>10, <2>11, <2>12, <2>13 DEF Next
<1> QED
  BY <1>0, <1>1, <1>2, <1>3, OwnerMoves

(* As long as no write fails, and no request is turned away for want of a  *)
(* slot after its plan was saved, a live process that holds the lease of a *)
(* transfer runs it, is starting or refusing it, or is releasing it        *)
(* (bulkTransferService.ts:295-336, 388-439).                              *)
THEOREM LeaseHoldersRun == Spec /\ [](lost = 0 /\ SlotForRequests) => []ResumeInv
<1>1. Init => ReleaseIInv
  <2> SUFFICES ASSUME Init PROVE ReleaseIInv
    OBVIOUS
  <2>1. TypeOK /\ LiveOnly
    BY BulkInitially DEF BulkIInv
  <2>2. \A k \in Key : row[k].owner = NoProc /\ row[k].status = "NONE"
    BY DEF Init
  <2>3. OwnersBooted /\ OwnersHandle
    BY <2>2, BulkAssumption DEF OwnersBooted, OwnersHandle
  <2> QED
    BY <2>1, <2>3 DEF ReleaseIInv
<1>2. ASSUME ReleaseIInv, lost = 0 /\ SlotForRequests, (lost = 0 /\ SlotForRequests)', [Next]_vars
      PROVE  ReleaseIInv'
  <2>1. TypeOK /\ LiveOnly /\ OwnersBooted /\ lost' = lost
    BY <1>2 DEF ReleaseIInv
  <2>2. TypeOK' /\ LiveOnly' /\ OwnersBooted' /\ OwnersHandle'
    BY <1>2, <2>1, TypesStep, LiveStep, BootedStep, HandleStep
  <2> QED
    BY <2>2 DEF ReleaseIInv
<1>3. ReleaseIInv => ResumeInv
  BY DEF ReleaseIInv, ResumeInv, OwnersHandle, LeaseHolderRuns, InOwnHand, InHand
<1> QED
  BY <1>1, <1>2, <1>3, PTL DEF Spec

----------------------------------------------------------------------------
(***************************************************************************)
(* What a process does with its jobs is what a worker may do: while it     *)
(* lives, run[p] goes through the abstract life of a worker whose runs     *)
(* have one file. The map of a process that dies is gone, at once.         *)
(***************************************************************************)

(* A job that runs, or that ended otherwise than by completing, has its    *)
(* file still to upload.                                                   *)
LeftOf(jobs) == [k \in Key |-> IF jobs[k] \in {"NONE", "COMPLETED"} THEN 0 ELSE 1]

Life(p) == INSTANCE JobLifecycle
             WITH phase <- run[p], left <- LeftOf(run[p]), MaxFiles <- 1, MaxActiveJobs <- MaxActive

(* The jobs of a live process follow the life cycle a worker promises: one *)
(* run of a transfer at a time, no more runs than slots, and an outcome    *)
(* that only a new run replaces (bulkTransferService.ts:62-131, 295-336).  *)
JobsLiveAsPromised ==
  [][\A p \in Proc : ~Crash(p) => [Life(p)!Next]_(Life(p)!lifecycleVars)]_vars

LEMMA SameCardinality == \A p \in Proc : \A S : Life(p)!Cardinality(S) = Cardinality(S)
BY DEF Life!Cardinality, Cardinality

LEMMA JobsInitially == Init => \A p \in Proc : Life(p)!Init
BY DEF Init, Life!Init, LeftOf

(* Who runs, in the words of the abstract worker.                          *)
LEMMA RunningHere ==
  ASSUME NEW p \in Proc
  PROVE  /\ Life(p)!Running = RunningOn(p)
         /\ SlotFree(p) <=> Cardinality(Life(p)!Running) < MaxActive
BY DEF Life!Running, RunningOn, SlotFree

(* A step that leaves p's map alone is a stutter of its life.              *)
LEMMA MapKept ==
  ASSUME NEW p \in Proc, run'[p] = run[p]
  PROVE  UNCHANGED Life(p)!lifecycleVars
BY DEF Life!lifecycleVars, LeftOf

(* The entry of k moves, and what is left follows it.                      *)
LEMMA LeftMoves ==
  ASSUME NEW jobs \in [Key -> Outcome], NEW k \in Key, NEW s, NEW after, after = [jobs EXCEPT ![k] = s]
  PROVE  LeftOf(after) = [LeftOf(jobs) EXCEPT ![k] = IF s \in {"NONE", "COMPLETED"} THEN 0 ELSE 1]
BY DEF LeftOf

(* Every step of a process that does not crash is one of its abstract life *)
(* or leaves it as it is.                                                  *)
LEMMA JobsStep ==
  ASSUME TypeOK, [Next]_vars, NEW p \in Proc, ~Crash(p)
  PROVE  [Life(p)!Next]_(Life(p)!lifecycleVars)
<1>0. run \in [Proc -> [Key -> Outcome]]
  BY DEF TypeOK
<1>1. CASE run'[p] = run[p]
  BY <1>1, MapKept
<1>2. ASSUME NEW q \in Proc, NEW k \in Key, NEW s \in Terminal, Finish(q, k, s)
      PROVE  [Life(p)!Next]_(Life(p)!lifecycleVars)
  <2>1. k \in RunningOn(q) /\ run' = [run EXCEPT ![q][k] = s] /\ s \in Outcome
    BY <1>2 DEF Finish, Outcome
  <2>2. CASE q # p
    <3>1. run'[p] = run[p]
      BY <1>0, <2>1, <2>2
    <3> QED
      BY <1>1, <3>1
  <2>3. CASE q = p
    <3>1. /\ run'[p] = [run[p] EXCEPT ![k] = s] /\ k \in Life(p)!Running
          /\ LeftOf(run'[p]) = [LeftOf(run[p]) EXCEPT ![k] = IF s \in {"NONE", "COMPLETED"} THEN 0 ELSE 1]
      <4>1. run'[p] = [run[p] EXCEPT ![k] = s] /\ run[p] \in [Key -> Outcome]
        BY <1>0, <2>1, <2>3
      <4>2. LeftOf(run'[p]) = [LeftOf(run[p]) EXCEPT ![k] = IF s \in {"NONE", "COMPLETED"} THEN 0 ELSE 1]
        BY <4>1, LeftMoves
      <4> QED
        BY <2>1, <2>3, <4>1, <4>2, RunningHere
    <3>2. LeftOf(run[p])[k] = 1 /\ LeftOf(run[p]) \in [Key -> {0, 1}]
      BY <2>1, <2>3 DEF LeftOf, RunningOn
    <3>3. CASE s = "COMPLETED"
      <4>1. Life(p)!FileDone(k)
        BY <3>1, <3>2, <3>3 DEF Life!FileDone
      <4> QED
        BY <4>1 DEF Life!Next
    <3>4. CASE s \in {"FAILED", "CANCELED"}
      <4>1. LeftOf(run'[p]) = LeftOf(run[p])
        BY <3>1, <3>2, <3>4
      <4>2. Life(p)!Stop(k)
        BY <3>1, <3>4, <4>1 DEF Life!Stop
      <4> QED
        BY <4>2 DEF Life!Next
    <3> QED
      BY <3>3, <3>4 DEF Terminal
  <2> QED
    BY <2>2, <2>3
<1>3. ASSUME NEW c \in calls, Begin(c)
      PROVE  [Life(p)!Next]_(Life(p)!lifecycleVars)
  <2>0. c.p \in Proc /\ c.k \in Key
    BY DEF TypeOK, Call
  <2>1. CASE c.k \in RunningOn(c.p)
    BY <1>1, <1>3, <2>1 DEF Begin
  <2>2. CASE c.k \notin RunningOn(c.p)
    <3>1. SlotFree(c.p) /\ run' = [run EXCEPT ![c.p][c.k] = "RUNNING"] /\ "RUNNING" \in Outcome
      BY <1>3, <2>2 DEF Begin, Outcome
    <3>2. CASE c.p # p
      <4>1. run'[p] = run[p]
        BY <1>0, <2>0, <3>1, <3>2
      <4> QED
        BY <1>1, <4>1
    <3>3. CASE c.p = p
      <4>1. /\ run'[p] = [run[p] EXCEPT ![c.k] = "RUNNING"]
            /\ LeftOf(run'[p]) = [LeftOf(run[p]) EXCEPT ![c.k] = 1]
        <5>1. run'[p] = [run[p] EXCEPT ![c.k] = "RUNNING"] /\ run[p] \in [Key -> Outcome]
          BY <1>0, <2>0, <3>1, <3>3
        <5>2. LeftOf(run'[p]) = [LeftOf(run[p]) EXCEPT ![c.k] = IF "RUNNING" \in {"NONE", "COMPLETED"} THEN 0 ELSE 1]
          BY <2>0, <5>1, LeftMoves
        <5> QED
          BY <5>1, <5>2
      <4>2. c.k \notin Life(p)!Running /\ Cardinality(Life(p)!Running) < MaxActive
        BY <2>2, <3>1, <3>3, RunningHere
      <4>3. Life(p)!Begin(c.k)
        BY <4>1, <4>2, SameCardinality DEF Life!Begin
      <4> QED
        BY <2>0, <4>3 DEF Life!Next
    <3> QED
      BY <3>2, <3>3
  <2> QED
    BY <2>1, <2>2
<1>4. ASSUME NEW q \in Proc, Crash(q)
      PROVE  run'[p] = run[p]
  BY <1>0, <1>4 DEF Crash
<1>5. ASSUME NEW q \in Proc, NEW k \in Key, Request(q, k) \/ Emit(q, k) \/ ResumeNext(q, k)
      PROVE  run'[p] = run[p]
  BY <1>5 DEF Request, Emit, ResumeNext
<1>6. ASSUME NEW q \in Proc, Boot(q) \/ Claim(q) \/ ClaimFails(q)
      PROVE  run'[p] = run[p]
  <2>1. CASE Boot(q)
    BY <2>1 DEF Boot
  <2>2. CASE Claim(q)
    <3>1. run' = run
      BY <2>2, Zenon DEF Claim
    <3> QED
      BY <3>1
  <2>3. CASE ClaimFails(q)
    BY <2>3 DEF ClaimFails
  <2> QED
    BY <1>6, <2>1, <2>2, <2>3
<1>7. ASSUME NEW c \in calls, CallStep(c), ~Begin(c)
      PROVE  run'[p] = run[p]
  BY <1>7 DEF CallStep, Prepared, NotPrepared, Save, Throw, TooMany, Report, Retire
<1>8. ASSUME NEW w \in pending, Apply(w) \/ Lose(w)
      PROVE  run'[p] = run[p]
  BY <1>8 DEF Apply, Lose, procVars
<1>9. ASSUME Tick \/ UNCHANGED vars
      PROVE  run'[p] = run[p]
  BY <1>9 DEF Tick, vars, procVars
<1> QED
  BY <1>1, <1>2, <1>3, <1>4, <1>5, <1>6, <1>7, <1>8, <1>9 DEF Next

(* While it lives, every process runs its transfers as the worker promises *)
(* to (JobLifecycle), however the others, the database and the resume loop *)
(* interleave: starts of the route and of the resume never begin a second  *)
(* run beside the first, nor one above MAX_ACTIVE_JOBS.                    *)
THEOREM BulkLivesByLifecycle == Spec => JobsLiveAsPromised
<1>1. TypeOK /\ [Next]_vars => \A p \in Proc : ~Crash(p) => [Life(p)!Next]_(Life(p)!lifecycleVars)
  BY JobsStep
<1> QED
  BY <1>1, BulkTyped, PTL DEF Spec, JobsLiveAsPromised

----------------------------------------------------------------------------
(***************************************************************************)
(* One runner. The code does not keep OneRunner: saveJobPlan takes a row   *)
(* from whoever leases it, and markJobDone releases it whoever runs it.    *)
(* If those two respected the lease, nothing else would make two processes *)
(* run a transfer: not the claim of a boot, not a lost or late renewal, a  *)
(* crash, or the order in which writes arrive.                             *)
(***************************************************************************)

(* The lease of the row lets c save: nobody's, its own, or run out.        *)
LeaseFree(c) == row[c.k].owner \in {NoProc, c.p} \/ row[c.k].until < now

SavesRespectLease == [][\A c \in calls : Save(c) => LeaseFree(c)]_vars

(* p runs k, or is about to.                                               *)
Uses(p, k) == k \in RunningOn(p) \/ \E c \in calls : c.p = p /\ c.k = k /\ c.at = "begin"

ReleasesWhatEnded ==
  [][\A k \in Key, p \in Proc : (row[k].owner = p /\ row'[k].owner = NoProc) => ~Uses(p, k)]_vars

(* Who runs a transfer, or is about to, holds its lease.                   *)
UsersLease == \A p \in Proc, k \in Key : Uses(p, k) => row[k].owner = p

(* Such a lease has not run out.                                           *)
LEMMA UsedInTime ==
  ASSUME LeaseOutlasts, BulkIInv, NEW p \in Proc, NEW k \in Key, Uses(p, k), row[k].owner = p
  PROVE  ~(row[k].until < now)
<1>0. /\ TypeOK /\ OnTime /\ Leases /\ JustSaved
      /\ now \in Time /\ Ttl \in Nat /\ row[k].until \in Nat /\ now \in Nat
  BY BulkAssumption DEF BulkIInv, TypeOK, Time
<1>1. CASE k \in RunningOn(p)
  <2>1. LeaseKept(Waiting(p, k), renewed[p][k], row[k].until - Ttl, now, lost)
    BY <1>0, <1>1 DEF Leases, Holds
  <2>2. Waiting(p, k) \in SUBSET Time /\ lost \in 0..MaxLost
    BY <1>0 DEF TypeOK, Waiting
  <2>3. \A t \in Waiting(p, k) : t <= now /\ now - t <= MaxDelay
    BY <1>0, AskedApart DEF Waiting, OnTime
  <2>4. PICK b \in Int : b = row[k].until - Ttl
    BY <1>0
  <2>5. now <= b + Ttl
    BY <1>0, <2>1, <2>2, <2>3, <2>4, KeptIsValid
  <2> QED
    BY <1>0, <2>4, <2>5
<1>2. CASE \E c \in calls : c.p = p /\ c.k = k /\ c.at = "begin"
  <2>1. row[k].until = now + Ttl
    BY <1>0, <1>2 DEF JustSaved
  <2> QED
    BY <1>0, <2>1
<1> QED
  BY <1>1, <1>2 DEF Uses

(* A call comes to its start by saving the plan.                           *)
LEMMA BeginMoves ==
  ASSUME TypeOK, [Next]_vars, NEW d \in calls', d.at = "begin"
  PROVE  d \in calls \/ \E c \in calls : c.p = d.p /\ c.k = d.k /\ Save(c)
<1>1. ASSUME NEW c \in calls, CallStep(c)
      PROVE  d \in calls \/ (c.p = d.p /\ c.k = d.k /\ Save(c))
  BY <1>1, CallMoves
<1>2. ASSUME NEW p \in Proc, NEW k \in Key, NEW s, Request(p, k) \/ Emit(p, k) \/ ResumeNext(p, k) \/ Finish(p, k, s)
      PROVE  d \in calls
  BY <1>2 DEF Request, Emit, ResumeNext, Finish
<1>3. ASSUME NEW p \in Proc, Boot(p) \/ Claim(p) \/ ClaimFails(p) \/ Crash(p)
      PROVE  d \in calls
  BY <1>3 DEF Boot, Claim, ClaimFails, Crash
<1>4. ASSUME NEW w \in pending, Apply(w) \/ Lose(w)
      PROVE  d \in calls
  BY <1>4 DEF Apply, Lose, procVars
<1>5. ASSUME UNCHANGED vars \/ Tick
      PROVE  d \in calls
  BY <1>5 DEF vars, Tick, procVars
<1> QED
  BY <1>1, <1>2, <1>3, <1>4, <1>5 DEF Next

(* A process comes to use a transfer by saving its plan.                   *)
LEMMA UseMoves ==
  ASSUME TypeOK, [Next]_vars, NEW p \in Proc, NEW k \in Key, Uses(p, k)'
  PROVE  Uses(p, k) \/ \E c \in calls : c.p = p /\ c.k = k /\ Save(c)
<1>1. CASE k \in RunningOn(p)'
  <2>1. k \in RunningOn(p) \/ \E c \in calls : c.p = p /\ c.k = k /\ Begin(c)
    BY <1>1, RunMoves
  <2> QED
    BY <2>1 DEF Uses, Begin
<1>2. CASE \E d \in calls' : d.p = p /\ d.k = k /\ d.at = "begin"
  BY <1>2, BeginMoves DEF Uses
<1> QED
  BY <1>1, <1>2 DEF Uses

(* If saves and releases respect the lease, the user of a transfer keeps it. *)
LEMMA UsersStep ==
  ASSUME LeaseOutlasts, BulkIInv, UsersLease, [Next]_vars,
         \A c \in calls : Save(c) => LeaseFree(c),
         \A k \in Key, p \in Proc : (row[k].owner = p /\ row'[k].owner = NoProc) => ~Uses(p, k)
  PROVE  UsersLease'
<1> SUFFICES ASSUME NEW p \in Proc, NEW k \in Key, Uses(p, k)'
             PROVE  row'[k].owner = p
  BY DEF UsersLease
<1>0. /\ TypeOK /\ TypeOK' /\ row \in [Key -> RowRecord] /\ row' \in [Key -> RowRecord]
      /\ calls \subseteq Call /\ NoProc \notin Proc
  BY TypesStep, BulkAssumption DEF BulkIInv, TypeOK, RowRecord
<1>1. CASE \E c \in calls : c.p = p /\ c.k = k /\ Save(c)
  <2>1. row' = [row EXCEPT ![k] = Saved(p)]
    BY <1>1 DEF Save
  <2> QED
    BY <1>0, <2>1 DEF Saved
<1>2. CASE Uses(p, k) /\ ~\E c \in calls : c.p = p /\ c.k = k /\ Save(c)
  <2>1. row[k].owner = p /\ ~(row[k].until < now)
    BY <1>2, UsedInTime DEF UsersLease
  <2>2. row'[k].owner \in Proc
    BY <1>0, <1>2, <2>1 DEF RowRecord
  <2>3. PICK q \in Proc : q = row'[k].owner
    BY <2>2
  <2>4. ASSUME q # p PROVE FALSE
    <3>1. (\E c \in calls : c.p = q /\ c.k = k /\ Save(c)) \/ Claimable(k)
      BY <1>0, <2>1, <2>3, <2>4, OwnerMoves
    <3>2. ~Claimable(k)
      BY <1>0, <2>1 DEF Claimable
    <3>3. ASSUME NEW c \in calls, c.p = q, c.k = k, Save(c) PROVE FALSE
      BY <1>0, <2>1, <2>4, <3>3 DEF LeaseFree
    <3> QED
      BY <3>1, <3>2, <3>3
  <2> QED
    BY <2>3, <2>4
<1> QED
  BY <1>0, <1>1, <1>2, UseMoves

(* If a plan were saved only where the lease allows it, and a row released *)
(* only when its owner no longer uses it, at most one process would run a  *)
(* transfer at any time (bulkTransferService.ts:62-131, 295-336). Each     *)
(* hypothesis is one WHERE clause that saveJobPlan and markJobDone lack.   *)
THEOREM OneRunnerByLease ==
  LeaseOutlasts => (Spec /\ SavesRespectLease /\ ReleasesWhatEnded => []OneRunner)
<1> SUFFICES ASSUME LeaseOutlasts PROVE Spec /\ SavesRespectLease /\ ReleasesWhatEnded => []OneRunner
  OBVIOUS
<1>1. Init => UsersLease
  BY DEF Init, UsersLease, Uses, RunningOn
<1>2. /\ BulkIInv /\ UsersLease /\ [Next]_vars
      /\ [\A c \in calls : Save(c) => LeaseFree(c)]_vars
      /\ [\A k \in Key, p \in Proc : (row[k].owner = p /\ row'[k].owner = NoProc) => ~Uses(p, k)]_vars
      => UsersLease'
  <2>1. CASE UNCHANGED vars
    BY <2>1 DEF vars, procVars, dbVars, UsersLease, Uses, RunningOn
  <2>2. CASE ~UNCHANGED vars
    BY <2>2, UsersStep
  <2> QED
    BY <2>1, <2>2
<1>3. UsersLease => OneRunner
  BY DEF UsersLease, Uses, OneRunner
<1> QED
  BY <1>1, <1>2, <1>3, BulkInvariance, PTL DEF Spec, SavesRespectLease, ReleasesWhatEnded

=============================================================================
