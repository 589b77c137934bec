----------------------------- MODULE NoticesProofs -----------------------------
(***************************************************************************)
(* Proofs about Notices, for any replicas, ticks, events and bounds: one   *)
(* replica at most polls with a session that exists, an event fires once,  *)
(* what is dropped is dropped for a reason, and a muted source falls       *)
(* silent within the life of a cache entry.                                *)
(*                                                                         *)
(* NotedOnce is not inductive: a tick that has written the dedup row will  *)
(* write the notification whatever happens in between. Such a tick holds   *)
(* the event (Holding), and HoldInv says that nobody else does, although   *)
(* ticks overlap and leaders change: the row is there as long as it does.  *)
(* CountInv counts a held event as noted, TraceInv explains every row.     *)
(***************************************************************************)
EXTENDS Notices, TLAPS

(* Tick t has written a dedup row and not yet what follows from it.        *)
Holding(t) == task[t].at \in {"prefs", "read", "insert"}

(* The lock is the lock of a leader, who has not lost its session.         *)
ElectionInv == OneLeader /\ (lock # Nobody => lock \in leader \ gone)

(* An event that is held is held by one tick, and its row is there.        *)
HoldInv ==
  /\ \A t \in Task : task[t].at = "dedup" \/ Holding(t) => task[t].ev \in Event
  /\ \A t \in Task : Holding(t) => task[t].ev \in dedup
  /\ \A t, u \in Task : Holding(t) /\ Holding(u) /\ task[t].ev = task[u].ev => t = u

(* An event without a row, or which is held, is still to be noted.         *)
CountInv ==
  /\ \A e \in Event : notes[e] <= 1 + cleanups
  /\ \A e \in Event \ dedup : notes[e] <= cleanups
  /\ \A t \in Task : Holding(t) => notes[task[t].ev] <= cleanups

(* A row without a notification has a reason.                              *)
TraceInv ==
  \A e \in dedup : notes[e] = 0 =>
    e \in silenced \cup lost \/ \E t \in Task : Holding(t) /\ task[t].ev = e

(* Who believes the source to be on has seen it on within the life of a    *)
(* cache entry.                                                            *)
MuteInv ==
  /\ onUntil <= now /\ (on => onUntil = now)
  /\ \A p \in Proc : cache[p].on => cache[p].until <= onUntil + Ttl
  /\ \A t \in Task : task[t].at = "read" =>
       task[t].since = now /\ (task[t].known => now <= onUntil)

NotesInv == HoldInv /\ CountInv /\ TraceInv

IInv == TypeOK /\ ElectionInv /\ NotesInv /\ MuteInv

----------------------------------------------------------------------------

(* The constants, one by one.                                              *)
LEMMA Bounds ==
  /\ On \in [Task -> Proc] /\ Nobody \notin Proc /\ Ttl \in Nat /\ Ttl >= 1
  /\ MaxTime \in Nat /\ MaxPuts \in Nat /\ MaxFaults \in Nat
  /\ MaxCrashes \in Nat /\ MaxCleanups \in Nat
BY NoticesAssumption

(* Initially nothing has happened.                                         *)
LEMMA InitInv == Init => IInv
<1> SUFFICES ASSUME Init PROVE IInv
  OBVIOUS
<1> USE Bounds
<1>1. on \in BOOLEAN
  BY Zenon DEF Init
<1>2. TypeOK
  BY <1>1 DEF Init, TypeOK, Idle, Unknown
<1>3. ElectionInv /\ HoldInv /\ CountInv /\ TraceInv
  BY DEF Init, ElectionInv, OneLeader, HoldInv, CountInv, TraceInv, Holding, Idle
<1>4. MuteInv
  BY DEF Init, MuteInv, Idle, Unknown
<1> QED
  BY <1>2, <1>3, <1>4 DEF IInv, NotesInv

(* The states of a tick.                                                   *)
TaskType ==
  [at : {"idle", "poll", "dedup", "prefs", "read", "insert"},
   left : SUBSET Event, ev : Event \cup {NoEvent}, known : BOOLEAN, since : 0..MaxTime]

(* What a tick goes on with is a state of a tick.                          *)
LEMMA TaskSteps ==
  ASSUME TypeOK, NEW t \in Task
  PROVE  /\ Idle \in TaskType
         /\ Resume(t) => task' \in [Task -> TaskType]
         /\ GiveUp(t) => task' \in [Task -> TaskType]
         /\ HoldInv /\ (task[t].at = "dedup" \/ Holding(t)) /\ Remember(t)
              => seen' \in [Proc -> SUBSET Event]
<1>1. task \in [Task -> TaskType]
  BY DEF TypeOK, TaskType
<1>2. Idle \in TaskType /\ [Idle EXCEPT !.at = "poll"] \in TaskType
  <2>1. Idle \in TaskType
    BY Bounds DEF Idle, TaskType
  <2>2. [Idle EXCEPT !.at = "poll"] \in TaskType
    BY <2>1 DEF TaskType
  <2> QED
    BY <2>1, <2>2
<1>3. ASSUME Resume(t)
      PROVE  task' \in [Task -> TaskType]
  <2>1. [task[t] EXCEPT !.at = "poll", !.ev = NoEvent] \in TaskType
    BY <1>1 DEF TaskType
  <2> QED
    BY <1>1, <1>3, <2>1 DEF Resume
<1>4. GiveUp(t) => task' \in [Task -> TaskType]
  BY <1>1, <1>2 DEF GiveUp
<1>5. ASSUME HoldInv, task[t].at = "dedup" \/ Holding(t), Remember(t)
      PROVE  seen' \in [Proc -> SUBSET Event]
  <2>1. task[t].ev \in Event
    BY <1>5 DEF HoldInv
  <2> QED
    BY <1>5, <2>1 DEF Remember, TypeOK
<1> QED
  BY <1>2, <1>3, <1>4, <1>5

(* What a cleanup does to the table: nothing, or one row goes that no tick *)
(* is about to use.                                                        *)
LEMMA CleanupRows ==
  ASSUME TypeOK, NEW busy, Cleanup(busy)
  PROVE  /\ dedup' \subseteq Event /\ cleanups' \in 0..MaxCleanups
         /\ dedup' \subseteq dedup /\ cleanups <= cleanups'
         /\ dedup \cap busy \subseteq dedup'
         /\ dedup' # dedup => cleanups' = cleanups + 1
<1>1. dedup \subseteq Event /\ cleanups \in 0..MaxCleanups
  BY DEF TypeOK
<1>2. CASE UNCHANGED <<dedup, cleanups>>
  BY <1>1, <1>2, Bounds
<1>3. CASE /\ cleanups < MaxCleanups /\ cleanups' = cleanups + 1
           /\ \E e \in dedup \ busy : dedup' = dedup \ {e}
  BY <1>1, <1>3, Bounds
<1> QED
  BY <1>2, <1>3 DEF Cleanup

(* Every step keeps the types.                                             *)
LEMMA TypeStep ==
  ASSUME TypeOK, ElectionInv, HoldInv, [Next]_vars
  PROVE  TypeOK'
<1> USE Bounds DEF election, table, setting, caches, history, Fault
<1>0. task \in [Task -> TaskType] /\ Idle \in TaskType
  BY DEF TypeOK, TaskType, Idle
<1>u. Unknown \in [on : BOOLEAN, until : 0..(MaxTime + Ttl)]
  BY DEF Unknown
<1>1. ASSUME NEW t \in Task, Tick(t)
      PROVE  TypeOK'
  <2>1. [Idle EXCEPT !.at = "poll", !.left = happened] \in TaskType
    BY <1>0 DEF TypeOK, TaskType
  <2>2. task' \in [Task -> TaskType]
    BY <1>0, <1>1, <2>1 DEF Tick
  <2> QED
    BY <1>1, <2>2 DEF Tick, TypeOK, TaskType
<1>2. ASSUME NEW t \in Task, NEW e \in Event, Take(t, e)
      PROVE  TypeOK'
  <2>1. task' \in [Task -> TaskType]
    <3> DEFINE at == IF e \in seen[On[t]] THEN "poll" ELSE "dedup"
               ev == IF e \in seen[On[t]] THEN NoEvent ELSE e
    <3>1. [task[t] EXCEPT !.left = task[t].left \ {e}, !.at = at, !.ev = ev] \in TaskType
      BY <1>0 DEF TaskType
    <3>2. task' = [task EXCEPT ![t] = [task[t] EXCEPT !.left = task[t].left \ {e},
                                                      !.at = at, !.ev = ev]]
      BY <1>2 DEF Take
    <3> HIDE DEF at, ev
    <3> QED
      BY <1>0, <3>1, <3>2
  <2> QED
    BY <1>2, <2>1 DEF Take, TypeOK, TaskType
<1>3. ASSUME NEW t \in Task, Dedup(t)
      PROVE  TypeOK'
  <2>1. task' \in [Task -> TaskType] /\ seen' \in [Proc -> SUBSET Event]
    <3>1. CASE Resume(t) /\ Remember(t)
      BY <1>3, <3>1, TaskSteps DEF Dedup
    <3>2. CASE task' = [task EXCEPT ![t].at = "prefs"] /\ UNCHANGED seen
      BY <1>0, <3>2 DEF TypeOK, TaskType
    <3> QED
      BY <1>3, <3>1, <3>2 DEF Dedup
  <2>2. task[t].ev \in Event
    BY <1>3 DEF Dedup, HoldInv
  <2> QED
    BY <1>3, <2>1, <2>2 DEF Dedup, TypeOK, TaskType
<1>4. ASSUME NEW t \in Task, DedupFails(t)
      PROVE  TypeOK'
  <2>1. task' \in [Task -> TaskType]
    BY <1>4, TaskSteps DEF DedupFails
  <2> QED
    BY <1>4, <2>1 DEF DedupFails, AfterError, TypeOK, TaskType
<1>5. ASSUME NEW t \in Task, NEW isOn, Decide(t, isOn), Holding(t), UNCHANGED lost
      PROVE  /\ task' \in [Task -> TaskType] /\ seen' \in [Proc -> SUBSET Event]
             /\ silenced' \subseteq Event
  <2>1. task[t].ev \in Event
    BY <1>5 DEF HoldInv
  <2>2. CASE isOn
    <3>1. task' = [task EXCEPT ![t].at = "insert"] /\ UNCHANGED <<seen, silenced>>
      BY <1>5, <2>2 DEF Decide
    <3> QED
      BY <1>0, <3>1 DEF TypeOK, TaskType
  <2>3. CASE ~isOn
    <3>1. Resume(t) /\ Remember(t) /\ silenced' = silenced \cup {task[t].ev}
      BY <1>5, <2>3 DEF Decide
    <3> QED
      BY <1>5, <2>1, <3>1, TaskSteps DEF TypeOK
  <2> QED
    BY <2>2, <2>3
<1>6. ASSUME NEW t \in Task, FromCache(t)
      PROVE  TypeOK'
  <2>1. Holding(t) /\ Decide(t, cache[On[t]].on)
    BY <1>6 DEF FromCache, Holding
  <2>2. lost' = lost
    BY <2>1 DEF Decide
  <2> QED
    BY <1>5, <1>6, <2>1, <2>2 DEF FromCache, TypeOK, TaskType
<1>7. ASSUME NEW t \in Task, ReadPrefs(t)
      PROVE  TypeOK'
  <2>1. [task[t] EXCEPT !.at = "read", !.known = on, !.since = now] \in TaskType
    BY <1>0 DEF TypeOK, TaskType
  <2>2. task' = [task EXCEPT ![t] = [task[t] EXCEPT !.at = "read", !.known = on, !.since = now]]
    BY <1>7 DEF ReadPrefs
  <2>3. task' \in [Task -> TaskType]
    BY <1>0, <2>1, <2>2
  <2> QED
    BY <1>7, <2>3 DEF ReadPrefs, TypeOK, TaskType
<1>8. ASSUME NEW t \in Task, FillCache(t)
      PROVE  TypeOK'
  <2>1. Holding(t) /\ Decide(t, task[t].known)
    BY <1>8 DEF FillCache, Holding
  <2>2. lost' = lost
    BY <2>1 DEF Decide
  <2>3. cache' \in [Proc -> [on : BOOLEAN, until : 0..(MaxTime + Ttl)]]
    <3>1. task[t].known \in BOOLEAN /\ Expiry(t) \in 0..(MaxTime + Ttl)
      BY <1>0 DEF Expiry, TaskType
    <3>2. [on |-> task[t].known, until |-> Expiry(t)] \in [on : BOOLEAN, until : 0..(MaxTime + Ttl)]
      BY <3>1
    <3> QED
      BY <1>8, <3>2 DEF FillCache, TypeOK
  <2> QED
    BY <1>5, <1>8, <2>1, <2>2, <2>3 DEF FillCache, TypeOK, TaskType
<1>9. ASSUME NEW t \in Task, ReadFails(t)
      PROVE  TypeOK'
  <2>1. task' \in [Task -> TaskType]
    BY <1>0, <1>9 DEF ReadFails, Unreadable, TaskType
  <2> QED
    BY <1>9, <2>1 DEF ReadFails, TypeOK, TaskType
<1>10. ASSUME NEW t \in Task, Insert(t)
       PROVE  TypeOK'
  <2>1. task[t].ev \in Event /\ Holding(t)
    BY <1>10 DEF Insert, HoldInv, Holding
  <2>2. task' \in [Task -> TaskType] /\ seen' \in [Proc -> SUBSET Event]
    BY <1>10, <2>1, TaskSteps DEF Insert
  <2> QED
    BY <1>10, <2>1, <2>2 DEF Insert, TypeOK, TaskType
<1>11. ASSUME NEW t \in Task, InsertFails(t)
       PROVE  TypeOK'
  <2>1. task[t].ev \in Event
    BY <1>11 DEF InsertFails, HoldInv, Holding
  <2>2. task' \in [Task -> TaskType]
    BY <1>11, TaskSteps DEF InsertFails
  <2> QED
    BY <1>11, <2>1, <2>2 DEF InsertFails, TypeOK, TaskType
<1>12. ASSUME NEW t \in Task, Finish(t)
       PROVE  TypeOK'
  <2>1. task' \in [Task -> TaskType]
    BY <1>0, <1>12 DEF Finish
  <2>2. dedup' \subseteq Event /\ cleanups' \in 0..MaxCleanups
    BY <1>12, CleanupRows DEF Finish
  <2> QED
    BY <1>12, <2>1, <2>2 DEF Finish, TypeOK, TaskType
<1>13. ASSUME NEW p \in Proc, Crash(p)
       PROVE  TypeOK'
  <2>1. task' \in [Task -> TaskType]
    BY <1>0, <1>13 DEF Crash
  <2>2. lost' \subseteq Event
    BY <1>13 DEF Crash, InHand, HoldInv, Holding, TypeOK
  <2>3. cache' \in [Proc -> [on : BOOLEAN, until : 0..(MaxTime + Ttl)]]
    BY <1>13, <1>u DEF Crash, TypeOK
  <2>4. dedup' \subseteq Event /\ cleanups' \in 0..MaxCleanups
    <3>1. Cleanup(InHand(Task \ {t \in Task : On[t] = p}))
      BY <1>13 DEF Crash
    <3> QED
      BY <3>1, CleanupRows
  <2>5. /\ lock' \in Proc \cup {Nobody} /\ leader' = leader \ {p} /\ gone' = gone \ {p}
        /\ seen' \in [Proc -> SUBSET Event] /\ evicts' \subseteq Proc
        /\ crashes' \in 0..MaxCrashes
        /\ UNCHANGED <<happened, notes, setting, listening, now, faults, silenced>>
    BY <1>13 DEF Crash, TypeOK
  <2> QED
    BY <2>1, <2>2, <2>3, <2>4, <2>5 DEF TypeOK, TaskType
<1>14. ASSUME NEW p \in Proc, SessionLost(p) \/ Notice(p) \/ Disconnect(p) \/ Reconnect(p)
       PROVE  TypeOK'
  BY <1>14 DEF SessionLost, Notice, Disconnect, Reconnect, TypeOK, ElectionInv
<1>15. ASSUME NEW p \in Proc, EvictLocal(p) \/ Deliver(p)
       PROVE  TypeOK'
  <2>1. cache' \in [Proc -> [on : BOOLEAN, until : 0..(MaxTime + Ttl)]]
    BY <1>15, <1>u DEF EvictLocal, Deliver, TypeOK
  <2>2. put' \in {"idle", "written", "local"} /\ evicts' \subseteq Proc
    BY <1>15 DEF EvictLocal, Deliver, TypeOK
  <2>3. /\ UNCHANGED <<election, task, happened, table, seen, on, puts, onUntil, listening>>
        /\ UNCHANGED <<now, faults, crashes, cleanups, history>>
    BY <1>15 DEF EvictLocal, Deliver
  <2> QED
    BY <2>1, <2>2, <2>3 DEF TypeOK
<1>16. CASE Write
  <2>1. on' \in BOOLEAN
    BY <1>16, Zenon DEF Write
  <2> QED
    BY <1>16, <2>1 DEF Write, TypeOK
<1>17. CASE Notify \/ Clock
  BY <1>17 DEF Notify, Clock, TypeOK
<1>18. CASE UNCHANGED vars
  BY <1>18 DEF vars, TypeOK
<1>19. ASSUME NEW e \in Event, Happen(e)
       PROVE  TypeOK'
  BY <1>19 DEF Happen, TypeOK
<1> QED
  BY <1>1, <1>2, <1>3, <1>4, <1>6, <1>7, <1>8, <1>9, <1>10, <1>11, <1>12, <1>13, <1>14,
     <1>15, <1>16, <1>17, <1>18, <1>19 DEF Next, Polls

(* No step makes a second leader with a session.                           *)
LEMMA ElectionStep ==
  ASSUME TypeOK, ElectionInv, [Next]_vars
  PROVE  ElectionInv'
<1> USE Bounds DEF ElectionInv, OneLeader, TypeOK, election
<1>1. ASSUME NEW t \in Task, Tick(t)
      PROVE  ElectionInv'
  BY <1>1 DEF Tick, LockFree
<1>2. ASSUME NEW p \in Proc, SessionLost(p)
      PROVE  ElectionInv'
  BY <1>2 DEF SessionLost
<1>3. ASSUME NEW p \in Proc, Notice(p)
      PROVE  ElectionInv'
  BY <1>3 DEF Notice
<1>4. ASSUME NEW p \in Proc, Crash(p)
      PROVE  ElectionInv'
  BY <1>4 DEF Crash
<1>5. CASE UNCHANGED election
  BY <1>5
<1> HIDE DEF ElectionInv, TypeOK
<1> QED
  BY <1>1, <1>2, <1>3, <1>4, <1>5
     DEF Next, Polls, vars, Take, Dedup, DedupFails, FromCache, ReadPrefs, FillCache,
         ReadFails, Insert, InsertFails, Finish, Write, EvictLocal, Notify, Deliver,
         Disconnect, Reconnect, Happen, Clock

(* A step after which a tick holds an event only if it did before keeps    *)
(* the events held by one tick, and counted.                               *)
LEMMA HeldAsBefore ==
  ASSUME TypeOK, HoldInv, CountInv,
         \A t \in Task : (task'[t].at \in {"prefs", "read", "insert"})
                           => Holding(t) /\ task'[t].ev = task[t].ev,
         \A t \in Task : task'[t].at = "dedup" => task'[t].ev \in Event,
         UNCHANGED notes, dedup' \subseteq dedup, cleanups' \in Nat, cleanups <= cleanups',
         \A t \in Task : (task'[t].at \in {"prefs", "read", "insert"})
                           => task'[t].ev \in dedup',
         dedup' # dedup => cleanups' = cleanups + 1
  PROVE  HoldInv' /\ CountInv'
<1>1. HoldInv'
  BY DEF HoldInv, Holding
<1>2. CountInv'
  <2>1. \A e \in Event : notes[e] \in Nat /\ cleanups \in Nat
    BY Bounds DEF TypeOK
  <2>2. \A e \in Event : notes'[e] <= 1 + cleanups'
    BY <2>1 DEF CountInv
  <2>3. \A e \in Event \ dedup' : notes'[e] <= cleanups'
    <3>1. CASE dedup' = dedup
      BY <2>1, <3>1 DEF CountInv
    <3>2. CASE cleanups' = cleanups + 1
      BY <2>1, <3>2 DEF CountInv
    <3> QED
      BY <3>1, <3>2
  <2>4. ASSUME NEW t \in Task, task'[t].at \in {"prefs", "read", "insert"}
        PROVE  notes'[task'[t].ev] <= cleanups'
    BY <2>1, <2>4 DEF CountInv, HoldInv
  <2> QED
    BY <2>2, <2>3, <2>4 DEF CountInv, Holding
<1> QED
  BY <1>1, <1>2

(* Every step keeps the events held by one tick, and counted.              *)
LEMMA HoldStep ==
  ASSUME TypeOK, HoldInv, CountInv, [Next]_vars
  PROVE  HoldInv' /\ CountInv'
<1> USE Bounds DEF table
<1>0. cleanups \in Nat /\ task \in [Task -> TaskType] /\ dedup \subseteq Event
      /\ notes \in [Event -> Nat]
  BY DEF TypeOK, TaskType
<1>1. ASSUME NEW t \in Task,
             task'[t].at \in {"prefs", "read", "insert"} => Holding(t) /\ task'[t].ev = task[t].ev,
             task'[t].at = "dedup" => task'[t].ev \in Event,
             \A u \in Task \ {t} : task'[u] = task[u],
             UNCHANGED <<notes, dedup, cleanups>>
      PROVE  HoldInv' /\ CountInv'
  BY <1>0, <1>1, HeldAsBefore DEF HoldInv, Holding
<1>2. ASSUME NEW t \in Task, Tick(t)
      PROVE  HoldInv' /\ CountInv'
  BY <1>0, <1>1, <1>2 DEF Tick, Idle
<1>3. ASSUME NEW t \in Task, NEW e \in Event, Take(t, e)
      PROVE  HoldInv' /\ CountInv'
  BY <1>0, <1>1, <1>3 DEF Take, TaskType
<1>4. ASSUME NEW t \in Task, Dedup(t)
      PROVE  HoldInv' /\ CountInv'
  <2>1. task[t].ev \in Event
    BY <1>4 DEF Dedup, HoldInv
  <2>2. CASE ~NewRow(task[t].ev)
    <3>1. dedup' = dedup /\ UNCHANGED <<notes, cleanups>>
      BY <1>4, <2>2 DEF Dedup, NewRow
    <3>2. task'[t].at = "poll" /\ \A u \in Task \ {t} : task'[u] = task[u]
      BY <1>0, <1>4, <2>2 DEF Dedup, Resume, TaskType
    <3> QED
      BY <1>1, <3>1, <3>2
  <2>3. CASE NewRow(task[t].ev)
    <3>1. /\ task' = [task EXCEPT ![t].at = "prefs"] /\ dedup' = dedup \cup {task[t].ev}
          /\ UNCHANGED <<notes, cleanups>> /\ task[t].ev \notin dedup
      BY <1>4, <2>3 DEF Dedup, NewRow
    <3>2. HoldInv'
      BY <1>0, <2>1, <3>1 DEF HoldInv, Holding, TaskType
    <3>3. CountInv'
      BY <1>0, <2>1, <3>1 DEF CountInv, HoldInv, Holding, TaskType
    <3> QED
      BY <3>2, <3>3
  <2> QED
    BY <2>2, <2>3
<1>5. ASSUME NEW t \in Task, DedupFails(t)
      PROVE  HoldInv' /\ CountInv'
  BY <1>0, <1>1, <1>5 DEF DedupFails, GiveUp, Idle
<1>6. ASSUME NEW t \in Task, FromCache(t) \/ FillCache(t)
      PROVE  HoldInv' /\ CountInv'
  <2>1. Holding(t) /\ UNCHANGED <<notes, dedup, cleanups>>
    BY <1>6 DEF FromCache, FillCache, Holding
  <2>2. task' = [task EXCEPT ![t].at = "insert"] \/ Resume(t)
    BY <1>6 DEF FromCache, FillCache, Decide
  <2> QED
    <3>1. CASE task' = [task EXCEPT ![t].at = "insert"]
      BY <1>0, <1>1, <2>1, <3>1 DEF TaskType
    <3>2. CASE Resume(t)
      <4>1. task'[t].at = "poll" /\ \A u \in Task \ {t} : task'[u] = task[u]
        BY <1>0, <3>2 DEF Resume, TaskType
      <4> QED
        BY <1>1, <2>1, <4>1
    <3> QED
      BY <2>2, <3>1, <3>2
<1>7. ASSUME NEW t \in Task, ReadPrefs(t) \/ ReadFails(t)
      PROVE  HoldInv' /\ CountInv'
  BY <1>0, <1>1, <1>7 DEF ReadPrefs, ReadFails, Unreadable, Holding, TaskType
<1>8. ASSUME NEW t \in Task, Insert(t)
      PROVE  HoldInv' /\ CountInv'
  <2>1. Holding(t) /\ task[t].ev \in Event /\ notes[task[t].ev] <= cleanups
    BY <1>8 DEF Insert, HoldInv, CountInv, Holding
  <2>2. /\ notes' = [notes EXCEPT ![task[t].ev] = notes[task[t].ev] + 1]
        /\ UNCHANGED <<dedup, cleanups>>
        /\ task'[t].at = "poll" /\ \A u \in Task \ {t} : task'[u] = task[u]
    BY <1>0, <1>8 DEF Insert, Resume, TaskType
  <2>3. HoldInv'
    BY <1>0, <2>2 DEF HoldInv, Holding
  <2>4. \A u \in Task \ {t} : Holding(u) => task[u].ev # task[t].ev
    BY <2>1 DEF HoldInv
  <2>5. CountInv'
    BY <1>0, <2>1, <2>2, <2>4 DEF CountInv, HoldInv, Holding
  <2> QED
    BY <2>3, <2>5
<1>9. ASSUME NEW t \in Task, InsertFails(t)
      PROVE  HoldInv' /\ CountInv'
  BY <1>0, <1>1, <1>9 DEF InsertFails, GiveUp, Idle
<1>10. ASSUME NEW t \in Task, Finish(t)
       PROVE  HoldInv' /\ CountInv'
  <2>1. Cleanup(InHand(Task)) /\ UNCHANGED notes /\ task' = [task EXCEPT ![t] = Idle]
    BY <1>10 DEF Finish
  <2>2. /\ dedup' \subseteq Event /\ cleanups' \in 0..MaxCleanups
        /\ dedup' \subseteq dedup /\ cleanups <= cleanups'
        /\ dedup \cap InHand(Task) \subseteq dedup'
        /\ dedup' # dedup => cleanups' = cleanups + 1
    BY <2>1, CleanupRows
  <2>3. \A u \in Task : Holding(u) => task[u].ev \in dedup'
    BY <2>2 DEF InHand, HoldInv
  <2>4. \A u \in Task : task'[u].at \in {"prefs", "read", "insert", "dedup"} => task'[u] = task[u]
    BY <1>0, <2>1 DEF Idle
  <2> QED
    BY <1>0, <2>1, <2>2, <2>3, <2>4, HeldAsBefore DEF HoldInv, Holding
<1>11. ASSUME NEW p \in Proc, Crash(p)
       PROVE  HoldInv' /\ CountInv'
  <2> DEFINE own == {t \in Task : On[t] = p}
  <2>1. /\ Cleanup(InHand(Task \ own)) /\ UNCHANGED notes
        /\ task' = [t \in Task |-> IF t \in own THEN Idle ELSE task[t]]
    BY <1>11 DEF Crash
  <2>2. /\ dedup' \subseteq Event /\ cleanups' \in 0..MaxCleanups
        /\ dedup' \subseteq dedup /\ cleanups <= cleanups'
        /\ dedup \cap InHand(Task \ own) \subseteq dedup'
        /\ dedup' # dedup => cleanups' = cleanups + 1
    BY <2>1, CleanupRows
  <2>3. \A u \in Task \ own : Holding(u) => task[u].ev \in dedup'
    BY <2>2 DEF InHand, HoldInv
  <2>4. \A u \in Task : task'[u].at \in {"prefs", "read", "insert", "dedup"}
                           => task'[u] = task[u] /\ u \notin own
    BY <1>0, <2>1 DEF Idle
  <2> HIDE DEF own
  <2> QED
    BY <1>0, <2>1, <2>2, <2>3, <2>4, HeldAsBefore DEF HoldInv, Holding
<1>12. CASE UNCHANGED <<task, notes, dedup, cleanups>>
  BY <1>12 DEF HoldInv, CountInv, Holding
<1> QED
  BY <1>2, <1>3, <1>4, <1>5, <1>6, <1>7, <1>8, <1>9, <1>10, <1>11, <1>12
     DEF Next, Polls, vars, SessionLost, Notice, Write, EvictLocal, Notify, Deliver,
         Disconnect, Reconnect, Happen, Clock

(* Every row without a notification keeps a reason.                        *)
LEMMA TraceStep ==
  ASSUME TypeOK, HoldInv, TraceInv, [Next]_vars
  PROVE  TraceInv'
<1> USE Bounds DEF table, history
<1>0. task \in [Task -> TaskType] /\ dedup \subseteq Event /\ notes \in [Event -> Nat]
  BY DEF TypeOK, TaskType
<1>1. ASSUME NEW t \in Task,
             \A u \in Task \ {t} : task'[u] = task[u],
             Holding(t) => \/ (task'[t].at \in {"prefs", "read", "insert"}) /\ task'[t].ev = task[t].ev
                           \/ task[t].ev \in silenced' \cup lost',
             dedup' \subseteq dedup, notes' = notes,
             silenced \subseteq silenced', lost \subseteq lost'
      PROVE  TraceInv'
  <2> SUFFICES ASSUME NEW e \in dedup', notes'[e] = 0, e \notin silenced' \cup lost'
               PROVE  \E u \in Task : (task'[u].at \in {"prefs", "read", "insert"}) /\ task'[u].ev = e
    BY DEF TraceInv, Holding
  <2>1. PICK u \in Task : Holding(u) /\ task[u].ev = e
    BY <1>1 DEF TraceInv
  <2> QED
    BY <1>1, <2>1 DEF Holding
<1>2. ASSUME NEW t \in Task, Tick(t)
      PROVE  TraceInv'
  BY <1>0, <1>1, <1>2 DEF Tick, Idle, Holding
<1>3. ASSUME NEW t \in Task, NEW e \in Event, Take(t, e)
      PROVE  TraceInv'
  BY <1>0, <1>1, <1>3 DEF Take, TaskType, Holding
<1>4. ASSUME NEW t \in Task, Dedup(t)
      PROVE  TraceInv'
  <2>1. CASE ~NewRow(task[t].ev)
    <3>1. /\ dedup' = dedup /\ notes' = notes /\ silenced' = silenced /\ lost' = lost
          /\ ~Holding(t)
      BY <1>4, <2>1 DEF Dedup, NewRow, Holding
    <3>2. \A u \in Task \ {t} : task'[u] = task[u]
      BY <1>0, <1>4, <2>1 DEF Dedup, Resume
    <3> QED
      BY <1>1, <3>1, <3>2
  <2>2. CASE NewRow(task[t].ev)
    <3>1. /\ task' = [task EXCEPT ![t].at = "prefs"] /\ dedup' = dedup \cup {task[t].ev}
          /\ UNCHANGED <<notes, silenced, lost>> /\ ~Holding(t)
      BY <1>4, <2>2 DEF Dedup, Holding
    <3> QED
      BY <1>0, <3>1 DEF TraceInv, Holding, TaskType
  <2> QED
    BY <2>1, <2>2
<1>5. ASSUME NEW t \in Task, DedupFails(t)
      PROVE  TraceInv'
  BY <1>0, <1>1, <1>5 DEF DedupFails, GiveUp, Idle, Holding
<1>6. ASSUME NEW t \in Task, FromCache(t) \/ FillCache(t)
      PROVE  TraceInv'
  <2>1. UNCHANGED <<notes, dedup, lost>>
    BY <1>6 DEF FromCache, FillCache, Decide
  <2>2. CASE task' = [task EXCEPT ![t].at = "insert"] /\ UNCHANGED silenced
    BY <1>0, <1>1, <2>1, <2>2 DEF Holding, TaskType
  <2>3. CASE Resume(t) /\ silenced' = silenced \cup {task[t].ev}
    <3>1. \A u \in Task \ {t} : task'[u] = task[u]
      BY <1>0, <2>3 DEF Resume
    <3> QED
      BY <1>1, <2>1, <2>3, <3>1
  <2> QED
    BY <1>6, <2>2, <2>3 DEF FromCache, FillCache, Decide
<1>7. ASSUME NEW t \in Task, ReadPrefs(t) \/ ReadFails(t)
      PROVE  TraceInv'
  BY <1>0, <1>1, <1>7 DEF ReadPrefs, ReadFails, Unreadable, Holding, TaskType
<1>8. ASSUME NEW t \in Task, Insert(t)
      PROVE  TraceInv'
  <2>1. task[t].ev \in Event
    BY <1>8 DEF Insert, HoldInv, Holding
  <2>2. /\ notes' = [notes EXCEPT ![task[t].ev] = notes[task[t].ev] + 1]
        /\ UNCHANGED <<dedup, silenced, lost>>
        /\ \A u \in Task \ {t} : task'[u] = task[u]
    BY <1>0, <1>8 DEF Insert, Resume
  <2> SUFFICES ASSUME NEW e \in dedup, notes'[e] = 0, e \notin silenced \cup lost
               PROVE  \E u \in Task : (task'[u].at \in {"prefs", "read", "insert"}) /\ task'[u].ev = e
    BY <2>2 DEF TraceInv, Holding
  <2>3. e # task[t].ev /\ notes[e] = 0
    BY <1>0, <2>1, <2>2
  <2>4. PICK u \in Task : Holding(u) /\ task[u].ev = e
    BY <2>3 DEF TraceInv
  <2> QED
    BY <2>2, <2>3, <2>4 DEF Holding
<1>9. ASSUME NEW t \in Task, InsertFails(t)
      PROVE  TraceInv'
  BY <1>0, <1>1, <1>9 DEF InsertFails, GiveUp, Idle, Holding
<1>10. ASSUME NEW t \in Task, Finish(t)
       PROVE  TraceInv'
  <2>1. /\ Cleanup(InHand(Task)) /\ task' = [task EXCEPT ![t] = Idle] /\ ~Holding(t)
        /\ UNCHANGED <<notes, silenced, lost>>
    BY <1>10 DEF Finish, Holding
  <2>2. dedup' \subseteq dedup
    BY <2>1, CleanupRows
  <2> QED
    BY <1>0, <1>1, <2>1, <2>2
<1>11. ASSUME NEW p \in Proc, Crash(p)
       PROVE  TraceInv'
  <2> DEFINE own == {t \in Task : On[t] = p}
  <2>1. /\ Cleanup(InHand(Task \ own)) /\ UNCHANGED <<notes, silenced>>
        /\ task' = [t \in Task |-> IF t \in own THEN Idle ELSE task[t]]
        /\ lost' = lost \cup InHand({t \in own : task[t].at \in {"prefs", "read", "insert"}})
    BY <1>11 DEF Crash
  <2>2. dedup' \subseteq dedup
    BY <2>1, CleanupRows
  <2> SUFFICES ASSUME NEW e \in dedup', notes'[e] = 0, e \notin silenced' \cup lost'
               PROVE  \E u \in Task : (task'[u].at \in {"prefs", "read", "insert"}) /\ task'[u].ev = e
    BY DEF TraceInv, Holding
  <2>3. PICK u \in Task : Holding(u) /\ task[u].ev = e
    BY <2>1, <2>2 DEF TraceInv
  <2>4. u \notin own
    BY <2>1, <2>3 DEF InHand, Holding
  <2> QED
    BY <2>1, <2>3, <2>4 DEF Holding
<1>12. CASE UNCHANGED <<task, notes, dedup, silenced, lost>>
  BY <1>12 DEF TraceInv, Holding
<1> QED
  BY <1>2, <1>3, <1>4, <1>5, <1>6, <1>7, <1>8, <1>9, <1>10, <1>11, <1>12
     DEF Next, Polls, vars, SessionLost, Notice, Write, EvictLocal, Notify, Deliver,
         Disconnect, Reconnect, Happen, Clock

(* No step lets anyone believe for longer that the source is on.           *)
LEMMA MuteStep ==
  ASSUME TypeOK, MuteInv, [Next]_vars
  PROVE  MuteInv'
<1> USE Bounds DEF setting, caches
<1>0. /\ task \in [Task -> TaskType] /\ now \in Nat /\ onUntil \in Nat
      /\ cache \in [Proc -> [on : BOOLEAN, until : Nat]]
  BY DEF TypeOK, TaskType
<1>1. ASSUME NEW t \in Task, \A u \in Task \ {t} : task'[u] = task[u], task'[t].at # "read",
             UNCHANGED <<setting, now>>,
             cache' = cache
      PROVE  MuteInv'
  BY <1>0, <1>1 DEF MuteInv
<1>2. ASSUME NEW t \in Task, Tick(t) \/ DedupFails(t) \/ InsertFails(t) \/ Finish(t)
      PROVE  MuteInv'
  <2>1. UNCHANGED <<setting, now, cache>>
    BY <1>2 DEF Tick, DedupFails, InsertFails, Finish
  <2>2. \A u \in Task \ {t} : task'[u] = task[u]
    BY <1>0, <1>2 DEF Tick, DedupFails, InsertFails, GiveUp, Finish
  <2>3. task'[t].at # "read"
    <3>1. CASE Tick(t)
      BY <1>0, <3>1 DEF Tick, Idle
    <3>2. CASE DedupFails(t) \/ InsertFails(t)
      BY <1>0, <3>2 DEF DedupFails, InsertFails, GiveUp, Idle
    <3>3. CASE Finish(t)
      BY <1>0, <3>3 DEF Finish, Idle
    <3> QED
      BY <1>2, <3>1, <3>2, <3>3
  <2> QED
    BY <1>1, <2>1, <2>2, <2>3
<1>3. ASSUME NEW t \in Task, NEW e \in Event, Take(t, e)
      PROVE  MuteInv'
  BY <1>0, <1>1, <1>3 DEF Take, TaskType
<1>4. ASSUME NEW t \in Task, Resume(t) \/ task' = [task EXCEPT ![t].at = "prefs"]
                             \/ task' = [task EXCEPT ![t].at = "insert"]
      PROVE  /\ \A u \in Task \ {t} : task'[u] = task[u]
             /\ task'[t].at # "read"
  BY <1>0, <1>4, ZenonT(60) DEF Resume, TaskType
<1>5. ASSUME NEW t \in Task, Dedup(t) \/ FromCache(t) \/ ReadFails(t) \/ Insert(t)
      PROVE  MuteInv'
  BY <1>1, <1>4, <1>5 DEF Dedup, FromCache, Decide, ReadFails, Unreadable, Insert
<1>6. ASSUME NEW t \in Task, ReadPrefs(t)
      PROVE  MuteInv'
  <2>1. /\ task'[t].since = now /\ task'[t].known = on
        /\ \A u \in Task \ {t} : task'[u] = task[u]
    BY <1>0, <1>6 DEF ReadPrefs, TaskType
  <2>2. UNCHANGED <<on, onUntil, cache, now>>
    BY <1>6 DEF ReadPrefs
  <2> QED
    BY <1>0, <2>1, <2>2 DEF MuteInv
<1>7. ASSUME NEW t \in Task, FillCache(t)
      PROVE  MuteInv'
  <2>1. /\ \A u \in Task \ {t} : task'[u] = task[u]
        /\ task'[t].at # "read"
    BY <1>4, <1>7 DEF FillCache, Decide
  <2>2. /\ UNCHANGED <<on, onUntil, now>> /\ task[t].at = "read"
        /\ cache' = [cache EXCEPT ![On[t]] = [on |-> task[t].known, until |-> task[t].since + Ttl]]
    BY <1>7 DEF FillCache, Expiry
  <2>3. task[t].known => task[t].since + Ttl <= onUntil + Ttl
    BY <1>0, <2>2 DEF MuteInv, TaskType
  <2>4. \A p \in Proc : cache'[p].on => cache'[p].until <= onUntil + Ttl
    BY <1>0, <2>2, <2>3 DEF MuteInv
  <2> QED
    BY <1>0, <2>1, <2>2, <2>4 DEF MuteInv
<1>8. ASSUME NEW p \in Proc, cache' = [cache EXCEPT ![p] = Unknown],
             UNCHANGED <<on, onUntil, now>>,
             \A t \in Task : task'[t] = task[t] \/ task'[t] = Idle
      PROVE  MuteInv'
  <2>1. \A q \in Proc : cache'[q].on => cache'[q].until <= onUntil + Ttl
    BY <1>0, <1>8 DEF MuteInv, Unknown
  <2>2. \A t \in Task : task'[t].at = "read" => task'[t] = task[t]
    BY <1>8 DEF Idle
  <2> QED
    BY <1>0, <1>8, <2>1, <2>2 DEF MuteInv
<1>9. ASSUME NEW p \in Proc, EvictLocal(p) \/ Deliver(p) \/ Crash(p)
      PROVE  MuteInv'
  BY <1>8, <1>9 DEF EvictLocal, Deliver, Crash
<1>10. CASE Write
  <2>1. onUntil' = now /\ UNCHANGED <<task, cache, now>>
    BY <1>10 DEF Write
  <2>2. \A p \in Proc : cache'[p].on => cache'[p].until <= onUntil' + Ttl
    BY <1>0, <2>1 DEF MuteInv
  <2> QED
    BY <1>0, <2>1, <2>2 DEF MuteInv
<1>11. CASE Clock
  <2>1. /\ now' = now + 1 /\ UNCHANGED <<task, cache, on>>
        /\ onUntil' = (IF on THEN now + 1 ELSE onUntil)
        /\ \A t \in Task : task[t].at # "read"
    BY <1>11 DEF Clock
  <2>2. onUntil <= onUntil' /\ onUntil' <= now' /\ onUntil' \in Nat
    BY <1>0, <2>1 DEF MuteInv
  <2>3. \A p \in Proc : cache'[p].on => cache'[p].until <= onUntil' + Ttl
    BY <1>0, <2>1, <2>2 DEF MuteInv
  <2> QED
    BY <2>1, <2>2, <2>3 DEF MuteInv
<1>12. CASE UNCHANGED <<task, on, onUntil, cache, now>>
  BY <1>12 DEF MuteInv
<1> QED
  BY <1>2, <1>3, <1>5, <1>6, <1>7, <1>9, <1>10, <1>11, <1>12
     DEF Next, Polls, vars, SessionLost, Notice, Notify, Disconnect, Reconnect, Happen

(* The inductive invariant holds in every state.                           *)
THEOREM Invariance == Spec => []IInv
<1>1. IInv /\ [Next]_vars => IInv'
  BY TypeStep, ElectionStep, HoldStep, TraceStep, MuteStep DEF IInv, NotesInv
<1> QED
  BY InitInv, <1>1, PTL DEF Spec

(* Whatever sessions are lost and replicas die, one replica at most polls  *)
(* with a session that exists, and an event fires once, again only after   *)
(* its row was cleaned up (notificationGenerator.ts:12-15, 546-548).       *)
THEOREM NoticesSafe == Spec => []NoticesInv
<1>1. IInv => NoticesInv
  BY DEF IInv, ElectionInv, NotesInv, CountInv, NoticesInv, NotedOnce
<1> QED
  BY Invariance, <1>1, PTL

(* An event is dropped without a trace only by a muted source or by a      *)
(* fault between its dedup row and its notification                        *)
(* (notificationGenerator.ts:156-158).                                     *)
THEOREM DropsExplained == Spec => []DroppedByFaultOnly
<1>1. IInv => DroppedByFaultOnly
  BY DEF IInv, NotesInv, TraceInv, DroppedByFaultOnly
<1> QED
  BY Invariance, <1>1, PTL

(* A source that was muted stops firing within the life of a cache entry,  *)
(* however the eviction and the fills of the caches race, and however      *)
(* often the setting is changed (pubsub.ts:9-10).                          *)
THEOREM MutedInTime == Spec => MutedWithinTtl
<1>1. ASSUME IInv, [Next]_vars
      PROVE  [\A t \in Task :
               (task[t].at \in {"prefs", "read"} /\ task'[t].at = "insert" /\ faults' = faults)
                 => now - onUntil < Ttl]_vars
  <2> SUFFICES ASSUME Next, NEW t \in Task, task[t].at \in {"prefs", "read"},
                      task'[t].at = "insert", faults' = faults
               PROVE  now - onUntil < Ttl
    BY <1>1 DEF vars
  <2>0. /\ task \in [Task -> TaskType] /\ now \in Nat /\ onUntil \in Nat /\ faults \in Nat
        /\ cache \in [Proc -> [on : BOOLEAN, until : Nat]]
    BY <1>1, Bounds DEF IInv, TypeOK, TaskType
  <2>1. PICK u \in Task : FromCache(u) \/ FillCache(u)
    <3>1. ASSUME NEW u \in Task, Tick(u) \/ ReadPrefs(u) \/ DedupFails(u) \/ InsertFails(u)
                                 \/ Finish(u) \/ \E e \in Event : Take(u, e)
          PROVE  FALSE
      <4>1. task'[u].at # "insert"
        <5>1. CASE Tick(u)
          BY <2>0, <5>1 DEF Tick, Idle
        <5>2. CASE DedupFails(u) \/ InsertFails(u)
          BY <2>0, <5>2 DEF DedupFails, InsertFails, GiveUp, Idle
        <5>3. CASE Finish(u) \/ ReadPrefs(u)
          BY <2>0, <5>3 DEF Finish, ReadPrefs, Idle, TaskType
        <5>4. CASE \E e \in Event : Take(u, e)
          BY <2>0, <5>4 DEF Take, TaskType
        <5> QED
          BY <3>1, <5>1, <5>2, <5>3, <5>4
      <4>2. \A v \in Task \ {u} : task'[v] = task[v]
        BY <2>0, <3>1 DEF Tick, ReadPrefs, DedupFails, InsertFails, Finish, Take, GiveUp
      <4> QED
        BY <4>1, <4>2
    <3>2. ASSUME NEW u \in Task, Dedup(u) \/ Insert(u)
          PROVE  FALSE
      <4>1. task'[u].at # "insert"
        BY <2>0, <3>2 DEF Dedup, Insert, Resume, TaskType
      <4>2. \A v \in Task \ {u} : task'[v] = task[v]
        BY <2>0, <3>2 DEF Dedup, Insert, Resume
      <4> QED
        BY <4>1, <4>2
    <3>3. ASSUME NEW u \in Task, ReadFails(u)
          PROVE  FALSE
      BY <2>0, <3>3 DEF ReadFails, Fault
    <3>4. ASSUME NEW p \in Proc, Crash(p)
          PROVE  FALSE
      BY <3>4 DEF Crash, Idle
    <3>5. CASE UNCHANGED task
      BY <3>5
    <3> QED
      BY <3>1, <3>2, <3>3, <3>4, <3>5
         DEF Next, Polls, SessionLost, Notice, Write, EvictLocal, Notify, Deliver, Disconnect,
             Reconnect, Happen, Clock
  <2>2. u = t
    BY <2>0, <2>1 DEF FromCache, FillCache, Decide, Resume
  <2>3. CASE FromCache(t)
    <3>1. cache[On[t]].on /\ cache[On[t]].until > now
      BY <2>0, <2>3 DEF FromCache, Fresh, Decide, Resume, TaskType
    <3> QED
      BY <1>1, <2>0, <3>1, Bounds DEF IInv, MuteInv
  <2>4. CASE FillCache(t)
    <3>1. task[t].known /\ task[t].at = "read"
      BY <2>0, <2>4 DEF FillCache, Decide, Resume, TaskType
    <3> QED
      BY <1>1, <2>0, <3>1, Bounds DEF IInv, MuteInv
  <2> QED
    BY <2>1, <2>2, <2>3, <2>4
<1> QED
  BY Invariance, <1>1, PTL DEF Spec, MutedWithinTtl

=============================================================================
