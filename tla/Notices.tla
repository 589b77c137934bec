------------------------------- MODULE Notices -------------------------------
(***************************************************************************)
(* The background poller that turns what connectors report into            *)
(* notifications (lib/notificationGenerator.ts): the election of one       *)
(* polling replica by an advisory lock of the database, the table          *)
(* notification_dedup that fires an event once, and the tenant's setting   *)
(* that mutes a source, cached by every replica for a minute and evicted   *)
(* over LISTEN/NOTIFY (lib/pubsub.ts) when it is changed                   *)
(* (PUT /settings/notifications in routes/settings.ts).                    *)
(*                                                                         *)
(* One tenant, one source, one connector; an event stays in the lists of   *)
(* the connector once it has happened. setInterval does not wait for a     *)
(* tick to end, so a process may have several under way.                   *)
(***************************************************************************)
EXTENDS Integers, FiniteSets

CONSTANTS
  Proc,        \* replicas
  Task,        \* ticks under way at a time
  On,          \* On[t]: the replica of tick t
  Event,       \* what the connector may report
  Nobody,      \* the advisory lock is free
  Ttl,         \* NOTIFY_PREFS_TTL_MS, in ticks of the clock
  MaxTime,     \* bound: the clock
  MaxPuts,     \* bound: changes of the setting
  MaxFaults,   \* bound: queries that fail, sessions and messages that are lost
  MaxCrashes,  \* bound: crashes
  MaxCleanups  \* bound: dedup rows that get older than DEDUP_TTL_DAYS

ASSUME NoticesAssumption ==
  /\ On \in [Task -> Proc]
  /\ Nobody \notin Proc
  /\ Ttl \in Nat \ {0}
  /\ {MaxTime, MaxPuts, MaxFaults, MaxCrashes, MaxCleanups} \subseteq Nat

VARIABLES
  lock,       \* the replica whose session holds the advisory lock
  leader,     \* the replicas with a leaderClient
  gone,       \* the leaders whose session has ended without their knowing
  task,       \* task[t]: tick t
  happened,   \* the events the connector lists
  dedup,      \* table notification_dedup
  notes,      \* notes[e]: notifications of event e
  seen,       \* seen[p]: seenKeys
  on,         \* the setting of the tenant: the source is not muted
  cache,      \* cache[p]: the setting as p knows it, and until when
  put,        \* the change of the setting under way
  listening,  \* the replicas whose LISTEN connection is up
  evicts,     \* the replicas a notification is on the way to
  now,
  puts, faults, crashes, cleanups,
  onUntil,    \* history: when the source was on last
  silenced,   \* history: the events that found it muted
  lost        \* history: the events a fault hit after their dedup row was written

election == <<lock, leader, gone>>
table == <<dedup, notes>>
setting == <<on, put, puts, onUntil>>
caches == <<cache, listening, evicts>>
history == <<silenced, lost>>
vars == <<election, task, happened, table, seen, setting, caches, now, faults, crashes,
          cleanups, history>>

NoEvent == "none"
Idle == [at |-> "idle", left |-> {}, ev |-> NoEvent, known |-> TRUE, since |-> 0]
Unknown == [on |-> TRUE, until |-> 0]

TypeOK ==
  /\ lock \in Proc \cup {Nobody} /\ gone \subseteq leader /\ leader \subseteq Proc
  /\ task \in [Task -> [at : {"idle", "poll", "dedup", "prefs", "read", "insert"},
                        left : SUBSET Event, ev : Event \cup {NoEvent},
                        known : BOOLEAN, since : 0..MaxTime]]
  /\ {happened, dedup, silenced, lost} \subseteq SUBSET Event
  /\ notes \in [Event -> Nat]
  /\ seen \in [Proc -> SUBSET Event]
  /\ on \in BOOLEAN /\ put \in {"idle", "written", "local"}
  /\ cache \in [Proc -> [on : BOOLEAN, until : 0..(MaxTime + Ttl)]]
  /\ listening \subseteq Proc /\ evicts \subseteq Proc
  /\ now \in 0..MaxTime /\ onUntil \in 0..MaxTime
  /\ puts \in 0..MaxPuts /\ faults \in 0..MaxFaults
  /\ crashes \in 0..MaxCrashes /\ cleanups \in 0..MaxCleanups

Init ==
  /\ lock = Nobody /\ leader = {} /\ gone = {}
  /\ task = [t \in Task |-> Idle]
  /\ happened = {} /\ dedup = {}
  /\ notes = [e \in Event |-> 0]
  /\ seen = [p \in Proc |-> {}]
  /\ on = TRUE /\ put = "idle"
  /\ cache = [p \in Proc |-> Unknown]
  /\ listening = Proc /\ evicts = {}
  /\ now = 0 /\ onUntil = 0
  /\ puts = 0 /\ faults = 0 /\ crashes = 0 /\ cleanups = 0
  /\ silenced = {} /\ lost = {}

Fault == faults < MaxFaults /\ faults' = faults + 1

----------------------------------------------------------------------------
(***************************************************************************)
(* The election                                                            *)
(***************************************************************************)

(* pg_try_advisory_lock of a new session of p.                             *)
LockFree(p) == lock = Nobody

(* tick: the leader, or who becomes it now, lists the connector's events;  *)
(* the others return.                                                      *)
Tick(t) ==
  LET p == On[t] IN
  /\ task[t].at = "idle"
  /\ \/ p \in leader /\ UNCHANGED election
     \/ /\ p \notin leader /\ LockFree(p)
        /\ lock' = p /\ leader' = leader \cup {p} /\ UNCHANGED gone
  /\ task' = [task EXCEPT ![t] = [Idle EXCEPT !.at = "poll", !.left = happened]]
  /\ UNCHANGED <<happened, table, seen, setting, caches, now, faults, crashes, cleanups,
                 history>>

(* The session of the leader ends, and with it the lock ...                *)
SessionLost(p) ==
  /\ lock = p /\ Fault
  /\ lock' = Nobody /\ gone' = gone \cup {p}
  /\ UNCHANGED <<leader, task, happened, table, seen, setting, caches, now, crashes,
                 cleanups, history>>

(* ... which the leader learns from the 'error' event. Its ticks go on.    *)
Notice(p) ==
  /\ p \in gone
  /\ gone' = gone \ {p} /\ leader' = leader \ {p}
  /\ UNCHANGED <<lock, task, happened, table, seen, setting, caches, now, faults, crashes,
                 cleanups, history>>

----------------------------------------------------------------------------
(***************************************************************************)
(* A tick: insertOnce for every event of the list                          *)
(***************************************************************************)

(* Tick t goes on with the rest of its list.                               *)
Resume(t) == task' = [task EXCEPT ![t] = [@ EXCEPT !.at = "poll", !.ev = NoEvent]]

(* An error ends the section of the list.                                  *)
GiveUp(t) == task' = [task EXCEPT ![t] = [Idle EXCEPT !.at = "poll"]]

Remember(t) == seen' = [seen EXCEPT ![On[t]] = @ \cup {task[t].ev}]

Take(t, e) ==
  /\ task[t].at = "poll" /\ e \in task[t].left
  /\ task' = [task EXCEPT ![t].left = @ \ {e},
                          ![t].at = IF e \in seen[On[t]] THEN "poll" ELSE "dedup",
                          ![t].ev = IF e \in seen[On[t]] THEN NoEvent ELSE e]
  /\ UNCHANGED <<election, happened, table, seen, setting, caches, now, faults, crashes,
                 cleanups, history>>

(* Seeded fault: the row count of the INSERT is not looked at.             *)
NewEvenIfThere(e) == TRUE

(* INSERT ... ON CONFLICT DO NOTHING wrote a row.                          *)
NewRow(e) == e \notin dedup

Dedup(t) ==
  LET e == task[t].ev IN
  /\ task[t].at = "dedup"
  /\ dedup' = dedup \cup {e}
  /\ IF NewRow(e)
     THEN task' = [task EXCEPT ![t].at = "prefs"] /\ UNCHANGED seen
     ELSE Resume(t) /\ Remember(t)
  /\ UNCHANGED <<election, happened, notes, setting, caches, now, faults, crashes, cleanups,
                 history>>

(* Seeded fault: an event whose row could not be written counts as seen.   *)
ForgottenOnError(t) == Remember(t)

(* What a failed INSERT leaves in seenKeys.                                *)
AfterError(t) == UNCHANGED seen

DedupFails(t) ==
  /\ task[t].at = "dedup" /\ Fault
  /\ GiveUp(t) /\ AfterError(t)
  /\ UNCHANGED <<election, happened, table, setting, caches, now, crashes, cleanups, history>>

(* The setting decides. Muted: nothing is written, and the dedup row stays *)
(* so that the event does not fire later.                                  *)
Decide(t, isOn) ==
  /\ IF isOn
     THEN task' = [task EXCEPT ![t].at = "insert"] /\ UNCHANGED <<seen, silenced>>
     ELSE /\ Resume(t) /\ Remember(t)
          /\ silenced' = silenced \cup {task[t].ev}
  /\ UNCHANGED lost

(* Seeded fault: an entry of the cache never expires.                      *)
FreshForEver(p) == cache[p].until > 0

Fresh(p) == cache[p].until > now

(* isSourceEnabled, from the cache.                                        *)
FromCache(t) ==
  LET p == On[t] IN
  /\ task[t].at = "prefs" /\ Fresh(p)
  /\ Decide(t, cache[p].on)
  /\ UNCHANGED <<election, happened, table, setting, caches, now, faults, crashes, cleanups>>

(* Or from the database: the row is read ...                               *)
ReadPrefs(t) ==
  /\ task[t].at = "prefs" /\ ~Fresh(On[t])
  /\ task' = [task EXCEPT ![t].at = "read", ![t].known = on, ![t].since = now]
  /\ UNCHANGED <<election, happened, table, seen, setting, caches, now, faults, crashes,
                 cleanups, history>>

Expiry(t) == task[t].since + Ttl

(* ... and cached when the answer arrives, whatever was evicted meanwhile. *)
FillCache(t) ==
  /\ task[t].at = "read"
  /\ cache' = [cache EXCEPT ![On[t]] = [on |-> task[t].known, until |-> Expiry(t)]]
  /\ Decide(t, task[t].known)
  /\ UNCHANGED <<election, happened, table, setting, listening, evicts, now, faults, crashes,
                 cleanups>>

(* Seeded fault: an error of the read ends the section of the list.        *)
UnreadableThrows(t) == GiveUp(t)

(* A setting that cannot be read does not mute.                            *)
Unreadable(t) == task' = [task EXCEPT ![t].at = "insert"]

ReadFails(t) ==
  /\ task[t].at = "read" /\ Fault
  /\ Unreadable(t)
  /\ UNCHANGED <<election, happened, table, seen, setting, caches, now, crashes, cleanups,
                 history>>

(* INSERT INTO notifications.                                              *)
Insert(t) ==
  /\ task[t].at = "insert"
  /\ notes' = [notes EXCEPT ![task[t].ev] = @ + 1]
  /\ Resume(t) /\ Remember(t)
  /\ UNCHANGED <<election, happened, dedup, setting, caches, now, faults, crashes, cleanups,
                 history>>

(* It fails: the dedup row stays, and the event never fires.               *)
InsertFails(t) ==
  /\ task[t].at = "insert" /\ Fault
  /\ GiveUp(t)
  /\ lost' = lost \cup {task[t].ev}
  /\ UNCHANGED <<election, happened, table, seen, setting, caches, now, crashes, cleanups,
                 silenced>>

(* runDedupCleanup, of every so many ticks and of every boot, removes rows *)
(* older than thirty days, which no tick is about to use.                  *)
Cleanup(busy) ==
  \/ UNCHANGED <<dedup, cleanups>>
  \/ /\ cleanups < MaxCleanups /\ cleanups' = cleanups + 1
     /\ \E e \in dedup \ busy : dedup' = dedup \ {e}

InHand(tasks) == {task[t].ev : t \in tasks}

Finish(t) ==
  /\ task[t].at = "poll" /\ task[t].left = {}
  /\ task' = [task EXCEPT ![t] = Idle]
  /\ Cleanup(InHand(Task))
  /\ UNCHANGED <<election, happened, notes, seen, setting, caches, now, faults, crashes,
                 history>>

----------------------------------------------------------------------------
(***************************************************************************)
(* PUT /settings/notifications, and what evicts the caches                 *)
(***************************************************************************)

(* The row is written ...                                                  *)
Write ==
  /\ put = "idle" /\ puts < MaxPuts /\ puts' = puts + 1
  /\ on' = ~on /\ put' = "written"
  /\ onUntil' = now
  /\ UNCHANGED <<election, task, happened, table, seen, caches, now, faults, crashes,
                 cleanups, history>>

(* ... the replica that serves the request forgets its entry ...           *)
EvictLocal(p) ==
  /\ put = "written"
  /\ cache' = [cache EXCEPT ![p] = Unknown]
  /\ put' = "local"
  /\ UNCHANGED <<election, task, happened, table, seen, on, puts, onUntil, listening, evicts,
                 now, faults, crashes, cleanups, history>>

(* ... and pg_notify reaches who listens; it may fail.                     *)
Notify ==
  /\ put = "local" /\ put' = "idle"
  /\ \/ evicts' = evicts \cup listening /\ UNCHANGED faults
     \/ Fault /\ UNCHANGED evicts
  /\ UNCHANGED <<election, task, happened, table, seen, on, puts, onUntil, cache, listening,
                 now, crashes, cleanups, history>>

Deliver(p) ==
  /\ p \in evicts /\ evicts' = evicts \ {p}
  /\ cache' = [cache EXCEPT ![p] = Unknown]
  /\ UNCHANGED <<election, task, happened, table, seen, setting, listening, now, faults,
                 crashes, cleanups, history>>

(* The LISTEN connection breaks: what is on the way is lost, and what is   *)
(* sent until it is up again.                                              *)
Disconnect(p) ==
  /\ p \in listening /\ Fault
  /\ listening' = listening \ {p} /\ evicts' = evicts \ {p}
  /\ UNCHANGED <<election, task, happened, table, seen, setting, cache, now, crashes,
                 cleanups, history>>

Reconnect(p) ==
  /\ p \notin listening /\ listening' = listening \cup {p}
  /\ UNCHANGED <<election, task, happened, table, seen, setting, cache, evicts, now, faults,
                 crashes, cleanups, history>>

----------------------------------------------------------------------------

(* The connector gets something to report.                                 *)
Happen(e) ==
  /\ e \notin happened /\ happened' = happened \cup {e}
  /\ UNCHANGED <<election, task, table, seen, setting, caches, now, faults, crashes, cleanups,
                 history>>

(* Half a minute; a query is answered faster.                              *)
Clock ==
  /\ now < MaxTime /\ now' = now + 1
  /\ \A t \in Task : task[t].at # "read"
  /\ onUntil' = IF on THEN now + 1 ELSE onUntil
  /\ UNCHANGED <<election, task, happened, table, seen, on, put, puts, caches, faults, crashes,
                 cleanups, history>>

(* A replica dies and is started again.                                    *)
Crash(p) ==
  LET own == {t \in Task : On[t] = p} IN
  /\ crashes < MaxCrashes /\ crashes' = crashes + 1
  /\ lock' = IF lock = p THEN Nobody ELSE lock
  /\ leader' = leader \ {p} /\ gone' = gone \ {p}
  /\ task' = [t \in Task |-> IF t \in own THEN Idle ELSE task[t]]
  /\ lost' = lost \cup InHand({t \in own : task[t].at \in {"prefs", "read", "insert"}})
  /\ seen' = [seen EXCEPT ![p] = {}]
  /\ cache' = [cache EXCEPT ![p] = Unknown]
  /\ evicts' = evicts \ {p}
  /\ Cleanup(InHand(Task \ own))
  /\ UNCHANGED <<happened, notes, setting, listening, now, faults, silenced>>

Polls(t) ==
  \/ Tick(t) \/ Dedup(t) \/ FromCache(t) \/ ReadPrefs(t) \/ FillCache(t)
  \/ Insert(t) \/ Finish(t)
  \/ \E e \in Event : Take(t, e)

Next ==
  \/ \E t \in Task : Polls(t) \/ DedupFails(t) \/ ReadFails(t) \/ InsertFails(t)
  \/ \E p \in Proc : SessionLost(p) \/ Notice(p) \/ EvictLocal(p) \/ Deliver(p)
                     \/ Disconnect(p) \/ Reconnect(p) \/ Crash(p)
  \/ \E e \in Event : Happen(e)
  \/ Write \/ Notify \/ Clock

Spec == Init /\ [][Next]_vars

(* Timers fire and queries are answered, whichever replica has the lock.   *)
FairSpec ==
  /\ Spec
  /\ \A t \in Task : WF_vars(Polls(t))
  /\ \A p \in Proc : WF_vars(Notice(p))

----------------------------------------------------------------------------
(***************************************************************************)
(* Properties                                                              *)
(***************************************************************************)

(* An event fires once, however many ticks and replicas see it, across     *)
(* crashes and changes of the leader; again only after its dedup row was   *)
(* cleaned up (notificationGenerator.ts:12-15).                            *)
NotedOnce == \A e \in Event : notes[e] <= 1 + cleanups

(* Whatever sessions are lost and replicas die, at most one replica polls  *)
(* with a session that still exists (notificationGenerator.ts:546-548).    *)
OneLeader == \A p \in leader \ gone : lock = p

(* One leader polls, and an event fires once (OneLeader, NotedOnce), in    *)
(* every state of the election and of the ticks                            *)
(* (notificationGenerator.ts:12-15, 546-548).                              *)
NoticesInv == TypeOK /\ NotedOnce /\ OneLeader

(* An event is dropped without a trace only by a muted source, or by a     *)
(* crash or a failed INSERT between its dedup row and its notification; a  *)
(* setting that cannot be read drops nothing                               *)
(* (notificationGenerator.ts:156-158).                                     *)
DroppedByFaultOnly ==
  \A e \in dedup : notes[e] = 0 =>
    e \in silenced \cup lost \/ \E t \in Task : task[t].ev = e

(* A source that was muted stops firing within the life of a cache entry,  *)
(* even when the eviction is lost or overtaken by a fill, unless the       *)
(* setting cannot be read (pubsub.ts:9-10).                                *)
MutedWithinTtl ==
  [][\A t \in Task :
       (task[t].at \in {"prefs", "read"} /\ task'[t].at = "insert" /\ faults' = faults)
         => now - onUntil < Ttl]_vars

(* What has happened is noticed, or was muted, or was lost to a fault: the *)
(* death of the leader, or of its session, does not stop the polling.      *)
NotedEventually ==
  \A e \in Event : e \in happened ~> notes[e] > 0 \/ e \in silenced \cup lost

=============================================================================
