------------------------------- MODULE TtlCache -------------------------------
(***************************************************************************)
(* The cache behind GET /api/connectors and GET /api/fleet/kpi             *)
(* (lib/ttlCache.ts): one computation per key at a time, whose answer all  *)
(* requests share; an entry past its time is served once more while a new  *)
(* one is computed; what fails is not kept; and a change of the connectors *)
(* clears all entries, of the replica that serves the change               *)
(* (routes/connectors.ts).                                                 *)
(*                                                                         *)
(* The keys are tenants, a value is known by the version of the tenant's   *)
(* rows it was read from. Not modelled: the pruning of the entries beyond  *)
(* 500 tenants.                                                            *)
(***************************************************************************)
EXTENDS Integers, Sequences

CONSTANTS
  Key,        \* the tenants
  Caller,     \* requests under way at a time
  NoKey,      \* no tenant
  Ttl,        \* FLEET_LIST_CACHE_MS, in ticks of the clock
  MaxStale,   \* maxStaleMs
  Fanout,     \* the time limit of the requests to the connectors
  MaxTime,    \* bound: the clock
  MaxVersion, \* bound: changes of a tenant's rows
  MaxFaults   \* bound: computations that fail

ASSUME CacheAssumption ==
  /\ NoKey \notin Key
  /\ {Ttl, Fanout} \subseteq Nat \ {0} /\ MaxStale \in Nat /\ MaxStale >= Ttl
  /\ {MaxTime, MaxVersion, MaxFaults} \subseteq Nat

VARIABLES
  version,  \* version[k]: of the rows of tenant k
  caller,   \* caller[r]: request r
  store,    \* store[k]: the entry of the cache
  inflight, \* inflight[k]: the computations for k that have not ended
  now,
  faults,
  cleared,  \* history: the versions at the last clear
  age       \* history: how long ago the rows were read that were last answered with

cacheVars == <<version, caller, store, inflight, now, faults, cleared, age>>

NoCall == [at |-> "idle", key |-> NoKey]
NoEntry == [there |-> FALSE, at |-> 0, read |-> 0, version |-> 0, late |-> FALSE]

CacheTypeOK ==
  /\ version \in [Key -> 0..MaxVersion] /\ cleared \in [Key -> 0..MaxVersion]
  /\ caller \in [Caller -> [at : {"idle", "clear", "wait"}, key : Key \cup {NoKey}]]
  /\ \A r \in Caller : caller[r].at = "wait" => inflight[caller[r].key] # <<>>
  /\ store \in [Key -> [there : BOOLEAN, at : 0..MaxTime, read : 0..MaxTime,
                        version : 0..MaxVersion, late : BOOLEAN]]
  /\ \A k \in Key : \A i \in 1..Len(inflight[k]) :
       inflight[k][i] \in [since : 0..MaxTime, at : {"start", "fanout"}, read : 0..MaxTime,
                           version : 0..MaxVersion, late : BOOLEAN]
  /\ now \in 0..MaxTime /\ age \in 0..MaxTime /\ faults \in 0..MaxFaults

CacheInit ==
  /\ version = [k \in Key |-> 0] /\ cleared = version
  /\ caller = [r \in Caller |-> NoCall]
  /\ store = [k \in Key |-> NoEntry]
  /\ inflight = [k \in Key |-> <<>>]
  /\ now = 0 /\ faults = 0 /\ age = 0

----------------------------------------------------------------------------
(***************************************************************************)
(* Changes: POST, PUT and DELETE of a connector                            *)
(***************************************************************************)

(* The rows of k are written, for a request to this replica or another ... *)
Change(r, k) ==
  /\ caller[r].at = "idle" /\ version[k] < MaxVersion
  /\ version' = [version EXCEPT ![k] = @ + 1]
  /\ \/ caller' = [caller EXCEPT ![r] = [NoCall EXCEPT !.at = "clear"]]
     \/ UNCHANGED caller
  /\ UNCHANGED <<store, inflight, now, faults, cleared, age>>

(* Seeded fault: only what has expired is dropped.                         *)
DropExpired == [k \in Key |-> IF now - store[k].at >= Ttl THEN NoEntry ELSE store[k]]

(* clear: the entries of all tenants,                                      *)
Cleared == [k \in Key |-> NoEntry]

(* ... and this one clears its cache. What is being computed goes on.      *)
Clear(r) ==
  /\ caller[r].at = "clear" /\ caller' = [caller EXCEPT ![r] = NoCall]
  /\ store' = Cleared
  /\ cleared' = version
  /\ inflight' = [k \in Key |-> [i \in 1..Len(inflight[k]) |->
                   [inflight[k][i] EXCEPT !.late = @ \/ inflight[k][i].at = "fanout"]]]
  /\ UNCHANGED <<version, age, now, faults>>

----------------------------------------------------------------------------
(***************************************************************************)
(* getOrCompute                                                            *)
(***************************************************************************)

AgeOf(k) == now - store[k].at

(* Younger than the TTL: served.                                           *)
Fresh(k) == store[k].there /\ AgeOf(k) < Ttl

(* Older, but not too old: served while a new one is computed.             *)
Stale(k) == store[k].there /\ AgeOf(k) >= Ttl /\ AgeOf(k) < MaxStale

Computing(k) == inflight[k] # <<>>

(* refresh: a computation is begun, unless there is one.                   *)
Refresh(k) ==
  inflight' = IF Computing(k) THEN inflight
              ELSE [inflight EXCEPT ![k] = Append(@,
                     [since |-> now, at |-> "start", read |-> now, version |-> 0,
                      late |-> FALSE])]

Serve(k) == age' = now - store[k].read

Hit(k) ==
  /\ Fresh(k) /\ Serve(k)
  /\ UNCHANGED <<version, caller, store, inflight, now, faults, cleared>>

HitStale(k) ==
  /\ Stale(k) /\ Serve(k) /\ Refresh(k)
  /\ UNCHANGED <<version, caller, store, now, faults, cleared>>

(* Nothing to serve: the request waits for the computation.                *)
Miss(r, k) ==
  /\ caller[r].at = "idle" /\ ~Fresh(k) /\ ~Stale(k)
  /\ caller' = [caller EXCEPT ![r] = [at |-> "wait", key |-> k]]
  /\ Refresh(k)
  /\ UNCHANGED <<version, store, now, faults, cleared, age>>

(* A computation reads the rows, and asks the connectors for their state.  *)
ReadRows(k) ==
  \E i \in 1..Len(inflight[k]) :
    /\ inflight[k][i].at = "start"
    /\ inflight' = [inflight EXCEPT ![k][i] =
                      [@ EXCEPT !.at = "fanout", !.read = now, !.version = version[k]]]
    /\ UNCHANGED <<version, caller, store, now, faults, cleared, age>>

(* It ends, well or not: the next request begins a new one, and who waits  *)
(* has the answer or the error.                                            *)
Release(k, failed) ==
  /\ inflight' = [inflight EXCEPT ![k] = Tail(@)]
  /\ caller' = [r \in Caller |-> IF caller[r].key = k THEN NoCall ELSE caller[r]]

(* The answer is kept ...                                                  *)
Settle(k) ==
  LET x == Head(inflight[k]) IN
  /\ inflight[k] # <<>> /\ x.at = "fanout" /\ Release(k, FALSE)
  /\ store' = [store EXCEPT ![k] = [there |-> TRUE, at |-> now, read |-> x.read,
                                    version |-> x.version, late |-> x.late]]
  /\ age' = IF \E r \in Caller : caller[r].key = k THEN now - x.read ELSE age
  /\ UNCHANGED <<version, now, faults, cleared>>

(* ... the error is not, and what was in the cache stays.                  *)
Reject(k) ==
  /\ inflight[k] # <<>> /\ Head(inflight[k]).at = "start" /\ Release(k, TRUE)
  /\ faults < MaxFaults /\ faults' = faults + 1
  /\ UNCHANGED <<version, store, now, cleared, age>>

(* Every request to the connectors ends within its time limit.             *)
Clock ==
  /\ now < MaxTime /\ now' = now + 1
  /\ \A k \in Key : \A i \in 1..Len(inflight[k]) : now - inflight[k][i].since < Fanout
  /\ UNCHANGED <<version, caller, store, inflight, faults, cleared, age>>

CacheNext ==
  \/ \E r \in Caller : Clear(r) \/ \E k \in Key : Change(r, k) \/ Miss(r, k)
  \/ \E k \in Key : Hit(k) \/ HitStale(k) \/ ReadRows(k) \/ Settle(k) \/ Reject(k)
  \/ Clock

CacheSpec == CacheInit /\ [][CacheNext]_cacheVars

----------------------------------------------------------------------------
(***************************************************************************)
(* Properties                                                              *)
(***************************************************************************)

(* However many requests find the cache expired at once, one computation   *)
(* per tenant asks the connectors (ttlCache.ts:35-47).                     *)
SingleFlight == \A k \in Key : Len(inflight[k]) <= 1

(* Even while every refresh fails, no answer is older than the limit for   *)
(* stale values and the time of a computation together                     *)
(* (ttlCache.ts:9-10).                                                     *)
StaleBounded == age < MaxStale + Fanout

(* After a change made on this replica the list is not answered from       *)
(* before it, except by a computation that had read the rows when the      *)
(* cache was cleared (ttlCache.ts:75-76).                                  *)
ChangeShown ==
  \A k \in Key : store[k].there /\ store[k].version < cleared[k] => store[k].late

(* The cache as a whole: one computation at a time, and answers that are   *)
(* neither too old nor from before a change (ttlCache.ts:9-10, 35-47,      *)
(* 75-76), in every state of the requests.                                 *)
CacheInv == CacheTypeOK /\ SingleFlight /\ StaleBounded /\ ChangeShown

=============================================================================
