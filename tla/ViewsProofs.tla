----------------------------- MODULE ViewsProofs -----------------------------
(***************************************************************************)
(* Proofs about TtlCache, ProgressStream and TransferPage, which share no  *)
(* state, for any tenants, viewers, replicas, connectors, transfers and    *)
(* bounds.                                                                 *)
(*                                                                         *)
(* TtlCache: CacheInv speaks of the entries and of the last answer. Both   *)
(* come from computations in flight, so FlightInv says the same of those:  *)
(* how long ago they began and read the rows, and that one which read      *)
(* before the last clear is marked as late.                                *)
(*                                                                         *)
(* ProgressStream: Steady says how far a stream is before it has a         *)
(* subscriber, a timer or a reader, and that there is one of them at most. *)
(*                                                                         *)
(* TransferPage: Attempts follows the failures of a transfer through the   *)
(* page's notes of it, ListsInv says that lists only advance, which is why *)
(* a transfer that is over is not told again.                              *)
(***************************************************************************)
EXTENDS TtlCache, ProgressStream, TransferPage, SequenceTheorems, FiniteSetTheorems, TLAPS

Computation ==
  [since : 0..MaxTime, at : {"start", "fanout"}, read : 0..MaxTime,
   version : 0..MaxVersion, late : BOOLEAN]

(* A computation is not older than the time limit of the requests to the   *)
(* connectors, and has missed no clear.                                    *)
OnTime(x, time, clear) ==
  /\ x.since <= x.read /\ x.read <= time /\ time - x.since <= Fanout
  /\ x.at = "fanout" /\ x.version < clear => x.late

(* One computation per key, and who waits waits for one.                   *)
FlightInv ==
  /\ inflight \in [Key -> Seq(Computation)]
  /\ \A k \in Key : Computing(k) => Len(inflight[k]) = 1 /\ OnTime(inflight[k][1], now, cleared[k])
  /\ \A k \in Key : cleared[k] <= version[k]
  /\ \A r \in Caller : caller[r].at = "wait" =>
       caller[r].key \in Key /\ Computing(caller[r].key)

(* An entry was put in the cache after its rows were read, within the time *)
(* of a computation, and has missed no clear.                              *)
EntryInv ==
  \A k \in Key : store[k].there =>
    /\ store[k].read <= store[k].at /\ store[k].at <= now
    /\ store[k].at - store[k].read <= Fanout
    /\ store[k].version < cleared[k] => store[k].late

(* The variables without structure. *)
ScalarsOK ==
  /\ version \in [Key -> 0..MaxVersion] /\ cleared \in [Key -> 0..MaxVersion]
  /\ caller \in [Caller -> [at : {"idle", "clear", "wait"}, key : Key \cup {NoKey}]]
  /\ store \in [Key -> [there : BOOLEAN, at : 0..MaxTime, read : 0..MaxTime,
                        version : 0..MaxVersion, late : BOOLEAN]]
  /\ now \in 0..MaxTime /\ age \in 0..MaxTime /\ faults \in 0..MaxFaults

CacheIInv == ScalarsOK /\ FlightInv /\ EntryInv /\ StaleBounded

----------------------------------------------------------------------------

(* The constants, one by one.                                              *)
LEMMA CacheBounds ==
  /\ NoKey \notin Key
  /\ Ttl \in Nat /\ Ttl >= 1 /\ Fanout \in Nat /\ Fanout >= 1
  /\ MaxStale \in Nat /\ MaxStale >= Ttl
  /\ MaxTime \in Nat /\ MaxVersion \in Nat /\ MaxFaults \in Nat
BY CacheAssumption

(* Sequences of one element: the first is the only one.                    *)
LEMMA OnlyOne ==
  ASSUME NEW S, NEW s \in Seq(S), s # <<>> => Len(s) = 1
  PROVE  /\ s # <<>> <=> Len(s) = 1
         /\ s = <<>> <=> Len(s) = 0
         /\ s # <<>> => s[1] \in S /\ Head(s) = s[1] /\ Tail(s) = <<>>
<1>1. s = <<>> <=> Len(s) = 0
  BY EmptySeq
<1>2. s # <<>> => s[1] \in S /\ Head(s) = s[1]
  BY ElementOfSeq
<1>3. ASSUME s # <<>>
      PROVE  Tail(s) = <<>>
  <2>1. Tail(s) \in Seq(S) /\ Len(Tail(s)) = 0
    BY <1>3, HeadTailProperties
  <2> QED
    BY <2>1, EmptySeq
<1> QED
  BY <1>1, <1>2, <1>3

(* The invariant of the runs follows from the inductive one.               *)
LEMMA CacheInvFollows ==
  ASSUME CacheIInv
  PROVE  CacheInv
<1>1. SingleFlight
  <2> SUFFICES ASSUME NEW k \in Key PROVE Len(inflight[k]) <= 1
    BY DEF SingleFlight
  <2>1. CASE Computing(k)
    <3>1. Len(inflight[k]) = 1
      BY <2>1, Zenon DEF CacheIInv, FlightInv
    <3> QED
      BY <3>1
  <2>2. CASE inflight[k] = <<>>
    BY <2>2
  <2> QED
    BY <2>1, <2>2 DEF Computing
<1>2. ChangeShown
  BY DEF CacheIInv, EntryInv, ChangeShown
<1>3. CacheTypeOK
  <2>1. \A k \in Key : \A i \in 1..Len(inflight[k]) : inflight[k][i] \in Computation
    BY DEF CacheIInv, FlightInv
  <2> QED
    BY <2>1 DEF CacheIInv, ScalarsOK, FlightInv, Computing, Computation, CacheTypeOK
<1> QED
  BY <1>1, <1>2, <1>3 DEF CacheIInv, CacheInv

(* Initially the cache is empty and nothing is computed.                   *)
LEMMA CacheInitially == CacheInit => CacheIInv
<1> SUFFICES ASSUME CacheInit PROVE CacheIInv
  OBVIOUS
<1>1. ScalarsOK
  BY CacheBounds DEF CacheInit, ScalarsOK, NoCall, NoEntry
<1>2. FlightInv
  BY CacheBounds DEF CacheInit, FlightInv, Computing, NoCall
<1>3. EntryInv /\ StaleBounded
  BY CacheBounds DEF CacheInit, EntryInv, StaleBounded, NoEntry
<1> QED
  BY <1>1, <1>2, <1>3 DEF CacheIInv

(* What the beginning of a computation does, and what leaves it alone.     *)
LEMMA RefreshFlight ==
  ASSUME ScalarsOK, FlightInv, NEW k \in Key, Refresh(k)
  PROVE  /\ inflight' \in [Key -> Seq(Computation)]
         /\ \A q \in Key \ {k} : inflight'[q] = inflight[q]
         /\ Computing(k) => inflight' = inflight
         /\ ~Computing(k) =>
              /\ Computing(k)' /\ Len(inflight'[k]) = 1
              /\ inflight'[k][1] = [since |-> now, at |-> "start", read |-> now,
                                    version |-> 0, late |-> FALSE]
<1> DEFINE x == [since |-> now, at |-> "start", read |-> now, version |-> 0, late |-> FALSE]
<1>1. x \in Computation
  BY CacheBounds DEF ScalarsOK, Computation
<1>2. CASE Computing(k)
  BY <1>2 DEF Refresh, FlightInv
<1>3. CASE ~Computing(k)
  <2> HIDE DEF x
  <2>1. inflight[k] = <<>> /\ inflight[k] \in Seq(Computation) /\ Len(inflight[k]) = 0
    BY <1>3, EmptySeq DEF Computing, FlightInv
  <2>2. /\ Append(inflight[k], x) \in Seq(Computation) /\ Append(inflight[k], x) # <<>>
        /\ Len(Append(inflight[k], x)) = 1 /\ Append(inflight[k], x)[1] = x
    BY <1>1, <2>1, AppendProperties
  <2>3. inflight' = [inflight EXCEPT ![k] = Append(inflight[k], x)]
    BY <1>3 DEF Refresh, x
  <2>4. inflight'[k] = Append(inflight[k], x)
    BY <2>3 DEF FlightInv
  <2>5. inflight' \in [Key -> Seq(Computation)] /\ \A q \in Key \ {k} : inflight'[q] = inflight[q]
    BY <2>2, <2>3 DEF FlightInv
  <2> QED
    BY <1>3, <2>2, <2>4, <2>5, Zenon DEF Computing, x
<1> QED
  BY <1>2, <1>3

(* What the end of one does.                                               *)
LEMMA ReleaseFlight ==
  ASSUME ScalarsOK, FlightInv, NEW k \in Key, NEW failed, Computing(k), Release(k, failed)
  PROVE  /\ inflight' \in [Key -> Seq(Computation)]
         /\ \A q \in Key \ {k} : inflight'[q] = inflight[q]
         /\ ~Computing(k)'
         /\ Head(inflight[k]) = inflight[k][1] /\ inflight[k][1] \in Computation
<1>1. /\ inflight[k] \in Seq(Computation) /\ inflight[k] # <<>> /\ Len(inflight[k]) = 1
  BY DEF FlightInv, Computing
<1>2. /\ Tail(inflight[k]) = <<>> /\ Head(inflight[k]) = inflight[k][1]
      /\ inflight[k][1] \in Computation
  BY <1>1, OnlyOne
<1>3. inflight' = [inflight EXCEPT ![k] = <<>>]
  BY <1>2 DEF Release
<1> QED
  BY <1>2, <1>3 DEF FlightInv, Computing

(* Every step keeps the types.                                             *)
LEMMA ScalarsStep ==
  ASSUME ScalarsOK, FlightInv, EntryInv, [CacheNext]_cacheVars
  PROVE  ScalarsOK'
<1> USE CacheBounds DEF ScalarsOK
<1>1. ASSUME NEW r \in Caller, NEW k \in Key, Change(r, k)
      PROVE  ScalarsOK'
  <2>1. [NoCall EXCEPT !.at = "clear"] = [at |-> "clear", key |-> NoKey]
    BY DEF NoCall
  <2>2. version[k] + 1 \in 0..MaxVersion
    BY <1>1 DEF Change
  <2> QED
    BY <1>1, <2>1, <2>2 DEF Change
<1>2. ASSUME NEW r \in Caller, Clear(r)
      PROVE  ScalarsOK'
  BY <1>2 DEF Clear, Cleared, NoCall, NoEntry
<1>3. ASSUME NEW k \in Key, Hit(k) \/ HitStale(k)
      PROVE  ScalarsOK'
  BY <1>3 DEF Hit, HitStale, Serve, Fresh, Stale, EntryInv
<1>4. ASSUME NEW r \in Caller, NEW k \in Key, Miss(r, k)
      PROVE  ScalarsOK'
  BY <1>4 DEF Miss
<1>5. ASSUME NEW k \in Key, ReadRows(k) \/ Reject(k)
      PROVE  ScalarsOK'
  <2>1. CASE ReadRows(k)
    BY <2>1 DEF ReadRows
  <2>2. CASE Reject(k)
    <3>1. /\ caller' = [r \in Caller |-> IF caller[r].key = k THEN NoCall ELSE caller[r]]
          /\ faults < MaxFaults /\ faults' = faults + 1
          /\ UNCHANGED <<version, store, now, cleared, age>>
      BY <2>2 DEF Reject, Release
    <3> QED
      BY <3>1 DEF NoCall
  <2> QED
    BY <1>5, <2>1, <2>2
<1>6. ASSUME NEW k \in Key, Settle(k)
      PROVE  ScalarsOK'
  <2> DEFINE x == inflight[k][1]
  <2>1. x \in Computation /\ x.read <= now /\ Head(inflight[k]) = x
    BY <1>6, ReleaseFlight DEF Settle, Computing, FlightInv, OnTime
  <2>2. /\ store' = [store EXCEPT ![k] = [there |-> TRUE, at |-> now, read |-> x.read,
                                          version |-> x.version, late |-> x.late]]
        /\ age' \in {age, now - x.read}
        /\ caller' = [r \in Caller |-> IF caller[r].key = k THEN NoCall ELSE caller[r]]
        /\ UNCHANGED <<version, now, faults, cleared>>
    BY <1>6, <2>1 DEF Settle, Release
  <2>3. [there |-> TRUE, at |-> now, read |-> x.read, version |-> x.version, late |-> x.late]
          \in [there : BOOLEAN, at : 0..MaxTime, read : 0..MaxTime,
               version : 0..MaxVersion, late : BOOLEAN]
    BY <2>1 DEF Computation
  <2>4. age' \in 0..MaxTime
    BY <2>1, <2>2 DEF Computation
  <2> HIDE DEF x
  <2> QED
    BY <2>2, <2>3, <2>4 DEF NoCall
<1>7. CASE Clock \/ UNCHANGED cacheVars
  BY <1>7 DEF Clock, cacheVars
<1> QED
  BY <1>1, <1>2, <1>3, <1>4, <1>5, <1>6, <1>7 DEF CacheNext

(* A computation that is not as old as the limit is on time a tick later.  *)
LEMMA OnTimeNext ==
  ASSUME NEW x \in Computation, NEW time \in Nat, NEW clear,
         OnTime(x, time, clear), time - x.since < Fanout
  PROVE  OnTime(x, time + 1, clear)
BY CacheBounds DEF OnTime, Computation

(* Every step keeps what is known of the computations in flight.           *)
LEMMA FlightStep ==
  ASSUME ScalarsOK, FlightInv, [CacheNext]_cacheVars
  PROVE  FlightInv'
<1> USE CacheBounds DEF ScalarsOK
<1>0. ASSUME NEW k \in Key, Computing(k)
      PROVE  /\ inflight[k] \in Seq(Computation) /\ inflight[k] # <<>>
             /\ inflight[k][1] \in Computation
             /\ Len(inflight[k]) = 1 /\ OnTime(inflight[k][1], now, cleared[k])
  <2>1. inflight[k] \in Seq(Computation) /\ Len(inflight[k]) = 1 /\ OnTime(inflight[k][1], now, cleared[k])
    BY <1>0, Zenon DEF FlightInv, Computing
  <2> QED
    BY <1>0, <2>1, OnlyOne DEF Computing
<1>1. ASSUME NEW r \in Caller, NEW k \in Key, Change(r, k)
      PROVE  FlightInv'
  <2>1. \A q \in Caller : caller'[q].at = "wait" => caller'[q] = caller[q]
    BY <1>1 DEF Change, NoCall
  <2>2. /\ UNCHANGED <<inflight, now, cleared>>
        /\ \A q \in Key : version[q] <= version'[q]
    BY <1>1 DEF Change
  <2>3. \A q \in Key : cleared'[q] <= version'[q]
    BY <2>2, <1>1 DEF Change, FlightInv
  <2> QED
    BY <2>1, <2>2, <2>3 DEF FlightInv, Computing, OnTime
<1>2. ASSUME NEW r \in Caller, Clear(r)
      PROVE  FlightInv'
  <2>1. ASSUME NEW k \in Key
        PROVE  /\ inflight'[k] \in Seq(Computation)
               /\ inflight'[k] # <<>> <=> inflight[k] # <<>>
               /\ inflight'[k] # <<>> => Len(inflight'[k]) = 1 /\ OnTime(inflight'[k][1], now', cleared'[k])
    <3>0. inflight'[k] = [i \in 1..Len(inflight[k]) |->
                             [inflight[k][i] EXCEPT !.late = @ \/ inflight[k][i].at = "fanout"]]
      BY <1>2 DEF Clear
    <3>1. CASE ~Computing(k)
      <4>1. inflight[k] = <<>> /\ Len(inflight[k]) = 0
        BY <3>1, EmptySeq DEF Computing
      <4>2. inflight'[k] = <<>>
        BY <3>0, <4>1
      <4> QED
        BY <4>1, <4>2, EmptySeq DEF Computing
    <3>2. CASE Computing(k)
      <4> DEFINE x == inflight[k][1]
                 y == [x EXCEPT !.late = @ \/ x.at = "fanout"]
      <4>1. x \in Computation /\ Len(inflight[k]) = 1 /\ OnTime(x, now, cleared[k])
        BY <1>0, <3>2
      <4>2. y \in Computation
        <5>1. (x.late \/ x.at = "fanout") \in BOOLEAN
          OBVIOUS
        <5> QED
          BY <4>1, <5>1 DEF Computation
      <4>3. OnTime(y, now', cleared'[k])
        <5>1. /\ y.since = x.since /\ y.read = x.read /\ y.at = x.at
              /\ y.late = (x.late \/ x.at = "fanout")
          BY <4>1 DEF Computation
        <5>2. now' = now
          BY <1>2 DEF Clear
        <5> HIDE DEF x, y
        <5> QED
          BY <4>1, <5>1, <5>2 DEF OnTime
      <4>4. Len(inflight'[k]) = 1 /\ inflight'[k][1] = y /\ inflight'[k] \in Seq(Computation)
        BY <3>0, <4>1, <4>2
      <4>5. inflight'[k] # <<>>
        BY <4>4, EmptySeq DEF Computing
      <4> HIDE DEF y
      <4> QED
        BY <3>2, <4>3, <4>4, <4>5 DEF Computing
    <3> QED
      BY <3>1, <3>2
  <2>2. /\ inflight' \in [Key -> Seq(Computation)]
        /\ cleared' = version /\ UNCHANGED <<version, now>>
        /\ \A q \in Caller : caller'[q].at = "wait" => caller'[q] = caller[q]
    BY <1>2, <2>1 DEF Clear, NoCall
  <2> QED
    BY <2>1, <2>2 DEF FlightInv, Computing
<1>3. ASSUME NEW k \in Key, Refresh(k), UNCHANGED <<version, now, cleared>>,
             \A r \in Caller : caller'[r] = caller[r]
                               \/ caller'[r] = [at |-> "wait", key |-> k]
      PROVE  FlightInv'
  <2>1. inflight' \in [Key -> Seq(Computation)]
    BY <1>3, RefreshFlight
  <2>2. inflight'[k] # <<>> /\ Len(inflight'[k]) = 1 /\ OnTime(inflight'[k][1], now', cleared'[k])
    <3>1. CASE Computing(k)
      <4>1. inflight' = inflight
        BY <1>3, <3>1, RefreshFlight
      <4> QED
        BY <1>0, <1>3, <3>1, <4>1 DEF Computing, OnTime
    <3>2. CASE ~Computing(k)
      <4>1. /\ inflight'[k] # <<>> /\ Len(inflight'[k]) = 1
            /\ inflight'[k][1] = [since |-> now, at |-> "start", read |-> now,
                                  version |-> 0, late |-> FALSE]
        BY <1>3, <3>2, RefreshFlight DEF Computing
      <4>2. /\ inflight'[k][1].since = now /\ inflight'[k][1].read = now
            /\ inflight'[k][1].at = "start"
        BY <4>1
      <4> QED
        BY <1>3, <4>1, <4>2 DEF OnTime
    <3> QED
      BY <3>1, <3>2
  <2>3. \A q \in Key \ {k} : /\ inflight'[q] # <<>> <=> inflight[q] # <<>>
                             /\ inflight'[q] # <<>> => Len(inflight'[q]) = 1
                             /\ inflight'[q] # <<>> => OnTime(inflight'[q][1], now', cleared'[q])
    BY <1>0, <1>3, RefreshFlight DEF Computing, OnTime
  <2>4. ASSUME NEW q \in Key, inflight'[q] # <<>>
        PROVE  Len(inflight'[q]) = 1 /\ OnTime(inflight'[q][1], now', cleared'[q])
    <3>1. CASE q = k
      BY <2>2, <2>4, <3>1
    <3>2. CASE q # k
      <4>1. q \in Key \ {k}
        BY <3>2
      <4> QED
        BY <2>3, <2>4, <4>1, Zenon
    <3> QED
      BY <3>1, <3>2
  <2>5. \A q \in Key : cleared'[q] <= version'[q]
    BY <1>3 DEF FlightInv
  <2>6. \A r \in Caller : caller'[r].at = "wait" => caller'[r].key \in Key /\ inflight'[caller'[r].key] # <<>>
    <3>1. ASSUME NEW r \in Caller, caller'[r] = caller[r], caller'[r].at = "wait"
          PROVE  caller'[r].key \in Key /\ inflight'[caller'[r].key] # <<>>
      <4>1. caller'[r].key \in Key /\ inflight[caller'[r].key] # <<>>
        BY <3>1 DEF FlightInv, Computing
      <4>2. CASE caller'[r].key = k
        BY <2>2, <4>2
      <4>3. CASE caller'[r].key # k
        <5>1. caller'[r].key \in Key \ {k}
          BY <4>1, <4>3
        <5> QED
          BY <2>3, <4>1, <5>1, Zenon
      <4> QED
        BY <4>1, <4>2, <4>3
    <3>2. ASSUME NEW r \in Caller, caller'[r] = [at |-> "wait", key |-> k]
          PROVE  caller'[r].key \in Key /\ inflight'[caller'[r].key] # <<>>
      <4>1. caller'[r].key = k
        BY <3>2
      <4> QED
        BY <4>1, <2>2, Zenon
    <3> QED
      BY <1>3, <3>1, <3>2, Zenon
  <2> QED
    BY <2>1, <2>4, <2>5, <2>6, Zenon DEF FlightInv, Computing
<1>4. ASSUME NEW k \in Key, ReadRows(k)
      PROVE  FlightInv'
  <2>1. Computing(k)
    BY <1>4, EmptySeq DEF ReadRows, Computing
  <2> DEFINE x == inflight[k][1]
             y == [x EXCEPT !.at = "fanout", !.read = now, !.version = version[k]]
  <2>2. x \in Computation /\ Len(inflight[k]) = 1 /\ OnTime(x, now, cleared[k])
    BY <2>1, <1>0
  <2>3. inflight' = [inflight EXCEPT ![k] = [inflight[k] EXCEPT ![1] = y]]
    BY <1>4, <2>2 DEF ReadRows
  <2>4. y \in Computation
    BY <2>2 DEF Computation
  <2>5. OnTime(y, now', cleared'[k])
    <3>1. /\ y.since = x.since /\ y.read = now /\ y.at = "fanout" /\ y.version = version[k]
          /\ cleared[k] <= version[k] /\ UNCHANGED <<now, cleared>>
      BY <1>4, <2>2 DEF Computation, ReadRows, FlightInv
    <3> HIDE DEF y
    <3> QED
      BY <2>2, <3>1 DEF OnTime, Computation
  <2> HIDE DEF y
  <2>6. /\ [inflight[k] EXCEPT ![1] = y] \in Seq(Computation)
        /\ Len([inflight[k] EXCEPT ![1] = y]) = 1
        /\ [inflight[k] EXCEPT ![1] = y][1] = y
    BY <2>1, <2>2, <2>4, <1>0, ExceptSeq
  <2>7. Len(inflight'[k]) = 1 /\ inflight'[k][1] = y /\ inflight'[k] \in Seq(Computation)
    BY <2>3, <2>6 DEF FlightInv
  <2>8. inflight'[k] # <<>>
    BY <2>7, EmptySeq DEF Computing
  <2>9. inflight' \in [Key -> Seq(Computation)] /\ \A q \in Key \ {k} : inflight'[q] = inflight[q]
    BY <2>3, <2>6 DEF FlightInv
  <2>10. \A q \in Key \ {k} : /\ inflight'[q] # <<>> <=> inflight[q] # <<>>
                              /\ inflight'[q] # <<>> => Len(inflight'[q]) = 1
                              /\ inflight'[q] # <<>> => OnTime(inflight'[q][1], now', cleared'[q])
    <3>1. UNCHANGED <<now, cleared>>
      BY <1>4 DEF ReadRows
    <3> QED
      BY <1>0, <2>9, <3>1 DEF Computing
  <2>11. ASSUME NEW q \in Key, inflight'[q] # <<>>
        PROVE  Len(inflight'[q]) = 1 /\ OnTime(inflight'[q][1], now', cleared'[q])
    <3>1. CASE q = k
      BY <2>5, <2>7, <2>11, <3>1
    <3>2. CASE q # k
      <4>1. q \in Key \ {k}
        BY <3>2
      <4> QED
        BY <2>10, <2>11, <4>1, Zenon
    <3> QED
      BY <3>1, <3>2
  <2>12. UNCHANGED <<version, cleared, caller>>
    BY <1>4 DEF ReadRows
  <2>13. \A q \in Key : inflight'[q] # <<>> <=> inflight[q] # <<>>
    BY <2>1, <2>8, <2>9 DEF Computing
  <2> HIDE DEF ScalarsOK
  <2> QED
    BY <2>9, <2>11, <2>12, <2>13, Zenon DEF FlightInv, Computing
<1>5. ASSUME NEW k \in Key, NEW failed, Computing(k), Release(k, failed),
             UNCHANGED <<version, now, cleared>>
      PROVE  FlightInv'
  <2>1. /\ inflight' \in [Key -> Seq(Computation)]
        /\ \A q \in Key \ {k} : inflight'[q] = inflight[q]
        /\ ~inflight'[k] # <<>>
    BY <1>5, ReleaseFlight DEF Computing
  <2>2. \A r \in Caller : caller'[r].at = "wait" => caller'[r] = caller[r] /\ caller[r].key # k
    BY <1>5 DEF Release, NoCall
  <2>3. \A q \in Key \ {k} : /\ inflight'[q] # <<>> <=> inflight[q] # <<>>
                             /\ inflight'[q] # <<>> => Len(inflight'[q]) = 1
                             /\ inflight'[q] # <<>> => OnTime(inflight'[q][1], now', cleared'[q])
    BY <1>0, <1>5, <2>1 DEF Computing, OnTime
  <2>4. ASSUME NEW q \in Key, inflight'[q] # <<>>
        PROVE  Len(inflight'[q]) = 1 /\ OnTime(inflight'[q][1], now', cleared'[q])
    <3>1. CASE q = k
      BY <2>1, <2>4, <3>1
    <3>2. CASE q # k
      <4>1. q \in Key \ {k}
        BY <3>2
      <4> QED
        BY <2>3, <2>4, <4>1, Zenon
    <3> QED
      BY <3>1, <3>2
  <2>5. \A r \in Caller : caller'[r].at = "wait" => caller'[r].key \in Key /\ inflight'[caller'[r].key] # <<>>
    <3> SUFFICES ASSUME NEW r \in Caller, caller'[r].at = "wait"
                 PROVE  caller'[r].key \in Key /\ inflight'[caller'[r].key] # <<>>
      OBVIOUS
    <3>1. caller'[r] = caller[r] /\ caller[r].key # k
      BY <2>2
    <3>2. caller'[r].key \in Key \ {k} /\ inflight[caller'[r].key] # <<>>
      BY <3>1 DEF FlightInv, Computing
    <3> QED
      BY <2>1, <3>2
  <2> QED
    BY <1>5, <2>1, <2>4, <2>5, Zenon DEF FlightInv, Computing
<1>6. CASE Clock
  <2>1. ASSUME NEW k \in Key, Computing(k)
        PROVE  OnTime(inflight'[k][1], now', cleared'[k])
    <3>1. 1 \in 1..Len(inflight[k]) /\ inflight[k][1] \in Computation /\ OnTime(inflight[k][1], now, cleared[k])
      BY <2>1, <1>0
    <3>2. now - inflight[k][1].since < Fanout
      BY <1>6, <3>1 DEF Clock
    <3> QED
      <4>1. now' = now + 1 /\ UNCHANGED <<inflight, cleared>>
        BY <1>6 DEF Clock
      <4>2. inflight[k][1].read \in Nat /\ inflight[k][1].since \in Nat
        BY <3>1, SMTT(30) DEF Computation
      <4>3. OnTime(inflight[k][1], now + 1, cleared[k])
        BY <3>1, <3>2, OnTimeNext
      <4> QED
        BY <4>1, <4>3
  <2> QED
    BY <1>6, <2>1 DEF Clock, FlightInv, Computing
<1>7. CASE UNCHANGED <<version, caller, inflight, now, cleared>>
  BY <1>7 DEF FlightInv, Computing, OnTime
<1>8. ASSUME NEW k \in Key, Hit(k) \/ HitStale(k)
      PROVE  FlightInv'
  BY <1>3, <1>7, <1>8 DEF Hit, HitStale
<1>9. ASSUME NEW r \in Caller, NEW k \in Key, Miss(r, k)
      PROVE  FlightInv'
  BY <1>3, <1>9 DEF Miss
<1>10. ASSUME NEW k \in Key, Settle(k) \/ Reject(k)
       PROVE  FlightInv'
  BY <1>5, <1>10 DEF Settle, Reject, Computing
<1> HIDE DEF ScalarsOK
<1> QED
  BY <1>1, <1>2, <1>4, <1>6, <1>7, <1>8, <1>9, <1>10 DEF CacheNext, cacheVars

(* Every step keeps what is known of the entries, and the last answer      *)
(* within the limits.                                                      *)
LEMMA EntryStep ==
  ASSUME ScalarsOK, FlightInv, EntryInv, StaleBounded, [CacheNext]_cacheVars
  PROVE  EntryInv' /\ StaleBounded'
<1> USE CacheBounds DEF ScalarsOK
<1>1. ASSUME NEW r \in Caller, Clear(r)
      PROVE  EntryInv' /\ StaleBounded'
  BY <1>1 DEF Clear, Cleared, NoEntry, EntryInv, StaleBounded
<1>2. ASSUME NEW k \in Key, Hit(k) \/ HitStale(k)
      PROVE  EntryInv' /\ StaleBounded'
  <2>1. UNCHANGED <<store, now, cleared>> /\ age' = now - store[k].read
    BY <1>2 DEF Hit, HitStale, Serve
  <2>2. store[k].there /\ now - store[k].at < MaxStale
    BY <1>2 DEF Hit, HitStale, Fresh, Stale, AgeOf
  <2> QED
    BY <2>1, <2>2 DEF EntryInv, StaleBounded
<1>3. ASSUME NEW k \in Key, Settle(k)
      PROVE  EntryInv' /\ StaleBounded'
  <2> DEFINE x == inflight[k][1]
  <2>1. x \in Computation /\ Head(inflight[k]) = x /\ OnTime(x, now, cleared[k]) /\ x.at = "fanout"
    BY <1>3, ReleaseFlight DEF Settle, Computing, FlightInv
  <2>2. /\ store' = [store EXCEPT ![k] = [there |-> TRUE, at |-> now, read |-> x.read,
                                          version |-> x.version, late |-> x.late]]
        /\ age' \in {age, now - x.read}
        /\ UNCHANGED <<now, cleared>>
    BY <1>3, <2>1 DEF Settle
  <2> HIDE DEF x
  <2>3. StaleBounded'
    BY <2>1, <2>2 DEF StaleBounded, OnTime, Computation
  <2>4. EntryInv'
    BY <2>1, <2>2 DEF EntryInv, OnTime, Computation
  <2> QED
    BY <2>3, <2>4
<1>4. CASE UNCHANGED <<store, cleared, age>> /\ (now' = now \/ now' = now + 1)
  BY <1>4 DEF EntryInv, StaleBounded
<1> HIDE DEF ScalarsOK
<1> QED
  BY <1>1, <1>2, <1>3, <1>4
     DEF CacheNext, cacheVars, Change, Miss, ReadRows, Reject, Clock

(* The inductive invariant holds in every state.                           *)
THEOREM CacheInvariance == CacheSpec => []CacheIInv
<1>1. CacheIInv /\ [CacheNext]_cacheVars => CacheIInv'
  BY ScalarsStep, FlightStep, EntryStep DEF CacheIInv
<1> QED
  BY CacheInitially, <1>1, PTL DEF CacheSpec

(* However many requests find the cache expired, one computation per       *)
(* tenant asks the connectors, no answer is older than the limit for stale *)
(* values and the time of a computation together, and none is from before  *)
(* a change, except from a computation that had read the rows when the     *)
(* cache was cleared (ttlCache.ts:9-10, 35-47, 75-76).                     *)
THEOREM CacheSafe == CacheSpec => []CacheInv
<1>1. CacheIInv => CacheInv
  BY CacheInvFollows
<1> QED
  BY CacheInvariance, <1>1, PTL

----------------------------------------------------------------------------
(***************************************************************************)
(* The invariant of ProgressStream                                         *)
(***************************************************************************)

StreamRecord == [at : Proc \cup {Nowhere}, pc : {"none", "reading", "done"}, closed : BOOLEAN,
                 unsub : BOOLEAN, timer : BOOLEAN, reads : SUBSET Snapshot, early : BOOLEAN]

(* A stream c, the messages w on their way and the replicas m it is        *)
(* subscribed at: nothing is sent before the first row; a subscriber knows *)
(* how to unsubscribe and has no timer; after the end comes nothing and    *)
(* the stream is closed; what a closed stream leaves behind is known.      *)
Steady(c, w, m) ==
  /\ c.pc \in {"none", "reading"} => w = <<>> /\ m = {} /\ ~c.timer /\ c.reads = {}
  /\ \A p \in m : c.at = p /\ c.unsub /\ ~c.timer /\ c.reads = {}
  /\ \A i \in 1..Len(w) : Ended(w[i]) => i = Len(w) /\ c.closed
  /\ c.closed /\ (c.timer \/ m # {}) => c.early

On(v) == {p \in Proc : v \in subs[p]}

StreamsSteady == \A v \in Viewer : Steady(stream[v], wire[v], On(v))

StreamIInv == StreamTypeOK /\ StreamsSteady

(* A message that follows no end is an end only if it says so itself.      *)
LEMMA Sending ==
  ASSUME NEW w \in Seq(Snapshot), NEW s \in Snapshot, NEW w2, w2 = w \/ w2 = Append(w, s),
         \A i \in 1..Len(w) : ~Ended(w[i])
  PROVE  w2 \in Seq(Snapshot) /\ \A i \in 1..Len(w2) : Ended(w2[i]) => i = Len(w2) /\ Ended(s)
<1>1. CASE w2 = w
  BY <1>1
<1>2. CASE w2 = Append(w, s)
  <2>1. w2 \in Seq(Snapshot) /\ Len(w2) = Len(w) + 1
    BY <1>2, AppendProperties
  <2>2. Len(w) \in Nat
    BY LenProperties
  <2>3. ASSUME NEW i \in 1..Len(w2), Ended(w2[i])
        PROVE  i = Len(w2) /\ Ended(s)
    <3>1. CASE i \in 1..Len(w)
      BY <1>2, <2>3, <3>1, AppendProperties
    <3>2. CASE i = Len(w) + 1
      BY <1>2, <2>1, <2>3, <3>2, AppendProperties
    <3> QED
      BY <2>1, <2>2, <3>1, <3>2
  <2> QED
    BY <2>1, <2>3
<1> QED
  BY <1>1, <1>2

(* Nothing has ended on the line of a stream that is open.                 *)
LEMMA OpenGoesOn ==
  ASSUME StreamIInv, NEW v \in Viewer, ~stream[v].closed
  PROVE  \A i \in 1..Len(wire[v]) : ~Ended(wire[v][i])
BY DEF StreamIInv, StreamsSteady, Steady

(* A stream that loses messages or a subscription is as steady as before.  *)
LEMMA LessIsSteady ==
  ASSUME NEW c, NEW w \in Seq(Snapshot), NEW m, Steady(c, w, m), NEW m2 \in SUBSET m
  PROVE  /\ Steady(c, w, m2) /\ Steady(c, <<>>, m)
         /\ w # <<>> => Tail(w) \in Seq(Snapshot) /\ Steady(c, Tail(w), m)
<1>1. Steady(c, w, m2)
  BY DEF Steady
<1>2. Steady(c, <<>>, m)
  BY DEF Steady
<1>3. ASSUME w # <<>> PROVE Tail(w) \in Seq(Snapshot) /\ Steady(c, Tail(w), m)
  <2>1. Tail(w) \in Seq(Snapshot) /\ Len(Tail(w)) = Len(w) - 1 /\ Len(w) \in Nat
        /\ \A i \in 1..Len(Tail(w)) : Tail(w)[i] = w[i + 1]
    BY <1>3
  <2>2. ASSUME NEW i \in 1..Len(Tail(w)), Ended(Tail(w)[i])
        PROVE  i = Len(Tail(w)) /\ c.closed
    <3>1. i + 1 \in 1..Len(w) /\ Ended(w[i + 1])
      BY <2>1, <2>2
    <3>2. i + 1 = Len(w) /\ c.closed
      BY <3>1 DEF Steady
    <3> QED
      BY <2>1, <3>2
  <2> QED
    BY <1>3, <2>1, <2>2 DEF Steady
<1> QED
  BY <1>1, <1>2, <1>3

(* What cleanup leaves of a stream.                                        *)
LEMMA CleanedFields ==
  ASSUME NEW c \in StreamRecord
  PROVE  /\ Cleaned(c) \in StreamRecord /\ Cleaned(c).closed /\ ~Cleaned(c).timer
         /\ Cleaned(c).at = c.at /\ Cleaned(c).pc = c.pc /\ Cleaned(c).unsub = c.unsub
         /\ Cleaned(c).reads = c.reads /\ Cleaned(c).early = c.early
BY DEF Cleaned, StreamRecord

(* The job, its row, and what the pages know have their types.             *)
LEMMA StreamData ==
  ASSUME StreamTypeOK, [StreamNext]_streamVars
  PROVE  /\ job' \in [Proc -> Snapshot \cup {Nothing}] /\ host' \in Proc \cup {Nowhere}
         /\ row' \in Snapshot \cup {Nothing} /\ writes' \subseteq Snapshot
         /\ losses' \in 0..MaxLosses /\ crashes' \in 0..MaxCrashes
         /\ line' \in [Viewer -> {"up", "down"}]
<1> USE StreamAssumption DEF StreamTypeOK
<1>00. MaxBytes \in Nat /\ MaxBytes >= 1
  OBVIOUS
<1>0. /\ \A n \in 0..MaxBytes : [state |-> "RUNNING", bytes |-> n] \in Snapshot
      /\ \A t \in Snapshot : t = [state |-> t.state, bytes |-> t.bytes] /\ t.bytes \in 0..MaxBytes
  BY DEF Snapshot
<1>1. ASSUME Running
      PROVE  host \in Proc /\ job[host] \in Snapshot /\ job[host].state = "RUNNING"
  BY <1>1 DEF Running, Nothing
<1>2. job' \in [Proc -> Snapshot \cup {Nothing}]
  <2>1. CASE Load
    <3>1. PICK t : t = job[host] /\ t \in Snapshot /\ t.bytes < MaxBytes /\ host \in Proc
      BY <1>1, <2>1 DEF Load
    <3>2. PICK t2 : t2 = [t EXCEPT !.bytes = t.bytes + 1]
      OBVIOUS
    <3>3. t2 = [state |-> t.state, bytes |-> t.bytes + 1] /\ t.bytes + 1 \in 0..MaxBytes
      BY <1>00, <3>1, <3>2, SMTT(30) DEF Snapshot
    <3>4. t2 \in Snapshot
      BY <3>1, <3>3 DEF Snapshot
    <3>5. job' = [job EXCEPT ![host] = t2]
      BY <2>1, <3>1, <3>2 DEF Load
    <3> QED
      BY <3>1, <3>4, <3>5
  <2>2. CASE End
    <3>1. PICK t : t = job[host] /\ t \in Snapshot /\ host \in Proc
      BY <1>1, <2>2 DEF End
    <3>2. PICK t2 : t2 = [t EXCEPT !.state = "ENDED"]
      OBVIOUS
    <3>3. t2 \in Snapshot
      BY <3>1, <3>2 DEF Snapshot
    <3>4. job' = [job EXCEPT ![host] = t2]
      BY <2>2, <3>1, <3>2 DEF End
    <3> QED
      BY <3>1, <3>3, <3>4
  <2>3. CASE Die
    BY <1>1, <2>3 DEF Die
  <2>4. ASSUME NEW q \in Proc, Forget(q) \/ TakeOver(q)
        PROVE  job' \in [Proc -> Snapshot \cup {Nothing}]
    <3>1. 0 \in 0..MaxBytes
      BY <1>00
    <3>2. [state |-> "RUNNING", bytes |-> 0] \in Snapshot
      BY <1>0, <3>1
    <3> QED
      BY <2>4, <3>2 DEF Forget, TakeOver
  <2>5. ASSUME \/ Report \/ UNCHANGED streamVars
               \/ \E t \in Snapshot : Persist(t) \/ PersistFails(t)
               \/ \E v \in Viewer :
                    \/ Accept(v) \/ FirstRowFails(v) \/ Query(v) \/ Hangup(v)
                    \/ Receive(v) \/ Lost(v) \/ LineDrops(v) \/ Leave(v)
                    \/ \E q \in Proc : Poll(v, q)
                    \/ \E t \in Snapshot : Reply(v, t) \/ Polled(v, t)
        PROVE  job' = job
    BY <2>5, ZenonT(60) DEF Report, Emit, streamVars, Persist, PersistFails, Accept, Subscribe, AwaitRow, FirstRow,
       FirstRowFails, Query, Hangup, Receive, Lost, LineDrops, Leave, Poll, Reply, Polled, source
  <2> QED
    BY <2>1, <2>2, <2>3, <2>4, <2>5 DEF StreamNext
<1>3. host' \in Proc \cup {Nowhere} /\ row' \in Snapshot \cup {Nothing} /\ crashes' \in 0..MaxCrashes
  <2>1. ASSUME \/ Load \/ Report \/ End \/ UNCHANGED streamVars
               \/ \E q \in Proc : Forget(q)
               \/ \E t \in Snapshot : PersistFails(t)
               \/ \E v \in Viewer :
                    \/ Accept(v) \/ FirstRowFails(v) \/ Query(v) \/ Hangup(v)
                    \/ Receive(v) \/ Lost(v) \/ LineDrops(v) \/ Leave(v)
                    \/ \E q \in Proc : Poll(v, q)
                    \/ \E t \in Snapshot : Reply(v, t) \/ Polled(v, t)
        PROVE  host' = host /\ row' = row /\ crashes' = crashes
    BY <2>1, ZenonT(60) DEF Load, Report, End, Emit, streamVars, Forget, PersistFails, Accept, Subscribe, AwaitRow, FirstRow,
       FirstRowFails, Query, Hangup, Receive, Lost, LineDrops, Leave, Poll, Reply, Polled, source
  <2>2. CASE Die
    BY <2>2 DEF Die
  <2>3. ASSUME NEW q \in Proc, TakeOver(q)
        PROVE  host' \in Proc \cup {Nowhere} /\ row' = row /\ crashes' = crashes
    BY <2>3 DEF TakeOver
  <2>4. ASSUME NEW t \in Snapshot, Persist(t)
        PROVE  host' = host /\ row' = t /\ crashes' = crashes
    BY <2>4 DEF Persist
  <2> QED
    BY <2>1, <2>2, <2>3, <2>4 DEF StreamNext
<1>4. writes' \subseteq Snapshot
  <2>1. CASE Report
    BY <1>1, <2>1 DEF Report, Emit
  <2>2. CASE End
    <3>1. job'[host] \in Snapshot
      BY <1>1, <1>2, <2>2 DEF End, Nothing
    <3> QED
      BY <2>2, <3>1 DEF End, Emit
  <2>3. ASSUME \/ Load \/ Die \/ UNCHANGED streamVars
               \/ \E q \in Proc : Forget(q) \/ TakeOver(q)
               \/ \E t \in Snapshot : Persist(t) \/ PersistFails(t)
               \/ \E v \in Viewer :
                    \/ Accept(v) \/ FirstRowFails(v) \/ Query(v) \/ Hangup(v)
                    \/ Receive(v) \/ Lost(v) \/ LineDrops(v) \/ Leave(v)
                    \/ \E q \in Proc : Poll(v, q)
                    \/ \E t \in Snapshot : Reply(v, t) \/ Polled(v, t)
        PROVE  writes' \subseteq writes
    BY <2>3, ZenonT(60) DEF Load, Die, streamVars, Forget, TakeOver, Persist, PersistFails, Accept, Subscribe, AwaitRow,
       FirstRow, FirstRowFails, Query, Hangup, Receive, Lost, LineDrops, Leave, Poll, Reply, Polled, source
  <2> QED
    BY <2>1, <2>2, <2>3 DEF StreamNext
<1>5. losses' = losses \/ Loss
  BY ZenonT(60) DEF StreamNext, Load, Report, End, Emit, Die, streamVars, Forget, TakeOver, Persist, PersistFails, Accept,
     Subscribe, AwaitRow, FirstRow, FirstRowFails, Query, Hangup, Receive, Lost, LineDrops, Leave, Poll, Reply, Polled
<1>6. losses' \in 0..MaxLosses
  BY <1>5 DEF Loss
<1>7. line' \in [Viewer -> {"up", "down"}]
  <2>1. ASSUME NEW v \in Viewer, FirstRowFails(v) \/ LineDrops(v)
        PROVE  line' = [line EXCEPT ![v] = "down"]
    BY <2>1 DEF FirstRowFails, LineDrops
  <2>2. CASE Die
    BY <2>2 DEF Die
  <2>3. ASSUME \/ Load \/ Report \/ End \/ UNCHANGED streamVars
               \/ \E q \in Proc : Forget(q) \/ TakeOver(q)
               \/ \E t \in Snapshot : Persist(t) \/ PersistFails(t)
               \/ \E v \in Viewer :
                    \/ Accept(v) \/ Query(v) \/ Hangup(v) \/ Receive(v) \/ Lost(v) \/ Leave(v)
                    \/ \E q \in Proc : Poll(v, q)
                    \/ \E t \in Snapshot : Reply(v, t) \/ Polled(v, t)
        PROVE  line' = line
    BY <2>3, ZenonT(60) DEF Load, Report, End, streamVars, Forget, TakeOver, Persist, PersistFails, Accept, Subscribe, AwaitRow,
       FirstRow, Query, Hangup, Receive, Lost, Leave, Poll, Reply, Polled
  <2> QED
    BY <2>1, <2>2, <2>3 DEF StreamNext
<1> QED
  BY <1>2, <1>3, <1>4, <1>6, <1>7

ViewRecord == [es : BOOLEAN, poll : BOOLEAN, gets : SUBSET Snapshot, max : 0..MaxBytes,
               shown : Snapshot \cup {Nothing}, stopped : BOOLEAN]

(* A page that is shown a snapshot is still a page.                        *)
LEMMA AppliedView ==
  ASSUME NEW w \in ViewRecord, NEW s \in Snapshot
  PROVE  Applied(w, s) \in ViewRecord
<1>1. s = [state |-> s.state, bytes |-> s.bytes] /\ s.bytes \in 0..MaxBytes /\ w.max \in 0..MaxBytes
  BY DEF Snapshot, ViewRecord
<1>2. PICK s2 : s2 = [s EXCEPT !.bytes = w.max]
  OBVIOUS
<1>3. s2 = [state |-> s.state, bytes |-> w.max]
  BY <1>1, <1>2
<1>4. s2 \in Snapshot
  BY <1>1, <1>3 DEF Snapshot
<1>5. [w EXCEPT !.shown = s2] \in ViewRecord
  BY <1>4 DEF ViewRecord
<1>6. PICK n : n = (IF s.bytes > w.max THEN s.bytes ELSE w.max)
  OBVIOUS
<1>7. n \in 0..MaxBytes
  BY <1>1, <1>6
<1>8. [w EXCEPT !.shown = s, !.max = n] \in ViewRecord
  BY <1>7 DEF ViewRecord
<1> QED
  BY <1>2, <1>5, <1>6, <1>8 DEF Applied

(* The pages stay pages.                                                   *)
LEMMA ViewStep ==
  ASSUME StreamTypeOK, [StreamNext]_streamVars
  PROVE  view' \in [Viewer -> ViewRecord]
<1>1. view \in [Viewer -> ViewRecord] /\ wire \in [Viewer -> Seq(Snapshot)]
      /\ job \in [Proc -> Snapshot \cup {Nothing}] /\ row \in Snapshot \cup {Nothing}
  BY DEF StreamTypeOK, ViewRecord
<1>2. ASSUME NEW v \in Viewer, NEW w \in ViewRecord, view' = [view EXCEPT ![v] = w]
      PROVE  view' \in [Viewer -> ViewRecord]
  BY <1>1, <1>2
<1>3. ASSUME NEW v \in Viewer, Receive(v)
      PROVE  view' \in [Viewer -> ViewRecord]
  <2>1. PICK s, e : /\ s = Head(wire[v]) /\ e = (~Ended(s))
                    /\ view' = [view EXCEPT ![v] = [Applied(view[v], s) EXCEPT !.es = e]]
    BY <1>3 DEF Receive
  <2>2. s \in Snapshot
    BY <1>1, <1>3, <2>1 DEF Receive
  <2>3. e \in BOOLEAN
    BY Zenon, <2>1
  <2>4. [Applied(view[v], s) EXCEPT !.es = e] \in ViewRecord
    <3>1. PICK w : w = Applied(view[v], s) /\ w \in ViewRecord
      BY <1>1, <2>2, AppliedView
    <3>2. [w EXCEPT !.es = e] \in ViewRecord
      BY <2>3, <3>1 DEF ViewRecord
    <3> QED
      BY <3>1, <3>2
  <2> QED
    BY <1>2, <2>1, <2>4
<1>4. ASSUME NEW v \in Viewer, Lost(v)
      PROVE  view' \in [Viewer -> ViewRecord]
  <2>1. PICK b : b = Polls(view[v]) /\ view' = [view EXCEPT ![v].es = FALSE, ![v].poll = b]
    BY <1>4 DEF Lost
  <2>2. b \in BOOLEAN
    BY Zenon, <2>1 DEF Polls
  <2>3. [view[v] EXCEPT !.es = FALSE, !.poll = b] \in ViewRecord
    BY <1>1, <2>2 DEF ViewRecord
  <2>4. view' = [view EXCEPT ![v] = [view[v] EXCEPT !.es = FALSE, !.poll = b]]
    BY <1>1, <2>1
  <2> QED
    BY <1>2, <2>3, <2>4
<1>5. ASSUME NEW v \in Viewer, NEW p \in Proc, Poll(v, p)
      PROVE  view' \in [Viewer -> ViewRecord]
  <2>1. PICK s : /\ s = (IF job[p] # Nothing THEN job[p] ELSE row) /\ ~Missing(s)
                 /\ view' = [view EXCEPT ![v].gets = view[v].gets \cup {s}]
    BY <1>5 DEF Poll
  <2>2. s \in Snapshot
    BY <1>1, <2>1 DEF Missing
  <2>3. view[v].gets \in SUBSET Snapshot
    BY <1>1 DEF ViewRecord
  <2>4. view[v].gets \cup {s} \in SUBSET Snapshot
    BY <2>2, <2>3
  <2>5. [view[v] EXCEPT !.gets = view[v].gets \cup {s}] \in ViewRecord
    BY <1>1, <2>4 DEF ViewRecord
  <2>6. view' = [view EXCEPT ![v] = [view[v] EXCEPT !.gets = view[v].gets \cup {s}]]
    BY <1>1, <2>1
  <2> QED
    BY <1>2, <2>5, <2>6
<1>6. ASSUME NEW v \in Viewer, NEW s \in Snapshot, Polled(v, s)
      PROVE  view' \in [Viewer -> ViewRecord]
  <2>1. PICK w : w = [view[v] EXCEPT !.gets = view[v].gets \ {s}]
    OBVIOUS
  <2>2. w \in ViewRecord
    <3>1. view[v].gets \ {s} \in SUBSET Snapshot
      BY <1>1 DEF ViewRecord
    <3> QED
      BY <1>1, <2>1, <3>1 DEF ViewRecord
  <2>3. PICK a : a = Applied(w, s) /\ a \in ViewRecord
    BY <2>2, AppliedView
  <2>4. PICK b : b = (a.poll /\ ~Ended(s))
    OBVIOUS
  <2>5. b \in BOOLEAN
    BY Zenon, <2>4
  <2>6. [a EXCEPT !.poll = b] \in ViewRecord
    BY <2>3, <2>5 DEF ViewRecord
  <2>7. view' = [view EXCEPT ![v] = w] \/ view' = [view EXCEPT ![v] = [a EXCEPT !.poll = b]]
    BY <1>6, <2>1, <2>3, <2>4 DEF Polled
  <2> QED
    BY <1>2, <2>2, <2>6, <2>7
<1>7. ASSUME NEW v \in Viewer, Leave(v)
      PROVE  view' \in [Viewer -> ViewRecord]
  <2>1. [view[v] EXCEPT !.stopped = TRUE, !.es = FALSE, !.poll = FALSE] \in ViewRecord
    BY <1>1 DEF ViewRecord
  <2>2. view' = [view EXCEPT ![v] = [view[v] EXCEPT !.stopped = TRUE, !.es = FALSE, !.poll = FALSE]]
    BY <1>1, <1>7 DEF Leave
  <2> QED
    BY <1>2, <2>1, <2>2
<1>8. ASSUME \/ Load \/ Report \/ End \/ Die \/ UNCHANGED streamVars
             \/ \E q \in Proc : Forget(q) \/ TakeOver(q)
             \/ \E t \in Snapshot : Persist(t) \/ PersistFails(t)
             \/ \E v \in Viewer :
                  \/ Accept(v) \/ FirstRowFails(v) \/ Query(v) \/ Hangup(v) \/ LineDrops(v)
                  \/ \E t \in Snapshot : Reply(v, t)
      PROVE  view' = view
  BY <1>8 DEF Load, Report, End, Die, streamVars, Forget, TakeOver, Persist, PersistFails, Accept, Subscribe, AwaitRow,
     FirstRow, FirstRowFails, Query, Hangup, LineDrops, Reply
<1> QED
  BY <1>1, <1>3, <1>4, <1>5, <1>6, <1>7, <1>8 DEF StreamNext

Served ==
  /\ stream \in [Viewer -> StreamRecord] /\ wire \in [Viewer -> Seq(Snapshot)]
  /\ subs \in [Proc -> SUBSET Viewer] /\ StreamsSteady

(* A step of one stream leaves the others as they are.                     *)
LEMMA ServeOne ==
  ASSUME Served, NEW v \in Viewer, NEW c \in StreamRecord, NEW w \in Seq(Snapshot),
         stream' = [stream EXCEPT ![v] = c], wire' = [wire EXCEPT ![v] = w],
         subs' \in [Proc -> SUBSET Viewer],
         \A p \in Proc : subs'[p] \ {v} = subs[p] \ {v},
         Steady(c, w, {p \in Proc : v \in subs'[p]})
  PROVE  Served'
<1>1. stream' \in [Viewer -> StreamRecord] /\ wire' \in [Viewer -> Seq(Snapshot)]
  BY DEF Served
<1>2. ASSUME NEW x \in Viewer
      PROVE  Steady(stream'[x], wire'[x], {p \in Proc : x \in subs'[p]})
  <2>1. CASE x = v
    BY <2>1 DEF Served
  <2>2. CASE x # v
    <3>1. {p \in Proc : x \in subs'[p]} = {p \in Proc : x \in subs[p]}
      BY <2>2
    <3>2. Steady(stream[x], wire[x], {p \in Proc : x \in subs[p]})
      BY DEF Served, StreamsSteady, On
    <3> QED
      BY <2>2, <3>1, <3>2 DEF Served
  <2> QED
    BY <2>1, <2>2
<1> QED
  BY <1>1, <1>2 DEF Served, StreamsSteady, On

(* The request for a stream arrives, and the first row.                    *)
LEMMA AcceptStep ==
  ASSUME StreamIInv, NEW v \in Viewer, Accept(v) \/ FirstRowFails(v)
  PROVE  Served'
<1>0. /\ Served /\ Steady(stream[v], wire[v], On(v)) /\ stream[v] \in StreamRecord
      /\ wire[v] \in Seq(Snapshot)
      /\ job \in [Proc -> Snapshot \cup {Nothing}] /\ row \in Snapshot \cup {Nothing}
  BY DEF StreamIInv, StreamTypeOK, Served, StreamsSteady, StreamRecord
<1>1. ASSUME NEW s \in Snapshot, wire[v] = <<>>
      PROVE  Sent(v, s) \in Seq(Snapshot)
             /\ \A i \in 1..Len(Sent(v, s)) : Ended(Sent(v, s)[i]) => i = Len(Sent(v, s)) /\ Ended(s)
  <2>1. PICK w : w = Sent(v, s) /\ (w = wire[v] \/ w = Append(wire[v], s))
    BY DEF Sent
  <2>2. \A i \in 1..Len(wire[v]) : ~Ended(wire[v][i])
    BY <1>1
  <2> QED
    BY <1>0, <2>1, <2>2, Sending
<1>2. ASSUME NEW p \in Proc, Subscribe(v, p)
      PROVE  Served'
  <2>1. PICK s, e : s = job[p] /\ e = Ended(s)
    OBVIOUS
  <2>2. s \in Snapshot /\ wire[v] = <<>> /\ On(v) = {}
    BY <1>0, <1>2, <2>1 DEF Subscribe, Steady
  <2>3. e \in BOOLEAN
    BY Zenon, <2>1 DEF Ended
  <2>4. PICK w : w = Sent(v, s)
    OBVIOUS
  <2>5. w \in Seq(Snapshot) /\ \A i \in 1..Len(w) : Ended(w[i]) => i = Len(w) /\ e
    BY <1>1, <2>1, <2>2, <2>4
  <2>6. PICK c : c = [NoStream EXCEPT !.at = p, !.pc = "done", !.unsub = TRUE, !.closed = e, !.early = e]
    OBVIOUS
  <2>7. c = [at |-> p, pc |-> "done", closed |-> e, unsub |-> TRUE, timer |-> FALSE, reads |-> {}, early |-> e]
    BY <2>6 DEF NoStream
  <2>8. c \in StreamRecord
    BY <2>3, <2>7 DEF StreamRecord
  <2>9. /\ wire' = [wire EXCEPT ![v] = w] /\ stream' = [stream EXCEPT ![v] = c]
        /\ subs' = [subs EXCEPT ![p] = subs[p] \cup {v}]
    BY <1>2, <2>1, <2>4, <2>6 DEF Subscribe
  <2>10. subs' \in [Proc -> SUBSET Viewer] /\ \A q \in Proc : subs'[q] \ {v} = subs[q] \ {v}
    BY <1>0, <2>9 DEF Served
  <2>11. {q \in Proc : v \in subs'[q]} = {p}
    BY <1>0, <2>2, <2>9 DEF Served, On
  <2>12. Steady(c, w, {p})
    BY <2>5, <2>7 DEF Steady
  <2>13. Steady(c, w, {q \in Proc : v \in subs'[q]})
    BY <2>11, <2>12
  <2> QED
    BY <1>0, <2>5, <2>8, <2>9, <2>10, <2>13, ServeOne
<1>3. ASSUME NEW p \in Proc, AwaitRow(v, p)
      PROVE  Served'
  <2>1. wire[v] = <<>> /\ On(v) = {} /\ subs' = subs /\ wire' = [wire EXCEPT ![v] = wire[v]]
    BY <1>0, <1>3 DEF AwaitRow, Steady, Served
  <2>2. PICK c : c = [NoStream EXCEPT !.at = p, !.pc = "reading"]
    OBVIOUS
  <2>3. c = [at |-> p, pc |-> "reading", closed |-> FALSE, unsub |-> FALSE, timer |-> FALSE, reads |-> {},
             early |-> FALSE]
    BY <2>2 DEF NoStream
  <2>4. c \in StreamRecord
    <3>1. {} \in SUBSET Snapshot
      OBVIOUS
    <3> QED
      BY <2>3, <3>1 DEF StreamRecord
  <2>6. stream' = [stream EXCEPT ![v] = c]
    BY <1>3, <2>2 DEF AwaitRow
  <2>5. Steady(c, wire[v], On(v))
    BY <2>1, <2>3 DEF Steady
  <2> QED
    BY <1>0, <2>1, <2>4, <2>5, <2>6, ServeOne DEF Served, On
<1>4. ASSUME FirstRow(v)
      PROVE  Served'
  <2>1. PICK c0 : c0 = stream[v] /\ c0 \in StreamRecord
    BY <1>0
  <2>2. /\ c0.pc = "reading" /\ wire[v] = <<>> /\ On(v) = {} /\ ~c0.timer /\ c0.reads = {} /\ subs' = subs
    BY <1>0, <1>4, <2>1 DEF FirstRow, Steady
  <2>3. PICK w : w = (IF Missing(row) THEN wire[v] ELSE Sent(v, row))
    OBVIOUS
  <2>4. w \in Seq(Snapshot) /\ \A i \in 1..Len(w) : Ended(w[i]) => i = Len(w) /\ Ended(row)
    <3>1. CASE Missing(row)
      BY <1>0, <2>2, <2>3, <3>1
    <3>2. CASE ~Missing(row)
      BY <1>0, <1>1, <2>2, <2>3, <3>2 DEF Missing
    <3> QED
      BY <3>1, <3>2
  <2>5. wire' = [wire EXCEPT ![v] = w]
    BY <1>0, <1>4, <2>3 DEF FirstRow, Served
  <2>6. CASE Ended(row)
    <3>1. PICK c1 : c1 = Cleaned(c0) /\ c1 \in StreamRecord /\ c1.closed /\ ~c1.timer
      BY <2>1, CleanedFields
    <3>2. PICK c : c = [c1 EXCEPT !.pc = "done"]
      OBVIOUS
    <3>3. c \in StreamRecord /\ c.pc = "done" /\ c.closed /\ ~c.timer
      BY <3>1, <3>2 DEF StreamRecord
    <3>4. stream' = [stream EXCEPT ![v] = c]
      BY <1>4, <2>1, <2>6, <3>1, <3>2 DEF FirstRow
    <3>5. Steady(c, w, On(v))
      BY <2>2, <2>4, <3>3 DEF Steady
    <3> QED
      BY <1>0, <2>2, <2>4, <2>5, <3>3, <3>4, <3>5, ServeOne DEF Served, On
  <2>7. CASE ~Ended(row)
    <3>1. PICK c : c = [c0 EXCEPT !.pc = "done", !.timer = TRUE, !.early = c0.closed]
      OBVIOUS
    <3>2. c \in StreamRecord /\ c.pc = "done" /\ c.early = c0.closed /\ c.closed = c0.closed
      BY <2>1, <3>1 DEF StreamRecord
    <3>3. stream' = [stream EXCEPT ![v] = c]
      BY <1>4, <2>1, <2>7, <3>1 DEF FirstRow
    <3>4. Steady(c, w, On(v))
      BY <2>2, <2>4, <2>7, <3>2 DEF Steady
    <3> QED
      BY <1>0, <2>2, <2>4, <2>5, <3>2, <3>3, <3>4, ServeOne DEF Served, On
  <2> QED
    BY <2>6, <2>7
<1>5. ASSUME FirstRowFails(v)
      PROVE  Served'
  <2>1. PICK c : c = [stream[v] EXCEPT !.pc = "done"]
    OBVIOUS
  <2>2. /\ c \in StreamRecord /\ c.timer = stream[v].timer /\ c.closed = stream[v].closed /\ c.pc = "done"
        /\ c.early = stream[v].early
    BY <1>0, <2>1 DEF StreamRecord
  <2>3. /\ stream' = [stream EXCEPT ![v] = c] /\ wire' = [wire EXCEPT ![v] = wire[v]] /\ subs' = subs
        /\ stream[v].pc = "reading"
    BY <1>0, <1>5, <2>1 DEF FirstRowFails, Served
  <2>4. Steady(c, wire[v], On(v))
    BY <1>0, <2>2, <2>3 DEF Steady
  <2> QED
    BY <1>0, <2>2, <2>3, <2>4, ServeOne DEF Served, On
<1> QED
  BY <1>2, <1>3, <1>4, <1>5 DEF Accept

(* The queries of a stream, their answers, and its end.                    *)
LEMMA StreamingStep ==
  ASSUME StreamIInv, NEW v \in Viewer, Query(v) \/ Hangup(v) \/ \E s \in Snapshot : Reply(v, s)
  PROVE  Served'
<1>0. /\ Served /\ Steady(stream[v], wire[v], On(v)) /\ stream[v] \in StreamRecord
      /\ wire[v] \in Seq(Snapshot) /\ row \in Snapshot \cup {Nothing}
  BY DEF StreamIInv, StreamTypeOK, Served, StreamsSteady, StreamRecord
<1>1. ASSUME Query(v)
      PROVE  Served'
  <2>1. PICK c0, r : c0 = stream[v] /\ r = c0.reads \cup {row}
    OBVIOUS
  <2>2. r \in SUBSET Snapshot
    <3>1. row \in Snapshot
      BY <1>0, <1>1 DEF Query, Missing
    <3>2. c0.reads \in SUBSET Snapshot
      BY <1>0, <2>1 DEF StreamRecord
    <3> QED
      BY <2>1, <3>1, <3>2
  <2>3. PICK c : c = [c0 EXCEPT !.reads = r]
    OBVIOUS
  <2>4. /\ c \in StreamRecord /\ c.pc = c0.pc /\ c.timer = c0.timer /\ c.closed = c0.closed /\ c.early = c0.early
    BY <1>0, <2>1, <2>2, <2>3 DEF StreamRecord
  <2>5. /\ stream' = [stream EXCEPT ![v] = c] /\ wire' = [wire EXCEPT ![v] = wire[v]] /\ subs' = subs
        /\ c0.timer /\ ~c0.closed
    BY <1>0, <1>1, <2>1, <2>3 DEF Query, Served
  <2>6. Steady(c, wire[v], On(v))
    BY <1>0, <2>1, <2>4, <2>5 DEF Steady
  <2> QED
    BY <1>0, <2>4, <2>5, <2>6, ServeOne DEF Served, On
<1>2. ASSUME NEW s \in Snapshot, Reply(v, s)
      PROVE  Served'
  <2>1. PICK c0 : c0 = [stream[v] EXCEPT !.reads = stream[v].reads \ {s}]
    OBVIOUS
  <2>2. /\ c0.pc = stream[v].pc /\ c0.timer = stream[v].timer /\ c0.closed = stream[v].closed
        /\ c0.early = stream[v].early
    BY <1>0, <2>1 DEF StreamRecord
  <2>3. c0 \in StreamRecord
    <3>1. stream[v].reads \ {s} \in SUBSET Snapshot
      BY <1>0 DEF StreamRecord
    <3> QED
      BY <1>0, <2>1, <3>1 DEF StreamRecord
  <2>4. s \in stream[v].reads /\ stream[v].pc = "done" /\ On(v) = {} /\ subs' = subs
    BY <1>0, <1>2 DEF Reply, Steady, StreamRecord
  <2>5. CASE c0.closed
    <3>1. stream' = [stream EXCEPT ![v] = c0] /\ wire' = [wire EXCEPT ![v] = wire[v]]
      BY <1>0, <1>2, <2>1, <2>5 DEF Reply, Silent, Served
    <3>2. Steady(c0, wire[v], On(v))
      BY <1>0, <2>2, <2>4 DEF Steady
    <3> QED
      BY <1>0, <2>3, <2>4, <3>1, <3>2, ServeOne DEF Served, On
  <2>6. CASE ~c0.closed
    <3>1. PICK w : w = Sent(v, s) /\ (w = wire[v] \/ w = Append(wire[v], s))
      BY DEF Sent
    <3>2. w \in Seq(Snapshot) /\ \A i \in 1..Len(w) : Ended(w[i]) => i = Len(w) /\ Ended(s)
      <4>1. \A i \in 1..Len(wire[v]) : ~Ended(wire[v][i])
        BY <2>2, <2>6, OpenGoesOn
      <4> QED
        BY <1>0, <3>1, <4>1, Sending
    <3>3. PICK c : c = (IF Ended(s) THEN Cleaned(c0) ELSE c0)
      OBVIOUS
    <3>4. c \in StreamRecord /\ c.pc = "done" /\ (Ended(s) => c.closed /\ ~c.timer) /\ (~Ended(s) => ~c.closed)
      BY <2>2, <2>3, <2>4, <2>6, <3>3, CleanedFields
    <3>5. stream' = [stream EXCEPT ![v] = c] /\ wire' = [wire EXCEPT ![v] = w]
      BY <1>2, <2>1, <2>6, <3>1, <3>3 DEF Reply, Silent
    <3>6. Steady(c, w, On(v))
      BY <2>4, <3>2, <3>4 DEF Steady
    <3> QED
      BY <1>0, <2>4, <3>2, <3>4, <3>5, <3>6, ServeOne DEF Served, On
  <2> QED
    BY <2>5, <2>6
<1>3. ASSUME Hangup(v)
      PROVE  Served'
  <2>1. PICK c0 : c0 = stream[v] /\ c0 \in StreamRecord
    BY <1>0
  <2>2. PICK c : /\ c = Cleaned(c0) /\ c \in StreamRecord /\ c.closed /\ ~c.timer
                 /\ c.pc = c0.pc /\ c.reads = c0.reads
    BY <2>1, CleanedFields
  <2>3. /\ c0.pc # "none" /\ stream' = [stream EXCEPT ![v] = c] /\ wire' = [wire EXCEPT ![v] = wire[v]]
        /\ subs' = IF c0.unsub THEN [subs EXCEPT ![c0.at] = subs[c0.at] \ {v}] ELSE subs
    BY <1>0, <1>3, <2>1, <2>2 DEF Hangup, Unsubscribes, Served
  <2>4. subs' \in [Proc -> SUBSET Viewer] /\ \A q \in Proc : subs'[q] \ {v} = subs[q] \ {v}
    <3>1. \A q \in Proc : subs'[q] = subs[q] \/ subs'[q] = subs[q] \ {v}
      BY <1>0, <2>3 DEF Served
    <3>2. subs' = [q \in Proc |-> subs'[q]]
      BY <1>0, <2>3 DEF Served
    <3>3. \A q \in Proc : subs[q] \subseteq Viewer
      BY <1>0 DEF Served
    <3> QED
      BY <3>1, <3>2, <3>3
  <2>5. {q \in Proc : v \in subs'[q]} = {}
    BY <1>0, <2>1, <2>3 DEF Served, Steady, On
  <2>6. Steady(c, wire[v], {})
    BY <1>0, <2>1, <2>2 DEF Steady
  <2>7. Steady(c, wire[v], {q \in Proc : v \in subs'[q]})
    BY <2>5, <2>6
  <2> QED
    BY <1>0, <2>2, <2>3, <2>4, <2>7, ServeOne
<1> QED
  BY <1>1, <1>2, <1>3

(* The job tells its subscribers.                                          *)
LEMMA EmitStep ==
  ASSUME StreamIInv, NEW p \in Proc, NEW s \in Snapshot, Emit(p, s)
  PROVE  Served'
<1> DEFINE reached == {v \in subs[p] : ~stream[v].closed}
<1>0. Served
  BY DEF StreamIInv, StreamTypeOK, Served, StreamRecord
<1>1. /\ wire' = [v \in Viewer |-> IF v \in reached THEN Sent(v, s) ELSE wire[v]]
      /\ stream' = [v \in Viewer |-> IF v \in reached /\ Ended(s) THEN Cleaned(stream[v]) ELSE stream[v]]
      /\ subs' = IF Ended(s) THEN [subs EXCEPT ![p] = subs[p] \ {v \in reached : stream[v].unsub}] ELSE subs
  BY DEF Emit, Unsubscribes
<1>2. \A q \in Proc : subs'[q] = subs[q] \/ (q = p /\ Ended(s) /\ subs'[q] = subs[q] \ {v \in reached : stream[v].unsub})
  BY <1>0, <1>1 DEF Served
<1>3. subs' \in [Proc -> SUBSET Viewer]
  <2>1. subs' = [q \in Proc |-> subs'[q]]
    BY <1>0, <1>1 DEF Served
  <2>2. \A q \in Proc : subs[q] \subseteq Viewer
    BY <1>0 DEF Served
  <2> QED
    BY <1>2, <2>1, <2>2
<1>4. ASSUME NEW v \in Viewer
      PROVE  /\ stream'[v] \in StreamRecord /\ wire'[v] \in Seq(Snapshot)
             /\ Steady(stream'[v], wire'[v], {q \in Proc : v \in subs'[q]})
  <2> DEFINE m == {q \in Proc : v \in subs'[q]}
  <2>1. /\ stream[v] \in StreamRecord /\ wire[v] \in Seq(Snapshot) /\ Steady(stream[v], wire[v], On(v))
    BY <1>0 DEF Served, StreamsSteady
  <2>2. m \in SUBSET On(v)
    <3>1. \A q \in Proc : v \in subs'[q] => v \in subs[q]
      BY <1>2
    <3> QED
      BY <3>1 DEF On
  <2>3. CASE v \notin reached
    <3>1. stream'[v] = stream[v] /\ wire'[v] = wire[v]
      BY <1>1, <2>3
    <3>2. Steady(stream[v], wire[v], m)
      BY <2>1, <2>2, LessIsSteady
    <3> QED
      BY <2>1, <3>1, <3>2
  <2>4. CASE v \in reached
    <3>1. PICK w : w = Sent(v, s) /\ (w = wire[v] \/ w = Append(wire[v], s)) /\ wire'[v] = w
      BY <1>1, <2>4 DEF Sent
    <3>2. \A i \in 1..Len(wire[v]) : ~Ended(wire[v][i])
      BY <2>4, OpenGoesOn
    <3>3. w \in Seq(Snapshot) /\ \A i \in 1..Len(w) : Ended(w[i]) => i = Len(w) /\ Ended(s)
      BY <2>1, <3>1, <3>2, Sending
    <3>4. stream[v].pc = "done" /\ stream[v].unsub /\ stream[v].at = p /\ ~stream[v].timer /\ stream[v].reads = {}
      <4>1. p \in On(v)
        BY <2>4 DEF On
      <4> QED
        BY <2>1, <4>1 DEF Steady, StreamRecord
    <3>5. CASE Ended(s)
      <4>1. PICK c : /\ c = Cleaned(stream[v]) /\ c \in StreamRecord /\ c.closed /\ ~c.timer
                     /\ c.pc = stream[v].pc /\ c.reads = stream[v].reads
        BY <2>1, CleanedFields
      <4>2. stream'[v] = c
        BY <1>1, <2>4, <3>5, <4>1
      <4>3. m = {}
        <5>1. \A q \in Proc : v \in subs[q] => q = p
          BY <2>1, <3>4 DEF Steady, On
        <5>2. v \notin subs'[p]
          BY <1>0, <1>1, <2>4, <3>4, <3>5 DEF Served
        <5> QED
          BY <1>2, <5>1, <5>2
      <4>4. Steady(c, w, {})
        BY <3>3, <3>4, <4>1 DEF Steady
      <4> QED
        BY <3>1, <3>3, <4>1, <4>2, <4>3, <4>4
    <3>6. CASE ~Ended(s)
      <4>1. stream'[v] = stream[v]
        BY <1>1, <3>6
      <4>2. Steady(stream[v], w, On(v))
        BY <2>1, <2>4, <3>3, <3>4, <3>6 DEF Steady
      <4>3. Steady(stream[v], w, m)
        BY <2>2, <3>3, <4>2, LessIsSteady
      <4> QED
        BY <2>1, <3>1, <3>3, <4>1, <4>3
    <3> QED
      BY <3>5, <3>6
  <2> QED
    BY <2>3, <2>4
<1>5. stream' \in [Viewer -> StreamRecord] /\ wire' \in [Viewer -> Seq(Snapshot)]
  BY <1>1, <1>4
<1> QED
  BY <1>3, <1>4, <1>5 DEF Served, StreamsSteady, On

(* The replica with the job dies.                                          *)
LEMMA DieStep ==
  ASSUME StreamIInv, Die
  PROVE  Served'
<1>0. Served /\ job \in [Proc -> Snapshot \cup {Nothing}] /\ host \in Proc
  BY DEF StreamIInv, StreamTypeOK, Served, StreamRecord, Die, Running
<1>1. /\ stream' = [v \in Viewer |-> IF stream[v].at = host THEN [Cleaned(stream[v]) EXCEPT !.pc = "done"]
                                     ELSE stream[v]]
      /\ wire' = wire /\ subs' = [subs EXCEPT ![host] = {}]
  BY DEF Die
<1>2. subs' \in [Proc -> SUBSET Viewer] /\ \A q \in Proc : subs'[q] = IF q = host THEN {} ELSE subs[q]
  BY <1>0, <1>1 DEF Served
<1>3. ASSUME NEW v \in Viewer
      PROVE  /\ stream'[v] \in StreamRecord
             /\ Steady(stream'[v], wire[v], {q \in Proc : v \in subs'[q]})
  <2> DEFINE m == {q \in Proc : v \in subs'[q]}
  <2>1. /\ stream[v] \in StreamRecord /\ wire[v] \in Seq(Snapshot) /\ Steady(stream[v], wire[v], On(v))
    BY <1>0 DEF Served, StreamsSteady
  <2>2. m \in SUBSET On(v)
    BY <1>2 DEF On
  <2>3. CASE stream[v].at # host
    <3>1. stream'[v] = stream[v]
      BY <1>1, <2>3
    <3>2. Steady(stream[v], wire[v], m)
      BY <2>1, <2>2, LessIsSteady
    <3> QED
      BY <2>1, <3>1, <3>2
  <2>4. CASE stream[v].at = host
    <3>1. PICK c1 : /\ c1 = Cleaned(stream[v]) /\ c1 \in StreamRecord /\ c1.closed /\ ~c1.timer
      BY <2>1, CleanedFields
    <3>2. PICK c : c = [c1 EXCEPT !.pc = "done"]
      OBVIOUS
    <3>3. c \in StreamRecord /\ c.pc = "done" /\ c.closed /\ ~c.timer
      BY <3>1, <3>2 DEF StreamRecord
    <3>4. stream'[v] = c
      BY <1>1, <2>4, <3>1, <3>2
    <3>5. m = {}
      <4>1. \A q \in On(v) : q = host
        BY <2>1, <2>4 DEF Steady
      <4>2. host \notin m
        BY <1>0, <1>2
      <4> QED
        BY <2>2, <4>1, <4>2
    <3>6. Steady(c, wire[v], {})
      BY <2>1, <3>3 DEF Steady
    <3> QED
      BY <3>3, <3>4, <3>5, <3>6
  <2> QED
    BY <2>3, <2>4
<1>4. stream' \in [Viewer -> StreamRecord]
  BY <1>1, <1>3
<1> QED
  BY <1>0, <1>1, <1>2, <1>3, <1>4 DEF Served, StreamsSteady, On

(* A page takes messages from its line, or gives it up.                    *)
LEMMA PageTakes ==
  ASSUME StreamIInv, NEW v \in Viewer, Receive(v) \/ Lost(v) \/ Leave(v)
  PROVE  Served'
<1>0. /\ Served /\ stream[v] \in StreamRecord /\ wire[v] \in Seq(Snapshot) /\ Steady(stream[v], wire[v], On(v))
  BY DEF StreamIInv, StreamTypeOK, Served, StreamsSteady, StreamRecord
<1>1. PICK w : /\ w = <<>> \/ (wire[v] # <<>> /\ w = Tail(wire[v]))
               /\ wire' = [wire EXCEPT ![v] = w]
  BY DEF Receive, Lost, Leave
<1>2. w \in Seq(Snapshot) /\ Steady(stream[v], w, On(v))
  <2>1. On(v) \in SUBSET On(v) /\ <<>> \in Seq(Snapshot)
    OBVIOUS
  <2>2. /\ Steady(stream[v], <<>>, On(v))
        /\ wire[v] # <<>> => Tail(wire[v]) \in Seq(Snapshot) /\ Steady(stream[v], Tail(wire[v]), On(v))
    BY <1>0, <2>1, LessIsSteady
  <2> QED
    BY <1>1, <2>1, <2>2
<1>3. stream' = [stream EXCEPT ![v] = stream[v]] /\ subs' = subs
  BY <1>0 DEF Receive, Lost, Leave, Served
<1> QED
  BY <1>0, <1>1, <1>2, <1>3, ServeOne DEF Served, On

LEMMA StreamInitially == StreamInit => StreamIInv
<1> SUFFICES ASSUME StreamInit PROVE StreamIInv
  OBVIOUS
<1> USE StreamAssumption DEF StreamInit
<1>1. MaxBytes \in Nat /\ 0 \in 0..MaxBytes /\ MaxLosses \in Nat /\ MaxCrashes \in Nat
  OBVIOUS
<1>2. [state |-> "RUNNING", bytes |-> 0] \in Snapshot /\ {} \in SUBSET Snapshot
  BY <1>1 DEF Snapshot
<1>3. NoStream \in StreamRecord
  BY <1>2 DEF NoStream, StreamRecord
<1>4. NewView \in ViewRecord
  BY <1>1, <1>2 DEF NewView, ViewRecord
<1>5. StreamTypeOK
  BY <1>1, <1>2, <1>3, <1>4 DEF StreamTypeOK, StreamRecord, ViewRecord
<1>6. StreamsSteady
  BY DEF StreamsSteady, Steady, On, NoStream
<1> QED
  BY <1>5, <1>6 DEF StreamIInv

(* The streams of progress keep their invariant (transfers.ts:646-683).    *)
THEOREM StreamInvariance == StreamSpec => []StreamIInv
<1>1. StreamIInv /\ [StreamNext]_streamVars => StreamIInv'
  <2> SUFFICES ASSUME StreamIInv, [StreamNext]_streamVars PROVE StreamIInv'
    OBVIOUS
  <2>0. Served /\ StreamTypeOK
    BY DEF StreamIInv, StreamTypeOK, Served, StreamRecord
  <2>1. Served'
    <3>1. ASSUME Running PROVE host \in Proc /\ job[host] \in Snapshot
      BY <2>0, <3>1 DEF StreamTypeOK, Running, Nothing
    <3>2. CASE Report
      BY <3>1, <3>2, EmitStep DEF Report
    <3>3. CASE End
      <4>1. job'[host] \in Snapshot
        <5>1. PICK t : t = job[host] /\ t \in Snapshot /\ host \in Proc
          BY <3>1, <3>3 DEF End
        <5>2. [t EXCEPT !.state = "ENDED"] \in Snapshot
          BY <5>1 DEF Snapshot
        <5>3. job' = [job EXCEPT ![host] = [t EXCEPT !.state = "ENDED"]]
          BY <3>3, <5>1 DEF End
        <5> QED
          BY <2>0, <5>1, <5>2, <5>3 DEF StreamTypeOK
      <4> QED
        BY <3>1, <3>3, <4>1, EmitStep DEF End
    <3>4. ASSUME \/ Load \/ UNCHANGED streamVars
                 \/ \E q \in Proc : Forget(q) \/ TakeOver(q)
                 \/ \E t \in Snapshot : Persist(t) \/ PersistFails(t)
                 \/ \E v \in Viewer :
                      \/ LineDrops(v)
                      \/ \E q \in Proc : Poll(v, q)
                      \/ \E t \in Snapshot : Polled(v, t)
          PROVE  stream' = stream /\ wire' = wire /\ subs' = subs
      BY <3>4 DEF Load, streamVars, Forget, TakeOver, Persist, PersistFails, LineDrops, Poll, Polled
    <3>5. ASSUME stream' = stream, wire' = wire, subs' = subs
          PROVE  Served'
      BY <2>0, <3>5 DEF Served, StreamsSteady, On
    <3> QED
      BY <3>2, <3>3, <3>4, <3>5, AcceptStep, StreamingStep, DieStep, PageTakes DEF StreamNext
  <2>2. StreamTypeOK'
    BY <2>0, <2>1, StreamData, ViewStep DEF StreamTypeOK, Served, StreamRecord, ViewRecord
  <2> QED
    BY <2>1, <2>2 DEF StreamIInv, Served
<1> QED
  BY <1>1, StreamInitially, PTL DEF StreamSpec

(* Nothing follows the end on a stream, and what a closed stream leaves    *)
(* behind was closed before its handler had hold of it, for any viewers,   *)
(* replicas, losses and crashes (transfers.ts:646-683).                    *)
THEOREM StreamSafe == StreamSpec => []StreamInv
<1>1. StreamIInv => StreamInv
  <2> SUFFICES ASSUME StreamIInv PROVE EndIsLast /\ LeftoversKnown
    BY DEF StreamIInv, StreamInv
  <2>1. EndIsLast
    BY DEF StreamIInv, StreamsSteady, Steady, EndIsLast
  <2>2. LeftoversKnown
    <3> SUFFICES ASSUME NEW v \in Viewer, stream[v].closed, stream[v].timer \/ \E p \in Proc : v \in subs[p]
                 PROVE  stream[v].early
      BY DEF LeftoversKnown
    <3>1. stream[v].timer \/ On(v) # {}
      BY DEF On
    <3> QED
      BY <3>1 DEF StreamIInv, StreamsSteady, Steady
  <2> QED
    BY <2>1, <2>2
<1> QED
  BY <1>1, StreamInvariance, PTL

----------------------------------------------------------------------------
(***************************************************************************)
(* The invariant of TransferPage                                           *)
(***************************************************************************)

(* What a list says of a transfer only advances.                           *)
Rank == [absent |-> 0, active |-> 1, started |-> 2, failed |-> 3, done |-> 4]

(* A list on its way is not older than the one shown.                      *)
ListsInv ==
  \A s \in Site, x \in Xfer :
    /\ Rank[data[s][x]] <= Rank[Listing(s)[x]]
    /\ fetch[s] # <<>> =>
         Rank[data[s][x]] <= Rank[fetch[s][1][x]] /\ Rank[fetch[s][1][x]] <= Rank[Listing(s)[x]]

(* The attempts of x: a start under way counts the failures before it, and *)
(* so does a reservation; there is one of them, and nobody starts while    *)
(* the transfer itself is being started.                                   *)
Attempts(x) ==
  /\ starts[x] <= failures[x] + 1 /\ starts[x] <= MaxTries
  /\ Len(flight[x]) <= 1
  /\ flight[x] # <<>> =>
       /\ failures[x] = flight[x][1] /\ starts[x] = failures[x] + 1
       /\ pending[x] # Unreserved => x \in fired
  /\ (flight[x] = <<>> /\ pending[x] # Unreserved) =>
       starts[x] = failures[x] /\ failures[x] = pending[x]
  /\ (edc[x] = "absent" \/ asked[x] = "starting") =>
       starts[x] = 0 /\ failures[x] = 0 /\ flight[x] = <<>> /\ pending[x] = Unreserved
  /\ asked[x] = "starting" => edc[x] # "absent"

(* The notes: what was told is over or the user's doing, what is shown as  *)
(* failed was told, and the first list of a connector was looked at.       *)
NotesInv ==
  /\ seeded <=> data[site] # Empty
  /\ own \subseteq touched /\ touched \subseteq told
  /\ \A x \in told : Over(data[site][x]) \/ x \in touched
  /\ \A x \in Xfer : data[site][x] = "failed" => x \in told
  /\ \A x \in watched : data[site][x] # "absent"

PageIInv ==
  PageTypeOK /\ ListsInv /\ (\A x \in Xfer : Attempts(x)) /\ NotesInv /\ FailuresTold

(* What a list may say of a transfer.                                      *)
LEMMA Ranks ==
  /\ \A a \in {"absent", "active", "started", "failed", "done"} : Rank[a] \in Nat
  /\ Rank["absent"] = 0 /\ Rank["active"] = 1 /\ Rank["started"] = 2 /\ Rank["failed"] = 3 /\ Rank["done"] = 4
  /\ \A e \in Status : Shown[e] \in {"absent", "active", "started", "failed", "done"}
BY DEF Rank, Status, Shown

LEMMA ListingListed ==
  ASSUME PageTypeOK, NEW s \in Site
  PROVE  /\ Listing(s) \in Listed
         /\ fetch[s] # <<>> => fetch[s][1] \in Listed /\ fetch[s] = <<fetch[s][1]>>
<1>1. Listing(s) \in Listed
  BY Ranks DEF Listing, Listed, PageTypeOK
<1>2. ASSUME fetch[s] # <<>> PROVE fetch[s][1] \in Listed /\ fetch[s] = <<fetch[s][1]>>
  BY <1>2 DEF PageTypeOK
<1> QED
  BY <1>1, <1>2

(* The transfers, and what the user asks of them: a transfer only          *)
(* advances, and it is being started only when there was none.             *)
LEMMA WorldMoves ==
  ASSUME PageTypeOK, [PageNext]_pageVars
  PROVE  /\ edc' \in [Xfer -> Status] /\ asked' \in [Xfer -> {"no", "starting", "sent", "taken"}]
         /\ \A x \in Xfer :
              /\ Rank[Shown[edc[x]]] <= Rank[Shown[edc'[x]]]
              /\ edc'[x] = "absent" => edc[x] = "absent"
              /\ asked'[x] = "starting" => asked[x] = "starting" \/ edc[x] = "absent"
<1>0. edc \in [Xfer -> Status] /\ asked \in [Xfer -> {"no", "starting", "sent", "taken"}]
  BY DEF PageTypeOK
<1>1. \A x \in Xfer : Rank[Shown[edc[x]]] \in Nat
  BY <1>0, Ranks
<1>2. ASSUME NEW x \in Xfer, NEW from, NEW to \in Status, edc[x] \in from, edc' = [edc EXCEPT ![x] = to],
             to # "absent", Rank[Shown[edc[x]]] <= Rank[Shown[to]]
      PROVE  /\ edc' \in [Xfer -> Status]
             /\ \A y \in Xfer : /\ Rank[Shown[edc[y]]] <= Rank[Shown[edc'[y]]]
                                /\ edc'[y] = "absent" => edc[y] = "absent"
  BY <1>0, <1>1, <1>2
<1>3. ASSUME edc' = edc
      PROVE  /\ edc' \in [Xfer -> Status]
             /\ \A y \in Xfer : /\ Rank[Shown[edc[y]]] <= Rank[Shown[edc'[y]]]
                                /\ edc'[y] = "absent" => edc[y] = "absent"
  BY <1>0, <1>1, <1>3
<1>4. ASSUME NEW x \in Xfer, Start(x)
      PROVE  /\ edc' \in [Xfer -> Status]
             /\ \A y \in Xfer : /\ Rank[Shown[edc[y]]] <= Rank[Shown[edc'[y]]]
                                /\ edc'[y] = "absent" => edc[y] = "absent"
  <2>1. Rank[Shown["absent"]] <= Rank[Shown["requested"]] /\ "requested" \in Status
    BY DEF Rank, Shown, Status
  <2> QED
    BY <1>2, <1>4, <2>1 DEF Start
<1>5. ASSUME NEW x \in Xfer, ActTakes(x)
      PROVE  /\ edc' \in [Xfer -> Status]
             /\ \A y \in Xfer : /\ Rank[Shown[edc[y]]] <= Rank[Shown[edc'[y]]]
                                /\ edc'[y] = "absent" => edc[y] = "absent"
  <2>1. /\ Rank[Shown["requested"]] <= Rank[Shown["ended"]] /\ Rank[Shown["started"]] <= Rank[Shown["ended"]]
        /\ "ended" \in Status
    BY DEF Rank, Shown, Status
  <2> QED
    BY <1>2, <1>5, <2>1 DEF ActTakes
<1>6. ASSUME NEW x \in Xfer, Goes(x)
      PROVE  /\ edc' \in [Xfer -> Status]
             /\ \A y \in Xfer : /\ Rank[Shown[edc[y]]] <= Rank[Shown[edc'[y]]]
                                /\ edc'[y] = "absent" => edc[y] = "absent"
  <2>1. /\ Rank[Shown["requested"]] <= Rank[Shown["started"]] /\ Rank[Shown["requested"]] <= Rank[Shown["failed"]]
        /\ Rank[Shown["started"]] <= Rank[Shown["failed"]] /\ Rank[Shown["started"]] <= Rank[Shown["ended"]]
        /\ Rank[Shown["ended"]] <= Rank[Shown["noted"]] /\ {"started", "failed", "ended", "noted"} \subseteq Status
    BY DEF Rank, Shown, Status
  <2>2. PICK from, to : /\ to \in Status /\ to # "absent" /\ edc[x] \in from /\ edc' = [edc EXCEPT ![x] = to]
                        /\ Rank[Shown[edc[x]]] <= Rank[Shown[to]]
    BY <1>6, <2>1 DEF Goes, Become
  <2> QED
    BY <1>2, <2>2
<1>7. ASSUME NEW x, NEW s,
             \/ UNCHANGED pageVars \/ Fetch \/ TokensChange \/ Arrive(s) \/ FetchFails(s) \/ ChangeSite(s)
             \/ Reserve(x) \/ StartOk(x) \/ StartFails(x) \/ Act(x) \/ ActOk(x) \/ ActFails(x)
      PROVE  edc' = edc
  BY <1>7 DEF pageVars, Fetch, TokensChange, Arrive, FetchFails, ChangeSite, Reserve, StartOk, StartFails, Act, ActOk,
     ActFails, world
<1>8. /\ edc' \in [Xfer -> Status]
      /\ \A y \in Xfer : /\ Rank[Shown[edc[y]]] <= Rank[Shown[edc'[y]]]
                         /\ edc'[y] = "absent" => edc[y] = "absent"
  BY <1>3, <1>4, <1>5, <1>6, <1>7 DEF PageNext
<1>9. ASSUME NEW x \in Xfer, NEW s, Start(x) \/ Reserve(x) \/ Act(x) \/ ActTakes(x) \/ ActOk(x) \/ ActFails(x)
      PROVE  \E a \in {"no", "starting", "sent", "taken"} :
               asked' = [asked EXCEPT ![x] = a] /\ (a = "starting" => edc[x] = "absent")
  BY <1>9 DEF Start, Reserve, Act, ActTakes, ActOk, ActFails
<1>10. ASSUME NEW x, NEW s,
              \/ UNCHANGED pageVars \/ Fetch \/ TokensChange \/ Arrive(s) \/ FetchFails(s) \/ ChangeSite(s)
              \/ StartOk(x) \/ StartFails(x) \/ Goes(x)
       PROVE  asked' = asked
  BY <1>10 DEF pageVars, Fetch, TokensChange, Arrive, FetchFails, ChangeSite, StartOk, StartFails, Goes, Become, world
<1>11. /\ asked' \in [Xfer -> {"no", "starting", "sent", "taken"}]
       /\ \A x \in Xfer : asked'[x] = "starting" => asked[x] = "starting" \/ edc[x] = "absent"
  <2>1. ASSUME NEW x \in Xfer, NEW a \in {"no", "starting", "sent", "taken"},
               asked' = [asked EXCEPT ![x] = a], a = "starting" => edc[x] = "absent"
        PROVE  /\ asked' \in [Xfer -> {"no", "starting", "sent", "taken"}]
               /\ \A y \in Xfer : asked'[y] = "starting" => asked[y] = "starting" \/ edc[y] = "absent"
    BY <1>0, <2>1
  <2>2. \/ asked' = asked
        \/ \E x \in Xfer : \E a \in {"no", "starting", "sent", "taken"} :
             asked' = [asked EXCEPT ![x] = a] /\ (a = "starting" => edc[x] = "absent")
    BY <1>9, <1>10 DEF PageNext
  <2> QED
    BY <1>0, <2>1, <2>2
<1> QED
  BY <1>8, <1>11

(* The lists do not go back.                                               *)
LEMMA ListsStep ==
  ASSUME PageTypeOK, ListsInv, [PageNext]_pageVars
  PROVE  /\ site' \in Site /\ fetch' \in [Site -> {<<>>} \cup {<<l>> : l \in Listed}]
         /\ data' \in [Site -> Listed] /\ ListsInv'
<1>0. /\ site \in Site /\ fetch \in [Site -> {<<>>} \cup {<<l>> : l \in Listed}] /\ data \in [Site -> Listed]
      /\ edc \in [Xfer -> Status]
  BY DEF PageTypeOK
<1>1. \A s \in Site, x \in Xfer : /\ Rank[Listing(s)[x]] \in Nat /\ Rank[Listing(s)'[x]] \in Nat
                                  /\ Rank[Listing(s)[x]] <= Rank[Listing(s)'[x]]
  <2>1. ASSUME NEW s \in Site, NEW x \in Xfer
        PROVE  /\ Rank[Listing(s)[x]] \in Nat /\ Rank[Listing(s)'[x]] \in Nat
               /\ Rank[Listing(s)[x]] <= Rank[Listing(s)'[x]]
    <3>1. Listing(s)[x] = IF At[x] = s THEN Shown[edc[x]] ELSE "absent"
      BY DEF Listing
    <3>2. Listing(s)'[x] = IF At[x] = s THEN Shown[edc'[x]] ELSE "absent"
      BY DEF Listing
    <3>3. Rank[Shown[edc[x]]] <= Rank[Shown[edc'[x]]] /\ edc'[x] \in Status /\ edc[x] \in Status
      BY <1>0, WorldMoves
    <3> QED
      BY <3>1, <3>2, <3>3, Ranks
  <2> QED
    BY <2>1
<1>2. \A l \in Listed : \A x \in Xfer : Rank[l[x]] \in Nat
  BY Ranks DEF Listed
<1>3. /\ site' \in Site
      /\ \A s \in Site : \/ fetch'[s] = fetch[s] /\ data'[s] = data[s]
                         \/ fetch'[s] = <<>> /\ data'[s] = data[s]
                         \/ fetch'[s] = <<Listing(s)>> /\ data'[s] = data[s]
                         \/ fetch[s] # <<>> /\ fetch'[s] = <<>> /\ data'[s] = fetch[s][1]
      /\ fetch' = [s \in Site |-> fetch'[s]] /\ data' = [s \in Site |-> data'[s]]
  <2>1. CASE Fetch
    BY <1>0, <2>1 DEF Fetch
  <2>2. ASSUME NEW s \in Site, Arrive(s)
        PROVE  <1>3!1 /\ <1>3!2 /\ <1>3!3
    BY <1>0, <2>2 DEF Arrive
  <2>3. ASSUME NEW s \in Site, FetchFails(s)
        PROVE  <1>3!1 /\ <1>3!2 /\ <1>3!3
    BY <1>0, <2>3 DEF FetchFails
  <2>4. ASSUME NEW x \in Xfer, Reserve(x) \/ ActOk(x)
        PROVE  <1>3!1 /\ <1>3!2 /\ <1>3!3
    BY <1>0, <2>4 DEF Reserve, ActOk, Invalidated
  <2>5. ASSUME NEW s \in Site, ChangeSite(s)
        PROVE  <1>3!1 /\ <1>3!2 /\ <1>3!3
    BY <1>0, <2>5 DEF ChangeSite
  <2>6. ASSUME NEW x \in Xfer,
               \/ UNCHANGED pageVars \/ TokensChange \/ Start(x) \/ StartOk(x) \/ StartFails(x)
               \/ Act(x) \/ ActTakes(x) \/ ActFails(x) \/ Goes(x)
        PROVE  <1>3!1 /\ <1>3!2 /\ <1>3!3
    BY <1>0, <2>6 DEF pageVars, TokensChange, Start, StartOk, StartFails, Act, ActTakes, ActFails, Goes, Become
  <2>7. CASE UNCHANGED pageVars \/ TokensChange
    BY <1>0, <2>7 DEF pageVars, TokensChange
  <2> QED
    BY <2>1, <2>2, <2>3, <2>4, <2>5, <2>6, <2>7 DEF PageNext
<1>4. ASSUME NEW s \in Site
      PROVE  /\ fetch'[s] \in {<<>>} \cup {<<l>> : l \in Listed} /\ data'[s] \in Listed
             /\ \A x \in Xfer :
                  /\ Rank[data'[s][x]] <= Rank[Listing(s)'[x]]
                  /\ fetch'[s] # <<>> =>
                       Rank[data'[s][x]] <= Rank[fetch'[s][1][x]] /\ Rank[fetch'[s][1][x]] <= Rank[Listing(s)'[x]]
  <2>1. /\ Listing(s) \in Listed /\ data[s] \in Listed
        /\ fetch[s] # <<>> => fetch[s][1] \in Listed /\ fetch[s] = <<fetch[s][1]>>
    BY <1>0, ListingListed
  <2>2. \A x \in Xfer :
          /\ Rank[data[s][x]] <= Rank[Listing(s)[x]]
          /\ fetch[s] # <<>> =>
               Rank[data[s][x]] <= Rank[fetch[s][1][x]] /\ Rank[fetch[s][1][x]] <= Rank[Listing(s)[x]]
    BY DEF ListsInv
  <2>3. CASE fetch'[s] = fetch[s] /\ data'[s] = data[s]
    <3>1. fetch'[s] \in {<<>>} \cup {<<l>> : l \in Listed} /\ data'[s] \in Listed
      BY <1>0, <2>3
    <3>2. ASSUME NEW x \in Xfer
          PROVE  /\ Rank[data'[s][x]] <= Rank[Listing(s)'[x]]
                 /\ fetch'[s] # <<>> =>
                      Rank[data'[s][x]] <= Rank[fetch'[s][1][x]] /\ Rank[fetch'[s][1][x]] <= Rank[Listing(s)'[x]]
      <4>1. Rank[data[s][x]] \in Nat /\ (fetch[s] # <<>> => Rank[fetch[s][1][x]] \in Nat)
        BY <1>2, <2>1
      <4>2. fetch'[s] = fetch[s] /\ data'[s] = data[s]
        BY <2>3
      <4> QED
        BY <1>1, <2>2, <4>1, <4>2
    <3> QED
      BY <3>1, <3>2
  <2>4. CASE fetch'[s] = <<>> /\ data'[s] = data[s]
    BY <1>1, <1>2, <2>1, <2>2, <2>4
  <2>5. CASE fetch'[s] = <<Listing(s)>> /\ data'[s] = data[s]
    BY <1>1, <1>2, <2>1, <2>2, <2>5
  <2>6. CASE fetch[s] # <<>> /\ fetch'[s] = <<>> /\ data'[s] = fetch[s][1]
    BY <1>1, <1>2, <2>1, <2>2, <2>6
  <2> QED
    BY <1>3, <2>3, <2>4, <2>5, <2>6
<1> QED
  BY <1>3, <1>4 DEF ListsInv

ChainTypes ==
  /\ pending \in [Xfer -> (0..(MaxTries - 1)) \cup {Unreserved}] /\ fired \subseteq Xfer
  /\ flight \in [Xfer -> Seq(0..(MaxTries - 1))] /\ starts \in [Xfer -> Nat] /\ failures \in [Xfer -> Nat]

(* What a step does to the attempts of x: nothing, drop its reservation,   *)
(* or start it.                                                            *)
Drops(x) ==
  /\ flight'[x] = flight[x] /\ starts'[x] = starts[x] /\ failures'[x] = failures[x]
  /\ pending'[x] = Unreserved \/ (pending'[x] = pending[x] /\ (x \in fired => x \in fired'))

Fires(x) ==
  /\ pending[x] # Unreserved /\ x \notin fired
  /\ flight'[x] = Append(flight[x], pending[x]) /\ starts'[x] = starts[x] + 1 /\ failures'[x] = failures[x]
  /\ pending'[x] = Unreserved \/ (pending'[x] = pending[x] /\ x \in fired')

LEMMA OneSequence ==
  ASSUME NEW S, NEW w \in Seq(S), Len(w) <= 1, w # <<>>
  PROVE  Len(w) = 1 /\ w[1] \in S /\ Head(w) = w[1] /\ Tail(w) = <<>>
<1>1. Len(w) \in Nat /\ Len(w) # 0
  BY EmptySeq, LenProperties
<1>2. Len(w) = 1 /\ w[1] \in S
  BY <1>1, ElementOfSeq, SMTT(30)
<1>3. Tail(w) \in Seq(S) /\ Len(Tail(w)) = 0
  BY <1>2, HeadTailProperties
<1>4. Tail(w) = <<>>
  BY <1>3, EmptySeq
<1>5. Head(w) = w[1]
  OBVIOUS
<1> QED
  BY <1>2, <1>4, <1>5

LEMMA AttemptDropped ==
  ASSUME ChainTypes, NEW x \in Xfer, Attempts(x), Drops(x), [PageNext]_pageVars, PageTypeOK
  PROVE  Attempts(x)'
<1>1. /\ edc'[x] = "absent" => edc[x] = "absent"
      /\ asked'[x] = "starting" => asked[x] = "starting" \/ edc[x] = "absent"
  BY WorldMoves
<1>2. ASSUME asked'[x] = "starting" PROVE edc'[x] # "absent"
  <2>1. CASE asked[x] = "starting"
    BY <1>1, <2>1 DEF Attempts
  <2>2. CASE asked[x] # "starting"
    <3>1. asked' # asked
      BY <1>2, <2>2
    <3>2. ASSUME NEW y \in Xfer, Reserve(y) \/ Act(y) \/ ActTakes(y) \/ ActOk(y) \/ ActFails(y)
          PROVE  asked'[x] # "starting"
      BY <2>2, <3>2 DEF Reserve, Act, ActTakes, ActOk, ActFails, PageTypeOK
    <3>3. PICK y \in Xfer : Start(y)
      BY <1>2, <3>1, <3>2 DEF PageNext, pageVars, Fetch, TokensChange, Arrive, FetchFails, ChangeSite, StartOk,
         StartFails, Goes, Become, world
    <3>4. y = x
      BY <1>2, <2>2, <3>3 DEF Start, PageTypeOK
    <3> QED
      BY <3>3, <3>4 DEF Start, PageTypeOK
  <2> QED
    BY <2>1, <2>2
<1> QED
  BY <1>1, <1>2 DEF Attempts, Drops, ChainTypes

LEMMA AttemptFired ==
  ASSUME ChainTypes, NEW x \in Xfer, Attempts(x), Fires(x), edc'[x] = edc[x], asked'[x] = asked[x]
  PROVE  Attempts(x)' /\ flight'[x] \in Seq(0..(MaxTries - 1)) /\ starts'[x] \in Nat
<1>0. MaxTries \in Nat \ {0}
  BY PageAssumption
<1>1. flight[x] = <<>> /\ starts[x] = failures[x] /\ failures[x] = pending[x] /\ pending[x] \in 0..(MaxTries - 1)
  BY DEF Attempts, Fires, ChainTypes
<1>2. flight'[x] = <<pending[x]>>
  BY <1>1 DEF Fires
<1>3. ~(edc[x] = "absent" \/ asked[x] = "starting")
  BY DEF Attempts, Fires
<1>4. starts'[x] = pending[x] + 1 /\ failures'[x] = pending[x] /\ starts'[x] <= MaxTries /\ starts'[x] \in Nat
  BY <1>0, <1>1 DEF Fires
<1>5. Len(flight'[x]) = 1 /\ flight'[x][1] = pending[x] /\ flight'[x] # <<>> /\ flight'[x] \in Seq(0..(MaxTries - 1))
  BY <1>1, <1>2
<1>6. pending'[x] # Unreserved => x \in fired'
  BY DEF Fires
<1>7. starts'[x] <= failures'[x] + 1
  BY <1>1, <1>4
<1> QED
  BY <1>1, <1>3, <1>4, <1>5, <1>6, <1>7 DEF Attempts

(* The chain fires for a transfer, or not.                                 *)
LEMMA ChainStep ==
  ASSUME ChainTypes, NEW l, Chain(l)
  PROVE  /\ \A x \in Xfer : Drops(x) \/ Fires(x)
         /\ pending' \in [Xfer -> (0..(MaxTries - 1)) \cup {Unreserved}] /\ fired' \subseteq Xfer
         /\ flight' = [x \in Xfer |-> flight'[x]] /\ starts' = [x \in Xfer |-> starts'[x]]
         /\ failures' \in [Xfer -> Nat]
<1>1. PICK token, old : Chained(l, token, old)
  BY DEF Chain
<1> DEFINE reserved == {x \in Xfer : pending[x] # Unreserved /\ l[x] # "absent"}
           dropped == {x \in reserved : Over(l[x]) \/ x \in old}
           fires == {x \in reserved \ dropped : l[x] = "started" /\ x \in token /\ ~UnderWay(x)}
<1>2.   /\ fires \subseteq Xfer
        /\ \A x \in fires : pending[x] # Unreserved /\ x \notin fired /\ x \notin dropped
        /\ pending' = [x \in Xfer |-> IF x \in dropped THEN Unreserved ELSE pending[x]]
        /\ fired' = fired \cup fires
        /\ flight' = [x \in Xfer |-> IF x \in fires THEN Append(flight[x], pending[x]) ELSE flight[x]]
        /\ starts' = [x \in Xfer |-> IF x \in fires THEN starts[x] + 1 ELSE starts[x]]
        /\ failures' = failures
  BY <1>1 DEF Chained, UnderWay
<1> HIDE DEF reserved, dropped, fires
<1>3. ASSUME NEW x \in Xfer PROVE Drops(x) \/ Fires(x)
  BY <1>2 DEF Drops, Fires
<1>4. pending' \in [Xfer -> (0..(MaxTries - 1)) \cup {Unreserved}] /\ fired' \subseteq Xfer
  BY <1>2 DEF ChainTypes
<1>5. flight' = [x \in Xfer |-> flight'[x]] /\ starts' = [x \in Xfer |-> starts'[x]]
  BY <1>2
<1>6. failures' \in [Xfer -> Nat]
  BY <1>2 DEF ChainTypes
<1> QED
  BY <1>3, <1>4, <1>5, <1>6

(* Starts follow failures, whatever the page does.                         *)
LEMMA AttemptsStep ==
  ASSUME PageTypeOK, \A x \in Xfer : Attempts(x), [PageNext]_pageVars
  PROVE  ChainTypes' /\ \A x \in Xfer : Attempts(x)'
<1>0. ChainTypes /\ MaxTries \in Nat \ {0}
  BY PageAssumption DEF PageTypeOK, ChainTypes
<1>1. ASSUME edc' = edc, asked' = asked, \A x \in Xfer : Drops(x) \/ Fires(x),
             pending' \in [Xfer -> (0..(MaxTries - 1)) \cup {Unreserved}], fired' \subseteq Xfer,
             flight' = [x \in Xfer |-> flight'[x]], starts' = [x \in Xfer |-> starts'[x]],
             failures' \in [Xfer -> Nat]
      PROVE  ChainTypes' /\ \A x \in Xfer : Attempts(x)'
  <2>1. ASSUME NEW x \in Xfer
        PROVE  Attempts(x)' /\ flight'[x] \in Seq(0..(MaxTries - 1)) /\ starts'[x] \in Nat
    <3>1. CASE Drops(x)
      <4>1. Attempts(x)'
        BY <1>0, <3>1, AttemptDropped
      <4> QED
        BY <1>0, <3>1, <4>1 DEF Drops, ChainTypes
    <3>2. CASE Fires(x)
      BY <1>0, <1>1, <3>2, AttemptFired
    <3> QED
      BY <1>1, <3>1, <3>2
  <2>2. flight' \in [Xfer -> Seq(0..(MaxTries - 1))] /\ starts' \in [Xfer -> Nat]
    BY <1>1, <2>1
  <2> QED
    BY <1>1, <2>1, <2>2 DEF ChainTypes
<1>2. ASSUME UNCHANGED chain
      PROVE  ChainTypes' /\ \A x \in Xfer : Attempts(x)'
  <2>1. \A x \in Xfer : Drops(x)
    BY <1>2 DEF chain, Drops
  <2>2. ChainTypes'
    BY <1>0, <1>2 DEF chain, ChainTypes
  <2> QED
    BY <1>0, <2>1, <2>2, AttemptDropped
<1>3. ASSUME NEW l, Chain(l), edc' = edc, asked' = asked
      PROVE  ChainTypes' /\ \A x \in Xfer : Attempts(x)'
  BY <1>0, <1>1, <1>3, ChainStep
<1>4. ASSUME NEW s \in Site, ChangeSite(s)
      PROVE  ChainTypes' /\ \A x \in Xfer : Attempts(x)'
  <2>1. PICK fires :
          /\ \A x \in fires : pending[x] # Unreserved /\ x \notin fired
          /\ flight' = [x \in Xfer |-> IF x \in fires THEN Append(flight[x], pending[x]) ELSE flight[x]]
          /\ starts' = [x \in Xfer |-> IF x \in fires THEN starts[x] + 1 ELSE starts[x]]
          /\ pending' = [x \in Xfer |-> Unreserved] /\ fired' = {} /\ failures' = failures
          /\ edc' = edc /\ asked' = asked
    BY <1>4 DEF ChangeSite, UnderWay, world
  <2>2. \A x \in Xfer : Drops(x) \/ Fires(x)
    BY <2>1 DEF Drops, Fires
  <2>3. /\ pending' \in [Xfer -> (0..(MaxTries - 1)) \cup {Unreserved}] /\ fired' \subseteq Xfer
        /\ flight' = [x \in Xfer |-> flight'[x]] /\ starts' = [x \in Xfer |-> starts'[x]]
        /\ failures' \in [Xfer -> Nat]
    BY <1>0, <2>1 DEF ChainTypes
  <2> QED
    BY <1>1, <2>1, <2>2, <2>3
<1>5. ASSUME NEW x \in Xfer, Reserve(x)
      PROVE  ChainTypes' /\ \A y \in Xfer : Attempts(y)'
  <2>1. /\ asked[x] = "starting" /\ asked' = [asked EXCEPT ![x] = "no"] /\ pending' = [pending EXCEPT ![x] = 0]
        /\ edc' = edc /\ fired' = fired /\ flight' = flight /\ starts' = starts /\ failures' = failures
    BY <1>5 DEF Reserve
  <2>2. ChainTypes'
    BY <1>0, <2>1 DEF ChainTypes
  <2>3. /\ starts[x] = 0 /\ failures[x] = 0 /\ flight[x] = <<>> /\ edc[x] # "absent"
    BY <2>1 DEF Attempts
  <2>4. asked'[x] = "no" /\ pending'[x] = 0
    BY <1>0, <2>1 DEF ChainTypes, PageTypeOK
  <2>5. Attempts(x)'
    BY <1>0, <2>1, <2>3, <2>4 DEF Attempts
  <2>6. ASSUME NEW y \in Xfer, y # x PROVE Attempts(y)'
    <3>1. Drops(y)
      BY <1>0, <2>1, <2>6 DEF Drops, ChainTypes
    <3> QED
      BY <1>0, <3>1, AttemptDropped
  <2> QED
    BY <2>2, <2>5, <2>6
<1>6. ASSUME NEW x \in Xfer, StartOk(x) \/ StartFails(x)
      PROVE  ChainTypes' /\ \A y \in Xfer : Attempts(y)'
  <2>1. /\ flight[x] # <<>> /\ Len(flight[x]) <= 1 /\ flight[x] \in Seq(0..(MaxTries - 1))
        /\ failures[x] = flight[x][1] /\ starts[x] = failures[x] + 1 /\ starts[x] <= MaxTries
        /\ starts[x] \in Nat /\ edc[x] # "absent" /\ asked[x] # "starting"
    BY <1>0, <1>6 DEF StartOk, StartFails, Attempts, ChainTypes
  <2>2. Tail(flight[x]) = <<>> /\ Head(flight[x]) = failures[x] /\ failures[x] \in 0..(MaxTries - 1)
    BY <2>1, OneSequence
  <2>3. PICK n, f : /\ pending' = [pending EXCEPT ![x] = n] /\ failures' = [failures EXCEPT ![x] = f]
                    /\ \/ n = Unreserved /\ f \in {failures[x], failures[x] + 1}
                       \/ n = failures[x] + 1 /\ n < MaxTries /\ f = n
                    /\ flight' = [flight EXCEPT ![x] = <<>>] /\ starts' = starts
                    /\ edc' = edc /\ asked' = asked
                    /\ fired' \subseteq fired /\ \A y \in fired : y # x => y \in fired'
    <3>1. CASE StartOk(x)
      <4>1. failures' = [failures EXCEPT ![x] = failures[x]]
        BY <1>0, <3>1 DEF StartOk, ChainTypes
      <4> QED
        BY <2>2, <3>1, <4>1 DEF StartOk, world
    <3>2. CASE StartFails(x)
      <4>1. PICK n : n = failures[x] + 1 /\ n \in Nat
        BY <2>2
      <4>2. /\ pending' = [pending EXCEPT ![x] = IF n >= MaxTries THEN Unreserved ELSE n]
            /\ flight' = [flight EXCEPT ![x] = <<>>] /\ starts' = starts /\ edc' = edc /\ asked' = asked
            /\ fired' = fired \ {x}
        BY <2>2, <3>2, <4>1 DEF StartFails, GivenUp, world
      <4>3. failures' = [failures EXCEPT ![x] = n]
        BY <1>0, <3>2, <4>1 DEF StartFails, ChainTypes
      <4>4. CASE n >= MaxTries
        BY <4>1, <4>2, <4>3, <4>4
      <4>5. CASE ~(n >= MaxTries)
        <5>1. n < MaxTries
          BY <1>0, <4>1, <4>5
        <5>2. pending' = [pending EXCEPT ![x] = n]
          BY <4>2, <4>5
        <5> QED
          BY <4>1, <4>2, <4>3, <5>1, <5>2
      <4> QED
        BY <4>4, <4>5
    <3> QED
      BY <1>6, <3>1, <3>2
  <2>4. n \in (0..(MaxTries - 1)) \cup {Unreserved} /\ f \in Nat
    BY <1>0, <2>2, <2>3
  <2>5. ChainTypes'
    BY <1>0, <2>3, <2>4 DEF ChainTypes
  <2>6. pending'[x] = n /\ failures'[x] = f /\ flight'[x] = <<>> /\ starts'[x] = starts[x]
    BY <1>0, <2>3 DEF ChainTypes
  <2>7. Attempts(x)'
    BY <1>0, <2>1, <2>2, <2>3, <2>4, <2>6 DEF Attempts
  <2>8. ASSUME NEW y \in Xfer, y # x PROVE Attempts(y)'
    <3>1. Drops(y)
      BY <1>0, <2>3, <2>8 DEF Drops, ChainTypes
    <3> QED
      BY <1>0, <3>1, AttemptDropped
  <2> QED
    BY <2>5, <2>7, <2>8
<1>7. ASSUME NEW s \in Site, Arrive(s)
      PROVE  ChainTypes' /\ \A x \in Xfer : Attempts(x)'
  BY <1>2, <1>3, <1>7 DEF Arrive, world
<1>8. CASE TokensChange
  BY <1>3, <1>8 DEF TokensChange, world
<1>9. ASSUME \/ UNCHANGED pageVars \/ Fetch
             \/ \E s \in Site : FetchFails(s)
             \/ \E x \in Xfer : Start(x) \/ Act(x) \/ ActTakes(x) \/ ActOk(x) \/ ActFails(x) \/ Goes(x)
      PROVE  UNCHANGED chain
  BY <1>9 DEF pageVars, Fetch, FetchFails, Start, Act, ActTakes, ActOk, ActFails, Goes, Become, chain
<1> QED
  BY <1>2, <1>4, <1>5, <1>6, <1>7, <1>8, <1>9 DEF PageNext

NoteTypes ==
  /\ told \subseteq Xfer /\ own \subseteq told /\ seeded \in BOOLEAN /\ notices \in [Xfer -> Nat]
  /\ watched \subseteq Xfer /\ touched \subseteq Xfer /\ changes \in 0..MaxChanges

(* What two lists, one not older than the other, say of a transfer.        *)
LEMMA NotOlder ==
  ASSUME NEW a \in {"absent", "active", "started", "failed", "done"},
         NEW b \in {"absent", "active", "started", "failed", "done"}, Rank[a] <= Rank[b]
  PROVE  /\ b = "absent" => a = "absent"
         /\ Over(a) => Over(b)
         /\ b = "failed" => a # "done"
BY DEF Rank, Over

(* The list that arrives on the page's connector, and the one it replaces. *)
LEMMA Newer ==
  ASSUME PageTypeOK, ListsInv, fetch[site] # <<>>, fetch[site][1] # data[site]
  PROVE  /\ fetch[site][1] \in Listed /\ fetch[site][1] # Empty
         /\ \A x \in Xfer :
              /\ fetch[site][1][x] = "absent" => data[site][x] = "absent"
              /\ Over(data[site][x]) => Over(fetch[site][1][x])
              /\ fetch[site][1][x] = "failed" => data[site][x] # "done" /\ At[x] = site
<1> DEFINE l == fetch[site][1]
<1>1. l \in Listed /\ data[site] \in Listed /\ site \in Site /\ Listing(site) \in Listed
  BY ListingListed DEF PageTypeOK
<1>2. \A x \in Xfer : Rank[data[site][x]] <= Rank[l[x]] /\ Rank[l[x]] <= Rank[Listing(site)[x]]
  BY <1>1 DEF ListsInv
<1> HIDE DEF l
<1>3. \A x \in Xfer : /\ l[x] \in {"absent", "active", "started", "failed", "done"}
                      /\ data[site][x] \in {"absent", "active", "started", "failed", "done"}
                      /\ Listing(site)[x] \in {"absent", "active", "started", "failed", "done"}
  BY <1>1 DEF Listed
<1>4. \A x \in Xfer : /\ l[x] = "absent" => data[site][x] = "absent"
                      /\ Over(data[site][x]) => Over(l[x])
                      /\ l[x] = "failed" => data[site][x] # "done"
                      /\ Listing(site)[x] = "absent" => l[x] = "absent"
  BY <1>2, <1>3, NotOlder
<1>5. \A x \in Xfer : At[x] # site => Listing(site)[x] = "absent"
  BY DEF Listing
<1>6. \A x \in Xfer : l[x] = "failed" => At[x] = site
  BY <1>4, <1>5
<1>7. ASSUME l = Empty PROVE FALSE
  <2>1. \A x \in Xfer : data[site][x] = "absent"
    BY <1>4, <1>7 DEF Empty
  <2>2. data[site] = Empty
    BY <1>1, <2>1 DEF Listed, Empty
  <2> QED
    BY <1>7, <2>2 DEF l
<1> QED
  BY <1>1, <1>4, <1>6, <1>7 DEF l

(* A new list arrives on the page's connector, and its notes are made.     *)
LEMMA NoticesStep ==
  ASSUME PageTypeOK, ListsInv, NotesInv, FailuresTold, fetch[site] # <<>>, fetch[site][1] # data[site],
         Notices(fetch[site][1]), UNCHANGED <<own, touched, changes, site>>, data'[site] = fetch[site][1]
  PROVE  NoteTypes' /\ NotesInv' /\ FailuresTold'
<1> DEFINE l == fetch[site][1]
           new == {x \in Xfer : l[x] = "failed" /\ x \notin told}
<1>0. NoteTypes
  BY DEF PageTypeOK, NoteTypes
<1>1. /\ l \in Listed /\ l # Empty
      /\ \A x \in Xfer :
           /\ l[x] = "absent" => data[site][x] = "absent"
           /\ Over(data[site][x]) => Over(l[x])
           /\ l[x] = "failed" => data[site][x] # "done" /\ At[x] = site
  BY Newer
<1>2. /\ seeded' = TRUE
      /\ watched' = watched \cup {x \in Xfer : l[x] \in {"active", "started"}}
      /\ told' = told \cup (IF seeded THEN new ELSE Seed(l))
      /\ notices' = [x \in Xfer |-> IF seeded /\ x \in new \ own THEN notices[x] + 1 ELSE notices[x]]
      /\ own' = own /\ touched' = touched /\ changes' = changes /\ site' = site /\ data'[site'] = l
  BY <1>1 DEF Notices
<1>3. \A x \in Xfer : (x \in new => l[x] = "failed" /\ x \notin told) /\ (l[x] = "failed" => x \in new \/ x \in told)
  OBVIOUS
<1>4. new \subseteq Xfer /\ Seed(l) \subseteq Xfer /\ \A x \in Xfer : x \in Seed(l) <=> Over(l[x])
  BY DEF Seed
<1> HIDE DEF l, new
<1>5. told' \subseteq Xfer /\ told \subseteq told' /\ watched' \subseteq Xfer
  BY <1>0, <1>2, <1>4 DEF NoteTypes
<1>6. notices' \in [Xfer -> Nat] /\ \A x \in Xfer : notices[x] > 0 => notices'[x] > 0
  BY <1>0, <1>2 DEF NoteTypes
<1>7. NoteTypes'
  BY <1>0, <1>2, <1>5, <1>6 DEF NoteTypes
<1>8. \A x \in told' : Over(l[x]) \/ x \in touched
  BY <1>0, <1>1, <1>2, <1>3, <1>4 DEF NotesInv, Over, NoteTypes
<1>9. \A x \in Xfer : l[x] = "failed" => x \in told'
  BY <1>2, <1>3, <1>4 DEF Over
<1>10. \A x \in watched' : l[x] # "absent"
  BY <1>0, <1>1, <1>2 DEF NotesInv, NoteTypes
<1>11. NotesInv'
  BY <1>1, <1>2, <1>5, <1>8, <1>9, <1>10 DEF NotesInv
<1>12. ASSUME NEW x \in watched', l[x] = "failed" PROVE notices'[x] > 0 \/ x \in touched
  <2>1. x \in watched /\ x \in Xfer
    BY <1>0, <1>2, <1>12 DEF NoteTypes
  <2>2. seeded
    BY <2>1 DEF NotesInv, Empty
  <2>3. CASE x \in told
    BY <1>1, <1>6, <1>12, <2>1, <2>3 DEF NotesInv, FailuresTold, Over
  <2>4. CASE x \notin told
    <3>1. CASE x \in own
      BY <3>1 DEF NotesInv
    <3>2. CASE x \notin own
      BY <1>0, <1>2, <1>3, <1>12, <2>1, <2>2, <2>4, <3>2 DEF NoteTypes
    <3> QED
      BY <3>1, <3>2
  <2> QED
    BY <2>3, <2>4
<1>13. FailuresTold'
  BY <1>2, <1>12 DEF FailuresTold
<1> QED
  BY <1>7, <1>11, <1>13

(* The notes are right, whatever the page does.                            *)
LEMMA NotesStep ==
  ASSUME PageTypeOK, ListsInv, NotesInv, FailuresTold, [PageNext]_pageVars
  PROVE  NoteTypes' /\ NotesInv' /\ FailuresTold'
<1>0. NoteTypes /\ site \in Site /\ data \in [Site -> Listed] /\ MaxChanges \in Nat
  BY PageAssumption DEF PageTypeOK, NoteTypes
<1>1. ASSUME UNCHANGED notes, changes' = changes, site' = site, data'[site] = data[site]
      PROVE  NoteTypes' /\ NotesInv' /\ FailuresTold'
  <2>1. NoteTypes'
    BY <1>0, <1>1 DEF NoteTypes, notes
  <2>2. NotesInv'
    BY <1>0, <1>1 DEF NotesInv, notes
  <2>3. FailuresTold'
    BY <1>0, <1>1 DEF FailuresTold, notes
  <2> QED
    BY <2>1, <2>2, <2>3
<1>2. ASSUME NEW s \in Site, Arrive(s)
      PROVE  NoteTypes' /\ NotesInv' /\ FailuresTold'
  <2>1. /\ fetch[s] # <<>> /\ data' = [data EXCEPT ![s] = fetch[s][1]] /\ site' = site /\ changes' = changes
    BY <1>2 DEF Arrive
  <2>2. CASE s = site /\ fetch[s][1] # data[s]
    <3>1. Notices(fetch[site][1]) /\ UNCHANGED <<own, touched>>
      BY <1>2, <2>2 DEF Arrive
    <3>2. data'[site] = fetch[site][1]
      BY <1>0, <2>1, <2>2
    <3> QED
      BY <2>1, <2>2, <3>1, <3>2, NoticesStep
  <2>3. CASE ~(s = site /\ fetch[s][1] # data[s])
    <3>1. UNCHANGED notes
      BY <1>2, <2>3 DEF Arrive
    <3>2. data'[site] = data[site]
      BY <1>0, <2>1, <2>3
    <3> QED
      BY <1>1, <2>1, <3>1, <3>2
  <2> QED
    BY <2>2, <2>3
<1>3. ASSUME NEW s \in Site, ChangeSite(s)
      PROVE  NoteTypes' /\ NotesInv' /\ FailuresTold'
  <2> DEFINE l == data[s]
  <2>1. /\ site' = s /\ data' = data /\ changes' = changes + 1 /\ changes < MaxChanges
        /\ told' = Seed(l) /\ own' = {} /\ touched' = {} /\ notices' = notices
        /\ watched' = {x \in Xfer : l[x] \in {"active", "started"}}
        /\ seeded' = (FALSE \/ l # Empty)
    BY <1>3 DEF ChangeSite, Reset
  <2>2. seeded' \in BOOLEAN /\ (seeded' <=> l # Empty)
    BY <2>1, Zenon
  <2>3. NoteTypes'
    BY <1>0, <2>1, <2>2 DEF NoteTypes, Seed
  <2>4. NotesInv'
    <3>1. data'[site'] = l
      BY <2>1
    <3>2. own' \subseteq touched' /\ touched' \subseteq told'
      BY <2>1
    <3>3. \A x \in told' : Over(l[x])
      BY <2>1 DEF Seed
    <3>4. \A x \in Xfer : l[x] = "failed" => x \in told'
      BY <2>1 DEF Seed, Over
    <3>5. \A x \in watched' : l[x] # "absent"
      BY <2>1
    <3> HIDE DEF l
    <3> QED
      BY <2>2, <3>1, <3>2, <3>3, <3>4, <3>5 DEF NotesInv
  <2>5. FailuresTold'
    BY <2>1 DEF FailuresTold
  <2> QED
    BY <2>3, <2>4, <2>5
<1>4. ASSUME NEW x \in Xfer, Act(x)
      PROVE  NoteTypes' /\ NotesInv' /\ FailuresTold'
  <2>1. /\ told' = told \cup {x} /\ own' = own \cup {x} /\ touched' = touched \cup {x}
        /\ UNCHANGED <<site, data, seeded, notices, watched, changes>>
    BY <1>4 DEF Act, Noted
  <2>2. NoteTypes'
    BY <1>0, <2>1 DEF NoteTypes
  <2>3. NotesInv'
    BY <1>0, <2>1 DEF NotesInv
  <2>4. FailuresTold'
    BY <1>0, <2>1 DEF FailuresTold
  <2> QED
    BY <2>2, <2>3, <2>4
<1>5. ASSUME NEW x \in Xfer, ActFails(x)
      PROVE  NoteTypes' /\ NotesInv' /\ FailuresTold'
  <2>1. own' = own \ {x} /\ UNCHANGED <<told, touched, site, data, seeded, notices, watched, changes>>
    BY <1>5 DEF ActFails
  <2>2. NoteTypes'
    BY <1>0, <2>1 DEF NoteTypes
  <2>3. NotesInv'
    BY <1>0, <2>1 DEF NotesInv
  <2>4. FailuresTold'
    BY <1>0, <2>1 DEF FailuresTold
  <2> QED
    BY <2>2, <2>3, <2>4
<1>6. ASSUME \/ UNCHANGED pageVars \/ Fetch \/ TokensChange
             \/ \E s \in Site : FetchFails(s)
             \/ \E x \in Xfer : Start(x) \/ Reserve(x) \/ StartOk(x) \/ StartFails(x) \/ ActTakes(x) \/ ActOk(x) \/ Goes(x)
      PROVE  UNCHANGED notes /\ changes' = changes /\ site' = site /\ data' = data
  BY <1>6 DEF pageVars, Fetch, TokensChange, FetchFails, Start, Reserve, StartOk, StartFails, ActTakes, ActOk, Goes,
     Become, notes
<1> QED
  BY <1>1, <1>2, <1>3, <1>4, <1>5, <1>6 DEF PageNext

LEMMA PageInitially == PageInit => PageIInv
<1> SUFFICES ASSUME PageInit PROVE PageIInv
  OBVIOUS
<1>0. MaxTries \in Nat \ {0} /\ MaxChanges \in Nat
  BY PageAssumption
<1>1. edc \in [Xfer -> Status] /\ site \in Site
  BY DEF PageInit, Status
<1>2. data \in [Site -> Listed] /\ \A s \in Site : data[s] = Empty
  BY DEF PageInit, Listed, Empty
<1>3. PageTypeOK
  <2>1. fetch \in [Site -> {<<>>} \cup {<<l>> : l \in Listed}]
    BY DEF PageInit
  <2>2. pending \in [Xfer -> (0..(MaxTries - 1)) \cup {Unreserved}]
    BY DEF PageInit
  <2>3. flight \in [Xfer -> Seq(0..(MaxTries - 1))] /\ asked \in [Xfer -> {"no", "starting", "sent", "taken"}]
    BY DEF PageInit
  <2>4. {starts, failures, notices} \subseteq [Xfer -> Nat]
    BY DEF PageInit
  <2> QED
    <3>1. /\ fired = {} /\ told = {} /\ own = {} /\ watched = {} /\ touched = {} /\ changes = 0
          /\ seeded \in BOOLEAN
      BY DEF PageInit
    <3>2. changes \in 0..MaxChanges
      BY <1>0, <3>1
    <3> QED
      BY <1>1, <1>2, <2>1, <2>2, <2>3, <2>4, <3>1, <3>2 DEF PageTypeOK
<1>4. ListsInv
  <2> SUFFICES ASSUME NEW s \in Site, NEW x \in Xfer
               PROVE  Rank[data[s][x]] <= Rank[Listing(s)[x]] /\ fetch[s] = <<>>
    BY DEF ListsInv
  <2>1. Rank[data[s][x]] = 0 /\ fetch[s] = <<>>
    BY <1>2, Ranks DEF Empty, PageInit
  <2>2. Listing(s)[x] \in {"absent", "active", "started", "failed", "done"}
    BY <1>3, ListingListed DEF Listed
  <2> QED
    BY <2>1, <2>2, Ranks
<1>5. ASSUME NEW x \in Xfer PROVE Attempts(x)
  <2>1. /\ starts[x] = 0 /\ failures[x] = 0 /\ flight[x] = <<>> /\ pending[x] = Unreserved /\ asked[x] = "no"
    BY DEF PageInit
  <2>2. Len(flight[x]) = 0
    BY <2>1
  <2> QED
    BY <1>0, <2>1, <2>2 DEF Attempts
<1>6. NotesInv /\ FailuresTold
  BY <1>1, <1>2 DEF PageInit, NotesInv, FailuresTold, Empty
<1> QED
  BY <1>3, <1>4, <1>5, <1>6 DEF PageIInv

(* The inductive invariant of the page: lists, attempts and notes          *)
(* (PageTransfer.tsx:417-503).                                             *)
THEOREM PageInvariance == PageSpec => []PageIInv
<1>1. ASSUME PageIInv, [PageNext]_pageVars
      PROVE  PageIInv'
  <2>1. /\ PageTypeOK /\ ListsInv /\ (\A x \in Xfer : Attempts(x)) /\ NotesInv /\ FailuresTold
    BY <1>1 DEF PageIInv
  <2>2. /\ edc' \in [Xfer -> Status] /\ asked' \in [Xfer -> {"no", "starting", "sent", "taken"}]
    BY <1>1, <2>1, WorldMoves
  <2>3. /\ site' \in Site /\ fetch' \in [Site -> {<<>>} \cup {<<l>> : l \in Listed}]
        /\ data' \in [Site -> Listed] /\ ListsInv'
    BY <1>1, <2>1, ListsStep
  <2>4. ChainTypes' /\ \A x \in Xfer : Attempts(x)'
    BY <1>1, <2>1, AttemptsStep
  <2>5. NoteTypes' /\ NotesInv' /\ FailuresTold'
    BY <1>1, <2>1, NotesStep
  <2>6. PageTypeOK'
    BY <2>2, <2>3, <2>4, <2>5 DEF PageTypeOK, ChainTypes, NoteTypes
  <2> QED
    BY <2>3, <2>4, <2>5, <2>6 DEF PageIInv
<1> QED
  BY <1>1, PageInitially, PTL DEF PageSpec

(* A bulk transfer is started anew only after the last start has failed,   *)
(* and no more than MaxTries times; and whatever failed under the eyes of  *)
(* the user was told, for any connectors, transfers and bounds             *)
(* (PageTransfer.tsx:429-449, 490-503).                                    *)
THEOREM PageSafe == PageSpec => []PageInv
<1>1. PageIInv => PageInv
  BY DEF PageIInv, PageInv, Attempts, StartedAgainAfterFailure
<1> QED
  BY <1>1, PageInvariance, PTL

(* A notice is about a transfer of the connector shown, not over in the    *)
(* list before and not the user's doing (PageTransfer.tsx:490-503,         *)
(* 567-569).                                                               *)
THEOREM NoticesAreDue == PageSpec => NoticesDue
<1>1. ASSUME PageIInv, [PageNext]_pageVars
      PROVE  [\A x \in Xfer : notices'[x] # notices[x] =>
                /\ site = At[x] /\ site' = site /\ x \notin touched
                /\ data[site] # Empty /\ ~Over(data[site][x])]_pageVars
  <2> SUFFICES ASSUME NEW x \in Xfer, notices'[x] # notices[x]
               PROVE  /\ site = At[x] /\ site' = site /\ x \notin touched
                      /\ data[site] # Empty /\ ~Over(data[site][x])
    OBVIOUS
  <2>1. /\ PageTypeOK /\ ListsInv /\ NotesInv
    BY <1>1 DEF PageIInv
  <2>2. PICK s \in Site : Arrive(s)
    BY <1>1 DEF PageNext, pageVars, notes, Fetch, TokensChange, FetchFails, ChangeSite, Start, Reserve, StartOk,
       StartFails, Act, ActTakes, ActOk, ActFails, Goes, Become
  <2>3. /\ fetch[s] # <<>> /\ site' = site /\ s = site /\ fetch[s][1] # data[s] /\ Notices(fetch[s][1])
    BY <2>2 DEF Arrive, notes
  <2>4. seeded /\ fetch[site][1][x] = "failed" /\ x \notin told
    BY <2>1, <2>3 DEF Notices, PageTypeOK
  <2>5. At[x] = site /\ data[site][x] # "done"
    BY <2>1, <2>3, <2>4, Newer
  <2>6. x \notin touched /\ data[site] # Empty /\ data[site][x] # "failed"
    BY <2>1, <2>4 DEF NotesInv
  <2> QED
    BY <2>3, <2>5, <2>6 DEF Over
<1> QED
  BY <1>1, PageInvariance, PTL DEF PageSpec, NoticesDue

=============================================================================
