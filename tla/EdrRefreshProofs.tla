--------------------------- MODULE EdrRefreshProofs ---------------------------
(***************************************************************************)
(* Proofs about EdrRefresh, for any processes, pulls and bounds: as long   *)
(* as the row of the transfer is evicted only while nobody counts on it    *)
(* (EvictsUnused), one refresh at most asks the connector, none replaces a *)
(* token that is valid and stored, and the stored token never goes back.   *)
(*                                                                         *)
(* FOR UPDATE locks a row that is there. The argument therefore begins     *)
(* with the pull: it stores a token before it uses one (RowInv), so that   *)
(* there is a row by the time a refresh locks it, and while it is locked   *)
(* nobody else writes it: it still holds the token that was rejected, and  *)
(* OrderInv says that a rejected token is never accepted again. After an   *)
(* eviction the next pull stores a token anew. An eviction amid a pull's   *)
(* use of its token and its refresh breaks RowInv, and nothing is claimed  *)
(* then but the types and the order.                                       *)
(***************************************************************************)
EXTENDS EdrRefresh, TLAPS

(* The tokens in use are tokens that were issued; the one a refresh wants  *)
(* to replace is useless for good, and the one it got is a later one.      *)
OrderInv ==
  /\ row <= issued
  /\ \A c \in Pull : tok[c] <= issued /\ edr[c] <= issued
  /\ \A c \in Pull : pc[c] = "insert" => edr[c] # NoToken
  /\ \A p \in Proc : flight[p].stale <= issued /\ flight[p].got <= issued
  /\ \A p \in Proc : flight[p].at \in {"lock", "ask"} => ~Accepted(flight[p].stale)
  /\ \A p \in Proc : flight[p].at = "store" => flight[p].stale < flight[p].got

(* Who refreshes has found a row; who has locked it finds in it the token  *)
(* that was rejected.                                                      *)
RowInv ==
  /\ \A c \in Pull : pc[c] \in {"reread", "get"} => row # NoToken
  /\ \A p \in Proc : flight[p].at # "none" => row # NoToken
  /\ \A p \in Proc : flight[p].at \in {"ask", "store"} =>
       lock = p /\ row = flight[p].stale

IInv == TypeOK /\ OrderInv /\ RowInv

----------------------------------------------------------------------------

(* The constants, one by one.                                              *)
LEMMA Bounds ==
  /\ Home \in [Pull -> Proc] /\ Nobody \notin Proc
  /\ MaxTokens \in Nat /\ MaxTokens >= 1
  /\ MaxFaults \in Nat /\ MaxEvicts \in Nat /\ MaxCrashes \in Nat
BY EdrAssumption

(* Initially nothing is stored and nothing refreshed.                      *)
LEMMA InitInv == Init => IInv
<1> SUFFICES ASSUME Init PROVE IInv
  OBVIOUS
<1>1. TypeOK
  <2>1. expired \in BOOLEAN
    BY Zenon DEF Init
  <2> QED
    BY <2>1, Bounds DEF Init, TypeOK, NoFlight, Flight, Token, NoToken
<1>2. OrderInv /\ RowInv
  BY DEF Init, OrderInv, RowInv, NoFlight, NoToken
<1> QED
  BY <1>1, <1>2 DEF IInv

(* What a refresh that ends with token t does to the pulls that wait.      *)
LEMMA SettleType ==
  ASSUME TypeOK, NEW p \in Proc, NEW t \in Token \cup {NoToken}, Settle(p, t)
  PROVE  /\ flight' \in [Proc -> Flight] /\ lock' \in Proc \cup {Nobody}
         /\ pc' \in [Pull -> {"idle", "read", "insert", "reread", "get", "refresh", "again",
                              "done", "failed"}]
         /\ tok' \in [Pull -> Token \cup {NoToken}]
         /\ flight' = [flight EXCEPT ![p] = NoFlight]
         /\ \A c \in Pull : pc'[c] \in {pc[c], "failed", "again"}
         /\ \A c \in Pull : tok'[c] \in {tok[c], t, NoToken}
         /\ \A q \in Proc \ {p} : lock = q => lock' = q
BY DEF TypeOK, Settle, NoFlight, Flight, Token, NoToken

(* Every step keeps the types.                                             *)
LEMMA TypeStep ==
  ASSUME TypeOK, [Next]_vars
  PROVE  TypeOK'
<1> USE Bounds DEF TypeOK, Token, NoToken, provider, db, pulls, counts
<1>1. ASSUME NEW c \in Pull, Begin(c) \/ Read(c) \/ Insert(c) \/ Reread(c)
      PROVE  TypeOK'
  BY <1>1 DEF Begin, Read, Insert, InsertedBy, Reread, Goto
<1>2. ASSUME NEW c \in Pull, Get(c)
      PROVE  TypeOK'
  <2>1. Home[c] \in Proc
    OBVIOUS
  <2>2. CASE UNCHANGED flight
    BY <1>2, <2>2 DEF Get, End, Goto
  <2>3. CASE flight' = [flight EXCEPT ![Home[c]] = [at |-> "lock", stale |-> tok[c],
                                                    got |-> NoToken, since |-> row]]
    <3>1. flight' \in [Proc -> Flight]
      BY <2>1, <2>3 DEF Flight
    <3> QED
      BY <1>2, <3>1 DEF Get, End, Goto
  <2> QED
    BY <1>2, <2>2, <2>3 DEF Get
<1>3. ASSUME NEW c \in Pull, GetAgain(c) \/ PullFails(c)
      PROVE  TypeOK'
  BY <1>3 DEF GetAgain, PullFails, End, Goto
<1>4. ASSUME NEW p \in Proc, LockRow(p)
      PROVE  TypeOK'
  <2>1. CASE Settle(p, row)
    BY <1>4, <2>1, SettleType DEF LockRow
  <2>2. CASE ~RefreshedElsewhere(p) /\ ~Settle(p, row)
    BY <1>4, <2>2 DEF LockRow, Flight
  <2> QED
    BY <1>4, <2>1, <2>2 DEF LockRow
<1>5. ASSUME NEW p \in Proc, Ask(p)
      PROVE  TypeOK'
  <2>0. expired' \in BOOLEAN /\ issued' \in Token
    <3>1. expired' \in BOOLEAN
      BY <1>5, Zenon DEF Ask
    <3> QED
      BY <1>5, <3>1 DEF Ask
  <2>1. CASE Settle(p, NoToken) /\ faults < MaxFaults /\ faults' = faults + 1
    <3>1. faults' \in 0..MaxFaults
      BY <2>1
    <3>2. UNCHANGED <<row, edr, evicts, crashes>>
      BY <1>5 DEF Ask
    <3> QED
      BY <2>0, <2>1, <3>1, <3>2, SettleType
  <2>2. CASE /\ flight' = [flight EXCEPT ![p].at = "store", ![p].got = issued + 1]
             /\ UNCHANGED <<lock, pc, tok, faults>>
    <3>0. issued + 1 \in Token /\ flight[p] \in Flight
      BY <1>5 DEF Ask
    <3>1. flight' \in [Proc -> Flight]
      <4>1. [flight[p] EXCEPT !.at = "store", !.got = issued + 1] \in Flight
        BY <3>0 DEF Flight
      <4>2. flight' = [flight EXCEPT ![p] = [flight[p] EXCEPT !.at = "store", !.got = issued + 1]]
        BY <2>2
      <4> QED
        BY <4>1, <4>2
    <3>2. UNCHANGED <<row, edr, evicts, crashes>>
      BY <1>5 DEF Ask
    <3> QED
      BY <2>0, <2>2, <3>1, <3>2
  <2> QED
    BY <1>5, <2>1, <2>2 DEF Ask
<1>6. ASSUME NEW p \in Proc, Store(p)
      PROVE  TypeOK'
  <2>1. flight[p].got \in Token \cup {NoToken}
    BY DEF Flight
  <2> QED
    BY <1>6, <2>1, SettleType DEF Store
<1>7. ASSUME NEW p \in Proc, RefreshFails(p)
      PROVE  TypeOK'
  BY <1>7, SettleType DEF RefreshFails
<1>8. ASSUME NEW p \in Proc, Crash(p)
      PROVE  TypeOK'
  <2>1. issued' \in Token /\ expired' \in BOOLEAN
    <3>1. expired' \in BOOLEAN
      BY <1>8, Zenon DEF Crash
    <3> QED
      BY <1>8, <3>1 DEF Crash
  <2>2. flight' \in [Proc -> Flight] /\ lock' \in Proc \cup {Nobody}
    BY <1>8 DEF Crash, NoFlight, Flight
  <2> QED
    BY <1>8, <2>1, <2>2 DEF Crash
<1>9. CASE Evict \/ UNCHANGED vars
  BY <1>9 DEF Evict, vars
<1>10. CASE Expire
  <2>1. expired' \in BOOLEAN
    BY <1>10, Zenon DEF Expire
  <2> QED
    BY <1>10, <2>1 DEF Expire
<1> QED
  BY <1>1, <1>2, <1>3, <1>4, <1>5, <1>6, <1>7, <1>8, <1>9, <1>10
     DEF Next, PullStep, RefreshStep

(* Every step keeps the order of the tokens.                               *)
LEMMA OrderStep ==
  ASSUME TypeOK, OrderInv, [Next]_vars
  PROVE  OrderInv'
<1> USE Bounds DEF TypeOK, OrderInv, Token, NoToken, provider, db, pulls, counts
<1>1. ASSUME NEW c \in Pull, Begin(c) \/ Read(c) \/ Insert(c) \/ Reread(c)
      PROVE  OrderInv'
  BY <1>1 DEF Begin, Read, Insert, InsertedBy, Reread, Goto, Accepted
<1>2. ASSUME NEW c \in Pull, Get(c)
      PROVE  OrderInv'
  BY <1>2 DEF Get, End, Goto, Accepted
<1>3. ASSUME NEW c \in Pull, GetAgain(c) \/ PullFails(c)
      PROVE  OrderInv'
  BY <1>3 DEF GetAgain, PullFails, End, Goto, Accepted
<1>4. ASSUME NEW p \in Proc, LockRow(p)
      PROVE  OrderInv'
  <2>1. CASE Settle(p, row)
    BY <1>4, <2>1, SettleType, SMTT(30) DEF LockRow, NoFlight, Accepted
  <2>2. CASE ~Settle(p, row)
    <3>1. /\ flight[p].at = "lock" /\ flight' = [flight EXCEPT ![p].at = "ask"]
          /\ UNCHANGED <<issued, expired, row, pc, tok, edr>>
      BY <1>4, <2>2 DEF LockRow
    <3>2. \A q \in Proc : /\ flight'[q].stale = flight[q].stale /\ flight'[q].got = flight[q].got
                          /\ q # p => flight'[q] = flight[q]
                          /\ flight'[p].at = "ask"
      BY <3>1 DEF Flight
    <3> QED
      BY <3>1, <3>2 DEF Accepted
  <2> QED
    BY <2>1, <2>2
<1>5. ASSUME NEW p \in Proc, Ask(p)
      PROVE  OrderInv'
  <2>1. CASE Settle(p, NoToken)
    <3>1. /\ issued' = issued + 1
          /\ row' = row /\ edr' = edr
      BY <1>5 DEF Ask
    <3>2. /\ flight' = [flight EXCEPT ![p] = NoFlight]
          /\ \A c \in Pull : pc'[c] \in {pc[c], "failed", "again"}
          /\ \A c \in Pull : tok'[c] \in {tok[c], NoToken}
      BY <2>1, SettleType
    <3>3. \A q \in Proc : /\ flight'[q].stale <= issued /\ flight'[q].got <= issued
                          /\ flight'[q].at = "store" => flight'[q].stale < flight'[q].got
      BY <3>2 DEF NoFlight, Flight
    <3>4. \A q \in Proc : flight'[q].stale \in Nat /\ flight'[q].got \in Nat
      BY <3>2 DEF NoFlight, Flight
    <3>5. \A q \in Proc : flight'[q].stale # issued'
      BY <3>1, <3>3, <3>4
    <3>6. \A q \in Proc : ~Accepted(flight[q].stale)'
      BY <3>5, Zenon DEF Accepted
    <3>7. \A q \in Proc : flight'[q].stale <= issued' /\ flight'[q].got <= issued'
      BY <3>1, <3>3, <3>4
    <3>8. /\ row' <= issued'
          /\ \A c \in Pull : tok'[c] <= issued' /\ edr'[c] <= issued'
      BY <3>1, <3>2
    <3>9. \A c \in Pull : pc'[c] = "insert" => edr'[c] # NoToken
      BY <3>1, <3>2
    <3> HIDE DEF Accepted
    <3> QED
      BY <3>3, <3>6, <3>7, <3>8, <3>9
  <2>2. CASE /\ flight' = [flight EXCEPT ![p].at = "store", ![p].got = issued + 1]
             /\ UNCHANGED <<lock, pc, tok>>
    BY <1>5, <2>2 DEF Ask, Flight, Accepted
  <2> QED
    BY <1>5, <2>1, <2>2 DEF Ask
<1>6. ASSUME NEW p \in Proc, Store(p)
      PROVE  OrderInv'
  <2>1. flight[p].got \in Token \cup {NoToken}
    BY DEF Flight
  <2> QED
    <3>1. /\ issued' = issued /\ expired' = expired
          /\ row' = flight[p].got /\ edr' = edr
      BY <1>6 DEF Store
    <3>2. /\ flight' = [flight EXCEPT ![p] = NoFlight]
          /\ \A c \in Pull : pc'[c] \in {pc[c], "failed", "again"}
          /\ \A c \in Pull : tok'[c] \in {tok[c], flight[p].got, NoToken}
      BY <1>6, <2>1, SettleType DEF Store
    <3> QED
      BY <2>1, <3>1, <3>2, SMTT(30) DEF NoFlight, Flight, Accepted
<1>7. ASSUME NEW p \in Proc, RefreshFails(p)
      PROVE  OrderInv'
  BY <1>7, SettleType, SMTT(30) DEF RefreshFails, NoFlight, Accepted
<1>8. ASSUME NEW p \in Proc, Crash(p)
      PROVE  OrderInv'
  BY <1>8, SMTT(30) DEF Crash, NoFlight, Flight, Accepted
<1>9. CASE Evict \/ Expire \/ UNCHANGED vars
  BY <1>9 DEF Evict, Expire, vars, Accepted
<1> QED
  BY <1>1, <1>2, <1>3, <1>4, <1>5, <1>6, <1>7, <1>8, <1>9 DEF Next, PullStep, RefreshStep

(* Every step keeps the row while somebody counts on it, and what its lock *)
(* protects, but for an eviction amid that.                                *)
LEMMA RowStep ==
  ASSUME TypeOK, OrderInv, RowInv, [Next]_vars, Evict => Unused
  PROVE  RowInv'
<1> USE Bounds DEF TypeOK, OrderInv, RowInv, Token, NoToken, provider, db, pulls, counts
<1>1. ASSUME NEW c \in Pull, Begin(c) \/ Read(c) \/ Insert(c) \/ Reread(c)
      PROVE  RowInv'
  BY <1>1 DEF Begin, Read, Insert, InsertedBy, Reread, Goto
<1>2. ASSUME NEW c \in Pull, Get(c)
      PROVE  RowInv'
  BY <1>2 DEF Get, End, Goto
<1>3. ASSUME NEW c \in Pull, GetAgain(c) \/ PullFails(c)
      PROVE  RowInv'
  BY <1>3 DEF GetAgain, PullFails, End, Goto
<1>4. ASSUME NEW p \in Proc, LockRow(p)
      PROVE  RowInv'
  <2>1. CASE Settle(p, row)
    BY <1>4, <2>1, SettleType DEF LockRow, NoFlight
  <2>2. CASE ~Settle(p, row)
    BY <1>4, <2>2 DEF LockRow, RowLockable, RefreshedElsewhere, Flight
  <2> QED
    BY <2>1, <2>2
<1>5. ASSUME NEW p \in Proc, Ask(p)
      PROVE  RowInv'
  <2>1. CASE Settle(p, NoToken)
    BY <1>5, <2>1, SettleType, SMTT(30) DEF Ask, NoFlight
  <2>2. CASE /\ flight' = [flight EXCEPT ![p].at = "store", ![p].got = issued + 1]
             /\ UNCHANGED <<lock, pc, tok>>
    BY <1>5, <2>2 DEF Ask, Flight
  <2> QED
    BY <1>5, <2>1, <2>2 DEF Ask
<1>6. ASSUME NEW p \in Proc, Store(p)
      PROVE  RowInv'
  <2>1. flight[p].got \in Token \cup {NoToken} /\ flight[p].stale \in Token \cup {NoToken}
    BY DEF Flight
  <2> QED
    BY <1>6, <2>1, SettleType DEF Store, NoFlight
<1>7. ASSUME NEW p \in Proc, RefreshFails(p)
      PROVE  RowInv'
  BY <1>7, SettleType DEF RefreshFails, NoFlight
<1>8. ASSUME NEW p \in Proc, Crash(p)
      PROVE  RowInv'
  BY <1>8 DEF Crash, NoFlight
<1>9. CASE Expire \/ UNCHANGED vars
  BY <1>9 DEF Expire, vars
<1>10. CASE Evict
  BY <1>10 DEF Evict, Unused
<1> QED
  BY <1>1, <1>2, <1>3, <1>4, <1>5, <1>6, <1>7, <1>8, <1>9, <1>10 DEF Next, PullStep, RefreshStep

(* Whatever is evicted, the tokens in use are in the order they were       *)
(* issued in, and a refresh wants to replace one that is useless.          *)
THEOREM TokensOrdered == Spec => [](TypeOK /\ OrderInv)
<1>1. Init => TypeOK /\ OrderInv
  BY InitInv DEF IInv
<1>2. TypeOK /\ OrderInv /\ [Next]_vars => (TypeOK /\ OrderInv)'
  BY TypeStep, OrderStep
<1> QED
  BY <1>1, <1>2, PTL DEF Spec

(* The inductive invariant holds in every state.                           *)
THEOREM Invariance == Spec /\ EvictsUnused => []IInv
<1>1. IInv /\ [Next]_vars /\ [Evict => Unused]_vars => IInv'
  <2> SUFFICES ASSUME IInv, [Next]_vars, [Evict => Unused]_vars PROVE IInv'
    OBVIOUS
  <2>1. Evict => Unused
    BY Bounds DEF Evict, vars, counts, IInv, TypeOK
  <2> QED
    BY <2>1, TypeStep, OrderStep, RowStep DEF IInv
<1> QED
  BY InitInv, <1>1, PTL DEF Spec, EvictsUnused

(* As long as the row is evicted only while nobody counts on it, the       *)
(* refreshes of all processes are serialised: one at most works on the     *)
(* management API (edrRefresh.ts:13-14, 134-196).                          *)
THEOREM RefreshesSerialised == Spec /\ EvictsUnused => []EdrInv
<1>1. IInv => EdrInv
  BY EdrAssumption DEF IInv, RowInv, EdrInv, RefreshSerialised
<1> QED
  BY Invariance, <1>1, PTL

(* As long as the row is evicted only while nobody counts on it, no pull   *)
(* makes the connector replace a token that is valid and stored: who asks  *)
(* has locked the row with the rejected token in it (the check of          *)
(* doRefresh after the lock).                                              *)
THEOREM ValidTokenSafe == Spec /\ EvictsUnused => ValidTokenKept
<1>1. ASSUME IInv, [Next]_vars
      PROVE  [issued' # issued => expired \/ row # issued]_vars
  <2> SUFFICES ASSUME Next, issued' # issued
               PROVE  expired \/ row # issued
    BY <1>1 DEF vars, provider
  <2>1. PICK p \in Proc : flight[p].at = "ask"
    BY DEF Next, PullStep, RefreshStep, provider, Begin, Read, Insert, Reread, Get, GetAgain,
           PullFails, LockRow, Ask, Store, RefreshFails, Crash, Evict, Expire
  <2>2. row = flight[p].stale /\ ~Accepted(flight[p].stale)
    BY <1>1, <2>1 DEF IInv, RowInv, OrderInv
  <2> QED
    BY <2>2, Zenon DEF Accepted
<1> QED
  BY Invariance, <1>1, PTL DEF Spec, ValidTokenKept

(* As long as the row is evicted only while nobody counts on it, the       *)
(* stored token is never replaced by an older one, whoever stores it       *)
(* (edrRefresh.ts:134-196).                                                *)
THEOREM StoredOnlyForward == Spec /\ EvictsUnused => StoredNeverBack
<1>1. ASSUME IInv, [Next]_vars
      PROVE  [row # NoToken /\ row' # NoToken => row' >= row]_vars
  <2> SUFFICES ASSUME Next, row # NoToken, row' # NoToken, row' # row
               PROVE  row' >= row
    BY <1>1 DEF IInv, TypeOK, Token, NoToken
  <2>1. PICK p \in Proc : Store(p)
    BY DEF Next, PullStep, RefreshStep, db, Begin, Read, Insert, InsertedBy, Reread, Get,
           GetAgain, PullFails, LockRow, Ask, RefreshFails, Crash, Evict, Expire
  <2>2. row = flight[p].stale /\ flight[p].stale < flight[p].got
    BY <1>1, <2>1 DEF Store, IInv, RowInv, OrderInv
  <2> QED
    BY <1>1, <2>1, <2>2 DEF Store, IInv, TypeOK, Flight, Token, NoToken
<1> QED
  BY Invariance, <1>1, PTL DEF Spec, StoredNeverBack

=============================================================================
