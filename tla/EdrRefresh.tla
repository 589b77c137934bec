----------------------------- MODULE EdrRefresh -----------------------------
(***************************************************************************)
(* Pulling the data of one transfer with a short-lived access token        *)
(* (server/lib/edrRefresh.ts): the row of table edr_tokens that all        *)
(* processes share, the pulls, and the refresh of a token that was         *)
(* rejected with 403, merged within a process (inflightRefresh) and        *)
(* serialised between processes by a lock of the row (FOR UPDATE).         *)
(*                                                                         *)
(* Tokens are numbered in the order the connector issues them. The data    *)
(* plane accepts the latest one until it expires: issuing a token makes    *)
(* the earlier ones useless.                                               *)
(***************************************************************************)
EXTENDS Integers, FiniteSets

CONSTANTS
  Proc,        \* server processes
  Pull,        \* pulls, at a time
  Home,        \* Home[c]: the process pull c runs on
  Nobody,      \* the row is not locked
  MaxTokens,   \* bound: tokens issued
  MaxFaults,   \* bound: requests that fail, locks that time out
  MaxEvicts,   \* bound: evictEdrTokens and pruneEdrTokens
  MaxCrashes   \* bound: crashes

ASSUME EdrAssumption ==
  /\ Home \in [Pull -> Proc]
  /\ Nobody \notin Proc
  /\ MaxTokens \in Nat \ {0}
  /\ {MaxFaults, MaxEvicts, MaxCrashes} \subseteq Nat

VARIABLES
  issued,   \* the latest token
  expired,  \* it has expired
  row,      \* the stored token, or NoToken
  lock,     \* the process whose transaction has locked the row
  flight,   \* flight[p]: the refresh in flight on process p
  pc,       \* pc[c]: what pull c waits for
  tok,      \* tok[c]: the token it uses
  edr,      \* edr[c]: the token of the EDR it was given
  faults, evicts, crashes

provider == <<issued, expired>>
db == <<row, lock>>
pulls == <<pc, tok, edr>>
counts == <<faults, evicts, crashes>>
vars == <<provider, db, flight, pulls, counts>>

NoToken == 0
Token == 1..MaxTokens

(* A refresh: waiting for the row, waiting for the management API, or      *)
(* about to store the token it got. "since" is the stored token when the   *)
(* refresh began.                                                          *)
NoFlight == [at |-> "none", stale |-> NoToken, got |-> NoToken, since |-> NoToken]
Flight == [at : {"none", "lock", "ask", "store"}, stale : Token \cup {NoToken},
           got : Token \cup {NoToken}, since : Token \cup {NoToken}]

TypeOK ==
  /\ issued \in Token /\ expired \in BOOLEAN
  /\ row \in Token \cup {NoToken}
  /\ lock \in Proc \cup {Nobody}
  /\ flight \in [Proc -> Flight]
  /\ pc \in [Pull -> {"idle", "read", "insert", "reread", "get", "refresh", "again",
                      "done", "failed"}]
  /\ tok \in [Pull -> Token \cup {NoToken}]
  /\ edr \in [Pull -> Token \cup {NoToken}]
  /\ faults \in 0..MaxFaults /\ evicts \in 0..MaxEvicts /\ crashes \in 0..MaxCrashes

Init ==
  /\ issued = 1 /\ expired = FALSE
  /\ row = NoToken /\ lock = Nobody
  /\ flight = [p \in Proc |-> NoFlight]
  /\ pc = [c \in Pull |-> "idle"]
  /\ tok = [c \in Pull |-> NoToken]
  /\ edr = [c \in Pull |-> NoToken]
  /\ faults = 0 /\ evicts = 0 /\ crashes = 0

----------------------------------------------------------------------------
(***************************************************************************)
(* A pull                                                                  *)
(***************************************************************************)

Goto(c, where) == pc' = [pc EXCEPT ![c] = where]

(* pullEdrData is called.                                                  *)
Begin(c) ==
  /\ pc[c] \in {"idle", "done", "failed"}
  /\ Goto(c, "read")
  /\ UNCHANGED <<provider, db, flight, tok, edr, counts>>

(* resolveEdrTokens: the stored token, if there is one, else that of the   *)
(* EDR the caller has, which may be an old one: a bulk job keeps the one   *)
(* it started with ...                                                     *)
Read(c) ==
  /\ pc[c] = "read"
  /\ \/ row # NoToken /\ tok' = [tok EXCEPT ![c] = row] /\ Goto(c, "get")
        /\ UNCHANGED edr
     \/ row = NoToken /\ Goto(c, "insert") /\ UNCHANGED tok
        /\ \E t \in 1..issued : edr' = [edr EXCEPT ![c] = t]
  /\ UNCHANGED <<provider, db, flight, counts>>

(* Seeded fault: an upsert.                                                *)
OverwrittenBy(t) == t

(* What INSERT ... ON CONFLICT DO NOTHING leaves in the row.               *)
InsertedBy(t) == IF row = NoToken THEN t ELSE row

(* ... stored unless another one was stored meanwhile ...                  *)
Insert(c) ==
  /\ pc[c] = "insert"
  /\ row' = InsertedBy(edr[c])
  /\ Goto(c, "reread")
  /\ UNCHANGED <<provider, lock, flight, tok, edr, counts>>

(* ... and read again, in case it was refreshed at the same time.          *)
Reread(c) ==
  /\ pc[c] = "reread"
  /\ tok' = [tok EXCEPT ![c] = IF row # NoToken THEN row ELSE edr[c]]
  /\ edr' = [edr EXCEPT ![c] = NoToken]
  /\ Goto(c, "get")
  /\ UNCHANGED <<provider, db, flight, counts>>

Accepted(t) == t = issued /\ ~expired

(* Pull c returns or throws.                                               *)
End(c, how) ==
  /\ Goto(c, how)
  /\ tok' = [tok EXCEPT ![c] = NoToken]
  /\ edr' = [edr EXCEPT ![c] = NoToken]

(* The GET: 200, or 403 and the refresh of this process is joined or begun.*)
Get(c) ==
  LET p == Home[c] IN
  /\ pc[c] = "get"
  /\ \/ Accepted(tok[c]) /\ End(c, "done") /\ UNCHANGED flight
     \/ /\ ~Accepted(tok[c])
        /\ Goto(c, "refresh")
        /\ flight' = IF flight[p].at # "none" THEN flight
                     ELSE [flight EXCEPT ![p] = [at |-> "lock", stale |-> tok[c],
                                                 got |-> NoToken, since |-> row]]
        /\ UNCHANGED <<tok, edr>>
  /\ UNCHANGED <<provider, db, counts>>

(* The second GET; its outcome is the caller's.                            *)
GetAgain(c) ==
  /\ pc[c] = "again"
  /\ End(c, IF Accepted(tok[c]) THEN "done" ELSE "failed")
  /\ UNCHANGED <<provider, db, flight, counts>>

(* Any other error is thrown to the caller.                                *)
PullFails(c) ==
  /\ pc[c] \in {"read", "insert", "reread", "get", "again"}
  /\ faults < MaxFaults /\ faults' = faults + 1
  /\ End(c, "failed")
  /\ UNCHANGED <<provider, db, flight, evicts, crashes>>

----------------------------------------------------------------------------
(***************************************************************************)
(* A refresh (doRefresh)                                                   *)
(***************************************************************************)

(* Seeded fault: the waiting pulls are not woken.                          *)
SettleSilently(p, t) ==
  /\ flight' = [flight EXCEPT ![p] = NoFlight]
  /\ lock' = IF lock = p THEN Nobody ELSE lock
  /\ UNCHANGED <<pc, tok>>

(* The refresh of p ends with token t, or with none: every pull that waits *)
(* for it gets the same answer, and the transaction releases the row.      *)
Settle(p, t) ==
  LET waiting == {c \in Pull : Home[c] = p /\ pc[c] = "refresh"} IN
  /\ flight' = [flight EXCEPT ![p] = NoFlight]
  /\ pc' = [c \in Pull |-> IF c \notin waiting THEN pc[c]
                           ELSE IF t = NoToken THEN "failed" ELSE "again"]
  /\ tok' = [c \in Pull |-> IF c \in waiting /\ t # NoToken THEN t
                             ELSE IF c \in waiting THEN NoToken ELSE tok[c]]
  /\ lock' = IF lock = p THEN Nobody ELSE lock

(* Seeded fault: the stored token is not compared with the rejected one.   *)
RefreshedAlways(p) == FALSE

(* The row was refreshed by another process since the pull read it.        *)
RefreshedElsewhere(p) == row # NoToken /\ row # flight[p].stale

(* Seeded fault: SELECT without FOR UPDATE.                                *)
RowReadable == TRUE

(* FOR UPDATE waits while another transaction has locked the row.          *)
RowLockable == row # NoToken => lock = Nobody

(* SELECT ... FOR UPDATE. A row that is locked is waited for; no row, no   *)
(* lock.                                                                   *)
LockRow(p) ==
  /\ flight[p].at = "lock"
  /\ RowLockable
  /\ \/ RefreshedElsewhere(p) /\ Settle(p, row)
     \/ /\ ~RefreshedElsewhere(p)
        /\ lock' = IF row # NoToken THEN p ELSE lock
        /\ flight' = [flight EXCEPT ![p].at = "ask"]
        /\ UNCHANGED <<pc, tok>>
  /\ UNCHANGED <<provider, row, edr, counts>>

(* POST /v3/edrs/{id}/refresh: the connector issues a token. Its answer    *)
(* may be lost, and then the refresh fails.                                *)
Ask(p) ==
  /\ flight[p].at = "ask"
  /\ issued < MaxTokens
  /\ issued' = issued + 1 /\ expired' = FALSE
  /\ \/ /\ flight' = [flight EXCEPT ![p].at = "store", ![p].got = issued + 1]
        /\ UNCHANGED <<lock, pc, tok, faults>>
     \/ /\ faults < MaxFaults /\ faults' = faults + 1
        /\ Settle(p, NoToken)
  /\ UNCHANGED <<row, edr, evicts, crashes>>

(* UPSERT and COMMIT. The row may have appeared, and be locked by another. *)
Store(p) ==
  /\ flight[p].at = "store"
  /\ row # NoToken => lock \in {p, Nobody}
  /\ row' = flight[p].got
  /\ Settle(p, flight[p].got)
  /\ UNCHANGED <<provider, edr, counts>>

(* lock_timeout, a failed query, an error of the management API (always    *)
(* possible once the connector issues no more): rolled back.               *)
RefreshFails(p) ==
  /\ flight[p].at # "none"
  /\ \/ faults < MaxFaults /\ faults' = faults + 1
     \/ flight[p].at = "ask" /\ issued = MaxTokens /\ UNCHANGED faults
  /\ Settle(p, NoToken)
  /\ UNCHANGED <<provider, row, edr, evicts, crashes>>

----------------------------------------------------------------------------

(* evictEdrTokens when the transfer is completed or terminated, and        *)
(* pruneEdrTokens: a DELETE, which waits for the lock.                     *)
Evict ==
  /\ row # NoToken /\ lock = Nobody
  /\ evicts < MaxEvicts /\ evicts' = evicts + 1
  /\ row' = NoToken
  /\ UNCHANGED <<provider, lock, flight, pulls, faults, crashes>>

(* The latest token's lifetime ends: five minutes, more than a refresh     *)
(* takes that was in flight when the token was issued or stored.           *)
Expire ==
  /\ ~expired
  /\ \A p \in Proc : flight[p].at \in {"lock", "ask"} => flight[p].since = row
  /\ \A p \in Proc : flight[p].at # "store"
  /\ expired' = TRUE
  /\ UNCHANGED <<issued, db, flight, pulls, counts>>

(* A process dies. Its transaction is rolled back; what it asked of the    *)
(* connector may still happen.                                             *)
Crash(p) ==
  /\ crashes < MaxCrashes /\ crashes' = crashes + 1
  /\ flight' = [flight EXCEPT ![p] = NoFlight]
  /\ pc' = [c \in Pull |-> IF Home[c] = p THEN "idle" ELSE pc[c]]
  /\ tok' = [c \in Pull |-> IF Home[c] = p THEN NoToken ELSE tok[c]]
  /\ edr' = [c \in Pull |-> IF Home[c] = p THEN NoToken ELSE edr[c]]
  /\ lock' = IF lock = p THEN Nobody ELSE lock
  /\ \/ flight[p].at = "ask" /\ issued < MaxTokens /\ issued' = issued + 1 /\ expired' = FALSE
     \/ UNCHANGED provider
  /\ UNCHANGED <<row, faults, evicts>>

PullStep(c) ==
  \/ Read(c) \/ Insert(c) \/ Reread(c) \/ Get(c) \/ GetAgain(c) \/ PullFails(c)

RefreshStep(p) == LockRow(p) \/ Ask(p) \/ Store(p) \/ RefreshFails(p)

Next ==
  \/ \E c \in Pull : Begin(c) \/ PullStep(c)
  \/ \E p \in Proc : RefreshStep(p) \/ Crash(p)
  \/ Evict \/ Expire

Spec == Init /\ [][Next]_vars

(* Requests and queries end: the data plane's GET by its outcome or by an  *)
(* error, the management API's within ten seconds, a wait for the row when *)
(* the lock is granted or after twelve. The lock of the row is granted     *)
(* fairly.                                                                 *)
FairSpec ==
  /\ Spec
  /\ \A c \in Pull : WF_vars(PullStep(c))
  /\ \A p \in Proc :
       /\ SF_vars(LockRow(p)) /\ SF_vars(Store(p))
       /\ WF_vars(Ask(p) \/ RefreshFails(p))

----------------------------------------------------------------------------
(***************************************************************************)
(* Properties                                                              *)
(***************************************************************************)

(* Nobody counts on the row: no pull has just stored or read a token, and  *)
(* no refresh is in flight. Amid those an eviction leaves a refresh that   *)
(* finds no row nothing to lock.                                           *)
Unused ==
  /\ \A c \in Pull : pc[c] \notin {"reread", "get"}
  /\ \A p \in Proc : flight[p].at = "none"

(* The row is only evicted while nobody counts on it: pruning takes what   *)
(* was not stored for a day, and a completed transfer has no more to pull. *)
(* The code does not ensure it: who completes a transfer evicts amid the   *)
(* pulls of others.                                                        *)
EvictsUnused == [][Evict => Unused]_vars

(* Concurrent refreshes of a transfer are serialised over all processes:   *)
(* the management API never works on two at a time (edrRefresh.ts:13-14).  *)
RefreshSerialised ==
  \A p, q \in Proc : (flight[p].at = "ask" /\ flight[q].at = "ask") => p = q

(* Of all processes one at most works on a refresh (RefreshSerialised), in *)
(* every state the pulls and their stores can get into                     *)
(* (edrRefresh.ts:13-14, 134-196).                                         *)
EdrInv == TypeOK /\ RefreshSerialised

(* No pull makes the connector replace a token that is valid and stored:   *)
(* that would fail the pulls of everybody who uses it. A 403 of an older   *)
(* token leads to the stored one (the check of doRefresh after the lock).  *)
ValidTokenKept ==
  [][issued' # issued => expired \/ row # issued]_vars

(* The stored token is never replaced by an older one, neither by another  *)
(* process's refresh nor by the first store of a pull with an old EDR.     *)
StoredNeverBack ==
  [][row # NoToken /\ row' # NoToken => row' >= row]_vars

(* Every pull ends, however refreshes wait for one another.                *)
PullEnds ==
  \A c \in Pull : pc[c] \notin {"idle", "done", "failed"}
                    ~> pc[c] \in {"idle", "done", "failed"}

=============================================================================
