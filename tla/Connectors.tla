------------------------------ MODULE Connectors ------------------------------
(***************************************************************************)
(* The registry of connectors (routes/connectors.ts,                       *)
(* lib/connectorRegistry.ts) and the organisation's BPN, of which every    *)
(* connector has a copy (PUT /settings/tenant in routes/settings.ts,       *)
(* updateTenantBpn in lib/tenants.ts). The list of connectors, and the     *)
(* cache every change clears, is in TtlCache.                              *)
(*                                                                         *)
(* Requests of one tenant cannot name another's connectors                 *)
(* (middleware/tenant.ts). Of a connector only its owner and its BPN       *)
(* matter; a request whose form or address is refused changes nothing.     *)
(***************************************************************************)
EXTENDS Tenancy, Naturals, FiniteSets

CONSTANTS
  Bpn,        \* business partner numbers
  Conn,       \* connector ids that may be drawn
  None,       \* no tenant, no BPN, no connector
  MaxConns    \* MAX_CONNECTORS_PER_TENANT

ASSUME RegistryAssumption ==
  /\ None \notin Tenant \cup Bpn \cup Conn
  /\ IsFiniteSet(Req)
  /\ MaxConns \in Nat \ {0}

VARIABLES
  bpn,       \* tenants.bpn
  conn,      \* table connectors
  req,       \* req[r]: request r
  overtaken  \* history: connectors written with a BPN that was no longer their tenant's

registryVars == <<bpn, conn, req, overtaken>>

NoReq == [at |-> "idle", tenant |-> None, id |-> None, bpn |-> None]

RegistryTypeOK ==
  /\ bpn \in [Tenant -> Bpn]
  /\ conn \in [Conn -> [state : {"free", "used", "deleted"}, tenant : Tenant \cup {None},
                        bpn : Bpn \cup {None}]]
  /\ \A c \in Conn : conn[c].state = "used" <=> conn[c].bpn # None
  /\ req \in [Req -> [at : {"idle", "count", "insert", "put", "bpn"},
                      tenant : Tenant \cup {None}, id : Conn \cup {None},
                      bpn : Bpn \cup {None}]]
  /\ overtaken \subseteq Conn

RegistryInit ==
  /\ bpn \in [Tenant -> Bpn] /\ \A t, u \in Tenant : t # u => bpn[t] # bpn[u]
  /\ conn = [c \in Conn |-> [state |-> "free", tenant |-> None, bpn |-> None]]
  /\ req = [r \in Req |-> NoReq]
  /\ overtaken = {}

Of(t) == {c \in Conn : conn[c].state = "used" /\ conn[c].tenant = t}

Begin(r, at, t, c, b) ==
  req' = [req EXCEPT ![r] = [at |-> at, tenant |-> t, id |-> c, bpn |-> b]]

Done(r) == req' = [req EXCEPT ![r] = NoReq]

(* Connector c is written with the BPN that request r has read.            *)
Written(c, r) ==
  /\ conn' = [conn EXCEPT ![c].state = IF @ = "free" THEN "used" ELSE @,
                          ![c].tenant = req[r].tenant, ![c].bpn = req[r].bpn]
  /\ overtaken' = IF req[r].bpn = bpn[req[r].tenant] THEN overtaken \ {c}
                  ELSE overtaken \cup {c}

----------------------------------------------------------------------------
(***************************************************************************)
(* Registration, update, deletion                                          *)
(***************************************************************************)

(* POST /: the tenant's BPN is read ...                                    *)
Register(r, t) ==
  /\ req[r].at = "idle" /\ Begin(r, "count", t, None, bpn[t])
  /\ UNCHANGED <<bpn, conn, overtaken>>

AtLimit(t) == Cardinality(Of(t)) >= MaxConns

(* ... its connectors are counted ...                                      *)
Count(r) ==
  /\ req[r].at = "count"
  /\ IF AtLimit(req[r].tenant) THEN Done(r) ELSE req' = [req EXCEPT ![r].at = "insert"]
  /\ UNCHANGED <<bpn, conn, overtaken>>

(* ... and a row with a new id is inserted.                                *)
Insert(r, c) ==
  /\ req[r].at = "insert" /\ conn[c].state = "free"
  /\ Written(c, r) /\ Done(r)
  /\ UNCHANGED bpn

(* PUT /:id: the connector and the tenant's BPN are read ...               *)
Put(r, t, c) ==
  /\ req[r].at = "idle" /\ c \in Of(t) /\ Begin(r, "put", t, c, bpn[t])
  /\ UNCHANGED <<bpn, conn, overtaken>>

(* UPDATE ... WHERE id finds the row.                                      *)
Found(c) == conn[c].state = "used"

(* ... and the row is written, unless it is gone.                          *)
Update(r) ==
  /\ req[r].at = "put" /\ Done(r)
  /\ IF Found(req[r].id) THEN Written(req[r].id, r) ELSE UNCHANGED <<conn, overtaken>>
  /\ UNCHANGED bpn

(* DELETE /:id: the connector and what belongs to it, in one transaction.  *)
Delete(t, c) ==
  /\ c \in Of(t)
  /\ conn' = [conn EXCEPT ![c] = [state |-> "deleted", tenant |-> None, bpn |-> None]]
  /\ overtaken' = overtaken \ {c}
  /\ UNCHANGED <<bpn, req>>

----------------------------------------------------------------------------
(***************************************************************************)
(* PUT /settings/tenant                                                    *)
(***************************************************************************)

(* Another tenant has the BPN.                                             *)
Taken(t, b) == \E u \in Tenant \ {t} : bpn[u] = b

(* isBpnTaken: then the request is refused.                                *)
CheckBpn(r, t, b) ==
  /\ req[r].at = "idle" /\ ~Taken(t, b) /\ Begin(r, "bpn", t, None, b)
  /\ UNCHANGED <<bpn, conn, overtaken>>

(* uq_tenants_bpn.                                                         *)
UniqueViolation(t, b) == Taken(t, b)

(* Seeded fault: the connectors keep the BPN they have.                    *)
NotPropagated(t, b) == conn

(* UPDATE connectors: all that the tenant has by now.                      *)
Propagated(t, b) == [c \in Conn |-> IF c \in Of(t) THEN [conn[c] EXCEPT !.bpn = b] ELSE conn[c]]

(* updateTenantBpn: the tenant and its connectors, in one transaction,     *)
(* which the index may refuse.                                             *)
WriteBpn(r) ==
  LET t == req[r].tenant  b == req[r].bpn IN
  /\ req[r].at = "bpn" /\ Done(r)
  /\ IF UniqueViolation(t, b)
     THEN UNCHANGED <<bpn, conn, overtaken>>
     ELSE /\ bpn' = [bpn EXCEPT ![t] = b]
          /\ conn' = Propagated(t, b)
          /\ overtaken' = overtaken \ Of(t)

RegistryNext ==
  \/ \E r \in Req :
       \/ Count(r) \/ Update(r) \/ WriteBpn(r)
       \/ \E c \in Conn : Insert(r, c)
       \/ \E t \in Tenant : Register(r, t) \/ \E b \in Bpn : CheckBpn(r, t, b)
       \/ \E t \in Tenant, c \in Conn : Put(r, t, c)
  \/ \E t \in Tenant, c \in Conn : Delete(t, c)

RegistrySpec == RegistryInit /\ [][RegistryNext]_registryVars

----------------------------------------------------------------------------
(***************************************************************************)
(* Properties                                                              *)
(***************************************************************************)

(* No two tenants ever have one BPN, which is also the name they log in    *)
(* under, although the check and the write of two requests interleave      *)
(* (db.ts:789-791).                                                        *)
BpnUnique == \A t, u \in Tenant : t # u => bpn[t] # bpn[u]

(* A connector carries the BPN of its tenant, through changes of both,     *)
(* except when it was written by a request that had read the BPN before a  *)
(* change of it that was committed first (connectors.ts:275-276).          *)
BpnFollowsTenant ==
  \A t \in Tenant : \A c \in Of(t) : conn[c].bpn # bpn[t] => c \in overtaken

(* The limit on connectors, which is looked at before the insert, is       *)
(* exceeded at most by the requests that count at the same time            *)
(* (connectors.ts:178-180).                                                *)
LimitBounded == \A t \in Tenant : Cardinality(Of(t)) < MaxConns + Cardinality(Req)

(* The registry as a whole: BPNs are unique, connectors follow them, and   *)
(* their number is bounded (db.ts:789-791, connectors.ts:178-180,          *)
(* 275-276), in every state of the requests.                               *)
RegistryInv == RegistryTypeOK /\ BpnUnique /\ BpnFollowsTenant /\ LimitBounded

=============================================================================
