---------------------------- MODULE TenantsProofs ----------------------------
(***************************************************************************)
(* Proofs about Accounts, Connectors and PolicyForms, which share no state *)
(* that changes, for any tenants, users, passwords, connectors, requests   *)
(* and policies.                                                           *)
(*                                                                         *)
(* Accounts: what an accepted session stands for, that a session once      *)
(* ended stays ended, the bound on guesses, and the guard of the purge.    *)
(* Versions and ids only grow: VersionInv says that no token and no        *)
(* request knows a version later than its account's. SessionInv is what    *)
(* the properties say of tokens, said of the requests that will sign one   *)
(* as well. LockInv ties the counter in the row to the wrong passwords     *)
(* that were counted, and reserves room for the attempts that were under   *)
(* way when the account was locked.                                        *)
(*                                                                         *)
(* Connectors: the registry's invariant. LimitBounded is not inductive: a  *)
(* request that has counted will insert whatever happens in between.       *)
(* SlotsInv counts it as if it had. That an update leaves a connector with *)
(* its owner, on which the limit rests as well, needs OwnersInv: the owner *)
(* a request has read is the owner still, because the id of a deleted      *)
(* connector is not drawn again.                                           *)
(*                                                                         *)
(* PolicyForms: what the builder opens, it saves. The invariant adds to    *)
(* the types that a form nobody has changed is what was read from its      *)
(* policy (OpenedInv); the rest is about the conversions. What a sequence  *)
(* of sequences makes (FlattenSeq) is needed in full only of one sequence  *)
(* and of single elements; of others its type, by induction with sets.     *)
(***************************************************************************)
EXTENDS Accounts, Connectors, PolicyForms, FiniteSetTheorems, TLAPS

----------------------------------------------------------------------------
(***************************************************************************)
(* The invariant of Accounts                                               *)
(***************************************************************************)

(* An email without an account has an empty row; a request that will write *)
(* knows an account, and one that will sign knows the tenant.              *)
RowInv ==
  /\ \A u \in User : acct[u].id = 0 => acct[u] = NoAccount
  /\ \A r \in Req :
       /\ reqs[r].at \in {"hit", "miss", "update", "logout", "asked", "change"}
            => reqs[r].row.id # 0
       /\ reqs[r].row.id = 0 => reqs[r].row.tv = 0
       /\ reqs[r].at \in {"hit", "sso", "update", "insert"} => reqs[r].tenant \in Tenant
  /\ purge.todo # {} => purge.days >= 1

(* The versions tokens and requests know are not later than the account's. *)
VersionInv ==
  /\ \A k \in tokens : acct[k.user].id = k.id => k.tv <= acct[k.user].tv
  /\ \A r \in Req : LET q == reqs[r] IN
       acct[q.user].id = q.row.id => q.row.tv <= acct[q.user].tv

(* Sessions as the properties want them; a request that will sign a token  *)
(* that is accepted has what such a token needs.                           *)
SessionInv ==
  /\ PasswordSessions /\ SessionsInTenant
  /\ \A r \in Req : LET q == reqs[r] IN
       (q.at \in {"hit", "update"} /\ acct[q.user].id = q.row.id /\ acct[q.user].tv = q.row.tv)
         => /\ acct[q.user].tenant = q.tenant
            /\ q.at = "hit" => acct[q.user].pw = q.row.pw /\ tenant[q.tenant].state = "active"

(* The attempts that will be counted as failures of u.                     *)
Pending(u) == {r \in Req : reqs[r].at = "miss" /\ reqs[r].user = u}

(* The counter is the number of failures since the last reset, unless a    *)
(* lock has run out; when it is locked no attempts are added.              *)
LockAt(u) ==
  /\ acct[u].until = Never => missed[u] = acct[u].fails /\ acct[u].fails < MaxFailures
  /\ acct[u].until > now => /\ missed[u] = acct[u].fails
                            /\ acct[u].fails + Cardinality(Pending(u)) < MaxFailures + Cardinality(Req)
  /\ acct[u].until # Never /\ acct[u].until <= now => missed[u] = 0

LockInv == \A u \in User : LockAt(u)

AccountsIInv == AccountsTypeOK /\ RowInv /\ VersionInv /\ SessionInv /\ LockInv

----------------------------------------------------------------------------

(* What the assumptions say of the constants, and the types of the two     *)
(* empty records.                                                          *)
LEMMA Bounds ==
  /\ {MaxFailures, Lockout, MaxVersion, MaxId, MaxTokens} \subseteq Nat
  /\ MaxFailures > 0 /\ Lockout > 0 /\ MaxId > 0 /\ MaxTime \in Nat /\ Cardinality(Req) \in Nat
  /\ NoAccount \in Account /\ Idle \in Request /\ Idle.user \in User
<1>1. /\ {MaxFailures, Lockout, MaxVersion, MaxId, MaxTokens} \subseteq Nat
      /\ MaxFailures > 0 /\ Lockout > 0 /\ MaxId > 0 /\ MaxTime \in Nat /\ Cardinality(Req) \in Nat
  BY AccountsAssumption, FS_CardinalityType
<1>2. NoAccount \in Account
  BY <1>1 DEF NoAccount, Account, Version, Never
<1>3. (CHOOSE u \in User : TRUE) \in User
  BY AccountsAssumption
<1> QED
  BY <1>1, <1>2, <1>3 DEF Idle, Request

(* The attempts pending are a finite set, of requests only.                *)
LEMMA PendingBounded ==
  ASSUME NEW u
  PROVE  /\ IsFiniteSet(Pending(u)) /\ Cardinality(Pending(u)) \in Nat
         /\ Cardinality(Pending(u)) <= Cardinality(Req)
BY FS_Subset, FS_CardinalityType, AccountsAssumption DEF Pending

(* Initially there are no tokens, and nobody has failed.                   *)
LEMMA AccountsInitially == AccountsInit => AccountsIInv
<1> SUFFICES ASSUME AccountsInit PROVE AccountsIInv
  OBVIOUS
<1> USE Bounds
<1>0. /\ now = 0 /\ tenant = [t \in Tenant |-> [state |-> "active", since |-> 0]]
      /\ reqs = [r \in Req |-> Idle] /\ tokens = {}
      /\ purge = [days |-> 0, todo |-> {}] /\ missed = [u \in User |-> 0]
  BY DEF AccountsInit
<1>1. PICK pw \in Password :
        acct = [u \in User |-> IF Home[u] = Nowhere THEN NoAccount
                              ELSE [NoAccount EXCEPT !.id = 1, !.tenant = Home[u], !.pw = pw]]
  BY DEF AccountsInit
<1>2. ASSUME NEW u \in User
      PROVE  /\ acct[u] \in Account /\ (acct[u].id = 0 => acct[u] = NoAccount)
             /\ acct[u].tv = 0 /\ acct[u].fails = 0 /\ acct[u].until = Never
  <2>1. Home[u] = Nowhere => acct[u] = NoAccount
    BY <1>1
  <2>2. Home[u] # Nowhere =>
          acct[u] = [id |-> 1, tenant |-> Home[u], tv |-> 0, pw |-> pw, fails |-> 0,
                     until |-> Never]
    BY <1>1 DEF NoAccount
  <2> QED
    BY <2>1, <2>2, AccountsAssumption DEF NoAccount, Account, Version, Never
<1>3. acct \in [User -> Account]
  BY <1>1, <1>2
<1>4. AccountsTypeOK
  <2>1. tenant \in [Tenant -> [state : {"active", "archived", "gone"}, since : 0..MaxTime]]
    BY <1>0
  <2>2. purge \in [days : Nat, todo : SUBSET Tenant] /\ now \in 0..MaxTime
    BY <1>0
  <2>3. reqs \in [Req -> Request] /\ tokens \subseteq Token /\ missed \in [User -> Nat]
    BY <1>0
  <2> QED
    BY <1>3, <2>1, <2>2, <2>3 DEF AccountsTypeOK
<1>5. RowInv
  BY <1>0, <1>2 DEF RowInv, Idle, NoAccount
<1>6. VersionInv
  <2>1. ASSUME NEW r \in Req
        PROVE  reqs[r].user \in User /\ reqs[r].row.tv = 0
    BY <1>0 DEF Idle, NoAccount
  <2> QED
    BY <1>0, <1>2, <2>1 DEF VersionInv
<1>7. SessionInv
  BY <1>0 DEF SessionInv, PasswordSessions, SessionsInTenant, Idle
<1>8. LockInv
  BY <1>0, <1>2 DEF LockInv, LockAt, Never, Account
<1> QED
  BY <1>4, <1>5, <1>6, <1>7, <1>8 DEF AccountsIInv

(* What is read of an account, a request or a token has the right type.    *)
LEMMA Reading ==
  ASSUME AccountsTypeOK
  PROVE  /\ \A u \in User :
              /\ acct[u] \in Account
              /\ acct[u].id \in 0..MaxId /\ acct[u].tenant \in Tenant \cup {Nowhere}
              /\ acct[u].tv \in 0..MaxVersion /\ acct[u].pw \in Password \cup {Unusable}
              /\ acct[u].fails \in Nat /\ acct[u].until \in Int
         /\ \A r \in Req :
              /\ reqs[r] \in Request /\ reqs[r].user \in User /\ reqs[r].row \in Account
              /\ reqs[r].tenant \in Tenant \cup {Nowhere}
              /\ reqs[r].pw \in Password \cup {Unusable}
              /\ reqs[r].row.id \in 0..MaxId /\ reqs[r].row.tv \in 0..MaxVersion
              /\ reqs[r].row.pw \in Password \cup {Unusable}
         /\ \A k \in tokens :
              /\ k \in Token /\ k.user \in User /\ k.id \in 1..MaxId /\ k.id # 0
              /\ k.tenant \in Tenant /\ k.tv \in 0..MaxVersion
         /\ now \in 0..MaxTime /\ now \in Nat /\ purge.days \in Nat /\ purge.todo \subseteq Tenant
<1> USE Bounds DEF AccountsTypeOK
<1>1. ASSUME NEW a \in Account
      PROVE  /\ a.id \in 0..MaxId /\ a.tenant \in Tenant \cup {Nowhere}
             /\ a.tv \in 0..MaxVersion /\ a.pw \in Password \cup {Unusable}
             /\ a.fails \in Nat /\ a.until \in Int
  BY DEF Account, Version, Never
<1>2. ASSUME NEW u \in User
      PROVE  acct[u] \in Account
  OBVIOUS
<1>3. ASSUME NEW r \in Req
      PROVE  /\ reqs[r] \in Request /\ reqs[r].user \in User /\ reqs[r].row \in Account
             /\ reqs[r].tenant \in Tenant \cup {Nowhere}
             /\ reqs[r].pw \in Password \cup {Unusable}
  BY DEF Request
<1>4. ASSUME NEW k \in tokens
      PROVE  /\ k \in Token /\ k.user \in User /\ k.id \in 1..MaxId /\ k.id # 0
             /\ k.tenant \in Tenant /\ k.tv \in 0..MaxVersion
  BY DEF Token, Version
<1>5. now \in 0..MaxTime /\ now \in Nat /\ purge.days \in Nat /\ purge.todo \subseteq Tenant
  OBVIOUS
<1> QED
  BY <1>1, <1>2, <1>3, <1>4, <1>5

(* A request record with some fields changed is one.                       *)
LEMMA RequestFields ==
  ASSUME NEW q \in Request, NEW at \in {"idle", "hit", "miss", "sso", "update", "insert",
                                        "logout", "asked", "change"},
         NEW u \in User, NEW t \in Tenant \cup {Nowhere}, NEW a \in Account,
         NEW pw \in Password \cup {Unusable}
  PROVE  /\ [q EXCEPT !.at = at] \in Request
         /\ [q EXCEPT !.at = at, !.row = a] \in Request
         /\ [q EXCEPT !.at = at, !.pw = pw] \in Request
         /\ [Idle EXCEPT !.at = at, !.user = u, !.tenant = t] \in Request
         /\ [Idle EXCEPT !.at = at, !.user = u, !.tenant = t, !.row = a] \in Request
BY Bounds, ZenonT(60) DEF Request

(* The token a request signs.                                              *)
LEMMA IssueType ==
  ASSUME AccountsTypeOK, NEW q, q.user \in User, q.row \in Account, q.row.id \in 1..MaxId,
         q.row.tv \in 0..MaxVersion, q.row.pw \in Password \cup {Unusable},
         q.tenant \in Tenant, NEW by \in {"password", "sso"}, Issue(q, by)
  PROVE  tokens' \subseteq Token
BY DEF AccountsTypeOK, Issue, Signed, Token, Version

(* An account whose version or failures change is one.                     *)
LEMMA AccountFields ==
  ASSUME AccountsTypeOK, NEW u \in User, NEW tv \in Version,
         NEW pw \in Password \cup {Unusable},
         NEW n \in 0..(MaxFailures + Cardinality(Req)), NEW until \in Never..(MaxTime + Lockout)
  PROVE  /\ [acct EXCEPT ![u].tv = tv, ![u].pw = pw] \in [User -> Account]
         /\ [acct EXCEPT ![u].fails = n, ![u].until = until] \in [User -> Account]
         /\ [acct[u] EXCEPT !.tv = tv] \in Account
<1>1. /\ [acct[u] EXCEPT !.tv = tv] \in Account
      /\ [acct[u] EXCEPT !.tv = tv, !.pw = pw] \in Account
      /\ [acct[u] EXCEPT !.fails = n, !.until = until] \in Account
  BY DEF AccountsTypeOK, Account
<1>2. /\ [acct EXCEPT ![u] = [acct[u] EXCEPT !.tv = tv, !.pw = pw]] \in [User -> Account]
      /\ [acct EXCEPT ![u] = [acct[u] EXCEPT !.fails = n, !.until = until]] \in [User -> Account]
  BY <1>1 DEF AccountsTypeOK
<1> QED
  BY <1>1, <1>2 DEF AccountsTypeOK

(* The account single sign-on makes: without failures or a password.       *)
LEMMA NewAccount ==
  ASSUME NEW id \in 1..MaxId, NEW t \in Tenant
  PROVE  LET new == [NoAccount EXCEPT !.id = id, !.tenant = t]
         IN /\ new \in Account /\ new.id = id /\ new.tenant = t /\ new.tv = 0
            /\ new.pw = Unusable /\ new.fails = 0 /\ new.until = Never
<1>1. ASSUME NEW new, new = [NoAccount EXCEPT !.id = id, !.tenant = t]
      PROVE  /\ new \in Account /\ new.id = id /\ new.tenant = t /\ new.tv = 0
             /\ new.pw = Unusable /\ new.fails = 0 /\ new.until = Never
  <2>1. new = [id |-> id, tenant |-> t, tv |-> 0, pw |-> Unusable, fails |-> 0,
               until |-> Never]
    BY <1>1 DEF NoAccount
  <2>2. /\ id \in 0..MaxId /\ 0 \in 0..MaxVersion /\ 0 \in 0..(MaxFailures + Cardinality(Req))
        /\ -1 \in -1..(MaxTime + Lockout)
    BY Bounds
  <2> QED
    BY <2>1, <2>2 DEF Account, Version, Never
<1> QED
  BY <1>1

(* A miss counts to at most the bound of the type.                         *)
LEMMA MissBounded ==
  ASSUME AccountsTypeOK, LockInv, NEW r \in Req
  PROVE  /\ Counted(reqs[r]) \in 0..(MaxFailures + Cardinality(Req))
         /\ now + Lockout \in Never..(MaxTime + Lockout)
<1> DEFINE u == reqs[r].user
<1> USE Bounds
<1>1. u \in User /\ acct[u].fails \in Nat /\ acct[u].until \in Int /\ now \in 0..MaxTime
  BY Reading
<1>2. Cardinality(Pending(u)) \in Nat
  BY PendingBounded
<1>3. /\ acct[u].until = Never => acct[u].fails < MaxFailures
      /\ acct[u].until > now =>
           acct[u].fails + Cardinality(Pending(u)) < MaxFailures + Cardinality(Req)
  BY <1>1 DEF LockInv, LockAt
<1>4. now + Lockout \in Never..(MaxTime + Lockout)
  BY <1>1 DEF Never
<1>5. Counted(reqs[r]) =
        IF acct[u].until # Never /\ acct[u].until <= now THEN 1 ELSE acct[u].fails + 1
  BY DEF Counted
<1> QED
  BY <1>1, <1>2, <1>3, <1>4, <1>5

(* Every step keeps the types.                                             *)
LEMMA AccountsTypeStep ==
  ASSUME AccountsTypeOK, RowInv, LockInv, [AccountsNext]_accountsVars
  PROVE  AccountsTypeOK'
<1> USE Bounds, Reading
<1>1. ASSUME NEW r \in Req, NEW t \in Tenant, NEW pw \in Password, Login(r, t, pw)
      PROVE  AccountsTypeOK'
  <2>1. PICK u \in Oldest(t) :
          Become(r, [Idle EXCEPT !.at = IF pw = acct[u].pw THEN "hit" ELSE "miss",
                                 !.user = u, !.tenant = t, !.row = acct[u]])
    BY <1>1 DEF Login
  <2>2. u \in User
    BY DEF Oldest
  <2>3. \A at \in {"hit", "miss"} :
          [Idle EXCEPT !.at = at, !.user = u, !.tenant = t, !.row = acct[u]] \in Request
    BY <2>2, RequestFields
  <2>4. reqs' \in [Req -> Request]
    BY <2>1, <2>3 DEF Become, AccountsTypeOK
  <2> QED
    BY <1>1, <2>4 DEF Login, AccountsTypeOK
<1>2. ASSUME NEW r \in Req, Miss(r)
      PROVE  AccountsTypeOK'
  <2>1. reqs' \in [Req -> Request]
    BY <1>2 DEF Miss, Answer, Become, AccountsTypeOK
  <2>2. acct' \in [User -> Account]
    <3>1. /\ Counted(reqs[r]) \in 0..(MaxFailures + Cardinality(Req))
          /\ now + Lockout \in Never..(MaxTime + Lockout)
      BY MissBounded
    <3>2. Never \in Never..(MaxTime + Lockout)
      BY DEF Never
    <3>3. \A n \in 0..(MaxFailures + Cardinality(Req)), until \in Never..(MaxTime + Lockout) :
            [acct EXCEPT ![reqs[r].user].fails = n, ![reqs[r].user].until = until]
              \in [User -> Account]
      <4>1. acct[reqs[r].user].pw \in Password \cup {Unusable} /\ 0 \in Version
        BY DEF Version
      <4> QED
        BY <4>1, AccountFields
    <3>4. CASE acct[reqs[r].user].id = reqs[r].row.id
      BY <1>2, <3>1, <3>2, <3>3, <3>4 DEF Miss
    <3>5. CASE acct[reqs[r].user].id # reqs[r].row.id
      BY <1>2, <3>5 DEF Miss, AccountsTypeOK
    <3> QED
      BY <3>4, <3>5
  <2>3. missed' \in [User -> Nat]
    BY <1>2 DEF Miss, AccountsTypeOK
  <2> QED
    BY <1>2, <2>1, <2>2, <2>3 DEF Miss, AccountsTypeOK
<1>3. ASSUME NEW r \in Req, Hit(r)
      PROVE  AccountsTypeOK'
  <2>1. reqs' \in [Req -> Request]
    BY <1>3 DEF Hit, Answer, Become, AccountsTypeOK
  <2>2. acct' \in [User -> Account]
    <3>1. 0 \in 0..(MaxFailures + Cardinality(Req)) /\ Never \in Never..(MaxTime + Lockout)
          /\ 0 \in Version
      BY DEF Never, Version
    <3>2. [acct EXCEPT ![reqs[r].user].fails = 0, ![reqs[r].user].until = Never]
             \in [User -> Account]
      BY <3>1, AccountFields
    <3> QED
      BY <1>3, <3>2 DEF Hit, AccountsTypeOK
  <2>3. tokens' \subseteq Token
    <3>1. reqs[r].row.id \in 1..MaxId /\ reqs[r].tenant \in Tenant
      BY <1>3 DEF Hit, RowInv
    <3> QED
      BY <1>3, <3>1, IssueType DEF Hit
  <2>4. missed' \in [User -> Nat]
    BY <1>3 DEF Hit, AccountsTypeOK
  <2> QED
    BY <1>3, <2>1, <2>2, <2>3, <2>4 DEF Hit, AccountsTypeOK
<1>4. ASSUME NEW r \in Req, NEW pw \in Password \cup {Unusable},
             acct[reqs[r].user].tv < MaxVersion, Bump(reqs[r], pw)
      PROVE  acct' \in [User -> Account]
  <2>1. acct[reqs[r].user].tv + 1 \in Version
    BY <1>4 DEF Version
  <2>2. 0 \in 0..(MaxFailures + Cardinality(Req)) /\ Never \in Never..(MaxTime + Lockout)
    BY DEF Never
  <2>3. [acct EXCEPT ![reqs[r].user].tv = acct[reqs[r].user].tv + 1, ![reqs[r].user].pw = pw]
           \in [User -> Account]
    BY <2>1, <2>2, AccountFields
  <2> QED
    BY <1>4, <2>3 DEF Bump, AccountsTypeOK
<1>5. ASSUME NEW r \in Req, Logout(r)
      PROVE  AccountsTypeOK'
  BY <1>4, <1>5 DEF Logout, Answer, Become, AccountsTypeOK
<1>6. ASSUME NEW r \in Req, ChangePassword(r)
      PROVE  AccountsTypeOK'
  BY <1>4, <1>6 DEF ChangePassword, Answer, Become, AccountsTypeOK
<1>7. ASSUME NEW r \in Req, NEW k \in tokens, NEW at \in {"logout", "asked"},
             Authorise(r, k, at)
      PROVE  AccountsTypeOK'
  <2> DEFINE row == [NoAccount EXCEPT !.id = k.id]
  <2>1. row \in Account
    BY DEF Account
  <2>2. [Idle EXCEPT !.at = at, !.user = k.user, !.tenant = k.tenant, !.row = row] \in Request
    <3> HIDE DEF row
    <3> QED
      BY <2>1, RequestFields
  <2> QED
    BY <1>7, <2>2 DEF Authorise, Become, AccountsTypeOK
<1>8. ASSUME NEW r \in Req, NEW old \in Password, NEW new \in Password,
             CheckCurrent(r, old, new)
      PROVE  AccountsTypeOK'
  <2>1. [reqs[r] EXCEPT !.at = "change", !.pw = new] \in Request
    BY RequestFields
  <2> QED
    BY <1>8, <2>1 DEF CheckCurrent, Answer, Become, AccountsTypeOK
<1>9. ASSUME NEW r \in Req, NEW u \in User, NEW t \in Tenant, SsoTenant(r, u, t)
      PROVE  AccountsTypeOK'
  <2>1. [Idle EXCEPT !.at = "sso", !.user = u, !.tenant = t] \in Request
    BY RequestFields
  <2> QED
    BY <1>9, <2>1 DEF SsoTenant, Become, AccountsTypeOK
<1>10. ASSUME NEW r \in Req, SsoUser(r)
       PROVE  AccountsTypeOK'
  <2>1. /\ [reqs[r] EXCEPT !.at = "update", !.row = acct[reqs[r].user]] \in Request
        /\ [reqs[r] EXCEPT !.at = "insert"] \in Request
    BY RequestFields
  <2> QED
    BY <1>10, <2>1 DEF SsoUser, Answer, Become, AccountsTypeOK
<1>11. ASSUME NEW r \in Req, SsoUpdate(r)
       PROVE  AccountsTypeOK'
  <2>1. reqs[r].row.id \in 1..MaxId /\ reqs[r].tenant \in Tenant
    BY <1>11 DEF SsoUpdate, RowInv
  <2>2. tokens' \subseteq Token
    BY <1>11, <2>1, IssueType DEF SsoUpdate
  <2> QED
    BY <1>11, <2>2 DEF SsoUpdate, Answer, Become, AccountsTypeOK
<1>12. ASSUME NEW r \in Req, NEW id \in 1..MaxId, SsoInsert(r, id)
       PROVE  AccountsTypeOK'
  <2> DEFINE new == [NoAccount EXCEPT !.id = id, !.tenant = reqs[r].tenant]
             q == [reqs[r] EXCEPT !.row = new]
  <2>1. reqs[r].tenant \in Tenant
    BY <1>12 DEF SsoInsert, RowInv
  <2>2. new \in Account /\ new.id = id /\ new.tv = 0 /\ new.pw = Unusable
    BY <2>1, NewAccount
  <2>3. q.user = reqs[r].user /\ q.tenant = reqs[r].tenant /\ q.row = new
    BY DEF Request
  <2>4. acct' \in [User -> Account]
    BY <1>12, <2>2 DEF SsoInsert, AccountsTypeOK
  <2>5. tokens' \subseteq Token
    <3>1. CASE Exists(reqs[r].user)
      BY <1>12, <3>1 DEF SsoInsert, AccountsTypeOK
    <3>2. CASE ~Exists(reqs[r].user)
      <4>1. Issue(q, "sso")
        BY <1>12, <3>2 DEF SsoInsert
      <4>2. /\ q.user \in User /\ q.row \in Account /\ q.row.id \in 1..MaxId
            /\ q.row.tv \in 0..MaxVersion /\ q.row.pw \in Password \cup {Unusable}
            /\ q.tenant \in Tenant
        <5> HIDE DEF q, new
        <5> QED
          BY <2>1, <2>2, <2>3
      <4> HIDE DEF q
      <4> QED
        BY <4>1, <4>2, IssueType
    <3> QED
      BY <3>1, <3>2
  <2> QED
    BY <1>12, <2>4, <2>5 DEF SsoInsert, Answer, Become, AccountsTypeOK
<1>13. ASSUME NEW t \in Tenant, Archive(t)
       PROVE  AccountsTypeOK'
  <2>1. ASSUME NEW u \in User, acct[u].tenant = t
        PROVE  [acct[u] EXCEPT !.tv = @ + 1] \in Account
    <3>1. acct[u].tv + 1 \in Version
      BY <1>13, <2>1 DEF Archive, Version
    <3> QED
      BY <3>1 DEF Account
  <2>2. acct' \in [User -> Account]
    BY <1>13, <2>1 DEF Archive
  <2> QED
    BY <1>13, <2>2 DEF Archive, AccountsTypeOK
<1>14. ASSUME NEW t \in Tenant, Restore(t)
       PROVE  AccountsTypeOK'
  BY <1>14 DEF Restore, Restored, AccountsTypeOK
<1>15. ASSUME NEW t \in Tenant, PurgeTenant(t)
       PROVE  AccountsTypeOK'
  <2>1. purge' \in [days : Nat, todo : SUBSET Tenant]
    BY <1>15 DEF PurgeTenant, AccountsTypeOK
  <2>2. CASE StillDue(t)
    <3>1. tenant' \in [Tenant -> [state : {"active", "archived", "gone"}, since : 0..MaxTime]]
      BY <1>15, <2>2 DEF PurgeTenant, AccountsTypeOK
    <3>2. acct' \in [User -> Account]
      BY <1>15, <2>2 DEF PurgeTenant, AccountsTypeOK
    <3>3. missed' \in [User -> Nat]
      BY <1>15, <2>2 DEF PurgeTenant, AccountsTypeOK
    <3> QED
      BY <1>15, <2>1, <3>1, <3>2, <3>3 DEF PurgeTenant, AccountsTypeOK
  <2>3. CASE ~StillDue(t)
    BY <1>15, <2>1, <2>3 DEF PurgeTenant, AccountsTypeOK
  <2> QED
    BY <2>2, <2>3
<1>16. ASSUME NEW n \in Days, SelectTargets(n)
       PROVE  AccountsTypeOK'
  BY <1>16, AccountsAssumption DEF SelectTargets, Permitted, AccountsTypeOK
<1>17. CASE PurgeFails
  BY <1>17 DEF PurgeFails, AccountsTypeOK
<1>18. CASE Tick
  BY <1>18 DEF Tick, AccountsTypeOK
<1>19. CASE UNCHANGED accountsVars
  BY <1>19 DEF accountsVars, AccountsTypeOK
<1> QED
  BY <1>1, <1>2, <1>3, <1>5, <1>6, <1>7, <1>8, <1>9, <1>10, <1>11, <1>12, <1>13, <1>14,
     <1>15, <1>16, <1>17, <1>18, <1>19 DEF AccountsNext

----------------------------------------------------------------------------
(***************************************************************************)
(* What a step may do to an account, a request, and the tokens             *)
(***************************************************************************)

(* The account stays; with its version its password stays, and its tenant  *)
(* active.                                                                 *)
Kept(u) ==
  /\ acct'[u].id = acct[u].id /\ acct'[u].tenant = acct[u].tenant
  /\ acct[u].id = 0 => acct'[u] = acct[u]
  /\ acct[u].tv <= acct'[u].tv
  /\ acct'[u].tv = acct[u].tv =>
       /\ acct'[u].pw = acct[u].pw
       /\ \A t \in Tenant : (acct[u].tenant = t /\ tenant[t].state = "active")
                             => tenant'[t].state = "active"

Gone(u) == acct'[u] = NoAccount

(* It is made, with an id no token and no request has.                     *)
Made(u) ==
  /\ acct[u].id = 0 /\ acct'[u].id # 0
  /\ \A k \in tokens : k.user = u => k.id < acct'[u].id
  /\ \A r \in Req : reqs[r].user = u => reqs[r].row.id < acct'[u].id

(* A request reads the account, or was authorised with a token of it, or   *)
(* goes on with what it knows.                                             *)
ReadsAccount(q) ==
  /\ q.at \in {"hit", "miss", "update"}
  /\ q.row = acct[q.user] /\ q.row.id # 0
  /\ q.tenant \in Tenant /\ acct[q.user].tenant = q.tenant
  /\ q.at # "update" => ~Locked(acct[q.user])
  /\ q.at = "hit" => tenant[q.tenant].state = "active"

IsAuthorised(q) == q.at \in {"logout", "asked"} /\ q.row.id # 0 /\ q.row.tv = 0

GoesOn(p, q) ==
  \/ /\ p.at = "asked" /\ q.at = "change"
     /\ q.user = p.user /\ q.row = p.row
  \/ /\ p.at = "sso" /\ q.at = "insert"
     /\ q.user = p.user /\ q.row = p.row /\ q.tenant = p.tenant
  \/ /\ q.at = "sso" /\ q.row = NoAccount /\ q.tenant \in Tenant

Continues(r) ==
  /\ acct' = acct /\ tokens' = tokens /\ tenant' = tenant /\ now' = now /\ purge' = purge
  /\ \/ ReadsAccount(reqs'[r]) \/ IsAuthorised(reqs'[r]) \/ GoesOn(reqs[r], reqs'[r])

(* A token is signed with what a request has read, and the account is left *)
(* alone, or with the account that is made.                                *)
SignedAsRead(k, r) ==
  LET q == reqs[r] IN
  /\ q.at \in {"hit", "update"} /\ (k.by = "password" => q.at = "hit")
  /\ k.user = q.user /\ k.id = q.row.id /\ k.tenant = q.tenant
  /\ k.tv = q.row.tv /\ k.pw = q.row.pw
  /\ tenant' = tenant
  /\ acct'[k.user].id = acct[k.user].id /\ acct'[k.user].tv = acct[k.user].tv
  /\ acct'[k.user].pw = acct[k.user].pw /\ acct'[k.user].tenant = acct[k.user].tenant

SignedNew(k) ==
  k.by = "sso" /\ k.tv = 0 /\ acct'[k.user].tv = 0 /\ acct'[k.user].tenant = k.tenant

(* Accounts keep their id and go on to later versions, end, or are made    *)
(* anew, and nothing else.                                                 *)
LEMMA AccountMoves ==
  ASSUME AccountsTypeOK, RowInv, [AccountsNext]_accountsVars, NEW u \in User
  PROVE  Kept(u) \/ Gone(u) \/ Made(u)
<1> USE Bounds, Reading DEF AccountsTypeOK
<1>1. ASSUME acct' = acct, tenant' = tenant
      PROVE  Kept(u)
  BY <1>1 DEF Kept
<1>2. ASSUME NEW r \in Req, Miss(r) \/ Hit(r)
      PROVE  Kept(u)
  <2> DEFINE v == reqs[r].user
  <2>1. tenant' = tenant
    BY <1>2 DEF Miss, Hit
  <2>2. ASSUME NEW n, NEW m, acct[v].id = reqs[r].row.id,
               acct' = [acct EXCEPT ![v].fails = n, ![v].until = m]
        PROVE  Kept(u)
    <3>1. acct[v].id # 0
      BY <1>2, <2>2 DEF Miss, Hit, RowInv
    <3>2. CASE u # v
      BY <2>1, <2>2, <3>2 DEF Kept
    <3>3. CASE u = v
      <4>1. acct'[u] = [acct[u] EXCEPT !.fails = n, !.until = m]
        BY <2>2, <3>3
      <4>2. /\ acct'[u].id = acct[u].id /\ acct'[u].tenant = acct[u].tenant
            /\ acct'[u].tv = acct[u].tv /\ acct'[u].pw = acct[u].pw
        BY <4>1 DEF Account
      <4> QED
        BY <2>1, <3>1, <3>3, <4>2 DEF Kept
    <3> QED
      BY <3>2, <3>3
  <2>3. CASE Miss(r)
    BY <1>1, <2>1, <2>2, <2>3 DEF Miss
  <2>4. CASE Hit(r)
    BY <1>1, <2>1, <2>2, <2>4 DEF Hit
  <2> QED
    BY <1>2, <2>3, <2>4
<1>3. ASSUME NEW r \in Req, NEW pw, Bump(reqs[r], pw), tenant' = tenant,
             reqs[r].row.id # 0
      PROVE  Kept(u)
  BY <1>3 DEF Bump, Kept, Account
<1>4. ASSUME NEW r \in Req, NEW id \in 1..MaxId, SsoInsert(r, id)
      PROVE  Kept(u) \/ Made(u)
  <2> DEFINE q == reqs[r]
             new == [NoAccount EXCEPT !.id = id, !.tenant = q.tenant]
  <2>1. new.id = id
    BY <1>4, NewAccount DEF SsoInsert, RowInv
  <2>2. CASE Exists(q.user) \/ u # q.user
    BY <1>4, <2>2 DEF SsoInsert, Kept
  <2>3. CASE ~Exists(q.user) /\ u = q.user
    <3>1. acct'[u].id = id /\ acct[u].id = 0
      BY <1>4, <2>1, <2>3 DEF SsoInsert, Exists
    <3> QED
      BY <1>4, <2>3, <3>1 DEF SsoInsert, Made
  <2> QED
    BY <2>2, <2>3
<1>5. ASSUME NEW t \in Tenant, Archive(t)
      PROVE  Kept(u)
  <2>1. CASE acct[u].tenant = t
    <3>1. acct'[u] = [acct[u] EXCEPT !.tv = @ + 1]
      BY <1>5, <2>1 DEF Archive
    <3>2. acct[u].id # 0
      BY <2>1, AccountsAssumption DEF RowInv, NoAccount
    <3> QED
      BY <3>1, <3>2 DEF Kept, Account
  <2>2. CASE acct[u].tenant # t
    <3>1. acct'[u] = acct[u]
      BY <1>5, <2>2 DEF Archive
    <3>2. \A s \in Tenant : s # t => tenant'[s] = tenant[s]
      BY <1>5 DEF Archive
    <3> QED
      BY <2>2, <3>1, <3>2 DEF Kept
  <2> QED
    BY <2>1, <2>2
<1>6. ASSUME NEW t \in Tenant, Restore(t)
      PROVE  Kept(u)
  BY <1>6 DEF Restore, Restored, Kept
<1>7. ASSUME NEW t \in Tenant, PurgeTenant(t)
      PROVE  Kept(u) \/ Gone(u)
  <2>1. CASE StillDue(t)
    <3>1. acct'[u] = acct[u] \/ acct'[u] = NoAccount
      BY <1>7, <2>1 DEF PurgeTenant
    <3>2. \A s \in Tenant : tenant[s].state = "active" => tenant'[s].state = "active"
      BY <1>7, <2>1 DEF PurgeTenant, StillDue, Due
    <3> QED
      BY <3>1, <3>2 DEF Kept, Gone
  <2>2. CASE ~StillDue(t)
    BY <1>1, <1>7, <2>2 DEF PurgeTenant
  <2> QED
    BY <2>1, <2>2
<1>8. ASSUME NEW r \in Req, Logout(r) \/ ChangePassword(r) \/ SsoUpdate(r)
      PROVE  Kept(u)
  BY <1>1, <1>3, <1>8 DEF Logout, ChangePassword, SsoUpdate, RowInv
<1>9. ASSUME NEW r \in Req, NEW t \in Tenant, NEW pw \in Password, Login(r, t, pw)
      PROVE  Kept(u)
  BY <1>1, <1>9 DEF Login
<1>10. ASSUME NEW r \in Req, NEW k \in tokens, NEW at, Authorise(r, k, at)
       PROVE  Kept(u)
  BY <1>1, <1>10 DEF Authorise
<1>11. ASSUME NEW r \in Req, NEW old, NEW new, CheckCurrent(r, old, new)
       PROVE  Kept(u)
  BY <1>1, <1>11 DEF CheckCurrent
<1>12. ASSUME NEW r \in Req, NEW v, NEW t, SsoTenant(r, v, t) \/ SsoUser(r)
       PROVE  Kept(u)
  BY <1>1, <1>12 DEF SsoTenant, SsoUser
<1>13. ASSUME NEW n, SelectTargets(n) \/ PurgeFails \/ Tick \/ UNCHANGED accountsVars
       PROVE  Kept(u)
  BY <1>1, <1>13 DEF SelectTargets, PurgeFails, Tick, accountsVars
<1> QED
  BY <1>2, <1>4, <1>5, <1>6, <1>7, <1>8, <1>9, <1>10, <1>11, <1>12, <1>13 DEF AccountsNext

(* A request stays as it is, is answered, or goes on alone.                *)
LEMMA RequestMoves ==
  ASSUME AccountsTypeOK, RowInv, [AccountsNext]_accountsVars, NEW s \in Req
  PROVE  reqs'[s] = reqs[s] \/ reqs'[s] = Idle \/ Continues(s)
<1> USE Bounds, Reading DEF AccountsTypeOK
<1>1. ASSUME NEW r \in Req, Answer(r)
      PROVE  reqs'[s] = reqs[s] \/ reqs'[s] = Idle
  BY <1>1 DEF Answer, Become
<1>2. ASSUME NEW r \in Req, NEW q, Become(r, q), s # r
      PROVE  reqs'[s] = reqs[s]
  BY <1>2 DEF Become
<1>3. ASSUME NEW r \in Req, NEW q, Become(r, q)
      PROVE  reqs'[r] = q
  BY <1>3 DEF Become
<1>4. ASSUME NEW r \in Req, NEW t \in Tenant, NEW pw \in Password, Login(r, t, pw)
      PROVE  reqs'[s] = reqs[s] \/ Continues(s)
  <2>1. PICK u \in Oldest(t) :
          /\ ~Locked(acct[u])
          /\ Become(r, [Idle EXCEPT !.at = IF pw = acct[u].pw THEN "hit" ELSE "miss",
                                    !.user = u, !.tenant = t, !.row = acct[u]])
    BY <1>4 DEF Login
  <2>2. u \in User /\ acct[u].tenant = t /\ acct[u].id # 0
    BY DEF Oldest, Exists
  <2>3. CASE s # r
    BY <1>2, <2>1, <2>3
  <2>4. CASE s = r
    <3>1. /\ reqs'[s].at \in {"hit", "miss"} /\ reqs'[s].user = u
          /\ reqs'[s].tenant = t /\ reqs'[s].row = acct[u]
      <4>1. reqs'[s] = [Idle EXCEPT !.at = IF pw = acct[u].pw THEN "hit" ELSE "miss",
                                    !.user = u, !.tenant = t, !.row = acct[u]]
        BY <1>3, <2>1, <2>4
      <4> QED
        BY <4>1 DEF Idle
    <3>2. ReadsAccount(reqs'[s])
      BY <1>4, <2>1, <2>2, <3>1 DEF Login, ReadsAccount
    <3> QED
      BY <1>4, <3>2 DEF Login, Continues
  <2> QED
    BY <2>3, <2>4
<1>5. ASSUME NEW r \in Req, NEW k \in tokens, NEW at \in {"logout", "asked"},
             Authorise(r, k, at)
      PROVE  reqs'[s] = reqs[s] \/ Continues(s)
  <2> DEFINE row == [NoAccount EXCEPT !.id = k.id]
             q == [Idle EXCEPT !.at = at, !.user = k.user, !.tenant = k.tenant, !.row = row]
  <2>1. row.id # 0 /\ row.tv = 0
    BY DEF NoAccount
  <2>2. q.at = at /\ q.row = row
    BY DEF Idle
  <2>3. Become(r, q)
    BY <1>5 DEF Authorise
  <2>4. CASE s # r
    BY <1>2, <2>3, <2>4
  <2>5. CASE s = r
    <3>1. reqs'[s] = q
      BY <1>3, <2>3, <2>5
    <3>2. IsAuthorised(reqs'[s])
      BY <2>1, <2>2, <3>1 DEF IsAuthorised
    <3> QED
      BY <1>5, <3>2 DEF Authorise, Continues
  <2> QED
    BY <2>4, <2>5
<1>6. ASSUME NEW r \in Req, NEW old, NEW new, CheckCurrent(r, old, new)
      PROVE  reqs'[s] = reqs[s] \/ reqs'[s] = Idle \/ Continues(s)
  <2> DEFINE q == [reqs[r] EXCEPT !.at = "change", !.pw = new]
  <2>1. Answer(r) \/ Become(r, q)
    BY <1>6 DEF CheckCurrent
  <2>2. q.at = "change" /\ q.row = reqs[r].row /\ q.user = reqs[r].user
    BY DEF Request
  <2>3. CASE Become(r, q) /\ s = r
    <3>1. reqs'[s] = q
      BY <1>3, <2>3
    <3>2. GoesOn(reqs[s], reqs'[s])
      BY <1>6, <2>2, <2>3, <3>1 DEF CheckCurrent, GoesOn
    <3> QED
      BY <1>6, <3>2 DEF CheckCurrent, Continues
  <2> QED
    BY <1>1, <1>2, <2>1, <2>3
<1>7. ASSUME NEW r \in Req, NEW u \in User, NEW t \in Tenant, SsoTenant(r, u, t)
      PROVE  reqs'[s] = reqs[s] \/ Continues(s)
  <2> DEFINE q == [Idle EXCEPT !.at = "sso", !.user = u, !.tenant = t]
  <2>1. Become(r, q)
    BY <1>7 DEF SsoTenant
  <2>2. q.at = "sso" /\ q.tenant = t /\ q.row = NoAccount
    BY DEF Idle
  <2>3. CASE s # r
    BY <1>2, <2>1, <2>3
  <2>4. CASE s = r
    <3>1. reqs'[s] = q
      BY <1>3, <2>1, <2>4
    <3>2. GoesOn(reqs[s], reqs'[s])
      BY <2>2, <3>1 DEF GoesOn
    <3> QED
      BY <1>7, <3>2 DEF SsoTenant, Continues
  <2> QED
    BY <2>3, <2>4
<1>8. ASSUME NEW r \in Req, SsoUser(r)
      PROVE  reqs'[s] = reqs[s] \/ reqs'[s] = Idle \/ Continues(s)
  <2> DEFINE p == reqs[r]
             reads == [p EXCEPT !.at = "update", !.row = acct[p.user]]
             inserts == [p EXCEPT !.at = "insert"]
  <2>1. CASE Answer(r)
    BY <1>1, <2>1
  <2>2. CASE Become(r, reads) /\ Exists(p.user) /\ OfTenant(p.user, p.tenant)
    <3>1. /\ reads.at = "update" /\ reads.user = p.user /\ reads.tenant = p.tenant
          /\ reads.row = acct[p.user]
      BY DEF Request
    <3>2. CASE s = r
      <4>1. reqs'[s] = reads
        BY <1>3, <2>2, <3>2
      <4>2. p.tenant \in Tenant
        BY <1>8 DEF SsoUser, RowInv
      <4>3. ReadsAccount(reqs'[s])
        BY <2>2, <3>1, <4>1, <4>2 DEF ReadsAccount, Exists, OfTenant
      <4> QED
        BY <1>8, <4>3 DEF SsoUser, Continues
    <3> QED
      BY <1>2, <2>2, <3>2
  <2>3. CASE Become(r, inserts)
    <3>1. /\ inserts.at = "insert" /\ inserts.user = p.user /\ inserts.tenant = p.tenant
          /\ inserts.row = p.row
      BY DEF Request
    <3>2. CASE s = r
      <4>1. reqs'[s] = inserts
        BY <1>3, <2>3, <3>2
      <4>2. GoesOn(reqs[s], reqs'[s])
        BY <1>8, <3>1, <3>2, <4>1 DEF SsoUser, GoesOn
      <4> QED
        BY <1>8, <4>2 DEF SsoUser, Continues
    <3> QED
      BY <1>2, <2>3, <3>2
  <2> QED
    BY <1>8, <2>1, <2>2, <2>3 DEF SsoUser
<1>9. ASSUME NEW r \in Req,
             Miss(r) \/ Hit(r) \/ Logout(r) \/ ChangePassword(r) \/ SsoUpdate(r)
      PROVE  reqs'[s] = reqs[s] \/ reqs'[s] = Idle
  BY <1>1, <1>9 DEF Miss, Hit, Logout, ChangePassword, SsoUpdate
<1>10. ASSUME NEW r \in Req, NEW id, SsoInsert(r, id)
       PROVE  reqs'[s] = reqs[s] \/ reqs'[s] = Idle
  BY <1>1, <1>10 DEF SsoInsert
<1>11. ASSUME NEW t, Archive(t) \/ Restore(t) \/ PurgeTenant(t)
       PROVE  reqs'[s] = reqs[s]
  BY <1>11 DEF Archive, Restore, PurgeTenant
<1>12. ASSUME NEW n, SelectTargets(n) \/ PurgeFails \/ Tick \/ UNCHANGED accountsVars
       PROVE  reqs'[s] = reqs[s]
  BY <1>12 DEF SelectTargets, PurgeFails, Tick, accountsVars
<1> QED
  BY <1>4, <1>5, <1>6, <1>7, <1>8, <1>9, <1>10, <1>11, <1>12 DEF AccountsNext

(* Every token is signed with what a request has read, or for a new user.  *)
LEMMA TokenMoves ==
  ASSUME AccountsTypeOK, RowInv, [AccountsNext]_accountsVars, NEW k \in tokens'
  PROVE  k \in tokens \/ SignedNew(k) \/ \E r \in Req : SignedAsRead(k, r)
<1> USE Bounds, Reading DEF AccountsTypeOK
<1>1. ASSUME NEW r \in Req, Hit(r)
      PROVE  k \in tokens \/ SignedAsRead(k, r)
  <2> DEFINE q == reqs[r]
             signed == [user |-> q.user, id |-> q.row.id, tenant |-> q.tenant, tv |-> q.row.tv,
                        by |-> "password", pw |-> q.row.pw]
  <2>1. k \in tokens \/ k = signed
    BY <1>1 DEF Hit, Issue, Signed
  <2>2. PICK n, m : acct' = acct \/ acct' = [acct EXCEPT ![q.user].fails = n, ![q.user].until = m]
    BY <1>1 DEF Hit
  <2>3. acct'[q.user] = acct[q.user] \/ acct'[q.user] = [acct[q.user] EXCEPT !.fails = n, !.until = m]
    BY <2>2
  <2>4. /\ acct'[q.user].id = acct[q.user].id /\ acct'[q.user].tenant = acct[q.user].tenant
        /\ acct'[q.user].tv = acct[q.user].tv /\ acct'[q.user].pw = acct[q.user].pw
    BY <2>3, ZenonT(60) DEF Account
  <2> QED
    BY <1>1, <2>1, <2>4 DEF Hit, SignedAsRead
<1>2. ASSUME NEW r \in Req, SsoUpdate(r)
      PROVE  k \in tokens \/ SignedAsRead(k, r)
  <2> DEFINE q == reqs[r]
             signed == [user |-> q.user, id |-> q.row.id, tenant |-> q.tenant, tv |-> q.row.tv,
                        by |-> "sso", pw |-> q.row.pw]
  <2>1. k \in tokens \/ k = signed
    BY <1>2 DEF SsoUpdate, Issue, Signed
  <2> QED
    BY <1>2, <2>1 DEF SsoUpdate, SignedAsRead
<1>3. ASSUME NEW r \in Req, NEW id \in 1..MaxId, SsoInsert(r, id)
      PROVE  k \in tokens \/ SignedNew(k)
  <2> DEFINE p == reqs[r]
             new == [NoAccount EXCEPT !.id = id, !.tenant = p.tenant]
             q == [p EXCEPT !.row = new]
  <2>1. new.tv = 0 /\ new.tenant = p.tenant
    BY <1>3, NewAccount DEF SsoInsert, RowInv
  <2>2. q.user = p.user /\ q.tenant = p.tenant /\ q.row = new
    BY DEF Request
  <2>3. CASE Exists(p.user)
    BY <1>3, <2>3 DEF SsoInsert
  <2>4. CASE ~Exists(p.user)
    <3>1. Issue(q, "sso") /\ acct'[p.user] = new
      BY <1>3, <2>4 DEF SsoInsert
    <3>2. k \in tokens \/ (k.by = "sso" /\ k.tv = new.tv /\ k.user = p.user /\ k.tenant = p.tenant)
      <4> HIDE DEF q, new
      <4> QED
        BY <2>2, <3>1 DEF Issue, Signed
    <3> QED
      <4> HIDE DEF q, new
      <4> QED
        BY <2>1, <3>1, <3>2 DEF SignedNew
  <2> QED
    BY <2>3, <2>4
<1>4. ASSUME NEW r \in Req, NEW x, NEW y, NEW z,
             \/ Login(r, x, y) \/ Miss(r) \/ Logout(r) \/ ChangePassword(r)
             \/ Authorise(r, x, y) \/ CheckCurrent(r, x, y) \/ SsoTenant(r, x, y) \/ SsoUser(r)
      PROVE  k \in tokens
  BY <1>4 DEF Login, Miss, Logout, ChangePassword, Authorise, CheckCurrent, SsoTenant, SsoUser
<1>5. ASSUME NEW x, \/ Archive(x) \/ Restore(x) \/ PurgeTenant(x) \/ SelectTargets(x)
                    \/ PurgeFails \/ Tick \/ UNCHANGED accountsVars
      PROVE  k \in tokens
  BY <1>5 DEF Archive, Restore, PurgeTenant, SelectTargets, PurgeFails, Tick, accountsVars
<1> QED
  BY <1>1, <1>2, <1>3, <1>4, <1>5 DEF AccountsNext

----------------------------------------------------------------------------
(***************************************************************************)
(* The parts of the invariant                                              *)
(***************************************************************************)

(* Accounts that are not there have an empty row, requests that write know *)
(* an account, and a purge under way has a retention of a day at least.    *)
LEMMA RowStep ==
  ASSUME AccountsTypeOK, RowInv, [AccountsNext]_accountsVars
  PROVE  RowInv'
<1> USE Reading
<1>1. ASSUME NEW u \in User, acct'[u].id = 0
      PROVE  acct'[u] = NoAccount
  BY <1>1, AccountMoves DEF RowInv, Kept, Gone, Made
<1>2. ASSUME NEW s \in Req
      PROVE  /\ reqs'[s].at \in {"hit", "miss", "update", "logout", "asked", "change"}
                  => reqs'[s].row.id # 0
             /\ reqs'[s].row.id = 0 => reqs'[s].row.tv = 0
             /\ reqs'[s].at \in {"hit", "sso", "update", "insert"} => reqs'[s].tenant \in Tenant
  <2>1. CASE reqs'[s] = reqs[s]
    BY <2>1 DEF RowInv
  <2>2. CASE reqs'[s] = Idle
    BY <2>2 DEF Idle, NoAccount
  <2>3. CASE Continues(s)
    BY <2>3 DEF Continues, ReadsAccount, IsAuthorised, GoesOn, RowInv, NoAccount
  <2> QED
    BY <2>1, <2>2, <2>3, RequestMoves
<1>3. purge'.todo # {} => purge'.days >= 1
  <2>1. ASSUME NEW n \in Days, SelectTargets(n)
        PROVE  purge'.days >= 1
    BY <2>1 DEF SelectTargets, Permitted
  <2>2. ASSUME NEW t \in Tenant, PurgeTenant(t)
        PROVE  purge'.days >= 1
    BY <2>2 DEF PurgeTenant, RowInv, AccountsTypeOK
  <2>3. CASE PurgeFails
    BY <2>3 DEF PurgeFails, AccountsTypeOK
  <2>4. ASSUME NEW r \in Req, NEW x, NEW y, NEW z,
               \/ Login(r, x, y) \/ Miss(r) \/ Hit(r) \/ Logout(r) \/ ChangePassword(r)
               \/ Authorise(r, x, y) \/ CheckCurrent(r, x, y) \/ SsoTenant(r, x, y) \/ SsoUser(r)
               \/ SsoUpdate(r) \/ SsoInsert(r, x)
        PROVE  purge' = purge
    BY <2>4 DEF Login, Miss, Hit, Logout, ChangePassword, Authorise, CheckCurrent, SsoTenant,
                SsoUser, SsoUpdate, SsoInsert
  <2>5. ASSUME NEW t, Archive(t) \/ Restore(t) \/ Tick \/ UNCHANGED accountsVars
        PROVE  purge' = purge
    BY <2>5 DEF Archive, Restore, Tick, accountsVars
  <2> QED
    BY <2>1, <2>2, <2>3, <2>4, <2>5 DEF AccountsNext, RowInv
<1> QED
  BY <1>1, <1>2, <1>3 DEF RowInv

(* No one gets ahead of the version of an account.                         *)
LEMMA VersionStep ==
  ASSUME AccountsTypeOK, RowInv, VersionInv, [AccountsNext]_accountsVars, AccountsTypeOK'
  PROVE  VersionInv'
<1> USE Bounds, Reading
<1>0. ASSUME NEW u \in User
      PROVE  acct'[u].tv \in Nat /\ acct'[u].id \in Nat
  BY DEF AccountsTypeOK, Account, Version
<1>1. ASSUME NEW u \in User, NEW id \in Nat, NEW tv \in Nat, id # 0,
             acct[u].id = id => tv <= acct[u].tv, Kept(u) \/ Gone(u)
      PROVE  acct'[u].id = id => tv <= acct'[u].tv
  <2>1. CASE Kept(u)
    BY <1>0, <1>1, <2>1 DEF Kept
  <2>2. CASE Gone(u)
    BY <1>1, <2>2 DEF Gone, NoAccount
  <2> QED
    BY <1>1, <2>1, <2>2
<1>2. ASSUME NEW k \in tokens'
      PROVE  acct'[k.user].id = k.id => k.tv <= acct'[k.user].tv
  <2>1. CASE k \in tokens
    <3>1. k.id \in Nat /\ k.tv \in Nat /\ (acct[k.user].id = k.id => k.tv <= acct[k.user].tv)
      BY <2>1 DEF VersionInv
    <3>2. CASE Made(k.user)
      BY <1>0, <2>1, <3>1, <3>2 DEF Made
    <3> QED
      BY <1>1, <2>1, <3>1, <3>2, AccountMoves
  <2>2. CASE SignedNew(k)
    BY <2>2 DEF SignedNew
  <2>3. ASSUME NEW r \in Req, SignedAsRead(k, r)
        PROVE  acct'[k.user].id = k.id => k.tv <= acct'[k.user].tv
    BY <2>3 DEF SignedAsRead, VersionInv
  <2> QED
    BY <2>1, <2>2, <2>3, TokenMoves
<1>3. ASSUME NEW r \in Req
      PROVE  acct'[reqs'[r].user].id = reqs'[r].row.id =>
               reqs'[r].row.tv <= acct'[reqs'[r].user].tv
  <2> DEFINE q == reqs'[r]
  <2>0. q.user \in User /\ q.row.id \in Nat /\ q.row.tv \in Nat
    BY DEF AccountsTypeOK, Request, Account, Version
  <2>1. CASE q.row.tv = 0
    BY <1>0, <2>0, <2>1
  <2>2. CASE q = reqs[r]
    <3>1. acct[q.user].id = q.row.id => q.row.tv <= acct[q.user].tv
      BY <2>2 DEF VersionInv
    <3>2. CASE q.row.id # 0
      <4>1. CASE Made(q.user)
        BY <1>0, <2>0, <2>2, <4>1 DEF Made
      <4> QED
        BY <1>1, <2>0, <3>1, <3>2, <4>1, AccountMoves
    <3>3. CASE q.row.id = 0
      BY <2>1, <2>2, <3>3 DEF RowInv
    <3> QED
      BY <3>2, <3>3
  <2>3. CASE Continues(r)
    <3>1. CASE ReadsAccount(q)
      BY <2>0, <2>3, <3>1 DEF Continues, ReadsAccount
    <3>2. CASE IsAuthorised(q)
      BY <2>1, <3>2 DEF IsAuthorised
    <3>3. CASE GoesOn(reqs[r], q)
      BY <2>1, <2>3, <3>3 DEF Continues, GoesOn, NoAccount, VersionInv
    <3> QED
      BY <2>3, <3>1, <3>2, <3>3 DEF Continues
  <2>4. CASE q = Idle
    BY <2>1, <2>4 DEF Idle, NoAccount
  <2> QED
    BY <2>2, <2>3, <2>4, RequestMoves
<1> QED
  BY <1>2, <1>3 DEF VersionInv

(* An accepted session has its password and its tenant, and so does every  *)
(* request that will open one.                                             *)
LEMMA SessionStep ==
  ASSUME AccountsTypeOK, RowInv, VersionInv, SessionInv, [AccountsNext]_accountsVars,
         AccountsTypeOK', VersionInv'
  PROVE  SessionInv'
<1> USE Bounds, Reading
<1>0. ASSUME NEW u \in User
      PROVE  acct'[u].tv \in Nat /\ acct'[u].id \in Nat
  BY DEF AccountsTypeOK, Account, Version
(* Whatever was known of the account is still known, if it is current.     *)
<1>1. ASSUME NEW u \in User, NEW id \in Nat, NEW tv \in Nat, id # 0,
             acct[u].id = id => tv <= acct[u].tv,
             Made(u) => acct'[u].id # id,
             acct'[u].id = id, acct'[u].tv = tv
      PROVE  /\ acct[u].id = id /\ acct[u].tv = tv /\ acct'[u].pw = acct[u].pw
             /\ acct'[u].tenant = acct[u].tenant
             /\ \A t \in Tenant : (acct[u].tenant = t /\ tenant[t].state = "active")
                                   => tenant'[t].state = "active"
  <2>1. Kept(u)
    BY <1>1, AccountMoves DEF Gone, NoAccount
  <2>2. acct[u].id = id /\ acct[u].tv = tv /\ acct'[u].tv = acct[u].tv
    BY <1>1, <2>1 DEF Kept
  <2> QED
    BY <2>1, <2>2 DEF Kept
<1>2. ASSUME NEW k \in tokens', Accepted(k)'
      PROVE  /\ acct'[k.user].tenant = k.tenant
             /\ k.by = "password" =>
                  acct'[k.user].pw = k.pw /\ tenant'[k.tenant].state = "active"
  <2>0. acct'[k.user].id = k.id /\ acct'[k.user].tv = k.tv
    BY <1>2 DEF Accepted
  <2>1. CASE k \in tokens
    <3>1. k.id \in Nat /\ k.tv \in Nat /\ (acct[k.user].id = k.id => k.tv <= acct[k.user].tv)
      BY <2>1 DEF VersionInv
    <3>2. Made(k.user) => acct'[k.user].id # k.id
      BY <2>1, <3>1, <1>0 DEF Made
    <3>3. /\ acct[k.user].id = k.id /\ acct[k.user].tv = k.tv
          /\ acct'[k.user].pw = acct[k.user].pw /\ acct'[k.user].tenant = acct[k.user].tenant
          /\ \A t \in Tenant : (acct[k.user].tenant = t /\ tenant[t].state = "active")
                                => tenant'[t].state = "active"
      BY <1>1, <2>0, <2>1, <3>1, <3>2
    <3>4. /\ acct[k.user].tenant = k.tenant
          /\ k.by = "password" => acct[k.user].pw = k.pw /\ tenant[k.tenant].state = "active"
      BY <2>1, <3>3 DEF SessionInv, PasswordSessions, SessionsInTenant, Accepted
    <3> QED
      BY <2>1, <3>3, <3>4
  <2>2. CASE SignedNew(k)
    BY <2>2 DEF SignedNew
  <2>3. ASSUME NEW r \in Req, SignedAsRead(k, r)
        PROVE  /\ acct'[k.user].tenant = k.tenant
               /\ k.by = "password" =>
                    acct'[k.user].pw = k.pw /\ tenant'[k.tenant].state = "active"
    <3>1. /\ reqs[r].at \in {"hit", "update"} /\ (k.by = "password" => reqs[r].at = "hit")
          /\ acct[reqs[r].user].id = reqs[r].row.id /\ acct[reqs[r].user].tv = reqs[r].row.tv
      BY <2>0, <2>3 DEF SignedAsRead
    <3>2. /\ acct[reqs[r].user].tenant = reqs[r].tenant
          /\ reqs[r].at = "hit" => /\ acct[reqs[r].user].pw = reqs[r].row.pw
                                   /\ tenant[reqs[r].tenant].state = "active"
      BY <3>1 DEF SessionInv
    <3> QED
      BY <2>3, <3>1, <3>2 DEF SignedAsRead
  <2> QED
    BY <2>1, <2>2, <2>3, TokenMoves
<1>3. ASSUME NEW r \in Req, reqs'[r].at \in {"hit", "update"},
             acct'[reqs'[r].user].id = reqs'[r].row.id, acct'[reqs'[r].user].tv = reqs'[r].row.tv
      PROVE  /\ acct'[reqs'[r].user].tenant = reqs'[r].tenant
             /\ reqs'[r].at = "hit" => /\ acct'[reqs'[r].user].pw = reqs'[r].row.pw
                                       /\ tenant'[reqs'[r].tenant].state = "active"
  <2> DEFINE q == reqs[r]
  <2>1. CASE reqs'[r] = q
    <3>1. q.row.id # 0 /\ q.row.id \in Nat /\ q.row.tv \in Nat
          /\ (acct[q.user].id = q.row.id => q.row.tv <= acct[q.user].tv) /\ q.tenant \in Tenant
      BY <1>3, <2>1 DEF RowInv, VersionInv
    <3>2. Made(q.user) => acct'[q.user].id # q.row.id
      BY <3>1, <1>0 DEF Made
    <3>3. /\ acct[q.user].id = q.row.id /\ acct[q.user].tv = q.row.tv
          /\ acct'[q.user].pw = acct[q.user].pw /\ acct'[q.user].tenant = acct[q.user].tenant
          /\ \A t \in Tenant : (acct[q.user].tenant = t /\ tenant[t].state = "active")
                                => tenant'[t].state = "active"
      BY <1>1, <1>3, <2>1, <3>1, <3>2
    <3>4. /\ acct[q.user].tenant = q.tenant
          /\ q.at = "hit" => acct[q.user].pw = q.row.pw /\ tenant[q.tenant].state = "active"
      BY <1>3, <2>1, <3>3 DEF SessionInv
    <3> QED
      BY <2>1, <3>1, <3>3, <3>4
  <2>2. CASE reqs'[r] = Idle
    BY <1>3, <2>2 DEF Idle
  <2>3. CASE Continues(r)
    <3>1. ReadsAccount(reqs'[r])
      BY <1>3, <2>3 DEF Continues, IsAuthorised, GoesOn
    <3> QED
      BY <2>3, <3>1 DEF Continues, ReadsAccount
  <2> QED
    BY <2>1, <2>2, <2>3, RequestMoves
<1> QED
  BY <1>2, <1>3 DEF SessionInv, PasswordSessions, SessionsInTenant

(* While an account is locked no attempts are added.                       *)
LEMMA PendingStep ==
  ASSUME AccountsTypeOK, RowInv, [AccountsNext]_accountsVars, NEW u \in User,
         acct[u].until > now
  PROVE  Pending(u)' \subseteq Pending(u)
<1> SUFFICES ASSUME NEW s \in Req, reqs'[s].at = "miss", reqs'[s].user = u
             PROVE  reqs[s].at = "miss" /\ reqs[s].user = u
  BY DEF Pending
<1>1. reqs'[s] # Idle
  BY DEF Idle
<1>2. ~Continues(s)
  BY DEF Continues, ReadsAccount, IsAuthorised, GoesOn, Locked
<1> QED
  BY <1>1, <1>2, RequestMoves

(* A step that leaves the counter and the lock of u alone.                 *)
LEMMA LockedAsBefore ==
  ASSUME AccountsTypeOK, RowInv, LockInv, [AccountsNext]_accountsVars, NEW u \in User,
         acct'[u].fails = acct[u].fails, acct'[u].until = acct[u].until,
         missed'[u] = missed[u], now' = now
  PROVE  LockAt(u)'
<1>1. LockAt(u) /\ acct[u].fails \in Nat /\ acct[u].until \in Int
  BY Reading DEF LockInv
<1>2. ASSUME acct[u].until > now
      PROVE  Cardinality(Pending(u)') <= Cardinality(Pending(u))
  <2>1. Pending(u)' \subseteq Pending(u)
    BY <1>2, PendingStep
  <2> QED
    BY <2>1, PendingBounded, FS_Subset
<1>3. Cardinality(Pending(u)) \in Nat
  BY PendingBounded
<1>4. Cardinality(Pending(u)') \in Nat
  BY FS_Subset, FS_CardinalityType, AccountsAssumption DEF Pending
<1> QED
  BY <1>1, <1>2, <1>3, <1>4, Bounds DEF LockAt

(* The counter and the failures stay tied, through locks that run out,     *)
(* accounts that end, and attempts that come in late.                      *)
LEMMA LockStep ==
  ASSUME AccountsTypeOK, RowInv, LockInv, [AccountsNext]_accountsVars, AccountsTypeOK'
  PROVE  LockInv'
<1> SUFFICES ASSUME NEW u \in User PROVE LockAt(u)'
  BY DEF LockInv
<1> USE Bounds, Reading
<1>0. LockAt(u)
  BY DEF LockInv
<1>1. ASSUME acct' = acct, missed' = missed, now' = now
      PROVE  LockAt(u)'
  BY <1>1, LockedAsBefore
<1>2. ASSUME acct'[u].fails = 0, acct'[u].until = Never, missed'[u] = 0
      PROVE  LockAt(u)'
  BY <1>2 DEF LockAt, AccountsTypeOK, Never
<1>3. ASSUME NEW r \in Req, Miss(r)
      PROVE  LockAt(u)'
  <2> DEFINE q == reqs[r]
             n == Counted(q)
             m == IF n >= MaxFailures THEN now + Lockout ELSE Never
  <2>1. CASE acct[q.user].id = q.row.id /\ u = q.user
    <3>1. acct' = [acct EXCEPT ![u].fails = n, ![u].until = m]
      BY <1>3, <2>1 DEF Miss
    <3>2. acct'[u] = [acct[u] EXCEPT !.fails = n, !.until = m]
      BY <3>1 DEF AccountsTypeOK
    <3>3. acct'[u].fails = n /\ acct'[u].until = m
      BY <3>2 DEF Account
    <3>4. missed'[u] = missed[u] + 1 /\ now' = now
      BY <1>3, <2>1 DEF Miss, AccountsTypeOK
    <3>5. n = IF acct[u].until # Never /\ acct[u].until <= now THEN 1 ELSE acct[u].fails + 1
      BY <2>1 DEF Counted
    <3>6. missed'[u] = n /\ n \in Nat
      BY <1>0, <3>4, <3>5 DEF LockAt
    <3>7. n + Cardinality(Pending(u)') < MaxFailures + Cardinality(Req)
      <4>1. r \in Pending(u)
        BY <1>3, <2>1 DEF Miss, Pending
      <4>2. Pending(u)' \subseteq Pending(u) \ {r}
        <5>1. reqs' = [reqs EXCEPT ![r] = Idle]
          BY <1>3 DEF Miss, Answer, Become
        <5> QED
          BY <5>1 DEF Pending, Idle, AccountsTypeOK
      <4>3. /\ IsFiniteSet(Pending(u) \ {r})
            /\ Cardinality(Pending(u) \ {r}) = Cardinality(Pending(u)) - 1
        BY <4>1, PendingBounded, FS_RemoveElement
      <4>4. /\ Cardinality(Pending(u)') <= Cardinality(Pending(u)) - 1
            /\ Cardinality(Pending(u)') \in Nat
        BY <4>2, <4>3, FS_Subset, FS_CardinalityType
      <4>5. Cardinality(Pending(u)) \in Nat /\ Cardinality(Pending(u)) <= Cardinality(Req)
        BY PendingBounded
      <4> QED
        BY <1>0, <3>5, <4>4, <4>5 DEF LockAt
    <3> QED
      BY <3>3, <3>4, <3>6, <3>7 DEF LockAt, Never
  <2>2. CASE acct[q.user].id = q.row.id /\ u # q.user
    <3>1. acct'[u] = acct[u] /\ missed'[u] = missed[u] /\ now' = now
      BY <1>3, <2>2 DEF Miss, AccountsTypeOK
    <3> QED
      BY <3>1, LockedAsBefore
  <2>3. CASE acct[q.user].id # q.row.id
    BY <1>1, <1>3, <2>3 DEF Miss
  <2> QED
    BY <2>1, <2>2, <2>3
<1>4. ASSUME NEW r \in Req, Hit(r)
      PROVE  LockAt(u)'
  <2> DEFINE q == reqs[r]
  <2>1. CASE acct[q.user].id = q.row.id /\ u = q.user
    <3>1. acct' = [acct EXCEPT ![u].fails = 0, ![u].until = Never]
      BY <1>4, <2>1 DEF Hit
    <3>2. acct'[u] = [acct[u] EXCEPT !.fails = 0, !.until = Never]
      BY <3>1 DEF AccountsTypeOK
    <3>3. acct'[u].fails = 0 /\ acct'[u].until = Never
      BY <3>2 DEF Account
    <3>4. missed'[u] = 0
      BY <1>4, <2>1 DEF Hit, AccountsTypeOK
    <3> QED
      BY <1>2, <3>3, <3>4
  <2>2. CASE acct[q.user].id = q.row.id /\ u # q.user
    <3>1. acct'[u] = acct[u] /\ missed'[u] = missed[u] /\ now' = now
      BY <1>4, <2>2 DEF Hit, AccountsTypeOK
    <3> QED
      BY <3>1, LockedAsBefore
  <2>3. CASE acct[q.user].id # q.row.id
    BY <1>1, <1>4, <2>3 DEF Hit
  <2> QED
    BY <2>1, <2>2, <2>3
<1>5. ASSUME NEW r \in Req, NEW pw, Bump(reqs[r], pw), missed' = missed, now' = now
      PROVE  LockAt(u)'
  <2>1. acct'[u].fails = acct[u].fails /\ acct'[u].until = acct[u].until
    BY <1>5 DEF Bump, Account, AccountsTypeOK
  <2> QED
    BY <1>5, <2>1, LockedAsBefore
<1>6. ASSUME NEW r \in Req, Logout(r) \/ ChangePassword(r)
      PROVE  LockAt(u)'
  BY <1>5, <1>6 DEF Logout, ChangePassword
<1>7. ASSUME NEW r \in Req, NEW id \in 1..MaxId, SsoInsert(r, id)
      PROVE  LockAt(u)'
  <2> DEFINE q == reqs[r]
             new == [NoAccount EXCEPT !.id = id, !.tenant = q.tenant]
  <2>1. new.fails = 0 /\ new.until = Never
    BY <1>7, NewAccount DEF SsoInsert, RowInv
  <2>2. CASE Exists(q.user) \/ u # q.user
    <3>1. acct'[u] = acct[u] /\ missed'[u] = missed[u] /\ now' = now
      BY <1>7, <2>2 DEF SsoInsert, AccountsTypeOK
    <3> QED
      BY <3>1, LockedAsBefore
  <2>3. CASE ~Exists(q.user) /\ u = q.user
    <3>1. acct'[u] = new /\ missed' = missed
      BY <1>7, <2>3 DEF SsoInsert, AccountsTypeOK
    <3>2. acct[u].fails = 0 /\ acct[u].until = Never
      BY <2>3 DEF Exists, RowInv, NoAccount
    <3>3. missed[u] = 0
      BY <1>0, <3>2 DEF LockAt
    <3> QED
      BY <1>2, <2>1, <3>1, <3>3
  <2> QED
    BY <2>2, <2>3
<1>8. ASSUME NEW t \in Tenant, Archive(t)
      PROVE  LockAt(u)'
  <2>1. acct'[u] = acct[u] \/ acct'[u] = [acct[u] EXCEPT !.tv = @ + 1]
    BY <1>8 DEF Archive
  <2>2. acct'[u].fails = acct[u].fails /\ acct'[u].until = acct[u].until
    BY <2>1 DEF Account
  <2> QED
    BY <1>8, <2>2, LockedAsBefore DEF Archive
<1>9. ASSUME NEW t \in Tenant, PurgeTenant(t)
      PROVE  LockAt(u)'
  <2>1. CASE StillDue(t) /\ acct[u].tenant = t
    <3>1. acct'[u] = NoAccount /\ missed'[u] = 0
      BY <1>9, <2>1 DEF PurgeTenant
    <3> QED
      BY <1>2, <3>1 DEF NoAccount
  <2>2. CASE StillDue(t) /\ acct[u].tenant # t
    <3>1. acct'[u] = acct[u] /\ missed'[u] = missed[u] /\ now' = now
      BY <1>9, <2>2 DEF PurgeTenant
    <3> QED
      BY <3>1, LockedAsBefore
  <2>3. CASE ~StillDue(t)
    BY <1>1, <1>9, <2>3 DEF PurgeTenant
  <2> QED
    BY <2>1, <2>2, <2>3
<1>10. CASE Tick
  <2>1. /\ acct' = acct /\ now' = now + 1 /\ reqs' = reqs
        /\ missed'[u] = IF acct[u].until > now /\ acct[u].until <= now + 1 THEN 0 ELSE missed[u]
    BY <1>10 DEF Tick, Locked
  <2>2. Pending(u)' = Pending(u)
    BY <2>1 DEF Pending
  <2> QED
    BY <1>0, <2>1, <2>2 DEF LockAt, Never
<1>11. ASSUME NEW r \in Req, NEW x, NEW y,
              \/ Login(r, x, y) \/ Authorise(r, x, y) \/ CheckCurrent(r, x, y)
              \/ SsoTenant(r, x, y) \/ SsoUser(r) \/ SsoUpdate(r)
       PROVE  LockAt(u)'
  BY <1>1, <1>11 DEF Login, Authorise, CheckCurrent, SsoTenant, SsoUser, SsoUpdate
<1>12. ASSUME NEW x, Restore(x) \/ SelectTargets(x) \/ PurgeFails \/ UNCHANGED accountsVars
       PROVE  LockAt(u)'
  BY <1>1, <1>12 DEF Restore, Restored, SelectTargets, PurgeFails, accountsVars
<1> QED
  BY <1>3, <1>4, <1>6, <1>7, <1>8, <1>9, <1>10, <1>11, <1>12 DEF AccountsNext

----------------------------------------------------------------------------

(* The invariant holds of the accounts, their requests and their tokens:   *)
(* nobody gets ahead of an account, and the lock keeps count.              *)
THEOREM AccountsInvariance == AccountsSpec => []AccountsIInv
<1>1. AccountsInit => AccountsIInv
  BY AccountsInitially
<1>2. AccountsIInv /\ [AccountsNext]_accountsVars => AccountsIInv'
  <2> SUFFICES ASSUME AccountsIInv, [AccountsNext]_accountsVars PROVE AccountsIInv'
    OBVIOUS
  <2>1. AccountsTypeOK'
    BY AccountsTypeStep DEF AccountsIInv
  <2>2. RowInv'
    BY RowStep DEF AccountsIInv
  <2>3. VersionInv'
    BY VersionStep, <2>1 DEF AccountsIInv
  <2>4. SessionInv'
    BY SessionStep, <2>1, <2>3 DEF AccountsIInv
  <2>5. LockInv'
    BY LockStep, <2>1 DEF AccountsIInv
  <2> QED
    BY <2>1, <2>2, <2>3, <2>4, <2>5 DEF AccountsIInv
<1> QED
  BY <1>1, <1>2, PTL DEF AccountsSpec

(* A session opened with a password is accepted only while that password   *)
(* is the account's and its tenant is active, and any session only while   *)
(* its account belongs to its tenant (auth.ts:380, tenants.ts:114,         *)
(* authOidc.ts:190-194), however requests and the operator interleave.     *)
THEOREM AccountsSafe == AccountsSpec => []AccountsInv
<1>1. AccountsIInv => AccountsInv
  BY DEF AccountsIInv, SessionInv, AccountsInv
<1> QED
  BY <1>1, AccountsInvariance, PTL

(* Guesses between two locks are bounded (auth.ts:181-184): the counter is *)
(* the failures, and the attempts under way at the lock are requests.      *)
THEOREM GuessesLimited == AccountsSpec => []GuessesBounded
<1>1. AccountsIInv => GuessesBounded
  <2> SUFFICES ASSUME AccountsIInv, NEW u \in User
               PROVE  missed[u] <= MaxFailures - 1 + Cardinality(Req)
    BY DEF GuessesBounded
  <2>1. LockAt(u) /\ acct[u].fails \in Nat /\ acct[u].until \in Int /\ now \in Nat
    BY Reading DEF AccountsIInv, LockInv
  <2>2. Cardinality(Pending(u)) \in Nat
    BY PendingBounded
  <2> QED
    BY <2>1, <2>2, Bounds DEF LockAt
<1> QED
  BY <1>1, AccountsInvariance, PTL

(* A session that was ended never opens again (tenants.ts:175): versions   *)
(* only grow, and an account made anew has an id no token knows.           *)
THEOREM SessionsStayEnded == AccountsSpec => RevokedForGood
<1>1. AccountsIInv /\ [AccountsNext]_accountsVars =>
        \A k \in tokens : ~Accepted(k) => ~Accepted(k)'
  <2> SUFFICES ASSUME AccountsIInv, [AccountsNext]_accountsVars, NEW k \in tokens, ~Accepted(k)
               PROVE  ~(acct'[k.user].id = k.id /\ acct'[k.user].tv = k.tv)
    BY DEF Accepted
  <2>1. /\ k.user \in User /\ k.id \in 1..MaxId /\ k.tv \in Nat /\ acct[k.user].tv \in Nat
        /\ acct[k.user].id = k.id => k.tv < acct[k.user].tv
    BY Reading DEF AccountsIInv, VersionInv, Accepted
  <2>2. AccountsTypeOK'
    BY AccountsTypeStep DEF AccountsIInv
  <2>3. acct'[k.user].tv \in Nat /\ acct'[k.user].id \in Nat
    BY <2>1, <2>2 DEF AccountsTypeOK, Account, Version
  <2>4. CASE Kept(k.user)
    BY <2>1, <2>3, <2>4 DEF Kept
  <2>5. CASE Gone(k.user)
    BY <2>1, <2>5 DEF Gone, NoAccount
  <2>6. CASE Made(k.user)
    BY <2>1, <2>3, <2>6 DEF Made
  <2> QED
    BY <2>1, <2>4, <2>5, <2>6, AccountMoves DEF AccountsIInv
<1> QED
  BY <1>1, AccountsInvariance, PTL DEF AccountsSpec, RevokedForGood

(* Only a tenant that has been archived for the whole retention is deleted *)
(* (tenants.ts:239-242, 272-274): its row is looked at again, and the      *)
(* retention of a purge under way is a day at least.                       *)
THEOREM PurgesAreDue == AccountsSpec => PurgedAfterRetention
<1>1. AccountsIInv /\ [AccountsNext]_accountsVars =>
        \A t \in Tenant : (tenant[t].state # "gone" /\ tenant'[t].state = "gone") =>
          tenant[t].state = "archived" /\ now - tenant[t].since > purge.days /\ purge.days >= 1
  <2> SUFFICES ASSUME AccountsIInv, [AccountsNext]_accountsVars, NEW t \in Tenant,
                      tenant[t].state # "gone", tenant'[t].state = "gone"
               PROVE  /\ tenant[t].state = "archived" /\ now - tenant[t].since > purge.days
                      /\ purge.days >= 1
    OBVIOUS
  <2>1. /\ tenant \in [Tenant -> [state : {"active", "archived", "gone"}, since : 0..MaxTime]]
        /\ now \in Nat /\ purge.days \in Nat /\ MaxTime \in Nat
    BY Bounds, Reading DEF AccountsIInv, AccountsTypeOK
  <2>2. ASSUME NEW s \in Tenant, PurgeTenant(s)
        PROVE  /\ tenant[t].state = "archived" /\ now - tenant[t].since > purge.days
               /\ purge.days >= 1
    <3>1. s = t /\ StillDue(t) /\ purge.todo # {}
      BY <2>1, <2>2 DEF PurgeTenant
    <3> QED
      BY <2>1, <3>1 DEF StillDue, Due, AccountsIInv, RowInv
  <2>3. ASSUME NEW s \in Tenant, Archive(s) \/ Restore(s)
        PROVE  FALSE
    BY <2>1, <2>3 DEF Archive, Restore
  <2>4. ASSUME NEW r \in Req, NEW x, NEW y, NEW z,
               \/ Login(r, x, y) \/ Miss(r) \/ Hit(r) \/ Logout(r) \/ ChangePassword(r)
               \/ Authorise(r, x, y) \/ CheckCurrent(r, x, y) \/ SsoTenant(r, x, y) \/ SsoUser(r)
               \/ SsoUpdate(r) \/ SsoInsert(r, x)
        PROVE  tenant' = tenant
    BY <2>4 DEF Login, Miss, Hit, Logout, ChangePassword, Authorise, CheckCurrent, SsoTenant,
                SsoUser, SsoUpdate, SsoInsert
  <2>5. ASSUME NEW x, SelectTargets(x) \/ PurgeFails \/ Tick \/ UNCHANGED accountsVars
        PROVE  tenant' = tenant
    BY <2>5 DEF SelectTargets, PurgeFails, Tick, accountsVars
  <2> QED
    BY <2>2, <2>3, <2>4, <2>5 DEF AccountsNext
<1> QED
  BY <1>1, AccountsInvariance, PTL DEF AccountsSpec, PurgedAfterRetention


----------------------------------------------------------------------------
(***************************************************************************)
(* The invariant of Connectors                                             *)
(***************************************************************************)

(* A connector in use has an owner, and a request under way has read all   *)
(* it is about to write.                                                   *)
OwnersInv ==
  /\ \A c \in Conn : Found(c) => conn[c].tenant \in Tenant
  /\ \A r \in Req : req[r].at # "idle" => req[r].tenant \in Tenant /\ req[r].bpn \in Bpn
  /\ \A r \in Req : req[r].at = "put" =>
       /\ req[r].id \in Conn /\ conn[req[r].id].state # "free"
       /\ Found(req[r].id) => conn[req[r].id].tenant = req[r].tenant

(* The requests that have counted the connectors of t and not inserted.    *)
Inserting(t) == {r \in Req : req[r].at = "insert" /\ req[r].tenant = t}

(* The bound holds as well if they are counted.                            *)
SlotsInv ==
  \A t \in Tenant :
    /\ IsFiniteSet(Of(t))
    /\ Cardinality(Of(t)) + Cardinality(Inserting(t)) < MaxConns + Cardinality(Req)

RegistryIInv == RegistryTypeOK /\ OwnersInv /\ BpnUnique /\ BpnFollowsTenant /\ SlotsInv

----------------------------------------------------------------------------

(* The requests that count at a time are not more than the requests.       *)
LEMMA InsertingBounded ==
  ASSUME NEW t
  PROVE  /\ IsFiniteSet(Inserting(t))
         /\ Cardinality(Inserting(t)) \in Nat /\ Cardinality(Req) \in Nat
         /\ Cardinality(Inserting(t)) <= Cardinality(Req)
BY FS_Subset, FS_CardinalityType, RegistryAssumption DEF Inserting

(* Initially there is no connector.                                        *)
LEMMA RegistryInitially == RegistryInit => RegistryIInv
<1> SUFFICES ASSUME RegistryInit PROVE RegistryIInv
  OBVIOUS
<1>1. RegistryTypeOK
  BY RegistryAssumption DEF RegistryInit, RegistryTypeOK, NoReq
<1>2. OwnersInv /\ BpnUnique /\ BpnFollowsTenant
  BY DEF RegistryInit, OwnersInv, BpnUnique, BpnFollowsTenant, Of, Found, NoReq
<1>3. ASSUME NEW t \in Tenant
      PROVE  Of(t) = {} /\ Inserting(t) = {}
  BY DEF RegistryInit, Of, Inserting, NoReq
<1>4. IsFiniteSet({}) /\ Cardinality({}) = 0 /\ Cardinality(Req) \in Nat
  BY FS_EmptySet, FS_CardinalityType, RegistryAssumption
<1>5. SlotsInv
  <2> SUFFICES ASSUME NEW t \in Tenant
               PROVE  /\ IsFiniteSet(Of(t))
                      /\ Cardinality(Of(t)) + Cardinality(Inserting(t))
                           < MaxConns + Cardinality(Req)
    BY DEF SlotsInv
  <2>1. Of(t) = {} /\ Inserting(t) = {}
    BY <1>3
  <2> QED
    BY <2>1, <1>4, RegistryAssumption
<1> QED
  BY <1>1, <1>2, <1>5 DEF RegistryIInv

(* Every step keeps the types and what the requests have read.             *)
LEMMA RegistryTypeStep ==
  ASSUME RegistryTypeOK, OwnersInv, [RegistryNext]_registryVars
  PROVE  RegistryTypeOK' /\ OwnersInv'
<1> USE RegistryAssumption DEF RegistryTypeOK, OwnersInv, Found
<1>1. ASSUME NEW r \in Req, NEW t \in Tenant, Register(r, t)
      PROVE  RegistryTypeOK' /\ OwnersInv'
  BY <1>1 DEF Register, Begin
<1>2. ASSUME NEW r \in Req, Count(r)
      PROVE  RegistryTypeOK' /\ OwnersInv'
  BY <1>2, SMTT(30) DEF Count, Done, NoReq
<1>3. ASSUME NEW r \in Req, NEW c \in Conn, Insert(r, c)
      PROVE  RegistryTypeOK' /\ OwnersInv'
  BY <1>3 DEF Insert, Written, Done, NoReq
<1>4. ASSUME NEW r \in Req, NEW t \in Tenant, NEW c \in Conn, Put(r, t, c)
      PROVE  RegistryTypeOK' /\ OwnersInv'
  BY <1>4 DEF Put, Begin, Of
<1>5. ASSUME NEW r \in Req, Update(r)
      PROVE  RegistryTypeOK' /\ OwnersInv'
  BY <1>5 DEF Update, Written, Done, NoReq
<1>6. ASSUME NEW t \in Tenant, NEW c \in Conn, Delete(t, c)
      PROVE  RegistryTypeOK' /\ OwnersInv'
  BY <1>6 DEF Delete, Of
<1>7. ASSUME NEW r \in Req, NEW t \in Tenant, NEW b \in Bpn, CheckBpn(r, t, b)
      PROVE  RegistryTypeOK' /\ OwnersInv'
  BY <1>7 DEF CheckBpn, Begin
<1>8. ASSUME NEW r \in Req, WriteBpn(r)
      PROVE  RegistryTypeOK' /\ OwnersInv'
  <2>1. CASE UNCHANGED <<bpn, conn, overtaken>>
    BY <1>8, <2>1 DEF WriteBpn, Done, NoReq
  <2>2. CASE conn' = Propagated(req[r].tenant, req[r].bpn)
    <3>1. \A c \in Conn : /\ conn'[c].state = conn[c].state
                          /\ conn'[c].tenant = conn[c].tenant
                          /\ conn'[c].bpn = None <=> conn[c].bpn = None
      BY <1>8, <2>2 DEF WriteBpn, Propagated, Of
    <3>2. conn' \in [Conn -> [state : {"free", "used", "deleted"}, tenant : Tenant \cup {None},
                              bpn : Bpn \cup {None}]]
      BY <1>8, <2>2 DEF WriteBpn, Propagated
    <3> QED
      BY <1>8, <3>1, <3>2 DEF WriteBpn, Propagated, Of, Done, NoReq
  <2> QED
    BY <1>8, <2>1, <2>2 DEF WriteBpn
<1>9. ASSUME UNCHANGED registryVars
      PROVE  RegistryTypeOK' /\ OwnersInv'
  BY <1>9 DEF registryVars
<1> QED
  BY <1>1, <1>2, <1>3, <1>4, <1>5, <1>6, <1>7, <1>8, <1>9 DEF RegistryNext

(* No step gives a tenant the BPN of another: the check before may be      *)
(* stale, the unique index is not.                                         *)
LEMMA BpnUniqueStep ==
  ASSUME RegistryTypeOK, OwnersInv, BpnUnique, [RegistryNext]_registryVars
  PROVE  BpnUnique'
<1>1. CASE \E r \in Req : WriteBpn(r)
  BY <1>1 DEF RegistryTypeOK, OwnersInv, BpnUnique, WriteBpn, UniqueViolation, Taken
<1>2. CASE UNCHANGED bpn
  BY <1>2 DEF BpnUnique
<1> QED
  BY <1>1, <1>2 DEF RegistryNext, registryVars, Register, Count, Insert, Put, Update,
                    Delete, CheckBpn

(* No step leaves a connector with another BPN than its tenant's, unless   *)
(* it is written with one read before.                                     *)
LEMMA BpnFollowsStep ==
  ASSUME RegistryTypeOK, OwnersInv, BpnFollowsTenant, [RegistryNext]_registryVars
  PROVE  BpnFollowsTenant'
<1> USE DEF BpnFollowsTenant, Of
<1>1. ASSUME NEW r \in Req, NEW c \in Conn, Written(c, r), UNCHANGED bpn
      PROVE  BpnFollowsTenant'
  BY <1>1 DEF RegistryTypeOK, Written
<1>2. ASSUME NEW t \in Tenant, NEW c \in Conn, Delete(t, c)
      PROVE  BpnFollowsTenant'
  BY <1>2 DEF RegistryTypeOK, Delete
<1>3. ASSUME NEW r \in Req, WriteBpn(r)
      PROVE  BpnFollowsTenant'
  BY <1>3 DEF RegistryTypeOK, OwnersInv, WriteBpn, Propagated
<1>4. CASE UNCHANGED <<bpn, conn, overtaken>>
  BY <1>4
<1> QED
  BY <1>1, <1>2, <1>3, <1>4
     DEF RegistryNext, registryVars, OwnersInv, Register, Count, Insert, Put, Update, CheckBpn

(* No step exceeds the bound, those counted that will insert.              *)
LEMMA SlotsStep ==
  ASSUME RegistryTypeOK, OwnersInv, SlotsInv, [RegistryNext]_registryVars
  PROVE  SlotsInv'
<1> SUFFICES ASSUME NEW t \in Tenant
             PROVE  /\ IsFiniteSet(Of(t)')
                    /\ Cardinality(Of(t)') + Cardinality(Inserting(t)')
                         < MaxConns + Cardinality(Req)
  BY DEF SlotsInv
<1> USE RegistryAssumption
<1>a. IsFiniteSet(Of(t)) /\ Cardinality(Of(t)) \in Nat
  BY FS_CardinalityType DEF SlotsInv
<1>b. Cardinality(Of(t)) + Cardinality(Inserting(t)) < MaxConns + Cardinality(Req)
  BY DEF SlotsInv
<1>c. /\ IsFiniteSet(Inserting(t)) /\ Cardinality(Inserting(t)) \in Nat
      /\ Cardinality(Req) \in Nat
  BY InsertingBounded
<1>d. ASSUME Of(t)' \subseteq Of(t), Inserting(t)' \subseteq Inserting(t)
      PROVE  /\ IsFiniteSet(Of(t)')
             /\ Cardinality(Of(t)') + Cardinality(Inserting(t)')
                  < MaxConns + Cardinality(Req)
  BY <1>a, <1>b, <1>c, <1>d, FS_Subset, FS_CardinalityType
<1>1. ASSUME NEW r \in Req, Count(r)
      PROVE  /\ IsFiniteSet(Of(t)')
             /\ Cardinality(Of(t)') + Cardinality(Inserting(t)')
                  < MaxConns + Cardinality(Req)
  <2>0. Of(t)' = Of(t)
    BY <1>1 DEF Count, Of
  <2>1. CASE req[r].tenant = t /\ ~AtLimit(t)
    <3>1. Cardinality(Of(t)) < MaxConns
      BY <2>1, <1>a DEF AtLimit
    <3>2. Inserting(t)' \subseteq Req
      BY DEF Inserting
    <3>3. Cardinality(Inserting(t)') \in Nat /\ Cardinality(Inserting(t)') <= Cardinality(Req)
      BY <3>2, FS_Subset, FS_CardinalityType
    <3> QED
      BY <2>0, <3>1, <3>3, <1>a, <1>c
  <2>2. CASE ~(req[r].tenant = t /\ ~AtLimit(t))
    <3>1. Inserting(t)' \subseteq Inserting(t)
      BY <1>1, <2>2 DEF Count, Inserting, Done, NoReq, RegistryTypeOK
    <3> QED
      BY <2>0, <3>1, <1>d
  <2> QED
    BY <2>1, <2>2
<1>2. ASSUME NEW r \in Req, NEW c \in Conn, Insert(r, c)
      PROVE  /\ IsFiniteSet(Of(t)')
             /\ Cardinality(Of(t)') + Cardinality(Inserting(t)')
                  < MaxConns + Cardinality(Req)
  <2>1. CASE req[r].tenant = t
    <3>1. Of(t)' = Of(t) \cup {c} /\ c \notin Of(t)
      BY <1>2, <2>1 DEF Insert, Written, Of, RegistryTypeOK
    <3>2. Inserting(t)' = Inserting(t) \ {r} /\ r \in Inserting(t)
      BY <1>2, <2>1 DEF Insert, Done, NoReq, Inserting, RegistryTypeOK
    <3>3. IsFiniteSet(Of(t)') /\ Cardinality(Of(t)') = Cardinality(Of(t)) + 1
      BY <3>1, <1>a, FS_AddElement
    <3>4. Cardinality(Inserting(t)') = Cardinality(Inserting(t)) - 1
      BY <3>2, <1>c, FS_RemoveElement, ZenonT(60)
    <3> QED
      BY <3>3, <3>4, <1>a, <1>b, <1>c
  <2>2. CASE req[r].tenant # t
    <3>1. Of(t)' \subseteq Of(t) /\ Inserting(t)' \subseteq Inserting(t)
      BY <1>2, <2>2 DEF Insert, Written, Of, Done, NoReq, Inserting, RegistryTypeOK
    <3> QED
      BY <3>1, <1>d
  <2> QED
    BY <2>1, <2>2
<1>3. CASE \/ \E r \in Req : Update(r) \/ WriteBpn(r)
           \/ \E r \in Req, u \in Tenant : Register(r, u) \/ \E b \in Bpn : CheckBpn(r, u, b)
           \/ \E r \in Req, u \in Tenant, c \in Conn : Put(r, u, c)
           \/ \E u \in Tenant, c \in Conn : Delete(u, c)
           \/ UNCHANGED registryVars
  <2>1. Inserting(t)' \subseteq Inserting(t)
    BY <1>3 DEF Update, WriteBpn, Register, CheckBpn, Put, Delete, registryVars, Begin,
                Done, NoReq, Inserting, RegistryTypeOK
  <2>2. Of(t)' \subseteq Of(t)
    <3>1. ASSUME NEW r \in Req, Update(r)
          PROVE  Of(t)' \subseteq Of(t)
      BY <3>1 DEF Update, Written, Found, Of, RegistryTypeOK, OwnersInv
    <3>2. ASSUME NEW r \in Req, WriteBpn(r)
          PROVE  Of(t)' \subseteq Of(t)
      BY <3>2 DEF WriteBpn, Propagated, Of, RegistryTypeOK
    <3>3. ASSUME NEW u \in Tenant, NEW c \in Conn, Delete(u, c)
          PROVE  Of(t)' \subseteq Of(t)
      BY <3>3 DEF Delete, Of, RegistryTypeOK
    <3>4. CASE UNCHANGED conn
      BY <3>4 DEF Of
    <3> QED
      BY <1>3, <3>1, <3>2, <3>3, <3>4 DEF Register, CheckBpn, Put, registryVars
  <2> QED
    BY <2>1, <2>2, <1>d
<1> QED
  BY <1>1, <1>2, <1>3 DEF RegistryNext

(* The inductive invariant holds in every state.                           *)
THEOREM RegistryInvariance == RegistrySpec => []RegistryIInv
<1>1. RegistryIInv /\ [RegistryNext]_registryVars => RegistryIInv'
  BY RegistryTypeStep, BpnUniqueStep, BpnFollowsStep, SlotsStep DEF RegistryIInv
<1> QED
  BY RegistryInitially, <1>1, PTL DEF RegistrySpec

(* The limit follows: those that will insert are not fewer than none.      *)
LEMMA LimitFollows ==
  ASSUME RegistryIInv
  PROVE  LimitBounded
<1> SUFFICES ASSUME NEW t \in Tenant
             PROVE  Cardinality(Of(t)) < MaxConns + Cardinality(Req)
  BY DEF LimitBounded
<1> QED
  BY InsertingBounded, FS_CardinalityType, RegistryAssumption DEF RegistryIInv, SlotsInv

(* BPNs are unique, connectors follow them except where a request wrote    *)
(* what it had read before a change, and a tenant's connectors exceed the  *)
(* limit at most by the requests that count at the same time               *)
(* (db.ts:789-791, connectors.ts:178-180, 275-276).                        *)
THEOREM RegistrySafe == RegistrySpec => []RegistryInv
<1>1. RegistryIInv => RegistryInv
  BY LimitFollows DEF RegistryIInv, RegistryInv
<1> QED
  BY RegistryInvariance, <1>1, PTL

----------------------------------------------------------------------------
(***************************************************************************)
(* Policies: least elements and induction                                  *)
(***************************************************************************)

(* A set of numbers that is not empty has a least element: the intervals   *)
(* up to its elements are finite sets, and one of them has none below it.  *)
LEMMA LeastElement ==
  ASSUME NEW T, T \subseteq Nat, T # {}
  PROVE  \E x \in T : \A y \in T : x <= y
<1> DEFINE UpTo == {0..n : n \in T}
<1>1. UpTo \subseteq FiniteSubsetsOf(Nat) /\ UpTo # {}
  <2>1. \A n \in T : 0..n \subseteq Nat /\ IsFiniteSet(0..n)
    BY FS_Interval
  <2> QED
    BY <2>1 DEF FiniteSubsetsOf
<1>2. PICK b \in UpTo : \A c \in UpTo : ~(<<c, b>> \in StrictSubsetOrdering(Nat))
  <2> HIDE DEF UpTo
  <2> QED
    BY <1>1, FS_StrictSubsetOrderingWellFounded, WFMin
<1>3. PICK x \in T : b = 0..x
  OBVIOUS
<1>4. ASSUME NEW y \in T, y < x
      PROVE  FALSE
  <2>1. 0..y \subseteq 0..x /\ x \notin 0..y /\ x \in 0..x
    BY <1>4
  <2>2. 0..y \in UpTo /\ 0..y \in SUBSET Nat /\ 0..x \in SUBSET Nat
    OBVIOUS
  <2>3. <<0..y, 0..x>> \in StrictSubsetOrdering(Nat)
    BY <2>1, <2>2 DEF StrictSubsetOrdering
  <2> QED
    BY <1>2, <1>3, <2>2, <2>3
<1> QED
  BY <1>4

(* Induction over the natural numbers, for a set in place of a predicate.  *)
LEMMA SetInduction ==
  ASSUME NEW S, 0 \in S, \A n \in Nat : n \in S => n + 1 \in S
  PROVE  Nat \subseteq S
<1> SUFFICES ASSUME ~(Nat \subseteq S) PROVE FALSE
  OBVIOUS
<1>1. PICK x \in Nat \ S : \A y \in Nat \ S : x <= y
  BY LeastElement
<1>2. x # 0 /\ x - 1 \in Nat /\ x - 1 \in S
  BY <1>1
<1> QED
  BY <1>1, <1>2

(* The first and the last of some positions are among them.                *)
LEMMA FirstAmong ==
  ASSUME NEW T, T \subseteq Nat, T # {}
  PROVE  First(T) \in T
BY LeastElement DEF First

LEMMA LastAmong ==
  ASSUME NEW n \in Nat, NEW T, T \subseteq 1..n, T # {}
  PROVE  Last(T) \in T
<1> DEFINE U == {n - i : i \in T}
<1>1. U \subseteq Nat /\ U # {}
  <2>1. \A i \in T : n - i \in Nat
    OBVIOUS
  <2> QED
    BY <2>1
<1>2. PICK u \in U : \A v \in U : u <= v
  <2> HIDE DEF U
  <2> QED
    BY <1>1, LeastElement
<1>3. PICK i \in T : u = n - i
  BY <1>2
<1>4. \A j \in T : i >= j
  <2> SUFFICES ASSUME NEW j \in T PROVE i >= j
    OBVIOUS
  <2>1. u <= n - j
    BY <1>2
  <2> QED
    BY <1>3, <2>1
<1> QED
  BY <1>4 DEF Last

----------------------------------------------------------------------------
(***************************************************************************)
(* Sequences of sequences, made one                                        *)
(***************************************************************************)

(* FlattenSeq adds one after the other, by a function that exists: one up  *)
(* to n gives one up to n + 1.                                             *)
LEMMA Flattening ==
  ASSUME NEW S, NEW seqs \in Seq(Seq(S)), seqs # <<>>
  PROVE  \E f : /\ f = [i \in 1..Len(seqs) |-> IF i = 1 THEN seqs[i] ELSE f[i - 1] \o seqs[i]]
                /\ Seqs!FlattenSeq(seqs) = f[Len(seqs)]
<1>0. Len(seqs) \in Nat /\ Len(seqs) # 0
  OBVIOUS
<1> DEFINE UpTo(f, n) == f = [i \in 1..n |-> IF i = 1 THEN seqs[i] ELSE f[i - 1] \o seqs[i]]
           N == {n \in Nat : \E f : UpTo(f, n)}
<1>1. 0 \in N
  <2> DEFINE f == [i \in 1..0 |-> <<>>]
  <2>1. UpTo(f, 0)
    OBVIOUS
  <2> QED
    BY <2>1
<1>2. ASSUME NEW n \in Nat, n \in N
      PROVE  n + 1 \in N
  <2>1. PICK f : UpTo(f, n)
    BY <1>2
  <2> DEFINE g == [i \in 1..(n + 1) |->
                     IF i = n + 1 THEN (IF i = 1 THEN seqs[i] ELSE f[i - 1] \o seqs[i]) ELSE f[i]]
  <2>2. ASSUME NEW i \in 1..(n + 1)
        PROVE  g[i] = IF i = 1 THEN seqs[i] ELSE g[i - 1] \o seqs[i]
    <3>1. CASE i = n + 1
      <4>1. i # 1 => i - 1 \in 1..(n + 1) /\ i - 1 # n + 1 /\ g[i - 1] = f[i - 1]
        BY <3>1
      <4> QED
        BY <3>1, <4>1
    <3>2. CASE i # n + 1
      <4>1. i \in 1..n /\ (i # 1 => i - 1 \in 1..(n + 1) /\ i - 1 # n + 1)
        BY <3>2
      <4>2. f[i] = IF i = 1 THEN seqs[i] ELSE f[i - 1] \o seqs[i]
        BY <2>1, <4>1
      <4>3. g[i] = f[i] /\ (i # 1 => g[i - 1] = f[i - 1])
        BY <3>2, <4>1
      <4> QED
        BY <4>2, <4>3
    <3> QED
      BY <3>1, <3>2
  <2>3. UpTo(g, n + 1)
    <3> DEFINE h == [i \in 1..(n + 1) |-> IF i = 1 THEN seqs[i] ELSE g[i - 1] \o seqs[i]]
    <3>1. \A i \in 1..(n + 1) : g[i] = h[i]
      BY <2>2
    <3> QED
      BY <3>1
  <2>4. \E h : UpTo(h, n + 1)
    <3> HIDE DEF g, UpTo
    <3> QED
      BY <2>3
  <2> HIDE DEF UpTo
  <2> QED
    BY <2>4
<1>3. Len(seqs) \in N
  <2> HIDE DEF N
  <2> QED
    BY <1>0, <1>1, <1>2, SetInduction
<1>4. \E f : f = [i \in 1..Len(seqs) |-> IF i = 1 THEN seqs[i] ELSE f[i - 1] \o seqs[i]]
  BY <1>3
<1> HIDE DEF UpTo, N
<1> QED
  BY <1>0, <1>4 DEF Seqs!FlattenSeq

(* What is made of sequences over S is one.                                *)
LEMMA FlattenType ==
  ASSUME NEW S, NEW seqs \in Seq(Seq(S))
  PROVE  Seqs!FlattenSeq(seqs) \in Seq(S)
<1>1. CASE seqs = <<>>
  BY <1>1 DEF Seqs!FlattenSeq
<1>2. CASE seqs # <<>>
  <2>1. PICK f : /\ f = [i \in 1..Len(seqs) |-> IF i = 1 THEN seqs[i] ELSE f[i - 1] \o seqs[i]]
                 /\ Seqs!FlattenSeq(seqs) = f[Len(seqs)]
    BY <1>2, Flattening
  <2> DEFINE N == {n \in Nat : n \in 1..Len(seqs) => f[n] \in Seq(S)}
  <2>2. 0 \in N
    OBVIOUS
  <2>3. ASSUME NEW n \in Nat, n \in N
        PROVE  n + 1 \in N
    <3> SUFFICES ASSUME n + 1 \in 1..Len(seqs) PROVE f[n + 1] \in Seq(S)
      OBVIOUS
    <3>1. seqs[n + 1] \in Seq(S)
      OBVIOUS
    <3>2. f[n + 1] = IF n + 1 = 1 THEN seqs[n + 1] ELSE f[n] \o seqs[n + 1]
      <4>1. \A i \in 1..Len(seqs) : f[i] = IF i = 1 THEN seqs[i] ELSE f[i - 1] \o seqs[i]
        BY <2>1
      <4>2. (n + 1) - 1 = n
        OBVIOUS
      <4> QED
        BY <4>1, <4>2
    <3>3. CASE n = 0
      BY <3>1, <3>2, <3>3
    <3>4. CASE n # 0
      <4>1. f[n] \in Seq(S)
        BY <2>3, <3>4
      <4> QED
        BY <3>1, <3>2, <3>4, <4>1
    <3> QED
      BY <3>3, <3>4
  <2>4. Len(seqs) \in N
    <3>1. Len(seqs) \in Nat
      OBVIOUS
    <3> HIDE DEF N
    <3> QED
      BY <2>2, <2>3, <3>1, SetInduction
  <2>5. Len(seqs) \in 1..Len(seqs)
    BY <1>2
  <2> QED
    BY <2>1, <2>4, <2>5
<1> QED
  BY <1>1, <1>2

(* One sequence is made of itself.                                         *)
LEMMA FlattenOne ==
  ASSUME NEW S, NEW s \in Seq(S)
  PROVE  Seqs!FlattenSeq(<<s>>) = s
<1>1. PICK f : /\ f = [i \in 1..Len(<<s>>) |-> IF i = 1 THEN <<s>>[i] ELSE f[i - 1] \o <<s>>[i]]
               /\ Seqs!FlattenSeq(<<s>>) = f[Len(<<s>>)]
  <2>1. <<s>> \in Seq(Seq(S)) /\ <<s>> # <<>>
    OBVIOUS
  <2> QED
    BY <2>1, Flattening
<1> QED
  BY <1>1

(* A sequence is made of its elements.                                     *)
LEMMA FlattenElements ==
  ASSUME NEW S, NEW s \in Seq(S)
  PROVE  Seqs!FlattenSeq([i \in DOMAIN s |-> <<s[i]>>]) = s
<1> DEFINE seqs == [i \in DOMAIN s |-> <<s[i]>>]
<1>1. seqs \in Seq(Seq(S)) /\ Len(seqs) = Len(s) /\ Len(s) \in Nat
  <2>1. Len(s) \in Nat /\ DOMAIN s = 1..Len(s)
    OBVIOUS
  <2>2. seqs \in [1..Len(s) -> Seq(S)]
    BY <2>1
  <2> HIDE DEF seqs
  <2> QED
    BY <2>1, <2>2
<1>2. CASE s = <<>>
  BY <1>2, <1>1 DEF Seqs!FlattenSeq
<1>3. CASE s # <<>>
  <2>0. seqs # <<>>
    BY <1>1, <1>3
  <2>1. PICK f : /\ f = [i \in 1..Len(seqs) |-> IF i = 1 THEN seqs[i] ELSE f[i - 1] \o seqs[i]]
                 /\ Seqs!FlattenSeq(seqs) = f[Len(seqs)]
    <3> HIDE DEF seqs
    <3> QED
      BY <1>1, <2>0, Flattening
  <2> DEFINE N == {n \in Nat : n \in 1..Len(s) => f[n] = SubSeq(s, 1, n)}
  <2>2. 0 \in N
    OBVIOUS
  <2>3. ASSUME NEW n \in Nat, n \in N
        PROVE  n + 1 \in N
    <3> SUFFICES ASSUME n + 1 \in 1..Len(s) PROVE f[n + 1] = SubSeq(s, 1, n + 1)
      OBVIOUS
    <3>1. f[n + 1] = IF n + 1 = 1 THEN <<s[n + 1]>> ELSE f[n] \o <<s[n + 1]>>
      <4>1. \A i \in 1..Len(s) : f[i] = IF i = 1 THEN seqs[i] ELSE f[i - 1] \o seqs[i]
        <5> HIDE DEF seqs
        <5> QED
          BY <1>1, <2>1
      <4>2. (n + 1) - 1 = n /\ seqs[n + 1] = <<s[n + 1]>>
        OBVIOUS
      <4> HIDE DEF seqs
      <4> QED
        BY <4>1, <4>2
    <3>2. CASE n = 0
      BY <3>1, <3>2
    <3>3. CASE n # 0
      <4>1. f[n] = SubSeq(s, 1, n)
        BY <2>3, <3>3
      <4>2. SubSeq(s, 1, n) \o <<s[n + 1]>> = SubSeq(s, 1, n + 1)
        OBVIOUS
      <4> QED
        BY <3>1, <3>3, <4>1, <4>2
    <3> QED
      BY <3>2, <3>3
  <2>4. Len(s) \in N
    <3> HIDE DEF N
    <3> QED
      BY <1>1, <2>2, <2>3, SetInduction
  <2>5. SubSeq(s, 1, Len(s)) = s /\ Len(s) \in 1..Len(s)
    BY <1>3
  <2> QED
    BY <1>1, <2>1, <2>4, <2>5
<1> QED
  BY <1>2, <1>3

----------------------------------------------------------------------------
(***************************************************************************)
(* The conversions of policies                                             *)
(***************************************************************************)

(* A definition has a first rule.                                          *)
LEMMA FirstRule ==
  ASSUME NEW p \in Definition, p # <<>>
  PROVE  /\ Len(p) \in Nat /\ DOMAIN p = 1..Len(p) /\ 1 \in DOMAIN p
         /\ \A i \in DOMAIN p : p[i] \in [type: RuleType, action: RuleAction, nodes: Seq(Node)]
<1> DEFINE R == [type: RuleType, action: RuleAction, nodes: Seq(Node)]
<1>1. p \in Seq(R)
  BY DEF Definition
<1> HIDE DEF R
<1>2. Len(p) \in Nat /\ DOMAIN p = 1..Len(p) /\ Len(p) # 0
  BY <1>1
<1>3. \A i \in DOMAIN p : p[i] \in R
  BY <1>1
<1> QED
  BY <1>2, <1>3 DEF R

(* What nodes are made of; those of a list are its constraints.            *)
LEMMA LeavesType ==
  ASSUME NEW nodes \in Seq(Node)
  PROVE  Leaves(nodes) \in Seq(Constraint)
<1>1. \A i \in DOMAIN nodes : nodes[i].of \in Seq(Constraint)
  BY DEF Node
<1>2. Len(nodes) \in Nat /\ DOMAIN nodes = 1..Len(nodes)
  OBVIOUS
<1>3. [i \in DOMAIN nodes |-> nodes[i].of] \in Seq(Seq(Constraint))
  BY <1>1, <1>2
<1> QED
  BY <1>3, FlattenType DEF Leaves

LEMMA LeavesOfOne ==
  ASSUME NEW nodes \in Seq(Node), Len(nodes) = 1
  PROVE  Leaves(nodes) = nodes[1].of
<1>1. nodes[1].of \in Seq(Constraint) /\ DOMAIN nodes = 1..1
  BY DEF Node
<1>2. [i \in DOMAIN nodes |-> nodes[i].of] = <<nodes[1].of>>
  BY <1>1
<1> QED
  BY <1>1, <1>2, FlattenOne DEF Leaves

LEMMA LeavesOfList ==
  ASSUME NEW nodes \in Seq(Node), \A i \in DOMAIN nodes : nodes[i].logic = Unset
  PROVE  /\ Len(Leaves(nodes)) = Len(nodes) /\ DOMAIN Leaves(nodes) = DOMAIN nodes
         /\ \A i \in DOMAIN nodes : nodes[i].of = <<Leaves(nodes)[i]>>
<1> DEFINE cons == [i \in DOMAIN nodes |-> nodes[i].of[1]]
<1>0. Len(nodes) \in Nat /\ DOMAIN nodes = 1..Len(nodes)
  OBVIOUS
<1>1. \A i \in DOMAIN nodes : /\ nodes[i].of \in Seq(Constraint) /\ Len(nodes[i].of) = 1
  BY DEF Node
<1>2. \A i \in DOMAIN nodes : nodes[i].of[1] \in Constraint /\ nodes[i].of = <<nodes[i].of[1]>>
  BY <1>1
<1>3. cons \in Seq(Constraint) /\ DOMAIN cons = DOMAIN nodes /\ Len(cons) = Len(nodes)
  BY <1>0, <1>2
<1>4. [i \in DOMAIN cons |-> <<cons[i]>>] = [i \in DOMAIN nodes |-> nodes[i].of]
  BY <1>2
<1>5. Leaves(nodes) = cons
  <2>1. Seqs!FlattenSeq([i \in DOMAIN cons |-> <<cons[i]>>]) = cons
    <3> HIDE DEF cons
    <3> QED
      BY <1>3, FlattenElements
  <2> QED
    BY <2>1, <1>4 DEF Leaves
<1> QED
  BY <1>2, <1>3, <1>5

(* Each operand has operators, and one that is reconciled is one of them.  *)
LEMMA OperatorsType ==
  ASSUME NEW l \in Operand \cup {Unset}
  PROVE  /\ Seqs!ToSet(Operators(l)) \subseteq Operator
         /\ Operators(l)[1] \in Seqs!ToSet(Operators(l))
<1>1. CASE l = Unset
  BY <1>1 DEF Operators, Operator, Seqs!ToSet
<1>2. CASE l # Unset
  <2>1. OperandKind[l] \in {"eqOnly", "anyOfOnly", "bpn", "count"}
    BY <1>2, PolicyAssumption
  <2>2. CASE OperandKind[l] = "eqOnly"
    BY <1>2, <2>2 DEF Operators, Operator, Seqs!ToSet
  <2>3. CASE OperandKind[l] = "anyOfOnly"
    BY <1>2, <2>3 DEF Operators, Operator, Seqs!ToSet
  <2>4. CASE OperandKind[l] = "bpn"
    <3>1. Operators(l) = <<"eq", "neq", "isAnyOf", "isNoneOf">>
      BY <1>2, <2>4 DEF Operators
    <3> QED
      BY <3>1 DEF Operator, Seqs!ToSet
  <2>5. CASE OperandKind[l] = "count"
    <3>1. Operators(l) = <<"eq", "neq", "lt", "gteq">>
      BY <1>2, <2>5 DEF Operators
    <3> QED
      BY <3>1 DEF Operator, Seqs!ToSet
  <2> QED
    BY <2>1, <2>2, <2>3, <2>4, <2>5
<1> QED
  BY <1>1, <1>2

LEMMA ReconciledType ==
  ASSUME NEW l \in Operand \cup {Unset}, NEW op
  PROVE  /\ Reconciled(l, op) \in Seqs!ToSet(Operators(l)) /\ Reconciled(l, op) \in Operator
         /\ op \in Seqs!ToSet(Operators(l)) => Reconciled(l, op) = op
BY OperatorsType DEF Reconciled

(* Rows whose operators are those of their operands.                       *)
Known(rows) == \A i \in DOMAIN rows : rows[i].op \in Seqs!ToSet(Operators(rows[i].left.name))

LEMMA ReconcileType ==
  ASSUME NEW rows \in Seq(Row)
  PROVE  /\ Reconcile(rows) \in Seq(Row) /\ Known(Reconcile(rows))
         /\ Known(rows) => Reconcile(rows) = rows
<1>0. Len(rows) \in Nat /\ DOMAIN rows = 1..Len(rows)
  OBVIOUS
<1>1. ASSUME NEW i \in DOMAIN rows
      PROVE  /\ Reconcile(rows)[i] \in Row
             /\ Reconcile(rows)[i].op \in Seqs!ToSet(Operators(Reconcile(rows)[i].left.name))
             /\ rows[i].op \in Seqs!ToSet(Operators(rows[i].left.name))
                  => Reconcile(rows)[i] = rows[i]
  <2>1. rows[i] \in Row /\ rows[i].left.name \in Operand \cup {Unset}
    <3>1. rows[i] \in Row
      OBVIOUS
    <3> QED
      BY <3>1 DEF Row
  <2>2. Reconcile(rows)[i] = [rows[i] EXCEPT !.op = Reconciled(rows[i].left.name, rows[i].op)]
    BY DEF Reconcile
  <2>3. /\ Reconciled(rows[i].left.name, rows[i].op) \in Operator
        /\ Reconciled(rows[i].left.name, rows[i].op) \in Seqs!ToSet(Operators(rows[i].left.name))
        /\ rows[i].op \in Seqs!ToSet(Operators(rows[i].left.name))
             => Reconciled(rows[i].left.name, rows[i].op) = rows[i].op
    BY <2>1, ReconciledType
  <2>4. /\ Reconcile(rows)[i].left = rows[i].left
        /\ Reconcile(rows)[i].op = Reconciled(rows[i].left.name, rows[i].op)
        /\ Reconcile(rows)[i] \in Row
    BY <2>1, <2>2, <2>3 DEF Row
  <2>5. [rows[i] EXCEPT !.op = rows[i].op] = rows[i]
    BY <2>1 DEF Row
  <2> QED
    BY <2>2, <2>3, <2>4, <2>5
<1>2. DOMAIN Reconcile(rows) = DOMAIN rows
  BY DEF Reconcile
<1>3. Reconcile(rows) \in [1..Len(rows) -> Row]
  <2>1. Reconcile(rows) = [i \in DOMAIN rows |-> Reconcile(rows)[i]]
    BY DEF Reconcile
  <2> QED
    BY <1>0, <1>1, <2>1
<1>4. ASSUME Known(rows)
      PROVE  Reconcile(rows) = rows
  <2>1. \A i \in DOMAIN rows : Reconcile(rows)[i] = rows[i]
    BY <1>1, <1>4 DEF Known
  <2>2. Reconcile(rows) = [i \in DOMAIN rows |-> Reconcile(rows)[i]]
    BY DEF Reconcile
  <2> QED
    BY <2>1, <2>2
<1> QED
  BY <1>0, <1>1, <1>2, <1>3, <1>4 DEF Known

(* The logic that is found is one.                                         *)
LEMMA LogicType ==
  ASSUME NEW nodes \in Seq(Node)
  PROVE  /\ DetectedLogic(nodes) \in Logic
         /\ Reached(nodes) # {} => nodes[Last(Reached(nodes))].logic \in Logic
<1>1. Groups(nodes) \subseteq 1..Len(nodes) /\ Len(nodes) \in Nat
  BY DEF Groups
<1>2. \A i \in Groups(nodes) : nodes[i].logic \in Logic
  BY DEF Groups, Node
<1>3. Groups(nodes) # {} => First(Groups(nodes)) \in Groups(nodes)
  BY <1>1, FirstAmong
<1>4. Reached(nodes) # {} => Last(Reached(nodes)) \in Groups(nodes)
  <2>1. Reached(nodes) \subseteq Groups(nodes)
    BY DEF Reached
  <2> QED
    BY <1>1, <2>1, LastAmong
<1> QED
  BY <1>2, <1>3, <1>4 DEF DetectedLogic, Logic

(* What is read from a definition.                                         *)
Content == [type: RuleType, action: RuleAction, logic: Logic, rows: Seq(Row)]

LEMMA FlattenedType ==
  ASSUME NEW nodes \in Seq(Node)
  PROVE  Flattened(nodes) \in Seq(Row)
<1>1. Leaves(nodes) \in Seq(Constraint)
  BY LeavesType
<1>2. \A i \in DOMAIN Leaves(nodes) :
        [left |-> Compact(Leaves(nodes)[i].left), op |-> Leaves(nodes)[i].op,
         right |-> Leaves(nodes)[i].right] \in Row
  <2> SUFFICES ASSUME NEW i \in DOMAIN Leaves(nodes)
               PROVE  [left |-> Compact(Leaves(nodes)[i].left), op |-> Leaves(nodes)[i].op,
                       right |-> Leaves(nodes)[i].right] \in Row
    OBVIOUS
  <2>1. Leaves(nodes)[i] \in Constraint
    BY <1>1
  <2> QED
    BY <2>1 DEF Constraint, Row, Compact
<1>3. DOMAIN Leaves(nodes) = 1..Len(Leaves(nodes)) /\ Len(Leaves(nodes)) \in Nat
  BY <1>1
<1>4. Flattened(nodes) \in [1..Len(Leaves(nodes)) -> Row]
  BY <1>2, <1>3 DEF Flattened
<1> QED
  BY <1>3, <1>4

LEMMA MappedType ==
  ASSUME NEW p \in Definition, p # <<>>
  PROVE  Mapped(p) \in Content
<1>0. Len(p) \in Nat /\ DOMAIN p = 1..Len(p) /\ 1 \in DOMAIN p
  BY FirstRule
<1>1. \A i \in DOMAIN p : p[i] \in [type: RuleType, action: RuleAction, nodes: Seq(Node)]
  BY FirstRule
<1>2. [i \in DOMAIN p |-> Flattened(p[i].nodes)] \in Seq(Seq(Row))
  BY <1>0, <1>1, FlattenedType
<1>3. Seqs!FlattenSeq([i \in DOMAIN p |-> Flattened(p[i].nodes)]) \in Seq(Row)
  BY <1>2, FlattenType
<1> DEFINE several == {i \in DOMAIN p : Len(Leaves(p[i].nodes)) > 1}
           main == IF several = {} THEN p[1] ELSE p[First(several)]
<1>4. main.nodes \in Seq(Node)
  <2>1. several \subseteq Nat /\ several \subseteq DOMAIN p
    BY <1>0
  <2>2. several # {} => First(several) \in several
    <3> HIDE DEF several
    <3> QED
      BY <2>1, FirstAmong
  <2> QED
    BY <1>0, <1>1, <2>1, <2>2
<1>5. DetectedLogic(main.nodes) \in Logic
  <2> HIDE DEF main
  <2> QED
    BY <1>4, LogicType
<1> QED
  BY <1>0, <1>1, <1>3, <1>5 DEF Mapped, Content

(* The constraints that are imported are the first ones.                   *)
LEMMA FirstTaken ==
  ASSUME NEW S, NEW s \in Seq(S)
  PROVE  \E n \in Nat : {i \in DOMAIN s : i <= MaxImported} = 1..n
<1>1. Len(s) \in Nat /\ DOMAIN s = 1..Len(s) /\ MaxImported \in Nat
  BY PolicyAssumption
<1>2. CASE Len(s) <= MaxImported
  <2>1. {i \in DOMAIN s : i <= MaxImported} = 1..Len(s)
    BY <1>1, <1>2
  <2> QED
    BY <1>1, <2>1
<1>3. CASE ~(Len(s) <= MaxImported)
  <2>1. {i \in DOMAIN s : i <= MaxImported} = 1..MaxImported
    BY <1>1, <1>3
  <2> QED
    BY <1>1, <1>3, <2>1
<1> QED
  BY <1>2, <1>3

LEMMA ImportedType ==
  ASSUME NEW p \in Definition, p # <<>>
  PROVE  Imported(p) \in Content /\ Known(Imported(p).rows)
<1>0. Len(p) \in Nat /\ DOMAIN p = 1..Len(p) /\ 1 \in DOMAIN p
  BY FirstRule
<1>1. \A i \in DOMAIN p : p[i] \in [type: RuleType, action: RuleAction, nodes: Seq(Node)]
  BY FirstRule
<1> DEFINE those == [i \in DOMAIN p |-> IF p[i].type = p[1].type THEN p[i].nodes ELSE <<>>]
           nodes == Seqs!FlattenSeq(those)
           cons == Leaves(nodes)
           taken == {i \in DOMAIN cons : i <= MaxImported}
           rows == [i \in taken |-> [left |-> cons[i].left, op |-> cons[i].op,
                                     right |-> cons[i].right]]
<1>2. nodes \in Seq(Node)
  <2>1. \A i \in DOMAIN p : those[i] \in Seq(Node)
    BY <1>1
  <2>2. those \in Seq(Seq(Node))
    BY <1>0, <2>1
  <2> HIDE DEF those
  <2> QED
    BY <2>2, FlattenType
<1>3. Reached(nodes) # {} => nodes[Last(Reached(nodes))].logic \in Logic
  <2> HIDE DEF nodes
  <2> QED
    BY <1>2, LogicType
<1>4. cons \in Seq(Constraint)
  <2> HIDE DEF nodes
  <2> QED
    BY <1>2, LeavesType
<1>5. rows \in Seq(Row)
  <2> HIDE DEF cons
  <2>1. \A i \in DOMAIN cons : cons[i] \in Constraint
    BY <1>4
  <2>2. \A i \in taken : rows[i] \in Row
    BY <2>1 DEF Constraint, Row
  <2>3. PICK n \in Nat : taken = 1..n
    BY <1>4, FirstTaken
  <2> HIDE DEF taken
  <2> QED
    BY <2>2, <2>3
<1>6. Reconcile(rows) \in Seq(Row) /\ Known(Reconcile(rows))
  <2> HIDE DEF rows
  <2> QED
    BY <1>5, ReconcileType
<1>7. Imported(p) = [type |-> p[1].type, action |-> p[1].action,
                     logic |-> IF Reached(nodes) = {} THEN "and" ELSE nodes[Last(Reached(nodes))].logic,
                     rows |-> Reconcile(rows)]
  BY DEF Imported
<1> HIDE DEF nodes, rows
<1>8. (IF Reached(nodes) = {} THEN "and" ELSE nodes[Last(Reached(nodes))].logic) \in Logic
  BY <1>3 DEF Logic
<1>9. p[1].type \in RuleType /\ p[1].action \in RuleAction
  BY <1>0, <1>1
<1> QED
  BY <1>6, <1>7, <1>8, <1>9 DEF Content

----------------------------------------------------------------------------
(***************************************************************************)
(* The invariant of PolicyForms                                            *)
(***************************************************************************)

(* A form that nobody has changed is what was read from its policy.        *)
OpenedInv ==
  (form # Unset /\ form.from # Unset) =>
    /\ form.from # <<>>
    /\ form.type = Mapped(form.from).type /\ form.action = Mapped(form.from).action
    /\ form.logic = Mapped(form.from).logic
    /\ form.rows = Reconcile(Mapped(form.from).rows)

PolicyIInv == PolicyTypeOK /\ OpenedInv

(* A constraint that is saved is one, if its operand is set.               *)
LEMMA SerialisedType ==
  ASSUME NEW row \in Row, row.left.name # Unset
  PROVE  Serialised(row) \in Constraint
BY DEF Row, Constraint, Serialised, Canonical, MultiValue

LEMMA GroupedType ==
  ASSUME NEW logic \in Logic \cup {Unset}, NEW cons \in Seq(Constraint)
  PROVE  Grouped(logic, cons) \in Seq(Node)
<1>1. CASE Len(cons) > 1 /\ logic # Unset
  <2>1. [logic |-> logic, of |-> cons] \in Node
    BY <1>1 DEF Node
  <2> QED
    BY <1>1, <2>1 DEF Grouped
<1>2. CASE ~(Len(cons) > 1 /\ logic # Unset)
  <2>1. \A i \in DOMAIN cons : [logic |-> Unset, of |-> <<cons[i]>>] \in Node
    BY DEF Node
  <2>2. DOMAIN cons = 1..Len(cons) /\ Len(cons) \in Nat
    OBVIOUS
  <2>3. [i \in DOMAIN cons |-> [logic |-> Unset, of |-> <<cons[i]>>]] \in Seq(Node)
    BY <2>1, <2>2
  <2> QED
    BY <1>2, <2>3 DEF Grouped
<1> QED
  BY <1>1, <1>2

(* The constraints of a form that is valid.                                *)
LEMMA ConstraintsType ==
  ASSUME NEW f \in Form, Valid(f)
  PROVE  /\ [i \in DOMAIN f.rows |-> Serialised(f.rows[i])] \in Seq(Constraint)
         /\ Len([i \in DOMAIN f.rows |-> Serialised(f.rows[i])]) = Len(f.rows)
         /\ Len(f.rows) \in Nat /\ DOMAIN f.rows = 1..Len(f.rows)
<1>1. f.rows \in Seq(Row)
  BY DEF Form
<1>2. Len(f.rows) \in Nat /\ DOMAIN f.rows = 1..Len(f.rows)
  BY <1>1
<1>3. \A i \in DOMAIN f.rows : Serialised(f.rows[i]) \in Constraint
  <2>1. \A i \in DOMAIN f.rows : f.rows[i] \in Row /\ f.rows[i].left.name # Unset
    BY <1>1 DEF Valid
  <2> QED
    BY <2>1, SerialisedType
<1>4. [i \in DOMAIN f.rows |-> Serialised(f.rows[i])] \in [1..Len(f.rows) -> Constraint]
  BY <1>2, <1>3
<1> QED
  BY <1>2, <1>4

LEMMA BuiltType ==
  ASSUME NEW f \in Form, Valid(f)
  PROVE  Built(f) \in Definition /\ Built(f) # <<>>
<1> DEFINE cons == [i \in DOMAIN f.rows |-> Serialised(f.rows[i])]
           logicOp == IF Len(f.rows) > 1 THEN f.logic ELSE Unset
<1>1. cons \in Seq(Constraint)
  BY ConstraintsType
<1>2. logicOp \in Logic \cup {Unset} /\ f.type \in RuleType /\ f.action \in RuleAction
  BY DEF Form
<1>3. Grouped(logicOp, cons) \in Seq(Node)
  <2> HIDE DEF cons, logicOp
  <2> QED
    BY <1>1, <1>2, GroupedType
<1>4. Built(f) = <<[type |-> f.type, action |-> f.action, nodes |-> Grouped(logicOp, cons)]>>
  BY DEF Built
<1> HIDE DEF cons, logicOp
<1> DEFINE rule == [type |-> f.type, action |-> f.action, nodes |-> Grouped(logicOp, cons)]
<1>5. rule \in [type: RuleType, action: RuleAction, nodes: Seq(Node)]
  BY <1>2, <1>3
<1> HIDE DEF rule
<1>6. Built(f) = <<rule>>
  BY <1>4 DEF rule
<1> QED
  BY <1>5, <1>6 DEF Definition

LEMMA PoliciesInitially == PolicyInit => PolicyIInv
BY PolicyAssumption DEF PolicyInit, PolicyIInv, PolicyTypeOK, OpenedInv

(* The texts one can type.                                                 *)
LEMMA TextType == Text \subseteq Seq(Term)
<1>1. \A v \in Term : <<v>> \in Seq(Term)
  OBVIOUS
<1>2. ASSUME NEW t \in Term \X Word
      PROVE  t \in Seq(Term)
  <2>1. t = <<t[1], t[2]>> /\ t[1] \in Term /\ t[2] \in Term
    <3>1. Word \subseteq Term
      BY PolicyAssumption
    <3> QED
      BY <3>1
  <2>2. <<t[1], t[2]>> \in Seq(Term)
    BY <2>1
  <2> QED
    BY <2>1, <2>2
<1> QED
  BY <1>1, <1>2 DEF Text

(* A change to a form that is still one keeps the invariant: it is no      *)
(* longer what was opened.                                                 *)
LEMMA ChangeStep ==
  ASSUME PolicyIInv, NEW f \in Form, Known(f.rows), Change(f)
  PROVE  PolicyIInv'
<1>1. form' \in Form /\ form'.rows = f.rows /\ form'.from = Unset
  BY DEF Change, Form
<1>2. edits' \in 0..MaxEdits
  BY PolicyAssumption DEF Change, PolicyIInv, PolicyTypeOK
<1> QED
  BY <1>1, <1>2 DEF Change, PolicyIInv, PolicyTypeOK, OpenedInv, Known

LEMMA ChangeRowStep ==
  ASSUME PolicyIInv, form # Unset, NEW i \in DOMAIN form.rows, NEW row \in Row,
         row.op \in Seqs!ToSet(Operators(row.left.name)), ChangeRow(i, row)
  PROVE  PolicyIInv'
<1> DEFINE f == [form EXCEPT !.rows[i] = row]
<1>1. form \in Form /\ form.rows \in Seq(Row) /\ Known(form.rows)
  BY DEF PolicyIInv, PolicyTypeOK, Known, Form
<1>2. [form.rows EXCEPT ![i] = row] \in Seq(Row) /\ Known([form.rows EXCEPT ![i] = row])
  BY <1>1 DEF Known
<1>3. f \in Form /\ f.rows = [form.rows EXCEPT ![i] = row]
  BY <1>1, <1>2 DEF Form
<1>4. Change(f)
  BY DEF ChangeRow
<1> HIDE DEF f
<1> QED
  BY <1>2, <1>3, <1>4, ChangeStep

(* Opening a form of some content.                                         *)
LEMMA OpenStep ==
  ASSUME PolicyIInv, NEW content \in Content, NEW from \in Definition \cup {Unset},
         from # Unset => from # <<>> /\ content = Mapped(from), Open(content, from)
  PROVE  PolicyIInv'
<1>1. Reconcile(content.rows) \in Seq(Row) /\ Known(Reconcile(content.rows))
  BY ReconcileType DEF Content
<1>2. form' \in Form /\ form'.rows = Reconcile(content.rows)
  BY <1>1 DEF Open, Form, Content
<1>3. form'.from = from /\ form'.type = content.type /\ form'.action = content.action
      /\ form'.logic = content.logic
  BY DEF Open
<1>4. opens' \in 0..MaxOpens
  BY PolicyAssumption DEF Open, PolicyIInv, PolicyTypeOK
<1> QED
  BY <1>1, <1>2, <1>3, <1>4 DEF Open, PolicyIInv, PolicyTypeOK, OpenedInv, Known

LEMMA PoliciesStep == PolicyIInv /\ [PolicyNext]_policyVars => PolicyIInv'
<1> SUFFICES ASSUME PolicyIInv, [PolicyNext]_policyVars PROVE PolicyIInv'
  OBVIOUS
<1>0. form # Unset => /\ form \in Form /\ form.rows \in Seq(Row) /\ Known(form.rows)
                      /\ Len(form.rows) \in Nat /\ DOMAIN form.rows = 1..Len(form.rows)
  <2>1. form # Unset => form \in Form /\ Known(form.rows)
    BY DEF PolicyIInv, PolicyTypeOK, Known
  <2>2. form # Unset => form.rows \in Seq(Row)
    BY <2>1 DEF Form
  <2> QED
    BY <2>1, <2>2
<1>1. ASSUME NEW p \in Foreign, Find(p)
      PROVE  PolicyIInv'
  BY <1>1, PolicyAssumption DEF Find, PolicyIInv, PolicyTypeOK, OpenedInv
<1>2. CASE OpenNew
  <2> DEFINE content == [type |-> "permission", action |-> "use", logic |-> "and",
                         rows |-> <<Blank>>]
  <2>1. <<Blank>> \in Seq(Row)
    BY DEF Blank, Row, Operator
  <2>2. content \in Content
    BY <2>1 DEF Content, RuleType, RuleAction, Logic
  <2>3. Open(content, Unset)
    BY <1>2 DEF OpenNew
  <2> HIDE DEF content
  <2> QED
    BY <2>2, <2>3, OpenStep
<1>3. CASE OpenEdit
  <2>1. policy \in Definition /\ policy # <<>> /\ Open(Mapped(policy), policy)
    BY <1>3 DEF OpenEdit, PolicyIInv, PolicyTypeOK
  <2> QED
    BY <2>1, MappedType, OpenStep
<1>4. CASE Save
  <2>1. form \in Form /\ Valid(form)
    BY <1>0, <1>4 DEF Save
  <2> QED
    BY <1>4, <2>1, BuiltType DEF Save, PolicyIInv, PolicyTypeOK, OpenedInv
<1>5. CASE Cancel
  BY <1>5 DEF Cancel, PolicyIInv, PolicyTypeOK, OpenedInv
<1>6. ASSUME NEW p \in Foreign, Import(p)
      PROVE  PolicyIInv'
  <2> DEFINE new == Imported(p)
             f == [form EXCEPT !.type = new.type, !.action = new.action, !.logic = new.logic,
                               !.rows = new.rows]
  <2>1. new \in Content /\ Known(new.rows)
    BY PolicyAssumption, ImportedType
  <2>2. form # Unset /\ Change(f)
    BY <1>6 DEF Import, Change
  <2>3. f \in Form /\ f.rows = new.rows
    <3> HIDE DEF new
    <3> QED
      BY <1>0, <2>1, <2>2 DEF Form, Content
  <2> HIDE DEF f, new
  <2> QED
    BY <2>1, <2>2, <2>3, ChangeStep
<1>7. CASE form # Unset /\ AddRow
  <2> DEFINE f == [form EXCEPT !.rows = Append(@, Blank)]
  <2>1. Blank \in Row /\ Blank.op \in Seqs!ToSet(Operators(Blank.left.name))
    <3>1. Operators(Unset) = <<"eq">>
      BY DEF Operators
    <3> QED
      BY <3>1 DEF Blank, Row, Operator, Seqs!ToSet
  <2>2. Append(form.rows, Blank) \in Seq(Row) /\ Known(Append(form.rows, Blank))
    <3> HIDE DEF Blank
    <3>1. Append(form.rows, Blank) \in Seq(Row)
      BY <1>0, <1>7, <2>1
    <3>2. /\ DOMAIN Append(form.rows, Blank) = 1..(Len(form.rows) + 1)
          /\ \A i \in 1..(Len(form.rows) + 1) :
               Append(form.rows, Blank)[i] = IF i \in DOMAIN form.rows THEN form.rows[i] ELSE Blank
      BY <1>0, <1>7, <2>1
    <3> QED
      BY <1>0, <1>7, <2>1, <3>1, <3>2 DEF Known
  <2>3. f \in Form /\ f.rows = Append(form.rows, Blank)
    BY <1>0, <1>7, <2>2 DEF Form
  <2>4. Change(f)
    BY <1>7 DEF AddRow
  <2> HIDE DEF f
  <2> QED
    BY <2>2, <2>3, <2>4, ChangeStep
<1>8. ASSUME form # Unset, NEW i \in DOMAIN form.rows, RemoveRow(i)
      PROVE  PolicyIInv'
  <2> DEFINE f == [form EXCEPT !.rows = Seqs!RemoveAt(@, i)]
             rows == SubSeq(form.rows, 1, i - 1) \o SubSeq(form.rows, i + 1, Len(form.rows))
  <2>1. rows \in Seq(Row) /\ Known(rows)
    <3> DEFINE a == SubSeq(form.rows, 1, i - 1)
               b == SubSeq(form.rows, i + 1, Len(form.rows))
    <3>1. a \in Seq(Row) /\ b \in Seq(Row)
      BY <1>0, <1>8
    <3>2. Known(a) /\ Known(b)
      <4>1. \A j \in DOMAIN a : j \in DOMAIN form.rows /\ a[j] = form.rows[j]
        BY <1>0, <1>8
      <4>2. \A j \in DOMAIN b : j + i \in DOMAIN form.rows /\ b[j] = form.rows[j + i]
        <5>1. Len(form.rows) \in Nat /\ i \in 1..Len(form.rows) /\ form.rows \in Seq(Row)
          BY <1>0, <1>8
        <5>2. /\ DOMAIN b = 1..(Len(form.rows) - i)
              /\ \A j \in 1..(Len(form.rows) - i) : b[j] = form.rows[(i + 1) + j - 1]
          BY <5>1, SMTT(60)
        <5> HIDE DEF b
        <5>3. \A j \in 1..(Len(form.rows) - i) :
                j + i \in 1..Len(form.rows) /\ (i + 1) + j - 1 = j + i
          BY <5>1
        <5> QED
          BY <1>0, <1>8, <5>2, <5>3
      <4> HIDE DEF a, b
      <4> QED
        BY <1>0, <1>8, <4>1, <4>2 DEF Known
    <3> HIDE DEF a, b
    <3>3. /\ a \o b \in Seq(Row)
          /\ \A j \in DOMAIN (a \o b) :
               IF j \in DOMAIN a THEN (a \o b)[j] = a[j]
               ELSE j - Len(a) \in DOMAIN b /\ (a \o b)[j] = b[j - Len(a)]
      BY <3>1
    <3>4. Known(a \o b)
      BY <3>2, <3>3 DEF Known
    <3> QED
      BY <3>3, <3>4 DEF a, b
  <2>2. f \in Form /\ f.rows = rows
    <3>1. f = [form EXCEPT !.rows = rows]
      BY DEF Seqs!RemoveAt
    <3> HIDE DEF f, rows
    <3> QED
      BY <1>0, <1>8, <2>1, <3>1 DEF Form
  <2>3. Change(f)
    BY <1>8 DEF RemoveRow
  <2> HIDE DEF f, rows
  <2> QED
    BY <2>1, <2>2, <2>3, ChangeStep
<1>9. ASSUME form # Unset, NEW i \in DOMAIN form.rows, NEW l \in Operand,
             NEW as \in {"prefix", "iri"}, SetLeft(i, [name |-> l, as |-> as])
      PROVE  PolicyIInv'
  <2> DEFINE left == [name |-> l, as |-> as]
             comes == IF as = "prefix" THEN Suggested[l] ELSE <<>>
             right == IF comes # <<>> THEN comes ELSE form.rows[i].right
             row == [left |-> left, op |-> Reconciled(l, form.rows[i].op), right |-> right]
  <2>1. form.rows[i] \in Row
    BY <1>0, <1>9
  <2>2. right \in Seq(Term) /\ left \in [name: Operand \cup {Unset}, as: {"iri", "prefix"}]
    BY <2>1, PolicyAssumption DEF Row
  <2>3. /\ Reconciled(l, form.rows[i].op) \in Seqs!ToSet(Operators(l))
        /\ Reconciled(l, form.rows[i].op) \in Operator
    BY ReconciledType
  <2>4. row \in Row /\ row.op \in Seqs!ToSet(Operators(row.left.name))
    <3> HIDE DEF right
    <3> QED
      BY <2>2, <2>3 DEF Row
  <2>5. ChangeRow(i, row)
    BY <1>9 DEF SetLeft
  <2> HIDE DEF row
  <2> QED
    BY <1>9, <2>4, <2>5, ChangeRowStep
<1>10. ASSUME form # Unset, NEW i \in DOMAIN form.rows,
              NEW op \in Seqs!ToSet(Operators(form.rows[i].left.name)), SetOperator(i, op)
       PROVE  PolicyIInv'
  <2> DEFINE row == [form.rows[i] EXCEPT !.op = op]
  <2>1. form.rows[i] \in Row /\ form.rows[i].left.name \in Operand \cup {Unset}
    <3>1. form.rows[i] \in Row
      BY <1>0, <1>10
    <3> QED
      BY <3>1 DEF Row
  <2>2. op \in Operator
    BY <2>1, OperatorsType
  <2>3. row \in Row /\ row.op \in Seqs!ToSet(Operators(row.left.name))
    BY <2>1, <2>2 DEF Row
  <2>4. ChangeRow(i, row)
    BY <1>10 DEF SetOperator
  <2> HIDE DEF row
  <2> QED
    BY <1>10, <2>3, <2>4, ChangeRowStep
<1>11. ASSUME form # Unset, NEW i \in DOMAIN form.rows, NEW t \in Text, SetRight(i, t)
       PROVE  PolicyIInv'
  <2> DEFINE row == [form.rows[i] EXCEPT !.right = t]
  <2>1. form.rows[i] \in Row /\ form.rows[i].op \in Seqs!ToSet(Operators(form.rows[i].left.name))
    BY <1>0, <1>11 DEF Known
  <2>2. row \in Row /\ row.op \in Seqs!ToSet(Operators(row.left.name))
    BY <2>1, TextType DEF Row
  <2>3. ChangeRow(i, row)
    BY <1>11 DEF SetRight
  <2> HIDE DEF row
  <2> QED
    BY <1>11, <2>2, <2>3, ChangeRowStep
<1>12. ASSUME form # Unset, NEW t \in RuleType, SetField("type", t)
       PROVE  PolicyIInv'
  <2>1. [form EXCEPT !["type"] = t] \in Form /\ [form EXCEPT !["type"] = t].rows = form.rows
    BY <1>0, <1>12 DEF Form
  <2> QED
    BY <1>0, <1>12, <2>1, ChangeStep DEF SetField
<1>13. ASSUME form # Unset, NEW a \in RuleAction, SetField("action", a)
       PROVE  PolicyIInv'
  <2>1. [form EXCEPT !["action"] = a] \in Form /\ [form EXCEPT !["action"] = a].rows = form.rows
    BY <1>0, <1>13 DEF Form
  <2> QED
    BY <1>0, <1>13, <2>1, ChangeStep DEF SetField
<1>14. ASSUME form # Unset, NEW g \in Logic, SetField("logic", g)
       PROVE  PolicyIInv'
  <2>1. [form EXCEPT !["logic"] = g] \in Form /\ [form EXCEPT !["logic"] = g].rows = form.rows
    BY <1>0, <1>14 DEF Form
  <2> QED
    BY <1>0, <1>14, <2>1, ChangeStep DEF SetField
<1>15. CASE UNCHANGED policyVars
  BY <1>15 DEF policyVars, PolicyIInv, PolicyTypeOK, OpenedInv
<1> QED
  BY <1>1, <1>2, <1>3, <1>4, <1>5, <1>6, <1>7, <1>8, <1>9, <1>10, <1>11, <1>12, <1>13, <1>14,
     <1>15 DEF PolicyNext

----------------------------------------------------------------------------
(***************************************************************************)
(* What is saved                                                           *)
(***************************************************************************)

(* A form's constraints are saved as one node, if there are any, and that  *)
(* node holds them all.                                                    *)
LEMMA GroupedOne ==
  ASSUME NEW logic \in Logic, NEW cons \in Seq(Constraint), cons # <<>>,
         NEW nodes, nodes = Grouped(IF Len(cons) > 1 THEN logic ELSE Unset, cons)
  PROVE  /\ nodes \in Seq(Node) /\ Len(nodes) = 1 /\ Leaves(nodes) = cons
         /\ nodes = <<[logic |-> IF Len(cons) > 1 THEN logic ELSE Unset, of |-> cons]>>
<1> DEFINE only == [logic |-> IF Len(cons) > 1 THEN logic ELSE Unset, of |-> cons]
<1>1. Len(cons) \in Nat /\ DOMAIN cons = 1..Len(cons) /\ Len(cons) # 0 /\ logic # Unset
  BY PolicyAssumption
<1>2. nodes = <<only>>
  <2>1. CASE Len(cons) > 1
    BY <1>1, <2>1 DEF Grouped
  <2>2. CASE Len(cons) = 1
    <3>1. cons = <<cons[1]>> /\ DOMAIN cons = {1}
      BY <1>1, <2>2
    <3>2. nodes = [i \in {1} |-> [logic |-> Unset, of |-> <<cons[i]>>]]
      BY <2>2, <3>1 DEF Grouped
    <3>3. nodes = [i \in {1} |-> only]
      BY <2>2, <3>1, <3>2
    <3> HIDE DEF only
    <3> QED
      BY <3>3
  <2> QED
    BY <1>1, <2>1, <2>2
<1>3. nodes \in Seq(Node)
  BY GroupedType
<1>4. Len(nodes) = 1 /\ nodes[1].of = cons
  BY <1>2
<1> QED
  BY <1>2, <1>3, <1>4, LeavesOfOne

(* The preview of a form is what is saved, and is read back as the form.   *)
LEMMA PreviewIsSaved == PolicyIInv => PreviewAsSaved
<1> SUFFICES ASSUME PolicyIInv, form # Unset, Valid(form)
             PROVE  /\ Preview(form) = Built(form)
                    /\ Len(form.rows) \in 1..MaxImported => Built(Imported(Preview(form))) = Built(form)
  BY DEF PreviewAsSaved
<1> DEFINE cons == [i \in DOMAIN form.rows |-> Serialised(form.rows[i])]
           logicOp == IF Len(form.rows) > 1 THEN form.logic ELSE Unset
           nodes == Grouped(logicOp, cons)
           rule == [type |-> form.type, action |-> form.action, nodes |-> nodes]
<1>1. /\ form \in Form /\ Known(form.rows) /\ form.rows \in Seq(Row)
      /\ form.logic \in Logic /\ form.logic # Unset
  <2>1. form \in Form /\ Known(form.rows)
    BY DEF PolicyIInv, PolicyTypeOK, Known
  <2> QED
    BY <2>1, PolicyAssumption DEF Form
<1>2. /\ cons \in Seq(Constraint) /\ Len(cons) = Len(form.rows)
      /\ Len(form.rows) \in Nat /\ DOMAIN form.rows = 1..Len(form.rows)
  BY <1>1, ConstraintsType
<1>3. Built(form) = <<rule>>
  BY DEF Built
<1>4. Preview(form) = Built(form)
  <2>1. PreviewNodes(form.logic, cons) = nodes
    <3> HIDE DEF cons
    <3> QED
      BY <1>1, <1>2 DEF PreviewNodes, Grouped
  <2> QED
    BY <1>3, <2>1 DEF Preview
<1>5. ASSUME Len(form.rows) \in 1..MaxImported
      PROVE  Built(Imported(Built(form))) = Built(form)
  <2>1. cons # <<>>
    <3>1. Len(form.rows) # 0
      BY <1>1, <1>5
    <3> HIDE DEF cons
    <3> QED
      BY <1>2, <3>1
  <2>2. /\ nodes \in Seq(Node) /\ Len(nodes) = 1 /\ Leaves(nodes) = cons
        /\ nodes = <<[logic |-> logicOp, of |-> cons]>>
    <3> HIDE DEF cons
    <3>1. nodes = Grouped(IF Len(cons) > 1 THEN form.logic ELSE Unset, cons)
      BY <1>2
    <3> HIDE DEF nodes
    <3>2. nodes = <<[logic |-> IF Len(cons) > 1 THEN form.logic ELSE Unset, of |-> cons]>>
      BY <1>1, <1>2, <2>1, <3>1, GroupedOne
    <3> QED
      BY <1>1, <1>2, <2>1, <3>1, <3>2, GroupedOne
  <2> DEFINE raw == [i \in DOMAIN cons |-> [left |-> cons[i].left, op |-> cons[i].op,
                                            right |-> cons[i].right]]
             logic == IF Reached(nodes) = {} THEN "and" ELSE nodes[Last(Reached(nodes))].logic
  <2>3. Imported(<<rule>>) = [type |-> form.type, action |-> form.action, logic |-> logic,
                              rows |-> Reconcile(raw)]
    <3> DEFINE p == <<rule>>
               those == [i \in DOMAIN p |-> IF p[i].type = p[1].type THEN p[i].nodes ELSE <<>>]
    <3>1. those = <<nodes>>
      <4> HIDE DEF nodes
      <4> QED
        OBVIOUS
    <3>2. Seqs!FlattenSeq(those) = nodes
      <4> HIDE DEF nodes, those
      <4> QED
        BY <2>2, <3>1, FlattenOne
    <3>3. p[1].type = form.type /\ p[1].action = form.action
      OBVIOUS
    <3>4. Imported(p) =
            [type |-> p[1].type, action |-> p[1].action,
             logic |-> IF Reached(Seqs!FlattenSeq(those)) = {} THEN "and"
                       ELSE Seqs!FlattenSeq(those)[Last(Reached(Seqs!FlattenSeq(those)))].logic,
             rows |-> Reconcile([i \in {j \in DOMAIN Leaves(Seqs!FlattenSeq(those)) : j <= MaxImported} |->
                                  [left |-> Leaves(Seqs!FlattenSeq(those))[i].left,
                                   op |-> Leaves(Seqs!FlattenSeq(those))[i].op,
                                   right |-> Leaves(Seqs!FlattenSeq(those))[i].right]])]
      BY DEF Imported
    <3>5. {j \in DOMAIN cons : j <= MaxImported} = DOMAIN cons
      <4> HIDE DEF cons
      <4>1. Len(cons) <= MaxImported /\ DOMAIN cons = 1..Len(cons) /\ MaxImported \in Nat
        BY <1>2, <1>5, PolicyAssumption
      <4>2. \A j \in DOMAIN cons : j <= MaxImported
        BY <1>2, <4>1
      <4> QED
        BY <4>2
    <3> HIDE DEF p, those, nodes, cons
    <3> QED
      BY <2>2, <3>2, <3>3, <3>4, <3>5 DEF p
  <2>4. ASSUME NEW i \in DOMAIN form.rows
        PROVE  /\ raw[i] = [left |-> Canonical(form.rows[i].left), op |-> form.rows[i].op,
                            right |-> form.rows[i].right]
               /\ raw[i] \in Row /\ raw[i].left.name = form.rows[i].left.name
               /\ raw[i].op = form.rows[i].op /\ Serialised(raw[i]) = Serialised(form.rows[i])
    <3>1. form.rows[i] \in Row
      BY <1>1
    <3>2. i \in DOMAIN cons /\ cons[i] = Serialised(form.rows[i])
      OBVIOUS
    <3>3. raw[i] = [left |-> Canonical(form.rows[i].left), op |-> form.rows[i].op,
                    right |-> form.rows[i].right]
      BY <3>2 DEF Serialised
    <3>4. /\ Canonical(form.rows[i].left) = [name |-> form.rows[i].left.name, as |-> "iri"]
          /\ Canonical([name |-> form.rows[i].left.name, as |-> "iri"])
               = [name |-> form.rows[i].left.name, as |-> "iri"]
          /\ form.rows[i].left.name \in Operand \cup {Unset} /\ form.rows[i].op \in Operator
          /\ form.rows[i].right \in Seq(Term)
      BY <3>1 DEF Canonical, Row
    <3> HIDE DEF raw, cons
    <3>5. raw[i] \in Row /\ raw[i].left.name = form.rows[i].left.name /\ raw[i].op = form.rows[i].op
      BY <3>3, <3>4 DEF Row
    <3>6. Serialised(raw[i]) = Serialised(form.rows[i])
      BY <3>3, <3>4 DEF Serialised
    <3> QED
      BY <3>3, <3>5, <3>6
  <2>5. raw \in Seq(Row) /\ Known(raw) /\ DOMAIN raw = DOMAIN form.rows
        /\ Len(raw) = Len(form.rows)
    <3>1. DOMAIN raw = DOMAIN form.rows /\ raw = [i \in DOMAIN form.rows |-> raw[i]]
      OBVIOUS
    <3> HIDE DEF raw
    <3>2. raw \in [1..Len(form.rows) -> Row]
      BY <1>2, <2>4, <3>1
    <3>3. Known(raw)
      BY <1>1, <2>4, <3>1 DEF Known
    <3> QED
      BY <1>2, <3>1, <3>2, <3>3
  <2>6. Reconcile(raw) = raw
    <3> HIDE DEF raw
    <3> QED
      BY <2>5, ReconcileType
  <2>7. [i \in DOMAIN raw |-> Serialised(raw[i])] = cons
    <3> HIDE DEF raw
    <3> QED
      BY <2>4, <2>5
  <2>8. Len(form.rows) > 1 => logic = form.logic
    <3> SUFFICES ASSUME Len(form.rows) > 1 PROVE logic = form.logic
      OBVIOUS
    <3> HIDE DEF nodes, cons
    <3>1. DOMAIN nodes = {1} /\ nodes[1].logic = form.logic
      BY <2>2
    <3>2. Reached(nodes) = {1}
      <4>1. Groups(nodes) = {1}
        BY <1>1, <3>1 DEF Groups
      <4>2. SubSeq(nodes, 1, 1 - 1) = <<>>
        BY <2>2
      <4>3. Len(Leaves(<<>>)) = 0
        <5>1. [i \in DOMAIN <<>> |-> <<>>[i].of] = <<>>
          OBVIOUS
        <5> QED
          BY <5>1 DEF Leaves, Seqs!FlattenSeq
      <4>4. Len(Leaves(SubSeq(nodes, 1, 1 - 1))) < MaxImported
        <5>1. MaxImported > 0
          BY PolicyAssumption
        <5>2. Len(Leaves(SubSeq(nodes, 1, 1 - 1))) = 0
          BY <4>2, <4>3, Zenon
        <5> QED
          BY <5>1, <5>2
      <4>5. Reached(nodes) \subseteq {1} /\ 1 \in Reached(nodes)
        BY <4>1, <4>4, Zenon DEF Reached
      <4> QED
        BY <4>5
    <3>3. Last({1}) = 1
      BY LastAmong
    <3> QED
      BY <3>1, <3>2, <3>3
  <2> DEFINE f == [type |-> form.type, action |-> form.action, logic |-> logic, rows |-> raw]
  <2>9. Built(f) = <<rule>>
    <3>1. Built(f) = <<[type |-> form.type, action |-> form.action,
                        nodes |-> Grouped(IF Len(raw) > 1 THEN logic ELSE Unset,
                                          [i \in DOMAIN raw |-> Serialised(raw[i])])]>>
      BY DEF Built
    <3>2. (IF Len(raw) > 1 THEN logic ELSE Unset) = logicOp
      <4> HIDE DEF raw, logic
      <4> QED
        BY <2>5, <2>8
    <3> HIDE DEF raw, logic, cons, logicOp, f
    <3> QED
      BY <2>7, <3>1, <3>2
  <2>10. Imported(<<rule>>) = f
    <3> HIDE DEF rule, raw, logic
    <3> QED
      BY <2>3, <2>6
  <2> HIDE DEF rule, f
  <2> QED
    BY <1>3, <2>9, <2>10
<1> HIDE DEF cons, logicOp, nodes, rule
<1> QED
  BY <1>4, <1>5

(* Two lists of nodes that the same claims satisfy mean the same.          *)
LEMMA SameMeaning ==
  ASSUME NEW t, NEW a, NEW nodes, NEW other,
         \A env \in [Operand -> Term] :
           (\A i \in DOMAIN nodes : Satisfied(nodes[i], env))
             <=> (\A i \in DOMAIN other : Satisfied(other[i], env))
  PROVE  Meaning(<<[type |-> t, action |-> a, nodes |-> nodes]>>)
           = Meaning(<<[type |-> t, action |-> a, nodes |-> other]>>)
<1> DEFINE those(n) == {<<t, a, env>> : env \in {e \in [Operand -> Term] :
                                                   \A i \in DOMAIN n : Satisfied(n[i], e)}}
<1>1. those(nodes) = those(other)
  OBVIOUS
<1>2. ASSUME NEW n
      PROVE  Meaning(<<[type |-> t, action |-> a, nodes |-> n]>>) = those(n)
  <2> DEFINE rule == [type |-> t, action |-> a, nodes |-> n]
  <2>1. Seqs!ToSet(<<rule>>) = {rule}
    <3> HIDE DEF rule
    <3> QED
      BY DEF Seqs!ToSet
  <2>2. rule.type = t /\ rule.action = a /\ rule.nodes = n
    OBVIOUS
  <2> HIDE DEF rule
  <2>3. Meaning(<<rule>>) = {<<rule.type, rule.action, env>> :
                               env \in {e \in [Operand -> Term] :
                                          \A i \in DOMAIN rule.nodes : Satisfied(rule.nodes[i], e)}}
    BY <2>1 DEF Meaning
  <2>4. Meaning(<<rule>>) = those(n)
    BY <2>2, <2>3
  <2> QED
    BY <2>4 DEF rule
<1> HIDE DEF those
<1> QED
  BY <1>1, <1>2

(* A group of one is satisfied with it, whatever joins it, and so is a     *)
(* group that is joined by "and" or by nothing with all of it.             *)
LEMMA SatisfiedOne ==
  ASSUME NEW logic \in Logic \cup {Unset}, NEW c, NEW env
  PROVE  Satisfied([logic |-> logic, of |-> <<c>>], env) <=> Holds(c, env[c.left.name])
<1> DEFINE node == [logic |-> logic, of |-> <<c>>]
           met == {i \in DOMAIN node.of : Holds(node.of[i], env[node.of[i].left.name])}
<1>1. node.logic = logic /\ DOMAIN node.of = {1} /\ node.of[1] = c
  OBVIOUS
<1>2. /\ Holds(c, env[c.left.name]) => met = {1}
      /\ ~Holds(c, env[c.left.name]) => met = {}
  <2> HIDE DEF node
  <2> QED
    BY <1>1
<1>3. Satisfied(node, env) <=> CASE node.logic = "or"   -> met # {}
                                 [] node.logic = "xone" -> \E i \in met : met = {i}
                                 [] OTHER               -> met = DOMAIN node.of
  BY DEF Satisfied
<1> HIDE DEF node, met
<1>4. ASSUME logic = "or"
      PROVE  Satisfied(node, env) <=> Holds(c, env[c.left.name])
  BY <1>1, <1>2, <1>3, <1>4
<1>5. ASSUME logic = "xone"
      PROVE  Satisfied(node, env) <=> Holds(c, env[c.left.name])
  <2>1. Satisfied(node, env) <=> \E i \in met : met = {i}
    BY <1>1, <1>3, <1>5
  <2> QED
    BY <1>2, <2>1
<1>6. ASSUME logic \notin {"or", "xone"}
      PROVE  Satisfied(node, env) <=> Holds(c, env[c.left.name])
  <2>1. Satisfied(node, env) <=> met = {1}
    BY <1>1, <1>3, <1>6
  <2> QED
    BY <1>2, <2>1
<1>7. Satisfied(node, env) <=> Holds(c, env[c.left.name])
  BY <1>4, <1>5, <1>6
<1> QED
  BY <1>7 DEF node

LEMMA SatisfiedAll ==
  ASSUME NEW logic, logic \notin {"or", "xone"}, NEW cons, NEW env
  PROVE  Satisfied([logic |-> logic, of |-> cons], env)
           <=> \A i \in DOMAIN cons : Holds(cons[i], env[cons[i].left.name])
BY DEF Satisfied

(* What is read from a policy the builder can express.                     *)
LEMMA ReadBack ==
  ASSUME NEW p \in Definition, Expressible(p)
  PROVE  /\ Mapped(p).type = p[1].type /\ Mapped(p).action = p[1].action
         /\ Mapped(p).logic = DetectedLogic(p[1].nodes)
         /\ Reconcile(Mapped(p).rows) = Flattened(p[1].nodes)
         /\ [i \in DOMAIN Flattened(p[1].nodes) |-> Serialised(Flattened(p[1].nodes)[i])]
              = Leaves(p[1].nodes)
         /\ Len(Flattened(p[1].nodes)) = Len(Leaves(p[1].nodes))
<1> DEFINE nodes == p[1].nodes
           cons == Leaves(nodes)
           rows == Flattened(nodes)
<1>0. Len(p) = 1 /\ p # <<>>
  BY DEF Expressible
<1>1. DOMAIN p = {1} /\ nodes \in Seq(Node) /\ p[1] \in [type: RuleType, action: RuleAction, nodes: Seq(Node)]
  BY <1>0, FirstRule
<1>2. /\ Mapped(p).type = p[1].type /\ Mapped(p).action = p[1].action
      /\ Mapped(p).logic = DetectedLogic(nodes) /\ Mapped(p).rows = rows
  <2> DEFINE several == {i \in DOMAIN p : Len(Leaves(p[i].nodes)) > 1}
             main == IF several = {} THEN p[1] ELSE p[First(several)]
  <2>1. main = p[1]
    <3>1. several \subseteq {1}
      BY <1>1
    <3>2. several = {} \/ several = {1}
      BY <3>1
    <3>3. First({1}) = 1
      BY FirstAmong
    <3> HIDE DEF several
    <3> QED
      BY <3>2, <3>3
  <2>2. Seqs!FlattenSeq([i \in DOMAIN p |-> Flattened(p[i].nodes)]) = rows
    <3>1. [i \in DOMAIN p |-> Flattened(p[i].nodes)] = <<rows>>
      BY <1>1
    <3>2. rows \in Seq(Row)
      BY <1>1, FlattenedType
    <3> HIDE DEF rows
    <3> QED
      BY <3>1, <3>2, FlattenOne
  <2>3. Mapped(p) = [type |-> p[1].type, action |-> p[1].action,
                     logic |-> DetectedLogic(main.nodes),
                     rows |-> Seqs!FlattenSeq([i \in DOMAIN p |-> Flattened(p[i].nodes)])]
    BY DEF Mapped
  <2> HIDE DEF main, rows
  <2> QED
    BY <2>1, <2>2, <2>3
<1>3. cons \in Seq(Constraint) /\ Len(cons) \in Nat /\ DOMAIN cons = 1..Len(cons)
  <2>1. cons \in Seq(Constraint)
    BY <1>1, LeavesType
  <2> HIDE DEF cons
  <2> QED
    BY <2>1
<1>4. rows \in Seq(Row) /\ DOMAIN rows = DOMAIN cons /\ Len(rows) = Len(cons)
  <2>1. rows \in Seq(Row) /\ DOMAIN rows = DOMAIN cons
    BY <1>1, FlattenedType DEF Flattened
  <2> HIDE DEF rows, cons
  <2> QED
    BY <1>3, <2>1
<1>5. ASSUME NEW i \in DOMAIN cons
      PROVE  /\ rows[i].op \in Seqs!ToSet(Operators(rows[i].left.name))
             /\ Serialised(rows[i]) = cons[i]
  <2>1. cons[i] \in Constraint
    <3> HIDE DEF cons
    <3> QED
      BY <1>3, <1>5
  <2>2. /\ cons[i].left.as = "iri" /\ cons[i].many = (cons[i].op \in MultiValue)
        /\ cons[i].op \in Seqs!ToSet(Operators(cons[i].left.name))
    <3>1. cons[i] \in Seqs!ToSet(cons)
      BY DEF Seqs!ToSet
    <3> QED
      BY <3>1 DEF Expressible
  <2>3. rows[i] = [left |-> Compact(cons[i].left), op |-> cons[i].op, right |-> cons[i].right]
    BY DEF Flattened
  <2> HIDE DEF rows, cons
  <2>4. PICK name \in Operand, op \in Operator, right \in Seq(Term) :
          cons[i] = [left |-> [name |-> name, as |-> "iri"], op |-> op,
                     many |-> (op \in MultiValue), right |-> right]
    BY <2>1, <2>2 DEF Constraint
  <2>5. rows[i] = [left |-> [name |-> name, as |-> "prefix"], op |-> op, right |-> right]
    BY <2>3, <2>4 DEF Compact
  <2>6. Serialised(rows[i]) = cons[i]
    BY <2>4, <2>5 DEF Serialised, Canonical
  <2> QED
    BY <2>2, <2>4, <2>5, <2>6
<1> HIDE DEF rows, cons
<1>6. Reconcile(rows) = rows
  BY <1>4, <1>5, ReconcileType DEF Known
<1>7. [i \in DOMAIN rows |-> Serialised(rows[i])] = cons
  BY <1>3, <1>4, <1>5
<1> QED
  BY <1>2, <1>4, <1>6, <1>7 DEF rows, cons

(* Who saves an unchanged policy that the builder can express keeps what   *)
(* it means: a list becomes a group joined by "and", a group of one is not *)
(* kept, and any other group is what it was.                               *)
LEMMA OpenedIsSaved == PolicyIInv => SavedAsOpened
<1> SUFFICES ASSUME PolicyIInv, form # Unset, form.from # Unset, Expressible(form.from)
             PROVE  Meaning(Built(form)) = Meaning(form.from)
  BY DEF SavedAsOpened
<1> DEFINE p == form.from
           nodes == p[1].nodes
           cons == Leaves(nodes)
           joined == IF Len(cons) > 1 THEN DetectedLogic(nodes) ELSE Unset
           new == Grouped(joined, cons)
<1>1. p \in Definition /\ Len(p) = 1 /\ p # <<>>
  BY DEF PolicyIInv, PolicyTypeOK, Form, Expressible
<1>2. p[1] \in [type: RuleType, action: RuleAction, nodes: Seq(Node)] /\ nodes \in Seq(Node)
  <2> HIDE DEF p
  <2> QED
    BY <1>1, FirstRule
<1>3. /\ form.type = p[1].type /\ form.action = p[1].action /\ form.logic = DetectedLogic(nodes)
      /\ [i \in DOMAIN form.rows |-> Serialised(form.rows[i])] = cons
      /\ Len(form.rows) = Len(cons)
  <2>1. /\ form.type = Mapped(p).type /\ form.action = Mapped(p).action
        /\ form.logic = Mapped(p).logic /\ form.rows = Reconcile(Mapped(p).rows)
    BY DEF PolicyIInv, OpenedInv
  <2>2. Expressible(p)
    OBVIOUS
  <2> HIDE DEF p
  <2> QED
    BY <1>1, <2>1, <2>2, ReadBack
<1>4. Built(form) = <<[type |-> p[1].type, action |-> p[1].action, nodes |-> new]>>
  <2> HIDE DEF p, nodes, cons
  <2> QED
    BY <1>3 DEF Built
<1>5. p = <<[type |-> p[1].type, action |-> p[1].action, nodes |-> nodes]>>
  <2>1. p[1] = [type |-> p[1].type, action |-> p[1].action, nodes |-> nodes]
    BY <1>2
  <2>2. p = <<p[1]>>
    <3> DEFINE R == [type: RuleType, action: RuleAction, nodes: Seq(Node)]
    <3>1. p \in Seq(R)
      BY <1>1 DEF Definition
    <3> HIDE DEF p, R
    <3> QED
      BY <1>1, <3>1
  <2> HIDE DEF p
  <2> QED
    BY <2>1, <2>2
<1>6. cons \in Seq(Constraint) /\ Len(cons) \in Nat /\ DOMAIN cons = 1..Len(cons)
  <2>1. cons \in Seq(Constraint)
    BY <1>2, LeavesType
  <2> HIDE DEF cons
  <2> QED
    BY <2>1
<1>7. Unset \notin Logic /\ DetectedLogic(nodes) \in Logic
  BY <1>2, LogicType, PolicyAssumption
<1>8. ASSUME NEW env \in [Operand -> Term]
      PROVE  (\A i \in DOMAIN new : Satisfied(new[i], env))
               <=> (\A i \in DOMAIN nodes : Satisfied(nodes[i], env))
  <2> DEFINE all == \A i \in DOMAIN cons : Holds(cons[i], env[cons[i].left.name])
  <2>1. CASE Len(nodes) = 1
    <3> DEFINE logic == nodes[1].logic
    <3>1. nodes[1] \in Node /\ DOMAIN nodes = {1} /\ nodes[1].of = cons
      <4> HIDE DEF nodes
      <4> QED
        BY <1>2, <2>1, LeavesOfOne DEF cons
    <3>2. nodes[1] = [logic |-> logic, of |-> cons] /\ logic \in Logic \cup {Unset}
      <4> HIDE DEF nodes, cons
      <4> QED
        BY <3>1 DEF Node
    <3>3. CASE Len(cons) > 1
      <4>1. logic # Unset
        <5>1. logic = Unset => Len(nodes[1].of) = 1
          BY <3>1 DEF Node
        <5>2. Len(nodes[1].of) # 1
          <6>1. nodes[1].of = cons
            BY <3>1
          <6> HIDE DEF nodes, cons, logic
          <6>2. Len(cons) \in Nat
            BY <1>6
          <6>3. Len(cons) # 1
            BY <6>2, <3>3
          <6> QED
            BY <6>1, <6>3
        <5> HIDE DEF nodes, cons, logic
        <5> QED
          BY <5>1, <5>2
      <4>2. DetectedLogic(nodes) = logic
        <5>1. Groups(nodes) = {1}
          BY <3>1, <4>1 DEF Groups
        <5>2. First({1}) = 1
          BY FirstAmong
        <5> HIDE DEF nodes
        <5> QED
          BY <5>1, <5>2 DEF DetectedLogic, nodes
      <4>3. new = <<[logic |-> logic, of |-> cons]>>
        <5> HIDE DEF nodes, cons, logic
        <5> QED
          BY <1>7, <3>3, <4>2 DEF Grouped
      <4>4. DOMAIN new = {1} /\ new[1] = nodes[1]
        <5> HIDE DEF nodes, cons, new, logic
        <5> QED
          BY <3>2, <4>3
      <4> HIDE DEF nodes, new
      <4> QED
        BY <3>1, <4>4
    <3>4. CASE Len(cons) = 1
      <4>1. cons = <<cons[1]>> /\ DOMAIN cons = {1}
        <5> HIDE DEF cons
        <5> QED
          BY <1>6, <3>4
      <4>2. DOMAIN new = {1} /\ new[1] = [logic |-> Unset, of |-> <<cons[1]>>]
        <5> HIDE DEF cons, nodes
        <5> QED
          BY <3>4, <4>1 DEF Grouped
      <4>3. nodes[1] = [logic |-> logic, of |-> <<cons[1]>>]
        <5> HIDE DEF cons, nodes, logic
        <5> QED
          BY <3>2, <4>1
      <4> HIDE DEF cons, nodes, new, logic
      <4> QED
        BY <3>1, <3>2, <4>2, <4>3, SatisfiedOne
    <3>5. CASE Len(cons) = 0
      <4>1. DOMAIN cons = {}
        BY <1>6, <3>5
      <4>2. DOMAIN new = {}
        <5> HIDE DEF cons, nodes
        <5> QED
          BY <3>5, <4>1 DEF Grouped
      <4>3. logic \notin {"or", "xone"}
        <5>1. nodes[1] \in Seqs!ToSet(nodes)
          BY <3>1 DEF Seqs!ToSet
        <5>2. logic \in {"or", "xone"} => nodes[1].of # <<>>
          BY <5>1 DEF Expressible
        <5>3. cons = <<>>
          <6> HIDE DEF cons
          <6> QED
            BY <1>6, <3>5
        <5> QED
          BY <3>1, <5>2, <5>3
      <4>4. Satisfied(nodes[1], env)
        <5> HIDE DEF cons, nodes, logic
        <5> QED
          BY <3>2, <4>1, <4>3, SatisfiedAll
      <4> HIDE DEF nodes, new
      <4> QED
        BY <3>1, <4>2, <4>4
    <3> HIDE DEF cons, nodes, new
    <3> QED
      BY <1>6, <3>3, <3>4, <3>5
  <2>2. CASE Len(nodes) # 1
    <3>1. \A i \in DOMAIN nodes : nodes[i].logic = Unset
      <4>1. \A n \in Seqs!ToSet(nodes) : n.logic = Unset
        BY <2>2 DEF Expressible
      <4> QED
        BY <4>1 DEF Seqs!ToSet
    <3>2. /\ Len(cons) = Len(nodes) /\ DOMAIN cons = DOMAIN nodes
          /\ \A i \in DOMAIN nodes : nodes[i].of = <<cons[i]>>
      <4> HIDE DEF nodes
      <4> QED
        BY <1>2, <3>1, LeavesOfList
    <3>3. \A i \in DOMAIN nodes : nodes[i] = [logic |-> Unset, of |-> <<cons[i]>>]
      <4>1. \A i \in DOMAIN nodes : nodes[i] \in Node
        <5> HIDE DEF nodes
        <5> QED
          BY <1>2
      <4> HIDE DEF nodes, cons
      <4> QED
        BY <3>1, <3>2, <4>1 DEF Node
    <3>4. (\A i \in DOMAIN nodes : Satisfied(nodes[i], env)) <=> all
      <4> HIDE DEF nodes, cons
      <4> QED
        BY <3>2, <3>3, SatisfiedOne
    <3>5. DetectedLogic(nodes) = "and"
      BY <3>1 DEF DetectedLogic, Groups
    <3>6. CASE Len(cons) > 1
      <4>1. new = <<[logic |-> "and", of |-> cons]>>
        <5> HIDE DEF nodes, cons
        <5> QED
          BY <1>7, <3>5, <3>6 DEF Grouped
      <4>2. DOMAIN new = {1} /\ new[1] = [logic |-> "and", of |-> cons]
        <5> HIDE DEF cons, new
        <5> QED
          BY <4>1
      <4>3. Satisfied([logic |-> "and", of |-> cons], env) <=> all
        <5> HIDE DEF cons
        <5> QED
          BY SatisfiedAll
      <4> HIDE DEF nodes, cons, new, all
      <4> QED
        BY <3>4, <4>2, <4>3
    <3>7. CASE ~(Len(cons) > 1)
      <4>1. new = [i \in DOMAIN cons |-> [logic |-> Unset, of |-> <<cons[i]>>]]
        <5> HIDE DEF nodes, cons
        <5> QED
          BY <3>7 DEF Grouped
      <4> HIDE DEF nodes, cons, new
      <4> QED
        BY <3>2, <3>3, <4>1
    <3> QED
      BY <3>6, <3>7
  <2> QED
    BY <2>1, <2>2
<1> HIDE DEF p, nodes, cons, new
<1>9. Meaning(<<[type |-> p[1].type, action |-> p[1].action, nodes |-> new]>>)
        = Meaning(<<[type |-> p[1].type, action |-> p[1].action, nodes |-> nodes]>>)
  BY <1>8, SameMeaning
<1> QED
  BY <1>4, <1>5, <1>9 DEF p

(* The inductive invariant holds in every state.                           *)
THEOREM PolicyInvariance == PolicySpec => []PolicyIInv
BY PoliciesInitially, PoliciesStep, PTL DEF PolicySpec

(* A policy that is opened and saved unchanged lets in whom it let in, for *)
(* any operands, terms and definitions made elsewhere, and the preview is  *)
(* what is saved (PagePolicy.tsx:1627-1628, 1829-1831).                    *)
THEOREM PoliciesKept == PolicySpec => []PolicyInv
<1>1. PolicyIInv => PolicyInv
  BY OpenedIsSaved, PreviewIsSaved DEF PolicyIInv, PolicyInv
<1> QED
  BY PolicyInvariance, <1>1, PTL

=============================================================================
