------------------------------ MODULE Accounts ------------------------------
(***************************************************************************)
(* Tenants, their users, and sessions: the password login with its lock    *)
(* after repeated failures, log-out and change of password (routes/auth.ts)*)
(* single sign-on (routes/authOidc.ts), the check of a session token       *)
(* (middleware/auth.ts), and the offboarding of a tenant: archive, restore *)
(* and purge (lib/tenants.ts, scripts/offboardTenant.ts).                  *)
(*                                                                         *)
(* Tables tenants and users are shared by all replicas. Every query is one *)
(* step; between the queries of a request, and while bcrypt compares, the  *)
(* other requests go on. A token is a signed record: it is never taken     *)
(* back, only no longer accepted.                                          *)
(***************************************************************************)
EXTENDS Tenancy, Integers, FiniteSets

CONSTANTS
  User,          \* users are named by their email, which is unique
  Home,          \* Home[u]: the tenant of u at first, or Nowhere: no such user yet
  Nowhere,
  Password,      \* passwords
  Unusable,      \* the random password of a user made by single sign-on
  MaxFailures,   \* LOGIN_MAX_FAILURES
  Lockout,       \* LOGIN_LOCKOUT_MINUTES, in ticks
  Days,          \* what an operator may type behind --days, or the default
  MaxVersion,    \* bound: versions of the tokens of a user
  MaxId,         \* bound: accounts made for one email
  MaxTokens,     \* bound: tokens signed
  MaxTime        \* bound: the clock

ASSUME AccountsAssumption ==
  /\ User # {} /\ Home \in [User -> Tenant \cup {Nowhere}]
  /\ IsFiniteSet(Req)
  /\ Nowhere \notin Tenant
  /\ Password # {} /\ Unusable \notin Password
  /\ {MaxFailures, Lockout, MaxVersion, MaxId, MaxTokens} \subseteq Nat \ {0}
  /\ Days \subseteq Int /\ MaxTime \in Nat

VARIABLES
  now,
  tenant,    \* tenant[t]: its state, and since when it is archived
  acct,      \* acct[u]: the row of users for the email u, if there is one
  reqs,      \* reqs[r]: request r, between two of its queries
  tokens,    \* the tokens signed so far
  purge,     \* the purge under way: the retention and the tenants it selected
  missed     \* history: wrong passwords counted since the last reset

accountsVars == <<now, tenant, acct, reqs, tokens, purge, missed>>

Version == 0..MaxVersion
Never == -1
NoAccount == [id |-> 0, tenant |-> Nowhere, tv |-> 0, pw |-> Unusable, fails |-> 0,
              until |-> Never]
Account == [id : 0..MaxId, tenant : Tenant \cup {Nowhere}, tv : Version,
            pw : Password \cup {Unusable}, fails : 0..(MaxFailures + Cardinality(Req)),
            until : Never..(MaxTime + Lockout)]

(* What a request knows: the account as it read it, the tenant it goes to, *)
(* and for a change of password the new one.                               *)
Idle == [at |-> "idle", user |-> CHOOSE u \in User : TRUE, tenant |-> Nowhere,
         row |-> NoAccount, pw |-> Unusable]
Request == [at : {"idle", "hit", "miss", "sso", "update", "insert", "logout", "asked",
                  "change"},
            user : User, tenant : Tenant \cup {Nowhere}, row : Account,
            pw : Password \cup {Unusable}]

Token == [user : User, id : 1..MaxId, tenant : Tenant, tv : Version,
          by : {"password", "sso"}, pw : Password \cup {Unusable}]

AccountsTypeOK ==
  /\ now \in 0..MaxTime
  /\ tenant \in [Tenant -> [state : {"active", "archived", "gone"}, since : 0..MaxTime]]
  /\ acct \in [User -> Account]
  /\ reqs \in [Req -> Request]
  /\ tokens \subseteq Token
  /\ purge \in [days : Nat, todo : SUBSET Tenant]
  /\ missed \in [User -> Nat]

Exists(u) == acct[u].id # 0

AccountsInit ==
  /\ now = 0
  /\ tenant = [t \in Tenant |-> [state |-> "active", since |-> 0]]
  /\ \E pw \in Password :
       acct = [u \in User |-> IF Home[u] = Nowhere THEN NoAccount
                              ELSE [NoAccount EXCEPT !.id = 1, !.tenant = Home[u], !.pw = pw]]
  /\ reqs = [r \in Req |-> Idle]
  /\ tokens = {}
  /\ purge = [days |-> 0, todo |-> {}]
  /\ missed = [u \in User |-> 0]

----------------------------------------------------------------------------
(***************************************************************************)
(* Sessions                                                                *)
(***************************************************************************)

(* isTokenCurrent: the account is there and its version is the token's.    *)
Accepted(k) == acct[k.user].id = k.id /\ acct[k.user].tv = k.tv

Become(r, q) == reqs' = [reqs EXCEPT ![r] = q]
Answer(r) == Become(r, Idle)

Locked(row) == row.until > now

(* The account a password login of a tenant goes to: the oldest one. An    *)
(* account made by single sign-on is younger than one that was there.      *)
Oldest(t) ==
  LET members == {u \in User : Exists(u) /\ acct[u].tenant = t}
      seeded == {u \in members : acct[u].id = 1 /\ Home[u] = t}
  IN IF seeded # {} THEN seeded ELSE members

(* POST /login: one query reads the tenant and the account, bcrypt         *)
(* compares. A locked account gets 429 or 401, and nothing is written.     *)
Login(r, t, pw) ==
  /\ reqs[r].at = "idle"
  /\ tenant[t].state = "active"
  /\ \E u \in Oldest(t) :
       /\ ~Locked(acct[u])
       /\ Become(r, [Idle EXCEPT !.at = IF pw = acct[u].pw THEN "hit" ELSE "miss",
                                 !.user = u, !.tenant = t, !.row = acct[u]])
  /\ UNCHANGED <<now, tenant, acct, tokens, purge, missed>>

(* Seeded fault: the counter that was read is written back, plus one.      *)
CountedAsRead(q) == q.row.fails + 1

(* The failures after one more, in the UPDATE: from one again when a lock  *)
(* has run out.                                                            *)
Counted(q) ==
  LET row == acct[q.user] IN
    IF row.until # Never /\ row.until <= now THEN 1 ELSE row.fails + 1

(* A wrong password: count it, and lock the account at the limit.          *)
Miss(r) ==
  LET q == reqs[r]  n == Counted(q) IN
  /\ q.at = "miss"
  /\ IF acct[q.user].id = q.row.id
     THEN /\ acct' = [acct EXCEPT ![q.user].fails = n,
                        ![q.user].until = IF n >= MaxFailures THEN now + Lockout ELSE Never]
          /\ missed' = [missed EXCEPT ![q.user] = @ + 1]
     ELSE UNCHANGED <<acct, missed>>
  /\ Answer(r)
  /\ UNCHANGED <<now, tenant, tokens, purge>>

(* Seeded fault: the version is read when the token is signed.             *)
SignedLate(q) == IF acct[q.user].id = q.row.id THEN acct[q.user].tv ELSE q.row.tv

(* The version of the token of a login: as read with the password.         *)
Signed(q) == q.row.tv

Issue(q, by) ==
  /\ tokens' = tokens \cup {[user |-> q.user, id |-> q.row.id, tenant |-> q.tenant,
                             tv |-> Signed(q), by |-> by, pw |-> q.row.pw]}
  /\ Cardinality(tokens') <= MaxTokens

(* The right password: reset the counter, sign the token.                  *)
Hit(r) ==
  LET q == reqs[r] IN
  /\ q.at = "hit"
  /\ IF acct[q.user].id = q.row.id
     THEN /\ acct' = [acct EXCEPT ![q.user].fails = 0, ![q.user].until = Never]
          /\ missed' = [missed EXCEPT ![q.user] = 0]
     ELSE UNCHANGED <<acct, missed>>
  /\ Issue(q, "password")
  /\ Answer(r)
  /\ UNCHANGED <<now, tenant, purge>>

(* requireAuth, for a request that will write.                             *)
Authorise(r, k, at) ==
  /\ reqs[r].at = "idle" /\ Accepted(k)
  /\ Become(r, [Idle EXCEPT !.at = at, !.user = k.user, !.tenant = k.tenant,
                            !.row = [NoAccount EXCEPT !.id = k.id]])
  /\ UNCHANGED <<now, tenant, acct, tokens, purge, missed>>

(* Bump the version of the request's account, if it is still there.        *)
Bump(q, pw) ==
  acct' = IF acct[q.user].id # q.row.id THEN acct
          ELSE [acct EXCEPT ![q.user].tv = @ + 1, ![q.user].pw = pw]

(* POST /logout: ends every session of the user.                           *)
Logout(r) ==
  LET q == reqs[r] IN
  /\ q.at = "logout" /\ acct[q.user].tv < MaxVersion
  /\ Bump(q, acct[q.user].pw)
  /\ Answer(r)
  /\ UNCHANGED <<now, tenant, tokens, purge, missed>>

(* POST /change-password: the current password is compared ...             *)
CheckCurrent(r, old, new) ==
  LET q == reqs[r] IN
  /\ q.at = "asked"
  /\ IF acct[q.user].id = q.row.id /\ old = acct[q.user].pw
     THEN Become(r, [q EXCEPT !.at = "change", !.pw = new])
     ELSE Answer(r)
  /\ UNCHANGED <<now, tenant, acct, tokens, purge, missed>>

(* ... and the new one is stored, which ends every session.                *)
ChangePassword(r) ==
  LET q == reqs[r] IN
  /\ q.at = "change" /\ acct[q.user].tv < MaxVersion
  /\ Bump(q, q.pw)
  /\ Answer(r)
  /\ UNCHANGED <<now, tenant, tokens, purge, missed>>

----------------------------------------------------------------------------
(***************************************************************************)
(* Single sign-on: GET /oidc/callback, once the provider has vouched for   *)
(* email u and tenant t                                                    *)
(***************************************************************************)

SsoTenant(r, u, t) ==
  /\ reqs[r].at = "idle" /\ tenant[t].state = "active"
  /\ Become(r, [Idle EXCEPT !.at = "sso", !.user = u, !.tenant = t])
  /\ UNCHANGED <<now, tenant, acct, tokens, purge, missed>>

OfTenant(u, t) == acct[u].tenant = t

(* Without an account one is made, if OIDC_AUTO_PROVISION says so; else    *)
(* the callback ends here.                                                 *)
SsoUser(r) ==
  LET q == reqs[r] IN
  /\ q.at = "sso"
  /\ \/ Exists(q.user) /\ OfTenant(q.user, q.tenant)
        /\ Become(r, [q EXCEPT !.at = "update", !.row = acct[q.user]])
     \/ Exists(q.user) /\ ~OfTenant(q.user, q.tenant) /\ Answer(r)
     \/ ~Exists(q.user) /\ Become(r, [q EXCEPT !.at = "insert"])
     \/ ~Exists(q.user) /\ Answer(r)
  /\ UNCHANGED <<now, tenant, acct, tokens, purge, missed>>

(* The account takes role and name from the provider, which no property is *)
(* about, and its tenant, which is the one it has.                         *)
SsoUpdate(r) ==
  LET q == reqs[r] IN
  /\ q.at = "update"
  /\ Issue(q, "sso")
  /\ Answer(r)
  /\ UNCHANGED <<now, tenant, acct, purge, missed>>

(* Emails are unique: an INSERT that comes second fails.                   *)
SsoInsert(r, id) ==
  LET q == reqs[r]
      new == [NoAccount EXCEPT !.id = id, !.tenant = q.tenant] IN
  /\ q.at = "insert"
  /\ \A k \in tokens : k.user = q.user => k.id < id
  /\ \A s \in Req : reqs[s].user = q.user => reqs[s].row.id < id
  /\ IF Exists(q.user)
     THEN UNCHANGED <<acct, tokens>>
     ELSE /\ acct' = [acct EXCEPT ![q.user] = new]
          /\ Issue([q EXCEPT !.row = new], "sso")
  /\ Answer(r)
  /\ UNCHANGED <<now, tenant, purge, missed>>

----------------------------------------------------------------------------
(***************************************************************************)
(* Offboarding, from the command line of the platform's operator           *)
(***************************************************************************)

(* archiveTenant: one transaction.                                         *)
Archive(t) ==
  LET members == {u \in User : acct[u].tenant = t} IN
  /\ tenant[t].state = "active"
  /\ \A u \in members : acct[u].tv < MaxVersion
  /\ tenant' = [tenant EXCEPT ![t] = [state |-> "archived", since |-> now]]
  /\ acct' = [u \in User |-> IF u \in members THEN [acct[u] EXCEPT !.tv = @ + 1] ELSE acct[u]]
  /\ UNCHANGED <<now, reqs, tokens, purge, missed>>

(* Seeded fault: the sessions come back with the tenant.                   *)
RestoredWithSessions(t) ==
  [u \in User |-> IF acct[u].tenant = t THEN [acct[u] EXCEPT !.tv = @ - 1] ELSE acct[u]]

(* The accounts after a restore.                                           *)
Restored(t) == acct

Restore(t) ==
  /\ tenant[t].state = "archived"
  /\ tenant' = [tenant EXCEPT ![t].state = "active"]
  /\ acct' = Restored(t)
  /\ UNCHANGED <<now, reqs, tokens, purge, missed>>

(* The command refuses a retention of less than a day.                     *)
Permitted(n) == n >= 1

Due(t, days) == tenant[t].state = "archived" /\ tenant[t].since < now - days

(* purgeArchivedTenants: the targets are selected ...                      *)
SelectTargets(n) ==
  /\ purge.todo = {} /\ Permitted(n)
  /\ purge' = [days |-> n, todo |-> {t \in Tenant : Due(t, n)}]
  /\ purge'.todo # {}
  /\ UNCHANGED <<now, tenant, acct, reqs, tokens, missed>>

(* Seeded fault: the target is not looked at again.                        *)
StillSelected(t) == TRUE

(* The guard of the transaction, with the row locked.                      *)
StillDue(t) == Due(t, purge.days)

(* ... and deleted one after the other, each in a transaction, or skipped. *)
PurgeTenant(t) ==
  /\ t \in purge.todo
  /\ purge' = [purge EXCEPT !.todo = @ \ {t}]
  /\ IF StillDue(t)
     THEN /\ tenant' = [tenant EXCEPT ![t].state = "gone"]
          /\ acct' = [u \in User |-> IF acct[u].tenant = t THEN NoAccount ELSE acct[u]]
          /\ missed' = [u \in User |-> IF acct[u].tenant = t THEN 0 ELSE missed[u]]
     ELSE UNCHANGED <<tenant, acct, missed>>
  /\ UNCHANGED <<now, reqs, tokens>>

(* An error ends the command; what is deleted stays deleted.               *)
PurgeFails ==
  /\ purge.todo # {}
  /\ purge' = [purge EXCEPT !.todo = {}]
  /\ UNCHANGED <<now, tenant, acct, reqs, tokens, missed>>

(* Time. A lock that runs out gives the user new attempts.                 *)
Tick ==
  /\ now < MaxTime /\ now' = now + 1
  /\ missed' = [u \in User |-> IF Locked(acct[u]) /\ acct[u].until <= now + 1
                               THEN 0 ELSE missed[u]]
  /\ UNCHANGED <<tenant, acct, reqs, tokens, purge>>

AccountsNext ==
  \/ \E r \in Req, t \in Tenant, pw \in Password : Login(r, t, pw)
  \/ \E r \in Req : Miss(r) \/ Hit(r) \/ Logout(r) \/ ChangePassword(r)
  \/ \E r \in Req, k \in tokens, at \in {"logout", "asked"} : Authorise(r, k, at)
  \/ \E r \in Req, old, new \in Password : CheckCurrent(r, old, new)
  \/ \E r \in Req, u \in User, t \in Tenant : SsoTenant(r, u, t)
  \/ \E r \in Req : SsoUser(r) \/ SsoUpdate(r)
  \/ \E r \in Req, id \in 1..MaxId : SsoInsert(r, id)
  \/ \E t \in Tenant : Archive(t) \/ Restore(t) \/ PurgeTenant(t)
  \/ \E n \in Days : SelectTargets(n)
  \/ PurgeFails \/ Tick

AccountsSpec == AccountsInit /\ [][AccountsNext]_accountsVars

----------------------------------------------------------------------------
(***************************************************************************)
(* Properties                                                              *)
(***************************************************************************)

(* A session opened with a password is accepted only while that password   *)
(* is the user's and the tenant is not archived, however a slow login      *)
(* overlaps a change of password or an archive (auth.ts:380,               *)
(* tenants.ts:114). A callback of single sign-on that read the tenant      *)
(* before it was archived and the account after is the exception.          *)
PasswordSessions ==
  \A k \in tokens : (k.by = "password" /\ Accepted(k)) =>
    acct[k.user].pw = k.pw /\ tenant[k.tenant].state = "active"

(* A session that was ended, by a log-out, a change of password, an        *)
(* archive or the end of the account, never opens again, not even when the *)
(* tenant is restored or the account made anew (tenants.ts:175).           *)
RevokedForGood ==
  [][\A k \in tokens : ~Accepted(k) => ~Accepted(k)']_accountsVars

(* Between two locks a user gets at most MaxFailures wrong passwords, and  *)
(* one more for each request that was already under way: attempts in       *)
(* parallel do not hide one another (auth.ts:181-184).                     *)
GuessesBounded ==
  \A u \in User : missed[u] <= MaxFailures - 1 + Cardinality(Req)

(* A tenant is deleted only when it has been archived without a break for  *)
(* more than the retention the operator gave, which is a day at least,     *)
(* even if it is restored, or archived anew, while a purge is under way    *)
(* (tenants.ts:239-242, 272-274).                                          *)
PurgedAfterRetention ==
  [][\A t \in Tenant : (tenant[t].state # "gone" /\ tenant'[t].state = "gone") =>
       tenant[t].state = "archived" /\ now - tenant[t].since > purge.days /\ purge.days >= 1]_accountsVars

(* A session is one of the tenant its account belongs to, also when two    *)
(* callbacks make the account of one email at the same time                *)
(* (authOidc.ts:190-194).                                                  *)
SessionsInTenant ==
  \A k \in tokens : Accepted(k) => acct[k.user].tenant = k.tenant

(* What an accepted session stands for: its password or its provider, and  *)
(* its tenant (PasswordSessions, SessionsInTenant; auth.ts:380,            *)
(* authOidc.ts:190-194), in every state of the accounts.                   *)
AccountsInv == AccountsTypeOK /\ PasswordSessions /\ SessionsInTenant

=============================================================================
