-------------------------------- MODULE Offers --------------------------------
(***************************************************************************)
(* What the console keeps in a connector to offer data: assets, policies   *)
(* and contract definitions, and the descriptors in the registry of twins  *)
(* that point to an asset. No transaction spans two of them: the dialogs   *)
(* that expose a submodel or the registry write one after the other        *)
(* (client ExposeSubmodelDialog.tsx, ExposeDtrDialog.tsx), an update of an *)
(* asset reads before it writes, and a deletion asks for the definitions   *)
(* before it deletes (server routes/assets.ts, routes/policies.ts).        *)
(*                                                                         *)
(* The connector and the registry are external: they carry out one call at *)
(* a time, refuse to create what exists and to update what does not, and   *)
(* do not look at references. Submodel, asset and definition of one name   *)
(* belong together, as the dialogs propose.                                *)
(***************************************************************************)
EXTENDS FiniteSets, Naturals

CONSTANTS
  User,         \* users, each with one dialog or request under way
  Asset,        \* names of assets, of their definitions, and of submodels
  Policy,       \* policies
  Nothing,      \* no object
  MaxJobs,      \* bound: jobs users begin
  MaxMishaps    \* bound: calls that fail or whose answer is lost

ASSUME OffersAssumption ==
  /\ Asset \cap Policy = {} /\ Nothing \notin Asset \cup Policy
  /\ {MaxJobs, MaxMishaps} \subseteq Nat

VARIABLES
  asset,     \* asset[x]: the data address of asset x, or NoAsset
  policies,  \* the policies there are
  offer,     \* offer[x]: the contract definition named after x, or NoOffer
  link,      \* link[x]: the descriptor of submodel x
  op,        \* op[u]: what u is doing
  jobs, mishaps

offersVars == <<asset, policies, offer, link, op, jobs, mishaps>>

(* A secret belongs to the kind of address it was given for: the keys of a *)
(* bucket, or the alias of an authorisation.                               *)
Kind == {"HttpData", "AmazonS3"}
Address == {a \in [kind : Kind, secret : Kind \cup {"none"}] : a.secret \in {"none", a.kind}}
NoAsset == [kind |-> "none", secret |-> "none"]
NoOffer == [assets |-> {}, access |-> Nothing, contract |-> Nothing]
Definition == [assets : (SUBSET Asset) \ {{}}, access : Policy, contract : Policy]

(* What changes behind a user's back: x as an asset, or as a definition.   *)
Changes == Asset \X {"asset", "offer"}

(* at: the next call; address: what is to be written; kept: the secret the *)
(* read has found; blind: the read failed. since and spoilt are history:   *)
(* what has changed since the read, and that others undid part of the job. *)
Idle == [job |-> "none", at |-> "idle", on |-> Nothing, address |-> NoAsset,
         kept |-> "none", blind |-> FALSE, since |-> {}, spoilt |-> FALSE]

OffersTypeOK ==
  /\ asset \in [Asset -> Address \cup {NoAsset}]
  /\ policies \subseteq Policy
  /\ offer \in [Asset -> Definition \cup {NoOffer}]
  /\ link \in [Asset -> {"missing", "plain", "linked"}]
  /\ op \in [User ->
       [job : {"none", "submodel", "registry", "edit", "drop"},
        at : {"idle", "create", "read", "write", "offer", "look", "put", "done", "failed",
              "list", "delete"},
        on : Asset \cup Policy \cup {Nothing}, address : Address \cup {NoAsset},
        kept : Kind \cup {"none"}, blind : BOOLEAN, since : SUBSET Changes,
        spoilt : BOOLEAN]]
  /\ jobs \in 0..MaxJobs /\ mishaps \in 0..MaxMishaps

OffersInit ==
  /\ asset \in [Asset -> {NoAsset, [kind |-> "HttpData", secret |-> "HttpData"]}]
  /\ policies = Policy
  /\ offer = [x \in Asset |-> NoOffer]
  /\ link = [x \in Asset |-> "plain"]
  /\ op = [u \in User |-> Idle]
  /\ jobs = 0 /\ mishaps = 0

Job == jobs < MaxJobs /\ jobs' = jobs + 1
Mishap == mishaps < MaxMishaps /\ mishaps' = mishaps + 1

----------------------------------------------------------------------------
Dialog(u) == op[u].job \in {"submodel", "registry"}

(* u goes on to w, having changed some things and undone others.           *)
Onward(u, w, changed, undone) ==
  op' = [v \in User |->
           IF v = u THEN w
           ELSE [op[v] EXCEPT
                   !.since = IF op[v].at \in {"write", "delete"} THEN @ \cup changed ELSE {},
                   !.spoilt = @ \/ (Dialog(v) /\ op[v].on \in undone)]]

At(u, at) == IF at = "idle" THEN Idle
             ELSE [op[u] EXCEPT !.at = at, !.kept = "none", !.blind = FALSE, !.since = {}]

(* After a call that did what it should, a dialog may still fail: the      *)
(* answer is lost.                                                         *)
Called(u, to, changed, undone) ==
  \/ Onward(u, At(u, to), changed, undone) /\ UNCHANGED mishaps
  \/ Dialog(u) /\ Onward(u, At(u, "failed"), changed, undone) /\ Mishap

(* A call that changed nothing.                                            *)
Moves(u, to) == op' = [op EXCEPT ![u] = At(u, to)]

Begin(u, job, at, on, address) ==
  /\ op[u].at = "idle" /\ Job
  /\ op' = [op EXCEPT ![u] = [Idle EXCEPT !.job = job, !.at = at, !.on = on,
                                          !.address = address]]
  /\ UNCHANGED <<asset, policies, offer, link, mishaps>>

(* What a dialog writes has no secret.                                     *)
Exposed == [kind |-> "HttpData", secret |-> "none"]

Expose(u, job, x) == Begin(u, job, "create", x, Exposed)

(* Submitting again after a failure begins anew.                           *)
Retry(u) ==
  /\ op[u].at = "failed"
  /\ op' = [op EXCEPT ![u] = [Idle EXCEPT !.job = op[u].job, !.at = "create",
                                          !.on = op[u].on, !.address = Exposed]]
  /\ UNCHANGED <<asset, policies, offer, link, jobs, mishaps>>

Dismiss(u) ==
  /\ op[u].at = "done"
  /\ op' = [op EXCEPT ![u] = Idle]
  /\ UNCHANGED <<asset, policies, offer, link, jobs, mishaps>>

(* A call fails and does nothing.                                          *)
CallFails(u) ==
  /\ op[u].at \in {"create", "write", "offer", "look", "put"}
  /\ Mishap /\ Moves(u, IF Dialog(u) THEN "failed" ELSE "idle")
  /\ UNCHANGED <<asset, policies, offer, link, jobs>>

----------------------------------------------------------------------------
(***************************************************************************)
(* Assets                                                                  *)
(***************************************************************************)

(* Seeded fault: an asset that exists is an error like any other.          *)
AlwaysFails == "failed"

(* The asset is there already: it is updated.                              *)
OnConflict == "read"

(* A dialog creates its asset.                                             *)
CreateAsset(u) ==
  LET x == op[u].on IN
  /\ op[u].at = "create"
  /\ IF asset[x] = NoAsset
     THEN /\ asset' = [asset EXCEPT ![x] = op[u].address]
          /\ Called(u, "offer", {<<x, "asset">>}, {})
     ELSE /\ Moves(u, OnConflict)
          /\ UNCHANGED <<asset, mishaps>>
  /\ UNCHANGED <<policies, offer, link, jobs>>

(* A page creates an asset.                                                *)
AddAsset(u, x, a) ==
  /\ op[u].at = "idle" /\ Job /\ asset[x] = NoAsset
  /\ asset' = [asset EXCEPT ![x] = a]
  /\ Onward(u, op[u], {<<x, "asset">>}, {})
  /\ UNCHANGED <<policies, offer, link, mishaps>>

(* Seeded fault: what was left out is gone.                                *)
NoSecret(cur, a) == "none"

(* preserveOmittedSecrets: the secret of the asset as it is, if the kind   *)
(* of address does not change.                                             *)
Preserved(cur, a) == IF cur.kind = a.kind THEN cur.secret ELSE "none"

Edit(u, x, a) == asset[x] # NoAsset /\ Begin(u, "edit", "read", x, a)

(* An update reads the asset; if that fails it goes on all the same.       *)
ReadAsset(u) ==
  LET w(kept, blind) ==
        [op[u] EXCEPT !.at = "write", !.kept = kept, !.blind = blind, !.since = {}] IN
  /\ op[u].at = "read"
  /\ \/ /\ Onward(u, w(Preserved(asset[op[u].on], op[u].address), FALSE), {}, {})
        /\ UNCHANGED mishaps
     \/ Mishap /\ Onward(u, w("none", TRUE), {}, {})
  /\ UNCHANGED <<asset, policies, offer, link, jobs>>

(* Then it replaces the whole address.                                     *)
WriteAsset(u) ==
  LET x == op[u].on
      a == op[u].address
      written == IF a.secret = "none" THEN [a EXCEPT !.secret = op[u].kept] ELSE a
      next(ok) == IF ~Dialog(u) THEN "idle" ELSE IF ok THEN "offer" ELSE "failed"
  IN /\ op[u].at = "write"
     /\ IF asset[x] # NoAsset
        THEN asset' = [asset EXCEPT ![x] = written] /\ Called(u, next(TRUE), {<<x, "asset">>}, {})
        ELSE Moves(u, next(FALSE)) /\ UNCHANGED <<asset, mishaps>>
     /\ UNCHANGED <<policies, offer, link, jobs>>

----------------------------------------------------------------------------
(***************************************************************************)
(* Definitions and descriptors                                             *)
(***************************************************************************)

(* A dialog creates the definition of its asset. One of that name is taken *)
(* for its own.                                                            *)
MakeOffer(u) ==
  LET x == op[u].on
      next == IF op[u].job = "submodel" THEN "look" ELSE "done"
  IN /\ op[u].at = "offer"
     /\ IF offer[x] = NoOffer
        THEN \E p, q \in Policy :
               /\ offer' = [offer EXCEPT ![x] = [assets |-> {x}, access |-> p, contract |-> q]]
               /\ Called(u, next, {<<x, "offer">>}, {})
        ELSE Moves(u, next) /\ UNCHANGED <<offer, mishaps>>
     /\ UNCHANGED <<asset, policies, link, jobs>>

(* Seeded fault: a submodel that is not found is passed over.              *)
PassedOver == "done"

(* The submodel is not found.                                              *)
NotFound == "failed"

(* The descriptor is read ...                                              *)
Look(u) ==
  /\ op[u].at = "look"
  /\ Moves(u, IF link[op[u].on] = "missing" THEN NotFound ELSE "put")
  /\ UNCHANGED <<asset, policies, offer, link, jobs, mishaps>>

(* ... and written back with the asset in its endpoint.                    *)
Put(u) ==
  LET x == op[u].on IN
  /\ op[u].at = "put"
  /\ IF link[x] = "missing" THEN Moves(u, "failed") /\ UNCHANGED <<link, mishaps>>
     ELSE link' = [link EXCEPT ![x] = "linked"] /\ Called(u, "done", {}, {})
  /\ UNCHANGED <<asset, policies, offer, jobs>>

(* A page creates or replaces a definition, or deletes it.                 *)
Define(u, x, d) ==
  /\ op[u].at = "idle" /\ Job /\ d # offer[x]
  /\ offer' = [offer EXCEPT ![x] = d]
  /\ Onward(u, op[u], {<<x, "offer">>}, IF offer[x] = NoOffer THEN {} ELSE {x})
  /\ UNCHANGED <<asset, policies, link, mishaps>>

(* A page replaces or deletes the descriptors of a shell.                  *)
Redescribe(u, x, to) ==
  /\ op[u].at = "idle" /\ Job /\ link[x] # "missing"
  /\ link' = [link EXCEPT ![x] = to]
  /\ Onward(u, op[u], {}, {x})
  /\ UNCHANGED <<asset, policies, offer, mishaps>>

----------------------------------------------------------------------------
(***************************************************************************)
(* Deletions                                                               *)
(***************************************************************************)

(* Seeded fault: of a definition of several assets only one is looked at,  *)
(* and of its policies only one.                                           *)
RefersToOne(d, o) == d.assets = {o} \/ o = d.access

Refers(d, o) == o \in d.assets \/ o \in {d.access, d.contract}

Exists(o) == IF o \in Asset THEN asset[o] # NoAsset ELSE o \in policies

Remove(u, o) == Exists(o) /\ Begin(u, "drop", "list", o, NoAsset)

(* What a definition refers to is not deleted. If the definitions cannot   *)
(* be read there are none.                                                 *)
ListOffers(u) ==
  LET w(blind) == [op[u] EXCEPT !.at = "delete", !.blind = blind, !.since = {}] IN
  /\ op[u].at = "list"
  /\ \/ /\ Onward(u, IF \E x \in Asset : Refers(offer[x], op[u].on) THEN Idle ELSE w(FALSE),
                  {}, {})
        /\ UNCHANGED mishaps
     \/ Mishap /\ Onward(u, w(TRUE), {}, {})
  /\ UNCHANGED <<asset, policies, offer, link, jobs>>

Drop(u) ==
  LET o == op[u].on IN
  /\ op[u].at = "delete"
  /\ asset' = [x \in Asset |-> IF x = o THEN NoAsset ELSE asset[x]]
  /\ policies' = policies \ {o}
  /\ Onward(u, Idle, {<<o, "asset">>} \cap Changes, {o})
  /\ UNCHANGED <<offer, link, jobs, mishaps>>

----------------------------------------------------------------------------
DialogStep(u) ==
  \/ CreateAsset(u) \/ MakeOffer(u) \/ Look(u) \/ Put(u)
  \/ Dialog(u) /\ (ReadAsset(u) \/ WriteAsset(u))

OffersNext ==
  \E u \in User :
    \/ \E x \in Asset :
         \/ \E job \in {"submodel", "registry"} : Expose(u, job, x)
         \/ \E a \in Address : AddAsset(u, x, a) \/ Edit(u, x, a)
         \/ \E d \in Definition \cup {NoOffer} : Define(u, x, d)
         \/ \E to \in {"plain", "missing"} : Redescribe(u, x, to)
    \/ \E o \in Asset \cup Policy : Remove(u, o)
    \/ Retry(u) \/ Dismiss(u) \/ CallFails(u)
    \/ CreateAsset(u) \/ MakeOffer(u) \/ Look(u) \/ Put(u)
    \/ ReadAsset(u) \/ WriteAsset(u) \/ ListOffers(u) \/ Drop(u)

OffersSpec == OffersInit /\ [][OffersNext]_offersVars

----------------------------------------------------------------------------
(***************************************************************************)
(* Properties                                                              *)
(***************************************************************************)

(* No definition is left without its asset or policy by a deletion, except *)
(* one that was written between its two calls, and except when it could    *)
(* not read the definitions (routes/assets.ts:236-275,                     *)
(* routes/policies.ts:202-237).                                            *)
DeletedUnoffered ==
  [][\A o \in Asset \cup Policy :
       Exists(o) /\ ~Exists(o)' =>
         \E u \in User :
           /\ op[u].at = "delete" /\ op[u].on = o
           /\ \/ op[u].blind
              \/ \A x \in Asset :
                   o \in offer'[x].assets \cup {offer'[x].access, offer'[x].contract}
                     => <<x, "offer">> \in op[u].since]_offersVars

(* An asset loses its secret only to an update that could not read it, or  *)
(* that read it before it was changed by others, as long as its address is *)
(* of the same kind: also when a dialog exposes it anew                    *)
(* (routes/assets.ts:50-53, 225-227).                                      *)
SecretsKept ==
  [][\A x \in Asset :
       (asset[x].secret # "none" /\ asset'[x].kind = asset[x].kind) =>
         \/ asset'[x].secret # "none"
         \/ \E u \in User : /\ op[u].at = "write" /\ op[u].on = x
                            /\ op[u].blind \/ <<x, "asset">> \in op[u].since]_offersVars

(* What a dialog tells to be exposed has an asset, a definition, and for a *)
(* submodel a descriptor that points to it, whatever failed before and     *)
(* whoever exposed it too, unless others undid it meanwhile                *)
(* (ExposeSubmodelDialog.tsx:180-181, 193-195).                            *)
ExposedWhole ==
  \A u \in User : op[u].at = "done" /\ ~op[u].spoilt =>
    LET x == op[u].on IN
    /\ asset[x] # NoAsset /\ offer[x] # NoOffer
    /\ op[u].job = "submodel" => link[x] = "linked"

(* What is left of a failed attempt never blocks the next: whoever submits *)
(* again and again gets there, unless the submodel is gone                 *)
(* (ExposeSubmodelDialog.tsx:154-155, ExposeDtrDialog.tsx:141-142).        *)
ExposedEventually ==
  \A u \in User :
    Dialog(u) ~> (op[u].at = "done" \/ (op[u].job = "submodel" /\ link[op[u].on] = "missing"))

(* What the dialogs have told (ExposedWhole;                               *)
(* ExposeSubmodelDialog.tsx:193-195), in every state of the connector.     *)
OffersInv == OffersTypeOK /\ ExposedWhole

=============================================================================
