----------------------------- MODULE TransferPage -----------------------------
(***************************************************************************)
(* What the page of transfers does on its own (client PageTransfer.tsx):   *)
(* the chain that starts the bulk transfer of a reserved transfer once its *)
(* access token is there, the notice of a transfer that has newly failed,  *)
(* and the reset of both when the user goes to another connector.          *)
(*                                                                         *)
(* The page keeps its notes (the "refs") outside of what it renders, and   *)
(* its effects run after a render in their order: the chain, the reset,    *)
(* the notices. The answer to a request arrives at any time, on whichever  *)
(* connector the page is by then. Not modelled: leaving the page.          *)
(***************************************************************************)
EXTENDS Naturals, Sequences, FiniteSets

CONSTANTS
  Site,         \* connectors, between which the user changes
  Xfer,         \* transfers
  At,           \* At[x]: the connector of transfer x
  MaxTries,     \* MAX_TRIES
  MaxChanges    \* bound: changes of the connector

ASSUME PageAssumption ==
  /\ At \in [Xfer -> Site]
  /\ MaxTries \in Nat \ {0} /\ MaxChanges \in Nat

VARIABLES
  edc,       \* edc[x]: the transfer, as the server would list it
  site,      \* the connector the page is on
  fetch,     \* fetch[s]: the list on its way, as it was read
  data,      \* data[s]: the last list of connector s, kept by the query cache
  pending,   \* pendingBulkRef: the attempts so far, or Unreserved
  fired,     \* firedBulkRef
  flight,    \* flight[x]: starts under way, with the attempts before each
  asked,     \* asked[x]: the user's request to end x
  told,      \* toastedRef
  own,       \* userActionRef
  seeded,    \* initializedRef
  starts, failures, notices,  \* history: starts, failed starts and notices of x
  watched,   \* history: transfers seen under way since the page is on this connector
  touched,   \* history: transfers the user tried to end since then
  changes

pageVars == <<edc, site, fetch, data, pending, fired, flight, asked, told, own, seeded,
              starts, failures, notices, watched, touched, changes>>

world == <<edc, asked>>
chain == <<pending, fired, flight, starts, failures>>
notes == <<told, own, seeded, notices, watched, touched>>

(* Not a number of attempts: there is no reservation.                      *)
Unreserved == MaxTries + 1

(* What a list says of a transfer: TERMINATED is shown as a failure, and   *)
(* as completed once the server has noted that (user_completed).           *)
Status == {"absent", "requested", "started", "failed", "ended", "noted"}
Shown == [absent |-> "absent", requested |-> "active", started |-> "started",
          failed |-> "failed", ended |-> "failed", noted |-> "done"]
Over(n) == n \in {"failed", "done"}
Listed == [Xfer -> {"absent", "active", "started", "failed", "done"}]

Listing(s) == [x \in Xfer |-> IF At[x] = s THEN Shown[edc[x]] ELSE "absent"]
Empty == [x \in Xfer |-> "absent"]

PageTypeOK ==
  /\ edc \in [Xfer -> Status]
  /\ site \in Site
  /\ fetch \in [Site -> {<<>>} \cup {<<l>> : l \in Listed}]
  /\ data \in [Site -> Listed]
  /\ pending \in [Xfer -> (0..(MaxTries - 1)) \cup {Unreserved}]
  /\ fired \subseteq Xfer
  /\ flight \in [Xfer -> Seq(0..(MaxTries - 1))]
  /\ asked \in [Xfer -> {"no", "starting", "sent", "taken"}]
  /\ told \subseteq Xfer /\ own \subseteq told /\ seeded \in BOOLEAN
  /\ {starts, failures, notices} \subseteq [Xfer -> Nat]
  /\ watched \subseteq Xfer /\ touched \subseteq Xfer /\ changes \in 0..MaxChanges

PageInit ==
  /\ edc \in [Xfer -> {"absent", "started", "failed"}]
  /\ site \in Site
  /\ fetch = [s \in Site |-> <<>>]
  /\ data = [s \in Site |-> Empty]
  /\ pending = [x \in Xfer |-> Unreserved]
  /\ fired = {} /\ flight = [x \in Xfer |-> <<>>]
  /\ asked = [x \in Xfer |-> "no"]
  /\ told = {} /\ own = {} /\ seeded = FALSE
  /\ starts = [x \in Xfer |-> 0] /\ failures = [x \in Xfer |-> 0] /\ notices = [x \in Xfer |-> 0]
  /\ watched = {} /\ touched = {} /\ changes = 0

----------------------------------------------------------------------------
(***************************************************************************)
(* The effects                                                             *)
(***************************************************************************)

(* Seeded fault: nothing keeps a start from being sent twice.              *)
NeverUnderWay(x) == FALSE

(* A start of x is under way.                                              *)
UnderWay(x) == x \in fired

(* The chain, over list l: reservations of transfers that are over, or     *)
(* older than five minutes, are dropped; a transfer that has started and   *)
(* has a token is started in bulk, once at a time. Which tokens there are, *)
(* and how old a reservation is, is left open.                             *)
Chained(l, token, old) ==
  LET reserved == {x \in Xfer : pending[x] # Unreserved /\ l[x] # "absent"}
      dropped == {x \in reserved : Over(l[x]) \/ x \in old}
      fires == {x \in reserved \ dropped : l[x] = "started" /\ x \in token /\ ~UnderWay(x)}
  IN /\ pending' = [x \in Xfer |-> IF x \in dropped THEN Unreserved ELSE pending[x]]
     /\ fired' = fired \cup fires
     /\ flight' = [x \in Xfer |-> IF x \in fires THEN Append(flight[x], pending[x]) ELSE flight[x]]
     /\ starts' = [x \in Xfer |-> IF x \in fires THEN starts[x] + 1 ELSE starts[x]]
     /\ UNCHANGED failures

Chain(l) ==
  LET reserved == {x \in Xfer : pending[x] # Unreserved /\ l[x] # "absent"} IN
  \E token \in SUBSET reserved : \E old \in SUBSET reserved : Chained(l, token, old)

(* What the first list of a connector marks as told: what is over by then. *)
Seed(l) == {x \in Xfer : Over(l[x])}

(* The notices, over list l: none for the first list of a connector, then  *)
(* one for each transfer that has newly failed, unless the user ended it.  *)
Notices(l) ==
  LET new == {x \in Xfer : l[x] = "failed" /\ x \notin told} IN
  IF l = Empty THEN UNCHANGED <<told, seeded, notices, watched>>
  ELSE /\ seeded' = TRUE
       /\ watched' = watched \cup {x \in Xfer : l[x] \in {"active", "started"}}
       /\ told' = told \cup (IF seeded THEN new ELSE Seed(l))
       /\ notices' = [x \in Xfer |-> IF seeded /\ x \in new \ own THEN notices[x] + 1
                                     ELSE notices[x]]

----------------------------------------------------------------------------
(***************************************************************************)
(* Lists                                                                   *)
(***************************************************************************)

(* The poll of the connector the page is on: one at a time.                *)
Fetch ==
  /\ fetch[site] = <<>>
  /\ fetch' = [fetch EXCEPT ![site] = <<Listing(site)>>]
  /\ UNCHANGED <<world, site, data, chain, notes, changes>>

(* A list arrives. The effects run if the page shows that connector, and   *)
(* only if the list is not what it was.                                    *)
Arrive(s) ==
  LET l == fetch[s][1] IN
  /\ fetch[s] # <<>>
  /\ fetch' = [fetch EXCEPT ![s] = <<>>]
  /\ data' = [data EXCEPT ![s] = l]
  /\ IF s = site /\ l # data[s]
     THEN Chain(l) /\ Notices(l) /\ UNCHANGED <<own, touched>>
     ELSE UNCHANGED <<chain, notes>>
  /\ UNCHANGED <<world, site, changes>>

FetchFails(s) ==
  /\ fetch[s] # <<>>
  /\ fetch' = [fetch EXCEPT ![s] = <<>>]
  /\ UNCHANGED <<world, site, data, chain, notes, changes>>

(* The list of tokens changed, or the language: the chain runs by itself.  *)
TokensChange ==
  /\ Chain(data[site])
  /\ UNCHANGED <<world, site, fetch, data, notes, changes>>

(* Seeded fault: the notes of the last connector are taken along.          *)
Kept(b) == b

(* The reset: the first list of the connector is a first list again.       *)
Reset(b) == FALSE

(* Another connector: the chain still runs with the old notes, on what the *)
(* cache has of the new connector; then all notes are reset; then that     *)
(* list, if there is one, is a first list.                                 *)
ChangeSite(s) ==
  LET l == data[s] IN
  /\ s # site /\ changes < MaxChanges
  /\ changes' = changes + 1
  /\ site' = s
  /\ \E fires \in SUBSET {x \in Xfer : pending[x] # Unreserved /\ l[x] = "started" /\ ~UnderWay(x)} :
          /\ flight' = [x \in Xfer |-> IF x \in fires THEN Append(flight[x], pending[x])
                                       ELSE flight[x]]
          /\ starts' = [x \in Xfer |-> IF x \in fires THEN starts[x] + 1 ELSE starts[x]]
  /\ pending' = [x \in Xfer |-> Unreserved] /\ fired' = {}
  /\ seeded' = (Reset(seeded) \/ l # Empty)
  /\ told' = Seed(l) /\ own' = {} /\ touched' = {}
  /\ watched' = {x \in Xfer : l[x] \in {"active", "started"}}
  /\ UNCHANGED <<world, fetch, data, failures, notices>>

----------------------------------------------------------------------------
(***************************************************************************)
(* Requests of the page                                                    *)
(***************************************************************************)

(* handleStart: a transfer is started, to be moved in bulk ...             *)
Start(x) ==
  /\ edc[x] = "absent" /\ asked[x] = "no" /\ At[x] = site
  /\ edc' = [edc EXCEPT ![x] = "requested"]
  /\ asked' = [asked EXCEPT ![x] = "starting"]
  /\ UNCHANGED <<site, fetch, data, chain, notes, changes>>

(* After a request the list is read anew, if its connector is still shown: *)
(* one on its way is forgotten.                                            *)
Invalidated(s) == IF s = site THEN [fetch EXCEPT ![s] = <<>>] ELSE fetch

(* ... and reserved when the answer is there.                              *)
Reserve(x) ==
  /\ asked[x] = "starting"
  /\ asked' = [asked EXCEPT ![x] = "no"]
  /\ pending' = [pending EXCEPT ![x] = 0]
  /\ fetch' = Invalidated(At[x])
  /\ UNCHANGED <<edc, site, data, fired, flight, starts, failures, notes, changes>>

(* The bulk transfer was accepted: the reservation is over.                *)
StartOk(x) ==
  /\ flight[x] # <<>>
  /\ flight' = [flight EXCEPT ![x] = Tail(@)]
  /\ pending' = [pending EXCEPT ![x] = Unreserved]
  /\ UNCHANGED <<world, site, fetch, data, fired, starts, failures, notes, changes>>

GivenUp(n) == n >= MaxTries

(* It was refused, or its answer was lost: another attempt, up to a limit. *)
StartFails(x) ==
  LET n == Head(flight[x]) + 1 IN
  /\ flight[x] # <<>>
  /\ flight' = [flight EXCEPT ![x] = Tail(@)]
  /\ fired' = fired \ {x}
  /\ pending' = [pending EXCEPT ![x] = IF GivenUp(n) THEN Unreserved ELSE n]
  /\ failures' = [failures EXCEPT ![x] = @ + 1]
  /\ UNCHANGED <<world, site, fetch, data, starts, notes, changes>>

(* What the page notes before it asks for x to be ended.                   *)
Noted(x) == {x}

(* handleComplete, handleTerminate.                                        *)
Act(x) ==
  /\ asked[x] = "no" /\ data[site][x] \in {"active", "started"}
  /\ asked' = [asked EXCEPT ![x] = "sent"]
  /\ told' = told \cup Noted(x) /\ own' = own \cup Noted(x)
  /\ touched' = touched \cup {x}
  /\ UNCHANGED <<edc, site, fetch, data, chain, seeded, notices, watched, changes>>

ActTakes(x) ==
  /\ asked[x] = "sent" /\ edc[x] \in {"requested", "started"}
  /\ asked' = [asked EXCEPT ![x] = "taken"]
  /\ edc' = [edc EXCEPT ![x] = "ended"]
  /\ UNCHANGED <<site, fetch, data, chain, notes, changes>>

ActOk(x) ==
  /\ asked[x] = "taken"
  /\ asked' = [asked EXCEPT ![x] = "no"]
  /\ fetch' = Invalidated(At[x])
  /\ UNCHANGED <<edc, site, data, chain, notes, changes>>

(* The one note is taken back, the other is not.                           *)
ActFails(x) ==
  /\ asked[x] \in {"sent", "taken"}
  /\ asked' = [asked EXCEPT ![x] = "no"]
  /\ own' = own \ {x}
  /\ UNCHANGED <<edc, site, fetch, data, chain, told, seeded, notices, watched, touched, changes>>

(* The connector: a transfer starts, fails, or is ended by the bulk        *)
(* transfer or on request, which the server notes some time after.         *)
Become(x, from, to) ==
  /\ edc[x] \in from
  /\ edc' = [edc EXCEPT ![x] = to]
  /\ UNCHANGED <<asked, site, fetch, data, chain, notes, changes>>

Goes(x) ==
  \/ Become(x, {"requested"}, "started")
  \/ Become(x, {"requested", "started"}, "failed")
  \/ starts[x] > 0 /\ Become(x, {"started"}, "ended")
  \/ Become(x, {"ended"}, "noted")

PageNext ==
  \/ Fetch \/ TokensChange
  \/ \E s \in Site : Arrive(s) \/ FetchFails(s) \/ ChangeSite(s)
  \/ \E x \in Xfer :
       \/ Start(x) \/ Reserve(x) \/ StartOk(x) \/ StartFails(x)
       \/ Act(x) \/ ActTakes(x) \/ ActOk(x) \/ ActFails(x) \/ Goes(x)

PageSpec == PageInit /\ [][PageNext]_pageVars

----------------------------------------------------------------------------
(***************************************************************************)
(* Properties                                                              *)
(***************************************************************************)

(* A bulk transfer is started anew only after the last start has failed,   *)
(* and at most MaxTries times, although the notes that see to it are reset *)
(* while a start is under way, and made again by its answer                *)
(* (PageTransfer.tsx:429-449, 472-473).                                    *)
StartedAgainAfterFailure ==
  \A x \in Xfer : starts[x] <= failures[x] + 1 /\ starts[x] <= MaxTries

(* A notice of failure is about a transfer that the list before did not    *)
(* show as over, and that list was of the same connector: nothing is told  *)
(* of what was over before the page looked, nor twice. And it is not about *)
(* one that the user asked to end while the page stays on the connector,   *)
(* even if the poll shows the end before the answer arrives                *)
(* (PageTransfer.tsx:274-275, 463-465, 490-503, 567-569).                  *)
NoticesDue ==
  [][\A x \in Xfer : notices'[x] # notices[x] =>
       /\ site = At[x] /\ site' = site /\ x \notin touched
       /\ data[site] # Empty /\ ~Over(data[site][x])]_pageVars

(* Whatever was seen under way on this connector and is listed as failed   *)
(* was told, unless the user tried to end it (PageTransfer.tsx:490-503).   *)
FailuresTold ==
  \A x \in watched : data[site][x] = "failed" => notices[x] > 0 \/ x \in touched

(* The page as a whole: starts follow failures, and failures are told      *)
(* (PageTransfer.tsx:429-449, 490-503), in every state of its notes.       *)
PageInv == PageTypeOK /\ StartedAgainAfterFailure /\ FailuresTold

=============================================================================
