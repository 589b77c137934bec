--------------------------- MODULE TransferRecords ---------------------------
(***************************************************************************)
(* What the console remembers of transfers and negotiations: the rows of   *)
(* transfer_metadata and negotiation_metadata, which laid over the states  *)
(* the connector reports make the lists, the success rates and the         *)
(* notifications. Rows are written by the requests that start, fetch,      *)
(* complete, terminate and delete (routes/transfers.ts), by bulk transfers *)
(* that end (completeEdcTransfer in lib/bulkTransferService.ts), and by    *)
(* everyone who happens to see a final state: the lists                    *)
(* (routes/transfers.ts, routes/negotiations.ts) and the poller            *)
(* (lib/notificationGenerator.ts).                                         *)
(*                                                                         *)
(* One connector. The connector itself is external; of the reason of a     *)
(* termination only counts whether it reads "Completed by consumer".       *)
(***************************************************************************)
EXTENDS FiniteSets, Naturals

CONSTANTS
  Transfer,     \* ids of transfer processes
  Negotiation,  \* ids of negotiations
  Req,          \* requests under way at a time that change something
  NoId,         \* no id
  MaxIds,       \* bound: ids that are started
  MaxFaults     \* bound: calls that fail or whose answer is lost

ASSUME RecordsAssumption ==
  /\ Transfer \cap Negotiation = {}
  /\ NoId \notin Transfer \cup Negotiation
  /\ {MaxIds, MaxFaults} \subseteq Nat

VARIABLES
  edc,      \* edc[i]: what the connector knows of i
  row,      \* row[i]: the row of i in the metadata table
  alerted,  \* the ids a failure was notified of
  req,      \* req[r]: request r
  list,     \* a list request
  poll,     \* the poller: what it has yet to record, under which name
  faults,
  acked     \* history: the transfers whose completion was recorded

recordsVars == <<edc, row, alerted, req, list, poll, faults, acked>>

Id == Transfer \cup Negotiation

Null == "NULL"
Final == {"COMPLETED", "FINALIZED", "TERMINATED", "DEPROVISIONED"}
EdcState == [state : {"none", "STARTED"} \cup Final, byConsumer : BOOLEAN]

NoRow == [started |-> FALSE, done |-> Null, user |-> FALSE, last |-> Null,
          hidden |-> FALSE, fetched |-> FALSE]
NoReq == [at |-> "idle", id |-> NoId, left |-> {}, all |-> {}]
NoList == [at |-> "idle", read |-> {}, raw |-> <<>>, meta |-> <<>>, left |-> {}]

Row == [started : BOOLEAN, done : {Null, "seen", "acted"}, user : BOOLEAN,
        last : {Null} \cup Final, hidden : BOOLEAN, fetched : BOOLEAN]

RecordsTypeOK ==
  /\ edc \in [Id -> EdcState]
  /\ row \in [Id -> Row]
  /\ \A i \in Id : row[i].last # Null => row[i].done # Null
  /\ alerted \subseteq Id /\ acked \subseteq Transfer
  /\ req \in [Req -> [at : {"idle", "insert", "pull", "end", "mark", "close", "bulkMark",
                            "delete"},
                      id : Id \cup {NoId}, left : SUBSET Id, all : SUBSET Id]]
  /\ list.at \in {"idle", "transfers", "negotiations"}
  /\ list.left \subseteq Id \X Final /\ poll \subseteq Id \X Final
  /\ faults \in 0..MaxFaults

RecordsInit ==
  /\ edc = [i \in Id |-> [state |-> "none", byConsumer |-> FALSE]]
  /\ row = [i \in Id |-> NoRow]
  /\ alerted = {}
  /\ req = [r \in Req |-> NoReq]
  /\ list = NoList /\ poll = {}
  /\ faults = 0 /\ acked = {}

Fault == faults < MaxFaults /\ faults' = faults + 1

----------------------------------------------------------------------------
(***************************************************************************)
(* What a state is called and how it counts                                *)
(***************************************************************************)

(* mapTransfer: the name in the list, given user_completed of the row.     *)
ListName(x, user) ==
  IF x.state = "TERMINATED" /\ (user \/ x.byConsumer) THEN "COMPLETED" ELSE x.state

(* Seeded fault: the reason of the termination is not read.                *)
StateAsItIs(x) == x.state

(* pollConnector: the name the poller records.                             *)
PollName(x) ==
  IF x.state = "TERMINATED" /\ x.byConsumer THEN "COMPLETED" ELSE x.state

(* getTransferCounts: COMPLETED in the connector's own database.           *)
DbCompleted(x) == x.state = "COMPLETED" \/ (x.state = "TERMINATED" /\ x.byConsumer)

(* GET stats/summary: how a row of transfer_metadata counts.               *)
Counted(x) ==
  IF x.done = Null THEN "no"
  ELSE IF x.last = "COMPLETED" \/ x.user THEN "success"
  ELSE IF x.last = "TERMINATED" THEN "failure" ELSE "no"

----------------------------------------------------------------------------
(***************************************************************************)
(* The connector (external)                                                *)
(***************************************************************************)

(* A process ends by itself; resources of an ended transfer are removed.   *)
Ends(i) ==
  /\ \/ /\ edc[i].state = "STARTED"
        /\ \E s \in {"TERMINATED", IF i \in Transfer THEN "COMPLETED" ELSE "FINALIZED"} :
             edc' = [edc EXCEPT ![i].state = s]
     \/ /\ i \in Transfer /\ edc[i].state \in {"COMPLETED", "TERMINATED"}
        /\ edc' = [edc EXCEPT ![i].state = "DEPROVISIONED"]
  /\ UNCHANGED <<row, alerted, req, list, poll, faults, acked>>

(* POST terminate: refused when the process has ended.                     *)
Terminated(i, byConsumer) ==
  /\ edc[i].state = "STARTED"
  /\ edc' = [edc EXCEPT ![i] = [state |-> "TERMINATED", byConsumer |-> byConsumer]]

(* It fails: refused, not sent, or the answer is lost.                     *)
NotTerminated(i, byConsumer) ==
  \/ edc[i].state # "STARTED" /\ UNCHANGED <<edc, faults>>
  \/ Fault /\ UNCHANGED edc
  \/ Fault /\ Terminated(i, byConsumer)

----------------------------------------------------------------------------
(***************************************************************************)
(* The requests                                                            *)
(***************************************************************************)

Goto(r, at) == req' = [req EXCEPT ![r].at = at]
Done(r) == req' = [req EXCEPT ![r] = NoReq]

(* INSERT ... ON CONFLICT DO UPDATE.                                       *)
Upsert(i, x) == row' = [row EXCEPT ![i] = x]

(* POST transfers/start, negotiations/start: the connector has an id ...   *)
Start(r, i) ==
  /\ req[r].at = "idle" /\ edc[i].state = "none"
  /\ Cardinality({j \in Id : edc[j].state # "none"}) < MaxIds
  /\ edc' = [edc EXCEPT ![i].state = "STARTED"]
  /\ req' = [req EXCEPT ![r] = [NoReq EXCEPT !.at = "insert", !.id = i]]
  /\ UNCHANGED <<row, alerted, list, poll, faults, acked>>

(* ... and started_at is stored, unless a row is there already.            *)
InsertStarted(r) ==
  LET i == req[r].id IN
  /\ req[r].at = "insert" /\ Done(r)
  /\ \/ row[i] = NoRow /\ Upsert(i, [NoRow EXCEPT !.started = TRUE]) /\ UNCHANGED faults
     \/ row[i] # NoRow /\ UNCHANGED <<row, faults>>
     \/ Fault /\ UNCHANGED row
  /\ UNCHANGED <<edc, alerted, list, poll, acked>>

(* POST fetch: data was pulled.                                            *)
Fetch(i) ==
  /\ edc[i].state = "STARTED"
  /\ Upsert(i, [row[i] EXCEPT !.fetched = TRUE])
  /\ UNCHANGED <<edc, alerted, req, list, poll, faults, acked>>

(* POST complete: was the data fetched?                                    *)
Complete(r, i) ==
  /\ req[r].at = "idle" /\ edc[i].state # "none"
  /\ req' = [req EXCEPT ![r] = [NoReq EXCEPT !.at = IF row[i].fetched THEN "end" ELSE "pull",
                                             !.id = i]]
  /\ UNCHANGED <<edc, row, alerted, list, poll, faults, acked>>

(* If not, it is now; an error leaves nothing.                             *)
Pull(r) ==
  LET i == req[r].id IN
  /\ req[r].at = "pull" /\ Goto(r, "end")
  /\ \/ Upsert(i, [row[i] EXCEPT !.fetched = TRUE])
     \/ UNCHANGED row
  /\ UNCHANGED <<edc, alerted, list, poll, faults, acked>>

(* The process is terminated as completed; an error ends the request.      *)
End(r) ==
  LET i == req[r].id IN
  /\ req[r].at = "end"
  /\ \/ Terminated(i, TRUE) /\ Goto(r, "mark") /\ UNCHANGED faults
     \/ NotTerminated(i, TRUE) /\ Done(r)
  /\ UNCHANGED <<row, alerted, list, poll, acked>>

(* And so is the row.                                                      *)
Mark(r) ==
  LET i == req[r].id IN
  /\ req[r].at = "mark" /\ Done(r)
  /\ \/ /\ Upsert(i, [row[i] EXCEPT !.done = "acted", !.user = TRUE])
        /\ acked' = acked \cup {i}
        /\ UNCHANGED faults
     \/ Fault /\ UNCHANGED <<row, acked>>
  /\ UNCHANGED <<edc, alerted, list, poll>>

(* POST terminate.                                                         *)
Terminate(r, i) ==
  /\ req[r].at = "idle" /\ edc[i].state # "none"
  /\ \/ /\ Terminated(i, FALSE) /\ UNCHANGED faults
        /\ req' = [req EXCEPT ![r] = [NoReq EXCEPT !.at = "close", !.id = i]]
     \/ NotTerminated(i, FALSE) /\ UNCHANGED req
  /\ UNCHANGED <<row, alerted, list, poll, acked>>

Close(r) ==
  LET i == req[r].id IN
  /\ req[r].at = "close" /\ Done(r)
  /\ \/ Upsert(i, [row[i] EXCEPT !.done = "acted"]) /\ UNCHANGED faults
     \/ Fault /\ UNCHANGED row
  /\ UNCHANGED <<edc, alerted, list, poll, acked>>

(* completeEdcTransfer: the same for a bulk transfer, whose reason the     *)
(* others do not know, and whose errors are left aside.                    *)
Bulk(r, i) ==
  /\ req[r].at = "idle" /\ edc[i].state # "none"
  /\ req' = [req EXCEPT ![r] = [NoReq EXCEPT !.at = "bulkMark", !.id = i]]
  /\ \/ Terminated(i, FALSE) /\ UNCHANGED faults
     \/ NotTerminated(i, FALSE)
  /\ UNCHANGED <<row, alerted, list, poll, acked>>

BulkMark(r) ==
  LET i == req[r].id IN
  /\ req[r].at = "bulkMark" /\ Done(r)
  /\ \/ /\ Upsert(i, [row[i] EXCEPT !.done = "acted", !.user = TRUE])
        /\ acked' = acked \cup {i}
        /\ UNCHANGED faults
     \/ Fault /\ UNCHANGED <<row, acked>>
  /\ UNCHANGED <<edc, alerted, list, poll>>

(* DELETE transfers: all that the connector lists ...                      *)
Delete(r) ==
  LET there == {i \in Transfer : edc[i].state # "none"} IN
  /\ req[r].at = "idle" /\ there # {}
  /\ req' = [req EXCEPT ![r] = [NoReq EXCEPT !.at = "delete", !.all = there,
                                  !.left = {i \in there : edc[i].state = "STARTED"}]]
  /\ UNCHANGED <<edc, row, alerted, list, poll, faults, acked>>

(* ... is terminated if it is STARTED, as far as that works ...            *)
EndOne(r, i) ==
  /\ i \in req[r].left
  /\ req' = [req EXCEPT ![r].left = @ \ {i}]
  /\ \/ Terminated(i, FALSE) /\ UNCHANGED faults
     \/ NotTerminated(i, FALSE)
  /\ UNCHANGED <<row, alerted, list, poll, acked>>

(* ... and then hidden, in any order; an error hinders no other id.        *)
HideOne(r, i) ==
  /\ req[r].left = {} /\ i \in req[r].all
  /\ IF req[r].all = {i} THEN Done(r) ELSE req' = [req EXCEPT ![r].all = @ \ {i}]
  /\ \/ Upsert(i, [row[i] EXCEPT !.hidden = TRUE]) /\ UNCHANGED faults
     \/ Fault /\ UNCHANGED row
  /\ UNCHANGED <<edc, alerted, list, poll, acked>>

----------------------------------------------------------------------------
(***************************************************************************)
(* Who sees a final state records it                                       *)
(***************************************************************************)

(* Seeded fault: the upsert without COALESCE of the state.                 *)
Overwritten(x, name) ==
  [x EXCEPT !.done = IF @ = Null THEN "seen" ELSE @, !.last = name]

(* The upsert: what is there already stays.                                *)
Coalesced(x, name) ==
  [x EXCEPT !.done = IF @ = Null THEN "seen" ELSE @, !.last = IF @ = Null THEN name ELSE @]

(* POST transfers, POST negotiations: of transfers the connector's list    *)
(* and the rows are read at once, in either order; of negotiations the     *)
(* rows are read after the list.                                           *)
Of(kind) == IF kind = "transfers" THEN Transfer ELSE Negotiation

(* Request for a list of this kind: begins, or waits for its second read.  *)
Lists(kind) == list.left = {} /\ list.at \in {"idle", kind}

ReadEdc(kind) ==
  /\ Lists(kind) /\ "edc" \notin list.read
  /\ list' = [list EXCEPT !.at = kind, !.read = @ \cup {"edc"},
                          !.raw = [i \in Of(kind) |-> edc[i]]]
  /\ UNCHANGED <<edc, row, alerted, req, poll, faults, acked>>

ReadRows(kind) ==
  /\ Lists(kind) /\ "rows" \notin list.read
  /\ kind = "negotiations" => "edc" \in list.read
  /\ list' = [list EXCEPT !.at = kind, !.read = @ \cup {"rows"},
                !.meta = [i \in Of(kind) |-> [skip |-> row[i].hidden \/ row[i].last # Null,
                                              user |-> row[i].user]]]
  /\ UNCHANGED <<edc, row, alerted, req, poll, faults, acked>>

(* What is shown in a final state, and has none in its row, is recorded,   *)
(* in any order.                                                           *)
Compare ==
  LET new == {i \in Of(list.at) : list.raw[i].state \in Final /\ ~list.meta[i].skip} IN
  /\ list.read = {"edc", "rows"}
  /\ list' = [NoList EXCEPT
                !.left = {<<i, ListName(list.raw[i], list.meta[i].user)>> : i \in new}]
  /\ UNCHANGED <<edc, row, alerted, req, poll, faults, acked>>

ListRecords(i, name) ==
  /\ <<i, name>> \in list.left
  /\ list' = [list EXCEPT !.left = @ \ {<<i, name>>}]
  /\ \/ Upsert(i, Coalesced(row[i], name)) /\ UNCHANGED faults
     \/ Fault /\ UNCHANGED row
  /\ UNCHANGED <<edc, alerted, req, poll, acked>>

(* Seeded fault: resources that were removed are no final state.           *)
RecordsTwoStates(x) == x.state \in Final \ {"DEPROVISIONED"}

(* The poller records these ...                                            *)
Records(x) == x.state \in Final

BeginPoll ==
  /\ poll = {}
  /\ poll' = {<<i, PollName(edc[i])>> : i \in {j \in Id : Records(edc[j])}}
  /\ UNCHANGED <<edc, row, alerted, req, list, faults, acked>>

(* ... leaving errors aside, and then notifies of a failure (once: see     *)
(* Notices).                                                               *)
PollRecords(i, name) ==
  /\ <<i, name>> \in poll /\ poll' = poll \ {<<i, name>>}
  /\ \/ Upsert(i, Coalesced(row[i], name)) /\ UNCHANGED faults
     \/ Fault /\ UNCHANGED row
  /\ alerted' = IF name = "TERMINATED" THEN alerted \cup {i} ELSE alerted
  /\ UNCHANGED <<edc, req, list, acked>>

(* An error of the notification ends the section of the poll.              *)
PollFails ==
  /\ poll # {} /\ Fault
  /\ poll' = {}
  /\ UNCHANGED <<edc, row, alerted, req, list, acked>>

Requests(r) ==
  \/ \E i \in Id : Start(r, i)
  \/ \E i \in Transfer : Complete(r, i) \/ Terminate(r, i) \/ Bulk(r, i) \/ EndOne(r, i)
                        \/ HideOne(r, i)
  \/ InsertStarted(r) \/ Pull(r) \/ End(r) \/ Mark(r) \/ Close(r) \/ BulkMark(r) \/ Delete(r)

ListSteps ==
  \/ \E kind \in {"transfers", "negotiations"} : ReadEdc(kind) \/ ReadRows(kind)
  \/ Compare
  \/ \E i \in Id, s \in Final : ListRecords(i, s)

Polls == BeginPoll \/ \E i \in Id, s \in Final : PollRecords(i, s)

RecordsNext ==
  \/ \E r \in Req : Requests(r)
  \/ \E i \in Id : Ends(i)
  \/ \E i \in Transfer : Fetch(i)
  \/ ListSteps \/ Polls \/ PollFails

RecordsSpec == RecordsInit /\ [][RecordsNext]_recordsVars

----------------------------------------------------------------------------
(***************************************************************************)
(* Properties                                                              *)
(***************************************************************************)

(* A completion that was recorded, by hand or by a bulk transfer, counts   *)
(* as a success from then on, whatever a list or the poller had recorded   *)
(* before or records after it (stats.ts:202-203).                          *)
AcknowledgedIsSuccess == \A i \in acked : Counted(row[i]) = "success"

(* What the consumer completed is no failure for anybody: not for the row, *)
(* whoever writes it first, not for the poller's notification, and not for *)
(* the count in the connector's database, even when the answer to the      *)
(* termination, or the mark, got lost (notificationGenerator.ts:373-374).  *)
ConsumerCompletionNoFailure ==
  \A i \in Transfer : edc[i].byConsumer =>
    /\ row[i].last # "TERMINATED" /\ i \notin alerted
    /\ edc[i].state = "TERMINATED" => DbCompleted(edc[i])

(* The rate never takes back a success: lists and polls that read before   *)
(* and write after others, and states that move on, change neither the     *)
(* state recorded first nor the time of a completion by hand               *)
(* (notificationGenerator.ts:165).                                         *)
SuccessStays ==
  [][\A i \in Transfer :
       /\ Counted(row[i]) = "success" => Counted(row'[i]) = "success"
       /\ row[i].done = "acted" => row'[i].done = "acted"]_recordsVars

(* Every final state gets into its row although nobody opens a list and    *)
(* some writes fail (notificationGenerator.ts:163-164).                    *)
Unrecorded == {i \in Id : edc[i].state \in Final /\ row[i].last = Null}

ObservedEventually == Unrecorded # {} ~> Unrecorded = {}

(* What the console says of a completion (AcknowledgedIsSuccess,           *)
(* ConsumerCompletionNoFailure; stats.ts:202-203,                          *)
(* notificationGenerator.ts:373-374), in every state of rows and requests. *)
RecordsInv == RecordsTypeOK /\ AcknowledgedIsSuccess /\ ConsumerCompletionNoFailure

=============================================================================
