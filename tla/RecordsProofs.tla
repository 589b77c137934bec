----------------------------- MODULE RecordsProofs -----------------------------
(***************************************************************************)
(* Proofs about TransferRecords and Offers: what the console remembers of  *)
(* a completion, and what it promises of assets, secrets and definitions,  *)
(* for any number of ids, users, objects, requests and faults.             *)
(***************************************************************************)
EXTENDS TransferRecords, Offers, FiniteSetTheorems, TLAPS

(***************************************************************************)
(* The invariant of TransferRecords                                        *)
(***************************************************************************)

(* What the requests that go on from call to call are about.               *)
Meant(x) ==
  /\ x.at = "insert" => x.id \in Id
  /\ x.at \in {"pull", "end", "mark", "close", "bulkMark"} => x.id \in Transfer

RequestInv == \A r \in Req : Meant(req[r])

(* What a list has read so far.                                            *)
ListInv ==
  /\ list.read \subseteq {"edc", "rows"}
  /\ list.read # {} => list.at # "idle"
  /\ "edc" \in list.read => list.raw \in [Of(list.at) -> EdcState]
  /\ "rows" \in list.read => list.meta \in [Of(list.at) -> [skip : BOOLEAN, user : BOOLEAN]]

(* An id that has ended, and not as completed by the consumer.             *)
NoSuccess(i) == edc[i].state \in Final /\ ~edc[i].byConsumer

(* Only of these is a failure recorded or notified, on its way to a row,   *)
(* or in what a list has read.                                             *)
FailureInv ==
  \A i \in Id :
    \/ NoSuccess(i)
    \/ /\ row[i].last # "TERMINATED" /\ i \notin alerted
       /\ <<i, "TERMINATED">> \notin list.left /\ <<i, "TERMINATED">> \notin poll
       /\ ("edc" \in list.read /\ i \in Of(list.at)) =>
            (list.raw[i].state = "TERMINATED" => list.raw[i].byConsumer)

(* The mark of a recorded completion is there.                             *)
MarkInv == \A i \in acked : row[i].user /\ row[i].done # Null

RecordsIInv == RecordsTypeOK /\ RequestInv /\ ListInv /\ FailureInv /\ MarkInv

----------------------------------------------------------------------------
(***************************************************************************)
(* How rows and states move                                                *)
(***************************************************************************)

(* What is written over a row keeps what counts: a mark, a time, and the   *)
(* state that was recorded first.                                          *)
Sound(x) == x \in Row /\ (x.last # Null => x.done # Null)

Grows(x, y) ==
  /\ Sound(y)
  /\ x.user => y.user
  /\ x.done # Null => y.done # Null
  /\ x.done = "acted" => y.done = "acted"
  /\ x.last # Null => y.last = x.last

(* The writes to a row, each of which does so.                             *)
LEMMA Writes ==
  ASSUME NEW x, Sound(x), NEW y
  PROVE  /\ Grows(x, x)
         /\ y = [x EXCEPT !.fetched = TRUE] => Grows(x, y) /\ y.last = x.last
         /\ y = [x EXCEPT !.hidden = TRUE] => Grows(x, y) /\ y.last = x.last
         /\ y = [x EXCEPT !.done = "acted"] => Grows(x, y) /\ y.last = x.last
         /\ y = [x EXCEPT !.done = "acted", !.user = TRUE]
              => Grows(x, y) /\ y.last = x.last /\ y.user /\ y.done # Null
BY DEF Sound, Grows, Row, Null

LEMMA WriteFirst ==
  ASSUME NEW y, y = [NoRow EXCEPT !.started = TRUE]
  PROVE  Grows(NoRow, y) /\ y.last = Null
BY DEF Sound, Grows, Row, Null, NoRow

LEMMA WriteSeen ==
  ASSUME NEW x, Sound(x), NEW name \in Final, NEW y, y = Coalesced(x, name)
  PROVE  Grows(x, y) /\ y.last = (IF x.last = Null THEN name ELSE x.last)
BY DEF Sound, Grows, Row, Null, Final, Coalesced

(* Every step lets rows grow. A failure is only recorded that waits to be, *)
(* and a completion counts as recorded when its mark is.                   *)
LEMMA RowMoves ==
  ASSUME RecordsTypeOK, RequestInv, [RecordsNext]_recordsVars
  PROVE  /\ row' \in [Id -> Row] /\ acked' \subseteq Transfer
         /\ \A j \in Id :
              /\ Grows(row[j], row'[j])
              /\ row'[j].last = "TERMINATED" =>
                   row[j].last = "TERMINATED" \/ <<j, "TERMINATED">> \in list.left
                     \/ <<j, "TERMINATED">> \in poll
         /\ \A j \in acked' : j \in acked \/ (row'[j].user /\ row'[j].done # Null)
<1> DEFINE Goal == /\ row' \in [Id -> Row] /\ acked' \subseteq Transfer
                   /\ \A j \in Id :
                        /\ Grows(row[j], row'[j])
                        /\ row'[j].last = "TERMINATED" =>
                             row[j].last = "TERMINATED" \/ <<j, "TERMINATED">> \in list.left
                               \/ <<j, "TERMINATED">> \in poll
                   /\ \A j \in acked' : j \in acked \/ (row'[j].user /\ row'[j].done # Null)
<1>0. /\ row \in [Id -> Row] /\ acked \subseteq Transfer /\ Transfer \subseteq Id
      /\ \A j \in Id : Sound(row[j]) /\ Grows(row[j], row[j])
  BY Writes DEF RecordsTypeOK, Sound, Id
<1>1. ASSUME UNCHANGED <<row, acked>> PROVE Goal
  BY <1>0, <1>1
<1>2. ASSUME NEW i \in Id, NEW x, row' = [row EXCEPT ![i] = x], Grows(row[i], x),
             acked' = acked \/ (i \in Transfer /\ acked' = acked \cup {i} /\ x.user /\ x.done # Null),
             x.last = row[i].last \/ <<i, x.last>> \in list.left \/ <<i, x.last>> \in poll
      PROVE  Goal
  <2>1. x \in Row
    BY <1>2 DEF Grows, Sound
  <2>2. row' \in [Id -> Row] /\ row'[i] = x /\ \A j \in Id : j # i => row'[j] = row[j]
    BY <1>0, <1>2, <2>1
  <2>3. ASSUME NEW j \in Id
        PROVE  /\ Grows(row[j], row'[j])
               /\ row'[j].last = "TERMINATED" =>
                    row[j].last = "TERMINATED" \/ <<j, "TERMINATED">> \in list.left
                      \/ <<j, "TERMINATED">> \in poll
    BY <1>0, <1>2, <2>2
  <2>4. acked' \subseteq Transfer /\ \A j \in acked' : j \in acked \/ (row'[j].user /\ row'[j].done # Null)
    BY <1>0, <1>2, <2>2
  <2> QED
    BY <2>2, <2>3, <2>4
<1>3. ASSUME NEW r \in Req, InsertStarted(r) PROVE Goal
  <2>1. req[r].id \in Id
    BY <1>3 DEF InsertStarted, RequestInv, Meant
  <2>2. CASE row[req[r].id] = NoRow /\ row' = [row EXCEPT ![req[r].id] = [NoRow EXCEPT !.started = TRUE]]
    <3>1. PICK y : y = [NoRow EXCEPT !.started = TRUE]
      OBVIOUS
    <3>2. Grows(row[req[r].id], y) /\ y.last = row[req[r].id].last
      BY <2>2, <3>1, WriteFirst DEF NoRow
    <3>3. row' = [row EXCEPT ![req[r].id] = y] /\ acked' = acked
      BY <1>3, <2>2, <3>1 DEF InsertStarted
    <3> HIDE DEF Goal
    <3> QED
      BY <1>2, <2>1, <3>2, <3>3
  <2>3. CASE UNCHANGED row
    BY <1>1, <1>3, <2>3 DEF InsertStarted
  <2> QED
    BY <1>3, <2>2, <2>3 DEF InsertStarted, Upsert
<1>4. ASSUME NEW r \in Req, Pull(r) PROVE Goal
  <2>1. req[r].id \in Id
    BY <1>0, <1>4 DEF Pull, RequestInv, Meant
  <2>2. CASE row' = [row EXCEPT ![req[r].id] = [row[req[r].id] EXCEPT !.fetched = TRUE]]
    <3>1. PICK y : y = [row[req[r].id] EXCEPT !.fetched = TRUE]
      OBVIOUS
    <3>2. Grows(row[req[r].id], y) /\ y.last = row[req[r].id].last
      BY <1>0, <2>1, <3>1, Writes
    <3>3. row' = [row EXCEPT ![req[r].id] = y] /\ acked' = acked
      BY <1>4, <2>2, <3>1 DEF Pull
    <3> HIDE DEF Goal
    <3> QED
      BY <1>2, <2>1, <3>2, <3>3
  <2>3. CASE UNCHANGED row
    BY <1>1, <1>4, <2>3 DEF Pull
  <2> QED
    BY <1>4, <2>2, <2>3 DEF Pull, Upsert
<1>5. ASSUME NEW i \in Transfer, Fetch(i) PROVE Goal
  <2>1. PICK y : y = [row[i] EXCEPT !.fetched = TRUE]
    OBVIOUS
  <2>2. Grows(row[i], y) /\ y.last = row[i].last
    BY <1>0, <2>1, Writes
  <2>3. row' = [row EXCEPT ![i] = y] /\ acked' = acked
    BY <1>5, <2>1 DEF Fetch, Upsert
  <2> HIDE DEF Goal
  <2> QED
    BY <1>0, <1>2, <2>2, <2>3
<1>6. ASSUME NEW r \in Req, Mark(r) \/ BulkMark(r) PROVE Goal
  <2>1. req[r].id \in Transfer
    BY <1>6 DEF Mark, BulkMark, RequestInv, Meant
  <2>2. CASE /\ row' = [row EXCEPT ![req[r].id] = [row[req[r].id] EXCEPT !.done = "acted", !.user = TRUE]]
             /\ acked' = acked \cup {req[r].id}
    <3>1. PICK y : y = [row[req[r].id] EXCEPT !.done = "acted", !.user = TRUE]
      OBVIOUS
    <3>2. Grows(row[req[r].id], y) /\ y.last = row[req[r].id].last /\ y.user /\ y.done # Null
      BY <1>0, <2>1, <3>1, Writes
    <3>3. row' = [row EXCEPT ![req[r].id] = y]
      BY <2>2, <3>1
    <3> HIDE DEF Goal
    <3> QED
      BY <1>0, <1>2, <2>1, <2>2, <3>2, <3>3
  <2>3. CASE UNCHANGED <<row, acked>>
    BY <1>1, <2>3
  <2> QED
    BY <1>6, <2>2, <2>3 DEF Mark, BulkMark, Upsert
<1>7. ASSUME NEW r \in Req, Close(r) PROVE Goal
  <2>1. req[r].id \in Id
    BY <1>0, <1>7 DEF Close, RequestInv, Meant
  <2>2. CASE row' = [row EXCEPT ![req[r].id] = [row[req[r].id] EXCEPT !.done = "acted"]]
    <3>1. PICK y : y = [row[req[r].id] EXCEPT !.done = "acted"]
      OBVIOUS
    <3>2. Grows(row[req[r].id], y) /\ y.last = row[req[r].id].last
      BY <1>0, <2>1, <3>1, Writes
    <3>3. row' = [row EXCEPT ![req[r].id] = y] /\ acked' = acked
      BY <1>7, <2>2, <3>1 DEF Close
    <3> HIDE DEF Goal
    <3> QED
      BY <1>2, <2>1, <3>2, <3>3
  <2>3. CASE UNCHANGED row
    BY <1>1, <1>7, <2>3 DEF Close
  <2> QED
    BY <1>7, <2>2, <2>3 DEF Close, Upsert
<1>8. ASSUME NEW r \in Req, NEW i \in Transfer, HideOne(r, i) PROVE Goal
  <2>2. CASE row' = [row EXCEPT ![i] = [row[i] EXCEPT !.hidden = TRUE]]
    <3>1. PICK y : y = [row[i] EXCEPT !.hidden = TRUE]
      OBVIOUS
    <3>2. Grows(row[i], y) /\ y.last = row[i].last
      BY <1>0, <3>1, Writes
    <3>3. row' = [row EXCEPT ![i] = y] /\ acked' = acked
      BY <1>8, <2>2, <3>1 DEF HideOne
    <3> HIDE DEF Goal
    <3> QED
      BY <1>0, <1>2, <3>2, <3>3
  <2>3. CASE UNCHANGED row
    BY <1>1, <1>8, <2>3 DEF HideOne
  <2> QED
    BY <1>8, <2>2, <2>3 DEF HideOne, Upsert
<1>9. ASSUME NEW i \in Id, NEW name \in Final, ListRecords(i, name) \/ PollRecords(i, name) PROVE Goal
  <2>1. acked' = acked /\ (<<i, name>> \in list.left \/ <<i, name>> \in poll)
    BY <1>9 DEF ListRecords, PollRecords
  <2>2. CASE row' = [row EXCEPT ![i] = Coalesced(row[i], name)]
    <3>1. PICK y : y = Coalesced(row[i], name)
      OBVIOUS
    <3>2. Grows(row[i], y) /\ y.last = (IF row[i].last = Null THEN name ELSE row[i].last)
      BY <1>0, <3>1, WriteSeen
    <3>3. row' = [row EXCEPT ![i] = y]
      BY <2>2, <3>1
    <3> HIDE DEF Goal
    <3> QED
      BY <1>2, <2>1, <3>2, <3>3
  <2>3. CASE UNCHANGED row
    BY <1>1, <2>1, <2>3
  <2> QED
    BY <1>9, <2>2, <2>3 DEF ListRecords, PollRecords, Upsert
<1>10. ASSUME NEW r, NEW i,
              Start(r, i) \/ Complete(r, i) \/ Terminate(r, i) \/ Bulk(r, i) \/ EndOne(r, i) \/ End(r) \/ Delete(r)
       PROVE  Goal
  BY <1>1, <1>10 DEF Start, Complete, Terminate, Bulk, EndOne, End, Delete
<1>11. ASSUME NEW i, Ends(i) PROVE Goal
  BY <1>1, <1>11 DEF Ends
<1>12. ASSUME NEW kind, ReadEdc(kind) \/ ReadRows(kind) \/ Compare \/ BeginPoll \/ PollFails PROVE Goal
  BY <1>1, <1>12 DEF ReadEdc, ReadRows, Compare, BeginPoll, PollFails
<1>13. ASSUME UNCHANGED recordsVars PROVE Goal
  BY <1>1, <1>13 DEF recordsVars
<1> HIDE DEF Goal
<1>14. ASSUME NEW r \in Req, Requests(r) PROVE Goal
  BY <1>0, <1>3, <1>4, <1>6, <1>7, <1>8, <1>10, <1>14 DEF Requests
<1>15. ASSUME ListSteps \/ Polls \/ PollFails PROVE Goal
  BY <1>9, <1>12, <1>15 DEF ListSteps, Polls
<1>16. Goal
  BY <1>0, <1>5, <1>11, <1>13, <1>14, <1>15 DEF RecordsNext
<1> QED
  BY <1>16 DEF Goal

(* Once ended an id stays so, and so does how it ended; faults are counted.*)
LEMMA EdcMoves ==
  ASSUME RecordsTypeOK, RequestInv, [RecordsNext]_recordsVars
  PROVE  /\ edc' \in [Id -> EdcState] /\ faults' \in 0..MaxFaults
         /\ \A j \in Id : edc[j].state \in Final =>
              edc'[j].state \in Final /\ edc'[j].byConsumer = edc[j].byConsumer
<1> DEFINE Ok == /\ edc' \in [Id -> EdcState]
                 /\ \A j \in Id : edc[j].state \in Final =>
                      edc'[j].state \in Final /\ edc'[j].byConsumer = edc[j].byConsumer
           Few == faults' \in 0..MaxFaults
<1>0. /\ edc \in [Id -> EdcState] /\ faults \in 0..MaxFaults /\ MaxFaults \in Nat /\ Transfer \subseteq Id
      /\ {"COMPLETED", "FINALIZED", "TERMINATED", "DEPROVISIONED", "STARTED"} \subseteq {"none", "STARTED"} \cup Final
      /\ "none" \notin Final /\ "STARTED" \notin Final
  BY RecordsAssumption DEF RecordsTypeOK, Id, Final
<1>1. ASSUME UNCHANGED edc PROVE Ok
  BY <1>0, <1>1
<1>2. ASSUME UNCHANGED faults \/ Fault PROVE Few
  BY <1>0, <1>2 DEF Fault
<1>3. ASSUME NEW i \in Id, NEW b \in BOOLEAN, Terminated(i, b) PROVE Ok
  <2>1. [state |-> "TERMINATED", byConsumer |-> b] \in EdcState
    BY <1>0 DEF EdcState
  <2> QED
    BY <1>0, <1>3, <2>1 DEF Terminated
<1>4. ASSUME NEW i \in Id, NEW b \in BOOLEAN, NotTerminated(i, b) PROVE Ok /\ Few
  BY <1>1, <1>2, <1>3, <1>4 DEF NotTerminated
<1>5. ASSUME NEW i \in Id, NEW s \in {"COMPLETED", "FINALIZED", "TERMINATED", "DEPROVISIONED", "STARTED"},
             edc' = [edc EXCEPT ![i].state = s], s \in Final \/ edc[i].state = "none"
      PROVE  Ok
  <2>1. PICK y : y = [edc[i] EXCEPT !.state = s]
    OBVIOUS
  <2>2. y \in EdcState /\ y.state = s /\ y.byConsumer = edc[i].byConsumer
    BY <1>0, <2>1 DEF EdcState
  <2>3. edc' = [edc EXCEPT ![i] = y]
    BY <1>5, <2>1
  <2> QED
    BY <1>0, <1>5, <2>2, <2>3
<1>6. ASSUME NEW i \in Id, Ends(i) PROVE Ok /\ Few
  <2>1. PICK s \in {"COMPLETED", "FINALIZED", "TERMINATED", "DEPROVISIONED"} : edc' = [edc EXCEPT ![i].state = s]
    BY <1>6 DEF Ends
  <2>2. Ok
    BY <1>0, <1>5, <2>1 DEF Final
  <2> QED
    BY <1>2, <1>6, <2>2 DEF Ends
<1>7. ASSUME NEW r, NEW i \in Id, Start(r, i) PROVE Ok /\ Few
  BY <1>2, <1>5, <1>7 DEF Start
<1>8. ASSUME NEW r, NEW i \in Transfer, Terminate(r, i) \/ Bulk(r, i) \/ EndOne(r, i) PROVE Ok /\ Few
  <2>1. (Terminated(i, FALSE) /\ UNCHANGED faults) \/ NotTerminated(i, FALSE)
    BY <1>8 DEF Terminate, Bulk, EndOne
  <2> HIDE DEF Ok, Few
  <2> QED
    BY <1>0, <1>2, <1>3, <1>4, <2>1
<1>9. ASSUME NEW r \in Req, End(r) PROVE Ok /\ Few
  <2>1. req[r].id \in Id
    BY <1>0, <1>9 DEF End, RequestInv, Meant
  <2>2. (Terminated(req[r].id, TRUE) /\ UNCHANGED faults) \/ NotTerminated(req[r].id, TRUE)
    BY <1>9 DEF End
  <2> HIDE DEF Ok, Few
  <2> QED
    BY <1>2, <1>3, <1>4, <2>1, <2>2
<1>10. ASSUME NEW r, NEW i, NEW s,
              InsertStarted(r) \/ Mark(r) \/ Close(r) \/ BulkMark(r) \/ HideOne(r, i) \/ ListRecords(i, s)
                \/ PollRecords(i, s) \/ PollFails
       PROVE  Ok /\ Few
  BY <1>1, <1>2, <1>10 DEF InsertStarted, Mark, Close, BulkMark, HideOne, ListRecords, PollRecords, PollFails
<1>11. ASSUME NEW r, NEW i,
              Complete(r, i) \/ Pull(r) \/ Delete(r) \/ Fetch(i) \/ ReadEdc(i) \/ ReadRows(i) \/ Compare \/ BeginPoll
       PROVE  Ok /\ Few
  BY <1>1, <1>2, <1>11 DEF Complete, Pull, Delete, Fetch, ReadEdc, ReadRows, Compare, BeginPoll
<1>12. ASSUME UNCHANGED recordsVars PROVE Ok /\ Few
  BY <1>1, <1>2, <1>12 DEF recordsVars
<1> HIDE DEF Ok, Few
<1>13. ASSUME NEW r \in Req, Requests(r) PROVE Ok /\ Few
  BY <1>0, <1>7, <1>8, <1>9, <1>10, <1>11, <1>13 DEF Requests
<1>14. ASSUME ListSteps \/ Polls \/ PollFails PROVE Ok /\ Few
  BY <1>10, <1>11, <1>14 DEF ListSteps, Polls
<1>15. Ok /\ Few
  BY <1>0, <1>6, <1>11, <1>12, <1>13, <1>14 DEF RecordsNext
<1> QED
  BY <1>15 DEF Ok, Few

(* Every step leaves requests that know what they are about.               *)
Request == [at : {"idle", "insert", "pull", "end", "mark", "close", "bulkMark", "delete"},
            id : Id \cup {NoId}, left : SUBSET Id, all : SUBSET Id]

LEMMA RequestStep ==
  ASSUME RecordsTypeOK, RequestInv, [RecordsNext]_recordsVars
  PROVE  req' \in [Req -> Request] /\ RequestInv'
<1> DEFINE Goal == req' \in [Req -> Request] /\ \A s \in Req : Meant(req'[s])
<1>0. /\ req \in [Req -> Request] /\ Transfer \subseteq Id /\ \A s \in Req : Meant(req[s])
      /\ NoReq \in Request /\ Meant(NoReq)
  BY DEF RecordsTypeOK, Request, Id, RequestInv, NoReq, Meant
<1>1. ASSUME UNCHANGED req PROVE Goal
  BY <1>0, <1>1
<1>2. ASSUME NEW r \in Req, NEW x \in Request, Meant(x), req' = [req EXCEPT ![r] = x] PROVE Goal
  BY <1>0, <1>2
<1> HIDE DEF Goal
<1>3. ASSUME NEW r \in Req, Done(r) PROVE Goal
  BY <1>0, <1>2, <1>3 DEF Done
<1>4. ASSUME NEW r \in Req, Goto(r, "end") \/ Goto(r, "mark"), req[r].id \in Transfer PROVE Goal
  <2>1. PICK at \in {"end", "mark"} : req' = [req EXCEPT ![r].at = at]
    BY <1>4 DEF Goto
  <2>2. PICK x : x = [req[r] EXCEPT !.at = at]
    OBVIOUS
  <2>3. x \in Request /\ Meant(x)
    BY <1>0, <1>4, <2>2 DEF Request, Meant
  <2>4. req' = [req EXCEPT ![r] = x]
    BY <2>1, <2>2
  <2> QED
    BY <1>2, <2>3, <2>4
<1>5. ASSUME NEW r \in Req, NEW i \in Id, NEW at \in {"insert", "pull", "end", "close", "bulkMark"},
             at = "insert" \/ i \in Transfer, req' = [req EXCEPT ![r] = [NoReq EXCEPT !.at = at, !.id = i]]
      PROVE  Goal
  <2>1. PICK x : x = [NoReq EXCEPT !.at = at, !.id = i]
    OBVIOUS
  <2>2. x \in Request /\ Meant(x)
    BY <1>5, <2>1 DEF Request, Meant, NoReq
  <2>3. req' = [req EXCEPT ![r] = x]
    BY <1>5, <2>1
  <2> QED
    BY <1>2, <2>2, <2>3
<1>6. ASSUME NEW r \in Req, Delete(r) PROVE Goal
  <2>1. PICK all \in SUBSET Id, left \in SUBSET Id :
          req' = [req EXCEPT ![r] = [NoReq EXCEPT !.at = "delete", !.all = all, !.left = left]]
    BY <1>0, <1>6 DEF Delete
  <2>2. PICK x : x = [NoReq EXCEPT !.at = "delete", !.all = all, !.left = left]
    OBVIOUS
  <2>3. x \in Request /\ Meant(x)
    BY <2>2 DEF Request, Meant, NoReq
  <2>4. req' = [req EXCEPT ![r] = x]
    BY <2>1, <2>2
  <2> QED
    BY <1>2, <2>3, <2>4
<1>7. ASSUME NEW r \in Req, NEW i, EndOne(r, i) PROVE Goal
  <2>1. PICK x : x = [req[r] EXCEPT !.left = req[r].left \ {i}]
    OBVIOUS
  <2>2. x \in Request /\ Meant(x)
    BY <1>0, <2>1 DEF Request, Meant
  <2>3. req' = [req EXCEPT ![r] = x]
    BY <1>7, <2>1 DEF EndOne
  <2> QED
    BY <1>2, <2>2, <2>3
<1>8. ASSUME NEW r \in Req, NEW i, HideOne(r, i) PROVE Goal
  <2>1. PICK x : x = [req[r] EXCEPT !.all = req[r].all \ {i}]
    OBVIOUS
  <2>2. x \in Request /\ Meant(x)
    BY <1>0, <2>1 DEF Request, Meant
  <2>3. Done(r) \/ req' = [req EXCEPT ![r] = x]
    BY <1>8, <2>1 DEF HideOne
  <2> QED
    BY <1>2, <1>3, <2>2, <2>3
<1>9. ASSUME NEW r \in Req, NEW i \in Id, Start(r, i) PROVE Goal
  BY <1>5, <1>9 DEF Start
<1>10. ASSUME NEW r \in Req, NEW i \in Transfer, Complete(r, i) \/ Terminate(r, i) \/ Bulk(r, i) PROVE Goal
  <2>1. \/ req' = req
        \/ \E at \in {"pull", "end", "close", "bulkMark"} :
             req' = [req EXCEPT ![r] = [NoReq EXCEPT !.at = at, !.id = i]]
    BY <1>10 DEF Complete, Terminate, Bulk
  <2> QED
    BY <1>0, <1>1, <1>5, <2>1
<1>11. ASSUME NEW r \in Req, InsertStarted(r) \/ Mark(r) \/ Close(r) \/ BulkMark(r) PROVE Goal
  BY <1>3, <1>11 DEF InsertStarted, Mark, Close, BulkMark
<1>12. ASSUME NEW r \in Req, Pull(r) \/ End(r) PROVE Goal
  <2>1. req[r].id \in Transfer
    BY <1>0, <1>12 DEF Pull, End, Meant
  <2> QED
    BY <1>3, <1>4, <1>12, <2>1 DEF Pull, End
<1>13. ASSUME NEW i, NEW s,
              Ends(i) \/ Fetch(i) \/ ReadEdc(i) \/ ReadRows(i) \/ Compare \/ ListRecords(i, s) \/ BeginPoll
                \/ PollRecords(i, s) \/ PollFails \/ UNCHANGED recordsVars
       PROVE  Goal
  BY <1>1, <1>13 DEF Ends, Fetch, ReadEdc, ReadRows, Compare, ListRecords, BeginPoll, PollRecords, PollFails,
     recordsVars
<1>14. ASSUME NEW r \in Req, Requests(r) PROVE Goal
  BY <1>6, <1>7, <1>8, <1>9, <1>10, <1>11, <1>12, <1>14 DEF Requests
<1>15. Goal
  BY <1>13, <1>14 DEF RecordsNext, ListSteps, Polls
<1> QED
  BY <1>15 DEF Goal, RequestInv

(* Every step leaves a list that knows what it has read, and names to      *)
(* record of ended ids only.                                               *)
LEMMA ListStep ==
  ASSUME RecordsTypeOK, ListInv, [RecordsNext]_recordsVars
  PROVE  /\ ListInv' /\ list'.at \in {"idle", "transfers", "negotiations"}
         /\ list'.left \subseteq Id \X Final /\ poll' \subseteq Id \X Final
<1> DEFINE Mine == /\ list'.read \subseteq {"edc", "rows"}
                   /\ list'.read # {} => list'.at # "idle"
                   /\ "edc" \in list'.read => list'.raw \in [Of(list'.at) -> EdcState]
                   /\ "rows" \in list'.read =>
                        list'.meta \in [Of(list'.at) -> [skip : BOOLEAN, user : BOOLEAN]]
                   /\ list'.at \in {"idle", "transfers", "negotiations"}
                   /\ list'.left \subseteq Id \X Final
           Polled == poll' \subseteq Id \X Final
<1>0. /\ edc \in [Id -> EdcState] /\ row \in [Id -> Row] /\ poll \subseteq Id \X Final
      /\ \A kind : Of(kind) \subseteq Id
      /\ list.at \in {"idle", "transfers", "negotiations"} /\ list.left \subseteq Id \X Final
      /\ \A name : name \in Final => name # "idle"
  BY DEF RecordsTypeOK, Of, Id, Final
<1>1. ASSUME UNCHANGED list PROVE Mine
  BY <1>0, <1>1 DEF ListInv
<1>2. ASSUME UNCHANGED poll PROVE Polled
  BY <1>0, <1>2
<1>3. ASSUME NEW kind \in {"transfers", "negotiations"}, ReadEdc(kind) PROVE Mine
  <2>1. PICK raw : raw = [i \in Of(kind) |-> edc[i]]
    OBVIOUS
  <2>2. raw \in [Of(kind) -> EdcState]
    BY <1>0, <2>1
  <2>3. list' = [list EXCEPT !.at = kind, !.read = list.read \cup {"edc"}, !.raw = raw]
    BY <1>3, <2>1 DEF ReadEdc
  <2>4. /\ list'.at = kind /\ list'.read = list.read \cup {"edc"} /\ list'.raw = raw
        /\ list'.meta = list.meta /\ list'.left = list.left
    BY <2>3
  <2>5. "rows" \in list.read => list.at = kind
    BY <1>3 DEF ReadEdc, Lists, ListInv
  <2> QED
    BY <1>0, <1>3, <2>2, <2>4, <2>5 DEF ListInv
<1>4. ASSUME NEW kind \in {"transfers", "negotiations"}, ReadRows(kind) PROVE Mine
  <2>1. PICK meta : meta = [i \in Of(kind) |-> [skip |-> row[i].hidden \/ row[i].last # Null, user |-> row[i].user]]
    OBVIOUS
  <2>2. meta \in [Of(kind) -> [skip : BOOLEAN, user : BOOLEAN]]
    BY <1>0, <2>1 DEF Row
  <2>3. list' = [list EXCEPT !.at = kind, !.read = list.read \cup {"rows"}, !.meta = meta]
    BY <1>4, <2>1 DEF ReadRows
  <2>4. /\ list'.at = kind /\ list'.read = list.read \cup {"rows"} /\ list'.meta = meta
        /\ list'.raw = list.raw /\ list'.left = list.left
    BY <2>3
  <2>5. "edc" \in list.read => list.at = kind
    BY <1>4 DEF ReadRows, Lists, ListInv
  <2> QED
    BY <1>0, <1>4, <2>2, <2>4, <2>5 DEF ListInv
<1>5. ASSUME Compare PROVE Mine
  <2>1. PICK left : left = {<<i, ListName(list.raw[i], list.meta[i].user)>> :
                              i \in {j \in Of(list.at) : list.raw[j].state \in Final /\ ~list.meta[j].skip}}
    OBVIOUS
  <2>2. left \subseteq Id \X Final
    <3>1. ASSUME NEW i, NEW user, list.raw[i].state \in Final
          PROVE  ListName(list.raw[i], user) \in Final
      BY <3>1 DEF ListName, Final
    <3> QED
      BY <1>0, <2>1, <3>1
  <2>3. list' = [NoList EXCEPT !.left = left]
    BY <1>5, <2>1 DEF Compare
  <2>4. list'.at = "idle" /\ list'.read = {} /\ list'.left = left
    BY <2>3 DEF NoList
  <2> QED
    BY <2>2, <2>4
<1>6. ASSUME NEW i, NEW s, ListRecords(i, s) PROVE Mine
  <2>1. list' = [list EXCEPT !.left = list.left \ {<<i, s>>}]
    BY <1>6 DEF ListRecords
  <2>2. /\ list'.at = list.at /\ list'.read = list.read /\ list'.meta = list.meta
        /\ list'.raw = list.raw /\ list'.left = list.left \ {<<i, s>>}
    BY <2>1
  <2> QED
    BY <1>0, <2>2 DEF ListInv
<1>7. ASSUME BeginPoll PROVE Polled
  <2>1. ASSUME NEW i \in Id, Records(edc[i])
        PROVE  PollName(edc[i]) \in Final
    BY <2>1 DEF Records, PollName, Final
  <2> QED
    BY <1>7, <2>1 DEF BeginPoll
<1>8. ASSUME NEW i, NEW s, PollRecords(i, s) \/ PollFails PROVE Polled
  BY <1>0, <1>8 DEF PollRecords, PollFails
<1>9. ASSUME NEW r, NEW i, NEW s,
             Requests(r) \/ Ends(i) \/ Fetch(i) \/ BeginPoll \/ PollRecords(i, s) \/ PollFails \/ UNCHANGED recordsVars
      PROVE  list' = list
  BY <1>9 DEF Requests, Start, Complete, Terminate, Bulk, EndOne, HideOne, InsertStarted, Pull, End, Mark, Close,
     BulkMark, Delete, Ends, Fetch, BeginPoll, PollRecords, PollFails, recordsVars
<1>10. ASSUME NEW r, NEW i, NEW s,
              Requests(r) \/ Ends(i) \/ Fetch(i) \/ ReadEdc(i) \/ ReadRows(i) \/ Compare \/ ListRecords(i, s)
                \/ UNCHANGED recordsVars
       PROVE  poll' = poll
  BY <1>10 DEF Requests, Start, Complete, Terminate, Bulk, EndOne, HideOne, InsertStarted, Pull, End, Mark, Close,
     BulkMark, Delete, Ends, Fetch, ReadEdc, ReadRows, Compare, ListRecords, recordsVars
<1> HIDE DEF Mine, Polled
<1>11. Mine
  BY <1>1, <1>3, <1>4, <1>5, <1>6, <1>9 DEF RecordsNext, ListSteps, Polls
<1>12. Polled
  BY <1>2, <1>7, <1>8, <1>10 DEF RecordsNext, ListSteps, Polls
<1> QED
  BY <1>11, <1>12 DEF Mine, Polled, ListInv

(* Every step keeps failures to ids that have ended and not as completed.  *)
LEMMA FailureStep ==
  ASSUME RecordsTypeOK, RequestInv, ListInv, FailureInv, [RecordsNext]_recordsVars
  PROVE  FailureInv'
<1> SUFFICES ASSUME NEW i \in Id, ~NoSuccess(i)
             PROVE  /\ row'[i].last # "TERMINATED" /\ i \notin alerted'
                    /\ <<i, "TERMINATED">> \notin list'.left /\ <<i, "TERMINATED">> \notin poll'
                    /\ ("edc" \in list'.read /\ i \in Of(list'.at)) =>
                         (list'.raw[i].state = "TERMINATED" => list'.raw[i].byConsumer)
  <2>1. ASSUME NEW i \in Id, NoSuccess(i)
        PROVE  NoSuccess(i)'
    BY <2>1, EdcMoves DEF NoSuccess
  <2> QED
    BY <2>1 DEF FailureInv
<1> DEFINE Told == ("edc" \in list'.read /\ i \in Of(list'.at)) =>
                     (list'.raw[i].state = "TERMINATED" => list'.raw[i].byConsumer)
           Left == <<i, "TERMINATED">> \notin list'.left
           Waits == <<i, "TERMINATED">> \notin poll'
           Alert == i \notin alerted'
<1>0. /\ row[i].last # "TERMINATED" /\ i \notin alerted
      /\ <<i, "TERMINATED">> \notin list.left /\ <<i, "TERMINATED">> \notin poll
      /\ ("edc" \in list.read /\ i \in Of(list.at)) =>
           (list.raw[i].state = "TERMINATED" => list.raw[i].byConsumer)
      /\ edc[i].state = "TERMINATED" => edc[i].byConsumer
  BY DEF FailureInv, NoSuccess, Final
<1>1. row'[i].last # "TERMINATED"
  BY <1>0, RowMoves
<1>2. ASSUME NEW r, NEW j, NEW s,
             Requests(r) \/ Ends(j) \/ Fetch(j) \/ BeginPoll \/ PollRecords(j, s) \/ PollFails \/ UNCHANGED recordsVars
      PROVE  list' = list
  BY <1>2 DEF Requests, Start, Complete, Terminate, Bulk, EndOne, HideOne, InsertStarted, Pull, End, Mark, Close,
     BulkMark, Delete, Ends, Fetch, BeginPoll, PollRecords, PollFails, recordsVars
<1>3. ASSUME NEW r, NEW j, NEW s,
             Requests(r) \/ Ends(j) \/ Fetch(j) \/ ReadEdc(j) \/ ReadRows(j) \/ Compare \/ ListRecords(j, s)
               \/ UNCHANGED recordsVars
      PROVE  poll' = poll /\ alerted' = alerted
  BY <1>3 DEF Requests, Start, Complete, Terminate, Bulk, EndOne, HideOne, InsertStarted, Pull, End, Mark, Close,
     BulkMark, Delete, Ends, Fetch, ReadEdc, ReadRows, Compare, ListRecords, recordsVars
<1>4. ASSUME UNCHANGED list PROVE Told /\ Left
  BY <1>0, <1>4
<1>5. ASSUME UNCHANGED <<poll, alerted>> PROVE Waits /\ Alert
  BY <1>0, <1>5
<1>6. ASSUME NEW kind \in {"transfers", "negotiations"}, ReadEdc(kind) PROVE Told /\ Left
  <2>1. PICK raw : raw = [j \in Of(kind) |-> edc[j]]
    OBVIOUS
  <2>2. list' = [list EXCEPT !.at = kind, !.read = list.read \cup {"edc"}, !.raw = raw]
    BY <1>6, <2>1 DEF ReadEdc
  <2>3. list'.at = kind /\ list'.raw = raw /\ list'.left = list.left
    BY <2>2
  <2> QED
    BY <1>0, <2>1, <2>3
<1>7. ASSUME NEW kind \in {"transfers", "negotiations"}, ReadRows(kind) PROVE Told /\ Left
  <2>1. PICK meta : list' = [list EXCEPT !.at = kind, !.read = list.read \cup {"rows"}, !.meta = meta]
    BY <1>7 DEF ReadRows
  <2>2. list'.at = kind /\ list'.read = list.read \cup {"rows"} /\ list'.raw = list.raw /\ list'.left = list.left
    BY <2>1
  <2>3. "edc" \in list.read => list.at = kind
    BY <1>7 DEF ReadRows, Lists, ListInv
  <2> QED
    BY <1>0, <2>2, <2>3
<1>8. ASSUME Compare PROVE Told /\ Left
  <2>1. PICK left : left = {<<j, ListName(list.raw[j], list.meta[j].user)>> :
                              j \in {k \in Of(list.at) : list.raw[k].state \in Final /\ ~list.meta[k].skip}}
    OBVIOUS
  <2>2. list' = [NoList EXCEPT !.left = left]
    BY <1>8, <2>1 DEF Compare
  <2>3. list'.read = {} /\ list'.left = left
    BY <2>2 DEF NoList
  <2>4. ASSUME i \in Of(list.at), NEW user, ListName(list.raw[i], user) = "TERMINATED"
        PROVE  FALSE
    BY <1>0, <1>8, <2>4 DEF ListName, Compare
  <2>5. <<i, "TERMINATED">> \notin left
    BY <2>1, <2>4
  <2> QED
    BY <2>3, <2>5
<1>9. ASSUME NEW j, NEW s, ListRecords(j, s) PROVE Told /\ Left
  <2>1. list' = [list EXCEPT !.left = list.left \ {<<j, s>>}]
    BY <1>9 DEF ListRecords
  <2>2. /\ list'.at = list.at /\ list'.read = list.read /\ list'.raw = list.raw
        /\ list'.left = list.left \ {<<j, s>>}
    BY <2>1
  <2> QED
    BY <1>0, <2>2
<1>10. ASSUME BeginPoll PROVE Waits /\ Alert
  <2>1. PollName(edc[i]) # "TERMINATED"
    BY <1>0 DEF PollName
  <2> QED
    BY <1>0, <1>10, <2>1 DEF BeginPoll
<1>11. ASSUME NEW j, NEW s, PollRecords(j, s) \/ PollFails PROVE Waits /\ Alert
  BY <1>0, <1>11 DEF PollRecords, PollFails
<1> HIDE DEF Told, Left, Waits, Alert
<1>12. Told /\ Left
  BY <1>2, <1>4, <1>6, <1>7, <1>8, <1>9 DEF RecordsNext, ListSteps, Polls
<1>13. Waits /\ Alert
  BY <1>3, <1>5, <1>10, <1>11 DEF RecordsNext, ListSteps, Polls
<1> QED
  BY <1>1, <1>12, <1>13 DEF Told, Left, Waits, Alert

----------------------------------------------------------------------------
(***************************************************************************)
(* What is proved of TransferRecords                                       *)
(***************************************************************************)

(* The initial state has the invariant.                                    *)
LEMMA RecordsInitially == RecordsInit => RecordsIInv
<1> SUFFICES ASSUME RecordsInit PROVE RecordsIInv
  OBVIOUS
<1>1. NoRow \in Row /\ NoReq.id = NoId /\ NoReq.at = "idle" /\ NoReq.left = {} /\ NoReq.all = {}
  BY DEF NoRow, Row, NoReq
<1>2. NoReq \in [at : {"idle", "insert", "pull", "end", "mark", "close", "bulkMark", "delete"},
                 id : Id \cup {NoId}, left : SUBSET Id, all : SUBSET Id]
  BY DEF NoReq
<1>3. [state |-> "none", byConsumer |-> FALSE] \in EdcState
  BY DEF EdcState
<1>4. list.at = "idle" /\ list.left = {} /\ list.read = {}
  BY DEF RecordsInit, NoList
<1>5. RecordsTypeOK
  BY <1>1, <1>2, <1>3, <1>4, RecordsAssumption DEF RecordsInit, RecordsTypeOK, NoRow
<1>6. RequestInv
  BY <1>1 DEF RecordsInit, RequestInv, Meant
<1>7. ListInv
  BY <1>4 DEF ListInv
<1>8. FailureInv
  BY <1>4 DEF RecordsInit, FailureInv, NoRow, Null
<1>9. MarkInv
  BY DEF RecordsInit, MarkInv
<1> QED
  BY <1>5, <1>6, <1>7, <1>8, <1>9 DEF RecordsIInv

(* Notified are ids only, and a recorded completion is kept by its row.    *)
LEMMA AlertedStep ==
  ASSUME RecordsTypeOK, [RecordsNext]_recordsVars
  PROVE  alerted' \subseteq Id
<1>1. ASSUME NEW r, NEW j, NEW s,
             Requests(r) \/ Ends(j) \/ Fetch(j) \/ ReadEdc(j) \/ ReadRows(j) \/ Compare \/ ListRecords(j, s)
               \/ BeginPoll \/ PollFails \/ UNCHANGED recordsVars
      PROVE  alerted' = alerted
  BY <1>1 DEF Requests, Start, Complete, Terminate, Bulk, EndOne, HideOne, InsertStarted, Pull, End, Mark, Close,
     BulkMark, Delete, Ends, Fetch, ReadEdc, ReadRows, Compare, ListRecords, BeginPoll, PollFails, recordsVars
<1>2. ASSUME NEW j \in Id, NEW s, PollRecords(j, s)
      PROVE  alerted' \subseteq alerted \cup {j}
  BY <1>2 DEF PollRecords
<1>3. alerted \subseteq Id
  BY DEF RecordsTypeOK
<1>4. alerted' = alerted \/ \E j \in Id : alerted' \subseteq alerted \cup {j}
  BY <1>1, <1>2 DEF RecordsNext, ListSteps, Polls
<1> QED
  BY <1>3, <1>4

(* What the console records of transfers and negotiations keeps its        *)
(* invariant (routes/transfers.ts, notificationGenerator.ts).              *)
THEOREM RecordsInvariance == RecordsSpec => []RecordsIInv
<1>1. RecordsIInv /\ [RecordsNext]_recordsVars => RecordsIInv'
  <2> SUFFICES ASSUME RecordsIInv, [RecordsNext]_recordsVars PROVE RecordsIInv'
    OBVIOUS
  <2> USE DEF RecordsIInv
  <2>1. /\ row' \in [Id -> Row] /\ acked' \subseteq Transfer
        /\ \A j \in Id : Grows(row[j], row'[j])
        /\ \A j \in acked' : j \in acked \/ (row'[j].user /\ row'[j].done # Null)
    BY RowMoves
  <2>2. edc' \in [Id -> EdcState] /\ faults' \in 0..MaxFaults
    BY EdcMoves
  <2>3. req' \in [Req -> Request] /\ RequestInv'
    BY RequestStep
  <2>4. /\ ListInv' /\ list'.at \in {"idle", "transfers", "negotiations"}
        /\ list'.left \subseteq Id \X Final /\ poll' \subseteq Id \X Final
    BY ListStep
  <2>5. FailureInv'
    BY FailureStep
  <2>6. alerted' \subseteq Id
    BY AlertedStep
  <2>7. RecordsTypeOK'
    BY <2>1, <2>2, <2>3, <2>4, <2>6 DEF RecordsTypeOK, Request, Grows, Sound
  <2>8. MarkInv'
    <3>1. ASSUME NEW j \in acked, j \in acked'
          PROVE  row'[j].user /\ row'[j].done # Null
      BY <2>1, <3>1 DEF MarkInv, Grows, RecordsTypeOK, Id
    <3> QED
      BY <2>1, <3>1 DEF MarkInv
  <2> QED
    BY <2>3, <2>4, <2>5, <2>7, <2>8
<1> QED
  BY <1>1, RecordsInitially, PTL DEF RecordsSpec

(* A completion that was recorded counts as a success, and one by the      *)
(* consumer is a failure for nobody (stats.ts:202-203,                     *)
(* notificationGenerator.ts:373-374).                                      *)
THEOREM RecordsSafe == RecordsSpec => []RecordsInv
<1>1. RecordsIInv => RecordsInv
  <2> SUFFICES ASSUME RecordsIInv PROVE AcknowledgedIsSuccess /\ ConsumerCompletionNoFailure
    BY DEF RecordsIInv, RecordsInv
  <2>1. AcknowledgedIsSuccess
    BY DEF RecordsIInv, MarkInv, AcknowledgedIsSuccess, Counted
  <2>2. ConsumerCompletionNoFailure
    BY DEF RecordsIInv, FailureInv, NoSuccess, ConsumerCompletionNoFailure, DbCompleted, Id
  <2> QED
    BY <2>1, <2>2
<1> QED
  BY <1>1, RecordsInvariance, PTL

(* Lists and polls that read before and write after others take back       *)
(* neither a success nor the time of a completion                          *)
(* (notificationGenerator.ts:165).                                         *)
THEOREM SuccessKept == RecordsSpec => SuccessStays
<1>1. RecordsIInv /\ [RecordsNext]_recordsVars =>
        [\A i \in Transfer :
          /\ Counted(row[i]) = "success" => Counted(row'[i]) = "success"
          /\ row[i].done = "acted" => row'[i].done = "acted"]_recordsVars
  <2> SUFFICES ASSUME RecordsIInv, [RecordsNext]_recordsVars, NEW i \in Transfer
               PROVE  /\ Counted(row[i]) = "success" => Counted(row'[i]) = "success"
                      /\ row[i].done = "acted" => row'[i].done = "acted"
    OBVIOUS
  <2>1. Grows(row[i], row'[i])
    BY RowMoves DEF RecordsIInv, Id
  <2>2. ASSUME Counted(row[i]) = "success"
        PROVE  row[i].done # Null /\ (row[i].last = "COMPLETED" \/ row[i].user)
    BY <2>2 DEF Counted
  <2>3. ASSUME row'[i].done # Null, row'[i].last = "COMPLETED" \/ row'[i].user
        PROVE  Counted(row'[i]) = "success"
    BY <2>3 DEF Counted
  <2> QED
    BY <2>1, <2>2, <2>3 DEF Grows, Null
<1> QED
  BY <1>1, RecordsInvariance, PTL DEF RecordsSpec, SuccessStays

----------------------------------------------------------------------------
(***************************************************************************)
(* The invariant of Offers                                                 *)
(***************************************************************************)

Dialogs == {"submodel", "registry"}

Op == [job : {"none", "submodel", "registry", "edit", "drop"},
       at : {"idle", "create", "read", "write", "offer", "look", "put", "done", "failed", "list", "delete"},
       on : Asset \cup Policy \cup {Nothing}, address : Address \cup {NoAsset},
       kept : Kind \cup {"none"}, blind : BOOLEAN, since : SUBSET Changes, spoilt : BOOLEAN]

(* What a user who does w can be at.                                       *)
Plausible(w) ==
  /\ w.at \in {"create", "offer", "look", "put", "done", "failed"} => w.job \in Dialogs
  /\ w.at \in {"look", "put"} => w.job = "submodel"
  /\ w.at \in {"read", "write"} => w.job \in Dialogs \cup {"edit"}
  /\ w.at \in {"create", "read", "write"} => w.address \in Address
  /\ w.at = "write" => w.kept \in {"none", w.address.kind}
  /\ w.job \in Dialogs \cup {"edit"} => w.on \in Asset

(* What a dialog has made so far is there.                                 *)
Whole(w, assets, offers, links) ==
  (w.job \in Dialogs /\ ~w.spoilt) =>
    /\ w.at \in {"offer", "look", "put", "done"} => assets[w.on] # NoAsset
    /\ w.at \in {"look", "put", "done"} => offers[w.on] # NoOffer
    /\ (w.at = "done" /\ w.job = "submodel") => links[w.on] = "linked"

(* What an update keeps is the secret of the asset as it is, unless it     *)
(* could not read it or it has changed since.                              *)
Recent(w, assets) ==
  (w.at = "write" /\ ~w.blind /\ <<w.on, "asset">> \notin w.since) =>
    w.kept = Preserved(assets[w.on], w.address)

(* What a deletion is about is referred to by no definition that has not   *)
(* changed since it asked.                                                 *)
Asked(w, offers) ==
  (w.at = "delete" /\ ~w.blind) =>
    \A x \in Asset : Refers(offers[x], w.on) => <<x, "offer">> \in w.since

Fits(w, assets, offers, links) ==
  w \in Op /\ Plausible(w) /\ Whole(w, assets, offers, links) /\ Recent(w, assets) /\ Asked(w, offers)

OffersIInv == OffersTypeOK /\ \A u \in User : Fits(op[u], asset, offer, link)

----------------------------------------------------------------------------
(***************************************************************************)
(* What a call does to those who did not make it                           *)
(***************************************************************************)

(* The changes a call makes known: whatever is not among them is as it     *)
(* was, and whatever is not undone is still there.                         *)
Known(changed, undone, assets, offers, links, assets2, offers2, links2) ==
  \A x \in Asset :
    /\ <<x, "asset">> \notin changed => assets2[x] = assets[x]
    /\ <<x, "offer">> \notin changed => offers2[x] = offers[x]
    /\ x \notin undone =>
         /\ assets[x] # NoAsset => assets2[x] # NoAsset
         /\ offers[x] # NoOffer => offers2[x] # NoOffer
         /\ links[x] = "linked" => links2[x] = "linked"

(* Another user takes note of them.                                        *)
Noted(w, changed, undone) ==
  [w EXCEPT !.since = IF w.at \in {"write", "delete"} THEN w.since \cup changed ELSE {},
            !.spoilt = w.spoilt \/ (w.job \in Dialogs /\ w.on \in undone)]

(* What another user has got so far still fits.                            *)
LEMMA OthersNote ==
  ASSUME NEW a, NEW o, NEW l, NEW a2, NEW o2, NEW l2, NEW changed \in SUBSET Changes, NEW undone,
         Known(changed, undone, a, o, l, a2, o2, l2),
         NEW w, Fits(w, a, o, l)
  PROVE  Fits(Noted(w, changed, undone), a2, o2, l2)
<1> DEFINE new == Noted(w, changed, undone)
<1>0. w \in Op /\ Plausible(w) /\ Whole(w, a, o, l) /\ Recent(w, a) /\ Asked(w, o)
  BY DEF Fits
<1>1. /\ new.job = w.job /\ new.at = w.at /\ new.on = w.on /\ new.address = w.address
      /\ new.kept = w.kept /\ new.blind = w.blind
      /\ new.since = (IF w.at \in {"write", "delete"} THEN w.since \cup changed ELSE {})
  BY <1>0 DEF Op, Noted
<1>2. new.spoilt = (w.spoilt \/ (w.job \in Dialogs /\ w.on \in undone))
  BY <1>0 DEF Op, Noted
<1>3. new \in Op
  <2>1. new.since \in SUBSET Changes
    BY <1>0, <1>1 DEF Op
  <2>2. new.spoilt \in BOOLEAN
    BY <1>0, <1>2 DEF Op
  <2> QED
    BY <1>0, <2>1, <2>2 DEF Op, Noted
<1>4. Plausible(new)
  BY <1>0, <1>1 DEF Plausible
<1>5. Whole(new, a2, o2, l2)
  <2> SUFFICES ASSUME new.job \in Dialogs, ~new.spoilt
               PROVE  /\ new.at \in {"offer", "look", "put", "done"} => a2[new.on] # NoAsset
                      /\ new.at \in {"look", "put", "done"} => o2[new.on] # NoOffer
                      /\ (new.at = "done" /\ new.job = "submodel") => l2[new.on] = "linked"
    BY DEF Whole
  <2>1. w.job \in Dialogs /\ ~w.spoilt /\ w.on \notin undone /\ w.on \in Asset
    BY <1>0, <1>1, <1>2 DEF Plausible
  <2>2. /\ a[w.on] # NoAsset => a2[w.on] # NoAsset
        /\ o[w.on] # NoOffer => o2[w.on] # NoOffer
        /\ l[w.on] = "linked" => l2[w.on] = "linked"
    BY <2>1 DEF Known
  <2>3. /\ w.at \in {"offer", "look", "put", "done"} => a[w.on] # NoAsset
        /\ w.at \in {"look", "put", "done"} => o[w.on] # NoOffer
        /\ (w.at = "done" /\ w.job = "submodel") => l[w.on] = "linked"
    BY <1>0, <2>1 DEF Whole
  <2> QED
    BY <1>1, <2>2, <2>3
<1>6. Recent(new, a2)
  <2> SUFFICES ASSUME new.at = "write", ~new.blind, <<new.on, "asset">> \notin new.since
               PROVE  new.kept = Preserved(a2[new.on], new.address)
    BY DEF Recent
  <2>1. /\ w.at = "write" /\ ~w.blind /\ <<w.on, "asset">> \notin w.since /\ <<w.on, "asset">> \notin changed
        /\ w.on \in Asset
    BY <1>0, <1>1 DEF Plausible
  <2>2. a2[w.on] = a[w.on] /\ w.kept = Preserved(a[w.on], w.address)
    BY <1>0, <2>1 DEF Known, Recent
  <2> QED
    BY <1>1, <2>2
<1>7. Asked(new, o2)
  <2> SUFFICES ASSUME new.at = "delete", ~new.blind, NEW x \in Asset, Refers(o2[x], new.on),
                      <<x, "offer">> \notin new.since
               PROVE  FALSE
    BY DEF Asked
  <2>1. w.at = "delete" /\ ~w.blind /\ <<x, "offer">> \notin w.since /\ <<x, "offer">> \notin changed
    BY <1>1
  <2>2. o2[x] = o[x]
    BY <2>1 DEF Known
  <2> QED
    BY <1>0, <1>1, <2>1, <2>2 DEF Asked
<1> QED
  BY <1>3, <1>4, <1>5, <1>6, <1>7 DEF Fits

AllFit == \A u \in User : Fits(op[u], asset, offer, link)

(* A user goes on and the others take note.                                *)
LEMMA OnwardKeeps ==
  ASSUME OffersIInv, NEW u \in User, NEW w, NEW changed \in SUBSET Changes, NEW undone,
         Onward(u, w, changed, undone),
         Known(changed, undone, asset, offer, link, asset', offer', link'),
         Fits(w, asset', offer', link')
  PROVE  op' \in [User -> Op] /\ AllFit'
<1>1. ASSUME NEW v \in User
      PROVE  Fits(op'[v], asset', offer', link')
  <2>1. CASE v = u
    BY <2>1 DEF Onward
  <2>2. CASE v # u
    <3>1. op'[v] = Noted(op[v], changed, undone)
      BY <2>2 DEF Onward, Dialog, Dialogs, Noted
    <3>2. Fits(op[v], asset, offer, link)
      BY DEF OffersIInv
    <3> QED
      BY <3>1, <3>2, OthersNote
  <2> QED
    BY <2>1, <2>2
<1>2. AllFit'
  BY <1>1 DEF AllFit
<1>3. op' = [v \in User |-> op'[v]]
  BY DEF Onward
<1>4. \A v \in User : op'[v] \in Op
  BY <1>1 DEF Fits
<1> QED
  BY <1>2, <1>3, <1>4

(* A user goes on without a call that changes anything.                    *)
LEMMA MovesKeeps ==
  ASSUME OffersIInv, NEW u \in User, NEW w, Fits(w, asset, offer, link),
         op' = [op EXCEPT ![u] = w], UNCHANGED <<asset, offer, link>>
  PROVE  op' \in [User -> Op] /\ AllFit'
<1>1. op \in [User -> Op]
  BY DEF OffersIInv, OffersTypeOK, Op
<1>2. w \in Op
  BY DEF Fits
<1>3. op' \in [User -> Op]
  BY <1>1, <1>2
<1>4. ASSUME NEW v \in User PROVE Fits(op'[v], asset', offer', link')
  BY <1>1 DEF OffersIInv
<1> QED
  BY <1>3, <1>4 DEF AllFit

LEMMA IdleFits ==
  ASSUME NEW a, NEW o, NEW l
  PROVE  Fits(Idle, a, o, l)
<1>1. Idle \in Op
  BY DEF Idle, Op
<1> QED
  BY <1>1 DEF Idle, Fits, Plausible, Whole, Recent, Asked, Dialogs

(* A dialog or a request begins.                                           *)
LEMMA FreshFits ==
  ASSUME NEW job, NEW at, NEW on, NEW address, NEW a, NEW o, NEW l,
         \/ job \in Dialogs /\ at = "create" /\ on \in Asset /\ address \in Address
         \/ job = "edit" /\ at = "read" /\ on \in Asset /\ address \in Address
         \/ job = "drop" /\ at = "list" /\ on \in Asset \cup Policy /\ address = NoAsset
  PROVE  Fits([Idle EXCEPT !.job = job, !.at = at, !.on = on, !.address = address], a, o, l)
<1>1. PICK w : w = [Idle EXCEPT !.job = job, !.at = at, !.on = on, !.address = address]
  OBVIOUS
<1>2. w = [job |-> job, at |-> at, on |-> on, address |-> address, kept |-> "none", blind |-> FALSE,
           since |-> {}, spoilt |-> FALSE]
  BY <1>1 DEF Idle
<1>3. w \in Op
  BY <1>2 DEF Op, Dialogs
<1>4. Plausible(w) /\ Whole(w, a, o, l) /\ Recent(w, a) /\ Asked(w, o)
  BY <1>2 DEF Plausible, Whole, Recent, Asked, Dialogs
<1> QED
  BY <1>1, <1>3, <1>4 DEF Fits

(* The next call fits if what it rests on is there.                        *)
LEMMA AtFits ==
  ASSUME OffersIInv, NEW u \in User, NEW a, NEW o, NEW l,
         NEW to \in {"idle", "read", "offer", "look", "put", "done", "failed"},
         to \in {"offer", "look", "put", "done", "failed"} => Dialog(u),
         to \in {"look", "put"} => op[u].job = "submodel",
         to = "read" => Dialog(u) /\ op[u].address \in Address,
         Dialog(u) /\ ~op[u].spoilt =>
           /\ to \in {"offer", "look", "put", "done"} => a[op[u].on] # NoAsset
           /\ to \in {"look", "put", "done"} => o[op[u].on] # NoOffer
           /\ (to = "done" /\ op[u].job = "submodel") => l[op[u].on] = "linked"
  PROVE  Fits(At(u, to), a, o, l)
<1>1. CASE to = "idle"
  BY <1>1, IdleFits DEF At
<1>2. CASE to # "idle"
  <2>1. PICK w : w = [op[u] EXCEPT !.at = to, !.kept = "none", !.blind = FALSE, !.since = {}]
    OBVIOUS
  <2>2. op[u] \in Op /\ Plausible(op[u])
    BY DEF OffersIInv, Fits
  <2>3. w = [job |-> op[u].job, at |-> to, on |-> op[u].on, address |-> op[u].address, kept |-> "none",
             blind |-> FALSE, since |-> {}, spoilt |-> op[u].spoilt]
    BY <2>1, <2>2 DEF Op
  <2>4. w \in Op
    BY <2>2, <2>3 DEF Op
  <2>5. Dialog(u) <=> w.job \in Dialogs
    BY <2>3 DEF Dialog, Dialogs
  <2>6. Plausible(w) /\ Whole(w, a, o, l) /\ Recent(w, a) /\ Asked(w, o)
    BY <1>2, <2>2, <2>3, <2>5 DEF Plausible, Whole, Recent, Asked
  <2> QED
    BY <1>2, <2>1, <2>4, <2>6 DEF At, Fits
<1> QED
  BY <1>1, <1>2

(* A call that did what it should, whether its answer was lost or not.     *)
LEMMA CalledKeeps ==
  ASSUME OffersIInv, NEW u \in User, NEW to, NEW changed \in SUBSET Changes, NEW undone,
         Called(u, to, changed, undone),
         Known(changed, undone, asset, offer, link, asset', offer', link'),
         Fits(At(u, to), asset', offer', link')
  PROVE  op' \in [User -> Op] /\ AllFit'
<1>1. CASE Onward(u, At(u, to), changed, undone)
  BY <1>1, OnwardKeeps
<1>2. CASE Dialog(u) /\ Onward(u, At(u, "failed"), changed, undone)
  <2>1. Fits(At(u, "failed"), asset', offer', link')
    BY <1>2, AtFits
  <2> QED
    BY <1>2, <2>1, OnwardKeeps
<1> QED
  BY <1>1, <1>2 DEF Called

----------------------------------------------------------------------------
(***************************************************************************)
(* One step of the console                                                 *)
(***************************************************************************)

(* An address is not the absence of an asset.                              *)
LEMMA AddressThere ==
  ASSUME NEW a \in Address
  PROVE  a # NoAsset /\ a.kind \in Kind /\ a.secret \in {"none", a.kind}
         /\ a = [kind |-> a.kind, secret |-> a.secret]
BY DEF Address, NoAsset, Kind

(* What an update writes is an address, of the kind it was asked for.      *)
LEMMA WrittenIsAddress ==
  ASSUME OffersIInv, NEW u \in User, op[u].at = "write",
         NEW written,
         written = IF op[u].address.secret = "none" THEN [op[u].address EXCEPT !.secret = op[u].kept]
                   ELSE op[u].address
  PROVE  written \in Address /\ written.kind = op[u].address.kind
         /\ written.secret = (IF op[u].address.secret = "none" THEN op[u].kept ELSE op[u].address.secret)
<1>1. op[u].address \in Address /\ op[u].kept \in {"none", op[u].address.kind}
  BY DEF OffersIInv, Fits, Plausible
<1>2. PICK a, k : a = op[u].address /\ k = op[u].kept
  OBVIOUS
<1>3. a = [kind |-> a.kind, secret |-> a.secret] /\ a.kind \in Kind /\ a.secret \in {"none", a.kind}
  BY <1>1, <1>2, AddressThere
<1>4. written = [kind |-> a.kind, secret |-> IF a.secret = "none" THEN k ELSE a.secret]
  BY <1>2, <1>3
<1> QED
  BY <1>1, <1>2, <1>3, <1>4 DEF Address

(* Dialogs and requests that begin, are submitted again or are dismissed.  *)
LEMMA BeginStep ==
  ASSUME OffersIInv, NEW u \in User,
         \/ \E x \in Asset, job \in {"submodel", "registry"} : Expose(u, job, x)
         \/ \E x \in Asset, a \in Address : Edit(u, x, a)
         \/ \E o \in Asset \cup Policy : Remove(u, o)
         \/ Retry(u) \/ Dismiss(u)
  PROVE  /\ UNCHANGED <<asset, policies, offer, link, mishaps>> /\ (Job \/ UNCHANGED jobs)
         /\ op' \in [User -> Op] /\ AllFit'
<1>1. ASSUME NEW x \in Asset, NEW job \in {"submodel", "registry"}, Expose(u, job, x)
      PROVE  UNCHANGED <<asset, policies, offer, link, mishaps>> /\ Job /\ op' \in [User -> Op] /\ AllFit'
  <2>1. Exposed \in Address
    BY DEF Exposed, Address, Kind
  <2>2. Fits([Idle EXCEPT !.job = job, !.at = "create", !.on = x, !.address = Exposed], asset, offer, link)
    BY <2>1, FreshFits DEF Dialogs
  <2>3. /\ UNCHANGED <<asset, policies, offer, link, mishaps>> /\ Job
        /\ op' = [op EXCEPT ![u] = [Idle EXCEPT !.job = job, !.at = "create", !.on = x, !.address = Exposed]]
    BY <1>1 DEF Expose, Begin
  <2> QED
    BY <2>2, <2>3, MovesKeeps
<1>2. ASSUME NEW x \in Asset, NEW a \in Address, Edit(u, x, a)
      PROVE  UNCHANGED <<asset, policies, offer, link, mishaps>> /\ Job /\ op' \in [User -> Op] /\ AllFit'
  <2>1. Fits([Idle EXCEPT !.job = "edit", !.at = "read", !.on = x, !.address = a], asset, offer, link)
    BY FreshFits
  <2>2. /\ UNCHANGED <<asset, policies, offer, link, mishaps>> /\ Job
        /\ op' = [op EXCEPT ![u] = [Idle EXCEPT !.job = "edit", !.at = "read", !.on = x, !.address = a]]
    BY <1>2 DEF Edit, Begin
  <2> QED
    BY <2>1, <2>2, MovesKeeps
<1>3. ASSUME NEW o \in Asset \cup Policy, Remove(u, o)
      PROVE  UNCHANGED <<asset, policies, offer, link, mishaps>> /\ Job /\ op' \in [User -> Op] /\ AllFit'
  <2>1. Fits([Idle EXCEPT !.job = "drop", !.at = "list", !.on = o, !.address = NoAsset], asset, offer, link)
    BY FreshFits
  <2>2. /\ UNCHANGED <<asset, policies, offer, link, mishaps>> /\ Job
        /\ op' = [op EXCEPT ![u] = [Idle EXCEPT !.job = "drop", !.at = "list", !.on = o, !.address = NoAsset]]
    BY <1>3 DEF Remove, Begin
  <2> QED
    BY <2>1, <2>2, MovesKeeps
<1>4. ASSUME Retry(u)
      PROVE  UNCHANGED <<asset, policies, offer, link, jobs, mishaps>> /\ op' \in [User -> Op] /\ AllFit'
  <2>1. Exposed \in Address
    BY DEF Exposed, Address, Kind
  <2>2. op[u].job \in Dialogs /\ op[u].on \in Asset
    BY <1>4 DEF Retry, OffersIInv, Fits, Plausible
  <2>3. Fits([Idle EXCEPT !.job = op[u].job, !.at = "create", !.on = op[u].on, !.address = Exposed],
             asset, offer, link)
    BY <2>1, <2>2, FreshFits
  <2>4. /\ UNCHANGED <<asset, policies, offer, link, jobs, mishaps>>
        /\ op' = [op EXCEPT ![u] = [Idle EXCEPT !.job = op[u].job, !.at = "create", !.on = op[u].on,
                                                !.address = Exposed]]
    BY <1>4 DEF Retry
  <2> QED
    BY <2>3, <2>4, MovesKeeps
<1>5. ASSUME Dismiss(u)
      PROVE  UNCHANGED <<asset, policies, offer, link, jobs, mishaps>> /\ op' \in [User -> Op] /\ AllFit'
  BY <1>5, IdleFits, MovesKeeps DEF Dismiss
<1> QED
  BY <1>1, <1>2, <1>3, <1>4, <1>5

(* Objects of their types and users that fit make the invariant.           *)
LEMMA Together ==
  ASSUME OffersIInv,
         asset' \in [Asset -> Address \cup {NoAsset}], policies' \subseteq policies,
         offer' \in [Asset -> Definition \cup {NoOffer}], link' \in [Asset -> {"missing", "plain", "linked"}],
         op' \in [User -> Op], AllFit', Job \/ UNCHANGED jobs, Mishap \/ UNCHANGED mishaps
  PROVE  OffersIInv'
<1>1. jobs' \in 0..MaxJobs
  BY OffersAssumption DEF OffersIInv, OffersTypeOK, Job
<1>2. mishaps' \in 0..MaxMishaps
  BY OffersAssumption DEF OffersIInv, OffersTypeOK, Mishap
<1>3. policies' \subseteq Policy
  BY DEF OffersIInv, OffersTypeOK
<1>4. OffersTypeOK'
  BY <1>1, <1>2, <1>3 DEF OffersTypeOK, Op
<1> QED
  BY <1>4 DEF OffersIInv, AllFit

(* The calls that write or read an asset.                                  *)
LEMMA AssetStep ==
  ASSUME OffersIInv, NEW u \in User,
         \/ CreateAsset(u) \/ ReadAsset(u) \/ WriteAsset(u)
         \/ \E x \in Asset, a \in Address : AddAsset(u, x, a)
  PROVE  OffersIInv'
<1> DEFINE x == op[u].on
<1>0. /\ asset \in [Asset -> Address \cup {NoAsset}] /\ offer \in [Asset -> Definition \cup {NoOffer}]
      /\ link \in [Asset -> {"missing", "plain", "linked"}] /\ op \in [User -> Op]
  BY DEF OffersIInv, OffersTypeOK, Op
<1>1. op[u] \in Op /\ Plausible(op[u]) /\ Whole(op[u], asset, offer, link)
  BY DEF OffersIInv, Fits
<1>2. ASSUME NEW y \in Asset, NEW a \in Address, asset' = [asset EXCEPT ![y] = a], UNCHANGED <<offer, link>>
      PROVE  /\ asset' \in [Asset -> Address \cup {NoAsset}] /\ asset'[y] # NoAsset
             /\ {<<y, "asset">>} \in SUBSET Changes
             /\ Known({<<y, "asset">>}, {}, asset, offer, link, asset', offer', link')
  <2>1. asset'[y] = a /\ a # NoAsset /\ \A z \in Asset : z # y => asset'[z] = asset[z]
    BY <1>0, <1>2, AddressThere
  <2>2. Known({<<y, "asset">>}, {}, asset, offer, link, asset', offer', link')
    BY <1>2, <2>1 DEF Known
  <2> QED
    BY <1>0, <1>2, <2>1, <2>2 DEF Changes
<1>3. ASSUME CreateAsset(u), asset[x] = NoAsset
      PROVE  OffersIInv'
  <2>1. /\ x \in Asset /\ op[u].address \in Address /\ op[u].job \in Dialogs
        /\ asset' = [asset EXCEPT ![x] = op[u].address] /\ Called(u, "offer", {<<x, "asset">>}, {})
        /\ UNCHANGED <<policies, offer, link, jobs>>
    BY <1>1, <1>3 DEF CreateAsset, Plausible
  <2>2. /\ asset' \in [Asset -> Address \cup {NoAsset}] /\ asset'[x] # NoAsset
        /\ {<<x, "asset">>} \in SUBSET Changes
        /\ Known({<<x, "asset">>}, {}, asset, offer, link, asset', offer', link')
    BY <1>2, <2>1
  <2>3. Fits(At(u, "offer"), asset', offer', link')
    BY <2>1, <2>2, AtFits DEF Dialog, Dialogs
  <2>4. op' \in [User -> Op] /\ AllFit'
    BY <2>1, <2>2, <2>3, CalledKeeps
  <2> QED
    BY <1>0, <2>1, <2>2, <2>4, Together DEF Called
<1>4. ASSUME CreateAsset(u), asset[x] # NoAsset
      PROVE  OffersIInv'
  <2>1. /\ op[u].address \in Address /\ op[u].job \in Dialogs
        /\ op' = [op EXCEPT ![u] = At(u, "read")] /\ UNCHANGED <<asset, policies, offer, link, jobs, mishaps>>
    BY <1>1, <1>4 DEF CreateAsset, Plausible, Moves, OnConflict
  <2>2. Fits(At(u, "read"), asset, offer, link)
    BY <2>1, AtFits DEF Dialog, Dialogs
  <2>3. op' \in [User -> Op] /\ AllFit'
    BY <2>1, <2>2, MovesKeeps
  <2> QED
    BY <1>0, <2>1, <2>3, Together
<1>5. ASSUME NEW y \in Asset, NEW a \in Address, AddAsset(u, y, a)
      PROVE  OffersIInv'
  <2>1. /\ op[u].at = "idle" /\ Job /\ asset' = [asset EXCEPT ![y] = a] /\ Onward(u, op[u], {<<y, "asset">>}, {})
        /\ UNCHANGED <<policies, offer, link, mishaps>>
    BY <1>5 DEF AddAsset
  <2>2. /\ asset' \in [Asset -> Address \cup {NoAsset}]
        /\ {<<y, "asset">>} \in SUBSET Changes
        /\ Known({<<y, "asset">>}, {}, asset, offer, link, asset', offer', link')
    BY <1>2, <2>1
  <2>3. Fits(op[u], asset', offer', link')
    BY <1>1, <2>1 DEF Fits, Whole, Recent, Asked
  <2>4. op' \in [User -> Op] /\ AllFit'
    BY <2>1, <2>2, <2>3, OnwardKeeps
  <2> QED
    BY <1>0, <2>1, <2>2, <2>4, Together
<1>6. ASSUME ReadAsset(u)
      PROVE  OffersIInv'
  <2>1. /\ op[u].at = "read" /\ UNCHANGED <<asset, policies, offer, link, jobs>> /\ (Mishap \/ UNCHANGED mishaps)
        /\ x \in Asset /\ op[u].address \in Address
    BY <1>1, <1>6 DEF ReadAsset, Plausible
  <2>2. PICK k, b : /\ b \in BOOLEAN /\ k \in {"none", Preserved(asset[x], op[u].address)}
                    /\ ~b => k = Preserved(asset[x], op[u].address)
                    /\ Onward(u, [op[u] EXCEPT !.at = "write", !.kept = k, !.blind = b, !.since = {}], {}, {})
    BY <1>6 DEF ReadAsset
  <2>3. Preserved(asset[x], op[u].address) \in {"none", op[u].address.kind} /\ op[u].address.kind \in Kind
    <3>1. asset[x] = NoAsset \/ asset[x] \in Address
      BY <1>0, <2>1
    <3>2. asset[x].secret \in {"none", asset[x].kind}
      BY <3>1, AddressThere DEF NoAsset
    <3> QED
      BY <2>1, <3>2, AddressThere DEF Preserved
  <2>4. PICK w : w = [op[u] EXCEPT !.at = "write", !.kept = k, !.blind = b, !.since = {}]
    OBVIOUS
  <2>5. w = [job |-> op[u].job, at |-> "write", on |-> x, address |-> op[u].address, kept |-> k,
             blind |-> b, since |-> {}, spoilt |-> op[u].spoilt]
    BY <1>1, <2>4 DEF Op
  <2>6. w \in Op
    BY <1>1, <2>2, <2>3, <2>5 DEF Op
  <2>7. Plausible(w) /\ Whole(w, asset, offer, link) /\ Recent(w, asset) /\ Asked(w, offer)
    BY <1>1, <2>1, <2>2, <2>3, <2>5 DEF Plausible, Whole, Recent, Asked
  <2>8. Fits(w, asset', offer', link')
    BY <2>1, <2>6, <2>7 DEF Fits
  <2>9. Known({}, {}, asset, offer, link, asset', offer', link')
    BY <2>1 DEF Known
  <2>10. op' \in [User -> Op] /\ AllFit'
    BY <2>2, <2>4, <2>8, <2>9, OnwardKeeps
  <2> QED
    BY <1>0, <2>1, <2>10, Together
<1>7. ASSUME WriteAsset(u), asset[x] # NoAsset
      PROVE  OffersIInv'
  <2>1. PICK written, to :
          /\ written = IF op[u].address.secret = "none" THEN [op[u].address EXCEPT !.secret = op[u].kept]
                       ELSE op[u].address
          /\ to = IF ~Dialog(u) THEN "idle" ELSE "offer"
          /\ asset' = [asset EXCEPT ![x] = written] /\ Called(u, to, {<<x, "asset">>}, {})
    BY <1>7 DEF WriteAsset
  <2>2. op[u].at = "write" /\ x \in Asset /\ UNCHANGED <<policies, offer, link, jobs>>
    BY <1>1, <1>7 DEF WriteAsset, Plausible
  <2>3. written \in Address
    BY <2>1, <2>2, WrittenIsAddress
  <2>4. /\ asset' \in [Asset -> Address \cup {NoAsset}] /\ asset'[x] # NoAsset
        /\ {<<x, "asset">>} \in SUBSET Changes
        /\ Known({<<x, "asset">>}, {}, asset, offer, link, asset', offer', link')
    BY <1>2, <2>1, <2>2, <2>3
  <2>5. Fits(At(u, to), asset', offer', link')
    BY <2>1, <2>4, AtFits
  <2>6. op' \in [User -> Op] /\ AllFit'
    BY <2>1, <2>4, <2>5, CalledKeeps
  <2> QED
    BY <1>0, <2>1, <2>2, <2>4, <2>6, Together DEF Called
<1>8. ASSUME WriteAsset(u), asset[x] = NoAsset
      PROVE  OffersIInv'
  <2>1. PICK to : /\ to = IF ~Dialog(u) THEN "idle" ELSE "failed"
                  /\ op' = [op EXCEPT ![u] = At(u, to)]
                  /\ UNCHANGED <<asset, policies, offer, link, jobs, mishaps>>
    BY <1>8 DEF WriteAsset, Moves
  <2>2. Fits(At(u, to), asset, offer, link)
    BY <2>1, AtFits
  <2>3. op' \in [User -> Op] /\ AllFit'
    BY <2>1, <2>2, MovesKeeps
  <2> QED
    BY <1>0, <2>1, <2>3, Together
<1> QED
  BY <1>3, <1>4, <1>5, <1>6, <1>7, <1>8

(* The calls that write or read a definition or a descriptor.              *)
LEMMA OfferStep ==
  ASSUME OffersIInv, NEW u \in User,
         \/ MakeOffer(u) \/ Look(u) \/ Put(u) \/ CallFails(u)
         \/ \E x \in Asset, d \in Definition \cup {NoOffer} : Define(u, x, d)
         \/ \E x \in Asset, to \in {"plain", "missing"} : Redescribe(u, x, to)
  PROVE  OffersIInv'
<1> DEFINE x == op[u].on
<1>0. /\ asset \in [Asset -> Address \cup {NoAsset}] /\ offer \in [Asset -> Definition \cup {NoOffer}]
      /\ link \in [Asset -> {"missing", "plain", "linked"}] /\ op \in [User -> Op]
  BY DEF OffersIInv, OffersTypeOK, Op
<1>1. op[u] \in Op /\ Plausible(op[u]) /\ Whole(op[u], asset, offer, link)
  BY DEF OffersIInv, Fits
<1>2. ASSUME MakeOffer(u), offer[x] = NoOffer
      PROVE  OffersIInv'
  <2>1. /\ x \in Asset /\ op[u].at = "offer" /\ op[u].job \in Dialogs
        /\ UNCHANGED <<asset, policies, link, jobs>>
    BY <1>1, <1>2 DEF MakeOffer, Plausible, Dialogs
  <2>2. PICK p \in Policy, q \in Policy, to \in {"look", "done"} :
          /\ to = IF op[u].job = "submodel" THEN "look" ELSE "done"
          /\ offer' = [offer EXCEPT ![x] = [assets |-> {x}, access |-> p, contract |-> q]]
          /\ Called(u, to, {<<x, "offer">>}, {})
    BY <1>2 DEF MakeOffer
  <2>3. [assets |-> {x}, access |-> p, contract |-> q] \in Definition
    <3>1. ASSUME NEW y \in Asset PROVE {y} \subseteq Asset /\ {y} # {}
      OBVIOUS
    <3>2. \A y \in Asset : {y} \in (SUBSET Asset) \ {{}}
      BY <3>1
    <3> QED
      BY <2>1, <3>2 DEF Definition
  <2>4. [assets |-> {x}, access |-> p, contract |-> q] # NoOffer
    BY DEF NoOffer
  <2>5. offer' \in [Asset -> Definition \cup {NoOffer}] /\ offer'[x] # NoOffer
    BY <1>0, <2>1, <2>2, <2>3, <2>4
  <2>6. \A z \in Asset : z # x => offer'[z] = offer[z]
    BY <1>0, <2>2
  <2>7. Known({<<x, "offer">>}, {}, asset, offer, link, asset', offer', link')
    BY <2>1, <2>5, <2>6 DEF Known
  <2>8. {<<x, "offer">>} \in SUBSET Changes
    BY <2>1 DEF Changes
  <2>9. Fits(At(u, to), asset', offer', link')
    BY <1>1, <2>1, <2>2, <2>5, AtFits DEF Dialog, Dialogs, Whole
  <2>10. op' \in [User -> Op] /\ AllFit'
    BY <2>2, <2>7, <2>8, <2>9, CalledKeeps
  <2> QED
    BY <1>0, <2>1, <2>2, <2>5, <2>10, Together DEF Called
<1>3. ASSUME MakeOffer(u), offer[x] # NoOffer
      PROVE  OffersIInv'
  <2>1. PICK to : /\ to = IF op[u].job = "submodel" THEN "look" ELSE "done"
                  /\ op' = [op EXCEPT ![u] = At(u, to)]
                  /\ UNCHANGED <<asset, policies, offer, link, jobs, mishaps>>
    BY <1>3 DEF MakeOffer, Moves
  <2>2. op[u].at = "offer" /\ op[u].job \in Dialogs
    BY <1>1, <1>3 DEF MakeOffer, Plausible
  <2>3. Fits(At(u, to), asset, offer, link)
    BY <1>1, <1>3, <2>1, <2>2, AtFits DEF Dialog, Dialogs, Whole
  <2>4. op' \in [User -> Op] /\ AllFit'
    BY <2>1, <2>3, MovesKeeps
  <2> QED
    BY <1>0, <2>1, <2>4, Together
<1>4. ASSUME Look(u)
      PROVE  OffersIInv'
  <2>1. PICK to : /\ to = IF link[x] = "missing" THEN "failed" ELSE "put"
                  /\ op' = [op EXCEPT ![u] = At(u, to)]
                  /\ UNCHANGED <<asset, policies, offer, link, jobs, mishaps>>
    BY <1>4 DEF Look, Moves, NotFound
  <2>2. op[u].at = "look" /\ op[u].job \in Dialogs /\ op[u].job = "submodel"
    BY <1>1, <1>4 DEF Look, Plausible
  <2>3. Fits(At(u, to), asset, offer, link)
    BY <1>1, <2>1, <2>2, AtFits DEF Dialog, Dialogs, Whole
  <2>4. op' \in [User -> Op] /\ AllFit'
    BY <2>1, <2>3, MovesKeeps
  <2> QED
    BY <1>0, <2>1, <2>4, Together
<1>5. ASSUME Put(u), link[x] = "missing"
      PROVE  OffersIInv'
  <2>1. /\ op' = [op EXCEPT ![u] = At(u, "failed")]
        /\ UNCHANGED <<asset, policies, offer, link, jobs, mishaps>>
    BY <1>5 DEF Put, Moves
  <2>2. op[u].job \in Dialogs
    BY <1>1, <1>5 DEF Put, Plausible
  <2>3. Fits(At(u, "failed"), asset, offer, link)
    BY <2>2, AtFits DEF Dialog, Dialogs
  <2>4. op' \in [User -> Op] /\ AllFit'
    BY <2>1, <2>3, MovesKeeps
  <2> QED
    BY <1>0, <2>1, <2>4, Together
<1>6. ASSUME Put(u), link[x] # "missing"
      PROVE  OffersIInv'
  <2>1. /\ op[u].at = "put" /\ op[u].job \in Dialogs /\ x \in Asset
        /\ link' = [link EXCEPT ![x] = "linked"] /\ Called(u, "done", {}, {})
        /\ UNCHANGED <<asset, policies, offer, jobs>>
    BY <1>1, <1>6 DEF Put, Plausible, Dialogs
  <2>2. link' \in [Asset -> {"missing", "plain", "linked"}] /\ link'[x] = "linked"
    BY <1>0, <2>1
  <2>3. \A z \in Asset : link[z] = "linked" => link'[z] = "linked"
    BY <1>0, <2>1
  <2>4. Known({}, {}, asset, offer, link, asset', offer', link')
    BY <2>1, <2>3 DEF Known
  <2>5. Fits(At(u, "done"), asset', offer', link')
    BY <1>1, <2>1, <2>2, AtFits DEF Dialog, Dialogs, Whole
  <2>6. op' \in [User -> Op] /\ AllFit'
    BY <2>1, <2>4, <2>5, CalledKeeps
  <2> QED
    BY <1>0, <2>1, <2>2, <2>6, Together DEF Called
<1>7. ASSUME CallFails(u)
      PROVE  OffersIInv'
  <2>1. PICK to : /\ to = IF Dialog(u) THEN "failed" ELSE "idle"
                  /\ op' = [op EXCEPT ![u] = At(u, to)]
                  /\ UNCHANGED <<asset, policies, offer, link, jobs>> /\ Mishap
    BY <1>7 DEF CallFails, Moves
  <2>2. Fits(At(u, to), asset, offer, link)
    BY <2>1, AtFits
  <2>3. op' \in [User -> Op] /\ AllFit'
    BY <2>1, <2>2, MovesKeeps
  <2> QED
    BY <1>0, <2>1, <2>3, Together
<1>8. ASSUME NEW y \in Asset, NEW d \in Definition \cup {NoOffer}, Define(u, y, d)
      PROVE  OffersIInv'
  <2>1. PICK undone :
          /\ undone = IF offer[y] = NoOffer THEN {} ELSE {y}
          /\ op[u].at = "idle" /\ Job /\ offer' = [offer EXCEPT ![y] = d]
          /\ Onward(u, op[u], {<<y, "offer">>}, undone)
          /\ UNCHANGED <<asset, policies, link, mishaps>>
    BY <1>8 DEF Define
  <2>2. offer' \in [Asset -> Definition \cup {NoOffer}] /\ \A z \in Asset : z # y => offer'[z] = offer[z]
    BY <1>0, <2>1
  <2>3. Known({<<y, "offer">>}, undone, asset, offer, link, asset', offer', link')
    BY <2>1, <2>2 DEF Known
  <2>4. Fits(op[u], asset', offer', link')
    BY <1>1, <2>1 DEF Fits, Whole, Recent, Asked
  <2>5. {<<y, "offer">>} \in SUBSET Changes
    BY DEF Changes
  <2>6. op' \in [User -> Op] /\ AllFit'
    BY <2>1, <2>3, <2>4, <2>5, OnwardKeeps
  <2> QED
    BY <1>0, <2>1, <2>2, <2>6, Together
<1>9. ASSUME NEW y \in Asset, NEW to \in {"plain", "missing"}, Redescribe(u, y, to)
      PROVE  OffersIInv'
  <2>1. /\ op[u].at = "idle" /\ Job /\ link' = [link EXCEPT ![y] = to] /\ Onward(u, op[u], {}, {y})
        /\ UNCHANGED <<asset, policies, offer, mishaps>>
    BY <1>9 DEF Redescribe
  <2>2. link' \in [Asset -> {"missing", "plain", "linked"}] /\ \A z \in Asset : z # y => link'[z] = link[z]
    BY <1>0, <2>1
  <2>3. Known({}, {y}, asset, offer, link, asset', offer', link')
    BY <2>1, <2>2 DEF Known
  <2>4. Fits(op[u], asset', offer', link')
    BY <1>1, <2>1 DEF Fits, Whole, Recent, Asked
  <2>5. op' \in [User -> Op] /\ AllFit'
    BY <2>1, <2>3, <2>4, OnwardKeeps
  <2> QED
    BY <1>0, <2>1, <2>2, <2>5, Together
<1> QED
  BY <1>2, <1>3, <1>4, <1>5, <1>6, <1>7, <1>8, <1>9

(* The calls of a deletion.                                                *)
LEMMA DropStep ==
  ASSUME OffersIInv, NEW u \in User, ListOffers(u) \/ Drop(u)
  PROVE  OffersIInv'
<1> DEFINE o == op[u].on
<1>0. /\ asset \in [Asset -> Address \cup {NoAsset}] /\ offer \in [Asset -> Definition \cup {NoOffer}]
      /\ link \in [Asset -> {"missing", "plain", "linked"}] /\ op \in [User -> Op]
  BY DEF OffersIInv, OffersTypeOK, Op
<1>1. op[u] \in Op /\ Plausible(op[u]) /\ Whole(op[u], asset, offer, link)
  BY DEF OffersIInv, Fits
<1>2. ASSUME ListOffers(u)
      PROVE  OffersIInv'
  <2>1. op[u].at = "list" /\ UNCHANGED <<asset, policies, offer, link, jobs>> /\ (Mishap \/ UNCHANGED mishaps)
    BY <1>2 DEF ListOffers
  <2>2. Known({}, {}, asset, offer, link, asset', offer', link')
    BY <2>1 DEF Known
  <2>3. CASE Onward(u, Idle, {}, {})
    <3>1. op' \in [User -> Op] /\ AllFit'
      BY <2>2, <2>3, IdleFits, OnwardKeeps
    <3> QED
      BY <1>0, <2>1, <3>1, Together
  <2>4. ASSUME NEW b \in BOOLEAN, ~b => \A x \in Asset : ~Refers(offer[x], o),
               Onward(u, [op[u] EXCEPT !.at = "delete", !.blind = b, !.since = {}], {}, {})
        PROVE  OffersIInv'
    <3>1. PICK w : w = [op[u] EXCEPT !.at = "delete", !.blind = b, !.since = {}]
      OBVIOUS
    <3>2. w = [job |-> op[u].job, at |-> "delete", on |-> o, address |-> op[u].address, kept |-> op[u].kept,
               blind |-> b, since |-> {}, spoilt |-> op[u].spoilt]
      BY <1>1, <3>1 DEF Op
    <3>3. w \in Op
      BY <1>1, <2>4, <3>2 DEF Op
    <3>4. Plausible(w) /\ Whole(w, asset, offer, link) /\ Recent(w, asset)
      BY <1>1, <3>2 DEF Plausible, Whole, Recent
    <3>5. Asked(w, offer)
      BY <2>4, <3>2 DEF Asked
    <3>6. Fits(w, asset', offer', link')
      BY <2>1, <3>3, <3>4, <3>5 DEF Fits
    <3>7. op' \in [User -> Op] /\ AllFit'
      BY <2>2, <2>4, <3>1, <3>6, OnwardKeeps
    <3> QED
      BY <1>0, <2>1, <3>7, Together
  <2>5. \/ Onward(u, Idle, {}, {})
        \/ \E b \in BOOLEAN : /\ ~b => \A x \in Asset : ~Refers(offer[x], o)
                              /\ Onward(u, [op[u] EXCEPT !.at = "delete", !.blind = b, !.since = {}], {}, {})
    BY <1>2 DEF ListOffers
  <2> QED
    BY <2>3, <2>4, <2>5
<1>3. ASSUME Drop(u)
      PROVE  OffersIInv'
  <2>1. PICK changed :
          /\ changed = {<<o, "asset">>} \cap Changes
          /\ asset' = [x \in Asset |-> IF x = o THEN NoAsset ELSE asset[x]] /\ policies' = policies \ {o}
          /\ Onward(u, Idle, changed, {o}) /\ UNCHANGED <<offer, link, jobs, mishaps>>
    BY <1>3 DEF Drop
  <2>2. asset' \in [Asset -> Address \cup {NoAsset}] /\ \A x \in Asset : x # o => asset'[x] = asset[x]
    BY <1>0, <2>1
  <2>3. \A x \in Asset : <<x, "asset">> \notin changed => x # o
    BY <2>1 DEF Changes
  <2>4. Known(changed, {o}, asset, offer, link, asset', offer', link')
    BY <2>1, <2>2, <2>3 DEF Known
  <2>5. changed \in SUBSET Changes
    BY <2>1
  <2>6. op' \in [User -> Op] /\ AllFit'
    BY <2>1, <2>4, <2>5, IdleFits, OnwardKeeps
  <2> QED
    BY <1>0, <2>1, <2>2, <2>6, Together
<1> QED
  BY <1>2, <1>3

LEMMA OffersInitially == OffersInit => OffersIInv
<1> SUFFICES ASSUME OffersInit PROVE OffersIInv
  OBVIOUS
<1>1. [kind |-> "HttpData", secret |-> "HttpData"] \in Address
  BY DEF Address, Kind
<1>2. op \in [User -> Op]
  BY DEF OffersInit, Idle, Op
<1>3. \A u \in User : op[u] = Idle
  BY DEF OffersInit
<1>4. \A u \in User : Fits(op[u], asset, offer, link)
  BY <1>3, IdleFits
<1>5. OffersTypeOK
  BY <1>1, <1>2, OffersAssumption DEF OffersInit, OffersTypeOK, Op
<1> QED
  BY <1>4, <1>5 DEF OffersIInv

(* What the console keeps in the connector to offer data keeps its         *)
(* invariant, whoever exposes, edits and deletes at once                   *)
(* (ExposeSubmodelDialog.tsx:113-195, routes/assets.ts:198-275).           *)
THEOREM OffersInvariance == OffersSpec => []OffersIInv
<1>1. OffersIInv /\ [OffersNext]_offersVars => OffersIInv'
  <2> SUFFICES ASSUME OffersIInv, [OffersNext]_offersVars PROVE OffersIInv'
    OBVIOUS
  <2>1. CASE UNCHANGED offersVars
    BY <2>1 DEF offersVars, OffersIInv, OffersTypeOK
  <2>2. CASE OffersNext
    <3>1. PICK u \in User :
            \/ \E x \in Asset, job \in {"submodel", "registry"} : Expose(u, job, x)
            \/ \E x \in Asset, a \in Address : Edit(u, x, a)
            \/ \E o \in Asset \cup Policy : Remove(u, o)
            \/ Retry(u) \/ Dismiss(u)
            \/ CreateAsset(u) \/ ReadAsset(u) \/ WriteAsset(u)
            \/ \E x \in Asset, a \in Address : AddAsset(u, x, a)
            \/ MakeOffer(u) \/ Look(u) \/ Put(u) \/ CallFails(u)
            \/ \E x \in Asset, d \in Definition \cup {NoOffer} : Define(u, x, d)
            \/ \E x \in Asset, to \in {"plain", "missing"} : Redescribe(u, x, to)
            \/ ListOffers(u) \/ Drop(u)
      BY <2>2 DEF OffersNext
    <3>2. ASSUME \/ \E x \in Asset, job \in {"submodel", "registry"} : Expose(u, job, x)
                 \/ \E x \in Asset, a \in Address : Edit(u, x, a)
                 \/ \E o \in Asset \cup Policy : Remove(u, o)
                 \/ Retry(u) \/ Dismiss(u)
          PROVE  OffersIInv'
      <4>1. /\ UNCHANGED <<asset, policies, offer, link, mishaps>> /\ (Job \/ UNCHANGED jobs)
            /\ op' \in [User -> Op] /\ AllFit'
        BY <3>2, BeginStep
      <4> QED
        BY <4>1, Together DEF OffersIInv, OffersTypeOK
    <3> QED
      BY <3>1, <3>2, AssetStep, OfferStep, DropStep
  <2> QED
    BY <2>1, <2>2
<1> QED
  BY <1>1, OffersInitially, PTL DEF OffersSpec

(* What a dialog tells to be exposed has an asset, a definition and, for a *)
(* submodel, a descriptor, whoever else exposes, edits or deletes, unless  *)
(* others undid it (ExposeSubmodelDialog.tsx:180-181, 193-195).            *)
THEOREM OffersSafe == OffersSpec => []OffersInv
<1>1. OffersIInv => OffersInv
  <2> SUFFICES ASSUME OffersIInv, NEW u \in User, op[u].at = "done", ~op[u].spoilt
               PROVE  /\ asset[op[u].on] # NoAsset /\ offer[op[u].on] # NoOffer
                      /\ op[u].job = "submodel" => link[op[u].on] = "linked"
    BY DEF OffersIInv, OffersInv, ExposedWhole
  <2>1. Plausible(op[u]) /\ Whole(op[u], asset, offer, link)
    BY DEF OffersIInv, Fits
  <2> QED
    BY <2>1 DEF Plausible, Whole
<1> QED
  BY <1>1, OffersInvariance, PTL

(* How the assets and policies of a connector change: one is created where *)
(* none was, one is updated, or one is deleted.                            *)
LEMMA AssetMoves ==
  ASSUME OffersIInv, [OffersNext]_offersVars
  PROVE  \/ UNCHANGED <<asset, policies>>
         \/ \E y \in Asset, a \in Address :
              asset[y] = NoAsset /\ asset' = [asset EXCEPT ![y] = a] /\ policies' = policies
         \/ \E u \in User : WriteAsset(u) /\ asset[op[u].on] # NoAsset
         \/ \E u \in User : Drop(u)
<1>1. ASSUME NEW u \in User, CreateAsset(u), asset[op[u].on] = NoAsset
      PROVE  \E y \in Asset, a \in Address :
               asset[y] = NoAsset /\ asset' = [asset EXCEPT ![y] = a] /\ policies' = policies
  <2>1. Plausible(op[u])
    BY DEF OffersIInv, Fits
  <2>2. /\ op[u].at = "create" /\ asset' = [asset EXCEPT ![op[u].on] = op[u].address] /\ policies' = policies
    BY <1>1 DEF CreateAsset
  <2>3. op[u].on \in Asset /\ op[u].address \in Address
    BY <2>1, <2>2 DEF Plausible
  <2> QED
    BY <1>1, <2>2, <2>3
<1>2. ASSUME NEW u \in User, CreateAsset(u), asset[op[u].on] # NoAsset
      PROVE  UNCHANGED <<asset, policies>>
  BY <1>2 DEF CreateAsset
<1>3. ASSUME NEW u \in User, NEW x \in Asset, NEW a \in Address, AddAsset(u, x, a)
      PROVE  asset[x] = NoAsset /\ asset' = [asset EXCEPT ![x] = a] /\ policies' = policies
  BY <1>3 DEF AddAsset
<1>4. ASSUME NEW u \in User, WriteAsset(u), asset[op[u].on] = NoAsset
      PROVE  UNCHANGED <<asset, policies>>
  BY <1>4 DEF WriteAsset
<1>5. ASSUME NEW u \in User, NEW x, NEW d, NEW job,
             \/ Expose(u, job, x) \/ Edit(u, x, d) \/ Remove(u, x) \/ Define(u, x, d) \/ Redescribe(u, x, d)
             \/ Retry(u) \/ Dismiss(u) \/ CallFails(u) \/ MakeOffer(u) \/ Look(u) \/ Put(u)
             \/ ReadAsset(u) \/ ListOffers(u)
      PROVE  UNCHANGED <<asset, policies>>
  BY <1>5 DEF Expose, Edit, Remove, Begin, Define, Redescribe, Retry, Dismiss, CallFails, MakeOffer, Look, Put,
     ReadAsset, ListOffers
<1>6. CASE UNCHANGED offersVars
  BY <1>6 DEF offersVars
<1>7. CASE OffersNext
  BY <1>1, <1>2, <1>3, <1>4, <1>5, <1>7 DEF OffersNext
<1> QED
  BY <1>6, <1>7

(* A deletion leaves no definition without its asset or policy, unless the *)
(* definition was written between its two calls, or could not be read      *)
(* (routes/assets.ts:236-275, routes/policies.ts:202-237).                 *)
THEOREM DeletionsAsk == OffersSpec => DeletedUnoffered
<1>1. OffersIInv /\ [OffersNext]_offersVars =>
        [\A o \in Asset \cup Policy :
           Exists(o) /\ ~Exists(o)' =>
             \E u \in User :
               /\ op[u].at = "delete" /\ op[u].on = o
               /\ \/ op[u].blind
                  \/ \A x \in Asset :
                       o \in offer'[x].assets \cup {offer'[x].access, offer'[x].contract}
                         => <<x, "offer">> \in op[u].since]_offersVars
  <2> SUFFICES ASSUME OffersIInv, [OffersNext]_offersVars, NEW o \in Asset \cup Policy, Exists(o), ~Exists(o)'
               PROVE  \E u \in User :
                        /\ op[u].at = "delete" /\ op[u].on = o
                        /\ \/ op[u].blind
                           \/ \A x \in Asset :
                                o \in offer'[x].assets \cup {offer'[x].access, offer'[x].contract}
                                  => <<x, "offer">> \in op[u].since
    OBVIOUS
  <2>1. asset \in [Asset -> Address \cup {NoAsset}]
    BY DEF OffersIInv, OffersTypeOK
  <2>2. ASSUME NEW y \in Asset, NEW a \in Address, asset' = [asset EXCEPT ![y] = a], policies' = policies
        PROVE  FALSE
    BY <2>1, <2>2, AddressThere DEF Exists
  <2>3. ASSUME NEW u \in User, WriteAsset(u), asset[op[u].on] # NoAsset
        PROVE  FALSE
    <3>1. PICK written :
            /\ written = IF op[u].address.secret = "none" THEN [op[u].address EXCEPT !.secret = op[u].kept]
                         ELSE op[u].address
            /\ asset' = [asset EXCEPT ![op[u].on] = written] /\ policies' = policies /\ op[u].at = "write"
      BY <2>3 DEF WriteAsset
    <3>2. written \in Address
      BY <3>1, WrittenIsAddress
    <3>3. op[u].on \in Asset
      BY <3>1 DEF OffersIInv, Fits, Plausible
    <3> QED
      BY <2>2, <3>1, <3>2, <3>3
  <2>4. PICK u \in User : Drop(u)
    <3>1. ~UNCHANGED <<asset, policies>>
      BY DEF Exists
    <3> QED
      BY <2>2, <2>3, <3>1, AssetMoves
  <2>5. /\ op[u].at = "delete" /\ offer' = offer /\ policies' = policies \ {op[u].on}
        /\ asset' = [x \in Asset |-> IF x = op[u].on THEN NoAsset ELSE asset[x]]
    BY <2>4 DEF Drop
  <2>6. op[u].on = o
    BY <2>5 DEF Exists
  <2>7. Asked(op[u], offer)
    BY DEF OffersIInv, Fits
  <2>8. ASSUME ~op[u].blind, NEW x \in Asset, o \in offer'[x].assets \cup {offer'[x].access, offer'[x].contract}
        PROVE  <<x, "offer">> \in op[u].since
    BY <2>5, <2>6, <2>7, <2>8 DEF Asked, Refers
  <2> QED
    BY <2>5, <2>6, <2>8
<1> QED
  BY <1>1, OffersInvariance, PTL DEF OffersSpec, DeletedUnoffered

(* An asset whose address stays of its kind loses its secret only to an    *)
(* update that could not read it, or that read it before others changed it *)
(* (routes/assets.ts:50-53, 225-227).                                      *)
THEOREM SecretsStay == OffersSpec => SecretsKept
<1>1. OffersIInv /\ [OffersNext]_offersVars =>
        [\A x \in Asset :
           (asset[x].secret # "none" /\ asset'[x].kind = asset[x].kind) =>
             \/ asset'[x].secret # "none"
             \/ \E u \in User : /\ op[u].at = "write" /\ op[u].on = x
                                /\ op[u].blind \/ <<x, "asset">> \in op[u].since]_offersVars
  <2> SUFFICES ASSUME OffersIInv, [OffersNext]_offersVars, NEW x \in Asset,
                      asset[x].secret # "none", asset'[x].kind = asset[x].kind, asset'[x].secret = "none"
               PROVE  \E u \in User : /\ op[u].at = "write" /\ op[u].on = x
                                      /\ op[u].blind \/ <<x, "asset">> \in op[u].since
    OBVIOUS
  <2>1. asset \in [Asset -> Address \cup {NoAsset}]
    BY DEF OffersIInv, OffersTypeOK
  <2>2. asset[x] \in Address /\ asset[x].kind \in Kind
    BY <2>1, AddressThere DEF NoAsset
  <2>3. ASSUME NEW u \in User, Drop(u)
        PROVE  FALSE
    <3>1. asset'[x] = NoAsset \/ asset'[x] = asset[x]
      BY <2>3 DEF Drop
    <3> QED
      BY <2>2, <3>1 DEF NoAsset, Kind
  <2>4. ASSUME NEW y \in Asset, NEW a \in Address, asset[y] = NoAsset, asset' = [asset EXCEPT ![y] = a]
        PROVE  FALSE
    BY <2>1, <2>4 DEF NoAsset
  <2>5. PICK u \in User : WriteAsset(u) /\ asset[op[u].on] # NoAsset
    <3>1. asset' # asset
      OBVIOUS
    <3> QED
      BY <2>3, <2>4, <3>1, AssetMoves
  <2>6. PICK written :
          /\ written = IF op[u].address.secret = "none" THEN [op[u].address EXCEPT !.secret = op[u].kept]
                       ELSE op[u].address
          /\ asset' = [asset EXCEPT ![op[u].on] = written] /\ op[u].at = "write"
    BY <2>5 DEF WriteAsset
  <2>7. op[u].on = x
    BY <2>1, <2>6
  <2>8. /\ asset'[x] = written /\ written.kind = op[u].address.kind
        /\ written.secret = (IF op[u].address.secret = "none" THEN op[u].kept ELSE op[u].address.secret)
    BY <2>1, <2>6, <2>7, WrittenIsAddress
  <2>9. op[u].kept = "none" /\ op[u].address.kind = asset[x].kind
    BY <2>8
  <2>10. Recent(op[u], asset)
    BY DEF OffersIInv, Fits
  <2>11. Preserved(asset[x], op[u].address) # op[u].kept
    BY <2>9 DEF Preserved
  <2>12. op[u].blind \/ <<x, "asset">> \in op[u].since
    BY <2>6, <2>7, <2>10, <2>11 DEF Recent
  <2> QED
    BY <2>6, <2>7, <2>12
<1> QED
  BY <1>1, OffersInvariance, PTL DEF OffersSpec, SecretsKept

=============================================================================
