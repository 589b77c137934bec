-------------------------- MODULE ResumableUpload --------------------------
(***************************************************************************)
(* The resumable multipart upload of one file to one S3 object             *)
(* (server/lib/resumableUploader.ts): the row of table transfer_multipart, *)
(* the multipart uploads and the object in the bucket, and the runs of     *)
(* upload() that work on them, one per runner at a time.                   *)
(*                                                                         *)
(* A runner is a process that runs the job of the file. Several of them    *)
(* may do so at once: BulkTransfer shows how. They share the row and the   *)
(* bucket and nothing else. The source is the same for every run.          *)
(*                                                                         *)
(* Every request to the database or to S3 is one action that takes effect  *)
(* and moves the runner on. A request can fail before it takes effect, or  *)
(* its answer can be lost after it did; a crash can come between any two.  *)
(*                                                                         *)
(* A part is the range of the source it holds. Only the uploads and parts  *)
(* S3 lists count for a resume: of the row, only the upload id is used.    *)
(***************************************************************************)
EXTENDS Integers, Sequences, FiniteSets

CONSTANTS
  Runner,      \* processes that may run the job
  PartSize,    \* PART_SIZE
  Sizes,       \* the sizes the source may have
  Older,       \* TRUE: an older object may be there under the same key
  MaxUploads,  \* bound: multipart uploads created
  MaxRuns,     \* bound: runs of upload()
  MaxCancels,  \* bound: cancel requests
  MaxFaults,   \* bound: requests that fail or whose answer is lost
  MaxCrashes,  \* bound: crashes
  MaxExpired   \* bound: uploads the bucket's life-cycle rule aborts

ASSUME UploadAssumption ==
  /\ PartSize \in Nat \ {0}
  /\ Sizes \subseteq Nat /\ Sizes # {}
  /\ Older \in BOOLEAN
  /\ {MaxUploads, MaxRuns, MaxCancels, MaxFaults, MaxCrashes, MaxExpired} \subseteq Nat

VARIABLES
  size,      \* bytes of the source
  object,    \* the object in the bucket: a sequence of parts
  uploads,   \* uploads[u]: state and parts of multipart upload u
  row,       \* the row of transfer_multipart: its upload_id and number of parts
  pc,        \* pc[r]: what runner r does next
  id,        \* id[r]: uploadId of its run
  known,     \* known[r]: parts of its run, as listed and uploaded since
  aborted,   \* aborted[r]: its abort signal
  reported,  \* reported[r]: bytes last given to onBytes
  runs, cancels, faults, crashes, expired

s3Vars == <<object, uploads>>
localVars == <<id, known, aborted, reported>>
countVars == <<runs, cancels, faults, crashes, expired>>
vars == <<size, s3Vars, row, pc, localVars, countVars>>

UploadId == 1..MaxUploads
NoUpload == 0

(* An object that is not there, and one of an earlier transfer.            *)
Absent == <<>>
Earlier == <<[from |-> -1, len |-> 0]>>

Part == [from : Int, len : Nat]

(* Where runs wait: a request of the given kind is the next thing they do. *)
Working == {"load", "list", "head", "adopt", "stale", "create", "first",
            "read", "save", "clear", "abort", "drop"}

(* Inside the try block, whose catch looks at the abort signal.            *)
Guarded == {"read", "save", "clear"}

TypeOK ==
  /\ size \in Sizes
  /\ object \in Seq(Part)
  /\ uploads \in [UploadId -> [state : {"unused", "open", "gone"}, parts : Seq(Part)]]
  /\ row \in [id : UploadId \cup {NoUpload}, saved : Nat]
  /\ pc \in [Runner -> Working \cup {"idle", "done", "failed", "canceled"}]
  /\ id \in [Runner -> UploadId \cup {NoUpload}]
  /\ known \in [Runner -> Seq(Part)]
  /\ aborted \in [Runner -> BOOLEAN]
  /\ reported \in [Runner -> 0..size]
  /\ runs \in 0..MaxRuns /\ cancels \in 0..MaxCancels
  /\ faults \in 0..MaxFaults /\ crashes \in 0..MaxCrashes /\ expired \in 0..MaxExpired

NoRow == [id |-> NoUpload, saved |-> 0]

Init ==
  /\ size \in Sizes
  /\ object \in {Absent} \cup (IF Older THEN {Earlier} ELSE {})
  /\ uploads = [u \in UploadId |-> [state |-> "unused", parts |-> <<>>]]
  /\ row = NoRow
  /\ pc = [r \in Runner |-> "idle"]
  /\ id = [r \in Runner |-> NoUpload]
  /\ known = [r \in Runner |-> <<>>]
  /\ aborted = [r \in Runner |-> FALSE]
  /\ reported = [r \in Runner |-> 0]
  /\ runs = 0 /\ cancels = 0 /\ faults = 0 /\ crashes = 0 /\ expired = 0

----------------------------------------------------------------------------

(* The bytes of consecutive parts that start at the first byte.            *)
Extent(parts) == IF parts = <<>> THEN 0
                 ELSE parts[Len(parts)].from + parts[Len(parts)].len

(* The sum of the sizes S3 lists: where the source is resumed.             *)
Uploaded(parts) ==
  LET sum[n \in 0..Len(parts)] == IF n = 0 THEN 0 ELSE sum[n - 1] + parts[n].len
  IN  sum[Len(parts)]

MinOf(a, b) == IF a < b THEN a ELSE b

(* Seeded fault: the source is resumed where the row says.                 *)
NextPartByRow(r) ==
  LET from == PartSize * row.saved IN
  [from |-> from, len |-> MinOf(PartSize, size - from)]

(* The next chunk of chunkFrom(body, PartSize, uploaded).                  *)
NextPart(r) ==
  LET from == Uploaded(known[r]) IN
  [from |-> from, len |-> MinOf(PartSize, size - from)]

(* Seeded fault: the remainder after the last full chunk is dropped.       *)
MoreFullChunks(r) == Uploaded(known[r]) + PartSize <= size

MoreToRead(r) == Uploaded(known[r]) < size

Live(u) == u # NoUpload /\ uploads[u].state = "open"

Goto(r, where) == pc' = [pc EXCEPT ![r] = where]

(* Where a run goes when a request throws. A cancelled run cleans up if it *)
(* has got as far as the try block; all others leave the state for a retry.*)
Thrown(r) == IF pc[r] \in Guarded /\ aborted[r] THEN "abort" ELSE "failed"

(* The request took effect; its answer arrives, or it is lost.             *)
Answered(r, next) ==
  \/ Goto(r, next) /\ UNCHANGED faults
  \/ faults < MaxFaults /\ faults' = faults + 1 /\ Goto(r, Thrown(r))

(* The job of the file starts, is started again after a failure or a       *)
(* cancel, or is resumed after a crash.                                    *)
Run(r) ==
  /\ pc[r] \in {"idle", "failed", "canceled"}
  /\ runs < MaxRuns
  /\ runs' = runs + 1
  /\ Goto(r, "load")
  /\ id' = [id EXCEPT ![r] = NoUpload]
  /\ known' = [known EXCEPT ![r] = <<>>]
  /\ aborted' = [aborted EXCEPT ![r] = FALSE]
  /\ reported' = [reported EXCEPT ![r] = 0]
  /\ UNCHANGED <<size, s3Vars, row, cancels, faults, crashes, expired>>

LoadRow(r) ==
  \/ row.id = NoUpload /\ Goto(r, "create") /\ UNCHANGED id
  \/ row.id # NoUpload /\ Goto(r, "list") /\ id' = [id EXCEPT ![r] = row.id]

(* store.load *)
Load(r) ==
  /\ pc[r] = "load"
  /\ LoadRow(r)
  /\ UNCHANGED <<size, s3Vars, row, known, aborted, reported, countVars>>

(* Seeded fault: the parts are taken from the row.                         *)
PartsOfRow(r) == SubSeq(uploads[id[r]].parts, 1, row.saved)

PartsListed(r) == uploads[id[r]].parts

(* What S3 has is what is uploaded. An upload that is gone is              *)
(* looked into; any other error counts as a stale state.                   *)
ListParts(r) ==
  /\ pc[r] = "list"
  /\ \/ /\ Live(id[r])
        /\ known' = [known EXCEPT ![r] = PartsListed(r)]
        /\ reported' = [reported EXCEPT ![r] = Uploaded(PartsListed(r))]
        /\ Goto(r, "read") /\ UNCHANGED faults
     \/ /\ ~Live(id[r])
        /\ Goto(r, "head") /\ UNCHANGED <<known, reported, faults>>
     \/ /\ faults < MaxFaults /\ faults' = faults + 1
        /\ Goto(r, "stale") /\ UNCHANGED <<known, reported>>
  /\ UNCHANGED <<size, s3Vars, row, id, aborted, runs, cancels, crashes, expired>>

(* Seeded fault: an upload that is gone is an error.                       *)
NothingLeftFails(r) == Goto(r, Thrown(r))

(* Neither upload nor object: the file is started anew.                    *)
NothingLeft(r) == Goto(r, "stale")

(* An object under the key, whichever, counts as this upload   *)
(* completed. A failed request counts as no object.                        *)
HeadObject(r) ==
  /\ pc[r] = "head"
  /\ \/ object # Absent /\ Goto(r, "adopt") /\ UNCHANGED faults
     \/ object = Absent /\ NothingLeft(r) /\ UNCHANGED faults
     \/ faults < MaxFaults /\ faults' = faults + 1 /\ NothingLeft(r)
  /\ UNCHANGED <<size, s3Vars, row, localVars, runs, cancels, crashes, expired>>

(* The object is taken over: clear the row, report its length, return.     *)
Adopt(r) ==
  /\ pc[r] = "adopt"
  /\ row' = NoRow
  /\ reported' = [reported EXCEPT ![r] = IF object = Earlier THEN 0 ELSE Extent(object)]
  /\ Answered(r, "done")
  /\ UNCHANGED <<size, s3Vars, id, known, aborted, runs, cancels, crashes, expired>>

(* The state is stale: clear the row and start anew.                       *)
Stale(r) ==
  /\ pc[r] = "stale"
  /\ row' = NoRow
  /\ Answered(r, "create")
  /\ UNCHANGED <<size, s3Vars, localVars, runs, cancels, crashes, expired>>

(* CreateMultipartUpload *)
Create(r) ==
  /\ pc[r] = "create"
  /\ \E u \in UploadId :
       /\ \A v \in UploadId : (v < u) <=> (uploads[v].state # "unused")
       /\ uploads' = [uploads EXCEPT ![u].state = "open"]
       /\ id' = [id EXCEPT ![r] = u]
  /\ Answered(r, "first")
  /\ UNCHANGED <<size, object, row, known, aborted, reported, runs, cancels,
                 crashes, expired>>

(* store.save of the new upload, and onBytes(0).                           *)
SaveFirst(r) ==
  /\ pc[r] = "first"
  /\ row' = [id |-> id[r], saved |-> 0]
  /\ Answered(r, "read")
  /\ UNCHANGED <<size, s3Vars, localVars, runs, cancels, crashes, expired>>

PartNumber(r) == Len(known[r]) + 1

(* UploadPart stores part n, in place of an earlier part n.                *)
Stored(parts, n, part) ==
  [i \in 1..(IF n > Len(parts) THEN n ELSE Len(parts)) |-> IF i = n THEN part ELSE parts[i]]

(* The next chunk is uploaded, unless the run was cancelled or the upload  *)
(* is gone.                                                                *)
UploadPart(r) ==
  /\ pc[r] = "read"
  /\ MoreToRead(r)
  /\ \/ /\ ~aborted[r] /\ Live(id[r])
        /\ uploads' = [uploads EXCEPT ![id[r]].parts = Stored(@, PartNumber(r), NextPart(r))]
        /\ known' = [known EXCEPT ![r] = Append(@, NextPart(r))]
        /\ Answered(r, "save")
     \/ /\ aborted[r] \/ ~Live(id[r])
        /\ Goto(r, Thrown(r))
        /\ UNCHANGED <<uploads, known, faults>>
  /\ UNCHANGED <<size, object, row, id, aborted, reported, runs, cancels, crashes, expired>>

(* store.save after a part, whatever the row is by now, and onBytes.       *)
SavePart(r) ==
  /\ pc[r] = "save"
  /\ row' = [id |-> id[r], saved |-> Len(known[r])]
  /\ Answered(r, "read")
  /\ reported' = [reported EXCEPT ![r] = Uploaded(known[r])]
  /\ UNCHANGED <<size, s3Vars, id, known, aborted, runs, cancels, crashes, expired>>

(* CompleteMultipartUpload with the parts of the run, when the source has  *)
(* ended: a cancel is not looked at. S3 refuses an empty list of parts and *)
(* an upload that is gone.                                                 *)
Complete(r) ==
  /\ pc[r] = "read"
  /\ ~MoreToRead(r)
  /\ \/ /\ Live(id[r]) /\ known[r] # <<>>
        /\ object' = [i \in DOMAIN known[r] |-> uploads[id[r]].parts[i]]
        /\ uploads' = [uploads EXCEPT ![id[r]] = [state |-> "gone", parts |-> <<>>]]
        /\ Answered(r, "clear")
     \/ /\ ~Live(id[r]) \/ known[r] = <<>>
        /\ Goto(r, Thrown(r))
        /\ UNCHANGED <<object, uploads, faults>>
  /\ UNCHANGED <<size, row, localVars, runs, cancels, crashes, expired>>

(* store.clear after completion. The run fails if this fails.              *)
Clear(r) ==
  /\ pc[r] = "clear"
  /\ row' = NoRow
  /\ Answered(r, "done")
  /\ UNCHANGED <<size, s3Vars, localVars, runs, cancels, crashes, expired>>

(* A request, or the source, fails without effect.                         *)
Fault(r) ==
  /\ pc[r] \in {"load", "adopt", "stale", "create", "first", "read", "save", "clear"}
  /\ faults < MaxFaults
  /\ faults' = faults + 1
  /\ Goto(r, Thrown(r))
  /\ UNCHANGED <<size, s3Vars, row, localVars, runs, cancels, crashes, expired>>

(* Seeded fault: the clean-up forgets the upload without aborting it.      *)
AbortNothing(r) == UNCHANGED uploads

(* AbortMultipartUpload *)
AbortUpload(r) ==
  uploads' = [uploads EXCEPT ![id[r]] = [state |-> "gone", parts |-> <<>>]]

(* The catch block of a cancelled run: abort, then clear the row. An error *)
(* of either is ignored.                                                   *)
Abort(r) ==
  /\ pc[r] = "abort"
  /\ \/ AbortUpload(r) /\ UNCHANGED faults
     \/ faults < MaxFaults /\ faults' = faults + 1 /\ UNCHANGED uploads
  /\ Goto(r, "drop")
  /\ UNCHANGED <<size, object, row, localVars, runs, cancels, crashes, expired>>

Drop(r) ==
  /\ pc[r] = "drop"
  /\ \/ row' = NoRow /\ UNCHANGED faults
     \/ faults < MaxFaults /\ faults' = faults + 1 /\ UNCHANGED row
  /\ Goto(r, "canceled")
  /\ UNCHANGED <<size, s3Vars, localVars, runs, cancels, crashes, expired>>

(* The user cancels the job, or it exceeds the byte cap: abort.abort().    *)
Cancel(r) ==
  /\ pc[r] \in Working /\ ~aborted[r]
  /\ cancels < MaxCancels
  /\ cancels' = cancels + 1
  /\ aborted' = [aborted EXCEPT ![r] = TRUE]
  /\ UNCHANGED <<size, s3Vars, row, pc, id, known, reported, runs, faults, crashes, expired>>

(* The process dies; the row and the bucket remain.                        *)
Crash(r) ==
  /\ pc[r] \in Working
  /\ crashes < MaxCrashes
  /\ crashes' = crashes + 1
  /\ Goto(r, "idle")
  /\ UNCHANGED <<size, s3Vars, row, localVars, runs, cancels, faults, expired>>

(* The bucket's rule for incomplete multipart uploads aborts one.          *)
Expire(u) ==
  /\ Live(u)
  /\ expired < MaxExpired
  /\ expired' = expired + 1
  /\ uploads' = [uploads EXCEPT ![u] = [state |-> "gone", parts |-> <<>>]]
  /\ UNCHANGED <<size, object, row, pc, localVars, runs, cancels, faults, crashes>>

(* What a run does by itself.                                              *)
Step(r) ==
  \/ Load(r) \/ ListParts(r) \/ HeadObject(r) \/ Adopt(r) \/ Stale(r) \/ Create(r)
  \/ SaveFirst(r) \/ UploadPart(r) \/ SavePart(r) \/ Complete(r) \/ Clear(r)
  \/ Fault(r) \/ Abort(r) \/ Drop(r)

Next ==
  \/ \E r \in Runner : Run(r) \/ Step(r) \/ Cancel(r) \/ Crash(r)
  \/ \E u \in UploadId : Expire(u)

Spec == Init /\ [][Next]_vars

(* Requests are answered, sources end or fail, and a run that failed, was  *)
(* cancelled or crashed is started again (by the user, or at boot).        *)
FairSpec ==
  /\ Spec
  /\ \A r \in Runner : WF_vars(Step(r)) /\ WF_vars(Run(r))

----------------------------------------------------------------------------
(***************************************************************************)
(* Properties                                                              *)
(***************************************************************************)

(* The parts are the source, whole and in order.                           *)
Contiguous(parts) ==
  \A i \in DOMAIN parts :
    parts[i].from = IF i = 1 THEN 0 ELSE parts[i - 1].from + parts[i - 1].len

Intact(parts) == Contiguous(parts) /\ Extent(parts) = size

(* A run of upload() that returns means that the object is the source,     *)
(* byte for byte, after any crashes, lost answers, retries and cancels and *)
(* also when two processes run the job: what completeEdcTransfer relies on *)
(* when it terminates the transfer, "only if all data has really moved".   *)
DoneMeansIntact == \A r \in Runner : pc[r] = "done" => Intact(object)

(* The object is never replaced by anything but the whole source: no run   *)
(* completes an upload with a part missing, doubled or out of place.       *)
NeverTorn == [][object' # object => Intact(object')]_vars

(* What the job of the file sees of the bucket and of its call.            *)
StoredAs ==
  IF object = Absent THEN "absent" ELSE IF object = Earlier THEN "other"
  ELSE IF Intact(object) THEN "source" ELSE "torn"

CallOf ==
  [r \in Runner |-> IF pc[r] \in Working THEN "running"
                    ELSE IF pc[r] = "done" THEN "done" ELSE "stopped"]

Whole == INSTANCE WholePut WITH Caller <- Runner, stored <- StoredAs, call <- CallOf

(* With its parts, rows, resumes and clean-ups, and with other processes   *)
(* on the same file, upload() is one put of the whole object: it is put    *)
(* only while a call runs, never taken back or torn, and a call that has   *)
(* returned found it there (resumableUploader.ts:136-301).                 *)
ImplementsPut == Whole!Spec

(* A part S3 has is not sent again: a resume goes on where S3 says, also   *)
(* when the crash came between a part and its row.                         *)
PartsSentOnce ==
  [][\A r \in Runner :
       (pc[r] = "read" /\ known'[r] # known[r]) =>
         Len(uploads'[id[r]].parts) = Len(uploads[id[r]].parts) + 1]_vars

(* The open uploads that no row names and no run works on: they cost money *)
(* and nothing will ever find them.                                        *)
Leaked == {u \in UploadId : Live(u) /\ row.id # u /\ \A r \in Runner :
             pc[r] \in Working => id[r] # u}

(* A fault or a crash leaks one upload at most, and nothing else does:     *)
(* neither cancels nor retries nor failures of the source.                 *)
LeaksBounded == Cardinality(Leaked) <= faults + crashes

(* What one process leaves behind, whatever goes wrong: an object that is  *)
(* the source if it says so (DoneMeansIntact), and few open uploads        *)
(* (LeaksBounded), in states of the right types                            *)
(* (resumableUploader.ts:136-301).                                         *)
UploadInv == TypeOK /\ DoneMeansIntact /\ LeaksBounded

(* When the faults, cancels and crashes are over, retrying gets the file   *)
(* there: no state they leave behind blocks it for ever.                   *)
EventuallyUploaded == <>(\E r \in Runner : pc[r] = "done")

=============================================================================
