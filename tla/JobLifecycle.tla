--------------------------- MODULE JobLifecycle ---------------------------
(***************************************************************************)
(* What the bulk-transfer worker promises to its callers, independently of *)
(* how it keeps its jobs: every transfer has at most one run at a time, no *)
(* more than MaxActiveJobs runs are in progress, a run that ends keeps its *)
(* outcome until it is forgotten or replaced by a new run, and a run that  *)
(* is reported COMPLETED has uploaded every one of its files.              *)
(*                                                                         *)
(* TransferWorker implements this module (see Lifecycle there).            *)
(***************************************************************************)
EXTENDS Integers, FiniteSets

CONSTANTS
  Key,            \* the transfers, "connectorId:transferId" in the code
  MaxActiveJobs,  \* runs that may be in progress together
  MaxFiles        \* files of one run, at most

VARIABLES
  phase,  \* phase[k]: what a caller sees of transfer k
  left    \* left[k]: files of the current run that are not uploaded yet

lifecycleVars == <<phase, left>>

Terminal == {"COMPLETED", "FAILED", "CANCELED"}

Phase == {"NONE", "RUNNING"} \cup Terminal

Running == {k \in Key : phase[k] = "RUNNING"}

LifecycleTypeOK ==
  /\ phase \in [Key -> Phase]
  /\ left \in [Key -> 0..MaxFiles]

Init ==
  /\ phase = [k \in Key |-> "NONE"]
  /\ left = [k \in Key |-> 0]

(***************************************************************************)
(* A run begins: never beside another run of the same transfer, and only   *)
(* while a slot is free.                                                   *)
(***************************************************************************)
Begin(k) ==
  /\ k \notin Running
  /\ Cardinality(Running) < MaxActiveJobs
  /\ phase' = [phase EXCEPT ![k] = "RUNNING"]
  /\ \E n \in 1..MaxFiles : left' = [left EXCEPT ![k] = n]

(***************************************************************************)
(* One more file is uploaded. The last one completes the run; after an     *)
(* earlier one the run goes on, or stops because it was cancelled.         *)
(***************************************************************************)
FileDone(k) ==
  /\ k \in Running
  /\ left[k] > 0
  /\ left' = [left EXCEPT ![k] = left[k] - 1]
  /\ \/ left[k] = 1 /\ phase' = [phase EXCEPT ![k] = "COMPLETED"]
     \/ left[k] > 1 /\ UNCHANGED phase
     \/ left[k] > 1 /\ phase' = [phase EXCEPT ![k] = "CANCELED"]

(***************************************************************************)
(* The run stops with files left to upload.                                *)
(***************************************************************************)
Stop(k) ==
  /\ k \in Running
  /\ \E s \in {"FAILED", "CANCELED"} : phase' = [phase EXCEPT ![k] = s]
  /\ UNCHANGED left

(***************************************************************************)
(* The outcome of a run that ended is forgotten.                           *)
(***************************************************************************)
Forget(k) ==
  /\ phase[k] \in Terminal
  /\ phase' = [phase EXCEPT ![k] = "NONE"]
  /\ left' = [left EXCEPT ![k] = 0]

Next == \E k \in Key : Begin(k) \/ FileDone(k) \/ Stop(k) \/ Forget(k)

Spec == Init /\ [][Next]_lifecycleVars

=============================================================================
