------------------------------ MODULE WholePut ------------------------------
(***************************************************************************)
(* What upload() promises to the job that calls it, independently of how   *)
(* it uploads: the object is put as a whole or not at all, by whichever    *)
(* caller; once it is there it stays; a call that returns has found or put *)
(* it; and a call that throws says nothing, for the put may have been done *)
(* and its answer lost. It can be called again.                            *)
(*                                                                         *)
(* ResumableUpload implements this module (see ImplementsPut there).       *)
(***************************************************************************)
CONSTANT Caller

VARIABLES
  stored,  \* what is under the key: nothing, something else, or the source
  call     \* call[r]: the last call of caller r

putVars == <<stored, call>>

Init ==
  /\ stored \in {"absent", "other"}
  /\ call = [r \in Caller |-> "stopped"]

(* A caller that has not been told that the object is there.               *)
Call(r) ==
  /\ call[r] = "stopped"
  /\ call' = [call EXCEPT ![r] = "running"]
  /\ UNCHANGED stored

(* The object is put. The call goes on, or it stops without an answer.     *)
Put(r) ==
  /\ call[r] = "running"
  /\ stored' = "source"
  /\ UNCHANGED call \/ call' = [call EXCEPT ![r] = "stopped"]

Return(r) ==
  /\ call[r] = "running" /\ stored = "source"
  /\ call' = [call EXCEPT ![r] = "done"]
  /\ UNCHANGED stored

(* The call throws, is cancelled, or dies with its process.                *)
GiveUp(r) ==
  /\ call[r] = "running"
  /\ call' = [call EXCEPT ![r] = "stopped"]
  /\ UNCHANGED stored

Next == \E r \in Caller : Call(r) \/ Put(r) \/ Return(r) \/ GiveUp(r)

Spec == Init /\ [][Next]_putVars

=============================================================================
