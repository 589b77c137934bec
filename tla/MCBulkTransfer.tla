-------------------------- MODULE MCBulkTransfer --------------------------
(* BulkTransfer for TLC. *)
EXTENDS BulkTransfer, TLC

(* Sound for safety only: processes, and transfers, are interchangeable.   *)
Symmetry == Permutations(Proc) \cup Permutations(Key)

(* The states after a process that held the leases of all transfers has    *)
(* crashed and its leases have run out: reachable from Init, and a shorter *)
(* way to the resume of several transfers.                                 *)
AfterCrash ==
  LET d == CHOOSE p \in Proc : TRUE IN
    /\ now = Ttl + 1
    /\ up = [p \in Proc |-> IF p = d THEN "dead" ELSE "new"]
    /\ run = [p \in Proc |-> [k \in Key |-> "NONE"]]
    /\ renewed = [p \in Proc |-> [k \in Key |-> Never]]
    /\ todo = [p \in Proc |-> {}]
    /\ calls = {}
    /\ row = [k \in Key |-> [status |-> "RUNNING", owner |-> d, until |-> Ttl]]
    /\ shown = [k \in Key |-> "RUNNING"]
    /\ edr = [k \in Key |-> TRUE]
    /\ pending = {}
    /\ lost = 0
    /\ made = 0

ResumeSpec == AfterCrash /\ [][Next]_vars /\ Fairness

=============================================================================
