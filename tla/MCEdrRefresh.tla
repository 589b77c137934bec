---------------------------- MODULE MCEdrRefresh ----------------------------
(* EdrRefresh for TLC: two pulls on one process, one on the other. *)
EXTENDS EdrRefresh

CONSTANTS p1, p2, a1, a2, b1

MCProc == {p1, p2}

MCPull == {a1, a2, b1}

MCHome == [c \in MCPull |-> IF c = b1 THEN p2 ELSE p1]

(* Evictions come between the pulls: a transfer is completed when its bulk *)
(* job has ended, and pruned when nothing used it for a long time.         *)
CalmNext ==
  \/ \E c \in Pull : Begin(c) \/ PullStep(c)
  \/ \E p \in Proc : RefreshStep(p) \/ Crash(p)
  \/ Unused /\ Evict
  \/ Expire

CalmSpec == Init /\ [][CalmNext]_vars

=============================================================================
