------------------------------ MODULE MCNotices ------------------------------
(* Notices for TLC: a tick under way on each of two replicas.               *)
EXTENDS Notices

CONSTANTS p1, p2, x, y

MCProc == {p1, p2}

MCTask == {x, y}

MCOn == [t \in MCTask |-> IF t = x THEN p1 ELSE p2]

=============================================================================
