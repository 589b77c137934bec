------------------------------- MODULE MCViews -------------------------------
(* TtlCache, ProgressStream and TransferPage for TLC: how pages are shown   *)
(* what changes behind them. They share no state, so each is explored while *)
(* the others stand still.                                                  *)
EXTENDS TtlCache, ProgressStream, TransferPage, TLC

CONSTANTS s1, s2, x1, y1

MCSite == {s1, s2}

MCXfer == {x1, y1}

MCAt == (x1 :> s1 @@ y1 :> s2)

VARIABLE turn  \* the part that moves

vars == <<cacheVars, streamVars, pageVars, turn>>

(* Which replica runs the job at first, and which connector the page is on, *)
(* makes no difference. The page finds one transfer, and starts another.    *)
Init ==
  /\ CacheInit
  /\ StreamInit /\ host = CHOOSE p \in Proc : TRUE
  /\ PageInit /\ site = s1 /\ edc = (x1 :> "absent" @@ y1 :> "started")
  /\ turn \in {"cache", "stream", "page"}

Streams(A) == turn = "stream" /\ A /\ UNCHANGED <<cacheVars, pageVars, turn>>

Next ==
  \/ turn = "cache" /\ CacheNext /\ UNCHANGED <<streamVars, pageVars, turn>>
  \/ Streams(StreamNext)
  \/ turn = "page" /\ PageNext /\ UNCHANGED <<cacheVars, streamVars, turn>>

(* Requests are served, timers fire, and an open page goes on. The job need *)
(* not end, no row need arrive, and no replica need boot.                   *)
FairSpec ==
  /\ Init /\ [][Next]_vars
  /\ \A v \in Viewer :
       /\ WF_vars(Streams(Accept(v)))
       /\ WF_vars(Streams(Query(v)))
       /\ WF_vars(Streams(\E s \in Snapshot : Reply(v, s)))
       /\ WF_vars(Streams(Receive(v)))
       /\ WF_vars(Streams(Lost(v)))
       /\ WF_vars(Streams(\E p \in Proc : Poll(v, p)))
       /\ WF_vars(Streams(\E s \in Snapshot : Polled(v, s)))

=============================================================================
