------------------------------ MODULE MCRecords ------------------------------
(* TransferRecords and Offers for TLC: what the console reads from a        *)
(* connector, and what it writes there. They share no state, so each is     *)
(* explored while the other stands still.                                   *)
EXTENDS TransferRecords, Offers

VARIABLE turn  \* the part that moves

vars == <<recordsVars, offersVars, turn>>

(* One asset is there, with a secret, no matter which.                      *)
Init ==
  /\ RecordsInit
  /\ OffersInit /\ {x \in Asset : asset[x] # NoAsset} = {CHOOSE x \in Asset : TRUE}
  /\ turn \in {"records", "offers"}

RecordsMove(A) == turn = "records" /\ A /\ UNCHANGED <<offersVars, turn>>

OffersMove(A) == turn = "offers" /\ A /\ UNCHANGED <<recordsVars, turn>>

Next == RecordsMove(RecordsNext) \/ OffersMove(OffersNext)

(* The poller polls, although nobody need open a list. A dialog goes on to  *)
(* an answer, and its user submits again what failed.                       *)
FairSpec ==
  /\ Init /\ [][Next]_vars
  /\ WF_vars(RecordsMove(Polls))
  /\ \A u \in User : WF_vars(OffersMove(DialogStep(u) \/ Retry(u)))

=============================================================================
