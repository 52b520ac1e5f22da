----------------------------- MODULE MCTraySync -----------------------------
(* What the cron routes tray-keepalive and tray-sync run (run_tray_sync,    *)
(* app/tray/tray_sync.py): the consumer of the store's events and the       *)
(* retry of PIX settlements, as they get on under the cron's fairness.      *)
(* Each behaviour runs one of the two, and the fairness of the other is     *)
(* void in it.                                                              *)
EXTENDS PixSettlement, StoreEvents

VARIABLE job  \* the one this behaviour runs

OneSession == [p \in Payments |-> "cart"]
SameAmount == [p \in Payments |-> 2]
Complete   == [p \in Payments |-> TRUE]

SyncInit == job \in {"pix", "events"} /\ Init /\ StreamInit

SyncNext ==
  /\ UNCHANGED job
  /\ \/ job = "pix" /\ Next /\ UNCHANGED streamVars
     \/ job = "events" /\ StreamNext /\ UNCHANGED vars

\* PixSettlement's Fairness.
PixFairness ==
  /\ \A w \in Workers :
       WF_vars(job = "pix" /\ (SettleStep(w) \/ EventStep(w) \/ NextListed(w)))
  /\ WF_vars(job = "pix" /\ \E w \in Workers, p \in Payments : Webhook(w, p))
  /\ WF_vars(job = "pix" /\ \E w \in Workers : ListRetryable(w))
  /\ SF_vars(job = "pix" /\ \E w \in Workers, o \in OrderIds : TakeEvent(w, o))
  /\ \A p \in Payments : WF_vars(job = "pix" /\ GoesStale(p))

\* StreamFair.
EventsFairness == \A w \in Pollers : WF_streamVars(job = "events" /\ PollStep(w))

SyncSpec ==
  /\ SyncInit /\ [][SyncNext]_<<job, vars, streamVars>>
  /\ PixFairness /\ EventsFairness

=============================================================================
