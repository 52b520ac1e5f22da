--------------------------- MODULE PixSettlement ---------------------------
(***************************************************************************)
(* Direct PIX: a payment made at Mercado Pago becomes exactly one order in *)
(* the Tray store.  Table ai_pix_payments through                          *)
(* app/commerce/pix_payment_repository.py, settled by                      *)
(* app/commerce/pix_settlement.py on behalf of four callers that nothing   *)
(* serialises: the Mercado Pago webhook, the customer's "ja paguei", the   *)
(* cron that retries settlements, and the store's order events             *)
(* (app/tray/tray_webhook_consumer.py); a status poll only refreshes.      *)
(*                                                                         *)
(* Every SQL statement and every HTTP call is one action, and between two  *)
(* of them anybody may run, or the process may die.  Payments are numbered *)
(* in the order of created_at; the amounts of a payment are fixed when it  *)
(* is created and never change.  Mercado Pago and the store are external   *)
(* and modelled from the calls made to them.                               *)
(***************************************************************************)
EXTENDS Naturals

CONSTANTS NPayments,   \* rows of ai_pix_payments
          NOrders,     \* bound: orders the store can take
          Workers,     \* concurrent requests and cron runs
          Sessions,
          Session,     \* cart_session_id of each payment
          Expected,    \* checkout_snapshot.expected_amount_cents
          Stored,      \* amount_cents
          Charges,     \* amounts Mercado Pago may come to charge
          HasProducts, \* checkout_snapshot.order_payload is complete
          MaxFaults,   \* bound: failed calls and crashes
          MaxAsks      \* bound: customer's messages and status polls

Payments == 1..NPayments
OrderIds == 1..NOrders

ASSUME PixAssumption ==
  /\ NPayments \in Nat /\ NOrders \in Nat
  /\ MaxFaults \in Nat /\ MaxAsks \in Nat
  /\ Session \in [Payments -> Sessions]
  /\ Expected \in [Payments -> Nat]
  /\ Stored \in [Payments -> Nat]
  /\ Charges \subseteq Nat
  /\ HasProducts \in [Payments -> BOOLEAN]

MpStatuses  == {"none", "pending", "approved", "closed"}  \* closed: cancelled, refunded
Settlements == {"none", "pending", "processing", "completed", "failed"}
Errors      == {"none", "tray", "fatal"}  \* tray: text begins with tray_, is retried
Kinds       == {"none", "webhook", "ask", "poll", "cron", "event"}
Phases      == {"idle", "fetch", "apply", "read", "requeue", "refetch", "decide",
                "lookup", "create", "mark", "listed", "order", "verify", "confirm"}
\* Between the claim and the mark that ends it.
HoldPhases  == {"lookup", "create", "mark"}

VARIABLES
  \* Mercado Pago
  mp,          \* status of each payment there
  charged,     \* transaction_amount as it reports it
  notices,     \* notification not yet acknowledged with 200
  \* ai_pix_payments
  status,      \* status column; "none": no row yet
  settlement,  \* settlement_status
  error,       \* settlement_error, by class
  orderId,     \* tray_order_id; 0: NULL
  stale,       \* processing for more than 600 s
  \* the store
  orders,      \* payment each order was created for; 0: no such order
  late,        \* payments with a POST still on its way that nobody waits for
  cursor,      \* last_event_id of the order events
  \* the workers
  pc, kind, pay,
  payload,     \* status in the Mercado Pago answer it holds; "none": none yet
  found,       \* order the mark will record; 0: the mark records a failure
  todo,        \* cron: rows listed, each with "take" or "requeue"
  \* bounds and history
  faults, asks,
  approvedOnce, \* payments Mercado Pago has ever approved
  excused      \* sessions with a cause for a second order

mpVars    == <<mp, charged, notices, approvedOnce>>
rowVars   == <<status, settlement, error, orderId, stale>>
storeVars == <<orders, late, cursor>>
workVars  == <<pc, kind, pay, payload, found, todo>>
vars      == <<mpVars, rowVars, storeVars, workVars, faults, asks, excused>>

Init ==
  /\ mp = [p \in Payments |-> "none"]
  /\ charged \in [Payments -> Charges]
  /\ notices = {} /\ approvedOnce = {}
  /\ status     = [p \in Payments |-> "none"]
  /\ settlement = [p \in Payments |-> "none"]
  /\ error      = [p \in Payments |-> "none"]
  /\ orderId    = [p \in Payments |-> 0]
  /\ stale      = [p \in Payments |-> FALSE]
  /\ orders     = [o \in OrderIds |-> 0]
  /\ late = {} /\ cursor = 0
  /\ pc      = [w \in Workers |-> "idle"]
  /\ kind    = [w \in Workers |-> "none"]
  /\ pay     = [w \in Workers |-> 0]
  /\ payload = [w \in Workers |-> "none"]
  /\ found   = [w \in Workers |-> 0]
  /\ todo    = [w \in Workers |-> {}]
  /\ faults = 0 /\ asks = 0 /\ excused = {}

-----------------------------------------------------------------------------
(* Mercado Pago, the customer and the row's creation *)

\* create_pix_payment: a repeated call has the same idempotency key and makes
\* nothing new.
CreateAtMp(p) ==
  /\ mp[p] = "none" /\ \A q \in Payments : q < p => status[q] # "none"
  /\ mp' = [mp EXCEPT ![p] = "pending"]
  /\ notices' = notices \cup {p}
  /\ UNCHANGED <<charged, approvedOnce, rowVars, storeVars, workVars, faults, asks, excused>>

\* upsert_pix_payment_created: on a conflict the status and the snapshot stay.
Persist(p) ==
  /\ mp[p] # "none" /\ status[p] = "none"
  /\ status' = [status EXCEPT ![p] = "pending"]
  /\ UNCHANGED <<settlement, error, orderId, stale,
                 mpVars, storeVars, workVars, faults, asks, excused>>

\* The customer pays the code (shown once the row is there), or it expires, or
\* the money is given back; each change is notified.
MpChanges(p, new) ==
  /\ <<mp[p], new>> \in {<<"pending", "approved">>, <<"pending", "closed">>, <<"approved", "closed">>}
  /\ status[p] # "none"
  /\ mp' = [mp EXCEPT ![p] = new]
  /\ notices' = notices \cup {p}
  /\ approvedOnce' = IF new = "approved" THEN approvedOnce \cup {p} ELSE approvedOnce
  /\ UNCHANGED <<charged, rowVars, storeVars, workVars, faults, asks, excused>>

-----------------------------------------------------------------------------
(* What the row's statements do *)

Holding(w) == pc[w] \in HoldPhases

Retryable(p) == error[p] # "fatal"

Requeueable(p) ==
  /\ status[p] = "approved" /\ orderId[p] = 0
  /\ \/ settlement[p] = "processing" /\ stale[p]
     \/ settlement[p] = "failed" /\ Retryable(p)

\* requeue_pix_settlement.  Taking the claim away from a worker that is still
\* there is a cause for a second order.
Requeue(p) ==
  IF Requeueable(p)
    THEN /\ settlement' = [settlement EXCEPT ![p] = "pending"]
         /\ error' = [error EXCEPT ![p] = "none"]
         /\ stale' = [stale EXCEPT ![p] = FALSE]
         /\ excused' = IF \E w \in Workers : Holding(w) /\ pay[w] = p
                         THEN excused \cup {Session[p]} ELSE excused
    ELSE UNCHANGED <<settlement, error, stale, excused>>

\* COALESCE(new, old).
KeptOrder(old, new) == IF new # 0 THEN new ELSE old

\* mark_pix_settlement: guarded by the payment id only.
SetMark(p, result, why, o) ==
  /\ settlement' = [settlement EXCEPT ![p] = result]
  /\ error' = [error EXCEPT ![p] = why]
  /\ orderId' = [orderId EXCEPT ![p] = KeptOrder(orderId[p], o)]
  /\ stale' = [stale EXCEPT ![p] = FALSE]

\* The WHERE clause of claim_pix_settlement.
Claimable(p) == status[p] = "approved" /\ settlement[p] = "pending"

\* Variant: a failed settlement is left to the operator.
ListedPendingOnly(p) ==
  /\ status[p] = "approved" /\ orderId[p] = 0
  /\ settlement[p] = "pending" \/ (settlement[p] = "processing" /\ stale[p])

\* list_retryable_pix_settlements.
Listed(p) ==
  /\ status[p] = "approved" /\ orderId[p] = 0
  /\ \/ settlement[p] = "pending"
     \/ settlement[p] = "processing" /\ stale[p]
     \/ settlement[p] = "failed" /\ Retryable(p)

\* validate_pix_settlement_amounts, its status test aside.
AmountsAgree(p) ==
  /\ Stored[p] > 0 /\ Expected[p] > 0 /\ charged[p] > 0
  /\ charged[p] = Stored[p] /\ Stored[p] = Expected[p]

-----------------------------------------------------------------------------
(* The workers *)

Go(w, phase) == pc' = [pc EXCEPT ![w] = phase]

Begin(w, k, p, phase) ==
  /\ pc[w] = "idle"
  /\ Go(w, phase)
  /\ kind' = [kind EXCEPT ![w] = k]
  /\ pay' = [pay EXCEPT ![w] = p]
  /\ UNCHANGED <<payload, found, todo>>

\* The end of a settlement: the cron turns to its next row.
Finish(w) ==
  /\ pc' = [pc EXCEPT ![w] = IF todo[w] = {} THEN "idle" ELSE "listed"]
  /\ kind' = [kind EXCEPT ![w] = IF todo[w] = {} THEN "none" ELSE @]
  /\ pay' = [pay EXCEPT ![w] = 0]
  /\ payload' = [payload EXCEPT ![w] = "none"]
  /\ found' = [found EXCEPT ![w] = 0]
  /\ UNCHANGED todo

Webhook(w, p) ==
  /\ p \in notices
  /\ Begin(w, "webhook", p, "fetch")
  /\ notices' = notices \ {p}
  /\ UNCHANGED <<mp, charged, approvedOnce, rowVars, storeVars, faults, asks, excused>>

\* "Ja paguei" in the chat, or a poll of the status page.
Ask(w, p, k) ==
  /\ asks < MaxAsks /\ asks' = asks + 1
  /\ status[p] # "none"
  /\ k \in {"ask", "poll"}
  /\ Begin(w, k, p, "fetch")
  /\ UNCHANGED <<mpVars, rowVars, storeVars, faults, excused>>

Fetch(w) ==
  /\ pc[w] \in {"fetch", "refetch"}
  /\ payload' = [payload EXCEPT ![w] = mp[pay[w]]]
  /\ Go(w, IF pc[w] = "fetch" THEN "apply" ELSE "decide")
  /\ UNCHANGED <<kind, pay, found, todo,
                 mpVars, rowVars, storeVars, faults, asks, excused>>

\* Variant: a notification that could not be looked up is acknowledged.
KeepNoticeNever(w) == notices

\* Only a 200 ends a notification; anything else has it sent again.
KeepNotice(w) == IF kind[w] = "webhook" THEN notices \cup {pay[w]} ELSE notices

\* Mercado Pago cannot be reached: the webhook answers 503.
FetchFails(w) ==
  /\ pc[w] \in {"fetch", "refetch"}
  /\ faults < MaxFaults /\ faults' = faults + 1
  /\ Finish(w)
  /\ notices' = IF pc[w] = "fetch" THEN KeepNotice(w) ELSE notices
  /\ UNCHANGED <<mp, charged, approvedOnce, rowVars, storeVars, asks, excused>>

\* apply_mp_status_update: the last answer to arrive wins, whatever its age.
Apply(w) ==
  /\ pc[w] = "apply"
  /\ IF status[pay[w]] = "none"
       THEN UNCHANGED <<status, settlement>>
       ELSE /\ status' = [status EXCEPT ![pay[w]] = payload[w]]
            /\ settlement' = [settlement EXCEPT ![pay[w]] =
                 IF payload[w] = "approved" /\ @ = "none" THEN "pending" ELSE @]
  /\ IF payload[w] = "approved" /\ kind[w] # "poll"
       THEN Go(w, "read") /\ UNCHANGED <<kind, pay, payload, found, todo>>
       ELSE Finish(w)
  /\ UNCHANGED <<error, orderId, stale, mpVars, storeVars, faults, asks, excused>>

\* The first statements of settle_approved_pix_payment.
ReadRow(w) ==
  LET p == pay[w] IN
  /\ pc[w] = "read"
  /\ \/ /\ \/ status[p] = "none"
           \/ settlement[p] = "completed" /\ orderId[p] # 0
           \/ settlement[p] = "processing" /\ ~stale[p]
        /\ Finish(w)
     \/ /\ settlement[p] = "processing" /\ stale[p]
        /\ Go(w, "requeue") /\ UNCHANGED <<kind, pay, payload, found, todo>>
     \/ /\ status[p] # "none"
        /\ settlement[p] \notin {"completed", "processing"}
             \/ (settlement[p] = "completed" /\ orderId[p] = 0)
        /\ Go(w, IF payload[w] = "none" THEN "refetch" ELSE "decide")
        /\ UNCHANGED <<kind, pay, payload, found, todo>>
  /\ UNCHANGED <<mpVars, rowVars, storeVars, faults, asks, excused>>

RequeueStale(w) ==
  /\ pc[w] = "requeue"
  /\ Requeue(pay[w])
  /\ Go(w, IF payload[w] = "none" THEN "refetch" ELSE "decide")
  /\ UNCHANGED <<kind, pay, payload, found, todo, status, orderId,
                 mpVars, storeVars, faults, asks>>

\* Not approved: nothing.  Wrong amounts or an incomplete snapshot: marked
\* failed for good, whatever the row says by now.  Otherwise the claim.  Two
\* payments of one session in hand at a time are a cause for a second order.
Decide(w) ==
  LET p == pay[w] IN
  /\ pc[w] = "decide"
  /\ \/ /\ payload[w] # "approved"
        /\ Finish(w)
        /\ UNCHANGED <<settlement, error, orderId, stale, excused>>
     \/ /\ payload[w] = "approved" /\ ~(AmountsAgree(p) /\ HasProducts[p])
        /\ SetMark(p, "failed", "fatal", 0)
        /\ Finish(w)
        /\ UNCHANGED excused
     \/ /\ payload[w] = "approved" /\ AmountsAgree(p) /\ HasProducts[p]
        /\ Claimable(p)
        /\ settlement' = [settlement EXCEPT ![p] = "processing"]
        /\ error' = [error EXCEPT ![p] = "none"]
        /\ stale' = [stale EXCEPT ![p] = FALSE]
        /\ excused' = IF \E v \in Workers : Holding(v) /\ pay[v] # p /\ Session[pay[v]] = Session[p]
                        THEN excused \cup {Session[p]} ELSE excused
        /\ Go(w, "lookup")
        /\ UNCHANGED <<orderId, kind, pay, payload, found, todo>>
     \/ /\ payload[w] = "approved" /\ AmountsAgree(p) /\ HasProducts[p]
        /\ ~Claimable(p)
        /\ Finish(w)
        /\ UNCHANGED <<settlement, error, orderId, stale, excused>>
  /\ UNCHANGED <<status, mpVars, storeVars, faults, asks>>

OrdersOf(s) == {o \in OrderIds : orders[o] # 0 /\ Session[orders[o]] = s}

\* Variant: any order of the session will do.
MatchesSession(o, p) == orders[o] # 0 /\ Session[orders[o]] = Session[p]

\* The order of the session has the total the payment was made for.
Matches(o, p) ==
  orders[o] # 0 /\ Session[orders[o]] = Session[p] /\ Expected[orders[o]] = Expected[p]

\* find_existing_tray_order: none leads to the POST, a single good one is
\* adopted, anything else is a failure.
Lookup(w) ==
  LET s == Session[pay[w]] IN
  /\ pc[w] = "lookup"
  /\ \/ /\ OrdersOf(s) = {}
        /\ Go(w, "create") /\ UNCHANGED found
     \/ /\ \E o \in OrdersOf(s) :
             found' = [found EXCEPT ![w] =
                         IF OrdersOf(s) = {o} /\ Matches(o, pay[w]) THEN o ELSE 0]
        /\ Go(w, "mark")
  /\ UNCHANGED <<kind, pay, payload, todo, mpVars, rowVars, storeVars, faults, asks, excused>>

LookupFails(w) ==
  /\ pc[w] = "lookup"
  /\ faults < MaxFaults /\ faults' = faults + 1
  /\ Go(w, "mark")
  /\ UNCHANGED <<kind, pay, payload, found, todo,
                 mpVars, rowVars, storeVars, asks, excused>>

\* The store gives a new order the next number.
NewOrder(o, p) ==
  /\ orders[o] = 0 /\ \A q \in OrderIds : q < o => orders[q] # 0
  /\ orders' = [orders EXCEPT ![o] = p]

Create(w) ==
  /\ pc[w] = "create"
  /\ \E o \in OrderIds : /\ NewOrder(o, pay[w])
                         /\ found' = [found EXCEPT ![w] = o]
  /\ Go(w, "mark")
  /\ UNCHANGED <<late, cursor, kind, pay, payload, todo,
                 mpVars, rowVars, faults, asks, excused>>

\* What became of a POST whose answer never came or was useless: it was
\* refused, it made the order, or it is still on its way.
PostUnanswered(p) ==
  \/ UNCHANGED <<orders, late>>
  \/ (\E o \in OrderIds : NewOrder(o, p)) /\ UNCHANGED late
  \/ late' = late \cup {p} /\ UNCHANGED orders

CreateFails(w) ==
  /\ pc[w] = "create"
  /\ faults < MaxFaults /\ faults' = faults + 1
  /\ PostUnanswered(pay[w])
  /\ Go(w, "mark")
  /\ UNCHANGED <<cursor, kind, pay, payload, found, todo,
                 mpVars, rowVars, asks, excused>>

\* A POST given up by its sender reaches the store after all.
PostLands(p) ==
  /\ p \in late /\ late' = late \ {p}
  /\ \E o \in OrderIds : NewOrder(o, p)
  /\ excused' = excused \cup {Session[p]}
  /\ UNCHANGED <<cursor, mpVars, rowVars, workVars, faults, asks>>

Mark(w) ==
  /\ pc[w] = "mark"
  /\ IF found[w] # 0 THEN SetMark(pay[w], "completed", "none", found[w])
                     ELSE SetMark(pay[w], "failed", "tray", 0)
  /\ Finish(w)
  /\ UNCHANGED <<status, mpVars, storeVars, faults, asks, excused>>

-----------------------------------------------------------------------------
(* The cron: retry_failed_pix_settlements, then the store's order events *)

ListRetryable(w) ==
  /\ pc[w] = "idle"
  /\ \E p \in Payments : Listed(p)
  /\ todo' = [todo EXCEPT ![w] =
       {<<p, IF settlement[p] = "pending" THEN "take" ELSE "requeue">> :
           p \in {q \in Payments : Listed(q)}}]
  /\ Go(w, "listed")
  /\ kind' = [kind EXCEPT ![w] = "cron"]
  /\ UNCHANGED <<pay, payload, found, mpVars, rowVars, storeVars, faults, asks, excused>>

NextListed(w) ==
  /\ pc[w] = "listed"
  /\ \E item \in todo[w] :
       /\ todo' = [todo EXCEPT ![w] = @ \ {item}]
       /\ pay' = [pay EXCEPT ![w] = item[1]]
       /\ IF item[2] = "requeue" THEN Requeue(item[1])
                                 ELSE UNCHANGED <<settlement, error, stale, excused>>
  /\ Go(w, "read")
  /\ UNCHANGED <<kind, payload, found, status, orderId, mpVars, storeVars, faults, asks>>

\* consume_tray_webhook_events, a page of one event: the oldest unacknowledged.
TakeEvent(w, o) ==
  /\ o > cursor /\ orders[o] # 0
  /\ \A q \in OrderIds : q > cursor /\ q < o => orders[q] = 0
  /\ pc[w] = "idle"
  /\ Go(w, "order")
  /\ kind' = [kind EXCEPT ![w] = "event"]
  /\ found' = [found EXCEPT ![w] = o]
  /\ UNCHANGED <<pay, payload, todo, mpVars, rowVars, storeVars, faults, asks, excused>>

\* An acknowledged event moves the cursor, never back.
Acknowledge(o) == cursor' = IF o > cursor THEN o ELSE cursor

\* The newest payment of the session of order o.
PaymentOf(o, p) ==
  /\ Session[p] = Session[orders[o]] /\ status[p] # "none"
  /\ \A q \in Payments : q > p /\ Session[q] = Session[p] => status[q] = "none"

\* confirm_pix_for_tray_order up to its call to Mercado Pago.  Of several rows
\* with this order it looks at the one updated last: here, at any of them.
ReadOrder(w) ==
  /\ pc[w] = "order"
  /\ \E p \in Payments :
       /\ PaymentOf(found[w], p)
       /\ \/ /\ \/ status[p] # "approved"
                \/ orderId[p] # 0 /\ settlement[p] = "completed"
                \/ \E q \in Payments : orderId[q] = found[w] /\ settlement[q] = "completed"
             /\ Finish(w) /\ Acknowledge(found[w])
          \/ /\ status[p] = "approved" /\ ~(orderId[p] # 0 /\ settlement[p] = "completed")
             /\ \/ \A q \in Payments : orderId[q] # found[w]
                \/ \E q \in Payments : orderId[q] = found[w] /\ settlement[q] # "completed"
             /\ IF settlement[p] = "failed" /\ ~Retryable(p)
                  THEN Finish(w)
                  ELSE /\ pay' = [pay EXCEPT ![w] = p]
                       /\ Go(w, "verify")
                       /\ UNCHANGED <<kind, payload, found, todo>>
             /\ UNCHANGED cursor
  /\ UNCHANGED <<orders, late, mpVars, rowVars, faults, asks, excused>>

\* validate_existing_pix_order: the payment as Mercado Pago has it now, and the
\* order's total.
Verify(w) ==
  LET p == pay[w] IN
  /\ pc[w] = "verify"
  /\ IF mp[p] = "approved" /\ AmountsAgree(p) /\ Matches(found[w], p)
       THEN Go(w, "confirm") /\ UNCHANGED <<kind, pay, payload, found, todo>>
       ELSE Finish(w)
  /\ UNCHANGED <<mpVars, rowVars, storeVars, faults, asks, excused>>

\* The store or Mercado Pago cannot be reached: the event stays.
EventFails(w) ==
  /\ pc[w] \in {"order", "verify"}
  /\ faults < MaxFaults /\ faults' = faults + 1
  /\ Finish(w)
  /\ UNCHANGED <<mpVars, rowVars, storeVars, asks, excused>>

Confirm(w) ==
  /\ pc[w] = "confirm"
  /\ SetMark(pay[w], "completed", "none", found[w])
  /\ Acknowledge(found[w])
  /\ Finish(w)
  /\ UNCHANGED <<status, orders, late, mpVars, faults, asks, excused>>

-----------------------------------------------------------------------------
(* Time and failure *)

GoesStale(p) ==
  /\ settlement[p] = "processing" /\ ~stale[p]
  /\ stale' = [stale EXCEPT ![p] = TRUE]
  /\ UNCHANGED <<status, settlement, error, orderId,
                 mpVars, storeVars, workVars, faults, asks, excused>>

\* The process dies: what it held is gone, its notification is sent again, its
\* POST may have got through.
Crash(w) ==
  /\ pc[w] # "idle"
  /\ faults < MaxFaults /\ faults' = faults + 1
  /\ IF pc[w] = "create" THEN PostUnanswered(pay[w]) ELSE UNCHANGED <<orders, late>>
  /\ notices' = KeepNotice(w)
  /\ pc' = [pc EXCEPT ![w] = "idle"]
  /\ kind' = [kind EXCEPT ![w] = "none"]
  /\ pay' = [pay EXCEPT ![w] = 0]
  /\ payload' = [payload EXCEPT ![w] = "none"]
  /\ found' = [found EXCEPT ![w] = 0]
  /\ todo' = [todo EXCEPT ![w] = {}]
  /\ UNCHANGED <<mp, charged, approvedOnce, cursor, rowVars, asks, excused>>

SettleStep(w) ==
  Fetch(w) \/ Apply(w) \/ ReadRow(w) \/ RequeueStale(w) \/ Decide(w) \/ Lookup(w)
    \/ Create(w) \/ Mark(w)

EventStep(w) == ReadOrder(w) \/ Verify(w) \/ Confirm(w)

FaultStep(w) ==
  FetchFails(w) \/ LookupFails(w) \/ CreateFails(w) \/ EventFails(w) \/ Crash(w)

StartStep(w) ==
  \/ \E p \in Payments : Webhook(w, p) \/ (\E k \in Kinds : Ask(w, p, k))
  \/ ListRetryable(w)
  \/ NextListed(w)
  \/ \E o \in OrderIds : TakeEvent(w, o)

OutsideStep ==
  \E p \in Payments :
    \/ CreateAtMp(p) \/ Persist(p) \/ PostLands(p) \/ GoesStale(p)
    \/ \E new \in MpStatuses : MpChanges(p, new)

Next ==
  \/ OutsideStep
  \/ \E w \in Workers : StartStep(w) \/ SettleStep(w) \/ EventStep(w) \/ FaultStep(w)

Spec == Init /\ [][Next]_vars

\* The cron and Mercado Pago keep calling, a process that was started goes on,
\* and ten minutes pass.  Every run of the cron consumes the store's events
\* before it retries settlements (tray_sync.py), so retries cannot keep an event
\* waiting for ever: strong fairness.  Nobody has to ask, to pay, or to fail.
Fairness ==
  /\ \A w \in Workers : WF_vars(SettleStep(w) \/ EventStep(w) \/ NextListed(w))
  /\ WF_vars(\E w \in Workers, p \in Payments : Webhook(w, p))
  /\ WF_vars(\E w \in Workers : ListRetryable(w))
  /\ SF_vars(\E w \in Workers, o \in OrderIds : TakeEvent(w, o))
  /\ \A p \in Payments : WF_vars(GoesStale(p))

FairSpec == Spec /\ Fairness

-----------------------------------------------------------------------------
(* Properties *)

\* Every variable keeps to its type: a row, a worker, an order.
TypeOK ==
  /\ mp \in [Payments -> MpStatuses]
  /\ charged \in [Payments -> Nat]
  /\ notices \in SUBSET Payments
  /\ approvedOnce \in SUBSET Payments
  /\ status \in [Payments -> MpStatuses]
  /\ settlement \in [Payments -> Settlements]
  /\ error \in [Payments -> Errors]
  /\ orderId \in [Payments -> {0} \cup OrderIds]
  /\ stale \in [Payments -> BOOLEAN]
  /\ orders \in [OrderIds -> {0} \cup Payments]
  /\ late \in SUBSET Payments
  /\ cursor \in {0} \cup OrderIds
  /\ pc \in [Workers -> Phases]
  /\ kind \in [Workers -> Kinds]
  /\ pay \in [Workers -> {0} \cup Payments]
  /\ payload \in [Workers -> MpStatuses]
  /\ found \in [Workers -> {0} \cup OrderIds]
  /\ todo \in [Workers -> SUBSET (Payments \X {"take", "requeue"})]
  /\ faults \in 0..MaxFaults /\ asks \in 0..MaxAsks
  /\ excused \in SUBSET Sessions

\* The store never takes a second order for a cart session, unless one of three
\* things happened that the code does not guard against: a claim was taken away
\* from a worker still at it, a POST its sender had given up arrived late, or
\* two payments of the session were settled at the same time.
DuplicateNeedsCause ==
  \A o1, o2 \in OrderIds :
    /\ o1 # o2 /\ orders[o1] # 0 /\ orders[o2] # 0
    /\ Session[orders[o1]] = Session[orders[o2]]
    => Session[orders[o1]] \in excused

\* Every order in the store was paid: Mercado Pago had approved the payment, and
\* charged, stored and expected amount were the same and not zero.
OrderWasPaid ==
  \A o \in OrderIds : orders[o] # 0 =>
    LET p == orders[o] IN
      /\ p \in approvedOnce
      /\ Expected[p] > 0 /\ Stored[p] = Expected[p] /\ charged[p] = Expected[p]

\* A payment reported as settled has an order: one that exists, of its own cart
\* session and of its own amount, whoever made the mark and from whatever it
\* had read before.
SettledMeansOrder ==
  \A p \in Payments : settlement[p] = "completed" =>
    \E o \in OrderIds :
      /\ orderId[p] = o /\ orders[o] # 0
      /\ Session[orders[o]] = Session[p] /\ Expected[orders[o]] = Expected[p]

\* The order once recorded for a payment is never forgotten: a late failure mark
\* changes the status and leaves the order, so the cron does not order again.
OrderIdKept == [][\A p \in Payments : orderId[p] # 0 => orderId'[p] # 0]_vars

\* Mercado Pago approved the payment and charged what the checkout expects.
PaidInFull(p) == p \in approvedOnce /\ Expected[p] > 0 /\ charged[p] = Expected[p]

\* The settlement keeps what SettlementPromise promises: every step of the rows,
\* the workers and the store is a step of the promise or none of it.
Promise ==
  INSTANCE SettlementPromise WITH
    Orders  <- OrderIds,
    Amount  <- Expected,
    paid    <- {p \in Payments : PaidInFull(p)},
    order   <- orders,
    astray  <- late,
    record  <- orderId,
    settled <- {p \in Payments : settlement[p] = "completed"}

KeepsSettlementPromise == Promise!PromiseSpec

\* An approved payment that may be settled and has no order is in somebody's
\* hands or on the cron's list: no failure, crash or late mark strands it.
NoneStranded ==
  \A p \in Payments :
    status[p] = "approved" /\ AmountsAgree(p) /\ HasProducts[p] /\ orderId[p] = 0
      => Listed(p) \/ (settlement[p] = "processing" /\ ~stale[p])

\* A webhook is looking payment p up, or about to write that it is approved.
NoticedBy(w, p) ==
  /\ kind[w] = "webhook" /\ pay[w] = p
  /\ pc[w] = "fetch" \/ (pc[w] = "apply" /\ payload[w] = "approved")

\* Until the approval of a payment has been written here once, its notification
\* is outstanding or a webhook is at work on it, however many lookups fail and
\* processes die.
NoticesAreKept ==
  \A p \in Payments :
    mp[p] = "approved" /\ settlement[p] = "none"
      => p \in notices \/ \E w \in Workers : NoticedBy(w, p)

\* A payment that stays approved at Mercado Pago is seen approved here, however
\* many lookups fail and processes die: the 503 has the notification repeated.
PaidIsNoticed ==
  \A p \in Payments :
    <>[](mp[p] = "approved") => <>(status[p] = "approved")

\* apply_mp_status_update is about to write an answer over a later one.
Overtaken(p) ==
  /\ mp[p] = "approved" /\ status[p] = "approved"
  /\ \E w \in Workers : pc[w] = "apply" /\ pay[w] = p /\ payload[w] # "approved"

\* A payment with matching amounts that Mercado Pago keeps approved gets its
\* order recorded, whoever began to settle it and died or failed, unless an
\* answer from before the payment is written over its approval.
Settles ==
  \A p \in Payments :
    (AmountsAgree(p) /\ HasProducts[p]) =>
      (<>[](mp[p] = "approved") => <>(orderId[p] # 0 \/ Overtaken(p)))

-----------------------------------------------------------------------------
(* The inductive invariant *)

PayPhases   == Phases \ {"idle", "listed", "order"}
EventPhases == {"order", "verify", "confirm"}

\* A worker past its first step knows its payment, an event worker its order,
\* and only the cron has rows left to do.
WorkersKnow ==
  \A w \in Workers :
    /\ pc[w] \in PayPhases => pay[w] # 0
    /\ pc[w] \in EventPhases => found[w] # 0 /\ orders[found[w]] # 0
    /\ pc[w] \notin EventPhases \cup {"mark"} => found[w] = 0
    /\ pc[w] \in {"idle", "listed", "order"} => payload[w] = "none"
    /\ payload[w] = "approved" => pay[w] \in approvedOnce
    /\ kind[w] # "cron" => todo[w] = {}
    /\ pc[w] = "idle" => kind[w] = "none"
    /\ kind[w] = "webhook" => pay[w] # 0

\* Only an approved payment with matching amounts gets as far as the claim, or
\* leaves a POST behind.
HoldersMayOrder ==
  /\ \A p \in Payments : mp[p] = "approved" => p \in approvedOnce
  /\ \A w \in Workers : Holding(w) => payload[w] = "approved" /\ AmountsAgree(pay[w])
  /\ \A p \in late : p \in approvedOnce /\ AmountsAgree(p)

\* What a mark is about to record is an order of the payment.
MarksMatch ==
  /\ \A w \in Workers :
       (pc[w] = "mark" /\ found[w] # 0) \/ pc[w] = "confirm" => Matches(found[w], pay[w])
  /\ \A p \in Payments :
       /\ orderId[p] # 0 => Matches(orderId[p], p)
       /\ settlement[p] = "completed" => orderId[p] # 0

\* While a claim is held, unless there is a cause for a second order: nobody else
\* holds one of the session, the row cannot be claimed again, and whoever is
\* about to POST does so because the session has no order.
ClaimHolds ==
  \A w \in Workers : Holding(w) /\ Session[pay[w]] \notin excused =>
    /\ \A v \in Workers : Holding(v) /\ v # w => Session[pay[v]] # Session[pay[w]]
    /\ \/ settlement[pay[w]] \in {"processing", "completed"}
       \/ settlement[pay[w]] = "failed" /\ error[pay[w]] = "fatal"
    /\ pc[w] = "create" => OrdersOf(Session[pay[w]]) = {}

PixInv ==
  /\ TypeOK
  /\ WorkersKnow
  /\ HoldersMayOrder
  /\ MarksMatch
  /\ ClaimHolds
  /\ DuplicateNeedsCause
  /\ OrderWasPaid

\* What a row says of a payment was learned in order: Mercado Pago before the
\* row, the row before the approval, the approval before the settlement.
RowsLearned ==
  \A p \in Payments :
    /\ status[p] # "none" \/ p \in notices => mp[p] # "none"
    /\ mp[p] = "approved" => status[p] # "none"
    /\ status[p] = "approved" => settlement[p] # "none"
    /\ error[p] = "fatal" => ~(AmountsAgree(p) /\ HasProducts[p])

\* Workers handle payments Mercado Pago knows, and apply answers it gave.
WorkersLearned ==
  \A w \in Workers :
    /\ pay[w] # 0 => mp[pay[w]] # "none"
    /\ pc[w] = "apply" => payload[w] # "none"
    /\ \A item \in todo[w] : mp[item[1]] # "none"

NoticeInv == PixInv /\ RowsLearned /\ WorkersLearned /\ NoticesAreKept

=============================================================================
