------------------------ MODULE PixSettlementProofs ------------------------
(***************************************************************************)
(* Theorems about PixSettlement, for any number of payments, orders,       *)
(* workers, failures and any amounts: the inductive invariant PixInv, and  *)
(* from it that a cart gets no second order without a named cause, that    *)
(* every order was paid, that what is reported settled has its order, and  *)
(* that the rows implement SettlementPromise; and NoticeInv, for that no   *)
(* approved payment is overlooked or stranded.                             *)
(***************************************************************************)
EXTENDS PixSettlement, TLAPS

\* TypeOK in four parts, by who owns the variables.
MpTyped ==
  /\ mp \in [Payments -> MpStatuses]
  /\ charged \in [Payments -> Nat]
  /\ notices \in SUBSET Payments
  /\ approvedOnce \in SUBSET Payments

RowsTyped ==
  /\ status \in [Payments -> MpStatuses]
  /\ settlement \in [Payments -> Settlements]
  /\ error \in [Payments -> Errors]
  /\ orderId \in [Payments -> {0} \cup OrderIds]
  /\ stale \in [Payments -> BOOLEAN]
  /\ excused \in SUBSET Sessions

StoreTyped ==
  /\ orders \in [OrderIds -> {0} \cup Payments]
  /\ late \in SUBSET Payments
  /\ cursor \in {0} \cup OrderIds
  /\ faults \in 0..MaxFaults /\ asks \in 0..MaxAsks

WorkersTyped ==
  /\ pc \in [Workers -> Phases]
  /\ kind \in [Workers -> Kinds]
  /\ pay \in [Workers -> {0} \cup Payments]
  /\ payload \in [Workers -> MpStatuses]
  /\ found \in [Workers -> {0} \cup OrderIds]
  /\ todo \in [Workers -> SUBSET (Payments \X {"take", "requeue"})]

LEMMA TypeParts == TypeOK <=> MpTyped /\ RowsTyped /\ StoreTyped /\ WorkersTyped
  BY DEF TypeOK, MpTyped, RowsTyped, StoreTyped, WorkersTyped

LEMMA TypePartsNext == MpTyped' /\ RowsTyped' /\ StoreTyped' /\ WorkersTyped' => TypeOK'
  BY DEF TypeOK, MpTyped, RowsTyped, StoreTyped, WorkersTyped

\* 0 stands for NULL and is neither a payment nor an order.
LEMMA ZeroIsNull == 0 \notin Payments /\ 0 \notin OrderIds
  BY PixAssumption DEF Payments, OrderIds

-----------------------------------------------------------------------------
(* What the shared pieces of the actions do *)

LEMMA FinishTyping ==
  ASSUME WorkersTyped, NEW w \in Workers, Finish(w)
  PROVE  WorkersTyped'
  BY DEF WorkersTyped, Finish, Phases, Kinds, MpStatuses

LEMMA BeginTyping ==
  ASSUME WorkersTyped, NEW w \in Workers, NEW k \in Kinds, NEW p \in Payments,
         NEW phase \in Phases, Begin(w, k, p, phase)
  PROVE  WorkersTyped'
  BY DEF WorkersTyped, Begin, Go

LEMMA GoTyping ==
  ASSUME WorkersTyped, NEW w \in Workers, NEW phase \in Phases, Go(w, phase),
         UNCHANGED <<kind, pay, payload, found, todo>>
  PROVE  WorkersTyped'
  BY DEF WorkersTyped, Go

LEMMA SetMarkTyping ==
  ASSUME RowsTyped, NEW p \in Payments, NEW result \in Settlements, NEW why \in Errors,
         NEW o \in {0} \cup OrderIds, SetMark(p, result, why, o),
         status' = status, excused' = excused
  PROVE  RowsTyped'
  BY DEF RowsTyped, SetMark, KeptOrder

\* What a requeue may do to the rows.
Requeued(p) ==
  /\ \A q \in Payments : q # p => settlement'[q] = settlement[q] /\ error'[q] = error[q]
  /\ \/ settlement'[p] = settlement[p] /\ error'[p] = error[p]
     \/ /\ settlement'[p] = "pending" /\ orderId[p] = 0
        /\ settlement[p] = "processing" \/ (settlement[p] = "failed" /\ error[p] # "fatal")
        /\ (\E w \in Workers : Holding(w) /\ pay[w] = p) => Session[p] \in excused'
  /\ excused \subseteq excused'

LEMMA RequeueTyping ==
  ASSUME RowsTyped, NEW p \in Payments, Requeue(p), status' = status, orderId' = orderId
  PROVE  RowsTyped' /\ Requeued(p)
<1>1. CASE ~Requeueable(p)
  BY <1>1 DEF RowsTyped, Requeue, Requeued
<1>2. CASE Requeueable(p)
  <2>1. Session[p] \in Sessions
    BY PixAssumption
  <2>2. RowsTyped'
    <3>1. settlement' \in [Payments -> Settlements]
      BY <1>2 DEF RowsTyped, Requeue, Settlements
    <3>2. error' \in [Payments -> Errors] /\ stale' \in [Payments -> BOOLEAN]
      BY <1>2 DEF RowsTyped, Requeue, Errors
    <3>3. excused' \in SUBSET Sessions
      BY <1>2, <2>1 DEF RowsTyped, Requeue
    <3> QED
      BY <3>1, <3>2, <3>3 DEF RowsTyped
  <2>3. settlement[p] = "processing" \/ (settlement[p] = "failed" /\ error[p] # "fatal")
    BY <1>2 DEF Requeueable, Retryable
  <2>4. orderId[p] = 0
    BY <1>2 DEF Requeueable
  <2>5. excused \subseteq excused' /\ ((\E w \in Workers : Holding(w) /\ pay[w] = p) => Session[p] \in excused')
    BY <1>2 DEF Requeue
  <2>6. settlement'[p] = "pending" /\ \A q \in Payments : q # p => settlement'[q] = settlement[q] /\ error'[q] = error[q]
    BY <1>2 DEF Requeue, RowsTyped
  <2> QED
    BY <2>2, <2>3, <2>4, <2>5, <2>6 DEF Requeued
<1> QED
  BY <1>1, <1>2

\* The store takes at most one new order, for payment p.
Grows(p) ==
  /\ orders' \in [OrderIds -> {0} \cup Payments]
  /\ \A o \in OrderIds : orders[o] # 0 => orders'[o] = orders[o]
  /\ \A o \in OrderIds : orders'[o] # orders[o] => orders'[o] = p
  /\ \A o1, o2 \in OrderIds : orders'[o1] # orders[o1] /\ orders'[o2] # orders[o2] => o1 = o2

LEMMA NewOrderGrows ==
  ASSUME StoreTyped, NEW p \in Payments, NEW o \in OrderIds, NewOrder(o, p)
  PROVE  Grows(p)
  BY DEF StoreTyped, NewOrder, Grows

LEMMA PostGrows ==
  ASSUME StoreTyped, NEW p \in Payments, PostUnanswered(p)
  PROVE  Grows(p) /\ late' \in SUBSET Payments /\ late' \subseteq late \cup {p}
<1>1. CASE UNCHANGED <<orders, late>>
  BY <1>1 DEF StoreTyped, Grows
<1>2. CASE (\E o \in OrderIds : NewOrder(o, p)) /\ UNCHANGED late
  BY <1>2, NewOrderGrows DEF StoreTyped
<1>3. CASE late' = late \cup {p} /\ UNCHANGED orders
  BY <1>3 DEF StoreTyped, Grows
<1> QED
  BY <1>1, <1>2, <1>3 DEF PostUnanswered

-----------------------------------------------------------------------------
(* Each action keeps the invariant *)


LEMMA CreateAtMpKeeps ==
  ASSUME PixInv, NEW p \in Payments, CreateAtMp(p)
  PROVE  PixInv'
<1>0. MpTyped /\ RowsTyped /\ StoreTyped /\ WorkersTyped
  BY TypeParts DEF PixInv
<1>1. MpTyped'
  BY <1>0, PixAssumption
    DEF MpTyped, WorkersTyped, MpStatuses, CreateAtMp, mpVars, rowVars, storeVars, workVars
<1>2. RowsTyped'
  BY <1>0, PixAssumption
    DEF RowsTyped, MpStatuses, Settlements, Errors, CreateAtMp, mpVars, rowVars, storeVars,
        workVars
<1>3. StoreTyped'
  BY <1>0, PixAssumption DEF StoreTyped, CreateAtMp, mpVars, rowVars, storeVars, workVars
<1>4. WorkersTyped'
  BY <1>0, PixAssumption
    DEF WorkersTyped, Phases, Kinds, MpStatuses, CreateAtMp, mpVars, rowVars, storeVars,
        workVars
<1>5. WorkersKnow'
  BY <1>0, ZeroIsNull, SMTT(20)
    DEF PixInv, MpTyped, RowsTyped, StoreTyped, WorkersTyped, WorkersKnow, PayPhases,
        EventPhases, Phases, CreateAtMp, mpVars, rowVars, storeVars, workVars
<1>6. HoldersMayOrder'
  BY <1>0, ZeroIsNull, SMTT(20)
    DEF PixInv, MpTyped, RowsTyped, StoreTyped, WorkersTyped, HoldersMayOrder, WorkersKnow,
        PayPhases, Phases, Holding, HoldPhases, AmountsAgree, CreateAtMp, mpVars, rowVars,
        storeVars, workVars
<1>7. MarksMatch'
  BY <1>0, ZeroIsNull, SMTT(20)
    DEF PixInv, MpTyped, RowsTyped, StoreTyped, WorkersTyped, MarksMatch, WorkersKnow,
        PayPhases, EventPhases, Phases, Matches, CreateAtMp, mpVars, rowVars, storeVars,
        workVars
<1>8. ClaimHolds'
  BY <1>0, ZeroIsNull, SMTT(20)
    DEF PixInv, MpTyped, RowsTyped, StoreTyped, WorkersTyped, ClaimHolds, WorkersKnow,
        PayPhases, Phases, Holding, HoldPhases, OrdersOf, CreateAtMp, mpVars, rowVars,
        storeVars, workVars
<1>9. DuplicateNeedsCause'
  BY <1>0, ZeroIsNull, SMTT(20)
    DEF PixInv, MpTyped, RowsTyped, StoreTyped, WorkersTyped, DuplicateNeedsCause, ClaimHolds,
        WorkersKnow, PayPhases, Phases, Holding, HoldPhases, OrdersOf, CreateAtMp, mpVars,
        rowVars, storeVars, workVars
<1>10. OrderWasPaid'
  BY <1>0, ZeroIsNull, SMTT(20)
    DEF PixInv, MpTyped, RowsTyped, StoreTyped, WorkersTyped, OrderWasPaid, HoldersMayOrder,
        WorkersKnow, PayPhases, Phases, Holding, HoldPhases, AmountsAgree, CreateAtMp, mpVars,
        rowVars, storeVars, workVars
<1> QED
  BY <1>1, <1>2, <1>3, <1>4, <1>5, <1>6, <1>7, <1>8, <1>9, <1>10, TypePartsNext DEF PixInv

LEMMA PersistKeeps ==
  ASSUME PixInv, NEW p \in Payments, Persist(p)
  PROVE  PixInv'
<1>0. MpTyped /\ RowsTyped /\ StoreTyped /\ WorkersTyped
  BY TypeParts DEF PixInv
<1>1. MpTyped'
  BY <1>0, PixAssumption
    DEF MpTyped, WorkersTyped, MpStatuses, Persist, mpVars, rowVars, storeVars, workVars
<1>2. RowsTyped'
  BY <1>0, PixAssumption
    DEF RowsTyped, MpStatuses, Settlements, Errors, Persist, mpVars, rowVars, storeVars,
        workVars
<1>3. StoreTyped'
  BY <1>0, PixAssumption DEF StoreTyped, Persist, mpVars, rowVars, storeVars, workVars
<1>4. WorkersTyped'
  BY <1>0, PixAssumption
    DEF WorkersTyped, Phases, Kinds, MpStatuses, Persist, mpVars, rowVars, storeVars, workVars
<1>5. WorkersKnow'
  BY <1>0, ZeroIsNull, SMTT(20)
    DEF PixInv, MpTyped, RowsTyped, StoreTyped, WorkersTyped, WorkersKnow, PayPhases,
        EventPhases, Phases, Persist, mpVars, rowVars, storeVars, workVars
<1>6. HoldersMayOrder'
  BY <1>0, ZeroIsNull, SMTT(20)
    DEF PixInv, MpTyped, RowsTyped, StoreTyped, WorkersTyped, HoldersMayOrder, WorkersKnow,
        PayPhases, Phases, Holding, HoldPhases, AmountsAgree, Persist, mpVars, rowVars,
        storeVars, workVars
<1>7. MarksMatch'
  BY <1>0, ZeroIsNull, SMTT(20)
    DEF PixInv, MpTyped, RowsTyped, StoreTyped, WorkersTyped, MarksMatch, WorkersKnow,
        PayPhases, EventPhases, Phases, Matches, Persist, mpVars, rowVars, storeVars, workVars
<1>8. ClaimHolds'
  BY <1>0, ZeroIsNull, SMTT(20)
    DEF PixInv, MpTyped, RowsTyped, StoreTyped, WorkersTyped, ClaimHolds, WorkersKnow,
        PayPhases, Phases, Holding, HoldPhases, OrdersOf, Persist, mpVars, rowVars, storeVars,
        workVars
<1>9. DuplicateNeedsCause'
  BY <1>0, ZeroIsNull, SMTT(20)
    DEF PixInv, MpTyped, RowsTyped, StoreTyped, WorkersTyped, DuplicateNeedsCause, ClaimHolds,
        WorkersKnow, PayPhases, Phases, Holding, HoldPhases, OrdersOf, Persist, mpVars,
        rowVars, storeVars, workVars
<1>10. OrderWasPaid'
  BY <1>0, ZeroIsNull, SMTT(20)
    DEF PixInv, MpTyped, RowsTyped, StoreTyped, WorkersTyped, OrderWasPaid, HoldersMayOrder,
        WorkersKnow, PayPhases, Phases, Holding, HoldPhases, AmountsAgree, Persist, mpVars,
        rowVars, storeVars, workVars
<1> QED
  BY <1>1, <1>2, <1>3, <1>4, <1>5, <1>6, <1>7, <1>8, <1>9, <1>10, TypePartsNext DEF PixInv

LEMMA MpChangesKeeps ==
  ASSUME PixInv, NEW p \in Payments, NEW new \in MpStatuses, MpChanges(p, new)
  PROVE  PixInv'
<1>0. MpTyped /\ RowsTyped /\ StoreTyped /\ WorkersTyped
  BY TypeParts DEF PixInv
<1>1. MpTyped'
  BY <1>0, PixAssumption
    DEF MpTyped, WorkersTyped, MpStatuses, MpChanges, mpVars, rowVars, storeVars, workVars
<1>2. RowsTyped'
  BY <1>0, PixAssumption
    DEF RowsTyped, MpStatuses, Settlements, Errors, MpChanges, mpVars, rowVars, storeVars,
        workVars
<1>3. StoreTyped'
  BY <1>0, PixAssumption DEF StoreTyped, MpChanges, mpVars, rowVars, storeVars, workVars
<1>4. WorkersTyped'
  BY <1>0, PixAssumption
    DEF WorkersTyped, Phases, Kinds, MpStatuses, MpChanges, mpVars, rowVars, storeVars,
        workVars
<1>5. WorkersKnow'
  BY <1>0, ZeroIsNull, SMTT(20)
    DEF PixInv, MpTyped, RowsTyped, StoreTyped, WorkersTyped, WorkersKnow, PayPhases,
        EventPhases, Phases, MpChanges, mpVars, rowVars, storeVars, workVars
<1>6. HoldersMayOrder'
  BY <1>0, ZeroIsNull, SMTT(20)
    DEF PixInv, MpTyped, RowsTyped, StoreTyped, WorkersTyped, HoldersMayOrder, WorkersKnow,
        PayPhases, Phases, Holding, HoldPhases, AmountsAgree, MpChanges, mpVars, rowVars,
        storeVars, workVars
<1>7. MarksMatch'
  BY <1>0, ZeroIsNull, SMTT(20)
    DEF PixInv, MpTyped, RowsTyped, StoreTyped, WorkersTyped, MarksMatch, WorkersKnow,
        PayPhases, EventPhases, Phases, Matches, MpChanges, mpVars, rowVars, storeVars,
        workVars
<1>8. ClaimHolds'
  BY <1>0, ZeroIsNull, SMTT(20)
    DEF PixInv, MpTyped, RowsTyped, StoreTyped, WorkersTyped, ClaimHolds, WorkersKnow,
        PayPhases, Phases, Holding, HoldPhases, OrdersOf, MpChanges, mpVars, rowVars,
        storeVars, workVars
<1>9. DuplicateNeedsCause'
  BY <1>0, ZeroIsNull, SMTT(20)
    DEF PixInv, MpTyped, RowsTyped, StoreTyped, WorkersTyped, DuplicateNeedsCause, ClaimHolds,
        WorkersKnow, PayPhases, Phases, Holding, HoldPhases, OrdersOf, MpChanges, mpVars,
        rowVars, storeVars, workVars
<1>10. OrderWasPaid'
  BY <1>0, ZeroIsNull, SMTT(20)
    DEF PixInv, MpTyped, RowsTyped, StoreTyped, WorkersTyped, OrderWasPaid, HoldersMayOrder,
        WorkersKnow, PayPhases, Phases, Holding, HoldPhases, AmountsAgree, MpChanges, mpVars,
        rowVars, storeVars, workVars
<1> QED
  BY <1>1, <1>2, <1>3, <1>4, <1>5, <1>6, <1>7, <1>8, <1>9, <1>10, TypePartsNext DEF PixInv

LEMMA PostLandsKeeps ==
  ASSUME PixInv, NEW p \in Payments, PostLands(p)
  PROVE  PixInv'
<1>0. MpTyped /\ RowsTyped /\ StoreTyped /\ WorkersTyped
  BY TypeParts DEF PixInv
<1>g. Grows(p)
  BY <1>0, NewOrderGrows DEF PostLands
<1>1. MpTyped'
  BY <1>0, <1>g, PixAssumption
    DEF MpTyped, WorkersTyped, MpStatuses, PostLands, Grows, mpVars, rowVars, storeVars,
        workVars
<1>2. RowsTyped'
  BY <1>0, <1>g, PixAssumption
    DEF RowsTyped, MpStatuses, Settlements, Errors, PostLands, Grows, mpVars, rowVars,
        storeVars, workVars
<1>3. StoreTyped'
  BY <1>0, <1>g, PixAssumption
    DEF StoreTyped, PostLands, Grows, mpVars, rowVars, storeVars, workVars
<1>4. WorkersTyped'
  BY <1>0, <1>g, PixAssumption
    DEF WorkersTyped, Phases, Kinds, MpStatuses, PostLands, Grows, mpVars, rowVars, storeVars,
        workVars
<1>5. WorkersKnow'
  BY <1>0, <1>g, ZeroIsNull, SMTT(20)
    DEF PixInv, MpTyped, RowsTyped, StoreTyped, WorkersTyped, WorkersKnow, PayPhases,
        EventPhases, Phases, PostLands, Grows, mpVars, rowVars, storeVars, workVars
<1>6. HoldersMayOrder'
  BY <1>0, <1>g, ZeroIsNull, SMTT(20)
    DEF PixInv, MpTyped, RowsTyped, StoreTyped, WorkersTyped, HoldersMayOrder, WorkersKnow,
        PayPhases, Phases, Holding, HoldPhases, AmountsAgree, PostLands, Grows, mpVars,
        rowVars, storeVars, workVars
<1>7. MarksMatch'
  BY <1>0, <1>g, ZeroIsNull, SMTT(20)
    DEF PixInv, MpTyped, RowsTyped, StoreTyped, WorkersTyped, MarksMatch, WorkersKnow,
        PayPhases, EventPhases, Phases, Matches, PostLands, Grows, mpVars, rowVars, storeVars,
        workVars
<1>8. ClaimHolds'
  BY <1>0, <1>g, ZeroIsNull, SMTT(20)
    DEF PixInv, MpTyped, RowsTyped, StoreTyped, WorkersTyped, ClaimHolds, WorkersKnow,
        PayPhases, Phases, Holding, HoldPhases, OrdersOf, PostLands, Grows, mpVars, rowVars,
        storeVars, workVars
<1>9. DuplicateNeedsCause'
  BY <1>0, <1>g, ZeroIsNull, SMTT(20)
    DEF PixInv, MpTyped, RowsTyped, StoreTyped, WorkersTyped, DuplicateNeedsCause, ClaimHolds,
        WorkersKnow, PayPhases, Phases, Holding, HoldPhases, OrdersOf, PostLands, Grows,
        mpVars, rowVars, storeVars, workVars
<1>10. OrderWasPaid'
  BY <1>0, <1>g, ZeroIsNull, SMTT(20)
    DEF PixInv, MpTyped, RowsTyped, StoreTyped, WorkersTyped, OrderWasPaid, HoldersMayOrder,
        WorkersKnow, PayPhases, Phases, Holding, HoldPhases, AmountsAgree, PostLands, Grows,
        mpVars, rowVars, storeVars, workVars
<1> QED
  BY <1>1, <1>2, <1>3, <1>4, <1>5, <1>6, <1>7, <1>8, <1>9, <1>10, TypePartsNext DEF PixInv

LEMMA GoesStaleKeeps ==
  ASSUME PixInv, NEW p \in Payments, GoesStale(p)
  PROVE  PixInv'
<1>0. MpTyped /\ RowsTyped /\ StoreTyped /\ WorkersTyped
  BY TypeParts DEF PixInv
<1>1. MpTyped'
  BY <1>0, PixAssumption
    DEF MpTyped, WorkersTyped, MpStatuses, GoesStale, mpVars, rowVars, storeVars, workVars
<1>2. RowsTyped'
  BY <1>0, PixAssumption
    DEF RowsTyped, MpStatuses, Settlements, Errors, GoesStale, mpVars, rowVars, storeVars,
        workVars
<1>3. StoreTyped'
  BY <1>0, PixAssumption DEF StoreTyped, GoesStale, mpVars, rowVars, storeVars, workVars
<1>4. WorkersTyped'
  BY <1>0, PixAssumption
    DEF WorkersTyped, Phases, Kinds, MpStatuses, GoesStale, mpVars, rowVars, storeVars,
        workVars
<1>5. WorkersKnow'
  BY <1>0, ZeroIsNull, SMTT(20)
    DEF PixInv, MpTyped, RowsTyped, StoreTyped, WorkersTyped, WorkersKnow, PayPhases,
        EventPhases, Phases, GoesStale, mpVars, rowVars, storeVars, workVars
<1>6. HoldersMayOrder'
  BY <1>0, ZeroIsNull, SMTT(20)
    DEF PixInv, MpTyped, RowsTyped, StoreTyped, WorkersTyped, HoldersMayOrder, WorkersKnow,
        PayPhases, Phases, Holding, HoldPhases, AmountsAgree, GoesStale, mpVars, rowVars,
        storeVars, workVars
<1>7. MarksMatch'
  BY <1>0, ZeroIsNull, SMTT(20)
    DEF PixInv, MpTyped, RowsTyped, StoreTyped, WorkersTyped, MarksMatch, WorkersKnow,
        PayPhases, EventPhases, Phases, Matches, GoesStale, mpVars, rowVars, storeVars,
        workVars
<1>8. ClaimHolds'
  BY <1>0, ZeroIsNull, SMTT(20)
    DEF PixInv, MpTyped, RowsTyped, StoreTyped, WorkersTyped, ClaimHolds, WorkersKnow,
        PayPhases, Phases, Holding, HoldPhases, OrdersOf, GoesStale, mpVars, rowVars,
        storeVars, workVars
<1>9. DuplicateNeedsCause'
  BY <1>0, ZeroIsNull, SMTT(20)
    DEF PixInv, MpTyped, RowsTyped, StoreTyped, WorkersTyped, DuplicateNeedsCause, ClaimHolds,
        WorkersKnow, PayPhases, Phases, Holding, HoldPhases, OrdersOf, GoesStale, mpVars,
        rowVars, storeVars, workVars
<1>10. OrderWasPaid'
  BY <1>0, ZeroIsNull, SMTT(20)
    DEF PixInv, MpTyped, RowsTyped, StoreTyped, WorkersTyped, OrderWasPaid, HoldersMayOrder,
        WorkersKnow, PayPhases, Phases, Holding, HoldPhases, AmountsAgree, GoesStale, mpVars,
        rowVars, storeVars, workVars
<1> QED
  BY <1>1, <1>2, <1>3, <1>4, <1>5, <1>6, <1>7, <1>8, <1>9, <1>10, TypePartsNext DEF PixInv

LEMMA WebhookKeeps ==
  ASSUME PixInv, NEW w \in Workers, NEW p \in Payments, Webhook(w, p)
  PROVE  PixInv'
<1>0. MpTyped /\ RowsTyped /\ StoreTyped /\ WorkersTyped
  BY TypeParts DEF PixInv
<1>1. MpTyped'
  BY <1>0, PixAssumption
    DEF MpTyped, WorkersTyped, MpStatuses, Webhook, Begin, Go, mpVars, rowVars, storeVars,
        workVars
<1>2. RowsTyped'
  BY <1>0, PixAssumption
    DEF RowsTyped, MpStatuses, Settlements, Errors, Webhook, Begin, Go, mpVars, rowVars,
        storeVars, workVars
<1>3. StoreTyped'
  BY <1>0, PixAssumption
    DEF StoreTyped, Webhook, Begin, Go, mpVars, rowVars, storeVars, workVars
<1>4. WorkersTyped'
  BY <1>0, BeginTyping DEF Webhook, Kinds, Phases
<1>5. WorkersKnow'
  BY <1>0, ZeroIsNull, SMTT(20)
    DEF PixInv, MpTyped, RowsTyped, StoreTyped, WorkersTyped, WorkersKnow, PayPhases,
        EventPhases, Phases, Webhook, Begin, Go, mpVars, rowVars, storeVars, workVars
<1>6. HoldersMayOrder'
  BY <1>0, ZeroIsNull, SMTT(20)
    DEF PixInv, MpTyped, RowsTyped, StoreTyped, WorkersTyped, HoldersMayOrder, WorkersKnow,
        PayPhases, Phases, Holding, HoldPhases, AmountsAgree, Webhook, Begin, Go, mpVars,
        rowVars, storeVars, workVars
<1>7. MarksMatch'
  BY <1>0, ZeroIsNull, SMTT(20)
    DEF PixInv, MpTyped, RowsTyped, StoreTyped, WorkersTyped, MarksMatch, WorkersKnow,
        PayPhases, EventPhases, Phases, Matches, Webhook, Begin, Go, mpVars, rowVars,
        storeVars, workVars
<1>8. ClaimHolds'
  BY <1>0, ZeroIsNull, SMTT(20)
    DEF PixInv, MpTyped, RowsTyped, StoreTyped, WorkersTyped, ClaimHolds, WorkersKnow,
        PayPhases, Phases, Holding, HoldPhases, OrdersOf, Webhook, Begin, Go, mpVars, rowVars,
        storeVars, workVars
<1>9. DuplicateNeedsCause'
  BY <1>0, ZeroIsNull, SMTT(20)
    DEF PixInv, MpTyped, RowsTyped, StoreTyped, WorkersTyped, DuplicateNeedsCause, ClaimHolds,
        WorkersKnow, PayPhases, Phases, Holding, HoldPhases, OrdersOf, Webhook, Begin, Go,
        mpVars, rowVars, storeVars, workVars
<1>10. OrderWasPaid'
  BY <1>0, ZeroIsNull, SMTT(20)
    DEF PixInv, MpTyped, RowsTyped, StoreTyped, WorkersTyped, OrderWasPaid, HoldersMayOrder,
        WorkersKnow, PayPhases, Phases, Holding, HoldPhases, AmountsAgree, Webhook, Begin, Go,
        mpVars, rowVars, storeVars, workVars
<1> QED
  BY <1>1, <1>2, <1>3, <1>4, <1>5, <1>6, <1>7, <1>8, <1>9, <1>10, TypePartsNext DEF PixInv

LEMMA AskKeeps ==
  ASSUME PixInv, NEW w \in Workers, NEW p \in Payments, NEW k \in Kinds, Ask(w, p, k)
  PROVE  PixInv'
<1>0. MpTyped /\ RowsTyped /\ StoreTyped /\ WorkersTyped
  BY TypeParts DEF PixInv
<1>1. MpTyped'
  BY <1>0, PixAssumption
    DEF MpTyped, WorkersTyped, MpStatuses, Ask, Begin, Go, mpVars, rowVars, storeVars,
        workVars
<1>2. RowsTyped'
  BY <1>0, PixAssumption
    DEF RowsTyped, MpStatuses, Settlements, Errors, Ask, Begin, Go, mpVars, rowVars,
        storeVars, workVars
<1>3. StoreTyped'
  BY <1>0, PixAssumption DEF StoreTyped, Ask, Begin, Go, mpVars, rowVars, storeVars, workVars
<1>4. WorkersTyped'
  BY <1>0, BeginTyping DEF Ask, Kinds, Phases
<1>5. WorkersKnow'
  BY <1>0, ZeroIsNull, SMTT(20)
    DEF PixInv, MpTyped, RowsTyped, StoreTyped, WorkersTyped, WorkersKnow, PayPhases,
        EventPhases, Phases, Ask, Begin, Go, mpVars, rowVars, storeVars, workVars
<1>6. HoldersMayOrder'
  BY <1>0, ZeroIsNull, SMTT(20)
    DEF PixInv, MpTyped, RowsTyped, StoreTyped, WorkersTyped, HoldersMayOrder, WorkersKnow,
        PayPhases, Phases, Holding, HoldPhases, AmountsAgree, Ask, Begin, Go, mpVars, rowVars,
        storeVars, workVars
<1>7. MarksMatch'
  BY <1>0, ZeroIsNull, SMTT(20)
    DEF PixInv, MpTyped, RowsTyped, StoreTyped, WorkersTyped, MarksMatch, WorkersKnow,
        PayPhases, EventPhases, Phases, Matches, Ask, Begin, Go, mpVars, rowVars, storeVars,
        workVars
<1>8. ClaimHolds'
  BY <1>0, ZeroIsNull, SMTT(20)
    DEF PixInv, MpTyped, RowsTyped, StoreTyped, WorkersTyped, ClaimHolds, WorkersKnow,
        PayPhases, Phases, Holding, HoldPhases, OrdersOf, Ask, Begin, Go, mpVars, rowVars,
        storeVars, workVars
<1>9. DuplicateNeedsCause'
  BY <1>0, ZeroIsNull, SMTT(20)
    DEF PixInv, MpTyped, RowsTyped, StoreTyped, WorkersTyped, DuplicateNeedsCause, ClaimHolds,
        WorkersKnow, PayPhases, Phases, Holding, HoldPhases, OrdersOf, Ask, Begin, Go, mpVars,
        rowVars, storeVars, workVars
<1>10. OrderWasPaid'
  BY <1>0, ZeroIsNull, SMTT(20)
    DEF PixInv, MpTyped, RowsTyped, StoreTyped, WorkersTyped, OrderWasPaid, HoldersMayOrder,
        WorkersKnow, PayPhases, Phases, Holding, HoldPhases, AmountsAgree, Ask, Begin, Go,
        mpVars, rowVars, storeVars, workVars
<1> QED
  BY <1>1, <1>2, <1>3, <1>4, <1>5, <1>6, <1>7, <1>8, <1>9, <1>10, TypePartsNext DEF PixInv

LEMMA ListRetryableKeeps ==
  ASSUME PixInv, NEW w \in Workers, ListRetryable(w)
  PROVE  PixInv'
<1>0. MpTyped /\ RowsTyped /\ StoreTyped /\ WorkersTyped
  BY TypeParts DEF PixInv
<1>1. MpTyped'
  BY <1>0, PixAssumption
    DEF MpTyped, WorkersTyped, MpStatuses, ListRetryable, Go, mpVars, rowVars, storeVars,
        workVars
<1>2. RowsTyped'
  BY <1>0, PixAssumption
    DEF RowsTyped, MpStatuses, Settlements, Errors, ListRetryable, Go, mpVars, rowVars,
        storeVars, workVars
<1>3. StoreTyped'
  BY <1>0, PixAssumption DEF StoreTyped, ListRetryable, Go, mpVars, rowVars, storeVars, workVars
<1>4. WorkersTyped'
  BY <1>0, PixAssumption
    DEF WorkersTyped, Phases, Kinds, MpStatuses, ListRetryable, Go, mpVars, rowVars,
        storeVars, workVars
<1>5. WorkersKnow'
  BY <1>0, ZeroIsNull, SMTT(20)
    DEF PixInv, MpTyped, RowsTyped, StoreTyped, WorkersTyped, WorkersKnow, PayPhases,
        EventPhases, Phases, ListRetryable, Go, mpVars, rowVars, storeVars, workVars
<1>6. HoldersMayOrder'
  BY <1>0, ZeroIsNull, SMTT(20)
    DEF PixInv, MpTyped, RowsTyped, StoreTyped, WorkersTyped, HoldersMayOrder, WorkersKnow,
        PayPhases, Phases, Holding, HoldPhases, AmountsAgree, ListRetryable, Go, mpVars,
        rowVars, storeVars, workVars
<1>7. MarksMatch'
  BY <1>0, ZeroIsNull, SMTT(20)
    DEF PixInv, MpTyped, RowsTyped, StoreTyped, WorkersTyped, MarksMatch, WorkersKnow,
        PayPhases, EventPhases, Phases, Matches, ListRetryable, Go, mpVars, rowVars,
        storeVars, workVars
<1>8. ClaimHolds'
  BY <1>0, ZeroIsNull, SMTT(20)
    DEF PixInv, MpTyped, RowsTyped, StoreTyped, WorkersTyped, ClaimHolds, WorkersKnow,
        PayPhases, Phases, Holding, HoldPhases, OrdersOf, ListRetryable, Go, mpVars, rowVars,
        storeVars, workVars
<1>9. DuplicateNeedsCause'
  BY <1>0, ZeroIsNull, SMTT(20)
    DEF PixInv, MpTyped, RowsTyped, StoreTyped, WorkersTyped, DuplicateNeedsCause, ClaimHolds,
        WorkersKnow, PayPhases, Phases, Holding, HoldPhases, OrdersOf, ListRetryable, Go,
        mpVars, rowVars, storeVars, workVars
<1>10. OrderWasPaid'
  BY <1>0, ZeroIsNull, SMTT(20)
    DEF PixInv, MpTyped, RowsTyped, StoreTyped, WorkersTyped, OrderWasPaid, HoldersMayOrder,
        WorkersKnow, PayPhases, Phases, Holding, HoldPhases, AmountsAgree, ListRetryable, Go,
        mpVars, rowVars, storeVars, workVars
<1> QED
  BY <1>1, <1>2, <1>3, <1>4, <1>5, <1>6, <1>7, <1>8, <1>9, <1>10, TypePartsNext DEF PixInv

LEMMA NextListedKeeps ==
  ASSUME PixInv, NEW w \in Workers, NextListed(w)
  PROVE  PixInv'
<1>0. MpTyped /\ RowsTyped /\ StoreTyped /\ WorkersTyped
  BY TypeParts DEF PixInv
<1>a. PICK item \in todo[w] :
        /\ todo' = [todo EXCEPT ![w] = @ \ {item}]
        /\ pay' = [pay EXCEPT ![w] = item[1]]
        /\ IF item[2] = "requeue" THEN Requeue(item[1])
                                  ELSE UNCHANGED <<settlement, error, stale, excused>>
  BY DEF NextListed
<1>b. item[1] \in Payments
  BY <1>0 DEF WorkersTyped
<1>c. RowsTyped' /\ Requeued(item[1])
  <2>1. CASE item[2] = "requeue"
    BY <1>0, <1>a, <1>b, <2>1, RequeueTyping DEF NextListed
  <2>2. CASE item[2] # "requeue"
    BY <1>0, <1>a, <2>2 DEF NextListed, RowsTyped, Requeued
  <2> QED
    BY <2>1, <2>2
<1>1. MpTyped'
  BY <1>0, <1>a, <1>b, <1>c, PixAssumption
    DEF MpTyped, WorkersTyped, MpStatuses, NextListed, Go, Requeued, mpVars, rowVars,
        storeVars, workVars
<1>2. RowsTyped'
  BY <1>c
<1>3. StoreTyped'
  BY <1>0, <1>a, <1>b, <1>c, PixAssumption
    DEF StoreTyped, NextListed, Go, Requeued, mpVars, rowVars, storeVars, workVars
<1>4. WorkersTyped'
  BY <1>0, <1>a, <1>b, <1>c, PixAssumption
    DEF WorkersTyped, Phases, Kinds, MpStatuses, NextListed, Go, Requeued, mpVars, rowVars,
        storeVars, workVars
<1>5. WorkersKnow'
  BY <1>0, <1>a, <1>b, <1>c, ZeroIsNull, SMTT(20)
    DEF PixInv, MpTyped, RowsTyped, StoreTyped, WorkersTyped, WorkersKnow, PayPhases,
        EventPhases, Phases, NextListed, Go, Requeued, mpVars, rowVars, storeVars, workVars
<1>6. HoldersMayOrder'
  BY <1>0, <1>a, <1>b, <1>c, ZeroIsNull, SMTT(20)
    DEF PixInv, MpTyped, RowsTyped, StoreTyped, WorkersTyped, HoldersMayOrder, WorkersKnow,
        PayPhases, Phases, Holding, HoldPhases, AmountsAgree, NextListed, Go, Requeued,
        mpVars, rowVars, storeVars, workVars
<1>7. MarksMatch'
  BY <1>0, <1>a, <1>b, <1>c, ZeroIsNull, SMTT(20)
    DEF PixInv, MpTyped, RowsTyped, StoreTyped, WorkersTyped, MarksMatch, WorkersKnow,
        PayPhases, EventPhases, Phases, Matches, NextListed, Go, Requeued, mpVars, rowVars,
        storeVars, workVars
<1>8. ClaimHolds'
  BY <1>0, <1>a, <1>b, <1>c, ZeroIsNull, SMTT(20)
    DEF PixInv, MpTyped, RowsTyped, StoreTyped, WorkersTyped, ClaimHolds, WorkersKnow,
        PayPhases, Phases, Holding, HoldPhases, OrdersOf, NextListed, Go, Requeued, mpVars,
        rowVars, storeVars, workVars
<1>9. DuplicateNeedsCause'
  BY <1>0, <1>a, <1>b, <1>c, ZeroIsNull, SMTT(20)
    DEF PixInv, MpTyped, RowsTyped, StoreTyped, WorkersTyped, DuplicateNeedsCause, ClaimHolds,
        WorkersKnow, PayPhases, Phases, Holding, HoldPhases, OrdersOf, NextListed, Go,
        Requeued, mpVars, rowVars, storeVars, workVars
<1>10. OrderWasPaid'
  BY <1>0, <1>a, <1>b, <1>c, ZeroIsNull, SMTT(20)
    DEF PixInv, MpTyped, RowsTyped, StoreTyped, WorkersTyped, OrderWasPaid, HoldersMayOrder,
        WorkersKnow, PayPhases, Phases, Holding, HoldPhases, AmountsAgree, NextListed, Go,
        Requeued, mpVars, rowVars, storeVars, workVars
<1> QED
  BY <1>1, <1>2, <1>3, <1>4, <1>5, <1>6, <1>7, <1>8, <1>9, <1>10, TypePartsNext DEF PixInv

LEMMA TakeEventKeeps ==
  ASSUME PixInv, NEW w \in Workers, NEW o \in OrderIds, TakeEvent(w, o)
  PROVE  PixInv'
<1>0. MpTyped /\ RowsTyped /\ StoreTyped /\ WorkersTyped
  BY TypeParts DEF PixInv
<1>1. MpTyped'
  BY <1>0, PixAssumption
    DEF MpTyped, WorkersTyped, MpStatuses, TakeEvent, Go, mpVars, rowVars, storeVars, workVars
<1>2. RowsTyped'
  BY <1>0, PixAssumption
    DEF RowsTyped, MpStatuses, Settlements, Errors, TakeEvent, Go, mpVars, rowVars, storeVars,
        workVars
<1>3. StoreTyped'
  BY <1>0, PixAssumption DEF StoreTyped, TakeEvent, Go, mpVars, rowVars, storeVars, workVars
<1>4. WorkersTyped'
  BY <1>0, PixAssumption
    DEF WorkersTyped, Phases, Kinds, MpStatuses, TakeEvent, Go, mpVars, rowVars, storeVars,
        workVars
<1>5. WorkersKnow'
  BY <1>0, ZeroIsNull, SMTT(20)
    DEF PixInv, MpTyped, RowsTyped, StoreTyped, WorkersTyped, WorkersKnow, PayPhases,
        EventPhases, Phases, TakeEvent, Go, mpVars, rowVars, storeVars, workVars
<1>6. HoldersMayOrder'
  BY <1>0, ZeroIsNull, SMTT(20)
    DEF PixInv, MpTyped, RowsTyped, StoreTyped, WorkersTyped, HoldersMayOrder, WorkersKnow,
        PayPhases, Phases, Holding, HoldPhases, AmountsAgree, TakeEvent, Go, mpVars, rowVars,
        storeVars, workVars
<1>7. MarksMatch'
  BY <1>0, ZeroIsNull, SMTT(20)
    DEF PixInv, MpTyped, RowsTyped, StoreTyped, WorkersTyped, MarksMatch, WorkersKnow,
        PayPhases, EventPhases, Phases, Matches, TakeEvent, Go, mpVars, rowVars, storeVars,
        workVars
<1>8. ClaimHolds'
  BY <1>0, ZeroIsNull, SMTT(20)
    DEF PixInv, MpTyped, RowsTyped, StoreTyped, WorkersTyped, ClaimHolds, WorkersKnow,
        PayPhases, Phases, Holding, HoldPhases, OrdersOf, TakeEvent, Go, mpVars, rowVars,
        storeVars, workVars
<1>9. DuplicateNeedsCause'
  BY <1>0, ZeroIsNull, SMTT(20)
    DEF PixInv, MpTyped, RowsTyped, StoreTyped, WorkersTyped, DuplicateNeedsCause, ClaimHolds,
        WorkersKnow, PayPhases, Phases, Holding, HoldPhases, OrdersOf, TakeEvent, Go, mpVars,
        rowVars, storeVars, workVars
<1>10. OrderWasPaid'
  BY <1>0, ZeroIsNull, SMTT(20)
    DEF PixInv, MpTyped, RowsTyped, StoreTyped, WorkersTyped, OrderWasPaid, HoldersMayOrder,
        WorkersKnow, PayPhases, Phases, Holding, HoldPhases, AmountsAgree, TakeEvent, Go,
        mpVars, rowVars, storeVars, workVars
<1> QED
  BY <1>1, <1>2, <1>3, <1>4, <1>5, <1>6, <1>7, <1>8, <1>9, <1>10, TypePartsNext DEF PixInv

LEMMA FetchKeeps ==
  ASSUME PixInv, NEW w \in Workers, Fetch(w)
  PROVE  PixInv'
<1>0. MpTyped /\ RowsTyped /\ StoreTyped /\ WorkersTyped
  BY TypeParts DEF PixInv
<1>a. pay[w] \in Payments
  BY <1>0 DEF PixInv, WorkersKnow, PayPhases, Phases, Fetch, WorkersTyped
<1>1. MpTyped'
  BY <1>0, <1>a, PixAssumption
    DEF MpTyped, WorkersTyped, MpStatuses, Fetch, Go, mpVars, rowVars, storeVars, workVars
<1>2. RowsTyped'
  BY <1>0, <1>a, PixAssumption
    DEF RowsTyped, MpStatuses, Settlements, Errors, Fetch, Go, mpVars, rowVars, storeVars,
        workVars
<1>3. StoreTyped'
  BY <1>0, <1>a, PixAssumption DEF StoreTyped, Fetch, Go, mpVars, rowVars, storeVars, workVars
<1>4. WorkersTyped'
  <2>1. mp[pay[w]] \in MpStatuses
    BY <1>0, <1>a DEF MpTyped
  <2> QED
    BY <1>0, <2>1 DEF Fetch, Go, WorkersTyped, Phases
<1>5. WorkersKnow'
  <2>1. mp[pay[w]] = "approved" => pay[w] \in approvedOnce
    BY <1>a DEF PixInv, HoldersMayOrder
  <2> QED
    BY <1>0, <1>a, <2>1 DEF PixInv, WorkersTyped, WorkersKnow, PayPhases, EventPhases, Phases,
         Fetch, Go, mpVars, storeVars
<1>6. HoldersMayOrder'
  BY <1>0, <1>a, ZeroIsNull, SMTT(20)
    DEF PixInv, MpTyped, RowsTyped, StoreTyped, WorkersTyped, HoldersMayOrder, WorkersKnow,
        PayPhases, Phases, Holding, HoldPhases, AmountsAgree, Fetch, Go, mpVars, rowVars,
        storeVars, workVars
<1>7. MarksMatch'
  BY <1>0, <1>a, ZeroIsNull, SMTT(20)
    DEF PixInv, MpTyped, RowsTyped, StoreTyped, WorkersTyped, MarksMatch, WorkersKnow,
        PayPhases, EventPhases, Phases, Matches, Fetch, Go, mpVars, rowVars, storeVars,
        workVars
<1>8. ClaimHolds'
  BY <1>0, <1>a, ZeroIsNull, SMTT(20)
    DEF PixInv, MpTyped, RowsTyped, StoreTyped, WorkersTyped, ClaimHolds, WorkersKnow,
        PayPhases, Phases, Holding, HoldPhases, OrdersOf, Fetch, Go, mpVars, rowVars,
        storeVars, workVars
<1>9. DuplicateNeedsCause'
  BY <1>0, <1>a, ZeroIsNull, SMTT(20)
    DEF PixInv, MpTyped, RowsTyped, StoreTyped, WorkersTyped, DuplicateNeedsCause, ClaimHolds,
        WorkersKnow, PayPhases, Phases, Holding, HoldPhases, OrdersOf, Fetch, Go, mpVars,
        rowVars, storeVars, workVars
<1>10. OrderWasPaid'
  BY <1>0, <1>a, ZeroIsNull, SMTT(20)
    DEF PixInv, MpTyped, RowsTyped, StoreTyped, WorkersTyped, OrderWasPaid, HoldersMayOrder,
        WorkersKnow, PayPhases, Phases, Holding, HoldPhases, AmountsAgree, Fetch, Go, mpVars,
        rowVars, storeVars, workVars
<1> QED
  BY <1>1, <1>2, <1>3, <1>4, <1>5, <1>6, <1>7, <1>8, <1>9, <1>10, TypePartsNext DEF PixInv

LEMMA ApplyKeeps ==
  ASSUME PixInv, NEW w \in Workers, Apply(w)
  PROVE  PixInv'
<1>0. MpTyped /\ RowsTyped /\ StoreTyped /\ WorkersTyped
  BY TypeParts DEF PixInv
<1>a. pay[w] \in Payments
  BY <1>0 DEF PixInv, WorkersKnow, PayPhases, Phases, Apply, WorkersTyped
<1>b. \A q \in Payments : settlement'[q] # settlement[q] => settlement[q] = "none" /\ settlement'[q] = "pending"
  BY <1>0, <1>a DEF Apply, RowsTyped
<1>1. MpTyped'
  BY <1>0, <1>a, <1>b, PixAssumption
    DEF MpTyped, WorkersTyped, MpStatuses, Apply, Go, Finish, mpVars, rowVars, storeVars,
        workVars
<1>2. RowsTyped'
  <2>1. status' \in [Payments -> MpStatuses]
    BY <1>0, <1>a DEF Apply, RowsTyped, WorkersTyped
  <2>2. settlement' \in [Payments -> Settlements]
    BY <1>0, <1>a DEF Apply, RowsTyped, Settlements
  <2> QED
    BY <1>0, <2>1, <2>2 DEF Apply, RowsTyped
<1>3. StoreTyped'
  BY <1>0, <1>a, <1>b, PixAssumption
    DEF StoreTyped, Apply, Go, Finish, mpVars, rowVars, storeVars, workVars
<1>4. WorkersTyped'
  <2>1. CASE payload[w] = "approved" /\ kind[w] # "poll"
    BY <1>0, <2>1, GoTyping DEF Apply, Phases
  <2>2. CASE ~(payload[w] = "approved" /\ kind[w] # "poll")
    BY <1>0, <2>2, FinishTyping DEF Apply
  <2> QED
    BY <2>1, <2>2
<1>5. WorkersKnow'
  BY <1>0, <1>a, <1>b, ZeroIsNull, SMTT(20)
    DEF PixInv, MpTyped, RowsTyped, StoreTyped, WorkersTyped, WorkersKnow, PayPhases,
        EventPhases, Phases, Apply, Go, Finish, mpVars, rowVars, storeVars, workVars
<1>6. HoldersMayOrder'
  BY <1>0, <1>a, <1>b, ZeroIsNull, SMTT(20)
    DEF PixInv, MpTyped, RowsTyped, StoreTyped, WorkersTyped, HoldersMayOrder, WorkersKnow,
        PayPhases, Phases, Holding, HoldPhases, AmountsAgree, Apply, Go, Finish, mpVars,
        rowVars, storeVars, workVars
<1>7. MarksMatch'
  BY <1>0, <1>a, <1>b, ZeroIsNull, SMTT(20)
    DEF PixInv, MpTyped, RowsTyped, StoreTyped, WorkersTyped, MarksMatch, WorkersKnow,
        PayPhases, EventPhases, Phases, Matches, Apply, Go, Finish, mpVars, rowVars,
        storeVars, workVars
<1>8. ClaimHolds'
  BY <1>0, <1>a, <1>b, ZeroIsNull, SMTT(20)
    DEF PixInv, MpTyped, RowsTyped, StoreTyped, WorkersTyped, ClaimHolds, WorkersKnow,
        PayPhases, Phases, Holding, HoldPhases, OrdersOf, Apply, Go, Finish, mpVars, rowVars,
        storeVars, workVars
<1>9. DuplicateNeedsCause'
  BY <1>0, <1>a, <1>b, ZeroIsNull, SMTT(20)
    DEF PixInv, MpTyped, RowsTyped, StoreTyped, WorkersTyped, DuplicateNeedsCause, ClaimHolds,
        WorkersKnow, PayPhases, Phases, Holding, HoldPhases, OrdersOf, Apply, Go, Finish,
        mpVars, rowVars, storeVars, workVars
<1>10. OrderWasPaid'
  BY <1>0, <1>a, <1>b, ZeroIsNull, SMTT(20)
    DEF PixInv, MpTyped, RowsTyped, StoreTyped, WorkersTyped, OrderWasPaid, HoldersMayOrder,
        WorkersKnow, PayPhases, Phases, Holding, HoldPhases, AmountsAgree, Apply, Go, Finish,
        mpVars, rowVars, storeVars, workVars
<1> QED
  BY <1>1, <1>2, <1>3, <1>4, <1>5, <1>6, <1>7, <1>8, <1>9, <1>10, TypePartsNext DEF PixInv

LEMMA ReadRowKeeps ==
  ASSUME PixInv, NEW w \in Workers, ReadRow(w)
  PROVE  PixInv'
<1>0. MpTyped /\ RowsTyped /\ StoreTyped /\ WorkersTyped
  BY TypeParts DEF PixInv
<1>1. MpTyped'
  BY <1>0, PixAssumption
    DEF MpTyped, WorkersTyped, MpStatuses, ReadRow, Go, Finish, mpVars, rowVars, storeVars,
        workVars
<1>2. RowsTyped'
  BY <1>0, PixAssumption
    DEF RowsTyped, MpStatuses, Settlements, Errors, ReadRow, Go, Finish, mpVars, rowVars,
        storeVars, workVars
<1>3. StoreTyped'
  BY <1>0, PixAssumption
    DEF StoreTyped, ReadRow, Go, Finish, mpVars, rowVars, storeVars, workVars
<1>4. WorkersTyped'
  <2>1. CASE Finish(w)
    BY <1>0, <2>1, FinishTyping
  <2>2. CASE ~Finish(w)
    BY <1>0, <2>2 DEF ReadRow, WorkersTyped, Go, Phases
  <2> QED
    BY <2>1, <2>2
<1>5. WorkersKnow'
  BY <1>0, ZeroIsNull, SMTT(20)
    DEF PixInv, MpTyped, RowsTyped, StoreTyped, WorkersTyped, WorkersKnow, PayPhases,
        EventPhases, Phases, ReadRow, Go, Finish, mpVars, rowVars, storeVars, workVars
<1>6. HoldersMayOrder'
  BY <1>0, ZeroIsNull, SMTT(20)
    DEF PixInv, MpTyped, RowsTyped, StoreTyped, WorkersTyped, HoldersMayOrder, WorkersKnow,
        PayPhases, Phases, Holding, HoldPhases, AmountsAgree, ReadRow, Go, Finish, mpVars,
        rowVars, storeVars, workVars
<1>7. MarksMatch'
  BY <1>0, ZeroIsNull, SMTT(20)
    DEF PixInv, MpTyped, RowsTyped, StoreTyped, WorkersTyped, MarksMatch, WorkersKnow,
        PayPhases, EventPhases, Phases, Matches, ReadRow, Go, Finish, mpVars, rowVars,
        storeVars, workVars
<1>8. ClaimHolds'
  BY <1>0, ZeroIsNull, SMTT(20)
    DEF PixInv, MpTyped, RowsTyped, StoreTyped, WorkersTyped, ClaimHolds, WorkersKnow,
        PayPhases, Phases, Holding, HoldPhases, OrdersOf, ReadRow, Go, Finish, mpVars,
        rowVars, storeVars, workVars
<1>9. DuplicateNeedsCause'
  BY <1>0, ZeroIsNull, SMTT(20)
    DEF PixInv, MpTyped, RowsTyped, StoreTyped, WorkersTyped, DuplicateNeedsCause, ClaimHolds,
        WorkersKnow, PayPhases, Phases, Holding, HoldPhases, OrdersOf, ReadRow, Go, Finish,
        mpVars, rowVars, storeVars, workVars
<1>10. OrderWasPaid'
  BY <1>0, ZeroIsNull, SMTT(20)
    DEF PixInv, MpTyped, RowsTyped, StoreTyped, WorkersTyped, OrderWasPaid, HoldersMayOrder,
        WorkersKnow, PayPhases, Phases, Holding, HoldPhases, AmountsAgree, ReadRow, Go,
        Finish, mpVars, rowVars, storeVars, workVars
<1> QED
  BY <1>1, <1>2, <1>3, <1>4, <1>5, <1>6, <1>7, <1>8, <1>9, <1>10, TypePartsNext DEF PixInv

LEMMA RequeueStaleKeeps ==
  ASSUME PixInv, NEW w \in Workers, RequeueStale(w)
  PROVE  PixInv'
<1>0. MpTyped /\ RowsTyped /\ StoreTyped /\ WorkersTyped
  BY TypeParts DEF PixInv
<1>a. pay[w] \in Payments
  BY <1>0 DEF PixInv, WorkersKnow, PayPhases, Phases, RequeueStale, WorkersTyped
<1>b. RowsTyped' /\ Requeued(pay[w])
  BY <1>0, <1>a, RequeueTyping DEF RequeueStale
<1>1. MpTyped'
  BY <1>0, <1>a, <1>b, PixAssumption
    DEF MpTyped, WorkersTyped, MpStatuses, RequeueStale, Go, Requeued, mpVars, rowVars,
        storeVars, workVars
<1>2. RowsTyped'
  BY <1>b
<1>3. StoreTyped'
  BY <1>0, <1>a, <1>b, PixAssumption
    DEF StoreTyped, RequeueStale, Go, Requeued, mpVars, rowVars, storeVars, workVars
<1>4. WorkersTyped'
  BY <1>0, <1>a, <1>b, PixAssumption
    DEF WorkersTyped, Phases, Kinds, MpStatuses, RequeueStale, Go, Requeued, mpVars, rowVars,
        storeVars, workVars
<1>5. WorkersKnow'
  BY <1>0, <1>a, <1>b, ZeroIsNull, SMTT(20)
    DEF PixInv, MpTyped, RowsTyped, StoreTyped, WorkersTyped, WorkersKnow, PayPhases,
        EventPhases, Phases, RequeueStale, Go, Requeued, mpVars, rowVars, storeVars, workVars
<1>6. HoldersMayOrder'
  BY <1>0, <1>a, <1>b, ZeroIsNull, SMTT(20)
    DEF PixInv, MpTyped, RowsTyped, StoreTyped, WorkersTyped, HoldersMayOrder, WorkersKnow,
        PayPhases, Phases, Holding, HoldPhases, AmountsAgree, RequeueStale, Go, Requeued,
        mpVars, rowVars, storeVars, workVars
<1>7. MarksMatch'
  BY <1>0, <1>a, <1>b, ZeroIsNull, SMTT(20)
    DEF PixInv, MpTyped, RowsTyped, StoreTyped, WorkersTyped, MarksMatch, WorkersKnow,
        PayPhases, EventPhases, Phases, Matches, RequeueStale, Go, Requeued, mpVars, rowVars,
        storeVars, workVars
<1>8. ClaimHolds'
  BY <1>0, <1>a, <1>b, ZeroIsNull, SMTT(20)
    DEF PixInv, MpTyped, RowsTyped, StoreTyped, WorkersTyped, ClaimHolds, WorkersKnow,
        PayPhases, Phases, Holding, HoldPhases, OrdersOf, RequeueStale, Go, Requeued, mpVars,
        rowVars, storeVars, workVars
<1>9. DuplicateNeedsCause'
  BY <1>0, <1>a, <1>b, ZeroIsNull, SMTT(20)
    DEF PixInv, MpTyped, RowsTyped, StoreTyped, WorkersTyped, DuplicateNeedsCause, ClaimHolds,
        WorkersKnow, PayPhases, Phases, Holding, HoldPhases, OrdersOf, RequeueStale, Go,
        Requeued, mpVars, rowVars, storeVars, workVars
<1>10. OrderWasPaid'
  BY <1>0, <1>a, <1>b, ZeroIsNull, SMTT(20)
    DEF PixInv, MpTyped, RowsTyped, StoreTyped, WorkersTyped, OrderWasPaid, HoldersMayOrder,
        WorkersKnow, PayPhases, Phases, Holding, HoldPhases, AmountsAgree, RequeueStale, Go,
        Requeued, mpVars, rowVars, storeVars, workVars
<1> QED
  BY <1>1, <1>2, <1>3, <1>4, <1>5, <1>6, <1>7, <1>8, <1>9, <1>10, TypePartsNext DEF PixInv

LEMMA DecideKeeps ==
  ASSUME PixInv, NEW w \in Workers, Decide(w)
  PROVE  PixInv'
<1>0. MpTyped /\ RowsTyped /\ StoreTyped /\ WorkersTyped
  BY TypeParts DEF PixInv
<1>a. pay[w] \in Payments
  BY <1>0 DEF PixInv, WorkersKnow, PayPhases, Phases, Decide, WorkersTyped
<1>1. MpTyped'
  BY <1>0, <1>a, PixAssumption
    DEF MpTyped, WorkersTyped, MpStatuses, Decide, Go, Finish, SetMark, KeptOrder, Claimable,
        mpVars, rowVars, storeVars, workVars
<1>2. RowsTyped'
  <2>1. CASE SetMark(pay[w], "failed", "fatal", 0) /\ excused' = excused
    BY <1>0, <1>a, <2>1, SetMarkTyping DEF Decide, Settlements, Errors
  <2>2. CASE settlement' = [settlement EXCEPT ![pay[w]] = "processing"] /\ orderId' = orderId
             /\ error' = [error EXCEPT ![pay[w]] = "none"] /\ stale' = [stale EXCEPT ![pay[w]] = FALSE]
    <3>1. Session[pay[w]] \in Sessions
      BY <1>a, PixAssumption
    <3>2. settlement' \in [Payments -> Settlements]
      BY <1>0, <2>2 DEF RowsTyped, Settlements
    <3>3. error' \in [Payments -> Errors] /\ stale' \in [Payments -> BOOLEAN]
      BY <1>0, <2>2 DEF RowsTyped, Errors
    <3>4. excused' \in SUBSET Sessions
      BY <1>0, <3>1 DEF RowsTyped, Decide
    <3> QED
      BY <1>0, <2>2, <3>2, <3>3, <3>4 DEF RowsTyped, Decide
  <2>3. CASE UNCHANGED <<settlement, error, orderId, stale, excused>>
    BY <1>0, <2>3 DEF RowsTyped, Decide
  <2> QED
    BY <2>1, <2>2, <2>3 DEF Decide
<1>3. StoreTyped'
  BY <1>0, <1>a, PixAssumption
    DEF StoreTyped, Decide, Go, Finish, SetMark, KeptOrder, Claimable, mpVars, rowVars,
        storeVars, workVars
<1>4. WorkersTyped'
  <2>1. CASE Finish(w)
    BY <1>0, <2>1, FinishTyping
  <2>2. CASE ~Finish(w)
    BY <1>0, <2>2 DEF Decide, WorkersTyped, Go, Phases
  <2> QED
    BY <2>1, <2>2
<1>5. WorkersKnow'
  BY <1>0, <1>a, ZeroIsNull, SMTT(20)
    DEF PixInv, MpTyped, RowsTyped, StoreTyped, WorkersTyped, WorkersKnow, PayPhases,
        EventPhases, Phases, Decide, Go, Finish, SetMark, KeptOrder, Claimable, mpVars,
        rowVars, storeVars, workVars
<1>6. HoldersMayOrder'
  BY <1>0, <1>a, ZeroIsNull, SMTT(20)
    DEF PixInv, MpTyped, RowsTyped, StoreTyped, WorkersTyped, HoldersMayOrder, WorkersKnow,
        PayPhases, Phases, Holding, HoldPhases, AmountsAgree, Decide, Go, Finish, SetMark,
        KeptOrder, Claimable, mpVars, rowVars, storeVars, workVars
<1>7. MarksMatch'
  BY <1>0, <1>a, ZeroIsNull, SMTT(20)
    DEF PixInv, MpTyped, RowsTyped, StoreTyped, WorkersTyped, MarksMatch, WorkersKnow,
        PayPhases, EventPhases, Phases, Matches, Decide, Go, Finish, SetMark, KeptOrder,
        Claimable, mpVars, rowVars, storeVars, workVars
<1>8. ClaimHolds'
  BY <1>0, <1>a, ZeroIsNull, SMTT(20)
    DEF PixInv, MpTyped, RowsTyped, StoreTyped, WorkersTyped, ClaimHolds, WorkersKnow,
        PayPhases, Phases, Holding, HoldPhases, OrdersOf, Decide, Go, Finish, SetMark,
        KeptOrder, Claimable, mpVars, rowVars, storeVars, workVars
<1>9. DuplicateNeedsCause'
  BY <1>0, <1>a, ZeroIsNull, SMTT(20)
    DEF PixInv, MpTyped, RowsTyped, StoreTyped, WorkersTyped, DuplicateNeedsCause, ClaimHolds,
        WorkersKnow, PayPhases, Phases, Holding, HoldPhases, OrdersOf, Decide, Go, Finish,
        SetMark, KeptOrder, Claimable, mpVars, rowVars, storeVars, workVars
<1>10. OrderWasPaid'
  BY <1>0, <1>a, ZeroIsNull, SMTT(20)
    DEF PixInv, MpTyped, RowsTyped, StoreTyped, WorkersTyped, OrderWasPaid, HoldersMayOrder,
        WorkersKnow, PayPhases, Phases, Holding, HoldPhases, AmountsAgree, Decide, Go, Finish,
        SetMark, KeptOrder, Claimable, mpVars, rowVars, storeVars, workVars
<1> QED
  BY <1>1, <1>2, <1>3, <1>4, <1>5, <1>6, <1>7, <1>8, <1>9, <1>10, TypePartsNext DEF PixInv

LEMMA LookupKeeps ==
  ASSUME PixInv, NEW w \in Workers, Lookup(w)
  PROVE  PixInv'
<1>0. MpTyped /\ RowsTyped /\ StoreTyped /\ WorkersTyped
  BY TypeParts DEF PixInv
<1>a. pay[w] \in Payments
  BY <1>0 DEF PixInv, WorkersKnow, PayPhases, Phases, Lookup, WorkersTyped
<1>1. MpTyped'
  BY <1>0, <1>a, PixAssumption
    DEF MpTyped, WorkersTyped, MpStatuses, Lookup, Go, OrdersOf, mpVars, rowVars, storeVars,
        workVars
<1>2. RowsTyped'
  BY <1>0, <1>a, PixAssumption
    DEF RowsTyped, MpStatuses, Settlements, Errors, Lookup, Go, OrdersOf, mpVars, rowVars,
        storeVars, workVars
<1>3. StoreTyped'
  BY <1>0, <1>a, PixAssumption
    DEF StoreTyped, Lookup, Go, OrdersOf, mpVars, rowVars, storeVars, workVars
<1>4. WorkersTyped'
  BY <1>0, <1>a, PixAssumption
    DEF WorkersTyped, Phases, Kinds, MpStatuses, Lookup, Go, OrdersOf, mpVars, rowVars,
        storeVars, workVars
<1>5. WorkersKnow'
  BY <1>0, <1>a, ZeroIsNull, SMTT(20)
    DEF PixInv, MpTyped, RowsTyped, StoreTyped, WorkersTyped, WorkersKnow, PayPhases,
        EventPhases, Phases, Lookup, Go, OrdersOf, mpVars, rowVars, storeVars, workVars
<1>6. HoldersMayOrder'
  BY <1>0, <1>a, ZeroIsNull, SMTT(20)
    DEF PixInv, MpTyped, RowsTyped, StoreTyped, WorkersTyped, HoldersMayOrder, WorkersKnow,
        PayPhases, Phases, Holding, HoldPhases, AmountsAgree, Lookup, Go, OrdersOf, mpVars,
        rowVars, storeVars, workVars
<1>7. MarksMatch'
  BY <1>0, <1>a, ZeroIsNull, SMTT(20)
    DEF PixInv, MpTyped, RowsTyped, StoreTyped, WorkersTyped, MarksMatch, WorkersKnow,
        PayPhases, EventPhases, Phases, Matches, Lookup, Go, OrdersOf, mpVars, rowVars,
        storeVars, workVars
<1>8. ClaimHolds'
  BY <1>0, <1>a, ZeroIsNull, SMTT(20)
    DEF PixInv, MpTyped, RowsTyped, StoreTyped, WorkersTyped, ClaimHolds, WorkersKnow,
        PayPhases, Phases, Holding, HoldPhases, OrdersOf, Lookup, Go, OrdersOf, mpVars,
        rowVars, storeVars, workVars
<1>9. DuplicateNeedsCause'
  BY <1>0, <1>a, ZeroIsNull, SMTT(20)
    DEF PixInv, MpTyped, RowsTyped, StoreTyped, WorkersTyped, DuplicateNeedsCause, ClaimHolds,
        WorkersKnow, PayPhases, Phases, Holding, HoldPhases, OrdersOf, Lookup, Go, OrdersOf,
        mpVars, rowVars, storeVars, workVars
<1>10. OrderWasPaid'
  BY <1>0, <1>a, ZeroIsNull, SMTT(20)
    DEF PixInv, MpTyped, RowsTyped, StoreTyped, WorkersTyped, OrderWasPaid, HoldersMayOrder,
        WorkersKnow, PayPhases, Phases, Holding, HoldPhases, AmountsAgree, Lookup, Go,
        OrdersOf, mpVars, rowVars, storeVars, workVars
<1> QED
  BY <1>1, <1>2, <1>3, <1>4, <1>5, <1>6, <1>7, <1>8, <1>9, <1>10, TypePartsNext DEF PixInv

LEMMA CreateKeeps ==
  ASSUME PixInv, NEW w \in Workers, Create(w)
  PROVE  PixInv'
<1>0. MpTyped /\ RowsTyped /\ StoreTyped /\ WorkersTyped
  BY TypeParts DEF PixInv
<1>a. pay[w] \in Payments
  BY <1>0 DEF PixInv, WorkersKnow, PayPhases, Phases, Create, WorkersTyped
<1>b. PICK o \in OrderIds : NewOrder(o, pay[w]) /\ found' = [found EXCEPT ![w] = o]
  BY DEF Create
<1>g. Grows(pay[w])
  BY <1>0, <1>a, <1>b, NewOrderGrows
<1>n. orders'[o] = pay[w] /\ orders[o] = 0
  BY <1>0, <1>b DEF NewOrder, StoreTyped
<1>1. MpTyped'
  BY <1>0, <1>a, <1>b, <1>g, <1>n, PixAssumption
    DEF MpTyped, WorkersTyped, MpStatuses, Create, Go, Grows, mpVars, rowVars, storeVars,
        workVars
<1>2. RowsTyped'
  BY <1>0, <1>a, <1>b, <1>g, <1>n, PixAssumption
    DEF RowsTyped, MpStatuses, Settlements, Errors, Create, Go, Grows, mpVars, rowVars,
        storeVars, workVars
<1>3. StoreTyped'
  BY <1>0, <1>a, <1>b, <1>g, <1>n, PixAssumption
    DEF StoreTyped, Create, Go, Grows, mpVars, rowVars, storeVars, workVars
<1>4. WorkersTyped'
  BY <1>0, <1>a, <1>b, <1>g, <1>n, PixAssumption
    DEF WorkersTyped, Phases, Kinds, MpStatuses, Create, Go, Grows, mpVars, rowVars,
        storeVars, workVars
<1>5. WorkersKnow'
  BY <1>0, <1>a, <1>b, <1>g, <1>n, ZeroIsNull, SMTT(20)
    DEF PixInv, MpTyped, RowsTyped, StoreTyped, WorkersTyped, WorkersKnow, PayPhases,
        EventPhases, Phases, Create, Go, Grows, mpVars, rowVars, storeVars, workVars
<1>6. HoldersMayOrder'
  BY <1>0, <1>a, <1>b, <1>g, <1>n, ZeroIsNull, SMTT(20)
    DEF PixInv, MpTyped, RowsTyped, StoreTyped, WorkersTyped, HoldersMayOrder, WorkersKnow,
        PayPhases, Phases, Holding, HoldPhases, AmountsAgree, Create, Go, Grows, mpVars,
        rowVars, storeVars, workVars
<1>7. MarksMatch'
  BY <1>0, <1>a, <1>b, <1>g, <1>n, ZeroIsNull, SMTT(20)
    DEF PixInv, MpTyped, RowsTyped, StoreTyped, WorkersTyped, MarksMatch, WorkersKnow,
        PayPhases, EventPhases, Phases, Matches, Create, Go, Grows, mpVars, rowVars,
        storeVars, workVars
<1>8. ClaimHolds'
  BY <1>0, <1>a, <1>b, <1>g, <1>n, ZeroIsNull, SMTT(20)
    DEF PixInv, MpTyped, RowsTyped, StoreTyped, WorkersTyped, ClaimHolds, WorkersKnow,
        PayPhases, Phases, Holding, HoldPhases, OrdersOf, Create, Go, Grows, mpVars, rowVars,
        storeVars, workVars
<1>9. DuplicateNeedsCause'
  BY <1>0, <1>a, <1>b, <1>g, <1>n, ZeroIsNull, SMTT(20)
    DEF PixInv, MpTyped, RowsTyped, StoreTyped, WorkersTyped, DuplicateNeedsCause, ClaimHolds,
        WorkersKnow, PayPhases, Phases, Holding, HoldPhases, OrdersOf, Create, Go, Grows,
        mpVars, rowVars, storeVars, workVars
<1>10. OrderWasPaid'
  BY <1>0, <1>a, <1>b, <1>g, <1>n, ZeroIsNull, SMTT(20)
    DEF PixInv, MpTyped, RowsTyped, StoreTyped, WorkersTyped, OrderWasPaid, HoldersMayOrder,
        WorkersKnow, PayPhases, Phases, Holding, HoldPhases, AmountsAgree, Create, Go, Grows,
        mpVars, rowVars, storeVars, workVars
<1> QED
  BY <1>1, <1>2, <1>3, <1>4, <1>5, <1>6, <1>7, <1>8, <1>9, <1>10, TypePartsNext DEF PixInv

LEMMA MarkKeeps ==
  ASSUME PixInv, NEW w \in Workers, Mark(w)
  PROVE  PixInv'
<1>0. MpTyped /\ RowsTyped /\ StoreTyped /\ WorkersTyped
  BY TypeParts DEF PixInv
<1>a. pay[w] \in Payments
  BY <1>0 DEF PixInv, WorkersKnow, PayPhases, Phases, Mark, WorkersTyped
<1>1. MpTyped'
  BY <1>0, <1>a, PixAssumption
    DEF MpTyped, WorkersTyped, MpStatuses, Mark, Finish, SetMark, KeptOrder, mpVars, rowVars,
        storeVars, workVars
<1>2. RowsTyped'
  BY <1>0, <1>a, SetMarkTyping DEF Mark, WorkersTyped, Settlements, Errors
<1>3. StoreTyped'
  BY <1>0, <1>a, PixAssumption
    DEF StoreTyped, Mark, Finish, SetMark, KeptOrder, mpVars, rowVars, storeVars, workVars
<1>4. WorkersTyped'
  BY <1>0, FinishTyping DEF Mark
<1>5. WorkersKnow'
  BY <1>0, <1>a, ZeroIsNull, SMTT(20)
    DEF PixInv, MpTyped, RowsTyped, StoreTyped, WorkersTyped, WorkersKnow, PayPhases,
        EventPhases, Phases, Mark, Finish, SetMark, KeptOrder, mpVars, rowVars, storeVars,
        workVars
<1>6. HoldersMayOrder'
  BY <1>0, <1>a, ZeroIsNull, SMTT(20)
    DEF PixInv, MpTyped, RowsTyped, StoreTyped, WorkersTyped, HoldersMayOrder, WorkersKnow,
        PayPhases, Phases, Holding, HoldPhases, AmountsAgree, Mark, Finish, SetMark,
        KeptOrder, mpVars, rowVars, storeVars, workVars
<1>7. MarksMatch'
  BY <1>0, <1>a, ZeroIsNull, SMTT(20)
    DEF PixInv, MpTyped, RowsTyped, StoreTyped, WorkersTyped, MarksMatch, WorkersKnow,
        PayPhases, EventPhases, Phases, Matches, Mark, Finish, SetMark, KeptOrder, mpVars,
        rowVars, storeVars, workVars
<1>8. ClaimHolds'
  BY <1>0, <1>a, ZeroIsNull, SMTT(20)
    DEF PixInv, MpTyped, RowsTyped, StoreTyped, WorkersTyped, ClaimHolds, WorkersKnow,
        PayPhases, Phases, Holding, HoldPhases, OrdersOf, Mark, Finish, SetMark, KeptOrder,
        mpVars, rowVars, storeVars, workVars
<1>9. DuplicateNeedsCause'
  BY <1>0, <1>a, ZeroIsNull, SMTT(20)
    DEF PixInv, MpTyped, RowsTyped, StoreTyped, WorkersTyped, DuplicateNeedsCause, ClaimHolds,
        WorkersKnow, PayPhases, Phases, Holding, HoldPhases, OrdersOf, Mark, Finish, SetMark,
        KeptOrder, mpVars, rowVars, storeVars, workVars
<1>10. OrderWasPaid'
  BY <1>0, <1>a, ZeroIsNull, SMTT(20)
    DEF PixInv, MpTyped, RowsTyped, StoreTyped, WorkersTyped, OrderWasPaid, HoldersMayOrder,
        WorkersKnow, PayPhases, Phases, Holding, HoldPhases, AmountsAgree, Mark, Finish,
        SetMark, KeptOrder, mpVars, rowVars, storeVars, workVars
<1> QED
  BY <1>1, <1>2, <1>3, <1>4, <1>5, <1>6, <1>7, <1>8, <1>9, <1>10, TypePartsNext DEF PixInv

LEMMA ReadOrderKeeps ==
  ASSUME PixInv, NEW w \in Workers, ReadOrder(w)
  PROVE  PixInv'
<1>0. MpTyped /\ RowsTyped /\ StoreTyped /\ WorkersTyped
  BY TypeParts DEF PixInv
<1>f. found[w] \in OrderIds
  BY <1>0 DEF PixInv, WorkersKnow, EventPhases, ReadOrder, WorkersTyped
<1>1. MpTyped'
  BY <1>0, <1>f, PixAssumption
    DEF MpTyped, WorkersTyped, MpStatuses, ReadOrder, Go, Finish, Acknowledge, PaymentOf,
        Retryable, mpVars, rowVars, storeVars, workVars
<1>2. RowsTyped'
  BY <1>0, <1>f, PixAssumption
    DEF RowsTyped, MpStatuses, Settlements, Errors, ReadOrder, Go, Finish, Acknowledge,
        PaymentOf, Retryable, mpVars, rowVars, storeVars, workVars
<1>3. StoreTyped'
  BY <1>0, <1>f DEF StoreTyped, ReadOrder, Acknowledge
<1>4. WorkersTyped'
  BY <1>0, <1>f, PixAssumption
    DEF WorkersTyped, Phases, Kinds, MpStatuses, ReadOrder, Go, Finish, Acknowledge,
        PaymentOf, Retryable, mpVars, rowVars, storeVars, workVars
<1>5. WorkersKnow'
  BY <1>0, <1>f, ZeroIsNull, SMTT(20)
    DEF PixInv, MpTyped, RowsTyped, StoreTyped, WorkersTyped, WorkersKnow, PayPhases,
        EventPhases, Phases, ReadOrder, Go, Finish, Acknowledge, PaymentOf, Retryable, mpVars,
        rowVars, storeVars, workVars
<1>6. HoldersMayOrder'
  BY <1>0, <1>f, ZeroIsNull, SMTT(20)
    DEF PixInv, MpTyped, RowsTyped, StoreTyped, WorkersTyped, HoldersMayOrder, WorkersKnow,
        PayPhases, Phases, Holding, HoldPhases, AmountsAgree, ReadOrder, Go, Finish,
        Acknowledge, PaymentOf, Retryable, mpVars, rowVars, storeVars, workVars
<1>7. MarksMatch'
  BY <1>0, <1>f, ZeroIsNull, SMTT(20)
    DEF PixInv, MpTyped, RowsTyped, StoreTyped, WorkersTyped, MarksMatch, WorkersKnow,
        PayPhases, EventPhases, Phases, Matches, ReadOrder, Go, Finish, Acknowledge,
        PaymentOf, Retryable, mpVars, rowVars, storeVars, workVars
<1>8. ClaimHolds'
  BY <1>0, <1>f, ZeroIsNull, SMTT(20)
    DEF PixInv, MpTyped, RowsTyped, StoreTyped, WorkersTyped, ClaimHolds, WorkersKnow,
        PayPhases, Phases, Holding, HoldPhases, OrdersOf, ReadOrder, Go, Finish, Acknowledge,
        PaymentOf, Retryable, mpVars, rowVars, storeVars, workVars
<1>9. DuplicateNeedsCause'
  BY <1>0, <1>f, ZeroIsNull, SMTT(20)
    DEF PixInv, MpTyped, RowsTyped, StoreTyped, WorkersTyped, DuplicateNeedsCause, ClaimHolds,
        WorkersKnow, PayPhases, Phases, Holding, HoldPhases, OrdersOf, ReadOrder, Go, Finish,
        Acknowledge, PaymentOf, Retryable, mpVars, rowVars, storeVars, workVars
<1>10. OrderWasPaid'
  BY <1>0, <1>f, ZeroIsNull, SMTT(20)
    DEF PixInv, MpTyped, RowsTyped, StoreTyped, WorkersTyped, OrderWasPaid, HoldersMayOrder,
        WorkersKnow, PayPhases, Phases, Holding, HoldPhases, AmountsAgree, ReadOrder, Go,
        Finish, Acknowledge, PaymentOf, Retryable, mpVars, rowVars, storeVars, workVars
<1> QED
  BY <1>1, <1>2, <1>3, <1>4, <1>5, <1>6, <1>7, <1>8, <1>9, <1>10, TypePartsNext DEF PixInv

LEMMA VerifyKeeps ==
  ASSUME PixInv, NEW w \in Workers, Verify(w)
  PROVE  PixInv'
<1>0. MpTyped /\ RowsTyped /\ StoreTyped /\ WorkersTyped
  BY TypeParts DEF PixInv
<1>1. MpTyped'
  BY <1>0, PixAssumption
    DEF MpTyped, WorkersTyped, MpStatuses, Verify, Go, Finish, mpVars, rowVars, storeVars,
        workVars
<1>2. RowsTyped'
  BY <1>0, PixAssumption
    DEF RowsTyped, MpStatuses, Settlements, Errors, Verify, Go, Finish, mpVars, rowVars,
        storeVars, workVars
<1>3. StoreTyped'
  BY <1>0, PixAssumption
    DEF StoreTyped, Verify, Go, Finish, mpVars, rowVars, storeVars, workVars
<1>4. WorkersTyped'
  BY <1>0, PixAssumption
    DEF WorkersTyped, Phases, Kinds, MpStatuses, Verify, Go, Finish, mpVars, rowVars,
        storeVars, workVars
<1>5. WorkersKnow'
  BY <1>0, ZeroIsNull, SMTT(20)
    DEF PixInv, MpTyped, RowsTyped, StoreTyped, WorkersTyped, WorkersKnow, PayPhases,
        EventPhases, Phases, Verify, Go, Finish, mpVars, rowVars, storeVars, workVars
<1>6. HoldersMayOrder'
  BY <1>0, ZeroIsNull, SMTT(20)
    DEF PixInv, MpTyped, RowsTyped, StoreTyped, WorkersTyped, HoldersMayOrder, WorkersKnow,
        PayPhases, Phases, Holding, HoldPhases, AmountsAgree, Verify, Go, Finish, mpVars,
        rowVars, storeVars, workVars
<1>7. MarksMatch'
  BY <1>0, ZeroIsNull, SMTT(20)
    DEF PixInv, MpTyped, RowsTyped, StoreTyped, WorkersTyped, MarksMatch, WorkersKnow,
        PayPhases, EventPhases, Phases, Matches, Verify, Go, Finish, mpVars, rowVars,
        storeVars, workVars
<1>8. ClaimHolds'
  BY <1>0, ZeroIsNull, SMTT(20)
    DEF PixInv, MpTyped, RowsTyped, StoreTyped, WorkersTyped, ClaimHolds, WorkersKnow,
        PayPhases, Phases, Holding, HoldPhases, OrdersOf, Verify, Go, Finish, mpVars, rowVars,
        storeVars, workVars
<1>9. DuplicateNeedsCause'
  BY <1>0, ZeroIsNull, SMTT(20)
    DEF PixInv, MpTyped, RowsTyped, StoreTyped, WorkersTyped, DuplicateNeedsCause, ClaimHolds,
        WorkersKnow, PayPhases, Phases, Holding, HoldPhases, OrdersOf, Verify, Go, Finish,
        mpVars, rowVars, storeVars, workVars
<1>10. OrderWasPaid'
  BY <1>0, ZeroIsNull, SMTT(20)
    DEF PixInv, MpTyped, RowsTyped, StoreTyped, WorkersTyped, OrderWasPaid, HoldersMayOrder,
        WorkersKnow, PayPhases, Phases, Holding, HoldPhases, AmountsAgree, Verify, Go, Finish,
        mpVars, rowVars, storeVars, workVars
<1> QED
  BY <1>1, <1>2, <1>3, <1>4, <1>5, <1>6, <1>7, <1>8, <1>9, <1>10, TypePartsNext DEF PixInv

LEMMA ConfirmKeeps ==
  ASSUME PixInv, NEW w \in Workers, Confirm(w)
  PROVE  PixInv'
<1>0. MpTyped /\ RowsTyped /\ StoreTyped /\ WorkersTyped
  BY TypeParts DEF PixInv
<1>f. found[w] \in OrderIds
  BY <1>0 DEF PixInv, WorkersKnow, EventPhases, Confirm, WorkersTyped
<1>a. pay[w] \in Payments
  BY <1>0 DEF PixInv, WorkersKnow, PayPhases, Phases, Confirm, WorkersTyped
<1>1. MpTyped'
  BY <1>0, <1>a, <1>f, PixAssumption
    DEF MpTyped, WorkersTyped, MpStatuses, Confirm, Finish, SetMark, KeptOrder, Acknowledge,
        mpVars, rowVars, storeVars, workVars
<1>2. RowsTyped'
  BY <1>0, <1>a, <1>f, SetMarkTyping DEF Confirm, Settlements, Errors
<1>3. StoreTyped'
  BY <1>0, <1>f DEF StoreTyped, Confirm, Acknowledge, storeVars
<1>4. WorkersTyped'
  BY <1>0, FinishTyping DEF Confirm
<1>5. WorkersKnow'
  BY <1>0, <1>a, <1>f, ZeroIsNull, SMTT(20)
    DEF PixInv, MpTyped, RowsTyped, StoreTyped, WorkersTyped, WorkersKnow, PayPhases,
        EventPhases, Phases, Confirm, Finish, SetMark, KeptOrder, Acknowledge, mpVars,
        rowVars, storeVars, workVars
<1>6. HoldersMayOrder'
  BY <1>0, <1>a, <1>f, ZeroIsNull, SMTT(20)
    DEF PixInv, MpTyped, RowsTyped, StoreTyped, WorkersTyped, HoldersMayOrder, WorkersKnow,
        PayPhases, Phases, Holding, HoldPhases, AmountsAgree, Confirm, Finish, SetMark,
        KeptOrder, Acknowledge, mpVars, rowVars, storeVars, workVars
<1>7. MarksMatch'
  <2>1. Matches(found[w], pay[w])
    BY DEF PixInv, MarksMatch, Confirm
  <2>2. /\ orderId' = [orderId EXCEPT ![pay[w]] = found[w]]
        /\ settlement' = [settlement EXCEPT ![pay[w]] = "completed"]
    BY <1>f, ZeroIsNull DEF Confirm, SetMark, KeptOrder
  <2>3. \A q \in Payments : settlement'[q] = "completed" => orderId'[q] # 0
    BY <1>0, <1>a, <1>f, <2>2, ZeroIsNull DEF PixInv, MarksMatch, RowsTyped
  <2>4. \A v \in Workers : (pc'[v] = "mark" /\ found'[v] # 0) \/ pc'[v] = "confirm" => Matches(found'[v], pay'[v])
    BY <1>0 DEF PixInv, MarksMatch, WorkersTyped, Confirm, Finish
  <2>5. orders' = orders
    BY DEF Confirm
  <2>6. ASSUME NEW v \in Workers, (pc[v] = "mark" /\ found[v] # 0)' \/ (pc[v] = "confirm")'
        PROVE  Matches(found[v], pay[v])'
    BY <2>4, <2>5, <2>6 DEF Matches
  <2>7. ASSUME NEW q \in Payments, orderId'[q] # 0
        PROVE  Matches(orderId[q], q)'
    <3>1. CASE q = pay[w]
      BY <1>0, <1>a, <2>1, <2>2, <2>5, <3>1 DEF Matches, RowsTyped
    <3>2. CASE q # pay[w]
      BY <1>0, <1>a, <2>2, <2>5, <2>7, <3>2 DEF PixInv, MarksMatch, Matches, RowsTyped
    <3> QED
      BY <3>1, <3>2
  <2> QED
    BY <2>3, <2>6, <2>7 DEF MarksMatch
<1>8. ClaimHolds'
  BY <1>0, <1>a, <1>f, ZeroIsNull, SMTT(20)
    DEF PixInv, MpTyped, RowsTyped, StoreTyped, WorkersTyped, ClaimHolds, WorkersKnow,
        PayPhases, Phases, Holding, HoldPhases, OrdersOf, Confirm, Finish, SetMark, KeptOrder,
        Acknowledge, mpVars, rowVars, storeVars, workVars
<1>9. DuplicateNeedsCause'
  BY <1>0, <1>a, <1>f, ZeroIsNull, SMTT(20)
    DEF PixInv, MpTyped, RowsTyped, StoreTyped, WorkersTyped, DuplicateNeedsCause, ClaimHolds,
        WorkersKnow, PayPhases, Phases, Holding, HoldPhases, OrdersOf, Confirm, Finish,
        SetMark, KeptOrder, Acknowledge, mpVars, rowVars, storeVars, workVars
<1>10. OrderWasPaid'
  BY <1>0, <1>a, <1>f, ZeroIsNull, SMTT(20)
    DEF PixInv, MpTyped, RowsTyped, StoreTyped, WorkersTyped, OrderWasPaid, HoldersMayOrder,
        WorkersKnow, PayPhases, Phases, Holding, HoldPhases, AmountsAgree, Confirm, Finish,
        SetMark, KeptOrder, Acknowledge, mpVars, rowVars, storeVars, workVars
<1> QED
  BY <1>1, <1>2, <1>3, <1>4, <1>5, <1>6, <1>7, <1>8, <1>9, <1>10, TypePartsNext DEF PixInv

LEMMA FetchFailsKeeps ==
  ASSUME PixInv, NEW w \in Workers, FetchFails(w)
  PROVE  PixInv'
<1>0. MpTyped /\ RowsTyped /\ StoreTyped /\ WorkersTyped
  BY TypeParts DEF PixInv
<1>a. pay[w] \in Payments
  BY <1>0 DEF PixInv, WorkersKnow, PayPhases, Phases, FetchFails, WorkersTyped
<1>1. MpTyped'
  BY <1>0, <1>a, PixAssumption
    DEF MpTyped, WorkersTyped, MpStatuses, FetchFails, Finish, KeepNotice, mpVars, rowVars,
        storeVars, workVars
<1>2. RowsTyped'
  BY <1>0, <1>a, PixAssumption
    DEF RowsTyped, MpStatuses, Settlements, Errors, FetchFails, Finish, KeepNotice, mpVars,
        rowVars, storeVars, workVars
<1>3. StoreTyped'
  BY <1>0, <1>a, PixAssumption
    DEF StoreTyped, FetchFails, Finish, KeepNotice, mpVars, rowVars, storeVars, workVars
<1>4. WorkersTyped'
  BY <1>0, FinishTyping DEF FetchFails
<1>5. WorkersKnow'
  BY <1>0, <1>a, ZeroIsNull, SMTT(20)
    DEF PixInv, MpTyped, RowsTyped, StoreTyped, WorkersTyped, WorkersKnow, PayPhases,
        EventPhases, Phases, FetchFails, Finish, KeepNotice, mpVars, rowVars, storeVars,
        workVars
<1>6. HoldersMayOrder'
  BY <1>0, <1>a, ZeroIsNull, SMTT(20)
    DEF PixInv, MpTyped, RowsTyped, StoreTyped, WorkersTyped, HoldersMayOrder, WorkersKnow,
        PayPhases, Phases, Holding, HoldPhases, AmountsAgree, FetchFails, Finish, KeepNotice,
        mpVars, rowVars, storeVars, workVars
<1>7. MarksMatch'
  BY <1>0, <1>a, ZeroIsNull, SMTT(20)
    DEF PixInv, MpTyped, RowsTyped, StoreTyped, WorkersTyped, MarksMatch, WorkersKnow,
        PayPhases, EventPhases, Phases, Matches, FetchFails, Finish, KeepNotice, mpVars,
        rowVars, storeVars, workVars
<1>8. ClaimHolds'
  BY <1>0, <1>a, ZeroIsNull, SMTT(20)
    DEF PixInv, MpTyped, RowsTyped, StoreTyped, WorkersTyped, ClaimHolds, WorkersKnow,
        PayPhases, Phases, Holding, HoldPhases, OrdersOf, FetchFails, Finish, KeepNotice,
        mpVars, rowVars, storeVars, workVars
<1>9. DuplicateNeedsCause'
  BY <1>0, <1>a, ZeroIsNull, SMTT(20)
    DEF PixInv, MpTyped, RowsTyped, StoreTyped, WorkersTyped, DuplicateNeedsCause, ClaimHolds,
        WorkersKnow, PayPhases, Phases, Holding, HoldPhases, OrdersOf, FetchFails, Finish,
        KeepNotice, mpVars, rowVars, storeVars, workVars
<1>10. OrderWasPaid'
  BY <1>0, <1>a, ZeroIsNull, SMTT(20)
    DEF PixInv, MpTyped, RowsTyped, StoreTyped, WorkersTyped, OrderWasPaid, HoldersMayOrder,
        WorkersKnow, PayPhases, Phases, Holding, HoldPhases, AmountsAgree, FetchFails, Finish,
        KeepNotice, mpVars, rowVars, storeVars, workVars
<1> QED
  BY <1>1, <1>2, <1>3, <1>4, <1>5, <1>6, <1>7, <1>8, <1>9, <1>10, TypePartsNext DEF PixInv

LEMMA LookupFailsKeeps ==
  ASSUME PixInv, NEW w \in Workers, LookupFails(w)
  PROVE  PixInv'
<1>0. MpTyped /\ RowsTyped /\ StoreTyped /\ WorkersTyped
  BY TypeParts DEF PixInv
<1>1. MpTyped'
  BY <1>0, PixAssumption
    DEF MpTyped, WorkersTyped, MpStatuses, LookupFails, Go, mpVars, rowVars, storeVars,
        workVars
<1>2. RowsTyped'
  BY <1>0, PixAssumption
    DEF RowsTyped, MpStatuses, Settlements, Errors, LookupFails, Go, mpVars, rowVars,
        storeVars, workVars
<1>3. StoreTyped'
  BY <1>0, PixAssumption DEF StoreTyped, LookupFails, Go, mpVars, rowVars, storeVars, workVars
<1>4. WorkersTyped'
  BY <1>0, PixAssumption
    DEF WorkersTyped, Phases, Kinds, MpStatuses, LookupFails, Go, mpVars, rowVars, storeVars,
        workVars
<1>5. WorkersKnow'
  BY <1>0, ZeroIsNull, SMTT(20)
    DEF PixInv, MpTyped, RowsTyped, StoreTyped, WorkersTyped, WorkersKnow, PayPhases,
        EventPhases, Phases, LookupFails, Go, mpVars, rowVars, storeVars, workVars
<1>6. HoldersMayOrder'
  BY <1>0, ZeroIsNull, SMTT(20)
    DEF PixInv, MpTyped, RowsTyped, StoreTyped, WorkersTyped, HoldersMayOrder, WorkersKnow,
        PayPhases, Phases, Holding, HoldPhases, AmountsAgree, LookupFails, Go, mpVars,
        rowVars, storeVars, workVars
<1>7. MarksMatch'
  BY <1>0, ZeroIsNull, SMTT(20)
    DEF PixInv, MpTyped, RowsTyped, StoreTyped, WorkersTyped, MarksMatch, WorkersKnow,
        PayPhases, EventPhases, Phases, Matches, LookupFails, Go, mpVars, rowVars, storeVars,
        workVars
<1>8. ClaimHolds'
  BY <1>0, ZeroIsNull, SMTT(20)
    DEF PixInv, MpTyped, RowsTyped, StoreTyped, WorkersTyped, ClaimHolds, WorkersKnow,
        PayPhases, Phases, Holding, HoldPhases, OrdersOf, LookupFails, Go, mpVars, rowVars,
        storeVars, workVars
<1>9. DuplicateNeedsCause'
  BY <1>0, ZeroIsNull, SMTT(20)
    DEF PixInv, MpTyped, RowsTyped, StoreTyped, WorkersTyped, DuplicateNeedsCause, ClaimHolds,
        WorkersKnow, PayPhases, Phases, Holding, HoldPhases, OrdersOf, LookupFails, Go,
        mpVars, rowVars, storeVars, workVars
<1>10. OrderWasPaid'
  BY <1>0, ZeroIsNull, SMTT(20)
    DEF PixInv, MpTyped, RowsTyped, StoreTyped, WorkersTyped, OrderWasPaid, HoldersMayOrder,
        WorkersKnow, PayPhases, Phases, Holding, HoldPhases, AmountsAgree, LookupFails, Go,
        mpVars, rowVars, storeVars, workVars
<1> QED
  BY <1>1, <1>2, <1>3, <1>4, <1>5, <1>6, <1>7, <1>8, <1>9, <1>10, TypePartsNext DEF PixInv

LEMMA CreateFailsKeeps ==
  ASSUME PixInv, NEW w \in Workers, CreateFails(w)
  PROVE  PixInv'
<1>0. MpTyped /\ RowsTyped /\ StoreTyped /\ WorkersTyped
  BY TypeParts DEF PixInv
<1>a. pay[w] \in Payments
  BY <1>0 DEF PixInv, WorkersKnow, PayPhases, Phases, CreateFails, WorkersTyped
<1>g. Grows(pay[w]) /\ late' \in SUBSET Payments /\ late' \subseteq late \cup {pay[w]}
  BY <1>0, <1>a, PostGrows DEF CreateFails
<1>1. MpTyped'
  BY <1>0, <1>a, <1>g, PixAssumption
    DEF MpTyped, WorkersTyped, MpStatuses, CreateFails, Go, Grows, mpVars, rowVars, storeVars,
        workVars
<1>2. RowsTyped'
  BY <1>0, <1>a, <1>g, PixAssumption
    DEF RowsTyped, MpStatuses, Settlements, Errors, CreateFails, Go, Grows, mpVars, rowVars,
        storeVars, workVars
<1>3. StoreTyped'
  BY <1>0, <1>a, <1>g, PixAssumption
    DEF StoreTyped, CreateFails, Go, Grows, mpVars, rowVars, storeVars, workVars
<1>4. WorkersTyped'
  BY <1>0, <1>a, <1>g, PixAssumption
    DEF WorkersTyped, Phases, Kinds, MpStatuses, CreateFails, Go, Grows, mpVars, rowVars,
        storeVars, workVars
<1>5. WorkersKnow'
  BY <1>0, <1>a, <1>g, ZeroIsNull, SMTT(20)
    DEF PixInv, MpTyped, RowsTyped, StoreTyped, WorkersTyped, WorkersKnow, PayPhases,
        EventPhases, Phases, CreateFails, Go, Grows, mpVars, rowVars, storeVars, workVars
<1>6. HoldersMayOrder'
  BY <1>0, <1>a, <1>g, ZeroIsNull, SMTT(20)
    DEF PixInv, MpTyped, RowsTyped, StoreTyped, WorkersTyped, HoldersMayOrder, WorkersKnow,
        PayPhases, Phases, Holding, HoldPhases, AmountsAgree, CreateFails, Go, Grows, mpVars,
        rowVars, storeVars, workVars
<1>7. MarksMatch'
  BY <1>0, <1>a, <1>g, ZeroIsNull, SMTT(20)
    DEF PixInv, MpTyped, RowsTyped, StoreTyped, WorkersTyped, MarksMatch, WorkersKnow,
        PayPhases, EventPhases, Phases, Matches, CreateFails, Go, Grows, mpVars, rowVars,
        storeVars, workVars
<1>8. ClaimHolds'
  BY <1>0, <1>a, <1>g, ZeroIsNull, SMTT(20)
    DEF PixInv, MpTyped, RowsTyped, StoreTyped, WorkersTyped, ClaimHolds, WorkersKnow,
        PayPhases, Phases, Holding, HoldPhases, OrdersOf, CreateFails, Go, Grows, mpVars,
        rowVars, storeVars, workVars
<1>9. DuplicateNeedsCause'
  BY <1>0, <1>a, <1>g, ZeroIsNull, SMTT(20)
    DEF PixInv, MpTyped, RowsTyped, StoreTyped, WorkersTyped, DuplicateNeedsCause, ClaimHolds,
        WorkersKnow, PayPhases, Phases, Holding, HoldPhases, OrdersOf, CreateFails, Go, Grows,
        mpVars, rowVars, storeVars, workVars
<1>10. OrderWasPaid'
  BY <1>0, <1>a, <1>g, ZeroIsNull, SMTT(20)
    DEF PixInv, MpTyped, RowsTyped, StoreTyped, WorkersTyped, OrderWasPaid, HoldersMayOrder,
        WorkersKnow, PayPhases, Phases, Holding, HoldPhases, AmountsAgree, CreateFails, Go,
        Grows, mpVars, rowVars, storeVars, workVars
<1> QED
  BY <1>1, <1>2, <1>3, <1>4, <1>5, <1>6, <1>7, <1>8, <1>9, <1>10, TypePartsNext DEF PixInv

LEMMA EventFailsKeeps ==
  ASSUME PixInv, NEW w \in Workers, EventFails(w)
  PROVE  PixInv'
<1>0. MpTyped /\ RowsTyped /\ StoreTyped /\ WorkersTyped
  BY TypeParts DEF PixInv
<1>1. MpTyped'
  BY <1>0, PixAssumption
    DEF MpTyped, WorkersTyped, MpStatuses, EventFails, Finish, mpVars, rowVars, storeVars,
        workVars
<1>2. RowsTyped'
  BY <1>0, PixAssumption
    DEF RowsTyped, MpStatuses, Settlements, Errors, EventFails, Finish, mpVars, rowVars,
        storeVars, workVars
<1>3. StoreTyped'
  BY <1>0, PixAssumption
    DEF StoreTyped, EventFails, Finish, mpVars, rowVars, storeVars, workVars
<1>4. WorkersTyped'
  BY <1>0, FinishTyping DEF EventFails
<1>5. WorkersKnow'
  BY <1>0, ZeroIsNull, SMTT(20)
    DEF PixInv, MpTyped, RowsTyped, StoreTyped, WorkersTyped, WorkersKnow, PayPhases,
        EventPhases, Phases, EventFails, Finish, mpVars, rowVars, storeVars, workVars
<1>6. HoldersMayOrder'
  BY <1>0, ZeroIsNull, SMTT(20)
    DEF PixInv, MpTyped, RowsTyped, StoreTyped, WorkersTyped, HoldersMayOrder, WorkersKnow,
        PayPhases, Phases, Holding, HoldPhases, AmountsAgree, EventFails, Finish, mpVars,
        rowVars, storeVars, workVars
<1>7. MarksMatch'
  BY <1>0, ZeroIsNull, SMTT(20)
    DEF PixInv, MpTyped, RowsTyped, StoreTyped, WorkersTyped, MarksMatch, WorkersKnow,
        PayPhases, EventPhases, Phases, Matches, EventFails, Finish, mpVars, rowVars,
        storeVars, workVars
<1>8. ClaimHolds'
  BY <1>0, ZeroIsNull, SMTT(20)
    DEF PixInv, MpTyped, RowsTyped, StoreTyped, WorkersTyped, ClaimHolds, WorkersKnow,
        PayPhases, Phases, Holding, HoldPhases, OrdersOf, EventFails, Finish, mpVars, rowVars,
        storeVars, workVars
<1>9. DuplicateNeedsCause'
  BY <1>0, ZeroIsNull, SMTT(20)
    DEF PixInv, MpTyped, RowsTyped, StoreTyped, WorkersTyped, DuplicateNeedsCause, ClaimHolds,
        WorkersKnow, PayPhases, Phases, Holding, HoldPhases, OrdersOf, EventFails, Finish,
        mpVars, rowVars, storeVars, workVars
<1>10. OrderWasPaid'
  BY <1>0, ZeroIsNull, SMTT(20)
    DEF PixInv, MpTyped, RowsTyped, StoreTyped, WorkersTyped, OrderWasPaid, HoldersMayOrder,
        WorkersKnow, PayPhases, Phases, Holding, HoldPhases, AmountsAgree, EventFails, Finish,
        mpVars, rowVars, storeVars, workVars
<1> QED
  BY <1>1, <1>2, <1>3, <1>4, <1>5, <1>6, <1>7, <1>8, <1>9, <1>10, TypePartsNext DEF PixInv

LEMMA CrashKeeps ==
  ASSUME PixInv, NEW w \in Workers, Crash(w)
  PROVE  PixInv'
<1>0. MpTyped /\ RowsTyped /\ StoreTyped /\ WorkersTyped
  BY TypeParts DEF PixInv
<1>g. /\ late' \in SUBSET Payments
      /\ \/ /\ pc[w] = "create" /\ pay[w] \in Payments
            /\ Grows(pay[w]) /\ late' \subseteq late \cup {pay[w]}
         \/ UNCHANGED <<orders, late>>
  <2>1. CASE pc[w] = "create"
    <3>1. pay[w] \in Payments
      BY <1>0, <2>1 DEF PixInv, WorkersKnow, PayPhases, Phases, WorkersTyped
    <3> QED
      BY <1>0, <2>1, <3>1, PostGrows DEF Crash
  <2>2. CASE pc[w] # "create"
    BY <1>0, <2>2 DEF Crash, StoreTyped
  <2> QED
    BY <2>1, <2>2
<1>1. MpTyped'
  <2>1. kind[w] = "webhook" => pay[w] \in Payments
    BY <1>0 DEF PixInv, WorkersKnow, WorkersTyped
  <2> QED
    BY <1>0, <2>1 DEF MpTyped, Crash, KeepNotice
<1>2. RowsTyped'
  BY <1>0, <1>g, PixAssumption
    DEF RowsTyped, MpStatuses, Settlements, Errors, Crash, Grows, KeepNotice, mpVars, rowVars,
        storeVars, workVars
<1>3. StoreTyped'
  BY <1>0, <1>g, PixAssumption
    DEF StoreTyped, Crash, Grows, KeepNotice, mpVars, rowVars, storeVars, workVars
<1>4. WorkersTyped'
  BY <1>0, <1>g, PixAssumption
    DEF WorkersTyped, Phases, Kinds, MpStatuses, Crash, Grows, KeepNotice, mpVars, rowVars,
        storeVars, workVars
<1>5. WorkersKnow'
  BY <1>0, <1>g, ZeroIsNull, SMTT(20)
    DEF PixInv, MpTyped, RowsTyped, StoreTyped, WorkersTyped, WorkersKnow, PayPhases,
        EventPhases, Phases, Crash, Grows, KeepNotice, mpVars, rowVars, storeVars, workVars
<1>6. HoldersMayOrder'
  BY <1>0, <1>g, ZeroIsNull, SMTT(20)
    DEF PixInv, MpTyped, RowsTyped, StoreTyped, WorkersTyped, HoldersMayOrder, WorkersKnow,
        PayPhases, Phases, Holding, HoldPhases, AmountsAgree, Crash, Grows, KeepNotice,
        mpVars, rowVars, storeVars, workVars
<1>7. MarksMatch'
  BY <1>0, <1>g, ZeroIsNull, SMTT(20)
    DEF PixInv, MpTyped, RowsTyped, StoreTyped, WorkersTyped, MarksMatch, WorkersKnow,
        PayPhases, EventPhases, Phases, Matches, Crash, Grows, KeepNotice, mpVars, rowVars,
        storeVars, workVars
<1>8. ClaimHolds'
  BY <1>0, <1>g, ZeroIsNull, SMTT(20)
    DEF PixInv, MpTyped, RowsTyped, StoreTyped, WorkersTyped, ClaimHolds, WorkersKnow,
        PayPhases, Phases, Holding, HoldPhases, OrdersOf, Crash, Grows, KeepNotice, mpVars,
        rowVars, storeVars, workVars
<1>9. DuplicateNeedsCause'
  BY <1>0, <1>g, ZeroIsNull, SMTT(20)
    DEF PixInv, MpTyped, RowsTyped, StoreTyped, WorkersTyped, DuplicateNeedsCause, ClaimHolds,
        WorkersKnow, PayPhases, Phases, Holding, HoldPhases, OrdersOf, Crash, Grows,
        KeepNotice, mpVars, rowVars, storeVars, workVars
<1>10. OrderWasPaid'
  BY <1>0, <1>g, ZeroIsNull, SMTT(20)
    DEF PixInv, MpTyped, RowsTyped, StoreTyped, WorkersTyped, OrderWasPaid, HoldersMayOrder,
        WorkersKnow, PayPhases, Phases, Holding, HoldPhases, AmountsAgree, Crash, Grows,
        KeepNotice, mpVars, rowVars, storeVars, workVars
<1> QED
  BY <1>1, <1>2, <1>3, <1>4, <1>5, <1>6, <1>7, <1>8, <1>9, <1>10, TypePartsNext DEF PixInv

LEMMA StutterKeeps ==
  ASSUME PixInv, UNCHANGED vars
  PROVE  PixInv'
<1>1. TypeOK'
  BY DEF PixInv, TypeOK, vars, mpVars, rowVars, storeVars, workVars
<1>2. WorkersKnow'
  BY DEF PixInv, WorkersKnow, vars, mpVars, rowVars, storeVars, workVars
<1>3. HoldersMayOrder'
  BY
    DEF PixInv, HoldersMayOrder, Holding, AmountsAgree, vars, mpVars, rowVars, storeVars,
        workVars
<1>4. MarksMatch'
  BY DEF PixInv, MarksMatch, Matches, vars, mpVars, rowVars, storeVars, workVars
<1>5. ClaimHolds'
  BY DEF PixInv, ClaimHolds, Holding, OrdersOf, vars, mpVars, rowVars, storeVars, workVars
<1>6. (DuplicateNeedsCause /\ OrderWasPaid)'
  BY DEF PixInv, DuplicateNeedsCause, OrderWasPaid, vars, mpVars, rowVars, storeVars, workVars
<1> QED
  BY <1>1, <1>2, <1>3, <1>4, <1>5, <1>6 DEF PixInv

LEMMA InitInv == Init => PixInv
<1> SUFFICES ASSUME Init PROVE PixInv
  OBVIOUS
<1>a. charged \in [Payments -> Nat]
  BY PixAssumption DEF Init
<1>b. MpTyped
  BY <1>a DEF Init, MpTyped, MpStatuses
<1>c. RowsTyped /\ StoreTyped /\ WorkersTyped
  BY PixAssumption DEF Init, RowsTyped, StoreTyped, WorkersTyped, MpStatuses, Settlements,
     Errors, Phases, Kinds
<1>1. MpTyped /\ RowsTyped /\ StoreTyped /\ WorkersTyped
  BY <1>b, <1>c
<1>2. WorkersKnow /\ HoldersMayOrder /\ MarksMatch /\ ClaimHolds
  BY DEF Init, WorkersKnow, PayPhases, EventPhases, HoldersMayOrder, Holding, HoldPhases,
     MarksMatch, ClaimHolds
<1>3. DuplicateNeedsCause /\ OrderWasPaid
  BY DEF Init, DuplicateNeedsCause, OrderWasPaid
<1> QED
  BY <1>1, <1>2, <1>3, TypeParts DEF PixInv

LEMMA NextInv == PixInv /\ [Next]_vars => PixInv'
<1> SUFFICES ASSUME PixInv, [Next]_vars PROVE PixInv'
  OBVIOUS
<1>1. CASE UNCHANGED vars
  BY <1>1, StutterKeeps
<1>2. CASE OutsideStep
  BY <1>2, CreateAtMpKeeps, PersistKeeps, PostLandsKeeps, GoesStaleKeeps, MpChangesKeeps
    DEF OutsideStep
<1>3. ASSUME NEW w \in Workers, StartStep(w) PROVE PixInv'
  BY <1>3, WebhookKeeps, AskKeeps, ListRetryableKeeps, NextListedKeeps, TakeEventKeeps
    DEF StartStep
<1>4. ASSUME NEW w \in Workers, SettleStep(w) PROVE PixInv'
  BY <1>4, FetchKeeps, ApplyKeeps, ReadRowKeeps, RequeueStaleKeeps, DecideKeeps, LookupKeeps,
     CreateKeeps, MarkKeeps DEF SettleStep
<1>5. ASSUME NEW w \in Workers, EventStep(w) PROVE PixInv'
  BY <1>5, ReadOrderKeeps, VerifyKeeps, ConfirmKeeps DEF EventStep
<1>6. ASSUME NEW w \in Workers, FaultStep(w) PROVE PixInv'
  BY <1>6, FetchFailsKeeps, LookupFailsKeeps, CreateFailsKeeps, EventFailsKeeps, CrashKeeps
    DEF FaultStep
<1> QED
  BY <1>1, <1>2, <1>3, <1>4, <1>5, <1>6 DEF Next

-----------------------------------------------------------------------------
(* The theorems *)

\* In every reachable state the invariant holds: who may order, what a claim is
\* worth, and what the marks under way will record.
THEOREM PixInvariant == Spec => []PixInv
  BY InitInv, NextInv, PTL DEF Spec

\* A cart session gets a second order only after a claim was taken from a live
\* worker, a given-up POST arrived late, or two of its payments were settled at
\* once.
THEOREM NoDuplicateOrders == Spec => []DuplicateNeedsCause
<1>1. PixInv => DuplicateNeedsCause
  BY DEF PixInv
<1> QED
  BY <1>1, PixInvariant, PTL

\* The store has an order only for a payment that was approved and whose
\* charged, stored and expected amounts agree.
THEOREM OrdersArePaid == Spec => []OrderWasPaid
<1>1. PixInv => OrderWasPaid
  BY DEF PixInv
<1> QED
  BY <1>1, PixInvariant, PTL

\* A payment reported as settled has an existing order of its session and
\* amount.
THEOREM SettledHasOrder == Spec => []SettledMeansOrder
<1>1. PixInv => SettledMeansOrder
  <2> SUFFICES ASSUME PixInv, NEW p \in Payments, settlement[p] = "completed"
               PROVE  \E o \in OrderIds : /\ orderId[p] = o /\ orders[o] # 0
                                          /\ Session[orders[o]] = Session[p]
                                          /\ Expected[orders[o]] = Expected[p]
    BY DEF SettledMeansOrder
  <2>1. orderId[p] # 0 /\ Matches(orderId[p], p)
    BY DEF PixInv, MarksMatch
  <2>2. orderId[p] \in OrderIds
    BY <2>1 DEF PixInv, TypeOK
  <2> QED
    BY <2>1, <2>2 DEF Matches
<1> QED
  BY <1>1, PixInvariant, PTL

\* No step makes a row forget its order: the only writer of tray_order_id is the
\* mark, and it keeps the old one when it brings none.
THEOREM OrderIdsAreKept == Spec => OrderIdKept
<1>1. PixInv /\ [Next]_vars => [\A p \in Payments : orderId[p] # 0 => orderId'[p] # 0]_vars
  <2> SUFFICES ASSUME PixInv, Next, NEW p \in Payments, orderId[p] # 0 PROVE orderId'[p] # 0
    OBVIOUS
  <2>0. RowsTyped
    BY TypeParts DEF PixInv
  <2>1. CASE orderId' = orderId
    BY <2>1
  <2>2. ASSUME NEW w \in Workers, Decide(w) PROVE orderId'[p] # 0
    BY <2>0, <2>2 DEF Decide, SetMark, KeptOrder, RowsTyped
  <2>3. ASSUME NEW w \in Workers, Mark(w) PROVE orderId'[p] # 0
    BY <2>0, <2>3 DEF Mark, SetMark, KeptOrder, RowsTyped
  <2>4. ASSUME NEW w \in Workers, Confirm(w) PROVE orderId'[p] # 0
    BY <2>0, <2>4 DEF Confirm, SetMark, KeptOrder, RowsTyped
  <2>5. CASE OutsideStep
    BY <2>5 DEF OutsideStep, CreateAtMp, Persist, PostLands, GoesStale, MpChanges, rowVars
  <2>6. ASSUME NEW w \in Workers, StartStep(w) PROVE orderId' = orderId
    BY <2>6 DEF StartStep, Webhook, Ask, ListRetryable, NextListed, TakeEvent, rowVars
  <2>7. ASSUME NEW w \in Workers, FaultStep(w) PROVE orderId' = orderId
    BY <2>7 DEF FaultStep, FetchFails, LookupFails, CreateFails, EventFails, Crash, rowVars
  <2>8. ASSUME NEW w \in Workers, SettleStep(w) PROVE orderId'[p] # 0
    BY <2>8, <2>2, <2>3
      DEF SettleStep, Fetch, Apply, ReadRow, RequeueStale, Lookup, Create, rowVars
  <2>9. ASSUME NEW w \in Workers, EventStep(w) PROVE orderId'[p] # 0
    BY <2>9, <2>4 DEF EventStep, ReadOrder, Verify, rowVars
  <2> QED
    BY <2>1, <2>5, <2>6, <2>7, <2>8, <2>9 DEF Next
<1> QED
  BY <1>1, PixInvariant, PTL DEF Spec, OrderIdKept

-----------------------------------------------------------------------------
(* Refinement: PixSettlement implements SettlementPromise.  Every action is  *)
(* one step of the promise or none.                                          *)

PromiseStep == [Promise!PromiseNext]_(Promise!promiseVars)

\* A step that approves, orders, loses, records and excuses nothing and reports
\* nothing else as settled is a stutter of the promise.
LEMMA PromiseStutter ==
  ASSUME UNCHANGED <<approvedOnce, charged, orders, late, orderId, excused>>,
         \A p \in Payments : settlement'[p] = "completed" <=> settlement[p] = "completed"
  PROVE  PromiseStep
  BY DEF PromiseStep, Promise!promiseVars, PaidInFull

\* The payment a worker has claimed is paid in full.
LEMMA HeldIsPaid ==
  ASSUME PixInv, NEW w \in Workers, Holding(w)
  PROVE  pay[w] \in Payments /\ PaidInFull(pay[w])
<1>1. pay[w] \in Payments /\ pay[w] \in approvedOnce /\ AmountsAgree(pay[w])
  BY TypeParts DEF PixInv, HoldersMayOrder, WorkersKnow, WorkersTyped, MpTyped, Holding,
     HoldPhases, PayPhases
<1> QED
  BY <1>1 DEF AmountsAgree, PaidInFull

LEMMA PromiseMpChanges ==
  ASSUME PixInv, NEW p \in Payments, NEW new \in MpStatuses, MpChanges(p, new)
  PROVE  PromiseStep
<1>1. UNCHANGED <<charged, orders, late, orderId, settlement, excused>>
  BY DEF MpChanges, rowVars, storeVars
<1>2. CASE approvedOnce' = approvedOnce
  BY <1>1, <1>2, PromiseStutter
<1>3. CASE approvedOnce' = approvedOnce \cup {p}
  <2>1. CASE PaidInFull(p)'
    <3>1. Promise!Pay(p)
      BY <1>1, <1>3, <2>1 DEF Promise!Pay, PaidInFull
    <3> QED
      BY <3>1 DEF PromiseStep, Promise!PromiseNext
  <2>2. CASE ~PaidInFull(p)'
    BY <1>1, <1>3, <2>2 DEF PromiseStep, Promise!promiseVars, PaidInFull
  <2> QED
    BY <2>1, <2>2
<1> QED
  BY <1>2, <1>3 DEF MpChanges

LEMMA PromisePostLands ==
  ASSUME PixInv, NEW p \in Payments, PostLands(p)
  PROVE  PromiseStep
<1>1. UNCHANGED <<approvedOnce, charged, orderId, settlement>>
  BY DEF PostLands, mpVars, rowVars
<1>2. PICK o \in OrderIds : NewOrder(o, p)
  BY DEF PostLands
<1>3. Promise!Arrive(p, o)
  BY <1>1, <1>2 DEF PostLands, NewOrder, Promise!Arrive, PaidInFull
<1> QED
  BY <1>3 DEF PromiseStep, Promise!PromiseNext

\* Taking a claim away is an excuse at most: the row has no order.
LEMMA PromiseRequeue ==
  ASSUME PixInv, NEW p \in Payments, Requeue(p),
         UNCHANGED <<approvedOnce, charged, orders, late, orderId>>
  PROVE  PromiseStep
<1>0. RowsTyped
  BY TypeParts DEF PixInv
<1>1. \A q \in Payments : settlement'[q] = "completed" <=> settlement[q] = "completed"
  BY <1>0 DEF Requeue, Requeueable, RowsTyped
<1>2. CASE excused' = excused
  BY <1>1, <1>2, PromiseStutter
<1>3. CASE excused' # excused
  <2>1. /\ Requeueable(p) /\ excused' = excused \cup {Session[p]}
        /\ \E w \in Workers : Holding(w) /\ pay[w] = p
    BY <1>3 DEF Requeue
  <2>2. PaidInFull(p) /\ orderId[p] = 0
    BY <2>1, HeldIsPaid DEF Requeueable
  <2>3. Promise!Excuse(p)
    BY <1>1, <2>1, <2>2 DEF Promise!Excuse, PaidInFull
  <2> QED
    BY <2>3 DEF PromiseStep, Promise!PromiseNext
<1> QED
  BY <1>2, <1>3

LEMMA PromiseDecide ==
  ASSUME PixInv, NEW w \in Workers, Decide(w)
  PROVE  PromiseStep
<1>0. RowsTyped
  BY TypeParts DEF PixInv
<1>1. UNCHANGED <<approvedOnce, charged, orders, late>>
  BY DEF Decide, mpVars, storeVars
<1>2. PICK p \in Payments : p = pay[w]
  BY DEF PixInv, TypeOK, WorkersKnow, PayPhases, Phases, Decide
<1>3. CASE UNCHANGED <<settlement, orderId, excused>>
  BY <1>1, <1>3, PromiseStutter
<1>4. CASE SetMark(p, "failed", "fatal", 0) /\ excused' = excused
  <2>1. orderId' = orderId
    BY <1>0, <1>4 DEF SetMark, KeptOrder, RowsTyped
  <2>2. \A q \in Payments : settlement'[q] = "completed" <=> q # p /\ settlement[q] = "completed"
    BY <1>0, <1>4 DEF SetMark, RowsTyped
  <2>3. Promise!Withdraw(p)
    BY <1>1, <1>4, <2>1, <2>2 DEF Promise!Withdraw, PaidInFull
  <2> QED
    BY <2>3 DEF PromiseStep, Promise!PromiseNext
<1>5. CASE /\ payload[w] = "approved" /\ AmountsAgree(p) /\ Claimable(p) /\ orderId' = orderId
           /\ settlement' = [settlement EXCEPT ![p] = "processing"]
           /\ excused' = IF \E v \in Workers : /\ Holding(v) /\ pay[v] # p
                                              /\ Session[pay[v]] = Session[p]
                           THEN excused \cup {Session[p]} ELSE excused
  <2>1. \A q \in Payments : settlement'[q] = "completed" <=> settlement[q] = "completed"
    BY <1>0, <1>5 DEF Claimable, RowsTyped
  <2>2. CASE excused' = excused
    BY <1>1, <1>5, <2>1, <2>2, PromiseStutter
  <2>3. CASE excused' # excused
    <3>1. PICK v \in Workers : Holding(v) /\ pay[v] # p /\ Session[pay[v]] = Session[p]
      BY <1>5, <2>3
    <3>2. PaidInFull(p)
      BY <1>2, <1>5 DEF PixInv, WorkersKnow, Decide, AmountsAgree, PaidInFull
    <3>3. Promise!Excuse(p)
      BY <1>1, <1>5, <2>1, <2>3, <3>1, <3>2, HeldIsPaid DEF Promise!Excuse, PaidInFull
    <3> QED
      BY <3>3 DEF PromiseStep, Promise!PromiseNext
  <2> QED
    BY <2>2, <2>3
<1> QED
  BY <1>2, <1>3, <1>4, <1>5 DEF Decide

\* Whoever is about to POST may order: the session has no order, or an excuse.
LEMMA CreatorMayOrder ==
  ASSUME PixInv, NEW w \in Workers, pc[w] = "create", NEW p \in Payments, p = pay[w]
  PROVE  Promise!MayOrder(p)
<1>1. Holding(w)
  BY DEF Holding, HoldPhases
<1>2. PaidInFull(p)
  BY <1>1, HeldIsPaid
<1>3. Session[p] \notin excused => OrdersOf(Session[p]) = {}
  BY <1>1 DEF PixInv, ClaimHolds
<1> QED
  BY <1>2, <1>3 DEF Promise!MayOrder, OrdersOf, PaidInFull

LEMMA PromiseBuy ==
  ASSUME PixInv, NEW p \in Payments, Promise!MayOrder(p), NEW o \in OrderIds, NewOrder(o, p),
         UNCHANGED <<approvedOnce, charged, late, orderId, settlement, excused>>
  PROVE  PromiseStep
<1>1. Promise!Buy(p, o)
  BY DEF Promise!Buy, NewOrder, PaidInFull
<1> QED
  BY <1>1 DEF PromiseStep, Promise!PromiseNext

LEMMA PromiseCreate ==
  ASSUME PixInv, NEW w \in Workers, Create(w)
  PROVE  PromiseStep
<1>1. PICK p \in Payments : p = pay[w]
  BY DEF PixInv, TypeOK, WorkersKnow, PayPhases, Phases, Create
<1>2. PICK o \in OrderIds : NewOrder(o, p)
  BY <1>1 DEF Create
<1> QED
  BY <1>1, <1>2, CreatorMayOrder, PromiseBuy DEF Create, mpVars, rowVars

LEMMA PromisePost ==
  ASSUME PixInv, NEW p \in Payments, Promise!MayOrder(p), PostUnanswered(p),
         UNCHANGED <<approvedOnce, charged, orderId, settlement, excused>>
  PROVE  PromiseStep
<1>1. CASE UNCHANGED <<orders, late>>
  BY <1>1, PromiseStutter
<1>2. CASE (\E o \in OrderIds : NewOrder(o, p)) /\ UNCHANGED late
  BY <1>2, PromiseBuy
<1>3. CASE late' = late \cup {p} /\ UNCHANGED orders
  <2>1. Promise!Lose(p)
    BY <1>3 DEF Promise!Lose, PaidInFull
  <2> QED
    BY <2>1 DEF PromiseStep, Promise!PromiseNext
<1> QED
  BY <1>1, <1>2, <1>3 DEF PostUnanswered

LEMMA PromiseCreateFails ==
  ASSUME PixInv, NEW w \in Workers, CreateFails(w)
  PROVE  PromiseStep
<1>1. PICK p \in Payments : p = pay[w]
  BY DEF PixInv, TypeOK, WorkersKnow, PayPhases, Phases, CreateFails
<1> QED
  BY <1>1, CreatorMayOrder, PromisePost DEF CreateFails, mpVars, rowVars

LEMMA PromiseCrash ==
  ASSUME PixInv, NEW w \in Workers, Crash(w)
  PROVE  PromiseStep
<1>1. CASE pc[w] # "create"
  BY <1>1, PromiseStutter DEF Crash, rowVars
<1>2. CASE pc[w] = "create"
  <2>1. PICK p \in Payments : p = pay[w]
    BY <1>2 DEF PixInv, TypeOK, WorkersKnow, PayPhases, Phases
  <2> QED
    BY <1>2, <2>1, CreatorMayOrder, PromisePost DEF Crash, rowVars
<1> QED
  BY <1>1, <1>2

\* Two orders of a session need an excuse, so a recorded one is only replaced
\* by another with an excuse.
LEMMA PromiseSettle ==
  ASSUME PixInv, NEW p \in Payments, NEW o \in OrderIds, Matches(o, p),
         SetMark(p, "completed", "none", o),
         UNCHANGED <<approvedOnce, charged, orders, late, excused>>
  PROVE  PromiseStep
<1>0. RowsTyped
  BY TypeParts DEF PixInv
<1>1. orderId' = [orderId EXCEPT ![p] = o]
  BY ZeroIsNull DEF SetMark, KeptOrder
<1>2. \A q \in Payments : settlement'[q] = "completed" <=> q = p \/ settlement[q] = "completed"
  BY <1>0 DEF SetMark, RowsTyped
<1>3. orderId[p] \in {0, o} \/ Session[p] \in excused
  <2> SUFFICES ASSUME orderId[p] # 0, orderId[p] # o PROVE Session[p] \in excused
    OBVIOUS
  <2>1. orderId[p] \in OrderIds /\ Matches(orderId[p], p)
    BY <1>0 DEF PixInv, MarksMatch, RowsTyped
  <2> QED
    BY <2>1 DEF PixInv, DuplicateNeedsCause, Matches
<1>4. Promise!Settle(p, o)
  BY <1>1, <1>2, <1>3 DEF Promise!Settle, Matches, PaidInFull
<1> QED
  BY <1>4 DEF PromiseStep, Promise!PromiseNext

LEMMA PromiseMark ==
  ASSUME PixInv, NEW w \in Workers, Mark(w)
  PROVE  PromiseStep
<1>0. RowsTyped
  BY TypeParts DEF PixInv
<1>1. UNCHANGED <<approvedOnce, charged, orders, late, excused>>
  BY DEF Mark, mpVars, storeVars
<1>2. PICK p \in Payments : p = pay[w]
  BY DEF PixInv, TypeOK, WorkersKnow, PayPhases, Phases, Mark
<1>3. CASE found[w] # 0
  <2>1. PICK o \in OrderIds : o = found[w]
    BY <1>3 DEF PixInv, TypeOK
  <2> QED
    BY <1>1, <1>2, <1>3, <2>1, PromiseSettle DEF PixInv, MarksMatch, Mark
<1>4. CASE found[w] = 0
  <2>1. orderId' = orderId
    BY <1>0, <1>2, <1>4 DEF Mark, SetMark, KeptOrder, RowsTyped
  <2>2. \A q \in Payments : settlement'[q] = "completed" <=> q # p /\ settlement[q] = "completed"
    BY <1>0, <1>2, <1>4 DEF Mark, SetMark, RowsTyped
  <2>3. Promise!Withdraw(p)
    BY <1>1, <2>1, <2>2 DEF Promise!Withdraw, PaidInFull
  <2> QED
    BY <2>3 DEF PromiseStep, Promise!PromiseNext
<1> QED
  BY <1>3, <1>4

LEMMA PromiseConfirm ==
  ASSUME PixInv, NEW w \in Workers, Confirm(w)
  PROVE  PromiseStep
<1>1. PICK p \in Payments : p = pay[w]
  BY DEF PixInv, TypeOK, WorkersKnow, PayPhases, Phases, Confirm
<1>2. PICK o \in OrderIds : o = found[w]
  BY DEF PixInv, TypeOK, WorkersKnow, EventPhases, Confirm
<1> QED
  BY <1>1, <1>2, PromiseSettle DEF PixInv, MarksMatch, Confirm, mpVars

LEMMA PromiseApply ==
  ASSUME PixInv, NEW w \in Workers, Apply(w)
  PROVE  PromiseStep
<1>0. RowsTyped
  BY TypeParts DEF PixInv
<1>1. \A q \in Payments : settlement'[q] = "completed" <=> settlement[q] = "completed"
  BY <1>0 DEF Apply, RowsTyped
<1> QED
  BY <1>1, PromiseStutter DEF Apply, mpVars, storeVars

LEMMA PromiseNextListed ==
  ASSUME PixInv, NEW w \in Workers, NextListed(w)
  PROVE  PromiseStep
<1>1. PICK item \in todo[w] :
        IF item[2] = "requeue" THEN Requeue(item[1])
                               ELSE UNCHANGED <<settlement, error, stale, excused>>
  BY DEF NextListed
<1>2. UNCHANGED <<approvedOnce, charged, orders, late, orderId>>
  BY DEF NextListed, mpVars, storeVars
<1>3. item[1] \in Payments
  BY <1>1 DEF PixInv, TypeOK
<1> QED
  BY <1>1, <1>2, <1>3, PromiseRequeue, PromiseStutter

LEMMA PromiseRequeueStale ==
  ASSUME PixInv, NEW w \in Workers, RequeueStale(w)
  PROVE  PromiseStep
<1>1. pay[w] \in Payments
  BY DEF PixInv, TypeOK, WorkersKnow, PayPhases, Phases, RequeueStale
<1> QED
  BY <1>1, PromiseRequeue DEF RequeueStale, mpVars, storeVars

LEMMA PromiseInitially == Init => Promise!PromiseInit
  BY DEF Init, Promise!PromiseInit, PaidInFull

LEMMA PromiseNextStep == PixInv /\ [Next]_vars => PromiseStep
<1> SUFFICES ASSUME PixInv, [Next]_vars PROVE PromiseStep
  OBVIOUS
<1>1. CASE UNCHANGED vars
  BY <1>1, PromiseStutter DEF vars, mpVars, rowVars, storeVars
<1>2. CASE OutsideStep
  <2>1. ASSUME NEW p \in Payments, CreateAtMp(p) \/ Persist(p) \/ GoesStale(p)
        PROVE  PromiseStep
    BY <2>1, PromiseStutter DEF CreateAtMp, Persist, GoesStale, mpVars, rowVars, storeVars
  <2> QED
    BY <1>2, <2>1, PromisePostLands, PromiseMpChanges DEF OutsideStep
<1>3. ASSUME NEW w \in Workers, StartStep(w) PROVE PromiseStep
  <2>1. CASE UNCHANGED <<approvedOnce, charged, orders, late, orderId, settlement, excused>>
    BY <2>1, PromiseStutter
  <2> QED
    BY <1>3, <2>1, PromiseNextListed
      DEF StartStep, Webhook, Ask, ListRetryable, TakeEvent, mpVars, rowVars, storeVars
<1>4. ASSUME NEW w \in Workers, SettleStep(w) PROVE PromiseStep
  <2>1. CASE Fetch(w) \/ ReadRow(w) \/ Lookup(w)
    BY <2>1, PromiseStutter DEF Fetch, ReadRow, Lookup, mpVars, rowVars, storeVars
  <2> QED
    BY <1>4, <2>1, PromiseApply, PromiseRequeueStale, PromiseDecide, PromiseCreate, PromiseMark
      DEF SettleStep
<1>5. ASSUME NEW w \in Workers, EventStep(w) PROVE PromiseStep
  <2>1. CASE ReadOrder(w) \/ Verify(w)
    BY <2>1, PromiseStutter DEF ReadOrder, Verify, mpVars, rowVars, storeVars
  <2> QED
    BY <1>5, <2>1, PromiseConfirm DEF EventStep
<1>6. ASSUME NEW w \in Workers, FaultStep(w) PROVE PromiseStep
  <2>1. CASE FetchFails(w) \/ LookupFails(w) \/ EventFails(w)
    BY <2>1, PromiseStutter DEF FetchFails, LookupFails, EventFails, mpVars, rowVars, storeVars
  <2> QED
    BY <1>6, <2>1, PromiseCreateFails, PromiseCrash DEF FaultStep
<1> QED
  BY <1>1, <1>2, <1>3, <1>4, <1>5, <1>6 DEF Next

\* The settlement implements the promise: every behaviour of the rows, the
\* workers and the store, with its crashes, stale claims and late POSTs, is one
\* in which paid money buys the order of its cart once, or with an excuse.
THEOREM PixKeepsPromise == Spec => KeepsSettlementPromise
  BY PromiseInitially, PromiseNextStep, PixInvariant, PTL
    DEF Spec, KeepsSettlementPromise, Promise!PromiseSpec, PromiseStep


-----------------------------------------------------------------------------
(* No payment is lost: notifications are kept until the approval is written, *)
(* and an approved payment without its order stays on the cron's list.       *)

\* The part of the invariant that is not in PixInv, and the types it is about.
Learned == RowsLearned /\ WorkersLearned /\ NoticesAreKept

NoticeTypes == MpTyped /\ RowsTyped /\ WorkersTyped

LEMMA NoticeTyping == NoticeInv => NoticeTypes
  BY TypeParts DEF NoticeInv, PixInv, NoticeTypes

LEMMA CreateAtMpLearned ==
  ASSUME NoticeInv, NoticeTypes, NEW p \in Payments, CreateAtMp(p)
  PROVE  Learned'
  BY SMTT(30) DEF NoticeTypes, NoticeInv, PixInv, Learned, RowsLearned, WorkersLearned,
     NoticesAreKept, NoticedBy, WorkersKnow, MpTyped, RowsTyped, WorkersTyped,
     PayPhases, EventPhases, Phases, AmountsAgree, mpVars, rowVars, workVars, CreateAtMp

LEMMA PersistLearned ==
  ASSUME NoticeInv, NoticeTypes, NEW p \in Payments, Persist(p)
  PROVE  Learned'
  BY SMTT(30) DEF NoticeTypes, NoticeInv, PixInv, Learned, RowsLearned, WorkersLearned,
     NoticesAreKept, NoticedBy, WorkersKnow, MpTyped, RowsTyped, WorkersTyped,
     PayPhases, EventPhases, Phases, AmountsAgree, mpVars, rowVars, workVars, Persist

LEMMA MpChangesLearned ==
  ASSUME NoticeInv, NoticeTypes, NEW p \in Payments, NEW new \in MpStatuses, MpChanges(p, new)
  PROVE  Learned'
  BY SMTT(30) DEF NoticeTypes, NoticeInv, PixInv, Learned, RowsLearned, WorkersLearned,
     NoticesAreKept, NoticedBy, WorkersKnow, MpTyped, RowsTyped, WorkersTyped,
     PayPhases, EventPhases, Phases, AmountsAgree, mpVars, rowVars, workVars, MpChanges

LEMMA PostLandsLearned ==
  ASSUME NoticeInv, NoticeTypes, NEW p \in Payments, PostLands(p)
  PROVE  Learned'
  BY SMTT(30) DEF NoticeTypes, NoticeInv, PixInv, Learned, RowsLearned, WorkersLearned,
     NoticesAreKept, NoticedBy, WorkersKnow, MpTyped, RowsTyped, WorkersTyped,
     PayPhases, EventPhases, Phases, AmountsAgree, mpVars, rowVars, workVars, PostLands,
     NewOrder

LEMMA GoesStaleLearned ==
  ASSUME NoticeInv, NoticeTypes, NEW p \in Payments, GoesStale(p)
  PROVE  Learned'
  BY SMTT(30) DEF NoticeTypes, NoticeInv, PixInv, Learned, RowsLearned, WorkersLearned,
     NoticesAreKept, NoticedBy, WorkersKnow, MpTyped, RowsTyped, WorkersTyped,
     PayPhases, EventPhases, Phases, AmountsAgree, mpVars, rowVars, workVars, GoesStale

LEMMA WebhookLearned ==
  ASSUME NoticeInv, NoticeTypes, NEW w \in Workers, NEW p \in Payments, Webhook(w, p)
  PROVE  Learned'
  BY SMTT(30) DEF NoticeTypes, NoticeInv, PixInv, Learned, RowsLearned, WorkersLearned,
     NoticesAreKept, NoticedBy, WorkersKnow, MpTyped, RowsTyped, WorkersTyped,
     PayPhases, EventPhases, Phases, AmountsAgree, mpVars, rowVars, workVars, Webhook,
     Begin, Go

LEMMA AskLearned ==
  ASSUME NoticeInv, NoticeTypes, NEW w \in Workers, NEW p \in Payments, NEW k \in Kinds, Ask(w, p, k)
  PROVE  Learned'
  BY SMTT(30) DEF NoticeTypes, NoticeInv, PixInv, Learned, RowsLearned, WorkersLearned,
     NoticesAreKept, NoticedBy, WorkersKnow, MpTyped, RowsTyped, WorkersTyped,
     PayPhases, EventPhases, Phases, AmountsAgree, mpVars, rowVars, workVars, Ask,
     Begin, Go

LEMMA ListRetryableLearned ==
  ASSUME NoticeInv, NoticeTypes, NEW w \in Workers, ListRetryable(w)
  PROVE  Learned'
  BY SMTT(30) DEF NoticeTypes, NoticeInv, PixInv, Learned, RowsLearned, WorkersLearned,
     NoticesAreKept, NoticedBy, WorkersKnow, MpTyped, RowsTyped, WorkersTyped,
     PayPhases, EventPhases, Phases, AmountsAgree, mpVars, rowVars, workVars,
     ListRetryable, Go, Listed

LEMMA NextListedLearned ==
  ASSUME NoticeInv, NoticeTypes, NEW w \in Workers, NextListed(w)
  PROVE  Learned'
  BY SMTT(30) DEF NoticeTypes, NoticeInv, PixInv, Learned, RowsLearned, WorkersLearned,
     NoticesAreKept, NoticedBy, WorkersKnow, MpTyped, RowsTyped, WorkersTyped,
     PayPhases, EventPhases, Phases, AmountsAgree, mpVars, rowVars, workVars,
     NextListed, Go, Requeue, Requeueable

LEMMA TakeEventLearned ==
  ASSUME NoticeInv, NoticeTypes, NEW w \in Workers, NEW o \in OrderIds, TakeEvent(w, o)
  PROVE  Learned'
  BY SMTT(30) DEF NoticeTypes, NoticeInv, PixInv, Learned, RowsLearned, WorkersLearned,
     NoticesAreKept, NoticedBy, WorkersKnow, MpTyped, RowsTyped, WorkersTyped,
     PayPhases, EventPhases, Phases, AmountsAgree, mpVars, rowVars, workVars, TakeEvent,
     Go

LEMMA FetchLearned ==
  ASSUME NoticeInv, NoticeTypes, NEW w \in Workers, Fetch(w)
  PROVE  Learned'
  BY SMTT(30) DEF NoticeTypes, NoticeInv, PixInv, Learned, RowsLearned, WorkersLearned,
     NoticesAreKept, NoticedBy, WorkersKnow, MpTyped, RowsTyped, WorkersTyped,
     PayPhases, EventPhases, Phases, AmountsAgree, mpVars, rowVars, workVars, Fetch, Go

LEMMA ApplyLearned ==
  ASSUME NoticeInv, NoticeTypes, NEW w \in Workers, Apply(w)
  PROVE  Learned'
  BY SMTT(30) DEF NoticeTypes, NoticeInv, PixInv, Learned, RowsLearned, WorkersLearned,
     NoticesAreKept, NoticedBy, WorkersKnow, MpTyped, RowsTyped, WorkersTyped,
     PayPhases, EventPhases, Phases, AmountsAgree, mpVars, rowVars, workVars, Apply, Go,
     Finish

LEMMA ReadRowLearned ==
  ASSUME NoticeInv, NoticeTypes, NEW w \in Workers, ReadRow(w)
  PROVE  Learned'
  BY SMTT(30) DEF NoticeTypes, NoticeInv, PixInv, Learned, RowsLearned, WorkersLearned,
     NoticesAreKept, NoticedBy, WorkersKnow, MpTyped, RowsTyped, WorkersTyped,
     PayPhases, EventPhases, Phases, AmountsAgree, mpVars, rowVars, workVars, ReadRow,
     Go, Finish

LEMMA RequeueStaleLearned ==
  ASSUME NoticeInv, NoticeTypes, NEW w \in Workers, RequeueStale(w)
  PROVE  Learned'
  BY SMTT(30) DEF NoticeTypes, NoticeInv, PixInv, Learned, RowsLearned, WorkersLearned,
     NoticesAreKept, NoticedBy, WorkersKnow, MpTyped, RowsTyped, WorkersTyped,
     PayPhases, EventPhases, Phases, AmountsAgree, mpVars, rowVars, workVars,
     RequeueStale, Go, Requeue, Requeueable

LEMMA DecideLearned ==
  ASSUME NoticeInv, NoticeTypes, NEW w \in Workers, Decide(w)
  PROVE  Learned'
  BY SMTT(30) DEF NoticeTypes, NoticeInv, PixInv, Learned, RowsLearned, WorkersLearned,
     NoticesAreKept, NoticedBy, WorkersKnow, MpTyped, RowsTyped, WorkersTyped,
     PayPhases, EventPhases, Phases, AmountsAgree, mpVars, rowVars, workVars, Decide,
     Go, Finish, SetMark

LEMMA LookupLearned ==
  ASSUME NoticeInv, NoticeTypes, NEW w \in Workers, Lookup(w)
  PROVE  Learned'
  BY SMTT(30) DEF NoticeTypes, NoticeInv, PixInv, Learned, RowsLearned, WorkersLearned,
     NoticesAreKept, NoticedBy, WorkersKnow, MpTyped, RowsTyped, WorkersTyped,
     PayPhases, EventPhases, Phases, AmountsAgree, mpVars, rowVars, workVars, Lookup, Go

LEMMA CreateLearned ==
  ASSUME NoticeInv, NoticeTypes, NEW w \in Workers, Create(w)
  PROVE  Learned'
  BY SMTT(30) DEF NoticeTypes, NoticeInv, PixInv, Learned, RowsLearned, WorkersLearned,
     NoticesAreKept, NoticedBy, WorkersKnow, MpTyped, RowsTyped, WorkersTyped,
     PayPhases, EventPhases, Phases, AmountsAgree, mpVars, rowVars, workVars, Create, Go

LEMMA MarkLearned ==
  ASSUME NoticeInv, NoticeTypes, NEW w \in Workers, Mark(w)
  PROVE  Learned'
  BY SMTT(30) DEF NoticeTypes, NoticeInv, PixInv, Learned, RowsLearned, WorkersLearned,
     NoticesAreKept, NoticedBy, WorkersKnow, MpTyped, RowsTyped, WorkersTyped,
     PayPhases, EventPhases, Phases, AmountsAgree, mpVars, rowVars, workVars, Mark,
     Finish, SetMark

LEMMA ReadOrderLearned ==
  ASSUME NoticeInv, NoticeTypes, NEW w \in Workers, ReadOrder(w)
  PROVE  Learned'
  BY SMTT(30) DEF NoticeTypes, NoticeInv, PixInv, Learned, RowsLearned, WorkersLearned,
     NoticesAreKept, NoticedBy, WorkersKnow, MpTyped, RowsTyped, WorkersTyped,
     PayPhases, EventPhases, Phases, AmountsAgree, mpVars, rowVars, workVars, ReadOrder,
     Go, Finish

LEMMA VerifyLearned ==
  ASSUME NoticeInv, NoticeTypes, NEW w \in Workers, Verify(w)
  PROVE  Learned'
  BY SMTT(30) DEF NoticeTypes, NoticeInv, PixInv, Learned, RowsLearned, WorkersLearned,
     NoticesAreKept, NoticedBy, WorkersKnow, MpTyped, RowsTyped, WorkersTyped,
     PayPhases, EventPhases, Phases, AmountsAgree, mpVars, rowVars, workVars, Verify,
     Go, Finish

LEMMA ConfirmLearned ==
  ASSUME NoticeInv, NoticeTypes, NEW w \in Workers, Confirm(w)
  PROVE  Learned'
  BY SMTT(30) DEF NoticeTypes, NoticeInv, PixInv, Learned, RowsLearned, WorkersLearned,
     NoticesAreKept, NoticedBy, WorkersKnow, MpTyped, RowsTyped, WorkersTyped,
     PayPhases, EventPhases, Phases, AmountsAgree, mpVars, rowVars, workVars, Confirm,
     Finish, SetMark

LEMMA FetchFailsLearned ==
  ASSUME NoticeInv, NoticeTypes, NEW w \in Workers, FetchFails(w)
  PROVE  Learned'
  BY SMTT(30) DEF NoticeTypes, NoticeInv, PixInv, Learned, RowsLearned, WorkersLearned,
     NoticesAreKept, NoticedBy, WorkersKnow, MpTyped, RowsTyped, WorkersTyped,
     PayPhases, EventPhases, Phases, AmountsAgree, mpVars, rowVars, workVars,
     FetchFails, Finish, KeepNotice

LEMMA LookupFailsLearned ==
  ASSUME NoticeInv, NoticeTypes, NEW w \in Workers, LookupFails(w)
  PROVE  Learned'
  BY SMTT(30) DEF NoticeTypes, NoticeInv, PixInv, Learned, RowsLearned, WorkersLearned,
     NoticesAreKept, NoticedBy, WorkersKnow, MpTyped, RowsTyped, WorkersTyped,
     PayPhases, EventPhases, Phases, AmountsAgree, mpVars, rowVars, workVars,
     LookupFails, Go

LEMMA CreateFailsLearned ==
  ASSUME NoticeInv, NoticeTypes, NEW w \in Workers, CreateFails(w)
  PROVE  Learned'
  BY SMTT(30) DEF NoticeTypes, NoticeInv, PixInv, Learned, RowsLearned, WorkersLearned,
     NoticesAreKept, NoticedBy, WorkersKnow, MpTyped, RowsTyped, WorkersTyped,
     PayPhases, EventPhases, Phases, AmountsAgree, mpVars, rowVars, workVars,
     CreateFails, Go

LEMMA EventFailsLearned ==
  ASSUME NoticeInv, NoticeTypes, NEW w \in Workers, EventFails(w)
  PROVE  Learned'
  BY SMTT(30) DEF NoticeTypes, NoticeInv, PixInv, Learned, RowsLearned, WorkersLearned,
     NoticesAreKept, NoticedBy, WorkersKnow, MpTyped, RowsTyped, WorkersTyped,
     PayPhases, EventPhases, Phases, AmountsAgree, mpVars, rowVars, workVars,
     EventFails, Finish

LEMMA CrashLearned ==
  ASSUME NoticeInv, NoticeTypes, NEW w \in Workers, Crash(w)
  PROVE  Learned'
  BY SMTT(30) DEF NoticeTypes, NoticeInv, PixInv, Learned, RowsLearned, WorkersLearned,
     NoticesAreKept, NoticedBy, WorkersKnow, MpTyped, RowsTyped, WorkersTyped,
     PayPhases, EventPhases, Phases, AmountsAgree, mpVars, rowVars, workVars, Crash,
     KeepNotice


LEMMA NoticeInit == Init => NoticeInv
<1> SUFFICES ASSUME Init PROVE NoticeInv
  OBVIOUS
<1>1. PixInv
  BY InitInv
<1>2. RowsLearned /\ WorkersLearned
  BY ZeroIsNull DEF Init, RowsLearned, WorkersLearned
<1>3. NoticesAreKept
  BY DEF Init, NoticesAreKept
<1> QED
  BY <1>1, <1>2, <1>3 DEF NoticeInv

LEMMA NoticeNext == NoticeInv /\ [Next]_vars => NoticeInv'
<1> SUFFICES ASSUME NoticeInv, [Next]_vars PROVE NoticeInv'
  OBVIOUS
<1>0. NoticeTypes
  BY NoticeTyping
<1>1. PixInv'
  BY NextInv DEF NoticeInv
<1>2. ASSUME UNCHANGED vars PROVE Learned'
  BY <1>2 DEF NoticeInv, Learned, RowsLearned, WorkersLearned, NoticesAreKept, NoticedBy,
     AmountsAgree, vars, mpVars, rowVars, workVars
<1>3. ASSUME OutsideStep PROVE Learned'
  BY <1>0, <1>3, CreateAtMpLearned, PersistLearned, PostLandsLearned, GoesStaleLearned,
     MpChangesLearned DEF OutsideStep
<1>4. ASSUME NEW w \in Workers, StartStep(w) PROVE Learned'
  BY <1>0, <1>4, WebhookLearned, AskLearned, ListRetryableLearned, NextListedLearned,
     TakeEventLearned DEF StartStep
<1>5. ASSUME NEW w \in Workers, SettleStep(w) PROVE Learned'
  BY <1>0, <1>5, FetchLearned, ApplyLearned, ReadRowLearned, RequeueStaleLearned,
     DecideLearned, LookupLearned, CreateLearned, MarkLearned DEF SettleStep
<1>6. ASSUME NEW w \in Workers, EventStep(w) PROVE Learned'
  BY <1>0, <1>6, ReadOrderLearned, VerifyLearned, ConfirmLearned DEF EventStep
<1>7. ASSUME NEW w \in Workers, FaultStep(w) PROVE Learned'
  BY <1>0, <1>7, FetchFailsLearned, LookupFailsLearned, CreateFailsLearned,
     EventFailsLearned, CrashLearned DEF FaultStep
<1>8. Learned'
  BY <1>2, <1>3, <1>4, <1>5, <1>6, <1>7 DEF Next
<1> QED
  BY <1>1, <1>8 DEF NoticeInv, Learned

\* In every reachable state what is known of a payment was learned in order, and
\* its notification is kept until then.
THEOREM NoticeInvariant == Spec => []NoticeInv
  BY NoticeInit, NoticeNext, PTL DEF Spec

\* A payment approved at Mercado Pago whose approval was never written here still
\* has its notification, or a webhook that is bringing the approval: only a 200
\* ends a notification, and only after the answer was applied.
THEOREM NoticesStay == Spec => []NoticesAreKept
<1>1. NoticeInv => NoticesAreKept
  BY DEF NoticeInv
<1> QED
  BY <1>1, NoticeInvariant, PTL

\* An approved payment that may be settled and has no order is on the cron's
\* list, or claimed less than ten minutes ago: a failure for good is written only
\* over wrong amounts or an incomplete snapshot.
THEOREM NoPaymentStranded == Spec => []NoneStranded
<1>1. NoticeInv => NoneStranded
  <2> SUFFICES ASSUME NoticeInv, NEW p \in Payments, status[p] = "approved",
                      AmountsAgree(p), HasProducts[p], orderId[p] = 0
               PROVE  Listed(p) \/ (settlement[p] = "processing" /\ ~stale[p])
    BY DEF NoneStranded
  <2>1. settlement[p] \in {"pending", "processing", "failed"}
    BY DEF NoticeInv, RowsLearned, PixInv, TypeOK, MarksMatch, Settlements
  <2>2. Retryable(p)
    BY DEF NoticeInv, RowsLearned, Retryable
  <2> QED
    BY <2>1, <2>2 DEF Listed
<1> QED
  BY <1>1, NoticeInvariant, PTL

=============================================================================
