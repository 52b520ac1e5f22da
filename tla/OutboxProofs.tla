---------------------------- MODULE OutboxProofs ----------------------------
(***************************************************************************)
(* Theorems about Outbox, for any number of rows, inbounds, processes,     *)
(* parts and attempts: what delivered, owned and copied replies look like, *)
(* that no reply is forgotten, and that the queue implements ReplyPromise. *)
(***************************************************************************)
EXTENDS Outbox, FiniteSetTheorems, TLAPS

USE DEF Workers, Phases, Statuses

\* Updating one entry of a function of functions keeps its type.
LEMMA NestedUpdate ==
  ASSUME NEW S, NEW T, NEW V, NEW f \in [S -> [T -> V]],
         NEW s \in S, NEW t \in T, NEW v \in V
  PROVE  [f EXCEPT ![s][t] = v] \in [S -> [T -> V]]
  <1>1. [f[s] EXCEPT ![t] = v] \in [T -> V]
    OBVIOUS
  <1> QED BY <1>1

\* Counting up one entry of a table of naturals gives such a table.
LEMMA NestedCount ==
  ASSUME NEW S, NEW T, NEW f \in [S -> [T -> Nat]], NEW s \in S, NEW t \in T
  PROVE  [f EXCEPT ![s][t] = @ + 1] \in [S -> [T -> Nat]]
  <1>1. f[s] \in [T -> Nat]
    OBVIOUS
  <1>2. f[s][t] \in Nat
    BY <1>1
  <1>3. f[s][t] + 1 \in Nat
    BY <1>2
  <1> QED BY <1>3, NestedUpdate

\* So does adding an element to one entry of a table of sets.
LEMMA NestedAdd ==
  ASSUME NEW S, NEW T, NEW V, NEW f \in [S -> [T -> SUBSET V]],
         NEW s \in S, NEW t \in T, NEW v \in V
  PROVE  [f EXCEPT ![s][t] = @ \cup {v}] \in [S -> [T -> SUBSET V]]
  <1>1. f[s] \in [T -> SUBSET V]
    OBVIOUS
  <1>2. f[s][t] \cup {v} \in SUBSET V
    BY <1>1
  <1> QED BY <1>2, NestedUpdate

(***************************************************************************)
(* Types.                                                                  *)
(***************************************************************************)
LEMMA InitType == Init => TypeOK
  BY OutboxAssumption DEF Init, TypeOK, RowType, FlagType, WorkType, CountType

LEMMA EnqueueType ==
  ASSUME TypeOK, NEW w \in Dispatchers, NEW i \in Inbounds, Enqueue(w, i)
  PROVE  TypeOK'
  <1> USE DEF TypeOK, Accepted, Enqueue, outVars
  <1>1. RowType'
    BY DEF RowType
  <1>2. FlagType'
    BY DEF FlagType
  <1>3. WorkType'
    BY DEF WorkType
  <1>4. CountType'
    BY DEF CountType
  <1> QED BY <1>1, <1>2, <1>3, <1>4

LEMMA ClaimBatchType ==
  ASSUME TypeOK, NEW w \in CronWorkers, ClaimBatch(w)
  PROVE  TypeOK'
  <1> USE DEF TypeOK, ClaimBatch, Reclaimable, outVars
  <1>1. RowType'
    BY OutboxAssumption DEF RowType
  <1>2. FlagType'
    BY DEF FlagType
  <1>3. WorkType'
    BY DEF WorkType, RowType
  <1>4. CountType'
    BY DEF CountType
  <1> QED BY <1>1, <1>2, <1>3, <1>4

LEMMA SendPartType ==
  ASSUME TypeOK, NEW w \in Workers, SendPart(w)
  PROVE  TypeOK'
  <1> USE DEF TypeOK, rowVars
  <1> PICK p \in Parts : NextPart(w, p)
                         /\ (Acknowledged(w, cur[w], p) \/ Failed(w, cur[w], p))
    BY DEF SendPart
  <1> cur[w] \in Rows
    BY DEF SendPart, WorkType
  <1>1. RowType' /\ FlagType'
    <2>1. RowType' /\ lapsed' = lapsed /\ due' = due /\ obsolete' = obsolete /\ answered' = answered
      BY DEF SendPart, RowType
    <2>2. tried \in [Workers -> 0..(NRoutes - 1)] /\ NRoutes \in Nat \ {0}
      BY OutboxAssumption DEF FlagType
    <2>3. \/ tried' = [tried EXCEPT ![w] = 0]
          \/ tried[w] + 1 < NRoutes /\ tried' = [tried EXCEPT ![w] = @ + 1]
      BY DEF Acknowledged, Failed
    <2>4. tried' \in [Workers -> 0..(NRoutes - 1)]
      BY <2>2, <2>3
    <2> QED BY <2>1, <2>4 DEF FlagType
  <1>2. WorkType'
    <2>1. CASE Acknowledged(w, cur[w], p)
      <3>1. seen \in [Workers -> [Rows -> SUBSET Parts]]
        BY DEF WorkType
      <3>2. [seen EXCEPT ![w][cur[w]] = @ \cup {p}]
              \in [Workers -> [Rows -> SUBSET Parts]]
        BY ONLY <3>1, cur[w] \in Rows, p \in Parts, w \in Workers, NestedAdd
      <3> seen' \in [Workers -> [Rows -> SUBSET Parts]]
        BY <2>1, <3>1, <3>2 DEF Acknowledged
      <3> phase' \in [Workers -> Phases] /\ phase[w] = "send"
        BY <2>1 DEF SendPart, Acknowledged, WorkType
      <3> QED BY <2>1 DEF SendPart, Acknowledged, WorkType
    <2>2. CASE Failed(w, cur[w], p)
      BY <2>2 DEF SendPart, Failed, WorkType
    <2> QED BY <2>1, <2>2
  <1>3. CountType'
    <2> USE DEF CountType
    <2>1. delivered' \in [Rows -> [Parts -> Nat]]
      <3>1. CASE delivered' = [delivered EXCEPT ![cur[w]][p] = @ + 1]
        <4>1. delivered \in [Rows -> [Parts -> Nat]]
          OBVIOUS
        <4>2. [delivered EXCEPT ![cur[w]][p] = @ + 1] \in [Rows -> [Parts -> Nat]]
          BY ONLY <4>1, cur[w] \in Rows, p \in Parts, NestedCount
        <4> QED BY <3>1, <4>2
      <3>2. CASE delivered' = delivered
        BY <3>2
      <3> QED BY <3>1, <3>2 DEF Acknowledged, Failed
    <2>2. ambiguous' \in [Rows -> Nat]
      BY DEF Acknowledged, Failed
    <2> QED BY <2>1, <2>2 DEF SendPart
  <1> QED BY <1>1, <1>2, <1>3

LEMMA MarkFailedType ==
  ASSUME TypeOK, NEW w \in Workers, MarkFailed(w)
  PROVE  TypeOK'
  <1> USE DEF TypeOK, MarkFailed, NextRow, outVars
  <1>1. RowType'
    BY DEF RowType
  <1>2. FlagType'
    BY DEF FlagType
  <1>3. WorkType'
    <2> cur[w] \in Rows /\ {} \in SUBSET Parts
      BY DEF WorkType
    <2> seen' \in [Workers -> [Rows -> SUBSET Parts]]
      BY NestedUpdate DEF WorkType
    <2> QED BY DEF WorkType
  <1>4. CountType'
    BY DEF CountType
  <1> QED BY <1>1, <1>2, <1>3, <1>4

LEMMA ClaimInlineType ==
  ASSUME TypeOK, NEW w \in Workers, ClaimInline(w)
  PROVE  TypeOK'
  <1> USE DEF TypeOK, ClaimInline, InlineClaimable, outVars
  <1>1. RowType'
    BY OutboxAssumption DEF RowType
  <1>2. FlagType'
    BY DEF FlagType
  <1>3. WorkType'
    <2> cur[w] \in Rows
      BY DEF WorkType
    <2> saved[cur[w]] \in SUBSET Parts
      BY DEF RowType
    <2>1. seen \in [Workers -> [Rows -> SUBSET Parts]]
      BY DEF WorkType
    <2>2. [seen EXCEPT ![w][cur[w]] = saved[cur[w]]] \in [Workers -> [Rows -> SUBSET Parts]]
      BY <2>1, NestedUpdate
    <2> seen' \in [Workers -> [Rows -> SUBSET Parts]]
      BY <2>1, <2>2
    <2> QED BY DEF WorkType
  <1>4. CountType'
    BY DEF CountType
  <1> QED BY <1>1, <1>2, <1>3, <1>4

LEMMA WorkerStepType ==
  ASSUME TypeOK, NEW w \in Workers, WorkerStep(w)
  PROVE  TypeOK'
  <1> USE DEF TypeOK, RowType, FlagType, WorkType, CountType, rowVars, outVars
  <1>1. CASE ReadStatus(w)
    BY <1>1 DEF ReadStatus
  <1>2. CASE PickRow(w)
    <2>1. CASE todo[w] = {}
      BY <1>2, <2>1 DEF PickRow
    <2>2. ASSUME NEW r \in todo[w],
                 cur' = [cur EXCEPT ![w] = r],
                 todo' = [todo EXCEPT ![w] = @ \ {r}],
                 phase' = [phase EXCEPT ![w] = "send"]
          PROVE  WorkType'
      <3> r \in Rows /\ todo[w] \ {r} \in SUBSET Rows
        OBVIOUS
      <3> QED BY <1>2, <2>2 DEF PickRow
    <2>3. RowType' /\ FlagType' /\ CountType'
      BY <1>2 DEF PickRow
    <2> QED BY <1>2, <2>1, <2>2, <2>3 DEF PickRow
  <1>3. CASE RecordPart(w)
    <2> cur[w] \in Rows
      BY <1>3 DEF RecordPart
    <2>1. CASE saved' = saved /\ seen' = seen
      BY <1>3, <2>1 DEF RecordPart
    <2>2. ASSUME NEW p \in Parts,
                 saved' = [saved EXCEPT ![cur[w]] = @ \cup {p}],
                 seen'  = [seen EXCEPT ![w][cur[w]] = @ \cup {p}],
                 phase' = [phase EXCEPT ![w] = "send"]
          PROVE  TypeOK'
      <3>1. seen' \in [Workers -> [Rows -> SUBSET Parts]]
        <4>1. seen \in [Workers -> [Rows -> SUBSET Parts]]
          OBVIOUS
        <4>2. [seen EXCEPT ![w][cur[w]] = @ \cup {p}]
                \in [Workers -> [Rows -> SUBSET Parts]]
          BY ONLY <4>1, cur[w] \in Rows, p \in Parts, w \in Workers, NestedAdd
        <4> QED BY <2>2, <4>2
      <3>2. saved' \in [Rows -> SUBSET Parts]
        BY <2>2
      <3>3. phase' \in [Workers -> Phases]
        BY <2>2
      <3> QED BY <3>1, <3>2, <3>3, <1>3 DEF RecordPart
    <2> QED BY <1>3, <2>1, <2>2 DEF RecordPart
  <1>4. CASE MarkSent(w)
    BY <1>4 DEF MarkSent
  <1>5. CASE RecordResponse(w)
    <2> cur[w] \in Rows /\ {} \in SUBSET Parts
      BY <1>5 DEF RecordResponse
    <2> seen' \in [Workers -> [Rows -> SUBSET Parts]]
      BY <1>5, NestedUpdate DEF RecordResponse, NextRow
    <2> QED BY <1>5 DEF RecordResponse, NextRow
  <1> QED
    BY <1>1, <1>2, <1>3, <1>4, <1>5, ClaimInlineType, SendPartType, MarkFailedType
       DEF WorkerStep

LEMMA EnvironmentType ==
  ASSUME TypeOK,
         \/ \E w \in Workers : Crash(w)
         \/ \E r \in Rows : LeaseExpires(r) \/ BackoffElapses(r) \/ BecomesObsolete(r)
  PROVE  TypeOK'
  <1> USE DEF TypeOK, RowType, FlagType, WorkType, CountType, rowVars, workVars,
              outVars
  <1>1. ASSUME NEW w \in Workers, Crash(w) PROVE TypeOK'
    <2>1. tried' \in [Workers -> 0..(NRoutes - 1)]
      BY <1>1, OutboxAssumption DEF Crash
    <2> QED BY <1>1, <2>1 DEF Crash
  <1>2. ASSUME NEW r \in Rows, LeaseExpires(r) PROVE TypeOK'
    BY <1>2 DEF LeaseExpires
  <1>3. ASSUME NEW r \in Rows, BackoffElapses(r) PROVE TypeOK'
    BY <1>3 DEF BackoffElapses
  <1>4. ASSUME NEW r \in Rows, BecomesObsolete(r) PROVE TypeOK'
    BY <1>4 DEF BecomesObsolete
  <1> QED BY <1>1, <1>2, <1>3, <1>4

LEMMA StepType == TypeOK /\ [Next]_vars => TypeOK'
  <1> SUFFICES ASSUME TypeOK, [Next]_vars PROVE TypeOK'
    OBVIOUS
  <1>1. CASE UNCHANGED vars
    BY <1>1 DEF TypeOK, RowType, FlagType, WorkType, CountType, vars, rowVars,
                workVars, outVars
  <1> QED
    BY <1>1, EnqueueType, ClaimBatchType, WorkerStepType, EnvironmentType DEF Next

\* Every reachable state is well typed.
THEOREM TypeCorrect == Spec => []TypeOK
  BY InitType, StepType, PTL DEF Spec

(***************************************************************************)
(* What every step keeps: a delivery stays delivered, an inserted row      *)
(* keeps its inbound, and nothing goes out for a row not inserted yet.     *)
(***************************************************************************)
History ==
  /\ \A r \in Rows : \A p \in Parts : delivered[r][p] >= 1 => delivered'[r][p] >= 1
  /\ \A r \in Rows : inbound[r] # None => inbound'[r] = inbound[r]
  /\ \A r \in Rows : inbound[r] = None => delivered'[r] = delivered[r]

LEMMA SendPartHistory ==
  ASSUME TypeOK, WorkersSound, NEW w \in Workers, SendPart(w)
  PROVE  History
  <1> USE DEF TypeOK, WorkType, CountType
  <1>1. inbound' = inbound
    BY DEF SendPart, rowVars
  <1>2. CASE delivered' = delivered
    BY <1>1, <1>2 DEF History
  <1>3. ASSUME NEW p \in Parts, delivered' = [delivered EXCEPT ![cur[w]][p] = @ + 1]
        PROVE  History
    <2> cur[w] \in Rows /\ inbound[cur[w]] # None
      BY DEF SendPart, WorkersSound
    <2>3. \A r \in Rows : inbound[r] = None => delivered'[r] = delivered[r]
      BY <1>3
    <2> SUFFICES ASSUME NEW r \in Rows, NEW q \in Parts, delivered[r][q] >= 1
                 PROVE  delivered'[r][q] >= 1
      BY <1>1, <2>3 DEF History
    <2>1. delivered[r] \in [Parts -> Nat] /\ delivered[r][q] \in Nat
      BY DEF TypeOK
    <2>2. delivered'[r][q] = IF r = cur[w] /\ q = p THEN delivered[r][q] + 1
                             ELSE delivered[r][q]
      BY <1>3, <2>1
    <2> QED BY <2>1, <2>2
  <1> QED BY <1>2, <1>3 DEF SendPart, Acknowledged, Failed

LEMMA StepHistory ==
  ASSUME DeliveryInv, [Next]_vars
  PROVE  History
  <1> USE DEF DeliveryInv
  <1>1. CASE UNCHANGED <<delivered, inbound>>
    BY <1>1 DEF History
  <1>2. ASSUME NEW w \in Dispatchers, NEW i \in Inbounds, Enqueue(w, i)
        PROVE  History
    BY <1>2 DEF History, Accepted, Enqueue, RowsSound, outVars, TypeOK, RowType
  <1>3. ASSUME NEW w \in Workers, WorkerStep(w)
        PROVE  History
    BY <1>1, <1>3, SendPartHistory
       DEF WorkerStep, ClaimInline, ReadStatus, PickRow, RecordPart, MarkSent,
           MarkFailed, RecordResponse, rowVars, outVars
  <1>4. ASSUME NEW w \in CronWorkers, ClaimBatch(w)
        PROVE  History
    BY <1>1, <1>4 DEF ClaimBatch, outVars
  <1>5. ASSUME NEW w \in Workers, Crash(w)
        PROVE  History
    BY <1>1, <1>5 DEF Crash, rowVars, outVars
  <1>6. ASSUME NEW r \in Rows, LeaseExpires(r) \/ BackoffElapses(r) \/ BecomesObsolete(r)
        PROVE  History
    BY <1>1, <1>6 DEF LeaseExpires, BackoffElapses, BecomesObsolete, workVars, outVars
  <1>7. CASE UNCHANGED vars
    BY <1>1, <1>7 DEF vars, rowVars, outVars
  <1> QED BY <1>2, <1>3, <1>4, <1>5, <1>6, <1>7 DEF Next

\* A whole reply stays whole.
LEMMA WholeStays ==
  ASSUME TypeOK, History, NEW r \in Rows, inbound[r] # None, Whole(r)
  PROVE  Whole(r)'
  <1>1. PartsOf(r)' = PartsOf(r) /\ PartsOf(r) \subseteq Parts
    BY OutboxAssumption DEF History, PartsOf, Parts
  <1> QED BY <1>1 DEF Whole, History

(***************************************************************************)
(* The rows stay sound.                                                    *)
(***************************************************************************)

\* A step that inserts no row, checkpoints nothing, records no response and
\* marks nothing sent keeps the rows sound.
LEMMA RowsFrame ==
  ASSUME TypeOK, RowsSound, History, inbound' = inbound, saved' = saved,
         \A r \in Rows : status[r] = "absent" <=> status'[r] = "absent",
         \A r \in Rows : status'[r] = "sent" => status[r] = "sent",
         answered' = answered
  PROVE  RowsSound'
  <1>1. \A r \in Rows : saved[r] \subseteq Parts
    BY DEF TypeOK, RowType
  <1>2. \A r \in Rows : \A p \in saved[r] : delivered'[r][p] >= 1
    BY <1>1 DEF RowsSound, History
  <1>3. \A r \in Rows : inbound[r] # None /\ Whole(r) => Whole(r)'
    BY WholeStays
  <1>4. \A r \in Rows : status'[r] = "sent" => Whole(r)'
    BY <1>3 DEF RowsSound
  <1>5. \A r \in Rows : \A p \in Parts : inbound'[r] = None => delivered'[r][p] = 0
    BY DEF RowsSound, History
  <1> QED BY <1>2, <1>3, <1>4, <1>5 DEF RowsSound, OneRowPerInbound

LEMMA EnqueueRows ==
  ASSUME TypeOK, RowsSound, History,
         NEW w \in Dispatchers, NEW i \in Inbounds, Enqueue(w, i)
  PROVE  RowsSound'
  <1>1. CASE UNCHANGED <<status, inbound>>
    BY <1>1, RowsFrame DEF Accepted, Enqueue, outVars
  <1>2. ASSUME \A r \in Rows : inbound[r] # i,
               NEW s \in Rows, status[s] = "absent",
               status' = [status EXCEPT ![s] = "pending"],
               inbound' = [inbound EXCEPT ![s] = i]
        PROVE  RowsSound'
    <2> USE DEF TypeOK, RowType
    <2> i # None
      BY OutboxAssumption
    <2>1. \A r \in Rows : status'[r] = "absent" <=> inbound'[r] = None
      BY <1>2 DEF RowsSound
    <2>2. OneRowPerInbound'
      BY <1>2 DEF RowsSound, OneRowPerInbound
    <2>3. \A r \in Rows : \A p \in saved'[r] : delivered'[r][p] >= 1
      BY DEF RowsSound, History, Enqueue
    <2>4. \A r \in Rows : inbound[r] # None /\ Whole(r) => Whole(r)'
      BY WholeStays
    <2>5. \A r \in Rows : status'[r] = "sent" => Whole(r)'
      BY <1>2, <2>4 DEF RowsSound
    <2>6. \A r \in Rows : answered'[r] => inbound'[r] # None /\ Whole(r)'
      BY <1>2, <2>4 DEF RowsSound, Enqueue, outVars, History
    <2>7. \A r \in Rows : \A p \in Parts : inbound'[r] = None => delivered'[r][p] = 0
      BY <1>2 DEF RowsSound, History
    <2> QED BY <2>1, <2>2, <2>3, <2>5, <2>6, <2>7 DEF RowsSound
  <1> QED BY <1>1, <1>2 DEF Accepted, Enqueue

LEMMA WorkerStepRows ==
  ASSUME DeliveryInv, History, NEW w \in Workers, WorkerStep(w)
  PROVE  RowsSound'
  <1> USE DEF DeliveryInv
  <1>1. CASE ClaimInline(w)
    <2> cur[w] \in Rows /\ status \in [Rows -> Statuses]
      BY <1>1 DEF InlineClaimable, ClaimInline, TypeOK, WorkType, RowType
    <2>1. \A r \in Rows : /\ status[r] = "absent" <=> status'[r] = "absent"
                          /\ status'[r] = "sent" => status[r] = "sent"
      BY <1>1 DEF InlineClaimable, ClaimInline
    <2> QED BY <1>1, <2>1, RowsFrame DEF InlineClaimable, ClaimInline, outVars
  <1>2. CASE ReadStatus(w)
    BY <1>2, RowsFrame DEF ReadStatus, rowVars, outVars
  <1>3. CASE PickRow(w)
    BY <1>3, RowsFrame DEF PickRow, rowVars, outVars
  <1>4. CASE SendPart(w)
    BY <1>4, RowsFrame DEF SendPart, rowVars
  <1>5. CASE RecordPart(w)
    <2>1. CASE saved' = saved
      BY <1>5, <2>1, RowsFrame DEF RecordPart, outVars
    <2>2. ASSUME NEW p \in Parts, NextPart(w, p),
                 saved' = [saved EXCEPT ![cur[w]] = @ \cup {p}]
          PROVE  RowsSound'
      <3> cur[w] \in Rows /\ saved \in [Rows -> SUBSET Parts]
        BY <1>5 DEF RecordPart, TypeOK, WorkType, RowType
      <3>1. delivered[cur[w]][p] >= 1
        BY <1>5, <2>2 DEF WorkersSound, RecordPart
      <3>2. UNCHANGED <<status, inbound, delivered, answered>>
        BY <1>5 DEF RecordPart, outVars
      <3>3. \A r \in Rows : \A q \in saved'[r] : delivered'[r][q] >= 1
        BY <2>2, <3>1, <3>2 DEF RowsSound
      <3> QED
        BY <3>2, <3>3 DEF RowsSound, OneRowPerInbound, Whole, PartsOf
    <2> QED BY <1>5, <2>1, <2>2 DEF RecordPart
  <1>6. CASE MarkSent(w)
    <2> DEFINE r == cur[w]
    <2> r \in Rows /\ inbound[r] # None /\ status \in [Rows -> Statuses]
      BY <1>6 DEF MarkSent, TypeOK, WorkType, RowType, WorkersSound
    <2>1. UNCHANGED <<inbound, saved, delivered, answered>>
      BY <1>6 DEF MarkSent, outVars
    <2>2. Whole(r)
      <3>1. PartsOf(r) \subseteq seen[w][r]
        BY <1>6 DEF MarkSent, Remaining
      <3> QED BY <3>1 DEF Whole, WorkersSound
    <2>3. \A s \in Rows : status'[s] = status[s] \/ (s = r /\ status'[s] = "sent")
      BY <1>6 DEF MarkSent
    <2>4. \A s \in Rows : status'[s] = "sent" => Whole(s)
      BY <2>2, <2>3 DEF RowsSound
    <2>5. \A s \in Rows : status[s] = "absent" <=> status'[s] = "absent"
      BY <1>6 DEF MarkSent, Owns
    <2> QED
      BY <2>1, <2>4, <2>5 DEF RowsSound, OneRowPerInbound, Whole, PartsOf
  <1>7. CASE MarkFailed(w)
    <2> cur[w] \in Rows /\ status \in [Rows -> Statuses]
      BY <1>7 DEF MarkFailed, TypeOK, WorkType, RowType
    <2>1. \A r \in Rows : /\ status[r] = "absent" <=> status'[r] = "absent"
                          /\ status'[r] = "sent" => status[r] = "sent"
      BY <1>7 DEF MarkFailed, Owns
    <2> QED BY <1>7, <2>1, RowsFrame DEF MarkFailed, outVars
  <1>8. CASE RecordResponse(w)
    <2> cur[w] \in Rows /\ inbound[cur[w]] # None /\ Whole(cur[w])
      BY <1>8 DEF RecordResponse, TypeOK, WorkType, WorkersSound
    <2>1. UNCHANGED <<status, inbound, saved, delivered>>
      BY <1>8 DEF RecordResponse, rowVars
    <2>2. \A r \in Rows : answered'[r] => answered[r] \/ r = cur[w]
      BY <1>8 DEF RecordResponse, TypeOK, FlagType
    <2> QED
      BY <2>1, <2>2 DEF RowsSound, OneRowPerInbound, Whole, PartsOf
  <1> QED
    BY <1>1, <1>2, <1>3, <1>4, <1>5, <1>6, <1>7, <1>8 DEF WorkerStep

LEMMA StepRows ==
  ASSUME DeliveryInv, History, [Next]_vars
  PROVE  RowsSound'
  <1> USE DEF DeliveryInv
  <1>1. ASSUME NEW w \in CronWorkers, ClaimBatch(w)
        PROVE  RowsSound'
    <2>1. \A r \in Rows : /\ status[r] = "absent" <=> status'[r] = "absent"
                          /\ status'[r] = "sent" => status[r] = "sent"
      BY <1>1 DEF ClaimBatch, Reclaimable
    <2> QED BY <1>1, <2>1, RowsFrame DEF ClaimBatch, outVars
  <1>2. ASSUME NEW w \in Workers, Crash(w)
        PROVE  RowsSound'
    BY <1>2, RowsFrame DEF Crash, rowVars, outVars
  <1>3. ASSUME NEW r \in Rows, LeaseExpires(r) \/ BackoffElapses(r) \/ BecomesObsolete(r)
        PROVE  RowsSound'
    BY <1>3, RowsFrame DEF LeaseExpires, BackoffElapses, BecomesObsolete, outVars
  <1>4. CASE UNCHANGED vars
    BY <1>4, RowsFrame DEF vars, rowVars, outVars
  <1> QED BY <1>1, <1>2, <1>3, <1>4, EnqueueRows, WorkerStepRows DEF Next

(***************************************************************************)
(* The workers stay sound.                                                 *)
(***************************************************************************)
WorkerSound(w) ==
  /\ phase[w] \notin {"idle", "pick"} => inbound[cur[w]] # None
  /\ \A r \in todo[w] : inbound[r] # None
  /\ \A r \in Rows : \A p \in seen[w][r] : delivered[r][p] >= 1
  /\ phase[w] = "checkpoint" =>
       \A p \in Parts : NextPart(w, p) => delivered[cur[w]][p] >= 1
  /\ phase[w] = "record" => Whole(cur[w])

\* A worker that does not move stays sound whatever the others do.
LEMMA BystanderSound ==
  ASSUME TypeOK, History, NEW v \in Workers, WorkerSound(v),
         phase'[v] = phase[v], cur'[v] = cur[v], todo'[v] = todo[v],
         seen'[v] = seen[v]
  PROVE  WorkerSound(v)'
  <1> USE DEF WorkerSound, TypeOK, WorkType
  <1>1. phase[v] \notin {"idle", "pick"} => cur[v] \in Rows
    OBVIOUS
  <1>2. phase[v] \notin {"idle", "pick"} => inbound'[cur[v]] # None
    BY <1>1 DEF History
  <1>3. \A r \in todo[v] : inbound'[r] # None
    BY DEF History
  <1>4. \A r \in Rows : \A p \in seen[v][r] : delivered'[r][p] >= 1
    <2>1. \A r \in Rows : seen[v][r] \subseteq Parts
      OBVIOUS
    <2> QED BY <2>1 DEF History
  <1>5. phase[v] = "checkpoint" =>
          \A p \in Parts : NextPart(v, p)' => delivered'[cur[v]][p] >= 1
    <2> SUFFICES ASSUME phase[v] = "checkpoint"
                 PROVE  \A p \in Parts : NextPart(v, p)' => delivered'[cur[v]][p] >= 1
      OBVIOUS
    <2>1. inbound'[cur[v]] = inbound[cur[v]]
      BY <1>1 DEF History
    <2>2. \A p \in Parts : NextPart(v, p)' <=> NextPart(v, p)
      BY <2>1 DEF NextPart, Remaining, PartsOf
    <2> QED BY <1>1, <2>2 DEF History
  <1>6. phase[v] = "record" => Whole(cur[v])'
    BY <1>1, WholeStays
  <1> QED BY <1>2, <1>3, <1>4, <1>5, <1>6

LEMMA EnqueueWorkers ==
  ASSUME DeliveryInv, TypeOK', History,
         NEW w \in Dispatchers, NEW i \in Inbounds, Enqueue(w, i),
         NEW v \in Workers, WorkerSound(v)
  PROVE  WorkerSound(v)'
  <1> USE DEF DeliveryInv, TypeOK, WorkType, RowType
  <1>1. CASE v # w
    BY <1>1, BystanderSound DEF Accepted, Enqueue
  <1>2. CASE v = w
    <2>1. phase'[w] = "claim" /\ todo'[w] = todo[w] /\ seen'[w] = seen[w]
      BY <1>2 DEF Accepted, Enqueue
    <2>2. inbound'[cur'[w]] # None
      BY <1>2, OutboxAssumption DEF Accepted, Enqueue
    <2>3. \A r \in todo[w] : inbound'[r] # None
      BY <1>2 DEF WorkerSound, History
    <2>4. \A r \in Rows : \A p \in seen[w][r] : delivered'[r][p] >= 1
      BY <1>2 DEF WorkerSound, Enqueue, outVars
    <2> QED BY <1>2, <2>1, <2>2, <2>3, <2>4 DEF WorkerSound
  <1> QED BY <1>1, <1>2

LEMMA ClaimBatchWorkers ==
  ASSUME DeliveryInv, TypeOK', History, NEW w \in CronWorkers, ClaimBatch(w),
         NEW v \in Workers, WorkerSound(v)
  PROVE  WorkerSound(v)'
  <1> USE DEF DeliveryInv, TypeOK, WorkType, RowType
  <1>1. CASE v # w
    BY <1>1, BystanderSound DEF ClaimBatch
  <1>2. CASE v = w
    <2>1. phase'[w] \in {"idle", "pick"}
      BY <1>2 DEF ClaimBatch
    <2>2. \A r \in todo'[w] : inbound'[r] # None
      BY <1>2 DEF ClaimBatch, Reclaimable, RowsSound
    <2>3. \A r \in Rows : seen'[w][r] \subseteq saved[r]
      BY <1>2 DEF ClaimBatch
    <2>4. \A r \in Rows : \A p \in seen'[w][r] : delivered'[r][p] >= 1
      BY <2>3 DEF ClaimBatch, outVars, RowsSound
    <2> QED BY <1>2, <2>1, <2>2, <2>4 DEF WorkerSound
  <1> QED BY <1>1, <1>2

\* Leaving a row: nothing is claimed about it any more.
LEMMA NextRowWorkers ==
  ASSUME TypeOK, TypeOK', NEW w \in Workers, WorkerSound(w), NextRow(w),
         cur[w] \in Rows, UNCHANGED <<inbound, todo, delivered>>
  PROVE  WorkerSound(w)'
  <1> USE DEF TypeOK, WorkType
  <1>1. phase'[w] \in {"idle", "pick"} /\ todo'[w] = todo[w]
    BY DEF NextRow
  <1>2. \A r \in Rows : seen'[w][r] \subseteq seen[w][r]
    <2>1. seen'[w] = [seen[w] EXCEPT ![cur[w]] = {}]
      BY DEF NextRow
    <2> QED BY <2>1
  <1> QED BY <1>1, <1>2 DEF WorkerSound

LEMMA WorkerStepWorkers ==
  ASSUME DeliveryInv, TypeOK', History, NEW w \in Workers, WorkerStep(w),
         WorkerSound(w)
  PROVE  WorkerSound(w)'
  <1> USE DEF DeliveryInv, TypeOK, WorkType
  <1>1. CASE ClaimInline(w)
    <2>1. cur[w] \in Rows /\ cur' = cur /\ todo' = todo
          /\ UNCHANGED <<inbound, delivered>>
      BY <1>1 DEF InlineClaimable, ClaimInline, outVars
    <2>2. phase'[w] \in {"send", "status"}
      BY <1>1 DEF InlineClaimable, ClaimInline
    <2>3. \A r \in Rows : seen'[w][r] = seen[w][r] \/ seen'[w][r] = saved[r]
      <3>1. CASE seen' = seen
        BY <3>1
      <3>2. CASE seen' = [seen EXCEPT ![w][cur[w]] = saved[cur[w]]]
        <4>1. seen'[w] = [seen[w] EXCEPT ![cur[w]] = saved[cur[w]]]
          BY <3>2
        <4> QED BY <4>1
      <3> QED BY <1>1, <3>1, <3>2 DEF InlineClaimable, ClaimInline
    <2>4. \A r \in Rows : \A p \in seen'[w][r] : delivered[r][p] >= 1
      BY <2>3 DEF RowsSound, WorkerSound
    <2>5. inbound[cur[w]] # None
      BY <1>1 DEF InlineClaimable, ClaimInline, WorkerSound
    <2> QED BY <2>1, <2>2, <2>4, <2>5 DEF WorkerSound
  <1>2. CASE ReadStatus(w)
    <2>1. UNCHANGED <<inbound, delivered, todo, seen>> /\ cur[w] \in Rows
      BY <1>2 DEF ReadStatus, rowVars, outVars
    <2>2. CASE status[cur[w]] = "sent"
      BY <1>2, <2>1, <2>2 DEF ReadStatus, WorkerSound, RowsSound, Whole, PartsOf
    <2>3. CASE status[cur[w]] # "sent"
      BY <1>2, <2>1, <2>3 DEF ReadStatus, WorkerSound
    <2> QED BY <2>2, <2>3
  <1>3. CASE PickRow(w)
    <2>1. UNCHANGED <<inbound, delivered, seen>>
      BY <1>3 DEF PickRow, rowVars, outVars
    <2>2. phase'[w] \in {"idle", "send"} /\ todo'[w] \subseteq todo[w]
      BY <1>3 DEF PickRow
    <2>3. phase'[w] = "send" => inbound[cur'[w]] # None
      BY <1>3 DEF PickRow, WorkerSound
    <2> QED BY <2>1, <2>2, <2>3 DEF WorkerSound
  <1>4. CASE SendPart(w)
    <2>1. cur[w] \in Rows /\ UNCHANGED <<inbound, cur, todo>> /\ inbound[cur[w]] # None
      BY <1>4 DEF SendPart, rowVars, WorkerSound
    <2> PICK p \in Parts : NextPart(w, p)
                           /\ (Acknowledged(w, cur[w], p) \/ Failed(w, cur[w], p))
      BY <1>4 DEF SendPart
    <2>2. \A r \in Rows : \A q \in seen[w][r] : delivered'[r][q] >= 1
      <3>1. \A r \in Rows : seen[w][r] \subseteq Parts
        OBVIOUS
      <3> QED BY <3>1 DEF WorkerSound, History
    <2>3. CASE Failed(w, cur[w], p)
      <3>1. seen' = seen /\ phase'[w] \in {"send", "retry", "giveup"} /\ phase[w] = "send"
        BY <1>4, <2>3 DEF Failed, SendPart
      <3> QED BY <2>1, <2>2, <3>1 DEF WorkerSound
    <2>4. CASE Acknowledged(w, cur[w], p)
      <3>1. delivered'[cur[w]][p] >= 1
        <4>1. delivered[cur[w]] \in [Parts -> Nat] /\ delivered[cur[w]][p] \in Nat
          BY <2>1 DEF CountType
        <4>2. delivered'[cur[w]][p] = delivered[cur[w]][p] + 1
          BY <2>1, <2>4, <4>1 DEF Acknowledged, CountType
        <4> QED BY <4>1, <4>2
      <3>2. CASE inbound[cur[w]] \in Photos
        <4>1. phase'[w] = "checkpoint" /\ seen' = seen
          BY <2>4, <3>2 DEF Acknowledged
        <4>2. \A q \in Parts : NextPart(w, q)' => q = p
          <5>1. \A q \in Parts : NextPart(w, q)' <=> NextPart(w, q)
            BY <2>1, <4>1 DEF NextPart, Remaining, PartsOf
          <5>2. \A q \in Parts : NextPart(w, q) => q <= p /\ p <= q
            BY DEF NextPart
          <5> QED BY <5>1, <5>2 DEF Parts
        <4> QED BY <2>1, <2>2, <3>1, <4>1, <4>2 DEF WorkerSound
      <3>3. CASE inbound[cur[w]] \notin Photos
        <4>1. phase'[w] = "send" /\ seen'[w] = [seen[w] EXCEPT ![cur[w]] = @ \cup {p}]
          BY <1>4, <2>4, <3>3 DEF Acknowledged, SendPart
        <4>2. \A r \in Rows : \A q \in seen'[w][r] : delivered'[r][q] >= 1
          <5> SUFFICES ASSUME NEW r \in Rows, NEW q \in seen'[w][r]
                       PROVE  delivered'[r][q] >= 1
            OBVIOUS
          <5>1. q \in seen[w][r] \/ (r = cur[w] /\ q = p)
            BY <2>1, <4>1
          <5> QED BY <2>2, <3>1, <5>1
        <4> QED BY <2>1, <4>1, <4>2 DEF WorkerSound
      <3> QED BY <3>2, <3>3
    <2> QED BY <2>3, <2>4
  <1>5. CASE RecordPart(w)
    <2>1. cur[w] \in Rows /\ UNCHANGED <<inbound, cur, todo, delivered>>
          /\ inbound[cur[w]] # None
      BY <1>5 DEF RecordPart, outVars, WorkerSound
    <2>2. phase'[w] \in {"send", "retry"}
      BY <1>5 DEF RecordPart
    <2>3. \A r \in Rows : \A q \in seen'[w][r] : delivered[r][q] >= 1
      <3>1. CASE seen' = seen
        BY <3>1 DEF WorkerSound
      <3>2. ASSUME NEW p \in Parts, NextPart(w, p),
                   seen' = [seen EXCEPT ![w][cur[w]] = @ \cup {p}]
            PROVE  \A r \in Rows : \A q \in seen'[w][r] : delivered[r][q] >= 1
        <4>1. delivered[cur[w]][p] >= 1
          BY <1>5, <3>2 DEF RecordPart, WorkerSound
        <4>2. seen'[w] = [seen[w] EXCEPT ![cur[w]] = @ \cup {p}]
          BY <3>2
        <4>3. \A r \in Rows : \A q \in seen'[w][r] :
                q \in seen[w][r] \/ (r = cur[w] /\ q = p)
          BY <2>1, <4>2
        <4> QED BY <4>1, <4>3 DEF WorkerSound
      <3> QED BY <1>5, <3>1, <3>2 DEF RecordPart
    <2> QED BY <2>1, <2>2, <2>3 DEF WorkerSound
  <1>6. CASE MarkSent(w)
    <2>1. cur[w] \in Rows /\ UNCHANGED <<inbound, cur, todo, seen, delivered>>
      BY <1>6 DEF MarkSent, outVars
    <2>2. phase'[w] = "record"
      BY <1>6 DEF MarkSent
    <2>3. Whole(cur[w])
      <3>1. PartsOf(cur[w]) \subseteq seen[w][cur[w]]
        BY <1>6 DEF MarkSent, Remaining
      <3> QED BY <2>1, <3>1 DEF Whole, WorkerSound
    <2>4. inbound[cur[w]] # None
      BY <1>6 DEF MarkSent, WorkerSound
    <2> QED BY <2>1, <2>2, <2>3, <2>4 DEF WorkerSound, Whole, PartsOf
  <1>7. CASE MarkFailed(w)
    BY <1>7, NextRowWorkers DEF MarkFailed, outVars
  <1>8. CASE RecordResponse(w)
    BY <1>8, NextRowWorkers DEF RecordResponse, rowVars
  <1> QED
    BY <1>1, <1>2, <1>3, <1>4, <1>5, <1>6, <1>7, <1>8 DEF WorkerStep

\* The steps of one worker leave the variables of the others alone.
LEMMA WorkerStepLocal ==
  ASSUME TypeOK, NEW w \in Workers, WorkerStep(w), NEW v \in Workers, v # w
  PROVE  /\ phase'[v] = phase[v] /\ cur'[v] = cur[v]
         /\ todo'[v] = todo[v] /\ seen'[v] = seen[v] /\ tried'[v] = tried[v]
  <1> USE DEF TypeOK, WorkType, FlagType
  <1>1. CASE ClaimInline(w) BY <1>1 DEF InlineClaimable, ClaimInline
  <1>2. CASE ReadStatus(w) BY <1>2 DEF ReadStatus
  <1>3. CASE PickRow(w) BY <1>3 DEF PickRow
  <1>4. CASE SendPart(w) BY <1>4 DEF SendPart, Acknowledged, Failed
  <1>5. CASE RecordPart(w) BY <1>5 DEF RecordPart
  <1>6. CASE MarkSent(w) BY <1>6 DEF MarkSent
  <1>7. CASE MarkFailed(w) BY <1>7 DEF MarkFailed, NextRow
  <1>8. CASE RecordResponse(w) BY <1>8 DEF RecordResponse, NextRow
  <1> QED
    BY <1>1, <1>2, <1>3, <1>4, <1>5, <1>6, <1>7, <1>8 DEF WorkerStep

LEMMA StepWorkers ==
  ASSUME DeliveryInv, TypeOK', History, [Next]_vars
  PROVE  WorkersSound'
  <1> SUFFICES ASSUME NEW v \in Workers, WorkerSound(v)
               PROVE  WorkerSound(v)'
    BY DEF DeliveryInv, WorkersSound, WorkerSound
  <1> USE DEF DeliveryInv
  <1>1. ASSUME NEW w \in Workers, WorkerStep(w)
        PROVE  WorkerSound(v)'
    <2>1. CASE v = w
      BY <1>1, <2>1, WorkerStepWorkers
    <2>2. CASE v # w
      BY <1>1, <2>2, WorkerStepLocal, BystanderSound
    <2> QED BY <2>1, <2>2
  <1>2. ASSUME NEW w \in Workers, Crash(w)
        PROVE  WorkerSound(v)'
    <2> USE DEF TypeOK, WorkType
    <2>1. CASE v = w
      BY <1>2, <2>1 DEF Crash, WorkerSound
    <2>2. CASE v # w
      BY <1>2, <2>2, BystanderSound DEF Crash
    <2> QED BY <2>1, <2>2
  <1>3. ASSUME NEW r \in Rows, LeaseExpires(r) \/ BackoffElapses(r) \/ BecomesObsolete(r)
        PROVE  WorkerSound(v)'
    BY <1>3, BystanderSound
       DEF LeaseExpires, BackoffElapses, BecomesObsolete, workVars
  <1>4. CASE UNCHANGED vars
    BY <1>4, BystanderSound DEF vars, workVars
  <1> QED
    BY <1>1, <1>2, <1>3, <1>4, EnqueueWorkers, ClaimBatchWorkers DEF Next

(***************************************************************************)
(* The theorems.                                                           *)
(***************************************************************************)
LEMMA InitDelivery == Init => DeliveryInv
  <1> SUFFICES ASSUME Init PROVE RowsSound /\ WorkersSound
    BY InitType DEF DeliveryInv
  <1> USE DEF Init
  <1>1. RowsSound
    BY DEF RowsSound, OneRowPerInbound
  <1>2. WorkersSound
    BY DEF WorkersSound
  <1> QED BY <1>1, <1>2

LEMMA StepDelivery == DeliveryInv /\ [Next]_vars => DeliveryInv'
  <1> SUFFICES ASSUME DeliveryInv, [Next]_vars PROVE DeliveryInv'
    OBVIOUS
  <1>1. TypeOK'
    BY StepType DEF DeliveryInv
  <1>2. History
    BY StepHistory DEF DeliveryInv
  <1> QED BY <1>1, <1>2, StepRows, StepWorkers DEF DeliveryInv

\* What rows and workers believe delivered has been delivered, always.
THEOREM DeliveryInvariant == Spec => []DeliveryInv
  BY InitDelivery, StepDelivery, PTL DEF Spec

\* A row is marked sent only when every message of it has gone out, and a
\* successful response is recorded only then, for any number of processes,
\* crashes and lost leases; one inbound never gets a second envelope.
THEOREM SentIsDelivered == Spec => [](SentWasDelivered /\ AnswerWasDelivered /\ OneRowPerInbound)
  <1>1. DeliveryInv => SentWasDelivered /\ AnswerWasDelivered /\ OneRowPerInbound
    BY DEF DeliveryInv, RowsSound, Whole, SentWasDelivered, AnswerWasDelivered
  <1> QED BY <1>1, DeliveryInvariant, PTL

\* In particular a successful response is recorded only for a whole reply,
\* also by a process that did not send it.
THEOREM AnswersWereDelivered == Spec => []AnswerWasDelivered
  BY SentIsDelivered, PTL

(***************************************************************************)
(* Refinement: Outbox implements ReplyPromise.                             *)
(***************************************************************************)

\* A step that inserts nothing, delivers nothing and closes nothing is a
\* stutter of the promise.
LEMMA PromiseStutter ==
  ASSUME UNCHANGED <<inbound, delivered>>,
         \A r \in Rows : (status'[r] = "sent" <=> status[r] = "sent")
                       /\ (status'[r] = "dead" <=> status[r] = "dead")
  PROVE  UNCHANGED Promise!promiseVars
  BY DEF Promise!promiseVars, PartsOf

LEMMA PromiseEnqueue ==
  ASSUME DeliveryInv, DeliveryInv', NEW w \in Dispatchers, NEW i \in Inbounds,
         Enqueue(w, i)
  PROVE  [Promise!PromiseNext]_(Promise!promiseVars)
  <1> USE DEF DeliveryInv, TypeOK, RowType
  <1>1. CASE UNCHANGED <<status, inbound>>
    BY <1>1, PromiseStutter DEF Accepted, Enqueue, outVars
  <1>2. ASSUME \A r \in Rows : inbound[r] # i,
               NEW s \in Rows, status[s] = "absent",
               status' = [status EXCEPT ![s] = "pending"],
               inbound' = [inbound EXCEPT ![s] = i]
        PROVE  Promise!Accept(s, i)
    <2>1. delivered' = delivered
      BY DEF Accepted, Enqueue, outVars
    <2>2. inbound[s] = None
      BY <1>2 DEF RowsSound
    <2>3. \A r \in Rows : (status'[r] = "sent" <=> status[r] = "sent")
                         /\ (status'[r] = "dead" <=> status[r] = "dead")
      BY <1>2
    <2>4. \A r \in Rows : (\A p \in PartsOf(r)' : delivered'[r][p] >= 1)
                         <=> (\A p \in PartsOf(r) : delivered[r][p] >= 1)
      <3>1. 1 \in Parts
        BY OutboxAssumption DEF Parts
      <3>2. 1 \in PartsOf(s) /\ 1 \in PartsOf(s)'
        BY <3>1 DEF PartsOf
      <3>3. delivered[s][1] = 0
        BY <2>2, <3>1 DEF RowsSound
      <3>4. \A r \in Rows : r # s => PartsOf(r)' = PartsOf(r)
        BY <1>2 DEF PartsOf
      <3> QED BY <2>1, <3>2, <3>3, <3>4
    <2> QED BY <1>2, <2>2, <2>3, <2>4 DEF Promise!Accept
  <1> QED BY <1>1, <1>2 DEF Accepted, Enqueue, Promise!PromiseNext

LEMMA PromiseReach ==
  ASSUME NEW r \in Rows, inbound[r] # None, UNCHANGED <<status, inbound>>,
         Whole(r)', \A s \in Rows : s # r => (Whole(s)' <=> Whole(s))
  PROVE  Promise!Reach(r)
  <1> DEFINE before == [s \in Rows |-> Whole(s)]
             after  == [s \in Rows |-> Whole(s)']
  <1>1. \A s \in Rows : Whole(s)' = IF s = r THEN TRUE ELSE Whole(s)
    BY DEF Whole
  <1>2. after = [s \in Rows |-> IF s = r THEN TRUE ELSE Whole(s)]
    BY <1>1, Zenon
  <1>3. [before EXCEPT ![r] = TRUE] = [s \in Rows |-> IF s = r THEN TRUE ELSE Whole(s)]
    OBVIOUS
  <1>4. after = [before EXCEPT ![r] = TRUE]
    BY <1>2, <1>3
  <1> QED BY <1>4 DEF Promise!Reach, Whole

LEMMA PromiseSend ==
  ASSUME DeliveryInv, History, NEW w \in Workers, SendPart(w)
  PROVE  [Promise!PromiseNext]_(Promise!promiseVars)
  <1> USE DEF DeliveryInv, TypeOK, WorkType
  <1>1. UNCHANGED <<status, inbound>>
    BY DEF SendPart, rowVars
  <1>2. PICK r \in Rows : r = cur[w] /\ inbound[r] # None
    BY DEF SendPart, WorkersSound
  <1>3. \A s \in Rows : s # r => delivered'[s] = delivered[s]
    BY <1>2 DEF SendPart, Acknowledged, Failed, CountType
  <1>4. \A s \in Rows : s # r => (Whole(s)' <=> Whole(s))
    BY <1>1, <1>3 DEF Whole, PartsOf
  <1>5. Whole(r) => Whole(r)'
    BY <1>2, WholeStays
  <1>6. CASE Whole(r)' <=> Whole(r)
    <2>1. \A s \in Rows : Whole(s)' <=> Whole(s)
      BY <1>4, <1>6
    <2> QED BY <1>1, <2>1 DEF Promise!promiseVars, Whole
  <1>7. CASE Whole(r)' /\ ~Whole(r)
    <2>1. Promise!Reach(r)
      BY <1>1, <1>2, <1>4, <1>7, PromiseReach
    <2> QED BY <2>1 DEF Promise!PromiseNext
  <1> QED BY <1>5, <1>6, <1>7

LEMMA PromiseMarkSent ==
  ASSUME DeliveryInv, NEW w \in Workers, MarkSent(w)
  PROVE  [Promise!PromiseNext]_(Promise!promiseVars)
  <1> USE DEF DeliveryInv, TypeOK, WorkType, RowType
  <1>1. UNCHANGED <<inbound, delivered>>
    BY DEF MarkSent, outVars
  <1>2. PICK r \in Rows : r = cur[w]
    BY DEF MarkSent
  <1>3. CASE Owns(w, r)
    <2>1. status[r] = "leased" /\ status' = [status EXCEPT ![r] = "sent"]
      BY <1>2, <1>3 DEF MarkSent, Owns
    <2>2. Whole(r)
      <3>1. PartsOf(r) \subseteq seen[w][r]
        BY <1>2 DEF MarkSent, Remaining
      <3> QED BY <1>2, <3>1 DEF WorkersSound, Whole
    <2>3. Promise!CloseDelivered(r)
      <3>1. \A s \in Rows : Whole(s)' <=> Whole(s)
        BY <1>1 DEF Whole, PartsOf
      <3> QED BY <1>1, <2>1, <2>2, <3>1 DEF Promise!CloseDelivered, Whole
    <2> QED BY <2>3 DEF Promise!PromiseNext
  <1>4. CASE ~Owns(w, r)
    BY <1>1, <1>2, <1>4, PromiseStutter DEF MarkSent
  <1> QED BY <1>3, <1>4

LEMMA PromiseBury ==
  ASSUME DeliveryInv, UNCHANGED <<inbound, delivered>>,
         NEW R \in SUBSET Rows,
         \A r \in R : status[r] \in {"pending", "failed", "leased"} /\ status'[r] = "dead",
         \A r \in Rows \ R : (status'[r] = "sent" <=> status[r] = "sent")
                           /\ (status'[r] = "dead" <=> status[r] = "dead")
  PROVE  [Promise!PromiseNext]_(Promise!promiseVars)
  <1>1. \A r \in R : inbound[r] # None
    BY DEF DeliveryInv, RowsSound
  <1>2. Promise!Abandon(R)
    BY <1>1 DEF Promise!Abandon, PartsOf
  <1> QED BY <1>2 DEF Promise!PromiseNext

LEMMA PromiseMarkFailed ==
  ASSUME DeliveryInv, NEW w \in Workers, MarkFailed(w)
  PROVE  [Promise!PromiseNext]_(Promise!promiseVars)
  <1> USE DEF DeliveryInv, TypeOK, WorkType, RowType
  <1>1. UNCHANGED <<inbound, delivered>>
    BY DEF MarkFailed, outVars
  <1>2. cur[w] \in Rows
    BY DEF MarkFailed
  <1>3. CASE status'[cur[w]] = "dead" /\ Owns(w, cur[w])
    <2> DEFINE R == {cur[w]}
    <2>1. \A r \in Rows \ R : status'[r] = status[r]
      BY DEF MarkFailed
    <2>2. \A r \in R : status[r] = "leased" /\ status'[r] = "dead"
      BY <1>3 DEF Owns
    <2>3. R \in SUBSET Rows
      BY <1>2
    <2> HIDE DEF R
    <2> QED BY <1>1, <2>1, <2>2, <2>3, PromiseBury
  <1>4. CASE ~(status'[cur[w]] = "dead" /\ Owns(w, cur[w]))
    <2>1. \A r \in Rows : (status'[r] = "sent" <=> status[r] = "sent")
                         /\ (status'[r] = "dead" <=> status[r] = "dead")
      BY <1>2, <1>4 DEF MarkFailed, Owns
    <2> QED BY <1>1, <2>1, PromiseStutter
  <1> QED BY <1>3, <1>4

LEMMA PromiseClaimBatch ==
  ASSUME DeliveryInv, NEW w \in CronWorkers, ClaimBatch(w)
  PROVE  [Promise!PromiseNext]_(Promise!promiseVars)
  <1> DEFINE R == {r \in Rows : Reclaimable(r) /\ obsolete[r]}
  <1>1. UNCHANGED <<inbound, delivered>>
    BY DEF ClaimBatch, outVars
  <1>2. \A r \in R : status[r] \in {"pending", "failed", "leased"} /\ status'[r] = "dead"
    BY DEF ClaimBatch, Reclaimable
  <1>3. \A r \in Rows \ R : (status'[r] = "sent" <=> status[r] = "sent")
                          /\ (status'[r] = "dead" <=> status[r] = "dead")
    BY DEF ClaimBatch, Reclaimable
  <1> QED BY <1>1, <1>2, <1>3, PromiseBury

LEMMA StepPromise ==
  ASSUME DeliveryInv, DeliveryInv', [Next]_vars
  PROVE  [Promise!PromiseNext]_(Promise!promiseVars)
  <1> USE DEF DeliveryInv
  <1>1. ASSUME NEW w \in Workers, WorkerStep(w)
        PROVE  [Promise!PromiseNext]_(Promise!promiseVars)
    <2>1. CASE ClaimInline(w)
      <3>1. \A r \in Rows : (status'[r] = "sent" <=> status[r] = "sent")
                           /\ (status'[r] = "dead" <=> status[r] = "dead")
        BY <2>1 DEF InlineClaimable, ClaimInline, TypeOK, RowType
      <3> QED BY <2>1, <3>1, PromiseStutter DEF InlineClaimable, ClaimInline, outVars
    <2>2. CASE ReadStatus(w) \/ PickRow(w)
      BY <2>2, PromiseStutter DEF ReadStatus, PickRow, rowVars, outVars
    <2>3. CASE RecordPart(w)
      BY <2>3, PromiseStutter DEF RecordPart, outVars
    <2>4. CASE RecordResponse(w)
      BY <2>4, PromiseStutter DEF RecordResponse, rowVars
    <2>5. CASE SendPart(w)
      BY <2>5, StepHistory, PromiseSend
    <2> QED
      BY <1>1, <2>1, <2>2, <2>3, <2>4, <2>5, PromiseMarkSent, PromiseMarkFailed
         DEF WorkerStep
  <1>2. ASSUME NEW w \in Workers, Crash(w)
        PROVE  [Promise!PromiseNext]_(Promise!promiseVars)
    BY <1>2, PromiseStutter DEF Crash, rowVars, outVars
  <1>3. ASSUME NEW r \in Rows, LeaseExpires(r) \/ BackoffElapses(r) \/ BecomesObsolete(r)
        PROVE  [Promise!PromiseNext]_(Promise!promiseVars)
    BY <1>3, PromiseStutter
       DEF LeaseExpires, BackoffElapses, BecomesObsolete, workVars, outVars
  <1>4. CASE UNCHANGED vars
    BY <1>4, PromiseStutter DEF vars, rowVars, outVars
  <1> QED
    BY <1>1, <1>2, <1>3, <1>4, PromiseEnqueue, PromiseClaimBatch DEF Next

LEMMA InitPromise == Init => Promise!PromiseInit
  BY OutboxAssumption DEF Init, Promise!PromiseInit, PartsOf, Parts

\* The queue keeps its promise, whatever the number of rows, workers and
\* parts: one reply per inbound, closed once, delivered only when it is out.
THEOREM OutboxKeepsPromise == Spec => KeepsPromise
  BY InitPromise, StepPromise, DeliveryInvariant, PTL
     DEF Spec, KeepsPromise, Promise!PromiseSpec

(***************************************************************************)
(* Leases: who holds a row, and what the holder knows of it.               *)
(***************************************************************************)

\* The rows a worker has in hand: while no lease of one has lapsed it owns it,
\* as owner it knows all checkpoints, and of a plain reply it knows nothing
\* but that it just went out.
HandSound(w) ==
  /\ w \in Dispatchers => todo[w] = {}
  /\ phase[w] \in {"claim", "status"} => w \in Dispatchers
  /\ phase[w] = "idle" => todo[w] = {}
  /\ phase[w] \notin {"idle", "pick"} => cur[w] \notin todo[w]
  /\ phase[w] = "checkpoint" => inbound[cur[w]] \in Photos
  /\ \A r \in Rows : Engaged(w, r) =>
       /\ lapses[r] = 0 => Owns(w, r)
       /\ Owns(w, r) /\ inbound[r] \in Photos => seen[w][r] = saved[r]
       /\ inbound[r] \notin Photos =>
            \/ seen[w][r] = {}
            \/ seen[w][r] = {1} /\ cur[w] = r /\ phase[w] = "send"

\* Only leases lapse, and it is counted; plain replies have no checkpoints.
RowsLeased ==
  \A r \in Rows : /\ lapsed[r] => status[r] = "leased" /\ lapses[r] >= 1
                  /\ inbound[r] \notin Photos => saved[r] = {}

LeaseInv == DeliveryInv /\ RowsLeased /\ \A w \in Workers : HandSound(w)

\* A row that a worker has in hand was inserted.
LEMMA EngagedInserted ==
  ASSUME DeliveryInv, NEW w \in Workers, NEW r \in Rows, Engaged(w, r)
  PROVE  inbound[r] # None
  BY DEF DeliveryInv, WorkersSound, Engaged

\* Whatever another worker does, an owner whose lease has not lapsed stays
\* one, nobody becomes an owner by it, and no owner's checkpoints change.
Undisturbed(v) ==
  /\ phase'[v] = phase[v] /\ cur'[v] = cur[v] /\ todo'[v] = todo[v] /\ seen'[v] = seen[v]
  /\ tried'[v] = tried[v]
  /\ \A r \in Rows :
       /\ Owns(v, r) /\ ~lapsed[r] => Owns(v, r)'
       /\ Owns(v, r)' => Owns(v, r) /\ saved'[r] = saved[r] /\ (lapsed[r] => lapsed'[r])
       /\ lapses'[r] >= lapses[r]

\* A worker's step disturbs no other.
LEMMA WorkerStepUndisturbed ==
  ASSUME LeaseInv, NEW w \in Workers, WorkerStep(w), NEW v \in Workers, v # w
  PROVE  Undisturbed(v)
  <1> USE DEF LeaseInv, DeliveryInv, TypeOK, WorkType, RowType, FlagType, CountType
  <1>0. /\ phase'[v] = phase[v] /\ cur'[v] = cur[v]
        /\ todo'[v] = todo[v] /\ seen'[v] = seen[v] /\ tried'[v] = tried[v]
    BY WorkerStepLocal
  <1>1. CASE ClaimInline(w)
    BY <1>0, <1>1 DEF ClaimInline, InlineClaimable, Undisturbed, Owns, RowsLeased, outVars
  <1>2. CASE ReadStatus(w) \/ PickRow(w) \/ SendPart(w) \/ RecordResponse(w)
    BY <1>0, <1>2
       DEF ReadStatus, PickRow, SendPart, RecordResponse, Undisturbed, Owns, rowVars, outVars
  <1>5. CASE RecordPart(w)
    BY <1>0, <1>5 DEF RecordPart, Undisturbed, Owns, outVars
  <1>6. CASE MarkSent(w)
    <2>1. ASSUME NEW r \in Rows
          PROVE  \/ /\ status'[r] = status[r] /\ owner'[r] = owner[r] /\ lapsed'[r] = lapsed[r]
                 \/ status[r] = "leased" /\ owner[r] = w /\ status'[r] # "leased"
      BY <1>6 DEF MarkSent, Owns
    <2>2. saved' = saved /\ lapses' = lapses
      BY <1>6 DEF MarkSent, outVars
    <2>3. \A r \in Rows : lapses[r] >= lapses[r]
      OBVIOUS
    <2> QED BY <1>0, <2>1, <2>2, <2>3 DEF Undisturbed, Owns
  <1>7. CASE MarkFailed(w)
    <2>1. ASSUME NEW r \in Rows
          PROVE  \/ /\ status'[r] = status[r] /\ owner'[r] = owner[r] /\ lapsed'[r] = lapsed[r]
                 \/ status[r] = "leased" /\ owner[r] = w /\ status'[r] # "leased"
      BY <1>7 DEF MarkFailed, Owns
    <2>2. saved' = saved /\ lapses' = lapses
      BY <1>7 DEF MarkFailed, outVars
    <2>3. \A r \in Rows : lapses[r] >= lapses[r]
      OBVIOUS
    <2> QED BY <1>0, <2>1, <2>2, <2>3 DEF Undisturbed, Owns
  <1> QED BY <1>1, <1>2, <1>5, <1>6, <1>7 DEF WorkerStep

\* Nor does a crash, a batch claim or an acceptance.
LEMMA OtherStepUndisturbed ==
  ASSUME LeaseInv, NEW w \in Workers, NEW v \in Workers, v # w,
         \/ Crash(w)
         \/ w \in CronWorkers /\ ClaimBatch(w)
         \/ w \in Dispatchers /\ \E i \in Inbounds : Enqueue(w, i)
  PROVE  Undisturbed(v)
  <1> USE DEF LeaseInv, DeliveryInv, TypeOK, WorkType, RowType, FlagType, CountType, Undisturbed, Owns
  <1>1. CASE Crash(w)
    BY <1>1 DEF Crash, rowVars, outVars
  <1>2. CASE w \in CronWorkers /\ ClaimBatch(w)
    BY <1>2 DEF ClaimBatch, Reclaimable, RowsLeased, outVars
  <1>3. ASSUME NEW i \in Inbounds, w \in Dispatchers, Enqueue(w, i) PROVE Undisturbed(v)
    BY <1>3 DEF Enqueue, Accepted, RowsSound, outVars
  <1> QED BY <1>1, <1>2, <1>3

\* Time and customers disturb nobody.
LEMMA EnvironmentUndisturbed ==
  ASSUME LeaseInv, NEW v \in Workers,
         \/ \E r \in Rows : LeaseExpires(r) \/ BackoffElapses(r) \/ BecomesObsolete(r)
         \/ UNCHANGED vars
  PROVE  Undisturbed(v)
  <1> USE DEF LeaseInv, DeliveryInv, TypeOK, WorkType, RowType, FlagType, CountType,
              Undisturbed, Owns, workVars
  <1>1. ASSUME NEW r \in Rows, LeaseExpires(r) PROVE Undisturbed(v)
    BY <1>1 DEF LeaseExpires
  <1>2. ASSUME NEW r \in Rows, BackoffElapses(r) \/ BecomesObsolete(r) PROVE Undisturbed(v)
    BY <1>2 DEF BackoffElapses, BecomesObsolete, outVars
  <1>3. CASE UNCHANGED vars
    BY <1>3 DEF vars, rowVars, outVars
  <1> QED BY <1>1, <1>2, <1>3

\* So its hand stays sound.
LEMMA UndisturbedHand ==
  ASSUME LeaseInv, History, NEW v \in Workers, Undisturbed(v)
  PROVE  HandSound(v)'
  <1> USE DEF LeaseInv, DeliveryInv, TypeOK, WorkType, RowType, FlagType, CountType
  <1>1. \A r \in Rows : Engaged(v, r)' <=> Engaged(v, r)
    BY DEF Undisturbed, Engaged
  <1>2. \A r \in Rows : Engaged(v, r) => inbound'[r] = inbound[r]
    BY EngagedInserted DEF History
  <1>3. phase[v] = "checkpoint" => inbound'[cur[v]] \in Photos
    BY <1>2 DEF HandSound, Engaged
  <1>4. ASSUME NEW r \in Rows, Engaged(v, r)
        PROVE  /\ lapses'[r] = 0 => Owns(v, r)'
               /\ Owns(v, r)' /\ inbound'[r] \in Photos => seen'[v][r] = saved'[r]
               /\ inbound'[r] \notin Photos =>
                    \/ seen'[v][r] = {}
                    \/ seen'[v][r] = {1} /\ cur'[v] = r /\ phase'[v] = "send"
    BY <1>2, <1>4 DEF HandSound, Undisturbed, RowsLeased
  <1> QED BY <1>1, <1>3, <1>4 DEF HandSound, Undisturbed
-----------------------------------------------------------------------------
\* The rows' part.
LEMMA StepRowsLeased ==
  ASSUME LeaseInv, History, [Next]_vars
  PROVE  RowsLeased'
  <1> USE DEF LeaseInv, DeliveryInv, TypeOK, WorkType, RowType, FlagType, CountType, RowsLeased
  <1>1. ASSUME NEW w \in Workers, WorkerStep(w)
        PROVE  RowsLeased'
    <2>1. CASE ClaimInline(w)
      BY <2>1 DEF ClaimInline, InlineClaimable, outVars
    <2>2. CASE ReadStatus(w) \/ PickRow(w) \/ SendPart(w) \/ RecordResponse(w)
      BY <2>2 DEF ReadStatus, PickRow, SendPart, RecordResponse, rowVars, outVars
    <2>3. CASE RecordPart(w)
      <3>1. inbound[cur[w]] \in Photos
        BY <2>3 DEF RecordPart, HandSound
      <3>2. /\ UNCHANGED <<inbound, status, lapsed, lapses>> /\ cur[w] \in Rows
            /\ \A r \in Rows : r # cur[w] => saved'[r] = saved[r]
        BY <2>3 DEF RecordPart, outVars
      <3> QED BY <3>1, <3>2
    <2>4. CASE MarkSent(w)
      BY <2>4 DEF MarkSent, outVars
    <2>5. CASE MarkFailed(w)
      <3>1. UNCHANGED <<inbound, saved, lapses>>
        BY <2>5 DEF MarkFailed, outVars
      <3>2. \A r \in Rows : lapsed'[r] => lapsed[r] /\ status'[r] = status[r]
        BY <2>5 DEF MarkFailed
      <3> QED BY <3>1, <3>2
    <2> QED BY <1>1, <2>1, <2>2, <2>3, <2>4, <2>5 DEF WorkerStep
  <1>2. ASSUME NEW w \in CronWorkers, ClaimBatch(w)
        PROVE  RowsLeased'
    <2>1. UNCHANGED <<inbound, saved, lapses>>
      BY <1>2 DEF ClaimBatch, outVars
    <2>2. \A r \in Rows : lapsed'[r] => lapsed[r] /\ status'[r] = status[r]
      BY <1>2 DEF ClaimBatch
    <2> QED BY <2>1, <2>2
  <1>3. ASSUME NEW w \in Dispatchers, NEW i \in Inbounds, Enqueue(w, i)
        PROVE  RowsLeased'
    <2>1. \A r \in Rows : saved'[r] = saved[r] /\ lapsed'[r] = lapsed[r] /\ lapses'[r] = lapses[r]
      BY <1>3 DEF Enqueue, outVars
    <2>2. \A r \in Rows : inbound'[r] \notin Photos => inbound[r] \notin Photos
      BY <1>3, OutboxAssumption DEF History
    <2>3. \A r \in Rows : lapsed[r] => status'[r] = "leased"
      BY <1>3 DEF Enqueue, Accepted
    <2> QED BY <2>1, <2>2, <2>3
  <1>4. ASSUME NEW w \in Workers, Crash(w)
        PROVE  RowsLeased'
    BY <1>4 DEF Crash, rowVars, outVars
  <1>5. ASSUME NEW r \in Rows, LeaseExpires(r) \/ BackoffElapses(r) \/ BecomesObsolete(r)
        PROVE  RowsLeased'
    <2>1. CASE LeaseExpires(r)
      BY <2>1 DEF LeaseExpires
    <2>2. CASE BackoffElapses(r) \/ BecomesObsolete(r)
      BY <2>2 DEF BackoffElapses, BecomesObsolete, outVars
    <2> QED BY <1>5, <2>1, <2>2
  <1>6. CASE UNCHANGED vars
    BY <1>6 DEF vars, rowVars, outVars
  <1> QED BY <1>1, <1>2, <1>3, <1>4, <1>5, <1>6 DEF Next

\* A worker that goes on to its next row has done with this one.
LEMMA NextRowHand ==
  ASSUME LeaseInv, NEW w \in Workers, phase[w] \notin {"idle", "pick"}, NextRow(w),
         todo' = todo, inbound' = inbound, saved' = saved, lapses' = lapses,
         \A r \in Rows : r # cur[w] => (Owns(w, r)' <=> Owns(w, r))
  PROVE  HandSound(w)'
  <1> USE DEF LeaseInv, DeliveryInv, TypeOK, WorkType, RowType
  <1>1. cur[w] \in Rows /\ cur'[w] = None /\ phase'[w] \in {"pick", "idle"}
    BY DEF NextRow
  <1>2. w \in Dispatchers => todo[w] = {}
    BY DEF HandSound
  <1>3. phase'[w] = "idle" => todo[w] = {}
    BY <1>2 DEF NextRow
  <1>4. \A r \in Rows : Engaged(w, r)' => r \in todo[w] /\ r # cur[w] /\ Engaged(w, r)
    BY <1>1, OutboxAssumption DEF Engaged, HandSound
  <1>5. \A r \in Rows : r # cur[w] => seen'[w][r] = seen[w][r]
    BY <1>1 DEF NextRow
  <1>6. ASSUME NEW r \in Rows, Engaged(w, r)'
        PROVE  /\ lapses'[r] = 0 => Owns(w, r)'
               /\ Owns(w, r)' /\ inbound'[r] \in Photos => seen'[w][r] = saved'[r]
               /\ inbound'[r] \notin Photos => seen'[w][r] = {}
    BY <1>4, <1>5, <1>6 DEF HandSound
  <1> QED BY <1>1, <1>2, <1>3, <1>6 DEF HandSound

\* The part that is sent or recorded next is the only one.
LEMMA NextPartUnique ==
  ASSUME NEW w, NEW p \in Parts, NEW q \in Parts, NextPart(w, p), NextPart(w, q),
         OutboxAssumption
  PROVE  p = q
  BY DEF NextPart, Parts

\* A send changes what a worker knows only of a plain reply.
LEMMA SendPartHand ==
  ASSUME LeaseInv, NEW w \in Workers, SendPart(w)
  PROVE  HandSound(w)'
  <1> USE DEF LeaseInv, DeliveryInv, TypeOK, WorkType, RowType
  <1> DEFINE c == cur[w]
  <1>1. PICK p \in Parts : NextPart(w, p) /\ (Acknowledged(w, c, p) \/ Failed(w, c, p))
    BY DEF SendPart
  <1>2. /\ c \in Rows /\ phase[w] = "send" /\ cur' = cur /\ todo' = todo /\ lapses' = lapses
        /\ inbound' = inbound /\ saved' = saved
        /\ \A r \in Rows : Owns(w, r)' <=> Owns(w, r)
    BY DEF SendPart, rowVars, Owns
  <1>3. \A r \in Rows : Engaged(w, r)' => Engaged(w, r)
    BY <1>2 DEF Engaged
  <1>4. Engaged(w, c) /\ c \notin todo[w] /\ (w \in Dispatchers => todo[w] = {})
    BY <1>2 DEF Engaged, HandSound
  <1>5. p \in PartsOf(c) /\ p \notin seen[w][c]
    BY <1>1 DEF NextPart, Remaining
  <1>6. inbound[c] \notin Photos => p = 1 /\ seen[w][c] = {}
    BY <1>2, <1>4, <1>5 DEF PartsOf, HandSound
  <1>7. \A r \in Rows : r # c => seen'[w][r] = seen[w][r]
    BY <1>1, <1>2 DEF Acknowledged, Failed
  <1>8. CASE inbound[c] \in Photos
    <2>1. seen' = seen
      BY <1>1, <1>8 DEF Acknowledged, Failed
    <2>2. phase'[w] \in {"send", "checkpoint", "retry", "giveup"}
      BY <1>1, <1>2, <1>8 DEF Acknowledged, Failed
    <2> QED BY <1>2, <1>3, <1>4, <1>8, <2>1, <2>2 DEF HandSound
  <1>9. CASE inbound[c] \notin Photos
    <2>1. \/ phase'[w] = "send" /\ seen'[w][c] = {1}
          \/ phase'[w] \in {"send", "retry", "giveup"} /\ seen'[w][c] = {}
      BY <1>1, <1>2, <1>6, <1>9 DEF Acknowledged, Failed
    <2> QED BY <1>2, <1>3, <1>4, <1>7, <1>9, <2>1 DEF HandSound
  <1> QED BY <1>8, <1>9

\* A checkpoint enters row and copy together, or neither.
LEMMA RecordPartHand ==
  ASSUME LeaseInv, NEW w \in Workers, RecordPart(w)
  PROVE  HandSound(w)'
  <1> USE DEF LeaseInv, DeliveryInv, TypeOK, WorkType, RowType
  <1> DEFINE c == cur[w]
  <1>1. /\ c \in Rows /\ phase[w] = "checkpoint" /\ cur' = cur /\ todo' = todo /\ lapses' = lapses
        /\ inbound' = inbound /\ inbound[c] \in Photos
        /\ \A r \in Rows : Owns(w, r)' <=> Owns(w, r)
    BY DEF RecordPart, outVars, Owns, HandSound
  <1>2. \A r \in Rows : Engaged(w, r)' => Engaged(w, r)
    BY <1>1 DEF Engaged
  <1>3. Engaged(w, c) /\ c \notin todo[w] /\ (w \in Dispatchers => todo[w] = {})
    BY <1>1 DEF Engaged, HandSound
  <1>4. CASE phase'[w] = "retry" /\ saved' = saved /\ seen' = seen
    BY <1>1, <1>2, <1>3, <1>4 DEF HandSound
  <1>5. ASSUME NEW p \in Parts, Owns(w, c),
               saved' = [saved EXCEPT ![c] = @ \cup {p}],
               seen'  = [seen EXCEPT ![w][c] = @ \cup {p}],
               phase' = [phase EXCEPT ![w] = "send"]
        PROVE  HandSound(w)'
    <2>1. phase'[w] = "send" /\ saved'[c] = saved[c] \cup {p} /\ seen'[w][c] = seen[w][c] \cup {p}
      BY <1>1, <1>5
    <2>2. \A r \in Rows : r # c => seen'[w][r] = seen[w][r] /\ saved'[r] = saved[r]
      BY <1>1, <1>5
    <2>3. seen'[w][c] = saved'[c]
      BY <1>1, <1>3, <1>5, <2>1 DEF HandSound
    <2>4. ASSUME NEW r \in Rows, Engaged(w, r)'
          PROVE  /\ lapses'[r] = 0 => Owns(w, r)'
                 /\ Owns(w, r)' /\ inbound'[r] \in Photos => seen'[w][r] = saved'[r]
                 /\ inbound'[r] \notin Photos => seen'[w][r] = {}
      <3>1. CASE r = c
        BY <1>1, <1>5, <2>3, <3>1
      <3>2. CASE r # c
        BY <1>1, <1>2, <2>2, <2>4, <3>2 DEF HandSound
      <3> QED BY <3>1, <3>2
    <2> QED BY <1>1, <1>3, <2>1, <2>4 DEF HandSound
  <1> QED BY <1>1, <1>4, <1>5 DEF RecordPart

\* Every step leaves the hand of its own worker sound.
LEMMA WorkerStepHand ==
  ASSUME LeaseInv, NEW w \in Workers, WorkerStep(w)
  PROVE  HandSound(w)'
  <1> USE DEF LeaseInv, DeliveryInv, TypeOK, WorkType, RowType
  <1> DEFINE c == cur[w]
  <1>1. CASE ClaimInline(w)
    <2>1. /\ c \in Rows /\ w \in Dispatchers /\ todo[w] = {} /\ todo' = todo /\ cur' = cur
          /\ inbound' = inbound /\ saved' = saved
      BY <1>1 DEF ClaimInline, HandSound
    <2>2. CASE InlineClaimable(c)
      <3>1. phase'[w] = "send" /\ seen'[w][c] = saved[c] /\ Owns(w, c)'
        BY <1>1, <2>1, <2>2 DEF ClaimInline, Owns
      <3>2. \A r \in Rows : Engaged(w, r)' => r = c
        BY <2>1 DEF Engaged
      <3> QED BY <2>1, <3>1, <3>2 DEF HandSound, RowsLeased
    <2>3. CASE ~InlineClaimable(c)
      BY <1>1, <2>1, <2>3 DEF ClaimInline, HandSound, Engaged
    <2> QED BY <2>2, <2>3
  <1>2. CASE ReadStatus(w)
    <2>1. w \in Dispatchers /\ todo[w] = {} /\ todo' = todo /\ phase'[w] \in {"record", "idle"}
      BY <1>2 DEF ReadStatus, HandSound
    <2> QED BY <2>1 DEF HandSound, Engaged
  <1>3. CASE PickRow(w)
    <2>1. CASE todo[w] = {}
      BY <1>3, <2>1 DEF PickRow, HandSound, Engaged
    <2>2. ASSUME NEW r \in todo[w],
                 cur' = [cur EXCEPT ![w] = r],
                 todo' = [todo EXCEPT ![w] = @ \ {r}],
                 phase' = [phase EXCEPT ![w] = "send"]
          PROVE  HandSound(w)'
      <3>1. /\ phase[w] = "pick" /\ phase'[w] = "send" /\ cur'[w] = r /\ todo'[w] = todo[w] \ {r}
            /\ UNCHANGED <<inbound, saved, seen, lapses>> /\ r \in Rows
            /\ \A s \in Rows : Owns(w, s)' <=> Owns(w, s)
        BY <1>3, <2>2 DEF PickRow, rowVars, outVars, Owns
      <3>2. \A s \in Rows : Engaged(w, s)' => Engaged(w, s) /\ s \in todo[w]
        BY <3>1 DEF Engaged
      <3> QED BY <3>1, <3>2 DEF HandSound
    <2> QED BY <1>3, <2>1, <2>2 DEF PickRow
  <1>4. CASE MarkSent(w)
    <2>1. /\ c \in Rows /\ phase[w] = "send" /\ phase'[w] = "record" /\ cur' = cur /\ todo' = todo
          /\ UNCHANGED <<inbound, saved, seen, lapses>>
          /\ \A r \in Rows : r # c => (Owns(w, r)' <=> Owns(w, r))
      BY <1>4 DEF MarkSent, outVars, Owns
    <2>2. \A r \in Rows : Engaged(w, r)' => r # c /\ r \in todo[w] /\ Engaged(w, r)
      BY <2>1 DEF Engaged, HandSound
    <2> QED BY <2>1, <2>2 DEF HandSound
  <1>5. CASE MarkFailed(w)
    <2>1. \A r \in Rows : r # c => (Owns(w, r)' <=> Owns(w, r))
      BY <1>5 DEF MarkFailed, Owns
    <2> QED BY <1>5, <2>1, NextRowHand DEF MarkFailed, outVars
  <1>6. CASE RecordResponse(w)
    <2>1. \A r \in Rows : Owns(w, r)' <=> Owns(w, r)
      BY <1>6 DEF RecordResponse, rowVars, Owns
    <2> QED BY <1>6, <2>1, NextRowHand DEF RecordResponse, rowVars
  <1> QED
    BY <1>1, <1>2, <1>3, <1>4, <1>5, <1>6, SendPartHand, RecordPartHand DEF WorkerStep

\* So every step leaves every hand sound.
LEMMA StepHands ==
  ASSUME LeaseInv, History, [Next]_vars, NEW v \in Workers
  PROVE  HandSound(v)'
  <1> USE DEF LeaseInv, DeliveryInv, TypeOK, WorkType, RowType
  <1>1. ASSUME NEW w \in Workers, WorkerStep(w)
        PROVE  HandSound(v)'
    BY <1>1, WorkerStepUndisturbed, UndisturbedHand, WorkerStepHand
  <1>2. ASSUME NEW w \in Workers, Crash(w)
        PROVE  HandSound(v)'
    <2>1. CASE v = w
      BY <1>2, <2>1, OutboxAssumption DEF Crash, HandSound, Engaged
    <2>2. CASE v # w
      BY <1>2, <2>2, OtherStepUndisturbed, UndisturbedHand
    <2> QED BY <2>1, <2>2
  <1>3. ASSUME NEW w \in CronWorkers, ClaimBatch(w)
        PROVE  HandSound(v)'
    <2>1. CASE v = w
      <3>1. /\ w \notin Dispatchers /\ phase'[w] \in {"idle", "pick"}
            /\ phase'[w] = "idle" => todo'[w] = {}
            /\ inbound' = inbound /\ saved' = saved
        BY <1>3, OutboxAssumption DEF ClaimBatch
      <3>2. \A r \in Rows : Engaged(w, r)' => r \in todo'[w]
        BY <3>1 DEF Engaged
      <3>3. \A r \in Rows : r \in todo'[w] => Owns(w, r)' /\ seen'[w][r] = saved[r]
        BY <1>3 DEF ClaimBatch, Owns, Reclaimable
      <3> QED BY <2>1, <3>1, <3>2, <3>3 DEF HandSound, RowsLeased
    <2>2. CASE v # w
      BY <1>3, <2>2, OtherStepUndisturbed, UndisturbedHand
    <2> QED BY <2>1, <2>2
  <1>4. ASSUME NEW w \in Dispatchers, NEW i \in Inbounds, Enqueue(w, i)
        PROVE  HandSound(v)'
    <2>1. CASE v = w
      <3>1. phase'[w] = "claim" /\ todo'[w] = {}
        BY <1>4 DEF Enqueue, HandSound
      <3> QED BY <2>1, <3>1 DEF HandSound, Engaged
    <2>2. CASE v # w
      BY <1>4, <2>2, OtherStepUndisturbed, UndisturbedHand
    <2> QED BY <2>1, <2>2
  <1> QED
    BY <1>1, <1>2, <1>3, <1>4, EnvironmentUndisturbed, UndisturbedHand DEF Next

\* It holds at first.
LEMMA InitLease == Init => LeaseInv
  <1> SUFFICES ASSUME Init PROVE RowsLeased /\ \A w \in Workers : HandSound(w)
    BY InitDelivery DEF LeaseInv
  <1>1. RowsLeased
    BY DEF Init, RowsLeased
  <1>2. ASSUME NEW w \in Workers PROVE HandSound(w)
    BY DEF Init, HandSound, Engaged
  <1> QED BY <1>1, <1>2

\* It is inductive.
LEMMA StepLease == LeaseInv /\ [Next]_vars => LeaseInv'
  <1> SUFFICES ASSUME LeaseInv, [Next]_vars PROVE LeaseInv'
    OBVIOUS
  <1>1. DeliveryInv' /\ History
    BY StepDelivery, StepHistory DEF LeaseInv
  <1> QED BY <1>1, StepRowsLeased, StepHands DEF LeaseInv

\* Who has a row in hand owns it until a lease of it lapses, and an owner
\* knows every checkpoint of it.
THEOREM LeaseInvariant == Spec => []LeaseInv
  BY InitLease, StepLease, PTL DEF Spec

\* Two processes have a row in hand only after a lease of it has lapsed.
THEOREM HoldersNeedLapse == Spec => []TwoHoldersNeedLapse
  <1>1. ASSUME LeaseInv PROVE TwoHoldersNeedLapse
    <2> SUFFICES ASSUME NEW r \in Rows, NEW v \in Workers, NEW w \in Workers,
                        Engaged(v, r), Engaged(w, r), v # w
                 PROVE  lapses[r] >= 1
      BY DEF TwoHoldersNeedLapse
    <2>1. lapses[r] \in Nat
      BY <1>1 DEF LeaseInv, DeliveryInv, TypeOK, CountType
    <2>2. lapses[r] = 0 => Owns(v, r) /\ Owns(w, r)
      BY <1>1 DEF LeaseInv, HandSound
    <2> QED BY <2>1, <2>2 DEF Owns
  <1> QED BY <1>1, LeaseInvariant, PTL

\* The lease owner of a reply with photos never sends an acknowledged part
\* again: it knows the checkpoints as they are in the row.
THEOREM OwnersResumeCurrent == Spec => []ResumePointCurrent
  <1>1. LeaseInv => ResumePointCurrent
    BY DEF LeaseInv, HandSound, ResumePointCurrent
  <1> QED BY <1>1, LeaseInvariant, PTL

(***************************************************************************)
(* Copies: how often a part may still go out.                              *)
(***************************************************************************)

\* Worker w may send part p of row r before it is done with the row.
MaySend(w, r, p) ==
  /\ p \notin seen[w][r]
  /\ \/ r \in todo[w]
     \/ cur[w] = r /\ phase[w] = "send"
     \/ cur[w] = r /\ phase[w] = "checkpoint" /\ ~NextPart(w, p)

\* It failed and may put the row back for another owner, part p included.
MayReturn(w, r, p) ==
  /\ p \notin seen[w][r] /\ cur[w] = r /\ phase[w] \in {"retry", "giveup"}
  /\ Owns(w, r) /\ ~lapsed[r]

Routes == 1..NRoutes

\* A worker's calls with the part that may still come: by every route, except
\* those that failed for the part it is at.
Calls(r, p) ==
  {c \in Workers \X Routes :
     /\ MaySend(c[1], r, p)
     /\ cur[c[1]] = r /\ phase[c[1]] = "send" /\ NextPart(c[1], p) => tried[c[1]] < c[2]}

Holders(r, p) == {w \in Workers : MaySend(w, r, p) \/ MayReturn(w, r, p)}

\* The next claim of the row sends part p.
Open(r, p) ==
  p \notin saved[r] /\ (status[r] \in {"absent", "pending", "failed"} \/ lapsed[r])

OpenCount(r, p) == IF Open(r, p) THEN 1 ELSE 0

\* The copies that went out and those that may still go out of claims made.
CopiesClaimed ==
  \A r \in Rows : \A p \in Parts :
    /\ IsFiniteSet(Calls(r, p))
    /\ delivered[r][p] + Cardinality(Calls(r, p)) <= NRoutes * attempts[r]

\* The same and what the next claim may add; a claim that takes the row from
\* nobody needs a lapse, and a part that is out and unknown an error.
CopiesCaused ==
  \A r \in Rows : \A p \in Parts :
    /\ IsFiniteSet(Holders(r, p))
    /\ delivered[r][p] + Cardinality(Holders(r, p)) + OpenCount(r, p)
         <= 1 + ambiguous[r] + lapses[r]

CopyInv == LeaseInv /\ CopiesClaimed /\ CopiesCaused

\* A subset of a finite set has no more elements;
LEMMA FewerOf ==
  ASSUME NEW S, NEW T, IsFiniteSet(S), T \subseteq S
  PROVE  /\ IsFiniteSet(T) /\ Cardinality(T) \in Nat /\ Cardinality(S) \in Nat
         /\ Cardinality(T) <= Cardinality(S)
  BY FS_Subset, FS_CardinalityType

\* with one element added, at most one more;
LEMMA OneMoreOf ==
  ASSUME NEW S, NEW T, NEW x, IsFiniteSet(S), T \subseteq S \cup {x}
  PROVE  /\ IsFiniteSet(T) /\ Cardinality(T) \in Nat /\ Cardinality(S) \in Nat
         /\ Cardinality(T) <= Cardinality(S) + 1
  <1>1. /\ IsFiniteSet(S \cup {x}) /\ Cardinality(S) \in Nat
        /\ Cardinality(S \cup {x}) <= Cardinality(S) + 1
    <2>1. Cardinality(S) \in Nat
      BY FS_CardinalityType
    <2>2. /\ IsFiniteSet(S \cup {x})
          /\ Cardinality(S \cup {x}) = IF x \in S THEN Cardinality(S) ELSE Cardinality(S) + 1
      BY FS_AddElement
    <2> QED BY <2>1, <2>2
  <1>2. /\ IsFiniteSet(T) /\ Cardinality(T) \in Nat
        /\ Cardinality(T) <= Cardinality(S \cup {x}) /\ Cardinality(S \cup {x}) \in Nat
    BY <1>1, FewerOf
  <1> QED BY <1>1, <1>2

\* without one of its elements, at least one fewer.
LEMMA OneLessOf ==
  ASSUME NEW S, NEW T, NEW x, IsFiniteSet(S), x \in S, T \subseteq S \ {x}
  PROVE  /\ IsFiniteSet(T) /\ Cardinality(T) \in Nat /\ Cardinality(S) \in Nat
         /\ Cardinality(T) + 1 <= Cardinality(S)
  <1>1. /\ IsFiniteSet(S \ {x}) /\ Cardinality(S) \in Nat
        /\ Cardinality(S \ {x}) = Cardinality(S) - 1
    BY FS_RemoveElement, FS_CardinalityType
  <1>2. /\ IsFiniteSet(T) /\ Cardinality(T) \in Nat
        /\ Cardinality(T) <= Cardinality(S \ {x}) /\ Cardinality(S \ {x}) \in Nat
    BY <1>1, FewerOf
  <1> QED BY <1>1, <1>2

\* with a worker's routes added, at most NRoutes more.
LEMMA RoutesMoreOf ==
  ASSUME NEW S, NEW T, NEW w, IsFiniteSet(S), T \subseteq S \cup ({w} \X Routes)
  PROVE  /\ IsFiniteSet(T) /\ Cardinality(T) \in Nat /\ Cardinality(S) \in Nat
         /\ Cardinality(T) <= Cardinality(S) + NRoutes
  <1> DEFINE W == {w} \X Routes
  <1>1. /\ IsFiniteSet(Routes) /\ Cardinality(Routes) = NRoutes /\ NRoutes \in Nat
    <2>1. 1 \in Int /\ NRoutes \in Int /\ NRoutes >= 1
      BY OutboxAssumption
    <2> QED BY <2>1, FS_Interval DEF Routes
  <1>2. /\ IsFiniteSet(W) /\ Cardinality(W) = NRoutes
    <2>1. IsFiniteSet({w}) /\ Cardinality({w}) = 1
      BY FS_Singleton
    <2>2. IsFiniteSet(W) /\ Cardinality(W) = Cardinality({w}) * Cardinality(Routes)
      BY <1>1, <2>1, FS_Product
    <2> QED BY <1>1, <2>1, <2>2
  <1>3. /\ IsFiniteSet(S \cup W) /\ Cardinality(S) \in Nat
        /\ Cardinality(S \cup W) <= Cardinality(S) + NRoutes
    <2>1. /\ Cardinality(S) \in Nat /\ Cardinality(S \cap W) \in Nat
      BY <1>2, FS_CardinalityType, FS_Intersection
    <2>2. /\ IsFiniteSet(S \cup W)
          /\ Cardinality(S \cup W) = Cardinality(S) + Cardinality(W) - Cardinality(S \cap W)
      BY <1>2, FS_Union
    <2> QED BY <1>1, <1>2, <2>1, <2>2
  <1>4. /\ IsFiniteSet(T) /\ Cardinality(T) \in Nat
        /\ Cardinality(T) <= Cardinality(S \cup W) /\ Cardinality(S \cup W) \in Nat
    <2>1. T \subseteq S \cup W
      OBVIOUS
    <2> HIDE DEF W
    <2> QED BY <1>3, <2>1, FewerOf
  <1> QED BY <1>1, <1>3, <1>4

\* What the counts of a row and a part may do in a step.
Quieter(r, p) ==
  /\ delivered'[r][p] = delivered[r][p] /\ attempts'[r] = attempts[r]
  /\ ambiguous'[r] \in {ambiguous[r], ambiguous[r] + 1} /\ lapses'[r] = lapses[r]
  /\ Calls(r, p)' \subseteq Calls(r, p) /\ Holders(r, p)' \subseteq Holders(r, p)
  /\ Open(r, p)' => Open(r, p)

Claims(w, r, p) ==
  /\ delivered'[r][p] = delivered[r][p] /\ attempts'[r] = attempts[r] + 1
  /\ ambiguous'[r] = ambiguous[r] /\ lapses'[r] = lapses[r] /\ ~Open(r, p)'
  /\ Calls(r, p)' \subseteq Calls(r, p) \cup ({w} \X Routes)
  /\ IF Open(r, p) THEN Holders(r, p)' \subseteq Holders(r, p) \cup {w}
     ELSE Holders(r, p)' \subseteq Holders(r, p)

Delivers(w, r, p) ==
  /\ delivered'[r][p] = delivered[r][p] + 1 /\ attempts'[r] = attempts[r]
  /\ lapses'[r] = lapses[r] /\ (Open(r, p)' => Open(r, p))
  /\ \E c \in Calls(r, p) : Calls(r, p)' \subseteq Calls(r, p) \ {c}
  /\ \/ /\ ambiguous'[r] = ambiguous[r] + 1
        /\ Holders(r, p)' \subseteq Holders(r, p)
     \/ /\ ambiguous'[r] = ambiguous[r]
        /\ w \in Holders(r, p) /\ Holders(r, p)' \subseteq Holders(r, p) \ {w}

Returns(w, r, p) ==
  /\ delivered'[r][p] = delivered[r][p] /\ attempts'[r] = attempts[r]
  /\ ambiguous'[r] = ambiguous[r] /\ lapses'[r] = lapses[r]
  /\ Calls(r, p)' \subseteq Calls(r, p)
  /\ w \in Holders(r, p) /\ Holders(r, p)' \subseteq Holders(r, p) \ {w}

Lapses(r, p) ==
  /\ delivered'[r][p] = delivered[r][p] /\ attempts'[r] = attempts[r]
  /\ ambiguous'[r] = ambiguous[r] /\ lapses'[r] = lapses[r] + 1
  /\ Calls(r, p)' \subseteq Calls(r, p) /\ Holders(r, p)' \subseteq Holders(r, p)

CountsMove(r, p) ==
  \/ Quieter(r, p) \/ Lapses(r, p)
  \/ \E w \in Workers : Claims(w, r, p) \/ Delivers(w, r, p) \/ Returns(w, r, p)

\* Each of these moves keeps both sums.
LEMMA CountsHold ==
  ASSUME CopyInv, NEW r \in Rows, NEW p \in Parts, CountsMove(r, p)
  PROVE  /\ IsFiniteSet(Calls(r, p))'
         /\ (delivered[r][p] + Cardinality(Calls(r, p)) <= NRoutes * attempts[r])'
         /\ IsFiniteSet(Holders(r, p))'
         /\ (delivered[r][p] + Cardinality(Holders(r, p)) + OpenCount(r, p)
               <= 1 + ambiguous[r] + lapses[r])'
  <1> DEFINE S == Calls(r, p)   T == Calls(r, p)'
             H == Holders(r, p)   K == Holders(r, p)'
             d == delivered[r][p]
  <1>1. /\ d \in Nat /\ attempts[r] \in Nat /\ ambiguous[r] \in Nat /\ lapses[r] \in Nat
        /\ NRoutes \in Nat /\ NRoutes * attempts[r] \in Nat
    <2>1. delivered[r] \in [Parts -> Nat]
      BY DEF CopyInv, LeaseInv, DeliveryInv, TypeOK, CountType
    <2>2. attempts[r] \in Nat
      BY OutboxAssumption DEF CopyInv, LeaseInv, DeliveryInv, TypeOK, RowType
    <2> QED BY <2>1, <2>2, OutboxAssumption DEF CopyInv, LeaseInv, DeliveryInv, TypeOK, CountType
  <1>2. /\ IsFiniteSet(S) /\ d + Cardinality(S) <= NRoutes * attempts[r]
        /\ IsFiniteSet(H) /\ d + Cardinality(H) + OpenCount(r, p) <= 1 + ambiguous[r] + lapses[r]
    BY DEF CopyInv, CopiesClaimed, CopiesCaused
  <1>3. /\ OpenCount(r, p) = IF Open(r, p) THEN 1 ELSE 0
        /\ OpenCount(r, p)' = IF Open(r, p)' THEN 1 ELSE 0
    BY DEF OpenCount
  <1>4. CASE Quieter(r, p) \/ Lapses(r, p)
    <2>1. /\ T \subseteq S /\ K \subseteq H
      BY <1>4 DEF Quieter, Lapses
    <2>2. /\ IsFiniteSet(T) /\ Cardinality(T) \in Nat /\ Cardinality(S) \in Nat
          /\ Cardinality(T) <= Cardinality(S)
      BY <1>2, <2>1, FewerOf
    <2>3. /\ IsFiniteSet(K) /\ Cardinality(K) \in Nat /\ Cardinality(H) \in Nat
          /\ Cardinality(K) <= Cardinality(H)
      BY <1>2, <2>1, FewerOf
    <2> QED BY <1>1, <1>2, <1>3, <1>4, <2>2, <2>3 DEF Quieter, Lapses
  <1>5. ASSUME NEW w \in Workers, Claims(w, r, p)
        PROVE  /\ IsFiniteSet(T) /\ delivered'[r][p] + Cardinality(T) <= NRoutes * attempts'[r]
               /\ IsFiniteSet(K)
               /\ delivered'[r][p] + Cardinality(K) + OpenCount(r, p)'
                    <= 1 + ambiguous'[r] + lapses'[r]
    <2>1. /\ IsFiniteSet(T) /\ Cardinality(T) \in Nat /\ Cardinality(S) \in Nat
          /\ Cardinality(T) <= Cardinality(S) + NRoutes
      BY <1>2, <1>5, RoutesMoreOf DEF Claims
    <2>0. NRoutes * attempts'[r] = NRoutes * attempts[r] + NRoutes
      BY <1>1, <1>5 DEF Claims
    <2>2. CASE Open(r, p)
      <3>1. /\ IsFiniteSet(K) /\ Cardinality(K) \in Nat /\ Cardinality(H) \in Nat
            /\ Cardinality(K) <= Cardinality(H) + 1
        BY <1>2, <1>5, <2>2, OneMoreOf DEF Claims
      <3> QED BY <1>1, <1>2, <1>3, <1>5, <2>0, <2>1, <2>2, <3>1 DEF Claims
    <2>3. CASE ~Open(r, p)
      <3>1. /\ IsFiniteSet(K) /\ Cardinality(K) \in Nat /\ Cardinality(H) \in Nat
            /\ Cardinality(K) <= Cardinality(H)
        BY <1>2, <1>5, <2>3, FewerOf DEF Claims
      <3> QED BY <1>1, <1>2, <1>3, <1>5, <2>0, <2>1, <2>3, <3>1 DEF Claims
    <2> QED BY <2>2, <2>3
  <1>6. ASSUME NEW w \in Workers, Delivers(w, r, p)
        PROVE  /\ IsFiniteSet(T) /\ delivered'[r][p] + Cardinality(T) <= NRoutes * attempts'[r]
               /\ IsFiniteSet(K)
               /\ delivered'[r][p] + Cardinality(K) + OpenCount(r, p)'
                    <= 1 + ambiguous'[r] + lapses'[r]
    <2>1. /\ IsFiniteSet(T) /\ Cardinality(T) \in Nat /\ Cardinality(S) \in Nat
          /\ Cardinality(T) + 1 <= Cardinality(S)
      <3>1. PICK c \in S : T \subseteq S \ {c}
        BY <1>6 DEF Delivers
      <3> QED BY <1>2, <3>1, OneLessOf
    <2>2. CASE ambiguous'[r] = ambiguous[r] + 1 /\ K \subseteq H
      <3>1. /\ IsFiniteSet(K) /\ Cardinality(K) \in Nat /\ Cardinality(H) \in Nat
            /\ Cardinality(K) <= Cardinality(H)
        BY <1>2, <2>2, FewerOf
      <3> QED BY <1>1, <1>2, <1>3, <1>6, <2>1, <2>2, <3>1 DEF Delivers
    <2>3. CASE ambiguous'[r] = ambiguous[r] /\ w \in H /\ K \subseteq H \ {w}
      <3>1. /\ IsFiniteSet(K) /\ Cardinality(K) \in Nat /\ Cardinality(H) \in Nat
            /\ Cardinality(K) + 1 <= Cardinality(H)
        BY <1>2, <2>3, OneLessOf
      <3> QED BY <1>1, <1>2, <1>3, <1>6, <2>1, <2>3, <3>1 DEF Delivers
    <2> QED BY <1>6, <2>2, <2>3 DEF Delivers
  <1>7. ASSUME NEW w \in Workers, Returns(w, r, p)
        PROVE  /\ IsFiniteSet(T) /\ delivered'[r][p] + Cardinality(T) <= NRoutes * attempts'[r]
               /\ IsFiniteSet(K)
               /\ delivered'[r][p] + Cardinality(K) + OpenCount(r, p)'
                    <= 1 + ambiguous'[r] + lapses'[r]
    <2>1. /\ IsFiniteSet(T) /\ Cardinality(T) \in Nat /\ Cardinality(S) \in Nat
          /\ Cardinality(T) <= Cardinality(S)
      BY <1>2, <1>7, FewerOf DEF Returns
    <2>2. /\ IsFiniteSet(K) /\ Cardinality(K) \in Nat /\ Cardinality(H) \in Nat
          /\ Cardinality(K) + 1 <= Cardinality(H)
      BY <1>2, <1>7, OneLessOf DEF Returns
    <2> QED BY <1>1, <1>2, <1>3, <1>7, <2>1, <2>2 DEF Returns
  <1> QED BY <1>4, <1>5, <1>6, <1>7 DEF CountsMove

\* Workers that do not move send and return no more than before.
LEMMA UndisturbedCounts ==
  ASSUME LeaseInv, History, NEW v \in Workers, Undisturbed(v), NEW r \in Rows, NEW p \in Parts
  PROVE  /\ MaySend(v, r, p)' => MaySend(v, r, p)
         /\ MayReturn(v, r, p)' => MayReturn(v, r, p)
         /\ \A k \in Routes : <<v, k>> \in Calls(r, p)' => <<v, k>> \in Calls(r, p)
  <1> USE DEF LeaseInv, DeliveryInv, TypeOK, WorkType, FlagType
  <1>1. /\ phase'[v] = phase[v] /\ cur'[v] = cur[v] /\ todo'[v] = todo[v] /\ seen'[v] = seen[v]
        /\ tried'[v] = tried[v]
        /\ Owns(v, r)' => Owns(v, r) /\ (lapsed[r] => lapsed'[r])
    BY DEF Undisturbed
  <1>2. MayReturn(v, r, p)' => MayReturn(v, r, p)
    BY <1>1 DEF MayReturn
  <1>3. cur[v] = r /\ phase[v] \in {"checkpoint", "send"} => (NextPart(v, p)' <=> NextPart(v, p))
    <2> SUFFICES ASSUME cur[v] = r, phase[v] \in {"checkpoint", "send"}
                 PROVE  NextPart(v, p)' <=> NextPart(v, p)
      OBVIOUS
    <2>1. inbound'[r] = inbound[r]
      BY EngagedInserted DEF History, Engaged
    <2> QED BY <1>1, <2>1 DEF NextPart, Remaining, PartsOf
  <1>4. MaySend(v, r, p)' => MaySend(v, r, p)
    BY <1>1, <1>3 DEF MaySend
  <1>5. ASSUME NEW k \in Routes, <<v, k>> \in Calls(r, p)'
        PROVE  <<v, k>> \in Calls(r, p)
    <2>1. /\ MaySend(v, r, p)'
          /\ cur'[v] = r /\ phase'[v] = "send" /\ NextPart(v, p)' => tried'[v] < k
      BY <1>5 DEF Calls
    <2>2. /\ MaySend(v, r, p)
          /\ cur[v] = r /\ phase[v] = "send" /\ NextPart(v, p) => tried[v] < k
      BY <1>1, <1>3, <1>4, <2>1
    <2> QED BY <2>2 DEF Calls
  <1> QED BY <1>2, <1>4, <1>5

\* If nobody moves, there are no more calls and no more holders.
LEMMA UndisturbedSets ==
  ASSUME LeaseInv, History, \A v \in Workers : Undisturbed(v), NEW r \in Rows, NEW p \in Parts
  PROVE  Calls(r, p)' \subseteq Calls(r, p) /\ Holders(r, p)' \subseteq Holders(r, p)
  <1>1. \A v \in Workers :
          /\ MaySend(v, r, p)' => MaySend(v, r, p)
          /\ MayReturn(v, r, p)' => MayReturn(v, r, p)
          /\ \A k \in Routes : <<v, k>> \in Calls(r, p)' => <<v, k>> \in Calls(r, p)
    BY UndisturbedCounts
  <1>2. Holders(r, p)' \subseteq Holders(r, p)
    BY <1>1 DEF Holders
  <1>3. \A c \in Calls(r, p)' : c[1] \in Workers /\ c[2] \in Routes /\ c = <<c[1], c[2]>>
    BY DEF Calls
  <1> QED BY <1>1, <1>2, <1>3

\* If only w moves, the counts change by w at most.
LEMMA OthersCount ==
  ASSUME LeaseInv, History, NEW w \in Workers,
         \A v \in Workers : v # w => Undisturbed(v), NEW r \in Rows, NEW p \in Parts
  PROVE  /\ Calls(r, p)' \subseteq Calls(r, p) \cup ({w} \X Routes)
         /\ Holders(r, p)' \subseteq Holders(r, p) \cup {w}
         /\ (\A k \in Routes : <<w, k>> \in Calls(r, p)' => <<w, k>> \in Calls(r, p))
              => Calls(r, p)' \subseteq Calls(r, p)
         /\ (MaySend(w, r, p)' \/ MayReturn(w, r, p)' => MaySend(w, r, p) \/ MayReturn(w, r, p))
              => Holders(r, p)' \subseteq Holders(r, p)
         /\ ~MaySend(w, r, p)' => Calls(r, p)' \subseteq Calls(r, p) \ ({w} \X Routes)
         /\ ~MaySend(w, r, p)' /\ ~MayReturn(w, r, p)' => Holders(r, p)' \subseteq Holders(r, p) \ {w}
  <1>1. \A v \in Workers : v # w =>
          /\ MaySend(v, r, p)' => MaySend(v, r, p)
          /\ MayReturn(v, r, p)' => MayReturn(v, r, p)
          /\ \A k \in Routes : <<v, k>> \in Calls(r, p)' => <<v, k>> \in Calls(r, p)
    BY UndisturbedCounts
  <1>2. /\ Holders(r, p) = {v \in Workers : MaySend(v, r, p) \/ MayReturn(v, r, p)}
        /\ Holders(r, p)' = {v \in Workers : MaySend(v, r, p)' \/ MayReturn(v, r, p)'}
    BY DEF Holders
  <1>3. \A c \in Calls(r, p)' : c \in Workers \X Routes /\ MaySend(c[1], r, p)'
    BY DEF Calls
  <1>4. ASSUME NEW c \in Calls(r, p)'
        PROVE  /\ c[1] \in Workers /\ c[2] \in Routes /\ c = <<c[1], c[2]>>
               /\ c[1] # w => c \in Calls(r, p)
    <2>1. c[1] \in Workers /\ c[2] \in Routes /\ c = <<c[1], c[2]>>
      BY <1>3, <1>4
    <2> QED BY <1>1, <1>4, <2>1
  <1>5. Calls(r, p)' \subseteq Calls(r, p) \cup ({w} \X Routes)
    BY <1>4
  <1>6. (\A k \in Routes : <<w, k>> \in Calls(r, p)' => <<w, k>> \in Calls(r, p))
          => Calls(r, p)' \subseteq Calls(r, p)
    BY <1>4
  <1>7. ~MaySend(w, r, p)' => Calls(r, p)' \subseteq Calls(r, p) \ ({w} \X Routes)
    <2>1. ASSUME ~MaySend(w, r, p)', NEW c \in Calls(r, p)'
          PROVE  c \in Calls(r, p) /\ c \notin {w} \X Routes
      <3>1. MaySend(c[1], r, p)'
        BY <1>3, <2>1
      <3>2. c[1] # w
        BY <2>1, <3>1
      <3> QED BY <1>4, <2>1, <3>2
    <2> QED BY <2>1
  <1> QED BY <1>1, <1>2, <1>5, <1>6, <1>7

\* The calls of one worker, before and after a step.
LEMMA CallsOf ==
  ASSUME NEW w \in Workers, NEW r \in Rows, NEW p \in Parts, NEW k \in Routes
  PROVE  /\ <<w, k>> \in Calls(r, p) <=>
              /\ MaySend(w, r, p)
              /\ cur[w] = r /\ phase[w] = "send" /\ NextPart(w, p) => tried[w] < k
         /\ <<w, k>> \in Calls(r, p)' <=>
              /\ MaySend(w, r, p)'
              /\ cur'[w] = r /\ phase'[w] = "send" /\ NextPart(w, p)' => tried'[w] < k
  <1>1. /\ Calls(r, p)' =
             {c \in Workers \X Routes :
                /\ MaySend(c[1], r, p)'
                /\ cur'[c[1]] = r /\ phase'[c[1]] = "send" /\ NextPart(c[1], p)'
                     => tried'[c[1]] < c[2]}
    BY DEF Calls
  <1> QED BY <1>1 DEF Calls

\* A worker leaves the row's counts and its own claims alone,
LEMMA QuietCalls ==
  ASSUME LeaseInv, History, NEW w \in Workers,
         \A v \in Workers : v # w => Undisturbed(v), NEW r \in Rows, NEW p \in Parts,
         delivered'[r][p] = delivered[r][p], attempts'[r] = attempts[r],
         ambiguous'[r] \in {ambiguous[r], ambiguous[r] + 1}, lapses'[r] = lapses[r],
         Open(r, p)' => Open(r, p),
         MaySend(w, r, p)' => MaySend(w, r, p),
         MayReturn(w, r, p)' => MaySend(w, r, p) \/ MayReturn(w, r, p),
         \A k \in Routes : <<w, k>> \in Calls(r, p)' => <<w, k>> \in Calls(r, p)
  PROVE  CountsMove(r, p)
  <1>1. Calls(r, p)' \subseteq Calls(r, p) /\ Holders(r, p)' \subseteq Holders(r, p)
    BY OthersCount
  <1> QED BY <1>1 DEF CountsMove, Quieter

\* in particular if it is not sending the row, or is done with it.
LEMMA QuietStep ==
  ASSUME LeaseInv, History, NEW w \in Workers,
         \A v \in Workers : v # w => Undisturbed(v), NEW r \in Rows, NEW p \in Parts,
         delivered'[r][p] = delivered[r][p], attempts'[r] = attempts[r],
         ambiguous'[r] \in {ambiguous[r], ambiguous[r] + 1}, lapses'[r] = lapses[r],
         Open(r, p)' => Open(r, p),
         MaySend(w, r, p)' => MaySend(w, r, p),
         MayReturn(w, r, p)' => MaySend(w, r, p) \/ MayReturn(w, r, p),
         cur[w] = r /\ phase[w] = "send" => ~MaySend(w, r, p)'
  PROVE  CountsMove(r, p)
  <1>1. ASSUME NEW k \in Routes, <<w, k>> \in Calls(r, p)' PROVE <<w, k>> \in Calls(r, p)
    BY <1>1, CallsOf
  <1> QED BY <1>1, QuietCalls

\* An inline claim turns an open row into one sender.
LEMMA ClaimInlineCounts ==
  ASSUME LeaseInv, History, NEW w \in Workers, ClaimInline(w),
         \A v \in Workers : v # w => Undisturbed(v), NEW r \in Rows, NEW p \in Parts
  PROVE  CountsMove(r, p)
  <1> USE DEF LeaseInv, DeliveryInv, TypeOK, WorkType, RowType, FlagType
  <1>1. /\ cur[w] \in Rows /\ todo[w] = {} /\ todo' = todo /\ cur' = cur /\ saved' = saved
        /\ lapsed' = lapsed /\ UNCHANGED <<delivered, ambiguous, lapses>> /\ phase[w] = "claim"
    BY DEF ClaimInline, HandSound, outVars
  <1>2. CASE r = cur[w] /\ InlineClaimable(r)
    <2>1. /\ status[r] \in {"pending", "failed"} /\ status'[r] = "leased" /\ ~lapsed[r]
          /\ attempts'[r] = attempts[r] + 1 /\ phase'[w] = "send" /\ seen'[w][r] = saved[r]
      BY <1>1, <1>2 DEF ClaimInline, InlineClaimable, RowsLeased
    <2>2. ~Open(r, p)' /\ (Open(r, p) <=> p \notin saved[r])
      BY <1>1, <2>1 DEF Open
    <2>3. ~MayReturn(w, r, p)' /\ (p \in saved[r] => ~MaySend(w, r, p)')
      BY <2>1 DEF MayReturn, MaySend
    <2>4. Calls(r, p)' \subseteq Calls(r, p) \cup ({w} \X Routes)
      BY OthersCount
    <2>5. IF Open(r, p) THEN Holders(r, p)' \subseteq Holders(r, p) \cup {w}
          ELSE Holders(r, p)' \subseteq Holders(r, p)
      BY <2>2, <2>3, OthersCount
    <2>6. Claims(w, r, p)
      BY <1>1, <2>1, <2>2, <2>4, <2>5 DEF Claims
    <2> QED BY <2>6 DEF CountsMove
  <1>3. CASE ~(r = cur[w] /\ InlineClaimable(r))
    <2>1. ~MaySend(w, r, p)' /\ ~MayReturn(w, r, p)'
      BY <1>1, <1>3 DEF ClaimInline, MaySend, MayReturn
    <2>2. attempts'[r] = attempts[r] /\ status'[r] = status[r]
      BY <1>1, <1>3 DEF ClaimInline
    <2>3. Open(r, p)' => Open(r, p)
      BY <1>1, <2>2 DEF Open
    <2> QED BY <1>1, <2>1, <2>2, <2>3, QuietStep
  <1> QED BY <1>2, <1>3

\* A send spends the sender's turn with the part, or leaves it an error.
LEMMA SendPartCounts ==
  ASSUME LeaseInv, History, NEW w \in Workers, SendPart(w),
         \A v \in Workers : v # w => Undisturbed(v), NEW r \in Rows, NEW q \in Parts
  PROVE  CountsMove(r, q)
  <1> USE DEF LeaseInv, DeliveryInv, TypeOK, WorkType, RowType, FlagType, CountType
  <1> DEFINE c == cur[w]
  <1>1. PICK p \in Parts : NextPart(w, p) /\ (Acknowledged(w, c, p) \/ Failed(w, c, p))
    BY DEF SendPart
  <1>2. /\ c \in Rows /\ phase[w] = "send" /\ cur' = cur /\ todo' = todo /\ c \notin todo[w]
        /\ UNCHANGED <<status, attempts, lapsed, lapses, saved, inbound, owner>>
    BY DEF SendPart, rowVars, HandSound
  <1>3. Open(r, q)' <=> Open(r, q)
    BY <1>2 DEF Open
  <1>4. p \notin seen[w][c]
    BY <1>1 DEF NextPart, Remaining
  <1>5. delivered[c] \in [Parts -> Nat] /\ tried[w] \in 0..(NRoutes - 1) /\ NRoutes \in Nat
    BY <1>2, OutboxAssumption
  <1>6. CASE r # c
    <2>1. delivered'[r] = delivered[r] /\ ambiguous'[r] = ambiguous[r] /\ seen'[w][r] = seen[w][r]
      BY <1>1, <1>2, <1>6 DEF Acknowledged, Failed
    <2>2. MaySend(w, r, q)' => MaySend(w, r, q)
      BY <1>2, <1>6, <2>1 DEF MaySend
    <2>3. ~MayReturn(w, r, q)'
      BY <1>2, <1>6 DEF MayReturn
    <2> QED BY <1>2, <1>3, <1>6, <2>1, <2>2, <2>3, QuietStep
  <1>7. CASE r = c /\ (q # p \/ delivered' = delivered)
    <2>1. delivered'[r][q] = delivered[r][q] /\ ambiguous'[r] \in {ambiguous[r], ambiguous[r] + 1}
      BY <1>1, <1>2, <1>5, <1>7 DEF Acknowledged, Failed
    <2>2. seen[w][c] \subseteq seen'[w][c]
      BY <1>1, <1>2 DEF Acknowledged, Failed
    <2>3. MaySend(w, r, q)' \/ MayReturn(w, r, q)' => MaySend(w, r, q)
      BY <1>2, <1>7, <2>2 DEF MaySend, MayReturn
    <2>4. ASSUME NEW k \in Routes, <<w, k>> \in Calls(r, q)' PROVE <<w, k>> \in Calls(r, q)
      <3>1. MaySend(w, r, q) /\ MaySend(w, r, q)'
        BY <2>3, <2>4, CallsOf
      <3>2. CASE q # p
        <4>1. ~NextPart(w, q)
          BY <1>1, <3>2, NextPartUnique, OutboxAssumption
        <4> QED BY <3>1, <4>1, CallsOf
      <3>3. CASE q = p /\ delivered' = delivered
        <4>1. Failed(w, c, p)
          <5>1. delivered[c][p] \in Nat
            BY <1>5
          <5>2. ~Acknowledged(w, c, p)
            BY <1>2, <1>5, <3>3, <5>1 DEF Acknowledged
          <5> QED BY <1>1, <5>2
        <4>2. seen' = seen /\ phase'[w] \in {"send", "retry", "giveup"}
          BY <1>2, <4>1 DEF Failed
        <4>3. phase'[w] = "send" /\ tried'[w] = tried[w] + 1
          BY <1>2, <1>7, <3>1, <4>1, <4>2 DEF Failed, MaySend
        <4>4. NextPart(w, q)'
          BY <1>1, <1>2, <3>3, <4>2 DEF NextPart, Remaining, PartsOf
        <4>5. tried'[w] < k
          BY <1>2, <1>7, <2>4, <4>3, <4>4, CallsOf
        <4>6. tried[w] < k
          BY <1>5, <4>3, <4>5 DEF Routes
        <4> QED BY <3>1, <4>6, CallsOf
      <3> QED BY <1>7, <3>2, <3>3
    <2> QED BY <1>2, <1>3, <2>1, <2>3, <2>4, QuietCalls
  <1>8. CASE r = c /\ q = p /\ delivered' # delivered
    <2>1. delivered'[r][q] = delivered[r][q] + 1
      BY <1>1, <1>2, <1>5, <1>8 DEF Acknowledged, Failed
    <2> DEFINE k == tried[w] + 1
    <2>2. k \in Routes /\ <<w, k>> \in {w} \X Routes
      BY <1>5 DEF Routes
    <2>3. MaySend(w, r, q) /\ w \in Holders(r, q) /\ <<w, k>> \in Calls(r, q)
      <3>1. MaySend(w, r, q)
        BY <1>2, <1>4, <1>8 DEF MaySend
      <3>2. tried[w] < k
        BY <1>5
      <3> QED BY <2>2, <3>1, <3>2, CallsOf DEF Holders
    <2>4. CASE Acknowledged(w, c, p)
      <3>1. ~MaySend(w, r, q)' /\ ~MayReturn(w, r, q)'
        <4>1. CASE inbound[c] \in Photos
          <5>1. phase'[w] = "checkpoint" /\ seen' = seen
            BY <1>2, <2>4, <4>1 DEF Acknowledged
          <5>2. NextPart(w, p)'
            BY <1>1, <1>2, <5>1 DEF NextPart, Remaining, PartsOf
          <5> QED BY <1>2, <1>8, <5>1, <5>2 DEF MaySend, MayReturn
        <4>2. CASE inbound[c] \notin Photos
          <5>1. phase'[w] = "send" /\ p \in seen'[w][c]
            BY <1>2, <2>4, <4>2 DEF Acknowledged
          <5> QED BY <1>2, <1>8, <5>1 DEF MaySend, MayReturn
        <4> QED BY <4>1, <4>2
      <3>2. /\ Calls(r, q)' \subseteq Calls(r, q) \ ({w} \X Routes)
            /\ Holders(r, q)' \subseteq Holders(r, q) \ {w}
        BY <3>1, OthersCount
      <3>3. Calls(r, q)' \subseteq Calls(r, q) \ {<<w, k>>}
        BY <2>2, <3>2
      <3>4. ambiguous'[r] = ambiguous[r]
        BY <2>4 DEF Acknowledged
      <3>5. Delivers(w, r, q)
        BY <1>2, <1>3, <2>1, <2>3, <3>2, <3>3, <3>4 DEF Delivers
      <3> QED BY <3>5 DEF CountsMove
    <2>5. CASE Failed(w, c, p)
      <3>1. /\ phase'[w] \in {"send", "retry", "giveup"} /\ seen' = seen
            /\ phase'[w] = "send" => tried'[w] = tried[w] + 1
            /\ ambiguous'[r] = ambiguous[r] + 1
        BY <1>2, <1>8, <2>5 DEF Failed
      <3>2. MaySend(w, r, q)' => phase'[w] = "send"
        BY <1>2, <1>8, <3>1 DEF MaySend
      <3>3. NextPart(w, q)'
        BY <1>1, <1>2, <1>8, <3>1 DEF NextPart, Remaining, PartsOf
      <3>4. ASSUME NEW j \in Routes, <<w, j>> \in Calls(r, q)'
            PROVE  <<w, j>> \in Calls(r, q) /\ j # k
        <4>1. phase'[w] = "send" /\ tried'[w] < j
          BY <1>2, <1>8, <3>2, <3>3, <3>4, CallsOf
        <4>2. tried[w] + 1 < j
          BY <3>1, <4>1
        <4>3. tried[w] < j /\ j # k
          BY <1>5, <4>2 DEF Routes
        <4> QED BY <2>3, <4>3, CallsOf
      <3>5. Calls(r, q)' \subseteq Calls(r, q)
        BY <3>4, OthersCount
      <3>6. <<w, k>> \notin Calls(r, q)'
        BY <2>2, <3>4
      <3>7. Holders(r, q)' \subseteq Holders(r, q)
        <4>1. MaySend(w, r, q) /\ w \in Holders(r, q)
          BY <2>3
        <4> QED BY <4>1, OthersCount
      <3>8. Delivers(w, r, q)
        BY <1>2, <1>3, <2>1, <2>3, <3>1, <3>5, <3>6, <3>7 DEF Delivers
      <3> QED BY <3>8 DEF CountsMove
    <2> QED BY <1>1, <2>4, <2>5
  <1> QED BY <1>6, <1>7, <1>8

\* A checkpoint gives nobody a part to send.
LEMMA RecordPartCounts ==
  ASSUME LeaseInv, History, NEW w \in Workers, RecordPart(w),
         \A v \in Workers : v # w => Undisturbed(v), NEW r \in Rows, NEW q \in Parts
  PROVE  CountsMove(r, q)
  <1> USE DEF LeaseInv, DeliveryInv, TypeOK, WorkType, RowType, FlagType
  <1> DEFINE c == cur[w]
  <1>1. /\ c \in Rows /\ phase[w] = "checkpoint" /\ cur' = cur /\ todo' = todo /\ c \notin todo[w]
        /\ UNCHANGED <<status, attempts, lapsed, lapses, owner, delivered, ambiguous>>
    BY DEF RecordPart, outVars, HandSound
  <1>2. PICK p \in Parts :
          /\ NextPart(w, p)
          /\ \/ /\ saved' = [saved EXCEPT ![c] = @ \cup {p}]
                /\ seen'  = [seen EXCEPT ![w][c] = @ \cup {p}]
                /\ phase' = [phase EXCEPT ![w] = "send"]
             \/ /\ ~(Owns(w, c) /\ ~lapsed[c]) /\ UNCHANGED <<saved, seen>>
                /\ phase' = [phase EXCEPT ![w] = "retry"]
    BY DEF RecordPart
  <1>3. saved[r] \subseteq saved'[r]
    BY <1>1, <1>2
  <1>4. Open(r, q)' => Open(r, q)
    BY <1>1, <1>3 DEF Open
  <1>5. MaySend(w, r, q)' => MaySend(w, r, q)
    <2>1. CASE r # c
      <3>1. seen'[w][r] = seen[w][r]
        BY <1>1, <1>2, <2>1
      <3> QED BY <1>1, <2>1, <3>1 DEF MaySend
    <2>2. CASE r = c /\ phase'[w] = "retry"
      BY <1>1, <2>2 DEF MaySend
    <2>3. CASE r = c /\ seen' = [seen EXCEPT ![w][c] = @ \cup {p}]
      <3>1. seen'[w][c] = seen[w][c] \cup {p}
        BY <1>1, <2>3
      <3>2. NextPart(w, q) => q = p
        BY <1>2, NextPartUnique, OutboxAssumption
      <3> QED BY <1>1, <2>3, <3>1, <3>2 DEF MaySend
    <2> QED BY <1>2, <2>1, <2>2, <2>3
  <1>6. ~MayReturn(w, r, q)'
    BY <1>1, <1>2 DEF MayReturn, Owns
  <1> QED BY <1>1, <1>4, <1>5, <1>6, QuietStep

\* A failed attempt returns the parts it did not record.
LEMMA MarkFailedCounts ==
  ASSUME LeaseInv, History, NEW w \in Workers, MarkFailed(w),
         \A v \in Workers : v # w => Undisturbed(v), NEW r \in Rows, NEW p \in Parts
  PROVE  CountsMove(r, p)
  <1> USE DEF LeaseInv, DeliveryInv, TypeOK, WorkType, RowType, FlagType
  <1> DEFINE c == cur[w]
  <1>1. /\ c \in Rows /\ phase[w] \in {"retry", "giveup"} /\ todo' = todo /\ c \notin todo[w]
        /\ UNCHANGED <<attempts, lapses, delivered, ambiguous, saved>>
        /\ phase'[w] \in {"pick", "idle"}
    BY DEF MarkFailed, NextRow, outVars, HandSound
  <1>2. MaySend(w, r, p)' => r # c
    BY <1>1 DEF MaySend
  <1>3. r # c => seen'[w][r] = seen[w][r]
    BY <1>1 DEF MarkFailed, NextRow
  <1>4. MaySend(w, r, p)' => MaySend(w, r, p)
    BY <1>1, <1>2, <1>3 DEF MaySend
  <1>5. ~MayReturn(w, r, p)'
    BY <1>1 DEF MayReturn
  <1>6. CASE r = c /\ Owns(w, r) /\ ~lapsed[r] /\ p \notin saved[r]
    <2>1. Engaged(w, r)
      BY <1>1, <1>6 DEF Engaged
    <2>2. seen[w][r] = saved[r]
      <3>1. CASE inbound[r] \in Photos
        BY <1>6, <2>1, <3>1 DEF HandSound
      <3>2. CASE inbound[r] \notin Photos
        <4>1. HandSound(w) /\ saved[r] = {} /\ phase[w] # "send"
          BY <1>1, <3>2 DEF RowsLeased
        <4> QED BY <2>1, <3>2, <4>1 DEF HandSound
      <3> QED BY <3>1, <3>2
    <2>3. MayReturn(w, r, p)
      BY <1>1, <1>6, <2>2 DEF MayReturn
    <2>4. w \in Holders(r, p)
      BY <2>3 DEF Holders
    <2>5. ~MaySend(w, r, p)'
      BY <1>2, <1>6
    <2>6. /\ Calls(r, p)' \subseteq Calls(r, p)
          /\ Holders(r, p)' \subseteq Holders(r, p) \ {w}
      BY <1>5, <2>5, OthersCount
    <2>7. Returns(w, r, p)
      BY <1>1, <2>4, <2>6 DEF Returns
    <2> QED BY <2>7 DEF CountsMove
  <1>7. CASE ~(r = c /\ Owns(w, r) /\ ~lapsed[r] /\ p \notin saved[r])
    <2>1. \/ status'[r] = status[r] /\ lapsed'[r] = lapsed[r]
          \/ r = c /\ Owns(w, r)
      BY <1>1 DEF MarkFailed
    <2>2. Open(r, p)' => Open(r, p)
      BY <1>1, <1>7, <2>1 DEF Open
    <2> QED BY <1>1, <1>4, <1>5, <2>2, QuietStep
  <1> QED BY <1>6, <1>7

\* Every step of a worker is one of the moves,
LEMMA WorkerStepCounts ==
  ASSUME LeaseInv, History, NEW w \in Workers, WorkerStep(w), NEW r \in Rows, NEW p \in Parts
  PROVE  CountsMove(r, p)
  <1> USE DEF LeaseInv, DeliveryInv, TypeOK, WorkType, RowType, FlagType
  <1>0. \A v \in Workers : v # w => Undisturbed(v)
    BY WorkerStepUndisturbed
  <1>1. CASE ReadStatus(w)
    <2>1. todo'[w] = {} /\ phase'[w] \in {"record", "idle"} /\ phase[w] = "status"
      BY <1>1 DEF ReadStatus, HandSound
    <2>2. ~MaySend(w, r, p)' /\ ~MayReturn(w, r, p)'
      BY <2>1 DEF MaySend, MayReturn
    <2>3. UNCHANGED <<status, lapsed, saved, attempts, delivered, ambiguous, lapses>>
      BY <1>1 DEF ReadStatus, rowVars, outVars
    <2> QED BY <1>0, <2>1, <2>2, <2>3, QuietStep DEF Open
  <1>2. CASE PickRow(w)
    <2>1. /\ UNCHANGED <<status, lapsed, saved, attempts, delivered, ambiguous, lapses, seen>>
          /\ phase[w] = "pick"
      BY <1>2 DEF PickRow, rowVars, outVars
    <2>2. ~MayReturn(w, r, p)'
      BY <1>2 DEF PickRow, MayReturn
    <2>3. MaySend(w, r, p)' => MaySend(w, r, p)
      BY <1>2, <2>1 DEF PickRow, MaySend
    <2> QED BY <1>0, <2>1, <2>2, <2>3, QuietStep DEF Open
  <1>3. CASE MarkSent(w)
    <2>1. /\ UNCHANGED <<saved, attempts, delivered, ambiguous, lapses, seen, cur, todo>>
          /\ phase'[w] = "record" /\ cur[w] \in Rows /\ cur[w] \notin todo[w]
      BY <1>3 DEF MarkSent, HandSound, outVars
    <2>2. ~MayReturn(w, r, p)' /\ (MaySend(w, r, p)' => MaySend(w, r, p))
      BY <2>1 DEF MayReturn, MaySend
    <2>3. \/ status'[r] = status[r] /\ lapsed'[r] = lapsed[r]
          \/ status'[r] = "sent" /\ ~lapsed'[r]
      BY <1>3, <2>1 DEF MarkSent
    <2>4. Open(r, p)' => Open(r, p)
      BY <2>1, <2>3 DEF Open
    <2>5. cur[w] = r => ~MaySend(w, r, p)'
      BY <2>1 DEF MaySend
    <2> QED BY <1>0, <2>1, <2>2, <2>4, <2>5, QuietStep
  <1>4. CASE RecordResponse(w)
    <2>1. /\ UNCHANGED <<status, lapsed, saved, attempts, delivered, ambiguous, lapses, todo>>
          /\ phase'[w] \in {"pick", "idle"} /\ cur[w] \in Rows /\ cur[w] \notin todo[w]
          /\ phase[w] = "record"
      BY <1>4 DEF RecordResponse, NextRow, rowVars, HandSound
    <2>2. r # cur[w] => seen'[w][r] = seen[w][r]
      BY <1>4, <2>1 DEF RecordResponse, NextRow
    <2>3. ~MayReturn(w, r, p)' /\ (MaySend(w, r, p)' => MaySend(w, r, p))
      BY <2>1, <2>2 DEF MayReturn, MaySend
    <2> QED BY <1>0, <2>1, <2>3, QuietStep DEF Open
  <1> QED
    BY <1>0, <1>1, <1>2, <1>3, <1>4, ClaimInlineCounts, SendPartCounts, RecordPartCounts,
       MarkFailedCounts DEF WorkerStep

\* so is a batch claim,
LEMMA ClaimBatchCounts ==
  ASSUME LeaseInv, History, NEW w \in CronWorkers, ClaimBatch(w), NEW r \in Rows, NEW p \in Parts
  PROVE  CountsMove(r, p)
  <1> USE DEF LeaseInv, DeliveryInv, TypeOK, WorkType, RowType, FlagType
  <1>0. \A v \in Workers : v # w => Undisturbed(v)
    BY OtherStepUndisturbed
  <1>1. /\ UNCHANGED <<saved, delivered, ambiguous, lapses>>
        /\ phase'[w] \in {"pick", "idle"} /\ phase[w] = "idle"
    BY DEF ClaimBatch, outVars
  <1>2. ~MayReturn(w, r, p)' /\ (MaySend(w, r, p)' => r \in todo'[w] /\ p \notin seen'[w][r])
    BY <1>1 DEF MayReturn, MaySend
  <1>3. CASE r \in todo'[w]
    <2>1. /\ status'[r] = "leased" /\ ~lapsed'[r] /\ attempts'[r] = attempts[r] + 1
          /\ seen'[w][r] = saved[r]
          /\ status[r] \in {"pending", "failed"} \/ lapsed[r]
      BY <1>3 DEF ClaimBatch, Reclaimable
    <2>2. ~Open(r, p)' /\ (Open(r, p) <=> p \notin saved[r])
      BY <1>1, <2>1 DEF Open
    <2>3. p \in saved[r] => ~MaySend(w, r, p)'
      BY <1>2, <2>1
    <2>4. Calls(r, p)' \subseteq Calls(r, p) \cup ({w} \X Routes)
      BY <1>0, OthersCount
    <2>5. IF Open(r, p) THEN Holders(r, p)' \subseteq Holders(r, p) \cup {w}
          ELSE Holders(r, p)' \subseteq Holders(r, p)
      BY <1>0, <1>2, <2>2, <2>3, OthersCount
    <2>6. Claims(w, r, p)
      BY <1>1, <2>1, <2>2, <2>4, <2>5 DEF Claims
    <2> QED BY <2>6 DEF CountsMove
  <1>4. CASE r \notin todo'[w]
    <2>1. /\ attempts'[r] = attempts[r]
          /\ \/ status'[r] = status[r] /\ lapsed'[r] = lapsed[r]
             \/ status'[r] = "dead" /\ ~lapsed'[r]
      <3> DEFINE Buried == {s \in Rows : Reclaimable(s) /\ obsolete[s]}
      <3>1. PICK S \in SUBSET Rows :
              /\ status' = [s \in Rows |-> IF s \in Buried THEN "dead"
                                           ELSE IF s \in S THEN "leased" ELSE status[s]]
              /\ attempts' = [s \in Rows |-> IF s \in S THEN attempts[s] + 1 ELSE attempts[s]]
              /\ lapsed' = [s \in Rows |-> lapsed[s] /\ s \notin S \cup Buried]
              /\ todo' = [todo EXCEPT ![w] = S]
        BY Zenon DEF ClaimBatch
      <3>2. r \notin S
        BY <1>4, <3>1
      <3> QED BY <3>1, <3>2
    <2>2. Open(r, p)' => Open(r, p)
      BY <1>1, <2>1 DEF Open
    <2> QED BY <1>0, <1>1, <1>2, <1>4, <2>1, <2>2, QuietStep
  <1> QED BY <1>3, <1>4

\* and so is every step.
LEMMA StepCounts ==
  ASSUME LeaseInv, [Next]_vars, NEW r \in Rows, NEW p \in Parts
  PROVE  CountsMove(r, p)
  <1> USE DEF LeaseInv, DeliveryInv, TypeOK, WorkType, RowType, FlagType, CountType
  <1>0. History
    BY StepHistory
  <1>1. ASSUME NEW w \in Workers, Crash(w)
        PROVE  CountsMove(r, p)
    <2>1. \A v \in Workers : v # w => Undisturbed(v)
      BY <1>1, OtherStepUndisturbed
    <2>2. todo'[w] = {} /\ phase'[w] = "idle"
      BY <1>1 DEF Crash
    <2>3. ~MaySend(w, r, p)' /\ ~MayReturn(w, r, p)'
      BY <2>2 DEF MaySend, MayReturn
    <2>4. UNCHANGED <<status, lapsed, saved, attempts, delivered, ambiguous, lapses>>
      BY <1>1 DEF Crash, rowVars, outVars
    <2> QED BY <1>0, <2>1, <2>3, <2>4, QuietStep DEF Open
  <1>2. ASSUME NEW w \in Dispatchers, NEW i \in Inbounds, Enqueue(w, i)
        PROVE  CountsMove(r, p)
    <2>1. \A v \in Workers : v # w => Undisturbed(v)
      BY <1>2, OtherStepUndisturbed
    <2>2. todo'[w] = {} /\ phase'[w] = "claim"
      BY <1>2 DEF Enqueue, HandSound
    <2>3. ~MaySend(w, r, p)' /\ ~MayReturn(w, r, p)'
      BY <2>2 DEF MaySend, MayReturn
    <2>4. UNCHANGED <<lapsed, saved, attempts, delivered, ambiguous, lapses>>
      BY <1>2 DEF Enqueue, outVars
    <2>5. status'[r] = status[r] \/ status[r] = "absent"
      BY <1>2 DEF Enqueue
    <2>6. Open(r, p)' => Open(r, p)
      BY <2>4, <2>5 DEF Open
    <2> QED BY <1>0, <2>1, <2>3, <2>4, <2>6, QuietStep
  <1>3. ASSUME NEW s \in Rows, LeaseExpires(s) \/ BackoffElapses(s) \/ BecomesObsolete(s)
        PROVE  CountsMove(r, p)
    <2>1. \A v \in Workers : Undisturbed(v)
      BY <1>3, EnvironmentUndisturbed
    <2>2. Calls(r, p)' \subseteq Calls(r, p) /\ Holders(r, p)' \subseteq Holders(r, p)
      BY <1>0, <2>1, UndisturbedSets
    <2>3. UNCHANGED <<status, saved, attempts, delivered, ambiguous>>
      BY <1>3 DEF LeaseExpires, BackoffElapses, BecomesObsolete, outVars
    <2>4. CASE LeaseExpires(s) /\ r = s
      BY <2>2, <2>3, <2>4 DEF LeaseExpires, CountsMove, Lapses
    <2>5. CASE ~(LeaseExpires(s) /\ r = s)
      <3>1. lapses'[r] = lapses[r] /\ lapsed'[r] = lapsed[r]
        BY <1>3, <2>5 DEF LeaseExpires, BackoffElapses, BecomesObsolete, outVars
      <3> QED BY <2>2, <2>3, <3>1 DEF CountsMove, Quieter, Open
    <2> QED BY <2>4, <2>5
  <1>4. CASE UNCHANGED vars
    <2>1. \A v \in Workers : Undisturbed(v)
      BY <1>4, EnvironmentUndisturbed
    <2>2. Calls(r, p)' \subseteq Calls(r, p) /\ Holders(r, p)' \subseteq Holders(r, p)
      BY <1>0, <2>1, UndisturbedSets
    <2> QED BY <1>4, <2>2 DEF vars, rowVars, outVars, CountsMove, Quieter, Open
  <1> QED
    BY <1>0, <1>1, <1>2, <1>3, <1>4, WorkerStepCounts, ClaimBatchCounts DEF Next

\* Nothing is out and nobody holds a row at first.
LEMMA InitCopies == Init => CopyInv
  <1> SUFFICES ASSUME Init PROVE CopiesClaimed /\ CopiesCaused
    BY InitLease DEF CopyInv
  <1>1. \A r \in Rows : \A p \in Parts : Calls(r, p) = {} /\ Holders(r, p) = {}
    BY DEF Init, Calls, Holders, MaySend, MayReturn
  <1>2. \A r \in Rows : \A p \in Parts :
          delivered[r][p] = 0 /\ attempts[r] = 0 /\ ambiguous[r] = 0 /\ lapses[r] = 0
    BY DEF Init
  <1>3. CopiesClaimed
    <2>1. NRoutes * 0 = 0
      BY OutboxAssumption
    <2> QED BY <1>1, <1>2, <2>1, FS_EmptySet DEF CopiesClaimed
  <1>4. CopiesCaused
    BY <1>1, <1>2, FS_EmptySet DEF CopiesCaused, OpenCount
  <1> QED BY <1>3, <1>4

\* Both sums are kept.
LEMMA StepCopies == CopyInv /\ [Next]_vars => CopyInv'
  <1> SUFFICES ASSUME CopyInv, [Next]_vars PROVE CopyInv'
    OBVIOUS
  <1>1. LeaseInv'
    BY StepLease DEF CopyInv
  <1>2. CopiesClaimed'
    BY StepCounts, CountsHold DEF CopyInv, CopiesClaimed
  <1>3. CopiesCaused'
    BY StepCounts, CountsHold DEF CopyInv, CopiesCaused
  <1> QED BY <1>1, <1>2, <1>3 DEF CopyInv

\* Copies that are out, and those that claims made may still add, are paid for
\* by claims, and by errors and lapses.
THEOREM CopyInvariant == Spec => []CopyInv
  BY InitCopies, StepCopies, PTL DEF Spec

\* A customer never gets a part more often than the claims of its row times the
\* routes of a part, whatever died, lapsed or answered an error.
THEOREM CopiesAreBounded == Spec => []CopiesBounded
  <1>1. ASSUME CopyInv PROVE CopiesBounded
    <2> SUFFICES ASSUME NEW r \in Rows, NEW p \in Parts
                 PROVE  delivered[r][p] <= NRoutes * attempts[r]
      BY DEF CopiesBounded
    <2>1. delivered[r] \in [Parts -> Nat] /\ NRoutes * attempts[r] \in Nat
      BY <1>1, OutboxAssumption
         DEF CopyInv, LeaseInv, DeliveryInv, TypeOK, CountType, RowType
    <2>2. Cardinality(Calls(r, p)) \in Nat
      BY <1>1, FS_CardinalityType DEF CopyInv, CopiesClaimed
    <2> QED BY <1>1, <2>1, <2>2 DEF CopyInv, CopiesClaimed
  <1> QED BY <1>1, CopyInvariant, PTL

\* Every copy of a part after the first is owed to an error for something
\* that was delivered, or to a lease that lapsed under its worker.
THEOREM DuplicatesHaveCauses == Spec => []DuplicateNeedsCause
  <1>1. ASSUME CopyInv PROVE DuplicateNeedsCause
    <2> SUFFICES ASSUME NEW r \in Rows, NEW p \in Parts
                 PROVE  delivered[r][p] <= 1 + ambiguous[r] + lapses[r]
      BY DEF DuplicateNeedsCause
    <2>1. /\ delivered[r] \in [Parts -> Nat] /\ ambiguous[r] \in Nat /\ lapses[r] \in Nat
      BY <1>1 DEF CopyInv, LeaseInv, DeliveryInv, TypeOK, CountType
    <2>2. Cardinality(Holders(r, p)) \in Nat /\ OpenCount(r, p) \in Nat
      BY <1>1, FS_CardinalityType DEF CopyInv, CopiesCaused, OpenCount
    <2> QED BY <1>1, <2>1, <2>2 DEF CopyInv, CopiesCaused
  <1> QED BY <1>1, CopyInvariant, PTL

-----------------------------------------------------------------------------
(* No reply is forgotten: a row that is put back has attempts left.      *)

RowsUnclaimed == RowType /\ AttemptsLeft

\* A step that changes neither a status nor a count.
LEMMA AttemptsFrame ==
  ASSUME RowsUnclaimed, UNCHANGED <<status, attempts>>
  PROVE  AttemptsLeft'
  BY DEF RowsUnclaimed, AttemptsLeft

LEMMA EnqueueAttempts ==
  ASSUME RowsUnclaimed, NEW w \in Dispatchers, NEW i \in Inbounds, Enqueue(w, i)
  PROVE  AttemptsLeft'
  BY DEF Enqueue, Accepted, RowsUnclaimed, RowType, AttemptsLeft

LEMMA ClaimBatchAttempts ==
  ASSUME RowsUnclaimed, NEW w \in CronWorkers, ClaimBatch(w)
  PROVE  AttemptsLeft'
  BY DEF ClaimBatch, RowsUnclaimed, RowType, AttemptsLeft

LEMMA ClaimInlineAttempts ==
  ASSUME RowsUnclaimed, NEW w \in Workers, ClaimInline(w)
  PROVE  AttemptsLeft'
  BY DEF ClaimInline, RowsUnclaimed, RowType, AttemptsLeft

\* The mark and the claim compare with the same bound: what is marked failed
\* may be claimed again.
LEMMA MarkFailedAttempts ==
  ASSUME RowsUnclaimed, NEW w \in Workers, MarkFailed(w)
  PROVE  AttemptsLeft'
<1>1. UNCHANGED attempts
  BY DEF MarkFailed
<1>2. CASE UNCHANGED status
  BY <1>1, <1>2, AttemptsFrame
<1>3. CASE status' = [status EXCEPT ![cur[w]] =
                        IF phase[w] = "giveup" \/ attempts[cur[w]] >= MaxAttempts
                          THEN "dead" ELSE "failed"]
  <2>1. MaxAttempts \in Nat /\ \A r \in Rows : attempts[r] \in Nat
    BY OutboxAssumption DEF RowsUnclaimed, RowType
  <2> QED
    BY <1>1, <1>3, <2>1 DEF RowsUnclaimed, RowType, AttemptsLeft
<1> QED
  BY <1>2, <1>3 DEF MarkFailed

LEMMA MarkSentAttempts ==
  ASSUME RowsUnclaimed, NEW w \in Workers, MarkSent(w)
  PROVE  AttemptsLeft'
  BY DEF MarkSent, RowsUnclaimed, RowType, AttemptsLeft

LEMMA StepAttempts == TypeOK /\ AttemptsLeft /\ [Next]_vars => AttemptsLeft'
<1> SUFFICES ASSUME TypeOK, AttemptsLeft, [Next]_vars PROVE AttemptsLeft'
  OBVIOUS
<1>0. RowsUnclaimed
  BY DEF TypeOK, RowsUnclaimed
<1>1. ASSUME NEW w \in Workers, WorkerStep(w) \/ Crash(w) PROVE AttemptsLeft'
  <2>1. CASE UNCHANGED <<status, attempts>>
    BY <1>0, <2>1, AttemptsFrame
  <2> QED
    BY <1>0, <1>1, <2>1, ClaimInlineAttempts, MarkFailedAttempts, MarkSentAttempts
      DEF WorkerStep, ReadStatus, PickRow, SendPart, RecordPart, RecordResponse, Crash, rowVars
<1>2. CASE UNCHANGED <<status, attempts>>
  BY <1>0, <1>2, AttemptsFrame
<1> QED
  BY <1>0, <1>1, <1>2, EnqueueAttempts, ClaimBatchAttempts
    DEF Next, LeaseExpires, BackoffElapses, BecomesObsolete, vars, rowVars

\* An accepted reply is settled, claimable, leased, or stranded by a worker that
\* lost its lease on the last attempt; it never rests in between.
THEOREM RepliesAreKept == Spec => []NoReplyForgotten
<1>1. Init => AttemptsLeft
  BY DEF Init, AttemptsLeft
<1>2. Spec => []AttemptsLeft
  BY <1>1, StepAttempts, TypeCorrect, PTL DEF Spec
<1>3. DeliveryInv /\ AttemptsLeft => NoReplyForgotten
  <2> SUFFICES ASSUME DeliveryInv, AttemptsLeft, NEW r \in Rows, inbound[r] # None
               PROVE  \/ status[r] \in {"sent", "dead"}
                      \/ Reclaimable(r)
                      \/ status[r] = "leased" /\ ~lapsed[r]
                      \/ Stranded(r)
    BY DEF NoReplyForgotten
  <2>1. attempts[r] \in 0..MaxAttempts /\ MaxAttempts \in Nat \ {0} /\ lapsed[r] \in BOOLEAN
    BY OutboxAssumption DEF DeliveryInv, TypeOK, RowType, FlagType
  <2>2. status[r] \in Statuses \ {"absent"}
    BY DEF DeliveryInv, TypeOK, RowType, RowsSound
  <2>3. CASE status[r] \in {"pending", "failed"}
    BY <2>1, <2>3 DEF AttemptsLeft, Reclaimable
  <2>4. CASE status[r] = "leased"
    BY <2>1, <2>4 DEF Reclaimable, Stranded
  <2> QED
    BY <2>2, <2>3, <2>4 DEF Statuses
<1> QED
  BY <1>2, <1>3, DeliveryInvariant, PTL

=============================================================================
